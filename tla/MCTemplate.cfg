SPECIFICATION Spec
CONSTANTS
    none = none
    Operations <- MCOperations
    Calls <- MCCalls
    DefaultBase = "https://default"
    Placeholders <- MCPlaceholders
    Reserved = {"/", "?", "{{p}}", "{{q}}", "{{operation}}"}
    Delimiters = {"/", "?"}
    AnyMethod = "*"
    Discriminator = "operation"
    Float <- MCFloat
    Exact = 8
    Plain = 5
    IntMin <- MCIntMin
    IntMax = 31
    None = none
INVARIANTS ValuesStayInTheirSlots ParametersArrive
CHECK_DEADLOCK FALSE
