SPECIFICATION Spec
CONSTANTS
    none = none
    noText = noText
    invalid = invalid
    Rules <- MCRules
    Values <- MCValues
    Placeholders <- MCPlaceholders
    Dash = "-"
    Controls = {"newline"}
    Clean = {"/bin/x", "/srv"}
    EnvNames = {"PATH", "KEY"}
    Secrets = {"held"}
    Plain = "plain"
    NoText = noText
    Invalid = invalid
    None = none
INVARIANTS SchemaAndDriverAgree ArgumentsAreTheAuthors ApprovedIsWhatRuns
CHECK_DEADLOCK FALSE
