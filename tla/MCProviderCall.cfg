SPECIFICATION FairSpec
CONSTANTS
    gpt = gpt
    mini = mini
    padded = padded
    blank = blank
    none = none
    Operations <- MCOperations
    Models = {gpt, mini}
    Texts <- MCTexts
    Trimmed <- MCTrimmed
    NoModel = none
    MaxRetries = 2
INVARIANTS ModelIsAllowedAndShown RetriesAreMade CancelledIsNoFailure CancelEndsTheRetries
PROPERTIES ImplementsDriverCall VerdictsAreFinal CallReturns
CHECK_DEADLOCK FALSE
