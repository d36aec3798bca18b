SPECIFICATION Spec
CONSTANTS
    MaxLines = 4
    Sizes = {0, 2, 5}
    Contexts = {0, 1}
    MatchCaps = {0, 1, 2}
    DefaultMatches = 3
    MatchBytes = 5
    TotalBytes = 8
    Mark = 3
    RuneBytes = 2
INVARIANTS TypeOK ReplyIsTheFirstHits ReplyIsBounded
CHECK_DEADLOCK FALSE
