SPECIFICATION FairSpec
CONSTANTS
    Kids = {k1, k2}
    Streams = {stdout, stderr}
    Limit = 2
    MaxChunk = 2
    MaxWritten = 3
INVARIANTS OutputIsFaithful KilledIsNoVerdict OnlyTheEndedLeaveChildren FailureTellsWhy
PROPERTIES ImplementsDriverCall CallReturns
CHECK_DEADLOCK FALSE
