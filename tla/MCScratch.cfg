SPECIFICATION FairSpec
CONSTANTS
    plain = plain
    secret = secret
    Procs = {p1, p2}
    Labels <- MCLabels
    Missing = Missing
    NoCall = NoCall
    Texts <- MCTexts
    Compact <- MCCompact
    Digest <- MCDigest
    GuestKeys <- MCGuestKeys
    Grants <- MCGrants
    MaxCalls = 3
    MaxCrashes = 1
INVARIANTS TypeOK NoLaundering SavedHoldsItsContent
PROPERTIES SavedNeverChanges RedriveIsHarmless WritesRespectEveryGrant CallsComplete ImplementsSessionMemory
CHECK_DEADLOCK FALSE
