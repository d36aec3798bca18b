SPECIFICATION FairSpec
CONSTANTS
    readCred = readCred
    writeCred = writeCred
    Loopback = {"localhost"}
    Bracketed = {"[::1]"}
    AnyMethod = "*"
    Names <- MCNames
    Spellings = {"Authorization", "authorization", "x-key", "host"}
    Canonical <- MCCanonical
    Unsettable = {"Host", "Content-Length"}
    Secrets = {readCred, writeCred}
    Manifests <- MCManifests
    Urls <- MCUrls
    Methods <- MCMethods
    GuestNames <- MCGuestNames
    MaxRedirects = 3
INVARIANT CredentialOnlyOnItsMethods
CHECK_DEADLOCK FALSE
