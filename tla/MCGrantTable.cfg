SPECIFICATION Spec
CONSTANTS
    web = web
    secret = secret
    forged = forged
    key = key
    none = none
    Grants <- MCGrants
    Drivers <- MCDrivers
    Contributes <- MCContributes
    Operations <- MCOperations
    Labels = {web, secret, forged}
    SecretClass = secret
    Reserved = {forged}
    Secrets = {key}
    NoSecret = none
INVARIANTS PermissionsAddUp DefaultsAreClosed OnlySoundGrantsBuild
CHECK_DEADLOCK FALSE
 
