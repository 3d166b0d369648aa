SPECIFICATION Spec
CONSTANTS
    Vault = {v1, v2}
    Watched = {v1}
    Url = {u1}
    Filters <- MCFilters
    MaxRetries = 3
    MaxFired = 2
    RawKey = {k1, k2}
    EnvKeys = {env}
    EnvConfigured = TRUE
    ClientAvailable = TRUE
    Slot = {s1, s2}
    MaxRequests = 4
    MaxRestarts = 1
INVARIANTS
    TypeOK
    CriticalTracked
    DeadKeysRefused
    RegistrationKept
PROPERTIES
    HeardOrGivenUp
CHECK_DEADLOCK FALSE
