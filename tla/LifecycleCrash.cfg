SPECIFICATION SendsSpec
CONSTANTS
    NULL = NULL
    Instances = {i1, i2}
    Uploads = {u1}
    Clients = {}
    Stoppers = {s1}
    Commands = {}
    HttpCodes = {200, 503}
    Errors = {}
    MaxAttempts = 2
    RetryDelays = {1}
    Timeout = 1
    MaxClaims = 3
    MaxTime = 3
    MaxCrashes = 1
    MaxFaults = 1
SYMMETRY Symmetry
INVARIANTS DoubleSendOnlyAfterTimeout SendsBounded ShutdownFailsNothing
PROPERTIES KeepsContract
CHECK_DEADLOCK FALSE
