SPECIFICATION FairSpec
CONSTANTS
    NULL = NULL
    Instances = {i1}
    Uploads = {u1}
    Clients = {c1}
    Stoppers = {s1}
    Commands = {"pause", "cancel", "retry"}
    HttpCodes = {200, 503}
    Errors = {"Error"}
    MaxAttempts = 2
    RetryDelays = {1}
    Timeout = 1
    MaxClaims = 2
    MaxTime = 1
    MaxCrashes = 0
    MaxFaults = 0
PROPERTIES UserDecisionSticks ClaimsEnd StopReturns
INVARIANTS ShutdownFailsNothing AttemptsLeft
CHECK_DEADLOCK FALSE
