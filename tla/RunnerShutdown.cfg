SPECIFICATION Spec
CONSTANTS
    NULL = NULL
    Uploads = {1, 2}
    Callers = {1, 2}
    Concurrency = 2
    MaxRetries = 0
    RetryDelays = {}
    AppCalls = {"start", "process", "stop"}
    MaxCalls = 2
    MaxOutages = 1
    MaxFaults = 1
    MaxTime = 0
    Handles = {1}
INVARIANTS IInv ClaimsAttended
PROPERTIES OncePerPass
CHECK_DEADLOCK FALSE
