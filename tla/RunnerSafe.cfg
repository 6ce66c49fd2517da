SPECIFICATION Spec
CONSTANTS
    NULL = NULL
    Uploads = {1, 2}
    Callers = {1, 2}
    Concurrency = 1
    MaxRetries = 1
    RetryDelays = {0, 1}
    AppCalls = {"start", "park", "unpark"}
    MaxCalls = 3
    MaxOutages = 0
    MaxFaults = 0
    MaxTime = 1
    Handles = {1, 2}
INVARIANTS TypeOK SingleFlight HardCap RetriesHaveTimer
PROPERTIES OncePerPass StalledHideNobody
CHECK_DEADLOCK FALSE
