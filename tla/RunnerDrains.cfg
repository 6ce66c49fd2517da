SPECIFICATION FairSpec
CONSTANTS
    NULL = NULL
    Uploads = {1, 2, 3}
    Callers = {1, 2}
    Concurrency = 2
    MaxRetries = 0
    RetryDelays = {}
    AppCalls = {"start"}
    MaxCalls = 1
    MaxOutages = 0
    MaxFaults = 0
    MaxTime = 0
    Handles = {1}
PROPERTIES DueIsTaken ProcessReturns
CHECK_DEADLOCK FALSE
