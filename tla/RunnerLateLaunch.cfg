SPECIFICATION Spec
CONSTANTS
    NULL = NULL
    Uploads = {1}
    Callers = {1}
    Concurrency = 1
    MaxRetries = 0
    RetryDelays = {}
    AppCalls = {"start", "stop"}
    MaxCalls = 2
    MaxOutages = 0
    MaxFaults = 0
    MaxTime = 0
    Handles = {1}
PROPERTIES StopQuiesces
CHECK_DEADLOCK FALSE
