SPECIFICATION FairSpec
CONSTANTS
    NULL = NULL
    Uploads = {1, 2}
    Callers = {1}
    Concurrency = 1
    MaxRetries = 2
    RetryDelays = {0, 1}
    AppCalls = {"start"}
    MaxCalls = 1
    MaxOutages = 0
    MaxFaults = 0
    MaxTime = 2
    Handles = {1, 2}
PROPERTIES DueIsTaken
CHECK_DEADLOCK FALSE
