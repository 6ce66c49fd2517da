SPECIFICATION Spec
CONSTANTS
    NULL = NULL
    DefaultDelay = 1
    DefaultMaxDelay = 3
    JitterSteps = 2
    Second = 2
    DateMax = 23
    Options <- MCOptions
    Headers <- MCHeaders
    Configs <- MCConfigs
    Destinations = {"path", "away"}
    Codes = {200, 401, 429, 503}
    Rejections = {"Error"}
    MaxAttempts = 3
    TimerMax = 2
    MaxCalls = 3
    MaxTime = 5
INVARIANTS CycleType NothingLeaks AbortReachesRequest
PROPERTIES ThrownSaysWhoEndedIt WaitsAsAsked RetryTaken
CHECK_DEADLOCK FALSE
