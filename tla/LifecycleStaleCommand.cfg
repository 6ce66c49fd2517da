SPECIFICATION Spec
CONSTANTS
    NULL = NULL
    Instances = {i1}
    Uploads = {u1}
    Clients = {c1}
    Stoppers = {}
    Commands = {"pause"}
    HttpCodes = {200}
    Errors = {}
    MaxAttempts = 2
    RetryDelays = {1}
    Timeout = 1
    MaxClaims = 1
    MaxTime = 0
    MaxCrashes = 0
    MaxFaults = 0
PROPERTIES TerminalIsFinal
CHECK_DEADLOCK FALSE
