SPECIFICATION Spec
CONSTANTS
    NULL = NULL
    Instances = {i1, i2}
    Uploads = {u1}
    Clients = {c1}
    Stoppers = {}
    Commands = {"pause", "resume", "cancel", "retry"}
    HttpCodes = {200, 401, 503}
    Errors = {"timeout"}
    MaxAttempts = 2
    RetryDelays = {1}
    Timeout = 1
    MaxClaims = 2
    MaxTime = 2
    MaxCrashes = 1
    MaxFaults = 2
SYMMETRY Symmetry
INVARIANTS IInv ClaimIffUploading HolderSeesTruth
PROPERTIES UserDecisionSticks KeepsContract
CHECK_DEADLOCK FALSE
