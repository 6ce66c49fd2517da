SPECIFICATION Spec
CONSTANTS
    NULL = NULL
    Instances = {p1, p2}
    Slots = {1, 2}
    Migrations <- MCMigrations
    Rerunnable = {"table", "index", "later index"}
    NetStates <- MCNetStates
    Replays = TRUE
    Overlap = FALSE
    Rejections = TRUE
    MaxCalls = 4
    MaxChanges = 2
    MaxFaults = 1
    MaxCrashes = 1
SYMMETRY Symmetry
INVARIANTS SetupType SchemaTruthful ReconnectNoticed OneListener
PROPERTIES NoStaleSchema
CHECK_DEADLOCK FALSE
