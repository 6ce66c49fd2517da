SPECIFICATION Spec
CONSTANTS
    NULL = NULL
    Ids = {a, b}
    Tokens = {t1, t2, t3}
    DefaultLimit = 500
    Reports = TRUE
    SameInstant = FALSE
    MaxTime = 3
    MaxCalls = 7
SYMMETRY Symmetry
VIEW View
INVARIANTS StorageInv
PROPERTIES ImplementsMemory
CHECK_DEADLOCK FALSE
