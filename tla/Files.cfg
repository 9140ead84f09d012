CONSTANTS
    App = {a, b}
    Daemon = {d}
    MaxName = 3
    MaxInst = 6
    MaxElem = 4
    MaxCommit = 2
    MaxFail = 1
    MaxCrash = 1
    Torn = TRUE
    Upto = TRUE
    Loads = {"apps", "daemon", "crash"}
    a = a
    b = b
    d = d
SPECIFICATION MCSpec
INVARIANTS
    FTypeOK
    
    OneCompaction
    OpenLatest
CHECK_DEADLOCK FALSE
