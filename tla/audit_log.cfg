SPECIFICATION Spec
CONSTANTS
    g1 = g1
    g2 = g2
    deployed = deployed
    deleted = deleted
    anything = anything
    Writers = {g1, g2}
    Resources = {deployed, deleted}
    AnyResource = anything
    Sink = "file"
    MaxEntries = 2
    DefaultLimit = 1
    MaxLogs = 4
    MaxClock = 1
SYMMETRY Symmetry
INVARIANTS
    TypeOK
    KeepsLatest
    ReturnedIsWritten
    QueryExact
CHECK_DEADLOCK FALSE
