CONSTANTS
    f1 = f1
    f2 = f2
    t1 = t1
    t2 = t2
    disk = disk
    memory = memory
    Handles = {f1, f2}
    Tables = {t1, t2}
    Stores = {disk, memory}
    Origins = {"events", "gti"}
    InitialHdus <- TwoHdus
    MaxFits = 3
    MaxHdus = 3
    Faulty = TRUE
SPECIFICATION Spec
INVARIANTS
    TypeOK
    OwnedUntilClosed
    ClosedOnce
PROPERTIES
    CopiedTableIsOwn
VIEW NoClosedPositions
CONSTRAINT TablesOrLastFits
SYMMETRY Symmetry
CHECK_DEADLOCK FALSE
