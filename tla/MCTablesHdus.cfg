CONSTANTS
    a = a
    b = b
    t1 = t1
    t2 = t2
    Objects = {t1, t2}
    Client = Client
    Names = {a}
    Extnames = {a, b}
    Unnamed = Unnamed
    Types = {"Long"}
    Extents <- LongExtents
    InitialFiles <- TwoTables
    MaxColumns = 1
    ReadOnly = FALSE
    Faults = {"change", "tdim", "refresh"}
    IntBits = 8
SPECIFICATION Spec
INVARIANTS
    CacheFresh
PROPERTIES
    FailedResizeNotMasked
    ChangesStayInHdu
CONSTRAINT LoneFailures
VIEW NoLast
CHECK_DEADLOCK FALSE
