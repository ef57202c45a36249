CONSTANTS
    a = a
    b = b
    t1 = t1
    t2 = t2
    Objects = {t1}
    Client = Client
    Names = {a}
    Extnames = {a, b}
    Unnamed = Unnamed
    Types = {"Long"}
    Extents <- OneExtent
    InitialFiles <- TwoTables
    MaxColumns = 1
    ReadOnly = FALSE
    Faults = {}
    IntBits = 8
SPECIFICATION Spec
INVARIANTS
    HasKeywordIsOwn
CHECK_DEADLOCK FALSE
