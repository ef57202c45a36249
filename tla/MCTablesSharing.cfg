CONSTANTS
    a = a
    b = b
    t1 = t1
    t2 = t2
    Objects = {t1, t2}
    Client = Client
    Names = {a, b}
    Extnames = {}
    Unnamed = Unnamed
    Types = {"Long"}
    Extents <- TwoExtents
    InitialFiles <- EmptyTable
    MaxColumns = 2
    ReadOnly = FALSE
    Faults = {}
    IntBits = 8
SPECIFICATION Spec
INVARIANTS
    TypeOK
    CacheFresh
    TdimConsistent
PROPERTIES
    ResizeEffective
    NamedColumnOnly
    ImplementsLayouts
CONSTRAINT Staleness
VIEW NoLast
SYMMETRY Symmetry
CHECK_DEADLOCK FALSE
