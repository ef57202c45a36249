CONSTANTS
    a = a
    b = b
    t1 = t1
    r1 = r1
    x = x
    y = y
    Objects = {r1}
    TableObjects = {t1}
    Bases = {x, y}
    Blocks <- Struct
    Values = {"v"}
    Junk = Junk
    Names = {a, b}
    Types = {"String"}
    Extents <- NineBits
    InitialColumns <- BitsAndString
    MaxColumns = 2
    MaxEntries = 1
    MaxRows = 1
    Faulty = TRUE
    IntBits = 8
SPECIFICATION Spec
INVARIANTS
    TypeOK
PROPERTIES
    ReadsItsColumns
    WritesItsColumns
    WritesNothingElse
VIEW NoLast
CONSTRAINT Bounds
CHECK_DEADLOCK FALSE
