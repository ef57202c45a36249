CONSTANTS
    Writer = Writer
    Reader = Reader
    Other = Other
    Shared = Shared
    Elsewhere = Elsewhere
    Objects = {Writer, Reader, Other}
    TableObjects = {Shared, Elsewhere}
    Bases <- AllBases
    Blocks = {}
    Values = {"v", "w"}
    Junk = Junk
    Names = {"a", "b"}
    Types = {}
    Extents = {}
    InitialColumns <- BothTables
    MaxColumns = 2
    MaxEntries = 2
    MaxRows = 2
    Faulty = TRUE
    IntBits = 8
SPECIFICATION FairLoopsSpec
INVARIANTS
    WrittenRowsStand
    ReadAsWritten
PROPERTIES
    WritesNothingElse
    EveryRowIsRead
CHECK_DEADLOCK FALSE
