CONSTANTS
    a = a
    b = b
    c = c
    Source = Source
    Destination = Destination
    Names = {a, b, c}
    Null = Null
    Junk = Junk
    InitialColumns <- SmallTables
    MaxColumns = 2
    MaxRows = 2
    Sharing = {TRUE, FALSE}
    CountedLast = {Source, Destination}
    NameLists <- SomeLists
    FailAfter = {2}
    IntBits = 8
SPECIFICATION Spec
INVARIANTS
    TypeOK
PROPERTIES
    CopiedBetweenFiles
    OtherColumnsStand
    SourceStands
    RefusalOnlyDeletes
    DescribedAfterCopy
CONSTRAINT Bounds
VIEW NoLast
CHECK_DEADLOCK FALSE
