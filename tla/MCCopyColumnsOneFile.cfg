CONSTANTS
    a = a
    b = b
    c = c
    Source = Source
    Destination = Destination
    Names = {a, b}
    Null = Null
    Junk = Junk
    InitialColumns <- OneColumn
    MaxColumns = 2
    MaxRows = 1
    Sharing = {TRUE}
    CountedLast = {Destination}
    NameLists <- OneName
    FailAfter = {}
    IntBits = 8
SPECIFICATION Spec
PROPERTIES
    CopiedBetweenHdus
VIEW NoLast
CHECK_DEADLOCK FALSE
