CONSTANTS
    IntBits = 6
    Types = {"Bit", "Short"}
    Sizes = {1, 2}
    MaxAxes = 1
    MaxColumns = 2
SPECIFICATION RaggedSpec
INVARIANTS
    OffsetIsFirstByte
CHECK_DEADLOCK FALSE
