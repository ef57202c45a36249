CONSTANTS
    IntBits = 6
    Types = {"Bit", "String", "Short", "ULong", "Double"}
    Sizes = {1, 2, 3, 7}
    MaxAxes = 3
    MaxColumns = 2
SPECIFICATION Spec
INVARIANTS
    ShapeSurvivesHeader
    OffsetIsFirstByte
    SameShapeSameCount
    
    StringsReadBack
CHECK_DEADLOCK FALSE
