CONSTANTS
    primary = primary
    table = table
    a = a
    b = b
    x = x
    y = y
    Hdus = {primary, table}
    Names = {a, b}
    Texts = {x, y}
    Numbers = {y}
    Lengths = {70, 72}
    Loops = {i}
    Initial <- TwoHeaders
    MaxCards <- Bounds
    WarningComments = 0
    Starts = {1, 3}
    Remarks = {"COMMENT"}
    None = None
    i = i
SPECIFICATION Spec
INVARIANTS
    TypeOK
    ReadsWhatWasSet
PROPERTIES
    LoopSeesAll
    LoopThrowsOnlyIfShrunk
    LoopEnds
CHECK_DEADLOCK FALSE
