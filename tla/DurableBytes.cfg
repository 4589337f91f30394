SPECIFICATION Spec
CONSTANTS
    Nodes = {"n1"}
    MaxSegment = 3
    Home <- OneNode
    Prestaged = {3}
    Capacity = 2
    MaxLog = 4
    MinReclaimable = 1
    MaxCrash = 1
    Overlap = FALSE
INVARIANTS   LiveCounted
CHECK_DEADLOCK FALSE
