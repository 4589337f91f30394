SPECIFICATION WSpec
CONSTANTS
    ShardCount = 1
    Fanout = 2
    Writers = {w1, w2}
    Policies <- NoWindow
    MaxDevice = 1
    MaxNode = 6
    MaxCommit = 1
    MaxCheckpoint = 1
    MaxEpoch = 1
    MaxSegment = 2
    MarkMayFail = TRUE
SYMMETRY WriterSymmetry
PROPERTY RecordedNodesKept
CHECK_DEADLOCK FALSE
