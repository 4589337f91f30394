SPECIFICATION WSpec
CONSTANTS
    ShardCount = 1
    Fanout = 0
    Writers = {w1, w2}
    Policies <- NoWindow
    MaxDevice = 1
    MaxNode = 5
    MaxCommit = 2
    MaxCheckpoint = 1
    MaxEpoch = 2
    MaxSegment = 2
    MarkMayFail = FALSE
SYMMETRY WriterSymmetry
INVARIANTS WriteTypeOK  BytesFollowCatalog
CHECK_DEADLOCK FALSE
