SPECIFICATION Spec
CONSTANTS
    ShardCount = 1
    Fanout = 2
    Writers = {w1}
    Policies <- MixedPolicies
    MaxDevice = 2
    MaxNode = 7
    MaxCommit = 4
    MaxCheckpoint = 3
    MaxEpoch = 1

INVARIANTS  RecordsIntact StagedIntact ForkStartsAtFork TimelineReplays
PROPERTY HistoryStable
CHECK_DEADLOCK FALSE
