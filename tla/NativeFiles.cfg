SPECIFICATION NSpec
CONSTANTS
    BlockSize = 2
    LeafBlocks = 1
    FileBlocks = 3
    Threads = {t1, t2}
    Shards = 2
    Batches <- MCBatches
    Grants <- MCGrants
    Appends <- MCAppends
    PublishTo = {2, 5}
    Undisturbed = TRUE
    MaxKeyspaces = 2
    MaxFiles = 2
    MaxStreams = 2
    MaxAppends = 2
    MaxCommits = 7
    MaxCalls = 2
    MaxCheckpoints = 3
    MaxInputs = 5
INVARIANTS  RestoreExact PlansHold 
CHECK_DEADLOCK FALSE
SYMMETRY MCSymmetry
