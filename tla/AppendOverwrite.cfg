SPECIFICATION ASpec
CONSTANTS
    Threads = {t1, t2}
    Devices = {}
    Files = {f1}
    Neighbours = {}
    CallKinds = {"overwrite", "flush", "abort"}
    GraceCommits = {1}
    MaxCommit = 3
    MaxFailure = 0
    MaxSweep = 0
    MaxCrash = 1
    MaxFault = 1
    MaxSize = 2
    MaxTicket = 1
    MaxEpoch = 2
    FrameMayStay = FALSE
SYMMETRY Symmetry
INVARIANT JournalReplays
CHECK_DEADLOCK FALSE
