SPECIFICATION ASpec
CONSTANTS
    Threads = {t1, t2}
    Devices = {d1}
    Files = {f1, f2}
    Neighbours = {f1, f2}
    CallKinds = {"write"}
    GraceCommits = {1}
    MaxCommit = 3
    MaxFailure = 1
    MaxSweep = 0
    MaxCrash = 0
    MaxFault = 1
    MaxSize = 1
    MaxTicket = 2
    MaxEpoch = 1
    FrameMayStay = TRUE
SYMMETRY Symmetry
INVARIANTS PromisedDurable VisibleDurable
CHECK_DEADLOCK FALSE
