SPECIFICATION FairSpec
CONSTANTS
    Threads = {t1, t2}
    Devices = {d1}
    Files = {f1}
    GraceCommits = {3}
    MaxCommit = 2
    MaxFailure = 1
    MaxSweep = 1
    MaxCrash = 1
    MaxFault = 2
INVARIANTS PTypeOK OnePersist PromisedDurable RecoversPrefix
PROPERTIES NeverForgotten CallsReturn
CHECK_DEADLOCK FALSE
