SPECIFICATION Spec
CONSTANTS
    t1 = t1
    t2 = t2
    Threads = {t1, t2}
    Streams = {1, 2}
    Opened = {1}
    FileOf <- MCFileOf
    Modes = {"inline", "inline_wait", "async"}
    Inputs <- MCInputs
    Throughs = {1, 3}
    LogTarget = 3
    GroupBytes = 2
    AutoBytes = 2
    MaxInFlight = 3
    MaxLog = 2
    MaxAppends = 2
    MaxPublishes = 1
    MaxGen = 3
    MaxGroups = 2
    MaxUpsets = 1
    MaxTorn = 0
SYMMETRY ThreadSymmetry
INVARIANTS AcceptedIntact PublishedKept DurableMarkKept
CHECK_DEADLOCK FALSE
