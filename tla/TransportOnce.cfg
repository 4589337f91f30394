SPECIFICATION TSpec
CONSTANTS
    Clients = {c1, c2}
    Threads = {t1, t2}
    NoThread = NoThread
    Targets = {d1, d2}
    Opens <- OwnTarget
    StripeOf <- StripePerTarget
    Deadlines = {0}
    NoDeadline = NoDeadline
    DedupeCapacity = 1
    MailboxCapacity = 2
    MaxId = 2
    MaxTime = 1
    MaxIncarnation = 2
    MaxFault = 1
    MaxRequest = 2
    MaxRetry = 1
INVARIANTS AppliedOnce EndpointBounded OwnAnswer
PROPERTIES ImplementsOnce
SYMMETRY ThreadSymmetry
CHECK_DEADLOCK FALSE
