SPECIFICATION Spec
CONSTANTS
    MaxCollection = 2
    MaxString = 2
    MaxShape = 3
    MaxDamaged = 300
    L1 = L1
    L2 = L2
    Lanes = {L1, L2}
    MaxBatch = 2
    MaxSeq = 4
    MaxCrashes = 2
    UnsettledAppends = FALSE
SYMMETRY LaneSymmetry
INVARIANTS
    
    DamageRejected
    AckedLoad
    SeqsFresh
CHECK_DEADLOCK FALSE
