CONSTANTS
    p1 = p1
    p2 = p2
    Chunks <- MCChunks
    Near <- MCNear
    MaxHolders = 2
SYMMETRY Symmetry
SPECIFICATION ReadinessSpec
INVARIANTS
    IndexIsConsistent
    ReadyMeansFull
    ReadinessIsCurrent
    OwnersAreCurrent
