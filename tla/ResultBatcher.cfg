CONSTANTS
    Ids = {i1, i2}
    Versions = 2
    MaxBatch = 2
    Spawned = {g1, g2}
SPECIFICATION FairSpec
INVARIANTS
    KeptUntilSent
PROPERTY AtLeastOnce
