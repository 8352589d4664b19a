CONSTANTS
    Checks = {k1, k2}
    Recs = {r1}
    MaxConcurrent = 1
    Detect = FALSE
SPECIFICATION FairSpec
INVARIANTS
    DrainedBeforeClose
PROPERTY StopDrains
