CONSTANTS
    Results = {a, b, c}
    Unknown = {c}
    MaxSize = 2
    BatchSize = 2
    TTL = 2
    MaxNow = 2
    None = None
SPECIFICATION FairSpec
INVARIANTS
    LossesCounted
    HeldOnce
    CleanClose
PROPERTY QueueEmptied
