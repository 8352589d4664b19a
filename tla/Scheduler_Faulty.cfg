CONSTANTS
    i1 = i1
    h1 = h1
    w1 = w1
    c1 = c1
    c2 = c2
    m1 = m1
    None = None
    Instances = {i1}
    Handlers = {h1}
    Monitors = {m1}
    WorkerIds = {w1}
    NameOf <- OneName
    CheckIds = {c1, c2}
    Rpcs = {"Trigger", "Complete", "Register", "Heartbeat", "Unregister"}
    Faults = TRUE
SPECIFICATION Spec
INVARIANTS
    QueuedHasNoWorker
    UniqueUnlessRaced
SYMMETRY Symmetry
