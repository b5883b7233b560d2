\* Two sequences at a time, of either priority; tasks of f1 and b1 may block.
CONSTANTS
    f1 = f1
    f2 = f2
    b1 = b1
    b2 = b2
    Seqs = {f1, f2, b1, b2}
    Background = {b1, b2}
    MayBlock = {f1, b1}
    Scopes = {"may", "will"}
    Workloads <- SmallWorkloads
    kMaxNumberOfWorkers = 3
    None = None
SPECIFICATION Spec
INVARIANTS TypeOK IdleStackExact NoWorkerLost CountsExact
PROPERTY QueueDrains
CHECK_DEADLOCK FALSE
