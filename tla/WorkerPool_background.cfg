\* A BACKGROUND task that enters a WILL_BLOCK scope while another one waits.
CONSTANTS
    f1 = f1
    f2 = f2
    b1 = b1
    b2 = b2
    Seqs = {b1, b2}
    Background = {b1, b2}
    MayBlock = {b1}
    Scopes = {"will"}
    Workloads <- SpareWorkload
    kMaxNumberOfWorkers = 3
    None = None
SPECIFICATION Spec
PROPERTY BackgroundDrains
CHECK_DEADLOCK FALSE
