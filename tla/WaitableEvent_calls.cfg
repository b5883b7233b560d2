\* Three threads on a manual and an automatic event, named in either order.
SPECIFICATION Spec
CONSTANTS
    Threads = {t1, t2, t3}
    Events = {1, 2}
    ManualReset = {1}
    InitiallySignaled = {1}
    WaitManyArgs <- EitherOrder
    None = None
INVARIANTS
    TypeOK
    NoLostSignal
    NoMissedWakeup
    NoDanglingWaiter
    SignalOutlivesNoWait
    NoLockCycle
PROPERTIES
    CallsReturn
CHECK_DEADLOCK FALSE
