\* One sequence of each shutdown behavior; two of them are background
\* sequences that compete for one slot.
CONSTANTS
    Seqs = {b, c, f}
    BlockShutdown = {b}
    SkipOnShutdown = {f}
    Background = {b, c}
    MaxBackgrounds = {1}
    Posters = {p1, p2}
    Workers = {w1, w2}
    Flushers = {}
    Calls = {"Shutdown"}
    MaxPosts = 3
    None = None
SPECIFICATION Spec
SYMMETRY Symmetry
INVARIANTS TypeOK BlockingCountExact ShutdownWaitsForPriorTasks
    SequenceInOnePlace BackgroundCapKept
CHECK_DEADLOCK FALSE
