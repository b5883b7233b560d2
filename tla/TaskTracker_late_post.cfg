\* A BLOCK_SHUTDOWN post races with the completion of shutdown.
CONSTANTS
    Seqs = {b}
    BlockShutdown = {b}
    SkipOnShutdown = {}
    Background = {}
    MaxBackgrounds = {1}
    Posters = {p1}
    Workers = {w1, w2}
    Flushers = {}
    Calls = {"Shutdown"}
    MaxPosts = 2
    None = None
SPECIFICATION Spec
INVARIANTS NoBlockingTaskRunsAfterShutdown
CHECK_DEADLOCK FALSE
