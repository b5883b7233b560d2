\* Background tasks disabled until shutdown lifts the cap, or sharing one slot;
\* a caller of FlushForTesting, one of FlushAsyncForTesting, either shutdown.
CONSTANTS
    Seqs = {b, k}
    BlockShutdown = {b}
    SkipOnShutdown = {}
    Background = {b, k}
    MaxBackgrounds = {0, 1}
    Posters = {p1}
    Workers = {w1, w2}
    Flushers = {f1}
    Calls = {"Shutdown", "SetHasShutdownStartedForTesting", "FlushAsyncForTesting"}
    MaxPosts = 2
    None = None
SPECIFICATION Spec
PROPERTIES FlushMeansIdle FlushesEnd ShutdownReturns EverySequenceDrains
CHECK_DEADLOCK FALSE
