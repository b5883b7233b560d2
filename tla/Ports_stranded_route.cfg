\* Both ends move, one of them twice.
CONSTANTS
    Pipes <- TwoNodes
    Carries <- ThereAndBack
    MaxSends <- ThereAndBackSends
    MayClose = {}
    Merges = {}
    ReadBeforeMerge = FALSE
    CallingThread = "io"
SPECIFICATION Spec
INVARIANT NoStrandedProxy
CHECK_DEADLOCK FALSE
