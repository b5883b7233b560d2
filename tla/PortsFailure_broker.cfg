\* One end travels from the broker over a second node to a third that may die.
CONSTANTS
    Pipes <- ThreeNodes
    Carries <- Relayed
    MaxSends <- ThreeNodesSends
    MayClose = {}
    Merges = {}
    ReadBeforeMerge = FALSE
    CallingThread = "io"
    Broker = 1
    MayCrash = {3}
SPECIFICATION FailSpec
INVARIANT LossKnown
CHECK_DEADLOCK FALSE
