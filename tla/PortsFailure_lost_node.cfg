\* One end travels over three nodes, two of which may die.
CONSTANTS
    Pipes <- FourNodes
    Carries <- Relayed
    MaxSends <- FourNodesSends
    MayClose = {6}
    Merges = {}
    ReadBeforeMerge = FALSE
    CallingThread = "io"
    Broker = 4
    MayCrash = {2, 3}
SPECIFICATION FairFailSpec
INVARIANT IntroductionsSuffice
PROPERTY LossNoticed
CHECK_DEADLOCK FALSE
