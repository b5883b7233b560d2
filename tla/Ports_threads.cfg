\* Both ends move, with the API called on a thread of its own.
CONSTANTS
    Pipes <- TwoNodes
    Carries <- BothEnds
    MaxSends <- BothEndsSends
    MayClose = {3, 4}
    Merges = {}
    ReadBeforeMerge = FALSE
    CallingThread = "user"
SPECIFICATION Spec
INVARIANT TypeOK
INVARIANT NothingLost
INVARIANT EventsExpected
INVARIANT ClosureKnown
PROPERTY ImplementsMessagePipe
CHECK_DEADLOCK FALSE
