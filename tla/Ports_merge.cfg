\* A pipe is merged across nodes or fused, while messages and ports pass it.
CONSTANTS
    Pipes <- Invitation
    Carries <- ThroughMerge
    MaxSends <- InvitationSends
    MayClose = {1, 3}
    Merges <- InvitationMerges
    ReadBeforeMerge = FALSE
    CallingThread = "io"
SPECIFICATION Spec
INVARIANT ReceivedInOrder
INVARIANT EndInOnePlace
INVARIANT CarriedPortsSafe
INVARIANT GraphSettles
CHECK_DEADLOCK FALSE
