\* A reply that takes longer than yamux keeps a half-closed stream.
CONSTANTS
    MaxSend <- TwoAndOne
    Window = 1
SPECIFICATION Spec
INVARIANT
    HalfCloseKeepsReply
CHECK_DEADLOCK FALSE
