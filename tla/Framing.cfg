\* Two callers with two requests each; lengths and bodies that can be split.
CONSTANTS
    c1 = c1
    c2 = c2
    None = None
    Error = Error
    Callers = {c1, c2}
    MaxCalls = 2
    Prefix = 2
    Body = 2
SPECIFICATION FairSpec
INVARIANTS
    TypeOK
    OwnReply
    InOrder
    FramesHold
    NeverBothWait
PROPERTY
    RPCSpec
    RequestsReturn
CHECK_DEADLOCK FALSE
