\* A request of two units, a reply of one, buffers of one.
CONSTANTS
    MaxSend <- TwoAndOne
    Window = 1
SPECIFICATION FairSpec
INVARIANTS
    TypeOK
    EOFMeansEverything
PROPERTIES
    PathSpec
    SentArrives
    EndArrives
    LetsGo
CHECK_DEADLOCK FALSE
