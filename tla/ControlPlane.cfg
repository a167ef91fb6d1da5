\* Every kind of request, two connections.
CONSTANTS
    s1 = s1
    s2 = s2
    n1 = n1
    n2 = n2
    none = None
    None = None
    Foreign = Foreign
    Sessions = {s1, s2}
    Names = {n1}
    Words = {n1}
    Unlucky = TRUE
    PortMin = 1
    PortMax = 2
    Requests <- OfEachKind
SPECIFICATION Spec
SYMMETRY SessionSymmetry
INVARIANTS
    TypeOK
    IInv
    NoOrphanListener
    AnsweredPortsListen
    RoutesMatchAnswers
    NothingLeftBehind
