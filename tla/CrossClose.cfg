\* A session that ends during shutdown closes only its own listeners.
CONSTANTS
    s1 = s1
    s2 = s2
    n1 = n1
    n2 = n2
    none = None
    None = None
    Foreign = Foreign
    Sessions = {s1, s2}
    Names = {n1}
    Words = {n1}
    Unlucky = TRUE
    PortMin = 1
    PortMax = 1
    Requests <- OnePort
SPECIFICATION Spec
INVARIANT
    ClosesOwnListeners
