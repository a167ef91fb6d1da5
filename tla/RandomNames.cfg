\* A random name is never a claimed one.
CONSTANTS
    s1 = s1
    s2 = s2
    n1 = n1
    n2 = n2
    none = None
    None = None
    Foreign = Foreign
    Sessions = {s1, s2}
    Names = {n1, n2}
    Words = {n1, n2}
    Unlucky = FALSE
    PortMin = 1
    PortMax = 1
    Requests <- RandomName
SPECIFICATION Spec
PROPERTY
    RandomNamesAvoidClaims
