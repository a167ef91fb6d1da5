\* The file is the memory between calls.
CONSTANTS
    c1 = c1
    c2 = c2
    n1 = n1
    n2 = n2
    None = None
    Torn = Torn
    Callers = {c1, c2}
    Names = {n1, n2}
SPECIFICATION Spec
INVARIANT
    FileIsMemory
