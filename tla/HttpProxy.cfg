\* Two sessions, one of them private, fight over a subdomain.
CONSTANTS
    a = a
    b = b
    n1 = n1
    n2 = n2
    r1 = r1
    r2 = r2
    None = None
    Sessions = {a, b}
    Private = {a}
    Names = {n1}
    Requests = {r1, r2}
    MaxIdle = 1
SPECIFICATION FairSpec
INVARIANTS
    TypeOK
    RightTunnel
    PasswordChecked
PROPERTY
    GoneIsQuiet
