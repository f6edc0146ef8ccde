CONSTANTS
    a = a
    b = b
    x = x
    y = y
    Sids = {a, b}
    MaxId = 1
    MaxBind = 2
    MaxWork = 2
    Addrs = {x, y}
    Reverse = Reverse
    None = None
SPECIFICATION FairSpec
INVARIANTS NoWriteAfterReturn ReverseStaysBound
PROPERTY GoneIsCleared
\* The clients end.
CHECK_DEADLOCK FALSE
