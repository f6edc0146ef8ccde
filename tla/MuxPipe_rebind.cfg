CONSTANTS
    c1 = c1
    Conns = {c1}
    MaxSess = 3
    MaxDeath = 1
SPECIFICATION MuxFairSpec

PROPERTY ReverseRecovers
\* The connections end.
CHECK_DEADLOCK FALSE
