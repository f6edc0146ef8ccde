CONSTANTS
    c1 = c1
    c2 = c2
    Conns = {c1, c2}
    MaxSess = 3
    MaxDeath = 2
SPECIFICATION MuxFairSpec
INVARIANT LossPerDeath
PROPERTY NoneLeftHanging
\* The connections end.
CHECK_DEADLOCK FALSE
