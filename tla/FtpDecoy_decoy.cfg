CONSTANTS
    s1 = s1
    s2 = s2
    t1 = t1
    Sess = {s1, s2}
    UpTunnels = {t1}
    DownTunnels = {}
    MaxTries = 4
    MaxFault = 1
    Nil = Nil
SPECIFICATION DecoyFairSpec
INVARIANTS ArmedHasOwner OneHolder
PROPERTIES DecoyEnds TunnelBinds
\* The transfers end.
CHECK_DEADLOCK FALSE
