CONSTANTS
    a1 = a1
    a2 = a2
    b1 = b1
    tcp1 = tcp1
    Chans = {a1, a2, b1}
    Indices = {0, 1}
    IndexOf <- TwoThenOne
    TcpFlows = {tcp1}
    UdpFlows = {}
    None = None
SPECIFICATION FairSpec
INVARIANTS OneOpenPerIndex NoOrphanFlows NilNeedsRedial
PROPERTIES OnlyItselfUnbinds GoneClientIsCleared
\* A session comes to rest when its channels are used up.
CHECK_DEADLOCK FALSE
