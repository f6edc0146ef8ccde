SPECIFICATION Spec
CONSTANTS
  Conns = {c1, c2, c3}
  Busy = {}
  None = None
  MaxSessions = 2
  SecondAt = 2
  PipeCap = 1
  MaxStarts = 3
  MaxChunks = 0
  MaxFail = 0
SYMMETRY Alike
INVARIANTS
  PoolBounded
  NoOrphanSession
  IdlePoolShrinks
CHECK_DEADLOCK FALSE
