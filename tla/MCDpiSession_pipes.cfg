SPECIFICATION Spec
CONSTANTS
  Conns = {c1, c2}
  Busy = {c1}
  None = None
  MaxSessions = 2
  SecondAt = 2
  PipeCap = 1
  MaxStarts = 2
  MaxChunks = 1
  MaxFail = 1
SYMMETRY Alike
INVARIANTS
  ChunkHasPipe
PROPERTIES
  PipeKeepsOwner
CHECK_DEADLOCK FALSE
