SPECIFICATION Spec
CONSTANTS
  Conns = {c1, c2}
  c1 = c1
  c2 = c2
  NoConn = NoConn
  MaxIn = 2
  MaxOut = 2
  PipeCap = 1
  Window = 1
  Torn = TRUE
  MaxChunks = 2
  RotateChunks = 1
  StablePolls = 2
  MaxFiles = 4
  Workers = {w1, w2}
  Dead = Dead
  Queries = {q1, q2}
  NoQuery = NoQuery
  a1 = a1
  a2 = a2
  Addrs = {a1, a2}
  Labels = {"a", "b", "x"}
  Names <- ConstNames
  Entries <- ConstEntries
  MaxInFlight = 2
CHECK_DEADLOCK FALSE
INVARIANTS SessionSafe ConsoleSafe RelaySafe EgressSafe
PROPERTIES SessionsDrain ExitIsNoticed StreamEnds ServedOnceUp WorkersJoin
