SPECIFICATION Spec
CONSTANTS
  Procs = {p1, p2}
  NoProc = NoProc
  Builds = {b1, b2}
  NoBuild = NoBuild
  MaxVerbs = 3
  Interruptible = FALSE
  Managers = {"flaky"}
  ManagerSlow = FALSE
  ReapFails = FALSE
  NoDeadline = FALSE
SYMMETRY Sym
CHECK_DEADLOCK FALSE
INVARIANT ProvenanceWhileUp
