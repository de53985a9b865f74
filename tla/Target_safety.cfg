SPECIFICATION Spec
CONSTANTS
  Procs = {p1, p2}
  NoProc = NoProc
  Builds = {b1, b2}
  NoBuild = NoBuild
  MaxVerbs = 4
  Interruptible = FALSE
  Managers = {"calm", "flaky"}
  ManagerSlow = FALSE
  ReapFails = FALSE
  NoDeadline = FALSE
SYMMETRY Sym
CHECK_DEADLOCK FALSE
INVARIANTS TypeOK OneVm CalmPinned CalmProvenance
PROPERTIES StopIsTruthful DestroySparesRecordedVm NeverReplacesUpVm
