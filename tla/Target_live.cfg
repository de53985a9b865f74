SPECIFICATION FairSpec
CONSTANTS
  Procs = {p1, p2}
  NoProc = NoProc
  Builds = {b1, b2}
  NoBuild = NoBuild
  MaxVerbs = 2
  Interruptible = TRUE
  Managers = {"flaky"}
  ManagerSlow = TRUE
  ReapFails = TRUE
  NoDeadline = TRUE
CHECK_DEADLOCK FALSE
PROPERTIES VerbReturns StopConverges
