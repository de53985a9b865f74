SPECIFICATION Spec
CONSTANTS
  Shares = {s1, s2}
  LauncherLeaves = TRUE
  EarlyStop = FALSE
  Stragglers = FALSE
  ButtonFails = FALSE
  ReapFails = FALSE
SYMMETRY Sym
PROPERTY PowerButtonFirst
