SPECIFICATION FairSpec
CONSTANTS
  Shares = {s1}
  LauncherLeaves = TRUE
  EarlyStop = TRUE
  Stragglers = TRUE
  ButtonFails = TRUE
  ReapFails = TRUE
INVARIANTS FilterBeforePath ReportDelivered SweptAfterReap
PROPERTIES ImplementsTarget LadderOffersButton ChildEndIsNoticed StopEnds
