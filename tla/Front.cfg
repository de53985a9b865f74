SPECIFICATION FrontSpec
CONSTANTS
  Workspaces <- ConstWorkspaces
  Mounts <- ConstMounts
  Agents <- ConstAgents
  Elsewhere <- ConstElsewhere
  SessionRoots <- ConstSession
  GuestRoots <- ConstGuest
  History <- ConstHistory
  MaxTouches = 2
  IdMax = 2
  Limits = {609, 610, 612}
  Pools = {0, 2}
  FixedReserve = 609
  Extras <- ConstExtras
  Modes = {"auto", "some"}
  Texts <- ConstTexts
  Index <- ConstIndex
  Unindexed = {"c"}
  HostMemory = 8
  MemoryReserve = 2
  Ceiling = 3
  MaxEvents = 1
  Tokens <- ConstTokens
  MaxTokens = 3
  Terminal = {TRUE, FALSE}
INVARIANTS LaunchSafe ConfinementSafe FleetSafe GrammarSafe
CHECK_DEADLOCK FALSE
