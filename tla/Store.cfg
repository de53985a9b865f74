SPECIFICATION StoreSpec
CONSTANTS
  Builds = {b1, b2}
  NoBuild = NoBuild
  Locks = {l1}
  NoLock = NoLock
  MaxNumber = 2
  TornDestroy = TRUE
  r1 = r1
  s1 = s1
  u1 = u1
  Readers <- ConstReaders
  Starters <- ConstStarters
  Updaters <- ConstUpdaters
  NoPin = NoPin
  Free = Free
  MaxHead = 2
  m1 = m1
  m2 = m2
  p1 = p1
  p2 = p2
  Manifests <- ConstManifests
  Resolvers <- ConstResolvers
  Drafts <- ConstDrafts
  NoIndex = NoIndex
  MaxEdits = 2
  Reverts = FALSE
  Nobody = Nobody
  Procs <- ConstResolvers
  q1 = q1
  n1 = n1
  home = home
  Pieces <- ConstPieces
  Names <- ConstNames
  Reserved <- ConstReserved
  MaxTweaks = 1
SYMMETRY Symmetry
INVARIANTS PublicationSafe OwnershipSafe VolumesSafe
PROPERTIES HistoryIsImmutable PinIsKept PruneSparesKnown
CHECK_DEADLOCK FALSE
