SPECIFICATION Spec
CONSTANTS
  Builds = {b1, b2}
  NoBuild = NoBuild
  Locks = {l1, l2}
  NoLock = NoLock
  MaxNumber = 3
  TornDestroy = FALSE
SYMMETRY Sym
INVARIANTS TypeOK CurrentIsBootable RootsAreLabelled ClosureHeld
PROPERTY ImplementsProfile
