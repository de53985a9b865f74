SPECIFICATION Spec
CONSTANTS
  Builds = {b1, b2}
  NoBuild = NoBuild
  Locks = {l1, l2}
  NoLock = NoLock
  MaxNumber = 2
  TornDestroy = FALSE
SYMMETRY Sym
PROPERTY NumbersNeverReused
