\* Three processes that die anywhere and may hold the lock for ever so long.
CONSTANTS
  Proc = {p1, p2, p3}
  SlowHolders = TRUE
SPECIFICATION FairSpec
INVARIANTS LockTypeOK OnlyRecoveryLetsTwoIn RobbedHolderKeepsOff NothingLeftBehind
PROPERTIES OrphanRecovered EverybodyEnds
\* Every process asks for the lock once.
CHECK_DEADLOCK FALSE
