\* No live holder is slow; the maker of the lock dies and two others find it.
CONSTANTS
  Proc = {p1, p2, p3}
  SlowHolders = FALSE
SPECIFICATION Spec
SYMMETRY Symmetry
INVARIANT MutualExclusion
CHECK_DEADLOCK FALSE
