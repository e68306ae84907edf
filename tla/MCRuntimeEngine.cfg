\* Two processes that overlap and die anywhere, some of them with --compact.
CONSTANTS
  Request = {r1}
  Message = {m1}
  Proc = {p1, p2}
  Torn = Torn
  MaxLog = 4
  Compacting = TRUE
SPECIFICATION Spec
SYMMETRY Symmetry
VIEW View
INVARIANTS EngineTypeOK LogReplays ViewNotAhead
PROPERTY StepsLikeLedger
CHECK_DEADLOCK FALSE
