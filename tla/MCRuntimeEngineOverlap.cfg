\* Two processes, two requests, no --compact: the least there is.
CONSTANTS
  Request = {r1, r2}
  Message = {}
  Proc = {p1, p2}
  Torn = Torn
  MaxLog = 2
  Compacting = FALSE
SPECIFICATION Spec
SYMMETRY Symmetry
PROPERTY AppendOnly
CHECK_DEADLOCK FALSE
