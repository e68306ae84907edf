\* Two tasks, two workers, two calls in flight; claims and edits bounded.
CONSTANTS
  t1 = t1
  t2 = t2
  TaskId = {t1, t2}
  Worker = {w1, w2}
  Proc = {p1, p2}
  Deps <- MCDeps
  MaxTokens = 2
  MaxVersion = 3
  LiveLocksBroken = FALSE
SPECIFICATION Spec
SYMMETRY Symmetry
VIEW View
INVARIANTS TypeOK ClaimsConsistent NoStaleWrite AnnouncedOnce BoardInv
PROPERTIES LeaseHonoured ImplementsLifecycle
\* Every bounded call can be used up while each task waits for another.
CHECK_DEADLOCK FALSE
