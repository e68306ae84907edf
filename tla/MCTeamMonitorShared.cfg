\* One task and one caller; two pollers that overlap each other and the caller and die anywhere.
CONSTANTS
  t1 = t1
  TaskId = {t1}
  Worker = {w1}
  Proc = {p1, leader, status}
  Deps <- MCDeps
  MaxTokens = 2
  MaxVersion = 3
  LiveLocksBroken = FALSE
  Poller = {leader, status}
  MaxAnnounced = 2
SPECIFICATION MonitorSpec
SYMMETRY Symmetry
VIEW BoardView
INVARIANT NoStaleWrite
PROPERTIES LeaseHonoured ImplementsLifecycle
CHECK_DEADLOCK FALSE
