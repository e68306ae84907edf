\* The same instance with polls that overlap completions, and processes that die anywhere.
CONSTANTS
  t1 = t1
  TaskId = {t1}
  Worker = {w1}
  Proc = {p1, leader}
  Deps <- MCDeps
  MaxTokens = 2
  MaxVersion = 3
  LiveLocksBroken = FALSE
  Poller = {leader}
  MaxAnnounced = 2
SPECIFICATION MonitorSpec
INVARIANT CompletedOnce
CHECK_DEADLOCK FALSE
