\* One task, one caller and one poller, which overlap and die anywhere.
CONSTANTS
  t1 = t1
  TaskId = {t1}
  Worker = {w1}
  Proc = {p1, leader}
  Deps <- MCDeps
  MaxTokens = 2
  MaxVersion = 3
  LiveLocksBroken = FALSE
  Poller = {leader}
  MaxAnnounced = 2
SPECIFICATION FairHistorySpec
INVARIANTS MonitorTypeOK OnceUnlessClashed SeenMeansAnnounced
PROPERTIES SnapshotKeepsCompletions LapsedClaimsEnd
CHECK_DEADLOCK FALSE
