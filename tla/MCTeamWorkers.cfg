CONSTANTS
  Worker = {w1}
  Purpose = {task}
  Issue = {k1}
  IssueKey <- MCIssueKey
  Sender = {s1, s2}
  Hook = {h1, h2}
  MaxUnconfirmed = 2
  MaxRequests = 2
  MaxBridged = 1
  MaxMishaps = 1
  Scaler = {x1, x2}
  Creator = {c1}
  MaxWorkers = 3
  MaxTask = 2
  MaxPanes = 3
  MaxSetbacks = 1
SPECIFICATION WorkersSpec
SYMMETRY Symmetry
INVARIANTS DispatchTypeOK ReportsAreTrue AnsweredMeansSettled OneHookAtATime TriesBounded
  ScalingTypeOK NamesDistinct RosterIsAlive
PROPERTIES FailedIsFinal TasksKept
CHECK_DEADLOCK FALSE
