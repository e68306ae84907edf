\* Status polls of a team whose tasks fail one after the other; the limit of initTeamState.
CONSTANTS
  TaskId = {t1, t2, t3, t4}
  Poller = {status}
  Job = {}
  Hook = {}
  MaxFixAttempts = 3
  PromptMode = FALSE
SPECIFICATION Spec
SYMMETRY Symmetry
PROPERTY ReopenedForOpenTasks
CHECK_DEADLOCK FALSE
