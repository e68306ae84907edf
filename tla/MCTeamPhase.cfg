\* The job, on interactive panes, and a status poll overlap each other and a stop hook.
CONSTANTS
  TaskId = {t1, t2}
  Poller = {job, status}
  Job = {job}
  Hook = {hook}
  MaxFixAttempts = 1
  PromptMode = FALSE
SPECIFICATION Spec
SYMMETRY Symmetry
VIEW View
INVARIANTS PhaseTypeOK PathsLegal
PROPERTY CompleteIsBacked
CHECK_DEADLOCK FALSE
