\* The background job alone, over enough tasks to use up the fix attempts.
CONSTANTS
  TaskId = {t1, t2, t3}
  Poller = {job}
  Job = {job}
  Hook = {}
  MaxFixAttempts = 1
  PromptMode = TRUE
SPECIFICATION FairSpec
INVARIANT JobSuccessBacked
PROPERTY JobEnds
CHECK_DEADLOCK FALSE
