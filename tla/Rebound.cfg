SPECIFICATION Spec
CONSTANTS
  Durations = {0, 1, 4}
  RetryAfters = {0, 2, 9}
  Handling = 1
  Lateness = 1
  Configs <- MCConfigs
CHECK_DEADLOCK FALSE
INVARIANTS WaitIsBackoff NoLateAttempt AnswerIsTrue
