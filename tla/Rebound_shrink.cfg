SPECIFICATION Spec
CONSTANTS
  Durations = {0, 1}
  RetryAfters = {0}
  Handling = 0
  Lateness = 0
  Configs <- MCConfigs
CHECK_DEADLOCK FALSE
INVARIANTS DelaysShrink
