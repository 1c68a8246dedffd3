CONSTANTS
    Boot = boot
    Requests = {q1}
    MaxGen = 3
    MaxAttempts = 1
SPECIFICATION Spec
CHECK_DEADLOCK FALSE
INVARIANTS DisabledHasNoTools
