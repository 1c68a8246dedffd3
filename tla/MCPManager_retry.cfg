CONSTANTS
    Boot = boot
    Requests = {q1}
    MaxGen = 2
    MaxAttempts = 2
SPECIFICATION Spec
CHECK_DEADLOCK FALSE
INVARIANTS FailedRetries
