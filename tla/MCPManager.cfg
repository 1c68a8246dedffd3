CONSTANTS
    Boot = boot
    Requests = {q1}
    MaxGen = 3
    MaxAttempts = 2
SPECIFICATION LiveSpec
CHECK_DEADLOCK FALSE
INVARIANTS NoStraySession StatusOfLatest
PROPERTIES ConnectingSettles
