CONSTANTS
    t1 = t1
    t2 = t2
    Callers <- MCCallers
    MaxConcurrent = 1
    MaxCalls <- MCMaxCalls
SPECIFICATION LiveSpec
INVARIANTS TypeOK SlotsExact ProviderBounded HealthCountsOnce
PROPERTIES SeenTokenSpared HungCallAnswered GoneCallerAnswered QueueMoves
CHECK_DEADLOCK FALSE
