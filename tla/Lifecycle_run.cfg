CONSTANTS
    db = db
    mcp = mcp
    web = web
    Names = {db, mcp, web}
    Selections <- Enabled
    Graphs <- AllGraphs
    Notifiers = {db}
    Tolerated = {mcp}
    Retries <- OneRetry
    EarlyStop = FALSE
SPECIFICATION LiveSpec
CHECK_DEADLOCK FALSE
INVARIANTS NoSendOnClosed FirstFailureWins EveryServiceStopped HooksComeLast
PROPERTIES StartOrder StopOrder FailureEnds
