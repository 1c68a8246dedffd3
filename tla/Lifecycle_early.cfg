CONSTANTS
    db = db
    mcp = mcp
    web = web
    Names = {db, mcp, web}
    Selections <- Enabled
    Graphs <- AllGraphs
    Notifiers = {db}
    Tolerated = {mcp}
    Retries <- OneRetry
    EarlyStop = TRUE
SPECIFICATION Spec
CHECK_DEADLOCK FALSE
INVARIANTS EveryServiceStopped
