CONSTANTS
    Turns = {t1, t2}
    c1 = c1
    m1 = m1
    m2 = m2
    r1 = r1
    r2 = r2
    Chats = {c1}
    Replicas = {r1, r2}
    Models = {m1}
    Servable = {m1}
    Showcase = FALSE
    Attempts = 1
    MaxDeltas = 0
    NoModel = NoModel
    NoKey = NoKey
    NoPrompt = NoPrompt
    ChatOf <- OneChat
    Home <- Spread
    Fallbacks <- NoFallbacks
SPECIFICATION Spec
CHECK_DEADLOCK FALSE
INVARIANTS OneTurnPerChat
