CONSTANTS
    Turns = {t1, t2, t3}
    c1 = c1
    m1 = m1
    m2 = m2
    r1 = r1
    r2 = r2
    Chats = {c1}
    Replicas = {r1}
    Models = {m1}
    Servable = {m1}
    Showcase = TRUE
    Attempts = 1
    MaxDeltas = 0
    NoModel = NoModel
    NoKey = NoKey
    NoPrompt = NoPrompt
    ChatOf <- OneChat
    Home <- AtHome
    Fallbacks <- NoFallbacks
SPECIFICATION Spec
SYMMETRY AnyTurn
CHECK_DEADLOCK FALSE
INVARIANTS PromptFresh
PROPERTIES ImplementsTranscript
