CONSTANTS
    Callers = {g1, g2, g3}
    Chats = {c1, c2}
    Locks = {l1, l2, l3}
    NoChat = NoChat
    NoLock = NoLock
SPECIFICATION LiveSpec
INVARIANTS MutualExclusion RefsExact TokenConserved
PROPERTIES ImplementsMutex WaiterServed
