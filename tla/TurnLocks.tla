----------------------------- MODULE TurnLocks ------------------------------
(***************************************************************************)
(* The process-wide registry of per-chat turn locks                        *)
(* (internal/pkg/core/chats/turn_locks.go).                                *)
(*                                                                         *)
(* A lock is a heap object: a one-slot channel holding the token, and a    *)
(* reference count.  The registry maps a chat to the object in use and     *)
(* forgets the chat when the count falls to zero.  The registry mutex      *)
(* covers looking an object up with counting the reference, and dropping a *)
(* reference with forgetting the chat; the token is taken and put back     *)
(* outside it, so those are steps of their own.                            *)
(***************************************************************************)
EXTENDS Naturals, FiniteSets

CONSTANTS Callers,  \* goroutines calling lockChatTurn
          Chats,    \* chat ids
          Locks,    \* heap addresses of lock objects
          NoChat, NoLock

ASSUME TurnLocksAssumption ==
    /\ NoChat \notin Chats
    /\ NoLock \notin Locks
    /\ IsFiniteSet(Callers)

VARIABLES
    registry,  \* processTurnLocks.locks: chat -> lock object or NoLock
    refs,      \* lock object -> its reference count
    token,     \* lock object -> tokens in its channel (capacity one)
    pc,        \* caller -> where it is in lockChatTurn / unlock
    chat,      \* caller -> the chatID it asked for
    mine,      \* caller -> the lock object its local variable points to
    canceled   \* caller -> its context is done

vars == <<registry, refs, token, pc, chat, mine, canceled>>

TokenCap == 1  \* make(chan struct{}, 1)

\* idle; blocked in the select; token taken but context not yet rechecked;
\* lock held by the caller; token given back (or never had), reference still
\* counted.
Places == {"idle", "waiting", "took", "held", "dropping"}

TypeOK ==
    /\ registry \in [Chats -> Locks \cup {NoLock}]
    /\ refs \in [Locks -> Nat]
    /\ token \in [Locks -> 0..TokenCap]
    /\ pc \in [Callers -> Places]
    /\ chat \in [Callers -> Chats \cup {NoChat}]
    /\ mine \in [Callers -> Locks \cup {NoLock}]
    /\ canceled \in [Callers -> BOOLEAN]

Init ==
    /\ registry = [c \in Chats |-> NoLock]
    /\ refs = [l \in Locks |-> 0]
    /\ token = [l \in Locks |-> 0]
    /\ pc = [g \in Callers |-> "idle"]
    /\ chat = [g \in Callers |-> NoChat]
    /\ mine = [g \in Callers |-> NoLock]
    /\ canceled = [g \in Callers |-> FALSE]

-----------------------------------------------------------------------------
\* An allocation returns memory nothing points to any more.
Unreachable(l) == /\ \A c \in Chats : registry[c] # l
                  /\ \A g \in Callers : mine[g] # l

\* Mutant of Enter: a reference to an existing object is not counted.
EnterUncounted(g, c) ==
    /\ pc[g] = "idle"
    /\ \/ /\ registry[c] # NoLock
          /\ mine' = [mine EXCEPT ![g] = registry[c]]
          /\ UNCHANGED <<registry, refs, token>>
       \/ /\ registry[c] = NoLock
          /\ \E l \in Locks :
                /\ Unreachable(l)
                /\ registry' = [registry EXCEPT ![c] = l]
                /\ refs' = [refs EXCEPT ![l] = 1]
                /\ token' = [token EXCEPT ![l] = 1]
                /\ mine' = [mine EXCEPT ![g] = l]
    /\ pc' = [pc EXCEPT ![g] = "waiting"]
    /\ chat' = [chat EXCEPT ![g] = c]
    /\ canceled' = [canceled EXCEPT ![g] = FALSE]

\* Under the registry mutex: take a reference on the chat's lock object,
\* allocating it with its token when the chat has none.
Enter(g, c) ==
    /\ pc[g] = "idle"
    /\ \/ /\ registry[c] # NoLock
          /\ refs' = [refs EXCEPT ![registry[c]] = @ + 1]
          /\ mine' = [mine EXCEPT ![g] = registry[c]]
          /\ UNCHANGED <<registry, token>>
       \/ /\ registry[c] = NoLock
          /\ \E l \in Locks :
                /\ Unreachable(l)
                /\ registry' = [registry EXCEPT ![c] = l]
                /\ refs' = [refs EXCEPT ![l] = 1]
                /\ token' = [token EXCEPT ![l] = 1]
                /\ mine' = [mine EXCEPT ![g] = l]
    /\ pc' = [pc EXCEPT ![g] = "waiting"]
    /\ chat' = [chat EXCEPT ![g] = c]
    /\ canceled' = [canceled EXCEPT ![g] = FALSE]

\* The caller's context is cancelled before it holds the lock.
Cancel(g) ==
    /\ pc[g] \in {"waiting", "took"}
    /\ ~canceled[g]
    /\ canceled' = [canceled EXCEPT ![g] = TRUE]
    /\ UNCHANGED <<registry, refs, token, pc, chat, mine>>

\* The select's `case <-lock.token`, which may also win when the context is
\* already done: Go chooses among the ready cases.
TakeToken(g) ==
    /\ pc[g] = "waiting"
    /\ token[mine[g]] > 0
    /\ token' = [token EXCEPT ![mine[g]] = @ - 1]
    /\ pc' = [pc EXCEPT ![g] = "took"]
    /\ UNCHANGED <<registry, refs, chat, mine, canceled>>

\* `lock.token <- struct{}{}`: a send blocks while the channel is full.
PutBack(g) ==
    /\ token[mine[g]] < TokenCap
    /\ token' = [token EXCEPT ![mine[g]] = @ + 1]
    /\ pc' = [pc EXCEPT ![g] = "dropping"]
    /\ UNCHANGED <<registry, refs, chat, mine, canceled>>

\* Mutant of GiveUp: the cancelled waiter unlocks what it never locked.
GiveUpUnlocks(g) == pc[g] = "waiting" /\ canceled[g] /\ PutBack(g)

\* The select's `case <-ctx.Done()`.
GiveUp(g) ==
    /\ pc[g] = "waiting"
    /\ canceled[g]
    /\ pc' = [pc EXCEPT ![g] = "dropping"]
    /\ UNCHANGED <<registry, refs, token, chat, mine, canceled>>

\* Mutant of RecheckCanceled: the token is kept on the way out.
RecheckKeepsToken(g) ==
    /\ pc[g] = "took" /\ canceled[g]
    /\ pc' = [pc EXCEPT ![g] = "dropping"]
    /\ UNCHANGED <<registry, refs, token, chat, mine, canceled>>

\* The context is checked again after the token arrived.
RecheckCanceled(g) == pc[g] = "took" /\ canceled[g] /\ PutBack(g)

RecheckOk(g) ==
    /\ pc[g] = "took"
    /\ ~canceled[g]
    /\ pc' = [pc EXCEPT ![g] = "held"]
    /\ UNCHANGED <<registry, refs, token, chat, mine, canceled>>

\* Mutant of Unlock: only the reference is given back.
UnlockKeepsToken(g) ==
    /\ pc[g] = "held"
    /\ pc' = [pc EXCEPT ![g] = "dropping"]
    /\ UNCHANGED <<registry, refs, token, chat, mine, canceled>>

\* The returned function, whose sync.Once makes the calls after the first do
\* nothing.
Unlock(g) == pc[g] = "held" /\ PutBack(g)

\* Mutants of DropRef: the reference is dropped twice; the chat is forgotten
\* while others still refer to its lock.
DropRefTwice(g) ==
    /\ pc[g] = "dropping"
    /\ refs' = [refs EXCEPT ![mine[g]] = @ - 2]
    /\ registry' = IF refs[mine[g]] <= 2
                   THEN [registry EXCEPT ![chat[g]] = NoLock]
                   ELSE registry
    /\ pc' = [pc EXCEPT ![g] = "idle"]
    /\ chat' = [chat EXCEPT ![g] = NoChat]
    /\ mine' = [mine EXCEPT ![g] = NoLock]
    /\ UNCHANGED <<token, canceled>>

DropRefForgets(g) ==
    /\ pc[g] = "dropping"
    /\ refs' = [refs EXCEPT ![mine[g]] = @ - 1]
    /\ registry' = [registry EXCEPT ![chat[g]] = NoLock]
    /\ pc' = [pc EXCEPT ![g] = "idle"]
    /\ chat' = [chat EXCEPT ![g] = NoChat]
    /\ mine' = [mine EXCEPT ![g] = NoLock]
    /\ UNCHANGED <<token, canceled>>

\* releaseChatTurnRef, under the registry mutex.
DropRef(g) ==
    /\ pc[g] = "dropping"
    /\ refs' = [refs EXCEPT ![mine[g]] = @ - 1]
    /\ registry' = IF refs[mine[g]] = 1
                   THEN [registry EXCEPT ![chat[g]] = NoLock]
                   ELSE registry
    /\ pc' = [pc EXCEPT ![g] = "idle"]
    /\ chat' = [chat EXCEPT ![g] = NoChat]
    /\ mine' = [mine EXCEPT ![g] = NoLock]
    /\ UNCHANGED <<token, canceled>>

-----------------------------------------------------------------------------
Next ==
    \E g \in Callers :
        \/ \E c \in Chats : Enter(g, c)
        \/ Cancel(g)
        \/ TakeToken(g)
        \/ GiveUp(g)
        \/ RecheckCanceled(g)
        \/ RecheckOk(g)
        \/ Unlock(g)
        \/ DropRef(g)

Spec == Init /\ [][Next]_vars

\* Goroutines run, a holder unlocks when its turn ends (ChatTurns shows that it
\* ends), and a channel serves its blocked receivers in arrival order, so a
\* waiter is not passed over for ever.
Fairness ==
    \A g \in Callers :
        /\ SF_vars(TakeToken(g))
        /\ WF_vars(RecheckCanceled(g) \/ RecheckOk(g))
        /\ WF_vars(Unlock(g))
        /\ WF_vars(DropRef(g))

LiveSpec == Spec /\ Fairness

-----------------------------------------------------------------------------
\* Whoever has the token, rechecked or not, owns the chat's turn.
Owns(g) == pc[g] \in {"took", "held"}

\* Callers whose local variable still counts as a reference to l.
Referrers(l) == {g \in Callers : mine[g] = l}

\* Two goroutines never own the turn of one chat, even when the registry has
\* forgotten the chat and allocated a second object in between.
MutualExclusion ==
    \A g, h \in Callers : Owns(g) /\ Owns(h) /\ chat[g] = chat[h] => g = h

\* An object is registered exactly as long as some caller refers to it, under
\* the chat that caller asked for, and its count is the number of those
\* callers: nothing leaks and nobody waits on a forgotten object.
RefsExact ==
    /\ \A l \in Locks : refs[l] = Cardinality(Referrers(l))
    /\ \A c \in Chats : registry[c] # NoLock => refs[registry[c]] > 0
    /\ \A g \in Callers : pc[g] # "idle" => registry[chat[g]] = mine[g]

\* The token is in the channel or with one owner, never lost or doubled, so
\* giving it back never blocks the goroutine that ends a turn.
TokenConserved ==
    \A c \in Chats : registry[c] # NoLock =>
        token[registry[c]]
            + Cardinality({g \in Referrers(registry[c]) : Owns(g)}) = TokenCap

\* A waiter gets the lock or gives up.
WaiterServed ==
    \A g \in Callers : pc[g] = "waiting" ~> pc[g] \in {"held", "dropping"}

\* The registry implements the abstract lock.
Mutex == INSTANCE KeyedMutex
             WITH Keys <- Chats, NoKey <- NoChat,
                  holding <- [g \in Callers |-> IF Owns(g) THEN chat[g] ELSE NoChat]

ImplementsMutex == Mutex!Spec
=============================================================================
