----------------------------- MODULE ChatTurns ------------------------------
(***************************************************************************)
(* Durable chat turns (internal/pkg/core/chats: chats.go, stream.go,       *)
(* turn_checkpoint.go): what one request does from the HTTP handler's call *)
(* to the last deferred function of its streaming goroutine, interleaved   *)
(* with the other requests on the chat, the callbacks of upstream calls    *)
(* that were given up, clients that leave, and processes that die.         *)
(*                                                                         *)
(* A turn is one message and its answer.  Rows survive a crash; everything *)
(* else does not.  Each database call is one step.  A prompt is the set of *)
(* turns whose rows loadHistory returned, an assistant's text the number   *)
(* of deltas it was built from.                                            *)
(***************************************************************************)
EXTENDS Naturals, Sequences

CONSTANTS
    Turns,      \* requests; each is served once
    Chats,      \* chat ids
    Replicas,   \* processes on the one database
    ChatOf,     \* [Turns -> Chats]
    Home,       \* [Turns -> Replicas]: the process serving the request
    Models,     \* model ids
    Servable,   \* the models some configured upstream serves
    Fallbacks,  \* [Servable -> Seq(Servable)]: what SetFallbacks accepts
    Showcase,   \* CHATZ_SHOWCASE_MODE: fixed responses are enabled
    Attempts,   \* bound: candidates of one turn are numbered in 1..Attempts
    MaxDeltas,  \* bound: deltas of one turn
    NoModel, NoKey, NoPrompt

ASSUME ChatTurnsAssumption ==
    /\ ChatOf \in [Turns -> Chats]
    /\ Home \in [Turns -> Replicas]
    /\ Servable \subseteq Models
    /\ Fallbacks \in [Servable -> Seq(Servable)]
    /\ Showcase \in BOOLEAN
    /\ Attempts \in Nat \ {0}
    /\ \A m \in Servable : Len(Fallbacks[m]) < Attempts
    /\ MaxDeltas \in Nat
    /\ NoModel \notin Models
    /\ NoKey \notin Replicas \X Chats
    /\ \A S \in SUBSET Turns : NoPrompt # S

VARIABLES
    \* Durable: tables chats and messages.
    row,       \* chat -> [state, title, model]
    log,       \* chat -> turns of its user rows by position
    answered,  \* turns whose rows are complete
    ckpt,      \* turn -> deltas in its incomplete assistant row, 0 if none
    by,        \* turn -> model_id of its completed rows
    \* Volatile: the goroutine serving a turn.
    pc, kind,
    model,     \* requested, then resolved model
    untitled,  \* the chat it read had no title
    prompt,    \* what loadHistory returned
    attempt,   \* candidate being run
    received,  \* checkpoint.content
    dirty,     \* checkpoint.dirty
    \* Volatile: the delta callbacks, one per candidate call.
    cb,        \* turn -> candidate -> where its callback is
    started,   \* turn -> candidate -> adapterState.streamStarted
    \* Volatile: the turn locks and the clients.
    holding,   \* turn -> the lock it holds
    gone       \* turns whose client left: context cancelled, pipe closed

durable == <<row, log, answered, ckpt, by>>
request == <<kind, model, untitled, prompt>>
stream  == <<attempt, received, dirty, cb, started>>
vars == <<durable, pc, request, stream, holding, gone>>

Slots == 1..Attempts

Untitled == "untitled"

Absent == [state |-> "absent", title |-> Untitled, model |-> NoModel]

Rows == [state : {"absent", "live", "deleted"},
         title : {Untitled, "auto", "renamed"},
         model : Models \cup {NoModel}]

Places == {"new", "demotitle", "lockwait", "locked", "switch", "title",
           "history", "save", "streaming", "flush", "persist", "closing",
           "over"}

\* Between lockChatTurn's return and the last deferred function.
Critical == {"locked", "switch", "title", "history", "save", "streaming",
             "flush", "persist", "closing"}

TypeOK ==
    /\ row \in [Chats -> Rows]
    /\ log \in [Chats -> Seq(Turns)]
    /\ answered \subseteq Turns
    /\ ckpt \in [Turns -> Nat]
    /\ by \in [Turns -> Models \cup {NoModel}]
    /\ pc \in [Turns -> Places]
    /\ kind \in [Turns -> {"none", "create", "real", "democreate", "demo"}]
    /\ model \in [Turns -> Models \cup {NoModel}]
    /\ untitled \in [Turns -> BOOLEAN]
    /\ prompt \in [Turns -> (SUBSET Turns) \cup {NoPrompt}]
    /\ attempt \in [Turns -> 0..Attempts]
    /\ received \in [Turns -> Nat]
    /\ dirty \in [Turns -> BOOLEAN]
    /\ cb \in [Turns -> [Slots -> {"idle", "checked", "saving"}]]
    /\ started \in [Turns -> [Slots -> BOOLEAN]]
    /\ holding \in [Turns -> (Replicas \X Chats) \cup {NoKey}]
    /\ gone \subseteq Turns

Init ==
    /\ row = [c \in Chats |-> Absent]
    /\ log = [c \in Chats |-> <<>>]
    /\ answered = {}
    /\ ckpt = [t \in Turns |-> 0]
    /\ by = [t \in Turns |-> NoModel]
    /\ pc = [t \in Turns |-> "new"]
    /\ kind = [t \in Turns |-> "none"]
    /\ model = [t \in Turns |-> NoModel]
    /\ untitled = [t \in Turns |-> FALSE]
    /\ prompt = [t \in Turns |-> NoPrompt]
    /\ attempt = [t \in Turns |-> 0]
    /\ received = [t \in Turns |-> 0]
    /\ dirty = [t \in Turns |-> FALSE]
    /\ cb = [t \in Turns |-> [k \in Slots |-> "idle"]]
    /\ started = [t \in Turns |-> [k \in Slots |-> FALSE]]
    /\ holding = [t \in Turns |-> NoKey]
    /\ gone = {}

-----------------------------------------------------------------------------
Key(t) == <<Home[t], ChatOf[t]>>

\* The process-wide registry of turn locks, as TurnLocks shows it to behave.
\* A lock is known to one process only.
Mutex == INSTANCE KeyedMutex
             WITH Callers <- Turns, Keys <- Replicas \X Chats

\* runStreamCandidates' list: the model, then its configured fallbacks.
Candidates(t) == <<model[t]>> \o Fallbacks[model[t]]

\* Mutant of History: the turn_complete filter is dropped.
HistoryWithPending(c) == {log[c][i] : i \in DOMAIN log[c]}

\* The turns whose rows loadHistory returns, always in the order of the log.
History(c) == {u \in answered : ChatOf[u] = c}

\* An UPDATE reaches the row only while the chat is not soft-deleted.
Titled(c, title) ==
    IF row[c].state = "live" THEN [row EXCEPT ![c].title = title] ELSE row
Modelled(c, m) ==
    IF row[c].state = "live" THEN [row EXCEPT ![c].model = m] ELSE row

\* The message has a fixed response; no model is asked.
Canned(t) == kind[t] \in {"democreate", "demo"}

Goto(t, place) == pc' = [pc EXCEPT ![t] = place]

-----------------------------------------------------------------------------
(* The handler, up to the lock.                                            *)

\* Create: a new row titled from the message.  firstTurnBody locks afterwards,
\* so a Continue of the new chat may overtake it.
CreateChat(t) ==
    LET c == ChatOf[t] IN
    /\ pc[t] = "new" /\ row[c].state = "absent"
    /\ \E m \in Models, demo \in BOOLEAN :
          /\ IF demo THEN Showcase ELSE m \in Servable
          /\ row' = [row EXCEPT ![c] = [state |-> "live", title |-> "auto",
                                        model |-> m]]
          /\ model' = [model EXCEPT ![t] = m]
          /\ kind' = [kind EXCEPT ![t] = IF demo THEN "democreate" ELSE "create"]
    /\ Goto(t, "lockwait")
    /\ UNCHANGED <<log, answered, ckpt, by, untitled, prompt, stream, holding, gone>>

\* Continue of a message with no fixed response: the first ownedChat only
\* checks that the chat is there; everything is read again under the lock.
ContinueReal(t) ==
    /\ pc[t] = "new" /\ row[ChatOf[t]].state = "live"
    /\ \E m \in Models \cup {NoModel} : model' = [model EXCEPT ![t] = m]
    /\ kind' = [kind EXCEPT ![t] = "real"]
    /\ Goto(t, "lockwait")
    /\ UNCHANGED <<durable, untitled, prompt, stream, holding, gone>>

\* Continue of a fixed-response message: what this read returns is used to the
\* end of the turn, and an untitled chat is titled before the lock is asked for.
ContinueDemo(t) ==
    LET c == ChatOf[t] IN
    /\ Showcase
    /\ pc[t] = "new" /\ row[c].state = "live"
    /\ model' = [model EXCEPT ![t] = row[c].model]
    /\ kind' = [kind EXCEPT ![t] = "demo"]
    /\ Goto(t, IF row[c].title = Untitled THEN "demotitle" ELSE "lockwait")
    /\ UNCHANGED <<durable, untitled, prompt, stream, holding, gone>>

\* lockChatTurn returns the unlock function.
Acquire(t) ==
    /\ pc[t] = "lockwait" /\ t \notin gone
    /\ Mutex!Acquire(t, Key(t))
    /\ Goto(t, IF kind[t] = "real" THEN "locked" ELSE "save")
    /\ UNCHANGED <<durable, request, stream, gone>>

\* lockChatTurn returns the context's error.
GiveUp(t) ==
    /\ pc[t] = "lockwait" /\ t \in gone
    /\ Goto(t, "over")
    /\ UNCHANGED <<durable, request, stream, holding, gone>>

-----------------------------------------------------------------------------
(* The handler, under the lock.                                            *)

\* ownedChat under the lock, and the model the turn will use.
Reload(t) ==
    LET r == row[ChatOf[t]]
        m == IF model[t] = NoModel THEN r.model ELSE model[t]
    IN
    /\ pc[t] = "locked" /\ t \notin gone
    /\ r.state = "live" /\ m \in Servable
    /\ model' = [model EXCEPT ![t] = m]
    /\ untitled' = [untitled EXCEPT ![t] = r.title = Untitled]
    /\ Goto(t, IF m # r.model THEN "switch"
               ELSE IF r.title = Untitled THEN "title" ELSE "history")
    /\ UNCHANGED <<durable, kind, prompt, stream, holding, gone>>

\* setChatModel.
Switch(t) ==
    /\ pc[t] = "switch" /\ t \notin gone
    /\ row' = Modelled(ChatOf[t], model[t])
    /\ Goto(t, IF untitled[t] THEN "title" ELSE "history")
    /\ UNCHANGED <<log, answered, ckpt, by, request, stream, holding, gone>>

\* setChatTitle: an UPDATE with no condition on the title it replaces.
SetTitle(t) ==
    /\ pc[t] \in {"title", "demotitle"} /\ t \notin gone
    /\ row' = Titled(ChatOf[t], "auto")
    /\ Goto(t, IF pc[t] = "title" THEN "history" ELSE "lockwait")
    /\ UNCHANGED <<log, answered, ckpt, by, request, stream, holding, gone>>

LoadHistory(t) ==
    /\ pc[t] = "history" /\ t \notin gone
    /\ prompt' = [prompt EXCEPT ![t] = History(ChatOf[t])]
    /\ Goto(t, "save")
    /\ UNCHANGED <<durable, kind, model, untitled, stream, holding, gone>>

\* savePendingUserMessage, on a detached context; then the lock and the turn
\* pass to the streaming goroutine.
SavePending(t) ==
    /\ pc[t] = "save"
    /\ log' = [log EXCEPT ![ChatOf[t]] = Append(@, t)]
    /\ attempt' = [attempt EXCEPT ![t] = 1]
    /\ Goto(t, "streaming")
    /\ UNCHANGED <<row, answered, ckpt, by, request, received, dirty, cb, started,
                   holding, gone>>

\* Mutant of FailEarly: releaseUntransferredChatTurn is not deferred.
FailEarlyKeepsLock(t) ==
    /\ pc[t] \in {"demotitle", "locked", "switch", "title", "history", "save"}
    /\ Goto(t, "over")
    /\ UNCHANGED <<durable, request, stream, holding, gone>>

\* An error return before the stream: releaseUntransferredChatTurn unlocks.
FailEarly(t) ==
    /\ pc[t] \in {"demotitle", "locked", "switch", "title", "history", "save"}
    /\ holding' = [holding EXCEPT ![t] = NoKey]
    /\ Goto(t, "over")
    /\ UNCHANGED <<durable, request, stream, gone>>

-----------------------------------------------------------------------------
(* The streaming goroutine of a model's answer, and its callbacks.         *)

Asking(t) == pc[t] = "streaming" /\ ~Canned(t)

\* runtimeDriver's delta callback, past its check that the call goes on.
DeltaArrives(t) ==
    LET k == attempt[t] IN
    /\ Asking(t) /\ t \notin gone
    /\ cb[t][k] = "idle" /\ received[t] < MaxDeltas
    /\ cb' = [cb EXCEPT ![t][k] = "checked"]
    /\ UNCHANGED <<durable, pc, request, attempt, received, dirty, started, holding, gone>>

\* onDelta: the preamble on the first one, then turnCheckpoint.add, which saves
\* when its interval has passed.  Nothing here asks whether the call was given
\* up since; a preamble is refused once the pipe is closed.
OnDelta(t, k) ==
    /\ cb[t][k] = "checked"
    /\ started[t][k] \/ pc[t] # "over"
    /\ started' = [started EXCEPT ![t][k] = TRUE]
    /\ received' = [received EXCEPT ![t] = @ + 1]
    /\ dirty' = [dirty EXCEPT ![t] = TRUE]
    /\ \E next \in {"idle", "saving"} : cb' = [cb EXCEPT ![t][k] = next]
    /\ UNCHANGED <<durable, pc, request, attempt, holding, gone>>

\* onDelta fails to write to the pipe.
DropDelta(t, k) ==
    /\ cb[t][k] = "checked"
    /\ t \in gone \/ pc[t] = "over"
    /\ cb' = [cb EXCEPT ![t][k] = "idle"]
    /\ UNCHANGED <<durable, pc, request, attempt, received, dirty, started, holding, gone>>

\* turnCheckpoint.save, which only warns when it fails.  Its upsert reads and then
\* writes; the saves of one candidate follow each other, while those of a call that
\* was given up and of the next one may overlap, and then leave two incomplete rows
\* where this step leaves one.
Checkpoint(t) ==
    \/ /\ ckpt' = [ckpt EXCEPT ![t] = received[t]]
       /\ dirty' = [dirty EXCEPT ![t] = FALSE]
    \/ UNCHANGED <<ckpt, dirty>>

SaveDelta(t, k) ==
    /\ cb[t][k] = "saving"
    /\ Checkpoint(t)
    /\ cb' = [cb EXCEPT ![t][k] = "idle"]
    /\ UNCHANGED <<row, log, answered, by, pc, request, attempt, received, started,
                   holding, gone>>

\* Mutant of Fallback: off by one at the end of the candidates.
FallbackPastEnd(t) ==
    /\ Asking(t)
    /\ ~started[t][attempt[t]]
    /\ attempt[t] <= Len(Candidates(t))
    /\ attempt' = [attempt EXCEPT ![t] = @ + 1]
    /\ UNCHANGED <<durable, pc, request, received, dirty, cb, started, holding, gone>>

\* The candidate's call failed before it streamed anything, for a reason the
\* next one may not share.  A call that timed out leaves its callback running.
Fallback(t) ==
    /\ Asking(t)
    /\ ~started[t][attempt[t]]
    /\ attempt[t] < Len(Candidates(t))
    /\ attempt' = [attempt EXCEPT ![t] = @ + 1]
    /\ UNCHANGED <<durable, pc, request, received, dirty, cb, started, holding, gone>>

\* The last candidate, one that streamed, or one that failed for good; or the
\* client left.
Fail(t) ==
    /\ Asking(t)
    /\ \/ started[t][attempt[t]]
       \/ attempt[t] = Len(Candidates(t))
       \/ cb[t][attempt[t]] = "idle"
       \/ t \in gone
    /\ Goto(t, "closing")
    /\ UNCHANGED <<durable, request, stream, holding, gone>>

\* Mutant of Finish: the turn is unlocked when its answer is there, before it
\* is saved.
FinishUnlocks(t) ==
    LET k == attempt[t] IN
    /\ Asking(t) /\ cb[t][k] = "idle"
    /\ started' = [started EXCEPT ![t][k] = TRUE]
    /\ holding' = [holding EXCEPT ![t] = NoKey]
    /\ Goto(t, "flush")
    /\ UNCHANGED <<durable, request, attempt, received, dirty, cb, gone>>

\* The call returned, so its callback has; chatcore.Run sends the epilogue.
Finish(t) ==
    LET k == attempt[t] IN
    /\ Asking(t) /\ cb[t][k] = "idle"
    /\ started' = [started EXCEPT ![t][k] = TRUE]
    /\ Goto(t, "flush")
    /\ UNCHANGED <<durable, request, attempt, received, dirty, cb, holding, gone>>

\* checkpoint.flush.
Flush(t) ==
    /\ pc[t] = "flush"
    /\ IF dirty[t] THEN Checkpoint(t) ELSE UNCHANGED <<ckpt, dirty>>
    /\ Goto(t, "persist")
    /\ UNCHANGED <<row, log, answered, by, request, attempt, received, cb, started,
                   holding, gone>>

\* streamCanned's goroutine reaches the end of its text, or stops short.
StreamCanned(t) ==
    /\ pc[t] = "streaming" /\ Canned(t)
    /\ \E next \in {"persist", "closing"} : Goto(t, next)
    /\ UNCHANGED <<durable, request, stream, holding, gone>>

\* The model that answered, as the rows record it.
Answerer(t) == IF Canned(t) THEN model[t] ELSE Candidates(t)[attempt[t]]

\* Mutant of Persist: the chat records the model asked for, not the one that
\* answered.
PersistAsked(t) ==
    /\ pc[t] = "persist"
    /\ \/ /\ ckpt' = [ckpt EXCEPT ![t] = 0]
          /\ answered' = answered \cup {t}
          /\ by' = [by EXCEPT ![t] = Answerer(t)]
          /\ row' = Modelled(ChatOf[t], model[t])
       \/ UNCHANGED <<ckpt, answered, by, row>>
    /\ Goto(t, "closing")
    /\ UNCHANGED <<log, request, stream, holding, gone>>

\* Mutant of Persist: the checkpoint row is not deleted.
PersistKeepsCheckpoint(t) ==
    /\ pc[t] = "persist"
    /\ \/ /\ answered' = answered \cup {t}
          /\ by' = [by EXCEPT ![t] = Answerer(t)]
          /\ row' = Modelled(ChatOf[t], Answerer(t))
       \/ UNCHANGED <<answered, by, row>>
    /\ Goto(t, "closing")
    /\ UNCHANGED <<log, ckpt, request, stream, holding, gone>>

\* persistCompletedTurn: one transaction, which only warns when it fails.
Persist(t) ==
    /\ pc[t] = "persist"
    /\ \/ /\ ckpt' = [ckpt EXCEPT ![t] = 0]
          /\ answered' = answered \cup {t}
          /\ by' = [by EXCEPT ![t] = Answerer(t)]
          /\ row' = Modelled(ChatOf[t], Answerer(t))
       \/ UNCHANGED <<ckpt, answered, by, row>>
    /\ Goto(t, "closing")
    /\ UNCHANGED <<log, request, stream, holding, gone>>

\* Mutant of Close: onDone is not deferred.
CloseKeepsLock(t) ==
    /\ pc[t] = "closing"
    /\ Goto(t, "over")
    /\ UNCHANGED <<durable, request, stream, holding, gone>>

\* The deferred pw.Close, then onDone, which unlocks.
Close(t) ==
    /\ pc[t] = "closing"
    /\ Mutex!Release(t)
    /\ Goto(t, "over")
    /\ UNCHANGED <<durable, request, stream, gone>>

-----------------------------------------------------------------------------
(* Everybody else.                                                         *)

\* The client closes the connection: the request's context is cancelled.
Leave(t) ==
    /\ pc[t] \notin {"new", "over"} /\ t \notin gone
    /\ gone' = gone \cup {t}
    /\ UNCHANGED <<durable, pc, request, stream, holding>>

\* GetOrCreateEmpty.
OpenEmpty(c) ==
    /\ row[c].state = "absent"
    /\ row' = [row EXCEPT ![c] = [Absent EXCEPT !.state = "live"]]
    /\ UNCHANGED <<log, answered, ckpt, by, pc, request, stream, holding, gone>>

Rename(c) ==
    /\ row[c].state = "live"
    /\ row' = Titled(c, "renamed")
    /\ UNCHANGED <<log, answered, ckpt, by, pc, request, stream, holding, gone>>

Delete(c) ==
    /\ row[c].state = "live"
    /\ row' = [row EXCEPT ![c].state = "deleted"]
    /\ UNCHANGED <<log, answered, ckpt, by, pc, request, stream, holding, gone>>

\* A process dies and starts again: its goroutines and its locks are gone.
Crash(r) ==
    LET Here(t) == Home[t] = r IN
    /\ \E t \in Turns : Here(t) /\ pc[t] # "new"
    /\ pc' = [t \in Turns |-> IF Here(t) /\ pc[t] # "new" THEN "over" ELSE pc[t]]
    /\ cb' = [t \in Turns |-> IF Here(t) THEN [k \in Slots |-> "idle"] ELSE cb[t]]
    /\ holding' = [t \in Turns |-> IF Here(t) THEN NoKey ELSE holding[t]]
    /\ UNCHANGED <<durable, request, attempt, received, dirty, started, gone>>

-----------------------------------------------------------------------------
Handle(t) == \/ CreateChat(t) \/ ContinueReal(t) \/ ContinueDemo(t)
             \/ Acquire(t) \/ GiveUp(t)
             \/ Reload(t) \/ Switch(t) \/ SetTitle(t) \/ LoadHistory(t)
             \/ SavePending(t) \/ FailEarly(t)

Answering(t) == \/ DeltaArrives(t) \/ Fallback(t) \/ Fail(t) \/ Finish(t)
                \/ StreamCanned(t) \/ Flush(t) \/ Persist(t) \/ Close(t)

Callback(t, k) == OnDelta(t, k) \/ DropDelta(t, k) \/ SaveDelta(t, k)

Environment == \/ \E t \in Turns : Leave(t)
               \/ \E c \in Chats : OpenEmpty(c) \/ Rename(c) \/ Delete(c)
               \/ \E r \in Replicas : Crash(r)

Next == \/ \E t \in Turns : \/ Handle(t)
                            \/ Answering(t)
                            \/ \E k \in Slots : Callback(t, k)
        \/ Environment

Spec == Init /\ [][Next]_vars

\* A database call returns; TurnTimeout ends every upstream call, so a
\* candidate fails or finishes whatever its provider does; the goroutine runs
\* its deferred functions; and a lock's waiters are served in arrival order.
\* The client reads its stream or leaves.  Nothing makes it leave, and nothing
\* makes a process die, a chat change or an update fail.
Advance(t) == \/ Reload(t) \/ Switch(t) \/ SetTitle(t) \/ LoadHistory(t)
              \/ SavePending(t) \/ FailEarly(t) \/ GiveUp(t)

Fairness ==
    \A t \in Turns :
        /\ WF_vars(Advance(t))
        /\ SF_vars(Acquire(t))
        /\ WF_vars(Fallback(t) \/ Fail(t) \/ Finish(t) \/ StreamCanned(t))
        /\ WF_vars(Flush(t) \/ Persist(t) \/ Close(t))
        /\ \A k \in Slots : WF_vars(Callback(t, k))

LiveSpec == Spec /\ Fairness

-----------------------------------------------------------------------------
(* What the tests would hardly reach.                                      *)

\* A turn has its lock from the first read it relies on to its last write,
\* returns it on every way out, and shares a process with no second turn of its
\* chat in that stretch.
LockDiscipline ==
    /\ \A t \in Turns : holding[t] = IF pc[t] \in Critical THEN Key(t) ELSE NoKey
    /\ \A t, u \in Turns :
          pc[t] \in Critical /\ pc[u] \in Critical /\ Key(t) = Key(u) => t = u

\* While a model answers, the history it was given is still the history: no
\* exchange it was not shown has been completed meanwhile.
PromptFresh ==
    \A t \in Turns :
        kind[t] = "real" /\ pc[t] \in {"streaming", "flush", "persist"}
            => prompt[t] = History(ChatOf[t])

\* "acquire a per-chat lock" (internal/pkg/core/chats/README.md:18): one turn of a
\* chat at a time, whichever process it runs in.
OneTurnPerChat ==
    \A t, u \in Turns :
        pc[t] \in Critical /\ pc[u] \in Critical /\ ChatOf[t] = ChatOf[u] => t = u

Submitted(t) == \E i \in DOMAIN log[ChatOf[t]] : log[ChatOf[t]][i] = t

\* The chat is the conversation it promises to be: messages join at its end,
\* only the newest is ever answered, and each model is asked with exactly the
\* exchanges completed before its message.
Conversation == INSTANCE Transcript
    WITH context <- [t \in Turns |-> IF Submitted(t) THEN prompt[t] ELSE NoPrompt]

ImplementsTranscript == Conversation!Spec

\* The positions of a chat's answered messages, and the newest of them.
Done(c) == {i \in DOMAIN log[c] : log[c][i] \in answered}

NewestAnswered(c) == log[c][CHOOSE i \in Done(c) : \A j \in Done(c) : j <= i]

\* The model that answered the newest of them.
LastAnswered(c) == IF Done(c) = {} THEN NoModel ELSE by[NewestAnswered(c)]

\* A request without an answer that may have given the chat its model since the
\* newest answer: the one that created a chat in which nothing is answered yet, or
\* one that had the lock and read the history as it still is (or ended before it
\* came to read it).
Unfollowed(t) ==
    /\ t \notin answered
    /\ \/ kind[t] \in {"create", "democreate"} /\ History(ChatOf[t]) = {}
       \/ /\ kind[t] = "real" /\ pc[t] \notin {"lockwait", "locked"}
          /\ prompt[t] \in {NoPrompt, History(ChatOf[t])}

\* A chat is on the model of its newest answer, or on one that a request which no
\* answer followed asked for (persistCompletedTurn, setChatModel).  Where that answer
\* is a continuation's fixed response nothing is claimed: what such a turn does to
\* the model is DemoKeepsModel.
ReopenedModel ==
    \A c \in Chats :
        /\ row[c].state = "live"
        /\ Done(c) # {} => kind[NewestAnswered(c)] # "demo"
        => \/ row[c].model = LastAnswered(c)
           \/ \E t \in Turns : /\ ChatOf[t] = c /\ Unfollowed(t)
                               /\ row[c].model = model[t]

\* "the final transcript replaces this incomplete row atomically when the turn
\* completes" (turn_checkpoint.go:19-20).  It does where no model has a fallback;
\* the late callback of a call that was given up breaks it (ChatTurns_fallback.cfg).
CheckpointReplaced == \A t \in answered : ckpt[t] = 0

\* What remains with fallbacks: a turn its first candidate answered keeps no
\* incomplete row, though deltas, failing saves and the flush race its end.
FirstAnswerReplaces == \A t \in answered : attempt[t] <= 1 => ckpt[t] = 0

\* "demo turns bypass the LLM and never change the chat's model"
\* (chats.go:215-216).
DemoKeepsModel ==
    [][\A t \in Turns :
          kind[t] = "demo" /\ t \in answered' \ answered
              => row'[ChatOf[t]].model = row[ChatOf[t]].model]_vars

\* "ensureChatTitle titles a still-untitled chat" (chats.go:328): a name the
\* user gave a chat stays.
AutoTitleSparesNames ==
    [][\A c \in Chats : row[c].title = "renamed" => row'[c].title = "renamed"]_vars

\* Every request ends, whatever fails, leaves or dies, and so does every wait
\* for a turn before it.
EveryTurnEnds == \A t \in Turns : pc[t] # "new" ~> pc[t] = "over"
=============================================================================
