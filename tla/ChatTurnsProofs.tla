-------------------------- MODULE ChatTurnsProofs ---------------------------
(***************************************************************************)
(* Proofs about ChatTurns, for any number of requests, chats, models and   *)
(* candidates.                                                             *)
(***************************************************************************)
EXTENDS ChatTurns, WellFoundedInduction, TLAPS

\* What a turn has become by the time it streams.
Working == {"save", "streaming", "flush", "persist"}
Stored  == {"streaming", "flush", "persist"}

\* A turn knows what it is once it left "new", has a model that is served
\* before it needs one, and counts its attempts within its candidates.
ModelInvAt(t) ==
    /\ pc[t] # "new" => kind[t] # "none"
    /\ pc[t] \in {"locked", "switch", "title", "history"} => kind[t] = "real"
    /\ pc[t] = "demotitle" => kind[t] = "demo"
    /\ kind[t] = "create" => model[t] \in Servable
    /\ kind[t] = "real" /\ pc[t] \in Working \cup {"switch", "title", "history"}
          => model[t] \in Servable
    /\ pc[t] \in Stored /\ ~Canned(t) => attempt[t] \in 1..Len(Candidates(t))

ModelInv == \A t \in Turns : ModelInvAt(t)

\* A servable model has between one and Attempts candidates, all servable.
LEMMA CandidatesBounded ==
    ASSUME NEW t \in Turns, model[t] \in Servable
    PROVE  /\ Candidates(t) \in Seq(Servable)
           /\ Len(Candidates(t)) \in 1..Attempts
  <1>1. Fallbacks[model[t]] \in Seq(Servable)
    BY ChatTurnsAssumption
  <1>2. <<model[t]>> \in Seq(Servable)
    OBVIOUS
  <1>3. Len(Candidates(t)) = 1 + Len(Fallbacks[model[t]])
    BY <1>1, <1>2 DEF Candidates
  <1>4. Len(Fallbacks[model[t]]) \in Nat /\ Len(Fallbacks[model[t]]) < Attempts /\ Attempts \in Nat
    BY <1>1, ChatTurnsAssumption
  <1> QED
    BY <1>1, <1>2, <1>3, <1>4 DEF Candidates

\* The model recorded for a turn that completes.
LEMMA AnswererIsModel ==
    ASSUME TypeOK, ModelInv, NEW t \in Turns, pc[t] = "persist"
    PROVE  Answerer(t) \in Models \cup {NoModel}
  <1>1. CASE Canned(t)
    BY <1>1 DEF Answerer, TypeOK
  <1>2. CASE ~Canned(t)
    <2>1. model[t] \in Servable
      BY <1>2 DEF ModelInv, ModelInvAt, TypeOK, Canned, Working
    <2>2. attempt[t] \in 1..Len(Candidates(t))
      BY <1>2 DEF ModelInv, ModelInvAt, Stored
    <2>3. Candidates(t)[attempt[t]] \in Servable
      BY <2>1, <2>2, CandidatesBounded
    <2> QED
      BY <1>2, <2>3, ChatTurnsAssumption DEF Answerer
  <1> QED
    BY <1>1, <1>2


-----------------------------------------------------------------------------
(* Types.                                                                  *)

\* An update of a chat row leaves the table well typed.
LEMMA RowsKept ==
    ASSUME TypeOK, NEW c \in Chats
    PROVE  /\ \A m \in Models \cup {NoModel} : Modelled(c, m) \in [Chats -> Rows]
           /\ \A x \in {"auto", "renamed"} : Titled(c, x) \in [Chats -> Rows]
  <1>1. row \in [Chats -> Rows] /\ row[c] \in Rows
    BY DEF TypeOK
  <1>2. ASSUME NEW m \in Models \cup {NoModel}
        PROVE  Modelled(c, m) \in [Chats -> Rows]
    <2>1. [row[c] EXCEPT !.model = m] \in Rows
      BY <1>1 DEF Rows
    <2> QED
      BY <1>1, <2>1 DEF Modelled
  <1>3. ASSUME NEW x \in {"auto", "renamed"}
        PROVE  Titled(c, x) \in [Chats -> Rows]
    <2>1. [row[c] EXCEPT !.title = x] \in Rows
      BY <1>1 DEF Rows
    <2> QED
      BY <1>1, <2>1 DEF Titled
  <1> QED
    BY <1>2, <1>3

\* The handler's steps keep the types.
LEMMA HandleTypeOK ==
    ASSUME TypeOK, NEW t \in Turns, Handle(t)
    PROVE  TypeOK'
  <1> USE DEF TypeOK, Goto, durable, request, stream, Places
  <1>0. ChatOf[t] \in Chats /\ Key(t) \in Replicas \X Chats /\ Servable \subseteq Models
    BY ChatTurnsAssumption DEF Key
  <1>1. CASE CreateChat(t)
    <2>1. PICK m \in Models, demo \in BOOLEAN :
              /\ row' = [row EXCEPT ![ChatOf[t]] =
                            [state |-> "live", title |-> "auto", model |-> m]]
              /\ model' = [model EXCEPT ![t] = m]
              /\ kind' = [kind EXCEPT ![t] = IF demo THEN "democreate" ELSE "create"]
      BY <1>1 DEF CreateChat
    <2>2. row' \in [Chats -> Rows]
      BY <2>1, <1>0 DEF Rows
    <2> QED
      BY <1>1, <2>1, <2>2 DEF CreateChat
  <1>2. CASE ContinueReal(t)
    BY <1>2 DEF ContinueReal
  <1>3. CASE ContinueDemo(t)
    BY <1>3, <1>0 DEF ContinueDemo, Rows
  <1>4. CASE Acquire(t)
    BY <1>4, <1>0 DEF Acquire, Mutex!Acquire
  <1>5. CASE GiveUp(t)
    BY <1>5 DEF GiveUp
  <1>6. CASE Reload(t)
    BY <1>6, <1>0 DEF Reload, Rows
  <1>7. CASE Switch(t)
    BY <1>7, <1>0, RowsKept DEF Switch
  <1>8. CASE SetTitle(t)
    BY <1>8, <1>0, RowsKept DEF SetTitle
  <1>9. CASE LoadHistory(t)
    BY <1>9 DEF LoadHistory, History
  <1>10. CASE SavePending(t)
    <2>1. log' \in [Chats -> Seq(Turns)]
      <3>1. log \in [Chats -> Seq(Turns)] /\ log[ChatOf[t]] \in Seq(Turns)
        BY <1>0
      <3>2. Append(log[ChatOf[t]], t) \in Seq(Turns)
        BY <3>1
      <3> QED
        BY <1>10, <3>1, <3>2 DEF SavePending
    <2>2. 1 \in 0..Attempts
      BY <1>10, ChatTurnsAssumption DEF SavePending
    <2> QED
      BY <1>10, <2>1, <2>2 DEF SavePending
  <1>11. CASE FailEarly(t)
    BY <1>11 DEF FailEarly
  <1> QED
    BY <1>1, <1>2, <1>3, <1>4, <1>5, <1>6, <1>7, <1>8, <1>9, <1>10, <1>11 DEF Handle

\* The streaming goroutine's steps keep the types.
LEMMA AnsweringTypeOK ==
    ASSUME TypeOK, ModelInv, NEW t \in Turns, Answering(t)
    PROVE  TypeOK'
  <1> USE DEF TypeOK, Goto, durable, request, stream, Places
  <1>1. CASE DeltaArrives(t)
    BY <1>1 DEF DeltaArrives
  <1>2. CASE Fallback(t)
    <2>1. model[t] \in Servable
      BY <1>2 DEF Fallback, Asking, ModelInv, ModelInvAt, Canned, Working
    <2>2. attempt[t] + 1 \in 0..Attempts
      BY <1>2, <2>1, CandidatesBounded, ChatTurnsAssumption DEF Fallback
    <2> QED
      BY <1>2, <2>2 DEF Fallback
  <1>3. CASE Fail(t)
    BY <1>3 DEF Fail
  <1>4. CASE Finish(t)
    BY <1>4 DEF Finish
  <1>5. CASE StreamCanned(t)
    BY <1>5 DEF StreamCanned
  <1>6. CASE Flush(t)
    BY <1>6 DEF Flush, Checkpoint
  <1>7. CASE Persist(t)
    <2>1. Answerer(t) \in Models \cup {NoModel}
      BY <1>7, AnswererIsModel DEF Persist
    <2>2. Modelled(ChatOf[t], Answerer(t)) \in [Chats -> Rows]
      BY <2>1, RowsKept, ChatTurnsAssumption
    <2> QED
      <3>1. row' \in [Chats -> Rows] /\ ckpt' \in [Turns -> Nat]
            /\ answered' \subseteq Turns /\ by' \in [Turns -> Models \cup {NoModel}]
        <4>1. CASE UNCHANGED <<ckpt, answered, by, row>>
          BY <4>1
        <4>2. CASE /\ ckpt' = [ckpt EXCEPT ![t] = 0]
                   /\ answered' = answered \cup {t}
                   /\ by' = [by EXCEPT ![t] = Answerer(t)]
                   /\ row' = Modelled(ChatOf[t], Answerer(t))
          BY <4>2, <2>1, <2>2
        <4> QED
          BY <1>7, <4>1, <4>2 DEF Persist
      <3>2. pc' \in [Turns -> Places]
        BY <1>7 DEF Persist
      <3> QED
        BY <1>7, <3>1, <3>2 DEF Persist
  <1>8. CASE Close(t)
    BY <1>8 DEF Close, Mutex!Release
  <1> QED
    BY <1>1, <1>2, <1>3, <1>4, <1>5, <1>6, <1>7, <1>8 DEF Answering

\* The delta callbacks keep the types.
LEMMA CallbackTypeOK ==
    ASSUME TypeOK, NEW t \in Turns, NEW k \in Slots, Callback(t, k)
    PROVE  TypeOK'
  <1> USE DEF TypeOK, durable, request
  <1>1. CASE OnDelta(t, k)
    BY <1>1 DEF OnDelta
  <1>2. CASE DropDelta(t, k)
    BY <1>2 DEF DropDelta
  <1>3. CASE SaveDelta(t, k)
    BY <1>3 DEF SaveDelta, Checkpoint
  <1> QED
    BY <1>1, <1>2, <1>3 DEF Callback

\* Clients, other requests and crashes keep the types.
LEMMA EnvironmentTypeOK ==
    ASSUME TypeOK, Environment
    PROVE  TypeOK'
  <1> USE DEF TypeOK, durable, request, stream, Places
  <1>1. ASSUME NEW t \in Turns, Leave(t) PROVE TypeOK'
    BY <1>1 DEF Leave
  <1>2. ASSUME NEW c \in Chats, OpenEmpty(c) PROVE TypeOK'
    BY <1>2 DEF OpenEmpty, Absent, Untitled, Rows
  <1>3. ASSUME NEW c \in Chats, Rename(c) PROVE TypeOK'
    BY <1>3, RowsKept DEF Rename
  <1>4. ASSUME NEW c \in Chats, Delete(c) PROVE TypeOK'
    <2>0. row[c] \in Rows
      BY <1>4
    <2>1. [row[c] EXCEPT !.state = "deleted"] \in Rows
      BY <2>0 DEF Rows
    <2> QED
      BY <1>4, <2>1 DEF Delete
  <1>5. ASSUME NEW r \in Replicas, Crash(r) PROVE TypeOK'
    BY <1>5 DEF Crash
  <1> QED
    BY <1>1, <1>2, <1>3, <1>4, <1>5 DEF Environment


-----------------------------------------------------------------------------
(* Locks.                                                                  *)

\* A turn that moves without entering or leaving its critical section.
LEMMA LockFrame ==
    ASSUME TypeOK, LockDiscipline, NEW t \in Turns, NEW p \in Places,
           pc' = [pc EXCEPT ![t] = p], holding' = holding,
           pc[t] \in Critical <=> p \in Critical
    PROVE  LockDiscipline'
  <1>1. \A u \in Turns : pc'[u] \in Critical <=> pc[u] \in Critical
    BY DEF TypeOK
  <1> QED
    BY <1>1 DEF LockDiscipline, Key

\* A turn that leaves its critical section, or never entered it, and holds
\* nothing.
LEMMA LockReleased ==
    ASSUME TypeOK, LockDiscipline, NEW t \in Turns,
           pc' = [pc EXCEPT ![t] = "over"],
           holding' = [holding EXCEPT ![t] = NoKey]
    PROVE  LockDiscipline'
  BY DEF TypeOK, LockDiscipline, Key, Critical

\* The handler's steps keep the lock discipline: Acquire enters the critical
\* section with the lock, FailEarly leaves it without.
LEMMA HandleLocks ==
    ASSUME TypeOK, LockDiscipline, NEW t \in Turns, Handle(t)
    PROVE  LockDiscipline'
  <1> USE DEF Goto, Critical, Places
  <1>1. CASE CreateChat(t)
    BY <1>1, LockFrame DEF CreateChat
  <1>2. CASE ContinueReal(t)
    BY <1>2, LockFrame DEF ContinueReal
  <1>3. CASE ContinueDemo(t)
    BY <1>3, LockFrame DEF ContinueDemo
  <1>4. CASE Acquire(t)
    <2>1. PICK p \in Critical : pc' = [pc EXCEPT ![t] = p]
      BY <1>4 DEF Acquire
    <2>2. /\ \A u \in Turns : holding[u] # Key(t)
          /\ holding' = [holding EXCEPT ![t] = Key(t)]
      BY <1>4 DEF Acquire, Mutex!Acquire, Mutex!Free
    <2>3. \A u \in Turns : pc[u] \in Critical => holding[u] = Key(u)
      BY DEF LockDiscipline
    <2> QED
      BY <2>1, <2>2, <2>3 DEF LockDiscipline, TypeOK, Key
  <1>5. CASE GiveUp(t)
    BY <1>5, LockFrame DEF GiveUp
  <1>6. CASE Reload(t)
    BY <1>6, LockFrame DEF Reload
  <1>7. CASE Switch(t)
    BY <1>7, LockFrame DEF Switch
  <1>8. CASE SetTitle(t)
    BY <1>8, LockFrame DEF SetTitle
  <1>9. CASE LoadHistory(t)
    BY <1>9, LockFrame DEF LoadHistory
  <1>10. CASE SavePending(t)
    BY <1>10, LockFrame DEF SavePending
  <1>11. CASE FailEarly(t)
    BY <1>11, LockReleased DEF FailEarly
  <1> QED
    BY <1>1, <1>2, <1>3, <1>4, <1>5, <1>6, <1>7, <1>8, <1>9, <1>10, <1>11 DEF Handle

\* The streaming goroutine's steps keep the lock discipline.
LEMMA AnsweringLocks ==
    ASSUME TypeOK, LockDiscipline, NEW t \in Turns, Answering(t)
    PROVE  LockDiscipline'
  <1> USE DEF Goto, Critical, Places
  <1>1. CASE DeltaArrives(t) \/ Fallback(t)
    BY <1>1 DEF DeltaArrives, Fallback, LockDiscipline, Key
  <1>2. CASE Fail(t)
    BY <1>2, LockFrame DEF Fail, Asking
  <1>3. CASE Finish(t)
    BY <1>3, LockFrame DEF Finish, Asking
  <1>4. CASE StreamCanned(t)
    BY <1>4, LockFrame DEF StreamCanned
  <1>5. CASE Flush(t)
    BY <1>5, LockFrame DEF Flush
  <1>6. CASE Persist(t)
    BY <1>6, LockFrame DEF Persist
  <1>7. CASE Close(t)
    BY <1>7, LockReleased DEF Close, Mutex!Release
  <1> QED
    BY <1>1, <1>2, <1>3, <1>4, <1>5, <1>6, <1>7 DEF Answering

\* Nothing else moves a turn or a lock, but a crash, which drops both together.
LEMMA OthersLocks ==
    ASSUME TypeOK, LockDiscipline,
           Environment \/ \E t \in Turns, k \in Slots : Callback(t, k)
    PROVE  LockDiscipline'
  <1>1. CASE UNCHANGED <<pc, holding>>
    BY <1>1 DEF LockDiscipline, Key
  <1>2. ASSUME NEW r \in Replicas, Crash(r) PROVE LockDiscipline'
    <2>1. \A t \in Turns : pc'[t] \in Critical <=> pc[t] \in Critical /\ Home[t] # r
      BY <1>2 DEF Crash, Critical
    <2>2. \A t \in Turns : holding'[t] = IF Home[t] = r THEN NoKey ELSE holding[t]
      BY <1>2 DEF Crash
    <2> QED
      BY <2>1, <2>2 DEF LockDiscipline, Key
  <1>3. UNCHANGED <<pc, holding>> \/ \E r \in Replicas : Crash(r)
    BY DEF Environment, Callback, Leave, OpenEmpty, Rename, Delete, OnDelta,
           DropDelta, SaveDelta
  <1> QED
    BY <1>1, <1>2, <1>3


-----------------------------------------------------------------------------
(* Models.                                                                 *)

\* ModelInv holds of the turns a step does not touch.
LEMMA ModelFrame ==
    ASSUME ModelInv, NEW t \in Turns, ModelInvAt(t)',
           \A u \in Turns \ {t} :
               /\ pc'[u] = pc[u] /\ kind'[u] = kind[u]
               /\ model'[u] = model[u] /\ attempt'[u] = attempt[u]
    PROVE  ModelInv'
  <1>1. ASSUME NEW u \in Turns, u # t PROVE ModelInvAt(u)'
    BY <1>1 DEF ModelInv, ModelInvAt, Canned, Candidates
  <1> QED
    BY <1>1 DEF ModelInv

\* The handler's steps keep ModelInv: Reload lets only a servable model through.
LEMMA HandleModels ==
    ASSUME TypeOK, ModelInv, NEW t \in Turns, Handle(t)
    PROVE  ModelInv'
  <1> USE DEF TypeOK, Goto, request, stream
  <1>0. ModelInvAt(t)
    BY DEF ModelInv
  <1>1. CASE CreateChat(t)
    <2>1. ModelInvAt(t)'
      BY <1>1 DEF CreateChat, ModelInvAt, Stored
    <2> QED
      BY <1>1, <2>1, ModelFrame DEF CreateChat
  <1>2. CASE ContinueReal(t)
    <2>1. ModelInvAt(t)'
      BY <1>2 DEF ContinueReal, ModelInvAt, Working, Stored
    <2> QED
      BY <1>2, <2>1, ModelFrame DEF ContinueReal
  <1>3. CASE ContinueDemo(t)
    <2>1. ModelInvAt(t)'
      BY <1>3 DEF ContinueDemo, ModelInvAt, Stored
    <2> QED
      BY <1>3, <2>1, ModelFrame DEF ContinueDemo
  <1>4. CASE Acquire(t) \/ GiveUp(t)
    <2>1. ModelInvAt(t)'
      BY <1>0, <1>4 DEF Acquire, GiveUp, ModelInvAt, Working, Stored
    <2> QED
      BY <1>4, <2>1, ModelFrame DEF Acquire, GiveUp
  <1>5. CASE Reload(t)
    <2>1. ModelInvAt(t)'
      BY <1>0, <1>5 DEF Reload, ModelInvAt, Stored
    <2> QED
      BY <1>5, <2>1, ModelFrame DEF Reload
  <1>6. CASE Switch(t) \/ LoadHistory(t) \/ FailEarly(t)
    <2>1. ModelInvAt(t)'
      BY <1>0, <1>6 DEF Switch, LoadHistory, FailEarly, ModelInvAt, Working, Stored
    <2> QED
      BY <1>6, <2>1, ModelFrame DEF Switch, LoadHistory, FailEarly
  <1>7. CASE SetTitle(t)
    <2>1. ModelInvAt(t)'
      BY <1>0, <1>7 DEF SetTitle, ModelInvAt, Working, Stored
    <2> QED
      BY <1>7, <2>1, ModelFrame DEF SetTitle
  <1>8. CASE SavePending(t)
    <2>1. ~Canned(t) => model[t] \in Servable
      BY <1>0, <1>8 DEF SavePending, ModelInvAt, Canned, Working
    <2>2. ~Canned(t) => 1 \in 1..Len(Candidates(t))
      BY <2>1, CandidatesBounded
    <2>3. /\ attempt'[t] = 1 /\ Candidates(t)' = Candidates(t)
          /\ Canned(t)' = Canned(t)
      BY <1>8 DEF SavePending, Candidates, Canned
    <2>4. ModelInvAt(t)'
      BY <1>0, <1>8, <2>2, <2>3 DEF SavePending, ModelInvAt, Working
    <2> QED
      BY <1>8, <2>4, ModelFrame DEF SavePending
  <1> QED
    BY <1>1, <1>2, <1>3, <1>4, <1>5, <1>6, <1>7, <1>8 DEF Handle

\* The streaming goroutine's steps keep ModelInv: Fallback counts to the last
\* candidate.
LEMMA AnsweringModels ==
    ASSUME TypeOK, ModelInv, NEW t \in Turns, Answering(t)
    PROVE  ModelInv'
  <1> USE DEF TypeOK, Goto, request, stream
  <1>0. ModelInvAt(t)
    BY DEF ModelInv
  <1>1. CASE Fallback(t)
    <2>1. model[t] \in Servable /\ attempt[t] \in 1..Len(Candidates(t))
      BY <1>0, <1>1 DEF Fallback, Asking, ModelInvAt, Canned, Working, Stored
    <2>2. attempt[t] + 1 \in 1..Len(Candidates(t))
      BY <1>1, <2>1, CandidatesBounded DEF Fallback
    <2>3. attempt'[t] = attempt[t] + 1 /\ Candidates(t)' = Candidates(t)
      BY <1>1 DEF Fallback, Candidates
    <2>4. ModelInvAt(t)'
      BY <1>0, <1>1, <2>2, <2>3 DEF Fallback, ModelInvAt
    <2> QED
      BY <1>1, <2>4, ModelFrame DEF Fallback
  <1>2. CASE ~Fallback(t)
    <2>1. UNCHANGED <<kind, model, attempt>>
      BY <1>2 DEF Answering, DeltaArrives, Fail, Finish, StreamCanned, Flush, Persist, Close
    <2>2. PICK p \in Stored \cup {"closing", "over"} :
              /\ p \in Stored => pc[t] \in Stored
              /\ pc' = [pc EXCEPT ![t] = p]
              /\ pc[t] # "new"
      BY <1>2 DEF Answering, DeltaArrives, Fail, Finish, StreamCanned, Flush, Persist,
                  Close, Asking, Stored
    <2>3. ModelInvAt(t)'
      BY <1>0, <2>1, <2>2 DEF ModelInvAt, Canned, Candidates, Working, Stored
    <2> QED
      BY <2>1, <2>2, <2>3, ModelFrame
  <1> QED
    BY <1>1, <1>2

\* Nothing else touches a turn's model, and a crash only ends turns.
LEMMA OthersModels ==
    ASSUME TypeOK, ModelInv,
           Environment \/ \E t \in Turns, k \in Slots : Callback(t, k)
    PROVE  ModelInv'
  <1>1. /\ UNCHANGED <<kind, model, attempt>>
        /\ \A t \in Turns : pc'[t] = pc[t] \/ (pc[t] # "new" /\ pc'[t] = "over")
    BY DEF Environment, Callback, Leave, OpenEmpty, Rename, Delete, OnDelta, DropDelta,
           SaveDelta, Crash, request, stream
  <1>2. ASSUME NEW t \in Turns PROVE ModelInvAt(t)'
    <2>1. ModelInvAt(t)
      BY DEF ModelInv
    <2> QED
      BY <1>1, <2>1 DEF ModelInvAt, Canned, Candidates, Working, Stored
  <1> QED
    BY <1>2 DEF ModelInv


-----------------------------------------------------------------------------
(* The first theorems: types and locks.                                    *)

\* What is inductive whatever the number of processes.
LocalInv == TypeOK /\ LockDiscipline /\ ModelInv

\* LocalInv holds when the processes start.
LEMMA LocalInit == Init => LocalInv
  <1> SUFFICES ASSUME Init PROVE LocalInv
    OBVIOUS
  <1> USE ChatTurnsAssumption DEF Init
  <1>1. TypeOK
    <2>1. row \in [Chats -> Rows]
      BY DEF Absent, Rows, Untitled
    <2>2. log \in [Chats -> Seq(Turns)]
      OBVIOUS
    <2>3. /\ cb \in [Turns -> [Slots -> {"idle", "checked", "saving"}]]
          /\ started \in [Turns -> [Slots -> BOOLEAN]]
      OBVIOUS
    <2> QED
      BY <2>1, <2>2, <2>3 DEF TypeOK, Places
  <1>2. LockDiscipline
    BY DEF LockDiscipline, Critical
  <1>3. ModelInv
    BY DEF ModelInv, ModelInvAt, Working, Stored
  <1> QED
    BY <1>1, <1>2, <1>3 DEF LocalInv

\* LocalInv is inductive.
LEMMA LocalStep == LocalInv /\ [Next]_vars => LocalInv'
  <1> SUFFICES ASSUME LocalInv, [Next]_vars PROVE LocalInv'
    OBVIOUS
  <1> USE DEF LocalInv
  <1>1. ASSUME NEW t \in Turns, Handle(t) PROVE LocalInv'
    BY <1>1, HandleTypeOK, HandleLocks, HandleModels
  <1>2. ASSUME NEW t \in Turns, Answering(t) PROVE LocalInv'
    BY <1>2, AnsweringTypeOK, AnsweringLocks, AnsweringModels
  <1>3. ASSUME NEW t \in Turns, NEW k \in Slots, Callback(t, k) PROVE LocalInv'
    BY <1>3, CallbackTypeOK, OthersLocks, OthersModels
  <1>4. CASE Environment
    BY <1>4, EnvironmentTypeOK, OthersLocks, OthersModels
  <1>5. CASE UNCHANGED vars
    <2> USE <1>5 DEF vars, durable, request, stream
    <2>1. TypeOK'
      BY DEF TypeOK
    <2>2. LockDiscipline'
      BY DEF LockDiscipline, Key
    <2>3. ModelInv'
      BY DEF ModelInv, ModelInvAt, Canned, Candidates
    <2> QED
      BY <2>1, <2>2, <2>3
  <1> QED
    BY <1>1, <1>2, <1>3, <1>4, <1>5 DEF Next

\* LocalInv holds in every reachable state.
LEMMA LocalInvariant == Spec => []LocalInv
  BY LocalInit, LocalStep, PTL DEF Spec

\* Every reachable state has the declared types: in particular no turn runs out
\* of candidates and every completed row carries a model.
THEOREM Types == Spec => []TypeOK
  <1>1. LocalInv => TypeOK
    BY DEF LocalInv
  <1> QED
    BY <1>1, LocalInvariant, PTL

\* A turn holds its lock exactly while it reads, streams and writes, on every
\* path through the code, and no two turns of one chat in one process overlap.
THEOREM TurnsHoldLocks == Spec => []LockDiscipline
  <1>1. LocalInv => LockDiscipline
    BY DEF LocalInv
  <1> QED
    BY <1>1, LocalInvariant, PTL

-----------------------------------------------------------------------------
(* One process: prompts and the transcript.                                *)

\* All requests are served by one process.
OneProcess == \A t, u \in Turns : Home[t] = Home[u]

\* Where a turn has no history yet.
Before == {"new", "demotitle", "lockwait", "locked", "switch", "title", "history"}
Ended  == {"closing", "over"}

\* Only a turn at its end has an answer; the log of a chat is of its own turns,
\* once they are stored; the turn that streams is the newest of its chat.
LogInv ==
    /\ \A t \in answered : pc[t] \in Ended
    /\ \A c \in Chats : \A i \in DOMAIN log[c] :
          ChatOf[log[c][i]] = c /\ pc[log[c][i]] \in Stored \cup Ended
    /\ \A t \in Turns : pc[t] \in Stored =>
          /\ log[ChatOf[t]] # <<>>
          /\ log[ChatOf[t]][Len(log[ChatOf[t]])] = t

\* A turn has a prompt once it loaded one, and it stays the chat's history.
PromptInv ==
    \A t \in Turns :
        /\ pc[t] \in Before => prompt[t] = NoPrompt
        /\ kind[t] # "real" => prompt[t] = NoPrompt
        /\ kind[t] = "real" /\ pc[t] \in Working => prompt[t] = History(ChatOf[t])

IInv == LocalInv /\ LogInv /\ PromptInv

\* A step that touches no message, answer or prompt, and moves no turn into or
\* out of the stretches LogInv and PromptInv speak of the wrong way.
Quiet ==
    /\ UNCHANGED <<log, answered, prompt>>
    /\ \A u \in Turns :
          /\ pc'[u] \in Stored => pc[u] \in Stored
          /\ pc[u] \in Ended => pc'[u] \in Ended
          /\ pc[u] \in Stored => pc'[u] \in Stored \cup Ended
          /\ pc'[u] \in Before => pc[u] \in Before
          /\ kind'[u] # "real" => kind[u] # "real" \/ pc[u] \in Before
          /\ kind'[u] = "real" /\ pc'[u] \in Working
                => kind[u] = "real" /\ pc[u] \in Working

\* The steps that are not quiet.
Loud(t) == LoadHistory(t) \/ SavePending(t) \/ Persist(t)

\* The handler's other steps are quiet.
LEMMA QuietHandle ==
    ASSUME TypeOK, NEW t \in Turns, Handle(t), ~Loud(t)
    PROVE  Quiet
  <1> USE DEF TypeOK, Goto, durable, request, stream, Stored, Ended, Before, Working
  <1>1. CASE CreateChat(t)
    BY <1>1 DEF CreateChat, Quiet
  <1>2. CASE ContinueReal(t)
    BY <1>2 DEF ContinueReal, Quiet
  <1>3. CASE ContinueDemo(t)
    BY <1>3 DEF ContinueDemo, Quiet
  <1>4. CASE Acquire(t)
    BY <1>4 DEF Acquire, Quiet
  <1>5. CASE GiveUp(t)
    BY <1>5 DEF GiveUp, Quiet
  <1>6. CASE Reload(t)
    BY <1>6 DEF Reload, Quiet
  <1>7. CASE Switch(t)
    BY <1>7 DEF Switch, Quiet
  <1>8. CASE SetTitle(t)
    BY <1>8 DEF SetTitle, Quiet
  <1>9. CASE FailEarly(t)
    BY <1>9 DEF FailEarly, Quiet
  <1> QED
    BY <1>1, <1>2, <1>3, <1>4, <1>5, <1>6, <1>7, <1>8, <1>9 DEF Handle, Loud

\* The streaming goroutine's other steps are quiet.
LEMMA QuietAnswering ==
    ASSUME TypeOK, NEW t \in Turns, Answering(t), ~Loud(t)
    PROVE  Quiet
  <1> USE DEF TypeOK, Goto, durable, request, Stored, Ended, Before, Working
  <1>1. CASE DeltaArrives(t) \/ Fallback(t)
    BY <1>1 DEF DeltaArrives, Fallback, Quiet
  <1>2. CASE Fail(t) \/ Finish(t)
    BY <1>2 DEF Fail, Finish, Asking, Quiet
  <1>3. CASE StreamCanned(t)
    BY <1>3 DEF StreamCanned, Quiet
  <1>4. CASE Flush(t) \/ Close(t)
    BY <1>4 DEF Flush, Close, Quiet
  <1> QED
    BY <1>1, <1>2, <1>3, <1>4 DEF Answering, Loud

\* The callbacks and the environment are quiet.
LEMMA QuietOthers ==
    ASSUME \/ Environment
           \/ \E t \in Turns, k \in Slots : Callback(t, k)
           \/ UNCHANGED vars
    PROVE  Quiet
  <1>1. /\ UNCHANGED <<log, answered, prompt, kind>>
        /\ \A u \in Turns : pc'[u] = pc[u] \/ (pc[u] # "new" /\ pc'[u] = "over")
    BY DEF Environment, Callback, Leave, OpenEmpty, Rename, Delete, OnDelta, DropDelta,
           SaveDelta, Crash, vars, durable, request
  <1> QED
    BY <1>1 DEF Quiet, Stored, Ended, Before, Working

\* A step that is not quiet loads a history, stores a message or completes a
\* turn.
LEMMA QuietSteps ==
    ASSUME TypeOK, [Next]_vars, ~Quiet
    PROVE  \E t \in Turns : Loud(t)
  BY QuietHandle, QuietAnswering, QuietOthers DEF Next


\* With one process, a chat has one turn at a time.
LEMMA OneTurnAtATime ==
    ASSUME LockDiscipline, OneProcess, NEW t \in Turns, NEW u \in Turns,
           pc[t] \in Critical, pc[u] \in Critical, ChatOf[t] = ChatOf[u]
    PROVE  t = u
  BY DEF LockDiscipline, OneProcess, Key

\* Quiet steps keep the log and prompt invariants.
LEMMA QuietPreserves ==
    ASSUME LogInv, PromptInv, Quiet, TypeOK
    PROVE  LogInv' /\ PromptInv'
  <1>0. /\ log' = log /\ answered' = answered /\ prompt' = prompt
        /\ \A c \in Chats, i \in Nat : i \in DOMAIN log[c] => log[c][i] \in Turns
    BY DEF Quiet, TypeOK
  <1>1. LogInv'
    <2>1. \A t \in answered : t \in Turns
      BY DEF TypeOK
    <2>2. \A c \in Chats : \A i \in DOMAIN log[c] : log[c][i] \in Turns
      BY DEF TypeOK
    <2> QED
      BY <1>0, <2>1, <2>2 DEF LogInv, Quiet
  <1>2. PromptInv'
    BY <1>0 DEF PromptInv, Quiet, History
  <1> QED
    BY <1>1, <1>2

\* LoadHistory gives the turn the chat's history of that moment.
LEMMA LoadPreserves ==
    ASSUME LocalInv, LogInv, PromptInv, NEW t \in Turns, LoadHistory(t)
    PROVE  LogInv' /\ PromptInv'
  <1> USE DEF LoadHistory, Goto, durable
  <1>1. /\ kind[t] = "real" /\ pc[t] = "history" /\ kind' = kind
        /\ pc' = [pc EXCEPT ![t] = "save"] /\ log' = log /\ answered' = answered
        /\ prompt' = [prompt EXCEPT ![t] = History(ChatOf[t])]
    BY DEF LocalInv, ModelInv, ModelInvAt
  <1>2. TypeOK
    BY DEF LocalInv
  <1>3. LogInv'
    <2>1. \A u \in Turns : pc'[u] = pc[u] \/ (u = t /\ pc'[u] = "save")
      BY <1>1, <1>2 DEF TypeOK
    <2>2. \A c \in Chats : \A i \in DOMAIN log[c] : log[c][i] \in Turns
      BY <1>2 DEF TypeOK
    <2>3. \A u \in answered : u \in Turns
      BY <1>2 DEF TypeOK
    <2> QED
      BY <1>1, <2>1, <2>2, <2>3 DEF LogInv, Stored, Ended
  <1>4. PromptInv'
    BY <1>1, <1>2 DEF PromptInv, TypeOK, History, Before, Working
  <1> QED
    BY <1>3, <1>4

\* What a message appended to a log changes.
LEMMA Appended ==
    ASSUME TypeOK, NEW t \in Turns, SavePending(t)
    PROVE  /\ \A c \in Chats : c # ChatOf[t] => log'[c] = log[c]
           /\ log'[ChatOf[t]] = Append(log[ChatOf[t]], t)
           /\ log[ChatOf[t]] \in Seq(Turns)
  BY ChatTurnsAssumption DEF SavePending, TypeOK

\* SavePending makes the turn the newest of its chat; any other turn that
\* streams is of another chat.
LEMMA SavePreserves ==
    ASSUME LocalInv, OneProcess, LogInv, PromptInv, NEW t \in Turns, SavePending(t)
    PROVE  LogInv' /\ PromptInv'
  <1>1. /\ pc[t] = "save" /\ pc' = [pc EXCEPT ![t] = "streaming"]
        /\ kind' = kind /\ prompt' = prompt /\ answered' = answered
    BY DEF SavePending, Goto, durable, request
  <1>2. TypeOK /\ LockDiscipline
    BY DEF LocalInv
  <1>3. /\ ChatOf[t] \in Chats
        /\ \A u \in Turns : pc'[u] = IF u = t THEN "streaming" ELSE pc[u]
    BY <1>1, <1>2, ChatTurnsAssumption DEF TypeOK
  <1>4. ASSUME NEW u \in answered PROVE pc'[u] \in Ended
    BY <1>1, <1>2, <1>3 DEF LogInv, TypeOK, Ended
  <1>5. ASSUME NEW c \in Chats, NEW i \in DOMAIN log'[c]
        PROVE  ChatOf[log'[c][i]] = c /\ pc'[log'[c][i]] \in Stored \cup Ended
    <2>1. CASE c # ChatOf[t]
      <3>1. log'[c] = log[c] /\ log[c][i] \in Turns
        BY <1>2, <1>5, <2>1, Appended DEF TypeOK
      <3> QED
        BY <1>3, <1>5, <3>1 DEF LogInv, Stored, Ended
    <2>2. CASE c = ChatOf[t] /\ i = Len(log[c]) + 1
      <3>1. log'[c][i] = t
        BY <1>2, <2>2, Appended
      <3> QED
        BY <1>3, <2>2, <3>1 DEF Stored
    <2>3. CASE c = ChatOf[t] /\ i \in DOMAIN log[c]
      <3>1. log'[c][i] = log[c][i] /\ log[c][i] \in Turns
        <4>1. log[c] \in Seq(Turns) /\ log'[c] = Append(log[c], t)
          BY <1>2, <2>3, Appended
        <4>2. i \in 1..Len(log[c])
          BY <2>3, <4>1
        <4> QED
          BY <4>1, <4>2
      <3> QED
        BY <1>3, <1>5, <2>3, <3>1 DEF LogInv, Stored, Ended
    <2>4. c = ChatOf[t] => i = Len(log[c]) + 1 \/ i \in DOMAIN log[c]
      BY <1>2, <1>5, Appended
    <2> QED
      BY <2>1, <2>2, <2>3, <2>4
  <1>6. ASSUME NEW u \in Turns, pc'[u] \in Stored
        PROVE  /\ log'[ChatOf[u]] # <<>>
               /\ log'[ChatOf[u]][Len(log'[ChatOf[u]])] = u
    <2>1. CASE u = t
      BY <1>2, <2>1, Appended
    <2>2. CASE u # t
      <3>1. pc[u] \in Stored
        BY <1>3, <1>6, <2>2
      <3>2. ChatOf[u] # ChatOf[t]
        BY <1>1, <1>2, <2>2, <3>1, OneTurnAtATime DEF Stored, Critical
      <3>3. log'[ChatOf[u]] = log[ChatOf[u]]
        BY <1>2, <3>2, Appended, ChatTurnsAssumption
      <3> QED
        BY <3>1, <3>3 DEF LogInv
    <2> QED
      BY <2>1, <2>2
  <1>7. LogInv'
    BY <1>1, <1>4, <1>5, <1>6 DEF LogInv
  <1>8. PromptInv'
    BY <1>1, <1>3 DEF PromptInv, History, Before, Working
  <1> QED
    BY <1>7, <1>8

\* Persist changes the history of a chat no other turn has a prompt from.
LEMMA PersistPreserves ==
    ASSUME LocalInv, OneProcess, LogInv, PromptInv, NEW t \in Turns, Persist(t)
    PROVE  LogInv' /\ PromptInv'
  <1>1. /\ pc[t] = "persist" /\ pc' = [pc EXCEPT ![t] = "closing"]
        /\ kind' = kind /\ prompt' = prompt /\ log' = log
        /\ answered' \in {answered, answered \cup {t}}
    BY DEF Persist, Goto, request
  <1>2. TypeOK /\ LockDiscipline
    BY DEF LocalInv
  <1>3. \A u \in Turns : pc'[u] = IF u = t THEN "closing" ELSE pc[u]
    BY <1>1, <1>2 DEF TypeOK
  <1>4. LogInv'
    <2>1. \A c \in Chats : \A i \in DOMAIN log[c] : log[c][i] \in Turns
      BY <1>2 DEF TypeOK
    <2>2. \A u \in answered : u \in Turns
      BY <1>2 DEF TypeOK
    <2> QED
      BY <1>1, <1>3, <2>1, <2>2 DEF LogInv, Stored, Ended
  <1>5. ASSUME NEW u \in Turns, kind[u] = "real", pc'[u] \in Working
        PROVE  prompt[u] = History(ChatOf[u])'
    <2>1. u # t /\ pc[u] \in Working
      BY <1>3, <1>5 DEF Working
    <2>2. ChatOf[u] # ChatOf[t]
      BY <1>1, <1>2, <2>1, OneTurnAtATime DEF Working, Critical
    <2>3. History(ChatOf[u])' = History(ChatOf[u])
      BY <1>1, <2>2 DEF History
    <2> QED
      BY <1>5, <2>1, <2>3 DEF PromptInv
  <1>6. PromptInv'
    BY <1>1, <1>3, <1>5 DEF PromptInv, Before, Working
  <1> QED
    BY <1>4, <1>6

\* IInv holds when the processes start.
LEMMA IInvInit == Init => IInv
  <1> SUFFICES ASSUME Init PROVE IInv
    OBVIOUS
  <1>1. LocalInv
    BY LocalInit
  <1>2. LogInv
    BY DEF Init, LogInv, Stored
  <1>3. PromptInv
    BY DEF Init, PromptInv, Working
  <1> QED
    BY <1>1, <1>2, <1>3 DEF IInv

\* IInv is inductive, with one process.
LEMMA IInvStep == OneProcess /\ IInv /\ [Next]_vars => IInv'
  <1> SUFFICES ASSUME OneProcess, IInv, [Next]_vars PROVE IInv'
    OBVIOUS
  <1>1. LocalInv'
    BY LocalStep DEF IInv
  <1>2. CASE Quiet
    BY <1>1, <1>2, QuietPreserves DEF IInv, LocalInv
  <1>3. ASSUME NEW t \in Turns, Loud(t) PROVE IInv'
    BY <1>1, <1>3, LoadPreserves, SavePreserves, PersistPreserves DEF IInv, Loud
  <1> QED
    BY <1>2, <1>3, QuietSteps DEF IInv, LocalInv


\* IInv holds in every reachable state, with one process.
LEMMA Invariant == OneProcess /\ Spec => []IInv
  <1> SUFFICES ASSUME OneProcess PROVE Spec => []IInv
    OBVIOUS
  <1>1. IInv /\ [Next]_vars => IInv'
    BY IInvStep
  <1> QED
    BY <1>1, IInvInit, PTL DEF Spec

\* In one process a model is never answering with a history that has moved on:
\* the lock covers the read of the history, the call and the transaction.
THEOREM PromptsStayFresh == OneProcess /\ Spec => []PromptFresh
  <1> SUFFICES ASSUME OneProcess PROVE Spec => []PromptFresh
    OBVIOUS
  <1>1. IInv => PromptFresh
    BY DEF IInv, PromptInv, PromptFresh, Working
  <1> QED
    BY <1>1, Invariant, PTL

-----------------------------------------------------------------------------
(* The transcript.                                                         *)

\* The refinement mapping's context.
Shown == [t \in Turns |-> IF Submitted(t) THEN prompt[t] ELSE NoPrompt]

\* A turn in the log of its chat has been stored.
LEMMA SubmittedStored ==
    ASSUME TypeOK, LogInv, NEW t \in Turns, Submitted(t)
    PROVE  pc[t] \in Stored \cup Ended
  BY ChatTurnsAssumption DEF Submitted, LogInv

\* SavePending is the transcript's Submit.
LEMMA SaveSubmits ==
    ASSUME IInv, NEW t \in Turns, SavePending(t)
    PROVE  Conversation!Submit(t)
  <1>1. /\ pc[t] = "save" /\ prompt' = prompt /\ answered' = answered
        /\ log' = [log EXCEPT ![ChatOf[t]] = Append(@, t)]
    BY DEF SavePending, request
  <1>2. TypeOK /\ LogInv /\ PromptInv
    BY DEF IInv, LocalInv
  <1>3. ~Submitted(t)
    BY <1>1, <1>2, SubmittedStored DEF Stored, Ended
  <1>4. Submitted(t)'
    <2>1. /\ log[ChatOf[t]] \in Seq(Turns)
          /\ log'[ChatOf[t]] = Append(log[ChatOf[t]], t)
      BY <1>2, Appended
    <2>2. /\ Len(log'[ChatOf[t]]) \in DOMAIN log'[ChatOf[t]]
          /\ log'[ChatOf[t]][Len(log'[ChatOf[t]])] = t
      BY <2>1
    <2> QED
      BY <2>2 DEF Submitted
  <1>5. ASSUME NEW u \in Turns, u # t PROVE Submitted(u)' <=> Submitted(u)
    <2>1. CASE ChatOf[u] # ChatOf[t]
      <3>1. log'[ChatOf[u]] = log[ChatOf[u]]
        BY <1>2, <2>1, Appended, ChatTurnsAssumption
      <3> QED
        BY <3>1 DEF Submitted
    <2>2. CASE ChatOf[u] = ChatOf[t]
      <3>1. /\ log[ChatOf[u]] \in Seq(Turns)
            /\ log'[ChatOf[u]] = Append(log[ChatOf[u]], t)
        BY <1>2, <2>2, Appended
      <3>2. /\ DOMAIN log'[ChatOf[u]] = DOMAIN log[ChatOf[u]] \cup {Len(log[ChatOf[u]]) + 1}
            /\ log'[ChatOf[u]][Len(log[ChatOf[u]]) + 1] = t
            /\ \A i \in DOMAIN log[ChatOf[u]] : log'[ChatOf[u]][i] = log[ChatOf[u]][i]
        BY <3>1
      <3> QED
        BY <1>5, <3>2 DEF Submitted
    <2> QED
      BY <2>1, <2>2
  <1>6. prompt[t] = NoPrompt \/ prompt[t] = History(ChatOf[t])
    BY <1>1, <1>2 DEF PromptInv, Working
  <1>7. Shown' = [Shown EXCEPT ![t] = prompt[t]] /\ Shown[t] = NoPrompt
    BY <1>1, <1>3, <1>4, <1>5 DEF Shown
  <1>8. Shown' \in {Shown, [Shown EXCEPT ![t] = History(ChatOf[t])]}
    BY <1>6, <1>7 DEF Shown
  <1> QED
    BY <1>1, <1>3, <1>8 DEF Conversation!Submit, Conversation!Submitted,
        Conversation!Exchanges, Submitted, Shown, History

\* Persist is the transcript's Answer, or nothing when the transaction fails.
LEMMA PersistAnswers ==
    ASSUME IInv, NEW t \in Turns, Persist(t)
    PROVE  Conversation!Answer(t) \/ UNCHANGED <<log, answered, Shown>>
  <1>1. /\ pc[t] = "persist" /\ prompt' = prompt /\ log' = log
        /\ answered' \in {answered, answered \cup {t}}
    BY DEF Persist, request
  <1>2. Shown' = Shown
    BY <1>1 DEF Shown, Submitted
  <1>3. /\ log[ChatOf[t]] # <<>> /\ log[ChatOf[t]][Len(log[ChatOf[t]])] = t
        /\ t \notin answered
    BY <1>1 DEF IInv, LogInv, Stored, Ended
  <1> QED
    BY <1>1, <1>2, <1>3 DEF Conversation!Answer, Shown, Submitted

\* LoadHistory is invisible: the message is not in the log yet.
LEMMA LoadStutters ==
    ASSUME IInv, NEW t \in Turns, LoadHistory(t)
    PROVE  UNCHANGED <<log, answered, Shown>>
  <1>1. /\ pc[t] = "history" /\ log' = log /\ answered' = answered
        /\ prompt' = [prompt EXCEPT ![t] = History(ChatOf[t])]
    BY DEF LoadHistory, durable
  <1>2. TypeOK /\ LogInv
    BY DEF IInv, LocalInv
  <1>3. ~Submitted(t)
    BY <1>1, <1>2, SubmittedStored DEF Stored, Ended
  <1>4. \A u \in Turns : Submitted(u) => prompt'[u] = prompt[u]
    BY <1>1, <1>2, <1>3 DEF TypeOK
  <1> QED
    BY <1>1, <1>4 DEF Shown, Submitted

\* Every step of the chat service in one process is a step of the transcript or
\* invisible to it, so its chats keep the transcript's promises.
THEOREM KeepsTranscript == OneProcess /\ Spec => ImplementsTranscript
  <1> SUFFICES ASSUME OneProcess PROVE Spec => Conversation!Spec
    BY DEF ImplementsTranscript
  <1>1. Init => Conversation!Init
    BY DEF Init, Conversation!Init, Submitted
  <1>2. IInv /\ [Next]_vars => [Conversation!Next]_<<log, answered, Shown>>
    <2> SUFFICES ASSUME IInv, [Next]_vars
                 PROVE  [Conversation!Next]_<<log, answered, Shown>>
      OBVIOUS
    <2>1. CASE Quiet
      BY <2>1 DEF Quiet, Shown, Submitted
    <2>2. ASSUME NEW t \in Turns, Loud(t)
          PROVE  [Conversation!Next]_<<log, answered, Shown>>
      BY <2>2, LoadStutters, SaveSubmits, PersistAnswers DEF Loud, Conversation!Next
    <2> QED
      BY <2>1, <2>2, QuietSteps DEF IInv, LocalInv
  <1>3. IInv /\ [Next]_vars => [Conversation!Next]_Conversation!tvars
    BY <1>2 DEF Conversation!tvars, Shown
  <1> QED
    BY <1>1, <1>3, Invariant, PTL DEF Spec, Conversation!Spec

-----------------------------------------------------------------------------
(* Checkpoints.                                                            *)

\* No model has a fallback, so a turn has one candidate.
OneCandidate == \A m \in Servable : Fallbacks[m] = <<>>

\* A callback at work belongs to a candidate that was started, of a model's turn
\* that streamed; that of the candidate the turn ended with returned before the
\* turn was flushed, and never comes back.
CallbackInvAt(t, k) ==
    cb[t][k] # "idle" =>
        /\ ~Canned(t)
        /\ pc[t] \in Stored \cup Ended
        /\ k <= attempt[t]
        /\ k = attempt[t] => pc[t] \notin {"flush", "persist"} /\ t \notin answered

\* Hence nobody writes a checkpoint of a completed turn but the callback of a
\* candidate it fell back from.
CheckpointInvAt(t) ==
    /\ t \in answered => pc[t] \in Ended
    /\ \A k \in Slots : CallbackInvAt(t, k)
    /\ t \in answered /\ attempt[t] <= 1 => ckpt[t] = 0
    /\ OneCandidate => attempt[t] <= 1

CheckpointInv == \A t \in Turns : CheckpointInvAt(t)

\* CheckpointInv holds of the turns a step does not touch.
LEMMA CheckpointFrame ==
    ASSUME CheckpointInv, NEW t \in Turns, CheckpointInvAt(t)',
           \A u \in Turns \ {t} :
               /\ pc'[u] = pc[u] /\ kind'[u] = kind[u]
               /\ attempt'[u] = attempt[u] /\ cb'[u] = cb[u] /\ ckpt'[u] = ckpt[u]
               /\ u \in answered' <=> u \in answered
    PROVE  CheckpointInv'
  <1>1. ASSUME NEW u \in Turns, u # t PROVE CheckpointInvAt(u)'
    BY <1>1 DEF CheckpointInv, CheckpointInvAt, CallbackInvAt, Canned
  <1> QED
    BY <1>1 DEF CheckpointInv

\* Before a turn streams it has no callback and no answer: the handler's steps
\* keep CheckpointInv.
LEMMA HandleCheckpoints ==
    ASSUME LocalInv, CheckpointInv, NEW t \in Turns, Handle(t)
    PROVE  CheckpointInv'
  <1> USE DEF LocalInv, TypeOK, Goto, durable, request, stream, Stored, Ended
  <1>1. /\ CheckpointInvAt(t)
        /\ pc[t] \notin Stored \cup Ended
    BY DEF CheckpointInv, Handle, CreateChat, ContinueReal, ContinueDemo, Acquire, GiveUp,
           Reload, Switch, SetTitle, LoadHistory, SavePending, FailEarly
  <1>2. /\ t \notin answered
        /\ \A k \in Slots : cb[t][k] = "idle"
    BY <1>1 DEF CheckpointInvAt, CallbackInvAt
  <1>3. /\ UNCHANGED <<answered, ckpt, cb>>
        /\ \A u \in Turns \ {t} :
              pc'[u] = pc[u] /\ kind'[u] = kind[u] /\ attempt'[u] = attempt[u]
        /\ attempt'[t] = attempt[t] \/ attempt'[t] = 1
    BY DEF Handle, CreateChat, ContinueReal, ContinueDemo, Acquire, GiveUp, Reload, Switch,
           SetTitle, LoadHistory, SavePending, FailEarly
  <1>4. CheckpointInvAt(t)'
    BY <1>1, <1>2, <1>3 DEF CheckpointInvAt, CallbackInvAt
  <1> QED
    BY <1>3, <1>4, CheckpointFrame

\* The streaming goroutine's steps keep CheckpointInv: it finishes a call whose
\* callback returned, and completes the turn by deleting the checkpoint.
LEMMA AnsweringCheckpoints ==
    ASSUME LocalInv, CheckpointInv, NEW t \in Turns, Answering(t)
    PROVE  CheckpointInv'
  <1> USE DEF LocalInv, TypeOK, Goto, durable, request, stream, Stored, Ended, Asking
  <1>1. /\ CheckpointInvAt(t)
        /\ ModelInvAt(t)
    BY DEF CheckpointInv, ModelInv
  <1>2. UNCHANGED kind /\ (Canned(t)' <=> Canned(t))
    BY DEF Answering, DeltaArrives, Fallback, Fail, Finish, StreamCanned, Flush, Persist,
           Close, Canned
  <1>3. CASE DeltaArrives(t)
    <2>1. attempt[t] \in Slots
      <3>1. model[t] \in Servable /\ attempt[t] \in 1..Len(Candidates(t))
        BY <1>1, <1>3 DEF DeltaArrives, ModelInvAt, Canned, Working
      <3> QED
        BY <3>1, CandidatesBounded, ChatTurnsAssumption DEF Slots
    <2>2. CheckpointInvAt(t)'
      BY <1>1, <1>2, <1>3, <2>1 DEF DeltaArrives, CheckpointInvAt, CallbackInvAt
    <2> QED
      BY <1>2, <1>3, <2>2, CheckpointFrame DEF DeltaArrives
  <1>4. CASE Fallback(t)
    <2>1. ~OneCandidate
      <3>1. model[t] \in Servable /\ attempt[t] \in 1..Len(Candidates(t))
        BY <1>1, <1>4 DEF Fallback, ModelInvAt, Canned, Working
      <3>2. Len(Candidates(t)) = 1 + Len(Fallbacks[model[t]])
        BY <3>1, ChatTurnsAssumption DEF Candidates
      <3> QED
        BY <1>4, <3>1, <3>2 DEF Fallback, OneCandidate
    <2>2. CheckpointInvAt(t)'
      BY <1>1, <1>2, <1>4, <2>1 DEF Fallback, CheckpointInvAt, CallbackInvAt, Slots, OneCandidate
    <2> QED
      BY <1>2, <1>4, <2>2, CheckpointFrame DEF Fallback
  <1>5. CASE Fail(t)
    <2>1. CheckpointInvAt(t)'
      BY <1>1, <1>2, <1>5 DEF Fail, CheckpointInvAt, CallbackInvAt
    <2> QED
      BY <1>2, <1>5, <2>1, CheckpointFrame DEF Fail
  <1>6. CASE Finish(t)
    <2>1. CheckpointInvAt(t)'
      BY <1>1, <1>2, <1>6 DEF Finish, CheckpointInvAt, CallbackInvAt
    <2> QED
      BY <1>2, <1>6, <2>1, CheckpointFrame DEF Finish
  <1>7. CASE StreamCanned(t)
    <2>1. CheckpointInvAt(t)'
      BY <1>1, <1>2, <1>7 DEF StreamCanned, CheckpointInvAt, CallbackInvAt
    <2> QED
      BY <1>2, <1>7, <2>1, CheckpointFrame DEF StreamCanned
  <1>8. CASE Flush(t)
    <2>1. CheckpointInvAt(t)'
      BY <1>1, <1>2, <1>8 DEF Flush, CheckpointInvAt, CallbackInvAt
    <2> QED
      BY <1>2, <1>8, <2>1, CheckpointFrame DEF Flush, Checkpoint
  <1>9. CASE Persist(t)
    <2>1. CheckpointInvAt(t)'
      BY <1>1, <1>2, <1>9 DEF Persist, CheckpointInvAt, CallbackInvAt
    <2> QED
      BY <1>2, <1>9, <2>1, CheckpointFrame DEF Persist
  <1>10. CASE Close(t)
    <2>1. CheckpointInvAt(t)'
      BY <1>1, <1>2, <1>10 DEF Close, CheckpointInvAt, CallbackInvAt
    <2> QED
      BY <1>2, <1>10, <2>1, CheckpointFrame DEF Close
  <1> QED
    BY <1>3, <1>4, <1>5, <1>6, <1>7, <1>8, <1>9, <1>10 DEF Answering

\* A callback at work may store its content as it likes: the turn is not
\* completed, or fell back from its candidate.
LEMMA CallbackCheckpoints ==
    ASSUME LocalInv, CheckpointInv, NEW t \in Turns, NEW k \in Slots, Callback(t, k)
    PROVE  CheckpointInv'
  <1> USE DEF LocalInv, TypeOK, durable, request, Slots
  <1>1. CheckpointInvAt(t) /\ cb[t][k] # "idle"
    BY DEF CheckpointInv, Callback, OnDelta, DropDelta, SaveDelta
  <1>2. ~(t \in answered /\ attempt[t] <= 1)
    BY <1>1, ChatTurnsAssumption DEF CheckpointInvAt, CallbackInvAt
  <1>3. /\ UNCHANGED <<answered, pc, kind, attempt>>
        /\ \A u \in Turns \ {t} : ckpt'[u] = ckpt[u]
        /\ \E next \in {"idle", "saving"} : cb' = [cb EXCEPT ![t][k] = next]
    <2>1. CASE OnDelta(t, k)
      BY <2>1 DEF OnDelta
    <2>2. CASE DropDelta(t, k)
      BY <2>2 DEF DropDelta
    <2>3. CASE SaveDelta(t, k)
      BY <2>3 DEF SaveDelta, Checkpoint
    <2> QED
      BY <2>1, <2>2, <2>3 DEF Callback
  <1>4. /\ \A u \in Turns \ {t} : cb'[u] = cb[u]
        /\ \A j \in Slots : cb'[t][j] # "idle" => cb[t][j] # "idle"
    BY <1>1, <1>3
  <1>5. CheckpointInvAt(t)'
    BY <1>1, <1>2, <1>3, <1>4 DEF CheckpointInvAt, CallbackInvAt, Canned
  <1> QED
    BY <1>3, <1>4, <1>5, CheckpointFrame

\* A crash ends the callbacks with their turns; clients and other requests touch
\* neither.
LEMMA OthersCheckpoints ==
    ASSUME CheckpointInv, Environment \/ UNCHANGED vars
    PROVE  CheckpointInv'
  <1>1. /\ UNCHANGED <<answered, ckpt, attempt, kind>>
        /\ \A u \in Turns :
              \/ pc'[u] = pc[u] /\ cb'[u] = cb[u]
              \/ (pc'[u] = "over" \/ pc'[u] = pc[u]) /\ \A k \in Slots : cb'[u][k] = "idle"
    BY DEF Environment, Leave, OpenEmpty, Rename, Delete, Crash, vars, durable, request,
           stream
  <1>2. ASSUME NEW u \in Turns PROVE CheckpointInvAt(u)'
    BY <1>1 DEF CheckpointInv, CheckpointInvAt, CallbackInvAt, Canned, Ended
  <1> QED
    BY <1>2 DEF CheckpointInv

\* CheckpointInv holds in every reachable state.
LEMMA CheckpointInvariant == Spec => []CheckpointInv
  <1>1. Init => CheckpointInv
    <2>1. ASSUME Init, NEW t \in Turns PROVE CheckpointInvAt(t)
      <3>1. t \notin answered /\ attempt[t] = 0 /\ \A k \in Slots : cb[t][k] = "idle"
        BY <2>1 DEF Init
      <3> QED
        BY <3>1 DEF CheckpointInvAt, CallbackInvAt
    <2> QED
      BY <2>1 DEF CheckpointInv
  <1>2. LocalInv /\ CheckpointInv /\ [Next]_vars => CheckpointInv'
    BY HandleCheckpoints, AnsweringCheckpoints, CallbackCheckpoints, OthersCheckpoints
       DEF Next
  <1> QED
    BY <1>1, <1>2, LocalInvariant, PTL DEF Spec

\* A turn its first candidate answered keeps no incomplete row, whatever fails,
\* races or dies: only a turn that fell back may (the run of CheckpointReplaced
\* with a fallback shows how, through the callback of a call that was given up).
THEOREM FirstAnswersReplaceCheckpoints == Spec => []FirstAnswerReplaces
  <1>1. LocalInv /\ CheckpointInv => FirstAnswerReplaces
    BY DEF LocalInv, TypeOK, CheckpointInv, CheckpointInvAt, FirstAnswerReplaces
  <1> QED
    BY <1>1, LocalInvariant, CheckpointInvariant, PTL

\* Where no model has a fallback, the final transcript always replaces the
\* incomplete row of its turn, as turn_checkpoint.go:19-20 says.
THEOREM CheckpointsAreReplaced == OneCandidate /\ Spec => []CheckpointReplaced
  <1> SUFFICES ASSUME OneCandidate PROVE Spec => []CheckpointReplaced
    OBVIOUS
  <1>1. LocalInv /\ CheckpointInv => CheckpointReplaced
    BY DEF LocalInv, TypeOK, CheckpointInv, CheckpointInvAt, CheckpointReplaced
  <1> QED
    BY <1>1, LocalInvariant, CheckpointInvariant, PTL

-----------------------------------------------------------------------------
(* The model of a chat.                                                    *)

\* A bounded set of numbers that is not empty has a greatest one.
LEMMA GreatestNumber ==
    ASSUME NEW n \in Nat, NEW S, S \subseteq 1..n, S # {}
    PROVE  \E i \in S : \A j \in S : j <= i
  <1> DEFINE Less == {ss \in Nat \X Nat : ss[1] < ss[2]}
             T == {k \in Nat : \A j \in S : j <= k}
  <1>1. IsWellFoundedOn(Less, Nat)
    BY NatLessThanWellFounded, Zenon DEF OpToRel
  <1>2. \A i, j \in Nat : i < j => <<i, j>> \in Less
    OBVIOUS
  <1>3. T \subseteq Nat /\ n \in T
    OBVIOUS
  <1>4. \A k \in Nat : k \in T <=> \A j \in S : j <= k
    OBVIOUS
  <1> HIDE DEF Less, T
  <1>5. PICK k \in T : \A j \in T : ~ (<<j, k>> \in Less)
    <2>1. T # {}
      BY <1>3
    <2> QED
      BY <1>1, <1>3, <2>1, WFMin
  <1>6. k \in S
    <2> SUFFICES ASSUME k \notin S PROVE FALSE
      OBVIOUS
    <2>1. k \in Nat /\ \A j \in S : j \in Nat /\ j >= 1 /\ j <= k
      BY <1>3, <1>4
    <2>2. \A j \in S : j \in Nat /\ j >= 1 /\ j < k
      BY <2>1
    <2>3. k >= 1
      <3>1. PICK j \in S : TRUE
        OBVIOUS
      <3> QED
        BY <2>1, <2>2, <3>1
    <2>4. k - 1 \in Nat /\ k - 1 < k /\ \A j \in S : j <= k - 1
      BY <2>1, <2>2, <2>3
    <2> QED
      BY <1>2, <1>3, <1>4, <1>5, <2>4
  <1> QED
    BY <1>3, <1>4, <1>6

\* A live chat shows the model that answered last or one that a turn without an
\* answer asked for; nobody has asked anything of a chat that does not exist.
ShownInvAt(c) ==
    /\ row[c].state = "live" =>
          \/ row[c].model = LastAnswered(c)
          \/ \E t \in Turns : /\ ChatOf[t] = c /\ pc[t] # "new" /\ Unfollowed(t)
                              /\ row[c].model = model[t]
    /\ row[c].state = "absent" => \A t \in Turns : ChatOf[t] = c => pc[t] = "new"

ShownInv == \A c \in Chats : ShownInvAt(c)

\* The newest answer of a chat is that of the last of its answered messages.
LEMMA NewestIsLast ==
    ASSUME TypeOK, NEW c \in Chats, Done(c) # {}
    PROVE  \E i \in Done(c) : /\ \A j \in Done(c) : j <= i
                              /\ LastAnswered(c) = by[log[c][i]]
  <1>1. log[c] \in Seq(Turns)
    BY DEF TypeOK
  <1>2. Len(log[c]) \in Nat /\ Done(c) \subseteq 1..Len(log[c])
    BY <1>1 DEF Done
  <1>3. \E i \in Done(c) : \A j \in Done(c) : j <= i
    BY <1>2, GreatestNumber
  <1>4. LastAnswered(c) = by[log[c][CHOOSE i \in Done(c) : \A j \in Done(c) : j <= i]]
    BY DEF LastAnswered, NewestAnswered, Done
  <1> QED
    BY <1>3, <1>4

\* The last answer of a chat stays when nothing of it is completed.
LEMMA LastKept ==
    ASSUME TypeOK, NEW c \in Chats, Done(c)' = Done(c),
           \A i \in Done(c) : /\ log'[c][i] = log[c][i]
                              /\ by'[log[c][i]] = by[log[c][i]]
    PROVE  LastAnswered(c)' = LastAnswered(c)
  <1>1. LastAnswered(c) = IF Done(c) = {} THEN NoModel
            ELSE by[log[c][CHOOSE i \in Done(c) : \A j \in Done(c) : j <= i]]
    BY DEF LastAnswered, NewestAnswered, Done
  <1>2. LastAnswered(c)' = IF Done(c)' = {} THEN NoModel
            ELSE by'[log'[c][CHOOSE i \in Done(c)' : \A j \in Done(c)' : j <= i]]
    BY DEF LastAnswered, NewestAnswered, Done
  <1>3. CASE Done(c) = {}
    BY <1>1, <1>2, <1>3
  <1>4. CASE Done(c) # {}
    <2> DEFINE m == CHOOSE i \in Done(c) : \A j \in Done(c) : j <= i
    <2>1. m \in Done(c)
      BY <1>4, NewestIsLast
    <2>2. LastAnswered(c) = by[log[c][m]] /\ LastAnswered(c)' = by'[log'[c][m]]
      BY <1>1, <1>2, <1>4
    <2> HIDE DEF m
    <2> QED
      BY <2>1, <2>2
  <1> QED
    BY <1>3, <1>4

\* A chat whose model, last answer and unfollowed turns stay is shown as it was.
LEMMA ShownFrame ==
    ASSUME NEW c \in Chats, ShownInvAt(c),
           row'[c].state = "live" => row[c].state = "live" /\ row'[c].model = row[c].model,
           row'[c].state = "absent" =>
               /\ row[c].state = "absent"
               /\ \A u \in Turns : ChatOf[u] = c => pc'[u] = pc[u],
           LastAnswered(c)' = LastAnswered(c),
           \A u \in Turns : ChatOf[u] = c /\ pc[u] # "new" /\ Unfollowed(u) =>
               /\ pc'[u] # "new" /\ Unfollowed(u)'
               /\ row[c].model = model[u] => model'[u] = model[u]
    PROVE  ShownInvAt(c)'
  BY DEF ShownInvAt

\* A turn stays unfollowed while nothing of its chat is completed, until it asks
\* for the lock again.
LEMMA UnfollowedFrame ==
    ASSUME NEW u \in Turns, Unfollowed(u), u \notin answered',
           History(ChatOf[u])' = History(ChatOf[u]),
           kind'[u] = kind[u], prompt'[u] \in {prompt[u], History(ChatOf[u])},
           kind[u] = "real" => pc'[u] \notin {"lockwait", "locked"}
    PROVE  Unfollowed(u)'
  BY DEF Unfollowed

\* A step that stores or completes nothing, on chats whose rows it leaves alone.
LEMMA ShownUntouched ==
    ASSUME LocalInv, LogInv, ShownInv, NEW c \in Chats,
           UNCHANGED <<log, answered, by>>,
           row'[c].state = "live" => row[c].state = "live" /\ row'[c].model = row[c].model,
           row'[c].state = "absent" =>
               /\ row[c].state = "absent"
               /\ \A u \in Turns : ChatOf[u] = c => pc'[u] = pc[u],
           \A u \in Turns : ChatOf[u] = c /\ pc[u] # "new" /\ Unfollowed(u) =>
               /\ pc'[u] # "new" /\ kind'[u] = kind[u]
               /\ prompt'[u] \in {prompt[u], History(c)}
               /\ kind[u] = "real" => pc'[u] \notin {"lockwait", "locked"}
               /\ row[c].model = model[u] => model'[u] = model[u]
    PROVE  ShownInvAt(c)'
  <1>1. LastAnswered(c)' = LastAnswered(c)
    BY DEF LastAnswered, NewestAnswered, Done
  <1>2. History(c)' = History(c)
    BY DEF History
  <1>3. ASSUME NEW u \in Turns, ChatOf[u] = c, pc[u] # "new", Unfollowed(u)
        PROVE  Unfollowed(u)'
    <2>1. u \notin answered'
      BY <1>3 DEF Unfollowed
    <2> QED
      BY <1>2, <1>3, <2>1, UnfollowedFrame
  <1> QED
    BY <1>1, <1>3, ShownFrame DEF ShownInv

\* A step that moves one turn of a chat whose row, history and models it leaves
\* alone, and does not send it back to the lock.
LEMMA ShownMove ==
    ASSUME LocalInv, LogInv, ShownInv, NEW c \in Chats, NEW t \in Turns, NEW p \in Places,
           UNCHANGED <<log, answered, by, kind, model, prompt>>,
           row'[c].state = row[c].state /\ row'[c].model = row[c].model,
           pc[t] # "new", row[ChatOf[t]].state # "absent",
           pc' = [pc EXCEPT ![t] = p], p # "new",
           kind[t] = "real" /\ p \in {"lockwait", "locked"} => pc[t] \in {"lockwait", "locked"}
    PROVE  ShownInvAt(c)'
  <1>1. \A u \in Turns : pc'[u] = pc[u] \/ (u = t /\ pc'[u] = p)
    BY DEF LocalInv, TypeOK
  <1>2. \A u \in Turns : Unfollowed(u) /\ kind[u] = "real" => pc[u] \notin {"lockwait", "locked"}
    BY DEF Unfollowed
  <1> QED
    BY <1>1, <1>2, ShownUntouched

\* The handler's steps: a turn that creates a chat or switches its model has no
\* answer yet and has read nothing that is older than the chat's history.
LEMMA HandleShown ==
    ASSUME LocalInv, LogInv, PromptInv, ShownInv, NEW t \in Turns, Handle(t)
    PROVE  ShownInv'
  <1> USE DEF LocalInv, TypeOK, Goto, durable, request, stream
  <1>0. /\ ChatOf[t] \in Chats
        /\ row[ChatOf[t]] \in Rows
        /\ \A c \in Chats : row[c] \in Rows
        /\ \A u \in answered : u \in Turns /\ pc[u] \in Ended
        /\ NoModel \notin Servable
    BY ChatTurnsAssumption DEF LogInv
  <1> SUFFICES ASSUME NEW c \in Chats PROVE ShownInvAt(c)'
    BY DEF ShownInv
  <1>u. \A u \in Turns : Unfollowed(u) /\ kind[u] = "real" => pc[u] \notin {"lockwait", "locked"}
    BY DEF Unfollowed
  <1>1. CASE CreateChat(t)
    <2>1. CASE c = ChatOf[t]
      <3>1. row'[c].state = "live" /\ row'[c].model = model'[t]
        BY <1>0, <1>1, <2>1 DEF CreateChat
      <3>2. pc'[t] # "new" /\ t \notin answered'
        BY <1>0, <1>1 DEF CreateChat, Ended
      <3>3. kind'[t] \in {"create", "democreate"}
        BY <1>1 DEF CreateChat
      <3>4. History(c)' = {}
        <4>1. row[c].state = "absent" /\ answered' = answered
          BY <1>1, <2>1 DEF CreateChat
        <4>2. \A u \in answered : ChatOf[u] # c
          BY <1>0, <4>1 DEF ShownInv, ShownInvAt, Ended
        <4> QED
          BY <4>1, <4>2 DEF History
      <3>5. Unfollowed(t)'
        BY <2>1, <3>2, <3>3, <3>4 DEF Unfollowed
      <3> QED
        BY <2>1, <3>1, <3>2, <3>5 DEF ShownInvAt
    <2>2. CASE c # ChatOf[t]
      BY <1>1, <1>u, <2>2, ShownUntouched DEF CreateChat
    <2> QED
      BY <2>1, <2>2
  <1>2. CASE ContinueReal(t)
    BY <1>2, <1>u, ShownUntouched DEF ContinueReal
  <1>3. CASE ContinueDemo(t)
    BY <1>3, <1>u, ShownUntouched DEF ContinueDemo
  <1>4. CASE Acquire(t)
    <2>1. PICK p \in {"locked", "save"} :
              pc' = [pc EXCEPT ![t] = p] /\ (p = "locked" => kind[t] = "real")
      BY <1>4 DEF Acquire
    <2> QED
      BY <1>0, <1>4, <2>1, ShownMove DEF Acquire, ShownInv, ShownInvAt, Places
  <1>5. CASE GiveUp(t)
    <2>1. pc[t] # "new" /\ row[ChatOf[t]].state # "absent"
      BY <1>0, <1>5 DEF GiveUp, ShownInv, ShownInvAt
    <2> QED
      BY <1>5, <2>1, ShownMove DEF GiveUp, Places
  <1>6. CASE Reload(t)
    <2>1. kind[t] = "real" /\ pc[t] = "locked" /\ row[ChatOf[t]].state = "live"
      BY <1>6 DEF Reload, ModelInv, ModelInvAt
    <2>2. ~Unfollowed(t)
      BY <2>1 DEF Unfollowed
    <2> QED
      BY <1>6, <2>1, <2>2, ShownUntouched DEF Reload, Unfollowed
  <1>7. CASE Switch(t)
    <2>1. CASE c = ChatOf[t]
      <3>1. /\ row'[c].state = row[c].state
            /\ row[c].state = "live" => row'[c].model = model[t]
            /\ model' = model
        BY <1>0, <1>7, <2>1 DEF Switch, Modelled, Rows
      <3>2. pc'[t] # "new" /\ pc[t] # "new" /\ t \notin answered'
        BY <1>0, <1>7 DEF Switch, Ended
      <3>3. row[c].state # "absent"
        BY <2>1, <3>2 DEF ShownInv, ShownInvAt
      <3>4. Unfollowed(t)'
        <4>1. kind'[t] = "real" /\ prompt'[t] = NoPrompt /\ pc'[t] \notin {"lockwait", "locked"}
          BY <1>7 DEF Switch, ModelInv, ModelInvAt, PromptInv, Before
        <4> QED
          BY <3>2, <4>1 DEF Unfollowed
      <3> QED
        BY <2>1, <3>1, <3>2, <3>3, <3>4 DEF ShownInvAt
    <2>2. CASE c # ChatOf[t]
      <3>1. row'[c] = row[c]
        BY <1>7, <2>2 DEF Switch, Modelled
      <3>2. row[ChatOf[t]].state # "absent"
        BY <1>0, <1>7 DEF Switch, ShownInv, ShownInvAt
      <3>3. PICK p \in {"title", "history"} : pc' = [pc EXCEPT ![t] = p]
        BY <1>7 DEF Switch
      <3> QED
        BY <1>7, <3>1, <3>2, <3>3, ShownMove DEF Switch, Places
    <2> QED
      BY <2>1, <2>2
  <1>8. CASE SetTitle(t)
    <2>1. row'[c].state = row[c].state /\ row'[c].model = row[c].model
      BY <1>0, <1>8 DEF SetTitle, Titled, Rows
    <2>2. row[ChatOf[t]].state # "absent"
      BY <1>0, <1>8 DEF SetTitle, ShownInv, ShownInvAt
    <2>3. PICK p \in {"history", "lockwait"} :
              pc' = [pc EXCEPT ![t] = p] /\ (p = "lockwait" => pc[t] = "demotitle")
      BY <1>8 DEF SetTitle
    <2>4. p = "lockwait" => kind[t] # "real"
      BY <2>3 DEF ModelInv, ModelInvAt
    <2> QED
      BY <1>8, <2>1, <2>2, <2>3, <2>4, ShownMove DEF SetTitle, Places
  <1>9. CASE LoadHistory(t)
    <2>1. /\ pc[t] = "history" /\ pc' = [pc EXCEPT ![t] = "save"] /\ UNCHANGED <<durable, kind, model>>
          /\ \A u \in Turns : prompt'[u] = prompt[u] \/ (u = t /\ prompt'[u] = History(ChatOf[t]))
      BY <1>9 DEF LoadHistory
    <2>2. \A u \in Turns : pc'[u] = pc[u] \/ (u = t /\ pc'[u] = "save")
      BY <2>1
    <2>3. row[ChatOf[t]].state # "absent"
      BY <1>0, <2>1 DEF ShownInv, ShownInvAt
    <2> QED
      BY <1>u, <2>1, <2>2, <2>3, ShownUntouched
  <1>10. CASE SavePending(t)
    <2>1. t \notin answered
      BY <1>0, <1>10 DEF SavePending, Ended
    <2>2. log[c] \in Seq(Turns)
      OBVIOUS
    <2>5. \A u \in Turns : Unfollowed(u) => Unfollowed(u)'
      <3>1. UNCHANGED <<answered, kind, prompt>> /\ pc' = [pc EXCEPT ![t] = "streaming"]
        BY <1>10 DEF SavePending
      <3>2. \A d : History(d)' = History(d)
        BY <3>1 DEF History
      <3> QED
        BY <3>1, <3>2, UnfollowedFrame DEF Unfollowed
    <2>3. CASE c = ChatOf[t]
      <3>1. log'[c] = Append(log[c], t)
        BY <1>0, <1>10, <2>3, Appended
      <3>2. Len(log[c]) \in Nat /\ DOMAIN log[c] = 1..Len(log[c])
            /\ DOMAIN log'[c] = 1..(Len(log[c]) + 1)
            /\ log'[c][Len(log[c]) + 1] = t
            /\ \A i \in DOMAIN log[c] : log'[c][i] = log[c][i]
        BY <2>2, <3>1
      <3>3. answered' = answered /\ by' = by
        BY <1>10 DEF SavePending
      <3>4. Done(c)' = Done(c)
        <4>1. ASSUME NEW i \in DOMAIN log'[c], i \notin DOMAIN log[c]
              PROVE  log'[c][i] \notin answered
          <5>1. i = Len(log[c]) + 1
            BY <3>2, <4>1
          <5> QED
            BY <2>1, <3>2, <5>1
        <4>2. \A i : i \in DOMAIN log[c] => i \in DOMAIN log'[c]
          BY <3>2
        <4>3. \A i : i \in Done(c)' <=> i \in Done(c)
          BY <3>2, <3>3, <4>1, <4>2 DEF Done
        <4> QED
          BY <4>3 DEF Done
      <3>5. LastAnswered(c)' = LastAnswered(c)
        BY <3>2, <3>3, <3>4, LastKept DEF Done
      <3>6. row[c].state # "absent"
        BY <1>0, <1>10, <2>3 DEF SavePending, ShownInv, ShownInvAt
      <3> QED
        BY <1>10, <2>5, <3>3, <3>5, <3>6, ShownFrame DEF SavePending, ShownInv
    <2>4. CASE c # ChatOf[t]
      <3>1. log'[c] = log[c] /\ answered' = answered /\ by' = by
        BY <1>10, <2>4, Appended DEF SavePending
      <3>2. LastAnswered(c)' = LastAnswered(c)
        BY <3>1 DEF LastAnswered, NewestAnswered, Done
      <3> QED
        BY <1>10, <2>4, <2>5, <3>1, <3>2, ShownFrame DEF SavePending, ShownInv
    <2> QED
      BY <2>3, <2>4
  <1>11. CASE FailEarly(t)
    <2>1. pc[t] # "new" /\ row[ChatOf[t]].state # "absent"
      BY <1>0, <1>11 DEF FailEarly, ShownInv, ShownInvAt
    <2> QED
      BY <1>11, <2>1, ShownMove DEF FailEarly, Places
  <1> QED
    BY <1>1, <1>2, <1>3, <1>4, <1>5, <1>6, <1>7, <1>8, <1>9, <1>10, <1>11 DEF Handle

\* The streaming goroutine's steps: the turn that completes is the newest of its
\* chat, and the chat is given the model that answered it.
LEMMA AnsweringShown ==
    ASSUME LocalInv, LogInv, ShownInv, NEW t \in Turns, Answering(t)
    PROVE  ShownInv'
  <1> USE DEF LocalInv, TypeOK, Goto, durable, request, stream
  <1>0. /\ ChatOf[t] \in Chats /\ pc[t] # "new"
        /\ row[ChatOf[t]].state # "absent"
    BY ChatTurnsAssumption
    DEF ShownInv, ShownInvAt, Answering, DeltaArrives, Fallback, Fail, Finish, StreamCanned,
        Flush, Persist, Close, Asking
  <1> SUFFICES ASSUME NEW c \in Chats PROVE ShownInvAt(c)'
    BY DEF ShownInv
  <1>1. CASE ~Persist(t)
    <2>1. /\ UNCHANGED <<row, log, answered, by, kind, model, prompt>>
          /\ \A u \in Turns : pc'[u] = pc[u] \/ (u = t /\ pc'[u] \in Stored \cup Ended)
      BY <1>1 DEF Answering, DeltaArrives, Fallback, Fail, Finish, StreamCanned, Flush, Close,
                  Stored, Ended
    <2> QED
      BY <1>0, <2>1, ShownUntouched DEF Unfollowed, Stored, Ended
  <1>2. CASE Persist(t) /\ UNCHANGED <<ckpt, answered, by, row>>
    BY <1>0, <1>2, ShownMove DEF Persist, Places
  <1>3. CASE /\ Persist(t)
             /\ answered' = answered \cup {t}
             /\ by' = [by EXCEPT ![t] = Answerer(t)]
             /\ row' = Modelled(ChatOf[t], Answerer(t))
    <2>1. UNCHANGED <<log, model>> /\ \A u \in Turns : pc'[u] = pc[u] \/ (u = t /\ pc'[u] # "new")
      BY <1>3 DEF Persist
    <2>2. by'[t] = Answerer(t) /\ \A u \in Turns : u # t => by'[u] = by[u]
      BY <1>3
    <2>3. log[c] \in Seq(Turns) /\ Len(log[c]) \in Nat /\ DOMAIN log[c] = 1..Len(log[c])
      OBVIOUS
    <2>4. CASE c = ChatOf[t]
      <3> DEFINE n == Len(log[c])
      <3>1. n \in DOMAIN log[c] /\ log[c][n] = t
        BY <1>3, <2>3, <2>4 DEF Persist, LogInv, Stored
      <3>2. n \in Done(c)' /\ \A j \in Done(c)' : j <= n
        BY <1>3, <2>1, <2>3, <3>1 DEF Done
      <3> DEFINE m == CHOOSE i \in Done(c)' : \A j \in Done(c)' : j <= i
      <3>3. LastAnswered(c)' = by'[log'[c][m]]
        BY <3>2 DEF LastAnswered, NewestAnswered, Done
      <3>4. m \in Done(c)' /\ \A j \in Done(c)' : j <= m
        BY <3>2
      <3> HIDE DEF m
      <3>5. m = n
        <4>1. m \in 1..Len(log[c])
          BY <2>1, <2>3, <3>4 DEF Done
        <4>2. n <= m /\ m <= n
          BY <3>2, <3>4
        <4>3. m \in Nat /\ n \in Nat
          BY <2>3, <4>1
        <4> HIDE DEF n
        <4> QED
          BY <4>2, <4>3
      <3>6. LastAnswered(c)' = Answerer(t)
        BY <2>1, <2>2, <3>1, <3>3, <3>5
      <3>7. /\ row'[c].state = row[c].state
            /\ row[c].state = "live" => row'[c].model = Answerer(t)
        BY <1>0, <1>3, <2>4 DEF Modelled, Rows
      <3> QED
        BY <1>0, <2>4, <3>6, <3>7 DEF ShownInvAt
    <2>5. CASE c # ChatOf[t]
      <3>1. \A i \in DOMAIN log[c] : log[c][i] \in Turns /\ log[c][i] # t
        <4> TAKE i \in DOMAIN log[c]
        <4>1. log[c][i] \in Turns
          BY <2>3
        <4>2. ChatOf[log[c][i]] = c
          BY DEF LogInv
        <4> QED
          BY <2>5, <4>1, <4>2
      <3>2. Done(c)' = Done(c)
        BY <1>3, <2>1, <3>1 DEF Done
      <3>3. LastAnswered(c)' = LastAnswered(c)
        BY <2>1, <2>2, <3>1, <3>2, LastKept DEF Done
      <3>4. row'[c] = row[c]
        BY <1>3, <2>5 DEF Modelled
      <3>5. ASSUME NEW u \in Turns, ChatOf[u] = c, Unfollowed(u) PROVE Unfollowed(u)'
        <4>1. u \notin answered' /\ pc'[u] = pc[u]
          BY <1>3, <2>1, <2>5, <3>5 DEF Unfollowed
        <4>2. History(c)' = History(c)
          BY <1>3, <2>5 DEF History
        <4>3. kind' = kind /\ prompt' = prompt
          BY <1>3 DEF Persist
        <4>4. kind[u] = "real" => pc[u] \notin {"lockwait", "locked"}
          BY <3>5 DEF Unfollowed
        <4> QED
          BY <3>5, <4>1, <4>2, <4>3, <4>4, UnfollowedFrame
      <3> QED
        BY <1>3, <2>1, <2>5, <3>3, <3>4, <3>5, ShownFrame DEF ShownInv
    <2> QED
      BY <2>4, <2>5
  <1> QED
    BY <1>1, <1>2, <1>3 DEF Persist

\* Other requests and clients: an empty chat has no model and no messages.
OthersShown ==
    Environment \/ (\E t \in Turns, k \in Slots : Callback(t, k)) \/ UNCHANGED vars

LEMMA OthersKeepShown ==
    ASSUME LocalInv, LogInv, ShownInv, OthersShown
    PROVE  ShownInv'
  <1> USE DEF LocalInv, TypeOK
  <1> SUFFICES ASSUME NEW c \in Chats PROVE ShownInvAt(c)'
    BY DEF ShownInv
  <1>1. /\ UNCHANGED <<log, answered, by, kind, model, prompt>>
        /\ \A u \in Turns : pc'[u] = pc[u] \/ (pc[u] # "new" /\ pc'[u] = "over")
    BY DEF OthersShown, Environment, Callback, Leave, OpenEmpty, Rename, Delete, OnDelta,
           DropDelta, SaveDelta, Crash, vars, durable, request, stream
  <1>2. /\ row[c].state = "absent" => \A u \in Turns : ChatOf[u] = c => pc'[u] = pc[u]
        /\ \A u \in Turns : pc[u] # "new" => pc'[u] # "new"
        /\ \A u \in Turns : Unfollowed(u) /\ kind[u] = "real"
              => pc'[u] \notin {"lockwait", "locked"}
    BY <1>1 DEF ShownInv, ShownInvAt, Unfollowed
  <1>3. CASE row' = row
    BY <1>1, <1>2, <1>3, ShownUntouched
  <1>4. ASSUME NEW d \in Chats, OpenEmpty(d) PROVE ShownInvAt(c)'
    <2>1. CASE c = d
      <3>1. row[c].state = "absent" /\ row'[c].state = "live" /\ row'[c].model = NoModel
        BY <1>4, <2>1 DEF OpenEmpty, Absent
      <3>2. Done(c) = {}
        <4>1. \A i \in DOMAIN log[c] : log[c][i] \in Turns
          OBVIOUS
        <4>2. \A u \in answered : u \in Turns /\ pc[u] # "new"
          BY DEF LogInv, Ended
        <4>3. \A i \in DOMAIN log[c] : ChatOf[log[c][i]] = c
          BY DEF LogInv
        <4> QED
          BY <3>1, <4>1, <4>2, <4>3 DEF Done, ShownInv, ShownInvAt
      <3>3. LastAnswered(c)' = NoModel
        BY <1>1, <3>2 DEF LastAnswered, Done
      <3> QED
        BY <3>1, <3>3 DEF ShownInvAt
    <2>2. CASE c # d
      <3>1. row'[c] = row[c]
        BY <1>4, <2>2 DEF OpenEmpty
      <3> QED
        BY <1>1, <1>2, <3>1, ShownUntouched
    <2> QED
      BY <2>1, <2>2
  <1>5. ASSUME NEW d \in Chats, Rename(d) \/ Delete(d) PROVE ShownInvAt(c)'
    <2>0. row[c] \in Rows /\ row \in [Chats -> Rows]
      OBVIOUS
    <2>1. /\ row'[c].model = row[c].model
          /\ row'[c].state = row[c].state \/ row'[c].state = "deleted"
      <3>1. CASE Rename(d)
        BY <2>0, <3>1 DEF Rename, Titled, Rows
      <3>2. CASE Delete(d)
        BY <2>0, <3>2 DEF Delete, Rows
      <3> QED
        BY <1>5, <3>1, <3>2
    <2> QED
      BY <1>1, <1>2, <2>1, ShownUntouched
  <1>6. row' = row \/ (\E d \in Chats : OpenEmpty(d) \/ Rename(d) \/ Delete(d))
    BY DEF OthersShown, Environment, Callback, Leave, OnDelta, DropDelta, SaveDelta, Crash,
           vars, durable
  <1> QED
    BY <1>3, <1>4, <1>5, <1>6

\* With one process, a live chat shows the model of its newest answer, or the one
\* asked for by a request that no answer followed (it created a chat in which
\* nothing is answered yet, or switched the model under the lock and then failed,
\* died or is still being answered), at every moment of a turn, whichever candidate
\* answers.  A chat whose newest answer is a continuation's fixed response is left
\* out: there the code may undo a switch (DemoKeepsModel).
THEOREM ChatsReopenOnTheirModel == OneProcess /\ Spec => []ReopenedModel
  <1> SUFFICES ASSUME OneProcess PROVE Spec => []ReopenedModel
    OBVIOUS
  <1>1. Init => ShownInv
    BY DEF Init, ShownInv, ShownInvAt, Absent
  <1>2. IInv /\ ShownInv /\ [Next]_vars => ShownInv'
    <2> SUFFICES ASSUME IInv, ShownInv, [Next]_vars PROVE ShownInv'
      OBVIOUS
    <2>1. LocalInv /\ LogInv /\ PromptInv
      BY DEF IInv
    <2> QED
      BY <2>1, HandleShown, AnsweringShown, OthersKeepShown DEF Next, OthersShown
  <1>3. ShownInv => ReopenedModel
    BY DEF ShownInv, ShownInvAt, ReopenedModel
  <1> QED
    BY <1>1, <1>2, <1>3, Invariant, PTL DEF Spec
=============================================================================
