----------------------- MODULE UpstreamRuntimeProofs -----------------------
(***************************************************************************)
(* Proofs about the runtime limits, for any number of callers, slots and    *)
(* calls.  Life relates the three goroutines of a call; with it the slot    *)
(* counter is the number of calls that hold one, and a provider goroutine   *)
(* that runs belongs to a call that holds a slot.                           *)
(***************************************************************************)
EXTENDS UpstreamRuntime, FiniteSetTheorems, TLAPS

\* Where the goroutines of one call can be relative to one another.
CallLife(c) ==
    /\ stage[c] \in {"new", "queued"} =>
           /\ worker[c] = "none"
           /\ token[c] = "open"
           /\ drain[c] = "none"
           /\ answer[c] = "none"
    /\ stage[c] = "awaiting" => drain[c] = "none" /\ answer[c] = "none"
    /\ stage[c] = "answered" => answer[c] # "none"
    /\ drain[c] = "waiting" => stage[c] = "answered"
    /\ result[c] # "none" => worker[c] = "ended"
    /\ worker[c] \in {"provider", "delta"} =>
           stage[c] = "awaiting" \/ drain[c] = "waiting"
    /\ token[c] = "seen" => timer[c] = "off"

Life == \A c \in Calls : CallLife(c)

\* The calls a caller has not made yet are new.
Fresh ==
    \A u \in Callers : \A i \in 1..MaxCalls[u] :
        i > made[u] => stage[<<u, i>>] = "new"

Failed == {c \in Calls : answer[c] \in Failures}

IInv == TypeOK /\ Fresh /\ Life /\ SlotsExact /\ HealthCountsOnce

-----------------------------------------------------------------------------
(* Lemmas *)

\* There are finitely many calls.
LEMMA CallsFinite == IsFiniteSet(Calls)
<1>1. \A u \in Callers : IsFiniteSet({u} \X (1..MaxCalls[u]))
  <2> TAKE u \in Callers
  <2>1. IsFiniteSet({u})
    BY FS_Singleton
  <2>2. IsFiniteSet(1..MaxCalls[u])
    BY FS_Interval, RuntimeAssumption
  <2> QED
    BY <2>1, <2>2, FS_Product
<1> DEFINE f == [u \in Callers |-> {u} \X (1..MaxCalls[u])]
           T == {{u} \X (1..MaxCalls[u]) : u \in Callers}
<1>2. IsFiniteSet(T)
  <2>1. f \in Surjection(Callers, T)
    BY DEF Surjection
  <2> QED
    BY <2>1, FS_Surjection, RuntimeAssumption
<1> QED
  BY <1>1, <1>2, FS_UNION DEF Calls

\* Every subset of the calls can be counted.
LEMMA CallSubsetFinite ==
    ASSUME NEW S, S \subseteq Calls
    PROVE  IsFiniteSet(S) /\ Cardinality(S) \in Nat
BY CallsFinite, FS_Subset, FS_CardinalityType

\* One more holder.
LEMMA CountAdded ==
    ASSUME NEW S, S \subseteq Calls, NEW c \in Calls, c \notin S
    PROVE  Cardinality(S \cup {c}) = Cardinality(S) + 1
BY CallSubsetFinite, FS_AddElement

\* One holder less: there was one.
LEMMA CountRemoved ==
    ASSUME NEW S, S \subseteq Calls, NEW c \in S
    PROVE  Cardinality(S \ {c}) = Cardinality(S) - 1
BY CallSubsetFinite, FS_RemoveElement

\* A new call of a caller is one of the calls.
LEMMA NextCallIsCall ==
    ASSUME NEW u \in Callers, TypeOK, Fresh, made[u] < MaxCalls[u]
    PROVE  /\ <<u, made[u] + 1>> \in Calls
           /\ stage[<<u, made[u] + 1>>] = "new"
<1>1. made[u] \in Nat /\ MaxCalls[u] \in Nat
  BY RuntimeAssumption DEF TypeOK
<1>2. made[u] + 1 \in 1..MaxCalls[u] /\ made[u] + 1 > made[u]
  BY <1>1
<1>3. <<u, made[u] + 1>> \in {u} \X (1..MaxCalls[u])
  BY <1>2
<1> QED
  BY <1>2, <1>3 DEF Calls, Fresh

-----------------------------------------------------------------------------
(* The inductive invariant *)

\* Initially nobody holds a slot and nothing has failed.
LEMMA InitIInv == Init => IInv
<1> SUFFICES ASSUME Init PROVE IInv
  OBVIOUS
<1> USE DEF Init
<1>1. Holding = {} /\ Failed = {}
  BY DEF Holding, Failed, Failures
<1>2. Cardinality({}) = 0
  BY FS_EmptySet
<1>3. TypeOK
  BY RuntimeAssumption DEF TypeOK
<1>4. Life
  BY DEF Life, CallLife
<1>7. Fresh
  BY DEF Fresh, Calls
<1>5. SlotsExact
  BY <1>1, <1>2 DEF SlotsExact
<1>6. HealthCountsOnce
  BY <1>1, <1>2 DEF HealthCountsOnce, Failed
<1> QED
  BY <1>3, <1>4, <1>5, <1>6, <1>7 DEF IInv

\* Every step keeps the relation between the goroutines of a call.
LEMMA NextLife ==
    ASSUME TypeOK, Fresh, Life, [Next]_vars
    PROVE  Life'
<1> USE DEF Life, CallLife, TypeOK
<1>1. ASSUME NEW u \in Callers, Call(u) PROVE Life'
  <2> DEFINE n == <<u, made[u] + 1>>
  <2>1. n \in Calls /\ stage[n] = "new"
    BY <1>1, NextCallIsCall DEF Call
  <2>2. stage' = [stage EXCEPT ![n] = "queued"]
    BY <1>1 DEF Call
  <2>3. UNCHANGED <<worker, token, timer, result, drain, answer>>
    BY <1>1 DEF Call
  <2> HIDE DEF n
  <2> QED
    BY <2>1, <2>2, <2>3
<1>2. ASSUME NEW u \in Callers, Leave(u) PROVE Life'
  BY <1>2 DEF Leave
<1>3. ASSUME NEW c \in Calls, Acquire(c) PROVE Life'
  BY <1>3 DEF Acquire
<1>4. ASSUME NEW c \in Calls, LeaveQueue(c) PROVE Life'
  BY <1>4 DEF LeaveQueue
<1>5. ASSUME NEW c \in Calls, BeginDelta(c) PROVE Life'
  BY <1>5 DEF BeginDelta
<1>6. ASSUME NEW c \in Calls, EndDelta(c) PROVE Life'
  BY <1>6 DEF EndDelta
<1>7. ASSUME NEW c \in Calls, NEW r \in {"ok", "error"}, ProviderReturns(c, r)
      PROVE  Life'
  BY <1>7 DEF ProviderReturns
<1>8. ASSUME NEW c \in Calls, Finish(c) PROVE Life'
  BY <1>8 DEF Finish
<1>9. ASSUME NEW c \in Calls, SeeFirstToken(c) PROVE Life'
  BY <1>9 DEF SeeFirstToken
<1>10. ASSUME NEW c \in Calls, NEW a \in Failures, Abandon(c, a) PROVE Life'
  BY <1>10 DEF Abandon, Failures
<1>11. ASSUME NEW c \in Calls, Drain(c) PROVE Life'
  BY <1>11 DEF Drain
<1>12. ASSUME NEW c \in Calls, FirstTokenTimerFires(c) PROVE Life'
  BY <1>12 DEF FirstTokenTimerFires
<1>13. ASSUME NEW c \in Calls, TurnTimerFires(c) PROVE Life'
  BY <1>13 DEF TurnTimerFires
<1>14. CASE UNCHANGED vars
  BY <1>14 DEF vars
<1> QED
  BY <1>1, <1>2, <1>3, <1>4, <1>5, <1>6, <1>7, <1>8, <1>9, <1>10, <1>11,
     <1>12, <1>13, <1>14
  DEF Next, CallerStep, AwaitStep, Provider, FirstTokenTimeout, TurnDone, Failures

\* Every step keeps the calls that were not made new.
LEMMA NextFresh ==
    ASSUME TypeOK, Fresh, [Next]_vars
    PROVE  Fresh'
<1> SUFFICES ASSUME NEW u \in Callers, NEW i \in 1..MaxCalls[u], i > made'[u]
             PROVE  stage'[<<u, i>>] = "new"
  BY DEF Fresh
<1>1. made \in [Callers -> Nat] /\ stage \in [Calls -> {"new", "queued", "awaiting", "answered"}]
  BY DEF TypeOK
<1>2. i \in Int /\ <<u, i>> \in Calls
  BY RuntimeAssumption DEF Calls
<1>3. ASSUME NEW v \in Callers, Call(v) PROVE stage'[<<u, i>>] = "new"
  <2>1. i > made[u] /\ (u = v => i > made[u] + 1)
    BY <1>1, <1>2, <1>3 DEF Call
  <2>2. <<u, i>> # <<v, made[v] + 1>>
    BY <1>1, <1>2, <2>1
  <2>3. stage'[<<u, i>>] = stage[<<u, i>>]
    BY <1>1, <1>2, <1>3, <2>2 DEF Call
  <2> QED
    BY <2>1, <2>3 DEF Fresh
<1>4. CASE made' = made /\ \A c \in Calls : stage[c] = "new" => stage'[c] = "new"
  BY <1>2, <1>4 DEF Fresh
<1>5. ASSUME ~ \E v \in Callers : Call(v)
      PROVE  made' = made /\ \A c \in Calls : stage[c] = "new" => stage'[c] = "new"
  BY <1>1, <1>5 DEF Next, Leave, CallerStep, Acquire, LeaveQueue, BeginDelta,
     EndDelta, Provider, ProviderReturns, AwaitStep, Finish, SeeFirstToken,
     FirstTokenTimeout, TurnDone, Abandon, Drain, FirstTokenTimerFires,
     TurnTimerFires, vars
<1> QED
  BY <1>3, <1>4, <1>5

\* A step takes a slot for a call that held none, gives back the slot of one
\* that did, or leaves both the counter and the holders alone.
LEMMA NextSlots ==
    ASSUME TypeOK, Fresh, Life, [Next]_vars
    PROVE  \/ \E c \in Calls \ Holding :
                  /\ Holding' = Holding \cup {c}
                  /\ slots < MaxConcurrent /\ slots' = slots + 1
           \/ \E c \in Holding :
                  Holding' = Holding \ {c} /\ slots' = slots - 1
           \/ Holding' = Holding /\ slots' = slots
<1> USE DEF Life, CallLife, TypeOK, Holding
<1>1. ASSUME NEW u \in Callers, Call(u) PROVE Holding' = Holding /\ slots' = slots
  <2> DEFINE n == <<u, made[u] + 1>>
  <2>1. n \in Calls /\ stage[n] = "new"
    BY <1>1, NextCallIsCall DEF Call
  <2>2. stage' = [stage EXCEPT ![n] = "queued"]
    BY <1>1 DEF Call
  <2>3. UNCHANGED <<drain, slots>>
    BY <1>1 DEF Call
  <2> HIDE DEF n
  <2> QED
    BY <2>1, <2>2, <2>3
<1>2. ASSUME NEW c \in Calls, Acquire(c)
      PROVE  /\ c \in Calls \ Holding /\ Holding' = Holding \cup {c}
             /\ slots < MaxConcurrent /\ slots' = slots + 1
  BY <1>2 DEF Acquire
<1>3. ASSUME NEW c \in Calls, Finish(c)
      PROVE  c \in Holding /\ Holding' = Holding \ {c} /\ slots' = slots - 1
  BY <1>3 DEF Finish
<1>4. ASSUME NEW c \in Calls, Drain(c)
      PROVE  c \in Holding /\ Holding' = Holding \ {c} /\ slots' = slots - 1
  BY <1>4 DEF Drain
<1>5. ASSUME NEW c \in Calls, NEW a \in Failures, Abandon(c, a)
      PROVE  Holding' = Holding /\ slots' = slots
  BY <1>5 DEF Abandon
<1>6. ASSUME NEW c \in Calls, LeaveQueue(c)
      PROVE  Holding' = Holding /\ slots' = slots
  BY <1>6 DEF LeaveQueue
<1>7. CASE UNCHANGED <<stage, drain, slots>>
  BY <1>7
<1> QED
  BY <1>1, <1>2, <1>3, <1>4, <1>5, <1>6, <1>7
  DEF Next, CallerStep, AwaitStep, Provider, FirstTokenTimeout, TurnDone, Failures,
      Leave, BeginDelta, EndDelta, ProviderReturns, SeeFirstToken,
      FirstTokenTimerFires, TurnTimerFires, vars

\* Every step keeps the counter and the holders together.
LEMMA NextSlotsExact ==
    ASSUME TypeOK, Fresh, Life, SlotsExact, [Next]_vars
    PROVE  SlotsExact' /\ slots' \in 0..MaxConcurrent
<1> USE DEF SlotsExact
<1>1. Holding \subseteq Calls /\ slots \in 0..MaxConcurrent /\ MaxConcurrent \in Nat
  BY RuntimeAssumption DEF Holding, TypeOK
<1>2. CASE \E c \in Calls \ Holding :
               /\ Holding' = Holding \cup {c}
               /\ slots < MaxConcurrent /\ slots' = slots + 1
  BY <1>1, <1>2, CountAdded
<1>3. CASE \E c \in Holding : Holding' = Holding \ {c} /\ slots' = slots - 1
  <2>1. PICK c \in Holding : Holding' = Holding \ {c} /\ slots' = slots - 1
    BY <1>3
  <2>2. Cardinality(Holding') = Cardinality(Holding) - 1
    BY <1>1, <2>1, CountRemoved
  <2>3. Cardinality(Holding') \in Nat
    BY <1>1, <2>1, CallSubsetFinite
  <2> QED
    BY <1>1, <2>1, <2>2, <2>3
<1>4. CASE Holding' = Holding /\ slots' = slots
  BY <1>1, <1>4
<1> QED
  BY <1>2, <1>3, <1>4, NextSlots

\* Every step keeps the types of the other variables.
LEMMA NextTypes ==
    ASSUME TypeOK, Fresh, Life, SlotsExact, [Next]_vars
    PROVE  TypeOK'
<1>1. slots' \in 0..MaxConcurrent
  BY NextSlotsExact
<1> USE <1>1 DEF TypeOK
<1>2. ASSUME NEW u \in Callers, Call(u) PROVE TypeOK'
  <2>1. <<u, made[u] + 1>> \in Calls
    BY <1>2, NextCallIsCall DEF Call
  <2>2. made[u] + 1 \in Nat /\ MaxCalls[u] \in Nat
    BY RuntimeAssumption
  <2>3. made' \in [Callers -> Nat] /\ \A v \in Callers : made'[v] <= MaxCalls[v]
    BY <1>2, <2>2 DEF Call
  <2>4. stage' \in [Calls -> {"new", "queued", "awaiting", "answered"}]
    BY <1>2, <2>1 DEF Call
  <2> QED
    BY <1>2, <2>3, <2>4 DEF Call
<1>3. ASSUME NEW u \in Callers, Leave(u) PROVE TypeOK'
  BY <1>3 DEF Leave
<1>4. ASSUME NEW c \in Calls, Acquire(c) PROVE TypeOK'
  BY <1>4 DEF Acquire
<1>5. ASSUME NEW c \in Calls, LeaveQueue(c) PROVE TypeOK'
  BY <1>5 DEF LeaveQueue, RecordFailure, Failures
<1>6. ASSUME NEW c \in Calls, BeginDelta(c) \/ EndDelta(c) PROVE TypeOK'
  BY <1>6 DEF BeginDelta, EndDelta
<1>7. ASSUME NEW c \in Calls, NEW r \in {"ok", "error"}, ProviderReturns(c, r)
      PROVE  TypeOK'
  BY <1>7 DEF ProviderReturns
<1>8. ASSUME NEW c \in Calls, Finish(c) PROVE TypeOK'
  BY <1>8 DEF Finish, RecordSuccess, RecordFailure, Failures
<1>9. ASSUME NEW c \in Calls, SeeFirstToken(c) PROVE TypeOK'
  BY <1>9 DEF SeeFirstToken
<1>10. ASSUME NEW c \in Calls, NEW a \in Failures, Abandon(c, a) PROVE TypeOK'
  BY <1>10 DEF Abandon, RecordFailure
<1>11. ASSUME NEW c \in Calls, Drain(c) PROVE TypeOK'
  BY <1>11 DEF Drain
<1>12. ASSUME NEW c \in Calls, FirstTokenTimerFires(c) \/ TurnTimerFires(c)
       PROVE  TypeOK'
  BY <1>12 DEF FirstTokenTimerFires, TurnTimerFires
<1>13. CASE UNCHANGED vars
  BY <1>13 DEF vars
<1> QED
  BY <1>2, <1>3, <1>4, <1>5, <1>6, <1>7, <1>8, <1>9, <1>10, <1>11, <1>12, <1>13
  DEF Next, CallerStep, AwaitStep, Provider, FirstTokenTimeout, TurnDone, Failures

\* A step answers a call with a failure and counts it, answers one with
\* success and resets the count, or touches neither.
LEMMA NextAnswers ==
    ASSUME TypeOK, Life, [Next]_vars
    PROVE  \/ \E c \in Calls, a \in Failures :
                  /\ answer[c] = "none"
                  /\ answer' = [answer EXCEPT ![c] = a]
                  /\ health'.streak = health.streak + 1
           \/ \E c \in Calls :
                  /\ answer[c] = "none"
                  /\ answer' = [answer EXCEPT ![c] = "ok"]
                  /\ health'.streak = 0
           \/ answer' = answer /\ health' = health
<1> USE DEF Life, CallLife, TypeOK
<1>1. ASSUME NEW c \in Calls, LeaveQueue(c)
      PROVE  /\ answer[c] = "none" /\ answer' = [answer EXCEPT ![c] = "queue"]
             /\ health'.streak = health.streak + 1
  BY <1>1 DEF LeaveQueue, RecordFailure
<1>2. ASSUME NEW c \in Calls, Finish(c), result[c] = "ok"
      PROVE  /\ answer[c] = "none" /\ answer' = [answer EXCEPT ![c] = "ok"]
             /\ health'.streak = 0
  BY <1>2 DEF Finish, RecordSuccess
<1>3. ASSUME NEW c \in Calls, Finish(c), result[c] # "ok"
      PROVE  /\ answer[c] = "none" /\ answer' = [answer EXCEPT ![c] = "error"]
             /\ health'.streak = health.streak + 1
  <2>1. result[c] = "error" /\ answer[c] = "none"
    BY <1>3 DEF Finish
  <2> QED
    BY <1>3, <2>1 DEF Finish, RecordFailure
<1>4. ASSUME NEW c \in Calls, NEW a \in Failures, Abandon(c, a)
      PROVE  /\ answer[c] = "none" /\ answer' = [answer EXCEPT ![c] = a]
             /\ health'.streak = health.streak + 1
  BY <1>4 DEF Abandon, RecordFailure
<1>5. CASE answer' = answer /\ health' = health
  BY <1>5
<1> QED
  BY <1>1, <1>2, <1>3, <1>4, <1>5
  DEF Next, Call, Leave, CallerStep, Acquire, AwaitStep, Provider, ProviderReturns,
      FirstTokenTimeout, TurnDone, Failures, BeginDelta, EndDelta, SeeFirstToken,
      Drain, FirstTokenTimerFires, TurnTimerFires, vars

\* Every step keeps the failures counted once.
LEMMA NextHealth ==
    ASSUME TypeOK, Life, HealthCountsOnce, [Next]_vars
    PROVE  HealthCountsOnce'
<1> DEFINE Ok == \E c \in Calls : answer[c] = "ok"
<1>0. /\ Failed \subseteq Calls /\ Cardinality(Failed) \in Nat
      /\ Cardinality(Failed') \in Nat
      /\ health.streak \in Nat
      /\ IF Ok THEN health.streak <= Cardinality(Failed)
               ELSE health.streak = Cardinality(Failed)
  <2>1. Failed \subseteq Calls /\ Failed' \subseteq Calls
    BY DEF Failed
  <2> QED
    BY <2>1, CallSubsetFinite DEF TypeOK, HealthCountsOnce, Failed
<1>1. SUFFICES IF Ok' THEN health'.streak <= Cardinality(Failed')
                      ELSE health'.streak = Cardinality(Failed')
  BY DEF HealthCountsOnce, Failed
<1>2. CASE \E c \in Calls, a \in Failures :
               /\ answer[c] = "none"
               /\ answer' = [answer EXCEPT ![c] = a]
               /\ health'.streak = health.streak + 1
  <2>1. PICK c \in Calls, a \in Failures :
               /\ answer[c] = "none"
               /\ answer' = [answer EXCEPT ![c] = a]
               /\ health'.streak = health.streak + 1
    BY <1>2
  <2>2. Failed' = Failed \cup {c} /\ c \notin Failed /\ (Ok' <=> Ok)
    BY <2>1 DEF Failed, Failures, TypeOK
  <2>3. Cardinality(Failed') = Cardinality(Failed) + 1
    BY <1>0, <2>2, CountAdded
  <2> QED
    BY <1>0, <2>1, <2>2, <2>3
<1>3. CASE \E c \in Calls :
               /\ answer[c] = "none"
               /\ answer' = [answer EXCEPT ![c] = "ok"]
               /\ health'.streak = 0
  <2>1. Ok' /\ health'.streak = 0
    BY <1>3 DEF TypeOK
  <2> QED
    BY <1>0, <2>1
<1>4. CASE answer' = answer /\ health' = health
  <2>1. Failed' = Failed /\ (Ok' <=> Ok)
    BY <1>4 DEF Failed
  <2> QED
    BY <1>0, <1>4, <2>1
<1> QED
  BY <1>2, <1>3, <1>4, NextAnswers

\* Every step keeps the invariant.
LEMMA NextIInv == IInv /\ [Next]_vars => IInv'
BY NextTypes, NextFresh, NextLife, NextSlotsExact, NextHealth DEF IInv

\* Every reachable state satisfies the invariant.
THEOREM Invariant == Spec => []IInv
BY InitIInv, NextIInv, PTL DEF Spec

-----------------------------------------------------------------------------
(* Theorems *)

\* Every variable keeps its type; slots stays within its capacity, so the
\* semaphore's channel neither overflows nor blocks in release.
THEOREM TypeCorrect == Spec => []TypeOK
<1>1. IInv => TypeOK
  BY DEF IInv
<1> QED
  BY Invariant, <1>1, PTL

\* SlotsExact: no path out of call leaks a slot or gives one back twice.
THEOREM SlotsAreExact == Spec => []SlotsExact
<1>1. IInv => SlotsExact
  BY DEF IInv
<1> QED
  BY Invariant, <1>1, PTL

\* HealthCountsOnce: an abandoned call is counted as one failure.
THEOREM HealthIsCountedOnce == Spec => []HealthCountsOnce
<1>1. IInv => HealthCountsOnce
  BY DEF IInv
<1> QED
  BY Invariant, <1>1, PTL

\* ProviderBounded: the running providers are among the holders of slots.
THEOREM ProvidersAreBounded == Spec => []ProviderBounded
<1>1. IInv => ProviderBounded
  <2> SUFFICES ASSUME IInv PROVE ProviderBounded
    OBVIOUS
  <2>1. Running \subseteq Holding /\ Holding \subseteq Calls
    BY DEF IInv, Life, CallLife, Running, Holding
  <2>2. Cardinality(Running) <= Cardinality(Holding)
    BY <2>1, CallsFinite, FS_Subset
  <2>3. Cardinality(Running) \in Nat /\ Cardinality(Holding) \in Nat
    BY <2>1, CallSubsetFinite
  <2>4. Cardinality(Holding) = slots /\ slots \in 0..MaxConcurrent
    BY DEF IInv, SlotsExact, TypeOK
  <2> QED
    BY <2>2, <2>3, <2>4, RuntimeAssumption DEF ProviderBounded
<1> QED
  BY Invariant, <1>1, PTL

\* SeenTokenSpared: a first token that await has seen disarms its timer.
THEOREM SeenTokensAreSpared == Spec => SeenTokenSpared
<1> DEFINE Spared ==
        \A c \in Calls : token[c] = "seen" =>
            (answer'[c] = "first_token_timeout" => answer[c] = answer'[c])
<1>1. IInv /\ [Next]_vars => [Spared]_vars
  <2> SUFFICES ASSUME IInv, Next, NEW c \in Calls, token[c] = "seen",
                      answer'[c] = "first_token_timeout", answer[c] # answer'[c]
               PROVE  FALSE
    BY DEF vars
  <2>1. timer[c] = "off" /\ answer \in [Calls -> {"none", "ok"} \cup Failures]
        /\ result \in [Calls -> {"none", "ok", "error"}]
    BY DEF IInv, Life, CallLife, TypeOK
  <2>2. ASSUME NEW d \in Calls, FirstTokenTimeout(d) PROVE FALSE
    BY <2>1, <2>2 DEF FirstTokenTimeout, Abandon
  <2>3. ASSUME NEW d \in Calls, Finish(d) PROVE FALSE
    BY <2>1, <2>3 DEF Finish
  <2>4. ASSUME NEW d \in Calls, TurnDone(d) \/ LeaveQueue(d) PROVE FALSE
    BY <2>1, <2>4 DEF TurnDone, Abandon, LeaveQueue
  <2> QED
    BY <2>2, <2>3, <2>4
    DEF Next, Call, Leave, CallerStep, Acquire, AwaitStep, Provider,
        ProviderReturns, BeginDelta, EndDelta, SeeFirstToken, Drain,
        FirstTokenTimerFires, TurnTimerFires
<1> QED
  BY Invariant, <1>1, PTL DEF Spec, SeenTokenSpared

=============================================================================
