-------------------------- MODULE UpstreamRuntime --------------------------
(***************************************************************************)
(* The runtime limits around one upstream (upstreams/runtime.go): a queue   *)
(* for MaxConcurrent slots, a first-token timer and a turn timer, and the   *)
(* health the outcome of each call is recorded in (upstreams/health.go).    *)
(*                                                                          *)
(* A call has two goroutines: the caller's, in await's select, and run's,   *)
(* which is inside the provider.  A call that times out is answered at once *)
(* and abandoned: its provider goroutine goes on, and a third goroutine     *)
(* waits for it to give the slot back.                                      *)
(*                                                                          *)
(* A caller may call again after a failure: elelem's retry wrapper and the  *)
(* fallback models of a turn do, on the same upstream, while the call they  *)
(* gave up is still abandoned.                                              *)
(***************************************************************************)
EXTENDS Integers, FiniteSets

CONSTANTS
    Callers,        \* the chat turns that use this upstream
    MaxConcurrent,  \* RuntimeLimits.MaxConcurrent: the capacity of slots
    MaxCalls        \* bound: caller -> its calls (retries and fallbacks)

ASSUME RuntimeAssumption ==
    /\ IsFiniteSet(Callers)
    /\ MaxConcurrent \in Nat \ {0}   \* RuntimeLimits.Validate
    /\ MaxCalls \in [Callers -> Nat \ {0}]

Calls == UNION {{u} \X (1..MaxCalls[u]) : u \in Callers}

Failures == {"error", "queue", "first_token_timeout", "turn_timeout", "cancelled"}

VARIABLES
    made,     \* caller -> calls it has begun
    gone,     \* caller -> its context, the request's, is cancelled
    stage,    \* call -> "new", "queued", "awaiting" or "answered"
    worker,   \* call -> its run goroutine: "none", "provider" (inside the
              \* driver), "delta" (inside the delta callback) or "ended"
    token,    \* call -> firstToken: "open", "closed", or "seen" by await
    timer,    \* call -> firstTokenTimer: "off", "armed" or "fired"
    turnCtx,  \* call -> "none", "live", "expired" or "cancelled"
    result,   \* call -> the one-slot results channel: "none", "ok", "error"
    drain,    \* call -> timeout's goroutine: "none", "waiting" or "done"
    answer,   \* call -> what Stream or Complete returned, "none" before
    slots,    \* len(slots)
    health    \* HealthTracker's entry: state and ConsecutiveFailure

vars == <<made, gone, stage, worker, token, timer, turnCtx, result, drain,
          answer, slots, health>>

TypeOK ==
    /\ made \in [Callers -> Nat]
    /\ \A u \in Callers : made[u] <= MaxCalls[u]
    /\ gone \in [Callers -> BOOLEAN]
    /\ stage \in [Calls -> {"new", "queued", "awaiting", "answered"}]
    /\ worker \in [Calls -> {"none", "provider", "delta", "ended"}]
    /\ token \in [Calls -> {"open", "closed", "seen"}]
    /\ timer \in [Calls -> {"off", "armed", "fired"}]
    /\ turnCtx \in [Calls -> {"none", "live", "expired", "cancelled"}]
    /\ result \in [Calls -> {"none", "ok", "error"}]
    /\ drain \in [Calls -> {"none", "waiting", "done"}]
    /\ answer \in [Calls -> {"none", "ok"} \cup Failures]
    /\ slots \in 0..MaxConcurrent
    /\ health \in [state : {"unknown", "healthy", "degraded"}, streak : Nat]

Init ==
    /\ made = [u \in Callers |-> 0]
    /\ gone = [u \in Callers |-> FALSE]
    /\ stage = [c \in Calls |-> "new"]
    /\ worker = [c \in Calls |-> "none"]
    /\ token = [c \in Calls |-> "open"]
    /\ timer = [c \in Calls |-> "off"]
    /\ turnCtx = [c \in Calls |-> "none"]
    /\ result = [c \in Calls |-> "none"]
    /\ drain = [c \in Calls |-> "none"]
    /\ answer = [c \in Calls |-> "none"]
    /\ slots = 0
    /\ health = [state |-> "unknown", streak |-> 0]

-----------------------------------------------------------------------------
(* Health *)

\* HealthTracker.RecordSuccess.
RecordSuccess ==
    health' = [state |-> "healthy", streak |-> 0]

\* HealthTracker.RecordFailure; the class of the error is left out.
RecordFailure ==
    health' = [state |-> "degraded", streak |-> health.streak + 1]

-----------------------------------------------------------------------------
(* The caller: queueing for a slot *)

\* The caller's first call, or another one after the last failed.  A caller
\* that is gone may still call: it finds out in acquire.
Call(u) ==
    /\ made[u] < MaxCalls[u]
    /\ made[u] > 0 => answer[<<u, made[u]>>] \in Failures
    /\ made' = [made EXCEPT ![u] = @ + 1]
    /\ stage' = [stage EXCEPT ![<<u, made[u] + 1>>] = "queued"]
    /\ UNCHANGED <<gone, worker, token, timer, turnCtx, result, drain, answer,
                   slots, health>>

\* Mutant of Acquire: an off-by-one in the capacity of slots.
AcquireOneMore(c) ==
    /\ stage[c] = "queued"
    /\ slots <= MaxConcurrent
    /\ slots' = slots + 1
    /\ stage' = [stage EXCEPT ![c] = "awaiting"]
    /\ turnCtx' = [turnCtx EXCEPT ![c] = IF gone[c[1]] THEN "cancelled" ELSE "live"]
    /\ worker' = [worker EXCEPT ![c] = "provider"]
    /\ timer' = [timer EXCEPT ![c] = "armed"]
    /\ UNCHANGED <<made, gone, token, result, drain, answer, health>>

\* A slot is free: the call enters its provider and both timers start.  The
\* select may choose the slot although the caller is gone.
Acquire(c) ==
    /\ stage[c] = "queued"
    /\ slots < MaxConcurrent
    /\ slots' = slots + 1
    /\ stage' = [stage EXCEPT ![c] = "awaiting"]
    /\ turnCtx' = [turnCtx EXCEPT ![c] = IF gone[c[1]] THEN "cancelled" ELSE "live"]
    /\ worker' = [worker EXCEPT ![c] = "provider"]
    /\ timer' = [timer EXCEPT ![c] = "armed"]
    /\ UNCHANGED <<made, gone, token, result, drain, answer, health>>

\* Mutant of LeaveQueue: the wait for a slot is not bound to the caller.
LeaveQueueNever(c) ==
    /\ stage[c] = "queued"
    /\ FALSE
    /\ UNCHANGED vars

\* acquire's other case: the caller's context is done while it waits.
LeaveQueue(c) ==
    /\ stage[c] = "queued"
    /\ gone[c[1]]
    /\ stage' = [stage EXCEPT ![c] = "answered"]
    /\ answer' = [answer EXCEPT ![c] = "queue"]
    /\ RecordFailure
    /\ UNCHANGED <<made, gone, worker, token, timer, turnCtx, result, drain, slots>>

-----------------------------------------------------------------------------
(* run: the goroutine inside the provider *)

\* A delta while the turn's context lives: the first one closes firstToken,
\* then the caller's onDelta runs, for as long as it takes.
BeginDelta(c) ==
    /\ worker[c] = "provider"
    /\ turnCtx[c] = "live"
    /\ worker' = [worker EXCEPT ![c] = "delta"]
    /\ token' = [token EXCEPT ![c] = IF @ = "open" THEN "closed" ELSE @]
    /\ UNCHANGED <<made, gone, stage, timer, turnCtx, result, drain, answer,
                   slots, health>>

\* onDelta returns.  A delta that finds the context done does nothing but
\* return an error to the provider, so it is no step of its own.
EndDelta(c) ==
    /\ worker[c] = "delta"
    /\ worker' = [worker EXCEPT ![c] = "provider"]
    /\ UNCHANGED <<made, gone, stage, token, timer, turnCtx, result, drain,
                   answer, slots, health>>

\* The provider returns r; results has room for it, whoever still reads it.
ProviderReturns(c, r) ==
    /\ worker[c] = "provider"
    /\ worker' = [worker EXCEPT ![c] = "ended"]
    /\ result' = [result EXCEPT ![c] = r]
    /\ UNCHANGED <<made, gone, stage, token, timer, turnCtx, drain, answer,
                   slots, health>>

-----------------------------------------------------------------------------
(* await: one select over the result, the first token and the two timers *)

\* Mutant of Finish: the slot is given back on success only.
FinishLeaks(c) ==
    /\ stage[c] = "awaiting"
    /\ result[c] # "none"
    /\ result' = [result EXCEPT ![c] = "none"]
    /\ slots' = IF result[c] = "ok" THEN slots - 1 ELSE slots
    /\ IF result[c] = "ok" THEN RecordSuccess ELSE RecordFailure
    /\ answer' = [answer EXCEPT ![c] = result[c]]
    /\ stage' = [stage EXCEPT ![c] = "answered"]
    /\ timer' = [timer EXCEPT ![c] = "off"]
    /\ turnCtx' = [turnCtx EXCEPT ![c] = "cancelled"]
    /\ UNCHANGED <<made, gone, worker, token, drain>>

\* The result, which ends the call, its timers and its context.
Finish(c) ==
    /\ stage[c] = "awaiting"
    /\ result[c] # "none"
    /\ result' = [result EXCEPT ![c] = "none"]
    /\ slots' = slots - 1
    /\ IF result[c] = "ok" THEN RecordSuccess ELSE RecordFailure
    /\ answer' = [answer EXCEPT ![c] = result[c]]
    /\ stage' = [stage EXCEPT ![c] = "answered"]
    /\ timer' = [timer EXCEPT ![c] = "off"]
    /\ turnCtx' = [turnCtx EXCEPT ![c] = "cancelled"]
    /\ UNCHANGED <<made, gone, worker, token, drain>>

\* Mutant of SeeFirstToken: a timer that fired already keeps its tick.
SeeFirstTokenUndrained(c) ==
    /\ stage[c] = "awaiting"
    /\ token[c] = "closed"
    /\ token' = [token EXCEPT ![c] = "seen"]
    /\ timer' = [timer EXCEPT ![c] = IF @ = "armed" THEN "off" ELSE @]
    /\ UNCHANGED <<made, gone, stage, worker, turnCtx, result, drain, answer,
                   slots, health>>

\* The first token: the timer is stopped, and drained if it has fired.
SeeFirstToken(c) ==
    /\ stage[c] = "awaiting"
    /\ token[c] = "closed"
    /\ token' = [token EXCEPT ![c] = "seen"]
    /\ timer' = [timer EXCEPT ![c] = "off"]
    /\ UNCHANGED <<made, gone, stage, worker, turnCtx, result, drain, answer,
                   slots, health>>

\* Mutant of Abandon: the slot is given back with the answer.
AbandonReleases(c, a) ==
    /\ stage[c] = "awaiting"
    /\ turnCtx' = [turnCtx EXCEPT ![c] = "cancelled"]
    /\ RecordFailure
    /\ answer' = [answer EXCEPT ![c] = a]
    /\ stage' = [stage EXCEPT ![c] = "answered"]
    /\ timer' = [timer EXCEPT ![c] = "off"]
    /\ slots' = slots - 1
    /\ UNCHANGED <<made, gone, worker, token, result, drain>>

\* timeout: the call is cancelled, recorded and answered; a goroutine of its
\* own keeps the slot until the provider returns.
Abandon(c, a) ==
    /\ stage[c] = "awaiting"
    /\ turnCtx' = [turnCtx EXCEPT ![c] = "cancelled"]
    /\ RecordFailure
    /\ answer' = [answer EXCEPT ![c] = a]
    /\ stage' = [stage EXCEPT ![c] = "answered"]
    /\ timer' = [timer EXCEPT ![c] = "off"]
    /\ drain' = [drain EXCEPT ![c] = "waiting"]
    /\ UNCHANGED <<made, gone, worker, token, result, slots>>

FirstTokenTimeout(c) ==
    /\ timer[c] = "fired"
    /\ Abandon(c, "first_token_timeout")

\* The turn's context is done: the caller's fault if its own context is done
\* too when await looks, the turn timer's otherwise.
TurnDone(c) ==
    /\ turnCtx[c] # "live"
    /\ Abandon(c, IF gone[c[1]] THEN "cancelled" ELSE "turn_timeout")

\* Mutant of Drain: the end of an abandoned call is recorded again.
DrainRecords(c) ==
    /\ drain[c] = "waiting"
    /\ result[c] # "none"
    /\ result' = [result EXCEPT ![c] = "none"]
    /\ slots' = slots - 1
    /\ drain' = [drain EXCEPT ![c] = "done"]
    /\ RecordFailure
    /\ UNCHANGED <<made, gone, stage, worker, token, timer, turnCtx, answer>>

\* timeout's goroutine: the abandoned provider returned; its result is
\* dropped and its slot is free.
Drain(c) ==
    /\ drain[c] = "waiting"
    /\ result[c] # "none"
    /\ result' = [result EXCEPT ![c] = "none"]
    /\ slots' = slots - 1
    /\ drain' = [drain EXCEPT ![c] = "done"]
    /\ UNCHANGED <<made, gone, stage, worker, token, timer, turnCtx, answer, health>>

-----------------------------------------------------------------------------
(* Time and the caller's context *)

FirstTokenTimerFires(c) ==
    /\ timer[c] = "armed"
    /\ timer' = [timer EXCEPT ![c] = "fired"]
    /\ UNCHANGED <<made, gone, stage, worker, token, turnCtx, result, drain,
                   answer, slots, health>>

\* Mutant of TurnTimerFires: the turn's deadline ends with the first token's.
TurnTimerFiresEarly(c) ==
    /\ turnCtx[c] = "live"
    /\ token[c] # "seen"
    /\ turnCtx' = [turnCtx EXCEPT ![c] = "expired"]
    /\ UNCHANGED <<made, gone, stage, worker, token, timer, result, drain,
                   answer, slots, health>>

TurnTimerFires(c) ==
    /\ turnCtx[c] = "live"
    /\ turnCtx' = [turnCtx EXCEPT ![c] = "expired"]
    /\ UNCHANGED <<made, gone, stage, worker, token, timer, result, drain,
                   answer, slots, health>>

\* The client leaves or the server stops: the contexts of the caller's calls
\* end with it.
Leave(u) ==
    /\ ~gone[u]
    /\ gone' = [gone EXCEPT ![u] = TRUE]
    /\ turnCtx' = [c \in Calls |->
           IF c[1] = u /\ turnCtx[c] = "live" THEN "cancelled" ELSE turnCtx[c]]
    /\ UNCHANGED <<made, stage, worker, token, timer, result, drain, answer,
                   slots, health>>

CallerStep(c) == Acquire(c) \/ LeaveQueue(c)

AwaitStep(c) ==
    \/ Finish(c)
    \/ SeeFirstToken(c)
    \/ FirstTokenTimeout(c)
    \/ TurnDone(c)

Provider(c) == \E r \in {"ok", "error"} : ProviderReturns(c, r)

Next ==
    \/ \E u \in Callers : Call(u) \/ Leave(u)
    \/ \E c \in Calls :
        \/ CallerStep(c)
        \/ BeginDelta(c)
        \/ EndDelta(c)
        \/ Provider(c)
        \/ AwaitStep(c)
        \/ Drain(c)
        \/ FirstTokenTimerFires(c)
        \/ TurnTimerFires(c)

Spec == Init /\ [][Next]_vars

\* The timers fire and the wrapper's goroutines run.  Nothing is asked of a
\* provider: it may hang for ever.  A blocked sender gets a slot in its turn
\* (Go queues the senders of a channel first in, first out).
Fairness ==
    \A c \in Calls :
        /\ WF_vars(CallerStep(c))
        /\ WF_vars(AwaitStep(c))
        /\ WF_vars(Drain(c))
        /\ WF_vars(TurnTimerFires(c))

\* What QueueMoves asks of the providers besides: once a call's context is
\* done its delta callback returns (its pipe is read or closed) and so does
\* the driver, which made its HTTP request with that context.
ProvidersReturn ==
    \A c \in Calls :
        /\ WF_vars(turnCtx[c] # "live" /\ EndDelta(c))
        /\ WF_vars(turnCtx[c] # "live" /\ Provider(c))

LiveSpec == Spec /\ Fairness

-----------------------------------------------------------------------------
(* Properties *)

\* Who holds a slot: a call in await, and an abandoned one whose provider has
\* not returned.
Holding == {c \in Calls : stage[c] = "awaiting" \/ drain[c] = "waiting"}

\* The provider goroutines that have not returned.
Running == {c \in Calls : worker[c] \in {"provider", "delta"}}

\* No slot leaks and none is given back twice, on any path out of call
\* (finish, either timeout, the caller's cancellation, the abandoned end):
\* release's receive from slots never blocks, and the queue keeps its width.
SlotsExact == slots = Cardinality(Holding)

\* runtime.go:11 "RuntimeLimits bound one upstream's live provider traffic":
\* at most MaxConcurrent provider goroutines run at any time, the abandoned
\* ones of timed-out calls included, whatever retries and fallbacks follow.
ProviderBounded == Cardinality(Running) <= MaxConcurrent

\* Once await has seen the first token, a first-token timer that fired at the
\* same moment can no longer end the call (runtime.go:227-235).
SeenTokenSpared ==
    [][\A c \in Calls :
        token[c] = "seen" => (answer'[c] = "first_token_timeout" => answer[c] = answer'[c])]_vars

\* Every failure is counted once: a call that is answered by a timeout and
\* ends later adds one to ConsecutiveFailure, and only a success resets it.
HealthCountsOnce ==
    LET failed == {c \in Calls : answer[c] \in Failures}
    IN IF \E c \in Calls : answer[c] = "ok"
       THEN health.streak <= Cardinality(failed)
       ELSE health.streak = Cardinality(failed)

\* A call that has a slot is answered even if its provider hangs for ever,
\* before or after the first token.
HungCallAnswered ==
    \A c \in Calls : stage[c] = "awaiting" ~> stage[c] = "answered"

\* Nobody waits for a slot after it has left, not even behind calls whose
\* providers never return: "The queue is caller-context-bound" (runtime.go:12).
GoneCallerAnswered ==
    \A u \in Callers : gone[u] ~>
        \A i \in 1..MaxCalls[u] : stage[<<u, i>>] \in {"new", "answered"}

\* If providers return once they are cancelled, every queued call gets its
\* slot (or leaves): timed-out calls give theirs back, and a turn whose
\* fallback queues behind its own abandoned call goes on.
QueueMoves ==
    ProvidersReturn => \A c \in Calls : stage[c] = "queued" ~> stage[c] # "queued"

=============================================================================
