------------------------------ MODULE Rebound ------------------------------
(***************************************************************************)
(* One call of rebound.Do: an operation is tried until it succeeds, fails  *)
(* for good, its context ends or the budget of attempts and time is spent, *)
(* with growing, capped and jittered waits between the attempts.           *)
(*                                                                         *)
(* Time is counted in ticks and passes in the operation, in the caller's   *)
(* pre- and post-attempt handlers and in the waits.                        *)
(* A multiplier is a fraction num/den, so that the float arithmetic of the *)
(* code is exact here; rounding to whole ticks is the code's.              *)
(***************************************************************************)
EXTENDS Naturals, Sequences

CONSTANTS Configs,      \* the validated configurations to run with
          Durations,    \* the ticks an operation may take
          RetryAfters,  \* the delays a server may ask for, 0 for none
          Handling,     \* the most ticks an attempt's handlers take at a time
          Lateness      \* the ticks by which a timer may fire late

ConfigType ==
    [attempts : Nat \ {0}, initial : Nat \ {0}, maximum : Nat \ {0},
     elapsed : Nat \ {0}, num : Nat \ {0}, den : Nat \ {0}, jitter : BOOLEAN]

\* validateConfig
ASSUME ReboundAssumption ==
    /\ Configs \subseteq ConfigType
    /\ \A c \in Configs : c.initial <= c.maximum
    /\ Durations \subseteq Nat /\ RetryAfters \subseteq Nat
    /\ Handling \in Nat /\ Lateness \in Nat

VARIABLES cfg,      \* this call's configuration
          pc,       \* "loop", "operate", "decide", "wait" or "done"
          number,   \* the attempt under way, counting from 1
          now,      \* ticks since the call started
          ended,    \* whether the caller's context has ended
          err,      \* what the last operation returned
          after,    \* the delay its server asked for, 0 for none
          report,   \* the last attempt given to the post-attempt handler
          result,   \* what Do returns
          calls,    \* ghost: how often the operation was invoked
          begun     \* ghost: when it was last invoked

vars == <<cfg, pc, number, now, ended, err, after, report, result, calls, begun>>

Errors == {"ok", "retryable", "fatal", "context"}

NoReport == [number |-> 0, err |-> "ok", delay |-> 0]

----------------------------------------------------------------------------
(* Delays *)

Round(n, d) == (2 * n + d) \div (2 * d)

Least(a, b) == IF a <= b THEN a ELSE b

\* Mutant of ExponentialDelay: the first retry's delay is multiplied already.
EagerDelay(c, attempt) ==
    LET step[r \in 0..attempt] ==
          IF r = 0 THEN [n |-> c.initial, d |-> 1, capped |-> FALSE]
          ELSE LET p == step[r - 1]
                   q == [n |-> p.n * c.num, d |-> p.d * c.den, capped |-> FALSE]
               IN IF p.n >= c.maximum * p.d THEN p
                  ELSE IF q.n >= c.maximum * q.d
                       THEN [n |-> c.maximum, d |-> 1, capped |-> TRUE]
                       ELSE q
    IN Least(Round(step[attempt].n, step[attempt].d), c.maximum)

\* The loop multiplies while the delay is below the maximum, and answers the
\* maximum as soon as a product reaches it.
ExponentialDelay(c, attempt) ==
    LET step[r \in 1..attempt] ==
          IF r = 1 THEN [n |-> c.initial, d |-> 1, capped |-> FALSE]
          ELSE LET p == step[r - 1]
                   q == [n |-> p.n * c.num, d |-> p.d * c.den, capped |-> FALSE]
               IN IF p.n >= c.maximum * p.d THEN p
                  ELSE IF q.n >= c.maximum * q.d
                       THEN [n |-> c.maximum, d |-> 1, capped |-> TRUE]
                       ELSE q
    IN Least(Round(step[attempt].n, step[attempt].d), c.maximum)

\* A server's delay replaces the exponential one, under the same cap; jitter
\* takes up to half of it away.
Delays(c, attempt, asked) ==
    LET delay == IF asked > 0 THEN Least(asked, c.maximum)
                 ELSE ExponentialDelay(c, attempt)
    IN IF c.jitter THEN (delay \div 2)..delay ELSE {delay}

----------------------------------------------------------------------------
Init ==
    /\ cfg \in Configs
    /\ pc = "loop" /\ number = 1 /\ now = 0
    /\ ended \in BOOLEAN
    /\ err = "ok" /\ after = 0 /\ report = NoReport
    /\ result = [kind |-> "none", attempts |-> 0]
    /\ calls = 0 /\ begun = 0

\* The caller gives up, or its deadline passes.
End ==
    /\ ~ended
    /\ ended' = TRUE
    /\ UNCHANGED <<cfg, pc, number, now, err, after, report, result, calls, begun>>

Return(kind) ==
    /\ pc' = "done"
    /\ result' = [kind |-> kind, attempts |-> number]

\* The head of the loop: the context is asked, the pre-attempt handlers are run,
\* then the operation is invoked.
Begin(ticks) ==
    /\ pc = "loop" /\ ~ended
    /\ pc' = "operate"
    /\ now' = now + ticks
    /\ calls' = calls + 1 /\ begun' = now'
    /\ UNCHANGED <<cfg, number, ended, err, after, report, result>>

BeginEnded ==
    /\ pc = "loop" /\ ended
    /\ Return("context")
    /\ UNCHANGED <<cfg, number, now, ended, err, after, report, calls, begun>>

\* The operation returns; it may see the context's end or a deadline of its
\* own, or notice neither.
Operate(e, ticks, asked) ==
    /\ pc = "operate"
    /\ asked > 0 => e = "retryable"
    /\ err' = e /\ after' = asked /\ now' = now + ticks
    /\ pc' = "decide"
    /\ UNCHANGED <<cfg, number, ended, report, result, calls, begun>>

Reported(delay) == [number |-> number, err |-> err, delay |-> delay]

\* decide, where the attempt is the last: success, an error that is not
\* retried, or no budget left before any delay is chosen.
DecideEnd ==
    /\ pc = "decide"
    /\ \/ err = "ok" /\ Return("ok")
       \/ err \in {"fatal", "context"} /\ Return("not_retryable")
       \/ /\ err = "retryable"
          /\ number = cfg.attempts \/ now >= cfg.elapsed
          /\ Return("exhausted")
    /\ report' = Reported(0)
    /\ UNCHANGED <<cfg, number, now, ended, err, after, calls, begun>>

\* Mutant of DecideDelay: the wait is not held against the elapsed time.
DecideAnyDelay ==
    /\ pc = "decide" /\ err = "retryable"
    /\ number < cfg.attempts /\ now < cfg.elapsed
    /\ \E delay \in Delays(cfg, number, after) :
          /\ report' = Reported(delay)
          /\ pc' = "wait" /\ UNCHANGED result
    /\ UNCHANGED <<cfg, number, now, ended, err, after, calls, begun>>

\* Mutant of DecideDelay: an attempt too many.
DecideOneMore ==
    /\ pc = "decide" /\ err \in {"retryable", "fatal"}
    /\ now < cfg.elapsed
    /\ \E delay \in Delays(cfg, number, after) :
          /\ report' = Reported(delay)
          /\ IF delay > cfg.elapsed - now
             THEN Return("exhausted")
             ELSE pc' = "wait" /\ UNCHANGED result
    /\ UNCHANGED <<cfg, number, now, ended, err, after, calls, begun>>

\* decide, with budget left: a delay that would end after the budget ends the
\* call instead, and is reported all the same.
DecideDelay ==
    /\ pc = "decide" /\ err = "retryable"
    /\ number < cfg.attempts /\ now < cfg.elapsed
    /\ \E delay \in Delays(cfg, number, after) :
          /\ report' = Reported(delay)
          /\ IF delay > cfg.elapsed - now
             THEN Return("exhausted")
             ELSE pc' = "wait" /\ UNCHANGED result
    /\ UNCHANGED <<cfg, number, now, ended, err, after, calls, begun>>

\* The post-attempt handlers return, and the timer, started only then, fires,
\* perhaps late.
WaitOver(ticks, late) ==
    /\ pc = "wait"
    /\ now' = now + ticks + report.delay + late
    /\ number' = number + 1
    /\ pc' = "loop"
    /\ UNCHANGED <<cfg, ended, err, after, report, result, calls, begun>>

\* The context ends first, or both are ready and the select takes it.
WaitEnded ==
    /\ pc = "wait" /\ ended
    /\ Return("context")
    /\ UNCHANGED <<cfg, number, now, ended, err, after, report, calls, begun>>

Next ==
    \/ End \/ BeginEnded \/ DecideEnd \/ DecideDelay
    \/ WaitEnded
    \/ \E e \in Errors, ticks \in Durations, asked \in RetryAfters :
          Operate(e, ticks, asked)
    \/ \E ticks \in 0..Handling :
          Begin(ticks) \/ \E late \in 0..Lateness : WaitOver(ticks, late)

Spec == Init /\ [][Next]_vars

----------------------------------------------------------------------------
(* Properties *)

\* b to the power of k.
Power(b, k) == LET p[i \in 0..k] == IF i = 0 THEN 1 ELSE b * p[i - 1] IN p[k]

\* "The first retry waits the initial delay, then each later retry multiplies
\* that delay until the maximum delay", a server's delay "replaces exponential
\* backoff, still capped", and jitter keeps "between 50% and 100%": every wait
\* against the closed formula, for every multiplier.  An initial delay that is
\* the maximum already is never multiplied, which for a multiplier of one and
\* more is the formula too, and for one below one is DelaysShrink's case.
WaitIsBackoff ==
    pc = "wait" =>
        LET k == number - 1
            power == IF cfg.initial < cfg.maximum
                     THEN Round(cfg.initial * Power(cfg.num, k), Power(cfg.den, k))
                     ELSE cfg.maximum
            base == Least(IF after > 0 THEN after ELSE power, cfg.maximum)
        IN IF cfg.jitter
           THEN report.delay <= base /\ base <= 2 * report.delay + 1
           ELSE report.delay = base

\* "Caps all time spent in the call, including work and waits"
\* (pkg/rebound/README.md:209), as far as the call can: however long operations
\* take and whatever delays a server asks for, no attempt begins after the budget,
\* but for the lateness of one timer and the time of the handlers around it.  An
\* attempt that began within the budget may still outlast it: only the context
\* ends an operation.
NoLateAttempt == calls > 1 => begun <= cfg.elapsed + Lateness + 2 * Handling

\* What Do says of itself is what happened: no more invocations than allowed,
\* none after an answer that is not retried, and an ExhaustedError with the
\* number of invocations made, after a retryable failure.
AnswerIsTrue ==
    /\ calls <= cfg.attempts
    /\ pc \in {"loop", "wait"} /\ calls > 0 => err = "retryable"
    /\ result.kind = "exhausted" =>
          /\ result.attempts = calls /\ err = "retryable"
          /\ report.number = calls
    /\ result.kind = "ok" => err = "ok"

\* "Values below one deliberately decrease subsequent retry delays"
\* (options.go:33): a first wait at the maximum delay is never multiplied.
DelaysShrink ==
    pc = "wait" /\ cfg.num < cfg.den /\ ~cfg.jitter /\ number > 1
        /\ RetryAfters = {0} =>
            report.delay <= Round(cfg.initial * cfg.num, cfg.den)

\* "RetryDelay is non-zero only when Rebound will make another attempt after
\* that delay" (attempt.go:3): the attempt that exhausts the elapsed time is
\* reported with the delay that did not fit.
ReportedDelayIsWaited ==
    result.kind = "exhausted" => report.delay = 0
=============================================================================
