----------------------------- MODULE TurnStream -----------------------------
(***************************************************************************)
(* How one chat turn reaches its client: the turn's goroutine tries the     *)
(* candidate models (core/chats/stream.go), the delta callbacks of their    *)
(* calls publish on the provider's goroutines (core/chat/chat.go), both     *)
(* through one mutex into an unbuffered pipe, and the HTTP handler copies   *)
(* the pipe to the connection (http/api/api.gen.go).                        *)
(*                                                                          *)
(* A frame is <<kind, candidate>>; status frames, which carry no content,   *)
(* are written like the others but not remembered.  A call has one round:   *)
(* a tool round changes nothing here, since the stream has started by then. *)
(* Slots and health of the upstreams are UpstreamRuntime's.                 *)
(***************************************************************************)
EXTENDS Registry, FiniteSets

CONSTANTS
    Listings,       \* the outcomes of the discovery that are considered
    MaxCandidates,  \* bound: candidates of one turn are numbered from 1 to it
    MaxDeltas       \* bound: deltas of one call

ASSUME StreamAssumption ==
    /\ Listings \subseteq [Range(Upstreams) -> SUBSET Models]
    /\ MaxCandidates \in Nat
    /\ \A m \in Models : Len(FallbackModels[m]) < MaxCandidates
    /\ MaxDeltas \in Nat \ {0}

Ranks == 1..MaxCandidates

Status == <<"status", 0>>
NoFrame == <<"none", 0>>
Frames == {Status} \cup ({"start", "delta", "end", "error"} \X Ranks)

VARIABLES
    asked,    \* the chat's model
    pc,       \* the turn's goroutine
    cand,     \* the candidate being run
    err,      \* what its run failed with
    ctx,      \* candidate -> context of its call: "none", "live",
              \* "expired" or "cancelled"
    cb,       \* candidate -> its provider goroutine
    started,  \* candidate -> adapterState.streamStarted
    begun,    \* candidate -> adapterState.roundHasDelta
    token,    \* candidate -> firstToken: "open", "closed" or "seen"
    res,      \* candidate -> results channel
    deltas,   \* candidate -> deltas published
    pipe,     \* "open", "ended" by the turn or "broken" by the handler
    hand,     \* the frame the handler has read and not written yet
    conn,     \* the connection: "open" or "gone"
    wire,     \* the content frames the client received
    kept      \* the candidate whose answer was stored, 0 before

turn == <<pc, cand, err>>
call == <<ctx, cb, started, begun, token, res, deltas>>
out == <<pipe, hand, conn, wire>>
vars == <<listed, asked, pc, cand, err, ctx, cb, started, begun, token, res,
          deltas, pipe, hand, conn, wire, kept>>

Candidates == CandidatesFor(asked)

TypeOK ==
    /\ asked \in Models
    /\ pc \in {"connecting", "round", "await", "preamble", "epilogue", "judge",
               "retrying", "fail", "persist", "close", "done"}
    /\ cand \in 1..Len(Candidates)
    /\ err \in {"none", "timeout", "transient", "fatal", "cancelled", "pipe"}
    /\ ctx \in [Ranks -> {"none", "live", "expired", "cancelled"}]
    /\ cb \in [Ranks -> {"none", "provider", "preamble", "mark", "status", "delta", "ended"}]
    /\ started \in [Ranks -> BOOLEAN]
    /\ begun \in [Ranks -> BOOLEAN]
    /\ token \in [Ranks -> {"open", "closed", "seen"}]
    /\ res \in [Ranks -> {"none", "ok", "transient", "fatal", "cancelled"}]
    /\ deltas \in [Ranks -> 0..MaxDeltas]
    /\ pipe \in {"open", "ended", "broken"}
    /\ hand \in Frames \cup {NoFrame}
    /\ conn \in {"open", "gone"}
    /\ wire \in Seq(Frames)
    /\ kept \in 0..MaxCandidates

\* The service starts only if its configuration fits what was discovered, and
\* a turn starts only if its model is routable.
Init ==
    /\ listed \in Listings
    /\ FallbacksAccepted /\ DefaultAccepted
    /\ asked \in {m \in Models : Routable(m)}
    /\ pc = "connecting" /\ cand = 1 /\ err = "none"
    /\ ctx = [k \in Ranks |-> "none"]
    /\ cb = [k \in Ranks |-> "none"]
    /\ started = [k \in Ranks |-> FALSE]
    /\ begun = [k \in Ranks |-> FALSE]
    /\ token = [k \in Ranks |-> "open"]
    /\ res = [k \in Ranks |-> "none"]
    /\ deltas = [k \in Ranks |-> 0]
    /\ pipe = "open" /\ hand = NoFrame /\ conn = "open" /\ wire = <<>>
    /\ kept = 0

-----------------------------------------------------------------------------
(* The pipe and the handler *)

\* A frame goes from the writer, who holds the sink's mutex, into the hands
\* of the handler; until the handler takes it every writer waits.
Write(f) ==
    /\ pipe = "open" /\ hand = NoFrame
    /\ hand' = f
    /\ UNCHANGED <<pipe, conn, wire>>

\* The handler has closed its end: io.ErrClosedPipe.
WriteFails ==
    /\ pipe = "broken"
    /\ UNCHANGED out

\* A late callback that writes after the turn closed its end fails as well.
WriteLate ==
    /\ pipe # "open"
    /\ UNCHANGED out

\* Visit: the frame is written to the connection and flushed.
Deliver ==
    /\ hand # NoFrame /\ conn = "open"
    /\ hand' = NoFrame
    /\ wire' = IF hand = Status THEN wire ELSE Append(wire, hand)
    /\ UNCHANGED <<listed, asked, turn, call, pipe, conn, kept>>

\* Visit: the client is gone; the write fails, and the handler returns and
\* closes the pipe it was reading.
DeliverFails ==
    /\ hand # NoFrame /\ conn = "gone"
    /\ hand' = NoFrame
    /\ pipe' = "broken"
    /\ UNCHANGED <<listed, asked, turn, call, conn, wire, kept>>

\* Or the kernel takes the frame, and the client never sees it.
DeliverNowhere ==
    /\ hand # NoFrame /\ conn = "gone"
    /\ hand' = NoFrame
    /\ UNCHANGED <<listed, asked, turn, call, pipe, conn, wire, kept>>

\* The client leaves: the request's context ends, and the calls' with it.
Leave ==
    /\ conn = "open" /\ pc # "done"
    /\ conn' = "gone"
    /\ ctx' = [k \in Ranks |-> IF ctx[k] = "live" THEN "cancelled" ELSE ctx[k]]
    /\ UNCHANGED <<listed, asked, turn, cb, started, begun, token, res, deltas,
                   pipe, hand, wire, kept>>

-----------------------------------------------------------------------------
(* The turn's goroutine: runStreamCandidates *)

\* The status "connecting"; if it cannot be written the turn is over.
PublishConnecting ==
    /\ pc = "connecting"
    /\ \/ Write(Status) /\ pc' = "round" /\ UNCHANGED err
       \/ WriteFails /\ pc' = "fail" /\ err' = "pipe"
    /\ UNCHANGED <<listed, asked, cand, call, kept>>

\* Run begins its round with the status "waiting" and calls the provider.
RoundStart ==
    /\ pc = "round"
    /\ \/ /\ Write(Status)
          /\ pc' = "await"
          /\ ctx' = [ctx EXCEPT ![cand] = IF conn = "gone" THEN "cancelled" ELSE "live"]
          /\ cb' = [cb EXCEPT ![cand] = "provider"]
          /\ UNCHANGED err
       \/ /\ WriteFails
          /\ pc' = "judge" /\ err' = "pipe"
          /\ UNCHANGED <<ctx, cb>>
    /\ UNCHANGED <<listed, asked, cand, started, begun, token, res, deltas, kept>>

\* await takes the result of the call.
AwaitResult ==
    /\ pc = "await" /\ res[cand] # "none"
    /\ IF res[cand] = "ok" THEN pc' = "preamble" /\ err' = "none"
                           ELSE pc' = "judge" /\ err' = res[cand]
    /\ ctx' = [ctx EXCEPT ![cand] = "cancelled"]
    /\ UNCHANGED <<listed, asked, cand, cb, started, begun, token, res, deltas, out, kept>>

AwaitFirstToken ==
    /\ pc = "await" /\ token[cand] = "closed"
    /\ token' = [token EXCEPT ![cand] = "seen"]
    /\ UNCHANGED <<listed, asked, turn, ctx, cb, started, begun, res, deltas, out, kept>>

\* The call is given up, its provider goroutine abandoned.
GiveUp(why) ==
    /\ pc = "await"
    /\ pc' = "judge" /\ err' = why
    /\ ctx' = [ctx EXCEPT ![cand] = "cancelled"]
    /\ UNCHANGED <<listed, asked, cand, cb, started, begun, token, res, deltas, out, kept>>

\* Whichever timer fired; a first token that await has not seen does not
\* count.
FirstTokenTimeout == token[cand] # "seen" /\ GiveUp("timeout")

TurnDone ==
    /\ ctx[cand] # "live"
    /\ GiveUp(IF conn = "gone" THEN "cancelled" ELSE "timeout")

\* Mutant of Preamble: the stream is started again.
PreambleTwice ==
    /\ pc = "preamble"
    /\ \/ /\ Write(<<"start", cand>>)
          /\ started' = [started EXCEPT ![cand] = TRUE]
          /\ pc' = "epilogue" /\ UNCHANGED err
       \/ /\ WriteFails
          /\ pc' = "judge" /\ err' = "pipe" /\ UNCHANGED started
    /\ UNCHANGED <<listed, asked, cand, ctx, cb, begun, token, res, deltas, kept>>

\* Run succeeded: the stream is started unless a delta or the assistant
\* message started it.
Preamble ==
    /\ pc = "preamble"
    /\ \/ /\ started[cand]
          /\ pc' = "epilogue" /\ UNCHANGED <<err, started, out>>
       \/ /\ ~started[cand] /\ Write(<<"start", cand>>)
          /\ started' = [started EXCEPT ![cand] = TRUE]
          /\ pc' = "epilogue" /\ UNCHANGED err
       \/ /\ ~started[cand] /\ WriteFails
          /\ pc' = "judge" /\ err' = "pipe" /\ UNCHANGED started
    /\ UNCHANGED <<listed, asked, cand, ctx, cb, begun, token, res, deltas, kept>>

Epilogue ==
    /\ pc = "epilogue"
    /\ \/ Write(<<"end", cand>>) /\ pc' = "persist" /\ UNCHANGED err
       \/ WriteFails /\ pc' = "judge" /\ err' = "pipe"
    /\ UNCHANGED <<listed, asked, cand, call, kept>>

\* isFallbackEligible, of the errors told apart here.
FallbackEligible(e) == e \in {"timeout", "transient"}

\* Mutant of Judge: off by one at the last candidate.
JudgePastEnd ==
    /\ pc = "judge"
    /\ pc' = IF ~started[cand] /\ FallbackEligible(err) /\ cand <= Len(Candidates)
             THEN "retrying" ELSE "fail"
    /\ UNCHANGED <<listed, asked, cand, err, call, out, kept>>

\* Another candidate only if nothing was streamed, the failure allows it and
\* there is one.
Judge ==
    /\ pc = "judge"
    /\ pc' = IF ~started[cand] /\ FallbackEligible(err) /\ cand < Len(Candidates)
             THEN "retrying" ELSE "fail"
    /\ UNCHANGED <<listed, asked, cand, err, call, out, kept>>

\* The status "retrying", then the next candidate.
Retry ==
    /\ pc = "retrying"
    /\ \/ Write(Status) /\ pc' = "connecting" /\ cand' = cand + 1 /\ err' = "none"
       \/ WriteFails /\ pc' = "fail" /\ err' = "pipe" /\ UNCHANGED cand
    /\ UNCHANGED <<listed, asked, call, kept>>

\* Mutant of Publishable: a deadline counts as a cancellation.
PublishableButTimeouts(e) == e \notin {"cancelled", "timeout"}

\* streamFailure: a cancelled turn has nobody to tell.
Publishable(e) == e # "cancelled"

\* handleStreamTurnFailure: one terminal error frame, as far as possible.
Fail ==
    /\ pc = "fail"
    /\ IF Publishable(err)
       THEN Write(<<"error", cand>>) \/ WriteFails
       ELSE UNCHANGED out
    /\ pc' = "close"
    /\ UNCHANGED <<listed, asked, cand, err, call, kept>>

\* persistTurn, detached from the request; a failing transaction only warns.
Persist ==
    /\ pc = "persist"
    /\ kept' \in {0, cand}
    /\ pc' = "close"
    /\ UNCHANGED <<listed, asked, cand, err, call, out>>

\* The deferred calls: the pipe is closed and the turn lock released.
Close ==
    /\ pc = "close"
    /\ pipe' = IF pipe = "open" THEN "ended" ELSE pipe
    /\ pc' = "done"
    /\ UNCHANGED <<listed, asked, cand, err, call, hand, conn, wire, kept>>

Turn ==
    \/ PublishConnecting
    \/ RoundStart
    \/ Preamble
    \/ Epilogue
    \/ Judge
    \/ Retry
    \/ Fail
    \/ Persist
    \/ Close

-----------------------------------------------------------------------------
(* The provider goroutine of candidate k's call and its delta callback *)

\* A delta, while the call's context lives.
BeginDelta(k) ==
    /\ cb[k] = "provider" /\ ctx[k] = "live" /\ deltas[k] < MaxDeltas
    /\ token' = [token EXCEPT ![k] = IF @ = "open" THEN "closed" ELSE @]
    /\ cb' = [cb EXCEPT ![k] =
           IF ~started[k] THEN "preamble" ELSE IF ~begun[k] THEN "status" ELSE "delta"]
    /\ UNCHANGED <<listed, asked, turn, ctx, started, begun, res, deltas, out, kept>>

\* A write of the callback fails: the driver ends its call with the error.
CallbackFails(k) ==
    /\ cb[k] \in {"preamble", "status", "delta"}
    /\ WriteLate
    /\ cb' = [cb EXCEPT ![k] = "ended"]
    /\ res' = [res EXCEPT ![k] = "fatal"]
    /\ UNCHANGED <<listed, asked, turn, ctx, started, begun, token, deltas, kept>>

\* startStream: the preamble is written, then the flag set.
CallbackPreamble(k) ==
    /\ cb[k] = "preamble"
    /\ Write(<<"start", k>>)
    /\ cb' = [cb EXCEPT ![k] = "mark"]
    /\ UNCHANGED <<listed, asked, turn, ctx, started, begun, token, res, deltas, kept>>

CallbackMark(k) ==
    /\ cb[k] = "mark"
    /\ started' = [started EXCEPT ![k] = TRUE]
    /\ cb' = [cb EXCEPT ![k] = IF begun[k] THEN "delta" ELSE "status"]
    /\ UNCHANGED <<listed, asked, turn, ctx, begun, token, res, deltas, out, kept>>

\* The round's first delta: the status "streaming".
CallbackStatus(k) ==
    /\ cb[k] = "status"
    /\ Write(Status)
    /\ begun' = [begun EXCEPT ![k] = TRUE]
    /\ cb' = [cb EXCEPT ![k] = "delta"]
    /\ UNCHANGED <<listed, asked, turn, ctx, started, token, res, deltas, kept>>

\* The content block of the delta.
CallbackDelta(k) ==
    /\ cb[k] = "delta"
    /\ Write(<<"delta", k>>)
    /\ deltas' = [deltas EXCEPT ![k] = @ + 1]
    /\ cb' = [cb EXCEPT ![k] = "provider"]
    /\ UNCHANGED <<listed, asked, turn, ctx, started, begun, token, res, kept>>

\* The provider returns: an answer, a transient failure or another one, and
\* after its context ended a cancellation as well (a deadline, not eligible
\* for a fallback, if the turn timer ended it).
ProviderReturns(k) ==
    /\ cb[k] = "provider"
    /\ \E r \in {"ok", "transient", "fatal", "cancelled"} :
        /\ r = "cancelled" => ctx[k] = "cancelled"
        /\ res' = [res EXCEPT ![k] = r]
    /\ cb' = [cb EXCEPT ![k] = "ended"]
    /\ UNCHANGED <<listed, asked, turn, ctx, started, begun, token, deltas, out, kept>>

\* Mutant of TurnTimerFires: the first token disarms both timers.
TurnTimerFiresUnlessSeen(k) ==
    /\ ctx[k] = "live" /\ token[k] # "seen"
    /\ ctx' = [ctx EXCEPT ![k] = "expired"]
    /\ UNCHANGED <<listed, asked, turn, cb, started, begun, token, res, deltas, out, kept>>

\* The turn timer of candidate k's call.
TurnTimerFires(k) ==
    /\ ctx[k] = "live"
    /\ ctx' = [ctx EXCEPT ![k] = "expired"]
    /\ UNCHANGED <<listed, asked, turn, cb, started, begun, token, res, deltas, out, kept>>

Callback(k) ==
    \/ CallbackFails(k)
    \/ CallbackPreamble(k)
    \/ CallbackMark(k)
    \/ CallbackStatus(k)
    \/ CallbackDelta(k)

Handler == Deliver \/ DeliverFails \/ DeliverNowhere

Await == AwaitResult \/ AwaitFirstToken \/ FirstTokenTimeout \/ TurnDone

Next ==
    \/ Turn
    \/ Await
    \/ Handler
    \/ Leave
    \/ \E k \in Ranks :
        BeginDelta(k) \/ Callback(k) \/ ProviderReturns(k) \/ TurnTimerFires(k)

Spec == Init /\ [][Next]_vars

\* The turn's goroutine runs, its timers fire.  Writers queue for the sink's
\* mutex and the pipe, which serve them in turn: strong fairness, for a write
\* is enabled only between two reads of the handler.
Fairness ==
    /\ SF_vars(Turn)
    /\ WF_vars(Await)
    /\ \A k \in Ranks : WF_vars(TurnTimerFires(k))

LiveSpec == Spec /\ Fairness

-----------------------------------------------------------------------------
(* Properties *)

\* Where a frame is among those the client received.
Shown(f) == {i \in DOMAIN wire : wire[i] = f}

\* The message of a candidate: its start, as many deltas as were published, and
\* its end.
ShownWhole(k) ==
    \E s, e \in DOMAIN wire :
        /\ s < e
        /\ Shown(<<"start", k>>) = {s} /\ Shown(<<"end", k>>) = {e}
        /\ Shown(<<"delta", k>>) \subseteq s..e
        /\ Cardinality(Shown(<<"delta", k>>)) = deltas[k]

Terminal == {i \in DOMAIN wire : wire[i][1] \in {"end", "error"}}

Settled == pc = "done" /\ conn = "open" /\ hand = NoFrame

\* The answer that was stored is the one on the screen: its message was
\* started once, with every delta and its end, whether the turn's goroutine or
\* a delta callback started it (chat.go:209-228) and whatever late callbacks
\* of other candidates write in between.
StoredIsShown == Settled /\ kept > 0 => ShownWhole(kept)

\* A client that stays is told how its turn ended, exactly once: no failure of
\* a candidate or of a write ends the stream without an epilogue or an error
\* frame (stream.go:283-315), and a stored answer is never followed by one.
ClientTold == Settled => Cardinality(Terminal) = 1

\* A turn ends, and gives its lock back, if the handler moves: the client
\* reads or leaves.  Providers may hang and callbacks may block meanwhile.
TurnEnds == WF_vars(Handler) => <>(pc = "done")

\* upstreams.go:76 and 141-145: the first upstream in configured order that
\* lists a model serves it, and once SetFallbacks has accepted the lists no
\* configured fallback of an advertised model is dropped from its candidates.
RoutedAsConfigured ==
    /\ \A m \in DOMAIN Owner :
        \E i \in DOMAIN Upstreams :
            /\ Owner[m] = Upstreams[i] /\ m \in listed[Upstreams[i]]
            /\ \A j \in 1..(i - 1) : m \notin listed[Upstreams[j]]
    /\ Candidates = <<asked>> \o FallbackModels[asked]

\* stream_failure.go:103-106: a fallback model is tried only if "no
\* client-visible content or tool-capable assistant message has been emitted",
\* so a client never sees the messages of two models in one turn.
OneModelShown ==
    \A i, j \in DOMAIN wire :
        wire[i][1] # "error" /\ wire[j][1] # "error" => wire[i][2] = wire[j][2]

=============================================================================
