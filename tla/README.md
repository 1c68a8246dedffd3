# chatz in TLA+

Specifications, model checks and machine-checked proofs of the chat server in `src/`: a Go
service that keeps durable conversations, streams model answers over SSE, runs tools of MCP
servers, and manages the connections to those servers. The models are written from the code
under `src/internal` and `src/pkg`; `PROJECT.json` maps each definition to the lines it
stands for.

- [The system](#the-system): components, state, interactions, what is hard
- [Modules](#modules): what models what, and how
- [Runs](#runs): what each check asks and answers, bounds, fairness
- [Proofs](#proofs): what holds for every value of the constants, and why
- [Where the code and its texts part](#where-the-code-and-its-texts-part), and other
  configurations
- [Limits](#limits): abstractions, what is only model-checked, what is not modelled
- [Plan](#plan)

To check a module by hand: `tlasany M.tla`; `tlc -config X.cfg M` (the pairs are in the table
of runs); `tlapm M.tla` for the proofs.

## The system

`cmd` starts `pkg/runner`, which runs `internal/app`, which runs the service manager. The one
registered service, the HTTP service, builds everything else (database, chats, auth, upstreams,
MCP manager) and wires the handlers.

| Component | Source | State it keeps | Operations | What makes it correct |
|---|---|---|---|---|
| Turn locks | `core/chats/turn_locks.go` | process-wide map chat -> lock object (token channel, reference count) | `lockChatTurn`, `unlock`, `releaseChatTurnRef` | one turn of a chat at a time; no object leaks or is forgotten early; the token is never lost or doubled; every waiter is served or gives up |
| Chat turns | `core/chats/{chats,stream,turn_checkpoint,delete}.go` | rows of `chats` and `messages`; per turn: resolved model, history, checkpoint, adapter state, pipe | create, open empty, continue (real and fixed response), stream, checkpoint, complete, rename, delete | the lock brackets the turn on every path; a prompt is the current history; answers join the newest message only; a completed turn leaves no incomplete row; every turn ends |
| History | `core/chats/{history,history_selection,history_preview}.go`, `validateToolHistory` | none (reads rows) | load, validate, select under a token budget | a tool call is never kept without its result; the newest exchanges are kept |
| Tool settings of a chat | `core/chats/mcp_tools.go` | a JSON list of disabled tools in the chat row | toggle a server, toggle a tool, the executor of a turn | no toggle is lost; the model is only offered what is enabled |
| MCP manager | `internal/pkg/mcp/manager.go`, `http/server/handler_mcp.go` | per server name: client, status, generation, retry timer; table `mcp_servers` | connect, remove, disable, close; retries; death watchers; create, update, reconnect, delete | sessions have an owner; the status tells of the latest attempt and does not stay "connecting"; failed servers heal |
| Upstream runtime | `internal/pkg/upstreams/runtime.go` | per upstream: slots in use | bounded call: acquire a slot, first-token and turn timeouts, abandon | at most N calls; a slot comes back; a call ends by its deadline |
| Upstream registry | `internal/pkg/upstreams/{upstreams,health}.go` | models per upstream, fallbacks, health | discover, merge, route, `CandidatesFor` | a model routes to an upstream that serves it; fallbacks are servable |
| Agent adapter | `core/chat` | none | run the agent loop over a driver, turn deltas into SSE frames | a stream that started is not started again |
| Service manager | `internal/pkg/service-manager` | services by group, cancel function, stop-once | register, run groups in order, retry, stop in reverse | a group starts after the one before is ready; every started service is stopped; the first failure is reported |
| Application, runner | `internal/app`, `pkg/runner` | lifecycle | run, signal, graceful shutdown, forced exit | shutdown is bounded; cleanup runs once |
| HTTP service and handlers | `services/http-server`, `http/server` | none of its own | decode, authorise, delegate | an admin operation needs an admin |
| Auth | `core/auth`, `http/server/auth.go` | users, sessions | bootstrap, login, passwordless login, authenticate, manage users | one first administrator; a session dies with its user |
| Usage | `usage` | one row per round | record, report | - |
| Readiness | `operations/readiness.go` | none | summary of other components | - |
| Rebound | `pkg/rebound` | none | retry with backoff | attempts and delays within the policy |
| Database | `db`, `db/repositories` | SQLite or Postgres | generated repositories, migrations | - |
| Web client | `src/web` | browser state | - | - |

How they interact. A handler calls `Chats.Create` or `Chats.Continue`, which reads the chat,
takes its **turn lock**, reads it again, writes the message, and hands lock and turn to a
goroutine; the client reads the other end of a pipe. The goroutine asks the **agent adapter**,
which calls the **upstream runtime**; the runtime runs the provider call in yet another
goroutine, whose delta callback writes to the pipe and to the **checkpoint**. When a call times
out the runtime does not wait for it, so its callback may go on while the next candidate model
streams. Tools run through the **MCP manager**'s clients. Admin requests, timers, deaths of
tool servers and shutdown drive the manager at the same time; each of its methods takes its
mutex several times, and a generation number tells late results from current ones.

Hard behaviours, each listed at its line under "hazards" in `PROJECT.json`: the registry of
locks racing with its own clean-up; cancellation racing with the token; error returns before
and after the hand-over of the lock; prompts read long before the answer is written; crashes
between the message and its answer; callbacks of calls nobody waits for any more; several
processes on one database; attempts, retries, removals and deaths that write one status; timers
that race with a first token and with a result; slots of calls nobody waits for; a client that
leaves or stalls in the middle of a frame; a signal in the middle of a start; services that fail
together; a token budget that cuts a conversation, and a turn while it runs.

## Modules

| Module | Models | Kind |
|---|---|---|
| `KeyedMutex` | what a lock per key promises | abstract specification |
| `TurnLocks` | `turn_locks.go`, every locked section and channel operation | detailed; implements `KeyedMutex` |
| `TurnLocksProofs` | theorems about `TurnLocks` | proofs |
| `Transcript` | what a durable conversation promises | abstract specification |
| `ChatTurns` | a turn from handler to last deferred call | detailed; uses `KeyedMutex`, implements `Transcript` |
| `ChatTurnsProofs` | theorems about `ChatTurns` | proofs |
| `MCPManager` | `manager.go` and the admin handlers, for one server | detailed |
| `MCPManagerProofs` | theorems about `MCPManager` | proofs |
| `Lifecycle` | runner, application, service manager and the services' goroutines | detailed |
| `LifecycleProofs` | theorems about `Lifecycle` | proofs |
| `UpstreamRuntime` | `runtime.go`, `health.go`: the limits around one upstream | detailed |
| `UpstreamRuntimeProofs` | theorems about `UpstreamRuntime` | proofs |
| `Registry` | `upstreams.go`: discovery, merging, routing, fallbacks | operators |
| `TurnStream` | a turn's frames: candidates, callbacks, pipe, HTTP handler, client | detailed; extends `Registry` |
| `TurnStreamProofs` | theorems about `TurnStream` and `Registry` | proofs |
| `History` | rows, prompt selection, the agent loop's list, what a turn stores | detailed, mostly operators |
| `HistoryProofs` | theorems about `History` | proofs |
| `Rebound` | one retried call | detailed |
| `ReboundProofs` | theorems about `Rebound` | proofs |
| `MC...` | instances for TLC | model checking |

How they compose: `TurnLocks` implements `KeyedMutex`, which `ChatTurns` uses; `ChatTurns` has the
database and the order of whole turns, `TurnStream` the inside of one turn's streaming, with the
candidates `Registry` gives it, and `UpstreamRuntime` the slots and timers under each of its
calls. `History` is the content of the rows and prompts that are sets of turns in `ChatTurns`.
Discovery at the start of the service retries with `Rebound`; `Lifecycle` starts and stops the
services all of them live in.

The mutants, operators named "Mutant of ..." that no action uses, stand for plausible bugs;
each shows that one property depends on the code.

### TurnLocks

A lock is a heap object, an element of `Locks`; `registry` is `processTurnLocks.locks`, `refs`
and `token` the fields of an object, `mine` the local variable that points to it. `Enter` is
the section under the registry mutex in `lockChatTurn`; it allocates an address nothing refers
to, so an address that was freed is used again, which is what would make an early removal
visible. `TakeToken`, `GiveUp`, `RecheckOk` and `RecheckCanceled` are the `select` (Go picks any
ready case, so the token may win though the context is done) and the check after it; `Unlock`
is the function returned to the caller, behind its `sync.Once`; `DropRef` is
`releaseChatTurnRef`. Putting the token back is modelled as the blocking send it is.

### ChatTurns

`row`, `log`, `answered`, `ckpt` and `by` are durable; the rest belongs to a process and goes
with it. `pc` names the next database call, or where the goroutine is:

| Places | Code |
|---|---|
| `new` -> `lockwait` | `Create` / `Continue` / `continueDemo` up to `lockChatTurn` (`CreateChat`, `ContinueReal`, `ContinueDemo`) |
| `locked`, `switch`, `title`, `history` | `continueRealTurn` under the lock: `Reload`, `Switch`, `SetTitle`, `LoadHistory` |
| `save` | `savePendingUserMessage`, then the lock passes to the goroutine |
| `streaming` | `runStreamCandidates`, or `streamCanned` |
| `flush`, `persist` | `checkpoint.flush`, `persistCompletedTurn` |
| `closing` | the deferred `pw.Close` and `onDone` |

`cb[t][k]` is the delta callback of turn `t`'s `k`-th candidate: `DeltaArrives` is the check in
`runtimeDriver` that the call goes on, `OnDelta` what follows it, `SaveDelta` the upsert of the
checkpoint. Nothing ties a callback to the candidate being run, as nothing in the code does.
`Fallback`, `Fail` and `Finish` end a candidate's call. Everybody else: `Leave` cancels a
request's context and closes its pipe, `OpenEmpty`, `Rename` and `Delete` take no lock, `Crash`
takes a whole process. Every database call may fail (`FailEarly` before the stream; the writes
after it only warn).

`Transcript` has two operations: a message joins the end of its conversation, with the set of
exchanges its model is shown; the newest message, and only it, is answered. That `ChatTurns`
implements it says that locks, rows and transactions together make a conversation.

The lock is taken from `KeyedMutex` by `INSTANCE`, and `TurnLocks` is proved to implement that
module: this is how the two compose. A key is a process and a chat, since the registry is a
variable of the process.

### MCPManager

No step of the manager touches two names, so one name is followed. An attempt is named by the
generation its `ConnectAsync` bumped to: `inner` is its `connectAndStore`, `outer` the goroutine
that races it with the outer deadline, `watcher` its `watchClientDeath`, `session` what it
opened. A method is the list of its locked sections (`ConnectAsync == <<"cancel", "begin",
"connect">>`, and so on), `todo` what a process has left of it; anything may happen between two
sections. `Create`, `Update`, `Reconnect`, `Delete` and `Shutdown` start the handlers; `WriteRow`
is their database call, which may fail. A timer is armed, or over; an armed timer's callback may
start any time. A callback that has started is not stopped by `cancel`, as with
`time.Timer.Stop`.

### UpstreamRuntime

A call has a caller's goroutine (`stage`: queued, in `await`'s select, answered), the goroutine
inside the provider (`worker`), and, once it is given up, one that waits for it (`drain`).
`Acquire` and `LeaveQueue` are the select of `acquire`; `Finish`, `SeeFirstToken`,
`FirstTokenTimeout` and `TurnDone` the cases of `await`, with the re-check of a closed
`firstToken` when its timer has fired; `Abandon` is `timeout`, and `Drain` its goroutine, which
gives the slot back. `FirstTokenTimerFires` and `TurnTimerFires` only make a case ready: which
ready case Go picks is nondeterministic. A caller may `Call` again after a failure, on the same
upstream, as a retry and a fallback do. `health` has the state and the number of failures in a
row.

### Registry and TurnStream

`Registry` is the pure part: `Owner` is what `Merge` has made of the upstreams in configured order
(`Claimed[i]` after the first `i`),
`CandidatesFor` is a model and those of its fallbacks that are routable. `TurnStream` starts from
any discovery the configuration accepts. `pc` is the turn's goroutine in `runStreamCandidates`;
`cb[k]` the provider goroutine of candidate `k`, inside the driver or in one of the writes of its
delta callback; `started[k]` is `adapterState.streamStarted`, set after the preamble was written
(`CallbackPreamble`, then `CallbackMark`). `Write` puts a frame into the handler's hands: the
pipe has no buffer, so every other writer waits until the handler took it to the connection
(`Deliver`). When the connection is gone a write may fail, which closes the pipe, or vanish in a
kernel buffer. `Leave` may happen anywhere.

### History

A message is its turn, role, origin, calls, the call it answers, whether it is empty, and its
size; a row is a message with `turn_complete` and whether its JSON can be decoded. `LoadHistory`,
`ValidateToolHistory`, `HistoryUnits` and `SelectPromptHistory` are the functions of the same
names; `DropOldestUnit`, `Droppable` and `CompactToBudget` those of the agent loop's
`limit.go`, which the service hands its budget to (`WithMaxContextTokens`). The schemas of the
tools count in every round but the last, which offers none (`OfferedTools`). A turn is `Ask`, then
rounds of `Send`, `Reply` and `RunTools`, and `Persist` or `Fail`; `Demo` is a fixed response.
`UpdateSettings` changes the budget at any time. A chat may begin with rows earlier versions
left: calls without results, stored system prompts, a trailing injection, a row that cannot be
decoded. Loops of the code are recursive functions over positions (`Picked` filters, `Total` sums,
`Pending` is the validator's state after each message, the `scan` of `HistoryUnits`, the `sel` of
`SelectPromptHistory`), so that they can be proved about. `HistoryAssumption` has what the model
takes for given: the ids of a reply's calls are distinct and not empty (`drainToolCalls` of the
agent loop, engine.go:442-493, drops the others), and the turn ids in the rows of earlier
versions are not those of new turns.

### Lifecycle

`pc` has the runner, `App.Run` (`app`), `ServiceManager.Run` (`manager`) and the `App.Stop` the
runner calls (`stopper`); `svc[s]` is the goroutine of a service, from launched to over. Groups
are levels of the dependency graph of the selected services (`Placed`, `Group`). Three goroutines
may run `ServiceManager.Stop`: `once` is the `sync.Once` that lets one do the work and makes the
others wait. A `failure` cancels the rest and is reported through the manager's and the
application's error channels, each of one slot, and closed by deferred calls (`closed`).

### Rebound

`cfg` is the validated configuration, `now` the time spent, `report` what the post-attempt handler
is given. `Operate` is the operation, which takes any time, and whose error may carry a server's
delay; `DecideEnd` and `DecideDelay` are `decide`; the timer and the context race in `WaitOver`
and `WaitEnded`. The synchronous handlers take up to `Handling` ticks each: the one after an
attempt between `decide` and the timer (`WaitOver`), the one before an attempt between the check of
the context and the operation (`Begin`). A multiplier is a fraction, so the products are exact.

## Runs

| Run | Module, cfg | Properties | States | Answer |
|---|---|---|---|---|
| `turn_locks` | `MCTurnLocks` | `MutualExclusion`, `RefsExact`, `TokenConserved`, `ImplementsMutex`, `WaiterServed` | 40 thousand | hold |
| `chat_turns` | `MCChatTurns`, `ChatTurns_safety` | `TypeOK`, `LockDiscipline`, `PromptFresh`, `ReopenedModel`, `FirstAnswerReplaces`, `ImplementsTranscript` | 1.4 million | hold |
| `chat_turns_live` | `MCChatTurns`, `ChatTurns_live` | `EveryTurnEnds` | 0.3 million | hold |
| `mcp_manager` | `MCMCPManager`, `MCPManager` | `NoStraySession`, `StatusOfLatest`, `ConnectingSettles` | 0.8 million | hold |
| `upstream_runtime` | `MCUpstreamRuntime`, `UpstreamRuntime` | `TypeOK`, `SlotsExact`, `ProviderBounded`, `HealthCountsOnce`, `SeenTokenSpared`, `HungCallAnswered`, `GoneCallerAnswered`, `QueueMoves` | 87 thousand | hold |
| `turn_stream` | `MCTurnStream`, `TurnStream` | `StoredIsShown`, `ClientTold`, `RoutedAsConfigured`, `TurnEnds` | 0.9 million | hold |
| `history` | `MCHistory`, `History` | `SentIsPaired`, `HistoryIsWhole`, `SelectionIsLongest` | 0.2 million | hold |
| `lifecycle` | `MCLifecycle`, `Lifecycle_run` | `NoSendOnClosed`, `FirstFailureWins`, `EveryServiceStopped`, `HooksComeLast`, `StartOrder`, `StopOrder`, `FailureEnds` | 0.3 million | hold |
| `rebound` | `MCRebound`, `Rebound` | `WaitIsBackoff`, `NoLateAttempt`, `AnswerIsTrue` | 28 thousand | hold |
| `demo_turn` | `MCChatTurns`, `ChatTurns_demo` | `DemoKeepsModel` | | violated |
| `stop_during_start` | `MCLifecycle`, `Lifecycle_early` | `EveryServiceStopped` | | violated |
| `compaction` | `MCHistory`, `History_compaction` | `ShownIsStored` | | violated |

`TypeOK` is a type invariant. Those of `TurnLocks`, `MCPManager`, `Lifecycle` and `TurnStream` are
not in the list of a run: they hold in the configurations of their rows when added to them.

**`turn_locks`** shows the registry to be a mutual exclusion lock per chat under every
interleaving of registration, cancellation and clean-up, that it leaks no object and loses no
token, and that it serves every waiter. Three goroutines on two chats: two contend while a third
enters, leaves or uses the other chat, so an object can be dropped by one, waited on by another
and looked up by the third; three addresses, so an allocation always finds one and reuses freed
ones. Deadlock is checked. The safety part is also proved for any numbers.

**`chat_turns`** has two requests on one chat, two models, a fallback from one to the other,
fixed responses, one delta per turn: enough for each early return to meet each place of another
turn, for a late callback to meet the next candidate, for a switch of model to meet a waiting
turn. `LockDiscipline` ties the lock to the place of every turn. `PromptFresh` and
`ImplementsTranscript` are about what turns in between may do to a prompt and to the transcript.
`ReopenedModel`, at every moment: the chat row names the model of the newest answer, or one that a
request which no answer followed asked for (the switch is written before the answer, and is kept
when the turn fails). Where the newest answer is a continuation's fixed response nothing is
claimed: such a turn writes the model it read before it waited for the lock, which `demo_turn`
shows. `FirstAnswerReplaces`: a turn its first candidate answered keeps no incomplete row,
whatever its saves and its flush raced with. After a fallback the callback of the call given up
may leave one, and `CheckpointReplaced` is the property without that restriction
(`ChatTurns_fallback.cfg`).

Two requests on one chat are enough for a turn to go stale, since a third adds only another of
the same kind between them; `ChatTurns_conversation.cfg`, to be run by hand, checks `PromptFresh`
and `ImplementsTranscript` with three requests and no deltas (0.4 million states, both hold), and
the theorems have any number.

**`chat_turns_live`** adds fairness and a second delta, and has no symmetry: every request ends,
whatever fails, leaves or dies.

**`mcp_manager`** has the service's start and one request, three generations, two attempts. The
interesting cases need that many: an attempt at the start superseded by an update (removal and
connection bump twice), a retry racing a reconnection, a given-up attempt that ends late, a
removal under a dial, a death reported after a newer attempt. `NoStraySession`: an open session
is that of the registered client or is about to be stored. `StatusOfLatest`: with no method under
way, the status belongs to the latest generation and agrees with what that attempt did.
`ConnectingSettles` is liveness; it is untimed, and takes the `Close` that is called under the
manager's mutex to return. The three safety invariants were also checked with two requests,
three and four generations (3.3 and 6.7 million states), which found nothing further.

**`upstream_runtime`** has two turns on an upstream with one slot, the first with two calls: the
second call may queue behind the first, abandoned one, and behind the other turn's. The slots
taken are those of calls in `await` or abandoned (`SlotsExact`), so no path out of a call leaks or
returns one twice; `ProviderBounded` counts the goroutines inside the provider, the abandoned ones
included. `SeenTokenSpared` is the race of token and timer. `HungCallAnswered` asks nothing of the
provider. `QueueMoves` asks that providers return once cancelled, and is false otherwise: the
limit is kept by letting calls that hang keep their slots. The safety part is also proved.

**`turn_stream`** has one turn, two upstreams, a model with a fallback, five outcomes of the
discovery and one delta per call. One delta is enough for each write of a callback to be its
call's first or last, and two candidates for a late callback to meet the next one's frames.
`StoredIsShown` compares the whole message of the model that answered with what the client
received; `ClientTold` counts terminal frames; `RoutedAsConfigured` is about the registry, in
every accepted discovery; `TurnEnds` assumes only that the handler moves.

**`history`** has two turns of up to three rounds, two calls in parallel or none, results of one
or three tokens, budgets of 6 and 12 against a system prompt and tool schemas of one token
each: the smaller budget cuts the history, the exchanges of the turn itself, or cannot be met at
all. Three tables to begin with: an empty one and two with what earlier versions left.
`SelectionIsLongest` is the reference definition of the selection; it says nothing of units,
scans or counts. `HistoryIsWhole` relates three functions that must agree (what is stored, what
is skipped, what is validated). `SentIsPaired` holds before every call of the provider.

**`lifecycle`** has three services, two graphs (one service that needs the two others, and a
cycle), any selection of the enabled sets, one service that notifies readiness and is retried
once, one whose failure is tolerated. Signals come once the groups are being started (`EarlyStop =
FALSE`), so this run says nothing of a `Stop` before `Run`; `stop_during_start` does. `StartOrder`
is stated of the time when nothing is being stopped: once a stop is under way, groups may still be
launched. `StopOrder` counts a service's `Stop` as over when its deadline has passed, though the
call may go on. `FailureEnds` is liveness: a reported failure ends the process though nothing
makes the other services fail, become ready or end.

**`rebound`** has six configurations: the default shape, a growth that overshoots its cap with
jitter, a constant delay at the cap, delays that shrink from below and from the cap, and a single
attempt. Operations take 0, 1 or 4 ticks, handlers up to one, servers ask for 2, 9 or nothing,
timers are late by a tick. `NoLateAttempt` is weaker than pkg/rebound/README.md:209, "Caps all time
spent in the call, including work and waits": what begins within the budget may outlast it, unless
the operation obeys its context. `WaitIsBackoff` compares the loop of `exponentialDelay` with the
closed formula, for multipliers above, at and below one (a first delay at the maximum stays
there). The formula has `Power` instead of the operator `^`, about which the provers know
nothing; `MCRebound` has TLC compare the two.

Bounds are constants, named in the CONSTANTS of each module: `Attempts` and `MaxDeltas` in
`ChatTurns`, `MaxGen` and `MaxAttempts` in `MCPManager`, `MaxCalls` in `UpstreamRuntime`,
`MaxDeltas` in `TurnStream`, `MaxTurns` in `History`; each sits in one guard. `MaxRounds` of
`History` and the attempts of a `Rebound` configuration are limits of the code. `Attempts` and the
`MaxCandidates` of `TurnStream` are not restrictions of behaviour, as the assumptions require
every list of fallbacks to fit. Requests are served once each, so a finite instance stops when
they are over: those configurations say `CHECK_DEADLOCK FALSE`; so do the MCP manager, which may
have nothing left to do, and a turn, a retried call, a process or an upstream that are done.

Symmetry is used in `chat_turns`: all requests are for one chat in one process, no property or
constant tells them apart, and the run has no liveness property.

### Fairness

- Goroutines run: weak fairness for each of a turn's database calls, for `RecheckOk`, `Unlock`,
  `DropRef`, and for the callbacks. A database call returns or fails: the writes that outlive a
  request have a timeout of ten seconds, the others end with the request's context.
- A channel serves its blocked receivers in arrival order, so a waiter is not overtaken for
  ever: strong fairness for `TakeToken` and `Acquire`, which are disabled and enabled again.
- `TurnTimeout` ends an upstream call whatever the provider does: weak fairness for the choice
  among `Fallback`, `Fail`, `Finish` (and `StreamCanned`), none for any one of them.
- The client reads its stream or leaves. Nothing makes it leave.
- MCP: requests and callbacks go on, and the `select` of an attempt is left at the outer deadline
  at the latest. Weak fairness of "some process proceeds" and "some attempt is settled" is
  enough, as neither can go on for ever. A dial need not return, a server need not die, a timer
  need not expire.
- Upstream runtime: the timers fire and the wrapper's goroutines run. The provider is asked for
  nothing, except in `QueueMoves`.
- Turn stream: the turn's goroutine and its selects run, with strong fairness where it writes: a
  write is enabled between two reads of the handler only, and the sink's mutex and the pipe serve
  writers in turn. `TurnEnds` has the handler's progress as its hypothesis (the client reads or
  leaves), so a client that does neither is visibly the only way a turn may last.
- Lifecycle: the goroutines run; a service returns from `Run` when its context is cancelled, as
  docs/services-and-lifecycle.md:25 demands of it, and from `Stop`. The deadline of the shutdown
  need not pass, nor a service become ready.
- No fairness for crashes, failures, departures, signals or requests.

## Proofs

TLAPS checks eight modules of proofs, for any sets of goroutines, chats, addresses, requests,
processes, models, upstreams and services, any lists of fallbacks and dependency graphs, any
tables of rows, budgets and sizes of messages, and any numbers of slots, calls, generations,
attempts, deltas, retries, turns and rounds.

| Module | Theorem | States |
|---|---|---|
| `TurnLocksProofs` | `Inductive` | `Spec => []IInv`, the inductive invariant of `TurnLocks` |
| | `ExclusiveTurns` | `Spec => []MutualExclusion` |
| | `ExactReferences` | `Spec => []RefsExact` |
| | `OneToken` | `Spec => []TokenConserved` |
| | `RegistryImplementsMutex` | `Spec => ImplementsMutex`: `TurnLocks` implements `KeyedMutex` |
| `ChatTurnsProofs` | `Types` | `Spec => []TypeOK` |
| | `TurnsHoldLocks` | `Spec => []LockDiscipline` |
| | `PromptsStayFresh` | `OneProcess /\ Spec => []PromptFresh` |
| | `KeepsTranscript` | `OneProcess /\ Spec => ImplementsTranscript` |
| | `ChatsReopenOnTheirModel` | `OneProcess /\ Spec => []ReopenedModel` |
| | `FirstAnswersReplaceCheckpoints` | `Spec => []FirstAnswerReplaces` |
| | `CheckpointsAreReplaced` | `OneCandidate /\ Spec => []CheckpointReplaced` |
| `UpstreamRuntimeProofs` | `TypeCorrect` | `Spec => []TypeOK` |
| | `SlotsAreExact` | `Spec => []SlotsExact` |
| | `ProvidersAreBounded` | `Spec => []ProviderBounded` |
| | `HealthIsCountedOnce` | `Spec => []HealthCountsOnce` |
| | `SeenTokensAreSpared` | `Spec => SeenTokenSpared` |
| `TurnStreamProofs` | `TypeCorrect` | `Spec => []TypeOK` |
| | `RoutesAreConfigured` | `Spec => []RoutedAsConfigured` |
| | `ClientsAreTold` | `Spec => []ClientTold` |
| | `StoredAnswersAreShown` | `Spec => []StoredIsShown` |
| `MCPManagerProofs` | `TypeCorrect` | `Spec => []TypeOK` |
| | `SessionsHaveOwners` | `Spec => []NoStraySession` |
| | `StatusIsLatest` | `Spec => []StatusOfLatest` |
| `LifecycleProofs` | `TypeCorrect` | `Spec => []TypeOK` |
| | `ChannelsClosedLast` | `Spec => []NoSendOnClosed` |
| | `FirstFailureIsReported` | `Spec => []FirstFailureWins` |
| | `ServicesStartInOrder` | `Spec => StartOrder` |
| | `ServicesStopInOrder` | `Spec => StopOrder` |
| | `HooksAfterServices` | `~EarlyStop => (Spec => []HooksComeLast)` |
| | `ServicesAreStopped` | `~EarlyStop => (Spec => []EveryServiceStopped)` |
| `HistoryProofs` | `TypeCorrect` | `Spec => []TypeOK` |
| | `PromptIsLongestEnd` | `Spec => []SelectionIsLongest` |
| | `ProviderIsSentPairs` | `Spec => []SentIsPaired` |
| | `CompletedTurnsAreReadBack` | `Spec => []HistoryIsWhole` |
| `ReboundProofs` | `WaitsFit` | `Spec => []WaitFits` |
| | `AttemptsAreInTime` | `Spec => []NoLateAttempt` |
| | `AnswersAreTrue` | `Spec => []AnswerIsTrue` |
| | `WaitsAreBackoff` | `Spec => []WaitIsBackoff` |

Assumptions. `TurnLocksAssumption`: the null values are no chat and no address, and the callers
are finitely many (the reference count is compared with a cardinality). `ChatTurnsAssumption`: the
constants have their types, fallbacks are servable models (what `SetFallbacks` accepts), and
`Attempts` exceeds the length of every list of them. `RuntimeAssumption`: callers are finitely
many, and there is at least one slot (`RuntimeLimits.Validate`). `RegistryAssumption` and
`StreamAssumption`: lists are sequences, and every list of fallbacks fits the candidates' numbers.
`LifecycleAssumption`: finitely many services, whose names are not those of failures of the
manager. `MCPManagerAssumption`: requests, timers and the start are told apart.
`ReboundAssumption`: configurations are what `validateConfig` accepts, among others a first delay
of at most the maximum. `HistoryAssumption`: the constants have their types, the calls of a reply
are distinct, and rows of earlier versions are of other turns. TLC evaluates them on every run.

Three theorems have hypotheses, and each hypothesis excludes a behaviour a configuration shows.
- `OneProcess`: all requests are served by one process. With two, two turns of a chat run at
  once (`ChatTurns_replicas.cfg`) and a prompt goes stale.
- `OneCandidate`: no model has a fallback. With one, the callback of a given-up call may save an
  incomplete row after the turn was completed (`ChatTurns_fallback.cfg`).
  `FirstAnswersReplaceCheckpoints` has no hypothesis and says that this is the only way: a turn
  its first candidate answered keeps no incomplete row.
- `~EarlyStop`: no signal before the groups of services are known. With one, services are
  launched that nobody stops (the finding `stop_during_start`).

**TurnLocks.** Mutual exclusion is not inductive: two goroutines with two objects for one chat
would each own one. `IInv` adds that the object of every caller that is not idle is the one
registered for its chat, that different chats have different objects, that the count of an
object is the number of its referrers, that a registered object has a referrer, and that its
token is in the channel exactly when no referrer owns it. Then two owners of a chat share its
object, and share its one token. The step that needs care is `DropRef`: the chat is forgotten
when the count is one, and a lemma on cardinalities (`LastReferrer`) turns that into "nobody
else refers to it". The refinement maps `holding` to the chat of whoever has taken the token;
taking it is `Acquire`, putting it back `Release`, all else stutters.

**ChatTurns.** `IInv` has three layers.
1. `LocalInv`: `TypeOK`, `LockDiscipline` and `ModelInv`. `TypeOK` is not inductive by itself:
   the model recorded by `Persist` is the `attempt`-th candidate, so attempts must stay within
   the candidates, which are those of a servable model from `Reload` on.
2. `LogInv`: the log of a chat holds only turns of that chat that were stored, a turn that streams
   is the last one in it, and only a turn at its end has an answer. By `LockDiscipline` and
   `OneProcess` no other turn of the chat is in its critical section, so nobody appends behind
   it (`OneTurnAtATime`).
3. `PromptInv`: from `LoadHistory` to `Persist`, the prompt of a real turn is the set of answered
   turns of its chat. Only `Persist` changes that set, and only one turn of a chat can be there.

Most steps leave the variables of layers 2 and 3 alone (`QuietSteps`); the three that matter have
a lemma each (`LoadPreserves`, `SavePreserves`, `PersistPreserves`). The refinement follows:
`SavePending` is `Submit`, the successful `Persist` is `Answer`, and every other step, crashes
included, stutters.

Two more invariants stand on these. `CheckpointInv`: a callback at work belongs to a candidate
that was started, and that of the candidate the turn ended with has returned before the flush.
With one attempt there is no other, so nobody saves an incomplete row after the transaction
removed it. `ShownInv` follows the model in the chat's row
through a turn: it is the model of the newest answer or of an `Unfollowed` request, one that has
created or read the chat and that no answer followed. Before the switch that is as the last turn
left it, from the switch on the witness is the turn itself, whose prompt is the history as it
still is (`PromptInv`), and after `Persist` the row has the model that answered. An answer ends the
witness of every request before it, and overwrites the model they asked for in the same
transaction.

**UpstreamRuntime.** `IInv` adds `Life`, how the three goroutines of a call stand to each other (a
provider goroutine that runs belongs to a call in `await` or to an abandoned one; a result means
it has ended; a seen token, that the timer is off), and `Fresh` (calls not made yet are new).
`SlotsExact` is preserved because every step moves at most one call in or out of `Holding` and the
counter with it, a lemma about cardinalities of sets that differ by one element; with it `Running`
is a subset of `Holding`, whose cardinality `TypeOK` bounds by the capacity: `ProviderBounded`.

**TurnStream.** `RoutedAsConfigured` is a fact about `Registry`: that after `i` upstreams each
claimed model belongs to the first of them that lists it (`FirstClaims`), and that a filter that
drops nothing keeps its list (`AllKept`); no step changes what it talks about. `LocalInv` has the
turn's place against the goroutines of its calls: a callback is in flight only where the stream of
its call has, or has not, been started, and a candidate that answered has a provider goroutine
that has ended. The frames are then counted in `Sent`, what the client received and the frame in
the handler's hands: while the connection stands nothing is lost between them. `FramesInv` says
that each candidate's start is there once if and only if `streamStarted` is set or about to be
(`mark`), and before its deltas, of which there are as many as were published; and that there is
no terminal frame before the turn's last places and one from then on, behind everything of the
candidate that answered. A callback that still writes afterwards belongs to another candidate.
`streamStarted` alone is not enough: between the frame and the flag the two disagree.

**MCPManager.** `NoStraySession` is not inductive because nothing in it says that the client an
attempt is about to store is still its own. `Captures`: a generation captured by a running
`ConnectAsync` is that process's alone, at most the current one, and nothing was started for it.
`Life`: where the connection, the goroutine around it and the watcher of one attempt can be at
once. `Registered`: the registered client is one that was stored. `Scripts`: what a process has
left to do is the rest of a method, so a section that bumps the generation is always followed by
the one that writes the status. `Accounted` is the invariant behind `StatusOfLatest`: the status
fits the attempt the generation names, or some process still owes the write. `TimersSuffice`
bounds the timers of an attempt by two, because only one side of the race between an attempt and
its deadline gets to report, and the watcher may report after it.

**Lifecycle.** `BaseInv` says where the goroutines can be together: who starts whom, that services
exist only between the start of the first group and the manager's drain, and that a channel is
closed after its last sender is over (`NoSendOnClosed` is its consequence). `FailureTravels`
follows a failure through the two channels of one slot. For the orders, `StartsFit` and `StopsFit`
tie the launched and the stopped services to the group being started or stopped; that a dependency
lies in an earlier group is a fact about `Placed`, proved from its recursion for every graph whose
selected services are acyclic (and a cycle starts nothing). `OncesFit` says what the two
`sync.Once` mean: whoever is past one knows that its work is done. `StopsLate` is where
`~EarlyStop` is used.

**Rebound.** `IInv` has the attempts begun and reported (`Counted`), the time spent against the
budget at each place of the loop (`Budgeted`) and what an answer says (`Answered`); `Drawn` keeps
a wait within its jitter. `WaitIsBackoff` needs that the loop of `exponentialDelay`, which stops
at the maximum, equals the closed form with a power and a minimum. For a first delay below the
maximum it is by induction on the retry that the loop's fraction is the exact product, until both
reach the maximum; above one they stay there, at one and below they never come to it
(`StepsFollow`, `ExponentialDelayIsPower`). A first delay at the maximum is not multiplied at all
(`FullDelayStays`), which is where the closed form of a multiplier below one would part.

**History.** Most of the work is about lists of messages. `Sound` is `Paired` and that only the
assistant calls tools; it is closed under concatenation, under cutting at any message that is not
a result (`SoundSuffix`, `SoundPrefix`), and under picking whole exchanges (`SoundPick`). What
`loadHistory` returns is sound whatever the table holds, because the validator accepts nothing
else (`ValidIsSound`, `HistoryIsReplayable`). From there:

- `PromptIsLongestEnd`: `HistoryUnits` cuts a sound list exactly at its cuts (`UnitsAre`), so the
  selection, unit by unit, ends at the first cut from which everything fits (`SelectionIs`). The
  invariant is `Selected`: the prompt under way is what would be selected from the rows as they
  are now, as a turn adds only incomplete rows to them until it ends.
- `ProviderIsSentPairs`: the invariant `Looped` says of the loop's list that it `Keeps` the system
  prompt, the question and the latest exchange at its end, and that what the turn added is
  `Owned`: its own exchanges are whole. `DropKeeps` is the step that matters: the oldest droppable
  message is never a result, its unit ends where its results end, and neither the question nor the
  live exchange is in it. While tools run, the list waits with unanswered calls at its end
  (`Waits`), which the results then complete.
- `CompletedTurnsAreReadBack`: `Kept` says that a chat remembers (what is loaded of the turns the
  service ran is what is stored of them), and that the rows of a turn under way are those before
  it, its question, and at most one checkpoint. What a turn stores is a choice of whole exchanges
  from a list that is `Owned`, so it is sound again, and a sound list whose calls are distinct is
  accepted by the validator (`SoundIsValid`, the converse of `ValidIsSound`): the loader cannot
  reject what the service stored. `GroupsOfTurn` and `LoadTurn` add the turn at the end of the
  history. It needs `Looped`, since the compaction of the list while the turn ran decides what
  there is to store.

Induction. The induction theorems of the library take an operator as a parameter, which the
provers cannot be given. Where an induction over a number is needed (`Placed`, `Claimed`, the
filter of `CandidatesFor`, `Power`, the loop of `ExponentialDelay`, the operators of `History`) the proofs take the least
counterexample instead: `LeastNumber`, from the well-foundedness of `<`. Two things follow for the
models: what is proved about is written as a recursive function and not with a fold, and that such
a function satisfies its equation is proved by exhibiting one (`StepsExist`, `ClaimTableExists`,
`TableExists`).
Some properties are written for the same reason with sets of positions rather than `SelectSeq`
(`LastAnswered` in `ChatTurns`; `Shown`, `ShownWhole` and `Terminal` in `TurnStream`; all of
`History`).

Only model-checked: liveness (`WaiterServed`, `EveryTurnEnds`, `ConnectingSettles`, `TurnEnds`,
`FailureEnds`, `HungCallAnswered`, `GoneCallerAnswered`, `QueueMoves`), which is out of the
prover's reach. Every safety property and every step property of every run that holds is proved.

## Where the code and its texts part

Three runs show the code doing what a comment or a document of the repository says it does not;
`PROJECT.json` quotes both sides under "findings".

1. `stop_during_start`: a signal while the services are still being constructed, which includes
   the discovery of models over the network. Both callers of `Stop` find no group and use up the
   `sync.Once`; the manager then launches the groups without asking its context. The services see
   a cancelled context and end, but no `Stop` is called for any of them.
2. `compaction`: the loop's limit drops earlier tool exchanges of the running turn from the list
   the turn is stored from, after the client was shown them.
3. `demo_turn`: a fixed-response turn writes back the model of the chat it read before it waited
   for the lock, and undoes the switch of the turn it waited for (stream.go:1024); chats.go:215
   says demo turns "never change the chat's model".

Other configurations, each with one property that is violated, to be run by hand:

| Cfg | Module | Property | What it shows |
|---|---|---|---|
| `ChatTurns_title` | `MCChatTurns` | `AutoTitleSparesNames` | automatic titling overwrites a rename between its read and its update (chats.go:478) |
| `ChatTurns_fallback` | `MCChatTurns` | `CheckpointReplaced` | the callback of a call given up on a timeout saves an incomplete row after a fallback completed the turn (turn_checkpoint.go:135) |
| `ChatTurns_replicas` | `MCChatTurns` | `OneTurnPerChat` | the lock is of one process, and README.md:140 proposes several on one database |
| `MCPManager_death` | `MCMCPManager` | `DeathIsShown` | the watcher starts before the attempt's result is recorded: a session that is dead by then ends as "connected" (manager.go:385) |
| `MCPManager_disable` | `MCMCPManager` | `DisabledHasNoTools` | an attempt under way when its server is disabled stores its client afterwards (manager.go:382) |
| `MCPManager_retry` | `MCMCPManager` | `FailedRetries` | the schedule of an older attempt replaces that of a newer one and is discarded as stale (manager.go:640) |
| `TurnStream_fallback` | `MCTurnStream` | `OneModelShown` | a call's first delta arrives as its first-token timer fires; it is given up before its callback has started the stream, the fallback starts its own, and the client gets two messages in one turn (stream.go:174; stream_failure.go:103 excludes it) |
| `History_preview` | `MCHistory` | `PreviewIsSent` | the loop also counts the tool schemas, and may drop what the selection kept; core/chats/README.md:73 says the preview describes "the prompt the next stream will actually receive" |
| `Rebound_shrink` | `MCRebound` | `DelaysShrink` | a first delay at the maximum is never multiplied, though options.go:33 lets a multiplier below one "deliberately decrease subsequent retry delays" |
| `Rebound_report` | `MCRebound` | `ReportedDelayIsWaited` | the attempt that runs out of time is reported with the delay that did not fit; attempt.go:5 says the delay is non-zero "only when Rebound will make another attempt" |

The runs that pass are stated around these: `ReopenedModel` claims nothing where a continuation's
fixed response answered last, `FirstAnswerReplaces` nothing of a turn that fell back,
`StatusOfLatest` asks whether "connected" was that attempt's result, not whether its session is
still alive; `lifecycle` starts its signals with the groups, `StoredIsShown` is about the frames of
the candidate that answered, and `WaitIsBackoff` has a first delay at the maximum stay there.

## Limits

Abstractions, and why they are sound for these properties:
- One database call, or one transaction, is one step. The checkpoint's upsert
  (turn_checkpoint.go:108-149) reads and writes in one step though the code uses two calls, which
  nothing synchronises. The saves of one candidate follow each other, since its driver calls its
  callbacks in turn, and a completion between the two calls has the outcome of one before them:
  `Save` of a row that is gone inserts it again, as `Create` does when none is found. After a
  fallback two callbacks may be in the upsert at once and leave two incomplete rows where the model
  has one; no property that holds depends on it, as those say nothing of the rows of a turn that
  fell back.
- A prompt is the set of turns whose rows it holds; an assistant's text is the number of its
  deltas. Selection under the token budget and validation of tool rows, which come after
  `loadHistory`, are in `History`. A title is untitled, automatic or renamed.
- Every request comes from the owner of its chat; the owner of a row never changes.
- The rounds of an answer (model, tool, model) are one call in `ChatTurns` and `TurnStream`; they
  are told apart in `History`.
- In `ChatTurns` a client that neither reads nor leaves is excluded by the fairness assumption; in
  `TurnStream` it is the negation of `TurnEnds`'s hypothesis. In the code it blocks the goroutine
  of a real turn in a pipe write, with its lock, until the server closes the connection.
- A crash loses what is not in the database and nothing that is.
- MCP: time is left out, so a timer may expire and a deadline pass at any moment. The watcher's
  two reads and its write are one step: whoever closes the client in between has bumped the
  generation, or could as well have come after. Tool lists are not kept: a failing `ListTools`
  only warns. A listing that succeeds or fails is followed by the same step.

- UpstreamRuntime: one upstream; the class of an error is left out, and so are the durations that
  health records. The two callbacks of a call that could overlap do not, the driver calls them in
  turn.
- TurnStream: one turn, one round per call. The retries of a driver within a candidate's call
  (`WithRetry`) are left out: neither a timeout nor an attempt that has streamed is retried, so the
  frames are those of one attempt. Status frames are written like others and forgotten
  by the client. The heartbeat of a tool call, which also writes to the publisher, is left out.
- History: a token count is a sum of sizes where the code counts an encoded prompt; what the
  properties use of it is that it grows with the list. Tool calls have distinct ids within a
  message, which the agent loop sees to. A provider call is one step, and the limit is met before
  each. Repair of transcripts is left out: `SentIsPaired` holds without it, and repair leaves such
  a list alone.
- Lifecycle: construction of the services is one step, which fails or succeeds; what they do
  between launch and end is nothing. A cancellation of the runner's own context acts as a signal.
- Rebound: the clock is read once where `decide` reads it twice in a row; rounding is to ticks; a
  handler between an attempt that ends the call and its answer only delays the answer.

Noticed and not modelled: a failure-triggered shutdown has no deadline, as only the runner's
signal path starts one; a panic in a delta callback is on the runtime's goroutine
(runtime.go:146), not under the recover of the turn (stream.go:104); a stalled client lets the
turn timer fire and counts against its upstream's health; `Stop` of the HTTP service closes the
database while `Serve` may still drain; two toggles of one chat's tools at once, and two first
administrators at once, are read-modify-writes without a lock.

Not modelled, in `PROJECT.json` under "components": the generated API, repositories and
migrations (their transactions are the atomic steps above), the web client (another process; the
service is modelled against any behaviour of its clients), usage and readiness (no state others
depend on), configuration, logging, metrics, secrets and embedded assets (no behaviour of
interest), the heartbeat (it logs while a call is under way), the tool settings of a chat and
authentication (single-row reads and writes, whose races are listed as hazards), `cmd` and the
decoding of requests. A rename of an MCP server, which is a removal of one name and a connection
of another, and the manager's synchronous `Add`, which only tests call, are left out of
`MCPManager`. Most of the lines the map does not cover are of these: the generated client,
server interface and repositories alone are half of the Go code, and the scripted fixed
responses, metrics and configuration most of the rest.

## Plan

What is left, in this order.

1. **Refinement**: `TurnStream` implements the choice among `Fallback`, `Fail` and `Finish` that
   `ChatTurns` makes of a candidate's call, and `UpstreamRuntime` the timers of `TurnStream`.
2. **Tool calls in `TurnStream`**: rounds, tool frames and the heartbeat on the same publisher.
3. **`MCPManager`**: a rename, which is a removal of one name and a connection of another.

`KeyedMutex` and `Transcript` stay the interfaces between modules: what uses a lock or a
conversation is written against them.
