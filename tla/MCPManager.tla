----------------------------- MODULE MCPManager -----------------------------
(***************************************************************************)
(* The connections to MCP tool servers (internal/pkg/mcp/manager.go) and   *)
(* the admin handlers that drive them                                      *)
(* (internal/pkg/http/server/handler_mcp.go).                              *)
(*                                                                         *)
(* The manager keeps, under each server name, a client, a status, a        *)
(* generation and a retry timer, and no step of it touches two names, so   *)
(* the module follows one.  Every ConnectAsync starts an attempt that bears*)
(* the generation it bumped to; its goroutines, the session it opens, the  *)
(* death watcher and the retries it schedules are named by that            *)
(* generation.  Only the generation guards what they write: each locked    *)
(* section of the manager is one step, and anything may come between two.  *)
(***************************************************************************)
EXTENDS Naturals, Sequences, FiniteSets

CONSTANTS Requests,     \* admin requests
          Boot,         \* the service's start
          MaxGen,       \* bound: generations are 1..MaxGen
          MaxAttempts   \* bound: generations an attempt is made for

ASSUME MCPManagerAssumption ==
    /\ MaxGen \in Nat /\ MaxAttempts \in Nat
    /\ Requests \cap (Nat \X Nat) = {}
    /\ Boot \notin Requests \cup (Nat \X Nat)

Gens == 1..MaxGen

\* An attempt fails or dies at most twice: it is given up and fails late, or
\* it is given up, succeeds late and dies.
Timers == Gens \X {1, 2}

\* Whoever runs the manager's methods: the service's start, a request, or the
\* callback of a timer.
Procs == {Boot} \cup Requests \cup Timers

NoClient == 0
NoTimer == <<0, 0>>

VARIABLES
    row,      \* the server's configuration row
    gen,      \* generations[name]
    status,   \* statuses[name].State, "none" when there is no entry
    client,   \* clients[name]: the generation of its attempt, or NoClient
    retries,  \* retries[name], or NoTimer
    timer,    \* timer -> what became of it
    todo,     \* process -> the steps it still has to take
    mine,     \* process -> the generation its ConnectAsync captured
    arrived,  \* requests that were made
    inner,    \* attempt -> its connectAndStore
    outer,    \* attempt -> the goroutine that races it with the deadline
    watcher,  \* attempt -> watchClientDeath
    session,  \* attempt -> the session it opened
    closed    \* Close ran

manager == <<gen, status, client, retries>>
attempts == <<inner, outer, watcher, session>>
vars == <<row, manager, timer, todo, mine, arrived, attempts, closed>>

\* Steps of the manager's methods and of the handlers around them.
ConnectAsync == <<"cancel", "begin", "connect">>
Remove == <<"bump", "cancel", "drop">>
Disable == <<"bump", "cancel", "disable">>
CloseAll == <<"stop", "closeall">>

Steps == {"cancel", "begin", "connect", "bump", "drop", "disable", "stop",
          "closeall", "erase", "enable", "switchoff", "forget", "check"}

TypeOK ==
    /\ row \in {"absent", "enabled", "disabled"}
    /\ gen \in 0..MaxGen
    /\ status \in {"none", "connecting", "connected", "failed", "disabled"}
    /\ client \in Gens \cup {NoClient}
    /\ retries \in Timers \cup {NoTimer}
    /\ timer \in [Timers -> {"none", "armed", "over"}]
    /\ todo \in [Procs -> Seq(Steps)]
    /\ mine \in [Procs -> 0..MaxGen]
    /\ arrived \subseteq Requests
    /\ inner \in [Gens -> {"none", "dialing", "listing", "stored", "failed"}]
    /\ outer \in [Gens -> {"none", "racing", "forced", "late", "failed", "done"}]
    /\ watcher \in [Gens -> {"none", "waiting", "failed", "done"}]
    /\ session \in [Gens -> {"none", "open", "dead", "closed"}]
    /\ closed \in BOOLEAN

\* The process starts on whatever its database holds, and connectMCPServers
\* connects the enabled rows.
Init ==
    /\ row \in {"absent", "enabled", "disabled"}
    /\ gen = 0 /\ status = "none" /\ client = NoClient /\ retries = NoTimer
    /\ timer = [x \in Timers |-> "none"]
    /\ todo = [p \in Procs |-> IF p = Boot /\ row = "enabled"
                               THEN ConnectAsync ELSE <<>>]
    /\ mine = [p \in Procs |-> 0]
    /\ arrived = {}
    /\ inner = [g \in Gens |-> "none"]
    /\ outer = [g \in Gens |-> "none"]
    /\ watcher = [g \in Gens |-> "none"]
    /\ session = [g \in Gens |-> "none"]
    /\ closed = FALSE

-----------------------------------------------------------------------------
(* Requests.                                                               *)

\* The listener starts when connectMCPServers has returned.
Arrive(r, steps) ==
    /\ r \notin arrived /\ todo[Boot] = <<>>
    /\ arrived' = arrived \cup {r}
    /\ todo' = [todo EXCEPT ![r] = steps]
    /\ UNCHANGED <<manager, timer, mine, attempts, closed>>

\* CreateMCPServer, or one entry of ImportMCP.  The index on names refuses a
\* second row.
Create(r) == /\ row = "absent" /\ row' = "enabled"
             /\ Arrive(r, ConnectAsync)

\* ReconnectMCPServer, which does not look at Enabled.
Reconnect(r) == /\ row # "absent" /\ UNCHANGED row
                /\ Arrive(r, ConnectAsync)

\* DeleteMCPServer, past its Get.
Delete(r) == /\ row # "absent" /\ UNCHANGED row
             /\ Arrive(r, <<"erase">> \o Remove)

\* UpdateMCPServer, past its Get: Save, then rewireMCP.
Update(r) == /\ row # "absent" /\ UNCHANGED row
             /\ \/ Arrive(r, <<"enable">> \o Remove \o ConnectAsync)
                \/ Arrive(r, <<"switchoff">> \o Remove \o Disable)

\* The HTTP service stops.
Shutdown(r) == /\ ~closed /\ UNCHANGED row
               /\ Arrive(r, CloseAll)

\* The database calls of Delete and Save.  Save writes the row back even if it
\* was deleted since the Get; an error ends the request.
WriteRow(p) ==
    /\ todo[p] # <<>> /\ Head(todo[p]) \in {"erase", "enable", "switchoff"}
    /\ \/ /\ row' = CASE Head(todo[p]) = "erase" -> "absent"
                      [] Head(todo[p]) = "enable" -> "enabled"
                      [] OTHER -> "disabled"
          /\ todo' = [todo EXCEPT ![p] = Tail(@)]
       \/ /\ todo' = [todo EXCEPT ![p] = <<>>]
          /\ UNCHANGED row
    /\ UNCHANGED <<manager, timer, mine, arrived, attempts, closed>>

-----------------------------------------------------------------------------
(* The manager's methods, one locked section at a time.                    *)

\* p takes the step it has come to.
Take(p, step) == /\ todo[p] # <<>> /\ Head(todo[p]) = step
                 /\ todo' = [todo EXCEPT ![p] = Tail(@)]

\* A pending timer is stopped; the callback of one that fired is not.
Stopped == [x \in Timers |-> IF x = retries /\ timer[x] = "armed"
                             THEN "over" ELSE timer[x]]

\* The session a client holds is closed, alive or dead.
SessionClosed == [g \in Gens |-> IF g = client THEN "closed" ELSE session[g]]

CancelRetry(p) ==
    /\ Take(p, "cancel")
    /\ timer' = Stopped
    /\ retries' = NoTimer
    /\ UNCHANGED <<row, gen, status, client, mine, arrived, attempts, closed>>

\* The generations attempts were or will be made for.
Attempted == {g \in Gens : outer[g] # "none" \/ \E p \in Procs : mine[p] = g}

\* Mutant of BumpGeneration: both the caller and the method bump.
BumpTwice(p) ==
    /\ gen < MaxGen
    /\ \/ Take(p, "bump") /\ UNCHANGED mine
       \/ /\ Take(p, "begin") /\ mine' = [mine EXCEPT ![p] = gen + 2]
          /\ Cardinality(Attempted) < MaxAttempts
    /\ gen' = gen + 2
    /\ UNCHANGED <<row, status, client, retries, timer, arrived, attempts, closed>>

\* bumpGeneration; Remove and Disable have no use for what it returns.
BumpGeneration(p) ==
    /\ gen < MaxGen
    /\ \/ Take(p, "bump") /\ UNCHANGED mine
       \/ /\ Take(p, "begin") /\ mine' = [mine EXCEPT ![p] = gen + 1]
          /\ Cardinality(Attempted) < MaxAttempts
    /\ gen' = gen + 1
    /\ UNCHANGED <<row, status, client, retries, timer, arrived, attempts, closed>>

\* setStatusIfCurrent on behalf of attempt g.
SetStatusIfCurrent(g, s) == status' = IF gen = g THEN s ELSE status

\* The end of ConnectAsync.  The attempt starts even if it is superseded.
Connect(p) ==
    /\ Take(p, "connect")
    /\ SetStatusIfCurrent(mine[p], "connecting")
    /\ inner' = [inner EXCEPT ![mine[p]] = "dialing"]
    /\ outer' = [outer EXCEPT ![mine[p]] = "racing"]
    /\ mine' = [mine EXCEPT ![p] = 0]
    /\ UNCHANGED <<row, gen, client, retries, timer, arrived, watcher, session,
                   closed>>

\* The last section of Remove and of Disable.
Drop(p) ==
    /\ \/ Take(p, "drop") /\ status' = "none"
       \/ Take(p, "disable") /\ status' = "disabled"
    /\ session' = SessionClosed
    /\ client' = NoClient
    /\ UNCHANGED <<row, gen, retries, timer, mine, arrived, inner, outer,
                   watcher, closed>>

\* stopAllRetries.
StopAllRetries(p) ==
    /\ Take(p, "stop")
    /\ timer' = Stopped
    /\ retries' = NoTimer
    /\ UNCHANGED <<row, gen, status, client, mine, arrived, attempts, closed>>

\* The rest of Close.  A name without a generation yet has none to bump.
CloseClients(p) ==
    /\ gen < MaxGen
    /\ Take(p, "closeall")
    /\ session' = SessionClosed
    /\ client' = NoClient
    /\ gen' = IF gen = 0 THEN 0 ELSE gen + 1
    /\ closed' = TRUE
    /\ UNCHANGED <<row, status, retries, timer, mine, arrived, inner, outer, watcher>>

-----------------------------------------------------------------------------
(* An attempt: connectAndStore, and the goroutine that waits for it.       *)

\* client.Connect.
Dial(g) ==
    /\ inner[g] = "dialing"
    /\ \/ inner' = [inner EXCEPT ![g] = "failed"] /\ UNCHANGED session
       \/ /\ inner' = [inner EXCEPT ![g] = "listing"]
          /\ session' = [session EXCEPT ![g] = "open"]
    /\ UNCHANGED <<row, manager, timer, todo, mine, arrived, outer, watcher, closed>>

\* Mutant of Store: the client it replaces is not closed.
StoreOver(g) ==
    /\ inner[g] = "listing"
    /\ client' = g
    /\ inner' = [inner EXCEPT ![g] = "stored"]
    /\ watcher' = [watcher EXCEPT ![g] = "waiting"]
    /\ UNCHANGED <<row, gen, status, retries, timer, todo, mine, arrived, outer,
                   session, closed>>

\* ListTools has returned or failed, which only warns; the client replaces the
\* one in the map, which is closed.  Nothing asks for the generation.
Store(g) ==
    /\ inner[g] = "listing"
    /\ session' = SessionClosed
    /\ client' = g
    /\ inner' = [inner EXCEPT ![g] = "stored"]
    /\ watcher' = [watcher EXCEPT ![g] = "waiting"]
    /\ UNCHANGED <<row, gen, status, retries, timer, todo, mine, arrived, outer,
                   closed>>

\* Where a goroutine of attempt g goes when it reports a failure: on to
\* scheduleRetry if the report counted.
Reported(g, applied, discarded) == IF gen = g THEN applied ELSE discarded

\* Mutant of ApplyResult: the status is written whatever the generation.
ApplyUnguarded(g) ==
    /\ outer[g] \in {"racing", "late"}
    /\ \/ /\ inner[g] = "stored"
          /\ status' = "connected"
          /\ outer' = [outer EXCEPT ![g] = "done"]
       \/ /\ inner[g] = "failed"
          /\ status' = "failed"
          /\ outer' = [outer EXCEPT ![g] = "failed"]
    /\ UNCHANGED <<row, gen, client, retries, timer, todo, mine, arrived, inner,
                   watcher, session, closed>>

\* applyConnectResult, in time or after the attempt was given up.
ApplyResult(g) ==
    /\ outer[g] \in {"racing", "late"}
    /\ \/ /\ inner[g] = "stored"
          /\ SetStatusIfCurrent(g, "connected")
          /\ outer' = [outer EXCEPT ![g] = "done"]
       \/ /\ inner[g] = "failed"
          /\ SetStatusIfCurrent(g, "failed")
          /\ outer' = [outer EXCEPT ![g] = Reported(g, "failed", "done")]
    /\ UNCHANGED <<row, gen, client, retries, timer, todo, mine, arrived, inner,
                   watcher, session, closed>>

\* Mutant of ForceFail: the goroutine stops waiting but leaves the status.
ForceNothing(g) ==
    /\ outer[g] = "racing"
    /\ outer' = [outer EXCEPT ![g] = "late"]
    /\ UNCHANGED <<row, manager, timer, todo, mine, arrived, inner, watcher,
                   session, closed>>

\* forceFailOuterDeadline: the select may choose it though the result is there.
ForceFail(g) ==
    /\ outer[g] = "racing"
    /\ SetStatusIfCurrent(g, "failed")
    /\ outer' = [outer EXCEPT ![g] = Reported(g, "forced", "late")]
    /\ UNCHANGED <<row, gen, client, retries, timer, todo, mine, arrived, inner,
                   watcher, session, closed>>

\* The server goes away, at any moment after the handshake.
Die(g) ==
    /\ session[g] = "open"
    /\ session' = [session EXCEPT ![g] = "dead"]
    /\ UNCHANGED <<row, manager, timer, todo, mine, arrived, inner, outer,
                   watcher, closed>>

\* watchClientDeath: Wait has returned.  The closing flag and the generation
\* are read in one step: whoever closes a client in between has superseded it,
\* or could as well have come after the report.
ReportDeath(g) ==
    /\ watcher[g] = "waiting"
    /\ \/ /\ session[g] = "dead"
          /\ SetStatusIfCurrent(g, "failed")
          /\ watcher' = [watcher EXCEPT ![g] = Reported(g, "failed", "done")]
       \/ /\ session[g] = "closed"
          /\ watcher' = [watcher EXCEPT ![g] = "done"]
          /\ UNCHANGED status
    /\ UNCHANGED <<row, gen, client, retries, timer, todo, mine, arrived, inner,
                   outer, session, closed>>

-----------------------------------------------------------------------------
(* Retries.                                                                *)

\* scheduleRetry: replaces whatever timer the map has.
ScheduleRetry(g) ==
    /\ \/ /\ outer[g] \in {"forced", "failed"} /\ UNCHANGED watcher
          /\ outer' = [outer EXCEPT ![g] = IF @ = "forced" THEN "late" ELSE "done"]
       \/ /\ watcher[g] = "failed" /\ UNCHANGED outer
          /\ watcher' = [watcher EXCEPT ![g] = "done"]
    /\ LET x == IF timer[<<g, 1>>] = "none" THEN <<g, 1>> ELSE <<g, 2>> IN
       /\ timer' = [Stopped EXCEPT ![x] = "armed"]
       /\ retries' = x
    /\ UNCHANGED <<row, gen, status, client, todo, mine, arrived, inner, session,
                   closed>>

\* retryBackoff has passed: the callback starts.
Expire(x) ==
    /\ timer[x] = "armed"
    /\ timer' = [timer EXCEPT ![x] = "over"]
    /\ todo' = [todo EXCEPT ![x] = <<"forget", "check">>]
    /\ UNCHANGED <<row, manager, mine, arrived, attempts, closed>>

\* delete(m.retries, name), whichever timer is in the map by now.
Forget(x) ==
    /\ Take(x, "forget")
    /\ retries' = NoTimer
    /\ UNCHANGED <<row, gen, status, client, timer, mine, arrived, attempts, closed>>

\* fireRetry's check, under the read lock; ConnectAsync comes after it.
FireRetry(x) ==
    /\ todo[x] # <<>> /\ Head(todo[x]) = "check"
    /\ todo' = [todo EXCEPT ![x] = IF gen = x[1] /\ status = "failed"
                                   THEN ConnectAsync ELSE <<>>]
    /\ UNCHANGED <<row, manager, timer, mine, arrived, attempts, closed>>

-----------------------------------------------------------------------------
Request(r) == Create(r) \/ Reconnect(r) \/ Delete(r) \/ Update(r) \/ Shutdown(r)

Proceed(p) == \/ WriteRow(p) \/ CancelRetry(p) \/ BumpGeneration(p)
              \/ Connect(p) \/ Drop(p) \/ StopAllRetries(p) \/ CloseClients(p)

Retry(x) == Expire(x) \/ Forget(x) \/ FireRetry(x)

Settle(g) == ApplyResult(g) \/ ForceFail(g)

Attempt(g) == \/ Dial(g) \/ Store(g) \/ Settle(g) \/ Die(g)
              \/ ReportDeath(g) \/ ScheduleRetry(g)

Next == \/ \E r \in Requests : Request(r)
        \/ \E p \in Procs : Proceed(p)
        \/ \E x \in Timers : Retry(x)
        \/ \E g \in Gens : Attempt(g)

Spec == Init /\ [][Next]_vars

\* Requests and callbacks go on, and the select of an attempt is left at the
\* outer deadline at the latest: as nothing of this runs for ever, it is enough
\* that some of it does go on.  A dial need not return, a server need not die,
\* nobody need ask for anything.
Fairness == /\ WF_vars(\E p \in Procs : Proceed(p))
            /\ WF_vars(\E g \in Gens : Settle(g))

LiveSpec == Spec /\ Fairness

-----------------------------------------------------------------------------
\* Nobody is half way through a method.
Quiet == \A p \in Procs : todo[p] = <<>>

\* "storing the live client (replacing any prior one)": whatever order attempts,
\* removals and deaths come in, an open session is the registered client's or
\* one about to be stored, so no tool server process is left without an owner.
NoStraySession ==
    \A g \in Gens : session[g] = "open" => client = g \/ inner[g] = "listing"

\* When no method is under way, the status is that of the latest attempt and
\* of no earlier one, or of the removal that came after it.
StatusOfLatest ==
    Quiet /\ status \in {"connecting", "connected", "failed"} /\ ~closed =>
        /\ gen \in Gens
        /\ status = "connecting" => outer[gen] = "racing"
        /\ status = "connected" => inner[gen] = "stored"
        /\ status = "failed" => \/ outer[gen] # "racing"
                                \/ watcher[gen] \in {"failed", "done"}

\* "The status is GUARANTEED to leave StateConnecting" (manager.go:165-166), as
\* long as the manager is not closed: the process ends then.
ConnectingSettles == status = "connecting" ~> status # "connecting" \/ closed

\* "the row stays, its tools go away" (manager.go:472-473): a server shown as
\* disabled has no client whose tools are offered.
DisabledHasNoTools == status = "disabled" => client = NoClient

\* "showing "connected" forever ... This closes that gap" (manager.go:395-397):
\* a server is not shown as connected once its session is dead and its watcher
\* has spoken.
DeathIsShown ==
    Quiet /\ status = "connected" /\ client # NoClient
        => session[client] # "dead" \/ watcher[client] = "waiting"

\* "must heal on its own instead of sitting at StateFailed until an admin clicks
\* Reconnect" (manager.go:49-51): a failed server has a retry ahead of it.
FailedRetries ==
    Quiet /\ status = "failed" /\ ~closed =>
        \/ \E k \in {1, 2} : timer[<<gen, k>>] = "armed"
        \/ outer[gen] \in {"forced", "failed"} \/ watcher[gen] = "failed"
=============================================================================
