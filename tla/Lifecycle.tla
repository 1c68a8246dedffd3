------------------------------ MODULE Lifecycle ------------------------------
(***************************************************************************)
(* How the process starts, fails and stops: the runner that owns signals   *)
(* and the outer deadline (pkg/runner/runner.go), the application          *)
(* (internal/app/app.go) and the service manager that starts services in   *)
(* dependency groups (internal/pkg/service-manager/service_manager.go).    *)
(*                                                                         *)
(* Four goroutines meet here besides the services: the runner, App.Run     *)
(* ("app"), ServiceManager.Run ("manager") and the App.Stop the runner     *)
(* calls ("stopper").  Three of them may run ServiceManager.Stop, two of   *)
(* them App.Stop, and a sync.Once lets one do the work while the others    *)
(* wait for it.                                                            *)
(***************************************************************************)
EXTENDS Naturals, FiniteSets

CONSTANTS Names,      \* service names, also those of other processes
          Selections, \* values of SERVICES_ENABLED
          Graphs,     \* dependency declarations: name -> names
          Notifiers,  \* services that are ReadyNotifiers
          Tolerated,  \* services that are AllowedFailures
          Retries,    \* name -> MaxRetries
          EarlyStop   \* may a signal come before the groups are being started?

Stoppers == {"stopper", "app", "manager"}
Nothing == "nothing"
Setup == {"no services", "cyclic dependency", "factory failed"}
Verdicts == Names \cup Setup \cup {Nothing, "timeout"}

ASSUME LifecycleAssumption ==
    /\ IsFiniteSet(Names)
    /\ Selections \subseteq SUBSET Names
    /\ Graphs \subseteq [Names -> SUBSET Names]
    /\ Notifiers \subseteq Names /\ Tolerated \subseteq Names
    /\ Retries \in [Names -> Nat]
    /\ EarlyStop \in BOOLEAN
    /\ Names \cap (Setup \cup {Nothing, "timeout"}) = {}

VARIABLES
    deps,      \* what each service declares
    services,  \* the services SERVICES_ENABLED selects
    pc,        \* goroutine -> where it is
    signaled,  \* SIGINT or SIGTERM came
    hasCancel, \* a.cancel and s.cancel: who has stored its cancel function
    canceled,  \* whose context was cancelled
    once,      \* stopOnce of each: "free", "busy" or "done"
    started,   \* number of groups in startGroups
    stopAt,    \* the group being stopped
    svc,       \* service -> its goroutine
    ready,     \* services whose Ready channel is closed
    tries,     \* service -> attempts that failed
    stop,      \* service -> its Stop
    failure,   \* the failureSignal was triggered
    errCh,     \* owner -> the one slot of its errCh
    closed,    \* owners whose errCh is closed
    verdict,   \* goroutine -> what it returns
    hooks,     \* the post-stop hooks ran
    first      \* history: the first failure that was reported

control == <<pc, verdict>>
run == <<svc, ready, tries, failure, first>>
vars == <<deps, services, control, signaled, hasCancel, canceled, once, started,
          stopAt, run, stop, errCh, closed, hooks>>

Places == {"wait", "stopping", "begin", "spawn", "create", "register",
           "resolve", "start", "ready", "select", "appCancel", "appOnce",
           "smCancel", "smOnce", "smLock", "smStop", "appWait", "hooks",
           "drain", "close", "report", "none", "done"}

TypeOK ==
    /\ deps \in Graphs /\ services \in Selections
    /\ pc \in [Stoppers \cup {"runner"} -> Places]
    /\ signaled \in BOOLEAN /\ failure \in BOOLEAN /\ hooks \in BOOLEAN
    /\ hasCancel \subseteq {"app", "manager"} /\ canceled \subseteq hasCancel
    /\ once \in [{"app", "manager"} -> {"free", "busy", "done"}]
    /\ started \in 0..Cardinality(Names) /\ stopAt \in 0..started
    /\ svc \in [Names -> {"none", "launched", "running", "delay", "sending",
                          "triggering", "over"}]
    /\ ready \subseteq Notifiers
    /\ tries \in [Names -> Nat] /\ \A s \in Names : tries[s] <= Retries[s]
    /\ stop \in [Names -> {"none", "stopping", "over"}]
    /\ errCh \in [{"runner", "app", "manager"} -> Verdicts]
    /\ closed \subseteq {"app", "manager"}
    /\ verdict \in [Stoppers \cup {"runner"} -> Verdicts]
    /\ first \in Names \cup {Nothing}

\* The sync.Once of each Stop is fresh: GetInstance builds one of each.
Init ==
    /\ deps \in Graphs
    /\ services \in Selections
    /\ pc = [p \in Stoppers \cup {"runner"} |->
                CASE p = "runner" -> "wait" [] p = "app" -> "begin" [] OTHER -> "none"]
    /\ signaled = FALSE /\ failure = FALSE /\ hooks = FALSE
    /\ hasCancel = {} /\ canceled = {} /\ closed = {}
    /\ once = [o \in {"app", "manager"} |-> "free"]
    /\ started = 0 /\ stopAt = 0
    /\ svc = [s \in Names |-> "none"] /\ ready = {}
    /\ tries = [s \in Names |-> 0]
    /\ stop = [s \in Names |-> "none"]
    /\ errCh = [o \in {"runner", "app", "manager"} |-> Nothing]
    /\ verdict = [p \in Stoppers \cup {"runner"} |-> Nothing]
    /\ first = Nothing

-----------------------------------------------------------------------------
(* The start order: levels of the dependency graph.                        *)

\* Edges to services of other processes are skipped.
Needs(s) == deps[s] \cap services

\* The services placed after n rounds: those whose needs all were by then.
Placed[n \in 0..Cardinality(Names)] ==
    IF n = 0 THEN {} ELSE {s \in services : Needs(s) \subseteq Placed[n - 1]}

Group(n) == Placed[n] \ Placed[n - 1]
Cyclic == Placed[Cardinality(services)] # services
Groups == Cardinality({n \in 1..Cardinality(services) : Group(n) # {}})

\* The group the manager is starting.
Current == Group(started + 1)

-----------------------------------------------------------------------------
(* Contexts and gotos.                                                     *)

\* The manager's context is a child of the application's.
AppDone == "app" \in canceled
ManagerDone == AppDone \/ "manager" \in canceled

Goto(p, place) == pc' = [pc EXCEPT ![p] = place]
At(p, place) == pc[p] = place

\* runServiceGroups holds startGroupsMu from its first group to its last.
Starting == pc["manager"] \in {"start", "ready"}

\* A finished process takes no more steps.
Alive == ~At("runner", "done")

-----------------------------------------------------------------------------
(* The runner.                                                             *)

\* SIGINT or SIGTERM.
Signal ==
    /\ Alive /\ At("runner", "wait") /\ ~signaled
    /\ EarlyStop \/ Starting \/ At("manager", "select")
    /\ signaled' = TRUE
    /\ UNCHANGED <<deps, services, control, hasCancel, canceled, once, started,
                   stopAt, run, stop, errCh, closed, hooks>>

\* waitForShutdown, and gracefulShutdown's goroutine that calls App.Stop.
WaitForShutdown ==
    /\ Alive /\ At("runner", "wait")
    /\ signaled \/ At("app", "done")
    /\ \/ signaled /\ UNCHANGED verdict
       \/ /\ At("app", "done")
          /\ verdict' = [verdict EXCEPT !["runner"] = errCh["runner"]]
    /\ pc' = [pc EXCEPT !["runner"] = "stopping", !["stopper"] = "appCancel"]
    /\ UNCHANGED <<deps, services, signaled, hasCancel, canceled, once, started,
                   stopAt, run, stop, errCh, closed, hooks>>

\* Both goroutines of the wait group are back.
ShutdownCompletes ==
    /\ Alive /\ At("runner", "stopping") /\ At("stopper", "done") /\ At("app", "done")
    /\ Goto("runner", "done")
    /\ UNCHANGED <<deps, services, verdict, signaled, hasCancel, canceled, once,
                   started, stopAt, run, stop, errCh, closed, hooks>>

\* handleShutdownTimeout.
ShutdownTimesOut ==
    /\ Alive /\ At("runner", "stopping")
    /\ Goto("runner", "done")
    /\ verdict' = [verdict EXCEPT !["runner"] = "timeout"]
    /\ UNCHANGED <<deps, services, signaled, hasCancel, canceled, once, started,
                   stopAt, run, stop, errCh, closed, hooks>>

-----------------------------------------------------------------------------
(* App.Run and App.Stop.                                                   *)

AppBegins ==
    /\ Alive /\ At("app", "begin")
    /\ hasCancel' = hasCancel \cup {"app"}
    /\ Goto("app", "spawn")
    /\ UNCHANGED <<deps, services, verdict, signaled, canceled, once, started,
                   stopAt, run, stop, errCh, closed, hooks>>

\* The goroutine that runs the service manager.
SpawnManager ==
    /\ Alive /\ At("app", "spawn")
    /\ pc' = [pc EXCEPT !["app"] = "select", !["manager"] = "create"]
    /\ UNCHANGED <<deps, services, verdict, signaled, hasCancel, canceled, once,
                   started, stopAt, run, stop, errCh, closed, hooks>>

\* The selects on which App.Run and ServiceManager.Run wait: their context, or
\* an error in their channel.
Select(p, done, next) ==
    /\ Alive /\ At(p, "select")
    /\ \/ done /\ UNCHANGED <<verdict, errCh>>
       \/ /\ errCh[p] # Nothing
          /\ verdict' = [verdict EXCEPT ![p] = errCh[p]]
          /\ errCh' = [errCh EXCEPT ![p] = Nothing]
    /\ Goto(p, next)
    /\ UNCHANGED <<deps, services, signaled, hasCancel, canceled, once, started,
                   stopAt, run, stop, closed, hooks>>

AppSelect == Select("app", AppDone, "appCancel")

\* Stop cancels what Run has stored, if it has.
Cancel(p, o, next) ==
    /\ Alive
    /\ canceled' = canceled \cup ({o} \cap hasCancel)
    /\ Goto(p, next)
    /\ UNCHANGED <<deps, services, verdict, signaled, hasCancel, once, started,
                   stopAt, run, stop, errCh, closed, hooks>>

\* The first caller of a Once runs its body, the others wait for the end of it.
EnterOnce(p, o, body, past) ==
    /\ Alive
    /\ \/ /\ once[o] = "free"
          /\ once' = [once EXCEPT ![o] = "busy"]
          /\ Goto(p, body)
       \/ /\ once[o] = "done"
          /\ Goto(p, past)
          /\ UNCHANGED once
    /\ UNCHANGED <<deps, services, verdict, signaled, hasCancel, canceled,
                   started, stopAt, run, stop, errCh, closed, hooks>>

\* What comes after App.Stop and after ServiceManager.Stop: the goroutine's
\* own wait, or the rest of App.Stop.
AfterAppStop(p) == IF p = "app" THEN "drain" ELSE "done"
AfterStop(p) == IF p = "manager" THEN "drain" ELSE "appWait"

AppStop(p) ==
    \/ At(p, "appCancel") /\ Cancel(p, "app", "appOnce")
    \/ At(p, "appOnce") /\ EnterOnce(p, "app", "smCancel", AfterAppStop(p))

\* Mutant of AppWaits: the hooks do not wait for the manager.
AppWaitsNot(p) ==
    /\ Alive /\ At(p, "appWait")
    /\ Goto(p, "hooks")
    /\ UNCHANGED <<deps, services, verdict, signaled, hasCancel, canceled, once,
                   started, stopAt, run, stop, errCh, closed, hooks>>

\* a.wg.Wait inside App.Stop.
AppWaits(p) ==
    /\ Alive /\ At(p, "appWait") /\ pc["manager"] \in {"none", "done"}
    /\ Goto(p, "hooks")
    /\ UNCHANGED <<deps, services, verdict, signaled, hasCancel, canceled, once,
                   started, stopAt, run, stop, errCh, closed, hooks>>

RunHooks(p) ==
    /\ Alive /\ At(p, "hooks")
    /\ hooks' = TRUE
    /\ once' = [once EXCEPT !["app"] = "done"]
    /\ Goto(p, AfterAppStop(p))
    /\ UNCHANGED <<deps, services, verdict, signaled, hasCancel, canceled,
                   started, stopAt, run, stop, errCh, closed>>

-----------------------------------------------------------------------------
(* The deferred calls of the two Runs, in the order they run: Stop (above), *)
(* Wait, close.                                                            *)

\* Mutant of Drain: the channel is closed before its senders are waited for.
DrainAtOnce(p) ==
    /\ Alive /\ At(p, "drain")
    /\ Goto(p, "close")
    /\ UNCHANGED <<deps, services, verdict, signaled, hasCancel, canceled, once,
                   started, stopAt, run, stop, errCh, closed, hooks>>

Drain(p) ==
    /\ Alive /\ At(p, "drain")
    /\ IF p = "manager" THEN \A s \in Names : svc[s] \in {"none", "over"}
                        ELSE pc["manager"] \in {"none", "done"}
    /\ Goto(p, "close")
    /\ UNCHANGED <<deps, services, verdict, signaled, hasCancel, canceled, once,
                   started, stopAt, run, stop, errCh, closed, hooks>>

\* close(errCh); App.Run's result goes to the runner at once, the manager's to
\* the goroutine that hands errors to App.Run.
CloseChannel(p) ==
    /\ Alive /\ At(p, "close")
    /\ closed' = closed \cup {p}
    /\ canceled' = canceled \cup {p}
    /\ IF p = "app"
       THEN /\ errCh' = [errCh EXCEPT !["runner"] = verdict["app"]]
            /\ Goto(p, "done")
       ELSE UNCHANGED errCh /\ Goto(p, "report")
    /\ UNCHANGED <<deps, services, verdict, signaled, hasCancel, once, started,
                   stopAt, run, stop, hooks>>

\* The goroutine of App.Run around ServiceManager.Run.
Report ==
    /\ Alive /\ At("manager", "report")
    /\ errCh' = [errCh EXCEPT !["app"] = verdict["manager"]]
    /\ Goto("manager", "done")
    /\ UNCHANGED <<deps, services, verdict, signaled, hasCancel, canceled, once,
                   started, stopAt, run, stop, closed, hooks>>

-----------------------------------------------------------------------------
(* ServiceManager.Run.                                                     *)

\* instantiateAll: the constructor of a service may fail, and nothing of what
\* follows has been deferred by then.
Instantiate ==
    /\ Alive /\ At("manager", "create")
    /\ \/ Goto("manager", "register") /\ UNCHANGED verdict
       \/ /\ services # {} /\ Goto("manager", "report")
          /\ verdict' = [verdict EXCEPT !["manager"] = "factory failed"]
    /\ UNCHANGED <<deps, services, signaled, hasCancel, canceled, once, started,
                   stopAt, run, stop, errCh, closed, hooks>>

\* s.cancel is set.
Register ==
    /\ Alive /\ At("manager", "register")
    /\ hasCancel' = hasCancel \cup {"manager"}
    /\ Goto("manager", "resolve")
    /\ UNCHANGED <<deps, services, verdict, signaled, canceled, once, started,
                   stopAt, run, stop, errCh, closed, hooks>>

\* resolveOrder, and runServiceGroups takes startGroupsMu.
Resolve ==
    /\ Alive /\ At("manager", "resolve")
    /\ IF services = {} \/ Cyclic
       THEN /\ Goto("manager", "smCancel")
            /\ verdict' = [verdict EXCEPT !["manager"] =
                  IF services = {} THEN "no services" ELSE "cyclic dependency"]
       ELSE /\ \A p \in Stoppers : ~At(p, "smStop")
            /\ Goto("manager", "start")
            /\ UNCHANGED verdict
    /\ UNCHANGED <<deps, services, signaled, hasCancel, canceled, once, started,
                   stopAt, run, stop, errCh, closed, hooks>>

\* One round of the loop of runServiceGroups, up to the wait for readiness.
\* The failure signal is asked for, the context is not.
StartGroup ==
    /\ Alive /\ At("manager", "start")
    /\ ~failure /\ started < Groups
    /\ svc' = [s \in Names |-> IF s \in Current THEN "launched" ELSE svc[s]]
    /\ Goto("manager", "ready")
    /\ UNCHANGED <<deps, services, verdict, signaled, hasCancel, canceled, once,
                   started, stopAt, ready, tries, failure, first, stop, errCh,
                   closed, hooks>>

\* startGroupsMu is given back.
GroupsStarted ==
    /\ Alive /\ At("manager", "start")
    /\ failure \/ started = Groups
    /\ Goto("manager", "select")
    /\ UNCHANGED <<deps, services, verdict, signaled, hasCancel, canceled, once,
                   started, stopAt, run, stop, errCh, closed, hooks>>

\* Mutants of GroupReady: a failed service that is to be retried counts as
\* ready; the group is forgotten when the wait is cut short.
GroupReadyOnRetry ==
    /\ Alive /\ At("manager", "ready")
    /\ \A s \in Current : svc[s] # "launched"
    /\ \/ \A s \in Current \cap Notifiers : s \in ready \/ svc[s] # "running"
       \/ failure \/ ManagerDone
    /\ started' = started + 1
    /\ Goto("manager", "start")
    /\ UNCHANGED <<deps, services, verdict, signaled, hasCancel, canceled, once,
                   stopAt, run, stop, errCh, closed, hooks>>

GroupReadyForgets ==
    /\ Alive /\ At("manager", "ready")
    /\ \A s \in Current : svc[s] # "launched"
    /\ \/ \A s \in Current \cap Notifiers : s \in ready \/ svc[s] = "over"
       \/ failure \/ ManagerDone
    /\ IF failure \/ ManagerDone
       THEN UNCHANGED started /\ Goto("manager", "select")
       ELSE started' = started + 1 /\ Goto("manager", "start")
    /\ UNCHANGED <<deps, services, verdict, signaled, hasCancel, canceled, once,
                   stopAt, run, stop, errCh, closed, hooks>>

\* The launched goroutines run, waitGroupReady ends, and the group is entered
\* into startGroups.  Ready and exited services stay so, so that waiting for
\* them one after the other is waiting for all.
GroupReady ==
    /\ Alive /\ At("manager", "ready")
    /\ \A s \in Current : svc[s] # "launched"
    /\ \/ \A s \in Current \cap Notifiers : s \in ready \/ svc[s] = "over"
       \/ failure \/ ManagerDone
    /\ started' = started + 1
    /\ Goto("manager", "start")
    /\ UNCHANGED <<deps, services, verdict, signaled, hasCancel, canceled, once,
                   stopAt, run, stop, errCh, closed, hooks>>

ManagerSelect == Select("manager", ManagerDone, "smCancel")

-----------------------------------------------------------------------------
(* runService.                                                             *)

Service(s, from, to) ==
    /\ Alive /\ svc[s] = from
    /\ svc' = [svc EXCEPT ![s] = to]
    /\ UNCHANGED <<deps, services, control, signaled, hasCancel, canceled, once,
                   started, stopAt, stop, closed, hooks>>

Begin(s) == /\ Service(s, "launched", "running")
            /\ UNCHANGED <<ready, tries, failure, first, errCh>>

\* The service closes its Ready channel.
BecomeReady(s) ==
    /\ Alive /\ svc[s] = "running" /\ s \in Notifiers \ ready
    /\ ready' = ready \cup {s}
    /\ UNCHANGED <<deps, services, control, signaled, hasCancel, canceled, once,
                   started, stopAt, svc, tries, failure, first, stop, errCh,
                   closed, hooks>>

\* A clean exit, or one after which nobody wants to hear of an error.
ExitCleanly(s) ==
    /\ Service(s, "running", "over")
    /\ UNCHANGED <<ready, tries, failure, first, errCh>>

\* Mutant of RunFails: one retry too many.
RunFailsLate(s) ==
    /\ ~ManagerDone
    /\ IF tries[s] <= Retries[s]
       THEN /\ Service(s, "running", "delay")
            /\ tries' = [tries EXCEPT ![s] = @ + 1]
       ELSE /\ Service(s, "running", IF s \in Tolerated THEN "over" ELSE "sending")
            /\ UNCHANGED tries
    /\ UNCHANGED <<ready, failure, first, errCh>>

\* An error or a panic, with attempts left or not.
RunFails(s) ==
    /\ ~ManagerDone
    /\ IF tries[s] < Retries[s]
       THEN /\ Service(s, "running", "delay")
            /\ tries' = [tries EXCEPT ![s] = @ + 1]
       ELSE /\ Service(s, "running", IF s \in Tolerated THEN "over" ELSE "sending")
            /\ UNCHANGED tries
    /\ UNCHANGED <<ready, failure, first, errCh>>

\* waitRetryDelay.
EndDelay(s) ==
    /\ \/ Service(s, "delay", "running")
       \/ ManagerDone /\ Service(s, "delay", "over")
    /\ UNCHANGED <<ready, tries, failure, first, errCh>>

\* Mutants of SendFailure: the send blocks on a full channel; the latest
\* failure replaces the first.
SendFailureBlocks(s) ==
    /\ errCh["manager"] = Nothing
    /\ Service(s, "sending", "triggering")
    /\ errCh' = [errCh EXCEPT !["manager"] = s]
    /\ first' = IF first = Nothing THEN s ELSE first
    /\ UNCHANGED <<ready, tries, failure>>

SendFailureReplaces(s) ==
    /\ Service(s, "sending", "triggering")
    /\ errCh' = [errCh EXCEPT !["manager"] = s]
    /\ first' = IF first = Nothing THEN s ELSE first
    /\ UNCHANGED <<ready, tries, failure>>

\* handleServiceError: a send that gives up on a full channel, then the signal.
SendFailure(s) ==
    /\ Service(s, "sending", "triggering")
    /\ errCh' = [errCh EXCEPT !["manager"] = IF @ = Nothing THEN s ELSE @]
    /\ first' = IF first = Nothing THEN s ELSE first
    /\ UNCHANGED <<ready, tries, failure>>

TriggerFailure(s) ==
    /\ Service(s, "triggering", "over")
    /\ failure' = TRUE
    /\ UNCHANGED <<ready, tries, first, errCh>>

-----------------------------------------------------------------------------
(* ServiceManager.Stop.                                                    *)

EnterStop(p) ==
    \/ At(p, "smCancel") /\ Cancel(p, "manager", "smOnce")
    \/ At(p, "smOnce") /\ EnterOnce(p, "manager", "smLock", AfterStop(p))

\* The read lock on startGroupsMu: the whole start is over, or not begun.
ReadGroups(p) ==
    /\ Alive /\ At(p, "smLock") /\ ~Starting
    /\ stopAt' = started
    /\ Goto(p, "smStop")
    /\ UNCHANGED <<deps, services, verdict, signaled, hasCancel, canceled, once,
                   started, run, stop, errCh, closed, hooks>>

\* Mutant of StopGroup: the first group is stopped first.
StopGroupForward(p) ==
    /\ Alive /\ At(p, "smStop") /\ stopAt > 0
    /\ \A s \in Group(started + 1 - stopAt) : stop[s] = "none"
    /\ stop' = [s \in Names |-> IF s \in Group(started + 1 - stopAt)
                                THEN "stopping" ELSE stop[s]]
    /\ UNCHANGED <<deps, services, control, signaled, hasCancel, canceled, once,
                   started, stopAt, run, errCh, closed, hooks>>

\* stopGroup: all of a group are stopped at the same time.
StopGroup(p) ==
    /\ Alive /\ At(p, "smStop") /\ stopAt > 0
    /\ \A s \in Group(stopAt) : stop[s] = "none"
    /\ stop' = [s \in Names |-> IF s \in Group(stopAt)
                                THEN "stopping" ELSE stop[s]]
    /\ UNCHANGED <<deps, services, control, signaled, hasCancel, canceled, once,
                   started, stopAt, run, errCh, closed, hooks>>

\* stopServiceWithTimeout: Stop returns, or it is waited for no longer.
StopReturns(s) ==
    /\ Alive /\ stop[s] = "stopping"
    /\ stop' = [stop EXCEPT ![s] = "over"]
    /\ UNCHANGED <<deps, services, control, signaled, hasCancel, canceled, once,
                   started, stopAt, run, errCh, closed, hooks>>

GroupStopped(p) ==
    /\ Alive /\ At(p, "smStop") /\ stopAt > 0
    /\ \A s \in Group(stopAt) : stop[s] = "over"
    /\ stopAt' = stopAt - 1
    /\ UNCHANGED <<deps, services, control, signaled, hasCancel, canceled, once,
                   started, run, stop, errCh, closed, hooks>>

StopDone(p) ==
    /\ Alive /\ At(p, "smStop") /\ stopAt = 0
    /\ once' = [once EXCEPT !["manager"] = "done"]
    /\ Goto(p, AfterStop(p))
    /\ UNCHANGED <<deps, services, verdict, signaled, hasCancel, canceled,
                   started, stopAt, run, stop, errCh, closed, hooks>>

-----------------------------------------------------------------------------
Runner == WaitForShutdown \/ ShutdownCompletes \/ ShutdownTimesOut

App == AppBegins \/ SpawnManager \/ AppSelect

Manager == \/ Instantiate \/ Register \/ Resolve \/ StartGroup \/ GroupReady
           \/ GroupsStarted \/ ManagerSelect \/ Report

Stopping(p) == \/ AppStop(p) \/ AppWaits(p) \/ RunHooks(p) \/ EnterStop(p)
               \/ ReadGroups(p) \/ StopGroup(p) \/ GroupStopped(p) \/ StopDone(p)
               \/ Drain(p) \/ CloseChannel(p)

Reported(s) == SendFailure(s) \/ TriggerFailure(s)

Supervised(s) == \/ Begin(s) \/ BecomeReady(s) \/ ExitCleanly(s) \/ RunFails(s)
                 \/ EndDelay(s) \/ Reported(s) \/ StopReturns(s)

Next == \/ Signal \/ Runner \/ App \/ Manager
        \/ \E p \in Stoppers : Stopping(p)
        \/ \E s \in Names : Supervised(s)

Spec == Init /\ [][Next]_vars

\* What a service must do: "Run must return when its context is cancelled"
\* (docs/services-and-lifecycle.md:25-26).
Obeys(s) == ManagerDone /\ ExitCleanly(s)

\* The goroutines of the lifecycle run and timers fire.  No service need ever
\* be ready or stop by itself, and the runner's deadline need not pass.
Fairness ==
    /\ WF_vars(WaitForShutdown \/ ShutdownCompletes)
    /\ WF_vars(App)
    /\ WF_vars(Manager)
    /\ \A p \in Stoppers : WF_vars(Stopping(p))
    /\ \A s \in Names : WF_vars(Begin(s) \/ EndDelay(s) \/ Reported(s)
                                \/ StopReturns(s) \/ Obeys(s))

LiveSpec == Spec /\ Fairness

-----------------------------------------------------------------------------
Launched(s) == svc[s] # "none"

\* "group N+1 starts only after group N has been launched and its
\* ready-notifying services have become ready" (service-manager/README.md:52-53):
\* as long as nothing is being stopped, no service is launched before what it
\* depends on, and not while that has neither become ready nor exited for good,
\* whatever retries and failures happen meanwhile.
StartOrder ==
    [][\A s \in services : ~Launched(s) /\ Launched(s)' =>
          \A d \in Needs(s) :
              /\ Launched(d)
              /\ d \in Notifiers /\ ~ManagerDone =>
                     d \in ready \/ svc[d] \in {"triggering", "over"}]_vars

\* "walks the resolved start groups in reverse order" (same file, 110-111): no
\* Stop is called while the Stop of a launched dependent is outstanding.
StopOrder ==
    [][\A s, d \in services :
          stop[d] = "none" /\ stop'[d] = "stopping" /\ d \in Needs(s) /\ Launched(s)
              => stop[s] = "over"]_vars

\* "close(errCh) runs while its producer is still live" (app.go:84): whoever
\* could still send on a closed channel does not exist, at either level.
NoSendOnClosed ==
    /\ "manager" \in closed => \A s \in Names : svc[s] \in {"none", "over"}
    /\ "app" \in closed => pc["manager"] = "done"

\* "The first non-allowed terminal failure ends the application": without a
\* signal, what the process reports is the first failure reported to the
\* manager, through two channels and two selects, or that stopping took too long.
FirstFailureWins ==
    At("runner", "done") /\ ~signaled /\ first # Nothing
        => verdict["runner"] \in {first, "timeout"}

\* A process that ends in time has stopped every service it launched, ...
EveryServiceStopped ==
    At("runner", "done") /\ verdict["runner"] # "timeout" =>
        \A s \in Names : Launched(s) => stop[s] = "over"

\* ... and "post-stop" hooks (app.go:62) come after the last service.
HooksComeLast == hooks => \A s \in Names : svc[s] \in {"none", "over"}

\* A reported failure ends the process although several services may fail at
\* the same time, in any stage of the start, and no deadline helps.
FailureEnds == (\E s \in Names : svc[s] = "triggering") ~> At("runner", "done")
=============================================================================
