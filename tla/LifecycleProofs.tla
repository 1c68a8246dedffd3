--------------------------- MODULE LifecycleProofs ---------------------------
(***************************************************************************)
(* Proofs about the lifecycle, for any set of services, any declared       *)
(* dependencies and any selection of them.  The goroutines pass their      *)
(* places in one order, so that what each of them has done follows from    *)
(* where it is; the groups of the start order are the levels of the        *)
(* dependency graph.                                                       *)
(***************************************************************************)
EXTENDS Lifecycle, FiniteSetTheorems, WellFoundedInduction, TLAPS

Goroutines == Stoppers \cup {"runner"}

\* The places of ServiceManager.Stop, and those of App.Stop around them.
InStop == {"smCancel", "smOnce", "smLock", "smStop"}
InAppStop == {"appCancel", "appOnce", "appWait", "hooks"} \cup InStop

ManagerEarly == pc["manager"] \in {"none", "create", "register", "resolve"}
ManagerOpen == ManagerEarly \/ pc["manager"] \in {"start", "ready", "select"}
AppOpen == pc["app"] \in {"begin", "spawn", "select"}

\* Where each goroutine can be.
PlacesFit ==
    /\ pc["runner"] \in {"wait", "stopping", "done"}
    /\ pc["stopper"] \in {"none", "done"} \cup InAppStop
    /\ pc["app"] \in {"begin", "spawn", "select", "drain", "close", "done"}
                      \cup InAppStop
    /\ pc["manager"] \in {"none", "create", "register", "resolve", "start",
                          "ready", "select", "drain", "close", "report", "done"}
                         \cup InStop

\* One goroutine starts another.
Sequenced ==
    /\ pc["runner"] = "wait" <=> pc["stopper"] = "none"
    /\ pc["manager"] = "none" <=> pc["app"] \in {"begin", "spawn"}
    /\ pc["app"] # "begin" => "app" \in hasCancel
    /\ pc["manager"] \notin {"none", "create", "register"} =>
           "manager" \in hasCancel \/ pc["manager"] \in {"report", "done"}
    /\ At("manager", "ready") => started < Groups
    /\ pc["stopper"] # "none" /\ ~signaled => pc["app"] = "done"

\* Services exist from the start of the first group on, and until the manager
\* has waited for them.
ServicesFit ==
    /\ ManagerEarly => \A s \in Names : svc[s] = "none"
    /\ pc["manager"] \in {"close", "report", "done"} =>
           \A s \in Names : svc[s] \in {"none", "over"}

\* A channel is closed when nobody sends any more.
ChannelsFit ==
    /\ "manager" \in closed => pc["manager"] \in {"report", "done"}
    /\ "app" \in closed => pc["app"] = "done"
    /\ pc["app"] \in {"close", "done"} => pc["manager"] = "done"

BaseInv == TypeOK /\ PlacesFit /\ Sequenced /\ ServicesFit /\ ChannelsFit

\* Without a signal a failure goes from channel to channel: nobody's context
\* is cancelled before the manager has taken the first failure.
FailureTravels ==
    /\ errCh["app"] # Nothing => pc["manager"] = "done"
    /\ ManagerOpen => errCh["manager"] = first
    /\ ManagerEarly => first = Nothing
    /\ ~signaled =>
           /\ AppOpen => "app" \notin canceled
           /\ ~AppOpen => /\ pc["manager"] = "done"
                          /\ verdict["app"] = verdict["manager"]
           /\ ManagerOpen => "manager" \notin canceled
           /\ ~ManagerOpen => \/ first # Nothing /\ verdict["manager"] = first
                              \/ first = Nothing /\ (\A s \in Names : svc[s] = "none")
           /\ AppOpen /\ pc["manager"] = "done" => errCh["app"] = verdict["manager"]
           /\ pc["app"] = "done" => errCh["runner"] = verdict["app"]
           /\ pc["runner"] # "wait" => verdict["runner"] \in {verdict["app"], "timeout"}

\* Nobody stops anything before the manager has come to its groups, unless a
\* signal may come that early.
StopsLate ==
    /\ signaled => ~ManagerEarly
    /\ ~AppOpen => ~ManagerEarly
    /\ "app" \in canceled => ~ManagerEarly
    /\ errCh["app"] # Nothing => ~ManagerEarly
    /\ pc["stopper"] # "none" => ~ManagerEarly
    /\ hooks \/ (\E p \in Stoppers : At(p, "hooks")) => pc["manager"] = "done"

\* What the two Onces mean.
OncesFit ==
    /\ once["manager"] = "done" \/ (\E p \in Stoppers : At(p, "smStop"))
           => ~ManagerEarly
    /\ once["manager"] = "done" => ~Starting
    /\ \A p \in Stoppers : pc[p] \in {"appWait", "hooks"} => once["manager"] = "done"
    /\ once["app"] = "done" => once["manager"] = "done"
    /\ pc["app"] \in {"drain", "close", "done"} => once["app"] = "done"
    /\ pc["runner"] = "done" => verdict["runner"] = "timeout" \/ pc["app"] = "done"

\* The launched services are those of the groups started, and of the current
\* one.
StartsFit ==
    /\ \A s \in Names : Launched(s) =>
           \/ \E n \in 1..started : s \in Group(n)
           \/ At("manager", "ready") /\ s \in Current
    /\ \A n \in 1..started : \A s \in Group(n) :
           /\ Launched(s)
           /\ s \in Notifiers =>
                  s \in ready \/ svc[s] = "over" \/ failure \/ ManagerDone
    /\ At("manager", "ready") => \A s \in Current : Launched(s)

\* Groups are not started while they are being stopped, and those above stopAt
\* have been.
StopsFit ==
    \A p \in Stoppers : At(p, "smStop") =>
        /\ ~Starting
        /\ \A n \in (stopAt + 1)..started : \A s \in Group(n) : stop[s] = "over"

\* Once Stop is over, all groups are stopped.
AllStopped ==
    once["manager"] = "done" =>
        \A n \in 1..started : \A s \in Group(n) : stop[s] = "over"

-----------------------------------------------------------------------------
(* The start order                                                         *)

\* A set of numbers that is not empty has a least one.
LEMMA LeastNumber ==
    ASSUME NEW T, T \subseteq Nat, T # {}
    PROVE  \E n \in T : \A m \in T : n <= m
<1> DEFINE Less == {ss \in Nat \X Nat : ss[1] < ss[2]}
<1>1. IsWellFoundedOn(Less, Nat)
  BY NatLessThanWellFounded, Zenon DEF OpToRel
<1>2. \A m, n \in Nat : m < n => <<m, n>> \in Less
  OBVIOUS
<1> HIDE DEF Less
<1>3. PICK n \in T : \A m \in T : ~ (<<m, n>> \in Less)
  BY <1>1, WFMin
<1>4. ASSUME NEW m \in T PROVE n <= m
  <2>1. m \in Nat /\ n \in Nat /\ ~ (m < n)
    BY <1>2, <1>3
  <2> QED
    BY <2>1
<1> QED
  BY <1>3, <1>4

IsPlaced(f, k) ==
    f = [n \in 0..k |->
            IF n = 0 THEN {} ELSE {s \in services : Needs(s) \subseteq f[n - 1]}]

LEMMA PlacedExists ==
    ASSUME NEW K \in Nat
    PROVE  \E f : IsPlaced(f, K)
<1> DEFINE T == {k \in Nat : ~ \E f : IsPlaced(f, k)}
<1> SUFFICES ASSUME T # {} PROVE FALSE
  OBVIOUS
<1>1. PICK k \in T : \A m \in T : k <= m
  BY LeastNumber
<1>2. k # 0
  <2>1. IsPlaced([n \in 0..0 |-> {}], 0)
    BY DEF IsPlaced
  <2> QED
    BY <2>1
<1>3. PICK f : IsPlaced(f, k - 1)
  BY <1>1, <1>2
<1> DEFINE g == [n \in 0..k |->
                   IF n = k THEN {s \in services : Needs(s) \subseteq f[k - 1]}
                            ELSE f[n]]
<1>4. \A n \in 0..k-1 : f[n] = IF n = 0 THEN {}
                              ELSE {s \in services : Needs(s) \subseteq f[n - 1]}
  BY <1>1, <1>3 DEF IsPlaced
<1>5. ASSUME NEW n \in 0..k
      PROVE  g[n] = IF n = 0 THEN {}
                    ELSE {s \in services : Needs(s) \subseteq g[n - 1]}
  <2>1. n # k => n \in 0..k-1
    BY <1>1, <1>2
  <2>2. n # 0 => n - 1 \in 0..k-1 /\ n - 1 \in 0..k /\ g[n - 1] = f[n - 1]
    BY <1>1, <1>2
  <2>3. g[n] = IF n = k THEN {s \in services : Needs(s) \subseteq f[k - 1]} ELSE f[n]
    OBVIOUS
  <2> HIDE DEF g
  <2> QED
    BY <1>1, <1>2, <1>4, <2>1, <2>2, <2>3
<1>6. IsPlaced(g, k)
  <2>1. g = [n \in 0..k |-> g[n]]
    OBVIOUS
  <2> HIDE DEF g
  <2> QED
    BY <1>5, <2>1 DEF IsPlaced
<1> QED
  BY <1>1, <1>6

\* There are finitely many services.
LEMMA Counts ==
    ASSUME services \subseteq Names
    PROVE  /\ Cardinality(Names) \in Nat /\ Cardinality(services) \in Nat
           /\ Cardinality(services) <= Cardinality(Names)
           /\ Groups \in Nat /\ Groups <= Cardinality(services)
<1>1. /\ Cardinality(Names) \in Nat /\ Cardinality(services) \in Nat
      /\ Cardinality(services) <= Cardinality(Names)
  BY FS_Subset, FS_CardinalityType, LifecycleAssumption
<1> DEFINE L == 1..Cardinality(services)
           N == {n \in L : Group(n) # {}}
<1>2. IsFiniteSet(L) /\ Cardinality(L) = Cardinality(services)
  <2> DEFINE c == Cardinality(services)
  <2>1. c \in Int /\ 1 \in Int /\ c \in Nat
    BY <1>1
  <2> HIDE DEF c
  <2>2. IsFiniteSet(1..c) /\ Cardinality(1..c) = IF 1 > c THEN 0 ELSE c - 1 + 1
    BY <2>1, FS_Interval
  <2>3. Cardinality(1..c) = c
    BY <2>1, <2>2
  <2> QED
    BY <2>2, <2>3 DEF c
<1>3. N \subseteq L
  OBVIOUS
<1> HIDE DEF L, N
<1>4. Cardinality(N) \in Nat /\ Cardinality(N) <= Cardinality(L)
  BY <1>2, <1>3, FS_Subset, FS_CardinalityType
<1>5. Groups = Cardinality(N)
  BY DEF Groups, N, L
<1> QED
  BY <1>1, <1>2, <1>4, <1>5

\* The recursive definition of the levels means what it says.
LEMMA PlacedEquation == IsPlaced(Placed, Cardinality(Names))
<1>1. Cardinality(Names) \in Nat
  BY FS_CardinalityType, LifecycleAssumption
<1>2. \E f : IsPlaced(f, Cardinality(Names))
  BY <1>1, PlacedExists
<1> QED
  BY <1>2 DEF Placed, IsPlaced

\* A level contains the levels below it.
LEMMA PlacedGrows ==
    ASSUME NEW n \in Nat, NEW m \in 0..n, n <= Cardinality(Names)
    PROVE  Placed[m] \subseteq Placed[n]
<1> DEFINE K == Cardinality(Names)
<1>1. K \in Nat
  BY FS_CardinalityType, LifecycleAssumption
<1> HIDE DEF K
<1>2. \A k \in 0..K : Placed[k] = IF k = 0 THEN {}
                       ELSE {s \in services : Needs(s) \subseteq Placed[k - 1]}
  <2>1. Placed = [k \in 0..K |-> IF k = 0 THEN {}
                       ELSE {s \in services : Needs(s) \subseteq Placed[k - 1]}]
    BY PlacedEquation DEF IsPlaced, K
  <2> QED
    BY <2>1
<1>3. ASSUME NEW k \in Nat, k < K PROVE Placed[k] \subseteq Placed[k + 1]
  <2> DEFINE T == {i \in Nat : i < K /\ ~ Placed[i] \subseteq Placed[i + 1]}
  <2> SUFFICES ASSUME T # {} PROVE FALSE
    BY <1>3
  <2>1. PICK i \in T : \A j \in T : i <= j
    <3>1. T \subseteq Nat
      OBVIOUS
    <3> HIDE DEF T
    <3> QED
      BY <3>1, LeastNumber
  <2>2. i \in Nat /\ i < K /\ ~ Placed[i] \subseteq Placed[i + 1]
    BY <2>1
  <2>3. i # 0
    <3>1. 0 \in 0..K
      BY <1>1
    <3>2. Placed[0] = {}
      BY <1>2, <3>1
    <3> QED
      BY <2>2, <3>2
  <2>4. Placed[i - 1] \subseteq Placed[i]
    <3>1. i - 1 \in Nat /\ i - 1 < K /\ (i - 1) + 1 = i /\ ~ (i <= i - 1)
      BY <1>1, <2>2, <2>3
    <3>2. i - 1 \notin T
      BY <2>1, <3>1
    <3> QED
      BY <3>1, <3>2
  <2>5. /\ Placed[i] = {s \in services : Needs(s) \subseteq Placed[i - 1]}
        /\ Placed[i + 1] = {s \in services : Needs(s) \subseteq Placed[i]}
    <3>1. i \in 0..K /\ i + 1 \in 0..K /\ i + 1 # 0 /\ (i + 1) - 1 = i
      BY <1>1, <2>2
    <3> QED
      BY <1>2, <2>3, <3>1
  <2> QED
    BY <2>2, <2>4, <2>5
<1> DEFINE T == {i \in Nat : m <= i /\ i <= n /\ ~ Placed[m] \subseteq Placed[i]}
<1> SUFFICES ASSUME T # {} PROVE FALSE
  OBVIOUS
<1>4. PICK i \in T : \A j \in T : i <= j
  <2>1. T \subseteq Nat
    OBVIOUS
  <2> HIDE DEF T
  <2> QED
    BY <2>1, LeastNumber
<1>5. i \in Nat /\ m \in Nat /\ m <= i /\ i <= n /\ ~ Placed[m] \subseteq Placed[i]
  BY <1>4
<1>6. i # m /\ i - 1 \in Nat /\ m <= i - 1 /\ i - 1 < K /\ (i - 1) + 1 = i
      /\ ~ (i <= i - 1)
  BY <1>1, <1>5 DEF K
<1>7. Placed[m] \subseteq Placed[i - 1]
  <2>1. i - 1 \notin T
    BY <1>4, <1>6
  <2> QED
    BY <1>5, <1>6, <2>1
<1>8. Placed[i - 1] \subseteq Placed[i]
  BY <1>3, <1>6
<1> QED
  BY <1>5, <1>7, <1>8

\* What a service needs is in an earlier group than the service, and in one at
\* all: this is what makes the groups a start order.
LEMMA NeedsAreEarlier ==
    ASSUME NEW n \in 1..Cardinality(Names), NEW s \in Group(n), NEW d \in Needs(s)
    PROVE  /\ \E m \in 1..(n - 1) : d \in Group(m)
           /\ \A m \in 1..Cardinality(Names) : d \in Group(m) => m < n
<1> DEFINE K == Cardinality(Names)
<1>1. K \in Nat
  BY FS_CardinalityType, LifecycleAssumption
<1> HIDE DEF K
<1>2. Placed = [k \in 0..K |-> IF k = 0 THEN {}
                     ELSE {t \in services : Needs(t) \subseteq Placed[k - 1]}]
  BY PlacedEquation DEF IsPlaced, K
<1>3. n \in 0..K /\ n # 0 /\ n - 1 \in Nat /\ 0 \in 0..K /\ n \in Nat
  BY <1>1 DEF K
<1>4. d \in Placed[n - 1] /\ Placed[0] = {}
  <2>1. s \in Placed[n]
    BY DEF Group
  <2>2. Placed[n] = {t \in services : Needs(t) \subseteq Placed[n - 1]}
    BY <1>2, <1>3
  <2>3. Placed[0] = {}
    BY <1>2, <1>3
  <2> QED
    BY <2>1, <2>2, <2>3
<1>5. \E m \in 1..(n - 1) : d \in Group(m)
  <2> DEFINE T == {k \in Nat : d \in Placed[k]}
  <2>1. PICK m \in T : \A k \in T : m <= k
    <3>1. T \subseteq Nat /\ n - 1 \in T
      BY <1>3, <1>4
    <3> HIDE DEF T
    <3> QED
      BY <3>1, LeastNumber
  <2>2. m \in Nat /\ d \in Placed[m] /\ m # 0 /\ m <= n - 1
    BY <1>3, <1>4, <2>1
  <2>3. d \notin Placed[m - 1]
    <3>1. m - 1 \in Nat /\ ~ (m <= m - 1)
      BY <2>2
    <3> QED
      BY <2>1, <3>1
  <2>4. m \in 1..(n - 1)
    BY <1>3, <2>2
  <2> QED
    BY <2>2, <2>3, <2>4 DEF Group
<1>6. ASSUME NEW m \in 1..K, d \in Group(m), ~ (m < n) PROVE FALSE
  <2>1. m - 1 \in Nat /\ n - 1 \in 0..(m - 1) /\ m - 1 <= K
    BY <1>1, <1>3, <1>6
  <2>2. Placed[n - 1] \subseteq Placed[m - 1]
    BY <2>1, PlacedGrows DEF K
  <2> QED
    BY <1>4, <1>6, <2>2 DEF Group
<1> QED
  BY <1>5, <1>6 DEF K

\* The groups are disjoint sets of services.
LEMMA GroupsAreDisjoint ==
    ASSUME NEW n \in 1..Cardinality(Names)
    PROVE  /\ Group(n) \subseteq services
           /\ \A m \in 1..(n - 1) : Group(m) \cap Group(n) = {}
<1> DEFINE K == Cardinality(Names)
<1>1. K \in Nat
  BY FS_CardinalityType, LifecycleAssumption
<1> HIDE DEF K
<1>2. n \in 0..K /\ n # 0 /\ n - 1 \in Nat /\ n - 1 <= K
  BY <1>1 DEF K
<1>3. Placed[n] \subseteq services
  <2>1. Placed = [k \in 0..K |-> IF k = 0 THEN {}
                     ELSE {t \in services : Needs(t) \subseteq Placed[k - 1]}]
    BY PlacedEquation DEF IsPlaced, K
  <2>2. Placed[n] = {t \in services : Needs(t) \subseteq Placed[n - 1]}
    BY <1>2, <2>1
  <2> QED
    BY <2>2
<1>4. ASSUME NEW m \in 1..(n - 1) PROVE Placed[m] \subseteq Placed[n - 1]
  <2>1. m \in 0..(n - 1)
    BY <1>2
  <2> QED
    BY <1>2, <2>1, PlacedGrows DEF K
<1> QED
  BY <1>3, <1>4 DEF Group

-----------------------------------------------------------------------------
(* The inductive invariant *)

\* A goto takes one goroutine to another place.
LEMMA Moved ==
    ASSUME pc \in [Goroutines -> Places], NEW p \in Goroutines,
           NEW place \in Places, Goto(p, place)
    PROVE  /\ pc' \in [Goroutines -> Places]
           /\ pc'[p] = place
           /\ \A q \in Goroutines \ {p} : pc'[q] = pc[q]
BY DEF Goto

\* Every goroutine goes to a place.
LEMMA NextPlaces ==
    ASSUME TypeOK, [Next]_vars
    PROVE  pc' \in [Goroutines -> Places]
<1> USE DEF control
<1>1. /\ pc \in [Goroutines -> Places]
      /\ Stoppers \subseteq Goroutines /\ "runner" \in Goroutines
      /\ {"app", "manager", "stopper"} = Stoppers
  BY DEF TypeOK, Goroutines, Stoppers
<1>2. ASSUME NEW p \in Goroutines, NEW place \in Places, Goto(p, place)
      PROVE  pc' \in [Goroutines -> Places]
  BY <1>1, <1>2, Moved
<1>3. ASSUME Signal \/ Runner PROVE pc' \in [Goroutines -> Places]
  <2>1. CASE WaitForShutdown
    BY <1>1, <2>1 DEF WaitForShutdown, Places
  <2>2. CASE ShutdownCompletes \/ ShutdownTimesOut
    BY <1>1, <1>2, <2>2 DEF ShutdownCompletes, ShutdownTimesOut, Places
  <2> QED
    BY <1>1, <1>3, <2>1, <2>2 DEF Signal, Runner
<1>4. ASSUME App PROVE pc' \in [Goroutines -> Places]
  <2>1. CASE SpawnManager
    BY <1>1, <2>1 DEF SpawnManager, Places
  <2>2. CASE AppBegins \/ AppSelect
    BY <1>1, <1>2, <2>2 DEF AppBegins, AppSelect, Select, Places
  <2> QED
    BY <1>4, <2>1, <2>2 DEF App
<1>5. ASSUME Manager PROVE pc' \in [Goroutines -> Places]
  BY <1>1, <1>2, <1>5 DEF Manager, Instantiate, Register, Resolve, StartGroup,
     GroupReady, GroupsStarted, ManagerSelect, Select, Report, Places
<1>6. ASSUME NEW p \in Stoppers, Stopping(p) PROVE pc' \in [Goroutines -> Places]
  <2>1. CASE AppStop(p) \/ AppWaits(p) \/ RunHooks(p)
    BY <1>1, <1>2, <2>1 DEF AppStop, Cancel, EnterOnce, AppWaits, RunHooks,
       AfterAppStop, Places
  <2>2. CASE EnterStop(p) \/ ReadGroups(p)
    BY <1>1, <1>2, <2>2 DEF EnterStop, Cancel, EnterOnce, ReadGroups, AfterStop,
       Places
  <2>3. CASE StopGroup(p) \/ GroupStopped(p) \/ StopDone(p)
    BY <1>1, <1>2, <2>3 DEF StopGroup, GroupStopped, StopDone, AfterStop, Places
  <2>4. CASE Drain(p) \/ CloseChannel(p)
    BY <1>1, <1>2, <2>4 DEF Drain, CloseChannel, Places
  <2> QED
    BY <1>6, <2>1, <2>2, <2>3, <2>4 DEF Stopping
<1>7. ASSUME NEW s \in Names, Supervised(s) PROVE pc' \in [Goroutines -> Places]
  BY <1>1, <1>7 DEF Supervised, Begin, BecomeReady, ExitCleanly, RunFails,
     EndDelay, Reported, SendFailure, TriggerFailure, StopReturns, Service
<1>8. CASE UNCHANGED vars
  BY <1>1, <1>8 DEF vars
<1> QED
  BY <1>3, <1>4, <1>5, <1>6, <1>7, <1>8 DEF Next

\* Contexts, channels and verdicts keep their types.
LEMMA NextControlType ==
    ASSUME TypeOK, PlacesFit, Sequenced, [Next]_vars
    PROVE  /\ signaled' \in BOOLEAN /\ failure' \in BOOLEAN /\ hooks' \in BOOLEAN
           /\ hasCancel' \subseteq {"app", "manager"} /\ canceled' \subseteq hasCancel'
           /\ once' \in [{"app", "manager"} -> {"free", "busy", "done"}]
           /\ errCh' \in [{"runner", "app", "manager"} -> Verdicts]
           /\ closed' \subseteq {"app", "manager"}
           /\ verdict' \in [Goroutines -> Verdicts]
           /\ first' \in Names \cup {Nothing}
<1> DEFINE Typed ==
        /\ signaled \in BOOLEAN /\ failure \in BOOLEAN /\ hooks \in BOOLEAN
        /\ hasCancel \subseteq {"app", "manager"} /\ canceled \subseteq hasCancel
        /\ once \in [{"app", "manager"} -> {"free", "busy", "done"}]
        /\ errCh \in [{"runner", "app", "manager"} -> Verdicts]
        /\ closed \subseteq {"app", "manager"}
        /\ verdict \in [Goroutines -> Verdicts]
        /\ first \in Names \cup {Nothing}
<1> USE DEF control, run
<1>1. Typed
  BY DEF TypeOK, Goroutines
<1>2. /\ {"runner", "stopper", "app", "manager"} = Goroutines
      /\ Names \cup {"no services", "cyclic dependency", "factory failed", Nothing,
                    "timeout"} \subseteq Verdicts
  BY DEF Verdicts, Setup, Goroutines, Stoppers
<1>3. ASSUME Signal \/ Runner PROVE Typed'
  BY <1>1, <1>2, <1>3 DEF Signal, Runner, WaitForShutdown, ShutdownCompletes,
     ShutdownTimesOut
<1>4. ASSUME NEW p \in {"app", "manager"}, NEW done, NEW next, Select(p, done, next)
      PROVE  Typed'
  BY <1>1, <1>2, <1>4 DEF Select
<1>5. ASSUME App PROVE Typed'
  <2>1. CASE AppSelect
    BY <1>4, <2>1 DEF AppSelect
  <2>2. CASE AppBegins \/ SpawnManager
    BY <1>1, <2>2 DEF AppBegins, SpawnManager
  <2> QED
    BY <1>5, <2>1, <2>2 DEF App
<1>6. ASSUME Manager PROVE Typed'
  <2>1. CASE ManagerSelect
    BY <1>4, <2>1 DEF ManagerSelect
  <2>2. CASE Instantiate \/ Resolve
    BY <1>1, <1>2, <2>2 DEF Instantiate, Resolve
  <2>3. CASE Register \/ StartGroup \/ GroupReady \/ GroupsStarted
    BY <1>1, <2>3 DEF Register, StartGroup, GroupReady, GroupsStarted
  <2>4. CASE Report
    BY <1>1, <1>2, <2>4 DEF Report
  <2> QED
    BY <1>6, <2>1, <2>2, <2>3, <2>4 DEF Manager
<1>7. ASSUME NEW p \in Stoppers, Stopping(p) PROVE Typed'
  <2>1. CASE AppStop(p) \/ EnterStop(p)
    BY <1>1, <2>1 DEF AppStop, EnterStop, Cancel, EnterOnce
  <2>2. CASE AppWaits(p) \/ RunHooks(p) \/ ReadGroups(p)
    BY <1>1, <2>2 DEF AppWaits, RunHooks, ReadGroups
  <2>3. CASE StopGroup(p) \/ GroupStopped(p) \/ StopDone(p) \/ Drain(p)
    BY <1>1, <2>3 DEF StopGroup, GroupStopped, StopDone, Drain
  <2>4. CASE CloseChannel(p)
    <3>1. p \in {"app", "manager"} /\ p \in hasCancel
      BY <2>4 DEF CloseChannel, At, PlacesFit, Sequenced, Stoppers, InAppStop, InStop
    <3>2. \/ errCh' = errCh
          \/ errCh' = [errCh EXCEPT !["runner"] = verdict["app"]]
      BY <2>4 DEF CloseChannel
    <3>3. errCh' \in [{"runner", "app", "manager"} -> Verdicts]
      BY <1>1, <1>2, <3>2
    <3>4. closed' = closed \cup {p} /\ canceled' = canceled \cup {p}
      BY <2>4 DEF CloseChannel
    <3> QED
      BY <1>1, <2>4, <3>1, <3>3, <3>4 DEF CloseChannel
  <2> QED
    BY <1>7, <2>1, <2>2, <2>3, <2>4 DEF Stopping
<1>8. ASSUME NEW s \in Names, Supervised(s) PROVE Typed'
  <2>1. CASE SendFailure(s) \/ TriggerFailure(s)
    BY <1>1, <1>2, <2>1 DEF SendFailure, TriggerFailure, Service
  <2>2. CASE RunFails(s) \/ EndDelay(s)
    BY <1>1, <2>2 DEF RunFails, EndDelay, Service
  <2>3. CASE Begin(s) \/ BecomeReady(s) \/ ExitCleanly(s) \/ StopReturns(s)
    BY <1>1, <2>3 DEF Begin, BecomeReady, ExitCleanly, StopReturns, Service
  <2> QED
    BY <1>8, <2>1, <2>2, <2>3 DEF Supervised, Reported
<1>9. CASE UNCHANGED vars
  BY <1>1, <1>9 DEF vars
<1> QED
  BY <1>3, <1>5, <1>6, <1>7, <1>8, <1>9 DEF Next

\* Services and groups keep their types.
LEMMA NextServicesType ==
    ASSUME TypeOK, Sequenced, [Next]_vars
    PROVE  /\ deps' = deps /\ services' = services
           /\ started' \in 0..Cardinality(Names) /\ stopAt' \in 0..started'
           /\ svc' \in [Names -> {"none", "launched", "running", "delay",
                                  "sending", "triggering", "over"}]
           /\ ready' \subseteq Notifiers
           /\ tries' \in [Names -> Nat] /\ \A s \in Names : tries'[s] <= Retries[s]
           /\ stop' \in [Names -> {"none", "stopping", "over"}]
<1> DEFINE States == {"none", "launched", "running", "delay", "sending",
                      "triggering", "over"}
           Typed == /\ svc \in [Names -> States] /\ ready \subseteq Notifiers
                    /\ tries \in [Names -> Nat]
                    /\ \A s \in Names : tries[s] <= Retries[s]
           K == Cardinality(Names)
<1> USE DEF control, run
<1>1. Typed /\ stop \in [Names -> {"none", "stopping", "over"}]
  BY DEF TypeOK
<1>2. K \in Nat /\ Groups \in Nat /\ Groups <= K
  <2> DEFINE c == Cardinality(services)
  <2>1. services \subseteq Names
    BY LifecycleAssumption DEF TypeOK
  <2>2. K \in Nat /\ c \in Nat /\ c <= K /\ Groups \in Nat /\ Groups <= c
    BY <2>1, Counts
  <2> HIDE DEF c, K
  <2> QED
    BY <2>2
<1>3. started \in 0..K /\ stopAt \in 0..started
  BY DEF TypeOK
<1> HIDE DEF K
<1>4. deps' = deps /\ services' = services
  BY DEF Next, Runner, App, Manager, Stopping, Supervised, Reported, Signal,
     WaitForShutdown, ShutdownCompletes, ShutdownTimesOut, AppBegins,
     SpawnManager, AppSelect, Instantiate, Register, Resolve, StartGroup,
     GroupReady, GroupsStarted, ManagerSelect, Select, Report, AppStop, EnterStop,
     Cancel, EnterOnce, AppWaits, RunHooks, ReadGroups, StopGroup, GroupStopped,
     StopDone, Drain, CloseChannel, Begin, BecomeReady, ExitCleanly, RunFails,
     EndDelay, SendFailure, TriggerFailure, StopReturns, Service, vars
<1>5. started' \in 0..K /\ stopAt' \in 0..started'
  <2>1. CASE GroupReady
    <3>1. started' = started + 1 /\ stopAt' = stopAt /\ started < Groups
      BY <2>1 DEF GroupReady, Sequenced
    <3> QED
      BY <1>2, <1>3, <3>1
  <2>2. ASSUME NEW p \in Stoppers, ReadGroups(p) PROVE stopAt' = started /\ started' = started
    BY <2>2 DEF ReadGroups
  <2>3. ASSUME NEW p \in Stoppers, GroupStopped(p)
        PROVE  stopAt > 0 /\ stopAt' = stopAt - 1 /\ started' = started
    BY <2>3 DEF GroupStopped
  <2>4. ASSUME ~GroupReady, ~ \E p \in Stoppers : ReadGroups(p) \/ GroupStopped(p)
        PROVE  UNCHANGED <<started, stopAt>>
    BY <2>4 DEF Next, Runner, App, Manager, Stopping, Supervised, Reported, Signal,
       WaitForShutdown, ShutdownCompletes, ShutdownTimesOut, AppBegins,
       SpawnManager, AppSelect, Instantiate, Register, Resolve, StartGroup,
       GroupsStarted, ManagerSelect, Select, Report, AppStop, EnterStop,
       Cancel, EnterOnce, AppWaits, RunHooks, StopGroup, StopDone, Drain,
       CloseChannel, Begin, BecomeReady, ExitCleanly, RunFails, EndDelay,
       SendFailure, TriggerFailure, StopReturns, Service, vars
  <2>5. \/ started' \in 0..K /\ stopAt' \in 0..started'
        \/ stopAt' = started /\ started' = started
        \/ stopAt > 0 /\ stopAt' = stopAt - 1 /\ started' = started
        \/ started' = started /\ stopAt' = stopAt
    BY <2>1, <2>2, <2>3, <2>4
  <2> QED
    BY <1>2, <1>3, <2>5
<1>6. Typed'
  <2>1. CASE StartGroup
    BY <1>1, <2>1 DEF StartGroup
  <2>2. ASSUME NEW s \in Names, RunFails(s) PROVE Typed'
    <3>1. svc' \in [Names -> States] /\ UNCHANGED ready
      BY <1>1, <2>2 DEF RunFails, Service
    <3>2. CASE tries[s] < Retries[s]
      <4>1. tries[s] \in Nat /\ Retries[s] \in Nat
        BY <1>1, LifecycleAssumption
      <4>2. tries' = [tries EXCEPT ![s] = tries[s] + 1] /\ tries[s] + 1 <= Retries[s]
        BY <2>2, <3>2, <4>1 DEF RunFails
      <4> QED
        BY <1>1, <3>1, <4>1, <4>2
    <3>3. CASE ~ (tries[s] < Retries[s])
      BY <1>1, <2>2, <3>1, <3>3 DEF RunFails
    <3> QED
      BY <3>2, <3>3
  <2>3. ASSUME NEW s \in Names, Supervised(s), ~RunFails(s) PROVE Typed'
    BY <1>1, <2>3 DEF Supervised, Reported, Begin, BecomeReady, ExitCleanly,
       EndDelay, SendFailure, TriggerFailure, StopReturns, Service
  <2>4. ASSUME ~StartGroup, ~ \E s \in Names : Supervised(s)
        PROVE  UNCHANGED <<svc, ready, tries>>
    BY <2>4 DEF Next, Runner, App, Manager, Stopping, Signal, WaitForShutdown,
       ShutdownCompletes, ShutdownTimesOut, AppBegins, SpawnManager, AppSelect,
       Instantiate, Register, Resolve, GroupReady, GroupsStarted, ManagerSelect,
       Select, Report, AppStop, EnterStop, Cancel, EnterOnce, AppWaits, RunHooks,
       ReadGroups, StopGroup, GroupStopped, StopDone, Drain, CloseChannel, vars
  <2> QED
    BY <1>1, <2>1, <2>2, <2>3, <2>4
<1>7. stop' \in [Names -> {"none", "stopping", "over"}]
  <2>1. ASSUME NEW p \in Stoppers, StopGroup(p)
        PROVE  stop' \in [Names -> {"none", "stopping", "over"}]
    BY <1>1, <2>1 DEF StopGroup
  <2>2. ASSUME NEW s \in Names, StopReturns(s)
        PROVE  stop' \in [Names -> {"none", "stopping", "over"}]
    BY <1>1, <2>2 DEF StopReturns
  <2>3. ASSUME ~ \E p \in Stoppers : StopGroup(p), ~ \E s \in Names : StopReturns(s)
        PROVE  UNCHANGED stop
    BY <2>3 DEF Next, Runner, App, Manager, Stopping, Supervised, Reported, Signal,
       WaitForShutdown, ShutdownCompletes, ShutdownTimesOut, AppBegins,
       SpawnManager, AppSelect, Instantiate, Register, Resolve, StartGroup,
       GroupReady, GroupsStarted, ManagerSelect, Select, Report, AppStop, EnterStop,
       Cancel, EnterOnce, AppWaits, RunHooks, ReadGroups, GroupStopped,
       StopDone, Drain, CloseChannel, Begin, BecomeReady, ExitCleanly, RunFails,
       EndDelay, SendFailure, TriggerFailure, Service, vars
  <2> QED
    BY <1>1, <2>1, <2>2, <2>3
<1> QED
  BY <1>4, <1>5, <1>6, <1>7 DEF K

\* Every variable keeps its type.
LEMMA NextType ==
    ASSUME TypeOK, PlacesFit, Sequenced, [Next]_vars
    PROVE  TypeOK'
<1>1. deps' \in Graphs /\ services' \in Selections
  BY NextServicesType DEF TypeOK
<1> QED
  BY <1>1, NextPlaces, NextControlType, NextServicesType DEF TypeOK, Goroutines

\* Init establishes the base of the invariant.
LEMMA InitBase == Init => BaseInv
<1> SUFFICES ASSUME Init PROVE BaseInv
  OBVIOUS
<1>1. /\ pc["runner"] = "wait" /\ pc["app"] = "begin"
      /\ pc["manager"] = "none" /\ pc["stopper"] = "none"
      /\ pc \in [Goroutines -> Places]
  BY DEF Init, Goroutines, Stoppers, Places
<1>2. TypeOK
  <2>1. Cardinality(Names) \in Nat
    BY FS_CardinalityType, LifecycleAssumption
  <2> DEFINE K == Cardinality(Names)
  <2>2. 0 \in 0..K /\ 0 \in 0..0
    BY <2>1
  <2>3. started \in 0..Cardinality(Names) /\ stopAt \in 0..started
    BY <2>2 DEF Init
  <2>4. /\ tries \in [Names -> Nat] /\ \A s \in Names : tries[s] <= Retries[s]
    BY LifecycleAssumption DEF Init
  <2>5. /\ errCh \in [{"runner", "app", "manager"} -> Verdicts]
        /\ verdict \in [Stoppers \cup {"runner"} -> Verdicts]
        /\ first \in Names \cup {Nothing}
    BY DEF Init, Verdicts
  <2> QED
    BY <1>1, <2>3, <2>4, <2>5 DEF Init, TypeOK, Goroutines
<1>3. PlacesFit /\ Sequenced /\ ServicesFit /\ ChannelsFit
  BY <1>1 DEF Init, PlacesFit, Sequenced, ServicesFit, ChannelsFit, ManagerEarly, At
<1> QED
  BY <1>2, <1>3 DEF BaseInv

\* The goroutines of the two Stops go from place to place on these ways only.
LEMMA StoppingMoves ==
    ASSUME NEW p \in Stoppers, Stopping(p)
    PROVE  /\ UNCHANGED <<deps, services, signaled, hasCancel, started, verdict,
                          svc, ready, tries, failure, first>>
           /\ \/ UNCHANGED pc
              \/ /\ pc[p] \in {"appCancel", "appOnce", "appWait"}
                 /\ \E place \in InAppStop : Goto(p, place)
              \/ pc[p] \in {"appOnce", "hooks"} /\ Goto(p, AfterAppStop(p))
              \/ pc[p] \in InStop /\ \E place \in InStop : Goto(p, place)
              \/ pc[p] \in InStop /\ Goto(p, AfterStop(p))
              \/ pc[p] = "drain" /\ Goto(p, "close")
              \/ pc[p] = "close" /\ p = "app" /\ Goto(p, "done")
              \/ pc[p] = "close" /\ p # "app" /\ Goto(p, "report")
<1> USE DEF control, run
<1>1. CASE AppStop(p) \/ AppWaits(p) \/ RunHooks(p)
  BY <1>1 DEF AppStop, Cancel, EnterOnce, AppWaits, RunHooks, At, InAppStop,
     InStop
<1>2. CASE EnterStop(p) \/ ReadGroups(p) \/ StopDone(p)
  BY <1>2 DEF EnterStop, Cancel, EnterOnce, ReadGroups, StopDone, At, InStop
<1>3. CASE StopGroup(p) \/ GroupStopped(p)
  BY <1>3 DEF StopGroup, GroupStopped
<1>4. CASE Drain(p) \/ CloseChannel(p)
  BY <1>4 DEF Drain, CloseChannel, At
<1> QED
  BY <1>1, <1>2, <1>3, <1>4 DEF Stopping

\* The services go their own ways.
LEMMA SupervisedMoves ==
    ASSUME NEW s \in Names, Supervised(s)
    PROVE  UNCHANGED <<deps, services, pc, verdict, signaled, hasCancel, canceled,
                       once, started, stopAt, closed, hooks>>
BY DEF Supervised, Begin, BecomeReady, ExitCleanly, RunFails, EndDelay, Reported,
   SendFailure, TriggerFailure, StopReturns, Service, control, run

\* The start order does not change while the program runs.
LEMMA GroupsStay ==
    ASSUME UNCHANGED <<deps, services>>
    PROVE  /\ Groups' = Groups /\ \A n : Group(n)' = Group(n)
           /\ \A s : Needs(s)' = Needs(s)
BY DEF Groups, Group, Placed, Needs

\* Every goroutine stays on its path.
LEMMA NextPlacesFit ==
    ASSUME pc \in [Goroutines -> Places], PlacesFit, [Next]_vars
    PROVE  PlacesFit'
<1> USE DEF control
<1>1. /\ "runner" \in Goroutines /\ "app" \in Goroutines /\ "manager" \in Goroutines
      /\ "stopper" \in Goroutines /\ Stoppers = {"app", "manager", "stopper"}
  BY DEF Goroutines, Stoppers
<1>2. ASSUME Signal \/ Runner PROVE PlacesFit'
  BY <1>1, <1>2 DEF Signal, Runner, WaitForShutdown, ShutdownCompletes,
     ShutdownTimesOut, PlacesFit, InAppStop, Goto, At
<1>3. ASSUME App PROVE PlacesFit'
  BY <1>1, <1>3 DEF App, AppBegins, SpawnManager, AppSelect, Select, PlacesFit,
     InAppStop, Goto, At
<1>4. ASSUME Manager PROVE PlacesFit'
  <2>1. \E place \in {"create", "register", "resolve", "start", "ready", "select",
                      "smCancel", "report", "done"} : Goto("manager", place)
    BY <1>4 DEF Manager, Instantiate, Register, Resolve, StartGroup,
       GroupReady, GroupsStarted, ManagerSelect, Select, Report
  <2> QED
    BY <1>1, <2>1 DEF Goto, PlacesFit, InStop
<1>5. ASSUME NEW p \in Stoppers, Stopping(p) PROVE PlacesFit'
  <2>1. CASE p = "app"
    BY <1>1, <1>5, <2>1, StoppingMoves
    DEF PlacesFit, Goto, AfterAppStop, AfterStop, InAppStop, InStop
  <2>2. CASE p = "manager"
    BY <1>1, <1>5, <2>2, StoppingMoves
    DEF PlacesFit, Goto, AfterAppStop, AfterStop, InAppStop, InStop
  <2>3. CASE p = "stopper"
    BY <1>1, <1>5, <2>3, StoppingMoves
    DEF PlacesFit, Goto, AfterAppStop, AfterStop, InAppStop, InStop
  <2> QED
    BY <1>1, <2>1, <2>2, <2>3
<1>6. ASSUME NEW s \in Names, Supervised(s) PROVE PlacesFit'
  BY <1>6, SupervisedMoves DEF PlacesFit
<1>7. CASE UNCHANGED vars
  BY <1>7 DEF vars, PlacesFit
<1> QED
  BY <1>2, <1>3, <1>4, <1>5, <1>6, <1>7 DEF Next

\* What is done before what.
LEMMA NextSequenced ==
    ASSUME TypeOK, PlacesFit, Sequenced, [Next]_vars
    PROVE  Sequenced'
<1> USE DEF control, run
<1>1. /\ "runner" \in Goroutines /\ "app" \in Goroutines /\ "manager" \in Goroutines
      /\ "stopper" \in Goroutines /\ Stoppers = {"app", "manager", "stopper"}
  BY DEF Goroutines, Stoppers
<1>2. pc \in [Goroutines -> Places] /\ hasCancel \subseteq {"app", "manager"}
      /\ signaled \in BOOLEAN
  BY DEF TypeOK, Goroutines
<1>3. Groups' = Groups
  BY NextServicesType, GroupsStay
<1>4. ASSUME Signal \/ Runner PROVE Sequenced'
  BY <1>1, <1>2, <1>3, <1>4 DEF Signal, Runner, WaitForShutdown,
     ShutdownCompletes, ShutdownTimesOut, PlacesFit, Sequenced, Goto, At
<1>5. ASSUME App PROVE Sequenced'
  BY <1>1, <1>2, <1>3, <1>5 DEF App, AppBegins, SpawnManager, AppSelect, Select,
     PlacesFit, Sequenced, Goto, At
<1>6. ASSUME Manager PROVE Sequenced'
  BY <1>1, <1>2, <1>3, <1>6 DEF Manager, Instantiate, Register, Resolve,
     StartGroup, GroupReady, GroupsStarted, ManagerSelect, Select, Report,
     PlacesFit, Sequenced, Goto, At, InStop
<1>7. ASSUME NEW p \in Stoppers, Stopping(p) PROVE Sequenced'
  <2>1. UNCHANGED <<signaled, hasCancel, started>>
    BY <1>7, StoppingMoves
  <2>2. CASE p = "app"
    BY <1>1, <1>2, <1>3, <1>7, <2>1, <2>2, StoppingMoves
    DEF PlacesFit, Sequenced, Goto, At, AfterAppStop, AfterStop, InAppStop, InStop
  <2>3. CASE p = "manager"
    BY <1>1, <1>2, <1>3, <1>7, <2>1, <2>3, StoppingMoves
    DEF PlacesFit, Sequenced, Goto, At, AfterAppStop, AfterStop, InAppStop, InStop
  <2>4. CASE p = "stopper"
    BY <1>1, <1>2, <1>3, <1>7, <2>1, <2>4, StoppingMoves
    DEF PlacesFit, Sequenced, Goto, At, AfterAppStop, AfterStop, InAppStop, InStop
  <2> QED
    BY <1>1, <2>2, <2>3, <2>4
<1>8. ASSUME NEW s \in Names, Supervised(s) PROVE Sequenced'
  BY <1>3, <1>8, SupervisedMoves DEF Sequenced, At
<1>9. CASE UNCHANGED vars
  BY <1>3, <1>9 DEF vars, Sequenced, At
<1> QED
  BY <1>4, <1>5, <1>6, <1>7, <1>8, <1>9 DEF Next

\* Who changes the services: the start of a group, and the services themselves.
LEMMA ServicesMove ==
    ASSUME TypeOK, [Next]_vars
    PROVE  \/ UNCHANGED <<svc, ready, failure, first>>
           \/ StartGroup
           \/ \E s \in Names :
                 /\ Supervised(s)
                 /\ \/ UNCHANGED svc
                    \/ /\ svc[s] \notin {"none", "over"}
                       /\ \E to \in {"running", "delay", "sending", "triggering",
                                     "over"} : svc' = [svc EXCEPT ![s] = to]
<1>1. ASSUME NEW s \in Names, Supervised(s)
      PROVE  \/ UNCHANGED svc
             \/ /\ svc[s] \notin {"none", "over"}
                /\ \E to \in {"running", "delay", "sending", "triggering",
                              "over"} : svc' = [svc EXCEPT ![s] = to]
  BY <1>1 DEF Supervised, Begin, BecomeReady, ExitCleanly, RunFails, EndDelay,
     Reported, SendFailure, TriggerFailure, StopReturns, Service, run
<1>2. ASSUME NEW p \in Stoppers, Stopping(p)
      PROVE  UNCHANGED <<svc, ready, failure, first>>
  BY <1>2, StoppingMoves
<1>3. ASSUME Signal \/ Runner \/ App \/ Manager, ~StartGroup
      PROVE  UNCHANGED <<svc, ready, failure, first>>
  BY <1>3 DEF Runner, App, Manager, Signal, WaitForShutdown, ShutdownCompletes,
     ShutdownTimesOut, AppBegins, SpawnManager, AppSelect, Instantiate, Register,
     Resolve, GroupReady, GroupsStarted, ManagerSelect, Select, Report, run
<1>4. CASE UNCHANGED vars
  BY <1>4 DEF vars, run
<1> QED
  BY <1>1, <1>2, <1>3, <1>4 DEF Next

\* Where the manager can go from where it is.
LEMMA ManagerGoes ==
    ASSUME TypeOK, PlacesFit, Sequenced, [Next]_vars
    PROVE  LET from == pc["manager"]
               to   == pc'["manager"]
           IN \/ to = from
              \/ from = "none" /\ to = "create"
              \/ from = "create" /\ to \in {"register", "report"}
              \/ from = "register" /\ to = "resolve"
              \/ from = "resolve" /\ to \in {"start", "smCancel"} /\ Resolve
              \/ from = "start" /\ to = "ready" /\ StartGroup
              \/ from = "start" /\ to = "select"
              \/ from = "ready" /\ to = "start" /\ GroupReady
              \/ from = "select" /\ to = "smCancel"
              \/ from \in InStop /\ to \in InStop \cup {"drain"}
              \/ from = "drain" /\ to = "close" /\ Drain("manager")
              \/ from = "close" /\ to = "report"
              \/ from = "report" /\ to = "done"
<1> USE DEF control
<1>1. /\ "runner" \in Goroutines /\ "app" \in Goroutines /\ "manager" \in Goroutines
      /\ "stopper" \in Goroutines /\ Stoppers = {"app", "manager", "stopper"}
      /\ pc \in [Goroutines -> Places]
  BY DEF Goroutines, Stoppers, TypeOK
<1> DEFINE Goes == LET from == pc["manager"]
               to   == pc'["manager"]
           IN \/ to = from
              \/ from = "none" /\ to = "create"
              \/ from = "create" /\ to \in {"register", "report"}
              \/ from = "register" /\ to = "resolve"
              \/ from = "resolve" /\ to \in {"start", "smCancel"} /\ Resolve
              \/ from = "start" /\ to = "ready" /\ StartGroup
              \/ from = "start" /\ to = "select"
              \/ from = "ready" /\ to = "start" /\ GroupReady
              \/ from = "select" /\ to = "smCancel"
              \/ from \in InStop /\ to \in InStop \cup {"drain"}
              \/ from = "drain" /\ to = "close" /\ Drain("manager")
              \/ from = "close" /\ to = "report"
              \/ from = "report" /\ to = "done"
<1>2. ASSUME Signal \/ Runner \/ App PROVE Goes
  <2>1. CASE SpawnManager
    BY <1>1, <2>1 DEF SpawnManager, Sequenced, At
  <2>2. CASE ~SpawnManager
    BY <1>1, <1>2, <2>2 DEF Signal, Runner, App, WaitForShutdown, ShutdownCompletes,
       ShutdownTimesOut, AppBegins, AppSelect, Select, Goto, At
  <2> QED
    BY <2>1, <2>2
<1>3. ASSUME Manager PROVE Goes
  <2>1. CASE StartGroup
    <3>1. pc["manager"] = "start" /\ pc'["manager"] = "ready"
      BY <1>1, <2>1 DEF StartGroup, Goto, At
    <3> QED
      BY <2>1, <3>1
  <2>2. CASE GroupReady
    <3>1. pc["manager"] = "ready" /\ pc'["manager"] = "start"
      BY <1>1, <2>2 DEF GroupReady, Goto, At
    <3> QED
      BY <2>2, <3>1
  <2>3. CASE Resolve
    <3>1. pc["manager"] = "resolve" /\ pc'["manager"] \in {"start", "smCancel"}
      BY <1>1, <2>3 DEF Resolve, Goto, At
    <3> QED
      BY <2>3, <3>1
  <2>4. CASE Instantiate \/ Register \/ GroupsStarted \/ ManagerSelect \/ Report
    BY <1>1, <2>4 DEF Instantiate, Register, GroupsStarted, ManagerSelect, Select,
       Report, Goto, At
  <2> QED
    BY <1>3, <2>1, <2>2, <2>3, <2>4 DEF Manager
<1>4. ASSUME NEW p \in Stoppers, Stopping(p) PROVE Goes
  <2>1. CASE p # "manager"
    BY <1>1, <1>4, <2>1, StoppingMoves DEF Goto
  <2>2. CASE p = "manager" /\ At("manager", "drain")
    <3>1. Drain("manager") \/ UNCHANGED pc
      BY <1>4, <2>2 DEF Stopping, AppStop, AppWaits, RunHooks, EnterStop, ReadGroups,
         StopGroup, GroupStopped, StopDone, CloseChannel, At
    <3> QED
      BY <1>1, <2>2, <3>1 DEF Drain, Goto, At
  <2>3. CASE p = "manager" /\ ~At("manager", "drain")
    BY <1>1, <1>4, <2>3, StoppingMoves
    DEF PlacesFit, Goto, At, AfterStop, InStop, InAppStop
  <2> QED
    BY <2>1, <2>2, <2>3
<1>5. ASSUME NEW s \in Names, Supervised(s) PROVE Goes
  BY <1>5, SupervisedMoves
<1>6. CASE UNCHANGED vars
  BY <1>6 DEF vars
<1> QED
  BY <1>2, <1>3, <1>4, <1>5, <1>6 DEF Next

\* There are no services before the groups are started and after the manager
\* has waited for them.
LEMMA NextServicesFit ==
    ASSUME TypeOK, PlacesFit, Sequenced, ServicesFit, [Next]_vars
    PROVE  ServicesFit'
<1>1. ASSUME ManagerEarly' PROVE \A s \in Names : svc'[s] = "none"
  <2>1. ManagerEarly /\ ~StartGroup
    BY <1>1, ManagerGoes DEF ManagerEarly, InStop, StartGroup, At
  <2>2. \A s \in Names : svc[s] = "none"
    BY <2>1 DEF ServicesFit
  <2> QED
    BY <2>1, <2>2, ServicesMove
<1>2. ASSUME pc'["manager"] \in {"close", "report", "done"}
      PROVE  \A s \in Names : svc'[s] \in {"none", "over"}
  <2>1. ~StartGroup
    <3>1. StartGroup => pc["manager"] = "start"
      BY DEF StartGroup, At
    <3> QED
      BY <1>2, <3>1, ManagerGoes DEF InStop, StartGroup, Goto, TypeOK, Stoppers
  <2>2. \A s \in Names : svc[s] \in {"none", "over"}
    <3>1. \/ pc["manager"] \in {"close", "report", "done"}
          \/ pc["manager"] = "create"
          \/ Drain("manager")
      BY <1>2, ManagerGoes DEF InStop
    <3> QED
      BY <3>1 DEF ServicesFit, ManagerEarly, Drain
  <2> QED
    BY <2>1, <2>2, ServicesMove
<1> QED
  BY <1>1, <1>2 DEF ServicesFit

\* The channels.
LEMMA NextChannelsFit ==
    ASSUME TypeOK, PlacesFit, Sequenced, ChannelsFit, [Next]_vars
    PROVE  ChannelsFit'
<1> USE DEF control, run
<1>1. /\ "runner" \in Goroutines /\ "app" \in Goroutines /\ "manager" \in Goroutines
      /\ "stopper" \in Goroutines /\ Stoppers = {"app", "manager", "stopper"}
      /\ pc \in [Goroutines -> Places]
  BY DEF Goroutines, Stoppers, TypeOK
<1>2. pc["manager"] \in {"report", "done"} => pc'["manager"] \in {"report", "done"}
  BY ManagerGoes DEF InStop
<1>3. pc["manager"] = "done" => pc'["manager"] = "done"
  BY ManagerGoes DEF InStop
<1>4. ASSUME NEW p \in Stoppers, Drain(p) PROVE ChannelsFit'
  <2>1. UNCHANGED closed /\ pc' = [pc EXCEPT ![p] = "close"] /\ pc[p] = "drain"
    BY <1>4 DEF Drain, Goto, At
  <2>2. p = "app" => pc["manager"] = "done"
    BY <1>4, <2>1 DEF Drain, Sequenced
  <2> QED
    BY <1>1, <1>2, <1>3, <2>1, <2>2 DEF ChannelsFit
<1>5. ASSUME NEW p \in Stoppers, CloseChannel(p) PROVE ChannelsFit'
  <2>1. closed' = closed \cup {p} /\ pc[p] = "close" /\ p \in {"app", "manager"}
    BY <1>1, <1>5 DEF CloseChannel, At, PlacesFit, InAppStop, InStop
  <2>2. pc' = [pc EXCEPT ![p] = IF p = "app" THEN "done" ELSE "report"]
    BY <1>5 DEF CloseChannel, Goto
  <2> QED
    BY <1>1, <1>2, <1>3, <2>1, <2>2 DEF ChannelsFit
<1>6. ASSUME NEW p \in Stoppers, Stopping(p), ~Drain(p), ~CloseChannel(p)
      PROVE  ChannelsFit'
  <2>1. UNCHANGED closed
    BY <1>6 DEF Stopping, AppStop, AppWaits, RunHooks, EnterStop, ReadGroups,
       StopGroup, GroupStopped, StopDone, Cancel, EnterOnce
  <2>2. pc'["app"] \in {"close", "done"} => pc'["app"] = pc["app"]
    <3>1. \/ UNCHANGED pc
          \/ \E place \in {"appOnce", "smCancel", "drain", "hooks", "smOnce", "smLock",
                           "smStop", "appWait", "done"} :
                Goto(p, place) /\ (p = "app" => place # "done")
      BY <1>6 DEF Stopping, AppStop, AppWaits, RunHooks, EnterStop, ReadGroups,
       StopGroup, GroupStopped, StopDone, Cancel, EnterOnce, AfterAppStop, AfterStop
    <3> QED
      BY <1>1, <3>1 DEF Goto
  <2>3. pc["app"] = "done" => pc'["app"] = "done"
    BY <1>1, <1>6, StoppingMoves DEF Goto, InAppStop, InStop
  <2> QED
    BY <1>2, <1>3, <2>1, <2>2, <2>3 DEF ChannelsFit
<1>7. ASSUME Signal \/ Runner \/ App \/ Manager PROVE ChannelsFit'
  <2>1. UNCHANGED closed
    BY <1>7 DEF Runner, App, Manager, Signal, WaitForShutdown, ShutdownCompletes,
     ShutdownTimesOut, AppBegins, SpawnManager, AppSelect, Instantiate, Register,
     Resolve, StartGroup, GroupReady, GroupsStarted, ManagerSelect, Select, Report
  <2>2. \/ pc'["app"] = pc["app"]
        \/ pc["app"] # "done" /\ pc'["app"] \in {"spawn", "select", "appCancel"}
    <3>1. CASE Signal \/ Runner
      BY <1>1, <3>1 DEF Runner, Signal, WaitForShutdown, ShutdownCompletes,
         ShutdownTimesOut, Goto
    <3>2. CASE App
      BY <1>1, <3>2 DEF App, AppBegins, SpawnManager, AppSelect, Select, Goto, At
    <3>3. CASE Manager
      BY <1>1, <3>3 DEF Manager, Instantiate, Register, Resolve, StartGroup,
         GroupReady, GroupsStarted, ManagerSelect, Select, Report, Goto
    <3> QED
      BY <1>7, <3>1, <3>2, <3>3
  <2> QED
    BY <1>2, <1>3, <2>1, <2>2 DEF ChannelsFit
<1>8. ASSUME NEW s \in Names, Supervised(s) PROVE ChannelsFit'
  BY <1>8, SupervisedMoves DEF ChannelsFit
<1>9. CASE UNCHANGED vars
  BY <1>9 DEF vars, ChannelsFit
<1> QED
  BY <1>4, <1>5, <1>6, <1>7, <1>8, <1>9 DEF Next

\* The base of the invariant is inductive.
LEMMA NextBase == BaseInv /\ [Next]_vars => BaseInv'
<1> SUFFICES ASSUME BaseInv, [Next]_vars PROVE BaseInv'
  OBVIOUS
<1>1. /\ TypeOK /\ PlacesFit /\ Sequenced /\ ServicesFit /\ ChannelsFit
      /\ pc \in [Goroutines -> Places]
  BY DEF BaseInv, TypeOK, Goroutines
<1>2. PlacesFit' /\ Sequenced'
  BY <1>1, NextPlacesFit, NextSequenced
<1>3. TypeOK' /\ ServicesFit' /\ ChannelsFit'
  BY <1>1, NextType, NextServicesFit, NextChannelsFit
<1> QED
  BY <1>2, <1>3 DEF BaseInv

LEMMA BaseAlways == Spec => []BaseInv
BY InitBase, NextBase, PTL DEF Spec

\* TypeOK: every variable of the process has its type in every reachable state;
\* no more groups are stopped than were started, and no service is tried more
\* often than its MaxRetries allow (runService, service_manager.go).
THEOREM TypeCorrect == Spec => []TypeOK
BY BaseAlways, PTL DEF BaseInv

\* NoSendOnClosed: when an error channel is closed, nobody who could send on it
\* is left, neither a service (ServiceManager.Run) nor the manager's goroutine
\* (App.Run, app.go:84).
THEOREM ChannelsClosedLast == Spec => []NoSendOnClosed
<1>1. BaseInv => NoSendOnClosed
  BY DEF BaseInv, ServicesFit, ChannelsFit, NoSendOnClosed
<1> QED
  BY <1>1, BaseAlways, PTL

-----------------------------------------------------------------------------
(* The way of a failure *)

\* Without a signal nobody cancels anything before the failure has been taken.
LEMMA NextFailureTravels ==
    ASSUME BaseInv, FailureTravels, [Next]_vars
    PROVE  FailureTravels'
<1> USE DEF control, run, Goto, At, ManagerEarly, ManagerOpen, AppOpen
<1>1. /\ "runner" \in Goroutines /\ "app" \in Goroutines /\ "manager" \in Goroutines
      /\ "stopper" \in Goroutines /\ Stoppers = {"app", "manager", "stopper"}
  BY DEF Goroutines, Stoppers
<1>2. /\ pc \in [Goroutines -> Places]
      /\ signaled \in BOOLEAN
      /\ errCh \in [{"runner", "app", "manager"} -> Verdicts]
      /\ verdict \in [Goroutines -> Verdicts]
      /\ svc \in [Names -> {"none", "launched", "running", "delay", "sending",
                            "triggering", "over"}]
  BY DEF BaseInv, TypeOK, Goroutines
<1>3. PlacesFit /\ Sequenced /\ ServicesFit /\ ChannelsFit
  BY DEF BaseInv
<1>4. CASE Signal
  BY <1>2, <1>4 DEF Signal, FailureTravels
<1>5. CASE WaitForShutdown
  BY <1>1, <1>2, <1>3, <1>5 DEF WaitForShutdown, FailureTravels
<1>6. CASE ShutdownCompletes \/ ShutdownTimesOut
  BY <1>1, <1>2, <1>3, <1>6
  DEF ShutdownCompletes, ShutdownTimesOut, FailureTravels
<1>7. CASE AppBegins \/ SpawnManager
  BY <1>1, <1>2, <1>3, <1>7 DEF AppBegins, SpawnManager, FailureTravels, Sequenced
<1>8. CASE AppSelect
  BY <1>1, <1>2, <1>3, <1>8 DEF AppSelect, Select, AppDone, FailureTravels, Sequenced
<1>9. CASE Instantiate
  BY <1>1, <1>2, <1>3, <1>9 DEF Instantiate, FailureTravels, ServicesFit, Sequenced
<1>10. CASE Register \/ StartGroup \/ GroupReady \/ GroupsStarted
  BY <1>1, <1>2, <1>3, <1>10
  DEF Register, StartGroup, GroupReady, GroupsStarted, FailureTravels
<1>11. CASE Resolve
  BY <1>1, <1>2, <1>3, <1>11 DEF Resolve, FailureTravels, ServicesFit
<1>12. CASE ManagerSelect
  BY <1>1, <1>2, <1>3, <1>12
  DEF ManagerSelect, Select, ManagerDone, AppDone, FailureTravels
<1>13. CASE Report
  BY <1>1, <1>2, <1>3, <1>13 DEF Report, FailureTravels, Sequenced
<1>14. ASSUME NEW p \in Stoppers, AppStop(p) \/ EnterStop(p) PROVE FailureTravels'
  BY <1>1, <1>2, <1>3, <1>14 DEF AppStop, EnterStop, Cancel, EnterOnce,
     AfterAppStop, AfterStop, FailureTravels, PlacesFit, Sequenced, InAppStop, InStop
<1>15. ASSUME NEW p \in Stoppers, CloseChannel(p) PROVE FailureTravels'
  BY <1>1, <1>2, <1>3, <1>15 DEF CloseChannel, FailureTravels, PlacesFit,
     Sequenced, InAppStop, InStop
<1>16. ASSUME NEW p \in Stoppers, Stopping(p),
              ~AppStop(p), ~EnterStop(p), ~CloseChannel(p)
       PROVE  FailureTravels'
  <2>1. UNCHANGED <<signaled, errCh, canceled, verdict, first, svc>>
    BY <1>16 DEF Stopping, AppWaits, RunHooks, ReadGroups, StopGroup, GroupStopped,
       StopDone, Drain
  <2>2. ManagerOpen' <=> ManagerOpen
    BY <1>1, <1>2, <1>3, <1>16, StoppingMoves DEF InAppStop, InStop, AfterAppStop, AfterStop
  <2>3. AppOpen' <=> AppOpen
    BY <1>1, <1>2, <1>3, <1>16, StoppingMoves DEF InAppStop, InStop, AfterAppStop, AfterStop
  <2>4. pc'["runner"] = pc["runner"] /\ (ManagerEarly' <=> ManagerEarly)
    BY <1>1, <1>2, <1>3, <1>16, StoppingMoves DEF InAppStop, InStop, AfterAppStop, AfterStop
  <2>5. pc'["manager"] = "done" <=> pc["manager"] = "done"
    BY <1>1, <1>2, <1>3, <1>16, StoppingMoves
    DEF InAppStop, InStop, AfterAppStop, AfterStop, PlacesFit
  <2>6. pc'["app"] = "done" => pc["app"] = "done"
    <3>1. UNCHANGED pc \/ \E place \in Places : Goto(p, place) /\ (p = "app" => place # "done")
      BY <1>16 DEF Stopping, AppWaits, RunHooks, ReadGroups, StopGroup, GroupStopped,
         StopDone, Drain, AfterAppStop, AfterStop, Places
    <3> QED
      BY <1>1, <1>2, <3>1
  <2> QED
    BY <2>1, <2>2, <2>3, <2>4, <2>5, <2>6 DEF FailureTravels
<1>17. ASSUME NEW s \in Names, SendFailure(s) PROVE FailureTravels'
  BY <1>1, <1>2, <1>3, <1>17 DEF SendFailure, Service, FailureTravels, ServicesFit
<1>18. ASSUME NEW s \in Names, Supervised(s), ~SendFailure(s) PROVE FailureTravels'
  <2>1. UNCHANGED <<signaled, pc, errCh, canceled, verdict, first>>
    BY <1>18 DEF Supervised, Begin, BecomeReady, ExitCleanly, RunFails, EndDelay,
       Reported, TriggerFailure, StopReturns, Service
  <2>2. (\A t \in Names : svc[t] = "none") => \A t \in Names : svc'[t] = "none"
    BY <1>18 DEF Supervised, Begin, BecomeReady, ExitCleanly, RunFails, EndDelay,
       Reported, TriggerFailure, StopReturns, Service
  <2> QED
    BY <2>1, <2>2 DEF FailureTravels
<1>19. CASE UNCHANGED vars
  BY <1>19 DEF vars, FailureTravels
<1> QED
  BY <1>4, <1>5, <1>6, <1>7, <1>8, <1>9, <1>10, <1>11, <1>12, <1>13, <1>14, <1>15,
     <1>16, <1>17, <1>18, <1>19 DEF Next, Runner, App, Manager, Supervised, Reported

LEMMA FailureAlways == Spec => []FailureTravels
<1>1. Init => FailureTravels
  BY DEF Init, FailureTravels, ManagerEarly, ManagerOpen, AppOpen, Stoppers
<1>2. BaseInv /\ FailureTravels /\ [Next]_vars => FailureTravels'
  BY NextFailureTravels
<1> QED
  BY <1>1, <1>2, BaseAlways, PTL DEF Spec

\* FirstFailureWins: without a signal, a process that ends and has seen a service
\* fail for good reports the first such failure, or that stopping took too long:
\* the send on the full channel (handleServiceError, service_manager.go) drops
\* the later ones, and neither select (Run of the manager and of the app) can see
\* a cancelled context before it.
THEOREM FirstFailureIsReported == Spec => []FirstFailureWins
<1>1. BaseInv /\ FailureTravels => FirstFailureWins
  <2> SUFFICES ASSUME BaseInv, FailureTravels, At("runner", "done"), ~signaled,
                      first # Nothing
               PROVE  verdict["runner"] \in {first, "timeout"}
    BY DEF FirstFailureWins
  <2>1. pc["app"] = "done" /\ pc["runner"] = "done"
    BY DEF BaseInv, Sequenced, At
  <2>2. pc["manager"] = "done" /\ verdict["app"] = verdict["manager"]
    BY <2>1 DEF FailureTravels, AppOpen
  <2>3. verdict["manager"] = first
    BY <2>2 DEF FailureTravels, ManagerOpen, ManagerEarly
  <2> QED
    BY <2>1, <2>2, <2>3 DEF FailureTravels
<1> QED
  BY <1>1, FailureAlways, BaseAlways, PTL

-----------------------------------------------------------------------------
(* The order of starting and stopping *)

\* What has come stays.
LEMMA Lasting ==
    ASSUME TypeOK, [Next]_vars
    PROVE  /\ failure => failure'
           /\ ManagerDone => ManagerDone'
           /\ ready \subseteq ready'
           /\ \A s \in Names : svc[s] = "over" /\ ~StartGroup => svc'[s] = "over"
           /\ \A s \in Names : Launched(s) => Launched(s)'
           /\ ~StartGroup => \A s \in Names : Launched(s)' => Launched(s)
<1> USE DEF control, run
<1>1. svc \in [Names -> {"none", "launched", "running", "delay", "sending",
                         "triggering", "over"}]
  BY DEF TypeOK
<1>2. canceled \subseteq canceled'
  <2>1. ASSUME NEW p \in Stoppers, Stopping(p) PROVE canceled \subseteq canceled'
    BY <2>1 DEF Stopping, AppStop, EnterStop, Cancel, EnterOnce, AppWaits, RunHooks,
       ReadGroups, StopGroup, GroupStopped, StopDone, Drain, CloseChannel
  <2>2. ASSUME NEW s \in Names, Supervised(s) PROVE canceled \subseteq canceled'
    BY <2>2, SupervisedMoves
  <2>3. CASE Signal \/ Runner \/ App \/ Manager
    BY <2>3 DEF Runner, App, Manager, Signal, WaitForShutdown, ShutdownCompletes,
     ShutdownTimesOut, AppBegins, SpawnManager, AppSelect, Instantiate, Register,
     Resolve, StartGroup, GroupReady, GroupsStarted, ManagerSelect, Select, Report
  <2> QED
    BY <2>1, <2>2, <2>3 DEF Next, vars
<1>3. ManagerDone => ManagerDone'
  BY <1>2 DEF ManagerDone, AppDone
<1>4. ASSUME NEW s \in Names, Supervised(s)
      PROVE  ready \subseteq ready' /\ (failure => failure')
  BY <1>4 DEF Supervised, Begin, BecomeReady, ExitCleanly, RunFails, EndDelay,
     Reported, SendFailure, TriggerFailure, StopReturns, Service
<1>5. ready \subseteq ready' /\ (failure => failure')
  BY <1>4, ServicesMove DEF StartGroup
<1>6. CASE StartGroup
  BY <1>1, <1>3, <1>5, <1>6 DEF StartGroup, Launched
<1>7. CASE ~StartGroup
  BY <1>1, <1>3, <1>5, <1>7, ServicesMove DEF Launched
<1> QED
  BY <1>6, <1>7

\* The number of groups started grows by one when a group is ready, and the
\* manager is at its wait for readiness between the two.
LEMMA NextStartsFit ==
    ASSUME BaseInv, StartsFit, [Next]_vars
    PROVE  StartsFit'
<1>1. /\ TypeOK /\ PlacesFit /\ Sequenced
      /\ pc \in [Goroutines -> Places] /\ "manager" \in Goroutines
      /\ svc \in [Names -> {"none", "launched", "running", "delay", "sending",
                            "triggering", "over"}]
  BY DEF BaseInv, TypeOK, Goroutines, Stoppers
<1>2. started \in Nat
  <2>1. started \in 0..Cardinality(Names)
    BY <1>1 DEF TypeOK
  <2>2. Cardinality(Names) \in Nat
    BY FS_CardinalityType, LifecycleAssumption
  <2> QED
    BY <2>1, <2>2
<1>3. \A n : Group(n)' = Group(n)
  BY <1>1, NextServicesType, GroupsStay
<1>4. /\ started \in 0..Cardinality(Names) /\ Cardinality(Names) \in Nat
      /\ services \subseteq Names
  BY <1>1, FS_CardinalityType, LifecycleAssumption DEF TypeOK
<1>5. At("manager", "ready") \/ StartGroup =>
          started < Groups /\ started + 1 \in 1..Cardinality(Names)
  <2>1. At("manager", "ready") \/ StartGroup => started < Groups
    BY <1>1 DEF Sequenced, StartGroup
  <2> DEFINE K == Cardinality(Names)
             c == Cardinality(services)
  <2>2. K \in Nat /\ c \in Nat /\ c <= K /\ Groups \in Nat /\ Groups <= c
    BY <1>4, Counts
  <2> HIDE DEF K, c
  <2>3. started < Groups => started + 1 \in 1..K
    BY <1>2, <2>2
  <2> QED
    BY <2>1, <2>3 DEF K
<1>6. \A n \in 1..started : Group(n) \subseteq Names
  <2>1. \A n \in 1..started : n \in 1..Cardinality(Names)
    BY <1>4
  <2> QED
    BY <1>4, <2>1, GroupsAreDisjoint
<1>7. CASE StartGroup
  <2>1. /\ svc' = [s \in Names |-> IF s \in Current THEN "launched" ELSE svc[s]]
        /\ At("manager", "start") /\ pc'["manager"] = "ready"
        /\ UNCHANGED <<started, ready, failure, canceled>>
    BY <1>1, <1>7 DEF StartGroup, Goto, run
  <2>2. Current' = Current /\ Current = Group(started + 1)
    BY <1>3, <2>1 DEF Current
  <2>3. Current \subseteq Names /\ \A n \in 1..started : Group(n) \cap Current = {}
    <3>1. (started + 1) - 1 = started
      BY <1>2
    <3> QED
      BY <1>4, <1>5, <1>7, <2>2, <3>1, GroupsAreDisjoint
  <2>4. ASSUME NEW s \in Names, Launched(s)'
        PROVE  (\E n \in 1..started' : s \in Group(n)') \/ s \in Current'
    BY <1>3, <2>1, <2>2, <2>4 DEF StartsFit, Launched, At
  <2>5. ASSUME NEW n \in 1..started', NEW s \in Group(n)'
        PROVE  /\ Launched(s)'
               /\ s \in Notifiers =>
                    s \in ready' \/ svc'[s] = "over" \/ failure' \/ ManagerDone'
    <3>1. s \in Group(n) /\ n \in 1..started
      BY <1>3, <2>1, <2>5
    <3>2. ManagerDone' <=> ManagerDone
      BY <2>1 DEF ManagerDone, AppDone
    <3>3. svc'[s] = svc[s]
      BY <1>6, <2>1, <2>3, <3>1
    <3> QED
      BY <2>1, <3>1, <3>2, <3>3 DEF StartsFit, Launched
  <2>6. ASSUME NEW s \in Current' PROVE Launched(s)'
    BY <2>1, <2>2, <2>3, <2>6 DEF Launched
  <2> QED
    BY <2>1, <2>4, <2>5, <2>6 DEF StartsFit, At
<1>8. CASE GroupReady
  <2>1. /\ started' = started + 1 /\ At("manager", "ready")
        /\ pc'["manager"] = "start"
        /\ UNCHANGED <<svc, ready, failure, canceled>>
        /\ \/ \A s \in Current \cap Notifiers : s \in ready \/ svc[s] = "over"
           \/ failure \/ ManagerDone
    BY <1>1, <1>8 DEF GroupReady, Goto, run
  <2>2. /\ \A s : Launched(s)' <=> Launched(s)
        /\ ManagerDone' <=> ManagerDone
    BY <2>1 DEF ManagerDone, AppDone, Launched
  <2>3. /\ 1..started \subseteq 1..started' /\ started + 1 \in 1..started'
        /\ \A n \in 1..started' : n \in 1..started \/ n = started + 1
    BY <1>2, <2>1
  <2>4. ASSUME NEW s \in Names, Launched(s)'
        PROVE  \E n \in 1..started' : s \in Group(n)'
    BY <1>3, <2>1, <2>2, <2>3, <2>4 DEF StartsFit, Current
  <2>5. ASSUME NEW n \in 1..started', NEW s \in Group(n)'
        PROVE  /\ Launched(s)'
               /\ s \in Notifiers =>
                    s \in ready' \/ svc'[s] = "over" \/ failure' \/ ManagerDone'
    <3>1. CASE n \in 1..started
      BY <1>3, <2>1, <2>2, <2>5, <3>1 DEF StartsFit
    <3>2. CASE n = started + 1
      BY <1>3, <2>1, <2>2, <2>5, <3>2 DEF StartsFit, Current
    <3> QED
      BY <2>3, <3>1, <3>2
  <2> QED
    BY <2>1, <2>4, <2>5 DEF StartsFit, At
<1>9. CASE ~StartGroup /\ ~GroupReady
  <2>1. started' = started
    BY <1>9 DEF Next, Runner, App, Manager, Stopping, Supervised, Reported, Signal,
       WaitForShutdown, ShutdownCompletes, ShutdownTimesOut, AppBegins,
       SpawnManager, AppSelect, Instantiate, Register, Resolve, GroupsStarted,
       ManagerSelect, Select, Report, AppStop, EnterStop, Cancel, EnterOnce, AppWaits,
       RunHooks, ReadGroups, StopGroup, GroupStopped, StopDone, Drain,
       CloseChannel, Begin, BecomeReady, ExitCleanly, RunFails, EndDelay,
       SendFailure, TriggerFailure, StopReturns, Service, vars
  <2>2. Current' = Current
    BY <1>3, <2>1 DEF Current
  <2>3. At("manager", "ready")' <=> At("manager", "ready")
    BY <1>1, <1>9, ManagerGoes DEF At, InStop
  <2>4. \A s \in Names : Launched(s)' <=> Launched(s)
    BY <1>1, <1>9, Lasting
  <2>5. Current \subseteq Names \/ ~At("manager", "ready")
    BY <1>4, <1>5, GroupsAreDisjoint DEF Current
  <2>6. ASSUME NEW n \in 1..started', NEW s \in Group(n)'
        PROVE  /\ Launched(s)'
               /\ s \in Notifiers =>
                    s \in ready' \/ svc'[s] = "over" \/ failure' \/ ManagerDone'
    <3>1. s \in Group(n) /\ n \in 1..started /\ s \in Names
      BY <1>3, <1>6, <2>1, <2>6
    <3> QED
      BY <1>1, <1>9, <2>4, <3>1, Lasting DEF StartsFit
  <2> QED
    BY <1>3, <2>1, <2>2, <2>3, <2>4, <2>5, <2>6 DEF StartsFit
<1> QED
  BY <1>7, <1>8, <1>9

LEMMA StartsAlways == Spec => []StartsFit
<1>1. Init => StartsFit
  <2> SUFFICES ASSUME Init PROVE StartsFit
    OBVIOUS
  <2>1. 1..started = {}
    BY DEF Init
  <2> QED
    BY <2>1 DEF Init, StartsFit, Launched, At, Stoppers
<1>2. BaseInv /\ StartsFit /\ [Next]_vars => StartsFit'
  BY NextStartsFit
<1> QED
  BY <1>1, <1>2, BaseAlways, PTL DEF Spec

\* StartOrder: no service is launched before what it depends on has been, nor
\* while that is neither ready nor gone (runServiceGroups and waitGroupReady,
\* service_manager.go), for every dependency graph.
THEOREM ServicesStartInOrder == Spec => StartOrder
<1> DEFINE Ordered ==
      \A s \in services : ~Launched(s) /\ Launched(s)' =>
          \A d \in Needs(s) :
              /\ Launched(d)
              /\ d \in Notifiers /\ ~ManagerDone =>
                     d \in ready \/ svc[d] \in {"triggering", "over"}
<1>1. BaseInv /\ StartsFit /\ [Next]_vars => Ordered
  <2> SUFFICES ASSUME BaseInv, StartsFit, [Next]_vars,
                      NEW s \in services, ~Launched(s), Launched(s)',
                      NEW d \in Needs(s)
               PROVE  /\ Launched(d)
                      /\ d \in Notifiers /\ ~ManagerDone =>
                            d \in ready \/ svc[d] \in {"triggering", "over"}
    OBVIOUS
  <2>1. /\ TypeOK /\ services \subseteq Names
        /\ started \in 0..Cardinality(Names) /\ Cardinality(Names) \in Nat
    BY FS_CardinalityType, LifecycleAssumption DEF BaseInv, TypeOK
  <2>2. StartGroup
    BY <2>1, Lasting
  <2>3. s \in Current /\ ~failure /\ started < Groups
    <3>1. svc' = [t \in Names |-> IF t \in Current THEN "launched" ELSE svc[t]]
      BY <2>2 DEF StartGroup
    <3>2. s \in Names
      BY <2>1
    <3> QED
      BY <2>2, <3>1, <3>2 DEF Launched, StartGroup
  <2>4. started + 1 \in 1..Cardinality(Names) /\ (started + 1) - 1 = started
    <3> DEFINE K == Cardinality(Names)
               c == Cardinality(services)
    <3>1. K \in Nat /\ c \in Nat /\ c <= K /\ Groups \in Nat /\ Groups <= c
      BY <2>1, Counts
    <3>2. started \in 0..K
      BY <2>1
    <3> HIDE DEF K, c
    <3> QED
      BY <2>3, <3>1, <3>2 DEF K
  <2>5. PICK m \in 1..started : d \in Group(m)
    BY <2>3, <2>4, NeedsAreEarlier DEF Current
  <2> QED
    BY <2>3, <2>5 DEF StartsFit
<1> QED
  BY <1>1, StartsAlways, BaseAlways, PTL DEF Spec, StartOrder

\* What changes the group being stopped, and the stops themselves.
LEMMA StopsMove ==
    ASSUME TypeOK, PlacesFit, [Next]_vars
    PROVE  /\ \/ UNCHANGED stopAt
              \/ \E p \in Stoppers : ReadGroups(p)
              \/ \E p \in Stoppers : GroupStopped(p)
           /\ \/ UNCHANGED stop
              \/ \E p \in Stoppers : StopGroup(p)
              \/ \E s \in Names : StopReturns(s)
           /\ UNCHANGED started \/ GroupReady
           /\ \A p \in Stoppers : pc'[p] = "smStop" => pc[p] = "smStop" \/ ReadGroups(p)
<1> USE DEF control, run
<1>1. pc \in [Goroutines -> Places] /\ Stoppers \subseteq Goroutines
      /\ Stoppers = {"app", "manager", "stopper"} /\ "runner" \notin Stoppers
  BY DEF TypeOK, Goroutines, Stoppers
<1> DEFINE Moves ==
       /\ \/ UNCHANGED stopAt
          \/ \E p \in Stoppers : ReadGroups(p)
          \/ \E p \in Stoppers : GroupStopped(p)
       /\ \/ UNCHANGED stop
          \/ \E p \in Stoppers : StopGroup(p)
          \/ \E s \in Names : StopReturns(s)
       /\ UNCHANGED started \/ GroupReady
       /\ \A p \in Stoppers : pc'[p] = "smStop" => pc[p] = "smStop" \/ ReadGroups(p)
<1>2. ASSUME Signal \/ Runner \/ App \/ Manager PROVE Moves
  <2>1. UNCHANGED <<stopAt, stop>> /\ (UNCHANGED started \/ GroupReady)
    <3>1. CASE GroupReady
      BY <3>1 DEF GroupReady
    <3>2. CASE ~GroupReady
      BY <1>2, <3>2 DEF Runner, App, Manager, Signal, WaitForShutdown,
         ShutdownCompletes, ShutdownTimesOut, AppBegins, SpawnManager, AppSelect,
         Instantiate, Register, Resolve, StartGroup, GroupsStarted, ManagerSelect,
         Select, Report
    <3> QED
      BY <3>1, <3>2
  <2>2. ASSUME NEW p \in Stoppers, pc'[p] = "smStop" PROVE pc[p] = "smStop"
    <3>1. CASE Signal \/ Runner
      BY <1>1, <2>2, <3>1 DEF Signal, Runner, WaitForShutdown, ShutdownCompletes,
         ShutdownTimesOut, Goto
    <3>2. CASE App
      BY <1>1, <2>2, <3>2 DEF App, AppBegins, SpawnManager, AppSelect, Select, Goto
    <3>3. CASE Manager
      BY <1>1, <2>2, <3>3 DEF Manager, Instantiate, Register, Resolve, StartGroup,
         GroupReady, GroupsStarted, ManagerSelect, Select, Report, Goto
    <3> QED
      BY <1>2, <3>1, <3>2, <3>3
  <2> QED
    BY <2>1, <2>2
<1>3. ASSUME NEW p \in Stoppers, Stopping(p) PROVE Moves
  <2>1. /\ UNCHANGED stopAt \/ ReadGroups(p) \/ GroupStopped(p)
        /\ UNCHANGED stop \/ StopGroup(p)
        /\ UNCHANGED started
    BY <1>3 DEF Stopping, AppStop, EnterStop, Cancel, EnterOnce, AppWaits, RunHooks,
       StopDone, Drain, CloseChannel, ReadGroups, StopGroup, GroupStopped
  <2>2. ASSUME NEW q \in Stoppers, pc'[q] = "smStop"
        PROVE  pc[q] = "smStop" \/ ReadGroups(q)
    <3>1. CASE ReadGroups(p)
      BY <1>1, <2>2, <3>1 DEF ReadGroups, Goto
    <3>2. CASE ~ReadGroups(p)
      <4>1. UNCHANGED pc \/ \E place \in Places \ {"smStop"} : Goto(p, place)
        BY <1>3, <3>2 DEF Stopping, AppStop, EnterStop, Cancel, EnterOnce, AppWaits,
           RunHooks, StopDone, Drain, CloseChannel, StopGroup, GroupStopped,
           AfterAppStop, AfterStop, Places
      <4> QED
        BY <1>1, <2>2, <4>1 DEF Goto
    <3> QED
      BY <3>1, <3>2
  <2> QED
    BY <2>1, <2>2
<1>4. ASSUME NEW s \in Names, Supervised(s) PROVE Moves
  <2>1. UNCHANGED stop \/ StopReturns(s)
    BY <1>4 DEF Supervised, Begin, BecomeReady, ExitCleanly, RunFails, EndDelay,
       Reported, SendFailure, TriggerFailure, Service
  <2> QED
    BY <1>4, <2>1, SupervisedMoves
<1>5. CASE UNCHANGED vars
  BY <1>5 DEF vars
<1> QED
  BY <1>2, <1>3, <1>4, <1>5 DEF Next

\* A service that has been stopped is not stopped again.
LEMMA StoppedStays ==
    ASSUME TypeOK, PlacesFit, [Next]_vars
    PROVE  \A s \in Names : stop[s] = "over" => stop'[s] = "over"
<1>1. stop \in [Names -> {"none", "stopping", "over"}]
  BY DEF TypeOK
<1>2. ASSUME NEW p \in Stoppers, StopGroup(p), NEW s \in Names, stop[s] = "over"
      PROVE  stop'[s] = "over"
  <2>1. /\ \A t \in Group(stopAt) : stop[t] = "none"
        /\ stop' = [t \in Names |-> IF t \in Group(stopAt) THEN "stopping" ELSE stop[t]]
    BY <1>2 DEF StopGroup
  <2> QED
    BY <1>2, <2>1
<1>3. ASSUME NEW t \in Names, StopReturns(t), NEW s \in Names, stop[s] = "over"
      PROVE  stop'[s] = "over"
  BY <1>1, <1>3 DEF StopReturns
<1> QED
  BY <1>2, <1>3, StopsMove

\* The groups are stopped one after the other, downwards.
LEMMA NextStopsFit ==
    ASSUME BaseInv, StopsFit, [Next]_vars
    PROVE  StopsFit'
<1>1. /\ TypeOK /\ PlacesFit /\ Sequenced
      /\ pc \in [Goroutines -> Places] /\ Stoppers \subseteq Goroutines
      /\ "manager" \in Stoppers
  BY DEF BaseInv, TypeOK, Goroutines, Stoppers
<1>2. /\ started \in Nat /\ stopAt \in 0..started /\ services \subseteq Names
      /\ started \in 0..Cardinality(Names) /\ Cardinality(Names) \in Nat
  <2>1. started \in 0..Cardinality(Names) /\ Cardinality(Names) \in Nat
    BY <1>1, FS_CardinalityType, LifecycleAssumption DEF TypeOK
  <2> QED
    BY <1>1, <2>1, LifecycleAssumption DEF TypeOK
<1>3. \A n : Group(n)' = Group(n)
  BY <1>1, NextServicesType, GroupsStay
<1>4. \A n \in 1..started : Group(n) \subseteq Names
  <2>1. \A n \in 1..started : n \in 1..Cardinality(Names)
    BY <1>2
  <2> QED
    BY <1>2, <2>1, GroupsAreDisjoint
<1>5. ASSUME NEW p \in Stoppers, At(p, "smStop")', ReadGroups(p)
      PROVE  /\ ~Starting'
             /\ \A n \in (stopAt' + 1)..started' : \A s \in Group(n)' : stop'[s] = "over"
  <2>1. /\ pc' = [pc EXCEPT ![p] = "smStop"] /\ stopAt' = started
        /\ started' = started /\ ~Starting
    BY <1>5 DEF ReadGroups, Goto
  <2>2. (stopAt' + 1)..started' = {}
    BY <1>2, <2>1
  <2> QED
    BY <1>1, <2>1, <2>2 DEF Starting
<1>6. ASSUME NEW p \in Stoppers, At(p, "smStop"), ~ \E q \in Stoppers : ReadGroups(q)
      PROVE  /\ ~Starting'
             /\ \A n \in (stopAt' + 1)..started' : \A s \in Group(n)' : stop'[s] = "over"
  <2>1. /\ ~Starting
        /\ \A n \in (stopAt + 1)..started : \A s \in Group(n) : stop[s] = "over"
    BY <1>6 DEF StopsFit
  <2>2. ~Starting'
    <3>1. Resolve => pc'["manager"] = pc["manager"] \/ pc'["manager"] = "smCancel"
      BY <1>1, <1>6 DEF Resolve, Goto
    <3> QED
      BY <1>1, <2>1, <3>1, ManagerGoes DEF Starting, InStop
  <2>3. started' = started
    BY <1>1, <2>1, StopsMove DEF GroupReady, At, Starting
  <2>4. ASSUME NEW n \in (stopAt' + 1)..started', NEW s \in Group(n)'
        PROVE  stop'[s] = "over"
    <3>1. n \in 1..started
      <4>1. stopAt' \in 0..started
        BY <1>1, <2>3, NextServicesType
      <4>2. n \in (stopAt' + 1)..started
        BY <2>3
      <4>3. \A k \in Nat : \A m \in 0..k : (m + 1)..k \subseteq 1..k
        OBVIOUS
      <4>4. (stopAt' + 1)..started \subseteq 1..started
        BY <1>2, <4>1, <4>3
      <4> QED
        BY <4>2, <4>4
    <3>2. CASE n \in (stopAt + 1)..started
      <4>1. s \in Names
        BY <1>3, <1>4, <3>1
      <4> QED
        BY <1>1, <1>3, <2>1, <2>4, <3>2, <4>1, StoppedStays
    <3>3. CASE n \notin (stopAt + 1)..started
      <4>1. PICK q \in Stoppers : GroupStopped(q)
        BY <1>1, <1>6, <2>3, <2>4, <3>3, StopsMove
      <4>2. /\ \A t \in Group(stopAt) : stop[t] = "over"
            /\ stopAt' = stopAt - 1 /\ stopAt > 0 /\ stop' = stop
        BY <4>1 DEF GroupStopped
      <4>3. n = stopAt
        BY <1>2, <2>3, <3>1, <3>3, <4>2
      <4> QED
        BY <1>3, <2>4, <4>2, <4>3
    <3> QED
      BY <3>2, <3>3
  <2> QED
    BY <2>2, <2>4
<1>7. ASSUME NEW p \in Stoppers, At(p, "smStop"), NEW q \in Stoppers, ReadGroups(q)
      PROVE  /\ ~Starting'
             /\ \A n \in (stopAt' + 1)..started' : \A s \in Group(n)' : stop'[s] = "over"
  <2>1. At(q, "smStop")'
    BY <1>1, <1>7 DEF ReadGroups, Goto, At
  <2> QED
    BY <1>5, <1>7, <2>1
<1>8. \A p \in Stoppers : At(p, "smStop")' => At(p, "smStop") \/ ReadGroups(p)
  BY <1>1, StopsMove DEF At
<1> QED
  BY <1>5, <1>6, <1>7, <1>8 DEF StopsFit

LEMMA StopsFitAlways == Spec => []StopsFit
<1>1. Init => StopsFit
  BY DEF Init, StopsFit, At, Stoppers
<1>2. BaseInv /\ StopsFit /\ [Next]_vars => StopsFit'
  BY NextStopsFit
<1> QED
  BY <1>1, <1>2, BaseAlways, PTL DEF Spec

\* StopOrder: nobody stops a service while the Stop of a launched dependent is
\* outstanding (stopServiceGroups, service_manager.go), for every dependency
\* graph, whoever runs ServiceManager.Stop and whenever a signal comes.
THEOREM ServicesStopInOrder == Spec => StopOrder
<1> DEFINE Ordered ==
      \A s, d \in services :
          stop[d] = "none" /\ stop'[d] = "stopping" /\ d \in Needs(s) /\ Launched(s)
              => stop[s] = "over"
<1>1. BaseInv /\ StartsFit /\ StopsFit /\ [Next]_vars => Ordered
  <2> SUFFICES ASSUME BaseInv, StartsFit, StopsFit, [Next]_vars,
                      NEW s \in services, NEW d \in services,
                      stop[d] = "none", stop'[d] = "stopping", d \in Needs(s),
                      Launched(s)
               PROVE  stop[s] = "over"
    OBVIOUS
  <2>1. /\ TypeOK /\ PlacesFit /\ services \subseteq Names
        /\ started \in 0..Cardinality(Names) /\ Cardinality(Names) \in Nat
        /\ stopAt \in 0..started
        /\ stop \in [Names -> {"none", "stopping", "over"}]
    BY FS_CardinalityType, LifecycleAssumption DEF BaseInv, TypeOK
  <2>2. PICK p \in Stoppers : StopGroup(p)
    <3>1. d \in Names /\ stop' # stop
      BY <2>1
    <3>2. ASSUME NEW t \in Names, StopReturns(t) PROVE FALSE
      BY <2>1, <3>1, <3>2 DEF StopReturns
    <3> QED
      BY <2>1, <3>1, <3>2, StopsMove
  <2>3. At(p, "smStop") /\ stopAt > 0 /\ d \in Group(stopAt)
    <3>1. stop' = [t \in Names |-> IF t \in Group(stopAt) THEN "stopping" ELSE stop[t]]
      BY <2>2 DEF StopGroup
    <3> QED
      BY <2>1, <2>2, <3>1 DEF StopGroup
  <2>4. ~Starting
    BY <2>3 DEF StopsFit
  <2>5. PICK n \in 1..started : s \in Group(n)
    BY <2>1, <2>4 DEF StartsFit, Starting, At
  <2>6. stopAt < n
    <3>1. n \in 1..Cardinality(Names) /\ stopAt \in 1..Cardinality(Names)
      BY <2>1, <2>3
    <3> QED
      BY <2>3, <2>5, <3>1, NeedsAreEarlier
  <2>7. n \in (stopAt + 1)..started
    BY <2>1, <2>6
  <2> QED
    BY <2>3, <2>5, <2>7 DEF StopsFit
<1> QED
  BY <1>1, StartsAlways, StopsFitAlways, BaseAlways, PTL DEF Spec, StopOrder

-----------------------------------------------------------------------------
(* The end of the process, when no signal comes before the groups are started *)

\* The manager does not become early again.
LEMMA EarlyOnce ==
    ASSUME TypeOK, PlacesFit, Sequenced, [Next]_vars
    PROVE  /\ ManagerEarly' => ManagerEarly
           /\ Starting' => Starting \/ (ManagerEarly /\ Resolve)
           /\ pc["manager"] = "done" => pc'["manager"] = "done"
<1>1. ManagerEarly' => ManagerEarly
  BY ManagerGoes DEF ManagerEarly, InStop
<1>2. ASSUME Starting', ~Starting PROVE ManagerEarly /\ Resolve
  <2>1. /\ pc'["manager"] \in {"start", "ready"}
        /\ pc["manager"] \notin {"start", "ready"}
    BY <1>2 DEF Starting
  <2>2. pc["manager"] = "resolve" /\ Resolve
    BY <2>1, ManagerGoes DEF InStop
  <2> QED
    BY <2>2 DEF ManagerEarly
<1>3. pc["manager"] = "done" => pc'["manager"] = "done"
  BY ManagerGoes DEF InStop
<1> QED
  BY <1>1, <1>2, <1>3

\* Whoever stops anything does so when the manager has come to its groups.
LEMMA NextStopsLate ==
    ASSUME ~EarlyStop, BaseInv, FailureTravels, StopsLate, [Next]_vars
    PROVE  StopsLate'
<1> USE DEF control, run, Goto, At, AppOpen
<1>1. /\ "runner" \in Goroutines /\ "app" \in Goroutines /\ "manager" \in Goroutines
      /\ "stopper" \in Goroutines /\ Stoppers = {"app", "manager", "stopper"}
  BY DEF Goroutines, Stoppers
<1>2. /\ pc \in [Goroutines -> Places] /\ signaled \in BOOLEAN
      /\ hooks \in BOOLEAN
      /\ errCh \in [{"runner", "app", "manager"} -> Verdicts]
  BY DEF BaseInv, TypeOK, Goroutines
<1>3. PlacesFit /\ Sequenced /\ TypeOK
  BY DEF BaseInv
<1>4. /\ ManagerEarly' => ManagerEarly
      /\ pc["manager"] = "done" => pc'["manager"] = "done"
  BY <1>3, EarlyOnce
<1>5. CASE Signal
  <2>1. ~ManagerEarly /\ UNCHANGED <<pc, canceled, errCh, hooks>>
    BY <1>5 DEF Signal, Starting, ManagerEarly
  <2> QED
    BY <1>4, <2>1 DEF StopsLate
<1>6. CASE Runner
  BY <1>1, <1>2, <1>3, <1>4, <1>6 DEF Runner, WaitForShutdown, ShutdownCompletes,
     ShutdownTimesOut, StopsLate
<1>7. CASE App
  BY <1>1, <1>2, <1>3, <1>4, <1>7 DEF App, AppBegins, SpawnManager, AppSelect,
     Select, AppDone, StopsLate
<1>8. CASE Manager
  <2>1. /\ UNCHANGED <<signaled, canceled, hooks>>
        /\ \A p \in Goroutines \ {"manager"} : pc'[p] = pc[p]
        /\ pc'["manager"] # "hooks"
    BY <1>1, <1>2, <1>8 DEF Manager, Instantiate, Register, Resolve, StartGroup,
       GroupReady, GroupsStarted, ManagerSelect, Select, Report
  <2>2. errCh'["app"] # Nothing => errCh["app"] # Nothing \/ ~ManagerEarly'
    <3>1. CASE Report
      BY <1>1, <1>2, <3>1 DEF Report, ManagerEarly
    <3>2. CASE ~Report
      BY <1>2, <1>8, <3>2 DEF Manager, Instantiate, Register, Resolve, StartGroup,
         GroupReady, GroupsStarted, ManagerSelect, Select
    <3> QED
      BY <3>1, <3>2
  <2> QED
    BY <1>1, <1>3, <1>4, <2>1, <2>2 DEF StopsLate, PlacesFit
<1>9. ASSUME NEW p \in Stoppers, Stopping(p) PROVE StopsLate'
  <2>1. /\ signaled' = signaled
        /\ pc["stopper"] = "none" => p # "stopper" \/ UNCHANGED pc
        /\ ManagerEarly => p # "manager" \/ UNCHANGED pc
        /\ AppOpen => p # "app" \/ UNCHANGED pc
    BY <1>1, <1>9, StoppingMoves DEF ManagerEarly, InAppStop, InStop
  <2>2. errCh'["app"] = errCh["app"]
    BY <1>2, <1>9 DEF Stopping, AppStop, EnterStop, Cancel, EnterOnce, AppWaits,
       RunHooks, ReadGroups, StopGroup, GroupStopped, StopDone, Drain, CloseChannel
  <2>3. /\ \A q \in Goroutines \ {p} : pc'[q] = pc[q]
    BY <1>1, <1>2, <1>9, StoppingMoves
  <2>4. "app" \in canceled' => "app" \in canceled \/ pc[p] \in {"appCancel", "close"}
    <3>1. CASE EnterStop(p)
      BY <3>1 DEF EnterStop, Cancel, EnterOnce
    <3>2. CASE ~EnterStop(p)
      BY <1>9, <3>2 DEF Stopping, AppStop, Cancel, EnterOnce, AppWaits,
         RunHooks, ReadGroups, StopGroup, GroupStopped, StopDone, Drain, CloseChannel
    <3> QED
      BY <3>1, <3>2
  <2>5. /\ hooks' => hooks \/ At(p, "hooks")
        /\ pc'[p] = "hooks" => pc[p] = "hooks" \/ AppWaits(p)
    <3>1. CASE AppWaits(p)
      BY <3>1 DEF AppWaits
    <3>2. CASE ~AppWaits(p)
      <4>1. hooks' => hooks \/ At(p, "hooks")
        BY <1>9, <3>2 DEF Stopping, AppStop, EnterStop, Cancel, EnterOnce,
           RunHooks, ReadGroups, StopGroup, GroupStopped, StopDone, Drain, CloseChannel
      <4>2. UNCHANGED pc \/ \E place \in Places \ {"hooks"} : Goto(p, place)
        BY <1>9, <3>2 DEF Stopping, AppStop, EnterStop, Cancel, EnterOnce,
           AfterAppStop, AfterStop, RunHooks, ReadGroups, StopGroup, GroupStopped,
           StopDone, Drain, CloseChannel, Places
      <4> QED
        BY <1>1, <1>2, <4>1, <4>2
    <3> QED
      BY <3>1, <3>2
  <2>6. AppWaits(p) => pc["manager"] = "done"
    <3>1. AppWaits(p) => pc[p] = "appWait" /\ pc["manager"] \in {"none", "done"}
      BY DEF AppWaits
    <3> QED
      BY <1>1, <1>3, <3>1 DEF StopsLate, ManagerEarly, PlacesFit, InStop
  <2> QED
    BY <1>1, <1>3, <1>4, <2>1, <2>2, <2>3, <2>4, <2>5, <2>6
    DEF StopsLate, ManagerEarly, PlacesFit, InStop, InAppStop
<1>10. ASSUME NEW s \in Names, Supervised(s) PROVE StopsLate'
  <2>1. errCh'["app"] = errCh["app"]
    BY <1>2, <1>10 DEF Supervised, Begin, BecomeReady, ExitCleanly, RunFails, EndDelay,
       Reported, SendFailure, TriggerFailure, StopReturns, Service
  <2> QED
    BY <1>4, <1>10, <2>1, SupervisedMoves DEF StopsLate
<1>11. CASE UNCHANGED vars
  BY <1>4, <1>11 DEF vars, StopsLate
<1> QED
  BY <1>5, <1>6, <1>7, <1>8, <1>9, <1>10, <1>11 DEF Next

\* A Once that is done stays done, and means what it says.
LEMMA NextOncesFit ==
    ASSUME ~EarlyStop, BaseInv, StopsLate, StopsFit, OncesFit, [Next]_vars
    PROVE  OncesFit'
<1> USE DEF control, run, Goto, At
<1>1. /\ "runner" \in Goroutines /\ "app" \in Goroutines /\ "manager" \in Goroutines
      /\ "stopper" \in Goroutines /\ Stoppers = {"app", "manager", "stopper"}
  BY DEF Goroutines, Stoppers
<1>2. /\ pc \in [Goroutines -> Places]
      /\ once \in [{"app", "manager"} -> {"free", "busy", "done"}]
      /\ verdict \in [Goroutines -> Verdicts]
  BY DEF BaseInv, TypeOK, Goroutines
<1>3. PlacesFit /\ Sequenced /\ TypeOK
  BY DEF BaseInv
<1>4. /\ ManagerEarly' => ManagerEarly
      /\ Starting' => Starting \/ (ManagerEarly /\ Resolve)
  BY <1>3, EarlyOnce
<1>5. \A p \in Stoppers : pc'[p] = "smStop" => pc[p] = "smStop" \/ ReadGroups(p)
  BY <1>3, StopsMove
<1>6. CASE Signal
  BY <1>6, <1>4, <1>5 DEF Signal, OncesFit, Starting, ManagerEarly
<1>7. CASE Runner
  BY <1>1, <1>2, <1>3, <1>7 DEF Runner, WaitForShutdown, ShutdownCompletes,
     ShutdownTimesOut, OncesFit, Starting, ManagerEarly, Sequenced
<1>8. CASE App
  <2>1. /\ UNCHANGED once /\ pc'["app"] \in {"spawn", "select", "appCancel"}
        /\ pc["app"] # "done" /\ pc'["runner"] = pc["runner"]
        /\ verdict'["runner"] = verdict["runner"]
        /\ pc'["stopper"] = pc["stopper"]
        /\ pc'["manager"] = pc["manager"] \/ pc'["manager"] = "create"
    BY <1>1, <1>2, <1>8 DEF App, AppBegins, SpawnManager, AppSelect, Select
  <2> QED
    BY <1>1, <1>4, <1>5, <2>1 DEF OncesFit, Resolve, ReadGroups
<1>9. CASE Manager
  <2>1. /\ UNCHANGED once
        /\ \A p \in Goroutines \ {"manager"} : pc'[p] = pc[p]
        /\ pc'["manager"] \notin {"appWait", "hooks", "smStop"}
        /\ verdict'["runner"] = verdict["runner"]
    BY <1>1, <1>2, <1>9 DEF Manager, Instantiate, Register, Resolve, StartGroup,
       GroupReady, GroupsStarted, ManagerSelect, Select, Report
  <2> QED
    BY <1>1, <1>4, <2>1 DEF OncesFit
<1>10. ASSUME NEW p \in Stoppers, Stopping(p) PROVE OncesFit'
  <2>1. /\ \A q \in Goroutines \ {p} : pc'[q] = pc[q]
        /\ UNCHANGED verdict
    BY <1>1, <1>2, <1>10, StoppingMoves
  <2>2. ManagerEarly => pc[p] \notin InStop
    BY <1>1, <1>3 DEF StopsLate, ManagerEarly, PlacesFit, InStop, AppOpen
  <2>3. CASE EnterOnce(p, "manager", "smLock", AfterStop(p)) /\ At(p, "smOnce")
    <3>1. CASE once["manager"] = "free"
      <4>1. once' = [once EXCEPT !["manager"] = "busy"] /\ pc'[p] = "smLock"
        BY <1>1, <1>2, <2>3, <3>1 DEF EnterOnce
      <4> QED
        BY <1>1, <1>2, <1>4, <2>1, <2>3, <3>1, <4>1 DEF OncesFit
    <3>2. CASE once["manager"] = "done"
      <4>1. once' = once /\ pc'[p] = AfterStop(p)
        BY <1>1, <1>2, <2>3, <3>2 DEF EnterOnce
      <4>2. ~Starting /\ ~ManagerEarly
        BY <3>2 DEF OncesFit
      <4>3. p = "app" => pc'[p] = "appWait"
        BY <4>1 DEF AfterStop
      <4> QED
        BY <1>1, <1>2, <1>4, <2>1, <2>3, <3>2, <4>1, <4>2, <4>3 DEF OncesFit
    <3> QED
      BY <2>3, <3>1, <3>2 DEF EnterOnce
  <2>4. CASE EnterOnce(p, "app", "smCancel", AfterAppStop(p)) /\ At(p, "appOnce")
    <3>1. CASE once["app"] = "free"
      <4>1. once' = [once EXCEPT !["app"] = "busy"] /\ pc'[p] = "smCancel"
        BY <1>1, <1>2, <2>4, <3>1 DEF EnterOnce
      <4> QED
        BY <1>1, <1>2, <1>4, <2>1, <2>4, <3>1, <4>1 DEF OncesFit, Resolve
    <3>2. CASE once["app"] = "done"
      <4>1. once' = once /\ pc'[p] = AfterAppStop(p)
        BY <1>1, <1>2, <2>4, <3>2 DEF EnterOnce
      <4>2. once["manager"] = "done" /\ ~Starting /\ ~ManagerEarly
        BY <3>2 DEF OncesFit
      <4>3. pc'[p] \in {"drain", "done"} /\ (p = "app" => pc'[p] = "drain")
        BY <4>1 DEF AfterAppStop
      <4> QED
        BY <1>1, <1>2, <1>4, <2>1, <2>4, <3>2, <4>1, <4>2, <4>3 DEF OncesFit
    <3> QED
      BY <2>4, <3>1, <3>2 DEF EnterOnce
  <2>5. CASE StopDone(p)
    <3>1. ~Starting /\ ~ManagerEarly
      BY <2>2, <2>5 DEF StopDone, StopsFit, InStop
    <3>2. ~Starting' /\ ~ManagerEarly'
      BY <1>4, <3>1
    <3> QED
      BY <1>1, <1>2, <1>3, <2>1, <2>5, <3>2 DEF StopDone, OncesFit, AfterStop, PlacesFit
  <2>6. CASE RunHooks(p)
    BY <1>1, <1>2, <1>3, <1>4, <2>1, <2>6
    DEF RunHooks, OncesFit, AfterAppStop, PlacesFit, Resolve, InStop
  <2>7. CASE ReadGroups(p)
    <3>1. ~ManagerEarly
      BY <2>2, <2>7 DEF ReadGroups, InStop
    <3> QED
      BY <1>1, <1>2, <1>3, <1>4, <2>1, <2>7, <3>1 DEF ReadGroups, OncesFit
  <2>8. CASE AppWaits(p)
    BY <1>1, <1>2, <1>3, <1>4, <2>1, <2>8 DEF AppWaits, OncesFit, Resolve
  <2>9. CASE Drain(p) \/ CloseChannel(p)
    BY <1>1, <1>2, <1>3, <1>4, <2>1, <2>9 DEF Drain, CloseChannel, OncesFit, Resolve,
       PlacesFit
  <2>10. CASE StopGroup(p) \/ GroupStopped(p)
    BY <1>4, <1>5, <2>10 DEF StopGroup, GroupStopped, OncesFit, Resolve, ReadGroups,
       Starting, ManagerEarly
  <2>11. CASE \/ At(p, "appCancel") /\ Cancel(p, "app", "appOnce")
              \/ At(p, "smCancel") /\ Cancel(p, "manager", "smOnce")
    BY <1>1, <1>2, <1>3, <1>4, <2>1, <2>11 DEF Cancel, OncesFit, Resolve
  <2> QED
    BY <1>10, <2>3, <2>4, <2>5, <2>6, <2>7, <2>8, <2>9, <2>10, <2>11
    DEF Stopping, AppStop, EnterStop
<1>11. ASSUME NEW s \in Names, Supervised(s) PROVE OncesFit'
  BY <1>11, SupervisedMoves DEF OncesFit, Starting, ManagerEarly
<1>12. CASE UNCHANGED vars
  BY <1>12 DEF vars, OncesFit, Starting, ManagerEarly
<1> QED
  BY <1>6, <1>7, <1>8, <1>9, <1>10, <1>11, <1>12 DEF Next

\* Once Stop is over nothing is started any more.
LEMMA NextAllStopped ==
    ASSUME BaseInv, StopsFit, OncesFit, AllStopped, [Next]_vars
    PROVE  AllStopped'
<1>1. /\ TypeOK /\ PlacesFit /\ services \subseteq Names
      /\ started \in 0..Cardinality(Names) /\ Cardinality(Names) \in Nat
      /\ once \in [{"app", "manager"} -> {"free", "busy", "done"}]
  BY FS_CardinalityType, LifecycleAssumption DEF BaseInv, TypeOK
<1>2. \A n : Group(n)' = Group(n)
  BY <1>1, NextServicesType, GroupsStay DEF BaseInv
<1>3. \A n \in 1..started : Group(n) \subseteq Names
  <2>1. \A n \in 1..started : n \in 1..Cardinality(Names)
    BY <1>1
  <2> QED
    BY <1>1, <2>1, GroupsAreDisjoint
<1>4. CASE once["manager"] = "done"
  <2>1. ~GroupReady
    BY <1>4 DEF OncesFit, GroupReady, Starting, At
  <2>2. started' = started
    BY <1>1, <2>1, StopsMove
  <2>3. ASSUME NEW n \in 1..started', NEW s \in Group(n)' PROVE stop'[s] = "over"
    <3>1. n \in 1..started /\ s \in Group(n) /\ s \in Names
      BY <1>2, <1>3, <2>2, <2>3
    <3>2. stop[s] = "over"
      BY <1>4, <3>1 DEF AllStopped
    <3> QED
      BY <1>1, <3>1, <3>2, StoppedStays
  <2> QED
    BY <2>3 DEF AllStopped
<1>5. CASE once["manager"] # "done" /\ once'["manager"] = "done"
  <2>1. PICK p \in Stoppers : StopDone(p)
    <3>1. ASSUME NEW p \in Stoppers, Stopping(p), ~StopDone(p) PROVE FALSE
      BY <1>1, <1>5, <3>1 DEF Stopping, AppStop, EnterStop, Cancel, EnterOnce,
         AppWaits, RunHooks, ReadGroups, StopGroup, GroupStopped, Drain, CloseChannel
    <3>2. ASSUME NEW s \in Names, Supervised(s) PROVE FALSE
      BY <1>5, <3>2, SupervisedMoves
    <3>3. ASSUME Signal \/ Runner \/ App \/ Manager PROVE FALSE
      BY <1>5, <3>3 DEF Runner, App, Manager, Signal, WaitForShutdown,
         ShutdownCompletes, ShutdownTimesOut, AppBegins, SpawnManager, AppSelect,
         Instantiate, Register, Resolve, StartGroup, GroupReady, GroupsStarted,
         ManagerSelect, Select, Report
    <3>4. ~ UNCHANGED vars
      BY <1>5 DEF vars
    <3> QED
      BY <3>1, <3>2, <3>3, <3>4 DEF Next
  <2>2. At(p, "smStop") /\ stopAt = 0 /\ UNCHANGED <<started, stop>>
    BY <2>1 DEF StopDone
  <2>3. \A n \in 1..started : \A s \in Group(n) : stop[s] = "over"
    <3>1. (stopAt + 1)..started = 1..started
      BY <2>2
    <3> QED
      BY <2>2, <3>1 DEF StopsFit
  <2> QED
    BY <1>2, <2>2, <2>3 DEF AllStopped
<1> QED
  BY <1>4, <1>5 DEF AllStopped

\* The invariant of the whole, as far as it needs that no signal comes before
\* the groups are being started.
LEMMA StopsAlways ==
    ASSUME ~EarlyStop
    PROVE  Spec => [](StopsLate /\ OncesFit /\ AllStopped)
<1>1. Init => StopsLate
  BY DEF Init, StopsLate, ManagerEarly, AppOpen, At, Stoppers
<1>2. Init => OncesFit /\ AllStopped
  BY DEF Init, OncesFit, AllStopped, ManagerEarly, Starting, At, Stoppers
<1>3. BaseInv /\ FailureTravels /\ StopsLate /\ [Next]_vars => StopsLate'
  BY NextStopsLate
<1>4. BaseInv /\ StopsLate /\ StopsFit /\ OncesFit /\ [Next]_vars => OncesFit'
  BY NextOncesFit
<1>5. BaseInv /\ StopsFit /\ OncesFit /\ AllStopped /\ [Next]_vars => AllStopped'
  BY NextAllStopped
<1> QED
  BY <1>1, <1>2, <1>3, <1>4, <1>5, BaseAlways, FailureAlways, StopsFitAlways, PTL
  DEF Spec

\* HooksComeLast: the post-stop hooks (App.Stop, app.go:62) run when no service
\* runs any more: whoever runs them waits for the manager, which has been started
\* by then and has waited for its services.
THEOREM HooksAfterServices == ~EarlyStop => (Spec => []HooksComeLast)
<1> SUFFICES ASSUME ~EarlyStop PROVE Spec => []HooksComeLast
  OBVIOUS
<1>1. BaseInv /\ StopsLate => HooksComeLast
  BY DEF BaseInv, ServicesFit, StopsLate, HooksComeLast
<1> QED
  BY <1>1, StopsAlways, BaseAlways, PTL

\* EveryServiceStopped: a process that ends before its deadline has called Stop
\* on every service it has launched and seen it return or time out
\* (ServiceManager.Stop through App.Stop and its two Onces).
THEOREM ServicesAreStopped == ~EarlyStop => (Spec => []EveryServiceStopped)
<1> SUFFICES ASSUME ~EarlyStop PROVE Spec => []EveryServiceStopped
  OBVIOUS
<1>1. BaseInv /\ StartsFit /\ OncesFit /\ AllStopped => EveryServiceStopped
  <2> SUFFICES ASSUME BaseInv, StartsFit, OncesFit, AllStopped,
                      At("runner", "done"), verdict["runner"] # "timeout",
                      NEW s \in Names, Launched(s)
               PROVE  stop[s] = "over"
    BY DEF EveryServiceStopped
  <2>1. once["manager"] = "done" /\ ~Starting
    BY DEF OncesFit, At
  <2>2. PICK n \in 1..started : s \in Group(n)
    BY <2>1 DEF StartsFit, Starting, At
  <2> QED
    BY <2>1, <2>2 DEF AllStopped
<1> QED
  BY <1>1, StopsAlways, StartsAlways, BaseAlways, PTL
=============================================================================
