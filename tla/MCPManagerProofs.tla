-------------------------- MODULE MCPManagerProofs --------------------------
(***************************************************************************)
(* Proofs about the MCP manager, for any number of requests, generations   *)
(* and attempts.  A generation names at most one attempt, so the guards on *)
(* the generation tell attempts apart; whoever bumped it last still owes   *)
(* the status its write, or has made it.                                   *)
(***************************************************************************)
EXTENDS MCPManager, TLAPS

\* What a process has captured is a generation of its own that nothing has
\* been started for.
Captures ==
    \A p \in Procs :
        /\ mine[p] <= gen
        /\ mine[p] # 0 => inner[mine[p]] = "none"
        /\ \A q \in Procs : mine[q] = mine[p] /\ mine[p] # 0 => q = p

\* Where the goroutines of one attempt can be relative to one another.
AttemptLife(g) ==
    /\ g > gen => inner[g] = "none"
    /\ inner[g] = "none" => outer[g] = "none"
    /\ inner[g] \in {"none", "dialing", "failed"} => session[g] = "none"
    /\ watcher[g] # "none" => inner[g] = "stored"
    /\ outer[g] = "failed" => inner[g] = "failed"
    /\ outer[g] = "done" => inner[g] \in {"stored", "failed"}

Life == \A g \in Gens : AttemptLife(g)

\* The registered client is one that was stored.
Registered == client # NoClient => inner[client] = "stored"

\* The reports an attempt can still schedule a retry for: two as long as both
\* the deadline and the attempt's own end are ahead, or one.
TwoReports(g) == outer[g] \in {"none", "racing", "forced"} /\ watcher[g] # "done"
OneReport(g) == \/ outer[g] \in {"none", "racing", "forced"}
                \/ outer[g] \in {"late", "failed"} /\ inner[g] # "stored"
                \/ watcher[g] \in {"waiting", "failed"}

\* So two timers are enough for it.
TimersSuffice ==
    \A g \in Gens : /\ TwoReports(g) => timer[<<g, 1>>] = "none"
                    /\ OneReport(g) => timer[<<g, 2>>] = "none"

\* A process that has not begun has nothing to do.
Idle ==
    /\ \A r \in Requests \ arrived : todo[r] = <<>>
    /\ \A x \in Timers : timer[x] \in {"none", "armed"} => todo[x] = <<>>

\* s goes on to cancel the retry and write the status, as Remove and Disable
\* do after they have bumped the generation.
Clears(s) == /\ Len(s) >= 2
             /\ s[1] = "cancel" /\ s[2] \in {"drop", "disable"}

\* The order in which the manager's methods take their steps.
Script(s) ==
    \A i \in 1..Len(s) :
        /\ s[i] = "begin" => i < Len(s) /\ s[i + 1] = "connect"
        /\ s[i] = "connect" => i = 1 \/ s[i - 1] = "begin"
        /\ s[i] = "bump" => /\ i + 1 < Len(s)
                            /\ s[i + 1] = "cancel"
                            /\ s[i + 2] \in {"drop", "disable"}

Scripts ==
    \A p \in Procs :
        /\ Script(todo[p])
        /\ todo[p] # <<>> /\ Head(todo[p]) = "connect" => mine[p] # 0

\* The status is that of the attempt the generation names.
StatusFits ==
    status \in {"connecting", "connected", "failed"} =>
        /\ gen \in Gens
        /\ status = "connecting" => outer[gen] = "racing"
        /\ status = "connected" => inner[gen] = "stored"
        /\ status = "failed" => \/ outer[gen] # "racing"
                                \/ watcher[gen] \in {"failed", "done"}

\* p has bumped the generation last, and has not written the status yet.
Owes(p) ==
    /\ todo[p] # <<>>
    /\ \/ Head(todo[p]) \in {"drop", "disable"}
       \/ Head(todo[p]) = "connect" /\ mine[p] = gen
       \/ Clears(todo[p])

Accounted == closed \/ StatusFits \/ \E p \in Procs : Owes(p)

IInv == /\ TypeOK /\ Captures /\ Life /\ Registered /\ NoStraySession
        /\ TimersSuffice /\ Idle /\ Scripts /\ Accounted

-----------------------------------------------------------------------------
(* Lemmas on the steps of a method *)

\* What is left of a script is one, and what its first step announced comes
\* next.
LEMMA TailScript ==
    ASSUME NEW s \in Seq(Steps), s # <<>>, Script(s)
    PROVE  LET t == Tail(s) IN
           /\ t \in Seq(Steps) /\ Script(t)
           /\ Head(s) = "begin" => t # <<>> /\ Head(t) = "connect"
           /\ t # <<>> /\ Head(t) = "connect" => Head(s) = "begin"
           /\ Head(s) = "bump" => t # <<>> /\ Clears(t)
           /\ Clears(s) => t # <<>> /\ Head(t) \in {"drop", "disable"}
<1> DEFINE t == Tail(s)
<1>1. /\ t \in Seq(Steps) /\ Len(s) \in Nat /\ Len(s) >= 1
      /\ Len(t) = Len(s) - 1 /\ Head(s) = s[1]
      /\ \A i \in 1..Len(t) : t[i] = s[i + 1]
  OBVIOUS
<1>2. t # <<>> => Len(t) >= 1 /\ Head(t) = t[1] /\ t[1] = s[2]
  BY <1>1
<1> HIDE DEF t
<1>3. Script(t)
  <2> SUFFICES ASSUME NEW i \in 1..Len(t)
               PROVE  /\ t[i] = "begin" => i < Len(t) /\ t[i + 1] = "connect"
                      /\ t[i] = "connect" => i = 1 \/ t[i - 1] = "begin"
                      /\ t[i] = "bump" => /\ i + 1 < Len(t)
                                          /\ t[i + 1] = "cancel"
                                          /\ t[i + 2] \in {"drop", "disable"}
    BY DEF Script
  <2>1. i + 1 \in 1..Len(s) /\ t[i] = s[i + 1]
    BY <1>1
  <2>2. i < Len(t) => t[i + 1] = s[(i + 1) + 1]
    BY <1>1
  <2>3. i + 1 < Len(t) => t[i + 2] = s[(i + 1) + 2]
    BY <1>1
  <2>4. i # 1 => t[i - 1] = s[(i + 1) - 1]
    BY <1>1
  <2> QED
    BY <1>1, <2>1, <2>2, <2>3, <2>4 DEF Script
<1>4. Head(s) = "begin" => t # <<>> /\ Head(t) = "connect"
  BY <1>1, <1>2 DEF Script
<1>5. t # <<>> /\ Head(t) = "connect" => Head(s) = "begin"
  BY <1>1, <1>2 DEF Script
<1>6. Head(s) = "bump" => t # <<>> /\ Clears(t)
  BY <1>1, <1>2 DEF Script, Clears
<1>7. Clears(s) => t # <<>> /\ Head(t) \in {"drop", "disable"}
  BY <1>1, <1>2 DEF Clears
<1> QED
  BY <1>1, <1>3, <1>4, <1>5, <1>6, <1>7 DEF t

\* A script may follow another one.
LEMMA JoinScripts ==
    ASSUME NEW s \in Seq(Steps), NEW t \in Seq(Steps), Script(s), Script(t),
           t = <<>> \/ Head(t) # "connect"
    PROVE  s \o t \in Seq(Steps) /\ Script(s \o t)
<1> DEFINE u == s \o t
<1>1. /\ u \in Seq(Steps) /\ Len(s) \in Nat /\ Len(t) \in Nat
      /\ Len(u) = Len(s) + Len(t)
      /\ \A i \in 1..Len(s) : u[i] = s[i]
      /\ \A i \in 1..Len(t) : u[Len(s) + i] = t[i]
  OBVIOUS
<1>2. Len(t) >= 1 => t[1] # "connect"
  OBVIOUS
<1> HIDE DEF u
<1>3. ASSUME NEW i \in 1..Len(u)
      PROVE  /\ u[i] = "begin" => i < Len(u) /\ u[i + 1] = "connect"
             /\ u[i] = "connect" => i = 1 \/ u[i - 1] = "begin"
             /\ u[i] = "bump" => /\ i + 1 < Len(u)
                                 /\ u[i + 1] = "cancel"
                                 /\ u[i + 2] \in {"drop", "disable"}
  <2>1. CASE i <= Len(s)
    <3>1. i \in 1..Len(s) /\ u[i] = s[i]
      BY <1>1, <2>1
    <3>2. i < Len(s) => u[i + 1] = s[i + 1]
      BY <1>1, <2>1
    <3>3. i + 1 < Len(s) => u[i + 2] = s[i + 2]
      BY <1>1, <2>1
    <3>4. i # 1 => u[i - 1] = s[i - 1]
      BY <1>1, <2>1
    <3> QED
      BY <1>1, <3>1, <3>2, <3>3, <3>4 DEF Script
  <2>2. CASE i > Len(s)
    <3> DEFINE j == i - Len(s)
    <3>1. j \in 1..Len(t) /\ u[i] = t[j]
      <4>1. j \in 1..Len(t) /\ i = Len(s) + j
        BY <1>1, <2>2
      <4> QED
        BY <1>1, <4>1
    <3>2. j < Len(t) => u[i + 1] = t[j + 1]
      <4>1. j < Len(t) => j + 1 \in 1..Len(t) /\ i + 1 = Len(s) + (j + 1)
        BY <1>1, <2>2
      <4> QED
        BY <1>1, <4>1
    <3>3. j + 1 < Len(t) => u[i + 2] = t[j + 2]
      <4>1. j + 1 < Len(t) => j + 2 \in 1..Len(t) /\ i + 2 = Len(s) + (j + 2)
        BY <1>1, <2>2
      <4> QED
        BY <1>1, <4>1
    <3>4. j # 1 => u[i - 1] = t[j - 1]
      <4>1. j # 1 => j - 1 \in 1..Len(t) /\ i - 1 = Len(s) + (j - 1)
        BY <1>1, <2>2
      <4> QED
        BY <1>1, <4>1
    <3>5. i < Len(u) <=> j < Len(t)
      BY <1>1
    <3>6. i + 1 < Len(u) <=> j + 1 < Len(t)
      BY <1>1
    <3>7. j = 1 => t[j] # "connect"
      BY <1>1, <1>2, <3>1
    <3> HIDE DEF j
    <3>8. t[j] = "connect" => j # 1 /\ t[j - 1] = "begin"
      BY <3>1, <3>7 DEF Script
    <3> QED
      BY <3>1, <3>2, <3>3, <3>4, <3>5, <3>6, <3>8 DEF Script
  <2> QED
    BY <1>1, <2>1, <2>2
<1>4. Script(u)
  BY <1>3 DEF Script
<1> QED
  BY <1>1, <1>4 DEF u

\* The methods are scripts, and none of them starts with the end of another.
LEMMA MethodScripts ==
    /\ <<>> \in Seq(Steps) /\ Script(<<>>)
    /\ \A s \in {ConnectAsync, Remove, Disable, CloseAll,
                <<"erase">> \o Remove,
                <<"enable">> \o Remove \o ConnectAsync,
                <<"switchoff">> \o Remove \o Disable,
                <<"forget", "check">>} :
           /\ s \in Seq(Steps) /\ Script(s)
           /\ s # <<>> /\ Head(s) # "connect"
<1> USE DEF Steps
<1>1. <<>> \in Seq(Steps) /\ Script(<<>>)
  BY DEF Script
<1>2. /\ ConnectAsync \in Seq(Steps) /\ Script(ConnectAsync)
      /\ ConnectAsync # <<>> /\ Head(ConnectAsync) = "cancel"
  BY DEF ConnectAsync, Script
<1>3. /\ Remove \in Seq(Steps) /\ Script(Remove)
      /\ Remove # <<>> /\ Head(Remove) = "bump"
  BY DEF Remove, Script
<1>4. /\ Disable \in Seq(Steps) /\ Script(Disable)
      /\ Disable # <<>> /\ Head(Disable) = "bump"
  BY DEF Disable, Script
<1>5. /\ CloseAll \in Seq(Steps) /\ Script(CloseAll)
      /\ CloseAll # <<>> /\ Head(CloseAll) = "stop"
  BY DEF CloseAll, Script
<1>6. /\ <<"forget", "check">> \in Seq(Steps) /\ Script(<<"forget", "check">>)
      /\ <<"forget", "check">> # <<>> /\ Head(<<"forget", "check">>) = "forget"
  BY DEF Script
<1>7. ASSUME NEW a \in {"erase", "enable", "switchoff"}
      PROVE  <<a>> \in Seq(Steps) /\ Script(<<a>>)
  BY <1>7 DEF Script
<1>8. ASSUME NEW a \in {"erase", "enable", "switchoff"}, NEW t \in Seq(Steps),
             Script(t), Head(t) # "connect"
      PROVE  /\ <<a>> \o t \in Seq(Steps) /\ Script(<<a>> \o t)
             /\ <<a>> \o t # <<>> /\ Head(<<a>> \o t) # "connect"
  <2>1. <<a>> \o t \in Seq(Steps) /\ Script(<<a>> \o t)
    BY <1>7, <1>8, JoinScripts
  <2>2. <<a>> \o t # <<>> /\ Head(<<a>> \o t) = a
    BY <1>7, <1>8
  <2> QED
    BY <2>1, <2>2
<1>9. ASSUME NEW a \in {"erase", "enable", "switchoff"}, NEW t \in Seq(Steps),
             Script(t), Head(t) # "connect"
      PROVE  /\ <<a>> \o Remove \o t \in Seq(Steps)
             /\ Script(<<a>> \o Remove \o t)
             /\ <<a>> \o Remove \o t # <<>>
             /\ Head(<<a>> \o Remove \o t) # "connect"
  <2>1. /\ <<a>> \o Remove \in Seq(Steps) /\ Script(<<a>> \o Remove)
        /\ <<a>> \o Remove # <<>> /\ Head(<<a>> \o Remove) # "connect"
    BY <1>3, <1>8
  <2> DEFINE b == <<a>> \o Remove
  <2> HIDE DEF b
  <2>2. b \o t \in Seq(Steps) /\ Script(b \o t)
    BY <2>1, <1>9, JoinScripts DEF b
  <2>3. b \in Seq(Steps) /\ b # <<>> /\ Head(b) # "connect"
    BY <2>1 DEF b
  <2>4. b \o t # <<>> /\ Head(b \o t) = Head(b)
    BY <2>3
  <2> QED
    BY <2>2, <2>3, <2>4 DEF b
<1> QED
  <2>1. /\ <<"erase">> \o Remove \in Seq(Steps) /\ Script(<<"erase">> \o Remove)
        /\ <<"erase">> \o Remove # <<>>
        /\ Head(<<"erase">> \o Remove) # "connect"
    BY <1>3, <1>8
  <2>2. LET s == <<"enable">> \o Remove \o ConnectAsync IN
        s \in Seq(Steps) /\ Script(s) /\ s # <<>> /\ Head(s) # "connect"
    BY <1>2, <1>9
  <2>3. LET s == <<"switchoff">> \o Remove \o Disable IN
        s \in Seq(Steps) /\ Script(s) /\ s # <<>> /\ Head(s) # "connect"
    BY <1>4, <1>9
  <2> HIDE DEF Steps
  <2> QED
    BY <1>1, <1>2, <1>3, <1>4, <1>5, <1>6, <2>1, <2>2, <2>3

-----------------------------------------------------------------------------
(* Types *)

\* Requests, timers and the boot process are different processes.
LEMMA ProcsDisjoint ==
    /\ \A r \in Requests : r \in Procs /\ r # Boot /\ r \notin Timers
    /\ \A x \in Timers : x \in Procs /\ x # Boot /\ x \notin Requests
    /\ Boot \in Procs
    /\ NoTimer \notin Timers /\ NoClient \notin Gens
    /\ Gens \subseteq 0..MaxGen
    /\ \A g \in Gens : <<g, 1>> \in Timers /\ <<g, 2>> \in Timers
<1>1. Gens \subseteq Nat /\ 0 \notin Gens /\ Gens \subseteq 0..MaxGen
  BY MCPManagerAssumption DEF Gens
<1>2. Timers \subseteq Nat \X Nat
  <2>1. {1, 2} \subseteq Nat
    OBVIOUS
  <2> QED
    BY <1>1, <2>1, Zenon DEF Timers
<1>3. NoTimer \notin Timers
  BY <1>1 DEF Timers, NoTimer
<1> QED
  BY <1>1, <1>2, <1>3, MCPManagerAssumption DEF Procs, Timers, NoClient

\* A process that has taken its step has the rest of its method left.
LEMMA TakeStep ==
    ASSUME TypeOK, NEW p \in Procs, NEW step, Take(p, step)
    PROVE  /\ todo[p] \in Seq(Steps) /\ todo[p] # <<>>
           /\ Head(todo[p]) = step
           /\ todo' \in [Procs -> Seq(Steps)]
           /\ todo'[p] = Tail(todo[p])
           /\ \A q \in Procs \ {p} : todo'[q] = todo[q]
<1>1. todo \in [Procs -> Seq(Steps)]
  BY DEF TypeOK
<1>2. todo[p] \in Seq(Steps) /\ todo[p] # <<>>
  BY <1>1 DEF Take
<1>3. Tail(todo[p]) \in Seq(Steps)
  BY <1>2
<1> QED
  BY <1>1, <1>2, <1>3 DEF Take

\* A request that arrives has one of the methods ahead of it.
LEMMA ArriveStep ==
    ASSUME TypeOK, NEW r \in Requests, Request(r)
    PROVE  \E s \in Seq(Steps) :
               /\ Script(s) /\ s # <<>> /\ Head(s) # "connect"
               /\ Arrive(r, s)
               /\ row' \in {"absent", "enabled", "disabled"}
<1>1. row \in {"absent", "enabled", "disabled"}
  BY DEF TypeOK
<1>2. CASE Create(r)
  BY <1>1, <1>2, MethodScripts DEF Create
<1>3. CASE Reconnect(r)
  BY <1>1, <1>3, MethodScripts DEF Reconnect
<1>4. CASE Delete(r)
  BY <1>1, <1>4, MethodScripts DEF Delete
<1>5. CASE Update(r)
  BY <1>1, <1>5, MethodScripts DEF Update
<1>6. CASE Shutdown(r)
  BY <1>1, <1>6, MethodScripts DEF Shutdown
<1> QED
  BY <1>2, <1>3, <1>4, <1>5, <1>6 DEF Request

\* Every variable starts with a value of its type.
LEMMA InitType == Init => TypeOK
<1> SUFFICES ASSUME Init PROVE TypeOK
  OBVIOUS
<1>1. todo \in [Procs -> Seq(Steps)]
  BY MethodScripts DEF Init
<1>2. mine \in [Procs -> 0..MaxGen] /\ gen \in 0..MaxGen
  BY MCPManagerAssumption DEF Init
<1> QED
  BY <1>1, <1>2 DEF Init, TypeOK

\* Every step keeps the types.
LEMMA NextType == ASSUME TypeOK, [Next]_vars PROVE TypeOK'
<1> USE DEF TypeOK, manager, attempts
<1>1. ASSUME NEW r \in Requests, Request(r) PROVE TypeOK'
  <2> PICK s \in Seq(Steps) : /\ Arrive(r, s)
                             /\ row' \in {"absent", "enabled", "disabled"}
    BY <1>1, ArriveStep
  <2> QED
    BY ProcsDisjoint DEF Arrive
<1>2. ASSUME NEW p \in Procs, WriteRow(p) PROVE TypeOK'
  <2>1. Tail(todo[p]) \in Seq(Steps) /\ <<>> \in Seq(Steps)
    BY <1>2 DEF WriteRow
  <2>2. todo' \in [Procs -> Seq(Steps)]
    BY <1>2, <2>1 DEF WriteRow
  <2>3. row' \in {"absent", "enabled", "disabled"}
    BY <1>2 DEF WriteRow
  <2> QED
    BY <1>2, <2>2, <2>3 DEF WriteRow
<1>3. ASSUME NEW p \in Procs, CancelRetry(p) PROVE TypeOK'
  BY <1>3, TakeStep DEF CancelRetry, Stopped
<1>4. ASSUME NEW p \in Procs, BumpGeneration(p) PROVE TypeOK'
  <2>1. gen + 1 \in 0..MaxGen
    BY <1>4, MCPManagerAssumption DEF BumpGeneration
  <2> QED
    BY <1>4, <2>1, TakeStep DEF BumpGeneration
<1>5. ASSUME NEW p \in Procs, Connect(p) PROVE TypeOK'
  <2>1. 0 \in 0..MaxGen
    BY MCPManagerAssumption
  <2> QED
    BY <1>5, <2>1, TakeStep DEF Connect, SetStatusIfCurrent
<1>6. ASSUME NEW p \in Procs, Drop(p) PROVE TypeOK'
  BY <1>6, TakeStep DEF Drop, SessionClosed
<1>7. ASSUME NEW p \in Procs, StopAllRetries(p) PROVE TypeOK'
  BY <1>7, TakeStep DEF StopAllRetries, Stopped
<1>8. ASSUME NEW p \in Procs, CloseClients(p) PROVE TypeOK'
  <2>1. gen' \in 0..MaxGen
    BY <1>8, MCPManagerAssumption DEF CloseClients
  <2> QED
    BY <1>8, <2>1, TakeStep DEF CloseClients, SessionClosed
<1>9. ASSUME NEW x \in Timers, Expire(x) PROVE TypeOK'
  BY <1>9, MethodScripts DEF Expire
<1>10. ASSUME NEW x \in Timers, Forget(x) PROVE TypeOK'
  BY <1>10, ProcsDisjoint, TakeStep DEF Forget
<1>11. ASSUME NEW x \in Timers, FireRetry(x) PROVE TypeOK'
  BY <1>11, MethodScripts DEF FireRetry
<1>12. ASSUME NEW g \in Gens, Dial(g) PROVE TypeOK'
  BY <1>12 DEF Dial
<1>13. ASSUME NEW g \in Gens, Store(g) PROVE TypeOK'
  BY <1>13 DEF Store, SessionClosed
<1>14. ASSUME NEW g \in Gens, ApplyResult(g) PROVE TypeOK'
  BY <1>14 DEF ApplyResult, SetStatusIfCurrent, Reported
<1>15. ASSUME NEW g \in Gens, ForceFail(g) PROVE TypeOK'
  BY <1>15 DEF ForceFail, SetStatusIfCurrent, Reported
<1>16. ASSUME NEW g \in Gens, Die(g) PROVE TypeOK'
  BY <1>16 DEF Die
<1>17. ASSUME NEW g \in Gens, ReportDeath(g) PROVE TypeOK'
  BY <1>17 DEF ReportDeath, SetStatusIfCurrent, Reported
<1>18. ASSUME NEW g \in Gens, ScheduleRetry(g) PROVE TypeOK'
  BY <1>18, ProcsDisjoint DEF ScheduleRetry, Stopped
<1>19. CASE UNCHANGED vars
  BY <1>19 DEF vars
<1> QED
  BY <1>1, <1>2, <1>3, <1>4, <1>5, <1>6, <1>7, <1>8, <1>9, <1>10, <1>11, <1>12,
     <1>13, <1>14, <1>15, <1>16, <1>17, <1>18, <1>19
  DEF Next, Proceed, Retry, Attempt, Settle

-----------------------------------------------------------------------------
(* The inductive invariant *)

\* Nothing has been started or bumped initially, and only the boot process has
\* anything to do.
LEMMA InitIInv == Init => IInv
<1> SUFFICES ASSUME Init PROVE IInv
  OBVIOUS
<1> USE DEF Init
<1>1. TypeOK
  BY InitType
<1>2. Captures
  BY MCPManagerAssumption DEF Captures
<1>3. Life /\ NoStraySession /\ TimersSuffice
  <2>1. \A g \in Gens : <<g, 1>> \in Timers /\ <<g, 2>> \in Timers
    BY ProcsDisjoint
  <2> QED
    BY <2>1 DEF Life, AttemptLife, NoStraySession, TimersSuffice
<1>4. Registered /\ Accounted
  BY DEF Registered, Accounted, StatusFits
<1>5. Idle
  BY ProcsDisjoint DEF Idle
<1>6. Scripts
  BY MethodScripts DEF Scripts
<1> QED
  BY <1>1, <1>2, <1>3, <1>4, <1>5, <1>6 DEF IInv

\* Generations are captured once: a bump makes one that is new to everybody.
LEMMA NextCaptures ==
    ASSUME TypeOK, Captures, Life, [Next]_vars
    PROVE  Captures'
<1> USE DEF manager, attempts
<1>1. gen \in Nat /\ mine \in [Procs -> 0..MaxGen] /\ MaxGen \in Nat
  BY MCPManagerAssumption DEF TypeOK
<1>2. ASSUME NEW p \in Procs, BumpGeneration(p) PROVE Captures'
  <2>1. gen' = gen + 1 /\ gen + 1 \in Gens /\ UNCHANGED inner
    BY <1>1, <1>2 DEF BumpGeneration, Gens
  <2>2. inner[gen + 1] = "none"
    BY <1>1, <2>1 DEF Life, AttemptLife
  <2>3. mine' \in {mine, [mine EXCEPT ![p] = gen + 1]}
    BY <1>2 DEF BumpGeneration
  <2>4. \A q \in Procs : mine[q] <= gen /\ mine[q] # gen + 1
    BY <1>1 DEF Captures
  <2> QED
    BY <1>1, <2>1, <2>2, <2>3, <2>4 DEF Captures
<1>3. ASSUME NEW p \in Procs, Connect(p) PROVE Captures'
  <2>1. /\ gen' = gen
        /\ mine' = [mine EXCEPT ![p] = 0]
        /\ inner' = [inner EXCEPT ![mine[p]] = "dialing"]
    BY <1>3 DEF Connect
  <2>2. \A q \in Procs : mine'[q] # 0 => /\ mine'[q] = mine[q] /\ q # p
                                       /\ mine[q] # mine[p]
    BY <1>1, <2>1 DEF Captures
  <2>3. \A q \in Procs : mine'[q] # 0 => inner'[mine'[q]] = "none"
    BY <1>1, <2>1, <2>2 DEF Captures, TypeOK, Gens
  <2>4. \A q \in Procs : mine'[q] <= gen'
    BY <1>1, <2>1 DEF Captures
  <2> QED
    BY <2>2, <2>3, <2>4 DEF Captures
<1>4. ASSUME NEW p \in Procs, CloseClients(p) PROVE Captures'
  BY <1>1, <1>4 DEF CloseClients, Captures
<1>5. CASE /\ gen' = gen /\ mine' = mine
           /\ \A g \in Gens : inner[g] = "none" => inner'[g] = "none"
  <2>1. \A p \in Procs : mine[p] # 0 => mine[p] \in Gens
    BY <1>1 DEF Gens
  <2> QED
    BY <1>5, <2>1 DEF Captures
<1>6. ASSUME ~ \E p \in Procs : BumpGeneration(p) \/ Connect(p) \/ CloseClients(p)
      PROVE  /\ gen' = gen /\ mine' = mine
             /\ \A g \in Gens : inner[g] = "none" => inner'[g] = "none"
  <2>1. ASSUME NEW r \in Requests, Request(r) PROVE UNCHANGED <<gen, mine, inner>>
    BY <2>1 DEF Request, Create, Reconnect, Delete, Update, Shutdown, Arrive
  <2>2. ASSUME NEW p \in Procs, Proceed(p) PROVE UNCHANGED <<gen, mine, inner>>
    BY <1>6, <2>2 DEF Proceed, WriteRow, CancelRetry, Drop, StopAllRetries
  <2>3. ASSUME NEW x \in Timers, Retry(x) PROVE UNCHANGED <<gen, mine, inner>>
    BY <2>3 DEF Retry, Expire, Forget, FireRetry
  <2>4. ASSUME NEW g \in Gens, Attempt(g)
        PROVE  /\ UNCHANGED <<gen, mine>>
               /\ \A h \in Gens : inner[h] = "none" => inner'[h] = "none"
    BY <2>4 DEF Attempt, Settle, Dial, Store, ApplyResult, ForceFail, Die,
       ReportDeath, ScheduleRetry, TypeOK
  <2> QED
    BY <2>1, <2>2, <2>3, <2>4 DEF Next, vars
<1> QED
  BY <1>2, <1>3, <1>4, <1>5, <1>6

\* The goroutines of an attempt stay in step.
LEMMA NextLife ==
    ASSUME TypeOK, Captures, Life, Registered, [Next]_vars
    PROVE  Life'
<1> SUFFICES ASSUME NEW g \in Gens PROVE AttemptLife(g)'
  BY DEF Life
<1> USE DEF manager, attempts, AttemptLife
<1>1. AttemptLife(g)
  BY DEF Life
<1>2. /\ gen \in Nat /\ MaxGen \in Nat /\ g \in Nat /\ client \in Gens \cup {NoClient}
      /\ inner \in [Gens -> {"none", "dialing", "listing", "stored", "failed"}]
      /\ outer \in [Gens -> {"none", "racing", "forced", "late", "failed", "done"}]
      /\ watcher \in [Gens -> {"none", "waiting", "failed", "done"}]
      /\ session \in [Gens -> {"none", "open", "dead", "closed"}]
  BY MCPManagerAssumption DEF TypeOK, Gens
<1>3. g # client \/ inner[g] = "stored"
  BY ProcsDisjoint DEF Registered
<1>4. ASSUME NEW r \in Requests, Request(r) PROVE AttemptLife(g)'
  BY <1>1, <1>4 DEF Request, Create, Reconnect, Delete, Update, Shutdown, Arrive
<1>5. ASSUME NEW p \in Procs, BumpGeneration(p) PROVE AttemptLife(g)'
  BY <1>1, <1>2, <1>5 DEF BumpGeneration
<1>6. ASSUME NEW p \in Procs, Connect(p) PROVE AttemptLife(g)'
  <2>1. g = mine[p] => g <= gen /\ inner[g] = "none"
    BY <1>2 DEF Captures, Gens
  <2> QED
    BY <1>1, <1>2, <1>6, <2>1 DEF Connect
<1>7. ASSUME NEW p \in Procs, Drop(p) PROVE AttemptLife(g)'
  BY <1>1, <1>2, <1>3, <1>7 DEF Drop, SessionClosed
<1>8. ASSUME NEW p \in Procs, CloseClients(p) PROVE AttemptLife(g)'
  <2>1. gen' = gen \/ gen' = gen + 1
    BY <1>8 DEF CloseClients
  <2> QED
    BY <1>1, <1>2, <1>3, <1>8, <2>1 DEF CloseClients, SessionClosed
<1>9. ASSUME NEW p \in Procs, WriteRow(p) \/ CancelRetry(p) \/ StopAllRetries(p)
      PROVE  AttemptLife(g)'
  BY <1>1, <1>9 DEF WriteRow, CancelRetry, StopAllRetries
<1>10. ASSUME NEW x \in Timers, Retry(x) PROVE AttemptLife(g)'
  BY <1>1, <1>10 DEF Retry, Expire, Forget, FireRetry
<1>11. ASSUME NEW h \in Gens, Dial(h) PROVE AttemptLife(g)'
  BY <1>1, <1>2, <1>11 DEF Dial
<1>12. ASSUME NEW h \in Gens, Store(h) PROVE AttemptLife(g)'
  BY <1>1, <1>2, <1>3, <1>12 DEF Store, SessionClosed
<1>13. ASSUME NEW h \in Gens, ApplyResult(h) PROVE AttemptLife(g)'
  BY <1>1, <1>2, <1>13 DEF ApplyResult, Reported
<1>14. ASSUME NEW h \in Gens, ForceFail(h) PROVE AttemptLife(g)'
  BY <1>1, <1>2, <1>14 DEF ForceFail, Reported
<1>15. ASSUME NEW h \in Gens, Die(h) PROVE AttemptLife(g)'
  BY <1>1, <1>2, <1>15 DEF Die
<1>16. ASSUME NEW h \in Gens, ReportDeath(h) PROVE AttemptLife(g)'
  BY <1>1, <1>2, <1>16 DEF ReportDeath, Reported
<1>17. ASSUME NEW h \in Gens, ScheduleRetry(h) PROVE AttemptLife(g)'
  BY <1>1, <1>2, <1>17 DEF ScheduleRetry
<1>18. CASE UNCHANGED vars
  BY <1>1, <1>18 DEF vars
<1> QED
  BY <1>4, <1>5, <1>6, <1>7, <1>8, <1>9, <1>10, <1>11, <1>12, <1>13, <1>14,
     <1>15, <1>16, <1>17, <1>18
  DEF Next, Proceed, Retry, Attempt, Settle

\* An open session stays the registered client's, or that of an attempt which
\* is about to store it: what takes a client out of the map closes its session.
LEMMA NextNoStray ==
    ASSUME TypeOK, Captures, Life, Registered, NoStraySession, [Next]_vars
    PROVE  Registered' /\ NoStraySession'
<1> USE DEF manager, attempts, Registered, NoStraySession
<1>1. /\ client \in Gens \cup {NoClient} /\ NoClient \notin Gens
      /\ inner \in [Gens -> {"none", "dialing", "listing", "stored", "failed"}]
      /\ session \in [Gens -> {"none", "open", "dead", "closed"}]
  BY ProcsDisjoint DEF TypeOK
<1>2. ASSUME NEW p \in Procs, Connect(p) PROVE Registered' /\ NoStraySession'
  <2>1. mine[p] \in Gens => inner[mine[p]] = "none" /\ session[mine[p]] = "none"
    <3>1. mine[p] \in Gens => mine[p] # 0
      BY DEF Gens
    <3> QED
      BY <3>1 DEF Captures, Life, AttemptLife
  <2>2. inner' = [inner EXCEPT ![mine[p]] = "dialing"] /\ UNCHANGED <<client, session>>
    BY <1>2 DEF Connect
  <2> QED
    BY <1>1, <2>1, <2>2
<1>3. ASSUME NEW p \in Procs, Drop(p) \/ CloseClients(p)
      PROVE  Registered' /\ NoStraySession'
  BY <1>1, <1>3 DEF Drop, CloseClients, SessionClosed
<1>4. ASSUME NEW g \in Gens, Dial(g) PROVE Registered' /\ NoStraySession'
  BY <1>1, <1>4 DEF Dial
<1>5. ASSUME NEW g \in Gens, Store(g) PROVE Registered' /\ NoStraySession'
  BY <1>1, <1>5 DEF Store, SessionClosed
<1>6. ASSUME NEW g \in Gens, Die(g) PROVE Registered' /\ NoStraySession'
  BY <1>1, <1>6 DEF Die
<1>7. CASE UNCHANGED <<client, inner, session>>
  BY <1>7
<1>8. ASSUME ~ \E p \in Procs : Connect(p) \/ Drop(p) \/ CloseClients(p),
             ~ \E g \in Gens : Dial(g) \/ Store(g) \/ Die(g)
      PROVE  UNCHANGED <<client, inner, session>>
  <2>1. ASSUME NEW r \in Requests, Request(r) PROVE UNCHANGED <<client, inner, session>>
    BY <2>1 DEF Request, Create, Reconnect, Delete, Update, Shutdown, Arrive
  <2>2. ASSUME NEW p \in Procs, Proceed(p) PROVE UNCHANGED <<client, inner, session>>
    BY <1>8, <2>2 DEF Proceed, WriteRow, CancelRetry, BumpGeneration, StopAllRetries
  <2>3. ASSUME NEW x \in Timers, Retry(x) PROVE UNCHANGED <<client, inner, session>>
    BY <2>3 DEF Retry, Expire, Forget, FireRetry
  <2>4. ASSUME NEW g \in Gens, Attempt(g) PROVE UNCHANGED <<client, inner, session>>
    BY <1>8, <2>4 DEF Attempt, Settle, ApplyResult, ForceFail, ReportDeath,
       ScheduleRetry
  <2> QED
    BY <2>1, <2>2, <2>3, <2>4 DEF Next, vars
<1> QED
  BY <1>2, <1>3, <1>4, <1>5, <1>6, <1>7, <1>8

\* An attempt schedules as many retries as it has timers.
LEMMA NextTimers ==
    ASSUME TypeOK, Captures, Life, TimersSuffice, [Next]_vars
    PROVE  TimersSuffice'
<1> SUFFICES ASSUME NEW g \in Gens
             PROVE  /\ TwoReports(g)' => timer'[<<g, 1>>] = "none"
                    /\ OneReport(g)' => timer'[<<g, 2>>] = "none"
  BY DEF TimersSuffice
<1> USE DEF manager, attempts
<1>1. /\ inner \in [Gens -> {"none", "dialing", "listing", "stored", "failed"}]
      /\ outer \in [Gens -> {"none", "racing", "forced", "late", "failed", "done"}]
      /\ watcher \in [Gens -> {"none", "waiting", "failed", "done"}]
      /\ timer \in [Timers -> {"none", "armed", "over"}]
      /\ \A h \in Gens : <<h, 1>> \in Timers /\ <<h, 2>> \in Timers
  BY ProcsDisjoint DEF TypeOK
<1>2. /\ TwoReports(g) => timer[<<g, 1>>] = "none"
      /\ OneReport(g) => timer[<<g, 2>>] = "none"
  BY DEF TimersSuffice
<1>3. AttemptLife(g)
  BY DEF Life
<1>4. ASSUME \A x \in Timers : timer[x] = "none" => timer'[x] = "none",
             TwoReports(g)' => TwoReports(g), OneReport(g)' => OneReport(g)
      PROVE  /\ TwoReports(g)' => timer'[<<g, 1>>] = "none"
             /\ OneReport(g)' => timer'[<<g, 2>>] = "none"
  BY <1>1, <1>2, <1>4
<1>5. ASSUME NEW h \in Gens, ScheduleRetry(h)
      PROVE  /\ TwoReports(g)' => timer'[<<g, 1>>] = "none"
             /\ OneReport(g)' => timer'[<<g, 2>>] = "none"
  <2>1. PICK x \in {<<h, 1>>, <<h, 2>>} : timer' = [Stopped EXCEPT ![x] = "armed"]
    BY <1>5 DEF ScheduleRetry
  <2>2. CASE h = g
    <3>1. timer[<<g, 1>>] = "none" => x = <<g, 1>>
      <4>1. LET y == IF timer[<<g, 1>>] = "none" THEN <<g, 1>> ELSE <<g, 2>> IN
            timer' = [Stopped EXCEPT ![y] = "armed"]
        BY <1>5, <2>2 DEF ScheduleRetry
      <4> QED
        BY <1>1, <2>1, <2>2, <4>1 DEF Stopped
    <3>2. ~TwoReports(g)'
      BY <1>1, <1>3, <1>5, <2>2 DEF ScheduleRetry, TwoReports, AttemptLife
    <3>3. TwoReports(g) \/ ~OneReport(g)'
      BY <1>1, <1>3, <1>5, <2>2
      DEF ScheduleRetry, TwoReports, OneReport, AttemptLife
    <3>4. OneReport(g)
      BY <1>1, <1>3, <1>5, <2>2 DEF ScheduleRetry, OneReport, AttemptLife
    <3>5. <<g, 1>> # <<g, 2>>
      OBVIOUS
    <3> QED
      BY <1>1, <1>2, <2>1, <2>2, <3>1, <3>2, <3>3, <3>4, <3>5 DEF Stopped
  <2>3. CASE h # g
    <3>1. timer'[<<g, 1>>] = Stopped[<<g, 1>>] /\ timer'[<<g, 2>>] = Stopped[<<g, 2>>]
      BY <1>1, <2>1, <2>3 DEF Stopped
    <3>2. TwoReports(g)' = TwoReports(g) /\ OneReport(g)' = OneReport(g)
      BY <1>1, <1>5, <2>3 DEF ScheduleRetry, TwoReports, OneReport
    <3> QED
      BY <1>1, <1>2, <3>1, <3>2 DEF Stopped
  <2> QED
    BY <2>2, <2>3
<1>6. ASSUME ~ \E h \in Gens : ScheduleRetry(h)
      PROVE  \A x \in Timers : timer[x] = "none" => timer'[x] = "none"
  <2>1. ASSUME NEW r \in Requests, Request(r) PROVE UNCHANGED timer
    BY <2>1 DEF Request, Create, Reconnect, Delete, Update, Shutdown, Arrive
  <2>2. ASSUME NEW p \in Procs, Proceed(p)
        PROVE  \A x \in Timers : timer[x] = "none" => timer'[x] = "none"
    BY <2>2 DEF Proceed, WriteRow, CancelRetry, BumpGeneration, Connect, Drop,
       StopAllRetries, CloseClients, Stopped
  <2>3. ASSUME NEW y \in Timers, Retry(y)
        PROVE  \A x \in Timers : timer[x] = "none" => timer'[x] = "none"
    BY <1>1, <2>3 DEF Retry, Expire, Forget, FireRetry
  <2>4. ASSUME NEW h \in Gens, Attempt(h) PROVE UNCHANGED timer
    BY <1>6, <2>4 DEF Attempt, Settle, Dial, Store, ApplyResult, ForceFail, Die,
       ReportDeath
  <2> QED
    BY <2>1, <2>2, <2>3, <2>4 DEF Next, vars
<1>7. ASSUME ~ \E h \in Gens : ScheduleRetry(h)
      PROVE  /\ TwoReports(g)' => TwoReports(g)
             /\ OneReport(g)' => OneReport(g)
  <2> USE DEF TwoReports, OneReport
  <2>1. ASSUME NEW r \in Requests, Request(r) PROVE UNCHANGED attempts
    BY <2>1 DEF Request, Create, Reconnect, Delete, Update, Shutdown, Arrive
  <2>2. ASSUME NEW p \in Procs, Connect(p)
        PROVE  /\ TwoReports(g)' => TwoReports(g)
               /\ OneReport(g)' => OneReport(g)
    <3>1. g = mine[p] => inner[g] = "none"
      BY DEF Captures, Gens
    <3> QED
      BY <1>1, <1>3, <2>2, <3>1 DEF Connect, AttemptLife
  <2>3. ASSUME NEW p \in Procs, Proceed(p), ~Connect(p)
        PROVE  UNCHANGED <<inner, outer, watcher>>
    BY <2>3 DEF Proceed, WriteRow, CancelRetry, BumpGeneration, Drop,
       StopAllRetries, CloseClients
  <2>4. ASSUME NEW x \in Timers, Retry(x) PROVE UNCHANGED attempts
    BY <2>4 DEF Retry, Expire, Forget, FireRetry
  <2>5. ASSUME NEW h \in Gens, Attempt(h)
        PROVE  /\ TwoReports(g)' => TwoReports(g)
               /\ OneReport(g)' => OneReport(g)
    BY <1>1, <1>3, <1>7, <2>5 DEF Attempt, Settle, Dial, Store, ApplyResult,
       ForceFail, Die, ReportDeath, Reported, AttemptLife
  <2> QED
    BY <2>1, <2>2, <2>3, <2>4, <2>5 DEF Next, vars
<1> QED
  BY <1>4, <1>5, <1>6, <1>7

\* Only a process with a method ahead of it takes steps.
LEMMA NextIdle ==
    ASSUME TypeOK, Captures, Life, TimersSuffice, Idle, [Next]_vars
    PROVE  Idle'
<1> USE DEF manager, attempts
<1>1. timer \in [Timers -> {"none", "armed", "over"}] /\ todo \in [Procs -> Seq(Steps)]
  BY DEF TypeOK
<1>2. ASSUME NEW r \in Requests, Request(r) PROVE Idle'
  <2> PICK s \in Seq(Steps) : Arrive(r, s)
    BY <1>2, ArriveStep
  <2> QED
    BY <1>1, ProcsDisjoint DEF Arrive, Idle
<1>3. ASSUME NEW p \in Procs, NEW step, Take(p, step), UNCHANGED arrived,
             \A x \in Timers : timer'[x] = timer[x] \/ timer'[x] = "over"
      PROVE  Idle'
  BY <1>1, <1>3, TakeStep, ProcsDisjoint DEF Idle
<1>4. ASSUME NEW p \in Procs, WriteRow(p) PROVE Idle'
  BY <1>1, <1>4, ProcsDisjoint DEF WriteRow, Idle
<1>5. ASSUME NEW p \in Procs, Proceed(p), ~WriteRow(p) PROVE Idle'
  <2>1. PICK step : Take(p, step)
    BY <1>5 DEF Proceed, CancelRetry, BumpGeneration, Connect, Drop,
       StopAllRetries, CloseClients
  <2>2. UNCHANGED arrived /\ (timer' = timer \/ timer' = Stopped)
    BY <1>5 DEF Proceed, CancelRetry, BumpGeneration, Connect, Drop,
       StopAllRetries, CloseClients
  <2> QED
    BY <1>3, <2>1, <2>2 DEF Stopped
<1>6. ASSUME NEW x \in Timers, Expire(x) PROVE Idle'
  BY <1>1, <1>6, ProcsDisjoint DEF Expire, Idle
<1>7. ASSUME NEW x \in Timers, Forget(x) PROVE Idle'
  BY <1>3, <1>7, ProcsDisjoint DEF Forget
<1>8. ASSUME NEW x \in Timers, FireRetry(x) PROVE Idle'
  BY <1>1, <1>8, ProcsDisjoint DEF FireRetry, Idle
<1>9. ASSUME NEW g \in Gens, ScheduleRetry(g) PROVE Idle'
  <2>1. OneReport(g)
    BY <1>9 DEF ScheduleRetry, OneReport, Life, AttemptLife
  <2>2. PICK x \in Timers : timer[x] = "none" /\ timer' = [Stopped EXCEPT ![x] = "armed"]
    <3>1. timer[<<g, 2>>] = "none" /\ <<g, 1>> \in Timers /\ <<g, 2>> \in Timers
      BY <2>1, ProcsDisjoint DEF TimersSuffice
    <3> QED
      BY <1>9, <3>1 DEF ScheduleRetry
  <2>3. UNCHANGED <<todo, arrived>>
    BY <1>9 DEF ScheduleRetry
  <2> QED
    BY <1>1, <2>2, <2>3 DEF Idle, Stopped
<1>10. ASSUME NEW g \in Gens, Attempt(g), ~ScheduleRetry(g) PROVE Idle'
  BY <1>10 DEF Attempt, Settle, Dial, Store, ApplyResult, ForceFail, Die,
     ReportDeath, Idle
<1>11. CASE UNCHANGED vars
  BY <1>11 DEF vars, Idle
<1> QED
  BY <1>2, <1>4, <1>5, <1>6, <1>7, <1>8, <1>9, <1>10, <1>11 DEF Next, Retry

\* The same for a process that follows its script.
LEMMA TakeScript ==
    ASSUME TypeOK, Scripts, NEW p \in Procs, NEW step, Take(p, step)
    PROVE  /\ Script(todo'[p])
           /\ todo'[p] # <<>> /\ Head(todo'[p]) = "connect" => step = "begin"
           /\ step = "begin" => todo'[p] # <<>> /\ Head(todo'[p]) = "connect"
           /\ step = "bump" => todo'[p] # <<>> /\ Clears(todo'[p])
           /\ Clears(todo[p]) => /\ todo'[p] # <<>>
                                /\ Head(todo'[p]) \in {"drop", "disable"}
<1> DEFINE s == todo[p]
<1>1. s \in Seq(Steps) /\ s # <<>> /\ Head(s) = step /\ todo'[p] = Tail(s)
  BY TakeStep
<1>2. Script(s)
  BY DEF Scripts
<1> HIDE DEF s
<1>3. LET t == Tail(s) IN
      /\ Script(t)
      /\ Head(s) = "begin" => t # <<>> /\ Head(t) = "connect"
      /\ t # <<>> /\ Head(t) = "connect" => Head(s) = "begin"
      /\ Head(s) = "bump" => t # <<>> /\ Clears(t)
      /\ Clears(s) => t # <<>> /\ Head(t) \in {"drop", "disable"}
  BY <1>1, <1>2, TailScript
<1> QED
  BY <1>1, <1>3 DEF s

\* Every process follows its script, and holds a generation when it comes to
\* the end of ConnectAsync.
LEMMA NextScripts ==
    ASSUME TypeOK, Scripts, [Next]_vars
    PROVE  Scripts'
<1> USE DEF manager, attempts
<1>1. /\ todo \in [Procs -> Seq(Steps)] /\ mine \in [Procs -> 0..MaxGen]
      /\ gen \in Nat
  BY MCPManagerAssumption DEF TypeOK
<1>2. ASSUME NEW r \in Requests, Request(r) PROVE Scripts'
  <2> PICK s \in Seq(Steps) : Script(s) /\ Head(s) # "connect" /\ Arrive(r, s)
    BY <1>2, ArriveStep
  <2> QED
    BY <1>1, ProcsDisjoint DEF Arrive, Scripts
<1>3. ASSUME NEW p \in Procs, NEW step, Take(p, step),
             \A q \in Procs \ {p} : mine'[q] = mine[q],
             step = "begin" => mine'[p] # 0
      PROVE  Scripts'
  <2>1. /\ Script(todo'[p])
        /\ todo'[p] # <<>> /\ Head(todo'[p]) = "connect" => step = "begin"
    BY <1>3, TakeScript
  <2>2. \A q \in Procs \ {p} : todo'[q] = todo[q]
    BY <1>3, TakeStep
  <2> QED
    BY <1>3, <2>1, <2>2 DEF Scripts
<1>4. ASSUME NEW p \in Procs, WriteRow(p) PROVE Scripts'
  <2>1. CASE todo' = [todo EXCEPT ![p] = <<>>]
    BY <1>1, <1>4, <2>1, MethodScripts DEF WriteRow, Scripts
  <2>2. CASE todo' = [todo EXCEPT ![p] = Tail(@)]
    <3>1. /\ todo[p] # <<>> /\ Head(todo[p]) \in {"erase", "enable", "switchoff"}
          /\ UNCHANGED mine
      BY <1>4 DEF WriteRow
    <3>2. Take(p, Head(todo[p])) /\ Head(todo[p]) # "begin"
      BY <2>2, <3>1 DEF Take
    <3> QED
      BY <1>3, <3>1, <3>2
  <2> QED
    BY <1>4, <2>1, <2>2 DEF WriteRow
<1>5. ASSUME NEW p \in Procs, BumpGeneration(p) PROVE Scripts'
  <2>1. CASE Take(p, "bump") /\ UNCHANGED mine
    BY <1>3, <2>1
  <2>2. CASE Take(p, "begin") /\ mine' = [mine EXCEPT ![p] = gen + 1]
    BY <1>1, <1>3, <2>2
  <2> QED
    BY <1>5, <2>1, <2>2 DEF BumpGeneration
<1>6. ASSUME NEW p \in Procs, Connect(p) PROVE Scripts'
  <2>1. Take(p, "connect") /\ mine' = [mine EXCEPT ![p] = 0]
    BY <1>6 DEF Connect
  <2> QED
    BY <1>1, <1>3, <2>1
<1>7. ASSUME NEW p \in Procs,
             CancelRetry(p) \/ Drop(p) \/ StopAllRetries(p) \/ CloseClients(p)
      PROVE  Scripts'
  <2>1. UNCHANGED mine /\ \E step \in {"cancel", "drop", "disable", "stop", "closeall"} :
                              Take(p, step)
    BY <1>7 DEF CancelRetry, Drop, StopAllRetries, CloseClients
  <2> QED
    BY <1>3, <2>1
<1>8. ASSUME NEW x \in Timers, Expire(x) PROVE Scripts'
  BY <1>1, <1>8, MethodScripts DEF Expire, Scripts
<1>9. ASSUME NEW x \in Timers, Forget(x) PROVE Scripts'
  BY <1>3, <1>9, ProcsDisjoint DEF Forget
<1>10. ASSUME NEW x \in Timers, FireRetry(x) PROVE Scripts'
  BY <1>1, <1>10, MethodScripts DEF FireRetry, Scripts
<1>11. ASSUME NEW g \in Gens, Attempt(g) PROVE Scripts'
  BY <1>11 DEF Attempt, Settle, Dial, Store, ApplyResult, ForceFail, Die,
     ReportDeath, ScheduleRetry, Scripts
<1>12. CASE UNCHANGED vars
  BY <1>12 DEF vars, Scripts
<1> QED
  BY <1>2, <1>4, <1>5, <1>6, <1>7, <1>8, <1>9, <1>10, <1>11, <1>12
  DEF Next, Proceed, Retry

\* Who owes the status its write goes on owing it while others take steps that
\* do not bump the generation.
LEMMA OwesUntilTaken ==
    ASSUME NEW p \in Procs, Owes(p), todo'[p] = todo[p],
           mine'[p] = mine[p], gen' = gen
    PROVE  Owes(p)'
BY DEF Owes

\* What an attempt does keeps the status fitting: a write under the current
\* generation says what has just become true of it, and what it says is not
\* undone without another write.
LEMMA AttemptFits ==
    ASSUME TypeOK, Life, StatusFits, NEW g \in Gens, Attempt(g)
    PROVE  StatusFits'
<1> USE DEF StatusFits, manager, attempts
<1>1. /\ inner \in [Gens -> {"none", "dialing", "listing", "stored", "failed"}]
      /\ outer \in [Gens -> {"none", "racing", "forced", "late", "failed", "done"}]
      /\ watcher \in [Gens -> {"none", "waiting", "failed", "done"}]
      /\ status \in {"none", "connecting", "connected", "failed", "disabled"}
      /\ AttemptLife(g)
  BY DEF TypeOK, Life
<1>2. CASE Dial(g)
  BY <1>1, <1>2 DEF Dial
<1>3. CASE Store(g)
  BY <1>1, <1>3 DEF Store, AttemptLife
<1>4. CASE ApplyResult(g)
  BY <1>1, <1>4 DEF ApplyResult, SetStatusIfCurrent, Reported
<1>5. CASE ForceFail(g)
  BY <1>1, <1>5 DEF ForceFail, SetStatusIfCurrent, Reported
<1>6. CASE Die(g)
  BY <1>6 DEF Die
<1>7. CASE ReportDeath(g)
  BY <1>1, <1>7 DEF ReportDeath, SetStatusIfCurrent, Reported
<1>8. CASE ScheduleRetry(g)
  BY <1>1, <1>8 DEF ScheduleRetry
<1> QED
  BY <1>2, <1>3, <1>4, <1>5, <1>6, <1>7, <1>8 DEF Attempt, Settle

\* Unless the manager is closed, the status fits or somebody is about to write
\* it.
LEMMA NextAccounted ==
    ASSUME TypeOK, Captures, Life, Idle, Scripts, Accounted, [Next]_vars
    PROVE  Accounted'
<1> USE DEF manager, attempts
<1>1. /\ todo \in [Procs -> Seq(Steps)] /\ mine \in [Procs -> 0..MaxGen]
      /\ gen \in Nat
      /\ outer \in [Gens -> {"none", "racing", "forced", "late", "failed", "done"}]
      /\ inner \in [Gens -> {"none", "dialing", "listing", "stored", "failed"}]
  BY MCPManagerAssumption DEF TypeOK
<1>2. closed => closed'
  BY DEF Next, Request, Create, Reconnect, Delete, Update, Shutdown, Arrive,
     Proceed, WriteRow, CancelRetry, BumpGeneration, Connect, Drop,
     StopAllRetries, CloseClients, Retry, Expire, Forget, FireRetry, Attempt,
     Settle, Dial, Store, ApplyResult, ForceFail, Die, ReportDeath,
     ScheduleRetry, vars
<1>3. CASE closed
  BY <1>2, <1>3 DEF Accounted
<1>4. ASSUME NEW p \in Procs, ~closed, UNCHANGED <<gen, status, inner, outer, watcher>>,
             \A q \in Procs \ {p} : todo'[q] = todo[q] /\ mine'[q] = mine[q],
             Owes(p) => Owes(p)'
      PROVE  Accounted'
  <2>1. StatusFits => StatusFits'
    BY <1>4 DEF StatusFits
  <2>2. \A q \in Procs : Owes(q) => Owes(q)'
    BY <1>4, OwesUntilTaken
  <2> QED
    BY <1>4, <2>1, <2>2 DEF Accounted
<1>5. ASSUME NEW r \in Requests, Request(r), ~closed PROVE Accounted'
  <2> PICK s \in Seq(Steps) : Arrive(r, s)
    BY <1>5, ArriveStep
  <2>1. r \in Procs /\ ~Owes(r)
    BY ProcsDisjoint DEF Arrive, Idle, Owes
  <2> QED
    BY <1>1, <1>4, <1>5, <2>1 DEF Arrive
<1>6. ASSUME NEW p \in Procs, WriteRow(p), ~closed PROVE Accounted'
  <2>1. ~Owes(p)
    BY <1>1, <1>6 DEF WriteRow, Owes, Clears
  <2> QED
    BY <1>1, <1>4, <1>6, <2>1 DEF WriteRow
<1>7. ASSUME NEW p \in Procs, CancelRetry(p) \/ StopAllRetries(p), ~closed
      PROVE  Accounted'
  <2>1. PICK step \in {"cancel", "stop"} : Take(p, step)
    BY <1>7 DEF CancelRetry, StopAllRetries
  <2>2. Owes(p) => Clears(todo[p])
    BY <2>1 DEF Take, Owes
  <2>3. Owes(p) => Owes(p)'
    BY <2>1, <2>2, TakeScript DEF Owes
  <2> QED
    BY <1>4, <1>7, <2>1, <2>3, TakeStep DEF CancelRetry, StopAllRetries
<1>8. ASSUME NEW p \in Procs, BumpGeneration(p) PROVE Accounted'
  <2>1. CASE Take(p, "bump")
    <3>1. todo'[p] # <<>> /\ Clears(todo'[p])
      BY <2>1, TakeScript
    <3> QED
      BY <3>1 DEF Owes, Accounted
  <2>2. CASE Take(p, "begin") /\ mine' = [mine EXCEPT ![p] = gen + 1]
    <3>1. todo'[p] # <<>> /\ Head(todo'[p]) = "connect"
      BY <2>2, TakeScript
    <3>2. mine'[p] = gen'
      BY <1>1, <1>8, <2>2 DEF BumpGeneration
    <3> QED
      BY <3>1, <3>2 DEF Owes, Accounted
  <2> QED
    BY <1>8, <2>1, <2>2 DEF BumpGeneration
<1>9. ASSUME NEW p \in Procs, Connect(p), ~closed PROVE Accounted'
  <2>1. /\ Take(p, "connect") /\ gen' = gen /\ UNCHANGED watcher
        /\ status' = IF gen = mine[p] THEN "connecting" ELSE status
        /\ outer' = [outer EXCEPT ![mine[p]] = "racing"]
        /\ inner' = [inner EXCEPT ![mine[p]] = "dialing"]
        /\ mine' = [mine EXCEPT ![p] = 0]
    BY <1>9 DEF Connect, SetStatusIfCurrent
  <2>2. mine[p] \in Gens
    BY <1>1, <2>1 DEF Scripts, Take, Gens
  <2>3. CASE mine[p] = gen
    BY <1>1, <2>1, <2>2, <2>3 DEF Accounted, StatusFits
  <2>4. CASE mine[p] # gen
    <3>1. ~Owes(p)
      BY <1>1, <2>1, <2>4 DEF Take, Owes, Clears
    <3>2. StatusFits => StatusFits'
      BY <1>1, <2>1, <2>2, <2>4 DEF StatusFits
    <3>3. \A q \in Procs : Owes(q) => Owes(q)'
      <4> SUFFICES ASSUME NEW q \in Procs, Owes(q), q # p PROVE Owes(q)'
        BY <3>1
      <4>1. todo'[q] = todo[q]
        BY <2>1, TakeStep
      <4>2. mine'[q] = mine[q]
        BY <1>1, <2>1
      <4> QED
        BY <2>1, <4>1, <4>2, OwesUntilTaken
    <3> QED
      BY <1>9, <3>2, <3>3 DEF Accounted
  <2> QED
    BY <2>3, <2>4
<1>10. ASSUME NEW p \in Procs, Drop(p) PROVE Accounted'
  BY <1>10 DEF Drop, Accounted, StatusFits
<1>11. ASSUME NEW p \in Procs, CloseClients(p) PROVE Accounted'
  BY <1>11 DEF CloseClients, Accounted
<1>12. ASSUME NEW x \in Timers, Retry(x), ~closed PROVE Accounted'
  <2>1. ~Owes(x)
    <3>1. CASE Expire(x)
      BY <3>1 DEF Expire, Idle, Owes
    <3>2. CASE Forget(x)
      BY <1>1, <3>2, ProcsDisjoint DEF Forget, Take, Owes, Clears
    <3>3. CASE FireRetry(x)
      BY <1>1, <3>3, ProcsDisjoint DEF FireRetry, Owes, Clears
    <3> QED
      BY <1>12, <3>1, <3>2, <3>3 DEF Retry
  <2>2. /\ UNCHANGED <<gen, status, inner, outer, watcher, mine>>
        /\ \A q \in Procs \ {x} : todo'[q] = todo[q]
    BY <1>1, <1>12, ProcsDisjoint DEF Retry, Expire, Forget, FireRetry, Take
  <2> QED
    BY <1>4, <1>12, <2>1, <2>2, ProcsDisjoint
<1>13. ASSUME NEW g \in Gens, Attempt(g), ~closed PROVE Accounted'
  <2>1. UNCHANGED <<gen, todo, mine>>
    BY <1>13 DEF Attempt, Settle, Dial, Store, ApplyResult, ForceFail, Die,
       ReportDeath, ScheduleRetry
  <2> QED
    BY <1>13, <2>1, AttemptFits, OwesUntilTaken DEF Accounted
<1>14. CASE UNCHANGED vars /\ ~closed
  BY <1>14, <1>4, ProcsDisjoint DEF vars, Owes
<1> QED
  BY <1>3, <1>5, <1>6, <1>7, <1>8, <1>9, <1>10, <1>11, <1>12, <1>13, <1>14
  DEF Next, Proceed

\* The invariant is inductive.
LEMMA NextIInv == IInv /\ [Next]_vars => IInv'
BY NextType, NextCaptures, NextLife, NextNoStray, NextTimers, NextIdle,
   NextScripts, NextAccounted DEF IInv

LEMMA SpecIInv == Spec => []IInv
BY InitIInv, NextIInv, PTL DEF Spec

-----------------------------------------------------------------------------
(* Theorems *)

\* Every variable keeps its type: in particular two retry timers are enough
\* for an attempt (scheduleRetry, manager.go:618-647).
THEOREM TypeCorrect == Spec => []TypeOK
<1>1. IInv => TypeOK
  BY DEF IInv
<1> QED
  BY SpecIInv, <1>1, PTL

\* No session of a tool server is left open without an owner, in whatever order
\* attempts, removals and deaths come in (connectAndStore, manager.go:352-388).
THEOREM SessionsHaveOwners == Spec => []NoStraySession
<1>1. IInv => NoStraySession
  BY DEF IInv
<1> QED
  BY SpecIInv, <1>1, PTL

\* No late attempt overwrites the status of a later one, and no bump of the
\* generation is left without its write (setStatusIfCurrent, manager.go:521).
THEOREM StatusIsLatest == Spec => []StatusOfLatest
<1>1. IInv => StatusOfLatest
  BY DEF IInv, Accounted, Owes, Quiet, StatusFits, StatusOfLatest
<1> QED
  BY SpecIInv, <1>1, PTL
=============================================================================
