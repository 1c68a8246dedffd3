-------------------------- MODULE TurnStreamProofs --------------------------
(***************************************************************************)
(* Proofs about TurnStream and the registry it routes by, for any upstreams, *)
(* models, fallback lists, discovery results and numbers of deltas.          *)
(***************************************************************************)
EXTENDS TurnStream, SequenceTheorems, FiniteSetTheorems, WellFoundedInduction, TLAPS

-----------------------------------------------------------------------------
(* Routing                                                                  *)

\* A set of numbers that is not empty has a least one.
LEMMA LeastNumber ==
    ASSUME NEW T, T \subseteq Nat, T # {}
    PROVE  \E n \in T : \A m \in T : n <= m
<1> DEFINE Less == {ss \in Nat \X Nat : ss[1] < ss[2]}
<1>1. IsWellFoundedOn(Less, Nat)
  BY NatLessThanWellFounded, Zenon DEF OpToRel
<1>2. \A m, n \in Nat : m < n => <<m, n>> \in Less
  OBVIOUS
<1> HIDE DEF Less
<1>3. PICK n \in T : \A m \in T : ~ (<<m, n>> \in Less)
  BY <1>1, WFMin
<1>4. ASSUME NEW m \in T PROVE n <= m
  <2>1. m \in Nat /\ n \in Nat /\ ~ (m < n)
    BY <1>2, <1>3
  <2> QED
    BY <2>1
<1> QED
  BY <1>3, <1>4

ClaimTable(f, n) ==
    f = [i \in 0..n |-> IF i = 0 THEN <<>> ELSE Merge(f[i - 1], Upstreams[i])]

LEMMA ClaimTableExists ==
    ASSUME NEW n \in Nat
    PROVE  \E f : ClaimTable(f, n)
<1> DEFINE T == {k \in Nat : ~ \E f : ClaimTable(f, k)}
<1> SUFFICES ASSUME T # {} PROVE FALSE
  OBVIOUS
<1>1. PICK k \in T : \A m \in T : k <= m
  BY LeastNumber
<1>2. k # 0
  <2>1. ClaimTable([i \in 0..0 |-> <<>>], 0)
    BY DEF ClaimTable
  <2> QED
    BY <2>1
<1>3. PICK f : ClaimTable(f, k - 1)
  BY <1>1, <1>2
<1>4. \A i \in 0..(k - 1) : f[i] = IF i = 0 THEN <<>> ELSE Merge(f[i - 1], Upstreams[i])
  BY <1>3 DEF ClaimTable
<1> DEFINE g == [i \in 0..k |-> IF i = k THEN Merge(f[i - 1], Upstreams[i]) ELSE f[i]]
<1>5. ASSUME NEW i \in 0..k
      PROVE  g[i] = IF i = 0 THEN <<>> ELSE Merge(g[i - 1], Upstreams[i])
  <2>1. i # k => i \in 0..(k - 1)
    BY <1>1, <1>2
  <2>2. i # 0 => i - 1 \in 0..(k - 1) /\ i - 1 \in 0..k /\ g[i - 1] = f[i - 1]
    BY <1>1, <1>2
  <2>3. g[i] = IF i = k THEN Merge(f[i - 1], Upstreams[i]) ELSE f[i]
    OBVIOUS
  <2> HIDE DEF g
  <2> QED
    BY <1>2, <1>4, <2>1, <2>2, <2>3
<1>6. ClaimTable(g, k)
  <2>1. g = [i \in 0..k |-> g[i]]
    OBVIOUS
  <2> HIDE DEF g
  <2> QED
    BY <1>5, <2>1 DEF ClaimTable
<1> QED
  BY <1>1, <1>6

\* There are finitely many upstreams, in their configured order.
LEMMA UpstreamsCounted == Len(Upstreams) \in Nat /\ DOMAIN Upstreams = 1..Len(Upstreams)
BY RegistryAssumption

\* Discover merges one upstream after the other.
LEMMA ClaimedStep ==
    \A i \in 0..Len(Upstreams) :
        Claimed[i] = IF i = 0 THEN <<>> ELSE Merge(Claimed[i - 1], Upstreams[i])
<1>1. \E f : ClaimTable(f, Len(Upstreams))
  BY UpstreamsCounted, ClaimTableExists
<1>2. ClaimTable(Claimed, Len(Upstreams))
  BY <1>1 DEF ClaimTable, Claimed
<1> QED
  BY <1>2 DEF ClaimTable

\* After i of them a model is claimed if one of the i listed it, by the first
\* that did.
ClaimedFirst(i) ==
    /\ \A j \in 1..i : listed[Upstreams[j]] \subseteq DOMAIN Claimed[i]
    /\ \A m \in DOMAIN Claimed[i] :
          \E j \in 1..i : /\ Claimed[i][m] = Upstreams[j] /\ m \in listed[Upstreams[j]]
                          /\ \A l \in 1..(j - 1) : m \notin listed[Upstreams[l]]

LEMMA FirstClaims == \A i \in 0..Len(Upstreams) : ClaimedFirst(i)
<1> DEFINE T == {i \in Nat : i \in 0..Len(Upstreams) /\ ~ ClaimedFirst(i)}
<1> SUFFICES ASSUME T # {} PROVE FALSE
  BY UpstreamsCounted
<1>1. PICK i \in T : \A j \in T : i <= j
  <2>1. T \subseteq Nat
    OBVIOUS
  <2> HIDE DEF T
  <2> QED
    BY <2>1, LeastNumber
<1>2. i \in Nat /\ i \in 0..Len(Upstreams) /\ ~ ClaimedFirst(i)
  BY <1>1
<1>3. i # 0
  <2>1. Claimed[0] = <<>>
    BY ClaimedStep, UpstreamsCounted
  <2> QED
    BY <1>2, <2>1 DEF ClaimedFirst
<1>4. i - 1 \in Nat /\ i - 1 \in 0..Len(Upstreams) /\ ~ (i <= i - 1)
  BY <1>2, <1>3, UpstreamsCounted
<1>5. ClaimedFirst(i - 1)
  BY <1>1, <1>4
<1> DEFINE before == Claimed[i - 1]
           u == Upstreams[i]
<1>6. Claimed[i] = [m \in DOMAIN before \cup listed[u] |->
                       IF m \in DOMAIN before THEN before[m] ELSE u]
  BY <1>2, <1>3, ClaimedStep DEF Merge
<1>7. ASSUME NEW j \in 1..i PROVE listed[Upstreams[j]] \subseteq DOMAIN Claimed[i]
  <2>1. j = i \/ j \in 1..(i - 1)
    BY <1>2
  <2> QED
    BY <1>5, <1>6, <2>1 DEF ClaimedFirst
<1>8. ASSUME NEW m \in DOMAIN Claimed[i]
      PROVE  \E j \in 1..i : /\ Claimed[i][m] = Upstreams[j] /\ m \in listed[Upstreams[j]]
                             /\ \A l \in 1..(j - 1) : m \notin listed[Upstreams[l]]
  <2>1. CASE m \in DOMAIN before
    <3>1. Claimed[i][m] = before[m]
      BY <1>6, <1>8, <2>1
    <3>2. PICK j \in 1..(i - 1) : /\ before[m] = Upstreams[j] /\ m \in listed[Upstreams[j]]
                                  /\ \A l \in 1..(j - 1) : m \notin listed[Upstreams[l]]
      BY <1>5, <2>1 DEF ClaimedFirst
    <3>3. j \in 1..i
      BY <1>2, <3>2
    <3> QED
      BY <3>1, <3>2, <3>3
  <2>2. CASE m \notin DOMAIN before
    <3>1. Claimed[i][m] = u /\ m \in listed[u]
      BY <1>6, <1>8, <2>2
    <3>2. \A l \in 1..(i - 1) : m \notin listed[Upstreams[l]]
      BY <1>5, <2>2 DEF ClaimedFirst
    <3>3. i \in 1..i
      BY <1>2, <1>3
    <3> QED
      BY <3>1, <3>2, <3>3
  <2> QED
    BY <2>1, <2>2
<1> QED
  BY <1>2, <1>7, <1>8 DEF ClaimedFirst

\* The routable models of a list, up to each place in it.
KeptTable(f, list, n) ==
    f = [i \in 0..n |->
            IF i = 0 THEN <<>>
            ELSE IF Routable(list[i]) THEN Append(f[i - 1], list[i])
            ELSE f[i - 1]]

LEMMA KeptTableExists ==
    ASSUME NEW list, NEW n \in Nat
    PROVE  \E f : KeptTable(f, list, n)
<1> DEFINE T == {k \in Nat : ~ \E f : KeptTable(f, list, k)}
<1> SUFFICES ASSUME T # {} PROVE FALSE
  OBVIOUS
<1>1. PICK k \in T : \A m \in T : k <= m
  BY LeastNumber
<1>2. k # 0
  <2>1. KeptTable([i \in 0..0 |-> <<>>], list, 0)
    BY DEF KeptTable
  <2> QED
    BY <2>1
<1>3. PICK f : KeptTable(f, list, k - 1)
  BY <1>1, <1>2
<1> DEFINE Next1(x, i) == IF Routable(list[i]) THEN Append(x, list[i]) ELSE x
<1>4. \A i \in 0..(k - 1) : f[i] = IF i = 0 THEN <<>> ELSE Next1(f[i - 1], i)
  BY <1>3 DEF KeptTable
<1> DEFINE g == [i \in 0..k |-> IF i = k THEN Next1(f[i - 1], i) ELSE f[i]]
<1>5. ASSUME NEW i \in 0..k
      PROVE  g[i] = IF i = 0 THEN <<>> ELSE Next1(g[i - 1], i)
  <2>1. i # k => i \in 0..(k - 1)
    BY <1>1, <1>2
  <2>2. i # 0 => i - 1 \in 0..(k - 1) /\ i - 1 \in 0..k /\ g[i - 1] = f[i - 1]
    BY <1>1, <1>2
  <2>3. g[i] = IF i = k THEN Next1(f[i - 1], i) ELSE f[i]
    OBVIOUS
  <2> HIDE DEF g, Next1
  <2> QED
    BY <1>2, <1>4, <2>1, <2>2, <2>3
<1>6. KeptTable(g, list, k)
  <2>1. g = [i \in 0..k |-> g[i]]
    OBVIOUS
  <2> HIDE DEF g
  <2> QED
    BY <1>5, <2>1 DEF KeptTable
<1> QED
  BY <1>1, <1>6

\* No model of a list is dropped when all of them are routable.
LEMMA AllKept ==
    ASSUME NEW list \in Seq(Models), NEW f, KeptTable(f, list, Len(list)),
           \A i \in 1..Len(list) : Routable(list[i])
    PROVE  f[Len(list)] = list
<1>0. Len(list) \in Nat /\ \A i \in 1..Len(list) : list[i] \in Models
  OBVIOUS
<1>1. \A i \in 0..Len(list) : f[i] = IF i = 0 THEN <<>> ELSE Append(f[i - 1], list[i])
  <2>1. ASSUME NEW i \in 0..Len(list)
        PROVE  f[i] = IF i = 0 THEN <<>>
                      ELSE IF Routable(list[i]) THEN Append(f[i - 1], list[i])
                      ELSE f[i - 1]
    BY <2>1 DEF KeptTable
  <2>2. ASSUME NEW i \in 0..Len(list), i # 0 PROVE Routable(list[i])
    BY <1>0, <2>2
  <2> QED
    BY <2>1, <2>2
<1> DEFINE Prefix(i) == /\ f[i] \in Seq(Models) /\ Len(f[i]) = i
                        /\ \A j \in 1..i : f[i][j] = list[j]
           T == {i \in Nat : i \in 0..Len(list) /\ ~ Prefix(i)}
<1>2. T = {}
  <2> SUFFICES ASSUME T # {} PROVE FALSE
    OBVIOUS
  <2>1. PICK i \in T : \A j \in T : i <= j
    <3>1. T \subseteq Nat
      OBVIOUS
    <3> HIDE DEF T
    <3> QED
      BY <3>1, LeastNumber
  <2>2. i \in Nat /\ i \in 0..Len(list) /\ ~ Prefix(i)
    BY <2>1
  <2>3. i # 0
    <3>1. f[0] = <<>>
      BY <1>0, <1>1
    <3>2. Prefix(0)
      BY <3>1
    <3> QED
      BY <2>2, <3>2
  <2>4. i - 1 \in Nat /\ i - 1 \in 0..Len(list) /\ ~ (i <= i - 1) /\ i \in 1..Len(list)
    BY <1>0, <2>2, <2>3
  <2>5. Prefix(i - 1)
    BY <2>1, <2>4
  <2>6. f[i] = Append(f[i - 1], list[i]) /\ list[i] \in Models
    BY <1>0, <1>1, <2>2, <2>3, <2>4
  <2>7. /\ f[i] \in Seq(Models) /\ Len(f[i]) = (i - 1) + 1
        /\ \A j \in 1..(i - 1) : f[i][j] = f[i - 1][j]
        /\ f[i][(i - 1) + 1] = list[i]
    BY <2>5, <2>6, AppendProperties
  <2>8. \A j \in 1..i : j \in 1..(i - 1) \/ j = (i - 1) + 1
    BY <2>2
  <2>9. Prefix(i)
    BY <2>2, <2>5, <2>7, <2>8
  <2> QED
    BY <2>2, <2>9
<1>3. Prefix(Len(list))
  BY <1>0, <1>2
<1> QED
  BY <1>0, <1>3, SeqEqual

LEMMA AllCandidates ==
    ASSUME NEW m \in Models, Routable(m), FallbacksAccepted
    PROVE  CandidatesFor(m) = <<m>> \o FallbackModels[m]
<1> DEFINE list == <<m>> \o FallbackModels[m]
           kept1[i \in 0..Len(list)] ==
             IF i = 0 THEN <<>>
             ELSE IF Routable(list[i]) THEN Append(kept1[i - 1], list[i])
             ELSE kept1[i - 1]
<1>1. FallbackModels[m] \in Seq(Models) /\ <<m>> \in Seq(Models)
  BY RegistryAssumption
<1>2. /\ list \in Seq(Models) /\ Len(list) = 1 + Len(FallbackModels[m])
      /\ \A i \in 1..Len(list) :
            list[i] = IF i <= 1 THEN m ELSE FallbackModels[m][i - 1]
  BY <1>1, ConcatProperties
<1>3. ASSUME NEW i \in 1..Len(list) PROVE Routable(list[i])
  <2>1. CASE i <= 1
    BY <1>2, <2>1
  <2>2. CASE ~ (i <= 1)
    <3>1. i - 1 \in DOMAIN FallbackModels[m]
      BY <1>1, <1>2, <2>2
    <3>2. FallbackModels[m][i - 1] \in DOMAIN Owner
      BY <3>1 DEF FallbacksAccepted, Routable, Range
    <3> QED
      BY <1>2, <2>2, <3>2 DEF Routable
  <2> QED
    BY <2>1, <2>2
<1>4. Len(list) \in Nat
  BY <1>2
<1>5. KeptTable(kept1, list, Len(list))
  <2>1. \E f : KeptTable(f, list, Len(list))
    BY <1>4, KeptTableExists
  <2> QED
    BY <2>1 DEF KeptTable
<1>6. CandidatesFor(m) = kept1[Len(list)]
  BY DEF CandidatesFor
<1> HIDE DEF kept1, list
<1>7. kept1[Len(list)] = list
  BY <1>2, <1>3, <1>5, AllKept
<1> QED
  BY <1>6, <1>7 DEF list

\* What a turn may be routed to follows from the discovery alone.
LEMMA RoutedInit == Init => RoutedAsConfigured
<1> SUFFICES ASSUME Init PROVE RoutedAsConfigured
  OBVIOUS
<1>1. ASSUME NEW m \in DOMAIN Owner
      PROVE  \E i \in DOMAIN Upstreams :
                /\ Owner[m] = Upstreams[i] /\ m \in listed[Upstreams[i]]
                /\ \A j \in 1..(i - 1) : m \notin listed[Upstreams[j]]
  <2>1. ClaimedFirst(Len(Upstreams))
    BY FirstClaims, UpstreamsCounted
  <2> QED
    BY <1>1, <2>1, UpstreamsCounted DEF ClaimedFirst, Owner
<1>2. Candidates = <<asked>> \o FallbackModels[asked]
  BY AllCandidates DEF Init, Candidates
<1> QED
  BY <1>1, <1>2 DEF RoutedAsConfigured

LEMMA RoutesStay ==
    ASSUME UNCHANGED <<listed, asked>>
    PROVE  Candidates' = Candidates /\ (RoutedAsConfigured => RoutedAsConfigured')
<1>1. Claimed' = Claimed
  BY DEF Claimed, Merge
<1>2. Owner' = Owner
  BY <1>1 DEF Owner
<1>3. Candidates' = Candidates
  BY <1>2 DEF Candidates, CandidatesFor, Routable
<1> QED
  BY <1>2, <1>3 DEF RoutedAsConfigured

LEMMA RoutesNeverChange == [Next]_vars => UNCHANGED <<listed, asked>>
BY DEF Next, Turn, Await, Handler, Callback, PublishConnecting, RoundStart, Preamble, Epilogue,
       Judge, Retry, Fail, Persist, Close, AwaitResult, AwaitFirstToken, FirstTokenTimeout,
       TurnDone, GiveUp, Deliver, DeliverFails, DeliverNowhere, Leave, BeginDelta,
       CallbackFails, CallbackPreamble, CallbackMark, CallbackStatus, CallbackDelta,
       ProviderReturns, TurnTimerFires, vars

\* RoutedAsConfigured: the first upstream in configured order that lists a model
\* serves it (merge, upstreams.go), and the candidates of a turn are its model and
\* all of its configured fallbacks (SetFallbacks, CandidatesFor), for any number of
\* upstreams and whatever they answered to the discovery.
THEOREM RoutesAreConfigured == Spec => []RoutedAsConfigured
<1>1. RoutedAsConfigured /\ [Next]_vars => RoutedAsConfigured'
  BY RoutesStay, RoutesNeverChange
<1> QED
  BY <1>1, RoutedInit, PTL DEF Spec

-----------------------------------------------------------------------------
(* The calls of a turn                                                      *)

\* The turn that reached the end of its answer.
Answered == pc = "persist" \/ kept > 0

\* Only the candidate that answered is stored; there is a next one to retry.
TurnInv ==
    /\ kept > 0 => kept = cand /\ pc \in {"close", "done"}
    /\ pc = "retrying" => cand < Len(Candidates)

\* A candidate's call has one provider goroutine, which starts the stream before
\* it streams and has ended when there is a result; only then does the turn's
\* goroutine start or end the message of that call itself.
CallInvAt(k) ==
    /\ k > cand \/ (k = cand /\ pc \in {"connecting", "round"}) => cb[k] = "none"
    /\ cb[k] = "none" => ~started[k] /\ deltas[k] = 0 /\ res[k] = "none"
    /\ cb[k] \in {"status", "delta"} => started[k]
    /\ cb[k] \in {"preamble", "mark"} => ~started[k]
    /\ cb[k] \in {"preamble", "mark", "status", "delta"} => deltas[k] < MaxDeltas
    /\ res[k] # "none" => cb[k] = "ended"
    /\ k = cand /\ (Answered \/ pc \in {"preamble", "epilogue"}) => cb[k] = "ended"
    /\ k = cand /\ (Answered \/ pc = "epilogue") => started[k]

CallInv == \A k \in Ranks : CallInvAt(k)

\* A pipe breaks, and a call is cancelled under its turn, only when the client
\* left; the pipe is ended last.
Connected ==
    /\ pipe = "broken" => conn = "gone"
    /\ pipe = "ended" => pc = "done"
    /\ err \in {"pipe", "cancelled"} => conn = "gone"
    /\ pc = "await" /\ ctx[cand] = "cancelled" => conn = "gone"
    /\ \A k \in Ranks : res[k] = "cancelled" => ctx[k] = "cancelled"

LocalInv == TypeOK /\ RoutedAsConfigured /\ TurnInv /\ CallInv /\ Connected

\* A turn's candidates are numbered within the ranks.
LEMMA CandidatesRanked ==
    ASSUME asked \in Models, RoutedAsConfigured
    PROVE  /\ Len(Candidates) \in Nat /\ 1 <= Len(Candidates)
           /\ Len(Candidates) <= MaxCandidates
           /\ 1..Len(Candidates) \subseteq Ranks
<1>1. FallbackModels[asked] \in Seq(Models) /\ <<asked>> \in Seq(Models)
  BY RegistryAssumption
<1>2. Len(Candidates) = 1 + Len(FallbackModels[asked])
  BY <1>1, ConcatProperties DEF RoutedAsConfigured
<1>3. /\ Len(FallbackModels[asked]) \in Nat /\ MaxCandidates \in Nat
      /\ Len(FallbackModels[asked]) < MaxCandidates
  BY <1>1, StreamAssumption
<1> QED
  BY <1>2, <1>3 DEF Ranks

LEMMA LocalInit == Init => LocalInv
<1> SUFFICES ASSUME Init PROVE LocalInv
  OBVIOUS
<1>1. RoutedAsConfigured /\ asked \in Models
  BY RoutedInit DEF Init
<1>2. 1 \in 1..Len(Candidates)
  BY <1>1, CandidatesRanked
<1>3. TypeOK
  BY <1>1, <1>2, StreamAssumption DEF Init, TypeOK, NoFrame
<1>4. TurnInv /\ Connected
  BY DEF Init, TurnInv, Connected, NoFrame
<1>5. CallInv
  BY DEF Init, CallInv, CallInvAt, Answered
<1> QED
  BY <1>1, <1>3, <1>4, <1>5 DEF LocalInv

\* The turn's goroutine and its waits keep the types.
LEMMA TurnTypeOK ==
    ASSUME LocalInv, Turn \/ Await
    PROVE  TypeOK'
<1> USE DEF LocalInv, TypeOK, turn, call, out, Write, WriteFails
<1>0. /\ cand \in Ranks /\ cand \in Nat /\ Len(Candidates) \in Nat
      /\ cand + 1 \in Nat /\ pc = "retrying" => cand + 1 \in 1..Len(Candidates)
      /\ MaxCandidates \in Nat /\ cand \in 0..MaxCandidates
  BY CandidatesRanked, StreamAssumption DEF TurnInv
<1>1. UNCHANGED <<listed, asked>>
  BY RoutesNeverChange DEF Next
<1>2. Candidates' = Candidates
  BY <1>1, RoutesStay
<1>3. /\ Status \in Frames
      /\ \A x \in {"start", "delta", "end", "error"} : <<x, cand>> \in Frames
  BY <1>0 DEF Frames
<1>4. CASE PublishConnecting
  BY <1>2, <1>3, <1>4 DEF PublishConnecting
<1>5. CASE RoundStart
  BY <1>2, <1>3, <1>5 DEF RoundStart
<1>6. CASE Preamble
  BY <1>2, <1>3, <1>6 DEF Preamble
<1>7. CASE Epilogue
  BY <1>2, <1>3, <1>7 DEF Epilogue
<1>8. CASE Judge
  BY <1>2, <1>8 DEF Judge
<1>9. CASE Retry
  BY <1>0, <1>2, <1>3, <1>9 DEF Retry
<1>10. CASE Fail
  BY <1>2, <1>3, <1>10 DEF Fail
<1>11. CASE Persist
  BY <1>0, <1>2, <1>11 DEF Persist
<1>12. CASE Close
  BY <1>2, <1>12 DEF Close
<1>13. CASE AwaitResult
  BY <1>0, <1>2, <1>13 DEF AwaitResult
<1>14. CASE AwaitFirstToken
  BY <1>2, <1>14 DEF AwaitFirstToken
<1>15. CASE FirstTokenTimeout \/ TurnDone
  BY <1>2, <1>15 DEF FirstTokenTimeout, TurnDone, GiveUp
<1> QED
  BY <1>4, <1>5, <1>6, <1>7, <1>8, <1>9, <1>10, <1>11, <1>12, <1>13, <1>14, <1>15
  DEF Turn, Await

\* The steps of a call.
OfCall(k) == BeginDelta(k) \/ Callback(k) \/ ProviderReturns(k) \/ TurnTimerFires(k)

\* Callbacks, providers, the handler and the client keep the types.
LEMMA OthersTypeOK ==
    ASSUME LocalInv, Handler \/ Leave \/ \E k \in Ranks : OfCall(k)
    PROVE  TypeOK'
<1> USE DEF LocalInv, TypeOK, turn, call, out, Write, WriteLate
<1>1. UNCHANGED <<listed, asked>>
  BY RoutesNeverChange DEF Next, OfCall
<1>2. Candidates' = Candidates
  BY <1>1, RoutesStay
<1>3. CASE Handler
  <2>1. CASE Deliver
    <3>1. hand \in Frames
      BY <2>1 DEF Deliver
    <3>2. wire' \in Seq(Frames)
      BY <2>1, <3>1 DEF Deliver
    <3> QED
      BY <1>2, <2>1, <3>2 DEF Deliver
  <2>2. CASE DeliverFails \/ DeliverNowhere
    BY <1>2, <2>2 DEF DeliverFails, DeliverNowhere
  <2> QED
    BY <1>3, <2>1, <2>2 DEF Handler
<1>4. CASE Leave
  BY <1>2, <1>4 DEF Leave
<1>5. ASSUME NEW k \in Ranks, OfCall(k) PROVE TypeOK'
  <2>1. /\ Status \in Frames
        /\ \A x \in {"start", "delta", "end", "error"} : <<x, k>> \in Frames
    BY DEF Frames
  <2>2. CASE BeginDelta(k)
    BY <1>2, <2>2 DEF BeginDelta
  <2>3. CASE CallbackFails(k)
    BY <1>2, <2>3 DEF CallbackFails
  <2>4. CASE CallbackPreamble(k)
    BY <1>2, <2>1, <2>4 DEF CallbackPreamble
  <2>5. CASE CallbackMark(k)
    BY <1>2, <2>5 DEF CallbackMark
  <2>6. CASE CallbackStatus(k)
    BY <1>2, <2>1, <2>6 DEF CallbackStatus
  <2>7. CASE CallbackDelta(k)
    <3>1. deltas[k] + 1 \in 0..MaxDeltas
      BY <2>7, StreamAssumption DEF CallbackDelta, CallInv, CallInvAt
    <3> QED
      BY <1>2, <2>1, <2>7, <3>1 DEF CallbackDelta
  <2>8. CASE ProviderReturns(k)
    BY <1>2, <2>8 DEF ProviderReturns
  <2>9. CASE TurnTimerFires(k)
    BY <1>2, <2>9 DEF TurnTimerFires
  <2> QED
    BY <1>5, <2>2, <2>3, <2>4, <2>5, <2>6, <2>7, <2>8, <2>9 DEF OfCall, Callback
<1> QED
  BY <1>3, <1>4, <1>5

\* The turn's goroutine and its waits keep what is known of the calls.
LEMMA TurnCalls ==
    ASSUME LocalInv, Turn \/ Await
    PROVE  TurnInv' /\ CallInv' /\ Connected'
<1> USE DEF LocalInv, TypeOK, turn, call, out, Write, WriteFails, Answered
<1>0. cand \in Ranks /\ cand \in Nat /\ Ranks \subseteq Nat
  BY CandidatesRanked DEF Ranks
<1>1. UNCHANGED <<listed, asked>>
  BY RoutesNeverChange DEF Next
<1>2. Candidates' = Candidates
  BY <1>1, RoutesStay
<1>3. TurnInv /\ Connected /\ \A k \in Ranks : CallInvAt(k)
  BY DEF CallInv
<1> USE DEF TurnInv, Connected, CallInvAt
<1>4. CASE PublishConnecting
  BY <1>0, <1>2, <1>3, <1>4 DEF PublishConnecting, CallInv
<1>5. CASE RoundStart
  BY <1>0, <1>2, <1>3, <1>5 DEF RoundStart, CallInv
<1>6. CASE Preamble
  BY <1>0, <1>2, <1>3, <1>6 DEF Preamble, CallInv
<1>7. CASE Epilogue
  BY <1>0, <1>2, <1>3, <1>7 DEF Epilogue, CallInv
<1>8. CASE Judge
  BY <1>0, <1>2, <1>3, <1>8 DEF Judge, CallInv
<1>9. CASE Retry
  BY <1>0, <1>2, <1>3, <1>9 DEF Retry, CallInv
<1>10. CASE Fail
  BY <1>0, <1>2, <1>3, <1>10 DEF Fail, CallInv
<1>11. CASE Persist
  BY <1>0, <1>2, <1>3, <1>11 DEF Persist, CallInv
<1>12. CASE Close
  BY <1>0, <1>2, <1>3, <1>12 DEF Close, CallInv
<1>13. CASE AwaitResult
  BY <1>0, <1>2, <1>3, <1>13 DEF AwaitResult, CallInv
<1>14. CASE AwaitFirstToken
  BY <1>0, <1>2, <1>3, <1>14 DEF AwaitFirstToken, CallInv
<1>15. CASE FirstTokenTimeout \/ TurnDone
  BY <1>0, <1>2, <1>3, <1>15 DEF FirstTokenTimeout, TurnDone, GiveUp, CallInv
<1> QED
  BY <1>4, <1>5, <1>6, <1>7, <1>8, <1>9, <1>10, <1>11, <1>12, <1>13, <1>14, <1>15
  DEF Turn, Await

\* So do the callbacks, the providers, the handler and the client.
LEMMA OthersCalls ==
    ASSUME LocalInv, Handler \/ Leave \/ \E k \in Ranks : OfCall(k)
    PROVE  TurnInv' /\ CallInv' /\ Connected'
<1> USE DEF LocalInv, TypeOK, turn, call, out, Write, WriteLate, Answered
<1>0. cand \in Ranks /\ cand \in Nat /\ Ranks \subseteq Nat
  BY CandidatesRanked DEF Ranks
<1>1. UNCHANGED <<listed, asked>>
  BY RoutesNeverChange DEF Next, OfCall
<1>2. Candidates' = Candidates
  BY <1>1, RoutesStay
<1>3. TurnInv /\ Connected /\ \A k \in Ranks : CallInvAt(k)
  BY DEF CallInv
<1> USE DEF TurnInv, Connected, CallInvAt
<1>4. CASE Handler
  BY <1>2, <1>3, <1>4 DEF Handler, Deliver, DeliverFails, DeliverNowhere, CallInv
<1>5. CASE Leave
  BY <1>2, <1>3, <1>5 DEF Leave, CallInv
<1>6. ASSUME NEW k \in Ranks, OfCall(k) PROVE TurnInv' /\ CallInv' /\ Connected'
  <2>1. CASE BeginDelta(k)
    BY <1>0, <1>2, <1>3, <2>1 DEF BeginDelta, CallInv
  <2>2. CASE CallbackFails(k)
    BY <1>0, <1>2, <1>3, <2>2 DEF CallbackFails, CallInv
  <2>3. CASE CallbackPreamble(k)
    BY <1>0, <1>2, <1>3, <2>3 DEF CallbackPreamble, CallInv
  <2>4. CASE CallbackMark(k)
    BY <1>0, <1>2, <1>3, <2>4 DEF CallbackMark, CallInv
  <2>5. CASE CallbackStatus(k)
    BY <1>0, <1>2, <1>3, <2>5 DEF CallbackStatus, CallInv
  <2>6. CASE CallbackDelta(k)
    BY <1>0, <1>2, <1>3, <2>6 DEF CallbackDelta, CallInv
  <2>7. CASE ProviderReturns(k)
    BY <1>0, <1>2, <1>3, <2>7 DEF ProviderReturns, CallInv
  <2>8. CASE TurnTimerFires(k)
    BY <1>0, <1>2, <1>3, <2>8 DEF TurnTimerFires, CallInv
  <2> QED
    BY <1>6, <2>1, <2>2, <2>3, <2>4, <2>5, <2>6, <2>7, <2>8 DEF OfCall, Callback
<1> QED
  BY <1>4, <1>5, <1>6

LEMMA LocalStep == LocalInv /\ [Next]_vars => LocalInv'
<1> SUFFICES ASSUME LocalInv, [Next]_vars PROVE LocalInv'
  OBVIOUS
<1>1. RoutedAsConfigured'
  BY RoutesStay, RoutesNeverChange DEF LocalInv
<1>2. CASE Turn \/ Await
  BY <1>1, <1>2, TurnTypeOK, TurnCalls DEF LocalInv
<1>3. CASE Handler \/ Leave \/ \E k \in Ranks : OfCall(k)
  BY <1>1, <1>3, OthersTypeOK, OthersCalls DEF LocalInv
<1>4. CASE UNCHANGED vars
  <2>1. Candidates' = Candidates
    BY <1>4, RoutesStay DEF vars
  <2>2. TypeOK' /\ TurnInv' /\ Connected'
    BY <1>4, <2>1 DEF vars, LocalInv, TypeOK, TurnInv, Connected
  <2>3. CallInv'
    BY <1>4 DEF vars, LocalInv, CallInv, CallInvAt, Answered
  <2> QED
    BY <1>1, <2>2, <2>3 DEF LocalInv
<1> QED
  BY <1>2, <1>3, <1>4 DEF Next, OfCall

LEMMA LocalInvariant == Spec => []LocalInv
BY LocalInit, LocalStep, PTL DEF Spec

-----------------------------------------------------------------------------
(* The frames                                                               *)

\* What was written and not lost: the frames the client received, then the one
\* the handler holds.
Sent == IF hand \in {NoFrame, Status} THEN wire ELSE Append(wire, hand)

SentAt(f) == {i \in DOMAIN Sent : Sent[i] = f}

Ends == {i \in DOMAIN Sent : Sent[i][1] \in {"end", "error"}}

\* A candidate's message is started once, before its deltas, all of which are
\* there; the flag may be set a moment after the frame.
FramesAt(k) ==
    /\ started[k] \/ cb[k] = "mark" =>
          \E s \in DOMAIN Sent : /\ SentAt(<<"start", k>>) = {s}
                                 /\ \A i \in SentAt(<<"delta", k>>) : s < i
    /\ ~ (started[k] \/ cb[k] = "mark") =>
          SentAt(<<"start", k>>) = {} /\ SentAt(<<"delta", k>>) = {}
    /\ Cardinality(SentAt(<<"delta", k>>)) = deltas[k]

\* The turn is ended once, by an error or, after all of its answer, by an
\* epilogue.
EndsInv ==
    /\ pc \notin {"persist", "close", "done"} => Ends = {}
    /\ pc \in {"persist", "close", "done"} =>
          \E e \in DOMAIN Sent :
             /\ Ends = {e}
             /\ Answered =>
                   /\ Sent[e] = <<"end", cand>>
                   /\ \A i \in SentAt(<<"start", cand>>) \cup SentAt(<<"delta", cand>>) : i < e

FramesInv == conn = "open" => EndsInv /\ \A k \in Ranks : FramesAt(k)

LEMMA SentType ==
    ASSUME TypeOK
    PROVE  /\ Sent \in Seq(Frames) /\ Len(Sent) \in Nat /\ DOMAIN Sent = 1..Len(Sent)
           /\ \A f : SentAt(f) \subseteq 1..Len(Sent) /\ IsFiniteSet(SentAt(f))
<1>1. Sent \in Seq(Frames)
  BY DEF Sent, TypeOK
<1>2. Len(Sent) \in Nat /\ DOMAIN Sent = 1..Len(Sent)
  BY <1>1
<1>3. IsFiniteSet(1..Len(Sent))
  <2> DEFINE n == Len(Sent)
  <2>1. n \in Int /\ 1 \in Int
    BY <1>2
  <2> HIDE DEF n
  <2>2. IsFiniteSet(1..n)
    BY <2>1, FS_Interval
  <2> QED
    BY <2>2 DEF n
<1>4. ASSUME NEW f PROVE SentAt(f) \subseteq 1..Len(Sent) /\ IsFiniteSet(SentAt(f))
  <2>1. SentAt(f) \subseteq 1..Len(Sent)
    BY <1>2 DEF SentAt
  <2> QED
    BY <1>3, <2>1, FS_Subset
<1> QED
  BY <1>1, <1>2, <1>4

\* A content frame joins the end of what was sent.
LEMMA Written ==
    ASSUME TypeOK, NEW f \in Frames \ {Status}, Write(f)
    PROVE  /\ Len(Sent)' = Len(Sent) + 1
           /\ DOMAIN Sent' = 1..(Len(Sent) + 1)
           /\ Sent'[Len(Sent) + 1] = f
           /\ \A i \in 1..Len(Sent) : Sent'[i] = Sent[i]
           /\ \A g : SentAt(g)' = IF g = f THEN SentAt(g) \cup {Len(Sent) + 1} ELSE SentAt(g)
           /\ Ends' = IF f[1] \in {"end", "error"} THEN Ends \cup {Len(Sent) + 1} ELSE Ends
<1>1. f # NoFrame
  BY DEF Frames, NoFrame, Status
<1>2. Sent = wire /\ Sent' = Append(wire, f)
  BY <1>1 DEF Write, Sent
<1>3. Sent \in Seq(Frames) /\ Len(Sent) \in Nat /\ DOMAIN Sent = 1..Len(Sent)
  BY SentType
<1>4. Sent' = Append(Sent, f)
  BY <1>2
<1>5. /\ Len(Sent)' = Len(Sent) + 1 /\ DOMAIN Sent' = 1..(Len(Sent) + 1)
      /\ Sent'[Len(Sent) + 1] = f
      /\ \A i \in 1..Len(Sent) : Sent'[i] = Sent[i]
  BY <1>3, <1>4, AppendProperties
<1>6. \A i : i \in 1..(Len(Sent) + 1) <=> i \in 1..Len(Sent) \/ i = Len(Sent) + 1
  BY <1>3
<1>7. ASSUME NEW g
      PROVE  SentAt(g)' = IF g = f THEN SentAt(g) \cup {Len(Sent) + 1} ELSE SentAt(g)
  <2>1. \A i : i \in SentAt(g)' <=> i \in SentAt(g) \/ (i = Len(Sent) + 1 /\ g = f)
    BY <1>3, <1>5, <1>6 DEF SentAt
  <2> QED
    BY <2>1 DEF SentAt
<1>8. \A i : i \in Ends' <=> i \in Ends \/ (i = Len(Sent) + 1 /\ f[1] \in {"end", "error"})
  BY <1>3, <1>5, <1>6 DEF Ends
<1> QED
  BY <1>5, <1>7, <1>8 DEF Ends

\* What the frames of a candidate do: its start, a delta, and either end.
LEMMA StartWritten ==
    ASSUME TypeOK, NEW c \in Ranks, Write(<<"start", c>>)
    PROVE  /\ SentAt(<<"start", c>>)' = SentAt(<<"start", c>>) \cup {Len(Sent) + 1}
           /\ \A k \in Ranks : k # c => SentAt(<<"start", k>>)' = SentAt(<<"start", k>>)
           /\ \A k \in Ranks : SentAt(<<"delta", k>>)' = SentAt(<<"delta", k>>)
           /\ Ends' = Ends /\ DOMAIN Sent' = 1..(Len(Sent) + 1)
           /\ \A i \in 1..Len(Sent) : Sent'[i] = Sent[i]
<1> DEFINE f == <<"start", c>>
<1>1. f \in Frames \ {Status} /\ f[1] \notin {"end", "error"}
  BY DEF Frames, Status
<1>2. (\A k \in Ranks : k # c => <<"start", k>> # f) /\ \A k \in Ranks : <<"delta", k>> # f
  OBVIOUS
<1>3. Write(f)
  OBVIOUS
<1> HIDE DEF f
<1>4. /\ \A g : SentAt(g)' = IF g = f THEN SentAt(g) \cup {Len(Sent) + 1} ELSE SentAt(g)
      /\ Ends' = Ends /\ DOMAIN Sent' = 1..(Len(Sent) + 1)
      /\ \A i \in 1..Len(Sent) : Sent'[i] = Sent[i]
  BY <1>1, <1>3, Written
<1>5. SentAt(f)' = SentAt(f) \cup {Len(Sent) + 1}
  BY <1>4
<1> QED
  BY <1>2, <1>4, <1>5 DEF f

LEMMA DeltaWritten ==
    ASSUME TypeOK, NEW c \in Ranks, Write(<<"delta", c>>)
    PROVE  /\ SentAt(<<"delta", c>>)' = SentAt(<<"delta", c>>) \cup {Len(Sent) + 1}
           /\ \A k \in Ranks : k # c => SentAt(<<"delta", k>>)' = SentAt(<<"delta", k>>)
           /\ \A k \in Ranks : SentAt(<<"start", k>>)' = SentAt(<<"start", k>>)
           /\ Ends' = Ends /\ DOMAIN Sent' = 1..(Len(Sent) + 1)
           /\ \A i \in 1..Len(Sent) : Sent'[i] = Sent[i]
<1> DEFINE f == <<"delta", c>>
<1>1. f \in Frames \ {Status} /\ f[1] \notin {"end", "error"}
  BY DEF Frames, Status
<1>2. (\A k \in Ranks : k # c => <<"delta", k>> # f) /\ \A k \in Ranks : <<"start", k>> # f
  OBVIOUS
<1>3. Write(f)
  OBVIOUS
<1> HIDE DEF f
<1>4. /\ \A g : SentAt(g)' = IF g = f THEN SentAt(g) \cup {Len(Sent) + 1} ELSE SentAt(g)
      /\ Ends' = Ends /\ DOMAIN Sent' = 1..(Len(Sent) + 1)
      /\ \A i \in 1..Len(Sent) : Sent'[i] = Sent[i]
  BY <1>1, <1>3, Written
<1>5. SentAt(f)' = SentAt(f) \cup {Len(Sent) + 1}
  BY <1>4
<1> QED
  BY <1>2, <1>4, <1>5 DEF f

LEMMA EndWritten ==
    ASSUME TypeOK, NEW c \in Ranks, NEW x \in {"end", "error"}, Write(<<x, c>>)
    PROVE  /\ \A k \in Ranks : /\ SentAt(<<"start", k>>)' = SentAt(<<"start", k>>)
                                 /\ SentAt(<<"delta", k>>)' = SentAt(<<"delta", k>>)
           /\ Ends' = Ends \cup {Len(Sent) + 1} /\ DOMAIN Sent' = 1..(Len(Sent) + 1)
           /\ Sent'[Len(Sent) + 1] = <<x, c>>
<1> DEFINE f == <<x, c>>
<1>1. f \in Frames \ {Status} /\ f[1] \in {"end", "error"}
  BY DEF Frames, Status
<1>2. \A k \in Ranks : <<"start", k>> # f /\ <<"delta", k>> # f
  OBVIOUS
<1>3. Write(f)
  OBVIOUS
<1> HIDE DEF f
<1>4. /\ \A g : SentAt(g)' = IF g = f THEN SentAt(g) \cup {Len(Sent) + 1} ELSE SentAt(g)
      /\ Ends' = Ends \cup {Len(Sent) + 1} /\ DOMAIN Sent' = 1..(Len(Sent) + 1)
      /\ Sent'[Len(Sent) + 1] = f
  BY <1>1, <1>3, Written
<1> QED
  BY <1>2, <1>4 DEF f

\* Other writes and the delivery change nothing of what was sent.
LEMMA NothingWritten ==
    ASSUME TypeOK, UNCHANGED <<hand, wire>> \/ Write(Status) \/ Deliver
    PROVE  Sent' = Sent
<1>1. CASE UNCHANGED <<hand, wire>>
  BY <1>1 DEF Sent
<1>2. CASE Write(Status)
  BY <1>2 DEF Write, Sent
<1>3. CASE Deliver
  BY <1>3 DEF Deliver, Sent
<1> QED
  BY <1>1, <1>2, <1>3

\* A call whose flags and frames stay as they are keeps its shape.
LEMMA FramesStay ==
    ASSUME NEW k \in Ranks, FramesAt(k),
           DOMAIN Sent \subseteq DOMAIN Sent',
           SentAt(<<"start", k>>)' = SentAt(<<"start", k>>),
           SentAt(<<"delta", k>>)' = SentAt(<<"delta", k>>),
           started'[k] \/ cb'[k] = "mark" <=> started[k] \/ cb[k] = "mark",
           deltas'[k] = deltas[k]
    PROVE  FramesAt(k)'
BY DEF FramesAt

\* Steps that write no content keep the frames.
LEMMA QuietFrames ==
    ASSUME FramesInv, conn = "open", Sent' = Sent,
           \A k \in Ranks : /\ started'[k] \/ cb'[k] = "mark" <=> started[k] \/ cb[k] = "mark"
                            /\ deltas'[k] = deltas[k],
           pc' \in {"persist", "close", "done"} <=> pc \in {"persist", "close", "done"},
           Answered' => Answered,
           Answered => cand' = cand
    PROVE  FramesInv'
<1>1. EndsInv /\ \A k \in Ranks : FramesAt(k)
  BY DEF FramesInv
<1>2. Ends' = Ends /\ \A f : SentAt(f)' = SentAt(f)
  BY DEF Ends, SentAt
<1>3. EndsInv'
  BY <1>1, <1>2 DEF EndsInv
<1>4. ASSUME NEW k \in Ranks PROVE FramesAt(k)'
  BY <1>1, <1>2, FramesStay
<1> QED
  BY <1>3, <1>4 DEF FramesInv

\* The turn's goroutine: it starts a message that its call did not start, and
\* ends the turn.
LEMMA TurnFrames ==
    ASSUME LocalInv, FramesInv, Turn \/ Await, conn' = "open"
    PROVE  FramesInv'
<1>0. TypeOK /\ TurnInv /\ Connected /\ \A k \in Ranks : CallInvAt(k)
  BY DEF LocalInv, CallInv
<1> PICK c \in Ranks : c = cand
  BY <1>0, CandidatesRanked DEF LocalInv, TypeOK
<1>1. /\ cand = c /\ cand \in Nat /\ Ranks \subseteq Nat
      /\ \A x \in {"start", "end", "error"} : <<x, c>> \in Frames \ {Status}
  BY DEF Ranks, Frames, Status
<1>2. conn = "open" /\ pipe # "broken"
  BY <1>0 DEF Connected, Turn, Await, PublishConnecting, RoundStart, Preamble, Epilogue, Judge,
              Retry, Fail, Persist, Close, AwaitResult, AwaitFirstToken, FirstTokenTimeout,
              TurnDone, GiveUp, Write, WriteFails, out
<1>3. EndsInv /\ \A k \in Ranks : FramesAt(k)
  BY <1>2 DEF FramesInv
<1>4. /\ DOMAIN Sent = 1..Len(Sent) /\ Len(Sent) \in Nat
      /\ \A f : SentAt(f) \subseteq 1..Len(Sent)
  BY <1>0, SentType
<1> USE DEF TypeOK, turn, call, out
<1>5. CASE PublishConnecting
  <2>1. Sent' = Sent
    BY <1>0, <1>2, <1>5, NothingWritten DEF PublishConnecting, WriteFails
  <2> QED
    BY <1>0, <1>2, <1>5, <2>1, QuietFrames DEF PublishConnecting, WriteFails, Answered
<1>6. CASE RoundStart
  <2>1. Sent' = Sent
    BY <1>0, <1>2, <1>6, NothingWritten DEF RoundStart, WriteFails
  <2>2. cb[c] = "none" /\ ~started[c]
    BY <1>0, <1>1, <1>6 DEF RoundStart, CallInvAt
  <2>3. cb' = [cb EXCEPT ![c] = "provider"] /\ UNCHANGED <<started, deltas>>
    BY <1>2, <1>6 DEF RoundStart, WriteFails
  <2>4. \A k \in Ranks : started'[k] \/ cb'[k] = "mark" <=> started[k] \/ cb[k] = "mark"
    BY <1>0, <2>2, <2>3
  <2>5. pc = "round" /\ pc' = "await" /\ kept' = kept /\ cand' = cand
    BY <1>2, <1>6 DEF RoundStart, WriteFails
  <2> QED
    BY <1>2, <2>1, <2>3, <2>4, <2>5, QuietFrames DEF Answered
<1>7. CASE Preamble
  <2>1. CASE started[c]
    <3>1. Sent' = Sent /\ UNCHANGED <<started, cb, deltas, cand, kept>> /\ pc = "preamble"
          /\ pc' = "epilogue"
      BY <1>0, <1>7, <2>1, NothingWritten DEF Preamble
    <3> QED
      BY <1>2, <3>1, QuietFrames DEF Answered
  <2>2. CASE ~started[c]
    <3>1. /\ Write(<<"start", c>>) /\ pc = "preamble" /\ pc' = "epilogue"
          /\ started' = [started EXCEPT ![c] = TRUE] /\ UNCHANGED <<cb, deltas, cand, kept>>
      BY <1>2, <1>7, <2>2 DEF Preamble, WriteFails
    <3>2. cb[c] = "ended"
      BY <1>0, <1>1, <3>1 DEF CallInvAt
    <3>3. /\ SentAt(<<"start", c>>)' = SentAt(<<"start", c>>) \cup {Len(Sent) + 1}
          /\ \A k \in Ranks : SentAt(<<"delta", k>>)' = SentAt(<<"delta", k>>)
          /\ \A k \in Ranks : k # c => SentAt(<<"start", k>>)' = SentAt(<<"start", k>>)
          /\ Ends' = Ends /\ DOMAIN Sent' = 1..(Len(Sent) + 1)
      BY <1>0, <3>1, StartWritten
    <3>4. FramesAt(c)'
      <4>1. SentAt(<<"start", c>>) = {} /\ SentAt(<<"delta", c>>) = {}
            /\ Cardinality(SentAt(<<"delta", c>>)) = deltas[c]
        BY <1>1, <1>3, <2>2, <3>2 DEF FramesAt
      <4>2. Len(Sent) + 1 \in DOMAIN Sent'
        BY <1>4, <3>3
      <4>3. started'[c] /\ deltas'[c] = deltas[c]
        BY <1>0, <3>1
      <4>4. SentAt(<<"start", c>>)' = {Len(Sent) + 1} /\ SentAt(<<"delta", c>>)' = {}
        BY <3>3, <4>1
      <4> QED
        BY <4>1, <4>2, <4>3, <4>4 DEF FramesAt
    <3>5. ASSUME NEW k \in Ranks, k # c PROVE FramesAt(k)'
      <4>1. started'[k] = started[k] /\ DOMAIN Sent \subseteq DOMAIN Sent'
        BY <1>0, <1>4, <3>1, <3>3, <3>5
      <4> QED
        BY <1>3, <3>1, <3>3, <3>5, <4>1, FramesStay
    <3>6. EndsInv'
      BY <1>3, <3>1, <3>3 DEF EndsInv
    <3> QED
      BY <3>1, <3>4, <3>5, <3>6 DEF FramesInv
  <2> QED
    BY <2>1, <2>2
<1>8. CASE Epilogue
  <2>1. /\ Write(<<"end", c>>) /\ pc = "epilogue" /\ pc' = "persist"
        /\ UNCHANGED <<started, cb, deltas, cand, kept>>
    BY <1>2, <1>8 DEF Epilogue, WriteFails
  <2>2. /\ \A k \in Ranks : /\ SentAt(<<"start", k>>)' = SentAt(<<"start", k>>)
                              /\ SentAt(<<"delta", k>>)' = SentAt(<<"delta", k>>)
        /\ Ends' = Ends \cup {Len(Sent) + 1} /\ DOMAIN Sent' = 1..(Len(Sent) + 1)
        /\ Sent'[Len(Sent) + 1] = <<"end", c>>
    BY <1>0, <2>1, EndWritten
  <2>3. ASSUME NEW k \in Ranks PROVE FramesAt(k)'
    <3>1. DOMAIN Sent \subseteq DOMAIN Sent'
      BY <1>4, <2>2
    <3> QED
      BY <1>3, <2>1, <2>2, <3>1, FramesStay
  <2>4. EndsInv'
    <3>1. Ends' = {Len(Sent) + 1} /\ Len(Sent) + 1 \in DOMAIN Sent'
      BY <1>3, <1>4, <2>1, <2>2 DEF EndsInv
    <3>2. /\ SentAt(<<"start", c>>)' = SentAt(<<"start", c>>)
          /\ SentAt(<<"delta", c>>)' = SentAt(<<"delta", c>>)
          /\ SentAt(<<"start", c>>) \subseteq 1..Len(Sent)
          /\ SentAt(<<"delta", c>>) \subseteq 1..Len(Sent)
      BY <1>4, <2>2
    <3>3. \A i \in SentAt(<<"start", c>>)' \cup SentAt(<<"delta", c>>)' : i < Len(Sent) + 1
      BY <1>4, <3>2
    <3>4. cand' = c
      BY <1>1, <2>1
    <3> QED
      BY <2>1, <2>2, <3>1, <3>3, <3>4 DEF EndsInv
  <2> QED
    BY <2>3, <2>4 DEF FramesInv
<1>9. CASE Judge \/ Retry
  <2>1. Sent' = Sent
    BY <1>0, <1>9, NothingWritten DEF Judge, Retry, WriteFails
  <2> QED
    BY <1>0, <1>2, <1>9, <2>1, QuietFrames DEF Judge, Retry, WriteFails, Answered, TurnInv
<1>10. CASE Fail
  <2>1. /\ Write(<<"error", c>>) /\ pc = "fail" /\ pc' = "close"
        /\ UNCHANGED <<started, cb, deltas, cand, kept>>
    BY <1>0, <1>2, <1>10 DEF Fail, WriteFails, Publishable, Connected
  <2>2. /\ \A k \in Ranks : /\ SentAt(<<"start", k>>)' = SentAt(<<"start", k>>)
                              /\ SentAt(<<"delta", k>>)' = SentAt(<<"delta", k>>)
        /\ Ends' = Ends \cup {Len(Sent) + 1} /\ DOMAIN Sent' = 1..(Len(Sent) + 1)
    BY <1>0, <2>1, EndWritten
  <2>3. ASSUME NEW k \in Ranks PROVE FramesAt(k)'
    <3>1. DOMAIN Sent \subseteq DOMAIN Sent'
      BY <1>4, <2>2
    <3> QED
      BY <1>3, <2>1, <2>2, <3>1, FramesStay
  <2>4. EndsInv'
    <3>1. Ends' = {Len(Sent) + 1} /\ Len(Sent) + 1 \in DOMAIN Sent'
      BY <1>3, <1>4, <2>1, <2>2 DEF EndsInv
    <3>2. ~Answered'
      BY <1>0, <2>1 DEF Answered, TurnInv
    <3> QED
      BY <2>1, <3>1, <3>2 DEF EndsInv
  <2> QED
    BY <2>3, <2>4 DEF FramesInv
<1>11. CASE Persist \/ Close
  <2>1. Sent' = Sent
    BY <1>0, <1>11, NothingWritten DEF Persist, Close
  <2> QED
    BY <1>0, <1>2, <1>11, <2>1, QuietFrames DEF Persist, Close, Answered, TurnInv
<1>12. CASE Await
  <2>1. /\ Sent' = Sent /\ UNCHANGED <<started, cb, deltas, cand, kept>>
        /\ pc = "await" /\ pc' \in {"await", "preamble", "judge"}
    BY <1>0, <1>12, NothingWritten
    DEF Await, AwaitResult, AwaitFirstToken, FirstTokenTimeout, TurnDone, GiveUp
  <2> QED
    BY <1>2, <2>1, QuietFrames DEF Answered
<1> QED
  BY <1>5, <1>6, <1>7, <1>8, <1>9, <1>10, <1>11, <1>12 DEF Turn

\* A callback that writes for another candidate, or before the answer, leaves
\* the end where it is.
LEMMA EndsStay ==
    ASSUME NEW c \in Ranks, cand = c, EndsInv, UNCHANGED <<pc, cand, kept>>, Ends' = Ends,
           DOMAIN Sent \subseteq DOMAIN Sent', \A i \in DOMAIN Sent : Sent'[i] = Sent[i],
           Answered => /\ SentAt(<<"start", c>>)' = SentAt(<<"start", c>>)
                       /\ SentAt(<<"delta", c>>)' = SentAt(<<"delta", c>>)
    PROVE  EndsInv'
<1>1. Answered' = Answered /\ cand' = c
  BY DEF Answered
<1>2. CASE pc \notin {"persist", "close", "done"}
  BY <1>1, <1>2 DEF EndsInv
<1>3. CASE pc \in {"persist", "close", "done"}
  <2>1. PICK e \in DOMAIN Sent :
           /\ Ends = {e}
           /\ Answered =>
                 /\ Sent[e] = <<"end", c>>
                 /\ \A i \in SentAt(<<"start", c>>) \cup SentAt(<<"delta", c>>) : i < e
    BY <1>3 DEF EndsInv
  <2>2. /\ e \in DOMAIN Sent' /\ Ends' = {e}
        /\ Answered' =>
              /\ Sent'[e] = <<"end", c>>
              /\ \A i \in SentAt(<<"start", c>>)' \cup SentAt(<<"delta", c>>)' : i < e
    BY <1>1, <2>1
  <2> QED
    BY <1>1, <1>3, <2>2 DEF EndsInv
<1> QED
  BY <1>2, <1>3

\* The callbacks of a call start its message and write its deltas; the handler
\* only carries what was written.
LEMMA OthersFrames ==
    ASSUME LocalInv, FramesInv, Handler \/ Leave \/ \E k \in Ranks : OfCall(k), conn' = "open"
    PROVE  FramesInv'
<1>0. TypeOK /\ TurnInv /\ Connected /\ \A k \in Ranks : CallInvAt(k)
  BY DEF LocalInv, CallInv
<1> PICK c \in Ranks : c = cand
  BY <1>0, CandidatesRanked DEF LocalInv, TypeOK
<1>1. cand = c
  OBVIOUS
<1>2. CASE Handler \/ Leave
  <2>1. Deliver
    BY <1>2 DEF Handler, Deliver, DeliverFails, DeliverNowhere, Leave
  <2>2. conn = "open" /\ Sent' = Sent /\ UNCHANGED <<pc, cand, kept, cb, started, deltas>>
    BY <1>0, <2>1, NothingWritten DEF Deliver, turn, call
  <2> QED
    BY <2>2, QuietFrames DEF Answered
<1>3. ASSUME NEW k \in Ranks, OfCall(k) PROVE FramesInv'
  <2>1. conn = "open" /\ UNCHANGED <<pc, cand, kept>>
    BY <1>3 DEF OfCall, Callback, BeginDelta, CallbackFails, CallbackPreamble, CallbackMark,
                CallbackStatus, CallbackDelta, ProviderReturns, TurnTimerFires, Write, WriteLate,
                turn, call, out
  <2>2. EndsInv /\ \A x \in Ranks : FramesAt(x)
    BY <2>1 DEF FramesInv
  <2>3. /\ DOMAIN Sent = 1..Len(Sent) /\ Len(Sent) \in Nat
        /\ \A f : SentAt(f) \subseteq 1..Len(Sent) /\ IsFiniteSet(SentAt(f))
    BY <1>0, SentType
  <2>4. CASE BeginDelta(k) \/ CallbackFails(k) \/ CallbackMark(k) \/ CallbackStatus(k)
             \/ ProviderReturns(k) \/ TurnTimerFires(k)
    <3>1. Sent' = Sent
      BY <1>0, <2>4, NothingWritten
      DEF BeginDelta, CallbackFails, CallbackMark, CallbackStatus, ProviderReturns,
          TurnTimerFires, WriteLate, out
    <3>2. deltas' = deltas
      BY <2>4 DEF BeginDelta, CallbackFails, CallbackMark, CallbackStatus, ProviderReturns,
                  TurnTimerFires, call
    <3>3. \A x \in Ranks : started'[x] \/ cb'[x] = "mark" <=> started[x] \/ cb[x] = "mark"
      BY <1>0, <2>4
      DEF BeginDelta, CallbackFails, CallbackMark, CallbackStatus, ProviderReturns,
          TurnTimerFires, TypeOK
    <3> QED
      BY <2>1, <3>1, <3>2, <3>3, QuietFrames DEF Answered
  <2>5. CASE CallbackPreamble(k)
    <3>1. /\ Write(<<"start", k>>) /\ cb[k] = "preamble" /\ cb' = [cb EXCEPT ![k] = "mark"]
          /\ UNCHANGED <<started, deltas>>
      BY <2>5 DEF CallbackPreamble
    <3>2. /\ SentAt(<<"start", k>>)' = SentAt(<<"start", k>>) \cup {Len(Sent) + 1}
          /\ \A x \in Ranks : x # k => SentAt(<<"start", x>>)' = SentAt(<<"start", x>>)
          /\ \A x \in Ranks : SentAt(<<"delta", x>>)' = SentAt(<<"delta", x>>)
          /\ Ends' = Ends /\ DOMAIN Sent' = 1..(Len(Sent) + 1)
          /\ \A i \in 1..Len(Sent) : Sent'[i] = Sent[i]
      BY <1>0, <3>1, StartWritten
    <3>3. DOMAIN Sent \subseteq DOMAIN Sent' /\ Len(Sent) + 1 \in DOMAIN Sent'
      BY <2>3, <3>2
    <3>4. FramesAt(k)'
      <4>1. SentAt(<<"start", k>>) = {} /\ SentAt(<<"delta", k>>) = {}
            /\ Cardinality(SentAt(<<"delta", k>>)) = deltas[k]
        BY <1>0, <2>2, <3>1 DEF FramesAt, CallInvAt
      <4>2. cb'[k] = "mark" /\ deltas'[k] = deltas[k]
        BY <1>0, <3>1 DEF TypeOK
      <4>3. SentAt(<<"start", k>>)' = {Len(Sent) + 1} /\ SentAt(<<"delta", k>>)' = {}
        BY <3>2, <4>1
      <4> QED
        BY <3>3, <4>1, <4>2, <4>3 DEF FramesAt
    <3>5. ASSUME NEW x \in Ranks, x # k PROVE FramesAt(x)'
      <4>1. cb'[x] = cb[x]
        BY <1>0, <3>1, <3>5 DEF TypeOK
      <4> QED
        BY <2>2, <3>1, <3>2, <3>3, <3>5, <4>1, FramesStay
    <3>6. Answered => c # k
      BY <1>0, <1>1, <3>1 DEF CallInvAt
    <3>7. EndsInv'
      BY <1>1, <2>1, <2>2, <2>3, <3>2, <3>3, <3>6, EndsStay
    <3> QED
      BY <3>4, <3>5, <3>7 DEF FramesInv
  <2>6. CASE CallbackDelta(k)
    <3>1. /\ Write(<<"delta", k>>) /\ cb[k] = "delta" /\ cb' = [cb EXCEPT ![k] = "provider"]
          /\ deltas' = [deltas EXCEPT ![k] = @ + 1] /\ UNCHANGED started
      BY <2>6 DEF CallbackDelta
    <3>2. /\ SentAt(<<"delta", k>>)' = SentAt(<<"delta", k>>) \cup {Len(Sent) + 1}
          /\ \A x \in Ranks : x # k => SentAt(<<"delta", x>>)' = SentAt(<<"delta", x>>)
          /\ \A x \in Ranks : SentAt(<<"start", x>>)' = SentAt(<<"start", x>>)
          /\ Ends' = Ends /\ DOMAIN Sent' = 1..(Len(Sent) + 1)
          /\ \A i \in 1..Len(Sent) : Sent'[i] = Sent[i]
      BY <1>0, <3>1, DeltaWritten
    <3>3. DOMAIN Sent \subseteq DOMAIN Sent'
      BY <2>3, <3>2
    <3>4. FramesAt(k)'
      <4>1. started[k] /\ started'[k] /\ deltas'[k] = deltas[k] + 1
        BY <1>0, <3>1 DEF TypeOK, CallInvAt
      <4>2. PICK s \in DOMAIN Sent : /\ SentAt(<<"start", k>>) = {s}
                                     /\ \A i \in SentAt(<<"delta", k>>) : s < i
        BY <2>2, <4>1 DEF FramesAt
      <4>3. s \in DOMAIN Sent' /\ SentAt(<<"start", k>>)' = {s}
        BY <3>2, <3>3, <4>2
      <4>4. \A i \in SentAt(<<"delta", k>>)' : s < i
        BY <2>3, <3>2, <4>2
      <4>5. Cardinality(SentAt(<<"delta", k>>)') = Cardinality(SentAt(<<"delta", k>>)) + 1
        <5> DEFINE D == SentAt(<<"delta", k>>)
        <5>1. IsFiniteSet(D) /\ Len(Sent) + 1 \notin D
          BY <2>3
        <5>2. Cardinality(D \cup {Len(Sent) + 1}) = Cardinality(D) + 1
          BY <5>1, FS_AddElement
        <5> QED
          BY <3>2, <5>2
      <4>6. Cardinality(SentAt(<<"delta", k>>))' = deltas'[k]
        BY <2>2, <4>1, <4>5 DEF FramesAt
      <4> QED
        BY <4>1, <4>3, <4>4, <4>6 DEF FramesAt
    <3>5. ASSUME NEW x \in Ranks, x # k PROVE FramesAt(x)'
      <4>1. cb'[x] = cb[x] /\ deltas'[x] = deltas[x]
        BY <1>0, <3>1, <3>5 DEF TypeOK
      <4> QED
        BY <2>2, <3>1, <3>2, <3>3, <3>5, <4>1, FramesStay
    <3>6. Answered => c # k
      BY <1>0, <1>1, <3>1 DEF CallInvAt
    <3>7. EndsInv'
      BY <1>1, <2>1, <2>2, <2>3, <3>2, <3>3, <3>6, EndsStay
    <3> QED
      BY <3>4, <3>5, <3>7 DEF FramesInv
  <2> QED
    BY <1>3, <2>4, <2>5, <2>6 DEF OfCall, Callback
<1> QED
  BY <1>2, <1>3

LEMMA FramesInit == Init => FramesInv
<1> SUFFICES ASSUME Init PROVE FramesInv
  OBVIOUS
<1>1. Sent = <<>> /\ DOMAIN Sent = {}
  BY DEF Init, Sent
<1>2. Ends = {} /\ \A f : SentAt(f) = {}
  BY <1>1 DEF Ends, SentAt
<1>3. EndsInv
  BY <1>2 DEF Init, EndsInv
<1>4. ASSUME NEW k \in Ranks PROVE FramesAt(k)
  BY <1>2, FS_EmptySet DEF Init, FramesAt
<1> QED
  BY <1>3, <1>4 DEF FramesInv

LEMMA FramesStep == LocalInv /\ FramesInv /\ [Next]_vars => FramesInv'
<1> SUFFICES ASSUME LocalInv, FramesInv, [Next]_vars, conn' = "open" PROVE FramesInv'
  BY DEF FramesInv
<1>1. CASE UNCHANGED vars
  <2>1. UNCHANGED <<hand, wire, conn, pc, cand, kept, cb, started, deltas>>
    BY <1>1 DEF vars
  <2>2. Sent' = Sent
    BY <2>1 DEF Sent
  <2> QED
    BY <2>1, <2>2, QuietFrames DEF Answered
<1> QED
  BY <1>1, TurnFrames, OthersFrames DEF Next, OfCall

LEMMA FramesInvariant == Spec => [](LocalInv /\ FramesInv)
<1>1. Init => LocalInv /\ FramesInv
  BY LocalInit, FramesInit
<1>2. LocalInv /\ FramesInv /\ [Next]_vars => (LocalInv /\ FramesInv)'
  BY LocalStep, FramesStep
<1> QED
  BY <1>1, <1>2, PTL DEF Spec

\* Every variable keeps its type: in particular a candidate that is stored or
\* run is one of the candidates (stream.go:248-315).
THEOREM TypeCorrect == Spec => []TypeOK
<1>1. LocalInv => TypeOK
  BY DEF LocalInv
<1> QED
  BY <1>1, LocalInvariant, PTL

\* In a settled state the client has everything that was sent.
LEMMA SettledFrames ==
    ASSUME LocalInv, FramesInv, Settled
    PROVE  /\ DOMAIN wire = 1..Len(wire) /\ Len(wire) \in Nat
           /\ \A f : Shown(f) = SentAt(f)
           /\ Terminal = Ends /\ Sent = wire
           /\ EndsInv /\ \A k \in Ranks : FramesAt(k)
<1>1. Sent = wire
  BY DEF Settled, Sent
<1>2. DOMAIN wire = 1..Len(wire) /\ Len(wire) \in Nat
  BY <1>1, SentType DEF LocalInv
<1>3. Terminal = Ends /\ \A f : Shown(f) = SentAt(f)
  BY <1>1 DEF Terminal, Ends, Shown, SentAt
<1> QED
  BY <1>1, <1>2, <1>3 DEF FramesInv, Settled

\* A client that stays is told how its turn ended, exactly once, whatever the
\* callbacks of given-up calls still write (stream.go:283-315).
THEOREM ClientsAreTold == Spec => []ClientTold
<1>1. ASSUME LocalInv, FramesInv PROVE ClientTold
  <2> SUFFICES ASSUME Settled PROVE Cardinality(Terminal) = 1
    BY DEF ClientTold
  <2>1. PICK e : Ends = {e}
    BY <1>1, SettledFrames DEF Settled, EndsInv
  <2> QED
    BY <1>1, <2>1, SettledFrames, FS_Singleton
<1> QED
  BY <1>1, FramesInvariant, PTL

\* The answer that was stored is the one on the screen: started once, with every
\* delta and its end (chat.go:209-228, stream.go:248-315).
THEOREM StoredAnswersAreShown == Spec => []StoredIsShown
<1>1. ASSUME LocalInv, FramesInv PROVE StoredIsShown
  <2> SUFFICES ASSUME Settled, kept > 0 PROVE ShownWhole(kept)
    BY DEF StoredIsShown
  <2>1. kept \in Ranks /\ kept = cand /\ started[kept] /\ Answered
    BY <1>1 DEF LocalInv, TypeOK, TurnInv, CallInv, CallInvAt, Answered, Ranks
  <2>2. PICK s \in DOMAIN wire :
           /\ Shown(<<"start", kept>>) = {s}
           /\ \A i \in Shown(<<"delta", kept>>) : s < i
    BY <1>1, <2>1, SettledFrames DEF FramesAt
  <2>3. PICK e \in DOMAIN wire :
           /\ Terminal = {e} /\ wire[e] = <<"end", kept>>
           /\ \A i \in Shown(<<"start", kept>>) \cup Shown(<<"delta", kept>>) : i < e
    BY <1>1, <2>1, SettledFrames DEF Settled, EndsInv
  <2>4. Shown(<<"end", kept>>) = {e}
    <3>1. \A i \in DOMAIN wire : wire[i] = <<"end", kept>> => i \in Terminal
      BY DEF Terminal
    <3> QED
      BY <2>3, <3>1 DEF Shown
  <2>5. s < e /\ Shown(<<"delta", kept>>) \subseteq s..e
    <3>1. DOMAIN wire = 1..Len(wire) /\ Len(wire) \in Nat
      BY <1>1, SettledFrames
    <3>2. Shown(<<"delta", kept>>) \subseteq DOMAIN wire
      BY DEF Shown
    <3> QED
      BY <2>2, <2>3, <3>1, <3>2
  <2>6. Cardinality(Shown(<<"delta", kept>>)) = deltas[kept]
    BY <1>1, <2>1, SettledFrames DEF FramesAt
  <2> QED
    BY <2>2, <2>4, <2>5, <2>6 DEF ShownWhole
<1> QED
  BY <1>1, FramesInvariant, PTL
=============================================================================
