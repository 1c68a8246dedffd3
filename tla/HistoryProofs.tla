--------------------------- MODULE HistoryProofs ---------------------------
(***************************************************************************)
(* Proofs about a chat's history, for any rows of earlier versions, any    *)
(* budgets and sizes, and any numbers of turns, rounds and calls.          *)
(***************************************************************************)
EXTENDS History, SequenceTheorems, FiniteSetTheorems, WellFoundedInduction, TLAPS

-----------------------------------------------------------------------------
(* Induction and recursion                                                  *)

\* A set of numbers that is not empty has a least one.
LEMMA LeastNumber ==
    ASSUME NEW T, T \subseteq Nat, T # {}
    PROVE  \E n \in T : \A m \in T : n <= m
<1> DEFINE Less == {ss \in Nat \X Nat : ss[1] < ss[2]}
<1>1. IsWellFoundedOn(Less, Nat)
  BY NatLessThanWellFounded, Zenon DEF OpToRel
<1>2. \A m, n \in Nat : m < n => <<m, n>> \in Less
  OBVIOUS
<1> HIDE DEF Less
<1>3. PICK n \in T : \A m \in T : ~ (<<m, n>> \in Less)
  BY <1>1, WFMin
<1>4. ASSUME NEW m \in T PROVE n <= m
  <2>1. m \in Nat /\ n \in Nat /\ ~ (m < n)
    BY <1>2, <1>3
  <2> QED
    BY <2>1
<1> QED
  BY <1>4

\* Induction up to n, about membership in a set.
LEMMA Induct ==
    ASSUME NEW n \in Nat, NEW S, 0 \in S, \A i \in 1..n : i - 1 \in S => i \in S
    PROVE  \A i \in 0..n : i \in S
<1> DEFINE T == {i \in 0..n : i \notin S}
<1> SUFFICES ASSUME T # {} PROVE FALSE
  OBVIOUS
<1>1. T \subseteq Nat /\ \A i : i \in T <=> i \in 0..n /\ i \notin S
  OBVIOUS
<1> HIDE DEF T
<1>2. PICK k \in T : \A m \in T : k <= m
  BY <1>1, LeastNumber
<1>3. k \in 1..n /\ k - 1 \in 0..n /\ k \notin S /\ ~ (k <= k - 1)
  BY <1>1, <1>2
<1>4. k - 1 \in S
  BY <1>1, <1>2, <1>3
<1> QED
  BY <1>3, <1>4

\* A table of n entries in X after the first, each from the one before it.
IsTable(f, n, X, first, step) ==
    /\ f \in [0..n -> X] /\ f[0] = first
    /\ \A i \in 1..n : f[i - 1] \in X /\ f[i] = step[i][f[i - 1]]

\* Such a table exists.
LEMMA TableExists ==
    ASSUME NEW n \in Nat, NEW X, NEW first \in X, NEW step \in [1..n -> [X -> X]]
    PROVE  \E f : IsTable(f, n, X, first, step)
<1> DEFINE Good(f, k) == /\ f \in [0..k -> X] /\ f[0] = first
                         /\ \A i \in 1..k : f[i] = step[i][f[i - 1]]
           S == {k \in 0..n : \E f : Good(f, k)}
<1>1. 0 \in S
  <2>1. Good([i \in 0..0 |-> first], 0)
    OBVIOUS
  <2> HIDE DEF Good
  <2> QED
    BY <2>1
<1>2. ASSUME NEW k \in 1..n, k - 1 \in S PROVE k \in S
  <2>1. PICK f : Good(f, k - 1)
    BY <1>2
  <2> DEFINE g == [i \in 0..k |-> IF i = k THEN step[k][f[k - 1]] ELSE f[i]]
  <2>2. f[k - 1] \in X
    BY <2>1
  <2>3. step[k][f[k - 1]] \in X
    BY <2>2
  <2>4. \A i \in 0..k : i # k => i \in 0..(k - 1)
    OBVIOUS
  <2>5. g \in [0..k -> X] /\ g[0] = first
    BY <2>1, <2>3, <2>4
  <2>6. ASSUME NEW i \in 1..k PROVE g[i] = step[i][g[i - 1]]
    <3>1. i - 1 \in 0..k /\ i - 1 # k /\ g[i - 1] = f[i - 1]
      OBVIOUS
    <3>2. CASE i = k
      BY <3>1, <3>2
    <3>3. CASE i # k
      <4>1. i \in 1..(k - 1) /\ g[i] = f[i]
        BY <3>3
      <4> QED
        BY <2>1, <3>1, <4>1
    <3> QED
      BY <3>2, <3>3
  <2>7. Good(g, k)
    BY <2>5, <2>6
  <2> HIDE DEF Good, g
  <2> QED
    BY <2>7
<1> HIDE DEF S
<1>3. \A k \in 0..n : k \in S
  BY <1>1, <1>2, Induct
<1>4. n \in S
  BY <1>3
<1>5. PICK f : Good(f, n)
  BY <1>4 DEF S
<1>6. \A i \in 1..n : f[i - 1] \in X
  BY <1>5
<1>7. IsTable(f, n, X, first, step)
  BY <1>5, <1>6 DEF IsTable
<1> QED
  BY <1>7

\* The entries of a table stay in a set.
LEMMA Stays ==
    ASSUME NEW n \in Nat, NEW f, NEW X, f[0] \in X, \A i \in 1..n : f[i - 1] \in X => f[i] \in X
    PROVE  \A i \in 0..n : f[i] \in X
<1> DEFINE S == {i \in 0..n : f[i] \in X}
<1>1. 0 \in S /\ \A i \in 1..n : i - 1 \in S => i \in S
  OBVIOUS
<1>2. \A i \in 0..n : i \in S
  <2> HIDE DEF S
  <2> QED
    BY <1>1, Induct
<1> QED
  BY <1>2

-----------------------------------------------------------------------------
(* The tables of the model's operators                                      *)

\* The positions of a table.
LEMMA Positions ==
    ASSUME NEW n \in Nat
    PROVE  /\ \A i \in 0..n : i # 0 => i \in 1..n
           /\ \A i \in 1..n : i # 0 /\ i \in 0..n /\ i - 1 \in 0..n
           /\ 0 \in 0..n /\ n \in 0..n
OBVIOUS

\* The element of x at i, if i is to be picked.
Bit(x, i, I) == IF i \in I THEN <<x[i]>> ELSE <<>>

\* p[i] is what Picked has after i elements.
IsPickTable(p, s, I, A) ==
    /\ p \in [0..Len(s) -> Seq(A)]
    /\ p[0] = <<>> /\ Picked(s, I) = p[Len(s)]
    /\ \A i \in 1..Len(s) : p[i] = p[i - 1] \o Bit(s, i, I)

\* The partial results of Picked.
LEMMA PickedTable ==
    ASSUME NEW A, NEW s \in Seq(A), NEW I
    PROVE  \E p : IsPickTable(p, s, I, A)
<1> DEFINE n == Len(s)
           X == Seq(A)
           Piece(i) == IF i \in I THEN <<s[i]>> ELSE <<>>
           step == [i \in 1..n |-> [x \in X |-> x \o Piece(i)]]
           Table(f) == f = [i \in 0..n |-> IF i = 0 THEN <<>> ELSE f[i - 1] \o Piece(i)]
           part[i \in 0..n] == IF i = 0 THEN <<>> ELSE part[i - 1] \o Piece(i)
<1>1. n \in Nat /\ <<>> \in X /\ \A i \in 1..n, x \in X : x \o Piece(i) \in X
  OBVIOUS
<1>2. Picked(s, I) = part[n]
  BY DEF Picked
<1> HIDE DEF n, X, Piece
<1>3. step \in [1..n -> [X -> X]] /\ \A i \in 1..n, x \in X : step[i][x] = x \o Piece(i)
  BY <1>1
<1> HIDE DEF step
<1>4. PICK f : IsTable(f, n, X, <<>>, step)
  BY <1>1, <1>3, TableExists
<1>5. f \in [0..n -> X] /\ \A i \in 0..n : f[i] = IF i = 0 THEN <<>> ELSE f[i - 1] \o Piece(i)
  BY <1>1, <1>3, <1>4, Positions DEF IsTable
<1>6. Table(f)
  BY <1>5
<1>7. Table(part)
  BY <1>6
<1> HIDE DEF part
<1>8. \A i \in 0..n : part[i] = IF i = 0 THEN <<>> ELSE part[i - 1] \o Piece(i)
  BY <1>7
<1>9. part[0] = <<>> /\ \A i \in 1..n : part[i] = part[i - 1] \o Piece(i)
  BY <1>1, <1>8, Positions
<1>10. \A i \in 0..n : part[i] \in X
  <2>1. \A i \in 1..n : part[i - 1] \in X => part[i] \in X
    BY <1>1, <1>9
  <2> QED
    BY <1>1, <1>9, <2>1, Stays
<1>11. part \in [0..n -> X]
  BY <1>7, <1>10
<1> QED
  BY <1>2, <1>9, <1>11 DEF n, X, Piece, IsPickTable, Bit

\* p[i] is the sum of the first i sizes.
IsTotalTable(p, s) ==
    /\ p \in [0..Len(s) -> Nat]
    /\ p[0] = 0 /\ Total(s) = p[Len(s)]
    /\ \A i \in 1..Len(s) : p[i] = p[i - 1] + s[i].size

\* The partial sums of Total.
LEMMA TotalTable ==
    ASSUME NEW s \in Seq(Messages)
    PROVE  \E p : IsTotalTable(p, s)
<1> DEFINE n == Len(s)
           Piece(i) == s[i].size
           step == [i \in 1..n |-> [x \in Nat |-> x + Piece(i)]]
           Table(f) == f = [i \in 0..n |-> IF i = 0 THEN 0 ELSE f[i - 1] + Piece(i)]
           sum[i \in 0..n] == IF i = 0 THEN 0 ELSE sum[i - 1] + Piece(i)
<1>1. n \in Nat /\ \A i \in 1..n : Piece(i) \in Nat
  BY DEF Messages
<1>2. Total(s) = sum[n]
  BY DEF Total
<1> HIDE DEF n, Piece
<1>3. step \in [1..n -> [Nat -> Nat]] /\ \A i \in 1..n, x \in Nat : step[i][x] = x + Piece(i)
  BY <1>1
<1> HIDE DEF step
<1>4. PICK f : IsTable(f, n, Nat, 0, step)
  BY <1>1, <1>3, TableExists
<1>5. f \in [0..n -> Nat] /\ \A i \in 0..n : f[i] = IF i = 0 THEN 0 ELSE f[i - 1] + Piece(i)
  BY <1>1, <1>3, <1>4, Positions DEF IsTable
<1>6. Table(f)
  BY <1>5
<1>7. Table(sum)
  BY <1>6
<1> HIDE DEF sum
<1>8. \A i \in 0..n : sum[i] = IF i = 0 THEN 0 ELSE sum[i - 1] + Piece(i)
  BY <1>7
<1>9. sum[0] = 0 /\ \A i \in 1..n : sum[i] = sum[i - 1] + Piece(i)
  BY <1>1, <1>8, Positions
<1>10. \A i \in 0..n : sum[i] \in Nat
  <2>1. sum[0] \in Nat /\ \A i \in 1..n : sum[i - 1] \in Nat => sum[i] \in Nat
    BY <1>1, <1>9
  <2> QED
    BY <1>1, <2>1, Stays
<1>11. sum \in [0..n -> Nat]
  BY <1>7, <1>10
<1> QED
  BY <1>2, <1>9, <1>11 DEF n, Piece, IsTotalTable

\* Which calls wait for a result after each message.
LEMMA PendingTable ==
    ASSUME NEW s \in Seq(Messages)
    PROVE  /\ Pending(s) \in [0..Len(s) -> SUBSET Calls]
           /\ Pending(s)[0] = {}
           /\ \A i \in 1..Len(s) : Pending(s)[i] = PendingAfter(Pending(s)[i - 1], s[i])
<1> DEFINE n == Len(s)
           X == SUBSET Calls
           Piece(x, i) == PendingAfter(x, s[i])
           step == [i \in 1..n |-> [x \in X |-> Piece(x, i)]]
           Table(f) == f = [i \in 0..n |-> IF i = 0 THEN {} ELSE Piece(f[i - 1], i)]
           after[i \in 0..n] == IF i = 0 THEN {} ELSE Piece(after[i - 1], i)
<1>1. n \in Nat /\ {} \in X
  OBVIOUS
<1>a. ASSUME NEW i \in 1..n, NEW x \in X PROVE Piece(x, i) \in X
  <2>1. s[i].calls \in Seq(Calls)
    BY DEF Messages
  <2>2. ToSet(s[i].calls) \subseteq Calls
    BY <2>1 DEF ToSet
  <2> QED
    BY <2>2 DEF PendingAfter
<1>2. Pending(s) = after
  BY DEF Pending
<1> HIDE DEF n, X, Piece
<1>3. step \in [1..n -> [X -> X]] /\ \A i \in 1..n, x \in X : step[i][x] = Piece(x, i)
  BY <1>1, <1>a
<1> HIDE DEF step
<1>4. PICK f : IsTable(f, n, X, {}, step)
  BY <1>1, <1>3, TableExists
<1>5. f \in [0..n -> X] /\ \A i \in 0..n : f[i] = IF i = 0 THEN {} ELSE Piece(f[i - 1], i)
  BY <1>1, <1>3, <1>4, Positions DEF IsTable
<1>6. Table(f)
  BY <1>5
<1>7. Table(after)
  BY <1>6
<1> HIDE DEF after
<1>8. \A i \in 0..n : after[i] = IF i = 0 THEN {} ELSE Piece(after[i - 1], i)
  BY <1>7
<1>9. after[0] = {} /\ \A i \in 1..n : after[i] = Piece(after[i - 1], i)
  BY <1>1, <1>8, Positions
<1>10. \A i \in 0..n : after[i] \in X
  <2>1. \A i \in 1..n : after[i - 1] \in X => after[i] \in X
    BY <1>a, <1>9
  <2> QED
    BY <1>1, <1>9, <2>1, Stays
<1>11. after \in [0..n -> X]
  BY <1>7, <1>10
<1> QED
  BY <1>2, <1>9, <1>11 DEF n, X, Piece

\* Where a unit ends.
LEMMA UnitEndIs ==
    ASSUME NEW ms \in Seq(Messages), NEW i \in 1..Len(ms)
    PROVE  /\ UnitEnd(ms, i) \in i..Len(ms)
           /\ ms[i].calls = <<>> => UnitEnd(ms, i) = i
           /\ ms[i].calls # <<>> =>
                 /\ \A k \in (i + 1)..UnitEnd(ms, i) : ms[k].role = "tool"
                 /\ UnitEnd(ms, i) < Len(ms) => ms[UnitEnd(ms, i) + 1].role # "tool"
<1>1. CASE ms[i].calls = <<>>
  BY <1>1 DEF UnitEnd
<1>2. CASE ms[i].calls # <<>>
  <2> DEFINE T == {k \in (i + 1)..(Len(ms) + 1) : k = Len(ms) + 1 \/ ms[k].role # "tool"}
  <2>1. T \subseteq Nat /\ Len(ms) + 1 \in T
    OBVIOUS
  <2>2. PICK t \in T : \A m \in T : t <= m
    BY <2>1, LeastNumber
  <2>3. t - 1 \in i..Len(ms) /\ (t - 1) + 1 = t
    BY <2>2
  <2>4. \A k \in (i + 1)..(t - 1) : ms[k].role = "tool"
    BY <2>2
  <2>5. t - 1 < Len(ms) => ms[(t - 1) + 1].role # "tool"
    BY <2>2, <2>3
  <2> DEFINE E(e) == /\ \A k \in (i + 1)..e : ms[k].role = "tool"
                     /\ e < Len(ms) => ms[e + 1].role # "tool"
  <2>6. E(t - 1)
    BY <2>4, <2>5
  <2>7. UnitEnd(ms, i) = CHOOSE e \in i..Len(ms) : E(e)
    BY <1>2 DEF UnitEnd
  <2> HIDE DEF E, T
  <2>8. UnitEnd(ms, i) \in i..Len(ms) /\ E(UnitEnd(ms, i))
    BY <2>3, <2>6, <2>7
  <2> QED
    BY <1>2, <2>8 DEF E
<1> QED
  BY <1>1, <1>2

-----------------------------------------------------------------------------
(* Parts of a sequence                                                      *)

\* The positions picked, in order.
IsPick(g, p, s, I) ==
    /\ g \in [1..Len(p) -> I \cap (1..Len(s))]
    /\ \A j, k \in 1..Len(p) : j < k => g[j] < g[k]
    /\ \A i \in I \cap (1..Len(s)) : \E j \in 1..Len(p) : g[j] = i
    /\ \A j \in 1..Len(p) : p[j] = s[g[j]]

\* One more element, picked or not, extends a pick of those before it.
LEMMA PickExtends ==
    ASSUME NEW A, NEW s \in Seq(A), NEW I, NEW m \in 1..Len(s), NEW p \in Seq(A),
           NEW g, IsPick(g, p, SubSeq(s, 1, m - 1), I)
    PROVE  \E h : IsPick(h, p \o (IF m \in I THEN <<s[m]>> ELSE <<>>), SubSeq(s, 1, m), I)
<1> DEFINE u == SubSeq(s, 1, m - 1)
           v == SubSeq(s, 1, m)
<1>1. /\ Len(u) = m - 1 /\ Len(v) = m
      /\ \A i \in 1..(m - 1) : v[i] = u[i]
      /\ v[m] = s[m]
  OBVIOUS
<1> HIDE DEF u, v
<1>a. IsPick(g, p, u, I)
  BY DEF u
<1>2. CASE m \in I
  <2> DEFINE q == p \o <<s[m]>>
             n == Len(p)
             h == [j \in 1..(n + 1) |-> IF j = n + 1 THEN m ELSE g[j]]
  <2>1. n \in Nat /\ Len(q) = n + 1 /\ q[n + 1] = s[m] /\ \A j \in 1..n : q[j] = p[j]
    OBVIOUS
  <2> HIDE DEF n, q
  <2>2. g \in [1..n -> I \cap (1..(m - 1))]
    BY <1>1, <1>a DEF IsPick, n
  <2>3. h \in [1..Len(q) -> I \cap (1..Len(v))]
    BY <1>1, <1>2, <2>1, <2>2
  <2>4. \A j, k \in 1..Len(q) : j < k => h[j] < h[k]
    <3> SUFFICES ASSUME NEW j \in 1..Len(q), NEW k \in 1..Len(q), j < k PROVE h[j] < h[k]
      OBVIOUS
    <3>1. j \in 1..n /\ h[j] = g[j] /\ g[j] \in 1..(m - 1)
      BY <2>1, <2>2
    <3>2. CASE k = n + 1
      BY <2>1, <3>1, <3>2
    <3>3. CASE k # n + 1
      BY <1>a, <2>1, <3>1, <3>3 DEF IsPick, n
    <3> QED
      BY <3>2, <3>3
  <2>5. ASSUME NEW i \in I \cap (1..Len(v)) PROVE \E j \in 1..Len(q) : h[j] = i
    <3>1. CASE i = m
      BY <2>1, <3>1
    <3>2. CASE i # m
      <4>1. i \in I \cap (1..Len(u))
        BY <1>1, <3>2
      <4>2. PICK j \in 1..n : g[j] = i
        BY <1>a, <4>1 DEF IsPick, n
      <4>3. j \in 1..Len(q) /\ h[j] = i
        BY <2>1, <4>2
      <4> QED
        BY <4>3
    <3> QED
      BY <3>1, <3>2
  <2>6. ASSUME NEW j \in 1..Len(q) PROVE q[j] = v[h[j]]
    <3>1. CASE j = n + 1
      BY <1>1, <2>1, <3>1
    <3>2. CASE j # n + 1
      <4>1. j \in 1..n /\ h[j] = g[j] /\ g[j] \in 1..(m - 1)
        BY <2>1, <2>2, <3>2
      <4>2. p[j] = u[g[j]]
        BY <1>a, <4>1 DEF IsPick, n
      <4> QED
        BY <1>1, <2>1, <4>1, <4>2
    <3> QED
      BY <3>1, <3>2
  <2> HIDE DEF h
  <2>7. IsPick(h, q, v, I)
    BY <2>3, <2>4, <2>5, <2>6 DEF IsPick
  <2> QED
    BY <1>2, <2>7 DEF q, v
<1>3. CASE m \notin I
  <2>1. p \o <<>> = p
    OBVIOUS
  <2>2. I \cap (1..Len(v)) = I \cap (1..Len(u))
    BY <1>1, <1>3
  <2>3. \A j \in 1..Len(p) : g[j] \in 1..(m - 1)
    BY <1>1, <1>a DEF IsPick
  <2>4. \A j \in 1..Len(p) : p[j] = v[g[j]]
    BY <1>1, <1>a, <2>3 DEF IsPick
  <2>5. IsPick(g, p, v, I)
    BY <1>a, <2>2, <2>4 DEF IsPick
  <2> QED
    BY <1>3, <2>1, <2>5 DEF v
<1> QED
  BY <1>2, <1>3

\* Picked lists the elements at the positions in I, in their order.
LEMMA PickedIs ==
    ASSUME NEW A, NEW s \in Seq(A), NEW I
    PROVE  Picked(s, I) \in Seq(A) /\ \E g : IsPick(g, Picked(s, I), s, I)
<1>0. PICK p : IsPickTable(p, s, I, A)
  BY PickedTable
<1>1. /\ p \in [0..Len(s) -> Seq(A)] /\ Len(s) \in Nat
      /\ p[0] = <<>> /\ Picked(s, I) = p[Len(s)]
      /\ \A i \in 1..Len(s) : p[i] = p[i - 1] \o (IF i \in I THEN <<s[i]>> ELSE <<>>)
  BY <1>0 DEF IsPickTable, Bit
<1> DEFINE S == {m \in 0..Len(s) : \E g : IsPick(g, p[m], SubSeq(s, 1, m), I)}
<1>2. 0 \in S
  <2>1. Len(SubSeq(s, 1, 0)) = 0 /\ Len(<<>>) = 0
    OBVIOUS
  <2>2. IsPick([j \in {} |-> j], <<>>, SubSeq(s, 1, 0), I)
    BY <2>1 DEF IsPick
  <2> QED
    BY <1>1, <2>2
<1>3. ASSUME NEW m \in 1..Len(s), m - 1 \in S PROVE m \in S
  <2>1. PICK g : IsPick(g, p[m - 1], SubSeq(s, 1, m - 1), I)
    BY <1>3
  <2>2. p[m - 1] \in Seq(A) /\ m \in 0..Len(s)
    BY <1>1
  <2>3. \E h : IsPick(h, p[m - 1] \o (IF m \in I THEN <<s[m]>> ELSE <<>>), SubSeq(s, 1, m), I)
    BY <2>1, <2>2, PickExtends
  <2> QED
    BY <1>1, <2>2, <2>3
<1> HIDE DEF S
<1>4. \A m \in 0..Len(s) : m \in S
  BY <1>1, <1>2, <1>3, Induct
<1>5. \E g : IsPick(g, p[Len(s)], SubSeq(s, 1, Len(s)), I)
  BY <1>1, <1>4 DEF S
<1>6. SubSeq(s, 1, Len(s)) = s
  OBVIOUS
<1>7. p[Len(s)] \in Seq(A)
  BY <1>1
<1> QED
  BY <1>1, <1>5, <1>6, <1>7

\* The positions I of s and then t are J of s and K of t.
Splits(I, J, K, s, t) ==
    /\ \A i \in 1..Len(s) : i \in I <=> i \in J
    /\ \A i \in 1..Len(t) : Len(s) + i \in I <=> i \in K

\* What is picked from a concatenation.
LEMMA PickedConcat ==
    ASSUME NEW A, NEW s \in Seq(A), NEW t \in Seq(A), NEW I, NEW J, NEW K,
           Splits(I, J, K, s, t)
    PROVE  Picked(s \o t, I) = Picked(s, J) \o Picked(t, K)
<1> DEFINE m == Len(s)
           n == Len(t)
           r == s \o t
<1>1. m \in Nat /\ n \in Nat /\ r \in Seq(A) /\ Len(r) = m + n
  OBVIOUS
<1>2a. PICK p : IsPickTable(p, r, I, A)
  BY <1>1, PickedTable
<1>2. /\ p \in [0..Len(r) -> Seq(A)]
      /\ p[0] = <<>> /\ Picked(r, I) = p[Len(r)]
      /\ \A i \in 1..Len(r) : p[i] = p[i - 1] \o Bit(r, i, I)
  BY <1>2a DEF IsPickTable
<1>3a. PICK q : IsPickTable(q, s, J, A)
  BY <1>1, PickedTable
<1>3. /\ q \in [0..Len(s) -> Seq(A)]
      /\ q[0] = <<>> /\ Picked(s, J) = q[Len(s)]
      /\ \A i \in 1..Len(s) : q[i] = q[i - 1] \o Bit(s, i, J)
  BY <1>3a DEF IsPickTable
<1>4a. PICK w : IsPickTable(w, t, K, A)
  BY <1>1, PickedTable
<1>4. /\ w \in [0..Len(t) -> Seq(A)]
      /\ w[0] = <<>> /\ Picked(t, K) = w[Len(t)]
      /\ \A i \in 1..Len(t) : w[i] = w[i - 1] \o Bit(t, i, K)
  BY <1>4a DEF IsPickTable
<1>5. \A i \in 1..m : Bit(r, i, I) = Bit(s, i, J)
  BY DEF Bit, Splits
<1>6. \A i \in 1..n : Bit(r, m + i, I) = Bit(t, i, K)
  BY DEF Bit, Splits
<1>7. \A i \in 1..n : Bit(t, i, K) \in Seq(A)
  BY DEF Bit
<1>e. w \in [0..n -> Seq(A)] /\ q \in [0..m -> Seq(A)]
  BY <1>3, <1>4
<1>c. \A x, y, z \in Seq(A) : (x \o y) \o z = x \o (y \o z)
  OBVIOUS
<1>d. \A x \in Seq(A) : x \o <<>> = x
  OBVIOUS
<1> HIDE DEF r, m, n
<1>b. \A i \in 1..n : w[i - 1] \in Seq(A) /\ i - 1 \in 0..n /\ i \in 0..n
  BY <1>1, <1>e
<1>f. q[m] \in Seq(A)
  BY <1>1, <1>e
<1>8. \A i \in 0..m : i \in {k \in 0..m : p[k] = q[k]}
  <2>1. 0 \in {k \in 0..m : p[k] = q[k]}
    BY <1>1, <1>2, <1>3
  <2>2. ASSUME NEW i \in 1..m, i - 1 \in {k \in 0..m : p[k] = q[k]}
        PROVE  i \in {k \in 0..m : p[k] = q[k]}
    <3>1. i \in 1..Len(r) /\ i \in 1..Len(s) /\ i \in 0..m
      BY <1>1 DEF m
    <3> QED
      BY <1>2, <1>3, <1>5, <2>2, <3>1
  <2> QED
    BY <1>1, <2>1, <2>2, Induct
<1>9. p[m] = q[m]
  BY <1>1, <1>8
<1> DEFINE S == {k \in 0..n : p[m + k] = q[m] \o w[k]}
<1>10. \A i \in 0..n : i \in S
  <2>1. 0 \in S
    <3>1. m + 0 = m /\ 0 \in 0..n
      BY <1>1
    <3>2. q[m] \o w[0] = q[m]
      BY <1>4, <1>d, <1>f
    <3> QED
      BY <1>9, <3>1, <3>2
  <2>2. ASSUME NEW i \in 1..n, i - 1 \in S PROVE i \in S
    <3>1. m + i \in 1..Len(r) /\ i \in 1..Len(t) /\ i \in 0..n /\ (m + i) - 1 = m + (i - 1)
      BY <1>1 DEF n
    <3>2. w[i - 1] \in Seq(A) /\ Bit(t, i, K) \in Seq(A)
      BY <1>7, <1>b
    <3>3. p[m + i] = (q[m] \o w[i - 1]) \o Bit(t, i, K)
      BY <1>2, <1>6, <2>2, <3>1
    <3>4. p[m + i] = q[m] \o (w[i - 1] \o Bit(t, i, K))
      BY <1>c, <1>f, <3>2, <3>3
    <3> QED
      BY <1>4, <3>1, <3>4
  <2> HIDE DEF S
  <2> QED
    BY <1>1, <2>1, <2>2, Induct
<1>11. p[m + n] = q[m] \o w[n]
  <2>1. n \in S
    <3> HIDE DEF S
    <3> QED
      BY <1>1, <1>10
  <2> QED
    BY <2>1
<1> QED
  BY <1>1, <1>2, <1>3, <1>4, <1>11 DEF m, n, r

\* Nothing is picked of nothing, and one or none of one.
LEMMA PickedOne ==
    ASSUME NEW A, NEW x \in A, NEW I
    PROVE  /\ Picked(<<>>, I) = <<>>
           /\ Picked(<<x>>, I) = IF 1 \in I THEN <<x>> ELSE <<>>
<1>1. <<>> \in Seq(A) /\ <<x>> \in Seq(A)
  OBVIOUS
<1>2. Picked(<<>>, I) = <<>>
  <2>1. Len(<<>>) = 0
    OBVIOUS
  <2> QED
    <3>1. PICK p : IsPickTable(p, <<>>, I, A)
      BY <1>1, PickedTable
    <3> QED
      BY <2>1, <3>1 DEF IsPickTable
<1>3. Picked(<<x>>, I) = IF 1 \in I THEN <<x>> ELSE <<>>
  <2>1. PICK p : IsPickTable(p, <<x>>, I, A)
    BY <1>1, PickedTable
  <2>2. Len(<<x>>) = 1 /\ <<x>>[1] = x
    OBVIOUS
  <2>3. p[1] = p[0] \o (IF 1 \in I THEN <<x>> ELSE <<>>)
    BY <2>1, <2>2 DEF IsPickTable, Bit
  <2> QED
    BY <1>1, <2>1, <2>2, <2>3 DEF IsPickTable
<1> QED
  BY <1>2, <1>3

\* The tokens of two lists add up.
LEMMA TotalConcat ==
    ASSUME NEW s \in Seq(Messages), NEW t \in Seq(Messages)
    PROVE  Total(s \o t) = Total(s) + Total(t) /\ Total(s) \in Nat
<1> DEFINE m == Len(s)
           n == Len(t)
           r == s \o t
<1>1. m \in Nat /\ n \in Nat /\ r \in Seq(Messages) /\ Len(r) = m + n
  OBVIOUS
<1>2. /\ \A i \in 1..m : r[i] = s[i]
      /\ \A i \in 1..n : r[m + i] = t[i]
  OBVIOUS
<1>3. \A i \in 1..n : t[i].size \in Nat
  BY DEF Messages
<1>4. PICK p : IsTotalTable(p, r)
  BY <1>1, TotalTable
<1>5. PICK q : IsTotalTable(q, s)
  BY TotalTable
<1>6. PICK w : IsTotalTable(w, t)
  BY TotalTable
<1>7. /\ p[0] = 0 /\ Total(r) = p[m + n]
      /\ \A i \in 1..(m + n) : p[i] = p[i - 1] + r[i].size
  BY <1>1, <1>4 DEF IsTotalTable
<1>8. /\ q \in [0..m -> Nat] /\ q[0] = 0 /\ Total(s) = q[m]
      /\ \A i \in 1..m : q[i] = q[i - 1] + s[i].size
  BY <1>5 DEF IsTotalTable
<1>9. /\ w \in [0..n -> Nat] /\ w[0] = 0 /\ Total(t) = w[n]
      /\ \A i \in 1..n : w[i] = w[i - 1] + t[i].size
  BY <1>6 DEF IsTotalTable
<1> HIDE DEF r, m, n
<1> DEFINE R == {k \in 0..m : p[k] = q[k]}
           S == {k \in 0..n : p[m + k] = q[m] + w[k]}
<1>10. m \in R
  <2>1. 0 \in R
    BY <1>1, <1>7, <1>8
  <2>2. ASSUME NEW i \in 1..m, i - 1 \in R PROVE i \in R
    <3>1. i \in 1..(m + n) /\ i \in 0..m
      BY <1>1
    <3> QED
      BY <1>2, <1>7, <1>8, <2>2, <3>1
  <2> HIDE DEF R
  <2>3. \A i \in 0..m : i \in R
    BY <1>1, <2>1, <2>2, Induct
  <2> QED
    BY <1>1, <2>3
<1>11. q[m] \in Nat
  BY <1>1, <1>8
<1>12. n \in S
  <2>1. 0 \in S
    <3>1. m + 0 = m /\ 0 \in 0..n
      BY <1>1
    <3> QED
      BY <1>9, <1>10, <1>11, <3>1
  <2>2. ASSUME NEW i \in 1..n, i - 1 \in S PROVE i \in S
    <3>1. m + i \in 1..(m + n) /\ i \in 0..n /\ (m + i) - 1 = m + (i - 1) /\ i - 1 \in 0..n
      BY <1>1
    <3>2. w[i - 1] \in Nat /\ t[i].size \in Nat
      BY <1>3, <1>9, <3>1
    <3>3. p[m + i] = (q[m] + w[i - 1]) + t[i].size
      BY <1>2, <1>7, <2>2, <3>1
    <3>5. w[i] = w[i - 1] + t[i].size
      BY <1>9
    <3>4. p[m + i] = q[m] + w[i]
      BY <1>11, <3>2, <3>3, <3>5
    <3> QED
      BY <3>1, <3>4
  <2> HIDE DEF S
  <2>3. \A i \in 0..n : i \in S
    BY <1>1, <2>1, <2>2, Induct
  <2> QED
    BY <1>1, <2>3
<1> QED
  BY <1>7, <1>8, <1>9, <1>11, <1>12 DEF r

-----------------------------------------------------------------------------
(* Calls and their results                                                  *)

\* Only the assistant calls tools.
Tidy(ms) == \A i \in DOMAIN ms : ms[i].calls # <<>> => ms[i].role = "assistant"

\* What a message list is made of: units one after the other.
Sound(ms) == ms \in Seq(Messages) /\ Paired(ms) /\ Tidy(ms)

\* The results of the calls a message makes, n of them.
Answered(ms, i, n) ==
    /\ i + n <= Len(ms)
    /\ \A k \in (i + 1)..(i + n) : ms[k].role = "tool"
    /\ {ms[k].answers : k \in (i + 1)..(i + n)} = ToSet(ms[i].calls)

\* Paired, each message's calls by themselves.
LEMMA PairedIs ==
    ASSUME NEW ms \in Seq(Messages)
    PROVE  Paired(ms) <=>
              /\ \A i \in 1..Len(ms) : Answered(ms, i, Len(ms[i].calls))
              /\ \A k \in 1..Len(ms) : ms[k].role = "tool" =>
                    \E i \in 1..(k - 1) : k <= i + Len(ms[i].calls)
<1>1. DOMAIN ms = 1..Len(ms)
  OBVIOUS
<1>2. \A i : Answered(ms, i, Len(ms[i].calls)) <=>
              LET n == Len(ms[i].calls) IN
                 /\ i + n <= Len(ms)
                 /\ \A k \in (i + 1)..(i + n) : ms[k].role = "tool"
                 /\ {ms[k].answers : k \in (i + 1)..(i + n)} = ToSet(ms[i].calls)
  BY DEF Answered
<1> QED
  BY <1>1, <1>2, Zenon DEF Paired

\* A message's calls are a list, empty or of positive length.
LEMMA CallsLength ==
    ASSUME NEW ms \in Seq(Messages), NEW i \in 1..Len(ms)
    PROVE  /\ Len(ms[i].calls) \in Nat
           /\ Len(ms[i].calls) = 0 <=> ms[i].calls = <<>>
           /\ ms[i].calls \in Seq(Calls)
<1>1. ms[i].calls \in Seq(Calls)
  BY DEF Messages
<1> QED
  BY <1>1

\* A result follows its call, so an end that starts with no result is sound.
LEMMA SoundSuffix ==
    ASSUME NEW ms, Sound(ms), NEW k \in 0..Len(ms), k < Len(ms) => ms[k + 1].role # "tool"
    PROVE  Sound(SubSeq(ms, k + 1, Len(ms)))
<1> DEFINE n == Len(ms)
           t == SubSeq(ms, k + 1, n)
<1>1. ms \in Seq(Messages) /\ n \in Nat /\ Tidy(ms)
  BY DEF Sound
<1>2. t \in Seq(Messages) /\ Len(t) = n - k /\ \A i \in 1..(n - k) : t[i] = ms[k + i]
  BY <1>1
<1>3. /\ \A i \in 1..n : Answered(ms, i, Len(ms[i].calls))
      /\ \A j \in 1..n : ms[j].role = "tool" =>
            \E i \in 1..(j - 1) : j <= i + Len(ms[i].calls)
  BY <1>1, PairedIs DEF Sound
<1>4. \A i \in 1..n : Len(ms[i].calls) \in Nat
  BY <1>1, CallsLength
<1> HIDE DEF t, n
<1>5. ASSUME NEW i \in 1..Len(t) PROVE Answered(t, i, Len(t[i].calls))
  <2> DEFINE m == Len(ms[k + i].calls)
  <2>1. k + i \in 1..n /\ t[i] = ms[k + i] /\ m \in Nat
    BY <1>1, <1>2, <1>4 DEF n
  <2>2. Answered(ms, k + i, m)
    BY <1>3, <2>1
  <2> HIDE DEF m
  <2>3. (k + i) + m <= n /\ \A j \in (k + i + 1)..((k + i) + m) : ms[j].role = "tool"
    BY <1>1, <2>2 DEF Answered, n
  <2>a. i + m <= Len(t)
    BY <1>1, <1>2, <2>1, <2>3 DEF n
  <2>b. \A j \in (i + 1)..(i + m) : j \in 1..(n - k) /\ k + j \in (k + i + 1)..((k + i) + m)
    BY <1>1, <1>2, <2>1, <2>3 DEF n
  <2>4. i + m <= Len(t) /\ \A j \in (i + 1)..(i + m) : t[j] = ms[k + j] /\ k + j \in (k + i + 1)..((k + i) + m)
    BY <1>2, <2>a, <2>b
  <2>5. \A j \in (k + i + 1)..((k + i) + m) : j - k \in (i + 1)..(i + m) /\ t[j - k] = ms[j]
    <3> SUFFICES ASSUME NEW j \in (k + i + 1)..((k + i) + m)
                 PROVE  j - k \in (i + 1)..(i + m) /\ t[j - k] = ms[j]
      OBVIOUS
    <3>1. j - k \in (i + 1)..(i + m) /\ k + (j - k) = j
      BY <1>1, <2>1 DEF n
    <3> QED
      BY <2>4, <3>1
  <2>6. {t[j].answers : j \in (i + 1)..(i + m)}
          = {ms[j].answers : j \in (k + i + 1)..((k + i) + m)}
    BY <2>4, <2>5
  <2> QED
    BY <2>1, <2>2, <2>3, <2>4, <2>6 DEF Answered, m
<1>6. ASSUME NEW j \in 1..Len(t), t[j].role = "tool"
      PROVE  \E i \in 1..(j - 1) : j <= i + Len(t[i].calls)
  <2>1. k + j \in 1..n /\ ms[k + j].role = "tool"
    BY <1>1, <1>2, <1>6 DEF n
  <2>2. PICK i \in 1..((k + j) - 1) : k + j <= i + Len(ms[i].calls)
    BY <1>3, <2>1
  <2>3. i \in 1..n /\ Len(ms[i].calls) \in Nat
    BY <1>1, <1>4, <2>1
  <2>4. i > k
    <3> SUFFICES ASSUME i <= k PROVE FALSE
      BY <1>1, <2>3 DEF n
    <3>1. k + 1 \in (i + 1)..(i + Len(ms[i].calls)) /\ k < n
      BY <1>1, <2>1, <2>2, <2>3 DEF n
    <3>2. ms[k + 1].role = "tool"
      BY <1>3, <2>3, <3>1 DEF Answered
    <3> QED
      BY <3>1, <3>2 DEF n
  <2>5. i - k \in 1..(j - 1) /\ t[i - k] = ms[i] /\ j <= (i - k) + Len(ms[i].calls)
    <3>1. i - k \in 1..(n - k) /\ k + (i - k) = i /\ i - k \in 1..(j - 1)
      BY <1>1, <2>1, <2>3, <2>4 DEF n
    <3>2. j <= (i - k) + Len(ms[i].calls)
      BY <1>1, <2>1, <2>2, <2>3 DEF n
    <3> QED
      BY <1>2, <3>1, <3>2
  <2> QED
    BY <2>5
<1>7. Paired(t)
  BY <1>2, <1>5, <1>6, PairedIs
<1>8. Tidy(t)
  <2>1. \A i \in 1..Len(t) : k + i \in 1..n /\ t[i] = ms[k + i]
    BY <1>1, <1>2 DEF n
  <2>2. DOMAIN ms = 1..n /\ DOMAIN t = 1..Len(t)
    BY <1>1, <1>2 DEF n
  <2> QED
    BY <1>1, <2>1, <2>2 DEF Tidy
<1> QED
  BY <1>2, <1>7, <1>8 DEF Sound, t, n

\* What stands before a message that is no result is sound.
LEMMA SoundPrefix ==
    ASSUME NEW ms, Sound(ms), NEW k \in 0..Len(ms), k < Len(ms) => ms[k + 1].role # "tool"
    PROVE  Sound(SubSeq(ms, 1, k))
<1> DEFINE n == Len(ms)
           t == SubSeq(ms, 1, k)
<1>1. ms \in Seq(Messages) /\ n \in Nat /\ Tidy(ms)
  BY DEF Sound
<1>2. t \in Seq(Messages) /\ Len(t) = k /\ \A i \in 1..k : t[i] = ms[i]
  BY <1>1
<1>3. /\ \A i \in 1..n : Answered(ms, i, Len(ms[i].calls))
      /\ \A j \in 1..n : ms[j].role = "tool" =>
            \E i \in 1..(j - 1) : j <= i + Len(ms[i].calls)
  BY <1>1, PairedIs DEF Sound
<1>4. \A i \in 1..n : Len(ms[i].calls) \in Nat
  BY <1>1, CallsLength
<1> HIDE DEF t, n
<1>5. ASSUME NEW i \in 1..Len(t) PROVE Answered(t, i, Len(t[i].calls))
  <2> DEFINE m == Len(ms[i].calls)
  <2>1. i \in 1..n /\ t[i] = ms[i] /\ m \in Nat
    BY <1>1, <1>2, <1>4 DEF n
  <2>2. Answered(ms, i, m)
    BY <1>3, <2>1
  <2> HIDE DEF m
  <2>3. i + m <= k
    <3> SUFFICES ASSUME k < i + m PROVE FALSE
      BY <1>1, <2>1 DEF n
    <3>1. k + 1 \in (i + 1)..(i + m) /\ k < n
      BY <1>1, <1>2, <2>1, <2>2 DEF Answered, n
    <3> QED
      BY <2>2, <3>1 DEF Answered, n
  <2>4. \A j \in (i + 1)..(i + m) : t[j] = ms[j]
    BY <1>1, <1>2, <2>1, <2>3 DEF n
  <2>5. {t[j].answers : j \in (i + 1)..(i + m)} = {ms[j].answers : j \in (i + 1)..(i + m)}
    BY <2>4
  <2> QED
    BY <1>2, <2>1, <2>2, <2>3, <2>4, <2>5 DEF Answered, m
<1>6. ASSUME NEW j \in 1..Len(t), t[j].role = "tool"
      PROVE  \E i \in 1..(j - 1) : j <= i + Len(t[i].calls)
  <2>1. j \in 1..n /\ ms[j].role = "tool"
    BY <1>1, <1>2, <1>6 DEF n
  <2>2. PICK i \in 1..(j - 1) : j <= i + Len(ms[i].calls)
    BY <1>3, <2>1
  <2>3. t[i] = ms[i]
    BY <1>1, <1>2, <2>2 DEF n
  <2> QED
    BY <2>2, <2>3
<1>7. Paired(t)
  BY <1>2, <1>5, <1>6, PairedIs
<1>8. Tidy(t)
  <2>1. \A i \in 1..Len(t) : i \in 1..n /\ t[i] = ms[i]
    BY <1>1, <1>2 DEF n
  <2>2. DOMAIN ms = 1..n /\ DOMAIN t = 1..Len(t)
    BY <1>1, <1>2 DEF n
  <2> QED
    BY <1>1, <2>1, <2>2 DEF Tidy
<1> QED
  BY <1>2, <1>7, <1>8 DEF Sound, t

\* Sound lists may follow one another.
LEMMA SoundConcat ==
    ASSUME NEW s, NEW t, Sound(s), Sound(t)
    PROVE  Sound(s \o t)
<1> DEFINE m == Len(s)
           n == Len(t)
           r == s \o t
<1>1. s \in Seq(Messages) /\ t \in Seq(Messages) /\ Tidy(s) /\ Tidy(t)
  BY DEF Sound
<1>2. /\ m \in Nat /\ n \in Nat /\ r \in Seq(Messages) /\ Len(r) = m + n
      /\ \A i \in 1..m : r[i] = s[i]
      /\ \A i \in 1..n : r[m + i] = t[i]
  BY <1>1
<1>3. /\ \A i \in 1..m : Answered(s, i, Len(s[i].calls))
      /\ \A j \in 1..m : s[j].role = "tool" =>
            \E i \in 1..(j - 1) : j <= i + Len(s[i].calls)
  BY <1>1, PairedIs DEF Sound
<1>4. /\ \A i \in 1..n : Answered(t, i, Len(t[i].calls))
      /\ \A j \in 1..n : t[j].role = "tool" =>
            \E i \in 1..(j - 1) : j <= i + Len(t[i].calls)
  BY <1>1, PairedIs DEF Sound
<1>5. /\ \A i \in 1..m : Len(s[i].calls) \in Nat
      /\ \A i \in 1..n : Len(t[i].calls) \in Nat
  BY <1>1, CallsLength
<1>6. m = Len(s) /\ n = Len(t)
  OBVIOUS
<1> HIDE DEF r, m, n
<1>7. \A j \in 1..(m + n) : j \in 1..m \/ (j - m \in 1..n /\ j = m + (j - m))
  BY <1>2
<1>8. ASSUME NEW i \in 1..m PROVE Answered(r, i, Len(r[i].calls))
  <2> DEFINE q == Len(s[i].calls)
  <2>1. r[i] = s[i] /\ q \in Nat /\ Answered(s, i, q)
    BY <1>2, <1>3, <1>5
  <2> HIDE DEF q
  <2>2. i + q <= m
    BY <1>6, <2>1 DEF Answered
  <2>3. \A j \in (i + 1)..(i + q) : r[j] = s[j]
    BY <1>2, <2>1, <2>2
  <2>4. {r[j].answers : j \in (i + 1)..(i + q)} = {s[j].answers : j \in (i + 1)..(i + q)}
    BY <2>3
  <2>5. i + q <= m + n
    BY <1>2, <2>1, <2>2
  <2> QED
    BY <1>2, <2>1, <2>3, <2>4, <2>5 DEF Answered, q
<1>9. ASSUME NEW i \in 1..n PROVE Answered(r, m + i, Len(r[m + i].calls))
  <2> DEFINE q == Len(t[i].calls)
  <2>1. r[m + i] = t[i] /\ q \in Nat /\ Answered(t, i, q)
    BY <1>2, <1>4, <1>5
  <2> HIDE DEF q
  <2>2. i + q <= n
    BY <1>6, <2>1 DEF Answered
  <2>3. \A j \in (i + 1)..(i + q) : r[m + j] = t[j] /\ m + j \in (m + i + 1)..(m + i + q)
    BY <1>2, <2>1, <2>2
  <2>4. \A j \in (m + i + 1)..(m + i + q) : j - m \in (i + 1)..(i + q) /\ m + (j - m) = j
    BY <1>2, <2>1
  <2>5. \A j \in (m + i + 1)..(m + i + q) : r[j] = t[j - m]
    BY <2>3, <2>4
  <2>6. {r[j].answers : j \in (m + i + 1)..(m + i + q)} = {t[j].answers : j \in (i + 1)..(i + q)}
    BY <2>3, <2>4, <2>5
  <2>7. m + i + q <= m + n
    BY <1>2, <2>1, <2>2
  <2>8. \A j \in (m + i + 1)..(m + i + q) : r[j].role = "tool"
    BY <2>1, <2>4, <2>5 DEF Answered
  <2> QED
    BY <1>2, <2>1, <2>6, <2>7, <2>8 DEF Answered, q
<1>10. ASSUME NEW j \in 1..m, r[j].role = "tool"
       PROVE  \E i \in 1..(j - 1) : j <= i + Len(r[i].calls)
  <2>1. PICK i \in 1..(j - 1) : j <= i + Len(s[i].calls)
    BY <1>2, <1>3, <1>10
  <2>2. r[i] = s[i]
    BY <1>2, <2>1
  <2> QED
    BY <2>1, <2>2
<1>11. ASSUME NEW j \in 1..n, r[m + j].role = "tool"
       PROVE  \E i \in 1..((m + j) - 1) : m + j <= i + Len(r[i].calls)
  <2>1. PICK i \in 1..(j - 1) : j <= i + Len(t[i].calls)
    BY <1>2, <1>4, <1>11
  <2>2. i \in 1..n /\ r[m + i] = t[i] /\ Len(t[i].calls) \in Nat
    BY <1>2, <1>5, <2>1
  <2> DEFINE q == Len(t[i].calls)
  <2>3. q \in Nat /\ j <= i + q
    BY <2>1, <2>2
  <2> HIDE DEF q
  <2>4. m + i \in 1..((m + j) - 1) /\ m + j <= (m + i) + q
    BY <1>2, <2>1, <2>3
  <2> QED
    BY <2>2, <2>4 DEF q
<1>12. Paired(r)
  <2>1. \A i \in 1..Len(r) : Answered(r, i, Len(r[i].calls))
    BY <1>2, <1>7, <1>8, <1>9
  <2>2. ASSUME NEW j \in 1..Len(r), r[j].role = "tool"
        PROVE  \E i \in 1..(j - 1) : j <= i + Len(r[i].calls)
    <3>1. CASE j \in 1..m
      BY <1>10, <2>2, <3>1
    <3>2. CASE j - m \in 1..n /\ j = m + (j - m)
      BY <1>11, <2>2, <3>2
    <3> QED
      BY <1>2, <1>7, <3>1, <3>2
  <2> QED
    BY <1>2, <2>1, <2>2, PairedIs
<1>13. Tidy(r)
  <2>1. DOMAIN s = 1..m /\ DOMAIN t = 1..n /\ DOMAIN r = 1..(m + n)
    BY <1>1, <1>2, <1>6
  <2>2. ASSUME NEW j \in 1..(m + n), r[j].calls # <<>> PROVE r[j].role = "assistant"
    <3>1. CASE j \in 1..m
      BY <1>1, <1>2, <2>1, <2>2, <3>1 DEF Tidy
    <3>2. CASE j - m \in 1..n /\ j = m + (j - m)
      <4>1. r[j] = t[j - m]
        BY <1>2, <3>2
      <4> QED
        BY <1>1, <2>1, <2>2, <3>2, <4>1 DEF Tidy
    <3> QED
      BY <1>7, <3>1, <3>2
  <2> QED
    BY <2>1, <2>2 DEF Tidy
<1> QED
  BY <1>2, <1>12, <1>13 DEF Sound, r

\* In a sound list a unit is a message and one result per call.
LEMMA SoundUnit ==
    ASSUME NEW ms, Sound(ms), NEW i \in 1..Len(ms), ms[i].role # "tool"
    PROVE  /\ UnitEnd(ms, i) = i + Len(ms[i].calls)
           /\ UnitEnd(ms, i) \in i..Len(ms)
           /\ \A k \in (i + 1)..UnitEnd(ms, i) : ms[k].role = "tool"
           /\ UnitEnd(ms, i) < Len(ms) => ms[UnitEnd(ms, i) + 1].role # "tool"
<1> DEFINE e == UnitEnd(ms, i)
           n == Len(ms[i].calls)
<1>1. ms \in Seq(Messages) /\ Len(ms) \in Nat /\ Tidy(ms) /\ DOMAIN ms = 1..Len(ms)
  BY DEF Sound
<1>2. /\ \A k \in 1..Len(ms) : Answered(ms, k, Len(ms[k].calls))
      /\ \A k \in 1..Len(ms) : ms[k].role = "tool" =>
            \E j \in 1..(k - 1) : k <= j + Len(ms[j].calls)
  BY <1>1, PairedIs DEF Sound
<1>3. \A k \in 1..Len(ms) : /\ Len(ms[k].calls) \in Nat
                            /\ Len(ms[k].calls) = 0 <=> ms[k].calls = <<>>
  BY <1>1, CallsLength
<1>4. /\ e \in i..Len(ms)
      /\ ms[i].calls = <<>> => e = i
      /\ ms[i].calls # <<>> =>
            /\ \A k \in (i + 1)..e : ms[k].role = "tool"
            /\ e < Len(ms) => ms[e + 1].role # "tool"
  BY <1>1, UnitEndIs
<1>5. n \in Nat /\ i + n <= Len(ms) /\ \A k \in (i + 1)..(i + n) : ms[k].role = "tool"
  BY <1>2, <1>3 DEF Answered
<1>n. n = 0 <=> ms[i].calls = <<>>
  BY <1>3
<1> HIDE DEF e, n
<1>6. i + n < Len(ms) => ms[i + n + 1].role # "tool"
  <2> SUFFICES ASSUME i + n < Len(ms), ms[i + n + 1].role = "tool" PROVE FALSE
    OBVIOUS
  <2>1. i + n + 1 \in 1..Len(ms)
    BY <1>1, <1>5
  <2>2. PICK j \in 1..((i + n + 1) - 1) : i + n + 1 <= j + Len(ms[j].calls)
    BY <1>2, <2>1
  <2>3. j \in 1..Len(ms) /\ Len(ms[j].calls) \in Nat /\ j <= i + n
    BY <1>1, <1>3, <1>5, <2>1, <2>2
  <2>4. CASE j = i
    BY <1>5, <2>2, <2>4 DEF n
  <2>5. CASE j > i
    <3>1. ms[j].role = "tool"
      BY <1>5, <2>3, <2>5
    <3>2. ms[j].calls # <<>>
      BY <1>3, <1>5, <2>2, <2>3
    <3> QED
      BY <1>1, <2>3, <3>1, <3>2 DEF Tidy
  <2>6. CASE j < i
    <3>1. i \in (j + 1)..(j + Len(ms[j].calls))
      BY <1>5, <2>2, <2>3, <2>6
    <3> QED
      BY <1>2, <2>3, <3>1 DEF Answered
  <2> QED
    BY <2>3, <2>4, <2>5, <2>6
<1>7. e = i + n
  <2>1. CASE ms[i].calls = <<>>
    BY <1>4, <1>n, <2>1
  <2>2. CASE ms[i].calls # <<>>
    <3>1. ASSUME e < i + n PROVE FALSE
      <4>1. e < Len(ms) /\ e + 1 \in (i + 1)..(i + n)
        BY <1>1, <1>4, <1>5, <3>1
      <4> QED
        BY <1>4, <1>5, <2>2, <4>1
    <3>2. ASSUME e > i + n PROVE FALSE
      <4>1. i + n < Len(ms) /\ i + n + 1 \in (i + 1)..e
        BY <1>1, <1>4, <1>5, <3>2
      <4> QED
        BY <1>4, <1>6, <2>2, <4>1
    <3> QED
      BY <1>1, <1>4, <1>5, <3>1, <3>2
  <2> QED
    BY <2>1, <2>2
<1> QED
  BY <1>4, <1>5, <1>6, <1>7 DEF e, n

\* The results of the first calls of a message take those calls off the list
\* of what is waited for, one each.
LEMMA ResultsTake ==
    ASSUME NEW ms \in Seq(Messages), ValidateToolHistory(ms),
           NEW i \in 1..Len(ms), Pending(ms)[i - 1] = {}
    PROVE  Answered(ms, i, Len(ms[i].calls)) /\ Pending(ms)[i + Len(ms[i].calls)] = {}
<1> DEFINE P == Pending(ms)
           n == Len(ms[i].calls)
           C == ToSet(ms[i].calls)
           Got(j) == {ms[k].answers : k \in (i + 1)..(i + j)}
           T(j) == /\ i + j <= Len(ms) /\ IsFiniteSet(P[i + j]) /\ Cardinality(P[i + j]) = n - j
                   /\ \A k \in (i + 1)..(i + j) : ms[k].role = "tool"
                   /\ P[i + j] = C \ Got(j) /\ Got(j) \subseteq C
           S == {j \in 0..n : T(j)}
<1>1. /\ P \in [0..Len(ms) -> SUBSET Calls] /\ Len(ms) \in Nat
      /\ \A k \in 1..Len(ms) : P[k] = PendingAfter(P[k - 1], ms[k])
  BY PendingTable
<1>2. \A k \in 1..Len(ms) : ValidMessage(P[k - 1], ms[k])
  BY DEF ValidateToolHistory
<1>3. P[Len(ms)] = {}
  BY DEF ValidateToolHistory
<1>4. ms[i].calls \in Seq(Calls) /\ n \in Nat
  BY DEF Messages
<1>5. P[i] = C /\ IsInjective(ms[i].calls)
  BY <1>1, <1>2 DEF PendingAfter, ValidMessage
<1>6. IsFiniteSet(C) /\ Cardinality(C) = n
  <2>1. ms[i].calls \in Bijection(1..n, C)
    BY <1>4, <1>5 DEF Bijection, Injection, Surjection, ToSet
  <2>2. ExistsBijection(1..n, C)
    BY <2>1 DEF ExistsBijection
  <2> QED
    BY <1>4, <2>2, FS_NatBijection, FS_CountingElements
<1> HIDE DEF P, n, C
<1>7. 0 \in S
  <2>1. (i + 1)..(i + 0) = {} /\ i + 0 = i /\ n - 0 = n
    BY <1>4
  <2>2. Got(0) = {}
    BY <2>1
  <2>3. T(0)
    BY <1>1, <1>5, <1>6, <2>1, <2>2
  <2> HIDE DEF T
  <2> QED
    BY <1>4, <2>3
<1>8. ASSUME NEW j \in 1..n, j - 1 \in S PROVE j \in S
  <2> DEFINE k == i + j
  <2>1. k - 1 = i + (j - 1) /\ k \in Nat
    BY <1>4
  <2>2. T(j - 1)
    BY <1>8
  <2>3. Cardinality(P[k - 1]) = n - (j - 1) /\ IsFiniteSet(P[k - 1])
    BY <2>1, <2>2
  <2>4. P[k - 1] # {}
    BY <1>4, <2>3, FS_EmptySet
  <2>5. k \in 1..Len(ms) /\ k - 1 \in 0..Len(ms)
    <3>1. k - 1 <= Len(ms)
      BY <2>1, <2>2
    <3>2. k - 1 # Len(ms)
      BY <1>3, <2>4
    <3> QED
      BY <1>1, <1>4, <2>1, <3>1, <3>2
  <2>6. ms[k].role = "tool" /\ ms[k].answers \in P[k - 1] /\ P[k] = P[k - 1] \ {ms[k].answers}
    BY <1>1, <1>2, <2>4, <2>5 DEF ValidMessage, PendingAfter
  <2>7. IsFiniteSet(P[k]) /\ Cardinality(P[k]) = n - j
    <3>1. IsFiniteSet(P[k]) /\ Cardinality(P[k]) = (n - (j - 1)) - 1
      BY <2>3, <2>6, FS_RemoveElement
    <3> QED
      BY <1>4, <3>1
  <2>8. (i + 1)..k = ((i + 1)..(i + (j - 1))) \cup {k}
    BY <1>4, <2>1
  <2>9. Got(j) = Got(j - 1) \cup {ms[k].answers}
    BY <2>8
  <2>10. \A x \in (i + 1)..k : ms[x].role = "tool"
    BY <2>2, <2>6, <2>8
  <2>11. P[k - 1] = C \ Got(j - 1) /\ Got(j - 1) \subseteq C
    BY <2>1, <2>2
  <2>12. P[k] = C \ Got(j) /\ Got(j) \subseteq C
    <3> HIDE DEF Got
    <3> QED
      BY <2>6, <2>9, <2>11
  <2>13. T(j)
    <3> HIDE DEF Got
    <3> QED
      BY <2>5, <2>7, <2>10, <2>12
  <2> HIDE DEF T
  <2> QED
    BY <1>4, <2>13
<1>9. T(n)
  <2> HIDE DEF S
  <2>1. \A j \in 0..n : j \in S
    BY <1>4, <1>7, <1>8, Induct
  <2>2. n \in S
    BY <1>4, <2>1
  <2> HIDE DEF T
  <2> QED
    BY <2>2 DEF S
<1>10. P[i + n] = {}
  <2>1. IsFiniteSet(P[i + n]) /\ Cardinality(P[i + n]) = 0
    BY <1>4, <1>9
  <2> QED
    BY <2>1, FS_EmptySet
<1>11. Got(n) = C
  BY <1>9, <1>10
<1> QED
  BY <1>9, <1>10, <1>11 DEF Answered, P, C, n

\* A turn that validates is sound, and has nothing but questions, answers and
\* results.
LEMMA ValidIsSound ==
    ASSUME NEW ms \in Seq(Messages), ValidateToolHistory(ms)
    PROVE  Sound(ms) /\ \A i \in DOMAIN ms : ms[i].role \in {"user", "assistant", "tool"}
<1> DEFINE P == Pending(ms)
<1>1. /\ P \in [0..Len(ms) -> SUBSET Calls] /\ Len(ms) \in Nat /\ P[0] = {}
      /\ \A k \in 1..Len(ms) : P[k] = PendingAfter(P[k - 1], ms[k])
  BY PendingTable
<1>2. \A k \in 1..Len(ms) : ValidMessage(P[k - 1], ms[k])
  BY DEF ValidateToolHistory
<1>3. DOMAIN ms = 1..Len(ms)
  OBVIOUS
<1>4. \A i \in 1..Len(ms) : /\ Len(ms[i].calls) \in Nat
                            /\ Len(ms[i].calls) = 0 <=> ms[i].calls = <<>>
  BY CallsLength
<1>5. \A i \in 1..Len(ms) : P[i - 1] = {} =>
         Answered(ms, i, Len(ms[i].calls)) /\ P[i + Len(ms[i].calls)] = {}
  BY ResultsTake
<1> HIDE DEF P
<1>6. ASSUME NEW k \in 1..Len(ms), P[k - 1] # {}
      PROVE  \E i \in 1..(k - 1) : P[i - 1] = {} /\ k <= i + Len(ms[i].calls)
  <2> DEFINE T == {d \in 1..k : P[k - d] = {}}
  <2>1. T \subseteq Nat /\ k \in T
    BY <1>1
  <2>2. PICK d \in T : \A x \in T : d <= x
    BY <2>1, LeastNumber
  <2>3. d \in 1..k /\ P[k - d] = {} /\ d # 1
    BY <1>6, <2>2
  <2> DEFINE i == k - d + 1
             q == Len(ms[i].calls)
  <2>4. i \in 1..(k - 1) /\ i - 1 = k - d /\ i \in 1..Len(ms)
    BY <1>1, <2>3
  <2>5. P[i - 1] = {} /\ P[i + q] = {} /\ q \in Nat
    BY <1>4, <1>5, <2>3, <2>4
  <2> HIDE DEF q
  <2>6. k <= i + q
    <3> SUFFICES ASSUME i + q < k PROVE FALSE
      BY <2>4, <2>5
    <3>1. k - (i + q) \in 1..k /\ k - (k - (i + q)) = i + q /\ k - (i + q) < d
      BY <2>3, <2>4, <2>5
    <3>2. k - (i + q) \in T
      BY <2>5, <3>1
    <3> QED
      BY <2>2, <2>3, <3>1, <3>2
  <2> QED
    BY <2>4, <2>5, <2>6 DEF q
<1>7. ASSUME NEW k \in 1..Len(ms), ms[k].role = "tool"
      PROVE  \E i \in 1..(k - 1) : k <= i + Len(ms[i].calls)
  <2>1. P[k - 1] # {}
    BY <1>2, <1>7 DEF ValidMessage
  <2> QED
    BY <1>6, <2>1
<1>8. ASSUME NEW k \in 1..Len(ms) PROVE Answered(ms, k, Len(ms[k].calls))
  <2>1. CASE P[k - 1] = {}
    BY <1>5, <2>1
  <2>2. CASE P[k - 1] # {}
    <3>1. ms[k].calls = <<>>
      BY <1>2, <2>2 DEF ValidMessage
    <3>2. Len(ms[k].calls) = 0 /\ k + 0 <= Len(ms) /\ (k + 1)..(k + 0) = {}
      BY <1>1, <1>4, <3>1
    <3>3. ToSet(ms[k].calls) = {}
      BY <3>1 DEF ToSet
    <3> QED
      BY <3>2, <3>3 DEF Answered
  <2> QED
    BY <2>1, <2>2
<1>9. Paired(ms)
  BY <1>7, <1>8, PairedIs
<1>10. Tidy(ms)
  BY <1>2, <1>3 DEF Tidy, ValidMessage
<1>11. \A i \in 1..Len(ms) : ms[i].role \in {"user", "assistant", "tool"}
  BY <1>2 DEF ValidMessage
<1> QED
  BY <1>3, <1>9, <1>10, <1>11 DEF Sound

-----------------------------------------------------------------------------
(* loadHistory                                                              *)

\* A function on 1..n is a sequence of length n.
LEMMA FunctionIsSequence ==
    ASSUME NEW X, NEW n \in Nat, NEW f \in [1..n -> X]
    PROVE  f \in Seq(X) /\ Len(f) = n /\ DOMAIN f = 1..n
OBVIOUS

\* A concatenation, one part after the other.
IsFlattenTable(p, s, X) ==
    /\ p \in [0..Len(s) -> X]
    /\ p[0] = <<>> /\ FlattenSeq(s) = p[Len(s)]
    /\ \A i \in 1..Len(s) : p[i] = p[i - 1] \o s[i]

\* The partial results of FlattenSeq over parts from a set closed under \o.
LEMMA FlattenTable ==
    ASSUME NEW A, NEW X, X \subseteq Seq(A), <<>> \in X, \A x, y \in X : x \o y \in X,
           NEW s \in Seq(X)
    PROVE  \E p : IsFlattenTable(p, s, X)
<1> DEFINE n == Len(s)
           step == [i \in 1..n |-> [x \in X |-> x \o s[i]]]
           Table(f) == f = [i \in 1..n |-> IF i = 1 THEN s[i] ELSE f[i - 1] \o s[i]]
           flat[i \in 1..n] == IF i = 1 THEN s[i] ELSE flat[i - 1] \o s[i]
<1>1. n \in Nat /\ \A i \in 1..n : s[i] \in X
  OBVIOUS
<1>2. FlattenSeq(s) = IF n = 0 THEN s ELSE flat[n]
  BY DEF FlattenSeq
<1>s. n = 0 => s = <<>>
  OBVIOUS
<1>e. \A x \in X : <<>> \o x = x
  OBVIOUS
<1> HIDE DEF n
<1>3. step \in [1..n -> [X -> X]] /\ \A i \in 1..n, x \in X : step[i][x] = x \o s[i]
  BY <1>1
<1> HIDE DEF step
<1>4. PICK p : IsTable(p, n, X, <<>>, step)
  BY <1>1, <1>3, TableExists
<1>5. /\ p \in [0..n -> X] /\ p[0] = <<>>
      /\ \A i \in 1..n : p[i - 1] \in X /\ p[i] = p[i - 1] \o s[i]
  BY <1>1, <1>3, <1>4, Positions DEF IsTable
<1>f. 1 \in 1..n => p[1] = s[1]
  <2> SUFFICES ASSUME 1 \in 1..n PROVE p[1] = s[1]
    OBVIOUS
  <2>1. s[1] \in X
    BY <1>1
  <2>2. \A i \in 1..n : i = 1 => p[i] = p[0] \o s[i]
    <3>1. \A i \in 1..n : i = 1 => i - 1 = 0
      OBVIOUS
    <3> QED
      BY <1>5, <3>1
  <2> QED
    BY <1>5, <1>e, <2>1, <2>2
<1> DEFINE g == [i \in 1..n |-> p[i]]
<1>6. \A i \in 1..n : g[i] = IF i = 1 THEN s[i] ELSE g[i - 1] \o s[i]
  <2> SUFFICES ASSUME NEW i \in 1..n PROVE g[i] = IF i = 1 THEN s[i] ELSE g[i - 1] \o s[i]
    OBVIOUS
  <2>1. CASE i = 1
    BY <1>f, <2>1
  <2>2. CASE i # 1
    <3>1. i - 1 \in 1..n
      BY <1>1, <2>2
    <3> QED
      BY <1>5, <2>2, <3>1
  <2> QED
    BY <2>1, <2>2
<1>7. Table(g)
  <2>1. g = [i \in 1..n |-> g[i]]
    OBVIOUS
  <2> HIDE DEF g
  <2> QED
    BY <1>6, <2>1
<1> HIDE DEF g
<1>8. Table(flat)
  BY <1>7
<1> HIDE DEF flat
<1>9. \A i \in 1..n : flat[i] = IF i = 1 THEN s[i] ELSE flat[i - 1] \o s[i]
  BY <1>8
<1> DEFINE S == {i \in 0..n : i > 0 => flat[i] = p[i]}
<1>10. \A i \in 0..n : i \in S
  <2>1. 0 \in S
    BY <1>1
  <2>2. ASSUME NEW i \in 1..n, i - 1 \in S PROVE i \in S
    <3>1. i \in 0..n
      BY <1>1
    <3>2. CASE i = 1
      BY <1>9, <1>f, <3>1, <3>2
    <3>3. CASE i # 1
      <4>1. i - 1 > 0
        BY <1>1, <3>3
      <4>2. flat[i - 1] = p[i - 1]
        BY <2>2, <4>1
      <4> QED
        BY <1>5, <1>9, <3>1, <3>3, <4>2
    <3> QED
      BY <3>2, <3>3
  <2> HIDE DEF S
  <2> QED
    BY <1>1, <2>1, <2>2, Induct
<1>11. FlattenSeq(s) = p[n]
  <2>1. n = 0 \/ (n > 0 /\ n \in 0..n)
    BY <1>1
  <2> QED
    BY <1>2, <1>5, <1>10, <1>s, <2>1
<1> QED
  BY <1>5, <1>11 DEF IsFlattenTable, n

\* Parts from a set closed under \o flatten into it.
LEMMA FlattenIn ==
    ASSUME NEW A, NEW X, X \subseteq Seq(A), <<>> \in X, \A x, y \in X : x \o y \in X,
           NEW s \in Seq(X)
    PROVE  FlattenSeq(s) \in X
<1>1. PICK p : IsFlattenTable(p, s, X)
  BY FlattenTable
<1> QED
  BY <1>1 DEF IsFlattenTable

\* What is replayed: sound, and only questions, answers and results.
Replayable ==
    {ms \in Seq(Messages) :
        Sound(ms) /\ \A i \in DOMAIN ms : ms[i].role \in {"user", "assistant", "tool"}}

\* Two histories after one another are a history.
LEMMA ReplayableConcat ==
    /\ <<>> \in Replayable
    /\ \A x, y \in Replayable : x \o y \in Replayable
<1>1. <<>> \in Replayable
  <2>1. <<>> \in Seq(Messages) /\ Len(<<>>) = 0 /\ DOMAIN <<>> = {}
    OBVIOUS
  <2>2. Paired(<<>>)
    BY <2>1 DEF Paired
  <2> QED
    BY <2>1, <2>2 DEF Replayable, Sound, Tidy
<1>2. ASSUME NEW x \in Replayable, NEW y \in Replayable PROVE x \o y \in Replayable
  <2>1. Sound(x) /\ Sound(y) /\ x \in Seq(Messages) /\ y \in Seq(Messages)
    BY DEF Replayable
  <2>2. Sound(x \o y)
    BY <2>1, SoundConcat
  <2>3. ASSUME NEW i \in 1..(Len(x) + Len(y))
        PROVE  (x \o y)[i].role \in {"user", "assistant", "tool"}
    <3>1. CASE i \in 1..Len(x)
      <4>1. (x \o y)[i] = x[i] /\ i \in DOMAIN x
        BY <2>1, <3>1
      <4> QED
        BY <4>1 DEF Replayable
    <3>2. CASE i \notin 1..Len(x)
      <4>1. (x \o y)[i] = y[i - Len(x)] /\ i - Len(x) \in DOMAIN y
        BY <2>1, <3>2
      <4> QED
        BY <4>1 DEF Replayable
    <3> QED
      BY <3>1, <3>2
  <2>4. DOMAIN (x \o y) = 1..(Len(x) + Len(y)) /\ x \o y \in Seq(Messages)
    BY <2>1
  <2> QED
    BY <2>2, <2>3, <2>4 DEF Replayable
<1> QED
  BY <1>1, <1>2

\* A turn is replayed validated or not at all.
LEMMA TurnIsReplayable ==
    ASSUME NEW rs \in Seq(Rows)
    PROVE  TurnMessages(rs) \in Replayable /\ HistoryMessages(rs) \in Seq(Messages)
<1> DEFINE I == {i \in DOMAIN rs : /\ IsDurableMessage(rs[i])
                                   /\ ~ShouldSkipEmptyAssistant(rs[i].msg)}
           kept == Picked(rs, I)
<1>1. kept \in Seq(Rows)
  BY PickedIs
<1>2. HistoryMessages(rs) = [i \in DOMAIN kept |-> kept[i].msg]
  BY DEF HistoryMessages
<1> HIDE DEF kept
<1>3. HistoryMessages(rs) \in Seq(Messages)
  <2>a. \A r \in Rows : r.msg \in Messages
    BY DEF Rows
  <2>1. Len(kept) \in Nat /\ DOMAIN kept = 1..Len(kept) /\ \A i \in 1..Len(kept) : kept[i].msg \in Messages
    BY <1>1, <2>a
  <2> QED
    BY <1>2, <2>1, FunctionIsSequence
<1>4. TurnMessages(rs) \in Replayable
  <2>1. CASE TurnMessages(rs) = <<>>
    BY <2>1, ReplayableConcat
  <2>2. CASE TurnMessages(rs) # <<>>
    <3>1. TurnMessages(rs) = HistoryMessages(rs) /\ ValidateToolHistory(HistoryMessages(rs))
      BY <2>2 DEF TurnMessages
    <3> QED
      BY <1>3, <3>1, ValidIsSound DEF Replayable
  <2> QED
    BY <2>1, <2>2
<1> QED
  BY <1>3, <1>4

\* The groups are lists of the rows.
LEMMA GroupsAreRows ==
    ASSUME NEW rs \in Seq(Rows)
    PROVE  GroupHistoryRows(rs) \in Seq(Seq(Rows))
<1> DEFINE firsts == {i \in DOMAIN rs : \A j \in 1..(i - 1) : rs[j].msg.turn # rs[i].msg.turn}
           leads == Picked(rs, firsts)
           G(k) == Picked(rs, {i \in DOMAIN rs : rs[i].msg.turn = leads[k].msg.turn})
<1>1. leads \in Seq(Rows)
  BY PickedIs
<1>2. \A k : G(k) \in Seq(Rows)
  BY PickedIs
<1>3. GroupHistoryRows(rs) = [k \in DOMAIN leads |-> G(k)]
  BY DEF GroupHistoryRows
<1> HIDE DEF leads, G
<1>4. DOMAIN leads = 1..Len(leads) /\ Len(leads) \in Nat
  BY <1>1
<1>5. GroupHistoryRows(rs) \in [1..Len(leads) -> Seq(Rows)]
  BY <1>2, <1>3, <1>4
<1> QED
  BY <1>4, <1>5, FunctionIsSequence

\* loadHistory: what it returns is sound, whatever the table holds.
LEMMA HistoryIsReplayable ==
    ASSUME NEW rs \in Seq(Rows)
    PROVE  LoadHistory(rs) \in Replayable
<1> DEFINE cs == Picked(rs, {i \in DOMAIN rs : rs[i].complete})
           turns == GroupHistoryRows(cs)
           parts == [i \in DOMAIN turns |-> TurnMessages(turns[i])]
<1>1. cs \in Seq(Rows)
  BY PickedIs
<1>2. LoadHistory(rs) = FlattenSeq(parts)
  BY DEF LoadHistory
<1> HIDE DEF cs
<1>3. turns \in Seq(Seq(Rows))
  BY <1>1, GroupsAreRows
<1> HIDE DEF turns
<1>4. DOMAIN turns = 1..Len(turns) /\ Len(turns) \in Nat /\ \A i \in 1..Len(turns) : turns[i] \in Seq(Rows)
  BY <1>3
<1>5. parts \in [1..Len(turns) -> Replayable]
  BY <1>4, TurnIsReplayable
<1> HIDE DEF parts
<1>6. parts \in Seq(Replayable)
  BY <1>4, <1>5, FunctionIsSequence
<1>7. Replayable \subseteq Seq(Messages)
  BY DEF Replayable
<1> QED
  BY <1>2, <1>6, <1>7, ReplayableConcat, FlattenIn

-----------------------------------------------------------------------------
(* selectPromptHistory                                                      *)

\* A step of HistoryUnits.
ScanStep(acc, ms, i) ==
    IF i <= acc.end \/ ms[i].origin = "injection" THEN acc
    ELSE [end |-> UnitEnd(ms, i),
          units |-> Append(acc.units, SubSeq(ms, i, UnitEnd(ms, i)))]

\* p[i] is what HistoryUnits knows after i messages.
IsScanTable(p, ms) ==
    /\ p \in [0..Len(ms) -> [end : Nat, units : Seq(Seq(Messages))]]
    /\ p[0] = [end |-> 0, units |-> <<>>] /\ HistoryUnits(ms) = p[Len(ms)].units
    /\ \A i \in 1..Len(ms) : p[i] = ScanStep(p[i - 1], ms, i)

\* The steps of the scan for units.
LEMMA ScanTable ==
    ASSUME NEW ms \in Seq(Messages)
    PROVE  \E p : IsScanTable(p, ms)
<1> DEFINE n == Len(ms)
           X == [end : Nat, units : Seq(Seq(Messages))]
           first == [end |-> 0, units |-> <<>>]
           step == [i \in 1..n |-> [x \in X |-> ScanStep(x, ms, i)]]
           Table(f) == f = [i \in 0..n |-> IF i = 0 THEN first ELSE ScanStep(f[i - 1], ms, i)]
           scan[i \in 0..n] == IF i = 0 THEN first ELSE ScanStep(scan[i - 1], ms, i)
<1>1. n \in Nat /\ first \in X
  OBVIOUS
<1>2. ASSUME NEW i \in 1..n, NEW x \in X PROVE ScanStep(x, ms, i) \in X
  <2>1. UnitEnd(ms, i) \in i..n
    BY UnitEndIs
  <2>2. UnitEnd(ms, i) \in Nat /\ SubSeq(ms, i, UnitEnd(ms, i)) \in Seq(Messages)
    BY <2>1
  <2> QED
    BY <2>2 DEF ScanStep
<1>3. HistoryUnits(ms) = scan[n].units
  BY DEF HistoryUnits, ScanStep
<1> HIDE DEF n, X, first
<1>4. step \in [1..n -> [X -> X]] /\ \A i \in 1..n, x \in X : step[i][x] = ScanStep(x, ms, i)
  BY <1>1, <1>2
<1> HIDE DEF step
<1>5. PICK f : IsTable(f, n, X, first, step)
  BY <1>1, <1>4, TableExists
<1>6. f \in [0..n -> X] /\ \A i \in 0..n : f[i] = IF i = 0 THEN first ELSE ScanStep(f[i - 1], ms, i)
  BY <1>1, <1>4, <1>5, Positions DEF IsTable
<1>7. Table(f)
  BY <1>6
<1>8. Table(scan)
  BY <1>7
<1> HIDE DEF scan
<1>9. \A i \in 0..n : scan[i] = IF i = 0 THEN first ELSE ScanStep(scan[i - 1], ms, i)
  BY <1>8
<1>10. scan[0] = first /\ \A i \in 1..n : scan[i] = ScanStep(scan[i - 1], ms, i)
  BY <1>1, <1>9, Positions
<1>11. \A i \in 0..n : scan[i] \in X
  <2>1. \A i \in 1..n : scan[i - 1] \in X => scan[i] \in X
    BY <1>2, <1>10
  <2> QED
    BY <1>1, <1>10, <2>1, Stays
<1>12. scan \in [0..n -> X]
  BY <1>8, <1>11
<1> QED
  BY <1>3, <1>10, <1>12 DEF n, X, first, IsScanTable

\* The list may be cut after its first k messages: no result comes next.
IsCut(ms, k) == k < Len(ms) => ms[k + 1].role # "tool"

\* The units us of the first e messages, by where each ends.
IsUnits(st, us, ms, e) ==
    /\ st \in [0..Len(us) -> 0..e]
    /\ st[0] = 0 /\ st[Len(us)] = e
    /\ \A j \in 1..Len(us) : st[j - 1] < st[j] /\ us[j] = SubSeq(ms, st[j - 1] + 1, st[j])
    /\ \A k \in 0..e : IsCut(ms, k) <=> \E j \in 0..Len(us) : st[j] = k

\* One more unit after those before it.
LEMMA UnitsExtend ==
    ASSUME NEW ms \in Seq(Messages), NEW us \in Seq(Seq(Messages)), NEW st,
           NEW e \in Nat, NEW f \in Nat, e < f, f <= Len(ms), IsUnits(st, us, ms, e),
           \A k \in (e + 1)..(f - 1) : ms[k + 1].role = "tool", IsCut(ms, f)
    PROVE  \E tt : IsUnits(tt, Append(us, SubSeq(ms, e + 1, f)), ms, f)
<1> DEFINE n == Len(us)
           vs == Append(us, SubSeq(ms, e + 1, f))
           tt == [j \in 0..(n + 1) |-> IF j = n + 1 THEN f ELSE st[j]]
<1>1. n \in Nat /\ Len(vs) = n + 1 /\ vs[n + 1] = SubSeq(ms, e + 1, f) /\ \A j \in 1..n : vs[j] = us[j]
  OBVIOUS
<1>2. /\ st \in [0..n -> 0..e] /\ st[0] = 0 /\ st[n] = e
      /\ \A j \in 1..n : st[j - 1] < st[j] /\ us[j] = SubSeq(ms, st[j - 1] + 1, st[j])
      /\ \A k \in 0..e : IsCut(ms, k) <=> \E j \in 0..n : st[j] = k
  BY DEF IsUnits
<1> HIDE DEF vs, n
<1>3. tt \in [0..(n + 1) -> 0..f] /\ tt[n + 1] = f /\ \A j \in 0..n : tt[j] = st[j]
  BY <1>1, <1>2
<1> HIDE DEF tt
<1>4. tt[0] = 0
  BY <1>1, <1>2, <1>3
<1>5. ASSUME NEW j \in 1..(n + 1)
      PROVE  tt[j - 1] < tt[j] /\ vs[j] = SubSeq(ms, tt[j - 1] + 1, tt[j])
  <2>1. CASE j = n + 1
    <3>1. (n + 1) - 1 = n /\ n \in 0..n
      BY <1>1
    <3> QED
      BY <1>1, <1>2, <1>3, <2>1, <3>1
  <2>2. CASE j # n + 1
    <3>1. j \in 1..n /\ j \in 0..n /\ j - 1 \in 0..n
      BY <1>1, <2>2
    <3> QED
      BY <1>1, <1>2, <1>3, <3>1
  <2> QED
    BY <2>1, <2>2
<1>6. ASSUME NEW k \in 0..f
      PROVE  IsCut(ms, k) <=> \E j \in 0..(n + 1) : tt[j] = k
  <2>0. \A j \in 0..(n + 1) : j \in 0..n \/ j = n + 1
    BY <1>1
  <2>9. \A j \in 0..n : j \in 0..(n + 1)
    BY <1>1
  <2>1. CASE k \in 0..e
    <3>1. ASSUME IsCut(ms, k) PROVE \E j \in 0..(n + 1) : tt[j] = k
      <4>1. PICK j \in 0..n : st[j] = k
        BY <1>2, <2>1, <3>1
      <4> QED
        BY <1>3, <2>9, <4>1
    <3>2. ASSUME NEW j \in 0..(n + 1), tt[j] = k PROVE IsCut(ms, k)
      <4>1. j \in 0..n
        BY <1>3, <2>0, <2>1, <3>2
      <4> QED
        BY <1>2, <1>3, <2>1, <3>2, <4>1
    <3> QED
      BY <3>1, <3>2
  <2>2. CASE k \in (e + 1)..(f - 1)
    <3>1. ~IsCut(ms, k)
      BY <2>2 DEF IsCut
    <3>2. ASSUME NEW j \in 0..(n + 1), tt[j] = k PROVE FALSE
      <4>1. CASE j \in 0..n
        <5>1. st[j] \in 0..e
          BY <1>2, <4>1
        <5> QED
          BY <1>3, <2>2, <3>2, <4>1, <5>1
      <4>2. CASE j = n + 1
        BY <1>3, <2>2, <3>2, <4>2
      <4> QED
        BY <2>0, <4>1, <4>2
    <3> QED
      BY <3>1, <3>2
  <2>3. CASE k = f
    <3>1. n + 1 \in 0..(n + 1)
      BY <1>1
    <3> QED
      BY <1>3, <2>3, <3>1
  <2> QED
    BY <2>1, <2>2, <2>3
<1>7. IsUnits(tt, vs, ms, f)
  BY <1>1, <1>3, <1>4, <1>5, <1>6 DEF IsUnits
<1> QED
  BY <1>7 DEF vs

\* A history holds no injection: those are system messages.
LEMMA NoInjection ==
    ASSUME NEW ms \in Replayable
    PROVE  \A i \in 1..Len(ms) : ms[i].origin # "injection"
<1>1. ms \in Seq(Messages) /\ DOMAIN ms = 1..Len(ms)
  BY DEF Replayable
<1>2. \A i \in 1..Len(ms) : ms[i] \in Messages /\ ms[i].role \in {"user", "assistant", "tool"}
  BY <1>1 DEF Replayable
<1>3. \A m \in Messages : m.origin = "injection" => m.role = "system"
  BY DEF Messages
<1> QED
  BY <1>2, <1>3

\* The units of a history are what lies between its cuts.
LEMMA UnitsAre ==
    ASSUME NEW ms \in Replayable
    PROVE  HistoryUnits(ms) \in Seq(Seq(Messages)) /\ \E st : IsUnits(st, HistoryUnits(ms), ms, Len(ms))
<1>1. ms \in Seq(Messages) /\ Len(ms) \in Nat /\ Sound(ms)
  BY DEF Replayable
<1>2. PICK p : IsScanTable(p, ms)
  BY <1>1, ScanTable
<1>3. /\ p \in [0..Len(ms) -> [end : Nat, units : Seq(Seq(Messages))]]
      /\ p[0] = [end |-> 0, units |-> <<>>] /\ HistoryUnits(ms) = p[Len(ms)].units
      /\ \A i \in 1..Len(ms) : p[i] = ScanStep(p[i - 1], ms, i)
  BY <1>2 DEF IsScanTable
<1> DEFINE Good(i) == p[i].end \in i..Len(ms) /\ \E st : IsUnits(st, p[i].units, ms, p[i].end)
           S == {i \in 0..Len(ms) : Good(i)}
<1>4. 0 \in S
  <2>1. p[0].end = 0 /\ p[0].units = <<>> /\ Len(<<>>) = 0
    BY <1>3
  <2>2. IsCut(ms, 0)
    <3> SUFFICES ASSUME 0 < Len(ms), ms[1].role = "tool" PROVE FALSE
      BY <1>1 DEF IsCut
    <3>1. 1 \in 1..Len(ms)
      BY <1>1
    <3>2. \E i \in 1..(1 - 1) : 1 <= i + Len(ms[i].calls)
      BY <1>1, <3>1, PairedIs DEF Sound
    <3> QED
      BY <3>2
  <2>3. IsUnits([j \in 0..0 |-> 0], <<>>, ms, 0)
    BY <2>1, <2>2 DEF IsUnits
  <2>4. Good(0)
    BY <1>1, <2>1, <2>3
  <2> HIDE DEF Good
  <2> QED
    BY <1>1, <2>4
<1>5. ASSUME NEW i \in 1..Len(ms), i - 1 \in S PROVE i \in S
  <2>1. Good(i - 1) /\ i \in 0..Len(ms) /\ i - 1 \in 0..Len(ms)
    BY <1>1, <1>5
  <2>2. PICK st : IsUnits(st, p[i - 1].units, ms, p[i - 1].end)
    BY <2>1
  <2>3. p[i - 1].units \in Seq(Seq(Messages)) /\ p[i - 1].end \in (i - 1)..Len(ms)
    BY <1>3, <2>1
  <2>4. CASE i <= p[i - 1].end
    <3>1. p[i] = p[i - 1]
      BY <1>3, <2>4 DEF ScanStep
    <3>2. Good(i)
      BY <1>1, <2>2, <2>3, <2>4, <3>1
    <3> HIDE DEF Good
    <3> QED
      BY <2>1, <3>2
  <2>5. CASE ~(i <= p[i - 1].end)
    <3> DEFINE f == UnitEnd(ms, i)
               us == p[i - 1].units
    <3>1. p[i - 1].end = i - 1
      BY <1>1, <2>3, <2>5
    <3>2. ms[i].role # "tool"
      <4>1. i - 1 \in 0..(i - 1) /\ Len(us) \in Nat /\ Len(us) \in 0..Len(us)
        BY <2>3
      <4>2. IsCut(ms, i - 1)
        BY <2>2, <3>1, <4>1 DEF IsUnits
      <4> QED
        BY <1>1, <4>2 DEF IsCut
    <3>3. /\ f \in i..Len(ms) /\ \A k \in (i + 1)..f : ms[k].role = "tool"
          /\ f < Len(ms) => ms[f + 1].role # "tool"
      BY <1>1, <3>2, SoundUnit
    <3>4. p[i] = [end |-> f, units |-> Append(us, SubSeq(ms, i, f))]
      BY <1>3, <2>5, NoInjection DEF ScanStep
    <3> HIDE DEF f, us
    <3>5. IsUnits(st, us, ms, i - 1)
      BY <2>2, <3>1 DEF us
    <3>6. \A k \in ((i - 1) + 1)..(f - 1) : ms[k + 1].role = "tool"
      BY <3>3
    <3>7. IsCut(ms, f) /\ i - 1 \in Nat /\ f \in Nat /\ i - 1 < f /\ f <= Len(ms) /\ (i - 1) + 1 = i
      BY <1>1, <3>3 DEF IsCut
    <3>8. \E tt : IsUnits(tt, Append(us, SubSeq(ms, (i - 1) + 1, f)), ms, f)
      BY <1>1, <2>3, <3>5, <3>6, <3>7, UnitsExtend DEF us
    <3>9. Good(i)
      BY <3>3, <3>4, <3>7, <3>8
    <3> HIDE DEF Good
    <3> QED
      BY <2>1, <3>9
  <2> QED
    BY <2>4, <2>5
<1>6. Good(Len(ms))
  <2>1. \A i \in 0..Len(ms) : i \in S
    <3> HIDE DEF S
    <3> QED
      BY <1>1, <1>4, <1>5, Induct
  <2>2. Len(ms) \in S
    BY <1>1, <2>1
  <2> HIDE DEF Good
  <2> QED
    BY <2>2
<1>7. p[Len(ms)].end = Len(ms) /\ p[Len(ms)].units \in Seq(Seq(Messages))
  BY <1>1, <1>3, <1>6
<1> QED
  BY <1>3, <1>6, <1>7

\* The ends of the units grow.
LEMMA UnitsGrow ==
    ASSUME NEW ms, NEW us \in Seq(Seq(Messages)), NEW e \in Nat, NEW st, IsUnits(st, us, ms, e)
    PROVE  \A i, j \in 0..Len(us) : i < j => st[i] < st[j]
<1> DEFINE n == Len(us)
           S == {j \in 0..n : \A i \in 0..n : i < j => st[i] < st[j]}
<1>1. n \in Nat
  OBVIOUS
<1>2. st \in [0..n -> 0..e] /\ \A j \in 1..n : st[j - 1] < st[j]
  BY DEF IsUnits
<1> HIDE DEF n
<1>3. 0 \in S
  BY <1>1
<1>4. ASSUME NEW j \in 1..n, j - 1 \in S PROVE j \in S
  <2> SUFFICES ASSUME NEW i \in 0..n, i < j PROVE st[i] < st[j]
    BY <1>1
  <2>1. j - 1 \in 0..n /\ j \in 0..n /\ st[j - 1] < st[j]
    BY <1>1, <1>2
  <2>2. st[i] \in Nat /\ st[j - 1] \in Nat /\ st[j] \in Nat
    BY <1>2, <2>1
  <2>3. CASE i = j - 1
    BY <2>1, <2>3
  <2>4. CASE i < j - 1
    <3>1. st[i] < st[j - 1]
      BY <1>4, <2>4
    <3> QED
      BY <2>1, <2>2, <3>1
  <2> QED
    BY <1>1, <2>3, <2>4
<1>5. \A j \in 0..n : j \in S
  <2> HIDE DEF S
  <2> QED
    BY <1>1, <1>3, <1>4, Induct
<1> QED
  BY <1>5 DEF n

\* The end of a list after k messages.
From(ms, k) == SubSeq(ms, k + 1, Len(ms))

\* The ends of a list, their lengths and tokens.
LEMMA FromIs ==
    ASSUME NEW ms \in Seq(Messages), NEW k \in 0..Len(ms), NEW l \in 0..Len(ms), k <= l
    PROVE  /\ From(ms, k) \in Seq(Messages) /\ Len(From(ms, k)) = Len(ms) - k
           /\ From(ms, k) = SubSeq(ms, k + 1, l) \o From(ms, l)
           /\ From(ms, Len(ms)) = <<>>
           /\ Total(From(ms, l)) <= Total(From(ms, k))
           /\ Total(From(ms, k)) \in Nat
<1> DEFINE s == SubSeq(ms, k + 1, l)
           t == From(ms, l)
<1>1. Len(ms) \in Nat
  OBVIOUS
<1>2. s \in Seq(Messages) /\ Len(s) = l - k /\ \A i \in 1..(l - k) : s[i] = ms[k + i]
  BY <1>1
<1>3. t \in Seq(Messages) /\ Len(t) = Len(ms) - l /\ \A i \in 1..(Len(ms) - l) : t[i] = ms[l + i]
  BY <1>1 DEF From
<1>4. From(ms, k) \in Seq(Messages) /\ Len(From(ms, k)) = Len(ms) - k /\ \A i \in 1..(Len(ms) - k) : From(ms, k)[i] = ms[k + i]
  BY <1>1 DEF From
<1> HIDE DEF s, t
<1>5. s \o t \in Seq(Messages) /\ Len(s \o t) = Len(ms) - k
  <2>1. s \o t \in Seq(Messages) /\ Len(s \o t) = Len(s) + Len(t)
    BY <1>2, <1>3
  <2> QED
    BY <1>1, <1>2, <1>3, <2>1
<1>6. \A i \in 1..(Len(ms) - k) : (s \o t)[i] = From(ms, k)[i]
  <2> SUFFICES ASSUME NEW i \in 1..(Len(ms) - k) PROVE (s \o t)[i] = From(ms, k)[i]
    OBVIOUS
  <2>1. CASE i <= l - k
    <3>1. i \in 1..(l - k)
      BY <1>1, <2>1
    <3>2. (s \o t)[i] = s[i]
      BY <1>2, <1>3, <1>5, <3>1
    <3> QED
      BY <1>2, <1>4, <3>1, <3>2
  <2>2. CASE i > l - k
    <3>1. i - (l - k) \in 1..(Len(ms) - l) /\ l + (i - (l - k)) = k + i
      BY <1>1, <2>2
    <3>2. (s \o t)[i] = t[i - (l - k)]
      BY <1>1, <1>2, <1>3, <1>5, <2>2
    <3> QED
      BY <1>3, <1>4, <3>1, <3>2
  <2>3. i <= l - k \/ i > l - k
    BY <1>1
  <2> QED
    BY <2>1, <2>2, <2>3
<1>7. From(ms, k) = s \o t
  BY <1>4, <1>5, <1>6, SeqEqual
<1>8. Total(From(ms, k)) = Total(s) + Total(t) /\ Total(s) \in Nat /\ Total(t) \in Nat
  BY <1>2, <1>3, <1>7, TotalConcat
<1>9. From(ms, Len(ms)) = <<>>
  BY <1>1 DEF From
<1> QED
  BY <1>4, <1>7, <1>8, <1>9 DEF s, t

\* What SelectPromptHistory knows between two units.
Selections == [kept : Seq(Messages), full : BOOLEAN, omittedTurns : Nat, omittedMessages : Nat]

NothingSelected ==
    [kept |-> <<>>, full |-> FALSE, omittedTurns |-> 0, omittedMessages |-> 0]

\* A step of SelectPromptHistory.
SelectStep(acc, unit, q, b) ==
    IF acc.full \/ PromptTokenCount(unit \o acc.kept, q) > b
    THEN [acc EXCEPT !.full = TRUE, !.omittedTurns = @ + 1, !.omittedMessages = @ + Len(unit)]
    ELSE [acc EXCEPT !.kept = unit \o @]

\* p[i] is what SelectPromptHistory knows after the i newest units.
IsSelectTable(p, us, q, b) ==
    /\ p \in [0..Len(us) -> Selections] /\ p[0] = NothingSelected
    /\ \A i \in 1..Len(us) : p[i] = SelectStep(p[i - 1], us[Len(us) - i + 1], q, b)

\* The steps of the selection.
LEMMA SelectTable ==
    ASSUME NEW ms, HistoryUnits(ms) \in Seq(Seq(Messages)), NEW q, NEW b
    PROVE  \E p : /\ IsSelectTable(p, HistoryUnits(ms), q, b)
                  /\ LET all == p[Len(HistoryUnits(ms))] IN
                     SelectPromptHistory(ms, q, b) =
                        [history |-> all.kept, budget |-> b,
                         omittedTurns |-> all.omittedTurns,
                         omittedMessages |-> all.omittedMessages,
                         retainedTurns |-> Len(HistoryUnits(all.kept)),
                         retainedMessages |-> Len(all.kept)]
<1> DEFINE us == HistoryUnits(ms)
           n == Len(us)
           step == [i \in 1..n |-> [x \in Selections |-> SelectStep(x, us[n - i + 1], q, b)]]
           Table(f) == f = [i \in 0..n |-> IF i = 0 THEN NothingSelected
                                           ELSE SelectStep(f[i - 1], us[n - i + 1], q, b)]
           sel[i \in 0..n] == IF i = 0 THEN NothingSelected
                              ELSE SelectStep(sel[i - 1], us[n - i + 1], q, b)
           Result(all) == [history |-> all.kept, budget |-> b,
                           omittedTurns |-> all.omittedTurns,
                           omittedMessages |-> all.omittedMessages,
                           retainedTurns |-> Len(HistoryUnits(all.kept)),
                           retainedMessages |-> Len(all.kept)]
<1>1. n \in Nat /\ \A i \in 1..n : us[n - i + 1] \in Seq(Messages)
  OBVIOUS
<1>2. NothingSelected \in Selections
  BY DEF NothingSelected, Selections
<1>3. ASSUME NEW i \in 1..n, NEW x \in Selections
      PROVE  SelectStep(x, us[n - i + 1], q, b) \in Selections
  <2> DEFINE u == us[n - i + 1]
  <2>1. u \in Seq(Messages)
    BY <1>1
  <2> HIDE DEF u
  <2>2. Len(u) \in Nat /\ u \o x.kept \in Seq(Messages)
    BY <2>1 DEF Selections
  <2>4. /\ x.kept \in Seq(Messages) /\ x.full \in BOOLEAN
        /\ x.omittedTurns + 1 \in Nat /\ x.omittedMessages + Len(u) \in Nat
    BY <2>2 DEF Selections
  <2>3. SelectStep(x, u, q, b) \in Selections
    <3>1. CASE x.full \/ PromptTokenCount(u \o x.kept, q) > b
      BY <2>4, <3>1 DEF SelectStep, Selections
    <3>2. CASE ~(x.full \/ PromptTokenCount(u \o x.kept, q) > b)
      BY <2>2, <2>4, <3>2 DEF SelectStep, Selections
    <3> QED
      BY <3>1, <3>2
  <2> QED
    BY <2>3 DEF u
<1>4. SelectPromptHistory(ms, q, b) = Result(sel[n])
  BY DEF SelectPromptHistory, SelectStep, NothingSelected
<1> HIDE DEF Result, us, n
<1>5. step \in [1..n -> [Selections -> Selections]] /\ \A i \in 1..n, x \in Selections : step[i][x] = SelectStep(x, us[n - i + 1], q, b)
  BY <1>1, <1>3
<1> HIDE DEF step
<1>6. PICK f : IsTable(f, n, Selections, NothingSelected, step)
  BY <1>1, <1>2, <1>5, TableExists
<1>7. f \in [0..n -> Selections] /\ \A i \in 0..n : f[i] = IF i = 0 THEN NothingSelected ELSE SelectStep(f[i - 1], us[n - i + 1], q, b)
  BY <1>1, <1>5, <1>6, Positions DEF IsTable
<1>8. Table(f)
  BY <1>7
<1>9. Table(sel)
  BY <1>8
<1> HIDE DEF sel
<1>10. \A i \in 0..n : sel[i] = IF i = 0 THEN NothingSelected ELSE SelectStep(sel[i - 1], us[n - i + 1], q, b)
  BY <1>9
<1>11. sel[0] = NothingSelected /\ \A i \in 1..n : sel[i] = SelectStep(sel[i - 1], us[n - i + 1], q, b)
  BY <1>1, <1>10, Positions
<1>12. \A i \in 0..n : sel[i] \in Selections
  <2>1. \A i \in 1..n : sel[i - 1] \in Selections => sel[i] \in Selections
    BY <1>3, <1>11
  <2> QED
    BY <1>1, <1>2, <1>11, <2>1, Stays
<1>13. sel \in [0..n -> Selections]
  BY <1>9, <1>12
<1>14. IsSelectTable(sel, us, q, b)
  BY <1>11, <1>13 DEF IsSelectTable, n
<1> QED
  BY <1>4, <1>14 DEF us, n, Result

\* The end after k messages fits the budget.
Fits(ms, q, b, k) == PromptTokenCount(From(ms, k), q) <= b

\* After n units the selection starts with unit s, counting from the last lo.
SelectedFrom(acc, ms, st, n, lo, s, q, b) ==
    /\ acc.kept = From(ms, st[s])
    /\ acc.omittedTurns = s - lo /\ acc.omittedMessages = st[s] - st[lo]
    /\ s = n \/ Fits(ms, q, b, st[s])
    /\ acc.full <=> s > lo
    /\ s > lo => ~Fits(ms, q, b, st[s - 1])

\* A step takes one more unit while they fit, none after one that does not.
LEMMA SelectStepIs ==
    ASSUME NEW ms \in Seq(Messages), NEW st, NEW n \in Nat, st \in [0..n -> 0..Len(ms)],
           NEW lo \in 1..n, NEW s \in lo..n, NEW q \in Messages, NEW b \in Nat,
           \A i, j \in 0..n : i < j => st[i] < st[j],
           NEW acc \in Selections, SelectedFrom(acc, ms, st, n, lo, s, q, b),
           NEW next, next = SelectStep(acc, SubSeq(ms, st[lo - 1] + 1, st[lo]), q, b)
    PROVE  \/ SelectedFrom(next, ms, st, n, lo - 1, s, q, b)
           \/ SelectedFrom(next, ms, st, n, lo - 1, lo - 1, q, b)
<1> DEFINE x == st[lo - 1]
           y == st[lo]
           unit == SubSeq(ms, st[lo - 1] + 1, st[lo])
<1>n. next = SelectStep(acc, unit, q, b)
  OBVIOUS
<1>1. lo - 1 \in 0..n /\ lo \in 0..n /\ s \in 0..n /\ lo - 1 < lo /\ lo - 1 < s
  OBVIOUS
<1>2. x \in 0..Len(ms) /\ y \in 0..Len(ms) /\ x < y /\ st[s] \in 0..Len(ms) /\ Len(ms) \in Nat
  BY <1>1
<1>u. unit = SubSeq(ms, x + 1, y)
  OBVIOUS
<1>d. x = st[lo - 1] /\ y = st[lo]
  OBVIOUS
<1> HIDE DEF x, y, unit
<1>3. unit \in Seq(Messages) /\ Len(unit) = y - x
  <2>1. x + 1 \in 1..Len(ms) /\ y \in 1..Len(ms) /\ x + 1 <= y /\ y - (x + 1) + 1 = y - x
    BY <1>2
  <2>2. SubSeq(ms, x + 1, y) \in Seq(Messages) /\ Len(SubSeq(ms, x + 1, y)) = y - (x + 1) + 1
    BY <2>1
  <2> QED
    BY <1>u, <2>1, <2>2
<1>4. From(ms, x) = unit \o From(ms, y)
  <2>1. x <= y
    BY <1>2
  <2> QED
    BY <1>2, <1>u, <2>1, FromIs
<1>t. \A k \in 0..Len(ms) : PromptTokenCount(From(ms, k), q) \in Nat
  <2>1. \A k \in 0..Len(ms) : Total(From(ms, k)) \in Nat
    BY <1>2, FromIs
  <2>2. SystemSize \in Nat /\ q.size \in Nat
    BY HistoryAssumption DEF Messages
  <2> SUFFICES ASSUME NEW k \in 0..Len(ms) PROVE PromptTokenCount(From(ms, k), q) \in Nat
    OBVIOUS
  <2> DEFINE T == Total(From(ms, k))
             z == q.size
  <2>3. T \in Nat /\ z \in Nat
    BY <2>1, <2>2
  <2> HIDE DEF T, z
  <2>4. SystemSize + T + z \in Nat
    BY <2>2, <2>3
  <2> QED
    BY <2>4 DEF PromptTokenCount, T, z
<1>5. /\ acc.kept = From(ms, st[s])
      /\ acc.omittedTurns = s - lo /\ acc.omittedMessages = st[s] - y
      /\ s = n \/ Fits(ms, q, b, st[s])
      /\ acc.full <=> s > lo
      /\ s > lo => ~Fits(ms, q, b, st[s - 1])
  BY <1>d DEF SelectedFrom
<1>a. acc = [kept |-> acc.kept, full |-> acc.full, omittedTurns |-> acc.omittedTurns,
             omittedMessages |-> acc.omittedMessages]
  BY DEF Selections
<1>b. acc.full \in BOOLEAN
  BY DEF Selections
<1>6. CASE acc.full \/ PromptTokenCount(unit \o acc.kept, q) > b
  <2>1. /\ next.kept = acc.kept /\ next.full = TRUE
        /\ next.omittedTurns = acc.omittedTurns + 1
        /\ next.omittedMessages = acc.omittedMessages + Len(unit)
    BY <1>a, <1>6, <1>n DEF SelectStep
  <2>2. next.omittedTurns = s - (lo - 1) /\ next.omittedMessages = st[s] - x
    <3>1. (s - lo) + 1 = s - (lo - 1) /\ (st[s] - y) + (y - x) = st[s] - x
      BY <1>2
    <3> QED
      BY <1>3, <1>5, <2>1, <3>1
  <2>3. ~Fits(ms, q, b, st[s - 1])
    <3>1. CASE s > lo
      BY <1>5, <3>1
    <3>2. CASE s = lo
      <4>0. ~(s > lo)
        BY <3>2
      <4>1. ~acc.full /\ acc.kept = From(ms, y)
        BY <1>5, <1>d, <3>2, <4>0
      <4>2. PromptTokenCount(From(ms, x), q) > b
        BY <1>4, <1>6, <4>1
      <4>3. ~Fits(ms, q, b, x)
        BY <1>2, <1>t, <4>2 DEF Fits
      <4> QED
        BY <1>d, <3>2, <4>3
    <3> QED
      BY <3>1, <3>2
  <2>4. SelectedFrom(next, ms, st, n, lo - 1, s, q, b)
    <3> QED
      BY <1>1, <1>5, <1>d, <2>1, <2>2, <2>3 DEF SelectedFrom
  <2> QED
    BY <2>4
<1>7. CASE ~(acc.full \/ PromptTokenCount(unit \o acc.kept, q) > b)
  <2>1. s = lo
    BY <1>5, <1>7
  <2>2. /\ next.kept = unit \o acc.kept /\ next.full = acc.full
        /\ next.omittedTurns = acc.omittedTurns
        /\ next.omittedMessages = acc.omittedMessages
    BY <1>a, <1>7, <1>n DEF SelectStep
  <2>3. next.kept = From(ms, x)
    BY <1>4, <1>5, <1>d, <2>1, <2>2
  <2>4. Fits(ms, q, b, x)
    <3>1. ~(PromptTokenCount(From(ms, x), q) > b)
      BY <1>4, <1>5, <1>7, <1>d, <2>1
    <3> QED
      BY <1>2, <1>t, <3>1 DEF Fits
  <2>5. next.omittedTurns = (lo - 1) - (lo - 1) /\ next.omittedMessages = x - x /\ ~next.full
    <3>1. lo - lo = 0 /\ (lo - 1) - (lo - 1) = 0 /\ y - y = 0 /\ x - x = 0
      BY <1>2
    <3> QED
      BY <1>5, <1>7, <1>d, <2>1, <2>2, <3>1
  <2>7. ~(lo - 1 > lo - 1) /\ next.full \in BOOLEAN
    BY <1>b, <2>2
  <2>6. SelectedFrom(next, ms, st, n, lo - 1, lo - 1, q, b)
    <3> QED
      BY <1>d, <2>3, <2>4, <2>5, <2>7 DEF SelectedFrom
  <2> QED
    BY <2>6
<1> QED
  BY <1>6, <1>7

\* What is selected of a history: its end from a cut on.
LEMMA SelectionIs ==
    ASSUME NEW ms \in Replayable, NEW q \in Messages, NEW b \in Nat,
           NEW st, IsUnits(st, HistoryUnits(ms), ms, Len(ms))
    PROVE  \E s \in 0..Len(HistoryUnits(ms)) :
              LET n == Len(HistoryUnits(ms))
                  r == SelectPromptHistory(ms, q, b)
              IN /\ r = [history |-> From(ms, st[s]), budget |-> b,
                         omittedTurns |-> s, omittedMessages |-> st[s],
                         retainedTurns |-> Len(HistoryUnits(From(ms, st[s]))),
                         retainedMessages |-> Len(From(ms, st[s]))]
                 /\ s = n \/ Fits(ms, q, b, st[s])
                 /\ s > 0 => ~Fits(ms, q, b, st[s - 1])
<1> DEFINE us == HistoryUnits(ms)
           n == Len(us)
<1>1. ms \in Seq(Messages) /\ Len(ms) \in Nat
  BY DEF Replayable
<1>2. us \in Seq(Seq(Messages))
  BY UnitsAre
<1>3. PICK p : /\ IsSelectTable(p, us, q, b)
               /\ LET all == p[n] IN
                  SelectPromptHistory(ms, q, b) =
                     [history |-> all.kept, budget |-> b,
                      omittedTurns |-> all.omittedTurns,
                      omittedMessages |-> all.omittedMessages,
                      retainedTurns |-> Len(HistoryUnits(all.kept)),
                      retainedMessages |-> Len(all.kept)]
  BY <1>2, SelectTable
<1>4. /\ n \in Nat /\ st \in [0..n -> 0..Len(ms)] /\ st[0] = 0 /\ st[n] = Len(ms)
      /\ \A j \in 1..n : us[j] = SubSeq(ms, st[j - 1] + 1, st[j])
  BY <1>2 DEF IsUnits
<1>5. \A i, j \in 0..n : i < j => st[i] < st[j]
  BY <1>1, <1>2, UnitsGrow
<1> HIDE DEF us
<1>6. /\ p \in [0..n -> Selections] /\ p[0] = NothingSelected
      /\ \A i \in 1..n : p[i] = SelectStep(p[i - 1], us[n - i + 1], q, b)
  BY <1>3 DEF IsSelectTable
<1> HIDE DEF n
<1> DEFINE Good(i) == \E s \in (n - i)..n : SelectedFrom(p[i], ms, st, n, n - i, s, q, b)
           S == {i \in 0..n : Good(i)}
<1>7. 0 \in S
  <2>1. From(ms, Len(ms)) = <<>>
    BY <1>1, FromIs
  <2>2. /\ p[0].kept = <<>> /\ p[0].full = FALSE
        /\ p[0].omittedTurns = 0 /\ p[0].omittedMessages = 0
    BY <1>6 DEF NothingSelected
  <2>3. n - 0 = n /\ n - n = 0 /\ ~(n > n) /\ n \in n..n /\ 0 \in 0..n /\ st[n] - st[n] = 0
    BY <1>1, <1>4
  <2>4. SelectedFrom(p[0], ms, st, n, n - 0, n, q, b)
    BY <1>4, <2>1, <2>2, <2>3 DEF SelectedFrom
  <2>5. Good(0)
    BY <2>3, <2>4
  <2> HIDE DEF Good
  <2> QED
    BY <2>3, <2>5
<1>8. ASSUME NEW i \in 1..n, i - 1 \in S PROVE i \in S
  <2> DEFINE lo == n - (i - 1)
             unit == us[n - i + 1]
  <2>1. lo \in 1..n /\ lo - 1 = n - i /\ n - i + 1 = lo /\ i - 1 \in 0..n /\ i \in 0..n
    BY <1>4
  <2>2. Good(i - 1)
    BY <1>8
  <2>3. PICK s \in lo..n : SelectedFrom(p[i - 1], ms, st, n, lo, s, q, b)
    BY <2>2
  <2>4. unit = SubSeq(ms, st[lo - 1] + 1, st[lo]) /\ p[i - 1] \in Selections
    BY <1>4, <1>6, <2>1
  <2>5. p[i] = SelectStep(p[i - 1], SubSeq(ms, st[lo - 1] + 1, st[lo]), q, b)
    BY <1>6, <2>4
  <2> HIDE DEF lo, unit
  <2>6. \/ SelectedFrom(p[i], ms, st, n, lo - 1, s, q, b)
        \/ SelectedFrom(p[i], ms, st, n, lo - 1, lo - 1, q, b)
    BY <1>1, <1>4, <1>5, <2>1, <2>3, <2>4, <2>5, SelectStepIs
  <2>7. s \in (n - i)..n /\ lo - 1 \in (n - i)..n
    BY <1>4, <2>1, <2>3
  <2>8. Good(i)
    BY <2>1, <2>6, <2>7
  <2> HIDE DEF Good
  <2> QED
    BY <2>1, <2>8
<1>9. Good(n)
  <2>1. \A i \in 0..n : i \in S
    <3> HIDE DEF S
    <3> QED
      BY <1>4, <1>7, <1>8, Induct
  <2>2. n \in S
    BY <1>4, <2>1
  <2> HIDE DEF Good
  <2> QED
    BY <2>2
<1>10. PICK s \in 0..n : SelectedFrom(p[n], ms, st, n, 0, s, q, b)
  <2>1. n - n = 0
    BY <1>4
  <2> QED
    BY <1>9, <2>1
<1>11. /\ p[n].kept = From(ms, st[s])
       /\ p[n].omittedTurns = s /\ p[n].omittedMessages = st[s]
       /\ s = n \/ Fits(ms, q, b, st[s])
       /\ s > 0 => ~Fits(ms, q, b, st[s - 1])
  <2>1. s - 0 = s /\ st[s] - 0 = st[s]
    BY <1>1, <1>4
  <2> QED
    BY <1>4, <1>10, <2>1 DEF SelectedFrom
<1> QED
  BY <1>3, <1>11 DEF us, n

\* Growing numbers are all different.
LEMMA GrowingCount ==
    ASSUME NEW n \in Nat, NEW st \in [0..n -> Nat], \A i, j \in 0..n : i < j => st[i] < st[j],
           NEW a \in Nat, NEW m \in Nat, a + m <= n + 1
    PROVE  Cardinality({st[j] : j \in a..(a + m - 1)}) = m
<1> DEFINE f == [i \in 1..m |-> st[a + i - 1]]
           T == {st[j] : j \in a..(a + m - 1)}
<1>1. \A i \in 1..m : a + i - 1 \in 0..n /\ a + i - 1 \in a..(a + m - 1)
  OBVIOUS
<1>2. \A j \in a..(a + m - 1) : j - a + 1 \in 1..m /\ a + (j - a + 1) - 1 = j
  OBVIOUS
<1>3. f \in [1..m -> T]
  BY <1>1
<1>4. \A i, j \in 1..m : f[i] = f[j] => i = j
  <2> SUFFICES ASSUME NEW i \in 1..m, NEW j \in 1..m, i < j PROVE f[i] # f[j]
    OBVIOUS
  <2>1. a + i - 1 < a + j - 1
    OBVIOUS
  <2>2. st[a + i - 1] < st[a + j - 1] /\ st[a + i - 1] \in Nat /\ st[a + j - 1] \in Nat
    BY <1>1, <2>1
  <2> QED
    BY <2>2
<1>5. ASSUME NEW t \in T PROVE \E i \in 1..m : f[i] = t
  <2>1. PICK j \in a..(a + m - 1) : t = st[j]
    OBVIOUS
  <2>2. j - a + 1 \in 1..m /\ f[j - a + 1] = st[j]
    BY <1>2
  <2> QED
    BY <2>1, <2>2
<1> HIDE DEF f, T
<1>6. f \in Bijection(1..m, T)
  BY <1>3, <1>4, <1>5 DEF Bijection, Injection, Surjection, IsInjective
<1>7. ExistsBijection(1..m, T)
  BY <1>6 DEF ExistsBijection
<1> QED
  BY <1>7, FS_CountingElements DEF T

\* The end of a history from a cut on is a history, with the units from there.
LEMMA EndFromCut ==
    ASSUME NEW ms \in Replayable, NEW st, IsUnits(st, HistoryUnits(ms), ms, Len(ms)),
           NEW s \in 0..Len(HistoryUnits(ms))
    PROVE  /\ From(ms, st[s]) \in Replayable
           /\ Len(HistoryUnits(From(ms, st[s]))) = Len(HistoryUnits(ms)) - s
<1> DEFINE n == Len(HistoryUnits(ms))
           x == st[s]
           t == From(ms, x)
           vs == HistoryUnits(t)
           m == Len(vs)
<1>1. ms \in Seq(Messages) /\ Len(ms) \in Nat /\ Sound(ms)
  BY DEF Replayable
<1>2. HistoryUnits(ms) \in Seq(Seq(Messages))
  BY UnitsAre
<1>3. /\ n \in Nat /\ st \in [0..n -> 0..Len(ms)] /\ st[0] = 0 /\ st[n] = Len(ms)
      /\ \A k \in 0..Len(ms) : IsCut(ms, k) <=> \E j \in 0..n : st[j] = k
  BY <1>2 DEF IsUnits
<1>4. \A i, j \in 0..n : i < j => st[i] < st[j]
  BY <1>1, <1>2, UnitsGrow
<1>5. s \in 0..n /\ x \in 0..Len(ms) /\ IsCut(ms, x)
  BY <1>3
<1>d. x = st[s]
  OBVIOUS
<1> HIDE DEF n, x
<1>6. t \in Seq(Messages) /\ Len(t) = Len(ms) - x /\ \A i \in 1..(Len(ms) - x) : t[i] = ms[x + i]
  BY <1>1, <1>5 DEF From
<1>7. t \in Replayable
  <2>1. Sound(t)
    BY <1>1, <1>5, SoundSuffix DEF IsCut, From
  <2>2. \A i \in 1..(Len(ms) - x) : x + i \in 1..Len(ms)
    BY <1>1, <1>5
  <2>3. \A i \in 1..Len(ms) : ms[i].role \in {"user", "assistant", "tool"}
    BY <1>1 DEF Replayable
  <2>4. DOMAIN t = 1..(Len(ms) - x)
    BY <1>6
  <2>5. \A i \in DOMAIN t : t[i].role \in {"user", "assistant", "tool"}
    BY <1>6, <2>2, <2>3, <2>4
  <2> QED
    BY <1>6, <2>1, <2>5 DEF Replayable
<1> HIDE DEF t
<1>8. PICK tt : IsUnits(tt, vs, t, Len(t))
  BY <1>7, UnitsAre
<1>9. vs \in Seq(Seq(Messages)) /\ Len(t) \in Nat
  BY <1>6, <1>7, UnitsAre
<1>10. /\ m \in Nat /\ tt \in [0..m -> 0..Len(t)]
       /\ \A k \in 0..Len(t) : IsCut(t, k) <=> \E j \in 0..m : tt[j] = k
  BY <1>8, <1>9 DEF IsUnits
<1>11. \A i, j \in 0..m : i < j => tt[i] < tt[j]
  BY <1>8, <1>9, UnitsGrow
<1>e. m = Len(vs)
  OBVIOUS
<1> HIDE DEF m
<1>12. \A k \in 0..Len(t) : x + k \in 0..Len(ms) /\ (IsCut(t, k) <=> IsCut(ms, x + k))
  <2> SUFFICES ASSUME NEW k \in 0..Len(t)
               PROVE  x + k \in 0..Len(ms) /\ (IsCut(t, k) <=> IsCut(ms, x + k))
    OBVIOUS
  <2>1. x + k \in 0..Len(ms) /\ (k < Len(t) <=> x + k < Len(ms)) /\ (x + k) + 1 = x + (k + 1)
    BY <1>1, <1>5, <1>6
  <2>2. k < Len(t) => t[k + 1] = ms[x + (k + 1)]
    <3>1. k < Len(t) => k + 1 \in 1..(Len(ms) - x)
      BY <1>1, <1>5, <1>6
    <3> QED
      BY <1>6, <3>1
  <2> QED
    BY <2>1, <2>2 DEF IsCut
<1> DEFINE w == [j \in 0..(n - s) |-> st[s + j] - x]
           T == {tt[j] : j \in 0..(0 + (m + 1) - 1)}
           W == {w[j] : j \in 0..(0 + (n - s + 1) - 1)}
<1>13. \A j \in 0..(n - s) : s + j \in 0..n /\ st[s + j] \in Nat /\ st[s + j] >= x
  <2> SUFFICES ASSUME NEW j \in 0..(n - s)
               PROVE  s + j \in 0..n /\ st[s + j] \in Nat /\ st[s + j] >= x
    OBVIOUS
  <2>1. s + j \in 0..n
    BY <1>3, <1>5
  <2>2. st[s + j] \in 0..Len(ms) /\ st[s] \in 0..Len(ms)
    BY <1>3, <1>5, <2>1
  <2>3. CASE j = 0
    <3>1. s + j = s
      BY <1>5, <2>3
    <3> QED
      BY <1>1, <1>d, <2>1, <2>2, <3>1
  <2>4. CASE j # 0
    <3>1. s < s + j
      BY <1>3, <1>5, <2>4
    <3>2. st[s] < st[s + j]
      BY <1>4, <1>5, <2>1, <3>1
    <3> QED
      BY <1>1, <1>d, <2>1, <2>2, <3>2
  <2> QED
    BY <2>3, <2>4
<1>14. n - s \in Nat /\ w \in [0..(n - s) -> Nat]
  <2>1. \A j \in 0..(n - s) : st[s + j] - x \in Nat
    BY <1>1, <1>5, <1>13
  <2>2. n - s \in Nat
    BY <1>3, <1>5
  <2> QED
    BY <2>1, <2>2
<1>15. \A i, j \in 0..(n - s) : i < j => w[i] < w[j]
  <2> SUFFICES ASSUME NEW i \in 0..(n - s), NEW j \in 0..(n - s), i < j PROVE w[i] < w[j]
    OBVIOUS
  <2>1. s + i < s + j /\ s + i \in 0..n /\ s + j \in 0..n
    BY <1>3, <1>5
  <2>2. st[s + i] < st[s + j] /\ st[s + i] \in Nat /\ st[s + j] \in Nat
    BY <1>4, <1>13, <2>1
  <2>3. w[i] = st[s + i] - x /\ w[j] = st[s + j] - x
    OBVIOUS
  <2> QED
    BY <1>5, <2>2, <2>3
<1>16. \A k \in 0..Len(t) : (\E j \in 0..m : tt[j] = k) <=> \E j \in 0..(n - s) : w[j] = k
  <2> SUFFICES ASSUME NEW k \in 0..Len(t)
               PROVE  IsCut(ms, x + k) <=> \E j \in 0..(n - s) : w[j] = k
    BY <1>10, <1>12
  <2>1. ASSUME IsCut(ms, x + k) PROVE \E j \in 0..(n - s) : w[j] = k
    <3>1. PICK i \in 0..n : st[i] = x + k
      BY <1>3, <1>12, <2>1
    <3>2. i >= s
      <4> SUFFICES ASSUME i < s PROVE FALSE
        BY <1>3, <1>5
      <4>1. st[i] < st[s]
        BY <1>4, <1>5
      <4> QED
        BY <1>5, <1>9, <1>d, <3>1, <4>1
    <3>3. i - s \in 0..(n - s) /\ s + (i - s) = i
      BY <1>3, <1>5, <3>2
    <3>4. w[i - s] = k
      BY <1>5, <1>9, <3>1, <3>3
    <3> QED
      BY <3>3, <3>4
  <2>2. ASSUME NEW j \in 0..(n - s), w[j] = k PROVE IsCut(ms, x + k)
    <3>1. s + j \in 0..n /\ st[s + j] \in Nat /\ st[s + j] - x = k
      BY <1>13, <2>2
    <3>2. st[s + j] = x + k
      BY <1>1, <1>5, <1>9, <3>1
    <3> QED
      BY <1>3, <1>12, <3>1, <3>2
  <2> QED
    BY <2>1, <2>2
<1>17. \A j \in 0..(n - s) : w[j] \in 0..Len(t)
  <2> SUFFICES ASSUME NEW j \in 0..(n - s) PROVE w[j] \in 0..Len(t)
    OBVIOUS
  <2>1. st[s + j] \in 0..Len(ms) /\ st[s + j] >= x
    BY <1>3, <1>13
  <2> QED
    BY <1>1, <1>5, <1>6, <2>1
<1>18. 0 + (m + 1) - 1 = m /\ 0 + (n - s + 1) - 1 = n - s
  BY <1>3, <1>5, <1>10
<1>19. T = W
  <2> HIDE DEF w
  <2>1. \A j \in 0..m : tt[j] \in 0..Len(t)
    BY <1>10
  <2>2. T = {tt[j] : j \in 0..m} /\ W = {w[j] : j \in 0..(n - s)}
    BY <1>18
  <2> HIDE DEF T, W
  <2> QED
    BY <1>16, <1>17, <2>1, <2>2
<1> HIDE DEF w
<1>20. Cardinality(T) = m + 1
  <2>1. tt \in [0..m -> Nat] /\ m + 1 \in Nat /\ 0 + (m + 1) <= m + 1
    BY <1>9, <1>10
  <2> QED
    BY <1>10, <1>11, <2>1, GrowingCount
<1>21. Cardinality(W) = n - s + 1
  <2>1. n - s + 1 \in Nat /\ 0 + (n - s + 1) <= (n - s) + 1
    BY <1>14
  <2> QED
    BY <1>14, <1>15, <2>1, GrowingCount
<1>22. m = n - s
  <2> HIDE DEF T, W
  <2> QED
    BY <1>3, <1>5, <1>10, <1>19, <1>20, <1>21
<1> QED
  BY <1>7, <1>22, <1>d, <1>e DEF t, n

\* The selection of a history, with the four counts, is what the property asks
\* for: the longest end that starts with a message and fits the budget.
IsLongest(h, r, b) ==
    LET cuts == {k \in 0..Len(h) : k < Len(h) => h[k + 1].role # "tool"}
        fits == {k \in cuts : \/ k = Len(h)
                              \/ SystemSize + Total(From(h, k)) + 1 <= b}
        best == CHOOSE k \in fits : \A l \in fits : k <= l
    IN /\ r.history = From(h, best)
       /\ r.omittedMessages = best
       /\ r.retainedMessages = Len(h) - best
       /\ r.omittedTurns = Cardinality({k \in cuts : k < best})
       /\ r.retainedTurns = Cardinality({k \in cuts : best <= k /\ k < Len(h)})

\* What is selected from a history is its longest end that fits.
LEMMA SelectsLongest ==
    ASSUME NEW h \in Replayable, NEW q \in Messages, q.size = 1, NEW b \in Nat
    PROVE  IsLongest(h, SelectPromptHistory(h, q, b), b)
<1> DEFINE n == Len(HistoryUnits(h))
           r == SelectPromptHistory(h, q, b)
           cuts == {k \in 0..Len(h) : k < Len(h) => h[k + 1].role # "tool"}
           Fit(k) == SystemSize + Total(From(h, k)) + 1 <= b
           fits == {k \in cuts : k = Len(h) \/ Fit(k)}
           best == CHOOSE k \in fits : \A l \in fits : k <= l
<1>1. h \in Seq(Messages) /\ Len(h) \in Nat
  BY DEF Replayable
<1>2. HistoryUnits(h) \in Seq(Seq(Messages))
  BY UnitsAre
<1>3. PICK st : IsUnits(st, HistoryUnits(h), h, Len(h))
  BY UnitsAre
<1>4. /\ n \in Nat /\ st \in [0..n -> 0..Len(h)] /\ st[0] = 0 /\ st[n] = Len(h)
      /\ \A k \in 0..Len(h) : IsCut(h, k) <=> \E j \in 0..n : st[j] = k
  BY <1>2, <1>3 DEF IsUnits
<1>5. \A i, j \in 0..n : i < j => st[i] < st[j]
  BY <1>1, <1>2, <1>3, UnitsGrow
<1>6. PICK s \in 0..n :
         /\ r = [history |-> From(h, st[s]), budget |-> b,
                 omittedTurns |-> s, omittedMessages |-> st[s],
                 retainedTurns |-> Len(HistoryUnits(From(h, st[s]))),
                 retainedMessages |-> Len(From(h, st[s]))]
         /\ s = n \/ Fits(h, q, b, st[s])
         /\ s > 0 => ~Fits(h, q, b, st[s - 1])
  BY <1>3, SelectionIs
<1>7. Len(HistoryUnits(From(h, st[s]))) = n - s
  BY <1>3, EndFromCut
<1>8. \A k : Fits(h, q, b, k) <=> Fit(k)
  BY DEF Fits, PromptTokenCount
<1> HIDE DEF n, r
<1>9. cuts = {st[j] : j \in 0..n}
  <2>1. \A k \in 0..Len(h) : k \in cuts <=> IsCut(h, k)
    BY DEF IsCut
  <2>2. \A j \in 0..n : st[j] \in 0..Len(h)
    BY <1>4
  <2>3. \A k \in cuts : k \in 0..Len(h)
    OBVIOUS
  <2> HIDE DEF cuts
  <2> QED
    BY <1>4, <2>1, <2>2, <2>3
<1>c. cuts \subseteq 0..Len(h)
  OBVIOUS
<1>10. \A k, l \in 0..Len(h) : k <= l /\ Fit(k) => Fit(l)
  <2> SUFFICES ASSUME NEW k \in 0..Len(h), NEW l \in 0..Len(h), k <= l, Fit(k) PROVE Fit(l)
    OBVIOUS
  <2> DEFINE x == Total(From(h, k))
             y == Total(From(h, l))
  <2>1. y <= x /\ x \in Nat
    BY <1>1, FromIs
  <2>2. y \in Nat
    <3>1. l <= l
      BY <1>1
    <3> QED
      BY <1>1, <3>1, FromIs
  <2>3. SystemSize \in Nat /\ SystemSize + x + 1 <= b
    BY HistoryAssumption
  <2> HIDE DEF x, y
  <2>4. SystemSize + y + 1 <= b
    BY <2>1, <2>2, <2>3
  <2> QED
    BY <2>4 DEF y
<1> HIDE DEF cuts, Fit
<1>11. s \in 0..n /\ st[s] \in 0..Len(h) /\ st[s] \in fits
  <2>1. st[s] \in cuts
    BY <1>9
  <2> QED
    BY <1>4, <1>6, <1>8, <2>1
<1>12. \A l \in fits : st[s] <= l
  <2> SUFFICES ASSUME NEW l \in fits, l < st[s] PROVE FALSE
    BY <1>1, <1>11, <1>c
  <2>1. PICK j \in 0..n : l = st[j]
    BY <1>9
  <2>2. j < s
    <3> SUFFICES ASSUME s <= j PROVE FALSE
      BY <1>4
    <3>1. st[j] \in 0..Len(h) /\ st[s] \in 0..Len(h)
      BY <1>4
    <3>2. s = j \/ st[s] < st[j]
      BY <1>4, <1>5
    <3> QED
      BY <1>1, <2>1, <3>1, <3>2
  <2>3. s > 0 /\ s - 1 \in 0..n /\ (j = s - 1 \/ j < s - 1)
    BY <1>4, <2>2
  <2>4. ~Fit(st[s - 1])
    BY <1>6, <1>8, <2>3
  <2>5. st[j] \in 0..Len(h) /\ st[s - 1] \in 0..Len(h) /\ (st[j] = st[s - 1] \/ st[j] < st[s - 1])
    BY <1>4, <1>5, <2>3
  <2>6. ~Fit(l)
    BY <1>1, <1>10, <2>1, <2>4, <2>5
  <2>7. l # Len(h)
    BY <1>1, <1>11
  <2> QED
    BY <2>6, <2>7
<1>13. best = st[s]
  <2>1. \A k \in fits : k \in 0..Len(h)
    BY <1>c
  <2>2. best \in fits /\ \A l \in fits : best <= l
    <3> HIDE DEF fits
    <3> QED
      BY <1>11, <1>12
  <2> QED
    BY <1>1, <1>11, <1>12, <2>1, <2>2
<1>14. Cardinality({k \in cuts : k < best}) = s
  <2>1. {k \in cuts : k < best} = {st[j] : j \in 0..(0 + s - 1)}
    <3>1. \A j \in 0..(0 + s - 1) : j \in 0..n /\ st[j] < st[s]
      BY <1>4, <1>5
    <3>2. ASSUME NEW j \in 0..n, st[j] < st[s] PROVE j \in 0..(0 + s - 1)
      <4> SUFFICES ASSUME s <= j PROVE FALSE
        BY <1>4
      <4>1. st[j] \in 0..Len(h) /\ st[s] \in 0..Len(h)
        BY <1>4
      <4>2. s = j \/ st[s] < st[j]
        BY <1>4, <1>5
      <4> QED
        BY <1>1, <3>2, <4>1, <4>2
    <3> HIDE DEF best
    <3> QED
      BY <1>9, <1>13, <3>1, <3>2
  <2>2. st \in [0..n -> Nat] /\ s \in Nat /\ 0 + s <= n + 1
    BY <1>1, <1>4
  <2> QED
    BY <1>4, <1>5, <2>1, <2>2, GrowingCount
<1>15. Cardinality({k \in cuts : best <= k /\ k < Len(h)}) = n - s
  <2>1. {k \in cuts : best <= k /\ k < Len(h)} = {st[j] : j \in s..(s + (n - s) - 1)}
    <3>1. ASSUME NEW j \in s..(s + (n - s) - 1) PROVE j \in 0..n /\ st[s] <= st[j] /\ st[j] < Len(h)
      <4>1. j \in 0..n /\ j < n /\ (s = j \/ s < j) /\ n \in 0..n
        BY <1>4
      <4>2. st[j] \in 0..Len(h) /\ st[s] \in 0..Len(h)
        BY <1>4, <4>1
      <4> QED
        BY <1>1, <1>4, <1>5, <4>1, <4>2
    <3>2. ASSUME NEW j \in 0..n, st[s] <= st[j], st[j] < Len(h) PROVE j \in s..(s + (n - s) - 1)
      <4>0. st[j] \in 0..Len(h) /\ st[s] \in 0..Len(h)
        BY <1>4
      <4>1. ~(j < s)
        BY <1>1, <1>5, <3>2, <4>0
      <4>2. j # n
        BY <1>1, <1>4, <3>2
      <4> QED
        BY <1>4, <4>1, <4>2
    <3> HIDE DEF best
    <3> QED
      BY <1>9, <1>13, <3>1, <3>2
  <2> DEFINE m == n - s
  <2>2. st \in [0..n -> Nat] /\ s \in Nat /\ m \in Nat /\ s + m <= n + 1
    BY <1>1, <1>4
  <2> HIDE DEF m
  <2>3. Cardinality({st[j] : j \in s..(s + m - 1)}) = m
    BY <1>4, <1>5, <2>2, GrowingCount
  <2> QED
    BY <2>1, <2>3 DEF m
<1>16. Len(From(h, st[s])) = Len(h) - st[s]
  <2>1. st[s] <= st[s]
    BY <1>1, <1>11
  <2> QED
    BY <1>1, <1>11, <2>1, FromIs
<1>17. /\ r.history = From(h, best) /\ r.omittedMessages = best
       /\ r.retainedMessages = Len(h) - best
       /\ r.omittedTurns = s /\ r.retainedTurns = n - s
  <2> HIDE DEF best
  <2> QED
    BY <1>6, <1>7, <1>13, <1>16
<1> QED
  BY <1>14, <1>15, <1>17 DEF IsLongest, r, cuts, Fit

-----------------------------------------------------------------------------
(* Types                                                                    *)

\* What is picked from a sequence is one over the same set.
LEMMA PickedType ==
    ASSUME NEW A, NEW s \in Seq(A), NEW I
    PROVE  Picked(s, I) \in Seq(A)
BY PickedIs

\* The history loaded is a history, and the same after a row that is not
\* complete.
LEMMA IncompleteIsNotLoaded ==
    ASSUME NEW rs \in Seq(Rows), NEW r \in Rows, ~r.complete
    PROVE  LoadHistory(Append(rs, r)) = LoadHistory(rs)
<1> DEFINE qs == Append(rs, r)
           J == {i \in DOMAIN rs : rs[i].complete}
           I == {i \in DOMAIN qs : qs[i].complete}
<1>1. qs = rs \o <<r>> /\ <<r>> \in Seq(Rows) /\ Len(<<r>>) = 1 /\ Len(rs) \in Nat
  OBVIOUS
<1>2. DOMAIN qs = 1..(Len(rs) + 1) /\ DOMAIN rs = 1..Len(rs) /\ qs[Len(rs) + 1] = r /\ \A i \in 1..Len(rs) : qs[i] = rs[i]
  OBVIOUS
<1> HIDE DEF qs
<1>3. \A i \in 1..Len(rs) : i \in I <=> i \in J
  BY <1>1, <1>2
<1>4. \A i \in 1..Len(<<r>>) : Len(rs) + i \in I <=> i \in {}
  BY <1>1, <1>2
<1> HIDE DEF I, J
<1>5. Picked(qs, I) = Picked(rs, J) \o Picked(<<r>>, {})
  <2> DEFINE one == <<r>>
  <2>1. Splits(I, J, {}, rs, one) /\ one \in Seq(Rows) /\ qs = rs \o one
    BY <1>1, <1>3, <1>4 DEF Splits
  <2> HIDE DEF one
  <2>2. Picked(rs \o one, I) = Picked(rs, J) \o Picked(one, {})
    BY <2>1, PickedConcat
  <2> QED
    BY <2>1, <2>2 DEF one
<1>6. Picked(<<r>>, {}) = <<>> /\ Picked(rs, J) \in Seq(Rows)
  BY PickedOne, PickedType
<1>7. Picked(qs, I) = Picked(rs, J)
  BY <1>5, <1>6
<1> QED
  BY <1>7 DEF LoadHistory, qs, I, J

PromptType ==
    [history : Seq(Messages), budget : Budgets, omittedTurns : Nat,
     omittedMessages : Nat, retainedTurns : Nat, retainedMessages : Nat]

\* The type of a selection; it is a history again.
LEMMA SelectionType ==
    ASSUME NEW h \in Replayable, NEW q \in Messages, NEW b \in Budgets
    PROVE  /\ SelectPromptHistory(h, q, b) \in PromptType
           /\ SelectPromptHistory(h, q, b).history \in Replayable
           /\ SelectPromptHistory(h, q, b).budget = b
<1> DEFINE n == Len(HistoryUnits(h))
           r == SelectPromptHistory(h, q, b)
<1>1. h \in Seq(Messages) /\ Len(h) \in Nat /\ b \in Nat
  BY HistoryAssumption DEF Replayable
<1>2. HistoryUnits(h) \in Seq(Seq(Messages))
  BY UnitsAre
<1>3. PICK st : IsUnits(st, HistoryUnits(h), h, Len(h))
  BY UnitsAre
<1>4. n \in Nat /\ st \in [0..n -> 0..Len(h)]
  BY <1>2, <1>3 DEF IsUnits
<1>6. PICK s \in 0..n :
         r = [history |-> From(h, st[s]), budget |-> b,
              omittedTurns |-> s, omittedMessages |-> st[s],
              retainedTurns |-> Len(HistoryUnits(From(h, st[s]))),
              retainedMessages |-> Len(From(h, st[s]))]
  BY <1>1, <1>3, SelectionIs
<1>7. From(h, st[s]) \in Replayable /\ Len(HistoryUnits(From(h, st[s]))) = n - s
  BY <1>3, EndFromCut
<1>8. From(h, st[s]) \in Seq(Messages) /\ Len(From(h, st[s])) \in Nat
  BY <1>7 DEF Replayable
<1>9. n - s \in Nat /\ s \in Nat /\ st[s] \in Nat
  BY <1>1, <1>4
<1> HIDE DEF n, r
<1>10. r \in PromptType /\ r.history = From(h, st[s]) /\ r.budget = b
  BY <1>6, <1>7, <1>8, <1>9 DEF PromptType
<1> QED
  BY <1>7, <1>10 DEF r

\* All of a sequence.
LEMMA PickedAll ==
    ASSUME NEW A, NEW s \in Seq(A), NEW I, \A i \in 1..Len(s) : i \in I
    PROVE  Picked(s, I) = s
<1>1. PICK p : IsPickTable(p, s, I, A)
  BY PickedTable
<1>a. \A i \in 1..Len(s) : Bit(s, i, I) = <<s[i]>>
  BY DEF Bit
<1>b. Len(s) \in Nat
  OBVIOUS
<1>2. /\ Len(s) \in Nat /\ p[0] = <<>> /\ Picked(s, I) = p[Len(s)]
      /\ \A i \in 1..Len(s) : p[i] = p[i - 1] \o <<s[i]>>
  BY <1>1, <1>a, <1>b DEF IsPickTable
<1> DEFINE S == {i \in 0..Len(s) : p[i] = SubSeq(s, 1, i)}
<1>3. 0 \in S
  <2>1. SubSeq(s, 1, 0) = <<>> /\ 0 \in 0..Len(s)
    OBVIOUS
  <2> QED
    BY <1>2, <2>1
<1>4. ASSUME NEW i \in 1..Len(s), i - 1 \in S PROVE i \in S
  <2>a. p[i - 1] = SubSeq(s, 1, i - 1)
    BY <1>4
  <2>b. i \in 0..Len(s)
    OBVIOUS
  <2>1. p[i] = SubSeq(s, 1, i - 1) \o <<s[i]>> /\ i \in 0..Len(s)
    BY <1>2, <2>a, <2>b
  <2>2. SubSeq(s, 1, i - 1) \o <<s[i]>> = SubSeq(s, 1, i)
    <3>1. /\ SubSeq(s, 1, i - 1) \o <<s[i]>> \in Seq(A) /\ SubSeq(s, 1, i) \in Seq(A)
          /\ Len(SubSeq(s, 1, i - 1) \o <<s[i]>>) = i /\ Len(SubSeq(s, 1, i)) = i
      BY <1>2
    <3>2. \A k \in 1..i : (SubSeq(s, 1, i - 1) \o <<s[i]>>)[k] = SubSeq(s, 1, i)[k]
      <4> SUFFICES ASSUME NEW k \in 1..i
                   PROVE  (SubSeq(s, 1, i - 1) \o <<s[i]>>)[k] = SubSeq(s, 1, i)[k]
        OBVIOUS
      <4>1. SubSeq(s, 1, i)[k] = s[k]
        BY <1>2
      <4>2. k = i \/ k \in 1..(i - 1)
        OBVIOUS
      <4> QED
        BY <1>2, <4>1, <4>2
    <3> QED
      BY <3>1, <3>2, SeqEqual
  <2> QED
    BY <2>1, <2>2
<1>5. \A i \in 0..Len(s) : i \in S
  <2> HIDE DEF S
  <2> QED
    BY <1>2, <1>3, <1>4, Induct
<1>6. p[Len(s)] = SubSeq(s, 1, Len(s)) /\ SubSeq(s, 1, Len(s)) = s
  BY <1>2, <1>5
<1> QED
  BY <1>2, <1>6

\* LastOf is the greatest of the positions, 0 if there is none.
LEMMA LastOfIs ==
    ASSUME NEW n \in Nat, NEW is, is \subseteq 1..n
    PROVE  /\ LastOf(is) \in 0..n
           /\ is = {} => LastOf(is) = 0
           /\ is # {} => LastOf(is) \in is /\ \A j \in is : j <= LastOf(is)
<1>1. CASE is = {}
  BY <1>1 DEF LastOf
<1>2. CASE is # {}
  <2> DEFINE T == {n - i : i \in is}
  <2>a. \A i \in is : i \in 1..n /\ n - i \in Nat
    OBVIOUS
  <2>b. T # {}
    BY <1>2
  <2>c. T \subseteq Nat
    BY <2>a
  <2>1. T \subseteq Nat /\ T # {}
    BY <2>b, <2>c
  <2>2. PICK t \in T : \A m \in T : t <= m
    BY <2>1, LeastNumber
  <2>3. PICK i \in is : t = n - i
    BY <2>2
  <2>4. \A j \in is : j <= i
    <3> SUFFICES ASSUME NEW j \in is PROVE j <= i
      OBVIOUS
    <3>1. n - i <= n - j
      BY <2>2, <2>3
    <3> QED
      BY <2>a, <3>1
  <2>5. LastOf(is) \in is /\ \A j \in is : j <= LastOf(is)
    BY <1>2, <2>4 DEF LastOf
  <2>6. \A k \in is : k \in 0..n
    BY <2>a
  <2> QED
    BY <1>2, <2>5, <2>6
<1> QED
  BY <1>1, <1>2

-----------------------------------------------------------------------------
(* DropOldestUnits                                                          *)

\* The list without the messages from d to e.
Without(ms, d, e) == SubSeq(ms, 1, d - 1) \o SubSeq(ms, e + 1, Len(ms))

\* A list without the elements from d to e.
LEMMA WithoutIs ==
    ASSUME NEW A, NEW ms \in Seq(A), NEW d \in 1..Len(ms), NEW e \in d..Len(ms)
    PROVE  /\ Without(ms, d, e) \in Seq(A)
           /\ Len(Without(ms, d, e)) = Len(ms) - (e - d + 1)
           /\ \A i \in 1..(d - 1) : Without(ms, d, e)[i] = ms[i]
           /\ \A i \in (e + 1)..Len(ms) : Without(ms, d, e)[i - (e - d + 1)] = ms[i]
<1> DEFINE s == SubSeq(ms, 1, d - 1)
           t == SubSeq(ms, e + 1, Len(ms))
           n == Len(ms)
<1>1. n \in Nat /\ d \in 1..n /\ e \in d..n
  OBVIOUS
<1>2. s \in Seq(A) /\ Len(s) = d - 1 /\ \A i \in 1..(d - 1) : s[i] = ms[i]
  BY <1>1
<1>3. t \in Seq(A) /\ Len(t) = n - e /\ \A i \in 1..(n - e) : t[i] = ms[e + i]
  BY <1>1
<1>4. Without(ms, d, e) = s \o t
  BY DEF Without
<1> HIDE DEF s, t, n
<1>5. /\ s \o t \in Seq(A) /\ Len(s \o t) = Len(s) + Len(t)
      /\ \A i \in 1..Len(s) : (s \o t)[i] = s[i]
      /\ \A i \in 1..Len(t) : (s \o t)[Len(s) + i] = t[i]
  <2>1. s \in Seq(A) /\ t \in Seq(A)
    BY <1>2, <1>3
  <2> QED
    BY <2>1
<1>6. Len(s) + Len(t) = n - (e - d + 1)
  BY <1>1, <1>2, <1>3
<1>7. ASSUME NEW i \in (e + 1)..n PROVE (s \o t)[i - (e - d + 1)] = ms[i]
  <2>1. i - e \in 1..(n - e) /\ (d - 1) + (i - e) = i - (e - d + 1) /\ e + (i - e) = i
    BY <1>1
  <2>2. (s \o t)[(d - 1) + (i - e)] = t[i - e]
    BY <1>2, <1>3, <1>5, <2>1
  <2>3. t[i - e] = ms[i]
    BY <1>3, <2>1
  <2> QED
    BY <2>1, <2>2, <2>3
<1>8. \A i \in 1..(d - 1) : (s \o t)[i] = ms[i]
  BY <1>2, <1>5
<1> QED
  BY <1>4, <1>5, <1>6, <1>7, <1>8 DEF n

\* The oldest that may go.
IsOldest(ms, d) == d \in Droppable(ms) /\ \A j \in Droppable(ms) : d <= j

\* What is dropped is the unit at the oldest position that may go.
LEMMA DropIs ==
    ASSUME NEW ms \in Seq(Messages), Droppable(ms) # {}
    PROVE  \E d \in 1..Len(ms) :
              /\ IsOldest(ms, d)
              /\ DropOldestUnit(ms) = Without(ms, d, UnitEnd(ms, d))
              /\ UnitEnd(ms, d) \in d..Len(ms)
<1> DEFINE D == Droppable(ms)
           i == CHOOSE d \in D : \A j \in D : d <= j
<1>1. D \subseteq 1..Len(ms) /\ D \subseteq Nat
  BY DEF Droppable
<1>2. DropOldestUnit(ms) = Without(ms, i, UnitEnd(ms, i))
  BY DEF DropOldestUnit, Without
<1> HIDE DEF D
<1>3. \E d \in D : \A j \in D : d <= j
  BY <1>1, LeastNumber DEF D
<1>4. i \in D /\ \A j \in D : i <= j
  BY <1>3
<1> HIDE DEF i
<1>5. IsOldest(ms, i) /\ i \in 1..Len(ms)
  BY <1>1, <1>4 DEF IsOldest, D
<1>6. UnitEnd(ms, i) \in i..Len(ms)
  BY <1>5, UnitEndIs
<1> QED
  BY <1>2, <1>5, <1>6

\* A step of CompactToBudget.
CompactStep(p, tools, b) ==
    IF Total(p) + tools <= b \/ Droppable(p) = {} THEN p ELSE DropOldestUnit(p)

\* What every step of the limit keeps, the limit keeps.
LEMMA CompactKeeps ==
    ASSUME NEW ms \in Seq(Messages), NEW tools, NEW b, NEW X, X \subseteq Seq(Messages), ms \in X,
           \A x \in X : Droppable(x) # {} => DropOldestUnit(x) \in X
    PROVE  CompactToBudget(ms, tools, b) \in X
<1> DEFINE n == Len(ms)
           step == [i \in 1..n |-> [x \in X |-> CompactStep(x, tools, b)]]
           Table(f) == f = [i \in 0..n |-> IF i = 0 THEN ms ELSE CompactStep(f[i - 1], tools, b)]
           after[i \in 0..n] == IF i = 0 THEN ms ELSE CompactStep(after[i - 1], tools, b)
<1>1. n \in Nat /\ \A x \in X : CompactStep(x, tools, b) \in X
  BY DEF CompactStep
<1>2. CompactToBudget(ms, tools, b) = after[n]
  BY DEF CompactToBudget, CompactStep
<1> HIDE DEF n
<1>3. step \in [1..n -> [X -> X]] /\ \A i \in 1..n, x \in X : step[i][x] = CompactStep(x, tools, b)
  BY <1>1
<1> HIDE DEF step
<1>4. PICK f : IsTable(f, n, X, ms, step)
  BY <1>1, <1>3, TableExists
<1>5. f \in [0..n -> X] /\ \A i \in 0..n : f[i] = IF i = 0 THEN ms ELSE CompactStep(f[i - 1], tools, b)
  BY <1>1, <1>3, <1>4, Positions DEF IsTable
<1>6. Table(f)
  BY <1>5
<1>7. Table(after)
  BY <1>6
<1> HIDE DEF after
<1>8. \A i \in 0..n : after[i] = IF i = 0 THEN ms ELSE CompactStep(after[i - 1], tools, b)
  BY <1>7
<1>9. after[0] = ms /\ \A i \in 1..n : after[i] = CompactStep(after[i - 1], tools, b)
  BY <1>1, <1>8, Positions
<1>10. \A i \in 0..n : after[i] \in X
  <2>1. \A i \in 1..n : after[i - 1] \in X => after[i] \in X
    BY <1>1, <1>9
  <2> QED
    BY <1>1, <1>9, <2>1, Stays
<1> QED
  BY <1>1, <1>2, <1>10

-----------------------------------------------------------------------------
(* Types of what the actions make                                           *)

\* The messages the service makes are messages.
LEMMA MessageType ==
    ASSUME NEW t \in Nat, NEW role \in {"system", "user", "assistant", "tool"}, NEW size \in Nat
    PROVE  /\ Message(t, role, size) \in Messages
           /\ Question(t) \in Messages /\ System \in Messages
           /\ Question(t).size = 1
<1>1. <<>> \in Seq(Calls)
  OBVIOUS
<1>2. \A r \in {"system", "user", "assistant", "tool"}, u, z \in Nat : Message(u, r, z) \in Messages
  BY <1>1 DEF Message, Messages
<1>3. Question(t) \in Messages /\ Question(t).size = 1
  BY <1>1 DEF Question, Message, Messages
<1>4. System \in Messages
  BY <1>1, HistoryAssumption DEF System, Message, Messages
<1> QED
  BY <1>2, <1>3, <1>4

\* A row it makes is a readable row.
LEMMA RowType ==
    ASSUME NEW m \in Messages, NEW complete \in BOOLEAN
    PROVE  /\ Row(m, complete) \in Rows
           /\ Row(m, complete).msg = m /\ Row(m, complete).complete = complete
           /\ Row(m, complete).readable
BY DEF Row, Rows

\* The history as BuildPrompt puts it into the list.
Seeded(ms) == [i \in DOMAIN ms |-> [ms[i] EXCEPT !.origin = "seed"]]

\* A history is wholly in the prompt: system prompt, history, question.
LEMMA BuildPromptIs ==
    ASSUME NEW ms \in Replayable, NEW q \in Messages
    PROVE  /\ BuildPrompt(ms, q) = <<System>> \o Seeded(ms) \o <<q>>
           /\ Seeded(ms) \in Seq(Messages) /\ Len(Seeded(ms)) = Len(ms)
           /\ BuildPrompt(ms, q) \in Seq(Messages)
<1> DEFINE I == {i \in DOMAIN ms : ms[i].origin # "injection"}
<1>1. ms \in Seq(Messages) /\ Len(ms) \in Nat /\ DOMAIN ms = 1..Len(ms)
  BY DEF Replayable
<1>2. \A i \in 1..Len(ms) : i \in I
  BY <1>1, NoInjection
<1>3. Picked(ms, I) = ms
  BY <1>1, <1>2, PickedAll
<1>4. BuildPrompt(ms, q) = <<System>> \o Seeded(ms) \o <<q>>
  BY <1>3 DEF BuildPrompt, Seeded
<1>5. \A m \in Messages : [m EXCEPT !.origin = "seed"] \in Messages
  BY DEF Messages
<1>6. Seeded(ms) \in [1..Len(ms) -> Messages]
  BY <1>1, <1>5 DEF Seeded
<1>7. Seeded(ms) \in Seq(Messages) /\ Len(Seeded(ms)) = Len(ms)
  BY <1>1, <1>6, FunctionIsSequence
<1>8. System \in Messages
  BY MessageType
<1>9. <<System>> \o Seeded(ms) \o <<q>> \in Seq(Messages)
  <2>1. <<System>> \in Seq(Messages) /\ <<q>> \in Seq(Messages)
    BY <1>8
  <2> QED
    BY <1>7, <2>1
<1> QED
  BY <1>4, <1>7, <1>9

\* A compacted list is a list of messages.
LEMMA CompactType ==
    ASSUME NEW ms \in Seq(Messages), NEW tools, NEW b
    PROVE  CompactToBudget(ms, tools, b) \in Seq(Messages)
<1>1. ASSUME NEW x \in Seq(Messages), Droppable(x) # {}
      PROVE  DropOldestUnit(x) \in Seq(Messages)
  <2>1. PICK d \in 1..Len(x) :
           /\ DropOldestUnit(x) = Without(x, d, UnitEnd(x, d)) /\ UnitEnd(x, d) \in d..Len(x)
    BY <1>1, DropIs
  <2> QED
    BY <2>1, WithoutIs
<1> DEFINE X == Seq(Messages)
<1>2. X \subseteq Seq(Messages) /\ ms \in X /\ \A x \in X : Droppable(x) # {} => DropOldestUnit(x) \in X
  BY <1>1
<1> HIDE DEF X
<1>3. CompactToBudget(ms, tools, b) \in X
  BY <1>2, CompactKeeps
<1> QED
  BY <1>3 DEF X

\* What a turn stores are rows.
LEMMA TurnRowsType ==
    ASSUME NEW ms \in Seq(Messages), turn \in Nat
    PROVE  TurnRows(ms) \in Seq(Rows)
<1> DEFINE kept == Picked(ms, {i \in DOMAIN ms : BelongsInStoredHistory(ms, i)})
<1>1. kept \in Seq(Messages)
  BY PickedType
<1>2. TurnRows(ms) = [k \in DOMAIN kept |-> Row([kept[k] EXCEPT !.turn = turn], TRUE)]
  BY DEF TurnRows
<1> HIDE DEF kept
<1>3. \A m \in Messages : Row([m EXCEPT !.turn = turn], TRUE) \in Rows
  <2>1. \A m \in Messages : [m EXCEPT !.turn = turn] \in Messages
    BY DEF Messages
  <2> QED
    BY <2>1, RowType
<1>4. DOMAIN kept = 1..Len(kept) /\ Len(kept) \in Nat /\ \A k \in 1..Len(kept) : kept[k] \in Messages
  BY <1>1
<1>5. TurnRows(ms) \in [1..Len(kept) -> Rows]
  BY <1>2, <1>3, <1>4
<1> QED
  BY <1>4, <1>5, FunctionIsSequence

\* What PersistCompletedTurn does to a row it keeps.
Completed(r) == IF r.msg.turn = turn /\ r.msg.role = "user" THEN [r EXCEPT !.complete = TRUE] ELSE r

\* persistCompletedTurn, rows before and after.
LEMMA PersistType ==
    ASSUME NEW rs \in Seq(Rows), NEW new \in Seq(Rows)
    PROVE  LET kept == Picked(rs, {i \in DOMAIN rs : ~IsCheckpoint(rs[i])}) IN
           /\ kept \in Seq(Rows)
           /\ [i \in DOMAIN kept |-> Completed(kept[i])] \in Seq(Rows)
           /\ PersistCompletedTurn(rs, new) = [i \in DOMAIN kept |-> Completed(kept[i])] \o new
           /\ PersistCompletedTurn(rs, new) \in Seq(Rows)
<1> DEFINE kept == Picked(rs, {i \in DOMAIN rs : ~IsCheckpoint(rs[i])})
           done == [i \in DOMAIN kept |-> Completed(kept[i])]
<1>1. kept \in Seq(Rows)
  BY PickedType
<1>2. PersistCompletedTurn(rs, new) = done \o new
  BY DEF PersistCompletedTurn, Completed
<1> HIDE DEF kept
<1>3. \A r \in Rows : Completed(r) \in Rows
  BY DEF Rows, Completed
<1>4. DOMAIN kept = 1..Len(kept) /\ Len(kept) \in Nat /\ \A k \in 1..Len(kept) : kept[k] \in Rows
  BY <1>1
<1>5. done \in [1..Len(kept) -> Rows]
  BY <1>3, <1>4
<1>6. done \in Seq(Rows)
  BY <1>4, <1>5, FunctionIsSequence
<1> HIDE DEF done
<1>7. done \o new \in Seq(Rows)
  BY <1>6
<1> QED
  BY <1>1, <1>2, <1>6, <1>7 DEF kept, done

\* What RunTools appends for the calls.
Results(calls, size) ==
    [i \in DOMAIN calls |-> [Message(turn, "tool", size) EXCEPT !.answers = calls[i]]]

\* One result per call, answering it.
LEMMA ResultsType ==
    ASSUME turn \in Nat, NEW calls \in Seq(Calls), NEW size \in Nat
    PROVE  /\ Results(calls, size) \in Seq(Messages) /\ Len(Results(calls, size)) = Len(calls)
           /\ \A i \in 1..Len(calls) :
                 LET r == Results(calls, size)[i] IN
                 /\ r.role = "tool" /\ r.calls = <<>> /\ r.answers = calls[i]
                 /\ r.origin = "turn" /\ r.turn = turn
<1>1. DOMAIN calls = 1..Len(calls) /\ Len(calls) \in Nat /\ \A i \in 1..Len(calls) : calls[i] \in Calls
  OBVIOUS
<1>2. \A c \in Calls : [Message(turn, "tool", size) EXCEPT !.answers = c] \in Messages
  <2>1. <<>> \in Seq(Calls)
    OBVIOUS
  <2> QED
    BY <2>1 DEF Message, Messages
<1>3. Results(calls, size) \in [1..Len(calls) -> Messages]
  BY <1>1, <1>2 DEF Results
<1>4. \A i \in 1..Len(calls) :
         LET r == Results(calls, size)[i] IN
         /\ r.role = "tool" /\ r.calls = <<>> /\ r.answers = calls[i]
         /\ r.origin = "turn" /\ r.turn = turn
  BY <1>1 DEF Results, Message
<1> QED
  BY <1>1, <1>3, <1>4, FunctionIsSequence

-----------------------------------------------------------------------------
(* The type invariant                                                       *)

\* The last round answers, and only a turn that replied runs tools.
Typed ==
    /\ TypeOK
    /\ phase # "idle" => turn \in 1..MaxTurns
    /\ phase \in {"asking", "sent", "tools"} => round < MaxRounds
    /\ phase = "tools" => messages # <<>>

\* The first state is typed.
LEMMA TypedInit == Init => Typed
<1> SUFFICES ASSUME Init PROVE Typed
  OBVIOUS
<1> USE DEF Init
<1>1. rows \in Seq(Rows) /\ budget \in Budgets /\ phase = "idle" /\ turn \in 0..MaxTurns /\ round \in 0..MaxRounds
  BY HistoryAssumption
<1>2. messages \in Seq(Messages)
  OBVIOUS
<1>3. shown \in [1..MaxTurns -> Seq(Messages)]
  OBVIOUS
<1>4. prompt \in PromptType
  <2>1. <<>> \in Replayable /\ Question(0) \in Messages
    BY ReplayableConcat, MessageType
  <2> QED
    BY <1>1, <2>1, SelectionType
<1> QED
  BY <1>1, <1>2, <1>3, <1>4 DEF Typed, TypeOK, PromptType

\* Every step keeps the types.
LEMMA TypedNext == Typed /\ [Next]_vars => Typed'
<1> SUFFICES ASSUME Typed, [Next]_vars PROVE Typed'
  OBVIOUS
<1> USE DEF Typed
<1>0. /\ rows \in Seq(Rows) /\ budget \in Budgets /\ turn \in 0..MaxTurns /\ turn \in Nat
      /\ phase \in {"idle", "asking", "sent", "tools", "done"}
      /\ round \in 0..MaxRounds /\ prompt \in PromptType /\ messages \in Seq(Messages)
      /\ shown \in [1..MaxTurns -> Seq(Messages)]
      /\ MaxTurns \in Nat /\ MaxRounds \in Nat \ {0}
  BY HistoryAssumption DEF TypeOK, PromptType
<1>a. \A t \in Nat, role \in {"system", "user", "assistant", "tool"} : Message(t, role, 1) \in Messages
  BY MessageType
<1>1. ASSUME NEW b \in Budgets, UpdateSettings(b) PROVE Typed'
  BY <1>1 DEF UpdateSettings, TypeOK
<1>2. CASE Ask
  <2>0. /\ phase = "idle" /\ turn < MaxTurns /\ turn' = turn + 1 /\ round' = 0
        /\ prompt' = SelectPromptHistory(LoadHistory(rows), Question(turn + 1), budget)
        /\ messages' = BuildPrompt(prompt'.history, Question(turn + 1))
        /\ rows' = Append(rows, Row(Question(turn + 1), FALSE))
        /\ phase' = "asking" /\ UNCHANGED <<budget, shown>>
    BY <1>2 DEF Ask
  <2>1. turn + 1 \in 1..MaxTurns /\ turn + 1 \in Nat /\ turn' = turn + 1
    BY <1>0, <2>0
  <2>2. Question(turn + 1) \in Messages /\ Row(Question(turn + 1), FALSE) \in Rows
    BY <2>1, MessageType, RowType
  <2>3. prompt' \in PromptType /\ prompt'.history \in Replayable
    BY <1>0, <2>0, <2>2, HistoryIsReplayable, SelectionType
  <2>4. messages' \in Seq(Messages)
    <3>1. messages' = BuildPrompt(prompt'.history, Question(turn + 1))
      BY <2>0
    <3> QED
      BY <2>2, <2>3, <3>1, BuildPromptIs
  <2>5. rows' \in Seq(Rows)
    <3>1. \A r \in Rows : Append(rows, r) \in Seq(Rows)
      BY <1>0
    <3> QED
      BY <2>0, <2>2, <3>1, Zenon
  <2>6. phase' = "asking" /\ round' = 0 /\ UNCHANGED <<budget, shown>>
    BY <2>0
  <2>7. 0 < MaxRounds /\ 0 \in 0..MaxRounds /\ turn' \in 0..MaxTurns /\ turn' \in 1..MaxTurns
    BY <1>0, <2>1
  <2> QED
    BY <1>0, <2>3, <2>4, <2>5, <2>6, <2>7 DEF TypeOK, PromptType
<1>3. CASE Demo
  <2> DEFINE r == Row(Question(turn + 1), TRUE)
             m == Message(turn + 1, "assistant", 1)
             s == Row(m, TRUE)
  <2>0. /\ phase = "idle" /\ turn < MaxTurns /\ turn' = turn + 1
        /\ rows' = rows \o <<r, s>>
        /\ shown' = [shown EXCEPT ![turn + 1] = <<m>>]
        /\ UNCHANGED <<budget, phase, round, prompt, messages>>
    BY <1>3 DEF Demo
  <2>1. turn + 1 \in 1..MaxTurns /\ turn + 1 \in Nat /\ turn' = turn + 1
    BY <1>0, <2>0
  <2>2. r \in Rows /\ m \in Messages /\ s \in Rows
    BY <2>1, MessageType, RowType
  <2> HIDE DEF r, m, s
  <2>3. rows' \in Seq(Rows)
    <3>1. <<r, s>> \in Seq(Rows)
      BY <2>2
    <3>2. \A t \in Seq(Rows) : rows \o t \in Seq(Rows)
      BY <1>0
    <3> QED
      BY <2>0, <3>1, <3>2, Zenon
  <2>4. shown' \in [1..MaxTurns -> Seq(Messages)]
    <3>1. <<m>> \in Seq(Messages)
      BY <2>2
    <3> QED
      BY <1>0, <2>0, <3>1
  <2>5. turn' \in 0..MaxTurns /\ phase' = "idle"
    BY <1>0, <2>0, <2>1
  <2> QED
    BY <1>0, <2>0, <2>3, <2>4, <2>5 DEF TypeOK, PromptType
<1>4. CASE Send
  <2>1. messages' \in Seq(Messages)
    BY <1>0, <1>4, CompactType DEF Send
  <2> QED
    BY <1>0, <1>4, <2>1 DEF Send, TypeOK, PromptType
<1>5. CASE Checkpoint
  <2>1. Row(Message(turn, "assistant", 1), FALSE) \in Rows
    BY <1>0, MessageType, RowType
  <2>2. rows' \in Seq(Rows)
    <3>1. \A r \in Rows : Append(rows, r) \in Seq(Rows)
      BY <1>0
    <3> QED
      BY <1>5, <2>1, <3>1, Zenon DEF Checkpoint
  <2> QED
    BY <1>0, <1>5, <2>2 DEF Checkpoint, TypeOK, PromptType
<1>6. ASSUME NEW calls \in CallLists, NEW empty \in BOOLEAN, Reply(calls, empty) PROVE Typed'
  <2> DEFINE m == [Message(turn, "assistant", 1) EXCEPT !.calls = calls, !.empty = empty]
  <2>1. m \in Messages
    <3>1. calls \in Seq(Calls)
      BY HistoryAssumption
    <3> QED
      BY <1>0, <3>1 DEF Message, Messages
  <2>2. /\ phase = "sent" /\ messages' = Append(messages, m)
        /\ shown' = [shown EXCEPT ![turn] = Append(@, m)]
        /\ round' = round + 1 /\ (round + 1 = MaxRounds => calls = <<>>)
        /\ phase' = IF calls = <<>> THEN "done" ELSE "tools"
        /\ UNCHANGED <<rows, budget, turn, prompt>>
    BY <1>6 DEF Reply
  <2> HIDE DEF m
  <2>3. messages' \in Seq(Messages) /\ messages' # <<>>
    <3>1. Append(messages, m) \in Seq(Messages) /\ Append(messages, m) # <<>>
      BY <1>0, <2>1
    <3> QED
      BY <2>2, <3>1
  <2>4. shown' \in [1..MaxTurns -> Seq(Messages)]
    BY <1>0, <2>1, <2>2
  <2>5. round' \in 0..MaxRounds /\ (phase' = "tools" => round' < MaxRounds)
    BY <1>0, <2>2
  <2>6. phase' \in {"done", "tools"}
    BY <2>2
  <2> QED
    BY <1>0, <2>2, <2>3, <2>4, <2>5, <2>6 DEF TypeOK, PromptType
<1>7. ASSUME NEW size \in ResultSizes, NEW injects \in BOOLEAN, RunTools(size, injects) PROVE Typed'
  <2> DEFINE calls == messages[Len(messages)].calls
             note == [Message(turn, "system", 1) EXCEPT !.origin = "injection"]
             notes == IF injects THEN <<note>> ELSE <<>>
  <2>1. /\ phase = "tools" /\ messages' = messages \o Results(calls, size) \o notes
        /\ shown' = [shown EXCEPT ![turn] = @ \o Results(calls, size)]
        /\ phase' = "asking" /\ UNCHANGED <<rows, budget, turn, round, prompt>>
    BY <1>7 DEF RunTools, Results
  <2>2. calls \in Seq(Calls)
    <3>1. Len(messages) \in 1..Len(messages)
      BY <1>0, <2>1
    <3> QED
      BY <1>0, <3>1, CallsLength
  <2>3. size \in Nat
    BY HistoryAssumption
  <2>4. Results(calls, size) \in Seq(Messages)
    BY <1>0, <2>2, <2>3, ResultsType
  <2>5. notes \in Seq(Messages)
    <3>1. note \in Messages
      <4>1. <<>> \in Seq(Calls)
        OBVIOUS
      <4> QED
        BY <1>0, <4>1 DEF Message, Messages
    <3> HIDE DEF note
    <3> QED
      BY <3>1
  <2> HIDE DEF notes, calls
  <2>6. messages' \in Seq(Messages)
    BY <1>0, <2>1, <2>4, <2>5
  <2>7. shown' \in [1..MaxTurns -> Seq(Messages)]
    <3>1. turn \in 1..MaxTurns /\ shown[turn] \o Results(calls, size) \in Seq(Messages)
      BY <1>0, <2>1, <2>4
    <3> QED
      BY <1>0, <2>1, <3>1
  <2> QED
    BY <1>0, <2>1, <2>6, <2>7 DEF TypeOK, PromptType
<1>8. CASE Persist
  <2>1. rows' \in Seq(Rows)
    BY <1>0, <1>8, TurnRowsType, PersistType DEF Persist
  <2>2. <<>> \in Seq(Messages)
    OBVIOUS
  <2> QED
    BY <1>0, <1>8, <2>1, <2>2 DEF Persist, TypeOK, PromptType
<1>9. CASE Fail
  <2>2. <<>> \in Seq(Messages)
    OBVIOUS
  <2> QED
    BY <1>0, <1>9, <2>2 DEF Fail, TypeOK, PromptType
<1>10. CASE UNCHANGED vars
  BY <1>10 DEF vars, TypeOK
<1> QED
  BY <1>1, <1>2, <1>3, <1>4, <1>5, <1>6, <1>7, <1>8, <1>9, <1>10 DEF Next

\* The types of the chat's rows, its settings, the turn under way and what the
\* client was shown.
THEOREM TypeCorrect == Spec => []TypeOK
<1>1. Spec => []Typed
  BY TypedInit, TypedNext, PTL DEF Spec
<1>2. Typed => TypeOK
  BY DEF Typed
<1> QED
  BY <1>1, <1>2, PTL

-----------------------------------------------------------------------------
(* The selection                                                            *)

\* The prompt under way is what is selected from the history now stored: what
\* the turn has stored of itself so far is not complete.
Selected ==
    phase # "idle" =>
        prompt = SelectPromptHistory(LoadHistory(rows), Question(turn), prompt.budget)

\* Nothing a turn does changes what its selection was made from.
LEMMA SelectedNext == Typed /\ Selected /\ [Next]_vars => Selected'
<1> SUFFICES ASSUME Typed, Selected, [Next]_vars PROVE Selected'
  OBVIOUS
<1>0. rows \in Seq(Rows) /\ budget \in Budgets /\ turn \in Nat /\ MaxTurns \in Nat
  BY HistoryAssumption DEF Typed, TypeOK
<1>1. ASSUME NEW b \in Budgets, UpdateSettings(b) PROVE Selected'
  BY <1>1 DEF UpdateSettings, Selected
<1>2. CASE Ask
  <2> DEFINE q == Question(turn + 1)
             r == Row(q, FALSE)
             h == LoadHistory(rows)
  <2>1. /\ turn' = turn + 1 /\ prompt' = SelectPromptHistory(h, q, budget)
        /\ rows' = Append(rows, r)
    BY <1>2 DEF Ask
  <2>2. q \in Messages /\ r \in Rows /\ ~r.complete
    <3>1. turn + 1 \in Nat
      BY <1>0
    <3>2. q \in Messages
      BY <3>1, MessageType
    <3> QED
      BY <3>2, RowType
  <2>3. Question(turn') = q
    BY <2>1
  <2> HIDE DEF q, r
  <2>4. LoadHistory(rows') = h
    BY <1>0, <2>1, <2>2, IncompleteIsNotLoaded
  <2>5. h \in Replayable
    BY <1>0, HistoryIsReplayable
  <2> HIDE DEF h
  <2>6. prompt'.budget = budget
    BY <1>0, <2>1, <2>2, <2>5, SelectionType
  <2> QED
    BY <2>1, <2>3, <2>4, <2>6 DEF Selected
<1>3. CASE Demo
  BY <1>3 DEF Demo, Selected
<1>4. CASE Send
  BY <1>4 DEF Send, Selected
<1>5. CASE Checkpoint
  <2> DEFINE r == Row(Message(turn, "assistant", 1), FALSE)
  <2>1. /\ phase # "idle" /\ rows' = Append(rows, r) /\ UNCHANGED <<turn, prompt>>
    BY <1>5 DEF Checkpoint
  <2>2. r \in Rows /\ ~r.complete
    BY <1>0, MessageType, RowType
  <2> HIDE DEF r
  <2>3. LoadHistory(rows') = LoadHistory(rows)
    BY <1>0, <2>1, <2>2, IncompleteIsNotLoaded
  <2> QED
    BY <2>1, <2>3 DEF Selected
<1>6. ASSUME NEW calls \in CallLists, NEW empty \in BOOLEAN, Reply(calls, empty) PROVE Selected'
  BY <1>6 DEF Reply, Selected
<1>7. ASSUME NEW size \in ResultSizes, NEW injects \in BOOLEAN, RunTools(size, injects) PROVE Selected'
  BY <1>7 DEF RunTools, Selected
<1>8. CASE Persist
  BY <1>8 DEF Persist, Selected
<1>9. CASE Fail
  BY <1>9 DEF Fail, Selected
<1>10. CASE UNCHANGED vars
  BY <1>10 DEF vars, Selected
<1> QED
  BY <1>1, <1>2, <1>3, <1>4, <1>5, <1>6, <1>7, <1>8, <1>9, <1>10 DEF Next

\* The prompt of every turn is the longest end of the stored history that
\* starts with a message and fits the turn's budget, whatever the rows, the
\* budget and the calls, and the four counts reported with it are exact.
THEOREM PromptIsLongestEnd == Spec => []SelectionIsLongest
<1>1. Init => Selected
  BY DEF Init, Selected
<1>2. ASSUME Typed, Selected PROVE SelectionIsLongest
  <2> SUFFICES ASSUME phase # "idle" PROVE SelectionIsLongest
    BY DEF SelectionIsLongest
  <2>0. /\ rows \in Seq(Rows) /\ turn \in 0..MaxTurns /\ prompt.budget \in Budgets
    BY <1>2 DEF Typed, TypeOK
  <2>1. /\ rows \in Seq(Rows) /\ turn \in Nat /\ prompt.budget \in Nat
    <3>1. MaxTurns \in Nat /\ \A b \in Budgets : b \in Nat
      BY HistoryAssumption
    <3> QED
      BY <2>0, <3>1
  <2>2. Question(turn) \in Messages /\ Question(turn).size = 1
    BY <2>1, MessageType
  <2> DEFINE h == LoadHistory(rows)
  <2>3. h \in Replayable
    BY <2>1, HistoryIsReplayable
  <2>4. prompt = SelectPromptHistory(h, Question(turn), prompt.budget)
    BY <1>2 DEF Selected
  <2> HIDE DEF h
  <2>5. IsLongest(h, SelectPromptHistory(h, Question(turn), prompt.budget), prompt.budget)
    BY <2>1, <2>2, <2>3, SelectsLongest
  <2>6. IsLongest(h, prompt, prompt.budget)
    BY <2>4, <2>5
  <2> QED
    BY <2>6, Zenon DEF IsLongest, SelectionIsLongest, From, h
<1> QED
  BY <1>1, <1>2, TypedInit, TypedNext, SelectedNext, PTL DEF Spec

-----------------------------------------------------------------------------
(* What a turn added itself                                                 *)

\* A set of positions that has all of an exchange or nothing of it.
Whole(ms, I) ==
    \A i \in 1..Len(ms) : \A k \in i..(i + Len(ms[i].calls)) : k \in I <=> i \in I

\* What turn t added itself: replies and results, and exchanges it added are
\* its own throughout.
Own(ms) == {i \in 1..Len(ms) : ms[i].origin = "turn"}

IsOwn(m, t) ==
    /\ m.turn = t /\ m.role \in {"assistant", "tool"} /\ IsInjective(m.calls)
    /\ m.role = "assistant" => m.answers = NoCall

Owned(ms, t) ==
    /\ Whole(ms, Own(ms))
    /\ \A i \in 1..Len(ms) : ms[i].origin = "turn" => IsOwn(ms[i], t)

\* Owned, each message by itself.
LEMMA OwnedIs ==
    ASSUME NEW ms, Sound(ms), NEW t
    PROVE  Owned(ms, t) <=>
             \A i \in 1..Len(ms) :
                /\ \A k \in i..(i + Len(ms[i].calls)) : ms[k].origin = "turn" <=> ms[i].origin = "turn"
                /\ ms[i].origin = "turn" => IsOwn(ms[i], t)
<1>1. ms \in Seq(Messages) /\ Len(ms) \in Nat
  BY DEF Sound
<1>2. \A i \in 1..Len(ms) : Len(ms[i].calls) \in Nat /\ i + Len(ms[i].calls) <= Len(ms)
  BY <1>1, PairedIs, CallsLength DEF Sound, Answered
<1>3. \A i \in 1..Len(ms) : \A k \in i..(i + Len(ms[i].calls)) : k \in 1..Len(ms)
  BY <1>1, <1>2
<1>4. \A i \in 1..Len(ms) : i \in Own(ms) <=> ms[i].origin = "turn"
  BY DEF Own
<1>5. Whole(ms, Own(ms)) <=>
         \A i \in 1..Len(ms) : \A k \in i..(i + Len(ms[i].calls)) :
             ms[k].origin = "turn" <=> ms[i].origin = "turn"
  BY <1>3, <1>4 DEF Whole
<1> QED
  BY <1>5 DEF Owned

\* A part of a sound list, from j + 1 on, that keeps exchanges together.
LEMMA OwnedPart ==
    ASSUME NEW ms, Sound(ms), NEW t, Owned(ms, t), NEW p, Sound(p), NEW j \in Nat,
           j + Len(p) <= Len(ms), \A i \in 1..Len(p) : p[i] = ms[j + i]
    PROVE  Owned(p, t)
<1>1. ms \in Seq(Messages) /\ Len(ms) \in Nat /\ p \in Seq(Messages) /\ Len(p) \in Nat
  BY DEF Sound
<1>2. \A i \in 1..Len(p) : Len(p[i].calls) \in Nat /\ i + Len(p[i].calls) <= Len(p)
  BY <1>1, PairedIs, CallsLength DEF Sound, Answered
<1>3. \A i \in 1..Len(ms) :
         /\ \A k \in i..(i + Len(ms[i].calls)) : ms[k].origin = "turn" <=> ms[i].origin = "turn"
         /\ ms[i].origin = "turn" => IsOwn(ms[i], t)
  BY OwnedIs
<1>4. ASSUME NEW i \in 1..Len(p)
      PROVE  /\ \A k \in i..(i + Len(p[i].calls)) : p[k].origin = "turn" <=> p[i].origin = "turn"
             /\ p[i].origin = "turn" => IsOwn(p[i], t)
  <2>1. j + i \in 1..Len(ms) /\ p[i] = ms[j + i]
    BY <1>1
  <2> DEFINE n == Len(p[i].calls)
  <2>2. n \in Nat /\ i + n <= Len(p) /\ n = Len(ms[j + i].calls)
    BY <1>2, <2>1
  <2>3. ms[j + i].origin = "turn" => IsOwn(ms[j + i], t)
    BY <1>3, <2>1
  <2>4. \A k \in (j + i)..(j + i + n) : ms[k].origin = "turn" <=> ms[j + i].origin = "turn"
    BY <1>3, <2>1, <2>2
  <2> HIDE DEF n
  <2>5. ASSUME NEW k \in i..(i + n) PROVE p[k].origin = "turn" <=> p[i].origin = "turn"
    <3>0. k \in Nat /\ i \in Nat /\ i <= k /\ k <= i + n /\ 1 <= i /\ Len(p) \in Nat
      BY <1>1, <2>2
    <3>1. k \in 1..Len(p) /\ j + k \in (j + i)..(j + i + n)
      <4>1. n \in Nat /\ i + n <= Len(p) /\ j \in Nat
        BY <2>2
      <4>2. k \in 1..Len(p)
        BY <3>0, <4>1
      <4>3. j + k \in (j + i)..(j + i + n)
        BY <3>0, <4>1
      <4> QED
        BY <4>2, <4>3
    <3>2. p[k] = ms[j + k]
      BY <3>1
    <3> QED
      BY <2>1, <2>4, <3>1, <3>2
  <2> QED
    BY <2>1, <2>3, <2>5 DEF n
<1> QED
  BY <1>4, OwnedIs

\* Two owned lists after one another are owned.
LEMMA OwnedConcat ==
    ASSUME NEW s, NEW r, Sound(s), Sound(r), NEW t, Owned(s, t), Owned(r, t)
    PROVE  Owned(s \o r, t)
<1> DEFINE m == Len(s)
           w == s \o r
<1>1. s \in Seq(Messages) /\ r \in Seq(Messages)
  BY DEF Sound
<1>2. /\ m \in Nat /\ Len(r) \in Nat /\ w \in Seq(Messages) /\ Len(w) = m + Len(r)
      /\ \A i \in 1..m : w[i] = s[i]
      /\ \A i \in 1..Len(r) : w[m + i] = r[i]
  BY <1>1
<1>3. /\ \A i \in 1..m : Len(s[i].calls) \in Nat /\ i + Len(s[i].calls) <= m
      /\ \A i \in 1..Len(r) : Len(r[i].calls) \in Nat /\ i + Len(r[i].calls) <= Len(r)
  BY <1>1, PairedIs, CallsLength DEF Sound, Answered
<1>4. Sound(w)
  BY SoundConcat
<1>5. /\ \A i \in 1..m :
            /\ \A k \in i..(i + Len(s[i].calls)) : s[k].origin = "turn" <=> s[i].origin = "turn"
            /\ s[i].origin = "turn" => IsOwn(s[i], t)
      /\ \A i \in 1..Len(r) :
            /\ \A k \in i..(i + Len(r[i].calls)) : r[k].origin = "turn" <=> r[i].origin = "turn"
            /\ r[i].origin = "turn" => IsOwn(r[i], t)
  BY OwnedIs
<1> HIDE DEF m, w
<1>6. ASSUME NEW i \in 1..Len(w)
      PROVE  /\ \A k \in i..(i + Len(w[i].calls)) : w[k].origin = "turn" <=> w[i].origin = "turn"
             /\ w[i].origin = "turn" => IsOwn(w[i], t)
  <2>1. CASE i <= m
    <3>1. i \in 1..m /\ w[i] = s[i]
      BY <1>2, <2>1
    <3> DEFINE n == Len(s[i].calls)
    <3>2. n \in Nat /\ i + n <= m /\ n = Len(w[i].calls)
      BY <1>3, <3>1
    <3> HIDE DEF n
    <3>3. ASSUME NEW k \in i..(i + n) PROVE w[k].origin = "turn" <=> w[i].origin = "turn"
      <4>1. k \in 1..m
        BY <1>2, <3>1, <3>2
      <4>2. w[k] = s[k]
        BY <1>2, <4>1
      <4> QED
        BY <1>5, <3>1, <4>2 DEF n
    <3> QED
      BY <1>5, <3>1, <3>2, <3>3
  <2>2. CASE i > m
    <3> DEFINE j == i - m
               n == Len(r[j].calls)
    <3>1. j \in 1..Len(r) /\ m + j = i /\ w[i] = r[j]
      BY <1>2, <2>2
    <3>2. n \in Nat /\ j + n <= Len(r) /\ n = Len(w[i].calls)
      BY <1>3, <3>1
    <3>4. r[j].origin = "turn" => IsOwn(r[j], t)
      BY <1>5, <3>1
    <3>5. \A k \in j..(j + n) : r[k].origin = "turn" <=> r[j].origin = "turn"
      BY <1>5, <3>1
    <3> HIDE DEF n, j
    <3>3. ASSUME NEW k \in i..(i + n) PROVE w[k].origin = "turn" <=> w[i].origin = "turn"
      <4>1. k - m \in 1..Len(r) /\ k - m \in j..(j + n) /\ m + (k - m) = k
        BY <1>2, <3>1, <3>2
      <4>2. w[k] = r[k - m]
        BY <1>2, <4>1
      <4> QED
        BY <3>1, <3>5, <4>1, <4>2
    <3> QED
      BY <3>1, <3>2, <3>3, <3>4
  <2> QED
    BY <1>2, <2>1, <2>2
<1> QED
  BY <1>4, <1>6, OwnedIs DEF w

\* And so what is left after an exchange is taken out.
LEMMA OwnedWithout ==
    ASSUME NEW ms, Sound(ms), NEW t, Owned(ms, t), NEW d \in 1..Len(ms), NEW e \in d..Len(ms),
           Sound(SubSeq(ms, 1, d - 1)), Sound(SubSeq(ms, e + 1, Len(ms)))
    PROVE  Owned(Without(ms, d, e), t)
<1>1. ms \in Seq(Messages) /\ Len(ms) \in Nat
  BY DEF Sound
<1> DEFINE s == SubSeq(ms, 1, d - 1)
           r == SubSeq(ms, e + 1, Len(ms))
<1>2. Len(s) = d - 1 /\ \A i \in 1..Len(s) : s[i] = ms[0 + i]
  BY <1>1
<1>3. Len(r) = Len(ms) - e /\ \A i \in 1..Len(r) : r[i] = ms[e + i]
  BY <1>1
<1> HIDE DEF s, r
<1>4. Owned(s, t)
  <2>1. Sound(s) /\ 0 \in Nat /\ 0 + Len(s) <= Len(ms)
    BY <1>1, <1>2 DEF s
  <2> QED
    BY <1>2, <2>1, OwnedPart
<1>5. Owned(r, t)
  <2>1. Sound(r) /\ e \in Nat /\ e + Len(r) <= Len(ms)
    BY <1>1, <1>3 DEF r
  <2> QED
    BY <1>3, <2>1, OwnedPart
<1> QED
  BY <1>4, <1>5, OwnedConcat DEF Without, s, r

-----------------------------------------------------------------------------
(* What the limit keeps                                                     *)

\* The exchange x is what is at c, and no calls come after it.
Holds(ms, x, c) ==
    /\ ms[c].calls # <<>> /\ Len(x) = Len(ms[c].calls) + 1
    /\ c + Len(ms[c].calls) <= Len(ms)
    /\ \A k \in 1..Len(x) : ms[c + k - 1] = x[k]
    /\ \A k \in (c + 1)..Len(ms) : ms[k].calls = <<>>

\* The system prompt, the question and after it, if there is one, the exchange.
Asks(ms, q, u) ==
    /\ ms[1] = System /\ ms[u] = q
    /\ \A k \in (u + 1)..Len(ms) : ms[k].role # "user"

Keeps(ms, q, x) ==
    /\ Sound(ms) /\ Owned(ms, q.turn)
    /\ \E u \in 2..Len(ms) :
          /\ Asks(ms, q, u)
          /\ x # <<>> => \E c \in (u + 1)..Len(ms) : Holds(ms, x, c)

\* The question is the list's last, and the exchange its latest.
LEMMA LastsAre ==
    ASSUME NEW ms, Sound(ms), NEW q, NEW u \in 2..Len(ms), Asks(ms, q, u),
           q.role = "user", q.origin # "injection"
    PROVE  /\ LastUser(ms) = u
           /\ \A x : \A c \in 1..Len(ms) : Holds(ms, x, c) => LastCalling(ms) = c
<1> DEFINE U == {i \in DOMAIN ms : ms[i].role = "user" /\ ms[i].origin # "injection"}
           C == {i \in DOMAIN ms : ms[i].calls # <<>>}
           n == Len(ms)
<1>1. ms \in Seq(Messages) /\ n \in Nat /\ DOMAIN ms = 1..n
  BY DEF Sound
<1> HIDE DEF n
<1>2. ms[u] = q /\ \A k \in (u + 1)..n : ms[k].role # "user"
  BY DEF Asks, n
<1>3. u \in U /\ u \in 1..n /\ U \subseteq 1..n /\ \A j \in U : j <= u
  <2>1. u \in 2..n
    BY DEF n
  <2> QED
    BY <1>1, <1>2, <2>1
<1>4. LastUser(ms) = u
  <2> HIDE DEF U
  <2>1. LastOf(U) \in U /\ \A j \in U : j <= LastOf(U)
    BY <1>1, <1>3, LastOfIs
  <2>2. LastOf(U) \in 1..n /\ u <= LastOf(U) /\ LastOf(U) <= u
    BY <1>3, <2>1
  <2>3. LastOf(U) = u
    BY <1>1, <1>3, <2>2
  <2> QED
    BY <2>3 DEF LastUser, U
<1>5. ASSUME NEW x, NEW c \in 1..Len(ms), Holds(ms, x, c) PROVE LastCalling(ms) = c
  <2>1. ms[c].calls # <<>> /\ \A k \in (c + 1)..n : ms[k].calls = <<>>
    BY <1>5 DEF Holds, n
  <2>2. c \in C /\ c \in 1..n /\ C \subseteq 1..n /\ \A j \in C : j <= c
    <3>1. c \in 1..n
      BY DEF n
    <3> QED
      BY <1>1, <2>1, <3>1
  <2> HIDE DEF C
  <2>3. LastOf(C) \in C /\ \A j \in C : j <= LastOf(C)
    BY <1>1, <2>2, LastOfIs
  <2>4. LastOf(C) \in 1..n /\ c <= LastOf(C) /\ LastOf(C) <= c
    BY <2>2, <2>3
  <2>5. LastOf(C) = c
    BY <1>1, <2>2, <2>4
  <2> QED
    BY <2>5 DEF LastCalling, C
<1> QED
  BY <1>4, <1>5

\* The oldest message that may go is no result: the message that called for
\* it would be older, and may go as well.
LEMMA OldestIsNoResult ==
    ASSUME NEW ms, Sound(ms), NEW q, NEW u \in 2..Len(ms), Asks(ms, q, u),
           q.role = "user", q.origin # "injection",
           NEW d \in 1..Len(ms), IsOldest(ms, d)
    PROVE  ms[d].role # "tool"
<1> SUFFICES ASSUME ms[d].role = "tool" PROVE FALSE
  OBVIOUS
<1>1. /\ ms \in Seq(Messages) /\ Len(ms) \in Nat /\ DOMAIN ms = 1..Len(ms)
      /\ \A k \in 1..Len(ms) : ms[k].calls # <<>> => ms[k].role = "assistant"
  BY DEF Sound, Tidy
<1>2. PICK i \in 1..(d - 1) : d <= i + Len(ms[i].calls)
  BY <1>1, PairedIs DEF Sound
<1>3. i \in 1..Len(ms) /\ i < d /\ Len(ms[i].calls) \in Nat /\ Len(ms[i].calls) # 0
  <2>1. i \in 1..Len(ms) /\ i < d
    BY <1>1, <1>2
  <2> QED
    BY <1>1, <1>2, <2>1, CallsLength
<1>4. ms[i].calls # <<>> /\ ms[i].role = "assistant"
  BY <1>1, <1>3, CallsLength
<1>5. ms[i].origin # "injection"
  <2>1. ms[i] \in Messages
    BY <1>1, <1>3
  <2>2. \A m \in Messages : m.origin = "injection" => m.role = "system"
    BY DEF Messages
  <2> QED
    BY <1>4, <2>1, <2>2
<1>6. LastUser(ms) = u /\ ms[u] = q
  BY LastsAre DEF Asks
<1>7. i # LastUser(ms)
  BY <1>4, <1>6
<1>8. ~IsLiveToolExchange(ms, i)
  <2> SUFFICES ASSUME IsLiveToolExchange(ms, i) PROVE FALSE
    OBVIOUS
  <2> DEFINE c == LastCalling(ms)
             C == {k \in DOMAIN ms : ms[k].calls # <<>>}
  <2>1. c > 0 /\ c >= LastUser(ms) /\ i \in c..UnitEnd(ms, c)
    BY DEF IsLiveToolExchange
  <2>2. i \in C /\ C \subseteq 1..Len(ms) /\ c = LastOf(C)
    BY <1>1, <1>3, <1>4 DEF LastCalling
  <2>3. c \in C /\ i <= c
    <3> HIDE DEF C, c
    <3> QED
      BY <1>1, <2>2, LastOfIs
  <2>4. c \in 1..Len(ms) /\ i \in 1..Len(ms)
    BY <2>2, <2>3
  <2> HIDE DEF c, C
  <2>5. c \in Nat /\ UnitEnd(ms, c) \in Nat
    BY <1>1, <2>4, UnitEndIs
  <2>6. i = c
    BY <2>1, <2>3, <2>4, <2>5
  <2>7. UnitEnd(ms, i) = i + Len(ms[i].calls)
    BY <1>3, <1>4, SoundUnit
  <2>8. d \in c..UnitEnd(ms, c)
    BY <1>2, <1>3, <2>6, <2>7
  <2>9. IsLiveToolExchange(ms, d)
    BY <2>1, <2>8 DEF IsLiveToolExchange, c
  <2>10. ~IsLiveToolExchange(ms, d)
    BY DEF IsOldest, Droppable
  <2> QED
    BY <2>9, <2>10
<1>9. i \in Droppable(ms)
  BY <1>1, <1>3, <1>4, <1>5, <1>7, <1>8 DEF Droppable
<1> QED
  BY <1>3, <1>9 DEF IsOldest

\* Dropping the oldest unit keeps the question and the latest exchange.
LEMMA DropKeeps ==
    ASSUME NEW ms, NEW q, NEW x, Keeps(ms, q, x), q.role = "user", q.origin # "injection",
           Droppable(ms) # {}
    PROVE  Keeps(DropOldestUnit(ms), q, x)
<1> DEFINE n == Len(ms)
<1>1. PICK u \in 2..Len(ms) :
         Asks(ms, q, u) /\ (x # <<>> => \E c \in (u + 1)..Len(ms) : Holds(ms, x, c))
  BY DEF Keeps
<1>2. Sound(ms) /\ ms \in Seq(Messages) /\ n \in Nat /\ u \in 2..n
  BY <1>1 DEF Keeps, Sound
<1>3. PICK d \in 1..Len(ms) :
         IsOldest(ms, d) /\ DropOldestUnit(ms) = Without(ms, d, UnitEnd(ms, d))
  BY <1>2, DropIs
<1> DEFINE e == UnitEnd(ms, d)
           w == Without(ms, d, e)
           New(i) == IF i < d THEN i ELSE i - (e - d + 1)
<1>4. ms[d].role # "tool"
  BY <1>1, <1>2, <1>3, OldestIsNoResult
<1>5. /\ e = d + Len(ms[d].calls) /\ e \in d..n /\ d \in 1..n
      /\ \A k \in (d + 1)..e : ms[k].role = "tool"
      /\ e < n => ms[e + 1].role # "tool"
  BY <1>2, <1>4, SoundUnit
<1>6. /\ w \in Seq(Messages) /\ Len(w) = n - (e - d + 1)
      /\ \A i \in 1..(d - 1) : w[i] = ms[i]
      /\ \A i \in (e + 1)..n : w[i - (e - d + 1)] = ms[i]
  BY <1>2, <1>5, WithoutIs
<1>7. Sound(w) /\ Owned(w, q.turn)
  <2>1. Sound(SubSeq(ms, 1, d - 1))
    <3>1. d - 1 \in 0..Len(ms) /\ (d - 1) + 1 = d
      BY <1>2, <1>5
    <3> QED
      BY <1>2, <1>4, <3>1, SoundPrefix
  <2>2. Sound(SubSeq(ms, e + 1, Len(ms)))
    <3>1. e \in 0..Len(ms)
      BY <1>2, <1>5
    <3> HIDE DEF e
    <3> QED
      BY <1>2, <1>5, <3>1, SoundSuffix
  <2>3. Owned(w, q.turn)
    <3>1. Owned(ms, q.turn)
      BY DEF Keeps
    <3>2. e \in d..Len(ms)
      BY <1>5
    <3> HIDE DEF e
    <3> QED
      BY <1>2, <2>1, <2>2, <3>1, <3>2, OwnedWithout
  <2> QED
    BY <2>1, <2>2, <2>3, SoundConcat DEF Without
<1>8. LastUser(ms) = u /\ ms[u] = q /\ ms[1] = System /\ \A k \in (u + 1)..n : ms[k].role # "user"
  BY <1>1, <1>2, LastsAre DEF Asks
<1>9. d # u /\ d # 1 /\ ~IsLiveToolExchange(ms, d)
  BY <1>3, <1>8 DEF IsOldest, Droppable, System, Message
<1>10. u \notin d..e
  <2>1. u \notin (d + 1)..e
    BY <1>5, <1>8
  <2> QED
    BY <1>2, <1>5, <1>9, <2>1
<1> HIDE DEF n, e, w
\* What is not dropped stays in order.
<1>11. /\ Len(w) \in Nat
       /\ \A i \in 1..n : i \notin d..e => New(i) \in 1..Len(w) /\ w[New(i)] = ms[i]
       /\ \A i, j \in 1..n : i \notin d..e /\ j \notin d..e /\ i < j => New(i) < New(j)
  <2>0. d \in Nat /\ e \in Nat /\ d <= e /\ e <= n /\ 1 <= d
    BY <1>2, <1>5
  <2>1. Len(w) \in Nat
    BY <1>2, <1>6, <2>0
  <2>2. ASSUME NEW i \in 1..n, i \notin d..e PROVE New(i) \in 1..Len(w) /\ w[New(i)] = ms[i]
    <3>1. CASE i < d
      BY <1>2, <1>6, <2>0, <2>2, <3>1
    <3>2. CASE i > e
      BY <1>2, <1>6, <2>0, <2>2, <3>2
    <3> QED
      BY <1>2, <2>0, <2>2, <3>1, <3>2
  <2>3. ASSUME NEW i \in 1..n, NEW j \in 1..n, i \notin d..e, j \notin d..e, i < j
        PROVE  New(i) < New(j)
    BY <1>2, <2>0, <2>3
  <2> HIDE DEF New
  <2> QED
    BY <2>1, <2>2, <2>3
<1>12. \A k \in 1..Len(w) : \E i \in 1..n : i \notin d..e /\ New(i) = k
  <2> SUFFICES ASSUME NEW k \in 1..Len(w) PROVE \E i \in 1..n : i \notin d..e /\ New(i) = k
    OBVIOUS
  <2>1. CASE k < d
    <3>1. k \in 1..n /\ k \notin d..e /\ New(k) = k
      BY <1>2, <1>5, <1>6, <2>1
    <3> QED
      BY <3>1
  <2>2. CASE k >= d
    <3>1. k + (e - d + 1) \in 1..n /\ k + (e - d + 1) \notin d..e /\ New(k + (e - d + 1)) = k
      BY <1>2, <1>5, <1>6, <2>2
    <3> QED
      BY <3>1
  <2> QED
    BY <1>2, <1>5, <1>6, <2>1, <2>2
<1> DEFINE v == New(u)
<1>13. v \in 2..Len(w) /\ Asks(w, q, v)
  <2>1. New(1) = 1 /\ 1 \in 1..n /\ 1 \notin d..e /\ 1 < u
    BY <1>2, <1>5, <1>9
  <2>2. v \in 2..Len(w) /\ w[v] = q /\ w[1] = System
    BY <1>2, <1>8, <1>10, <1>11, <2>1
  <2>3. ASSUME NEW k \in (v + 1)..Len(w) PROVE w[k].role # "user"
    <3>1. k \in 1..Len(w) /\ v < k
      BY <1>11, <2>2
    <3>2. PICK i \in 1..n : i \notin d..e /\ New(i) = k
      BY <1>12, <3>1
    <3>3. i > u
      <4> SUFFICES ASSUME i < u \/ i = u PROVE FALSE
        BY <1>2, <3>2
      <4>1. i < u => New(i) < New(u)
        BY <1>2, <1>10, <1>11, <3>2
      <4> QED
        BY <1>11, <2>2, <3>1, <3>2, <4>1
    <3> QED
      BY <1>2, <1>8, <1>11, <3>2, <3>3
  <2> QED
    BY <2>2, <2>3 DEF Asks
<1>14. ASSUME x # <<>> PROVE \E c \in (v + 1)..Len(w) : Holds(w, x, c)
  <2>1. PICK c \in (u + 1)..Len(ms) : Holds(ms, x, c)
    BY <1>1, <1>14
  <2> DEFINE l == Len(ms[c].calls)
  <2>2. /\ c \in 1..n /\ u < c /\ l \in Nat /\ l # 0 /\ c + l <= n /\ ms[c].calls # <<>>
        /\ Len(x) = l + 1 /\ \A k \in 1..Len(x) : ms[c + k - 1] = x[k]
        /\ \A k \in (c + 1)..n : ms[k].calls = <<>>
    <3>1. c \in 1..Len(ms) /\ u < c
      BY <1>2 DEF n
    <3> QED
      BY <1>2, <2>1, <3>1, CallsLength DEF Holds, n
  <2>3. LastCalling(ms) = c
    <3>1. c \in 1..Len(ms)
      BY <2>2 DEF n
    <3> QED
      BY <1>1, <1>2, <2>1, <3>1, LastsAre
  <2>4. ms[c].role = "assistant"
    BY <1>2, <2>2 DEF Sound, Tidy, n
  <2>5. UnitEnd(ms, c) = c + l
    <3>1. c \in 1..Len(ms) /\ ms[c].role # "tool"
      BY <2>2, <2>4 DEF n
    <3> QED
      BY <1>2, <3>1, SoundUnit
  <2>6. d \notin c..(c + l)
    BY <1>2, <1>8, <1>9, <2>2, <2>3, <2>5 DEF IsLiveToolExchange
  <2>7. c \notin d..e
    <3>1. c \notin (d + 1)..e
      BY <1>5, <2>4
    <3> QED
      BY <1>5, <2>2, <2>6, <3>1
  <2> DEFINE c2 == New(c)
  <2> HIDE DEF l
  <2>8. c2 \in (v + 1)..Len(w) /\ w[c2] = ms[c]
    <3>1. c2 \in 1..Len(w) /\ v < c2 /\ w[c2] = ms[c]
      BY <1>2, <1>10, <1>11, <2>2, <2>7
    <3> QED
      BY <1>11, <1>13, <3>1
  <2>9. \A j \in 0..l : c + j \in 1..n /\ c + j \notin d..e /\ New(c + j) = c2 + j
    <3> SUFFICES ASSUME NEW j \in 0..l
                 PROVE  c + j \in 1..n /\ c + j \notin d..e /\ New(c + j) = c2 + j
      OBVIOUS
    <3>0. d \in Nat /\ e \in Nat /\ d <= e /\ e <= n /\ c \in Nat /\ j \in Nat /\ j <= l /\ c + l <= n /\ 1 <= c
      BY <1>2, <1>5, <2>2
    <3>1. CASE e < c
      BY <1>2, <2>2, <3>0, <3>1
    <3>2. CASE c + l < d
      BY <1>2, <2>2, <3>0, <3>2
    <3> QED
      BY <2>2, <2>6, <2>7, <3>0, <3>1, <3>2
  <2>10. \A j \in 0..l : c2 + j \in 1..Len(w) /\ w[c2 + j] = ms[c + j]
    BY <1>11, <2>9
  <2>11. \A k \in 1..Len(x) : w[c2 + k - 1] = x[k]
    <3> SUFFICES ASSUME NEW k \in 1..Len(x) PROVE w[c2 + k - 1] = x[k]
      OBVIOUS
    <3>1. k - 1 \in 0..l /\ c + (k - 1) = c + k - 1 /\ c2 + (k - 1) = c2 + k - 1
      BY <1>2, <1>5, <2>2
    <3>2. w[c2 + (k - 1)] = ms[c + (k - 1)]
      BY <2>10, <3>1
    <3> QED
      BY <2>2, <3>1, <3>2
  <2>12. ASSUME NEW k \in (c2 + 1)..Len(w) PROVE w[k].calls = <<>>
    <3>1. k \in 1..Len(w) /\ c2 < k
      BY <1>11, <1>13, <2>8
    <3>2. PICK i \in 1..n : i \notin d..e /\ New(i) = k
      BY <1>12, <3>1
    <3>3. i > c
      <4> SUFFICES ASSUME i < c \/ i = c PROVE FALSE
        BY <1>2, <2>2, <3>2
      <4>1. i < c => New(i) < New(c)
        BY <1>2, <1>11, <2>2, <2>7, <3>2
      <4> QED
        BY <1>11, <1>13, <2>8, <3>1, <3>2, <4>1
    <3>4. w[k] = ms[i]
      BY <1>11, <3>2
    <3> QED
      BY <1>2, <2>2, <3>2, <3>3, <3>4
  <2>13. c2 + l <= Len(w)
    BY <1>11, <2>2, <2>10
  <2>14. Holds(w, x, c2)
    <3> HIDE DEF c2
    <3> QED
      BY <2>2, <2>8, <2>11, <2>12, <2>13 DEF Holds, l
  <2> HIDE DEF c2, v
  <2> QED
    BY <2>8, <2>14
<1> HIDE DEF v
<1>15. Keeps(w, q, x)
  BY <1>7, <1>13, <1>14 DEF Keeps
<1> QED
  BY <1>3, <1>15 DEF w, e

\* And so does the limit.
LEMMA CompactKeepsAll ==
    ASSUME NEW ms, NEW q, NEW x, NEW tools, NEW b, Keeps(ms, q, x), q.role = "user", q.origin # "injection"
    PROVE  Keeps(CompactToBudget(ms, tools, b), q, x)
<1> DEFINE X == {l \in Seq(Messages) : Keeps(l, q, x)}
<1>1. X \subseteq Seq(Messages)
  OBVIOUS
<1>2. ms \in X
  BY DEF Keeps, Sound
<1>3. \A l \in X : Droppable(l) # {} => DropOldestUnit(l) \in X
  <2> SUFFICES ASSUME NEW l \in X, Droppable(l) # {} PROVE DropOldestUnit(l) \in X
    OBVIOUS
  <2>1. Keeps(DropOldestUnit(l), q, x)
    BY DropKeeps
  <2>2. DropOldestUnit(l) \in Seq(Messages)
    BY <2>1 DEF Keeps, Sound
  <2> QED
    BY <2>1, <2>2
<1> HIDE DEF X
<1>4. CompactToBudget(ms, tools, b) \in X
  <2>1. ms \in Seq(Messages)
    BY <1>1, <1>2
  <2> QED
    BY <1>1, <1>2, <1>3, <2>1, CompactKeeps
<1> QED
  BY <1>4 DEF X

-----------------------------------------------------------------------------
(* What a round adds                                                        *)

\* Messages that neither call a tool nor answer a call.
Plain(ms) == \A i \in DOMAIN ms : ms[i].calls = <<>> /\ ms[i].role # "tool"

\* Without calls and results there is nothing to pair.
LEMMA PlainIsSound ==
    ASSUME NEW ms \in Seq(Messages), Plain(ms)
    PROVE  Sound(ms)
<1>1. Len(ms) \in Nat /\ DOMAIN ms = 1..Len(ms)
  OBVIOUS
<1>2. \A i \in 1..Len(ms) : ms[i].calls = <<>> /\ ms[i].role # "tool" /\ Len(ms[i].calls) = 0
  BY <1>1 DEF Plain
<1>3. \A i \in 1..Len(ms) : Answered(ms, i, 0)
  <2> SUFFICES ASSUME NEW i \in 1..Len(ms) PROVE Answered(ms, i, 0)
    OBVIOUS
  <2>1. i + 0 <= Len(ms) /\ (i + 1)..(i + 0) = {}
    BY <1>1
  <2>2. ToSet(ms[i].calls) = {}
    <3>1. ms[i].calls = <<>>
      BY <1>2
    <3> QED
      BY <3>1 DEF ToSet
  <2> QED
    BY <2>1, <2>2 DEF Answered
<1>4. \A i \in 1..Len(ms) : Answered(ms, i, Len(ms[i].calls))
  BY <1>2, <1>3
<1>5. Paired(ms)
  BY <1>2, <1>4, PairedIs
<1>6. Tidy(ms)
  BY <1>1, <1>2 DEF Tidy
<1> QED
  BY <1>5, <1>6 DEF Sound

\* A call and its results.
Unit(m, size) == <<m>> \o Results(m.calls, size)

\* A calling message and its results, element by element.
LEMMA UnitIs ==
    ASSUME turn \in Nat, NEW size \in Nat, NEW m \in Messages
    PROVE  /\ Len(m.calls) \in Nat /\ Results(m.calls, size) \in Seq(Messages)
           /\ Unit(m, size) \in Seq(Messages) /\ Len(Unit(m, size)) = Len(m.calls) + 1
           /\ Unit(m, size)[1] = m
           /\ \A k \in 1..Len(m.calls) :
                 /\ Unit(m, size)[k + 1].role = "tool"
                 /\ Unit(m, size)[k + 1].calls = <<>>
                 /\ Unit(m, size)[k + 1].answers = m.calls[k]
<1> DEFINE R == Results(m.calls, size)
           one == <<m>>
<1>1. m.calls \in Seq(Calls) /\ Len(m.calls) \in Nat
  <2>1. m.calls \in Seq(Calls)
    BY DEF Messages
  <2> QED
    BY <2>1
<1>2. /\ R \in Seq(Messages) /\ Len(R) = Len(m.calls)
      /\ \A k \in 1..Len(m.calls) :
            R[k].role = "tool" /\ R[k].calls = <<>> /\ R[k].answers = m.calls[k]
  BY <1>1, ResultsType
<1>3. one \in Seq(Messages) /\ Len(one) = 1 /\ one[1] = m
  OBVIOUS
<1> HIDE DEF R, one
<1>4. /\ one \o R \in Seq(Messages) /\ Len(one \o R) = Len(m.calls) + 1 /\ (one \o R)[1] = m
      /\ \A k \in 1..Len(m.calls) : (one \o R)[k + 1] = R[k]
  <2>1. /\ one \o R \in Seq(Messages) /\ Len(one \o R) = 1 + Len(m.calls)
        /\ \A i \in 1..1 : (one \o R)[i] = one[i]
        /\ \A i \in 1..Len(m.calls) : (one \o R)[1 + i] = R[i]
    <3>1. /\ one \o R \in Seq(Messages) /\ Len(one \o R) = Len(one) + Len(R)
          /\ \A i \in 1..Len(one) : (one \o R)[i] = one[i]
          /\ \A i \in 1..Len(R) : (one \o R)[Len(one) + i] = R[i]
      <4>1. one \in Seq(Messages) /\ R \in Seq(Messages)
        BY <1>2, <1>3
      <4> QED
        BY <4>1
    <3> QED
      BY <1>2, <1>3, <3>1, Zenon
  <2>2. \A k \in 1..Len(m.calls) : 1 + k = k + 1
    BY <1>1
  <2>3. 1 \in 1..1 /\ 1 + Len(m.calls) = Len(m.calls) + 1
    BY <1>1
  <2> QED
    BY <1>3, <2>1, <2>2, <2>3
<1>5. Unit(m, size) = one \o R
  BY DEF Unit, one, R
<1> QED
  BY <1>1, <1>2, <1>4, <1>5 DEF R

\* They are a sound list.
LEMMA UnitIsSound ==
    ASSUME turn \in Nat, NEW size \in Nat, NEW m \in Messages, m.role = "assistant"
    PROVE  Sound(Unit(m, size))
<1> DEFINE x == Unit(m, size)
           n == Len(m.calls)
<1>1. /\ n \in Nat /\ x \in Seq(Messages) /\ Len(x) = n + 1 /\ x[1] = m
      /\ \A k \in 1..n : /\ x[k + 1].role = "tool" /\ x[k + 1].calls = <<>>
                         /\ x[k + 1].answers = m.calls[k]
  BY UnitIs
<1>2. m.calls \in Seq(Calls) /\ DOMAIN m.calls = 1..n
  <2>1. m.calls \in Seq(Calls)
    BY DEF Messages
  <2> QED
    BY <2>1
<1> HIDE DEF x, n
<1>3. \A k \in 2..(n + 1) : /\ x[k].role = "tool" /\ x[k].calls = <<>>
                            /\ x[k].answers = m.calls[k - 1]
  <2> SUFFICES ASSUME NEW k \in 2..(n + 1)
               PROVE  /\ x[k].role = "tool" /\ x[k].calls = <<>>
                      /\ x[k].answers = m.calls[k - 1]
    OBVIOUS
  <2>1. k - 1 \in 1..n /\ (k - 1) + 1 = k
    BY <1>1
  <2> QED
    BY <1>1, <2>1
<1>4. Answered(x, 1, n)
  <2>1. {x[k].answers : k \in (1 + 1)..(1 + n)} = {m.calls[i] : i \in 1..n}
    <3>1. \A k \in (1 + 1)..(1 + n) : k - 1 \in 1..n /\ x[k].answers = m.calls[k - 1]
      BY <1>1, <1>3
    <3>2. \A i \in 1..n : i + 1 \in (1 + 1)..(1 + n) /\ x[i + 1].answers = m.calls[i]
      BY <1>1
    <3> QED
      BY <3>1, <3>2
  <2>2. {x[k].answers : k \in (1 + 1)..(1 + n)} = ToSet(x[1].calls)
    BY <1>1, <1>2, <2>1 DEF ToSet
  <2>3. 1 + n <= Len(x) /\ \A k \in (1 + 1)..(1 + n) : x[k].role = "tool"
    BY <1>1, <1>3
  <2> QED
    BY <2>2, <2>3 DEF Answered
<1>5. ASSUME NEW k \in 2..(n + 1) PROVE Answered(x, k, 0) /\ Len(x[k].calls) = 0
  <2>1. k + 0 <= Len(x) /\ (k + 1)..(k + 0) = {} /\ x[k].calls = <<>>
    BY <1>1, <1>3
  <2>2. ToSet(x[k].calls) = {}
    BY <2>1 DEF ToSet
  <2> QED
    BY <2>1, <2>2 DEF Answered
<1>6. \A i \in 1..Len(x) : Answered(x, i, Len(x[i].calls))
  <2>1. \A i \in 1..Len(x) : i = 1 \/ i \in 2..(n + 1)
    BY <1>1
  <2>2. Len(x[1].calls) = n
    BY <1>1 DEF n
  <2> QED
    BY <1>4, <1>5, <2>1, <2>2
<1>7. \A k \in 1..Len(x) : x[k].role = "tool" => \E i \in 1..(k - 1) : k <= i + Len(x[i].calls)
  <2> SUFFICES ASSUME NEW k \in 1..Len(x), x[k].role = "tool"
               PROVE  \E i \in 1..(k - 1) : k <= i + Len(x[i].calls)
    OBVIOUS
  <2>1. k # 1
    BY <1>1
  <2>2. 1 \in 1..(k - 1) /\ k <= 1 + Len(x[1].calls)
    BY <1>1, <2>1 DEF n
  <2> QED
    BY <2>2
<1>8. Tidy(x)
  <2>1. \A i \in 1..Len(x) : i = 1 \/ i \in 2..(n + 1)
    BY <1>1
  <2>2. DOMAIN x = 1..Len(x)
    BY <1>1
  <2> QED
    BY <1>1, <1>3, <2>1, <2>2 DEF Tidy
<1> QED
  BY <1>1, <1>6, <1>7, <1>8, PairedIs DEF Sound, x

\* The messages since the latest calls.
Exchange(sh) ==
    IF LastCalling(sh) = 0 THEN <<>> ELSE SubSeq(sh, LastCalling(sh), Len(sh))

\* After a round the latest exchange shown is that round's.
LEMMA ExchangeIs ==
    ASSUME turn \in Nat, NEW size \in Nat, NEW m \in Messages, m.calls # <<>>,
           NEW sh \in Seq(Messages)
    PROVE  Exchange(Append(sh, m) \o Results(m.calls, size)) = Unit(m, size)
<1> DEFINE x == Unit(m, size)
           R == Results(m.calls, size)
           s == Append(sh, m) \o R
           l == Len(sh)
           n == Len(m.calls)
           C == {i \in DOMAIN s : s[i].calls # <<>>}
<1>1. /\ n \in Nat /\ R \in Seq(Messages) /\ x \in Seq(Messages) /\ Len(x) = n + 1 /\ x[1] = m
      /\ \A k \in 1..n : x[k + 1].calls = <<>>
  BY UnitIs
<1>2. s = sh \o x
  <2>1. Append(sh, m) = sh \o <<m>>
    OBVIOUS
  <2>2. <<m>> \in Seq(Messages)
    OBVIOUS
  <2> HIDE DEF R
  <2>3. \A one \in Seq(Messages) : (sh \o one) \o R = sh \o (one \o R)
    BY <1>1
  <2> QED
    BY <2>1, <2>2, <2>3 DEF Unit, R
<1> HIDE DEF s, x, n
<1>3. /\ l \in Nat /\ s \in Seq(Messages) /\ Len(s) = l + n + 1 /\ DOMAIN s = 1..Len(s)
      /\ \A k \in 1..(n + 1) : s[l + k] = x[k]
  <2>1. /\ sh \o x \in Seq(Messages) /\ Len(sh \o x) = l + (n + 1) /\ l \in Nat
        /\ \A k \in 1..(n + 1) : (sh \o x)[l + k] = x[k]
    <3>1. /\ sh \o x \in Seq(Messages) /\ Len(sh \o x) = Len(sh) + Len(x)
          /\ \A i \in 1..Len(x) : (sh \o x)[Len(sh) + i] = x[i]
      <4>1. x \in Seq(Messages)
        BY <1>1
      <4> QED
        BY <4>1
    <3>2. Len(sh) \in Nat
      OBVIOUS
    <3> QED
      BY <1>1, <3>1, <3>2, Zenon
  <2>2. DOMAIN s = 1..Len(s)
    BY <1>2, <2>1
  <2>3. l + (n + 1) = l + n + 1
    BY <1>1, <2>1
  <2> HIDE DEF l
  <2> QED
    BY <1>2, <2>1, <2>2, <2>3
<1> HIDE DEF l
<1>4. s[l + 1] = m /\ l + 1 \in 1..Len(s)
  BY <1>1, <1>3
<1>5. \A i \in 1..Len(s) : i > l + 1 => s[i].calls = <<>>
  <2> SUFFICES ASSUME NEW i \in 1..Len(s), i > l + 1 PROVE s[i].calls = <<>>
    OBVIOUS
  <2>1. i - l \in 1..(n + 1) /\ i - l - 1 \in 1..n /\ (i - l - 1) + 1 = i - l /\ l + (i - l) = i
    BY <1>1, <1>3
  <2> QED
    BY <1>1, <1>3, <2>1
<1>6. C \subseteq 1..Len(s) /\ l + 1 \in C /\ \A i \in C : i <= l + 1
  <2>1. \A i \in C : i \in 1..Len(s) /\ s[i].calls # <<>>
    BY <1>3
  <2> QED
    BY <1>3, <1>4, <1>5, <2>1
<1>7. LastOf(C) = l + 1
  <2> HIDE DEF C
  <2>1. Len(s) \in Nat
    BY <1>3
  <2>2. LastOf(C) \in C /\ \A j \in C : j <= LastOf(C)
    BY <1>6, <2>1, LastOfIs
  <2>3. LastOf(C) \in Nat /\ LastOf(C) <= l + 1 /\ l + 1 <= LastOf(C)
    <3>1. LastOf(C) \in 1..Len(s)
      BY <1>6, <2>2
    <3>2. LastOf(C) <= l + 1
      BY <1>6, <2>2
    <3>3. l + 1 <= LastOf(C)
      BY <1>6, <2>2
    <3> QED
      BY <2>1, <3>1, <3>2, <3>3
  <2> QED
    BY <1>3, <2>3
<1>8. LastCalling(s) = l + 1 /\ LastCalling(s) # 0
  BY <1>3, <1>7 DEF LastCalling, C
<1>9. SubSeq(s, l + 1, Len(s)) = x
  <2> DEFINE t == SubSeq(s, l + 1, Len(s))
  <2>1. t \in Seq(Messages) /\ Len(t) = n + 1 /\ \A k \in 1..(n + 1) : t[k] = s[l + k]
    BY <1>1, <1>3
  <2> HIDE DEF t
  <2>2. \A k \in 1..(n + 1) : t[k] = x[k]
    BY <1>3, <2>1
  <2>3. t = x
    BY <1>1, <2>1, <2>2
  <2> QED
    BY <2>3 DEF t
<1> QED
  BY <1>8, <1>9 DEF Exchange, s, x, R

-----------------------------------------------------------------------------
(* What the provider is sent                                                *)

\* What tools inject.
Notes(ms) ==
    /\ ms \in Seq(Messages) /\ Plain(ms)
    /\ \A i \in 1..Len(ms) : ms[i].role = "system" /\ ms[i].origin = "injection"

\* A reply of turn t that calls tools.
Replies(m, t) ==
    m.role = "assistant" /\ m.calls # <<>> /\ m.origin = "turn" /\ IsOwn(m, t)

\* A list none of which is the turn's own.
LEMMA ForeignIsOwned ==
    ASSUME NEW ms, Sound(ms), \A i \in 1..Len(ms) : ms[i].origin # "turn", NEW t
    PROVE  Owned(ms, t)
<1>1. ms \in Seq(Messages) /\ Len(ms) \in Nat
  BY DEF Sound
<1>2. \A i \in 1..Len(ms) : Len(ms[i].calls) \in Nat /\ i + Len(ms[i].calls) <= Len(ms)
  BY <1>1, PairedIs, CallsLength DEF Sound, Answered
<1>3. \A i \in 1..Len(ms) : \A k \in i..(i + Len(ms[i].calls)) : k \in 1..Len(ms)
  BY <1>1, <1>2
<1>4. \A i \in 1..Len(ms) : i \notin Own(ms)
  BY DEF Own
<1> QED
  BY <1>3, <1>4 DEF Owned, Whole

\* A round's exchange is owned by the turn.
LEMMA UnitIsOwned ==
    ASSUME turn \in Nat, NEW size \in Nat, NEW m \in Messages, Replies(m, turn)
    PROVE  Owned(Unit(m, size), turn)
<1> DEFINE R == Results(m.calls, size)
           one == <<m>>
           x == Unit(m, size)
           n == Len(m.calls)
<1>1. m.calls \in Seq(Calls) /\ n \in Nat
  <2>1. m.calls \in Seq(Calls)
    BY DEF Messages
  <2> QED
    BY <2>1
<1>2. /\ R \in Seq(Messages) /\ Len(R) = n
      /\ \A k \in 1..n : R[k].role = "tool" /\ R[k].calls = <<>> /\ R[k].origin = "turn" /\ R[k].turn = turn
  BY <1>1, ResultsType
<1>3. one \in Seq(Messages) /\ Len(one) = 1 /\ one[1] = m
  OBVIOUS
<1>4. x = one \o R
  BY DEF Unit
<1> HIDE DEF R, one, x, n
<1>5. x \in Seq(Messages) /\ Len(x) = Len(one) + Len(R) /\ x[1] = m /\ \A k \in 1..Len(R) : x[Len(one) + k] = R[k]
  <2>1. one \in Seq(Messages) /\ R \in Seq(Messages)
    BY <1>2, <1>3
  <2>2. /\ one \o R \in Seq(Messages) /\ Len(one \o R) = Len(one) + Len(R)
        /\ \A k \in 1..Len(one) : (one \o R)[k] = one[k]
        /\ \A k \in 1..Len(R) : (one \o R)[Len(one) + k] = R[k]
    BY <2>1
  <2> QED
    BY <1>3, <1>4, <2>2
<1>6. \A i \in 1..(n + 1) : x[i].origin = "turn" /\ IsOwn(x[i], turn)
  <2> SUFFICES ASSUME NEW i \in 1..(n + 1) PROVE x[i].origin = "turn" /\ IsOwn(x[i], turn)
    OBVIOUS
  <2>1. CASE i = 1
    BY <1>5, <2>1 DEF Replies
  <2>2. CASE i # 1
    <3>1. i - 1 \in 1..n /\ 1 + (i - 1) = i
      BY <1>1, <2>2
    <3>2. x[i] = R[i - 1]
      BY <1>2, <1>3, <1>5, <3>1
    <3>3. x[i].role = "tool" /\ x[i].calls = <<>> /\ x[i].origin = "turn" /\ x[i].turn = turn
      BY <1>2, <3>1, <3>2
    <3>4. IsInjective(<<>>)
      BY DEF IsInjective
    <3> QED
      BY <3>3, <3>4 DEF IsOwn
  <2> QED
    BY <2>1, <2>2
<1>7. Sound(x)
  BY UnitIsSound DEF x, Replies
<1>8. \A i \in 1..Len(x) : Len(x[i].calls) \in Nat /\ i + Len(x[i].calls) <= Len(x)
  BY <1>5, <1>7, PairedIs, CallsLength DEF Sound, Answered
<1>9. Len(x) = n + 1
  BY <1>1, <1>2, <1>3, <1>5
<1>10. \A i \in 1..Len(x) : \A k \in i..(i + Len(x[i].calls)) : k \in 1..(n + 1)
  BY <1>1, <1>8, <1>9
<1> QED
  BY <1>6, <1>7, <1>9, <1>10, OwnedIs DEF x

\* A reply, its results and what the tools injected join a list that held the
\* question: the list still does, and holds the exchange.
LEMMA RoundKeeps ==
    ASSUME turn \in Nat, NEW size \in Nat, NEW m \in Messages, Replies(m, turn),
           NEW ms, NEW q, q.turn = turn, Keeps(ms, q, <<>>),
           NEW notes, Notes(notes)
    PROVE  Keeps(Append(ms, m) \o Results(m.calls, size) \o notes, q, Unit(m, size))
<1> DEFINE x == Unit(m, size)
           R == Results(m.calls, size)
           n == Len(m.calls)
           l == Len(ms)
           one == <<m>>
           w == (ms \o x) \o notes
<1>1. /\ n \in Nat /\ R \in Seq(Messages) /\ x \in Seq(Messages) /\ Len(x) = n + 1 /\ x[1] = m
      /\ \A k \in 1..n : x[k + 1].calls = <<>> /\ x[k + 1].role = "tool"
  <2>1. /\ Len(m.calls) \in Nat /\ Results(m.calls, size) \in Seq(Messages)
        /\ Unit(m, size) \in Seq(Messages) /\ Len(Unit(m, size)) = Len(m.calls) + 1
        /\ Unit(m, size)[1] = m
        /\ \A k \in 1..Len(m.calls) :
              /\ Unit(m, size)[k + 1].role = "tool"
              /\ Unit(m, size)[k + 1].calls = <<>>
              /\ Unit(m, size)[k + 1].answers = m.calls[k]
    BY UnitIs
  <2> QED
    BY <2>1
<1>2. PICK u \in 2..Len(ms) : Asks(ms, q, u)
  BY DEF Keeps
<1>3. Sound(ms) /\ ms \in Seq(Messages) /\ l \in Nat
  BY DEF Keeps, Sound
<1>4. Append(ms, m) \o R \o notes = w
  <2>1. Append(ms, m) = ms \o one /\ one \in Seq(Messages)
    BY <1>3
  <2> HIDE DEF R, one
  <2>2. (ms \o one) \o R = ms \o (one \o R)
    <3>1. ms \in Seq(Messages) /\ one \in Seq(Messages) /\ R \in Seq(Messages)
      BY <1>1, <1>3, <2>1
    <3> QED
      BY <3>1
  <2> QED
    BY <2>1, <2>2 DEF Unit, R, one
<1> HIDE DEF x, R, n, w, l, one
<1>5. /\ ms \o x \in Seq(Messages) /\ Len(ms \o x) = Len(ms) + Len(x)
      /\ \A i \in 1..Len(ms) : (ms \o x)[i] = ms[i]
      /\ \A i \in 1..Len(x) : (ms \o x)[Len(ms) + i] = x[i]
  <2>1. ms \in Seq(Messages) /\ x \in Seq(Messages)
    BY <1>1, <1>3
  <2> QED
    BY <2>1
<1> DEFINE v == ms \o x
<1>6. /\ w \in Seq(Messages) /\ Len(w) = Len(v) + Len(notes)
      /\ \A i \in 1..Len(v) : w[i] = v[i]
      /\ \A i \in 1..Len(notes) : w[Len(v) + i] = notes[i]
  <2>1. v \in Seq(Messages) /\ notes \in Seq(Messages) /\ w = v \o notes
    BY <1>5 DEF w, Notes
  <2> HIDE DEF v
  <2> QED
    BY <2>1
<1>7. Len(notes) \in Nat
  BY DEF Notes
<1> HIDE DEF v
<1>8. /\ Len(v) = l + n + 1 /\ Len(w) = l + n + 1 + Len(notes) /\ Len(w) \in Nat /\ u \in 2..l
      /\ \A i \in 1..l : w[i] = ms[i]
      /\ \A k \in 1..(n + 1) : w[l + k] = x[k]
      /\ \A i \in 1..Len(notes) : w[l + n + 1 + i] = notes[i]
  <2>1. Len(v) = l + n + 1 /\ u \in 2..l
    BY <1>1, <1>3, <1>5 DEF v, l
  <2>2. Len(w) = l + n + 1 + Len(notes) /\ Len(w) \in Nat
    BY <1>1, <1>3, <1>6, <1>7, <2>1
  <2>3. \A i \in 1..l : i \in 1..Len(v) /\ v[i] = ms[i]
    BY <1>1, <1>3, <1>5, <2>1 DEF v, l
  <2>4. \A k \in 1..(n + 1) : l + k \in 1..Len(v) /\ v[l + k] = x[k]
    BY <1>1, <1>3, <1>5, <2>1 DEF v, l
  <2> QED
    BY <1>6, <2>1, <2>2, <2>3, <2>4
<1>9. Sound(w) /\ Owned(w, q.turn)
  <2>1. Sound(x) /\ Owned(x, turn)
    BY UnitIsSound, UnitIsOwned DEF x, Replies
  <2>2. Sound(notes)
    BY PlainIsSound DEF Notes
  <2>3. Owned(notes, turn)
    BY <2>2, ForeignIsOwned DEF Notes
  <2>4. Owned(ms, turn)
    BY DEF Keeps
  <2>5. Sound(ms \o x) /\ Owned(ms \o x, turn)
    BY <1>3, <2>1, <2>4, SoundConcat, OwnedConcat
  <2> QED
    BY <2>2, <2>3, <2>5, SoundConcat, OwnedConcat DEF w
<1>10. \A i \in 1..Len(w) : \/ i \in 1..l
                            \/ i = l + 1
                            \/ \E k \in 1..n : i = l + (k + 1)
                            \/ \E k \in 1..Len(notes) : i = l + n + 1 + k
  <2> SUFFICES ASSUME NEW i \in 1..Len(w)
               PROVE  \/ i \in 1..l
                      \/ i = l + 1
                      \/ \E k \in 1..n : i = l + (k + 1)
                      \/ \E k \in 1..Len(notes) : i = l + n + 1 + k
    OBVIOUS
  <2>1. CASE i > l + 1 /\ i <= l + n + 1
    <3>1. i - l - 1 \in 1..n /\ i = l + ((i - l - 1) + 1)
      BY <1>1, <1>3, <1>8, <2>1
    <3> QED
      BY <3>1
  <2>2. CASE i > l + n + 1
    <3>1. i - (l + n + 1) \in 1..Len(notes) /\ i = l + n + 1 + (i - (l + n + 1))
      BY <1>1, <1>3, <1>7, <1>8, <2>2
    <3> QED
      BY <3>1
  <2> QED
    BY <1>1, <1>3, <1>8, <2>1, <2>2
<1>11. \A i \in 1..Len(w) : i > l + 1 =>
          w[i].calls = <<>> /\ w[i].role \in {"tool", "system"}
  <2> SUFFICES ASSUME NEW i \in 1..Len(w), i > l + 1
               PROVE  w[i].calls = <<>> /\ w[i].role \in {"tool", "system"}
    OBVIOUS
  <2>1. ASSUME NEW k \in 1..n, i = l + (k + 1) PROVE w[i].calls = <<>> /\ w[i].role = "tool"
    <3>1. k + 1 \in 1..(n + 1)
      BY <1>1
    <3> QED
      BY <1>1, <1>8, <2>1, <3>1
  <2>2. ASSUME NEW k \in 1..Len(notes), i = l + n + 1 + k
        PROVE  w[i].calls = <<>> /\ w[i].role = "system"
    <3>1. notes[k].calls = <<>> /\ notes[k].role = "system"
      <4>1. DOMAIN notes = 1..Len(notes)
        BY DEF Notes
      <4> QED
        BY <4>1 DEF Notes, Plain
    <3> QED
      BY <1>8, <2>2, <3>1
  <2>3. i \notin 1..l /\ i # l + 1
    BY <1>3, <1>8
  <2> QED
    BY <1>10, <2>1, <2>2, <2>3
<1>12. w[l + 1] = m /\ m.role = "assistant" /\ m.calls # <<>>
  BY <1>1, <1>8 DEF Replies
<1>13. Asks(w, q, u)
  <2>1. ms[1] = System /\ ms[u] = q /\ \A k \in (u + 1)..l : ms[k].role # "user"
    BY <1>2 DEF Asks, l
  <2>2. w[1] = System /\ w[u] = q
    BY <1>3, <1>8, <2>1
  <2>3. ASSUME NEW k \in (u + 1)..Len(w) PROVE w[k].role # "user"
    <3>1. CASE k <= l
      BY <1>3, <1>8, <2>1, <3>1
    <3>2. CASE k = l + 1
      BY <1>12, <3>2
    <3>3. CASE k > l + 1
      <4>1. k \in 1..Len(w)
        BY <1>3, <1>8
      <4>2. w[k].role \in {"tool", "system"}
        BY <1>11, <3>3, <4>1
      <4> QED
        BY <4>2
    <3> QED
      BY <1>3, <1>8, <3>1, <3>2, <3>3
  <2> QED
    BY <2>2, <2>3 DEF Asks
<1>14. Holds(w, x, l + 1)
  <2>1. w[l + 1].calls # <<>> /\ Len(x) = Len(w[l + 1].calls) + 1
        /\ l + 1 + Len(w[l + 1].calls) <= Len(w)
    <3>1. Len(w[l + 1].calls) = n
      BY <1>12 DEF n
    <3>2. w[l + 1].calls # <<>>
      BY <1>12
    <3> QED
      BY <1>1, <1>3, <1>7, <1>8, <3>1, <3>2
  <2>2. \A k \in 1..Len(x) : w[(l + 1) + k - 1] = x[k]
    <3>1. \A k \in 1..Len(x) : k \in 1..(n + 1) /\ (l + 1) + k - 1 = l + k
      BY <1>1, <1>3
    <3> QED
      BY <1>8, <3>1
  <2>3. \A k \in (l + 1 + 1)..Len(w) : w[k].calls = <<>>
    <3>1. \A k \in (l + 1 + 1)..Len(w) : k \in 1..Len(w) /\ k > l + 1
      BY <1>3, <1>8
    <3> QED
      BY <1>11, <3>1
  <2> QED
    BY <2>1, <2>2, <2>3 DEF Holds
<1>15. u \in 2..Len(w) /\ l + 1 \in (u + 1)..Len(w)
  BY <1>1, <1>3, <1>7, <1>8
<1>16. Keeps(w, q, x)
  BY <1>9, <1>13, <1>14, <1>15 DEF Keeps
<1> QED
  BY <1>4, <1>16 DEF x, R

\* A turn starts with its question.
LEMMA FirstKeeps ==
    ASSUME NEW h \in Replayable, NEW q \in Messages, q.role = "user", q.calls = <<>>,
           q.origin = "seed"
    PROVE  Keeps(BuildPrompt(h, q), q, <<>>)
<1> DEFINE S == Seeded(h)
           one == <<System>>
           last == <<q>>
           w == (one \o S) \o last
           n == Len(h)
<1>1. BuildPrompt(h, q) = w /\ S \in Seq(Messages) /\ Len(S) = n
  BY BuildPromptIs
<1>2. h \in Seq(Messages) /\ n \in Nat /\ DOMAIN h = 1..n /\ Sound(h)
  BY DEF Replayable
<1>3. \A i \in 1..n : /\ S[i].calls = h[i].calls /\ S[i].role = h[i].role
                      /\ S[i].answers = h[i].answers /\ S[i].origin = "seed"
  <2>1. \A m \in Messages : LET s == [m EXCEPT !.origin = "seed"] IN
           s.calls = m.calls /\ s.role = m.role /\ s.answers = m.answers /\ s.origin = "seed"
    BY DEF Messages
  <2>2. \A i \in 1..n : S[i] = [h[i] EXCEPT !.origin = "seed"] /\ h[i] \in Messages
    BY <1>2 DEF Seeded
  <2> HIDE DEF S
  <2> QED
    BY <2>1, <2>2
<1>4. System \in Messages /\ System.role = "system" /\ System.calls = <<>>
  <2>1. System \in Messages
    <3>1. 0 \in Nat
      OBVIOUS
    <3> QED
      BY <3>1, MessageType
  <2> QED
    BY <2>1 DEF System, Message
<1>5. one \in Seq(Messages) /\ Len(one) = 1 /\ one[1] = System /\ DOMAIN one = 1..1
  BY <1>4
<1>6. last \in Seq(Messages) /\ Len(last) = 1 /\ last[1] = q /\ DOMAIN last = 1..1
  OBVIOUS
<1> HIDE DEF S, one, last, n
<1>7. Sound(S)
  <2>1. /\ \A i \in 1..n : Answered(h, i, Len(h[i].calls))
        /\ \A k \in 1..n : h[k].role = "tool" => \E i \in 1..(k - 1) : k <= i + Len(h[i].calls)
    BY <1>2, PairedIs DEF Sound, n
  <2>2. \A i \in 1..n : Len(h[i].calls) \in Nat
    BY <1>2, CallsLength DEF n
  <2>3. ASSUME NEW i \in 1..n PROVE Answered(S, i, Len(S[i].calls))
    <3> DEFINE c == Len(h[i].calls)
    <3>1. i + c <= n /\ c \in Nat /\ Len(S[i].calls) = c /\ S[i].calls = h[i].calls
      BY <1>2, <1>3, <2>1, <2>2 DEF Answered, n
    <3>2. \A k \in (i + 1)..(i + c) : k \in 1..n
      BY <1>2, <3>1
    <3>3. /\ \A k \in (i + 1)..(i + c) : h[k].role = "tool"
          /\ {h[k].answers : k \in (i + 1)..(i + c)} = ToSet(h[i].calls)
      BY <2>1 DEF Answered
    <3> HIDE DEF c
    <3>4. /\ \A k \in (i + 1)..(i + c) : S[k].role = "tool"
          /\ {S[k].answers : k \in (i + 1)..(i + c)} = {h[k].answers : k \in (i + 1)..(i + c)}
      BY <1>3, <3>2, <3>3
    <3> QED
      BY <1>1, <3>1, <3>3, <3>4 DEF Answered
  <2>4. ASSUME NEW k \in 1..n, S[k].role = "tool"
        PROVE  \E i \in 1..(k - 1) : k <= i + Len(S[i].calls)
    <3>1. h[k].role = "tool"
      BY <1>3, <2>4
    <3>2. PICK i \in 1..(k - 1) : k <= i + Len(h[i].calls)
      BY <2>1, <3>1
    <3>3. i \in 1..n
      BY <1>2, <3>2
    <3> QED
      BY <1>3, <3>2, <3>3
  <2>5. Paired(S)
    BY <1>1, <2>3, <2>4, PairedIs
  <2>6. Tidy(S)
    <3>1. DOMAIN S = 1..n
      BY <1>1
    <3> QED
      BY <1>2, <1>3, <3>1 DEF Sound, Tidy
  <2> QED
    BY <1>1, <2>5, <2>6 DEF Sound
<1>8. Sound(w) /\ Owned(w, q.turn)
  <2>1. Plain(one) /\ Plain(last)
    BY <1>4, <1>5, <1>6 DEF Plain
  <2>2. Sound(one) /\ Sound(last)
    BY <1>5, <1>6, <2>1, PlainIsSound
  <2>3. Owned(one, q.turn) /\ Owned(last, q.turn)
    <3>1. System.origin = "seed"
      BY DEF System, Message
    <3>2. /\ \A i \in 1..Len(one) : one[i].origin # "turn"
          /\ \A i \in 1..Len(last) : last[i].origin # "turn"
      BY <1>5, <1>6, <3>1
    <3> QED
      BY <2>2, <3>2, ForeignIsOwned
  <2>4. Owned(S, q.turn)
    <3>1. \A i \in 1..Len(S) : S[i].origin # "turn"
      BY <1>1, <1>3
    <3> QED
      BY <1>7, <3>1, ForeignIsOwned
  <2>5. Sound(one \o S) /\ Owned(one \o S, q.turn)
    BY <1>7, <2>2, <2>3, <2>4, SoundConcat, OwnedConcat
  <2> QED
    BY <2>2, <2>3, <2>5, SoundConcat, OwnedConcat
<1> DEFINE v == one \o S
<1>9. v \in Seq(Messages) /\ Len(v) = 1 + n /\ v[1] = System
  <2>1. one \in Seq(Messages) /\ S \in Seq(Messages)
    BY <1>1, <1>5
  <2>2. v \in Seq(Messages) /\ Len(v) = Len(one) + Len(S) /\ \A i \in 1..Len(one) : v[i] = one[i]
    BY <2>1
  <2> HIDE DEF v
  <2> QED
    BY <1>1, <1>5, <2>2
<1> HIDE DEF v
<1>10. w \in Seq(Messages) /\ Len(w) = n + 2 /\ w[1] = System /\ w[n + 2] = q
  <2>1. w = v \o last /\ v \in Seq(Messages) /\ last \in Seq(Messages)
    BY <1>6, <1>9 DEF v
  <2> HIDE DEF w
  <2>2. /\ w \in Seq(Messages) /\ Len(w) = Len(v) + Len(last)
        /\ \A i \in 1..Len(v) : w[i] = v[i]
        /\ \A i \in 1..Len(last) : w[Len(v) + i] = last[i]
    BY <2>1
  <2>3. 1 \in 1..Len(v) /\ 1 \in 1..Len(last) /\ Len(v) + 1 = n + 2
    BY <1>2, <1>6, <1>9 DEF n
  <2> QED
    BY <1>2, <1>6, <1>9, <2>2, <2>3
<1> HIDE DEF w
<1>11. n + 2 \in 2..Len(w) /\ \A k \in (n + 2 + 1)..Len(w) : w[k].role # "user"
  BY <1>2, <1>10
<1>12. Keeps(w, q, <<>>)
  BY <1>8, <1>10, <1>11 DEF Keeps, Asks
<1> QED
  BY <1>1, <1>12

\* A turn's list holds its question and the latest exchange; while tools run,
\* their calls wait at the end.
Waits(list, own, q, ms, sh, m) ==
    /\ list = Append(ms, m) /\ own = Append(sh, m)
    /\ Replies(m, q.turn) /\ Keeps(ms, q, <<>>)

\* A turn that is done ends with its answer.
Answers(list, t) ==
    /\ Sound(list) /\ Owned(list, t)
    /\ list # <<>> /\ list[Len(list)].origin = "turn"

Looped ==
    /\ \A t \in 1..MaxTurns : t > turn => shown[t] = <<>>
    /\ phase \in {"asking", "sent"} =>
          Keeps(messages, Question(turn), Exchange(shown[turn]))
    /\ phase = "tools" =>
          \E ms, sh \in Seq(Messages) : \E m \in Messages :
              Waits(messages, shown[turn], Question(turn), ms, sh, m)
    /\ phase = "done" => Answers(messages, turn)

\* What a question is.
LEMMA QuestionIs ==
    ASSUME NEW t \in Nat
    PROVE  /\ Question(t) \in Messages /\ Question(t).role = "user"
           /\ Question(t).origin = "seed" /\ Question(t).calls = <<>>
           /\ Question(t).turn = t
<1>1. Question(t) \in Messages
  BY MessageType
<1> QED
  BY <1>1 DEF Question, Message

\* Nothing shown, no exchange.
LEMMA NoExchange == Exchange(<<>>) = <<>>
<1> DEFINE C == {i \in DOMAIN <<>> : <<>>[i].calls # <<>>}
<1>1. C = {}
  OBVIOUS
<1>2. LastOf({}) = 0
  BY DEF LastOf
<1>3. LastCalling(<<>>) = LastOf(C)
  BY DEF LastCalling
<1> HIDE DEF C
<1> QED
  BY <1>1, <1>2, <1>3 DEF Exchange

\* Every step keeps what is known of the agent loop's list.
LEMMA LoopedNext == Typed /\ Typed' /\ Looped /\ [Next]_vars => Looped'
<1> SUFFICES ASSUME Typed, Typed', Looped, [Next]_vars PROVE Looped'
  OBVIOUS
<1>0. /\ turn \in Nat /\ turn \in 0..MaxTurns /\ MaxTurns \in Nat /\ rows \in Seq(Rows)
      /\ messages \in Seq(Messages) /\ budget \in Budgets
      /\ phase # "idle" => turn \in 1..MaxTurns
      /\ shown \in [1..MaxTurns -> Seq(Messages)]
  <2>1. MaxTurns \in Nat
    BY HistoryAssumption
  <2> QED
    BY <2>1 DEF Typed, TypeOK
<1>a. \A t \in 1..MaxTurns : t > turn => shown[t] = <<>>
  BY DEF Looped
<1>1. ASSUME NEW b \in Budgets, UpdateSettings(b) PROVE Looped'
  <2>1. UNCHANGED <<phase, turn, messages, shown>>
    BY <1>1 DEF UpdateSettings
  <2> QED
    BY <2>1 DEF Looped
<1>2. CASE Ask
  <2> DEFINE q == Question(turn + 1)
             h == SelectPromptHistory(LoadHistory(rows), q, budget).history
  <2>1. /\ turn < MaxTurns /\ turn' = turn + 1 /\ messages' = BuildPrompt(h, q)
        /\ phase' = "asking" /\ shown' = shown
    BY <1>2 DEF Ask
  <2>2. turn + 1 \in Nat /\ turn + 1 \in 1..MaxTurns
    BY <1>0, <2>1
  <2>3. q \in Messages /\ q.role = "user" /\ q.calls = <<>> /\ q.origin = "seed"
    BY <2>2, QuestionIs
  <2>4. h \in Replayable
    <3>1. LoadHistory(rows) \in Replayable
      BY <1>0, HistoryIsReplayable
    <3> QED
      BY <1>0, <2>3, <3>1, SelectionType
  <2>5. Question(turn') = q /\ shown'[turn'] = <<>>
    <3>1. turn + 1 > turn
      BY <1>0
    <3> QED
      BY <1>a, <2>1, <2>2, <3>1
  <2> HIDE DEF q, h
  <2>6. Keeps(BuildPrompt(h, q), q, <<>>)
    BY <2>3, <2>4, FirstKeeps
  <2>7. Keeps(messages', Question(turn'), Exchange(shown'[turn']))
    BY <2>1, <2>5, <2>6, NoExchange
  <2>8. \A t \in 1..MaxTurns : t > turn' => shown'[t] = <<>>
    BY <1>0, <1>a, <2>1
  <2> QED
    BY <2>1, <2>7, <2>8 DEF Looped
<1>3. CASE Demo
  <2>1. /\ phase = "idle" /\ phase' = phase /\ turn' = turn + 1
        /\ shown' = [shown EXCEPT ![turn + 1] = <<Message(turn + 1, "assistant", 1)>>]
    BY <1>3 DEF Demo
  <2>2. \A t \in 1..MaxTurns : t > turn' => shown'[t] = <<>>
    BY <1>0, <1>a, <2>1
  <2> QED
    BY <2>1, <2>2 DEF Looped
<1>4. CASE Send
  <2>1. /\ phase = "asking" /\ messages' = CompactToBudget(messages, OfferedTools, prompt.budget)
        /\ phase' = "sent" /\ UNCHANGED <<turn, shown>>
    BY <1>4 DEF Send
  <2>2. Keeps(messages, Question(turn), Exchange(shown[turn]))
    BY <2>1 DEF Looped
  <2>3. Question(turn).role = "user" /\ Question(turn).origin # "injection"
    BY <1>0, QuestionIs
  <2>4. Keeps(CompactToBudget(messages, OfferedTools, prompt.budget), Question(turn), Exchange(shown[turn]))
    BY <2>2, <2>3, CompactKeepsAll
  <2>5. Question(turn') = Question(turn) /\ shown'[turn'] = shown[turn]
    BY <2>1
  <2> QED
    BY <1>a, <2>1, <2>4, <2>5 DEF Looped
<1>5. CASE Checkpoint
  <2>1. UNCHANGED <<phase, turn, messages, shown>>
    BY <1>5 DEF Checkpoint
  <2> QED
    BY <2>1 DEF Looped
<1>6. ASSUME NEW calls \in CallLists, NEW empty \in BOOLEAN, Reply(calls, empty) PROVE Looped'
  <2> DEFINE m == [Message(turn, "assistant", 1) EXCEPT !.calls = calls, !.empty = empty]
  <2>1. /\ phase = "sent" /\ messages' = Append(messages, m)
        /\ shown' = [shown EXCEPT ![turn] = Append(@, m)]
        /\ phase' = IF calls = <<>> THEN "done" ELSE "tools"
        /\ turn' = turn
    BY <1>6 DEF Reply
  <2>2. /\ m \in Messages /\ m.role = "assistant" /\ m.calls = calls
        /\ m.origin = "turn" /\ IsOwn(m, turn)
    <3>1. calls \in Seq(Calls) /\ IsInjective(calls)
      BY HistoryAssumption
    <3>2. /\ m \in Messages /\ m.role = "assistant" /\ m.calls = calls
          /\ m.origin = "turn" /\ m.turn = turn /\ m.answers = NoCall
      BY <1>0, <3>1 DEF Message, Messages
    <3> HIDE DEF m
    <3> QED
      BY <3>1, <3>2 DEF IsOwn
  <2> HIDE DEF m
  <2>q. Question(turn).turn = turn
    BY <1>0, QuestionIs
  <2>k. Keeps(messages, Question(turn), Exchange(shown[turn]))
    BY <2>1 DEF Looped
  <2>3. \A t \in 1..MaxTurns : t > turn' => shown'[t] = <<>>
    BY <1>0, <1>a, <2>1
  <2>4. CASE calls = <<>>
    <3> DEFINE one == <<m>>
    <3>1. Sound(messages) /\ Owned(messages, turn) /\ messages \in Seq(Messages)
      BY <2>k, <2>q DEF Keeps, Sound
    <3>2. messages' = messages \o one /\ one \in Seq(Messages) /\ Len(one) = 1 /\ one[1] = m /\ DOMAIN one = 1..1
      BY <2>1, <2>2, <3>1
    <3> HIDE DEF one
    <3>3. Sound(one)
      BY <2>2, <2>4, <3>2, PlainIsSound DEF Plain
    <3>4. Owned(one, turn)
      <4>1. Len(one[1].calls) = 0
        BY <2>2, <2>4, <3>2
      <4>2. \A i \in 1..Len(one) : \A k \in i..(i + Len(one[i].calls)) : k = i
        BY <3>2, <4>1
      <4> QED
        BY <2>2, <3>2, <3>3, <4>2, OwnedIs
    <3>5. Sound(messages') /\ Owned(messages', turn)
      BY <3>1, <3>2, <3>3, <3>4, SoundConcat, OwnedConcat
    <3>6. messages' # <<>> /\ messages'[Len(messages')] = m
      BY <2>1, <2>2, <3>1
    <3>7. Answers(messages', turn')
      BY <2>1, <2>2, <3>5, <3>6 DEF Answers
    <3>8. phase' = "done"
      BY <2>1, <2>4
    <3> QED
      BY <2>3, <3>7, <3>8 DEF Looped
  <2>5. CASE calls # <<>>
    <3>1. Keeps(messages, Question(turn), <<>>)
      BY <2>k DEF Keeps
    <3>2. turn \in 1..MaxTurns /\ shown[turn] \in Seq(Messages)
      BY <1>0, <2>1
    <3>3. shown'[turn'] = Append(shown[turn], m) /\ Question(turn') = Question(turn)
      BY <1>0, <2>1, <3>2
    <3>4. Waits(messages', shown'[turn'], Question(turn'), messages, shown[turn], m)
      BY <2>1, <2>2, <2>5, <2>q, <3>1, <3>3 DEF Waits, Replies
    <3>5. phase' = "tools"
      BY <2>1, <2>5
    <3>6. \E ms, sh \in Seq(Messages) : \E r \in Messages :
              Waits(messages', shown'[turn'], Question(turn'), ms, sh, r)
      BY <1>0, <2>2, <3>2, <3>4
    <3> QED
      BY <2>3, <3>5, <3>6 DEF Looped
  <2> QED
    BY <2>4, <2>5
<1>7. ASSUME NEW size \in ResultSizes, NEW injects \in BOOLEAN, RunTools(size, injects) PROVE Looped'
  <2> DEFINE note == [Message(turn, "system", 1) EXCEPT !.origin = "injection"]
             notes == IF injects THEN <<note>> ELSE <<>>
             last == messages[Len(messages)].calls
  <2>1. /\ phase = "tools" /\ messages' = messages \o Results(last, size) \o notes
        /\ shown' = [shown EXCEPT ![turn] = @ \o Results(last, size)]
        /\ phase' = "asking" /\ turn' = turn
    BY <1>7 DEF RunTools, Results
  <2>2. PICK ms \in Seq(Messages), sh \in Seq(Messages), m \in Messages :
           Waits(messages, shown[turn], Question(turn), ms, sh, m)
    BY <2>1 DEF Looped
  <2>3. /\ messages = Append(ms, m) /\ shown[turn] = Append(sh, m)
        /\ Replies(m, turn) /\ m.calls # <<>> /\ Keeps(ms, Question(turn), <<>>)
        /\ Question(turn).turn = turn
    BY <1>0, <2>2, QuestionIs DEF Waits, Replies
  <2>4. last = m.calls
    BY <2>3
  <2>5. Notes(notes)
    <3>1. note \in Messages /\ note.calls = <<>> /\ note.role = "system" /\ note.origin = "injection"
      <4>1. <<>> \in Seq(Calls)
        OBVIOUS
      <4> QED
        BY <1>0, <4>1 DEF Message, Messages
    <3> HIDE DEF note
    <3>2. CASE injects
      <4>1. notes = <<note>>
        BY <3>2
      <4>2. Len(<<note>>) = 1 /\ DOMAIN <<note>> = 1..1 /\ <<note>> \in Seq(Messages) /\ <<note>>[1] = note
        BY <3>1
      <4> HIDE DEF notes
      <4> QED
        BY <3>1, <4>1, <4>2 DEF Plain, Notes
    <3>3. CASE ~injects
      <4>1. notes = <<>>
        BY <3>3
      <4>2. Len(<<>>) = 0 /\ DOMAIN <<>> = {} /\ <<>> \in Seq(Messages)
        OBVIOUS
      <4> HIDE DEF notes
      <4> QED
        BY <4>1, <4>2 DEF Plain, Notes
    <3> QED
      BY <3>2, <3>3
  <2> HIDE DEF notes, last
  <2>6. size \in Nat
    BY HistoryAssumption
  <2>7. Keeps(messages', Question(turn), Unit(m, size))
    <3>1. Keeps(Append(ms, m) \o Results(m.calls, size) \o notes, Question(turn), Unit(m, size))
      BY <1>0, <2>3, <2>5, <2>6, RoundKeeps
    <3> QED
      BY <2>1, <2>3, <2>4, <3>1
  <2>8. shown'[turn'] = Append(sh, m) \o Results(m.calls, size)
    BY <1>0, <2>1, <2>3, <2>4
  <2>9. Exchange(shown'[turn']) = Unit(m, size)
    BY <1>0, <2>3, <2>6, <2>8, ExchangeIs
  <2>10. \A t \in 1..MaxTurns : t > turn' => shown'[t] = <<>>
    BY <1>0, <1>a, <2>1
  <2> QED
    BY <2>1, <2>7, <2>9, <2>10 DEF Looped
<1>8. CASE Persist
  <2>1. phase' = "idle" /\ UNCHANGED <<turn, shown>>
    BY <1>8 DEF Persist
  <2> QED
    BY <1>a, <2>1 DEF Looped
<1>9. CASE Fail
  <2>1. phase' = "idle" /\ UNCHANGED <<turn, shown>>
    BY <1>9 DEF Fail
  <2> QED
    BY <1>a, <2>1 DEF Looped
<1>10. CASE UNCHANGED vars
  <2>1. UNCHANGED <<phase, turn, messages, shown>>
    BY <1>10 DEF vars
  <2> QED
    BY <2>1 DEF Looped
<1> QED
  BY <1>1, <1>2, <1>3, <1>4, <1>5, <1>6, <1>7, <1>8, <1>9, <1>10 DEF Next
\* Every call of the provider, in every round of every turn and whatever the
\* limit dropped, carries the system prompt, the turn's question, each call
\* with its results and no other, and the exchange the reply is asked for.
THEOREM ProviderIsSentPairs == Spec => []SentIsPaired
<1>1. Init => Looped
  BY DEF Init, Looped
<1>2. ASSUME Typed, Looped PROVE SentIsPaired
  <2> SUFFICES ASSUME phase = "sent" PROVE SentIsPaired
    BY DEF SentIsPaired
  <2> DEFINE own == LastCalling(shown[turn])
             x == Exchange(shown[turn])
             q == Question(turn)
  <2>1. PICK u \in 2..Len(messages) :
           Asks(messages, q, u) /\ (x # <<>> => \E c \in (u + 1)..Len(messages) : Holds(messages, x, c))
    BY <1>2 DEF Looped, Keeps
  <2>2. Sound(messages) /\ messages \in Seq(Messages) /\ Len(messages) \in Nat
    BY <1>2 DEF Looped, Keeps, Sound
  <2>3. shown[turn] \in Seq(Messages)
    <3>1. turn \in 1..MaxTurns /\ shown \in [1..MaxTurns -> Seq(Messages)]
      BY <1>2 DEF Typed, TypeOK
    <3> QED
      BY <3>1
  <2>4. messages[1] = System /\ Contains(messages, q)
    <3>1. u \in 1..Len(messages) /\ messages[u] = q /\ messages[1] = System
      BY <2>1, <2>2 DEF Asks
    <3> HIDE DEF q
    <3> QED
      BY <3>1 DEF Contains
  <2>5. ASSUME own > 0
        PROVE  \E i \in DOMAIN messages : \E j \in i..Len(messages) :
                  SubSeq(messages, i, j) = SubSeq(shown[turn], own, Len(shown[turn]))
    <3> DEFINE C == {i \in DOMAIN shown[turn] : shown[turn][i].calls # <<>>}
    <3>1. own \in 1..Len(shown[turn])
      <4>1. C \subseteq 1..Len(shown[turn]) /\ Len(shown[turn]) \in Nat
        BY <2>3
      <4>2. own = LastOf(C)
        BY DEF LastCalling
      <4> HIDE DEF C, own
      <4>3. own \in 0..Len(shown[turn])
        BY <4>1, <4>2, LastOfIs
      <4> QED
        BY <2>5, <4>1, <4>3
    <3>2. x = SubSeq(shown[turn], own, Len(shown[turn])) /\ x \in Seq(Messages) /\ x # <<>>
      <4>1. x = SubSeq(shown[turn], own, Len(shown[turn]))
        BY <3>1 DEF Exchange
      <4> DEFINE s == shown[turn]
      <4>2. s \in Seq(Messages) /\ own \in 1..Len(s)
        BY <2>3, <3>1
      <4>3. x = SubSeq(s, own, Len(s))
        BY <4>1
      <4> HIDE DEF own, x, s
      <4>4. x \in Seq(Messages) /\ Len(x) = Len(s) - own + 1 /\ Len(s) \in Nat
        BY <4>2, <4>3
      <4>5. Len(x) # 0
        BY <4>2, <4>4
      <4>6. x # <<>>
        BY <4>5
      <4> QED
        BY <4>1, <4>4, <4>6
    <3> HIDE DEF own, x
    <3>3. PICK c \in (u + 1)..Len(messages) : Holds(messages, x, c)
      BY <2>1, <3>2
    <3> DEFINE l == Len(messages[c].calls)
    <3>4. c \in 1..Len(messages) /\ DOMAIN messages = 1..Len(messages)
      BY <2>2
    <3>5. /\ l \in Nat /\ Len(x) = l + 1 /\ c + l <= Len(messages)
          /\ \A k \in 1..Len(x) : messages[c + k - 1] = x[k]
      BY <2>2, <3>3, <3>4, CallsLength DEF Holds
    <3> HIDE DEF l
    <3>6. c + l \in c..Len(messages)
      BY <2>2, <3>4, <3>5
    <3>7. SubSeq(messages, c, c + l) = x
      <4> DEFINE y == SubSeq(messages, c, c + l)
      <4>1. y \in Seq(Messages) /\ Len(y) = l + 1 /\ \A k \in 1..(l + 1) : y[k] = messages[c + k - 1]
        BY <2>2, <3>4, <3>5, <3>6
      <4> HIDE DEF y
      <4>2. \A k \in 1..(l + 1) : y[k] = x[k]
        BY <3>5, <4>1
      <4>3. y = x
        <5>1. x \in Seq(Messages) /\ y \in Seq(Messages) /\ Len(x) = Len(y) /\ Len(y) = l + 1
          BY <3>2, <3>5, <4>1
        <5>2. \A k \in 1..Len(y) : y[k] = x[k]
          BY <4>2, <5>1
        <5> QED
          BY <5>1, <5>2
      <4> QED
        BY <4>3 DEF y
    <3> QED
      BY <3>2, <3>4, <3>6, <3>7
  <2>6. Paired(messages)
    BY <2>2 DEF Sound
  <2> HIDE DEF x
  <2> QED
    BY <2>4, <2>5, <2>6, Zenon DEF SentIsPaired
<1> QED
  <2>1. Spec => []Typed
    BY TypedInit, TypedNext, PTL DEF Spec
  <2> QED
    BY <1>1, <1>2, <2>1, LoopedNext, PTL DEF Spec

-----------------------------------------------------------------------------
(* What is stored is read back                                              *)

\* The positions from g[j] on, n of them, are all to be picked.
Runs(g, j, n, I, m) == \A k \in 0..n : g[j] + k \in I \cap (1..m)

\* Positions picked one after the other stay so.
LEMMA PickRun ==
    ASSUME NEW g, NEW p, NEW s, NEW I, IsPick(g, p, s, I), Len(p) \in Nat, Len(s) \in Nat,
           NEW j \in 1..Len(p), NEW n \in Nat, Runs(g, j, n, I, Len(s))
    PROVE  \A k \in 0..n : j + k \in 1..Len(p) /\ g[j + k] = g[j] + k
<1> DEFINE S == {k \in 0..n : j + k \in 1..Len(p) /\ g[j + k] = g[j] + k}
           l == Len(p)
           m == Len(s)
<1>1. /\ l \in Nat /\ m \in Nat /\ j \in 1..l
      /\ \A a \in 1..l : g[a] \in 1..m
      /\ \A a, b \in 1..l : a < b => g[a] < g[b]
      /\ \A i \in I \cap (1..m) : \E a \in 1..l : g[a] = i
  BY DEF IsPick
<1>2. 0 \in S
  BY <1>1
<1>3. ASSUME NEW k \in 1..n, k - 1 \in S PROVE k \in S
  <2>1. j + (k - 1) \in 1..l /\ g[j + (k - 1)] = g[j] + (k - 1)
    BY <1>3
  <2>2. PICK a \in 1..l : g[a] = g[j] + k
    <3>1. k \in 0..n
      OBVIOUS
    <3>2. g[j] + k \in I \cap (1..m)
      BY <3>1 DEF Runs
    <3> QED
      BY <1>1, <3>2
  <2>3. g[j] \in Nat
    BY <1>1
  <2> HIDE DEF S, l, m
  <2>4. a > j + (k - 1)
    <3> SUFFICES ASSUME a < j + (k - 1) \/ a = j + (k - 1) PROVE FALSE
      BY <1>1, <2>1, <2>2
    <3>1. CASE a < j + (k - 1)
      <4>1. g[a] < g[j + (k - 1)]
        BY <1>1, <2>1, <2>2, <3>1
      <4> QED
        BY <2>1, <2>2, <2>3, <4>1
    <3>2. CASE a = j + (k - 1)
      BY <2>1, <2>2, <2>3, <3>2
    <3> QED
      BY <3>1, <3>2
  <2>5. j + k \in 1..l
    BY <1>1, <2>1, <2>2, <2>4
  <2>6. ~ (a > j + k)
    <3> SUFFICES ASSUME a > j + k PROVE FALSE
      OBVIOUS
    <3>1. g[j + k] < g[a]
      BY <1>1, <2>2, <2>5
    <3>2. j + (k - 1) < j + k
      BY <1>1
    <3>3. g[j + (k - 1)] < g[j + k]
      BY <1>1, <2>1, <2>5, <3>2
    <3>4. g[j + k] \in Nat
      BY <1>1, <2>5
    <3> QED
      BY <2>1, <2>2, <2>3, <3>1, <3>3, <3>4
  <2>7. a = j + k
    BY <1>1, <2>2, <2>4, <2>5, <2>6
  <2> QED
    BY <2>2, <2>5, <2>7 DEF S, l
<1>4. \A k \in 0..n : k \in S
  <2> HIDE DEF S
  <2> QED
    BY <1>2, <1>3, Induct
<1> QED
  BY <1>4

\* What is picked of a sound list, exchanges whole, is sound.
LEMMA SoundPick ==
    ASSUME NEW ms, Sound(ms), NEW I, Whole(ms, I), NEW p \in Seq(Messages), NEW g, IsPick(g, p, ms, I)
    PROVE  Sound(p)
<1> DEFINE l == Len(p)
           m == Len(ms)
<1>1. ms \in Seq(Messages) /\ m \in Nat /\ l \in Nat /\ DOMAIN p = 1..l /\ DOMAIN ms = 1..m
  BY DEF Sound
<1>2. /\ \A a \in 1..l : g[a] \in 1..m /\ g[a] \in I
      /\ \A a \in 1..l : p[a] = ms[g[a]]
      /\ \A a, b \in 1..l : a < b => g[a] < g[b]
      /\ \A i \in I \cap (1..m) : \E a \in 1..l : g[a] = i
  BY DEF IsPick
<1>3. /\ \A i \in 1..m : Answered(ms, i, Len(ms[i].calls))
      /\ \A k \in 1..m : ms[k].role = "tool" => \E i \in 1..(k - 1) : k <= i + Len(ms[i].calls)
  BY <1>1, PairedIs DEF Sound
<1>4. \A i \in 1..m : Len(ms[i].calls) \in Nat
  BY <1>1, CallsLength
<1>5. ASSUME NEW a \in 1..l
      PROVE  \A k \in 0..Len(ms[g[a]].calls) : a + k \in 1..l /\ g[a + k] = g[a] + k
  <2> DEFINE n == Len(ms[g[a]].calls)
  <2>1. g[a] \in 1..m /\ g[a] \in I /\ n \in Nat /\ g[a] + n <= m
    BY <1>2, <1>3, <1>4 DEF Answered
  <2>2. \A k \in 0..n : g[a] + k \in I \cap (1..m)
    <3> HIDE DEF n
    <3>1. \A k \in g[a]..(g[a] + n) : k \in I
      BY <2>1 DEF Whole, n
    <3> QED
      BY <1>1, <2>1, <3>1
  <2> HIDE DEF n
  <2>3. \A k \in 0..n : a + k \in 1..Len(p) /\ g[a + k] = g[a] + k
    <3>1. a \in 1..Len(p) /\ Len(p) \in Nat /\ Len(ms) \in Nat
      BY <1>1
    <3>2. Runs(g, a, n, I, Len(ms))
      BY <2>2 DEF Runs
    <3> QED
      BY <2>1, <3>1, <3>2, PickRun
  <2> QED
    BY <2>3 DEF n
<1> HIDE DEF l, m
<1>6. ASSUME NEW a \in 1..l PROVE Answered(p, a, Len(p[a].calls))
  <2> DEFINE n == Len(ms[g[a]].calls)
             i == g[a]
  <2>1. /\ n \in Nat /\ i \in 1..m /\ p[a] = ms[i] /\ Answered(ms, i, n)
        /\ \A k \in 0..n : a + k \in 1..l /\ g[a + k] = i + k
    BY <1>2, <1>3, <1>4, <1>5
  <2>2. /\ i + n <= m
        /\ \A k \in (i + 1)..(i + n) : ms[k].role = "tool"
        /\ {ms[k].answers : k \in (i + 1)..(i + n)} = ToSet(ms[i].calls)
    BY <2>1 DEF Answered, m
  <2>c. Len(p[a].calls) = n
    BY <2>1
  <2> HIDE DEF n, i
  <2>3. \A k \in 0..n : p[a + k] = ms[i + k]
    BY <1>2, <2>1
  <2>4. a + n <= l
    BY <1>1, <2>1
  <2>5. \A k \in (a + 1)..(a + n) : LET b == k - a IN
           /\ b \in 0..n /\ a + b = k /\ p[k] = ms[i + b] /\ i + b \in (i + 1)..(i + n)
    <3> SUFFICES ASSUME NEW k \in (a + 1)..(a + n)
                 PROVE  LET b == k - a IN
           /\ b \in 0..n /\ a + b = k /\ p[k] = ms[i + b] /\ i + b \in (i + 1)..(i + n)
      OBVIOUS
    <3>1. k - a \in 0..n /\ a + (k - a) = k /\ i + (k - a) \in (i + 1)..(i + n)
      BY <1>1, <2>1
    <3>2. p[a + (k - a)] = ms[i + (k - a)]
      BY <2>3, <3>1
    <3> QED
      BY <3>1, <3>2
  <2>6. \A k \in (a + 1)..(a + n) : p[k].role = "tool"
    BY <2>2, <2>5
  <2>7. {p[k].answers : k \in (a + 1)..(a + n)} = {ms[k].answers : k \in (i + 1)..(i + n)}
    <3>1. \A k \in (a + 1)..(a + n) : \E b \in (i + 1)..(i + n) : p[k].answers = ms[b].answers
      BY <2>5
    <3>2. \A b \in (i + 1)..(i + n) : \E k \in (a + 1)..(a + n) : p[k].answers = ms[b].answers
      <4> SUFFICES ASSUME NEW b \in (i + 1)..(i + n)
                   PROVE  \E k \in (a + 1)..(a + n) : p[k].answers = ms[b].answers
        OBVIOUS
      <4>1. b - i \in 0..n /\ a + (b - i) \in (a + 1)..(a + n) /\ i + (b - i) = b
        BY <1>1, <2>1
      <4>2. p[a + (b - i)] = ms[i + (b - i)]
        BY <2>3, <4>1
      <4> QED
        BY <4>1, <4>2
    <3> DEFINE A == {p[k].answers : k \in (a + 1)..(a + n)}
               B == {ms[k].answers : k \in (i + 1)..(i + n)}
    <3>3. \A x \in A : x \in B
      BY <3>1
    <3>4. \A x \in B : x \in A
      BY <3>2
    <3> HIDE DEF A, B
    <3>5. A = B
      BY <3>3, <3>4
    <3> QED
      BY <3>5 DEF A, B
  <2>8. Answered(p, a, n)
    BY <2>1, <2>2, <2>4, <2>6, <2>7 DEF Answered, l
  <2> QED
    BY <2>8, <2>c
<1>7. ASSUME NEW k \in 1..l, p[k].role = "tool"
      PROVE  \E a \in 1..(k - 1) : k <= a + Len(p[a].calls)
  <2>1. g[k] \in 1..m /\ g[k] \in I /\ ms[g[k]].role = "tool"
    BY <1>2, <1>7
  <2>2. PICK i \in 1..(g[k] - 1) : g[k] <= i + Len(ms[i].calls)
    BY <1>3, <2>1
  <2>3. i \in 1..m /\ Len(ms[i].calls) \in Nat /\ g[k] \in i..(i + Len(ms[i].calls)) /\ i < g[k]
    <3>1. i \in 1..m
      BY <1>1, <2>1, <2>2
    <3> QED
      BY <1>1, <1>4, <2>1, <2>2, <3>1
  <2>4. i \in I
    BY <2>1, <2>3 DEF Whole, m
  <2>5. PICK a \in 1..l : g[a] = i
    BY <1>2, <2>3, <2>4
  <2> DEFINE b == g[k] - i
  <2>6. b \in 0..Len(ms[i].calls) /\ i + b = g[k] /\ b > 0
    BY <1>1, <2>1, <2>3
  <2>7. a + b \in 1..l /\ g[a + b] = g[k]
    BY <1>5, <2>5, <2>6
  <2>8. a + b = k
    <3>1. ~ (a + b < k) /\ ~ (k < a + b)
      <4>1. a + b < k => g[a + b] < g[k]
        BY <1>2, <2>7
      <4>2. k < a + b => g[k] < g[a + b]
        BY <1>2, <2>7
      <4> QED
        BY <1>1, <2>1, <2>7, <4>1, <4>2
    <3> QED
      BY <1>1, <2>6, <2>7, <3>1
  <2>9. a \in 1..(k - 1) /\ k <= a + Len(ms[i].calls)
    BY <1>1, <2>3, <2>6, <2>8
  <2>10. p[a] = ms[i]
    BY <1>2, <2>5
  <2> QED
    BY <2>9, <2>10
<1>8. Tidy(p)
  <2>1. \A a \in 1..l : ms[g[a]].calls # <<>> => ms[g[a]].role = "assistant"
    BY <1>1, <1>2 DEF Sound, Tidy
  <2> QED
    BY <1>1, <1>2, <2>1 DEF Tidy
<1> QED
  BY <1>6, <1>7, <1>8, PairedIs DEF Sound, l

\* Questions and answers answer no call; nobody makes a call twice.
Neat(ms) ==
    \A i \in 1..Len(ms) :
        /\ ms[i].role # "tool" => ms[i].answers = NoCall /\ ms[i].role \in {"user", "assistant"}
        /\ IsInjective(ms[i].calls)

\* Every message is in the unit of one that is no result.
LEMMA UnitStart ==
    ASSUME NEW ms, Sound(ms), NEW k \in 1..Len(ms)
    PROVE  \E i \in 1..k : ms[i].role # "tool" /\ k <= i + Len(ms[i].calls)
<1>1. ms \in Seq(Messages) /\ Len(ms) \in Nat /\ DOMAIN ms = 1..Len(ms) /\ Tidy(ms)
  BY DEF Sound
<1>2. \A i \in 1..Len(ms) : Len(ms[i].calls) \in Nat /\ (Len(ms[i].calls) = 0 <=> ms[i].calls = <<>>)
  BY <1>1, CallsLength
<1>3. CASE ms[k].role # "tool"
  <2>1. k \in 1..k /\ k <= k + Len(ms[k].calls)
    BY <1>1, <1>2
  <2> QED
    BY <1>3, <2>1
<1>4. CASE ms[k].role = "tool"
  <2>1. PICK i \in 1..(k - 1) : k <= i + Len(ms[i].calls)
    BY <1>1, <1>4, PairedIs DEF Sound
  <2>2. i \in 1..Len(ms) /\ i \in 1..k /\ i < k
    BY <1>1, <2>1
  <2>3. ms[i].calls # <<>>
    BY <1>1, <1>2, <2>1, <2>2
  <2>4. ms[i].role # "tool"
    BY <1>1, <2>2, <2>3 DEF Tidy
  <2> QED
    BY <2>1, <2>2, <2>4
<1> QED
  BY <1>3, <1>4

\* As many results as calls, and all calls answered: each is answered once.
LEMMA AnswersDiffer ==
    ASSUME NEW ms, Sound(ms), NEW i \in 1..Len(ms), IsInjective(ms[i].calls)
    PROVE  \A j, k \in 1..Len(ms[i].calls) : ms[i + j].answers = ms[i + k].answers => j = k
<1> DEFINE n == Len(ms[i].calls)
           C == ToSet(ms[i].calls)
           f == [j \in 1..n |-> ms[i + j].answers]
<1>1. ms \in Seq(Messages) /\ Len(ms) \in Nat /\ ms[i].calls \in Seq(Calls) /\ n \in Nat
  <2>1. ms \in Seq(Messages)
    BY DEF Sound
  <2> QED
    BY <2>1, CallsLength
<1>2. Answered(ms, i, n)
  BY <1>1, PairedIs DEF Sound
<1>3. IsFiniteSet(C) /\ Cardinality(C) = n
  <2>1. ms[i].calls \in Bijection(1..n, C)
    BY <1>1 DEF Bijection, Injection, Surjection, ToSet
  <2>2. ExistsBijection(1..n, C)
    BY <2>1 DEF ExistsBijection
  <2> QED
    BY <1>1, <2>2, FS_NatBijection, FS_CountingElements
<1>4. {ms[k].answers : k \in (i + 1)..(i + n)} = C
  BY <1>2 DEF Answered
<1> HIDE DEF n, C
<1>5. \A j \in 1..n : i + j \in (i + 1)..(i + n) /\ f[j] \in C
  BY <1>1, <1>4
<1>6. \A c \in C : \E j \in 1..n : f[j] = c
  <2> SUFFICES ASSUME NEW c \in C PROVE \E j \in 1..n : f[j] = c
    OBVIOUS
  <2>1. PICK k \in (i + 1)..(i + n) : ms[k].answers = c
    BY <1>4
  <2>2. k - i \in 1..n /\ i + (k - i) = k
    BY <1>1
  <2> QED
    BY <2>1, <2>2
<1>7. f \in [1..n -> C]
  BY <1>5
<1>8. IsFiniteSet(1..n) /\ Cardinality(1..n) = n
  <2>1. /\ IsFiniteSet(1..n)
        /\ Cardinality(1..n) = IF 1 > n THEN 0 ELSE n - 1 + 1
    <3>1. 1 \in Int /\ n \in Int
      BY <1>1
    <3> QED
      BY <3>1, FS_Interval, Zenon
  <2> QED
    BY <1>1, <2>1
<1>9. f \in Injection(1..n, C)
  <2> HIDE DEF f
  <2>1. f \in Surjection(1..n, C)
    BY <1>6, <1>7 DEF Surjection
  <2> QED
    BY <1>3, <1>8, <2>1, FS_Surjection
<1>10. \A j, k \in 1..n : f[j] = f[k] => j = k
  <2> HIDE DEF f
  <2> QED
    BY <1>7, <1>9 DEF Injection, IsInjective
<1> QED
  BY <1>10 DEF n

\* An exchange validates, and leaves no call waiting.
LEMMA UnitTakes ==
    ASSUME NEW ms, Sound(ms), Neat(ms), NEW i \in 1..Len(ms), ms[i].role # "tool",
           Pending(ms)[i - 1] = {}
    PROVE  /\ Pending(ms)[i + Len(ms[i].calls)] = {}
           /\ \A k \in i..(i + Len(ms[i].calls)) : ValidMessage(Pending(ms)[k - 1], ms[k])
<1> DEFINE P == Pending(ms)
           n == Len(ms[i].calls)
           C == ToSet(ms[i].calls)
           Got(j) == {ms[i + k].answers : k \in 1..j}
           S == {j \in 0..n : P[i + j] = C \ Got(j)}
<1>1. /\ P \in [0..Len(ms) -> SUBSET Calls] /\ Len(ms) \in Nat
      /\ \A k \in 1..Len(ms) : P[k] = PendingAfter(P[k - 1], ms[k])
      /\ ms \in Seq(Messages)
  <2>1. ms \in Seq(Messages)
    BY DEF Sound
  <2> QED
    BY <2>1, PendingTable
<1>2. ms[i].calls \in Seq(Calls) /\ n \in Nat /\ (n = 0 <=> ms[i].calls = <<>>)
  BY <1>1, CallsLength
<1>3. /\ i + n <= Len(ms) /\ \A k \in (i + 1)..(i + n) : ms[k].role = "tool"
      /\ {ms[k].answers : k \in (i + 1)..(i + n)} = C
  BY <1>1, PairedIs DEF Sound, Answered
<1>4. ms[i].answers = NoCall /\ ms[i].role \in {"user", "assistant"} /\ IsInjective(ms[i].calls)
  BY DEF Neat
<1>5. \A j, k \in 1..n : ms[i + j].answers = ms[i + k].answers => j = k
  BY <1>4, AnswersDiffer
<1>6. ms[i].calls # <<>> => ms[i].role = "assistant"
  BY <1>1 DEF Sound, Tidy
<1>7. ValidMessage(P[i - 1], ms[i]) /\ P[i] = C
  <2>1. NoCall \notin ToSet(ms[i].calls)
    <3>1. \A j \in DOMAIN ms[i].calls : ms[i].calls[j] \in Calls
      BY <1>2
    <3> QED
      BY <3>1, HistoryAssumption DEF ToSet
  <2>2. P[i - 1] = {}
    OBVIOUS
  <2>3. P[i] = C
    BY <1>1, <2>2 DEF PendingAfter
  <2> HIDE DEF P
  <2>4. ValidMessage(P[i - 1], ms[i])
    BY <1>4, <1>6, <2>1, <2>2 DEF ValidMessage
  <2> QED
    BY <2>3, <2>4
<1>8. ASSUME NEW k \in (i + 1)..(i + n) PROVE ms[k].calls = <<>> /\ k \in 1..Len(ms)
  <2>1. k \in 1..Len(ms) /\ ms[k].role = "tool"
    BY <1>1, <1>2, <1>3
  <2> QED
    BY <1>1, <2>1 DEF Sound, Tidy
<1>9. \A j \in 1..n : /\ i + j \in (i + 1)..(i + n) /\ (i + j) - 1 = i + (j - 1)
                      /\ ms[i + j].answers \in C
                      /\ ms[i + j].answers \notin Got(j - 1)
  <2> SUFFICES ASSUME NEW j \in 1..n
               PROVE  /\ i + j \in (i + 1)..(i + n) /\ (i + j) - 1 = i + (j - 1)
                      /\ ms[i + j].answers \in C
                      /\ ms[i + j].answers \notin Got(j - 1)
    OBVIOUS
  <2> HIDE DEF C, n
  <2>1. i + j \in (i + 1)..(i + n) /\ (i + j) - 1 = i + (j - 1)
    BY <1>2
  <2>2. ms[i + j].answers \in C
    BY <1>3, <2>1
  <2>3. \A k \in 1..(j - 1) : k \in 1..n /\ k # j
    BY <1>2
  <2>4. ms[i + j].answers \notin Got(j - 1)
    BY <1>5, <2>3
  <2> HIDE DEF Got
  <2> QED
    BY <2>1, <2>2, <2>4
<1> HIDE DEF P, n, C
<1>10. 0 \in S
  <2>1. Got(0) = {} /\ i + 0 = i
    OBVIOUS
  <2> HIDE DEF Got
  <2> QED
    BY <1>2, <1>7, <2>1
<1>11. ASSUME NEW j \in 1..n, j - 1 \in S
       PROVE  j \in S /\ ValidMessage(P[(i + j) - 1], ms[i + j])
  <2> DEFINE k == i + j
  <2>1. /\ k \in (i + 1)..(i + n) /\ k - 1 = i + (j - 1)
        /\ ms[k].answers \in C /\ ms[k].answers \notin Got(j - 1)
    BY <1>9
  <2>2. P[k - 1] = C \ Got(j - 1)
    BY <1>11, <2>1
  <2>3. P[k - 1] # {} /\ ms[k].answers \in P[k - 1]
    <3> HIDE DEF Got, k
    <3> QED
      BY <2>1, <2>2
  <2>4. ms[k].calls = <<>> /\ k \in 1..Len(ms) /\ ms[k].role = "tool"
    BY <1>3, <1>8, <2>1
  <2>5. Got(j) = Got(j - 1) \cup {ms[k].answers}
    <3>1. 1..j = (1..(j - 1)) \cup {j}
      BY <1>2
    <3> QED
      BY <3>1
  <2> HIDE DEF k, Got
  <2>6. ValidMessage(P[k - 1], ms[k])
    BY <2>3, <2>4 DEF ValidMessage
  <2>7. P[k] = P[k - 1] \ {ms[k].answers}
    BY <1>1, <2>3, <2>4 DEF PendingAfter
  <2>8. P[k] = C \ Got(j)
    BY <2>2, <2>5, <2>7
  <2>9. j \in 0..n
    BY <1>2
  <2> QED
    BY <2>6, <2>8, <2>9 DEF k
<1>12. \A j \in 0..n : j \in S
  <2> HIDE DEF S
  <2> QED
    BY <1>2, <1>10, <1>11, Induct
<1>13. Got(n) = C
  <2>1. \A c \in C : \E k \in 1..n : ms[i + k].answers = c
    <3> SUFFICES ASSUME NEW c \in C PROVE \E k \in 1..n : ms[i + k].answers = c
      OBVIOUS
    <3>1. PICK k \in (i + 1)..(i + n) : ms[k].answers = c
      BY <1>3
    <3>2. k - i \in 1..n /\ i + (k - i) = k
      BY <1>2
    <3> QED
      BY <3>1, <3>2
  <2>2. \A c \in C : c \in Got(n)
    BY <2>1
  <2>3. \A c \in Got(n) : c \in C
    BY <1>9
  <2> HIDE DEF Got
  <2> QED
    BY <2>2, <2>3
<1>14. P[i + n] = {}
  <2>1. n \in S
    <3> HIDE DEF S
    <3> QED
      BY <1>2, <1>12
  <2>2. P[i + n] = C \ Got(n)
    BY <2>1
  <2> HIDE DEF Got
  <2> QED
    BY <1>13, <2>2
<1>15. ASSUME NEW k \in i..(i + n) PROVE ValidMessage(P[k - 1], ms[k])
  <2>1. CASE k = i
    BY <1>7, <2>1
  <2>2. CASE k # i
    <3>1. k - i \in 1..n /\ i + (k - i) = k /\ (k - i) - 1 \in 0..n
      BY <1>2, <2>2
    <3>2. (k - i) - 1 \in S
      <4> HIDE DEF S
      <4> QED
        BY <1>12, <3>1
    <3> HIDE DEF S
    <3>3. ValidMessage(P[(i + (k - i)) - 1], ms[i + (k - i)])
      BY <1>11, <3>1, <3>2
    <3> QED
      BY <3>1, <3>3
  <2> QED
    BY <2>1, <2>2
<1> QED
  BY <1>14, <1>15 DEF P, n

\* What is sound and neat validates.
LEMMA SoundIsValid ==
    ASSUME NEW ms, Sound(ms), Neat(ms)
    PROVE  ValidateToolHistory(ms)
<1> DEFINE P == Pending(ms)
           m == Len(ms)
           T == {k \in 0..m : IsCut(ms, k) /\ P[k] # {}}
<1>1. /\ ms \in Seq(Messages) /\ m \in Nat /\ P[0] = {} /\ DOMAIN ms = 1..m
  <2>1. ms \in Seq(Messages)
    BY DEF Sound
  <2> QED
    BY <2>1, PendingTable
<1>2. \A i \in 1..m : Len(ms[i].calls) \in Nat
  BY <1>1, CallsLength
<1>3. \A i \in 1..m : i + Len(ms[i].calls) <= m /\ \A k \in (i + 1)..(i + Len(ms[i].calls)) : ms[k].role = "tool"
  BY <1>1, PairedIs DEF Sound, Answered
<1> HIDE DEF P, m
<1>4. T = {}
  <2> SUFFICES ASSUME T # {} PROVE FALSE
    OBVIOUS
  <2>1. T \subseteq Nat
    BY <1>1
  <2>2. PICK k \in T : \A l \in T : k <= l
    BY <2>1, LeastNumber
  <2>3. k \in 0..m /\ IsCut(ms, k) /\ P[k] # {}
    OBVIOUS
  <2>4. k \in 1..m
    BY <1>1, <2>3
  <2>5. PICK i \in 1..k : ms[i].role # "tool" /\ k <= i + Len(ms[i].calls)
    <3>1. k \in 1..Len(ms)
      BY <2>4 DEF m
    <3> QED
      BY <3>1, UnitStart
  <2>6. i \in 1..m /\ i + Len(ms[i].calls) <= m /\ Len(ms[i].calls) \in Nat
    <3>1. i \in 1..m
      BY <1>1, <2>4, <2>5
    <3> QED
      BY <1>2, <1>3, <3>1
  <2>7. k = i + Len(ms[i].calls)
    <3> SUFFICES ASSUME k < i + Len(ms[i].calls) PROVE FALSE
      BY <1>1, <2>4, <2>5, <2>6
    <3>1. k < m /\ k + 1 \in (i + 1)..(i + Len(ms[i].calls))
      BY <1>1, <2>4, <2>5, <2>6
    <3>2. ms[k + 1].role = "tool"
      BY <1>3, <2>6, <3>1
    <3> QED
      BY <2>3, <3>1, <3>2 DEF IsCut, m
  <2>8. P[i - 1] = {}
    <3>1. i - 1 \in 0..m /\ (i - 1) + 1 = i /\ i - 1 < k
      BY <1>1, <2>4, <2>5, <2>6
    <3>2. IsCut(ms, i - 1)
      BY <2>5, <3>1 DEF IsCut
    <3>3. i - 1 \notin T
      BY <1>1, <2>2, <2>4, <3>1
    <3> QED
      BY <3>1, <3>2, <3>3
  <2> HIDE DEF T
  <2>9. P[i + Len(ms[i].calls)] = {}
    <3>1. i \in 1..Len(ms) /\ Pending(ms)[i - 1] = {}
      BY <2>6, <2>8 DEF m, P
    <3> QED
      BY <2>5, <3>1, UnitTakes DEF P
  <2> QED
    BY <2>3, <2>7, <2>9
<1>5. \A k \in 0..m : IsCut(ms, k) => P[k] = {}
  BY <1>4
<1>6. P[m] = {}
  <2>1. m \in 0..m /\ IsCut(ms, m)
    BY <1>1 DEF IsCut, m
  <2> QED
    BY <1>5, <2>1
<1>7. ASSUME NEW k \in 1..m PROVE ValidMessage(P[k - 1], ms[k])
  <2>1. PICK i \in 1..k : ms[i].role # "tool" /\ k <= i + Len(ms[i].calls)
    BY UnitStart DEF m
  <2>2. i \in 1..m /\ i - 1 \in 0..m /\ (i - 1) + 1 = i /\ k \in i..(i + Len(ms[i].calls))
    <3>1. i \in 1..m
      BY <1>1
    <3> QED
      BY <1>1, <1>2, <2>1, <3>1
  <2>3. P[i - 1] = {}
    BY <1>5, <2>1, <2>2 DEF IsCut
  <2> QED
    <3>1. i \in 1..Len(ms) /\ Pending(ms)[i - 1] = {}
      BY <2>2, <2>3 DEF m, P
    <3> QED
      BY <2>1, <2>2, <3>1, UnitTakes DEF P
<1> QED
  BY <1>1, <1>6, <1>7 DEF ValidateToolHistory, P, m

-----------------------------------------------------------------------------
(* A completed turn joins the history                                       *)

\* One more part is flattened at the end.
LEMMA FlattenAppend ==
    ASSUME NEW A, NEW X, X \subseteq Seq(A), <<>> \in X, \A x, y \in X : x \o y \in X,
           NEW s \in Seq(X), NEW z \in X
    PROVE  FlattenSeq(Append(s, z)) = FlattenSeq(s) \o z
<1> DEFINE n == Len(s)
           r == Append(s, z)
<1>1. n \in Nat /\ r \in Seq(X) /\ Len(r) = n + 1 /\ r[n + 1] = z /\ \A i \in 1..n : r[i] = s[i]
  OBVIOUS
<1>2. PICK p : IsFlattenTable(p, s, X)
  BY FlattenTable
<1> HIDE DEF r
<1>3. PICK f : IsFlattenTable(f, r, X)
  BY <1>1, FlattenTable
<1>4. /\ p[0] = <<>> /\ FlattenSeq(s) = p[n] /\ \A i \in 1..n : p[i] = p[i - 1] \o s[i]
      /\ f[0] = <<>> /\ FlattenSeq(r) = f[n + 1] /\ \A i \in 1..(n + 1) : f[i] = f[i - 1] \o r[i]
  BY <1>1, <1>2, <1>3 DEF IsFlattenTable
<1> DEFINE S == {i \in 0..n : f[i] = p[i]}
<1> HIDE DEF n
<1>5. 0 \in S
  BY <1>1, <1>4
<1>6. ASSUME NEW i \in 1..n, i - 1 \in S PROVE i \in S
  <2>1. f[i - 1] = p[i - 1] /\ i \in 0..n /\ i \in 1..(n + 1)
    BY <1>1, <1>6
  <2> QED
    BY <1>1, <1>4, <2>1
<1>7. \A i \in 0..n : i \in S
  <2> HIDE DEF S
  <2> QED
    BY <1>1, <1>5, <1>6, Induct
<1>8. f[n + 1] = f[n] \o z /\ f[n] = p[n]
  <2>1. n + 1 \in 1..(n + 1) /\ (n + 1) - 1 = n /\ n \in 0..n
    BY <1>1
  <2>2. f[n + 1] = f[(n + 1) - 1] \o r[n + 1]
    BY <1>4, <2>1
  <2> QED
    BY <1>1, <1>7, <2>1, <2>2
<1> QED
  BY <1>4, <1>8 DEF r

\* Without positions nothing is picked.
LEMMA PickedNone ==
    ASSUME NEW A, NEW s \in Seq(A), NEW I, \A i \in 1..Len(s) : i \notin I
    PROVE  Picked(s, I) = <<>>
<1>1. PICK g : IsPick(g, Picked(s, I), s, I)
  BY PickedIs
<1>2. Picked(s, I) \in Seq(A)
  BY PickedIs
<1> DEFINE p == Picked(s, I)
<1>3. \A j \in 1..Len(p) : g[j] \in I \cap (1..Len(s))
  BY <1>1 DEF IsPick
<1>4. Len(p) \in Nat
  BY <1>2
<1>5. Len(p) = 0
  <2> SUFFICES ASSUME Len(p) # 0 PROVE FALSE
    OBVIOUS
  <2>1. 1 \in 1..Len(p)
    BY <1>4
  <2> QED
    BY <1>3, <2>1
<1> HIDE DEF p
<1>6. p = <<>>
  BY <1>2, <1>5 DEF p
<1> QED
  BY <1>6 DEF p

\* No row of rs is of turn t, all of rs are.
Lacks(rs, t) == \A i \in 1..Len(rs) : rs[i].msg.turn # t
\* Rows of turn t only.
IsTurn(rs, t) == rs # <<>> /\ \A i \in 1..Len(rs) : rs[i].msg.turn = t

\* The rows of a new turn are a group of their own, the last.
LEMMA GroupsOfTurn ==
    ASSUME NEW a \in Seq(Rows), NEW b \in Seq(Rows), NEW t, Lacks(a, t), IsTurn(b, t)
    PROVE  GroupHistoryRows(a \o b) = Append(GroupHistoryRows(a), b)
<1> DEFINE m == Len(a)
           n == Len(b)
           c == a \o b
           First(s) == {i \in DOMAIN s : \A j \in 1..(i - 1) : s[j].msg.turn # s[i].msg.turn}
           Of(s, u) == {i \in DOMAIN s : s[i].msg.turn = u}
           la == Picked(a, First(a))
           lc == Picked(c, First(c))
           one == <<b[1]>>
<1>1. /\ m \in Nat /\ n \in Nat /\ n >= 1
      /\ c \in Seq(Rows) /\ Len(c) = m + n /\ DOMAIN c = 1..(m + n) /\ DOMAIN a = 1..m /\ DOMAIN b = 1..n
      /\ \A i \in 1..m : c[i] = a[i]
      /\ \A i \in 1..n : c[m + i] = b[i]
  <2>1. n \in Nat /\ n # 0
    BY DEF IsTurn
  <2> QED
    BY <2>1
<1>2. (\A i \in 1..m : a[i].msg.turn # t) /\ \A i \in 1..n : b[i].msg.turn = t
  BY DEF Lacks, IsTurn
<1> HIDE DEF m, n, c
<1>3. Splits(First(c), First(a), {1}, a, b)
  <2>1. ASSUME NEW i \in 1..m PROVE i \in First(c) <=> i \in First(a)
    <3>1. i \in 1..(m + n) /\ \A j \in 1..(i - 1) : j \in 1..m
      BY <1>1
    <3>2. c[i] = a[i] /\ \A j \in 1..(i - 1) : c[j] = a[j]
      BY <1>1, <3>1
    <3> QED
      BY <1>1, <3>1, <3>2
  <2>2. m + 1 \in First(c)
    <3>1. m + 1 \in DOMAIN c /\ 1 \in 1..n
      BY <1>1
    <3>2. c[m + 1].msg.turn = t
      BY <1>1, <1>2, <3>1
    <3>3. \A j \in 1..((m + 1) - 1) : j \in 1..m
      BY <1>1
    <3> QED
      BY <1>1, <1>2, <3>1, <3>2, <3>3
  <2>3. ASSUME NEW i \in 1..n, i # 1 PROVE m + i \notin First(c)
    <3>1. m + 1 \in 1..((m + i) - 1) /\ 1 \in 1..n
      BY <1>1, <2>3
    <3>2. c[m + 1].msg.turn = c[m + i].msg.turn
      BY <1>1, <1>2, <3>1
    <3> QED
      BY <3>1, <3>2
  <2> HIDE DEF First
  <2> QED
    BY <2>1, <2>2, <2>3 DEF Splits, m, n
<1>4. lc = la \o one
  <2>1. lc = la \o Picked(b, {1})
    <3> DEFINE I == First(c)
               J == First(a)
    <3>1. Splits(I, J, {1}, a, b)
      BY <1>3
    <3> HIDE DEF I, J, First
    <3>2. Picked(a \o b, I) = Picked(a, J) \o Picked(b, {1})
      BY <3>1, PickedConcat
    <3> QED
      BY <3>2 DEF c, I, J
  <2>2. Picked(b, {1}) = one
    <3> DEFINE p == Picked(b, {1})
    <3>1. PICK g : IsPick(g, p, b, {1})
      BY PickedIs
    <3>2. p \in Seq(Rows) /\ Len(p) \in Nat
      BY PickedIs
    <3> HIDE DEF p
    <3>3. /\ \A j \in 1..Len(p) : g[j] = 1 /\ p[j] = b[1]
          /\ \A i, j \in 1..Len(p) : i < j => g[i] < g[j]
          /\ \E j \in 1..Len(p) : g[j] = 1
      <4>1. 1 \in {1} \cap (1..Len(b))
        BY <1>1 DEF n
      <4> QED
        BY <3>1, <4>1 DEF IsPick
    <3>4. Len(p) = 1
      <4>1. Len(p) >= 1
        BY <3>2, <3>3
      <4>2. ~ (Len(p) > 1)
        <5> SUFFICES ASSUME Len(p) > 1 PROVE FALSE
          OBVIOUS
        <5>1. 1 \in 1..Len(p) /\ 2 \in 1..Len(p) /\ 1 < 2
          BY <3>2
        <5>2. g[1] < g[2] /\ g[1] = 1 /\ g[2] = 1
          BY <3>3, <5>1
        <5> QED
          BY <5>2
      <4>3. Len(p) \in Nat
        BY <3>2
      <4>4. \A k \in Nat : k >= 1 /\ ~ (k > 1) => k = 1
        OBVIOUS
      <4> QED
        BY <4>1, <4>2, <4>3, <4>4, Zenon
    <3>5. p = one
      <4>1. 1 \in 1..Len(p)
        BY <3>4
      <4>2. p[1] = b[1]
        BY <3>3, <4>1
      <4>3. one \in Seq(Rows) /\ Len(one) = 1 /\ one[1] = b[1]
        <5>1. b[1] \in Rows
          BY <1>1 DEF n
        <5> QED
          BY <5>1
      <4> HIDE DEF one
      <4>4. Len(p) = Len(one) /\ \A j \in 1..Len(p) : p[j] = one[j]
        BY <3>4, <4>2, <4>3
      <4> QED
        BY <3>2, <4>3, <4>4
    <3> QED
      BY <3>5 DEF p
  <2> QED
    BY <2>1, <2>2
<1>5. la \in Seq(Rows) /\ one \in Seq(Rows) /\ Len(one) = 1 /\ one[1] = b[1] /\ Len(la) \in Nat /\ DOMAIN la = 1..Len(la)
  <2>1. la \in Seq(Rows)
    BY PickedIs
  <2>2. b[1] \in Rows
    BY <1>1 DEF n
  <2> HIDE DEF la
  <2> QED
    BY <2>1, <2>2
<1>6. \A k \in 1..Len(la) : la[k].msg.turn # t
  <2>1. PICK g : IsPick(g, la, a, First(a))
    BY PickedIs
  <2> HIDE DEF la, First
  <2>2. \A k \in 1..Len(la) : g[k] \in 1..m /\ la[k] = a[g[k]]
    BY <2>1 DEF IsPick, m
  <2> QED
    BY <1>2, <2>2
<1>7. ASSUME NEW u, u # t PROVE Picked(c, Of(c, u)) = Picked(a, Of(a, u))
  <2>1. Splits(Of(c, u), Of(a, u), {}, a, b)
    <3>1. ASSUME NEW i \in 1..m PROVE i \in Of(c, u) <=> i \in Of(a, u)
      BY <1>1
    <3>2. ASSUME NEW i \in 1..n PROVE m + i \notin Of(c, u)
      BY <1>1, <1>2, <1>7
    <3> HIDE DEF Of
    <3> QED
      BY <3>1, <3>2 DEF Splits, m, n
  <2>2. Picked(c, Of(c, u)) = Picked(a, Of(a, u)) \o Picked(b, {})
    <3> HIDE DEF Of
    <3>1. \A I, J, K : Splits(I, J, K, a, b) => Picked(a \o b, I) = Picked(a, J) \o Picked(b, K)
      BY PickedConcat
    <3> QED
      BY <2>1, <3>1 DEF c
  <2>3. Picked(b, {}) = <<>> /\ Picked(a, Of(a, u)) \in Seq(Rows)
    BY PickedNone, PickedIs
  <2> HIDE DEF Of
  <2> QED
    BY <2>2, <2>3
<1>8. Picked(c, Of(c, t)) = b
  <2>1. Splits(Of(c, t), {}, 1..n, a, b)
    <3>1. ASSUME NEW i \in 1..m PROVE i \notin Of(c, t)
      BY <1>1, <1>2
    <3>2. ASSUME NEW i \in 1..n PROVE m + i \in Of(c, t)
      <4>1. m + i \in 1..(m + n)
        BY <1>1
      <4>2. c[m + i] = b[i] /\ b[i].msg.turn = t
        BY <1>1, <1>2
      <4> QED
        BY <1>1, <4>1, <4>2
    <3> HIDE DEF Of
    <3> QED
      BY <3>1, <3>2 DEF Splits, m, n
  <2>2. Picked(c, Of(c, t)) = Picked(a, {}) \o Picked(b, 1..n)
    <3> HIDE DEF Of
    <3>1. \A I, J, K : Splits(I, J, K, a, b) => Picked(a \o b, I) = Picked(a, J) \o Picked(b, K)
      BY PickedConcat
    <3> QED
      BY <2>1, <3>1 DEF c
  <2>3. Picked(a, {}) = <<>> /\ Picked(b, 1..n) = b
    BY PickedNone, PickedAll DEF n
  <2> HIDE DEF Of
  <2> QED
    BY <2>2, <2>3
<1> DEFINE ga == GroupHistoryRows(a)
           gc == GroupHistoryRows(c)
           l == Len(la)
<1>9. ga = [k \in DOMAIN la |-> Picked(a, Of(a, la[k].msg.turn))]
  BY DEF GroupHistoryRows
<1>10. gc = [k \in DOMAIN lc |-> Picked(c, Of(c, lc[k].msg.turn))]
  BY DEF GroupHistoryRows
<1> HIDE DEF Of, First, la, lc, one, ga, gc
<1>11. /\ Len(lc) = l + 1 /\ DOMAIN lc = 1..(l + 1)
       /\ \A k \in 1..l : lc[k] = la[k]
       /\ lc[l + 1] = b[1]
  <2>1. la \in Seq(Rows) /\ one \in Seq(Rows)
    BY <1>5
  <2>2. /\ la \o one \in Seq(Rows) /\ Len(la \o one) = Len(la) + Len(one)
        /\ \A k \in 1..Len(la) : (la \o one)[k] = la[k]
        /\ \A k \in 1..Len(one) : (la \o one)[Len(la) + k] = one[k]
    BY <2>1
  <2>3. DOMAIN lc = 1..Len(lc) /\ Len(lc) = l + 1
    BY <1>4, <1>5, <2>2
  <2>4. 1 \in 1..Len(one)
    BY <1>5
  <2> QED
    BY <1>4, <1>5, <2>2, <2>3, <2>4
<1>12. b[1].msg.turn = t
  BY <1>1, <1>2
<1>13. ga \in Seq(Seq(Rows)) /\ Len(ga) = l /\ gc \in Seq(Seq(Rows)) /\ Len(gc) = l + 1
  <2>1. ga \in Seq(Seq(Rows)) /\ gc \in Seq(Seq(Rows))
    BY <1>1, GroupsAreRows DEF ga, gc
  <2>2. DOMAIN ga = 1..l /\ DOMAIN gc = 1..(l + 1)
    BY <1>5, <1>9, <1>10, <1>11
  <2> QED
    BY <1>5, <2>1, <2>2
<1>14. \A k \in 1..l : gc[k] = ga[k]
  <2> SUFFICES ASSUME NEW k \in 1..l PROVE gc[k] = ga[k]
    OBVIOUS
  <2>1. k \in DOMAIN lc /\ k \in DOMAIN la /\ lc[k] = la[k]
    BY <1>5, <1>11
  <2>2. gc[k] = Picked(c, Of(c, la[k].msg.turn)) /\ ga[k] = Picked(a, Of(a, la[k].msg.turn))
    BY <1>9, <1>10, <2>1
  <2> QED
    BY <1>6, <1>7, <2>2
<1>15. gc[l + 1] = b
  <2>1. l + 1 \in DOMAIN lc
    BY <1>5, <1>11
  <2> QED
    BY <1>8, <1>10, <1>11, <1>12, <2>1
<1>16. gc = Append(ga, b)
  <2> DEFINE ap == Append(ga, b)
  <2>1. ap \in Seq(Seq(Rows)) /\ Len(ap) = l + 1 /\ ap[l + 1] = b /\ \A k \in 1..l : ap[k] = ga[k]
    BY <1>13
  <2> HIDE DEF ap
  <2>2. \A k \in 1..(l + 1) : gc[k] = ap[k]
    <3>1. \A k \in 1..(l + 1) : k \in 1..l \/ k = l + 1
      BY <1>5
    <3> QED
      BY <1>14, <1>15, <2>1, <3>1
  <2>3. gc = ap
    BY <1>13, <2>1, <2>2
  <2> QED
    BY <2>3 DEF ap
<1> QED
  BY <1>16 DEF ga, gc, c

\* The messages of rows.
Msgs(rs) == [i \in DOMAIN rs |-> rs[i].msg]

\* The messages of rows, one by one.
LEMMA MsgsIs ==
    ASSUME NEW rs \in Seq(Rows)
    PROVE  /\ Msgs(rs) \in Seq(Messages) /\ Len(Msgs(rs)) = Len(rs)
           /\ DOMAIN Msgs(rs) = 1..Len(rs) /\ Len(rs) \in Nat
           /\ \A i \in 1..Len(rs) : Msgs(rs)[i] = rs[i].msg
<1>1. DOMAIN rs = 1..Len(rs) /\ Len(rs) \in Nat /\ \A i \in 1..Len(rs) : rs[i] \in Rows
  OBVIOUS
<1>2. \A r \in Rows : r.msg \in Messages
  BY DEF Rows
<1>3. Msgs(rs) \in [1..Len(rs) -> Messages] /\ \A i \in 1..Len(rs) : Msgs(rs)[i] = rs[i].msg
  BY <1>1, <1>2 DEF Msgs
<1> QED
  BY <1>1, <1>3, FunctionIsSequence

\* The messages of two lists of rows after one another.
LEMMA MsgsConcat ==
    ASSUME NEW a \in Seq(Rows), NEW b \in Seq(Rows)
    PROVE  Msgs(a \o b) = Msgs(a) \o Msgs(b)
<1> DEFINE m == Len(a)
           n == Len(b)
           c == a \o b
           u == Msgs(a)
           v == Msgs(b)
           w == Msgs(c)
           z == u \o v
<1>1. /\ m \in Nat /\ n \in Nat /\ c \in Seq(Rows) /\ Len(c) = m + n
      /\ \A i \in 1..m : c[i] = a[i]
      /\ \A i \in 1..n : c[m + i] = b[i]
  OBVIOUS
<1>2. /\ u \in Seq(Messages) /\ Len(u) = m /\ \A i \in 1..m : u[i] = a[i].msg
      /\ v \in Seq(Messages) /\ Len(v) = n /\ \A i \in 1..n : v[i] = b[i].msg
  BY MsgsIs
<1> HIDE DEF c, u, v
<1>3. w \in Seq(Messages) /\ Len(w) = m + n /\ \A i \in 1..(m + n) : w[i] = c[i].msg
  BY <1>1, MsgsIs
<1>4. /\ z \in Seq(Messages) /\ Len(z) = m + n
      /\ \A i \in 1..m : z[i] = u[i]
      /\ \A i \in 1..n : z[m + i] = v[i]
  <2>1. u \in Seq(Messages) /\ v \in Seq(Messages)
    BY <1>2
  <2>2. /\ z \in Seq(Messages) /\ Len(z) = Len(u) + Len(v)
        /\ \A i \in 1..Len(u) : z[i] = u[i]
        /\ \A i \in 1..Len(v) : z[Len(u) + i] = v[i]
    BY <2>1
  <2> HIDE DEF z
  <2> QED
    BY <1>2, <2>2
<1> HIDE DEF w, z, m, n
<1>5. \A i \in 1..(m + n) : w[i] = z[i]
  <2> SUFFICES ASSUME NEW i \in 1..(m + n) PROVE w[i] = z[i]
    OBVIOUS
  <2>1. CASE i <= m
    <3>1. i \in 1..m
      BY <1>1, <2>1
    <3>2. c[i] = a[i]
      BY <1>1, <3>1
    <3>3. z[i] = u[i] /\ u[i] = a[i].msg
      BY <1>2, <1>4, <3>1
    <3>4. w[i] = c[i].msg
      BY <1>3
    <3> QED
      BY <3>2, <3>3, <3>4
  <2>2. CASE i > m
    <3>1. i - m \in 1..n /\ m + (i - m) = i
      BY <1>1, <2>2
    <3>2. c[m + (i - m)] = b[i - m] /\ z[m + (i - m)] = v[i - m] /\ v[i - m] = b[i - m].msg
      BY <1>1, <1>2, <1>4, <3>1
    <3> QED
      BY <1>3, <3>1, <3>2
  <2> QED
    BY <1>1, <2>1, <2>2
<1>6. w = z
  BY <1>3, <1>4, <1>5
<1> QED
  BY <1>6 DEF w, z, c, u, v

\* The turns the service ran, of what is read back and of what is stored.
Service(ms) == Picked(ms, {i \in DOMAIN ms : ms[i].turn <= MaxTurns})

\* A row the next turn must read back.
StoredRow(r) ==
    r.complete /\ r.msg.turn <= MaxTurns /\ ~ShouldSkipEmptyAssistant(r.msg)

\* What the next turn must read back.
Due(rs) == Msgs(Picked(rs, {i \in DOMAIN rs : StoredRow(rs[i])}))

\* What is read back is what is stored.
Remembers(rs) == Service(LoadHistory(rs)) = Due(rs)

\* A completed turn as it is stored.
CompleteTurn(b, t) ==
    /\ IsTurn(b, t) /\ b[1].msg.role = "user"
    /\ \A i \in 1..Len(b) : b[i].complete /\ b[i].readable /\ b[i].msg.role # "system"
    /\ Sound(Msgs(b)) /\ Neat(Msgs(b))

\* It joins what is read back at the end.
LEMMA LoadTurn ==
    ASSUME NEW old \in Seq(Rows), NEW b \in Seq(Rows), NEW t, Lacks(old, t), CompleteTurn(b, t)
    PROVE  LoadHistory(old \o b) = LoadHistory(old) \o TurnMessages(b)
<1> DEFINE c == old \o b
           I == {i \in DOMAIN c : c[i].complete}
           J == {i \in DOMAIN old : old[i].complete}
           K == {i \in DOMAIN b : b[i].complete}
           a == Picked(old, J)
           ga == GroupHistoryRows(a)
           parts == [i \in DOMAIN ga |-> TurnMessages(ga[i])]
           gb == GroupHistoryRows(a \o b)
           more == [i \in DOMAIN gb |-> TurnMessages(gb[i])]
           last == TurnMessages(b)
<1>1. /\ Len(old) \in Nat /\ Len(b) \in Nat /\ DOMAIN c = 1..(Len(old) + Len(b))
      /\ DOMAIN old = 1..Len(old) /\ DOMAIN b = 1..Len(b)
      /\ \A i \in 1..Len(old) : c[i] = old[i]
      /\ \A i \in 1..Len(b) : c[Len(old) + i] = b[i]
  OBVIOUS
<1>2. Splits(I, J, K, old, b)
  <2> HIDE DEF c
  <2>1. \A i \in 1..Len(old) : i \in 1..(Len(old) + Len(b))
    BY <1>1
  <2>2. \A i \in 1..Len(b) : Len(old) + i \in 1..(Len(old) + Len(b))
    BY <1>1
  <2>3. \A i \in 1..Len(old) : i \in I <=> i \in J
    BY <1>1, <2>1
  <2>4. \A i \in 1..Len(b) : Len(old) + i \in I <=> i \in K
    BY <1>1, <2>2
  <2> HIDE DEF I, J, K
  <2> QED
    BY <2>3, <2>4 DEF Splits
<1>3. Picked(c, I) = a \o b
  <2>1. \A i \in 1..Len(b) : i \in K
    BY <1>1 DEF CompleteTurn
  <2> HIDE DEF I, J, K
  <2>2. Picked(old \o b, I) = Picked(old, J) \o Picked(b, K)
    BY <1>2, PickedConcat
  <2>3. Picked(b, K) = b
    BY <2>1, PickedAll
  <2> QED
    BY <2>2, <2>3
<1>4. a \in Seq(Rows) /\ Lacks(a, t)
  <2> HIDE DEF J
  <2>1. a \in Seq(Rows)
    BY PickedIs
  <2>2. PICK g : IsPick(g, a, old, J)
    BY PickedIs
  <2> HIDE DEF a
  <2>3. \A k \in 1..Len(a) : g[k] \in 1..Len(old) /\ a[k] = old[g[k]]
    BY <2>2 DEF IsPick
  <2> QED
    BY <2>1, <2>3 DEF Lacks
<1>5. LoadHistory(old) = FlattenSeq(parts)
  BY DEF LoadHistory
<1>6. LoadHistory(old \o b) = FlattenSeq(more)
  <2>1. LoadHistory(c) = LET turns == GroupHistoryRows(Picked(c, I))
                         IN FlattenSeq([i \in DOMAIN turns |-> TurnMessages(turns[i])])
    BY DEF LoadHistory
  <2> HIDE DEF I, a, c
  <2>2. LoadHistory(c) = FlattenSeq(more)
    BY <1>3, <2>1
  <2> QED
    BY <2>2 DEF c
<1> HIDE DEF a, ga, gb
<1>7. gb = Append(ga, b)
  BY <1>4, GroupsOfTurn DEF ga, gb, CompleteTurn
<1>8. ga \in Seq(Seq(Rows))
  BY <1>4, GroupsAreRows DEF ga
<1> DEFINE n == Len(ga)
<1>9. /\ n \in Nat /\ DOMAIN ga = 1..n /\ DOMAIN gb = 1..(n + 1)
      /\ \A i \in 1..n : ga[i] \in Seq(Rows) /\ gb[i] = ga[i]
      /\ gb[n + 1] = b
  BY <1>7, <1>8
<1>10. \A i \in 1..n : parts[i] = TurnMessages(ga[i]) /\ parts[i] \in Replayable
  BY <1>9, TurnIsReplayable
<1>11. last \in Replayable
  BY TurnIsReplayable
<1>12. parts \in [1..n -> Replayable]
  BY <1>9, <1>10
<1>13. \A i \in 1..(n + 1) : more[i] = TurnMessages(gb[i])
  BY <1>9
<1>14. DOMAIN more = 1..(n + 1)
  BY <1>9
<1> HIDE DEF parts, n, last
<1>15. parts \in Seq(Replayable) /\ Len(parts) = n
  BY <1>9, <1>12, FunctionIsSequence
<1>16. more = Append(parts, last)
  <2> DEFINE ap == Append(parts, last)
  <2>1. ap \in Seq(Replayable) /\ Len(ap) = n + 1 /\ ap[n + 1] = last /\ \A i \in 1..n : ap[i] = parts[i]
    BY <1>11, <1>15
  <2> HIDE DEF ap
  <2>2. \A i \in 1..(n + 1) : more[i] = ap[i]
    <3> SUFFICES ASSUME NEW i \in 1..(n + 1) PROVE more[i] = ap[i]
      OBVIOUS
    <3>1. CASE i = n + 1
      BY <1>9, <1>13, <2>1, <3>1 DEF last
    <3>2. CASE i \in 1..n
      BY <1>9, <1>10, <1>13, <2>1, <3>2
    <3> QED
      BY <1>9, <3>1, <3>2
  <2>3. \A i \in 1..(n + 1) : more[i] \in Replayable
    <3>1. \A i \in 1..(n + 1) : ap[i] \in Replayable
      BY <2>1
    <3> QED
      BY <2>2, <3>1
  <2> HIDE DEF more
  <2>4. more = [i \in 1..(n + 1) |-> more[i]]
    BY <1>14 DEF more
  <2>5. more \in Seq(Replayable) /\ Len(more) = n + 1
    <3>1. more \in [1..(n + 1) -> Replayable]
      BY <2>3, <2>4
    <3> QED
      BY <1>9, <3>1, FunctionIsSequence
  <2>6. more = ap
    BY <2>1, <2>2, <2>5
  <2> QED
    BY <2>6 DEF ap
<1>17. Replayable \subseteq Seq(Messages)
  BY DEF Replayable
<1>18. FlattenSeq(more) = FlattenSeq(parts) \o last
  BY <1>11, <1>15, <1>16, <1>17, ReplayableConcat, FlattenAppend
<1> QED
  BY <1>5, <1>6, <1>18 DEF last

\* A message of a stored turn that is read back.
Told(rs) == {i \in DOMAIN rs : ~ShouldSkipEmptyAssistant(rs[i].msg)}

\* Picking rows picks their messages.
LEMMA PickMsgs ==
    ASSUME NEW b \in Seq(Rows), NEW p \in Seq(Rows), NEW g, NEW I, IsPick(g, p, b, I)
    PROVE  IsPick(g, Msgs(p), Msgs(b), I)
<1>1. /\ Len(Msgs(p)) = Len(p) /\ \A i \in 1..Len(p) : Msgs(p)[i] = p[i].msg
      /\ Len(Msgs(b)) = Len(b) /\ \A i \in 1..Len(b) : Msgs(b)[i] = b[i].msg
  BY MsgsIs
<1>2. \A j \in 1..Len(p) : g[j] \in 1..Len(b) /\ p[j] = b[g[j]]
  BY DEF IsPick
<1>3. \A j \in 1..Len(p) : Msgs(p)[j] = Msgs(b)[g[j]]
  BY <1>1, <1>2
<1> HIDE DEF Msgs
<1> QED
  BY <1>1, <1>3 DEF IsPick

\* Nothing but a lone empty reply is left out of a turn.
LEMMA ToldIsWhole ==
    ASSUME NEW b \in Seq(Rows), Sound(Msgs(b))
    PROVE  Whole(Msgs(b), Told(b))
<1> DEFINE ms == Msgs(b)
<1>1. /\ ms \in Seq(Messages) /\ Len(ms) = Len(b) /\ Len(b) \in Nat /\ DOMAIN b = 1..Len(b)
      /\ \A i \in 1..Len(b) : ms[i] = b[i].msg
  BY MsgsIs
<1>2. Paired(ms)
  BY DEF Sound
<1> HIDE DEF ms
<1>3. \A i \in 1..Len(ms) : Answered(ms, i, Len(ms[i].calls))
  BY <1>1, <1>2, PairedIs
<1>4. \A i \in 1..Len(ms) : i \in Told(b) <=> ~ShouldSkipEmptyAssistant(ms[i])
  BY <1>1 DEF Told
<1>5. SUFFICES ASSUME NEW i \in 1..Len(ms), NEW k \in i..(i + Len(ms[i].calls))
               PROVE  k \in Told(b) <=> i \in Told(b)
  BY DEF Whole, ms
<1>6. Len(ms[i].calls) \in Nat /\ (Len(ms[i].calls) = 0 <=> ms[i].calls = <<>>)
  BY <1>1, CallsLength
<1>7. CASE k = i
  BY <1>7
<1>8. CASE k # i
  <2>1. k \in (i + 1)..(i + Len(ms[i].calls)) /\ Len(ms[i].calls) # 0
    BY <1>1, <1>5, <1>6, <1>8
  <2>2. ms[k].role = "tool" /\ k \in 1..Len(ms)
    BY <1>1, <1>3, <1>6, <2>1 DEF Answered
  <2>3. i \in Told(b)
    BY <1>4, <1>6, <2>1 DEF ShouldSkipEmptyAssistant
  <2>4. k \in Told(b)
    BY <1>4, <2>2 DEF ShouldSkipEmptyAssistant
  <2> QED
    BY <2>3, <2>4
<1> QED
  BY <1>7, <1>8

\* A completed turn is read back as it is stored.
LEMMA TurnIsKept ==
    ASSUME NEW b \in Seq(Rows), NEW t \in 1..MaxTurns, CompleteTurn(b, t)
    PROVE  /\ TurnMessages(b) = Due(b)
           /\ Due(b) \in Seq(Messages)
           /\ \A i \in 1..Len(Due(b)) : Due(b)[i].turn = t
<1> DEFINE I == {i \in DOMAIN b : IsDurableMessage(b[i]) /\ ~ShouldSkipEmptyAssistant(b[i].msg)}
           K == {i \in DOMAIN b : StoredRow(b[i])}
           D == Told(b)
           p == Picked(b, D)
           h == Msgs(p)
<1>1. /\ Len(b) \in Nat /\ Len(b) >= 1 /\ DOMAIN b = 1..Len(b)
      /\ \A i \in 1..Len(b) : b[i].complete /\ b[i].readable /\ b[i].msg.role # "system"
      /\ \A i \in 1..Len(b) : b[i].msg.turn = t
      /\ b[1].msg.role = "user"
  BY DEF CompleteTurn, IsTurn
<1>2. I = D
  BY <1>1 DEF IsDurableMessage, Told
<1>3. K = D
  <2>1. MaxTurns \in Nat /\ t <= MaxTurns
    BY HistoryAssumption
  <2> QED
    BY <1>1, <2>1 DEF StoredRow, Told
<1>4. Due(b) = h
  BY <1>3 DEF Due
<1>5. HistoryMessages(b) = h
  <2>1. HistoryMessages(b) = Msgs(Picked(b, I))
    BY DEF HistoryMessages, Msgs
  <2> HIDE DEF I, D
  <2> QED
    BY <1>2, <2>1
<1>6. PICK g : p \in Seq(Rows) /\ IsPick(g, p, b, D)
  BY PickedIs
<1> HIDE DEF I, K, D, p
<1>7. /\ h \in Seq(Messages) /\ Len(h) = Len(p) /\ Len(p) \in Nat
      /\ \A i \in 1..Len(p) : h[i] = p[i].msg
  BY <1>6, MsgsIs
<1> DEFINE ms == Msgs(b)
<1>8. ms \in Seq(Messages) /\ Len(ms) = Len(b) /\ \A i \in 1..Len(b) : ms[i] = b[i].msg
  BY MsgsIs
<1>9. Sound(ms) /\ Neat(ms)
  BY DEF CompleteTurn
<1>10. Whole(ms, D)
  BY <1>9, ToldIsWhole DEF D
<1>11. IsPick(g, h, ms, D)
  BY <1>6, PickMsgs
<1> HIDE DEF h, ms
<1>12. Sound(h)
  BY <1>7, <1>9, <1>10, <1>11, SoundPick
<1>13. \A j \in 1..Len(h) : g[j] \in 1..Len(ms) /\ h[j] = ms[g[j]]
  BY <1>11 DEF IsPick
<1>14. Neat(h)
  BY <1>9, <1>13 DEF Neat
<1>15. ValidateToolHistory(h)
  BY <1>12, <1>14, SoundIsValid
<1>16. h # <<>>
  <2>1. 1 \in D
    BY <1>1 DEF D, Told, ShouldSkipEmptyAssistant
  <2>2. 1 \in D \cap (1..Len(ms))
    BY <1>1, <1>8, <2>1
  <2>3. \E j \in 1..Len(h) : g[j] = 1
    BY <1>11, <2>2 DEF IsPick
  <2> QED
    BY <1>7, <2>3
<1>17. TurnMessages(b) = h
  <2>1. \A i \in DOMAIN b : b[i].readable
    BY <1>1
  <2> QED
    BY <1>5, <1>15, <1>16, <2>1 DEF TurnMessages
<1>18. \A i \in 1..Len(h) : h[i].turn = t
  <2>1. \A i \in 1..Len(ms) : ms[i].turn = t
    BY <1>1, <1>8
  <2> QED
    BY <1>13, <2>1
<1> QED
  BY <1>4, <1>7, <1>17, <1>18

\* What the service ran of two lists after one another.
LEMMA ServiceConcat ==
    ASSUME NEW a \in Seq(Messages), NEW b \in Seq(Messages)
    PROVE  Service(a \o b) = Service(a) \o Service(b)
<1> DEFINE c == a \o b
           I == {i \in DOMAIN c : c[i].turn <= MaxTurns}
           J == {i \in DOMAIN a : a[i].turn <= MaxTurns}
           K == {i \in DOMAIN b : b[i].turn <= MaxTurns}
<1>1. /\ Len(a) \in Nat /\ Len(b) \in Nat /\ DOMAIN c = 1..(Len(a) + Len(b))
      /\ DOMAIN a = 1..Len(a) /\ DOMAIN b = 1..Len(b)
      /\ \A i \in 1..Len(a) : c[i] = a[i]
      /\ \A i \in 1..Len(b) : c[Len(a) + i] = b[i]
  OBVIOUS
<1>2. Splits(I, J, K, a, b)
  <2> HIDE DEF c
  <2>1. \A i \in 1..Len(a) : i \in 1..(Len(a) + Len(b))
    BY <1>1
  <2>2. \A i \in 1..Len(b) : Len(a) + i \in 1..(Len(a) + Len(b))
    BY <1>1
  <2>3. \A i \in 1..Len(a) : i \in I <=> i \in J
    BY <1>1, <2>1
  <2>4. \A i \in 1..Len(b) : Len(a) + i \in I <=> i \in K
    BY <1>1, <2>2
  <2> HIDE DEF I, J, K
  <2> QED
    BY <2>3, <2>4 DEF Splits
<1>3. Service(c) = Picked(c, I) /\ Service(a) = Picked(a, J) /\ Service(b) = Picked(b, K)
  BY DEF Service
<1> HIDE DEF I, J, K
<1>4. Picked(a \o b, I) = Picked(a, J) \o Picked(b, K)
  BY <1>2, PickedConcat
<1> QED
  BY <1>3, <1>4

\* What is due of two lists of rows after one another.
LEMMA DueConcat ==
    ASSUME NEW a \in Seq(Rows), NEW b \in Seq(Rows)
    PROVE  Due(a \o b) = Due(a) \o Due(b)
<1> DEFINE c == a \o b
           I == {i \in DOMAIN c : StoredRow(c[i])}
           J == {i \in DOMAIN a : StoredRow(a[i])}
           K == {i \in DOMAIN b : StoredRow(b[i])}
<1>1. /\ Len(a) \in Nat /\ Len(b) \in Nat /\ DOMAIN c = 1..(Len(a) + Len(b))
      /\ DOMAIN a = 1..Len(a) /\ DOMAIN b = 1..Len(b)
      /\ \A i \in 1..Len(a) : c[i] = a[i]
      /\ \A i \in 1..Len(b) : c[Len(a) + i] = b[i]
  OBVIOUS
<1>2. Splits(I, J, K, a, b)
  <2> HIDE DEF c
  <2>1. \A i \in 1..Len(a) : i \in 1..(Len(a) + Len(b))
    BY <1>1
  <2>2. \A i \in 1..Len(b) : Len(a) + i \in 1..(Len(a) + Len(b))
    BY <1>1
  <2>3. \A i \in 1..Len(a) : i \in I <=> i \in J
    BY <1>1, <2>1
  <2>4. \A i \in 1..Len(b) : Len(a) + i \in I <=> i \in K
    BY <1>1, <2>2
  <2> HIDE DEF I, J, K
  <2> QED
    BY <2>3, <2>4 DEF Splits
<1>3. Due(c) = Msgs(Picked(c, I)) /\ Due(a) = Msgs(Picked(a, J)) /\ Due(b) = Msgs(Picked(b, K))
  BY DEF Due
<1> HIDE DEF I, J, K
<1>4. Picked(a \o b, I) = Picked(a, J) \o Picked(b, K)
  BY <1>2, PickedConcat
<1>5. Picked(a, J) \in Seq(Rows) /\ Picked(b, K) \in Seq(Rows)
  BY PickedIs
<1>6. Msgs(Picked(a, J) \o Picked(b, K)) = Msgs(Picked(a, J)) \o Msgs(Picked(b, K))
  BY <1>5, MsgsConcat
<1> QED
  BY <1>3, <1>4, <1>6

\* A chat that remembers remembers a further completed turn.
LEMMA TurnJoins ==
    ASSUME NEW old \in Seq(Rows), NEW b \in Seq(Rows), NEW t \in 1..MaxTurns,
           Remembers(old), Lacks(old, t), CompleteTurn(b, t)
    PROVE  Remembers(old \o b)
<1>1. /\ TurnMessages(b) = Due(b) /\ Due(b) \in Seq(Messages)
      /\ \A i \in 1..Len(Due(b)) : Due(b)[i].turn = t
  BY TurnIsKept
<1>2. LoadHistory(old \o b) = LoadHistory(old) \o Due(b)
  BY <1>1, LoadTurn
<1>3. LoadHistory(old) \in Seq(Messages)
  BY HistoryIsReplayable DEF Replayable
<1>4. Service(Due(b)) = Due(b)
  <2> DEFINE d == Due(b)
             I == {i \in DOMAIN d : d[i].turn <= MaxTurns}
  <2>1. t <= MaxTurns
    BY HistoryAssumption
  <2>2. d \in Seq(Messages) /\ DOMAIN d = 1..Len(d)
    BY <1>1
  <2>3. Service(d) = Picked(d, I)
    BY DEF Service
  <2> HIDE DEF d
  <2>4. \A i \in 1..Len(d) : i \in I
    BY <1>1, <2>1, <2>2 DEF d
  <2> HIDE DEF I
  <2>5. Picked(d, I) = d
    BY <2>2, <2>4, PickedAll
  <2> QED
    BY <2>3, <2>5 DEF d
<1>5. Service(LoadHistory(old) \o Due(b)) = Service(LoadHistory(old)) \o Service(Due(b))
  BY <1>1, <1>3, ServiceConcat
<1>6. Due(old \o b) = Due(old) \o Due(b)
  BY DueConcat
<1> QED
  BY <1>2, <1>4, <1>5, <1>6 DEF Remembers

\* An incomplete row changes nothing of it.
LEMMA IncompleteIsNotDue ==
    ASSUME NEW rs \in Seq(Rows), NEW r \in Rows, ~r.complete, Remembers(rs)
    PROVE  Remembers(Append(rs, r))
<1>1. LoadHistory(Append(rs, r)) = LoadHistory(rs)
  BY IncompleteIsNotLoaded
<1> DEFINE b == <<r>>
           K == {i \in DOMAIN b : StoredRow(b[i])}
<1>2. b \in Seq(Rows) /\ rs \o b = Append(rs, r) /\ Len(b) = 1 /\ DOMAIN b = {1} /\ b[1] = r
  OBVIOUS
<1>3. Due(b) = Msgs(Picked(b, K))
  BY DEF Due
<1> HIDE DEF b
<1>4. \A i \in 1..Len(b) : i \notin K
  BY <1>2 DEF StoredRow
<1> HIDE DEF K
<1>5. Due(b) = <<>>
  <2>1. Picked(b, K) = <<>>
    BY <1>2, <1>4, PickedNone
  <2>2. Msgs(<<>>) = <<>>
    BY DEF Msgs
  <2> QED
    BY <1>3, <2>1, <2>2
<1>6. Due(Append(rs, r)) = Due(rs)
  <2>1. Due(rs \o b) = Due(rs) \o Due(b)
    BY <1>2, DueConcat
  <2>2. Picked(rs, {i \in DOMAIN rs : StoredRow(rs[i])}) \in Seq(Rows)
    BY PickedIs
  <2>3. Due(rs) \in Seq(Messages)
    BY <2>2, MsgsIs DEF Due
  <2>4. Due(rs) \o <<>> = Due(rs)
    BY <2>3
  <2> QED
    BY <1>2, <1>5, <2>1, <2>4
<1> QED
  BY <1>1, <1>6 DEF Remembers

\* Turns this service did not run.
Foreign(rs) == \A i \in 1..Len(rs) : rs[i].msg.turn > MaxTurns

\* Messages of turns this service did not run.
ForeignMessages ==
    {ms \in Seq(Messages) : \A i \in 1..Len(ms) : ms[i].turn > MaxTurns}

\* Foreign messages after one another are foreign.
LEMMA ForeignConcat ==
    /\ <<>> \in ForeignMessages
    /\ \A x, y \in ForeignMessages : x \o y \in ForeignMessages
<1>1. <<>> \in ForeignMessages
  BY DEF ForeignMessages
<1>2. SUFFICES ASSUME NEW x \in ForeignMessages, NEW y \in ForeignMessages
               PROVE  x \o y \in ForeignMessages
  BY <1>1
<1> DEFINE z == x \o y
           m == Len(x)
<1>3. /\ x \in Seq(Messages) /\ y \in Seq(Messages)
      /\ \A i \in 1..Len(x) : x[i].turn > MaxTurns
      /\ \A i \in 1..Len(y) : y[i].turn > MaxTurns
  BY DEF ForeignMessages
<1>4. /\ z \in Seq(Messages) /\ m \in Nat /\ Len(y) \in Nat /\ Len(z) = m + Len(y)
      /\ \A i \in 1..m : z[i] = x[i]
      /\ \A i \in 1..Len(y) : z[m + i] = y[i]
  <2>1. x \in Seq(Messages) /\ y \in Seq(Messages)
    BY <1>3
  <2> QED
    BY <2>1
<1> HIDE DEF z, m
<1>5. \A i \in 1..Len(z) : z[i].turn > MaxTurns
  <2> SUFFICES ASSUME NEW i \in 1..Len(z) PROVE z[i].turn > MaxTurns
    OBVIOUS
  <2>1. CASE i \in 1..m
    BY <1>3, <1>4, <2>1 DEF m
  <2>2. CASE i > m
    <3>1. i - m \in 1..Len(y) /\ m + (i - m) = i
      BY <1>4, <2>2
    <3>2. z[m + (i - m)] = y[i - m] /\ y[i - m].turn > MaxTurns
      BY <1>3, <1>4, <3>1
    <3> QED
      BY <3>1, <3>2
  <2> QED
    BY <1>4, <2>1, <2>2
<1> QED
  BY <1>4, <1>5 DEF ForeignMessages, z

\* What is picked from foreign rows is foreign.
LEMMA ForeignPick ==
    ASSUME NEW rs \in Seq(Rows), Foreign(rs), NEW I
    PROVE  Picked(rs, I) \in Seq(Rows) /\ Foreign(Picked(rs, I))
<1>1. PICK g : Picked(rs, I) \in Seq(Rows) /\ IsPick(g, Picked(rs, I), rs, I)
  BY PickedIs
<1>2. \A j \in 1..Len(Picked(rs, I)) : g[j] \in 1..Len(rs) /\ Picked(rs, I)[j] = rs[g[j]]
  BY <1>1 DEF IsPick
<1> QED
  BY <1>1, <1>2 DEF Foreign

\* A foreign turn is read back as foreign messages.
LEMMA ForeignTurn ==
    ASSUME NEW rs \in Seq(Rows), Foreign(rs)
    PROVE  TurnMessages(rs) \in ForeignMessages
<1> DEFINE I == {i \in DOMAIN rs : IsDurableMessage(rs[i]) /\ ~ShouldSkipEmptyAssistant(rs[i].msg)}
           p == Picked(rs, I)
<1>1. HistoryMessages(rs) = Msgs(p)
  BY DEF HistoryMessages, Msgs
<1> HIDE DEF I
<1>2. p \in Seq(Rows) /\ Foreign(p)
  BY ForeignPick
<1> HIDE DEF p
<1>3. Msgs(p) \in ForeignMessages
  BY <1>2, MsgsIs DEF Foreign, ForeignMessages
<1>4. TurnMessages(rs) = Msgs(p) \/ TurnMessages(rs) = <<>>
  BY <1>1 DEF TurnMessages
<1> QED
  BY <1>3, <1>4, ForeignConcat

\* Nothing of earlier versions' rows is due or taken for a turn of ours.
LEMMA ForeignIsRemembered ==
    ASSUME NEW rs \in Seq(Rows), Foreign(rs)
    PROVE  Remembers(rs)
<1> DEFINE J == {i \in DOMAIN rs : rs[i].complete}
           a == Picked(rs, J)
           ga == GroupHistoryRows(a)
           parts == [i \in DOMAIN ga |-> TurnMessages(ga[i])]
           h == LoadHistory(rs)
<1>1. h = FlattenSeq(parts)
  BY DEF LoadHistory
<1> HIDE DEF J
<1>2. a \in Seq(Rows) /\ Foreign(a)
  BY ForeignPick
<1> HIDE DEF a
<1>3. ga \in Seq(Seq(Rows))
  BY <1>2, GroupsAreRows
<1>4. \A k \in DOMAIN ga : ga[k] \in Seq(Rows) /\ Foreign(ga[k])
  <2> DEFINE firsts == {i \in DOMAIN a : \A j \in 1..(i - 1) : a[j].msg.turn # a[i].msg.turn}
             leads == Picked(a, firsts)
  <2>1. ga = [k \in DOMAIN leads |->
                Picked(a, {i \in DOMAIN a : a[i].msg.turn = leads[k].msg.turn})]
    BY DEF GroupHistoryRows
  <2> HIDE DEF leads
  <2>2. \A k \in DOMAIN ga :
           ga[k] = Picked(a, {i \in DOMAIN a : a[i].msg.turn = leads[k].msg.turn})
    BY <2>1
  <2> HIDE DEF ga
  <2> QED
    BY <1>2, <2>2, ForeignPick
<1>5. \A k \in DOMAIN ga : parts[k] \in ForeignMessages
  <2>1. \A k \in DOMAIN ga : parts[k] = TurnMessages(ga[k])
    OBVIOUS
  <2> HIDE DEF parts, ga
  <2> QED
    BY <1>4, <2>1, ForeignTurn
<1>6. parts \in Seq(ForeignMessages)
  <2>1. Len(ga) \in Nat /\ DOMAIN ga = 1..Len(ga)
    BY <1>3
  <2>2. parts \in [1..Len(ga) -> ForeignMessages]
    BY <1>5, <2>1
  <2> HIDE DEF parts, ga
  <2> QED
    BY <2>1, <2>2, FunctionIsSequence
<1> HIDE DEF parts, ga
<1>7. h \in ForeignMessages
  <2>1. ForeignMessages \subseteq Seq(Messages)
    BY DEF ForeignMessages
  <2> QED
    BY <1>1, <1>6, <2>1, ForeignConcat, FlattenIn
<1> HIDE DEF h
<1>8. Service(h) = <<>>
  <2> DEFINE I == {i \in DOMAIN h : h[i].turn <= MaxTurns}
  <2>1. h \in Seq(Messages) /\ \A i \in 1..Len(h) : h[i].turn > MaxTurns
    BY <1>7 DEF ForeignMessages
  <2>2. MaxTurns \in Nat /\ \A i \in 1..Len(h) : h[i].turn \in Nat
    <3>1. MaxTurns \in Nat
      BY HistoryAssumption
    <3>2. \A m \in Messages : m.turn \in Nat
      BY DEF Messages
    <3>3. \A i \in 1..Len(h) : h[i] \in Messages
      BY <2>1
    <3> QED
      BY <3>1, <3>2, <3>3
  <2>3. \A i \in 1..Len(h) : i \notin I
    BY <2>1, <2>2
  <2>4. Service(h) = Picked(h, I)
    BY DEF Service
  <2> HIDE DEF I
  <2> QED
    BY <2>1, <2>3, <2>4, PickedNone
<1>9. Due(rs) = <<>>
  <2> DEFINE K == {i \in DOMAIN rs : StoredRow(rs[i])}
  <2>1. MaxTurns \in Nat /\ \A i \in 1..Len(rs) : rs[i].msg.turn \in Nat
    <3>1. MaxTurns \in Nat
      BY HistoryAssumption
    <3>2. \A m \in Messages : m.turn \in Nat
      BY DEF Messages
    <3>3. \A i \in 1..Len(rs) : rs[i] \in Rows
      OBVIOUS
    <3>4. \A r \in Rows : r.msg \in Messages
      BY DEF Rows
    <3> QED
      BY <3>1, <3>2, <3>3, <3>4
  <2>2. \A i \in 1..Len(rs) : i \notin K
    BY <2>1 DEF Foreign, StoredRow
  <2>3. Due(rs) = Msgs(Picked(rs, K))
    BY DEF Due
  <2> HIDE DEF K
  <2>4. Picked(rs, K) = <<>>
    BY <2>2, PickedNone
  <2>5. Msgs(<<>>) = <<>>
    BY DEF Msgs
  <2> QED
    BY <2>3, <2>4, <2>5
<1> QED
  BY <1>8, <1>9 DEF Remembers, h

\* The row of a turn's question.
Asked(t, complete) == <<Row(Question(t), complete)>>

\* The rows of messages the turn owns.
Keep(new, ms) ==
    /\ new \in Seq(Rows) /\ Len(new) = Len(ms)
    /\ \A i \in 1..Len(ms) : new[i] = Row(ms[i], TRUE)

\* The elements of two sequences after one another.
LEMMA ConcatIs ==
    ASSUME NEW A, NEW s \in Seq(A), NEW r \in Seq(A)
    PROVE  /\ s \o r \in Seq(A) /\ Len(s \o r) = Len(s) + Len(r)
           /\ \A i \in 1..Len(s) : (s \o r)[i] = s[i]
           /\ \A i \in 1..Len(r) : (s \o r)[Len(s) + i] = r[i]
  OBVIOUS

\* The row of a question.
LEMMA AskedIs ==
    ASSUME NEW t \in Nat, NEW complete \in BOOLEAN
    PROVE  /\ Asked(t, complete) \in Seq(Rows) /\ Len(Asked(t, complete)) = 1
           /\ Asked(t, complete)[1] = Row(Question(t), complete)
           /\ Msgs(Asked(t, complete)) = <<Question(t)>>
           /\ Asked(t, complete)[1].msg = Question(t)
           /\ Asked(t, complete)[1].complete = complete
<1> DEFINE r == Row(Question(t), complete)
<1>1. r \in Rows /\ r.msg = Question(t) /\ r.complete = complete
  BY QuestionIs, RowType
<1> HIDE DEF r
<1>2. Asked(t, complete) = <<r>>
  BY DEF Asked, r
<1>3. <<r>> \in Seq(Rows) /\ Len(<<r>>) = 1 /\ <<r>>[1] = r /\ DOMAIN <<r>> = {1}
  BY <1>1
<1>4. Msgs(<<r>>) = <<Question(t)>>
  BY <1>1, <1>3 DEF Msgs
<1> QED
  BY <1>1, <1>2, <1>3, <1>4 DEF r

\* A question and sound messages of the turn's own make a completed turn.
LEMMA OwnedIsComplete ==
    ASSUME NEW t \in Nat, NEW ms, Sound(ms), \A i \in 1..Len(ms) : IsOwn(ms[i], t),
           NEW new, Keep(new, ms)
    PROVE  CompleteTurn(Asked(t, TRUE) \o new, t)
<1> DEFINE a == Asked(t, TRUE)
           b == a \o new
           q == Question(t)
           n == Len(ms)
<1>1. /\ a \in Seq(Rows) /\ Len(a) = 1 /\ Msgs(a) = <<q>> /\ a[1].msg = q
      /\ a[1].complete /\ a[1].readable
  <2>1. a[1] = Row(q, TRUE) /\ q \in Messages
    BY AskedIs, QuestionIs
  <2>2. Row(q, TRUE).readable
    BY <2>1, RowType
  <2> HIDE DEF a, q
  <2> QED
    BY <2>1, <2>2, AskedIs DEF a, q
<1>2. ms \in Seq(Messages) /\ n \in Nat
  BY DEF Sound
<1>3. new \in Seq(Rows) /\ Len(new) = n /\ \A i \in 1..n : new[i] = Row(ms[i], TRUE)
  BY DEF Keep
<1>4. \A i \in 1..n : new[i].msg = ms[i] /\ new[i].complete /\ new[i].readable
  <2>1. \A i \in 1..n : ms[i] \in Messages
    BY <1>2
  <2> QED
    BY <1>3, <2>1, RowType
<1>5. Msgs(new) = ms
  <2> DEFINE u == Msgs(new)
  <2>1. u \in Seq(Messages) /\ Len(u) = n /\ \A i \in 1..n : u[i] = new[i].msg
    BY <1>3, MsgsIs
  <2> HIDE DEF u
  <2>2. u = ms
    BY <1>2, <1>4, <2>1
  <2> QED
    BY <2>2 DEF u
<1>6. /\ b \in Seq(Rows) /\ Len(b) = n + 1 /\ b[1] = a[1]
      /\ \A i \in 1..n : b[i + 1] = new[i]
  <2>1. a \in Seq(Rows) /\ new \in Seq(Rows)
    BY <1>1, <1>3
  <2>2. /\ b \in Seq(Rows) /\ Len(b) = Len(a) + Len(new)
        /\ \A i \in 1..Len(a) : b[i] = a[i]
        /\ \A i \in 1..Len(new) : b[Len(a) + i] = new[i]
    <3> HIDE DEF a
    <3> QED
      BY <2>1, ConcatIs
  <2> HIDE DEF a, b
  <2> QED
    BY <1>1, <1>3, <2>2
<1>7. q \in Messages /\ q.role = "user" /\ q.calls = <<>> /\ q.turn = t /\ q.answers = NoCall
  BY QuestionIs DEF Question, Message
<1>8. Msgs(b) = <<q>> \o ms
  BY <1>1, <1>3, <1>5, MsgsConcat
<1> HIDE DEF a, b, q, n
<1>9. \A i \in 1..(n + 1) : i = 1 \/ (i - 1 \in 1..n /\ (i - 1) + 1 = i)
  BY <1>2
<1>10. \A i \in 1..n : ms[i].turn = t /\ ms[i].role \in {"assistant", "tool"}
  BY DEF IsOwn, n
<1>11. \A i \in 1..(n + 1) : /\ b[i].complete /\ b[i].readable
                             /\ b[i].msg.role # "system" /\ b[i].msg.turn = t
  <2> SUFFICES ASSUME NEW i \in 1..(n + 1)
               PROVE  /\ b[i].complete /\ b[i].readable
                      /\ b[i].msg.role # "system" /\ b[i].msg.turn = t
    OBVIOUS
  <2>1. CASE i = 1
    BY <1>1, <1>6, <1>7, <2>1
  <2>2. CASE i # 1
    <3>1. i - 1 \in 1..n /\ b[i] = new[i - 1]
      <4>1. i - 1 \in 1..n /\ (i - 1) + 1 = i
        BY <1>9, <2>2
      <4>2. b[(i - 1) + 1] = new[i - 1]
        BY <1>6, <4>1
      <4> QED
        BY <4>1, <4>2
    <3>2. b[i].msg = ms[i - 1] /\ b[i].complete /\ b[i].readable
      BY <1>4, <3>1
    <3> QED
      BY <1>10, <3>1, <3>2
  <2> QED
    BY <2>1, <2>2
<1>12. IsTurn(b, t)
  BY <1>2, <1>6, <1>11 DEF IsTurn
<1>13. Sound(<<q>> \o ms)
  <2>1. <<q>> \in Seq(Messages) /\ Plain(<<q>>)
    BY <1>7 DEF Plain
  <2>2. Sound(<<q>>)
    BY <2>1, PlainIsSound
  <2> QED
    BY <2>2, SoundConcat
<1>14. Neat(<<q>> \o ms)
  <2> DEFINE z == <<q>> \o ms
  <2>1. /\ Len(z) = n + 1 /\ z[1] = q
        /\ \A i \in 1..n : z[i + 1] = ms[i]
    <3> DEFINE y == <<q>>
    <3>1. y \in Seq(Messages) /\ Len(y) = 1 /\ y[1] = q
      BY <1>7
    <3> HIDE DEF y
    <3>2. /\ Len(y \o ms) = Len(y) + Len(ms)
          /\ \A i \in 1..Len(y) : (y \o ms)[i] = y[i]
          /\ \A i \in 1..Len(ms) : (y \o ms)[Len(y) + i] = ms[i]
      <4>1. y \in Seq(Messages) /\ ms \in Seq(Messages)
        BY <1>2, <3>1
      <4> QED
        BY <4>1, ConcatIs
    <3>3. z = y \o ms
      BY DEF y
    <3> HIDE DEF z
    <3> QED
      BY <1>2, <3>1, <3>2, <3>3 DEF n
  <2>2. \A i \in 1..n : /\ ms[i].role # "tool" => ms[i].answers = NoCall /\ ms[i].role \in {"user", "assistant"}
                        /\ IsInjective(ms[i].calls)
    BY DEF IsOwn, n
  <2>3. IsInjective(q.calls)
    BY <1>7 DEF IsInjective
  <2> HIDE DEF z
  <2> SUFFICES ASSUME NEW i \in 1..Len(z)
               PROVE  /\ z[i].role # "tool" => z[i].answers = NoCall /\ z[i].role \in {"user", "assistant"}
                      /\ IsInjective(z[i].calls)
    BY DEF Neat, z
  <2>4. CASE i = 1
    BY <1>7, <2>1, <2>3, <2>4
  <2>5. CASE i # 1
    <3>1. i - 1 \in 1..n /\ (i - 1) + 1 = i
      BY <1>9, <2>1, <2>5
    <3>2. z[(i - 1) + 1] = ms[i - 1]
      BY <2>1, <3>1
    <3>3. z[i] = ms[i - 1]
      BY <3>1, <3>2
    <3> QED
      BY <2>2, <3>1, <3>3
  <2> QED
    BY <2>4, <2>5
<1>15. b[1].msg.role = "user"
  BY <1>1, <1>6, <1>7
<1>16. \A i \in 1..Len(b) : b[i].complete /\ b[i].readable /\ b[i].msg.role # "system"
  BY <1>6, <1>11
<1> QED
  BY <1>8, <1>12, <1>13, <1>14, <1>15, <1>16 DEF CompleteTurn, a, b

\* turnRows stores a completed turn, whatever was dropped while it ran.
LEMMA AnswersAreStored ==
    ASSUME turn \in Nat, NEW ms, Answers(ms, turn)
    PROVE  /\ TurnRows(ms) \in Seq(Rows)
           /\ CompleteTurn(Asked(turn, TRUE) \o TurnRows(ms), turn)
<1> DEFINE I == {i \in DOMAIN ms : BelongsInStoredHistory(ms, i)}
           kept == Picked(ms, I)
           new == TurnRows(ms)
<1>1. /\ Sound(ms) /\ ms \in Seq(Messages) /\ Len(ms) \in Nat /\ DOMAIN ms = 1..Len(ms)
      /\ Len(ms) \in 1..Len(ms) /\ ms[Len(ms)].origin = "turn"
  BY DEF Answers, Sound
<1>2. I = Own(ms)
  BY <1>1 DEF BelongsInStoredHistory, Own
<1>3. Owned(ms, turn)
  BY DEF Answers
<1>4. TurnRows(ms) = [k \in DOMAIN kept |-> Row([kept[k] EXCEPT !.turn = turn], TRUE)]
  BY DEF TurnRows
<1> HIDE DEF I
<1>5. PICK g : kept \in Seq(Messages) /\ IsPick(g, kept, ms, I)
  BY <1>1, PickedIs
<1> HIDE DEF kept
<1>6. Whole(ms, I)
  BY <1>2, <1>3 DEF Owned
<1>7. Sound(kept)
  BY <1>1, <1>5, <1>6, SoundPick
<1>8. \A k \in 1..Len(kept) : IsOwn(kept[k], turn)
  <2>1. \A k \in 1..Len(kept) : g[k] \in I /\ g[k] \in 1..Len(ms) /\ kept[k] = ms[g[k]]
    BY <1>5 DEF IsPick
  <2>2. \A i \in I : i \in 1..Len(ms) /\ ms[i].origin = "turn"
    BY <1>2 DEF Own
  <2>3. \A i \in 1..Len(ms) : ms[i].origin = "turn" => IsOwn(ms[i], turn)
    BY <1>3 DEF Owned
  <2> QED
    BY <2>1, <2>2, <2>3
<1>9. DOMAIN kept = 1..Len(kept) /\ Len(kept) \in Nat /\ \A k \in 1..Len(kept) : kept[k] \in Messages
  BY <1>5
<1>10. \A k \in 1..Len(kept) : new[k] = Row(kept[k], TRUE)
  <2>1. \A m \in Messages : m.turn = turn => [m EXCEPT !.turn = turn] = m
    BY DEF Messages
  <2>2. \A k \in 1..Len(kept) : [kept[k] EXCEPT !.turn = turn] = kept[k]
    BY <1>8, <1>9, <2>1 DEF IsOwn
  <2>3. \A k \in 1..Len(kept) : new[k] = Row([kept[k] EXCEPT !.turn = turn], TRUE)
    BY <1>4, <1>9
  <2> HIDE DEF new
  <2> QED
    BY <2>2, <2>3
<1>11. new \in Seq(Rows)
  BY <1>1, TurnRowsType
<1>12. DOMAIN new = 1..Len(kept)
  BY <1>4, <1>9
<1> HIDE DEF new
<1>13. Keep(new, kept)
  <2>1. Len(new) = Len(kept)
    BY <1>9, <1>11, <1>12
  <2> QED
    BY <1>10, <1>11, <2>1 DEF Keep
<1>14. CompleteTurn(Asked(turn, TRUE) \o new, turn)
  BY <1>7, <1>8, <1>13, OwnedIsComplete
<1> QED
  BY <1>11, <1>14 DEF new

\* So does a fixed response.
LEMMA DemoIsStored ==
    ASSUME NEW t \in Nat
    PROVE  LET b == <<Row(Question(t), TRUE), Row(Message(t, "assistant", 1), TRUE)>> IN
           b \in Seq(Rows) /\ CompleteTurn(b, t)
<1> DEFINE m == Message(t, "assistant", 1)
           r == Row(m, TRUE)
           q == Row(Question(t), TRUE)
<1>1. m \in Messages /\ m.calls = <<>> /\ m.role = "assistant" /\ m.turn = t /\ m.answers = NoCall
  BY MessageType DEF Message
<1> HIDE DEF m
<1>2. r \in Rows /\ q \in Rows
  BY <1>1, QuestionIs, RowType
<1> HIDE DEF r, q
<1>3. Sound(<<m>>)
  <2>1. <<m>> \in Seq(Messages) /\ Plain(<<m>>)
    BY <1>1 DEF Plain
  <2> QED
    BY <2>1, PlainIsSound
<1>4. \A i \in 1..Len(<<m>>) : IsOwn(<<m>>[i], t)
  BY <1>1 DEF IsOwn, IsInjective
<1>5. Keep(<<r>>, <<m>>)
  <2>1. /\ <<r>> \in Seq(Rows) /\ Len(<<r>>) = 1 /\ Len(<<m>>) = 1
        /\ <<r>>[1] = r /\ <<m>>[1] = m
    BY <1>1, <1>2
  <2>2. r = Row(m, TRUE)
    BY DEF r
  <2>3. \A i \in 1..Len(<<m>>) : i = 1
    BY <2>1
  <2>4. \A i \in 1..Len(<<m>>) : <<r>>[i] = Row(<<m>>[i], TRUE)
    BY <2>1, <2>2, <2>3
  <2>5. Len(<<r>>) = Len(<<m>>)
    BY <2>1
  <2> QED
    BY <2>1, <2>4, <2>5 DEF Keep
<1>6. CompleteTurn(Asked(t, TRUE) \o <<r>>, t)
  BY <1>3, <1>4, <1>5, OwnedIsComplete
<1>7. Asked(t, TRUE) = <<q>>
  BY DEF Asked, q
<1>8. <<q>> \o <<r>> = <<q, r>> /\ <<q, r>> \in Seq(Rows)
  <2> DEFINE c == <<q, r>>
             x == <<q>>
             y == <<r>>
             z == x \o y
  <2>1. c \in Seq(Rows) /\ Len(c) = 2 /\ c[1] = q /\ c[2] = r
    BY <1>2
  <2>2. x \in Seq(Rows) /\ y \in Seq(Rows) /\ Len(x) = 1 /\ Len(y) = 1 /\ x[1] = q /\ y[1] = r
    BY <1>2
  <2> HIDE DEF c, x, y
  <2>3. /\ z \in Seq(Rows) /\ Len(z) = Len(x) + Len(y)
        /\ \A i \in 1..Len(x) : z[i] = x[i]
        /\ \A i \in 1..Len(y) : z[Len(x) + i] = y[i]
    <3>1. x \in Seq(Rows) /\ y \in Seq(Rows)
      BY <2>2
    <3> QED
      BY <3>1, ConcatIs
  <2> HIDE DEF z
  <2>4. Len(z) = 2 /\ z[1] = q /\ z[2] = r
    BY <2>2, <2>3
  <2>5. z = c
    BY <2>1, <2>3, <2>4
  <2> QED
    BY <2>1, <2>5 DEF c, x, y, z
<1>9. CompleteTurn(<<q, r>>, t)
  BY <1>6, <1>7, <1>8
<1> QED
  BY <1>8, <1>9 DEF q, r, m

\* The turns of the rows so far.
UpTo(rs, t) == \A i \in 1..Len(rs) : rs[i].msg.turn <= t \/ rs[i].msg.turn > MaxTurns

\* Rows up to a turn, after one another.
LEMMA UpToConcat ==
    ASSUME NEW a \in Seq(Rows), NEW b \in Seq(Rows), NEW t
    PROVE  UpTo(a \o b, t) <=> UpTo(a, t) /\ UpTo(b, t)
<1> DEFINE c == a \o b
           m == Len(a)
           n == Len(b)
           OK(r) == r.msg.turn <= t \/ r.msg.turn > MaxTurns
<1>1. /\ m \in Nat /\ n \in Nat /\ Len(c) = m + n
      /\ \A i \in 1..m : c[i] = a[i]
      /\ \A i \in 1..n : c[m + i] = b[i]
  BY ConcatIs
<1> HIDE DEF c, m, n
<1>2. \A i \in 1..m : i \in 1..(m + n)
  BY <1>1
<1>3. \A i \in 1..n : m + i \in 1..(m + n)
  BY <1>1
<1>4. \A i \in 1..(m + n) : i \in 1..m \/ (i - m \in 1..n /\ m + (i - m) = i)
  BY <1>1
<1> HIDE DEF OK
<1>5. ASSUME \A i \in 1..(m + n) : OK(c[i])
      PROVE  (\A i \in 1..m : OK(a[i])) /\ (\A i \in 1..n : OK(b[i]))
  BY <1>1, <1>2, <1>3, <1>5
<1>6. ASSUME \A i \in 1..m : OK(a[i]), \A i \in 1..n : OK(b[i])
      PROVE  \A i \in 1..(m + n) : OK(c[i])
  <2> SUFFICES ASSUME NEW i \in 1..(m + n) PROVE OK(c[i])
    OBVIOUS
  <2>1. CASE i \in 1..m
    BY <1>1, <1>6, <2>1
  <2>2. CASE i - m \in 1..n /\ m + (i - m) = i
    <3>1. c[m + (i - m)] = b[i - m] /\ OK(b[i - m])
      BY <1>1, <1>6, <2>2
    <3> QED
      BY <2>2, <3>1
  <2> QED
    BY <1>4, <2>1, <2>2
<1>7. (\A i \in 1..(m + n) : OK(c[i])) <=> (\A i \in 1..m : OK(a[i])) /\ (\A i \in 1..n : OK(b[i]))
  BY <1>5, <1>6
<1> QED
  BY <1>1, <1>7 DEF UpTo, OK, c, m, n

\* No row has the next turn's number.
LEMMA NextTurnIsNew ==
    ASSUME NEW rs \in Seq(Rows), NEW t \in Nat, t < MaxTurns, UpTo(rs, t)
    PROVE  Lacks(rs, t + 1) /\ UpTo(rs, t + 1)
<1>1. MaxTurns \in Nat
  BY HistoryAssumption
<1>2. \A i \in 1..Len(rs) : rs[i].msg.turn \in Nat
  <2>1. \A m \in Messages : m.turn \in Nat
    BY DEF Messages
  <2>2. \A i \in 1..Len(rs) : rs[i] \in Rows
    OBVIOUS
  <2>3. \A r \in Rows : r.msg \in Messages
    BY DEF Rows
  <2> QED
    BY <2>1, <2>2, <2>3
<1>3. \A i \in 1..Len(rs) : rs[i].msg.turn <= t \/ rs[i].msg.turn > MaxTurns
  BY DEF UpTo
<1>4. \A i \in 1..Len(rs) : rs[i].msg.turn # t + 1
  BY <1>1, <1>2, <1>3
<1>5. \A i \in 1..Len(rs) : rs[i].msg.turn <= t + 1 \/ rs[i].msg.turn > MaxTurns
  BY <1>1, <1>2, <1>3
<1> QED
  BY <1>4, <1>5 DEF Lacks, UpTo

\* The rows of a turn are rows up to it.
LEMMA TurnIsUpTo ==
    ASSUME NEW b, NEW t \in Nat, CompleteTurn(b, t)
    PROVE  UpTo(b, t)
  BY DEF CompleteTurn, IsTurn, UpTo

\* The rows while a turn runs: those before it, its question, its checkpoint.
Opened(rs, old, cp, t) ==
    /\ rs = old \o Asked(t, FALSE) \o cp
    /\ Remembers(old) /\ Lacks(old, t)
    /\ cp = <<>> \/ cp = <<Row(Message(t, "assistant", 1), FALSE)>>

\* Completing a row changes nothing else of it.
LEMMA RowCompletes ==
    ASSUME NEW m, NEW x, NEW y
    PROVE  [Row(m, x) EXCEPT !.complete = y] = Row(m, y) /\ Row(m, x).msg = m
<1> DEFINE R == [msg : {m}, complete : {x, y}, readable : BOOLEAN]
           r == [Row(m, x) EXCEPT !.complete = y]
<1>1. Row(m, x) \in R /\ Row(m, y) \in R
  BY DEF Row
<1>3. r \in R /\ r.msg = m /\ r.complete = y /\ r.readable = TRUE
  BY <1>1 DEF Row
<1>4. Row(m, y).msg = m /\ Row(m, y).complete = y /\ Row(m, y).readable = TRUE
  BY DEF Row
<1> HIDE DEF r
<1>5. r = Row(m, y)
  BY <1>1, <1>3, <1>4
<1>6. Row(m, x).msg = m
  BY DEF Row
<1> QED
  BY <1>5, <1>6 DEF r

\* The row of a checkpoint.
LEMMA CheckpointIs ==
    ASSUME turn \in Nat
    PROVE  LET r == Row(Message(turn, "assistant", 1), FALSE) IN
           /\ r \in Rows /\ ~r.complete /\ r.msg.turn = turn /\ IsCheckpoint(r)
<1> DEFINE m == Message(turn, "assistant", 1)
           r == Row(m, FALSE)
<1>1. m \in Messages /\ m.turn = turn /\ m.role = "assistant"
  BY MessageType DEF Message
<1> HIDE DEF m
<1>2. r \in Rows /\ r.msg = m /\ r.complete = FALSE
  BY <1>1, RowType
<1> HIDE DEF r
<1>3. IsCheckpoint(r)
  BY <1>1, <1>2 DEF IsCheckpoint
<1> QED
  BY <1>1, <1>2, <1>3 DEF r, m

\* The rows after a turn is persisted over those before it.
Persisted(old, new, t) == old \o (Asked(t, TRUE) \o new)

\* The checkpoint goes and the question is completed; no other row changes.
LEMMA PersistIs ==
    ASSUME turn \in Nat, NEW old \in Seq(Rows), NEW cp \in Seq(Rows), NEW rs,
           Opened(rs, old, cp, turn), NEW new \in Seq(Rows)
    PROVE  PersistCompletedTurn(rs, new) = Persisted(old, new, turn)
<1> DEFINE I == {i \in DOMAIN rs : ~IsCheckpoint(rs[i])}
           a == Asked(turn, FALSE)
           c == Asked(turn, TRUE)
           kept == Picked(rs, I)
           w == old \o a
           z == old \o c
           full == [i \in DOMAIN kept |-> Completed(kept[i])]
           p == Row(Question(turn), FALSE)
           q == Row(Question(turn), TRUE)
<1>1. /\ a \in Seq(Rows) /\ Len(a) = 1 /\ c \in Seq(Rows) /\ Len(c) = 1
      /\ a[1] = p /\ c[1] = q
  BY AskedIs
<1>2. /\ Question(turn).role = "user" /\ Question(turn).turn = turn
      /\ Question(turn) \in Messages
  BY QuestionIs
<1>a. p.msg = Question(turn) /\ [p EXCEPT !.complete = TRUE] = q
  BY RowCompletes
<1> HIDE DEF p, q
<1>b. ~IsCheckpoint(p) /\ Completed(p) = q
  BY <1>2, <1>a DEF IsCheckpoint, Completed
<1>3. ~IsCheckpoint(a[1]) /\ Completed(a[1]) = c[1]
  <2> HIDE DEF a, c
  <2> QED
    BY <1>1, <1>b
<1>4. \A i \in 1..Len(old) : ~IsCheckpoint(old[i]) /\ Completed(old[i]) = old[i]
  BY DEF Opened, Lacks, IsCheckpoint, Completed
<1>5. rs = w \o cp
  BY DEF Opened
<1> HIDE DEF a, c
<1>6. /\ w \in Seq(Rows) /\ Len(w) = Len(old) + 1 /\ Len(old) \in Nat
      /\ \A i \in 1..Len(old) : w[i] = old[i]
      /\ w[Len(old) + 1] = a[1]
  <2>1. /\ w \in Seq(Rows) /\ Len(w) = Len(old) + Len(a)
        /\ \A i \in 1..Len(old) : w[i] = old[i]
        /\ \A i \in 1..Len(a) : w[Len(old) + i] = a[i]
    <3>1. a \in Seq(Rows)
      BY <1>1
    <3> QED
      BY <3>1, ConcatIs
  <2>2. Len(a) = 1 /\ Len(old) \in Nat
    BY <1>1
  <2>3. 1 \in 1..Len(a)
    BY <2>2
  <2>4. w[Len(old) + 1] = a[1]
    BY <2>1, <2>3
  <2> HIDE DEF w
  <2> QED
    BY <2>1, <2>2, <2>4
<1>7. /\ z \in Seq(Rows) /\ Len(z) = Len(old) + 1
      /\ \A i \in 1..Len(old) : z[i] = old[i]
      /\ z[Len(old) + 1] = c[1]
  <2>1. /\ z \in Seq(Rows) /\ Len(z) = Len(old) + Len(c)
        /\ \A i \in 1..Len(old) : z[i] = old[i]
        /\ \A i \in 1..Len(c) : z[Len(old) + i] = c[i]
    <3>1. c \in Seq(Rows)
      BY <1>1
    <3> QED
      BY <3>1, ConcatIs
  <2>2. Len(c) = 1 /\ Len(old) \in Nat
    BY <1>1
  <2>3. 1 \in 1..Len(c)
    BY <2>2
  <2>4. z[Len(old) + 1] = c[1]
    BY <2>1, <2>3
  <2> HIDE DEF z
  <2> QED
    BY <2>1, <2>2, <2>4
<1> HIDE DEF w, z
<1>8. \A i \in 1..Len(cp) : IsCheckpoint(cp[i])
  <2> DEFINE r == Row(Message(turn, "assistant", 1), FALSE)
  <2>1. IsCheckpoint(r)
    BY CheckpointIs
  <2>2. cp = <<>> \/ cp = <<r>>
    BY DEF Opened
  <2> HIDE DEF r
  <2>3. CASE cp = <<>>
    BY <2>3
  <2>4. CASE cp = <<r>>
    <3>1. Len(cp) = 1 /\ cp[1] = r
      BY <2>4
    <3>2. \A i \in 1..Len(cp) : i = 1
      BY <3>1
    <3> QED
      BY <2>1, <3>1, <3>2
  <2> QED
    BY <2>2, <2>3, <2>4
<1>9. \A i \in 1..Len(w) : ~IsCheckpoint(w[i])
  <2> SUFFICES ASSUME NEW i \in 1..Len(w) PROVE ~IsCheckpoint(w[i])
    OBVIOUS
  <2>1. CASE i \in 1..Len(old)
    BY <1>4, <1>6, <2>1
  <2>2. CASE i = Len(old) + 1
    BY <1>3, <1>6, <2>2
  <2> QED
    BY <1>6, <2>1, <2>2
<1>10. kept = w
  <2> DEFINE J == {i \in 1..Len(w) : i \in I}
             K == {i \in 1..Len(cp) : Len(w) + i \in I}
  <2>1. /\ rs \in Seq(Rows) /\ Len(rs) = Len(w) + Len(cp) /\ DOMAIN rs = 1..Len(rs)
        /\ \A i \in 1..Len(w) : rs[i] = w[i]
        /\ \A i \in 1..Len(cp) : rs[Len(w) + i] = cp[i]
    <3>1. w \in Seq(Rows) /\ cp \in Seq(Rows)
      BY <1>6
    <3>2. rs \in Seq(Rows)
      BY <1>5, <3>1, ConcatIs
    <3> QED
      BY <1>5, <3>1, <3>2, ConcatIs
  <2>2. Splits(I, J, K, w, cp)
    <3> HIDE DEF I
    <3> QED
      BY DEF Splits
  <2>3. Len(w) \in Nat /\ Len(cp) \in Nat
    BY <1>6
  <2>4. \A i \in 1..Len(w) : i \in J
    BY <1>9, <2>1, <2>3
  <2>5. \A i \in 1..Len(cp) : i \notin K
    <3> SUFFICES ASSUME NEW i \in 1..Len(cp) PROVE Len(w) + i \notin I
      OBVIOUS
    <3> QED
      BY <1>8, <2>1
  <2> HIDE DEF I, J, K
  <2>6. Picked(w \o cp, I) = Picked(w, J) \o Picked(cp, K)
    BY <1>6, <2>2, PickedConcat
  <2>7. Picked(w, J) = w
    BY <1>6, <2>4, PickedAll
  <2>8. Picked(cp, K) = <<>>
    BY <2>5, PickedNone
  <2>9. w \o <<>> = w
    BY <1>6
  <2> QED
    BY <1>5, <2>6, <2>7, <2>8, <2>9
<1>11. rs \in Seq(Rows)
  <2>1. w \in Seq(Rows) /\ cp \in Seq(Rows)
    BY <1>6
  <2> QED
    BY <1>5, <2>1, ConcatIs
<1>12. PersistCompletedTurn(rs, new) = full \o new /\ full \in Seq(Rows)
  BY <1>11, PersistType
<1> HIDE DEF I
<1>13. full = z
  <2>1. DOMAIN kept = 1..(Len(old) + 1)
    BY <1>6, <1>10
  <2>2. \A i \in 1..(Len(old) + 1) : full[i] = Completed(w[i])
    BY <1>10, <2>1
  <2>3. DOMAIN full = 1..(Len(old) + 1)
    BY <2>1
  <2> HIDE DEF full
  <2>4. Len(full) = Len(old) + 1
    BY <1>6, <1>12, <2>3
  <2>5. \A i \in 1..(Len(old) + 1) : full[i] = z[i]
    <3> SUFFICES ASSUME NEW i \in 1..(Len(old) + 1) PROVE full[i] = z[i]
      OBVIOUS
    <3>1. CASE i \in 1..Len(old)
      BY <1>4, <1>6, <1>7, <2>2, <3>1
    <3>2. CASE i = Len(old) + 1
      BY <1>3, <1>6, <1>7, <2>2, <3>2
    <3> QED
      BY <1>6, <3>1, <3>2
  <2> QED
    BY <1>6, <1>7, <1>12, <2>4, <2>5
<1>14. z \o new = old \o (c \o new)
  <2>1. c \in Seq(Rows)
    BY <1>1
  <2> QED
    BY <2>1, ConcatAssociative DEF z
<1> QED
  BY <1>12, <1>13, <1>14 DEF c, Persisted

\* What the rows are: everything stored is read back, and a turn under way has
\* added its question and at most one checkpoint to it.
Kept ==
    /\ UpTo(rows, turn) /\ Remembers(rows)
    /\ phase # "idle" =>
          \E old, cp \in Seq(Rows) : Opened(rows, old, cp, turn)

\* At first there are only rows of earlier versions.
LEMMA KeptInit == Init => Kept
<1> SUFFICES ASSUME Init PROVE Kept
  OBVIOUS
<1>1. rows \in Seq(Rows) /\ \A i \in DOMAIN rows : rows[i].msg.turn > MaxTurns
  BY HistoryAssumption DEF Init
<1>2. phase = "idle"
  BY DEF Init
<1>3. Foreign(rows) /\ UpTo(rows, turn)
  BY <1>1 DEF Foreign, UpTo
<1>4. Remembers(rows)
  BY <1>1, <1>3, ForeignIsRemembered
<1> QED
  BY <1>2, <1>3, <1>4 DEF Kept

\* Asking opens the turn and reads nothing new back.
LEMMA TurnAsked ==
    ASSUME NEW rs \in Seq(Rows), NEW t \in Nat, t < MaxTurns, UpTo(rs, t), Remembers(rs)
    PROVE  LET r == Row(Question(t + 1), FALSE) IN
           /\ UpTo(Append(rs, r), t + 1) /\ Remembers(Append(rs, r))
           /\ Opened(Append(rs, r), rs, <<>>, t + 1)
<1> DEFINE r == Row(Question(t + 1), FALSE)
           a == Asked(t + 1, FALSE)
<1>1. /\ r \in Rows /\ ~r.complete /\ r.msg.turn = t + 1
  <2>1. t + 1 \in Nat
    OBVIOUS
  <2>2. Question(t + 1) \in Messages /\ Question(t + 1).turn = t + 1
    BY <2>1, QuestionIs
  <2> QED
    BY <2>2, RowType
<1>2. a = <<r>>
  BY DEF Asked
<1> HIDE DEF r, a
<1>3. a \in Seq(Rows) /\ Append(rs, r) = rs \o a /\ UpTo(a, t + 1)
  <2>1. <<r>> \in Seq(Rows) /\ Append(rs, r) = rs \o <<r>>
    BY <1>1
  <2>2. \A i \in 1..Len(<<r>>) : <<r>>[i] = r
    OBVIOUS
  <2>3. UpTo(<<r>>, t + 1)
    BY <1>1, <2>2 DEF UpTo
  <2> QED
    BY <1>2, <2>1, <2>3
<1>4. Lacks(rs, t + 1) /\ UpTo(rs, t + 1)
  BY NextTurnIsNew
<1>5. UpTo(Append(rs, r), t + 1)
  BY <1>3, <1>4, UpToConcat
<1>6. Remembers(Append(rs, r))
  BY <1>1, IncompleteIsNotDue
<1>7. Append(rs, r) = rs \o a \o <<>>
  <2>1. rs \o a \in Seq(Rows)
    BY <1>3
  <2> QED
    BY <1>3, <2>1
<1>8. Opened(Append(rs, r), rs, <<>>, t + 1)
  BY <1>4, <1>7 DEF Opened, a
<1> QED
  BY <1>5, <1>6, <1>8 DEF r

\* Storing a completed turn keeps everything read back.
LEMMA TurnStored ==
    ASSUME NEW old \in Seq(Rows), NEW b \in Seq(Rows), NEW t \in 1..MaxTurns,
           Remembers(old), Lacks(old, t), UpTo(old, t), CompleteTurn(b, t)
    PROVE  UpTo(old \o b, t) /\ Remembers(old \o b)
<1>1. t \in Nat
  BY HistoryAssumption
<1>2. UpTo(b, t)
  BY <1>1, TurnIsUpTo
<1> QED
  BY <1>2, UpToConcat, TurnJoins

\* Every step keeps what is known of the rows.
LEMMA KeptNext == Typed /\ Typed' /\ Looped /\ Kept /\ [Next]_vars => Kept'
<1> SUFFICES ASSUME Typed, Typed', Looped, Kept, [Next]_vars PROVE Kept'
  OBVIOUS
<1>0. /\ turn \in Nat /\ turn \in 0..MaxTurns /\ MaxTurns \in Nat /\ rows \in Seq(Rows)
      /\ phase # "idle" => turn \in 1..MaxTurns
  <2>1. MaxTurns \in Nat
    BY HistoryAssumption
  <2> QED
    BY <2>1 DEF Typed, TypeOK
<1>a. UpTo(rows, turn) /\ Remembers(rows)
  BY DEF Kept
<1>b. phase # "idle" => \E old, cp \in Seq(Rows) : Opened(rows, old, cp, turn)
  BY DEF Kept
<1>c. ASSUME UNCHANGED <<rows, turn>>, phase' = "idle" \/ phase # "idle"
      PROVE  Kept'
  BY <1>a, <1>b, <1>c DEF Kept
<1>1. ASSUME NEW b \in Budgets, UpdateSettings(b) PROVE Kept'
  <2>1. UNCHANGED <<rows, turn, phase>>
    BY <1>1 DEF UpdateSettings
  <2> QED
    BY <1>c, <2>1
<1>2. CASE Ask
  <2> DEFINE q == Question(turn + 1)
             r == Row(q, FALSE)
  <2>1. /\ turn < MaxTurns /\ turn' = turn + 1 /\ rows' = Append(rows, r)
        /\ phase' = "asking"
    BY <1>2 DEF Ask
  <2>2. /\ UpTo(Append(rows, r), turn + 1) /\ Remembers(Append(rows, r))
        /\ Opened(Append(rows, r), rows, <<>>, turn + 1)
    BY <1>0, <1>a, <2>1, TurnAsked
  <2>3. <<>> \in Seq(Rows)
    OBVIOUS
  <2> HIDE DEF r
  <2> QED
    BY <1>0, <2>1, <2>2, <2>3 DEF Kept
<1>3. CASE Demo
  <2> DEFINE b == <<Row(Question(turn + 1), TRUE), Row(Message(turn + 1, "assistant", 1), TRUE)>>
  <2>1. /\ turn < MaxTurns /\ turn' = turn + 1 /\ rows' = rows \o b
        /\ phase = "idle" /\ phase' = "idle"
    BY <1>3 DEF Demo
  <2>2. turn + 1 \in Nat /\ turn + 1 \in 1..MaxTurns
    BY <1>0, <2>1
  <2>3. b \in Seq(Rows) /\ CompleteTurn(b, turn + 1)
    BY <2>2, DemoIsStored
  <2> HIDE DEF b
  <2>4. Lacks(rows, turn + 1) /\ UpTo(rows, turn + 1)
    BY <1>0, <1>a, <2>1, NextTurnIsNew
  <2>5. UpTo(rows \o b, turn + 1) /\ Remembers(rows \o b)
    BY <1>0, <1>a, <2>2, <2>3, <2>4, TurnStored
  <2> QED
    BY <2>1, <2>5 DEF Kept
<1>4. CASE Send
  <2>1. UNCHANGED <<rows, turn>> /\ phase = "asking"
    BY <1>4 DEF Send
  <2> QED
    BY <1>c, <2>1
<1>5. CASE Checkpoint
  <2> DEFINE r == Row(Message(turn, "assistant", 1), FALSE)
  <2>1. /\ phase = "sent" /\ UNCHANGED <<turn, phase>>
        /\ \A i \in DOMAIN rows : ~IsCheckpoint(rows[i])
        /\ rows' = Append(rows, r)
    BY <1>5 DEF Checkpoint
  <2>2. r \in Rows /\ ~r.complete /\ r.msg.turn = turn /\ IsCheckpoint(r)
    BY <1>0, CheckpointIs
  <2>3. PICK old \in Seq(Rows), cp \in Seq(Rows) : Opened(rows, old, cp, turn)
    BY <1>b, <2>1
  <2>4. cp = <<>> \/ cp = <<r>>
    BY <2>3 DEF Opened
  <2> HIDE DEF r
  <2> DEFINE a == Asked(turn, FALSE)
             w == old \o a
  <2>5. w \in Seq(Rows) /\ rows = w \o cp
    <3>1. a \in Seq(Rows)
      BY <1>0, AskedIs
    <3>2. rows = w \o cp
      BY <2>3 DEF Opened
    <3> HIDE DEF a
    <3> QED
      BY <3>1, <3>2, ConcatIs
  <2> HIDE DEF w
  <2>6. cp = <<>>
    <3>1. ASSUME cp = <<r>> PROVE FALSE
      <4>1. rows = Append(w, r)
        BY <2>2, <2>5, <3>1
      <4>2. Len(w) + 1 \in DOMAIN rows /\ rows[Len(w) + 1] = r
        BY <2>2, <2>5, <4>1
      <4> QED
        BY <2>1, <2>2, <4>2
    <3> QED
      BY <2>4, <3>1
  <2>7. rows' = w \o <<r>> /\ <<r>> \in Seq(Rows)
    <3>1. rows = w
      BY <2>5, <2>6
    <3> QED
      BY <2>1, <2>2, <2>5, <3>1
  <2>8. Opened(rows', old, <<r>>, turn)
    BY <2>3, <2>7 DEF Opened, w, r
  <2>9. UpTo(rows', turn)
    <3>1. UpTo(<<r>>, turn)
      <4>1. \A i \in 1..Len(<<r>>) : <<r>>[i] = r
        OBVIOUS
      <4> QED
        BY <1>0, <2>2, <4>1 DEF UpTo
    <3>2. UpTo(w, turn)
      BY <1>a, <2>5, <2>6
    <3> QED
      BY <2>5, <2>7, <3>1, <3>2, UpToConcat
  <2>10. Remembers(rows')
    BY <1>0, <1>a, <2>1, <2>2, IncompleteIsNotDue
  <2> QED
    BY <2>1, <2>7, <2>8, <2>9, <2>10 DEF Kept
<1>6. ASSUME NEW calls \in CallLists, NEW empty \in BOOLEAN, Reply(calls, empty) PROVE Kept'
  <2>1. UNCHANGED <<rows, turn>> /\ phase = "sent"
    BY <1>6 DEF Reply
  <2> QED
    BY <1>c, <2>1
<1>7. ASSUME NEW size \in ResultSizes, NEW injects \in BOOLEAN, RunTools(size, injects) PROVE Kept'
  <2>1. UNCHANGED <<rows, turn>> /\ phase = "tools"
    BY <1>7 DEF RunTools
  <2> QED
    BY <1>c, <2>1
<1>8. CASE Persist
  <2> DEFINE new == TurnRows(messages)
             b == Asked(turn, TRUE) \o new
  <2>1. /\ phase = "done" /\ phase' = "idle" /\ turn' = turn
        /\ rows' = PersistCompletedTurn(rows, new)
    BY <1>8 DEF Persist
  <2>2. PICK old \in Seq(Rows), cp \in Seq(Rows) : Opened(rows, old, cp, turn)
    BY <1>b, <2>1
  <2>3. Answers(messages, turn)
    BY <2>1 DEF Looped
  <2>4. new \in Seq(Rows) /\ CompleteTurn(b, turn)
    BY <1>0, <2>3, AnswersAreStored
  <2> HIDE DEF new
  <2>5. rows' = old \o b
    <3>1. PersistCompletedTurn(rows, new) = Persisted(old, new, turn)
      BY <1>0, <2>2, <2>4, PersistIs
    <3> QED
      BY <2>1, <3>1 DEF Persisted
  <2>6. Remembers(old) /\ Lacks(old, turn)
    BY <2>2 DEF Opened
  <2> DEFINE a == Asked(turn, FALSE)
  <2>7. UpTo(old, turn)
    <3>1. a \in Seq(Rows)
      BY <1>0, AskedIs
    <3>2. rows = old \o a \o cp
      BY <2>2 DEF Opened
    <3> HIDE DEF a
    <3>3. old \o a \in Seq(Rows)
      BY <3>1, ConcatIs
    <3>4. UpTo(old \o a, turn)
      BY <1>a, <3>2, <3>3, UpToConcat
    <3> QED
      BY <3>1, <3>4, UpToConcat
  <2>8. b \in Seq(Rows)
    <3>1. Asked(turn, TRUE) \in Seq(Rows)
      BY <1>0, AskedIs
    <3> QED
      BY <2>4, <3>1, ConcatIs
  <2> HIDE DEF b
  <2>9. UpTo(old \o b, turn) /\ Remembers(old \o b)
    BY <1>0, <2>1, <2>4, <2>6, <2>7, <2>8, TurnStored
  <2> QED
    BY <2>1, <2>5, <2>9 DEF Kept
<1>9. CASE Fail
  <2>1. UNCHANGED <<rows, turn>> /\ phase' = "idle"
    BY <1>9 DEF Fail
  <2> QED
    BY <1>c, <2>1
<1>10. CASE UNCHANGED vars
  <2>1. UNCHANGED <<rows, turn, phase>>
    BY <1>10 DEF vars
  <2> QED
    BY <1>c, <2>1
<1> QED
  BY <1>1, <1>2, <1>3, <1>4, <1>5, <1>6, <1>7, <1>8, <1>9, <1>10 DEF Next

\* What the next turn reads back: the calls of its history have their results
\* (a provider rejects anything else), and of the turns this service ran it is
\* every completed one, whole and in order, and nothing of an incomplete one,
\* whatever the limit dropped while the turn ran (loadHistory, turnRows,
\* persistCompletedTurn).
THEOREM CompletedTurnsAreReadBack == Spec => []HistoryIsWhole
<1>1. Init => Looped
  BY DEF Init, Looped
<1>2. Typed /\ Kept => HistoryIsWhole
  <2> SUFFICES ASSUME Typed, Kept PROVE HistoryIsWhole
    OBVIOUS
  <2> DEFINE h == LoadHistory(rows)
             Stored(r) == r.complete /\ r.msg.turn <= MaxTurns
                          /\ ~ShouldSkipEmptyAssistant(r.msg)
             own == Picked(rows, {i \in DOMAIN rows : Stored(rows[i])})
  <2>1. rows \in Seq(Rows)
    BY DEF Typed, TypeOK
  <2>2. Paired(h)
    BY <2>1, HistoryIsReplayable DEF Replayable, Sound
  <2>3. Service(h) = Due(rows)
    BY DEF Kept, Remembers
  <2>4. Picked(h, {i \in DOMAIN h : h[i].turn <= MaxTurns}) = Service(h)
    BY DEF Service
  <2>5. Due(rows) = [i \in DOMAIN own |-> own[i].msg]
    BY DEF Due, Msgs, StoredRow
  <2> HIDE DEF h
  <2>6. Picked(h, {i \in DOMAIN h : h[i].turn <= MaxTurns}) = [i \in DOMAIN own |-> own[i].msg]
    BY <2>3, <2>4, <2>5
  <2> QED
    BY <2>2, <2>6, Zenon DEF HistoryIsWhole, h
<1>3. Spec => []Typed
  BY TypedInit, TypedNext, PTL DEF Spec
<1> QED
  BY <1>1, <1>2, <1>3, LoopedNext, KeptInit, KeptNext, PTL DEF Spec
=============================================================================
