---------------------------- MODULE ReboundProofs ----------------------------
(***************************************************************************)
(* Proofs about rebound.Do, for every validated configuration and any      *)
(* durations, server delays, handlers and timer lateness.                  *)
(***************************************************************************)
EXTENDS Rebound, Integers, WellFoundedInduction, TLAPS

-----------------------------------------------------------------------------
(* Delays *)

\* A set of numbers that is not empty has a least one.
LEMMA LeastNumber ==
    ASSUME NEW T, T \subseteq Nat, T # {}
    PROVE  \E n \in T : \A m \in T : n <= m
<1> DEFINE Less == {ss \in Nat \X Nat : ss[1] < ss[2]}
<1>1. IsWellFoundedOn(Less, Nat)
  BY NatLessThanWellFounded, Zenon DEF OpToRel
<1>2. \A m, n \in Nat : m < n => <<m, n>> \in Less
  OBVIOUS
<1> HIDE DEF Less
<1>3. PICK n \in T : \A m \in T : ~ (<<m, n>> \in Less)
  BY <1>1, WFMin
<1>4. ASSUME NEW m \in T PROVE n <= m
  <2>1. m \in Nat /\ n \in Nat /\ ~ (m < n)
    BY <1>2, <1>3
  <2> QED
    BY <2>1
<1> QED
  BY <1>3, <1>4

\* The delay as a fraction, and the loop's step from one retry to the next.
Fraction == [n : Nat, d : Nat \ {0}, capped : BOOLEAN]

Grown(c, p) ==
    LET q == [n |-> p.n * c.num, d |-> p.d * c.den, capped |-> FALSE]
    IN IF p.n >= c.maximum * p.d THEN p
       ELSE IF q.n >= c.maximum * q.d
            THEN [n |-> c.maximum, d |-> 1, capped |-> TRUE]
            ELSE q

First(c) == [n |-> c.initial, d |-> 1, capped |-> FALSE]

Steps(f, c, k) == f = [r \in 1..k |-> IF r = 1 THEN First(c) ELSE Grown(c, f[r - 1])]

LEMMA GrownIsFraction ==
    ASSUME NEW c \in ConfigType, NEW p \in Fraction
    PROVE  Grown(c, p) \in Fraction
<1>1. /\ c.num \in Nat /\ c.den \in Nat \ {0} /\ c.maximum \in Nat
      /\ p.n \in Nat /\ p.d \in Nat \ {0}
  BY DEF ConfigType, Fraction
<1>2. p.n * c.num \in Nat
  BY <1>1
<1>3. p.d * c.den \in Nat \ {0}
  <2>1. \A a, b \in Nat \ {0} : a * b \in Nat \ {0}
    OBVIOUS
  <2> QED
    BY <1>1, <2>1
<1>4. [n |-> p.n * c.num, d |-> p.d * c.den, capped |-> FALSE] \in Fraction
  BY <1>2, <1>3 DEF Fraction
<1>5. [n |-> c.maximum, d |-> 1, capped |-> TRUE] \in Fraction
  BY <1>1 DEF Fraction
<1> QED
  BY <1>4, <1>5 DEF Grown

\* The loop computes a step for every retry.
LEMMA StepsExist ==
    ASSUME NEW c \in ConfigType, NEW k \in Nat
    PROVE  \E f : Steps(f, c, k)
<1> DEFINE T == {i \in Nat : ~ \E f : Steps(f, c, i)}
<1> SUFFICES ASSUME T # {} PROVE FALSE
  OBVIOUS
<1>1. PICK i \in T : \A j \in T : i <= j
  BY LeastNumber
<1>2. i # 0
  <2>1. 1..0 = {}
    OBVIOUS
  <2>2. Steps([r \in 1..0 |-> 0], c, 0)
    BY <2>1 DEF Steps
  <2> QED
    BY <2>2
<1>3. PICK f : Steps(f, c, i - 1)
  BY <1>1, <1>2
<1>4. \A r \in 1..(i - 1) : f[r] = IF r = 1 THEN First(c) ELSE Grown(c, f[r - 1])
  BY <1>3 DEF Steps
<1> DEFINE g == [r \in 1..i |-> IF r = i
                   THEN IF r = 1 THEN First(c) ELSE Grown(c, f[r - 1])
                   ELSE f[r]]
<1>5. ASSUME NEW r \in 1..i
      PROVE  g[r] = IF r = 1 THEN First(c) ELSE Grown(c, g[r - 1])
  <2>1. r # i => r \in 1..(i - 1)
    BY <1>1, <1>2
  <2>2. r # 1 => r - 1 \in 1..(i - 1) /\ r - 1 \in 1..i /\ g[r - 1] = f[r - 1]
    BY <1>1, <1>2
  <2>3. g[r] = IF r = i THEN IF r = 1 THEN First(c) ELSE Grown(c, f[r - 1]) ELSE f[r]
    OBVIOUS
  <2> HIDE DEF g
  <2> QED
    BY <1>4, <2>1, <2>2, <2>3
<1>6. Steps(g, c, i)
  <2>1. g = [r \in 1..i |-> g[r]]
    OBVIOUS
  <2> HIDE DEF g
  <2> QED
    BY <1>5, <2>1 DEF Steps
<1> QED
  BY <1>1, <1>6

\* ... and each of them is a fraction.
LEMMA StepsAreFractions ==
    ASSUME NEW c \in ConfigType, NEW k \in Nat \ {0}, NEW f, Steps(f, c, k)
    PROVE  f[k] \in Fraction
<1>1. \A r \in 1..k : f[r] = IF r = 1 THEN First(c) ELSE Grown(c, f[r - 1])
  BY DEF Steps
<1> DEFINE T == {r \in Nat : r \in 1..k /\ f[r] \notin Fraction}
<1> SUFFICES ASSUME T # {} PROVE FALSE
  OBVIOUS
<1>2. PICK r \in T : \A j \in T : r <= j
  <2>1. T \subseteq Nat
    OBVIOUS
  <2> HIDE DEF T
  <2> QED
    BY <2>1, LeastNumber
<1>3. r \in Nat /\ r \in 1..k /\ f[r] \notin Fraction
  BY <1>2
<1>4. r # 1
  <2>1. First(c) \in Fraction
    BY DEF First, Fraction, ConfigType
  <2> QED
    BY <1>1, <1>3, <2>1
<1>5. r - 1 \in Nat /\ r - 1 \in 1..k /\ ~ (r <= r - 1)
  BY <1>3, <1>4
<1>6. r - 1 \notin T
  BY <1>2, <1>5
<1>7. f[r - 1] \in Fraction
  BY <1>5, <1>6
<1> QED
  BY <1>1, <1>3, <1>4, <1>7, GrownIsFraction

\* An exponential delay is a number of ticks up to the maximum delay.
LEMMA ExponentialDelayFits ==
    ASSUME NEW c \in ConfigType, NEW attempt \in Nat \ {0}
    PROVE  /\ ExponentialDelay(c, attempt) \in Nat
           /\ ExponentialDelay(c, attempt) <= c.maximum
<1> DEFINE step[r \in 1..attempt] ==
             IF r = 1 THEN [n |-> c.initial, d |-> 1, capped |-> FALSE]
             ELSE LET p == step[r - 1]
                      q == [n |-> p.n * c.num, d |-> p.d * c.den, capped |-> FALSE]
                  IN IF p.n >= c.maximum * p.d THEN p
                     ELSE IF q.n >= c.maximum * q.d
                          THEN [n |-> c.maximum, d |-> 1, capped |-> TRUE]
                          ELSE q
<1>1. Steps(step, c, attempt)
  <2>1. \E f : Steps(f, c, attempt)
    BY StepsExist
  <2> QED
    BY <2>1 DEF Steps, First, Grown
<1>2. ExponentialDelay(c, attempt)
        = Least(Round(step[attempt].n, step[attempt].d), c.maximum)
  BY DEF ExponentialDelay
<1> HIDE DEF step
<1>3. step[attempt] \in Fraction
  BY <1>1, StepsAreFractions
<1>4. step[attempt].n \in Nat /\ step[attempt].d \in Nat \ {0}
  BY <1>3 DEF Fraction
<1>5. \A n \in Nat, d \in Nat \ {0} : Round(n, d) \in Nat
  <2>1. \A a \in Nat, b \in Nat \ {0} : a \div b \in Nat
    OBVIOUS
  <2>2. \A n \in Nat, d \in Nat \ {0} : 2 * n + d \in Nat /\ 2 * d \in Nat \ {0}
    OBVIOUS
  <2> QED
    BY <2>1, <2>2 DEF Round
<1>6. c.maximum \in Nat
  BY DEF ConfigType
<1> QED
  BY <1>2, <1>4, <1>5, <1>6 DEF Least

\* What a wait may take: a number of ticks up to the maximum delay, which with
\* jitter may be half of what the backoff or the server asks for.
LEMMA DelaysFit ==
    ASSUME NEW c \in ConfigType, NEW attempt \in Nat \ {0}, NEW asked \in Nat,
           NEW delay \in Delays(c, attempt, asked)
    PROVE  delay \in Nat /\ delay <= c.maximum
<1> DEFINE whole == IF asked > 0 THEN Least(asked, c.maximum)
                    ELSE ExponentialDelay(c, attempt)
<1>1. c.maximum \in Nat
  BY DEF ConfigType
<1>2. whole \in Nat /\ whole <= c.maximum
  BY <1>1, ExponentialDelayFits DEF Least
<1>3. delay \in (whole \div 2)..whole \/ delay = whole
  BY DEF Delays
<1> HIDE DEF whole
<1>4. whole \div 2 \in Nat
  BY <1>2
<1> QED
  BY <1>1, <1>2, <1>3, <1>4

-----------------------------------------------------------------------------
(* The backoff in closed form *)

Powers(f, b, k) == f = [i \in 0..k |-> IF i = 0 THEN 1 ELSE b * f[i - 1]]

LEMMA PowersExist ==
    ASSUME NEW b \in Nat, NEW k \in Nat
    PROVE  \E f : Powers(f, b, k)
<1> DEFINE T == {i \in Nat : ~ \E f : Powers(f, b, i)}
<1> SUFFICES ASSUME T # {} PROVE FALSE
  OBVIOUS
<1>1. PICK i \in T : \A j \in T : i <= j
  BY LeastNumber
<1>2. i # 0
  <2>1. Powers([j \in 0..0 |-> 1], b, 0)
    BY DEF Powers
  <2> QED
    BY <2>1
<1>3. PICK f : Powers(f, b, i - 1)
  BY <1>1, <1>2
<1>4. \A j \in 0..(i - 1) : f[j] = IF j = 0 THEN 1 ELSE b * f[j - 1]
  BY <1>3 DEF Powers
<1> DEFINE g == [j \in 0..i |-> IF j = i THEN b * f[j - 1] ELSE f[j]]
<1>5. ASSUME NEW j \in 0..i
      PROVE  g[j] = IF j = 0 THEN 1 ELSE b * g[j - 1]
  <2>1. j # i => j \in 0..(i - 1)
    BY <1>1, <1>2
  <2>2. j # 0 => j - 1 \in 0..(i - 1) /\ j - 1 \in 0..i /\ g[j - 1] = f[j - 1]
    BY <1>1, <1>2
  <2>3. g[j] = IF j = i THEN b * f[j - 1] ELSE f[j]
    OBVIOUS
  <2> HIDE DEF g
  <2> QED
    BY <1>2, <1>4, <2>1, <2>2, <2>3
<1>6. Powers(g, b, i)
  <2>1. g = [j \in 0..i |-> g[j]]
    OBVIOUS
  <2> HIDE DEF g
  <2> QED
    BY <1>5, <2>1 DEF Powers
<1> QED
  BY <1>1, <1>6

\* The table of powers that defines one power, and its equation.
LEMMA PowerTable ==
    ASSUME NEW b \in Nat, NEW k \in Nat
    PROVE  \E f : /\ Power(b, k) = f[k]
                  /\ \A i \in 0..k : f[i] = IF i = 0 THEN 1 ELSE b * f[i - 1]
<1> DEFINE p[i \in 0..k] == IF i = 0 THEN 1 ELSE b * p[i - 1]
<1>1. Powers(p, b, k)
  <2>1. \E f : Powers(f, b, k)
    BY PowersExist
  <2> QED
    BY <2>1 DEF Powers
<1>2. Power(b, k) = p[k]
  BY DEF Power
<1> HIDE DEF p
<1>3. \A i \in 0..k : p[i] = IF i = 0 THEN 1 ELSE b * p[i - 1]
  BY <1>1 DEF Powers
<1> QED
  BY <1>2, <1>3

\* The tables of two powers agree where both are defined.
LEMMA TablesAgree ==
    ASSUME NEW b \in Nat, NEW k \in Nat, NEW f, NEW g,
           \A i \in 0..k : f[i] = IF i = 0 THEN 1 ELSE b * f[i - 1],
           \A i \in 0..k : g[i] = IF i = 0 THEN 1 ELSE b * g[i - 1]
    PROVE  f[k] = g[k] /\ f[k] \in Nat
<1> DEFINE T == {i \in Nat : i \in 0..k /\ ~ (f[i] = g[i] /\ f[i] \in Nat)}
<1> SUFFICES ASSUME T # {} PROVE FALSE
  OBVIOUS
<1>1. PICK i \in T : \A j \in T : i <= j
  <2>1. T \subseteq Nat
    OBVIOUS
  <2> HIDE DEF T
  <2> QED
    BY <2>1, LeastNumber
<1>2. i \in Nat /\ i \in 0..k /\ ~ (f[i] = g[i] /\ f[i] \in Nat)
  BY <1>1
<1>3. i # 0
  BY <1>2
<1>4. i - 1 \in Nat /\ i - 1 \in 0..k /\ ~ (i <= i - 1)
  BY <1>2, <1>3
<1>5. f[i - 1] = g[i - 1] /\ f[i - 1] \in Nat
  BY <1>1, <1>4
<1>6. b * f[i - 1] \in Nat
  BY <1>5
<1> QED
  BY <1>2, <1>3, <1>5, <1>6

LEMMA PowerIsProduct ==
    ASSUME NEW b \in Nat, NEW k \in Nat
    PROVE  /\ Power(b, 0) = 1 /\ Power(b, k) \in Nat
           /\ Power(b, k + 1) = b * Power(b, k)
<1>1. PICK f : /\ Power(b, k) = f[k]
               /\ \A i \in 0..k : f[i] = IF i = 0 THEN 1 ELSE b * f[i - 1]
  BY PowerTable
<1>2. PICK g : /\ Power(b, k + 1) = g[k + 1]
               /\ \A i \in 0..(k + 1) : g[i] = IF i = 0 THEN 1 ELSE b * g[i - 1]
  <2>1. k + 1 \in Nat
    OBVIOUS
  <2> HIDE DEF Power
  <2> QED
    BY <2>1, PowerTable
<1>3. \A i \in 0..k : g[i] = IF i = 0 THEN 1 ELSE b * g[i - 1]
  BY <1>2
<1>4. f[k] = g[k] /\ f[k] \in Nat
  BY <1>1, <1>3, TablesAgree
<1>5. g[k + 1] = b * g[k]
  BY <1>2
<1>6. Power(b, 0) = 1
  BY PowerTable
<1> QED
  BY <1>1, <1>2, <1>4, <1>5, <1>6

\* A power of a positive number is positive.
LEMMA PowerPositive ==
    ASSUME NEW b \in Nat \ {0}, NEW k \in Nat
    PROVE  Power(b, k) \in Nat \ {0}
<1> DEFINE T == {i \in Nat : Power(b, i) = 0}
<1> SUFFICES ASSUME T # {} PROVE FALSE
  BY PowerIsProduct
<1>1. PICK i \in T : \A j \in T : i <= j
  <2>1. T \subseteq Nat
    OBVIOUS
  <2> HIDE DEF T
  <2> QED
    BY <2>1, LeastNumber
<1>2. i \in Nat /\ Power(b, i) = 0
  BY <1>1
<1>3. i # 0
  BY <1>2, PowerIsProduct
<1>4. i - 1 \in Nat /\ ~ (i <= i - 1) /\ (i - 1) + 1 = i
  BY <1>2, <1>3
<1>5. Power(b, i - 1) # 0 /\ Power(b, i - 1) \in Nat
  BY <1>1, <1>4, PowerIsProduct
<1>6. Power(b, i) = b * Power(b, i - 1)
  BY <1>4, PowerIsProduct
<1>7. \A m, n \in Nat \ {0} : m * n # 0
  OBVIOUS
<1> QED
  BY <1>2, <1>5, <1>6, <1>7

\* What multiplying keeps.
LEMMA Products ==
    /\ \A a, b, x, y \in Nat : a <= b /\ x <= y => a * x <= b * y
    /\ \A a, b, x \in Nat : (a * b) * x = a * (b * x) /\ a * b = b * a
<1>1. ASSUME NEW a \in Nat, NEW b \in Nat, NEW x \in Nat, NEW y \in Nat, a <= b, x <= y
      PROVE  a * x <= b * y
  <2>1. a * x <= b * x
    BY <1>1, SMTT(30)
  <2>2. b * x <= b * y
    BY <1>1, SMTT(30)
  <2>3. a * x \in Nat /\ b * x \in Nat /\ b * y \in Nat
    OBVIOUS
  <2> QED
    BY <2>1, <2>2, <2>3
<1>2. \A a, b, x \in Nat : (a * b) * x = a * (b * x) /\ a * b = b * a
  BY SMTT(30)
<1> QED
  BY <1>1, <1>2

\* A fraction of at least m rounds to at least m.
LEMMA RoundKeeps ==
    ASSUME NEW n \in Nat, NEW d \in Nat \ {0}, NEW m \in Nat, n >= m * d
    PROVE  Round(n, d) \in Nat /\ Round(n, d) >= m
<1>1. \A a \in Nat, b \in Nat \ {0} :
        a \div b \in Nat /\ a < (a \div b) * b + b
  BY SMTT(30)
<1> DEFINE a == 2 * n + d
           b == 2 * d
           r == a \div b
<1>2. a \in Nat /\ b \in Nat \ {0} /\ Round(n, d) = r
  BY DEF Round
<1>3. r \in Nat /\ a < r * b + b
  BY <1>1, <1>2
<1>4. a > m * b
  <2>1. m * b = 2 * (m * d) /\ m * d \in Nat
    BY SMTT(30)
  <2> QED
    BY <2>1
<1> HIDE DEF a, b, r
<1>5. ~ (r + 1 <= m)
  <2>1. SUFFICES ASSUME r + 1 <= m PROVE FALSE
    OBVIOUS
  <2>2. r + 1 \in Nat /\ b \in Nat
    BY <1>2, <1>3
  <2>3. (r + 1) * b <= m * b
    BY <2>1, <2>2, Products
  <2>4. (r + 1) * b = r * b + b /\ r * b \in Nat /\ m * b \in Nat
    BY <1>2, <1>3, SMTT(30)
  <2> QED
    BY <1>2, <1>3, <1>4, <2>3, <2>4
<1> QED
  BY <1>2, <1>3, <1>5

\* The loop's fraction is the exact product x/y, below the maximum for good when
\* the multiplier is below one; or both have reached the maximum, for good as the
\* multiplier is at least one.
Follows(c, p, x, y) ==
    \/ p.n = x /\ p.d = y /\ (c.num < c.den => x < c.maximum * y)
    \/ c.num >= c.den /\ p.n >= c.maximum * p.d /\ x >= c.maximum * y

LEMMA GrownFollows ==
    ASSUME NEW c \in ConfigType, NEW p \in Fraction,
           NEW x \in Nat, NEW y \in Nat, Follows(c, p, x, y)
    PROVE  Follows(c, Grown(c, p), x * c.num, y * c.den)
<1>1. /\ c.num \in Nat /\ c.den \in Nat \ {0} /\ c.maximum \in Nat
      /\ p.n \in Nat /\ p.d \in Nat \ {0}
  BY DEF ConfigType, Fraction
<1>2. /\ c.maximum * y \in Nat /\ (c.maximum * y) * c.den \in Nat /\ x * c.num \in Nat
      /\ (c.maximum * y) * c.den = c.maximum * (y * c.den)
  BY <1>1, Products
<1>3. ASSUME x >= c.maximum * y, c.num >= c.den PROVE x * c.num >= c.maximum * (y * c.den)
  <2>1. (c.maximum * y) * c.den <= x * c.num
    BY <1>1, <1>2, <1>3, Products
  <2> QED
    BY <1>2, <2>1
<1>4. ASSUME x < c.maximum * y, c.num < c.den PROVE x * c.num < c.maximum * (y * c.den)
  <2>1. x * c.num <= x * c.den
    BY <1>1, <1>4, Products
  <2>2. (x + 1) * c.den <= (c.maximum * y) * c.den
    BY <1>1, <1>2, <1>4, Products
  <2>3. (x + 1) * c.den = x * c.den + c.den /\ x * c.den \in Nat
    BY <1>1, SMTT(30)
  <2> QED
    BY <1>1, <1>2, <2>1, <2>2, <2>3
<1>5. CASE p.n >= c.maximum * p.d
  <2>1. Grown(c, p) = p
    BY <1>5 DEF Grown
  <2>2. x >= c.maximum * y /\ c.num >= c.den
    <3>1. CASE p.n = x /\ p.d = y /\ (c.num < c.den => x < c.maximum * y)
      BY <1>1, <1>2, <1>5, <3>1
    <3> QED
      BY <3>1 DEF Follows
  <2> QED
    BY <1>3, <1>5, <2>1, <2>2 DEF Follows
<1>6. CASE ~ (p.n >= c.maximum * p.d)
  <2>1. p.n = x /\ p.d = y /\ (c.num < c.den => x < c.maximum * y)
    BY <1>6 DEF Follows
  <2>2. CASE p.n * c.num >= c.maximum * (p.d * c.den)
    <3>1. Grown(c, p) = [n |-> c.maximum, d |-> 1, capped |-> TRUE]
      BY <1>6, <2>2 DEF Grown
    <3>2. c.maximum >= c.maximum * 1
      BY <1>1
    <3>3. c.num >= c.den
      <4>1. y * c.den \in Nat /\ c.maximum * (y * c.den) \in Nat
        BY <1>1
      <4> QED
        BY <1>1, <1>2, <1>4, <2>1, <2>2, <4>1
    <3> QED
      BY <2>1, <2>2, <3>1, <3>2, <3>3 DEF Follows
  <2>3. CASE ~ (p.n * c.num >= c.maximum * (p.d * c.den))
    <3>1. Grown(c, p) = [n |-> p.n * c.num, d |-> p.d * c.den, capped |-> FALSE]
      BY <1>6, <2>3 DEF Grown
    <3> QED
      BY <1>4, <2>1, <3>1 DEF Follows
  <2> QED
    BY <2>2, <2>3
<1> QED
  BY <1>5, <1>6

\* So it does from the first retry to the last.
LEMMA StepsFollow ==
    ASSUME NEW c \in ConfigType, c.initial < c.maximum, NEW k \in Nat \ {0},
           NEW f, Steps(f, c, k)
    PROVE  Follows(c, f[k], c.initial * Power(c.num, k - 1), Power(c.den, k - 1))
<1> DEFINE Good(r) == /\ f[r] \in Fraction
                      /\ Follows(c, f[r], c.initial * Power(c.num, r - 1), Power(c.den, r - 1))
<1>0. c.initial \in Nat /\ c.num \in Nat /\ c.den \in Nat
  BY DEF ConfigType
<1>1. \A r \in 1..k : f[r] = IF r = 1 THEN First(c) ELSE Grown(c, f[r - 1])
  BY DEF Steps
<1> DEFINE T == {r \in Nat : r \in 1..k /\ ~ Good(r)}
<1> SUFFICES ASSUME T # {} PROVE FALSE
  BY DEF Good
<1>2. PICK r \in T : \A j \in T : r <= j
  <2>1. T \subseteq Nat
    OBVIOUS
  <2> HIDE DEF T
  <2> QED
    BY <2>1, LeastNumber
<1>3. r \in Nat /\ r \in 1..k /\ ~ Good(r)
  BY <1>2
<1>4. r # 1
  <2>1. First(c) \in Fraction /\ First(c).n = c.initial /\ First(c).d = 1
    BY DEF First, Fraction, ConfigType
  <2>2. Power(c.num, 0) = 1 /\ Power(c.den, 0) = 1
    BY <1>0, PowerIsProduct
  <2>3. 1 \in 1..k /\ 1 - 1 = 0 /\ c.initial * 1 = c.initial
    BY <1>0
  <2>4. f[1] = First(c)
    BY <1>1, <2>3
  <2>5. c.initial < c.maximum * 1
    BY DEF ConfigType
  <2>6. Good(1)
    BY <2>1, <2>2, <2>3, <2>4, <2>5 DEF Follows
  <2> QED
    BY <1>3, <2>6
<1>5. r - 1 \in Nat \ {0} /\ r - 1 \in 1..k /\ ~ (r <= r - 1)
      /\ (r - 1) - 1 \in Nat /\ ((r - 1) - 1) + 1 = r - 1
  BY <1>3, <1>4
<1>6. Good(r - 1)
  BY <1>2, <1>5
<1> DEFINE j == (r - 1) - 1
           x == c.initial * Power(c.num, j)
           y == Power(c.den, j)
<1>7. /\ Power(c.num, r - 1) = c.num * Power(c.num, j) /\ Power(c.num, j) \in Nat
      /\ Power(c.den, r - 1) = c.den * y /\ y \in Nat
  BY <1>0, <1>5, PowerIsProduct
<1>8. /\ x \in Nat
      /\ c.initial * Power(c.num, r - 1) = x * c.num
      /\ Power(c.den, r - 1) = y * c.den
  <2>1. ASSUME NEW i \in Nat, NEW q \in Nat, NEW n \in Nat
        PROVE  i * q \in Nat /\ i * (n * q) = (i * q) * n
    <3>1. n * q = q * n /\ (i * q) * n = i * (q * n)
      BY <2>1, Products
    <3> QED
      BY <2>1, <3>1
  <2>2. x \in Nat /\ c.initial * (c.num * Power(c.num, j)) = x * c.num
    BY <1>0, <1>7, <2>1
  <2>3. c.den * y = y * c.den
    BY <1>0, <1>7, Products
  <2> QED
    BY <1>7, <2>2, <2>3
<1>9. f[r] = Grown(c, f[r - 1])
  BY <1>1, <1>3, <1>4
<1>10. Follows(c, f[r], x * c.num, y * c.den)
  <2>1. f[r - 1] \in Fraction /\ Follows(c, f[r - 1], x, y)
    BY <1>6
  <2> QED
    BY <1>7, <1>8, <1>9, <2>1, GrownFollows
<1>11. f[r] \in Fraction
  BY <1>6, <1>9, GrownIsFraction
<1>12. Good(r)
  BY <1>8, <1>10, <1>11
<1> QED
  BY <1>3, <1>12

\* The loop's delay in closed form: the initial delay times the multiplier to
\* the power of the retries made, rounded and capped.
LEMMA ExponentialDelayIsPower ==
    ASSUME NEW c \in ConfigType, c.initial < c.maximum, NEW k \in Nat \ {0}
    PROVE  ExponentialDelay(c, k)
             = Least(Round(c.initial * Power(c.num, k - 1), Power(c.den, k - 1)), c.maximum)
<1> DEFINE step[r \in 1..k] ==
             IF r = 1 THEN [n |-> c.initial, d |-> 1, capped |-> FALSE]
             ELSE LET p == step[r - 1]
                      q == [n |-> p.n * c.num, d |-> p.d * c.den, capped |-> FALSE]
                  IN IF p.n >= c.maximum * p.d THEN p
                     ELSE IF q.n >= c.maximum * q.d
                          THEN [n |-> c.maximum, d |-> 1, capped |-> TRUE]
                          ELSE q
           x == c.initial * Power(c.num, k - 1)
           y == Power(c.den, k - 1)
<1>1. Steps(step, c, k)
  <2>1. \E f : Steps(f, c, k)
    BY StepsExist
  <2> QED
    BY <2>1 DEF Steps, First, Grown
<1>2. ExponentialDelay(c, k) = Least(Round(step[k].n, step[k].d), c.maximum)
  BY DEF ExponentialDelay
<1> HIDE DEF step
<1>3. step[k] \in Fraction /\ Follows(c, step[k], x, y)
  BY <1>1, StepsAreFractions, StepsFollow
<1>4. x \in Nat /\ y \in Nat \ {0} /\ c.maximum \in Nat
  <2>1. /\ c.initial \in Nat /\ c.num \in Nat /\ c.den \in Nat \ {0} /\ c.maximum \in Nat
        /\ k - 1 \in Nat
    BY DEF ConfigType
  <2>2. Power(c.num, k - 1) \in Nat /\ y \in Nat \ {0}
    BY <2>1, PowerIsProduct, PowerPositive
  <2> QED
    BY <2>1, <2>2
<1> HIDE DEF x, y
<1>5. CASE step[k].n = x /\ step[k].d = y /\ (c.num < c.den => x < c.maximum * y)
  BY <1>2, <1>5 DEF x, y
<1>6. CASE c.num >= c.den /\ step[k].n >= c.maximum * step[k].d /\ x >= c.maximum * y
  <2>1. step[k].n \in Nat /\ step[k].d \in Nat \ {0}
    BY <1>3 DEF Fraction
  <2>2. /\ Round(step[k].n, step[k].d) \in Nat
        /\ Round(step[k].n, step[k].d) >= c.maximum
    BY <1>4, <1>6, <2>1, RoundKeeps
  <2>3. Round(x, y) \in Nat /\ Round(x, y) >= c.maximum
    BY <1>4, <1>6, RoundKeeps
  <2>4. \A n \in Nat : n >= c.maximum => Least(n, c.maximum) = c.maximum
    BY <1>4 DEF Least
  <2> QED
    BY <1>2, <2>2, <2>3, <2>4 DEF x, y
<1> QED
  BY <1>3, <1>5, <1>6 DEF Follows

\* An initial delay that is the maximum already stays, whatever the multiplier.
LEMMA FullDelayStays ==
    ASSUME NEW c \in ConfigType, c.initial = c.maximum, NEW k \in Nat \ {0}
    PROVE  ExponentialDelay(c, k) = c.maximum
<1> DEFINE step[r \in 1..k] ==
             IF r = 1 THEN [n |-> c.initial, d |-> 1, capped |-> FALSE]
             ELSE LET p == step[r - 1]
                      q == [n |-> p.n * c.num, d |-> p.d * c.den, capped |-> FALSE]
                  IN IF p.n >= c.maximum * p.d THEN p
                     ELSE IF q.n >= c.maximum * q.d
                          THEN [n |-> c.maximum, d |-> 1, capped |-> TRUE]
                          ELSE q
<1>1. Steps(step, c, k)
  <2>1. \E f : Steps(f, c, k)
    BY StepsExist
  <2> QED
    BY <2>1 DEF Steps, First, Grown
<1>2. ExponentialDelay(c, k) = Least(Round(step[k].n, step[k].d), c.maximum)
  BY DEF ExponentialDelay
<1> HIDE DEF step
<1>3. \A r \in 1..k : step[r] = IF r = 1 THEN First(c) ELSE Grown(c, step[r - 1])
  BY <1>1 DEF Steps
<1>4. c.maximum \in Nat /\ c.maximum >= c.maximum * 1
  BY DEF ConfigType
<1>5. step[k] = First(c)
  <2> DEFINE T == {r \in Nat : r \in 1..k /\ step[r] # First(c)}
  <2> SUFFICES ASSUME T # {} PROVE FALSE
    OBVIOUS
  <2>1. PICK r \in T : \A j \in T : r <= j
    <3>1. T \subseteq Nat
      OBVIOUS
    <3> HIDE DEF T
    <3> QED
      BY <3>1, LeastNumber
  <2>2. r \in Nat /\ r \in 1..k /\ step[r] # First(c)
    BY <2>1
  <2>3. r # 1 /\ r - 1 \in Nat /\ r - 1 \in 1..k /\ ~ (r <= r - 1)
    BY <1>3, <2>2
  <2>4. step[r - 1] = First(c)
    BY <2>1, <2>3
  <2>5. Grown(c, First(c)) = First(c)
    BY <1>4 DEF Grown, First
  <2> QED
    BY <1>3, <2>2, <2>3, <2>4, <2>5
<1>6. step[k].n = c.maximum /\ step[k].d = 1
  BY <1>5 DEF First
<1>7. Round(c.maximum, 1) \in Nat /\ Round(c.maximum, 1) >= c.maximum
  BY <1>4, RoundKeeps
<1> QED
  BY <1>2, <1>4, <1>6, <1>7 DEF Least

-----------------------------------------------------------------------------
(* The call *)

TypeOK ==
    /\ cfg \in Configs
    /\ pc \in {"loop", "operate", "decide", "wait", "done"}
    /\ number \in Nat \ {0} /\ now \in Nat /\ ended \in BOOLEAN
    /\ err \in Errors /\ after \in RetryAfters \cup {0}
    /\ report \in [number : Nat, err : Errors, delay : Nat]
    /\ result \in [kind : {"none", "ok", "context", "not_retryable", "exhausted"},
                   attempts : Nat]
    /\ calls \in Nat /\ begun \in Nat

\* The attempts are counted as they are made.
Counted ==
    /\ number <= cfg.attempts
    /\ pc = "loop" => calls = number - 1
    /\ pc \in {"operate", "decide", "wait"} => calls = number
    /\ calls <= cfg.attempts

\* Another attempt is made only after a failure that is retried, and a wait has
\* been found to fit into what is left of the time.
Budgeted ==
    /\ pc = "loop" /\ calls > 0 => err = "retryable" /\ now <= cfg.elapsed + Lateness + Handling
    /\ pc = "wait" => /\ err = "retryable" /\ number < cfg.attempts
                      /\ report.delay <= cfg.elapsed - now
                      /\ report.delay <= cfg.maximum
    /\ calls > 1 => begun <= cfg.elapsed + Lateness + 2 * Handling

\* What Do has returned.
Answered ==
    /\ pc # "done" => result.kind = "none"
    /\ result.kind = "exhausted" =>
          /\ result.attempts = calls /\ err = "retryable"
          /\ report.number = calls
    /\ result.kind = "ok" => err = "ok"

IInv == TypeOK /\ Counted /\ Budgeted /\ Answered

LEMMA InitIInv == Init => IInv
<1> SUFFICES ASSUME Init PROVE IInv
  OBVIOUS
<1>1. TypeOK
  BY DEF Init, TypeOK, NoReport, Errors
<1>2. cfg.attempts \in Nat \ {0}
  BY <1>1, ReboundAssumption DEF TypeOK, ConfigType
<1> QED
  BY <1>1, <1>2 DEF Init, IInv, Counted, Budgeted, Answered

LEMMA NextIInv == IInv /\ [Next]_vars => IInv'
<1> SUFFICES ASSUME IInv, [Next]_vars PROVE IInv'
  OBVIOUS
<1>1. TypeOK /\ Counted /\ Budgeted /\ Answered
  BY DEF IInv
<1>2. /\ cfg \in ConfigType /\ cfg.attempts \in Nat \ {0} /\ cfg.elapsed \in Nat \ {0}
      /\ Handling \in Nat /\ Lateness \in Nat /\ Durations \subseteq Nat /\ RetryAfters \subseteq Nat
  BY <1>1, ReboundAssumption DEF TypeOK, ConfigType
<1>3. CASE End
  BY <1>1, <1>3 DEF End, IInv, TypeOK, Counted, Budgeted, Answered
<1>4. ASSUME NEW ticks \in 0..Handling, Begin(ticks) PROVE IInv'
  <2>1. now' = now + ticks /\ begun' = now' /\ ticks \in Nat /\ ticks <= Handling /\ now \in Nat
    BY <1>1, <1>2, <1>4 DEF Begin, TypeOK
  <2>2. now' \in Nat /\ (calls > 0 => begun' <= cfg.elapsed + Lateness + 2 * Handling)
    BY <1>1, <1>2, <1>4, <2>1 DEF Begin, Budgeted
  <2> QED
    BY <1>1, <1>2, <1>4, <2>1, <2>2 DEF Begin, IInv, TypeOK, Counted, Budgeted, Answered
<1>5. CASE BeginEnded
  BY <1>1, <1>2, <1>5 DEF BeginEnded, Return, IInv, TypeOK, Counted, Budgeted, Answered
<1>6. ASSUME NEW e \in Errors, NEW ticks \in Durations, NEW asked \in RetryAfters,
             Operate(e, ticks, asked)
      PROVE  IInv'
  BY <1>1, <1>2, <1>6 DEF Operate, IInv, TypeOK, Counted, Budgeted, Answered
<1>7. CASE DecideEnd
  <2>1. TypeOK'
    BY <1>1, <1>2, <1>7 DEF DecideEnd, Return, Reported, TypeOK, Errors
  <2> QED
    BY <1>1, <1>2, <1>7, <2>1
    DEF DecideEnd, Return, Reported, IInv, TypeOK, Counted, Budgeted, Answered
<1>8. CASE DecideDelay
  <2>1. PICK delay \in Delays(cfg, number, after) :
           /\ report' = Reported(delay)
           /\ IF delay > cfg.elapsed - now
              THEN Return("exhausted")
              ELSE pc' = "wait" /\ UNCHANGED result
    BY <1>8 DEF DecideDelay
  <2>2. delay \in Nat /\ delay <= cfg.maximum
    <3>1. number \in Nat \ {0} /\ after \in Nat
      BY <1>1, <1>2 DEF TypeOK
    <3> QED
      BY <1>2, <3>1, DelaysFit
  <2>3. CASE delay > cfg.elapsed - now
    BY <1>1, <1>2, <1>8, <2>1, <2>2, <2>3
    DEF DecideDelay, Return, Reported, IInv, TypeOK, Counted, Budgeted, Answered
  <2>4. CASE ~ (delay > cfg.elapsed - now)
    <3>1. delay <= cfg.elapsed - now /\ now \in Nat
      BY <1>1, <1>2, <2>2, <2>4 DEF TypeOK
    <3> QED
      BY <1>1, <1>2, <1>8, <2>1, <2>2, <2>4, <3>1
      DEF DecideDelay, Reported, IInv, TypeOK, Counted, Budgeted, Answered
  <2> QED
    BY <2>3, <2>4
<1>9. ASSUME NEW ticks \in 0..Handling, NEW late \in 0..Lateness, WaitOver(ticks, late)
      PROVE  IInv'
  <2>1. now' = now + ticks + report.delay + late /\ now + report.delay <= cfg.elapsed
        /\ ticks \in Nat /\ ticks <= Handling
        /\ report.delay \in Nat /\ now \in Nat /\ late \in Nat /\ late <= Lateness
    BY <1>1, <1>2, <1>9 DEF WaitOver, Budgeted, TypeOK
  <2>2. now' \in Nat /\ now' <= cfg.elapsed + Lateness + Handling
    BY <1>2, <2>1
  <2> QED
    BY <1>1, <1>2, <1>9, <2>2 DEF WaitOver, IInv, TypeOK, Counted, Budgeted, Answered
<1>10. CASE WaitEnded
  BY <1>1, <1>2, <1>10 DEF WaitEnded, Return, IInv, TypeOK, Counted, Budgeted, Answered
<1>11. CASE UNCHANGED vars
  BY <1>1, <1>11 DEF vars, IInv, TypeOK, Counted, Budgeted, Answered
<1> QED
  BY <1>3, <1>4, <1>5, <1>6, <1>7, <1>8, <1>9, <1>10, <1>11 DEF Next

LEMMA Invariant == Spec => []IInv
BY InitIInv, NextIInv, PTL DEF Spec

\* Every wait that is begun is at most the maximum delay and fits into what is
\* left of the time (decide and delay, rebound.go), for every multiplier and
\* whatever delay the server asks for.
WaitFits ==
    pc = "wait" => report.delay <= cfg.maximum /\ now + report.delay <= cfg.elapsed

THEOREM WaitsFit == Spec => []WaitFits
<1>1. IInv => WaitFits
  <2> SUFFICES ASSUME IInv, pc = "wait"
               PROVE  report.delay <= cfg.maximum /\ now + report.delay <= cfg.elapsed
    BY DEF WaitFits
  <2>1. now \in Nat /\ report.delay \in Nat /\ cfg.elapsed \in Nat
    BY ReboundAssumption DEF IInv, TypeOK, ConfigType
  <2> QED
    BY <2>1 DEF IInv, Budgeted
<1> QED
  BY <1>1, Invariant, PTL

\* NoLateAttempt: no attempt begins after the budget of time but for the
\* lateness of one timer and the handlers on both sides of the wait (Do and decide,
\* rebound.go), whatever the durations of the operation and the delays its server
\* asks for.
THEOREM AttemptsAreInTime == Spec => []NoLateAttempt
<1>1. IInv => NoLateAttempt
  BY DEF IInv, Budgeted, NoLateAttempt
<1> QED
  BY <1>1, Invariant, PTL

\* AnswerIsTrue: what Do returns is what happened: at most the configured
\* attempts, none after an answer that is not retried, and the number of
\* attempts in the error that reports exhaustion.
THEOREM AnswersAreTrue == Spec => []AnswerIsTrue
<1>1. IInv => AnswerIsTrue
  BY DEF IInv, TypeOK, Counted, Budgeted, Answered, AnswerIsTrue
<1> QED
  BY <1>1, Invariant, PTL

\* A wait takes a delay that the configuration, the retry and the server allow.
Drawn == pc = "wait" => report.delay \in Delays(cfg, number, after)

LEMMA DrawnInvariant == Spec => []Drawn
<1>1. Init => Drawn
  BY DEF Init, Drawn
<1>2. Drawn /\ [Next]_vars => Drawn'
  <2> SUFFICES ASSUME Drawn, [Next]_vars, pc' = "wait"
               PROVE  report'.delay \in Delays(cfg', number', after')
    BY DEF Drawn
  <2>1. CASE DecideDelay
    BY <2>1 DEF DecideDelay, Return, Reported
  <2>2. CASE ~ DecideDelay
    <3>1. pc = "wait" /\ UNCHANGED <<report, cfg, number, after>>
      BY <2>2 DEF Next, End, Begin, BeginEnded, Operate, DecideEnd, WaitOver, WaitEnded,
                  Return, vars
    <3> QED
      BY <3>1 DEF Drawn
  <2> QED
    BY <2>1, <2>2
<1> QED
  BY <1>1, <1>2, PTL DEF Spec

\* WaitIsBackoff: the delay the loop computes retry by retry (exponentialDelay,
\* rebound.go), stopping at the maximum, is the closed form of the documentation
\* for every multiplier, above and below one, where the initial delay is below the
\* maximum, and the maximum where it is not; and a wait keeps to it, to what a
\* server asked for instead, and to at least half of it under jitter (delay,
\* rebound.go).
THEOREM WaitsAreBackoff == Spec => []WaitIsBackoff
<1>1. IInv /\ Drawn => WaitIsBackoff
  <2> SUFFICES ASSUME IInv, Drawn, pc = "wait"
               PROVE  WaitIsBackoff
    BY DEF WaitIsBackoff
  <2> DEFINE k == number - 1
             power == IF cfg.initial < cfg.maximum
                      THEN Round(cfg.initial * Power(cfg.num, k), Power(cfg.den, k))
                      ELSE cfg.maximum
             base == Least(IF after > 0 THEN after ELSE power, cfg.maximum)
  <2>1. /\ cfg \in ConfigType /\ cfg.maximum \in Nat /\ cfg.initial \in Nat
        /\ cfg.initial <= cfg.maximum
        /\ number \in Nat \ {0} /\ after \in Nat
    BY ReboundAssumption DEF IInv, TypeOK, ConfigType
  <2>2. Least(power, cfg.maximum) = ExponentialDelay(cfg, number)
    <3>1. CASE cfg.initial < cfg.maximum
      BY <2>1, <3>1, ExponentialDelayIsPower
    <3>2. CASE cfg.initial = cfg.maximum
      BY <2>1, <3>2, FullDelayStays DEF Least
    <3> QED
      BY <2>1, <3>1, <3>2
  <2>3. base = IF after > 0 THEN Least(after, cfg.maximum)
               ELSE ExponentialDelay(cfg, number)
    BY <2>2
  <2>4. base \in Nat
    BY <2>1, <2>3, ExponentialDelayFits DEF Least
  <2>5. report.delay \in IF cfg.jitter THEN (base \div 2)..base ELSE {base}
    BY <2>3 DEF Drawn, Delays
  <2>6. WaitIsBackoff <=> IF cfg.jitter
                          THEN report.delay <= base /\ base <= 2 * report.delay + 1
                          ELSE report.delay = base
    BY DEF WaitIsBackoff
  <2> HIDE DEF base
  <2>7. ASSUME report.delay \in (base \div 2)..base
        PROVE  report.delay <= base /\ base <= 2 * report.delay + 1
    BY <2>4, <2>7
  <2> QED
    BY <2>5, <2>6, <2>7
<1> QED
  BY <1>1, Invariant, DrawnInvariant, PTL
=============================================================================
