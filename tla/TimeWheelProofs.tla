--------------------------- MODULE TimeWheelProofs ---------------------------
(***************************************************************************)
(* Proofs about TimeWheel, for any number of wheels of any sizes, any      *)
(* timers and any delays the last wheel has room for.                      *)
(***************************************************************************)
EXTENDS TimeWheel, WellFoundedInduction, TLAPS

-----------------------------------------------------------------------------
(* Induction over the levels, and the two recursive functions.             *)

\* A nonempty set of natural numbers has a least element.
LEMMA LeastNat ==
  ASSUME NEW T, T \subseteq Nat, T # {}
  PROVE  \E n \in T : \A m \in T : n <= m
<1> DEFINE R == OpToRel(<, Nat)
<1>1. IsWellFoundedOn(R, Nat)
  BY Zenon, NatLessThanWellFounded
<1>2. \A m, n \in Nat : m < n => <<m, n>> \in R
  BY DEF OpToRel
<1> HIDE DEF R
<1>3. PICK n \in T : \A m \in T : ~(<<m, n>> \in R)
  BY Zenon, <1>1, WFMin
<1>4. \A m \in T : m \in Nat /\ n \in Nat /\ ~(m < n)
  BY Zenon, <1>2, <1>3
<1>5. \A m \in T : n <= m
  BY <1>4
<1> QED
  BY <1>5

\* Induction from m upwards, for a set in the place of a predicate.
LEMMA Induction ==
  ASSUME NEW n \in Nat, NEW m \in Nat, NEW S, m \in S,
         \A k \in m + 1..n : k - 1 \in S => k \in S
  PROVE  \A k \in m..n : k \in S
<1> SUFFICES ASSUME (m..n) \ S # {} PROVE FALSE
  OBVIOUS
<1>1. (m..n) \ S \subseteq Nat
  OBVIOUS
<1>2. PICK k \in (m..n) \ S : \A j \in (m..n) \ S : k <= j
  BY Zenon, <1>1, LeastNat
<1>3. k \in m + 1..n /\ k - 1 \in m..n /\ ~(k <= k - 1)
  BY <1>2
<1> QED
  BY <1>2, <1>3

\* What the sizes are.
LEMMA Sizes ==
  /\ Len(Count) \in Nat \ {0} /\ Levels = 1..Len(Count) /\ 1 \in Levels
  /\ \A l \in Levels : Count[l] \in Nat \ {0}
  /\ \A l \in Levels : l \in Nat /\ (l > 1 => l - 1 \in Levels)
BY CountAssumption DEF Levels

\* The recursion of Param, and its type.
LEMMA ParamDef ==
  /\ Param \in [Levels -> Nat \ {0}]
  /\ \A l \in Levels : Param[l] = IF l = 1 THEN 1 ELSE Count[l - 1] * Param[l - 1]
<1> DEFINE N == Len(Count)
           Is(f, n) == /\ f \in [1..n -> Nat \ {0}]
                       /\ \A l \in 1..n :
                             f[l] = IF l = 1 THEN 1 ELSE Count[l - 1] * f[l - 1]
           T == {n \in Nat : \E f : Is(f, n)}
<1>1. 0 \in T
  <2>1. Is([l \in 1..0 |-> 1], 0)
    OBVIOUS
  <2> QED
    BY Zenon, <2>1
<1>2. ASSUME NEW n \in 0 + 1..N, n - 1 \in T PROVE n \in T
  <2>1. PICK f : Is(f, n - 1)
    BY SMTT(30), <1>2
  <2>2. n \in Nat /\ n >= 1 /\ n <= N
    BY <1>2, Sizes
  <2> DEFINE v == IF n = 1 THEN 1 ELSE Count[n - 1] * f[n - 1]
             g == [l \in 1..n |-> IF l = n THEN v ELSE f[l]]
  <2>3. v \in Nat \ {0}
    <3>1. CASE n = 1
      BY <3>1
    <3>2. CASE n # 1
      <4>1. Count[n - 1] \in Nat \ {0} /\ f[n - 1] \in Nat \ {0}
        BY <2>1, <2>2, <3>2, Sizes
      <4>2. \A a, b \in Nat \ {0} : a * b \in Nat \ {0}
        OBVIOUS
      <4>3. Count[n - 1] * f[n - 1] \in Nat \ {0}
        BY <4>1, <4>2
      <4> QED
        BY <3>2, <4>3
    <3> QED
      BY <3>1, <3>2
  <2> HIDE DEF v
  <2>4. g \in [1..n -> Nat \ {0}]
    BY <2>1, <2>2, <2>3
  <2>5. \A l \in 1..n : g[l] = IF l = 1 THEN 1 ELSE Count[l - 1] * g[l - 1]
    BY <2>1, <2>2 DEF v
  <2> QED
    BY Zenon, <2>2, <2>4, <2>5
<1> HIDE DEF T
<1>3. \A k \in 0..N : k \in T
  BY Zenon, <1>1, <1>2, Induction, Sizes
<1>4. PICK f : Is(f, N)
  <2> HIDE DEF Is
  <2>1. N \in T
    BY <1>3, Sizes
  <2> QED
    BY <2>1 DEF T
<1>5. f = [l \in Levels |-> IF l = 1 THEN 1 ELSE Count[l - 1] * f[l - 1]]
  BY <1>4, Sizes
<1>6. Param = [l \in Levels |-> IF l = 1 THEN 1 ELSE Count[l - 1] * Param[l - 1]]
  <2> HIDE DEF Is
  <2> QED
    BY <1>5 DEF Param
<1> HIDE DEF Is
<1> DEFINE S == {l \in Nat : l \in Levels => Param[l] \in Nat \ {0}}
<1>7. 1 \in S
  BY <1>6, Sizes
<1>8. ASSUME NEW l \in 1 + 1..N, l - 1 \in S PROVE l \in S
  <2>1. l \in Nat /\ l # 1 /\ l \in Levels /\ l - 1 \in Levels
    BY Sizes
  <2>2. Count[l - 1] \in Nat \ {0} /\ Param[l - 1] \in Nat \ {0}
    BY <1>8, <2>1, Sizes
  <2>3. \A a, b \in Nat \ {0} : a * b \in Nat \ {0}
    OBVIOUS
  <2>4. Param[l] = Count[l - 1] * Param[l - 1]
    BY <1>6, <2>1
  <2> QED
    BY <2>1, <2>2, <2>3, <2>4
<1> HIDE DEF S
<1>9. \A l \in 1..N : l \in S
  BY Zenon, <1>7, <1>8, Induction, Sizes
<1> QED
  BY <1>6, <1>9, Sizes DEF S

\* The time that has passed in the current turn of the wheels below l, for any
\* positions c of the wheels: Below is Passed(cur).
Passed(c) ==
    CHOOSE f : f = [l \in Levels |->
                       IF l = 1 THEN 0 ELSE c[l - 1] * Param[l - 1] + f[l - 1]]

\* Below reads the positions cur.
LEMMA BelowPassed == Below = Passed(cur)
BY DEF Below, Passed

\* Its recursion, and its type.
LEMMA PassedDef ==
  ASSUME NEW c \in [Levels -> Nat]
  PROVE  /\ Passed(c) \in [Levels -> Nat]
         /\ \A l \in Levels :
              Passed(c)[l] = IF l = 1 THEN 0
                             ELSE c[l - 1] * Param[l - 1] + Passed(c)[l - 1]
<1> DEFINE N == Len(Count)
           Is(f, n) == /\ f \in [1..n -> Nat]
                       /\ \A l \in 1..n :
                             f[l] = IF l = 1 THEN 0
                                    ELSE c[l - 1] * Param[l - 1] + f[l - 1]
           T == {n \in Nat : \E f : Is(f, n)}
<1>0. \A l \in Levels : c[l] * Param[l] \in Nat
  BY ParamDef
<1>1. 0 \in T
  <2>1. Is([l \in 1..0 |-> 1], 0)
    OBVIOUS
  <2> QED
    BY Zenon, <2>1
<1>2. ASSUME NEW n \in 0 + 1..N, n - 1 \in T PROVE n \in T
  <2>1. PICK f : Is(f, n - 1)
    BY <1>2
  <2>2. n \in Nat /\ n >= 1 /\ n <= N
    BY <1>2, Sizes
  <2> DEFINE v == IF n = 1 THEN 0 ELSE c[n - 1] * Param[n - 1] + f[n - 1]
             g == [l \in 1..n |-> IF l = n THEN v ELSE f[l]]
  <2>3. v \in Nat
    <3>1. CASE n = 1
      BY <3>1
    <3>2. CASE n # 1
      <4>1. c[n - 1] * Param[n - 1] \in Nat /\ f[n - 1] \in Nat
        BY <1>0, <2>1, <2>2, <3>2, Sizes
      <4> HIDE DEF Is
      <4> QED
        BY <3>2, <4>1
    <3> QED
      BY <3>1, <3>2
  <2> HIDE DEF v
  <2>4. g \in [1..n -> Nat]
    BY <2>1, <2>2, <2>3
  <2>5. \A l \in 1..n : g[l] = IF l = 1 THEN 0
                               ELSE c[l - 1] * Param[l - 1] + g[l - 1]
    BY <2>1, <2>2 DEF v
  <2> QED
    BY Zenon, <2>2, <2>4, <2>5
<1> HIDE DEF T
<1>3. \A k \in 0..N : k \in T
  BY Zenon, <1>1, <1>2, Induction, Sizes
<1>4. PICK f : Is(f, N)
  <2> HIDE DEF Is
  <2>1. N \in T
    BY <1>3, Sizes
  <2> QED
    BY <2>1 DEF T
<1>5. f = [l \in Levels |-> IF l = 1 THEN 0 ELSE c[l - 1] * Param[l - 1] + f[l - 1]]
  BY <1>4, Sizes
<1> HIDE DEF Is
<1> DEFINE p == Passed(c)
<1>6. p = [l \in Levels |-> IF l = 1 THEN 0 ELSE c[l - 1] * Param[l - 1] + p[l - 1]]
  BY <1>5 DEF Passed
<1> HIDE DEF p
<1> DEFINE S == {l \in Nat : l \in Levels => p[l] \in Nat}
<1>7. 1 \in S
  BY <1>6, Sizes
<1>8. ASSUME NEW l \in 1 + 1..N, l - 1 \in S PROVE l \in S
  <2>1. l \in Nat /\ l # 1 /\ l \in Levels /\ l - 1 \in Levels
    BY Sizes
  <2>2. c[l - 1] * Param[l - 1] \in Nat /\ p[l - 1] \in Nat
    BY <1>0, <1>8, <2>1
  <2>3. p[l] = c[l - 1] * Param[l - 1] + p[l - 1]
    BY <1>6, <2>1
  <2> QED
    BY <2>1, <2>2, <2>3
<1> HIDE DEF S
<1>9. \A l \in 1..N : l \in S
  BY Zenon, <1>7, <1>8, Induction, Sizes
<1>10. p \in [Levels -> Nat]
  BY <1>6, <1>9, Sizes DEF S
<1>11. \A l \in Levels : p[l] = IF l = 1 THEN 0 ELSE c[l - 1] * Param[l - 1] + p[l - 1]
  BY Zenon, <1>6
<1> QED
  BY <1>10, <1>11 DEF p

\* Positions that agree below l give the same.
LEMMA PassedSame ==
  ASSUME NEW c \in [Levels -> Nat], NEW d \in [Levels -> Nat], NEW m \in Levels,
         \A l \in Levels : l < m => c[l] = d[l]
  PROVE  \A l \in 1..m : Passed(c)[l] = Passed(d)[l]
<1> DEFINE S == {l \in Nat : l \in 1..m => Passed(c)[l] = Passed(d)[l]}
<1>1. 1 \in S
  BY PassedDef, Sizes
<1>2. ASSUME NEW l \in 1 + 1..m, l - 1 \in S PROVE l \in S
  <2>1. l \in Levels /\ l - 1 \in Levels /\ l # 1 /\ l - 1 < m /\ l - 1 \in 1..m /\ l \in Nat
    BY Sizes
  <2>2. c[l - 1] = d[l - 1] /\ Passed(c)[l - 1] = Passed(d)[l - 1]
    BY <1>2, <2>1
  <2>3. /\ Passed(c)[l] = c[l - 1] * Param[l - 1] + Passed(c)[l - 1]
        /\ Passed(d)[l] = d[l - 1] * Param[l - 1] + Passed(d)[l - 1]
    BY <2>1, PassedDef
  <2> QED
    BY <2>1, <2>2, <2>3
<1> HIDE DEF S
<1>3. m \in Nat
  BY Sizes
<1>4. \A l \in 1..m : l \in S
  BY Zenon, <1>1, <1>2, <1>3, Induction
<1> QED
  BY <1>3, <1>4 DEF S

\* A wheel that stands at zero, with all below it, has passed nothing.
LEMMA PassedZero ==
  ASSUME NEW c \in [Levels -> Nat], NEW m \in Levels,
         \A l \in Levels : l < m => c[l] = 0
  PROVE  \A l \in 1..m : Passed(c)[l] = 0
<1> DEFINE S == {l \in Nat : l \in 1..m => Passed(c)[l] = 0}
<1>1. 1 \in S
  BY PassedDef, Sizes
<1>2. ASSUME NEW l \in 1 + 1..m, l - 1 \in S PROVE l \in S
  <2>1. l \in Levels /\ l - 1 \in Levels /\ l # 1 /\ l - 1 < m /\ l - 1 \in 1..m /\ l \in Nat
    BY Sizes
  <2>2. c[l - 1] = 0 /\ Passed(c)[l - 1] = 0
    BY <1>2, <2>1
  <2>3. Passed(c)[l] = 0 * Param[l - 1] + 0
    BY <2>1, <2>2, PassedDef
  <2>4. 0 * Param[l - 1] + 0 = 0
    BY <2>1, ParamDef
  <2> QED
    BY <2>1, <2>3, <2>4
<1> HIDE DEF S
<1>3. m \in Nat
  BY Sizes
<1>4. \A l \in 1..m : l \in S
  BY SMTT(30), <1>1, <1>2, <1>3, Induction
<1> QED
  BY <1>3, <1>4 DEF S

\* A product of naturals is one.
LEMMA NatProduct == \A a, b \in Nat : a * b \in Nat
OBVIOUS

\* A position that is not full leaves room for a turn of the wheels below.
LEMMA TurnsFit ==
  ASSUME NEW a \in Nat, NEW n \in Nat, NEW p \in Nat, a < n
  PROVE  a * p + p <= n * p
<1>1. PICK d \in Nat : n = a + 1 + d
  OBVIOUS
<1>2. n * p = a * p + p + d * p /\ d * p \in Nat /\ a * p \in Nat
  BY <1>1
<1> QED
  BY <1>2

\* A product grows with its first factor.
LEMMA ProductGrows ==
  ASSUME NEW a \in Nat, NEW n \in Nat, NEW p \in Nat, a <= n
  PROVE  a * p <= n * p
<1>1. PICK d \in Nat : n = a + d
  OBVIOUS
<1>2. n * p = a * p + d * p /\ d * p \in Nat /\ a * p \in Nat
  BY <1>1
<1> QED
  BY <1>2

\* Less than a turn has passed below a wheel if no wheel there is full ...
LEMMA PassedLess ==
  ASSUME NEW c \in [Levels -> Nat], NEW m \in Levels,
         \A l \in Levels : l < m => c[l] < Count[l]
  PROVE  \A l \in 1..m : Passed(c)[l] < Param[l]
<1> DEFINE S == {l \in Nat : l \in 1..m => Passed(c)[l] < Param[l]}
<1>1. 1 \in S
  BY PassedDef, ParamDef, Sizes
<1>2. ASSUME NEW l \in 1 + 1..m, l - 1 \in S PROVE l \in S
  <2>1. l \in Levels /\ l - 1 \in Levels /\ l # 1 /\ l - 1 < m /\ l - 1 \in 1..m /\ l \in Nat
    BY Sizes
  <2>2. /\ Passed(c)[l] = c[l - 1] * Param[l - 1] + Passed(c)[l - 1]
        /\ Param[l] = Count[l - 1] * Param[l - 1]
    BY <2>1, PassedDef, ParamDef
  <2>3. /\ c[l - 1] \in Nat /\ Count[l - 1] \in Nat /\ Param[l - 1] \in Nat
        /\ Passed(c)[l - 1] \in Nat /\ c[l - 1] < Count[l - 1]
        /\ Passed(c)[l - 1] < Param[l - 1]
    <3>1. c[l - 1] \in Nat /\ c[l - 1] < Count[l - 1]
      BY <2>1
    <3>2. Count[l - 1] \in Nat
      BY Zenon, <2>1, Sizes
    <3>3. Param[l - 1] \in Nat
      BY Zenon, <2>1, ParamDef
    <3>4. Passed(c)[l - 1] \in Nat
      BY Zenon, <2>1, PassedDef
    <3>5. Passed(c)[l - 1] < Param[l - 1]
      BY Zenon, <1>2, <2>1
    <3> QED
      BY <3>1, <3>2, <3>3, <3>4, <3>5
  <2>4. c[l - 1] * Param[l - 1] + Param[l - 1] <= Count[l - 1] * Param[l - 1]
    BY <2>3, TurnsFit
  <2>5. c[l - 1] * Param[l - 1] \in Nat /\ Count[l - 1] * Param[l - 1] \in Nat
    BY Zenon, <2>3, NatProduct
  <2>6. Passed(c)[l] < Param[l]
    BY <2>2, <2>3, <2>4, <2>5
  <2> QED
    BY <2>1, <2>6
<1> HIDE DEF S
<1>3. m \in Nat
  BY Sizes
<1>4. \A l \in 1..m : l \in S
  BY <1>1, <1>2, <1>3, Induction
<1> QED
  BY <1>3, <1>4 DEF S

\* ... and no more than one if wheel w is full and those below it are at zero.
LEMMA PassedAtMost ==
  ASSUME NEW c \in [Levels -> Nat], NEW w \in Levels,
         \A l \in Levels : l < w => c[l] = 0,
         c[w] <= Count[w],
         \A l \in Levels : l > w => c[l] < Count[l]
  PROVE  \A l \in Levels : Passed(c)[l] <= Param[l]
<1> DEFINE N == Len(Count)
           S == {l \in Nat : l \in Levels => Passed(c)[l] <= Param[l]}
<1>1. ASSUME NEW l \in 1..w PROVE l \in S
  <2>1. l \in Nat /\ l \in Levels
    BY Sizes
  <2>2. Passed(c)[l] = 0
    BY PassedZero
  <2>3. Param[l] \in Nat
    BY <2>1, ParamDef
  <2> QED
    BY <2>1, <2>2, <2>3
<1>2. ASSUME NEW l \in w + 1..N, l - 1 \in S PROVE l \in S
  <2>1. l \in Levels /\ l - 1 \in Levels /\ l # 1 /\ l \in Nat /\ l - 1 >= w
    BY Sizes
  <2>2. /\ Passed(c)[l] = c[l - 1] * Param[l - 1] + Passed(c)[l - 1]
        /\ Param[l] = Count[l - 1] * Param[l - 1]
    BY <2>1, PassedDef, ParamDef
  <2>3. /\ c[l - 1] \in Nat /\ Count[l - 1] \in Nat /\ Param[l - 1] \in Nat
        /\ Passed(c)[l - 1] \in Nat
        /\ Passed(c)[l - 1] <= Param[l - 1]
    <3>1. c[l - 1] \in Nat
      BY <2>1
    <3>2. Count[l - 1] \in Nat
      BY Zenon, <2>1, Sizes
    <3>3. Param[l - 1] \in Nat
      BY Zenon, <2>1, ParamDef
    <3>4. Passed(c)[l - 1] \in Nat
      BY Zenon, <2>1, PassedDef
    <3>5. Passed(c)[l - 1] <= Param[l - 1]
      BY Zenon, <1>2, <2>1
    <3> QED
      BY <3>1, <3>2, <3>3, <3>4, <3>5
  <2>4. c[l - 1] * Param[l - 1] \in Nat /\ Count[l - 1] * Param[l - 1] \in Nat
    BY Zenon, <2>3, NatProduct
  <2>5. CASE l - 1 = w
    <3>1. Passed(c)[l - 1] = 0
      BY <2>5, PassedZero, Sizes
    <3>2. c[l - 1] * Param[l - 1] <= Count[l - 1] * Param[l - 1]
      BY Zenon, <2>3, <2>5, ProductGrows
    <3> QED
      BY <2>1, <2>2, <2>4, <3>1, <3>2
  <2>6. CASE l - 1 # w
    <3>1. c[l - 1] < Count[l - 1]
      BY <2>1, <2>6, Sizes
    <3>2. c[l - 1] * Param[l - 1] + Param[l - 1] <= Count[l - 1] * Param[l - 1]
      BY Zenon, <2>3, <3>1, TurnsFit
    <3>3. Passed(c)[l] <= Param[l]
      BY <2>2, <2>3, <2>4, <3>2
    <3> QED
      BY <2>1, <3>3
  <2> QED
    BY <2>5, <2>6
<1>3. w \in Nat /\ w \in S /\ N \in Nat
  BY <1>1, Sizes
<1> HIDE DEF S
<1>4. \A l \in w..N : l \in S
  BY Zenon, <1>2, <1>3, Induction
<1>5. \A l \in Levels : l \in 1..w \/ l \in w..N
  BY Sizes
<1> QED
  BY <1>1, <1>4, <1>5, Sizes DEF S

\* A tick of the first wheel adds one to what has passed below every other.
LEMMA PassedTick ==
  ASSUME NEW c \in [Levels -> Nat], NEW d \in [Levels -> Nat],
         d[1] = c[1] + 1, \A l \in Levels : l > 1 => d[l] = c[l]
  PROVE  \A l \in Levels : l > 1 => Passed(d)[l] = Passed(c)[l] + 1
<1> DEFINE N == Len(Count)
           S == {l \in Nat : l \in Levels => Passed(d)[l] = Passed(c)[l] + 1}
<1>1. ASSUME 2 \in Levels PROVE 2 \in S
  <2>1. 2 # 1 /\ 2 - 1 = 1 /\ 1 \in Levels
    BY Sizes
  <2>2. Param[1] = 1 /\ Passed(c)[1] = 0 /\ Passed(d)[1] = 0
    BY Zenon, <2>1, ParamDef, PassedDef
  <2>3. /\ Passed(c)[2] = c[1] * Param[1] + Passed(c)[1]
        /\ Passed(d)[2] = d[1] * Param[1] + Passed(d)[1]
    BY <1>1, <2>1, PassedDef
  <2>4. c[1] \in Nat /\ d[1] \in Nat
    BY <2>1
  <2> QED
    BY <2>2, <2>3, <2>4
<1>2. ASSUME NEW l \in 2 + 1..N, l - 1 \in S PROVE l \in S
  <2>1. l \in Levels /\ l - 1 \in Levels /\ l # 1 /\ l \in Nat /\ l - 1 > 1
    BY Sizes
  <2>2. d[l - 1] = c[l - 1] /\ Passed(d)[l - 1] = Passed(c)[l - 1] + 1
    BY <1>2, <2>1
  <2>3. /\ Passed(c)[l] = c[l - 1] * Param[l - 1] + Passed(c)[l - 1]
        /\ Passed(d)[l] = d[l - 1] * Param[l - 1] + Passed(d)[l - 1]
    BY <2>1, PassedDef
  <2>4. c[l - 1] * Param[l - 1] \in Nat /\ Passed(c)[l - 1] \in Nat
    <3>1. c[l - 1] \in Nat
      BY <2>1
    <3>2. Param[l - 1] \in Nat
      BY Zenon, <2>1, ParamDef
    <3>3. Passed(c)[l - 1] \in Nat
      BY Zenon, <2>1, PassedDef
    <3> QED
      BY Zenon, <3>1, <3>2, <3>3, NatProduct
  <2>5. Passed(d)[l] = Passed(c)[l] + 1
    BY <2>2, <2>3, <2>4
  <2> QED
    BY <2>1, <2>5
<1>3. CASE 2 \in Levels
  <2> HIDE DEF S
  <2>1. 2 \in Nat /\ N \in Nat /\ 2 \in S
    BY <1>1, <1>3, Sizes
  <2>2. \A l \in 2..N : l \in S
    BY Zenon, <1>2, <2>1, Induction
  <2>3. \A l \in Levels : l > 1 => l \in 2..N
    BY Sizes
  <2> QED
    BY <2>2, <2>3 DEF S
<1>4. CASE 2 \notin Levels
  BY <1>4, Sizes
<1> QED
  BY <1>3, <1>4

\* A full turn of wheel w carries over to the next: what has passed below any
\* other wheel stays the same.
LEMMA PassedTurn ==
  ASSUME NEW c \in [Levels -> Nat], NEW d \in [Levels -> Nat],
         NEW w \in Levels, w + 1 \in Levels,
         c[w] = Count[w], d[w] = 0, d[w + 1] = c[w + 1] + 1,
         \A l \in Levels \ {w, w + 1} : d[l] = c[l]
  PROVE  /\ \A l \in Levels : l # w + 1 => Passed(d)[l] = Passed(c)[l]
         /\ Passed(c)[w + 1] = Passed(d)[w + 1] + Param[w + 1]
<1> DEFINE N == Len(Count)
           S == {l \in Nat : l \in Levels => Passed(d)[l] = Passed(c)[l]}
<1>1. \A l \in 1..w : Passed(d)[l] = Passed(c)[l]
  <2>1. \A l \in Levels : l < w => d[l] = c[l]
    BY Sizes
  <2> QED
    BY <2>1, PassedSame
<1>2. w \in Nat /\ N \in Nat /\ w + 1 # 1 /\ (w + 1) - 1 = w /\ w \in 1..w
  BY Sizes
<1>3. /\ Count[w] \in Nat /\ Param[w] \in Nat /\ Passed(c)[w] \in Nat
      /\ Count[w] * Param[w] \in Nat /\ Passed(d)[w] = Passed(c)[w]
  <2>1. Count[w] \in Nat /\ Param[w] \in Nat
    BY Zenon, ParamDef, Sizes
  <2>2. Passed(c)[w] \in Nat
    BY PassedDef
  <2>3. Passed(d)[w] = Passed(c)[w]
    BY <1>1, <1>2
  <2>4. Count[w] * Param[w] \in Nat
    BY <2>1
  <2> QED
    BY <2>1, <2>2, <2>3, <2>4
<1>4. /\ Passed(c)[w + 1] = c[w] * Param[w] + Passed(c)[w]
      /\ Passed(d)[w + 1] = d[w] * Param[w] + Passed(d)[w]
      /\ Param[w + 1] = Count[w] * Param[w]
  <2>1. \A l \in Levels : l # 1 => Passed(c)[l] = c[l - 1] * Param[l - 1] + Passed(c)[l - 1]
    BY PassedDef
  <2>2. \A l \in Levels : l # 1 => Passed(d)[l] = d[l - 1] * Param[l - 1] + Passed(d)[l - 1]
    BY PassedDef
  <2>3. \A l \in Levels : l # 1 => Param[l] = Count[l - 1] * Param[l - 1]
    BY ParamDef
  <2> QED
    BY <1>2, <2>1, <2>2, <2>3
<1>5. 0 * Param[w] = 0
  BY <1>3
<1>6. Passed(c)[w + 1] = Passed(d)[w + 1] + Param[w + 1]
  BY <1>3, <1>4, <1>5
<1>7. ASSUME w + 2 \in Levels PROVE w + 2 \in S
  <2>1. w + 2 # 1 /\ (w + 2) - 1 = w + 1 /\ w + 2 \in Nat
    BY <1>2
  <2>2. /\ Passed(c)[w + 2] = c[w + 1] * Param[w + 1] + Passed(c)[w + 1]
        /\ Passed(d)[w + 2] = d[w + 1] * Param[w + 1] + Passed(d)[w + 1]
    BY <1>7, <2>1, PassedDef
  <2>3. /\ c[w + 1] \in Nat /\ Param[w + 1] \in Nat /\ Passed(d)[w + 1] \in Nat
    BY PassedDef, ParamDef
  <2>4. \A a, b \in Nat : (a + 1) * b = a * b + b /\ a * b \in Nat
    OBVIOUS
  <2>5. d[w + 1] * Param[w + 1] = c[w + 1] * Param[w + 1] + Param[w + 1]
        /\ c[w + 1] * Param[w + 1] \in Nat
    BY <2>3, <2>4
  <2>6. Passed(d)[w + 2] = Passed(c)[w + 2]
    BY <1>6, <2>2, <2>3, <2>5
  <2> QED
    BY <2>1, <2>6
<1>8. ASSUME NEW l \in w + 2 + 1..N, l - 1 \in S PROVE l \in S
  <2>1. l \in Levels /\ l - 1 \in Levels \ {w, w + 1} /\ l # 1 /\ l \in Nat
    BY Sizes
  <2>2. d[l - 1] = c[l - 1] /\ Passed(d)[l - 1] = Passed(c)[l - 1]
    BY <1>8, <2>1
  <2>3. /\ Passed(c)[l] = c[l - 1] * Param[l - 1] + Passed(c)[l - 1]
        /\ Passed(d)[l] = d[l - 1] * Param[l - 1] + Passed(d)[l - 1]
    BY <2>1, PassedDef
  <2> QED
    BY <2>1, <2>2, <2>3
<1>9. \A l \in w + 2..N : Passed(d)[l] = Passed(c)[l]
  <2>1. CASE w + 2 \in Levels
    <3> HIDE DEF S
    <3>1. w + 2 \in Nat /\ w + 2 \in S
      BY <1>2, <1>7, <2>1
    <3>2. \A l \in w + 2..N : l \in S
      BY Zenon, <1>2, <1>8, <3>1, Induction
    <3>3. \A l \in w + 2..N : l \in Levels
      BY Sizes
    <3> QED
      BY <3>2, <3>3 DEF S
  <2>2. CASE w + 2 \notin Levels
    BY <1>2, <2>2, Sizes
  <2> QED
    BY <2>1, <2>2
<1>10. \A l \in Levels : l # w + 1 => l \in 1..w \/ l \in w + 2..N
  BY Sizes
<1> QED
  BY <1>1, <1>6, <1>9, <1>10

-----------------------------------------------------------------------------
(* Where a timer goes.                                                     *)

\* Division with remainder.
LEMMA Division ==
  ASSUME NEW t \in Nat, NEW p \in Nat \ {0}
  PROVE  t \div p \in Nat /\ (t \div p) * p <= t /\ t < (t \div p) * p + p
OBVIOUS

\* The remainder of a number below twice the divisor.
LEMMA Remainder ==
  ASSUME NEW a \in Nat, NEW n \in Nat \ {0}, a < 2 * n
  PROVE  a % n = IF a < n THEN a ELSE a - n
OBVIOUS

\* The wheel for a delay is the first whose range it does not exceed.
LEMMA WheelForFits ==
  ASSUME NEW t \in Nat \ {0}, NEW top \in Levels, t <= getRange(top)
  PROVE  /\ WheelFor(t) \in Levels
         /\ t <= Count[WheelFor(t)] * Param[WheelFor(t)]
         /\ WheelFor(t) > 1 => t > Param[WheelFor(t)] /\ Count[WheelFor(t)] > 1
<1> DEFINE T == {l \in Levels : t <= getRange(l)}
<1>1. T \subseteq Nat /\ T # {}
  BY Sizes
<1>2. PICK l \in T : \A m \in T : l <= m
  BY Zenon, <1>1, LeastNat
<1>3. Min(T) = CHOOSE x \in T : \A y \in T : x <= y
  BY DEF Min
<1>4. Min(T) \in T /\ \A m \in T : Min(T) <= m
  BY <1>2, <1>3
<1>5. WheelFor(t) \in T /\ \A m \in T : WheelFor(t) <= m
  BY <1>4 DEF WheelFor
<1> DEFINE w == WheelFor(t)
<1> HIDE DEF w
<1>6. w \in Levels /\ t <= Count[w] * Param[w] /\ w \in Nat
  BY <1>5, Sizes DEF getRange, w
<1>7. ASSUME w > 1 PROVE t > Param[w] /\ Count[w] > 1
  <2>1. w - 1 \in Levels /\ ~(w <= w - 1) /\ w # 1
    BY <1>6, <1>7, Sizes
  <2>2. w - 1 \notin T
    BY <1>5, <2>1 DEF w
  <2>3. ~(t <= Count[w - 1] * Param[w - 1])
    BY <2>1, <2>2 DEF getRange
  <2>4. Param[w] = Count[w - 1] * Param[w - 1] /\ Param[w] \in Nat \ {0}
    BY <1>6, <2>1, ParamDef
  <2>5. t > Param[w]
    BY <2>3, <2>4
  <2>6. Count[w] \in Nat \ {0}
    BY <1>6, Sizes
  <2>7. Count[w] # 1
    BY <1>6, <2>4, <2>5
  <2> QED
    BY <2>5, <2>6, <2>7
<1> QED
  BY <1>6, <1>7 DEF w

\* The slot that lies q slots ahead of the current one.
LEMMA SlotAhead ==
  ASSUME NEW n \in Nat \ {0}, NEW c \in 0..n, NEW q \in 1..n
  PROVE  LET s == ((q + c - 1) % n) + 1
         IN  /\ s \in 1..n
             /\ q = IF s > c THEN s - c ELSE n - (c - s)
             /\ s = c => q = n
<1> DEFINE a == q + c - 1
<1>1. a \in Nat /\ a < 2 * n
  OBVIOUS
<1>2. a % n = IF a < n THEN a ELSE a - n
  BY Zenon, <1>1, Remainder
<1> HIDE DEF a
<1>3. a = q + c - 1
  BY DEF a
<1>4. CASE a < n
  BY <1>2, <1>3, <1>4
<1>5. CASE ~(a < n)
  BY <1>1, <1>2, <1>3, <1>5
<1> QED
  BY <1>4, <1>5

\* No wheel has passed its last slot, and what has passed below a wheel is no
\* more than a turn.
Positions ==
    /\ cur \in [Levels -> Nat]
    /\ \A l \in Levels : cur[l] <= Count[l]
    /\ \A l \in Levels : Below[l] \in Nat /\ Below[l] <= Param[l]
    /\ Below[1] = 0

\* Add finds a slot that is worked off when the delay is over, or before that,
\* by less than two of the wheel's units; it is the current slot only if the
\* delay is the wheel's whole range.
LEMMA AddFits ==
  ASSUME Positions, NEW t \in Nat \ {0}, NEW top \in Levels, t <= getRange(top)
  PROVE  LET l == WheelFor(t)
             s == SlotFor(l, t)
         IN  /\ l \in Levels /\ s \in 1..Count[l]
             /\ getCompTime(l, s) \in Nat
             /\ l = 1 => getCompTime(l, s) = t
             /\ l > 1 => Count[l] > 1 /\ t - getCompTime(l, s) \in 0..2 * Param[l] - 1
             /\ s = cur[l] => t = getRange(l)
<1> DEFINE l == WheelFor(t)
           s == SlotFor(l, t)
           q == t \div Param[l]
<1>1. /\ l \in Levels /\ t <= Count[l] * Param[l]
      /\ l > 1 => t > Param[l] /\ Count[l] > 1
  BY WheelForFits
<1> HIDE DEF l
<1> HIDE DEF s, q
<1>2. /\ Count[l] \in Nat \ {0} /\ Param[l] \in Nat \ {0} /\ cur[l] \in 0..Count[l]
      /\ Below[l] \in Nat /\ Below[l] <= Param[l] /\ l \in Nat
  <2>1. Param[l] \in Nat \ {0}
    BY <1>1, ParamDef
  <2>2. Count[l] \in Nat \ {0} /\ l \in Nat
    BY <1>1, Sizes
  <2>3. cur[l] \in Nat /\ cur[l] <= Count[l]
    BY <1>1 DEF Positions
  <2>4. Below[l] \in Nat /\ Below[l] <= Param[l]
    BY <1>1 DEF Positions
  <2> QED
    BY <2>1, <2>2, <2>3, <2>4
<1>3. q \in Nat /\ q * Param[l] <= t /\ t < q * Param[l] + Param[l] /\ q * Param[l] \in Nat
  <2>1. q \in Nat /\ q * Param[l] <= t /\ t < q * Param[l] + Param[l]
    BY <1>2, Division DEF q
  <2> QED
    BY <1>2, <2>1
<1>4. l = 1 => Param[l] = 1
  BY <1>1, ParamDef
<1>5. q >= 1
  <2>1. CASE l = 1
    BY <1>3, <1>4, <2>1
  <2>2. CASE l > 1
    BY <1>1, <1>2, <1>3, <2>2
  <2> QED
    BY <1>1, <2>1, <2>2, Sizes
<1>6. q <= Count[l]
  <2>1. \A a, b \in Nat : \A p \in Nat \ {0} : a * p <= b * p => a <= b
    OBVIOUS
  <2>2. q * Param[l] <= Count[l] * Param[l] /\ Count[l] * Param[l] \in Nat
    BY <1>1, <1>2, <1>3
  <2> QED
    BY <1>2, <1>3, <2>1, <2>2
<1>7. q \in 1..Count[l]
  BY <1>2, <1>3, <1>5, <1>6
<1>8. s = ((q + cur[l] - 1) % Count[l]) + 1
  BY DEF SlotFor, q, s
<1>9. s \in 1..Count[l] /\ getCurCompTime(l, s) = q /\ (s = cur[l] => q = Count[l])
  <2>1. /\ s \in 1..Count[l]
        /\ q = IF s > cur[l] THEN s - cur[l] ELSE Count[l] - (cur[l] - s)
        /\ s = cur[l] => q = Count[l]
    BY Zenon, <1>2, <1>7, <1>8, SlotAhead
  <2> QED
    BY <2>1 DEF getCurCompTime
<1>10. getCompTime(l, s) = q * Param[l] - Below[l]
  BY <1>9 DEF getCompTime
<1>11. getCompTime(l, s) \in Nat
  <2>1. Param[l] <= q * Param[l]
    BY <1>2, <1>3, <1>5
  <2> QED
    BY <1>2, <1>3, <1>10, <2>1
<1>12. l = 1 => getCompTime(l, s) = t
  BY <1>3, <1>4, <1>10 DEF Positions
<1>13. t - getCompTime(l, s) \in 0..2 * Param[l] - 1
  <2> DEFINE m == q * Param[l]
             g == getCompTime(l, s)
  <2>1. m \in Nat /\ m <= t /\ t < m + Param[l] /\ g = m - Below[l] /\ g \in Nat
    BY <1>3, <1>10, <1>11
  <2> HIDE DEF m, g
  <2>2. \A b, p \in Nat : b <= p /\ g = m - b /\ t < m + p => t - g \in 0..2 * p - 1
    BY <2>1
  <2>3. t - g \in 0..2 * Param[l] - 1
    BY <1>2, <2>1, <2>2
  <2> QED
    BY <2>3 DEF g
<1>14. s = cur[l] => t = getRange(l)
  <2>1. ASSUME s = cur[l] PROVE t = getRange(l)
    BY <1>1, <1>2, <1>3, <1>9, <2>1 DEF getRange
  <2> QED
    BY <2>1
<1> QED
  BY <1>1, <1>9, <1>11, <1>12, <1>13, <1>14 DEF l, s

-----------------------------------------------------------------------------
(* The clock: how far off a slot is, as the wheels move.                   *)

\* getCurCompTime and getCompTime for the positions c of the wheels, and the tick
\* at which slot s of wheel l is worked off when it is tick t and onTime is at
\* wheel w: now, if it is the slot onTime is at.
Ahead(c, l, s) == IF s > c[l] THEN s - c[l] ELSE Count[l] - (c[l] - s)

CompTime(c, l, s) == Ahead(c, l, s) * Param[l] - Passed(c)[l]

When(t, c, w, l, s) == IF l = w /\ s = c[l] THEN t ELSE t + CompTime(c, l, s)

\* Only the wheel that onTime is at may be full, and those below it are at zero.
Regular(c, w) ==
    /\ c \in [Levels -> Nat]
    /\ w \in {0} \cup Levels
    /\ \A l \in Levels : l # w => c[l] < Count[l]
    /\ \A l \in Levels : l < w => c[l] = 0
    /\ w # 0 => c[w] > 0 /\ c[w] <= Count[w]

\* What has passed below a wheel is no more than a turn, and less between two
\* ticks.
LEMMA RegularPassed ==
  ASSUME NEW c, NEW w, Regular(c, w)
  PROVE  /\ \A l \in Levels : c[l] <= Count[l]
         /\ \A l \in Levels : Passed(c)[l] \in Nat /\ Passed(c)[l] <= Param[l]
         /\ Passed(c)[1] = 0
         /\ w = 0 => \A l \in Levels : Passed(c)[l] < Param[l]
<1>1. c \in [Levels -> Nat]
  BY DEF Regular
<1>2. \A l \in Levels : c[l] <= Count[l]
  BY <1>1, Sizes DEF Regular
<1>3. \A l \in Levels : Passed(c)[l] \in Nat
  BY <1>1, PassedDef
<1>4. Passed(c)[1] = 0
  BY <1>1, PassedDef, Sizes
<1>5. ASSUME w = 0 PROVE \A l \in Levels : Passed(c)[l] < Param[l]
  <2>1. \A l \in Levels : c[l] < Count[l]
    BY <1>5, Sizes DEF Regular
  <2>2. Len(Count) \in Levels /\ Levels = 1..Len(Count)
    BY Sizes
  <2>3. \A l \in 1..Len(Count) : Passed(c)[l] < Param[l]
    BY <1>1, <2>1, <2>2, PassedLess
  <2> QED
    BY <2>2, <2>3
<1>6. ASSUME w # 0 PROVE \A l \in Levels : Passed(c)[l] <= Param[l]
  <2>1. w \in Levels /\ c[w] <= Count[w]
    BY <1>6 DEF Regular
  <2>2. \A l \in Levels : l < w => c[l] = 0
    BY DEF Regular
  <2>3. \A l \in Levels : l > w => c[l] < Count[l]
    BY <2>1, Sizes DEF Regular
  <2> QED
    BY <1>1, <2>1, <2>2, <2>3, PassedAtMost
<1>7. ASSUME w = 0 PROVE \A l \in Levels : Passed(c)[l] <= Param[l]
  BY <1>3, <1>5, <1>7, ParamDef
<1> QED
  BY <1>2, <1>3, <1>4, <1>5, <1>6, <1>7

\* A slot lies one to Count slots ahead.
LEMMA AheadBounds ==
  ASSUME NEW c, NEW w, Regular(c, w), NEW l \in Levels, NEW s \in 1..Count[l]
  PROVE  Ahead(c, l, s) \in 1..Count[l]
<1>1. c[l] \in Nat /\ c[l] <= Count[l] /\ Count[l] \in Nat \ {0}
  BY RegularPassed, Sizes DEF Regular
<1> QED
  BY <1>1 DEF Ahead

\* Between two ticks every slot is still to come.
LEMMA WhenIdle ==
  ASSUME NEW c, Regular(c, 0), NEW t \in Nat, NEW l \in Levels, NEW s \in 1..Count[l]
  PROVE  When(t, c, 0, l, s) \in Nat /\ When(t, c, 0, l, s) > t
<1> DEFINE a == Ahead(c, l, s)
           p == Param[l]
           b == Passed(c)[l]
<1>1. a \in Nat \ {0}
  BY AheadBounds, Sizes
<1>2. p \in Nat \ {0} /\ b \in Nat /\ b < p
  BY RegularPassed, ParamDef
<1>3. When(t, c, 0, l, s) = t + (a * p - b)
  BY Sizes DEF When, CompTime
<1> HIDE DEF a, p, b
<1>4. a * p \in Nat /\ p <= a * p
  BY <1>1, <1>2
<1> QED
  BY <1>2, <1>3, <1>4

\* The product that says how far off a slot is.
LEMMA CompTimeInt ==
  ASSUME NEW c, NEW w, Regular(c, w), NEW l \in Levels, NEW s \in 1..Count[l]
  PROVE  Ahead(c, l, s) * Param[l] \in Nat /\ CompTime(c, l, s) \in Int
<1>1. Ahead(c, l, s) \in Nat
  BY AheadBounds, Sizes
<1>2. Param[l] \in Nat /\ Passed(c)[l] \in Nat
  BY RegularPassed, ParamDef
<1>3. Ahead(c, l, s) * Param[l] \in Nat
  BY <1>1, <1>2
<1> QED
  BY <1>2, <1>3 DEF CompTime

\* A tick brings every slot as much nearer as the clock moves on.
LEMMA WhenTick ==
  ASSUME NEW c, Regular(c, 0), NEW t \in Nat,
         NEW d \in [Levels -> Nat], d[1] = c[1] + 1, \A l \in Levels : l > 1 => d[l] = c[l]
  PROVE  /\ Regular(d, 1)
         /\ \A l \in Levels : \A s \in 1..Count[l] :
               When(t + 1, d, 1, l, s) = When(t, c, 0, l, s)
<1>1. c \in [Levels -> Nat] /\ \A l \in Levels : c[l] < Count[l]
  BY Sizes DEF Regular
<1>2. d \in [Levels -> Nat] /\ d[1] = c[1] + 1 /\ \A l \in Levels : l # 1 => d[l] = c[l]
  BY Sizes
<1>3. Regular(d, 1)
  <2>1. 1 \in {0} \cup Levels /\ \A l \in Levels : ~(l < 1)
    BY Sizes
  <2>2. d[1] > 0 /\ d[1] <= Count[1]
    BY <1>1, <1>2, Sizes
  <2>3. \A l \in Levels : l # 1 => d[l] < Count[l]
    BY <1>1, <1>2
  <2> QED
    BY <1>2, <2>1, <2>2, <2>3 DEF Regular
<1>4. ASSUME NEW s \in 1..Count[1]
      PROVE  When(t + 1, d, 1, 1, s) = When(t, c, 0, 1, s)
  <2>1. Param[1] = 1 /\ Passed(c)[1] = 0 /\ Passed(d)[1] = 0 /\ 1 \in Levels
    BY <1>1, <1>2, ParamDef, PassedDef, Sizes
  <2>2. Ahead(c, 1, s) \in Nat /\ Ahead(d, 1, s) \in Nat
    <3>1. Ahead(c, 1, s) \in 1..Count[1]
      BY <2>1, AheadBounds
    <3>2. Ahead(d, 1, s) \in 1..Count[1]
      BY <1>3, <2>1, AheadBounds
    <3> QED
      BY <3>1, <3>2
  <2>3. CompTime(c, 1, s) = Ahead(c, 1, s) /\ CompTime(d, 1, s) = Ahead(d, 1, s)
    BY <2>1, <2>2 DEF CompTime
  <2>4. c[1] \in Nat /\ Count[1] \in Nat /\ s \in Nat /\ s <= Count[1]
    BY <1>1, <2>1, Sizes
  <2>5. CASE s = d[1]
    <3>1. Ahead(c, 1, s) = 1
      BY <1>2, <2>4, <2>5 DEF Ahead
    <3> QED
      BY <2>3, <2>5, <3>1 DEF When
  <2>6. CASE s # d[1]
    <3>1. Ahead(d, 1, s) = Ahead(c, 1, s) - 1
      BY <1>2, <2>4, <2>6 DEF Ahead
    <3>2. When(t + 1, d, 1, 1, s) = t + 1 + Ahead(d, 1, s)
      BY <2>3, <2>6 DEF When
    <3>3. When(t, c, 0, 1, s) = t + Ahead(c, 1, s)
      BY <2>3 DEF When
    <3> QED
      BY <2>2, <3>1, <3>2, <3>3
  <2> QED
    BY <2>5, <2>6
<1>5. ASSUME NEW l \in Levels, l # 1, NEW s \in 1..Count[l]
      PROVE  When(t + 1, d, 1, l, s) = When(t, c, 0, l, s)
  <2>1. l > 1 /\ l # 0 /\ \A m \in Levels : m > 1 => d[m] = c[m]
    BY <1>2, <1>5, Sizes
  <2>2. Passed(d)[l] = Passed(c)[l] + 1
    BY <1>1, <2>1, PassedTick
  <2>3. Ahead(d, l, s) = Ahead(c, l, s)
    BY <1>2, <1>5 DEF Ahead
  <2>4. Ahead(c, l, s) * Param[l] \in Nat /\ Passed(c)[l] \in Nat
    BY CompTimeInt, RegularPassed
  <2>5. When(t + 1, d, 1, l, s) = t + 1 + (Ahead(c, l, s) * Param[l] - (Passed(c)[l] + 1))
    BY <1>5, <2>2, <2>3 DEF When, CompTime
  <2>6. When(t, c, 0, l, s) = t + (Ahead(c, l, s) * Param[l] - Passed(c)[l])
    BY <2>1 DEF When, CompTime
  <2> DEFINE m == Ahead(c, l, s) * Param[l]
  <2> HIDE DEF m
  <2>7. t + 1 + (m - (Passed(c)[l] + 1)) = t + (m - Passed(c)[l])
    BY <2>4 DEF m
  <2> QED
    BY <2>5, <2>6, <2>7 DEF m
<1> QED
  BY <1>3, <1>4, <1>5

\* A full wheel starts again: its slots are as far off as before, but the last
\* one, which has been worked off.
LEMMA AheadRestart ==
  ASSUME NEW c, NEW d, NEW w \in Levels, c[w] = Count[w], d[w] = 0,
         NEW s \in 1..Count[w], s # Count[w]
  PROVE  Ahead(d, w, s) = Ahead(c, w, s)
<1>1. Count[w] \in Nat \ {0}
  BY Sizes
<1> QED
  BY <1>1 DEF Ahead

\* The move to the next wheel: the slot that it arrives at is due now, and every
\* other slot, but the one just worked off, is as far off as before.
LEMMA WhenTurn ==
  ASSUME NEW c, NEW w \in Levels, w + 1 \in Levels, Regular(c, w), c[w] = Count[w],
         NEW d \in [Levels -> Nat], d[w] = 0, d[w + 1] = c[w + 1] + 1,
         \A l \in Levels \ {w, w + 1} : d[l] = c[l], NEW t \in Nat
  PROVE  /\ Regular(d, w + 1)
         /\ \A l \in Levels : \A s \in 1..Count[l] : ~(l = w /\ s = c[w]) =>
               When(t, d, w + 1, l, s) = When(t, c, w, l, s)
<1>1. c \in [Levels -> Nat] /\ w \in Nat /\ w # w + 1
  BY Sizes DEF Regular
<1>2. /\ d \in [Levels -> Nat] /\ d[w] = 0 /\ d[w + 1] = c[w + 1] + 1
      /\ \A l \in Levels \ {w, w + 1} : d[l] = c[l]
  OBVIOUS
<1>3. \A l \in Levels : l # w => c[l] < Count[l]
  BY DEF Regular
<1>4. Regular(d, w + 1)
  <2>1. \A l \in Levels : l # w + 1 => d[l] < Count[l]
    <3>1. d[w] < Count[w]
      BY <1>2, Sizes
    <3> QED
      BY <1>2, <1>3, <3>1
  <2>2. \A l \in Levels : l < w + 1 => d[l] = 0
    <3>1. \A l \in Levels : l < w + 1 => l < w \/ l = w
      BY <1>1, Sizes
    <3>2. \A l \in Levels : l < w => c[l] = 0 /\ l \notin {w, w + 1}
      BY <1>1, Sizes DEF Regular
    <3> QED
      BY <1>2, <3>1, <3>2
  <2>3. c[w + 1] \in Nat /\ c[w + 1] < Count[w + 1] /\ Count[w + 1] \in Nat
    BY <1>1, <1>3, Sizes
  <2>4. d[w + 1] > 0 /\ d[w + 1] <= Count[w + 1]
    BY <1>2, <2>3
  <2> QED
    BY <1>2, <2>1, <2>2, <2>4 DEF Regular
<1>5. /\ \A l \in Levels : l # w + 1 => Passed(d)[l] = Passed(c)[l]
      /\ Passed(c)[w + 1] = Passed(d)[w + 1] + Param[w + 1]
  BY <1>1, PassedTurn
<1>6. ASSUME NEW l \in Levels, NEW s \in 1..Count[l], l # w, l # w + 1
      PROVE  When(t, d, w + 1, l, s) = When(t, c, w, l, s)
  <2>1. Ahead(d, l, s) = Ahead(c, l, s)
    BY <1>2, <1>6 DEF Ahead
  <2> QED
    BY <1>5, <1>6, <2>1 DEF When, CompTime
<1>7. ASSUME NEW s \in 1..Count[w], s # c[w]
      PROVE  When(t, d, w + 1, w, s) = When(t, c, w, w, s)
  <2>1. Ahead(d, w, s) = Ahead(c, w, s)
    BY <1>7, AheadRestart
  <2> QED
    BY <1>1, <1>5, <1>7, <2>1 DEF When, CompTime
<1>8. ASSUME NEW s \in 1..Count[w + 1]
      PROVE  When(t, d, w + 1, w + 1, s) = When(t, c, w, w + 1, s)
  <2> DEFINE u == w + 1
             b == Passed(d)[u]
             p == Param[u]
             a == Ahead(c, u, s)
  <2>1. When(t, c, w, u, s) = t + (a * p - Passed(c)[u])
    BY <1>1 DEF When, CompTime
  <2>2. p \in Nat /\ b \in Nat /\ Passed(c)[u] = b + p
    BY <1>4, <1>5, RegularPassed, ParamDef
  <2>3. a \in Nat \ {0}
    BY AheadBounds, Sizes
  <2>4. c[u] \in Nat /\ Count[u] \in Nat /\ s \in Nat /\ s <= Count[u] /\ d[u] = c[u] + 1
    <3>1. c[u] \in Nat /\ d[u] = c[u] + 1
      BY <1>1, <1>2
    <3>2. Count[u] \in Nat
      BY Zenon, Sizes
    <3> QED
      BY <3>1, <3>2
  <2> HIDE DEF b, p, a
  <2>5. CASE s = d[u]
    <3>1. a = 1
      BY <2>4, <2>5 DEF Ahead, a
    <3>2. b = 0
      <4>1. \A l \in Levels : l < u => d[l] = 0
        BY <1>4 DEF Regular
      <4>2. u \in Nat /\ u \in 1..u
        BY <1>1
      <4> QED
        BY <1>2, <4>1, <4>2, PassedZero DEF b
    <3>3. When(t, c, w, u, s) = t
      BY <2>1, <2>2, <3>1, <3>2
    <3> QED
      BY <2>5, <3>3 DEF When
  <2>6. CASE s # d[u]
    <3>1. Ahead(d, u, s) = a - 1
      BY <2>4, <2>6 DEF Ahead, a
    <3>2. When(t, d, u, u, s) = t + ((a - 1) * p - b)
      BY <2>6, <3>1 DEF When, CompTime, p, b
    <3>3. (a - 1) * p = a * p - p /\ a * p \in Nat
      BY <2>2, <2>3
    <3>4. t + (a * p - p - b) = t + (a * p - (b + p))
      BY <2>2, <3>3
    <3> QED
      BY <2>1, <2>2, <3>2, <3>3, <3>4
  <2> QED
    BY <2>5, <2>6
<1> QED
  BY <1>4, <1>6, <1>7, <1>8

\* The end of onTime: every slot but the one just worked off is as far off as
\* before.
LEMMA WhenDone ==
  ASSUME NEW c, NEW w \in Levels, Regular(c, w), c[w] # Count[w] \/ w = Len(Count),
         NEW d \in [Levels -> Nat], d[w] = IF c[w] = Count[w] THEN 0 ELSE c[w],
         \A l \in Levels : l # w => d[l] = c[l], NEW t \in Nat
  PROVE  /\ Regular(d, 0)
         /\ \A l \in Levels : \A s \in 1..Count[l] : ~(l = w /\ s = c[w]) =>
               When(t, d, 0, l, s) = When(t, c, w, l, s)
<1>1. c \in [Levels -> Nat] /\ w \in Nat \ {0} /\ Count[w] \in Nat \ {0}
  BY Sizes DEF Regular
<1>2. c[w] \in Nat /\ c[w] <= Count[w] /\ \A l \in Levels : l # w => c[l] < Count[l]
  BY <1>1 DEF Regular
<1>3. /\ d \in [Levels -> Nat] /\ d[w] = (IF c[w] = Count[w] THEN 0 ELSE c[w])
      /\ \A l \in Levels : l # w => d[l] = c[l]
  OBVIOUS
<1>4. Regular(d, 0)
  <2>1. d[w] < Count[w]
    BY <1>1, <1>2, <1>3
  <2>2. \A l \in Levels : d[l] < Count[l] /\ ~(l < 0)
    BY <1>2, <1>3, <2>1, Sizes
  <2> QED
    BY <1>3, <2>2 DEF Regular
<1>5. ASSUME NEW l \in Levels PROVE Passed(d)[l] = Passed(c)[l]
  <2>1. \A m \in Levels : m < l => d[m] = c[m]
    <3>1. CASE c[w] = Count[w]
      <4>1. \A m \in Levels : m < l => m # w
        BY <3>1, Sizes
      <4> QED
        BY <1>3, <4>1
    <3>2. CASE c[w] # Count[w]
      BY <1>3, <3>2
    <3> QED
      BY <3>1, <3>2
  <2>2. l \in Nat /\ l \in 1..l
    BY Sizes
  <2> QED
    BY <1>1, <2>1, <2>2, PassedSame
<1>6. ASSUME NEW l \in Levels, NEW s \in 1..Count[l], ~(l = w /\ s = c[w])
      PROVE  When(t, d, 0, l, s) = When(t, c, w, l, s)
  <2>1. Ahead(d, l, s) = Ahead(c, l, s)
    <3>1. CASE l = w /\ c[w] = Count[w]
      <4>1. d[w] = 0 /\ s \in 1..Count[w] /\ s # Count[w] /\ c[w] = Count[w]
        BY <1>3, <1>6, <3>1
      <4>2. Ahead(d, w, s) = Ahead(c, w, s)
        BY Zenon, <4>1, AheadRestart
      <4> QED
        BY <3>1, <4>2
    <3>2. CASE ~(l = w /\ c[w] = Count[w])
      <4>1. d[l] = c[l]
        BY <1>3, <3>2
      <4> QED
        BY <4>1 DEF Ahead
    <3> QED
      BY <3>1, <3>2
  <2>2. l # 0 /\ ~(l = w /\ s = c[l])
    BY <1>6, Sizes
  <2> QED
    BY <1>5, <2>1, <2>2 DEF When, CompTime
<1> QED
  BY <1>4, <1>6

-----------------------------------------------------------------------------
(* Slots and the positions in them.                                        *)

Slots(f) ==
    DOMAIN f = Levels /\ \A l \in Levels : f[l] \in [1..Count[l] -> Seq(Timers)]

\* A change of one slot leaves the others alone.
LEMMA OneSlot ==
  ASSUME NEW f, Slots(f), NEW l \in Levels, NEW s \in 1..Count[l], NEW e \in Seq(Timers)
  PROVE  LET g == [f EXCEPT ![l][s] = e]
         IN  /\ Slots(g)
             /\ g[l][s] = e
             /\ \A m \in Levels : \A k \in 1..Count[m] :
                   ~(m = l /\ k = s) => g[m][k] = f[m][k]
<1> DEFINE g == [f EXCEPT ![l][s] = e]
<1>1. DOMAIN g = Levels /\ \A m \in Levels : m # l => g[m] = f[m]
  BY DEF Slots
<1>2. g[l] = [f[l] EXCEPT ![s] = e]
  BY DEF Slots
<1>3. f[l] \in [1..Count[l] -> Seq(Timers)]
  BY DEF Slots
<1> HIDE DEF g
<1>4. g[l] \in [1..Count[l] -> Seq(Timers)] /\ g[l][s] = e
      /\ \A k \in 1..Count[l] : k # s => g[l][k] = f[l][k]
  BY Zenon, <1>2, <1>3
<1>5. Slots(g)
  BY <1>1, <1>4 DEF Slots
<1> QED
  BY Zenon, <1>1, <1>4, <1>5 DEF g

\* table.remove closes the gap.
LEMMA RemoveCloses ==
  ASSUME NEW q \in Seq(Timers), NEW i \in 1..Len(q)
  PROVE  /\ Without(q, i) \in Seq(Timers)
         /\ Len(Without(q, i)) = Len(q) - 1
         /\ \A j \in 1..Len(q) - 1 : Without(q, i)[j] = IF j < i THEN q[j] ELSE q[j + 1]
<1> DEFINE a == SubSeq(q, 1, i - 1)
           b == SubSeq(q, i + 1, Len(q))
<1>1. a \in Seq(Timers) /\ Len(a) = i - 1 /\ \A j \in 1..i - 1 : a[j] = q[j]
  OBVIOUS
<1>2. b \in Seq(Timers) /\ Len(b) = Len(q) - i /\ \A j \in 1..Len(q) - i : b[j] = q[i + j]
  OBVIOUS
<1> HIDE DEF a, b
<1>3. Without(q, i) = a \o b
  <2>1. i \in DOMAIN q
    OBVIOUS
  <2> QED
    BY Zenon, <2>1 DEF Without, a, b
<1>4. /\ a \o b \in Seq(Timers) /\ Len(a \o b) = Len(q) - 1
      /\ \A j \in 1..Len(q) - 1 : (a \o b)[j] = IF j <= i - 1 THEN a[j] ELSE b[j - (i - 1)]
  <2>0. a \in Seq(Timers) /\ b \in Seq(Timers)
    BY <1>1, <1>2
  <2>1. a \o b \in Seq(Timers) /\ Len(a \o b) = Len(a) + Len(b)
    BY <2>0
  <2>2. Len(a) + Len(b) = Len(q) - 1
    BY <1>1, <1>2
  <2>3. \A j \in 1..Len(a) + Len(b) :
          (a \o b)[j] = IF j <= Len(a) THEN a[j] ELSE b[j - Len(a)]
    BY <2>0
  <2> QED
    BY <1>1, <2>1, <2>2, <2>3
<1>5. ASSUME NEW j \in 1..Len(q) - 1
      PROVE  (a \o b)[j] = IF j < i THEN q[j] ELSE q[j + 1]
  <2>1. CASE j < i
    BY <1>1, <1>4, <2>1
  <2>2. CASE ~(j < i)
    <3>1. j - (i - 1) \in 1..Len(q) - i /\ i + (j - (i - 1)) = j + 1
      BY <2>2
    <3>2. (a \o b)[j] = b[j - (i - 1)]
      BY <1>4, <2>2
    <3> QED
      BY <1>2, <2>2, <3>1, <3>2
  <2> QED
    BY Zenon, <2>1, <2>2
<1> QED
  BY <1>3, <1>4, <1>5

\* Add appends.
LEMMA AppendKeeps ==
  ASSUME NEW q \in Seq(Timers), NEW x \in Timers
  PROVE  /\ Append(q, x) \in Seq(Timers)
         /\ Len(Append(q, x)) = Len(q) + 1
         /\ Append(q, x)[Len(q) + 1] = x
         /\ \A j \in 1..Len(q) : Append(q, x)[j] = q[j]
OBVIOUS

-----------------------------------------------------------------------------
(* The inductive invariant.                                                *)

Types ==
    /\ tick \in 0..MaxTick
    /\ Slots(slot)
    /\ reg \in [Timers -> [wheel : {0} \cup Levels, slot : Nat, index : Nat, tick : Nat]]
    /\ left \in [Timers -> Int]
    /\ comp \in [Timers -> Nat]
    /\ pos \in [wheel : Nat, index : Nat]
    /\ called \in Timers \cup {NoTimer}
    /\ due \in [Timers -> Nat]
    /\ asked \in [Timers -> Nat]

Clock ==
    /\ Regular(cur, pos.wheel)
    /\ pos.wheel = 0 => pos = Idle

\* onTime is at the last position of the slot it works off, and so is the timer
\* whose callback runs.
Queued ==
    /\ pos.wheel # 0 => pos.index = Len(Running)
    /\ called # NoTimer => /\ pos.wheel # 0 /\ pos.index > 0
                           /\ Running[pos.index] = called /\ due[called] = 0

\* What is in a slot is registered there, at its position, and is pending or
\* being called; so it is there once and nowhere else.
Entry(x, l, s, i) ==
    /\ reg[x].wheel = l /\ reg[x].slot = s /\ reg[x].index = i
    /\ due[x] # 0 \/ x = called

Entries ==
    \A l \in Levels : \A s \in 1..Count[l] : \A i \in 1..Len(slot[l][s]) :
        Entry(slot[l][s][i], l, s, i)

\* What is pending is in the slot it is registered for, ...
Placed(x) ==
    /\ reg[x].wheel \in Levels
    /\ reg[x].slot \in 1..Count[reg[x].wheel]
    /\ reg[x].index \in 1..Len(slot[reg[x].wheel][reg[x].slot])
    /\ slot[reg[x].wheel][reg[x].slot][reg[x].index] = x

\* ... a slot of the first wheel that is worked off when the timer is due, or one
\* of an upper wheel that is worked off when comp is over, which leaves less than
\* two of that wheel's units to wait. r, lf, cp and d are the registration, the
\* TimeOut, the CompTime and the due tick of the timer.
Timed(t, c, w, r, lf, cp, d) ==
    /\ d = r.tick + lf
    /\ r.wheel = 1 => d = When(t, c, w, 1, r.slot)
    /\ r.wheel > 1 => /\ Count[r.wheel] > 1
                      /\ When(t, c, w, r.wheel, r.slot) = r.tick + cp
                      /\ lf - cp \in 0..2 * Param[r.wheel] - 1

Scheduled ==
    \A x \in Timers : due[x] # 0 =>
        /\ Placed(x)
        /\ Timed(tick, cur, pos.wheel, reg[x], left[x], comp[x], due[x])

IInv == Types /\ Clock /\ Queued /\ Entries /\ Scheduled

\* Facts of the invariant that the steps use again and again.
LEMMA Basics ==
  ASSUME IInv
  PROVE  /\ tick \in Nat /\ cur \in [Levels -> Nat]
         /\ pos.wheel \in {0} \cup Levels /\ pos.wheel \in Nat /\ pos.index \in Nat
         /\ \A l \in Levels : \A s \in 1..Count[l] : slot[l][s] \in Seq(Timers)
         /\ pos.wheel # 0 =>
              /\ cur[pos.wheel] \in 1..Count[pos.wheel]
              /\ Running \in Seq(Timers)
<1>1. tick \in Nat /\ pos.wheel \in Nat /\ pos.index \in Nat
  BY MaxTickAssumption DEF IInv, Types
<1>2. cur \in [Levels -> Nat] /\ pos.wheel \in {0} \cup Levels
  BY DEF IInv, Clock, Regular
<1>3. \A l \in Levels : \A s \in 1..Count[l] : slot[l][s] \in Seq(Timers)
  BY Zenon DEF IInv, Types, Slots
<1>4. ASSUME pos.wheel # 0
      PROVE  cur[pos.wheel] \in 1..Count[pos.wheel] /\ Running \in Seq(Timers)
  <2>1. pos.wheel \in Levels
    BY <1>2, <1>4
  <2>2. cur[pos.wheel] \in Nat /\ cur[pos.wheel] > 0 /\ cur[pos.wheel] <= Count[pos.wheel]
    BY <1>2, <1>4, <2>1 DEF IInv, Clock, Regular
  <2>3. cur[pos.wheel] \in 1..Count[pos.wheel]
    BY <2>1, <2>2, Sizes
  <2> QED
    BY <1>3, <2>1, <2>3 DEF Running
<1> QED
  BY <1>1, <1>2, <1>3, <1>4

\* The initial state.
LEMMA InitIInv == Init => IInv
<1> SUFFICES ASSUME Init PROVE IInv
  OBVIOUS
<1> USE DEF Init
<1>1. Slots(slot)
  BY DEF Slots
<1>2. Types
  BY <1>1, MaxTickAssumption, Sizes DEF Types, Idle, NoReg
<1>3. Clock
  <2>1. pos.wheel = 0 /\ pos = Idle
    BY DEF Idle
  <2>2. cur \in [Levels -> Nat] /\ \A l \in Levels : cur[l] < Count[l] /\ ~(l < 0)
    BY Sizes
  <2> QED
    BY <2>1, <2>2 DEF Clock, Regular
<1>4. Queued
  BY DEF Queued, Idle
<1>5. Entries
  BY DEF Entries
<1>6. Scheduled
  BY DEF Scheduled
<1> QED
  BY <1>2, <1>3, <1>4, <1>5, <1>6 DEF IInv

\* The steps that only move the wheels keep every timer where it is and on time,
\* if they keep the times at which the slots that hold one are worked off.
LEMMA MoveKeeps ==
  ASSUME IInv, UNCHANGED <<slot, reg, left, comp, called, due, asked>>,
         \A l \in Levels : \A s \in 1..Count[l] : Len(slot[l][s]) # 0 =>
            When(tick', cur', pos'.wheel, l, s) = When(tick, cur, pos.wheel, l, s)
  PROVE  Entries' /\ Scheduled'
<1>1. Entries'
  <2>1. slot' = slot /\ reg' = reg /\ due' = due /\ called' = called
    OBVIOUS
  <2>2. Entries
    BY DEF IInv
  <2> QED
    BY <2>1, <2>2 DEF Entries, Entry
<1>2. ASSUME NEW x \in Timers, due'[x] # 0
      PROVE  /\ Placed(x)'
             /\ Timed(tick', cur', pos'.wheel, reg'[x], left'[x], comp'[x], due'[x])
  <2>1. /\ Placed(x)
        /\ Timed(tick, cur, pos.wheel, reg[x], left[x], comp[x], due[x])
    BY <1>2 DEF IInv, Scheduled
  <2>2. Placed(x)'
    BY <2>1 DEF Placed
  <2> DEFINE l == reg[x].wheel
             s == reg[x].slot
  <2>3. l \in Levels /\ s \in 1..Count[l] /\ Len(slot[l][s]) # 0
    <3>1. l \in Levels /\ s \in 1..Count[l] /\ reg[x].index \in 1..Len(slot[l][s])
      BY <2>1 DEF Placed
    <3>2. slot[l][s] \in Seq(Timers)
      BY <3>1, Basics
    <3> QED
      BY <3>1, <3>2
  <2>4. When(tick', cur', pos'.wheel, l, s) = When(tick, cur, pos.wheel, l, s)
    BY <2>3
  <2>5. Timed(tick', cur', pos'.wheel, reg[x], left[x], comp[x], due[x])
    BY <2>1, <2>4 DEF Timed
  <2> QED
    BY <2>2, <2>5
<1> QED
  BY <1>1, <1>2 DEF Scheduled

\* onTime moves the clock and the first wheel.
LEMMA onTimeKeeps ==
  ASSUME IInv, onTime
  PROVE  IInv'
<1>1. pos = Idle /\ pos.wheel = 0 /\ called = NoTimer
  BY DEF onTime, IInv, Queued, Idle
<1>2. /\ tick' = tick + 1 /\ cur' = [cur EXCEPT ![1] = @ + 1]
      /\ pos' = [wheel |-> 1, index |-> Len(slot[1][cur'[1]])]
      /\ UNCHANGED <<slot, reg, left, comp, called, due, asked>>
  BY DEF onTime
<1>3. tick \in Nat /\ cur \in [Levels -> Nat] /\ 1 \in Levels /\ Regular(cur, 0)
  BY <1>1, Basics, Sizes DEF IInv, Clock
<1>4. /\ cur' \in [Levels -> Nat] /\ cur'[1] = cur[1] + 1
      /\ \A l \in Levels : l > 1 => cur'[l] = cur[l]
  BY <1>2, <1>3
<1>5. /\ Regular(cur', 1)
      /\ \A l \in Levels : \A s \in 1..Count[l] :
            When(tick + 1, cur', 1, l, s) = When(tick, cur, 0, l, s)
  BY <1>3, <1>4, WhenTick
<1>6. pos'.wheel = 1 /\ pos'.index = Len(slot[1][cur'[1]])
  BY <1>2
<1>7. Entries' /\ Scheduled'
  <2>1. \A l \in Levels : \A s \in 1..Count[l] :
          When(tick', cur', pos'.wheel, l, s) = When(tick, cur, pos.wheel, l, s)
    BY Zenon, <1>1, <1>2, <1>5, <1>6
  <2> QED
    BY Zenon, <1>2, <2>1, MoveKeeps
<1>8. Clock'
  BY <1>5, <1>6 DEF Clock
<1>9. Queued'
  BY <1>1, <1>2, <1>6 DEF Queued, Running
<1>10. Types'
  <2>1. tick' \in 0..MaxTick
    BY <1>2, <1>3, MaxTickAssumption DEF onTime
  <2>2. cur'[1] \in 1..Count[1]
    <3>1. cur'[1] \in Nat /\ cur'[1] > 0 /\ cur'[1] <= Count[1]
      BY <1>3, <1>4, <1>5 DEF Regular
    <3> QED
      BY <1>3, <3>1, Sizes
  <2>3. slot[1][cur'[1]] \in Seq(Timers)
    BY <1>3, <2>2, Basics
  <2>4. pos' \in [wheel : Nat, index : Nat]
    BY <1>2, <2>3
  <2> QED
    BY <1>2, <2>1, <2>4 DEF IInv, Types
<1> QED
  BY <1>7, <1>8, <1>9, <1>10 DEF IInv

\* When a slot is worked off it is empty, so its next time does not matter.
LEMMA DoneIsEmpty ==
  ASSUME IInv, SlotDone
  PROVE  /\ pos.wheel \in Levels /\ Regular(cur, pos.wheel)
         /\ Len(slot[pos.wheel][cur[pos.wheel]]) = 0
         /\ called = NoTimer
<1>1. pos.wheel \in Levels
  BY Basics DEF SlotDone
<1> QED
  BY <1>1 DEF SlotDone, IInv, Queued, Running, Clock

\* cashAll moves on to the next wheel.
LEMMA cashAllTurnKeeps ==
  ASSUME IInv, cashAllTurn
  PROVE  IInv'
<1> DEFINE w == pos.wheel
<1>1. w \in Levels /\ w \in Nat /\ Regular(cur, w) /\ Len(slot[w][cur[w]]) = 0 /\ called = NoTimer
  BY DoneIsEmpty, Sizes DEF cashAllTurn
<1>2. /\ cur[w] = Count[w] /\ w < Len(Count) /\ tick' = tick
      /\ cur' = [cur EXCEPT ![(w + 1) - 1] = 0, ![w + 1] = @ + 1]
      /\ pos' = [wheel |-> w + 1, index |-> Len(slot[w + 1][cur'[w + 1]])]
      /\ UNCHANGED <<slot, reg, left, comp, called, due, asked>>
  <2>1. cur[w] = Count[w] /\ w < Len(Count) /\ tick' = tick
    BY DEF cashAllTurn
  <2>2. UNCHANGED <<slot, reg, left, comp, called, due, asked>>
    BY DEF cashAllTurn
  <2>3. cur' = [cur EXCEPT ![(w + 1) - 1] = 0, ![w + 1] = @ + 1]
    BY DEF cashAllTurn
  <2>4. pos' = [wheel |-> w + 1, index |-> Len(slot[w + 1][cur'[w + 1]])]
    BY DEF cashAllTurn
  <2> QED
    BY <2>1, <2>2, <2>3, <2>4
<1>0. cur[w] = Count[w]
  BY <1>2
<1> HIDE DEF w
<1>3. w + 1 \in Levels /\ (w + 1) - 1 = w /\ w # w + 1
  BY <1>1, <1>2, Sizes
<1>4. tick \in Nat /\ cur \in [Levels -> Nat]
  BY Basics
<1>5. /\ cur' \in [Levels -> Nat] /\ cur'[w] = 0 /\ cur'[w + 1] = cur[w + 1] + 1
      /\ \A l \in Levels \ {w, w + 1} : cur'[l] = cur[l]
  BY <1>1, <1>2, <1>3, <1>4
<1>6. /\ Regular(cur', w + 1)
      /\ \A l \in Levels : \A s \in 1..Count[l] : ~(l = w /\ s = cur[w]) =>
            When(tick, cur', w + 1, l, s) = When(tick, cur, w, l, s)
  BY <1>0, <1>1, <1>3, <1>4, <1>5, WhenTurn
<1>7. pos'.wheel = w + 1 /\ pos'.index = Len(slot[w + 1][cur'[w + 1]]) /\ pos'.wheel # 0
  BY <1>1, <1>2
<1>8. Entries' /\ Scheduled'
  <2>1. \A l \in Levels : \A s \in 1..Count[l] : Len(slot[l][s]) # 0 =>
          When(tick', cur', pos'.wheel, l, s) = When(tick, cur, pos.wheel, l, s)
    BY Zenon, <1>1, <1>2, <1>6, <1>7 DEF w
  <2> QED
    BY Zenon, <1>2, <2>1, MoveKeeps
<1>9. Clock'
  BY <1>6, <1>7 DEF Clock
<1>10. Queued'
  BY <1>1, <1>2, <1>7 DEF Queued, Running
<1>11. Types'
  <2>1. cur'[w + 1] \in 1..Count[w + 1]
    <3>1. cur'[w + 1] \in Nat /\ cur'[w + 1] > 0 /\ cur'[w + 1] <= Count[w + 1]
      BY <1>1, <1>3, <1>5, <1>6 DEF Regular
    <3> QED
      BY <1>3, <3>1, Sizes
  <2>2. slot[w + 1][cur'[w + 1]] \in Seq(Timers)
    BY <1>3, <2>1, Basics
  <2>3. pos' \in [wheel : Nat, index : Nat]
    BY <1>1, <1>2, <2>2
  <2> QED
    BY Zenon, <1>2, <2>3 DEF IInv, Types
<1> QED
  BY <1>8, <1>9, <1>10, <1>11 DEF IInv

\* onTime ends.
LEMMA cashAllDoneKeeps ==
  ASSUME IInv, cashAllDone
  PROVE  IInv'
<1> DEFINE w == pos.wheel
<1>1. w \in Levels /\ w \in Nat /\ Regular(cur, w) /\ Len(slot[w][cur[w]]) = 0 /\ called = NoTimer
  BY DoneIsEmpty, Sizes DEF cashAllDone
<1>2. /\ cur[w] # Count[w] \/ w = Len(Count)
      /\ tick' = tick /\ pos' = Idle
      /\ cur' = [cur EXCEPT ![w] = IF @ = Count[w] THEN 0 ELSE @]
      /\ UNCHANGED <<slot, reg, left, comp, called, due, asked>>
  BY DEF cashAllDone
<1>0. cur[w] # Count[w] \/ w = Len(Count)
  BY <1>2
<1> HIDE DEF w
<1>3. tick \in Nat /\ cur \in [Levels -> Nat] /\ pos'.wheel = 0
  BY <1>2, Basics DEF Idle
<1>4. /\ cur' \in [Levels -> Nat] /\ cur'[w] = (IF cur[w] = Count[w] THEN 0 ELSE cur[w])
      /\ \A l \in Levels : l # w => cur'[l] = cur[l]
  BY <1>1, <1>2, <1>3
<1>5. /\ Regular(cur', 0)
      /\ \A l \in Levels : \A s \in 1..Count[l] : ~(l = w /\ s = cur[w]) =>
            When(tick, cur', 0, l, s) = When(tick, cur, w, l, s)
  BY <1>0, <1>1, <1>3, <1>4, WhenDone
<1>6. Entries' /\ Scheduled'
  <2>1. \A l \in Levels : \A s \in 1..Count[l] : Len(slot[l][s]) # 0 =>
          When(tick', cur', pos'.wheel, l, s) = When(tick, cur, pos.wheel, l, s)
    BY Zenon, <1>1, <1>2, <1>3, <1>5 DEF w
  <2> QED
    BY Zenon, <1>2, <2>1, MoveKeeps
<1>7. Clock'
  BY <1>2, <1>3, <1>5 DEF Clock, Idle
<1>8. Queued'
  BY <1>1, <1>2, <1>3 DEF Queued
<1>9. Types'
  BY <1>2 DEF IInv, Types, Idle
<1> QED
  BY <1>6, <1>7, <1>8, <1>9 DEF IInv

\* The timer that onTime is at is pending and its slot's time has come.
LEMMA AtTheFront ==
  ASSUME IInv, pos.wheel # 0, pos.index \in DOMAIN Running, called = NoTimer
  PROVE  LET x == Running[pos.index]
             w == pos.wheel
         IN  /\ w \in Levels /\ pos.index = Len(Running) /\ pos.index > 0
             /\ x \in Timers /\ due[x] # 0
             /\ reg[x].wheel = w /\ reg[x].slot = cur[w] /\ reg[x].index = pos.index
             /\ w = 1 => due[x] = tick
             /\ w > 1 => /\ Count[w] > 1
                         /\ due[x] = tick + (left[x] - comp[x])
                         /\ left[x] - comp[x] \in 0..2 * Param[w] - 1
<1> DEFINE x == Running[pos.index]
           w == pos.wheel
<1>1. w \in Levels /\ cur[w] \in 1..Count[w] /\ Running \in Seq(Timers)
  BY Basics
<1>2. pos.index \in 1..Len(Running) /\ x \in Timers /\ Len(Running) \in Nat
  BY <1>1
<1>3. pos.index = Len(Running) /\ pos.index > 0
  BY <1>2 DEF IInv, Queued
<1>4. Entry(x, w, cur[w], pos.index)
  BY Zenon, <1>1, <1>2 DEF IInv, Entries, Running
<1>5. due[x] # 0
  BY <1>2, <1>4, NoTimerAssumption DEF Entry
<1>6. Timed(tick, cur, w, reg[x], left[x], comp[x], due[x])
  BY <1>2, <1>5 DEF IInv, Scheduled
<1> HIDE DEF x, w
<1>7. reg[x].wheel = w /\ reg[x].slot = cur[w] /\ reg[x].index = pos.index
  BY <1>4 DEF Entry
<1>8. When(tick, cur, w, w, cur[w]) = tick
  BY DEF When
<1>9. ASSUME w = 1 PROVE due[x] = tick
  BY <1>6, <1>7, <1>8, <1>9 DEF Timed
<1>10. ASSUME w > 1
       PROVE  /\ Count[w] > 1
              /\ due[x] = tick + (left[x] - comp[x])
              /\ left[x] - comp[x] \in 0..2 * Param[w] - 1
  <2>1. /\ due[x] = reg[x].tick + left[x] /\ Count[w] > 1
        /\ tick = reg[x].tick + comp[x] /\ left[x] - comp[x] \in 0..2 * Param[w] - 1
    BY <1>6, <1>7, <1>8, <1>10 DEF Timed
  <2>2. reg[x].tick \in Nat /\ left[x] \in Int /\ comp[x] \in Nat
    BY <1>2 DEF IInv, Types
  <2> QED
    BY <2>1, <2>2
<1> QED
  BY <1>1, <1>2, <1>3, <1>5, <1>7, <1>9, <1>10 DEF x, w

\* A callback begins.
LEMMA CallKeeps ==
  ASSUME IInv, pos.wheel # 0, pos.index \in DOMAIN Running, called = NoTimer,
         Call(Running[pos.index]), left' \in [Timers -> Int],
         \A y \in Timers : y # Running[pos.index] => left'[y] = left[y],
         UNCHANGED <<tick, cur, slot, reg, comp, pos, asked>>
  PROVE  IInv'
<1> DEFINE x == Running[pos.index]
<1>1. /\ pos.wheel \in Levels /\ pos.index = Len(Running) /\ pos.index > 0
      /\ x \in Timers /\ due[x] # 0
  BY AtTheFront
<1>2. called' = x /\ due' = [due EXCEPT ![x] = 0]
  BY DEF Call
<1>3. due \in [Timers -> Nat] /\ Running' = Running
  BY DEF IInv, Types, Running
<1> HIDE DEF x
<1>4. /\ due' \in [Timers -> Nat] /\ due'[x] = 0
      /\ \A y \in Timers : y # x => due'[y] = due[y]
  BY <1>1, <1>2, <1>3
<1>5. Types'
  BY <1>1, <1>2, <1>4 DEF IInv, Types
<1>6. Clock'
  BY DEF IInv, Clock
<1>7. Queued'
  BY <1>1, <1>2, <1>3, <1>4 DEF Queued, x
<1>8. Entries'
  <2> SUFFICES ASSUME NEW l \in Levels, NEW s \in 1..Count[l], NEW i \in 1..Len(slot[l][s])
               PROVE  Entry(slot[l][s][i], l, s, i)'
    BY Zenon DEF Entries
  <2> DEFINE y == slot[l][s][i]
  <2>1. Entry(y, l, s, i)
    BY Zenon DEF IInv, Entries
  <2>2. y \in Timers
    <3>1. slot[l][s] \in Seq(Timers)
      BY Basics
    <3> QED
      BY <3>1
  <2> HIDE DEF y
  <2>3. due'[y] # 0 \/ y = called'
    BY <1>2, <1>4, <2>1, <2>2, NoTimerAssumption DEF Entry
  <2>4. reg'[y].wheel = l /\ reg'[y].slot = s /\ reg'[y].index = i
    BY <2>1 DEF Entry
  <2> QED
    BY <2>3, <2>4 DEF Entry, y
<1>9. Scheduled'
  <2> SUFFICES ASSUME NEW y \in Timers, due'[y] # 0
               PROVE  /\ Placed(y)'
                      /\ Timed(tick', cur', pos'.wheel, reg'[y], left'[y], comp'[y], due'[y])
    BY DEF Scheduled
  <2>1. y # x /\ due[y] # 0 /\ due'[y] = due[y] /\ left'[y] = left[y]
    BY <1>4 DEF x
  <2>2. Placed(y) /\ Timed(tick, cur, pos.wheel, reg[y], left[y], comp[y], due[y])
    BY <2>1 DEF IInv, Scheduled
  <2>3. Placed(y)'
    BY <2>2 DEF Placed
  <2> QED
    BY <2>1, <2>2, <2>3
<1> QED
  BY <1>5, <1>6, <1>7, <1>8, <1>9 DEF IInv

\* onTime calls what the first wheel has come to ...
LEMMA onTimeCallKeeps ==
  ASSUME IInv, onTimeCall
  PROVE  IInv'
<1>1. /\ pos.wheel # 0 /\ pos.index \in DOMAIN Running /\ called = NoTimer
      /\ Call(Running[pos.index])
      /\ UNCHANGED <<tick, cur, slot, reg, comp, pos, asked>> /\ left' = left
  BY DEF onTimeCall
<1>2. left' \in [Timers -> Int]
  BY <1>1 DEF IInv, Types
<1> QED
  BY <1>1, <1>2, CallKeeps

\* ... and cashData what has no time left in a lower wheel.
LEMMA cashDataCallKeeps ==
  ASSUME IInv, cashDataCall
  PROVE  IInv'
<1> DEFINE x == Running[pos.index]
<1>1. /\ pos.wheel # 0 /\ pos.index \in DOMAIN Running /\ called = NoTimer
      /\ Call(x) /\ left' = [left EXCEPT ![x] = left[x] - comp[x]]
      /\ UNCHANGED <<tick, cur, slot, reg, comp, pos, asked>>
  BY Basics DEF cashDataCall, Cashing, Moving, TimeLeft
<1>2. x \in Timers /\ left \in [Timers -> Int] /\ comp \in [Timers -> Nat]
  BY <1>1, AtTheFront DEF IInv, Types
<1> HIDE DEF x
<1>3. left' \in [Timers -> Int] /\ \A y \in Timers : y # x => left'[y] = left[y]
  BY <1>1, <1>2
<1> QED
  BY <1>1, <1>3, CallKeeps DEF x

\* The wheel, the slot and the position of the last timer of the slot that is
\* worked off, which is what leaves it when a callback returns or a timer moves.
LEMMA LastLeaves ==
  ASSUME IInv, pos.wheel # 0, pos.index > 0
  PROVE  LET w == pos.wheel
             e == Without(Running, pos.index)
         IN  /\ w \in Levels /\ cur[w] \in 1..Count[w] /\ Running \in Seq(Timers)
             /\ pos.index \in DOMAIN Running /\ pos.index = Len(Running)
             /\ pos.index - 1 \in Nat
             /\ e \in Seq(Timers) /\ Len(e) = pos.index - 1
             /\ \A j \in 1..pos.index - 1 : e[j] = Running[j]
<1>1. pos.wheel \in Levels /\ cur[pos.wheel] \in 1..Count[pos.wheel] /\ Running \in Seq(Timers)
  BY Basics
<1>2. pos.index = Len(Running) /\ pos.index \in 1..Len(Running) /\ Len(Running) \in Nat
  BY <1>1 DEF IInv, Queued
<1>3. /\ Without(Running, pos.index) \in Seq(Timers)
      /\ Len(Without(Running, pos.index)) = Len(Running) - 1
      /\ \A j \in 1..Len(Running) - 1 : Without(Running, pos.index)[j] =
            IF j < pos.index THEN Running[j] ELSE Running[j + 1]
  BY SMTT(30), <1>1, <1>2, RemoveCloses
<1>4. \A j \in 1..pos.index - 1 : Without(Running, pos.index)[j] = Running[j]
  BY <1>2, <1>3
<1> QED
  BY <1>1, <1>2, <1>3, <1>4

\* A callback returns.
LEMMA CallReturnsKeeps ==
  ASSUME IInv, CallReturns
  PROVE  IInv'
<1> DEFINE w == pos.wheel
           c == cur[w]
           n == pos.index
           x == called
           e == Without(Running, n)
<1>1. x # NoTimer /\ x \in Timers /\ w # 0 /\ n > 0 /\ Running[n] = x /\ due[x] = 0
  BY DEF CallReturns, IInv, Queued, Types
<1>2. /\ w \in Levels /\ c \in 1..Count[w] /\ Running \in Seq(Timers)
      /\ n \in DOMAIN Running /\ n = Len(Running) /\ n - 1 \in Nat
      /\ e \in Seq(Timers) /\ Len(e) = n - 1 /\ \A j \in 1..n - 1 : e[j] = Running[j]
  BY <1>1, LastLeaves
<1>3. Running = slot[w][c]
  BY DEF Running
<1>4. /\ called' = NoTimer /\ slot' = [slot EXCEPT ![w][c] = e]
      /\ pos' = [pos EXCEPT !.index = @ - 1] /\ reg' = [reg EXCEPT ![x] = NoReg]
      /\ left' = [left EXCEPT ![x] = 0] /\ comp' = [comp EXCEPT ![x] = 0]
      /\ asked' = [asked EXCEPT ![x] = 0]
      /\ UNCHANGED <<tick, cur, due>>
  BY <1>2, <1>3 DEF CallReturns, Forget
<1> HIDE DEF w, c, n, x, e
<1>5. /\ Slots(slot') /\ slot'[w][c] = e
      /\ \A l \in Levels : \A k \in 1..Count[l] :
            ~(l = w /\ k = c) => slot'[l][k] = slot[l][k]
  <2> DEFINE g == [slot EXCEPT ![w][c] = e]
  <2>1. Slots(slot) /\ w \in Levels /\ c \in 1..Count[w] /\ e \in Seq(Timers)
    BY <1>2 DEF IInv, Types
  <2>2. /\ Slots(g) /\ g[w][c] = e
        /\ \A l \in Levels : \A k \in 1..Count[l] : ~(l = w /\ k = c) => g[l][k] = slot[l][k]
    BY <2>1, OneSlot
  <2>3. slot' = g
    BY <1>4
  <2> QED
    BY <2>2, <2>3
<1>6. pos'.wheel = w /\ pos'.index = n - 1 /\ pos' \in [wheel : Nat, index : Nat]
  BY Zenon, <1>2, <1>4 DEF IInv, Types, w, n
<1>7. /\ reg'[x] = NoReg
      /\ \A y \in Timers : y # x => /\ reg'[y] = reg[y] /\ left'[y] = left[y]
                                    /\ comp'[y] = comp[y]
  BY <1>1, <1>4 DEF IInv, Types
<1>8. /\ reg' \in [Timers -> [wheel : {0} \cup Levels, slot : Nat, index : Nat, tick : Nat]]
      /\ left' \in [Timers -> Int] /\ comp' \in [Timers -> Nat] /\ asked' \in [Timers -> Nat]
  <2>1. reg \in [Timers -> [wheel : {0} \cup Levels, slot : Nat, index : Nat, tick : Nat]]
        /\ left \in [Timers -> Int] /\ comp \in [Timers -> Nat] /\ asked \in [Timers -> Nat]
    BY DEF IInv, Types
  <2>2. NoReg \in [wheel : {0} \cup Levels, slot : Nat, index : Nat, tick : Nat]
    BY DEF NoReg
  <2> QED
    BY <1>1, <1>4, <2>1, <2>2
<1>9. Types'
  BY <1>4, <1>5, <1>6, <1>8 DEF IInv, Types
<1>10. Clock'
  BY <1>1, <1>4, <1>6 DEF IInv, Clock, w
<1>11. Queued'
  <2>1. Running' = e
    BY <1>4, <1>5, <1>6 DEF Running, c, w
  <2> QED
    BY <1>2, <1>4, <1>6, <2>1 DEF Queued
<1>12. Entry(x, w, c, n)
  <2>1. n \in 1..Len(slot[w][c]) /\ slot[w][c][n] = x
    BY <1>1, <1>2, <1>3
  <2> QED
    BY Zenon, <1>2, <2>1 DEF IInv, Entries
<1>13. Entries'
  <2> SUFFICES ASSUME NEW l \in Levels, NEW k \in 1..Count[l], NEW i \in 1..Len(slot'[l][k])
               PROVE  Entry(slot[l][k][i], l, k, i)'
    BY DEF Entries
  <2> DEFINE y == slot'[l][k][i]
  <2>1. i \in 1..Len(slot[l][k]) /\ y = slot[l][k][i] /\ ~(l = w /\ k = c /\ i = n)
    <3>1. CASE l = w /\ k = c
      <4>1. i \in 1..n - 1
        BY <1>2, <1>5, <3>1
      <4>2. i \in 1..Len(Running) /\ e[i] = Running[i] /\ i # n
        BY <1>2, <4>1
      <4> QED
        BY <1>3, <1>5, <3>1, <4>2
    <3>2. CASE ~(l = w /\ k = c)
      BY <1>5, <3>2
    <3> QED
      BY <3>1, <3>2
  <2>2. Entry(y, l, k, i)
    BY Zenon, <2>1 DEF IInv, Entries
  <2>3. y \in Timers
    <3>1. slot[l][k] \in Seq(Timers)
      BY Basics
    <3> QED
      BY <2>1, <3>1
  <2> HIDE DEF y
  <2>4. y # x
    BY <1>12, <2>1, <2>2 DEF Entry
  <2>5. reg'[y] = reg[y] /\ due'[y] = due[y] /\ due[y] # 0
    BY <1>4, <1>7, <2>2, <2>3, <2>4 DEF Entry, x
  <2>6. reg'[y].wheel = l /\ reg'[y].slot = k /\ reg'[y].index = i /\ due'[y] # 0
    BY <2>2, <2>5 DEF Entry
  <2> QED
    BY <2>6 DEF Entry, y
<1>14. Scheduled'
  <2> SUFFICES ASSUME NEW y \in Timers, due'[y] # 0
               PROVE  /\ Placed(y)'
                      /\ Timed(tick', cur', pos'.wheel, reg'[y], left'[y], comp'[y], due'[y])
    BY DEF Scheduled
  <2>1. due[y] # 0 /\ y # x
    BY <1>1, <1>4
  <2>2. Placed(y) /\ Timed(tick, cur, w, reg[y], left[y], comp[y], due[y])
    BY <2>1 DEF IInv, Scheduled, w
  <2>3. reg'[y] = reg[y] /\ left'[y] = left[y] /\ comp'[y] = comp[y]
    BY SMTT(30), <1>7, <2>1
  <2>4. Placed(y)'
    <3> DEFINE l == reg[y].wheel
               k == reg[y].slot
               i == reg[y].index
    <3>1. l \in Levels /\ k \in 1..Count[l] /\ i \in 1..Len(slot[l][k]) /\ slot[l][k][i] = y
      BY <2>2 DEF Placed
    <3> HIDE DEF l, k, i
    <3>2. i \in 1..Len(slot'[l][k]) /\ slot'[l][k][i] = y
      <4>1. CASE l = w /\ k = c
        <5>1. i # n
          BY <1>1, <1>3, <2>1, <3>1, <4>1
        <5>2. i \in 1..n /\ Running[i] = y
          BY <1>2, <1>3, <3>1, <4>1
        <5>3. i \in 1..n - 1
          BY <1>2, <5>1, <5>2
        <5>4. i \in 1..Len(e) /\ e[i] = y
          BY <1>2, <5>2, <5>3
        <5>5. slot'[l][k] = e
          BY Zenon, <1>5, <4>1
        <5> QED
          BY Zenon, <5>4, <5>5
      <4>2. CASE ~(l = w /\ k = c)
        BY <1>5, <3>1, <4>2
      <4> QED
        BY <4>1, <4>2
    <3> QED
      BY SMTT(30), <2>3, <3>1, <3>2 DEF Placed, l, k, i
  <2>5. Timed(tick', cur', pos'.wheel, reg'[y], left'[y], comp'[y], due'[y])
    BY <1>4, <1>6, <2>2, <2>3
  <2> QED
    BY <2>4, <2>5
<1> QED
  BY <1>9, <1>10, <1>11, <1>13, <1>14 DEF IInv

\* The invariant gives Add the positions that it counts on.
LEMMA PositionsHold ==
  ASSUME IInv
  PROVE  Positions
<1>1. Regular(cur, pos.wheel) /\ cur \in [Levels -> Nat]
  BY DEF IInv, Clock, Regular
<1> QED
  BY <1>1, RegularPassed, BelowPassed DEF Positions

\* A timer that is added, to a slot other than the one being worked off, is on
\* time.
LEMMA AddedOnTime ==
  ASSUME IInv, NEW x \in Timers, NEW t \in Nat \ {0}, NEW top \in Levels,
         t <= getRange(top), Add(x, t), tick' = tick, cur' = cur, pos'.wheel = pos.wheel,
         left'[x] = t, due'[x] = tick + t,
         ~(WheelFor(t) = pos.wheel /\ SlotFor(WheelFor(t), t) = cur[WheelFor(t)])
  PROVE  LET l == WheelFor(t)
             s == SlotFor(l, t)
         IN  /\ l \in Levels /\ s \in 1..Count[l]
             /\ reg' = [reg EXCEPT ![x] = [wheel |-> l, slot |-> s,
                                          index |-> Len(slot[l][s]) + 1, tick |-> tick]]
             /\ comp' \in [Timers -> Nat]
             /\ \A y \in Timers : y # x => comp'[y] = comp[y]
             /\ Timed(tick', cur', pos'.wheel, reg'[x], left'[x], comp'[x], due'[x])
<1> DEFINE l == WheelFor(t)
           s == SlotFor(l, t)
           g == getCompTime(l, s)
<1>1. /\ l \in Levels /\ s \in 1..Count[l] /\ g \in Nat
      /\ l = 1 => g = t
      /\ l > 1 => Count[l] > 1 /\ t - g \in 0..2 * Param[l] - 1
  BY PositionsHold, AddFits
<1>2. /\ reg' = [reg EXCEPT ![x] = [wheel |-> l, slot |-> s,
                                   index |-> Len(slot[l][s]) + 1, tick |-> tick]]
      /\ comp' = IF l = 1 THEN comp ELSE [comp EXCEPT ![x] = g]
  BY DEF Add, setRegInfo
<1>3. g = CompTime(cur, l, s)
  BY BelowPassed DEF getCompTime, getCurCompTime, CompTime, Ahead
<1>4. ~(l = pos.wheel /\ s = cur[l])
  OBVIOUS
<1> HIDE DEF l, s, g
<1>5. When(tick, cur, pos.wheel, l, s) = tick + g
  BY <1>3, <1>4 DEF When
<1>6. comp \in [Timers -> Nat] /\ x \in DOMAIN reg /\ tick \in Nat /\ l \in Nat
  BY <1>1, Basics, Sizes DEF IInv, Types
<1>7. /\ comp' \in [Timers -> Nat] /\ \A y \in Timers : y # x => comp'[y] = comp[y]
      /\ l # 1 => comp'[x] = g
  <2>1. CASE l = 1
    BY <1>2, <1>6, <2>1
  <2>2. CASE l # 1
    BY <1>1, <1>2, <1>6, <2>2
  <2> QED
    BY <2>1, <2>2
<1>8. reg'[x].wheel = l /\ reg'[x].slot = s /\ reg'[x].tick = tick
  BY <1>2, <1>6
<1>9. Timed(tick, cur, pos.wheel, reg'[x], t, comp'[x], tick + t)
  <2>1. l = 1 => tick + t = When(tick, cur, pos.wheel, 1, s)
    BY <1>1, <1>5
  <2>2. l > 1 => /\ Count[l] > 1 /\ When(tick, cur, pos.wheel, l, s) = tick + comp'[x]
                 /\ t - comp'[x] \in 0..2 * Param[l] - 1
    BY <1>1, <1>5, <1>6, <1>7
  <2> QED
    BY <1>8, <2>1, <2>2 DEF Timed
<1>10. Timed(tick', cur', pos'.wheel, reg'[x], left'[x], comp'[x], due'[x])
  BY <1>9
<1> QED
  BY Zenon, <1>1, <1>2, <1>7, <1>10 DEF l, s

\* A delay that a script asks for is in the range of the last wheel.
LEMMA DelayFits ==
  ASSUME NEW t \in Delays \cup CallbackDelays
  PROVE  t \in Nat \ {0} /\ Len(Count) \in Levels /\ t <= getRange(Len(Count))
<1>1. Len(Count) \in Levels
  BY Sizes
<1>2. Count[Len(Count)] \in Nat /\ Param[Len(Count)] \in Nat
  BY <1>1, ParamDef, Sizes
<1>3. getRange(Len(Count)) \in Nat
  BY <1>2 DEF getRange
<1> QED
  BY <1>1, <1>3, DelaysAssumption

\* A timer that is neither pending nor being called is in no slot.
LEMMA NotThere ==
  ASSUME IInv, NEW x \in Timers, due[x] = 0, x # called,
         NEW l \in Levels, NEW s \in 1..Count[l], NEW i \in 1..Len(slot[l][s])
  PROVE  slot[l][s][i] # x
<1>1. Entry(slot[l][s][i], l, s, i)
  BY DEF IInv, Entries
<1> QED
  BY <1>1 DEF Entry

\* A script adds a timer.
LEMMA addTimerKeeps ==
  ASSUME IInv, NoFullTurn, NEW x \in Timers, NEW t \in Delays \cup CallbackDelays,
         addTimer(x, t)
  PROVE  IInv'
<1> DEFINE l == WheelFor(t)
           s == SlotFor(l, t)
           e == Append(slot[l][s], x)
<1>1. t \in Nat \ {0} /\ Len(Count) \in Levels /\ t <= getRange(Len(Count))
  BY DelayFits
<1>2. /\ due[x] = 0 /\ x # called /\ slot' = [slot EXCEPT ![l][s] = e] /\ Add(x, t)
      /\ left' = [left EXCEPT ![x] = t] /\ due' = [due EXCEPT ![x] = tick + t]
      /\ asked' = [asked EXCEPT ![x] = tick] /\ UNCHANGED <<tick, cur, pos, called>>
  BY DEF addTimer, Added
<1>3. /\ left \in [Timers -> Int] /\ due \in [Timers -> Nat] /\ asked \in [Timers -> Nat]
      /\ tick \in Nat
      /\ reg \in [Timers -> [wheel : {0} \cup Levels, slot : Nat, index : Nat, tick : Nat]]
  BY Zenon, Basics DEF IInv, Types
<1>4. l \in Levels /\ s \in 1..Count[l] /\ (s = cur[l] => t = getRange(l))
  BY <1>1, PositionsHold, AddFits
<1>5. ~(l = pos.wheel /\ s = cur[l])
  <2>1. CASE pos = Idle
    <3>1. l # 0 /\ pos.wheel = 0
      BY <1>4, <2>1, Sizes DEF Idle
    <3> QED
      BY <3>1
  <2>2. CASE t \in CallbackDelays
    BY <1>4, <2>2 DEF NoFullTurn
  <2> QED
    BY <2>1, <2>2 DEF addTimer
<1>6. /\ left' \in [Timers -> Int] /\ due' \in [Timers -> Nat] /\ asked' \in [Timers -> Nat]
      /\ left'[x] = t /\ due'[x] = tick + t
      /\ \A y \in Timers : y # x => left'[y] = left[y] /\ due'[y] = due[y]
  BY SMTT(30), <1>1, <1>2, <1>3
<1>7. /\ reg' = [reg EXCEPT ![x] = [wheel |-> l, slot |-> s,
                                   index |-> Len(slot[l][s]) + 1, tick |-> tick]]
      /\ comp' \in [Timers -> Nat]
      /\ \A y \in Timers : y # x => comp'[y] = comp[y]
      /\ Timed(tick', cur', pos'.wheel, reg'[x], left'[x], comp'[x], due'[x])
  <2>1. tick' = tick /\ cur' = cur /\ pos'.wheel = pos.wheel /\ Add(x, t)
    BY <1>2
  <2> QED
    BY <1>1, <1>5, <1>6, <2>1, AddedOnTime
<1> HIDE DEF l, s
<1>8. slot[l][s] \in Seq(Timers) /\ Len(slot[l][s]) \in Nat
  <2>1. slot[l][s] \in Seq(Timers)
    BY <1>4, Basics
  <2> QED
    BY <2>1
<1>9. /\ e \in Seq(Timers) /\ Len(e) = Len(slot[l][s]) + 1 /\ e[Len(slot[l][s]) + 1] = x
      /\ \A j \in 1..Len(slot[l][s]) : e[j] = slot[l][s][j]
  BY <1>8, AppendKeeps
<1> HIDE DEF e
<1>10. /\ Slots(slot') /\ slot'[l][s] = e
       /\ \A m \in Levels : \A k \in 1..Count[m] :
             ~(m = l /\ k = s) => slot'[m][k] = slot[m][k]
  <2> DEFINE g == [slot EXCEPT ![l][s] = e]
  <2>1. Slots(slot)
    BY DEF IInv, Types
  <2>2. /\ Slots(g) /\ g[l][s] = e
        /\ \A m \in Levels : \A k \in 1..Count[m] : ~(m = l /\ k = s) => g[m][k] = slot[m][k]
    BY <1>4, <1>9, <2>1, OneSlot
  <2>3. slot' = g
    BY <1>2
  <2> QED
    BY <2>2, <2>3
<1>11. /\ reg'[x].wheel = l /\ reg'[x].slot = s /\ reg'[x].index = Len(slot[l][s]) + 1
       /\ \A y \in Timers : y # x => reg'[y] = reg[y]
       /\ reg' \in [Timers -> [wheel : {0} \cup Levels, slot : Nat, index : Nat, tick : Nat]]
  <2>1. [wheel |-> l, slot |-> s, index |-> Len(slot[l][s]) + 1, tick |-> tick]
           \in [wheel : {0} \cup Levels, slot : Nat, index : Nat, tick : Nat]
    BY <1>3, <1>4, <1>8
  <2> QED
    BY Zenon, <1>3, <1>7, <2>1
<1>12. Types'
  BY Zenon, <1>2, <1>6, <1>7, <1>10, <1>11 DEF IInv, Types
<1>13. Clock'
  BY <1>2 DEF IInv, Clock
<1>14. Queued'
  <2>1. pos.wheel # 0 => Running' = Running
    <3>1. pos.wheel # 0 => pos.wheel \in Levels /\ cur[pos.wheel] \in 1..Count[pos.wheel]
      BY Zenon, Basics
    <3> QED
      BY <1>2, <1>5, <1>10, <3>1 DEF Running
  <2>2. called # NoTimer => called \in Timers /\ due'[called] = due[called]
    BY <1>2, <1>6 DEF IInv, Types
  <2> QED
    BY <1>2, <2>1, <2>2 DEF IInv, Queued
<1>15. Entries'
  <2> SUFFICES ASSUME NEW m \in Levels, NEW k \in 1..Count[m], NEW i \in 1..Len(slot'[m][k])
               PROVE  Entry(slot[m][k][i], m, k, i)'
    BY SMTT(30) DEF Entries
  <2> DEFINE y == slot'[m][k][i]
  <2>1. CASE m = l /\ k = s /\ i = Len(slot[l][s]) + 1
    <3>1. y = x
      BY <1>9, <1>10, <2>1
    <3>2. reg'[x].wheel = m /\ reg'[x].slot = k /\ reg'[x].index = i /\ due'[x] # 0
      BY <1>1, <1>3, <1>6, <1>11, <2>1
    <3> HIDE DEF y
    <3>3. reg'[y].wheel = m /\ reg'[y].slot = k /\ reg'[y].index = i /\ due'[y] # 0
      BY SMTT(30), <3>1, <3>2
    <3> QED
      BY <3>3 DEF Entry, y
  <2>2. CASE ~(m = l /\ k = s /\ i = Len(slot[l][s]) + 1)
    <3>1. i \in 1..Len(slot[m][k]) /\ y = slot[m][k][i]
      <4>1. CASE m = l /\ k = s
        <5>1. i \in 1..Len(slot[l][s])
          BY <1>8, <1>9, <1>10, <2>2, <4>1
        <5> QED
          BY <1>9, <1>10, <4>1, <5>1
      <4>2. CASE ~(m = l /\ k = s)
        BY <1>10, <4>2
      <4> QED
        BY <4>1, <4>2
    <3>2. Entry(y, m, k, i) /\ y # x
      BY <1>2, <3>1, NotThere DEF IInv, Entries
    <3>3. y \in Timers
      <4>1. slot[m][k] \in Seq(Timers)
        BY Basics
      <4> QED
        BY <3>1, <4>1
    <3> HIDE DEF y
    <3>4. reg'[y] = reg[y] /\ due'[y] = due[y] /\ called' = called
      BY SMTT(30), <1>2, <1>6, <1>11, <3>2, <3>3
    <3>5. /\ reg'[y].wheel = m /\ reg'[y].slot = k /\ reg'[y].index = i
          /\ due'[y] # 0 \/ y = called'
      BY SMTT(30), <3>2, <3>4 DEF Entry
    <3> QED
      BY SMTT(30), <3>5 DEF Entry, y
  <2> QED
    BY <2>1, <2>2
<1>16. Scheduled'
  <2> SUFFICES ASSUME NEW y \in Timers, due'[y] # 0
               PROVE  /\ Placed(y)'
                      /\ Timed(tick', cur', pos'.wheel, reg'[y], left'[y], comp'[y], due'[y])
    BY SMTT(30) DEF Scheduled
  <2>1. CASE y = x
    <3>1. Placed(x)'
      <4>1. Len(slot[l][s]) + 1 \in 1..Len(e)
        BY <1>8, <1>9
      <4> QED
        BY SMTT(30), <1>4, <1>9, <1>10, <1>11, <4>1 DEF Placed
    <3> QED
      BY <1>7, <2>1, <3>1
  <2>2. CASE y # x
    <3>1. due[y] # 0 /\ due'[y] = due[y] /\ left'[y] = left[y] /\ comp'[y] = comp[y] /\ reg'[y] = reg[y]
      BY <1>6, <1>7, <1>11, <2>2
    <3>2. Placed(y) /\ Timed(tick, cur, pos.wheel, reg[y], left[y], comp[y], due[y])
      BY <3>1 DEF IInv, Scheduled
    <3>3. Placed(y)'
      <4> DEFINE m == reg[y].wheel
                 k == reg[y].slot
                 i == reg[y].index
      <4>1. m \in Levels /\ k \in 1..Count[m] /\ i \in 1..Len(slot[m][k]) /\ slot[m][k][i] = y
        BY Zenon, <3>2 DEF Placed
      <4> HIDE DEF m, k, i
      <4>2. i \in 1..Len(slot'[m][k]) /\ slot'[m][k][i] = y
        <5>1. CASE m = l /\ k = s
          <6>1. i \in 1..Len(e)
            BY <1>8, <1>9, <4>1, <5>1
          <6> QED
            BY <1>9, <1>10, <4>1, <5>1, <6>1
        <5>2. CASE ~(m = l /\ k = s)
          BY <1>10, <4>1, <5>2
        <5> QED
          BY <5>1, <5>2
      <4> QED
        BY Zenon, <3>1, <4>1, <4>2 DEF Placed, m, k, i
    <3>4. Timed(tick', cur', pos'.wheel, reg'[y], left'[y], comp'[y], due'[y])
      BY <1>2, <3>1, <3>2
    <3> QED
      BY SMTT(30), <3>3, <3>4
  <2> QED
    BY <2>1, <2>2
<1> QED
  BY <1>12, <1>13, <1>14, <1>15, <1>16 DEF IInv

\* A timer moves down.
LEMMA cashDataKeeps ==
  ASSUME IInv, cashData
  PROVE  IInv'
<1> DEFINE w == pos.wheel
           c == cur[w]
           n == pos.index
           x == Running[n]
           t == left[x] - comp[x]
           l == WheelFor(t)
           s == SlotFor(l, t)
           e == Without(Running, n)
           f == Append(slot[l][s], x)
           h == [slot EXCEPT ![l][s] = f]
<1>1. /\ w > 1 /\ n \in DOMAIN Running /\ called = NoTimer /\ t > 0
      /\ left' = [left EXCEPT ![x] = t] /\ Add(x, t)
      /\ slot' = [h EXCEPT ![w][c] = Without(h[w][c], n)]
      /\ pos' = [pos EXCEPT !.index = @ - 1]
      /\ UNCHANGED <<tick, cur, called, due, asked>>
  <2>1. w > 1 /\ n \in DOMAIN Running /\ called = NoTimer /\ t > 0
    BY DEF cashData, Cashing, Moving, TimeLeft
  <2>2. left' = [left EXCEPT ![x] = t]
    BY DEF cashData, Cashing, Moving, TimeLeft
  <2>3. Add(x, t)
    BY Zenon DEF cashData, Moving, TimeLeft
  <2>4. slot' = [h EXCEPT ![w][c] = Without(h[w][c], n)]
    BY Zenon DEF cashData, Moving, TimeLeft, Added
  <2>5. /\ pos' = [pos EXCEPT !.index = @ - 1]
        /\ UNCHANGED <<tick, cur, called, due, asked>>
    BY DEF cashData
  <2> HIDE DEF w, c, n, x, t, h
  <2> QED
    BY <2>1, <2>2, <2>3, <2>4, <2>5
<1>2. w # 0
  <2>1. pos.wheel > 1
    BY DEF cashData, Cashing
  <2> QED
    BY <2>1, Basics
<1>3. /\ w \in Levels /\ n > 0 /\ x \in Timers /\ due[x] # 0
      /\ reg[x].wheel = w /\ reg[x].slot = c /\ reg[x].index = n
      /\ Count[w] > 1 /\ due[x] = tick + t /\ t \in 0..2 * Param[w] - 1
  BY ZenonT(30), <1>1, <1>2, AtTheFront
<1>4. /\ c \in 1..Count[w] /\ Running \in Seq(Timers) /\ n = Len(Running) /\ n - 1 \in Nat
      /\ e \in Seq(Timers) /\ Len(e) = n - 1 /\ \A j \in 1..n - 1 : e[j] = Running[j]
  BY <1>2, <1>3, LastLeaves
<1>5. Running = slot[w][c]
  BY DEF Running
<1> HIDE DEF w, c, n, x, t
<1>6. t \in Nat \ {0} /\ t < getRange(w) /\ t <= getRange(w)
  <2>1. Param[w] \in Nat \ {0} /\ Count[w] \in Nat
    BY <1>3, ParamDef, Sizes
  <2>2. t \in Nat \ {0} /\ t < 2 * Param[w]
    BY <1>1, <1>3, <2>1
  <2>3. \A a, p \in Nat : a > 1 => 2 * p <= a * p /\ a * p \in Nat
    <3> SUFFICES ASSUME NEW a \in Nat, NEW p \in Nat, a > 1
                 PROVE  2 * p <= a * p /\ a * p \in Nat
      OBVIOUS
    <3>1. PICK b \in Nat : a = 2 + b
      OBVIOUS
    <3>2. a * p = 2 * p + b * p /\ b * p \in Nat
      BY <3>1
    <3> QED
      BY <3>2
  <2>4. 2 * Param[w] <= Count[w] * Param[w] /\ Count[w] * Param[w] \in Nat
    BY <1>3, <2>1, <2>3
  <2> QED
    BY <2>1, <2>2, <2>4 DEF getRange
<1>7. l \in Levels /\ s \in 1..Count[l] /\ (s = cur[l] => t = getRange(l))
  BY <1>3, <1>6, PositionsHold, AddFits
<1>8. ~(l = w /\ s = c)
  <2>1. ASSUME l = w, s = c PROVE FALSE
    <3>1. s = cur[l]
      BY <2>1 DEF c
    <3>2. t = getRange(w)
      BY <1>7, <2>1, <3>1
    <3> QED
      BY <1>6, <3>2
  <2> QED
    BY <2>1
<1>9. /\ left \in [Timers -> Int] /\ due \in [Timers -> Nat] /\ tick \in Nat
      /\ reg \in [Timers -> [wheel : {0} \cup Levels, slot : Nat, index : Nat, tick : Nat]]
  BY Basics DEF IInv, Types
<1>10. /\ left' \in [Timers -> Int] /\ left'[x] = t
       /\ \A y \in Timers : y # x => left'[y] = left[y]
  BY <1>1, <1>3, <1>6, <1>9
<1>11. pos'.wheel = w /\ pos'.index = n - 1 /\ pos' \in [wheel : Nat, index : Nat]
  BY Zenon, <1>1, <1>4 DEF IInv, Types, w, n
<1>12. /\ reg' = [reg EXCEPT ![x] = [wheel |-> l, slot |-> s,
                                    index |-> Len(slot[l][s]) + 1, tick |-> tick]]
       /\ comp' \in [Timers -> Nat]
       /\ \A y \in Timers : y # x => comp'[y] = comp[y]
       /\ Timed(tick', cur', pos'.wheel, reg'[x], left'[x], comp'[x], due'[x])
  <2>1. /\ tick' = tick /\ cur' = cur /\ pos'.wheel = pos.wheel /\ Add(x, t)
        /\ left'[x] = t /\ due'[x] = tick + t
    BY <1>1, <1>3, <1>10, <1>11 DEF w
  <2>2. ~(WheelFor(t) = pos.wheel /\ SlotFor(WheelFor(t), t) = cur[WheelFor(t)])
    BY <1>8 DEF w, c
  <2> QED
    BY Zenon, <1>3, <1>6, <2>1, <2>2, AddedOnTime
<1> HIDE DEF l, s, e
<1>13. slot[l][s] \in Seq(Timers) /\ Len(slot[l][s]) \in Nat
  <2>1. slot[l][s] \in Seq(Timers)
    BY <1>7, Basics
  <2> QED
    BY <2>1
<1>14. /\ f \in Seq(Timers) /\ Len(f) = Len(slot[l][s]) + 1 /\ f[Len(slot[l][s]) + 1] = x
       /\ \A j \in 1..Len(slot[l][s]) : f[j] = slot[l][s][j]
  BY Zenon, <1>3, <1>13, AppendKeeps
<1> HIDE DEF f
<1>15. /\ Slots(slot') /\ slot'[w][c] = e /\ slot'[l][s] = f
       /\ \A m \in Levels : \A k \in 1..Count[m] :
             ~(m = l /\ k = s) /\ ~(m = w /\ k = c) => slot'[m][k] = slot[m][k]
  <2>1. Slots(slot)
    BY DEF IInv, Types
  <2>2. /\ Slots(h) /\ h[l][s] = f
        /\ \A m \in Levels : \A k \in 1..Count[m] : ~(m = l /\ k = s) => h[m][k] = slot[m][k]
    BY SMTT(30), <1>7, <1>14, <2>1, OneSlot
  <2>3. slot' = [h EXCEPT ![w][c] = Without(h[w][c], n)]
    BY <1>1
  <2> HIDE DEF h
  <2>4. Without(h[w][c], n) = e
    BY <1>3, <1>4, <1>5, <1>8, <2>2 DEF e
  <2> DEFINE g == [h EXCEPT ![w][c] = e]
  <2>5. /\ Slots(g) /\ g[w][c] = e
        /\ \A m \in Levels : \A k \in 1..Count[m] : ~(m = w /\ k = c) => g[m][k] = h[m][k]
    BY <1>3, <1>4, <2>2, OneSlot
  <2>6. slot' = g
    BY <2>3, <2>4
  <2> HIDE DEF g
  <2> QED
    BY <1>7, <1>8, <2>2, <2>5, <2>6
<1>16. /\ reg'[x].wheel = l /\ reg'[x].slot = s /\ reg'[x].index = Len(slot[l][s]) + 1
       /\ \A y \in Timers : y # x => reg'[y] = reg[y]
       /\ reg' \in [Timers -> [wheel : {0} \cup Levels, slot : Nat, index : Nat, tick : Nat]]
  <2>1. [wheel |-> l, slot |-> s, index |-> Len(slot[l][s]) + 1, tick |-> tick]
           \in [wheel : {0} \cup Levels, slot : Nat, index : Nat, tick : Nat]
    BY <1>7, <1>9, <1>13
  <2> QED
    BY Zenon, <1>3, <1>9, <1>12, <2>1
<1>17. Types'
  BY Zenon, <1>1, <1>10, <1>11, <1>12, <1>15, <1>16 DEF IInv, Types
<1>18. Clock'
  BY <1>1, <1>2, <1>11 DEF IInv, Clock, w
<1>19. Queued'
  <2>1. Running' = e
    BY Zenon, <1>1, <1>11, <1>15 DEF Running, c, w
  <2> QED
    BY <1>1, <1>4, <1>11, <2>1 DEF Queued
<1>20. Entries'
  <2> SUFFICES ASSUME NEW m \in Levels, NEW k \in 1..Count[m], NEW i \in 1..Len(slot'[m][k])
               PROVE  Entry(slot[m][k][i], m, k, i)'
    BY Zenon DEF Entries
  <2> DEFINE y == slot'[m][k][i]
  <2>1. CASE m = l /\ k = s /\ i = Len(slot[l][s]) + 1
    <3>1. y = x
      BY <1>14, <1>15, <2>1
    <3>2. reg'[x].wheel = m /\ reg'[x].slot = k /\ reg'[x].index = i /\ due'[x] # 0
      BY <1>1, <1>3, <1>16, <2>1
    <3> HIDE DEF y
    <3>3. reg'[y].wheel = m /\ reg'[y].slot = k /\ reg'[y].index = i /\ due'[y] # 0
      BY <3>1, <3>2
    <3> QED
      BY <3>3 DEF Entry, y
  <2>2. CASE ~(m = l /\ k = s /\ i = Len(slot[l][s]) + 1)
    <3>1. i \in 1..Len(slot[m][k]) /\ y = slot[m][k][i] /\ ~(m = w /\ k = c /\ i = n)
      <4>1. CASE m = l /\ k = s
        <5>1. i \in 1..Len(slot[l][s])
          BY <1>13, <1>14, <1>15, <2>2, <4>1
        <5> QED
          BY <1>8, <1>14, <1>15, <4>1, <5>1
      <4>2. CASE m = w /\ k = c
        <5>1. i \in 1..n - 1
          BY <1>4, <1>15, <4>2
        <5>2. i \in 1..Len(Running) /\ e[i] = Running[i] /\ i # n
          BY <1>4, <5>1
        <5> QED
          BY <1>5, <1>15, <4>2, <5>2
      <4>3. CASE ~(m = l /\ k = s) /\ ~(m = w /\ k = c)
        BY SMTT(30), <1>15, <4>3
      <4> QED
        BY <4>1, <4>2, <4>3
    <3>2. Entry(y, m, k, i) /\ y # x
      <4>1. Entry(y, m, k, i)
        BY Zenon, <3>1 DEF IInv, Entries
      <4> QED
        BY <1>3, <3>1, <4>1 DEF Entry
    <3>3. y \in Timers
      <4>1. slot[m][k] \in Seq(Timers)
        BY Basics
      <4> QED
        BY <3>1, <4>1
    <3> HIDE DEF y
    <3>4. reg'[y] = reg[y] /\ due'[y] = due[y] /\ called' = called
      BY <1>1, <1>16, <3>2, <3>3
    <3>5. /\ reg'[y].wheel = m /\ reg'[y].slot = k /\ reg'[y].index = i
          /\ due'[y] # 0 \/ y = called'
      BY SMTT(30), <3>2, <3>4 DEF Entry
    <3> QED
      BY <3>5 DEF Entry, y
  <2> QED
    BY <2>1, <2>2
<1>21. Scheduled'
  <2> SUFFICES ASSUME NEW y \in Timers, due'[y] # 0
               PROVE  /\ Placed(y)'
                      /\ Timed(tick', cur', pos'.wheel, reg'[y], left'[y], comp'[y], due'[y])
    BY SMTT(30) DEF Scheduled
  <2>1. CASE y = x
    <3>1. Placed(y)'
      <4>1. Len(slot[l][s]) + 1 \in 1..Len(f)
        BY <1>13, <1>14
      <4>2. reg'[y].wheel = l /\ reg'[y].slot = s /\ reg'[y].index = Len(slot[l][s]) + 1
        BY <1>16, <2>1
      <4> QED
        BY <1>7, <1>14, <1>15, <2>1, <4>1, <4>2 DEF Placed
    <3> QED
      BY <1>12, <2>1, <3>1
  <2>2. CASE y # x
    <3>1. due[y] # 0 /\ due'[y] = due[y] /\ left'[y] = left[y] /\ comp'[y] = comp[y] /\ reg'[y] = reg[y]
      BY SMTT(30), <1>1, <1>10, <1>12, <1>16, <2>2
    <3>2. Placed(y) /\ Timed(tick, cur, pos.wheel, reg[y], left[y], comp[y], due[y])
      BY SMTT(30), <3>1 DEF IInv, Scheduled
    <3>3. Placed(y)'
      <4> DEFINE m == reg[y].wheel
                 k == reg[y].slot
                 i == reg[y].index
      <4>1. m \in Levels /\ k \in 1..Count[m] /\ i \in 1..Len(slot[m][k]) /\ slot[m][k][i] = y
        BY Zenon, <3>2 DEF Placed
      <4> HIDE DEF m, k, i
      <4>2. i \in 1..Len(slot'[m][k]) /\ slot'[m][k][i] = y
        <5>1. CASE m = l /\ k = s
          <6>1. i \in 1..Len(f)
            BY <1>13, <1>14, <4>1, <5>1
          <6> QED
            BY <1>14, <1>15, <4>1, <5>1, <6>1
        <5>2. CASE m = w /\ k = c
          <6>1. i # n
            BY <1>5, <2>2, <4>1, <5>2 DEF x
          <6> QED
            BY SMTT(30), <1>4, <1>5, <1>15, <4>1, <5>2, <6>1
        <5>3. CASE ~(m = l /\ k = s) /\ ~(m = w /\ k = c)
          BY <1>15, <4>1, <5>3
        <5> QED
          BY SMTT(30), <5>1, <5>2, <5>3
      <4> QED
        BY <3>1, <4>1, <4>2 DEF Placed, m, k, i
    <3>4. Timed(tick', cur', pos'.wheel, reg'[y], left'[y], comp'[y], due'[y])
      BY <1>1, <1>11, <3>1, <3>2 DEF w
    <3> QED
      BY <3>3, <3>4
  <2> QED
    BY <2>1, <2>2
<1> QED
  BY <1>17, <1>18, <1>19, <1>20, <1>21 DEF IInv

\* r is y's registration after position i of its slot was removed and e is left:
\* its position if it is behind the gap, and what it was otherwise.
Renumbered(r, y, i, e) ==
    /\ r \in [wheel : {0} \cup Levels, slot : Nat, index : Nat, tick : Nat]
    /\ r.wheel = reg[y].wheel /\ r.slot = reg[y].slot /\ r.tick = reg[y].tick
    /\ \A j \in i..Len(e) : e[j] = y => r.index = j
    /\ (\A j \in i..Len(e) : e[j] # y) => r = reg[y]

\* Remove renumbers the timers behind the gap and leaves the others alone.
LEMMA ShiftedIs ==
  ASSUME IInv, NEW l \in Levels, NEW k \in 1..Count[l], NEW i \in 1..Len(slot[l][k]),
         NEW y \in Timers
  PROVE  LET e == Without(slot[l][k], i)
         IN  Renumbered(Shifted(i, e)[y], y, i, e)
<1> DEFINE q == slot[l][k]
           e == Without(q, i)
           r == Shifted(i, e)[y]
           J == {j \in i..Len(e) : e[j] = y}
<1>1. q \in Seq(Timers) /\ reg[y] \in [wheel : {0} \cup Levels, slot : Nat, index : Nat, tick : Nat]
  BY Zenon, Basics DEF IInv, Types
<1>2. /\ e \in Seq(Timers) /\ Len(e) = Len(q) - 1
      /\ \A j \in 1..Len(q) - 1 : e[j] = IF j < i THEN q[j] ELSE q[j + 1]
  BY Zenon, <1>1, RemoveCloses
<1>3. r = IF \E j \in i..Len(e) : e[j] = y THEN [reg[y] EXCEPT !.index = Max(J)] ELSE reg[y]
  BY DEF Shifted
<1> HIDE DEF r, e
<1>4. ASSUME NEW j \in i..Len(e), e[j] = y PROVE reg[y].index = j + 1
  <2>1. j + 1 \in 1..Len(q) /\ j \in 1..Len(q) - 1 /\ ~(j < i)
    BY <1>1, <1>2, <1>4
  <2>2. q[j + 1] = y
    BY <1>2, <1>4, <2>1
  <2>3. Entry(q[j + 1], l, k, j + 1)
    BY SMTT(30), <2>1 DEF IInv, Entries
  <2> QED
    BY <2>2, <2>3 DEF Entry
<1>5. ASSUME NEW j \in i..Len(e), e[j] = y PROVE r = [reg[y] EXCEPT !.index = j] /\ j \in Nat
  <2>1. j \in Nat /\ \A a \in J : a \in Nat
    BY <1>1, <1>2
  <2>2. \A a \in J : a = j
    BY <1>4, <1>5, <2>1
  <2>3. J = {j}
    BY <1>5, <2>2
  <2>4. Max({j}) = j
    BY <2>1 DEF Max
  <2>5. Max(J) = j
    BY SMTT(30), <2>3, <2>4
  <2> HIDE DEF J
  <2> QED
    BY <1>3, <1>5, <2>1, <2>5
<1>6. CASE \E j \in i..Len(e) : e[j] = y
  <2>1. PICK j \in i..Len(e) : e[j] = y
    BY <1>6
  <2>2. r = [reg[y] EXCEPT !.index = j] /\ j \in Nat
    BY <1>5, <2>1
  <2>3. /\ r \in [wheel : {0} \cup Levels, slot : Nat, index : Nat, tick : Nat]
        /\ r.wheel = reg[y].wheel /\ r.slot = reg[y].slot /\ r.tick = reg[y].tick
    BY SMTT(30), <1>1, <2>2
  <2>4. ASSUME NEW a \in i..Len(e), e[a] = y PROVE r.index = a
    BY <1>1, <1>5, <2>4
  <2> QED
    BY <1>6, <2>3, <2>4 DEF Renumbered, r, e
<1>7. CASE ~ \E j \in i..Len(e) : e[j] = y
  <2>1. r = reg[y]
    BY <1>3, <1>7
  <2> QED
    BY <1>1, <1>7, <2>1 DEF Renumbered, r, e
<1> QED
  BY Zenon, <1>6, <1>7

\* A script removes a timer.
LEMMA removDelayEventKeeps ==
  ASSUME IInv, NEW x \in Timers, removDelayEvent(x)
  PROVE  IInv'
<1> DEFINE l == reg[x].wheel
           k == reg[x].slot
           i == reg[x].index
           q == slot[l][k]
           e == Without(q, i)
           R == [wheel : {0} \cup Levels, slot : Nat, index : Nat, tick : Nat]
<1>1. due[x] # 0 /\ Placed(x)
  BY DEF removDelayEvent, IInv, Scheduled
<1>2. l \in Levels /\ k \in 1..Count[l] /\ i \in 1..Len(q) /\ q[i] = x /\ q \in Seq(Timers)
  <2>1. l \in Levels /\ k \in 1..Count[l] /\ i \in 1..Len(q) /\ q[i] = x
    BY <1>1 DEF Placed
  <2> QED
    BY <2>1, Basics
<1>3. /\ e \in Seq(Timers) /\ Len(e) = Len(q) - 1 /\ Len(q) \in Nat
      /\ \A j \in 1..Len(q) - 1 : e[j] = IF j < i THEN q[j] ELSE q[j + 1]
  <2> HIDE DEF l, k, i, q
  <2>1. q \in Seq(Timers) /\ i \in 1..Len(q)
    BY <1>2
  <2>2. Len(q) \in Nat
    BY SMTT(30), <2>1
  <2> QED
    BY <2>1, <2>2, RemoveCloses
<1>5. /\ slot' = [slot EXCEPT ![l][k] = e] /\ reg' = [Shifted(i, e) EXCEPT ![x] = NoReg]
      /\ due' = [due EXCEPT ![x] = 0] /\ left' = [left EXCEPT ![x] = 0]
      /\ comp' = [comp EXCEPT ![x] = 0] /\ asked' = [asked EXCEPT ![x] = 0]
      /\ UNCHANGED <<tick, cur, pos, called>>
  BY DEF removDelayEvent, Forget
<1>6. pos = Idle \/ (called # NoTimer /\ x \notin Range(Running))
  BY DEF removDelayEvent
<1>7. \A y \in Timers : Renumbered(Shifted(i, e)[y], y, i, e)
  <2> HIDE DEF l, k, i
  <2>1. l \in Levels /\ k \in 1..Count[l] /\ i \in 1..Len(slot[l][k])
    BY <1>2
  <2> QED
    BY Zenon, <2>1, ShiftedIs
<1>8. DOMAIN Shifted(i, e) = Timers
  BY SMTT(30) DEF Shifted
<1> HIDE DEF l, k, i, q, e
<1>9. /\ reg'[x] = NoReg
      /\ \A y \in Timers : y # x =>
            /\ reg'[y].wheel = reg[y].wheel /\ reg'[y].slot = reg[y].slot
            /\ reg'[y].tick = reg[y].tick
            /\ \A j \in i..Len(e) : e[j] = y => reg'[y].index = j
            /\ (\A j \in i..Len(e) : e[j] # y) => reg'[y] = reg[y]
  <2>1. reg'[x] = NoReg /\ \A y \in Timers : y # x => reg'[y] = Shifted(i, e)[y]
    BY <1>5, <1>8
  <2> QED
    BY <1>7, <2>1 DEF Renumbered
<1>10. reg' \in [Timers -> R]
  <2>1. NoReg \in R
    BY DEF NoReg
  <2>2. DOMAIN reg' = Timers /\ \A y \in Timers : reg'[y] = IF y = x THEN NoReg ELSE Shifted(i, e)[y]
    BY <1>5, <1>8
  <2>3. reg' = [y \in Timers |-> reg'[y]]
    BY Zenon, <1>5, <1>8
  <2>4. \A y \in Timers : Shifted(i, e)[y] \in R
    BY <1>7 DEF Renumbered
  <2> HIDE DEF R
  <2>5. \A y \in Timers : reg'[y] \in R
    BY <2>1, <2>2, <2>4
  <2> QED
    BY <2>3, <2>5
<1>11. /\ due' \in [Timers -> Nat] /\ left' \in [Timers -> Int] /\ comp' \in [Timers -> Nat]
       /\ asked' \in [Timers -> Nat] /\ due'[x] = 0
       /\ \A y \in Timers : y # x => /\ due'[y] = due[y] /\ left'[y] = left[y]
                                     /\ comp'[y] = comp[y]
  BY <1>5 DEF IInv, Types
<1>12. /\ Slots(slot') /\ slot'[l][k] = e
       /\ \A m \in Levels : \A b \in 1..Count[m] :
             ~(m = l /\ b = k) => slot'[m][b] = slot[m][b]
  <2> DEFINE g == [slot EXCEPT ![l][k] = e]
  <2>1. Slots(slot)
    BY DEF IInv, Types
  <2>2. /\ Slots(g) /\ g[l][k] = e
        /\ \A m \in Levels : \A b \in 1..Count[m] : ~(m = l /\ b = k) => g[m][b] = slot[m][b]
    BY <1>2, <1>3, <2>1, OneSlot
  <2>3. slot' = g
    BY <1>5
  <2> QED
    BY <2>2, <2>3
<1>13. Types'
  BY <1>5, <1>10, <1>11, <1>12 DEF IInv, Types
<1>14. Clock'
  BY <1>5 DEF IInv, Clock
<1>15. Queued'
  <2>1. pos.wheel # 0 => Running' = Running
    <3> SUFFICES ASSUME pos.wheel # 0 PROVE Running' = Running
      OBVIOUS
    <3>1. pos.wheel \in Levels /\ cur[pos.wheel] \in 1..Count[pos.wheel]
      BY Basics
    <3>2. x \notin Range(Running)
      BY <1>6 DEF Idle
    <3>3. ~(pos.wheel = l /\ cur[pos.wheel] = k)
      <4>1. x \in Range(q)
        <5>1. i \in DOMAIN q /\ q[i] = x
          BY <1>2
        <5> QED
          BY Zenon, <5>1 DEF Range
      <4>2. pos.wheel = l /\ cur[pos.wheel] = k => Running = q
        BY Zenon DEF Running, q
      <4> QED
        BY Zenon, <3>2, <4>1, <4>2
    <3> QED
      BY <1>5, <1>12, <3>1, <3>3 DEF Running
  <2>2. called # NoTimer => called \in Timers /\ due[called] = 0 /\ due'[called] = 0
    BY SMTT(30), <1>1, <1>11 DEF IInv, Types, Queued
  <2> QED
    BY <1>5, <2>1, <2>2 DEF IInv, Queued
<1>16. \A m \in Levels : \A b \in 1..Count[m] : \A j \in 1..Len(slot[m][b]) :
          /\ Entry(slot[m][b][j], m, b, j) /\ slot[m][b][j] \in Timers
          /\ slot[m][b][j] = x => m = l /\ b = k /\ j = i
  <2> SUFFICES ASSUME NEW m \in Levels, NEW b \in 1..Count[m], NEW j \in 1..Len(slot[m][b])
               PROVE  /\ Entry(slot[m][b][j], m, b, j) /\ slot[m][b][j] \in Timers
                      /\ slot[m][b][j] = x => m = l /\ b = k /\ j = i
    BY SMTT(30)
  <2>1. Entry(slot[m][b][j], m, b, j)
    BY Zenon DEF IInv, Entries
  <2>2. slot[m][b] \in Seq(Timers)
    BY Basics
  <2>3. slot[m][b][j] \in Timers
    BY <2>2
  <2> QED
    BY <2>1, <2>3 DEF Entry, l, k, i
\* Who is in the rest, behind the gap, was registered one position further.
<1>17. \A j \in i..Len(e) : /\ reg[e[j]].wheel = l /\ reg[e[j]].slot = k
                            /\ reg[e[j]].index = j + 1
  <2> SUFFICES ASSUME NEW j \in i..Len(e)
               PROVE  reg[e[j]].wheel = l /\ reg[e[j]].slot = k /\ reg[e[j]].index = j + 1
    OBVIOUS
  <2>1. j + 1 \in 1..Len(q) /\ j \in 1..Len(q) - 1 /\ ~(j < i)
    BY <1>2, <1>3
  <2>2. e[j] = q[j + 1]
    BY <1>3, <2>1
  <2>3. Entry(q[j + 1], l, k, j + 1)
    BY Zenon, <1>2, <1>16, <2>1 DEF q
  <2> QED
    BY <2>2, <2>3 DEF Entry
\* What is at position j of another slot, or before the gap, is not renumbered.
<1>18. ASSUME NEW y \in Timers, y # x, ~(reg[y].wheel = l /\ reg[y].slot = k /\ reg[y].index > i)
       PROVE  reg'[y] = reg[y]
  <2>1. ASSUME NEW j \in i..Len(e) PROVE e[j] # y
    <3>1. j + 1 > i
      BY <1>2, <1>3
    <3> QED
      BY <1>17, <1>18, <3>1
  <2> QED
    BY <1>9, <1>18, <2>1
<1>19. ASSUME NEW y \in Timers, y # x, NEW j \in 1..Len(q), q[j] = y, j > i
       PROVE  reg'[y].index = j - 1 /\ j - 1 \in i..Len(e) /\ e[j - 1] = y
  <2>1. j - 1 \in i..Len(e) /\ j - 1 \in 1..Len(q) - 1 /\ ~(j - 1 < i) /\ (j - 1) + 1 = j
    BY <1>2, <1>3, <1>19
  <2>2. e[j - 1] = y
    BY SMTT(30), <1>3, <1>19, <2>1
  <2> QED
    BY <1>9, <1>19, <2>1, <2>2
<1>20. Entries'
  <2> SUFFICES ASSUME NEW m \in Levels, NEW b \in 1..Count[m], NEW j \in 1..Len(slot'[m][b])
               PROVE  Entry(slot[m][b][j], m, b, j)'
    BY Zenon DEF Entries
  <2> DEFINE y == slot'[m][b][j]
  <2>1. /\ y \in Timers /\ y # x /\ (due[y] # 0 \/ y = called)
        /\ reg'[y].wheel = m /\ reg'[y].slot = b /\ reg'[y].index = j
    <3>1. CASE ~(m = l /\ b = k)
      <4>1. y = slot[m][b][j] /\ j \in 1..Len(slot[m][b])
        BY <1>12, <3>1
      <4>2. y \in Timers /\ y # x /\ Entry(y, m, b, j)
        BY Zenon, <1>16, <3>1, <4>1
      <4> HIDE DEF y
      <4>3. reg'[y] = reg[y]
        BY <1>18, <3>1, <4>2 DEF Entry
      <4> QED
        BY <4>2, <4>3 DEF Entry
    <3>2. CASE m = l /\ b = k /\ j < i
      <4>1. j \in 1..Len(q) - 1 /\ j \in 1..Len(q) /\ ~(j > i) /\ j # i
        BY <1>2, <1>3, <1>12, <3>2
      <4>2. y = q[j]
        BY <1>3, <1>12, <3>2, <4>1
      <4>3. y \in Timers /\ y # x /\ Entry(y, m, b, j)
        BY Zenon, <1>16, <3>2, <4>1, <4>2 DEF q
      <4> HIDE DEF y
      <4>4. reg'[y] = reg[y]
        BY <1>18, <4>1, <4>3 DEF Entry
      <4> QED
        BY <4>3, <4>4 DEF Entry
    <3>3. CASE m = l /\ b = k /\ ~(j < i)
      <4>1. j + 1 \in 1..Len(q) /\ j \in 1..Len(q) - 1 /\ j + 1 > i /\ j + 1 # i
        BY SMTT(30), <1>2, <1>3, <1>12, <3>3
      <4>2. y = q[j + 1]
        BY <1>3, <1>12, <3>3, <4>1
      <4>3. y \in Timers /\ y # x /\ Entry(y, m, b, j + 1)
        BY ZenonT(30), <1>16, <3>3, <4>1, <4>2 DEF q
      <4> HIDE DEF y
      <4>4. reg'[y].index = (j + 1) - 1
        BY <1>19, <4>1, <4>2, <4>3
      <4>5. (j + 1) - 1 = j
        BY <4>1
      <4> QED
        BY <1>9, <4>3, <4>4, <4>5 DEF Entry
    <3> QED
      BY Zenon, <3>1, <3>2, <3>3
  <2> HIDE DEF y
  <2>2. due'[y] # 0 \/ y = called'
    BY <1>5, <1>11, <2>1
  <2> QED
    BY <2>1, <2>2 DEF Entry, y
<1>21. Scheduled'
  <2> SUFFICES ASSUME NEW y \in Timers, due'[y] # 0
               PROVE  /\ Placed(y)'
                      /\ Timed(tick', cur', pos'.wheel, reg'[y], left'[y], comp'[y], due'[y])
    BY Zenon DEF Scheduled
  <2>1. y # x /\ due[y] # 0 /\ due'[y] = due[y] /\ left'[y] = left[y] /\ comp'[y] = comp[y]
    BY <1>11
  <2>2. Placed(y) /\ Timed(tick, cur, pos.wheel, reg[y], left[y], comp[y], due[y])
    BY <2>1 DEF IInv, Scheduled
  <2>3. reg'[y].wheel = reg[y].wheel /\ reg'[y].slot = reg[y].slot /\ reg'[y].tick = reg[y].tick
    BY SMTT(30), <1>9, <2>1
  <2>4. Placed(y)'
    <3> DEFINE m == reg[y].wheel
               b == reg[y].slot
               j == reg[y].index
    <3>1. m \in Levels /\ b \in 1..Count[m] /\ j \in 1..Len(slot[m][b]) /\ slot[m][b][j] = y
      BY ZenonT(30), <2>2 DEF Placed
    <3>2. /\ reg'[y].index \in 1..Len(slot'[m][b])
          /\ slot'[m][b][reg'[y].index] = y
      <4>1. CASE ~(m = l /\ b = k)
        <5>1. reg'[y] = reg[y]
          BY <1>18, <2>1, <4>1
        <5> HIDE DEF m, b
        <5>2. slot'[m][b] = slot[m][b]
          BY <1>12, <3>1, <4>1
        <5>3. reg'[y].index = j
          BY <5>1
        <5> HIDE DEF j
        <5> QED
          BY Zenon, <3>1, <5>2, <5>3
      <4>2. CASE m = l /\ b = k /\ ~(j > i)
        <5>1. reg'[y] = reg[y]
          BY <1>18, <2>1, <4>2
        <5>2. j # i /\ j \in 1..Len(q) /\ q[j] = y
          BY <1>2, <2>1, <3>1, <4>2 DEF q
        <5> HIDE DEF j
        <5>3. j \in 1..Len(q) - 1 /\ j < i
          BY <1>2, <1>3, <4>2, <5>2
        <5>4. e[j] = y /\ j \in 1..Len(e)
          BY <1>3, <5>2, <5>3
        <5> QED
          BY <1>12, <4>2, <5>1, <5>4 DEF j
      <4>3. CASE m = l /\ b = k /\ j > i
        <5>1. j \in 1..Len(q) /\ q[j] = y
          BY <3>1, <4>3 DEF q
        <5> HIDE DEF j
        <5>2. reg'[y].index = j - 1 /\ j - 1 \in i..Len(e) /\ e[j - 1] = y
          BY <1>19, <2>1, <4>3, <5>1
        <5>3. j - 1 \in 1..Len(e)
          BY SMTT(30), <1>2, <1>3, <5>2
        <5> QED
          BY <1>12, <4>3, <5>2, <5>3
      <4> QED
        BY ZenonT(30), <4>1, <4>2, <4>3
    <3> QED
      BY <2>3, <3>1, <3>2 DEF Placed
  <2>5. Timed(tick', cur', pos'.wheel, reg'[y], left'[y], comp'[y], due'[y])
    BY <1>5, <2>1, <2>2, <2>3 DEF Timed
  <2> QED
    BY Zenon, <2>4, <2>5
<1> QED
  BY SMTT(30), <1>13, <1>14, <1>15, <1>20, <1>21 DEF IInv

-----------------------------------------------------------------------------
(* The theorems.                                                           *)

\* Every step preserves the invariant.
LEMMA NextIInv ==
  ASSUME NoFullTurn, IInv, [Next]_vars
  PROVE  IInv'
<1>1. CASE UNCHANGED vars
  <2>1. Types' /\ Clock'
    BY <1>1 DEF vars, IInv, Types, Clock
  <2>2. Queued'
    <3>1. pos' = pos /\ called' = called /\ due' = due /\ Running' = Running
      BY <1>1 DEF vars, Running
    <3> QED
      BY SMTT(30), <3>1 DEF IInv, Queued
  <2>3. Entries' /\ Scheduled'
    <3>1. /\ UNCHANGED <<slot, reg, left, comp, called, due, asked>>
          /\ tick' = tick /\ cur' = cur /\ pos' = pos
      BY <1>1 DEF vars
    <3>2. \A l \in Levels : \A s \in 1..Count[l] :
            When(tick', cur', pos'.wheel, l, s) = When(tick, cur, pos.wheel, l, s)
      BY Zenon, <3>1
    <3> QED
      BY <3>1, <3>2, MoveKeeps
  <2> QED
    BY <2>1, <2>2, <2>3 DEF IInv
<1>2. ASSUME NEW x \in Timers, NEW t \in Delays \cup CallbackDelays, addTimer(x, t) PROVE IInv'
  BY <1>2, addTimerKeeps
<1>3. ASSUME NEW x \in Timers, removDelayEvent(x) PROVE IInv'
  BY <1>3, removDelayEventKeeps
<1>4. CASE onTime
  BY <1>4, onTimeKeeps
<1>5. CASE onTimeCall
  BY <1>5, onTimeCallKeeps
<1>6. CASE CallReturns
  BY <1>6, CallReturnsKeeps
<1>7. CASE cashAllTurn
  BY <1>7, cashAllTurnKeeps
<1>8. CASE cashAllDone
  BY <1>8, cashAllDoneKeeps
<1>9. CASE cashData
  BY <1>9, cashDataKeeps
<1>10. CASE cashDataCall
  BY <1>10, cashDataCallKeeps
<1> QED
  BY <1>1, <1>2, <1>3, <1>4, <1>5, <1>6, <1>7, <1>8, <1>9, <1>10 DEF Next

\* The invariant holds in every state, for any wheels and any delays in their
\* range, unless a callback asks for exactly the range of a wheel.
THEOREM Inductive ==
  ASSUME NoFullTurn
  PROVE  Spec => []IInv
<1>1. Init => IInv
  BY InitIInv
<1>2. IInv /\ [Next]_vars => IInv'
  BY NextIInv
<1> QED
  BY <1>1, <1>2, PTL DEF Spec

\* Every variable of the wheels stays in its range.
THEOREM WheelTypes ==
  ASSUME NoFullTurn
  PROVE  Spec => []TypeOK
<1>1. IInv => TypeOK
  <2> SUFFICES ASSUME IInv PROVE TypeOK
    OBVIOUS
  <2>1. cur \in [Levels -> Nat] /\ \A l \in Levels : cur[l] <= Count[l]
    BY PositionsHold DEF Positions
  <2>2. pos.wheel \in {0} \cup Levels /\ pos.index \in Nat
    BY Basics
  <2>3. \A x \in Timers : reg[x].wheel \in {0} \cup Levels /\ reg[x].slot \in Nat
    BY DEF IInv, Types
  <2> QED
    BY <2>1, <2>2, <2>3 DEF IInv, Types, Slots, TypeOK
<1> QED
  BY <1>1, Inductive, PTL

\* A callback begins at the tick its timer was asked for: onTime reaches a slot of
\* the first wheel, and cashAll one of an upper wheel, when its timers are due.
THEOREM OnTime ==
  ASSUME NoFullTurn
  PROVE  Spec => FiresOnTime
<1> DEFINE A == called' \notin {called, NoTimer} => due[called'] = tick'
<1>1. ASSUME IInv, [Next]_vars, called' \notin {called, NoTimer}
      PROVE  due[called'] = tick'
  <2>1. CASE onTimeCall
    <3>1. /\ pos.wheel = 1 /\ pos.wheel # 0 /\ pos.index \in DOMAIN Running
          /\ called = NoTimer /\ called' = Running[pos.index] /\ tick' = tick
      BY <2>1 DEF onTimeCall, Call
    <3> QED
      BY <1>1, <3>1, AtTheFront
  <2>2. CASE cashDataCall
    <3>1. /\ pos.wheel > 1 /\ pos.index \in DOMAIN Running /\ called = NoTimer
          /\ called' = Running[pos.index] /\ tick' = tick
          /\ left[Running[pos.index]] - comp[Running[pos.index]] <= 0
      BY <2>2 DEF cashDataCall, Cashing, Call, Moving, TimeLeft
    <3>2. pos.wheel # 0 /\ tick \in Nat
      BY SMTT(30), <1>1, <3>1, Basics
    <3> DEFINE d == left[Running[pos.index]] - comp[Running[pos.index]]
               w == pos.wheel
    <3>3. w \in Levels /\ due[called'] = tick + d /\ d \in 0..2 * Param[w] - 1
      BY <1>1, <3>1, <3>2, AtTheFront
    <3>4. Param[w] \in Nat /\ d <= 0
      BY <3>1, <3>3, ParamDef
    <3> HIDE DEF d, w
    <3>5. d = 0
      BY <3>3, <3>4
    <3> QED
      BY <3>1, <3>2, <3>3, <3>5
  <2>3. CASE CallReturns
    BY <1>1, <2>3 DEF CallReturns
  <2>4. CASE UNCHANGED called
    BY <1>1, <2>4
  <2> QED
    BY ZenonT(30), <1>1, <2>1, <2>2, <2>3, <2>4
       DEF Next, vars, addTimer, removDelayEvent, onTime, cashAllTurn, cashAllDone, cashData
<1>2. IInv /\ [Next]_vars => [A]_vars
  BY <1>1
<1> QED
  BY <1>2, Inductive, PTL DEF Spec, FiresOnTime

\* Between two ticks whatever is pending is still to come.
THEOREM NothingMissed ==
  ASSUME NoFullTurn
  PROVE  Spec => []NoneMissed
<1>1. ASSUME IInv, pos = Idle, NEW x \in Timers, due[x] # 0 PROVE due[x] > tick
  <2> DEFINE l == reg[x].wheel
             s == reg[x].slot
  <2>1. /\ Placed(x) /\ pos.wheel = 0
        /\ Timed(tick, cur, pos.wheel, reg[x], left[x], comp[x], due[x])
    BY <1>1 DEF IInv, Scheduled, Idle
  <2>2. l \in Levels /\ s \in 1..Count[l] /\ Regular(cur, 0) /\ tick \in Nat
    BY Zenon, <1>1, <2>1, Basics DEF Placed, IInv, Clock
  <2>3. When(tick, cur, 0, l, s) \in Nat /\ When(tick, cur, 0, l, s) > tick
    BY <2>2, WhenIdle
  <2>4. CASE l = 1
    BY <2>1, <2>3, <2>4 DEF Timed
  <2>5. CASE l > 1
    <3>1. /\ due[x] = reg[x].tick + left[x] /\ When(tick, cur, 0, l, s) = reg[x].tick + comp[x]
          /\ left[x] - comp[x] \in 0..2 * Param[l] - 1
      BY <2>1, <2>5 DEF Timed
    <3>2. reg[x].tick \in Nat /\ left[x] \in Int /\ comp[x] \in Nat /\ Param[l] \in Nat
      BY <1>1, <2>2, ParamDef DEF IInv, Types
    <3>3. left[x] >= comp[x]
      BY <3>1, <3>2
    <3> QED
      BY SMTT(30), <2>2, <2>3, <3>1, <3>2, <3>3
  <2> QED
    BY SMTT(30), <2>2, <2>4, <2>5, Sizes
<1>2. IInv => NoneMissed
  BY <1>1 DEF NoneMissed
<1> QED
  BY <1>2, Inductive, PTL

\* A pending timer is where its registration says.
THEOREM Registered ==
  ASSUME NoFullTurn
  PROVE  Spec => []RegPointsToSelf
<1>1. ASSUME IInv, NEW x \in Timers, due[x] # 0
      PROVE  /\ reg[x].wheel \in Levels
             /\ reg[x].index \in DOMAIN slot[reg[x].wheel][reg[x].slot]
             /\ slot[reg[x].wheel][reg[x].slot][reg[x].index] = x
  <2>1. Placed(x)
    BY <1>1 DEF IInv, Scheduled
  <2>2. slot[reg[x].wheel][reg[x].slot] \in Seq(Timers)
    BY SMTT(30), <1>1, <2>1, Basics DEF Placed
  <2> QED
    BY <2>1, <2>2 DEF Placed
<1>2. IInv => RegPointsToSelf
  BY <1>1 DEF RegPointsToSelf
<1> QED
  BY <1>2, Inductive, PTL

\* TimeOut and RegTick together tell how long a timer still has to wait.
THEOREM Remaining ==
  ASSUME NoFullTurn
  PROVE  Spec => []RemainingExact
<1>1. ASSUME IInv, NEW x \in Timers, due[x] # 0
      PROVE  left[x] - (tick - reg[x].tick) = due[x] - tick
  <2>1. due[x] = reg[x].tick + left[x]
    BY <1>1 DEF IInv, Scheduled, Timed
  <2>2. reg[x].tick \in Nat /\ left[x] \in Int /\ tick \in Nat
    BY SMTT(30), <1>1, Basics DEF IInv, Types
  <2> QED
    BY SMTT(30), <2>1, <2>2
<1>2. IInv => RemainingExact
  BY <1>1 DEF RemainingExact
<1> QED
  BY <1>2, Inductive, PTL

\* Between two ticks what is not pending is in no slot.
THEOREM Gone ==
  ASSUME NoFullTurn
  PROVE  Spec => []RemovedIsGone
<1>1. ASSUME IInv, pos = Idle, NEW x \in Timers, due[x] = 0,
             NEW l \in Levels, NEW s \in 1..Count[l]
      PROVE  x \notin Range(slot[l][s])
  <2>1. x # called
    BY <1>1, NoTimerAssumption DEF IInv, Queued, Idle
  <2>2. \A i \in 1..Len(slot[l][s]) : slot[l][s][i] # x
    BY Zenon, <1>1, <2>1, NotThere
  <2>3. slot[l][s] \in Seq(Timers)
    BY <1>1, Basics
  <2> QED
    BY <2>2, <2>3 DEF Range
<1>2. IInv => RemovedIsGone
  BY <1>1 DEF RemovedIsGone
<1> QED
  BY <1>2, Inductive, PTL
=============================================================================
