-------------------------- MODULE ArithmeticLemmas --------------------------
(***************************************************************************)
(* Facts that the proofs of several components cite: a set of naturals has *)
(* a least element, a set that holds 0 and every successor holds all       *)
(* naturals, the arithmetic of multiples, and the loops of the models: a   *)
(* function defined by recursion over 0 .. n exists, and what every step   *)
(* of it keeps holds at its end.                                           *)
(***************************************************************************)
EXTENDS Integers, WellFoundedInduction, FiniteSetTheorems, TLAPS

(* Minimal intervals 0 .. x give minimal elements x.                       *)
LEMMA LeastElement ==
  ASSUME NEW S \in SUBSET Nat, S # {}
  PROVE  \E x \in S : \A y \in S : x <= y
<1>. DEFINE Upto(x) == S \cap (0 .. x)
            T == {Upto(x) : x \in S}
<1>1. T \subseteq FiniteSubsetsOf(Nat)
  <2>1. ASSUME NEW x \in S
        PROVE  IsFiniteSet(Upto(x)) /\ Upto(x) \subseteq Nat
    <3>1. IsFiniteSet(0 .. x)
      BY FS_Interval
    <3>. QED BY <3>1, FS_Subset
  <2>. QED BY <2>1 DEF FiniteSubsetsOf
<1>2. PICK m \in T : \A t \in T : <<t, m>> \notin StrictSubsetOrdering(Nat)
  <2>. HIDE DEF T
  <2>1. T # {}
    BY DEF T
  <2>. QED BY <1>1, <2>1, FS_StrictSubsetOrderingWellFounded, WFMin
<1>3. PICK x \in S : m = Upto(x)
  OBVIOUS
<1>4. ASSUME NEW y \in S, y < x
      PROVE  FALSE
  <2>1. Upto(y) \subseteq Upto(x) /\ x \in Upto(x) /\ x \notin Upto(y)
    BY <1>4
  <2>2. Upto(y) # m /\ Upto(y) \in SUBSET Nat /\ m \in SUBSET Nat /\ Upto(y) \subseteq m
    BY <2>1, <1>3
  <2>3. <<Upto(y), m>> \in StrictSubsetOrdering(Nat)
    BY <2>2, Zenon DEF StrictSubsetOrdering
  <2>. QED BY <2>3, <1>2
<1>. QED BY <1>4

(* Induction on a set of naturals: the least number outside it would be 0  *)
(* or the successor of a member.                                           *)
LEMMA InductiveSet ==
  ASSUME NEW S \in SUBSET Nat, 0 \in S, \A n \in S : n + 1 \in S
  PROVE  S = Nat
<1> SUFFICES ASSUME Nat \ S # {} PROVE FALSE
  OBVIOUS
<1>1. PICK x \in Nat \ S : \A y \in Nat \ S : x <= y
  BY LeastElement
<1>2. x # 0 /\ x - 1 \in Nat /\ x - 1 \notin Nat \ S
  BY <1>1
<1>. QED BY <1>1, <1>2

(* The largest member of a set that is bounded.                            *)
LEMMA GreatestElement ==
  ASSUME NEW S \in SUBSET Nat, S # {}, NEW b \in Nat, \A y \in S : y <= b
  PROVE  \E x \in S : \A y \in S : y <= x
<1>. DEFINE T == {b - y : y \in S}
<1>1. T \in SUBSET Nat /\ T # {}
  <2>1. ASSUME NEW y \in S
        PROVE  b - y \in Nat
    OBVIOUS
  <2>. QED BY <2>1
<1>. HIDE DEF T
<1>2. PICK t \in T : \A u \in T : t <= u
  BY <1>1, LeastElement
<1>. QED BY <1>2 DEF T
-----------------------------------------------------------------------------
Multiple(x, a) == x % a = 0

(* A multiple of a is a times something.                                   *)
LEMMA MultipleForm ==
  ASSUME NEW a \in Nat \ {0}, NEW x \in Int, Multiple(x, a)
  PROVE  \E k \in Int : x = a * k
<1>1. PICK k \in Int : x = a * k + (x % a)
  <2>1. x \div a \in Int /\ x = a * (x \div a) + (x % a)
    OBVIOUS
  <2>. QED BY <2>1
<1>2. x = a * k
  BY <1>1 DEF Multiple
<1>. QED BY <1>2

LEMMA ProductMultiple ==
  ASSUME NEW a \in Nat \ {0}, NEW k \in Int
  PROVE  Multiple(a * k, a)
BY DEF Multiple

(* Sums and differences of multiples, and multiples of a multiple.         *)
LEMMA MultipleSum ==
  ASSUME NEW a \in Nat \ {0}, NEW x \in Int, NEW y \in Int, Multiple(x, a), Multiple(y, a)
  PROVE  Multiple(x + y, a) /\ Multiple(x - y, a)
<1>1. PICK k \in Int : x = a * k
  BY MultipleForm
<1>2. PICK l \in Int : y = a * l
  BY MultipleForm
<1>3. PICK m \in Int, n \in Int : m = k + l /\ n = k - l
  OBVIOUS
<1>4. x + y = a * m /\ x - y = a * n
  BY <1>1, <1>2, <1>3
<1>. QED BY <1>4, ProductMultiple

LEMMA MultipleOfMultiple ==
  ASSUME NEW a \in Nat \ {0}, NEW b \in Nat \ {0}, NEW x \in Int, Multiple(x, b), Multiple(b, a)
  PROVE  Multiple(x, a)
<1>1. PICK k \in Int : x = b * k
  BY MultipleForm
<1>2. PICK l \in Int : b = a * l
  <2>1. b \in Int
    OBVIOUS
  <2>. QED BY <2>1, MultipleForm
<1>3. PICK m \in Int : m = l * k
  OBVIOUS
<1>4. x = a * m
  BY <1>1, <1>2, <1>3
<1>. QED BY <1>4, ProductMultiple

(* Different multiples of a are at least a apart.                          *)
LEMMA MultipleGap ==
  ASSUME NEW a \in Nat \ {0}, NEW x \in Int, NEW y \in Int,
         Multiple(x, a), Multiple(y, a), x < y
  PROVE  x + a <= y
<1>1. Multiple(y - x, a) /\ y - x \in Int
  BY MultipleSum
<1>2. PICK k \in Int : y - x = a * k
  BY <1>1, MultipleForm
<1>3. k > 0
  BY <1>2
<1>4. a * k >= a
  BY <1>3
<1>. QED BY <1>2, <1>4

(* Rounding down gives the largest multiple below, rounding up the least   *)
(* one above.                                                              *)
LEMMA RoundedDown ==
  ASSUME NEW a \in Nat \ {0}, NEW v \in Int, NEW d, d = v - (v % a)
  PROVE  /\ d \in Int /\ Multiple(d, a) /\ d <= v /\ v < d + a
         /\ \A m \in Int : Multiple(m, a) /\ m <= v => m <= d
<1>1. v % a \in 0 .. a - 1 /\ d \in Int /\ d <= v /\ v < d + a
  OBVIOUS
<1>2. d = a * (v \div a) /\ v \div a \in Int
  OBVIOUS
<1>3. Multiple(d, a)
  BY <1>2, ProductMultiple
<1>4. ASSUME NEW m \in Int, Multiple(m, a), m <= v, d < m
      PROVE  FALSE
  <2>1. d + a <= m
    BY <1>1, <1>3, <1>4, MultipleGap
  <2>. QED BY <2>1, <1>1, <1>4
<1>5. ASSUME NEW m \in Int, Multiple(m, a), m <= v
      PROVE  m <= d
  BY <1>1, <1>4, <1>5
<1>. QED BY <1>1, <1>3, <1>5

LEMMA RoundedUp ==
  ASSUME NEW a \in Nat \ {0}, NEW v \in Int, NEW u,
         u = (v + a - 1) - ((v + a - 1) % a)
  PROVE  /\ u \in Int /\ Multiple(u, a) /\ v <= u /\ u < v + a
         /\ \A m \in Int : Multiple(m, a) /\ v <= m => u <= m
<1>1. v + a - 1 \in Int
  OBVIOUS
<1>2. u \in Int /\ Multiple(u, a) /\ u <= v + a - 1 /\ v + a - 1 < u + a
  BY <1>1, RoundedDown
<1>3. v <= u /\ u < v + a
  BY <1>2
<1>4. ASSUME NEW m \in Int, Multiple(m, a), v <= m, m < u
      PROVE  FALSE
  <2>1. m + a <= u
    BY <1>2, <1>4, MultipleGap
  <2>. QED BY <2>1, <1>2, <1>4
<1>5. ASSUME NEW m \in Int, Multiple(m, a), v <= m
      PROVE  u <= m
  BY <1>2, <1>4, <1>5
<1>. QED BY <1>2, <1>3, <1>5

-----------------------------------------------------------------------------
\* f is built by the recursion that starts with init.
Recursion(f, n, init, step) ==
  f = [i \in 0 .. n |-> IF i = 0 THEN init ELSE step[<<f[i - 1], i>>]]

(* A function defined by recursion over 0 .. n exists if every step stays  *)
(* in a set, which may depend on the index, and its values are in them.    *)
LEMMA RecursionExists ==
  ASSUME NEW n \in Nat, NEW init, NEW P, NEW step,
         init \in P[0],
         \A i \in 1 .. n : \A x \in P[i - 1] : step[<<x, i>>] \in P[i]
  PROVE  \E f : Recursion(f, n, init, step)
<1>. DEFINE Rec(f, m) == /\ f = [i \in 0 .. m |-> IF i = 0 THEN init ELSE step[<<f[i - 1], i>>]]
                         /\ f[m] \in P[m]
            Reached == {m \in Nat : m <= n => \E f : Rec(f, m)}
<1>1. 0 \in Reached
  <2>1. Rec([i \in 0 .. 0 |-> init], 0)
    OBVIOUS
  <2>. QED BY <2>1
<1>2. ASSUME NEW m \in Reached PROVE m + 1 \in Reached
  <2>1. m \in Nat /\ m + 1 \in Nat
    OBVIOUS
  <2>2. SUFFICES ASSUME m + 1 <= n PROVE \E f : Rec(f, m + 1)
    BY <2>1
  <2>3. PICK f : Rec(f, m)
    BY <2>1, <2>2
  <2>4. DEFINE g == [i \in 0 .. m + 1 |-> IF i = m + 1 THEN step[<<f[m], m + 1>>] ELSE f[i]]
  <2>5. DOMAIN g = 0 .. m + 1 /\ g = [i \in 0 .. m + 1 |-> g[i]] /\ g[m + 1] = step[<<f[m], m + 1>>]
        /\ \A i \in 0 .. m : g[i] = f[i]
    BY <2>1
  <2>. HIDE DEF g
  <2>6. g[m + 1] \in P[m + 1]
    <3>1. m + 1 \in 1 .. n /\ m = (m + 1) - 1
      BY <2>1, <2>2
    <3>2. f[m] \in P[m]
      BY <2>3
    <3>3. step[<<f[m], m + 1>>] \in P[m + 1]
      BY <3>1, <3>2
    <3>. QED BY <2>5, <3>3
  <2>7. ASSUME NEW i \in 0 .. m + 1
        PROVE  g[i] = IF i = 0 THEN init ELSE step[<<g[i - 1], i>>]
    <3>1. CASE i = m + 1
      <4>1. i # 0 /\ i - 1 = m /\ m \in 0 .. m
        BY <2>1, <3>1
      <4>. QED BY <2>5, <3>1, <4>1
    <3>2. CASE i \in 0 .. m
      <4>1. f[i] = IF i = 0 THEN init ELSE step[<<f[i - 1], i>>]
        BY <2>3, <3>2
      <4>2. i # 0 => i - 1 \in 0 .. m
        BY <2>1, <3>2
      <4>. QED BY <2>5, <3>2, <4>1, <4>2
    <3>. QED BY <2>1, <3>1, <3>2
  <2>8. g = [i \in 0 .. m + 1 |-> IF i = 0 THEN init ELSE step[<<g[i - 1], i>>]]
    BY <2>5, <2>7
  <2>9. Rec(g, m + 1)
    BY <2>6, <2>8
  <2>. HIDE DEF Rec
  <2>. QED BY <2>9
<1>3. Reached \in SUBSET Nat
  OBVIOUS
<1>4. Reached = Nat
  <2>. HIDE DEF Reached
  <2>. QED BY <1>1, <1>2, <1>3, InductiveSet
<1>5. PICK f : Rec(f, n)
  <2>1. n \in Reached
    BY <1>4
  <2>. HIDE DEF Rec
  <2>. QED BY <2>1
<1>. QED BY <1>5 DEF Recursion

(* What holds first and is kept by every step holds up to n.               *)
LEMMA UpTo ==
  ASSUME NEW n \in Nat, NEW P, P[0], \A i \in 1 .. n : P[i - 1] => P[i]
  PROVE  \A i \in 0 .. n : P[i]
<1>. DEFINE S == {m \in Nat : m <= n => P[m]}
<1>1. 0 \in S
  OBVIOUS
<1>2. ASSUME NEW m \in S PROVE m + 1 \in S
  <2>1. m \in Nat /\ m + 1 \in Nat
    OBVIOUS
  <2>2. SUFFICES ASSUME m + 1 <= n PROVE P[m + 1]
    BY <2>1
  <2>3. m + 1 \in 1 .. n /\ (m + 1) - 1 = m
    BY <2>1, <2>2
  <2>4. P[m]
    BY <2>1, <2>2
  <2>. QED BY <2>3, <2>4
<1>3. S = Nat
  <2>1. S \in SUBSET Nat
    OBVIOUS
  <2>. HIDE DEF S
  <2>. QED BY <1>1, <1>2, <2>1, InductiveSet
<1>4. ASSUME NEW i \in 0 .. n PROVE P[i]
  BY <1>3
<1>. QED BY <1>4

(* What every turn of a loop keeps holds for all its values.               *)
LEMMA LoopStays ==
  ASSUME NEW n \in Nat, NEW f, NEW P, f[0] \in P[0],
         \A i \in 1 .. n : f[i - 1] \in P[i - 1] => f[i] \in P[i]
  PROVE  \A i \in 0 .. n : f[i] \in P[i]
<1>. DEFINE S == {m \in Nat : m <= n => f[m] \in P[m]}
<1>1. 0 \in S
  OBVIOUS
<1>2. ASSUME NEW m \in S PROVE m + 1 \in S
  <2>1. m \in Nat /\ m + 1 \in Nat /\ (m + 1) - 1 = m
    OBVIOUS
  <2>2. SUFFICES ASSUME m + 1 <= n PROVE f[m + 1] \in P[m + 1]
    BY <2>1
  <2>3. m + 1 \in 1 .. n /\ f[m] \in P[m]
    BY <2>1, <2>2
  <2>. QED BY <2>1, <2>3
<1>3. S = Nat
  <2>1. S \in SUBSET Nat
    OBVIOUS
  <2>. HIDE DEF S
  <2>. QED BY <1>1, <1>2, <2>1, InductiveSet
<1>. QED BY <1>3
=============================================================================
