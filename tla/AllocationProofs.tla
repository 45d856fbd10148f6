--------------------------- MODULE AllocationProofs ---------------------------
(***************************************************************************)
(* Register allocation, for any registers and any functions whose graphs   *)
(* have been verified.  Most lemmas start from what Scanned says of a      *)
(* scan; that the scan of a verified graph keeps it comes before the       *)
(* theorems.                                                               *)
(***************************************************************************)
EXTENDS AllocationMaterializer, ArithmeticLemmas, SequenceTheorems

-----------------------------------------------------------------------------
(* Weights and lengths.                                                    *)

LEMMA PairMinMax ==
  ASSUME NEW a \in Int, NEW b \in Int
  PROVE  /\ Min({a, b}) = (IF a <= b THEN a ELSE b)
         /\ Max({a, b}) = (IF a <= b THEN b ELSE a)
<1>1. \E x \in {a, b} : \A y \in {a, b} : x <= y
  BY a <= b \/ b <= a
<1>2. \E x \in {a, b} : \A y \in {a, b} : x >= y
  BY a <= b \/ b <= a
<1>3. Min({a, b}) \in {a, b} /\ \A y \in {a, b} : Min({a, b}) <= y
  BY <1>1 DEF Min
<1>4. Max({a, b}) \in {a, b} /\ \A y \in {a, b} : Max({a, b}) >= y
  BY <1>2 DEF Max
<1>. QED BY <1>3, <1>4

LEMMA FiniteRange ==
  ASSUME NEW S, IsFiniteSet(S), NEW fn, fn = [x \in S |-> fn[x]]
  PROVE  IsFiniteSet({fn[x] : x \in S})
<1>. DEFINE T == {fn[x] : x \in S}
<1>1. fn \in [S -> T]
  OBVIOUS
<1>2. fn \in Surjection(S, T)
  BY <1>1 DEF Surjection
<1>. QED BY <1>2, FS_Surjection

\* The members of a finite set of naturals have a maximum.
LEMMA MaxOfNaturals ==
  ASSUME NEW S \in SUBSET Nat, S # {}, NEW n \in Nat, \A x \in S : x <= n
  PROVE  Max(S) \in S /\ \A x \in S : x <= Max(S)
<1>1. PICK m \in S : \A x \in S : x <= m
  BY GreatestElement
<1>2. \E x \in S : \A y \in S : x >= y
  BY <1>1
<1>3. Max(S) \in S /\ \A y \in S : Max(S) >= y
  BY <1>2, Zenon DEF Max
<1>. QED BY <1>3

LEMMA MinOfNaturals ==
  ASSUME NEW S \in SUBSET Nat, S # {}
  PROVE  Min(S) \in S /\ \A x \in S : Min(S) <= x
<1>1. \E x \in S : \A y \in S : x <= y
  BY LeastElement
<1>. QED BY <1>1, Zenon DEF Min

\* A finite set of integers has a maximum.
LEMMA FiniteMax ==
  ASSUME NEW S \in SUBSET Int, S # {}, IsFiniteSet(S)
  PROVE  Max(S) \in S /\ \A x \in S : x <= Max(S)
<1>. DEFINE P(n) == \A U \in SUBSET Int : IsFiniteSet(U) /\ U # {} /\ Cardinality(U) <= n =>
                       \E x \in U : \A y \in U : x >= y
            Good == {n \in Nat : P(n)}
<1>1. 0 \in Good
  <2>. SUFFICES ASSUME NEW U \in SUBSET Int, IsFiniteSet(U), U # {}, Cardinality(U) <= 0 PROVE FALSE
    OBVIOUS
  <2>. QED BY FS_EmptySet, FS_CardinalityType
<1>2. ASSUME NEW n \in Good PROVE n + 1 \in Good
  <2>. SUFFICES ASSUME NEW U \in SUBSET Int, IsFiniteSet(U), U # {}, Cardinality(U) <= n + 1
                PROVE  \E x \in U : \A y \in U : x >= y
    OBVIOUS
  <2>1. PICK a \in U : TRUE
    OBVIOUS
  <2>2. CASE U = {a}
    BY <2>2
  <2>3. CASE U # {a}
    <3>1. IsFiniteSet(U \ {a}) /\ U \ {a} # {} /\ Cardinality(U \ {a}) = Cardinality(U) - 1
      BY <2>1, <2>3, FS_RemoveElement
    <3>2. Cardinality(U \ {a}) <= n
      BY <3>1, FS_CardinalityType
    <3>3. PICK x \in U \ {a} : \A y \in U \ {a} : x >= y
      BY <3>1, <3>2
    <3>. QED BY <3>3, x >= a \/ a >= x, <2>1
  <2>. QED BY <2>2, <2>3
<1>3. Good = Nat
  <2>1. Good \in SUBSET Nat
    OBVIOUS
  <2>. HIDE DEF Good
  <2>. QED BY <1>1, <1>2, <2>1, InductiveSet
<1>4. \E x \in S : \A y \in S : x >= y
  BY <1>3, FS_CardinalityType
<1>5. Max(S) \in S /\ \A y \in S : Max(S) >= y
  BY <1>4, Zenon DEF Max
<1>. QED BY <1>5

\* A fragment lies in its range and is not empty.
FragmentOK(p, f) ==
  /\ f = [from |-> f.from, to |-> f.to, range |-> f.range]
  /\ f.from \in Nat /\ f.to \in Nat /\ f.range \in DOMAIN p.ranges
  /\ f.from < f.to
  /\ p.ranges[f.range].from <= f.from /\ f.to <= p.ranges[f.range].to

\* The fragments of a bundle do not overlap.
FragmentsOK(p, frags) ==
  /\ IsFiniteSet(frags) /\ frags # {}
  /\ \A f \in frags : FragmentOK(p, f)
  /\ \A f, h \in frags : f # h => f.to <= h.from \/ h.to <= f.from

LEMMA OccurrenceWeight ==
  ASSUME NEW p, Scanned(p), NEW o \in DOMAIN p.occs
  PROVE  OccurrenceSpillWeight(p, o) \in Int
<1>. DEFINE depth == p.graph.blocks[p.occs[o].anchor.block].depth
<1>1. depth \in Nat
  BY DEF Scanned, OccurrenceScanned, AnchorInCode, BlocksLaidOut, Blocks
<1>2. Min({depth, 10}) \in Nat
  <2>. HIDE DEF depth
  <2>. QED BY <1>1, PairMinMax
<1>3. 4 ^ Min({depth, 10}) \in Int
  BY <1>2
<1>. QED BY <1>3 DEF OccurrenceSpillWeight

LEMMA TotalWeight ==
  ASSUME NEW p, Scanned(p), NEW covered
  PROVE  TotalSpillWeight(p, covered) \in Int
<1>. DEFINE n == Len(p.occs)
            weight(o) == IF o \in covered THEN OccurrenceSpillWeight(p, o) ELSE 0
            step == [xi \in Int \X (1 .. n) |-> xi[1] + weight(xi[2])]
            P == [i \in 0 .. n |-> Int]
<1>1. n \in Nat /\ DOMAIN p.occs = 1 .. n
  BY DEF Scanned
<1>2. \A i \in 1 .. n : weight(i) \in Int
  BY <1>1, OccurrenceWeight
<1>. HIDE DEF n, weight
<1>3. \A i \in 1 .. n : \A x \in Int : step[<<x, i>>] = x + weight(i) /\ step[<<x, i>>] \in Int
  BY <1>2
<1>4. P[0] = Int /\ \A i \in 1 .. n : P[i - 1] = Int /\ P[i] = Int
  <2>1. \A i \in 1 .. n : i \in 0 .. n /\ i - 1 \in 0 .. n
    BY <1>1
  <2>. QED BY <1>1, <2>1
<1>. HIDE DEF step, P
<1>5. PICK f : Recursion(f, n, 0, step)
  <2>1. \A i \in 1 .. n : \A x \in P[i - 1] : step[<<x, i>>] \in P[i]
    BY <1>3, <1>4
  <2>2. n \in Nat /\ 0 \in P[0]
    BY <1>1, <1>4
  <2>. QED BY <2>1, <2>2, RecursionExists
<1>6. \A i \in 0 .. n : f[i] \in P[i]
  <2>1. f[0] = 0
    BY <1>1, <1>5 DEF Recursion
  <2>2. \A i \in 1 .. n : f[i] = step[<<f[i - 1], i>>]
    BY <1>1, <1>5 DEF Recursion
  <2>3. f[0] \in P[0]
    BY <1>4, <2>1
  <2>4. \A i \in 1 .. n : f[i - 1] \in P[i - 1] => f[i] \in P[i]
    BY <1>3, <1>4, <2>2
  <2>. QED BY <1>1, <2>3, <2>4, LoopStays
<1>7. f = [o \in 0 .. n |-> IF o = 0 THEN 0 ELSE f[o - 1] + weight(o)]
  <2>1. \A o \in 0 .. n : (IF o = 0 THEN 0 ELSE step[<<f[o - 1], o>>])
                          = (IF o = 0 THEN 0 ELSE f[o - 1] + weight(o))
    <3>. TAKE o \in 0 .. n
    <3>1. CASE o = 0
      BY <3>1
    <3>2. CASE o # 0
      <4>1. o \in 1 .. n /\ o - 1 \in 0 .. n
        BY <1>1, <3>2
      <4>. QED BY <4>1, <3>2, <1>3, <1>4, <1>6
    <3>. QED BY <3>1, <3>2
  <2>. QED BY <1>5, <2>1, Zenon DEF Recursion
<1>. DEFINE Rec(g) == g = [o \in 0 .. n |-> IF o = 0 THEN 0 ELSE g[o - 1] + weight(o)]
            total == CHOOSE g : Rec(g)
<1>8. Rec(total)
  BY <1>7
<1>. HIDE DEF total
<1>9. \A i \in 0 .. n : total[i] \in P[i]
  <2>1. total[0] = 0
    BY <1>1, <1>8
  <2>2. \A i \in 1 .. n : total[i] = total[i - 1] + weight(i)
    BY <1>1, <1>8
  <2>3. total[0] \in P[0]
    BY <1>4, <2>1
  <2>4. \A i \in 1 .. n : total[i - 1] \in P[i - 1] => total[i] \in P[i]
    BY <1>2, <1>4, <2>2
  <2>. QED BY <1>1, <2>3, <2>4, LoopStays
<1>10. TotalSpillWeight(p, covered) = total[n]
  BY Zenon DEF TotalSpillWeight, n, weight, total
<1>11. n = 0 \/ n \in 1 .. n
  BY <1>1
<1>. QED BY <1>1, <1>4, <1>9, <1>10, <1>11

LEMMA PositionsFinite ==
  ASSUME NEW p, NEW frags, FragmentsOK(p, frags)
  PROVE  IsFiniteSet(Positions(frags)) /\ Cardinality(Positions(frags)) \in Nat \ {0}
<1>. DEFINE fn == [f \in frags |-> f.from .. f.to - 1]
<1>1. IsFiniteSet({fn[f] : f \in frags})
  BY FiniteRange DEF FragmentsOK
<1>2. \A f \in frags : IsFiniteSet(fn[f]) /\ f.from \in fn[f]
  <2>. TAKE f \in frags
  <2>1. f.from \in Nat /\ f.to \in Nat /\ f.from < f.to
    BY DEF FragmentsOK, FragmentOK
  <2>2. f.from \in Int /\ f.to - 1 \in Int /\ f.from \in f.from .. f.to - 1
    BY <2>1
  <2>3. IsFiniteSet(f.from .. f.to - 1)
    <3>. DEFINE a == f.from
                b == f.to - 1
    <3>. HIDE DEF a, b
    <3>1. a \in Int /\ b \in Int
      BY <2>2 DEF a, b
    <3>2. IsFiniteSet(a .. b)
      BY <3>1, FS_Interval
    <3>. QED BY <3>2 DEF a, b
  <2>. QED BY <2>2, <2>3
<1>3. Positions(frags) = UNION {fn[f] : f \in frags}
  BY DEF Positions
<1>4. IsFiniteSet(Positions(frags)) /\ Positions(frags) # {}
  BY <1>1, <1>2, <1>3, FS_UNION DEF FragmentsOK
<1>. QED BY <1>4, FS_CardinalityType, FS_EmptySet

LEMMA BundleWeight ==
  ASSUME NEW p, Scanned(p), NEW frags, FragmentsOK(p, frags)
  PROVE  Bundle(p, frags).weight \in Int
<1>. DEFINE covered == CoveredOccurrences(p, frags)
            priority == Cardinality(Positions(frags))
            total == TotalSpillWeight(p, covered)
<1>1. priority \in Nat \ {0} /\ total \in Int
  BY PositionsFinite, TotalWeight
<1>. HIDE DEF priority, total
<1>2. total \div priority \in Int
  BY <1>1
<1>3. Max({1, total \div priority}) \in Int
  <2>. DEFINE weight == total \div priority
  <2>. HIDE DEF weight
  <2>1. weight \in Int /\ 1 \in Int
    BY <1>2 DEF weight
  <2>2. Max({1, weight}) = (IF 1 <= weight THEN weight ELSE 1)
    BY <2>1, PairMinMax
  <2>. QED BY <2>1, <2>2 DEF weight
<1>4. OrdinaryMinimalWeight \in Int /\ FixedMinimalWeight \in Int
  BY DEF OrdinaryMinimalWeight, FixedMinimalWeight
<1>. QED BY <1>3, <1>4 DEF Bundle, BundleSpillWeight, priority, total

-----------------------------------------------------------------------------
(* The initial bundles: merging keeps the ranges of a bundle apart.        *)

Merging(p, parent) ==
  /\ parent \in [DOMAIN p.ranges -> DOMAIN p.ranges]
  /\ \A r, q \in DOMAIN p.ranges :
       r # q /\ parent[r] = parent[q] => ~Overlap(Whole(p, r), Whole(p, q))

LEMMA OverlapSymmetric ==
  ASSUME NEW x, NEW y PROVE Overlap(x, y) <=> Overlap(y, x)
BY DEF Overlap

LEMMA MergeKeeps ==
  ASSUME NEW p, Scanned(p), NEW parent, Merging(p, parent), NEW a \in p.affinities
  PROVE  Merging(p, MergeAffinity(p, parent, a))
<1>. DEFINE D == DOMAIN p.ranges
            lhs == parent[p.occs[a.source].range]
            rhs == parent[p.occs[a.destination].range]
            joined == [r \in DOMAIN parent |-> IF parent[r] = rhs THEN lhs ELSE parent[r]]
<1>1. p.occs[a.source].range \in D /\ p.occs[a.destination].range \in D
  BY DEF Scanned, OccurrenceScanned
<1>2. parent \in [D -> D] /\ lhs \in D /\ rhs \in D
  BY <1>1 DEF Merging
<1>3. CASE lhs = rhs \/ ~CanMerge(p, Joined(p, parent, lhs), Joined(p, parent, rhs))
  BY <1>3 DEF MergeAffinity
<1>4. CASE lhs # rhs /\ CanMerge(p, Joined(p, parent, lhs), Joined(p, parent, rhs))
  <2>1. MergeAffinity(p, parent, a) = joined
    BY <1>4, Zenon DEF MergeAffinity
  <2>2. joined \in [D -> D]
    BY <1>2
  <2>3. ASSUME NEW r \in D, NEW q \in D, parent[r] = lhs, parent[q] = rhs
        PROVE  ~Overlap(Whole(p, r), Whole(p, q))
    <3>1. Whole(p, r) \in Joined(p, parent, lhs) /\ Whole(p, q) \in Joined(p, parent, rhs)
      BY <2>3 DEF Joined
    <3>. QED BY <3>1, <1>4, Zenon DEF CanMerge, BundlesOverlap
  <2>4. ASSUME NEW r \in D, NEW q \in D, r # q, joined[r] = joined[q]
        PROVE  ~Overlap(Whole(p, r), Whole(p, q))
    <3>1. \/ parent[r] = parent[q]
          \/ parent[r] = lhs /\ parent[q] = rhs
          \/ parent[r] = rhs /\ parent[q] = lhs
      BY <2>4, <1>2
    <3>. QED BY <3>1, <2>3, <2>4, OverlapSymmetric, Zenon DEF Merging
  <2>. QED BY <2>1, <2>2, <2>4 DEF Merging
<1>. QED BY <1>3, <1>4

\* A loop that takes the same step in every turn.
Turns(f, n, init, step) == f = [k \in 0 .. n |-> IF k = 0 THEN init ELSE step[f[k - 1]]]

LEMMA Loop ==
  ASSUME NEW n \in Nat, NEW S, NEW init \in S, NEW step, \A x \in S : step[x] \in S
  PROVE  /\ \E f : Turns(f, n, init, step)
         /\ \A f : Turns(f, n, init, step) => \A k \in 0 .. n : f[k] \in S
<1>. USE DEF Turns
<1>. DEFINE Rec(f) == Turns(f, n, init, step)
            P == [k \in 0 .. n |-> S]
            turn == [xi \in S \X (1 .. n) |-> step[xi[1]]]
<1>1. P[0] = S /\ \A i \in 1 .. n : P[i - 1] = S /\ P[i] = S
  <2>1. \A i \in 1 .. n : i \in 0 .. n /\ i - 1 \in 0 .. n
    OBVIOUS
  <2>. QED BY <2>1
<1>2. \A i \in 1 .. n : \A x \in S : turn[<<x, i>>] = step[x]
  OBVIOUS
<1>. HIDE DEF P, turn
<1>3. ASSUME NEW f, Rec(f) PROVE \A k \in 0 .. n : f[k] \in S
  <2>1. f[0] = init /\ \A i \in 1 .. n : f[i] = step[f[i - 1]]
    <3>1. 0 \in 0 .. n /\ \A i \in 1 .. n : i \in 0 .. n /\ i # 0
      OBVIOUS
    <3>. QED BY <1>3, <3>1
  <2>2. f[0] \in P[0]
    BY <1>1, <2>1
  <2>3. \A i \in 1 .. n : f[i - 1] \in P[i - 1] => f[i] \in P[i]
    BY <1>1, <2>1
  <2>4. \A k \in 0 .. n : f[k] \in P[k]
    BY <2>2, <2>3, LoopStays
  <2>5. \A k \in 0 .. n : k = 0 \/ k \in 1 .. n
    OBVIOUS
  <2>. QED BY <1>1, <2>4, <2>5
<1>4. \E f : Rec(f)
  <2>1. \A i \in 1 .. n : \A x \in P[i - 1] : turn[<<x, i>>] \in P[i]
    BY <1>1, <1>2
  <2>2. n \in Nat /\ init \in P[0]
    BY <1>1
  <2>3. PICK f : Recursion(f, n, init, turn)
    BY <2>1, <2>2, RecursionExists
  <2>4. f[0] = init /\ \A i \in 1 .. n : f[i] = turn[<<f[i - 1], i>>]
    <3>1. 0 \in 0 .. n /\ \A i \in 1 .. n : i \in 0 .. n /\ i # 0
      OBVIOUS
    <3>. QED BY <2>3, <3>1 DEF Recursion
  <2>5. f[0] \in P[0]
    BY <2>4, <2>2
  <2>6. \A i \in 1 .. n : f[i - 1] \in P[i - 1] => f[i] \in P[i]
    BY <2>1, <2>4
  <2>7. \A k \in 0 .. n : f[k] \in P[k]
    BY <2>5, <2>6, LoopStays
  <2>8. \A k \in 0 .. n : (IF k = 0 THEN init ELSE turn[<<f[k - 1], k>>])
                          = (IF k = 0 THEN init ELSE step[f[k - 1]])
    <3>1. ASSUME NEW k \in 0 .. n, k # 0 PROVE turn[<<f[k - 1], k>>] = step[f[k - 1]]
      <4>1. k \in 1 .. n /\ k - 1 \in 0 .. n
        BY <3>1
      <4>. QED BY <4>1, <2>7, <1>1, <1>2
    <3>. QED BY <3>1
  <2>9. Rec(f)
    BY <2>3, <2>8, Zenon DEF Recursion
  <2>. QED BY <2>9
<1>. QED BY <1>3, <1>4

LEMMA MergedParentsOK ==
  ASSUME NEW p, Scanned(p)
  PROVE  Merging(p, MergedParents(p))
<1>. DEFINE n == Cardinality(p.affinities)
            D == DOMAIN p.ranges
            S == {m \in [parent : [D -> D], left : SUBSET p.affinities] : Merging(p, m.parent)}
            init == [parent |-> [r \in D |-> r], left |-> p.affinities]
            step == [m \in S |-> MergeNext(p, m)]
<1>1. n \in Nat
  BY FS_CardinalityType DEF Scanned
<1>2. init \in S
  BY DEF Merging
<1>3. ASSUME NEW m \in S PROVE MergeNext(p, m) \in S
  <2>. DEFINE first == {a \in m.left : \A c \in m.left \ {a} : AffinityBefore(p, a, c)}
              a == CHOOSE a \in first : TRUE
  <2>1. CASE first = {}
    BY <2>1, Zenon DEF MergeNext
  <2>2. CASE first # {}
    <3>1. a \in first
      BY <2>2, Zenon
    <3>2. a \in p.affinities /\ m.left \subseteq p.affinities
      BY <3>1
    <3>3. MergeNext(p, m) = [parent |-> MergeAffinity(p, m.parent, a), left |-> m.left \ {a}]
      BY <2>2, Zenon DEF MergeNext
    <3>. HIDE DEF a, first
    <3>4. Merging(p, MergeAffinity(p, m.parent, a))
      BY <3>2, MergeKeeps
    <3>. QED BY <3>2, <3>3, <3>4 DEF Merging
  <2>. QED BY <2>1, <2>2
<1>4. \A m \in S : step[m] = MergeNext(p, m) /\ step[m] \in S
  BY <1>3
<1>. HIDE DEF S, init, step, n
<1>. DEFINE Rec(f) == Turns(f, n, init, step)
            Rec2(f) == f = [k \in 0 .. n |-> IF k = 0 THEN init ELSE MergeNext(p, f[k - 1])]
            merged == CHOOSE f : Rec2(f)
<1>5. (\E f : Rec(f)) /\ \A f : Rec(f) => \A k \in 0 .. n : f[k] \in S
  BY <1>1, <1>2, <1>4, Loop
<1>6. \A f : Rec(f) => Rec2(f)
  <2>. SUFFICES ASSUME NEW f, Rec(f) PROVE Rec2(f)
    OBVIOUS
  <2>1. \A k \in 0 .. n : (IF k = 0 THEN init ELSE step[f[k - 1]])
                          = (IF k = 0 THEN init ELSE MergeNext(p, f[k - 1]))
    <3>1. ASSUME NEW k \in 0 .. n, k # 0 PROVE step[f[k - 1]] = MergeNext(p, f[k - 1])
      <4>1. k - 1 \in 0 .. n
        BY <1>1, <3>1
      <4>. QED BY <4>1, <1>4, <1>5
    <3>. QED BY <3>1
  <2>. QED BY <2>1, Zenon DEF Turns
<1>7. Rec2(merged)
  BY <1>5, <1>6
<1>. HIDE DEF merged
<1>8. merged[n] \in S
  <2>. DEFINE P == [k \in 0 .. n |-> S]
  <2>1. P[0] = S /\ \A i \in 1 .. n : P[i - 1] = S /\ P[i] = S
    <3>1. \A i \in 1 .. n : i \in 0 .. n /\ i - 1 \in 0 .. n
      BY <1>1
    <3>. QED BY <3>1, <1>1
  <2>. HIDE DEF P
  <2>2. merged[0] = init /\ \A i \in 1 .. n : merged[i] = MergeNext(p, merged[i - 1])
    BY <1>1, <1>7
  <2>3. merged[0] \in P[0]
    BY <2>1, <2>2, <1>2
  <2>4. \A i \in 1 .. n : merged[i - 1] \in P[i - 1] => merged[i] \in P[i]
    BY <2>1, <2>2, <1>3
  <2>5. \A i \in 0 .. n : merged[i] \in P[i]
    BY <1>1, <2>3, <2>4, LoopStays
  <2>6. n = 0 \/ n \in 1 .. n
    BY <1>1
  <2>. QED BY <1>1, <2>1, <2>5, <2>6
<1>9. MergedParents(p) = merged[n].parent
  BY Zenon DEF MergedParents, merged, n, init
<1>. QED BY <1>8, <1>9 DEF S

-----------------------------------------------------------------------------
(* What the bundles of a schedule keep: they are made of fragments, two of *)
(* them that share a live range follow one another, and every position of  *)
(* a range and every occurrence is in a fragment of one of them.           *)

Ahead(fs, hs) == \A f \in fs, h \in hs : f.to <= h.from
Shared(fs, hs) == \E f \in fs, h \in hs : f.range = h.range

Apart(p, bs) ==
  \A b, c \in DOMAIN bs :
    b # c /\ Shared(bs[b].frags, bs[c].frags) =>
      Ahead(bs[b].frags, bs[c].frags) \/ Ahead(bs[c].frags, bs[b].frags)

PositionsKept(p, bs) ==
  \A r \in DOMAIN p.ranges : \A pos \in p.ranges[r].from .. p.ranges[r].to - 1 :
    \E b \in DOMAIN bs : \E f \in bs[b].frags : f.range = r /\ f.from <= pos /\ pos < f.to

OccurrencesKept(p, bs) ==
  \A o \in DOMAIN p.occs : \E b \in DOMAIN bs : \E f \in bs[b].frags : Covers(p, f, o)

BundlesOK(p, bs) ==
  /\ IsFiniteSet(DOMAIN bs) /\ DOMAIN bs \subseteq Nat
  /\ \A b \in DOMAIN bs : bs[b] = Bundle(p, bs[b].frags) /\ FragmentsOK(p, bs[b].frags)
  /\ Apart(p, bs)
  /\ PositionsKept(p, bs)
  /\ OccurrencesKept(p, bs)

LEMMA WholeOK ==
  ASSUME NEW p, Scanned(p), NEW r \in DOMAIN p.ranges
  PROVE  /\ FragmentOK(p, Whole(p, r))
         /\ Whole(p, r).range = r
         /\ Whole(p, r).from = p.ranges[r].from /\ Whole(p, r).to = p.ranges[r].to
<1>1. p.ranges[r].from \in Nat /\ p.ranges[r].to \in Nat /\ p.ranges[r].from < p.ranges[r].to
  BY DEF Scanned, ScanVerified, RangeScanned, RangeVerified
<1>. QED BY <1>1 DEF FragmentOK, Whole

LEMMA JoinedOK ==
  ASSUME NEW p, Scanned(p), NEW parent, Merging(p, parent), NEW q \in DOMAIN p.ranges
  PROVE  FragmentsOK(p, Joined(p, parent, parent[q]))
<1>. DEFINE mine == {r \in DOMAIN p.ranges : parent[r] = parent[q]}
            fn == [r \in mine |-> Whole(p, r)]
<1>1. Joined(p, parent, parent[q]) = {fn[r] : r \in mine}
  BY DEF Joined
<1>2. IsFiniteSet(mine)
  <2>1. IsFiniteSet(DOMAIN p.ranges)
    BY FS_Interval, 1 \in Int DEF Scanned
  <2>. QED BY <2>1, FS_Subset
<1>3. IsFiniteSet({fn[r] : r \in mine})
  <2>1. fn = [x \in mine |-> fn[x]]
    OBVIOUS
  <2>. HIDE DEF mine, fn
  <2>. QED BY <2>1, <1>2, FiniteRange
<1>4. Whole(p, q) \in Joined(p, parent, parent[q])
  BY DEF Joined
<1>5. \A f \in Joined(p, parent, parent[q]) : FragmentOK(p, f)
  BY WholeOK DEF Joined
<1>6. ASSUME NEW f \in Joined(p, parent, parent[q]), NEW h \in Joined(p, parent, parent[q]), f # h
      PROVE  f.to <= h.from \/ h.to <= f.from
  <2>1. PICK r \in DOMAIN p.ranges : parent[r] = parent[q] /\ f = Whole(p, r)
    BY DEF Joined
  <2>2. PICK s \in DOMAIN p.ranges : parent[s] = parent[q] /\ h = Whole(p, s)
    BY DEF Joined
  <2>3. ~Overlap(f, h)
    BY <1>6, <2>1, <2>2, Zenon DEF Merging
  <2>4. FragmentOK(p, f) /\ FragmentOK(p, h)
    BY <1>5
  <2>. QED BY <2>3, <2>4 DEF Overlap, FragmentOK
<1>. QED BY <1>1, <1>3, <1>4, <1>5, <1>6, Zenon DEF FragmentsOK

LEMMA BundleFragments ==
  ASSUME NEW p, NEW frags PROVE Bundle(p, frags).frags = frags
BY DEF Bundle

\* The initial bundles pass the verifier.
LEMMA InitialBundlesOK ==
  ASSUME NEW p, Scanned(p)
  PROVE  BundlesOK(p, InitialBundles(p)) /\ InitialBundlesVerified(p, InitialBundles(p))
<1>. DEFINE D == DOMAIN p.ranges
            parent == MergedParents(p)
            bs == InitialBundles(p)
<1>1. Merging(p, parent) /\ parent \in [D -> D]
  BY MergedParentsOK DEF Merging
<1>. HIDE DEF parent
<1>2. bs = [b \in {parent[r] : r \in D} |-> Bundle(p, Joined(p, parent, b))]
  BY Zenon DEF InitialBundles, parent
<1>. HIDE DEF bs
<1>3. DOMAIN bs = {parent[r] : r \in D} /\ DOMAIN bs \subseteq D
  BY <1>1, <1>2
<1>4. \A b \in DOMAIN bs : bs[b] = Bundle(p, Joined(p, parent, b)) /\ bs[b].frags = Joined(p, parent, b)
  BY <1>2, <1>3, BundleFragments
<1>5. \A b \in DOMAIN bs : FragmentsOK(p, bs[b].frags)
  BY <1>1, <1>3, <1>4, JoinedOK
<1>6. \A b \in DOMAIN bs : \A f \in bs[b].frags :
         f.range \in D /\ parent[f.range] = b /\ f = Whole(p, f.range)
  <2>. TAKE b \in DOMAIN bs
  <2>. TAKE f \in bs[b].frags
  <2>1. PICK r \in D : parent[r] = b /\ f = Whole(p, r)
    BY <1>4 DEF Joined
  <2>2. Whole(p, r).range = r
    BY WholeOK
  <2>. QED BY <2>1, <2>2
<1>7. \A r \in D : parent[r] \in DOMAIN bs /\ Whole(p, r) \in bs[parent[r]].frags
  BY <1>3, <1>4 DEF Joined
<1>8. IsFiniteSet(DOMAIN bs) /\ DOMAIN bs \subseteq Nat
  <2>1. IsFiniteSet(D) /\ D \subseteq Nat
    BY FS_Interval, 1 \in Int DEF Scanned
  <2>. HIDE DEF D
  <2>. QED BY <2>1, <1>3, FS_Subset
<1>9. Apart(p, bs)
  <2>1. ASSUME NEW b \in DOMAIN bs, NEW c \in DOMAIN bs, Shared(bs[b].frags, bs[c].frags)
        PROVE  b = c
    BY <2>1, <1>6 DEF Shared
  <2>. QED BY <2>1 DEF Apart
<1>10. PositionsKept(p, bs)
  <2>. SUFFICES ASSUME NEW r \in D, NEW pos \in p.ranges[r].from .. p.ranges[r].to - 1
                PROVE  \E b \in DOMAIN bs : \E f \in bs[b].frags :
                         f.range = r /\ f.from <= pos /\ pos < f.to
    BY DEF PositionsKept
  <2>1. Whole(p, r).range = r /\ Whole(p, r).from <= pos /\ pos < Whole(p, r).to
    BY WholeOK DEF FragmentOK
  <2>. QED BY <2>1, <1>7
<1>11. OccurrencesKept(p, bs)
  <2>. SUFFICES ASSUME NEW o \in DOMAIN p.occs
                PROVE  \E b \in DOMAIN bs : \E f \in bs[b].frags : Covers(p, f, o)
    BY DEF OccurrencesKept
  <2>1. p.occs[o].range \in D
    BY DEF Scanned, OccurrenceScanned
  <2>2. p.ranges[p.occs[o].range].from <= p.occs[o].from /\ p.occs[o].to <= p.ranges[p.occs[o].range].to
    BY DEF Scanned, ScanVerified, OccurrenceVerified
  <2>3. Covers(p, Whole(p, p.occs[o].range), o)
    BY <2>1, <2>2, WholeOK DEF Covers, Within
  <2>. QED BY <2>1, <2>3, <1>7
<1>12. BundlesOK(p, bs)
  BY <1>4, <1>5, <1>8, <1>9, <1>10, <1>11 DEF BundlesOK
<1>13. InitialBundlesVerified(p, bs)
  <2>. DEFINE owners(r) == {b \in DOMAIN bs : \E f \in bs[b].frags : f.range = r}
  <2>1. ASSUME NEW b \in DOMAIN bs
        PROVE  /\ bs[b].frags # {}
               /\ \A f, h \in bs[b].frags : f # h => ~Overlap(f, h)
               /\ \A f \in bs[b].frags : f = Whole(p, f.range)
    <3>1. FragmentsOK(p, bs[b].frags)
      BY <1>5
    <3>2. ASSUME NEW f \in bs[b].frags, NEW h \in bs[b].frags, f # h PROVE ~Overlap(f, h)
      BY <3>1, <3>2 DEF FragmentsOK, FragmentOK, Overlap
    <3>. QED BY <3>1, <3>2, <1>6 DEF FragmentsOK
  <2>2. ASSUME NEW r \in D PROVE \E b \in DOMAIN bs : owners(r) = {b}
    <3>1. owners(r) = {parent[r]}
      BY <1>6, <1>7, WholeOK
    <3>. QED BY <3>1, <1>7
  <2>. QED BY <2>1, <2>2, Zenon DEF InitialBundlesVerified
<1>. QED BY <1>12, <1>13 DEF bs

-----------------------------------------------------------------------------
(* A split leaves the parts of the fragments on either side of a boundary  *)
(* that cuts no occurrence.                                                *)

\* What lies of a fragment on either side.
LeftPart(f, boundary) ==
  [from |-> f.from, to |-> IF f.to <= boundary THEN f.to ELSE boundary, range |-> f.range]
RightPart(f, boundary) ==
  [from |-> IF f.from <= boundary THEN boundary ELSE f.from, to |-> f.to, range |-> f.range]

LEMMA SplitParts ==
  ASSUME NEW p, NEW frags, FragmentsOK(p, frags), NEW boundary \in Nat
  PROVE  /\ LeftFragments(frags, boundary) =
              {LeftPart(f, boundary) : f \in {f \in frags : f.from < boundary}}
         /\ RightFragments(frags, boundary) =
              {RightPart(f, boundary) : f \in {f \in frags : boundary < f.to}}
<1>1. ASSUME NEW f \in frags
      PROVE  /\ Min({f.to, boundary}) = (IF f.to <= boundary THEN f.to ELSE boundary)
             /\ Max({f.from, boundary}) = (IF f.from <= boundary THEN boundary ELSE f.from)
  <2>1. f.from \in Int /\ f.to \in Int /\ boundary \in Int
    BY DEF FragmentsOK, FragmentOK
  <2>. QED BY <2>1, PairMinMax
<1>2. \A f \in frags : LeftPart(f, boundary) = [from |-> f.from, to |-> Min({f.to, boundary}), range |-> f.range]
  BY <1>1, Zenon DEF LeftPart
<1>3. \A f \in frags : RightPart(f, boundary) = [from |-> Max({f.from, boundary}), to |-> f.to, range |-> f.range]
  BY <1>1, Zenon DEF RightPart
<1>4. LeftFragments(frags, boundary) = {LeftPart(f, boundary) : f \in {f \in frags : f.from < boundary}}
  BY <1>2 DEF LeftFragments
<1>5. RightFragments(frags, boundary) = {RightPart(f, boundary) : f \in {f \in frags : boundary < f.to}}
  BY <1>3 DEF RightFragments
<1>. QED BY <1>4, <1>5

LEMMA LeftFragmentsOK ==
  ASSUME NEW p, Scanned(p), NEW frags, FragmentsOK(p, frags),
         NEW boundary \in Nat, CanSplit(p, frags, boundary)
  PROVE  /\ FragmentsOK(p, LeftFragments(frags, boundary))
         /\ \A l \in LeftFragments(frags, boundary) : \E f \in frags :
              /\ f.from < boundary /\ l.range = f.range /\ l.from = f.from
              /\ l.to <= f.to /\ l.to <= boundary
         /\ \A f \in frags : f.from < boundary => \E l \in LeftFragments(frags, boundary) :
              /\ l.range = f.range /\ l.from = f.from
              /\ l.to = IF f.to <= boundary THEN f.to ELSE boundary
<1>. DEFINE mine == {f \in frags : f.from < boundary}
            fn == [f \in mine |-> LeftPart(f, boundary)]
            L == LeftFragments(frags, boundary)
<1>1. L = {LeftPart(f, boundary) : f \in mine} /\ L = {fn[f] : f \in mine}
  <2>1. L = {LeftPart(f, boundary) : f \in mine}
    BY SplitParts
  <2>2. \A f \in mine : fn[f] = LeftPart(f, boundary)
    OBVIOUS
  <2>. HIDE DEF L, fn, mine
  <2>. QED BY <2>1, <2>2
<1>. HIDE DEF L
<1>2. IsFiniteSet(L)
  <2>1. IsFiniteSet(mine)
    BY FS_Subset DEF FragmentsOK
  <2>2. fn = [f \in mine |-> fn[f]]
    OBVIOUS
  <2>. HIDE DEF mine, fn
  <2>. QED BY <2>1, <2>2, <1>1, FiniteRange
<1>3. \A f \in frags : FragmentOK(p, f)
  BY DEF FragmentsOK
<1>4. ASSUME NEW f \in frags, f.from < boundary
      PROVE  /\ LeftPart(f, boundary) \in L /\ FragmentOK(p, LeftPart(f, boundary))
             /\ LeftPart(f, boundary).to <= f.to /\ LeftPart(f, boundary).to <= boundary
  <2>1. LeftPart(f, boundary) \in L
    BY <1>1, <1>4
  <2>2. FragmentOK(p, f)
    BY <1>3
  <2>. DEFINE l == LeftPart(f, boundary)
  <2>3. /\ l = [from |-> l.from, to |-> l.to, range |-> l.range] /\ l.range = f.range
        /\ l.from = f.from
        /\ l.to = IF f.to <= boundary THEN f.to ELSE boundary
    BY DEF LeftPart
  <2>. HIDE DEF l
  <2>4. /\ l.from \in Nat /\ l.to \in Nat /\ l.from < l.to
        /\ f.from <= l.from /\ l.to <= f.to /\ l.to <= boundary
    BY <2>2, <2>3, <1>4 DEF FragmentOK
  <2>5. p.ranges[l.range].from <= l.from /\ l.to <= p.ranges[l.range].to /\ l.range \in DOMAIN p.ranges
    <3>1. f.range \in DOMAIN p.ranges /\ p.ranges[f.range].from <= f.from /\ f.to <= p.ranges[f.range].to
      BY <2>2 DEF FragmentOK
    <3>2. p.ranges[f.range].from \in Int /\ p.ranges[f.range].to \in Int
      BY <3>1 DEF Scanned, RangeScanned
    <3>. QED BY <2>2, <2>3, <2>4, <3>1, <3>2 DEF FragmentOK
  <2>6. FragmentOK(p, l)
    BY <2>3, <2>4, <2>5 DEF FragmentOK
  <2>. QED BY <2>1, <2>4, <2>6 DEF l
<1>5. L # {}
  BY <1>4 DEF CanSplit
<1>6. \A l \in L : \E f \in frags : f.from < boundary /\ l = LeftPart(f, boundary)
  BY <1>1
<1>7. \A l \in L : \E f \in frags :
         /\ f.from < boundary /\ l.range = f.range /\ l.from = f.from
         /\ l.to <= f.to /\ l.to <= boundary /\ FragmentOK(p, l) /\ l = LeftPart(f, boundary)
  <2>. TAKE l \in L
  <2>1. PICK f \in frags : f.from < boundary /\ l = LeftPart(f, boundary)
    BY <1>6
  <2>2. l.range = f.range /\ l.from = f.from
    BY <2>1 DEF LeftPart
  <2>. QED BY <2>1, <2>2, <1>4
<1>8. ASSUME NEW l \in L, NEW m \in L, l # m PROVE l.to <= m.from \/ m.to <= l.from
  <2>1. PICK f \in frags : /\ l.from = f.from /\ l.to <= f.to /\ l = LeftPart(f, boundary)
    BY <1>7
  <2>2. PICK h \in frags : /\ m.from = h.from /\ m.to <= h.to /\ m = LeftPart(h, boundary)
    BY <1>7
  <2>3. f # h
    BY <1>8, <2>1, <2>2
  <2>4. f.to <= h.from \/ h.to <= f.from
    BY <2>3 DEF FragmentsOK
  <2>5. FragmentOK(p, f) /\ FragmentOK(p, h) /\ FragmentOK(p, l) /\ FragmentOK(p, m)
    BY <1>3, <1>7
  <2>. QED BY <2>1, <2>2, <2>4, <2>5 DEF FragmentOK
<1>9. FragmentsOK(p, L)
  BY <1>2, <1>5, <1>7, <1>8 DEF FragmentsOK
<1>10. \A f \in frags : f.from < boundary => \E l \in L :
         /\ l.range = f.range /\ l.from = f.from
         /\ l.to = IF f.to <= boundary THEN f.to ELSE boundary
  <2>. SUFFICES ASSUME NEW f \in frags, f.from < boundary
                PROVE  \E l \in L : /\ l.range = f.range /\ l.from = f.from
                                   /\ l.to = IF f.to <= boundary THEN f.to ELSE boundary
    OBVIOUS
  <2>1. LeftPart(f, boundary) \in L
    BY <1>4
  <2>. QED BY <2>1 DEF LeftPart
<1>11. \A l \in L : \E f \in frags :
         f.from < boundary /\ l.range = f.range /\ l.from = f.from /\ l.to <= f.to /\ l.to <= boundary
  BY <1>7
<1>. QED BY <1>9, <1>10, <1>11 DEF L

LEMMA RightFragmentsOK ==
  ASSUME NEW p, Scanned(p), NEW frags, FragmentsOK(p, frags),
         NEW boundary \in Nat, CanSplit(p, frags, boundary)
  PROVE  /\ FragmentsOK(p, RightFragments(frags, boundary))
         /\ \A l \in RightFragments(frags, boundary) : \E f \in frags :
              /\ boundary < f.to /\ l.range = f.range /\ l.to = f.to
              /\ f.from <= l.from /\ boundary <= l.from
         /\ \A f \in frags : boundary < f.to => \E l \in RightFragments(frags, boundary) :
              /\ l.range = f.range /\ l.to = f.to
              /\ l.from = IF f.from <= boundary THEN boundary ELSE f.from
<1>. DEFINE mine == {f \in frags : boundary < f.to}
            fn == [f \in mine |-> RightPart(f, boundary)]
            R == RightFragments(frags, boundary)
<1>1. R = {RightPart(f, boundary) : f \in mine} /\ R = {fn[f] : f \in mine}
  <2>1. R = {RightPart(f, boundary) : f \in mine}
    BY SplitParts
  <2>2. \A f \in mine : fn[f] = RightPart(f, boundary)
    OBVIOUS
  <2>. HIDE DEF R, fn, mine
  <2>. QED BY <2>1, <2>2
<1>. HIDE DEF R
<1>2. IsFiniteSet(R)
  <2>1. IsFiniteSet(mine)
    BY FS_Subset DEF FragmentsOK
  <2>2. fn = [f \in mine |-> fn[f]]
    OBVIOUS
  <2>. HIDE DEF mine, fn
  <2>. QED BY <2>1, <2>2, <1>1, FiniteRange
<1>3. \A f \in frags : FragmentOK(p, f)
  BY DEF FragmentsOK
<1>4. ASSUME NEW f \in frags, boundary < f.to
      PROVE  /\ RightPart(f, boundary) \in R /\ FragmentOK(p, RightPart(f, boundary))
             /\ f.from <= RightPart(f, boundary).from /\ boundary <= RightPart(f, boundary).from
  <2>1. RightPart(f, boundary) \in R
    BY <1>1, <1>4
  <2>2. FragmentOK(p, f)
    BY <1>3
  <2>. DEFINE l == RightPart(f, boundary)
  <2>3. /\ l = [from |-> l.from, to |-> l.to, range |-> l.range] /\ l.range = f.range
        /\ l.from = IF f.from <= boundary THEN boundary ELSE f.from
        /\ l.to = f.to
    BY DEF RightPart
  <2>. HIDE DEF l
  <2>4. /\ l.from \in Nat /\ l.to \in Nat /\ l.from < l.to
        /\ f.from <= l.from /\ l.to <= f.to /\ boundary <= l.from
    BY <2>2, <2>3, <1>4 DEF FragmentOK
  <2>5. p.ranges[l.range].from <= l.from /\ l.to <= p.ranges[l.range].to /\ l.range \in DOMAIN p.ranges
    <3>1. f.range \in DOMAIN p.ranges /\ p.ranges[f.range].from <= f.from /\ f.to <= p.ranges[f.range].to
      BY <2>2 DEF FragmentOK
    <3>2. p.ranges[f.range].from \in Int /\ p.ranges[f.range].to \in Int
      BY <3>1 DEF Scanned, RangeScanned
    <3>. QED BY <2>2, <2>3, <2>4, <3>1, <3>2 DEF FragmentOK
  <2>6. FragmentOK(p, l)
    BY <2>3, <2>4, <2>5 DEF FragmentOK
  <2>. QED BY <2>1, <2>4, <2>6 DEF l
<1>5. R # {}
  BY <1>4 DEF CanSplit
<1>6. \A l \in R : \E f \in frags : boundary < f.to /\ l = RightPart(f, boundary)
  BY <1>1
<1>7. \A l \in R : \E f \in frags :
         /\ boundary < f.to /\ l.range = f.range /\ l.to = f.to
         /\ f.from <= l.from /\ boundary <= l.from /\ FragmentOK(p, l) /\ l = RightPart(f, boundary)
  <2>. TAKE l \in R
  <2>1. PICK f \in frags : boundary < f.to /\ l = RightPart(f, boundary)
    BY <1>6
  <2>2. l.range = f.range /\ l.to = f.to
    BY <2>1 DEF RightPart
  <2>. QED BY <2>1, <2>2, <1>4
<1>8. ASSUME NEW l \in R, NEW m \in R, l # m PROVE l.to <= m.from \/ m.to <= l.from
  <2>1. PICK f \in frags : /\ l.to = f.to /\ f.from <= l.from /\ l = RightPart(f, boundary)
    BY <1>7
  <2>2. PICK h \in frags : /\ m.to = h.to /\ h.from <= m.from /\ m = RightPart(h, boundary)
    BY <1>7
  <2>3. f # h
    BY <1>8, <2>1, <2>2
  <2>4. f.to <= h.from \/ h.to <= f.from
    BY <2>3 DEF FragmentsOK
  <2>5. FragmentOK(p, f) /\ FragmentOK(p, h) /\ FragmentOK(p, l) /\ FragmentOK(p, m)
    BY <1>3, <1>7
  <2>. QED BY <2>1, <2>2, <2>4, <2>5 DEF FragmentOK
<1>9. FragmentsOK(p, R)
  BY <1>2, <1>5, <1>7, <1>8 DEF FragmentsOK
<1>10. \A f \in frags : boundary < f.to => \E l \in R :
         /\ l.range = f.range /\ l.to = f.to
         /\ l.from = IF f.from <= boundary THEN boundary ELSE f.from
  <2>. SUFFICES ASSUME NEW f \in frags, boundary < f.to
                PROVE  \E l \in R : /\ l.range = f.range /\ l.to = f.to
                                   /\ l.from = IF f.from <= boundary THEN boundary ELSE f.from
    OBVIOUS
  <2>1. RightPart(f, boundary) \in R
    BY <1>4
  <2>. QED BY <2>1 DEF RightPart
<1>11. \A l \in R : \E f \in frags :
         boundary < f.to /\ l.range = f.range /\ l.to = f.to /\ f.from <= l.from /\ boundary <= l.from
  BY <1>7
<1>. QED BY <1>9, <1>10, <1>11 DEF R

LEMMA NewBundleIsNew ==
  ASSUME NEW p, Scanned(p), NEW bs, IsFiniteSet(DOMAIN bs), DOMAIN bs \subseteq Nat
  PROVE  /\ NewBundle(p, bs) \in Nat /\ NewBundle(p, bs) \notin DOMAIN bs
         /\ NewBundle(p, bs) > Len(p.ranges)
<1>. DEFINE numbers == {Len(p.ranges)} \cup DOMAIN bs
<1>1. Len(p.ranges) \in Nat
  BY DEF Scanned
<1>2. numbers \in SUBSET Nat /\ numbers # {} /\ numbers \in SUBSET Int
  BY <1>1
<1>3. IsFiniteSet(numbers)
  BY FS_Singleton, FS_Union
<1>4. Len(p.ranges) \in numbers /\ DOMAIN bs \subseteq numbers
  OBVIOUS
<1>5. NewBundle(p, bs) = Max(numbers) + 1
  BY DEF NewBundle
<1>. HIDE DEF numbers
<1>6. Max(numbers) \in numbers /\ \A x \in numbers : x <= Max(numbers)
  BY <1>2, <1>3, FiniteMax
<1>7. Max(numbers) \in Nat /\ Len(p.ranges) <= Max(numbers)
  BY <1>2, <1>4, <1>6
<1>8. NewBundle(p, bs) \notin DOMAIN bs
  <2>. SUFFICES ASSUME NewBundle(p, bs) \in DOMAIN bs PROVE FALSE
    OBVIOUS
  <2>. QED BY <1>4, <1>5, <1>6, <1>7
<1>. QED BY <1>1, <1>5, <1>7, <1>8

\* The bundles of a schedule after a split.
AfterSplit(p, bs, b, boundary) ==
  [c \in DOMAIN bs \cup {NewBundle(p, bs)} |->
     CASE c = b -> Bundle(p, LeftFragments(bs[b].frags, boundary))
       [] c = NewBundle(p, bs) -> Bundle(p, RightFragments(bs[b].frags, boundary))
       [] OTHER -> bs[c]]

\* Bundle b has become two, of which the second one is new.
SplitInto(p, bs, b, boundary, after, right) ==
  /\ DOMAIN after = DOMAIN bs \cup {right} /\ b # right /\ right \notin DOMAIN bs
  /\ after[b] = Bundle(p, LeftFragments(bs[b].frags, boundary))
  /\ after[b].frags = LeftFragments(bs[b].frags, boundary)
  /\ after[right] = Bundle(p, RightFragments(bs[b].frags, boundary))
  /\ after[right].frags = RightFragments(bs[b].frags, boundary)
  /\ \A c \in DOMAIN bs \ {b} : after[c] = bs[c] /\ c # right

LEMMA AfterSplitValues ==
  ASSUME NEW p, Scanned(p), NEW bs, IsFiniteSet(DOMAIN bs), DOMAIN bs \subseteq Nat,
         NEW b \in DOMAIN bs, NEW boundary
  PROVE  SplitInto(p, bs, b, boundary, AfterSplit(p, bs, b, boundary), NewBundle(p, bs))
<1>. DEFINE after == AfterSplit(p, bs, b, boundary)
            right == NewBundle(p, bs)
<1>1. right \notin DOMAIN bs /\ b # right
  BY NewBundleIsNew
<1>. HIDE DEF right
<1>2. after = [c \in DOMAIN bs \cup {right} |->
                 CASE c = b -> Bundle(p, LeftFragments(bs[b].frags, boundary))
                   [] c = right -> Bundle(p, RightFragments(bs[b].frags, boundary))
                   [] OTHER -> bs[c]]
  BY DEF AfterSplit, right
<1>. HIDE DEF after
<1>3. DOMAIN after = DOMAIN bs \cup {right}
  BY <1>2
<1>4. after[b] = Bundle(p, LeftFragments(bs[b].frags, boundary))
  BY <1>1, <1>2
<1>5. after[right] = Bundle(p, RightFragments(bs[b].frags, boundary))
  BY <1>1, <1>2
<1>6. \A c \in DOMAIN bs \ {b} : after[c] = bs[c] /\ c # right
  BY <1>1, <1>2
<1>7. SplitInto(p, bs, b, boundary, after, right)
  BY <1>1, <1>3, <1>4, <1>5, <1>6, BundleFragments DEF SplitInto
<1>. QED BY <1>7 DEF after, right

\* Splitting keeps what bundles keep.
LEMMA SplitKeepsBundles ==
  ASSUME NEW p, Scanned(p), NEW bs, BundlesOK(p, bs), NEW b \in DOMAIN bs, NEW boundary \in Nat,
         CanSplit(p, bs[b].frags, boundary)
  PROVE  BundlesOK(p, AfterSplit(p, bs, b, boundary))
<1>. DEFINE after == AfterSplit(p, bs, b, boundary)
            right == NewBundle(p, bs)
            frags == bs[b].frags
            L == LeftFragments(frags, boundary)
            R == RightFragments(frags, boundary)
<1>1. /\ IsFiniteSet(DOMAIN bs) /\ DOMAIN bs \subseteq Nat
      /\ \A c \in DOMAIN bs : bs[c] = Bundle(p, bs[c].frags) /\ FragmentsOK(p, bs[c].frags)
  BY DEF BundlesOK
<1>2. /\ DOMAIN after = DOMAIN bs \cup {right} /\ b # right
      /\ after[b] = Bundle(p, L) /\ after[b].frags = L
      /\ after[right] = Bundle(p, R) /\ after[right].frags = R
      /\ \A c \in DOMAIN bs \ {b} : after[c] = bs[c] /\ c # right
  <2>1. SplitInto(p, bs, b, boundary, after, right)
    BY <1>1, AfterSplitValues
  <2>. HIDE DEF after, right, L, R
  <2>. QED BY <2>1 DEF SplitInto, L, R
<1>3. /\ FragmentsOK(p, L)
      /\ \A l \in L : \E f \in frags :
           f.from < boundary /\ l.range = f.range /\ l.from = f.from /\ l.to <= f.to /\ l.to <= boundary
      /\ \A f \in frags : f.from < boundary => \E l \in L :
           l.range = f.range /\ l.from = f.from /\ l.to = IF f.to <= boundary THEN f.to ELSE boundary
  BY <1>1, LeftFragmentsOK
<1>4. /\ FragmentsOK(p, R)
      /\ \A l \in R : \E f \in frags :
           boundary < f.to /\ l.range = f.range /\ l.to = f.to /\ f.from <= l.from /\ boundary <= l.from
      /\ \A f \in frags : boundary < f.to => \E l \in R :
           l.range = f.range /\ l.to = f.to /\ l.from = IF f.from <= boundary THEN boundary ELSE f.from
  BY <1>1, RightFragmentsOK
<1>5. right \in Nat
  BY <1>1, NewBundleIsNew
<1>6. \A c \in DOMAIN bs : \A f \in bs[c].frags : f.from \in Nat /\ f.to \in Nat /\ f.from < f.to
  BY <1>1 DEF FragmentsOK, FragmentOK
<1>7. \A l \in L \cup R : l.from \in Nat /\ l.to \in Nat /\ l.from < l.to
  BY <1>3, <1>4 DEF FragmentsOK, FragmentOK
<1>. HIDE DEF after, right, L, R
<1>8. IsFiniteSet(DOMAIN after) /\ DOMAIN after \subseteq Nat
  <2>1. IsFiniteSet({right})
    BY FS_Singleton
  <2>. QED BY <2>1, <1>1, <1>2, <1>5, FS_Union
<1>9. \A c \in DOMAIN after : after[c] = Bundle(p, after[c].frags) /\ FragmentsOK(p, after[c].frags)
  <2>. TAKE c \in DOMAIN after
  <2>1. CASE c = b
    BY <2>1, <1>2, <1>3
  <2>2. CASE c = right
    BY <2>2, <1>2, <1>4
  <2>3. CASE c # b /\ c # right
    BY <2>3, <1>1, <1>2
  <2>. QED BY <2>1, <2>2, <2>3
<1>10. Ahead(L, R)
  <2>. SUFFICES ASSUME NEW l \in L, NEW m \in R PROVE l.to <= m.from
    BY DEF Ahead
  <2>1. l.to <= boundary /\ boundary <= m.from
    BY <1>3, <1>4
  <2>. QED BY <2>1, <1>7
<1>11. ASSUME NEW c \in DOMAIN bs \ {b}, Shared(L, bs[c].frags) \/ Shared(R, bs[c].frags)
       PROVE  /\ Ahead(frags, bs[c].frags) \/ Ahead(bs[c].frags, frags)
              /\ Ahead(frags, bs[c].frags) => Ahead(L, bs[c].frags) /\ Ahead(R, bs[c].frags)
              /\ Ahead(bs[c].frags, frags) => Ahead(bs[c].frags, L) /\ Ahead(bs[c].frags, R)
  <2>1. Shared(frags, bs[c].frags)
    BY <1>3, <1>4, <1>11 DEF Shared
  <2>2. Ahead(frags, bs[c].frags) \/ Ahead(bs[c].frags, frags)
    BY <2>1, Zenon DEF BundlesOK, Apart
  <2>3. ASSUME Ahead(frags, bs[c].frags) PROVE Ahead(L, bs[c].frags) /\ Ahead(R, bs[c].frags)
    <3>. SUFFICES ASSUME NEW l \in L \cup R, NEW h \in bs[c].frags PROVE l.to <= h.from
      BY DEF Ahead
    <3>1. PICK f \in frags : l.to <= f.to
      <4>1. CASE l \in L
        BY <4>1, <1>3
      <4>2. CASE l \in R
        <5>1. PICK f \in frags : l.to = f.to
          BY <4>2, <1>4
        <5>. QED BY <5>1, <1>6
      <4>. QED BY <4>1, <4>2
    <3>2. f.to <= h.from
      BY <2>3 DEF Ahead
    <3>. QED BY <3>1, <3>2, <1>6, <1>7
  <2>4. ASSUME Ahead(bs[c].frags, frags) PROVE Ahead(bs[c].frags, L) /\ Ahead(bs[c].frags, R)
    <3>. SUFFICES ASSUME NEW l \in L \cup R, NEW h \in bs[c].frags PROVE h.to <= l.from
      BY DEF Ahead
    <3>1. PICK f \in frags : f.from <= l.from
      <4>1. CASE l \in L
        <5>1. PICK f \in frags : l.from = f.from
          BY <4>1, <1>3
        <5>. QED BY <5>1, <1>6
      <4>2. CASE l \in R
        BY <4>2, <1>4
      <4>. QED BY <4>1, <4>2
    <3>2. h.to <= f.from
      BY <2>4 DEF Ahead
    <3>. QED BY <3>1, <3>2, <1>6, <1>7
  <2>. QED BY <2>2, <2>3, <2>4
<1>12. Apart(p, after)
  <2>. DEFINE Right(c, d) == Shared(after[c].frags, after[d].frags) =>
                Ahead(after[c].frags, after[d].frags) \/ Ahead(after[d].frags, after[c].frags)
  <2>. SUFFICES ASSUME NEW c \in DOMAIN after, NEW d \in DOMAIN after, c # d PROVE Right(c, d)
    BY Zenon DEF Apart
  <2>0. Shared(after[c].frags, after[d].frags) => Shared(after[d].frags, after[c].frags)
    BY DEF Shared
  <2>1. CASE c \in {b, right} /\ d \in {b, right}
    BY <2>1, <1>2, <1>10
  <2>2. CASE c \in {b, right} /\ d \notin {b, right}
    <3>1. d \in DOMAIN bs \ {b} /\ after[d] = bs[d]
      BY <2>2, <1>2
    <3>. QED BY <3>1, <2>2, <1>2, <1>11
  <2>3. CASE c \notin {b, right} /\ d \in {b, right}
    <3>1. c \in DOMAIN bs \ {b} /\ after[c] = bs[c]
      BY <2>3, <1>2
    <3>. QED BY <3>1, <2>0, <2>3, <1>2, <1>11
  <2>4. CASE c \notin {b, right} /\ d \notin {b, right}
    <3>1. c \in DOMAIN bs /\ d \in DOMAIN bs /\ after[c] = bs[c] /\ after[d] = bs[d]
      BY <2>4, <1>2
    <3>. QED BY <3>1, Zenon DEF BundlesOK, Apart
  <2>. QED BY <2>1, <2>2, <2>3, <2>4
<1>13. PositionsKept(p, after)
  <2>. SUFFICES ASSUME NEW r \in DOMAIN p.ranges, NEW pos \in p.ranges[r].from .. p.ranges[r].to - 1
                PROVE  \E c \in DOMAIN after : \E f \in after[c].frags :
                         f.range = r /\ f.from <= pos /\ pos < f.to
    BY DEF PositionsKept
  <2>0. PICK c \in DOMAIN bs : \E f \in bs[c].frags : f.range = r /\ f.from <= pos /\ pos < f.to
    BY DEF BundlesOK, PositionsKept
  <2>1. PICK f \in bs[c].frags : f.range = r /\ f.from <= pos /\ pos < f.to
    BY <2>0
  <2>2. CASE c # b
    BY <2>1, <2>2, <1>2
  <2>3. CASE c = b
    <3>1. pos \in Int /\ f \in frags /\ f.from \in Nat /\ f.to \in Nat
      BY <2>1, <2>3, <1>6
    <3>2. CASE pos < boundary
      <4>1. f.from < boundary
        BY <2>1, <3>1, <3>2
      <4>2. PICK l \in L : l.range = f.range /\ l.from = f.from
                           /\ l.to = IF f.to <= boundary THEN f.to ELSE boundary
        BY <4>1, <3>1, <1>3
      <4>3. l.from <= pos /\ pos < l.to
        BY <4>2, <2>1, <3>1, <3>2
      <4>. QED BY <4>2, <4>3, <2>1, <1>2
    <3>3. CASE ~(pos < boundary)
      <4>1. boundary < f.to
        BY <2>1, <3>1, <3>3
      <4>2. PICK l \in R : l.range = f.range /\ l.to = f.to
                           /\ l.from = IF f.from <= boundary THEN boundary ELSE f.from
        BY <4>1, <3>1, <1>4
      <4>3. l.from <= pos /\ pos < l.to
        BY <4>2, <2>1, <3>1, <3>3
      <4>. QED BY <4>2, <4>3, <2>1, <1>2
    <3>. QED BY <3>2, <3>3
  <2>. QED BY <2>2, <2>3
<1>14. OccurrencesKept(p, after)
  <2>. SUFFICES ASSUME NEW o \in DOMAIN p.occs
                PROVE  \E c \in DOMAIN after : \E f \in after[c].frags : Covers(p, f, o)
    BY DEF OccurrencesKept
  <2>. DEFINE from == p.occs[o].from
              to == p.occs[o].to
  <2>0. PICK c \in DOMAIN bs : \E f \in bs[c].frags : Covers(p, f, o)
    BY DEF BundlesOK, OccurrencesKept
  <2>1. PICK f \in bs[c].frags : Covers(p, f, o)
    BY <2>0
  <2>2. CASE c # b
    BY <2>1, <2>2, <1>2
  <2>3. CASE c = b
    <3>1. from \in Nat /\ to \in Nat /\ from < to
      BY DEF Scanned, ScanVerified, OccurrenceVerified, OccurrenceScanned
    <3>2. f \in frags /\ f.from \in Nat /\ f.to \in Nat /\ f.from <= from /\ to <= f.to
          /\ p.occs[o].range = f.range
      BY <2>1, <2>3, <1>6 DEF Covers, Within
    <3>3. ~(from < boundary /\ boundary < to)
      BY <2>1, <3>2 DEF CanSplit, CoveredOccurrences
    <3>. HIDE DEF from, to
    <3>4. CASE to <= boundary
      <4>1. f.from < boundary
        BY <3>1, <3>2, <3>4
      <4>2. PICK l \in L : l.range = f.range /\ l.from = f.from
                           /\ l.to = IF f.to <= boundary THEN f.to ELSE boundary
        BY <4>1, <3>2, <1>3
      <4>3. l.from <= from /\ to <= l.to
        BY <4>2, <3>1, <3>2, <3>4
      <4>4. Covers(p, l, o)
        BY <4>2, <4>3, <3>2 DEF Covers, Within, from, to
      <4>. QED BY <4>4, <1>2
    <3>5. CASE boundary <= from
      <4>1. boundary < f.to
        BY <3>1, <3>2, <3>5
      <4>2. PICK l \in R : l.range = f.range /\ l.to = f.to
                           /\ l.from = IF f.from <= boundary THEN boundary ELSE f.from
        BY <4>1, <3>2, <1>4
      <4>3. l.from <= from /\ to <= l.to
        BY <4>2, <3>1, <3>2, <3>5
      <4>4. Covers(p, l, o)
        BY <4>2, <4>3, <3>2 DEF Covers, Within, from, to
      <4>. QED BY <4>4, <1>2
    <3>. QED BY <3>1, <3>3, <3>4, <3>5
  <2>. QED BY <2>2, <2>3
<1>15. BundlesOK(p, after)
  BY <1>8, <1>9, <1>12, <1>13, <1>14, Zenon DEF BundlesOK
<1>. QED BY <1>15 DEF after

-----------------------------------------------------------------------------
(* A scheduled transfer leads from the end of a fragment to the beginning  *)
(* of the next one of the same range, at the point of the code it is put.  *)

PositionOf(p, point) ==
  CASE point.kind = "entry" -> p.starts[point.block]
    [] point.kind = "before" -> EarlyOf(p.starts[point.block], point.at)
    [] point.kind = "exit" -> ExitOf(p.starts[point.block], p.graph.blocks[point.block])

PointOK(p, point, pos) ==
  point.kind \in {"entry", "before", "exit"} /\ PositionOf(p, point) = pos

Leads(p, fs, hs, pos) ==
  \E f \in fs, h \in hs :
    f.range = h.range /\ f.to = pos /\ h.from = pos /\ p.ranges[f.range].key[1] = "value"

TransferOK(p, bs, t) ==
  /\ t.from \in DOMAIN bs /\ t.to \in DOMAIN bs /\ t.from # t.to
  /\ \E pos \in Nat : PointOK(p, t.point, pos) /\ Leads(p, bs[t.from].frags, bs[t.to].frags, pos)

TransfersOK(p, bs, ts) == \A t \in ts : TransferOK(p, bs, t)

\* A range that a split cuts in two is the range of a value: a temporary
\* is needed all the way.
LEMMA OnlyValuesCut ==
  ASSUME NEW p, Scanned(p), NEW bs, BundlesOK(p, bs), NEW b \in DOMAIN bs, NEW boundary \in Nat,
         CanSplit(p, bs[b].frags, boundary),
         NEW f \in bs[b].frags, f.from < boundary, boundary < f.to
  PROVE  p.ranges[f.range].key[1] = "value"
<1>. SUFFICES ASSUME p.ranges[f.range].key[1] # "value" PROVE FALSE
  OBVIOUS
<1>. DEFINE r == f.range
<1>1. FragmentsOK(p, bs[b].frags) /\ FragmentOK(p, f)
  BY DEF BundlesOK, FragmentsOK
<1>2. r \in DOMAIN p.ranges /\ p.ranges[r].from <= f.from /\ f.to <= p.ranges[r].to
      /\ f.from \in Nat /\ f.to \in Nat /\ f.from < f.to
  BY <1>1 DEF FragmentOK
<1>3. PICK o \in p.ranges[r].occurrences :
         o \in DOMAIN p.occs /\ p.occs[o].from = p.ranges[r].from /\ p.occs[o].to = p.ranges[r].to
  BY <1>2 DEF Scanned, RangeScanned
<1>4. p.occs[o].range = r
  BY <1>2, <1>3 DEF Scanned, ScanVerified, RangeVerified
<1>5. PICK c \in DOMAIN bs : \E g \in bs[c].frags : Covers(p, g, o)
  BY <1>3 DEF BundlesOK, OccurrencesKept
<1>6. PICK g \in bs[c].frags : Covers(p, g, o)
  BY <1>5
<1>7. FragmentsOK(p, bs[c].frags) /\ FragmentOK(p, g)
  BY DEF BundlesOK, FragmentsOK
<1>8. g.range = r /\ g.from <= p.ranges[r].from /\ p.ranges[r].to <= g.to
  BY <1>3, <1>4, <1>6 DEF Covers, Within
<1>9. g.from \in Nat /\ g.to \in Nat
  BY <1>7 DEF FragmentOK
<1>10. p.ranges[r].from \in Nat /\ p.ranges[r].to \in Nat
  BY <1>2 DEF Scanned, RangeScanned
<1>11. c = b
  <2>1. Shared(bs[b].frags, bs[c].frags)
    BY <1>8 DEF Shared
  <2>2. ASSUME Ahead(bs[b].frags, bs[c].frags) \/ Ahead(bs[c].frags, bs[b].frags) PROVE FALSE
    <3>1. f.to <= g.from \/ g.to <= f.from
      BY <2>2 DEF Ahead
    <3>. QED BY <3>1, <1>2, <1>8, <1>9, <1>10
  <2>. QED BY <2>1, <2>2, Zenon DEF BundlesOK, Apart
<1>12. g = f
  <2>1. g # f => f.to <= g.from \/ g.to <= f.from
    BY <1>1, <1>11 DEF FragmentsOK
  <2>. QED BY <2>1, <1>2, <1>8, <1>9, <1>10
<1>13. o \in CoveredOccurrences(p, bs[b].frags)
  BY <1>3, <1>6, <1>11 DEF CoveredOccurrences
<1>14. ~(p.occs[o].from < boundary /\ boundary < p.occs[o].to)
  BY <1>13 DEF CanSplit
<1>15. p.ranges[r].from = f.from /\ p.ranges[r].to = f.to
  BY <1>2, <1>8, <1>10, <1>12
<1>. QED BY <1>3, <1>14, <1>15

\* A transfer out of a split bundle now leaves its right part only, one
\* into it reaches its left part only.
LEMMA RemapsToOneSide ==
  ASSUME NEW p, Scanned(p), NEW bs, BundlesOK(p, bs), NEW b \in DOMAIN bs, NEW boundary \in Nat,
         CanSplit(p, bs[b].frags, boundary), NEW t, TransferOK(p, bs, t)
  PROVE  LET after == AfterSplit(p, bs, b, boundary)
             right == NewBundle(p, bs)
         IN  /\ TransferOK(p, after, RemapTransfer(after, t, b, right))
             /\ ~RemapAmbiguous(after, t, b, right)
<1>. DEFINE after == AfterSplit(p, bs, b, boundary)
            right == NewBundle(p, bs)
            frags == bs[b].frags
            L == LeftFragments(frags, boundary)
            R == RightFragments(frags, boundary)
            remapped == RemapTransfer(after, t, b, right)
<1>1. SplitInto(p, bs, b, boundary, after, right)
  BY AfterSplitValues DEF BundlesOK
<1>2. \A c \in DOMAIN bs : FragmentsOK(p, bs[c].frags)
  BY DEF BundlesOK
<1>3. /\ \A l \in L : \E f \in frags :
           f.from < boundary /\ l.range = f.range /\ l.from = f.from /\ l.to <= f.to /\ l.to <= boundary
      /\ \A f \in frags : f.from < boundary => \E l \in L :
           l.range = f.range /\ l.from = f.from /\ l.to = IF f.to <= boundary THEN f.to ELSE boundary
      /\ \A l \in L : l.from \in Nat /\ l.to \in Nat
  BY <1>2, LeftFragmentsOK DEF FragmentsOK, FragmentOK
<1>4. /\ \A l \in R : \E f \in frags :
           boundary < f.to /\ l.range = f.range /\ l.to = f.to /\ f.from <= l.from /\ boundary <= l.from
      /\ \A f \in frags : boundary < f.to => \E l \in R :
           l.range = f.range /\ l.to = f.to /\ l.from = IF f.from <= boundary THEN boundary ELSE f.from
      /\ \A l \in R : l.from \in Nat /\ l.to \in Nat
  BY <1>2, RightFragmentsOK DEF FragmentsOK, FragmentOK
<1>5. \A c \in DOMAIN bs : \A f \in bs[c].frags : f.from \in Nat /\ f.to \in Nat /\ f.from < f.to
  BY <1>2 DEF FragmentsOK, FragmentOK
<1>. HIDE DEF after, right, L, R
<1>6. /\ DOMAIN after = DOMAIN bs \cup {right} /\ b # right /\ right \notin DOMAIN bs
      /\ after[b].frags = L /\ after[right].frags = R
      /\ \A c \in DOMAIN bs \ {b} : after[c] = bs[c] /\ c # right
  BY <1>1 DEF SplitInto, L, R
<1>7. t.from \in DOMAIN bs /\ t.to \in DOMAIN bs /\ t.from # t.to
  BY DEF TransferOK
<1>8. PICK pos \in Nat : PointOK(p, t.point, pos) /\ Leads(p, bs[t.from].frags, bs[t.to].frags, pos)
  BY DEF TransferOK
<1>9. PICK f \in bs[t.from].frags, h \in bs[t.to].frags :
         f.range = h.range /\ f.to = pos /\ h.from = pos /\ p.ranges[f.range].key[1] = "value"
  BY <1>8 DEF Leads
<1>10. Ahead(bs[t.from].frags, bs[t.to].frags)
  <2>1. Shared(bs[t.from].frags, bs[t.to].frags)
    BY <1>9 DEF Shared
  <2>2. ~Ahead(bs[t.to].frags, bs[t.from].frags)
    <3>1. ~(h.to <= f.from)
      BY <1>5, <1>7, <1>9
    <3>. QED BY <3>1 DEF Ahead
  <2>. QED BY <2>1, <2>2, <1>7, Zenon DEF BundlesOK, Apart
<1>11. t.point.kind # "edge"
  BY <1>8 DEF PointOK
<1>12. CASE t.from = b
  <2>1. t.to # b /\ after[t.to] = bs[t.to] /\ t.to # right
    BY <1>12, <1>6, <1>7
  <2>2. boundary < pos
    <3>1. PICK g \in frags : g.to > boundary
      BY DEF CanSplit
    <3>2. g.to <= h.from
      BY <1>10, <1>12, <3>1 DEF Ahead
    <3>. QED BY <3>1, <3>2, <1>5, <1>9, <1>7
  <2>3. PICK l \in R : l.range = f.range /\ l.to = f.to
    BY <2>2, <1>4, <1>9, <1>12
  <2>4. Leads(p, R, bs[t.to].frags, pos)
    BY <2>3, <1>9 DEF Leads
  <2>5. ~Adjacent(after[b], after[t.to])
    <3>. SUFFICES ASSUME NEW x \in L, NEW y \in bs[t.to].frags, x.to = y.from PROVE FALSE
      BY <2>1, <1>6 DEF Adjacent
    <3>1. x.to <= boundary
      BY <1>3
    <3>2. f.to <= y.from
      BY <1>10 DEF Ahead
    <3>3. x.to \in Nat /\ y.from \in Nat
      BY <1>3, <1>5, <1>7
    <3>. QED BY <3>1, <3>2, <3>3, <2>2, <1>9
  <2>6. Adjacent(after[right], after[t.to])
    <3>1. l.range = h.range /\ l.to = h.from
      BY <2>3, <1>9
    <3>. QED BY <3>1, <2>1, <1>6 DEF Adjacent
  <2>7. remapped = [point |-> t.point, from |-> right, to |-> t.to]
    BY <2>1, <2>5, <1>11, <1>12, Zenon DEF RemapTransfer, SideOf
  <2>8. TransferOK(p, after, remapped)
    <3>1. remapped.from = right /\ remapped.to = t.to /\ remapped.point = t.point
      BY <2>7
    <3>. HIDE DEF remapped
    <3>2. remapped.from \in DOMAIN after /\ remapped.to \in DOMAIN after /\ remapped.from # remapped.to
      BY <3>1, <2>1, <1>6, <1>7
    <3>. QED BY <3>1, <3>2, <2>1, <2>4, <1>6, <1>8 DEF TransferOK
  <2>9. ~RemapAmbiguous(after, t, b, right)
    BY <2>1, <2>5, <2>6, Zenon DEF RemapAmbiguous
  <2>. QED BY <2>8, <2>9 DEF after, right
<1>13. CASE t.to = b
  <2>1. t.from # b /\ after[t.from] = bs[t.from] /\ t.from # right
    BY <1>13, <1>6, <1>7
  <2>2. pos < boundary
    <3>1. PICK g \in frags : g.from < boundary
      BY DEF CanSplit
    <3>2. f.to <= g.from
      BY <1>10, <1>13, <3>1 DEF Ahead
    <3>. QED BY <3>1, <3>2, <1>5, <1>9, <1>7
  <2>3. PICK l \in L : l.range = h.range /\ l.from = h.from
    BY <2>2, <1>3, <1>9, <1>13
  <2>4. Leads(p, bs[t.from].frags, L, pos)
    BY <2>3, <1>9 DEF Leads
  <2>5. ~Adjacent(after[t.from], after[right])
    <3>. SUFFICES ASSUME NEW y \in bs[t.from].frags, NEW x \in R, y.to = x.from PROVE FALSE
      BY <2>1, <1>6 DEF Adjacent
    <3>1. boundary <= x.from
      BY <1>4
    <3>2. y.to <= h.from
      BY <1>10 DEF Ahead
    <3>3. x.from \in Nat /\ y.to \in Nat
      BY <1>4, <1>5, <1>7
    <3>. QED BY <3>1, <3>2, <3>3, <2>2, <1>9
  <2>6. Adjacent(after[t.from], after[b])
    <3>1. f.range = l.range /\ f.to = l.from
      BY <2>3, <1>9
    <3>. QED BY <3>1, <2>1, <1>6 DEF Adjacent
  <2>7. remapped = [point |-> t.point, from |-> t.from, to |-> b]
    BY <2>1, <2>6, <1>11, <1>13, Zenon DEF RemapTransfer, SideOf
  <2>8. TransferOK(p, after, remapped)
    <3>1. remapped.from = t.from /\ remapped.to = b /\ remapped.point = t.point
      BY <2>7
    <3>. HIDE DEF remapped
    <3>2. remapped.from \in DOMAIN after /\ remapped.to \in DOMAIN after /\ remapped.from # remapped.to
      BY <3>1, <2>1, <1>6, <1>7
    <3>. QED BY <3>1, <3>2, <2>1, <2>4, <1>6, <1>8 DEF TransferOK
  <2>9. ~RemapAmbiguous(after, t, b, right)
    BY <2>1, <2>5, <2>6, Zenon DEF RemapAmbiguous
  <2>. QED BY <2>8, <2>9 DEF after, right
<1>14. CASE t.from # b /\ t.to # b
  <2>1. remapped = [point |-> t.point, from |-> t.from, to |-> t.to]
    BY <1>11, <1>14, Zenon DEF RemapTransfer
  <2>2. remapped.from = t.from /\ remapped.to = t.to /\ remapped.point = t.point
    BY <2>1
  <2>. HIDE DEF remapped
  <2>3. after[t.from] = bs[t.from] /\ after[t.to] = bs[t.to]
    BY <1>6, <1>7, <1>14
  <2>4. remapped.from \in DOMAIN after /\ remapped.to \in DOMAIN after /\ remapped.from # remapped.to
    BY <2>2, <1>6, <1>7
  <2>5. TransferOK(p, after, remapped)
    BY <2>2, <2>3, <2>4, <1>8 DEF TransferOK
  <2>6. ~RemapAmbiguous(after, t, b, right)
    BY <1>14, Zenon DEF RemapAmbiguous
  <2>. QED BY <2>5, <2>6 DEF after, right, remapped
<1>. QED BY <1>12, <1>13, <1>14

ScheduleOK(p, s) == s.fatal = FALSE /\ BundlesOK(p, s.bundles) /\ TransfersOK(p, s.bundles, s.transfers)

Crosses(frags, boundary) == \E f \in frags : f.from < boundary /\ boundary < f.to

\* Splitting keeps a schedule in order, and no transfer's end is ever
\* connected to both parts or to none.
LEMMA SplitKeepsSchedule ==
  ASSUME NEW p, Scanned(p), NEW s, ScheduleOK(p, s), NEW b \in DOMAIN s.bundles, NEW boundary \in Nat,
         CanSplit(p, s.bundles[b].frags, boundary), NEW point,
         Crosses(s.bundles[b].frags, boundary) => PointOK(p, point, boundary)
  PROVE  /\ ScheduleOK(p, SplitBundle(p, s, b, boundary, point))
         /\ SplitInto(p, s.bundles, b, boundary, SplitBundle(p, s, b, boundary, point).bundles,
                      NewBundle(p, s.bundles))
<1>. DEFINE after == AfterSplit(p, s.bundles, b, boundary)
            right == NewBundle(p, s.bundles)
            frags == s.bundles[b].frags
            new == IF Crosses(frags, boundary) THEN {[point |-> point, from |-> b, to |-> right]} ELSE {}
            split == SplitBundle(p, s, b, boundary, point)
            L == LeftFragments(frags, boundary)
            R == RightFragments(frags, boundary)
<1>1. split = [bundles |-> after,
               transfers |-> {RemapTransfer(after, t, b, right) : t \in s.transfers} \cup new,
               fatal |-> s.fatal \/ \E t \in s.transfers : RemapAmbiguous(after, t, b, right)]
  BY Zenon DEF SplitBundle, AfterSplit, Crosses
<1>2. BundlesOK(p, s.bundles) /\ s.fatal = FALSE /\ \A t \in s.transfers : TransferOK(p, s.bundles, t)
  BY DEF ScheduleOK, TransfersOK
<1>3. \A t \in s.transfers : /\ TransferOK(p, after, RemapTransfer(after, t, b, right))
                             /\ ~RemapAmbiguous(after, t, b, right)
  BY <1>2, RemapsToOneSide
<1>4. BundlesOK(p, after)
  BY <1>2, SplitKeepsBundles
<1>5. SplitInto(p, s.bundles, b, boundary, after, right)
  BY <1>2, AfterSplitValues DEF BundlesOK
<1>6. FragmentsOK(p, frags)
  BY <1>2 DEF BundlesOK
<1>7. \A t \in new : TransferOK(p, after, t)
  <2>. SUFFICES ASSUME Crosses(frags, boundary)
                PROVE  TransferOK(p, after, [point |-> point, from |-> b, to |-> right])
    OBVIOUS
  <2>1. PICK f \in frags : f.from < boundary /\ boundary < f.to
    BY DEF Crosses
  <2>2. p.ranges[f.range].key[1] = "value"
    BY <2>1, <1>2, OnlyValuesCut
  <2>3. f.from \in Nat /\ f.to \in Nat
    BY <1>6 DEF FragmentsOK, FragmentOK
  <2>4. PICK l \in L : l.range = f.range /\ l.to = boundary
    <3>1. PICK l \in L : l.range = f.range /\ l.to = IF f.to <= boundary THEN f.to ELSE boundary
      BY <2>1, <1>6, LeftFragmentsOK
    <3>. QED BY <3>1, <2>1, <2>3
  <2>5. PICK m \in R : m.range = f.range /\ m.from = boundary
    <3>1. PICK m \in R : m.range = f.range /\ m.from = IF f.from <= boundary THEN boundary ELSE f.from
      BY <2>1, <1>6, RightFragmentsOK
    <3>. QED BY <3>1, <2>1, <2>3
  <2>. HIDE DEF after, right, L, R
  <2>6. after[b].frags = L /\ after[right].frags = R /\ b \in DOMAIN after /\ right \in DOMAIN after
        /\ b # right
    BY <1>5 DEF SplitInto, L, R
  <2>7. Leads(p, after[b].frags, after[right].frags, boundary)
    BY <2>2, <2>4, <2>5, <2>6 DEF Leads
  <2>8. PointOK(p, point, boundary)
    OBVIOUS
  <2>. QED BY <2>6, <2>7, <2>8 DEF TransferOK
<1>. HIDE DEF after, right, new
<1>8. split.bundles = after /\ split.transfers = {RemapTransfer(after, t, b, right) : t \in s.transfers} \cup new
      /\ split.fatal = (s.fatal \/ \E t \in s.transfers : RemapAmbiguous(after, t, b, right))
  BY <1>1
<1>. HIDE DEF split
<1>9. split.fatal = FALSE
  BY <1>2, <1>3, <1>8
<1>10. TransfersOK(p, split.bundles, split.transfers)
  BY <1>3, <1>7, <1>8 DEF TransfersOK
<1>11. ScheduleOK(p, split) /\ SplitInto(p, s.bundles, b, boundary, split.bundles, right)
  BY <1>4, <1>5, <1>8, <1>9, <1>10, Zenon DEF ScheduleOK
<1>. QED BY <1>11 DEF split, right

-----------------------------------------------------------------------------
(* Where a split may put a transfer.                                       *)

\* The block that a position of a fragment lies in.
LEMMA BlockOfPosition ==
  ASSUME Scanned(problem), NEW f, FragmentOK(problem, f), NEW pos \in Nat, f.from <= pos, pos <= f.to
  PROVE  /\ BlockAt(pos) \in Blocks(problem) /\ BlockAt(pos) \in DOMAIN problem.starts
         /\ StartOf(BlockAt(pos)) \in Nat
         /\ Len(problem.graph.blocks[BlockAt(pos)].code) \in Nat
         /\ StartOf(BlockAt(pos)) <= pos /\ pos < EndOf(BlockAt(pos))
<1>. DEFINE b == problem.ranges[f.range].block
            In(c) == /\ problem.starts[c] <= pos
                     /\ pos < problem.starts[c] + BlockSize(problem.graph.blocks[c])
<1>1. /\ f.range \in DOMAIN problem.ranges /\ f.from \in Nat /\ f.to \in Nat
      /\ problem.ranges[f.range].from <= f.from /\ f.to <= problem.ranges[f.range].to
  BY DEF FragmentOK
<1>2. /\ problem.ranges[f.range].from \in Nat /\ problem.ranges[f.range].to \in Nat
      /\ b \in Blocks(problem)
      /\ problem.ranges[f.range].to <= ExitOf(problem.starts[b], problem.graph.blocks[b]) + 1
  BY <1>1 DEF Scanned, RangeScanned
<1>3. problem.starts[b] <= problem.ranges[f.range].from
  BY <1>1 DEF Scanned, ScanVerified, RangeVerified
<1>4. /\ DOMAIN problem.starts = Blocks(problem)
      /\ \A c \in Blocks(problem) :
           problem.starts[c] \in Nat /\ Len(problem.graph.blocks[c].code) \in Nat
  BY DEF Scanned, BlocksLaidOut, CodeOf
<1>. HIDE DEF b
<1>5. In(b)
  <2>. DEFINE start == problem.starts[b]
              len == Len(problem.graph.blocks[b].code)
              first == problem.ranges[f.range].from
              last == problem.ranges[f.range].to
  <2>1. start \in Nat /\ len \in Nat
    BY <1>2, <1>4
  <2>2. last <= start + 2 + 2 * len + 1 /\ start <= first
    BY <1>2, <1>3 DEF ExitOf
  <2>3. first \in Nat /\ last \in Nat /\ first <= f.from /\ f.to <= last
    BY <1>1, <1>2
  <2>. HIDE DEF start, len, first, last
  <2>4. start <= pos /\ pos < start + (len + 2) * 2
    BY <1>1, <2>1, <2>2, <2>3
  <2>. QED BY <2>4 DEF start, len, BlockSize
<1>6. BlockAt(pos) \in DOMAIN problem.starts /\ In(BlockAt(pos))
  BY <1>2, <1>4, <1>5, Zenon DEF BlockAt
<1>. QED BY <1>4, <1>6 DEF StartOf, EndOf

LEMMA PointForBoundary ==
  ASSUME Scanned(problem), NEW f, FragmentOK(problem, f), NEW pos \in Nat, f.from <= pos, pos <= f.to,
         TransferPointForBoundary(pos) # NoPoint
  PROVE  PointOK(problem, TransferPointForBoundary(pos), pos)
<1>. DEFINE b == BlockAt(pos)
            len == Len(problem.graph.blocks[b].code)
            start == problem.starts[b]
<1>1. /\ b \in Blocks(problem) /\ start \in Nat /\ len \in Nat
      /\ start <= pos /\ pos < start + (len + 2) * 2
  BY BlockOfPosition DEF StartOf, EndOf, BlockSize
<1>2. ~(pos >= EndOf(Len(problem.starts)))
  BY DEF TransferPointForBoundary
<1>3. Exit(b) = start + 2 + 2 * len
  BY DEF Exit, ExitOf, StartOf
<1>4. TransferPointForBoundary(pos) =
        CASE pos = start -> EntryPoint(b)
          [] pos = Exit(b) -> ExitPoint(b)
          [] start + 2 <= pos /\ pos < Exit(b) /\ (pos - start) % 2 = 0 -> BeforePoint(b, (pos - start) \div 2)
          [] OTHER -> NoPoint
  BY <1>2, Zenon DEF TransferPointForBoundary, StartOf
<1>. HIDE DEF b, len, start
<1>5. CASE pos = start
  <2>1. TransferPointForBoundary(pos) = EntryPoint(b)
    BY <1>1, <1>3, <1>4, <1>5
  <2>. QED BY <2>1, <1>5 DEF PointOK, PositionOf, EntryPoint, start
<1>6. CASE pos = Exit(b)
  <2>1. TransferPointForBoundary(pos) = ExitPoint(b)
    BY <1>1, <1>3, <1>4, <1>6
  <2>. QED BY <2>1, <1>6, <1>3 DEF PointOK, PositionOf, ExitPoint, Exit, StartOf
<1>7. CASE start + 2 <= pos /\ pos < Exit(b) /\ (pos - start) % 2 = 0
  <2>1. TransferPointForBoundary(pos) = BeforePoint(b, (pos - start) \div 2)
    BY <1>1, <1>3, <1>4, <1>7
  <2>2. start + 2 * ((pos - start) \div 2) = pos
    BY <1>1, <1>7
  <2>3. PositionOf(problem, BeforePoint(b, (pos - start) \div 2)) = start + 2 * ((pos - start) \div 2)
    BY DEF PositionOf, BeforePoint, EarlyOf, start
  <2>4. BeforePoint(b, (pos - start) \div 2).kind = "before"
    BY DEF BeforePoint
  <2>. QED BY <2>1, <2>2, <2>3, <2>4 DEF PointOK
<1>8. CASE pos # start /\ pos # Exit(b) /\ ~(start + 2 <= pos /\ pos < Exit(b) /\ (pos - start) % 2 = 0)
  <2>1. TransferPointForBoundary(pos) = NoPoint
    BY <1>4, <1>8, Zenon
  <2>. QED BY <2>1
<1>. QED BY <1>5, <1>6, <1>7, <1>8

\* A cut at the start of an occurrence that needs the value: the transfer
\* belongs to what reads it.
LEMMA PointForOccurrence ==
  ASSUME NEW p, Scanned(p), NEW o \in DOMAIN p.occs,
         p.occs[o].anchor.kind \in {"operand", "edge"}, p.occs[o].from # p.ranges[p.occs[o].range].from
  PROVE  PointOK(p, TransferPointForOccurrence(p, o), p.occs[o].from)
<1>. DEFINE occ == p.occs[o]
            a == occ.anchor
            start == p.starts[a.block]
            early == EarlyOf(start, a.at)
<1>1. AnchorVerified(p, o) /\ AnchorInCode(p, a)
  BY DEF Scanned, ScanVerified, OccurrenceVerified, OccurrenceScanned
<1>2. start \in Nat /\ occ.pos \in Nat
  BY <1>1 DEF Scanned, OccurrenceScanned, AnchorInCode, BlocksLaidOut
<1>3. CASE a.kind = "edge"
  <2>1. occ.from = occ.pos /\ occ.pos = ExitOf(start, p.graph.blocks[a.block])
    BY <1>1, <1>3 DEF AnchorVerified
  <2>2. TransferPointForOccurrence(p, o) = ExitPoint(a.block)
    BY <1>3 DEF TransferPointForOccurrence
  <2>. QED BY <2>1, <2>2 DEF PointOK, PositionOf, ExitPoint
<1>4. CASE a.kind = "operand"
  <2>1. occ.from = early
    BY <1>1, <1>4 DEF AnchorVerified, Coverage
  <2>2. TransferPointForOccurrence(p, o) = BeforePoint(a.block, a.at)
    BY <1>4 DEF TransferPointForOccurrence
  <2>. QED BY <2>1, <2>2 DEF PointOK, PositionOf, BeforePoint
<1>. QED BY <1>3, <1>4

LEMMA OccurrencePositions ==
  ASSUME NEW p, Scanned(p), NEW o \in DOMAIN p.occs
  PROVE  /\ p.occs[o].from \in Nat /\ p.occs[o].to \in Nat /\ p.occs[o].from < p.occs[o].to
         /\ p.occs[o].pos \in Nat
<1>1. p.occs[o].from \in Nat /\ p.occs[o].to \in Nat /\ p.occs[o].pos \in Nat
  BY DEF Scanned, OccurrenceScanned
<1>2. p.occs[o].from <= p.occs[o].pos /\ p.occs[o].pos < p.occs[o].to
  BY DEF Scanned, ScanVerified, OccurrenceVerified
<1>. QED BY <1>1, <1>2

LEMMA CutFragment ==
  ASSUME NEW p, Scanned(p), NEW frags, FragmentsOK(p, frags), NEW o \in CoveredOccurrences(p, frags),
         Crosses(frags, p.occs[o].from)
  PROVE  /\ \E f \in frags : Covers(p, f, o) /\ f.from < p.occs[o].from
         /\ p.occs[o].from # p.ranges[p.occs[o].range].from
         /\ o \in DOMAIN p.occs
<1>. DEFINE from == p.occs[o].from
            to == p.occs[o].to
<1>1. o \in DOMAIN p.occs
  BY DEF CoveredOccurrences
<1>2. from \in Nat /\ to \in Nat /\ from < to
  BY <1>1 DEF Scanned, ScanVerified, OccurrenceVerified, OccurrenceScanned
<1>3. PICK f \in frags : Covers(p, f, o)
  BY DEF CoveredOccurrences
<1>4. PICK g \in frags : g.from < from /\ from < g.to
  BY DEF Crosses
<1>5. FragmentOK(p, f) /\ FragmentOK(p, g)
  BY DEF FragmentsOK
<1>6. f.range = p.occs[o].range /\ f.from <= from /\ to <= f.to
  BY <1>3 DEF Covers, Within
<1>. HIDE DEF from, to
<1>7. f.from \in Nat /\ f.to \in Nat /\ g.from \in Nat /\ g.to \in Nat
  BY <1>5 DEF FragmentOK
<1>8. f = g
  <2>1. f # g => f.to <= g.from \/ g.to <= f.from
    BY DEF FragmentsOK
  <2>. QED BY <2>1, <1>2, <1>4, <1>6, <1>7
<1>9. f.range \in DOMAIN p.ranges /\ p.ranges[f.range].from <= f.from
  BY <1>5 DEF FragmentOK
<1>10. p.ranges[f.range].from \in Nat
  BY <1>9 DEF Scanned, RangeScanned
<1>11. p.ranges[p.occs[o].range].from # from
  <2>1. f.range = p.occs[o].range
    BY <1>6
  <2>2. p.ranges[f.range].from # from
    BY <1>2, <1>4, <1>7, <1>8, <1>9, <1>10
  <2>. QED BY <2>1, <2>2
<1>12. f.from < from
  BY <1>4, <1>8
<1>. QED BY <1>1, <1>3, <1>11, <1>12 DEF from

\* The location splitter never cuts before the result of a guard: it would
\* have stopped at the guard's operand.
LEMMA FirstExcludedReads ==
  ASSUME NEW p, Scanned(p), NEW frags, FragmentsOK(p, frags), NEW o \in FirstExcluded(p, frags),
         Crosses(frags, p.occs[o].from)
  PROVE  p.occs[o].anchor.kind \in {"operand", "edge"}
<1>1. o \in Excluded(p, frags) /\ \A q \in Excluded(p, frags) \ {o} : PositionLess(p, o, q)
  BY DEF FirstExcluded
<1>2. o \in CoveredOccurrences(p, frags)
  BY <1>1 DEF Excluded
<1>3. PICK x \in CoveredOccurrences(p, frags) : PositionLess(p, x, o) /\ Incompatible(p, x, o)
  BY <1>1 DEF Excluded
<1>4. PICK f \in frags : Covers(p, f, o) /\ f.from < p.occs[o].from
  BY <1>2, CutFragment
<1>5. o \in DOMAIN p.occs /\ p.occs[o].from # p.ranges[p.occs[o].range].from
  BY <1>2, CutFragment
<1>6. x \in DOMAIN p.occs
  BY DEF CoveredOccurrences
<1>7. UseOrForwarded(p, o)
  BY <1>5 DEF Scanned, OccurrenceScanned
<1>. SUFFICES ASSUME p.occs[o].anchor.kind \notin {"operand", "edge"} PROVE FALSE
  OBVIOUS
<1>8. ~IsFixed(p, o)
  BY <1>7 DEF UseOrForwarded
<1>9. PICK q \in DOMAIN p.occs :
         /\ p.occs[q].range = p.occs[o].range /\ p.occs[q].required /\ p.occs[q].pos < p.occs[o].pos
         /\ p.occs[q].from = p.occs[o].from - 1 /\ p.occs[q].to = p.occs[o].from
  BY <1>7 DEF UseOrForwarded
<1>10. p.occs[o].fixed.kind = "none" /\ (p.occs[x].fixed.kind = "stack" => ~p.occs[x].required)
  BY <1>5, <1>6, <1>8 DEF Scanned, OccurrenceScanned
<1>11. p.occs[x].fixed.kind = "stack"
  BY <1>3, <1>8, <1>10 DEF Incompatible
<1>12. Incompatible(p, x, q) /\ Incompatible(p, q, x) /\ x # q
  BY <1>9, <1>10, <1>11 DEF Incompatible
<1>13. /\ p.occs[o].from \in Nat /\ p.occs[o].to \in Nat /\ p.occs[o].from < p.occs[o].to
       /\ p.occs[o].pos \in Nat /\ p.occs[q].pos \in Nat /\ p.occs[x].pos \in Nat
  BY <1>5, <1>6, <1>9, OccurrencePositions
<1>14. DOMAIN p.occs \subseteq Nat
  BY DEF Scanned
<1>15. q \in CoveredOccurrences(p, frags)
  <2>1. f.from \in Nat /\ f.to \in Nat
    BY DEF FragmentsOK, FragmentOK
  <2>2. f.range = p.occs[o].range /\ p.occs[o].to <= f.to
    BY <1>4 DEF Covers, Within
  <2>3. f.from <= p.occs[q].from /\ p.occs[q].to <= f.to
    BY <2>1, <2>2, <1>4, <1>9, <1>13
  <2>4. Covers(p, f, q)
    BY <2>2, <2>3, <1>9 DEF Covers, Within
  <2>. QED BY <2>4, <1>9 DEF CoveredOccurrences
<1>16. PositionLess(p, x, q) \/ PositionLess(p, q, x)
  BY <1>6, <1>9, <1>12, <1>13, <1>14 DEF PositionLess
<1>17. PositionLess(p, q, o) /\ q # o
  BY <1>9, <1>13 DEF PositionLess
<1>18. \A y \in {x, q} : PositionLess(p, y, o) => ~PositionLess(p, o, y)
  BY <1>5, <1>6, <1>9, <1>13, <1>14 DEF PositionLess
<1>19. x # o
  BY <1>3, <1>5, <1>13, <1>14 DEF PositionLess
<1>20. CASE PositionLess(p, x, q)
  <2>1. q \in Excluded(p, frags)
    BY <1>12, <1>15, <1>20 DEF Excluded
  <2>. QED BY <2>1, <1>1, <1>17, <1>18
<1>21. CASE PositionLess(p, q, x)
  <2>1. x \in Excluded(p, frags)
    BY <1>12, <1>15, <1>21 DEF Excluded
  <2>. QED BY <2>1, <1>1, <1>3, <1>18, <1>19
<1>. QED BY <1>16, <1>20, <1>21

\* A fixed use is no guard's result either.
LEMMA FixedReads ==
  ASSUME NEW p, Scanned(p), NEW frags, FragmentsOK(p, frags), NEW o \in FixedOccurrences(p, frags),
         Crosses(frags, p.occs[o].from)
  PROVE  p.occs[o].anchor.kind \in {"operand", "edge"}
<1>1. o \in CoveredOccurrences(p, frags) /\ IsFixed(p, o)
  BY DEF FixedOccurrences
<1>2. o \in DOMAIN p.occs /\ p.occs[o].from # p.ranges[p.occs[o].range].from
  BY <1>1, CutFragment
<1>3. UseOrForwarded(p, o)
  BY <1>2 DEF Scanned, OccurrenceScanned
<1>. QED BY <1>1, <1>3 DEF UseOrForwarded

-----------------------------------------------------------------------------
(* Where the assigner cuts a bundle under pressure.                        *)

LEMMA BundleEnds ==
  ASSUME NEW p, NEW frags, FragmentsOK(p, frags)
  PROVE  /\ FirstOf(frags) \in Nat /\ \E f \in frags : f.from = FirstOf(frags)
         /\ \A f \in frags : FirstOf(frags) <= f.from
         /\ LastOf(frags) \in Nat /\ \E f \in frags : f.to = LastOf(frags)
         /\ \A f \in frags : f.to <= LastOf(frags)
<1>. DEFINE starts == {f.from : f \in frags}
            ends == {f.to : f \in frags}
            fn == [f \in frags |-> f.to]
<1>1. \A f \in frags : f.from \in Nat /\ f.to \in Nat
  BY DEF FragmentsOK, FragmentOK
<1>2. starts \in SUBSET Nat /\ starts # {} /\ ends \in SUBSET Nat /\ ends # {}
  BY <1>1 DEF FragmentsOK
<1>3. IsFiniteSet(ends)
  <2>1. IsFiniteSet({fn[f] : f \in frags})
    <3>1. fn = [f \in frags |-> fn[f]] /\ IsFiniteSet(frags)
      BY DEF FragmentsOK
    <3>. HIDE DEF fn
    <3>. QED BY <3>1, FiniteRange
  <2>2. ends = {fn[f] : f \in frags}
    OBVIOUS
  <2>. QED BY <2>1, <2>2
<1>4. FirstOf(frags) = Min(starts) /\ LastOf(frags) = Max(ends)
  BY DEF FirstOf, LastOf
<1>5. \A f \in frags : f.from \in starts /\ f.to \in ends
  OBVIOUS
<1>6. (\A x \in starts : \E f \in frags : f.from = x) /\ \A x \in ends : \E f \in frags : f.to = x
  OBVIOUS
<1>. HIDE DEF starts, ends
<1>7. Min(starts) \in starts /\ \A x \in starts : Min(starts) <= x
  BY <1>2, MinOfNaturals
<1>8. ends \in SUBSET Int
  BY <1>2
<1>9. Max(ends) \in ends /\ \A x \in ends : x <= Max(ends)
  BY <1>2, <1>3, <1>8, FiniteMax
<1>. QED BY <1>2, <1>4, <1>5, <1>6, <1>7, <1>9

LEMMA FirstConflictWithin ==
  ASSUME Scanned(problem), BundlesOK(problem, bundles), NEW b \in DOMAIN bundles, NEW l, ~Fits(l, b)
  PROVE  /\ FirstConflict(l, b) \in Nat
         /\ \E f \in bundles[b].frags : f.from <= FirstConflict(l, b) /\ FirstConflict(l, b) < f.to
<1>. DEFINE frags == bundles[b].frags
            taken == UNION {bundles[c].frags : c \in Residents(l, b)}
            spans == {[from |-> f.from, to |-> f.to] : f \in taken}
                       \cup {[from |-> c.from, to |-> c.to] : c \in ClobbersHit(l, b)}
            pairs == {fs \in frags \X spans : Overlap(fs[1], fs[2])}
            X == {Max({fs[1].from, fs[2].from}) : fs \in pairs}
<1>1. \A c \in DOMAIN bundles : \A f \in bundles[c].frags : f.from \in Nat /\ f.to \in Nat /\ f.from < f.to
  BY DEF BundlesOK, FragmentsOK, FragmentOK
<1>2. \A c \in problem.clobbers : c.from \in Nat /\ c.to \in Nat
  BY DEF Scanned
<1>3. \A s \in spans : s.from \in Nat /\ s.to \in Nat
  <2>1. \A f \in taken : f.from \in Nat /\ f.to \in Nat
    BY <1>1 DEF Residents
  <2>2. \A c \in ClobbersHit(l, b) : c.from \in Nat /\ c.to \in Nat
    BY <1>2 DEF ClobbersHit
  <2>. HIDE DEF taken
  <2>. QED BY <2>1, <2>2
<1>4. \E f \in frags, s \in spans : Overlap(f, s)
  <2>1. CASE Residents(l, b) # {}
    <3>1. PICK c \in Residents(l, b) : TRUE
      BY <2>1
    <3>2. PICK f \in bundles[c].frags, h \in frags : Overlap(f, h)
      BY <3>1 DEF Residents, BundlesOverlap
    <3>3. [from |-> f.from, to |-> f.to] \in spans
      BY <3>1
    <3>4. Overlap(h, [from |-> f.from, to |-> f.to])
      BY <3>2 DEF Overlap
    <3>. QED BY <3>3, <3>4
  <2>2. CASE ClobbersHit(l, b) # {}
    <3>1. PICK c \in ClobbersHit(l, b) : TRUE
      BY <2>2
    <3>2. PICK f \in frags : Overlap(f, c)
      BY <3>1 DEF ClobbersHit
    <3>3. [from |-> c.from, to |-> c.to] \in spans
      BY <3>1
    <3>4. Overlap(f, [from |-> c.from, to |-> c.to])
      BY <3>2 DEF Overlap
    <3>. QED BY <3>3, <3>4
  <2>. QED BY <2>1, <2>2 DEF Fits
<1>. HIDE DEF spans
<1>5. ASSUME NEW f \in frags, NEW s \in spans, Overlap(f, s)
      PROVE  /\ Max({f.from, s.from}) \in Nat
             /\ f.from <= Max({f.from, s.from}) /\ Max({f.from, s.from}) < f.to
  <2>1. f.from \in Int /\ s.from \in Int /\ f.from \in Nat /\ s.from \in Nat /\ f.to \in Nat /\ f.from < f.to
    BY <1>1, <1>3
  <2>2. Max({f.from, s.from}) = (IF f.from <= s.from THEN s.from ELSE f.from)
    BY <2>1, PairMinMax
  <2>. QED BY <2>1, <2>2, <1>5 DEF Overlap
<1>6. \A x \in X : x \in Nat /\ \E f \in frags : f.from <= x /\ x < f.to
  <2>. TAKE x \in X
  <2>1. PICK fs \in frags \X spans : Overlap(fs[1], fs[2]) /\ x = Max({fs[1].from, fs[2].from})
    OBVIOUS
  <2>2. fs[1] \in frags /\ fs[2] \in spans
    BY <2>1
  <2>. QED BY <2>1, <2>2, <1>5
<1>7. X # {}
  <2>1. PICK f \in frags, s \in spans : Overlap(f, s)
    BY <1>4
  <2>2. <<f, s>> \in pairs
    BY <2>1
  <2>. QED BY <2>2
<1>8. FirstConflict(l, b) = Min(X)
  BY Zenon DEF FirstConflict, spans
<1>. HIDE DEF X
<1>9. X \in SUBSET Nat
  BY <1>6
<1>10. Min(X) \in X
  BY <1>7, <1>9, MinOfNaturals
<1>. QED BY <1>6, <1>8, <1>10

LEMMA ConflictBoundary ==
  ASSUME Scanned(problem), NEW f, FragmentOK(problem, f), NEW pos \in Nat, f.from <= pos, pos <= f.to
  PROVE  TransferBoundaryForConflict(pos) \in Nat
<1>. DEFINE b == BlockAt(pos)
            start == StartOf(b)
            len == Len(problem.graph.blocks[b].code)
            even == start + (pos - start) - ((pos - start) % 2)
<1>1. start \in Nat /\ len \in Nat /\ start <= pos
  BY BlockOfPosition
<1>2. Exit(b) = start + 2 + 2 * len
  BY DEF Exit, ExitOf
<1>3. TransferBoundaryForConflict(pos) = Min({Exit(b), Max({start + 2, even})})
  BY Zenon DEF TransferBoundaryForConflict
<1>. HIDE DEF start, len
<1>4. even \in Int /\ start + 2 \in Int /\ start + 2 \in Nat /\ Exit(b) \in Nat /\ Exit(b) \in Int
  BY <1>1, <1>2
<1>. HIDE DEF even, b
<1>5. Max({start + 2, even}) = (IF start + 2 <= even THEN even ELSE start + 2)
  <2>. DEFINE x == start + 2
  <2>1. x \in Int
    BY <1>4
  <2>. HIDE DEF x
  <2>. QED BY <1>4, <2>1, PairMinMax
<1>6. Max({start + 2, even}) \in Nat
  BY <1>4, <1>5
<1>7. Min({Exit(b), Max({start + 2, even})}) \in Nat
  <2>. DEFINE x == Exit(b)
              y == Max({start + 2, even})
  <2>1. x \in Int /\ y \in Int /\ x \in Nat /\ y \in Nat
    BY <1>4, <1>6
  <2>. HIDE DEF x, y
  <2>2. Min({x, y}) = (IF x <= y THEN x ELSE y)
    BY <2>1, PairMinMax
  <2>3. Min({x, y}) \in Nat
    BY <2>1, <2>2
  <2>. QED BY <2>3 DEF x, y
<1>. QED BY <1>3, <1>7

LEMMA PressureCut ==
  ASSUME Scanned(problem), BundlesOK(problem, bundles), NEW b \in DOMAIN bundles,
         FreeCandidates(b) = {}, NEW cut \in PressureSplit(b)
  PROVE  /\ cut \in Nat /\ CanSplit(problem, bundles[b].frags, cut)
         /\ Crosses(bundles[b].frags, cut) => PointOK(problem, TransferPointForBoundary(cut), cut)
<1>. DEFINE frags == bundles[b].frags
<1>1. FragmentsOK(problem, frags) /\ \A f \in frags : FragmentOK(problem, f)
  BY DEF BundlesOK, FragmentsOK
<1>2. PICK k \in DOMAIN Candidates(b) :
         cut = PressureSplitBoundary(Candidates(b)[k], b) /\ cut # NoPosition
  BY DEF PressureSplit, Cheapest, FirstCandidate
<1>. DEFINE l == Candidates(b)[k]
            first == FirstOf(frags)
            conflict == TransferBoundaryForConflict(FirstConflict(l, b))
            next == TransferBoundaryForConflict(first + 1)
<1>3. TransferPointForBoundary(cut) # NoPoint /\ CanSplit(problem, frags, cut)
  BY DEF PressureSplit
<1>4. ~Fits(l, b)
  BY <1>2 DEF FreeCandidates
<1>5. conflict \in Nat
  <2>1. PICK f \in frags : f.from <= FirstConflict(l, b) /\ FirstConflict(l, b) < f.to
    BY <1>4, FirstConflictWithin
  <2>2. FirstConflict(l, b) \in Nat /\ f.from \in Nat /\ f.to \in Nat /\ FragmentOK(problem, f)
    BY <1>1, <1>4, FirstConflictWithin DEF FragmentOK
  <2>3. FirstConflict(l, b) <= f.to
    BY <2>1, <2>2
  <2>. QED BY <2>1, <2>2, <2>3, ConflictBoundary
<1>6. next \in Nat
  <2>1. PICK f \in frags : f.from = first
    BY <1>1, BundleEnds
  <2>2. FragmentOK(problem, f) /\ f.from \in Nat /\ f.to \in Nat /\ f.from < f.to
    BY <1>1 DEF FragmentOK
  <2>3. first + 1 \in Nat /\ f.from <= first + 1 /\ first + 1 <= f.to
    BY <2>1, <2>2
  <2>. QED BY <2>2, <2>3, ConflictBoundary
<1>7. \/ cut = conflict \/ cut = next \/ cut = next + 2
  BY <1>2 DEF PressureSplitBoundary
<1>8. cut \in Nat
  BY <1>5, <1>6, <1>7
<1>9. ASSUME Crosses(frags, cut) PROVE PointOK(problem, TransferPointForBoundary(cut), cut)
  <2>1. PICK f \in frags : f.from < cut /\ cut < f.to
    BY <1>9 DEF Crosses
  <2>2. FragmentOK(problem, f)
    BY <1>1
  <2>3. f.from <= cut /\ cut <= f.to
    BY <2>1, <2>2, <1>8 DEF FragmentOK
  <2>. QED BY <2>2, <2>3, <1>3, <1>8, PointForBoundary
<1>. QED BY <1>3, <1>8, <1>9

-----------------------------------------------------------------------------
(* Carriers hold nothing but what a call copies.                           *)

CopiesOnly(p, frags) == \A o \in CoveredOccurrences(p, frags) : p.occs[o].copy # NoRegister

LEMMA BoundaryAtOrAfter ==
  ASSUME Scanned(problem), NEW b \in Blocks(problem), NEW pos \in Nat,
         TransferBoundaryAtOrAfter(b, pos) # NoPosition
  PROVE  TransferBoundaryAtOrAfter(b, pos) \in Nat /\ pos <= TransferBoundaryAtOrAfter(b, pos)
<1>. DEFINE start == StartOf(b)
            even == pos + ((pos - start) % 2)
<1>1. start \in Nat
  BY DEF Scanned, BlocksLaidOut, StartOf
<1>2. TransferBoundaryAtOrAfter(b, pos) =
        CASE pos <= start -> start
          [] start < pos /\ even <= Exit(b) -> even
          [] OTHER -> NoPosition
  BY Zenon DEF TransferBoundaryAtOrAfter
<1>. HIDE DEF start
<1>3. even \in Nat /\ pos <= even
  BY <1>1
<1>. HIDE DEF even
<1>4. CASE pos <= start
  <2>1. TransferBoundaryAtOrAfter(b, pos) = start
    BY <1>1, <1>2, <1>4
  <2>. QED BY <2>1, <1>1, <1>4
<1>5. CASE start < pos /\ even <= Exit(b)
  <2>1. TransferBoundaryAtOrAfter(b, pos) = even
    BY <1>1, <1>2, <1>5
  <2>. QED BY <2>1, <1>3
<1>6. CASE ~(pos <= start) /\ ~(start < pos /\ even <= Exit(b))
  BY <1>2, <1>6
<1>. QED BY <1>4, <1>5, <1>6

LEMMA BoundaryAtOrBefore ==
  ASSUME Scanned(problem), NEW b \in Blocks(problem), NEW pos \in Nat,
         TransferBoundaryAtOrBefore(b, pos) # NoPosition
  PROVE  TransferBoundaryAtOrBefore(b, pos) \in Nat /\ TransferBoundaryAtOrBefore(b, pos) <= pos
<1>. DEFINE start == StartOf(b)
            even == pos - ((pos - start) % 2)
<1>1. start \in Nat /\ EndOf(b) \in Nat /\ EndOf(b) > start
  <2>. DEFINE len == Len(problem.graph.blocks[b].code)
  <2>1. start \in Nat /\ len \in Nat
    BY DEF Scanned, BlocksLaidOut, StartOf, CodeOf
  <2>2. EndOf(b) = start + (len + 2) * 2
    BY DEF EndOf, BlockSize
  <2>. HIDE DEF start, len
  <2>. QED BY <2>1, <2>2
<1>2. TransferBoundaryAtOrBefore(b, pos) =
        CASE pos < start -> NoPosition
          [] pos >= EndOf(b) -> EndOf(b)
          [] OTHER -> even
  BY Zenon DEF TransferBoundaryAtOrBefore
<1>. HIDE DEF start
<1>4. CASE pos < start
  BY <1>1, <1>2, <1>4
<1>5. CASE ~(pos < start) /\ pos >= EndOf(b)
  <2>1. TransferBoundaryAtOrBefore(b, pos) = EndOf(b)
    BY <1>1, <1>2, <1>5
  <2>. QED BY <2>1, <1>1, <1>5
<1>6. CASE ~(pos < start) /\ ~(pos >= EndOf(b))
  <2>1. TransferBoundaryAtOrBefore(b, pos) = even
    BY <1>2, <1>6, Zenon
  <2>2. even \in Nat /\ even <= pos
    BY <1>1, <1>6
  <2>. QED BY <2>1, <2>2
<1>. QED BY <1>4, <1>5, <1>6

LEMMA CarrierEnds ==
  ASSUME Scanned(problem), BundlesOK(problem, bundles), NEW b \in DOMAIN bundles,
         NEW F \in bundles[b].frags, NEW s, s.block \in Blocks(problem), CarrierRange(b, F, s).good
  PROVE  LET c == CarrierRange(b, F, s)
             observed == {o \in problem.ranges[F.range].occurrences :
                            Covers(problem, F, o) /\ ~CopiedAt(o, s)}
         IN  /\ c.from \in Nat /\ c.to \in Nat /\ F.from <= c.from /\ c.to <= F.to
             /\ \A o \in observed : problem.occs[o].to <= c.from \/ c.to <= problem.occs[o].from
<1>. DEFINE c == CarrierRange(b, F, s)
            observed == {o \in problem.ranges[F.range].occurrences :
                           Covers(problem, F, o) /\ ~CopiedAt(o, s)}
            before == {o \in observed : problem.occs[o].to <= s.from}
            after == {o \in observed : s.to <= problem.occs[o].from}
            froms == {F.from} \cup {problem.occs[o].to : o \in before}
            tos == {F.to} \cup {problem.occs[o].from : o \in after}
            starts == {TransferBoundaryAtOrAfter(s.block, pos) : pos \in froms}
            ends == {TransferBoundaryAtOrBefore(s.block, pos) : pos \in tos}
<1>1. c = [from |-> Max(starts), to |-> Min(ends),
           good |-> /\ observed = before \cup after
                    /\ NoPosition \notin starts \cup ends]
  BY Zenon DEF CarrierRange
<1>2. FragmentOK(problem, F)
  BY DEF BundlesOK, FragmentsOK
<1>3. F.range \in DOMAIN problem.ranges /\ F.from \in Nat /\ F.to \in Nat
  BY <1>2 DEF FragmentOK
<1>4. problem.ranges[F.range].occurrences \subseteq DOMAIN problem.occs
  BY <1>3 DEF Scanned, RangeScanned
<1>5. observed \subseteq DOMAIN problem.occs
  BY <1>4
<1>6. \A o \in observed : problem.occs[o].to \in Nat /\ problem.occs[o].from \in Nat
  BY <1>5, OccurrencePositions
<1>7. froms \in SUBSET Nat /\ tos \in SUBSET Nat
  BY <1>3, <1>6
<1>8. IsFiniteSet(froms)
  <2>. DEFINE fn == [o \in before |-> problem.occs[o].to]
  <2>1. IsFiniteSet(before)
    <3>1. IsFiniteSet(DOMAIN problem.occs)
      BY FS_Interval, 1 \in Int DEF Scanned
    <3>2. before \subseteq DOMAIN problem.occs
      BY <1>5
    <3>. QED BY <3>1, <3>2, FS_Subset
  <2>2. fn = [o \in before |-> fn[o]]
    OBVIOUS
  <2>3. {problem.occs[o].to : o \in before} = {fn[o] : o \in before}
    OBVIOUS
  <2>. HIDE DEF fn, before
  <2>4. IsFiniteSet({problem.occs[o].to : o \in before})
    BY <2>1, <2>2, <2>3, FiniteRange
  <2>5. IsFiniteSet({F.from})
    BY FS_Singleton
  <2>. QED BY <2>4, <2>5, FS_Union
<1>9. IsFiniteSet(starts)
  <2>. DEFINE fn == [pos \in froms |-> TransferBoundaryAtOrAfter(s.block, pos)]
  <2>1. fn = [pos \in froms |-> fn[pos]]
    OBVIOUS
  <2>2. starts = {fn[pos] : pos \in froms}
    OBVIOUS
  <2>. HIDE DEF fn, froms, starts
  <2>. QED BY <1>8, <2>1, <2>2, FiniteRange
<1>10. c.from = Max(starts) /\ c.to = Min(ends) /\ observed = before \cup after
       /\ NoPosition \notin starts \cup ends
  BY <1>1
<1>11. /\ F.from \in froms /\ F.to \in tos
       /\ \A o \in before : problem.occs[o].to \in froms
       /\ \A o \in after : problem.occs[o].from \in tos
       /\ F.to \in tos
  OBVIOUS
<1>. HIDE DEF c, froms, tos
<1>12. \A pos \in froms : /\ TransferBoundaryAtOrAfter(s.block, pos) \in starts
                          /\ TransferBoundaryAtOrAfter(s.block, pos) \in Nat
                          /\ pos <= TransferBoundaryAtOrAfter(s.block, pos)
  BY <1>7, <1>10, BoundaryAtOrAfter
<1>13. \A pos \in tos : /\ TransferBoundaryAtOrBefore(s.block, pos) \in ends
                        /\ TransferBoundaryAtOrBefore(s.block, pos) \in Nat
                        /\ TransferBoundaryAtOrBefore(s.block, pos) <= pos
  BY <1>7, <1>10, BoundaryAtOrBefore
<1>14. starts \in SUBSET Nat /\ starts \in SUBSET Int /\ starts # {}
  BY <1>11, <1>12
<1>15. ends \in SUBSET Nat /\ ends # {}
  BY <1>11, <1>13
<1>. HIDE DEF starts, ends
<1>16. Max(starts) \in Nat /\ \A x \in starts : x <= Max(starts)
  BY <1>9, <1>14, FiniteMax
<1>17. Min(ends) \in Nat /\ \A x \in ends : Min(ends) <= x
  BY <1>15, MinOfNaturals
<1>18. \A pos \in froms : pos <= Max(starts)
  BY <1>7, <1>12, <1>16
<1>19. \A pos \in tos : Min(ends) <= pos
  BY <1>7, <1>13, <1>17
<1>20. \A o \in observed : problem.occs[o].to <= c.from \/ c.to <= problem.occs[o].from
  BY <1>10, <1>11, <1>18, <1>19
<1>21. c.from \in Nat /\ c.to \in Nat /\ F.from <= c.from /\ c.to <= F.to
  BY <1>10, <1>11, <1>16, <1>17, <1>18, <1>19
<1>. QED BY <1>20, <1>21 DEF c

\* The part of a bundle that becomes a carrier holds nothing but copies.
LEMMA CarrierCut ==
  ASSUME Scanned(problem), BundlesOK(problem, bundles), NEW b \in DOMAIN bundles, NEW c \in FirstCarrier(b)
  PROVE  LET frags == bundles[b].frags
             right == RightFragments(frags, c.from)
         IN  /\ c.from \in Nat /\ c.to \in Nat
             /\ CanSplit(problem, frags, c.from) /\ CanSplit(problem, right, c.to)
             /\ TransferPointForBoundary(c.from) # NoPoint /\ TransferPointForBoundary(c.to) # NoPoint
             /\ CopiesOnly(problem, LeftFragments(right, c.to))
<1>. DEFINE frags == bundles[b].frags
            right == RightFragments(frags, c.from)
            middle == LeftFragments(right, c.to)
<1>1. PICK fs \in frags \X SpillBoundaries :
         /\ Within(fs[1], fs[2].from, fs[2].to)
         /\ CarrierUsable(b, fs[2], CarrierRange(b, fs[1], fs[2]))
         /\ c = CarrierRange(b, fs[1], fs[2])
  BY DEF FirstCarrier, Carriers
<1>. DEFINE F == fs[1]
            s == fs[2]
            observed == {o \in problem.ranges[F.range].occurrences : Covers(problem, F, o) /\ ~CopiedAt(o, s)}
<1>2. F \in frags /\ s \in SpillBoundaries
  OBVIOUS
<1>3. PICK k \in problem.clobbers : s = [from |-> k.from - 1, to |-> k.to, block |-> k.block, at |-> k.at]
  BY <1>2 DEF SpillBoundaries
<1>4. k.from \in Nat \ {0} /\ k.to = k.from + 1 /\ k.block \in Blocks(problem)
  BY <1>3 DEF Scanned, ScanVerified, ReservationsVerified
<1>5. s.from \in Nat /\ s.to \in Nat /\ s.from < s.to /\ s.block \in Blocks(problem)
  BY <1>3, <1>4
<1>6. F.from <= s.from /\ s.to <= F.to
  BY <1>1 DEF Within
<1>7. /\ c.good /\ c.from <= s.from /\ s.to <= c.to
      /\ CanSplit(problem, frags, c.from) /\ CanSplit(problem, frags, c.to)
      /\ TransferPointForBoundary(c.from) # NoPoint /\ TransferPointForBoundary(c.to) # NoPoint
  BY <1>1 DEF CarrierUsable
<1>8. FragmentsOK(problem, frags) /\ \A f \in frags : FragmentOK(problem, f)
  BY DEF BundlesOK, FragmentsOK
<1>9. c = CarrierRange(b, F, s)
  BY <1>1
<1>. HIDE DEF F, s
<1>10. /\ c.from \in Nat /\ c.to \in Nat /\ F.from <= c.from /\ c.to <= F.to
       /\ \A o \in observed : problem.occs[o].to <= c.from \/ c.to <= problem.occs[o].from
  BY <1>2, <1>5, <1>7, <1>9, CarrierEnds
<1>11. /\ FragmentsOK(problem, right)
       /\ \A l \in right : \E f \in frags :
            c.from < f.to /\ l.range = f.range /\ l.to = f.to /\ f.from <= l.from /\ c.from <= l.from
       /\ \A f \in frags : c.from < f.to => \E l \in right :
            l.range = f.range /\ l.to = f.to /\ l.from = IF f.from <= c.from THEN c.from ELSE f.from
  BY <1>7, <1>8, <1>10, RightFragmentsOK
<1>12. /\ \A f \in frags : f.from \in Nat /\ f.to \in Nat /\ f.from < f.to
       /\ \A f \in right : f.from \in Nat /\ f.to \in Nat /\ f.from < f.to
  BY <1>8, <1>11 DEF FragmentsOK, FragmentOK
<1>. HIDE DEF right, middle
<1>13. CanSplit(problem, right, c.to)
  <2>1. ASSUME NEW o \in CoveredOccurrences(problem, right)
        PROVE  ~(problem.occs[o].from < c.to /\ c.to < problem.occs[o].to)
    <3>1. PICK l \in right : o \in DOMAIN problem.occs /\ Covers(problem, l, o)
      BY DEF CoveredOccurrences
    <3>2. PICK f \in frags : l.range = f.range /\ l.to = f.to /\ f.from <= l.from
      BY <1>11
    <3>3. Covers(problem, f, o)
      <4>1. f.range = problem.occs[o].range /\ l.from <= problem.occs[o].from /\ problem.occs[o].to <= f.to
        BY <3>1, <3>2 DEF Covers, Within
      <4>2. problem.occs[o].from \in Nat
        BY <3>1, OccurrencePositions
      <4>3. f.from <= problem.occs[o].from
        BY <4>1, <4>2, <3>2, <1>12
      <4>. QED BY <4>1, <4>3 DEF Covers, Within
    <3>4. o \in CoveredOccurrences(problem, frags)
      BY <3>1, <3>3 DEF CoveredOccurrences
    <3>. QED BY <3>4, <1>7 DEF CanSplit
  <2>2. \E l \in right : l.from < c.to
    <3>1. c.from < F.to
      BY <1>2, <1>5, <1>6, <1>7, <1>10, <1>12
    <3>2. PICK l \in right : l.from = IF F.from <= c.from THEN c.from ELSE F.from
      BY <3>1, <1>2, <1>11
    <3>3. l.from = c.from
      BY <3>2, <1>10
    <3>. QED BY <3>3, <1>5, <1>7, <1>10
  <2>3. \E l \in right : l.to > c.to
    <3>1. PICK f \in frags : f.to > c.to
      BY <1>7 DEF CanSplit
    <3>2. c.from < f.to
      BY <3>1, <1>5, <1>7, <1>10, <1>12
    <3>3. PICK l \in right : l.to = f.to
      BY <3>2, <1>11
    <3>. QED BY <3>1, <3>3
  <2>. QED BY <2>1, <2>2, <2>3 DEF CanSplit
<1>14. /\ FragmentsOK(problem, middle)
       /\ \A m \in middle : \E l \in right :
            l.from < c.to /\ m.range = l.range /\ m.from = l.from /\ m.to <= l.to /\ m.to <= c.to
  BY <1>10, <1>11, <1>13, LeftFragmentsOK DEF middle
<1>15. CopiesOnly(problem, middle)
  <2>. SUFFICES ASSUME NEW o \in CoveredOccurrences(problem, middle)
                PROVE  problem.occs[o].copy # NoRegister
    BY DEF CopiesOnly
  <2>. DEFINE occ == problem.occs[o]
  <2>1. PICK m \in middle : o \in DOMAIN problem.occs /\ Covers(problem, m, o)
    BY DEF CoveredOccurrences
  <2>2. PICK l \in right : m.range = l.range /\ m.from = l.from /\ m.to <= l.to /\ m.to <= c.to
    BY <1>14
  <2>3. PICK f \in frags : l.range = f.range /\ l.to = f.to /\ f.from <= l.from /\ c.from <= l.from
    BY <1>11
  <2>4. /\ m.from \in Nat /\ m.to \in Nat /\ m.from < m.to
        /\ occ.from \in Nat /\ occ.to \in Nat /\ occ.from < occ.to
    BY <2>1, <1>14, OccurrencePositions DEF FragmentsOK, FragmentOK
  <2>5. m.from <= occ.from /\ occ.to <= m.to /\ occ.range = m.range
    BY <2>1 DEF Covers, Within
  <2>6. f = F
    <3>1. f # F => f.to <= F.from \/ F.to <= f.from
      BY <1>2, <1>8 DEF FragmentsOK
    <3>. QED BY <3>1, <2>2, <2>3, <2>4, <1>2, <1>10, <1>12
  <2>7. occ.range = F.range
    BY <2>2, <2>3, <2>5, <2>6
  <2>8. F.from <= occ.from /\ occ.to <= F.to
    BY <2>2, <2>4, <2>5, <1>2, <1>10, <1>12, <2>3
  <2>9. Covers(problem, F, o)
    BY <2>7, <2>8 DEF Covers, Within
  <2>10. o \in problem.ranges[F.range].occurrences
    BY <2>1, <2>7 DEF Scanned, OccurrenceScanned
  <2>11. o \notin observed
    <3>. SUFFICES ASSUME o \in observed PROVE FALSE
      OBVIOUS
    <3>1. occ.to <= c.from \/ c.to <= occ.from
      BY <1>10
    <3>. QED BY <3>1, <2>2, <2>3, <2>4, <2>5, <1>10, <1>12
  <2>12. CopiedAt(o, s)
    BY <2>9, <2>10, <2>11
  <2>. QED BY <2>12 DEF CopiedAt
<1>. QED BY <1>7, <1>10, <1>13, <1>15 DEF right, middle

-----------------------------------------------------------------------------
(* What holds in each stage of an allocation.                              *)

\* The occurrences of a bundle can be served by one location.
Agree(p, frags) == \A x, y \in CoveredOccurrences(p, frags) : ~Incompatible(p, x, y)

Requirement(p, bundle) ==
  IF bundle.fixed = {} THEN Nowhere ELSE p.occs[CHOOSE o \in bundle.fixed : TRUE].fixed
Hit(p, l, frags) == {c \in p.clobbers : l = Reg(c.reg) /\ \E f \in frags : Overlap(f, c)}

\* A location that the loop may give a bundle.
PlaceOK(p, bundle, l) ==
  /\ l.kind \in {"reg", "stack"}
  /\ bundle.fixed # {} => l = Requirement(p, bundle)
  /\ bundle.fixed = {} => l.kind = "reg"
  /\ Hit(p, l, bundle.frags) = {}

PlacesApart ==
  \A b, c \in DOMAIN bundles :
    b # c /\ place[b] = place[c] /\ place[b] # Nowhere =>
      ~BundlesOverlap(bundles[b].frags, bundles[c].frags)

BundleOK(b) ==
  /\ Agree(problem, bundles[b].frags)
  /\ place[b] = Nowhere <=> b \in worklist \cup deferred
  /\ place[b] # Nowhere => PlaceOK(problem, bundles[b], place[b])
  /\ b \in carriers => CopiesOnly(problem, bundles[b].frags)

ScanOK == transfers = {} /\ carriers = {} /\ worklist = {} /\ deferred = {}

ConstrainOK ==
  /\ ScheduleOK(problem, ScheduleOf)
  /\ carriers = {} /\ worklist = {} /\ deferred = {}
  /\ place = [b \in DOMAIN bundles |-> Nowhere]

AssignOK ==
  /\ ScheduleOK(problem, ScheduleOf)
  /\ DOMAIN place = DOMAIN bundles
  /\ worklist \subseteq DOMAIN bundles /\ carriers \subseteq DOMAIN bundles
  /\ deferred \subseteq carriers /\ worklist \cap deferred = {}
  /\ \A b \in DOMAIN bundles : BundleOK(b)
  /\ PlacesApart

AssignedOK ==
  /\ ScheduleOK(problem, ScheduleOf)
  /\ \A b \in DOMAIN bundles : place[b] # Nowhere /\ AssignmentVerified(b)
  /\ SlotsContiguous

AllocatedOK ==
  /\ BundlesOK(problem, bundles)
  /\ \A t \in transfers : t.point.kind # "edge" => TransferOK(problem, bundles, t)

AllocationInv ==
  /\ Scanned(problem)
  /\ stage = "scan" => ScanOK
  /\ stage = "constrain" => ConstrainOK
  /\ stage = "assign" => AssignOK
  /\ stage = "assigned" => AssignedOK
  /\ stage = "allocated" => AllocatedOK
  /\ AllocationsVerify

LEMMA RequirementOf ==
  ASSUME NEW b PROVE RequiredLocation(b) = Requirement(problem, bundles[b])
BY DEF RequiredLocation, Requirement

LEMMA HitOf ==
  ASSUME NEW b, NEW l PROVE ClobbersHit(l, b) = Hit(problem, l, bundles[b].frags)
BY DEF ClobbersHit, Hit

LEMMA ScheduleFields ==
  /\ ScheduleOf.bundles = bundles /\ ScheduleOf.transfers = transfers
  /\ ScheduleOf.fatal = FALSE
  /\ ScheduleOK(problem, ScheduleOf) <=>
       BundlesOK(problem, bundles) /\ TransfersOK(problem, bundles, transfers)
BY DEF ScheduleOf, ScheduleOK

\* The parts of a split bundle cover no more than it did.
LEMMA PartsCoverLess ==
  ASSUME NEW p, Scanned(p), NEW frags, FragmentsOK(p, frags), NEW boundary \in Nat,
         CanSplit(p, frags, boundary)
  PROVE  /\ CoveredOccurrences(p, LeftFragments(frags, boundary)) \subseteq CoveredOccurrences(p, frags)
         /\ CoveredOccurrences(p, RightFragments(frags, boundary)) \subseteq CoveredOccurrences(p, frags)
<1>. DEFINE L == LeftFragments(frags, boundary)
            R == RightFragments(frags, boundary)
<1>1. \A l \in L \cup R : \E f \in frags :
         /\ l.range = f.range /\ f.from <= l.from /\ l.to <= f.to
         /\ f.from \in Nat /\ f.to \in Nat /\ l.from \in Nat /\ l.to \in Nat
  <2>. TAKE l \in L \cup R
  <2>1. l.from \in Nat /\ l.to \in Nat
    BY LeftFragmentsOK, RightFragmentsOK DEF FragmentsOK, FragmentOK
  <2>2. PICK f \in frags : l.range = f.range /\ (l.from = f.from \/ f.from <= l.from) /\ (l.to = f.to \/ l.to <= f.to)
    BY LeftFragmentsOK, RightFragmentsOK
  <2>3. f.from \in Nat /\ f.to \in Nat
    BY DEF FragmentsOK, FragmentOK
  <2>. QED BY <2>1, <2>2, <2>3
<1>. HIDE DEF L, R
<1>2. ASSUME NEW o \in DOMAIN p.occs, NEW l \in L \cup R, Covers(p, l, o)
      PROVE  o \in CoveredOccurrences(p, frags)
  <2>1. PICK f \in frags :
           /\ l.range = f.range /\ f.from <= l.from /\ l.to <= f.to
           /\ f.from \in Nat /\ f.to \in Nat /\ l.from \in Nat /\ l.to \in Nat
    BY <1>1
  <2>2. p.occs[o].from \in Nat /\ p.occs[o].to \in Nat
    BY OccurrencePositions
  <2>3. p.occs[o].range = f.range /\ l.from <= p.occs[o].from /\ p.occs[o].to <= l.to
    BY <1>2, <2>1 DEF Covers, Within
  <2>4. Covers(p, f, o)
    BY <2>1, <2>2, <2>3 DEF Covers, Within
  <2>. QED BY <2>4 DEF CoveredOccurrences
<1>3. CoveredOccurrences(p, L) \subseteq CoveredOccurrences(p, frags)
  BY <1>2 DEF CoveredOccurrences
<1>4. CoveredOccurrences(p, R) \subseteq CoveredOccurrences(p, frags)
  BY <1>2 DEF CoveredOccurrences
<1>. QED BY <1>3, <1>4 DEF L, R

LEMMA PartsAgree ==
  ASSUME NEW p, Scanned(p), NEW bs, BundlesOK(p, bs), NEW b \in DOMAIN bs, NEW boundary \in Nat,
         CanSplit(p, bs[b].frags, boundary), \A c \in DOMAIN bs : Agree(p, bs[c].frags),
         NEW after, NEW right, SplitInto(p, bs, b, boundary, after, right)
  PROVE  \A c \in DOMAIN after : Agree(p, after[c].frags)
<1>. DEFINE frags == bs[b].frags
            L == LeftFragments(frags, boundary)
            R == RightFragments(frags, boundary)
<1>1. FragmentsOK(p, frags)
  BY DEF BundlesOK
<1>2. CoveredOccurrences(p, L) \subseteq CoveredOccurrences(p, frags)
      /\ CoveredOccurrences(p, R) \subseteq CoveredOccurrences(p, frags)
  BY <1>1, PartsCoverLess
<1>3. Agree(p, frags)
  OBVIOUS
<1>4. Agree(p, L) /\ Agree(p, R)
  BY <1>2, <1>3 DEF Agree
<1>5. /\ DOMAIN after = DOMAIN bs \cup {right}
      /\ after[b].frags = L /\ after[right].frags = R
      /\ \A c \in DOMAIN bs \ {b} : after[c] = bs[c]
  BY DEF SplitInto
<1>. HIDE DEF L, R
<1>. QED BY <1>4, <1>5

-----------------------------------------------------------------------------
(* The steps before the assignment.                                        *)

LEMMA BuildKeeps ==
  ASSUME Scanned(problem), ScanOK, BuildInitialBundles
  PROVE  stage' = "constrain" /\ ConstrainOK'
<1>1. /\ bundles' = InitialBundles(problem) /\ place' = [b \in DOMAIN bundles' |-> Nowhere]
      /\ UNCHANGED <<problem, transfers, carriers, worklist, deferred>>
      /\ stage' = IF ProblemVerified(problem) THEN "constrain" ELSE "fatal"
  BY DEF BuildInitialBundles
<1>2. BundlesOK(problem, bundles') /\ ProblemVerified(problem)
  BY <1>1, InitialBundlesOK DEF ProblemVerified, Scanned
<1>3. TransfersOK(problem, bundles', transfers') /\ transfers' = {}
  BY <1>1 DEF ScanOK, TransfersOK
<1>4. ScheduleOK(problem, ScheduleOf)'
  BY <1>1, <1>2, <1>3 DEF ScheduleOK, ScheduleOf
<1>. QED BY <1>1, <1>2, <1>4 DEF ScanOK, ConstrainOK

LEMMA ConstrainStepKeeps ==
  ASSUME Scanned(problem), ConstrainOK, SplitForLocation
  PROVE  stage' = "failed" \/ (stage' = "constrain" /\ ConstrainOK')
<1>1. stage = "constrain" /\ UNCHANGED <<problem, carriers, worklist, deferred>>
  BY DEF SplitForLocation
<1>2. PICK b \in NextUnsettled : \E o \in FirstExcluded(problem, bundles[b].frags) :
       LET boundary == problem.occs[o].from
           s == SplitBundle(problem, ScheduleOf, b, boundary, TransferPointForOccurrence(problem, o))
       IN  IF CanSplit(problem, bundles[b].frags, boundary)
             THEN /\ bundles' = s.bundles /\ transfers' = s.transfers
                  /\ place' = [c \in DOMAIN s.bundles |-> Nowhere]
                  /\ stage' = IF s.fatal THEN "fatal" ELSE stage
             ELSE stage' = "failed" /\ UNCHANGED <<bundles, transfers, place>>
  BY DEF SplitForLocation
<1>. DEFINE frags == bundles[b].frags
<1>3. PICK o \in FirstExcluded(problem, frags) :
       LET boundary == problem.occs[o].from
           s == SplitBundle(problem, ScheduleOf, b, boundary, TransferPointForOccurrence(problem, o))
       IN  IF CanSplit(problem, frags, boundary)
             THEN /\ bundles' = s.bundles /\ transfers' = s.transfers
                  /\ place' = [c \in DOMAIN s.bundles |-> Nowhere]
                  /\ stage' = IF s.fatal THEN "fatal" ELSE stage
             ELSE stage' = "failed" /\ UNCHANGED <<bundles, transfers, place>>
  BY <1>2
<1>. DEFINE boundary == problem.occs[o].from
            point == TransferPointForOccurrence(problem, o)
            s == SplitBundle(problem, ScheduleOf, b, boundary, point)
<1>4. CASE ~CanSplit(problem, frags, boundary)
  BY <1>3, <1>4
<1>5. CASE CanSplit(problem, frags, boundary)
  <2>1. /\ bundles' = s.bundles /\ transfers' = s.transfers
        /\ place' = [c \in DOMAIN s.bundles |-> Nowhere]
        /\ stage' = IF s.fatal THEN "fatal" ELSE stage
    BY <1>3, <1>5
  <2>2. b \in DOMAIN bundles
    BY DEF NextUnsettled, Unsettled
  <2>3. ScheduleOK(problem, ScheduleOf) /\ BundlesOK(problem, bundles) /\ FragmentsOK(problem, frags)
    BY <2>2, ScheduleFields DEF ConstrainOK, BundlesOK
  <2>4. o \in CoveredOccurrences(problem, frags) /\ o \in DOMAIN problem.occs
    BY DEF FirstExcluded, Excluded, CoveredOccurrences
  <2>5. boundary \in Nat
    BY <2>4, OccurrencePositions
  <2>6. ASSUME Crosses(frags, boundary) PROVE PointOK(problem, point, boundary)
    <3>1. problem.occs[o].anchor.kind \in {"operand", "edge"}
      BY <2>3, <2>6, FirstExcludedReads
    <3>2. boundary # problem.ranges[problem.occs[o].range].from
      BY <2>3, <2>4, <2>6, CutFragment
    <3>. QED BY <3>1, <3>2, <2>4, PointForOccurrence
  <2>. HIDE DEF s, boundary, point, frags
  <2>7. ScheduleOK(problem, s)
    BY <2>2, <2>3, <2>5, <2>6, <1>5, ScheduleFields, SplitKeepsSchedule DEF s, frags
  <2>8. stage' = "constrain"
    BY <2>1, <2>7, <1>1 DEF ScheduleOK
  <2>9. ScheduleOK(problem, ScheduleOf)'
    BY <2>1, <2>7, <1>1 DEF ScheduleOK, ScheduleOf
  <2>. QED BY <2>1, <2>8, <2>9, <1>1 DEF ConstrainOK
<1>. QED BY <1>4, <1>5

LEMMA SettledAgree ==
  ASSUME NEW p, Scanned(p), NEW frags, Excluded(p, frags) = {}
  PROVE  Agree(p, frags)
<1>. SUFFICES ASSUME NEW x \in CoveredOccurrences(p, frags), NEW y \in CoveredOccurrences(p, frags),
                     Incompatible(p, x, y)
              PROVE  FALSE
  BY DEF Agree
<1>1. x \in DOMAIN p.occs /\ y \in DOMAIN p.occs
  BY DEF CoveredOccurrences
<1>2. x # y
  BY <1>1 DEF Incompatible, Scanned, OccurrenceScanned
<1>3. p.occs[x].pos \in Nat /\ p.occs[y].pos \in Nat /\ x \in Nat /\ y \in Nat
  <2>1. DOMAIN p.occs \subseteq Nat
    BY DEF Scanned
  <2>. QED BY <2>1, <1>1, OccurrencePositions
<1>4. PositionLess(p, x, y) \/ PositionLess(p, y, x)
  BY <1>2, <1>3 DEF PositionLess
<1>5. Incompatible(p, y, x)
  BY DEF Incompatible
<1>. QED BY <1>4, <1>5 DEF Excluded

LEMMA StartKeeps ==
  ASSUME Scanned(problem), ConstrainOK, StartAssignment
  PROVE  AssignOK'
<1>1. /\ worklist' = DOMAIN bundles /\ Unsettled = {}
      /\ UNCHANGED <<problem, bundles, transfers, place, carriers, deferred>>
  BY DEF StartAssignment
<1>2. /\ carriers = {} /\ deferred = {} /\ \A b \in DOMAIN bundles : place[b] = Nowhere
      /\ DOMAIN place = DOMAIN bundles /\ ScheduleOK(problem, ScheduleOf)
  BY DEF ConstrainOK
<1>3. \A b \in DOMAIN bundles : Agree(problem, bundles[b].frags)
  BY <1>1, SettledAgree DEF Unsettled
<1>4. ScheduleOK(problem, ScheduleOf)'
  BY <1>1, <1>2 DEF ScheduleOf
<1>5. \A b \in DOMAIN bundles : BundleOK(b)'
  BY <1>1, <1>2, <1>3 DEF BundleOK
<1>6. PlacesApart'
  BY <1>1, <1>2 DEF PlacesApart
<1>. QED BY <1>1, <1>2, <1>4, <1>5, <1>6 DEF AssignOK

-----------------------------------------------------------------------------
(* The assignment loop.                                                    *)

LEMMA CandidateOK ==
  ASSUME Scanned(problem), AssignOK, NEW b \in DOMAIN bundles, NEW k \in DOMAIN Candidates(b),
         ClobbersHit(Candidates(b)[k], b) = {}
  PROVE  PlaceOK(problem, bundles[b], Candidates(b)[k]) /\ Candidates(b)[k] # Nowhere
<1>. DEFINE l == Candidates(b)[k]
            bundle == bundles[b]
<1>1. Hit(problem, l, bundle.frags) = {}
  BY HitOf
<1>2. RequiredLocation(b) = Requirement(problem, bundle)
  BY RequirementOf
<1>3. bundle.fixed = FixedOccurrences(problem, bundle.frags)
  <2>1. bundle = Bundle(problem, bundle.frags)
    BY DEF AssignOK, ScheduleOK, ScheduleOf, BundlesOK
  <2>2. Bundle(problem, bundle.frags).fixed = FixedOccurrences(problem, bundle.frags)
    BY DEF Bundle
  <2>. HIDE DEF bundle
  <2>. QED BY <2>1, <2>2
<1>. HIDE DEF bundle, l
<1>4. CASE bundle.fixed = {}
  <2>1. RequiredLocation(b) = Nowhere
    BY <1>2, <1>4 DEF Requirement
  <2>2. Candidates(b) = [j \in DOMAIN AllocationOrder |-> Reg(AllocationOrder[j])]
    BY <2>1 DEF Candidates
  <2>3. l = Reg(AllocationOrder[k])
    BY <2>2 DEF l
  <2>4. l.kind = "reg" /\ l # Nowhere
    BY <2>3 DEF Reg, Nowhere
  <2>. QED BY <2>4, <1>1, <1>4 DEF PlaceOK, bundle, l
<1>5. CASE bundle.fixed # {}
  <2>1. PICK o \in bundle.fixed : Requirement(problem, bundle) = problem.occs[o].fixed
    <3>1. (CHOOSE o \in bundle.fixed : TRUE) \in bundle.fixed
      BY <1>5, Zenon
    <3>. QED BY <3>1, <1>5 DEF Requirement
  <2>2. o \in DOMAIN problem.occs /\ IsFixed(problem, o)
    BY <2>1, <1>3 DEF FixedOccurrences, CoveredOccurrences
  <2>3. problem.occs[o].fixed # Nowhere /\ problem.occs[o].fixed.kind \in {"reg", "stack"}
    BY <2>2 DEF Scanned, OccurrenceScanned, IsFixed
  <2>4. Candidates(b) = <<RequiredLocation(b)>>
    BY <2>1, <2>3, <1>2 DEF Candidates
  <2>5. k = 1 /\ l = RequiredLocation(b)
    BY <2>4 DEF l
  <2>. QED BY <2>1, <2>3, <2>5, <1>1, <1>2, <1>5 DEF PlaceOK, bundle, l
<1>. QED BY <1>4, <1>5

LEMMA PlaceKeeps ==
  ASSUME Scanned(problem), AssignOK, NEW b \in worklist, PlaceBundle(b)
  PROVE  /\ stage' = stage /\ AssignOK'
         /\ bundles' = bundles /\ deferred' = deferred
         /\ place'[b] # Nowhere /\ \A c \in DOMAIN bundles \ {b} : place'[c] = place[c]
<1>1. PICK k \in FreeCandidates(b) : place' = [place EXCEPT ![b] = Candidates(b)[k]]
  BY DEF PlaceBundle, FreeLocation, FirstCandidate
<1>. DEFINE l == Candidates(b)[k]
<1>2. /\ worklist' = worklist \ {b}
      /\ UNCHANGED <<problem, bundles, transfers, carriers, deferred, stage>>
  BY DEF PlaceBundle
<1>3. /\ ScheduleOK(problem, ScheduleOf)
      /\ DOMAIN place = DOMAIN bundles
      /\ worklist \subseteq DOMAIN bundles /\ carriers \subseteq DOMAIN bundles
      /\ deferred \subseteq carriers /\ worklist \cap deferred = {}
      /\ \A c \in DOMAIN bundles : BundleOK(c)
      /\ PlacesApart
  BY DEF AssignOK
<1>4. b \in DOMAIN bundles /\ k \in DOMAIN Candidates(b) /\ Residents(l, b) = {} /\ ClobbersHit(l, b) = {}
  BY <1>3 DEF FreeCandidates, Fits
<1>5. PlaceOK(problem, bundles[b], l) /\ l # Nowhere
  BY <1>4, CandidateOK
<1>. HIDE DEF l
<1>6. /\ DOMAIN place' = DOMAIN bundles /\ place'[b] = l
      /\ \A c \in DOMAIN bundles \ {b} : place'[c] = place[c]
  BY <1>1, <1>3, <1>4 DEF l
<1>7. ScheduleOK(problem, ScheduleOf)'
  BY <1>2, <1>3 DEF ScheduleOf
<1>8. ASSUME NEW c \in DOMAIN bundles PROVE BundleOK(c)'
  <2>0. BundleOK(c)
    BY <1>3
  <2>1. CASE c = b
    BY <2>0, <2>1, <1>2, <1>3, <1>5, <1>6 DEF BundleOK
  <2>2. CASE c # b
    BY <2>0, <2>2, <1>2, <1>6 DEF BundleOK
  <2>. QED BY <2>1, <2>2
<1>9. PlacesApart'
  <2>1. ASSUME NEW c \in DOMAIN bundles, c # b, place[c] = l
        PROVE  /\ ~BundlesOverlap(bundles[c].frags, bundles[b].frags)
               /\ ~BundlesOverlap(bundles[b].frags, bundles[c].frags)
    BY <2>1, <1>4, OverlapSymmetric DEF Residents, BundlesOverlap
  <2>2. ASSUME NEW c \in DOMAIN bundles, NEW d \in DOMAIN bundles, c # d,
               place'[c] = place'[d], place'[c] # Nowhere
        PROVE  ~BundlesOverlap(bundles[c].frags, bundles[d].frags)
    <3>1. CASE c = b
      BY <3>1, <2>1, <2>2, <1>6
    <3>2. CASE d = b
      BY <3>2, <2>1, <2>2, <1>6
    <3>3. CASE c # b /\ d # b
      BY <3>3, <2>2, <1>3, <1>6 DEF PlacesApart
    <3>. QED BY <3>1, <3>2, <3>3
  <2>. QED BY <2>2, <1>2 DEF PlacesApart
<1>10. AssignOK'
  BY <1>2, <1>3, <1>6, <1>7, <1>8, <1>9 DEF AssignOK
<1>. QED BY <1>2, <1>5, <1>6, <1>10

LEMMA DeferKeeps ==
  ASSUME AssignOK, NEW b \in worklist, DeferSpillSlotAssignment(b)
  PROVE  /\ stage' = stage /\ AssignOK'
         /\ bundles' = bundles /\ b \in DOMAIN bundles /\ b \notin deferred /\ deferred' = deferred \cup {b}
<1>1. /\ b \in carriers /\ deferred' = deferred \cup {b} /\ worklist' = worklist \ {b}
      /\ UNCHANGED <<problem, bundles, transfers, place, carriers, stage>>
  BY DEF DeferSpillSlotAssignment
<1>2. /\ ScheduleOK(problem, ScheduleOf)
      /\ DOMAIN place = DOMAIN bundles
      /\ worklist \subseteq DOMAIN bundles /\ carriers \subseteq DOMAIN bundles
      /\ deferred \subseteq carriers /\ worklist \cap deferred = {}
      /\ \A c \in DOMAIN bundles : BundleOK(c)
      /\ PlacesApart
  BY DEF AssignOK
<1>3. ScheduleOK(problem, ScheduleOf)'
  BY <1>1, <1>2 DEF ScheduleOf
<1>4. \A c \in DOMAIN bundles : BundleOK(c)'
  BY <1>1, <1>2 DEF BundleOK
<1>5. PlacesApart'
  BY <1>1, <1>2 DEF PlacesApart
<1>6. AssignOK'
  BY <1>1, <1>2, <1>3, <1>4, <1>5 DEF AssignOK
<1>. QED BY <1>1, <1>2, <1>6

LEMMA EvictKeeps ==
  ASSUME Scanned(problem), AssignOK, NEW b \in worklist, EvictAndPlace(b)
  PROVE  /\ stage' = stage /\ AssignOK'
         /\ bundles' = bundles /\ deferred' = deferred /\ b \in DOMAIN bundles
         /\ place'[b] # Nowhere
         /\ \E l \in Evictable(b) : \A c \in DOMAIN bundles \ {b} :
              place'[c] = IF c \in Residents(l, b) THEN Nowhere ELSE place[c]
<1>1. PICK l \in Evictable(b) :
         /\ place' = [c \in DOMAIN place |-> IF c = b THEN l
                                             ELSE IF c \in Residents(l, b) THEN Nowhere
                                             ELSE place[c]]
         /\ worklist' = (worklist \ {b}) \cup Residents(l, b)
  BY DEF EvictAndPlace
<1>2. UNCHANGED <<problem, bundles, transfers, carriers, deferred, stage>>
  BY DEF EvictAndPlace
<1>3. /\ ScheduleOK(problem, ScheduleOf)
      /\ DOMAIN place = DOMAIN bundles
      /\ worklist \subseteq DOMAIN bundles /\ carriers \subseteq DOMAIN bundles
      /\ deferred \subseteq carriers /\ worklist \cap deferred = {}
      /\ \A c \in DOMAIN bundles : BundleOK(c)
      /\ PlacesApart
  BY DEF AssignOK
<1>4. PICK k \in Unclobbered(b) : l = Candidates(b)[k]
  BY DEF Evictable, Cheapest, FirstCandidate
<1>5. b \in DOMAIN bundles /\ k \in DOMAIN Candidates(b) /\ ClobbersHit(l, b) = {}
  BY <1>3, <1>4 DEF Unclobbered
<1>6. PlaceOK(problem, bundles[b], l) /\ l # Nowhere
  BY <1>4, <1>5, CandidateOK
<1>7. place[b] = Nowhere /\ b \notin deferred
  BY <1>3, <1>5 DEF BundleOK
<1>. DEFINE evicted == Residents(l, b)
<1>8. evicted \subseteq DOMAIN bundles \ {b} /\ \A c \in evicted : place[c] = l
  BY <1>6, <1>7 DEF Residents
<1>9. \A c \in DOMAIN bundles \ evicted : place[c] = l => ~BundlesOverlap(bundles[c].frags, bundles[b].frags)
  BY DEF Residents
<1>. HIDE DEF evicted
<1>10. /\ DOMAIN place' = DOMAIN bundles /\ place'[b] = l
       /\ \A c \in DOMAIN bundles \ {b} : place'[c] = IF c \in evicted THEN Nowhere ELSE place[c]
  BY <1>1, <1>3, <1>5 DEF evicted
<1>11. worklist' = (worklist \ {b}) \cup evicted
  BY <1>1 DEF evicted
<1>12. ScheduleOK(problem, ScheduleOf)'
  BY <1>2, <1>3 DEF ScheduleOf
<1>13. \A c \in evicted : c \notin worklist /\ c \notin deferred
  BY <1>3, <1>6, <1>8 DEF BundleOK
<1>14. ASSUME NEW c \in DOMAIN bundles PROVE BundleOK(c)'
  <2>0. BundleOK(c)
    BY <1>3
  <2>1. CASE c = b
    BY <2>0, <2>1, <1>2, <1>6, <1>7, <1>8, <1>10, <1>11 DEF BundleOK
  <2>2. CASE c # b
    <3>1. CASE c \in evicted
      BY <3>1, <2>0, <2>2, <1>2, <1>10, <1>11 DEF BundleOK
    <3>2. CASE c \notin evicted
      BY <3>2, <2>0, <2>2, <1>2, <1>10, <1>11 DEF BundleOK
    <3>. QED BY <3>1, <3>2
  <2>. QED BY <2>1, <2>2
<1>15. PlacesApart'
  <2>1. ASSUME NEW c \in DOMAIN bundles \ evicted, c # b, place[c] = l
        PROVE  /\ ~BundlesOverlap(bundles[c].frags, bundles[b].frags)
               /\ ~BundlesOverlap(bundles[b].frags, bundles[c].frags)
    BY <2>1, <1>9, OverlapSymmetric DEF BundlesOverlap
  <2>2. ASSUME NEW c \in DOMAIN bundles, NEW d \in DOMAIN bundles, c # d,
               place'[c] = place'[d], place'[c] # Nowhere
        PROVE  ~BundlesOverlap(bundles[c].frags, bundles[d].frags)
    <3>1. c \notin evicted /\ d \notin evicted
      BY <2>2, <1>8, <1>10
    <3>2. CASE c = b
      BY <3>1, <3>2, <2>1, <2>2, <1>10
    <3>3. CASE d = b
      BY <3>1, <3>3, <2>1, <2>2, <1>10
    <3>4. CASE c # b /\ d # b
      BY <3>1, <3>4, <2>2, <1>3, <1>10 DEF PlacesApart
    <3>. QED BY <3>2, <3>3, <3>4
  <2>. QED BY <2>2, <1>2 DEF PlacesApart
<1>16. AssignOK'
  <2>1. worklist' \subseteq DOMAIN bundles /\ worklist' \cap deferred = {}
    BY <1>3, <1>8, <1>11, <1>13
  <2>. QED BY <2>1, <1>2, <1>3, <1>10, <1>12, <1>14, <1>15 DEF AssignOK
<1>. QED BY <1>2, <1>5, <1>6, <1>10, <1>16 DEF evicted

\* A schedule whose new bundles and b wait again.
LEMMA RescheduleKeeps ==
  ASSUME Scanned(problem), AssignOK, NEW b \in worklist, b \notin carriers, stage = "assign",
         NEW s, ScheduleOK(problem, s), DOMAIN bundles \subseteq DOMAIN s.bundles,
         \A c \in DOMAIN bundles \ {b} : s.bundles[c] = bundles[c],
         \A c \in DOMAIN s.bundles : Agree(problem, s.bundles[c].frags),
         NEW spillable, spillable \subseteq DOMAIN s.bundles \ DOMAIN bundles,
         \A c \in spillable : CopiesOnly(problem, s.bundles[c].frags),
         Reschedule(b, s, spillable)
  PROVE  /\ stage' = stage /\ AssignOK'
         /\ bundles' = s.bundles
<1>1. /\ bundles' = s.bundles
      /\ transfers' = s.transfers
      /\ place' = [c \in DOMAIN s.bundles |-> IF c \in DOMAIN place THEN place[c] ELSE Nowhere]
      /\ carriers' = carriers \cup spillable
      /\ worklist' = worklist \cup {b} \cup (DOMAIN s.bundles \ DOMAIN bundles)
      /\ stage' = IF s.fatal THEN "fatal" ELSE stage
      /\ UNCHANGED <<problem, deferred>>
  BY DEF Reschedule
<1>2. /\ DOMAIN place = DOMAIN bundles
      /\ worklist \subseteq DOMAIN bundles /\ carriers \subseteq DOMAIN bundles
      /\ deferred \subseteq carriers /\ worklist \cap deferred = {}
      /\ \A c \in DOMAIN bundles : BundleOK(c)
      /\ PlacesApart
  BY DEF AssignOK
<1>3. stage' = stage /\ ScheduleOK(problem, ScheduleOf)'
  BY <1>1 DEF ScheduleOK, ScheduleOf
<1>4. place[b] = Nowhere /\ b \in DOMAIN bundles
  BY <1>2 DEF BundleOK
<1>5. \A c \in DOMAIN bundles' : place'[c] = IF c \in DOMAIN bundles THEN place[c] ELSE Nowhere
  BY <1>1, <1>2
<1>6. DOMAIN place' = DOMAIN bundles'
  BY <1>1
<1>7. ASSUME NEW c \in DOMAIN bundles' PROVE BundleOK(c)'
  <2>1. CASE c \in DOMAIN bundles /\ c # b
    <3>1. BundleOK(c) /\ bundles'[c] = bundles[c] /\ place'[c] = place[c]
      BY <2>1, <1>1, <1>2, <1>5
    <3>2. c \in worklist' \cup deferred' <=> c \in worklist \cup deferred
      BY <2>1, <1>1
    <3>3. c \in carriers' => c \in carriers
      BY <2>1, <1>1
    <3>. QED BY <3>1, <3>2, <3>3, <1>1 DEF BundleOK
  <2>2. CASE c = b \/ c \notin DOMAIN bundles
    <3>1. place'[c] = Nowhere /\ c \in worklist'
      BY <2>2, <1>1, <1>4, <1>5
    <3>2. c \in carriers' => CopiesOnly(problem, bundles'[c].frags)
      BY <2>2, <1>1, <1>2
    <3>3. Agree(problem, bundles'[c].frags)
      BY <1>1
    <3>. QED BY <3>1, <3>2, <3>3, <1>1 DEF BundleOK
  <2>. QED BY <2>1, <2>2
<1>8. PlacesApart'
  <2>1. ASSUME NEW c \in DOMAIN bundles', NEW d \in DOMAIN bundles', c # d,
               place'[c] = place'[d], place'[c] # Nowhere
        PROVE  ~BundlesOverlap(bundles'[c].frags, bundles'[d].frags)
    <3>1. c \in DOMAIN bundles \ {b} /\ d \in DOMAIN bundles \ {b}
      BY <2>1, <1>4, <1>5
    <3>2. place'[c] = place[c] /\ place'[d] = place[d]
          /\ bundles'[c] = bundles[c] /\ bundles'[d] = bundles[d]
      BY <3>1, <1>1, <1>5
    <3>. QED BY <3>1, <3>2, <2>1, <1>2 DEF PlacesApart
  <2>. QED BY <2>1 DEF PlacesApart
<1>9. worklist' \subseteq DOMAIN bundles' /\ carriers' \subseteq DOMAIN bundles'
      /\ deferred' \subseteq carriers' /\ worklist' \cap deferred' = {}
  BY <1>1, <1>2
<1>10. AssignOK'
  BY <1>3, <1>6, <1>7, <1>8, <1>9 DEF AssignOK
<1>. QED BY <1>1, <1>3, <1>10

MoreBundles == DOMAIN bundles \subseteq DOMAIN bundles' /\ DOMAIN bundles # DOMAIN bundles'

LEMMA AssignParts ==
  ASSUME AssignOK
  PROVE  /\ ScheduleOK(problem, ScheduleOf) /\ BundlesOK(problem, bundles)
         /\ ScheduleOf.bundles = bundles /\ worklist \subseteq DOMAIN bundles
         /\ \A b \in DOMAIN bundles : FragmentsOK(problem, bundles[b].frags) /\ Agree(problem, bundles[b].frags)
BY ScheduleFields DEF AssignOK, BundlesOK, BundleOK

\* A bundle is cut in two, and both parts wait again.
LEMMA CutKeeps ==
  ASSUME Scanned(problem), AssignOK, NEW b \in worklist, b \notin carriers, stage = "assign",
         NEW boundary \in Nat, CanSplit(problem, bundles[b].frags, boundary), NEW point,
         Crosses(bundles[b].frags, boundary) => PointOK(problem, point, boundary),
         Reschedule(b, SplitBundle(problem, ScheduleOf, b, boundary, point), {})
  PROVE  stage' = stage /\ AssignOK' /\ MoreBundles
<1>. DEFINE s == SplitBundle(problem, ScheduleOf, b, boundary, point)
            right == NewBundle(problem, bundles)
<1>1. /\ ScheduleOK(problem, ScheduleOf) /\ BundlesOK(problem, bundles)
      /\ ScheduleOf.bundles = bundles /\ b \in DOMAIN bundles
      /\ \A c \in DOMAIN bundles : Agree(problem, bundles[c].frags)
  BY AssignParts
<1>2. ScheduleOK(problem, s) /\ SplitInto(problem, bundles, b, boundary, s.bundles, right)
  <2>1. b \in DOMAIN ScheduleOf.bundles /\ CanSplit(problem, ScheduleOf.bundles[b].frags, boundary)
        /\ (Crosses(ScheduleOf.bundles[b].frags, boundary) => PointOK(problem, point, boundary))
    BY <1>1
  <2>2. /\ ScheduleOK(problem, SplitBundle(problem, ScheduleOf, b, boundary, point))
        /\ SplitInto(problem, ScheduleOf.bundles, b, boundary,
                     SplitBundle(problem, ScheduleOf, b, boundary, point).bundles,
                     NewBundle(problem, ScheduleOf.bundles))
    BY <1>1, <2>1, SplitKeepsSchedule
  <2>. QED BY <1>1, <2>2
<1>3. Reschedule(b, s, {})
  OBVIOUS
<1>. HIDE DEF s, right
<1>4. \A c \in DOMAIN s.bundles : Agree(problem, s.bundles[c].frags)
  BY <1>1, <1>2, PartsAgree
<1>5. DOMAIN s.bundles = DOMAIN bundles \cup {right} /\ right \notin DOMAIN bundles
      /\ \A c \in DOMAIN bundles \ {b} : s.bundles[c] = bundles[c]
  BY <1>2 DEF SplitInto
<1>6. stage' = stage /\ AssignOK' /\ bundles' = s.bundles
  BY <1>2, <1>3, <1>4, <1>5, RescheduleKeeps
<1>. QED BY <1>5, <1>6 DEF MoreBundles

LEMMA PressureKeeps ==
  ASSUME Scanned(problem), AssignOK, NEW b \in worklist, SplitForPressure(b)
  PROVE  stage' = stage /\ AssignOK' /\ MoreBundles
<1>1. stage = "assign" /\ b \notin carriers /\ FreeCandidates(b) = {}
  BY DEF SplitForPressure, Stuck, Crowded, Popped
<1>2. PICK cut \in PressureSplit(b) :
        Reschedule(b, SplitBundle(problem, ScheduleOf, b, cut, TransferPointForBoundary(cut)), {})
  BY DEF SplitForPressure
<1>3. BundlesOK(problem, bundles) /\ b \in DOMAIN bundles
  BY AssignParts
<1>4. /\ cut \in Nat /\ CanSplit(problem, bundles[b].frags, cut)
      /\ Crosses(bundles[b].frags, cut) => PointOK(problem, TransferPointForBoundary(cut), cut)
  BY <1>1, <1>3, PressureCut
<1>. QED BY <1>1, <1>2, <1>4, CutKeeps

LEMMA LaterFixedUseKeeps ==
  ASSUME Scanned(problem), AssignOK, NEW b \in worklist, SplitBeforeLaterFixedUse(b)
  PROVE  stage' = stage /\ AssignOK' /\ MoreBundles
<1>1. stage = "assign" /\ b \notin carriers
  BY DEF SplitBeforeLaterFixedUse, Crowded, Popped
<1>2. PICK o \in LaterFixedUse(b) :
        Reschedule(b, SplitBundle(problem, ScheduleOf, b, problem.occs[o].from,
                                  TransferPointForOccurrence(problem, o)), {})
  BY DEF SplitBeforeLaterFixedUse
<1>3. /\ b \in DOMAIN bundles /\ FragmentsOK(problem, bundles[b].frags)
      /\ bundles[b] = Bundle(problem, bundles[b].frags)
  BY AssignParts DEF BundlesOK
<1>. DEFINE frags == bundles[b].frags
            boundary == problem.occs[o].from
<1>4. CanSplit(problem, frags, boundary) /\ o \in bundles[b].fixed
  BY DEF LaterFixedUse
<1>5. o \in FixedOccurrences(problem, frags)
  <2>1. Bundle(problem, frags).fixed = FixedOccurrences(problem, frags)
    BY DEF Bundle
  <2>. QED BY <2>1, <1>3, <1>4
<1>6. o \in CoveredOccurrences(problem, frags) /\ o \in DOMAIN problem.occs
  BY <1>5 DEF FixedOccurrences, CoveredOccurrences
<1>7. boundary \in Nat
  BY <1>6, OccurrencePositions
<1>8. ASSUME Crosses(frags, boundary)
      PROVE  PointOK(problem, TransferPointForOccurrence(problem, o), boundary)
  <2>1. problem.occs[o].anchor.kind \in {"operand", "edge"}
    BY <1>3, <1>5, <1>8, FixedReads
  <2>2. boundary # problem.ranges[problem.occs[o].range].from
    BY <1>3, <1>6, <1>8, CutFragment
  <2>. QED BY <2>1, <2>2, <1>6, PointForOccurrence
<1>. QED BY <1>1, <1>2, <1>4, <1>7, <1>8, CutKeeps

LEMMA PointForCut ==
  ASSUME Scanned(problem), NEW frags, FragmentsOK(problem, frags), NEW boundary \in Nat,
         TransferPointForBoundary(boundary) # NoPoint, Crosses(frags, boundary)
  PROVE  PointOK(problem, TransferPointForBoundary(boundary), boundary)
<1>1. PICK f \in frags : f.from < boundary /\ boundary < f.to
  BY DEF Crosses
<1>2. FragmentOK(problem, f) /\ f.from \in Nat /\ f.to \in Nat
  BY DEF FragmentsOK, FragmentOK
<1>3. f.from <= boundary /\ boundary <= f.to
  BY <1>1, <1>2
<1>. QED BY <1>2, <1>3, PointForBoundary

\* Cutting out a carrier: two splits, of which the part between becomes the
\* carrier.
LEMMA CarrierKeeps ==
  ASSUME Scanned(problem), AssignOK, NEW b \in worklist, TrimSpillCarrier(b)
  PROVE  stage' = stage /\ AssignOK' /\ MoreBundles
<1>. DEFINE middle == NewBundle(problem, bundles)
<1>1. stage = "assign" /\ b \notin carriers
  BY DEF TrimSpillCarrier, Crowded, Popped
<1>2. PICK c \in FirstCarrier(b) :
        \E cut \in {SplitBundle(problem, ScheduleOf, b, c.from, TransferPointForBoundary(c.from))} :
        \E s \in {SplitBundle(problem, cut, middle, c.to, TransferPointForBoundary(c.to))} :
          Reschedule(b, s, {middle})
  BY DEF TrimSpillCarrier
<1>. DEFINE cut == SplitBundle(problem, ScheduleOf, b, c.from, TransferPointForBoundary(c.from))
            s == SplitBundle(problem, cut, middle, c.to, TransferPointForBoundary(c.to))
            last == NewBundle(problem, cut.bundles)
<1>3. Reschedule(b, s, {middle})
  BY <1>2
<1>4. /\ ScheduleOK(problem, ScheduleOf) /\ BundlesOK(problem, bundles)
      /\ ScheduleOf.bundles = bundles /\ b \in DOMAIN bundles
      /\ FragmentsOK(problem, bundles[b].frags)
      /\ \A d \in DOMAIN bundles : Agree(problem, bundles[d].frags)
  BY AssignParts
<1>. DEFINE frags == bundles[b].frags
            right == RightFragments(frags, c.from)
<1>5. /\ c.from \in Nat /\ c.to \in Nat
      /\ CanSplit(problem, frags, c.from) /\ CanSplit(problem, right, c.to)
      /\ TransferPointForBoundary(c.from) # NoPoint /\ TransferPointForBoundary(c.to) # NoPoint
      /\ CopiesOnly(problem, LeftFragments(right, c.to))
  BY <1>4, CarrierCut
<1>6. ScheduleOK(problem, cut) /\ SplitInto(problem, bundles, b, c.from, cut.bundles, middle)
  <2>1. b \in DOMAIN ScheduleOf.bundles /\ CanSplit(problem, ScheduleOf.bundles[b].frags, c.from)
        /\ (Crosses(ScheduleOf.bundles[b].frags, c.from) =>
              PointOK(problem, TransferPointForBoundary(c.from), c.from))
    BY <1>4, <1>5, PointForCut
  <2>2. /\ ScheduleOK(problem, SplitBundle(problem, ScheduleOf, b, c.from, TransferPointForBoundary(c.from)))
        /\ SplitInto(problem, ScheduleOf.bundles, b, c.from,
                     SplitBundle(problem, ScheduleOf, b, c.from, TransferPointForBoundary(c.from)).bundles,
                     NewBundle(problem, ScheduleOf.bundles))
    BY <1>4, <1>5, <2>1, SplitKeepsSchedule
  <2>. QED BY <1>4, <2>2
<1>. HIDE DEF cut, middle
<1>7. /\ DOMAIN cut.bundles = DOMAIN bundles \cup {middle} /\ middle \notin DOMAIN bundles
      /\ middle \in DOMAIN cut.bundles
      /\ cut.bundles[middle].frags = right
      /\ \A d \in DOMAIN bundles \ {b} : cut.bundles[d] = bundles[d]
  BY <1>6 DEF SplitInto
<1>8. BundlesOK(problem, cut.bundles) /\ FragmentsOK(problem, right)
      /\ \A d \in DOMAIN cut.bundles : Agree(problem, cut.bundles[d].frags)
  <2>1. BundlesOK(problem, cut.bundles)
    BY <1>6 DEF ScheduleOK
  <2>2. FragmentsOK(problem, cut.bundles[middle].frags)
    BY <2>1, <1>7 DEF BundlesOK
  <2>. HIDE DEF frags
  <2>3. \A d \in DOMAIN cut.bundles : Agree(problem, cut.bundles[d].frags)
    BY <1>4, <1>5, <1>6, PartsAgree DEF frags
  <2>. QED BY <2>1, <2>2, <2>3, <1>7
<1>. HIDE DEF right
<1>9. /\ ScheduleOK(problem, s) /\ SplitInto(problem, cut.bundles, middle, c.to, s.bundles, last)
  <2>1. CanSplit(problem, cut.bundles[middle].frags, c.to)
        /\ (Crosses(cut.bundles[middle].frags, c.to) =>
              PointOK(problem, TransferPointForBoundary(c.to), c.to))
    BY <1>5, <1>7, <1>8, PointForCut
  <2>. QED BY <1>5, <1>6, <1>7, <2>1, SplitKeepsSchedule
<1>. HIDE DEF s, last
<1>10. /\ DOMAIN s.bundles = DOMAIN cut.bundles \cup {last} /\ last \notin DOMAIN cut.bundles
       /\ s.bundles[middle].frags = LeftFragments(right, c.to)
       /\ \A d \in DOMAIN cut.bundles \ {middle} : s.bundles[d] = cut.bundles[d]
  BY <1>7, <1>9 DEF SplitInto
<1>11. \A d \in DOMAIN s.bundles : Agree(problem, s.bundles[d].frags)
  BY <1>5, <1>7, <1>8, <1>9, PartsAgree
<1>12. stage' = stage /\ AssignOK' /\ bundles' = s.bundles
  <2>1. {middle} \subseteq DOMAIN s.bundles \ DOMAIN bundles
    BY <1>7, <1>10
  <2>2. \A d \in {middle} : CopiesOnly(problem, s.bundles[d].frags)
    BY <1>5, <1>10
  <2>3. DOMAIN bundles \subseteq DOMAIN s.bundles
        /\ \A d \in DOMAIN bundles \ {b} : s.bundles[d] = bundles[d]
    BY <1>7, <1>10
  <2>. QED BY <1>1, <1>3, <1>9, <1>11, <2>1, <2>2, <2>3, RescheduleKeeps
<1>. QED BY <1>7, <1>10, <1>12 DEF MoreBundles

-----------------------------------------------------------------------------
(* Spill slots.                                                            *)

LEMMA FixedFieldOf ==
  ASSUME BundlesOK(problem, bundles), NEW b \in DOMAIN bundles
  PROVE  bundles[b].fixed = FixedOccurrences(problem, bundles[b].frags)
<1>1. bundles[b] = Bundle(problem, bundles[b].frags)
  BY DEF BundlesOK
<1>. DEFINE frags == bundles[b].frags
<1>2. Bundle(problem, frags).fixed = FixedOccurrences(problem, frags)
  BY DEF Bundle
<1>. QED BY <1>1, <1>2

\* A location that the loop gave a bundle serves all of its occurrences.
LEMMA PlaceServes ==
  ASSUME Scanned(problem), BundlesOK(problem, bundles), NEW b \in DOMAIN bundles,
         Agree(problem, bundles[b].frags), NEW l, PlaceOK(problem, bundles[b], l)
  PROVE  /\ \A o \in bundles[b].fixed : problem.occs[o].fixed = l
         /\ l.kind = "stack" =>
              \A o \in CoveredOccurrences(problem, bundles[b].frags) : ~problem.occs[o].required
<1>. DEFINE fixed == bundles[b].fixed
            covered == CoveredOccurrences(problem, bundles[b].frags)
<1>1. fixed \subseteq covered /\ \A o \in fixed : IsFixed(problem, o)
  BY FixedFieldOf DEF FixedOccurrences
<1>2. \A x, y \in covered : ~Incompatible(problem, x, y)
  BY DEF Agree
<1>. HIDE DEF covered
<1>3. CASE fixed = {}
  BY <1>3 DEF PlaceOK
<1>4. CASE fixed # {}
  <2>1. PICK q \in fixed : l = problem.occs[q].fixed
    <3>1. (CHOOSE q \in fixed : TRUE) \in fixed
      BY <1>4, Zenon
    <3>2. l = problem.occs[CHOOSE q \in fixed : TRUE].fixed
      BY <1>4 DEF PlaceOK, Requirement
    <3>. HIDE DEF fixed
    <3>. QED BY <3>1, <3>2
  <2>2. \A o \in fixed : problem.occs[o].fixed = l
    BY <2>1, <1>1, <1>2 DEF Incompatible
  <2>3. ASSUME l.kind = "stack", NEW o \in covered PROVE ~problem.occs[o].required
    BY <2>1, <2>3, <1>1, <1>2 DEF Incompatible
  <2>. QED BY <2>2, <2>3 DEF covered
<1>. QED BY <1>3, <1>4

LEMMA SelfOverlap ==
  ASSUME NEW p, NEW frags, FragmentsOK(p, frags) PROVE BundlesOverlap(frags, frags)
<1>1. PICK f \in frags : f.from < f.to
  BY DEF FragmentsOK, FragmentOK
<1>. QED BY <1>1 DEF BundlesOverlap, Overlap

\* The lowest free slots are apart where it matters.
LEMMA SlotsApart ==
  ASSUME BundlesOK(problem, bundles), deferred \subseteq DOMAIN bundles, NEW slots, LowestFree(slots),
         NEW b \in deferred, NEW c \in deferred, b # c, slots[b] = slots[c]
  PROVE  ~BundlesOverlap(bundles[b].frags, bundles[c].frags)
<1>1. ASSUME NEW x \in deferred, NEW y \in deferred, slots[x] = slots[y], StartsBefore(x, y)
      PROVE  BundleEnd(x) <= BundleStart(y) /\ \A f \in bundles[x].frags, h \in bundles[y].frags : f.to <= h.from
  <2>1. slots[y] \notin SlotsInUse(slots, y)
    BY DEF LowestFree
  <2>2. x \in Earlier(y)
    BY <1>1 DEF Earlier
  <2>3. FragmentsOK(problem, bundles[x].frags) /\ FragmentsOK(problem, bundles[y].frags)
    BY DEF BundlesOK
  <2>4. /\ BundleEnd(x) \in Nat /\ \A f \in bundles[x].frags : f.to <= BundleEnd(x)
        /\ BundleStart(y) \in Nat /\ \A h \in bundles[y].frags : BundleStart(y) <= h.from
    BY <2>3, BundleEnds DEF BundleEnd, BundleStart
  <2>5. ~(BundleEnd(x) > BundleStart(y))
    BY <2>1, <2>2, <1>1 DEF SlotsInUse
  <2>6. \A f \in bundles[x].frags : f.to \in Nat
    BY <2>3 DEF FragmentsOK, FragmentOK
  <2>7. \A h \in bundles[y].frags : h.from \in Nat
    BY <2>3 DEF FragmentsOK, FragmentOK
  <2>. QED BY <2>4, <2>5, <2>6, <2>7
<1>2. StartsBefore(b, c) \/ StartsBefore(c, b)
  <2>1. BundleStart(b) \in Nat /\ BundleStart(c) \in Nat /\ b \in Nat /\ c \in Nat
    <3>1. FragmentsOK(problem, bundles[b].frags) /\ FragmentsOK(problem, bundles[c].frags)
          /\ DOMAIN bundles \subseteq Nat
      BY DEF BundlesOK
    <3>. QED BY <3>1, BundleEnds DEF BundleStart
  <2>. QED BY <2>1 DEF StartsBefore
<1>3. \A f \in bundles[b].frags, h \in bundles[c].frags :
        f.to \in Nat /\ f.from \in Nat /\ h.to \in Nat /\ h.from \in Nat
        /\ (f.to <= h.from \/ h.to <= f.from)
  <2>1. \A f \in bundles[b].frags : f.to \in Nat /\ f.from \in Nat
    BY DEF BundlesOK, FragmentsOK, FragmentOK
  <2>2. \A f \in bundles[c].frags : f.to \in Nat /\ f.from \in Nat
    BY DEF BundlesOK, FragmentsOK, FragmentOK
  <2>3. \A f \in bundles[b].frags, h \in bundles[c].frags : f.to <= h.from \/ h.to <= f.from
    BY <1>1, <1>2
  <2>. QED BY <2>1, <2>2, <2>3
<1>. QED BY <1>3 DEF BundlesOverlap, Overlap

LEMMA SlotsKeep ==
  ASSUME Scanned(problem), AssignOK, AssignSpillSlots
  PROVE  stage' = "assigned" /\ AssignedOK'
<1>1. /\ worklist = {} /\ stage' = "assigned"
      /\ UNCHANGED <<problem, bundles, transfers, carriers, worklist, deferred>>
  BY DEF AssignSpillSlots
<1>2. PICK slots \in [deferred -> 0 .. Cardinality(deferred) - 1] :
        /\ LowestFree(slots)
        /\ place' = [b \in DOMAIN place |-> IF b \in deferred THEN SpillSlot(slots[b]) ELSE place[b]]
  BY DEF AssignSpillSlots
<1>3. /\ ScheduleOK(problem, ScheduleOf) /\ BundlesOK(problem, bundles)
      /\ DOMAIN place = DOMAIN bundles
      /\ carriers \subseteq DOMAIN bundles /\ deferred \subseteq carriers
      /\ \A b \in DOMAIN bundles : BundleOK(b)
      /\ PlacesApart
  BY AssignParts DEF AssignOK
<1>4. \A b \in deferred : place'[b] = SpillSlot(slots[b]) /\ slots[b] \in Nat
  <2>1. IsFiniteSet(deferred)
    BY <1>3, FS_Subset DEF BundlesOK
  <2>2. Cardinality(deferred) \in Nat
    BY <2>1, FS_CardinalityType
  <2>3. \A b \in deferred : slots[b] \in 0 .. Cardinality(deferred) - 1
    OBVIOUS
  <2>. QED BY <2>2, <2>3, <1>2, <1>3
<1>5. \A b \in DOMAIN bundles \ deferred :
        place'[b] = place[b] /\ place[b] # Nowhere /\ PlaceOK(problem, bundles[b], place[b])
  BY <1>1, <1>2, <1>3 DEF BundleOK
<1>6. \A b \in DOMAIN bundles \ deferred : place'[b].kind \in {"reg", "stack"}
  BY <1>5 DEF PlaceOK
<1>7. \A b \in deferred : place'[b].kind = "spill" /\ place'[b].n = slots[b]
  <2>1. \A n : SpillSlot(n).kind = "spill" /\ SpillSlot(n).n = n
    BY DEF SpillSlot
  <2>. QED BY <2>1, <1>4
<1>8. \A b \in DOMAIN bundles : FragmentsOK(problem, bundles[b].frags) /\ Agree(problem, bundles[b].frags)
  BY AssignParts
<1>9. ASSUME NEW b \in DOMAIN bundles, NEW c \in DOMAIN bundles, b # c, place'[c] = place'[b]
      PROVE  ~BundlesOverlap(bundles[c].frags, bundles[b].frags)
  <2>1. CASE b \in deferred
    <3>1. c \in deferred
      BY <1>6, <1>7, <1>9, <2>1
    <3>2. slots[c] = slots[b]
      BY <3>1, <2>1, <1>7, <1>9
    <3>. QED BY <3>1, <3>2, <2>1, <1>2, <1>3, <1>9, SlotsApart
  <2>2. CASE b \notin deferred
    <3>1. c \notin deferred
      BY <1>6, <1>7, <1>9, <2>2
    <3>. QED BY <3>1, <2>2, <1>3, <1>5, <1>9 DEF PlacesApart
  <2>. QED BY <2>1, <2>2
<1>10. ASSUME NEW b \in DOMAIN bundles PROVE place'[b] # Nowhere /\ AssignmentVerified(b)'
  <2>. DEFINE frags == bundles[b].frags
              covered == CoveredOccurrences(problem, frags)
              l == place'[b]
  <2>1. {c \in DOMAIN bundles : place'[c] = l /\ BundlesOverlap(bundles[c].frags, frags)} = {b}
    BY <1>8, <1>9, SelfOverlap
  <2>2. bundles[b].fixed = FixedOccurrences(problem, frags)
    BY <1>3, FixedFieldOf
  <2>3. /\ \A o \in bundles[b].fixed : problem.occs[o].fixed = l
        /\ Hit(problem, l, frags) = {}
        /\ l.kind = "stack" => \A o \in covered : ~problem.occs[o].required
        /\ l.kind = "spill" => \A o \in covered : problem.occs[o].copy # NoRegister
        /\ l # Nowhere
    <3>1. CASE b \in deferred
      <4>1. b \in carriers /\ CopiesOnly(problem, frags)
        BY <3>1, <1>3 DEF BundleOK
      <4>2. \A o \in covered : problem.occs[o].copy # NoRegister
        BY <4>1 DEF CopiesOnly
      <4>3. bundles[b].fixed = {}
        BY <4>2, <2>2 DEF FixedOccurrences, CoveredOccurrences, Scanned, OccurrenceScanned
      <4>4. l.kind = "spill"
        BY <3>1, <1>7
      <4>5. Hit(problem, l, frags) = {}
        BY <4>4 DEF Hit, Reg
      <4>. QED BY <4>2, <4>3, <4>4, <4>5 DEF Nowhere
    <3>2. CASE b \notin deferred
      <4>1. l = place[b] /\ l # Nowhere /\ PlaceOK(problem, bundles[b], l)
        BY <3>2, <1>5
      <4>2. l.kind # "spill" /\ Hit(problem, l, frags) = {}
        BY <4>1 DEF PlaceOK
      <4>. HIDE DEF l
      <4>. QED BY <4>1, <4>2, <1>3, <1>8, PlaceServes
    <3>. QED BY <3>1, <3>2
  <2>. HIDE DEF l, frags
  <2>4. AssignmentVerified(b)'
    BY <2>1, <2>3, <1>1 DEF AssignmentVerified, Hit, ClobbersHit, Residents, l, frags
  <2>. QED BY <2>3, <2>4 DEF l
<1>11. SlotsContiguous'
  <2>. SUFFICES ASSUME NEW b \in DOMAIN bundles, place'[b].kind = "spill", NEW n \in 0 .. place'[b].n
                PROVE  \E c \in DOMAIN bundles : place'[c] = SpillSlot(n)
    BY <1>1 DEF SlotsContiguous
  <2>1. b \in deferred /\ slots[b] \in Nat /\ n \in Nat /\ n <= slots[b]
    BY <1>4, <1>6, <1>7
  <2>2. CASE n = slots[b]
    BY <2>1, <2>2, <1>4
  <2>3. CASE n # slots[b]
    <3>1. n \in SlotsInUse(slots, b)
      BY <2>1, <2>3, <1>2 DEF LowestFree
    <3>2. PICK c \in deferred : n = slots[c]
      BY <3>1 DEF SlotsInUse, Earlier
    <3>. QED BY <3>2, <1>3, <1>4
  <2>. QED BY <2>2, <2>3
<1>12. ScheduleOK(problem, ScheduleOf)'
  BY <1>1, <1>3 DEF ScheduleOf
<1>13. \A b \in DOMAIN bundles' : place'[b] # Nowhere /\ AssignmentVerified(b)'
  BY <1>1, <1>10
<1>. QED BY <1>1, <1>11, <1>12, <1>13 DEF AssignedOK

-----------------------------------------------------------------------------
(* Verification: what the loop made passes.                                *)

LEMMA BundleCoveringCovers ==
  ASSUME BundlesOK(problem, bundles), NEW o \in DOMAIN problem.occs
  PROVE  /\ BundleCovering(o) \in DOMAIN bundles
         /\ \E f \in bundles[BundleCovering(o)].frags : Covers(problem, f, o)
<1>1. \E b \in DOMAIN bundles : \E f \in bundles[b].frags : Covers(problem, f, o)
  BY DEF BundlesOK, OccurrencesKept
<1>. QED BY <1>1, Zenon DEF BundleCovering

\* The fragments of a range tile it, wherever they are.
LEMMA BundlesPartition ==
  ASSUME Scanned(problem), BundlesOK(problem, bundles), NEW r \in DOMAIN problem.ranges
  PROVE  Partitioned(r)
<1>. DEFINE range == problem.ranges[r]
<1>1. ASSUME NEW x \in Pieces(r)
      PROVE  \E b \in DOMAIN bundles : \E f \in bundles[b].frags : x = <<b, f>> /\ f.range = r
  BY DEF Pieces
<1>2. ASSUME NEW b \in DOMAIN bundles, NEW f \in bundles[b].frags, f.range = r
      PROVE  <<b, f>> \in Pieces(r)
  BY <1>2 DEF Pieces
<1>3. \A b \in DOMAIN bundles : FragmentsOK(problem, bundles[b].frags)
  BY DEF BundlesOK
<1>4. ASSUME NEW x \in Pieces(r)
      PROVE  /\ x[2].from < x[2].to
             /\ Within(range, x[2].from, x[2].to)
             /\ \A y \in Pieces(r) \ {x} : ~Overlap(x[2], y[2])
  <2>1. PICK b \in DOMAIN bundles : \E f \in bundles[b].frags : x = <<b, f>> /\ f.range = r
    BY <1>1
  <2>2. PICK f \in bundles[b].frags : x = <<b, f>> /\ f.range = r
    BY <2>1
  <2>3. x[2] = f
    BY <2>2
  <2>4. f.from < f.to /\ Within(range, f.from, f.to)
    BY <2>2, <1>3 DEF FragmentsOK, FragmentOK, Within
  <2>5. ASSUME NEW y \in Pieces(r) \ {x} PROVE ~Overlap(f, y[2])
    <3>1. PICK c \in DOMAIN bundles : \E h \in bundles[c].frags : y = <<c, h>> /\ h.range = r
      BY <1>1
    <3>2. PICK h \in bundles[c].frags : y = <<c, h>> /\ h.range = r
      BY <3>1
    <3>3. y[2] = h
      BY <3>2
    <3>4. f.to <= h.from \/ h.to <= f.from
      <4>1. CASE b = c
        <5>1. f # h
          BY <4>1, <2>2, <3>2
        <5>. QED BY <5>1, <4>1, <1>3 DEF FragmentsOK
      <4>2. CASE b # c
        <5>1. Shared(bundles[b].frags, bundles[c].frags)
          BY <2>2, <3>2 DEF Shared
        <5>. QED BY <5>1, <4>2 DEF BundlesOK, Apart, Ahead
      <4>. QED BY <4>1, <4>2
    <3>5. f.from \in Nat /\ f.to \in Nat /\ h.from \in Nat /\ h.to \in Nat
      BY <1>3 DEF FragmentsOK, FragmentOK
    <3>. QED BY <3>3, <3>4, <3>5 DEF Overlap
  <2>. QED BY <2>3, <2>4, <2>5
<1>5. ASSUME NEW pos \in range.from .. range.to - 1
      PROVE  \E x \in Pieces(r) : Within(x[2], pos, pos + 1)
  <2>1. PICK b \in DOMAIN bundles : \E f \in bundles[b].frags : f.range = r /\ f.from <= pos /\ pos < f.to
    BY DEF BundlesOK, PositionsKept
  <2>2. PICK f \in bundles[b].frags : f.range = r /\ f.from <= pos /\ pos < f.to
    BY <2>1
  <2>3. f.from \in Nat /\ f.to \in Nat /\ pos \in Int
    BY <1>3 DEF FragmentsOK, FragmentOK
  <2>4. Within(f, pos, pos + 1)
    BY <2>2, <2>3 DEF Within
  <2>5. <<b, f>> \in Pieces(r) /\ <<b, f>>[2] = f
    BY <2>2, <1>2
  <2>. QED BY <2>4, <2>5
<1>. QED BY <1>4, <1>5 DEF Partitioned

LEMMA TransfersConnect ==
  ASSUME BundlesOK(problem, bundles), NEW t, TransferOK(problem, bundles, t)
  PROVE  t.point.kind # "edge" /\ t.from # t.to /\ Connected(t)
<1>1. PICK pos \in Nat : PointOK(problem, t.point, pos)
                         /\ Leads(problem, bundles[t.from].frags, bundles[t.to].frags, pos)
  BY DEF TransferOK
<1>2. t.point.kind # "edge"
  BY <1>1 DEF PointOK
<1>3. Adjacent(bundles[t.from], bundles[t.to])
  BY <1>1 DEF Leads, Adjacent
<1>. QED BY <1>2, <1>3 DEF TransferOK, Connected

LEMMA AffinitiesConnect ==
  ASSUME Scanned(problem), BundlesOK(problem, bundles), NEW t \in AffinityTransfers
  PROVE  t.point.kind = "edge" /\ t.from # t.to /\ Connected(t)
<1>1. PICK a \in problem.affinities :
        /\ place[BundleCovering(a.source)] # place[BundleCovering(a.destination)]
        /\ t = [point |-> EdgePoint(a.block, a.edge), from |-> BundleCovering(a.source),
                to |-> BundleCovering(a.destination)]
  BY DEF AffinityTransfers
<1>2. a.source \in DOMAIN problem.occs /\ a.destination \in DOMAIN problem.occs
  BY DEF Scanned
<1>3. /\ t.point = EdgePoint(a.block, a.edge) /\ t.from = BundleCovering(a.source)
      /\ t.to = BundleCovering(a.destination)
  BY <1>1
<1>4. t.point.kind = "edge"
  BY <1>3 DEF EdgePoint
<1>5. t.from # t.to
  BY <1>1, <1>3
<1>6. /\ \E f \in bundles[t.from].frags : Covers(problem, f, a.source)
      /\ \E f \in bundles[t.to].frags : Covers(problem, f, a.destination)
  BY <1>2, <1>3, BundleCoveringCovers
<1>7. Connected(t)
  BY <1>3, <1>4, <1>6 DEF Connected
<1>. QED BY <1>4, <1>5, <1>7

LEMMA VerifyKeeps ==
  ASSUME Scanned(problem), AssignedOK, VerifyAllocation
  PROVE  stage' = "allocated" /\ AllocatedOK'
<1>. DEFINE scheduled == transfers \cup AffinityTransfers
<1>1. /\ transfers' = scheduled
      /\ stage' = IF AllocationVerified(scheduled) THEN "allocated" ELSE "fatal"
      /\ UNCHANGED <<problem, bundles, place, carriers, worklist, deferred>>
  BY DEF VerifyAllocation
<1>2. /\ BundlesOK(problem, bundles) /\ TransfersOK(problem, bundles, transfers)
      /\ \A b \in DOMAIN bundles : place[b] # Nowhere /\ AssignmentVerified(b)
      /\ SlotsContiguous
  BY ScheduleFields DEF AssignedOK
<1>3. \A t \in scheduled : t.from # t.to /\ Connected(t)
  BY <1>2, TransfersConnect, AffinitiesConnect DEF TransfersOK
<1>4. \A t \in scheduled : t.point.kind # "edge" => TransferOK(problem, bundles, t)
  BY <1>2, AffinitiesConnect DEF TransfersOK
<1>5. \A b \in DOMAIN bundles : bundles[b].frags # {}
  BY <1>2 DEF BundlesOK, FragmentsOK
<1>6. \A r \in DOMAIN problem.ranges : Partitioned(r)
  BY <1>2, BundlesPartition
<1>. HIDE DEF scheduled
<1>7. AllocationVerified(scheduled)
  BY <1>2, <1>3, <1>5, <1>6 DEF AllocationVerified
<1>. QED BY <1>1, <1>2, <1>4, <1>7 DEF AllocatedOK

-----------------------------------------------------------------------------
(* Materialization: every transfer moves something, and every transfer at  *)
(* the exit of a block is one of an argument.                              *)

LEMMA NoPointFaults ==
  ASSUME AllocatedOK, NEW point, point.kind \in {"entry", "before"}
  PROVE  PointFaults(point) = {}
<1>. SUFFICES ASSUME NEW t \in transfers, t.point = point
              PROVE  TransferSources(t, PointPosition(point)) # {}
  BY DEF PointFaults, FaultIf, TransfersAt
<1>1. TransferOK(problem, bundles, t)
  BY DEF AllocatedOK
<1>2. PICK pos \in Nat : PointOK(problem, point, pos)
                         /\ Leads(problem, bundles[t.from].frags, bundles[t.to].frags, pos)
  BY <1>1 DEF TransferOK
<1>3. PointPosition(point) = pos
  BY <1>2 DEF PointOK, PositionOf, PointPosition
<1>4. PICK f \in bundles[t.from].frags : f.to = pos /\ problem.ranges[f.range].key[1] = "value"
  BY <1>2 DEF Leads
<1>. QED BY <1>3, <1>4 DEF TransferSources

\* No other bundle covers what one does.
LEMMA CoveredOnce ==
  ASSUME Scanned(problem), BundlesOK(problem, bundles), NEW o \in DOMAIN problem.occs,
         NEW b \in DOMAIN bundles, NEW f \in bundles[b].frags, Covers(problem, f, o)
  PROVE  BundleCovering(o) = b
<1>. DEFINE c == BundleCovering(o)
<1>1. c \in DOMAIN bundles
  BY BundleCoveringCovers
<1>2. PICK h \in bundles[c].frags : Covers(problem, h, o)
  BY BundleCoveringCovers
<1>. HIDE DEF c
<1>. SUFFICES ASSUME c # b PROVE FALSE
  BY DEF c
<1>3. Shared(bundles[b].frags, bundles[c].frags)
  BY <1>2 DEF Shared, Covers
<1>4. f.to <= h.from \/ h.to <= f.from
  BY <1>1, <1>2, <1>3 DEF BundlesOK, Apart, Ahead
<1>5. problem.occs[o].from \in Nat /\ problem.occs[o].to \in Nat /\ problem.occs[o].from < problem.occs[o].to
  BY OccurrencePositions
<1>6. /\ f.from <= problem.occs[o].from /\ problem.occs[o].to <= f.to
      /\ h.from <= problem.occs[o].from /\ problem.occs[o].to <= h.to
  BY <1>2 DEF Covers, Within
<1>7. f.from \in Nat /\ f.to \in Nat /\ h.from \in Nat /\ h.to \in Nat
  BY <1>1, <1>2 DEF BundlesOK, FragmentsOK, FragmentOK
<1>. QED BY <1>4, <1>5, <1>6, <1>7

\* The range of a fragment that is live at the exit of a block is one of
\* the block's own, and an edge reads it.
LEMMA LiveAtExit ==
  ASSUME Scanned(problem), NEW b \in Blocks(problem), NEW h, FragmentOK(problem, h), h.from = Exit(b),
         problem.ranges[h.range].key[1] = "value"
  PROVE  \E o \in DOMAIN problem.occs :
           /\ Covers(problem, h, o)
           /\ problem.occs[o].anchor.kind = "edge" /\ problem.occs[o].anchor.block = b
<1>. DEFINE r == h.range
            range == problem.ranges[r]
            c == range.block
            start == problem.starts[b]
            len == Len(problem.graph.blocks[b].code)
            startC == problem.starts[c]
            lenC == Len(problem.graph.blocks[c].code)
<1>1. /\ h.from \in Nat /\ h.to \in Nat /\ r \in DOMAIN problem.ranges
      /\ h.from < h.to /\ range.from <= h.from /\ h.to <= range.to
  BY DEF FragmentOK
<1>2. /\ range.from \in Nat /\ range.to \in Nat /\ c \in Blocks(problem)
      /\ range.to <= ExitOf(problem.starts[c], problem.graph.blocks[c]) + 1
      /\ range.occurrences \subseteq DOMAIN problem.occs
      /\ \E o \in range.occurrences : problem.occs[o].to = range.to
  BY <1>1 DEF Scanned, RangeScanned
<1>3. /\ problem.starts[c] <= range.from
      /\ range.to <= problem.starts[c] + BlockSize(problem.graph.blocks[c])
      /\ \A o \in range.occurrences : problem.occs[o].range = r
  BY <1>1 DEF Scanned, ScanVerified, RangeVerified
<1>4. start \in Nat /\ len \in Nat /\ startC \in Nat /\ lenC \in Nat
  BY <1>2 DEF Scanned, BlocksLaidOut, CodeOf
<1>5. h.from = start + 2 + 2 * len
  BY DEF Exit, ExitOf, StartOf
<1>6. c = b
  <2>. SUFFICES ASSUME c # b PROVE FALSE
    OBVIOUS
  <2>1. BlockEnd(problem, b) <= startC \/ BlockEnd(problem, c) <= start
    BY <1>2 DEF Scanned, BlocksLaidOut
  <2>2. BlockEnd(problem, b) = start + (len + 2) * 2 /\ BlockEnd(problem, c) = startC + (lenC + 2) * 2
    BY DEF BlockEnd, BlockSize
  <2>3. startC <= range.from /\ range.to <= startC + (lenC + 2) * 2
    BY <1>3 DEF BlockSize
  <2>. HIDE DEF start, len, startC, lenC, range
  <2>. QED BY <2>1, <2>2, <2>3, <1>1, <1>2, <1>4, <1>5
<1>. HIDE DEF c
<1>7. range.to <= h.from + 1
  BY <1>2, <1>5, <1>6 DEF ExitOf
<1>8. range.to = h.from + 1 /\ h.to = h.from + 1
  BY <1>1, <1>2, <1>7
<1>9. PICK o \in range.occurrences : problem.occs[o].to = h.from + 1
  BY <1>2, <1>8
<1>. DEFINE occ == problem.occs[o]
            a == occ.anchor
<1>10. o \in DOMAIN problem.occs /\ occ.range = r
  BY <1>2, <1>3
<1>11. AnchorVerified(problem, o) /\ OccurrenceScanned(problem, o)
  BY <1>10 DEF Scanned, ScanVerified, OccurrenceVerified
<1>12. a.block = b
  BY <1>6, <1>10, <1>11 DEF AnchorVerified, c
<1>13. /\ a.kind \in {"edge", "result", "operand", "temporary"}
       /\ a.kind = "result" => a.at \in 0 .. len
       /\ a.kind \in {"operand", "temporary"} => a.at \in 1 .. len
       /\ occ.kind \in {"use", "def", "forwarding", "temporary"}
       /\ occ.from \in Nat /\ occ.to \in Nat
  BY <1>11, <1>12 DEF OccurrenceScanned, AnchorInCode, CodeOf
<1>14. ASSUME NEW early \in Int, NEW kind \in {"use", "def", "forwarding", "temporary"}, NEW timing
       PROVE  Coverage(early, kind, timing).to <= early + 2
  <2>1. CASE kind = "use"
    BY <2>1 DEF Coverage
  <2>2. CASE kind \in {"def", "forwarding"}
    BY <2>2 DEF Coverage
  <2>3. CASE kind = "temporary"
    BY <2>3 DEF Coverage
  <2>. QED BY <2>1, <2>2, <2>3
<1>15. ASSUME NEW i \in 1 .. len PROVE EarlyOf(start, i) \in Int /\ EarlyOf(start, i) + 2 <= h.from
  <2>1. EarlyOf(start, i) = start + 2 * i
    BY DEF EarlyOf
  <2>. HIDE DEF start, len
  <2>. QED BY <2>1, <1>4, <1>5
<1>16. a.kind = "edge"
  <2>. DEFINE timing == IF occ.pos = EarlyOf(start, a.at) THEN "early" ELSE "late"
  <2>1. CASE a.kind = "result" /\ a.at = 0
    <3>1. occ.to = start + 2
      BY <2>1, <1>11, <1>12 DEF AnchorVerified
    <3>2. occ.to = h.from + 1
      BY <1>9
    <3>. HIDE DEF start, len, occ
    <3>. QED BY <3>1, <1>4, <1>5, <3>2
  <2>2. CASE a.kind = "result" /\ a.at # 0
    <3>1. a.at \in 1 .. len /\ a.at > 0
      BY <2>2, <1>4, <1>13
    <3>2. occ.to = Coverage(EarlyOf(start, a.at), occ.kind, timing).to
      BY <2>2, <3>1, <1>11, <1>12 DEF AnchorVerified
    <3>. QED BY <3>1, <3>2, <1>1, <1>9, <1>13, <1>14, <1>15
  <2>3. CASE a.kind = "operand"
    <3>1. a.at \in 1 .. len
      BY <2>3, <1>13
    <3>2. occ.to = Coverage(EarlyOf(start, a.at), "use", timing).to
      BY <2>3, <1>11, <1>12 DEF AnchorVerified
    <3>. QED BY <3>1, <3>2, <1>1, <1>9, <1>13, <1>14, <1>15
  <2>4. CASE a.kind = "temporary"
    <3>1. range.key = TemporaryKey(a.block, a.at)
      BY <2>4, <1>10, <1>11 DEF AnchorVerified
    <3>. QED BY <3>1 DEF TemporaryKey
  <2>. QED BY <2>1, <2>2, <2>3, <2>4, <1>13
<1>17. occ.from = occ.pos /\ occ.pos = h.from
  BY <1>5, <1>11, <1>12, <1>16 DEF AnchorVerified, ExitOf
<1>18. Covers(problem, h, o)
  BY <1>1, <1>8, <1>9, <1>10, <1>17 DEF Covers, Within
<1>. QED BY <1>10, <1>12, <1>16, <1>18

LEMMA NoExitTransferUnused ==
  ASSUME Scanned(problem), AllocatedOK, NEW b \in Blocks(problem)
  PROVE  TransfersAt(ExitPoint(b)) =
           UNION {ExitTransfers(b, e) : e \in DOMAIN problem.graph.blocks[b].edges}
<1>. SUFFICES ASSUME NEW t \in TransfersAt(ExitPoint(b))
              PROVE  \E e \in DOMAIN problem.graph.blocks[b].edges : t \in ExitTransfers(b, e)
  BY DEF ExitTransfers
<1>1. t \in transfers /\ t.point = ExitPoint(b)
  BY DEF TransfersAt
<1>2. t.point.kind = "exit" /\ t.point.block = b
  BY <1>1 DEF ExitPoint
<1>3. TransferOK(problem, bundles, t) /\ BundlesOK(problem, bundles)
  BY <1>1, <1>2 DEF AllocatedOK
<1>4. PICK pos \in Nat : PointOK(problem, t.point, pos)
                         /\ Leads(problem, bundles[t.from].frags, bundles[t.to].frags, pos)
  BY <1>3 DEF TransferOK
<1>5. pos = Exit(b)
  BY <1>2, <1>4 DEF PointOK, PositionOf, Exit, StartOf
<1>6. PICK h \in bundles[t.to].frags : h.from = pos /\ problem.ranges[h.range].key[1] = "value"
  BY <1>4 DEF Leads
<1>7. t.to \in DOMAIN bundles /\ FragmentOK(problem, h)
  BY <1>3 DEF TransferOK, BundlesOK, FragmentsOK
<1>8. PICK o \in DOMAIN problem.occs :
        /\ Covers(problem, h, o)
        /\ problem.occs[o].anchor.kind = "edge" /\ problem.occs[o].anchor.block = b
  BY <1>5, <1>6, <1>7, LiveAtExit
<1>. DEFINE a == problem.occs[o].anchor
<1>9. /\ a = Anchor("edge", b, a.at, a.index)
      /\ a.at \in DOMAIN problem.graph.blocks[b].edges
      /\ a.index \in DOMAIN problem.graph.blocks[b].edges[a.at].args
      /\ \A q \in DOMAIN problem.occs : problem.occs[q].anchor = a => q = o
  <2>1. OccurrenceScanned(problem, o)
    BY DEF Scanned
  <2>2. AnchorInCode(problem, a) /\ \A q \in DOMAIN problem.occs : problem.occs[q].anchor = a => q = o
    BY <2>1 DEF OccurrenceScanned
  <2>3. a.kind = "edge" /\ a.block = b
    BY <1>8
  <2>. HIDE DEF a
  <2>. QED BY <2>2, <2>3 DEF AnchorInCode
<1>10. OccurrenceAt("edge", b, a.at, a.index) = o
  <2>1. o \in DOMAIN problem.occs /\ problem.occs[o].anchor = Anchor("edge", b, a.at, a.index)
    BY <1>9
  <2>2. \A q \in DOMAIN problem.occs : problem.occs[q].anchor = Anchor("edge", b, a.at, a.index) => q = o
    BY <1>9
  <2>. QED BY <2>1, <2>2 DEF OccurrenceAt
<1>11. BundleCovering(o) = t.to
  BY <1>3, <1>6, <1>7, <1>8, CoveredOnce
<1>12. t.to = ArgumentBundle(b, a.at, a.index)
  BY <1>10, <1>11 DEF ArgumentBundle
<1>. HIDE DEF a
<1>. QED BY <1>9, <1>12 DEF ExitTransfers

LEMMA MaterializeFaults ==
  ASSUME Scanned(problem), AllocatedOK, NEW b \in Blocks(problem)
  PROVE  BlockFaults(b) \subseteq KnownFaults
<1>1. \A assignments : Conflicts(assignments) \subseteq KnownFaults
  BY DEF Conflicts, FaultIf, KnownFaults
<1>2. EntryFaults(b) \subseteq KnownFaults
  <2>1. PointFaults(EntryPoint(b)) = {}
    BY NoPointFaults DEF EntryPoint
  <2>. QED BY <1>1, <2>1 DEF EntryFaults
<1>3. ASSUME NEW i PROVE InstructionFaults(b, i) \subseteq KnownFaults
  <2>1. PointFaults(BeforePoint(b, i)) = {}
    BY NoPointFaults DEF BeforePoint
  <2>. QED BY <1>1, <2>1 DEF InstructionFaults
<1>4. ASSUME NEW e PROVE EdgeFaults(b, e) \subseteq KnownFaults
  <2>1. FaultIf(NeedsBlock(b, e) /\ OutputNotEmitted(b, e), "output not emitted") \subseteq KnownFaults
    BY DEF FaultIf, KnownFaults
  <2>. QED BY <1>1, <2>1 DEF EdgeFaults
<1>5. ExitFaults(b) \subseteq KnownFaults
  <2>1. FaultIf(TransfersAt(ExitPoint(b)) #
                  UNION {ExitTransfers(b, e) : e \in DOMAIN problem.graph.blocks[b].edges},
                "exit transfer unused") = {}
    BY NoExitTransferUnused DEF FaultIf
  <2>. QED BY <1>4, <2>1 DEF ExitFaults
<1>. QED BY <1>2, <1>3, <1>5 DEF BlockFaults

LEMMA MaterializeKeeps ==
  ASSUME Scanned(problem), AllocatedOK, Materialize
  PROVE  stage' = "running" \/ (stage' = "fatal" /\ faults' # {} /\ faults' \subseteq KnownFaults)
<1>1. faults' = UNION {BlockFaults(b) : b \in Blocks(problem)}
      /\ stage' = IF faults' = {} THEN "running" ELSE "fatal"
  BY DEF Materialize, Blocks
<1>2. faults' \subseteq KnownFaults
  BY <1>1, MaterializeFaults
<1>. QED BY <1>1, <1>2

-----------------------------------------------------------------------------
(* The invariant, for every run.                                           *)

LEMMA AssignStepKeeps ==
  ASSUME Scanned(problem), AssignOK, AssignStep
  PROVE  /\ problem' = problem
         /\ stage' = "failed" \/ (stage' = stage /\ AssignOK')
<1>1. PICK b \in worklist :
        \/ PlaceBundle(b) \/ DeferSpillSlotAssignment(b) \/ TrimSpillCarrier(b)
        \/ SplitBeforeLaterFixedUse(b) \/ EvictAndPlace(b) \/ SplitForPressure(b)
        \/ FailAllocation(b)
  BY DEF AssignStep
<1>2. CASE PlaceBundle(b)
  BY <1>2, PlaceKeeps DEF PlaceBundle
<1>3. CASE DeferSpillSlotAssignment(b)
  BY <1>3, DeferKeeps DEF DeferSpillSlotAssignment
<1>4. CASE TrimSpillCarrier(b)
  <2>1. problem' = problem
    BY <1>4 DEF TrimSpillCarrier, Reschedule
  <2>. QED BY <2>1, <1>4, CarrierKeeps
<1>5. CASE SplitBeforeLaterFixedUse(b)
  <2>1. problem' = problem
    BY <1>5 DEF SplitBeforeLaterFixedUse, Reschedule
  <2>. QED BY <2>1, <1>5, LaterFixedUseKeeps
<1>6. CASE EvictAndPlace(b)
  BY <1>6, EvictKeeps DEF EvictAndPlace
<1>7. CASE SplitForPressure(b)
  <2>1. problem' = problem
    BY <1>7 DEF SplitForPressure, Reschedule
  <2>. QED BY <2>1, <1>7, PressureKeeps
<1>8. CASE FailAllocation(b)
  BY <1>8 DEF FailAllocation
<1>. QED BY <1>1, <1>2, <1>3, <1>4, <1>5, <1>6, <1>7, <1>8

LEMMA AllocationStarts ==
  ASSUME NEW Graphs, \A g \in Graphs : Scanned(ScanLiveRanges(g)), RegistersInit(Graphs)
  PROVE  AllocationInv
<1>1. PICK g \in Graphs : AllocationInit(g)
  BY DEF RegistersInit
<1>2. Scanned(problem) /\ stage = "scan" /\ ScanOK
  BY <1>1 DEF AllocationInit, ScanOK
<1>. QED BY <1>2 DEF AllocationInv, AllocationsVerify

\* No step of the allocator or of the machine breaks the invariant.
LEMMA AllocationStays ==
  ASSUME AllocationInv, [RegistersNext]_registerVars
  PROVE  AllocationInv'
<1>1. Scanned(problem)
  BY DEF AllocationInv
<1>2. CASE UNCHANGED registerVars
  <2>1. UNCHANGED <<problem, bundles, transfers, place, carriers, worklist, deferred, stage, faults>>
    BY <1>2 DEF registerVars, allocVars, machineVars
  <2>2. ScanOK => ScanOK'
    BY <2>1 DEF ScanOK
  <2>3. ScheduleOK(problem, ScheduleOf) => ScheduleOK(problem, ScheduleOf)'
    BY <2>1 DEF ScheduleOf
  <2>4. ConstrainOK => ConstrainOK'
    BY <2>1, <2>3 DEF ConstrainOK
  <2>5. (\A b \in DOMAIN bundles : BundleOK(b)) => (\A b \in DOMAIN bundles' : BundleOK(b)')
    BY <2>1 DEF BundleOK
  <2>6. PlacesApart => PlacesApart'
    BY <2>1 DEF PlacesApart
  <2>7. AssignOK => AssignOK'
    BY <2>1, <2>3, <2>5, <2>6 DEF AssignOK
  <2>8. \A b : AssignmentVerified(b) => AssignmentVerified(b)'
    BY <2>1 DEF AssignmentVerified, ClobbersHit, Residents
  <2>9. SlotsContiguous => SlotsContiguous'
    BY <2>1 DEF SlotsContiguous
  <2>10. AssignedOK => AssignedOK'
    BY <2>1, <2>3, <2>8, <2>9 DEF AssignedOK
  <2>11. AllocatedOK => AllocatedOK'
    BY <2>1 DEF AllocatedOK
  <2>12. AllocationsVerify => AllocationsVerify'
    BY <2>1 DEF AllocationsVerify
  <2>. QED BY <2>1, <2>2, <2>4, <2>7, <2>10, <2>11, <2>12 DEF AllocationInv
<1>3. CASE BuildInitialBundles
  <2>1. stage = "scan" /\ problem' = problem
    BY <1>3 DEF BuildInitialBundles
  <2>2. stage' = "constrain" /\ ConstrainOK'
    BY <1>1, <1>3, <2>1, BuildKeeps DEF AllocationInv
  <2>. QED BY <1>1, <2>1, <2>2 DEF AllocationInv, AllocationsVerify
<1>4. CASE SplitForLocation
  <2>1. stage = "constrain" /\ problem' = problem
    BY <1>4 DEF SplitForLocation
  <2>2. stage' = "failed" \/ (stage' = "constrain" /\ ConstrainOK')
    BY <1>1, <1>4, <2>1, ConstrainStepKeeps DEF AllocationInv
  <2>. QED BY <1>1, <2>1, <2>2 DEF AllocationInv, AllocationsVerify
<1>5. CASE StartAssignment
  <2>1. stage = "constrain" /\ problem' = problem /\ stage' = "assign"
    BY <1>5 DEF StartAssignment
  <2>2. AssignOK'
    BY <1>1, <1>5, <2>1, StartKeeps DEF AllocationInv
  <2>. QED BY <1>1, <2>1, <2>2 DEF AllocationInv, AllocationsVerify
<1>6. CASE AssignStep
  <2>1. stage = "assign"
    BY <1>6 DEF AssignStep, PlaceBundle, DeferSpillSlotAssignment, TrimSpillCarrier,
                SplitBeforeLaterFixedUse, EvictAndPlace, SplitForPressure, FailAllocation,
                Stuck, Crowded, Popped
  <2>2. problem' = problem /\ (stage' = "failed" \/ (stage' = stage /\ AssignOK'))
    BY <1>1, <1>6, <2>1, AssignStepKeeps DEF AllocationInv
  <2>. QED BY <1>1, <2>1, <2>2 DEF AllocationInv, AllocationsVerify
<1>7. CASE AssignSpillSlots
  <2>1. stage = "assign" /\ problem' = problem
    BY <1>7 DEF AssignSpillSlots
  <2>2. stage' = "assigned" /\ AssignedOK'
    BY <1>1, <1>7, <2>1, SlotsKeep DEF AllocationInv
  <2>. QED BY <1>1, <2>1, <2>2 DEF AllocationInv, AllocationsVerify
<1>8. CASE VerifyAllocation
  <2>1. stage = "assigned" /\ problem' = problem
    BY <1>8 DEF VerifyAllocation
  <2>2. stage' = "allocated" /\ AllocatedOK'
    BY <1>1, <1>8, <2>1, VerifyKeeps DEF AllocationInv
  <2>. QED BY <1>1, <2>1, <2>2 DEF AllocationInv, AllocationsVerify
<1>9. CASE Materialize
  <2>1. stage = "allocated" /\ problem' = problem
    BY <1>9 DEF Materialize
  <2>2. stage' = "running" \/ (stage' = "fatal" /\ faults' # {} /\ faults' \subseteq KnownFaults)
    BY <1>1, <1>9, <2>1, MaterializeKeeps DEF AllocationInv
  <2>. QED BY <1>1, <2>1, <2>2 DEF AllocationInv, AllocationsVerify, KnownFaults
<1>10. CASE RunInstruction \/ TakeEdge
  <2>1. stage' = "running" /\ problem' = problem
    BY <1>10 DEF RunInstruction, TakeEdge, Running, allocVars
  <2>. QED BY <1>1, <2>1 DEF AllocationInv, AllocationsVerify
<1>. QED
  BY <1>2, <1>3, <1>4, <1>5, <1>6, <1>7, <1>8, <1>9, <1>10
  DEF RegistersNext, Allocate, AllocationNext, MaterializerNext

-----------------------------------------------------------------------------
(* Sequences of occurrences: which ones they list, each under its anchor.  *)

AnchorsDiffer(s) == \A i, j \in DOMAIN s : s[i].anchor = s[j].anchor => i = j
Lists(s, E) ==
  /\ s \in Seq(E)
  /\ \A x \in E : \E i \in DOMAIN s : s[i] = x
  /\ AnchorsDiffer(s)

LEMMA ListsOf ==
  ASSUME NEW n \in Nat, NEW s, s = [i \in 1 .. n |-> s[i]], AnchorsDiffer(s)
  PROVE  Lists(s, {s[i] : i \in 1 .. n})
<1>. DEFINE E == {s[i] : i \in 1 .. n}
<1>1. s \in [1 .. n -> E]
  OBVIOUS
<1>2. s \in Seq(E) /\ DOMAIN s = 1 .. n
  BY <1>1
<1>3. \A x \in E : \E i \in 1 .. n : s[i] = x
  OBVIOUS
<1>. QED BY <1>2, <1>3 DEF Lists

LEMMA ListsNothing == Lists(<<>>, {})
BY DEF Lists, AnchorsDiffer

LEMMA ListsOne ==
  ASSUME NEW x PROVE Lists(<<x>>, {x})
<1>1. <<x>> \in Seq({x}) /\ DOMAIN <<x>> = 1 .. 1 /\ <<x>>[1] = x
  OBVIOUS
<1>. QED BY <1>1 DEF Lists, AnchorsDiffer

LEMMA ListsBoth ==
  ASSUME NEW s, NEW E, Lists(s, E), NEW t, NEW F, Lists(t, F),
         \A x \in E, y \in F : x.anchor # y.anchor
  PROVE  Lists(s \o t, E \cup F)
<1>. DEFINE m == Len(s)
            n == Len(t)
            u == s \o t
<1>1. s \in Seq(E \cup F) /\ t \in Seq(E \cup F)
  BY SeqMonotonic DEF Lists
<1>2. /\ m \in Nat /\ n \in Nat /\ DOMAIN s = 1 .. m /\ DOMAIN t = 1 .. n
      /\ \A i \in 1 .. m : s[i] \in E
      /\ \A i \in 1 .. n : t[i] \in F
  BY LenProperties DEF Lists
<1>3. /\ u \in Seq(E \cup F) /\ Len(u) = m + n
      /\ \A i \in 1 .. m + n : u[i] = IF i <= m THEN s[i] ELSE t[i - m]
  BY <1>1, ConcatProperties
<1>4. DOMAIN u = 1 .. m + n
  BY <1>3, LenProperties
<1>. HIDE DEF m, n, u
<1>5. \A x \in E \cup F : \E i \in DOMAIN u : u[i] = x
  <2>1. ASSUME NEW x \in E PROVE \E i \in DOMAIN u : u[i] = x
    <3>1. PICK i \in 1 .. m : s[i] = x
      BY <1>2 DEF Lists
    <3>2. i \in 1 .. m + n /\ u[i] = s[i]
      BY <1>2, <1>3
    <3>. QED BY <3>1, <3>2, <1>4
  <2>2. ASSUME NEW x \in F PROVE \E i \in DOMAIN u : u[i] = x
    <3>1. PICK i \in 1 .. n : t[i] = x
      BY <1>2 DEF Lists
    <3>2. m + i \in 1 .. m + n /\ ~(m + i <= m) /\ (m + i) - m = i
      BY <1>2
    <3>. QED BY <3>1, <3>2, <1>3, <1>4
  <2>. QED BY <2>1, <2>2
<1>6. AnchorsDiffer(u)
  <2>. SUFFICES ASSUME NEW i \in 1 .. m + n, NEW j \in 1 .. m + n, u[i].anchor = u[j].anchor
                PROVE  i = j
    BY <1>4 DEF AnchorsDiffer
  <2>1. ASSUME NEW k \in 1 .. m + n, ~(k <= m) PROVE k - m \in 1 .. n /\ u[k] = t[k - m]
    BY <2>1, <1>2, <1>3
  <2>2. ASSUME NEW k \in 1 .. m + n, k <= m PROVE k \in 1 .. m /\ u[k] = s[k]
    BY <2>2, <1>2, <1>3
  <2>3. CASE i <= m /\ j <= m
    BY <2>3, <2>2, <1>2 DEF Lists, AnchorsDiffer
  <2>4. CASE ~(i <= m) /\ ~(j <= m)
    <3>1. i - m \in DOMAIN t /\ j - m \in DOMAIN t /\ t[i - m].anchor = t[j - m].anchor
      BY <2>4, <2>1, <1>2
    <3>2. i - m = j - m
      BY <3>1 DEF Lists, AnchorsDiffer
    <3>. QED BY <3>2, <1>2
  <2>5. CASE i <= m /\ ~(j <= m)
    BY <2>5, <2>1, <2>2, <1>2
  <2>6. CASE ~(i <= m) /\ j <= m
    BY <2>6, <2>1, <2>2, <1>2
  <2>. QED BY <2>3, <2>4, <2>5, <2>6
<1>. QED BY <1>3, <1>5, <1>6 DEF Lists, u

\* The loop of FlattenSeq starts with the first sequence.
Flattening(f, n, seqs) == f = [i \in 1 .. n |-> IF i = 1 THEN seqs[i] ELSE f[i - 1] \o seqs[i]]

LEMMA FlattenExists ==
  ASSUME NEW n \in Nat \ {0}, NEW S, NEW seqs \in [1 .. n -> Seq(S)]
  PROVE  \E f : Flattening(f, n, seqs)
<1>. DEFINE step == [xi \in Seq(S) \X (1 .. n) |-> xi[1] \o seqs[xi[2]]]
            P == [i \in 0 .. n |-> Seq(S)]
<1>1. \A i \in 1 .. n : i \in 0 .. n /\ i - 1 \in 0 .. n /\ P[i - 1] = Seq(S) /\ P[i] = Seq(S)
  OBVIOUS
<1>2. \A i \in 1 .. n, x \in Seq(S) : step[<<x, i>>] = x \o seqs[i] /\ step[<<x, i>>] \in Seq(S)
  <2>. TAKE i \in 1 .. n, x \in Seq(S)
  <2>1. seqs[i] \in Seq(S) /\ x \o seqs[i] \in Seq(S)
    BY ConcatProperties
  <2>. QED BY <2>1
<1>3. <<>> \in P[0]
  OBVIOUS
<1>. HIDE DEF P, step
<1>4. PICK g : Recursion(g, n, <<>>, step)
  <2>1. \A i \in 1 .. n : \A x \in P[i - 1] : step[<<x, i>>] \in P[i]
    BY <1>1, <1>2
  <2>. QED BY <1>3, <2>1, RecursionExists
<1>5. g[0] = <<>> /\ \A i \in 1 .. n : g[i] = step[<<g[i - 1], i>>]
  <2>1. 0 \in 0 .. n /\ \A i \in 1 .. n : i \in 0 .. n /\ i # 0
    OBVIOUS
  <2>. QED BY <1>4, <2>1 DEF Recursion
<1>6. \A i \in 0 .. n : g[i] \in Seq(S)
  <2>1. g[0] \in P[0] /\ \A i \in 0 .. n : P[i] = Seq(S)
    BY <1>3, <1>5 DEF P
  <2>2. \A i \in 1 .. n : g[i - 1] \in P[i - 1] => g[i] \in P[i]
    BY <1>1, <1>2, <1>5
  <2>3. \A i \in 0 .. n : g[i] \in P[i]
    BY <2>1, <2>2, LoopStays
  <2>. QED BY <2>1, <2>3
<1>7. \A i \in 1 .. n : g[i] = g[i - 1] \o seqs[i]
  BY <1>1, <1>2, <1>5, <1>6
<1>8. g[1] = seqs[1]
  <2>1. 1 \in 1 .. n /\ 1 - 1 = 0
    OBVIOUS
  <2>2. seqs[1] \in Seq(S)
    BY <2>1
  <2>3. <<>> \o seqs[1] = seqs[1]
    BY <2>2, ConcatEmptySeq
  <2>4. g[1] = g[0] \o seqs[1]
    BY <2>1, <1>7
  <2>. QED BY <2>3, <2>4, <1>5
<1>. DEFINE f == [i \in 1 .. n |-> g[i]]
<1>9. \A i \in 1 .. n : f[i] = IF i = 1 THEN seqs[i] ELSE f[i - 1] \o seqs[i]
  <2>. TAKE i \in 1 .. n
  <2>1. CASE i = 1
    BY <2>1, <1>8
  <2>2. CASE i # 1
    <3>1. i - 1 \in 1 .. n
      BY <2>2
    <3>. QED BY <2>2, <3>1, <1>7
  <2>. QED BY <2>1, <2>2
<1>10. f = [i \in 1 .. n |-> f[i]]
  OBVIOUS
<1>. HIDE DEF f
<1>11. f = [i \in 1 .. n |-> IF i = 1 THEN seqs[i] ELSE f[i - 1] \o seqs[i]]
  BY <1>9, <1>10, Zenon
<1>. QED BY <1>11 DEF Flattening

LEMMA ListsFlattened ==
  ASSUME NEW n \in Nat, NEW seqs, seqs = [i \in 1 .. n |-> seqs[i]],
         NEW E, \A i \in 1 .. n : Lists(seqs[i], E[i]),
         \A i, j \in 1 .. n : i # j => \A x \in E[i], y \in E[j] : x.anchor # y.anchor
  PROVE  Lists(FlattenSeq(seqs), UNION {E[i] : i \in 1 .. n})
<1>. DEFINE S == UNION {E[i] : i \in 1 .. n}
<1>1. seqs \in [1 .. n -> Seq(S)]
  <2>1. ASSUME NEW i \in 1 .. n PROVE seqs[i] \in Seq(S)
    <3>1. E[i] \subseteq S /\ seqs[i] \in Seq(E[i])
      BY DEF Lists
    <3>. HIDE DEF S
    <3>. QED BY <3>1, SeqMonotonic
  <2>. HIDE DEF S
  <2>. QED BY <2>1
<1>2. seqs \in Seq(Seq(S)) /\ Len(seqs) = n
  <2>. HIDE DEF S
  <2>. QED BY <1>1
<1>3. CASE n = 0
  <2>1. FlattenSeq(seqs) = <<>>
    BY <1>2, <1>3 DEF FlattenSeq
  <2>2. S = {}
    BY <1>3
  <2>. QED BY <2>1, <2>2, ListsNothing
<1>4. CASE n # 0
  <2>. DEFINE f == CHOOSE h : Flattening(h, n, seqs)
              Upto(m) == UNION {E[i] : i \in 1 .. m}
              M == {m \in Nat : m \in 1 .. n => Lists(f[m], Upto(m))}
  <2>1. FlattenSeq(seqs) = f[n]
    BY <1>2, <1>4 DEF FlattenSeq, Flattening
  <2>2. Flattening(f, n, seqs)
    <3>1. \E h : Flattening(h, n, seqs)
      <4>. HIDE DEF S
      <4>. QED BY <1>1, <1>4, FlattenExists
    <3>. QED BY <3>1
  <2>. HIDE DEF f, S
  <2>3. \A i \in 1 .. n : f[i] = IF i = 1 THEN seqs[i] ELSE f[i - 1] \o seqs[i]
    BY <2>2 DEF Flattening
  <2>4. ASSUME NEW i \in 1 .. n, i - 1 \in M PROVE Lists(f[i], Upto(i))
    <3>1. CASE i = 1
      <4>1. 1 .. i = {1}
        BY <3>1
      <4>2. Upto(i) = E[1] /\ f[i] = seqs[1]
        BY <3>1, <2>3, <4>1
      <4>. QED BY <3>1, <4>2
    <3>2. CASE i # 1
      <4>1. i - 1 \in 1 .. n
        BY <3>2
      <4>2. Lists(f[i - 1], Upto(i - 1))
        BY <4>1, <2>4
      <4>3. f[i] = f[i - 1] \o seqs[i]
        BY <3>2, <2>3
      <4>4. Upto(i) = Upto(i - 1) \cup E[i]
        <5>1. 1 .. i = (1 .. i - 1) \cup {i}
          OBVIOUS
        <5>. QED BY <5>1
      <4>5. ASSUME NEW x \in Upto(i - 1), NEW y \in E[i] PROVE x.anchor # y.anchor
        <5>1. PICK j \in 1 .. i - 1 : x \in E[j]
          BY Zenon
        <5>2. j \in 1 .. n /\ j # i
          OBVIOUS
        <5>. QED BY <5>1, <5>2
      <4>. HIDE DEF Upto, M
      <4>6. Lists(seqs[i], E[i])
        OBVIOUS
      <4>7. \A x \in Upto(i - 1), y \in E[i] : x.anchor # y.anchor
        BY <4>5
      <4>. QED BY <4>2, <4>3, <4>4, <4>6, <4>7, ListsBoth
    <3>. QED BY <3>1, <3>2
  <2>5. 0 \in M
    OBVIOUS
  <2>6. ASSUME NEW m \in M PROVE m + 1 \in M
    <3>1. m \in Nat /\ (m + 1) - 1 = m /\ m + 1 \in Nat
      OBVIOUS
    <3>2. m + 1 \in 1 .. n => Lists(f[m + 1], Upto(m + 1))
      <4>. HIDE DEF Upto, M
      <4>. QED BY <2>4, <3>1
    <3>. HIDE DEF Upto
    <3>. QED BY <3>1, <3>2
  <2>7. M = Nat
    <3>1. M \in SUBSET Nat
      OBVIOUS
    <3>. HIDE DEF M
    <3>. QED BY <3>1, <2>5, <2>6, InductiveSet
  <2>8. Lists(f[n], Upto(n))
    <3>1. n \in M
      <4>. HIDE DEF M
      <4>. QED BY <2>7
    <3>2. n \in 1 .. n
      BY <1>4
    <3>. HIDE DEF Upto
    <3>. QED BY <3>1, <3>2
  <2>. QED BY <2>8, <2>1 DEF S
<1>. QED BY <1>3, <1>4

-----------------------------------------------------------------------------
(* The shape of a verified graph, and where its blocks lie.                *)

Code(g, b) == g.blocks[b].code

LEMMA GraphShape ==
  ASSUME NEW g, CfgVerified(g)
  PROVE  /\ Len(g.blocks) \in Nat \ {0} /\ DOMAIN g.blocks = 1 .. Len(g.blocks)
         /\ g.blocks = [b \in 1 .. Len(g.blocks) |-> g.blocks[b]]
<1>1. g.blocks \in Seq(ToSet(g.blocks)) /\ g.blocks # <<>>
  BY DEF CfgVerified
<1>. QED BY <1>1, LenProperties, EmptySeq

LEMMA BlockShape ==
  ASSUME NEW g, CfgVerified(g), NEW b \in DOMAIN g.blocks
  PROVE  LET blk == g.blocks[b]
         IN  /\ blk.depth \in Nat
             /\ blk.params \in Seq(g.values) /\ DOMAIN blk.params = 1 .. Len(blk.params)
             /\ Len(blk.params) \in Nat
             /\ Len(blk.code) \in Nat /\ DOMAIN blk.code = 1 .. Len(blk.code)
             /\ Len(blk.edges) \in Nat /\ DOMAIN blk.edges = 1 .. Len(blk.edges)
<1>1. BlockVerified(g, b)
  BY DEF CfgVerified
<1>. QED BY <1>1, LenProperties DEF BlockVerified

LEMMA BlocksStart ==
  ASSUME NEW g, CfgVerified(g), NEW starts, starts = BlockStarts(g.blocks)
  PROVE  /\ DOMAIN starts = DOMAIN g.blocks
         /\ \A b \in DOMAIN g.blocks : starts[b] \in Nat
         /\ \A b, c \in DOMAIN g.blocks :
              b < c => starts[b] + BlockSize(g.blocks[b]) <= starts[c]
<1>. DEFINE n == Len(g.blocks)
            size == [i \in 1 .. n |-> BlockSize(g.blocks[i])]
            P == [i \in 0 .. n |-> Nat]
            step == [xi \in Nat \X (1 .. n) |-> xi[1] + size[xi[2]]]
            Ends(h) == h = [b \in 0 .. n |-> IF b = 0 THEN 0 ELSE h[b - 1] + BlockSize(g.blocks[b])]
            end == CHOOSE h : Ends(h)
<1>1. n \in Nat \ {0} /\ DOMAIN g.blocks = 1 .. n
  BY GraphShape
<1>2. \A i \in 1 .. n : size[i] = BlockSize(g.blocks[i]) /\ size[i] \in Nat
  BY <1>1, BlockShape DEF BlockSize
<1>. HIDE DEF n, size
<1>3. \A i \in 1 .. n : i \in 0 .. n /\ i - 1 \in 0 .. n /\ i # 0
  BY <1>1
<1>4. \A i \in 1 .. n, x \in Nat : step[<<x, i>>] = x + size[i] /\ step[<<x, i>>] \in Nat
  BY <1>2
<1>5. PICK h : Recursion(h, n, 0, step)
  <2>1. \A i \in 0 .. n : P[i] = Nat
    OBVIOUS
  <2>. HIDE DEF step, P
  <2>2. \A i \in 1 .. n : \A x \in P[i - 1] : step[<<x, i>>] \in P[i]
    BY <2>1, <1>3, <1>4
  <2>3. 0 \in P[0]
    BY <2>1, <1>1
  <2>. QED BY <2>2, <2>3, <1>1, RecursionExists
<1>6. h[0] = 0 /\ \A i \in 1 .. n : h[i] = step[<<h[i - 1], i>>]
  <2>. HIDE DEF step
  <2>. QED BY <1>5, <1>3, <1>1 DEF Recursion
<1>7. \A i \in 0 .. n : h[i] \in Nat
  <2>1. \A i \in 0 .. n : P[i] = Nat
    OBVIOUS
  <2>. HIDE DEF step, P
  <2>2. h[0] \in P[0]
    BY <2>1, <1>1, <1>6
  <2>3. \A i \in 1 .. n : h[i - 1] \in P[i - 1] => h[i] \in P[i]
    BY <2>1, <1>3, <1>4, <1>6
  <2>4. \A i \in 0 .. n : h[i] \in P[i]
    BY <2>2, <2>3, <1>1, LoopStays
  <2>. QED BY <2>1, <2>4
<1>8. Ends(h)
  <2>1. \A i \in 0 .. n : h[i] = IF i = 0 THEN 0 ELSE h[i - 1] + BlockSize(g.blocks[i])
    <3>. HIDE DEF step
    <3>1. ASSUME NEW i \in 1 .. n PROVE h[i] = h[i - 1] + BlockSize(g.blocks[i])
      <4>1. h[i - 1] \in Nat
        BY <1>3, <1>7
      <4>2. step[<<h[i - 1], i>>] = h[i - 1] + size[i]
        BY <4>1, <1>4
      <4>. QED BY <4>2, <1>2, <1>6
    <3>. QED BY <3>1, <1>1, <1>6
  <2>2. h = [i \in 0 .. n |-> h[i]]
    BY <1>5 DEF Recursion
  <2>. HIDE DEF step
  <2>. QED BY <2>1, <2>2
<1>9. Ends(end)
  <2>. HIDE DEF Ends
  <2>. QED BY <1>8
<1>10. starts = [b \in DOMAIN g.blocks |-> end[b - 1]]
  BY DEF BlockStarts, n
<1>. HIDE DEF end
<1>11. end[0] = 0 /\ \A i \in 1 .. n : end[i] = end[i - 1] + BlockSize(g.blocks[i])
  <2>1. 0 \in 0 .. n
    BY <1>1
  <2>. QED BY <1>9, <1>3, <2>1
<1>. HIDE DEF Ends
<1>12. \A i \in 0 .. n : end[i] \in Nat
  <2>1. \A i \in 0 .. n : P[i] = Nat
    OBVIOUS
  <2>. HIDE DEF P
  <2>2. end[0] \in P[0]
    BY <2>1, <1>1, <1>11
  <2>3. \A i \in 1 .. n : end[i - 1] \in P[i - 1] => end[i] \in P[i]
    BY <2>1, <1>2, <1>3, <1>11
  <2>4. \A i \in 0 .. n : end[i] \in P[i]
    BY <2>2, <2>3, <1>1, LoopStays
  <2>. QED BY <2>1, <2>4
<1>13. ASSUME NEW b \in 1 .. n PROVE \A c \in 1 .. n : b <= c => end[b] <= end[c]
  <2>. DEFINE Q == [c \in 0 .. n |-> b <= c => end[b] <= end[c]]
  <2>1. \A c \in 0 .. n : Q[c] <=> (b <= c => end[b] <= end[c])
    OBVIOUS
  <2>. HIDE DEF Q
  <2>2. Q[0]
    BY <2>1, <1>1
  <2>3. ASSUME NEW c \in 1 .. n, Q[c - 1] PROVE Q[c]
    <3>1. c - 1 \in 0 .. n /\ end[c] = end[c - 1] + size[c] /\ end[c - 1] \in Nat /\ size[c] \in Nat
          /\ c \in 0 .. n
      BY <1>2, <1>3, <1>11, <1>12
    <3>2. b <= c - 1 => end[b] <= end[c - 1]
      BY <2>1, <2>3, <3>1
    <3>3. end[b] \in Nat
      BY <1>12, <1>3
    <3>4. b <= c => end[b] <= end[c]
      <4>1. CASE b = c
        BY <4>1, <3>3
      <4>2. CASE b # c
        BY <4>2, <3>1, <3>2, <3>3
      <4>. QED BY <4>1, <4>2
    <3>. QED BY <3>1, <3>4, <2>1
  <2>4. \A c \in 0 .. n : Q[c]
    BY <2>2, <2>3, <1>1, UpTo
  <2>. QED BY <2>1, <2>4, <1>3
<1>14. ASSUME NEW b \in 1 .. n, NEW c \in 1 .. n, b < c
       PROVE  starts[b] + BlockSize(g.blocks[b]) <= starts[c]
  <2>1. c - 1 \in 1 .. n /\ b <= c - 1
    BY <1>1, <1>14
  <2>2. end[b] <= end[c - 1]
    BY <2>1, <1>13
  <2>3. starts[b] = end[b - 1] /\ starts[c] = end[c - 1]
    BY <1>1, <1>10
  <2>. QED BY <2>2, <2>3, <1>11
<1>. QED BY <1>1, <1>3, <1>10, <1>12, <1>14

-----------------------------------------------------------------------------
(* Definitions, and the value that supplied the bits of each.              *)

BlockDefinitions(g, b) == ParameterDefinitions(g, b) \cup ResultDefinitions(g, b)
IsForwarding(g, d) == d.at # 0 /\ Forwards(Code(g, d.block)[d.at])

LEMMA DefinitionShape ==
  ASSUME NEW g, CfgVerified(g), NEW b \in DOMAIN g.blocks, NEW d \in BlockDefinitions(g, b)
  PROVE  /\ d.kind = "result" /\ d.block = b /\ d.at \in 0 .. Len(Code(g, b))
         /\ d.at = 0 => /\ d.index \in DOMAIN g.blocks[b].params
                        /\ d = Anchor("result", b, 0, d.index)
                        /\ DefinedBy(g, d) = g.blocks[b].params[d.index]
         /\ d.at # 0 => /\ d.at \in DOMAIN Code(g, b) /\ d = Anchor("result", b, d.at, 0)
                        /\ Code(g, b)[d.at].result # NoValue
                        /\ DefinedBy(g, d) = Code(g, b)[d.at].result
         /\ DefinedBy(g, d) \in g.values
<1>1. Len(Code(g, b)) \in Nat /\ DOMAIN Code(g, b) = 1 .. Len(Code(g, b))
      /\ \A k \in DOMAIN g.blocks[b].params : g.blocks[b].params[k] \in g.values
  BY BlockShape DEF Code
<1>2. \A i \in DOMAIN Code(g, b) : Code(g, b)[i].result \in g.values \cup {NoValue}
  BY DEF CfgVerified, BlockVerified, InstructionVerified, Code
<1>3. CASE d \in ParameterDefinitions(g, b)
  <2>1. PICK k \in DOMAIN g.blocks[b].params : d = Anchor("result", b, 0, k)
    BY <1>3 DEF ParameterDefinitions
  <2>. QED BY <2>1, <1>1 DEF Anchor, DefinedBy
<1>4. CASE d \in ResultDefinitions(g, b)
  <2>1. PICK i \in DOMAIN Code(g, b) :
          Code(g, b)[i].result # NoValue /\ d = Anchor("result", b, i, 0)
    BY <1>4 DEF ResultDefinitions, Code
  <2>. QED BY <2>1, <1>1, <1>2 DEF Anchor, DefinedBy, Code
<1>. QED BY <1>3, <1>4 DEF BlockDefinitions

LEMMA DefinitionsDiffer ==
  ASSUME NEW g, CfgVerified(g), NEW b \in DOMAIN g.blocks, NEW c \in DOMAIN g.blocks,
         NEW d \in BlockDefinitions(g, b), NEW e \in BlockDefinitions(g, c),
         DefinedBy(g, d) = DefinedBy(g, e)
  PROVE  d = e
BY DEF CfgVerified, Definitions, BlockDefinitions

LEMMA ScopeShape ==
  ASSUME NEW g, NEW b, NEW i, NEW v \in InScope(g, b, i)
  PROVE  \E d \in BlockDefinitions(g, b) : d.at < i /\ v = DefinedBy(g, d)
BY DEF InScope, BlockDefinitions

\* A guard and its operand.
LEMMA ForwardingShape ==
  ASSUME NEW g, CfgVerified(g), NEW b \in DOMAIN g.blocks, NEW i \in DOMAIN Code(g, b),
         Forwards(Code(g, b)[i])
  PROVE  /\ Anchor("result", b, i, 0) \in BlockDefinitions(g, b)
         /\ Code(g, b)[i].result # NoValue /\ Code(g, b)[i].result \in g.values
         /\ Len(Code(g, b)[i].args) \in Nat /\ 1 \in DOMAIN Code(g, b)[i].args
         /\ Code(g, b)[i].args[1] \in InScope(g, b, i)
<1>1. InstructionVerified(g, b, i)
  BY DEF CfgVerified, BlockVerified, Code
<1>2. /\ Code(g, b)[i].result # NoValue /\ Code(g, b)[i].result \in g.values
      /\ Len(Code(g, b)[i].args) >= 1 /\ Code(g, b)[i].args \in Seq(InScope(g, b, i))
  BY <1>1 DEF InstructionVerified, OperandsFit, Code
<1>3. Anchor("result", b, i, 0) \in BlockDefinitions(g, b)
  BY <1>2 DEF BlockDefinitions, ResultDefinitions, Code
<1>. QED BY <1>2, <1>3, LenProperties

OriginTurn(origin, instr) ==
  IF Forwards(instr) THEN [origin EXCEPT ![instr.result] = origin[instr.args[1]]] ELSE origin

LEMMA OriginsLoop ==
  ASSUME NEW g, CfgVerified(g), NEW b \in DOMAIN g.blocks
  PROVE  \E f : /\ f[0] = [v \in g.values |-> v]
                /\ \A i \in 1 .. Len(Code(g, b)) : f[i] = OriginTurn(f[i - 1], Code(g, b)[i])
                /\ \A i \in 0 .. Len(Code(g, b)) : f[i] \in [g.values -> g.values]
                /\ Origins(g.values, Code(g, b)) = f[Len(Code(g, b))]
<1>. DEFINE n == Len(Code(g, b))
            code == Code(g, b)
            V == [g.values -> g.values]
            P == [i \in 0 .. n |-> V]
            id == [v \in g.values |-> v]
            step == [xi \in V \X (1 .. n) |-> OriginTurn(xi[1], code[xi[2]])]
            Org(h) == h = [i \in 0 .. n |-> IF i = 0 THEN id
                             ELSE IF Forwards(code[i])
                               THEN [h[i - 1] EXCEPT ![code[i].result] = h[i - 1][code[i].args[1]]]
                               ELSE h[i - 1]]
            f == CHOOSE h : Org(h)
<1>1. n \in Nat /\ DOMAIN code = 1 .. n
  BY BlockShape DEF Code
<1>2. ASSUME NEW i \in 1 .. n, Forwards(code[i])
      PROVE  code[i].args[1] \in g.values
  <2>1. PICK d \in BlockDefinitions(g, b) : code[i].args[1] = DefinedBy(g, d)
    BY <1>1, <1>2, ForwardingShape, ScopeShape
  <2>. QED BY <2>1, DefinitionShape
<1>3. ASSUME NEW i \in 1 .. n, NEW x \in V PROVE OriginTurn(x, code[i]) \in V
  BY <1>2 DEF OriginTurn
<1>4. \A i \in 1 .. n : i \in 0 .. n /\ i - 1 \in 0 .. n /\ i # 0
  BY <1>1
<1>5. id \in V
  OBVIOUS
<1>. HIDE DEF V, id, n, code
<1>6. \A i \in 1 .. n, x \in V : step[<<x, i>>] = OriginTurn(x, code[i]) /\ step[<<x, i>>] \in V
  BY <1>3
<1>7. PICK h : Recursion(h, n, id, step)
  <2>1. \A i \in 0 .. n : P[i] = V
    OBVIOUS
  <2>. HIDE DEF step, P
  <2>2. \A i \in 1 .. n : \A x \in P[i - 1] : step[<<x, i>>] \in P[i]
    BY <2>1, <1>4, <1>6
  <2>3. id \in P[0]
    BY <2>1, <1>1, <1>5
  <2>. QED BY <2>2, <2>3, <1>1, RecursionExists
<1>. HIDE DEF step
<1>8. h[0] = id /\ \A i \in 1 .. n : h[i] = step[<<h[i - 1], i>>]
  BY <1>7, <1>4, <1>1 DEF Recursion
<1>9. \A i \in 0 .. n : h[i] \in V
  <2>1. \A i \in 0 .. n : P[i] = V
    OBVIOUS
  <2>. HIDE DEF P
  <2>2. h[0] \in P[0]
    BY <2>1, <1>1, <1>8, <1>5
  <2>3. \A i \in 1 .. n : h[i - 1] \in P[i - 1] => h[i] \in P[i]
    BY <2>1, <1>4, <1>6, <1>8
  <2>4. \A i \in 0 .. n : h[i] \in P[i]
    BY <2>2, <2>3, <1>1, LoopStays
  <2>. QED BY <2>1, <2>4
<1>10. \A i \in 1 .. n : h[i] = OriginTurn(h[i - 1], code[i])
  <2>. TAKE i \in 1 .. n
  <2>1. h[i - 1] \in V
    BY <1>4, <1>9
  <2>. QED BY <2>1, <1>6, <1>8
<1>11. Org(h)
  <2>1. \A i \in 0 .. n : h[i] = IF i = 0 THEN id
                             ELSE IF Forwards(code[i])
                               THEN [h[i - 1] EXCEPT ![code[i].result] = h[i - 1][code[i].args[1]]]
                               ELSE h[i - 1]
    <3>1. \A i \in 0 .. n : i # 0 => i \in 1 .. n
      BY <1>1
    <3>. QED BY <3>1, <1>8, <1>10 DEF OriginTurn
  <2>2. h = [i \in 0 .. n |-> h[i]]
    BY <1>7 DEF Recursion
  <2>. QED BY <2>1, <2>2
<1>12. Org(f)
  <2>. HIDE DEF Org
  <2>. QED BY <1>11
<1>13. Origins(g.values, code) = f[n]
  BY DEF Origins, id, n, code
<1>. HIDE DEF f
<1>14. f[0] = id /\ \A i \in 1 .. n : f[i] = OriginTurn(f[i - 1], code[i])
  <2>1. 0 \in 0 .. n
    BY <1>1
  <2>. QED BY <1>12, <2>1, <1>4 DEF OriginTurn
<1>. HIDE DEF Org
<1>15. \A i \in 0 .. n : f[i] \in V
  <2>1. \A i \in 0 .. n : P[i] = V
    OBVIOUS
  <2>. HIDE DEF P
  <2>2. f[0] \in P[0]
    BY <2>1, <1>1, <1>14, <1>5
  <2>3. \A i \in 1 .. n : f[i - 1] \in P[i - 1] => f[i] \in P[i]
    BY <2>1, <1>3, <1>4, <1>14
  <2>4. \A i \in 0 .. n : f[i] \in P[i]
    BY <2>2, <2>3, <1>1, LoopStays
  <2>. QED BY <2>1, <2>4
<1>. QED BY <1>13, <1>14, <1>15 DEF n, code, V, id

\* In the end a guard's result has the origin of the guard's operand, and
\* every other value is its own origin.
LEMMA OriginsSettled ==
  ASSUME NEW g, CfgVerified(g), NEW b \in DOMAIN g.blocks, NEW O,
         O = Origins(g.values, Code(g, b)), NEW d \in BlockDefinitions(g, b)
  PROVE  O[DefinedBy(g, d)] =
           IF IsForwarding(g, d) THEN O[Code(g, b)[d.at].args[1]] ELSE DefinedBy(g, d)
<1>. DEFINE n == Len(Code(g, b))
            code == Code(g, b)
<1>1. PICK f : /\ f[0] = [v \in g.values |-> v]
               /\ \A i \in 1 .. n : f[i] = OriginTurn(f[i - 1], code[i])
               /\ \A i \in 0 .. n : f[i] \in [g.values -> g.values]
               /\ O = f[n]
  BY OriginsLoop
<1>2. n \in Nat /\ DOMAIN code = 1 .. n
  BY BlockShape DEF Code
<1>. HIDE DEF n, code
<1>3. ASSUME NEW e \in BlockDefinitions(g, b), NEW i \in 1 .. n, i = e.at => ~IsForwarding(g, e)
      PROVE  f[i][DefinedBy(g, e)] = f[i - 1][DefinedBy(g, e)]
  <2>1. CASE ~Forwards(code[i])
    BY <2>1, <1>1 DEF OriginTurn
  <2>2. CASE Forwards(code[i])
    <3>. DEFINE r == Anchor("result", b, i, 0)
    <3>1. r \in BlockDefinitions(g, b) /\ DefinedBy(g, r) = code[i].result
      BY <2>2, <1>2, ForwardingShape DEF code, DefinedBy, Anchor, Code
    <3>2. e # r
      <4>1. i # 0 /\ e.block = b
        BY DefinitionShape
      <4>. QED BY <4>1, <1>3, <2>2 DEF IsForwarding, Anchor, code
    <3>3. DefinedBy(g, e) # code[i].result
      BY <3>1, <3>2, DefinitionsDiffer
    <3>4. f[i - 1] \in [g.values -> g.values] /\ DefinedBy(g, e) \in g.values
      BY <1>1, <1>2, DefinitionShape
    <3>. HIDE DEF r
    <3>. QED BY <3>3, <3>4, <2>2, <1>1 DEF OriginTurn
  <2>. QED BY <2>1, <2>2
\* What is defined before an instruction is not changed by it or later.
<1>4. ASSUME NEW e \in BlockDefinitions(g, b), NEW i \in 0 .. n, e.at <= i
      PROVE  O[DefinedBy(g, e)] = f[i][DefinedBy(g, e)]
  <2>. DEFINE v == DefinedBy(g, e)
              P == [j \in 0 .. n |-> i <= j => f[j][v] = f[i][v]]
  <2>0. \A j \in 0 .. n : P[j] <=> (i <= j => f[j][v] = f[i][v])
    OBVIOUS
  <2>. HIDE DEF P
  <2>1. P[0]
    BY <2>0, <1>2
  <2>2. ASSUME NEW j \in 1 .. n, P[j - 1] PROVE P[j]
    <3>1. j \in 0 .. n /\ j - 1 \in 0 .. n /\ e.at \in Nat
      BY <1>2, DefinitionShape
    <3>2. CASE i <= j - 1
      <4>1. f[j - 1][v] = f[i][v]
        BY <2>0, <2>2, <3>1, <3>2
      <4>2. j # e.at
        BY <3>1, <3>2, <1>4
      <4>. QED BY <4>1, <4>2, <1>3, <2>0, <3>1
    <3>3. CASE ~(i <= j - 1)
      <4>1. i <= j => j = i
        BY <3>3
      <4>. QED BY <4>1, <2>0, <3>1
    <3>. QED BY <3>2, <3>3
  <2>3. \A j \in 0 .. n : P[j]
    BY <2>1, <2>2, <1>2, UpTo
  <2>4. n \in 0 .. n /\ i <= n
    BY <1>2
  <2>. QED BY <2>0, <2>3, <2>4, <1>1
<1>5. d.at \in 0 .. n /\ d.block = b /\ DefinedBy(g, d) \in g.values
  BY DefinitionShape DEF n
<1>6. CASE ~IsForwarding(g, d)
  <2>. DEFINE v == DefinedBy(g, d)
              P == [j \in 0 .. n |-> f[j][v] = v]
  <2>0. \A j \in 0 .. n : P[j] <=> f[j][v] = v
    OBVIOUS
  <2>. HIDE DEF P
  <2>1. P[0]
    BY <2>0, <1>1, <1>2, <1>5
  <2>2. \A j \in 1 .. n : P[j - 1] => P[j]
    <3>. TAKE j \in 1 .. n
    <3>1. j \in 0 .. n /\ j - 1 \in 0 .. n
      BY <1>2
    <3>. QED BY <3>1, <2>0, <1>3, <1>6
  <2>3. \A j \in 0 .. n : P[j]
    BY <2>1, <2>2, <1>2, UpTo
  <2>4. n \in 0 .. n
    BY <1>2
  <2>. QED BY <2>0, <2>3, <2>4, <1>1, <1>6
<1>7. CASE IsForwarding(g, d)
  <2>. DEFINE i == d.at
              a == code[i].args[1]
  <2>1. i \in 1 .. n /\ Forwards(code[i])
    BY <1>5, <1>7 DEF IsForwarding, code
  <2>2. d = Anchor("result", b, i, 0) /\ DefinedBy(g, d) = code[i].result
    BY <2>1, DefinitionShape DEF code
  <2>3. a \in InScope(g, b, i)
    BY <2>1, <1>2, ForwardingShape DEF code
  <2>4. PICK e \in BlockDefinitions(g, b) : e.at < i /\ a = DefinedBy(g, e)
    BY <2>3, ScopeShape
  <2>5. i - 1 \in 0 .. n /\ i \in 0 .. n /\ e.at <= i - 1 /\ e.at \in Nat
    BY <2>1, <2>4, <1>2, DefinitionShape
  <2>6. O[a] = f[i - 1][a]
    BY <2>4, <2>5, <1>4
  <2>7. O[DefinedBy(g, d)] = f[i][DefinedBy(g, d)]
    BY <2>5, <1>4
  <2>8. f[i - 1] \in [g.values -> g.values]
    BY <2>5, <1>1
  <2>9. f[i][code[i].result] = f[i - 1][a]
    <3>1. f[i] = OriginTurn(f[i - 1], code[i])
      BY <2>1, <1>1
    <3>2. code[i].result \in DOMAIN f[i - 1]
      BY <2>2, <2>8, <1>5
    <3>. HIDE DEF i, a
    <3>3. f[i] = [f[i - 1] EXCEPT ![code[i].result] = f[i - 1][code[i].args[1]]]
      BY <3>1, <2>1 DEF OriginTurn
    <3>. QED BY <3>2, <3>3 DEF a
  <2>. QED BY <2>2, <2>6, <2>7, <2>9, <1>7 DEF code
<1>. QED BY <1>6, <1>7 DEF code

\* The origin of what is defined in a block was defined there, no later, by
\* something that is not a guard.
LEMMA Rooted ==
  ASSUME NEW g, CfgVerified(g), NEW b \in DOMAIN g.blocks, NEW O,
         O = Origins(g.values, Code(g, b)), NEW d \in BlockDefinitions(g, b)
  PROVE  \E e \in BlockDefinitions(g, b) :
           e.at <= d.at /\ ~IsForwarding(g, e) /\ O[DefinedBy(g, d)] = DefinedBy(g, e)
<1>. DEFINE n == Len(Code(g, b))
            Root(x, e) == e.at <= x.at /\ ~IsForwarding(g, e) /\ O[DefinedBy(g, x)] = DefinedBy(g, e)
            P == [j \in 0 .. n |-> \A x \in BlockDefinitions(g, b) :
                                     x.at <= j => \E e \in BlockDefinitions(g, b) : Root(x, e)]
<1>1. n \in Nat
  BY BlockShape DEF Code
<1>2. \A x \in BlockDefinitions(g, b) : x.at \in 0 .. n
  BY DefinitionShape
<1>. HIDE DEF n
<1>3. \A j \in 0 .. n : P[j] <=> \A x \in BlockDefinitions(g, b) :
                                   x.at <= j => \E e \in BlockDefinitions(g, b) : Root(x, e)
  OBVIOUS
<1>. HIDE DEF P
<1>4. ASSUME NEW x \in BlockDefinitions(g, b), ~IsForwarding(g, x) PROVE Root(x, x)
  BY <1>2, <1>4, OriginsSettled
<1>5. P[0]
  <2>1. 0 \in 0 .. n
    BY <1>1
  <2>2. ASSUME NEW x \in BlockDefinitions(g, b), x.at <= 0 PROVE Root(x, x)
    <3>1. x.at = 0
      BY <1>2, <2>2
    <3>. QED BY <3>1, <1>4 DEF IsForwarding
  <2>. HIDE DEF Root
  <2>. QED BY <2>1, <2>2, <1>3
<1>6. ASSUME NEW j \in 1 .. n, P[j - 1] PROVE P[j]
  <2>1. j \in 0 .. n /\ j - 1 \in 0 .. n
    BY <1>1
  <2>2. ASSUME NEW x \in BlockDefinitions(g, b), x.at <= j
        PROVE  \E e \in BlockDefinitions(g, b) : Root(x, e)
    <3>1. CASE ~IsForwarding(g, x)
      <4>. HIDE DEF Root
      <4>. QED BY <3>1, <1>4
    <3>2. CASE IsForwarding(g, x)
      <4>. DEFINE i == x.at
                  a == Code(g, b)[i].args[1]
      <4>1. i \in DOMAIN Code(g, b) /\ Forwards(Code(g, b)[i]) /\ i \in 1 .. n
        BY <3>2, <1>2, DefinitionShape DEF IsForwarding
      <4>2. PICK y \in BlockDefinitions(g, b) : y.at < i /\ a = DefinedBy(g, y)
        BY <4>1, ForwardingShape, ScopeShape
      <4>3. y.at \in 0 .. n /\ y.at <= j - 1
        BY <4>1, <4>2, <1>2, <2>2
      <4>4. PICK e \in BlockDefinitions(g, b) : Root(y, e)
        <5>. HIDE DEF Root
        <5>. QED BY <4>3, <2>1, <1>3, <1>6
      <4>5. O[DefinedBy(g, x)] = O[a]
        BY <3>2, OriginsSettled
      <4>6. e.at \in 0 .. n
        BY <1>2
      <4>7. Root(x, e)
        BY <4>1, <4>2, <4>3, <4>4, <4>5, <4>6
      <4>. HIDE DEF Root
      <4>. QED BY <4>7
    <3>. QED BY <3>1, <3>2
  <2>. HIDE DEF Root
  <2>. QED BY <2>1, <2>2, <1>3
<1>7. \A j \in 0 .. n : P[j]
  BY <1>1, <1>5, <1>6, UpTo
<1>8. \E e \in BlockDefinitions(g, b) : Root(d, e)
  <2>1. d.at \in 0 .. n /\ d.at <= d.at
    BY <1>2
  <2>. HIDE DEF Root
  <2>. QED BY <2>1, <1>7, <1>3
<1>. QED BY <1>8

-----------------------------------------------------------------------------
(* The inputs of an instruction, and single occurrences.                   *)

Timings == {"early", "late"}
RequirementOK(req) ==
  /\ req.kind \in {"any", "register", "fixed", "copy"}
  /\ req.kind = "fixed" => req.at.kind \in {"reg", "stack"}

AccessesOK(s, values) ==
  /\ DOMAIN s = 1 .. Len(values)
  /\ \A k \in 1 .. Len(values) : /\ s[k].value = values[k] /\ s[k].timing \in Timings
                                 /\ RequirementOK(s[k].req)

LEMMA OwnInputsShape ==
  ASSUME NEW instr, NEW S, instr.args \in Seq(S)
  PROVE  AccessesOK(OwnInputs(instr), instr.args)
<1>. DEFINE n == Len(instr.args)
<1>1. n \in Nat /\ DOMAIN instr.args = 1 .. n
  BY LenProperties
<1>. HIDE DEF n
<1>2. \A k \in 1 .. n : RequirementOK(FixedOperandCopy(ArgumentRegisters[k])) /\ RequirementOK(AnyRegister)
  BY DEF RequirementOK, FixedOperandCopy, AnyRegister
<1>3. \A k \in 1 .. n : RequirementOK(ReturnRequirement(k))
  <2>. TAKE k \in 1 .. n
  <2>1. k = 1 \/ k = 2 \/ k > 2
    BY <1>1
  <2>. QED BY <1>1, <2>1 DEF RequirementOK, ReturnRequirement, Fixed, AnyLocation, Reg
<1>4. CASE instr.op = "call"
  BY <1>1, <1>2, <1>4 DEF OwnInputs, Accesses, AccessesOK, Timings, n
<1>5. CASE instr.op = "return"
  BY <1>1, <1>3, <1>5 DEF OwnInputs, Accesses, AccessesOK, Timings, n
<1>6. CASE instr.op = "mul"
  BY <1>1, <1>2, <1>6 DEF OwnInputs, Accesses, AccessesOK, Timings, n
<1>7. CASE instr.op \notin {"call", "return", "mul"}
  BY <1>1, <1>2, <1>7 DEF OwnInputs, Accesses, AccessesOK, Timings, n
<1>. QED BY <1>4, <1>5, <1>6, <1>7

LEMMA InputsShape ==
  ASSUME NEW g, CfgVerified(g), NEW b \in DOMAIN g.blocks, NEW i \in DOMAIN Code(g, b),
         NEW in, in = Inputs(Code(g, b)[i])
  PROVE  /\ Len(in) \in Nat /\ DOMAIN in = 1 .. Len(in) /\ in = [k \in 1 .. Len(in) |-> in[k]]
         /\ \A k \in 1 .. Len(in) : /\ in[k].value \in InScope(g, b, i) /\ in[k].timing \in Timings
                                    /\ RequirementOK(in[k].req)
         /\ Forwards(Code(g, b)[i]) =>
              /\ 1 \in 1 .. Len(in) /\ in[1].value = Code(g, b)[i].args[1]
              /\ in[1].timing = "early" /\ in[1].req = AnyRegister
<1>. DEFINE instr == Code(g, b)[i]
            own == OwnInputs(instr)
            side == SideExitInputs(instr)
            A == {own[k] : k \in DOMAIN own} \cup {side[k] : k \in DOMAIN side}
            m == Len(instr.args)
            n == Len(instr.exits)
<1>1. instr.args \in Seq(InScope(g, b, i)) /\ instr.exits \in Seq(InScope(g, b, i))
  BY DEF CfgVerified, BlockVerified, InstructionVerified, Code
<1>2. /\ m \in Nat /\ n \in Nat /\ DOMAIN instr.args = 1 .. m /\ DOMAIN instr.exits = 1 .. n
      /\ \A k \in 1 .. m : instr.args[k] \in InScope(g, b, i)
      /\ \A k \in 1 .. n : instr.exits[k] \in InScope(g, b, i)
  BY <1>1, LenProperties
<1>3. AccessesOK(own, instr.args)
  BY <1>1, OwnInputsShape
<1>4. own = [k \in 1 .. m |-> own[k]]
  <2>1. DOMAIN own = 1 .. m
    BY <1>3 DEF AccessesOK
  <2>. QED BY <2>1, <1>1 DEF OwnInputs, Accesses
<1>5. AccessesOK(side, instr.exits) /\ side = [k \in 1 .. n |-> side[k]]
  BY <1>2 DEF SideExitInputs, Accesses, AccessesOK, AnyLocation, RequirementOK, Timings
<1>6. own \in Seq(A) /\ Len(own) = m /\ side \in Seq(A) /\ Len(side) = n
  <2>1. DOMAIN own = 1 .. m /\ DOMAIN side = 1 .. n
    BY <1>3, <1>5 DEF AccessesOK
  <2>2. own \in [1 .. m -> A] /\ side \in [1 .. n -> A]
    <3>. HIDE DEF own, side, m, n
    <3>. QED BY <2>1, <1>4, <1>5
  <2>. HIDE DEF own, side, m, n, A
  <2>. QED BY <2>2, <1>2
<1>7. in = own \o side
  BY DEF Inputs
<1>8. Forwards(instr) => 1 \in 1 .. m /\ own[1].timing = "early" /\ own[1].req = AnyRegister
  <2>. SUFFICES ASSUME Forwards(instr) PROVE 1 \in 1 .. m /\ own[1].timing = "early" /\ own[1].req = AnyRegister
    OBVIOUS
  <2>1. 1 \in DOMAIN instr.args
    BY ForwardingShape
  <2>2. instr.op = "guard"
    BY DEF Forwards
  <2>. QED BY <2>1, <2>2, <1>2 DEF OwnInputs, Accesses
<1>. HIDE DEF own, side, A, m, n
<1>9. /\ in \in Seq(A) /\ Len(in) = m + n
      /\ \A k \in 1 .. m + n : in[k] = IF k <= m THEN own[k] ELSE side[k - m]
  <2>1. /\ own \o side \in Seq(A) /\ Len(own \o side) = Len(own) + Len(side)
        /\ \A k \in 1 .. Len(own) + Len(side) :
             (own \o side)[k] = IF k <= Len(own) THEN own[k] ELSE side[k - Len(own)]
    BY <1>6, ConcatProperties
  <2>. QED BY <2>1, <1>6, <1>7, Zenon
<1>10. DOMAIN in = 1 .. m + n /\ in = [k \in 1 .. m + n |-> in[k]]
  BY <1>9, LenProperties
<1>11. ASSUME NEW k \in 1 .. m + n
       PROVE  /\ in[k].value \in InScope(g, b, i) /\ in[k].timing \in Timings
              /\ RequirementOK(in[k].req)
  <2>1. CASE k <= m
    BY <2>1, <1>2, <1>3, <1>9 DEF AccessesOK
  <2>2. CASE ~(k <= m)
    <3>1. k - m \in 1 .. n /\ in[k] = side[k - m]
      BY <2>2, <1>2, <1>9
    <3>. QED BY <3>1, <1>2, <1>5 DEF AccessesOK
  <2>. QED BY <2>1, <2>2
<1>12. Forwards(instr) => /\ 1 \in 1 .. m + n /\ in[1].value = instr.args[1]
                          /\ in[1].timing = "early" /\ in[1].req = AnyRegister
  <2>1. ASSUME 1 \in 1 .. m PROVE 1 \in 1 .. m + n /\ in[1] = own[1] /\ own[1].value = instr.args[1]
    BY <2>1, <1>2, <1>3, <1>9 DEF AccessesOK
  <2>. QED BY <2>1, <1>8
<1>13. m + n \in Nat
  BY <1>2
<1>. QED BY <1>9, <1>10, <1>11, <1>12, <1>13 DEF m, n

Fields ==
  {"range", "pos", "from", "to", "key", "kind", "anchor", "required", "fixed", "copy"}

LEMMA OccurrenceShape ==
  ASSUME NEW pos, NEW cover, NEW key, NEW kind, NEW anchor, NEW req, RequirementOK(req),
         NEW x, x = Occurrence(pos, cover, key, kind, anchor, req)
  PROVE  /\ DOMAIN x = Fields
         /\ x.pos = pos /\ x.from = cover.from /\ x.to = cover.to /\ x.key = key
         /\ x.kind = kind /\ x.anchor = anchor
         /\ x.fixed.kind \in {"none", "reg", "stack"}
         /\ x.fixed.kind = "none" <=> x.fixed = Nowhere
         /\ x.fixed.kind = "stack" => ~x.required
         /\ x.copy # NoRegister => x.fixed = Nowhere
         /\ req = AnyRegister => x.required /\ x.fixed = Nowhere
<1>1. Nowhere.kind = "none"
  BY DEF Nowhere
<1>2. DOMAIN x = Fields
  BY DEF Occurrence, Fields
<1>3. /\ x.pos = pos /\ x.from = cover.from /\ x.to = cover.to /\ x.key = key
      /\ x.kind = kind /\ x.anchor = anchor
      /\ x.fixed = IF req.kind = "fixed" THEN req.at ELSE Nowhere
      /\ x.copy = IF req.kind = "copy" THEN req.at.n ELSE NoRegister
      /\ x.required = RequiresRegister(req)
  BY DEF Occurrence
<1>4. x.fixed.kind = "stack" => ~x.required
  <2>1. x.fixed.kind = "stack" => req.kind = "fixed" /\ req.at.kind = "stack"
    BY <1>1, <1>3
  <2>2. req.kind = "fixed" /\ req.at.kind = "stack" => ~RequiresRegister(req)
    BY DEF RequiresRegister
  <2>. QED BY <2>1, <2>2, <1>3
<1>5. req = AnyRegister => x.required /\ x.fixed = Nowhere
  <2>1. req = AnyRegister => req.kind = "register"
    BY DEF AnyRegister
  <2>2. req.kind = "register" => RequiresRegister(req)
    BY DEF RequiresRegister
  <2>. QED BY <2>1, <2>2, <1>3
<1>6. /\ x.fixed.kind \in {"none", "reg", "stack"}
      /\ x.fixed.kind = "none" <=> x.fixed = Nowhere
      /\ x.copy # NoRegister => x.fixed = Nowhere
  BY <1>1, <1>3 DEF RequirementOK
<1>. QED BY <1>2, <1>3, <1>4, <1>5, <1>6

-----------------------------------------------------------------------------
(* The occurrences of a block, each kind with what is known of it.  O is   *)
(* the origin of the block's values, start the block's first position.     *)

OccurrenceOK(x) ==
  /\ DOMAIN x = Fields
  /\ x.fixed.kind \in {"none", "reg", "stack"} /\ (x.fixed.kind = "none" <=> x.fixed = Nowhere)
  /\ x.fixed.kind = "stack" => ~x.required
  /\ x.copy # NoRegister => x.fixed = Nowhere

IsParameter(g, O, b, start, k, x) ==
  /\ x.anchor = Anchor("result", b, 0, k) /\ x.kind = "def"
  /\ x.pos = start + 1 /\ x.from = start + 1 /\ x.to = start + 2
  /\ x.key = <<"value", O[g.blocks[b].params[k]]>>

IsUse(g, O, b, start, i, k, x) ==
  LET input == Inputs(Code(g, b)[i])[k]
  IN  /\ x.anchor = Anchor("operand", b, i, k) /\ x.kind = "use"
      /\ x.from = start + 2 * i
      /\ \/ input.timing = "early" /\ x.pos = start + 2 * i /\ x.to = start + 2 * i + 1
         \/ input.timing = "late" /\ x.pos = start + 2 * i + 1 /\ x.to = start + 2 * i + 2
      /\ x.key = <<"value", O[input.value]>>
      /\ input.req = AnyRegister => x.required

IsResult(g, O, b, start, i, x) ==
  /\ Code(g, b)[i].result # NoValue
  /\ x.anchor = Anchor("result", b, i, 0)
  /\ x.kind = IF Forwards(Code(g, b)[i]) THEN "forwarding" ELSE "def"
  /\ x.pos = start + 2 * i + 1 /\ x.from = start + 2 * i + 1 /\ x.to = start + 2 * i + 2
  /\ x.key = <<"value", O[Code(g, b)[i].result]>>
  /\ Forwards(Code(g, b)[i]) => x.fixed = Nowhere

IsTemporary(b, start, i, x) ==
  /\ x.anchor = Anchor("temporary", b, i, 0) /\ x.kind = "temporary"
  /\ x.pos = start + 2 * i /\ x.from = start + 2 * i /\ x.to = start + 2 * i + 2
  /\ x.key = <<"temporary", b, i>>

IsEdge(g, O, b, start, e, k, x) ==
  /\ x.anchor = Anchor("edge", b, e, k) /\ x.kind = "use"
  /\ x.pos = ExitOf(start, g.blocks[b]) /\ x.from = x.pos /\ x.to = x.pos + 1
  /\ x.key = <<"value", O[g.blocks[b].edges[e].args[k]]>>

LEMMA AnchorFields ==
  ASSUME NEW kind, NEW b, NEW i, NEW k
  PROVE  /\ Anchor(kind, b, i, k).kind = kind /\ Anchor(kind, b, i, k).block = b
         /\ Anchor(kind, b, i, k).at = i /\ Anchor(kind, b, i, k).index = k
BY DEF Anchor

LEMMA ParameterScanned ==
  ASSUME NEW g, NEW O, NEW b, NEW start \in Nat, NEW k \in DOMAIN g.blocks[b].params,
         NEW x, x = ParameterOccurrences(g, O, b, start)[k],
         b = 1 => k \in Nat /\ g.nParameters \in Nat
  PROVE  OccurrenceOK(x) /\ IsParameter(g, O, b, start, k, x)
<1>. DEFINE req == ParameterRequirement(g, b, k)
            cover == [from |-> start + 1, to |-> start + 2]
            key == ValueKey(O, g.blocks[b].params[k])
<1>1. RequirementOK(req)
  <2>1. CASE b # 1
    BY <2>1 DEF RequirementOK, ParameterRequirement, AnyLocation
  <2>2. CASE b = 1 /\ k <= g.nParameters
    BY <2>2 DEF RequirementOK, ParameterRequirement, Fixed, Reg
  <2>3. CASE b = 1 /\ k > g.nParameters
    BY <2>3 DEF RequirementOK, ParameterRequirement, Fixed, Stack
  <2>. QED BY <2>1, <2>2, <2>3
<1>2. x = Occurrence(start + 1, cover, key, "def", Anchor("result", b, 0, k), req)
  BY DEF ParameterOccurrences
<1>3. cover.from = start + 1 /\ cover.to = start + 2
  OBVIOUS
<1>. HIDE DEF req, cover, key
<1>4. /\ x.pos = start + 1 /\ x.from = cover.from /\ x.to = cover.to /\ x.key = key
      /\ x.kind = "def" /\ x.anchor = Anchor("result", b, 0, k)
      /\ OccurrenceOK(x)
  BY <1>1, <1>2, OccurrenceShape DEF OccurrenceOK
<1>. QED BY <1>3, <1>4 DEF IsParameter, key, ValueKey

LEMMA UseScanned ==
  ASSUME NEW g, NEW O, NEW b, NEW start \in Nat, NEW i \in Nat, NEW k \in DOMAIN Inputs(Code(g, b)[i]),
         Inputs(Code(g, b)[i])[k].timing \in Timings, RequirementOK(Inputs(Code(g, b)[i])[k].req),
         NEW x, x = UseOccurrences(g, O, b, i, EarlyOf(start, i))[k]
  PROVE  OccurrenceOK(x) /\ IsUse(g, O, b, start, i, k, x)
<1>. DEFINE input == Inputs(Code(g, b)[i])[k]
            early == EarlyOf(start, i)
            pos == IF input.timing = "early" THEN early ELSE early + 1
            cover == Coverage(early, "use", input.timing)
            key == ValueKey(O, input.value)
<1>1. x = Occurrence(pos, cover, key, "use", Anchor("operand", b, i, k), input.req)
  BY DEF UseOccurrences, Code
<1>2. early = start + 2 * i
  BY DEF EarlyOf
<1>3. cover.from = early /\ cover.to = IF input.timing = "early" THEN early + 1 ELSE early + 2
  BY DEF Coverage
<1>. HIDE DEF input, early, pos, cover, key
<1>4. RequirementOK(input.req) /\ input.timing \in Timings
  BY DEF input
<1>5. /\ x.pos = pos /\ x.from = cover.from /\ x.to = cover.to /\ x.key = key
      /\ x.kind = "use" /\ x.anchor = Anchor("operand", b, i, k)
      /\ OccurrenceOK(x) /\ (input.req = AnyRegister => x.required)
  BY <1>1, <1>4, OccurrenceShape DEF OccurrenceOK
<1>6. \/ input.timing = "early" /\ x.pos = start + 2 * i /\ x.to = start + 2 * i + 1
      \/ input.timing = "late" /\ x.pos = start + 2 * i + 1 /\ x.to = start + 2 * i + 2
  BY <1>2, <1>3, <1>4, <1>5 DEF Timings, pos
<1>. QED BY <1>2, <1>3, <1>5, <1>6 DEF IsUse, key, ValueKey, input

LEMMA ResultScanned ==
  ASSUME NEW g, NEW O, NEW b, NEW start \in Nat, NEW i \in Nat, Code(g, b)[i].result # NoValue,
         NEW x, x = ResultOccurrences(g, O, b, i, EarlyOf(start, i))[1]
  PROVE  OccurrenceOK(x) /\ IsResult(g, O, b, start, i, x)
<1>. DEFINE instr == Code(g, b)[i]
            early == EarlyOf(start, i)
            kind == IF Forwards(instr) THEN "forwarding" ELSE "def"
            cover == Coverage(early, kind, "late")
            key == ValueKey(O, instr.result)
            req == ResultRequirement(instr)
<1>1. x = Occurrence(early + 1, cover, key, kind, Anchor("result", b, i, 0), req)
  BY DEF ResultOccurrences, Code
<1>2. early = start + 2 * i
  BY DEF EarlyOf
<1>3. cover.from = early + 1 /\ cover.to = early + 2
  BY DEF Coverage
<1>4. RequirementOK(req) /\ (Forwards(instr) => req = AnyRegister)
  BY DEF RequirementOK, ResultRequirement, Fixed, Reg, AnyRegister, Forwards
<1>. HIDE DEF instr, early, kind, cover, key, req
<1>5. /\ x.pos = early + 1 /\ x.from = cover.from /\ x.to = cover.to /\ x.key = key
      /\ x.kind = kind /\ x.anchor = Anchor("result", b, i, 0)
      /\ OccurrenceOK(x) /\ (req = AnyRegister => x.fixed = Nowhere)
  BY <1>1, <1>4, OccurrenceShape DEF OccurrenceOK
<1>. QED BY <1>2, <1>3, <1>4, <1>5 DEF IsResult, key, ValueKey, instr, kind

LEMMA TemporaryScanned ==
  ASSUME NEW g, NEW b, NEW start \in Nat, NEW i \in Nat, HasTemporary(Code(g, b)[i]),
         NEW x, x = TemporaryOccurrences(g, b, i, EarlyOf(start, i))[1]
  PROVE  OccurrenceOK(x) /\ IsTemporary(b, start, i, x)
<1>. DEFINE early == EarlyOf(start, i)
            cover == Coverage(early, "temporary", "early")
<1>1. x = Occurrence(early, cover, TemporaryKey(b, i), "temporary", Anchor("temporary", b, i, 0), AnyRegister)
  BY DEF TemporaryOccurrences, Code
<1>2. early = start + 2 * i
  BY DEF EarlyOf
<1>3. cover.from = early /\ cover.to = early + 2
  BY DEF Coverage
<1>4. RequirementOK(AnyRegister)
  BY DEF RequirementOK, AnyRegister
<1>. HIDE DEF early, cover
<1>5. /\ x.pos = early /\ x.from = cover.from /\ x.to = cover.to /\ x.key = TemporaryKey(b, i)
      /\ x.kind = "temporary" /\ x.anchor = Anchor("temporary", b, i, 0)
      /\ OccurrenceOK(x)
  BY <1>1, <1>4, OccurrenceShape DEF OccurrenceOK
<1>. QED BY <1>2, <1>3, <1>5 DEF IsTemporary, TemporaryKey

EdgeList(g, O, b, exit, e) ==
  [k \in DOMAIN g.blocks[b].edges[e].args |->
     Occurrence(exit, [from |-> exit, to |-> exit + 1], ValueKey(O, g.blocks[b].edges[e].args[k]),
                "use", Anchor("edge", b, e, k), AnyLocation)]

LEMMA EdgeScanned ==
  ASSUME NEW g, NEW O, NEW b, NEW start \in Nat, NEW e, NEW k \in DOMAIN g.blocks[b].edges[e].args,
         NEW x, x = EdgeList(g, O, b, ExitOf(start, g.blocks[b]), e)[k]
  PROVE  OccurrenceOK(x) /\ IsEdge(g, O, b, start, e, k, x)
<1>. DEFINE exit == ExitOf(start, g.blocks[b])
            cover == [from |-> exit, to |-> exit + 1]
            key == ValueKey(O, g.blocks[b].edges[e].args[k])
<1>1. x = Occurrence(exit, cover, key, "use", Anchor("edge", b, e, k), AnyLocation)
  BY DEF EdgeList
<1>2. RequirementOK(AnyLocation)
  BY DEF RequirementOK, AnyLocation
<1>3. cover.from = exit /\ cover.to = exit + 1
  OBVIOUS
<1>. HIDE DEF exit, cover, key
<1>4. /\ x.pos = exit /\ x.from = cover.from /\ x.to = cover.to /\ x.key = key
      /\ x.kind = "use" /\ x.anchor = Anchor("edge", b, e, k)
      /\ OccurrenceOK(x)
  BY <1>1, <1>2, OccurrenceShape DEF OccurrenceOK
<1>. QED BY <1>3, <1>4 DEF IsEdge, exit, key, ValueKey

\* All of a block's occurrences.
Elements(s) == {s[k] : k \in DOMAIN s}

InstructionSet(g, O, b, start, i) ==
  Elements(UseOccurrences(g, O, b, i, EarlyOf(start, i)))
    \cup Elements(ResultOccurrences(g, O, b, i, EarlyOf(start, i)))
    \cup Elements(TemporaryOccurrences(g, b, i, EarlyOf(start, i)))

EdgeSet(g, O, b, start, e) == Elements(EdgeList(g, O, b, ExitOf(start, g.blocks[b]), e))

BlockSet(g, O, b, start) ==
  (Elements(ParameterOccurrences(g, O, b, start))
    \cup UNION {InstructionSet(g, O, b, start, i) : i \in DOMAIN Code(g, b)})
    \cup UNION {EdgeSet(g, O, b, start, e) : e \in DOMAIN g.blocks[b].edges}

Placed(g, O, b, start, x) ==
  /\ OccurrenceOK(x)
  /\ \/ \E k \in DOMAIN g.blocks[b].params : IsParameter(g, O, b, start, k, x)
     \/ \E i \in DOMAIN Code(g, b) :
          \/ \E k \in DOMAIN Inputs(Code(g, b)[i]) : IsUse(g, O, b, start, i, k, x)
          \/ IsResult(g, O, b, start, i, x)
          \/ IsTemporary(b, start, i, x)
     \/ \E e \in DOMAIN g.blocks[b].edges : \E k \in DOMAIN g.blocks[b].edges[e].args :
          IsEdge(g, O, b, start, e, k, x)

LEMMA ParametersListed ==
  ASSUME NEW g, CfgVerified(g), NEW b \in DOMAIN g.blocks, NEW O, NEW start \in Nat,
         NEW s, s = ParameterOccurrences(g, O, b, start)
  PROVE  /\ Lists(s, Elements(s)) /\ DOMAIN s = DOMAIN g.blocks[b].params
         /\ \A k \in DOMAIN s : OccurrenceOK(s[k]) /\ IsParameter(g, O, b, start, k, s[k])
<1>. DEFINE n == Len(g.blocks[b].params)
<1>1. n \in Nat /\ DOMAIN g.blocks[b].params = 1 .. n
  BY BlockShape
<1>2. g.nParameters \in Nat
  BY DEF CfgVerified
<1>3. DOMAIN s = 1 .. n /\ s = [k \in 1 .. n |-> s[k]]
  BY <1>1 DEF ParameterOccurrences
<1>. HIDE DEF n
<1>4. \A k \in 1 .. n : OccurrenceOK(s[k]) /\ IsParameter(g, O, b, start, k, s[k])
  BY <1>1, <1>2, ParameterScanned
<1>5. AnchorsDiffer(s)
  <2>1. \A k \in 1 .. n : s[k].anchor.index = k
    BY <1>4, AnchorFields DEF IsParameter
  <2>. QED BY <2>1, <1>3 DEF AnchorsDiffer
<1>6. Lists(s, {s[k] : k \in 1 .. n})
  BY <1>1, <1>3, <1>5, ListsOf
<1>. QED BY <1>1, <1>3, <1>4, <1>6 DEF Elements

LEMMA InstructionListed ==
  ASSUME NEW g, CfgVerified(g), NEW b \in DOMAIN g.blocks, NEW O, NEW start \in Nat,
         NEW i \in DOMAIN Code(g, b),
         NEW s, s = InstructionOccurrences(g, O, b, i, EarlyOf(start, i))
  PROVE  /\ Lists(s, InstructionSet(g, O, b, start, i))
         /\ \A x \in InstructionSet(g, O, b, start, i) :
              /\ OccurrenceOK(x)
              /\ \/ \E k \in DOMAIN Inputs(Code(g, b)[i]) : IsUse(g, O, b, start, i, k, x)
                 \/ IsResult(g, O, b, start, i, x)
                 \/ IsTemporary(b, start, i, x)
         /\ \A k \in DOMAIN Inputs(Code(g, b)[i]) :
              \E x \in InstructionSet(g, O, b, start, i) : IsUse(g, O, b, start, i, k, x)
         /\ Code(g, b)[i].result # NoValue =>
              \E x \in InstructionSet(g, O, b, start, i) : IsResult(g, O, b, start, i, x)
<1>. DEFINE in == Inputs(Code(g, b)[i])
            n == Len(in)
            early == EarlyOf(start, i)
            u == UseOccurrences(g, O, b, i, early)
            r == ResultOccurrences(g, O, b, i, early)
            t == TemporaryOccurrences(g, b, i, early)
            U == Elements(u)
            R == Elements(r)
            T == Elements(t)
<1>1. n \in Nat /\ DOMAIN in = 1 .. n
      /\ \A k \in 1 .. n : in[k].timing \in Timings /\ RequirementOK(in[k].req)
  BY InputsShape
<1>2. i \in Nat
  BY BlockShape DEF Code
<1>3. DOMAIN u = 1 .. n /\ u = [k \in 1 .. n |-> u[k]]
  BY <1>1 DEF UseOccurrences, Code
<1>4. \A k \in 1 .. n : OccurrenceOK(u[k]) /\ IsUse(g, O, b, start, i, k, u[k])
  BY <1>1, <1>2, UseScanned
<1>5. r = <<>> \/ (Code(g, b)[i].result # NoValue /\ DOMAIN r = 1 .. 1 /\ r = <<r[1]>>)
  BY DEF ResultOccurrences, Code
<1>6. Code(g, b)[i].result # NoValue =>
        DOMAIN r = 1 .. 1 /\ r = <<r[1]>> /\ OccurrenceOK(r[1]) /\ IsResult(g, O, b, start, i, r[1])
  <2>1. Code(g, b)[i].result # NoValue => DOMAIN r = 1 .. 1 /\ r = <<r[1]>>
    BY DEF ResultOccurrences, Code
  <2>. QED BY <2>1, <1>2, ResultScanned
<1>7. t = <<>> \/ (DOMAIN t = 1 .. 1 /\ t = <<t[1]>> /\ OccurrenceOK(t[1]) /\ IsTemporary(b, start, i, t[1]))
  <2>1. t = <<>> \/ (HasTemporary(Code(g, b)[i]) /\ DOMAIN t = 1 .. 1 /\ t = <<t[1]>>)
    BY DEF TemporaryOccurrences, Code
  <2>. QED BY <2>1, <1>2, TemporaryScanned
<1>8. s = (u \o r) \o t
  BY DEF InstructionOccurrences
<1>. HIDE DEF in, n, u, r, t
<1>9. DOMAIN <<>> = {}
  OBVIOUS
<1>10. \A x \in U : OccurrenceOK(x) /\ \E k \in 1 .. n : x = u[k] /\ IsUse(g, O, b, start, i, k, x)
  BY <1>3, <1>4 DEF Elements
<1>11. \A x \in R : /\ OccurrenceOK(x) /\ IsResult(g, O, b, start, i, x)
  BY <1>5, <1>6, <1>9 DEF Elements
<1>12. \A x \in T : OccurrenceOK(x) /\ IsTemporary(b, start, i, x)
  BY <1>7, <1>9 DEF Elements
<1>13. Lists(u, U)
  <2>1. AnchorsDiffer(u)
    <3>1. \A k \in 1 .. n : u[k].anchor.index = k
      BY <1>4, AnchorFields DEF IsUse
    <3>. QED BY <3>1, <1>3 DEF AnchorsDiffer
  <2>2. Lists(u, {u[k] : k \in 1 .. n})
    BY <1>1, <1>3, <2>1, ListsOf
  <2>. QED BY <1>3, <2>2 DEF Elements
<1>14. ASSUME NEW q, q = <<>> \/ (DOMAIN q = 1 .. 1 /\ q = <<q[1]>>) PROVE Lists(q, Elements(q))
  <2>1. CASE q = <<>>
    <3>1. Elements(q) = {}
      BY <2>1, <1>9 DEF Elements
    <3>. QED BY <2>1, <3>1, ListsNothing
  <2>2. CASE DOMAIN q = 1 .. 1 /\ q = <<q[1]>>
    <3>1. 1 .. 1 = {1}
      OBVIOUS
    <3>2. Elements(q) = {q[1]}
      BY <2>2, <3>1 DEF Elements
    <3>3. Lists(<<q[1]>>, {q[1]})
      BY ListsOne
    <3>. QED BY <2>2, <3>2, <3>3, Zenon
  <2>. QED BY <1>14, <2>1, <2>2
<1>15. Lists(r, R) /\ Lists(t, T)
  BY <1>14, <1>5, <1>7
<1>. HIDE DEF U, R, T, early
<1>0. /\ \A x \in U : x.anchor.kind = "operand"
      /\ \A x \in R : x.anchor.kind = "result"
      /\ \A x \in T : x.anchor.kind = "temporary"
  BY <1>10, <1>11, <1>12, AnchorFields DEF IsUse, IsResult, IsTemporary
<1>16. Lists(u \o r, U \cup R)
  <2>1. \A x \in U, y \in R : x.anchor # y.anchor
    BY <1>0
  <2>. QED BY <1>13, <1>15, <2>1, ListsBoth
<1>17. Lists(s, (U \cup R) \cup T)
  <2>1. \A x \in U \cup R, y \in T : x.anchor # y.anchor
    BY <1>0
  <2>. QED BY <1>8, <1>15, <1>16, <2>1, ListsBoth
<1>18. InstructionSet(g, O, b, start, i) = (U \cup R) \cup T
  BY DEF InstructionSet, U, R, T, u, r, t, early
<1>19. \A k \in DOMAIN in : \E x \in U : IsUse(g, O, b, start, i, k, x)
  BY <1>1, <1>3, <1>4 DEF U, Elements
<1>20. Code(g, b)[i].result # NoValue => \E x \in R : IsResult(g, O, b, start, i, x)
  BY <1>6 DEF R, Elements
<1>. QED BY <1>1, <1>10, <1>11, <1>12, <1>17, <1>18, <1>19, <1>20 DEF in

LEMMA EdgesListed ==
  ASSUME NEW g, CfgVerified(g), NEW b \in DOMAIN g.blocks, NEW O, NEW start \in Nat,
         NEW s, s = EdgeOccurrences(g, O, b, ExitOf(start, g.blocks[b])),
         NEW E, E = UNION {EdgeSet(g, O, b, start, e) : e \in DOMAIN g.blocks[b].edges}
  PROVE  /\ Lists(s, E)
         /\ \A x \in E : OccurrenceOK(x) /\ \E e \in DOMAIN g.blocks[b].edges :
              \E k \in DOMAIN g.blocks[b].edges[e].args : IsEdge(g, O, b, start, e, k, x)
         /\ \A e \in DOMAIN g.blocks[b].edges : \A k \in DOMAIN g.blocks[b].edges[e].args :
              \E x \in E : IsEdge(g, O, b, start, e, k, x)
<1>. DEFINE exit == ExitOf(start, g.blocks[b])
            edges == g.blocks[b].edges
            n == Len(edges)
            list == [e \in 1 .. n |-> EdgeList(g, O, b, exit, e)]
            F == [e \in 1 .. n |-> EdgeSet(g, O, b, start, e)]
<1>1. n \in Nat /\ DOMAIN edges = 1 .. n
  BY BlockShape
<1>2. \A e \in 1 .. n : EdgeVerified(g, b, edges[e])
  BY <1>1 DEF CfgVerified, BlockVerified
<1>3. s = FlattenSeq(list)
  BY <1>1 DEF EdgeOccurrences, EdgeList
<1>4. \A e \in 1 .. n : list[e] = EdgeList(g, O, b, exit, e) /\ F[e] = Elements(list[e])
  BY DEF EdgeSet
<1>5. list = [e \in 1 .. n |-> list[e]]
  OBVIOUS
<1>. HIDE DEF list, n, F, exit
<1>6. ASSUME NEW e \in 1 .. n
      PROVE  /\ Lists(list[e], F[e])
             /\ DOMAIN list[e] = DOMAIN edges[e].args
             /\ \A k \in DOMAIN edges[e].args :
                  OccurrenceOK(list[e][k]) /\ IsEdge(g, O, b, start, e, k, list[e][k])
  <2>. DEFINE m == Len(edges[e].args)
              l == list[e]
  <2>1. m \in Nat /\ DOMAIN edges[e].args = 1 .. m
    BY <1>2, LenProperties DEF EdgeVerified
  <2>2. DOMAIN l = 1 .. m /\ l = [k \in 1 .. m |-> l[k]]
    BY <1>4, <2>1 DEF EdgeList
  <2>3. \A k \in 1 .. m : OccurrenceOK(l[k]) /\ IsEdge(g, O, b, start, e, k, l[k])
    BY <1>4, <2>1, EdgeScanned DEF exit
  <2>. HIDE DEF m, l
  <2>4. AnchorsDiffer(l)
    <3>1. \A k \in 1 .. m : l[k].anchor.index = k
      BY <2>3, AnchorFields DEF IsEdge
    <3>. QED BY <3>1, <2>2 DEF AnchorsDiffer
  <2>5. Lists(l, {l[k] : k \in 1 .. m})
    BY <2>1, <2>2, <2>4, ListsOf
  <2>6. F[e] = {l[k] : k \in 1 .. m}
    BY <1>4, <2>2 DEF Elements, l
  <2>. QED BY <2>1, <2>2, <2>3, <2>5, <2>6 DEF l
<1>7. \A e \in 1 .. n : \A x \in F[e] :
        OccurrenceOK(x) /\ x.anchor.at = e /\ \E k \in DOMAIN edges[e].args : IsEdge(g, O, b, start, e, k, x)
  <2>. TAKE e \in 1 .. n
  <2>. TAKE x \in F[e]
  <2>1. PICK k \in DOMAIN edges[e].args : x = list[e][k]
    BY <1>4, <1>6 DEF Elements
  <2>2. OccurrenceOK(x) /\ IsEdge(g, O, b, start, e, k, x)
    BY <2>1, <1>6
  <2>3. x.anchor.at = e
    BY <2>2, AnchorFields DEF IsEdge
  <2>. QED BY <2>2, <2>3
<1>8. Lists(s, UNION {F[e] : e \in 1 .. n})
  <2>1. \A e, f \in 1 .. n : e # f => \A x \in F[e], y \in F[f] : x.anchor # y.anchor
    BY <1>7
  <2>2. \A e \in 1 .. n : Lists(list[e], F[e])
    BY <1>6
  <2>. QED BY <2>1, <2>2, <1>1, <1>3, <1>5, ListsFlattened
<1>9. E = UNION {F[e] : e \in 1 .. n}
  <2>1. \A e \in 1 .. n : F[e] = EdgeSet(g, O, b, start, e)
    BY DEF F
  <2>. QED BY <2>1, <1>1
<1>10. ASSUME NEW e \in 1 .. n, NEW k \in DOMAIN edges[e].args
       PROVE  \E x \in E : IsEdge(g, O, b, start, e, k, x)
  <2>1. list[e][k] \in F[e] /\ IsEdge(g, O, b, start, e, k, list[e][k])
    BY <1>4, <1>6 DEF Elements
  <2>. QED BY <2>1, <1>9
<1>11. Lists(s, E)
  BY <1>8, <1>9, Zenon
<1>12. ASSUME NEW x \in E
       PROVE  OccurrenceOK(x) /\ \E e \in DOMAIN edges : \E k \in DOMAIN edges[e].args :
                                   IsEdge(g, O, b, start, e, k, x)
  <2>1. PICK e \in 1 .. n : x \in F[e]
    BY <1>9
  <2>. QED BY <2>1, <1>1, <1>7
<1>. QED BY <1>1, <1>10, <1>11, <1>12

LEMMA BlockListed ==
  ASSUME NEW g, CfgVerified(g), NEW b \in DOMAIN g.blocks, NEW O, NEW start \in Nat,
         NEW E, E = BlockSet(g, O, b, start)
  PROVE  /\ Lists(ScanBlock(g, O, b, start), E)
         /\ \A x \in E : Placed(g, O, b, start, x) /\ x.anchor.block = b
         /\ \A k \in DOMAIN g.blocks[b].params : \E x \in E : IsParameter(g, O, b, start, k, x)
         /\ \A i \in DOMAIN Code(g, b) :
              /\ \A k \in DOMAIN Inputs(Code(g, b)[i]) : \E x \in E : IsUse(g, O, b, start, i, k, x)
              /\ Code(g, b)[i].result # NoValue => \E x \in E : IsResult(g, O, b, start, i, x)
         /\ \A e \in DOMAIN g.blocks[b].edges : \A k \in DOMAIN g.blocks[b].edges[e].args :
              \E x \in E : IsEdge(g, O, b, start, e, k, x)
<1>. DEFINE n == Len(Code(g, b))
            p == ParameterOccurrences(g, O, b, start)
            code == [i \in 1 .. n |-> InstructionOccurrences(g, O, b, i, EarlyOf(start, i))]
            edges == EdgeOccurrences(g, O, b, ExitOf(start, g.blocks[b]))
            P == Elements(p)
            F == [i \in 1 .. n |-> InstructionSet(g, O, b, start, i)]
            C == UNION {F[i] : i \in 1 .. n}
            X == UNION {EdgeSet(g, O, b, start, e) : e \in DOMAIN g.blocks[b].edges}
<1>1. n \in Nat /\ DOMAIN Code(g, b) = 1 .. n
  BY BlockShape DEF Code
<1>2. ScanBlock(g, O, b, start) = (p \o FlattenSeq(code)) \o edges
  BY <1>1 DEF ScanBlock, Code
<1>3. \A i \in 1 .. n : /\ code[i] = InstructionOccurrences(g, O, b, i, EarlyOf(start, i))
                        /\ F[i] = InstructionSet(g, O, b, start, i)
  OBVIOUS
<1>4. code = [i \in 1 .. n |-> code[i]]
  OBVIOUS
<1>5. E = (P \cup C) \cup X
  <2>1. C = UNION {InstructionSet(g, O, b, start, i) : i \in DOMAIN Code(g, b)}
    BY <1>1, <1>3
  <2>. HIDE DEF C, P, X
  <2>. QED BY <2>1 DEF BlockSet, P, X
<1>. HIDE DEF n, code, F
<1>6. \A i \in 1 .. n :
        /\ Lists(code[i], F[i])
        /\ \A x \in F[i] :
              /\ OccurrenceOK(x)
              /\ \/ \E k \in DOMAIN Inputs(Code(g, b)[i]) : IsUse(g, O, b, start, i, k, x)
                 \/ IsResult(g, O, b, start, i, x)
                 \/ IsTemporary(b, start, i, x)
        /\ \A k \in DOMAIN Inputs(Code(g, b)[i]) : \E x \in F[i] : IsUse(g, O, b, start, i, k, x)
        /\ Code(g, b)[i].result # NoValue => \E x \in F[i] : IsResult(g, O, b, start, i, x)
  <2>. TAKE i \in 1 .. n
  <2>. QED BY <1>1, <1>3, InstructionListed
<1>7. /\ Lists(p, P) /\ DOMAIN p = DOMAIN g.blocks[b].params
      /\ \A k \in DOMAIN p : OccurrenceOK(p[k]) /\ IsParameter(g, O, b, start, k, p[k])
  BY ParametersListed
<1>8. /\ Lists(edges, X)
      /\ \A x \in X : OccurrenceOK(x) /\ \E e \in DOMAIN g.blocks[b].edges :
           \E k \in DOMAIN g.blocks[b].edges[e].args : IsEdge(g, O, b, start, e, k, x)
      /\ \A e \in DOMAIN g.blocks[b].edges : \A k \in DOMAIN g.blocks[b].edges[e].args :
           \E x \in X : IsEdge(g, O, b, start, e, k, x)
  BY EdgesListed
<1>. HIDE DEF p, edges, X
<1>9. \A x \in P : /\ OccurrenceOK(x) /\ \E k \in DOMAIN g.blocks[b].params : IsParameter(g, O, b, start, k, x)
                   /\ x.anchor.block = b /\ x.anchor.at = 0 /\ x.anchor.kind = "result"
  <2>. TAKE x \in P
  <2>1. PICK k \in DOMAIN g.blocks[b].params : x = p[k]
    BY <1>7 DEF Elements
  <2>2. OccurrenceOK(x) /\ IsParameter(g, O, b, start, k, x)
    BY <1>7, <2>1
  <2>. QED BY <2>2, AnchorFields DEF IsParameter
<1>10. ASSUME NEW i \in 1 .. n, NEW x \in F[i]
       PROVE  /\ Placed(g, O, b, start, x) /\ x.anchor.block = b
              /\ x.anchor.at = i /\ x.anchor.kind \in {"operand", "result", "temporary"}
  <2>1. i \in DOMAIN Code(g, b)
    BY <1>1
  <2>2. Placed(g, O, b, start, x)
    BY <1>6, <2>1 DEF Placed
  <2>3. \/ \E k \in DOMAIN Inputs(Code(g, b)[i]) : IsUse(g, O, b, start, i, k, x)
        \/ IsResult(g, O, b, start, i, x)
        \/ IsTemporary(b, start, i, x)
    BY <1>6
  <2>. QED BY <2>2, <2>3, AnchorFields DEF IsUse, IsResult, IsTemporary
<1>11. \A x \in X : Placed(g, O, b, start, x) /\ x.anchor.block = b /\ x.anchor.kind = "edge"
  <2>. TAKE x \in X
  <2>1. PICK e \in DOMAIN g.blocks[b].edges : \E k \in DOMAIN g.blocks[b].edges[e].args :
          IsEdge(g, O, b, start, e, k, x)
    BY <1>8
  <2>2. PICK k \in DOMAIN g.blocks[b].edges[e].args : IsEdge(g, O, b, start, e, k, x)
    BY <2>1
  <2>3. x.anchor.block = b /\ x.anchor.kind = "edge"
    BY <2>2, AnchorFields DEF IsEdge
  <2>4. OccurrenceOK(x)
    BY <1>8
  <2>5. Placed(g, O, b, start, x)
    BY <2>1, <2>4, Zenon DEF Placed
  <2>. QED BY <2>3, <2>5
<1>12. Lists(FlattenSeq(code), C)
  <2>1. \A i, j \in 1 .. n : i # j => \A x \in F[i], y \in F[j] : x.anchor # y.anchor
    BY <1>10
  <2>2. \A i \in 1 .. n : Lists(code[i], F[i])
    BY <1>6
  <2>. QED BY <2>1, <2>2, <1>1, <1>4, ListsFlattened
<1>13. \A x \in C : /\ Placed(g, O, b, start, x) /\ x.anchor.block = b
                    /\ x.anchor.at # 0 /\ x.anchor.kind # "edge"
  <2>. TAKE x \in C
  <2>1. PICK i \in 1 .. n : x \in F[i]
    OBVIOUS
  <2>. QED BY <2>1, <1>1, <1>10
<1>14. \A i \in 1 .. n : F[i] \subseteq C
  OBVIOUS
<1>. HIDE DEF P, C
<1>15. Lists(p \o FlattenSeq(code), P \cup C)
  <2>1. \A x \in P, y \in C : x.anchor # y.anchor
    BY <1>9, <1>13
  <2>. QED BY <2>1, <1>7, <1>12, ListsBoth
<1>16. Lists(ScanBlock(g, O, b, start), E)
  <2>1. \A x \in P \cup C, y \in X : x.anchor # y.anchor
    BY <1>9, <1>11, <1>13
  <2>2. Lists((p \o FlattenSeq(code)) \o edges, (P \cup C) \cup X)
    BY <2>1, <1>8, <1>15, ListsBoth
  <2>. QED BY <2>2, <1>2, <1>5
<1>17. \A x \in E : Placed(g, O, b, start, x) /\ x.anchor.block = b
  BY <1>5, <1>9, <1>11, <1>13 DEF Placed
<1>18. \A k \in DOMAIN g.blocks[b].params : \E x \in E : IsParameter(g, O, b, start, k, x)
  <2>. TAKE k \in DOMAIN g.blocks[b].params
  <2>1. p[k] \in P /\ IsParameter(g, O, b, start, k, p[k])
    BY <1>7 DEF P, Elements
  <2>. QED BY <2>1, <1>5
<1>19. \A i \in DOMAIN Code(g, b) :
         /\ \A k \in DOMAIN Inputs(Code(g, b)[i]) : \E x \in E : IsUse(g, O, b, start, i, k, x)
         /\ Code(g, b)[i].result # NoValue => \E x \in E : IsResult(g, O, b, start, i, x)
  <2>. TAKE i \in DOMAIN Code(g, b)
  <2>1. i \in 1 .. n /\ F[i] \subseteq E
    BY <1>1, <1>5, <1>14
  <2>. QED BY <2>1, <1>6
<1>20. \A e \in DOMAIN g.blocks[b].edges : \A k \in DOMAIN g.blocks[b].edges[e].args :
         \E x \in E : IsEdge(g, O, b, start, e, k, x)
  BY <1>5, <1>8
<1>. QED BY <1>16, <1>17, <1>18, <1>19, <1>20

-----------------------------------------------------------------------------
(* Which occurrences open live ranges, and what they open.                 *)

Opens(x) == x.kind \in {"def", "temporary"}

\* Where the occurrences of a block lie.
LEMMA OccurrencesLie ==
  ASSUME NEW g, CfgVerified(g), NEW b \in DOMAIN g.blocks, NEW O, NEW start \in Nat,
         NEW x \in BlockSet(g, O, b, start)
  PROVE  /\ x.from \in Nat /\ x.pos \in Nat /\ x.to \in Nat
         /\ start <= x.from /\ x.from <= x.pos /\ x.pos < x.to
         /\ x.to <= ExitOf(start, g.blocks[b]) + 1
<1>. DEFINE n == Len(Code(g, b))
<1>1. n \in Nat /\ DOMAIN Code(g, b) = 1 .. n /\ ExitOf(start, g.blocks[b]) = start + 2 + 2 * n
  BY BlockShape DEF Code, ExitOf
<1>2. Placed(g, O, b, start, x)
  BY BlockListed
<1>. HIDE DEF n
<1>3. CASE \E k \in DOMAIN g.blocks[b].params : IsParameter(g, O, b, start, k, x)
  <2>1. x.pos = start + 1 /\ x.from = start + 1 /\ x.to = start + 2
    BY <1>3 DEF IsParameter
  <2>. QED BY <2>1, <1>1
<1>4. CASE \E i \in DOMAIN Code(g, b) :
             \/ \E k \in DOMAIN Inputs(Code(g, b)[i]) : IsUse(g, O, b, start, i, k, x)
             \/ IsResult(g, O, b, start, i, x)
             \/ IsTemporary(b, start, i, x)
  <2>1. PICK i \in 1 .. n : \/ \E k \in DOMAIN Inputs(Code(g, b)[i]) : IsUse(g, O, b, start, i, k, x)
                            \/ IsResult(g, O, b, start, i, x)
                            \/ IsTemporary(b, start, i, x)
    BY <1>1, <1>4
  <2>2. /\ x.from \in {start + 2 * i, start + 2 * i + 1}
        /\ x.pos \in {start + 2 * i, start + 2 * i + 1}
        /\ x.to \in {start + 2 * i + 1, start + 2 * i + 2}
        /\ x.from <= x.pos /\ x.pos < x.to
    <3>1. CASE \E k \in DOMAIN Inputs(Code(g, b)[i]) : IsUse(g, O, b, start, i, k, x)
      BY <3>1, <1>1 DEF IsUse
    <3>2. CASE IsResult(g, O, b, start, i, x)
      BY <3>2, <1>1 DEF IsResult
    <3>3. CASE IsTemporary(b, start, i, x)
      BY <3>3, <1>1 DEF IsTemporary
    <3>. QED BY <2>1, <3>1, <3>2, <3>3
  <2>. QED BY <2>2, <1>1
<1>5. CASE \E e \in DOMAIN g.blocks[b].edges : \E k \in DOMAIN g.blocks[b].edges[e].args :
             IsEdge(g, O, b, start, e, k, x)
  <2>1. x.pos = start + 2 + 2 * n /\ x.from = x.pos /\ x.to = x.pos + 1
    BY <1>1, <1>5 DEF IsEdge
  <2>. QED BY <2>1, <1>1
<1>. QED BY <1>2, <1>3, <1>4, <1>5 DEF Placed

\* A definition that is not a guard opens the live range of its value, a
\* temporary its own.
LEMMA OpeningShape ==
  ASSUME NEW g, CfgVerified(g), NEW b \in DOMAIN g.blocks, NEW O, O = Origins(g.values, Code(g, b)),
         NEW start \in Nat, NEW x \in BlockSet(g, O, b, start), Opens(x)
  PROVE  \/ /\ x.anchor \in BlockDefinitions(g, b) /\ ~IsForwarding(g, x.anchor)
            /\ x.kind = "def" /\ x.key = <<"value", DefinedBy(g, x.anchor)>>
         \/ \E i \in DOMAIN Code(g, b) : IsTemporary(b, start, i, x)
<1>1. Placed(g, O, b, start, x)
  BY BlockListed
<1>2. CASE \E k \in DOMAIN g.blocks[b].params : IsParameter(g, O, b, start, k, x)
  <2>1. PICK k \in DOMAIN g.blocks[b].params : IsParameter(g, O, b, start, k, x)
    BY <1>2
  <2>. DEFINE d == Anchor("result", b, 0, k)
  <2>2. d \in BlockDefinitions(g, b)
    BY DEF BlockDefinitions, ParameterDefinitions
  <2>3. ~IsForwarding(g, d) /\ DefinedBy(g, d) = g.blocks[b].params[k]
    BY AnchorFields DEF IsForwarding, DefinedBy
  <2>4. O[DefinedBy(g, d)] = DefinedBy(g, d)
    BY <2>2, <2>3, OriginsSettled
  <2>. HIDE DEF d
  <2>5. x.anchor = d /\ x.kind = "def" /\ x.key = <<"value", O[g.blocks[b].params[k]]>>
    BY <2>1 DEF IsParameter, d
  <2>. QED BY <2>2, <2>3, <2>4, <2>5
<1>3. ASSUME NEW i \in DOMAIN Code(g, b), IsResult(g, O, b, start, i, x)
      PROVE  /\ x.anchor \in BlockDefinitions(g, b) /\ ~IsForwarding(g, x.anchor)
             /\ x.kind = "def" /\ x.key = <<"value", DefinedBy(g, x.anchor)>>
  <2>. DEFINE d == Anchor("result", b, i, 0)
  <2>1. /\ Code(g, b)[i].result # NoValue
        /\ x.anchor = d /\ x.kind = IF Forwards(Code(g, b)[i]) THEN "forwarding" ELSE "def"
        /\ x.key = <<"value", O[Code(g, b)[i].result]>>
    BY <1>3 DEF IsResult
  <2>2. ~Forwards(Code(g, b)[i]) /\ x.kind = "def"
    BY <2>1 DEF Opens
  <2>3. d \in BlockDefinitions(g, b)
    BY <2>1 DEF BlockDefinitions, ResultDefinitions, Code
  <2>4. i # 0
    BY BlockShape DEF Code
  <2>5. ~IsForwarding(g, d) /\ DefinedBy(g, d) = Code(g, b)[i].result
    BY <2>2, <2>4, AnchorFields DEF IsForwarding, DefinedBy, Code
  <2>6. O[DefinedBy(g, d)] = DefinedBy(g, d)
    BY <2>3, <2>5, OriginsSettled
  <2>. HIDE DEF d
  <2>. QED BY <2>1, <2>2, <2>3, <2>5, <2>6
<1>4. ~(\E i \in DOMAIN Code(g, b) : \E k \in DOMAIN Inputs(Code(g, b)[i]) : IsUse(g, O, b, start, i, k, x))
  BY DEF Opens, IsUse
<1>5. ~(\E e \in DOMAIN g.blocks[b].edges : \E k \in DOMAIN g.blocks[b].edges[e].args :
          IsEdge(g, O, b, start, e, k, x))
  BY DEF Opens, IsEdge
<1>. QED BY <1>1, <1>2, <1>3, <1>4, <1>5 DEF Placed

LEMMA DefinitionOpens ==
  ASSUME NEW g, CfgVerified(g), NEW b \in DOMAIN g.blocks, NEW O, O = Origins(g.values, Code(g, b)),
         NEW start \in Nat, NEW d \in BlockDefinitions(g, b), ~IsForwarding(g, d)
  PROVE  \E y \in BlockSet(g, O, b, start) :
           /\ Opens(y) /\ y.key = <<"value", DefinedBy(g, d)>>
           /\ y.from = start + 2 * d.at + 1
<1>1. O[DefinedBy(g, d)] = DefinedBy(g, d)
  BY OriginsSettled
<1>2. CASE d.at = 0
  <2>1. d.index \in DOMAIN g.blocks[b].params /\ DefinedBy(g, d) = g.blocks[b].params[d.index]
    BY <1>2, DefinitionShape
  <2>0. \A k \in DOMAIN g.blocks[b].params :
          \E x \in BlockSet(g, O, b, start) : IsParameter(g, O, b, start, k, x)
    BY BlockListed
  <2>2. PICK y \in BlockSet(g, O, b, start) : IsParameter(g, O, b, start, d.index, y)
    BY <2>0, <2>1
  <2>3. Opens(y) /\ y.key = <<"value", DefinedBy(g, d)>> /\ y.from = start + 1
    BY <1>1, <2>1, <2>2 DEF IsParameter, Opens
  <2>4. start + 1 = start + 2 * d.at + 1
    BY <1>2
  <2>. QED BY <2>3, <2>4
<1>3. CASE d.at # 0
  <2>1. /\ d.at \in DOMAIN Code(g, b) /\ d.block = b
        /\ Code(g, b)[d.at].result # NoValue /\ DefinedBy(g, d) = Code(g, b)[d.at].result
    BY <1>3, DefinitionShape
  <2>2. ~Forwards(Code(g, b)[d.at])
    BY <1>3, <2>1 DEF IsForwarding
  <2>3. PICK y \in BlockSet(g, O, b, start) : IsResult(g, O, b, start, d.at, y)
    BY <2>1, BlockListed
  <2>4. Opens(y) /\ y.key = <<"value", DefinedBy(g, d)>> /\ y.from = start + 2 * d.at + 1
    BY <1>1, <2>1, <2>2, <2>3 DEF IsResult, Opens
  <2>. QED BY <2>4
<1>. QED BY <1>2, <1>3

OpenedBy(g, O, b, start, key, pos) ==
  \E y \in BlockSet(g, O, b, start) : Opens(y) /\ y.key = key /\ y.from \in Nat /\ y.from <= pos

\* The live range of a value in scope was opened before.
LEMMA ScopeOpened ==
  ASSUME NEW g, CfgVerified(g), NEW b \in DOMAIN g.blocks, NEW O, O = Origins(g.values, Code(g, b)),
         NEW start \in Nat, NEW i \in Nat, NEW v \in InScope(g, b, i)
  PROVE  OpenedBy(g, O, b, start, <<"value", O[v]>>, start + 2 * i)
<1>1. PICK d \in BlockDefinitions(g, b) : d.at < i /\ v = DefinedBy(g, d)
  BY ScopeShape
<1>2. PICK e \in BlockDefinitions(g, b) :
        e.at <= d.at /\ ~IsForwarding(g, e) /\ O[DefinedBy(g, d)] = DefinedBy(g, e)
  BY Rooted
<1>3. e.at \in Nat /\ d.at \in Nat
  BY DefinitionShape
<1>4. PICK y \in BlockSet(g, O, b, start) :
        Opens(y) /\ y.key = <<"value", DefinedBy(g, e)>> /\ y.from = start + 2 * e.at + 1
  BY <1>2, DefinitionOpens
<1>5. y.from \in Nat /\ y.from <= start + 2 * i
  BY <1>1, <1>2, <1>3, <1>4
<1>. QED BY <1>1, <1>2, <1>4, <1>5 DEF OpenedBy

LEMMA OccurrenceOpened ==
  ASSUME NEW g, CfgVerified(g), NEW b \in DOMAIN g.blocks, NEW O, O = Origins(g.values, Code(g, b)),
         NEW start \in Nat, NEW x \in BlockSet(g, O, b, start)
  PROVE  OpenedBy(g, O, b, start, x.key, x.from)
<1>. DEFINE Opened == OpenedBy(g, O, b, start, x.key, x.from)
<1>0. x.from \in Nat
  BY OccurrencesLie
<1>1. CASE Opens(x)
  BY <1>0, <1>1 DEF OpenedBy
<1>2. ASSUME NEW i \in Nat, NEW v \in InScope(g, b, i), x.key = <<"value", O[v]>>, start + 2 * i <= x.from
      PROVE  Opened
  <2>1. OpenedBy(g, O, b, start, <<"value", O[v]>>, start + 2 * i)
    BY ScopeOpened
  <2>2. \A from \in Nat : from <= start + 2 * i => from <= x.from
    BY <1>0, <1>2
  <2>. QED BY <2>1, <2>2, <1>2 DEF OpenedBy
<1>3. Placed(g, O, b, start, x)
  BY BlockListed
<1>. DEFINE n == Len(Code(g, b))
<1>4. n \in Nat /\ DOMAIN Code(g, b) = 1 .. n /\ ExitOf(start, g.blocks[b]) = start + 2 + 2 * n
  BY BlockShape DEF Code, ExitOf
<1>. HIDE DEF Opened, n
<1>5. ASSUME NEW i \in DOMAIN Code(g, b), NEW k \in DOMAIN Inputs(Code(g, b)[i]),
             IsUse(g, O, b, start, i, k, x)
      PROVE  Opened
  <2>1. Inputs(Code(g, b)[i])[k].value \in InScope(g, b, i)
    BY InputsShape
  <2>2. x.from = start + 2 * i /\ x.key = <<"value", O[Inputs(Code(g, b)[i])[k].value]>>
    BY <1>5 DEF IsUse
  <2>3. i \in Nat
    BY <1>4
  <2>. QED BY <2>1, <2>2, <2>3, <1>2
<1>6. ASSUME NEW e \in DOMAIN g.blocks[b].edges, NEW k \in DOMAIN g.blocks[b].edges[e].args,
             IsEdge(g, O, b, start, e, k, x)
      PROVE  Opened
  <2>. DEFINE edge == g.blocks[b].edges[e]
  <2>1. EdgeVerified(g, b, edge)
    BY DEF CfgVerified, BlockVerified
  <2>2. edge.args[k] \in InScope(g, b, n + 1)
    <3>1. edge.args \in Seq(InScope(g, b, n + 1))
      BY <2>1 DEF EdgeVerified, n, Code
    <3>. QED BY <3>1, LenProperties
  <2>3. x.from = start + 2 + 2 * n /\ x.key = <<"value", O[edge.args[k]]>>
    BY <1>4, <1>6 DEF IsEdge
  <2>4. n + 1 \in Nat /\ start + 2 * (n + 1) <= x.from
    BY <1>4, <2>3
  <2>. QED BY <2>2, <2>3, <2>4, <1>2
<1>7. ASSUME NEW i \in DOMAIN Code(g, b), IsResult(g, O, b, start, i, x), ~Opens(x)
      PROVE  Opened
  <2>1. /\ Code(g, b)[i].result # NoValue /\ x.from = start + 2 * i + 1
        /\ x.key = <<"value", O[Code(g, b)[i].result]>>
        /\ x.kind = IF Forwards(Code(g, b)[i]) THEN "forwarding" ELSE "def"
    BY <1>7 DEF IsResult
  <2>2. Forwards(Code(g, b)[i])
    BY <2>1, <1>7 DEF Opens
  <2>. DEFINE d == Anchor("result", b, i, 0)
  <2>3. d \in BlockDefinitions(g, b) /\ Code(g, b)[i].args[1] \in InScope(g, b, i)
    BY <2>2, ForwardingShape
  <2>4. i \in Nat /\ i # 0
    BY <1>4
  <2>5. IsForwarding(g, d) /\ DefinedBy(g, d) = Code(g, b)[i].result /\ d.at = i
    BY <2>2, <2>4, AnchorFields DEF IsForwarding, DefinedBy, Code
  <2>. HIDE DEF d
  <2>6. O[Code(g, b)[i].result] = O[Code(g, b)[i].args[1]]
    BY <2>3, <2>5, OriginsSettled
  <2>7. start + 2 * i <= x.from
    BY <2>1, <2>4
  <2>. QED BY <2>1, <2>3, <2>4, <2>6, <2>7, <1>2
<1>8. CASE ~Opens(x)
  <2>1. ~(\E k \in DOMAIN g.blocks[b].params : IsParameter(g, O, b, start, k, x))
    BY <1>8 DEF IsParameter, Opens
  <2>2. ~(\E i \in DOMAIN Code(g, b) : IsTemporary(b, start, i, x))
    BY <1>8 DEF IsTemporary, Opens
  <2>3. \/ \E i \in DOMAIN Code(g, b) :
             \/ \E k \in DOMAIN Inputs(Code(g, b)[i]) : IsUse(g, O, b, start, i, k, x)
             \/ IsResult(g, O, b, start, i, x)
        \/ \E e \in DOMAIN g.blocks[b].edges : \E k \in DOMAIN g.blocks[b].edges[e].args :
             IsEdge(g, O, b, start, e, k, x)
    BY <1>3, <2>1, <2>2 DEF Placed
  <2>4. Opened
    BY <1>5, <1>6, <1>7, <1>8, <2>3
  <2>. QED BY <2>4 DEF Opened
<1>. QED BY <1>1, <1>8

LEMMA OpeningUnique ==
  ASSUME NEW g, CfgVerified(g), NEW b \in DOMAIN g.blocks, NEW c \in DOMAIN g.blocks,
         NEW O, O = Origins(g.values, Code(g, b)), NEW R, R = Origins(g.values, Code(g, c)),
         NEW start \in Nat, NEW first \in Nat,
         NEW x \in BlockSet(g, O, b, start), NEW y \in BlockSet(g, R, c, first),
         Opens(x), Opens(y), x.key = y.key
  PROVE  x.anchor = y.anchor
<1>1. \/ /\ x.anchor \in BlockDefinitions(g, b) /\ x.key = <<"value", DefinedBy(g, x.anchor)>>
      \/ \E i : x.anchor = Anchor("temporary", b, i, 0) /\ x.key = <<"temporary", b, i>>
  BY OpeningShape DEF IsTemporary
<1>2. \/ /\ y.anchor \in BlockDefinitions(g, c) /\ y.key = <<"value", DefinedBy(g, y.anchor)>>
      \/ \E i : y.anchor = Anchor("temporary", c, i, 0) /\ y.key = <<"temporary", c, i>>
  BY OpeningShape DEF IsTemporary
<1>3. \A v, i, j : <<"value", v>> # <<"temporary", i, j>>
  OBVIOUS
<1>4. \A v, w : <<"value", v>> = <<"value", w>> => v = w
  OBVIOUS
<1>5. CASE /\ x.anchor \in BlockDefinitions(g, b) /\ x.key = <<"value", DefinedBy(g, x.anchor)>>
           /\ y.anchor \in BlockDefinitions(g, c) /\ y.key = <<"value", DefinedBy(g, y.anchor)>>
  <2>0. <<"value", DefinedBy(g, x.anchor)>> = <<"value", DefinedBy(g, y.anchor)>>
    BY <1>5, Zenon
  <2>1. DefinedBy(g, x.anchor) = DefinedBy(g, y.anchor)
    BY <2>0, <1>4, Zenon
  <2>. QED BY <2>1, <1>5, DefinitionsDiffer
<1>6. ASSUME NEW i, NEW j,
             x.anchor = Anchor("temporary", b, i, 0), x.key = <<"temporary", b, i>>,
             y.anchor = Anchor("temporary", c, j, 0), y.key = <<"temporary", c, j>>
      PROVE  x.anchor = y.anchor
  <2>0. <<"temporary", b, i>> = <<"temporary", c, j>>
    BY <1>6, Zenon
  <2>1. b = c /\ i = j
    BY <2>0
  <2>. QED BY <2>1, <1>6
<1>. QED BY <1>1, <1>2, <1>3, <1>5, <1>6

-----------------------------------------------------------------------------
(* The scan of a whole graph.                                              *)

OccurrencesIn(g, b) ==
  BlockSet(g, Origins(g.values, Code(g, b)), b, BlockStarts(g.blocks)[b])
GraphSet(g) == UNION {OccurrencesIn(g, b) : b \in DOMAIN g.blocks}

GraphScan(g) ==
  FlattenSeq([b \in DOMAIN g.blocks |->
                ScanBlock(g, Origins(g.values, Code(g, b)), b, BlockStarts(g.blocks)[b])])

LEMMA GraphListed ==
  ASSUME NEW g, CfgVerified(g)
  PROVE  Lists(GraphScan(g), GraphSet(g))
<1>. DEFINE n == Len(g.blocks)
            F == [b \in 1 .. n |-> OccurrencesIn(g, b)]
            scan == [b \in 1 .. n |-> ScanBlock(g, Origins(g.values, Code(g, b)), b, BlockStarts(g.blocks)[b])]
<1>1. n \in Nat /\ DOMAIN g.blocks = 1 .. n
  BY GraphShape
<1>2. \A b \in 1 .. n : F[b] = OccurrencesIn(g, b)
  OBVIOUS
<1>3. scan = [b \in 1 .. n |-> scan[b]]
  OBVIOUS
<1>4. \A b \in 1 .. n : scan[b] = ScanBlock(g, Origins(g.values, Code(g, b)), b, BlockStarts(g.blocks)[b])
  OBVIOUS
<1>5. GraphScan(g) = FlattenSeq(scan)
  BY <1>1 DEF GraphScan
<1>6. GraphSet(g) = UNION {F[b] : b \in 1 .. n}
  BY <1>1, <1>2 DEF GraphSet
<1>. HIDE DEF n, F, scan
<1>7. \A b \in 1 .. n : Lists(scan[b], F[b]) /\ \A x \in F[b] : x.anchor.block = b
  <2>. TAKE b \in 1 .. n
  <2>1. BlockStarts(g.blocks)[b] \in Nat /\ b \in DOMAIN g.blocks
    BY <1>1, BlocksStart
  <2>. QED BY <2>1, <1>2, <1>4, BlockListed DEF OccurrencesIn
<1>8. \A b, c \in 1 .. n : b # c => \A x \in F[b], y \in F[c] : x.anchor # y.anchor
  BY <1>7
<1>9. \A b \in 1 .. n : Lists(scan[b], F[b])
  BY <1>7
<1>. QED BY <1>1, <1>3, <1>5, <1>6, <1>8, <1>9, ListsFlattened

Openings(s) ==
  FlattenSeq([o \in DOMAIN s |-> IF s[o].kind \in {"def", "temporary"} THEN <<s[o]>> ELSE <<>>])

LEMMA OpeningsListed ==
  ASSUME NEW s, NEW E, Lists(s, E)
  PROVE  Lists(Openings(s), {x \in E : Opens(x)})
<1>. DEFINE n == Len(s)
            F == [o \in 1 .. n |-> IF Opens(s[o]) THEN {s[o]} ELSE {}]
            seqs == [o \in 1 .. n |-> IF s[o].kind \in {"def", "temporary"} THEN <<s[o]>> ELSE <<>>]
<1>1. n \in Nat /\ DOMAIN s = 1 .. n
  BY LenProperties DEF Lists
<1>2. Openings(s) = FlattenSeq(seqs)
  BY <1>1 DEF Openings
<1>3. seqs = [o \in 1 .. n |-> seqs[o]]
  OBVIOUS
<1>4. \A o \in 1 .. n : /\ seqs[o] = IF Opens(s[o]) THEN <<s[o]>> ELSE <<>>
                        /\ F[o] = IF Opens(s[o]) THEN {s[o]} ELSE {}
  BY DEF Opens
<1>. HIDE DEF n, F, seqs
<1>5. \A o \in 1 .. n : Lists(seqs[o], F[o])
  BY <1>4, ListsOne, ListsNothing
<1>6. \A i, j \in 1 .. n : i # j => \A x \in F[i], y \in F[j] : x.anchor # y.anchor
  <2>1. \A o \in 1 .. n : \A x \in F[o] : x = s[o]
    BY <1>4
  <2>2. \A i, j \in 1 .. n : s[i].anchor = s[j].anchor => i = j
    BY <1>1 DEF Lists, AnchorsDiffer
  <2>. QED BY <2>1, <2>2
<1>7. {x \in E : Opens(x)} = UNION {F[o] : o \in 1 .. n}
  <2>1. \A o \in 1 .. n : s[o] \in E
    BY <1>1 DEF Lists
  <2>2. \A x \in E : \E o \in 1 .. n : s[o] = x
    BY <1>1 DEF Lists
  <2>3. ASSUME NEW x \in E, Opens(x) PROVE \E o \in 1 .. n : x \in F[o]
    <3>1. PICK o \in 1 .. n : s[o] = x
      BY <2>2
    <3>. QED BY <3>1, <2>3, <1>4
  <2>4. ASSUME NEW o \in 1 .. n, NEW x \in F[o] PROVE x \in E /\ Opens(x)
    BY <2>1, <1>4
  <2>. QED BY <2>3, <2>4
<1>. QED BY <1>1, <1>2, <1>3, <1>5, <1>6, <1>7, ListsFlattened

\* Each occurrence's live range is opened once, in its block, before it.
LEMMA ScanOpened ==
  ASSUME NEW g, CfgVerified(g), NEW s, s = GraphScan(g), NEW w, w = Openings(s)
  PROVE  /\ \A o \in DOMAIN s : \E r \in DOMAIN w : w[r].key = s[o].key
         /\ \A o \in DOMAIN s, r \in DOMAIN w : w[r].key = s[o].key =>
              w[r].anchor.block = s[o].anchor.block /\ w[r].from <= s[o].from
         /\ \A o \in DOMAIN s, r \in DOMAIN w : w[r].key = s[o].key /\ Opens(s[o]) => w[r] = s[o]
         /\ \A q, r \in DOMAIN w : w[q].key = w[r].key => q = r
         /\ \A r \in DOMAIN w : \E o \in DOMAIN s : w[r] = s[o]
<1>. DEFINE E == GraphSet(g)
            W == {x \in E : Opens(x)}
            start(b) == BlockStarts(g.blocks)[b]
            origin(b) == Origins(g.values, Code(g, b))
<1>1. Lists(s, E) /\ Lists(w, W)
  BY GraphListed, OpeningsListed
<1>2. \A b \in DOMAIN g.blocks : start(b) \in Nat
  BY BlocksStart
<1>3. ASSUME NEW b \in DOMAIN g.blocks, NEW x \in OccurrencesIn(g, b)
      PROVE  /\ x \in E /\ x.anchor.block = b /\ x.from \in Nat
             /\ \E y \in OccurrencesIn(g, b) : Opens(y) /\ y.key = x.key /\ y.from <= x.from
  <2>1. x \in BlockSet(g, origin(b), b, start(b))
    BY <1>3 DEF OccurrencesIn
  <2>2. x \in E
    BY <1>3 DEF GraphSet
  <2>3. x.anchor.block = b /\ x.from \in Nat
    BY <2>1, <1>2, BlockListed, OccurrencesLie
  <2>4. OpenedBy(g, origin(b), b, start(b), x.key, x.from)
    BY <2>1, <1>2, OccurrenceOpened
  <2>. QED BY <2>2, <2>3, <2>4 DEF OpenedBy, OccurrencesIn
<1>4. ASSUME NEW b \in DOMAIN g.blocks, NEW c \in DOMAIN g.blocks,
             NEW x \in OccurrencesIn(g, b), NEW y \in OccurrencesIn(g, c),
             Opens(x), Opens(y), x.key = y.key
      PROVE  x.anchor = y.anchor
  BY <1>2, <1>4, OpeningUnique DEF OccurrencesIn
<1>5. \A x \in E : \E b \in DOMAIN g.blocks : x \in OccurrencesIn(g, b)
  BY DEF GraphSet
<1>6. \A x, y \in E : x.anchor = y.anchor => x = y
  <2>1. \A x \in E : \E o \in DOMAIN s : s[o] = x
    BY <1>1 DEF Lists
  <2>2. \A i, j \in DOMAIN s : s[i].anchor = s[j].anchor => i = j
    BY <1>1 DEF Lists, AnchorsDiffer
  <2>. HIDE DEF E
  <2>. QED BY <2>1, <2>2
<1>. HIDE DEF E
<1>7. \A x, y \in W : x.key = y.key => x = y
  <2>. SUFFICES ASSUME NEW x \in W, NEW y \in W, x.key = y.key PROVE x = y
    OBVIOUS
  <2>1. PICK b \in DOMAIN g.blocks : x \in OccurrencesIn(g, b)
    BY <1>5
  <2>2. PICK c \in DOMAIN g.blocks : y \in OccurrencesIn(g, c)
    BY <1>5
  <2>. QED BY <2>1, <2>2, <1>4, <1>6
<1>8. \A x \in E : \E y \in W : y.key = x.key /\ y.anchor.block = x.anchor.block /\ y.from <= x.from
  <2>. TAKE x \in E
  <2>1. PICK b \in DOMAIN g.blocks : x \in OccurrencesIn(g, b)
    BY <1>5
  <2>2. PICK y \in OccurrencesIn(g, b) : Opens(y) /\ y.key = x.key /\ y.from <= x.from
    BY <2>1, <1>3
  <2>. QED BY <2>1, <2>2, <1>3
<1>9. /\ \A o \in DOMAIN s : s[o] \in E
      /\ \A r \in DOMAIN w : w[r] \in W
      /\ \A x \in W : \E r \in DOMAIN w : w[r] = x
      /\ \A x \in E : \E o \in DOMAIN s : s[o] = x
  <2>1. /\ s \in Seq(E) /\ w \in Seq(W)
        /\ \A x \in W : \E r \in DOMAIN w : w[r] = x
        /\ \A x \in E : \E o \in DOMAIN s : s[o] = x
    BY <1>1 DEF Lists
  <2>. HIDE DEF W
  <2>. QED BY <2>1, LenProperties
<1>10. W \subseteq E /\ \A x \in W : Opens(x)
  OBVIOUS
<1>11. \A x \in E : Opens(x) => x \in W
  OBVIOUS
<1>. HIDE DEF W
<1>12. \A o \in DOMAIN s : \E r \in DOMAIN w : w[r].key = s[o].key
  BY <1>8, <1>9
<1>13. ASSUME NEW o \in DOMAIN s, NEW r \in DOMAIN w, w[r].key = s[o].key
       PROVE  /\ w[r].anchor.block = s[o].anchor.block /\ w[r].from <= s[o].from
              /\ Opens(s[o]) => w[r] = s[o]
  <2>1. PICK y \in W : y.key = s[o].key /\ y.anchor.block = s[o].anchor.block /\ y.from <= s[o].from
    BY <1>8, <1>9
  <2>2. y = w[r]
    BY <2>1, <1>7, <1>9, <1>13
  <2>3. Opens(s[o]) => w[r] = s[o]
    BY <1>7, <1>9, <1>11, <1>13
  <2>. QED BY <2>1, <2>2, <2>3
<1>14. \A q, r \in DOMAIN w : w[q].key = w[r].key => q = r
  BY <1>1, <1>7, <1>9 DEF Lists, AnchorsDiffer
<1>. QED BY <1>9, <1>10, <1>12, <1>13, <1>14

-----------------------------------------------------------------------------
(* What the scanner hands to the allocator.                                *)

Tos(s, key) == {s[o].to : o \in OccurrencesOf(s, key)}

LEMMA ProblemShape ==
  ASSUME NEW g, CfgVerified(g), NEW p, p = ScanLiveRanges(g), NEW s, s = GraphScan(g),
         NEW w, w = Openings(s)
  PROVE  /\ p.graph = g /\ p.starts = BlockStarts(g.blocks)
         /\ \A b \in DOMAIN g.blocks : p.origin[b] = Origins(g.values, Code(g, b))
         /\ s \in Seq(GraphSet(g)) /\ Len(s) \in Nat /\ DOMAIN s = 1 .. Len(s)
         /\ \A o \in DOMAIN s : s[o] \in GraphSet(g)
         /\ Len(w) \in Nat /\ DOMAIN w = 1 .. Len(w)
         /\ Len(p.occs) = Len(s) /\ DOMAIN p.occs = DOMAIN s
         /\ Len(p.ranges) = Len(w) /\ DOMAIN p.ranges = DOMAIN w
         /\ \A r \in DOMAIN w :
              /\ p.ranges[r].key = w[r].key /\ p.ranges[r].block = w[r].anchor.block
              /\ p.ranges[r].from = w[r].from
              /\ p.ranges[r].occurrences = OccurrencesOf(s, w[r].key)
              /\ p.ranges[r].to = Max(Tos(s, w[r].key))
         /\ \A o \in DOMAIN s :
              /\ p.occs[o].range \in DOMAIN w /\ w[p.occs[o].range].key = s[o].key
              /\ p.occs[o].pos = s[o].pos /\ p.occs[o].from = s[o].from /\ p.occs[o].to = s[o].to
              /\ p.occs[o].key = s[o].key /\ p.occs[o].kind = s[o].kind /\ p.occs[o].anchor = s[o].anchor
              /\ p.occs[o].required = s[o].required /\ p.occs[o].fixed = s[o].fixed
              /\ p.occs[o].copy = s[o].copy
         /\ p.clobbers = ClobberReservations(g, p.starts)
         /\ p.affinities = BlockEdgeAffinities(g, s)
<1>. DEFINE starts == BlockStarts(g.blocks)
            origin == [b \in DOMAIN g.blocks |-> Origins(g.values, g.blocks[b].code)]
            scanned == FlattenSeq([b \in DOMAIN g.blocks |-> ScanBlock(g, origin[b], b, starts[b])])
            ranges == LiveRangesOf(scanned)
            occs == [o \in DOMAIN scanned |->
                       [scanned[o] EXCEPT !.range =
                          CHOOSE r \in DOMAIN ranges : ranges[r].key = scanned[o].key]]
<1>1. /\ p.graph = g /\ p.starts = starts /\ p.origin = origin /\ p.occs = occs /\ p.ranges = ranges
      /\ p.clobbers = ClobberReservations(g, starts) /\ p.affinities = BlockEdgeAffinities(g, scanned)
  BY DEF ScanLiveRanges
<1>2. \A b \in DOMAIN g.blocks : origin[b] = Origins(g.values, Code(g, b))
  BY DEF Code
<1>3. scanned = s
  <2>. HIDE DEF origin
  <2>1. [b \in DOMAIN g.blocks |-> ScanBlock(g, origin[b], b, starts[b])]
          = [b \in DOMAIN g.blocks |-> ScanBlock(g, Origins(g.values, Code(g, b)), b, BlockStarts(g.blocks)[b])]
    BY <1>2
  <2>. QED BY <2>1 DEF GraphScan
<1>. HIDE DEF scanned, origin
<1>4. Lists(s, GraphSet(g)) /\ Lists(w, {x \in GraphSet(g) : Opens(x)})
  BY GraphListed, OpeningsListed
<1>5. /\ s \in Seq(GraphSet(g)) /\ Len(s) \in Nat /\ DOMAIN s = 1 .. Len(s)
      /\ \A o \in DOMAIN s : s[o] \in GraphSet(g)
      /\ Len(w) \in Nat /\ DOMAIN w = 1 .. Len(w)
  BY <1>4, LenProperties DEF Lists
<1>6. ranges = [r \in DOMAIN w |->
         LET mine == OccurrencesOf(s, w[r].key)
         IN  [key |-> w[r].key, block |-> w[r].anchor.block,
              from |-> w[r].from, to |-> Max({s[o].to : o \in mine}),
              occurrences |-> mine]]
  BY <1>3 DEF LiveRangesOf, Openings
<1>7. DOMAIN ranges = DOMAIN w /\ \A r \in DOMAIN w :
        /\ ranges[r].key = w[r].key /\ ranges[r].block = w[r].anchor.block
        /\ ranges[r].from = w[r].from
        /\ ranges[r].occurrences = OccurrencesOf(s, w[r].key)
        /\ ranges[r].to = Max(Tos(s, w[r].key))
  BY <1>6 DEF Tos
<1>8. Len(ranges) = Len(w)
  BY <1>5, <1>6
<1>. HIDE DEF ranges
<1>9. DOMAIN occs = DOMAIN s /\ Len(occs) = Len(s)
  BY <1>3, <1>5
<1>10. ASSUME NEW o \in DOMAIN s
       PROVE  /\ occs[o].range \in DOMAIN w /\ w[occs[o].range].key = s[o].key
              /\ occs[o].pos = s[o].pos /\ occs[o].from = s[o].from /\ occs[o].to = s[o].to
              /\ occs[o].key = s[o].key /\ occs[o].kind = s[o].kind /\ occs[o].anchor = s[o].anchor
              /\ occs[o].required = s[o].required /\ occs[o].fixed = s[o].fixed
              /\ occs[o].copy = s[o].copy
  <2>. DEFINE q == CHOOSE r \in DOMAIN ranges : ranges[r].key = s[o].key
  <2>1. \E r \in DOMAIN w : w[r].key = s[o].key
    BY ScanOpened
  <2>2. q \in DOMAIN w /\ w[q].key = s[o].key
    <3>1. DOMAIN ranges = DOMAIN w /\ \A r \in DOMAIN w : ranges[r].key = w[r].key
      BY <1>7
    <3>2. \E r \in DOMAIN ranges : ranges[r].key = s[o].key
      BY <2>1, <3>1
    <3>3. q \in DOMAIN ranges /\ ranges[q].key = s[o].key
      BY <3>2
    <3>. HIDE DEF q
    <3>. QED BY <3>1, <3>3
  <2>3. occs[o] = [s[o] EXCEPT !.range = q]
    BY <1>3
  <2>4. DOMAIN s[o] = Fields
    <3>1. PICK b \in DOMAIN g.blocks : s[o] \in OccurrencesIn(g, b)
      BY <1>5 DEF GraphSet
    <3>2. BlockStarts(g.blocks)[b] \in Nat
      BY BlocksStart
    <3>3. Placed(g, Origins(g.values, Code(g, b)), b, BlockStarts(g.blocks)[b], s[o])
      BY <3>1, <3>2, BlockListed DEF OccurrencesIn
    <3>. QED BY <3>3 DEF Placed, OccurrenceOK
  <2>. HIDE DEF q, occs
  <2>. QED BY <2>2, <2>3, <2>4 DEF Fields
<1>. HIDE DEF occs
<1>. QED BY <1>1, <1>2, <1>3, <1>5, <1>7, <1>8, <1>9, <1>10

\* An occurrence of the scan, in its block.
LEMMA OccurrencePlaced ==
  ASSUME NEW g, CfgVerified(g), NEW x \in GraphSet(g), NEW b, b = x.anchor.block,
         NEW O, O = Origins(g.values, Code(g, b)), NEW start, start = BlockStarts(g.blocks)[b]
  PROVE  /\ b \in DOMAIN g.blocks /\ start \in Nat
         /\ x \in BlockSet(g, O, b, start) /\ Placed(g, O, b, start, x)
         /\ x.from \in Nat /\ x.pos \in Nat /\ x.to \in Nat
         /\ start <= x.from /\ x.from <= x.pos /\ x.pos < x.to
         /\ x.to <= ExitOf(start, g.blocks[b]) + 1
<1>1. PICK c \in DOMAIN g.blocks : x \in OccurrencesIn(g, c)
  BY DEF GraphSet
<1>2. c = b
  <2>1. BlockStarts(g.blocks)[c] \in Nat
    BY BlocksStart
  <2>. QED BY <1>1, <2>1, BlockListed DEF OccurrencesIn
<1>3. b \in DOMAIN g.blocks /\ start \in Nat
  BY <1>1, <1>2, BlocksStart
<1>4. x \in BlockSet(g, O, b, start)
  BY <1>1, <1>2 DEF OccurrencesIn
<1>5. Placed(g, O, b, start, x)
  BY <1>3, <1>4, BlockListed
<1>6. /\ x.from \in Nat /\ x.pos \in Nat /\ x.to \in Nat
      /\ start <= x.from /\ x.from <= x.pos /\ x.pos < x.to
      /\ x.to <= ExitOf(start, g.blocks[b]) + 1
  BY <1>3, <1>4, OccurrencesLie
<1>. QED BY <1>3, <1>4, <1>5, <1>6

LEMMA RangeShape ==
  ASSUME NEW g, CfgVerified(g), NEW p, p = ScanLiveRanges(g), NEW r \in DOMAIN p.ranges
  PROVE  /\ RangeVerified(p, r) /\ RangeScanned(p, r)
         /\ \A o \in DOMAIN p.occs : p.occs[o].range = r <=> o \in p.ranges[r].occurrences
         /\ \A o \in p.ranges[r].occurrences :
              /\ o \in DOMAIN p.occs /\ p.occs[o].key = p.ranges[r].key
              /\ p.ranges[r].from <= p.occs[o].from /\ p.occs[o].to <= p.ranges[r].to
              /\ p.occs[o].anchor.block = p.ranges[r].block
              /\ p.occs[o].kind \in {"def", "temporary"} => p.occs[o].from = p.ranges[r].from
              /\ p.ranges[r].key[1] # "value" =>
                   p.occs[o].from = p.ranges[r].from /\ p.occs[o].to = p.ranges[r].to
         /\ \A o \in DOMAIN p.occs : p.occs[o].key = p.ranges[r].key => p.occs[o].range = r
<1>. DEFINE s == GraphScan(g)
            w == Openings(s)
            mine == OccurrencesOf(s, w[r].key)
            tos == Tos(s, w[r].key)
            b == w[r].anchor.block
            start == BlockStarts(g.blocks)[b]
            exit == ExitOf(start, g.blocks[b])
<1>1. /\ p.graph = g /\ p.starts = BlockStarts(g.blocks)
      /\ DOMAIN p.occs = DOMAIN s /\ DOMAIN p.ranges = DOMAIN w /\ r \in DOMAIN w
      /\ \A o \in DOMAIN s : s[o] \in GraphSet(g)
      /\ p.ranges[r].key = w[r].key /\ p.ranges[r].block = b
      /\ p.ranges[r].from = w[r].from /\ p.ranges[r].occurrences = mine
      /\ p.ranges[r].to = Max(tos)
      /\ \A o \in DOMAIN s :
           /\ p.occs[o].range \in DOMAIN w /\ w[p.occs[o].range].key = s[o].key
           /\ p.occs[o].from = s[o].from /\ p.occs[o].to = s[o].to
           /\ p.occs[o].key = s[o].key /\ p.occs[o].anchor = s[o].anchor /\ p.occs[o].kind = s[o].kind
  <2>1. s = GraphScan(g) /\ w = Openings(s)
    OBVIOUS
  <2>. HIDE DEF s, w
  <2>2. /\ p.graph = g /\ p.starts = BlockStarts(g.blocks)
        /\ DOMAIN p.occs = DOMAIN s /\ DOMAIN p.ranges = DOMAIN w
        /\ \A o \in DOMAIN s : s[o] \in GraphSet(g)
    BY <2>1, ProblemShape
  <2>3. \A q \in DOMAIN w :
          /\ p.ranges[q].key = w[q].key /\ p.ranges[q].block = w[q].anchor.block
          /\ p.ranges[q].from = w[q].from
          /\ p.ranges[q].occurrences = OccurrencesOf(s, w[q].key)
          /\ p.ranges[q].to = Max(Tos(s, w[q].key))
    BY <2>1, ProblemShape
  <2>4. \A o \in DOMAIN s :
          /\ p.occs[o].range \in DOMAIN w /\ w[p.occs[o].range].key = s[o].key
          /\ p.occs[o].from = s[o].from /\ p.occs[o].to = s[o].to
          /\ p.occs[o].key = s[o].key /\ p.occs[o].anchor = s[o].anchor /\ p.occs[o].kind = s[o].kind
    BY <2>1, ProblemShape
  <2>5. /\ r \in DOMAIN w
        /\ p.ranges[r].key = w[r].key /\ p.ranges[r].block = w[r].anchor.block
        /\ p.ranges[r].from = w[r].from
        /\ p.ranges[r].occurrences = OccurrencesOf(s, w[r].key)
        /\ p.ranges[r].to = Max(Tos(s, w[r].key))
    BY <2>2, <2>3
  <2>. QED BY <2>2, <2>4, <2>5
<1>2. /\ \A o \in DOMAIN s : w[r].key = s[o].key => b = s[o].anchor.block /\ w[r].from <= s[o].from
      /\ \A o \in DOMAIN s : w[r].key = s[o].key /\ Opens(s[o]) => w[r] = s[o]
      /\ \A q \in DOMAIN w : w[q].key = w[r].key => q = r
      /\ \E o \in DOMAIN s : w[r] = s[o]
  BY <1>1, ScanOpened
<1>. HIDE DEF s, w
<1>0. mine = {o \in DOMAIN s : s[o].key = w[r].key} /\ tos = {s[o].to : o \in mine}
  BY DEF OccurrencesOf, Tos
<1>. HIDE DEF mine, tos
<1>3. PICK f \in DOMAIN s : w[r] = s[f]
  BY <1>2
<1>4. \A o \in mine : /\ s[o].anchor.block = b /\ w[r].from <= s[o].from
                      /\ s[o].from \in Nat /\ s[o].to \in Nat /\ s[o].from < s[o].to
                      /\ s[o].to <= exit + 1
  <2>. TAKE o \in mine
  <2>1. o \in DOMAIN s /\ s[o].key = w[r].key /\ s[o].anchor.block = b
    BY <1>0, <1>2
  <2>2. s[o] \in GraphSet(g)
    BY <1>1, <2>1
  <2>. HIDE DEF b
  <2>3. b = s[o].anchor.block
    BY <2>1
  <2>. QED BY <2>1, <2>2, <2>3, <1>2, OccurrencePlaced
<1>5. /\ b \in DOMAIN g.blocks /\ start \in Nat /\ start <= w[r].from /\ w[r].from \in Nat
  <2>1. w[r] \in GraphSet(g)
    BY <1>1, <1>3
  <2>. QED BY <2>1, OccurrencePlaced
<1>6. exit \in Nat /\ exit + 1 <= start + BlockSize(g.blocks[b])
  <2>1. Len(g.blocks[b].code) \in Nat
    BY <1>5, BlockShape
  <2>2. PICK n \in Nat : n = Len(g.blocks[b].code)
    BY <2>1
  <2>3. exit = start + 2 + 2 * n /\ BlockSize(g.blocks[b]) = (n + 2) * 2
    BY <2>2 DEF ExitOf, BlockSize
  <2>. HIDE DEF exit, start
  <2>. QED BY <2>3, <1>5
<1>7. f \in mine
  BY <1>0, <1>3
<1>8. Max(tos) \in tos /\ \A x \in tos : x <= Max(tos)
  <2>1. tos \in SUBSET Nat /\ tos # {} /\ \A x \in tos : x <= exit + 1
    BY <1>0, <1>4, <1>7
  <2>2. exit + 1 \in Nat
    BY <1>6
  <2>. QED BY <2>1, <2>2, MaxOfNaturals
<1>9. PICK last \in mine : s[last].to = Max(tos)
  BY <1>0, <1>8
<1>10. \A o \in mine : s[o].to <= Max(tos)
  BY <1>0, <1>8
<1>11. \A o \in DOMAIN s : p.occs[o].range = r <=> o \in mine
  BY <1>0, <1>1, <1>2
<1>. HIDE DEF start, exit, b
<1>12. /\ p.ranges[r].from = w[r].from /\ p.ranges[r].to = Max(tos) /\ p.ranges[r].block = b
       /\ p.ranges[r].occurrences = mine /\ mine \subseteq DOMAIN p.occs /\ mine # {}
       /\ w[r].from < Max(tos) /\ Max(tos) <= exit + 1 /\ Max(tos) \in Nat
  <2>1. w[r].from < s[last].to /\ s[last].to <= exit + 1 /\ s[last].to \in Nat
    BY <1>4, <1>5, <1>9
  <2>. QED BY <2>1, <1>0, <1>1, <1>9
<1>13. RangeVerified(p, r)
  <2>1. start <= p.ranges[r].from /\ p.ranges[r].from < p.ranges[r].to
        /\ p.ranges[r].to <= start + BlockSize(g.blocks[b])
    <3>1. BlockSize(g.blocks[b]) \in Nat
      BY <1>5, BlockShape DEF BlockSize
    <3>. QED BY <3>1, <1>5, <1>6, <1>12
  <2>2. \A o \in mine : p.occs[o].range = r
    BY <1>0, <1>11
  <2>. QED BY <2>1, <2>2, <1>1, <1>12 DEF RangeVerified, start
<1>14. w[r].key[1] # "value" => \A o \in mine : w[r] = s[o]
  <2>. SUFFICES ASSUME w[r].key[1] # "value", NEW o \in mine PROVE w[r] = s[o]
    OBVIOUS
  <2>. DEFINE x == s[o]
              O == Origins(g.values, Code(g, b))
  <2>1. x \in GraphSet(g) /\ x.key = w[r].key /\ x.anchor.block = b
    BY <1>0, <1>1, <1>4
  <2>2. Placed(g, O, b, start, x)
    <3>. HIDE DEF x, O
    <3>1. b = x.anchor.block /\ start = BlockStarts(g.blocks)[b] /\ O = Origins(g.values, Code(g, b))
      BY <2>1 DEF start, O
    <3>. QED BY <2>1, <3>1, OccurrencePlaced
  <2>3. x.key[1] # "value"
    BY <2>1
  <2>4. \A v : <<"value", v>>[1] = "value"
    OBVIOUS
  <2>5. \E i \in DOMAIN Code(g, b) : IsTemporary(b, start, i, x)
    <3>. HIDE DEF x
    <3>1. ~\E v : x.key = <<"value", v>>
      BY <2>3, <2>4
    <3>. QED BY <3>1, <2>2 DEF Placed, IsParameter, IsUse, IsResult, IsEdge
  <2>6. Opens(x)
    BY <2>5 DEF IsTemporary, Opens
  <2>. QED BY <2>6, <1>0, <1>2
<1>16. p.ranges[r].key[1] # "value" =>
         \A o \in mine : p.occs[o].from = p.ranges[r].from /\ p.occs[o].to = p.ranges[r].to
  <2>. SUFFICES ASSUME w[r].key[1] # "value", NEW o \in mine
                PROVE  s[o].from = w[r].from /\ s[o].to = Max(tos)
    BY <1>0, <1>1, <1>12
  <2>1. w[r] = s[o] /\ w[r] = s[last]
    BY <1>14
  <2>. QED BY <2>1, <1>9
<1>17. \A o \in mine : p.occs[o].kind \in {"def", "temporary"} => p.occs[o].from = p.ranges[r].from
  BY <1>0, <1>1, <1>2 DEF Opens
<1>18. \A o \in DOMAIN p.occs : p.occs[o].key = p.ranges[r].key => p.occs[o].range = r
  BY <1>0, <1>1, <1>11
<1>15. RangeScanned(p, r)
  <2>1. p.ranges[r].to <= ExitOf(p.starts[b], p.graph.blocks[b]) + 1
    BY <1>1, <1>12 DEF exit, start
  <2>2. \E o \in mine : p.occs[o].to = p.ranges[r].to
    BY <1>1, <1>9, <1>12
  <2>. QED BY <2>1, <2>2, <1>1, <1>5, <1>12, <1>16 DEF RangeScanned, Blocks
<1>. QED BY <1>0, <1>1, <1>4, <1>10, <1>11, <1>12, <1>13, <1>15, <1>16, <1>17, <1>18

\* An occurrence of the problem is one of the scan, with its range.
LEMMA OccurrenceFacts ==
  ASSUME NEW g, CfgVerified(g), NEW p, p = ScanLiveRanges(g), NEW s, s = GraphScan(g),
         NEW o \in DOMAIN p.occs, NEW b, b = s[o].anchor.block,
         NEW O, O = Origins(g.values, Code(g, b)), NEW start, start = BlockStarts(g.blocks)[b]
  PROVE  LET x == s[o]
             occ == p.occs[o]
             range == p.ranges[occ.range]
         IN  /\ o \in DOMAIN s /\ x \in GraphSet(g)
             /\ b \in DOMAIN g.blocks /\ start \in Nat
             /\ x \in BlockSet(g, O, b, start) /\ Placed(g, O, b, start, x)
             /\ x.from \in Nat /\ x.pos \in Nat /\ x.to \in Nat
             /\ x.from <= x.pos /\ x.pos < x.to
             /\ occ.pos = x.pos /\ occ.from = x.from /\ occ.to = x.to
             /\ occ.key = x.key /\ occ.kind = x.kind /\ occ.anchor = x.anchor
             /\ occ.required = x.required /\ occ.fixed = x.fixed /\ occ.copy = x.copy
             /\ p.graph = g /\ p.starts[b] = start /\ p.origin[b] = O
             /\ occ.range \in DOMAIN p.ranges /\ o \in range.occurrences
             /\ range.key = x.key /\ range.block = b
             /\ range.from <= x.from /\ x.to <= range.to
             /\ x.kind \in {"def", "temporary"} => x.from = range.from
             /\ x.key[1] # "value" => x.from = range.from /\ x.to = range.to
<1>. DEFINE x == s[o]
            occ == p.occs[o]
            w == Openings(s)
<1>1. w = Openings(s)
  OBVIOUS
<1>. HIDE DEF w
<1>2. /\ p.graph = g /\ p.starts = BlockStarts(g.blocks)
      /\ DOMAIN p.occs = DOMAIN s /\ DOMAIN p.ranges = DOMAIN w
      /\ \A q \in DOMAIN s : s[q] \in GraphSet(g)
      /\ \A c \in DOMAIN g.blocks : p.origin[c] = Origins(g.values, Code(g, c))
  BY <1>1, ProblemShape
<1>3. \A q \in DOMAIN s :
              /\ p.occs[q].range \in DOMAIN w
              /\ p.occs[q].pos = s[q].pos /\ p.occs[q].from = s[q].from /\ p.occs[q].to = s[q].to
              /\ p.occs[q].key = s[q].key /\ p.occs[q].kind = s[q].kind /\ p.occs[q].anchor = s[q].anchor
              /\ p.occs[q].required = s[q].required /\ p.occs[q].fixed = s[q].fixed
              /\ p.occs[q].copy = s[q].copy
  BY <1>1, ProblemShape
<1>4. /\ o \in DOMAIN s /\ x \in GraphSet(g)
      /\ occ.range \in DOMAIN p.ranges
      /\ occ.pos = x.pos /\ occ.from = x.from /\ occ.to = x.to
      /\ occ.key = x.key /\ occ.kind = x.kind /\ occ.anchor = x.anchor
      /\ occ.required = x.required /\ occ.fixed = x.fixed /\ occ.copy = x.copy
  BY <1>2, <1>3
<1>5. x.anchor.block = b
  OBVIOUS
<1>. HIDE DEF x, occ
<1>6. /\ b \in DOMAIN g.blocks /\ start \in Nat
      /\ x \in BlockSet(g, O, b, start) /\ Placed(g, O, b, start, x)
      /\ x.from \in Nat /\ x.pos \in Nat /\ x.to \in Nat
      /\ x.from <= x.pos /\ x.pos < x.to
  BY <1>4, <1>5, OccurrencePlaced
<1>7. PICK r \in DOMAIN p.ranges : r = occ.range
  BY <1>4
<1>8. /\ \A q \in DOMAIN p.occs : p.occs[q].range = r <=> q \in p.ranges[r].occurrences
      /\ \A q \in p.ranges[r].occurrences :
           /\ q \in DOMAIN p.occs /\ p.occs[q].key = p.ranges[r].key
           /\ p.ranges[r].from <= p.occs[q].from /\ p.occs[q].to <= p.ranges[r].to
           /\ p.occs[q].anchor.block = p.ranges[r].block
           /\ p.occs[q].kind \in {"def", "temporary"} => p.occs[q].from = p.ranges[r].from
           /\ p.ranges[r].key[1] # "value" =>
                p.occs[q].from = p.ranges[r].from /\ p.occs[q].to = p.ranges[r].to
  BY RangeShape
<1>9. o \in p.ranges[r].occurrences
  BY <1>7, <1>8 DEF occ
<1>10. /\ occ.key = p.ranges[r].key
       /\ p.ranges[r].from <= occ.from /\ occ.to <= p.ranges[r].to
       /\ occ.anchor.block = p.ranges[r].block
       /\ occ.kind \in {"def", "temporary"} => occ.from = p.ranges[r].from
       /\ p.ranges[r].key[1] # "value" =>
            occ.from = p.ranges[r].from /\ occ.to = p.ranges[r].to
  BY <1>8, <1>9 DEF occ
<1>11. /\ p.ranges[r].key = x.key /\ p.ranges[r].block = b
       /\ p.ranges[r].from <= x.from /\ x.to <= p.ranges[r].to
       /\ x.kind \in {"def", "temporary"} => x.from = p.ranges[r].from
       /\ x.key[1] # "value" => x.from = p.ranges[r].from /\ x.to = p.ranges[r].to
  BY <1>4, <1>5, <1>10
<1>12. p.starts[b] = start /\ p.origin[b] = O
  BY <1>2, <1>6
<1>. QED BY <1>2, <1>4, <1>6, <1>7, <1>9, <1>11, <1>12 DEF x, occ

LEMMA AnchorsVerified ==
  ASSUME NEW g, CfgVerified(g), NEW p, p = ScanLiveRanges(g), NEW o \in DOMAIN p.occs
  PROVE  OccurrenceVerified(p, o)
<1>. DEFINE s == GraphScan(g)
            x == s[o]
            occ == p.occs[o]
            b == x.anchor.block
            O == Origins(g.values, Code(g, b))
            start == BlockStarts(g.blocks)[b]
            range == p.ranges[occ.range]
<1>1. /\ o \in DOMAIN s /\ x \in GraphSet(g)
      /\ b \in DOMAIN g.blocks /\ start \in Nat
      /\ x \in BlockSet(g, O, b, start) /\ Placed(g, O, b, start, x)
      /\ x.from \in Nat /\ x.pos \in Nat /\ x.to \in Nat
      /\ x.from <= x.pos /\ x.pos < x.to
      /\ occ.pos = x.pos /\ occ.from = x.from /\ occ.to = x.to
      /\ occ.key = x.key /\ occ.kind = x.kind /\ occ.anchor = x.anchor
      /\ p.graph = g /\ p.starts[b] = start /\ p.origin[b] = O
      /\ range.key = x.key /\ range.block = b
      /\ range.from <= x.from /\ x.to <= range.to
      /\ x.key[1] # "value" => x.from = range.from /\ x.to = range.to
  <2>1. s = GraphScan(g) /\ b = s[o].anchor.block /\ O = Origins(g.values, Code(g, b)) /\ start = BlockStarts(g.blocks)[b]
    OBVIOUS
  <2>. HIDE DEF s, b, O, start
  <2>. QED BY <2>1, OccurrenceFacts
<1>2. DOMAIN Code(g, b) = 1 .. Len(Code(g, b)) /\ Code(g, b) = g.blocks[b].code /\ Len(Code(g, b)) \in Nat
  BY <1>1, BlockShape DEF Code
<1>. HIDE DEF s, O, start
<1>3. CASE \E k \in DOMAIN g.blocks[b].params : IsParameter(g, O, b, start, k, x)
  <2>1. PICK k \in DOMAIN g.blocks[b].params : IsParameter(g, O, b, start, k, x)
    BY <1>3
  <2>. HIDE DEF x
  <2>2. occ.anchor.kind = "result" /\ occ.anchor.at = 0 /\ occ.anchor.block = b
    <3>1. occ.anchor = Anchor("result", b, 0, k)
      BY <1>1, <2>1 DEF IsParameter
    <3>. HIDE DEF b, occ
    <3>. QED BY <3>1, AnchorFields
  <2>3. occ.from = start + 1 /\ occ.to = start + 2
    BY <1>1, <2>1 DEF IsParameter
  <2>4. AnchorVerified(p, o)
    <3>. HIDE DEF b
    <3>. QED BY <1>1, <2>2, <2>3 DEF AnchorVerified
  <2>. QED BY <2>4, <1>1 DEF OccurrenceVerified
<1>4. CASE \E i \in DOMAIN Code(g, b) : \E k \in DOMAIN Inputs(Code(g, b)[i]) : IsUse(g, O, b, start, i, k, x)
  <2>1. PICK i \in DOMAIN Code(g, b) : \E k \in DOMAIN Inputs(Code(g, b)[i]) : IsUse(g, O, b, start, i, k, x)
    BY <1>4
  <2>2. PICK k \in DOMAIN Inputs(Code(g, b)[i]) : IsUse(g, O, b, start, i, k, x)
    BY <2>1
  <2>. HIDE DEF x
  <2>3. i \in Nat
    BY <1>2, <2>1
  <2>4. occ.anchor.kind = "operand" /\ occ.anchor.at = i /\ occ.anchor.index = k /\ occ.anchor.block = b
    BY <1>1, <2>2, AnchorFields DEF IsUse
  <2>5. /\ occ.from = start + 2 * i
        /\ \/ occ.pos = start + 2 * i /\ occ.to = start + 2 * i + 1
           \/ occ.pos = start + 2 * i + 1 /\ occ.to = start + 2 * i + 2
        /\ range.key = <<"value", O[Inputs(Code(g, b)[i])[k].value]>>
    BY <1>1, <2>2 DEF IsUse
  <2>6. AnchorVerified(p, o)
    <3>. HIDE DEF b
    <3>1. occ.to = (IF occ.pos = start + 2 * i THEN start + 2 * i + 1 ELSE start + 2 * i + 2)
      BY <2>3, <2>5, <1>1
    <3>. QED BY <1>1, <1>2, <2>4, <2>5, <3>1 DEF AnchorVerified, EarlyOf, Coverage, ValueKey
  <2>. QED BY <2>6, <1>1 DEF OccurrenceVerified
<1>5. CASE \E i \in DOMAIN Code(g, b) : IsResult(g, O, b, start, i, x)
  <2>1. PICK i \in DOMAIN Code(g, b) : IsResult(g, O, b, start, i, x)
    BY <1>5
  <2>. HIDE DEF x
  <2>2. i \in Nat /\ i > 0
    BY <1>2, <2>1
  <2>3. occ.anchor.kind = "result" /\ occ.anchor.at = i /\ occ.anchor.block = b
    BY <1>1, <2>1, AnchorFields DEF IsResult
  <2>4. /\ occ.from = start + 2 * i + 1 /\ occ.pos = start + 2 * i + 1 /\ occ.to = start + 2 * i + 2
        /\ occ.kind \in {"def", "forwarding"}
    BY <1>1, <2>1 DEF IsResult
  <2>5. AnchorVerified(p, o)
    <3>. HIDE DEF b
    <3>1. occ.pos # start + 2 * i
      BY <2>2, <2>4, <1>1
    <3>. QED BY <1>1, <1>2, <2>2, <2>3, <2>4, <3>1 DEF AnchorVerified, EarlyOf, Coverage
  <2>. QED BY <2>5, <1>1 DEF OccurrenceVerified
<1>6. CASE \E i \in DOMAIN Code(g, b) : IsTemporary(b, start, i, x)
  <2>1. PICK i \in DOMAIN Code(g, b) : IsTemporary(b, start, i, x)
    BY <1>6
  <2>. HIDE DEF x
  <2>2. occ.anchor.kind = "temporary" /\ occ.anchor.at = i /\ occ.anchor.block = b
    BY <1>1, <2>1, AnchorFields DEF IsTemporary
  <2>3. x.key = <<"temporary", b, i>>
    BY <2>1 DEF IsTemporary
  <2>4. x.key[1] # "value"
    BY <2>3
  <2>5. occ.from = range.from /\ occ.to = range.to /\ range.key = <<"temporary", b, i>>
    BY <1>1, <2>3, <2>4
  <2>6. AnchorVerified(p, o)
    <3>. HIDE DEF b
    <3>. QED BY <1>1, <2>2, <2>5 DEF AnchorVerified, TemporaryKey
  <2>. QED BY <2>6, <1>1 DEF OccurrenceVerified
<1>7. CASE \E e \in DOMAIN g.blocks[b].edges : \E k \in DOMAIN g.blocks[b].edges[e].args :
             IsEdge(g, O, b, start, e, k, x)
  <2>1. PICK e \in DOMAIN g.blocks[b].edges : \E k \in DOMAIN g.blocks[b].edges[e].args :
             IsEdge(g, O, b, start, e, k, x)
    BY <1>7
  <2>2. PICK k \in DOMAIN g.blocks[b].edges[e].args : IsEdge(g, O, b, start, e, k, x)
    BY <2>1
  <2>. HIDE DEF x
  <2>3. occ.anchor.kind = "edge" /\ occ.anchor.at = e /\ occ.anchor.index = k /\ occ.anchor.block = b
    <3>1. occ.anchor = Anchor("edge", b, e, k)
      BY <1>1, <2>2 DEF IsEdge
    <3>. HIDE DEF b, occ
    <3>. QED BY <3>1, AnchorFields
  <2>4. /\ occ.pos = ExitOf(start, g.blocks[b]) /\ occ.from = occ.pos /\ occ.to = occ.pos + 1
        /\ range.key = <<"value", O[g.blocks[b].edges[e].args[k]]>>
    BY <1>1, <2>2 DEF IsEdge
  <2>5. AnchorVerified(p, o)
    <3>. HIDE DEF b
    <3>. QED BY <1>1, <2>3, <2>4 DEF AnchorVerified, ValueKey
  <2>. QED BY <2>5, <1>1 DEF OccurrenceVerified
<1>. QED BY <1>1, <1>3, <1>4, <1>5, <1>6, <1>7 DEF Placed

LEMMA SameRange ==
  ASSUME NEW g, CfgVerified(g), NEW p, p = ScanLiveRanges(g), NEW r \in DOMAIN p.ranges,
         NEW o \in DOMAIN p.occs, p.occs[o].key = p.ranges[r].key
  PROVE  p.occs[o].range = r
BY RangeShape

\* The operand of a guard is read before its result, which continues it, is
\* written.
LEMMA ForwardedUse ==
  ASSUME NEW g, CfgVerified(g), NEW p, p = ScanLiveRanges(g), NEW s, s = GraphScan(g),
         NEW b \in DOMAIN g.blocks, NEW O, O = Origins(g.values, Code(g, b)),
         NEW start, start = BlockStarts(g.blocks)[b], start \in Nat,
         NEW i \in DOMAIN Code(g, b), Forwards(Code(g, b)[i]),
         NEW r \in DOMAIN p.ranges, p.ranges[r].key = <<"value", O[Code(g, b)[i].result]>>
  PROVE  \E q \in DOMAIN p.occs :
           /\ p.occs[q].range = r /\ p.occs[q].required /\ p.occs[q].pos = start + 2 * i
           /\ p.occs[q].from = start + 2 * i /\ p.occs[q].to = start + 2 * i + 1
<1>. DEFINE in == Inputs(Code(g, b)[i])
            d == Anchor("result", b, i, 0)
            w == Openings(s)
<1>1. /\ d \in BlockDefinitions(g, b) /\ Code(g, b)[i].result # NoValue
  BY ForwardingShape
<1>2. /\ 1 \in DOMAIN in /\ in[1].value = Code(g, b)[i].args[1]
      /\ in[1].timing = "early" /\ in[1].req = AnyRegister
  <2>1. in = Inputs(Code(g, b)[i])
    OBVIOUS
  <2>. HIDE DEF in
  <2>. QED BY <2>1, InputsShape
<1>3. O[Code(g, b)[i].result] = O[Code(g, b)[i].args[1]]
  <2>1. d.at = i /\ d.block = b
    BY AnchorFields
  <2>2. i # 0
    BY BlockShape DEF Code
  <2>. HIDE DEF d
  <2>3. IsForwarding(g, d)
    BY <2>1, <2>2 DEF IsForwarding
  <2>4. DefinedBy(g, d) = Code(g, b)[i].result
    BY <1>1, <2>1, <2>2 DEF DefinedBy, Code
  <2>5. O[DefinedBy(g, d)] = O[Code(g, b)[i].args[1]]
    BY <1>1, <2>1, <2>3, OriginsSettled
  <2>. QED BY <2>4, <2>5
<1>4. PICK y \in BlockSet(g, O, b, start) : IsUse(g, O, b, start, i, 1, y)
  BY <1>2, BlockListed
<1>5. /\ y.key = p.ranges[r].key /\ y.required
      /\ y.pos = start + 2 * i /\ y.from = start + 2 * i /\ y.to = start + 2 * i + 1
  <2>. HIDE DEF in
  <2>1. in = Inputs(Code(g, b)[i])
    BY DEF in
  <2>. QED BY <2>1, <1>2, <1>3, <1>4 DEF IsUse
<1>6. y \in GraphSet(g)
  BY <1>4 DEF GraphSet, OccurrencesIn
<1>7. PICK q \in DOMAIN s : s[q] = y
  BY <1>6, GraphListed DEF Lists
<1>8. w = Openings(s)
  OBVIOUS
<1>. HIDE DEF w
<1>9. /\ DOMAIN p.occs = DOMAIN s
      /\ \A k \in DOMAIN s :
           /\ p.occs[k].pos = s[k].pos /\ p.occs[k].from = s[k].from /\ p.occs[k].to = s[k].to
           /\ p.occs[k].key = s[k].key /\ p.occs[k].required = s[k].required
  BY <1>8, ProblemShape
<1>10. /\ q \in DOMAIN p.occs /\ p.occs[q].required /\ p.occs[q].key = p.ranges[r].key
       /\ p.occs[q].pos = start + 2 * i
       /\ p.occs[q].from = start + 2 * i /\ p.occs[q].to = start + 2 * i + 1
  BY <1>5, <1>7, <1>9
<1>. QED BY <1>10, SameRange

LEMMA OccurrencesScanned ==
  ASSUME NEW g, CfgVerified(g), NEW p, p = ScanLiveRanges(g), NEW o \in DOMAIN p.occs
  PROVE  OccurrenceScanned(p, o)
<1>. DEFINE s == GraphScan(g)
            w == Openings(s)
            x == s[o]
            occ == p.occs[o]
            b == x.anchor.block
            O == Origins(g.values, Code(g, b))
            start == BlockStarts(g.blocks)[b]
            range == p.ranges[occ.range]
            n == Len(Code(g, b))
<1>0. /\ s = GraphScan(g) /\ w = Openings(s) /\ b = s[o].anchor.block
      /\ O = Origins(g.values, Code(g, b)) /\ start = BlockStarts(g.blocks)[b]
  OBVIOUS
<1>1. /\ o \in DOMAIN s /\ x \in GraphSet(g)
      /\ b \in DOMAIN g.blocks /\ start \in Nat
      /\ x \in BlockSet(g, O, b, start) /\ Placed(g, O, b, start, x)
      /\ x.from \in Nat /\ x.pos \in Nat /\ x.to \in Nat
      /\ occ.pos = x.pos /\ occ.from = x.from /\ occ.to = x.to
      /\ occ.key = x.key /\ occ.kind = x.kind /\ occ.anchor = x.anchor
      /\ occ.required = x.required /\ occ.fixed = x.fixed /\ occ.copy = x.copy
      /\ p.graph = g
      /\ occ.range \in DOMAIN p.ranges /\ o \in range.occurrences
      /\ range.key = x.key
      /\ x.kind \in {"def", "temporary"} => x.from = range.from
  <2>. HIDE DEF s, b, O, start
  <2>. QED BY <1>0, OccurrenceFacts
<1>2. n \in Nat /\ DOMAIN Code(g, b) = 1 .. n
  BY <1>1, BlockShape DEF Code
<1>3. \A q \in DOMAIN p.occs : p.occs[q].anchor = occ.anchor => q = o
  <2>. HIDE DEF s, w
  <2>1. DOMAIN p.occs = DOMAIN s /\ \A q \in DOMAIN s : p.occs[q].anchor = s[q].anchor
    BY <1>0, ProblemShape
  <2>2. AnchorsDiffer(s)
    BY <1>0, GraphListed DEF Lists
  <2>. QED BY <1>1, <2>1, <2>2 DEF AnchorsDiffer
<1>. HIDE DEF s, w, O, start, n
<1>4. /\ occ.kind \in {"use", "def", "forwarding", "temporary"}
      /\ AnchorInCode(p, occ.anchor)
      /\ occ.from # range.from => UseOrForwarded(p, o)
  <2>0. Code(g, b) = g.blocks[b].code
    BY DEF Code
  <2>1. CASE \E k \in DOMAIN g.blocks[b].params : IsParameter(g, O, b, start, k, x)
    <3>1. PICK k \in DOMAIN g.blocks[b].params : IsParameter(g, O, b, start, k, x)
      BY <2>1
    <3>2. occ.anchor = Anchor("result", b, 0, k) /\ occ.kind = "def"
      BY <1>1, <3>1 DEF IsParameter
    <3>3. occ.from = range.from
      BY <1>1, <3>2
    <3>. HIDE DEF occ, b
    <3>4. occ.anchor.kind = "result" /\ occ.anchor.at = 0 /\ occ.anchor.block = b /\ occ.anchor.index = k
      BY <3>2, AnchorFields
    <3>5. AnchorInCode(p, occ.anchor)
      BY <1>1, <1>2, <2>0, <3>2, <3>4 DEF AnchorInCode, Blocks, CodeOf, n
    <3>. QED BY <3>2, <3>3, <3>5
  <2>2. CASE \E i \in DOMAIN Code(g, b) : \E k \in DOMAIN Inputs(Code(g, b)[i]) : IsUse(g, O, b, start, i, k, x)
    <3>1. PICK i \in DOMAIN Code(g, b) : \E k \in DOMAIN Inputs(Code(g, b)[i]) : IsUse(g, O, b, start, i, k, x)
      BY <2>2
    <3>2. PICK k \in DOMAIN Inputs(Code(g, b)[i]) : IsUse(g, O, b, start, i, k, x)
      BY <3>1
    <3>3. occ.anchor = Anchor("operand", b, i, k) /\ occ.kind = "use"
      BY <1>1, <3>2 DEF IsUse
    <3>4. occ.anchor.kind = "operand" /\ occ.anchor.at = i /\ occ.anchor.block = b /\ occ.anchor.index = k
      <4>. HIDE DEF occ, b
      <4>. QED BY <3>3, AnchorFields
    <3>5. UseOrForwarded(p, o)
      BY <3>4 DEF UseOrForwarded
    <3>. HIDE DEF occ, b
    <3>6. AnchorInCode(p, occ.anchor)
      BY <1>1, <1>2, <2>0, <3>3, <3>4 DEF AnchorInCode, Blocks, CodeOf, n
    <3>. QED BY <3>3, <3>5, <3>6
  <2>3. CASE \E i \in DOMAIN Code(g, b) : IsResult(g, O, b, start, i, x)
    <3>1. PICK i \in DOMAIN Code(g, b) : IsResult(g, O, b, start, i, x)
      BY <2>3
    <3>2. /\ occ.anchor = Anchor("result", b, i, 0)
          /\ occ.kind = IF Forwards(Code(g, b)[i]) THEN "forwarding" ELSE "def"
          /\ occ.pos = start + 2 * i + 1 /\ occ.from = start + 2 * i + 1
          /\ range.key = <<"value", O[Code(g, b)[i].result]>>
          /\ Forwards(Code(g, b)[i]) => occ.fixed = Nowhere
      BY <1>1, <3>1 DEF IsResult
    <3>3. occ.anchor.kind = "result" /\ occ.anchor.at = i /\ occ.anchor.block = b /\ occ.anchor.index = 0
      <4>. HIDE DEF occ, b
      <4>. QED BY <3>2, AnchorFields
    <3>4. i \in 1 .. n
      BY <1>2
    <3>5. ASSUME Forwards(Code(g, b)[i]) PROVE UseOrForwarded(p, o)
      <4>1. PICK r \in DOMAIN p.ranges : r = occ.range
        BY <1>1
      <4>2. p.ranges[r].key = <<"value", O[Code(g, b)[i].result]>>
        BY <3>2, <4>1
      <4>3. PICK q \in DOMAIN p.occs :
              /\ p.occs[q].range = r /\ p.occs[q].required /\ p.occs[q].pos = start + 2 * i
              /\ p.occs[q].from = start + 2 * i /\ p.occs[q].to = start + 2 * i + 1
        <5>. HIDE DEF b
        <5>. QED BY <1>0, <1>1, <3>5, <4>2, ForwardedUse
      <4>4. occ.anchor.at # 0 /\ ~IsFixed(p, o)
        BY <3>2, <3>3, <3>4, <3>5, <1>2 DEF IsFixed
      <4>5. p.occs[q].pos < occ.pos /\ p.occs[q].from = occ.from - 1 /\ p.occs[q].to = occ.from
        <5>1. PICK m \in Nat : m = start + 2 * i
          BY <1>1, <1>2, <3>4
        <5>2. occ.pos = m + 1 /\ occ.from = m + 1 /\ p.occs[q].pos = m /\ p.occs[q].from = m /\ p.occs[q].to = m + 1
          BY <5>1, <3>2, <4>3
        <5>. QED BY <5>2
      <4>. QED BY <3>3, <4>1, <4>3, <4>4, <4>5 DEF UseOrForwarded
    <3>6. ~Forwards(Code(g, b)[i]) => occ.from = range.from
      BY <1>1, <3>2
    <3>7. AnchorInCode(p, occ.anchor)
      <4>. HIDE DEF occ, b
      <4>. QED BY <1>1, <1>2, <2>0, <3>2, <3>3, <3>4 DEF AnchorInCode, Blocks, CodeOf, n
    <3>. QED BY <3>2, <3>5, <3>6, <3>7
  <2>4. CASE \E i \in DOMAIN Code(g, b) : IsTemporary(b, start, i, x)
    <3>1. PICK i \in DOMAIN Code(g, b) : IsTemporary(b, start, i, x)
      BY <2>4
    <3>2. occ.anchor = Anchor("temporary", b, i, 0) /\ occ.kind = "temporary"
      BY <1>1, <3>1 DEF IsTemporary
    <3>3. occ.from = range.from
      BY <1>1, <3>2
    <3>. HIDE DEF occ, b
    <3>4. occ.anchor.kind = "temporary" /\ occ.anchor.at = i /\ occ.anchor.block = b /\ occ.anchor.index = 0
      BY <3>2, AnchorFields
    <3>5. AnchorInCode(p, occ.anchor)
      BY <1>1, <1>2, <2>0, <3>2, <3>4 DEF AnchorInCode, Blocks, CodeOf, n
    <3>. QED BY <3>2, <3>3, <3>5
  <2>5. CASE \E e \in DOMAIN g.blocks[b].edges : \E k \in DOMAIN g.blocks[b].edges[e].args :
               IsEdge(g, O, b, start, e, k, x)
    <3>1. PICK e \in DOMAIN g.blocks[b].edges : \E k \in DOMAIN g.blocks[b].edges[e].args :
               IsEdge(g, O, b, start, e, k, x)
      BY <2>5
    <3>2. PICK k \in DOMAIN g.blocks[b].edges[e].args : IsEdge(g, O, b, start, e, k, x)
      BY <3>1
    <3>3. occ.anchor = Anchor("edge", b, e, k) /\ occ.kind = "use"
      BY <1>1, <3>2 DEF IsEdge
    <3>4. occ.anchor.kind = "edge" /\ occ.anchor.at = e /\ occ.anchor.block = b /\ occ.anchor.index = k
      <4>. HIDE DEF occ, b
      <4>. QED BY <3>3, AnchorFields
    <3>5. UseOrForwarded(p, o)
      BY <3>4 DEF UseOrForwarded
    <3>. HIDE DEF occ, b
    <3>6. AnchorInCode(p, occ.anchor)
      BY <1>1, <3>1, <3>2, <3>3, <3>4 DEF AnchorInCode, Blocks
    <3>. QED BY <3>3, <3>5, <3>6
  <2>. QED BY <1>1, <2>1, <2>2, <2>3, <2>4, <2>5 DEF Placed
<1>5. /\ occ.fixed.kind \in {"none", "reg", "stack"} /\ (occ.fixed.kind = "none" <=> ~IsFixed(p, o))
      /\ occ.fixed.kind = "stack" => ~occ.required
      /\ occ.copy # NoRegister => ~IsFixed(p, o)
  <2>1. OccurrenceOK(x)
    BY <1>1 DEF Placed
  <2>. HIDE DEF x, b
  <2>. QED BY <1>1, <2>1 DEF OccurrenceOK, IsFixed
<1>. QED BY <1>1, <1>3, <1>4, <1>5 DEF OccurrenceScanned

LEMMA FiniteUnion ==
  ASSUME NEW n \in Nat, NEW F, F = [i \in 1 .. n |-> F[i]], \A i \in 1 .. n : IsFiniteSet(F[i])
  PROVE  IsFiniteSet(UNION {F[i] : i \in 1 .. n})
<1>0. 1 \in Int /\ n \in Int
  OBVIOUS
<1>1. IsFiniteSet(1 .. n)
  BY <1>0, FS_Interval
<1>2. IsFiniteSet({F[i] : i \in 1 .. n})
  BY <1>1, FiniteRange
<1>3. \A T \in {F[i] : i \in 1 .. n} : IsFiniteSet(T)
  OBVIOUS
<1>. QED BY <1>2, <1>3, FS_UNION

\* The ends of an edge's arguments are occurrences.
LEMMA EndsListed ==
  ASSUME NEW g, CfgVerified(g), NEW s, s = GraphScan(g), NEW b \in DOMAIN g.blocks
  PROVE  /\ \A e \in DOMAIN g.blocks[b].edges : \A k \in DOMAIN g.blocks[b].edges[e].args :
              \E o \in DOMAIN s : s[o].anchor = Anchor("edge", b, e, k)
         /\ \A k \in DOMAIN g.blocks[b].params :
              \E o \in DOMAIN s : s[o].anchor = Anchor("result", b, 0, k)
<1>. DEFINE O == Origins(g.values, Code(g, b))
            start == BlockStarts(g.blocks)[b]
            E == BlockSet(g, O, b, start)
<1>1. start \in Nat
  BY BlocksStart
<1>2. \A x \in E : \E o \in DOMAIN s : s[o] = x
  <2>1. E \subseteq GraphSet(g)
    BY DEF GraphSet, OccurrencesIn
  <2>. HIDE DEF E
  <2>. QED BY <2>1, GraphListed DEF Lists
<1>3. E = BlockSet(g, O, b, start)
  OBVIOUS
<1>. HIDE DEF O, start, E
<1>4. /\ \A k \in DOMAIN g.blocks[b].params : \E x \in E : IsParameter(g, O, b, start, k, x)
      /\ \A e \in DOMAIN g.blocks[b].edges : \A k \in DOMAIN g.blocks[b].edges[e].args :
           \E x \in E : IsEdge(g, O, b, start, e, k, x)
  BY <1>1, <1>3, BlockListed
<1>5. ASSUME NEW e \in DOMAIN g.blocks[b].edges, NEW k \in DOMAIN g.blocks[b].edges[e].args
      PROVE  \E o \in DOMAIN s : s[o].anchor = Anchor("edge", b, e, k)
  <2>1. PICK x \in E : IsEdge(g, O, b, start, e, k, x)
    BY <1>4
  <2>2. x.anchor = Anchor("edge", b, e, k)
    BY <2>1 DEF IsEdge
  <2>. QED BY <2>2, <1>2
<1>6. ASSUME NEW k \in DOMAIN g.blocks[b].params
      PROVE  \E o \in DOMAIN s : s[o].anchor = Anchor("result", b, 0, k)
  <2>1. PICK x \in E : IsParameter(g, O, b, start, k, x)
    BY <1>4
  <2>2. x.anchor = Anchor("result", b, 0, k)
    BY <2>1 DEF IsParameter
  <2>. QED BY <2>2, <1>2
<1>. QED BY <1>5, <1>6

EndAt(s, anchor) == CHOOSE o \in DOMAIN s : s[o].anchor = anchor
AffinityOf(g, s, b, e, k) ==
  [source |-> EndAt(s, Anchor("edge", b, e, k)),
   destination |-> EndAt(s, Anchor("result", g.blocks[b].edges[e].target, 0, k)),
   block |-> b, edge |-> e, index |-> k]

LEMMA AffinitiesFinite ==
  ASSUME NEW g, CfgVerified(g), NEW s
  PROVE  /\ IsFiniteSet(BlockEdgeAffinities(g, s))
         /\ \A a \in BlockEdgeAffinities(g, s) :
              \E b \in DOMAIN g.blocks : \E e \in DOMAIN g.blocks[b].edges :
                \E k \in DOMAIN g.blocks[b].edges[e].args : a = AffinityOf(g, s, b, e, k)
<1>. DEFINE edges(b) == g.blocks[b].edges
            ofEdge(b, e) == {AffinityOf(g, s, b, e, k) : k \in DOMAIN edges(b)[e].args}
            ofBlock(b) == UNION {ofEdge(b, e) : e \in DOMAIN edges(b)}
            all == UNION {ofBlock(b) : b \in DOMAIN g.blocks}
<1>1. BlockEdgeAffinities(g, s) = all
  BY DEF BlockEdgeAffinities, AffinityOf, EndAt
<1>2. ASSUME NEW b \in DOMAIN g.blocks, NEW e \in DOMAIN g.blocks[b].edges
      PROVE  IsFiniteSet(ofEdge(b, e))
  <2>. DEFINE D == DOMAIN g.blocks[b].edges[e].args
              f == [k \in D |-> AffinityOf(g, s, b, e, k)]
  <2>1. EdgeVerified(g, b, g.blocks[b].edges[e])
    BY DEF CfgVerified, BlockVerified
  <2>2. g.blocks[b].edges[e].args \in Seq(InScope(g, b, Len(g.blocks[b].code) + 1))
    BY <2>1 DEF EdgeVerified
  <2>3. D = 1 .. Len(g.blocks[b].edges[e].args) /\ Len(g.blocks[b].edges[e].args) \in Nat
    BY <2>2, LenProperties
  <2>4. IsFiniteSet(D)
    BY <2>3, FS_Interval, 1 \in Int
  <2>5. ofEdge(b, e) = {f[k] : k \in D} /\ f = [k \in D |-> f[k]]
    OBVIOUS
  <2>. HIDE DEF D, f
  <2>6. IsFiniteSet({f[k] : k \in D})
    BY <2>4, <2>5, FiniteRange
  <2>. QED BY <2>5, <2>6
<1>3. ASSUME NEW b \in DOMAIN g.blocks PROVE IsFiniteSet(ofBlock(b))
  <2>. DEFINE n == Len(edges(b))
              F == [e \in 1 .. n |-> ofEdge(b, e)]
  <2>1. n \in Nat /\ DOMAIN edges(b) = 1 .. n
    BY BlockShape
  <2>2. \A e \in 1 .. n : IsFiniteSet(ofEdge(b, e))
    BY <1>2, <2>1
  <2>. HIDE DEF ofEdge, n
  <2>3. F = [e \in 1 .. n |-> F[e]] /\ \A e \in 1 .. n : F[e] = ofEdge(b, e)
    OBVIOUS
  <2>4. ofBlock(b) = UNION {F[e] : e \in 1 .. n}
    BY <2>1, <2>3
  <2>. HIDE DEF F
  <2>. QED BY <2>1, <2>2, <2>3, <2>4, FiniteUnion
<1>4. IsFiniteSet(all)
  <2>. DEFINE n == Len(g.blocks)
              F == [b \in 1 .. n |-> ofBlock(b)]
  <2>1. n \in Nat /\ DOMAIN g.blocks = 1 .. n
    BY GraphShape
  <2>2. \A b \in 1 .. n : IsFiniteSet(ofBlock(b))
    BY <1>3, <2>1
  <2>. HIDE DEF ofBlock, n
  <2>3. F = [b \in 1 .. n |-> F[b]] /\ \A b \in 1 .. n : F[b] = ofBlock(b)
    OBVIOUS
  <2>4. all = UNION {F[b] : b \in 1 .. n}
    BY <2>1, <2>3
  <2>. HIDE DEF F
  <2>. QED BY <2>1, <2>2, <2>3, <2>4, FiniteUnion
<1>5. \A a \in all : \E b \in DOMAIN g.blocks : \E e \in DOMAIN g.blocks[b].edges :
        \E k \in DOMAIN g.blocks[b].edges[e].args : a = AffinityOf(g, s, b, e, k)
  OBVIOUS
<1>. HIDE DEF all
<1>. QED BY <1>1, <1>4, <1>5

LEMMA AffinityEnds ==
  ASSUME NEW g, CfgVerified(g), NEW s, s = GraphScan(g), NEW a \in BlockEdgeAffinities(g, s)
  PROVE  /\ a.source \in DOMAIN s /\ a.destination \in DOMAIN s
         /\ s[a.source].anchor = Anchor("edge", a.block, a.edge, a.index)
         /\ s[a.destination].anchor = Anchor("result", g.blocks[a.block].edges[a.edge].target, 0, a.index)
<1>1. PICK b \in DOMAIN g.blocks : \E e \in DOMAIN g.blocks[b].edges :
        \E k \in DOMAIN g.blocks[b].edges[e].args : a = AffinityOf(g, s, b, e, k)
  BY AffinitiesFinite
<1>2. PICK e \in DOMAIN g.blocks[b].edges :
        \E k \in DOMAIN g.blocks[b].edges[e].args : a = AffinityOf(g, s, b, e, k)
  BY <1>1
<1>3. PICK k \in DOMAIN g.blocks[b].edges[e].args : a = AffinityOf(g, s, b, e, k)
  BY <1>2
<1>. DEFINE t == g.blocks[b].edges[e].target
            from == Anchor("edge", b, e, k)
            to == Anchor("result", t, 0, k)
<1>4. /\ a.source = EndAt(s, from) /\ a.destination = EndAt(s, to)
      /\ a.block = b /\ a.edge = e /\ a.index = k
  BY <1>3 DEF AffinityOf
<1>5. t \in DOMAIN g.blocks /\ k \in DOMAIN g.blocks[t].params
  <2>1. EdgeVerified(g, b, g.blocks[b].edges[e])
    BY DEF CfgVerified, BlockVerified
  <2>2. /\ t \in DOMAIN g.blocks
        /\ g.blocks[b].edges[e].args \in Seq(InScope(g, b, Len(g.blocks[b].code) + 1))
        /\ Len(g.blocks[b].edges[e].args) = Len(g.blocks[t].params)
    BY <2>1 DEF EdgeVerified
  <2>3. DOMAIN g.blocks[b].edges[e].args = 1 .. Len(g.blocks[b].edges[e].args)
    BY <2>2, LenProperties
  <2>. HIDE DEF t
  <2>4. DOMAIN g.blocks[t].params = 1 .. Len(g.blocks[t].params)
    BY <2>2, BlockShape
  <2>. QED BY <2>2, <2>3, <2>4
<1>6. \E o \in DOMAIN s : s[o].anchor = from
  BY EndsListed
<1>7. \E o \in DOMAIN s : s[o].anchor = to
  <2>. HIDE DEF t
  <2>. QED BY <1>5, EndsListed
<1>. HIDE DEF from, to
<1>8. EndAt(s, from) \in DOMAIN s /\ s[EndAt(s, from)].anchor = from
  BY <1>6 DEF EndAt
<1>9. EndAt(s, to) \in DOMAIN s /\ s[EndAt(s, to)].anchor = to
  BY <1>7 DEF EndAt
<1>. QED BY <1>4, <1>8, <1>9 DEF from, to

LEMMA BlocksScanned ==
  ASSUME NEW g, CfgVerified(g), NEW p, p.graph = g, p.starts = BlockStarts(g.blocks)
  PROVE  BlocksLaidOut(p)
<1>. DEFINE starts == BlockStarts(g.blocks)
<1>1. /\ DOMAIN starts = DOMAIN g.blocks
      /\ \A b \in DOMAIN g.blocks : starts[b] \in Nat
      /\ \A b, c \in DOMAIN g.blocks : b < c => starts[b] + BlockSize(g.blocks[b]) <= starts[c]
  BY BlocksStart
<1>. HIDE DEF starts
<1>2. \A b \in DOMAIN g.blocks : Len(g.blocks[b].code) \in Nat /\ g.blocks[b].depth \in Nat
  BY BlockShape
<1>3. \A b, c \in DOMAIN g.blocks : b # c => b < c \/ c < b
  <2>1. PICK n \in Nat : DOMAIN g.blocks = 1 .. n
    BY GraphShape
  <2>. QED BY <2>1
<1>4. p.starts = starts
  BY DEF starts
<1>. QED BY <1>1, <1>2, <1>3, <1>4 DEF BlocksLaidOut, Blocks, CodeOf, BlockEnd

LEMMA ClobbersScanned ==
  ASSUME NEW g, CfgVerified(g), NEW starts, starts = BlockStarts(g.blocks),
         NEW c \in ClobberReservations(g, starts)
  PROVE  /\ c.from = EarlyOf(starts[c.block], c.at) + 1 /\ c.to = c.from + 1
         /\ c.from \in Nat \ {0} /\ c.to \in Nat /\ c.block \in DOMAIN g.blocks
<1>1. PICK b \in DOMAIN g.blocks : \E i \in DOMAIN g.blocks[b].code : \E r \in Clobbers(g.blocks[b].code[i]) :
        c = [from |-> EarlyOf(starts[b], i) + 1, to |-> EarlyOf(starts[b], i) + 2,
             reg |-> r, block |-> b, at |-> i]
  BY DEF ClobberReservations
<1>2. PICK i \in DOMAIN g.blocks[b].code :
        /\ c.from = EarlyOf(starts[b], i) + 1 /\ c.to = EarlyOf(starts[b], i) + 2
        /\ c.block = b /\ c.at = i
  BY <1>1
<1>3. starts[b] \in Nat
  BY BlocksStart
<1>4. i \in Nat
  BY BlockShape
<1>5. EarlyOf(starts[b], i) \in Nat
  BY <1>3, <1>4 DEF EarlyOf
<1>. QED BY <1>2, <1>5

\* What the scanner makes of a graph that was verified is what the rest of the
\* allocator relies on (src/jit/live_range_scanner.cpp, src/jit/cfg_verifier.cpp).
THEOREM VerifiedGraphsScanned ==
  ASSUME NEW g, CfgVerified(g) PROVE Scanned(ScanLiveRanges(g))
<1>. DEFINE p == ScanLiveRanges(g)
            s == GraphScan(g)
            w == Openings(s)
<1>1. p = ScanLiveRanges(g) /\ s = GraphScan(g) /\ w = Openings(s)
  OBVIOUS
<1>. HIDE DEF p, s, w
<1>2. /\ p.graph = g /\ p.starts = BlockStarts(g.blocks)
      /\ Len(s) \in Nat /\ DOMAIN s = 1 .. Len(s) /\ Len(w) \in Nat /\ DOMAIN w = 1 .. Len(w)
      /\ Len(p.occs) = Len(s) /\ DOMAIN p.occs = DOMAIN s
      /\ Len(p.ranges) = Len(w) /\ DOMAIN p.ranges = DOMAIN w
      /\ p.clobbers = ClobberReservations(g, p.starts)
      /\ p.affinities = BlockEdgeAffinities(g, s)
  BY <1>1, ProblemShape
<1>3. \A o \in DOMAIN s : p.occs[o].anchor = s[o].anchor
  BY <1>1, ProblemShape
<1>4. \A o \in DOMAIN p.occs : OccurrenceVerified(p, o) /\ OccurrenceScanned(p, o)
  BY <1>1, AnchorsVerified, OccurrencesScanned
<1>5. \A r \in DOMAIN p.ranges : RangeVerified(p, r) /\ RangeScanned(p, r)
  BY <1>1, RangeShape
<1>6. BlocksLaidOut(p)
  BY <1>2, BlocksScanned
<1>7. \A c \in p.clobbers :
        /\ c.from = EarlyOf(p.starts[c.block], c.at) + 1 /\ c.to = c.from + 1
        /\ c.from \in Nat \ {0} /\ c.to \in Nat /\ c.block \in Blocks(p)
  BY <1>2, ClobbersScanned DEF Blocks
<1>8. IsFiniteSet(p.affinities)
  BY <1>2, AffinitiesFinite
<1>9. \A a \in p.affinities :
        /\ a.source \in DOMAIN p.occs /\ a.destination \in DOMAIN p.occs
        /\ p.occs[a.source].anchor = Anchor("edge", a.block, a.edge, a.index)
        /\ p.occs[a.destination].anchor =
             Anchor("result", p.graph.blocks[a.block].edges[a.edge].target, 0, a.index)
  BY <1>1, <1>2, <1>3, AffinityEnds
<1>10. ScanVerified(p)
  BY <1>4, <1>5, <1>7, <1>9 DEF ScanVerified, ReservationsVerified
<1>. QED BY <1>2, <1>4, <1>5, <1>6, <1>7, <1>8, <1>9, <1>10 DEF Scanned, p

-----------------------------------------------------------------------------
(* The theorems.                                                           *)

\* The invariant of register allocation (src/jit/register_allocator.cpp):
\* whatever the functions, in every stage the bundles tile the live ranges,
\* each can be served by one location, those that share a place do not
\* overlap, carriers hold only what a call copies, and every scheduled
\* transfer leads from one fragment to the next at the point where it is.
THEOREM BundlesStaySound ==
  ASSUME NEW Graphs, \A g \in Graphs : CfgVerified(g)
  PROVE  RegistersSpec(Graphs) => []AllocationInv
<1>0. \A g \in Graphs : Scanned(ScanLiveRanges(g))
  BY VerifiedGraphsScanned
<1>1. RegistersInit(Graphs) => AllocationInv
  BY <1>0, AllocationStarts
<1>2. AllocationInv /\ [RegistersNext]_registerVars => AllocationInv'
  BY AllocationStays
<1>. QED BY <1>1, <1>2, PTL DEF RegistersSpec

\* No allocation stops the process: the splitter's fatal() on an ambiguous
\* transfer and the verifier's are never reached, and materialization stops
\* only for the two known faults (src/jit/allocation_verifier.cpp).
THEOREM AllocationsNeverFatal ==
  ASSUME NEW Graphs, \A g \in Graphs : CfgVerified(g)
  PROVE  RegistersSpec(Graphs) => []AllocationsVerify
<1>1. RegistersSpec(Graphs) => []AllocationInv
  BY BundlesStaySound
<1>2. AllocationInv => AllocationsVerify
  BY DEF AllocationInv
<1>. QED BY <1>1, <1>2, PTL

-----------------------------------------------------------------------------
(* The loop makes progress.                                                *)

LEMMA WeightsAreIntegers ==
  ASSUME Scanned(problem), BundlesOK(problem, bundles)
  PROVE  \A b \in DOMAIN bundles : bundles[b].weight \in Int
<1>. SUFFICES ASSUME NEW b \in DOMAIN bundles PROVE bundles[b].weight \in Int
  OBVIOUS
<1>1. bundles[b] = Bundle(problem, bundles[b].frags) /\ FragmentsOK(problem, bundles[b].frags)
  BY DEF BundlesOK
<1>. DEFINE frags == bundles[b].frags
<1>2. Bundle(problem, frags).weight \in Int
  BY <1>1, BundleWeight
<1>. QED BY <1>1, <1>2

\* What a bundle evicts is lighter than it.
LEMMA EvictedLighter ==
  ASSUME Scanned(problem), BundlesOK(problem, bundles), NEW b \in DOMAIN bundles,
         NEW l \in Evictable(b), NEW c \in Residents(l, b)
  PROVE  bundles[c].weight < bundles[b].weight
<1>1. PICK k \in Unclobbered(b) : l = Candidates(b)[k] /\ CostOf(k, b) < bundles[b].weight
  BY DEF Evictable, Cheapest, FirstCandidate
<1>. DEFINE costs == {bundles[x].weight : x \in Residents(l, b)}
            S == {0} \cup costs
<1>2. CostOf(k, b) = Max(S)
  BY <1>1 DEF CostOf, ConflictWeight
<1>3. \A x \in DOMAIN bundles : bundles[x].weight \in Int
  BY WeightsAreIntegers
<1>4. Residents(l, b) \subseteq DOMAIN bundles
  BY DEF Residents
<1>5. IsFiniteSet(costs)
  <2>1. IsFiniteSet(Residents(l, b))
    BY <1>4, FS_Subset DEF BundlesOK
  <2>. DEFINE weight == [x \in Residents(l, b) |-> bundles[x].weight]
  <2>2. weight = [x \in Residents(l, b) |-> weight[x]]
    OBVIOUS
  <2>3. costs = {weight[x] : x \in Residents(l, b)}
    OBVIOUS
  <2>. HIDE DEF weight, costs
  <2>. QED BY <2>1, <2>2, <2>3, FiniteRange
<1>6. IsFiniteSet(S) /\ S \in SUBSET Int /\ S # {}
  <2>1. IsFiniteSet({0})
    BY FS_Singleton
  <2>2. IsFiniteSet(S)
    BY <1>5, <2>1, FS_Union
  <2>. QED BY <2>2, <1>3, <1>4
<1>7. bundles[c].weight \in S /\ Max(S) \in Int
  BY <1>6, FiniteMax
<1>. HIDE DEF S
<1>8. bundles[c].weight <= Max(S)
  BY <1>6, <1>7, FiniteMax
<1>. QED BY <1>1, <1>2, <1>3, <1>4, <1>7, <1>8

\* More bundles of some weight are in place, and of those that are heavier
\* just the same: b has been placed, and what was moved out is lighter.
LEMMA PlacingProgresses ==
  ASSUME Scanned(problem), BundlesOK(problem, bundles), NEW b \in DOMAIN bundles,
         bundles' = bundles, place[b] = Nowhere, place'[b] # Nowhere,
         \A c \in DOMAIN bundles \ {b} :
           \/ place'[c] = place[c]
           \/ place'[c] = Nowhere /\ bundles[c].weight < bundles[b].weight
  PROVE  \E w \in Weights : /\ PlacedAbove(w)' > PlacedAbove(w)
                           /\ \A v \in Weights : v > w => PlacedAbove(v)' = PlacedAbove(v)
<1>0. PICK w : w = bundles[b].weight
  OBVIOUS
<1>. DEFINE Above(v) == {c \in DOMAIN bundles : place[c] # Nowhere /\ bundles[c].weight >= v}
            AboveNext(v) == {c \in DOMAIN bundles : place'[c] # Nowhere /\ bundles[c].weight >= v}
<1>1. w \in Weights /\ w \in Int
  BY <1>0, WeightsAreIntegers DEF Weights
<1>2. \A c \in DOMAIN bundles : bundles[c].weight \in Int
  BY WeightsAreIntegers
<1>3. \A v : PlacedAbove(v) = Cardinality(Above(v)) /\ PlacedAbove(v)' = Cardinality(AboveNext(v))
  BY DEF PlacedAbove
<1>4. ASSUME NEW v \in Weights, v > w PROVE PlacedAbove(v)' = PlacedAbove(v)
  <2>1. v \in Int
    BY <1>2 DEF Weights
  <2>2. \A c \in DOMAIN bundles : bundles[c].weight >= v => c # b /\ place'[c] = place[c]
    BY <2>1, <1>0, <1>1, <1>2, <1>4
  <2>3. Above(v) = AboveNext(v)
    BY <2>2
  <2>. QED BY <2>3, <1>3
<1>5. PlacedAbove(w)' > PlacedAbove(w)
  <2>1. IsFiniteSet(DOMAIN bundles)
    BY DEF BundlesOK
  <2>2. Above(w) \subseteq AboveNext(w) /\ b \in AboveNext(w) /\ b \notin Above(w)
    BY <1>0, <1>1, <1>2
  <2>3. AboveNext(w) \subseteq DOMAIN bundles
    OBVIOUS
  <2>. HIDE DEF Above, AboveNext
  <2>4. IsFiniteSet(AboveNext(w)) /\ IsFiniteSet(Above(w))
        /\ Cardinality(Above(w)) <= Cardinality(AboveNext(w))
        /\ Cardinality(Above(w)) # Cardinality(AboveNext(w))
    BY <2>1, <2>2, <2>3, FS_Subset
  <2>5. Cardinality(Above(w)) \in Nat /\ Cardinality(AboveNext(w)) \in Nat
    BY <2>4, FS_CardinalityType
  <2>. QED BY <2>4, <2>5, <1>3
<1>. QED BY <1>1, <1>4, <1>5

LEMMA MoreBundlesCount ==
  ASSUME BundlesOK(problem', bundles'), MoreBundles
  PROVE  Cardinality(DOMAIN bundles') > Cardinality(DOMAIN bundles)
<1>1. IsFiniteSet(DOMAIN bundles')
  BY DEF BundlesOK
<1>2. /\ IsFiniteSet(DOMAIN bundles)
      /\ Cardinality(DOMAIN bundles) <= Cardinality(DOMAIN bundles')
      /\ Cardinality(DOMAIN bundles) # Cardinality(DOMAIN bundles')
  BY <1>1, FS_Subset DEF MoreBundles
<1>3. Cardinality(DOMAIN bundles) \in Nat /\ Cardinality(DOMAIN bundles') \in Nat
  BY <1>1, <1>2, FS_CardinalityType
<1>. QED BY <1>2, <1>3

Progress ==
  \/ Cardinality(DOMAIN bundles') > Cardinality(DOMAIN bundles)
  \/ bundles' = bundles /\ Cardinality(deferred') > Cardinality(deferred)
  \/ /\ bundles' = bundles
     /\ \E w \in Weights : /\ PlacedAbove(w)' > PlacedAbove(w)
                          /\ \A v \in Weights : v > w => PlacedAbove(v)' = PlacedAbove(v)

LEMMA TurnProgresses ==
  ASSUME Scanned(problem), AssignOK, AssignStep, stage = "assign", stage' = "assign"
  PROVE  Progress
<1>1. PICK b \in worklist :
        \/ PlaceBundle(b) \/ DeferSpillSlotAssignment(b) \/ TrimSpillCarrier(b)
        \/ SplitBeforeLaterFixedUse(b) \/ EvictAndPlace(b) \/ SplitForPressure(b)
        \/ FailAllocation(b)
  BY DEF AssignStep
<1>2. BundlesOK(problem, bundles) /\ b \in DOMAIN bundles /\ place[b] = Nowhere
  BY AssignParts DEF AssignOK, BundleOK
<1>3. CASE PlaceBundle(b)
  BY <1>2, <1>3, PlaceKeeps, PlacingProgresses DEF Progress
<1>4. CASE DeferSpillSlotAssignment(b)
  <2>1. bundles' = bundles /\ b \notin deferred /\ deferred' = deferred \cup {b}
    BY <1>4, DeferKeeps
  <2>2. IsFiniteSet(deferred)
    BY <1>2, FS_Subset DEF AssignOK, BundlesOK
  <2>3. Cardinality(deferred') = Cardinality(deferred) + 1 /\ Cardinality(deferred) \in Nat
    BY <2>1, <2>2, FS_AddElement, FS_CardinalityType
  <2>. QED BY <2>1, <2>3 DEF Progress
<1>5. CASE TrimSpillCarrier(b) \/ SplitBeforeLaterFixedUse(b) \/ SplitForPressure(b)
  <2>1. AssignOK' /\ MoreBundles
    BY <1>5, CarrierKeeps, LaterFixedUseKeeps, PressureKeeps
  <2>2. BundlesOK(problem', bundles')
    BY <2>1 DEF AssignOK, ScheduleOK, ScheduleOf
  <2>. QED BY <2>1, <2>2, MoreBundlesCount DEF Progress
<1>6. CASE EvictAndPlace(b)
  <2>1. bundles' = bundles /\ place'[b] # Nowhere
    BY <1>6, EvictKeeps
  <2>2. PICK l \in Evictable(b) : \A c \in DOMAIN bundles \ {b} :
          place'[c] = IF c \in Residents(l, b) THEN Nowhere ELSE place[c]
    BY <1>6, EvictKeeps
  <2>3. \A c \in DOMAIN bundles \ {b} :
          \/ place'[c] = place[c]
          \/ place'[c] = Nowhere /\ bundles[c].weight < bundles[b].weight
    BY <2>2, <1>2, EvictedLighter
  <2>. QED BY <2>1, <2>3, <1>2, PlacingProgresses DEF Progress
<1>7. CASE FailAllocation(b)
  BY <1>7 DEF FailAllocation
<1>. QED BY <1>1, <1>3, <1>4, <1>5, <1>6, <1>7

\* The assignment loop cannot go round in circles: no turn of it undoes what
\* others did without leaving more bundles, more of them deferred, or more
\* of the heavy ones in place (src/jit/register_assigner.cpp
\* assign_registers, evict_and_place).
THEOREM AssignmentLoopProgresses ==
  ASSUME NEW Graphs, \A g \in Graphs : CfgVerified(g)
  PROVE  RegistersSpec(Graphs) => AssignmentProgresses
<1>1. RegistersSpec(Graphs) => []AllocationInv
  BY BundlesStaySound
<1>2. ASSUME AllocationInv, RegistersNext, stage = "assign", stage' = "assign"
      PROVE  Progress
  <2>1. Scanned(problem) /\ AssignOK
    BY <1>2 DEF AllocationInv
  <2>2. AssignStep
    BY <1>2 DEF RegistersNext, Allocate, AllocationNext, MaterializerNext, BuildInitialBundles,
       SplitForLocation, StartAssignment, AssignSpillSlots, VerifyAllocation, Materialize,
       RunInstruction, TakeEdge, Running
  <2>. QED BY <2>1, <2>2, <1>2, TurnProgresses
<1>3. AllocationInv /\ [RegistersNext]_registerVars
        => [stage = "assign" /\ stage' = "assign" => Progress]_registerVars
  BY <1>2
<1>. QED BY <1>1, <1>3, PTL DEF RegistersSpec, AssignmentProgresses, Progress
=============================================================================
