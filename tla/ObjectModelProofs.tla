--------------------------- MODULE ObjectModelProofs ---------------------------
(***************************************************************************)
(* The proofs about class construction, for any number of classes and      *)
(* bases; about imports, for any names, packages, programs and depth of    *)
(* nesting; and about the inline caches, for any classes, MROs, programs,  *)
(* number of cells and reuse limit.                                        *)
(***************************************************************************)
EXTENDS ClassHierarchy, ImportSystem, LookupCaches, ArithmeticLemmas, SequenceTheorems

-----------------------------------------------------------------------------
(* C3 linearization.  The invariant says what the merge has done so far:   *)
(* each of its sequences is what is left of the MRO or base list it began  *)
(* as, and what has been taken from it is in the MRO found so far, in the  *)
(* same order.                                                             *)


\* r is what is left of s, and lin keeps the order of what is gone.
Left(s, r, lin) ==
  /\ Len(r) <= Len(s) /\ \A j \in 1 .. Len(r) : r[j] = s[Len(s) - Len(r) + j]
  /\ \A j \in 1 .. Len(s) - Len(r) : s[j] \in Range(lin)
  /\ \A j \in 1 .. Len(r) : r[j] \notin Range(lin)
  /\ \A j, k \in 1 .. Len(s) - Len(r) : j < k => IsPrecedence(s[j], s[k], lin)

Sources(bs) == Append([i \in DOMAIN bs |-> mro[bs[i]]], bs)

Merging(c, bs) ==
  /\ c \notin Built /\ bs \in Seq(Built) /\ bs # <<>> /\ NoDuplicates(bs)
  /\ rejected = <<>>
  /\ sequences \in Seq(Seq(Built)) /\ Len(sequences) = Len(bs) + 1
  /\ \A i \in 1 .. Len(bs) + 1 : Left(Sources(bs)[i], sequences[i], linearized)
  /\ linearized \in Seq(Built \cup {c}) /\ linearized # <<>> /\ linearized[1] = c
  /\ NoDuplicates(linearized)
  /\ Range(linearized) \subseteq {c} \cup Ancestors(bs)

Linearized(c) ==
  /\ mro[c] # <<>> /\ mro[c][1] = c /\ NoDuplicates(mro[c])
  /\ Range(mro[c]) = {c} \cup Ancestors(bases[c])
  /\ \A x, y : Precedes(x, y, bases[c]) => IsPrecedence(x, y, mro[c])

Typed ==
  /\ ObjectClass \in Built
  /\ mro \in [Built -> Seq(Built)] /\ bases \in [Built -> Seq(Built)]

HierarchyInv ==
  /\ Typed
  /\ \A c \in Built : Linearized(c)
  /\ building = <<>> \/ \E c, bs : building = <<c, bs>> /\ Merging(c, bs)
  /\ RejectedOnlyIfInconsistent
-----------------------------------------------------------------------------
\* A sequence with one item more.
LEMMA AppendIs ==
  ASSUME NEW S, NEW s \in Seq(S), NEW x \in S
  PROVE  /\ Append(s, x) \in Seq(S) /\ Len(Append(s, x)) = Len(s) + 1 /\ Len(s) \in Nat
         /\ Append(s, x) # <<>>
         /\ DOMAIN s = 1 .. Len(s) /\ DOMAIN Append(s, x) = 1 .. Len(s) + 1
         /\ Append(s, x)[Len(s) + 1] = x
         /\ \A i \in 1 .. Len(s) : Append(s, x)[i] = s[i]
  OBVIOUS

\* The members of a sequence.
LEMMA RangeIs ==
  ASSUME NEW S, NEW s \in Seq(S)
  PROVE  /\ \A x : x \in Range(s) <=> \E i \in 1 .. Len(s) : s[i] = x
         /\ \A i \in 1 .. Len(s) : s[i] \in Range(s) /\ s[i] \in S
         /\ Range(s) \subseteq S
<1>1. DOMAIN s = 1 .. Len(s) /\ \A i \in 1 .. Len(s) : s[i] \in S
  OBVIOUS
<1>. QED BY <1>1 DEF Range

\* x comes before y in a sequence.
LEMMA PrecedenceIs ==
  ASSUME NEW S, NEW s \in Seq(S), NEW x, NEW y
  PROVE  IsPrecedence(x, y, s) <=> \E i, j \in 1 .. Len(s) : i < j /\ s[i] = x /\ s[j] = y
<1>1. DOMAIN s = 1 .. Len(s)
  OBVIOUS
<1>. QED BY <1>1 DEF IsPrecedence

\* Appending keeps every order and puts the new item last.
LEMMA AppendRange ==
  ASSUME NEW S, NEW s \in Seq(S), NEW x \in S
  PROVE  /\ Range(Append(s, x)) = Range(s) \cup {x}
         /\ \A y, z : IsPrecedence(y, z, s) => IsPrecedence(y, z, Append(s, x))
         /\ \A y \in Range(s) : IsPrecedence(y, x, Append(s, x))
<1>. DEFINE t == Append(s, x)
<1>1. /\ t \in Seq(S) /\ Len(t) = Len(s) + 1 /\ Len(s) \in Nat /\ t[Len(s) + 1] = x
      /\ \A i \in 1 .. Len(s) : t[i] = s[i]
  BY AppendIs
<1>. HIDE DEF t
<1>2. ASSUME NEW y PROVE y \in Range(t) <=> y \in Range(s) \cup {x}
  <2>1. y \in Range(t) <=> \E i \in 1 .. Len(s) + 1 : t[i] = y
    BY <1>1, RangeIs
  <2>2. y \in Range(s) <=> \E i \in 1 .. Len(s) : s[i] = y
    BY RangeIs
  <2>3. \A i : i \in 1 .. Len(s) + 1 <=> i \in 1 .. Len(s) \/ i = Len(s) + 1
    BY <1>1
  <2>. QED BY <1>1, <2>1, <2>2, <2>3
<1>3. ASSUME NEW y, NEW z, IsPrecedence(y, z, s) PROVE IsPrecedence(y, z, t)
  <2>1. PICK i \in 1 .. Len(s), j \in 1 .. Len(s) : i < j /\ s[i] = y /\ s[j] = z
    BY <1>3, PrecedenceIs
  <2>2. i \in 1 .. Len(t) /\ j \in 1 .. Len(t) /\ t[i] = y /\ t[j] = z
    BY <1>1, <2>1
  <2>. QED BY <1>1, <2>1, <2>2, PrecedenceIs
<1>4. ASSUME NEW y \in Range(s) PROVE IsPrecedence(y, x, t)
  <2>1. PICK i \in 1 .. Len(s) : s[i] = y
    BY RangeIs
  <2>2. i \in 1 .. Len(t) /\ Len(s) + 1 \in 1 .. Len(t) /\ i < Len(s) + 1 /\ t[i] = y /\ t[Len(s) + 1] = x
    BY <1>1, <2>1
  <2>. QED BY <1>1, <2>2, PrecedenceIs
<1>. QED BY <1>2, <1>3, <1>4 DEF t

(* One sequence in one round of the merge.                                 *)
LEMMA RoundKeeps ==
  ASSUME NEW S, NEW s \in Seq(S), NEW r \in Seq(S), NEW C, NEW lin \in Seq(C), NEW x \in C,
         Left(s, r, lin), x \notin Range(lin), \A j \in 2 .. Len(r) : r[j] # x
  PROVE  LET rest == IF r # <<>> /\ Head(r) = x THEN Tail(r) ELSE r
         IN  rest \in Seq(S) /\ Left(s, rest, Append(lin, x))
<1>. DEFINE rest == IF r # <<>> /\ Head(r) = x THEN Tail(r) ELSE r
            t == Append(lin, x)
            n == Len(s)
            m == Len(r)
<1>1. /\ Range(t) = Range(lin) \cup {x}
      /\ \A y, z : IsPrecedence(y, z, lin) => IsPrecedence(y, z, t)
      /\ \A y \in Range(lin) : IsPrecedence(y, x, t)
  BY AppendRange
<1>2. /\ n \in Nat /\ m \in Nat /\ m <= n /\ \A j \in 1 .. m : r[j] = s[n - m + j]
      /\ \A j \in 1 .. n - m : s[j] \in Range(lin)
      /\ \A j \in 1 .. m : r[j] \notin Range(lin)
      /\ \A j, k \in 1 .. n - m : j < k => IsPrecedence(s[j], s[k], lin)
  <2>1. n \in Nat /\ m \in Nat
    OBVIOUS
  <2>. QED BY <2>1, Zenon DEF Left
<1>. HIDE DEF t
<1>3. CASE r # <<>> /\ Head(r) = x
  <2>1. /\ rest \in Seq(S) /\ Len(rest) = m - 1 /\ m > 0 /\ r[1] = x
        /\ \A j \in 1 .. m - 1 : rest[j] = r[j + 1]
    BY <1>3
  <2>. HIDE DEF rest, n, m
  <2>2. s[n - m + 1] = x /\ n - (m - 1) = n - m + 1 /\ m - 1 <= n
    <3>1. 1 \in 1 .. m
      BY <1>2, <2>1
    <3>. QED BY <1>2, <2>1, <3>1
  <2>3. ASSUME NEW j \in 1 .. m - 1
        PROVE  rest[j] = s[n - (m - 1) + j] /\ rest[j] \notin Range(t)
    <3>1. j + 1 \in 2 .. m /\ j + 1 \in 1 .. m /\ n - m + (j + 1) = n - (m - 1) + j
      BY <1>2
    <3>2. rest[j] = r[j + 1] /\ r[j + 1] # x
      BY <2>1, <3>1 DEF m
    <3>. QED BY <1>1, <1>2, <3>1, <3>2
  <2>4. ASSUME NEW j \in 1 .. n - (m - 1)
        PROVE  s[j] \in Range(t)
    <3>1. j \in 1 .. n - m \/ j = n - m + 1
      BY <1>2
    <3>. QED BY <1>1, <1>2, <2>2, <3>1
  <2>5. ASSUME NEW j \in 1 .. n - (m - 1), NEW k \in 1 .. n - (m - 1), j < k
        PROVE  IsPrecedence(s[j], s[k], t)
    <3>1. j \in 1 .. n - m
      BY <1>2, <2>5
    <3>2. CASE k \in 1 .. n - m
      BY <1>1, <1>2, <2>5, <3>1, <3>2
    <3>3. CASE k = n - m + 1
      BY <1>1, <1>2, <2>2, <3>1, <3>3
    <3>. QED BY <1>2, <3>2, <3>3
  <2>. QED BY <1>2, <2>1, <2>2, <2>3, <2>4, <2>5 DEF Left, rest, t, n
<1>4. CASE ~(r # <<>> /\ Head(r) = x)
  <2>1. rest = r
    BY <1>4
  <2>2. ASSUME NEW j \in 1 .. m PROVE r[j] # x
    BY <1>2, <1>4
  <2>. HIDE DEF rest
  <2>3. Left(s, r, t)
    BY <1>1, <1>2, <2>2 DEF Left
  <2>. QED BY <2>1, <2>3 DEF rest, t
<1>. QED BY <1>3, <1>4

\* The MROs of the bases, and the list of the bases.
LEMMA SourcesIs ==
  ASSUME Typed, NEW bs \in Seq(Built)
  PROVE  /\ Sources(bs) \in Seq(Seq(Built)) /\ Len(bs) \in Nat /\ Len(Sources(bs)) = Len(bs) + 1
         /\ \A i \in 1 .. Len(bs) : bs[i] \in Built /\ Sources(bs)[i] = mro[bs[i]] /\ mro[bs[i]] \in Seq(Built)
         /\ Sources(bs)[Len(bs) + 1] = bs
         /\ \A i \in 1 .. Len(bs) + 1 : Sources(bs)[i] \in Seq(Built)
<1>. DEFINE ms == [i \in DOMAIN bs |-> mro[bs[i]]]
<1>1. Len(bs) \in Nat /\ DOMAIN bs = 1 .. Len(bs) /\ \A i \in 1 .. Len(bs) : bs[i] \in Built /\ mro[bs[i]] \in Seq(Built)
  BY DEF Typed
<1>2. ms \in Seq(Seq(Built)) /\ Len(ms) = Len(bs) /\ \A i \in 1 .. Len(bs) : ms[i] = mro[bs[i]]
  BY <1>1
<1>3. Sources(bs) = Append(ms, bs)
  BY DEF Sources
<1>. HIDE DEF ms
<1>4. /\ Sources(bs) \in Seq(Seq(Built)) /\ Len(Sources(bs)) = Len(bs) + 1
      /\ Sources(bs)[Len(bs) + 1] = bs /\ \A i \in 1 .. Len(bs) : Sources(bs)[i] = ms[i]
  BY <1>2, <1>3, AppendIs
<1>5. \A i \in 1 .. Len(bs) + 1 : i \in 1 .. Len(bs) \/ i = Len(bs) + 1
  BY <1>1
<1>. QED BY <1>1, <1>2, <1>4, <1>5

\* An order that the bases require is one of their MROs or of their list.
LEMMA PrecedesIs ==
  ASSUME Typed, NEW bs \in Seq(Built), NEW x, NEW y
  PROVE  Precedes(x, y, bs) <=> \E i \in 1 .. Len(bs) + 1 : IsPrecedence(x, y, Sources(bs)[i])
<1>1. /\ Len(bs) \in Nat /\ DOMAIN bs = 1 .. Len(bs) /\ Sources(bs)[Len(bs) + 1] = bs
      /\ \A i \in 1 .. Len(bs) : Sources(bs)[i] = mro[bs[i]]
  BY SourcesIs
<1>2. \A i : i \in 1 .. Len(bs) + 1 <=> i \in 1 .. Len(bs) \/ i = Len(bs) + 1
  BY <1>1
<1>. QED BY <1>1, <1>2, Zenon DEF Precedes

\* Every ancestor is in one of the sequences to merge.
LEMMA AncestorsIs ==
  ASSUME Typed, \A c \in Built : Linearized(c), NEW bs \in Seq(Built)
  PROVE  /\ Ancestors(bs) \subseteq Built
         /\ \A i \in 1 .. Len(bs) + 1 : Range(Sources(bs)[i]) \subseteq Ancestors(bs)
         /\ \A x \in Ancestors(bs) : \E i \in 1 .. Len(bs) + 1 : x \in Range(Sources(bs)[i])
<1>1. /\ Len(bs) \in Nat /\ DOMAIN bs = 1 .. Len(bs) /\ Sources(bs)[Len(bs) + 1] = bs
      /\ \A i \in 1 .. Len(bs) : Sources(bs)[i] = mro[bs[i]] /\ bs[i] \in Built /\ mro[bs[i]] \in Seq(Built)
  BY SourcesIs
<1>2. \A i \in 1 .. Len(bs) : Range(mro[bs[i]]) \subseteq Ancestors(bs) /\ Range(mro[bs[i]]) \subseteq Built
  BY <1>1, RangeIs DEF Ancestors
<1>3. \A x \in Ancestors(bs) : \E i \in 1 .. Len(bs) : x \in Range(mro[bs[i]])
  BY <1>1 DEF Ancestors
<1>4. Range(bs) \subseteq Ancestors(bs)
  <2>1. ASSUME NEW i \in 1 .. Len(bs) PROVE bs[i] \in Ancestors(bs)
    <3>1. bs[i] \in Range(mro[bs[i]])
      BY <1>1 DEF Linearized
    <3>. QED BY <1>2, <3>1
  <2>. QED BY <2>1, RangeIs
<1>5. \A i \in 1 .. Len(bs) + 1 : i \in 1 .. Len(bs) \/ i = Len(bs) + 1
  BY <1>1
<1>6. \A i \in 1 .. Len(bs) : i \in 1 .. Len(bs) + 1
  BY <1>1
<1>. QED BY <1>1, <1>2, <1>3, <1>4, <1>5, <1>6

(* What was built stays linearized when only other classes are added.      *)
LEMMA OrderStays ==
  ASSUME Typed, \A e \in Built : mro'[e] = mro[e], NEW bs \in Seq(Built)
  PROVE  /\ Ancestors(bs)' = Ancestors(bs) /\ Sources(bs)' = Sources(bs)
         /\ \A x, y : Precedes(x, y, bs)' <=> Precedes(x, y, bs)
<1>1. \A i \in DOMAIN bs : bs[i] \in Built
  OBVIOUS
<1>2. \A i \in DOMAIN bs : mro'[bs[i]] = mro[bs[i]]
  BY <1>1
<1>3. Ancestors(bs)' = Ancestors(bs)
  BY <1>2 DEF Ancestors
<1>4. Sources(bs)' = Sources(bs)
  BY <1>2 DEF Sources
<1>5. ASSUME NEW x, NEW y PROVE Precedes(x, y, bs)' <=> Precedes(x, y, bs)
  BY <1>2, SMT DEF Precedes
<1>. QED BY <1>3, <1>4, <1>5

\* A class that is built stays linearized.
LEMMA OldClassesStay ==
  ASSUME Typed, NEW d \in Built, Linearized(d),
         \A e \in Built : mro'[e] = mro[e] /\ bases'[e] = bases[e]
  PROVE  Linearized(d)'
<1>1. PICK bs \in Seq(Built) : bases[d] = bs /\ bases'[d] = bs
  BY DEF Typed
<1>2. /\ mro[d] # <<>> /\ mro[d][1] = d /\ NoDuplicates(mro[d]) /\ Range(mro[d]) = {d} \cup Ancestors(bs)
      /\ \A x, y : Precedes(x, y, bs) => IsPrecedence(x, y, mro[d])
  BY <1>1 DEF Linearized
<1>3. Ancestors(bs)' = Ancestors(bs) /\ \A x, y : Precedes(x, y, bs)' <=> Precedes(x, y, bs)
  BY OrderStays
<1>. QED BY <1>1, <1>2, <1>3 DEF Linearized, Ancestors, Precedes

\* The initial state.
LEMMA InitOK ==
  ASSUME HierarchyInit
  PROVE  HierarchyInv
<1>1. /\ Built = {ObjectClass} /\ mro[ObjectClass] = <<ObjectClass>> /\ bases[ObjectClass] = <<>>
      /\ building = <<>> /\ rejected = <<>>
  BY DEF HierarchyInit, Built
<1>2. Typed
  <2>1. <<ObjectClass>> \in Seq({ObjectClass}) /\ <<>> \in Seq({ObjectClass})
    OBVIOUS
  <2>. QED BY <1>1, <2>1 DEF HierarchyInit, Typed
<1>3. ASSUME NEW c \in Built PROVE Linearized(c)
  <2>1. c = ObjectClass /\ mro[c] = <<c>> /\ bases[c] = <<>> /\ DOMAIN <<>> = {} /\ DOMAIN <<c>> = {1}
    BY <1>1
  <2>2. Ancestors(<<>>) = {}
    BY DEF Ancestors
  <2>3. Range(<<c>>) = {c}
    BY DEF Range
  <2>4. NoDuplicates(<<c>>)
    BY DEF NoDuplicates
  <2>5. \A x, y : ~Precedes(x, y, <<>>)
    BY DEF Precedes, IsPrecedence
  <2>. QED BY <2>1, <2>2, <2>3, <2>4, <2>5 DEF Linearized
<1>. QED BY <1>1, <1>2, <1>3 DEF HierarchyInv, RejectedOnlyIfInconsistent

\* A class statement starts a merge, or is refused.
LEMMA MakeStep ==
  ASSUME HierarchyInv, NEW c, c \notin Built, NEW bs \in BaseLists(Built), Make(c, bs)
  PROVE  HierarchyInv'
<1>1. /\ mro' = mro /\ bases' = bases /\ Built' = Built /\ building = <<>>
  BY DEF Make, Built
<1>2. Typed /\ Typed' /\ \A d \in Built : Linearized(d) /\ Linearized(d)'
  <2>1. Typed /\ \A d \in Built : Linearized(d)
    BY DEF HierarchyInv
  <2>2. Typed'
    BY <1>1, <2>1 DEF Typed
  <2>3. \A d \in Built : Linearized(d)'
    BY <1>1, <2>1, OldClassesStay
  <2>. QED BY <2>1, <2>2, <2>3
<1>3. bs \in Seq(Built) /\ bs # <<>>
  BY MaxBasesAssumption DEF BaseLists
<1>4. CASE NoDuplicates(bs)
  <2>1. /\ building' = <<c, bs>> /\ sequences' = Sources(bs) /\ linearized' = <<c>> /\ rejected' = <<>>
    BY <1>4 DEF Make, Sources
  <2>2. Sources(bs)' = Sources(bs) /\ Ancestors(bs)' = Ancestors(bs)
    BY <1>1 DEF Sources, Ancestors
  <2>3. Range(<<c>>) = {c}
    BY DEF Range
  <2>4. ASSUME NEW i \in 1 .. Len(bs) + 1 PROVE Left(Sources(bs)[i], Sources(bs)[i], <<c>>)
    <3>. DEFINE s == Sources(bs)[i]
    <3>1. s \in Seq(Built)
      BY <1>2, <1>3, SourcesIs
    <3>. HIDE DEF s
    <3>2. Len(s) \in Nat /\ \A j \in 1 .. Len(s) : s[j] \in Built
      BY <3>1
    <3>3. Left(s, s, <<c>>)
      BY <2>3, <3>2 DEF Left
    <3>. QED BY <3>3 DEF s
  <2>5. Sources(bs) \in Seq(Seq(Built)) /\ Len(Sources(bs)) = Len(bs) + 1
    BY <1>2, <1>3, SourcesIs
  <2>6. <<c>> \in Seq(Built \cup {c}) /\ <<c>> # <<>> /\ <<c>>[1] = c /\ NoDuplicates(<<c>>)
    BY DEF NoDuplicates
  <2>7. Merging(c, bs)'
    BY <1>1, <1>3, <1>4, <2>1, <2>2, <2>3, <2>4, <2>5, <2>6, Zenon DEF Merging
  <2>8. RejectedOnlyIfInconsistent'
    BY <2>1 DEF RejectedOnlyIfInconsistent
  <2>. QED BY <1>1, <1>2, <2>1, <2>7, <2>8 DEF HierarchyInv
<1>5. CASE ~NoDuplicates(bs)
  <2>1. rejected' = bs /\ building' = <<>>
    BY <1>1, <1>5 DEF Make
  <2>2. RejectedOnlyIfInconsistent'
    BY <1>5, <2>1 DEF RejectedOnlyIfInconsistent
  <2>. QED BY <1>1, <1>2, <2>1, <2>2 DEF HierarchyInv
<1>. QED BY <1>4, <1>5

\* Appending a new item makes no duplicate.
LEMMA AppendApart ==
  ASSUME NEW S, NEW s \in Seq(S), NEW x \in S, NoDuplicates(s), x \notin Range(s)
  PROVE  NoDuplicates(Append(s, x))
<1>1. /\ DOMAIN s = 1 .. Len(s) /\ DOMAIN Append(s, x) = 1 .. Len(s) + 1 /\ Len(s) \in Nat
      /\ Append(s, x)[Len(s) + 1] = x /\ \A i \in 1 .. Len(s) : Append(s, x)[i] = s[i]
  BY AppendIs
<1>2. \A i \in 1 .. Len(s) : s[i] # x
  BY RangeIs
<1>3. \A i : i \in 1 .. Len(s) + 1 <=> i \in 1 .. Len(s) \/ i = Len(s) + 1
  BY <1>1
<1>. QED BY <1>1, <1>2, <1>3, Zenon DEF NoDuplicates

\* The candidate heads a sequence and is in no tail.
LEMMA CandidateIs ==
  ASSUME NEW S, NEW seqs \in Seq(Seq(S)), GoodHeads(seqs) # {}
  PROVE  \E i \in 1 .. Len(seqs) :
           /\ seqs[i] # <<>> /\ Candidate(seqs) = seqs[i][1] /\ seqs[i] \in Seq(S)
           /\ \A k \in 1 .. Len(seqs) : \A j \in 2 .. Len(seqs[k]) : seqs[k][j] # Candidate(seqs)
<1>. DEFINE G == GoodHeads(seqs)
            i == CHOOSE k \in G : \A j \in G : k <= j
<1>1. DOMAIN seqs = 1 .. Len(seqs) /\ Len(seqs) \in Nat /\ \A k \in 1 .. Len(seqs) : seqs[k] \in Seq(S)
  OBVIOUS
<1>2. G \in SUBSET Nat
  BY <1>1 DEF GoodHeads
<1>3. \E k \in G : \A j \in G : k <= j
  <2>1. G # {}
    OBVIOUS
  <2>. HIDE DEF G
  <2>. QED BY <1>2, <2>1, LeastElement
<1>4. i \in G /\ Candidate(seqs) = Head(seqs[i])
  BY <1>3, Zenon DEF Candidate
<1>. HIDE DEF i
<1>5. i \in 1 .. Len(seqs) /\ seqs[i] # <<>> /\ ~AppearsInAnyTail(Candidate(seqs), seqs) /\ seqs[i] \in Seq(S)
  BY <1>1, <1>4 DEF GoodHeads
<1>6. Head(seqs[i]) = seqs[i][1]
  BY <1>5
<1>. QED BY <1>1, <1>4, <1>5, <1>6 DEF AppearsInAnyTail

\* A round of the merge: the next class, the end, or a rejection.
LEMMA MergeStep ==
  ASSUME HierarchyInv, Merge
  PROVE  HierarchyInv'
<1>1. /\ mro' = mro /\ bases' = bases /\ rejected' = rejected /\ building' = building /\ Built' = Built
      /\ building # <<>>
  BY DEF Merge, Built
<1>2. Typed /\ Typed' /\ \A d \in Built : Linearized(d) /\ Linearized(d)'
  <2>1. Typed /\ \A d \in Built : Linearized(d)
    BY DEF HierarchyInv
  <2>2. Typed'
    BY <1>1, <2>1 DEF Typed
  <2>3. \A d \in Built : Linearized(d)'
    BY <1>1, <2>1, OldClassesStay
  <2>. QED BY <2>1, <2>2, <2>3
<1>3. PICK c, bs : building = <<c, bs>> /\ Merging(c, bs)
  BY <1>1 DEF HierarchyInv
<1>. DEFINE x == Candidate(sequences)
            n == Len(bs) + 1
<1>4. /\ c \notin Built /\ bs \in Seq(Built) /\ bs # <<>> /\ NoDuplicates(bs) /\ rejected = <<>>
      /\ sequences \in Seq(Seq(Built)) /\ Len(sequences) = n
      /\ \A i \in 1 .. n : Left(Sources(bs)[i], sequences[i], linearized)
      /\ linearized \in Seq(Built \cup {c}) /\ linearized # <<>> /\ linearized[1] = c
      /\ NoDuplicates(linearized)
      /\ Range(linearized) \subseteq {c} \cup Ancestors(bs)
  BY <1>3 DEF Merging
<1>5. /\ GoodHeads(sequences) # {}
      /\ linearized' = Append(linearized, x) /\ sequences' = RemoveCandidate(x, sequences)
  BY DEF Merge
<1>6. PICK k \in 1 .. n :
        /\ sequences[k] # <<>> /\ x = sequences[k][1] /\ sequences[k] \in Seq(Built)
        /\ \A i \in 1 .. n : \A j \in 2 .. Len(sequences[i]) : sequences[i][j] # x
  <2>. HIDE DEF n
  <2>. QED BY <1>4, <1>5, CandidateIs
<1>. HIDE DEF x
<1>7. n \in Nat /\ DOMAIN sequences = 1 .. n /\ \A i \in 1 .. n : Sources(bs)[i] \in Seq(Built) /\ sequences[i] \in Seq(Built)
  BY <1>2, <1>4, SourcesIs
<1>. HIDE DEF n
<1>8. x \in Built /\ x \in Ancestors(bs) /\ x \notin Range(linearized)
  <2>. DEFINE s == Sources(bs)[k]
              r == sequences[k]
  <2>1. s \in Seq(Built) /\ r \in Seq(Built) /\ r # <<>> /\ Left(s, r, linearized) /\ x = r[1]
    BY <1>4, <1>6, <1>7
  <2>2. Range(s) \subseteq Ancestors(bs)
    BY <1>2, <1>4, AncestorsIs DEF n
  <2>. HIDE DEF s, r
  <2>3. Len(s) \in Nat /\ Len(r) \in Nat /\ 1 \in 1 .. Len(r)
    BY <2>1
  <2>4. /\ Len(s) - Len(r) + 1 \in 1 .. Len(s) /\ x = s[Len(s) - Len(r) + 1] /\ x \notin Range(linearized)
    BY <2>1, <2>3 DEF Left
  <2>5. x \in Range(s) /\ x \in Built
    BY <2>1, <2>4, RangeIs
  <2>. QED BY <2>2, <2>4, <2>5
<1>9. /\ linearized' \in Seq(Built \cup {c}) /\ linearized' # <<>> /\ linearized'[1] = c
      /\ NoDuplicates(linearized') /\ Range(linearized') = Range(linearized) \cup {x}
  <2>. DEFINE C == Built \cup {c}
  <2>1. linearized \in Seq(C) /\ x \in C
    BY <1>4, <1>8
  <2>. HIDE DEF C
  <2>2. /\ Append(linearized, x) \in Seq(C) /\ Append(linearized, x) # <<>>
        /\ \A i \in 1 .. Len(linearized) : Append(linearized, x)[i] = linearized[i]
    BY <2>1, AppendIs
  <2>3. 1 \in 1 .. Len(linearized)
    BY <1>4, <2>1
  <2>4. NoDuplicates(Append(linearized, x))
    BY <1>4, <1>8, <2>1, AppendApart
  <2>5. Range(Append(linearized, x)) = Range(linearized) \cup {x}
    BY <2>1, AppendRange
  <2>. QED BY <1>4, <1>5, <2>2, <2>3, <2>4, <2>5 DEF C
<1>10. /\ sequences' \in Seq(Seq(Built)) /\ Len(sequences') = n
       /\ \A i \in 1 .. n : Left(Sources(bs)[i], sequences'[i], linearized')
  <2>. DEFINE rest(r) == IF r # <<>> /\ Head(r) = x THEN Tail(r) ELSE r
  <2>1. sequences' = [i \in 1 .. n |-> rest(sequences[i])]
    BY <1>5, <1>7 DEF RemoveCandidate
  <2>2. ASSUME NEW i \in 1 .. n
        PROVE  rest(sequences[i]) \in Seq(Built) /\ Left(Sources(bs)[i], rest(sequences[i]), linearized')
    <3>. DEFINE C == Built \cup {c}
    <3>1. linearized \in Seq(C) /\ x \in C
      BY <1>4, <1>8
    <3>. HIDE DEF C
    <3>2. /\ Sources(bs)[i] \in Seq(Built) /\ sequences[i] \in Seq(Built)
          /\ Left(Sources(bs)[i], sequences[i], linearized)
          /\ \A j \in 2 .. Len(sequences[i]) : sequences[i][j] # x
      BY <1>4, <1>6, <1>7
    <3>3. LET r == IF sequences[i] # <<>> /\ Head(sequences[i]) = x THEN Tail(sequences[i]) ELSE sequences[i]
          IN  r \in Seq(Built) /\ Left(Sources(bs)[i], r, Append(linearized, x))
      BY <1>8, <3>1, <3>2, RoundKeeps
    <3>. QED BY <1>5, <3>3
  <2>. HIDE DEF rest
  <2>3. \A i \in 1 .. n : sequences'[i] = rest(sequences[i])
    BY <2>1
  <2>4. sequences' \in Seq(Seq(Built)) /\ Len(sequences') = n
    BY <1>7, <2>1, <2>2
  <2>. QED BY <2>2, <2>3, <2>4
<1>11. Merging(c, bs)'
  <2>1. Sources(bs)' = Sources(bs) /\ Ancestors(bs)' = Ancestors(bs)
    BY <1>1 DEF Sources, Ancestors
  <2>2. Range(linearized') \subseteq {c} \cup Ancestors(bs)
    BY <1>4, <1>8, <1>9
  <2>. QED BY <1>1, <1>4, <1>9, <1>10, <2>1, <2>2, Zenon DEF Merging, n
<1>12. RejectedOnlyIfInconsistent'
  BY <1>1, <1>4 DEF RejectedOnlyIfInconsistent
<1>. QED BY <1>1, <1>2, <1>3, <1>11, <1>12 DEF HierarchyInv

\* What is left of a sequence is in its order.
LEMMA LeftOrder ==
  ASSUME NEW S, NEW s \in Seq(S), NEW r \in Seq(S), NEW C, NEW lin \in Seq(C), Left(s, r, lin)
  PROVE  /\ \A j \in 1 .. Len(r) : r[j] \in Range(s)
         /\ \A j, k \in 1 .. Len(r) : j < k => IsPrecedence(r[j], r[k], s)
         /\ r = <<>> => /\ Range(s) \subseteq Range(lin)
                        /\ \A x, y : IsPrecedence(x, y, s) => IsPrecedence(x, y, lin)
<1>. DEFINE n == Len(s)
            m == Len(r)
<1>1. /\ n \in Nat /\ m \in Nat /\ m <= n /\ \A j \in 1 .. m : r[j] = s[n - m + j]
      /\ \A j \in 1 .. n - m : s[j] \in Range(lin)
      /\ \A j, k \in 1 .. n - m : j < k => IsPrecedence(s[j], s[k], lin)
  <2>1. n \in Nat /\ m \in Nat
    OBVIOUS
  <2>. QED BY <2>1, Zenon DEF Left
<1>2. ASSUME NEW j \in 1 .. m PROVE n - m + j \in 1 .. n /\ r[j] = s[n - m + j] /\ r[j] \in Range(s)
  <2>1. n - m + j \in 1 .. n /\ r[j] = s[n - m + j]
    <3>. HIDE DEF n, m
    <3>. QED BY <1>1
  <2>. QED BY <2>1, RangeIs
<1>3. ASSUME NEW j \in 1 .. m, NEW k \in 1 .. m, j < k PROVE IsPrecedence(r[j], r[k], s)
  <2>1. n - m + j < n - m + k
    BY <1>1, <1>3
  <2>2. /\ n - m + j \in 1 .. n /\ n - m + k \in 1 .. n
        /\ s[n - m + j] = r[j] /\ s[n - m + k] = r[k]
    BY <1>2
  <2>3. \E a, b \in 1 .. n : a < b /\ s[a] = r[j] /\ s[b] = r[k]
    <3>. HIDE DEF n, m
    <3>. QED BY <2>1, <2>2
  <2>. QED BY <2>3, PrecedenceIs
<1>4. ASSUME r = <<>>
      PROVE  /\ Range(s) \subseteq Range(lin)
             /\ \A x, y : IsPrecedence(x, y, s) => IsPrecedence(x, y, lin)
  <2>1. m = 0 /\ n - m = n
    BY <1>1, <1>4
  <2>2. \A j \in 1 .. n : s[j] \in Range(lin)
    BY <1>1, <2>1
  <2>3. \A j, k \in 1 .. n : j < k => IsPrecedence(s[j], s[k], lin)
    BY <1>1, <2>1
  <2>4. Range(s) \subseteq Range(lin)
    BY <2>2, RangeIs
  <2>5. ASSUME NEW x, NEW y, IsPrecedence(x, y, s) PROVE IsPrecedence(x, y, lin)
    <3>1. \E j, k \in 1 .. n : j < k /\ s[j] = x /\ s[k] = y
      BY <2>5, PrecedenceIs
    <3>. QED BY <2>3, <3>1
  <2>. QED BY <2>4, <2>5
<1>. QED BY <1>2, <1>3, <1>4

(* The merge is over: every sequence is used up, so all the orders it had  *)
(* to respect are in the MRO found.                                        *)
LEMMA FinishStep ==
  ASSUME HierarchyInv, Finish
  PROVE  HierarchyInv'
<1>1. Typed /\ \A d \in Built : Linearized(d)
  BY DEF HierarchyInv
<1>2. PICK c, bs : building = <<c, bs>> /\ Merging(c, bs)
  BY DEF HierarchyInv, Finish
<1>. DEFINE n == Len(bs) + 1
<1>3. /\ c \notin Built /\ bs \in Seq(Built) /\ rejected = <<>>
      /\ sequences \in Seq(Seq(Built)) /\ Len(sequences) = n
      /\ \A i \in 1 .. n : Left(Sources(bs)[i], sequences[i], linearized)
      /\ linearized \in Seq(Built \cup {c}) /\ linearized # <<>> /\ linearized[1] = c
      /\ NoDuplicates(linearized) /\ Range(linearized) \subseteq {c} \cup Ancestors(bs)
  BY <1>2 DEF Merging
<1>4. /\ DOMAIN sequences = 1 .. n /\ \A i \in 1 .. n : sequences[i] = <<>>
  <2>1. DOMAIN sequences = 1 .. n
    BY <1>3
  <2>. QED BY <2>1 DEF Finish, HasRemaining
<1>5. /\ mro' = [e \in Built \cup {c} |-> IF e = c THEN linearized ELSE mro[e]]
      /\ bases' = [e \in Built \cup {c} |-> IF e = c THEN bs ELSE bases[e]]
      /\ building' = <<>> /\ rejected' = <<>>
  BY <1>2, <1>3 DEF Finish
<1>6. /\ Built' = Built \cup {c} /\ mro'[c] = linearized /\ bases'[c] = bs
      /\ \A e \in Built : mro'[e] = mro[e] /\ bases'[e] = bases[e]
  BY <1>3, <1>5 DEF Built
<1>7. Typed'
  <2>1. Seq(Built) \subseteq Seq(Built')
    BY <1>6
  <2>2. linearized \in Seq(Built') /\ bs \in Seq(Built')
    BY <1>3, <1>6, <2>1
  <2>3. \A e \in Built' : mro'[e] \in Seq(Built') /\ bases'[e] \in Seq(Built')
    BY <1>1, <1>6, <2>1, <2>2 DEF Typed
  <2>4. mro' = [e \in Built' |-> mro'[e]] /\ bases' = [e \in Built' |-> bases'[e]]
    BY <1>5, <1>6
  <2>. QED BY <1>1, <1>6, <2>3, <2>4 DEF Typed
<1>8. ASSUME NEW i \in 1 .. n
      PROVE  /\ Range(Sources(bs)[i]) \subseteq Range(linearized)
             /\ \A x, y : IsPrecedence(x, y, Sources(bs)[i]) => IsPrecedence(x, y, linearized)
  <2>. DEFINE C == Built \cup {c}
  <2>1. linearized \in Seq(C)
    BY <1>3
  <2>. HIDE DEF C
  <2>2. Sources(bs)[i] \in Seq(Built) /\ <<>> \in Seq(Built) /\ Left(Sources(bs)[i], <<>>, linearized)
    BY <1>1, <1>3, <1>4, SourcesIs
  <2>. QED BY <2>1, <2>2, LeftOrder
<1>9. Range(linearized) = {c} \cup Ancestors(bs)
  <2>1. Ancestors(bs) \subseteq Range(linearized)
    BY <1>1, <1>3, <1>8, AncestorsIs
  <2>2. 1 \in 1 .. Len(linearized)
    BY <1>3
  <2>3. c \in Range(linearized)
    <3>. DEFINE C == Built \cup {c}
    <3>1. linearized \in Seq(C)
      BY <1>3
    <3>. HIDE DEF C
    <3>. QED BY <1>3, <2>2, <3>1, RangeIs
  <2>. QED BY <1>3, <2>1, <2>3
<1>10. \A x, y : Precedes(x, y, bs) => IsPrecedence(x, y, linearized)
  BY <1>1, <1>3, <1>8, PrecedesIs
<1>11. Linearized(c)'
  <2>1. Ancestors(bs)' = Ancestors(bs) /\ \A x, y : Precedes(x, y, bs)' <=> Precedes(x, y, bs)
    BY <1>1, <1>3, <1>6, OrderStays
  <2>. QED BY <1>3, <1>6, <1>9, <1>10, <2>1 DEF Linearized, Ancestors, Precedes
<1>12. \A d \in Built : Linearized(d)'
  BY <1>1, <1>6, OldClassesStay
<1>. QED BY <1>5, <1>6, <1>7, <1>11, <1>12 DEF HierarchyInv, RejectedOnlyIfInconsistent

(* No head can be taken: every class left has another one left before it.  *)
LEMMA RejectStep ==
  ASSUME HierarchyInv, Reject
  PROVE  HierarchyInv'
<1>1. Typed /\ \A d \in Built : Linearized(d)
  BY DEF HierarchyInv
<1>2. PICK c, bs : building = <<c, bs>> /\ Merging(c, bs)
  BY DEF HierarchyInv, Reject
<1>. DEFINE n == Len(bs) + 1
<1>3. /\ bs \in Seq(Built) /\ sequences \in Seq(Seq(Built)) /\ Len(sequences) = n
      /\ \A i \in 1 .. n : Left(Sources(bs)[i], sequences[i], linearized)
      /\ linearized \in Seq(Built \cup {c})
  BY <1>2 DEF Merging
<1>4. /\ mro' = mro /\ bases' = bases /\ Built' = Built /\ building' = <<>> /\ rejected' = bs
      /\ HasRemaining(sequences) /\ GoodHeads(sequences) = {}
  BY <1>2 DEF Reject, Built
<1>5. DOMAIN sequences = 1 .. n /\ \A i \in 1 .. n : sequences[i] \in Seq(Built) /\ Len(sequences[i]) \in Nat
  BY <1>3
<1>6. ASSUME NEW i \in 1 .. n
      PROVE  /\ \A j \in 1 .. Len(sequences[i]) : sequences[i][j] \in Ancestors(bs)
             /\ \A j, k \in 1 .. Len(sequences[i]) : j < k => Precedes(sequences[i][j], sequences[i][k], bs)
  <2>. DEFINE C == Built \cup {c}
  <2>1. linearized \in Seq(C)
    BY <1>3
  <2>. HIDE DEF C
  <2>2. Sources(bs)[i] \in Seq(Built) /\ sequences[i] \in Seq(Built) /\ Left(Sources(bs)[i], sequences[i], linearized)
    BY <1>1, <1>3, <1>5, SourcesIs
  <2>3. /\ \A j \in 1 .. Len(sequences[i]) : sequences[i][j] \in Range(Sources(bs)[i])
        /\ \A j, k \in 1 .. Len(sequences[i]) : j < k => IsPrecedence(sequences[i][j], sequences[i][k], Sources(bs)[i])
    BY <2>1, <2>2, LeftOrder
  <2>4. Range(Sources(bs)[i]) \subseteq Ancestors(bs)
    BY <1>1, <1>3, AncestorsIs
  <2>. QED BY <1>1, <1>3, <2>3, <2>4, PrecedesIs
<1>. DEFINE S == {x \in Ancestors(bs) : \E i \in 1 .. n : \E j \in 1 .. Len(sequences[i]) : sequences[i][j] = x}
<1>7. S # {}
  <2>1. PICK i \in 1 .. n : sequences[i] # <<>>
    BY <1>4, <1>5 DEF HasRemaining
  <2>2. 1 \in 1 .. Len(sequences[i])
    BY <1>5, <2>1
  <2>. QED BY <1>6, <2>2
<1>8. ASSUME NEW x \in S PROVE \E y \in S : Precedes(y, x, bs)
  <2>1. ASSUME NEW i \in 1 .. n, NEW j \in 2 .. Len(sequences[i]), sequences[i][j] = x
        PROVE  \E y \in S : Precedes(y, x, bs)
    <3>1. 1 \in 1 .. Len(sequences[i]) /\ j \in 1 .. Len(sequences[i]) /\ 1 < j
      BY <1>5
    <3>2. Precedes(sequences[i][1], x, bs) /\ sequences[i][1] \in S
      BY <1>6, <2>1, <3>1
    <3>. QED BY <3>2
  <2>5. PICK i \in 1 .. n : \E j \in 1 .. Len(sequences[i]) : sequences[i][j] = x
    OBVIOUS
  <2>2. PICK j \in 1 .. Len(sequences[i]) : sequences[i][j] = x
    BY <2>5
  <2>3. CASE j = 1
    <3>1. sequences[i] # <<>> /\ Head(sequences[i]) = x
      BY <1>5, <2>2, <2>3
    <3>2. AppearsInAnyTail(x, sequences)
      BY <1>4, <1>5, <3>1 DEF GoodHeads
    <3>3. PICK k \in 1 .. n : \E m \in 2 .. Len(sequences[k]) : sequences[k][m] = x
      BY <1>5, <3>2 DEF AppearsInAnyTail
    <3>4. PICK m \in 2 .. Len(sequences[k]) : sequences[k][m] = x
      BY <3>3
    <3>. QED BY <2>1, <3>4
  <2>4. CASE j # 1
    <3>1. j \in 2 .. Len(sequences[i])
      BY <1>5, <2>4
    <3>. QED BY <2>1, <2>2, <3>1
  <2>. QED BY <2>3, <2>4
<1>9. Ancestors(bs)' = Ancestors(bs) /\ \A x, y : Precedes(x, y, bs)' <=> Precedes(x, y, bs)
  BY <1>1, <1>3, <1>4, OrderStays
<1>10. RejectedOnlyIfInconsistent'
  <2>1. S \in (SUBSET Ancestors(bs)) \ {{}}
    BY <1>7
  <2>. HIDE DEF S
  <2>2. \E T \in (SUBSET Ancestors(bs)) \ {{}} : \A x \in T : \E y \in T : Precedes(y, x, bs)
    BY <1>8, <2>1
  <2>3. \E T \in (SUBSET Ancestors(bs)') \ {{}} : \A x \in T : \E y \in T : Precedes(y, x, bs)'
    BY <1>9, <2>2
  <2>. QED BY <1>4, <2>3, ZenonT(90) DEF RejectedOnlyIfInconsistent, Ancestors, Precedes
<1>11. Typed' /\ \A d \in Built : Linearized(d)'
  <2>1. Typed'
    BY <1>1, <1>4 DEF Typed
  <2>. QED BY <1>1, <1>4, <2>1, OldClassesStay
<1>. QED BY <1>4, <1>10, <1>11 DEF HierarchyInv

\* Every step keeps the invariant.
LEMMA NextOK ==
  ASSUME HierarchyInv, [HierarchyNext]_hierarchyVars
  PROVE  HierarchyInv'
<1>1. CASE UNCHANGED hierarchyVars
  <2>1. /\ mro' = mro /\ bases' = bases /\ Built' = Built /\ building' = building /\ rejected' = rejected
        /\ sequences' = sequences /\ linearized' = linearized
    BY <1>1 DEF hierarchyVars, Built
  <2>2. Typed /\ \A d \in Built : Linearized(d)
    BY DEF HierarchyInv
  <2>3. Typed' /\ \A d \in Built : Linearized(d)'
    <3>1. Typed'
      BY <2>1, <2>2 DEF Typed
    <3>. QED BY <2>1, <2>2, <3>1, OldClassesStay
  <2>4. (building = <<>> \/ \E c, bs : building = <<c, bs>> /\ Merging(c, bs))'
    <3>1. CASE building = <<>>
      BY <2>1, <3>1
    <3>2. CASE \E c, bs : building = <<c, bs>> /\ Merging(c, bs)
      <4>1. PICK c, bs : building = <<c, bs>> /\ Merging(c, bs)
        BY <3>2
      <4>2. Sources(bs)' = Sources(bs) /\ Ancestors(bs)' = Ancestors(bs)
        BY <2>1 DEF Sources, Ancestors
      <4>3. Merging(c, bs)'
        BY <2>1, <4>1, <4>2, Zenon DEF Merging
      <4>. QED BY <2>1, <4>1, <4>3
    <3>. QED BY <3>1, <3>2 DEF HierarchyInv
  <2>5. RejectedOnlyIfInconsistent'
    BY <2>1, ZenonT(90) DEF HierarchyInv, RejectedOnlyIfInconsistent, Ancestors, Precedes
  <2>. QED BY <2>1, <2>3, <2>4, <2>5 DEF HierarchyInv
<1>2. CASE UnusedClasses # {} /\ \E bs \in BaseLists(Built) : Make(CHOOSE c \in UnusedClasses : TRUE, bs)
  <2>. DEFINE c == CHOOSE d \in UnusedClasses : TRUE
  <2>1. c \in UnusedClasses
    BY <1>2
  <2>2. PICK bs \in BaseLists(Built) : Make(c, bs)
    BY <1>2
  <2>. HIDE DEF c
  <2>3. c \notin Built
    BY <2>1 DEF UnusedClasses
  <2>4. PICK d : d = c
    OBVIOUS
  <2>. QED BY <2>2, <2>3, <2>4, MakeStep
<1>3. CASE Merge
  BY <1>3, MergeStep
<1>4. CASE Finish
  BY <1>4, FinishStep
<1>5. CASE Reject
  BY <1>5, RejectStep
<1>. QED BY <1>1, <1>2, <1>3, <1>4, <1>5, Zenon DEF HierarchyNext

(* Every class is linearized, and the merge in progress has lost nothing.  *)
THEOREM HierarchyInvariant == HierarchySpec => []HierarchyInv
<1>1. HierarchyInit => HierarchyInv
  BY InitOK
<1>2. HierarchyInv /\ [HierarchyNext]_hierarchyVars => HierarchyInv'
  BY NextOK
<1>. QED BY <1>1, <1>2, PTL DEF HierarchySpec

(* compute_mro lists the class and every ancestor exactly once, keeps the  *)
(* order of the class statement and of every base's MRO, and refuses only  *)
(* a base named twice or orders that contradict each other, whatever the   *)
(* number of classes, bases and rounds.                                    *)
THEOREM ClassesAlwaysLinearized == HierarchySpec => []ClassesLinearized
<1>1. HierarchyInv => ClassesLinearized
  <2>1. SUFFICES ASSUME HierarchyInv PROVE ClassesLinearized
    OBVIOUS
  <2>2. MroListsAncestors
    BY <2>1 DEF HierarchyInv, Linearized, MroListsAncestors
  <2>3. MroKeepsOrder
    BY <2>1 DEF HierarchyInv, Linearized, MroKeepsOrder
  <2>. QED BY <2>1, <2>2, <2>3 DEF HierarchyInv, ClassesLinearized
<1>. QED BY <1>1, HierarchyInvariant, PTL

-----------------------------------------------------------------------------
(* What imports leave in sys.modules and on packages.  The invariant ties  *)
(* every import statement in progress to what it is doing: the module      *)
(* whose body it runs was made for the name it loads, no two statements    *)
(* run the same body, and only the innermost runs none.  Programs that do  *)
(* not edit sys.modules keep more: the running module is in sys.modules,   *)
(* and until a body fails each statement continues from the package that   *)
(* sys.modules has for the component before.                               *)


Frames ==
  [target : Names, leaf : Names \cup {Absent}, idx : Nat \ {0}, cur : Values,
   exec : ModuleObjects \cup {Absent}]

ImportTypeOK ==
  /\ importProgram \in ImportPrograms
  /\ sysModules \in [Names -> Values]
  /\ attrs \in [Modules -> [Names -> Values]]
  /\ madeFor \in [ModuleObjects -> Names \cup {Absent}]
  /\ frames \in Seq(Frames)
  /\ raising \in BOOLEAN
  /\ done \subseteq ModuleObjects /\ failed \subseteq ModuleObjects

\* A statement loads a component, or has loaded them all.
FrameOK(f) ==
  /\ f.leaf # Absent => /\ HasParent(f.leaf) /\ Parent(f.leaf) = f.target
                        /\ f.idx <= Len(Chain[f.target]) + 1
  /\ f.exec # Absent => Loading(f) /\ madeFor[f.exec] = Component(f)

\* No body is run by two statements, and only the innermost statement runs none.
BodiesApart ==
  \A i, j \in DOMAIN frames :
    /\ i # j /\ frames[i].exec # Absent => frames[i].exec # frames[j].exec
    /\ i < j => frames[i].exec # Absent

\* Objects that ended or failed were made for some name.
Finished == \A o \in done \cup failed : madeFor[o] # Absent

\* The component before the one that f loads.
Previous(f) == Chain[f.target][f.idx - 1]

\* Programs that leave sys.modules alone: what it holds was put there by
\* imports, the running modules are in it, and failures keep their exception.
Unedited ==
  /\ \A n \in Names : sysModules[n] \in ModuleObjects \cup {BuiltinObj, Absent}
  /\ \A i \in DOMAIN frames : frames[i].exec # Absent =>
       sysModules[Component(frames[i])] = frames[i].exec
  /\ FailureHasPending

\* Moreover no body failed: packages stay, and what they contain is bound on
\* them or being loaded.
Linked ==
  /\ \A i \in DOMAIN frames : frames[i].idx > 1 /\ Loading(frames[i]) =>
       /\ frames[i].cur = sysModules[Previous(frames[i])]
       /\ sysModules[Previous(frames[i])] # Absent
  /\ \A n \in Names : HasParent(n) /\ sysModules[n] \in ModuleObjects =>
       /\ sysModules[Parent(n)] # Absent
       /\ Bound(n) \/ sysModules[n] \in Executing

ImportInv ==
  /\ ImportTypeOK
  /\ \A i \in DOMAIN frames : FrameOK(frames[i])
  /\ BodiesApart
  /\ Finished
  /\ CacheSound
  /\ importProgram.edits = {} => Unedited
  /\ importProgram.edits = {} /\ failed = {} => Linked
-----------------------------------------------------------------------------
(* How the three changes to the stack of statements look from its indexes. *)
LEMMA Stack ==
  ASSUME frames \in Seq(Frames), NEW n \in Nat, n = Len(frames)
  PROVE  /\ DOMAIN frames = 1 .. n /\ \A i \in DOMAIN frames : frames[i] \in Frames
         /\ \A f \in Frames : LET fs == Append(frames, f)
              IN  /\ fs \in Seq(Frames) /\ DOMAIN fs = 1 .. n + 1 /\ fs[n + 1] = f
                  /\ \A i \in 1 .. n : fs[i] = frames[i]
         /\ frames # <<>> =>
              /\ n \in DOMAIN frames /\ Top = frames[n]
              /\ Front(frames) \in Seq(Frames) /\ DOMAIN Front(frames) = 1 .. n - 1
              /\ \A i \in 1 .. n - 1 : Front(frames)[i] = frames[i]
              /\ \A f \in Frames : LET fs == Front(frames) \o <<f>>
                   IN  /\ fs \in Seq(Frames) /\ DOMAIN fs = 1 .. n /\ fs[n] = f
                       /\ \A i \in 1 .. n - 1 : fs[i] = frames[i]
<1>1. DOMAIN frames = 1 .. n /\ \A i \in DOMAIN frames : frames[i] \in Frames
  BY LenProperties, ElementOfSeq
<1>2. ASSUME NEW f \in Frames, NEW fs, fs = Append(frames, f)
      PROVE  /\ fs \in Seq(Frames) /\ DOMAIN fs = 1 .. n + 1 /\ fs[n + 1] = f
             /\ \A i \in 1 .. n : fs[i] = frames[i]
  <2>1. fs \in Seq(Frames) /\ Len(fs) = n + 1 /\ fs[n + 1] = f /\ \A i \in 1 .. n : fs[i] = frames[i]
    BY <1>2, AppendProperties
  <2>. QED BY <2>1, LenProperties
<1>3. ASSUME frames # <<>>
      PROVE  /\ n \in DOMAIN frames /\ Top = frames[n]
             /\ Front(frames) \in Seq(Frames) /\ DOMAIN Front(frames) = 1 .. n - 1
             /\ \A i \in 1 .. n - 1 : Front(frames)[i] = frames[i]
             /\ \A f \in Frames : LET fs == Front(frames) \o <<f>>
                  IN  /\ fs \in Seq(Frames) /\ DOMAIN fs = 1 .. n /\ fs[n] = f
                      /\ \A i \in 1 .. n - 1 : fs[i] = frames[i]
  <2>1. n \in DOMAIN frames /\ Top = frames[n]
    BY <1>1, <1>3, EmptySeq DEF Top, Last
  <2>2. PICK front \in Seq(Frames) :
          /\ front = Front(frames) /\ Len(front) = n - 1
          /\ \A i \in 1 .. n - 1 : front[i] = frames[i]
    <3>1. PICK m \in Nat : m = n - 1 /\ \A i \in 1 .. m : frames[i] \in Frames
      BY <1>1, <2>1
    <3>2. /\ SubSeq(frames, 1, m) \in Seq(Frames)
          /\ Len(SubSeq(frames, 1, m)) = IF 1 <= m THEN m - 1 + 1 ELSE 0
          /\ \A i \in 1 .. m - 1 + 1 : SubSeq(frames, 1, m)[i] = frames[1 + i - 1]
      BY <3>1, SubSeqProperties
    <3>3. Len(SubSeq(frames, 1, m)) = m /\ \A i \in 1 .. m : SubSeq(frames, 1, m)[i] = frames[i]
      BY <3>2
    <3>4. Front(frames) = SubSeq(frames, 1, m)
      BY <3>1 DEF Front
    <3>. QED BY <3>1, <3>2, <3>3, <3>4
  <2>3. ASSUME NEW f \in Frames, NEW fs, fs = front \o <<f>>
        PROVE  /\ fs \in Seq(Frames) /\ DOMAIN fs = 1 .. n /\ fs[n] = f
               /\ \A i \in 1 .. n - 1 : fs[i] = frames[i]
    <3>. DEFINE one == <<f>>
    <3>1. one \in Seq(Frames) /\ Len(one) = 1 /\ one[1] = f
      OBVIOUS
    <3>0. fs = front \o one
      BY <2>3
    <3>. HIDE DEF one
    <3>2. /\ fs \in Seq(Frames) /\ Len(fs) = Len(front) + Len(one)
          /\ \A i \in 1 .. Len(front) + Len(one) : fs[i] = IF i <= Len(front) THEN front[i] ELSE one[i - Len(front)]
      BY <3>0, <3>1, ConcatProperties
    <3>3. Len(fs) = n /\ n \in Nat \ {0}
      BY <2>1, <1>1, <2>2, <3>1, <3>2
    <3>4. DOMAIN fs = 1 .. n
      BY <3>2, <3>3, LenProperties
    <3>5. n \in 1 .. Len(front) + Len(one) /\ ~(n <= Len(front)) /\ n - Len(front) = 1
      BY <3>1, <3>3, <2>2
    <3>6. fs[n] = f
      BY <3>1, <3>2, <3>5
    <3>7. ASSUME NEW i \in 1 .. n - 1 PROVE fs[i] = frames[i]
      <4>1. i \in 1 .. Len(front) + Len(one) /\ i <= Len(front)
        BY <3>1, <3>3, <2>2
      <4>. QED BY <3>2, <4>1, <2>2
    <3>. QED BY <3>2, <3>4, <3>6, <3>7
  <2>. QED BY <2>1, <2>2, <2>3, LenProperties
<1>. QED BY <1>1, <1>2, <1>3
-----------------------------------------------------------------------------
(* The components of a dotted name: each is the parent of the next.        *)
LEMMA Chains ==
  ASSUME NEW n \in Names, NEW i \in DOMAIN Chain[n]
  PROVE  /\ Len(Chain[n]) \in Nat \ {0} /\ DOMAIN Chain[n] = 1 .. Len(Chain[n])
         /\ Chain[n][Len(Chain[n])] = n /\ Chain[n][i] \in Names
         /\ HasParent(Chain[n][i]) <=> i > 1
         /\ i > 1 => Parent(Chain[n][i]) = Chain[n][i - 1] /\ i - 1 \in DOMAIN Chain[n]
<1>1. /\ Len(Chain[n]) \in Nat \ {0} /\ DOMAIN Chain[n] = 1 .. Len(Chain[n])
      /\ Chain[n][Len(Chain[n])] = n /\ \A j \in DOMAIN Chain[n] : Chain[n][j] \in Names
  <2>1. Chain[n] \in Seq(Names) /\ Chain[n] # <<>> /\ Last(Chain[n]) = n
    BY ImportConstants
  <2>2. /\ Len(Chain[n]) \in Nat /\ DOMAIN Chain[n] = 1 .. Len(Chain[n])
        /\ \A j \in DOMAIN Chain[n] : Chain[n][j] \in Names /\ Len(Chain[n]) # 0
    BY <2>1, LenProperties, ElementOfSeq, EmptySeq
  <2>. QED BY <2>1, <2>2 DEF Last
<1>2. Chain[Chain[n][i]] = SubSeq(Chain[n], 1, i)
  BY ImportConstants
<1>3. /\ Len(SubSeq(Chain[n], 1, i)) = i
      /\ \A j \in 1 .. i : SubSeq(Chain[n], 1, i)[j] = Chain[n][j]
  <2>1. i \in Nat /\ 1 <= i /\ \A j \in 1 .. i : Chain[n][j] \in Names
    BY <1>1
  <2>2. /\ Len(SubSeq(Chain[n], 1, i)) = IF 1 <= i THEN i - 1 + 1 ELSE 0
        /\ \A j \in 1 .. i - 1 + 1 : SubSeq(Chain[n], 1, i)[j] = Chain[n][1 + j - 1]
    BY <2>1, SubSeqProperties
  <2>. QED BY <2>1, <2>2
<1>4. i > 1 => i - 1 \in 1 .. i /\ i - 1 \in DOMAIN Chain[n]
  BY <1>1
<1>. QED BY <1>1, <1>2, <1>3, <1>4 DEF HasParent, Parent

(* What a statement loads, and what it loaded before.                      *)
LEMMA Components ==
  ASSUME NEW f \in Frames, FrameOK(f), Loading(f)
  PROVE  /\ Component(f) \in Names
         /\ HasParent(Component(f)) <=> f.idx > 1
         /\ f.idx > 1 => Parent(Component(f)) = Previous(f) /\ Previous(f) \in Names
<1>1. f.target \in Names /\ f.idx \in Nat \ {0} /\ f.leaf \in Names \cup {Absent}
  BY DEF Frames
<1>2. PICK k \in Nat \ {0} : k = Len(Chain[f.target]) /\ DOMAIN Chain[f.target] = 1 .. k
                             /\ Chain[f.target][k] = f.target
  <2>1. Chain[f.target] \in Seq(Names) /\ Chain[f.target] # <<>> /\ Last(Chain[f.target]) = f.target
    BY <1>1, ImportConstants
  <2>. QED BY <2>1, LenProperties, EmptySeq DEF Last
<1>3. CASE f.idx <= k
  <2>1. f.idx \in DOMAIN Chain[f.target] /\ Component(f) = Chain[f.target][f.idx]
    BY <1>1, <1>2, <1>3 DEF Component
  <2>2. f.idx > 1 => f.idx - 1 \in DOMAIN Chain[f.target]
    BY <1>1, <2>1, Chains
  <2>. QED BY <1>1, <2>1, <2>2, Chains DEF Previous
<1>4. CASE f.idx > k
  <2>1. f.leaf # Absent /\ Component(f) = f.leaf
    BY <1>1, <1>2, <1>4 DEF Component, Loading, AtLeaf
  <2>2. HasParent(f.leaf) /\ Parent(f.leaf) = f.target /\ f.idx = k + 1
    BY <1>1, <1>2, <1>4, <2>1 DEF FrameOK
  <2>. QED BY <1>1, <1>2, <2>1, <2>2 DEF Previous
<1>. QED BY <1>1, <1>2, <1>3, <1>4

(* The statement after its component: it continues from that one.          *)
Onward(f, value) ==
  [f EXCEPT !.idx = @ + 1, !.cur = value, !.exec = Absent,
            !.leaf = IF AtLeaf(f) THEN Absent ELSE @]

\* A statement that has loaded one component goes on to the next.
LEMMA Advanced ==
  ASSUME NEW f \in Frames, FrameOK(f), Loading(f), NEW value \in Values
  PROVE  /\ Onward(f, value) \in Frames /\ FrameOK(Onward(f, value))
         /\ Onward(f, value).exec = Absent /\ Onward(f, value).cur = value
         /\ Loading(Onward(f, value)) => Previous(Onward(f, value)) = Component(f)
<1>0. PICK g : g = Onward(f, value)
  OBVIOUS
<1>1. f.target \in Names /\ f.idx \in Nat \ {0} /\ f.leaf \in Names \cup {Absent}
  BY DEF Frames
<1>2. Len(Chain[f.target]) \in Nat
  BY <1>1, ImportConstants, LenProperties
<1>3. /\ g \in Frames /\ g.exec = Absent /\ g.cur = value /\ g.target = f.target
      /\ g.idx = f.idx + 1 /\ g.leaf = IF AtLeaf(f) THEN Absent ELSE f.leaf
  <2>1. PICK leaf \in Names \cup {Absent} : leaf = IF AtLeaf(f) THEN Absent ELSE f.leaf
    BY <1>1
  <2>2. PICK idx \in Nat \ {0} : idx = f.idx + 1
    BY <1>1
  <2>3. g = [f EXCEPT !.idx = idx, !.cur = value, !.exec = Absent, !.leaf = leaf]
    BY <1>0, <2>1, <2>2 DEF Onward
  <2>. QED BY <2>1, <2>2, <2>3 DEF Frames
<1>4. FrameOK(g)
  BY <1>1, <1>2, <1>3 DEF FrameOK, AtLeaf
<1>5. ASSUME Loading(g)
      PROVE  Previous(g) = Component(f)
  <2>1. f.idx <= Len(Chain[f.target])
    BY <1>1, <1>2, <1>3, <1>5 DEF Loading, AtLeaf
  <2>. QED BY <1>1, <1>3, <2>1 DEF Previous, Component
<1>. QED BY <1>0, <1>3, <1>4, <1>5

(* What is said of a statement stays true while its object stays.          *)
LEMMA FrameKept ==
  ASSUME NEW i, FrameOK(frames'[i]),
         frames'[i].exec # Absent => madeFor'[frames'[i].exec] = Component(frames'[i])
  PROVE  FrameOK(frames[i])'
BY DEF FrameOK, Loading, AtLeaf, HasParent, Parent, Component

\* The initial state.
LEMMA InitImportInv == ImportInit => ImportInv
<1> SUFFICES ASSUME ImportInit PROVE ImportInv
  OBVIOUS
<1>1. frames = <<>> /\ DOMAIN frames = {} /\ done = {} /\ failed = {} /\ raising = FALSE
  BY DEF ImportInit
<1>2. ImportTypeOK
  <2>1. sysModules \in [Names -> Values]
    BY DEF ImportInit, Values
  <2>2. attrs \in [Modules -> [Names -> Values]]
    BY DEF ImportInit, Values
  <2>3. madeFor \in [ModuleObjects -> Names \cup {Absent}]
    BY DEF ImportInit
  <2>4. frames \in Seq(Frames) /\ importProgram \in ImportPrograms
    BY <1>1 DEF ImportInit
  <2>. QED BY <1>1, <2>1, <2>2, <2>3, <2>4 DEF ImportTypeOK
<1>3. \A n \in Names : sysModules[n] \in {BuiltinObj, Absent} /\ sysModules[n] \notin ModuleObjects
  BY ImportConstants DEF ImportInit
<1>4. CacheSound
  BY <1>1, <1>3, ImportConstants DEF ImportInit, CacheSound
<1>5. Unedited /\ Linked
  BY <1>1, <1>3 DEF Unedited, Linked, FailureHasPending
<1>. QED BY <1>1, <1>2, <1>4, <1>5 DEF ImportInv, BodiesApart, Finished

(* A component is loaded, whether from sys.modules, as a new namespace     *)
(* package or at the end of its body: it is the value sys.modules has for  *)
(* it, sound, and the object whose body ran counts as done.                *)
LEMMA AdvanceStep ==
  ASSUME ImportInv, frames # <<>>, Loading(Top), NEW c, c = Component(Top),
         NEW value \in Values \ {NoneObj, Absent}, Advance(c, value),
         UNCHANGED <<importProgram, failed, pending, raising>>,
         sysModules[c] \in {Absent, value}, sysModules' = [sysModules EXCEPT ![c] = value],
         madeFor' = madeFor
           \/ (value \in ModuleObjects /\ madeFor[value] = Absent /\ madeFor' = [madeFor EXCEPT ![value] = c]),
         value \in ModuleObjects =>
           madeFor'[value] = c /\ value \notin failed /\ value \in done' \cup Executing,
         done \subseteq done', done' \subseteq ModuleObjects,
         \A o \in done' \ done : madeFor'[o] # Absent,
         Top.exec \in done' \cup {Absent},
         importProgram.edits = {} => value \in ModuleObjects \cup {BuiltinObj}
  PROVE  ImportInv'
<1>. DEFINE n == Len(frames)
<1>1. /\ ImportTypeOK /\ BodiesApart /\ CacheSound /\ Finished /\ n \in Nat
      /\ \A i \in DOMAIN frames : FrameOK(frames[i])
  BY LenProperties DEF ImportInv, ImportTypeOK
<1>2. /\ DOMAIN frames = 1 .. n /\ n \in 1 .. n /\ Top = frames[n]
      /\ \A i \in 1 .. n : frames[i] \in Frames
  BY <1>1, Stack DEF ImportTypeOK
<1>3. PICK g : g = Onward(Top, value)
  OBVIOUS
<1>4. /\ g \in Frames /\ FrameOK(g) /\ g.exec = Absent /\ g.cur = value
      /\ Loading(g) => Previous(g) = c
  <2>1. Top \in Frames /\ FrameOK(Top)
    BY <1>1, <1>2
  <2>. QED BY <2>1, <1>3, Advanced
<1>5. /\ frames' \in Seq(Frames) /\ DOMAIN frames' = 1 .. n /\ frames'[n] = g
      /\ \A i \in 1 .. n - 1 : frames'[i] = frames[i] /\ i \in 1 .. n /\ i # n
      /\ \A i \in 1 .. n : i = n \/ i \in 1 .. n - 1
  <2>1. frames' = Front(frames) \o <<g>>
    BY <1>3 DEF Advance, Onward
  <2>2. /\ frames' \in Seq(Frames) /\ DOMAIN frames' = 1 .. n /\ frames'[n] = g
        /\ \A i \in 1 .. n - 1 : frames'[i] = frames[i]
    BY <1>1, <1>4, <2>1, Stack DEF ImportTypeOK
  <2>3. \A i \in 1 .. n : i = n \/ i \in 1 .. n - 1
    BY <1>1
  <2>4. \A i \in 1 .. n - 1 : i \in 1 .. n /\ i # n
    BY <1>1
  <2>. QED BY <2>2, <2>3, <2>4
<1>6. /\ c \in Names /\ (HasParent(c) <=> Top.idx > 1)
      /\ Top.idx > 1 => Parent(c) = Previous(Top) /\ Previous(Top) \in Names
  BY <1>1, <1>2, Components
<1>7. /\ sysModules' \in [Names -> Values] /\ sysModules'[c] = value
      /\ \A m \in Names : m # c => sysModules'[m] = sysModules[m]
      /\ \A m \in Names : sysModules[m] # Absent => sysModules'[m] = sysModules[m]
  BY <1>1, <1>6 DEF ImportTypeOK
<1>8. /\ madeFor' \in [ModuleObjects -> Names \cup {Absent}]
      /\ \A o \in ModuleObjects : madeFor[o] # Absent => madeFor'[o] = madeFor[o]
  BY <1>1, <1>6 DEF ImportTypeOK
<1>9. attrs' = IF Top.idx > 1 THEN [attrs EXCEPT ![Top.cur][c] = value] ELSE attrs
  BY DEF Advance
<1>10. /\ attrs' \in [Modules -> [Names -> Values]]
       /\ \A o \in Modules, m \in Names : attrs'[o][m] # attrs[o][m] => m = c /\ attrs'[o][m] = value
       /\ Top.idx > 1 /\ Top.cur \in Modules => attrs'[Top.cur][c] = value
  <2>1. CASE Top.idx > 1 /\ Top.cur \in Modules
    <3>1. attrs[Top.cur] \in [Names -> Values]
      BY <2>1, <1>1 DEF ImportTypeOK
    <3>2. [attrs[Top.cur] EXCEPT ![c] = value] \in [Names -> Values]
      BY <3>1, <1>6
    <3>3. attrs' = [attrs EXCEPT ![Top.cur] = [attrs[Top.cur] EXCEPT ![c] = value]]
      BY <2>1, <1>9
    <3>. QED BY <2>1, <3>1, <3>2, <3>3, <1>1, <1>6 DEF ImportTypeOK
  <2>2. CASE ~(Top.idx > 1 /\ Top.cur \in Modules)
    <3>1. attrs' = attrs
      BY <2>2, <1>1, <1>9 DEF ImportTypeOK
    <3>. QED BY <2>2, <3>1, <1>1 DEF ImportTypeOK
  <2>. QED BY <2>1, <2>2
<1>11. /\ Executing' \subseteq Executing
       /\ \A o \in Executing : o \in Executing' \/ o = Top.exec
  <2>1. Executing' = {frames'[i].exec : i \in DOMAIN frames'} \ {Absent}
    BY DEF Executing
  <2>2. ASSUME NEW i \in 1 .. n - 1
        PROVE  frames[i].exec = frames'[i].exec /\ i \in DOMAIN frames /\ i \in DOMAIN frames'
    BY <1>2, <1>5, Zenon
  <2>3. frames'[n].exec = Absent
    BY <1>4, <1>5
  <2>4. ASSUME NEW o \in Executing'
        PROVE  o \in Executing
    <3>1. PICK i \in 1 .. n : o = frames'[i].exec /\ o # Absent
      BY <2>1, <2>4, <1>5
    <3>2. i \in 1 .. n - 1
      BY <3>1, <2>3, <1>5
    <3>. QED BY <3>1, <3>2, <2>2 DEF Executing
  <2>5. ASSUME NEW o \in Executing, o # Top.exec
        PROVE  o \in Executing'
    <3>1. PICK i \in 1 .. n : o = frames[i].exec /\ o # Absent
      BY <1>2 DEF Executing
    <3>2. i \in 1 .. n - 1
      BY <3>1, <2>5, <1>2, <1>5, Zenon
    <3>. QED BY <3>1, <3>2, <2>1, <2>2
  <2>. QED BY <2>4, <2>5
<1>12. ImportTypeOK'
  BY <1>1, <1>5, <1>7, <1>8, <1>10 DEF ImportTypeOK
<1>13. (\A i \in DOMAIN frames : FrameOK(frames[i]))'
  <2>1. ASSUME NEW i \in 1 .. n - 1
        PROVE  FrameOK(frames[i])'
    <3>1. /\ frames[i] \in Frames /\ FrameOK(frames[i]) /\ frames'[i] = frames[i]
          /\ frames[i].exec \in ModuleObjects \cup {Absent}
      BY <1>1, <1>2, <1>5, Zenon DEF Frames
    <3>2. frames[i].exec # Absent => Component(frames[i]) \in Names /\ madeFor[frames[i].exec] = Component(frames[i])
      BY <3>1, Components DEF FrameOK
    <3>3. frames[i].exec # Absent => madeFor'[frames[i].exec] = Component(frames[i])
      BY <3>1, <3>2, <1>8, ImportConstants
    <3>. QED BY <3>1, <3>3, FrameKept
  <2>2. FrameOK(frames[n])'
    BY <1>4, <1>5, FrameKept
  <2>3. (\A i \in 1 .. n : FrameOK(frames[i])')
    BY <2>1, <2>2, <1>5
  <2>. QED BY <2>3, <1>5
<1>14. BodiesApart'
  <2>1. ASSUME NEW i \in 1 .. n, NEW j \in 1 .. n
        PROVE  /\ i # j /\ frames'[i].exec # Absent => frames'[i].exec # frames'[j].exec
               /\ i < j => frames'[i].exec # Absent
    <3>1. i = n \/ i \in 1 .. n - 1
      BY <1>5
    <3>2. j = n \/ j \in 1 .. n - 1
      BY <1>5
    <3>3. i < j => i # n
      BY <1>1
    <3>4. /\ i # j /\ frames[i].exec # Absent => frames[i].exec # frames[j].exec
          /\ i < j => frames[i].exec # Absent
      BY <1>1, <1>2 DEF BodiesApart
    <3>. QED BY <3>1, <3>2, <3>3, <3>4, <1>4, <1>5
  <2>. QED BY <2>1, <1>5 DEF BodiesApart
<1>15. Finished'
  BY <1>1, <1>8 DEF Finished, ImportTypeOK
<1>16. CacheSound'
  <2>1. ASSUME NEW m \in Names, sysModules'[m] \in ModuleObjects
        PROVE  /\ madeFor'[sysModules'[m]] = m
               /\ sysModules'[m] \in done' \cup Executing' /\ sysModules'[m] \notin failed
    <3>1. CASE m = c
      <4>1. value \in ModuleObjects /\ sysModules'[m] = value
        BY <2>1, <3>1, <1>7
      <4>2. value \in done' \cup Executing'
        <5>1. CASE value \in Executing /\ value # Top.exec
          BY <5>1, <1>11
        <5>2. CASE value = Top.exec
          BY <5>2, <4>1, ImportConstants
        <5>. QED BY <4>1, <5>1, <5>2
      <4>. QED BY <3>1, <4>1, <4>2
    <3>2. CASE m # c
      <4>1. /\ sysModules'[m] = sysModules[m] /\ madeFor[sysModules[m]] = m
            /\ sysModules[m] \in done \cup Executing /\ sysModules[m] \notin failed
        BY <2>1, <3>2, <1>1, <1>7 DEF CacheSound
      <4>2. madeFor'[sysModules[m]] = m
        BY <2>1, <4>1, <1>8, ImportConstants
      <4>3. sysModules[m] \in done' \cup Executing'
        <5>1. CASE sysModules[m] \in Executing /\ sysModules[m] # Top.exec
          BY <5>1, <1>11
        <5>2. CASE sysModules[m] = Top.exec
          BY <5>2, <2>1, <4>1, ImportConstants
        <5>. QED BY <4>1, <5>1, <5>2
      <4>. QED BY <4>1, <4>2, <4>3
    <3>. QED BY <3>1, <3>2
  <2>2. \A i \in DOMAIN frames' : frames'[i].cur # NoneObj
    BY <1>1, <1>2, <1>4, <1>5, Zenon DEF CacheSound
  <2>3. \A o \in Modules, m \in Names : attrs'[o][m] # NoneObj
    BY <1>1, <1>10 DEF CacheSound
  <2>. QED BY <2>1, <2>2, <2>3 DEF CacheSound
<1>17. ASSUME importProgram.edits = {}
       PROVE  Unedited'
  <2>1. Unedited
    BY <1>17 DEF ImportInv
  <2>2. \A m \in Names : sysModules'[m] \in ModuleObjects \cup {BuiltinObj, Absent}
    BY <2>1, <1>7, <1>17 DEF Unedited
  <2>3. \A i \in DOMAIN frames' : frames'[i].exec # Absent =>
          sysModules'[Component(frames'[i])] = frames'[i].exec
    <3>1. ASSUME NEW i \in 1 .. n - 1, frames[i].exec # Absent
          PROVE  sysModules'[Component(frames[i])] = frames[i].exec
      <4>1. Component(frames[i]) \in Names
        BY <3>1, <1>1, <1>2, <1>5, Components, Zenon DEF FrameOK
      <4>2. sysModules[Component(frames[i])] = frames[i].exec
        BY <3>1, <2>1, <1>2, <1>5, Zenon DEF Unedited
      <4>. QED BY <3>1, <4>1, <4>2, <1>7
    <3>. QED BY <3>1, <1>2, <1>4, <1>5, Zenon
  <2>. QED BY <2>1, <2>2, <2>3 DEF Unedited, Component, AtLeaf, FailureHasPending
<1>18. ASSUME importProgram.edits = {}, failed = {}
       PROVE  Linked'
  <2>1. Linked
    BY <1>18 DEF ImportInv
  <2>2. \A i \in DOMAIN frames' : frames'[i].idx > 1 /\ Loading(frames'[i]) =>
          /\ frames'[i].cur = sysModules'[Previous(frames'[i])]
          /\ sysModules'[Previous(frames'[i])] # Absent
    <3>1. ASSUME NEW i \in 1 .. n - 1, frames[i].idx > 1, Loading(frames[i])
          PROVE  /\ frames[i].cur = sysModules'[Previous(frames[i])]
                 /\ sysModules'[Previous(frames[i])] # Absent
      <4>1. Previous(frames[i]) \in Names
        BY <3>1, <1>1, <1>2, <1>5, Components, Zenon
      <4>. QED BY <3>1, <4>1, <2>1, <1>2, <1>5, <1>7, Zenon DEF Linked
    <3>2. Loading(g) => g.cur = sysModules'[Previous(g)] /\ sysModules'[Previous(g)] # Absent
      BY <1>4, <1>7
    <3>3. ASSUME NEW i \in 1 .. n, frames'[i].idx > 1, Loading(frames'[i])
          PROVE  /\ frames'[i].cur = sysModules'[Previous(frames'[i])]
                 /\ sysModules'[Previous(frames'[i])] # Absent
      <4>1. CASE i = n
        BY <3>2, <3>3, <4>1, <1>5
      <4>2. CASE i \in 1 .. n - 1
        BY <3>1, <3>3, <4>2, <1>5
      <4>. QED BY <4>1, <4>2, <1>5
    <3>. QED BY <3>3, <1>5
  <2>3. ASSUME NEW m \in Names, HasParent(m), sysModules'[m] \in ModuleObjects
        PROVE  /\ sysModules'[Parent(m)] # Absent
               /\ Bound(m)' \/ sysModules'[m] \in Executing'
    <3>0. Parent(m) \in Names
      BY <2>3, Chains, ImportConstants, LenProperties DEF Parent, HasParent
    <3>1. CASE m = c
      <4>1. /\ Top.idx > 1 /\ Top.cur = sysModules[Parent(c)] /\ sysModules[Parent(c)] # Absent
        BY <2>1, <2>3, <3>1, <1>2, <1>6 DEF Linked
      <4>2. sysModules'[Parent(c)] = sysModules[Parent(c)]
        BY <3>0, <3>1, <4>1, <1>7
      <4>3. Top.cur \in ModuleObjects => attrs'[Top.cur][c] = value
        BY <4>1, <1>10 DEF Modules
      <4>. QED BY <3>1, <4>1, <4>2, <4>3, <1>7 DEF Bound, Parent
    <3>2. CASE m # c
      <4>1. /\ sysModules'[m] = sysModules[m] /\ sysModules[Parent(m)] # Absent
            /\ Bound(m) \/ sysModules[m] \in Executing
        BY <2>1, <2>3, <3>2, <1>7 DEF Linked
      <4>2. sysModules'[Parent(m)] = sysModules[Parent(m)]
        BY <3>0, <4>1, <1>7
      <4>3. CASE sysModules[m] \in Executing
        <5>1. sysModules[m] # Top.exec
          BY <2>3, <3>2, <4>1, <1>1, <1>2, ImportConstants DEF CacheSound, FrameOK
        <5>. QED BY <4>1, <4>2, <4>3, <5>1, <1>11
      <4>4. CASE Bound(m)
        <5>1. sysModules[Parent(m)] \in ModuleObjects =>
                attrs'[sysModules[Parent(m)]][m] = attrs[sysModules[Parent(m)]][m]
          BY <3>2, <1>10 DEF Modules
        <5>2. Bound(m)'
          BY <4>1, <4>2, <4>4, <5>1 DEF Bound, Parent
        <5>. QED BY <4>1, <4>2, <5>2
      <4>. QED BY <4>1, <4>3, <4>4
    <3>. QED BY <3>1, <3>2
  <2>. QED BY <2>2, <2>3 DEF Linked, Loading, AtLeaf, Previous, HasParent, Parent, Bound
<1>. QED BY <1>12, <1>13, <1>14, <1>15, <1>16, <1>17, <1>18 DEF ImportInv

(* The innermost statement, by its index.                                  *)
LEMMA Innermost ==
  ASSUME ImportInv, frames # <<>>, NEW n, n = Len(frames)
  PROVE  /\ n \in Nat /\ DOMAIN frames = 1 .. n /\ n \in 1 .. n /\ Top = frames[n]
         /\ \A i \in 1 .. n : frames[i] \in Frames /\ FrameOK(frames[i])
         /\ \A i \in 1 .. n - 1 : i \in 1 .. n /\ i # n /\ frames[i].exec # Absent
         /\ \A i \in 1 .. n : i = n \/ i \in 1 .. n - 1
<1>1. n \in Nat /\ frames \in Seq(Frames) /\ BodiesApart /\ \A i \in DOMAIN frames : FrameOK(frames[i])
  BY LenProperties DEF ImportInv, ImportTypeOK
<1>2. /\ DOMAIN frames = 1 .. n /\ n \in 1 .. n /\ Top = frames[n]
      /\ \A i \in 1 .. n : frames[i] \in Frames
  BY <1>1, Stack
<1>3. \A i \in 1 .. n - 1 : i \in 1 .. n /\ i < n
  BY <1>1
<1>4. \A i \in 1 .. n : i = n \/ i \in 1 .. n - 1
  BY <1>1
<1>5. \A i \in 1 .. n - 1 : frames[i].exec # Absent
  BY <1>1, <1>2, <1>3 DEF BodiesApart
<1>6. \A i \in 1 .. n - 1 : i \in 1 .. n /\ i # n
  BY <1>1
<1>. QED BY <1>1, <1>2, <1>4, <1>5, <1>6

(* A statement that runs no body ends, or one whose body took its module   *)
(* out of sys.modules: nothing else of the state depends on it.            *)
LEMMA PopStep ==
  ASSUME ImportInv, frames # <<>>, frames' = Front(frames),
         UNCHANGED <<importProgram, sysModules, attrs, madeFor, failed>>,
         raising' \in BOOLEAN, importProgram.edits = {} /\ raising' => pending' # "none",
         done \subseteq done', done' \subseteq ModuleObjects,
         \A o \in done' \ done : madeFor[o] # Absent,
         Top.exec \in done' \cup {Absent},
         importProgram.edits = {} => Top.exec = Absent
  PROVE  ImportInv'
<1>1. ImportTypeOK /\ BodiesApart /\ CacheSound /\ Finished
  BY DEF ImportInv
<1>2. PICK n : n = Len(frames)
  OBVIOUS
<1>3. /\ n \in Nat /\ DOMAIN frames = 1 .. n /\ n \in 1 .. n /\ Top = frames[n]
      /\ \A i \in 1 .. n : frames[i] \in Frames /\ FrameOK(frames[i])
      /\ \A i \in 1 .. n - 1 : i \in 1 .. n /\ i # n /\ frames[i].exec # Absent
      /\ \A i \in 1 .. n : i = n \/ i \in 1 .. n - 1
  BY <1>2, Innermost
<1>4. /\ frames' \in Seq(Frames) /\ DOMAIN frames' = 1 .. n - 1
      /\ \A i \in 1 .. n - 1 : frames'[i] = frames[i]
  BY <1>1, <1>2, <1>3, Stack DEF ImportTypeOK
<1>5. \A o \in Executing : o \in Executing' \/ o = Top.exec
  <2>1. Executing' = {frames'[i].exec : i \in DOMAIN frames'} \ {Absent}
    BY DEF Executing
  <2>. QED BY <2>1, <1>3, <1>4 DEF Executing
<1>6. ImportTypeOK'
  BY <1>1, <1>4 DEF ImportTypeOK
<1>7. (\A i \in DOMAIN frames : FrameOK(frames[i]))'
  <2>1. ASSUME NEW i \in 1 .. n - 1
        PROVE  FrameOK(frames[i])'
    BY <1>3, <1>4, FrameKept DEF FrameOK
  <2>. QED BY <2>1, <1>4
<1>8. BodiesApart' /\ Finished'
  BY <1>1, <1>3, <1>4 DEF BodiesApart, Finished
<1>9. CacheSound'
  <2>1. ASSUME NEW m \in Names, sysModules[m] \in ModuleObjects
        PROVE  sysModules[m] \in done' \cup Executing'
    BY <2>1, <1>1, <1>5, ImportConstants DEF CacheSound
  <2>. QED BY <2>1, <1>1, <1>3, <1>4 DEF CacheSound
<1>10. ASSUME importProgram.edits = {}
       PROVE  Unedited'
  <2>1. Unedited
    BY <1>10 DEF ImportInv
  <2>2. \A i \in 1 .. n - 1 : frames[i].exec # Absent => sysModules[Component(frames[i])] = frames[i].exec
    BY <2>1, <1>3 DEF Unedited
  <2>. QED BY <2>1, <2>2, <1>4, <1>10 DEF Unedited, Component, AtLeaf, FailureHasPending
<1>11. ASSUME importProgram.edits = {}, failed = {}
       PROVE  Linked'
  <2>1. Linked
    BY <1>11 DEF ImportInv
  <2>2. \A i \in 1 .. n - 1 : frames[i].idx > 1 /\ Loading(frames[i]) =>
          frames[i].cur = sysModules[Previous(frames[i])] /\ sysModules[Previous(frames[i])] # Absent
    BY <2>1, <1>3 DEF Linked
  <2>3. ASSUME NEW m \in Names, sysModules[m] \in Executing
        PROVE  sysModules[m] \in Executing'
    BY <2>3, <1>5, <1>11 DEF Executing
  <2>. QED BY <2>1, <2>2, <2>3, <1>4 DEF Linked, Loading, AtLeaf, Previous, HasParent, Parent, Bound
<1>. QED BY <1>6, <1>7, <1>8, <1>9, <1>10, <1>11 DEF ImportInv

(* A body raises: its entry leaves sys.modules, and no other statement was *)
(* running that module.                                                    *)
LEMMA BodyRaisesStep == ASSUME ImportInv, BodyRaises PROVE ImportInv'
<1>1. ImportTypeOK /\ BodiesApart /\ CacheSound /\ Finished /\ frames # <<>> /\ Top.exec # Absent
  BY DEF ImportInv, BodyRaises
<1>2. PICK n : n = Len(frames)
  OBVIOUS
<1>3. /\ n \in Nat /\ DOMAIN frames = 1 .. n /\ n \in 1 .. n /\ Top = frames[n]
      /\ \A i \in 1 .. n : frames[i] \in Frames /\ FrameOK(frames[i])
      /\ \A i \in 1 .. n - 1 : i \in 1 .. n /\ i # n /\ frames[i].exec # Absent
      /\ \A i \in 1 .. n : i = n \/ i \in 1 .. n - 1
  BY <1>1, <1>2, Innermost
<1>4. /\ frames' \in Seq(Frames) /\ DOMAIN frames' = 1 .. n - 1
      /\ \A i \in 1 .. n - 1 : frames'[i] = frames[i]
  BY <1>1, <1>2, <1>3, Stack DEF ImportTypeOK, BodyRaises
<1>5. PICK c : c = Component(Top)
  OBVIOUS
<1>6. c \in Names /\ Top.exec \in ModuleObjects /\ madeFor[Top.exec] = c
  BY <1>1, <1>3, <1>5, Components DEF FrameOK, Frames
<1>7. /\ UNCHANGED <<importProgram, attrs, madeFor, done>> /\ raising' = TRUE
      /\ failed' = failed \cup {Top.exec}
      /\ sysModules' = [sysModules EXCEPT ![c] = Absent]
      /\ pending' = IF sysModules[c] # Absent THEN IF raising THEN pending ELSE "Exception" ELSE "none"
  BY <1>5 DEF BodyRaises, RemoveImportedModule
<1>8. /\ sysModules' \in [Names -> Values] /\ sysModules'[c] = Absent
      /\ \A m \in Names : m # c => sysModules'[m] = sysModules[m]
  BY <1>1, <1>6, <1>7 DEF ImportTypeOK, Values
<1>9. \A o \in Executing : o \in Executing' \/ o = Top.exec
  <2>1. Executing' = {frames'[i].exec : i \in DOMAIN frames'} \ {Absent}
    BY DEF Executing
  <2>. QED BY <2>1, <1>3, <1>4 DEF Executing
<1>10. ImportTypeOK'
  BY <1>1, <1>4, <1>6, <1>7, <1>8 DEF ImportTypeOK
<1>11. (\A i \in DOMAIN frames : FrameOK(frames[i]))'
  <2>1. ASSUME NEW i \in 1 .. n - 1
        PROVE  FrameOK(frames[i])'
    BY <1>3, <1>4, <1>7, FrameKept DEF FrameOK
  <2>. QED BY <2>1, <1>4
<1>12. BodiesApart'
  BY <1>1, <1>3, <1>4 DEF BodiesApart
<1>13. Finished'
  BY <1>1, <1>6, <1>7, ImportConstants DEF Finished
<1>14. CacheSound'
  <2>1. ASSUME NEW m \in Names, sysModules'[m] \in ModuleObjects
        PROVE  /\ madeFor'[sysModules'[m]] = m
               /\ sysModules'[m] \in done' \cup Executing' /\ sysModules'[m] \notin failed'
    <3>1. m # c /\ sysModules'[m] = sysModules[m]
      BY <2>1, <1>8, ImportConstants
    <3>2. madeFor[sysModules[m]] = m /\ sysModules[m] \in done \cup Executing /\ sysModules[m] \notin failed
      BY <2>1, <3>1, <1>1 DEF CacheSound
    <3>3. sysModules[m] # Top.exec
      BY <3>1, <3>2, <1>6
    <3>. QED BY <3>1, <3>2, <3>3, <1>7, <1>9
  <2>2. \A i \in DOMAIN frames' : frames'[i].cur # NoneObj
    BY <1>1, <1>3, <1>4 DEF CacheSound
  <2>3. \A o \in Modules, m \in Names : attrs'[o][m] # NoneObj
    BY <1>1, <1>7 DEF CacheSound
  <2>. QED BY <2>1, <2>2, <2>3 DEF CacheSound
<1>15. ASSUME importProgram.edits = {}
       PROVE  Unedited'
  <2>1. Unedited
    BY <1>15 DEF ImportInv
  <2>2. sysModules[c] = Top.exec /\ sysModules[c] # Absent
    BY <2>1, <1>1, <1>3, <1>5 DEF Unedited
  <2>3. \A m \in Names : sysModules'[m] \in ModuleObjects \cup {BuiltinObj, Absent}
    BY <2>1, <1>8 DEF Unedited
  <2>4. ASSUME NEW i \in 1 .. n - 1
        PROVE  sysModules'[Component(frames[i])] = frames[i].exec
    <3>1. frames[i].exec # Top.exec
      BY <1>1, <1>3 DEF BodiesApart
    <3>2. Component(frames[i]) \in Names
      BY <1>3, Components DEF FrameOK
    <3>3. sysModules[Component(frames[i])] = frames[i].exec
      BY <2>1, <1>3 DEF Unedited
    <3>. QED BY <3>1, <3>2, <3>3, <2>2, <1>8
  <2>5. pending' # "none"
    BY <2>1, <2>2, <1>7, <1>15 DEF Unedited, FailureHasPending
  <2>. QED BY <2>3, <2>4, <2>5, <1>4 DEF Unedited, Component, AtLeaf, FailureHasPending
<1>16. failed' # {}
  BY <1>7
<1>. QED BY <1>7, <1>10, <1>11, <1>12, <1>13, <1>14, <1>15, <1>16 DEF ImportInv

(* A new module enters sys.modules before its body runs.                   *)
LEMMA BeginBodyStep == ASSUME ImportInv, BeginBody PROVE ImportInv'
<1>1. /\ ImportTypeOK /\ BodiesApart /\ CacheSound /\ Finished
      /\ frames # <<>> /\ Top.exec = Absent /\ Loading(Top)
  BY DEF ImportInv, BeginBody, MustFind, Searching
<1>2. PICK n : n = Len(frames)
  OBVIOUS
<1>3. /\ n \in Nat /\ DOMAIN frames = 1 .. n /\ n \in 1 .. n /\ Top = frames[n]
      /\ \A i \in 1 .. n : frames[i] \in Frames /\ FrameOK(frames[i])
      /\ \A i \in 1 .. n - 1 : i \in 1 .. n /\ i # n /\ frames[i].exec # Absent
      /\ \A i \in 1 .. n : i = n \/ i \in 1 .. n - 1
  BY <1>1, <1>2, Innermost
<1>4. PICK o \in ModuleObjects :
        /\ madeFor[o] = Absent /\ madeFor' = [madeFor EXCEPT ![o] = Component(Top)]
        /\ sysModules' = [sysModules EXCEPT ![Component(Top)] = o]
        /\ frames' = Front(frames) \o <<[Top EXCEPT !.exec = o]>>
  <2>1. (CHOOSE u \in Unused : TRUE) \in Unused
    BY DEF BeginBody
  <2>. QED BY <2>1 DEF BeginBody, Unused
<1>5. PICK c : c = Component(Top)
  OBVIOUS
<1>6. /\ c \in Names /\ sysModules[c] = Absent /\ (HasParent(c) <=> Top.idx > 1)
      /\ Top.idx > 1 => Parent(c) = Previous(Top) /\ Previous(Top) \in Names
  <2>1. sysModules[c] = Absent
    BY <1>5 DEF BeginBody, MustFind
  <2>. QED BY <2>1, <1>1, <1>3, <1>5, Components
<1>7. UNCHANGED <<importProgram, attrs, pending, raising, done, failed>>
  BY DEF BeginBody
<1>8. PICK g : g = [Top EXCEPT !.exec = o]
  OBVIOUS
<1>9. /\ g \in Frames /\ g.exec = o /\ g.target = Top.target /\ g.leaf = Top.leaf
      /\ g.idx = Top.idx /\ g.cur = Top.cur /\ o # Absent
  BY <1>3, <1>8, ImportConstants DEF Frames
<1>10. Component(g) = c /\ Loading(g) /\ Previous(g) = Previous(Top)
  BY <1>1, <1>5, <1>9 DEF Component, Loading, AtLeaf, Previous
<1>11. /\ frames' \in Seq(Frames) /\ DOMAIN frames' = 1 .. n /\ frames'[n] = g
       /\ \A i \in 1 .. n - 1 : frames'[i] = frames[i]
  <2>1. frames' = Front(frames) \o <<g>>
    BY <1>4, <1>8
  <2>. QED BY <2>1, <1>1, <1>2, <1>9, Stack DEF ImportTypeOK
<1>12. /\ sysModules' \in [Names -> Values] /\ sysModules'[c] = o
       /\ \A m \in Names : sysModules[m] # Absent => sysModules'[m] = sysModules[m]
       /\ \A m \in Names : m # c => sysModules'[m] = sysModules[m]
  BY <1>1, <1>4, <1>5, <1>6 DEF ImportTypeOK, Values
<1>13. /\ madeFor' \in [ModuleObjects -> Names \cup {Absent}] /\ madeFor'[o] = c
       /\ \A u \in ModuleObjects : u # o => madeFor'[u] = madeFor[u]
  BY <1>1, <1>4, <1>5, <1>6 DEF ImportTypeOK
<1>14. o \notin done \cup failed
  BY <1>1, <1>4 DEF Finished
<1>15. \A i \in 1 .. n - 1 : /\ frames[i].exec \in ModuleObjects /\ frames[i].exec # o
                             /\ Component(frames[i]) \in Names
                             /\ madeFor[frames[i].exec] = Component(frames[i])
  <2>1. ASSUME NEW i \in 1 .. n - 1
        PROVE  /\ frames[i].exec \in ModuleObjects /\ Component(frames[i]) \in Names
               /\ madeFor[frames[i].exec] = Component(frames[i])
    BY <1>3, Components DEF FrameOK, Frames
  <2>. QED BY <2>1, <1>4, ImportConstants
<1>16. Executing \subseteq Executing' /\ o \in Executing'
  <2>1. Executing' = {frames'[i].exec : i \in DOMAIN frames'} \ {Absent}
    BY DEF Executing
  <2>. QED BY <2>1, <1>1, <1>3, <1>9, <1>11 DEF Executing
<1>17. ImportTypeOK'
  BY <1>1, <1>7, <1>11, <1>12, <1>13 DEF ImportTypeOK
<1>18. (\A i \in DOMAIN frames : FrameOK(frames[i]))'
  <2>1. ASSUME NEW i \in 1 .. n - 1
        PROVE  FrameOK(frames[i])'
    BY <1>3, <1>11, <1>13, <1>15, FrameKept
  <2>2. /\ g.leaf # Absent => /\ HasParent(g.leaf) /\ Parent(g.leaf) = g.target
                              /\ g.idx <= Len(Chain[g.target]) + 1
        /\ Loading(g) /\ madeFor'[g.exec] = Component(g)
    BY <1>3, <1>9, <1>10, <1>13 DEF FrameOK
  <2>3. FrameOK(frames[n])'
    BY <2>2, <1>11 DEF FrameOK, Loading, AtLeaf, HasParent, Parent, Component
  <2>4. (\A i \in 1 .. n : FrameOK(frames[i])')
    BY <2>1, <2>3, <1>3
  <2>. QED BY <2>4, <1>11
<1>19. BodiesApart'
  <2>1. ASSUME NEW i \in 1 .. n, NEW j \in 1 .. n
        PROVE  /\ i # j /\ frames'[i].exec # Absent => frames'[i].exec # frames'[j].exec
               /\ i < j => frames'[i].exec # Absent
    <3>1. (i = n \/ i \in 1 .. n - 1) /\ (j = n \/ j \in 1 .. n - 1)
      BY <1>3
    <3>2. /\ i # j /\ frames[i].exec # Absent => frames[i].exec # frames[j].exec
          /\ i < j => frames[i].exec # Absent
      BY <1>1, <1>3 DEF BodiesApart
    <3>. QED BY <3>1, <3>2, <1>9, <1>11, <1>15
  <2>. QED BY <2>1, <1>11 DEF BodiesApart
<1>20. Finished'
  BY <1>1, <1>7, <1>13, <1>14 DEF Finished, ImportTypeOK
<1>21. CacheSound'
  <2>1. ASSUME NEW m \in Names, sysModules'[m] \in ModuleObjects
        PROVE  /\ madeFor'[sysModules'[m]] = m
               /\ sysModules'[m] \in done' \cup Executing' /\ sysModules'[m] \notin failed'
    <3>1. CASE m = c
      BY <3>1, <1>7, <1>12, <1>13, <1>14, <1>16
    <3>2. CASE m # c
      <4>1. /\ sysModules'[m] = sysModules[m] /\ madeFor[sysModules[m]] = m
            /\ sysModules[m] \in done \cup Executing /\ sysModules[m] \notin failed
        BY <2>1, <3>2, <1>1, <1>12 DEF CacheSound
      <4>2. sysModules[m] # o
        BY <4>1, <1>4, ImportConstants
      <4>. QED BY <2>1, <4>1, <4>2, <1>7, <1>13, <1>16
    <3>. QED BY <3>1, <3>2
  <2>2. \A i \in DOMAIN frames' : frames'[i].cur # NoneObj
    BY <1>1, <1>3, <1>9, <1>11 DEF CacheSound
  <2>3. \A u \in Modules, m \in Names : attrs'[u][m] # NoneObj
    BY <1>1, <1>7 DEF CacheSound
  <2>. QED BY <2>1, <2>2, <2>3 DEF CacheSound
<1>22. ASSUME importProgram.edits = {}
       PROVE  Unedited'
  <2>1. Unedited
    BY <1>22 DEF ImportInv
  <2>2. \A m \in Names : sysModules'[m] \in ModuleObjects \cup {BuiltinObj, Absent}
    BY <2>1, <1>12 DEF Unedited
  <2>3. ASSUME NEW i \in 1 .. n
        PROVE  sysModules'[Component(frames'[i])] = frames'[i].exec
    <3>1. CASE i = n
      BY <3>1, <1>9, <1>10, <1>11, <1>12
    <3>2. CASE i \in 1 .. n - 1
      <4>1. sysModules[Component(frames[i])] = frames[i].exec /\ frames[i].exec # Absent
        BY <2>1, <3>2, <1>3 DEF Unedited
      <4>. QED BY <3>2, <4>1, <1>11, <1>12, <1>15
    <3>. QED BY <3>1, <3>2, <1>3
  <2>. QED BY <2>1, <2>2, <2>3, <1>7, <1>11 DEF Unedited, Component, AtLeaf, FailureHasPending
<1>23. ASSUME importProgram.edits = {}, failed = {}
       PROVE  Linked'
  <2>1. Linked
    BY <1>23 DEF ImportInv
  <2>2. ASSUME NEW i \in 1 .. n, frames'[i].idx > 1, Loading(frames'[i])
        PROVE  /\ frames'[i].cur = sysModules'[Previous(frames'[i])]
               /\ sysModules'[Previous(frames'[i])] # Absent
    <3>1. PICK f \in Frames : f = frames[i]
      BY <1>3
    <3>2. /\ f.idx > 1 /\ Loading(f) /\ Previous(frames'[i]) = Previous(f) /\ frames'[i].cur = f.cur
      BY <2>2, <3>1, <1>1, <1>3, <1>9, <1>10, <1>11
    <3>3. f.cur = sysModules[Previous(f)] /\ sysModules[Previous(f)] # Absent
      BY <2>1, <3>1, <3>2, <1>3 DEF Linked
    <3>4. Previous(f) \in Names
      BY <3>1, <3>2, <1>3, Components
    <3>. QED BY <3>2, <3>3, <3>4, <1>12
  <2>3. ASSUME NEW m \in Names, HasParent(m), sysModules'[m] \in ModuleObjects
        PROVE  /\ sysModules'[Parent(m)] # Absent
               /\ Bound(m)' \/ sysModules'[m] \in Executing'
    <3>0. Parent(m) \in Names
      BY <2>3, Chains, ImportConstants, LenProperties DEF Parent, HasParent
    <3>1. CASE m = c
      <4>1. sysModules[Parent(c)] # Absent
        BY <2>1, <2>3, <3>1, <1>1, <1>3, <1>6 DEF Linked
      <4>. QED BY <3>0, <3>1, <4>1, <1>12, <1>16
    <3>2. CASE m # c
      <4>1. /\ sysModules'[m] = sysModules[m] /\ sysModules[Parent(m)] # Absent
            /\ Bound(m) \/ sysModules[m] \in Executing
        BY <2>1, <2>3, <3>2, <1>12 DEF Linked
      <4>2. sysModules'[Parent(m)] = sysModules[Parent(m)]
        BY <3>0, <4>1, <1>12
      <4>3. Bound(m) => Bound(m)'
        BY <4>1, <4>2, <1>7 DEF Bound, Parent
      <4>. QED BY <4>1, <4>2, <4>3, <1>16
    <3>. QED BY <3>1, <3>2
  <2>. QED BY <2>2, <2>3, <1>11 DEF Linked, Loading, AtLeaf, Previous, HasParent, Parent, Bound
<1>. QED BY <1>7, <1>17, <1>18, <1>19, <1>20, <1>21, <1>22, <1>23 DEF ImportInv

(* The leaf of `from package import leaf' is bound already.                *)
LEMMA AttributeFoundStep == ASSUME ImportInv, AttributeFound PROVE ImportInv'
<1>1. /\ ImportTypeOK /\ BodiesApart /\ CacheSound /\ Finished
      /\ frames # <<>> /\ Top.exec = Absent /\ AtLeaf(Top) /\ Top.leaf # Absent
      /\ Top.cur \in Modules /\ Top.leaf \in Names
      /\ UNCHANGED <<importProgram, sysModules, attrs, madeFor, pending, raising, done, failed>>
  <2>1. frames # <<>> /\ \A f \in Frames : f.leaf \in Names \cup {Absent}
    BY DEF AttributeFound, Frames
  <2>2. Top \in Frames
    BY <2>1, Innermost
  <2>. QED BY <2>1, <2>2 DEF AttributeFound, Loading, ImportInv
<1>2. PICK n : n = Len(frames)
  OBVIOUS
<1>3. /\ n \in Nat /\ DOMAIN frames = 1 .. n /\ n \in 1 .. n /\ Top = frames[n]
      /\ \A i \in 1 .. n : frames[i] \in Frames /\ FrameOK(frames[i])
      /\ \A i \in 1 .. n - 1 : i \in 1 .. n /\ i # n /\ frames[i].exec # Absent
      /\ \A i \in 1 .. n : i = n \/ i \in 1 .. n - 1
  BY <1>1, <1>2, Innermost
<1>4. PICK value : value = attrs[Top.cur][Top.leaf]
  OBVIOUS
<1>5. value \in Values /\ value # NoneObj
  BY <1>1, <1>4 DEF ImportTypeOK, CacheSound
<1>6. PICK g : g = [Top EXCEPT !.idx = @ + 1, !.leaf = Absent, !.cur = value]
  OBVIOUS
<1>7. /\ g \in Frames /\ g.exec = Absent /\ g.leaf = Absent /\ g.target = Top.target
      /\ g.idx = Top.idx + 1 /\ g.cur = value
  <2>1. PICK f \in Frames : f = Top /\ f.exec = Absent
    BY <1>1, <1>3
  <2>2. PICK idx \in Nat \ {0} : idx = f.idx + 1
    BY <2>1 DEF Frames
  <2>3. g = [f EXCEPT !.idx = idx, !.leaf = Absent, !.cur = value]
    BY <2>1, <2>2, <1>6
  <2>. QED BY <2>1, <2>2, <2>3, <1>5 DEF Frames
<1>8. ~Loading(g)
  <2>1. Len(Chain[Top.target]) \in Nat /\ Top.idx \in Nat
    BY <1>3, ImportConstants, LenProperties DEF Frames
  <2>. QED BY <2>1, <1>1, <1>7 DEF Loading, AtLeaf
<1>9. /\ frames' \in Seq(Frames) /\ DOMAIN frames' = 1 .. n /\ frames'[n] = g
      /\ \A i \in 1 .. n - 1 : frames'[i] = frames[i]
  <2>1. frames' = Front(frames) \o <<g>>
    BY <1>4, <1>6 DEF AttributeFound
  <2>. QED BY <2>1, <1>1, <1>2, <1>7, Stack DEF ImportTypeOK
<1>10. \A i \in 1 .. n : frames'[i].exec = frames[i].exec
  BY <1>1, <1>3, <1>7, <1>9
<1>11. Executing' = Executing
  <2>1. Executing' = {frames'[i].exec : i \in DOMAIN frames'} \ {Absent}
    BY DEF Executing
  <2>. QED BY <2>1, <1>3, <1>9, <1>10 DEF Executing
<1>12. ImportTypeOK'
  BY <1>1, <1>9 DEF ImportTypeOK
<1>13. (\A i \in DOMAIN frames : FrameOK(frames[i]))'
  <2>1. ASSUME NEW i \in 1 .. n - 1
        PROVE  FrameOK(frames[i])'
    BY <1>1, <1>3, <1>9, FrameKept DEF FrameOK
  <2>2. FrameOK(frames[n])'
    BY <1>7, <1>9 DEF FrameOK
  <2>3. (\A i \in 1 .. n : FrameOK(frames[i])')
    BY <2>1, <2>2, <1>3
  <2>. QED BY <2>3, <1>9
<1>14. BodiesApart' /\ Finished'
  BY <1>1, <1>3, <1>9, <1>10 DEF BodiesApart, Finished
<1>15. CacheSound'
  <2>1. \A i \in DOMAIN frames' : frames'[i].cur # NoneObj
    BY <1>1, <1>3, <1>5, <1>7, <1>9 DEF CacheSound
  <2>. QED BY <2>1, <1>1, <1>11 DEF CacheSound
<1>16. ASSUME importProgram.edits = {}
       PROVE  Unedited'
  <2>1. Unedited
    BY <1>16 DEF ImportInv
  <2>2. ASSUME NEW i \in 1 .. n, frames'[i].exec # Absent
        PROVE  sysModules[Component(frames'[i])] = frames'[i].exec
    <3>1. frames'[i] = frames[i]
      BY <2>2, <1>3, <1>7, <1>9
    <3>. QED BY <2>1, <2>2, <3>1, <1>3 DEF Unedited
  <2>. QED BY <2>1, <2>2, <1>1, <1>9 DEF Unedited, Component, AtLeaf, FailureHasPending
<1>17. ASSUME importProgram.edits = {}, failed = {}
       PROVE  Linked'
  <2>1. Linked
    BY <1>17 DEF ImportInv
  <2>2. ASSUME NEW i \in 1 .. n, frames'[i].idx > 1, Loading(frames'[i])
        PROVE  /\ frames'[i].cur = sysModules[Previous(frames'[i])]
               /\ sysModules[Previous(frames'[i])] # Absent
    <3>1. frames'[i] = frames[i]
      BY <2>2, <1>3, <1>8, <1>9
    <3>. QED BY <2>1, <2>2, <3>1, <1>3 DEF Linked
  <2>3. \A m \in Names : Bound(m)' <=> Bound(m)
    BY <1>1 DEF Bound, Parent
  <2>. QED BY <2>1, <2>2, <2>3, <1>1, <1>9, <1>11 DEF Linked, Loading, AtLeaf, Previous, HasParent, Parent
<1>. QED BY <1>1, <1>12, <1>13, <1>14, <1>15, <1>16, <1>17 DEF ImportInv

(* An import statement begins, in the main program or in the body that the *)
(* innermost one runs.                                                     *)
LEMMA ImportStep ==
  ASSUME ImportInv, NEW target \in Names, NEW leaf \in Names \cup {Absent}, Import(target, leaf)
  PROVE  ImportInv'
<1>1. /\ ImportTypeOK /\ BodiesApart /\ CacheSound /\ Finished
      /\ UNCHANGED <<importProgram, sysModules, attrs, madeFor, pending, raising, done, failed>>
      /\ leaf # Absent => HasParent(leaf) /\ Parent(leaf) = target
      /\ \A i \in DOMAIN frames : FrameOK(frames[i])
  BY DEF Import, ImportInv
<1>2. PICK n \in Nat : /\ n = Len(frames) /\ DOMAIN frames = 1 .. n
                       /\ \A i \in 1 .. n : frames[i] \in Frames
  BY <1>1, LenProperties, Stack DEF ImportTypeOK
<1>3. PICK g : g = [target |-> target, leaf |-> leaf, idx |-> 1, cur |-> Absent, exec |-> Absent]
  OBVIOUS
<1>4. /\ g \in Frames /\ g.exec = Absent /\ g.leaf = leaf /\ g.target = target
      /\ g.idx = 1 /\ g.cur = Absent
  BY <1>3 DEF Frames, Values
<1>5. /\ frames' \in Seq(Frames) /\ DOMAIN frames' = 1 .. n + 1 /\ frames'[n + 1] = g
      /\ \A i \in 1 .. n : frames'[i] = frames[i] /\ i \in 1 .. n + 1 /\ i # n + 1
      /\ \A i \in 1 .. n + 1 : i = n + 1 \/ i \in 1 .. n
  <2>1. frames' = Append(frames, g)
    BY <1>3 DEF Import
  <2>2. /\ frames' \in Seq(Frames) /\ DOMAIN frames' = 1 .. n + 1 /\ frames'[n + 1] = g
        /\ \A i \in 1 .. n : frames'[i] = frames[i]
    BY <2>1, <1>1, <1>2, <1>4, Stack DEF ImportTypeOK
  <2>3. \A i \in 1 .. n : i \in 1 .. n + 1 /\ i # n + 1
    BY <1>2
  <2>4. \A i \in 1 .. n + 1 : i = n + 1 \/ i \in 1 .. n
    BY <1>2
  <2>. QED BY <2>2, <2>3, <2>4
<1>6. \A i \in 1 .. n : frames[i].exec # Absent
  <2>1. CASE frames = <<>>
    BY <2>1, <1>2
  <2>2. CASE frames # <<>>
    <3>1. n \in 1 .. n /\ Top = frames[n] /\ \A i \in 1 .. n - 1 : frames[i].exec # Absent
      BY <2>2, <1>2, Innermost
    <3>2. Top.exec # Absent
      BY <2>2 DEF Import, UserCode
    <3>3. \A i \in 1 .. n : i = n \/ i \in 1 .. n - 1
      BY <1>2
    <3>. QED BY <3>1, <3>2, <3>3
  <2>. QED BY <2>1, <2>2
<1>7. Executing' = Executing
  <2>1. Executing' = {frames'[i].exec : i \in DOMAIN frames'} \ {Absent}
    BY DEF Executing
  <2>. QED BY <2>1, <1>2, <1>4, <1>5 DEF Executing
<1>8. ImportTypeOK'
  BY <1>1, <1>5 DEF ImportTypeOK
<1>9. (\A i \in DOMAIN frames : FrameOK(frames[i]))'
  <2>1. ASSUME NEW i \in 1 .. n
        PROVE  FrameOK(frames[i])'
    BY <1>1, <1>2, <1>5, FrameKept DEF FrameOK
  <2>2. FrameOK(frames[n + 1])'
    <3>1. Len(Chain[target]) \in Nat
      BY ImportConstants, LenProperties
    <3>2. g.leaf # Absent => /\ HasParent(g.leaf) /\ Parent(g.leaf) = g.target
                             /\ g.idx <= Len(Chain[g.target]) + 1
      BY <3>1, <1>1, <1>4
    <3>. QED BY <3>2, <1>4, <1>5 DEF FrameOK, HasParent, Parent
  <2>3. (\A i \in 1 .. n + 1 : FrameOK(frames[i])')
    BY <2>1, <2>2, <1>5
  <2>. QED BY <2>3, <1>5
<1>10. BodiesApart'
  <2>1. ASSUME NEW i \in 1 .. n + 1, NEW j \in 1 .. n + 1
        PROVE  /\ i # j /\ frames'[i].exec # Absent => frames'[i].exec # frames'[j].exec
               /\ i < j => frames'[i].exec # Absent
    <3>1. (i = n + 1 \/ i \in 1 .. n) /\ (j = n + 1 \/ j \in 1 .. n)
      BY <1>5
    <3>2. i < j => i # n + 1
      BY <1>2
    <3>3. i \in 1 .. n /\ j \in 1 .. n /\ i # j => frames[i].exec # frames[j].exec
      BY <1>1, <1>2, <1>6 DEF BodiesApart
    <3>. QED BY <3>1, <3>2, <3>3, <1>4, <1>5, <1>6
  <2>. QED BY <2>1, <1>5 DEF BodiesApart
<1>11. Finished' /\ CacheSound'
  <2>1. \A i \in DOMAIN frames' : frames'[i].cur # NoneObj
    BY <1>1, <1>2, <1>4, <1>5, ImportConstants DEF CacheSound
  <2>. QED BY <2>1, <1>1, <1>7 DEF CacheSound, Finished
<1>12. ASSUME importProgram.edits = {}
       PROVE  Unedited'
  <2>1. Unedited
    BY <1>12 DEF ImportInv
  <2>2. ASSUME NEW i \in 1 .. n + 1, frames'[i].exec # Absent
        PROVE  sysModules[Component(frames'[i])] = frames'[i].exec
    <3>1. i \in 1 .. n
      BY <2>2, <1>4, <1>5
    <3>. QED BY <2>1, <2>2, <3>1, <1>2, <1>5 DEF Unedited
  <2>. QED BY <2>1, <2>2, <1>1, <1>5 DEF Unedited, Component, AtLeaf, FailureHasPending
<1>13. ASSUME importProgram.edits = {}, failed = {}
       PROVE  Linked'
  <2>1. Linked
    BY <1>13 DEF ImportInv
  <2>2. ASSUME NEW i \in 1 .. n + 1, frames'[i].idx > 1, Loading(frames'[i])
        PROVE  /\ frames'[i].cur = sysModules[Previous(frames'[i])]
               /\ sysModules[Previous(frames'[i])] # Absent
    <3>1. i \in 1 .. n
      BY <2>2, <1>4, <1>5
    <3>. QED BY <2>1, <2>2, <3>1, <1>2, <1>5 DEF Linked
  <2>3. \A m \in Names : Bound(m)' <=> Bound(m)
    BY <1>1 DEF Bound, Parent
  <2>. QED BY <2>1, <2>2, <2>3, <1>1, <1>5, <1>7 DEF Linked, Loading, AtLeaf, Previous, HasParent, Parent
<1>. QED BY <1>1, <1>8, <1>9, <1>10, <1>11, <1>12, <1>13 DEF ImportInv

(* User code catches an exception, or edits sys.modules; nothing else      *)
(* changes.                                                                *)
LEMMA UserStep ==
  ASSUME ImportInv,
         Catch \/ \E m \in importProgram.names, value \in importProgram.edits : EditSysModules(m, value)
  PROVE  ImportInv'
<1>1. /\ ImportTypeOK /\ BodiesApart /\ CacheSound /\ Finished
      /\ UNCHANGED <<importProgram, attrs, madeFor, frames, done, failed>>
      /\ \A i \in DOMAIN frames : FrameOK(frames[i])
  BY DEF ImportInv, Catch, EditSysModules
<1>2. Executing' = Executing
  BY <1>1 DEF Executing
<1>3. (\A i \in DOMAIN frames : FrameOK(frames[i]))'
  BY <1>1 DEF FrameOK, Loading, AtLeaf, HasParent, Parent, Component
<1>4. BodiesApart' /\ Finished'
  BY <1>1 DEF BodiesApart, Finished
<1>5. CASE Catch
  <2>1. sysModules' = sysModules /\ raising' = FALSE
    BY <1>5 DEF Catch
  <2>2. ImportTypeOK' /\ CacheSound'
    BY <2>1, <1>1, <1>2 DEF ImportTypeOK, CacheSound
  <2>3. importProgram.edits = {} => Unedited'
    BY <2>1, <1>1 DEF ImportInv, Unedited, Component, AtLeaf, FailureHasPending
  <2>4. importProgram.edits = {} /\ failed = {} => Linked'
    BY <2>1, <1>1, <1>2 DEF ImportInv, Linked, Loading, AtLeaf, Previous, HasParent, Parent, Bound
  <2>. QED BY <2>2, <2>3, <2>4, <1>1, <1>3, <1>4 DEF ImportInv
<1>6. ASSUME NEW m \in importProgram.names, NEW value \in importProgram.edits, EditSysModules(m, value)
      PROVE  ImportInv'
  <2>1. m \in Names /\ value \in {Absent, NoneObj, Foreign} /\ importProgram.edits # {}
    BY <1>1, ImportProgramsAssumption DEF ImportTypeOK
  <2>2. value \in Values /\ value \notin ModuleObjects
    BY <2>1, ImportConstants DEF Values
  <2>3. /\ sysModules' \in [Names -> Values] /\ raising' = raising
        /\ \A u \in Names : sysModules'[u] \in ModuleObjects => sysModules'[u] = sysModules[u]
    BY <2>1, <2>2, <1>1, <1>6 DEF EditSysModules, ImportTypeOK
  <2>4. ImportTypeOK' /\ CacheSound'
    BY <2>3, <1>1, <1>2 DEF ImportTypeOK, CacheSound
  <2>. QED BY <2>1, <2>4, <1>1, <1>3, <1>4 DEF ImportInv
<1>. QED BY <1>5, <1>6

(* What sys.modules has for the component is used, by a cached import or   *)
(* when the body has ended.                                                *)
LEMMA UseCachedStep ==
  ASSUME ImportInv, frames # <<>>, Loading(Top), sysModules[Component(Top)] # Absent,
         UseCached(Component(Top)), UNCHANGED <<importProgram, sysModules, madeFor, failed>>,
         done \subseteq done', done' \subseteq ModuleObjects,
         \A o \in done' \ done : madeFor[o] # Absent,
         Top.exec \in done' \cup {Absent}
  PROVE  ImportInv'
<1>1. ImportTypeOK /\ CacheSound
  BY DEF ImportInv
<1>2. PICK c : c = Component(Top)
  OBVIOUS
<1>3. c \in Names
  BY <1>2, Innermost, Components
<1>4. PICK value \in Values : value = sysModules[c] /\ value # Absent
  BY <1>1, <1>2, <1>3 DEF ImportTypeOK
<1>5. importProgram.edits = {} => value \in ModuleObjects \cup {BuiltinObj}
  BY <1>3, <1>4 DEF ImportInv, Unedited
<1>6. CASE value = NoneObj
  <2>1. importProgram.edits # {}
    BY <1>5, <1>6, ImportConstants
  <2>2. frames' = Front(frames) /\ raising' = TRUE /\ UNCHANGED attrs
    BY <1>2, <1>4, <1>6 DEF UseCached, Fail
  <2>. QED BY <2>1, <2>2, PopStep
<1>7. CASE value # NoneObj
  <2>1. Advance(c, value) /\ UNCHANGED <<pending, raising>>
    BY <1>2, <1>4, <1>7 DEF UseCached
  <2>2. sysModules' = [sysModules EXCEPT ![c] = value]
    BY <1>1, <1>3, <1>4 DEF ImportTypeOK
  <2>3. value \in ModuleObjects =>
          madeFor'[value] = c /\ value \notin failed /\ value \in done' \cup Executing
    BY <1>1, <1>3, <1>4 DEF CacheSound
  <2>4. \A o \in done' \ done : madeFor'[o] # Absent
    OBVIOUS
  <2>. QED BY <2>1, <2>2, <2>3, <2>4, <1>2, <1>4, <1>5, <1>7, AdvanceStep
<1>. QED BY <1>6, <1>7

\* A module is found, missing, built in or a namespace.
LEMMA LoadingStep ==
  ASSUME ImportInv, LoadCached \/ ModuleNotFound \/ LoadBuiltinModule \/ LoadNamespaceModule
  PROVE  ImportInv'
<1>1. ImportTypeOK /\ CacheSound /\ Finished /\ frames # <<>> /\ Top.exec = Absent /\ Loading(Top)
  BY DEF ImportInv, LoadCached, ModuleNotFound, LoadBuiltinModule, LoadNamespaceModule,
         MustFind, Searching
<1>2. PICK c : c = Component(Top)
  OBVIOUS
<1>3. c \in Names
  BY <1>1, <1>2, Innermost, Components
<1>4. ASSUME Fail("ImportError") \/ Fail("ModuleNotFoundError"),
             UNCHANGED <<importProgram, sysModules, attrs, madeFor, done, failed>>
      PROVE  ImportInv'
  <2>1. frames' = Front(frames) /\ raising' = TRUE /\ pending' # "none"
    BY <1>4 DEF Fail
  <2>2. done' = done /\ done \subseteq ModuleObjects
    BY <1>1, <1>4 DEF ImportTypeOK
  <2>. QED BY <2>1, <2>2, <1>1, <1>4, PopStep
<1>5. CASE LoadCached
  <2>1. UNCHANGED <<importProgram, sysModules, madeFor, done, failed>>
    BY <1>5 DEF LoadCached
  <2>2. \/ (Fail("ImportError") \/ Fail("ModuleNotFoundError")) /\ UNCHANGED attrs
        \/ sysModules[c] # Absent /\ UseCached(c)
    BY <1>2, <1>5 DEF LoadCached
  <2>3. done' = done /\ done \subseteq ModuleObjects
    BY <2>1, <1>1 DEF ImportTypeOK
  <2>4. CASE sysModules[c] # Absent /\ UseCached(c)
    BY <2>1, <2>3, <2>4, <1>1, <1>2, UseCachedStep
  <2>. QED BY <2>1, <2>2, <2>4, <1>4
<1>6. CASE ModuleNotFound
  <2>1. Fail("ImportError") \/ Fail("ModuleNotFoundError")
    BY <1>6 DEF ModuleNotFound
  <2>. QED BY <2>1, <1>4, <1>6 DEF ModuleNotFound
<1>7. CASE LoadBuiltinModule
  <2>1. /\ sysModules[c] = Absent /\ sysModules' = [sysModules EXCEPT ![c] = BuiltinObj]
        /\ Advance(c, BuiltinObj)
        /\ UNCHANGED <<importProgram, madeFor, pending, raising, done, failed>>
    BY <1>2, <1>7 DEF LoadBuiltinModule, MustFind
  <2>2. BuiltinObj \in Values \ {NoneObj, Absent} /\ BuiltinObj \notin ModuleObjects
    BY ImportConstants DEF Values
  <2>3. done' = done /\ done \subseteq ModuleObjects
    BY <2>1, <1>1 DEF ImportTypeOK
  <2>. QED BY <2>1, <2>2, <2>3, <1>1, <1>2, AdvanceStep
<1>8. CASE LoadNamespaceModule
  <2>1. PICK o \in ModuleObjects :
          /\ madeFor[o] = Absent /\ madeFor' = [madeFor EXCEPT ![o] = c]
          /\ sysModules' = [sysModules EXCEPT ![c] = o]
          /\ done' = done \cup {o} /\ Advance(c, o)
    <3>1. (CHOOSE u \in Unused : TRUE) \in Unused
      BY <1>8 DEF LoadNamespaceModule
    <3>. QED BY <3>1, <1>2, <1>8 DEF LoadNamespaceModule, Unused
  <2>2. sysModules[c] = Absent /\ UNCHANGED <<importProgram, pending, raising, failed>>
    BY <1>2, <1>8 DEF LoadNamespaceModule, MustFind
  <2>3. o \in Values \ {NoneObj, Absent}
    BY ImportConstants DEF Values
  <2>4. madeFor'[o] = c /\ o \notin failed /\ c # Absent
    BY <2>1, <1>1, <1>3, ImportConstants DEF Finished, ImportTypeOK
  <2>5. done \subseteq done' /\ done' \subseteq ModuleObjects /\ \A u \in done' \ done : madeFor'[u] # Absent
    BY <2>1, <2>4, <1>1 DEF ImportTypeOK
  <2>. QED BY <2>1, <2>2, <2>3, <2>4, <2>5, <1>1, <1>2, AdvanceStep
<1>. QED BY <1>5, <1>6, <1>7, <1>8

\* A body ends, or an import statement returns.
LEMMA EndingStep ==
  ASSUME ImportInv, BodyEnds \/ ImportReturns
  PROVE  ImportInv'
<1>1. ImportTypeOK /\ frames # <<>> /\ UNCHANGED <<importProgram, sysModules, madeFor, failed>>
  BY DEF ImportInv, BodyEnds, ImportReturns
<1>2. CASE BodyEnds
  <2>1. /\ Top.exec # Absent /\ Top \in Frames /\ FrameOK(Top)
        /\ done' = done \cup {Top.exec}
    BY <1>1, <1>2, Innermost DEF BodyEnds
  <2>2. PICK c : c = Component(Top)
    OBVIOUS
  <2>3. /\ Loading(Top) /\ Top.exec \in ModuleObjects /\ madeFor[Top.exec] = c /\ c \in Names
    BY <2>1, <2>2, Components DEF FrameOK, Frames
  <2>4. /\ done \subseteq done' /\ done' \subseteq ModuleObjects /\ Top.exec \in done'
        /\ \A o \in done' \ done : madeFor[o] # Absent
    BY <2>1, <2>3, <1>1, ImportConstants DEF ImportTypeOK
  <2>5. CASE sysModules[c] = Absent
    <3>1. frames' = Front(frames) /\ raising' = TRUE /\ pending' # "none" /\ UNCHANGED attrs
      BY <2>2, <2>5, <1>2 DEF BodyEnds, Fail
    <3>2. importProgram.edits # {}
      BY <2>1, <2>2, <2>5, <1>1, Innermost DEF ImportInv, Unedited
    <3>. QED BY <3>1, <3>2, <2>4, <1>1, PopStep
  <2>6. CASE sysModules[c] # Absent
    <3>1. UseCached(Component(Top))
      BY <2>2, <2>6, <1>2 DEF BodyEnds
    <3>. QED BY <3>1, <2>2, <2>3, <2>4, <2>6, <1>1, UseCachedStep
  <2>. QED BY <2>5, <2>6
<1>3. CASE ImportReturns
  <2>1. /\ Top.exec = Absent /\ frames' = Front(frames) /\ UNCHANGED <<attrs, done>>
        /\ \/ raising' = TRUE /\ pending' # "none"
           \/ UNCHANGED <<pending, raising>>
    BY <1>3 DEF ImportReturns, Fail
  <2>2. /\ raising' \in BOOLEAN /\ done \subseteq ModuleObjects
        /\ importProgram.edits = {} /\ raising' => pending' # "none"
    <3>1. raising \in BOOLEAN /\ done \subseteq ModuleObjects
      BY <1>1 DEF ImportTypeOK
    <3>2. importProgram.edits = {} /\ raising => pending # "none"
      BY DEF ImportInv, Unedited, FailureHasPending
    <3>3. raising' \in BOOLEAN
      BY <2>1, <3>1
    <3>4. importProgram.edits = {} /\ raising' => pending' # "none"
      BY <2>1, <3>2
    <3>. QED BY <3>1, <3>3, <3>4
  <2>3. done' = done /\ attrs' = attrs
    BY <2>1
  <2>. QED BY <2>1, <2>2, <2>3, <1>1, PopStep
<1>. QED BY <1>2, <1>3

\* Every step keeps the invariant.
LEMMA NextImportInv == ImportInv /\ [ImportNext]_importVars => ImportInv'
<1>. SUFFICES ASSUME ImportInv, [ImportNext]_importVars
              PROVE  ImportInv'
  OBVIOUS
<1>1. ASSUME NEW target \in importProgram.names, NEW leaf \in importProgram.names \cup {Absent},
             Import(target, leaf)
      PROVE  ImportInv'
  <2>1. target \in Names /\ leaf \in Names \cup {Absent}
    BY ImportProgramsAssumption DEF ImportInv, ImportTypeOK
  <2>. QED BY <2>1, <1>1, ImportStep
<1>2. ASSUME UNCHANGED importVars
      PROVE  ImportInv'
  BY <1>2 DEF importVars, ImportInv, ImportTypeOK, FrameOK, BodiesApart, Finished, CacheSound,
      Executing, Unedited, FailureHasPending, Linked, Bound, Loading, AtLeaf, Component,
      Previous, HasParent, Parent
<1>. QED
  BY <1>1, <1>2, AttributeFoundStep, LoadingStep, BeginBodyStep, EndingStep, BodyRaisesStep, UserStep
  DEF ImportNext

(* Every module that sys.modules serves was made for its name, and its     *)
(* body has ended or is running; the statements in progress run different  *)
(* bodies; with programs that leave sys.modules alone each running module  *)
(* is in it, and until a body fails packages and submodules stay linked.   *)
THEOREM ImportInvariant == ImportSpec => []ImportInv
BY InitImportInv, NextImportInv, PTL DEF ImportSpec

(* Circular, nested, failing and edited imports: a module whose body       *)
(* failed is never served, no body runs inside itself, submodules are      *)
(* bound on their packages and a failing import leaves its exception.      *)
THEOREM ImportsSound == ImportSpec => []ModulesSound
<1>1. ImportInv => ModulesSound
  <2>. SUFFICES ASSUME ImportInv
                PROVE  ModulesSound
    OBVIOUS
  <2>1. ASSUME importProgram.edits = {}, NEW i \in DOMAIN frames, NEW j \in DOMAIN frames,
               frames[i].exec # Absent, frames[j].exec # Absent,
               madeFor[frames[i].exec] = madeFor[frames[j].exec]
        PROVE  i = j
    <3>1. Component(frames[i]) = Component(frames[j])
      BY <2>1 DEF ImportInv, FrameOK
    <3>2. frames[i].exec = frames[j].exec
      BY <2>1, <3>1 DEF ImportInv, Unedited
    <3>. QED BY <2>1, <3>2 DEF ImportInv, BodiesApart
  <2>2. NoNestedReload
    BY <2>1 DEF NoNestedReload
  <2>3. ASSUME importProgram.edits = {}, frames = <<>>, failed = {}, NEW n \in Names, HasParent(n)
        PROVE  Bound(n)
    <3>1. Executing = {}
      BY <2>3 DEF Executing
    <3>2. sysModules[n] \in ModuleObjects => Bound(n)
      BY <2>3, <3>1 DEF ImportInv, Linked
    <3>. QED BY <3>2 DEF Bound
  <2>4. SubmodulesBound
    BY <2>3 DEF SubmodulesBound
  <2>5. CacheSound /\ FailureHasPending
    BY DEF ImportInv, Unedited, FailureHasPending
  <2>. QED BY <2>2, <2>4, <2>5 DEF ModulesSound
<1>. QED BY <1>1, ImportInvariant, PTL

(* An import that fails takes its own entry out of sys.modules and no      *)
(* other, unless the program removes entries itself.                       *)
THEOREM FailureRemovesOneEntry == ImportSpec => OnlyFailingEntryRemoved
<1>. DEFINE Kept == importProgram.edits = {} => \A n \in Names :
       sysModules[n] \in ModuleObjects /\ sysModules'[n] # sysModules[n] => sysModules[n] \in failed'
<1>1. ImportInv /\ [ImportNext]_importVars => Kept
  <2>. SUFFICES ASSUME ImportInv, [ImportNext]_importVars, importProgram.edits = {},
                       NEW n \in Names, sysModules[n] \in ModuleObjects, sysModules'[n] # sysModules[n]
                PROVE  sysModules[n] \in failed'
    OBVIOUS
  <2>1. sysModules \in [Names -> Values] /\ sysModules[n] # Absent
    BY ImportConstants DEF ImportInv, ImportTypeOK
  <2>2. CASE LoadBuiltinModule \/ LoadNamespaceModule \/ BeginBody
    <3>1. sysModules[Component(Top)] = Absent
      BY <2>2 DEF LoadBuiltinModule, LoadNamespaceModule, BeginBody, MustFind
    <3>. QED BY <2>1, <2>2, <3>1 DEF LoadBuiltinModule, LoadNamespaceModule, BeginBody
  <2>3. CASE BodyRaises
    <3>1. n = Component(Top) /\ frames # <<>> /\ Top.exec # Absent
      BY <2>1, <2>3 DEF BodyRaises, RemoveImportedModule
    <3>2. sysModules[n] = Top.exec
      BY <3>1, Innermost DEF ImportInv, Unedited
    <3>. QED BY <2>3, <3>2 DEF BodyRaises
  <2>. QED
    BY <2>2, <2>3 DEF ImportNext, importVars, Import, AttributeFound, LoadCached, ModuleNotFound,
       BodyEnds, Catch, ImportReturns
<1>. QED BY <1>1, ImportInvariant, PTL DEF ImportSpec, OnlyFailingEntryRemoved

-----------------------------------------------------------------------------
(* Inline caches.  What a cache was filled from is unchanged while its     *)
(* cell is valid: the cell is owned by the class that guards the cached    *)
(* shape, it is attached to every class whose change matters, and what the *)
(* class chain yields outside that class can only change its meaning by    *)
(* becoming a descriptor, which the type of the value rules out.           *)

Thunks == [new : FunctionValues \cup {None}, init : FunctionValues \cup {None}] \cup {None}

ClassCells ==
  [msc : Cells \cup {None}, msm : Cells \cup {None}, thunk : Thunks,
   shapeList : Seq(Cells), contentsList : Seq(Cells)]

Lookups == [valid : SUBSET Cells, class : [Classes -> ClassCells]]

Bases(c) == {Mro[c][i] : i \in 2 .. Len(Mro[c])}

\* CellsAttached of a value of `lookup'.
MscAttached(lk, c) ==
  lk.class[c].msc \in lk.valid =>
    \A b \in Bases(c) : lk.class[c].msc \in Range(lk.class[b].contentsList)

MsmAttached(lk, c) ==
  lk.class[c].msm \in lk.valid =>
    /\ \A b \in Bases(c) : lk.class[c].msm \in Range(lk.class[b].shapeList)
    /\ c # TypeClass => \A b \in Range(Mro[TypeClass]) :
                          lk.class[c].msm \in Range(lk.class[b].contentsList)

LookupOK(lk) ==
  /\ lk \in Lookups
  /\ \A c \in Classes : MscAttached(lk, c) /\ MsmAttached(lk, c)

\* A shape has these fields, whatever their values.
IsShape(sh) ==
  sh = [cls |-> sh.cls, root |-> sh.root, path |-> sh.path,
        slots |-> sh.slots, latent |-> sh.latent, next |-> sh.next]

ShapesOK ==
  /\ DOMAIN shape = Objects /\ DOMAIN storage = Objects
  /\ \A o \in Objects : IsShape(shape[o])
  /\ \A c \in Classes : shape[c].cls = TypeClass /\ shape[c].root = <<"class", c>>
  /\ \A i \in Instances : shape[i].cls \in Classes /\ shape[i].root[1] # "class"

\* A value that is no descriptor with method n and cannot become one.
Settled(val, n) ==
  val \in Instances => ClassOf(val) \in Frozen /\ ~HasProtocol(val, n)

ChainValue(c, n) == storage[ChainOwner(c, n)][shape[ChainOwner(c, n)].slots[n]]

\* The class chain has no value for the name, or one settled for Get.
NothingWins(c, n) == ChainOwner(c, n) # None => Settled(ChainValue(c, n), Get)

SelectsFrom(c, n, plan) ==
  /\ ChainOwner(c, n) # None
  /\ plan.owner = ChainOwner(c, n) /\ plan.slot = shape[ChainOwner(c, n)].slots[n]

\* What a valid read cache e for name n was filled from still holds.
ClassReadOK(e, n) ==
  \E c \in Classes :
    /\ e.shape.root = <<"class", c>>
    /\ e.cell = lookup.class[c].msm
    /\ \/ SelectsFrom(c, n, e.plan)
       \/ c # TypeClass /\ ChainOwner(c, n) = None /\ SelectsFrom(TypeClass, n, e.plan)

OwnReadOK(e, n) ==
  /\ n \in DOMAIN e.shape.slots
  /\ e.plan.owner = None /\ e.plan.slot = e.shape.slots[n]
  /\ e.cell = lookup.class[e.shape.cls].msc
  /\ NothingWins(e.shape.cls, n)

ChainReadOK(e, n) ==
  /\ n \notin DOMAIN e.shape.slots
  /\ e.cell = lookup.class[e.shape.cls].msm
  /\ SelectsFrom(e.shape.cls, n, e.plan)

ReadOK(e, n) ==
  e.cell \in lookup.valid =>
    \/ ClassReadOK(e, n)
    \/ /\ e.shape.root[1] # "class" /\ e.shape.cls \in Classes
       /\ OwnReadOK(e, n) \/ ChainReadOK(e, n)

\* A plan leads to a shape of the same class and root.
PlanOK(plan, sh) ==
  \/ plan.kind = "StoreExisting"
  \/ /\ plan.kind \in {"AddOwnProperty", "DeleteOwnProperty"}
     /\ IsShape(plan.next) /\ plan.next.cls = sh.cls /\ plan.next.root = sh.root

\* The plan of site s for an object of shape sh.
SitePlan(s, sh) ==
  IF s \in StoreSites
  THEN [kind |-> "StoreExisting", slot |-> sh.slots[SiteName[s]]]
  ELSE [kind |-> "DeleteOwnProperty", slot |-> sh.slots[SiteName[s]],
        next |-> DeriveDeleteTransition(sh, SiteName[s])]

\* What a plan for an existing property of shape sh was made from still holds.
PlanStands(s, sh, plan) ==
  /\ SiteName[s] \in DOMAIN sh.slots /\ plan = SitePlan(s, sh)
  /\ NothingWins(sh.cls, SiteName[s])
  /\ ChainOwner(sh.cls, SiteName[s]) # None =>
       Settled(ChainValue(sh.cls, SiteName[s]), Set)
  /\ s \in DeleteSites => \A c \in Frozen : sh.root # <<"class", c>>

\* What a valid mutation cache e of site s was filled from still holds.
MutationOK(lk, e, s) ==
  e.cell \in lk.valid =>
    /\ e.shape.cls \in Classes /\ e.cell = lk.class[e.shape.cls].msc
    /\ PlanOK(e.plan, e.shape)
    /\ e.plan.kind # "AddOwnProperty" => PlanStands(s, e.shape, e.plan)

CallOK(e) ==
  e.cell \in lookup.valid =>
    /\ e.guard \in Classes /\ e.cell = lookup.class[e.guard].msc
    /\ e.thunk = ConstructorFor(e.guard)

ThunkOK(c) ==
  lookup.class[c].thunk # None /\ lookup.class[c].msc \in lookup.valid =>
    lookup.class[c].thunk = ConstructorFor(c)

LookupInv ==
  /\ program \in Programs
  /\ LookupOK(lookup)
  /\ ShapesOK
  /\ DOMAIN readCache = ReadSites /\ \A s \in ReadSites : ReadOK(readCache[s], SiteName[s])
  /\ DOMAIN mutationCache = MutationSites /\ \A s \in MutationSites : MutationOK(lookup, mutationCache[s], s)
  /\ DOMAIN callCache = CallSites /\ \A s \in CallSites : CallOK(callCache[s])
  /\ \A c \in Classes : ThunkOK(c)
-----------------------------------------------------------------------------
(* The MRO of a class is the class and what its cells are attached along.  *)
LEMMA MroOf ==
  ASSUME NEW c \in Classes
  PROVE  /\ Range(Mro[c]) = {c} \cup Bases(c) /\ Bases(c) \subseteq Classes
         /\ \A from \in {SkipSelf, IncludeSelf} :
              {Mro[c][i] : i \in {j \in DOMAIN Mro[c] : j >= from}} =
                IF from = SkipSelf THEN Bases(c) ELSE Range(Mro[c])
         /\ DOMAIN Mro[c] = 1 .. Len(Mro[c]) /\ Len(Mro[c]) \in Nat \ {0} /\ Mro[c][1] = c
<1>1. /\ DOMAIN Mro[c] = 1 .. Len(Mro[c]) /\ Len(Mro[c]) \in Nat \ {0} /\ Mro[c][1] = c
      /\ \A i \in DOMAIN Mro[c] : Mro[c][i] \in Classes
  BY LookupConstants, LenProperties, ElementOfSeq
<1>2. Range(Mro[c]) = {c} \cup Bases(c)
  <2>1. ASSUME NEW i \in DOMAIN Mro[c]
        PROVE  i = 1 \/ i \in 2 .. Len(Mro[c])
    BY <1>1
  <2>2. \A i \in 2 .. Len(Mro[c]) : i \in DOMAIN Mro[c]
    BY <1>1
  <2>3. 1 \in DOMAIN Mro[c]
    BY <1>1
  <2>. QED BY <1>1, <2>1, <2>2, <2>3 DEF Range, Bases
<1>3. {j \in DOMAIN Mro[c] : j >= 2} = 2 .. Len(Mro[c])
  BY <1>1
<1>4. {j \in DOMAIN Mro[c] : j >= 1} = DOMAIN Mro[c]
  BY <1>1
<1>5. Bases(c) \subseteq Classes
  BY <1>1 DEF Bases
<1>. QED BY <1>1, <1>2, <1>3, <1>4, <1>5 DEF SkipSelf, IncludeSelf, Bases, Range

\* An MRO consists of its class and that class's bases.
LEMMA MroClasses ==
  /\ TypeClass \in Classes
  /\ \A c \in Classes : /\ Bases(c) \subseteq Classes /\ Range(Mro[c]) \subseteq Classes
                        /\ Range(Mro[c]) = {c} \cup Bases(c)
BY MroOf, LookupConstants

(* attach_mro_validity_cell loses no valid cell.                           *)
LEMMA AttachKeeps ==
  ASSUME NEW list \in Seq(Cells), NEW k \in Cells, NEW valid, k \in valid
  PROVE  /\ Attach(list, k, valid) \in Seq(Cells)
         /\ k \in Range(Attach(list, k, valid))
         /\ \A j \in Range(list) : j \in valid => j \in Range(Attach(list, k, valid))
<1>. DEFINE dead == {i \in DOMAIN list : i <= ReuseScan /\ list[i] \notin valid}
            n == Len(list)
<1>1. n \in Nat /\ DOMAIN list = 1 .. n /\ dead \in SUBSET Nat
  BY LenProperties
<1>2. CASE dead = {}
  <2>1. PICK l \in Seq(Cells) : l = Attach(list, k, valid) /\ l = Append(list, k)
    BY <1>2, AppendProperties DEF Attach
  <2>2. Len(l) = n + 1 /\ l[n + 1] = k /\ \A i \in 1 .. n : l[i] = list[i]
    BY <2>1, AppendProperties
  <2>3. DOMAIN l = 1 .. n + 1 /\ n + 1 \in DOMAIN l /\ \A i \in 1 .. n : i \in DOMAIN l
    BY <2>1, <2>2, <1>1, LenProperties
  <2>. QED BY <2>1, <2>2, <2>3, <1>1 DEF Range
<1>3. CASE dead # {}
  <2>1. PICK m : m = CHOOSE i \in dead : \A j \in dead : i <= j
    OBVIOUS
  <2>2. m \in dead
    BY <1>1, <1>3, <2>1, LeastElement
  <2>3. PICK l : l = Attach(list, k, valid) /\ l = [list EXCEPT ![m] = k]
    BY <1>3, <2>1 DEF Attach
  <2>4. l \in Seq(Cells) /\ DOMAIN l = DOMAIN list
    BY <2>2, <2>3, ExceptSeq
  <2>5. l[m] = k /\ m \in DOMAIN l /\ \A i \in DOMAIN list : i # m => l[i] = list[i]
    BY <2>2, <2>3, <2>4
  <2>6. list[m] \notin valid
    BY <2>2
  <2>. QED BY <2>3, <2>4, <2>5, <2>6 DEF Range
<1>. QED BY <1>2, <1>3

(* install_validity_cell_along_mro puts the cell in the lists along the    *)
(* MRO and loses no valid cell from any list.                              *)
\* lj has the cells of lk, and its lists no fewer valid cells.
Grown(lk, lj) ==
  /\ lj \in Lookups /\ lj.valid = lk.valid
  /\ \A b \in Classes :
       /\ lj.class[b].msc = lk.class[b].msc /\ lj.class[b].msm = lk.class[b].msm
       /\ lj.class[b].thunk = lk.class[b].thunk
       /\ \A j \in lk.valid : j \in Range(lk.class[b].shapeList) => j \in Range(lj.class[b].shapeList)
       /\ \A j \in lk.valid : j \in Range(lk.class[b].contentsList) => j \in Range(lj.class[b].contentsList)

\* install_dependency puts the cell on the list of every class along the chain.
LEMMA InstallAttaches ==
  ASSUME NEW lk \in Lookups, NEW k \in Cells, k \in lk.valid, NEW c \in Classes,
         NEW from \in {SkipSelf, IncludeSelf}, NEW dependency,
         NEW along \in SUBSET Classes, along = {Mro[c][i] : i \in {j \in DOMAIN Mro[c] : j >= from}}
  PROVE  /\ Grown(lk, Install(lk, k, c, from, dependency))
         /\ \A b \in along :
              IF dependency = "ShapeOnly"
              THEN k \in Range(Install(lk, k, c, from, dependency).class[b].shapeList)
              ELSE k \in Range(Install(lk, k, c, from, dependency).class[b].contentsList)
<1>. DEFINE changed(b) ==
       IF b \notin along THEN lk.class[b]
       ELSE IF dependency = "ShapeOnly"
            THEN [lk.class[b] EXCEPT !.shapeList = Attach(lk.class[b].shapeList, k, lk.valid)]
            ELSE [lk.class[b] EXCEPT !.contentsList = Attach(lk.class[b].contentsList, k, lk.valid)]
<1>1. PICK lj : lj = Install(lk, k, c, from, dependency)
  OBVIOUS
<1>2. lj = [lk EXCEPT !.class = [b \in Classes |-> changed(b)]]
  BY <1>1 DEF Install
<1>3. ASSUME NEW b \in Classes
      PROVE  /\ changed(b) \in ClassCells
             /\ changed(b).msc = lk.class[b].msc /\ changed(b).msm = lk.class[b].msm
             /\ changed(b).thunk = lk.class[b].thunk
             /\ \A j \in lk.valid : j \in Range(lk.class[b].shapeList) => j \in Range(changed(b).shapeList)
             /\ \A j \in lk.valid : j \in Range(lk.class[b].contentsList) => j \in Range(changed(b).contentsList)
             /\ b \in along => IF dependency = "ShapeOnly" THEN k \in Range(changed(b).shapeList)
                               ELSE k \in Range(changed(b).contentsList)
  <2>1. lk.class[b] \in ClassCells
    BY DEF Lookups
  <2>2. lk.class[b].shapeList \in Seq(Cells) /\ lk.class[b].contentsList \in Seq(Cells)
    BY <2>1 DEF ClassCells
  <2>3. PICK s \in Seq(Cells) : s = Attach(lk.class[b].shapeList, k, lk.valid) /\ k \in Range(s)
          /\ \A j \in Range(lk.class[b].shapeList) : j \in lk.valid => j \in Range(s)
    BY <2>2, AttachKeeps
  <2>4. PICK t \in Seq(Cells) : t = Attach(lk.class[b].contentsList, k, lk.valid) /\ k \in Range(t)
          /\ \A j \in Range(lk.class[b].contentsList) : j \in lk.valid => j \in Range(t)
    BY <2>2, AttachKeeps
  <2>5. CASE b \notin along
    BY <2>1, <2>5
  <2>6. CASE b \in along /\ dependency = "ShapeOnly"
    BY <2>1, <2>3, <2>6 DEF ClassCells
  <2>7. CASE b \in along /\ dependency # "ShapeOnly"
    BY <2>1, <2>4, <2>7 DEF ClassCells
  <2>. QED BY <2>5, <2>6, <2>7
<1>. HIDE DEF changed
<1>4. lj \in Lookups /\ lj.valid = lk.valid /\ \A b \in Classes : lj.class[b] = changed(b)
  BY <1>2, <1>3 DEF Lookups
<1>. QED BY <1>1, <1>3, <1>4 DEF Grown

(* A cell just made for a class: its own lists, the other classes' cells   *)
(* and what the lists hold of valid cells.                                 *)
LEMMA CreateMscAttaches ==
  ASSUME NEW lk, LookupOK(lk), NEW c \in Classes, NEW k \in Cells, k \notin Held(lk)
  PROVE  LET lj == CreateMsc(lk, c, k) IN
         /\ LookupOK(lj) /\ lj.valid = lk.valid \cup {k} /\ lj.class[c].msc = k /\ lj.class[c].thunk = None
         /\ \A b \in Classes : lj.class[b].msm = lk.class[b].msm
         /\ \A b \in Classes \ {c} : lj.class[b].msc = lk.class[b].msc /\ lj.class[b].thunk = lk.class[b].thunk
<1>1. /\ lk \in Lookups /\ \A b \in Classes : lk.class[b] \in ClassCells
      /\ \A b \in Classes : lk.class[b].msc # k /\ lk.class[b].msm # k
  BY DEF LookupOK, Lookups, Held
<1>2. PICK owned : owned = [lk EXCEPT !.valid = @ \cup {k}, !.class[c].thunk = None, !.class[c].msc = k]
  OBVIOUS
<1>3. PICK cc \in ClassCells : /\ cc = [lk.class[c] EXCEPT !.thunk = None, !.msc = k]
                               /\ cc.msc = k /\ cc.thunk = None /\ cc.msm = lk.class[c].msm
                               /\ cc.shapeList = lk.class[c].shapeList /\ cc.contentsList = lk.class[c].contentsList
  <2>1. PICK old \in ClassCells : old = lk.class[c]
    BY <1>1
  <2>2. [old EXCEPT !.thunk = None, !.msc = k] \in ClassCells
    BY DEF ClassCells, Thunks
  <2>. QED BY <2>1, <2>2 DEF ClassCells
<1>4. owned = [lk EXCEPT !.valid = lk.valid \cup {k}, !.class = [lk.class EXCEPT ![c] = cc]]
  BY <1>1, <1>2, <1>3 DEF Lookups
<1>5. /\ owned \in Lookups /\ owned.valid = lk.valid \cup {k} /\ owned.class[c] = cc
      /\ \A b \in Classes \ {c} : owned.class[b] = lk.class[b]
  BY <1>1, <1>3, <1>4 DEF Lookups
<1>6. PICK lj : lj = CreateMsc(lk, c, k) /\ lj = Install(owned, k, c, SkipSelf, "ShapeAndContents")
  BY <1>2 DEF CreateMsc
<1>7. Bases(c) = {Mro[c][i] : i \in {j \in DOMAIN Mro[c] : j >= SkipSelf}}
  BY MroOf
<1>8. Grown(owned, lj) /\ \A b \in Bases(c) : k \in Range(lj.class[b].contentsList)
  <2>1. k \in owned.valid /\ SkipSelf \in {SkipSelf, IncludeSelf} /\ Bases(c) \in SUBSET Classes
    BY <1>5, MroClasses
  <2>2. "ShapeAndContents" # "ShapeOnly"
    OBVIOUS
  <2>3. PICK dependency : dependency = "ShapeAndContents"
    OBVIOUS
  <2>4. /\ Grown(owned, Install(owned, k, c, SkipSelf, dependency))
        /\ \A b \in Bases(c) :
             IF dependency = "ShapeOnly"
             THEN k \in Range(Install(owned, k, c, SkipSelf, dependency).class[b].shapeList)
             ELSE k \in Range(Install(owned, k, c, SkipSelf, dependency).class[b].contentsList)
    BY <2>1, <1>5, <1>7, InstallAttaches
  <2>. QED BY <2>2, <2>3, <2>4, <1>6
<1>9. \A b \in Classes : owned.class[b].shapeList = lk.class[b].shapeList /\ owned.class[b].contentsList = lk.class[b].contentsList
                         /\ owned.class[b].msm = lk.class[b].msm
  BY <1>3, <1>5
<1>10. ASSUME NEW b \in Classes
       PROVE  MscAttached(lj, b) /\ MsmAttached(lj, b)
  <2>1. /\ lk.class[b].msc \in lk.valid => \A a \in Bases(b) : lk.class[b].msc \in Range(lk.class[a].contentsList)
        /\ lk.class[b].msm \in lk.valid =>
             /\ \A a \in Bases(b) : lk.class[b].msm \in Range(lk.class[a].shapeList)
             /\ b # TypeClass => \A a \in Range(Mro[TypeClass]) : lk.class[b].msm \in Range(lk.class[a].contentsList)
    BY DEF LookupOK, MscAttached, MsmAttached
  <2>2. /\ lj.class[b].msm = lk.class[b].msm /\ lj.valid = lk.valid \cup {k}
        /\ lk.class[b].msm # k /\ lk.class[b].msc # k
        /\ lj.class[b].msc = IF b = c THEN k ELSE lk.class[b].msc
    <3>1. /\ lj.class[b].msm = owned.class[b].msm /\ lj.class[b].msc = owned.class[b].msc
          /\ lj.valid = owned.valid
      BY <1>8 DEF Grown
    <3>2. owned.class[b].msc = IF b = c THEN k ELSE lk.class[b].msc
      BY <1>3, <1>5
    <3>. QED BY <3>1, <3>2, <1>1, <1>5, <1>9
  <2>3. \A a \in Classes, j \in lk.valid :
          /\ j \in Range(lk.class[a].shapeList) => j \in Range(lj.class[a].shapeList)
          /\ j \in Range(lk.class[a].contentsList) => j \in Range(lj.class[a].contentsList)
    BY <1>5, <1>8, <1>9 DEF Grown
  <2>4. Bases(b) \subseteq Classes /\ Range(Mro[TypeClass]) \subseteq Classes /\ TypeClass \in Classes
    BY MroClasses
  <2>5. MscAttached(lj, b)
    <3>1. CASE b = c
      BY <3>1, <2>2, <1>8 DEF MscAttached
    <3>2. CASE b # c
      BY <3>2, <2>1, <2>2, <2>3, <2>4 DEF MscAttached
    <3>. QED BY <3>1, <3>2
  <2>6. MsmAttached(lj, b)
    BY <2>1, <2>2, <2>3, <2>4 DEF MsmAttached
  <2>. QED BY <2>5, <2>6
<1>11. lj \in Lookups /\ lj.valid = lk.valid \cup {k}
  BY <1>5, <1>8 DEF Grown
<1>12. LookupOK(lj)
  BY <1>10, <1>11 DEF LookupOK
<1>13. /\ \A b \in Classes : lj.class[b].msm = lk.class[b].msm
       /\ lj.class[c].msc = k /\ lj.class[c].thunk = None
       /\ \A b \in Classes \ {c} : lj.class[b].msc = lk.class[b].msc /\ lj.class[b].thunk = lk.class[b].thunk
  BY <1>3, <1>5, <1>8, <1>9 DEF Grown
<1>. QED BY <1>6, <1>11, <1>12, <1>13

\* A new mutation cell is attached, and the other classes keep theirs.
LEMMA CreateMsmAttaches ==
  ASSUME NEW lk, LookupOK(lk), NEW c \in Classes, NEW k \in Cells, k \notin Held(lk)
  PROVE  LET lj == CreateMsm(lk, c, k) IN
         /\ LookupOK(lj) /\ lj.valid = lk.valid \cup {k} /\ lj.class[c].msm = k
         /\ \A b \in Classes : lj.class[b].msc = lk.class[b].msc /\ lj.class[b].thunk = lk.class[b].thunk
         /\ \A b \in Classes \ {c} : lj.class[b].msm = lk.class[b].msm
<1>1. /\ lk \in Lookups /\ \A b \in Classes : lk.class[b] \in ClassCells
      /\ \A b \in Classes : lk.class[b].msc # k /\ lk.class[b].msm # k
  BY DEF LookupOK, Lookups, Held
<1>2. PICK owned : owned = [lk EXCEPT !.valid = @ \cup {k}, !.class[c].msm = k]
  OBVIOUS
<1>3. PICK cc \in ClassCells : /\ cc = [lk.class[c] EXCEPT !.msm = k]
                               /\ cc.msm = k /\ cc.thunk = lk.class[c].thunk /\ cc.msc = lk.class[c].msc
                               /\ cc.shapeList = lk.class[c].shapeList /\ cc.contentsList = lk.class[c].contentsList
  <2>1. PICK old \in ClassCells : old = lk.class[c]
    BY <1>1
  <2>2. [old EXCEPT !.msm = k] \in ClassCells
    BY DEF ClassCells
  <2>. QED BY <2>1, <2>2 DEF ClassCells
<1>4. owned = [lk EXCEPT !.valid = lk.valid \cup {k}, !.class = [lk.class EXCEPT ![c] = cc]]
  BY <1>1, <1>2, <1>3 DEF Lookups
<1>5. /\ owned \in Lookups /\ owned.valid = lk.valid \cup {k} /\ owned.class[c] = cc
      /\ \A b \in Classes \ {c} : owned.class[b] = lk.class[b]
  BY <1>1, <1>3, <1>4 DEF Lookups
<1>6. PICK own : own = Install(owned, k, c, SkipSelf, "ShapeOnly")
  OBVIOUS
<1>7. Grown(owned, own) /\ \A b \in Bases(c) : k \in Range(own.class[b].shapeList)
  <2>1. k \in owned.valid /\ SkipSelf \in {SkipSelf, IncludeSelf} /\ Bases(c) \in SUBSET Classes
    BY <1>5, MroClasses
  <2>2. Bases(c) = {Mro[c][i] : i \in {j \in DOMAIN Mro[c] : j >= SkipSelf}}
    BY MroOf
  <2>. QED BY <2>1, <2>2, <1>5, <1>6, InstallAttaches
<1>8. PICK lj : lj = CreateMsm(lk, c, k)
  OBVIOUS
<1>9. /\ Grown(own, lj)
      /\ c # TypeClass => \A b \in Range(Mro[TypeClass]) : k \in Range(lj.class[b].contentsList)
  <2>1. CASE c = TypeClass
    BY <2>1, <1>2, <1>6, <1>7, <1>8 DEF CreateMsm, Grown
  <2>2. CASE c # TypeClass
    <3>1. lj = Install(own, k, TypeClass, IncludeSelf, "ShapeAndContents")
      BY <2>2, <1>2, <1>6, <1>8 DEF CreateMsm
    <3>2. k \in own.valid /\ own \in Lookups /\ IncludeSelf \in {SkipSelf, IncludeSelf}
          /\ Range(Mro[TypeClass]) \in SUBSET Classes /\ TypeClass \in Classes
      BY <1>5, <1>7, MroClasses DEF Grown
    <3>3. Range(Mro[TypeClass]) = {Mro[TypeClass][i] : i \in {j \in DOMAIN Mro[TypeClass] : j >= IncludeSelf}}
      <4>1. IncludeSelf # SkipSelf
        BY DEF IncludeSelf, SkipSelf
      <4>. QED BY <4>1, <3>2, MroOf
    <3>4. PICK dependency : dependency = "ShapeAndContents" /\ dependency # "ShapeOnly"
      OBVIOUS
    <3>5. /\ Grown(own, Install(own, k, TypeClass, IncludeSelf, dependency))
          /\ \A b \in Range(Mro[TypeClass]) :
               IF dependency = "ShapeOnly"
               THEN k \in Range(Install(own, k, TypeClass, IncludeSelf, dependency).class[b].shapeList)
               ELSE k \in Range(Install(own, k, TypeClass, IncludeSelf, dependency).class[b].contentsList)
      BY <3>2, <3>3, InstallAttaches
    <3>. QED BY <3>1, <3>4, <3>5
  <2>. QED BY <2>1, <2>2
<1>10. \A b \in Classes : /\ owned.class[b].shapeList = lk.class[b].shapeList
                          /\ owned.class[b].contentsList = lk.class[b].contentsList
                          /\ owned.class[b].msc = lk.class[b].msc /\ owned.class[b].thunk = lk.class[b].thunk
  BY <1>3, <1>5
<1>11. lj \in Lookups /\ lj.valid = lk.valid \cup {k}
  BY <1>5, <1>7, <1>9 DEF Grown
<1>12. \A b \in Classes :
         /\ lj.class[b].msc = lk.class[b].msc /\ lj.class[b].thunk = lk.class[b].thunk
         /\ lj.class[b].msm = IF b = c THEN k ELSE lk.class[b].msm
  <2>1. \A b \in Classes : owned.class[b].msm = IF b = c THEN k ELSE lk.class[b].msm
    BY <1>3, <1>5
  <2>2. \A b \in Classes : /\ lj.class[b].msc = owned.class[b].msc /\ lj.class[b].thunk = owned.class[b].thunk
                            /\ lj.class[b].msm = owned.class[b].msm
    BY <1>7, <1>9 DEF Grown
  <2>. QED BY <2>1, <2>2, <1>10
<1>13. /\ \A a \in Classes, j \in lk.valid :
            /\ j \in Range(lk.class[a].shapeList) => j \in Range(lj.class[a].shapeList)
            /\ j \in Range(lk.class[a].contentsList) => j \in Range(lj.class[a].contentsList)
       /\ \A b \in Bases(c) : k \in Range(lj.class[b].shapeList)
  BY <1>5, <1>7, <1>9, <1>10, MroClasses DEF Grown
<1>14. ASSUME NEW b \in Classes
       PROVE  MscAttached(lj, b) /\ MsmAttached(lj, b)
  <2>1. /\ lk.class[b].msc \in lk.valid => \A a \in Bases(b) : lk.class[b].msc \in Range(lk.class[a].contentsList)
        /\ lk.class[b].msm \in lk.valid =>
             /\ \A a \in Bases(b) : lk.class[b].msm \in Range(lk.class[a].shapeList)
             /\ b # TypeClass => \A a \in Range(Mro[TypeClass]) : lk.class[b].msm \in Range(lk.class[a].contentsList)
    BY DEF LookupOK, MscAttached, MsmAttached
  <2>2. MscAttached(lj, b)
    BY <2>1, <1>1, <1>11, <1>12, <1>13, MroClasses DEF MscAttached
  <2>3. MsmAttached(lj, b)
    BY <2>1, <1>1, <1>9, <1>11, <1>12, <1>13, MroClasses DEF MsmAttached
  <2>. QED BY <2>2, <2>3
<1>. QED BY <1>8, <1>11, <1>12, <1>14 DEF LookupOK

(* A change of the contents of a class: every combined cell of a class     *)
(* that has it in its MRO becomes invalid.                                 *)
LEMMA ContentsInvalidated ==
  ASSUME NEW lk, LookupOK(lk), NEW o \in Classes
  PROVE  LET lj == InvalidateContents(lk, o) IN
         /\ LookupOK(lj) /\ lj.valid \subseteq lk.valid
         /\ \A c \in Classes : lj.class[c].msm = lk.class[c].msm
         /\ \A c \in Classes \ {o} : lj.class[c].msc = lk.class[c].msc /\ lj.class[c].thunk = lk.class[c].thunk
         /\ lj.class[o].msc = None /\ lj.class[o].thunk = None
         /\ \A c \in Classes : lk.class[c].msc \in lj.valid => o \notin Range(Mro[c])
<1>1. /\ lk \in Lookups /\ \A b \in Classes : lk.class[b] \in ClassCells
      /\ \A b \in Classes : MscAttached(lk, b) /\ MsmAttached(lk, b)
  BY DEF LookupOK, Lookups
<1>2. PICK lj : lj = InvalidateContents(lk, o)
  OBVIOUS
<1>3. PICK cc \in ClassCells : /\ cc = [lk.class[o] EXCEPT !.thunk = None, !.contentsList = <<>>, !.msc = None]
                               /\ cc.msc = None /\ cc.thunk = None /\ cc.msm = lk.class[o].msm
                               /\ cc.shapeList = lk.class[o].shapeList /\ cc.contentsList = <<>>
  <2>1. PICK old \in ClassCells : old = lk.class[o]
    BY <1>1
  <2>2. [old EXCEPT !.thunk = None, !.contentsList = <<>>, !.msc = None] \in ClassCells
    BY EmptySeq DEF ClassCells, Thunks
  <2>. QED BY <2>1, <2>2 DEF ClassCells
<1>4. PICK gone : gone = Range(lk.class[o].contentsList) \cup {lk.class[o].msc}
  OBVIOUS
<1>5. lj = [lk EXCEPT !.valid = lk.valid \ gone, !.class = [lk.class EXCEPT ![o] = cc]]
  BY <1>1, <1>2, <1>3, <1>4 DEF Lookups, InvalidateContents
<1>6. /\ lj \in Lookups /\ lj.valid = lk.valid \ gone /\ lj.class[o] = cc
      /\ \A b \in Classes \ {o} : lj.class[b] = lk.class[b]
  BY <1>1, <1>3, <1>5 DEF Lookups
<1>7. None \notin lj.valid
  BY <1>6, LookupConstants DEF Lookups
<1>8. ASSUME NEW c \in Classes
      PROVE  /\ MscAttached(lj, c) /\ MsmAttached(lj, c)
             /\ lk.class[c].msc \in lj.valid => o \notin Range(Mro[c])
  <2>1. /\ lk.class[c].msc \in lk.valid => \A a \in Bases(c) : lk.class[c].msc \in Range(lk.class[a].contentsList)
        /\ lk.class[c].msm \in lk.valid =>
             /\ \A a \in Bases(c) : lk.class[c].msm \in Range(lk.class[a].shapeList)
             /\ c # TypeClass => \A a \in Range(Mro[TypeClass]) : lk.class[c].msm \in Range(lk.class[a].contentsList)
    BY <1>1 DEF MscAttached, MsmAttached
  <2>2. lk.class[c].msc \in lj.valid => c # o /\ o \notin Bases(c)
    BY <2>1, <1>4, <1>6
  <2>3. MscAttached(lj, c)
    BY <2>1, <2>2, <1>3, <1>6, <1>7, MroClasses DEF MscAttached
  <2>4. lk.class[c].msm \in lj.valid /\ c # TypeClass => o \notin Range(Mro[TypeClass])
    BY <2>1, <1>4, <1>6
  <2>5. MsmAttached(lj, c)
    BY <2>1, <2>4, <1>3, <1>6, <1>7, MroClasses DEF MsmAttached
  <2>. QED BY <2>2, <2>3, <2>5, MroClasses
<1>. QED BY <1>2, <1>3, <1>6, <1>8 DEF LookupOK

(* A change of the shape of a class: so does every cell of such a class.   *)
LEMMA ShapeInvalidated ==
  ASSUME NEW lk, LookupOK(lk), NEW o \in Classes
  PROVE  LET lj == InvalidateShape(lk, o) IN
         /\ LookupOK(lj) /\ lj.valid \subseteq lk.valid
         /\ \A c \in Classes \ {o} : /\ lj.class[c].msc = lk.class[c].msc /\ lj.class[c].msm = lk.class[c].msm
                                     /\ lj.class[c].thunk = lk.class[c].thunk
         /\ lj.class[o].msc = None /\ lj.class[o].msm = None /\ lj.class[o].thunk = None
         /\ \A c \in Classes : lk.class[c].msc \in lj.valid \/ lk.class[c].msm \in lj.valid =>
                                 o \notin Range(Mro[c])
<1>1. /\ lk \in Lookups /\ \A b \in Classes : lk.class[b] \in ClassCells
      /\ \A b \in Classes : MscAttached(lk, b) /\ MsmAttached(lk, b)
  BY DEF LookupOK, Lookups
<1>2. PICK attached : attached = [lk EXCEPT !.valid = @ \ Range(lk.class[o].shapeList), !.class[o].shapeList = <<>>]
  OBVIOUS
<1>3. PICK cc \in ClassCells : /\ cc = [lk.class[o] EXCEPT !.shapeList = <<>>]
                               /\ cc.msc = lk.class[o].msc /\ cc.thunk = lk.class[o].thunk /\ cc.msm = lk.class[o].msm
                               /\ cc.contentsList = lk.class[o].contentsList /\ cc.shapeList = <<>>
  <2>1. PICK old \in ClassCells : old = lk.class[o]
    BY <1>1
  <2>2. [old EXCEPT !.shapeList = <<>>] \in ClassCells
    BY EmptySeq DEF ClassCells
  <2>. QED BY <2>1, <2>2 DEF ClassCells
<1>4. attached = [lk EXCEPT !.valid = lk.valid \ Range(lk.class[o].shapeList), !.class = [lk.class EXCEPT ![o] = cc]]
  BY <1>1, <1>2, <1>3 DEF Lookups
<1>5. /\ attached \in Lookups /\ attached.valid = lk.valid \ Range(lk.class[o].shapeList)
      /\ attached.class[o] = cc /\ \A b \in Classes \ {o} : attached.class[b] = lk.class[b]
  BY <1>1, <1>3, <1>4 DEF Lookups
<1>6. PICK contents : contents = InvalidateContents(attached, o)
  OBVIOUS
<1>7. /\ LookupOK(attached)
      /\ \A c \in Classes : lk.class[c].msm \in attached.valid => o \notin Bases(c)
  <2>1. ASSUME NEW c \in Classes
        PROVE  /\ MscAttached(attached, c) /\ MsmAttached(attached, c)
               /\ lk.class[c].msm \in attached.valid => o \notin Bases(c)
    <3>1. /\ lk.class[c].msc \in lk.valid => \A a \in Bases(c) : lk.class[c].msc \in Range(lk.class[a].contentsList)
          /\ lk.class[c].msm \in lk.valid =>
               /\ \A a \in Bases(c) : lk.class[c].msm \in Range(lk.class[a].shapeList)
               /\ c # TypeClass => \A a \in Range(Mro[TypeClass]) : lk.class[c].msm \in Range(lk.class[a].contentsList)
      BY <1>1 DEF MscAttached, MsmAttached
    <3>2. \A a \in Classes : attached.class[a].contentsList = lk.class[a].contentsList
                             /\ attached.class[a].msc = lk.class[a].msc /\ attached.class[a].msm = lk.class[a].msm
      BY <1>3, <1>5
    <3>3. lk.class[c].msm \in attached.valid => o \notin Bases(c)
      BY <3>1, <1>5
    <3>4. MscAttached(attached, c)
      BY <3>1, <3>2, <1>5, MroClasses DEF MscAttached
    <3>5. MsmAttached(attached, c)
      BY <3>1, <3>2, <3>3, <1>5, MroClasses DEF MsmAttached
    <3>. QED BY <3>3, <3>4, <3>5
  <2>. QED BY <2>1, <1>5 DEF LookupOK
<1>8. /\ LookupOK(contents) /\ contents.valid \subseteq attached.valid
      /\ \A c \in Classes : contents.class[c].msm = attached.class[c].msm
      /\ \A c \in Classes \ {o} : /\ contents.class[c].msc = attached.class[c].msc
                                  /\ contents.class[c].thunk = attached.class[c].thunk
      /\ contents.class[o].msc = None /\ contents.class[o].thunk = None
      /\ \A c \in Classes : attached.class[c].msc \in contents.valid => o \notin Range(Mro[c])
  BY <1>6, <1>7, ContentsInvalidated
<1>9. PICK lj : lj = InvalidateShape(lk, o) /\ lj = [contents EXCEPT !.valid = @ \ {lk.class[o].msm}, !.class[o].msm = None]
  BY <1>2, <1>6 DEF InvalidateShape
<1>10. PICK dd \in ClassCells : /\ dd = [contents.class[o] EXCEPT !.msm = None]
                                /\ dd.msc = None /\ dd.thunk = None /\ dd.msm = None
                                /\ dd.shapeList = contents.class[o].shapeList
                                /\ dd.contentsList = contents.class[o].contentsList
  <2>1. contents.class[o] \in ClassCells
    BY <1>8 DEF LookupOK, Lookups
  <2>2. PICK old \in ClassCells : old = contents.class[o]
    BY <2>1
  <2>3. [old EXCEPT !.msm = None] \in ClassCells
    BY DEF ClassCells
  <2>. QED BY <1>8, <2>2, <2>3 DEF ClassCells
<1>11. contents \in Lookups
  BY <1>8 DEF LookupOK
<1>12. lj = [contents EXCEPT !.valid = contents.valid \ {lk.class[o].msm}, !.class = [contents.class EXCEPT ![o] = dd]]
  BY <1>9, <1>10, <1>11 DEF Lookups
<1>13. /\ lj \in Lookups /\ lj.valid = contents.valid \ {lk.class[o].msm} /\ lj.class[o] = dd
       /\ \A b \in Classes \ {o} : lj.class[b] = contents.class[b]
  BY <1>10, <1>11, <1>12 DEF Lookups
<1>14. \A a \in Classes : attached.class[a].msc = lk.class[a].msc /\ attached.class[a].msm = lk.class[a].msm
                          /\ attached.class[a].thunk = lk.class[a].thunk
  BY <1>3, <1>5
<1>15. None \notin lj.valid
  BY <1>13, LookupConstants DEF Lookups
<1>16. ASSUME NEW c \in Classes
       PROVE  /\ MscAttached(lj, c) /\ MsmAttached(lj, c)
              /\ lk.class[c].msc \in lj.valid \/ lk.class[c].msm \in lj.valid => o \notin Range(Mro[c])
  <2>1. MscAttached(contents, c) /\ MsmAttached(contents, c)
    BY <1>8 DEF LookupOK
  <2>2. \A a \in Classes : /\ lj.class[a].shapeList = contents.class[a].shapeList
                           /\ lj.class[a].contentsList = contents.class[a].contentsList
                           /\ lj.class[a].msc = contents.class[a].msc
                           /\ lj.class[a].msm = IF a = o THEN None ELSE contents.class[a].msm
    BY <1>8, <1>10, <1>13
  <2>3. MscAttached(lj, c)
    BY <2>1, <2>2, <1>13, MroClasses DEF MscAttached
  <2>4. MsmAttached(lj, c)
    BY <2>1, <2>2, <1>13, <1>15, MroClasses DEF MsmAttached
  <2>5. lk.class[c].msc \in lj.valid => o \notin Range(Mro[c])
    BY <1>8, <1>13, <1>14
  <2>6. lk.class[c].msm \in lj.valid => c # o /\ o \notin Bases(c)
    BY <1>7, <1>8, <1>13
  <2>. QED BY <2>3, <2>4, <2>5, <2>6, MroClasses
<1>17. \A c \in Classes \ {o} : lj.class[c].msm = lk.class[c].msm /\ lj.class[c].msc = lk.class[c].msc
                                /\ lj.class[c].thunk = lk.class[c].thunk
  BY <1>8, <1>13, <1>14
<1>18. lj.valid \subseteq lk.valid
  BY <1>5, <1>8, <1>13
<1>19. LookupOK(lj)
  BY <1>13, <1>16 DEF LookupOK
<1>20. lj.class[o].msc = None /\ lj.class[o].msm = None /\ lj.class[o].thunk = None
  BY <1>10, <1>13
<1>21. lj = InvalidateShape(lk, o)
  BY <1>9
<1>. QED BY <1>16, <1>17, <1>18, <1>19, <1>20, <1>21
-----------------------------------------------------------------------------
(* Steps.  Cells may be made first, with the objects unchanged; then       *)
(* objects may change, and cells become invalid.                           *)

Obtained(lk, lj) ==
  /\ LookupOK(lj) /\ lk.valid \subseteq lj.valid
  /\ \A k \in lj.valid : k \in lk.valid \/ k \notin Cached
  /\ \A c \in Classes :
       /\ lk.class[c].msc \in lk.valid => lj.class[c].msc = lk.class[c].msc
       /\ lk.class[c].msm \in lk.valid => lj.class[c].msm = lk.class[c].msm

\* A cell that stays valid stays with its class, and what it guards is as
\* it was.
Follows(lk, lj) ==
  /\ LookupOK(lj)
  /\ \A k \in lj.valid : k \in lk.valid \/ k \notin Cached
  /\ \A c \in Classes :
       /\ lk.class[c].msc \in lk.valid /\ lk.class[c].msc \in lj.valid =>
            /\ lj.class[c].msc = lk.class[c].msc
            /\ \A b \in Range(Mro[c]) : shape'[b] = shape[b] /\ storage'[b] = storage[b]
       /\ lk.class[c].msm \in lk.valid /\ lk.class[c].msm \in lj.valid =>
            /\ lj.class[c].msm = lk.class[c].msm
            /\ \A b \in Range(Mro[c]) : shape'[b] = shape[b]

\* A thunk that can be handed out is the one that could be before.
ThunkFrom(lk, lj, c) ==
  lj.class[c].thunk # None /\ lj.class[c].msc \in lj.valid =>
    /\ lj.class[c].thunk = lk.class[c].thunk /\ lj.class[c].msc = lk.class[c].msc
    /\ lk.class[c].msc \in lk.valid

\* What no step changes.
WorldStep ==
  /\ ShapesOK /\ ShapesOK'
  /\ \A c \in Frozen : shape'[c] = shape[c] /\ storage'[c] = storage[c]
  /\ \A i \in Instances : ClassOf(i) \in Frozen => shape'[i].cls = shape[i].cls

\* Getting a cell, or creating it, loses nothing that is valid.
LEMMA Obtains ==
  ASSUME NEW lk, LookupOK(lk), NEW c \in Classes, NEW kind \in {"msc", "msm"}, NEW k \in NewCell(lk, c, kind)
  PROVE  LET lj == GetOrCreate(lk, c, kind, k) IN
         /\ Obtained(lk, lj) /\ lj.class[c][kind] \in lj.valid
         /\ \A b \in Classes : ThunkFrom(lk, lj, b)
<1>1. lk \in Lookups /\ None \notin lk.valid /\ None \notin Cells
  BY LookupConstants DEF LookupOK, Lookups
<1>2. CASE lk.class[c][kind] \in lk.valid
  <2>1. GetOrCreate(lk, c, kind, k) = lk
    BY <1>2 DEF NewCell, GetOrCreate
  <2>. QED BY <2>1, <1>2 DEF Obtained, ThunkFrom
<1>3. CASE lk.class[c][kind] \notin lk.valid
  <2>1. k \in Cells /\ k \notin Held(lk) /\ k \notin Cached /\ k # None
    BY <1>1, <1>3 DEF NewCell, Free
  <2>2. \A b \in Classes : lk.class[b].msc # k /\ lk.class[b].msm # k
    BY <2>1 DEF Held
  <2>3. CASE kind = "msc"
    <3>1. PICK lj : lj = GetOrCreate(lk, c, kind, k) /\ lj = CreateMsc(lk, c, k)
      BY <2>1, <2>3 DEF GetOrCreate
    <3>2. /\ LookupOK(lj) /\ lj.valid = lk.valid \cup {k} /\ lj.class[c].msc = k /\ lj.class[c].thunk = None
          /\ \A b \in Classes : lj.class[b].msm = lk.class[b].msm
          /\ \A b \in Classes \ {c} : lj.class[b].msc = lk.class[b].msc /\ lj.class[b].thunk = lk.class[b].thunk
      BY <2>1, <3>1, CreateMscAttaches
    <3>3. Obtained(lk, lj)
      BY <2>1, <2>3, <3>2, <1>3 DEF Obtained
    <3>4. \A b \in Classes : ThunkFrom(lk, lj, b)
      BY <2>1, <2>2, <3>2 DEF ThunkFrom
    <3>. QED BY <2>3, <3>1, <3>2, <3>3, <3>4
  <2>4. CASE kind = "msm"
    <3>1. PICK lj : lj = GetOrCreate(lk, c, kind, k) /\ lj = CreateMsm(lk, c, k)
      BY <2>1, <2>4 DEF GetOrCreate
    <3>2. /\ LookupOK(lj) /\ lj.valid = lk.valid \cup {k} /\ lj.class[c].msm = k
          /\ \A b \in Classes : lj.class[b].msc = lk.class[b].msc /\ lj.class[b].thunk = lk.class[b].thunk
          /\ \A b \in Classes \ {c} : lj.class[b].msm = lk.class[b].msm
      BY <2>1, <3>1, CreateMsmAttaches
    <3>3. Obtained(lk, lj)
      BY <2>1, <2>4, <3>2, <1>3 DEF Obtained
    <3>4. \A b \in Classes : ThunkFrom(lk, lj, b)
      BY <2>1, <2>2, <3>2 DEF ThunkFrom
    <3>. QED BY <2>4, <3>1, <3>2, <3>3, <3>4
  <2>. QED BY <2>3, <2>4
<1>. QED BY <1>2, <1>3

\* The two halves of a step compose.
LEMMA ObtainedFollows ==
  ASSUME NEW lk, NEW lm, NEW lj, Obtained(lk, lm), Follows(lm, lj)
  PROVE  /\ Follows(lk, lj)
         /\ \A c \in Classes : ThunkFrom(lk, lm, c) /\ ThunkFrom(lm, lj, c) => ThunkFrom(lk, lj, c)
<1>1. Follows(lk, lj)
  BY DEF Follows, Obtained
<1>. QED BY <1>1 DEF ThunkFrom

\* A step may consist of the first half only.
LEMMA ObtainedAlone ==
  ASSUME NEW lk, NEW lj, Obtained(lk, lj), UNCHANGED <<shape, storage>>
  PROVE  Follows(lk, lj)
BY DEF Follows, Obtained

(* An object gets another shape and other slots.                           *)
LEMMA ShapeFollows ==
  ASSUME NEW lk, LookupOK(lk), NEW o \in Objects \ Frozen, NEW sh, ShapesOK,
         SetShape(o, sh, lk), IsShape(sh), sh.cls \in Classes,
         ClassOf(o) \in Frozen => sh.cls = ClassOf(o),
         o \in Classes => sh.root = shape[o].root,
         o \in Instances => sh.root[1] # "class",
         DOMAIN storage' = Objects, \A b \in Objects \ {o} : storage'[b] = storage[b]
  PROVE  Follows(lk, lookup') /\ WorldStep /\ \A c \in Classes : ThunkFrom(lk, lookup', c)
<1>1. /\ shape' = [shape EXCEPT ![o] = sh] /\ DOMAIN shape = Objects
      /\ Instances \cap Classes = {} /\ Frozen \subseteq Classes /\ TypeClass \in Frozen
      /\ \A c \in Classes : Range(Mro[c]) \subseteq Classes
  BY LookupConstants, MroClasses DEF SetShape, ShapesOK
<1>2. /\ shape'[o] = sh /\ DOMAIN shape' = Objects
      /\ \A b \in Objects : b # o => shape'[b] = shape[b]
      /\ \A b \in Objects : b # o => storage'[b] = storage[b]
  BY <1>1
<1>3. WorldStep
  <2>1. \A b \in Objects : IsShape(shape'[b])
    BY <1>2 DEF ShapesOK
  <2>2. \A c \in Classes : shape'[c].cls = TypeClass /\ shape'[c].root = <<"class", c>>
    BY <1>1, <1>2 DEF ShapesOK, ClassOf
  <2>3. \A i \in Instances : shape'[i].cls \in Classes /\ shape'[i].root[1] # "class"
    BY <1>1, <1>2 DEF ShapesOK, Objects
  <2>4. ShapesOK'
    BY <2>1, <2>2, <2>3, <1>2 DEF ShapesOK, IsShape
  <2>5. \A c \in Frozen : shape'[c] = shape[c] /\ storage'[c] = storage[c]
    BY <1>1, <1>2 DEF Objects
  <2>6. \A i \in Instances : ClassOf(i) \in Frozen => shape'[i].cls = shape[i].cls
    BY <1>2 DEF Objects, ClassOf
  <2>. QED BY <2>4, <2>5, <2>6 DEF WorldStep
<1>4. CASE o \in Classes
  <2>. DEFINE lj == InvalidateShape(lk, o)
  <2>2. /\ LookupOK(lj) /\ lj.valid \subseteq lk.valid
        /\ \A c \in Classes \ {o} : /\ lj.class[c].msc = lk.class[c].msc /\ lj.class[c].msm = lk.class[c].msm
                                    /\ lj.class[c].thunk = lk.class[c].thunk
        /\ lj.class[o].msc = None /\ lj.class[o].msm = None /\ lj.class[o].thunk = None
        /\ \A c \in Classes : lk.class[c].msc \in lj.valid \/ lk.class[c].msm \in lj.valid =>
                                o \notin Range(Mro[c])
    BY <1>4, ShapeInvalidated
  <2>7. lookup' = lj
    BY <1>4 DEF SetShape, IsClassObject
  <2>. HIDE DEF lj
  <2>3. \A c \in Classes : o \in Range(Mro[c]) \/ \A b \in Range(Mro[c]) : shape'[b] = shape[b] /\ storage'[b] = storage[b]
    BY <1>1, <1>2 DEF Objects
  <2>4. o \in Range(Mro[o])
    BY <1>4, MroClasses
  <2>5. Follows(lk, lj)
    BY <2>2, <2>3, <2>4 DEF Follows
  <2>6. \A c \in Classes : ThunkFrom(lk, lj, c)
    BY <2>2 DEF ThunkFrom
  <2>. QED BY <1>3, <2>5, <2>6, <2>7
<1>5. CASE o \in Instances
  <2>1. lookup' = lk
    BY <1>1, <1>5 DEF SetShape, IsClassObject
  <2>2. \A c \in Classes : \A b \in Range(Mro[c]) : shape'[b] = shape[b] /\ storage'[b] = storage[b]
    BY <1>1, <1>2, <1>5 DEF Objects
  <2>. QED BY <1>3, <2>1, <2>2 DEF Follows, ThunkFrom
<1>. QED BY <1>4, <1>5 DEF Objects

(* An assignment to an existing slot.                                      *)
LEMMA StoreFollows ==
  ASSUME NEW lk, LookupOK(lk), NEW o \in Objects \ Frozen, NEW plan, NEW v, ShapesOK,
         StoreExisting(o, plan, v, lk)
  PROVE  Follows(lk, lookup') /\ WorldStep /\ \A c \in Classes : ThunkFrom(lk, lookup', c)
<1>1. /\ shape' = shape /\ DOMAIN storage = Objects /\ DOMAIN storage' = Objects
      /\ \A b \in Objects : b # o => storage'[b] = storage[b]
      /\ Instances \cap Classes = {} /\ Frozen \subseteq Classes
      /\ \A c \in Classes : Range(Mro[c]) \subseteq Classes
  BY LookupConstants, MroClasses DEF StoreExisting, ShapesOK
<1>2. WorldStep
  <2>1. ShapesOK'
    BY <1>1 DEF ShapesOK
  <2>. QED BY <1>1, <2>1 DEF WorldStep, Objects
<1>3. CASE o \in Classes
  <2>. DEFINE lj == InvalidateContents(lk, o)
  <2>1. /\ LookupOK(lj) /\ lj.valid \subseteq lk.valid
        /\ \A c \in Classes : lj.class[c].msm = lk.class[c].msm
        /\ \A c \in Classes \ {o} : lj.class[c].msc = lk.class[c].msc /\ lj.class[c].thunk = lk.class[c].thunk
        /\ lj.class[o].msc = None /\ lj.class[o].thunk = None
        /\ \A c \in Classes : lk.class[c].msc \in lj.valid => o \notin Range(Mro[c])
    BY <1>3, ContentsInvalidated
  <2>2. lookup' = lj
    BY <1>3 DEF StoreExisting, IsClassObject
  <2>. HIDE DEF lj
  <2>3. \A c \in Classes : o \in Range(Mro[c]) \/ \A b \in Range(Mro[c]) : storage'[b] = storage[b]
    BY <1>1 DEF Objects
  <2>4. o \in Range(Mro[o])
    BY <1>3, MroClasses
  <2>5. Follows(lk, lj)
    BY <2>1, <2>3, <2>4, <1>1 DEF Follows
  <2>6. \A c \in Classes : ThunkFrom(lk, lj, c)
    BY <2>1 DEF ThunkFrom
  <2>. QED BY <1>2, <2>2, <2>5, <2>6
<1>4. CASE o \in Instances
  <2>1. lookup' = lk
    BY <1>1, <1>4 DEF StoreExisting, IsClassObject
  <2>2. \A c \in Classes : \A b \in Range(Mro[c]) : shape'[b] = shape[b] /\ storage'[b] = storage[b]
    BY <1>1, <1>4 DEF Objects
  <2>. QED BY <1>2, <2>1, <2>2 DEF Follows, ThunkFrom
<1>. QED BY <1>3, <1>4 DEF Objects

(* store_attr_from_plan and the deletion of an own property.               *)
LEMMA PerformFollows ==
  ASSUME NEW lk, LookupOK(lk), NEW o \in Objects \ Frozen, NEW plan, NEW v, ShapesOK,
         PlanOK(plan, shape[o]), Perform(o, plan, v, lk)
  PROVE  Follows(lk, lookup') /\ WorldStep /\ \A c \in Classes : ThunkFrom(lk, lookup', c)
<1>1. CASE plan.kind = "StoreExisting"
  <2>1. StoreExisting(o, plan, v, lk)
    BY <1>1 DEF Perform
  <2>. QED BY <2>1, StoreFollows
<1>2. CASE plan.kind # "StoreExisting"
  <2>1. /\ SetShape(o, plan.next, lk) /\ IsShape(plan.next)
        /\ plan.next.cls = shape[o].cls /\ plan.next.root = shape[o].root
        /\ DOMAIN storage' = DOMAIN storage /\ \A b \in DOMAIN storage : b # o => storage'[b] = storage[b]
    BY <1>2 DEF Perform, MoveShape, PlanOK
  <2>2. plan.next.cls \in Classes /\ (o \in Instances => plan.next.root[1] # "class")
    BY <2>1, LookupConstants DEF ShapesOK, Objects
  <2>3. DOMAIN storage' = Objects /\ \A b \in Objects \ {o} : storage'[b] = storage[b]
    BY <2>1 DEF ShapesOK
  <2>4. ClassOf(o) \in Frozen => plan.next.cls = ClassOf(o)
    BY <2>1 DEF ClassOf
  <2>. HIDE DEF ShapesOK
  <2>. QED BY <2>1, <2>2, <2>3, <2>4, ShapeFollows
<1>. QED BY <1>1, <1>2

-----------------------------------------------------------------------------
(* Searches of the class chain.                                            *)

\* The owner of a name is a class of the MRO that has it.
LEMMA ChainOwnerIn ==
  ASSUME NEW c \in Classes, NEW n
  PROVE  ChainOwner(c, n) # None =>
           /\ ChainOwner(c, n) \in Range(Mro[c]) /\ ChainOwner(c, n) \in Classes
           /\ Present(ChainOwner(c, n), n)
<1>. DEFINE hits == {i \in DOMAIN Mro[c] : Present(Mro[c][i], n)}
<1>1. hits \in SUBSET Nat
  BY MroOf
<1>2. CASE hits = {}
  BY <1>2 DEF ChainOwner
<1>3. CASE hits # {}
  <2>1. PICK m : m = CHOOSE i \in hits : \A j \in hits : i <= j
    OBVIOUS
  <2>2. m \in hits
    BY <1>1, <1>3, <2>1, LeastElement
  <2>3. ChainOwner(c, n) = Mro[c][m]
    BY <1>3, <2>1 DEF ChainOwner
  <2>4. m \in DOMAIN Mro[c] /\ Present(Mro[c][m], n)
    BY <2>2
  <2>. QED BY <2>3, <2>4, MroClasses DEF Range
<1>. QED BY <1>2, <1>3

\* As long as no shape of the chain changes, the owner stays.
LEMMA ChainKept ==
  ASSUME NEW c \in Classes, NEW n, \A b \in Range(Mro[c]) : shape'[b] = shape[b]
  PROVE  ChainOwner(c, n)' = ChainOwner(c, n)
<1>1. \A i \in DOMAIN Mro[c] : shape'[Mro[c][i]] = shape[Mro[c][i]]
  BY DEF Range
<1>2. {i \in DOMAIN Mro[c] : n \in DOMAIN shape'[Mro[c][i]].slots} =
        {i \in DOMAIN Mro[c] : n \in DOMAIN shape[Mro[c][i]].slots}
  BY <1>1
<1>. DEFINE First(h) == IF h = {} THEN None ELSE Mro[c][CHOOSE i \in h : \A j \in h : i <= j]
<1>3. ChainOwner(c, n) = First({i \in DOMAIN Mro[c] : n \in DOMAIN shape[Mro[c][i]].slots})
  BY DEF ChainOwner, Present
<1>4. ChainOwner(c, n)' = First({i \in DOMAIN Mro[c] : n \in DOMAIN shape'[Mro[c][i]].slots})
  BY DEF ChainOwner, Present
<1>. HIDE DEF First
<1>. QED BY <1>2, <1>3, <1>4

\* As long as no class of the chain changes, the value stays.
LEMMA ChainValueKept ==
  ASSUME NEW c \in Classes, NEW n,
         \A b \in Range(Mro[c]) : shape'[b] = shape[b] /\ storage'[b] = storage[b]
  PROVE  /\ ChainOwner(c, n)' = ChainOwner(c, n)
         /\ ChainOwner(c, n) # None => ChainValue(c, n)' = ChainValue(c, n)
BY ChainKept, ChainOwnerIn DEF ChainValue

(* What is settled stays so: frozen classes and the classes of their       *)
(* instances do not change.                                                *)
LEMMA SettledKept ==
  ASSUME WorldStep, NEW val, NEW n, Settled(val, n)
  PROVE  Settled(val, n)'
<1> SUFFICES ASSUME val \in Instances
             PROVE  ClassOf(val)' \in Frozen /\ ~HasProtocol(val, n)'
  BY DEF Settled
<1>1. ClassOf(val) \in Frozen /\ ~HasProtocol(val, n)
  BY DEF Settled
<1>2. ClassOf(val)' = ClassOf(val)
  BY <1>1 DEF WorldStep, ClassOf
<1>3. PICK c \in Frozen : c = ClassOf(val) /\ c = ClassOf(val)'
  BY <1>1, <1>2
<1>4. c \in Classes /\ \A b \in Range(Mro[c]) : shape'[b] = shape[b]
  BY LookupConstants DEF WorldStep
<1>5. ChainOwner(c, n)' = ChainOwner(c, n)
  BY <1>4, ChainKept
<1>6. ChainOwner(c, n) = None
  BY <1>1, <1>3 DEF HasProtocol
<1>7. ~HasProtocol(val, n)'
  BY <1>3, <1>5, <1>6 DEF HasProtocol
<1>. QED BY <1>3, <1>7

\* A name that no descriptor claims stays so while its chain is unchanged.
LEMMA NothingWinsKept ==
  ASSUME WorldStep, NEW c \in Classes, NEW n, NothingWins(c, n),
         \A b \in Range(Mro[c]) : shape'[b] = shape[b] /\ storage'[b] = storage[b]
  PROVE  NothingWins(c, n)'
<1>1. /\ ChainOwner(c, n)' = ChainOwner(c, n)
      /\ ChainOwner(c, n) # None => ChainValue(c, n)' = ChainValue(c, n)
  BY ChainValueKept
<1>2. CASE ChainOwner(c, n) = None
  BY <1>1, <1>2 DEF NothingWins
<1>3. CASE ChainOwner(c, n) # None
  <2>1. PICK val : val = ChainValue(c, n) /\ val = ChainValue(c, n)'
    BY <1>1, <1>3
  <2>2. Settled(val, Get)
    BY <1>3, <2>1 DEF NothingWins
  <2>3. Settled(val, Get)'
    BY <2>2, SettledKept
  <2>. QED BY <2>1, <2>3 DEF NothingWins
<1>. QED BY <1>2, <1>3

\* A plan goes on selecting its slot while the shapes of the chain stay.
LEMMA SelectsKept ==
  ASSUME NEW c \in Classes, NEW n, NEW plan, SelectsFrom(c, n, plan),
         \A b \in Range(Mro[c]) : shape'[b] = shape[b]
  PROVE  SelectsFrom(c, n, plan)'
BY ChainKept, ChainOwnerIn DEF SelectsFrom

-----------------------------------------------------------------------------
(* Entries that a step leaves alone, or that were filled just before it.   *)

\* A read cache with a valid cell stays right over a step.
LEMMA ReadKept ==
  ASSUME WorldStep, Follows(lookup, lookup'), NEW e, NEW n, ReadOK(e, n), e.cell \in Cached
  PROVE  ReadOK(e, n)'
<1> SUFFICES ASSUME e.cell \in lookup'.valid PROVE ReadOK(e, n)'
  BY DEF ReadOK
<1>1. e.cell \in lookup.valid
  BY DEF Follows
<1>2. \A c \in Classes :
        /\ e.cell = lookup.class[c].msc =>
             /\ lookup'.class[c].msc = e.cell
             /\ \A b \in Range(Mro[c]) : shape'[b] = shape[b] /\ storage'[b] = storage[b]
        /\ e.cell = lookup.class[c].msm =>
             /\ lookup'.class[c].msm = e.cell
             /\ \A b \in Range(Mro[c]) : shape'[b] = shape[b]
  BY <1>1 DEF Follows
<1>3. ASSUME ClassReadOK(e, n)
      PROVE  ClassReadOK(e, n)'
  <2>1. PICK c \in Classes :
          /\ e.shape.root = <<"class", c>> /\ e.cell = lookup.class[c].msm
          /\ \/ SelectsFrom(c, n, e.plan)
             \/ c # TypeClass /\ ChainOwner(c, n) = None /\ SelectsFrom(TypeClass, n, e.plan)
    BY <1>3 DEF ClassReadOK
  <2>2. lookup'.class[c].msm = e.cell /\ \A b \in Range(Mro[c]) : shape'[b] = shape[b]
    BY <1>2, <2>1
  <2>3. ChainOwner(c, n)' = ChainOwner(c, n)
    BY <2>2, ChainKept
  <2>4. PICK plan : plan = e.plan
    OBVIOUS
  <2>5. SelectsFrom(c, n, plan) => SelectsFrom(c, n, plan)'
    BY <2>2, SelectsKept
  <2>6. TypeClass \in Classes /\ \A b \in Range(Mro[TypeClass]) : shape'[b] = shape[b]
    BY LookupConstants DEF WorldStep
  <2>7. SelectsFrom(TypeClass, n, plan) => SelectsFrom(TypeClass, n, plan)'
    BY <2>6, SelectsKept
  <2>8. /\ e.cell = lookup'.class[c].msm
        /\ \/ SelectsFrom(c, n, e.plan)'
           \/ c # TypeClass /\ ChainOwner(c, n)' = None /\ SelectsFrom(TypeClass, n, e.plan)'
    BY <2>1, <2>2, <2>3, <2>4, <2>5, <2>7
  <2>. QED BY <2>1, <2>8 DEF ClassReadOK
<1>4. ASSUME e.shape.cls \in Classes, OwnReadOK(e, n)
      PROVE  OwnReadOK(e, n)'
  <2>1. PICK c \in Classes : c = e.shape.cls
    BY <1>4
  <2>2. e.cell = lookup.class[c].msc /\ NothingWins(c, n)
    BY <1>4, <2>1 DEF OwnReadOK
  <2>3. lookup'.class[c].msc = e.cell /\ \A b \in Range(Mro[c]) : shape'[b] = shape[b] /\ storage'[b] = storage[b]
    BY <1>2, <2>2
  <2>4. NothingWins(c, n)'
    BY <2>2, <2>3, NothingWinsKept
  <2>. QED BY <1>4, <2>1, <2>3, <2>4 DEF OwnReadOK
<1>5. ASSUME e.shape.cls \in Classes, ChainReadOK(e, n)
      PROVE  ChainReadOK(e, n)'
  <2>1. PICK c \in Classes : c = e.shape.cls
    BY <1>5
  <2>2. PICK plan : plan = e.plan
    OBVIOUS
  <2>3. e.cell = lookup.class[c].msm /\ SelectsFrom(c, n, plan)
    BY <1>5, <2>1, <2>2 DEF ChainReadOK
  <2>4. lookup'.class[c].msm = e.cell /\ \A b \in Range(Mro[c]) : shape'[b] = shape[b]
    BY <1>2, <2>3
  <2>5. SelectsFrom(c, n, plan)'
    BY <2>3, <2>4, SelectsKept
  <2>. QED BY <1>5, <2>1, <2>2, <2>4, <2>5 DEF ChainReadOK
<1>. QED BY <1>1, <1>3, <1>4, <1>5 DEF ReadOK

\* A mutation cache with a valid cell stays right over a step.
LEMMA MutationKept ==
  ASSUME NEW lk, NEW lj, WorldStep, Follows(lk, lj), NEW e, NEW s, MutationOK(lk, e, s),
         e.cell \in Cached \/ e.cell \in lk.valid
  PROVE  MutationOK(lj, e, s)'
<1> SUFFICES ASSUME e.cell \in lj.valid PROVE MutationOK(lj, e, s)'
  BY DEF MutationOK
<1>1. e.cell \in lk.valid
  BY DEF Follows
<1>2. /\ e.shape.cls \in Classes /\ e.cell = lk.class[e.shape.cls].msc
      /\ PlanOK(e.plan, e.shape)
      /\ e.plan.kind # "AddOwnProperty" => PlanStands(s, e.shape, e.plan)
  BY <1>1 DEF MutationOK
<1>3. PICK c \in Classes : c = e.shape.cls
  BY <1>2
<1>4. PICK n : n = SiteName[s]
  OBVIOUS
<1>5. lj.class[c].msc = e.cell /\ \A b \in Range(Mro[c]) : shape'[b] = shape[b] /\ storage'[b] = storage[b]
  BY <1>1, <1>2, <1>3 DEF Follows
<1>6. /\ ChainOwner(c, n)' = ChainOwner(c, n)
      /\ ChainOwner(c, n) # None => ChainValue(c, n)' = ChainValue(c, n)
  BY <1>5, ChainValueKept
<1>7. ASSUME PlanStands(s, e.shape, e.plan)
      PROVE  PlanStands(s, e.shape, e.plan)'
  <2>1. NothingWins(c, n)'
    BY <1>3, <1>4, <1>5, <1>7, NothingWinsKept DEF PlanStands
  <2>2. ASSUME ChainOwner(c, n)' # None
        PROVE  Settled(ChainValue(c, n), Set)'
    <3>1. PICK val : val = ChainValue(c, n) /\ val = ChainValue(c, n)'
      BY <1>6, <2>2
    <3>2. Settled(val, Set)
      BY <1>3, <1>4, <1>6, <1>7, <2>2, <3>1 DEF PlanStands
    <3>3. Settled(val, Set)'
      BY <3>2, SettledKept
    <3>. QED BY <3>1, <3>3
  <2>. QED BY <1>3, <1>4, <1>7, <2>1, <2>2 DEF PlanStands
<1>. QED BY <1>2, <1>3, <1>5, <1>7 DEF MutationOK

-----------------------------------------------------------------------------
(* What a class search found, and what makes it cacheable.                 *)

\* What the classification of a read says.
LEMMA Classified ==
  ASSUME NEW c \in Classes, NEW n, NEW path
  PROVE  /\ ChainOwner(c, n) = None => ClassifiedRead(c, n, path) = NotFound
         /\ ChainOwner(c, n) # None =>
              ClassifiedRead(c, n, path) =
                [found |-> TRUE, owner |-> ChainOwner(c, n),
                 slot |-> shape[ChainOwner(c, n)].slots[n], value |-> ChainValue(c, n),
                 kind |-> PlanKind(path, ChainValue(c, n)), cell |-> "none"]
BY DEF ClassifiedRead, ChainValue

\* A read that no blocker stops is not decided by a descriptor later.
LEMMA UnblockedSettled ==
  ASSUME NEW c \in Classes, NEW n, NEW path, ~Blocked(ClassifiedRead(c, n, path))
  PROVE  NothingWins(c, n)
<1> SUFFICES ASSUME ChainOwner(c, n) # None, ChainValue(c, n) \in Instances
             PROVE  ClassOf(ChainValue(c, n)) \in Frozen /\ ~HasProtocol(ChainValue(c, n), Get)
  BY DEF NothingWins, Settled
<1>1. PICK d : d = ClassifiedRead(c, n, path) /\ d.found /\ d.value = ChainValue(c, n)
                /\ d.kind = PlanKind(path, ChainValue(c, n))
  BY Classified
<1>2. Cacheable(d) /\ ClassOf(d.value) \in Frozen
  BY <1>1 DEF Blocked
<1>3. d.value \notin FunctionValues
  BY <1>1, LookupConstants
<1>4. ~HasProtocol(d.value, Get)
  BY <1>1, <1>2, <1>3 DEF Cacheable, PlanKind
<1>. QED BY <1>1, <1>2, <1>4

\* The same for a store.
LEMMA UnblockedSettledForSet ==
  ASSUME NEW c \in Classes, NEW n, NEW path, ~Blocked(ClassifiedRead(c, n, path)),
         ~MutatingDescriptor(ClassifiedRead(c, n, path)), ChainOwner(c, n) # None
  PROVE  Settled(ChainValue(c, n), Set)
<1>1. PICK d : d = ClassifiedRead(c, n, path) /\ d.found /\ d.value = ChainValue(c, n)
  BY Classified
<1>. QED BY <1>1 DEF Blocked, MutatingDescriptor, Settled

(* What create_constructor_thunk_slow uses of a class.                     *)
ClassHas(c, n) == ChainOwner(c, n) # None \/ (c # TypeClass /\ ChainOwner(TypeClass, n) # None)
ClassValue(c, n) == IF ChainOwner(c, n) # None THEN ChainValue(c, n) ELSE ChainValue(TypeClass, n)
ClassConstructor(c) ==
  IF ClassHas(c, New)
  THEN IF ~ClassHas(c, Init_) /\ ClassValue(c, New) \in FunctionValues
       THEN [new |-> ClassValue(c, New), init |-> None] ELSE None
  ELSE IF ~ClassHas(c, Init_) THEN [new |-> None, init |-> None]
  ELSE IF ClassValue(c, Init_) \in FunctionValues
  THEN [new |-> None, init |-> ClassValue(c, Init_)] ELSE None

\* A read of a class finds the value in its MRO.
LEMMA ClassReadIs ==
  ASSUME NEW c \in Classes, NEW n
  PROVE  /\ ResolveClassRead(c, n).found <=> ClassHas(c, n)
         /\ ClassHas(c, n) =>
              /\ ResolveClassRead(c, n).value = ClassValue(c, n)
              /\ ClassValue(c, n) \in FunctionValues => ResolveClassRead(c, n).cell # "none"
<1>1. TypeClass \in Classes
  BY LookupConstants
<1>2. \A v \in FunctionValues : ~HasProtocol(v, Get)
  BY LookupConstants DEF HasProtocol
<1>3. ASSUME NEW b \in Classes, NEW path \in {"ClassObjectChain", "MetaclassChain"}, ChainOwner(b, n) # None
      PROVE  /\ WithCell(ClassifiedRead(b, n, path), "msm").found
             /\ WithCell(ClassifiedRead(b, n, path), "msm").value = ChainValue(b, n)
             /\ ChainValue(b, n) \in FunctionValues => WithCell(ClassifiedRead(b, n, path), "msm").cell # "none"
  <2>1. PICK own, sl, val, kd :
          /\ ClassifiedRead(b, n, path) = [found |-> TRUE, owner |-> own, slot |-> sl, value |-> val, kind |-> kd, cell |-> "none"]
          /\ val = ChainValue(b, n) /\ kd = PlanKind(path, val)
    BY <1>3, Classified
  <2>2. val \in FunctionValues => kd = "ReceiverSlot"
    BY <2>1, <1>2 DEF PlanKind
  <2>. QED BY <2>1, <2>2 DEF WithCell, Cacheable
<1>4. CASE ChainOwner(c, n) # None
  <2>1. ClassifiedRead(c, n, "ClassObjectChain").found
    BY <1>4, Classified
  <2>2. ResolveClassRead(c, n) = WithCell(ClassifiedRead(c, n, "ClassObjectChain"), "msm")
    BY <2>1 DEF ResolveClassRead
  <2>. QED BY <1>3, <1>4, <2>2 DEF ClassHas, ClassValue
<1>5. CASE ChainOwner(c, n) = None
  <2>1. ~ClassifiedRead(c, n, "ClassObjectChain").found
    BY <1>5, Classified DEF NotFound
  <2>2. ResolveClassRead(c, n) = IF c = TypeClass THEN NotFound
                                 ELSE WithCell(ClassifiedRead(TypeClass, n, "MetaclassChain"), "msm")
    BY <2>1 DEF ResolveClassRead
  <2>3. ChainOwner(TypeClass, n) = None => ~WithCell(ClassifiedRead(TypeClass, n, "MetaclassChain"), "msm").found
    BY <1>1, Classified DEF NotFound, WithCell, Cacheable
  <2>. QED BY <1>1, <1>3, <1>5, <2>2, <2>3 DEF ClassHas, ClassValue, NotFound
<1>. QED BY <1>4, <1>5

ConstructorsAgree ==
  \A c \in Classes : ConstructorFor(c) = ClassConstructor(c) /\ ConstructorFor(c) \in Thunks

\* Thunks are made from the __new__ and __init__ of the MRO.
LEMMA ConstructorIs == ConstructorsAgree
<1> SUFFICES ASSUME NEW c \in Classes
             PROVE  ConstructorFor(c) = ClassConstructor(c) /\ ConstructorFor(c) \in Thunks
  BY DEF ConstructorsAgree
<1>1. ResolveRead(c, New) = ResolveClassRead(c, New) /\ ResolveRead(c, Init_) = ResolveClassRead(c, Init_)
  BY DEF ResolveRead, IsClassObject
<1>2. PICK rn : rn = ResolveRead(c, New)
  OBVIOUS
<1>3. PICK ri : ri = ResolveRead(c, Init_)
  OBVIOUS
<1>4. /\ rn.found <=> ClassHas(c, New)
      /\ ClassHas(c, New) => rn.value = ClassValue(c, New)
                             /\ (ClassValue(c, New) \in FunctionValues => rn.cell # "none")
      /\ ri.found <=> ClassHas(c, Init_)
      /\ ClassHas(c, Init_) => ri.value = ClassValue(c, Init_)
                               /\ (ClassValue(c, Init_) \in FunctionValues => ri.cell # "none")
  BY <1>1, <1>2, <1>3, ClassReadIs
<1>5. ConstructorFor(c) =
        CASE ~rn.found /\ ~ri.found -> [new |-> None, init |-> None]
          [] rn.found /\ ~ri.found ->
               IF rn.cell # "none" /\ rn.value \in FunctionValues THEN [new |-> rn.value, init |-> None] ELSE None
          [] rn.found /\ ri.found -> None
          [] ~rn.found /\ ri.found ->
               IF ri.cell # "none" /\ ri.value \in FunctionValues THEN [new |-> None, init |-> ri.value] ELSE None
  BY <1>2, <1>3 DEF ConstructorFor
<1>6. ConstructorFor(c) = ClassConstructor(c)
  BY <1>4, <1>5 DEF ClassConstructor
<1>. QED BY <1>6 DEF ClassConstructor, Thunks

\* The constructor stays while its chain is unchanged.
LEMMA ConstructorKept ==
  ASSUME WorldStep, NEW c \in Classes,
         \A b \in Range(Mro[c]) : shape'[b] = shape[b] /\ storage'[b] = storage[b]
  PROVE  ConstructorFor(c)' = ConstructorFor(c)
<1>1. TypeClass \in Classes /\ \A b \in Range(Mro[TypeClass]) : shape'[b] = shape[b] /\ storage'[b] = storage[b]
  BY LookupConstants DEF WorldStep
<1>2. ASSUME NEW n
      PROVE  /\ ClassHas(c, n)' <=> ClassHas(c, n)
             /\ ClassHas(c, n) => ClassValue(c, n)' = ClassValue(c, n)
  <2>1. /\ ChainOwner(c, n)' = ChainOwner(c, n)
        /\ ChainOwner(c, n) # None => ChainValue(c, n)' = ChainValue(c, n)
        /\ ChainOwner(TypeClass, n)' = ChainOwner(TypeClass, n)
        /\ ChainOwner(TypeClass, n) # None => ChainValue(TypeClass, n)' = ChainValue(TypeClass, n)
    BY <1>1, ChainValueKept
  <2>. QED BY <2>1 DEF ClassHas, ClassValue
<1>3. ClassConstructor(c)' = ClassConstructor(c)
  <2>1. /\ ClassHas(c, New)' <=> ClassHas(c, New)
        /\ ClassHas(c, New) => ClassValue(c, New)' = ClassValue(c, New)
        /\ ClassHas(c, Init_)' <=> ClassHas(c, Init_)
        /\ ClassHas(c, Init_) => ClassValue(c, Init_)' = ClassValue(c, Init_)
    BY <1>2
  <2>. QED BY <2>1 DEF ClassConstructor
<1>4. ConstructorFor(c) = ClassConstructor(c)
  BY ConstructorIs DEF ConstructorsAgree
<1>5. ConstructorFor(c)' = ClassConstructor(c)'
  <2>1. ConstructorsAgree'
    BY ConstructorIs, PTL
  <2>. QED BY <2>1 DEF ConstructorsAgree
<1>. QED BY <1>3, <1>4, <1>5

-----------------------------------------------------------------------------
(* The inductive invariant.                                                *)

\* Adding or deleting a name gives a shape of the same class.
LEMMA DerivedShapes ==
  ASSUME NEW sh, IsShape(sh), NEW n
  PROVE  /\ IsShape(DeriveAddTransition(sh, n)) /\ IsShape(DeriveDeleteTransition(sh, n))
         /\ DeriveAddTransition(sh, n).cls = sh.cls /\ DeriveAddTransition(sh, n).root = sh.root
         /\ DeriveDeleteTransition(sh, n).cls = sh.cls /\ DeriveDeleteTransition(sh, n).root = sh.root
<1>1. PICK a, r, p, f, l, x :
        sh = [cls |-> a, root |-> r, path |-> p, slots |-> f, latent |-> l, next |-> x]
  BY DEF IsShape
<1>2. PICK p1, f1, l1, x1 :
        DeriveAddTransition(sh, n) = [sh EXCEPT !.path = p1, !.slots = f1, !.latent = l1, !.next = x1]
  BY DEF DeriveAddTransition
<1>3. DeriveAddTransition(sh, n) = [cls |-> a, root |-> r, path |-> p1, slots |-> f1, latent |-> l1, next |-> x1]
  BY <1>1, <1>2
<1>4. PICK p2, f2, l2 :
        DeriveDeleteTransition(sh, n) = [sh EXCEPT !.path = p2, !.slots = f2, !.latent = l2]
  BY DEF DeriveDeleteTransition
<1>5. DeriveDeleteTransition(sh, n) = [cls |-> a, root |-> r, path |-> p2, slots |-> f2, latent |-> l2, next |-> x]
  BY <1>1, <1>4
<1>6. IsShape(DeriveAddTransition(sh, n)) /\ IsShape(DeriveDeleteTransition(sh, n))
  BY <1>3, <1>5 DEF IsShape
<1>. QED BY <1>1, <1>3, <1>5, <1>6

(* The shape a class body leaves.                                          *)
LEMMA BodyShapes ==
  ASSUME program \in Programs, NEW c \in Classes
  PROVE  IsShape(BodyShape(c)) /\ BodyShape(c).cls = TypeClass /\ BodyShape(c).root = <<"class", c>>
<1>. DEFINE n == Len(program.body[c])
            Step(f, i) == DeriveAddTransition(f[i - 1], program.body[c][i].name)
            Adds(f, m) == f = [i \in 0 .. m |-> IF i = 0 THEN ClassRootShape(c) ELSE Step(f, i)]
            Reached == {m \in Nat : \E f : Adds(f, m)}
            added == CHOOSE f : Adds(f, n)
<1>1. n \in Nat
  BY ProgramsAssumption
<1>2. 0 \in Reached
  <2>1. PICK f : f = [i \in 0 .. 0 |-> ClassRootShape(c)]
    OBVIOUS
  <2>2. Adds(f, 0)
    BY <2>1
  <2>. QED BY <2>2
<1>3. ASSUME NEW m \in Reached PROVE m + 1 \in Reached
  <2>1. PICK f : Adds(f, m)
    OBVIOUS
  <2>2. PICK g : g = [i \in 0 .. (m + 1) |-> IF i = m + 1 THEN Step(f, i) ELSE f[i]]
    OBVIOUS
  <2>3. m \in Nat /\ \A i \in 0 .. m : g[i] = f[i]
    BY <2>2
  <2>4. ASSUME NEW i \in 0 .. (m + 1)
        PROVE  g[i] = IF i = 0 THEN ClassRootShape(c) ELSE Step(g, i)
    <3>1. CASE i = m + 1
      <4>1. i # 0 /\ i - 1 \in 0 .. m
        BY <2>3, <3>1
      <4>2. g[i] = Step(f, i)
        BY <2>2, <3>1
      <4>3. g[i - 1] = f[i - 1]
        BY <2>3, <4>1
      <4>. QED BY <4>1, <4>2, <4>3
    <3>2. CASE i \in 0 .. m
      <4>1. f[i] = IF i = 0 THEN ClassRootShape(c) ELSE Step(f, i)
        BY <2>1, <3>2
      <4>2. i # 0 => g[i - 1] = f[i - 1]
        <5>1. i # 0 => i - 1 \in 0 .. m
          BY <2>3, <3>2
        <5>. QED BY <2>3, <5>1
      <4>. QED BY <2>3, <3>2, <4>1, <4>2
    <3>. QED BY <2>3, <3>1, <3>2
  <2>5. Adds(g, m + 1)
    <3>1. DOMAIN g = 0 .. (m + 1) /\ g = [i \in 0 .. (m + 1) |-> g[i]]
      BY <2>2
    <3>. QED BY <2>4, <3>1
  <2>6. m + 1 \in Nat
    BY <2>3
  <2>. HIDE DEF Adds
  <2>. QED BY <2>5, <2>6
<1>4. Reached \in SUBSET Nat
  OBVIOUS
<1>5. Reached = Nat
  <2>. HIDE DEF Reached
  <2>. QED BY <1>2, <1>3, <1>4, InductiveSet
<1>6. Adds(added, n)
  <2>1. \E f : Adds(f, n)
    BY <1>1, <1>5
  <2>. HIDE DEF Adds
  <2>. QED BY <2>1
<1>7. BodyShape(c) = added[n]
  BY DEF BodyShape
<1>. DEFINE Good(sh) == IsShape(sh) /\ sh.cls = TypeClass /\ sh.root = <<"class", c>>
            Kept == {m \in Nat : m <= n => Good(added[m])}
<1>. HIDE DEF added
<1>8. Good(ClassRootShape(c))
  BY DEF ClassRootShape, IsShape
<1>9. 0 \in Kept
  <2>1. 0 \in 0 .. n
    BY <1>1
  <2>2. added[0] = ClassRootShape(c)
    BY <1>6, <2>1
  <2>. QED BY <1>8, <2>2
<1>10. ASSUME NEW m \in Kept PROVE m + 1 \in Kept
  <2>1. m \in Nat /\ m + 1 \in Nat
    OBVIOUS
  <2> SUFFICES ASSUME m + 1 <= n PROVE Good(added[m + 1])
    BY <2>1
  <2>2. m + 1 \in 0 .. n /\ m + 1 # 0 /\ (m + 1) - 1 = m /\ m <= n
    BY <1>1, <2>1
  <2>3. added[m + 1] = Step(added, m + 1)
    BY <1>6, <2>2
  <2>4. added[m + 1] = DeriveAddTransition(added[m], program.body[c][m + 1].name)
    BY <2>2, <2>3
  <2>5. Good(added[m])
    BY <2>2
  <2>6. PICK sh : sh = added[m]
    OBVIOUS
  <2>7. PICK name : name = program.body[c][m + 1].name
    OBVIOUS
  <2>. QED BY <2>4, <2>5, <2>6, <2>7, DerivedShapes
<1>11. Kept = Nat
  <2>1. Kept \in SUBSET Nat
    OBVIOUS
  <2>. HIDE DEF Kept
  <2>. QED BY <1>9, <1>10, <2>1, InductiveSet
<1>12. n \in Kept
  BY <1>1, <1>11
<1>. HIDE DEF n
<1>. QED BY <1>1, <1>7, <1>12

\* The initial state.
LEMMA InitLookupInv == Init => LookupInv
<1> SUFFICES ASSUME Init PROVE LookupInv
  OBVIOUS
<1>1. program \in Programs /\ None \notin Cells
  BY LookupConstants DEF Init
<1>2. LookupOK(lookup)
  <2>1. PICK cc : cc = [msc |-> None, msm |-> None, thunk |-> None, shapeList |-> <<>>, contentsList |-> <<>>]
    OBVIOUS
  <2>2. cc \in ClassCells
    BY <2>1, EmptySeq DEF ClassCells, Thunks
  <2>3. lookup = [valid |-> {}, class |-> [c \in Classes |-> cc]]
    BY <2>1 DEF Init
  <2>4. lookup \in Lookups /\ lookup.valid = {}
    BY <2>2, <2>3 DEF Lookups
  <2>. QED BY <2>4 DEF LookupOK, MscAttached, MsmAttached
<1>3. lookup.valid = {}
  BY DEF Init
<1>4. ShapesOK
  <2>1. \A o \in Objects : shape[o] = IF o \in Classes THEN BodyShape(o) ELSE InstanceRootShape(program.class[o])
    BY DEF Init, IsClassObject
  <2>2. \A c \in Classes : IsShape(shape[c]) /\ shape[c].cls = TypeClass /\ shape[c].root = <<"class", c>>
    BY <1>1, <2>1, BodyShapes DEF Objects
  <2>3. \A i \in Instances : IsShape(shape[i]) /\ shape[i].cls \in Classes /\ shape[i].root[1] # "class"
    <3>1. ASSUME NEW i \in Instances
          PROVE  IsShape(shape[i]) /\ shape[i].cls \in Classes /\ shape[i].root[1] # "class"
      <4>1. program.class[i] \in Classes /\ shape[i] = InstanceRootShape(program.class[i])
        BY <1>1, <2>1, ProgramsAssumption, LookupConstants DEF Objects
      <4>2. PICK c \in Classes : shape[i] = InstanceRootShape(c)
        BY <4>1
      <4>. QED BY <4>2 DEF InstanceRootShape, IsShape
    <3>. QED BY <3>1
  <2>. QED BY <2>2, <2>3 DEF ShapesOK, Objects, Init
<1>. QED BY <1>1, <1>2, <1>3, <1>4 DEF LookupInv, Init, ReadOK, MutationOK, CallOK, ThunkOK

(* What a step must establish: the entries and thunks it sets.             *)
LEMMA StepKeeps ==
  ASSUME LookupInv, program' = program, WorldStep, Follows(lookup, lookup'),
         DOMAIN readCache' = ReadSites,
         \A s \in ReadSites : readCache'[s] = readCache[s] \/ ReadOK(readCache[s], SiteName[s])',
         DOMAIN mutationCache' = MutationSites,
         \A s \in MutationSites : mutationCache'[s] = mutationCache[s] \/ MutationOK(lookup, mutationCache[s], s)',
         DOMAIN callCache' = CallSites,
         \A s \in CallSites : callCache'[s] = callCache[s] \/ CallOK(callCache[s])',
         \A c \in Classes : ThunkFrom(lookup, lookup', c) \/ ThunkOK(c)'
  PROVE  LookupInv'
<1>1. \A s \in ReadSites : ReadOK(readCache[s], SiteName[s])'
  <2> SUFFICES ASSUME NEW s \in ReadSites, readCache'[s] = readCache[s]
               PROVE  ReadOK(readCache[s], SiteName[s])'
    OBVIOUS
  <2>1. PICK e : e = readCache[s] /\ e = readCache'[s]
    OBVIOUS
  <2>2. PICK n : n = SiteName[s]
    OBVIOUS
  <2>3. ReadOK(e, n) /\ e.cell \in Cached
    BY <2>1, <2>2 DEF LookupInv, Cached
  <2>4. ReadOK(e, n)'
    BY <2>3, ReadKept
  <2>. QED BY <2>1, <2>2, <2>4
<1>2. \A s \in MutationSites : MutationOK(lookup, mutationCache[s], s)'
  <2> SUFFICES ASSUME NEW s \in MutationSites, mutationCache'[s] = mutationCache[s]
               PROVE  MutationOK(lookup, mutationCache[s], s)'
    OBVIOUS
  <2>1. PICK e : e = mutationCache[s] /\ e = mutationCache'[s]
    OBVIOUS
  <2>2. PICK lk : lk = lookup
    OBVIOUS
  <2>3. PICK lj : lj = lookup'
    OBVIOUS
  <2>4. MutationOK(lk, e, s) /\ e.cell \in Cached /\ Follows(lk, lj)
    BY <2>1, <2>2, <2>3 DEF LookupInv, Cached
  <2>5. MutationOK(lj, e, s)'
    BY <2>4, MutationKept
  <2>. QED BY <2>1, <2>3, <2>5
<1>3. \A s \in CallSites : CallOK(callCache[s])'
  <2> SUFFICES ASSUME NEW s \in CallSites, callCache'[s] = callCache[s]
               PROVE  CallOK(callCache[s])'
    OBVIOUS
  <2>1. PICK e : e = callCache[s] /\ e = callCache'[s]
    OBVIOUS
  <2> SUFFICES ASSUME e.cell \in lookup'.valid PROVE CallOK(e)'
    BY <2>1 DEF CallOK
  <2>2. CallOK(e) /\ e.cell \in Cached
    BY <2>1 DEF LookupInv, Cached
  <2>3. e.cell \in lookup.valid
    BY <2>2 DEF Follows
  <2>4. e.guard \in Classes /\ e.cell = lookup.class[e.guard].msc /\ e.thunk = ConstructorFor(e.guard)
    BY <2>2, <2>3 DEF CallOK
  <2>5. PICK c \in Classes : c = e.guard
    BY <2>4
  <2>6. lookup'.class[c].msc = e.cell /\ \A b \in Range(Mro[c]) : shape'[b] = shape[b] /\ storage'[b] = storage[b]
    BY <2>3, <2>4, <2>5 DEF Follows
  <2>7. ConstructorFor(c)' = ConstructorFor(c)
    BY <2>6, ConstructorKept
  <2>. QED BY <2>4, <2>5, <2>6, <2>7 DEF CallOK
<1>4. \A c \in Classes : ThunkOK(c)'
  <2> SUFFICES ASSUME NEW c \in Classes, ThunkFrom(lookup, lookup', c),
                      lookup'.class[c].thunk # None, lookup'.class[c].msc \in lookup'.valid
               PROVE  lookup'.class[c].thunk = ConstructorFor(c)'
    BY DEF ThunkOK
  <2>1. /\ lookup'.class[c].thunk = lookup.class[c].thunk
        /\ lookup'.class[c].msc = lookup.class[c].msc /\ lookup.class[c].msc \in lookup.valid
    BY DEF ThunkFrom
  <2>2. lookup.class[c].thunk = ConstructorFor(c)
    BY <2>1 DEF LookupInv, ThunkOK
  <2>3. \A b \in Range(Mro[c]) : shape'[b] = shape[b] /\ storage'[b] = storage[b]
    BY <2>1 DEF Follows
  <2>4. ConstructorFor(c)' = ConstructorFor(c)
    BY <2>3, ConstructorKept
  <2>. QED BY <2>1, <2>2, <2>4
<1>5. (program \in Programs)' /\ LookupOK(lookup)' /\ ShapesOK'
  BY DEF LookupInv, Follows, WorldStep, LookupOK, MscAttached, MsmAttached
<1>. QED BY <1>1, <1>2, <1>3, <1>4, <1>5 DEF LookupInv

(* What op_load_attr_cache_miss puts into a cache.                         *)
LEMMA ReadEntry ==
  ASSUME ShapesOK, NEW o \in Objects, NEW n, ResolveRead(o, n).found, ResolveRead(o, n).cell # "none"
  PROVE  LET r == ResolveRead(o, n) IN
         \/ /\ o \in Classes /\ r.cell = "msm"
            /\ \/ SelectsFrom(o, n, ReadPlan(r))
               \/ o # TypeClass /\ ChainOwner(o, n) = None /\ SelectsFrom(TypeClass, n, ReadPlan(r))
         \/ /\ o \in Instances /\ r.cell = "msc" /\ n \in DOMAIN shape[o].slots
            /\ r.owner = None /\ r.slot = shape[o].slots[n] /\ NothingWins(shape[o].cls, n)
         \/ /\ o \in Instances /\ r.cell = "msm" /\ n \notin DOMAIN shape[o].slots
            /\ SelectsFrom(shape[o].cls, n, ReadPlan(r))
<1>1. PICK r : r = ResolveRead(o, n)
  OBVIOUS
<1>2. ASSUME NEW c \in Classes, NEW path, r = WithCell(ClassifiedRead(c, n, path), "msm")
      PROVE  r.cell = "msm" /\ SelectsFrom(c, n, ReadPlan(r))
  <2>1. ChainOwner(c, n) # None
    BY <1>1, <1>2, Classified DEF WithCell, Cacheable, NotFound
  <2>2. PICK own, sl, val, kd :
          /\ ClassifiedRead(c, n, path) = [found |-> TRUE, owner |-> own, slot |-> sl, value |-> val, kind |-> kd, cell |-> "none"]
          /\ own = ChainOwner(c, n) /\ sl = shape[ChainOwner(c, n)].slots[n]
    BY <2>1, Classified
  <2>3. r.cell = "msm" /\ r.owner = own /\ r.slot = sl
    <3>1. PICK d : d = ClassifiedRead(c, n, path) /\ d.cell = "none"
      BY <2>2
    <3>2. r = IF Cacheable(d) THEN [d EXCEPT !.cell = "msm"] ELSE d
      BY <1>2, <3>1 DEF WithCell
    <3>3. r.cell # "none"
      BY <1>1
    <3>4. r = [d EXCEPT !.cell = "msm"]
      BY <3>1, <3>2, <3>3
    <3>5. d = [found |-> TRUE, owner |-> own, slot |-> sl, value |-> val, kind |-> kd, cell |-> "none"]
      BY <2>2, <3>1
    <3>. QED BY <3>4, <3>5
  <2>. QED BY <2>1, <2>2, <2>3 DEF SelectsFrom, ReadPlan
<1>3. CASE o \in Classes
  <2>1. r = ResolveClassRead(o, n)
    BY <1>1, <1>3 DEF ResolveRead, IsClassObject
  <2>2. CASE ClassifiedRead(o, n, "ClassObjectChain").found
    <3>1. r = WithCell(ClassifiedRead(o, n, "ClassObjectChain"), "msm")
      BY <2>1, <2>2 DEF ResolveClassRead
    <3>. QED BY <1>1, <1>2, <1>3, <3>1
  <2>3. CASE ~ClassifiedRead(o, n, "ClassObjectChain").found
    <3>1. o # TypeClass /\ r = WithCell(ClassifiedRead(TypeClass, n, "MetaclassChain"), "msm")
      BY <1>1, <2>1, <2>3 DEF ResolveClassRead, NotFound
    <3>2. ChainOwner(o, n) = None
      BY <1>3, <2>3, Classified
    <3>. QED BY <1>1, <1>2, <1>3, <3>1, <3>2, LookupConstants
  <2>. QED BY <2>2, <2>3
<1>4. CASE o \in Instances
  <2>1. PICK c \in Classes : c = shape[o].cls
    BY <1>4 DEF ShapesOK
  <2>2. o \notin Classes
    BY <1>4, LookupConstants
  <2>3. PICK d : d = ClassifiedRead(c, n, "InstanceClassChain")
    OBVIOUS
  <2>4. d.cell # "none" => ~d.found
    BY <2>3, Classified DEF NotFound
  <2>5. r = IF d.found /\ d.kind = "DataDescriptorGet" THEN d
            ELSE IF Present(o, n) THEN OwnRead(o, n, Blocked(d)) ELSE WithCell(d, "msm")
    <3>1. ClassOf(o) = c
      BY <2>1 DEF ClassOf
    <3>2. ResolveRead(o, n) =
            IF ClassifiedRead(ClassOf(o), n, "InstanceClassChain").found
               /\ ClassifiedRead(ClassOf(o), n, "InstanceClassChain").kind = "DataDescriptorGet"
            THEN ClassifiedRead(ClassOf(o), n, "InstanceClassChain")
            ELSE IF Present(o, n)
            THEN OwnRead(o, n, Blocked(ClassifiedRead(ClassOf(o), n, "InstanceClassChain")))
            ELSE WithCell(ClassifiedRead(ClassOf(o), n, "InstanceClassChain"), "msm")
      BY <2>2 DEF ResolveRead, IsClassObject
    <3>. QED BY <1>1, <2>3, <3>1, <3>2
  <2>6. ~(d.found /\ d.kind = "DataDescriptorGet")
    BY <1>1, <2>4, <2>5
  <2>7. CASE Present(o, n)
    <3>1. r = OwnRead(o, n, Blocked(d))
      BY <2>5, <2>6, <2>7
    <3>2. ~Blocked(d) /\ r.cell = "msc" /\ r.owner = None /\ r.slot = shape[o].slots[n]
      BY <1>1, <3>1 DEF OwnRead
    <3>3. NothingWins(c, n)
      BY <2>3, <3>2, UnblockedSettled
    <3>. QED BY <1>1, <1>4, <2>1, <2>7, <3>2, <3>3 DEF Present
  <2>8. CASE ~Present(o, n)
    BY <1>1, <1>2, <1>4, <2>1, <2>3, <2>5, <2>6, <2>8 DEF Present
  <2>. QED BY <2>7, <2>8
<1>. QED BY <1>3, <1>4 DEF Objects

\* Steps of the other components.
LEMMA StutterKeeps ==
  ASSUME LookupInv, UNCHANGED vars
  PROVE  LookupInv'
<1>1. /\ UNCHANGED <<shape, storage, lookup, readCache, mutationCache, callCache, program>>
      /\ LookupOK(lookup) /\ ShapesOK
      /\ DOMAIN readCache = ReadSites /\ DOMAIN mutationCache = MutationSites /\ DOMAIN callCache = CallSites
  BY DEF LookupInv, vars
<1>2. WorldStep
  <2>1. ShapesOK'
    BY <1>1 DEF ShapesOK
  <2>. QED BY <1>1, <2>1 DEF WorldStep
<1>3. Follows(lookup, lookup') /\ \A c \in Classes : ThunkFrom(lookup, lookup', c)
  BY <1>1 DEF Follows, ThunkFrom
<1>. QED BY <1>1, <1>2, <1>3, StepKeeps

(* op_load_attr_cache_miss.                                                *)
LEMMA LoadAttrKeeps ==
  ASSUME LookupInv, NEW s \in ReadSites, NEW o \in Objects, LoadAttrMiss(s, o)
  PROVE  LookupInv'
<1>1. /\ UNCHANGED <<shape, storage, mutationCache, callCache, clones, program>>
      /\ LookupOK(lookup) /\ ShapesOK
      /\ DOMAIN readCache = ReadSites /\ DOMAIN mutationCache = MutationSites /\ DOMAIN callCache = CallSites
  BY DEF LoadAttrMiss, LookupInv
<1>2. WorldStep
  <2>1. ShapesOK'
    BY <1>1 DEF ShapesOK
  <2>. QED BY <1>1, <2>1 DEF WorldStep
<1>3. PICK r : r = ResolveRead(o, SiteName[s])
  OBVIOUS
<1>4. PICK c \in Classes : c = GuardClass(o)
  BY <1>1 DEF GuardClass, IsClassObject, ClassOf, ShapesOK, Objects
<1>5. CASE r.found /\ r.cell # "none"
  <2>1. PICK k \in NewCell(lookup, c, r.cell) :
          /\ lookup' = GetOrCreate(lookup, c, r.cell, k)
          /\ readCache' = [readCache EXCEPT ![s] = Fill(o, lookup'.class[c][r.cell], ReadPlan(r))]
    BY <1>3, <1>4, <1>5 DEF LoadAttrMiss
  <2>2. PICK n : n = SiteName[s]
    OBVIOUS
  <2>3. \/ /\ o \in Classes /\ r.cell = "msm"
           /\ \/ SelectsFrom(o, n, ReadPlan(r))
              \/ o # TypeClass /\ ChainOwner(o, n) = None /\ SelectsFrom(TypeClass, n, ReadPlan(r))
        \/ /\ o \in Instances /\ r.cell = "msc" /\ n \in DOMAIN shape[o].slots
           /\ r.owner = None /\ r.slot = shape[o].slots[n] /\ NothingWins(shape[o].cls, n)
        \/ /\ o \in Instances /\ r.cell = "msm" /\ n \notin DOMAIN shape[o].slots
           /\ SelectsFrom(shape[o].cls, n, ReadPlan(r))
    BY <1>1, <1>3, <1>5, <2>2, ReadEntry
  <2>4. PICK kind \in {"msc", "msm"} : kind = r.cell
    BY <2>3
  <2>5. /\ Obtained(lookup, GetOrCreate(lookup, c, kind, k))
        /\ \A b \in Classes : ThunkFrom(lookup, GetOrCreate(lookup, c, kind, k), b)
    BY <1>1, <2>1, <2>4, Obtains
  <2>6. Obtained(lookup, lookup') /\ \A b \in Classes : ThunkFrom(lookup, lookup', b)
    BY <2>1, <2>4, <2>5
  <2>7. Follows(lookup, lookup')
    BY <1>1, <2>6, ObtainedAlone
  <2>8. PICK e : e = Fill(o, lookup'.class[c][r.cell], ReadPlan(r))
    OBVIOUS
  <2>9. /\ readCache'[s] = e /\ DOMAIN readCache' = ReadSites
        /\ \A t \in ReadSites : t # s => readCache'[t] = readCache[t]
    BY <1>1, <2>1, <2>8
  <2>10. /\ e.shape = shape[o] /\ e.cell = lookup'.class[c][r.cell]
         /\ e.plan = ReadPlan(r) /\ e.plan.owner = r.owner /\ e.plan.slot = r.slot
    BY <2>8 DEF Fill, ReadPlan
  <2>11. ASSUME NEW b \in Classes
         PROVE  /\ ChainOwner(b, n)' = ChainOwner(b, n)
                /\ SelectsFrom(b, n, e.plan) => SelectsFrom(b, n, e.plan)'
                /\ NothingWins(b, n) => NothingWins(b, n)'
    <3>1. \A a \in Range(Mro[b]) : shape'[a] = shape[a] /\ storage'[a] = storage[a]
      BY <1>1
    <3>2. PICK plan : plan = e.plan
      OBVIOUS
    <3>3. SelectsFrom(b, n, plan) => SelectsFrom(b, n, plan)'
      BY <3>1, SelectsKept
    <3>. QED BY <1>2, <3>1, <3>2, <3>3, ChainKept, NothingWinsKept
  <2>12. ASSUME o \in Classes PROVE ReadOK(e, n)'
    <3>1. c = o /\ shape[o].root = <<"class", o>> /\ TypeClass \in Classes
      BY <1>1, <1>4, <2>12, LookupConstants DEF GuardClass, IsClassObject, ShapesOK
    <3>2. o \notin Instances
      BY <2>12, LookupConstants
    <3>3. \/ SelectsFrom(o, n, e.plan)'
          \/ o # TypeClass /\ ChainOwner(o, n)' = None /\ SelectsFrom(TypeClass, n, e.plan)'
      BY <2>3, <2>10, <2>11, <2>12, <3>1, <3>2
    <3>4. ClassReadOK(e, n)'
      BY <2>3, <2>10, <2>12, <3>1, <3>2, <3>3 DEF ClassReadOK
    <3>. QED BY <3>4 DEF ReadOK
  <2>13. ASSUME o \in Instances PROVE ReadOK(e, n)'
    <3>1. c = shape[o].cls /\ shape[o].root[1] # "class" /\ o \notin Classes
      BY <1>1, <1>4, <2>13, LookupConstants DEF GuardClass, IsClassObject, ShapesOK, ClassOf
    <3>2. OwnReadOK(e, n)' \/ ChainReadOK(e, n)'
      BY <2>3, <2>10, <2>11, <3>1 DEF OwnReadOK, ChainReadOK
    <3>. QED BY <2>10, <3>1, <3>2 DEF ReadOK
  <2>14. ReadOK(readCache[s], SiteName[s])'
    BY <2>2, <2>9, <2>12, <2>13 DEF Objects
  <2>15. \A t \in ReadSites : readCache'[t] = readCache[t] \/ ReadOK(readCache[t], SiteName[t])'
    BY <2>9, <2>14
  <2>. QED BY <1>1, <1>2, <2>6, <2>7, <2>9, <2>15, StepKeeps
<1>6. CASE ~(r.found /\ r.cell # "none")
  <2>1. UNCHANGED <<lookup, readCache>>
    BY <1>3, <1>6 DEF LoadAttrMiss
  <2>. QED BY <1>1, <2>1, StutterKeeps DEF vars
<1>. QED BY <1>5, <1>6

(* A store or delete that fills no cache.                                  *)
LEMMA PerformKeeps ==
  ASSUME LookupInv, NEW o \in Objects \ Frozen, NEW plan, NEW v, PlanOK(plan, shape[o]),
         Perform(o, plan, v, lookup), UNCHANGED <<readCache, mutationCache, callCache, program>>
  PROVE  LookupInv'
<1>1. /\ LookupOK(lookup) /\ ShapesOK
      /\ DOMAIN readCache = ReadSites /\ DOMAIN mutationCache = MutationSites /\ DOMAIN callCache = CallSites
  BY DEF LookupInv
<1>2. PICK lk : lk = lookup
  OBVIOUS
<1>3. LookupOK(lk) /\ Perform(o, plan, v, lk)
  BY <1>1, <1>2
<1>4. Follows(lk, lookup') /\ WorldStep /\ \A c \in Classes : ThunkFrom(lk, lookup', c)
  BY <1>1, <1>3, PerformFollows
<1>5. Follows(lookup, lookup') /\ WorldStep /\ \A c \in Classes : ThunkFrom(lookup, lookup', c)
  BY <1>2, <1>4
<1>. QED BY <1>1, <1>5, StepKeeps

(* A store or delete after a miss.                                         *)
LEMMA MutateKeeps ==
  ASSUME LookupInv, NEW s \in MutationSites, NEW o \in Objects \ Frozen, NEW plan, NEW v, NEW cache,
         PlanOK(plan, shape[o]), Mutate(s, o, plan, v, cache),
         cache /\ plan.kind # "AddOwnProperty" => PlanStands(s, shape[o], plan)
  PROVE  LookupInv'
<1>1. /\ LookupOK(lookup) /\ ShapesOK /\ UNCHANGED <<readCache, callCache, program>>
      /\ DOMAIN readCache = ReadSites /\ DOMAIN mutationCache = MutationSites /\ DOMAIN callCache = CallSites
  BY DEF LookupInv, Mutate
<1>2. CASE ~cache
  <2>1. Perform(o, plan, v, lookup) /\ UNCHANGED mutationCache
    BY <1>2 DEF Mutate
  <2>. QED BY <1>1, <2>1, PerformKeeps
<1>3. CASE cache
  <2>1. PICK c \in Classes : c = shape[o].cls
    BY <1>1, LookupConstants DEF ShapesOK, Objects
  <2>2. ClassOf(o) = c
    BY <2>1 DEF ClassOf
  <2>3. PICK k \in NewCell(lookup, c, "msc") : \E lk \in {GetOrCreate(lookup, c, "msc", k)} :
          /\ mutationCache' = [mutationCache EXCEPT ![s] = Fill(o, lk.class[c].msc, plan)]
          /\ Perform(o, plan, v, lk)
    BY <1>3, <2>2 DEF Mutate
  <2>4. PICK lk : /\ lk = GetOrCreate(lookup, c, "msc", k)
                  /\ mutationCache' = [mutationCache EXCEPT ![s] = Fill(o, lk.class[c].msc, plan)]
                  /\ Perform(o, plan, v, lk)
    BY <2>3
  <2>5. /\ Obtained(lookup, GetOrCreate(lookup, c, "msc", k))
        /\ GetOrCreate(lookup, c, "msc", k).class[c].msc \in GetOrCreate(lookup, c, "msc", k).valid
        /\ \A b \in Classes : ThunkFrom(lookup, GetOrCreate(lookup, c, "msc", k), b)
    <3>1. PICK kind \in {"msc", "msm"} : kind = "msc"
      OBVIOUS
    <3>2. /\ Obtained(lookup, GetOrCreate(lookup, c, kind, k))
          /\ GetOrCreate(lookup, c, kind, k).class[c][kind] \in GetOrCreate(lookup, c, kind, k).valid
          /\ \A b \in Classes : ThunkFrom(lookup, GetOrCreate(lookup, c, kind, k), b)
      BY <1>1, <3>1, Obtains
    <3>. QED BY <3>1, <3>2
  <2>6. /\ Obtained(lookup, lk) /\ lk.class[c].msc \in lk.valid /\ LookupOK(lk)
        /\ \A b \in Classes : ThunkFrom(lookup, lk, b)
    BY <2>4, <2>5 DEF Obtained
  <2>7. Follows(lk, lookup') /\ WorldStep /\ \A b \in Classes : ThunkFrom(lk, lookup', b)
    BY <1>1, <2>4, <2>6, PerformFollows
  <2>8. PICK lj : lj = lookup'
    OBVIOUS
  <2>9. Follows(lookup, lookup') /\ \A b \in Classes : ThunkFrom(lookup, lookup', b)
    BY <2>6, <2>7, ObtainedFollows
  <2>10. PICK e : e = Fill(o, lk.class[c].msc, plan)
    OBVIOUS
  <2>11. /\ mutationCache'[s] = e /\ DOMAIN mutationCache' = MutationSites
         /\ \A t \in MutationSites : t # s => mutationCache'[t] = mutationCache[t]
    BY <1>1, <2>4, <2>10
  <2>12. e.shape = shape[o] /\ e.cell = lk.class[c].msc /\ e.plan = plan
    BY <2>10 DEF Fill
  <2>13. MutationOK(lk, e, s)
    BY <1>3, <2>1, <2>12 DEF MutationOK
  <2>14. MutationOK(lj, e, s)'
    BY <2>6, <2>7, <2>8, <2>12, <2>13, MutationKept
  <2>15. \A t \in MutationSites : mutationCache'[t] = mutationCache[t] \/ MutationOK(lookup, mutationCache[t], t)'
    BY <2>8, <2>11, <2>14
  <2>. QED BY <1>1, <2>7, <2>9, <2>11, <2>15, StepKeeps
<1>. QED BY <1>2, <1>3

(* The plans of resolve_attr_write_descriptor and its like.                *)
LEMMA PlansFound ==
  ASSUME ShapesOK, NEW o \in Objects, NEW n
  PROVE  /\ ResolveWrite(o, n).status = "Found" => PlanOK(ResolveWrite(o, n).plan, shape[o])
         /\ ResolveDelete(o, n).status = "Found" => PlanOK(ResolveDelete(o, n).plan, shape[o])
         /\ PlanOK(AddPlan(o, n), shape[o]) /\ AddPlan(o, n).kind = "AddOwnProperty"
<1>1. PICK sh : sh = shape[o] /\ IsShape(sh)
  BY DEF ShapesOK
<1>2. /\ IsShape(DeriveAddTransition(sh, n)) /\ IsShape(DeriveDeleteTransition(sh, n))
      /\ DeriveAddTransition(sh, n).cls = sh.cls /\ DeriveAddTransition(sh, n).root = sh.root
      /\ DeriveDeleteTransition(sh, n).cls = sh.cls /\ DeriveDeleteTransition(sh, n).root = sh.root
  BY <1>1, DerivedShapes
<1>3. ResolveWrite(o, n).status = "Found" => PlanOK(ResolveWrite(o, n).plan, shape[o])
  BY DEF ResolveWrite, PlanOK
<1>4. ResolveDelete(o, n).status = "Found" => PlanOK(ResolveDelete(o, n).plan, shape[o])
  BY <1>1, <1>2 DEF ResolveDelete, PlanOK
<1>5. PlanOK(AddPlan(o, n), shape[o]) /\ AddPlan(o, n).kind = "AddOwnProperty"
  BY <1>1, <1>2 DEF AddPlan, PlanOK
<1>. QED BY <1>3, <1>4, <1>5

\* A resolved store or delete has a plan that stands.
LEMMA FoundStands ==
  ASSUME ShapesOK, NEW o \in Objects, NEW s \in MutationSites
  PROVE  /\ /\ s \in StoreSites /\ ResolveWrite(o, SiteName[s]).status = "Found"
            /\ ResolveWrite(o, SiteName[s]).cacheable
            => PlanStands(s, shape[o], ResolveWrite(o, SiteName[s]).plan)
         /\ /\ s \in DeleteSites /\ ResolveDelete(o, SiteName[s]).status = "Found"
            /\ ResolveDelete(o, SiteName[s]).cacheable
            => PlanStands(s, shape[o], ResolveDelete(o, SiteName[s]).plan)
<1>1. PICK n : n = SiteName[s]
  OBVIOUS
<1>2. PICK c \in Classes : c = shape[o].cls
  BY LookupConstants DEF ShapesOK, Objects
<1>3. Superseded(o, n) = ClassifiedRead(c, n, "ClassObjectChain")
  BY <1>2 DEF Superseded, ClassOf
<1>4. ~Blocked(Superseded(o, n)) /\ ~MutatingDescriptor(Superseded(o, n)) =>
        /\ NothingWins(c, n)
        /\ ChainOwner(c, n) # None => Settled(ChainValue(c, n), Set)
  BY <1>3, UnblockedSettled, UnblockedSettledForSet
<1>5. ASSUME s \in StoreSites, ResolveWrite(o, n).status = "Found", ResolveWrite(o, n).cacheable
      PROVE  PlanStands(s, shape[o], ResolveWrite(o, n).plan)
  <2>1. /\ ~MutatingDescriptor(Superseded(o, n)) /\ Present(o, n)
        /\ ResolveWrite(o, n).plan = [kind |-> "StoreExisting", slot |-> shape[o].slots[n]]
        /\ ~Blocked(Superseded(o, n))
    BY <1>5 DEF ResolveWrite
  <2>2. s \notin DeleteSites
    BY <1>5, LookupConstants
  <2>. QED BY <1>1, <1>2, <1>4, <1>5, <2>1, <2>2 DEF PlanStands, SitePlan, Present
<1>6. ASSUME s \in DeleteSites, ResolveDelete(o, n).status = "Found", ResolveDelete(o, n).cacheable
      PROVE  PlanStands(s, shape[o], ResolveDelete(o, n).plan)
  <2>1. /\ ~MutatingDescriptor(Superseded(o, n)) /\ Present(o, n) /\ ~IsImmutable(o)
        /\ ResolveDelete(o, n).plan = [kind |-> "DeleteOwnProperty", slot |-> shape[o].slots[n],
                                       next |-> DeriveDeleteTransition(shape[o], n)]
        /\ ~Blocked(Superseded(o, n))
    BY <1>6 DEF ResolveDelete
  <2>2. s \notin StoreSites
    BY <1>6, LookupConstants
  <2>3. ASSUME NEW f \in Frozen PROVE shape[o].root # <<"class", f>>
    <3>1. CASE o \in Classes
      BY <2>1, <3>1 DEF ShapesOK, IsImmutable
    <3>2. CASE o \in Instances
      BY <3>2 DEF ShapesOK
    <3>. QED BY <3>1, <3>2 DEF Objects
  <2>. QED BY <1>1, <1>2, <1>4, <2>1, <2>2, <2>3 DEF PlanStands, SitePlan, Present
<1>. QED BY <1>1, <1>5, <1>6

(* A store or delete through a matching cache.                             *)
LEMMA MutationHitKeeps ==
  ASSUME LookupInv, NEW s \in MutationSites, NEW o \in Objects \ Frozen, NEW v,
         Matches(mutationCache[s], o), Perform(o, mutationCache[s].plan, v, lookup),
         UNCHANGED <<readCache, mutationCache, callCache, program>>
  PROVE  LookupInv'
<1>1. PICK plan : plan = mutationCache[s].plan
  OBVIOUS
<1>2. PlanOK(plan, shape[o])
  BY <1>1 DEF LookupInv, MutationOK, Matches
<1>. QED BY <1>1, <1>2, PerformKeeps

\* A store through a missing cache.
LEMMA StoreAttrKeeps ==
  ASSUME LookupInv, NEW s \in StoreSites, NEW o \in Objects \ Frozen, NEW v, StoreAttrMiss(s, o, v)
  PROVE  LookupInv'
<1>1. ShapesOK /\ s \in MutationSites
  BY DEF LookupInv, MutationSites
<1>2. PICK n : n = SiteName[s]
  OBVIOUS
<1>3. PICK w : w = ResolveWrite(o, n)
  OBVIOUS
<1>4. PICK add : add = AddPlan(o, n)
  OBVIOUS
<1>5. /\ w.status = "Found" => PlanOK(w.plan, shape[o])
      /\ w.status = "Found" /\ w.cacheable => PlanStands(s, shape[o], w.plan)
      /\ PlanOK(add, shape[o]) /\ add.kind = "AddOwnProperty"
  BY <1>1, <1>2, <1>3, <1>4, PlansFound, FoundStands
<1>6. \/ w.status = "Found" /\ Mutate(s, o, w.plan, v, w.cacheable)
      \/ Mutate(s, o, add, v, ~IsClassObject(o) /\ add.slot <= InlineSlots)
      \/ UNCHANGED vars
  BY <1>2, <1>3, <1>4 DEF StoreAttrMiss
<1>7. CASE w.status = "Found" /\ Mutate(s, o, w.plan, v, w.cacheable)
  <2>1. PICK plan : plan = w.plan
    OBVIOUS
  <2>. QED BY <1>1, <1>5, <1>7, <2>1, MutateKeeps
<1>8. CASE Mutate(s, o, add, v, ~IsClassObject(o) /\ add.slot <= InlineSlots)
  BY <1>1, <1>5, <1>8, MutateKeeps
<1>. QED BY <1>6, <1>7, <1>8, StutterKeeps

\* A delete through a missing cache.
LEMMA DelAttrKeeps ==
  ASSUME LookupInv, NEW s \in DeleteSites, NEW o \in Objects \ Frozen, DelAttrMiss(s, o)
  PROVE  LookupInv'
<1>1. ShapesOK /\ s \in MutationSites
  BY DEF LookupInv, MutationSites
<1>2. PICK n : n = SiteName[s]
  OBVIOUS
<1>3. PICK w : w = ResolveDelete(o, n)
  OBVIOUS
<1>4. /\ w.status = "Found" => PlanOK(w.plan, shape[o])
      /\ w.status = "Found" /\ w.cacheable => PlanStands(s, shape[o], w.plan)
  BY <1>1, <1>2, <1>3, PlansFound, FoundStands
<1>5. \/ w.status = "Found" /\ Mutate(s, o, w.plan, None, w.cacheable)
      \/ UNCHANGED vars
  BY <1>2, <1>3 DEF DelAttrMiss
<1>6. CASE w.status = "Found" /\ Mutate(s, o, w.plan, None, w.cacheable)
  <2>1. PICK plan : plan = w.plan
    OBVIOUS
  <2>. QED BY <1>1, <1>4, <1>6, <2>1, MutateKeeps
<1>. QED BY <1>5, <1>6, StutterKeeps

(* setattr() and delattr().                                                *)
LEMMA UncachedKeeps ==
  ASSUME LookupInv, NEW o \in Objects \ Frozen, NEW n, NEW v, StoreAttr(o, n, v) \/ DelAttr(o, n)
  PROVE  LookupInv'
<1>1. ShapesOK
  BY DEF LookupInv
<1>2. PICK w : w = ResolveWrite(o, n)
  OBVIOUS
<1>3. PICK d : d = ResolveDelete(o, n)
  OBVIOUS
<1>4. PICK add : add = AddPlan(o, n)
  OBVIOUS
<1>5. /\ w.status = "Found" => PlanOK(w.plan, shape[o])
      /\ d.status = "Found" => PlanOK(d.plan, shape[o]) /\ PlanOK(add, shape[o])
      /\ PlanOK(add, shape[o])
  BY <1>1, <1>2, <1>3, <1>4, PlansFound
<1>6. UNCHANGED <<readCache, mutationCache, callCache, clones, program>>
  BY DEF StoreAttr, DelAttr
<1>7. \/ w.status = "Found" /\ Perform(o, w.plan, v, lookup)
      \/ Perform(o, add, v, lookup)
      \/ d.status = "Found" /\ Perform(o, d.plan, None, lookup)
      \/ UNCHANGED <<shape, storage, lookup>>
  BY <1>2, <1>3, <1>4 DEF StoreAttr, DelAttr
<1>8. CASE w.status = "Found" /\ Perform(o, w.plan, v, lookup)
  <2>1. PICK plan : plan = w.plan
    OBVIOUS
  <2>. QED BY <1>5, <1>6, <1>8, <2>1, PerformKeeps
<1>9. CASE Perform(o, add, v, lookup)
  BY <1>5, <1>6, <1>9, PerformKeeps
<1>10. CASE d.status = "Found" /\ Perform(o, d.plan, None, lookup)
  <2>1. PICK plan : plan = d.plan
    OBVIOUS
  <2>. QED BY <1>5, <1>6, <1>10, <2>1, PerformKeeps
<1>. QED BY <1>6, <1>7, <1>8, <1>9, <1>10, StutterKeeps DEF vars

(* An assignment to __class__.                                             *)
LEMMA ChangeClassKeeps ==
  ASSUME LookupInv, NEW o \in Instances, NEW c \in Classes, ChangeClass(o, c)
  PROVE  LookupInv'
<1>1. /\ LookupOK(lookup) /\ ShapesOK
      /\ DOMAIN readCache = ReadSites /\ DOMAIN mutationCache = MutationSites /\ DOMAIN callCache = CallSites
      /\ o \in Objects \ Frozen /\ o \notin Classes
  BY LookupConstants DEF LookupInv, Objects
<1>2. /\ ClassOf(o) \notin Frozen /\ SetShape(o, CloneWithClass(shape[o], c, clones), lookup)
      /\ UNCHANGED <<storage, readCache, mutationCache, callCache, program>>
  BY DEF ChangeClass
<1>3. PICK a, r, p, f, l, x :
        shape[o] = [cls |-> a, root |-> r, path |-> p, slots |-> f, latent |-> l, next |-> x]
  BY <1>1 DEF ShapesOK, IsShape
<1>4. PICK sh : sh = CloneWithClass(shape[o], c, clones)
  OBVIOUS
<1>5. PICK id, none : /\ sh = [cls |-> c, root |-> id, path |-> none, slots |-> f, latent |-> l, next |-> x]
                       /\ id = <<"clone", clones>>
  <2>1. PICK old : old = shape[o]
    OBVIOUS
  <2>2. PICK id, none : /\ id = <<"clone", clones>>
                        /\ CloneWithClass(old, c, clones) = [old EXCEPT !.cls = c, !.root = id, !.path = none]
    BY DEF CloneWithClass
  <2>3. sh = [old EXCEPT !.cls = c, !.root = id, !.path = none]
    BY <1>4, <2>1, <2>2
  <2>4. sh = [cls |-> c, root |-> id, path |-> none, slots |-> f, latent |-> l, next |-> x]
    <3>1. old = [cls |-> a, root |-> r, path |-> p, slots |-> f, latent |-> l, next |-> x]
      BY <1>3, <2>1
    <3>. QED BY <2>3, <3>1
  <2>. QED BY <2>2, <2>4
<1>6. IsShape(sh) /\ sh.cls \in Classes /\ sh.root[1] # "class"
  BY <1>5 DEF IsShape
<1>7. DOMAIN storage' = Objects /\ \A b \in Objects \ {o} : storage'[b] = storage[b]
  BY <1>1, <1>2 DEF ShapesOK
<1>8. PICK lk : lk = lookup
  OBVIOUS
<1>9. LookupOK(lk) /\ SetShape(o, sh, lk)
  BY <1>1, <1>2, <1>4, <1>8
<1>10. Follows(lk, lookup') /\ WorldStep /\ \A b \in Classes : ThunkFrom(lk, lookup', b)
  BY <1>1, <1>2, <1>6, <1>7, <1>9, ShapeFollows
<1>11. Follows(lookup, lookup') /\ WorldStep /\ \A b \in Classes : ThunkFrom(lookup, lookup', b)
  BY <1>8, <1>10
<1>. QED BY <1>1, <1>2, <1>11, StepKeeps

(* A call of a class object after a miss.                                  *)
LEMMA CallClassKeeps ==
  ASSUME LookupInv, NEW s \in CallSites, NEW c \in Classes, CallClassMiss(s, c)
  PROVE  LookupInv'
<1>1. /\ LookupOK(lookup) /\ ShapesOK
      /\ DOMAIN readCache = ReadSites /\ DOMAIN mutationCache = MutationSites /\ DOMAIN callCache = CallSites
      /\ UNCHANGED <<shape, storage, readCache, mutationCache, clones, program>>
  BY DEF LookupInv, CallClassMiss
<1>2. WorldStep
  <2>1. ShapesOK'
    BY <1>1 DEF ShapesOK
  <2>. QED BY <1>1, <2>1 DEF WorldStep
<1>3. PICK k \in NewCell(lookup, c, "msc") :
        \E g \in {GetOrCreate(lookup, c, "msc", k)} :
        \E made \in IF g.class[c].thunk # None THEN {g.class[c].thunk} ELSE {ConstructorFor(c)} :
          /\ IF g.class[c].thunk # None THEN lookup' = g
             ELSE \E j \in IF ConstructorCaches(c) THEN NewCell(g, c, "msm") ELSE {None} :
                    lookup' = [GetOrCreate(g, c, "msm", j) EXCEPT !.class[c].thunk = made]
          /\ callCache' = IF made = None THEN callCache
                          ELSE [callCache EXCEPT ![s] = [guard |-> c, cell |-> g.class[c].msc, thunk |-> made]]
  BY DEF CallClassMiss
<1>4. PICK g : /\ g = GetOrCreate(lookup, c, "msc", k)
               /\ \E made \in IF g.class[c].thunk # None THEN {g.class[c].thunk} ELSE {ConstructorFor(c)} :
                    /\ IF g.class[c].thunk # None THEN lookup' = g
                       ELSE \E j \in IF ConstructorCaches(c) THEN NewCell(g, c, "msm") ELSE {None} :
                              lookup' = [GetOrCreate(g, c, "msm", j) EXCEPT !.class[c].thunk = made]
                    /\ callCache' = IF made = None THEN callCache
                                    ELSE [callCache EXCEPT ![s] = [guard |-> c, cell |-> g.class[c].msc, thunk |-> made]]
  BY <1>3
<1>5. PICK made : /\ made = IF g.class[c].thunk # None THEN g.class[c].thunk ELSE ConstructorFor(c)
                  /\ IF g.class[c].thunk # None THEN lookup' = g
                     ELSE \E j \in IF ConstructorCaches(c) THEN NewCell(g, c, "msm") ELSE {None} :
                            lookup' = [GetOrCreate(g, c, "msm", j) EXCEPT !.class[c].thunk = made]
                  /\ callCache' = IF made = None THEN callCache
                                  ELSE [callCache EXCEPT ![s] = [guard |-> c, cell |-> g.class[c].msc, thunk |-> made]]
  BY <1>4
<1>6. PICK msc \in {"msc", "msm"} : msc = "msc"
  OBVIOUS
<1>7. PICK msm \in {"msc", "msm"} : msm = "msm"
  OBVIOUS
<1>8. /\ Obtained(lookup, g) /\ g.class[c].msc \in g.valid /\ LookupOK(g)
      /\ \A b \in Classes : ThunkFrom(lookup, g, b)
  <2>1. /\ Obtained(lookup, GetOrCreate(lookup, c, msc, k))
        /\ GetOrCreate(lookup, c, msc, k).class[c][msc] \in GetOrCreate(lookup, c, msc, k).valid
        /\ \A b \in Classes : ThunkFrom(lookup, GetOrCreate(lookup, c, msc, k), b)
    BY <1>1, <1>3, <1>6, Obtains
  <2>. QED BY <1>4, <1>6, <2>1 DEF Obtained
<1>9. PICK new : new = ConstructorFor(c)
  OBVIOUS
<1>10. ConstructorFor(c)' = new
  BY <1>1, <1>2, <1>9, ConstructorKept
<1>11. /\ Follows(lookup, lookup') /\ lookup'.class[c].msc = g.class[c].msc
       /\ made = new
       /\ \A b \in Classes : ThunkFrom(lookup, lookup', b) \/ ThunkOK(b)'
  <2>1. CASE g.class[c].thunk # None
    <3>1. lookup' = g /\ made = g.class[c].thunk
      BY <1>5, <2>1
    <3>2. made = lookup.class[c].thunk /\ lookup.class[c].msc \in lookup.valid
      BY <1>8, <2>1, <3>1 DEF ThunkFrom
    <3>3. made = new
      BY <1>9, <2>1, <3>1, <3>2 DEF LookupInv, ThunkOK
    <3>. QED BY <1>1, <1>8, <3>1, <3>3, ObtainedAlone
  <2>2. CASE g.class[c].thunk = None
    <3>1. PICK j \in IF ConstructorCaches(c) THEN NewCell(g, c, "msm") ELSE {None} :
            lookup' = [GetOrCreate(g, c, "msm", j) EXCEPT !.class[c].thunk = made]
      BY <1>5, <2>2
    <3>2. made = new /\ made \in Thunks
      BY <1>5, <1>9, <2>2, ConstructorIs DEF ConstructorsAgree
    <3>3. PICK h : h = GetOrCreate(g, c, "msm", j)
      OBVIOUS
    <3>4. Obtained(g, h) /\ LookupOK(h) /\ \A b \in Classes : ThunkFrom(g, h, b)
      <4>1. CASE j = None
        <5>1. h = g
          BY <3>3, <4>1 DEF GetOrCreate
        <5>. QED BY <1>8, <5>1 DEF Obtained, ThunkFrom
      <4>2. CASE j # None
        <5>1. j \in NewCell(g, c, msm)
          BY <1>7, <3>1, <4>2
        <5>2. /\ Obtained(g, GetOrCreate(g, c, msm, j))
              /\ \A b \in Classes : ThunkFrom(g, GetOrCreate(g, c, msm, j), b)
          BY <1>8, <5>1, Obtains
        <5>. QED BY <1>7, <3>3, <5>2 DEF Obtained
      <4>. QED BY <4>1, <4>2
    <3>5. PICK cc \in ClassCells : /\ cc = [h.class[c] EXCEPT !.thunk = made] /\ cc.thunk = made
                                   /\ cc.msc = h.class[c].msc /\ cc.msm = h.class[c].msm
                                   /\ cc.shapeList = h.class[c].shapeList /\ cc.contentsList = h.class[c].contentsList
      <4>1. h.class[c] \in ClassCells
        BY <3>4 DEF LookupOK, Lookups
      <4>2. PICK old \in ClassCells : old = h.class[c]
        BY <4>1
      <4>3. [old EXCEPT !.thunk = made] \in ClassCells
        BY <3>2 DEF ClassCells
      <4>. QED BY <4>2, <4>3 DEF ClassCells
    <3>6. lookup' = [h EXCEPT !.class = [h.class EXCEPT ![c] = cc]] /\ h \in Lookups
      BY <3>1, <3>3, <3>4, <3>5 DEF LookupOK, Lookups
    <3>7. PICK lj : lj = lookup'
      OBVIOUS
    <3>8. /\ lj \in Lookups /\ lj.valid = h.valid /\ lj.class[c] = cc
          /\ \A b \in Classes \ {c} : lj.class[b] = h.class[b]
      BY <3>5, <3>6, <3>7 DEF Lookups
    <3>9. \A b \in Classes : /\ lj.class[b].msc = h.class[b].msc /\ lj.class[b].msm = h.class[b].msm
                             /\ lj.class[b].shapeList = h.class[b].shapeList
                             /\ lj.class[b].contentsList = h.class[b].contentsList
      BY <3>5, <3>8
    <3>10. ASSUME NEW b \in Classes
           PROVE  MscAttached(lj, b) /\ MsmAttached(lj, b)
      <4>1. MscAttached(h, b) /\ MsmAttached(h, b)
        BY <3>4 DEF LookupOK
      <4>. QED BY <4>1, <3>8, <3>9, MroClasses DEF MscAttached, MsmAttached
    <3>11. LookupOK(lj)
      BY <3>8, <3>10 DEF LookupOK
    <3>12. Follows(g, lj)
      BY <1>1, <3>4, <3>8, <3>9, <3>11 DEF Follows, Obtained
    <3>13. Follows(lookup, lj)
      BY <1>8, <3>12, ObtainedFollows
    <3>14. h.class[c].msc = g.class[c].msc
      BY <1>8, <3>4 DEF Obtained
    <3>15. ThunkOK(c)'
      BY <1>10, <3>2, <3>5, <3>7, <3>8 DEF ThunkOK
    <3>16. ASSUME NEW b \in Classes, b # c
           PROVE  ThunkFrom(lookup, lj, b)
      BY <1>8, <3>4, <3>8, <3>16 DEF ThunkFrom
    <3>. QED BY <3>2, <3>5, <3>7, <3>8, <3>13, <3>14, <3>15, <3>16
  <2>. QED BY <2>1, <2>2
<1>12. CASE made = None
  BY <1>1, <1>2, <1>5, <1>11, <1>12, StepKeeps
<1>13. CASE made # None
  <2>1. PICK e : e = [guard |-> c, cell |-> g.class[c].msc, thunk |-> made]
    OBVIOUS
  <2>2. /\ callCache'[s] = e /\ DOMAIN callCache' = CallSites
        /\ \A t \in CallSites : t # s => callCache'[t] = callCache[t]
    BY <1>1, <1>5, <1>13, <2>1
  <2>3. e.guard = c /\ e.cell = g.class[c].msc /\ e.thunk = made
    BY <2>1
  <2>4. CallOK(e)'
    BY <1>10, <1>11, <2>3 DEF CallOK
  <2>5. \A t \in CallSites : callCache'[t] = callCache[t] \/ CallOK(callCache[t])'
    BY <2>2, <2>4
  <2>. QED BY <1>1, <1>2, <1>11, <2>2, <2>5, StepKeeps
<1>. QED BY <1>12, <1>13

\* Every step keeps the invariant.
LEMMA NextKeeps == LookupInv /\ [Next]_vars => LookupInv'
<1> SUFFICES ASSUME LookupInv, [Next]_vars PROVE LookupInv'
  OBVIOUS
<1>1. /\ program \in Programs /\ program.objects \subseteq Objects
      /\ \A a \in program.assigns : a[1] \in Objects \ Frozen
      /\ StoreSites \subseteq MutationSites /\ DeleteSites \subseteq MutationSites
  BY ProgramsAssumption DEF LookupInv, MutationSites
<1>2. ASSUME LoadAttrStep PROVE LookupInv'
  BY <1>1, <1>2, LoadAttrKeeps, StutterKeeps DEF LoadAttrStep, LoadAttrHit
<1>3. ASSUME StoreAttrStep PROVE LookupInv'
  <2>1. PICK a \in program.assigns :
          \/ \E s \in Named(StoreSites, a[2]) :
               StoreAttrHit(s, a[1], a[3]) \/ StoreAttrMiss(s, a[1], a[3])
          \/ StoreAttr(a[1], a[2], a[3])
    BY <1>3 DEF StoreAttrStep
  <2>2. PICK o \in Objects \ Frozen : o = a[1]
    BY <1>1
  <2>3. PICK v : v = a[3]
    OBVIOUS
  <2>4. PICK n : n = a[2]
    OBVIOUS
  <2>5. CASE StoreAttr(o, n, v)
    BY <2>5, UncachedKeeps
  <2>6. ASSUME NEW s \in StoreSites, StoreAttrHit(s, o, v)
        PROVE  LookupInv'
    BY <1>1, <2>6, MutationHitKeeps DEF StoreAttrHit
  <2>7. ASSUME NEW s \in StoreSites, StoreAttrMiss(s, o, v)
        PROVE  LookupInv'
    BY <2>7, StoreAttrKeeps
  <2>. QED BY <2>1, <2>2, <2>3, <2>4, <2>5, <2>6, <2>7 DEF Named
<1>4. ASSUME DelAttrStep PROVE LookupInv'
  <2>1. PICK a \in program.assigns :
          \/ \E s \in Named(DeleteSites, a[2]) : DelAttrHit(s, a[1]) \/ DelAttrMiss(s, a[1])
          \/ DelAttr(a[1], a[2])
    BY <1>4 DEF DelAttrStep
  <2>2. PICK o \in Objects \ Frozen : o = a[1]
    BY <1>1
  <2>3. PICK n : n = a[2]
    OBVIOUS
  <2>4. CASE DelAttr(o, n)
    BY <2>4, UncachedKeeps
  <2>5. ASSUME NEW s \in DeleteSites, DelAttrHit(s, o)
        PROVE  LookupInv'
    BY <1>1, <2>5, MutationHitKeeps DEF DelAttrHit
  <2>6. ASSUME NEW s \in DeleteSites, DelAttrMiss(s, o)
        PROVE  LookupInv'
    BY <2>6, DelAttrKeeps
  <2>. QED BY <2>1, <2>2, <2>3, <2>4, <2>5, <2>6 DEF Named
<1>5. ASSUME ChangeClassStep PROVE LookupInv'
  BY <1>5, ChangeClassKeeps DEF ChangeClassStep
<1>6. ASSUME CallClassStep PROVE LookupInv'
  BY <1>6, CallClassKeeps, StutterKeeps DEF CallClassStep, CallClassHit
<1>. QED BY <1>2, <1>3, <1>4, <1>5, <1>6, StutterKeeps DEF Next

(* The invariant holds throughout: every entry whose cell is valid still   *)
(* says what the search it was filled from would find.                     *)
THEOREM LookupInvariant == Spec => []LookupInv
<1>. QED BY InitLookupInv, NextKeeps, PTL DEF Spec

-----------------------------------------------------------------------------
(* A valid cell is attached to every class whose change it must notice:    *)
(* attach_mro_validity_cell, which takes over the places of invalid cells, *)
(* and the two invalidations lose no attachment (class_object.cpp).        *)
THEOREM AttachmentsKept == Spec => []CellsAttached
<1>1. LookupInv => CellsAttached
  <2> SUFFICES ASSUME LookupInv, NEW c \in Classes
               PROVE  /\ lookup.class[c].msc \in lookup.valid =>
                           \A i \in 2 .. Len(Mro[c]) :
                             lookup.class[c].msc \in Range(lookup.class[Mro[c][i]].contentsList)
                      /\ lookup.class[c].msm \in lookup.valid =>
                           /\ \A i \in 2 .. Len(Mro[c]) :
                                lookup.class[c].msm \in Range(lookup.class[Mro[c][i]].shapeList)
                           /\ c # TypeClass =>
                                \A b \in Range(Mro[TypeClass]) :
                                  lookup.class[c].msm \in Range(lookup.class[b].contentsList)
    BY DEF CellsAttached
  <2>1. MscAttached(lookup, c) /\ MsmAttached(lookup, c)
    BY DEF LookupInv, LookupOK
  <2>. QED BY <2>1 DEF MscAttached, MsmAttached, Bases
<1>. QED BY <1>1, LookupInvariant, PTL

(* A read through a matching inline cache selects the slot that a full     *)
(* lookup would select now (op_load_attr, resolve_attr_read_descriptor).   *)
THEOREM CachedReadsRight == Spec => []CachedReadSelectsSameSlot
<1>1. LookupInv => CachedReadSelectsSameSlot
  <2> SUFFICES ASSUME LookupInv, NEW s \in ReadSites, NEW o \in Objects, Matches(readCache[s], o)
               PROVE  /\ ResolveRead(o, SiteName[s]).found
                      /\ ResolveRead(o, SiteName[s]).owner = readCache[s].plan.owner
                      /\ ResolveRead(o, SiteName[s]).slot = readCache[s].plan.slot
    BY DEF CachedReadSelectsSameSlot
  <2>1. PICK e : e = readCache[s]
    OBVIOUS
  <2>2. PICK n : n = SiteName[s]
    OBVIOUS
  <2>3. ShapesOK /\ ReadOK(e, n) /\ e.shape = shape[o] /\ e.cell \in lookup.valid /\ TypeClass \in Classes
    BY <2>1, <2>2, LookupConstants DEF LookupInv, Matches
  <2>4. PICK r : r = ResolveRead(o, n)
    OBVIOUS
  <2>5. ASSUME NEW c \in Classes, NEW path, SelectsFrom(c, n, e.plan)
        PROVE  /\ ClassifiedRead(c, n, path).found
               /\ WithCell(ClassifiedRead(c, n, path), "msm").found
               /\ ClassifiedRead(c, n, path).owner = e.plan.owner
               /\ ClassifiedRead(c, n, path).slot = e.plan.slot
               /\ WithCell(ClassifiedRead(c, n, path), "msm").owner = e.plan.owner
               /\ WithCell(ClassifiedRead(c, n, path), "msm").slot = e.plan.slot
    <3>1. ChainOwner(c, n) # None /\ e.plan.owner = ChainOwner(c, n) /\ e.plan.slot = shape[ChainOwner(c, n)].slots[n]
      BY <2>5 DEF SelectsFrom
    <3>2. PICK own, sl, val, kd :
            /\ ClassifiedRead(c, n, path) = [found |-> TRUE, owner |-> own, slot |-> sl, value |-> val, kind |-> kd, cell |-> "none"]
            /\ own = e.plan.owner /\ sl = e.plan.slot
      BY <3>1, Classified
    <3>. QED BY <3>2 DEF WithCell
  <2>6. ASSUME o \in Classes
        PROVE  r.found /\ r.owner = e.plan.owner /\ r.slot = e.plan.slot
    <3>1. shape[o].root = <<"class", o>> /\ <<"class", o>>[1] = "class"
      BY <2>3, <2>6 DEF ShapesOK
    <3>2. ClassReadOK(e, n)
      BY <2>3, <3>1 DEF ReadOK
    <3>3. PICK c \in Classes :
            /\ e.shape.root = <<"class", c>>
            /\ \/ SelectsFrom(c, n, e.plan)
               \/ c # TypeClass /\ ChainOwner(c, n) = None /\ SelectsFrom(TypeClass, n, e.plan)
      BY <3>2 DEF ClassReadOK
    <3>4. c = o
      BY <2>3, <3>1, <3>3
    <3>5. r = IF ClassifiedRead(o, n, "ClassObjectChain").found THEN WithCell(ClassifiedRead(o, n, "ClassObjectChain"), "msm")
              ELSE IF o = TypeClass THEN NotFound
              ELSE WithCell(ClassifiedRead(TypeClass, n, "MetaclassChain"), "msm")
      BY <2>4, <2>6 DEF ResolveRead, IsClassObject, ResolveClassRead
    <3>6. CASE SelectsFrom(o, n, e.plan)
      BY <2>5, <2>6, <3>5, <3>6
    <3>7. CASE o # TypeClass /\ ChainOwner(o, n) = None /\ SelectsFrom(TypeClass, n, e.plan)
      <4>1. ~ClassifiedRead(o, n, "ClassObjectChain").found
        BY <2>6, <3>7, Classified DEF NotFound
      <4>2. r = WithCell(ClassifiedRead(TypeClass, n, "MetaclassChain"), "msm")
        BY <3>5, <3>7, <4>1
      <4>. QED BY <2>3, <2>5, <3>7, <4>2
    <3>. QED BY <3>3, <3>4, <3>6, <3>7
  <2>7. ASSUME o \in Instances
        PROVE  r.found /\ r.owner = e.plan.owner /\ r.slot = e.plan.slot
    <3>1. PICK c \in Classes : c = shape[o].cls /\ c = ClassOf(o) /\ shape[o].root[1] # "class" /\ o \notin Classes
      BY <2>3, <2>7, LookupConstants DEF ShapesOK, ClassOf
    <3>2. ~ClassReadOK(e, n)
      BY <2>3, <3>1 DEF ClassReadOK
    <3>3. PICK d : d = ClassifiedRead(c, n, "InstanceClassChain")
      OBVIOUS
    <3>4. r = IF d.found /\ d.kind = "DataDescriptorGet" THEN d
              ELSE IF Present(o, n) THEN OwnRead(o, n, Blocked(d)) ELSE WithCell(d, "msm")
      <4>1. ResolveRead(o, n) =
              IF ClassifiedRead(ClassOf(o), n, "InstanceClassChain").found
                 /\ ClassifiedRead(ClassOf(o), n, "InstanceClassChain").kind = "DataDescriptorGet"
              THEN ClassifiedRead(ClassOf(o), n, "InstanceClassChain")
              ELSE IF Present(o, n)
              THEN OwnRead(o, n, Blocked(ClassifiedRead(ClassOf(o), n, "InstanceClassChain")))
              ELSE WithCell(ClassifiedRead(ClassOf(o), n, "InstanceClassChain"), "msm")
        BY <3>1 DEF ResolveRead, IsClassObject
      <4>. QED BY <2>4, <3>1, <3>3, <4>1
    <3>5. CASE OwnReadOK(e, n)
      <4>1. Present(o, n) /\ e.plan.owner = None /\ e.plan.slot = shape[o].slots[n] /\ NothingWins(c, n)
        BY <2>3, <3>1, <3>5 DEF OwnReadOK, Present
      <4>2. ~(d.found /\ d.kind = "DataDescriptorGet")
        <5>1. CASE ChainOwner(c, n) = None
          BY <3>3, <5>1, Classified DEF NotFound
        <5>2. CASE ChainOwner(c, n) # None
          <6>1. d.kind = PlanKind("InstanceClassChain", ChainValue(c, n))
            BY <3>3, <5>2, Classified
          <6>2. ~HasProtocol(ChainValue(c, n), Get)
            BY <4>1, <5>2 DEF NothingWins, Settled, HasProtocol
          <6>. QED BY <6>1, <6>2 DEF PlanKind
        <5>. QED BY <5>1, <5>2
      <4>3. r = OwnRead(o, n, Blocked(d))
        BY <3>4, <4>1, <4>2
      <4>. QED BY <4>1, <4>3 DEF OwnRead
    <3>6. CASE ChainReadOK(e, n)
      <4>1. ~Present(o, n) /\ SelectsFrom(c, n, e.plan)
        BY <2>3, <3>1, <3>6 DEF ChainReadOK, Present
      <4>. QED BY <2>5, <3>3, <3>4, <4>1
    <3>. QED BY <2>3, <3>2, <3>5, <3>6 DEF ReadOK
  <2>. QED BY <2>1, <2>2, <2>4, <2>6, <2>7 DEF Objects
<1>. QED BY <1>1, LookupInvariant, PTL

(* A store or delete through a matching cache is one that a full lookup    *)
(* would allow now, with the same plan (op_store_attr, op_del_attr).       *)
THEOREM CachedMutationsRight == Spec => []CachedMutationAllowed
<1>1. LookupInv => CachedMutationAllowed
  <2> SUFFICES ASSUME LookupInv, NEW s \in MutationSites, NEW o \in Objects, Matches(mutationCache[s], o),
                      mutationCache[s].plan.kind # "AddOwnProperty"
               PROVE  LET w == IF s \in StoreSites THEN ResolveWrite(o, SiteName[s])
                               ELSE ResolveDelete(o, SiteName[s])
                      IN  w.status = "Found" /\ w.plan = mutationCache[s].plan
    BY DEF CachedMutationAllowed
  <2>1. PICK plan : plan = mutationCache[s].plan
    OBVIOUS
  <2>2. PICK n : n = SiteName[s]
    OBVIOUS
  <2>3. ShapesOK /\ PlanStands(s, shape[o], plan) /\ shape[o].cls \in Classes
    BY <2>1 DEF LookupInv, MutationOK, Matches
  <2>4. PICK c \in Classes : c = shape[o].cls
    BY <2>3
  <2>5. /\ Present(o, n) /\ plan = SitePlan(s, shape[o])
        /\ ChainOwner(c, n) # None => Settled(ChainValue(c, n), Set)
        /\ s \in DeleteSites => \A f \in Frozen : shape[o].root # <<"class", f>>
    BY <2>2, <2>3, <2>4 DEF PlanStands, Present
  <2>6. ~MutatingDescriptor(Superseded(o, n))
    <3>1. PICK d : d = Superseded(o, n) /\ d = ClassifiedRead(c, n, "ClassObjectChain")
      BY <2>4 DEF Superseded, ClassOf
    <3>2. CASE ChainOwner(c, n) = None
      BY <3>1, <3>2, Classified DEF NotFound, MutatingDescriptor
    <3>3. CASE ChainOwner(c, n) # None
      <4>1. d.value = ChainValue(c, n)
        BY <3>1, <3>3, Classified
      <4>. QED BY <2>5, <3>1, <3>3, <4>1 DEF MutatingDescriptor, Settled, HasProtocol
    <3>. QED BY <3>2, <3>3
  <2>7. CASE s \in StoreSites
    <3>1. ResolveWrite(o, n).status = "Found"
          /\ ResolveWrite(o, n).plan = [kind |-> "StoreExisting", slot |-> shape[o].slots[n]]
      BY <2>5, <2>6 DEF ResolveWrite
    <3>. QED BY <2>1, <2>2, <2>5, <2>7, <3>1 DEF SitePlan
  <2>8. CASE s \notin StoreSites
    <3>1. s \in DeleteSites
      BY <2>8 DEF MutationSites
    <3>2. ~IsImmutable(o)
      BY <2>3, <2>5, <3>1, LookupConstants DEF IsImmutable, ShapesOK
    <3>3. ResolveDelete(o, n).status = "Found"
          /\ ResolveDelete(o, n).plan = [kind |-> "DeleteOwnProperty", slot |-> shape[o].slots[n],
                                         next |-> DeriveDeleteTransition(shape[o], n)]
      BY <2>5, <2>6, <3>2 DEF ResolveDelete
    <3>. QED BY <2>1, <2>2, <2>5, <2>8, <3>3 DEF SitePlan
  <2>. QED BY <2>7, <2>8
<1>. QED BY <1>1, LookupInvariant, PTL

(* The thunk a class hands out, and the thunk a matching call cache        *)
(* enters, are those of the __new__ and __init__ found now                 *)
(* (get_or_create_constructor_thunk, function_call_cache_matches).         *)
THEOREM ThunksStayCurrent == Spec => []ThunksCurrent
<1>1. LookupInv => ThunksCurrent
  BY DEF LookupInv, ThunksCurrent, ThunkOK, CallOK, CallMatches
<1>. QED BY <1>1, LookupInvariant, PTL
=============================================================================
