----------------------------- MODULE ListProofs -----------------------------
(***************************************************************************)
(* Lists for any elements, any tuples, any number of lists and any bound   *)
(* on their length.  The counts are conserved: every write to a cell takes *)
(* one reference and gives one back, so, with Base(l) the references that  *)
(* the other lists hold, the counts of an array are Base(l) plus its own   *)
(* cells (Counted), in the middle of an operation as well.  Each loop of   *)
(* an operation is one lemma: the loop is a function over 0 .. n, which    *)
(* exists because every step stays within the arrays that are counted and  *)
(* have the contents reached so far.  From the contents that the native    *)
(* loops leave follows the step of the abstract list.                      *)
(***************************************************************************)
EXTENDS ListObjects, ArithmeticLemmas, SequenceTheorems

Words == Elements \cup {NoneWord, NotPresentWord, ZeroWord}
ArrayRecords == [size : Nat, cells : Seq(Words), refs : [Elements -> Int]]
Fields3(n, s, r) == [size |-> n, cells |-> s, refs |-> r]

Holding(s, e) == {k \in 1 .. Len(s) : s[k] = e}
Held(s, e) == Cardinality(Holding(s, e))

\* The counts of the array a are right when base counts the cells of the other lists.
Counted(a, base) ==
  /\ a \in ArrayRecords /\ a.size <= Len(a.cells)
  /\ \A k \in 1 .. Len(a.cells) : k > a.size => a.cells[k] \notin Elements
  /\ \A e \in Elements : a.refs[e] = base[e] + Held(a.cells, e)
-----------------------------------------------------------------------------
Loops(f, n, init, step, P) ==
  /\ f = [i \in 0 .. n |-> IF i = 0 THEN init ELSE step[<<f[i - 1], i>>]]
  /\ \A i \in 0 .. n : f[i] \in P[i]

(* A loop that keeps to the sets P[0], ..., P[n] exists and ends in P[n].  *)
LEMMA LoopReaches ==
  ASSUME NEW n \in Nat, NEW init, NEW P, NEW step, init \in P[0],
         \A i \in 1 .. n : \A x \in P[i - 1] : step[<<x, i>>] \in P[i]
  PROVE  \E f : Loops(f, n, init, step, P)
<1>1. PICK f : f = [i \in 0 .. n |-> IF i = 0 THEN init ELSE step[<<f[i - 1], i>>]]
  <2>1. \E f : Recursion(f, n, init, step)
    BY RecursionExists
  <2>. QED BY <2>1 DEF Recursion
<1>. DEFINE Q == [i \in 0 .. n |-> f[i] \in P[i]]
<1>2. Q[0]
  <2>1. 0 \in 0 .. n
    OBVIOUS
  <2>2. f[0] \in P[0]
    BY <1>1, <2>1
  <2>. QED BY <2>1, <2>2
<1>3. \A i \in 1 .. n : Q[i - 1] => Q[i]
  <2>1. ASSUME NEW i \in 1 .. n, Q[i - 1] PROVE Q[i]
    <3>1. i \in 0 .. n /\ i - 1 \in 0 .. n /\ i # 0
      OBVIOUS
    <3>2. f[i] = step[<<f[i - 1], i>>] /\ f[i - 1] \in P[i - 1]
      BY <1>1, <2>1, <3>1
    <3>. QED BY <3>1, <3>2
  <2>. QED BY <2>1
<1>4. \A i \in 0 .. n : Q[i]
  <2>. HIDE DEF Q
  <2>. QED BY <1>2, <1>3, UpTo
<1>. QED BY <1>1, <1>4 DEF Loops

\* What the first element satisfies and every round keeps, the last satisfies.
LEMMA LoopKeeps ==
  ASSUME NEW n \in Nat, NEW g, NEW P, g[0] \in P[0],
         \A i \in 1 .. n : g[i - 1] \in P[i - 1] => g[i] \in P[i]
  PROVE  g[n] \in P[n]
<1>. DEFINE Q == [i \in 0 .. n |-> g[i] \in P[i]]
<1>1. Q[0]
  <2>1. 0 \in 0 .. n
    OBVIOUS
  <2>. QED BY <2>1
<1>2. \A i \in 1 .. n : Q[i - 1] => Q[i]
  <2>1. ASSUME NEW i \in 1 .. n, Q[i - 1] PROVE Q[i]
    <3>1. i \in 0 .. n /\ i - 1 \in 0 .. n
      OBVIOUS
    <3>. QED BY <2>1, <3>1
  <2>. QED BY <2>1
<1>3. n \in 0 .. n /\ \A i \in 0 .. n : Q[i]
  <2>. HIDE DEF Q
  <2>. QED BY <1>1, <1>2, UpTo
<1>. QED BY <1>3
-----------------------------------------------------------------------------
\* Cells that hold an element can be counted.
LEMMA HeldIs ==
  ASSUME NEW s \in Seq(Words), NEW e
  PROVE  IsFiniteSet(Holding(s, e)) /\ Held(s, e) \in Nat
<1>1. Len(s) \in Nat
  OBVIOUS
<1>2. IsFiniteSet(1 .. Len(s)) /\ Holding(s, e) \subseteq 1 .. Len(s)
  BY <1>1, FS_Interval DEF Holding
<1>3. IsFiniteSet(Holding(s, e))
  BY <1>2, FS_Subset
<1>. QED BY <1>3, FS_CardinalityType DEF Held

Is(v, e) == IF v = e THEN 1 ELSE 0

\* Overwriting a cell moves one reference from the old word to the new one.
LEMMA HeldPut ==
  ASSUME NEW s \in Seq(Words), NEW k \in 1 .. Len(s), NEW v \in Words
  PROVE  LET t == [s EXCEPT ![k] = v]
         IN  /\ t \in Seq(Words) /\ Len(t) = Len(s) /\ t[k] = v
             /\ \A j \in 1 .. Len(s) : j # k => t[j] = s[j]
             /\ \A e \in Elements : Held(t, e) = Held(s, e) - Is(s[k], e) + Is(v, e)
<1>. DEFINE t == [s EXCEPT ![k] = v]
<1>1. t \in Seq(Words) /\ Len(t) = Len(s) /\ t[k] = v /\ \A j \in 1 .. Len(s) : j # k => t[j] = s[j]
  OBVIOUS
<1>. HIDE DEF t
<1>2. ASSUME NEW e \in Elements PROVE Held(t, e) = Held(s, e) - Is(s[k], e) + Is(v, e)
  <2>. DEFINE O == Holding(s, e) \ {k}
  <2>1. IsFiniteSet(O) /\ k \notin O
    <3>1. IsFiniteSet(Holding(s, e))
      BY HeldIs
    <3>. QED BY <3>1, FS_Subset
  <2>2. Holding(s, e) = IF s[k] = e THEN O \cup {k} ELSE O
    BY DEF Holding
  <2>3. Holding(t, e) = IF v = e THEN O \cup {k} ELSE O
    BY <1>1 DEF Holding
  <2>4. Cardinality(O) \in Nat /\ Cardinality(O \cup {k}) = Cardinality(O) + 1
    <3>. HIDE DEF O
    <3>1. Cardinality(O) \in Nat
      BY <2>1, FS_CardinalityType
    <3>2. Cardinality(O \cup {k}) = Cardinality(O) + 1
      BY <2>1, FS_AddElement
    <3>. QED BY <3>1, <3>2
  <2>. HIDE DEF O
  <2>. QED BY <2>2, <2>3, <2>4 DEF Held, Is
<1>. QED BY <1>1, <1>2 DEF t

\* Incref and Decref change the count of their word only, and of no uncounted word.
LEMMA CountIs ==
  ASSUME NEW r \in [Elements -> Int], NEW v
  PROVE  /\ Incref(r, v) \in [Elements -> Int] /\ Decref(r, v) \in [Elements -> Int]
         /\ \A e \in Elements : Incref(r, v)[e] = r[e] + Is(v, e) /\ Decref(r, v)[e] = r[e] - Is(v, e)
<1>1. CASE v \in Elements
  BY <1>1 DEF Incref, Decref, Is
<1>2. CASE v \notin Elements
  <2>1. Incref(r, v) = r /\ Decref(r, v) = r /\ \A e \in Elements : Is(v, e) = 0
    BY <1>2 DEF Incref, Decref, Is
  <2>. QED BY <2>1
<1>. QED BY <1>1, <1>2

\* An array record and its fields.
LEMMA FieldsAre ==
  ASSUME NEW a \in ArrayRecords
  PROVE  /\ a = Fields3(a.size, a.cells, a.refs)
         /\ a.size \in Nat /\ a.cells \in Seq(Words) /\ a.refs \in [Elements -> Int] /\ Len(a.cells) \in Nat
         /\ \A k \in 1 .. Len(a.cells) : a.cells[k] \in Words
BY DEF ArrayRecords, Fields3

\* Setting the size leaves cells and counts alone.
LEMMA SizeIs ==
  ASSUME NEW a \in ArrayRecords, NEW n
  PROVE  [a EXCEPT !.size = n] = Fields3(n, a.cells, a.refs)
BY FieldsAre DEF Fields3

\* Fields of the right types make an array record.
LEMMA FieldsTyped ==
  ASSUME NEW n \in Nat, NEW s \in Seq(Words), NEW r \in [Elements -> Int]
  PROVE  /\ Fields3(n, s, r) \in ArrayRecords
         /\ Fields3(n, s, r).size = n /\ Fields3(n, s, r).cells = s /\ Fields3(n, s, r).refs = r
BY DEF Fields3, ArrayRecords

(* set: the old word is released, the new one counted.                     *)
LEMMA SetOK ==
  ASSUME NEW a, NEW base \in [Elements -> Int], Counted(a, base), NEW k \in 1 .. a.size, NEW v \in Words
  PROVE  LET b == Set(a, k, v)
         IN  /\ Counted(b, base) /\ b.size = a.size /\ Len(b.cells) = Len(a.cells) /\ b.cells[k] = v
             /\ \A j \in 1 .. Len(a.cells) : j # k => b.cells[j] = a.cells[j]
<1>1. /\ a \in ArrayRecords /\ a.size \in Nat /\ a.cells \in Seq(Words) /\ a.refs \in [Elements -> Int]
      /\ Len(a.cells) \in Nat /\ a.size <= Len(a.cells) /\ k \in 1 .. Len(a.cells)
  BY FieldsAre DEF Counted
<1>. DEFINE s == [a.cells EXCEPT ![k] = v]
            r == Incref(Decref(a.refs, a.cells[k]), v)
            b == Fields3(a.size, s, r)
<1>2. Set(a, k, v) = b
  BY DEF Set, Put, Fields3
<1>3. /\ s \in Seq(Words) /\ Len(s) = Len(a.cells) /\ s[k] = v
      /\ \A j \in 1 .. Len(a.cells) : j # k => s[j] = a.cells[j]
      /\ \A e \in Elements : Held(s, e) = Held(a.cells, e) - Is(a.cells[k], e) + Is(v, e)
  <2>. DEFINE c == a.cells
              t == [c EXCEPT ![k] = v]
  <2>1. c \in Seq(Words) /\ k \in 1 .. Len(c)
    BY <1>1
  <2>. HIDE DEF c
  <2>2. /\ t \in Seq(Words) /\ Len(t) = Len(c) /\ t[k] = v
        /\ \A j \in 1 .. Len(c) : j # k => t[j] = c[j]
        /\ \A e \in Elements : Held(t, e) = Held(c, e) - Is(c[k], e) + Is(v, e)
    BY <2>1, HeldPut
  <2>. HIDE DEF t
  <2>3. s = t
    BY DEF t, c
  <2>. HIDE DEF s
  <2>. QED BY <2>2, <2>3 DEF c
<1>4. r \in [Elements -> Int] /\ \A e \in Elements : r[e] = a.refs[e] - Is(a.cells[k], e) + Is(v, e)
  <2>. DEFINE q == Decref(a.refs, a.cells[k])
  <2>1. q \in [Elements -> Int] /\ \A e \in Elements : q[e] = a.refs[e] - Is(a.cells[k], e)
    BY <1>1, CountIs
  <2>. HIDE DEF q
  <2>2. Incref(q, v) \in [Elements -> Int] /\ \A e \in Elements : Incref(q, v)[e] = q[e] + Is(v, e)
    BY <2>1, CountIs
  <2>. QED BY <2>1, <2>2 DEF q
<1>. HIDE DEF s, r
<1>5. b \in ArrayRecords /\ b.size = a.size /\ b.cells = s /\ b.refs = r
  BY <1>1, <1>3, <1>4, FieldsTyped
<1>. HIDE DEF b
<1>6. \A j \in 1 .. Len(s) : j > a.size => s[j] \notin Elements
  BY <1>1, <1>3 DEF Counted
<1>7. ASSUME NEW e \in Elements PROVE r[e] = base[e] + Held(s, e)
  <2>1. a.refs[e] = base[e] + Held(a.cells, e) /\ Held(a.cells, e) \in Nat /\ base[e] \in Int /\ a.refs[e] \in Int
    BY <1>1, HeldIs DEF Counted
  <2>2. Is(v, e) \in Int /\ Is(a.cells[k], e) \in Int
    BY DEF Is
  <2>. QED BY <1>3, <1>4, <2>1, <2>2
<1>. QED BY <1>1, <1>2, <1>3, <1>5, <1>6, <1>7 DEF Counted
-----------------------------------------------------------------------------
\* The cells among the first k that hold e
UpHolding(s, k, e) == {j \in 1 .. k : s[j] = e}
UpHeld(s, k, e) == Cardinality(UpHolding(s, k, e))

\* The references in the first k cells, one cell at a time.
LEMMA UpHeldIs ==
  ASSUME NEW s \in Seq(Words), NEW k \in 1 .. Len(s), NEW e
  PROVE  /\ UpHeld(s, 0, e) = 0 /\ UpHeld(s, k - 1, e) \in Nat
         /\ UpHeld(s, k, e) = UpHeld(s, k - 1, e) + Is(s[k], e)
<1>1. k \in Nat /\ k - 1 \in Nat /\ k \notin 1 .. (k - 1) /\ 1 .. k = (1 .. (k - 1)) \cup {k}
  OBVIOUS
<1>2. UpHeld(s, 0, e) = 0
  <2>1. UpHolding(s, 0, e) = {}
    BY DEF UpHolding
  <2>. QED BY <2>1, FS_EmptySet DEF UpHeld
<1>. DEFINE O == UpHolding(s, k - 1, e)
<1>3. IsFiniteSet(O) /\ k \notin O
  <2>1. IsFiniteSet(1 .. (k - 1)) /\ O \subseteq 1 .. (k - 1)
    BY <1>1, FS_Interval DEF UpHolding
  <2>2. IsFiniteSet(O)
    BY <2>1, FS_Subset
  <2>. QED BY <2>1, <2>2, <1>1
<1>4. UpHolding(s, k, e) = IF s[k] = e THEN O \cup {k} ELSE O
  BY <1>1 DEF UpHolding
<1>5. Cardinality(O) \in Nat /\ Cardinality(O \cup {k}) = Cardinality(O) + 1
  <2>. HIDE DEF O
  <2>1. Cardinality(O) \in Nat
    BY <1>3, FS_CardinalityType
  <2>. QED BY <1>3, <2>1, FS_AddElement
<1>. HIDE DEF O
<1>6. UpHeld(s, k, e) = Cardinality(UpHolding(s, k, e)) /\ UpHeld(s, k - 1, e) = Cardinality(O)
  BY DEF UpHeld, O
<1>. QED BY <1>2, <1>4, <1>5, <1>6 DEF Is

(* The cells that a backing's count covers are released, each once.        *)
LEMMA ReleaseOK ==
  ASSUME NEW r \in [Elements -> Int], NEW s \in Seq(Words), NEW count \in 0 .. Len(s)
  PROVE  /\ ReleaseBacking(r, s, count) \in [Elements -> Int]
         /\ \A e \in Elements : ReleaseBacking(r, s, count)[e] = r[e] - UpHeld(s, count, e)
<1>. DEFINE n == count
            first == r
            Good(i) == {q \in [Elements -> Int] : \A e \in Elements : q[e] = r[e] - UpHeld(s, i, e)}
            Body(x, i) == Decref(x, s[i])
<1>1. n \in Nat
  OBVIOUS
<1>2. first \in Good(0)
  <2>1. \A e : UpHeld(s, 0, e) = 0
    <3>1. \A e : UpHolding(s, 0, e) = {}
      BY DEF UpHolding
    <3>. QED BY <3>1, FS_EmptySet DEF UpHeld
  <2>. QED BY <2>1
<1>3. \A i \in 1 .. n : \A x \in Good(i - 1) : Body(x, i) \in Good(i)
  <2>1. ASSUME NEW i \in 1 .. n, NEW x \in Good(i - 1) PROVE Body(x, i) \in Good(i)
    <3>1. i \in 1 .. Len(s) /\ x \in [Elements -> Int]
      OBVIOUS
    <3>2. /\ Decref(x, s[i]) \in [Elements -> Int]
          /\ \A e \in Elements : Decref(x, s[i])[e] = x[e] - Is(s[i], e)
      BY <3>1, CountIs
    <3>3. ASSUME NEW e \in Elements PROVE Decref(x, s[i])[e] = r[e] - UpHeld(s, i, e)
      <4>1. UpHeld(s, i - 1, e) \in Nat /\ UpHeld(s, i, e) = UpHeld(s, i - 1, e) + Is(s[i], e)
        BY <3>1, UpHeldIs
      <4>2. x[e] = r[e] - UpHeld(s, i - 1, e) /\ r[e] \in Int /\ Is(s[i], e) \in Int
        BY DEF Is
      <4>3. Decref(x, s[i])[e] = x[e] - Is(s[i], e)
        BY <3>2
      <4>. QED BY <4>1, <4>2, <4>3
    <3>. QED BY <3>2, <3>3
  <2>. QED BY <2>1
<1>. HIDE DEF Good, Body, n, first
<1>. DEFINE P == [i \in 0 .. n |-> Good(i)]
            X == UNION {Good(i) : i \in 0 .. n}
            step == [y \in X \X (1 .. n) |-> Body(y[1], y[2])]
<1>4. 0 \in 0 .. n /\ n \in 0 .. n /\ \A i \in 1 .. n : i \in 0 .. n /\ i - 1 \in 0 .. n /\ i # 0
  BY <1>1
<1>5. \A i \in 0 .. n : P[i] = Good(i) /\ \A x \in P[i] : x \in X
  OBVIOUS
<1>6. \A i \in 1 .. n : \A x \in P[i - 1] : step[<<x, i>>] = Body(x, i) /\ step[<<x, i>>] \in P[i]
  <2>1. ASSUME NEW i \in 1 .. n, NEW x \in P[i - 1]
        PROVE  step[<<x, i>>] = Body(x, i) /\ step[<<x, i>>] \in P[i]
    <3>1. x \in Good(i - 1) /\ x \in X /\ P[i] = Good(i)
      BY <1>4, <1>5
    <3>2. step[<<x, i>>] = Body(x, i)
      BY <3>1
    <3>. QED BY <3>1, <3>2, <1>3
  <2>. QED BY <2>1
<1>7. first \in P[0]
  BY <1>4, <1>5, <1>2
<1>. HIDE DEF P, X, step
<1>8. PICK f : /\ f = [i \in 0 .. n |-> IF i = 0 THEN first ELSE step[<<f[i - 1], i>>]]
              /\ \A i \in 0 .. n : f[i] \in P[i]
  <2>1. \A i \in 1 .. n : \A x \in P[i - 1] : step[<<x, i>>] \in P[i]
    BY <1>6
  <2>2. \E f : Loops(f, n, first, step, P)
    BY <2>1, <1>7, <1>1, LoopReaches
  <2>. QED BY <2>2 DEF Loops
<1>9. f = [i \in 0 .. n |-> IF i = 0 THEN first ELSE Body(f[i - 1], i)]
  <2>1. ASSUME NEW i \in 0 .. n
        PROVE  (IF i = 0 THEN first ELSE step[<<f[i - 1], i>>]) = (IF i = 0 THEN first ELSE Body(f[i - 1], i))
    <3>1. CASE i # 0
      <4>1. i \in 1 .. n /\ i - 1 \in 0 .. n
        BY <1>4, <3>1, <1>1
      <4>2. f[i - 1] \in P[i - 1]
        BY <4>1, <1>8
      <4>. QED BY <4>1, <4>2, <1>6
    <3>. QED BY <3>1
  <2>. QED BY <2>1, <1>8
<1>. DEFINE g == CHOOSE h : h = [i \in 0 .. n |-> IF i = 0 THEN first ELSE Body(h[i - 1], i)]
<1>10. g = [i \in 0 .. n |-> IF i = 0 THEN first ELSE Body(g[i - 1], i)]
  BY <1>9
<1>. HIDE DEF g
<1>11. g[n] \in Good(n)
  <2>1. g[0] \in P[0]
    BY <1>4, <1>7, <1>10
  <2>2. \A i \in 1 .. n : g[i - 1] \in P[i - 1] => g[i] \in P[i]
    BY <1>4, <1>6, <1>10
  <2>3. g[n] \in P[n]
    BY <2>1, <2>2, <1>1, LoopKeeps
  <2>. QED BY <2>3, <1>4, <1>5
<1>12. ReleaseBacking(r, s, count) = g[n]
  BY DEF ReleaseBacking, g, Body, n, first
<1>. QED BY <1>11, <1>12 DEF Good, n

\* Releasing no cells (move_to_new_backing) changes no count.
LEMMA ReleaseNone ==
  ASSUME NEW r \in [Elements -> Int], NEW s \in Seq(Words)
  PROVE  ReleaseBacking(r, s, 0) = r
<1>1. 0 \in 0 .. Len(s) /\ \A e : UpHeld(s, 0, e) = 0
  <2>1. \A e : UpHolding(s, 0, e) = {}
    BY DEF UpHolding
  <2>2. \A e : UpHeld(s, 0, e) = 0
    BY <2>1, FS_EmptySet DEF UpHeld
  <2>3. 0 \in 0 .. Len(s)
    OBVIOUS
  <2>. QED BY <2>2, <2>3
<1>2. /\ ReleaseBacking(r, s, 0) \in [Elements -> Int]
      /\ \A e \in Elements : ReleaseBacking(r, s, 0)[e] = r[e] - UpHeld(s, 0, e)
  BY <1>1, ReleaseOK
<1>. DEFINE q == ReleaseBacking(r, s, 0)
<1>. HIDE DEF q
<1>3. q \in [Elements -> Int] /\ \A e \in Elements : q[e] = r[e] /\ r[e] \in Int
  BY <1>1, <1>2 DEF q
<1>4. q = r
  BY <1>3
<1>. QED BY <1>4 DEF q

\* Releasing a whole backing takes back the references of all its cells.
LEMMA ReleaseAll ==
  ASSUME NEW r \in [Elements -> Int], NEW s \in Seq(Words)
  PROVE  /\ ReleaseBacking(r, s, Len(s)) \in [Elements -> Int]
         /\ \A e \in Elements : ReleaseBacking(r, s, Len(s))[e] = r[e] - Held(s, e)
<1>1. Len(s) \in 0 .. Len(s)
  OBVIOUS
<1>2. \A e : UpHeld(s, Len(s), e) = Held(s, e)
  BY DEF UpHeld, Held, UpHolding, Holding
<1>. QED BY <1>1, <1>2, ReleaseOK
-----------------------------------------------------------------------------
(* Only the elements among the first m words count when none comes later.  *)
LEMMA HeldAgree ==
  ASSUME NEW s \in Seq(Words), NEW t \in Seq(Words), NEW m \in Nat, m <= Len(s), m <= Len(t),
         \A k \in 1 .. m : s[k] = t[k],
         \A k \in 1 .. Len(s) : k > m => s[k] \notin Elements,
         \A k \in 1 .. Len(t) : k > m => t[k] \notin Elements,
         NEW e \in Elements
  PROVE  Held(s, e) = Held(t, e)
<1>1. Len(s) \in Nat /\ Len(t) \in Nat
  OBVIOUS
<1>2. Holding(s, e) = {k \in 1 .. m : s[k] = e} /\ Holding(t, e) = {k \in 1 .. m : t[k] = e}
  BY <1>1 DEF Holding
<1>3. Holding(s, e) = Holding(t, e)
  BY <1>2
<1>. QED BY <1>3 DEF Held

(* reserve: the words move, the counts stay.                               *)
LEMMA ReserveOK ==
  ASSUME NEW a, NEW base \in [Elements -> Int], Counted(a, base), NEW capacity \in Nat
  PROVE  LET b == Reserve(a, capacity)
         IN  /\ Counted(b, base) /\ b.size = a.size /\ capacity <= Len(b.cells)
             /\ \A k \in 1 .. a.size : b.cells[k] = a.cells[k]
<1>1. /\ a \in ArrayRecords /\ a.size \in Nat /\ a.cells \in Seq(Words) /\ a.refs \in [Elements -> Int]
      /\ Len(a.cells) \in Nat /\ a.size <= Len(a.cells) /\ \A k \in 1 .. Len(a.cells) : a.cells[k] \in Words
  BY FieldsAre DEF Counted
<1>2. CASE capacity <= Len(a.cells)
  <2>1. Reserve(a, capacity) = a
    BY <1>2 DEF Reserve
  <2>. QED BY <1>2, <2>1
<1>3. CASE ~ (capacity <= Len(a.cells))
  <2>. DEFINE s == Moved(a, capacity)
              b == Fields3(a.size, s, a.refs)
  <2>1. Reserve(a, capacity) = b
    <3>1. ReleaseBacking(a.refs, a.cells, 0) = a.refs
      BY <1>1, ReleaseNone
    <3>. QED BY <1>3, <3>1 DEF Reserve, Fields3
  <2>2. /\ s \in Seq(Words) /\ Len(s) = capacity /\ a.size <= Len(s)
        /\ \A k \in 1 .. a.size : s[k] = a.cells[k]
        /\ \A k \in 1 .. Len(s) : k > a.size => s[k] \notin Elements
    <3>1. s = [k \in 1 .. capacity |-> IF k <= a.size THEN a.cells[k] ELSE ZeroWord]
      BY DEF Moved
    <3>2. \A k \in 1 .. capacity : (IF k <= a.size THEN a.cells[k] ELSE ZeroWord) \in Words
      BY <1>1 DEF Words
    <3>. HIDE DEF s
    <3>3. s \in Seq(Words) /\ Len(s) = capacity
      BY <3>1, <3>2
    <3>4. ZeroWord \notin Elements
      BY ListConstants
    <3>. QED BY <1>1, <1>3, <3>1, <3>3, <3>4
  <2>. HIDE DEF s
  <2>3. b \in ArrayRecords /\ b.size = a.size /\ b.cells = s /\ b.refs = a.refs
    BY <1>1, <2>2, FieldsTyped
  <2>. HIDE DEF b
  <2>4. ASSUME NEW e \in Elements PROVE a.refs[e] = base[e] + Held(s, e)
    <3>1. \A k \in 1 .. Len(a.cells) : k > a.size => a.cells[k] \notin Elements
      BY DEF Counted
    <3>2. Held(s, e) = Held(a.cells, e)
      BY <1>1, <2>2, <3>1, HeldAgree
    <3>. QED BY <3>2 DEF Counted
  <2>5. Counted(b, base)
    BY <2>2, <2>3, <2>4 DEF Counted
  <2>6. b.size = a.size /\ capacity <= Len(b.cells) /\ \A k \in 1 .. a.size : b.cells[k] = a.cells[k]
    BY <2>2, <2>3
  <2>. QED BY <2>1, <2>5, <2>6
<1>. QED BY <1>2, <1>3

(* A cell past the size takes a word that is counted but not yet an item.  *)
LEMMA PutFree ==
  ASSUME NEW a, NEW base \in [Elements -> Int], Counted(a, base),
         NEW k \in 1 .. Len(a.cells), k > a.size, NEW v \in Words
  PROVE  LET b == Put(a, k, v, Incref(a.refs, v))
         IN  /\ b \in ArrayRecords /\ b.size = a.size /\ Len(b.cells) = Len(a.cells) /\ b.cells[k] = v
             /\ \A j \in 1 .. Len(a.cells) : j # k => b.cells[j] = a.cells[j]
             /\ \A e \in Elements : b.refs[e] = base[e] + Held(b.cells, e)
<1>1. /\ a \in ArrayRecords /\ a.size \in Nat /\ a.cells \in Seq(Words) /\ a.refs \in [Elements -> Int]
      /\ Len(a.cells) \in Nat /\ a.size <= Len(a.cells) /\ k \in 1 .. Len(a.cells)
  BY FieldsAre DEF Counted
<1>. DEFINE s == [a.cells EXCEPT ![k] = v]
            r == Incref(a.refs, v)
            b == Fields3(a.size, s, r)
<1>2. Put(a, k, v, Incref(a.refs, v)) = b
  BY DEF Put, Fields3
<1>3. /\ s \in Seq(Words) /\ Len(s) = Len(a.cells) /\ s[k] = v
      /\ \A j \in 1 .. Len(a.cells) : j # k => s[j] = a.cells[j]
      /\ \A e \in Elements : Held(s, e) = Held(a.cells, e) - Is(a.cells[k], e) + Is(v, e)
  <2>. DEFINE c == a.cells
              t == [c EXCEPT ![k] = v]
  <2>1. c \in Seq(Words) /\ k \in 1 .. Len(c)
    BY <1>1
  <2>. HIDE DEF c
  <2>2. /\ t \in Seq(Words) /\ Len(t) = Len(c) /\ t[k] = v
        /\ \A j \in 1 .. Len(c) : j # k => t[j] = c[j]
        /\ \A e \in Elements : Held(t, e) = Held(c, e) - Is(c[k], e) + Is(v, e)
    BY <2>1, HeldPut
  <2>. HIDE DEF t
  <2>3. s = t
    BY DEF t, c
  <2>. HIDE DEF s
  <2>. QED BY <2>2, <2>3 DEF c
<1>4. r \in [Elements -> Int] /\ \A e \in Elements : r[e] = a.refs[e] + Is(v, e)
  BY <1>1, CountIs
<1>. HIDE DEF s, r
<1>5. b \in ArrayRecords /\ b.size = a.size /\ b.cells = s /\ b.refs = r
  BY <1>1, <1>3, <1>4, FieldsTyped
<1>. HIDE DEF b
<1>6. ASSUME NEW e \in Elements PROVE r[e] = base[e] + Held(s, e)
  <2>1. a.refs[e] = base[e] + Held(a.cells, e) /\ Held(a.cells, e) \in Nat /\ base[e] \in Int /\ a.refs[e] \in Int
    BY <1>1, HeldIs DEF Counted
  <2>2. Is(v, e) \in Int /\ Is(a.cells[k], e) = 0
    <3>1. a.cells[k] \notin Elements
      BY DEF Counted
    <3>. QED BY <3>1 DEF Is
  <2>. QED BY <1>3, <1>4, <2>1, <2>2
<1>. QED BY <1>2, <1>3, <1>5, <1>6

(* emplace_back: one more item, counted once.                              *)
LEMMA PushBackOK ==
  ASSUME NEW a, NEW base \in [Elements -> Int], Counted(a, base), NEW v \in Words
  PROVE  LET b == PushBack(a, v)
         IN  /\ Counted(b, base) /\ b.size = a.size + 1 /\ b.cells[a.size + 1] = v
             /\ \A k \in 1 .. a.size : b.cells[k] = a.cells[k]
<1>. DEFINE room == IF a.size = Len(a.cells) THEN Reserve(a, GrownCapacity(Len(a.cells), a.size + 1)) ELSE a
<1>1. a.size \in Nat /\ Len(a.cells) \in Nat /\ a.size <= Len(a.cells)
  BY FieldsAre DEF Counted
<1>2. /\ Counted(room, base) /\ room.size = a.size /\ a.size + 1 <= Len(room.cells)
      /\ \A k \in 1 .. a.size : room.cells[k] = a.cells[k]
  <2>1. CASE a.size = Len(a.cells)
    <3>. DEFINE c == GrownCapacity(Len(a.cells), a.size + 1)
    <3>1. c \in Nat /\ a.size + 1 <= c
      BY <1>1 DEF GrownCapacity
    <3>. HIDE DEF c
    <3>2. /\ Counted(Reserve(a, c), base) /\ Reserve(a, c).size = a.size /\ c <= Len(Reserve(a, c).cells)
          /\ \A k \in 1 .. a.size : Reserve(a, c).cells[k] = a.cells[k]
      BY <3>1, ReserveOK
    <3>3. Reserve(a, c) \in ArrayRecords
      BY <3>2 DEF Counted
    <3>4. Len(Reserve(a, c).cells) \in Nat
      BY <3>3, FieldsAre
    <3>5. room = Reserve(a, c)
      BY <2>1 DEF c
    <3>. HIDE DEF room
    <3>. QED BY <1>1, <3>1, <3>2, <3>4, <3>5
  <2>2. CASE a.size # Len(a.cells)
    <3>1. room = a
      BY <2>2
    <3>. HIDE DEF room
    <3>. QED BY <1>1, <2>2, <3>1
  <2>. QED BY <2>1, <2>2
<1>3. PushBack(a, v) = [Put(room, a.size + 1, v, Incref(room.refs, v)) EXCEPT !.size = a.size + 1]
  BY DEF PushBack
<1>. HIDE DEF room
<1>. DEFINE p == Put(room, a.size + 1, v, Incref(room.refs, v))
            b == [p EXCEPT !.size = a.size + 1]
<1>4. room \in ArrayRecords /\ Len(room.cells) \in Nat
  <2>1. room \in ArrayRecords
    BY <1>2 DEF Counted
  <2>. QED BY <2>1, FieldsAre
<1>5. /\ p \in ArrayRecords /\ Len(p.cells) = Len(room.cells) /\ p.cells[a.size + 1] = v
      /\ \A j \in 1 .. Len(room.cells) : j # a.size + 1 => p.cells[j] = room.cells[j]
      /\ \A e \in Elements : p.refs[e] = base[e] + Held(p.cells, e)
  <2>1. a.size + 1 \in 1 .. Len(room.cells) /\ a.size + 1 > room.size
    BY <1>1, <1>2, <1>4
  <2>. QED BY <1>2, <2>1, PutFree
<1>. HIDE DEF p
<1>6. /\ b = Fields3(a.size + 1, p.cells, p.refs) /\ b \in ArrayRecords
      /\ b.size = a.size + 1 /\ b.cells = p.cells /\ b.refs = p.refs
  <2>1. b = Fields3(a.size + 1, p.cells, p.refs)
    BY <1>5, SizeIs
  <2>2. a.size + 1 \in Nat /\ p.cells \in Seq(Words) /\ p.refs \in [Elements -> Int]
    BY <1>1, <1>5, FieldsAre
  <2>. HIDE DEF b
  <2>. QED BY <2>1, <2>2, FieldsTyped
<1>7. PushBack(a, v) = b
  BY <1>3 DEF p
<1>. HIDE DEF b
<1>8. \A k \in 1 .. Len(b.cells) : k > a.size + 1 => b.cells[k] \notin Elements
  <2>1. \A k \in 1 .. Len(room.cells) : k > room.size => room.cells[k] \notin Elements
    BY <1>2 DEF Counted
  <2>2. \A k \in 1 .. Len(b.cells) : k > a.size + 1 => k \in 1 .. Len(room.cells) /\ k > room.size /\ k # a.size + 1
    BY <1>1, <1>2, <1>4, <1>5, <1>6
  <2>. QED BY <1>5, <1>6, <2>1, <2>2
<1>9. \A k \in 1 .. a.size : b.cells[k] = a.cells[k]
  BY <1>1, <1>2, <1>4, <1>5, <1>6
<1>10. Counted(b, base)
  BY <1>2, <1>4, <1>5, <1>6, <1>8 DEF Counted
<1>. QED BY <1>5, <1>6, <1>7, <1>9, <1>10

-----------------------------------------------------------------------------
\* The words the array fills cells with are not counted.
LEMMA NoElement == \A w \in {NoneWord, NotPresentWord, ZeroWord} : w \in Words /\ w \notin Elements
BY ListConstants DEF Words

\* What a counted array is made of.
LEMMA CountedIs ==
  ASSUME NEW a, NEW base, Counted(a, base)
  PROVE  /\ a \in ArrayRecords /\ a.size \in Nat /\ a.cells \in Seq(Words) /\ a.refs \in [Elements -> Int]
         /\ Len(a.cells) \in Nat /\ a.size <= Len(a.cells)
         /\ \A k \in 1 .. Len(a.cells) : a.cells[k] \in Words
         /\ \A k \in 1 .. Len(a.cells) : k > a.size => a.cells[k] \notin Elements
BY FieldsAre DEF Counted

(* A cell within the size loses its element.                               *)
LEMMA PutZero ==
  ASSUME NEW a, NEW base \in [Elements -> Int], Counted(a, base), NEW k \in 1 .. a.size
  PROVE  LET b == Put(a, k, ZeroWord, Decref(a.refs, a.cells[k]))
         IN  /\ Counted(b, base) /\ b.size = a.size /\ Len(b.cells) = Len(a.cells) /\ b.cells[k] = ZeroWord
             /\ \A j \in 1 .. Len(a.cells) : j # k => b.cells[j] = a.cells[j]
<1>1. ZeroWord \in Words /\ ZeroWord \notin Elements
  BY NoElement
<1>2. Put(a, k, ZeroWord, Decref(a.refs, a.cells[k])) = Set(a, k, ZeroWord)
  BY <1>1 DEF Set, Incref
<1>3. LET b == Set(a, k, ZeroWord)
      IN  /\ Counted(b, base) /\ b.size = a.size /\ Len(b.cells) = Len(a.cells) /\ b.cells[k] = ZeroWord
          /\ \A j \in 1 .. Len(a.cells) : j # k => b.cells[j] = a.cells[j]
  BY <1>1, SetOK
<1>. QED BY <1>2, <1>3

(* Only the size changes: the cells between hold no element.               *)
CountedUpTo(a, base, n) ==
  /\ a \in ArrayRecords /\ n <= Len(a.cells)
  /\ \A k \in 1 .. Len(a.cells) : k > n => a.cells[k] \notin Elements
  /\ \A e \in Elements : a.refs[e] = base[e] + Held(a.cells, e)

\* An array whose cells past n hold no element can be given the size n.
LEMMA SizeOK ==
  ASSUME NEW a, NEW base, NEW n \in Nat, CountedUpTo(a, base, n)
  PROVE  LET b == [a EXCEPT !.size = n] IN Counted(b, base) /\ b.size = n /\ b.cells = a.cells
<1>. DEFINE b == [a EXCEPT !.size = n]
<1>1. a \in ArrayRecords /\ a.cells \in Seq(Words) /\ a.refs \in [Elements -> Int]
  BY FieldsAre DEF CountedUpTo
<1>2. b = Fields3(n, a.cells, a.refs)
  BY <1>1, SizeIs
<1>. HIDE DEF b
<1>3. b \in ArrayRecords /\ b.size = n /\ b.cells = a.cells /\ b.refs = a.refs
  BY <1>1, <1>2, FieldsTyped
<1>4. Counted(b, base)
  BY <1>3 DEF Counted, CountedUpTo
<1>. QED BY <1>3, <1>4 DEF b

\* Shrinking (clear_elements) releases exactly what is cut off.
LEMMA ClearOK ==
  ASSUME NEW a, NEW base \in [Elements -> Int], Counted(a, base), NEW start \in Nat, start <= a.size
  PROVE  LET b == [ClearElements(a, start, a.size) EXCEPT !.size = start]
         IN  /\ Counted(b, base) /\ b.size = start
             /\ \A k \in 1 .. start : b.cells[k] = a.cells[k]
<1>. DEFINE n == a.size - start
            first == a
            Good(i) == {x \in ArrayRecords :
                          /\ Counted(x, base) /\ x.size = a.size /\ Len(x.cells) = Len(a.cells)
                          /\ \A k \in 1 .. start : x.cells[k] = a.cells[k]
                          /\ \A k \in start + 1 .. start + i : x.cells[k] \notin Elements}
            Body(x, i) == Put(x, start + i, ZeroWord, Decref(x.refs, x.cells[start + i]))
<1>a. a \in ArrayRecords /\ a.size \in Nat /\ Len(a.cells) \in Nat /\ a.size <= Len(a.cells)
  BY CountedIs
<1>1. n \in Nat
  BY <1>a
<1>2. first \in Good(0)
  BY <1>a
<1>3. \A i \in 1 .. n : \A x \in Good(i - 1) : Body(x, i) \in Good(i)
  <2>1. ASSUME NEW i \in 1 .. n, NEW x \in Good(i - 1) PROVE Body(x, i) \in Good(i)
    <3>. DEFINE y == Body(x, i)
    <3>1. start + i \in 1 .. x.size /\ Counted(x, base)
      BY <1>a
    <3>2. /\ Counted(y, base) /\ y.size = x.size /\ Len(y.cells) = Len(x.cells) /\ y.cells[start + i] = ZeroWord
          /\ \A j \in 1 .. Len(x.cells) : j # start + i => y.cells[j] = x.cells[j]
      BY <3>1, PutZero
    <3>. HIDE DEF y
    <3>3. y \in ArrayRecords
      BY <3>2 DEF Counted
    <3>4. \A k \in 1 .. start : y.cells[k] = a.cells[k]
      BY <1>a, <3>1, <3>2
    <3>5. \A k \in start + 1 .. start + i : y.cells[k] \notin Elements
      <4>1. ASSUME NEW k \in start + 1 .. start + i PROVE y.cells[k] \notin Elements
        <5>1. CASE k = start + i
          BY <5>1, <3>2, NoElement
        <5>2. CASE k # start + i
          <6>1. k \in start + 1 .. start + (i - 1) /\ k \in 1 .. Len(x.cells)
            BY <1>a, <5>2
          <6>. QED BY <6>1, <5>2, <3>2
        <5>. QED BY <5>1, <5>2
      <4>. QED BY <4>1
    <3>. QED BY <3>2, <3>3, <3>4, <3>5 DEF y
  <2>. QED BY <2>1
<1>. HIDE DEF Good, Body, n, first
<1>. DEFINE P == [i \in 0 .. n |-> Good(i)]
            X == UNION {Good(i) : i \in 0 .. n}
            step == [y \in X \X (1 .. n) |-> Body(y[1], y[2])]
<1>4. 0 \in 0 .. n /\ n \in 0 .. n /\ \A i \in 1 .. n : i \in 0 .. n /\ i - 1 \in 0 .. n /\ i # 0
  BY <1>1
<1>5. \A i \in 0 .. n : P[i] = Good(i) /\ \A x \in P[i] : x \in X
  OBVIOUS
<1>6. \A i \in 1 .. n : \A x \in P[i - 1] : step[<<x, i>>] = Body(x, i) /\ step[<<x, i>>] \in P[i]
  <2>1. ASSUME NEW i \in 1 .. n, NEW x \in P[i - 1]
        PROVE  step[<<x, i>>] = Body(x, i) /\ step[<<x, i>>] \in P[i]
    <3>1. x \in Good(i - 1) /\ x \in X /\ P[i] = Good(i)
      BY <1>4, <1>5
    <3>2. step[<<x, i>>] = Body(x, i)
      BY <3>1
    <3>. QED BY <3>1, <3>2, <1>3
  <2>. QED BY <2>1
<1>7. first \in P[0]
  BY <1>4, <1>5, <1>2
<1>. HIDE DEF P, X, step
<1>8. PICK f : /\ f = [i \in 0 .. n |-> IF i = 0 THEN first ELSE step[<<f[i - 1], i>>]]
              /\ \A i \in 0 .. n : f[i] \in P[i]
  <2>1. \A i \in 1 .. n : \A x \in P[i - 1] : step[<<x, i>>] \in P[i]
    BY <1>6
  <2>2. \E f : Loops(f, n, first, step, P)
    BY <2>1, <1>7, <1>1, LoopReaches
  <2>. QED BY <2>2 DEF Loops
<1>9. f = [i \in 0 .. n |-> IF i = 0 THEN first ELSE Body(f[i - 1], i)]
  <2>1. ASSUME NEW i \in 0 .. n
        PROVE  (IF i = 0 THEN first ELSE step[<<f[i - 1], i>>]) = (IF i = 0 THEN first ELSE Body(f[i - 1], i))
    <3>1. CASE i # 0
      <4>1. i \in 1 .. n /\ i - 1 \in 0 .. n
        BY <1>4, <3>1, <1>1
      <4>2. f[i - 1] \in P[i - 1]
        BY <4>1, <1>8
      <4>. QED BY <4>1, <4>2, <1>6
    <3>. QED BY <3>1
  <2>. QED BY <2>1, <1>8
<1>. DEFINE g == CHOOSE h : h = [i \in 0 .. n |-> IF i = 0 THEN first ELSE Body(h[i - 1], i)]
<1>10. g = [i \in 0 .. n |-> IF i = 0 THEN first ELSE Body(g[i - 1], i)]
  BY <1>9
<1>. HIDE DEF g
<1>11. g[n] \in Good(n)
  <2>1. g[0] \in P[0]
    BY <1>4, <1>7, <1>10
  <2>2. \A i \in 1 .. n : g[i - 1] \in P[i - 1] => g[i] \in P[i]
    BY <1>4, <1>6, <1>10
  <2>3. g[n] \in P[n]
    BY <2>1, <2>2, <1>1, LoopKeeps
  <2>. QED BY <2>3, <1>4, <1>5
<1>12. ClearElements(a, start, a.size) = g[n]
  BY DEF ClearElements, g, Body, n, first
<1>13. /\ Counted(g[n], base) /\ g[n].size = a.size /\ Len(g[n].cells) = Len(a.cells) /\ g[n] \in ArrayRecords
       /\ \A k \in 1 .. start : g[n].cells[k] = a.cells[k]
       /\ \A k \in 1 .. Len(a.cells) : k > start => g[n].cells[k] \notin Elements
  <2>1. /\ Counted(g[n], base) /\ g[n].size = a.size /\ Len(g[n].cells) = Len(a.cells) /\ g[n] \in ArrayRecords
        /\ \A k \in 1 .. start : g[n].cells[k] = a.cells[k]
        /\ \A k \in start + 1 .. start + n : g[n].cells[k] \notin Elements
    BY <1>11 DEF Good
  <2>2. \A k \in 1 .. Len(g[n].cells) : k > a.size => g[n].cells[k] \notin Elements
    BY <2>1 DEF Counted
  <2>3. \A k \in 1 .. Len(a.cells) : k > start => k \in start + 1 .. start + n \/ k > a.size
    BY <1>a DEF n
  <2>. QED BY <2>1, <2>2, <2>3
<1>. DEFINE z == g[n]
<1>. HIDE DEF z
<1>. DEFINE b == [z EXCEPT !.size = start]
<1>14. Counted(b, base) /\ b.size = start /\ b.cells = z.cells
  <2>1. \A e \in Elements : z.refs[e] = base[e] + Held(z.cells, e)
    BY <1>13 DEF Counted, z
  <2>2. start <= Len(z.cells)
    BY <1>13, <1>a DEF z
  <2>3. z \in ArrayRecords /\ \A k \in 1 .. Len(z.cells) : k > start => z.cells[k] \notin Elements
    BY <1>13 DEF z
  <2>4. CountedUpTo(z, base, start)
    BY <2>1, <2>2, <2>3 DEF CountedUpTo
  <2>. QED BY <2>4, SizeOK
<1>15. ClearElements(a, start, a.size) = z /\ \A k \in 1 .. start : z.cells[k] = a.cells[k]
  BY <1>12, <1>13 DEF z
<1>. QED BY <1>14, <1>15

\* Growing reserves, then fills the new cells one by one.
LEMMA FillOK ==
  ASSUME NEW a, NEW base \in [Elements -> Int], Counted(a, base), NEW m \in Nat, ~ (m < a.size),
         NEW v \in {NoneWord, NotPresentWord, ZeroWord}
  PROVE  \E b : /\ b = Resize(a, m, v) /\ Counted(b, base) /\ b.size = m
                /\ \A k \in 1 .. a.size : b.cells[k] = a.cells[k]
                /\ \A k \in 1 .. m : k > a.size => b.cells[k] = v
<1>. DEFINE n == m - a.size
            first == Reserve(a, m)
            Good(i) == {x \in ArrayRecords :
                          /\ Counted(x, base) /\ x.size = a.size /\ m <= Len(x.cells)
                          /\ \A k \in 1 .. a.size : x.cells[k] = a.cells[k]
                          /\ \A k \in a.size + 1 .. a.size + i : x.cells[k] = v}
            Body(x, i) == Put(x, a.size + i, v, Incref(x.refs, v))
<1>a. a \in ArrayRecords /\ a.size \in Nat /\ Len(a.cells) \in Nat /\ a.size <= Len(a.cells)
  BY CountedIs
<1>b. v \in Words /\ v \notin Elements
  BY NoElement
<1>1. n \in Nat
  BY <1>a
<1>2. first \in Good(0)
  <2>1. /\ Counted(first, base) /\ first.size = a.size /\ m <= Len(first.cells)
        /\ \A k \in 1 .. a.size : first.cells[k] = a.cells[k]
    BY ReserveOK
  <2>. HIDE DEF first
  <2>2. first \in ArrayRecords
    BY <2>1 DEF Counted
  <2>. QED BY <1>a, <2>1, <2>2
<1>3. \A i \in 1 .. n : \A x \in Good(i - 1) : Body(x, i) \in Good(i)
  <2>1. ASSUME NEW i \in 1 .. n, NEW x \in Good(i - 1) PROVE Body(x, i) \in Good(i)
    <3>. DEFINE y == Body(x, i)
    <3>1. Counted(x, base) /\ x.size = a.size /\ m <= Len(x.cells) /\ Len(x.cells) \in Nat
      BY CountedIs
    <3>2. a.size + i \in 1 .. Len(x.cells) /\ a.size + i > x.size
      BY <1>a, <3>1
    <3>a. /\ \A k \in 1 .. a.size : x.cells[k] = a.cells[k]
          /\ \A k \in a.size + 1 .. a.size + (i - 1) : x.cells[k] = v
      OBVIOUS
    <3>3. /\ y \in ArrayRecords /\ y.size = x.size /\ Len(y.cells) = Len(x.cells) /\ y.cells[a.size + i] = v
          /\ \A j \in 1 .. Len(x.cells) : j # a.size + i => y.cells[j] = x.cells[j]
          /\ \A e \in Elements : y.refs[e] = base[e] + Held(y.cells, e)
      BY <1>b, <3>1, <3>2, PutFree
    <3>. HIDE DEF y
    <3>4. Counted(y, base)
      <4>1. \A k \in 1 .. Len(x.cells) : k > x.size => x.cells[k] \notin Elements
        BY <3>1 DEF Counted
      <4>2. \A k \in 1 .. Len(y.cells) : k > y.size => y.cells[k] \notin Elements
        BY <1>b, <3>3, <4>1
      <4>3. y.size <= Len(y.cells)
        BY <3>3, <3>1 DEF Counted
      <4>. QED BY <3>3, <4>2, <4>3 DEF Counted
    <3>5. \A k \in 1 .. a.size : y.cells[k] = a.cells[k]
      <4>1. \A k \in 1 .. a.size : k \in 1 .. Len(x.cells) /\ k # a.size + i
        BY <1>a, <3>1
      <4>. QED BY <4>1, <3>a, <3>3
    <3>6. \A k \in a.size + 1 .. a.size + i : y.cells[k] = v
      <4>1. ASSUME NEW k \in a.size + 1 .. a.size + i PROVE y.cells[k] = v
        <5>1. CASE k = a.size + i
          BY <5>1, <3>3
        <5>2. CASE k # a.size + i
          <6>1. k \in a.size + 1 .. a.size + (i - 1)
            <7>. DEFINE u == a.size
            <7>1. i \in Int /\ u \in Int /\ k \in u + 1 .. u + i /\ k # u + i
              BY <1>1, <1>a, <5>2
            <7>. HIDE DEF u, Good, n
            <7>2. k \in u + 1 .. u + (i - 1)
              BY <7>1
            <7>. QED BY <7>2 DEF u
          <6>2. k \in 1 .. Len(x.cells)
            BY <1>a, <3>1, <3>2, <6>1
          <6>. QED BY <6>1, <6>2, <5>2, <3>3, <3>a
        <5>. QED BY <5>1, <5>2
      <4>. QED BY <4>1
    <3>. QED BY <3>1, <3>3, <3>4, <3>5, <3>6 DEF y
  <2>. QED BY <2>1
<1>. HIDE DEF Good, Body, n, first
<1>. DEFINE P == [i \in 0 .. n |-> Good(i)]
            X == UNION {Good(i) : i \in 0 .. n}
            step == [y \in X \X (1 .. n) |-> Body(y[1], y[2])]
<1>4. 0 \in 0 .. n /\ n \in 0 .. n /\ \A i \in 1 .. n : i \in 0 .. n /\ i - 1 \in 0 .. n /\ i # 0
  BY <1>1
<1>5. \A i \in 0 .. n : P[i] = Good(i) /\ \A x \in P[i] : x \in X
  OBVIOUS
<1>6. \A i \in 1 .. n : \A x \in P[i - 1] : step[<<x, i>>] = Body(x, i) /\ step[<<x, i>>] \in P[i]
  <2>1. ASSUME NEW i \in 1 .. n, NEW x \in P[i - 1]
        PROVE  step[<<x, i>>] = Body(x, i) /\ step[<<x, i>>] \in P[i]
    <3>1. x \in Good(i - 1) /\ x \in X /\ P[i] = Good(i)
      BY <1>4, <1>5
    <3>2. step[<<x, i>>] = Body(x, i)
      BY <3>1
    <3>. QED BY <3>1, <3>2, <1>3
  <2>. QED BY <2>1
<1>7. first \in P[0]
  BY <1>4, <1>5, <1>2
<1>. HIDE DEF P, X, step
<1>8. PICK f : /\ f = [i \in 0 .. n |-> IF i = 0 THEN first ELSE step[<<f[i - 1], i>>]]
              /\ \A i \in 0 .. n : f[i] \in P[i]
  <2>1. \A i \in 1 .. n : \A x \in P[i - 1] : step[<<x, i>>] \in P[i]
    BY <1>6
  <2>2. \E f : Loops(f, n, first, step, P)
    BY <2>1, <1>7, <1>1, LoopReaches
  <2>. QED BY <2>2 DEF Loops
<1>9. f = [i \in 0 .. n |-> IF i = 0 THEN first ELSE Body(f[i - 1], i)]
  <2>1. ASSUME NEW i \in 0 .. n
        PROVE  (IF i = 0 THEN first ELSE step[<<f[i - 1], i>>]) = (IF i = 0 THEN first ELSE Body(f[i - 1], i))
    <3>1. CASE i # 0
      <4>1. i \in 1 .. n /\ i - 1 \in 0 .. n
        BY <1>4, <3>1, <1>1
      <4>2. f[i - 1] \in P[i - 1]
        BY <4>1, <1>8
      <4>. QED BY <4>1, <4>2, <1>6
    <3>. QED BY <3>1
  <2>. QED BY <2>1, <1>8
<1>. DEFINE g == CHOOSE h : h = [i \in 0 .. n |-> IF i = 0 THEN first ELSE Body(h[i - 1], i)]
<1>10. g = [i \in 0 .. n |-> IF i = 0 THEN first ELSE Body(g[i - 1], i)]
  BY <1>9
<1>. HIDE DEF g
<1>11. g[n] \in Good(n)
  <2>1. g[0] \in P[0]
    BY <1>4, <1>7, <1>10
  <2>2. \A i \in 1 .. n : g[i - 1] \in P[i - 1] => g[i] \in P[i]
    BY <1>4, <1>6, <1>10
  <2>3. g[n] \in P[n]
    BY <2>1, <2>2, <1>1, LoopKeeps
  <2>. QED BY <2>3, <1>4, <1>5
<1>12. Resize(a, m, v) = [g[n] EXCEPT !.size = m]
  BY DEF Resize, g, Body, n, first
<1>13. /\ Counted(g[n], base) /\ g[n].size = a.size /\ m <= Len(g[n].cells) /\ g[n] \in ArrayRecords
       /\ \A k \in 1 .. a.size : g[n].cells[k] = a.cells[k]
       /\ \A k \in a.size + 1 .. a.size + n : g[n].cells[k] = v
  BY <1>11 DEF Good
<1>. DEFINE z == g[n]
            b == [z EXCEPT !.size = m]
<1>. HIDE DEF z
<1>14. Counted(b, base) /\ b.size = m /\ b.cells = z.cells
  <2>1. \A e \in Elements : z.refs[e] = base[e] + Held(z.cells, e)
    BY <1>13 DEF Counted, z
  <2>2. \A k \in 1 .. Len(z.cells) : k > z.size => z.cells[k] \notin Elements
    BY <1>13 DEF Counted, z
  <2>4. z \in ArrayRecords /\ m <= Len(z.cells) /\ z.size = a.size /\ Len(z.cells) \in Nat
    BY <1>13, FieldsAre DEF z
  <2>3. \A k \in 1 .. Len(z.cells) : k > m => z.cells[k] \notin Elements
    BY <1>a, <2>4, <2>2
  <2>5. CountedUpTo(z, base, m)
    BY <2>1, <2>3, <2>4 DEF CountedUpTo
  <2>. QED BY <2>5, SizeOK
<1>. HIDE DEF b
<1>15. \A k \in 1 .. m : k > a.size => b.cells[k] = v
  <2>1. \A k \in 1 .. m : k > a.size => k \in a.size + 1 .. a.size + n
    BY <1>a DEF n
  <2>. QED BY <2>1, <1>13, <1>14 DEF z
<1>16. \A k \in 1 .. a.size : b.cells[k] = a.cells[k]
  BY <1>13, <1>14 DEF z
<1>17. b = Resize(a, m, v)
  BY <1>12 DEF b, z
<1>. QED BY <1>14, <1>15, <1>16, <1>17

(* x is the array a given m cells, the added ones holding w.               *)
Resized(x, a, m, w, base) ==
  /\ Counted(x, base) /\ x.size = m
  /\ \A k \in 1 .. a.size : k <= m => x.cells[k] = a.cells[k]
  /\ \A k \in 1 .. m : k > a.size => x.cells[k] = w

(* resize: what is cut off is released, what is added is no element.       *)
LEMMA ResizeGives ==
  ASSUME NEW a, NEW base \in [Elements -> Int], Counted(a, base), NEW m \in Nat,
         NEW v \in {NoneWord, NotPresentWord, ZeroWord}
  PROVE  Resized(Resize(a, m, v), a, m, v, base)
<1>a. a \in ArrayRecords /\ a.size \in Nat /\ Len(a.cells) \in Nat /\ a.size <= Len(a.cells)
  BY CountedIs
<1>b. CASE m < a.size
  <2>1. Resize(a, m, v) = [ClearElements(a, m, a.size) EXCEPT !.size = m]
    BY <1>b DEF Resize
  <2>. DEFINE b == [ClearElements(a, m, a.size) EXCEPT !.size = m]
  <2>2. Counted(b, base) /\ b.size = m /\ \A k \in 1 .. m : b.cells[k] = a.cells[k]
    BY <1>a, <1>b, ClearOK
  <2>. HIDE DEF b
  <2>3. (\A k \in 1 .. a.size : k <= m => b.cells[k] = a.cells[k]) /\ \A k \in 1 .. m : ~ (k > a.size)
    BY <2>2, <1>a, <1>b
  <2>. QED BY <2>1, <2>2, <2>3 DEF b, Resized
<1>c. CASE ~ (m < a.size)
  <2>1. PICK b : b = Resize(a, m, v) /\ Counted(b, base) /\ b.size = m
                 /\ (\A k \in 1 .. a.size : b.cells[k] = a.cells[k])
                 /\ \A k \in 1 .. m : k > a.size => b.cells[k] = v
    BY <1>c, FillOK
  <2>. QED BY <2>1 DEF Resized
<1>. QED BY <1>b, <1>c

-----------------------------------------------------------------------------
(* copy and concatenation: the items are written one after the other.      *)
LEMMA WriteItemsOK ==
  ASSUME NEW a, NEW base \in [Elements -> Int], Counted(a, base), NEW m \in Nat, m <= a.size,
         NEW values, \A k \in 1 .. m : values[k] \in Words
  PROVE  LET b == WriteItems(a, m, values)
         IN  Counted(b, base) /\ b.size = a.size /\ \A k \in 1 .. m : b.cells[k] = values[k]
<1>. DEFINE n == m
            first == a
            Good(i) == {x \in ArrayRecords :
                          /\ Counted(x, base) /\ x.size = a.size
                          /\ \A k \in 1 .. i : x.cells[k] = values[k]}
            Body(x, i) == Set(x, i, values[i])
<1>a. a \in ArrayRecords /\ a.size \in Nat /\ Len(a.cells) \in Nat /\ a.size <= Len(a.cells)
  BY CountedIs
<1>1. n \in Nat
  OBVIOUS
<1>2. first \in Good(0)
  BY <1>a
<1>3. \A i \in 1 .. n : \A x \in Good(i - 1) : Body(x, i) \in Good(i)
  <2>1. ASSUME NEW i \in 1 .. n, NEW x \in Good(i - 1) PROVE Body(x, i) \in Good(i)
    <3>. DEFINE y == Body(x, i)
    <3>1. Counted(x, base) /\ x.size = a.size /\ x.size <= Len(x.cells) /\ Len(x.cells) \in Nat
          /\ \A k \in 1 .. i - 1 : x.cells[k] = values[k]
      BY CountedIs
    <3>2. i \in 1 .. x.size /\ values[i] \in Words
      BY <1>a, <3>1
    <3>3. /\ Counted(y, base) /\ y.size = x.size /\ Len(y.cells) = Len(x.cells) /\ y.cells[i] = values[i]
          /\ \A j \in 1 .. Len(x.cells) : j # i => y.cells[j] = x.cells[j]
      BY <3>1, <3>2, SetOK
    <3>. HIDE DEF y
    <3>4. y \in ArrayRecords
      BY <3>3 DEF Counted
    <3>5. \A k \in 1 .. i : y.cells[k] = values[k]
      <4>1. \A k \in 1 .. i : k = i \/ (k \in 1 .. i - 1 /\ k \in 1 .. Len(x.cells) /\ k # i)
        BY <1>a, <3>1, <3>2
      <4>. QED BY <4>1, <3>1, <3>3
    <3>. QED BY <3>1, <3>3, <3>4, <3>5 DEF y
  <2>. QED BY <2>1
<1>. HIDE DEF Good, Body, n, first
<1>. DEFINE P == [i \in 0 .. n |-> Good(i)]
            X == UNION {Good(i) : i \in 0 .. n}
            step == [y \in X \X (1 .. n) |-> Body(y[1], y[2])]
<1>4. 0 \in 0 .. n /\ n \in 0 .. n /\ \A i \in 1 .. n : i \in 0 .. n /\ i - 1 \in 0 .. n /\ i # 0
  BY <1>1
<1>5. \A i \in 0 .. n : P[i] = Good(i) /\ \A x \in P[i] : x \in X
  OBVIOUS
<1>6. \A i \in 1 .. n : \A x \in P[i - 1] : step[<<x, i>>] = Body(x, i) /\ step[<<x, i>>] \in P[i]
  <2>1. ASSUME NEW i \in 1 .. n, NEW x \in P[i - 1]
        PROVE  step[<<x, i>>] = Body(x, i) /\ step[<<x, i>>] \in P[i]
    <3>1. x \in Good(i - 1) /\ x \in X /\ P[i] = Good(i)
      BY <1>4, <1>5
    <3>2. step[<<x, i>>] = Body(x, i)
      BY <3>1
    <3>. QED BY <3>1, <3>2, <1>3
  <2>. QED BY <2>1
<1>7. first \in P[0]
  BY <1>4, <1>5, <1>2
<1>. HIDE DEF P, X, step
<1>8. PICK f : /\ f = [i \in 0 .. n |-> IF i = 0 THEN first ELSE step[<<f[i - 1], i>>]]
              /\ \A i \in 0 .. n : f[i] \in P[i]
  <2>1. \A i \in 1 .. n : \A x \in P[i - 1] : step[<<x, i>>] \in P[i]
    BY <1>6
  <2>2. \E f : Loops(f, n, first, step, P)
    BY <2>1, <1>7, <1>1, LoopReaches
  <2>. QED BY <2>2 DEF Loops
<1>9. f = [i \in 0 .. n |-> IF i = 0 THEN first ELSE Body(f[i - 1], i)]
  <2>1. ASSUME NEW i \in 0 .. n
        PROVE  (IF i = 0 THEN first ELSE step[<<f[i - 1], i>>]) = (IF i = 0 THEN first ELSE Body(f[i - 1], i))
    <3>1. CASE i # 0
      <4>1. i \in 1 .. n /\ i - 1 \in 0 .. n
        BY <1>4, <3>1, <1>1
      <4>2. f[i - 1] \in P[i - 1]
        BY <4>1, <1>8
      <4>. QED BY <4>1, <4>2, <1>6
    <3>. QED BY <3>1
  <2>. QED BY <2>1, <1>8
<1>. DEFINE g == CHOOSE h : h = [i \in 0 .. n |-> IF i = 0 THEN first ELSE Body(h[i - 1], i)]
<1>10. g = [i \in 0 .. n |-> IF i = 0 THEN first ELSE Body(g[i - 1], i)]
  BY <1>9
<1>. HIDE DEF g
<1>11. g[n] \in Good(n)
  <2>1. g[0] \in P[0]
    BY <1>4, <1>7, <1>10
  <2>2. \A i \in 1 .. n : g[i - 1] \in P[i - 1] => g[i] \in P[i]
    BY <1>4, <1>6, <1>10
  <2>3. g[n] \in P[n]
    BY <2>1, <2>2, <1>1, LoopKeeps
  <2>. QED BY <2>3, <1>4, <1>5
<1>12. WriteItems(a, m, values) = g[n]
  BY DEF WriteItems, g, Body, n, first
<1>. QED BY <1>11, <1>12 DEF Good, n

\* The values to append to the array a are words, and a's own where they are read from it.
Appendable(a, m, values, self) ==
  /\ \A k \in 1 .. m : values[k] \in Words
  /\ self => m <= a.size /\ \A k \in 1 .. m : values[k] = a.cells[k]

(* extend: the items are appended one after the other, also when they are  *)
(* read from the array that grows.                                         *)
LEMMA PushItemsOK ==
  ASSUME NEW a, NEW base \in [Elements -> Int], Counted(a, base), NEW m \in Nat,
         NEW values, NEW self, Appendable(a, m, values, self)
  PROVE  LET b == PushItems(a, m, values, self)
         IN  /\ Counted(b, base) /\ b.size = a.size + m
             /\ \A k \in 1 .. a.size : b.cells[k] = a.cells[k]
             /\ \A k \in 1 .. m : b.cells[a.size + k] = values[k]
<1>. DEFINE n == m
            first == a
            Good(i) == {x \in ArrayRecords :
                          /\ Counted(x, base) /\ x.size = a.size + i
                          /\ \A k \in 1 .. a.size : x.cells[k] = a.cells[k]
                          /\ \A k \in 1 .. i : x.cells[a.size + k] = values[k]}
            Body(x, i) == PushBack(x, IF self THEN x.cells[i] ELSE values[i])
<1>a. a \in ArrayRecords /\ a.size \in Nat /\ Len(a.cells) \in Nat /\ a.size <= Len(a.cells)
  BY CountedIs
<1>1. n \in Nat
  OBVIOUS
<1>2. first \in Good(0)
  BY <1>a
<1>3. \A i \in 1 .. n : \A x \in Good(i - 1) : Body(x, i) \in Good(i)
  <2>1. ASSUME NEW i \in 1 .. n, NEW x \in Good(i - 1) PROVE Body(x, i) \in Good(i)
    <3>. DEFINE v == values[i]
                y == PushBack(x, v)
    <3>1. /\ Counted(x, base) /\ x.size = a.size + (i - 1)
          /\ \A k \in 1 .. a.size : x.cells[k] = a.cells[k]
          /\ \A k \in 1 .. i - 1 : x.cells[a.size + k] = values[k]
      OBVIOUS
    <3>2. (IF self THEN x.cells[i] ELSE values[i]) = v
      <4>1. self => i \in 1 .. a.size
        BY <1>a DEF Appendable
      <4>. QED BY <4>1, <3>1 DEF Appendable
    <3>3. v \in Words
      BY DEF Appendable
    <3>4. /\ Counted(y, base) /\ y.size = x.size + 1 /\ y.cells[x.size + 1] = v
          /\ \A k \in 1 .. x.size : y.cells[k] = x.cells[k]
      BY <3>1, <3>3, PushBackOK
    <3>5. Body(x, i) = y
      BY <3>2
    <3>. HIDE DEF y
    <3>6. y \in ArrayRecords
      BY <3>4 DEF Counted
    <3>7. y.size = a.size + i /\ x.size + 1 = a.size + i
      BY <1>a, <3>1, <3>4
    <3>8. \A k \in 1 .. a.size : y.cells[k] = a.cells[k]
      <4>1. \A k \in 1 .. a.size : k \in 1 .. x.size
        BY <1>a, <3>1
      <4>. QED BY <4>1, <3>1, <3>4
    <3>9. \A k \in 1 .. i : y.cells[a.size + k] = values[k]
      <4>1. \A k \in 1 .. i : k = i \/ (k \in 1 .. i - 1 /\ a.size + k \in 1 .. x.size)
        BY <1>a, <3>1
      <4>. QED BY <4>1, <3>1, <3>4, <3>7
    <3>. QED BY <3>4, <3>5, <3>6, <3>7, <3>8, <3>9
  <2>. QED BY <2>1
<1>. HIDE DEF Good, Body, n, first
<1>. DEFINE P == [i \in 0 .. n |-> Good(i)]
            X == UNION {Good(i) : i \in 0 .. n}
            step == [y \in X \X (1 .. n) |-> Body(y[1], y[2])]
<1>4. 0 \in 0 .. n /\ n \in 0 .. n /\ \A i \in 1 .. n : i \in 0 .. n /\ i - 1 \in 0 .. n /\ i # 0
  BY <1>1
<1>5. \A i \in 0 .. n : P[i] = Good(i) /\ \A x \in P[i] : x \in X
  OBVIOUS
<1>6. \A i \in 1 .. n : \A x \in P[i - 1] : step[<<x, i>>] = Body(x, i) /\ step[<<x, i>>] \in P[i]
  <2>1. ASSUME NEW i \in 1 .. n, NEW x \in P[i - 1]
        PROVE  step[<<x, i>>] = Body(x, i) /\ step[<<x, i>>] \in P[i]
    <3>1. x \in Good(i - 1) /\ x \in X /\ P[i] = Good(i)
      BY <1>4, <1>5
    <3>2. step[<<x, i>>] = Body(x, i)
      BY <3>1
    <3>. QED BY <3>1, <3>2, <1>3
  <2>. QED BY <2>1
<1>7. first \in P[0]
  BY <1>4, <1>5, <1>2
<1>. HIDE DEF P, X, step
<1>8. PICK f : /\ f = [i \in 0 .. n |-> IF i = 0 THEN first ELSE step[<<f[i - 1], i>>]]
              /\ \A i \in 0 .. n : f[i] \in P[i]
  <2>1. \A i \in 1 .. n : \A x \in P[i - 1] : step[<<x, i>>] \in P[i]
    BY <1>6
  <2>2. \E f : Loops(f, n, first, step, P)
    BY <2>1, <1>7, <1>1, LoopReaches
  <2>. QED BY <2>2 DEF Loops
<1>9. f = [i \in 0 .. n |-> IF i = 0 THEN first ELSE Body(f[i - 1], i)]
  <2>1. ASSUME NEW i \in 0 .. n
        PROVE  (IF i = 0 THEN first ELSE step[<<f[i - 1], i>>]) = (IF i = 0 THEN first ELSE Body(f[i - 1], i))
    <3>1. CASE i # 0
      <4>1. i \in 1 .. n /\ i - 1 \in 0 .. n
        BY <1>4, <3>1, <1>1
      <4>2. f[i - 1] \in P[i - 1]
        BY <4>1, <1>8
      <4>. QED BY <4>1, <4>2, <1>6
    <3>. QED BY <3>1
  <2>. QED BY <2>1, <1>8
<1>. DEFINE g == CHOOSE h : h = [i \in 0 .. n |-> IF i = 0 THEN first ELSE Body(h[i - 1], i)]
<1>10. g = [i \in 0 .. n |-> IF i = 0 THEN first ELSE Body(g[i - 1], i)]
  BY <1>9
<1>. HIDE DEF g
<1>11. g[n] \in Good(n)
  <2>1. g[0] \in P[0]
    BY <1>4, <1>7, <1>10
  <2>2. \A i \in 1 .. n : g[i - 1] \in P[i - 1] => g[i] \in P[i]
    BY <1>4, <1>6, <1>10
  <2>3. g[n] \in P[n]
    BY <2>1, <2>2, <1>1, LoopKeeps
  <2>. QED BY <2>3, <1>4, <1>5
<1>12. PushItems(a, m, values, self) = g[n]
  BY DEF PushItems, g, Body, n, first
<1>. QED BY <1>11, <1>12 DEF Good, n

(* A shift: no item is overwritten before it is read.                      *)
LEMMA MoveItemsOK ==
  ASSUME NEW a, NEW base \in [Elements -> Int], Counted(a, base), NEW m \in Nat, NEW from, NEW to,
         \A k \in 1 .. m : from[k] \in 1 .. a.size /\ to[k] \in 1 .. a.size,
         \A j, k \in 1 .. m : j < k => to[j] # to[k] /\ to[j] # from[k]
  PROVE  LET b == MoveItems(a, m, from, to)
         IN  /\ Counted(b, base) /\ b.size = a.size
             /\ \A k \in 1 .. m : b.cells[to[k]] = a.cells[from[k]]
             /\ \A p \in 1 .. a.size : (\A k \in 1 .. m : to[k] # p) => b.cells[p] = a.cells[p]
<1>. DEFINE n == m
            first == a
            Good(i) == {x \in ArrayRecords :
                          /\ Counted(x, base) /\ x.size = a.size
                          /\ \A k \in 1 .. i : x.cells[to[k]] = a.cells[from[k]]
                          /\ \A p \in 1 .. a.size : (\A k \in 1 .. i : to[k] # p) => x.cells[p] = a.cells[p]}
            Body(x, i) == Set(x, to[i], x.cells[from[i]])
<1>a. a \in ArrayRecords /\ a.size \in Nat /\ Len(a.cells) \in Nat /\ a.size <= Len(a.cells)
  BY CountedIs
<1>1. n \in Nat
  OBVIOUS
<1>2. first \in Good(0)
  BY <1>a
<1>3. \A i \in 1 .. n : \A x \in Good(i - 1) : Body(x, i) \in Good(i)
  <2>1. ASSUME NEW i \in 1 .. n, NEW x \in Good(i - 1) PROVE Body(x, i) \in Good(i)
    <3>. DEFINE v == x.cells[from[i]]
                y == Set(x, to[i], v)
    <3>1. /\ Counted(x, base) /\ x.size = a.size
          /\ \A k \in 1 .. i - 1 : x.cells[to[k]] = a.cells[from[k]]
          /\ \A p \in 1 .. a.size : (\A k \in 1 .. i - 1 : to[k] # p) => x.cells[p] = a.cells[p]
      OBVIOUS
    <3>2. /\ x.size <= Len(x.cells) /\ Len(x.cells) \in Nat
          /\ \A k \in 1 .. Len(x.cells) : x.cells[k] \in Words
      BY <3>1, CountedIs
    <3>3. /\ from[i] \in 1 .. a.size /\ to[i] \in 1 .. x.size
          /\ \A k \in 1 .. i - 1 : k \in 1 .. n /\ k < i /\ to[k] # to[i] /\ to[k] # from[i]
      <4>1. \A k \in 1 .. i - 1 : k \in 1 .. n /\ k < i
        OBVIOUS
      <4>. QED BY <4>1, <3>1
    <3>4. v \in Words
      BY <1>a, <3>1, <3>2, <3>3
    <3>5. v = a.cells[from[i]]
      BY <3>1, <3>3
    <3>6. /\ Counted(y, base) /\ y.size = x.size /\ Len(y.cells) = Len(x.cells) /\ y.cells[to[i]] = v
          /\ \A j \in 1 .. Len(x.cells) : j # to[i] => y.cells[j] = x.cells[j]
      <4>. DEFINE p == to[i]
      <4>1. Counted(x, base) /\ p \in 1 .. x.size
        BY <3>1, <3>3
      <4>. HIDE DEF p, v, Good, Body
      <4>2. LET z == Set(x, p, v)
            IN  /\ Counted(z, base) /\ z.size = x.size /\ Len(z.cells) = Len(x.cells) /\ z.cells[p] = v
                /\ \A j \in 1 .. Len(x.cells) : j # p => z.cells[j] = x.cells[j]
        BY <4>1, <3>4, SetOK
      <4>. QED BY <4>2 DEF p
    <3>7. Body(x, i) = y
      OBVIOUS
    <3>. HIDE DEF y, v
    <3>8. y \in ArrayRecords
      BY <3>6 DEF Counted
    <3>9. \A k \in 1 .. i : y.cells[to[k]] = a.cells[from[k]]
      <4>1. \A k \in 1 .. i : k = i \/ k \in 1 .. i - 1
        OBVIOUS
      <4>2. \A k \in 1 .. i - 1 : to[k] \in 1 .. Len(x.cells)
        BY <1>a, <3>1, <3>2, <3>3
      <4>. QED BY <4>1, <4>2, <3>1, <3>3, <3>5, <3>6
    <3>10. ASSUME NEW p \in 1 .. a.size, \A k \in 1 .. i : to[k] # p PROVE y.cells[p] = a.cells[p]
      <4>1. i \in 1 .. i /\ \A k \in 1 .. i - 1 : k \in 1 .. i
        OBVIOUS
      <4>2. p # to[i] /\ \A k \in 1 .. i - 1 : to[k] # p
        BY <4>1, <3>10
      <4>3. p \in 1 .. Len(x.cells)
        BY <1>a, <3>1, <3>2
      <4>. QED BY <4>2, <4>3, <3>1, <3>6
    <3>. QED BY <3>1, <3>6, <3>7, <3>8, <3>9, <3>10
  <2>. QED BY <2>1
<1>. HIDE DEF Good, Body, n, first
<1>. DEFINE P == [i \in 0 .. n |-> Good(i)]
            X == UNION {Good(i) : i \in 0 .. n}
            step == [y \in X \X (1 .. n) |-> Body(y[1], y[2])]
<1>4. 0 \in 0 .. n /\ n \in 0 .. n /\ \A i \in 1 .. n : i \in 0 .. n /\ i - 1 \in 0 .. n /\ i # 0
  BY <1>1
<1>5. \A i \in 0 .. n : P[i] = Good(i) /\ \A x \in P[i] : x \in X
  OBVIOUS
<1>6. \A i \in 1 .. n : \A x \in P[i - 1] : step[<<x, i>>] = Body(x, i) /\ step[<<x, i>>] \in P[i]
  <2>1. ASSUME NEW i \in 1 .. n, NEW x \in P[i - 1]
        PROVE  step[<<x, i>>] = Body(x, i) /\ step[<<x, i>>] \in P[i]
    <3>1. x \in Good(i - 1) /\ x \in X /\ P[i] = Good(i)
      BY <1>4, <1>5
    <3>2. step[<<x, i>>] = Body(x, i)
      BY <3>1
    <3>. QED BY <3>1, <3>2, <1>3
  <2>. QED BY <2>1
<1>7. first \in P[0]
  BY <1>4, <1>5, <1>2
<1>. HIDE DEF P, X, step
<1>8. PICK f : /\ f = [i \in 0 .. n |-> IF i = 0 THEN first ELSE step[<<f[i - 1], i>>]]
              /\ \A i \in 0 .. n : f[i] \in P[i]
  <2>1. \A i \in 1 .. n : \A x \in P[i - 1] : step[<<x, i>>] \in P[i]
    BY <1>6
  <2>2. \E f : Loops(f, n, first, step, P)
    BY <2>1, <1>7, <1>1, LoopReaches
  <2>. QED BY <2>2 DEF Loops
<1>9. f = [i \in 0 .. n |-> IF i = 0 THEN first ELSE Body(f[i - 1], i)]
  <2>1. ASSUME NEW i \in 0 .. n
        PROVE  (IF i = 0 THEN first ELSE step[<<f[i - 1], i>>]) = (IF i = 0 THEN first ELSE Body(f[i - 1], i))
    <3>1. CASE i # 0
      <4>1. i \in 1 .. n /\ i - 1 \in 0 .. n
        BY <1>4, <3>1, <1>1
      <4>2. f[i - 1] \in P[i - 1]
        BY <4>1, <1>8
      <4>. QED BY <4>1, <4>2, <1>6
    <3>. QED BY <3>1
  <2>. QED BY <2>1, <1>8
<1>. DEFINE g == CHOOSE h : h = [i \in 0 .. n |-> IF i = 0 THEN first ELSE Body(h[i - 1], i)]
<1>10. g = [i \in 0 .. n |-> IF i = 0 THEN first ELSE Body(g[i - 1], i)]
  BY <1>9
<1>. HIDE DEF g
<1>11. g[n] \in Good(n)
  <2>1. g[0] \in P[0]
    BY <1>4, <1>7, <1>10
  <2>2. \A i \in 1 .. n : g[i - 1] \in P[i - 1] => g[i] \in P[i]
    BY <1>4, <1>6, <1>10
  <2>3. g[n] \in P[n]
    BY <2>1, <2>2, <1>1, LoopKeeps
  <2>. QED BY <2>3, <1>4, <1>5
<1>12. MoveItems(a, m, from, to) = g[n]
  BY DEF MoveItems, g, Body, n, first
<1>. QED BY <1>11, <1>12 DEF Good, n

(* reverse: every pair of ends is exchanged once.                          *)
LEMMA ReverseOK ==
  ASSUME NEW a, NEW base \in [Elements -> Int], Counted(a, base)
  PROVE  LET b == ReverseItems(a)
         IN  Counted(b, base) /\ b.size = a.size /\ \A k \in 1 .. a.size : b.cells[k] = a.cells[a.size + 1 - k]
<1>. DEFINE m == a.size
            n == (m + 1) \div 2
            first == a
            Good(i) == {x \in ArrayRecords :
                          /\ Counted(x, base) /\ x.size = a.size
                          /\ \A p \in 1 .. m : x.cells[p] = IF p <= i \/ p >= m + 1 - i THEN a.cells[m + 1 - p] ELSE a.cells[p]}
            Body(x, i) == Set(Set(x, i, x.cells[m + 1 - i]), m + 1 - i, x.cells[i])
<1>a. a \in ArrayRecords /\ m \in Nat /\ Len(a.cells) \in Nat /\ m <= Len(a.cells)
  BY CountedIs
<1>b. n \in Nat /\ 2 * n <= m + 1 /\ m <= 2 * n
  BY <1>a
<1>1. n \in Nat
  BY <1>b
<1>2. first \in Good(0)
  <2>1. \A p \in 1 .. m : ~ (p <= 0 \/ p >= m + 1 - 0)
    BY <1>a
  <2>. QED BY <1>a, <2>1
<1>3. \A i \in 1 .. n : \A x \in Good(i - 1) : Body(x, i) \in Good(i)
  <2>. HIDE DEF n
  <2>1. ASSUME NEW i \in 1 .. n, NEW x \in Good(i - 1) PROVE Body(x, i) \in Good(i)
    <3>. DEFINE q == m + 1 - i
                v == x.cells[i]
                w == x.cells[q]
                y == Set(x, i, w)
                z == Set(y, q, v)
    <3>1. i \in Nat /\ 1 <= i /\ 2 * i <= m + 1 /\ q \in 1 .. m /\ i \in 1 .. m /\ i <= q
      BY <1>a, <1>b
    <3>2. /\ Counted(x, base) /\ x.size = m
          /\ \A p \in 1 .. m : x.cells[p] = IF p <= i - 1 \/ p >= m + 1 - (i - 1) THEN a.cells[m + 1 - p] ELSE a.cells[p]
      OBVIOUS
    <3>3. Len(x.cells) \in Nat /\ m <= Len(x.cells) /\ \A k \in 1 .. Len(x.cells) : x.cells[k] \in Words
      BY <3>2, CountedIs
    <3>4. v \in Words /\ w \in Words /\ v = a.cells[i] /\ w = a.cells[q]
      <4>1. i \in 1 .. Len(x.cells) /\ q \in 1 .. Len(x.cells)
        BY <1>a, <3>1, <3>3
      <4>2. ~ (i <= i - 1 \/ i >= m + 1 - (i - 1)) /\ ~ (q <= i - 1 \/ q >= m + 1 - (i - 1))
        BY <1>a, <3>1
      <4>. QED BY <3>1, <3>2, <3>3, <4>1, <4>2
    <3>5. Body(x, i) = z
      OBVIOUS
    <3>. HIDE DEF v, w, Body, Good
    <3>6. /\ Counted(y, base) /\ y.size = m /\ Len(y.cells) = Len(x.cells) /\ y.cells[i] = w
          /\ \A j \in 1 .. Len(x.cells) : j # i => y.cells[j] = x.cells[j]
      <4>1. i \in 1 .. x.size
        BY <3>1, <3>2
      <4>. QED BY <3>2, <3>4, <4>1, SetOK
    <3>. HIDE DEF y
    <3>7. /\ Counted(z, base) /\ z.size = m /\ Len(z.cells) = Len(x.cells) /\ z.cells[q] = v
          /\ \A j \in 1 .. Len(x.cells) : j # q => z.cells[j] = y.cells[j]
      <4>1. q \in 1 .. y.size
        BY <3>1, <3>6
      <4>. HIDE DEF q
      <4>. QED BY <3>4, <3>6, <4>1, SetOK
    <3>. HIDE DEF z
    <3>8. z \in ArrayRecords
      BY <3>7 DEF Counted
    <3>9. ASSUME NEW p \in 1 .. m
          PROVE  z.cells[p] = IF p <= i \/ p >= m + 1 - i THEN a.cells[m + 1 - p] ELSE a.cells[p]
      <4>1. p \in 1 .. Len(x.cells) /\ i \in 1 .. Len(x.cells) /\ q \in 1 .. Len(x.cells)
        <5>1. Len(x.cells) \in Nat /\ m <= Len(x.cells) /\ m \in Nat
          BY <1>a, <3>3
        <5>. HIDE DEF q, m
        <5>. QED BY <3>1, <5>1
      <4>2. CASE p = q
        <5>1. p >= m + 1 - i /\ m + 1 - p = i
          BY <1>a, <3>1, <4>2
        <5>. QED BY <4>2, <5>1, <3>4, <3>7
      <4>3. CASE p # q /\ p = i
        <5>1. p <= i /\ m + 1 - p = q
          BY <1>a, <3>1, <4>3
        <5>2. z.cells[p] = w
          BY <4>1, <4>3, <3>6, <3>7
        <5>. QED BY <5>1, <5>2, <3>4
      <4>4. CASE p # q /\ p # i
        <5>1. (p <= i \/ p >= m + 1 - i) <=> (p <= i - 1 \/ p >= m + 1 - (i - 1))
          BY <1>a, <3>1, <4>4
        <5>2. z.cells[p] = x.cells[p]
          BY <4>1, <4>4, <3>6, <3>7
        <5>. QED BY <5>1, <5>2, <3>2
      <4>. QED BY <4>2, <4>3, <4>4
    <3>. QED BY <3>2, <3>5, <3>7, <3>8, <3>9 DEF Good
  <2>. QED BY <2>1
<1>. HIDE DEF Good, Body, n, first
<1>. DEFINE P == [i \in 0 .. n |-> Good(i)]
            X == UNION {Good(i) : i \in 0 .. n}
            step == [y \in X \X (1 .. n) |-> Body(y[1], y[2])]
<1>4. 0 \in 0 .. n /\ n \in 0 .. n /\ \A i \in 1 .. n : i \in 0 .. n /\ i - 1 \in 0 .. n /\ i # 0
  BY <1>1
<1>5. \A i \in 0 .. n : P[i] = Good(i) /\ \A x \in P[i] : x \in X
  OBVIOUS
<1>6. \A i \in 1 .. n : \A x \in P[i - 1] : step[<<x, i>>] = Body(x, i) /\ step[<<x, i>>] \in P[i]
  <2>1. ASSUME NEW i \in 1 .. n, NEW x \in P[i - 1]
        PROVE  step[<<x, i>>] = Body(x, i) /\ step[<<x, i>>] \in P[i]
    <3>1. x \in Good(i - 1) /\ x \in X /\ P[i] = Good(i)
      BY <1>4, <1>5
    <3>2. step[<<x, i>>] = Body(x, i)
      BY <3>1
    <3>. QED BY <3>1, <3>2, <1>3
  <2>. QED BY <2>1
<1>7. first \in P[0]
  BY <1>4, <1>5, <1>2
<1>. HIDE DEF P, X, step
<1>8. PICK f : /\ f = [i \in 0 .. n |-> IF i = 0 THEN first ELSE step[<<f[i - 1], i>>]]
              /\ \A i \in 0 .. n : f[i] \in P[i]
  <2>1. \A i \in 1 .. n : \A x \in P[i - 1] : step[<<x, i>>] \in P[i]
    BY <1>6
  <2>2. \E f : Loops(f, n, first, step, P)
    BY <2>1, <1>7, <1>1, LoopReaches
  <2>. QED BY <2>2 DEF Loops
<1>9. f = [i \in 0 .. n |-> IF i = 0 THEN first ELSE Body(f[i - 1], i)]
  <2>1. ASSUME NEW i \in 0 .. n
        PROVE  (IF i = 0 THEN first ELSE step[<<f[i - 1], i>>]) = (IF i = 0 THEN first ELSE Body(f[i - 1], i))
    <3>1. CASE i # 0
      <4>1. i \in 1 .. n /\ i - 1 \in 0 .. n
        BY <1>4, <3>1, <1>1
      <4>2. f[i - 1] \in P[i - 1]
        BY <4>1, <1>8
      <4>. QED BY <4>1, <4>2, <1>6
    <3>. QED BY <3>1
  <2>. QED BY <2>1, <1>8
<1>. DEFINE g == CHOOSE h : h = [i \in 0 .. n |-> IF i = 0 THEN first ELSE Body(h[i - 1], i)]
<1>10. g = [i \in 0 .. n |-> IF i = 0 THEN first ELSE Body(g[i - 1], i)]
  BY <1>9
<1>. HIDE DEF g
<1>11. g[n] \in Good(n)
  <2>1. g[0] \in P[0]
    BY <1>4, <1>7, <1>10
  <2>2. \A i \in 1 .. n : g[i - 1] \in P[i - 1] => g[i] \in P[i]
    BY <1>4, <1>6, <1>10
  <2>3. g[n] \in P[n]
    BY <2>1, <2>2, <1>1, LoopKeeps
  <2>. QED BY <2>3, <1>4, <1>5
<1>12. ReverseItems(a) = g[n]
  BY DEF ReverseItems, g, Body, n, first
<1>13. /\ Counted(g[n], base) /\ g[n].size = a.size
       /\ \A p \in 1 .. m : g[n].cells[p] = IF p <= n \/ p >= m + 1 - n THEN a.cells[m + 1 - p] ELSE a.cells[p]
  BY <1>11 DEF Good
<1>14. ASSUME NEW p \in 1 .. m PROVE p <= n \/ p >= m + 1 - n
  BY <1>a, <1>b
<1>. QED BY <1>12, <1>13, <1>14

\* insert_item_unchecked: the new item is at its place, later items are one further.
LEMMA InsertOK ==
  ASSUME NEW a, NEW base \in [Elements -> Int], Counted(a, base), NEW idx \in 0 .. a.size, NEW v \in Words
  PROVE  LET b == InsertUnchecked(a, idx, v)
         IN  /\ Counted(b, base) /\ b.size = a.size + 1 /\ b.cells[idx + 1] = v
             /\ \A k \in 1 .. a.size : b.cells[IF k <= idx THEN k ELSE k + 1] = a.cells[k]
<1>. DEFINE old == a.size
            c == Resize(a, old + 1, NoneWord)
            n == old - idx
            from == [k \in 1 .. n |-> old - k + 1]
            to == [k \in 1 .. n |-> old - k + 2]
            d == MoveItems(c, n, from, to)
            b == Set(d, idx + 1, v)
<1>1. old \in Nat /\ idx \in Nat /\ idx <= old /\ n \in Nat /\ old + 1 \in Nat /\ idx + 1 \in 1 .. old + 1
  BY CountedIs
<1>2. Counted(c, base) /\ c.size = old + 1 /\ \A k \in 1 .. old : c.cells[k] = a.cells[k]
  <2>. DEFINE m == old + 1
  <2>1. m \in Nat /\ \A k \in 1 .. old : k <= m
    BY <1>1
  <2>. HIDE DEF m
  <2>2. LET x == Resize(a, m, NoneWord)
        IN  /\ Counted(x, base) /\ x.size = m
            /\ \A k \in 1 .. a.size : k <= m => x.cells[k] = a.cells[k]
    <3>1. NoneWord \in {NoneWord, NotPresentWord, ZeroWord}
      OBVIOUS
    <3>2. Resized(Resize(a, m, NoneWord), a, m, NoneWord, base)
      BY <2>1, <3>1, ResizeGives
    <3>. QED BY <3>2 DEF Resized
  <2>. QED BY <2>1, <2>2 DEF m
<1>3. InsertUnchecked(a, idx, v) = b
  BY DEF InsertUnchecked, ShiftUp
<1>. HIDE DEF c
<1>4. /\ Counted(d, base) /\ d.size = c.size
      /\ \A k \in 1 .. n : d.cells[to[k]] = c.cells[from[k]]
      /\ \A p \in 1 .. c.size : (\A k \in 1 .. n : to[k] # p) => d.cells[p] = c.cells[p]
  <2>a. \A k \in 1 .. n : from[k] = old - k + 1 /\ to[k] = old - k + 2
    OBVIOUS
  <2>b. \A k \in 1 .. n : k \in Int /\ 1 <= k /\ k <= old
    BY <1>1
  <2>. HIDE DEF from, to
  <2>1. \A k \in 1 .. n : from[k] \in 1 .. c.size /\ to[k] \in 1 .. c.size
    <3>1. c.size = old + 1
      BY <1>2
    <3>. HIDE DEF old, n
    <3>. QED BY <1>1, <2>a, <2>b, <3>1
  <2>2. \A j, k \in 1 .. n : j < k => to[j] # to[k] /\ to[j] # from[k]
    <3>. HIDE DEF old, n
    <3>. QED BY <1>1, <2>a, <2>b
  <2>. HIDE DEF from, to, n, d
  <2>3. LET x == MoveItems(c, n, from, to)
        IN  /\ Counted(x, base) /\ x.size = c.size
            /\ \A k \in 1 .. n : x.cells[to[k]] = c.cells[from[k]]
            /\ \A p \in 1 .. c.size : (\A k \in 1 .. n : to[k] # p) => x.cells[p] = c.cells[p]
    BY <1>1, <1>2, <2>1, <2>2, MoveItemsOK
  <2>. QED BY <2>3 DEF d
<1>. HIDE DEF d
<1>5. /\ Counted(b, base) /\ b.size = d.size /\ b.cells[idx + 1] = v
      /\ \A j \in 1 .. Len(d.cells) : j # idx + 1 => b.cells[j] = d.cells[j]
  <2>1. idx + 1 \in 1 .. d.size
    BY <1>1, <1>2, <1>4
  <2>. QED BY <1>4, <2>1, SetOK
<1>6. d.size <= Len(d.cells) /\ Len(d.cells) \in Nat
  BY <1>4, CountedIs
<1>. HIDE DEF b
<1>7. ASSUME NEW k \in 1 .. old PROVE b.cells[IF k <= idx THEN k ELSE k + 1] = a.cells[k]
  <2>1. CASE k <= idx
    <3>1. k \in 1 .. Len(d.cells) /\ k # idx + 1 /\ k \in 1 .. c.size /\ \A j \in 1 .. n : to[j] # k
      BY <1>1, <1>2, <1>4, <1>6, <2>1
    <3>2. b.cells[k] = d.cells[k] /\ d.cells[k] = c.cells[k]
      BY <3>1, <1>4, <1>5
    <3>. QED BY <2>1, <3>2, <1>2
  <2>2. CASE ~ (k <= idx)
    <3>. DEFINE j == old - k + 1
    <3>1. j \in 1 .. n /\ k + 1 \in 1 .. Len(d.cells) /\ k + 1 # idx + 1 /\ from[j] = k /\ to[j] = k + 1
      <4>1. old \in Nat /\ idx \in Nat /\ k \in Nat /\ k <= old /\ idx < k /\ old + 1 <= Len(d.cells) /\ Len(d.cells) \in Nat
        BY <1>1, <1>2, <1>4, <1>6, <2>2
      <4>2. j \in 1 .. n /\ old - j + 1 = k /\ old - j + 2 = k + 1
        <5>. HIDE DEF old
        <5>. QED BY <4>1
      <4>3. from[j] = old - j + 1 /\ to[j] = old - j + 2
        <5>. HIDE DEF j, n
        <5>. QED BY <4>2
      <4>4. k + 1 \in 1 .. Len(d.cells) /\ k + 1 # idx + 1
        <5>. HIDE DEF old
        <5>. QED BY <4>1
      <4>. HIDE DEF j, from, to, old, n
      <4>. QED BY <4>2, <4>3, <4>4
    <3>. HIDE DEF j, from, to
    <3>2. b.cells[k + 1] = d.cells[k + 1] /\ d.cells[k + 1] = c.cells[k]
      BY <3>1, <1>4, <1>5
    <3>. QED BY <2>2, <3>2, <1>2
  <2>. QED BY <2>1, <2>2
<1>8. b.size = a.size + 1
  BY <1>2, <1>4, <1>5
<1>. QED BY <1>3, <1>5, <1>7, <1>8

\* pop_item_unchecked: the item is gone, later items are one nearer.
LEMMA PopOK ==
  ASSUME NEW a, NEW base \in [Elements -> Int], Counted(a, base), NEW idx \in 0 .. a.size - 1
  PROVE  LET b == PopUnchecked(a, idx)
         IN  /\ Counted(b, base) /\ b.size = a.size - 1
             /\ \A k \in 1 .. a.size - 1 : b.cells[k] = a.cells[IF k <= idx THEN k ELSE k + 1]
<1>. DEFINE last == a.size - 1
            n == last - idx
            from == [k \in 1 .. n |-> idx + k + 1]
            to == [k \in 1 .. n |-> idx + k]
            d == MoveItems(a, n, from, to)
            b == Resize(d, last, ZeroWord)
<1>1. a.size \in Nat /\ last \in Nat /\ idx \in Nat /\ idx <= last /\ n \in Nat
  BY CountedIs
<1>2. /\ Counted(d, base) /\ d.size = a.size
      /\ \A k \in 1 .. n : d.cells[to[k]] = a.cells[from[k]]
      /\ \A p \in 1 .. a.size : (\A k \in 1 .. n : to[k] # p) => d.cells[p] = a.cells[p]
  <2>1. \A k \in 1 .. n : from[k] \in 1 .. a.size /\ to[k] \in 1 .. a.size
    BY <1>1
  <2>2. \A j, k \in 1 .. n : j < k => to[j] # to[k] /\ to[j] # from[k]
    BY <1>1
  <2>. HIDE DEF from, to, n, d
  <2>3. LET x == MoveItems(a, n, from, to)
        IN  /\ Counted(x, base) /\ x.size = a.size
            /\ \A k \in 1 .. n : x.cells[to[k]] = a.cells[from[k]]
            /\ \A p \in 1 .. a.size : (\A k \in 1 .. n : to[k] # p) => x.cells[p] = a.cells[p]
    BY <1>1, <2>1, <2>2, MoveItemsOK
  <2>. QED BY <2>3 DEF d
<1>3. PopUnchecked(a, idx) = b
  BY DEF PopUnchecked
<1>. HIDE DEF d
<1>4. Counted(b, base) /\ b.size = last /\ \A k \in 1 .. last : b.cells[k] = d.cells[k]
  <2>. HIDE DEF last
  <2>1. LET x == Resize(d, last, ZeroWord)
        IN  /\ Counted(x, base) /\ x.size = last
            /\ \A k \in 1 .. d.size : k <= last => x.cells[k] = d.cells[k]
    <3>1. ZeroWord \in {NoneWord, NotPresentWord, ZeroWord} /\ Counted(d, base) /\ last \in Nat
      BY <1>1, <1>2
    <3>2. Resized(Resize(d, last, ZeroWord), d, last, ZeroWord, base)
      BY <3>1, ResizeGives
    <3>. QED BY <3>2 DEF Resized
  <2>2. \A k \in 1 .. last : k \in 1 .. d.size /\ k <= last
    BY <1>1, <1>2 DEF last
  <2>. QED BY <2>1, <2>2
<1>. HIDE DEF b
<1>5. ASSUME NEW k \in 1 .. last PROVE b.cells[k] = a.cells[IF k <= idx THEN k ELSE k + 1]
  <2>1. b.cells[k] = d.cells[k]
    BY <1>4
  <2>2. CASE k <= idx
    <3>1. k \in 1 .. a.size /\ \A j \in 1 .. n : to[j] # k
      BY <1>1, <2>2
    <3>. QED BY <3>1, <2>1, <2>2, <1>2
  <2>3. CASE ~ (k <= idx)
    <3>. DEFINE j == k - idx
    <3>1. j \in 1 .. n /\ from[j] = k + 1 /\ to[j] = k
      BY <1>1, <2>3
    <3>. HIDE DEF j, from, to
    <3>2. d.cells[k] = a.cells[k + 1]
      BY <3>1, <1>2
    <3>. QED BY <3>2, <2>1, <2>3
  <2>. QED BY <2>2, <2>3
<1>. QED BY <1>3, <1>4, <1>5

-----------------------------------------------------------------------------
(* The references of all lists together.                                   *)
PairsOf(l, H) == {<<l, k>> : k \in H}
CellsIn(A, L, e) == UNION {PairsOf(l, Holding(A[l].cells, e)) : l \in L}

\* Cells of one list are as many as their positions.
LEMMA PairsCounted ==
  ASSUME NEW l, NEW H, IsFiniteSet(H)
  PROVE  IsFiniteSet(PairsOf(l, H)) /\ Cardinality(PairsOf(l, H)) = Cardinality(H)
<1>. DEFINE T == PairsOf(l, H)
            f == [k \in H |-> <<l, k>>]
<1>1. f \in Bijection(H, T)
  <2>1. f \in [H -> T] /\ \A y \in T : \E x \in H : f[x] = y
    BY DEF PairsOf
  <2>2. \A x, y \in H : f[x] = f[y] => x = y
    OBVIOUS
  <2>. HIDE DEF f, T
  <2>. QED BY <2>1, <2>2 DEF Bijection, Injection, Surjection, IsInjective
<1>2. ExistsBijection(H, T)
  BY <1>1 DEF ExistsBijection
<1>. HIDE DEF T
<1>3. IsFiniteSet(T) /\ Cardinality(T) = Cardinality(H)
  BY <1>2, FS_Bijection
<1>. QED BY <1>3 DEF T

\* Finitely many lists have finitely many cells.
LEMMA CellsFinite ==
  ASSUME NEW A, NEW L, IsFiniteSet(L), \A l \in L : A[l].cells \in Seq(Words), NEW e
  PROVE  IsFiniteSet(CellsIn(A, L, e))
<1>. DEFINE f == [l \in L |-> PairsOf(l, Holding(A[l].cells, e))]
            S == {PairsOf(l, Holding(A[l].cells, e)) : l \in L}
<1>1. f \in Surjection(L, S)
  <2>1. f \in [L -> S] /\ \A y \in S : \E x \in L : f[x] = y
    OBVIOUS
  <2>. HIDE DEF f, S
  <2>. QED BY <2>1 DEF Surjection
<1>2. \A T \in S : IsFiniteSet(T)
  <2>1. ASSUME NEW l \in L PROVE IsFiniteSet(PairsOf(l, Holding(A[l].cells, e)))
    BY HeldIs, PairsCounted
  <2>. QED BY <2>1
<1>. HIDE DEF f, S
<1>3. IsFiniteSet(S)
  BY <1>1, FS_Surjection
<1>4. IsFiniteSet(UNION S)
  BY <1>2, <1>3, FS_UNION
<1>. QED BY <1>4 DEF CellsIn, S

\* The cells that hold e, in a list and in the others.
LEMMA CellsSplit ==
  ASSUME NEW A, \A l \in Lists : A[l].cells \in Seq(Words), NEW l \in Lists, NEW e
  PROVE  /\ Cardinality(CellsIn(A, Lists \ {l}, e)) \in Nat
         /\ Cardinality(CellsIn(A, Lists, e)) = Cardinality(CellsIn(A, Lists \ {l}, e)) + Held(A[l].cells, e)
<1>. DEFINE S == CellsIn(A, Lists \ {l}, e)
            H == Holding(A[l].cells, e)
            T == PairsOf(l, H)
<1>1. IsFiniteSet(S)
  <2>1. IsFiniteSet(Lists \ {l})
    BY ListConstants, FS_RemoveElement
  <2>. QED BY <2>1, CellsFinite
<1>2. IsFiniteSet(T) /\ Cardinality(T) = Held(A[l].cells, e) /\ Held(A[l].cells, e) \in Nat
  <2>1. IsFiniteSet(H) /\ Held(A[l].cells, e) \in Nat
    BY HeldIs
  <2>. HIDE DEF H
  <2>2. IsFiniteSet(T) /\ Cardinality(T) = Cardinality(H)
    BY <2>1, PairsCounted
  <2>. QED BY <2>1, <2>2 DEF H, Held
<1>3. CellsIn(A, Lists, e) = S \cup T /\ S \cap T = {}
  BY DEF CellsIn, PairsOf
<1>. HIDE DEF S, T
<1>4. Cardinality(S \cup T) = Cardinality(S) + Cardinality(T) - Cardinality(S \cap T)
  BY <1>1, <1>2, FS_Union
<1>5. Cardinality(S) \in Nat /\ Cardinality({}) = 0
  BY <1>1, FS_CardinalityType, FS_EmptySet
<1>6. Cardinality(S \cup T) = Cardinality(S) + Held(A[l].cells, e)
  <2>1. Cardinality(S \cap T) = 0
    BY <1>3, <1>5
  <2>. DEFINE x == Cardinality(S)
              y == Cardinality(T)
              z == Cardinality(S \cap T)
              u == Cardinality(S \cup T)
  <2>2. x \in Nat /\ y \in Nat /\ y = Held(A[l].cells, e) /\ z = 0 /\ u = x + y - z
    BY <1>2, <1>4, <1>5, <2>1
  <2>. HIDE DEF x, y, z, u
  <2>3. u = x + Held(A[l].cells, e)
    BY <2>2
  <2>. QED BY <2>3 DEF x, u
<1>. QED BY <1>3, <1>5, <1>6 DEF S

\* The cells that hold e depend on the arrays only.
LEMMA CellsSame ==
  ASSUME NEW A, NEW B, NEW L, \A l \in L : A[l] = B[l], NEW e
  PROVE  CellsIn(A, L, e) = CellsIn(B, L, e)
BY DEF CellsIn
-----------------------------------------------------------------------------
ArrayOK(a) ==
  /\ a \in [size : Nat, cells : Seq(Words)] /\ a.size <= Len(a.cells)
  /\ \A k \in 1 .. Len(a.cells) : k > a.size => a.cells[k] \notin Elements
CountsOK(A, r) == \A e \in Elements : r[e] = Cardinality(CellsIn(A, Lists, e))

(* What holds of the lists always: the arrays are well formed, every count *)
(* is right, and the iterator stands at a position.                        *)
ListsOK == arrays \in [Lists -> [size : Nat, cells : Seq(Words)]] /\ \A l \in Lists : ArrayOK(arrays[l])
RefsOK == refs \in [Elements -> Int] /\ CountsOK(arrays, refs)
IteratorOK == iterator = NoListIterator \/ iterator \in [list : Lists, at : Nat, ended : BOOLEAN]
ListInv == ListsOK /\ RefsOK /\ IteratorOK

\* The invariant implies the property the run checks.
LEMMA InvCounts == ASSUME ListInv PROVE ElementsCounted
<1>1. ASSUME NEW e \in Elements PROVE refs[e] = Cardinality(CellsHolding(e))
  <2>1. CellsHolding(e) = CellsIn(arrays, Lists, e)
    <3>1. \A l \in Lists : arrays[l].cells \in Seq(Words)
      BY DEF ListInv, ListsOK
    <3>2. \A l \in Lists : DOMAIN arrays[l].cells = 1 .. Len(arrays[l].cells)
      BY <3>1
    <3>3. ASSUME NEW l \in Lists
          PROVE  {<<l, k>> : k \in {j \in DOMAIN arrays[l].cells : Item(l, j) = e}} = PairsOf(l, Holding(arrays[l].cells, e))
      BY <3>2 DEF PairsOf, Holding, Item
    <3>. QED BY <3>3 DEF CellsHolding, CellsIn
  <2>. QED BY <2>1 DEF ListInv, RefsOK, CountsOK
<1>2. ASSUME NEW l \in Lists, NEW k \in DOMAIN arrays[l].cells, k > Size(l) PROVE Item(l, k) \notin Elements
  <2>1. arrays[l].cells \in Seq(Words) /\ ArrayOK(arrays[l])
    BY DEF ListInv, ListsOK
  <2>2. k \in 1 .. Len(arrays[l].cells)
    BY <2>1
  <2>. QED BY <2>1, <2>2, <1>2 DEF ArrayOK, Item, Size
<1>. QED BY <1>1, <1>2 DEF ElementsCounted

\* The references that the cells of the lists other than l account for
Base(l) == [e \in Elements |-> refs[e] - Held(arrays[l].cells, e)]

\* Between operations every array is counted, over what the others hold.
LEMMA ArrayCounted ==
  ASSUME ListInv, NEW l \in Lists
  PROVE  /\ Counted(Array(l), Base(l)) /\ Base(l) \in [Elements -> Int]
         /\ Array(l).size = arrays[l].size /\ Array(l).cells = arrays[l].cells /\ Array(l).refs = refs
         /\ Array(l).size = Size(l) /\ \A k : Array(l).cells[k] = Item(l, k)
<1>1. /\ arrays[l].size \in Nat /\ arrays[l].cells \in Seq(Words) /\ ArrayOK(arrays[l]) /\ refs \in [Elements -> Int]
  BY DEF ListInv, ListsOK, RefsOK
<1>2. \A e : Held(arrays[l].cells, e) \in Nat
  BY <1>1, HeldIs
<1>3. Base(l) \in [Elements -> Int] /\ \A e \in Elements : refs[e] = Base(l)[e] + Held(arrays[l].cells, e)
  BY <1>1, <1>2 DEF Base
<1>4. Array(l) = Fields3(arrays[l].size, arrays[l].cells, refs)
  BY DEF Array, Fields3
<1>5. /\ Array(l) \in ArrayRecords
      /\ Array(l).size = arrays[l].size /\ Array(l).cells = arrays[l].cells /\ Array(l).refs = refs
  BY <1>1, <1>4, FieldsTyped
<1>6. Counted(Array(l), Base(l))
  BY <1>1, <1>3, <1>5 DEF Counted, ArrayOK
<1>. QED BY <1>3, <1>5, <1>6 DEF Size, Item

(* Storing an array whose counts are right keeps every count right.        *)
LEMMA UpdateOK ==
  ASSUME ListInv, NEW l \in Lists, NEW b, Counted(b, Base(l)), NEW r, Update(l, b, r),
         IteratorOK'
  PROVE  ListInv'
<1>. DEFINE c == [size |-> b.size, cells |-> b.cells]
<1>1. /\ arrays \in [Lists -> [size : Nat, cells : Seq(Words)]] /\ \A m \in Lists : ArrayOK(arrays[m])
      /\ refs \in [Elements -> Int] /\ CountsOK(arrays, refs)
  BY DEF ListInv, ListsOK, RefsOK
<1>2. arrays' = [arrays EXCEPT ![l] = c] /\ refs' = b.refs
  BY DEF Update
<1>3. /\ b \in ArrayRecords /\ b.size \in Nat /\ b.cells \in Seq(Words) /\ b.refs \in [Elements -> Int]
      /\ b.size <= Len(b.cells) /\ \A k \in 1 .. Len(b.cells) : k > b.size => b.cells[k] \notin Elements
      /\ \A e \in Elements : b.refs[e] = Base(l)[e] + Held(b.cells, e)
  <2>1. \A e \in Elements : b.refs[e] = Base(l)[e] + Held(b.cells, e)
    BY DEF Counted
  <2>. QED BY <2>1, CountedIs
<1>4. c \in [size : Nat, cells : Seq(Words)] /\ c.size = b.size /\ c.cells = b.cells /\ ArrayOK(c)
  BY <1>3 DEF ArrayOK
<1>. HIDE DEF c
<1>5. /\ arrays' \in [Lists -> [size : Nat, cells : Seq(Words)]] /\ arrays'[l] = c
      /\ \A m \in Lists : m # l => arrays'[m] = arrays[m]
  BY <1>1, <1>2, <1>4
<1>6. ListsOK'
  <2>1. \A m \in Lists : ArrayOK(arrays'[m])
    BY <1>1, <1>4, <1>5
  <2>. QED BY <1>5, <2>1 DEF ListsOK, ArrayOK
<1>7. ASSUME NEW e \in Elements PROVE b.refs[e] = Cardinality(CellsIn(arrays', Lists, e))
  <2>1. /\ Cardinality(CellsIn(arrays, Lists \ {l}, e)) \in Nat
        /\ Cardinality(CellsIn(arrays, Lists, e)) = Cardinality(CellsIn(arrays, Lists \ {l}, e)) + Held(arrays[l].cells, e)
    <3>1. \A m \in Lists : arrays[m].cells \in Seq(Words)
      BY <1>1
    <3>. QED BY <3>1, CellsSplit
  <2>2. PICK B : B = arrays'
    OBVIOUS
  <2>3. /\ Cardinality(CellsIn(B, Lists, e)) = Cardinality(CellsIn(B, Lists \ {l}, e)) + Held(B[l].cells, e)
    <3>1. \A m \in Lists : B[m].cells \in Seq(Words)
      BY <1>5, <2>2
    <3>. QED BY <3>1, CellsSplit
  <2>4. CellsIn(B, Lists \ {l}, e) = CellsIn(arrays, Lists \ {l}, e)
    <3>1. \A m \in Lists \ {l} : B[m] = arrays[m]
      BY <1>5, <2>2
    <3>. QED BY <3>1, CellsSame
  <2>5. B[l].cells = b.cells
    BY <1>4, <1>5, <2>2
  <2>6. refs[e] = Cardinality(CellsIn(arrays, Lists, e)) /\ Base(l)[e] = refs[e] - Held(arrays[l].cells, e)
    BY <1>1 DEF CountsOK, Base
  <2>7. Held(arrays[l].cells, e) \in Nat /\ Held(b.cells, e) \in Nat
    BY <1>1, <1>3, HeldIs
  <2>8. b.refs[e] = Base(l)[e] + Held(b.cells, e)
    BY <1>3
  <2>9. b.refs[e] = Cardinality(CellsIn(B, Lists, e))
    BY <2>1, <2>3, <2>4, <2>5, <2>6, <2>7, <2>8
  <2>. QED BY <2>2, <2>9
<1>8. RefsOK'
  <2>1. refs' \in [Elements -> Int]
    BY <1>2, <1>3
  <2>2. \A e \in Elements : refs'[e] = Cardinality(CellsIn(arrays', Lists, e))
    BY <1>2, <1>7
  <2>. QED BY <2>1, <2>2 DEF RefsOK, CountsOK, CellsIn, PairsOf, Holding
<1>. QED BY <1>6, <1>8 DEF ListInv

-----------------------------------------------------------------------------
(* Lists as Python sees them.                                              *)
Mapped == [l \in Lists |-> SubSeq(arrays[l].cells, 1, arrays[l].size)]
Items(b) == SubSeq(b.cells, 1, b.size)

\* The list l becomes s, with every count right, and r is returned.
Stores(l, s, r) == \E b : Counted(b, Base(l)) /\ Update(l, b, r) /\ Items(b) = s

\* The items of a counted array.
LEMMA ItemsAre ==
  ASSUME NEW b, NEW base, Counted(b, base)
  PROVE  /\ Items(b) \in Seq(Words) /\ Len(Items(b)) = b.size
         /\ \A k \in 1 .. b.size : Items(b)[k] = b.cells[k]
<1>1. /\ b.size \in Nat /\ Len(b.cells) \in Nat /\ b.size <= Len(b.cells)
      /\ \A k \in 1 .. Len(b.cells) : b.cells[k] \in Words
  BY CountedIs
<1>. DEFINE s == b.cells
            n == b.size
<1>2. n \in Int /\ 1 \in Int /\ \A i \in 1 .. n : s[i] \in Words
  BY <1>1
<1>3. n - 1 + 1 = n /\ (IF 1 <= n THEN n - 1 + 1 ELSE 0) = n /\ \A i \in 1 .. n : 1 + i - 1 = i
  BY <1>1
<1>. HIDE DEF s, n
<1>4. /\ SubSeq(s, 1, n) \in Seq(Words) /\ Len(SubSeq(s, 1, n)) = (IF 1 <= n THEN n - 1 + 1 ELSE 0)
      /\ \A i \in 1 .. n - 1 + 1 : SubSeq(s, 1, n)[i] = s[1 + i - 1]
  BY <1>2, SubSeqProperties
<1>5. SubSeq(s, 1, n) \in Seq(Words) /\ Len(SubSeq(s, 1, n)) = n /\ \A i \in 1 .. n : SubSeq(s, 1, n)[i] = s[i]
  BY <1>3, <1>4
<1>. QED BY <1>5 DEF Items, s, n

\* Two descriptions of the items of an array.
LEMMA ItemsEqual ==
  ASSUME NEW b, NEW base, Counted(b, base), NEW s \in Seq(Words), Len(s) = b.size,
         \A k \in 1 .. b.size : b.cells[k] = s[k]
  PROVE  Items(b) = s
<1>1. /\ Items(b) \in Seq(Words) /\ Len(Items(b)) = b.size
      /\ \A k \in 1 .. b.size : Items(b)[k] = b.cells[k]
  BY ItemsAre
<1>. DEFINE t == Items(b)
<1>. HIDE DEF t
<1>2. t \in Seq(Words) /\ Len(t) = Len(s) /\ \A k \in 1 .. Len(t) : t[k] = s[k]
  BY <1>1 DEF t
<1>3. t = s
  BY <1>2, SeqEqual
<1>. QED BY <1>3 DEF t

\* The abstract list is the items of the array.
LEMMA MappedIs ==
  ASSUME ListInv, NEW l \in Lists
  PROVE  /\ Mapped[l] \in Seq(Words) /\ Len(Mapped[l]) = Size(l) /\ Size(l) \in Nat
         /\ DOMAIN Mapped[l] = 1 .. Size(l)
         /\ \A k \in 1 .. Size(l) : Mapped[l][k] = Item(l, k) /\ Item(l, k) \in Words
<1>1. Counted(Array(l), Base(l)) /\ Array(l).size = Size(l) /\ \A k : Array(l).cells[k] = Item(l, k)
  BY ArrayCounted
<1>2. Mapped[l] = Items(Array(l))
  BY ArrayCounted DEF Mapped, Items
<1>. DEFINE s == Mapped[l]
<1>3. s \in Seq(Words) /\ Len(s) = Size(l) /\ Size(l) \in Nat /\ \A k \in 1 .. Size(l) : s[k] = Item(l, k)
  BY <1>1, <1>2, ItemsAre, CountedIs
<1>. HIDE DEF s
<1>4. DOMAIN s = 1 .. Size(l) /\ \A k \in 1 .. Size(l) : s[k] \in Words
  BY <1>3
<1>. QED BY <1>3, <1>4 DEF s

(* An update that keeps the counts keeps the invariant, and does to the    *)
(* sequence what it does to the array.                                     *)
LEMMA StoreKeeps ==
  ASSUME ListInv, NEW l \in Lists, NEW s, NEW r, Stores(l, s, r), IteratorOK'
  PROVE  ListInv'
<1>1. PICK b : Counted(b, Base(l)) /\ Update(l, b, r)
  BY DEF Stores
<1>. QED BY <1>1, UpdateOK

\* Storing an array is the abstract step that replaces the list.
LEMMA StoreMaps ==
  ASSUME ListInv, NEW l \in Lists, NEW s, NEW r, Stores(l, s, r)
  PROVE  PythonList!Becomes(l, s, r) /\ Mapped' = [Mapped EXCEPT ![l] = s] /\ replied' = r
<1>1. PICK b : Counted(b, Base(l)) /\ Update(l, b, r) /\ Items(b) = s
  BY DEF Stores
<1>2. arrays \in [Lists -> [size : Nat, cells : Seq(Words)]]
  BY DEF ListInv, ListsOK
<1>3. /\ arrays'[l] = [size |-> b.size, cells |-> b.cells] /\ \A m \in Lists : m # l => arrays'[m] = arrays[m]
      /\ replied' = r
  BY <1>1, <1>2 DEF Update
<1>4. ASSUME NEW m \in Lists
      PROVE  SubSeq(arrays'[m].cells, 1, arrays'[m].size) = IF m = l THEN s ELSE Mapped[m]
  <2>1. CASE m = l
    <3>1. arrays'[m].cells = b.cells /\ arrays'[m].size = b.size
      BY <1>3, <2>1
    <3>. QED BY <2>1, <3>1, <1>1 DEF Items
  <2>2. CASE m # l
    BY <2>2, <1>3 DEF Mapped
  <2>. QED BY <2>1, <2>2
<1>5. Mapped' = [Mapped EXCEPT ![l] = s]
  BY <1>4 DEF Mapped
<1>. QED BY <1>3, <1>5 DEF PythonList!Becomes, Mapped

\* A reply alone is the abstract step that changes no list.
LEMMA ReplyMaps ==
  ASSUME NEW r, Reply(r)
  PROVE  PythonList!Same(r)
BY DEF Reply, PythonList!Same

\* A reply alone keeps the invariant.
LEMMA ReplyKeeps ==
  ASSUME ListInv, NEW r, Reply(r), IteratorOK'
  PROVE  ListInv'
BY DEF ListInv, ListsOK, RefsOK, CountsOK, CellsIn, Reply, ArrayOK, PairsOf, Holding

\* A list between operations, seen from both sides.
LEMMA ListIs ==
  ASSUME ListInv, NEW l \in Lists
  PROVE  /\ Counted(Array(l), Base(l)) /\ Base(l) \in [Elements -> Int]
         /\ Array(l).size = Size(l) /\ Size(l) \in Nat /\ Array(l).cells = arrays[l].cells
         /\ Mapped[l] \in Seq(Words) /\ Len(Mapped[l]) = Size(l)
         /\ \A k \in 1 .. Size(l) : /\ Array(l).cells[k] = Mapped[l][k] /\ Mapped[l][k] \in Words
                                    /\ Item(l, k) = Mapped[l][k]
BY ArrayCounted, MappedIs

\* append
LEMMA AppendStores ==
  ASSUME ListInv, NEW l \in Lists, NEW e \in Elements, NativeAppend(l, e)
  PROVE  Stores(l, Append(Mapped[l], e), Returned(NoneWord))
<1>. DEFINE a == Array(l)
            t == Mapped[l]
            b == PushBack(a, e)
            s == Append(t, e)
<1>1. /\ Counted(a, Base(l)) /\ Base(l) \in [Elements -> Int] /\ a.size \in Nat
      /\ t \in Seq(Words) /\ Len(t) = a.size /\ \A k \in 1 .. a.size : a.cells[k] = t[k]
  BY ListIs
<1>2. e \in Words
  BY DEF Words
<1>3. Update(l, b, Returned(NoneWord))
  BY DEF NativeAppend
<1>. HIDE DEF a, t
<1>4. /\ Counted(b, Base(l)) /\ b.size = a.size + 1 /\ b.cells[a.size + 1] = e
      /\ \A k \in 1 .. a.size : b.cells[k] = a.cells[k]
  BY <1>1, <1>2, PushBackOK
<1>5. s \in Seq(Words) /\ Len(s) = a.size + 1 /\ s[a.size + 1] = e /\ \A k \in 1 .. a.size : s[k] = t[k]
  BY <1>1, <1>2
<1>. HIDE DEF b, s
<1>6. \A k \in 1 .. b.size : b.cells[k] = s[k]
  <2>1. \A k \in 1 .. b.size : k \in 1 .. a.size \/ k = a.size + 1
    BY <1>1, <1>4
  <2>. QED BY <2>1, <1>1, <1>4, <1>5
<1>7. Items(b) = s
  BY <1>4, <1>5, <1>6, ItemsEqual
<1>. QED BY <1>3, <1>4, <1>7 DEF Stores, s, t

\* clear
LEMMA ClearStores ==
  ASSUME ListInv, NEW l \in Lists, NativeClear(l)
  PROVE  Stores(l, <<>>, Returned(NoneWord))
<1>. DEFINE a == Array(l)
            b == [ClearElements(a, 0, a.size) EXCEPT !.size = 0]
<1>1. Counted(a, Base(l)) /\ Base(l) \in [Elements -> Int] /\ a.size \in Nat /\ a.size = Size(l)
  BY ListIs
<1>2. Update(l, b, Returned(NoneWord))
  BY <1>1 DEF NativeClear
<1>. HIDE DEF a
<1>3. 0 \in Nat /\ 0 <= a.size
  BY <1>1
<1>4. Counted(b, Base(l)) /\ b.size = 0
  BY <1>1, <1>3, ClearOK
<1>. HIDE DEF b
<1>5. Items(b) = <<>>
  BY <1>4, SubSeqEmpty DEF Items
<1>. QED BY <1>2, <1>4, <1>5 DEF Stores

(* A list that is made anew starts with as many absent items as it needs,  *)
(* and the counts of what the object held before are given up.             *)
LEMMA NewListIs ==
  ASSUME ListInv, NEW d \in Lists, NEW n \in Nat
  PROVE  Counted(NewList(d, n), Base(d)) /\ NewList(d, n).size = n
<1>1. arrays[d].cells \in Seq(Words) /\ refs \in [Elements -> Int] /\ Base(d) \in [Elements -> Int]
  <2>1. arrays[d].cells \in Seq(Words) /\ refs \in [Elements -> Int]
    BY DEF ListInv, ListsOK, RefsOK
  <2>. QED BY <2>1, ArrayCounted
<1>. DEFINE r == ReleaseBacking(refs, arrays[d].cells, Len(arrays[d].cells))
            a == [size |-> 0, cells |-> <<>>, refs |-> r]
<1>2. r \in [Elements -> Int] /\ \A e \in Elements : r[e] = Base(d)[e]
  BY <1>1, ReleaseAll DEF Base
<1>3. NewList(d, n) = Resize(a, n, NotPresentWord)
  BY DEF NewList
<1>. HIDE DEF r
<1>4. a \in ArrayRecords /\ a.size = 0 /\ a.cells = <<>> /\ a.refs = r /\ Len(a.cells) = 0
  BY <1>2 DEF ArrayRecords
<1>. HIDE DEF a
<1>5. \A e \in Elements : Held(a.cells, e) = 0
  <2>1. \A e \in Elements : Holding(a.cells, e) = {}
    BY <1>4 DEF Holding
  <2>. QED BY <2>1, FS_EmptySet DEF Held
<1>6. Counted(a, Base(d))
  BY <1>1, <1>2, <1>4, <1>5 DEF Counted
<1>. DEFINE x == Resize(a, n, NotPresentWord)
<1>7. Counted(x, Base(d)) /\ x.size = n
  <2>1. NotPresentWord \in {NoneWord, NotPresentWord, ZeroWord}
    OBVIOUS
  <2>2. Resized(Resize(a, n, NotPresentWord), a, n, NotPresentWord, Base(d))
    BY <1>1, <1>6, <2>1, ResizeGives
  <2>. QED BY <2>2 DEF Resized
<1>. QED BY <1>3, <1>7

\* A new list that the given items are written into holds these items.
LEMMA WrittenStores ==
  ASSUME ListInv, NEW d \in Lists, NEW s \in Seq(Words), NEW n \in Nat, n = Len(s),
         NEW values, \A k \in 1 .. n : values[k] = s[k],
         NEW r, Update(d, WriteItems(NewList(d, n), n, values), r)
  PROVE  Stores(d, s, r)
<1>. DEFINE a == NewList(d, n)
            b == WriteItems(a, n, values)
<1>1. Counted(a, Base(d)) /\ a.size = n /\ Base(d) \in [Elements -> Int] /\ n <= a.size
  BY NewListIs, ArrayCounted
<1>2. \A k \in 1 .. n : values[k] \in Words
  OBVIOUS
<1>3. Update(d, b, r)
  OBVIOUS
<1>. HIDE DEF a
<1>4. Counted(b, Base(d)) /\ b.size = n /\ \A k \in 1 .. n : b.cells[k] = values[k]
  BY <1>1, <1>2, WriteItemsOK
<1>. HIDE DEF b
<1>5. Items(b) = s
  BY <1>4, ItemsEqual
<1>. QED BY <1>3, <1>4, <1>5 DEF Stores

\* copy
LEMMA CopyStores ==
  ASSUME ListInv, NEW l \in Lists, NEW d \in Lists, NativeCopy(l, d)
  PROVE  Stores(d, Mapped[l], Returned(NoneWord))
<1>. DEFINE n == Size(l)
            t == Mapped[l]
            values == [k \in 1 .. n |-> Item(l, k)]
<1>1. t \in Seq(Words) /\ n = Len(t) /\ n \in Nat /\ \A k \in 1 .. n : values[k] = t[k]
  BY ListIs
<1>2. Update(d, WriteItems(NewList(d, n), n, values), Returned(NoneWord))
  BY DEF NativeCopy
<1>. HIDE DEF n, t, values
<1>3. Stores(d, t, Returned(NoneWord))
  BY <1>1, <1>2, WrittenStores
<1>. QED BY <1>3 DEF t

\* Concatenation, also of a list with itself.
LEMMA AddStores ==
  ASSUME ListInv, NEW l \in Lists, NEW m \in Lists, NEW d \in Lists, NativeAdd(l, m, d)
  PROVE  Stores(d, Mapped[l] \o Mapped[m], Returned(NoneWord))
<1>. DEFINE n == Size(l) + Size(m)
            t == Mapped[l]
            u == Mapped[m]
            s == t \o u
            values == [k \in 1 .. n |-> IF k <= Size(l) THEN Item(l, k) ELSE Item(m, k - Size(l))]
<1>1. /\ t \in Seq(Words) /\ Size(l) = Len(t) /\ Size(l) \in Nat /\ \A k \in 1 .. Size(l) : Item(l, k) = t[k]
      /\ u \in Seq(Words) /\ Size(m) = Len(u) /\ Size(m) \in Nat /\ \A k \in 1 .. Size(m) : Item(m, k) = u[k]
  BY ListIs
<1>2. Update(d, WriteItems(NewList(d, n), n, values), Returned(NoneWord))
  BY DEF NativeAdd
<1>. HIDE DEF t, u
<1>3. /\ s \in Seq(Words) /\ n = Len(s) /\ n \in Nat
      /\ \A k \in 1 .. n : s[k] = IF k <= Len(t) THEN t[k] ELSE u[k - Len(t)]
  BY <1>1, ConcatProperties
<1>. HIDE DEF s
<1>4. ASSUME NEW k \in 1 .. n PROVE values[k] = s[k]
  <2>1. values[k] = IF k <= Size(l) THEN Item(l, k) ELSE Item(m, k - Size(l))
    OBVIOUS
  <2>. HIDE DEF values
  <2>2. CASE k <= Size(l)
    <3>1. k \in 1 .. Size(l)
      BY <1>1, <2>2
    <3>. QED BY <3>1, <2>1, <2>2, <1>1, <1>3
  <2>3. CASE ~ (k <= Size(l))
    <3>1. k - Size(l) \in 1 .. Size(m)
      BY <1>1, <2>3
    <3>. QED BY <3>1, <2>1, <2>3, <1>1, <1>3
  <2>. QED BY <2>2, <2>3
<1>. HIDE DEF n, values
<1>5. Stores(d, s, Returned(NoneWord))
  BY <1>2, <1>3, <1>4, WrittenStores
<1>. QED BY <1>5 DEF s, t, u

\* A list that the given items are pushed to holds them behind its own.
LEMMA PushedStores ==
  ASSUME ListInv, NEW l \in Lists, NEW u \in Seq(Words), NEW m \in Nat, m = Len(u),
         NEW values, \A k \in 1 .. m : values[k] = u[k],
         NEW self, Appendable(Array(l), m, values, self), NEW r, Update(l, PushItems(Array(l), m, values, self), r)
  PROVE  Stores(l, Mapped[l] \o u, r)
<1>. DEFINE a == Array(l)
            t == Mapped[l]
            s == t \o u
            b == PushItems(a, m, values, self)
<1>1. /\ Counted(a, Base(l)) /\ Base(l) \in [Elements -> Int] /\ a.size \in Nat /\ a.size = Size(l)
      /\ t \in Seq(Words) /\ Len(t) = a.size /\ \A k \in 1 .. a.size : a.cells[k] = t[k]
  BY ListIs
<1>2. Appendable(a, m, values, self)
  OBVIOUS
<1>3. Update(l, b, r)
  OBVIOUS
<1>. HIDE DEF a, t
<1>4. /\ Counted(b, Base(l)) /\ b.size = a.size + m
      /\ \A k \in 1 .. a.size : b.cells[k] = a.cells[k]
      /\ \A k \in 1 .. m : b.cells[a.size + k] = values[k]
  BY <1>1, <1>2, PushItemsOK
<1>5. /\ s \in Seq(Words) /\ Len(s) = a.size + m
      /\ \A k \in 1 .. a.size + m : s[k] = IF k <= a.size THEN t[k] ELSE u[k - a.size]
  <2>1. /\ s \in Seq(Words) /\ Len(s) = Len(t) + Len(u)
        /\ \A k \in 1 .. Len(t) + Len(u) : s[k] = IF k <= Len(t) THEN t[k] ELSE u[k - Len(t)]
    BY <1>1, ConcatProperties
  <2>2. Len(t) = a.size /\ Len(u) = m
    BY <1>1
  <2>. HIDE DEF s
  <2>. QED BY <2>1, <2>2
<1>. HIDE DEF b, s
<1>6. ASSUME NEW k \in 1 .. b.size PROVE b.cells[k] = s[k]
  <2>1. CASE k <= a.size
    <3>1. k \in 1 .. a.size /\ k \in 1 .. a.size + m
      BY <1>1, <1>4, <2>1
    <3>2. s[k] = t[k]
      BY <3>1, <2>1, <1>5
    <3>3. b.cells[k] = t[k]
      BY <3>1, <1>1, <1>4
    <3>. QED BY <3>2, <3>3
  <2>2. CASE ~ (k <= a.size)
    <3>. DEFINE j == k - a.size
    <3>1. j \in 1 .. m /\ k \in 1 .. a.size + m /\ k = a.size + j
      BY <1>1, <1>4, <2>2
    <3>. HIDE DEF j
    <3>2. b.cells[k] = values[j] /\ values[j] = u[j]
      BY <3>1, <1>4
    <3>3. s[k] = u[k - a.size]
      BY <3>1, <2>2, <1>5
    <3>. QED BY <3>2, <3>3 DEF j
  <2>. QED BY <2>1, <2>2
<1>7. Items(b) = s
  BY <1>4, <1>5, <1>6, ItemsEqual
<1>. QED BY <1>3, <1>4, <1>7 DEF Stores, s, t

\* extend by a list, which may be the same list.
LEMMA ExtendStores ==
  ASSUME ListInv, NEW l \in Lists, NEW m \in Lists, ExtendFromList(l, m)
  PROVE  Stores(l, Mapped[l] \o Mapped[m], Returned(NoneWord))
<1>. DEFINE u == Mapped[m]
            n == Size(m)
            values == arrays[m].cells
            self == l = m
<1>1. u \in Seq(Words) /\ n = Len(u) /\ n \in Nat /\ \A k \in 1 .. n : values[k] = u[k]
  BY ListIs DEF Item
<1>2. Appendable(Array(l), n, values, self)
  <2>1. \A k \in 1 .. n : values[k] \in Words
    BY ListIs DEF Item
  <2>2. CASE self
    BY <2>1, <2>2, ListIs DEF Appendable
  <2>3. CASE ~ self
    BY <2>1, <2>3 DEF Appendable
  <2>. QED BY <2>2, <2>3
<1>3. Update(l, PushItems(Array(l), n, values, self), Returned(NoneWord))
  BY DEF ExtendFromList
<1>. HIDE DEF u, n, values, self
<1>4. Stores(l, Mapped[l] \o u, Returned(NoneWord))
  BY <1>1, <1>2, <1>3, PushedStores
<1>. QED BY <1>4 DEF u

\* extend by a tuple
LEMMA ExtendTupleStores ==
  ASSUME ListInv, NEW l \in Lists, NEW t \in Tuples, ExtendFromTuple(l, t)
  PROVE  Stores(l, Mapped[l] \o t, Returned(NoneWord))
<1>1. t \in Seq(Words)
  <2>1. t \in Seq(Elements) /\ Elements \subseteq Words
    BY ListConstants DEF Words
  <2>. QED BY <2>1, SeqMonotonic
<1>2. Len(t) \in Nat /\ Appendable(Array(l), Len(t), t, FALSE)
  BY <1>1 DEF Appendable
<1>3. Update(l, PushItems(Array(l), Len(t), t, FALSE), Returned(NoneWord))
  BY DEF ExtendFromTuple
<1>. QED BY <1>1, <1>2, <1>3, PushedStores

\* reverse
LEMMA ReverseStores ==
  ASSUME ListInv, NEW l \in Lists, NativeReverse(l)
  PROVE  Stores(l, [k \in DOMAIN Mapped[l] |-> Mapped[l][Len(Mapped[l]) + 1 - k]], Returned(NoneWord))
<1>. DEFINE a == Array(l)
            t == Mapped[l]
            b == ReverseItems(a)
            s == [k \in DOMAIN t |-> t[Len(t) + 1 - k]]
<1>1. /\ Counted(a, Base(l)) /\ Base(l) \in [Elements -> Int] /\ a.size \in Nat
      /\ t \in Seq(Words) /\ Len(t) = a.size /\ \A k \in 1 .. a.size : a.cells[k] = t[k] /\ t[k] \in Words
  BY ListIs
<1>2. Update(l, b, Returned(NoneWord))
  BY DEF NativeReverse
<1>. HIDE DEF a, t
<1>3. Counted(b, Base(l)) /\ b.size = a.size /\ \A k \in 1 .. a.size : b.cells[k] = a.cells[a.size + 1 - k]
  BY <1>1, ReverseOK
<1>4. \A k \in 1 .. a.size : a.size + 1 - k \in 1 .. a.size
  BY <1>1
<1>5. s \in Seq(Words) /\ Len(s) = a.size /\ \A k \in 1 .. a.size : s[k] = t[a.size + 1 - k]
  <2>. DEFINE n == a.size
  <2>1. s = [k \in 1 .. n |-> t[n + 1 - k]]
    BY <1>1
  <2>2. n \in Nat /\ \A k \in 1 .. n : t[n + 1 - k] \in Words
    BY <1>1, <1>4
  <2>. HIDE DEF s, n
  <2>3. s \in Seq(Words) /\ Len(s) = n /\ \A k \in 1 .. n : s[k] = t[n + 1 - k]
    BY <2>1, <2>2
  <2>. QED BY <2>3 DEF n
<1>. HIDE DEF b, s
<1>6. \A k \in 1 .. b.size : b.cells[k] = s[k]
  BY <1>1, <1>3, <1>4, <1>5
<1>7. Items(b) = s
  BY <1>3, <1>5, <1>6, ItemsEqual
<1>. QED BY <1>2, <1>3, <1>7 DEF Stores, s, t

\* The concatenation of two sequences.
LEMMA JoinIs ==
  ASSUME NEW x \in Seq(Words), NEW y \in Seq(Words)
  PROVE  /\ x \o y \in Seq(Words) /\ Len(x \o y) = Len(x) + Len(y)
         /\ \A k \in 1 .. Len(x) : (x \o y)[k] = x[k]
         /\ \A k \in 1 .. Len(y) : (x \o y)[Len(x) + k] = y[k]
<1>. DEFINE z == x \o y
<1>1. /\ z \in Seq(Words) /\ Len(z) = Len(x) + Len(y)
      /\ \A k \in 1 .. Len(x) + Len(y) : z[k] = IF k <= Len(x) THEN x[k] ELSE y[k - Len(x)]
  BY ConcatProperties
<1>2. Len(x) \in Nat /\ Len(y) \in Nat
  OBVIOUS
<1>. HIDE DEF z
<1>3. \A k \in 1 .. Len(x) : z[k] = x[k]
  BY <1>1, <1>2
<1>4. ASSUME NEW k \in 1 .. Len(y) PROVE z[Len(x) + k] = y[k]
  <2>1. Len(x) + k \in 1 .. Len(x) + Len(y) /\ ~ (Len(x) + k <= Len(x)) /\ (Len(x) + k) - Len(x) = k
    BY <1>2
  <2>. QED BY <2>1, <1>1
<1>. QED BY <1>1, <1>3, <1>4 DEF z

\* The sequence t with v put in after its first i items
PutIn(t, i, v) == SubSeq(t, 1, i) \o <<v>> \o SubSeq(t, i + 1, Len(t))

\* The sequence with an item put in.
LEMMA PutInIs ==
  ASSUME NEW t \in Seq(Words), NEW i \in 0 .. Len(t), NEW v \in Words
  PROVE  /\ PutIn(t, i, v) \in Seq(Words) /\ Len(PutIn(t, i, v)) = Len(t) + 1
         /\ PutIn(t, i, v)[i + 1] = v
         /\ \A k \in 1 .. Len(t) : PutIn(t, i, v)[IF k <= i THEN k ELSE k + 1] = t[k]
<1>. DEFINE x == SubSeq(t, 1, i)
            y == SubSeq(t, i + 1, Len(t))
            w == <<v>>
            n == Len(t)
<1>1. n \in Nat /\ i \in Nat /\ i <= n /\ \A k \in 1 .. n : t[k] \in Words
  OBVIOUS
<1>2. x \in Seq(Words) /\ Len(x) = i /\ \A k \in 1 .. i : x[k] = t[k]
  BY <1>1
<1>3. y \in Seq(Words) /\ Len(y) = n - i /\ \A k \in 1 .. n - i : y[k] = t[i + k]
  BY <1>1
<1>4. w \in Seq(Words) /\ Len(w) = 1 /\ w[1] = v
  OBVIOUS
<1>5. PutIn(t, i, v) = (x \o w) \o y
  BY DEF PutIn
<1>. HIDE DEF x, y, w, n
<1>. DEFINE z == x \o w
            u == z \o y
<1>6. /\ z \in Seq(Words) /\ Len(z) = Len(x) + Len(w)
      /\ \A k \in 1 .. Len(x) : z[k] = x[k]
      /\ \A k \in 1 .. Len(w) : z[Len(x) + k] = w[k]
  BY <1>2, <1>4, JoinIs
<1>. HIDE DEF z
<1>7. z \in Seq(Words) /\ Len(z) = i + 1 /\ z[i + 1] = v /\ \A k \in 1 .. i : z[k] = t[k]
  BY <1>1, <1>2, <1>4, <1>6
<1>8. /\ u \in Seq(Words) /\ Len(u) = Len(z) + Len(y)
      /\ \A k \in 1 .. Len(z) : u[k] = z[k]
      /\ \A k \in 1 .. Len(y) : u[Len(z) + k] = y[k]
  BY <1>3, <1>7, JoinIs
<1>. HIDE DEF u
<1>9. Len(u) = n + 1 /\ u[i + 1] = v /\ \A k \in 1 .. i : u[k] = t[k]
  BY <1>1, <1>3, <1>7, <1>8
<1>10. \A k \in 1 .. n - i : u[i + 1 + k] = t[i + k]
  BY <1>3, <1>7, <1>8
<1>11. PutIn(t, i, v) = u /\ u \in Seq(Words) /\ Len(u) = n + 1 /\ u[i + 1] = v
       /\ (\A k \in 1 .. i : u[k] = t[k]) /\ \A k \in 1 .. n - i : u[i + 1 + k] = t[i + k]
  BY <1>5, <1>8, <1>9, <1>10 DEF u, z
<1>12. ASSUME NEW k \in 1 .. n PROVE u[IF k <= i THEN k ELSE k + 1] = t[k]
  <2>1. CASE k <= i
    BY <2>1, <1>1, <1>11
  <2>2. CASE ~ (k <= i)
    <3>. DEFINE j == k - i
    <3>1. j \in 1 .. n - i /\ i + 1 + j = k + 1 /\ i + j = k
      BY <1>1, <2>2
    <3>. HIDE DEF j
    <3>2. u[k + 1] = t[k]
      BY <3>1, <1>11
    <3>. QED BY <3>2, <2>2
  <2>. QED BY <2>1, <2>2
<1>. QED BY <1>11, <1>12 DEF n

\* The sequence with an item taken out.
LEMMA WithoutIs ==
  ASSUME NEW t \in Seq(Words), NEW i \in 0 .. Len(t) - 1
  PROVE  /\ PythonList!Without(t, i + 1) \in Seq(Words) /\ Len(PythonList!Without(t, i + 1)) = Len(t) - 1
         /\ \A k \in 1 .. Len(t) - 1 : PythonList!Without(t, i + 1)[k] = t[IF k <= i THEN k ELSE k + 1]
<1>. DEFINE n == Len(t)
            x == SubSeq(t, 1, i)
            y == SubSeq(t, i + 2, n)
            u == x \o y
<1>1. n \in Nat /\ i \in Nat /\ i + 1 <= n /\ (i + 1) - 1 = i /\ (i + 1) + 1 = i + 2 /\ \A k \in 1 .. n : t[k] \in Words
  OBVIOUS
<1>2. x \in Seq(Words) /\ Len(x) = i /\ \A k \in 1 .. i : x[k] = t[k]
  BY <1>1
<1>3. y \in Seq(Words) /\ Len(y) = n - i - 1 /\ \A k \in 1 .. n - i - 1 : y[k] = t[i + 1 + k]
  BY <1>1
<1>4. PythonList!Without(t, i + 1) = u
  BY <1>1 DEF PythonList!Without
<1>. HIDE DEF x, y, n
<1>a. /\ u \in Seq(Words) /\ Len(u) = Len(x) + Len(y)
      /\ \A k \in 1 .. Len(x) : u[k] = x[k]
      /\ \A k \in 1 .. Len(y) : u[Len(x) + k] = y[k]
  BY <1>2, <1>3, JoinIs
<1>. HIDE DEF u
<1>5. u \in Seq(Words) /\ Len(u) = n - 1
  BY <1>1, <1>2, <1>3, <1>a
<1>6. \A k \in 1 .. i : u[k] = t[k]
  BY <1>2, <1>a
<1>7. \A k \in 1 .. n - i - 1 : u[i + k] = t[i + 1 + k]
  BY <1>2, <1>3, <1>a
<1>8. ASSUME NEW k \in 1 .. n - 1 PROVE u[k] = t[IF k <= i THEN k ELSE k + 1]
  <2>1. CASE k <= i
    BY <2>1, <1>1, <1>6
  <2>2. CASE ~ (k <= i)
    <3>. DEFINE j == k - i
    <3>1. j \in 1 .. n - i - 1 /\ i + 1 + j = k + 1 /\ i + j = k
      BY <1>1, <2>2
    <3>. HIDE DEF j
    <3>2. u[k] = t[k + 1]
      BY <3>1, <1>7
    <3>. QED BY <3>2, <2>2
  <2>. QED BY <2>1, <2>2
<1>. QED BY <1>4, <1>5, <1>8 DEF n

\* insert at a position in range
LEMMA InsertStores ==
  ASSUME ListInv, NEW l \in Lists, NEW idx \in 0 .. Size(l), NEW v \in Words, NEW r,
         Update(l, InsertUnchecked(Array(l), idx, v), r)
  PROVE  Stores(l, PutIn(Mapped[l], idx, v), r)
<1>. DEFINE a == Array(l)
            t == Mapped[l]
            b == InsertUnchecked(a, idx, v)
            s == PutIn(t, idx, v)
<1>1. /\ Counted(a, Base(l)) /\ Base(l) \in [Elements -> Int] /\ a.size \in Nat /\ idx \in 0 .. a.size
      /\ t \in Seq(Words) /\ Len(t) = a.size /\ \A k \in 1 .. a.size : a.cells[k] = t[k]
  BY ListIs
<1>2. Update(l, b, r)
  OBVIOUS
<1>. HIDE DEF a, t
<1>3. /\ Counted(b, Base(l)) /\ b.size = a.size + 1 /\ b.cells[idx + 1] = v
      /\ \A k \in 1 .. a.size : b.cells[IF k <= idx THEN k ELSE k + 1] = a.cells[k]
  BY <1>1, InsertOK
<1>4. /\ s \in Seq(Words) /\ Len(s) = a.size + 1 /\ s[idx + 1] = v
      /\ \A k \in 1 .. a.size : s[IF k <= idx THEN k ELSE k + 1] = t[k]
  <2>1. idx \in 0 .. Len(t)
    BY <1>1
  <2>2. /\ PutIn(t, idx, v) \in Seq(Words) /\ Len(PutIn(t, idx, v)) = Len(t) + 1
        /\ PutIn(t, idx, v)[idx + 1] = v
        /\ \A k \in 1 .. Len(t) : PutIn(t, idx, v)[IF k <= idx THEN k ELSE k + 1] = t[k]
    BY <1>1, <2>1, PutInIs
  <2>. QED BY <1>1, <2>2
<1>. HIDE DEF b, s
<1>5. ASSUME NEW k \in 1 .. b.size PROVE b.cells[k] = s[k]
  <2>1. CASE k = idx + 1
    BY <2>1, <1>3, <1>4
  <2>2. CASE k < idx + 1
    <3>1. k \in 1 .. a.size /\ k <= idx
      BY <1>1, <1>3, <2>2
    <3>2. (IF k <= idx THEN k ELSE k + 1) = k
      BY <3>1
    <3>. QED BY <3>1, <3>2, <1>1, <1>3, <1>4
  <2>3. CASE k > idx + 1
    <3>. DEFINE j == k - 1
    <3>1. j \in 1 .. a.size /\ ~ (j <= idx) /\ j + 1 = k
      BY <1>1, <1>3, <2>3
    <3>. HIDE DEF j
    <3>2. (IF j <= idx THEN j ELSE j + 1) = k
      BY <3>1
    <3>. QED BY <3>1, <3>2, <1>1, <1>3, <1>4
  <2>. QED BY <1>1, <2>1, <2>2, <2>3
<1>6. Items(b) = s
  BY <1>3, <1>4, <1>5, ItemsEqual
<1>. QED BY <1>2, <1>3, <1>6 DEF Stores, s, t

\* pop at a position in range
LEMMA PopStores ==
  ASSUME ListInv, NEW l \in Lists, NEW idx \in 0 .. Size(l) - 1, NEW r,
         Update(l, PopUnchecked(Array(l), idx), r)
  PROVE  Stores(l, PythonList!Without(Mapped[l], idx + 1), r)
<1>. DEFINE a == Array(l)
            t == Mapped[l]
            b == PopUnchecked(a, idx)
            s == PythonList!Without(t, idx + 1)
<1>1. /\ Counted(a, Base(l)) /\ Base(l) \in [Elements -> Int] /\ a.size \in Nat /\ idx \in 0 .. a.size - 1
      /\ t \in Seq(Words) /\ Len(t) = a.size /\ \A k \in 1 .. a.size : a.cells[k] = t[k]
  BY ListIs
<1>2. Update(l, b, r)
  OBVIOUS
<1>. HIDE DEF a, t
<1>3. /\ Counted(b, Base(l)) /\ b.size = a.size - 1
      /\ \A k \in 1 .. a.size - 1 : b.cells[k] = a.cells[IF k <= idx THEN k ELSE k + 1]
  BY <1>1, PopOK
<1>4. /\ s \in Seq(Words) /\ Len(s) = a.size - 1
      /\ \A k \in 1 .. a.size - 1 : s[k] = t[IF k <= idx THEN k ELSE k + 1]
  <2>1. idx \in 0 .. Len(t) - 1
    BY <1>1
  <2>. QED BY <1>1, <2>1, WithoutIs
<1>. HIDE DEF b, s
<1>5. ASSUME NEW k \in 1 .. b.size PROVE b.cells[k] = s[k]
  <2>1. k \in 1 .. a.size - 1 /\ (IF k <= idx THEN k ELSE k + 1) \in 1 .. a.size
    BY <1>1, <1>3
  <2>. QED BY <2>1, <1>1, <1>3, <1>4
<1>6. Items(b) = s
  BY <1>3, <1>4, <1>5, ItemsEqual
<1>. QED BY <1>2, <1>3, <1>6 DEF Stores, s, t

\* Assignment to a position in range.
LEMMA SetStores ==
  ASSUME ListInv, NEW l \in Lists, NEW k \in 1 .. Size(l), NEW v \in Words, NEW r,
         Update(l, Set(Array(l), k, v), r)
  PROVE  Stores(l, [Mapped[l] EXCEPT ![k] = v], r)
<1>. DEFINE a == Array(l)
            t == Mapped[l]
            b == Set(a, k, v)
            s == [t EXCEPT ![k] = v]
<1>1. /\ Counted(a, Base(l)) /\ Base(l) \in [Elements -> Int] /\ a.size \in Nat /\ k \in 1 .. a.size
      /\ t \in Seq(Words) /\ Len(t) = a.size /\ \A j \in 1 .. a.size : a.cells[j] = t[j]
  BY ListIs
<1>2. Update(l, b, r)
  OBVIOUS
<1>. HIDE DEF a, t
<1>3. /\ Counted(b, Base(l)) /\ b.size = a.size /\ b.cells[k] = v
      /\ \A j \in 1 .. Len(a.cells) : j # k => b.cells[j] = a.cells[j]
  BY <1>1, SetOK
<1>4. s \in Seq(Words) /\ Len(s) = a.size /\ s[k] = v /\ \A j \in 1 .. a.size : j # k => s[j] = t[j]
  BY <1>1
<1>5. a.size <= Len(a.cells) /\ Len(a.cells) \in Nat
  BY <1>1, CountedIs
<1>. HIDE DEF b, s
<1>6. \A j \in 1 .. b.size : b.cells[j] = s[j]
  BY <1>1, <1>3, <1>4, <1>5
<1>7. Items(b) = s
  BY <1>3, <1>4, <1>6, ItemsEqual
<1>. QED BY <1>2, <1>3, <1>7 DEF Stores, s, t

-----------------------------------------------------------------------------
(* Indexes and searches mean what Python's mean.                           *)
LEMMA LeastIs ==
  ASSUME NEW S \in SUBSET Nat, S # {}
  PROVE  Min(S) \in S /\ \A y \in S : Min(S) <= y
<1>1. \E x \in S : \A y \in S : x <= y
  BY LeastElement
<1>. QED BY <1>1 DEF Min

\* Negative indexes wrap, and insertion points clip, as Python's do.
LEMMA IndexIs ==
  ASSUME ListInv, NEW l \in Lists, NEW i \in ListIndexes
  PROVE  /\ PythonList!Resolve(l, i) = WrapListIndex(l, i) /\ WrapListIndex(l, i) \in Int
         /\ PythonList!InRange(l, i) <=> IndexInList(l, i)
         /\ PythonList!Clip(l, i) = NormalizeInsertionIndex(l, i)
         /\ NormalizeInsertionIndex(l, i) \in 0 .. Size(l)
<1>1. i \in Int /\ Size(l) \in Nat
  BY ListConstants, MappedIs
<1>2. Len(Mapped[l]) = Size(l)
  BY MappedIs
<1>3. PythonList!Resolve(l, i) = WrapListIndex(l, i) /\ WrapListIndex(l, i) \in Int
  <2>1. PythonList!Resolve(l, i) = IF i < 0 THEN i + Len(Mapped[l]) ELSE i
    BY DEF PythonList!Resolve, Mapped
  <2>2. WrapListIndex(l, i) = IF i < 0 THEN i + Size(l) ELSE i
    BY DEF WrapListIndex
  <2>. QED BY <1>1, <1>2, <2>1, <2>2
<1>4. PythonList!InRange(l, i) <=> IndexInList(l, i)
  BY <1>2, <1>3 DEF PythonList!InRange, Mapped, IndexInList
<1>. DEFINE n == Size(l)
            w == WrapListIndex(l, i)
<1>5. PythonList!Clip(l, i) = Max({0, Min({w, n})})
  <2>1. PythonList!Clip(l, i) = PythonList!Max({0, PythonList!Min({PythonList!Resolve(l, i), Len(Mapped[l])})})
    BY DEF PythonList!Clip, Mapped
  <2>2. PythonList!Clip(l, i) = PythonList!Max({0, PythonList!Min({w, n})})
    BY <1>2, <1>3, <2>1
  <2>3. PythonList!Min({w, n}) = Min({w, n})
    BY DEF PythonList!Min, Min
  <2>4. PythonList!Max({0, Min({w, n})}) = Max({0, Min({w, n})})
    BY DEF PythonList!Max, Max
  <2>. QED BY <2>2, <2>3, <2>4
<1>6. NormalizeInsertionIndex(l, i) = IF w < 0 THEN 0 ELSE IF w > n THEN n ELSE w
  BY DEF NormalizeInsertionIndex
<1>7. n \in Nat /\ w \in Int
  BY <1>1, <1>3
<1>. HIDE DEF n, w
<1>8. Min({w, n}) = IF w < n THEN w ELSE n
  BY <1>7 DEF Min
<1>. DEFINE u == Min({w, n})
<1>9. u \in Int /\ u = IF w < n THEN w ELSE n
  BY <1>7, <1>8
<1>. HIDE DEF u
<1>10. Max({0, u}) = IF 0 < u THEN u ELSE 0
  BY <1>9 DEF Max
<1>11. PythonList!Clip(l, i) = NormalizeInsertionIndex(l, i)
  BY <1>5, <1>6, <1>7, <1>9, <1>10 DEF u
<1>12. NormalizeInsertionIndex(l, i) \in 0 .. Size(l)
  BY <1>6, <1>7 DEF n
<1>. QED BY <1>3, <1>4, <1>11, <1>12

Hits(l, e, start, end) == {k \in start .. end - 1 : Item(l, k + 1) = e}

\* A search returns the first hit, or its end.
LEMMA FirstWordIs ==
  ASSUME NEW l, NEW e, NEW start \in Nat, NEW end \in Nat
  PROVE  LET f == FirstWord(l, e, start, end)
         IN  /\ Hits(l, e, start, end) = {} => f = end
             /\ Hits(l, e, start, end) # {} => f \in Hits(l, e, start, end) /\ f < end
             /\ f \in Nat /\ \A k \in Hits(l, e, start, end) : f <= k
<1>. DEFINE H == Hits(l, e, start, end)
            S == {end} \cup H
            f == Min(S)
<1>1. FirstWord(l, e, start, end) = f
  BY DEF FirstWord, Hits
<1>2. \A k \in H : k \in Nat /\ k < end
  BY DEF Hits
<1>. HIDE DEF H
<1>3. S \in SUBSET Nat /\ S # {} /\ end \in S /\ \A k \in H : k \in S
  BY <1>2
<1>. HIDE DEF S
<1>4. f \in S /\ \A k \in S : f <= k
  BY <1>3, LeastIs
<1>. HIDE DEF f
<1>5. H = {} => f = end
  BY <1>4 DEF S
<1>6. H # {} => f \in H /\ f < end
  BY <1>2, <1>3, <1>4 DEF S
<1>7. f \in Nat /\ \A k \in H : f <= k
  BY <1>3, <1>4
<1>. QED BY <1>1, <1>5, <1>6, <1>7 DEF H

\* Where the list holds e itself
LEMMA WhereIs ==
  ASSUME ListInv, NEW l \in Lists, NEW e
  PROVE  PythonList!Identical(Mapped[l], e) = {k \in 1 .. Size(l) : Item(l, k) = e}
<1>1. DOMAIN Mapped[l] = 1 .. Size(l) /\ \A k \in 1 .. Size(l) : Mapped[l][k] = Item(l, k)
  BY MappedIs
<1>. DEFINE s == Mapped[l]
<1>. HIDE DEF s
<1>2. DOMAIN s = 1 .. Size(l) /\ \A k \in 1 .. Size(l) : s[k] = Item(l, k)
  BY <1>1 DEF s
<1>3. PythonList!Identical(s, e) = {k \in 1 .. Size(l) : Item(l, k) = e}
  BY <1>2 DEF PythonList!Identical
<1>. QED BY <1>3 DEF s

\* A search between bounds finds what Python finds between them.
LEMMA FoundIs ==
  ASSUME ListInv, NEW l \in Lists, NEW e, NEW start \in 0 .. Size(l), NEW end \in 0 .. Size(l),
         NEW F, F = {k \in PythonList!Identical(Mapped[l], e) : k > start /\ k <= end},
         NEW f, f = FirstWord(l, e, start, end)
  PROVE  /\ f < end <=> F # {}
         /\ F # {} => f + 1 = Min(F)
         /\ f \in Nat
<1>. DEFINE H == Hits(l, e, start, end)
<1>1. Size(l) \in Nat /\ start \in Nat /\ end \in Nat /\ end <= Size(l)
  BY MappedIs
<1>2. F = {k \in 1 .. Size(l) : Item(l, k) = e /\ k > start /\ k <= end}
  BY WhereIs
<1>3. /\ H = {} => f = end
      /\ H # {} => f \in H /\ f < end
      /\ f \in Nat /\ \A k \in H : f <= k
  BY <1>1, FirstWordIs
<1>4. ASSUME NEW k \in F PROVE k \in Nat /\ k - 1 \in H
  BY <1>1, <1>2 DEF Hits
<1>5. ASSUME NEW k \in H PROVE k + 1 \in F
  BY <1>1, <1>2 DEF Hits
<1>. HIDE DEF H
<1>6. F = {} <=> H = {}
  BY <1>4, <1>5
<1>7. f < end <=> F # {}
  BY <1>1, <1>3, <1>6
<1>8. ASSUME F # {} PROVE f + 1 = Min(F)
  <2>1. F \in SUBSET Nat
    BY <1>4
  <2>2. Min(F) \in F /\ \A k \in F : Min(F) <= k
    BY <1>8, <2>1, LeastIs
  <2>. DEFINE m == Min(F)
  <2>3. m \in F /\ \A k \in F : m <= k
    BY <2>2
  <2>. HIDE DEF m
  <2>4. m \in Nat /\ m - 1 \in H
    BY <2>3, <1>4
  <2>5. f \in H
    BY <1>3, <2>4
  <2>6. f + 1 \in F
    BY <1>5, <2>5
  <2>7. f <= m - 1 /\ m <= f + 1
    BY <1>3, <2>3, <2>4, <2>6
  <2>8. f + 1 = m
    BY <1>3, <2>4, <2>7
  <2>. QED BY <2>8 DEF m
<1>. QED BY <1>3, <1>7, <1>8

-----------------------------------------------------------------------------
(* Every operation is Python's.                                            *)
LEMMA IteratorStays ==
  ASSUME ListInv, UNCHANGED iterator
  PROVE  IteratorOK'
BY DEF ListInv, IteratorOK

\* An operation that stores a list and leaves the iterator alone.
LEMMA StoredStep ==
  ASSUME ListInv, NEW l \in Lists, NEW s, NEW r, Stores(l, s, r), UNCHANGED iterator
  PROVE  ListInv' /\ PythonList!Becomes(l, s, r)
BY IteratorStays, StoreKeeps, StoreMaps

\* An operation that only replies.
LEMMA RepliedStep ==
  ASSUME ListInv, NEW r, Reply(r), UNCHANGED iterator
  PROVE  ListInv' /\ PythonList!Same(r)
BY IteratorStays, ReplyKeeps, ReplyMaps

\* The replies of both modules are the same.
LEMMA Replies ==
  /\ PythonList!Nothing = Returned(NoneWord)
  /\ \A v : PythonList!Value(v) = Returned(v) /\ PythonList!Number(v) = ReturnedInt(v)
            /\ PythonList!Raises(v) = RaisedError(v)
BY DEF PythonList!Nothing, PythonList!Value, PythonList!Number, PythonList!Raises,
       Returned, ReturnedInt, RaisedError, NoneWord

\* So are the calls.
LEMMA CallsAgree == (\A c : PythonList!Calls(c) <=> Called(c)) /\ PythonList!NoCall = NoListCall
BY DEF PythonList!Calls, Called, PythonList!NoCall, NoListCall

\* append
LEMMA AppendStep ==
  ASSUME ListInv, NEW l \in Lists, NEW e \in Elements, NativeAppend(l, e), UNCHANGED iterator
  PROVE  ListInv' /\ PythonList!Append_(l, e)
<1>1. ListInv' /\ PythonList!Becomes(l, Append(Mapped[l], e), Returned(NoneWord))
  BY AppendStores, StoredStep
<1>. QED BY <1>1, Replies DEF PythonList!Append_, Mapped

\* clear
LEMMA ClearStep ==
  ASSUME ListInv, NEW l \in Lists, NativeClear(l), UNCHANGED iterator
  PROVE  ListInv' /\ PythonList!Clear(l)
<1>1. ListInv' /\ PythonList!Becomes(l, <<>>, Returned(NoneWord))
  BY ClearStores, StoredStep
<1>. QED BY <1>1, Replies DEF PythonList!Clear

\* copy
LEMMA CopyStep ==
  ASSUME ListInv, NEW l \in Lists, NEW d \in Lists, NativeCopy(l, d), UNCHANGED iterator
  PROVE  ListInv' /\ PythonList!Copy(l, d) /\ PythonList!Unheld(d)
<1>1. ListInv' /\ PythonList!Becomes(d, Mapped[l], Returned(NoneWord))
  BY CopyStores, StoredStep
<1>2. PythonList!Unheld(d)
  BY DEF NativeCopy, Free, PythonList!Unheld
<1>. QED BY <1>1, <1>2, Replies DEF PythonList!Copy, Mapped

\* Concatenation.
LEMMA AddStep ==
  ASSUME ListInv, NEW l \in Lists, NEW m \in Lists, NEW d \in Lists, NativeAdd(l, m, d), UNCHANGED iterator
  PROVE  ListInv' /\ PythonList!Concat(l, m, d) /\ PythonList!Unheld(d)
<1>1. ListInv' /\ PythonList!Becomes(d, Mapped[l] \o Mapped[m], Returned(NoneWord))
  BY AddStores, StoredStep
<1>2. PythonList!Unheld(d)
  BY DEF NativeAdd, Free, PythonList!Unheld
<1>. QED BY <1>1, <1>2, Replies DEF PythonList!Concat, Mapped

\* extend by a list
LEMMA ExtendStep ==
  ASSUME ListInv, NEW l \in Lists, NEW m \in Lists, ExtendFromList(l, m), UNCHANGED iterator
  PROVE  ListInv' /\ PythonList!Extend(l, m)
<1>1. ListInv' /\ PythonList!Becomes(l, Mapped[l] \o Mapped[m], Returned(NoneWord))
  BY ExtendStores, StoredStep
<1>. QED BY <1>1, Replies DEF PythonList!Extend, Mapped

\* extend by a tuple
LEMMA ExtendTupleStep ==
  ASSUME ListInv, NEW l \in Lists, NEW t \in Tuples, ExtendFromTuple(l, t), UNCHANGED iterator
  PROVE  ListInv' /\ PythonList!ExtendTuple(l, t)
<1>1. ListInv' /\ PythonList!Becomes(l, Mapped[l] \o t, Returned(NoneWord))
  BY ExtendTupleStores, StoredStep
<1>. QED BY <1>1, Replies DEF PythonList!ExtendTuple, Mapped

\* reverse
LEMMA ReverseStep ==
  ASSUME ListInv, NEW l \in Lists, NativeReverse(l), UNCHANGED iterator
  PROVE  ListInv' /\ PythonList!Reverse_(l)
<1>1. ListInv' /\ PythonList!Becomes(l, [k \in DOMAIN Mapped[l] |-> Mapped[l][Len(Mapped[l]) + 1 - k]], Returned(NoneWord))
  BY ReverseStores, StoredStep
<1>. QED BY <1>1, Replies DEF PythonList!Reverse_, Mapped

\* insert
LEMMA InsertStep ==
  ASSUME ListInv, NEW l \in Lists, NEW i \in ListIndexes, NEW e \in Elements, NativeInsert(l, i, e), UNCHANGED iterator
  PROVE  ListInv' /\ PythonList!Insert(l, i, e)
<1>. DEFINE k == NormalizeInsertionIndex(l, i)
<1>1. k \in 0 .. Size(l) /\ PythonList!Clip(l, i) = k
  BY IndexIs
<1>2. e \in Words
  BY DEF Words
<1>3. Update(l, InsertUnchecked(Array(l), k, e), Returned(NoneWord))
  BY DEF NativeInsert
<1>. HIDE DEF k
<1>4. Stores(l, PutIn(Mapped[l], k, e), Returned(NoneWord))
  BY <1>1, <1>2, <1>3, InsertStores
<1>5. ListInv' /\ PythonList!Becomes(l, PutIn(Mapped[l], k, e), Returned(NoneWord))
  BY <1>4, StoredStep
<1>. QED BY <1>1, <1>5, Replies DEF PythonList!Insert, PutIn, Mapped

\* The item at idx goes away.
LEMMA PopAt ==
  ASSUME ListInv, NEW l \in Lists, NEW i \in ListIndexes, IndexInList(l, i), NEW r,
         Update(l, PopUnchecked(Array(l), WrapListIndex(l, i)), r), UNCHANGED iterator
  PROVE  /\ ListInv' /\ PythonList!Becomes(l, PythonList!Without(Mapped[l], PythonList!Resolve(l, i) + 1), r)
         /\ PythonList!InRange(l, i)
         /\ Item(l, WrapListIndex(l, i) + 1) = Mapped[l][PythonList!Resolve(l, i) + 1]
<1>. DEFINE k == WrapListIndex(l, i)
<1>1. k \in 0 .. Size(l) - 1 /\ PythonList!Resolve(l, i) = k /\ PythonList!InRange(l, i)
  BY IndexIs DEF IndexInList
<1>. HIDE DEF k
<1>2. Stores(l, PythonList!Without(Mapped[l], k + 1), r)
  BY <1>1, PopStores DEF k
<1>3. ListInv' /\ PythonList!Becomes(l, PythonList!Without(Mapped[l], k + 1), r)
  BY <1>2, StoredStep
<1>4. Item(l, k + 1) = Mapped[l][k + 1]
  <2>1. k + 1 \in 1 .. Size(l)
    BY <1>1, MappedIs
  <2>. QED BY <2>1, MappedIs
<1>. QED BY <1>1, <1>3, <1>4 DEF k

\* An index out of range raises and changes nothing.
LEMMA OutOfRange ==
  ASSUME ListInv, NEW l \in Lists, NEW i \in ListIndexes, ~ IndexInList(l, i),
         Reply(RaisedError("IndexError")), UNCHANGED iterator
  PROVE  ListInv' /\ PythonList!Same(PythonList!Raises("IndexError")) /\ ~ PythonList!InRange(l, i)
<1>1. ~ PythonList!InRange(l, i)
  BY IndexIs
<1>2. ListInv' /\ PythonList!Same(RaisedError("IndexError"))
  BY RepliedStep
<1>. QED BY <1>1, <1>2, Replies

\* pop
LEMMA PopStep ==
  ASSUME ListInv, NEW l \in Lists, NEW i \in ListIndexes, NativePop(l, i), UNCHANGED iterator
  PROVE  ListInv' /\ PythonList!Pop(l, i)
<1>1. CASE IndexInList(l, i)
  <2>. PICK r : r = Returned(Item(l, WrapListIndex(l, i) + 1))
    OBVIOUS
  <2>1. Update(l, PopUnchecked(Array(l), WrapListIndex(l, i)), r)
    BY <1>1 DEF NativePop
  <2>2. /\ ListInv' /\ PythonList!InRange(l, i)
        /\ PythonList!Becomes(l, PythonList!Without(Mapped[l], PythonList!Resolve(l, i) + 1), r)
        /\ Item(l, WrapListIndex(l, i) + 1) = Mapped[l][PythonList!Resolve(l, i) + 1]
    BY <1>1, <2>1, PopAt
  <2>4. PythonList!Pop(l, i) <=> PythonList!Becomes(l, PythonList!Without(Mapped[l], PythonList!Resolve(l, i) + 1),
                                                   PythonList!Value(Mapped[l][PythonList!Resolve(l, i) + 1]))
    BY <2>2 DEF PythonList!Pop, Mapped
  <2>5. PythonList!Value(Mapped[l][PythonList!Resolve(l, i) + 1]) = r
    BY <2>2, Replies
  <2>6. PythonList!Becomes(l, PythonList!Without(Mapped[l], PythonList!Resolve(l, i) + 1),
                           PythonList!Value(Mapped[l][PythonList!Resolve(l, i) + 1]))
    BY <2>2, <2>5 DEF PythonList!Becomes
  <2>. QED BY <2>2, <2>4, <2>6
<1>2. CASE ~ IndexInList(l, i)
  <2>1. Reply(RaisedError("IndexError"))
    BY <1>2 DEF NativePop
  <2>. QED BY <1>2, <2>1, OutOfRange DEF PythonList!Pop
<1>. QED BY <1>1, <1>2

\* del l[i]
LEMMA DelStep ==
  ASSUME ListInv, NEW l \in Lists, NEW i \in ListIndexes, NativeDelitem(l, i), UNCHANGED iterator
  PROVE  ListInv' /\ PythonList!Del(l, i)
<1>1. CASE IndexInList(l, i)
  <2>1. Update(l, PopUnchecked(Array(l), WrapListIndex(l, i)), Returned(NoneWord))
    BY <1>1 DEF NativeDelitem
  <2>2. /\ ListInv' /\ PythonList!InRange(l, i)
        /\ PythonList!Becomes(l, PythonList!Without(Mapped[l], PythonList!Resolve(l, i) + 1), Returned(NoneWord))
    BY <1>1, <2>1, PopAt
  <2>. QED BY <2>2, Replies DEF PythonList!Del, Mapped
<1>2. CASE ~ IndexInList(l, i)
  <2>1. Reply(RaisedError("IndexError"))
    BY <1>2 DEF NativeDelitem
  <2>. QED BY <1>2, <2>1, OutOfRange DEF PythonList!Del
<1>. QED BY <1>1, <1>2

\* l[i] = e
LEMMA SetitemStep ==
  ASSUME ListInv, NEW l \in Lists, NEW i \in ListIndexes, NEW e \in Elements, NativeSetitem(l, i, e), UNCHANGED iterator
  PROVE  ListInv' /\ PythonList!SetItem(l, i, e)
<1>1. CASE IndexInList(l, i)
  <2>. DEFINE k == WrapListIndex(l, i) + 1
  <2>1. k \in 1 .. Size(l) /\ PythonList!Resolve(l, i) + 1 = k /\ PythonList!InRange(l, i)
    BY <1>1, IndexIs, MappedIs DEF IndexInList
  <2>2. Update(l, Set(Array(l), k, e), Returned(NoneWord)) /\ e \in Words
    BY <1>1 DEF NativeSetitem, Words
  <2>. HIDE DEF k
  <2>3. Stores(l, [Mapped[l] EXCEPT ![k] = e], Returned(NoneWord))
    BY <2>1, <2>2, SetStores
  <2>4. ListInv' /\ PythonList!Becomes(l, [Mapped[l] EXCEPT ![k] = e], Returned(NoneWord))
    BY <2>3, StoredStep
  <2>. QED BY <2>1, <2>4, Replies DEF PythonList!SetItem, Mapped
<1>2. CASE ~ IndexInList(l, i)
  <2>1. Reply(RaisedError("IndexError"))
    BY <1>2 DEF NativeSetitem
  <2>. QED BY <1>2, <2>1, OutOfRange DEF PythonList!SetItem
<1>. QED BY <1>1, <1>2

\* l[i]
LEMMA GetItemStep ==
  ASSUME ListInv, NEW l \in Lists, NEW i \in ListIndexes, GetItemOf(l, i), UNCHANGED iterator
  PROVE  ListInv' /\ PythonList!GetItem(l, i)
<1>1. CASE IndexInList(l, i)
  <2>. DEFINE k == WrapListIndex(l, i) + 1
  <2>1. k \in 1 .. Size(l) /\ PythonList!Resolve(l, i) + 1 = k /\ PythonList!InRange(l, i)
    BY <1>1, IndexIs, MappedIs DEF IndexInList
  <2>2. Reply(Returned(Item(l, k)))
    BY <1>1 DEF GetItemOf
  <2>. HIDE DEF k
  <2>3. Item(l, k) = Mapped[l][k]
    BY <2>1, MappedIs
  <2>4. ListInv' /\ PythonList!Same(Returned(Mapped[l][k]))
    BY <2>2, <2>3, RepliedStep
  <2>. QED BY <2>1, <2>4, Replies DEF PythonList!GetItem, Mapped
<1>2. CASE ~ IndexInList(l, i)
  <2>1. Reply(RaisedError("IndexError"))
    BY <1>2 DEF GetItemOf
  <2>. QED BY <1>2, <2>1, OutOfRange DEF PythonList!GetItem
<1>. QED BY <1>1, <1>2

\* remove: the first of the equal items goes, or ValueError is raised.
LEMMA RemoveStep ==
  ASSUME ListInv, NEW l \in Lists, NEW e \in Elements, NativeRemove(l, e), UNCHANGED iterator
  PROVE  ListInv' /\ PythonList!RemoveFound(l, PythonList!Identical(Mapped[l], e))
<1>. DEFINE n == Size(l)
            W == PythonList!Identical(Mapped[l], e)
            F == {k \in W : k > 0 /\ k <= n}
            f == FirstWord(l, e, 0, n)
<1>1. n \in Nat /\ 0 \in 0 .. n /\ n \in 0 .. n
  BY MappedIs
<1>2. W = F
  BY <1>1, WhereIs
<1>3. (f < n <=> F # {}) /\ (F # {} => f + 1 = Min(F)) /\ f \in Nat
  <2>1. PICK G, g : G = F /\ g = f
    OBVIOUS
  <2>. HIDE DEF F, f
  <2>2. G = {k \in PythonList!Identical(Mapped[l], e) : k > 0 /\ k <= n}
    BY <2>1 DEF F
  <2>3. g = FirstWord(l, e, 0, n)
    BY <2>1 DEF f
  <2>4. (g < n <=> G # {}) /\ (G # {} => g + 1 = Min(G)) /\ g \in Nat
    BY <1>1, <2>2, <2>3, FoundIs
  <2>. QED BY <2>1, <2>4
<1>4. PythonList!Min(W) = Min(W)
  BY DEF PythonList!Min, Min
<1>5. IF f < n THEN Update(l, PopUnchecked(Array(l), f), Returned(NoneWord)) ELSE Reply(RaisedError("ValueError"))
  BY DEF NativeRemove
<1>6. PythonList!RemoveFound(l, W) <=> IF W = {} THEN PythonList!Same(PythonList!Raises("ValueError"))
                                  ELSE PythonList!Becomes(l, PythonList!Without(Mapped[l], PythonList!Min(W)), PythonList!Nothing)
  BY DEF PythonList!RemoveFound, Mapped
<1>. SUFFICES ListInv' /\ PythonList!RemoveFound(l, W)
  OBVIOUS
<1>. HIDE DEF f, F, W
<1>7. CASE f < n
  <2>1. f \in 0 .. n - 1 /\ W # {} /\ f + 1 = PythonList!Min(W)
    BY <1>1, <1>2, <1>3, <1>4, <1>7
  <2>2. Stores(l, PythonList!Without(Mapped[l], f + 1), Returned(NoneWord))
    BY <1>5, <1>7, <2>1, PopStores
  <2>3. ListInv' /\ PythonList!Becomes(l, PythonList!Without(Mapped[l], f + 1), Returned(NoneWord))
    BY <2>2, StoredStep
  <2>4. PythonList!Nothing = Returned(NoneWord)
    BY Replies
  <2>. QED BY <1>6, <2>1, <2>3, <2>4
<1>8. CASE ~ (f < n)
  <2>1. ListInv' /\ PythonList!Same(RaisedError("ValueError"))
    BY <1>5, <1>8, RepliedStep
  <2>. QED BY <1>2, <1>3, <1>6, <1>8, <2>1, Replies
<1>. QED BY <1>7, <1>8

\* count
LEMMA CountStep ==
  ASSUME ListInv, NEW l \in Lists, NEW e \in Elements, NativeCount(l, e), UNCHANGED iterator
  PROVE  ListInv' /\ PythonList!CountFound(PythonList!Identical(Mapped[l], e))
<1>1. Reply(ReturnedInt(Cardinality(PythonList!Identical(Mapped[l], e))))
  BY WhereIs DEF NativeCount
<1>2. ListInv' /\ PythonList!Same(ReturnedInt(Cardinality(PythonList!Identical(Mapped[l], e))))
  BY <1>1, RepliedStep
<1>3. \A S : PythonList!Cardinality(S) = Cardinality(S)
  BY DEF PythonList!Cardinality, Cardinality
<1>. QED BY <1>2, <1>3, Replies DEF PythonList!CountFound

\* index, between bounds
LEMMA IndexStep ==
  ASSUME ListInv, NEW l \in Lists, NEW e \in Elements, NEW i \in ListIndexes, NEW j \in ListIndexes,
         NativeIndex(l, e, i, j), UNCHANGED iterator
  PROVE  ListInv' /\ PythonList!IndexFound(l, PythonList!Identical(Mapped[l], e), i, j)
<1>. DEFINE start == NormalizeInsertionIndex(l, i)
            stop == NormalizeInsertionIndex(l, j)
            F == {k \in PythonList!Identical(Mapped[l], e) : k > start /\ k <= stop}
            f == FirstWord(l, e, start, stop)
<1>1. /\ start \in 0 .. Size(l) /\ stop \in 0 .. Size(l)
      /\ PythonList!Clip(l, i) = start /\ PythonList!Clip(l, j) = stop
  BY IndexIs
<1>2. Reply(IF f < stop THEN ReturnedInt(f) ELSE RaisedError("ValueError"))
  BY DEF NativeIndex, NormalizeListSearchBound
<1>. HIDE DEF start, stop
<1>3. (f < stop <=> F # {}) /\ (F # {} => f + 1 = Min(F)) /\ f \in Nat
  <2>1. PICK G, g : G = F /\ g = f
    OBVIOUS
  <2>. HIDE DEF F, f
  <2>2. G = {k \in PythonList!Identical(Mapped[l], e) : k > start /\ k <= stop}
    BY <2>1 DEF F
  <2>3. g = FirstWord(l, e, start, stop)
    BY <2>1 DEF f
  <2>4. (g < stop <=> G # {}) /\ (G # {} => g + 1 = Min(G)) /\ g \in Nat
    BY <1>1, <2>2, <2>3, FoundIs
  <2>. QED BY <2>1, <2>4
<1>4. PythonList!Min(F) = Min(F)
  BY DEF PythonList!Min, Min
<1>. DEFINE r == IF F = {} THEN PythonList!Raises("ValueError") ELSE PythonList!Number(PythonList!Min(F) - 1)
<1>5. PythonList!IndexFound(l, PythonList!Identical(Mapped[l], e), i, j) <=> PythonList!Same(r)
  BY <1>1 DEF PythonList!IndexFound, Mapped
<1>. HIDE DEF f, F
<1>6. (IF f < stop THEN ReturnedInt(f) ELSE RaisedError("ValueError")) = r
  <2>1. CASE F = {}
    BY <2>1, <1>3, Replies
  <2>2. CASE F # {}
    <3>1. PythonList!Min(F) - 1 = f
      BY <1>3, <1>4, <2>2
    <3>. QED BY <3>1, <2>2, <1>3, Replies
  <2>. QED BY <2>1, <2>2
<1>. HIDE DEF r
<1>7. ListInv' /\ PythonList!Same(r)
  BY <1>2, <1>6, RepliedStep
<1>. QED BY <1>5, <1>7

\* A step of a Python list, or one of the two that are excepted
PythonStep == PythonList!Next \/ PythonList!SearchByIdentity \/ PythonList!GoOnAfterEnd

\* A search is Python's, where no other item is equal to e, or the excepted step.
LEMMA SearchStep ==
  ASSUME ListInv, NEW l \in Lists, NEW e \in Elements, UNCHANGED iterator,
         \/ Called(<<"remove", l, e>>) /\ NativeRemove(l, e)
         \/ Called(<<"count", l, e>>) /\ NativeCount(l, e)
         \/ \E i, j \in ListIndexes : Called(<<"index", l, e, i, j>>) /\ NativeIndex(l, e, i, j)
  PROVE  ListInv' /\ PythonStep
<1>. DEFINE found == PythonList!Identical(Mapped[l], e)
<1>1. PythonList!Where([m \in Lists |-> SubSeq(arrays[m].cells, 1, arrays[m].size)][l], e)
        = PythonList!Where(Mapped[l], e)
  BY DEF Mapped
<1>2. PythonList!Identical([m \in Lists |-> SubSeq(arrays[m].cells, 1, arrays[m].size)][l], e) = found
  BY DEF Mapped
<1>3. CASE Called(<<"remove", l, e>>) /\ NativeRemove(l, e)
  <2>1. ListInv' /\ PythonList!RemoveFound(l, found)
    BY <1>3, RemoveStep
  <2>2. CASE PythonList!Where(Mapped[l], e) = found
    BY <1>1, <1>3, <2>1, <2>2, CallsAgree DEF PythonStep, PythonList!Next, PythonList!Remove
  <2>3. CASE PythonList!Where(Mapped[l], e) # found
    BY <1>1, <1>2, <1>3, <2>1, <2>3, CallsAgree DEF PythonStep, PythonList!SearchByIdentity
  <2>. QED BY <2>1, <2>2, <2>3
<1>4. CASE Called(<<"count", l, e>>) /\ NativeCount(l, e)
  <2>1. ListInv' /\ PythonList!CountFound(found)
    BY <1>4, CountStep
  <2>2. CASE PythonList!Where(Mapped[l], e) = found
    BY <1>1, <1>4, <2>1, <2>2, CallsAgree DEF PythonStep, PythonList!Next, PythonList!Count
  <2>3. CASE PythonList!Where(Mapped[l], e) # found
    BY <1>1, <1>2, <1>4, <2>1, <2>3, CallsAgree DEF PythonStep, PythonList!SearchByIdentity
  <2>. QED BY <2>1, <2>2, <2>3
<1>5. ASSUME NEW i \in ListIndexes, NEW j \in ListIndexes,
             Called(<<"index", l, e, i, j>>), NativeIndex(l, e, i, j)
      PROVE  ListInv' /\ PythonStep
  <2>1. ListInv' /\ PythonList!IndexFound(l, found, i, j)
    BY <1>5, IndexStep
  <2>2. CASE PythonList!Where(Mapped[l], e) = found
    BY <1>1, <1>5, <2>1, <2>2, CallsAgree DEF PythonStep, PythonList!Next, PythonList!Index
  <2>3. CASE PythonList!Where(Mapped[l], e) # found
    BY <1>1, <1>2, <1>5, <2>1, <2>3, CallsAgree DEF PythonStep, PythonList!SearchByIdentity
  <2>. QED BY <2>1, <2>2, <2>3
<1>. QED BY <1>3, <1>4, <1>5

\* iter
LEMMA IterStep ==
  ASSUME ListInv, NEW l \in Lists, NativeIter(l)
  PROVE  ListInv' /\ PythonList!Iter(l)
<1>1. Reply(Returned(NoneWord)) /\ iterator' = [list |-> l, at |-> 0, ended |-> FALSE]
  BY DEF NativeIter
<1>2. IteratorOK'
  BY <1>1 DEF IteratorOK
<1>3. ListInv' /\ PythonList!Same(Returned(NoneWord))
  BY <1>1, <1>2, ReplyKeeps, ReplyMaps
<1>. QED BY <1>1, <1>3, Replies DEF PythonList!Iter, PythonList!Same

\* next: the iterator compares its position with the size of now, and goes on
\* past an end it had reached before when the list has grown.
LEMMA NextItemStep ==
  ASSUME ListInv, ListIteratorNext, Called(<<"next">>)
  PROVE  ListInv' /\ (PythonList!NextItem \/ PythonList!GoOnAfterEnd)
<1>. DEFINE l == iterator.list
            at == iterator.at
<1>1. l \in Lists /\ at \in Nat /\ iterator.ended \in BOOLEAN
      /\ (iterator = NoListIterator \/ iterator \in [list : Lists, at : Nat, ended : BOOLEAN])
  <2>1. iterator.list \in Lists
    BY DEF ListIteratorNext
  <2>2. iterator = NoListIterator \/ iterator \in [list : Lists, at : Nat, ended : BOOLEAN]
    BY DEF ListInv, IteratorOK
  <2>3. CASE iterator = NoListIterator
    <3>1. iterator.at = 0 /\ iterator.ended = FALSE
      BY <2>3 DEF NoListIterator
    <3>2. iterator.at \in Nat
      BY <3>1
    <3>3. iterator.ended \in BOOLEAN
      BY <3>1, Zenon
    <3>. QED BY <2>1, <2>2, <3>2, <3>3
  <2>4. CASE iterator \in [list : Lists, at : Nat, ended : BOOLEAN]
    <3>1. iterator.at \in Nat /\ iterator.ended \in BOOLEAN
      BY <2>4
    <3>. QED BY <2>1, <2>2, <3>1
  <2>. QED BY <2>2, <2>3, <2>4
<1>2. Size(l) \in Nat /\ Len(Mapped[l]) = Size(l)
  BY <1>1, MappedIs
<1>3. PythonList!Advance <=>
        /\ at < Len(Mapped[l]) /\ iterator' = [iterator EXCEPT !.at = @ + 1]
        /\ PythonList!Same(PythonList!Value(Mapped[l][at + 1]))
  BY <1>1 DEF PythonList!Advance, Mapped
<1>4. PythonList!End <=>
        /\ iterator.ended \/ at >= Len(Mapped[l])
        /\ iterator' = [iterator EXCEPT !.ended = TRUE] /\ PythonList!Same(PythonList!Raises("StopIteration"))
  BY <1>1 DEF PythonList!End, Mapped
<1>5. CASE at >= Size(l)
  <2>1. Reply(RaisedError("StopIteration")) /\ iterator' = [iterator EXCEPT !.ended = TRUE]
    BY <1>5 DEF ListIteratorNext
  <2>2. IteratorOK'
    BY <1>1, <2>1 DEF IteratorOK, NoListIterator
  <2>3. ListInv' /\ PythonList!Same(RaisedError("StopIteration"))
    BY <2>1, <2>2, ReplyKeeps, ReplyMaps
  <2>. QED BY <1>2, <1>4, <1>5, <2>1, <2>3, Replies DEF PythonList!NextItem
<1>6. CASE ~ (at >= Size(l))
  <2>1. Reply(Returned(Item(l, at + 1))) /\ iterator' = [iterator EXCEPT !.at = @ + 1]
    BY <1>6 DEF ListIteratorNext
  <2>2. Item(l, at + 1) = Mapped[l][at + 1]
    <3>1. at + 1 \in 1 .. Size(l)
      BY <1>1, <1>2, <1>6
    <3>. QED BY <1>1, <3>1, MappedIs
  <2>3. IteratorOK'
    BY <1>1, <2>1 DEF IteratorOK, NoListIterator
  <2>4. PICK r : r = Returned(Item(l, at + 1))
    OBVIOUS
  <2>5. Reply(r)
    BY <2>1, <2>4
  <2>6. ListInv' /\ PythonList!Same(r)
    BY <2>3, <2>5, ReplyKeeps, ReplyMaps
  <2>7. PythonList!Value(Mapped[l][at + 1]) = r
    BY <2>2, <2>4, Replies
  <2>8. PythonList!Same(PythonList!Value(Mapped[l][at + 1]))
    BY <2>6, <2>7 DEF PythonList!Same
  <2>9. PythonList!Advance
    BY <1>1, <1>2, <1>3, <1>6, <2>1, <2>8
  <2>. QED BY <1>1, <2>6, <2>9, CallsAgree DEF PythonList!NextItem, PythonList!GoOnAfterEnd
<1>. QED BY <1>5, <1>6

\* The iterator is dropped.
LEMMA DropStep ==
  ASSUME ListInv, DropIterator
  PROVE  ListInv' /\ PythonList!Drop
<1>1. Reply(Returned(NoneWord)) /\ iterator' = NoListIterator /\ iterator.list \in Lists
  BY DEF DropIterator
<1>2. IteratorOK'
  BY <1>1 DEF IteratorOK
<1>3. ListInv' /\ PythonList!Same(Returned(NoneWord))
  BY <1>1, <1>2, ReplyKeeps, ReplyMaps
<1>. QED BY <1>1, <1>3, Replies DEF PythonList!Drop, PythonList!NoIterator, NoListIterator

\* The reply is taken.
LEMMA TakeStep ==
  ASSUME ListInv, TakeReply
  PROVE  ListInv' /\ PythonList!Take
<1>1. Reply(Returned(NoneWord)) /\ Called(NoListCall) /\ UNCHANGED iterator
  BY DEF TakeReply, Called
<1>2. ListInv' /\ PythonList!Same(Returned(NoneWord))
  BY <1>1, RepliedStep
<1>. QED BY <1>1, <1>2, Replies DEF PythonList!Take

\* Every step keeps the invariant and is a step of Python's lists or excepted.
LEMMA ListNextOK ==
  ASSUME ListInv, ListNext
  PROVE  ListInv' /\ PythonStep
<1>1. ASSUME NEW l \in Lists, NEW e \in Elements, UNCHANGED iterator,
             \/ Called(<<"append", l, e>>) /\ NativeAppend(l, e)
             \/ Called(<<"remove", l, e>>) /\ NativeRemove(l, e)
             \/ Called(<<"count", l, e>>) /\ NativeCount(l, e)
      PROVE  ListInv' /\ PythonStep
  BY <1>1, AppendStep, SearchStep, CallsAgree DEF PythonStep, PythonList!Next
<1>2. ASSUME NEW l \in Lists, UNCHANGED iterator,
             \/ Called(<<"clear", l>>) /\ NativeClear(l)
             \/ Called(<<"reverse", l>>) /\ NativeReverse(l)
      PROVE  ListInv' /\ PythonStep
  BY <1>2, ClearStep, ReverseStep, CallsAgree DEF PythonStep, PythonList!Next
<1>3. ASSUME NEW l \in Lists, NEW m \in Lists, UNCHANGED iterator,
             \/ Called(<<"extend", l, m>>) /\ ExtendFromList(l, m)
             \/ Called(<<"copy", l, m>>) /\ NativeCopy(l, m)
      PROVE  ListInv' /\ PythonStep
  BY <1>3, ExtendStep, CopyStep, CallsAgree DEF PythonStep, PythonList!Next
<1>4. ASSUME NEW l \in Lists, NEW m \in Lists, NEW d \in Lists,
             Called(<<"add", l, m, d>>), NativeAdd(l, m, d), UNCHANGED iterator
      PROVE  ListInv' /\ PythonStep
  BY <1>4, AddStep, CallsAgree DEF PythonStep, PythonList!Next
<1>5. ASSUME NEW l \in Lists, NEW t \in Tuples,
             Called(<<"extend_tuple", l, t>>), ExtendFromTuple(l, t), UNCHANGED iterator
      PROVE  ListInv' /\ PythonStep
  BY <1>5, ExtendTupleStep, CallsAgree DEF PythonStep, PythonList!Next
<1>6. ASSUME NEW l \in Lists, NEW i \in ListIndexes, NEW e \in Elements, UNCHANGED iterator,
             \/ Called(<<"insert", l, i, e>>) /\ NativeInsert(l, i, e)
             \/ Called(<<"setitem", l, i, e>>) /\ NativeSetitem(l, i, e)
      PROVE  ListInv' /\ PythonStep
  BY <1>6, InsertStep, SetitemStep, CallsAgree DEF PythonStep, PythonList!Next
<1>7. ASSUME NEW l \in Lists, NEW i \in ListIndexes, UNCHANGED iterator,
             \/ Called(<<"pop", l, i>>) /\ NativePop(l, i)
             \/ Called(<<"delitem", l, i>>) /\ NativeDelitem(l, i)
             \/ Called(<<"getitem", l, i>>) /\ GetItemOf(l, i)
      PROVE  ListInv' /\ PythonStep
  BY <1>7, PopStep, DelStep, GetItemStep, CallsAgree DEF PythonStep, PythonList!Next
<1>8. ASSUME NEW l \in Lists, NEW e \in Elements, NEW i \in ListIndexes, NEW j \in ListIndexes,
             Called(<<"index", l, e, i, j>>), NativeIndex(l, e, i, j), UNCHANGED iterator
      PROVE  ListInv' /\ PythonStep
  BY <1>8, SearchStep
<1>9. ASSUME \/ \E l \in Lists : Called(<<"iter", l>>) /\ NativeIter(l)
             \/ Called(<<"next">>) /\ ListIteratorNext
             \/ Called(<<"drop">>) /\ DropIterator
             \/ TakeReply
      PROVE  ListInv' /\ PythonStep
  <2>1. TakeReply => PythonList!Calls(PythonList!NoCall)
    BY CallsAgree DEF TakeReply, Called
  <2>2. CASE Called(<<"next">>) /\ ListIteratorNext
    <3>1. ListInv' /\ (PythonList!NextItem \/ PythonList!GoOnAfterEnd)
      BY <2>2, NextItemStep
    <3>. QED BY <2>2, <3>1, CallsAgree DEF PythonStep, PythonList!Next
  <2>. QED BY <1>9, <2>1, <2>2, IterStep, DropStep, TakeStep, CallsAgree DEF PythonStep, PythonList!Next
<1>. QED BY <1>1, <1>2, <1>3, <1>4, <1>5, <1>6, <1>7, <1>8, <1>9 DEF ListNext, ListOperation

\* The empty lists of the start.
LEMMA ListInitOK == ListInit => ListInv /\ PythonList!Init
<1>1. SUFFICES ASSUME ListInit PROVE ListInv /\ PythonList!Init
  OBVIOUS
<1>2. /\ arrays = [l \in Lists |-> [size |-> 0, cells |-> <<>>]] /\ refs = [e \in Elements |-> 0]
      /\ iterator = NoListIterator /\ called = NoListCall /\ replied = Returned(NoneWord)
  BY <1>1 DEF ListInit
<1>3. \A l \in Lists : arrays[l].size = 0 /\ arrays[l].cells = <<>> /\ ArrayOK(arrays[l])
  BY <1>2 DEF ArrayOK
<1>4. arrays \in [Lists -> [size : Nat, cells : Seq(Words)]]
  BY <1>2
<1>5. ASSUME NEW e \in Elements PROVE refs[e] = Cardinality(CellsIn(arrays, Lists, e))
  <2>1. ASSUME NEW l \in Lists PROVE PairsOf(l, Holding(arrays[l].cells, e)) = {}
    BY <1>3 DEF PairsOf, Holding
  <2>2. CellsIn(arrays, Lists, e) = {}
    BY <2>1 DEF CellsIn
  <2>. QED BY <1>2, <2>2, FS_EmptySet
<1>6. refs \in [Elements -> Int]
  BY <1>2
<1>7. ListInv
  BY <1>2, <1>3, <1>4, <1>5, <1>6 DEF ListInv, ListsOK, RefsOK, CountsOK, IteratorOK
<1>8. [l \in Lists |-> SubSeq(arrays[l].cells, 1, arrays[l].size)] = [l \in Lists |-> <<>>]
  <2>1. ASSUME NEW l \in Lists PROVE SubSeq(arrays[l].cells, 1, arrays[l].size) = <<>>
    BY <1>3, SubSeqEmpty
  <2>. QED BY <2>1
<1>9. PythonList!Init
  BY <1>2, <1>8, Replies, CallsAgree DEF PythonList!Init, PythonList!NoIterator, NoListIterator
<1>. QED BY <1>7, <1>9

\* Steps of the other components.
LEMMA ListStays ==
  ASSUME ListInv, UNCHANGED listVars
  PROVE  ListInv' /\ UNCHANGED PythonList!vars
<1>1. arrays' = arrays /\ refs' = refs /\ iterator' = iterator /\ called' = called /\ replied' = replied
  BY DEF listVars
<1>2. ListInv'
  BY <1>1 DEF ListInv, ListsOK, RefsOK, CountsOK, CellsIn, ArrayOK, PairsOf, Holding, IteratorOK
<1>3. UNCHANGED PythonList!vars
  BY <1>1 DEF PythonList!vars
<1>. QED BY <1>2, <1>3

(* The invariant of the lists is inductive.                                *)
THEOREM ListInvariant == ListSpec => []ListInv
<1>1. ListInit => ListInv
  BY ListInitOK
<1>2. ListInv /\ [ListNext]_listVars => ListInv'
  BY ListNextOK, ListStays
<1>. QED BY <1>1, <1>2, PTL DEF ListSpec

(* Every element is counted once for every cell that holds it, and no cell *)
(* past a list's size holds one: no operation of builtin_types/list.cpp on *)
(* the ValueArray (object_model/vm_array.h) loses or repeats a count.      *)
THEOREM ElementsAlwaysCounted == ListSpec => []ElementsCounted
<1>1. ListInv => ElementsCounted
  BY InvCounts
<1>. QED BY <1>1, ListInvariant, PTL

(* Lists of every length, with any number of elements, any equality of     *)
(* elements, tuples and indexes, do in every step what Python's do, but for *)
(* the two excepted steps: a search for an element in a list that holds    *)
(* another one equal to it, and an iterator that goes on after its end     *)
(* (builtin_types/list.cpp and list_iterator.cpp).                         *)
THEOREM ListsAlwaysImplementPython == ListSpec => ListsImplementPython
<1>1. ListInit => PythonList!Init
  BY ListInitOK
<1>2. ListInv /\ [ListNext]_listVars => [PythonStep]_PythonList!vars
  BY ListNextOK, ListStays
<1>. QED BY <1>1, <1>2, ListInvariant, PTL DEF ListSpec, ListsImplementPython, PythonStep

=============================================================================
