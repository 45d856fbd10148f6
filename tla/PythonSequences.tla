--------------------------- MODULE PythonSequences ---------------------------
(***************************************************************************)
(* What Python says the sequence operations return, in terms of sets of    *)
(* positions and of how texts are put together, without the loops and the  *)
(* clipping of the implementation.  Positions count from 0; NoBound is an  *)
(* argument left out.                                                      *)
(***************************************************************************)
EXTENDS Integers, Sequences, FiniteSets, SequencesExt

CONSTANT NoBound

Resolved(i, length) == IF i < 0 THEN i + length ELSE i

\* The positions a slice selects, in order
Selected(length, start, stop, step) ==
  LET first == IF step > 0
               THEN IF start = NoBound THEN 0
                    ELSE IF Resolved(start, length) < 0 THEN 0 ELSE Resolved(start, length)
               ELSE IF start = NoBound \/ Resolved(start, length) >= length THEN length - 1
                    ELSE Resolved(start, length)
      inside(p) == stop = NoBound \/ IF step > 0 THEN p < Resolved(stop, length) ELSE p > Resolved(stop, length)
      chosen == {p \in 0 .. length - 1 :
                   IF step > 0 THEN p >= first /\ (p - first) % step = 0 /\ inside(p)
                   ELSE p <= first /\ (first - p) % (-step) = 0 /\ inside(p)}
  IN  SetToSortSeq(chosen, LAMBDA p, q : IF step > 0 THEN p < q ELSE p > q)

\* Where t lies in s between the bounds; one that is too low counts as 0, and an
\* end that is too high as the length
AtLeast0(i) == IF i < 0 THEN 0 ELSE i
From(s, start) == IF start = NoBound THEN 0 ELSE AtLeast0(Resolved(start, Len(s)))
To(s, stop) ==
  IF stop = NoBound \/ Resolved(stop, Len(s)) > Len(s) THEN Len(s) ELSE AtLeast0(Resolved(stop, Len(s)))
Occurrences(s, t, start, stop) ==
  {p \in 0 .. Len(s) : /\ p >= From(s, start) /\ p + Len(t) <= To(s, stop)
                       /\ SubSeq(s, p + 1, p + Len(t)) = t}
First(P) == IF P = {} THEN -1 ELSE CHOOSE p \in P : \A q \in P : p <= q
Final(P) == IF P = {} THEN -1 ELSE CHOOSE p \in P : \A q \in P : p >= q

\* The most occurrences that do not overlap
Packed(P, n) ==
  LET apart == {Q \in SUBSET P : \A p, q \in Q : p < q => p + n <= q}
  IN  CHOOSE k \in {Cardinality(Q) : Q \in apart} : \A Q \in apart : Cardinality(Q) <= k

Joined(sep, pieces) ==
  LET join[i \in 0 .. Len(pieces)] ==
        IF i = 0 THEN <<>> ELSE IF i = 1 THEN pieces[1] ELSE join[i - 1] \o sep \o pieces[i]
  IN  join[Len(pieces)]

\* pieces is s cut at sep from the left, at most max times if max >= 0
CutAt(pieces, s, sep, max) ==
  /\ Joined(sep, pieces) = s
  /\ max >= 0 => Len(pieces) - 1 <= max
  /\ \A i \in 1 .. Len(pieces) - 1 :
       First(Occurrences(pieces[i] \o sep, sep, NoBound, NoBound)) = Len(pieces[i])
  /\ (max < 0 \/ Len(pieces) - 1 < max) => Occurrences(Last(pieces), sep, NoBound, NoBound) = {}
Mirrored(pieces) == [i \in DOMAIN pieces |-> Reverse(pieces[Len(pieces) + 1 - i])]

\* What lies between the occurrences of sep at Q
Between(s, sep, Q) ==
  LET order == SetToSortSeq(Q, LAMBDA p, q : p < q)
      n == Len(order)
  IN  [k \in 1 .. n + 1 |-> SubSeq(s, IF k = 1 THEN 1 ELSE order[k - 1] + Len(sep) + 1,
                                      IF k > n THEN Len(s) ELSE order[k])]

\* r is s with new for old, at most max times from the left if max >= 0; an empty
\* old lies before every character and at the end.
Replaced(r, s, old, new, max) ==
  IF old = <<>>
  THEN r = FlattenSeq([i \in 1 .. Len(s) + 1 |->
                         (IF max < 0 \/ i <= max THEN new ELSE <<>>) \o (IF i <= Len(s) THEN <<s[i]>> ELSE <<>>)])
  ELSE \E Q \in SUBSET Occurrences(s, old, NoBound, NoBound) :
         CutAt(Between(s, old, Q), s, old, max) /\ r = Joined(new, Between(s, old, Q))

\* Maximal runs without blanks
WordsOf(s, IsBlank(_)) ==
  LET starts == {i \in DOMAIN s : ~IsBlank(s[i]) /\ (i = 1 \/ IsBlank(s[i - 1]))}
      end(i) == CHOOSE j \in i .. Len(s) : /\ \A k \in i .. j : ~IsBlank(s[k])
                                           /\ j = Len(s) \/ IsBlank(s[j + 1])
      order == SetToSortSeq(starts, LAMBDA i, j : i < j)
  IN  [k \in DOMAIN order |-> [from |-> order[k], to |-> end(order[k])]]
WordsCut(s, max, IsBlank(_)) ==
  LET words == WordsOf(s, IsBlank)
      n == IF max < 0 \/ max > Len(words) THEN Len(words) ELSE max
  IN  [k \in 1 .. n |-> SubSeq(s, words[k].from, words[k].to)]
      \o (IF n < Len(words) THEN <<SubSeq(s, words[n + 1].from, Len(s))>> ELSE <<>>)

\* t is s without what Drops accepts at the ends
Stripped(t, s, left, right, Drops(_)) ==
  \E i \in 0 .. Len(s), j \in 0 .. Len(s) :
    /\ i <= j /\ t = SubSeq(s, i + 1, j)
    /\ \A k \in 1 .. i : left /\ Drops(s[k])
    /\ \A k \in j + 1 .. Len(s) : right /\ Drops(s[k])
    /\ t # <<>> => (left => ~Drops(Head(t))) /\ (right => ~Drops(Last(t)))

Before(a, b) ==
  \/ Len(a) < Len(b) /\ IsPrefix(a, b)
  \/ \E i \in DOMAIN a \cap DOMAIN b : SubSeq(a, 1, i - 1) = SubSeq(b, 1, i - 1) /\ a[i] < b[i]
Compares(op, a, b) ==
  CASE op = "eq" -> a = b [] op = "ne" -> a # b
    [] op = "lt" -> Before(a, b) [] op = "le" -> a = b \/ Before(a, b)
    [] op = "gt" -> Before(b, a) [] op = "ge" -> a = b \/ Before(b, a)
=============================================================================
