------------------------------ MODULE CallProofs ------------------------------
(***************************************************************************)
(* Calls bind their arguments as the language says, for any definitions,   *)
(* constructors and call sites, and any sequence of calls through a cache. *)
(* The argument goes by slots: OrderLayout says which parameter a slot     *)
(* belongs to, Describes what a function, or the thunk of a constructor,   *)
(* knows of the parameters of a definition, and the two halves that        *)
(* follow, what completing the window puts into each slot.                 *)
(***************************************************************************)
EXTENDS CallAdaptation, ArithmeticLemmas, FiniteSetTheorems, SequenceTheorems

-----------------------------------------------------------------------------
(* Which parameter a slot belongs to.                                      *)

ByPosition(d) == d.posonly \o d.poskw
Positional(d) == Len(d.posonly) + Len(d.poskw)
FirstKwonly(d) == Positional(d) + (IF d.varargs THEN 1 ELSE 0)
Parameters(d) == FirstKwonly(d) + Len(d.kwonly) + (IF d.kwargs THEN 1 ELSE 0)
NameAt(d, slot) == RuntimeOrder(d)[slot + 1]

LEMMA GroupsAreSequences ==
  ASSUME NEW d, WellFormed(d)
  PROVE  \E S : /\ "*" \notin S /\ "**" \notin S
                /\ d.posonly \in Seq(S) /\ d.poskw \in Seq(S) /\ d.kwonly \in Seq(S)
<1>. DEFINE S == (Names(d.posonly) \cup Names(d.poskw) \cup Names(d.kwonly)) \ {"*", "**"}
<1>1. d.posonly \in Seq(Names(d.posonly) \ {"*", "**"})
  BY DEF WellFormed
<1>2. d.poskw \in Seq(Names(d.poskw) \ {"*", "**"})
  BY DEF WellFormed
<1>3. d.kwonly \in Seq(Names(d.kwonly) \ {"*", "**"})
  BY DEF WellFormed
<1>4. /\ Names(d.posonly) \ {"*", "**"} \subseteq S
      /\ Names(d.poskw) \ {"*", "**"} \subseteq S
      /\ Names(d.kwonly) \ {"*", "**"} \subseteq S
  OBVIOUS
<1>5. "*" \notin S /\ "**" \notin S
  OBVIOUS
<1>. HIDE DEF S
<1>6. d.posonly \in Seq(S) /\ d.poskw \in Seq(S) /\ d.kwonly \in Seq(S)
  BY <1>1, <1>2, <1>3, <1>4, SeqMonotonic
<1>. QED BY <1>5, <1>6

LEMMA Joined ==
  ASSUME NEW S, NEW s \in Seq(S), NEW t \in Seq(S), NEW m, m = Len(s), NEW n, n = Len(t),
         NEW u, u = s \o t
  PROVE  /\ m \in Nat /\ n \in Nat /\ u \in Seq(S) /\ Len(u) = m + n /\ DOMAIN u = 1 .. m + n
         /\ DOMAIN s = 1 .. m /\ DOMAIN t = 1 .. n
         /\ \A i \in 1 .. m : u[i] = s[i]
         /\ \A i \in 1 .. n : u[m + i] = t[i]
<1>1. m \in Nat /\ n \in Nat /\ DOMAIN s = 1 .. m /\ DOMAIN t = 1 .. n
  BY LenProperties
<1>2. /\ u \in Seq(S) /\ Len(u) = m + n
      /\ \A i \in 1 .. m + n : u[i] = IF i <= m THEN s[i] ELSE t[i - m]
  BY ConcatProperties
<1>3. DOMAIN u = 1 .. m + n
  BY <1>2, LenProperties
<1>4. ASSUME NEW i \in 1 .. m PROVE u[i] = s[i]
  BY <1>1, <1>2, <1>4
<1>5. ASSUME NEW i \in 1 .. n PROVE u[m + i] = t[i]
  <2>1. m + i \in 1 .. m + n /\ ~(m + i <= m) /\ (m + i) - m = i
    BY <1>1, <1>5
  <2>. QED BY <1>2, <2>1
<1>. QED BY <1>1, <1>2, <1>3, <1>4, <1>5

LEMMA OrderLayout ==
  ASSUME NEW d, WellFormed(d)
  PROVE  /\ Positional(d) \in Nat /\ FirstKwonly(d) \in Nat /\ Len(d.kwonly) \in Nat
         /\ Len(d.posonly) \in Nat /\ Len(d.poskw) \in Nat
         /\ Len(RuntimeOrder(d)) = Parameters(d) /\ Parameters(d) \in Nat
         /\ DOMAIN RuntimeOrder(d) = 1 .. Parameters(d)
         /\ DOMAIN d.kwonly = 1 .. Len(d.kwonly) /\ DOMAIN d.posonly = 1 .. Len(d.posonly)
         /\ DOMAIN d.poskw = 1 .. Len(d.poskw) /\ DOMAIN ByPosition(d) = 1 .. Positional(d)
         /\ \A i \in 1 .. Len(d.posonly) : NameAt(d, i - 1) = d.posonly[i]
         /\ \A i \in 1 .. Len(d.poskw) : NameAt(d, Len(d.posonly) + i - 1) = d.poskw[i]
         /\ \A i \in 1 .. Positional(d) : NameAt(d, i - 1) = ByPosition(d)[i]
         /\ d.varargs => NameAt(d, Positional(d)) = "*"
         /\ \A k \in 1 .. Len(d.kwonly) : NameAt(d, FirstKwonly(d) + k - 1) = d.kwonly[k]
         /\ d.kwargs => NameAt(d, Parameters(d) - 1) = "**"
         /\ \A i \in 1 .. Len(d.posonly) : d.posonly[i] \notin {"*", "**"}
         /\ \A i \in 1 .. Len(d.poskw) : d.poskw[i] \notin {"*", "**"}
         /\ \A k \in 1 .. Len(d.kwonly) : d.kwonly[k] \notin {"*", "**"}
         /\ d.varargs \in BOOLEAN /\ d.kwargs \in BOOLEAN
<1>1. PICK S : /\ "*" \notin S /\ "**" \notin S
               /\ d.posonly \in Seq(S) /\ d.poskw \in Seq(S) /\ d.kwonly \in Seq(S)
  BY GroupsAreSequences
<1>2. PICK T : T = S \cup {"*", "**"}
  OBVIOUS
<1>3. PICK a, b, k : a = d.posonly /\ b = d.poskw /\ k = d.kwonly
  OBVIOUS
<1>4. PICK v, w : /\ v = (IF d.varargs THEN <<"*">> ELSE <<>>)
                  /\ w = (IF d.kwargs THEN <<"**">> ELSE <<>>)
  OBVIOUS
<1>5. PICK ab, abv, abvk, all :
        ab = a \o b /\ abv = ab \o v /\ abvk = abv \o k /\ all = abvk \o w
  OBVIOUS
<1>6. RuntimeOrder(d) = all /\ ByPosition(d) = ab
  BY <1>3, <1>4, <1>5 DEF RuntimeOrder, ByPosition
<1>7. d.varargs \in BOOLEAN /\ d.kwargs \in BOOLEAN
  BY DEF WellFormed
<1>8. a \in Seq(T) /\ b \in Seq(T) /\ k \in Seq(T)
  BY <1>1, <1>2, <1>3, SeqMonotonic
<1>9. PICK na, nb, nk, nv, nw :
        na = Len(a) /\ nb = Len(b) /\ nk = Len(k) /\ nv = Len(v) /\ nw = Len(w)
  OBVIOUS
<1>10. /\ v \in Seq(T) /\ nv = (IF d.varargs THEN 1 ELSE 0) /\ (d.varargs => v[1] = "*")
       /\ w \in Seq(T) /\ nw = (IF d.kwargs THEN 1 ELSE 0) /\ (d.kwargs => w[1] = "**")
  <2>1. "*" \in T /\ "**" \in T
    BY <1>2
  <2>2. <<"*">> \in Seq(T) /\ <<"**">> \in Seq(T) /\ <<>> \in Seq(T)
    BY <2>1
  <2>. QED BY <2>2, <1>4, <1>9
<1>11. /\ na \in Nat /\ nb \in Nat /\ ab \in Seq(T) /\ Len(ab) = na + nb
       /\ DOMAIN ab = 1 .. na + nb /\ DOMAIN a = 1 .. na /\ DOMAIN b = 1 .. nb
       /\ \A i \in 1 .. na : ab[i] = a[i]
       /\ \A i \in 1 .. nb : ab[na + i] = b[i]
  BY <1>5, <1>8, <1>9, Joined
<1>12. PICK np : np = na + nb
  OBVIOUS
<1>13. /\ nv \in Nat /\ abv \in Seq(T) /\ Len(abv) = np + nv
       /\ \A i \in 1 .. np : abv[i] = ab[i]
       /\ \A i \in 1 .. nv : abv[np + i] = v[i]
  <2>1. ab \in Seq(T) /\ np = Len(ab)
    BY <1>11, <1>12
  <2>2. v \in Seq(T) /\ nv = Len(v) /\ abv = ab \o v
    BY <1>5, <1>9, <1>10
  <2>. QED BY <2>1, <2>2, Joined
<1>14. PICK nf : nf = np + nv
  OBVIOUS
<1>15. /\ nk \in Nat /\ abvk \in Seq(T) /\ Len(abvk) = nf + nk /\ DOMAIN k = 1 .. nk
       /\ \A i \in 1 .. nf : abvk[i] = abv[i]
       /\ \A i \in 1 .. nk : abvk[nf + i] = k[i]
  <2>1. abv \in Seq(T) /\ nf = Len(abv)
    BY <1>13, <1>14
  <2>. QED BY <2>1, <1>5, <1>8, <1>9, Joined
<1>16. PICK ne : ne = nf + nk
  OBVIOUS
<1>17. /\ nw \in Nat /\ Len(all) = ne + nw /\ DOMAIN all = 1 .. ne + nw
       /\ \A i \in 1 .. ne : all[i] = abvk[i]
       /\ \A i \in 1 .. nw : all[ne + i] = w[i]
  <2>1. abvk \in Seq(T) /\ ne = Len(abvk)
    BY <1>15, <1>16
  <2>2. w \in Seq(T) /\ nw = Len(w) /\ all = abvk \o w
    BY <1>5, <1>9, <1>10
  <2>. QED BY <2>1, <2>2, Joined
<1>18. Positional(d) = np /\ FirstKwonly(d) = nf /\ Parameters(d) = ne + nw
  <2>1. Positional(d) = np
    BY <1>3, <1>9, <1>12 DEF Positional
  <2>2. FirstKwonly(d) = nf
    BY <2>1, <1>10, <1>14 DEF FirstKwonly
  <2>3. Parameters(d) = nf + nk + nw
    BY <2>2, <1>3, <1>9, <1>10 DEF Parameters
  <2>. QED BY <2>1, <2>2, <2>3, <1>16
<1>19. np \in Nat /\ nf \in Nat /\ ne \in Nat
  BY <1>11, <1>12, <1>13, <1>14, <1>15, <1>16
<1>20. ASSUME NEW i \in 1 .. np PROVE all[i] = ab[i] /\ NameAt(d, i - 1) = ab[i]
  <2>1. i \in 1 .. nf /\ i \in 1 .. ne /\ (i - 1) + 1 = i
    BY <1>13, <1>14, <1>15, <1>16, <1>19
  <2>. QED BY <2>1, <1>6, <1>13, <1>15, <1>17 DEF NameAt
<1>21. ASSUME NEW i \in 1 .. na PROVE NameAt(d, i - 1) = a[i] /\ a[i] \notin {"*", "**"}
  <2>1. i \in 1 .. np
    BY <1>11, <1>12
  <2>2. a[i] \in S
    BY <1>1, <1>3, <1>9, ElementOfSeq
  <2>. QED BY <2>1, <2>2, <1>1, <1>11, <1>20
<1>22. ASSUME NEW i \in 1 .. nb PROVE NameAt(d, na + i - 1) = b[i] /\ b[i] \notin {"*", "**"}
  <2>1. na + i \in 1 .. np
    BY <1>11, <1>12
  <2>2. b[i] \in S
    BY <1>1, <1>3, <1>9, ElementOfSeq
  <2>. QED BY <2>1, <2>2, <1>1, <1>11, <1>20
<1>23. ASSUME d.varargs PROVE NameAt(d, np) = "*"
  <2>1. nv = 1 /\ v[1] = "*" /\ 1 \in 1 .. nv
    BY <1>10, <1>23
  <2>2. np + 1 \in 1 .. nf /\ np + 1 \in 1 .. ne
    BY <2>1, <1>14, <1>15, <1>16, <1>19
  <2>. QED BY <2>1, <2>2, <1>6, <1>13, <1>15, <1>17 DEF NameAt
<1>24. ASSUME NEW j \in 1 .. nk
       PROVE  NameAt(d, nf + j - 1) = k[j] /\ k[j] \notin {"*", "**"}
  <2>1. nf + j \in 1 .. ne /\ (nf + j - 1) + 1 = nf + j
    BY <1>15, <1>16, <1>19
  <2>2. k[j] \in S
    BY <1>1, <1>3, <1>9, ElementOfSeq
  <2>. QED BY <2>1, <2>2, <1>1, <1>6, <1>15, <1>17 DEF NameAt
<1>25. ASSUME d.kwargs PROVE NameAt(d, (ne + nw) - 1) = "**"
  <2>1. nw = 1 /\ w[1] = "**" /\ 1 \in 1 .. nw /\ ((ne + nw) - 1) + 1 = ne + 1
    BY <1>10, <1>25, <1>19
  <2>. QED BY <2>1, <1>6, <1>17 DEF NameAt
<1>26. ne + nw \in Nat
  BY <1>17, <1>19
<1>. HIDE DEF Positional, FirstKwonly, Parameters, NameAt
<1>. QED
  BY <1>3, <1>6, <1>7, <1>9, <1>11, <1>12, <1>15, <1>17, <1>18, <1>19, <1>20, <1>21, <1>22, <1>23, <1>24, <1>25, <1>26

-----------------------------------------------------------------------------
(* The table of a definition's parameters, by slot; and what is left of it *)
(* when the first parameter goes to the instance that is constructed.      *)

Table(d) ==
  [name |-> [slot \in 0 .. Parameters(d) - 1 |-> NameAt(d, slot)],
   nPosonly |-> Len(d.posonly), nPositional |-> Positional(d),
   firstKwonly |-> FirstKwonly(d), nParameters |-> Parameters(d),
   varargs |-> d.varargs, kwargs |-> d.kwargs, defaults |-> d.defaults]

DropFirst(t) ==
  [name |-> [slot \in 0 .. t.nParameters - 2 |-> t.name[slot + 1]],
   nPosonly |-> IF t.nPosonly > 0 THEN t.nPosonly - 1 ELSE 0,
   nPositional |-> t.nPositional - 1,
   firstKwonly |-> t.firstKwonly - 1, nParameters |-> t.nParameters - 1,
   varargs |-> t.varargs, kwargs |-> t.kwargs, defaults |-> t.defaults]

Slots(t) == 0 .. t.nParameters - 1
IsVarargs(t, slot) == t.varargs /\ slot = t.nPositional
IsKwargs(t, slot) == t.kwargs /\ slot = t.nParameters - 1
Ordinary(t, slot) == ~IsVarargs(t, slot) /\ ~IsKwargs(t, slot)
Addressable(t, slot) == Ordinary(t, slot) /\ slot >= t.nPosonly
DefaultSlots(t) == {slot \in Slots(t) : t.name[slot] \in t.defaults}

IsTable(t) ==
  /\ t.nPosonly \in Nat /\ t.nPositional \in Nat /\ t.nPosonly <= t.nPositional
  /\ t.firstKwonly \in Nat /\ t.nParameters \in Nat
  /\ t.varargs \in BOOLEAN /\ t.kwargs \in BOOLEAN
  /\ (t.varargs => t.firstKwonly = t.nPositional + 1)
  /\ (~t.varargs => t.firstKwonly = t.nPositional)
  /\ (t.kwargs => t.nParameters >= t.firstKwonly + 1)
  /\ t.nParameters >= t.firstKwonly
  /\ \A s, u \in Slots(t) : t.name[s] = t.name[u] => s = u
  /\ \A s \in DefaultSlots(t) : Ordinary(t, s)

LEMMA OrdinarySlot ==
  ASSUME NEW d, WellFormed(d), NEW s \in 0 .. Parameters(d) - 1
  PROVE  \/ /\ s < Len(d.posonly) /\ s + 1 \in 1 .. Len(d.posonly)
            /\ NameAt(d, s) = d.posonly[s + 1]
         \/ /\ s >= Len(d.posonly) /\ s < Positional(d)
            /\ s - Len(d.posonly) + 1 \in 1 .. Len(d.poskw)
            /\ NameAt(d, s) = d.poskw[s - Len(d.posonly) + 1]
         \/ /\ s >= FirstKwonly(d) /\ s - FirstKwonly(d) + 1 \in 1 .. Len(d.kwonly)
            /\ NameAt(d, s) = d.kwonly[s - FirstKwonly(d) + 1]
         \/ d.varargs /\ s = Positional(d) /\ NameAt(d, s) = "*"
         \/ d.kwargs /\ s = Parameters(d) - 1 /\ NameAt(d, s) = "**"
<1>1. PICK a, b, k, np, nf, n : /\ a = Len(d.posonly) /\ b = Len(d.poskw) /\ k = Len(d.kwonly)
                                /\ np = Positional(d) /\ nf = FirstKwonly(d) /\ n = Parameters(d)
  OBVIOUS
<1>2. /\ a \in Nat /\ b \in Nat /\ k \in Nat /\ np = a + b
      /\ d.varargs \in BOOLEAN /\ d.kwargs \in BOOLEAN
      /\ (d.varargs => nf = np + 1) /\ (~d.varargs => nf = np)
      /\ (d.kwargs => n = nf + k + 1) /\ (~d.kwargs => n = nf + k)
  <2>1. a \in Nat /\ b \in Nat /\ k \in Nat /\ d.varargs \in BOOLEAN /\ d.kwargs \in BOOLEAN
    BY <1>1, OrderLayout
  <2>2. np = a + b
    BY <1>1 DEF Positional
  <2>3. (d.varargs => nf = np + 1) /\ (~d.varargs => nf = np + 0)
    BY <1>1 DEF FirstKwonly
  <2>4. (d.kwargs => n = nf + k + 1) /\ (~d.kwargs => n = nf + k + 0)
    BY <1>1 DEF Parameters
  <2>. QED BY <2>1, <2>2, <2>3, <2>4
<1>3. s \in Nat /\ s < n
  <2>1. s \in 0 .. n - 1
    BY <1>1
  <2>2. n \in Nat
    BY <1>1, OrderLayout
  <2>. QED BY <2>1, <2>2
<1>4. CASE s < a
  <2>1. s + 1 \in 1 .. a /\ (s + 1) - 1 = s
    BY <1>2, <1>3, <1>4
  <2>2. NameAt(d, (s + 1) - 1) = d.posonly[s + 1]
    BY <1>1, <2>1, OrderLayout
  <2>. QED BY <1>1, <1>4, <2>1, <2>2
<1>5. CASE s >= a /\ s < np
  <2>1. s - a + 1 \in 1 .. b /\ a + (s - a + 1) - 1 = s
    BY <1>2, <1>3, <1>5
  <2>2. NameAt(d, a + (s - a + 1) - 1) = d.poskw[s - a + 1]
    BY <1>1, <2>1, OrderLayout
  <2>. QED BY <1>1, <1>5, <2>1, <2>2
<1>6. CASE s >= nf /\ s < nf + k
  <2>1. s - nf + 1 \in 1 .. k /\ nf + (s - nf + 1) - 1 = s
    BY <1>2, <1>3, <1>6
  <2>2. NameAt(d, nf + (s - nf + 1) - 1) = d.kwonly[s - nf + 1]
    BY <1>1, <2>1, OrderLayout
  <2>. QED BY <1>1, <1>6, <2>1, <2>2
<1>7. CASE d.varargs /\ s = np
  BY <1>1, <1>7, OrderLayout
<1>8. CASE d.kwargs /\ s = n - 1
  BY <1>1, <1>8, OrderLayout
<1>9. s < a \/ (s >= a /\ s < np) \/ (s >= nf /\ s < nf + k) \/ (d.varargs /\ s = np) \/ (d.kwargs /\ s = n - 1)
  BY <1>2, <1>3
<1>. QED BY <1>4, <1>5, <1>6, <1>7, <1>8, <1>9

(* Different slots belong to different parameters.                         *)
LEMMA TableOf ==
  ASSUME NEW d, WellFormed(d)
  PROVE  IsTable(Table(d))
<1>1. PICK t : t = Table(d)
  OBVIOUS
<1>2. PICK a, b, k, np, nf, n : /\ a = Len(d.posonly) /\ b = Len(d.poskw) /\ k = Len(d.kwonly)
                                /\ np = Positional(d) /\ nf = FirstKwonly(d) /\ n = Parameters(d)
  OBVIOUS
<1>3. /\ t.name = [slot \in 0 .. n - 1 |-> NameAt(d, slot)]
      /\ t.nPosonly = a /\ t.nPositional = np /\ t.firstKwonly = nf /\ t.nParameters = n
      /\ t.varargs = d.varargs /\ t.kwargs = d.kwargs /\ t.defaults = d.defaults
  BY <1>1, <1>2 DEF Table
<1>4. /\ a \in Nat /\ b \in Nat /\ k \in Nat /\ n \in Nat /\ np = a + b
      /\ d.varargs \in BOOLEAN /\ d.kwargs \in BOOLEAN
      /\ (d.varargs => nf = np + 1) /\ (~d.varargs => nf = np + 0)
      /\ (d.kwargs => n = nf + k + 1) /\ (~d.kwargs => n = nf + k + 0)
  <2>1. a \in Nat /\ b \in Nat /\ k \in Nat /\ n \in Nat /\ d.varargs \in BOOLEAN /\ d.kwargs \in BOOLEAN
    BY <1>2, OrderLayout
  <2>2. np = a + b
    BY <1>2 DEF Positional
  <2>3. (d.varargs => nf = np + 1) /\ (~d.varargs => nf = np + 0)
    BY <1>2 DEF FirstKwonly
  <2>4. (d.kwargs => n = nf + k + 1) /\ (~d.kwargs => n = nf + k + 0)
    BY <1>2 DEF Parameters
  <2>. QED BY <2>1, <2>2, <2>3, <2>4
<1>5. Slots(t) = 0 .. n - 1 /\ \A s \in 0 .. n - 1 : t.name[s] = NameAt(d, s)
  BY <1>3 DEF Slots
<1>6. ASSUME NEW s \in Slots(t), NEW u \in Slots(t), t.name[s] = t.name[u]
      PROVE  s = u
  <2>1. s \in 0 .. n - 1 /\ u \in 0 .. n - 1 /\ s + 1 \in 1 .. n /\ u + 1 \in 1 .. n
    BY <1>4, <1>5
  <2>2. DOMAIN RuntimeOrder(d) = 1 .. n
    BY <1>2, OrderLayout
  <2>3. RuntimeOrder(d)[s + 1] = RuntimeOrder(d)[u + 1]
    BY <1>5, <1>6, <2>1 DEF NameAt
  <2>4. s + 1 = u + 1
    BY <2>1, <2>2, <2>3, Zenon DEF WellFormed
  <2>. QED BY <2>1, <2>4
<1>7. ASSUME NEW s \in Slots(t), t.name[s] \in t.defaults
      PROVE  Ordinary(t, s)
  <2>1. s \in 0 .. n - 1 /\ t.name[s] = NameAt(d, s)
    BY <1>5
  <2>2. d.defaults \subseteq Names(d.posonly \o d.poskw \o d.kwonly)
    BY DEF WellFormed
  <2>3. PICK S : /\ "*" \notin S /\ "**" \notin S
                 /\ d.posonly \in Seq(S) /\ d.poskw \in Seq(S) /\ d.kwonly \in Seq(S)
    BY GroupsAreSequences
  <2>4. PICK u : u = d.posonly \o d.poskw \o d.kwonly
    OBVIOUS
  <2>5. u \in Seq(S)
    BY <2>3, <2>4
  <2>6. Names(u) \subseteq S
    BY <2>5, LenProperties, ElementOfSeq DEF Names
  <2>7. NameAt(d, s) \in S
    BY <1>3, <1>7, <2>1, <2>2, <2>4, <2>6
  <2>8. NameAt(d, s) # "*" /\ NameAt(d, s) # "**"
    BY <2>3, <2>7
  <2>9. ~(d.varargs /\ s = np) /\ ~(d.kwargs /\ s = n - 1)
    BY <1>2, <2>8, OrderLayout
  <2>. QED BY <1>3, <2>9 DEF Ordinary, IsVarargs, IsKwargs
<1>8. /\ t.nPosonly \in Nat /\ t.nPositional \in Nat /\ t.nPosonly <= t.nPositional
      /\ t.firstKwonly \in Nat /\ t.nParameters \in Nat
      /\ t.varargs \in BOOLEAN /\ t.kwargs \in BOOLEAN
      /\ (t.varargs => t.firstKwonly = t.nPositional + 1)
      /\ (~t.varargs => t.firstKwonly = t.nPositional)
      /\ (t.kwargs => t.nParameters >= t.firstKwonly + 1)
      /\ t.nParameters >= t.firstKwonly
  BY <1>3, <1>4
<1>9. \A s \in DefaultSlots(t) : Ordinary(t, s)
  BY <1>7 DEF DefaultSlots
<1>. QED BY <1>1, <1>6, <1>8, <1>9 DEF IsTable

LEMMA TableWithoutFirst ==
  ASSUME NEW t, IsTable(t), t.nPositional > 0
  PROVE  /\ IsTable(DropFirst(t))
         /\ \A s \in Slots(DropFirst(t)) :
              /\ s + 1 \in Slots(t) /\ DropFirst(t).name[s] = t.name[s + 1]
              /\ Ordinary(DropFirst(t), s) <=> Ordinary(t, s + 1)
              /\ Addressable(DropFirst(t), s) <=> Addressable(t, s + 1)
              /\ s \in DefaultSlots(DropFirst(t)) <=> s + 1 \in DefaultSlots(t)
         /\ Slots(t) = {0} \cup {s + 1 : s \in Slots(DropFirst(t))}
         /\ 0 \in Slots(t) /\ Ordinary(t, 0)
<1>1. PICK u : u = DropFirst(t)
  OBVIOUS
<1>2. PICK q, np, nf, n : q = t.nPosonly /\ np = t.nPositional /\ nf = t.firstKwonly /\ n = t.nParameters
  OBVIOUS
<1>3. /\ u.name = [slot \in 0 .. n - 2 |-> t.name[slot + 1]]
      /\ u.nPosonly = (IF q > 0 THEN q - 1 ELSE 0)
      /\ u.nPositional = np - 1 /\ u.firstKwonly = nf - 1 /\ u.nParameters = n - 1
      /\ u.varargs = t.varargs /\ u.kwargs = t.kwargs /\ u.defaults = t.defaults
  BY <1>1, <1>2 DEF DropFirst
<1>4. /\ q \in Nat /\ np \in Nat /\ q <= np /\ nf \in Nat /\ n \in Nat /\ np > 0
      /\ t.varargs \in BOOLEAN /\ t.kwargs \in BOOLEAN
      /\ (t.varargs => nf = np + 1) /\ (~t.varargs => nf = np)
      /\ (t.kwargs => n >= nf + 1) /\ n >= nf
  BY <1>2 DEF IsTable
<1>5. Slots(t) = 0 .. n - 1 /\ Slots(u) = 0 .. n - 2
  <2>1. (n - 1) - 1 = n - 2
    BY <1>4
  <2>. QED BY <1>2, <1>3, <2>1 DEF Slots
<1>6. ASSUME NEW s \in Slots(u)
      PROVE  /\ s + 1 \in Slots(t) /\ s \in Nat /\ u.name[s] = t.name[s + 1]
             /\ Ordinary(u, s) <=> Ordinary(t, s + 1)
             /\ Addressable(u, s) <=> Addressable(t, s + 1)
             /\ s \in DefaultSlots(u) <=> s + 1 \in DefaultSlots(t)
  <2>1. s \in 0 .. n - 2 /\ s + 1 \in 0 .. n - 1 /\ s \in Nat
    BY <1>4, <1>5
  <2>2. u.name[s] = t.name[s + 1]
    BY <1>3, <2>1
  <2>3. Ordinary(u, s) <=> Ordinary(t, s + 1)
    <3>1. (s = np - 1 <=> s + 1 = np) /\ (s = (n - 1) - 1 <=> s + 1 = n - 1)
      BY <1>4, <2>1
    <3>. QED BY <1>2, <1>3, <3>1 DEF Ordinary, IsVarargs, IsKwargs
  <2>4. s >= u.nPosonly <=> s + 1 >= t.nPosonly
    BY <1>2, <1>3, <1>4, <2>1
  <2>5. s \in DefaultSlots(u) <=> s + 1 \in DefaultSlots(t)
    BY <1>3, <1>5, <2>1, <2>2 DEF DefaultSlots
  <2>. QED BY <1>5, <2>1, <2>2, <2>3, <2>4, <2>5 DEF Addressable
<1>7. ASSUME NEW s \in Slots(u), NEW r \in Slots(u), u.name[s] = u.name[r]
      PROVE  s = r
  <2>1. s + 1 = r + 1 /\ s \in Nat /\ r \in Nat
    BY <1>6, <1>7 DEF IsTable
  <2>. QED BY <2>1
<1>8. \A s \in DefaultSlots(u) : Ordinary(u, s)
  <2>. SUFFICES ASSUME NEW s \in DefaultSlots(u) PROVE Ordinary(u, s)
    OBVIOUS
  <2>1. s \in Slots(u)
    BY DEF DefaultSlots
  <2>. QED BY <2>1, <1>6 DEF IsTable
<1>9. IsTable(u)
  <2>1. /\ u.nPosonly \in Nat /\ u.nPositional \in Nat /\ u.nPosonly <= u.nPositional
        /\ u.firstKwonly \in Nat /\ u.nParameters \in Nat
        /\ u.varargs \in BOOLEAN /\ u.kwargs \in BOOLEAN
        /\ (u.varargs => u.firstKwonly = u.nPositional + 1)
        /\ (~u.varargs => u.firstKwonly = u.nPositional)
        /\ (u.kwargs => u.nParameters >= u.firstKwonly + 1)
        /\ u.nParameters >= u.firstKwonly
    BY <1>3, <1>4
  <2>. QED BY <2>1, <1>7, <1>8 DEF IsTable
<1>10. Slots(t) = {0} \cup {s + 1 : s \in Slots(u)}
  <2>1. ASSUME NEW s \in 0 .. n - 1 PROVE s = 0 \/ (s - 1 \in 0 .. n - 2 /\ s = (s - 1) + 1)
    BY <1>4
  <2>2. 0 \in 0 .. n - 1 /\ \A s \in 0 .. n - 2 : s + 1 \in 0 .. n - 1
    BY <1>4
  <2>. QED BY <1>5, <2>1, <2>2
<1>11. 0 \in Slots(t) /\ Ordinary(t, 0)
  <2>1. 0 # np /\ (t.kwargs => 0 # n - 1) /\ 0 \in 0 .. n - 1
    BY <1>4
  <2>. QED BY <1>2, <1>5, <2>1 DEF Ordinary, IsVarargs, IsKwargs
<1>. QED BY <1>1, <1>6, <1>9, <1>10, <1>11

-----------------------------------------------------------------------------
(* What a function knows of its parameters.                                *)

\* The defaults: a tuple for the slots from the first one that has a default.
KnowsDefaults(f, t) ==
  LET first == f.signature.firstDefault
  IN \E span \in Nat :
       /\ f.defaults = [i \in 1 .. span |-> f.defaults[i]]
       /\ span = 0 <=> DefaultSlots(t) = {}
       /\ \A slot \in DefaultSlots(t) :
            /\ slot - first < span
            /\ f.defaults[slot - first + 1] = <<"default", t.name[slot]>>

Signatures ==
  [nParameters : Nat, nPositional : Nat, nPosonly : Nat, requiredKeywordOnly : BOOLEAN,
   varargs : BOOLEAN, kwargs : BOOLEAN, firstDefault : Nat, mask : SUBSET Nat]

Describes(f, t) ==
  /\ f.signature \in Signatures
  /\ f.signature.nParameters = t.nParameters
  /\ f.signature.nPositional = t.nPositional
  /\ f.signature.varargs = t.varargs /\ f.signature.kwargs = t.kwargs
  /\ f.signature.requiredKeywordOnly <=>
       \E slot \in Slots(t) :
         Ordinary(t, slot) /\ slot >= t.nPositional /\ slot \notin DefaultSlots(t)
  /\ f.signature.firstDefault \in Nat
  /\ f.signature.mask = {slot - f.signature.firstDefault : slot \in DefaultSlots(t)}
  /\ \A slot \in DefaultSlots(t) : slot >= f.signature.firstDefault
  /\ KnowsDefaults(f, t)
  /\ DOMAIN f.remap = {t.name[slot] : slot \in {u \in Slots(t) : Addressable(t, u)}}
  /\ \A slot \in Slots(t) : Addressable(t, slot) => f.remap[t.name[slot]] = slot

LEMMA SequenceOf ==
  ASSUME NEW n \in Nat, NEW g, g = [i \in 1 .. n |-> g[i]]
  PROVE  /\ g \in Seq({g[i] : i \in 1 .. n}) /\ Len(g) = n /\ DOMAIN g = 1 .. n
         /\ g = <<>> <=> n = 0
<1>1. PICK S : S = {g[i] : i \in 1 .. n}
  OBVIOUS
<1>2. g \in [1 .. n -> S] /\ DOMAIN g = 1 .. n
  BY <1>1
<1>3. g \in Seq(S)
  BY <1>2, SeqDef
<1>4. Len(g) = n
  <2>1. Len(g) \in Nat /\ 1 .. Len(g) = 1 .. n
    BY <1>2, <1>3, LenProperties
  <2>. QED BY <2>1
<1>5. g = <<>> <=> n = 0
  <2>1. Len(<<>>) = 0
    BY EmptySeq
  <2>2. n = 0 => g = <<>>
    BY <1>3, <1>4, EmptySeq
  <2>. QED BY <1>4, <2>1, <2>2
<1>. QED BY <1>1, <1>2, <1>3, <1>4, <1>5

LEMMA MaxOf ==
  ASSUME NEW S \in SUBSET Nat, S # {}, NEW b \in Nat, \A x \in S : x <= b
  PROVE  Max(S) \in S /\ \A x \in S : x <= Max(S)
<1>1. \E x \in S : \A y \in S : y <= x
  BY GreatestElement
<1>2. \E x \in S : \A y \in S : x >= y
  BY <1>1
<1>3. Max(S) \in S /\ \A y \in S : Max(S) >= y
  BY <1>2 DEF Max
<1>. QED BY <1>3

LEMMA MinOf ==
  ASSUME NEW S \in SUBSET Nat, S # {}
  PROVE  Min(S) \in S /\ \A x \in S : Min(S) <= x
<1>1. \E x \in S : \A y \in S : x <= y
  BY LeastElement
<1>. QED BY <1>1 DEF Min

LEMMA SpanOf ==
  ASSUME NEW t, IsTable(t), NEW s, s.firstDefault \in Nat,
         s.mask = {slot - s.firstDefault : slot \in DefaultSlots(t)},
         \A slot \in DefaultSlots(t) : slot >= s.firstDefault
  PROVE  /\ DefaultSpanSize(s) \in Nat
         /\ DefaultSpanSize(s) = 0 <=> DefaultSlots(t) = {}
         /\ \A i \in s.mask : i \in Nat /\ i < DefaultSpanSize(s)
<1>1. PICK D, first, mask, n : D = DefaultSlots(t) /\ first = s.firstDefault /\ mask = s.mask /\ n = t.nParameters
  OBVIOUS
<1>2. n \in Nat /\ first \in Nat /\ mask = {slot - first : slot \in D} /\ \A slot \in D : slot >= first
  BY <1>1 DEF IsTable
<1>3. \A slot \in D : slot \in 0 .. n - 1
  BY <1>1 DEF DefaultSlots, Slots
<1>4. mask \in SUBSET Nat /\ \A i \in mask : i <= n
  BY <1>2, <1>3
<1>5. CASE D = {}
  <2>1. mask = {}
    BY <1>2, <1>5
  <2>. QED BY <1>1, <1>5, <2>1 DEF DefaultSpanSize
<1>6. CASE D # {}
  <2>1. mask # {}
    BY <1>2, <1>6
  <2>2. Max(mask) \in mask /\ \A i \in mask : i <= Max(mask)
    BY <1>2, <1>4, <2>1, MaxOf
  <2>3. DefaultSpanSize(s) = Max(mask) + 1
    BY <1>1, <2>1 DEF DefaultSpanSize
  <2>4. PICK m : m = Max(mask)
    OBVIOUS
  <2>5. m \in mask /\ \A i \in mask : i <= m
    BY <2>2, <2>4
  <2>6. m \in Nat /\ \A i \in mask : i \in Nat
    BY <1>4, <2>5
  <2>7. \A i \in mask : i \in Nat /\ i < m + 1
    BY <2>5, <2>6
  <2>. QED BY <1>1, <1>6, <2>3, <2>4, <2>6, <2>7
<1>. QED BY <1>5, <1>6

(* What the compiler makes of a definition describes its table.            *)
LEMMA FunctionDescribed ==
  ASSUME NEW d, WellFormed(d)
  PROVE  Describes(FunctionOf(d), Table(d))
<1>1. PICK t, f, s : t = Table(d) /\ f = FunctionOf(d) /\ s = Signature(d)
  OBVIOUS
<1>2. f.signature = s /\ f.remap = KeywordRemap(d) /\ f.defaults = DefaultTuple(d, s)
  BY <1>1 DEF FunctionOf
<1>3. PICK order, n, a, b, k, np, nf :
        /\ order = RuntimeOrder(d) /\ n = Parameters(d)
        /\ a = Len(d.posonly) /\ b = Len(d.poskw) /\ k = Len(d.kwonly)
        /\ np = Positional(d) /\ nf = FirstKwonly(d)
  OBVIOUS
<1>4. /\ a \in Nat /\ b \in Nat /\ k \in Nat /\ n \in Nat /\ np = a + b
      /\ d.varargs \in BOOLEAN /\ d.kwargs \in BOOLEAN
      /\ (d.varargs => nf = np + 1) /\ (~d.varargs => nf = np + 0)
      /\ (d.kwargs => n = nf + k + 1) /\ (~d.kwargs => n = nf + k + 0)
      /\ Len(order) = n /\ DOMAIN d.kwonly = 1 .. k
  <2>1. /\ a \in Nat /\ b \in Nat /\ k \in Nat /\ n \in Nat /\ d.varargs \in BOOLEAN /\ d.kwargs \in BOOLEAN
        /\ Len(order) = n /\ DOMAIN d.kwonly = 1 .. k
    BY <1>3, OrderLayout
  <2>2. np = a + b
    BY <1>3 DEF Positional
  <2>3. (d.varargs => nf = np + 1) /\ (~d.varargs => nf = np + 0)
    BY <1>3 DEF FirstKwonly
  <2>4. (d.kwargs => n = nf + k + 1) /\ (~d.kwargs => n = nf + k + 0)
    BY <1>3 DEF Parameters
  <2>. QED BY <2>1, <2>2, <2>3, <2>4
<1>5. /\ t.name = [slot \in 0 .. n - 1 |-> NameAt(d, slot)]
      /\ t.nPosonly = a /\ t.nPositional = np /\ t.firstKwonly = nf /\ t.nParameters = n
      /\ t.varargs = d.varargs /\ t.kwargs = d.kwargs /\ t.defaults = d.defaults
  BY <1>1, <1>3 DEF Table
<1>6. /\ Slots(t) = 0 .. n - 1
      /\ \A slot \in 0 .. n - 1 : t.name[slot] = NameAt(d, slot) /\ t.name[slot] = order[slot + 1]
  BY <1>3, <1>5 DEF Slots, NameAt
<1>7. PICK D : D = DefaultSlots(t)
  OBVIOUS
<1>8. D = {i \in 0 .. n - 1 : order[i + 1] \in d.defaults}
  BY <1>5, <1>6, <1>7 DEF DefaultSlots
<1>9. IsTable(t)
  BY <1>1, TableOf
<1>10. PICK first : first = IF D = {} THEN 0 ELSE Min(D)
  OBVIOUS
<1>11. first \in Nat /\ \A slot \in D : slot >= first /\ slot \in 0 .. n - 1
  <2>1. D \in SUBSET Nat /\ \A slot \in D : slot \in 0 .. n - 1
    BY <1>4, <1>8
  <2>2. CASE D = {}
    BY <2>2, <1>10
  <2>3. CASE D # {}
    <3>1. Min(D) \in D /\ \A x \in D : Min(D) <= x
      BY <2>1, <2>3, MinOf
    <3>2. first \in D /\ \A x \in D : first <= x
      BY <3>1, <2>3, <1>10
    <3>3. first \in Nat /\ \A x \in D : x \in Nat
      BY <3>2, <2>1
    <3>. QED BY <3>2, <3>3, <2>1
  <2>. QED BY <2>2, <2>3
<1>12. s = [nParameters |-> n, nPositional |-> np, nPosonly |-> a,
            requiredKeywordOnly |-> (\E i \in DOMAIN d.kwonly : d.kwonly[i] \notin d.defaults),
            varargs |-> d.varargs, kwargs |-> d.kwargs,
            firstDefault |-> first, mask |-> {i - first : i \in D}]
  <2>1. n = Len(order) /\ np = Len(d.posonly) + Len(d.poskw) /\ a = Len(d.posonly)
    BY <1>3, <1>4
  <2>2. s = [nParameters |-> Len(order), nPositional |-> Len(d.posonly) + Len(d.poskw),
             nPosonly |-> Len(d.posonly),
             requiredKeywordOnly |-> \E i \in DOMAIN d.kwonly : d.kwonly[i] \notin d.defaults,
             varargs |-> d.varargs, kwargs |-> d.kwargs,
             firstDefault |-> first, mask |-> {i - first : i \in D}]
    <3>1. D = {i \in 0 .. Len(order) - 1 : order[i + 1] \in d.defaults}
      BY <1>4, <1>8
    <3>. QED BY <3>1, <1>1, <1>3, <1>10, Zenon DEF Signature
  <2>. QED BY <2>1, <2>2, Zenon
<1>13. /\ s.nParameters = n /\ s.nPositional = np /\ s.varargs = d.varargs /\ s.kwargs = d.kwargs
       /\ s.firstDefault = first /\ s.mask = {i - first : i \in D}
       /\ s.requiredKeywordOnly = (\E i \in DOMAIN d.kwonly : d.kwonly[i] \notin d.defaults)
  BY <1>12
<1>14. \A slot \in 0 .. n - 1 :
         (Ordinary(t, slot) /\ slot >= np) <=> slot - nf + 1 \in 1 .. k
  <2>1. ASSUME NEW slot \in 0 .. n - 1
        PROVE  (~(d.varargs /\ slot = np) /\ ~(d.kwargs /\ slot = n - 1) /\ slot >= np) <=> slot - nf + 1 \in 1 .. k
    BY <1>4
  <2>. QED BY <2>1, <1>5 DEF Ordinary, IsVarargs, IsKwargs
<1>15. \A i \in 1 .. k : nf + i - 1 \in 0 .. n - 1 /\ (nf + i - 1) - nf + 1 = i /\ NameAt(d, nf + i - 1) = d.kwonly[i]
  <2>1. \A i \in 1 .. k : nf + i - 1 \in 0 .. n - 1 /\ (nf + i - 1) - nf + 1 = i
    BY <1>4
  <2>2. \A i \in 1 .. k : NameAt(d, nf + i - 1) = d.kwonly[i]
    BY <1>3, OrderLayout
  <2>. QED BY <2>1, <2>2
<1>16. \A slot \in 0 .. n - 1 : slot - nf + 1 \in 1 .. k => NameAt(d, slot) = d.kwonly[slot - nf + 1]
  <2>1. \A slot \in 0 .. n - 1 : nf + (slot - nf + 1) - 1 = slot
    BY <1>4
  <2>2. \A i \in 1 .. k : NameAt(d, nf + i - 1) = d.kwonly[i]
    BY <1>15
  <2>. QED BY <2>1, <2>2
<1>17. s.requiredKeywordOnly <=>
         \E slot \in Slots(t) : Ordinary(t, slot) /\ slot >= t.nPositional /\ slot \notin DefaultSlots(t)
  <2>1. (\E i \in 1 .. k : d.kwonly[i] \notin d.defaults) <=>
          \E slot \in 0 .. n - 1 : Ordinary(t, slot) /\ slot >= np /\ slot \notin D
    <3>1. ASSUME NEW i \in 1 .. k, d.kwonly[i] \notin d.defaults
          PROVE  \E slot \in 0 .. n - 1 : Ordinary(t, slot) /\ slot >= np /\ slot \notin D
      <4>1. PICK slot : slot = nf + i - 1
        OBVIOUS
      <4>2. slot \in 0 .. n - 1 /\ slot - nf + 1 \in 1 .. k /\ NameAt(d, slot) = d.kwonly[i]
        BY <4>1, <1>15
      <4>3. slot \notin D
        BY <4>2, <3>1, <1>6, <1>8
      <4>. QED BY <4>2, <4>3, <1>14
    <3>2. ASSUME NEW slot \in 0 .. n - 1, Ordinary(t, slot), slot >= np, slot \notin D
          PROVE  \E i \in 1 .. k : d.kwonly[i] \notin d.defaults
      <4>1. slot - nf + 1 \in 1 .. k
        BY <3>2, <1>14
      <4>2. order[slot + 1] \notin d.defaults /\ order[slot + 1] = d.kwonly[slot - nf + 1]
        BY <4>1, <3>2, <1>6, <1>8, <1>16
      <4>. QED BY <4>1, <4>2
    <3>. QED BY <3>1, <3>2
  <2>. QED BY <2>1, <1>4, <1>5, <1>6, <1>7, <1>13
<1>18. KnowsDefaults(f, t)
  <2>1. PICK span : span = DefaultSpanSize(s)
    OBVIOUS
  <2>2. span \in Nat /\ (span = 0 <=> D = {}) /\ \A i \in s.mask : i \in Nat /\ i < span
    BY <2>1, <1>7, <1>9, <1>11, <1>13, SpanOf
  <2>3. f.defaults = [i \in 1 .. span |-> IF i - 1 \in s.mask THEN <<"default", order[first + i]>> ELSE NoneObject]
    BY <2>1, <1>2, <1>3, <1>13, Zenon DEF DefaultTuple
  <2>4. f.defaults = [i \in 1 .. span |-> f.defaults[i]]
    BY <2>3
  <2>5. ASSUME NEW slot \in D
        PROVE  slot - first < span /\ f.defaults[slot - first + 1] = <<"default", t.name[slot]>>
    <3>1. slot - first \in s.mask /\ slot \in 0 .. n - 1 /\ slot >= first
      BY <1>11, <1>13
    <3>2. slot - first \in Nat /\ slot - first < span
      BY <3>1, <2>2
    <3>3. PICK i : i = slot - first + 1
      OBVIOUS
    <3>4. i \in 1 .. span /\ i - 1 = slot - first /\ first + i = slot + 1
      BY <3>1, <3>2, <3>3, <2>2, <1>11
    <3>5. f.defaults[i] = <<"default", order[slot + 1]>>
      BY <3>1, <3>4, <2>3
    <3>. QED BY <3>1, <3>2, <3>3, <3>5, <1>6
  <2>. QED BY <2>2, <2>4, <2>5, <1>2, <1>7, <1>13 DEF KnowsDefaults
<1>19. PICK A : A = {u \in Slots(t) : Addressable(t, u)}
  OBVIOUS
<1>20. A = {i \in 0 .. Len(order) - 1 :
              \/ i \in Len(d.posonly) .. Len(d.posonly) + Len(d.poskw) - 1
              \/ \E j \in DOMAIN d.kwonly :
                   i = Len(d.posonly) + Len(d.poskw) + (IF d.varargs THEN 1 ELSE 0) + j - 1}
  <2>1. ASSUME NEW i \in 0 .. n - 1
        PROVE  Addressable(t, i) <=> (i \in a .. a + b - 1 \/ \E j \in 1 .. k : i = nf + j - 1)
    <3>1. Addressable(t, i) <=> ~(d.varargs /\ i = np) /\ ~(d.kwargs /\ i = n - 1) /\ i >= a
      BY <1>5 DEF Addressable, Ordinary, IsVarargs, IsKwargs
    <3>2. (\E j \in 1 .. k : i = nf + j - 1) <=> i - nf + 1 \in 1 .. k
      <4>1. ASSUME NEW j \in 1 .. k, i = nf + j - 1 PROVE i - nf + 1 \in 1 .. k
        BY <4>1, <1>4
      <4>2. i = nf + (i - nf + 1) - 1
        BY <1>4
      <4>. QED BY <4>1, <4>2
    <3>3. (~(d.varargs /\ i = np) /\ ~(d.kwargs /\ i = n - 1) /\ i >= a)
            <=> (i \in a .. a + b - 1 \/ i - nf + 1 \in 1 .. k)
      BY <1>4, SMTT(30)
    <3>. QED BY <3>1, <3>2, <3>3
  <2>2. nf = Len(d.posonly) + Len(d.poskw) + (IF d.varargs THEN 1 ELSE 0)
    BY <1>3, Zenon DEF FirstKwonly, Positional
  <2>3. A = {i \in 0 .. n - 1 : i \in a .. a + b - 1 \/ \E j \in 1 .. k : i = nf + j - 1}
    BY <2>1, <1>6, <1>19
  <2>4. n = Len(order) /\ DOMAIN d.kwonly = 1 .. k /\ a = Len(d.posonly) /\ b = Len(d.poskw)
    BY <1>3, <1>4
  <2>. QED BY <2>2, <2>3, <2>4, Zenon
<1>21. f.remap = [name \in {order[i + 1] : i \in A} |-> CHOOSE i \in A : order[i + 1] = name]
  <2>1. order = RuntimeOrder(d) /\ f.remap = KeywordRemap(d)
    BY <1>2, <1>3
  <2>. DEFINE places == {i \in 0 .. Len(RuntimeOrder(d)) - 1 :
                           \/ i \in Len(d.posonly) .. Len(d.posonly) + Len(d.poskw) - 1
                           \/ \E j \in DOMAIN d.kwonly :
                                i = Len(d.posonly) + Len(d.poskw)
                                      + (IF d.varargs THEN 1 ELSE 0) + j - 1}
  <2>2. A = places
    BY <2>1, <1>20
  <2>3. KeywordRemap(d) = [name \in {RuntimeOrder(d)[i + 1] : i \in places} |->
                             CHOOSE i \in places : RuntimeOrder(d)[i + 1] = name]
    BY Zenon DEF KeywordRemap
  <2>. HIDE DEF places
  <2>. QED BY <2>1, <2>2, <2>3
<1>22. /\ DOMAIN f.remap = {t.name[slot] : slot \in A}
       /\ \A slot \in A : f.remap[t.name[slot]] = slot
  <2>1. \A slot \in A : slot \in 0 .. n - 1 /\ t.name[slot] = order[slot + 1]
    BY <1>6, <1>19
  <2>2. DOMAIN f.remap = {order[slot + 1] : slot \in A}
    BY <1>21
  <2>3. ASSUME NEW slot \in A PROVE f.remap[t.name[slot]] = slot
    <3>1. PICK name : name = t.name[slot]
      OBVIOUS
    <3>2. f.remap[name] = CHOOSE i \in A : order[i + 1] = name
      BY <3>1, <2>1, <1>21
    <3>3. (CHOOSE i \in A : order[i + 1] = name) = slot
      <4>1. slot \in A /\ order[slot + 1] = name
        BY <3>1, <2>1
      <4>2. ASSUME NEW i \in A, order[i + 1] = name PROVE i = slot
        <5>1. i \in Slots(t) /\ slot \in Slots(t) /\ t.name[i] = t.name[slot]
          BY <4>2, <3>1, <2>1, <1>6
        <5>. QED BY <5>1, <1>9 DEF IsTable
      <4>. QED BY <4>1, <4>2
    <3>. QED BY <3>1, <3>2, <3>3
  <2>. QED BY <2>1, <2>2, <2>3
<1>. QED
  <2>1. \A slot \in Slots(t) : Addressable(t, slot) => f.remap[t.name[slot]] = slot
    BY <1>19, <1>22
  <2>2. \A slot \in DefaultSlots(t) : slot >= f.signature.firstDefault
    BY <1>2, <1>7, <1>11, <1>13
  <2>3. s \in Signatures
    <3>1. {i - first : i \in D} \in SUBSET Nat
      BY <1>11
    <3>2. np \in Nat /\ (\E i \in DOMAIN d.kwonly : d.kwonly[i] \notin d.defaults) \in BOOLEAN
      BY <1>4
    <3>3. s = [nParameters |-> n, nPositional |-> np, nPosonly |-> a,
               requiredKeywordOnly |-> (\E i \in DOMAIN d.kwonly : d.kwonly[i] \notin d.defaults),
               varargs |-> d.varargs, kwargs |-> d.kwargs,
               firstDefault |-> first, mask |-> {i - first : i \in D}]
      BY <1>12
    <3>. QED BY <3>1, <3>2, <3>3, <1>4, <1>11 DEF Signatures
  <2>. QED
    BY <2>3, <1>1, <1>2, <1>5, <1>7, <1>11, <1>13, <1>17, <1>18, <1>19, <1>22, <2>1, <2>2 DEF Describes

(* What the thunk of a constructor copies from its method describes the    *)
(* table without the method's first parameter.                             *)
LEMMA ThunkDescribed ==
  ASSUME NEW t, IsTable(t), t.nPositional > 0, NEW f, Describes(f, t), NEW kind
  PROVE  Describes(MethodThunk(kind, f), DropFirst(t))
<1>1. PICK u, g, s, r : /\ u = DropFirst(t) /\ g = MethodThunk(kind, f)
                        /\ s = f.signature /\ r = SignatureDropFirst(s)
  OBVIOUS
<1>2. g.signature = r /\ g.remap = RemapDropFirst(f.remap) /\ g.defaults = DefaultsDropFirst(f)
  BY <1>1 DEF MethodThunk
<1>3. PICK D, E, first : D = DefaultSlots(t) /\ E = DefaultSlots(u) /\ first = s.firstDefault
  OBVIOUS
<1>4. /\ s \in Signatures /\ first \in Nat /\ s.mask = {slot - first : slot \in D}
      /\ \A slot \in D : slot >= first
      /\ s.nParameters = t.nParameters /\ s.nPositional = t.nPositional
      /\ s.varargs = t.varargs /\ s.kwargs = t.kwargs
  BY <1>1, <1>3 DEF Describes
<1>5. /\ IsTable(u) /\ Slots(t) = {0} \cup {x + 1 : x \in Slots(u)}
      /\ \A x \in Slots(u) : /\ x + 1 \in Slots(t) /\ u.name[x] = t.name[x + 1]
                             /\ Ordinary(u, x) <=> Ordinary(t, x + 1)
                             /\ Addressable(u, x) <=> Addressable(t, x + 1)
                             /\ x \in E <=> x + 1 \in D
      /\ 0 \in Slots(t) /\ Ordinary(t, 0)
  BY <1>1, <1>3, TableWithoutFirst
<1>6. PICK n : n = t.nParameters
  OBVIOUS
<1>7. /\ n \in Nat /\ Slots(t) = 0 .. n - 1 /\ Slots(u) = 0 .. n - 2 /\ u.nParameters = n - 1
      /\ u.nPositional = t.nPositional - 1 /\ u.varargs = t.varargs /\ u.kwargs = t.kwargs
      /\ t.nPositional \in Nat /\ n >= 1
  <2>1. n \in Nat /\ t.nPositional \in Nat
    BY <1>6 DEF IsTable
  <2>2. /\ u.nParameters = n - 1 /\ u.nPositional = t.nPositional - 1
        /\ u.varargs = t.varargs /\ u.kwargs = t.kwargs
    BY <1>1, <1>6 DEF DropFirst
  <2>3. Slots(t) = 0 .. n - 1 /\ Slots(u) = 0 .. (n - 1) - 1 /\ (n - 1) - 1 = n - 2
    BY <1>6, <2>1, <2>2 DEF Slots
  <2>4. n >= 1
    BY <1>5, <2>1, <2>3
  <2>. QED BY <2>1, <2>2, <2>3, <2>4
<1>8. D \subseteq Slots(t) /\ E \subseteq Slots(u)
  BY <1>3 DEF DefaultSlots
<1>9. PICK F : F = D \ {0}
  OBVIOUS
<1>10. {first + i : i \in s.mask} \ {0} = F
  <2>1. \A slot \in D : first + (slot - first) = slot
    BY <1>4, <1>7, <1>8
  <2>. QED BY <2>1, <1>4, <1>9
<1>11. F \in SUBSET Nat /\ (\A x \in F : x \in 1 .. n - 1 /\ x - 1 \in E) /\ (\A x \in E : x + 1 \in F)
  <2>1. ASSUME NEW x \in F PROVE x \in 1 .. n - 1 /\ x - 1 \in E
    <3>1. x \in 1 .. n - 1 /\ x - 1 \in 0 .. n - 2 /\ (x - 1) + 1 = x /\ x \in D
      BY <1>7, <1>8, <1>9
    <3>. QED BY <3>1, <1>5, <1>7
  <2>2. ASSUME NEW x \in E PROVE x + 1 \in F
    <3>1. x \in 0 .. n - 2 /\ x + 1 # 0
      BY <1>7, <1>8
    <3>. QED BY <3>1, <1>5, <1>7, <1>9
  <2>. QED BY <2>1, <2>2
<1>12. PICK low : low = IF F = {} THEN 0 ELSE Min(F) - 1
  OBVIOUS
<1>13. low \in Nat /\ \A x \in F : x - 1 >= low
  <2>1. CASE F = {}
    BY <2>1, <1>12
  <2>2. CASE F # {}
    <3>1. PICK m : m = Min(F)
      OBVIOUS
    <3>2. m \in F /\ \A x \in F : m <= x
      BY <3>1, <2>2, <1>11, MinOf
    <3>3. low = m - 1
      BY <3>1, <2>2, <1>12
    <3>. QED BY <3>2, <3>3, <1>11
  <2>. QED BY <2>1, <2>2
<1>14. r = [s EXCEPT !.nParameters = @ - 1, !.nPositional = @ - 1,
                     !.nPosonly = IF @ > 0 THEN @ - 1 ELSE 0,
                     !.firstDefault = low,
                     !.mask = {slot - 1 - low : slot \in F}]
  <2>. DEFINE slots == {s.firstDefault + i : i \in s.mask} \ {0}
  <2>1. slots = F
    BY <1>3, <1>10
  <2>2. r = LET base == IF slots = {} THEN 0 ELSE Min(slots) - 1
            IN [s EXCEPT !.nParameters = @ - 1, !.nPositional = @ - 1,
                         !.nPosonly = IF @ > 0 THEN @ - 1 ELSE 0,
                         !.firstDefault = base,
                         !.mask = {slot - 1 - base : slot \in slots}]
    BY <1>1, Zenon DEF SignatureDropFirst
  <2>. HIDE DEF slots
  <2>. QED BY <2>1, <2>2, <1>12, Zenon
<1>15. {slot - 1 - low : slot \in F} = {slot - low : slot \in E}
  <2>1. \A x \in E : (x + 1) - 1 = x
    BY <1>7, <1>8
  <2>. QED BY <2>1, <1>11
<1>16. /\ r.nParameters = n - 1 /\ r.nPositional = t.nPositional - 1
       /\ r.varargs = t.varargs /\ r.kwargs = t.kwargs
       /\ r.requiredKeywordOnly = s.requiredKeywordOnly
       /\ r.firstDefault = low /\ r.mask = {slot - low : slot \in E}
       /\ r \in Signatures
  <2>1. /\ r.nParameters = n - 1 /\ r.nPositional = t.nPositional - 1
        /\ r.varargs = t.varargs /\ r.kwargs = t.kwargs
        /\ r.requiredKeywordOnly = s.requiredKeywordOnly
        /\ r.firstDefault = low /\ r.mask = {slot - low : slot \in E}
    BY <1>4, <1>6, <1>14, <1>15 DEF Signatures
  <2>2. {slot - low : slot \in E} \in SUBSET Nat
    <3>1. ASSUME NEW x \in E PROVE x - low \in Nat
      <4>1. x + 1 \in F /\ (x + 1) - 1 = x /\ x \in Nat
        BY <1>7, <1>8, <1>11
      <4>2. (x + 1) - 1 >= low
        BY <4>1, <1>13
      <4>. QED BY <4>1, <4>2, <1>13
    <3>. QED BY <3>1
  <2>3. n - 1 \in Nat /\ t.nPositional - 1 \in Nat
    BY <1>7
  <2>4. r.nPosonly \in Nat
    <3>1. s.nPosonly \in Nat /\ r.nPosonly = IF s.nPosonly > 0 THEN s.nPosonly - 1 ELSE 0
      BY <1>4, <1>14 DEF Signatures
    <3>. QED BY <3>1
  <2>5. r = [nParameters |-> r.nParameters, nPositional |-> r.nPositional, nPosonly |-> r.nPosonly,
             requiredKeywordOnly |-> r.requiredKeywordOnly, varargs |-> r.varargs,
             kwargs |-> r.kwargs, firstDefault |-> r.firstDefault, mask |-> r.mask]
    BY <1>4, <1>14 DEF Signatures
  <2>6. /\ s.requiredKeywordOnly \in BOOLEAN /\ s.varargs \in BOOLEAN /\ s.kwargs \in BOOLEAN
    BY <1>4 DEF Signatures
  <2>7. r \in Signatures
    BY <2>1, <2>2, <2>3, <2>4, <2>5, <2>6, <1>4, <1>13 DEF Signatures
  <2>. QED BY <2>1, <2>7
<1>17. \A x \in E : x >= low
  <2>. SUFFICES ASSUME NEW x \in E PROVE x >= low
    OBVIOUS
  <2>1. x + 1 \in F /\ (x + 1) - 1 = x
    BY <1>7, <1>8, <1>11
  <2>. QED BY <2>1, <1>13

<1>18. r.requiredKeywordOnly <=>
         \E slot \in Slots(u) : Ordinary(u, slot) /\ slot >= u.nPositional /\ slot \notin E
  <2>1. s.requiredKeywordOnly <=>
          \E slot \in Slots(t) : Ordinary(t, slot) /\ slot >= t.nPositional /\ slot \notin D
    BY <1>1, <1>3 DEF Describes
  <2>2. ASSUME NEW slot \in Slots(t), Ordinary(t, slot), slot >= t.nPositional, slot \notin D
        PROVE  \E x \in Slots(u) : Ordinary(u, x) /\ x >= u.nPositional /\ x \notin E
    <3>1. PICK x \in Slots(u) : slot = x + 1
      BY <2>2, <1>5, <1>7
    <3>2. x >= u.nPositional
      BY <2>2, <3>1, <1>7
    <3>. QED BY <2>2, <3>1, <3>2, <1>5
  <2>3. ASSUME NEW x \in Slots(u), Ordinary(u, x), x >= u.nPositional, x \notin E
        PROVE  \E slot \in Slots(t) : Ordinary(t, slot) /\ slot >= t.nPositional /\ slot \notin D
    <3>1. x + 1 >= t.nPositional
      BY <2>3, <1>7
    <3>. QED BY <2>3, <3>1, <1>5
  <2>. QED BY <2>1, <2>2, <2>3, <1>16
<1>19. KnowsDefaults(g, u)
  <2>1. PICK span : span = DefaultSpanSize(r)
    OBVIOUS
  <2>2. span \in Nat /\ (span = 0 <=> E = {}) /\ \A i \in r.mask : i \in Nat /\ i < span
    BY <2>1, <1>3, <1>5, <1>13, <1>16, <1>17, SpanOf
  <2>3. g.defaults = [i \in 1 .. span |->
                        IF low + i - first \in s.mask THEN f.defaults[low + i - first + 1] ELSE NoneObject]
    BY <2>1, <1>1, <1>2, <1>3, <1>16, Zenon DEF DefaultsDropFirst
  <2>4. g.defaults = [i \in 1 .. span |-> g.defaults[i]]
    BY <2>3
  <2>5. ASSUME NEW x \in E
        PROVE  x - low < span /\ g.defaults[x - low + 1] = <<"default", u.name[x]>>
    <3>1. x - low \in r.mask /\ x \in Slots(u) /\ x + 1 \in D
      BY <1>5, <1>8, <1>16
    <3>2. x \in Nat /\ x - low \in Nat /\ x - low < span
      BY <3>1, <2>2, <1>7
    <3>3. PICK i : i = x - low + 1
      OBVIOUS
    <3>4. i \in 1 .. span /\ low + i - first = (x + 1) - first
      BY <3>2, <3>3, <2>2, <1>4, <1>13
    <3>5. (x + 1) - first \in s.mask
      BY <3>1, <1>4
    <3>6. f.defaults[(x + 1) - first + 1] = <<"default", t.name[x + 1]>>
      BY <3>1, <1>1, <1>3 DEF Describes, KnowsDefaults
    <3>7. g.defaults[i] = f.defaults[(x + 1) - first + 1]
      BY <3>4, <3>5, <2>3
    <3>. QED BY <3>1, <3>2, <3>3, <3>6, <3>7, <1>5
  <2>. QED BY <2>2, <2>4, <2>5, <1>2, <1>3, <1>16 DEF KnowsDefaults
<1>20. PICK A, B : /\ A = {x \in Slots(t) : Addressable(t, x)}
                   /\ B = {x \in Slots(u) : Addressable(u, x)}
  OBVIOUS
<1>21. /\ DOMAIN f.remap = {t.name[slot] : slot \in A}
       /\ \A slot \in A : f.remap[t.name[slot]] = slot
  BY <1>20 DEF Describes
<1>22. (\A slot \in A : slot = 0 \/ (slot - 1 \in B /\ u.name[slot - 1] = t.name[slot]))
       /\ \A x \in B : x + 1 \in A /\ x + 1 # 0 /\ (x + 1) - 1 = x /\ u.name[x] = t.name[x + 1]
  <2>1. ASSUME NEW slot \in A PROVE slot = 0 \/ (slot - 1 \in B /\ u.name[slot - 1] = t.name[slot])
    <3>1. slot \in 0 .. n - 1 /\ Addressable(t, slot)
      BY <1>7, <1>20
    <3>2. CASE slot # 0
      <4>1. slot - 1 \in 0 .. n - 2 /\ (slot - 1) + 1 = slot
        BY <3>1, <3>2, <1>7
      <4>. QED BY <3>1, <4>1, <1>5, <1>7, <1>20
    <3>. QED BY <3>2
  <2>2. ASSUME NEW x \in B PROVE x + 1 \in A /\ x + 1 # 0 /\ (x + 1) - 1 = x /\ u.name[x] = t.name[x + 1]
    <3>1. x \in 0 .. n - 2 /\ x \in Slots(u) /\ Addressable(u, x)
      BY <1>7, <1>20
    <3>2. x + 1 # 0 /\ (x + 1) - 1 = x
      BY <3>1, <1>7
    <3>. QED BY <3>1, <3>2, <1>5, <1>20
  <2>. QED BY <2>1, <2>2
<1>23. /\ DOMAIN g.remap = {u.name[slot] : slot \in B}
       /\ \A slot \in B : g.remap[u.name[slot]] = slot
  <2>. DEFINE kept == {name \in DOMAIN f.remap : f.remap[name] # 0}
  <2>1. g.remap = [name \in kept |-> f.remap[name] - 1]
    BY <1>2 DEF RemapDropFirst
  <2>2. kept = {t.name[slot] : slot \in {x \in A : x # 0}}
    BY <1>21
  <2>3. {t.name[slot] : slot \in {x \in A : x # 0}} = {u.name[slot] : slot \in B}
    <3>1. ASSUME NEW slot \in A, slot # 0 PROVE t.name[slot] \in {u.name[x] : x \in B}
      BY <3>1, <1>22
    <3>2. ASSUME NEW x \in B PROVE u.name[x] \in {t.name[slot] : slot \in {y \in A : y # 0}}
      BY <1>22
    <3>. QED BY <3>1, <3>2
  <2>. HIDE DEF kept
  <2>4. DOMAIN g.remap = kept
    BY <2>1
  <2>5. ASSUME NEW x \in B PROVE g.remap[u.name[x]] = x
    <3>1. u.name[x] \in kept /\ f.remap[u.name[x]] = x + 1
      BY <2>2, <2>3, <1>21, <1>22
    <3>2. g.remap[u.name[x]] = (x + 1) - 1
      BY <2>1, <3>1
    <3>. QED BY <3>2, <1>22
  <2>. QED BY <2>2, <2>3, <2>4, <2>5
<1>. QED
  <2>1. \A slot \in Slots(u) : Addressable(u, slot) => g.remap[u.name[slot]] = slot
    BY <1>20, <1>23
  <2>2. \A slot \in DefaultSlots(u) : slot >= g.signature.firstDefault
    BY <1>2, <1>3, <1>16, <1>17
  <2>. QED
    BY <1>1, <1>2, <1>3, <1>7, <1>13, <1>16, <1>18, <1>19, <1>20, <1>23, <2>1, <2>2 DEF Describes

-----------------------------------------------------------------------------
(* What a call means, by slots.                                            *)

LEMMA NamesJoined ==
  ASSUME NEW S, NEW s \in Seq(S), NEW t \in Seq(S)
  PROVE  Names(s \o t) = Names(s) \cup Names(t)
<1>1. PICK u, m, n : u = s \o t /\ m = Len(s) /\ n = Len(t)
  OBVIOUS
<1>2. /\ m \in Nat /\ n \in Nat /\ DOMAIN u = 1 .. m + n
      /\ DOMAIN s = 1 .. m /\ DOMAIN t = 1 .. n
      /\ \A i \in 1 .. m : u[i] = s[i]
      /\ \A i \in 1 .. n : u[m + i] = t[i]
  BY <1>1, Joined
<1>3. ASSUME NEW i \in 1 .. m + n PROVE u[i] \in Names(s) \cup Names(t)
  <2>1. CASE i \in 1 .. m
    BY <2>1, <1>2 DEF Names
  <2>2. CASE i \notin 1 .. m
    <3>1. i - m \in 1 .. n /\ m + (i - m) = i
      BY <2>2, <1>2
    <3>. QED BY <3>1, <1>2 DEF Names
  <2>. QED BY <2>1, <2>2
<1>4. ASSUME NEW i \in 1 .. m PROVE s[i] \in Names(u)
  <2>1. i \in 1 .. m + n
    BY <1>2
  <2>. QED BY <2>1, <1>2 DEF Names
<1>5. ASSUME NEW i \in 1 .. n PROVE t[i] \in Names(u)
  <2>1. m + i \in 1 .. m + n
    BY <1>2
  <2>. QED BY <2>1, <1>2 DEF Names
<1>6. Names(u) = {u[i] : i \in 1 .. m + n} /\ Names(s) = {s[i] : i \in 1 .. m} /\ Names(t) = {t[i] : i \in 1 .. n}
  BY <1>2 DEF Names
<1>7. Names(u) = Names(s) \cup Names(t)
  BY <1>3, <1>4, <1>5, <1>6
<1>. QED BY <1>1, <1>7

\* The slots of the groups of parameters, and the names in them.
NamesLie(d, t, by, np) ==
  /\ Names(d.posonly) = {t.name[s] : s \in {u \in Slots(t) : u < t.nPosonly}}
  /\ Names(d.poskw \o d.kwonly) = {t.name[s] : s \in {u \in Slots(t) : Addressable(t, u)}}
  /\ Names(by \o d.kwonly) = {t.name[s] : s \in {u \in Slots(t) : Ordinary(t, u)}}
  /\ by \in Seq(Names(by)) /\ Len(by) = np
  /\ DOMAIN by = 1 .. np
  /\ \A s \in 0 .. np - 1 :
       s \in Slots(t) /\ s + 1 \in 1 .. np /\ by[s + 1] = t.name[s]
  /\ \A s \in Slots(t) : /\ IsVarargs(t, s) => t.name[s] = "*"
                         /\ IsKwargs(t, s) => t.name[s] = "**"
                         /\ Ordinary(t, s) => t.name[s] \notin {"*", "**"}
  /\ DOMAIN RuntimeOrder(d) = 1 .. t.nParameters
  /\ \A i \in 1 .. t.nParameters : i - 1 \in Slots(t) /\ RuntimeOrder(d)[i] = t.name[i - 1]

LEMMA NamesBySlots ==
  ASSUME NEW d, WellFormed(d), NEW t, t = Table(d),
         NEW by, by = ByPosition(d), NEW np, np = t.nPositional
  PROVE  NamesLie(d, t, by, np)
<1>1. PICK a, b, k, nf, n : /\ a = Len(d.posonly) /\ b = Len(d.poskw) /\ k = Len(d.kwonly)
                            /\ np = Positional(d) /\ nf = FirstKwonly(d) /\ n = Parameters(d)
  BY DEF Table
<1>2. /\ t.name = [slot \in 0 .. n - 1 |-> NameAt(d, slot)]
      /\ t.nPosonly = a /\ t.nPositional = np /\ t.firstKwonly = nf /\ t.nParameters = n
      /\ t.varargs = d.varargs /\ t.kwargs = d.kwargs
  BY <1>1 DEF Table
<1>3. /\ a \in Nat /\ b \in Nat /\ k \in Nat /\ n \in Nat /\ np = a + b
      /\ d.varargs \in BOOLEAN /\ d.kwargs \in BOOLEAN
      /\ (d.varargs => nf = np + 1) /\ (~d.varargs => nf = np + 0)
      /\ (d.kwargs => n = nf + k + 1) /\ (~d.kwargs => n = nf + k + 0)
      /\ DOMAIN d.posonly = 1 .. a /\ DOMAIN d.poskw = 1 .. b /\ DOMAIN d.kwonly = 1 .. k
      /\ DOMAIN by = 1 .. np /\ DOMAIN RuntimeOrder(d) = 1 .. n
  <2>1. /\ a \in Nat /\ b \in Nat /\ k \in Nat /\ n \in Nat /\ d.varargs \in BOOLEAN /\ d.kwargs \in BOOLEAN
        /\ DOMAIN d.posonly = 1 .. a /\ DOMAIN d.poskw = 1 .. b /\ DOMAIN d.kwonly = 1 .. k
        /\ DOMAIN by = 1 .. np /\ DOMAIN RuntimeOrder(d) = 1 .. n
    BY <1>1, OrderLayout
  <2>2. np = a + b
    BY <1>1 DEF Positional
  <2>3. (d.varargs => nf = np + 1) /\ (~d.varargs => nf = np + 0)
    BY <1>1 DEF FirstKwonly
  <2>4. (d.kwargs => n = nf + k + 1) /\ (~d.kwargs => n = nf + k + 0)
    BY <1>1 DEF Parameters
  <2>. QED BY <2>1, <2>2, <2>3, <2>4
<1>20. b \in Nat /\ np = a + b /\ a \in Nat /\ np \in Nat /\ nf \in Nat /\ k \in Nat /\ n \in Nat /\ a <= np /\ np <= nf /\ nf + k <= n
  BY <1>3, SMTT(30)
<1>4. Slots(t) = 0 .. n - 1 /\ \A s \in 0 .. n - 1 : t.name[s] = NameAt(d, s)
  BY <1>2 DEF Slots
<1>5. /\ \A i \in 1 .. a : i - 1 \in 0 .. n - 1 /\ i - 1 < a /\ t.name[i - 1] = d.posonly[i]
      /\ \A i \in 1 .. b : a + i - 1 \in 0 .. n - 1 /\ a + i - 1 >= a /\ a + i - 1 < np
                           /\ t.name[a + i - 1] = d.poskw[i]
      /\ \A i \in 1 .. k : nf + i - 1 \in 0 .. n - 1 /\ nf + i - 1 >= nf /\ nf + i - 1 < nf + k
                           /\ t.name[nf + i - 1] = d.kwonly[i]
  <2>1. /\ \A i \in 1 .. a : i - 1 \in 0 .. n - 1 /\ i - 1 < a
        /\ \A i \in 1 .. b : a + i - 1 \in 0 .. n - 1 /\ a + i - 1 >= a /\ a + i - 1 < np
        /\ \A i \in 1 .. k : nf + i - 1 \in 0 .. n - 1 /\ nf + i - 1 >= nf /\ nf + i - 1 < nf + k
    BY <1>20
  <2>2. /\ \A i \in 1 .. a : NameAt(d, i - 1) = d.posonly[i]
        /\ \A i \in 1 .. b : NameAt(d, a + i - 1) = d.poskw[i]
        /\ \A i \in 1 .. k : NameAt(d, nf + i - 1) = d.kwonly[i]
    BY <1>1, OrderLayout
  <2>. QED BY <2>1, <2>2, <1>4
<1>6. \A s \in 0 .. n - 1 :
        /\ s < a => s + 1 \in 1 .. a /\ t.name[s] = d.posonly[s + 1]
        /\ s >= a /\ s < np => s - a + 1 \in 1 .. b /\ t.name[s] = d.poskw[s - a + 1]
        /\ s >= nf /\ s < nf + k => s - nf + 1 \in 1 .. k /\ t.name[s] = d.kwonly[s - nf + 1]
  <2>. SUFFICES ASSUME NEW s \in 0 .. n - 1
                PROVE /\ s < a => s + 1 \in 1 .. a /\ t.name[s] = d.posonly[s + 1]
                      /\ s >= a /\ s < np => s - a + 1 \in 1 .. b /\ t.name[s] = d.poskw[s - a + 1]
                      /\ s >= nf /\ s < nf + k => s - nf + 1 \in 1 .. k /\ t.name[s] = d.kwonly[s - nf + 1]
    OBVIOUS
  <2>1. CASE s < a
    <3>1. s + 1 \in 1 .. a /\ (s + 1) - 1 = s /\ ~(s >= a) /\ ~(s >= nf)
      BY <2>1, <1>20
    <3>. QED BY <3>1, <1>5
  <2>2. CASE s >= a /\ s < np
    <3>1. s - a + 1 \in 1 .. b /\ a + (s - a + 1) - 1 = s /\ ~(s >= nf) /\ ~(s < a)
      BY <2>2, <1>3, SMTT(30)
    <3>. QED BY <3>1, <1>5
  <2>3. CASE s >= nf /\ s < nf + k
    <3>1. s - nf + 1 \in 1 .. k /\ nf + (s - nf + 1) - 1 = s /\ ~(s < a) /\ ~(s < np)
      BY <2>3, <1>20
    <3>. QED BY <3>1, <1>5
  <2>. QED BY <2>1, <2>2, <2>3
<1>7. \A s \in 0 .. n - 1 :
        /\ Ordinary(t, s) <=> s < a \/ (s >= a /\ s < np) \/ (s >= nf /\ s < nf + k)
        /\ Addressable(t, s) <=> (s >= a /\ s < np) \/ (s >= nf /\ s < nf + k)
  <2>. SUFFICES ASSUME NEW s \in 0 .. n - 1
                PROVE /\ Ordinary(t, s) <=> s < a \/ (s >= a /\ s < np) \/ (s >= nf /\ s < nf + k)
                      /\ Addressable(t, s) <=> (s >= a /\ s < np) \/ (s >= nf /\ s < nf + k)
    OBVIOUS
  <2>1. /\ Ordinary(t, s) <=> ~(d.varargs /\ s = np) /\ ~(d.kwargs /\ s = n - 1)
        /\ Addressable(t, s) <=> ~(d.varargs /\ s = np) /\ ~(d.kwargs /\ s = n - 1) /\ s >= a
    BY <1>2 DEF Addressable, Ordinary, IsVarargs, IsKwargs
  <2>2. (~(d.varargs /\ s = np) /\ ~(d.kwargs /\ s = n - 1))
          <=> (s < a \/ (s >= a /\ s < np) \/ (s >= nf /\ s < nf + k))
    BY <1>3
  <2>3. (s >= nf => s >= a) /\ (s < a <=> ~(s >= a))
    BY <1>3
  <2>. QED BY <2>1, <2>2, <2>3
<1>8. /\ Names(d.posonly) = {t.name[s] : s \in {u \in 0 .. n - 1 : u < a}}
      /\ Names(d.poskw) = {t.name[s] : s \in {u \in 0 .. n - 1 : u >= a /\ u < np}}
      /\ Names(d.kwonly) = {t.name[s] : s \in {u \in 0 .. n - 1 : u >= nf /\ u < nf + k}}
  <2>1. /\ Names(d.posonly) = {d.posonly[i] : i \in 1 .. a}
        /\ Names(d.poskw) = {d.poskw[i] : i \in 1 .. b}
        /\ Names(d.kwonly) = {d.kwonly[i] : i \in 1 .. k}
    BY <1>3 DEF Names
  <2>2. {d.posonly[i] : i \in 1 .. a} = {t.name[s] : s \in {u \in 0 .. n - 1 : u < a}}
    <3>1. ASSUME NEW i \in 1 .. a PROVE d.posonly[i] \in {t.name[s] : s \in {u \in 0 .. n - 1 : u < a}}
      BY <1>5
    <3>2. ASSUME NEW s \in {u \in 0 .. n - 1 : u < a} PROVE t.name[s] \in {d.posonly[i] : i \in 1 .. a}
      BY <1>6
    <3>. QED BY <3>1, <3>2
  <2>3. {d.poskw[i] : i \in 1 .. b} = {t.name[s] : s \in {u \in 0 .. n - 1 : u >= a /\ u < np}}
    <3>1. ASSUME NEW i \in 1 .. b PROVE d.poskw[i] \in {t.name[s] : s \in {u \in 0 .. n - 1 : u >= a /\ u < np}}
      BY <1>5
    <3>2. ASSUME NEW s \in {u \in 0 .. n - 1 : u >= a /\ u < np} PROVE t.name[s] \in {d.poskw[i] : i \in 1 .. b}
      BY <1>6
    <3>. QED BY <3>1, <3>2
  <2>4. {d.kwonly[i] : i \in 1 .. k} = {t.name[s] : s \in {u \in 0 .. n - 1 : u >= nf /\ u < nf + k}}
    <3>1. ASSUME NEW i \in 1 .. k PROVE d.kwonly[i] \in {t.name[s] : s \in {u \in 0 .. n - 1 : u >= nf /\ u < nf + k}}
      BY <1>5
    <3>2. ASSUME NEW s \in {u \in 0 .. n - 1 : u >= nf /\ u < nf + k} PROVE t.name[s] \in {d.kwonly[i] : i \in 1 .. k}
      BY <1>6
    <3>. QED BY <3>1, <3>2
  <2>. QED BY <2>1, <2>2, <2>3, <2>4
<1>9. PICK S : /\ "*" \notin S /\ "**" \notin S
               /\ d.posonly \in Seq(S) /\ d.poskw \in Seq(S) /\ d.kwonly \in Seq(S)
  BY GroupsAreSequences
<1>11. by \in Seq(S) /\ by = d.posonly \o d.poskw
  BY <1>9 DEF ByPosition
<1>12. /\ Names(d.poskw \o d.kwonly) = Names(d.poskw) \cup Names(d.kwonly)
       /\ Names(by \o d.kwonly) = Names(d.posonly) \cup Names(d.poskw) \cup Names(d.kwonly)
  <2>1. Names(d.poskw \o d.kwonly) = Names(d.poskw) \cup Names(d.kwonly)
    BY <1>9, NamesJoined
  <2>2. Names(by \o d.kwonly) = Names(by) \cup Names(d.kwonly)
    <3>1. by \in Seq(S) /\ d.kwonly \in Seq(S)
      BY <1>9, <1>11
    <3>. QED BY <3>1, NamesJoined
  <2>3. Names(d.posonly \o d.poskw) = Names(d.posonly) \cup Names(d.poskw)
    BY <1>9, NamesJoined
  <2>4. Names(by) = Names(d.posonly) \cup Names(d.poskw)
    BY <2>3, <1>11
  <2>. QED BY <2>1, <2>2, <2>4
<1>13. Names(d.poskw \o d.kwonly) = {t.name[s] : s \in {u \in Slots(t) : Addressable(t, u)}}
  <2>1. {u \in Slots(t) : Addressable(t, u)}
          = {u \in 0 .. n - 1 : u >= a /\ u < np} \cup {u \in 0 .. n - 1 : u >= nf /\ u < nf + k}
    BY <1>4, <1>7
  <2>. QED BY <2>1, <1>8, <1>12
<1>14. Names(by \o d.kwonly) = {t.name[s] : s \in {u \in Slots(t) : Ordinary(t, u)}}
  <2>1. {u \in Slots(t) : Ordinary(t, u)}
          = {u \in 0 .. n - 1 : u < a} \cup {u \in 0 .. n - 1 : u >= a /\ u < np}
              \cup {u \in 0 .. n - 1 : u >= nf /\ u < nf + k}
    BY <1>4, <1>7
  <2>. QED BY <2>1, <1>8, <1>12
<1>15. by \in Seq(Names(by)) /\ Len(by) = np /\ DOMAIN by = 1 .. np
  <2>1. DOMAIN by = 1 .. np /\ np \in Nat
    BY <1>3, <1>20
  <2>4. DOMAIN by = 1 .. Len(by) /\ Len(by) \in Nat
    BY <1>11, LenProperties
  <2>2. Len(by) = np
    BY <2>1, <2>4
  <2>3. by \in [1 .. np -> Names(by)]
    <3>1. by = [i \in 1 .. np |-> by[i]]
      BY <2>2, <1>11, LenProperties
    <3>2. \A i \in 1 .. np : by[i] \in Names(by)
      BY <2>1 DEF Names
    <3>. QED BY <3>1, <3>2
  <2>. QED BY <2>1, <2>2, <2>3, SeqDef
<1>16. \A s \in 0 .. np - 1 : s \in Slots(t) /\ s + 1 \in 1 .. np /\ by[s + 1] = t.name[s]
  <2>. SUFFICES ASSUME NEW s \in 0 .. np - 1
                PROVE s \in Slots(t) /\ s + 1 \in 1 .. np /\ by[s + 1] = t.name[s]
    OBVIOUS
  <2>1. s + 1 \in 1 .. np /\ (s + 1) - 1 = s /\ s \in 0 .. n - 1
    BY <1>3
  <2>2. NameAt(d, (s + 1) - 1) = by[s + 1]
    BY <2>1, <1>1, OrderLayout
  <2>. QED BY <2>1, <2>2, <1>4
<1>17. \A s \in Slots(t) : /\ IsVarargs(t, s) => t.name[s] = "*"
                           /\ IsKwargs(t, s) => t.name[s] = "**"
  <2>1. (d.varargs => NameAt(d, np) = "*") /\ (d.kwargs => NameAt(d, n - 1) = "**")
    BY <1>1, OrderLayout
  <2>. QED BY <2>1, <1>2, <1>4 DEF IsVarargs, IsKwargs
<1>18. \A s \in Slots(t) : Ordinary(t, s) => t.name[s] \notin {"*", "**"}
  <2>. SUFFICES ASSUME NEW s \in Slots(t), Ordinary(t, s) PROVE t.name[s] \in S
    BY <1>9
  <2>1. s \in 0 .. n - 1 /\ (s < a \/ (s >= a /\ s < np) \/ (s >= nf /\ s < nf + k))
    BY <1>4, <1>7
  <2>2. /\ \A i \in 1 .. a : d.posonly[i] \in S
        /\ \A i \in 1 .. b : d.poskw[i] \in S
        /\ \A i \in 1 .. k : d.kwonly[i] \in S
    BY <1>1, <1>9, ElementOfSeq
  <2>. QED BY <2>1, <2>2, <1>6
<1>19. \A i \in 1 .. n : i - 1 \in Slots(t) /\ RuntimeOrder(d)[i] = t.name[i - 1]
  <2>. SUFFICES ASSUME NEW i \in 1 .. n
                PROVE i - 1 \in Slots(t) /\ RuntimeOrder(d)[i] = t.name[i - 1]
    OBVIOUS
  <2>1. i - 1 \in 0 .. n - 1 /\ (i - 1) + 1 = i
    BY <1>3
  <2>. QED BY <2>1, <1>4 DEF NameAt
<1>. QED
  BY <1>2, <1>3, <1>4, <1>8, <1>13, <1>14, <1>15, <1>16, <1>17, <1>18, <1>19 DEF NamesLie

\* The first n arguments fill the positional parameters; a keyword argument
\* addresses a parameter that is not positional-only.
Filled(t, n, slot) == slot < n /\ slot < t.nPositional
Named(t, names, slot) == Addressable(t, slot) /\ t.name[slot] \in Names(names)
Addressed(t, name) == \E slot \in Slots(t) : Addressable(t, slot) /\ t.name[slot] = name

RefusedAt(t, n, names) ==
  \/ n > t.nPositional /\ ~t.varargs
  \/ \E slot \in Slots(t) : Filled(t, n, slot) /\ Named(t, names, slot)
  \/ ~t.kwargs /\ \E name \in Names(names) : ~Addressed(t, name)
  \/ \E slot \in Slots(t) : /\ Ordinary(t, slot) /\ ~Filled(t, n, slot)
                            /\ ~Named(t, names, slot) /\ slot \notin DefaultSlots(t)

ReceivedAt(t, positional, names, slot) ==
  IF IsVarargs(t, slot)
    THEN <<"tuple", SubSeq(positional, t.nPositional + 1, Len(positional))>>
  ELSE IF IsKwargs(t, slot)
    THEN <<"dict", Selected(names, {i \in DOMAIN names : ~Addressed(t, names[i])})>>
  ELSE IF Filled(t, Len(positional), slot) THEN positional[slot + 1]
  ELSE IF Named(t, names, slot) THEN <<"keyword", t.name[slot]>>
  ELSE <<"default", t.name[slot]>>

LEMMA RefusalBySlots ==
  ASSUME NEW d, WellFormed(d), NEW V, NEW positional \in Seq(V), NEW names
  PROVE  Refused(d, positional, names) <=> RefusedAt(Table(d), Len(positional), names)
<1>1. PICK t, n, by, np : t = Table(d) /\ n = Len(positional) /\ by = ByPosition(d) /\ np = t.nPositional
  OBVIOUS
<1>2. n \in Nat /\ np \in Nat /\ IsTable(t) /\ t.varargs = d.varargs /\ t.kwargs = d.kwargs
      /\ t.defaults = d.defaults
  <2>1. n \in Nat
    BY <1>1, LenProperties
  <2>2. IsTable(t)
    BY <1>1, TableOf
  <2>. QED BY <1>1, <2>1, <2>2 DEF IsTable, Table
<1>3. /\ Names(d.poskw \o d.kwonly) = {t.name[s] : s \in {u \in Slots(t) : Addressable(t, u)}}
      /\ Names(by \o d.kwonly) = {t.name[s] : s \in {u \in Slots(t) : Ordinary(t, u)}}
      /\ by \in Seq(Names(by)) /\ Len(by) = np /\ DOMAIN by = 1 .. np
      /\ \A s \in 0 .. np - 1 : s \in Slots(t) /\ s + 1 \in 1 .. np /\ by[s + 1] = t.name[s]
  <2>1. NamesLie(d, t, by, np)
    BY <1>1, NamesBySlots
  <2>. QED BY <2>1 DEF NamesLie
<1>4. \A s, u \in Slots(t) : t.name[s] = t.name[u] => s = u
  BY <1>2 DEF IsTable
<1>5. PICK given : given = Lesser(n, np)
  OBVIOUS
<1>6. given \in 0 .. np /\ \A s \in Slots(t) : s < given <=> Filled(t, n, s)
  <2>1. given = IF n < np THEN n ELSE np
    BY <1>5 DEF Lesser
  <2>2. given \in 0 .. np /\ \A s \in Nat : s < given <=> s < n /\ s < np
    BY <2>1, <1>2
  <2>3. \A s \in Slots(t) : s \in Nat
    BY <1>2 DEF Slots, IsTable
  <2>. QED BY <2>2, <2>3, <1>1 DEF Filled
<1>7. PICK filled : filled = Names(SubSeq(by, 1, given))
  OBVIOUS
<1>8. filled = {t.name[s] : s \in {u \in Slots(t) : Filled(t, n, u)}}
  <2>1. PICK sub : sub = SubSeq(by, 1, given)
    OBVIOUS
  <2>2. \A i \in 1 .. given : by[i] \in Names(by)
    BY <1>3, <1>6 DEF Names
  <2>3. sub \in Seq(Names(by)) /\ Len(sub) = given /\ \A i \in 1 .. given : sub[i] = by[i]
    <3>1. /\ sub \in Seq(Names(by)) /\ Len(sub) = (IF 1 <= given THEN given - 1 + 1 ELSE 0)
          /\ \A i \in 1 .. given - 1 + 1 : sub[i] = by[1 + i - 1]
      BY <2>1, <2>2, <1>6, SubSeqProperties
    <3>2. given - 1 + 1 = given /\ (\A i \in 1 .. given : 1 + i - 1 = i) /\ (~(1 <= given) => given = 0)
      BY <1>2, <1>6
    <3>. QED BY <3>1, <3>2
  <2>4. filled = {sub[i] : i \in 1 .. given}
    <3>1. DOMAIN sub = 1 .. given
      BY <2>3, LenProperties
    <3>. QED BY <3>1, <2>1, <1>7 DEF Names
  <2>5. ASSUME NEW i \in 1 .. given
        PROVE  sub[i] \in {t.name[s] : s \in {u \in Slots(t) : Filled(t, n, u)}}
    <3>1. i - 1 \in 0 .. np - 1 /\ (i - 1) + 1 = i /\ i - 1 < given
      BY <1>2, <1>6
    <3>. QED BY <3>1, <2>3, <1>3, <1>6
  <2>6. ASSUME NEW s \in Slots(t), Filled(t, n, s) PROVE t.name[s] \in {sub[i] : i \in 1 .. given}
    <3>1. s \in Nat /\ s < given
      BY <2>6, <1>2, <1>6 DEF Slots, IsTable
    <3>2. s \in 0 .. np - 1 /\ s + 1 \in 1 .. given
      BY <3>1, <1>2, <1>6
    <3>. QED BY <3>2, <2>3, <1>3
  <2>. QED BY <2>4, <2>5, <2>6
<1>9. PICK keys, all, N : /\ keys = Names(d.poskw \o d.kwonly) /\ all = Names(by \o d.kwonly)
                          /\ N = Names(names)
  OBVIOUS
<1>10. Refused(d, positional, names) <=>
         \/ n > np /\ ~d.varargs
         \/ (N \cap keys) \cap filled # {}
         \/ N # N \cap keys /\ ~d.kwargs
         \/ ~(all \subseteq (filled \cup (N \cap keys) \cup d.defaults))
  <2>1. Len(d.posonly \o d.poskw) = np /\ d.posonly \o d.poskw = by
    BY <1>1, <1>3 DEF ByPosition
  <2>. QED BY <2>1, <1>1, <1>5, <1>7, <1>9 DEF Refused
<1>11. (N \cap keys) \cap filled # {} <=> \E s \in Slots(t) : Filled(t, n, s) /\ Named(t, names, s)
  <2>1. ASSUME NEW s \in Slots(t), Filled(t, n, s), Named(t, names, s)
        PROVE  t.name[s] \in (N \cap keys) \cap filled
    BY <2>1, <1>3, <1>8, <1>9 DEF Named
  <2>2. ASSUME NEW x \in (N \cap keys) \cap filled
        PROVE  \E s \in Slots(t) : Filled(t, n, s) /\ Named(t, names, s)
    <3>1. PICK s \in Slots(t) : Filled(t, n, s) /\ x = t.name[s]
      BY <1>8
    <3>2. PICK u \in Slots(t) : Addressable(t, u) /\ x = t.name[u]
      BY <1>3, <1>9
    <3>3. s = u
      BY <3>1, <3>2, <1>4
    <3>. QED BY <3>1, <3>2, <3>3, <1>9 DEF Named
  <2>. QED BY <2>1, <2>2
<1>12. N # N \cap keys <=> \E name \in Names(names) : ~Addressed(t, name)
  <2>1. \A name : name \in keys <=> Addressed(t, name)
    BY <1>3, <1>9 DEF Addressed
  <2>. QED BY <2>1, <1>9
<1>13. ~(all \subseteq (filled \cup (N \cap keys) \cup d.defaults)) <=>
         \E s \in Slots(t) : /\ Ordinary(t, s) /\ ~Filled(t, n, s)
                             /\ ~Named(t, names, s) /\ s \notin DefaultSlots(t)
  <2>1. ASSUME NEW s \in Slots(t)
        PROVE  /\ t.name[s] \in filled <=> Filled(t, n, s)
               /\ t.name[s] \in N \cap keys <=> Named(t, names, s)
               /\ t.name[s] \in d.defaults <=> s \in DefaultSlots(t)
    <3>1. t.name[s] \in filled <=> Filled(t, n, s)
      BY <1>4, <1>8
    <3>2. t.name[s] \in keys <=> Addressable(t, s)
      BY <1>3, <1>4, <1>9
    <3>. QED BY <3>1, <3>2, <1>2, <1>9 DEF Named, DefaultSlots
  <2>2. all = {t.name[s] : s \in {u \in Slots(t) : Ordinary(t, u)}}
    BY <1>3, <1>9
  <2>. QED BY <2>1, <2>2
<1>. QED BY <1>1, <1>2, <1>10, <1>11, <1>12, <1>13 DEF RefusedAt

LEMMA ReceptionBySlots ==
  ASSUME NEW d, WellFormed(d), NEW V, NEW positional \in Seq(V), NEW names,
         NEW slot \in Slots(Table(d))
  PROVE  Bound(d, positional, names, Table(d).name[slot])
           = ReceivedAt(Table(d), positional, names, slot)
<1>1. PICK t, n, by, np, name : /\ t = Table(d) /\ n = Len(positional) /\ by = ByPosition(d)
                                /\ np = t.nPositional /\ name = t.name[slot]
  OBVIOUS
<1>2. /\ IsTable(t) /\ n \in Nat /\ np \in Nat /\ slot \in Slots(t) /\ slot \in Nat
  <2>1. n \in Nat
    BY <1>1, LenProperties
  <2>2. IsTable(t) /\ slot \in Slots(t)
    BY <1>1, TableOf
  <2>3. slot \in Nat
    BY <2>2 DEF Slots, IsTable
  <2>. QED BY <1>1, <2>1, <2>2, <2>3 DEF IsTable
<1>3. /\ Names(d.posonly) = {t.name[s] : s \in {u \in Slots(t) : u < t.nPosonly}}
      /\ Names(d.poskw \o d.kwonly) = {t.name[s] : s \in {u \in Slots(t) : Addressable(t, u)}}
      /\ Len(by) = np /\ DOMAIN by = 1 .. np
      /\ \A s \in 0 .. np - 1 : s \in Slots(t) /\ s + 1 \in 1 .. np /\ by[s + 1] = t.name[s]
      /\ IsVarargs(t, slot) => name = "*"
      /\ IsKwargs(t, slot) => name = "**"
      /\ Ordinary(t, slot) => name \notin {"*", "**"}
  <2>1. /\ Names(d.posonly) = {t.name[s] : s \in {u \in Slots(t) : u < t.nPosonly}}
        /\ Names(d.poskw \o d.kwonly) = {t.name[s] : s \in {u \in Slots(t) : Addressable(t, u)}}
        /\ Len(by) = np /\ DOMAIN by = 1 .. np
        /\ \A s \in 0 .. np - 1 : s \in Slots(t) /\ s + 1 \in 1 .. np /\ by[s + 1] = t.name[s]
        /\ \A s \in Slots(t) : /\ IsVarargs(t, s) => t.name[s] = "*"
                               /\ IsKwargs(t, s) => t.name[s] = "**"
                               /\ Ordinary(t, s) => t.name[s] \notin {"*", "**"}
    <3>1. NamesLie(d, t, by, np)
      BY <1>1, NamesBySlots
    <3>. QED BY <3>1 DEF NamesLie
  <2>2. slot \in Slots(t) /\ name = t.name[slot]
    BY <1>1, <1>2
  <2>. QED BY <2>1, <2>2
<1>4. \A s, u \in Slots(t) : t.name[s] = t.name[u] => s = u
  BY <1>2 DEF IsTable
<1>5. PICK place : place = {i \in DOMAIN by : by[i] = name}
  OBVIOUS
<1>6. PICK rest : rest = {i \in DOMAIN names : names[i] \notin Names(d.poskw \o d.kwonly)}
  OBVIOUS
<1>7. Bound(d, positional, names, name) =
        CASE name = "*" -> <<"tuple", SubSeq(positional, np + 1, n)>>
          [] name = "**" -> <<"dict", Selected(names, rest)>>
          [] name \notin {"*", "**"} ->
               IF \E i \in place : i <= n THEN positional[CHOOSE i \in place : TRUE]
               ELSE IF name \in Names(names) \ Names(d.posonly) THEN <<"keyword", name>>
               ELSE <<"default", name>>
  <2>. DEFINE where == {i \in DOMAIN (d.posonly \o d.poskw) : (d.posonly \o d.poskw)[i] = name}
              others == {i \in DOMAIN names : names[i] \notin Names(d.poskw \o d.kwonly)}
  <2>1. d.posonly \o d.poskw = by /\ Len(d.posonly \o d.poskw) = np
    BY <1>1, <1>3 DEF ByPosition
  <2>2. where = place /\ others = rest
    BY <2>1, <1>5, <1>6
  <2>3. Bound(d, positional, names, name) =
        CASE name = "*" -> <<"tuple", SubSeq(positional, Len(d.posonly \o d.poskw) + 1, Len(positional))>>
          [] name = "**" -> <<"dict", Selected(names, others)>>
          [] name \notin {"*", "**"} ->
               IF \E i \in where : i <= Len(positional) THEN positional[CHOOSE i \in where : TRUE]
               ELSE IF name \in Names(names) \ Names(d.posonly) THEN <<"keyword", name>>
               ELSE <<"default", name>>
    BY Zenon DEF Bound
  <2>. HIDE DEF where, others
  <2>. QED BY <2>1, <2>2, <2>3, <1>1
<1>8. CASE IsVarargs(t, slot)
  BY <1>1, <1>3, <1>7, <1>8 DEF ReceivedAt
<1>9. CASE IsKwargs(t, slot) /\ ~IsVarargs(t, slot)
  <2>1. name = "**" /\ name # "*"
    BY <1>3, <1>9
  <2>2. \A x : x \in Names(d.poskw \o d.kwonly) <=> Addressed(t, x)
    BY <1>3 DEF Addressed
  <2>3. rest = {i \in DOMAIN names : ~Addressed(t, names[i])}
    BY <2>2, <1>6
  <2>. QED BY <2>1, <2>3, <1>1, <1>7, <1>9 DEF ReceivedAt
<1>10. CASE Ordinary(t, slot)
  <2>1. ~IsVarargs(t, slot) /\ ~IsKwargs(t, slot) /\ name \notin {"*", "**"}
    BY <1>3, <1>10 DEF Ordinary
  <2>2. place = IF slot < np THEN {slot + 1} ELSE {}
    <3>1. ASSUME NEW i \in place PROVE slot < np /\ i = slot + 1
      <4>1. i \in 1 .. np /\ by[i] = name /\ i - 1 \in 0 .. np - 1 /\ (i - 1) + 1 = i
        BY <1>2, <1>3, <1>5
      <4>2. i - 1 = slot
        BY <4>1, <1>1, <1>2, <1>3, <1>4
      <4>. QED BY <4>1, <4>2, <1>2
    <3>2. ASSUME slot < np PROVE slot + 1 \in place
      <4>1. slot \in 0 .. np - 1
        BY <3>2, <1>2
      <4>. QED BY <4>1, <1>1, <1>3, <1>5
    <3>. QED BY <3>1, <3>2
  <2>3. name \in Names(names) \ Names(d.posonly) <=> Named(t, names, slot)
    <3>1. name \in Names(d.posonly) <=> slot < t.nPosonly
      BY <1>1, <1>2, <1>3, <1>4
    <3>2. slot < t.nPosonly <=> ~(slot >= t.nPosonly)
      BY <1>2 DEF IsTable
    <3>. QED BY <3>1, <3>2, <1>1, <1>10 DEF Named, Addressable
  <2>4. Bound(d, positional, names, name) =
          IF \E i \in place : i <= n THEN positional[CHOOSE i \in place : TRUE]
          ELSE IF Named(t, names, slot) THEN <<"keyword", name>>
          ELSE <<"default", name>>
    BY <2>1, <2>3, <1>7
  <2>5. CASE Filled(t, n, slot)
    <3>1. slot < np /\ slot + 1 <= n /\ place = {slot + 1}
      BY <2>2, <2>5, <1>1, <1>2 DEF Filled
    <3>2. (\E i \in place : i <= n) /\ (CHOOSE i \in place : TRUE) = slot + 1
      BY <3>1
    <3>. QED BY <3>2, <2>1, <2>4, <2>5, <1>1 DEF ReceivedAt
  <2>6. CASE ~Filled(t, n, slot)
    <3>1. ~\E i \in place : i <= n
      BY <2>2, <2>6, <1>1, <1>2 DEF Filled
    <3>. QED BY <3>1, <2>1, <2>4, <2>6, <1>1 DEF ReceivedAt
  <2>. QED BY <2>5, <2>6
<1>. QED BY <1>8, <1>9, <1>10 DEF Ordinary

LEMMA RestOf ==
  ASSUME NEW V, NEW s \in Seq(V), NEW low \in Nat, low > 0, NEW n, n = Len(s),
         NEW x, x = SubSeq(s, low, n)
  PROVE  /\ x \in Seq(V) /\ Len(x) = (IF low <= n THEN n - low + 1 ELSE 0)
         /\ \A i \in 1 .. n - low + 1 : x[i] = s[low + i - 1]
<1>1. n \in Nat
  BY LenProperties
<1>2. \A i \in low .. n : i \in 1 .. Len(s)
  BY <1>1
<1>3. \A i \in low .. n : s[i] \in V
  BY <1>2, ElementOfSeq
<1>. QED BY <1>1, <1>3, SubSeqProperties, SMTT(30)

Ahead(x, s) == <<x>> \o s

(* Giving the first parameter the instance, and binding the arguments to   *)
(* the others, is binding the instance and the arguments to all.           *)
LEMMA InstanceBindsFirst ==
  ASSUME NEW t, IsTable(t), t.nPositional > 0,
         NEW V, NEW positional \in Seq(V), NEW self \in V, NEW names,
         ~(t.kwargs /\ Named(t, names, 0)),
         NEW all, all = Ahead(self, positional), NEW n, n = Len(positional), NEW m, m = Len(all)
  PROVE  /\ RefusedAt(t, m, names) <=> RefusedAt(DropFirst(t), n, names)
         /\ ReceivedAt(t, all, names, 0) = self
         /\ \A s \in Slots(DropFirst(t)) :
              ReceivedAt(t, all, names, s + 1) = ReceivedAt(DropFirst(t), positional, names, s)
<1>1. PICK u, np : u = DropFirst(t) /\ np = t.nPositional
  OBVIOUS
<1>2. /\ n \in Nat /\ m = n + 1 /\ all \in Seq(V)
      /\ all[1] = self /\ \A i \in 1 .. n : all[i + 1] = positional[i]
  <2>1. n \in Nat
    BY LenProperties
  <2>2. PICK one : one = <<self>>
    OBVIOUS
  <2>3. one \in Seq(V) /\ Len(one) = 1 /\ one[1] = self /\ all = one \o positional
    BY <2>2 DEF Ahead
  <2>4. PICK k : k = 1
    OBVIOUS
  <2>5. /\ all \in Seq(V) /\ Len(all) = k + n
        /\ \A i \in 1 .. k : all[i] = one[i]
        /\ \A i \in 1 .. n : all[k + i] = positional[i]
    <3>1. one \in Seq(V) /\ k = Len(one) /\ all = one \o positional
      BY <2>3, <2>4
    <3>. QED BY <3>1, Joined
  <2>6. k \in 1 .. k /\ \A i \in 1 .. n : k + i = i + 1
    BY <2>1, <2>4
  <2>. QED BY <2>1, <2>3, <2>4, <2>5, <2>6
<1>3. /\ np \in Nat /\ np > 0 /\ u.nPositional = np - 1 /\ u.varargs = t.varargs /\ u.kwargs = t.kwargs
      /\ t.varargs \in BOOLEAN /\ t.kwargs \in BOOLEAN
      /\ t.nParameters \in Nat /\ u.nParameters = t.nParameters - 1
  BY <1>1 DEF IsTable, DropFirst
<1>4. /\ Slots(t) = {0} \cup {s + 1 : s \in Slots(u)}
      /\ 0 \in Slots(t) /\ Ordinary(t, 0)
      /\ \A s \in Slots(u) : /\ s + 1 \in Slots(t) /\ u.name[s] = t.name[s + 1]
                             /\ Ordinary(u, s) <=> Ordinary(t, s + 1)
                             /\ Addressable(u, s) <=> Addressable(t, s + 1)
                             /\ s \in DefaultSlots(u) <=> s + 1 \in DefaultSlots(t)
  BY <1>1, TableWithoutFirst
<1>5. \A s \in Slots(u) : s \in Nat
  BY <1>3 DEF Slots
<1>6. Filled(t, m, 0) /\ \A s \in Slots(u) : /\ Filled(t, m, s + 1) <=> Filled(u, n, s)
                                             /\ Named(t, names, s + 1) <=> Named(u, names, s)
  <2>1. Filled(t, m, 0)
    BY <1>1, <1>2, <1>3 DEF Filled
  <2>2. ASSUME NEW s \in Slots(u)
        PROVE  /\ Filled(t, m, s + 1) <=> Filled(u, n, s)
               /\ Named(t, names, s + 1) <=> Named(u, names, s)
    <3>1. (s + 1 < n + 1 <=> s < n) /\ (s + 1 < np <=> s < np - 1)
      BY <1>2, <1>3, <1>5
    <3>. QED BY <3>1, <1>1, <1>2, <1>3, <1>4 DEF Filled, Named
  <2>. QED BY <2>1, <2>2
<1>7. \A name : Addressed(t, name) <=> Addressed(u, name) \/ (Addressable(t, 0) /\ t.name[0] = name)
  <2>. SUFFICES ASSUME NEW name
                PROVE Addressed(t, name) <=> Addressed(u, name) \/ (Addressable(t, 0) /\ t.name[0] = name)
    OBVIOUS
  <2>. QED BY <1>4 DEF Addressed
<1>8. Addressable(t, 0) => ~Addressed(u, t.name[0])
  <2>. SUFFICES ASSUME Addressable(t, 0), Addressed(u, t.name[0]) PROVE FALSE
    OBVIOUS
  <2>1. PICK s \in Slots(u) : u.name[s] = t.name[0]
    BY DEF Addressed
  <2>2. s + 1 = 0
    BY <2>1, <1>4 DEF IsTable
  <2>. QED BY <2>2, <1>5
<1>9. RefusedAt(t, m, names) <=> RefusedAt(u, n, names)
  <2>1. (m > np /\ ~t.varargs) <=> (n > u.nPositional /\ ~u.varargs)
    BY <1>2, <1>3
  <2>2. (\E slot \in Slots(t) : Filled(t, m, slot) /\ Named(t, names, slot))
          <=> Named(t, names, 0) \/ \E s \in Slots(u) : Filled(u, n, s) /\ Named(u, names, s)
    BY <1>4, <1>6
  <2>3. (\E slot \in Slots(t) : /\ Ordinary(t, slot) /\ ~Filled(t, m, slot)
                                /\ ~Named(t, names, slot) /\ slot \notin DefaultSlots(t))
          <=> \E s \in Slots(u) : /\ Ordinary(u, s) /\ ~Filled(u, n, s)
                                  /\ ~Named(u, names, s) /\ s \notin DefaultSlots(u)
    BY <1>4, <1>6
  <2>4. CASE Named(t, names, 0)
    <3>1. ~t.kwargs /\ t.name[0] \in Names(names) /\ ~Addressed(u, t.name[0])
      BY <2>4, <1>8 DEF Named
    <3>2. RefusedAt(u, n, names)
      BY <3>1, <1>3 DEF RefusedAt
    <3>3. RefusedAt(t, m, names)
      BY <2>4, <1>4, <1>6 DEF RefusedAt
    <3>. QED BY <3>2, <3>3
  <2>5. CASE ~Named(t, names, 0)
    <3>1. \A name \in Names(names) : Addressed(t, name) <=> Addressed(u, name)
      BY <2>5, <1>7 DEF Named
    <3>. QED BY <3>1, <2>1, <2>2, <2>3, <2>5, <1>1, <1>3 DEF RefusedAt
  <2>. QED BY <2>4, <2>5
<1>10. ReceivedAt(t, all, names, 0) = self
  <2>1. ~IsVarargs(t, 0) /\ ~IsKwargs(t, 0)
    BY <1>4 DEF Ordinary
  <2>2. Filled(t, Len(all), 0) /\ all[0 + 1] = self
    BY <1>2, <1>6
  <2>. QED BY <2>1, <2>2 DEF ReceivedAt
<1>11. ASSUME NEW s \in Slots(u)
       PROVE  ReceivedAt(t, all, names, s + 1) = ReceivedAt(u, positional, names, s)
  <2>1. /\ IsVarargs(t, s + 1) <=> IsVarargs(u, s)
        /\ IsKwargs(t, s + 1) <=> IsKwargs(u, s)
    <3>1. (s + 1 = np <=> s = np - 1) /\ (s + 1 = t.nParameters - 1 <=> s = (t.nParameters - 1) - 1)
      <4>1. s \in Nat
        BY <1>5
      <4>2. PICK k : k = t.nParameters
        OBVIOUS
      <4>3. k \in Nat
        BY <4>2, <1>3
      <4>4. (s + 1 = np <=> s = np - 1) /\ (s + 1 = k - 1 <=> s = (k - 1) - 1)
        BY <4>1, <4>3, <1>3
      <4>. QED BY <4>2, <4>4
    <3>. QED BY <3>1, <1>1, <1>3 DEF IsVarargs, IsKwargs
  <2>2. CASE IsVarargs(u, s)
    <3>1. SubSeq(all, np + 1, m) = SubSeq(positional, (np - 1) + 1, n)
      <4>1. PICK x, y : x = SubSeq(all, np + 1, m) /\ y = SubSeq(positional, np, n)
        OBVIOUS
      <4>8. PICK low : low = np + 1
        OBVIOUS
      <4>2. /\ x \in Seq(V) /\ Len(x) = (IF low <= m THEN m - low + 1 ELSE 0)
            /\ \A i \in 1 .. m - low + 1 : x[i] = all[low + i - 1]
        <5>1. low \in Nat /\ low > 0
          BY <4>8, <1>3
        <5>2. all \in Seq(V) /\ m = Len(all) /\ x = SubSeq(all, low, m)
          BY <4>1, <4>8, <1>2
        <5>. QED BY <5>1, <5>2, RestOf
      <4>3. /\ y \in Seq(V) /\ Len(y) = (IF np <= n THEN n - np + 1 ELSE 0)
            /\ \A i \in 1 .. n - np + 1 : y[i] = positional[np + i - 1]
        BY <4>1, <1>2, <1>3, RestOf
      <4>4. Len(x) = Len(y) /\ Len(x) \in Nat
        BY <4>2, <4>3, <4>8, <1>2, <1>3, SMTT(30)
      <4>5. ASSUME NEW i \in 1 .. Len(x) PROVE x[i] = y[i]
        <5>1. PICK l : l = Len(x)
          OBVIOUS
        <5>2. i \in 1 .. l /\ l = (IF np <= n THEN n - np + 1 ELSE 0)
          BY <5>1, <4>3, <4>4
        <5>3. /\ i \in 1 .. m - low + 1 /\ i \in 1 .. n - np + 1
              /\ low + i - 1 = (np + i - 1) + 1 /\ np + i - 1 \in 1 .. n
          BY <5>2, <4>8, <1>2, <1>3
        <5>. QED BY <5>3, <4>2, <4>3, <1>2
      <4>6. x = y
        BY <4>2, <4>3, <4>4, <4>5, SeqEqual
      <4>7. (np - 1) + 1 = np
        BY <1>3
      <4>. QED BY <4>1, <4>6, <4>7
    <3>. QED BY <3>1, <2>1, <2>2, <1>1, <1>3 DEF ReceivedAt
  <2>3. CASE IsKwargs(u, s) /\ ~IsVarargs(u, s)
    <3>1. ~Named(t, names, 0)
      BY <2>3, <1>3 DEF IsKwargs
    <3>2. \A i \in DOMAIN names : Addressed(t, names[i]) <=> Addressed(u, names[i])
      BY <3>1, <1>7 DEF Named, Names
    <3>3. {i \in DOMAIN names : ~Addressed(t, names[i])} = {i \in DOMAIN names : ~Addressed(u, names[i])}
      BY <3>2
    <3>. QED BY <3>3, <2>1, <2>3 DEF ReceivedAt
  <2>4. CASE ~IsKwargs(u, s) /\ ~IsVarargs(u, s)
    <3>1. Filled(t, Len(all), s + 1) <=> Filled(u, Len(positional), s)
      BY <1>6
    <3>2. Filled(u, Len(positional), s) => all[(s + 1) + 1] = positional[s + 1]
      <4>. SUFFICES ASSUME Filled(u, Len(positional), s) PROVE all[(s + 1) + 1] = positional[s + 1]
        OBVIOUS
      <4>1. s + 1 \in 1 .. n
        BY <1>2, <1>5 DEF Filled
      <4>. QED BY <4>1, <1>2
    <3>. QED BY <3>1, <3>2, <2>1, <2>4, <1>4, <1>6 DEF ReceivedAt
  <2>. QED BY <2>2, <2>3, <2>4
<1>. QED BY <1>1, <1>9, <1>10, <1>11

-----------------------------------------------------------------------------
(* What completing the window puts into the slots.                         *)

LEMMA KnownDefaults ==
  ASSUME NEW t, IsTable(t), NEW f, Describes(f, t), NEW slot \in Slots(t)
  PROVE  HasDefault(f.signature, slot) <=> slot \in DefaultSlots(t)
<1>1. PICK D, first, mask : D = DefaultSlots(t) /\ first = f.signature.firstDefault /\ mask = f.signature.mask
  OBVIOUS
<1>2. /\ first \in Nat /\ mask = {s - first : s \in D} /\ \A s \in D : s >= first
  BY <1>1 DEF Describes
<1>3. slot \in Nat /\ \A s \in D : s \in Nat
  BY <1>1 DEF DefaultSlots, Slots, IsTable
<1>4. HasDefault(f.signature, slot) <=> mask # {} /\ slot >= first /\ slot - first \in mask
  BY <1>1 DEF HasDefault
<1>5. ASSUME slot \in D PROVE mask # {} /\ slot >= first /\ slot - first \in mask
  BY <1>2, <1>5
<1>6. ASSUME slot >= first, slot - first \in mask PROVE slot \in D
  <2>1. PICK s \in D : slot - first = s - first
    BY <1>2, <1>6
  <2>2. s = slot
    BY <2>1, <1>2, <1>3
  <2>. QED BY <2>2
<1>. QED BY <1>1, <1>4, <1>5, <1>6

DefaultsFilled(frame, f, from) ==
  IF f.defaults = <<>> THEN frame ELSE FillDefaults(frame, f, from)

\* What is before the slot is kept, and every parameter from it on that has a
\* default gets it.
DefaultedFrom(t, frame, start, filled) ==
  /\ DOMAIN filled = DOMAIN frame
  /\ \A slot \in Nat \cap DOMAIN frame :
       /\ slot < start => filled[slot] = frame[slot]
       /\ slot >= start /\ slot \in DefaultSlots(t) => filled[slot] = <<"default", t.name[slot]>>

(* Filling in the defaults does that, and whether it starts behind the     *)
(* positional arguments or at the first default after them is the same.    *)
LEMMA DefaultsInPlace ==
  ASSUME NEW t, IsTable(t), NEW f, Describes(f, t), NEW frame, NEW start \in Nat, NEW from,
         from = start \/ from = Greater(start, f.signature.firstDefault)
  PROVE  DefaultedFrom(t, frame, start, DefaultsFilled(frame, f, from))
<1>0. PICK filled : filled = DefaultsFilled(frame, f, from)
  OBVIOUS
<1>1. PICK D, first, d : D = DefaultSlots(t) /\ first = f.signature.firstDefault /\ d = f.defaults
  OBVIOUS
<1>2. first \in Nat /\ \A s \in D : s >= first
  BY <1>1 DEF Describes
<1>3. PICK span \in Nat : /\ d = [i \in 1 .. span |-> d[i]]
                          /\ span = 0 <=> D = {}
                          /\ \A s \in D : s - first < span /\ d[s - first + 1] = <<"default", t.name[s]>>
  BY <1>1 DEF Describes, KnowsDefaults
<1>4. Len(d) = span /\ (d = <<>> <=> span = 0)
  BY <1>3, SequenceOf
<1>5. CASE d = <<>>
  <2>1. filled = frame /\ D = {}
    BY <1>0, <1>1, <1>3, <1>4, <1>5 DEF DefaultsFilled
  <2>. QED BY <2>1, <1>0, <1>1, <1>5 DEF DefaultedFrom
<1>6. CASE d # <<>>
  <2>1. filled = [slot \in DOMAIN frame |->
                    IF slot >= Greater(from, first) /\ slot < first + span THEN d[slot - first + 1]
                    ELSE frame[slot]]
    <3>1. Len(f.defaults) = span
      BY <1>1, <1>4
    <3>. QED BY <3>1, <1>0, <1>1, <1>6 DEF FillDefaults, DefaultsFilled
  <2>2. PICK low : low = Greater(from, first)
    OBVIOUS
  <2>3. low \in Nat /\ low >= start /\ low >= first /\ (low = start \/ low = first)
    <3>1. low = (IF start > first THEN start ELSE first)
      <4>1. CASE from = start
        BY <2>2, <4>1 DEF Greater
      <4>2. CASE from = Greater(start, first)
        BY <2>2, <4>2, <1>2 DEF Greater
      <4>. QED BY <4>1, <4>2, <1>1
    <3>. QED BY <3>1, <1>2
  <2>4. ASSUME NEW slot \in Nat \cap DOMAIN frame
        PROVE  /\ slot < start => filled[slot] = frame[slot]
               /\ slot >= start /\ slot \in D => filled[slot] = <<"default", t.name[slot]>>
    <3>1. filled[slot] = IF slot >= low /\ slot < first + span THEN d[slot - first + 1] ELSE frame[slot]
      BY <2>1, <2>2
    <3>2. slot < start => ~(slot >= low)
      BY <2>3
    <3>3. slot >= start /\ slot \in D => slot >= low /\ slot < first + span
      <4>. SUFFICES ASSUME slot >= start, slot \in D PROVE slot >= low /\ slot < first + span
        OBVIOUS
      <4>1. slot >= first /\ slot - first < span
        BY <1>2, <1>3
      <4>. QED BY <4>1, <2>3, <1>2
    <3>. QED BY <3>1, <3>2, <3>3, <1>3
  <2>5. DOMAIN filled = DOMAIN frame
    BY <2>1
  <2>. QED BY <2>4, <2>5, <1>0, <1>1 DEF DefaultedFrom
<1>. QED BY <1>5, <1>6

LEMMA CollectorsInPlace ==
  ASSUME NEW t, IsTable(t), NEW f, Describes(f, t), NEW frame, NEW tuple, NEW dict,
         Slots(t) \subseteq DOMAIN frame, NEW stored,
         stored = StoreKwargs(StoreVarargs(frame, f, tuple), f, dict)
  PROVE  /\ DOMAIN stored = DOMAIN frame
         /\ \A slot \in Slots(t) : /\ IsVarargs(t, slot) => stored[slot] = tuple
                                   /\ IsKwargs(t, slot) => stored[slot] = dict
                                   /\ Ordinary(t, slot) => stored[slot] = frame[slot]
<1>1. /\ f.signature.nParameters = t.nParameters /\ f.signature.nPositional = t.nPositional
      /\ f.signature.varargs = t.varargs /\ f.signature.kwargs = t.kwargs
  BY DEF Describes
<1>2. PICK mid : mid = StoreVarargs(frame, f, tuple)
  OBVIOUS
<1>3. /\ DOMAIN mid = DOMAIN frame
      /\ \A slot \in DOMAIN frame : mid[slot] = IF IsVarargs(t, slot) THEN tuple ELSE frame[slot]
  <2>1. mid = IF t.varargs THEN [frame EXCEPT ![t.nPositional] = tuple] ELSE frame
    BY <1>1, <1>2 DEF StoreVarargs
  <2>. QED BY <2>1 DEF IsVarargs
<1>4. /\ DOMAIN stored = DOMAIN frame
      /\ \A slot \in DOMAIN frame : stored[slot] = IF IsKwargs(t, slot) THEN dict ELSE mid[slot]
  <2>1. stored = IF t.kwargs THEN [mid EXCEPT ![t.nParameters - 1] = dict] ELSE mid
    BY <1>1, <1>2 DEF StoreKwargs
  <2>. QED BY <2>1, <1>3 DEF IsKwargs
<1>5. \A slot \in Slots(t) : ~(IsVarargs(t, slot) /\ IsKwargs(t, slot))
  BY DEF IsVarargs, IsKwargs, IsTable
<1>. QED BY <1>3, <1>4, <1>5 DEF Ordinary

(* The tuple of the extra arguments.                                       *)
LEMMA TupleOfRest ==
  ASSUME NEW t, IsTable(t), NEW f, Describes(f, t), NEW V, NEW positional \in Seq(V),
         NEW n, n = Len(positional), NEW frame,
         \A slot \in 0 .. n - 1 : frame[slot] = positional[slot + 1]
  PROVE  VarargsTuple(frame, f, n) = <<"tuple", SubSeq(positional, t.nPositional + 1, n)>>
<1>1. PICK np, low, x : np = t.nPositional /\ low = np + 1 /\ x = SubSeq(positional, low, n)
  OBVIOUS
<1>2. np \in Nat /\ n \in Nat /\ low \in Nat /\ low > 0 /\ f.signature.nPositional = np
  BY <1>1, LenProperties DEF IsTable, Describes
<1>3. /\ x \in Seq(V) /\ Len(x) = (IF low <= n THEN n - low + 1 ELSE 0)
      /\ \A i \in 1 .. n - low + 1 : x[i] = positional[low + i - 1]
  BY <1>1, <1>2, RestOf, SMTT(30)
<1>4. PICK extra : extra = Greater(n - np, 0)
  OBVIOUS
<1>5. extra \in Nat /\ extra = (IF low <= n THEN n - low + 1 ELSE 0)
  BY <1>1, <1>2, <1>4, SMTT(30) DEF Greater
<1>6. PICK y : y = [i \in 1 .. extra |-> frame[np + i - 1]]
  OBVIOUS
<1>7. \A i \in 1 .. extra : y[i] = x[i]
  <2>. SUFFICES ASSUME NEW i \in 1 .. extra PROVE y[i] = x[i]
    OBVIOUS
  <2>1. /\ i \in 1 .. n - low + 1 /\ np + i - 1 \in 0 .. n - 1
        /\ (np + i - 1) + 1 = low + i - 1
    <3>1. low = np + 1 /\ np \in Nat /\ n \in Nat /\ i \in Nat /\ i >= 1 /\ i <= extra
      BY <1>1, <1>2, <1>5
    <3>2. low <= n /\ extra = n - low + 1
      BY <3>1, <1>5
    <3>. QED BY <3>1, <3>2
  <2>2. y[i] = frame[np + i - 1]
    BY <1>6
  <2>3. frame[np + i - 1] = positional[(np + i - 1) + 1]
    BY <2>1
  <2>. QED BY <2>1, <2>2, <2>3, <1>3
<1>8. y = x
  <2>1. DOMAIN x = 1 .. extra /\ x = [i \in DOMAIN x |-> x[i]]
    BY <1>3, <1>5, LenProperties
  <2>2. y = [i \in 1 .. extra |-> y[i]]
    BY <1>6
  <2>. QED BY <2>1, <2>2, <1>7
<1>9. VarargsTuple(frame, f, n) = <<"tuple", y>>
  BY <1>2, <1>4, <1>6 DEF VarargsTuple
<1>. QED BY <1>1, <1>8, <1>9

LEMMA NothingSelected == Selected(<<>>, {}) = <<>>
<1>. DEFINE IsTaken(g) == g = [i \in 0 .. Len(<<>>) |->
                             IF i = 0 THEN <<>>
                             ELSE IF i \in {} THEN Append(g[i - 1], <<>>[i]) ELSE g[i - 1]]
            taken == CHOOSE g : IsTaken(g)
<1>1. Len(<<>>) = 0 /\ 0 .. 0 = {0}
  BY EmptySeq
<1>2. IsTaken([i \in 0 .. 0 |-> <<>>])
  BY <1>1
<1>3. IsTaken(taken)
  BY <1>2
<1>4. Selected(<<>>, {}) = taken[Len(<<>>)]
  BY Zenon DEF Selected
<1>. HIDE DEF taken
<1>. QED BY <1>1, <1>3, <1>4

\* The window holds the positional arguments and has room for the parameters.
Holds(frame, positional, n) ==
  /\ DOMAIN frame = 0 .. WindowSize - 1
  /\ \A slot \in 0 .. n - 1 : frame[slot] = positional[slot + 1]

Fits(t) == Slots(t) \subseteq 0 .. WindowSize - 1

(* The arity check of a positional call refuses what Python refuses.       *)
LEMMA PositionalAccepted ==
  ASSUME NEW t, IsTable(t), NEW f, Describes(f, t), NEW n \in Nat
  PROVE  AcceptsPositionalOnly(f, n) <=> ~RefusedAt(t, n, <<>>)
<1>1. PICK np, D : np = t.nPositional /\ D = DefaultSlots(t)
  OBVIOUS
<1>2. /\ np \in Nat /\ f.signature.nPositional = np /\ f.signature.varargs = t.varargs
      /\ f.signature.requiredKeywordOnly <=>
           \E slot \in Slots(t) : Ordinary(t, slot) /\ slot >= np /\ slot \notin D
  BY <1>1 DEF IsTable, Describes
<1>3. 0 .. np - 1 \subseteq Slots(t) /\ \A slot \in 0 .. np - 1 : Ordinary(t, slot)
  <2>1. PICK k : k = t.nParameters
    OBVIOUS
  <2>2. /\ k \in Nat /\ t.firstKwonly \in Nat /\ k >= t.firstKwonly /\ t.firstKwonly >= np
        /\ (t.kwargs => k >= t.firstKwonly + 1)
    BY <1>1, <2>1 DEF IsTable
  <2>3. 0 .. np - 1 \subseteq 0 .. k - 1
    BY <1>2, <2>2
  <2>4. \A slot \in 0 .. np - 1 : slot # np /\ (t.kwargs => slot # k - 1)
    BY <1>2, <2>2
  <2>. QED BY <1>1, <2>1, <2>3, <2>4 DEF Slots, Ordinary, IsVarargs, IsKwargs
<1>4. \A slot \in 0 .. np - 1 : HasDefault(f.signature, slot) <=> slot \in D
  BY <1>1, <1>3, KnownDefaults
<1>5. n >= MinArity(f) <=> \A slot \in 0 .. np - 1 : slot < n \/ slot \in D
  <2>1. CASE f.defaults = <<>>
    <3>1. D = {}
      <4>1. PICK span \in Nat : f.defaults = [i \in 1 .. span |-> f.defaults[i]] /\ (span = 0 <=> D = {})
        BY <1>1 DEF Describes, KnowsDefaults
      <4>. QED BY <4>1, <2>1, SequenceOf
    <3>2. MinArity(f) = np
      BY <1>2, <2>1 DEF MinArity
    <3>3. n >= np <=> \A slot \in 0 .. np - 1 : slot < n
      <4>1. np > 0 => np - 1 \in 0 .. np - 1
        BY <1>2
      <4>. QED BY <4>1, <1>2
    <3>. QED BY <3>1, <3>2, <3>3
  <2>2. CASE f.defaults # <<>>
    <3>. DEFINE required == {i \in 0 .. np - 1 : ~HasDefault(f.signature, i)}
                arities == {0} \cup {slot + 1 : slot \in required}
    <3>1. MinArity(f) = Max(arities)
      BY <1>2, <2>2, Zenon DEF MinArity
    <3>2. arities \in SUBSET Nat /\ arities # {} /\ \A x \in arities : x <= np
      BY <1>2
    <3>3. \A x : x \in arities <=> x = 0 \/ \E slot \in 0 .. np - 1 : slot \notin D /\ x = slot + 1
      BY <1>4
    <3>. HIDE DEF arities
    <3>4. Max(arities) \in arities /\ \A x \in arities : x <= Max(arities)
      BY <1>2, <3>2, MaxOf
    <3>5. PICK most : most = Max(arities)
      OBVIOUS
    <3>6. n >= most <=> \A x \in arities : x <= n
      <4>1. most \in arities /\ most \in Nat /\ \A x \in arities : x \in Nat /\ x <= most
        BY <3>2, <3>4, <3>5
      <4>. QED BY <4>1
    <3>7. (\A x \in arities : x <= n) <=> \A slot \in 0 .. np - 1 : slot \in D \/ slot + 1 <= n
      BY <3>3
    <3>8. \A slot \in 0 .. np - 1 : slot + 1 <= n <=> slot < n
      OBVIOUS
    <3>. QED BY <3>1, <3>5, <3>6, <3>7, <3>8
  <2>. QED BY <2>1, <2>2
<1>6. \A slot : ~Named(t, <<>>, slot)
  BY DEF Named, Names
<1>7. RefusedAt(t, n, <<>>) <=>
        \/ n > np /\ ~t.varargs
        \/ \E slot \in Slots(t) : Ordinary(t, slot) /\ ~Filled(t, n, slot) /\ slot \notin D
  <2>1. Names(<<>>) = {}
    BY DEF Names
  <2>. QED BY <1>1, <1>6, <2>1 DEF RefusedAt
<1>8. (\E slot \in Slots(t) : Ordinary(t, slot) /\ ~Filled(t, n, slot) /\ slot \notin D) <=>
        \/ \E slot \in 0 .. np - 1 : ~(slot < n) /\ slot \notin D
        \/ \E slot \in Slots(t) : Ordinary(t, slot) /\ slot >= np /\ slot \notin D
  <2>1. \A slot \in Slots(t) : /\ slot \in Nat
                               /\ slot < np <=> slot \in 0 .. np - 1
                               /\ slot >= np <=> ~(slot < np)
                               /\ Filled(t, n, slot) <=> slot < n /\ slot < np
    BY <1>1, <1>2 DEF Slots, Filled, IsTable
  <2>. QED BY <2>1, <1>3
<1>9. AcceptsPositionalOnly(f, n) <=>
        /\ \A slot \in 0 .. np - 1 : slot < n \/ slot \in D
        /\ t.varargs \/ n <= np
        /\ ~\E slot \in Slots(t) : Ordinary(t, slot) /\ slot >= np /\ slot \notin D
  BY <1>2, <1>5 DEF AcceptsPositionalOnly
<1>10. n <= np <=> ~(n > np)
  BY <1>2
<1>. QED BY <1>7, <1>8, <1>9, <1>10

(* A positional call that is not refused leaves in each slot what the      *)
(* parameter receives, whichever way the window is completed.              *)
LEMMA PositionalCompleted ==
  ASSUME NEW t, IsTable(t), NEW f, Describes(f, t), NEW V, NEW positional \in Seq(V),
         NEW n, n = Len(positional), NEW frame, Holds(frame, positional, n), Fits(t),
         ~RefusedAt(t, n, <<>>), NEW slot \in Slots(t)
  PROVE  CompletePositional(frame, f, n, PositionalAdaptation(f, n))[slot]
           = ReceivedAt(t, positional, <<>>, slot)
<1>1. PICK np, D, k : np = t.nPositional /\ D = DefaultSlots(t) /\ k = t.nParameters
  OBVIOUS
<1>2. /\ n \in Nat /\ np \in Nat /\ k \in Nat /\ np <= k
      /\ f.signature.nPositional = np /\ f.signature.nParameters = k
      /\ f.signature.varargs = t.varargs /\ f.signature.kwargs = t.kwargs
      /\ t.varargs \in BOOLEAN /\ t.kwargs \in BOOLEAN /\ slot \in Nat /\ slot < k
  <2>1. n \in Nat
    BY LenProperties
  <2>2. slot \in 0 .. k - 1
    BY <1>1 DEF Slots
  <2>3. np \in Nat /\ k \in Nat /\ np <= k
    BY <1>1 DEF IsTable
  <2>. QED BY <1>1, <2>1, <2>2, <2>3 DEF IsTable, Describes
<1>3. slot \in DOMAIN frame /\ Slots(t) \subseteq DOMAIN frame
  BY DEF Holds, Fits
<1>4. /\ ~(n > np /\ ~t.varargs)
      /\ Ordinary(t, slot) /\ ~Filled(t, n, slot) => slot \in D
  <2>1. ~Named(t, <<>>, slot)
    BY DEF Named, Names
  <2>. QED BY <2>1, <1>1 DEF RefusedAt
<1>5. Ordinary(t, slot) => ReceivedAt(t, positional, <<>>, slot) =
                             IF Filled(t, n, slot) THEN frame[slot] ELSE <<"default", t.name[slot]>>
  <2>1. ~Named(t, <<>>, slot)
    BY DEF Named, Names
  <2>2. Filled(t, n, slot) => frame[slot] = positional[slot + 1]
    <3>1. Filled(t, n, slot) => slot \in 0 .. n - 1
      BY <1>2 DEF Filled
    <3>. QED BY <3>1 DEF Holds
  <2>. QED BY <2>1, <2>2 DEF ReceivedAt, Ordinary
<1>6. PICK start, tuple, filled, r :
        /\ start = Lesser(n, np) /\ tuple = VarargsTuple(frame, f, n)
        /\ filled = DefaultsFilled(frame, f, start)
        /\ r = CompletePositional(frame, f, n, PositionalAdaptation(f, n))
  OBVIOUS
<1>7. r = CASE PositionalAdaptation(f, n) = FixedArity -> frame
            [] PositionalAdaptation(f, n) = Defaultable -> filled
            [] PositionalAdaptation(f, n) = Full ->
                 StoreKwargs(StoreVarargs(filled, f, tuple), f, <<"dict", <<>>>>)
  BY <1>2, <1>6, Zenon DEF CompletePositional, DefaultsFilled
<1>8. start \in Nat /\ (slot < start <=> Filled(t, n, slot))
  <2>1. start = IF n < np THEN n ELSE np
    BY <1>6 DEF Lesser
  <2>2. start \in Nat /\ (slot < start <=> slot < n /\ slot < np)
    BY <2>1, <1>2
  <2>. QED BY <2>2, <1>1 DEF Filled
<1>9. /\ DOMAIN filled = DOMAIN frame
      /\ slot < start => filled[slot] = frame[slot]
      /\ slot >= start /\ slot \in D => filled[slot] = <<"default", t.name[slot]>>
  <2>1. DefaultedFrom(t, frame, start, filled)
    BY <1>6, <1>8, DefaultsInPlace
  <2>. QED BY <2>1, <1>1, <1>2, <1>3 DEF DefaultedFrom
<1>10. Ordinary(t, slot) => filled[slot] = ReceivedAt(t, positional, <<>>, slot)
  <2>1. slot < start \/ slot >= start
    BY <1>2, <1>8
  <2>2. slot >= start => ~Filled(t, n, slot)
    BY <1>2, <1>8
  <2>. QED BY <2>1, <2>2, <1>4, <1>5, <1>8, <1>9
<1>11. FixedArity # Defaultable /\ FixedArity # Full /\ Defaultable # Full
  BY DEF FixedArity, Defaultable, Full
<1>12. CASE t.varargs \/ t.kwargs
  <2>1. PositionalAdaptation(f, n) = Full
    BY <1>2, <1>12 DEF PositionalAdaptation
  <2>2. r = StoreKwargs(StoreVarargs(filled, f, tuple), f, <<"dict", <<>>>>)
    BY <2>1, <1>7, <1>11
  <2>3. /\ IsVarargs(t, slot) => r[slot] = tuple
        /\ IsKwargs(t, slot) => r[slot] = <<"dict", <<>>>>
        /\ Ordinary(t, slot) => r[slot] = filled[slot]
    <3>1. Slots(t) \subseteq DOMAIN filled
      BY <1>3, <1>9
    <3>. QED BY <2>2, <3>1, CollectorsInPlace
  <2>4. CASE IsVarargs(t, slot)
    <3>1. tuple = <<"tuple", SubSeq(positional, t.nPositional + 1, n)>>
      <4>1. \A s \in 0 .. n - 1 : frame[s] = positional[s + 1]
        BY DEF Holds
      <4>. QED BY <4>1, <1>6, TupleOfRest
    <3>. QED BY <2>3, <2>4, <3>1, <1>6 DEF ReceivedAt
  <2>5. CASE IsKwargs(t, slot) /\ ~IsVarargs(t, slot)
    <3>1. {i \in DOMAIN <<>> : ~Addressed(t, <<>>[i])} = {}
      OBVIOUS
    <3>2. ReceivedAt(t, positional, <<>>, slot) = <<"dict", Selected(<<>>, {})>>
      <4>1. ReceivedAt(t, positional, <<>>, slot)
              = <<"dict", Selected(<<>>, {i \in DOMAIN <<>> : ~Addressed(t, <<>>[i])})>>
        BY <2>5 DEF ReceivedAt
      <4>. QED BY <3>1, <4>1
    <3>. QED BY <2>3, <2>5, <3>2, <1>6, NothingSelected
  <2>6. CASE Ordinary(t, slot)
    BY <2>3, <2>6, <1>6, <1>10
  <2>. QED BY <2>4, <2>5, <2>6 DEF Ordinary
<1>13. CASE ~t.varargs /\ ~t.kwargs
  <2>1. Ordinary(t, slot)
    BY <1>13, SMTT(30) DEF Ordinary, IsVarargs, IsKwargs
  <2>2. CASE f.defaults = <<>>
    <3>1. filled = frame
      BY <2>2, <1>6 DEF DefaultsFilled
    <3>2. PositionalAdaptation(f, n) \in {FixedArity, Defaultable}
      BY <1>2, <1>13 DEF PositionalAdaptation
    <3>3. r = frame
      BY <3>1, <3>2, <1>7, <1>11, SMTT(30)
    <3>. QED BY <2>1, <3>1, <3>3, <1>6, <1>10
  <2>3. CASE f.defaults # <<>> /\ n = k
    <3>1. PositionalAdaptation(f, n) = FixedArity
      BY <1>2, <1>13, <2>3 DEF PositionalAdaptation
    <3>2. r = frame
      BY <3>1, <1>7, <1>11
    <3>3. Filled(t, n, slot)
      <4>1. n <= np
        BY <1>2, <1>4, <1>13
      <4>2. slot < n /\ slot < np
        BY <4>1, <2>3, <1>2
      <4>. QED BY <4>2, <1>1 DEF Filled
    <3>. QED BY <2>1, <3>2, <3>3, <1>5, <1>6
  <2>4. CASE f.defaults # <<>> /\ n # k
    <3>1. PositionalAdaptation(f, n) = Defaultable
      BY <1>2, <1>13, <2>4 DEF PositionalAdaptation
    <3>2. r = filled
      BY <3>1, <1>7, <1>11
    <3>. QED BY <2>1, <3>2, <1>6, <1>10
  <2>. QED BY <2>2, <2>3, <2>4
<1>. QED BY <1>12, <1>13, <1>2

LEMMA DistinctNames ==
  ASSUME NEW S, NEW names \in Seq(S), \A i, j \in DOMAIN names : names[i] = names[j] => i = j
  PROVE  Cardinality({names[i] : i \in DOMAIN names}) = Len(names)
<1>1. PICK n, T : n = Len(names) /\ T = {names[i] : i \in DOMAIN names}
  OBVIOUS
<1>2. n \in Nat /\ DOMAIN names = 1 .. n /\ names \in [1 .. n -> S]
  BY <1>1, LenProperties
<1>3. names \in [1 .. n -> T]
  BY <1>1, <1>2
<1>4. names \in Bijection(1 .. n, T)
  BY <1>1, <1>2, <1>3 DEF Bijection, Injection, Surjection, IsInjective
<1>5. ExistsBijection(1 .. n, T)
  BY <1>4 DEF ExistsBijection
<1>. QED BY <1>1, <1>2, <1>5, FS_CountingElements

\* Where the value of each keyword goes: to the slot its name addresses, or
\* to the dictionary.
Destinations(t, names, dests) ==
  /\ DOMAIN dests = DOMAIN names
  /\ \A i \in DOMAIN names :
       \/ /\ dests[i] = ToDict /\ ~Addressed(t, names[i])
       \/ /\ dests[i] \in Slots(t) /\ Addressable(t, dests[i])
          /\ t.name[dests[i]] = names[i] /\ Addressed(t, names[i])

LEMMA KeywordsDestined ==
  ASSUME NEW t, IsTable(t), NEW f, Describes(f, t), NEW names
  PROVE  Destinations(t, names, KeywordDests(f, names))
<1>1. /\ DOMAIN f.remap = {t.name[slot] : slot \in {u \in Slots(t) : Addressable(t, u)}}
      /\ \A slot \in Slots(t) : Addressable(t, slot) => f.remap[t.name[slot]] = slot
  BY DEF Describes
<1>2. \A name : name \in DOMAIN f.remap <=> Addressed(t, name)
  BY <1>1 DEF Addressed
<1>3. PICK dests : dests = KeywordDests(f, names)
  OBVIOUS
<1>4. dests = [i \in DOMAIN names |-> IF Addressed(t, names[i]) THEN f.remap[names[i]] ELSE ToDict]
  BY <1>2, <1>3 DEF KeywordDests
<1>5. ASSUME NEW i \in DOMAIN names, Addressed(t, names[i])
      PROVE  dests[i] \in Slots(t) /\ Addressable(t, dests[i]) /\ t.name[dests[i]] = names[i]
  <2>1. PICK slot \in Slots(t) : Addressable(t, slot) /\ t.name[slot] = names[i]
    BY <1>5 DEF Addressed
  <2>2. dests[i] = slot
    BY <2>1, <1>1, <1>4, <1>5
  <2>. QED BY <2>1, <2>2
<1>. QED BY <1>3, <1>4, <1>5 DEF Destinations

LEMMA DestinedSlots ==
  ASSUME NEW t, IsTable(t), NEW names, NEW dests, Destinations(t, names, dests),
         NEW slot \in Slots(t)
  PROVE  /\ (\E i \in DOMAIN names : dests[i] = slot) <=> Named(t, names, slot)
         /\ \A i \in DOMAIN names : dests[i] = slot => names[i] = t.name[slot]
<1>1. slot # ToDict
  BY DEF Slots, ToDict, IsTable
<1>2. ASSUME NEW i \in DOMAIN names, dests[i] = slot
      PROVE  names[i] = t.name[slot] /\ Named(t, names, slot)
  <2>1. Addressable(t, slot) /\ t.name[slot] = names[i]
    BY <1>1, <1>2 DEF Destinations
  <2>. QED BY <2>1 DEF Named, Names
<1>3. ASSUME Named(t, names, slot) PROVE \E i \in DOMAIN names : dests[i] = slot
  <2>1. PICK i \in DOMAIN names : names[i] = t.name[slot] /\ Addressable(t, slot)
    BY <1>3 DEF Named, Names
  <2>2. Addressed(t, names[i])
    BY <2>1 DEF Addressed
  <2>3. dests[i] \in Slots(t) /\ t.name[dests[i]] = t.name[slot]
    BY <2>1, <2>2 DEF Destinations
  <2>4. dests[i] = slot
    BY <2>3 DEF IsTable
  <2>. QED BY <2>4
<1>. QED BY <1>2, <1>3

(* The keyword plan is refused exactly when Python refuses the call.       *)
LEMMA KeywordsAccepted ==
  ASSUME NEW t, IsTable(t), NEW f, Describes(f, t), NEW n \in Nat, NEW S, NEW names \in Seq(S),
         \A i, j \in DOMAIN names : names[i] = names[j] => i = j
  PROVE  KeywordsBind(f, n, names) <=> ~RefusedAt(t, n, names)
<1>1. PICK np, k, D, dests : /\ np = t.nPositional /\ k = t.nParameters /\ D = DefaultSlots(t)
                             /\ dests = KeywordDests(f, names)
  OBVIOUS
<1>2. /\ np \in Nat /\ k \in Nat /\ np <= k /\ Slots(t) = 0 .. k - 1
      /\ f.signature.nPositional = np /\ f.signature.nParameters = k
      /\ f.signature.varargs = t.varargs /\ f.signature.kwargs = t.kwargs
      /\ t.varargs \in BOOLEAN /\ t.kwargs \in BOOLEAN
  BY <1>1 DEF IsTable, Describes, Slots
<1>3. Destinations(t, names, dests)
  BY <1>1, KeywordsDestined
<1>4. PICK byPosition, byKeyword, collecting :
        /\ byPosition = 0 .. Lesser(n, np) - 1
        /\ byKeyword = {dests[i] : i \in DOMAIN names}
        /\ collecting = (IF t.varargs THEN {np} ELSE {}) \cup (IF t.kwargs THEN {k - 1} ELSE {})
  OBVIOUS
<1>5. KeywordsBind(f, n, names) <=>
        /\ n <= np \/ t.varargs
        /\ ToDict \in byKeyword => t.kwargs
        /\ byPosition \cap byKeyword = {}
        /\ \A slot \in (0 .. k - 1) \ (collecting \cup byPosition \cup byKeyword) :
             HasDefault(f.signature, slot)
  <2>1. Cardinality({names[i] : i \in DOMAIN names}) = Len(names)
    BY DistinctNames
  <2>2. KeywordsBind(f, n, names) <=>
          /\ n <= f.signature.nPositional \/ f.signature.varargs
          /\ Cardinality({names[i] : i \in DOMAIN names}) = Len(names)
          /\ ToDict \in {KeywordDests(f, names)[i] : i \in DOMAIN names} => f.signature.kwargs
          /\ (0 .. Lesser(n, f.signature.nPositional) - 1)
                \cap {KeywordDests(f, names)[i] : i \in DOMAIN names} = {}
          /\ \A slot \in (0 .. f.signature.nParameters - 1) \
                   (((IF f.signature.varargs THEN {f.signature.nPositional} ELSE {})
                       \cup (IF f.signature.kwargs THEN {f.signature.nParameters - 1} ELSE {}))
                    \cup (0 .. Lesser(n, f.signature.nPositional) - 1)
                    \cup {KeywordDests(f, names)[i] : i \in DOMAIN names}) :
               HasDefault(f.signature, slot)
    BY Zenon DEF KeywordsBind
  <2>. QED BY <2>1, <2>2, <1>1, <1>2, <1>4
<1>6. \A slot \in Slots(t) : /\ slot \in byPosition <=> Filled(t, n, slot)
                             /\ slot \in byKeyword <=> Named(t, names, slot)
                             /\ slot \in collecting <=> ~Ordinary(t, slot)
                             /\ HasDefault(f.signature, slot) <=> slot \in D
  <2>. SUFFICES ASSUME NEW slot \in Slots(t)
                PROVE  /\ slot \in byPosition <=> Filled(t, n, slot)
                       /\ slot \in byKeyword <=> Named(t, names, slot)
                       /\ slot \in collecting <=> ~Ordinary(t, slot)
                       /\ HasDefault(f.signature, slot) <=> slot \in D
    OBVIOUS
  <2>1. slot \in byPosition <=> Filled(t, n, slot)
    <3>1. slot \in Nat /\ byPosition = 0 .. (IF n < np THEN n ELSE np) - 1
      BY <1>2, <1>4 DEF Lesser
    <3>2. slot \in byPosition <=> slot < n /\ slot < np
      BY <3>1, <1>2
    <3>. QED BY <3>2, <1>1 DEF Filled
  <2>2. slot \in byKeyword <=> Named(t, names, slot)
    BY <1>3, <1>4, DestinedSlots
  <2>3. slot \in collecting <=> ~Ordinary(t, slot)
    BY <1>1, <1>4 DEF Ordinary, IsVarargs, IsKwargs
  <2>4. HasDefault(f.signature, slot) <=> slot \in D
    BY <1>1, KnownDefaults
  <2>. QED BY <2>1, <2>2, <2>3, <2>4
<1>7. byPosition \subseteq Slots(t)
  <2>1. byPosition = 0 .. (IF n < np THEN n ELSE np) - 1
    BY <1>4 DEF Lesser
  <2>. QED BY <2>1, <1>2
<1>8. ToDict \in byKeyword <=> \E name \in Names(names) : ~Addressed(t, name)
  <2>1. \A i \in DOMAIN names : dests[i] = ToDict <=> ~Addressed(t, names[i])
    <3>1. \A slot \in Slots(t) : slot # ToDict
      BY <1>2 DEF ToDict
    <3>. QED BY <3>1, <1>3 DEF Destinations
  <2>. QED BY <2>1, <1>4 DEF Names
<1>9. byPosition \cap byKeyword = {} <=> ~\E slot \in Slots(t) : Filled(t, n, slot) /\ Named(t, names, slot)
  BY <1>6, <1>7
<1>10. (\A slot \in (0 .. k - 1) \ (collecting \cup byPosition \cup byKeyword) : HasDefault(f.signature, slot))
         <=> ~\E slot \in Slots(t) : /\ Ordinary(t, slot) /\ ~Filled(t, n, slot)
                                     /\ ~Named(t, names, slot) /\ slot \notin D
  BY <1>2, <1>6
<1>11. n <= np \/ t.varargs <=> ~(n > np /\ ~t.varargs)
  BY <1>2
<1>. QED BY <1>1, <1>5, <1>8, <1>9, <1>10, <1>11 DEF RefusedAt

\* The keyword values go over what the slots hold.
Overwritten(stored, names, dests) ==
  [u \in DOMAIN stored |->
     IF \E i \in DOMAIN names : dests[i] = u
       THEN <<"keyword", names[CHOOSE i \in DOMAIN names : dests[i] = u]>>
     ELSE stored[u]]

(* A keyword call that is not refused leaves in each slot what the         *)
(* parameter receives.                                                     *)
LEMMA KeywordCompleted ==
  ASSUME NEW t, IsTable(t), NEW f, Describes(f, t), NEW V, NEW positional \in Seq(V),
         NEW n, n = Len(positional), NEW names, ~RefusedAt(t, n, names),
         NEW frame, Holds(frame, positional, n), Fits(t),
         NEW entry, entry.function = f, entry.adaptation = KeywordAdaptation(f),
         entry.start = Greater(Lesser(n, f.signature.nPositional), f.signature.firstDefault),
         entry.dests = KeywordDests(f, names), NEW slot \in Slots(t)
  PROVE  CompleteKeyword(frame, entry, n, names)[slot] = ReceivedAt(t, positional, names, slot)
<1>1. PICK np, D, k, dests, places :
        /\ np = t.nPositional /\ D = DefaultSlots(t) /\ k = t.nParameters
        /\ dests = KeywordDests(f, names)
        /\ places = {i \in DOMAIN names : ~Addressed(t, names[i])}
  OBVIOUS
<1>2. /\ n \in Nat /\ np \in Nat /\ slot \in Nat /\ f.signature.nPositional = np
      /\ f.signature.varargs = t.varargs /\ f.signature.kwargs = t.kwargs
  <2>1. n \in Nat
    BY LenProperties
  <2>2. slot \in 0 .. k - 1 /\ k \in Nat /\ np \in Nat
    BY <1>1 DEF Slots, IsTable
  <2>. QED BY <1>1, <2>1, <2>2 DEF Describes
<1>3. slot \in DOMAIN frame /\ Slots(t) \subseteq DOMAIN frame
  BY DEF Holds, Fits
<1>4. /\ ~(Filled(t, n, slot) /\ Named(t, names, slot))
      /\ Ordinary(t, slot) /\ ~Filled(t, n, slot) /\ ~Named(t, names, slot) => slot \in D
  BY <1>1 DEF RefusedAt
<1>5. Destinations(t, names, dests)
  BY <1>1, KeywordsDestined
<1>6. PICK chosen : chosen = {i \in DOMAIN names : dests[i] = ToDict}
  OBVIOUS
<1>61. chosen = places
  <2>1. \A s \in Slots(t) : s # ToDict
    BY DEF Slots, ToDict, IsTable
  <2>2. \A i \in DOMAIN names : dests[i] = ToDict <=> ~Addressed(t, names[i])
    BY <2>1, <1>5 DEF Destinations
  <2>. QED BY <2>2, <1>1, <1>6
<1>7. PICK start, from, tuple, dict, filled, stored, r :
        /\ start = Lesser(n, np) /\ from = Greater(start, f.signature.firstDefault)
        /\ tuple = VarargsTuple(frame, f, n) /\ dict = <<"dict", Selected(names, places)>>
        /\ filled = DefaultsFilled(frame, f, from)
        /\ stored = (IF KeywordAdaptation(f) = Full
                       THEN StoreKwargs(StoreVarargs(filled, f, tuple), f, dict) ELSE filled)
        /\ r = CompleteKeyword(frame, entry, n, names)
  OBVIOUS
<1>8. FixedArity # Defaultable /\ FixedArity # Full /\ Defaultable # Full
  BY DEF FixedArity, Defaultable, Full
<1>9. /\ KeywordAdaptation(f) = FixedArity => f.defaults = <<>>
      /\ KeywordAdaptation(f) = Full <=> t.varargs \/ t.kwargs
  BY <1>2, <1>8 DEF KeywordAdaptation
<1>10. (IF entry.adaptation = FixedArity \/ f.defaults = <<>> THEN frame
        ELSE FillDefaults(frame, f, entry.start)) = filled
  BY <1>2, <1>7, <1>9 DEF DefaultsFilled
<1>11. r = Overwritten(stored, names, dests)
  <2>1. PICK base, held :
          /\ base = (IF entry.adaptation = FixedArity \/ entry.function.defaults = <<>> THEN frame
                     ELSE FillDefaults(frame, entry.function, entry.start))
          /\ held = (IF entry.adaptation = Full
                       THEN StoreKwargs(StoreVarargs(base, entry.function, VarargsTuple(frame, entry.function, n)),
                              entry.function,
                              <<"dict", Selected(names, {i \in DOMAIN names : entry.dests[i] = ToDict})>>)
                     ELSE base)
    OBVIOUS
  <2>2. CompleteKeyword(frame, entry, n, names)
          = Overwritten(held, names, entry.dests)
    BY <2>1, Zenon DEF CompleteKeyword, Overwritten
  <2>3. base = filled
    BY <2>1, <1>10
  <2>4. entry.dests = dests
    BY <1>1
  <2>5. {i \in DOMAIN names : entry.dests[i] = ToDict} = places
    BY <2>4, <1>6, <1>61
  <2>6. held = stored
    BY <2>1, <2>3, <2>5, <1>7
  <2>. QED BY <2>2, <2>4, <2>6, <1>7
<1>12. start \in Nat /\ (slot < start <=> Filled(t, n, slot))
  <2>1. start = IF n < np THEN n ELSE np
    BY <1>7 DEF Lesser
  <2>2. start \in Nat /\ (slot < start <=> slot < n /\ slot < np)
    BY <2>1, <1>2
  <2>. QED BY <2>2, <1>1 DEF Filled
<1>13. /\ DOMAIN filled = DOMAIN frame
       /\ slot < start => filled[slot] = frame[slot]
       /\ slot >= start /\ slot \in D => filled[slot] = <<"default", t.name[slot]>>
  <2>1. DefaultedFrom(t, frame, start, filled)
    BY <1>7, <1>12, DefaultsInPlace
  <2>. QED BY <2>1, <1>1, <1>2, <1>3 DEF DefaultedFrom
<1>14. /\ DOMAIN stored = DOMAIN frame
       /\ IsVarargs(t, slot) => stored[slot] = tuple
       /\ IsKwargs(t, slot) => stored[slot] = dict
       /\ Ordinary(t, slot) => stored[slot] = filled[slot]
  <2>1. CASE t.varargs \/ t.kwargs
    <3>1. stored = StoreKwargs(StoreVarargs(filled, f, tuple), f, dict)
      BY <2>1, <1>7, <1>9
    <3>2. Slots(t) \subseteq DOMAIN filled
      BY <1>3, <1>13
    <3>. QED BY <3>1, <3>2, <1>13, CollectorsInPlace
  <2>2. CASE ~t.varargs /\ ~t.kwargs
    <3>1. stored = filled
      BY <2>2, <1>7, <1>9
    <3>. QED BY <2>2, <3>1, <1>13 DEF IsVarargs, IsKwargs
  <2>. QED BY <2>1, <2>2
<1>15. /\ Named(t, names, slot) => r[slot] = <<"keyword", t.name[slot]>>
       /\ ~Named(t, names, slot) => r[slot] = stored[slot]
  <2>1. /\ (\E i \in DOMAIN names : dests[i] = slot) <=> Named(t, names, slot)
        /\ \A i \in DOMAIN names : dests[i] = slot => names[i] = t.name[slot]
    BY <1>5, DestinedSlots
  <2>2. r[slot] = IF \E i \in DOMAIN names : dests[i] = slot
                    THEN <<"keyword", names[CHOOSE i \in DOMAIN names : dests[i] = slot]>>
                  ELSE stored[slot]
    BY <1>3, <1>11, <1>14, Zenon DEF Overwritten
  <2>3. ASSUME \E i \in DOMAIN names : dests[i] = slot
        PROVE  names[CHOOSE i \in DOMAIN names : dests[i] = slot] = t.name[slot]
    <3>1. PICK c : c = CHOOSE i \in DOMAIN names : dests[i] = slot
      OBVIOUS
    <3>2. c \in DOMAIN names /\ dests[c] = slot
      BY <2>3, <3>1, Zenon
    <3>. QED BY <2>1, <3>1, <3>2
  <2>. QED BY <2>1, <2>2, <2>3
<1>16. Named(t, names, slot) => Ordinary(t, slot)
  BY DEF Named, Addressable
<1>17. CASE IsVarargs(t, slot)
  <2>1. tuple = <<"tuple", SubSeq(positional, t.nPositional + 1, n)>>
    <3>1. \A s \in 0 .. n - 1 : frame[s] = positional[s + 1]
      BY DEF Holds
    <3>2. VarargsTuple(frame, f, n) = <<"tuple", SubSeq(positional, t.nPositional + 1, n)>>
      BY <3>1, TupleOfRest
    <3>. QED BY <3>2, <1>7
  <2>2. r[slot] = tuple
    BY <1>14, <1>15, <1>16, <1>17 DEF Ordinary
  <2>. QED BY <2>1, <2>2, <1>7, <1>17 DEF ReceivedAt
<1>18. CASE IsKwargs(t, slot) /\ ~IsVarargs(t, slot)
  <2>1. r[slot] = dict
    BY <1>14, <1>15, <1>16, <1>18 DEF Ordinary
  <2>2. ReceivedAt(t, positional, names, slot) = <<"dict", Selected(names, places)>>
    BY <1>1, <1>18 DEF ReceivedAt
  <2>. QED BY <2>1, <2>2, <1>7
<1>19. CASE Ordinary(t, slot)
  <2>1. ReceivedAt(t, positional, names, slot) =
          IF Filled(t, n, slot) THEN positional[slot + 1]
          ELSE IF Named(t, names, slot) THEN <<"keyword", t.name[slot]>>
          ELSE <<"default", t.name[slot]>>
    BY <1>19 DEF ReceivedAt, Ordinary
  <2>2. CASE Filled(t, n, slot)
    <3>1. slot \in 0 .. n - 1
      BY <1>2, <2>2 DEF Filled
    <3>2. frame[slot] = positional[slot + 1]
      BY <3>1 DEF Holds
    <3>3. r[slot] = frame[slot]
      BY <2>2, <1>4, <1>12, <1>13, <1>14, <1>15, <1>19
    <3>. QED BY <2>1, <2>2, <3>2, <3>3, <1>7
  <2>3. CASE ~Filled(t, n, slot) /\ Named(t, names, slot)
    BY <2>1, <2>3, <1>7, <1>15
  <2>4. CASE ~Filled(t, n, slot) /\ ~Named(t, names, slot)
    <3>1. slot >= start
      BY <2>4, <1>2, <1>12
    <3>. QED BY <2>1, <2>4, <3>1, <1>4, <1>7, <1>13, <1>14, <1>15, <1>19
  <2>. QED BY <2>2, <2>3, <2>4
<1>. QED BY <1>17, <1>18, <1>19 DEF Ordinary

-----------------------------------------------------------------------------
(* What runs in the completed window.                                      *)

\* The window completed for the parameters of the table.
CompletedFor(t, positional, names, completed) ==
  \A slot \in Slots(t) : completed[slot] = ReceivedAt(t, positional, names, slot)

\* The function accepts what the language accepts, and does what it says.
Serves(f, t, positional, names, meaning) ==
  /\ IsTable(t) /\ Describes(f, t) /\ Fits(t)
  /\ RefusedAt(t, Len(positional), names) => meaning = TypeError
  /\ ~RefusedAt(t, Len(positional), names) =>
       \A completed : CompletedFor(t, positional, names, completed) =>
                        Enter(f, completed) = meaning

LEMMA TableFits ==
  ASSUME NEW d, WellFormed(d)
  PROVE  Fits(Table(d))
<1>1. PICK n : n = Parameters(d)
  OBVIOUS
<1>2. n \in Nat /\ Len(RuntimeOrder(d)) = n
  BY <1>1, OrderLayout
<1>3. n <= WindowSize
  BY <1>2 DEF WellFormed
<1>4. Slots(Table(d)) = 0 .. n - 1
  BY <1>1 DEF Slots, Table
<1>. QED BY <1>2, <1>3, <1>4, WindowSizeAssumption DEF Fits

BoundInOrder(d, positional, names) ==
  [i \in DOMAIN RuntimeOrder(d) |-> Bound(d, positional, names, RuntimeOrder(d)[i])]
Received(t, positional, names) ==
  [i \in 1 .. t.nParameters |-> ReceivedAt(t, positional, names, i - 1)]

LEMMA BoundIsReceived ==
  ASSUME NEW d, WellFormed(d), NEW V, NEW positional \in Seq(V), NEW names
  PROVE  BoundInOrder(d, positional, names) = Received(Table(d), positional, names)
<1>0. PICK params : params = BoundInOrder(d, positional, names)
  OBVIOUS
<1>1. PICK t, by, np, n : t = Table(d) /\ by = ByPosition(d) /\ np = t.nPositional /\ n = t.nParameters
  OBVIOUS
<1>2. NamesLie(d, t, by, np)
  BY <1>1, NamesBySlots
<1>3. /\ DOMAIN RuntimeOrder(d) = 1 .. n
      /\ \A i \in 1 .. n : i - 1 \in Slots(t) /\ RuntimeOrder(d)[i] = t.name[i - 1]
  BY <1>1, <1>2 DEF NamesLie
<1>4. ASSUME NEW i \in 1 .. n
      PROVE  params[i] = ReceivedAt(t, positional, names, i - 1)
  <2>1. params[i] = Bound(d, positional, names, t.name[i - 1])
    BY <1>0, <1>3 DEF BoundInOrder
  <2>. QED BY <2>1, <1>1, <1>3, ReceptionBySlots
<1>5. params = [i \in 1 .. n |-> params[i]]
  BY <1>0, <1>3 DEF BoundInOrder
<1>6. params = [i \in 1 .. n |-> ReceivedAt(t, positional, names, i - 1)]
  BY <1>4, <1>5
<1>. QED BY <1>0, <1>1, <1>6 DEF Received

(* A function, and the thunk of a constructor.                             *)
LEMMA FunctionServes ==
  ASSUME NEW d, WellFormed(d), NEW V, NEW positional \in Seq(V), NEW names
  PROVE  Serves(FunctionOf(d), Table(d), positional, names, Binding(d, positional, names))
<1>1. PICK t, f, n : t = Table(d) /\ f = FunctionOf(d) /\ n = Len(positional)
  OBVIOUS
<1>2. IsTable(t) /\ Describes(f, t) /\ Fits(t)
  BY <1>1, TableOf, FunctionDescribed, TableFits
<1>3. Refused(d, positional, names) <=> RefusedAt(t, n, names)
  BY <1>1, RefusalBySlots
<1>4. RefusedAt(t, n, names) => Binding(d, positional, names) = TypeError
  BY <1>3 DEF Binding
<1>5. ASSUME ~RefusedAt(t, n, names), NEW completed, CompletedFor(t, positional, names, completed)
      PROVE  Enter(f, completed) = Binding(d, positional, names)
  <2>1. PICK params : params = BoundInOrder(d, positional, names)
    OBVIOUS
  <2>2. Binding(d, positional, names) = [kind |-> "runs", def |-> {d}, params |-> params]
    BY <1>3, <1>5, <2>1 DEF Binding, BoundInOrder
  <2>3. PICK k : k = t.nParameters
    OBVIOUS
  <2>4. params = [i \in 1 .. k |-> ReceivedAt(t, positional, names, i - 1)]
    <3>1. params = Received(t, positional, names)
      BY <1>1, <2>1, BoundIsReceived
    <3>. QED BY <2>3, <3>1 DEF Received
  <2>5. \A i \in 1 .. k : completed[i - 1] = ReceivedAt(t, positional, names, i - 1)
    <3>1. k \in Nat /\ Slots(t) = 0 .. k - 1
      BY <1>2, <2>3 DEF IsTable, Slots
    <3>2. \A i \in 1 .. k : i - 1 \in 0 .. k - 1
      BY <3>1
    <3>. QED BY <3>1, <3>2, <1>5 DEF CompletedFor
  <2>6. params = [i \in 1 .. k |-> completed[i - 1]]
    BY <2>4, <2>5
  <2>7. f.signature.nParameters = k
    BY <1>2, <2>3 DEF Describes
  <2>8. f.runs = "body" /\ f.def = d
    BY <1>1 DEF FunctionOf
  <2>9. Enter(f, completed) = [kind |-> "runs", def |-> {d}, params |-> params]
    BY <2>6, <2>7, <2>8 DEF Enter
  <2>. QED BY <2>2, <2>9
<1>. QED BY <1>1, <1>2, <1>4, <1>5 DEF Serves

Runs1To(s, k) == s = [i \in 1 .. k |-> s[i]]

LEMMA Prefixed ==
  ASSUME NEW k \in Nat, NEW x, NEW s, Runs1To(s, k),
         NEW g, Runs1To(g, k + 1), g[1] = x, \A i \in 1 .. k : g[i + 1] = s[i]
  PROVE  Ahead(x, s) = g
<1>1. PICK S : S = {s[i] : i \in 1 .. k} \cup {x}
  OBVIOUS
<1>2. s \in Seq(S) /\ Len(s) = k
  <2>1. s = [i \in 1 .. k |-> s[i]]
    BY DEF Runs1To
  <2>2. s \in Seq({s[i] : i \in 1 .. k}) /\ Len(s) = k
    BY <2>1, SequenceOf
  <2>. QED BY <2>2, <1>1, SeqMonotonic
<1>3. PICK one, u, m : one = <<x>> /\ u = one \o s /\ m = 1
  OBVIOUS
<1>4. one \in Seq(S) /\ Len(one) = 1 /\ one[1] = x
  BY <1>1, <1>3
<1>5. /\ u \in Seq(S) /\ DOMAIN u = 1 .. m + k
      /\ \A i \in 1 .. m : u[i] = one[i]
      /\ \A i \in 1 .. k : u[m + i] = s[i]
  BY <1>2, <1>3, <1>4, Joined
<1>6. u = [i \in 1 .. m + k |-> u[i]]
  BY <1>5, LenProperties
<1>7. m + k = k + 1 /\ 1 \in 1 .. m /\ \A i \in 1 .. k : m + i = i + 1
  BY <1>3
<1>8. \A i \in 1 .. k + 1 : u[i] = g[i]
  <2>. SUFFICES ASSUME NEW i \in 1 .. k + 1 PROVE u[i] = g[i]
    OBVIOUS
  <2>1. CASE i = 1
    BY <2>1, <1>4, <1>5, <1>7
  <2>2. CASE i # 1
    <3>1. i - 1 \in 1 .. k /\ (i - 1) + 1 = i
      BY <2>2
    <3>2. u[m + (i - 1)] = s[i - 1] /\ m + (i - 1) = i
      BY <3>1, <1>5, <1>7
    <3>. QED BY <3>1, <3>2
  <2>. QED BY <2>1, <2>2
<1>9. u = g
  BY <1>6, <1>7, <1>8 DEF Runs1To
<1>. QED BY <1>3, <1>9 DEF Ahead

LEMMA ThunkServes ==
  ASSUME NEW d, WellFormed(d), Table(d).nPositional > 0, NEW kind \in {"init", "new"},
         NEW V, NEW positional \in Seq(V), NEW self \in V,
         self = (IF kind = "init" THEN Instance ELSE ClassArgument),
         NEW names, ~(d.kwargs /\ Named(Table(d), names, 0))
  PROVE  Serves(MethodThunk(kind, FunctionOf(d)), DropFirst(Table(d)), positional, names,
                Binding(d, Ahead(self, positional), names))
<1>1. PICK t, u, g, f, n, all, m :
        /\ t = Table(d) /\ u = DropFirst(t) /\ g = FunctionOf(d) /\ f = MethodThunk(kind, g)
        /\ n = Len(positional) /\ all = Ahead(self, positional) /\ m = Len(all)
  OBVIOUS
<1>2. IsTable(t) /\ Describes(g, t) /\ Fits(t)
  BY <1>1, TableOf, FunctionDescribed, TableFits
<1>3. /\ IsTable(u) /\ Describes(f, u)
      /\ Slots(t) = {0} \cup {s + 1 : s \in Slots(u)}
  BY <1>1, <1>2, ThunkDescribed, TableWithoutFirst
<1>4. PICK k : k = u.nParameters
  OBVIOUS
<1>5. /\ k \in Nat /\ t.nParameters = k + 1 /\ Slots(u) = 0 .. k - 1 /\ Slots(t) = 0 .. k
  <2>1. k = t.nParameters - 1 /\ t.nParameters \in Nat /\ k \in Nat
    BY <1>1, <1>2, <1>3, <1>4 DEF DropFirst, IsTable
  <2>2. t.nParameters = k + 1 /\ (k + 1) - 1 = k
    BY <2>1
  <2>. QED BY <2>1, <2>2, <1>4 DEF Slots
<1>6. Fits(u)
  <2>1. 0 .. k - 1 \subseteq 0 .. k
    BY <1>5
  <2>. QED BY <2>1, <1>2, <1>5 DEF Fits
<1>7. all \in Seq(V)
  <2>1. <<self>> \in Seq(V)
    OBVIOUS
  <2>2. all = <<self>> \o positional
    BY <1>1 DEF Ahead
  <2>. QED BY <2>1, <2>2, ConcatProperties
<1>8. /\ RefusedAt(t, m, names) <=> RefusedAt(u, n, names)
      /\ ReceivedAt(t, all, names, 0) = self
      /\ \A s \in Slots(u) : ReceivedAt(t, all, names, s + 1) = ReceivedAt(u, positional, names, s)
  <2>1. t.nPositional > 0 /\ t.kwargs = d.kwargs
    BY <1>1 DEF Table
  <2>2. ~(t.kwargs /\ Named(t, names, 0))
    BY <2>1, <1>1
  <2>. QED BY <2>1, <2>2, <1>1, <1>2, InstanceBindsFirst
<1>9. Refused(d, all, names) <=> RefusedAt(u, n, names)
  BY <1>1, <1>7, <1>8, RefusalBySlots
<1>10. RefusedAt(u, n, names) => Binding(d, all, names) = TypeError
  BY <1>9 DEF Binding
<1>11. ASSUME ~RefusedAt(u, n, names), NEW completed, CompletedFor(u, positional, names, completed)
       PROVE  Enter(f, completed) = Binding(d, all, names)
  <2>1. PICK params, own : params = BoundInOrder(d, all, names) /\ own = [i \in 1 .. k |-> completed[i - 1]]
    OBVIOUS
  <2>2. Binding(d, all, names) = [kind |-> "runs", def |-> {d}, params |-> params]
    BY <1>9, <1>11, <2>1 DEF Binding, BoundInOrder
  <2>3. params = [i \in 1 .. k + 1 |-> ReceivedAt(t, all, names, i - 1)]
    <3>1. params = Received(t, all, names)
      BY <1>1, <1>7, <2>1, BoundIsReceived
    <3>. QED BY <3>1, <1>5 DEF Received
  <2>4. params[1] = self
    BY <2>3, <1>5, <1>8
  <2>5. ASSUME NEW i \in 1 .. k PROVE params[i + 1] = own[i]
    <3>1. /\ i + 1 \in 1 .. k + 1 /\ (i + 1) - 1 = (i - 1) + 1 /\ i - 1 \in 0 .. k - 1
      BY <1>5
    <3>2. params[i + 1] = ReceivedAt(t, all, names, (i - 1) + 1)
      BY <2>3, <3>1
    <3>3. own[i] = completed[i - 1]
      BY <2>1
    <3>4. completed[i - 1] = ReceivedAt(u, positional, names, i - 1)
      BY <3>1, <1>5, <1>11 DEF CompletedFor
    <3>. QED BY <3>1, <3>2, <3>3, <3>4, <1>5, <1>8
  <2>6. Ahead(self, own) = params
    <3>1. Runs1To(own, k)
      BY <2>1 DEF Runs1To
    <3>2. Runs1To(params, k + 1)
      BY <2>3 DEF Runs1To
    <3>3. k \in Nat
      BY <1>5
    <3>4. \A i \in 1 .. k : params[i + 1] = own[i]
      BY <2>5
    <3>. QED BY <3>1, <3>2, <3>3, <3>4, <2>4, Prefixed
  <2>7. f.signature.nParameters = k
    BY <1>3, <1>4 DEF Describes
  <2>8. f.runs = kind /\ f.def = d
    BY <1>1 DEF MethodThunk, FunctionOf
  <2>9. Enter(f, completed) = [kind |-> "runs", def |-> {d}, params |-> Ahead(self, own)]
    <3>1. CASE kind = "init"
      BY <2>1, <2>7, <2>8, <3>1 DEF Enter, Ahead
    <3>2. CASE kind = "new"
      BY <2>1, <2>7, <2>8, <3>2 DEF Enter, Ahead
    <3>. QED BY <3>1, <3>2
  <2>. QED BY <2>2, <2>6, <2>9
<1>12. Serves(f, u, positional, names, Binding(d, all, names))
  BY <1>1, <1>3, <1>6, <1>10, <1>11 DEF Serves
<1>. QED BY <1>1, <1>12

\* The table of a class without a constructor.
Bare == [name |-> <<>>, nPosonly |-> 0, nPositional |-> 0, firstKwonly |-> 0, nParameters |-> 0,
         varargs |-> FALSE, kwargs |-> FALSE, defaults |-> {}]

PlainInstance(positional, names) ==
  IF positional = <<>> /\ names = <<>>
    THEN [kind |-> "instance", def |-> {}, params |-> <<>>]
  ELSE TypeError

LEMMA PlainServes ==
  ASSUME NEW V, NEW positional \in Seq(V), NEW S, NEW names \in Seq(S)
  PROVE  Serves(PlainInstanceThunk, Bare, positional, names, PlainInstance(positional, names))
<1>1. PICK t, f, n, k : t = Bare /\ f = PlainInstanceThunk /\ n = Len(positional) /\ k = Len(names)
  OBVIOUS
<1>2. /\ t.nPosonly = 0 /\ t.nPositional = 0 /\ t.firstKwonly = 0 /\ t.nParameters = 0
      /\ t.varargs = FALSE /\ t.kwargs = FALSE /\ t.defaults = {}
  BY <1>1 DEF Bare
<1>3. Slots(t) = {}
  BY <1>2 DEF Slots
<1>4. IsTable(t) /\ Fits(t) /\ DefaultSlots(t) = {}
  <2>1. DefaultSlots(t) = {}
    BY <1>3 DEF DefaultSlots
  <2>2. Fits(t)
    BY <1>3 DEF Fits
  <2>3. t.varargs \in BOOLEAN /\ t.kwargs \in BOOLEAN /\ ~t.varargs /\ ~t.kwargs
    BY <1>2
  <2>4. /\ t.nPosonly \in Nat /\ t.nPositional \in Nat /\ t.nPosonly <= t.nPositional
        /\ t.firstKwonly \in Nat /\ t.nParameters \in Nat /\ t.firstKwonly = t.nPositional
        /\ t.nParameters >= t.firstKwonly
    BY <1>2
  <2>. QED BY <2>1, <2>2, <2>3, <2>4, <1>3 DEF IsTable
<1>5. /\ f.signature = [nParameters |-> 0, nPositional |-> 0, nPosonly |-> 0,
                        requiredKeywordOnly |-> FALSE, varargs |-> FALSE,
                        kwargs |-> FALSE, firstDefault |-> 0, mask |-> {}]
      /\ f.defaults = <<>> /\ f.remap = <<>> /\ f.runs = "instance"
  BY <1>1 DEF PlainInstanceThunk
<1>6. Describes(f, t)
  <2>1. KnowsDefaults(f, t)
    <3>1. f.defaults = [i \in 1 .. 0 |-> f.defaults[i]]
      BY <1>5
    <3>. QED BY <3>1, <1>4 DEF KnowsDefaults
  <2>2. f.signature \in Signatures
    BY <1>5 DEF Signatures
  <2>3. DOMAIN f.remap = {}
    BY <1>5
  <2>4. /\ f.signature.nParameters = t.nParameters /\ f.signature.nPositional = t.nPositional
        /\ f.signature.firstDefault = 0 /\ f.signature.mask = {}
    BY <1>2, <1>5
  <2>5. f.signature.varargs = t.varargs /\ f.signature.kwargs = t.kwargs
    <3>1. f.signature.varargs = FALSE /\ f.signature.kwargs = FALSE
      BY <1>5
    <3>. QED BY <3>1, <1>2, Zenon
  <2>6. ~f.signature.requiredKeywordOnly
    BY <1>5
  <2>7. f.signature.mask = {slot - f.signature.firstDefault : slot \in DefaultSlots(t)}
    BY <2>4, <1>4
  <2>8. DOMAIN f.remap = {t.name[slot] : slot \in {u \in Slots(t) : Addressable(t, u)}}
    BY <2>3, <1>3
  <2>9. f.signature.firstDefault \in Nat
    BY <2>4
  <2>. QED BY <2>1, <2>2, <2>4, <2>5, <2>6, <2>7, <2>8, <2>9, <1>3, <1>4 DEF Describes
<1>7. n \in Nat /\ k \in Nat /\ (n = 0 <=> positional = <<>>) /\ (k = 0 <=> names = <<>>)
  BY <1>1, LenProperties, EmptySeq
<1>8. RefusedAt(t, n, names) <=> ~(positional = <<>> /\ names = <<>>)
  <2>1. RefusedAt(t, n, names) <=> n > 0 \/ \E name \in Names(names) : ~Addressed(t, name)
    BY <1>2, <1>3 DEF RefusedAt
  <2>2. \A name : ~Addressed(t, name)
    BY <1>3 DEF Addressed
  <2>3. Names(names) # {} <=> k # 0
    <3>1. DOMAIN names = 1 .. k
      BY <1>1, LenProperties
    <3>2. k # 0 => 1 \in 1 .. k
      BY <1>7
    <3>3. k = 0 => 1 .. k = {}
      BY <1>7
    <3>. QED BY <3>1, <3>2, <3>3 DEF Names
  <2>4. n > 0 <=> n # 0
    BY <1>7
  <2>. QED BY <2>1, <2>2, <2>3, <2>4, <1>7
<1>9. RefusedAt(t, n, names) => PlainInstance(positional, names) = TypeError
  BY <1>8 DEF PlainInstance
<1>10. ASSUME ~RefusedAt(t, n, names), NEW completed
       PROVE  Enter(f, completed) = PlainInstance(positional, names)
  BY <1>5, <1>8, <1>10 DEF Enter, PlainInstance
<1>. QED BY <1>1, <1>4, <1>6, <1>9, <1>10 DEF Serves

\* The function a callable stands for, by the class's constructor.
MadeFor(callable, c) ==
  CASE callable.kind = "function" ->
         [found |-> TRUE, function |-> FunctionOf(callable.def), cell |-> "none"]
    [] callable.kind = "class" ->
         [found |-> ConstructorThunk(c).found, function |-> ConstructorThunk(c).thunk,
          cell |-> "valid"]
    [] callable.kind = "object" ->
         [found |-> FALSE, function |-> PlainInstanceThunk, cell |-> "none"]

IsCallable(callable) ==
  \/ callable.kind = "function" /\ WellFormed(callable.def)
  \/ callable.kind = "class"
  \/ callable.kind = "object"

IsConstructor(c) == c.kind \in {"none", "init", "new", "both"} /\ WellFormed(c.def)

LEMMA SelfIsNotNamed ==
  ASSUME NEW c, IsConstructor(c), c.kind \in {"init", "new"}, NEW s, ~NamesSelf(c, s),
         NEW t, t = Table(c.def), t.nPositional > 0
  PROVE  ~(c.def.kwargs /\ Named(t, s.names, 0))
<1>. SUFFICES ASSUME c.def.kwargs, Named(t, s.names, 0) PROVE NamesSelf(c, s)
  OBVIOUS
<1>1. PICK d, a, b, n : d = c.def /\ a = Len(d.posonly) /\ b = Len(d.poskw) /\ n = Parameters(d)
  OBVIOUS
<1>2. WellFormed(d) /\ a \in Nat /\ b \in Nat /\ n \in Nat
  BY <1>1, OrderLayout DEF IsConstructor
<1>3. /\ IsTable(t) /\ t.nPosonly = a /\ t.nPositional = a + b /\ t.nParameters = n
      /\ t.name = [slot \in 0 .. n - 1 |-> NameAt(d, slot)]
  BY <1>1, <1>2, TableOf DEF Table, Positional
<1>4. 0 >= a /\ t.name[0] \in Names(s.names)
  BY <1>3 DEF Named, Addressable
<1>5. a = 0 /\ b > 0 /\ n >= a + b
  <2>1. t.nParameters >= t.nPositional
    BY <1>3 DEF IsTable
  <2>. QED BY <2>1, <1>2, <1>3, <1>4
<1>6. 1 \in 1 .. b /\ a + 1 - 1 = 0 /\ 0 \in 0 .. n - 1
  BY <1>2, <1>5
<1>7. NameAt(d, a + 1 - 1) = d.poskw[1]
  BY <1>1, <1>2, <1>6, OrderLayout
<1>8. d.poskw[1] \in Names(s.names)
  BY <1>3, <1>4, <1>6, <1>7
<1>9. d.posonly = <<>> /\ d.poskw # <<>>
  <2>1. PICK S : d.posonly \in Seq(S) /\ d.poskw \in Seq(S)
    BY <1>2, GroupsAreSequences
  <2>2. d.posonly # <<>> => Len(d.posonly) # 0
    BY <2>1, EmptySeq
  <2>3. Len(<<>>) = 0
    BY EmptySeq
  <2>. QED BY <2>2, <2>3, <1>1, <1>5
<1>. QED BY <1>1, <1>8, <1>9 DEF NamesSelf

(* Whatever is called, the function that the site is given for it accepts  *)
(* and does what the language says; where there is none, the language, or  *)
(* the interpreter's rule for constructors, refuses every call.            *)
LEMMA CallableServes ==
  ASSUME NEW callable, IsCallable(callable), NEW c, IsConstructor(c), NEW s, ~NamesSelf(c, s),
         NEW V, NEW positional \in Seq(V), Instance \in V, ClassArgument \in V,
         NEW S, NEW names \in Seq(S), names = s.names,
         NEW made, made = MadeFor(callable, c),
         NEW meaning, meaning = Meaning(callable, positional, names, c)
  PROVE  /\ ~made.found => meaning = TypeError
         /\ made.found => \E t : Serves(made.function, t, positional, names, meaning)
<1>1. CASE callable.kind = "function"
  <2>1. WellFormed(callable.def)
    BY <1>1 DEF IsCallable
  <2>2. made = [found |-> TRUE, function |-> FunctionOf(callable.def), cell |-> "none"]
    BY <1>1 DEF MadeFor
  <2>3. meaning = Binding(callable.def, positional, names)
    BY <1>1 DEF Meaning
  <2>4. Serves(FunctionOf(callable.def), Table(callable.def), positional, names,
               Binding(callable.def, positional, names))
    BY <2>1, FunctionServes
  <2>. QED BY <2>2, <2>3, <2>4
<1>2. CASE callable.kind = "object"
  <2>1. made = [found |-> FALSE, function |-> PlainInstanceThunk, cell |-> "none"]
    BY <1>2 DEF MadeFor
  <2>2. meaning = TypeError
    BY <1>2 DEF Meaning
  <2>. QED BY <2>1, <2>2
<1>3. CASE callable.kind = "class"
  <2>1. PICK r : r = ConstructorThunk(c)
    OBVIOUS
  <2>2. made.found = r.found /\ made.function = r.thunk
    BY <1>3, <2>1 DEF MadeFor
  <2>3. meaning = Constructs(c, positional, names)
    BY <1>3 DEF Meaning
  <2>4. CASE c.kind = "none"
    <3>1. r = [found |-> TRUE, thunk |-> PlainInstanceThunk]
      BY <2>1, <2>4 DEF ConstructorThunk
    <3>2. meaning = PlainInstance(positional, names)
      BY <2>3, <2>4 DEF Constructs, PlainInstance
    <3>3. Serves(PlainInstanceThunk, Bare, positional, names, PlainInstance(positional, names))
      BY PlainServes
    <3>. QED BY <2>2, <3>1, <3>2, <3>3
  <2>5. CASE c.kind = "both"
    <3>1. r = [found |-> FALSE, thunk |-> PlainInstanceThunk]
      BY <2>1, <2>5 DEF ConstructorThunk
    <3>2. meaning = TypeError
      BY <2>3, <2>5 DEF Constructs
    <3>. QED BY <2>2, <3>1, <3>2
  <2>6. CASE c.kind \in {"init", "new"}
    <3>1. PICK d, t, np : d = c.def /\ t = Table(d) /\ np = t.nPositional
      OBVIOUS
    <3>2. WellFormed(d) /\ np \in Nat /\ Signature(d).nPositional = np
      <4>1. WellFormed(d)
        BY <3>1 DEF IsConstructor
      <4>2. np = Len(d.posonly) + Len(d.poskw)
        BY <3>1 DEF Table, Positional
      <4>3. np \in Nat
        BY <4>1, <3>1, TableOf DEF IsTable
      <4>4. Signature(d).nPositional = Len(d.posonly) + Len(d.poskw)
        BY DEF Signature
      <4>. QED BY <4>1, <4>2, <4>3, <4>4
    <3>3. d.posonly \o d.poskw = <<>> <=> np = 0
      <4>1. PICK by : by = ByPosition(d)
        OBVIOUS
      <4>2. NamesLie(d, t, by, np)
        BY <3>1, <3>2, <4>1, NamesBySlots
      <4>3. by \in Seq(Names(by)) /\ Len(by) = np
        BY <4>2 DEF NamesLie
      <4>4. by # <<>> => np # 0
        BY <4>3, EmptySeq
      <4>5. by = <<>> => np = 0
        BY <4>3, EmptySeq
      <4>. QED BY <4>1, <4>4, <4>5 DEF ByPosition
    <3>4. CASE np = 0
      <4>1. r = [found |-> FALSE, thunk |-> PlainInstanceThunk]
        BY <2>1, <2>6, <3>1, <3>2, <3>4 DEF ConstructorThunk
      <4>2. meaning = TypeError
        BY <2>3, <2>6, <3>1, <3>3, <3>4 DEF Constructs
      <4>. QED BY <2>2, <4>1, <4>2
    <3>5. CASE np # 0
      <4>1. r = [found |-> TRUE, thunk |-> MethodThunk(c.kind, FunctionOf(d))]
        BY <2>1, <2>6, <3>1, <3>2, <3>5 DEF ConstructorThunk
      <4>2. PICK self : self = (IF c.kind = "init" THEN Instance ELSE ClassArgument)
        OBVIOUS
      <4>3. meaning = Binding(d, Ahead(self, positional), names)
        BY <2>3, <2>6, <3>1, <3>3, <3>5, <4>2 DEF Constructs, Ahead
      <4>4. t.nPositional > 0 /\ self \in V
        BY <3>1, <3>2, <3>5, <4>2
      <4>5. ~(d.kwargs /\ Named(t, names, 0))
        BY <2>6, <3>1, <4>4, SelfIsNotNamed
      <4>6. Serves(MethodThunk(c.kind, FunctionOf(d)), DropFirst(t), positional, names,
                   Binding(d, Ahead(self, positional), names))
        BY <2>6, <3>1, <3>2, <4>2, <4>4, <4>5, ThunkServes
      <4>. QED BY <2>2, <4>1, <4>3, <4>6
    <3>. QED BY <3>4, <3>5
  <2>. QED BY <2>4, <2>5, <2>6 DEF IsConstructor
<1>. QED BY <1>1, <1>2, <1>3 DEF IsCallable

-----------------------------------------------------------------------------
(* What a call comes to.                                                   *)

PositionalAnswer(made, window, n) ==
  IF made.found /\ AcceptsPositionalOnly(made.function, n)
    THEN Enter(made.function,
               CompletePositional(window, made.function, n, PositionalAdaptation(made.function, n)))
  ELSE TypeError

WithoutKeywords(s) == s.names = <<>>

LEMMA PositionalAnswered ==
  ASSUME NEW callable, IsCallable(callable), NEW c, IsConstructor(c), NEW s, ~NamesSelf(c, s),
         WithoutKeywords(s),
         NEW V, NEW positional \in Seq(V), Instance \in V, ClassArgument \in V,
         NEW n, n = Len(positional), NEW window, Holds(window, positional, n)
  PROVE  PositionalAnswer(MadeFor(callable, c), window, n) = Meaning(callable, positional, s.names, c)
<1>1. PICK made, names, meaning :
        made = MadeFor(callable, c) /\ names = s.names /\ meaning = Meaning(callable, positional, names, c)
  OBVIOUS
<1>2. names = <<>> /\ names \in Seq(V) /\ n \in Nat
  BY <1>1, EmptySeq, LenProperties DEF WithoutKeywords
<1>3. /\ ~made.found => meaning = TypeError
      /\ made.found => \E t : Serves(made.function, t, positional, names, meaning)
  <2>1. names \in Seq(V)
    BY <1>2
  <2>. QED BY <1>1, <2>1, CallableServes
<1>4. CASE ~made.found
  BY <1>1, <1>3, <1>4 DEF PositionalAnswer
<1>5. CASE made.found
  <2>1. PICK t : Serves(made.function, t, positional, names, meaning)
    BY <1>3, <1>5
  <2>2. PICK f : f = made.function
    OBVIOUS
  <2>3. /\ IsTable(t) /\ Describes(f, t) /\ Fits(t)
        /\ RefusedAt(t, n, names) => meaning = TypeError
        /\ ~RefusedAt(t, n, names) =>
             \A completed : CompletedFor(t, positional, names, completed) => Enter(f, completed) = meaning
    BY <2>1, <2>2 DEF Serves
  <2>4. AcceptsPositionalOnly(f, n) <=> ~RefusedAt(t, n, names)
    BY <1>2, <2>3, PositionalAccepted
  <2>5. ASSUME ~RefusedAt(t, n, names)
        PROVE  CompletedFor(t, positional, names, CompletePositional(window, f, n, PositionalAdaptation(f, n)))
    <3>1. ~RefusedAt(t, n, <<>>)
      BY <1>2, <2>5
    <3>2. \A slot \in Slots(t) : CompletePositional(window, f, n, PositionalAdaptation(f, n))[slot]
                                   = ReceivedAt(t, positional, <<>>, slot)
      BY <3>1, <2>3, PositionalCompleted
    <3>. QED BY <3>2, <1>2 DEF CompletedFor
  <2>6. PositionalAnswer(made, window, n) =
          IF AcceptsPositionalOnly(f, n)
            THEN Enter(f, CompletePositional(window, f, n, PositionalAdaptation(f, n)))
          ELSE TypeError
    BY <1>5, <2>2 DEF PositionalAnswer
  <2>7. PositionalAnswer(made, window, n) = meaning
    BY <2>3, <2>4, <2>5, <2>6
  <2>. QED BY <2>7, <1>1
<1>. QED BY <1>4, <1>5

\* What the keyword call's cache entry says of the function.
KeywordPlan(e, f, n, names) ==
  /\ e.function = f /\ e.adaptation = KeywordAdaptation(f)
  /\ e.start = Greater(Lesser(n, f.signature.nPositional), f.signature.firstDefault)
  /\ e.dests = KeywordDests(f, names)

LEMMA KeywordAnswered ==
  ASSUME NEW callable, IsCallable(callable), NEW c, IsConstructor(c), NEW s, ~NamesSelf(c, s),
         NEW S, NEW names \in Seq(S), names = s.names,
         \A i, j \in DOMAIN names : names[i] = names[j] => i = j,
         NEW V, NEW positional \in Seq(V), Instance \in V, ClassArgument \in V,
         NEW n, n = Len(positional), NEW window, Holds(window, positional, n),
         NEW made, made = MadeFor(callable, c)
  PROVE  /\ ~(made.found /\ KeywordsBind(made.function, n, names)) =>
              Meaning(callable, positional, names, c) = TypeError
         /\ made.found /\ KeywordsBind(made.function, n, names) =>
              \A e : KeywordPlan(e, made.function, n, names) =>
                       Enter(e.function, CompleteKeyword(window, e, n, names))
                         = Meaning(callable, positional, names, c)
<1>1. PICK meaning : meaning = Meaning(callable, positional, names, c)
  OBVIOUS
<1>2. n \in Nat
  BY LenProperties
<1>3. /\ ~made.found => meaning = TypeError
      /\ made.found => \E t : Serves(made.function, t, positional, names, meaning)
  BY <1>1, CallableServes
<1>4. CASE ~made.found
  BY <1>1, <1>3, <1>4
<1>5. CASE made.found
  <2>1. PICK t : Serves(made.function, t, positional, names, meaning)
    BY <1>3, <1>5
  <2>2. PICK f : f = made.function
    OBVIOUS
  <2>3. /\ IsTable(t) /\ Describes(f, t) /\ Fits(t)
        /\ RefusedAt(t, n, names) => meaning = TypeError
        /\ ~RefusedAt(t, n, names) =>
             \A completed : CompletedFor(t, positional, names, completed) => Enter(f, completed) = meaning
    BY <2>1, <2>2 DEF Serves
  <2>4. KeywordsBind(f, n, names) <=> ~RefusedAt(t, n, names)
    BY <1>2, <2>3, KeywordsAccepted
  <2>5. ASSUME ~RefusedAt(t, n, names), NEW e, KeywordPlan(e, f, n, names)
        PROVE  CompletedFor(t, positional, names, CompleteKeyword(window, e, n, names))
    <3>1. /\ e.function = f /\ e.adaptation = KeywordAdaptation(f)
          /\ e.start = Greater(Lesser(n, f.signature.nPositional), f.signature.firstDefault)
          /\ e.dests = KeywordDests(f, names)
      BY <2>5 DEF KeywordPlan
    <3>2. \A slot \in Slots(t) : CompleteKeyword(window, e, n, names)[slot]
                                   = ReceivedAt(t, positional, names, slot)
      BY <3>1, <2>3, <2>5, KeywordCompleted
    <3>. QED BY <3>2 DEF CompletedFor
  <2>6. \A e : KeywordPlan(e, f, n, names) => e.function = f
    BY DEF KeywordPlan
  <2>. QED BY <1>1, <1>5, <2>2, <2>3, <2>4, <2>5, <2>6
<1>. QED BY <1>4, <1>5

\* The arguments of a call, with the receiver when the method is bound.
Arguments(s) == [i \in 1 .. s.n |-> Argument(i)]
Passed(s, bound) == IF bound THEN Ahead(Receiver, Arguments(s)) ELSE Arguments(s)
Given(s, bound) == s.n + (IF bound THEN 1 ELSE 0)
ArgumentValues == {Argument(i) : i \in Nat} \cup {Receiver, Instance, ClassArgument}

LEMMA ArgumentsPassed ==
  ASSUME NEW s, WellFormedSite(s), NEW bound \in BOOLEAN
  PROVE  /\ Passed(s, bound) \in Seq(ArgumentValues) /\ Len(Passed(s, bound)) = Given(s, bound)
         /\ \A i \in 1 .. s.n : Passed(s, FALSE)[i] = Argument(i)
         /\ Passed(s, TRUE)[1] = Receiver
         /\ \A i \in 1 .. s.n : Passed(s, TRUE)[i + 1] = Argument(i)
<1>1. PICK n, plain, full, V : /\ n = s.n /\ plain = Arguments(s) /\ full = Ahead(Receiver, plain)
                               /\ V = ArgumentValues
  OBVIOUS
<1>2. n \in Nat
  BY <1>1 DEF WellFormedSite
<1>3. plain = [i \in 1 .. n |-> Argument(i)] /\ plain = [i \in 1 .. n |-> plain[i]]
  BY <1>1 DEF Arguments
<1>4. plain \in Seq(V) /\ Len(plain) = n
  <2>1. plain \in Seq({plain[i] : i \in 1 .. n}) /\ Len(plain) = n
    <3>1. plain = [i \in 1 .. n |-> plain[i]]
      BY <1>3
    <3>. QED BY <3>1, <1>2, SequenceOf
  <2>2. {plain[i] : i \in 1 .. n} \subseteq V
    BY <1>1, <1>2, <1>3 DEF ArgumentValues
  <2>. QED BY <2>1, <2>2, SeqMonotonic
<1>5. PICK one, k : one = <<Receiver>> /\ k = 1
  OBVIOUS
<1>6. one \in Seq(V) /\ Len(one) = k /\ one[1] = Receiver /\ full = one \o plain
  BY <1>1, <1>5 DEF ArgumentValues, Ahead
<1>7. /\ full \in Seq(V) /\ Len(full) = k + n
      /\ \A i \in 1 .. k : full[i] = one[i]
      /\ \A i \in 1 .. n : full[k + i] = plain[i]
  <2>1. one \in Seq(V) /\ k = Len(one) /\ plain \in Seq(V) /\ n = Len(plain) /\ full = one \o plain
    BY <1>4, <1>6
  <2>. QED BY <2>1, Joined
<1>8. full[1] = Receiver /\ \A i \in 1 .. n : full[i + 1] = Argument(i)
  <2>1. 1 \in 1 .. k /\ \A i \in 1 .. n : k + i = i + 1
    BY <1>2, <1>5
  <2>. QED BY <2>1, <1>3, <1>6, <1>7
<1>9. k + n = n + 1 /\ n + 0 = n
  BY <1>2, <1>5
<1>10. Passed(s, TRUE) = full /\ Passed(s, FALSE) = plain
  BY <1>1 DEF Passed
<1>11. Given(s, TRUE) = n + 1 /\ Given(s, FALSE) = n + 0
  BY <1>1 DEF Given
<1>12. \A i \in 1 .. n : plain[i] = Argument(i)
  BY <1>3
<1>13. CASE bound = TRUE
  BY <1>1, <1>7, <1>8, <1>9, <1>10, <1>11, <1>12, <1>13
<1>14. CASE bound = FALSE
  BY <1>1, <1>4, <1>8, <1>9, <1>10, <1>11, <1>12, <1>14
<1>. QED BY <1>13, <1>14

(* The window a call starts from holds what is passed to it.               *)
LEMMA CallerHolds ==
  ASSUME WellFormedSite(site), ~site.method
  PROVE  Holds(CallerWindow, Passed(site, FALSE), Given(site, FALSE))
<1>1. PICK n : n = site.n
  OBVIOUS
<1>2. n \in Nat /\ n < WindowSize /\ Given(site, FALSE) = n
  BY <1>1 DEF WellFormedSite, Given
<1>3. ASSUME NEW slot \in 0 .. n - 1 PROVE CallerWindow[slot] = Passed(site, FALSE)[slot + 1]
  <2>1. slot \in 0 .. WindowSize - 1 /\ slot < n /\ slot + 1 \in 1 .. n
    BY <1>2, WindowSizeAssumption
  <2>2. CallerWindow[slot] = Argument(slot + 1)
    BY <2>1, <1>1 DEF CallerWindow
  <2>. QED BY <2>1, <2>2, <1>1, ArgumentsPassed
<1>4. DOMAIN CallerWindow = 0 .. WindowSize - 1
  BY DEF CallerWindow
<1>. QED BY <1>2, <1>3, <1>4 DEF Holds

LEMMA MethodHolds ==
  ASSUME WellFormedSite(site), site.method, NEW bound \in BOOLEAN
  PROVE  Holds(MethodWindow(bound), Passed(site, bound), Given(site, bound))
<1>1. PICK n, w : n = site.n /\ w = CallerWindow
  OBVIOUS
<1>2. n \in Nat /\ n < WindowSize /\ n + 0 = n
  BY <1>1 DEF WellFormedSite
<1>3. w = [slot \in 0 .. WindowSize - 1 |->
             IF slot = 0 THEN Receiver ELSE IF slot <= n THEN Argument(slot) ELSE Junk]
  BY <1>1 DEF CallerWindow
<1>4. CASE bound
  <2>1. MethodWindow(bound) = w /\ Given(site, bound) = n + 1 /\ Passed(site, bound) = Passed(site, TRUE)
    BY <1>1, <1>4 DEF MethodWindow, Given, Passed
  <2>2. ASSUME NEW slot \in 0 .. (n + 1) - 1 PROVE w[slot] = Passed(site, TRUE)[slot + 1]
    <3>1. slot \in 0 .. WindowSize - 1 /\ slot <= n /\ slot \in Nat
      BY <1>2, WindowSizeAssumption
    <3>2. CASE slot = 0
      <4>1. w[slot] = Receiver /\ slot + 1 = 1
        BY <3>1, <3>2, <1>3
      <4>2. Passed(site, TRUE)[1] = Receiver
        BY ArgumentsPassed
      <4>. QED BY <4>1, <4>2
    <3>3. CASE slot # 0
      <4>1. slot \in 1 .. n
        BY <3>1, <3>3, <1>2
      <4>. QED BY <4>1, <3>1, <3>3, <1>1, <1>3, ArgumentsPassed
    <3>. QED BY <3>2, <3>3
  <2>3. DOMAIN w = 0 .. WindowSize - 1
    BY <1>3
  <2>. QED BY <2>1, <2>2, <2>3 DEF Holds
<1>5. CASE ~bound
  <2>1. /\ MethodWindow(bound) = [slot \in 0 .. WindowSize - 1 |-> IF slot < n THEN w[slot + 1] ELSE w[slot]]
        /\ Given(site, bound) = n /\ Passed(site, bound) = Passed(site, FALSE)
    BY <1>1, <1>2, <1>5 DEF MethodWindow, Given, Passed
  <2>2. ASSUME NEW slot \in 0 .. n - 1 PROVE MethodWindow(bound)[slot] = Passed(site, FALSE)[slot + 1]
    <3>1. /\ slot \in 0 .. WindowSize - 1 /\ slot < n /\ slot + 1 \in 1 .. n
          /\ slot + 1 \in 0 .. WindowSize - 1 /\ slot + 1 # 0 /\ slot + 1 <= n
      BY <1>2, WindowSizeAssumption
    <3>2. MethodWindow(bound)[slot] = w[slot + 1]
      BY <2>1, <3>1
    <3>3. w[slot + 1] = Argument(slot + 1)
      BY <3>1, <1>3
    <3>. QED BY <3>1, <3>2, <3>3, <1>1, ArgumentsPassed
  <2>3. DOMAIN MethodWindow(bound) = 0 .. WindowSize - 1
    BY <2>1
  <2>. QED BY <2>1, <2>2, <2>3 DEF Holds
<1>. QED BY <1>4, <1>5

-----------------------------------------------------------------------------
(* The cache, whatever calls filled it.                                    *)

\* The entry is the one that a call of the callable would make.
MadeEntry(e, callable, c, s) ==
  LET made == MadeFor(callable, c)
  IN /\ IsCallable(callable)
     /\ made.found /\ e.guard = callable /\ e.function = made.function /\ e.cell = made.cell
     /\ s.names = <<>> =>
          /\ AcceptsPositionalOnly(made.function, e.n)
          /\ e.adaptation = PositionalAdaptation(made.function, e.n)
     /\ s.names # <<>> =>
          KeywordsBind(made.function, e.n, s.names) /\ KeywordPlan(e, made.function, e.n, s.names)

IsEntry(e) ==
  e = [guard |-> e.guard, function |-> e.function, cell |-> e.cell, n |-> e.n,
       adaptation |-> e.adaptation, start |-> e.start, dests |-> e.dests]

CacheSound ==
  /\ IsEntry(cache)
  /\ \/ cache.guard.kind = "empty"
     \/ cache.cell = "invalid"
     \/ MadeEntry(cache, cache.guard, constructor, site)

LEMMA MadeNow ==
  ASSUME NEW callable
  PROVE  FunctionFor(callable) = MadeFor(callable, constructor)
BY DEF FunctionFor, MadeFor

LEMMA CachedIsMade ==
  ASSUME CacheSound, NEW callable, IsCallable(callable), NEW n, CacheMatches(callable, n)
  PROVE  MadeEntry(cache, callable, constructor, site) /\ cache.n = n /\ IsEntry(cache)
<1>1. cache.n = n /\ cache.guard = callable /\ cache.cell # "invalid"
  BY DEF CacheMatches
<1>2. callable.kind # "empty"
  BY DEF IsCallable
<1>. QED BY <1>1, <1>2 DEF CacheSound

\* What a call of the instruction leaves behind.
CallDone(callable, bound, meaning) ==
  /\ lastCall' = [callable |-> callable, bound |-> bound, constructor |-> constructor,
                  outcome |-> meaning]
  /\ UNCHANGED <<callProgram, site, constructor>>
  /\ CacheSound'

LEMMA PositionalCallDone ==
  ASSUME NEW callable, IsCallable(callable), NEW bound \in BOOLEAN, NEW n, NEW window,
         CacheSound, WithoutKeywords(site),
         PositionalCall(callable, bound, window, n)
  PROVE  CallDone(callable, bound, PositionalAnswer(MadeFor(callable, constructor), window, n))
<1>1. PICK made, f : made = MadeFor(callable, constructor) /\ f = made.function
  OBVIOUS
<1>. DEFINE entries == IF CacheMatches(callable, n) THEN {cache} ELSE PositionalEntry(callable, n)
<1>2. entries = (IF CacheMatches(callable, n) THEN {cache} ELSE PositionalEntry(callable, n))
  OBVIOUS
<1>3. /\ cache' = IF entries = {} THEN cache ELSE CHOOSE e \in entries : TRUE
      /\ lastCall' = [callable |-> callable, bound |-> bound, constructor |-> constructor,
                      outcome |-> IF entries = {} THEN TypeError
                                  ELSE Enter(cache'.function,
                                             CompletePositional(window, cache'.function, n, cache'.adaptation))]
      /\ UNCHANGED <<callProgram, site, constructor>>
  BY Zenon DEF PositionalCall, Perform
<1>. HIDE DEF entries
<1>4. PositionalEntry(callable, n) =
        IF made.found /\ AcceptsPositionalOnly(f, n)
          THEN {[guard |-> callable, function |-> f, cell |-> made.cell, n |-> n,
                 adaptation |-> PositionalAdaptation(f, n), start |-> 0, dests |-> <<>>]}
        ELSE {}
  BY <1>1, MadeNow DEF PositionalEntry
<1>5. site.names = <<>>
  BY DEF WithoutKeywords
<1>6. CASE entries = {}
  <2>1. ~CacheMatches(callable, n) /\ ~(made.found /\ AcceptsPositionalOnly(f, n))
    BY <1>2, <1>4, <1>6
  <2>2. PositionalAnswer(made, window, n) = TypeError
    BY <2>1, <1>1 DEF PositionalAnswer
  <2>3. cache' = cache /\ CacheSound'
    BY <1>3, <1>6 DEF CacheSound
  <2>. QED BY <2>2, <2>3, <1>1, <1>3, <1>6 DEF CallDone
<1>7. CASE entries # {}
  <2>1. PICK e : e = cache'
    OBVIOUS
  <2>2. MadeEntry(e, callable, constructor, site) /\ e.n = n /\ IsEntry(e)
    <3>1. CASE CacheMatches(callable, n)
      <4>1. e = cache
        BY <1>2, <1>3, <1>7, <2>1, <3>1
      <4>. QED BY <4>1, <3>1, CachedIsMade
    <3>2. CASE ~CacheMatches(callable, n)
      <4>1. /\ made.found /\ AcceptsPositionalOnly(f, n)
            /\ e = [guard |-> callable, function |-> f, cell |-> made.cell, n |-> n,
                    adaptation |-> PositionalAdaptation(f, n), start |-> 0, dests |-> <<>>]
        BY <1>2, <1>3, <1>4, <1>7, <2>1, <3>2
      <4>2. IsEntry(e)
        BY <4>1 DEF IsEntry
      <4>. QED BY <4>1, <4>2, <1>1, <1>5 DEF MadeEntry
    <3>. QED BY <3>1, <3>2
  <2>3. /\ made.found /\ AcceptsPositionalOnly(f, n) /\ e.guard = callable
        /\ e.function = f /\ e.adaptation = PositionalAdaptation(f, n)
    BY <2>2, <1>1, <1>5 DEF MadeEntry
  <2>4. Enter(e.function, CompletePositional(window, e.function, n, e.adaptation))
          = PositionalAnswer(made, window, n)
    BY <2>3, <1>1 DEF PositionalAnswer
  <2>5. CacheSound'
    BY <2>1, <2>2, <2>3, <1>3 DEF CacheSound
  <2>. QED BY <2>1, <2>4, <2>5, <1>1, <1>3, <1>7 DEF CallDone
<1>. QED BY <1>6, <1>7

LEMMA KeywordCallDone ==
  ASSUME NEW callable, IsCallable(callable), NEW bound \in BOOLEAN, NEW n, NEW window,
         CacheSound, site.names # <<>>, NEW meaning, NEW made, made = MadeFor(callable, constructor),
         ~(made.found /\ KeywordsBind(made.function, n, site.names)) => meaning = TypeError,
         made.found /\ KeywordsBind(made.function, n, site.names) =>
           \A e : KeywordPlan(e, made.function, n, site.names) =>
                    Enter(e.function, CompleteKeyword(window, e, n, site.names)) = meaning,
         KeywordCall(callable, bound, window, n)
  PROVE  CallDone(callable, bound, meaning)
<1>1. PICK f : f = made.function
  OBVIOUS
<1>. DEFINE entries == IF CacheMatches(callable, n) THEN {cache}
                       ELSE KeywordEntry(callable, n, site.names)
<1>2. entries = (IF CacheMatches(callable, n) THEN {cache} ELSE KeywordEntry(callable, n, site.names))
  OBVIOUS
<1>3. /\ cache' = IF entries = {} THEN cache ELSE CHOOSE e \in entries : TRUE
      /\ lastCall' = [callable |-> callable, bound |-> bound, constructor |-> constructor,
                      outcome |-> IF entries = {} THEN TypeError
                                  ELSE Enter(cache'.function, CompleteKeyword(window, cache', n, site.names))]
      /\ UNCHANGED <<callProgram, site, constructor>>
  BY Zenon DEF KeywordCall, Perform
<1>. HIDE DEF entries
<1>4. KeywordEntry(callable, n, site.names) =
        IF made.found /\ KeywordsBind(f, n, site.names)
          THEN {[guard |-> callable, function |-> f, cell |-> made.cell, n |-> n,
                 adaptation |-> KeywordAdaptation(f),
                 start |-> Greater(Lesser(n, f.signature.nPositional), f.signature.firstDefault),
                 dests |-> KeywordDests(f, site.names)]}
        ELSE {}
  BY <1>1, MadeNow DEF KeywordEntry
<1>5. CASE entries = {}
  <2>1. ~CacheMatches(callable, n) /\ ~(made.found /\ KeywordsBind(f, n, site.names))
    BY <1>2, <1>4, <1>5
  <2>2. meaning = TypeError
    BY <2>1, <1>1
  <2>3. cache' = cache /\ CacheSound'
    BY <1>3, <1>5 DEF CacheSound
  <2>. QED BY <2>2, <2>3, <1>3, <1>5 DEF CallDone
<1>6. CASE entries # {}
  <2>1. PICK e : e = cache'
    OBVIOUS
  <2>2. MadeEntry(e, callable, constructor, site) /\ e.n = n /\ IsEntry(e)
    <3>1. CASE CacheMatches(callable, n)
      <4>1. e = cache
        BY <1>2, <1>3, <1>6, <2>1, <3>1
      <4>. QED BY <4>1, <3>1, CachedIsMade
    <3>2. CASE ~CacheMatches(callable, n)
      <4>1. /\ made.found /\ KeywordsBind(f, n, site.names)
            /\ e = [guard |-> callable, function |-> f, cell |-> made.cell, n |-> n,
                    adaptation |-> KeywordAdaptation(f),
                    start |-> Greater(Lesser(n, f.signature.nPositional), f.signature.firstDefault),
                    dests |-> KeywordDests(f, site.names)]
        BY <1>2, <1>3, <1>4, <1>6, <2>1, <3>2
      <4>2. IsEntry(e)
        BY <4>1 DEF IsEntry
      <4>. QED BY <4>1, <4>2, <1>1 DEF MadeEntry, KeywordPlan
    <3>. QED BY <3>1, <3>2
  <2>3. /\ made.found /\ KeywordsBind(f, n, site.names) /\ e.guard = callable
        /\ KeywordPlan(e, f, n, site.names)
    BY <2>2, <1>1 DEF MadeEntry
  <2>4. Enter(e.function, CompleteKeyword(window, e, n, site.names)) = meaning
    BY <2>3, <1>1
  <2>5. CacheSound'
    BY <2>1, <2>2, <2>3, <1>3 DEF CacheSound
  <2>. QED BY <2>1, <2>4, <2>5, <1>3, <1>6 DEF CallDone
<1>. QED BY <1>5, <1>6

(* Both kinds of call, for a window that holds what is passed.             *)
LEMMA PositionalCallBinds ==
  ASSUME NEW callable, IsCallable(callable), NEW bound \in BOOLEAN, NEW window,
         IsConstructor(constructor), ~NamesSelf(constructor, site), WellFormedSite(site),
         CacheSound, site.names = <<>>, Holds(window, Passed(site, bound), Given(site, bound)),
         PositionalCall(callable, bound, window, Given(site, bound))
  PROVE  CallDone(callable, bound, Meaning(callable, Passed(site, bound), site.names, constructor))
<1>1. PICK n, positional : n = Given(site, bound) /\ positional = Passed(site, bound)
  OBVIOUS
<1>2. WithoutKeywords(site)
  BY DEF WithoutKeywords
<1>3. positional \in Seq(ArgumentValues) /\ n = Len(positional)
  BY <1>1, ArgumentsPassed
<1>4. Instance \in ArgumentValues /\ ClassArgument \in ArgumentValues
  BY DEF ArgumentValues
<1>5. PositionalAnswer(MadeFor(callable, constructor), window, n)
        = Meaning(callable, positional, site.names, constructor)
  <2>1. Holds(window, positional, n)
    BY <1>1
  <2>. QED BY <2>1, <1>2, <1>3, <1>4, PositionalAnswered
<1>6. PositionalCall(callable, bound, window, n)
  BY <1>1
<1>7. CallDone(callable, bound, PositionalAnswer(MadeFor(callable, constructor), window, n))
  BY <1>2, <1>6, PositionalCallDone
<1>. QED BY <1>1, <1>5, <1>7

LEMMA KeywordCallBinds ==
  ASSUME NEW callable, IsCallable(callable), NEW bound \in BOOLEAN, NEW window,
         IsConstructor(constructor), ~NamesSelf(constructor, site), WellFormedSite(site),
         CacheSound, site.names # <<>>, Holds(window, Passed(site, bound), Given(site, bound)),
         KeywordCall(callable, bound, window, Given(site, bound))
  PROVE  CallDone(callable, bound, Meaning(callable, Passed(site, bound), site.names, constructor))
<1>1. PICK n, positional, names, S, made, meaning :
        /\ n = Given(site, bound) /\ positional = Passed(site, bound) /\ names = site.names
        /\ S = Names(site.names) \ {"*", "**"} /\ made = MadeFor(callable, constructor)
        /\ meaning = Meaning(callable, positional, names, constructor)
  OBVIOUS
<1>2. names \in Seq(S) /\ \A i, j \in DOMAIN names : names[i] = names[j] => i = j
  BY <1>1 DEF WellFormedSite
<1>3. positional \in Seq(ArgumentValues) /\ n = Len(positional)
  BY <1>1, ArgumentsPassed
<1>4. Instance \in ArgumentValues /\ ClassArgument \in ArgumentValues
  BY DEF ArgumentValues
<1>5. /\ ~(made.found /\ KeywordsBind(made.function, n, names)) => meaning = TypeError
      /\ made.found /\ KeywordsBind(made.function, n, names) =>
           \A e : KeywordPlan(e, made.function, n, names) =>
                    Enter(e.function, CompleteKeyword(window, e, n, names)) = meaning
  <2>1. Holds(window, positional, n)
    BY <1>1
  <2>. QED BY <2>1, <1>1, <1>2, <1>3, <1>4, KeywordAnswered
<1>6. KeywordCall(callable, bound, window, n)
  BY <1>1
<1>7. CallDone(callable, bound, meaning)
  BY <1>1, <1>5, <1>6, KeywordCallDone
<1>. QED BY <1>1, <1>7

-----------------------------------------------------------------------------
(* The specification.                                                      *)

CallInvariant(programs, sites) ==
  /\ callProgram \in programs /\ site \in sites /\ constructor \in callProgram.constructors
  /\ CacheSound
  /\ CallsBindLikePython

LEMMA PartsAreWellFormed ==
  ASSUME NEW programs, NEW sites, WellFormedCalls(programs, sites),
         callProgram \in programs, site \in sites, constructor \in callProgram.constructors
  PROVE  /\ WellFormedSite(site) /\ IsConstructor(constructor) /\ ~NamesSelf(constructor, site)
         /\ \A callable \in Callables : IsCallable(callable)
<1>1. WellFormedProgram(callProgram) /\ WellFormedSite(site) /\ ~NamesSelf(constructor, site)
  BY DEF WellFormedCalls
<1>2. /\ \A d \in callProgram.functions : WellFormed(d)
      /\ constructor.kind \in {"none", "init", "new", "both"} /\ WellFormed(constructor.def)
  BY <1>1 DEF WellFormedProgram
<1>3. \A callable \in Callables : IsCallable(callable)
  <2>. SUFFICES ASSUME NEW callable \in Callables PROVE IsCallable(callable)
    OBVIOUS
  <2>1. CASE callable \in {AFunction(d) : d \in callProgram.functions}
    <3>1. PICK d \in callProgram.functions : callable = AFunction(d)
      BY <2>1
    <3>2. callable.kind = "function" /\ callable.def = d
      BY <3>1 DEF AFunction
    <3>. QED BY <3>2, <1>2 DEF IsCallable
  <2>2. CASE callable \in {TheClass, NotCallable}
    BY <2>2 DEF TheClass, NotCallable, IsCallable
  <2>. QED BY <2>1, <2>2 DEF Callables
<1>. QED BY <1>1, <1>2, <1>3 DEF IsConstructor

(* A call that is done as the language says keeps the invariant.           *)
LEMMA DoneKeepsInvariant ==
  ASSUME NEW programs, NEW sites, CallInvariant(programs, sites),
         NEW callable, NEW bound \in BOOLEAN,
         CallDone(callable, bound, Meaning(callable, Passed(site, bound), site.names, constructor))
  PROVE  CallInvariant(programs, sites)'
<1>1. /\ callProgram' = callProgram /\ site' = site /\ constructor' = constructor
      /\ CacheSound'
      /\ lastCall' = [callable |-> callable, bound |-> bound, constructor |-> constructor,
                      outcome |-> Meaning(callable, Passed(site, bound), site.names, constructor)]
  BY DEF CallDone
<1>2. CallsBindLikePython'
  <2>1. /\ lastCall'.callable = callable /\ lastCall'.bound = bound
        /\ lastCall'.constructor = constructor
        /\ lastCall'.outcome = Meaning(callable, Passed(site, bound), site.names, constructor)
    BY <1>1
  <2>2. CallsBindLikePython' <=>
          lastCall'.outcome = Meaning(lastCall'.callable, Passed(site', lastCall'.bound), site'.names,
                                      lastCall'.constructor)
    BY Zenon DEF CallsBindLikePython, Passed, Arguments, Ahead
  <2>. QED BY <2>1, <2>2, <1>1
<1>. QED BY <1>1, <1>2 DEF CallInvariant

LEMMA CallInvariantInductive ==
  ASSUME NEW programs, NEW sites, WellFormedCalls(programs, sites)
  PROVE  /\ CallInit(programs, sites) => CallInvariant(programs, sites)
         /\ CallInvariant(programs, sites) /\ [CallNext]_callVars => CallInvariant(programs, sites)'
<1>1. CallInit(programs, sites) => CallInvariant(programs, sites)
  <2>. SUFFICES ASSUME CallInit(programs, sites) PROVE CallInvariant(programs, sites)
    OBVIOUS
  <2>1. /\ callProgram \in programs /\ site \in sites /\ constructor \in callProgram.constructors
        /\ cache = EmptyCache
        /\ lastCall = [callable |-> NotCallable, bound |-> FALSE,
                       constructor |-> constructor, outcome |-> TypeError]
    BY DEF CallInit
  <2>2. CacheSound
    BY <2>1 DEF CacheSound, EmptyCache, IsEntry
  <2>3. CallsBindLikePython
    <3>1. lastCall.callable.kind = "object" /\ lastCall.outcome = TypeError
      BY <2>1 DEF NotCallable
    <3>2. \A positional : Meaning(lastCall.callable, positional, site.names, lastCall.constructor) = TypeError
      BY <3>1 DEF Meaning
    <3>. QED BY <3>1, <3>2 DEF CallsBindLikePython
  <2>. QED BY <2>1, <2>2, <2>3 DEF CallInvariant
<1>2. CallInvariant(programs, sites) /\ [CallNext]_callVars => CallInvariant(programs, sites)'
  <2>. SUFFICES ASSUME CallInvariant(programs, sites), [CallNext]_callVars
                PROVE  CallInvariant(programs, sites)'
    OBVIOUS
  <2>1. /\ callProgram \in programs /\ site \in sites /\ constructor \in callProgram.constructors
        /\ CacheSound /\ CallsBindLikePython
    BY DEF CallInvariant
  <2>2. /\ WellFormedSite(site) /\ IsConstructor(constructor) /\ ~NamesSelf(constructor, site)
        /\ \A callable \in Callables : IsCallable(callable)
    BY <2>1, PartsAreWellFormed
  <2>3. site.method \in BOOLEAN
    BY <2>2 DEF WellFormedSite
  <2>4. site.n \in Nat /\ Given(site, FALSE) = site.n
    BY <2>2 DEF WellFormedSite, Given
  <2>5. ASSUME NEW callable \in Callables, CallPositional(callable)
        PROVE  CallInvariant(programs, sites)'
    <3>1. ~site.method /\ site.names = <<>> /\ PositionalCall(callable, FALSE, CallerWindow, Given(site, FALSE))
      BY <2>4, <2>5 DEF CallPositional
    <3>2. Holds(CallerWindow, Passed(site, FALSE), Given(site, FALSE))
      BY <2>2, <3>1, CallerHolds
    <3>3. CallDone(callable, FALSE, Meaning(callable, Passed(site, FALSE), site.names, constructor))
      BY <2>1, <2>2, <3>1, <3>2, PositionalCallBinds
    <3>. QED BY <3>3, DoneKeepsInvariant
  <2>6. ASSUME NEW callable \in Callables, CallKeyword(callable)
        PROVE  CallInvariant(programs, sites)'
    <3>1. ~site.method /\ site.names # <<>> /\ KeywordCall(callable, FALSE, CallerWindow, Given(site, FALSE))
      BY <2>4, <2>6 DEF CallKeyword
    <3>2. Holds(CallerWindow, Passed(site, FALSE), Given(site, FALSE))
      BY <2>2, <3>1, CallerHolds
    <3>3. CallDone(callable, FALSE, Meaning(callable, Passed(site, FALSE), site.names, constructor))
      BY <2>1, <2>2, <3>1, <3>2, KeywordCallBinds
    <3>. QED BY <3>3, DoneKeepsInvariant
  <2>7. ASSUME NEW callable \in Callables, NEW bound \in BOOLEAN, CallMethodPositional(callable, bound)
        PROVE  CallInvariant(programs, sites)'
    <3>1. /\ site.method /\ site.names = <<>>
          /\ PositionalCall(callable, bound, MethodWindow(bound), Given(site, bound))
      BY <2>7 DEF CallMethodPositional, Given
    <3>2. Holds(MethodWindow(bound), Passed(site, bound), Given(site, bound))
      BY <2>2, <3>1, MethodHolds
    <3>3. CallDone(callable, bound, Meaning(callable, Passed(site, bound), site.names, constructor))
      BY <2>1, <2>2, <3>1, <3>2, PositionalCallBinds
    <3>. QED BY <3>3, DoneKeepsInvariant
  <2>8. ASSUME NEW callable \in Callables, NEW bound \in BOOLEAN, CallMethodKeyword(callable, bound)
        PROVE  CallInvariant(programs, sites)'
    <3>1. /\ site.method /\ site.names # <<>>
          /\ KeywordCall(callable, bound, MethodWindow(bound), Given(site, bound))
      BY <2>8 DEF CallMethodKeyword, Given
    <3>2. Holds(MethodWindow(bound), Passed(site, bound), Given(site, bound))
      BY <2>2, <3>1, MethodHolds
    <3>3. CallDone(callable, bound, Meaning(callable, Passed(site, bound), site.names, constructor))
      BY <2>1, <2>2, <3>1, <3>2, KeywordCallBinds
    <3>. QED BY <3>3, DoneKeepsInvariant
  <2>9. ASSUME NEW c \in callProgram.constructors, SetConstructor(c)
        PROVE  CallInvariant(programs, sites)'
    <3>1. /\ constructor' = c /\ callProgram' = callProgram /\ site' = site /\ lastCall' = lastCall
          /\ cache' = [cache EXCEPT !.cell = IF @ = "valid" THEN "invalid" ELSE @]
      BY <2>9 DEF SetConstructor
    <3>2. CallsBindLikePython'
      BY <2>1, <3>1 DEF CallsBindLikePython
    <3>3. cache = [guard |-> cache.guard, function |-> cache.function, cell |-> cache.cell,
                   n |-> cache.n, adaptation |-> cache.adaptation,
                   start |-> cache.start, dests |-> cache.dests]
      BY <2>1 DEF CacheSound, IsEntry
    <3>4. cache' = [guard |-> cache.guard, function |-> cache.function,
                    cell |-> IF cache.cell = "valid" THEN "invalid" ELSE cache.cell,
                    n |-> cache.n, adaptation |-> cache.adaptation,
                    start |-> cache.start, dests |-> cache.dests]
      BY <3>1, <3>3
    <3>5. CacheSound'
      <4>1. IsEntry(cache')
        BY <3>4 DEF IsEntry
      <4>2. CASE cache.guard.kind = "empty" \/ cache.cell = "invalid" \/ cache.cell = "valid"
        <5>1. cache'.guard.kind = "empty" \/ cache'.cell = "invalid"
          BY <3>4, <4>2
        <5>. QED BY <4>1, <5>1 DEF CacheSound
      <4>3. CASE /\ MadeEntry(cache, cache.guard, constructor, site)
                 /\ cache.cell # "invalid" /\ cache.cell # "valid" /\ cache.guard.kind # "empty"
        <5>1. cache' = cache
          BY <3>3, <3>4, <4>3
        <5>2. MadeEntry(cache, cache.guard, c, site)
          <6>1. cache.cell = MadeFor(cache.guard, constructor).cell
            BY <4>3 DEF MadeEntry
          <6>2. cache.guard.kind # "class"
            BY <4>3, <6>1 DEF MadeFor
          <6>3. IsCallable(cache.guard)
            BY <4>3 DEF MadeEntry
          <6>4. MadeFor(cache.guard, c) = MadeFor(cache.guard, constructor)
            BY <6>2, <6>3 DEF IsCallable, MadeFor
          <6>. QED BY <4>3, <6>4 DEF MadeEntry
        <5>. QED BY <4>1, <5>1, <5>2, <3>1 DEF CacheSound
      <4>. QED BY <2>1, <4>2, <4>3 DEF CacheSound
    <3>. QED BY <2>1, <2>9, <3>1, <3>2, <3>5 DEF CallInvariant
  <2>10. CASE UNCHANGED callVars
    <3>1. /\ callProgram' = callProgram /\ site' = site /\ constructor' = constructor
          /\ cache' = cache /\ lastCall' = lastCall
      BY <2>10 DEF callVars
    <3>2. CallsBindLikePython'
      BY <2>1, <3>1 DEF CallsBindLikePython
    <3>3. CacheSound'
      BY <2>1, <3>1 DEF CacheSound
    <3>. QED BY <2>1, <3>1, <3>2, <3>3 DEF CallInvariant
  <2>. QED BY <2>5, <2>6, <2>7, <2>8, <2>9, <2>10 DEF CallNext
<1>. QED BY <1>1, <1>2

(***************************************************************************)
(* For any definitions whose parameters are distinct, any constructors and *)
(* any call sites, and whatever was called at the site before: every call  *)
(* binds its arguments to the parameters as the language says, or is       *)
(* refused as the language refuses it.  The call instructions of           *)
(* interpreter.cpp and the thunks of constructor_thunk.cpp.                *)
(***************************************************************************)
THEOREM CallsAlwaysBindLikePython ==
  ASSUME NEW programs, NEW sites, WellFormedCalls(programs, sites)
  PROVE  CallSpec(programs, sites) => []CallsBindLikePython
<1>1. CallInit(programs, sites) => CallInvariant(programs, sites)
  BY CallInvariantInductive
<1>2. CallInvariant(programs, sites) /\ [CallNext]_callVars => CallInvariant(programs, sites)'
  BY CallInvariantInductive
<1>3. CallInvariant(programs, sites) => CallsBindLikePython
  BY DEF CallInvariant
<1>. QED BY <1>1, <1>2, <1>3, PTL DEF CallSpec
=============================================================================
