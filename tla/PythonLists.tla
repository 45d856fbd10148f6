---------------------------- MODULE PythonLists -----------------------------
(***************************************************************************)
(* What Python promises of lists and their iterators: lists are sequences, *)
(* every call is one step, called names the last one with its arguments,   *)
(* and reply is what it returned or raised.  Elements e and f compare      *)
(* equal, without side effects, when ComparesAs[e] = ComparesAs[f].        *)
(* Next is Python's; the two steps after it are the VM's own.              *)
(***************************************************************************)
EXTENDS Integers, Sequences, FiniteSetsExt

CONSTANTS Lists, Elements, ComparesAs, Tuples, Indexes

VARIABLES lists, iter, called, reply
vars == <<lists, iter, called, reply>>

Value(v) == <<"value", v>>
Number(n) == <<"number", n>>
Raises(e) == <<"raise", e>>
Nothing == Value("None")
NoIterator == [list |-> "none", at |-> 0, ended |-> FALSE]

\* The call that a step is: its name and its arguments
NoCall == <<"none">>
Calls(c) == called' = c

Init ==
  /\ lists = [l \in Lists |-> <<>>]
  /\ iter = NoIterator
  /\ called = NoCall
  /\ reply = Nothing

\* Replace list l by s and reply r
Becomes(l, s, r) == lists' = [lists EXCEPT ![l] = s] /\ reply' = r
Same(r) == reply' = r /\ UNCHANGED lists

Resolve(l, i) == IF i < 0 THEN i + Len(lists[l]) ELSE i
InRange(l, i) == Resolve(l, i) \in 0 .. Len(lists[l]) - 1
Clip(l, i) == Max({0, Min({Resolve(l, i), Len(lists[l])})})
Without(s, k) == SubSeq(s, 1, k - 1) \o SubSeq(s, k + 1, Len(s))
\* The positions whose items are equal to e, and those that hold e itself
Where(s, e) == {k \in DOMAIN s : ComparesAs[s[k]] = ComparesAs[e]}
Identical(s, e) == {k \in DOMAIN s : s[k] = e}

Append_(l, e) == Becomes(l, Append(lists[l], e), Nothing)
Clear(l) == Becomes(l, <<>>, Nothing)
Copy(l, d) == Becomes(d, lists[l], Nothing)
Extend(l, m) == Becomes(l, lists[l] \o lists[m], Nothing)
ExtendTuple(l, t) == Becomes(l, lists[l] \o t, Nothing)
Concat(l, m, d) == Becomes(d, lists[l] \o lists[m], Nothing)
Reverse_(l) == Becomes(l, [k \in DOMAIN lists[l] |-> lists[l][Len(lists[l]) + 1 - k]], Nothing)
Insert(l, i, e) ==
  LET k == Clip(l, i)
  IN  Becomes(l, SubSeq(lists[l], 1, k) \o <<e>> \o SubSeq(lists[l], k + 1, Len(lists[l])), Nothing)
Pop(l, i) ==
  IF InRange(l, i)
  THEN Becomes(l, Without(lists[l], Resolve(l, i) + 1), Value(lists[l][Resolve(l, i) + 1]))
  ELSE Same(Raises("IndexError"))
Del(l, i) ==
  IF InRange(l, i) THEN Becomes(l, Without(lists[l], Resolve(l, i) + 1), Nothing)
  ELSE Same(Raises("IndexError"))
SetItem(l, i, e) ==
  IF InRange(l, i) THEN Becomes(l, [lists[l] EXCEPT ![Resolve(l, i) + 1] = e], Nothing)
  ELSE Same(Raises("IndexError"))
GetItem(l, i) ==
  Same(IF InRange(l, i) THEN Value(lists[l][Resolve(l, i) + 1]) ELSE Raises("IndexError"))

\* The searches, from the set of positions that count as found
RemoveFound(l, found) ==
  IF found = {} THEN Same(Raises("ValueError"))
  ELSE Becomes(l, Without(lists[l], Min(found)), Nothing)
CountFound(found) == Same(Number(Cardinality(found)))
IndexFound(l, found, i, j) ==
  LET within == {k \in found : k > Clip(l, i) /\ k <= Clip(l, j)}
  IN  Same(IF within = {} THEN Raises("ValueError") ELSE Number(Min(within) - 1))
Remove(l, e) == RemoveFound(l, Where(lists[l], e))
Count(l, e) == CountFound(Where(lists[l], e))
Index(l, e, i, j) == IndexFound(l, Where(lists[l], e), i, j)

\* One iterator: where it stands and in which list.  It sees what the list holds
\* when it is asked; once it has ended it stays at its end, whatever the list does.
Iter(l) == iter' = [list |-> l, at |-> 0, ended |-> FALSE] /\ reply' = Nothing /\ UNCHANGED lists
Advance ==
  /\ iter.list \in Lists /\ iter.at < Len(lists[iter.list])
  /\ iter' = [iter EXCEPT !.at = @ + 1]
  /\ Same(Value(lists[iter.list][iter.at + 1]))
End ==
  /\ iter.list \in Lists
  /\ iter.ended \/ iter.at >= Len(lists[iter.list])
  /\ iter' = [iter EXCEPT !.ended = TRUE]
  /\ Same(Raises("StopIteration"))
NextItem == (~ iter.ended /\ Advance) \/ End
Drop == iter.list \in Lists /\ iter' = NoIterator /\ Same(Nothing)

\* The caller takes the reply.
Take == Same(Nothing) /\ UNCHANGED iter

Unheld(d) == iter.list # d

Next ==
  \/ /\ \/ \E l \in Lists, e \in Elements :
             \/ Calls(<<"append", l, e>>) /\ Append_(l, e)
             \/ Calls(<<"remove", l, e>>) /\ Remove(l, e)
             \/ Calls(<<"count", l, e>>) /\ Count(l, e)
        \/ \E l \in Lists :
             \/ Calls(<<"clear", l>>) /\ Clear(l)
             \/ Calls(<<"reverse", l>>) /\ Reverse_(l)
        \/ \E l, m \in Lists :
             \/ Calls(<<"extend", l, m>>) /\ Extend(l, m)
             \/ Calls(<<"copy", l, m>>) /\ Unheld(m) /\ Copy(l, m)
        \/ \E l, m, d \in Lists : Calls(<<"add", l, m, d>>) /\ Unheld(d) /\ Concat(l, m, d)
        \/ \E l \in Lists, t \in Tuples : Calls(<<"extend_tuple", l, t>>) /\ ExtendTuple(l, t)
        \/ \E l \in Lists, i \in Indexes, e \in Elements :
             \/ Calls(<<"insert", l, i, e>>) /\ Insert(l, i, e)
             \/ Calls(<<"setitem", l, i, e>>) /\ SetItem(l, i, e)
        \/ \E l \in Lists, i \in Indexes :
             \/ Calls(<<"pop", l, i>>) /\ Pop(l, i)
             \/ Calls(<<"delitem", l, i>>) /\ Del(l, i)
             \/ Calls(<<"getitem", l, i>>) /\ GetItem(l, i)
        \/ \E l \in Lists, e \in Elements, i, j \in Indexes :
             Calls(<<"index", l, e, i, j>>) /\ Index(l, e, i, j)
     /\ UNCHANGED iter
  \/ \E l \in Lists : Calls(<<"iter", l>>) /\ Iter(l)
  \/ Calls(<<"next">>) /\ NextItem
  \/ Calls(<<"drop">>) /\ Drop
  \/ Calls(NoCall) /\ Take

Spec == Init /\ [][Next]_vars

-----------------------------------------------------------------------------
\* Two steps that no Python list takes.  remove, count and index find e by its
\* identity, in a list with another item that is equal to e:
SearchByIdentity ==
  \E l \in Lists, e \in Elements :
    LET found == Identical(lists[l], e) IN
    /\ Where(lists[l], e) # found
    /\ \/ Calls(<<"remove", l, e>>) /\ RemoveFound(l, found)
       \/ Calls(<<"count", l, e>>) /\ CountFound(found)
       \/ \E i, j \in Indexes : Calls(<<"index", l, e, i, j>>) /\ IndexFound(l, found, i, j)
    /\ UNCHANGED iter

\* An iterator that has ended goes on, where the list has grown past its end:
GoOnAfterEnd == Calls(<<"next">>) /\ iter.ended /\ Advance
=============================================================================
