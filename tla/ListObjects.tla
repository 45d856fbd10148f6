----------------------------- MODULE ListObjects -----------------------------
(***************************************************************************)
(* Lists as the VM keeps them: a ValueArray (object_model/vm_array.h) with *)
(* a size, a backing of counted cells, doubled when it is full, and the    *)
(* list methods and trusted handlers over it (builtin_types/list.cpp),     *)
(* with the list iterator (builtin_types/list_iterator.cpp).               *)
(* A cell holds an element, whose reference count it owns a share of, or   *)
(* one of the uncounted words None, not_present and the integer 0.         *)
(* An operation that makes a list is given the list object d it replaces.  *)
(***************************************************************************)
EXTENDS Integers, Sequences, FiniteSetsExt

CONSTANTS Lists, Elements, Tuples, ListIndexes, MaxSize,
          ComparesAs   \* elements are == when ComparesAs gives them the same value

NoneWord == "None"
NotPresentWord == "not_present"
ZeroWord == "zero"

\* The uncounted words are no elements; the items of a tuple are elements.
ASSUME ListConstants ==
  /\ IsFiniteSet(Lists)
  /\ {NoneWord, NotPresentWord, ZeroWord} \cap Elements = {}
  /\ Tuples \subseteq Seq(Elements)
  /\ ListIndexes \subseteq Int

VARIABLES arrays,     \* the ValueArray of every list: its size and its backing's cells
          refs,       \* the references that cells hold to every element
          iterator,   \* the list iterator, or NoListIterator; its field ended is history, that
                      \* it has raised StopIteration: the code keeps no such field and reads none
          called,     \* history: the call being answered, its name and arguments, or NoListCall
          replied     \* what that call returned or raised
listVars == <<arrays, refs, iterator, called, replied>>

NoListCall == <<"none">>
NoListIterator == [list |-> "none", at |-> 0, ended |-> FALSE]

Returned(v) == <<"value", v>>
ReturnedInt(n) == <<"number", n>>
RaisedError(e) == <<"raise", e>>

-----------------------------------------------------------------------------
\* ValueArray, on a record [size, cells, refs]: cells is the whole backing
Incref(r, v) == IF v \in Elements THEN [r EXCEPT ![v] = @ + 1] ELSE r
Decref(r, v) == IF v \in Elements THEN [r EXCEPT ![v] = @ - 1] ELSE r

GrownCapacity(capacity, minimum) ==
  LET grown == IF capacity = 0 THEN 1 ELSE capacity * 2 IN IF grown < minimum THEN minimum ELSE grown

\* A backing that is given up releases the cells that its cell count covers.
ReleaseBacking(r, cells, count) ==
  LET released[k \in 0 .. count] == IF k = 0 THEN r ELSE Decref(released[k - 1], cells[k])
  IN  released[count]

Moved(a, capacity) == [k \in 1 .. capacity |-> IF k <= a.size THEN a.cells[k] ELSE ZeroWord]

ReserveKeepingCount(a, capacity) ==
  IF capacity <= Len(a.cells) THEN a
  ELSE [size |-> a.size, cells |-> Moved(a, capacity), refs |-> ReleaseBacking(a.refs, a.cells, Len(a.cells))]

\* The words move without a change of count; the old backing's cell count becomes 0.
Reserve(a, capacity) ==
  IF capacity <= Len(a.cells) THEN a
  ELSE [size |-> a.size, cells |-> Moved(a, capacity), refs |-> ReleaseBacking(a.refs, a.cells, 0)]

\* Cell k holds value, and the counts are r
Put(a, k, value, r) == [size |-> a.size, cells |-> [a.cells EXCEPT ![k] = value], refs |-> r]

ClearElements(a, start, end) ==
  LET cleared[k \in 0 .. end - start] ==
        IF k = 0 THEN a
        ELSE LET c == cleared[k - 1] IN Put(c, start + k, ZeroWord, Decref(c.refs, c.cells[start + k]))
  IN  cleared[end - start]

Resize(a, n, value) ==
  LET filled[k \in 0 .. n - a.size] ==
        IF k = 0 THEN Reserve(a, n)
        ELSE Put(filled[k - 1], a.size + k, value, Incref(filled[k - 1].refs, value))
  IN  IF n < a.size THEN [ClearElements(a, n, a.size) EXCEPT !.size = n]
      ELSE [filled[n - a.size] EXCEPT !.size = n]

\* set and emplace_back, at positions counted from 1
Set(a, k, value) == Put(a, k, value, Incref(Decref(a.refs, a.cells[k]), value))
PushBack(a, value) ==
  LET room == IF a.size = Len(a.cells) THEN Reserve(a, GrownCapacity(Len(a.cells), a.size + 1)) ELSE a
  IN  [Put(room, a.size + 1, value, Incref(room.refs, value)) EXCEPT !.size = a.size + 1]

-----------------------------------------------------------------------------
Array(l) == [size |-> arrays[l].size, cells |-> arrays[l].cells, refs |-> refs]
Item(l, k) == arrays[l].cells[k]
Size(l) == arrays[l].size

\* The bound on the items of all lists together
HasRoom(n) == n + MapThenSumSet(Size, Lists) <= MaxSize

\* Store the array of l and its counts, and reply r
Update(l, a, r) ==
  /\ arrays' = [arrays EXCEPT ![l] = [size |-> a.size, cells |-> a.cells]]
  /\ refs' = a.refs
  /\ replied' = r
Reply(r) == replied' = r /\ UNCHANGED <<arrays, refs>>

\* List(size): a new list of absent items in place of the object d, whose own
\* backing is released with all its cells
NewList(d, n) ==
  Resize([size |-> 0, cells |-> <<>>, refs |-> ReleaseBacking(refs, arrays[d].cells, Len(arrays[d].cells))],
         n, NotPresentWord)
Free(d) == iterator.list # d

WrapListIndex(l, i) == IF i < 0 THEN i + Size(l) ELSE i
IndexInList(l, i) == WrapListIndex(l, i) \in 0 .. Size(l) - 1
NormalizeInsertionIndex(l, i) ==
  LET n == WrapListIndex(l, i) IN IF n < 0 THEN 0 ELSE IF n > Size(l) THEN Size(l) ELSE n
NormalizeListSearchBound(l, i) == NormalizeInsertionIndex(l, i)

NativeAppend(l, e) == HasRoom(1) /\ Update(l, PushBack(Array(l), e), Returned(NoneWord))
NativeClear(l) == Update(l, [ClearElements(Array(l), 0, Size(l)) EXCEPT !.size = 0], Returned(NoneWord))

\* The items that values gives for 1 .. n, one by one into the array a
WriteItems(a, n, values) ==
  LET written[k \in 0 .. n] == IF k = 0 THEN a ELSE Set(written[k - 1], k, values[k])
  IN  written[n]

\* copy and concatenation: into a list d of absent items
NativeCopy(l, d) ==
  /\ HasRoom(Size(l) - Size(d)) /\ Free(d) /\ l # d
  /\ Update(d, WriteItems(NewList(d, Size(l)), Size(l), [k \in 1 .. Size(l) |-> Item(l, k)]),
            Returned(NoneWord))
NativeAdd(l, m, d) ==
  LET n == Size(l) + Size(m)
      items == [k \in 1 .. n |-> IF k <= Size(l) THEN Item(l, k) ELSE Item(m, k - Size(l))]
  IN  HasRoom(n - Size(d)) /\ Free(d) /\ d \notin {l, m}
      /\ Update(d, WriteItems(NewList(d, n), n, items), Returned(NoneWord))

\* The items that values gives for 1 .. n, appended to a; an array that is
\* extended by itself is read as it grows
PushItems(a, n, values, self) ==
  LET extended[k \in 0 .. n] ==
        IF k = 0 THEN a
        ELSE LET e == extended[k - 1] IN PushBack(e, IF self THEN e.cells[k] ELSE values[k])
  IN  extended[n]

\* The number of items is read before the first append: l may be m
ExtendFromList(l, m) ==
  HasRoom(Size(m)) /\ Update(l, PushItems(Array(l), Size(m), arrays[m].cells, l = m), Returned(NoneWord))
ExtendFromTuple(l, t) ==
  HasRoom(Len(t)) /\ Update(l, PushItems(Array(l), Len(t), t, FALSE), Returned(NoneWord))

\* Exchanges the ends until they meet; an item in the middle is set to itself
ReverseItems(a) ==
  LET n == a.size
      half == (n + 1) \div 2
      swapped[k \in 0 .. half] ==
        IF k = 0 THEN a
        ELSE LET x == swapped[k - 1] IN Set(Set(x, k, x.cells[n + 1 - k]), n + 1 - k, x.cells[k])
  IN  swapped[half]
NativeReverse(l) == Update(l, ReverseItems(Array(l)), Returned(NoneWord))

\* One item after the other is copied within the array: item from[k] to to[k]
MoveItems(a, n, from, to) ==
  LET moved[k \in 0 .. n] ==
        IF k = 0 THEN a ELSE Set(moved[k - 1], to[k], moved[k - 1].cells[from[k]])
  IN  moved[n]

\* The items from position idx on, each moved one place up
ShiftUpAscending(a, idx, old) ==
  MoveItems(a, old - idx, [k \in 1 .. old - idx |-> idx + k], [k \in 1 .. old - idx |-> idx + k + 1])
ShiftUp(a, idx, old) ==
  MoveItems(a, old - idx, [k \in 1 .. old - idx |-> old - k + 1], [k \in 1 .. old - idx |-> old - k + 2])
InsertUnchecked(a, idx, value) ==
  Set(ShiftUp(Resize(a, a.size + 1, NoneWord), idx, a.size), idx + 1, value)
NativeInsert(l, i, e) ==
  /\ HasRoom(1)
  /\ Update(l, InsertUnchecked(Array(l), NormalizeInsertionIndex(l, i), e), Returned(NoneWord))

PopUnchecked(a, idx) ==
  LET last == a.size - 1
      n == last - idx
  IN  Resize(MoveItems(a, n, [k \in 1 .. n |-> idx + k + 1], [k \in 1 .. n |-> idx + k]), last, ZeroWord)
NativePop(l, i) ==
  LET idx == WrapListIndex(l, i)
  IN  IF IndexInList(l, i) THEN Update(l, PopUnchecked(Array(l), idx), Returned(Item(l, idx + 1)))
      ELSE Reply(RaisedError("IndexError"))
NativeDelitem(l, i) ==
  IF IndexInList(l, i) THEN Update(l, PopUnchecked(Array(l), WrapListIndex(l, i)), Returned(NoneWord))
  ELSE Reply(RaisedError("IndexError"))
NativeSetitem(l, i, e) ==
  IF IndexInList(l, i) THEN Update(l, Set(Array(l), WrapListIndex(l, i) + 1, e), Returned(NoneWord))
  ELSE Reply(RaisedError("IndexError"))
GetItemOf(l, i) ==
  Reply(IF IndexInList(l, i) THEN Returned(Item(l, WrapListIndex(l, i) + 1)) ELSE RaisedError("IndexError"))

\* The first position from start to end - 1 whose word is e, or end
FirstWord(l, e, start, end) == Min({end} \cup {k \in start .. end - 1 : Item(l, k + 1) = e})
NativeRemove(l, e) ==
  LET idx == FirstWord(l, e, 0, Size(l))
  IN  IF idx < Size(l) THEN Update(l, PopUnchecked(Array(l), idx), Returned(NoneWord))
      ELSE Reply(RaisedError("ValueError"))
NativeCount(l, e) ==
  Reply(ReturnedInt(Cardinality({k \in 1 .. Size(l) : Item(l, k) = e})))
NativeIndex(l, e, i, j) ==
  LET stop == NormalizeListSearchBound(l, j)
      idx == FirstWord(l, e, NormalizeListSearchBound(l, i), stop)
  IN  Reply(IF idx < stop THEN ReturnedInt(idx) ELSE RaisedError("ValueError"))

NativeIter(l) ==
  /\ iterator' = [list |-> l, at |-> 0, ended |-> FALSE]
  /\ Reply(Returned(NoneWord))
ListIteratorNext ==
  /\ iterator.list \in Lists
  /\ IF iterator.at >= Size(iterator.list)
     THEN Reply(RaisedError("StopIteration")) /\ iterator' = [iterator EXCEPT !.ended = TRUE]
     ELSE Reply(Returned(Item(iterator.list, iterator.at + 1))) /\ iterator' = [iterator EXCEPT !.at = @ + 1]
DropIterator ==
  /\ iterator.list \in Lists
  /\ iterator' = NoListIterator
  /\ Reply(Returned(NoneWord))

\* The interpreter moves on from the reply before the next operation
TakeReply == called # NoListCall /\ called' = NoListCall /\ Reply(Returned(NoneWord)) /\ UNCHANGED iterator

-----------------------------------------------------------------------------
ListInit ==
  /\ arrays = [l \in Lists |-> [size |-> 0, cells |-> <<>>]]
  /\ refs = [e \in Elements |-> 0]
  /\ iterator = NoListIterator
  /\ called = NoListCall
  /\ replied = Returned(NoneWord)

\* The methods and operators, each with the call that reaches it
Called(c) == called' = c
ListOperation ==
  \/ /\ \/ \E l \in Lists, e \in Elements :
             \/ Called(<<"append", l, e>>) /\ NativeAppend(l, e)
             \/ Called(<<"remove", l, e>>) /\ NativeRemove(l, e)
             \/ Called(<<"count", l, e>>) /\ NativeCount(l, e)
        \/ \E l \in Lists :
             \/ Called(<<"clear", l>>) /\ NativeClear(l)
             \/ Called(<<"reverse", l>>) /\ NativeReverse(l)
        \/ \E l, m \in Lists :
             \/ Called(<<"extend", l, m>>) /\ ExtendFromList(l, m)
             \/ Called(<<"copy", l, m>>) /\ NativeCopy(l, m)
        \/ \E l, m, d \in Lists : Called(<<"add", l, m, d>>) /\ NativeAdd(l, m, d)
        \/ \E l \in Lists, t \in Tuples : Called(<<"extend_tuple", l, t>>) /\ ExtendFromTuple(l, t)
        \/ \E l \in Lists, i \in ListIndexes, e \in Elements :
             \/ Called(<<"insert", l, i, e>>) /\ NativeInsert(l, i, e)
             \/ Called(<<"setitem", l, i, e>>) /\ NativeSetitem(l, i, e)
        \/ \E l \in Lists, i \in ListIndexes :
             \/ Called(<<"pop", l, i>>) /\ NativePop(l, i)
             \/ Called(<<"delitem", l, i>>) /\ NativeDelitem(l, i)
             \/ Called(<<"getitem", l, i>>) /\ GetItemOf(l, i)
        \/ \E l \in Lists, e \in Elements, i, j \in ListIndexes :
             Called(<<"index", l, e, i, j>>) /\ NativeIndex(l, e, i, j)
     /\ UNCHANGED iterator
  \/ \E l \in Lists : Called(<<"iter", l>>) /\ NativeIter(l)
  \/ Called(<<"next">>) /\ ListIteratorNext
  \/ Called(<<"drop">>) /\ DropIterator

ListNext == (called = NoListCall /\ ListOperation) \/ TakeReply

ListSpec == ListInit /\ [][ListNext]_listVars

-----------------------------------------------------------------------------
CellsHolding(e) ==
  UNION {{<<l, k>> : k \in {j \in DOMAIN arrays[l].cells : Item(l, j) = e}} : l \in Lists}

\* The references counted for an element are the cells that hold it, and a cell
\* past a list's size holds nothing: growing a backing moves its words without
\* counting them twice or releasing them with the old backing (vm_array.h's
\* reserve), and no shift, shrink or overwrite leaves a word behind.
ElementsCounted ==
  /\ \A e \in Elements : refs[e] = Cardinality(CellsHolding(e))
  /\ \A l \in Lists : \A k \in DOMAIN arrays[l].cells : k > Size(l) => Item(l, k) \notin Elements

PythonList == INSTANCE PythonLists
            WITH lists <- [l \in Lists |-> SubSeq(arrays[l].cells, 1, arrays[l].size)],
                 Indexes <- ListIndexes,
                 iter <- iterator, reply <- replied

\* Lists behave as Python's: every call, for the arguments it is made with, does
\* in one step to the sequence of items, and replies, what Python says of it, also
\* when a list is extended by itself, when an iterator's list changes under it, and
\* for every index, inside and outside the list (builtin_types/list.cpp,
\* list_iterator.cpp).  Two deviations
\* are excepted, each with what it does instead: SearchByIdentity, as remove,
\* count and index compare words and never call == (list.cpp), and GoOnAfterEnd,
\* as an iterator that has raised StopIteration compares its index with the size
\* again when it is asked again (list_iterator.cpp:28).
ListsImplementPython ==
  PythonList!Init
    /\ [][PythonList!Next \/ PythonList!SearchByIdentity \/ PythonList!GoOnAfterEnd]_PythonList!vars
=============================================================================
