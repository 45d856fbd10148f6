--------------------------- MODULE SequenceAccess ---------------------------
(***************************************************************************)
(* Subscripts of the built-in sequences: slice objects and what they       *)
(* select (builtin_types/slice.h, slice.cpp), and self[index] of list,     *)
(* tuple, str and bytes, by the method and by the trusted handlers that    *)
(* the interpreter caches for the shapes of the two operands.              *)
(* A sequence object holds its items, counted from 1; the code's positions *)
(* count from 0.  The last part is the loops over range(...).              *)
(***************************************************************************)
EXTENDS IntOperators

None == [kind |-> "None"]
Object(kind, items) == [kind |-> kind, items |-> items]
Str(text) == Object("str", text)
Bytes(data) == Object("bytes", data)
Kinds == {"list", "tuple", "str", "bytes"}

\* The integer an argument stands for, as [smi |-> n]: normalized heap integers never fit
BigIntToSmi(v) == IF FitsSmi(v) THEN [smi |-> v.signum * TwoDigitMagnitude(v)] ELSE Raised("OverflowError")
ExactIntToSmi(a) ==
  CASE a.kind = "smi" -> [smi |-> a.int]
    [] a.kind = "big" -> BigIntToSmi(a.view)
    [] OTHER -> Raised("TypeError")
IntlikeToSmi(a) == IF IsSmiOrBool(a) THEN [smi |-> SmiOrBoolAsInt(a)] ELSE ExactIntToSmi(a)

-----------------------------------------------------------------------------
\* Slices.  The shape tells whether the step is None.
MakeSlice(start, stop, step) ==
  [kind |-> "slice", shape |-> IF step = None THEN "step_none" ELSE "general",
   start |-> start, stop |-> stop, step |-> step]

SliceNew(args) ==
  CASE Len(args) = 1 -> MakeSlice(None, args[1], None)
    [] Len(args) = 2 -> MakeSlice(args[1], args[2], None)
    [] Len(args) = 3 -> MakeSlice(args[1], args[2], args[3])
    [] OTHER -> Raised("TypeError")

NormalizeSliceField(index, length, lower, upper) ==
  LET i == IF index < 0 THEN index + length ELSE index
  IN  IF i < lower THEN lower ELSE IF i > upper THEN upper ELSE i

SelectedLengthUnrounded(start, stop, step) ==
  CASE step < 0 /\ stop < start -> (start - stop) \div (-step)
    [] step > 0 /\ start < stop -> (stop - start) \div step
    [] OTHER -> 0

\* The two quotients are of nonnegative numbers, where C++ and \div agree.
SelectedLength(start, stop, step) ==
  CASE step < 0 /\ stop < start -> ((start - stop - 1) \div (-step)) + 1
    [] step > 0 /\ start < stop -> ((stop - start - 1) \div step) + 1
    [] OTHER -> 0

\* A field of the slice, or what None stands for
Field(v, none, length, lower, upper) ==
  IF v = None THEN [smi |-> none]
  ELSE LET i == IntlikeToSmi(v)
       IN  IF IsRaised(i) THEN i ELSE [smi |-> NormalizeSliceField(i.smi, length, lower, upper)]

NormalizeNonstrided(slice, length) ==
  LET start == Field(slice.start, 0, length, 0, length)
      stop == Field(slice.stop, length, length, 0, length)
  IN  IF IsRaised(start) THEN start ELSE IF IsRaised(stop) THEN stop
      ELSE [start |-> start.smi, count |-> IF start.smi < stop.smi THEN stop.smi - start.smi ELSE 0]

NormalizeGeneral(slice, length) ==
  LET step == IF slice.step = None THEN [smi |-> 1] ELSE IntlikeToSmi(slice.step)
      back == step.smi < 0
      lower == IF back THEN -1 ELSE 0
      upper == IF back THEN length - 1 ELSE length
      start == Field(slice.start, IF back THEN length - 1 ELSE 0, length, lower, upper)
      stop == Field(slice.stop, IF back THEN -1 ELSE length, length, lower, upper)
  IN  IF IsRaised(step) THEN step ELSE IF step.smi = 0 THEN Raised("ValueError")
      ELSE IF IsRaised(start) THEN start ELSE IF IsRaised(stop) THEN stop
      ELSE [start |-> start.smi, stop |-> stop.smi, step |-> step.smi,
            count |-> SelectedLength(start.smi, stop.smi, step.smi)]

SliceIndices(slice, length) ==
  LET n == IntlikeToSmi(length)
      s == NormalizeGeneral(slice, n.smi)
  IN  IF IsRaised(n) THEN n ELSE IF n.smi < 0 THEN Raised("ValueError")
      ELSE IF IsRaised(s) THEN s
      ELSE Object("tuple", <<Smi(s.start), Smi(s.stop), Smi(s.step)>>)

-----------------------------------------------------------------------------
\* get_slice copies a range of characters or bytes, and items one by one.
Copied(items, s) == SubSeq(items, s.start + 1, s.start + s.count)
Stepped(items, s) == [i \in 1 .. s.count |-> items[s.start + (i - 1) * s.step + 1]]

GetSlice(self, slice) ==
  LET s == IF slice.step = None THEN NormalizeNonstrided(slice, Len(self.items))
           ELSE NormalizeGeneral(slice, Len(self.items))
  IN  IF IsRaised(s) THEN s
      ELSE Object(self.kind, IF slice.step = None THEN Copied(self.items, s) ELSE Stepped(self.items, s))

\* List and tuple convert the wrapped index to an unsigned size and compare once.
WrapIndex(i, size) == IF i < 0 THEN i + size ELSE i
Unsigned64(i) == i % (2 ^ (2 * SmiBits))
CheckIndex(i, size) == Unsigned64(WrapIndex(i, size)) < size
ItemOfList(self, i) ==
  IF CheckIndex(i, Len(self.items)) THEN self.items[WrapIndex(i, Len(self.items)) + 1] ELSE Raised("IndexError")
ItemOfTuple(self, i) ==
  IF CheckIndex(i, Len(self.items)) THEN self.items[WrapIndex(i, Len(self.items)) + 1] ELSE Raised("IndexError")

CharAt(self, i) ==
  LET n == WrapIndex(i, Len(self.items))
  IN  IF n < 0 \/ n >= Len(self.items) THEN Raised("IndexError") ELSE Str(<<self.items[n + 1]>>)
ByteAt(self, i) ==
  LET n == WrapIndex(i, Len(self.items))
  IN  IF n < 0 \/ n >= Len(self.items) THEN Raised("IndexError") ELSE Smi(self.items[n + 1])

-----------------------------------------------------------------------------
\* __getitem__ with the index as the method converts it
Getitem(self, index, i, Item(_, _)) ==
  IF index.kind = "slice" THEN GetSlice(self, index) ELSE IF IsRaised(i) THEN i ELSE Item(self, i.smi)

\* Only bytes refuses a bool as an index.
ListGetitem(self, index) == Getitem(self, index, IntlikeToSmi(index), ItemOfList)
TupleGetitem(self, index) == Getitem(self, index, IntlikeToSmi(index), ItemOfTuple)
StrGetitem(self, index) == Getitem(self, index, IntlikeToSmi(index), CharAt)
BytesGetitem(self, index) == Getitem(self, index, ExactIntToSmi(index), ByteAt)

NativeGetitem(self, index) ==
  CASE self.kind = "list" -> ListGetitem(self, index)
    [] self.kind = "tuple" -> TupleGetitem(self, index)
    [] self.kind = "str" -> StrGetitem(self, index)
    [] self.kind = "bytes" -> BytesGetitem(self, index)

\* The shape key of a value: what the interpreter's cache compares
ShapeKey(v) == IF v.kind = "slice" THEN <<"slice", v.shape>> ELSE <<v.kind>>

\* Resolution for a key's shape and the handlers, which do not look at the key's
\* type again: the same for the four types but for the item they make.
Trusted(key, self, index, Item(_, _)) ==
  LET n == NormalizeNonstrided(index, Len(self.items))
      g == NormalizeGeneral(index, Len(self.items))
  IN  CASE key = <<"smi">> -> Item(self, index.int)
        [] key = <<"slice", "step_none">> ->
             IF IsRaised(n) THEN n ELSE Object(self.kind, Copied(self.items, n))
        [] key = <<"slice", "general">> ->
             IF IsRaised(g) THEN g ELSE Object(self.kind, Stepped(self.items, g))
        [] OTHER -> NativeGetitem(self, index)

ListTrusted(key, self, index) == Trusted(key, self, index, ItemOfList)
TupleTrusted(key, self, index) == Trusted(key, self, index, ItemOfTuple)
StrTrusted(key, self, index) == Trusted(key, self, index, CharAt)
BytesTrusted(key, self, index) == Trusted(key, self, index, ByteAt)

\* self[index] with what was resolved for a key of the same shape
Subscript(self, index) ==
  LET key == ShapeKey(index)
  IN  CASE self.kind = "list" -> ListTrusted(key, self, index)
        [] self.kind = "tuple" -> TupleTrusted(key, self, index)
        [] self.kind = "str" -> StrTrusted(key, self, index)
        [] self.kind = "bytes" -> BytesTrusted(key, self, index)

-----------------------------------------------------------------------------
(***************************************************************************)
(* for loops over range(...): the builtin and its iterator, the loop over  *)
(* that iterator (op_for_iter), and the loops without one that             *)
(* op_for_prep_range1..3 set up when the name range still means the        *)
(* builtin, run by op_for_iter_range1 and op_for_iter_range_step.          *)
(* A loop is its state [current, stop, step] and yields, at each turn,     *)
(* <<value>>, <<>> at its end, or what it raises.                          *)
(***************************************************************************)

LoopState(start, stop, step) == [current |-> start, stop |-> stop, step |-> step]

\* builtin_range: two arguments may be None; every argument must be an immediate
BuiltinRange(first, second, third) ==
  LET start == IF second = None THEN Smi(0) ELSE first
      stop == IF second = None THEN first ELSE second
      step == IF third = None THEN Smi(1) ELSE third
  IN  IF \E a \in {start, stop, step} : ~IsSmi(a) THEN Raised("TypeError")
      ELSE IF step.int = 0 THEN Raised("ValueError")
      ELSE LoopState(start.int, stop.int, step.int)

\* op_for_prep_range1, 2 and 3, by the number of arguments of the call
PrepRange(args) ==
  IF \E i \in DOMAIN args : ~IsSmi(args[i]) THEN Raised("TypeError")
  ELSE CASE Len(args) = 1 -> LoopState(0, args[1].int, 1)
         [] Len(args) = 2 -> LoopState(args[1].int, args[2].int, 1)
         [] Len(args) = 3 -> IF args[3].int = 0 THEN Raised("ValueError")
                             ELSE LoopState(args[1].int, args[2].int, args[3].int)

\* from_smi shifts the sum into the word: the sum of two immediates never
\* overflows 64 bits, and bits past the immediate's width are lost.
NextRangeValue(loop) == Wrapped(loop.current + loop.step)

Exhausted(loop) == IF loop.step > 0 THEN loop.current >= loop.stop ELSE loop.current <= loop.stop

Advance(loop) ==
  IF Exhausted(loop) THEN [yield |-> <<>>, loop |-> loop]
  ELSE [yield |-> <<loop.current>>, loop |-> [loop EXCEPT !.current = NextRangeValue(loop)]]

OpForIter(loop) == Advance(loop)
OpForIterRangeStep(loop) == Advance(loop)
OpForIterRange1(loop) ==
  IF loop.current >= loop.stop THEN [yield |-> <<>>, loop |-> loop]
  ELSE [yield |-> <<loop.current>>, loop |-> [loop EXCEPT !.current = Wrapped(loop.current + 1)]]

\* The values of the first n turns
Turns(loop, n, Step(_)) ==
  LET after[k \in 0 .. n] ==
        IF k = 0 THEN [values |-> <<>>, ended |-> FALSE, loop |-> loop]
        ELSE LET s == after[k - 1]
                 turn == Step(s.loop)
             IN  IF s.ended THEN s
                 ELSE [values |-> s.values \o turn.yield, ended |-> turn.yield = <<>>, loop |-> turn.loop]
  IN  after[n]

\* The loop as the compiler emits it: the short form while range is the builtin
ForRange(args, isBuiltin, n) ==
  LET fast == PrepRange(args)
      slow == BuiltinRange(args[1], IF Len(args) > 1 THEN args[2] ELSE None, IF Len(args) > 2 THEN args[3] ELSE None)
  IN  IF isBuiltin
      THEN IF IsRaised(fast) THEN fast
           ELSE IF Len(args) = 3 THEN Turns(fast, n, OpForIterRangeStep) ELSE Turns(fast, n, OpForIterRange1)
      ELSE IF IsRaised(slow) THEN slow ELSE Turns(slow, n, OpForIter)
=============================================================================
