----------------------------- MODULE MCBuiltins -----------------------------
(***************************************************************************)
(* The built-in types.  A behaviour takes one part: a program that works   *)
(* on one dictionary (Dict), operations on two lists and an iterator       *)
(* (ListObjects), or one call of an integer or a sequence operation        *)
(* (IntOperators, StringMethods, SequenceAccess), whose result the step    *)
(* that evaluates it compares with what Python defines.                    *)
(***************************************************************************)
EXTENDS Dict, ListObjects, StringMethods

-----------------------------------------------------------------------------
(* Dictionaries.  Keys K and L are equal; those with hash 23 meet in slot 7*)
(* of 16 and in slot 23 of 32.                                             *)

CONSTANTS K, L, M, O, Q, T, V, U, W, p1, p2, p3, p4, p5, p6, p7, p8, p9, p10, it

MCHash == [x \in Keys |->
  CASE x = U -> 0 [] x = p1 -> 1 [] x = p2 -> 2 [] x = p3 -> 3 [] x = p4 -> 4
    [] x = p5 -> 5 [] x = p6 -> 6 [] x = p7 -> 9 [] x = p8 -> 10 [] x = p9 -> 11
    [] x = p10 -> 12 [] OTHER -> 23]
MCClass == [x \in Keys |-> IF x = L THEN K ELSE x]

Strings == <<p1, p2, p3, p4, p5, p6, p7, p8, p9>>
Everything == [display |-> <<>>, ops |-> AllOps, paths |-> BOOLEAN, keys |-> {},
               iterators |-> {}, depth |-> 1, calls |-> 4]

\* Calls one after the other on a string-keyed table that promotes and grows.
Sequential == [Everything EXCEPT !.display = Strings \o <<p10, V>>, !.keys = {V, U, K}]
\* Calls within __hash__ and __eq__, on the verge of growing.
Reentrant == [Everything EXCEPT !.display = Strings \o <<U, V, M, K>>, !.keys = {K, L},
                                !.depth = 2, !.calls = 3]
\* Inserts three deep at the load limit; all new keys meet in one slot.
NearlyFull == [Everything EXCEPT !.display = Strings \o <<U, V, M>>, !.ops = {"set"},
                                 !.keys = {O, Q, T, W}, !.depth = 3]
NearlyFullOn(path, keys) == [NearlyFull EXCEPT !.paths = {path}, !.keys = keys]
\* An iterator over a table that shrinks and grows back.
Iterating == [Everything EXCEPT !.display = <<V, U>>, !.keys = {V, U},
                                !.iterators = {it}, !.calls = 6]
MCPrograms == {Sequential, Reentrant, NearlyFullOn(TRUE, {O, Q, T}),
               NearlyFullOn(FALSE, {O, Q, T, W}), Iterating}

\* Inserts four deep, in the generated bytecode.
FourDeep == {[NearlyFullOn(FALSE, {O, Q, T, W}) EXCEPT !.depth = 4]}
NewKeys == Permutations({O, Q, T, W})   \* nothing tells them apart

-----------------------------------------------------------------------------
(* Lists                                                                   *)

OddOne == CHOOSE e \in Elements : TRUE
OneTuple == {<<>>, <<OddOne>>}
MCComparesAs == [e \in Elements |-> e = OddOne]   \* the others are equal to each other
Alike == Permutations(Elements \ {OddOne}) \cup Permutations(Lists)   \* nothing tells them apart
MCListIndexes == {-2, 0, 2}

-----------------------------------------------------------------------------
(* Integer operations on values around the limits of the representations:  *)
(* immediate integers, one, two and three digits.  A machine word has 8    *)
(* bits, a digit 4, an immediate integer 6.                                *)

VARIABLES
  part,      \* "dict", "list", "int" or "sequence"
  case,      \* the call to evaluate
  evaluated  \* has it been?

Ref == INSTANCE PythonInts WITH Width <- 20, Mantissa <- Precision, Exponent <- MaxExponent,
                                Radix <- DecimalRadix

\* The value of an integer object
Magnitude(digits) ==
  LET m[i \in 0 .. Len(digits)] == IF i = 0 THEN 0 ELSE m[i - 1] + digits[i] * Digits ^ (i - 1)
  IN  m[Len(digits)]
IntOf(a) == IF a.kind = "big" THEN a.view.signum * Magnitude(a.view.digits) ELSE SmiOrBoolAsInt(a)

RECURSIVE DigitsOf(_)
DigitsOf(x) == IF x = 0 THEN <<>> ELSE <<x % Digits>> \o DigitsOf(x \div Digits)
Abs(x) == IF x < 0 THEN -x ELSE x
IntValue(x) ==
  IF Overflows(x) THEN Big(View(IF x < 0 THEN -1 ELSE 1, DigitsOf(Abs(x)))) ELSE Smi(x)

\* Is a an object the interpreter may hold for the expected result r?
Represents(a, r) ==
  IF Ref!IsNum(r)
  THEN /\ ~IsRaised(a)
       /\ IF Overflows(r.int) THEN a.kind = "big" /\ IsNormalized(a.view) ELSE a.kind = "smi"
       /\ IntOf(a) = r.int
  ELSE IF "float" \in DOMAIN r THEN a = Float(r.float = "negative")
  ELSE a = r

EdgeDigits == {0, 1, 8, 15}
Small == {-32, -31, -17, -16, -15, -3, -2, -1, 0, 1, 2, 3, 5, 15, 16, 17, 30, 31}
TwoDigits == {32, 33, 127, 128, 129, 135, 240, 255}
ThreeDigits == {a + b * 16 + c * 256 : a \in EdgeDigits, b \in EdgeDigits, c \in EdgeDigits \ {0}}
FourDigits == {4096, 26880, 30721, 65535}   \* the estimate of a quotient digit is one too large
Magnitudes == TwoDigits \cup ThreeDigits
Numbers == Small \cup Magnitudes \cup {-x : x \in Magnitudes}
FewNumbers == Small \cup TwoDigits \cup {-x : x \in TwoDigits} \cup {256, 2047, 4095, -256, -4095}
              \cup FourDigits \cup {-x : x \in FourDigits}
IntegerObjects == {IntValue(x) : x \in Numbers} \cup {Bool(b) : b \in BOOLEAN}
FewIntegers == {IntValue(x) : x \in FewNumbers} \cup {Bool(b) : b \in BOOLEAN}

ArithmeticOps == {"add", "sub", "mul", "floordiv", "mod", "and", "xor", "or"}

\* Operands of op: results stay within the width of the reference
OperandsOf(op) ==
  CASE op \in ArithmeticOps -> FewIntegers \X IntegerObjects
    [] op \in CompareOps -> FewIntegers \X FewIntegers
    [] op = "lshift" -> FewIntegers \X {IntValue(x) : x \in {-1, 0, 1, 2, 3, 4, 5, 7, 8, 9, 12}}
    [] op = "rshift" -> FewIntegers \X {IntValue(x) : x \in -2 .. 13 \cup {40, 255, 4096}}
    [] op = "pow" -> {IntValue(x) : x \in {-33, -32, -5, -2, -1, 0, 1, 2, 3, 5, 6, 31}} \X
                     {IntValue(x) : x \in {-4096, -255, -33, -2, -1, 0, 1, 2, 3, 4, 5}}
                     \cup {IntValue(x) : x \in {-2, 2}} \X {IntValue(x) : x \in 6 .. 20}
                     \cup {IntValue(x) : x \in {-70000, 4096}} \X {IntValue(x) : x \in {-3, -2}}

Opcodes == ArithmeticOps \cup CompareOps \cup {"lshift", "rshift", "pow"}
Immediate(op, b) == IsSmi(b) /\ op \notin CompareOps /\ (op = "lshift" => b.int \in 0 .. WordBits - 1)

\* The register form of a subtraction that overflows is the subject of a run of its own.
Restores(form, op, a, b) ==
  ~(form = "reg" /\ op = "sub" /\ IsSmi(a) /\ IsSmi(b) /\ Overflows(a.int - b.int))

Chars == {PlusSign, MinusSign, Underscore, Space, Letter, 0, 1, 2}
Texts == UNION {[1 .. n -> Chars] : n \in 0 .. 4} \cup
         {s \o t : s \in {<<>>, <<MinusSign>>, <<Space, PlusSign>>},
                   t \in [1 .. 5 -> {0, 1, 2}] \cup [1 .. 6 -> {0, 2, Underscore}]}

\* A result that is expected: an integer, an error, a truth value ...
ExpectedText(t) ==
  LET s == Trimmed(t)
      body == WithoutSign(s)
      ok == /\ body # <<>> /\ Head(body) # Underscore /\ Last(body) # Underscore
            /\ \A i \in DOMAIN body : IsNumeral(body[i]) \/ (body[i] = Underscore /\ body[i - 1] # Underscore)
      value == Ref!ValueOf(SelectSeq(body, IsNumeral))
  IN  IF ok THEN Ref!Num(IF IsNegative(s) THEN -value ELSE value) ELSE Raised("ValueError")

IntegerCase ==
  \/ \E op \in Opcodes, form \in {"reg", "imm"} : \E o \in OperandsOf(op) :
       /\ form = "imm" => Immediate(op, o[2])
       /\ Restores(form, op, o[1], o[2])
       /\ case = [call |-> "opcode", op |-> op, form |-> form, a |-> o[1], b |-> o[2]]
  \/ \E op \in {"sub", "floordiv", "rshift", "pow"}, r \in BOOLEAN, order \in {"normal", "reflected"} :
     \E o \in IF op = "pow" THEN {IntValue(x) : x \in -6 .. 6} \X {IntValue(x) : x \in -6 .. 6}
           ELSE FewIntegers \X FewIntegers :
       case = [call |-> "handler", op |-> op, form |-> <<r, order>>, a |-> o[1], b |-> o[2]]
  \/ \E op \in {"sub", "floordiv", "or", "lt"}, r \in BOOLEAN :
     \E a, b \in {IntValue(x) : x \in {-33, -32, -3, 0, 2, 31, 255}} \cup {Bool(TRUE), Other} :
       case = [call |-> "method", op |-> op, form |-> r, a |-> a, b |-> b]
  \/ \E op \in {"neg", "pos", "invert"}, a \in IntegerObjects :
       case = [call |-> "unary", op |-> op, form |-> "", a |-> a, b |-> a]
  \/ \E a \in IntegerObjects, op \in {"hash", "str", "double", "int64"} :
       case = [call |-> "convert", op |-> op, form |-> "", a |-> a, b |-> a]
  \/ \E a \in {IntValue(x) : x \in {-40, -17, -3, -2, 0, 1, 3, 31, 32, 50}},
        b \in {IntValue(x) : x \in {-40, -3, -1, 0, 1, 2, 37}},
        m \in {IntValue(x) : x \in {-35, -9, -1, 0, 1, 2, 15, 31, 34, 255, -300}}, r \in BOOLEAN :
       case = [call |-> "ternary", op |-> r, form |-> m, a |-> a, b |-> b]
  \/ \E t \in Texts :
       case = [call |-> "parse", op |-> "", form |-> "", a |-> [kind |-> "str", text |-> t], b |-> Smi(0)]

IntegerResult(c) ==
  CASE c.call = "opcode" -> BinaryOpcode(c.op, c.form, c.a, c.b)
    [] c.call = "handler" -> TrustedHandler(c.op, c.form[1], c.form[2], c.a, c.b)
    [] c.call = "method" -> NativeMethod(c.op, c.form, c.a, c.b)
    [] c.call = "unary" -> UnaryOpcode(c.op, c.a)
    [] c.call = "ternary" -> TernaryPow(c.a, c.b, c.form, c.op)
    [] c.call = "parse" -> IntNew(c.a)
    [] c.call = "convert" ->
         (CASE c.op = "hash" -> [int |-> IntHash(c.a)]
            [] c.op = "str" -> [text |-> IntStr(NativePos(c.a))]
            [] c.op = "double" -> BigIntToDouble(IntLikeView(c.a))
            [] c.op = "int64" -> BigIntToInt64(IntLikeView(c.a)))

Swapped(c) == c.form[1] # (c.form[2] = "reflected")
HashMod == 2 ^ HashModulusBits - 1

\* Every integer operation gives what it gives on mathematical integers, as an
\* immediate integer if it fits one and else as a normalized heap integer: the
\* opcodes with their overflow checks (runtime/interpreter.cpp), the methods and
\* trusted handlers (builtin_types/int.cpp), the digit algorithms
\* (builtin_types/bigint.cpp).
IntegerCorrect(c, r) ==
  LET x == IntOf(c.a)
      y == IntOf(c.b)
  IN  CASE c.call = "opcode" /\ c.op \in CompareOps -> r = Bool(Ref!Related(c.op, x, y))
        [] c.call = "opcode" /\ c.op \notin CompareOps -> Represents(r, Ref!Exact(c.op, x, y))
        [] c.call = "handler" ->
             Represents(r, IF Swapped(c) THEN Ref!Exact(c.op, y, x) ELSE Ref!Exact(c.op, x, y))
        [] c.call = "method" ->
             (CASE c.a = Other -> r = Raised("TypeError")
                [] c.a # Other /\ c.b = Other -> r = NotImplemented
                [] c.op = "lt" -> r = Bool(IF c.form THEN y < x ELSE x < y)
                [] OTHER -> Represents(r, IF c.form THEN Ref!Exact(c.op, y, x) ELSE Ref!Exact(c.op, x, y)))
        [] c.call = "unary" -> Represents(r, Ref!Exact(c.op, x, 0))
        [] c.call = "ternary" ->
             Represents(r, IF c.op THEN Ref!ModularPower(y, x, IntOf(c.form))
                           ELSE Ref!ModularPower(x, y, IntOf(c.form)))
        [] c.call = "parse" -> Represents(r, ExpectedText(c.a.text))
        [] c.call = "convert" /\ c.op = "str" ->
             r.text = (IF x < 0 THEN <<MinusSign>> ELSE <<>>) \o Ref!NumeralsOf(Abs(x))
        [] c.call = "convert" /\ c.op = "double" ->
             IF Ref!IsNum(Ref!Nearest(x)) THEN r = [double |-> Ref!Nearest(x).int] ELSE r = Ref!Nearest(x)
        [] c.call = "convert" /\ c.op = "int64" ->
             r = IF x \in -Int64Max - 1 .. Int64Max THEN [int64 |-> x] ELSE Raised("OverflowError")
        [] c.call = "convert" /\ c.op = "hash" ->
             IF Overflows(x)
             THEN /\ (r.int - x) % HashMod = 0 \/ (r.int = -2 /\ (x + 1) % HashMod = 0)
                  /\ r.int \in -HashMod .. HashMod /\ r.int # -1
             ELSE r.int = IF x = -1 THEN -2 ELSE x

-----------------------------------------------------------------------------
(* Calls of the sequence operations on short sequences                     *)

LeftOut == 4096                                \* stands for an argument that is left out
Python == INSTANCE PythonSequences WITH NoBound <- LeftOut

Heap32 == FinalizeBigInt(View(1, <<0, 2>>))    \* an integer that is no immediate

Items(kind, n) == [i \in 1 .. n |-> IF kind \in {"str", "bytes"} THEN i ELSE Smi(i)]
Subscripts == {Smi(i) : i \in {-6, -5, -4, -1, 0, 1, 3, 4, 6, SmiMin, SmiMax}} \cup {Bool(TRUE), Heap32, None, Other}
Bounds == {Smi(i) : i \in {-6, -3, -1, 0, 1, 3, 6}} \cup {None, Bool(TRUE), Heap32, Other}
Steps == {Smi(i) : i \in {-4, -2, -1, 0, 1, 2, 3}} \cup {None, Heap32, Other}

AllTexts(chars, n) == UNION {[1 .. k -> chars] : k \in 0 .. n}
Short == AllTexts({Upper, Lower}, 3) \cup {<<Lower, Upper, Lower, Upper>>, <<Lower, Lower, Lower, Lower>>}
Needles == AllTexts({Upper, Lower}, 2)
Blanked == AllTexts({Blank, Lower}, 4) \cup AllTexts({LineBreak, Upper, Lower}, 3)
SearchBounds == {Smi(i) : i \in {-4, -1, 1, 5}} \cup {None, Heap32}
Limits == {Smi(i) : i \in -1 .. 3}
RecaseMethods == {"lower", "upper", "capitalize", "swapcase"}
ClassMethods == {"isalpha", "isdigit", "isalnum", "isspace", "islower", "isupper", "isascii", "isprintable"}

RangeBounds == {Smi(i) : i \in {-3, 0, 1, 4, SmiMin, SmiMax, SmiMax - 1}} \cup {Heap32, Bool(TRUE)}
RangeSteps == {Smi(i) : i \in {-9, -2, -1, 0, 1, 2, 9}} \cup {Heap32}
TurnBound == 9

Call(name, self, args) == case = [call |-> name, self |-> self, args |-> args]

SequenceCase ==
  \/ \E kind \in Kinds, n \in 0 .. 4, i \in Subscripts : Call("item", Object(kind, Items(kind, n)), <<i>>)
  \/ \E kind \in Kinds, n \in 0 .. 4, start \in Bounds, stop \in Bounds, step \in Steps :
       Call("slice", Object(kind, Items(kind, n)), <<start, stop, step>>)
  \/ \E n \in {Smi(i) : i \in -1 .. 4} \cup {Heap32}, start \in Bounds, stop \in Bounds, step \in Steps :
       Call("indices", n, <<start, stop, step>>)
  \/ \E kind \in {"str", "bytes"}, method \in SearchMethods, s \in Short, start \in SearchBounds, stop \in SearchBounds :
     \E t \in {Object(kind, x) : x \in Needles} \cup {Other}
              \cup IF kind = "bytes" THEN {Smi(-1), Smi(Upper), Smi(Lower), Smi(ByteMax + 1), Heap32} ELSE {} :
       Call(method, Object(kind, s), <<t, start, stop>>)
  \/ \E kind \in {"str", "bytes"}, s \in Short :
     \E t \in {Object(kind, x) : x \in Needles} \cup {Other, Smi(Upper), Smi(ByteMax + 1), Bool(TRUE), Heap32} :
       Call("contains", Object(kind, s), <<t>>)
  \/ \E s \in Blanked, m \in Limits \cup {Heap32, Other}, reverse \in BOOLEAN :
     \E t \in {Str(x) : x \in AllTexts({Blank, Lower}, 2)} \cup {None, Other} :
       Call("split", Str(s), <<t, m, reverse>>)
  \/ \E s \in Short, reverse \in BOOLEAN, t \in {Str(x) : x \in Needles} \cup {Other} :
       Call("partition", Str(s), <<t, reverse>>)
  \/ \E kind \in {"str", "bytes"}, s \in Short, old \in Needles, new \in {<<>>, <<Lower>>, <<Lower, Upper>>}, m \in -1 .. 3 :
       Call("replace", Object(kind, s), <<old, new, m>>)
  \/ \E kind \in {"str", "bytes"}, method \in {"removeprefix", "removesuffix"}, s \in Short, t \in Needles :
       Call(method, Object(kind, s), <<t>>)
  \/ \E s \in Blanked, method \in {"strip", "lstrip", "rstrip"},
        chars \in {Str(x) : x \in {<<>>, <<Lower>>, <<Blank, Lower>>}} \cup {None, Other} :
       Call(method, Str(s), <<chars>>)
  \/ \E s \in AllTexts({Blank}, 2), kind \in {"list", "tuple"},
        items \in AllTexts({Str(<<Lower>>), Str(<<>>), Other}, 3) :
       Call("join", Str(s), <<Object(kind, items)>>)
  \/ \E s \in AllTexts({Blank}, 2), kind \in {"str", "bytes"}, x \in AllTexts({Lower}, 2) :
       Call("join", Str(s), <<Object(kind, x)>>)
  \/ \E kind \in {"str", "bytes"}, s \in Short \cup Needles, t \in Needles, r \in BOOLEAN, op \in CompareOps :
       Call("compare", Object(kind, s), <<op, t, r>>)
  \/ \E s \in AllTexts({Blank, LineBreak, Numeral, Quote, Upper, Backslash, Lower, Foreign}, 2),
        method \in RecaseMethods \cup ClassMethods \cup {"repr", "hash"} : Call(method, Str(s), <<>>)
  \/ \E source \in {None, Other, Smi(2), Bytes(<<Lower>>)} \cup
        {Object(kind, items) : kind \in {"list", "tuple"},
           items \in AllTexts({Smi(0), Smi(ByteMax), Smi(ByteMax + 1), Smi(-1), Heap32, Bool(TRUE)}, 2)} :
       Call("bytes", Other, <<source>>)
  \/ \E start \in RangeBounds, stop \in RangeBounds, step \in RangeSteps, builtin \in BOOLEAN :
     \E a \in {<<stop>>, <<start, stop>>, <<start, stop, step>>} : Call("range", Bool(builtin), a)

SequenceResult(c) ==
  LET s == c.self.items
      a == c.args
      str == c.self.kind = "str"
  IN  CASE c.call = "item" -> <<Subscript(c.self, a[1]), NativeGetitem(c.self, a[1])>>
        [] c.call = "slice" -> LET slice == SliceNew(a) IN <<Subscript(c.self, slice), NativeGetitem(c.self, slice)>>
        [] c.call = "indices" -> SliceIndices(SliceNew(a), c.self)
        [] c.call \in SearchMethods ->
             IF str THEN StrSearch(c.call, c.self, a[1], a[2], a[3])
             ELSE IF c.call \in {"startswith", "endswith"} THEN BytesAffix(c.call, c.self, a[1], a[2], a[3])
             ELSE BytesSearch(c.call, c.self, a[1], a[2], a[3])
        [] c.call = "contains" -> IF str THEN StrContains(c.self, a[1]) ELSE BytesContains(c.self, a[1])
        [] c.call = "split" -> StrSplit(c.self, a[1], a[2], a[3])
        [] c.call = "partition" -> PartitionString(c.self, a[1], a[2])
        [] c.call = "replace" -> IF str THEN StrReplace(s, a[1], a[2], a[3]) ELSE BytesReplace(s, a[1], a[2], a[3])
        [] c.call \in {"removeprefix", "removesuffix"} ->
             IF ~str THEN BytesRemove(c.call, s, a[1])
             ELSE IF c.call = "removeprefix" THEN RemovePrefix(s, a[1]) ELSE RemoveSuffix(s, a[1])
        [] c.call \in {"strip", "lstrip", "rstrip"} -> StrStrip(c.call, c.self, a[1])
        [] c.call = "join" -> StrJoin(c.self, a[1])
        [] c.call = "compare" ->
             (CASE str /\ a[3] -> StrCompareReflected(a[1], s, a[2])
                [] str /\ ~a[3] -> StrCompare(a[1], s, a[2])
                [] ~str /\ a[3] -> BytesCompareReflected(a[1], s, a[2])
                [] ~str /\ ~a[3] -> BytesCompare(a[1], s, a[2]))
        [] c.call \in RecaseMethods -> StrRecased(c.call, s)
        [] c.call \in ClassMethods -> StrClassify(c.call, s)
        [] c.call = "repr" -> StrRepr(s)
        [] c.call = "hash" -> <<StringHash(s), BytesHash(s)>>
        [] c.call = "bytes" -> BytesNew(a[1])
        [] c.call = "range" -> ForRange(a, c.self.bool, TurnBound)

\* Python takes any integer, of any size, and a bool is one.
IsIndex(v) == v # None /\ v # Other /\ IsIntLike(v)
Index_(v) == IF v = None THEN LeftOut ELSE IntOf(v)

\* What a slice cannot use: its step is looked at before its bounds.
StepOf(v) == IF v = None THEN 1 ELSE IntOf(v)
SliceError(a) ==
  CASE a[3] = Other -> <<Raised("TypeError")>>
    [] a[3] # Other /\ StepOf(a[3]) = 0 -> <<Raised("ValueError")>>
    [] OTHER -> IF Other \in {a[1], a[2]} THEN <<Raised("TypeError")>> ELSE <<>>
SelectedOf(length, a) == Python!Selected(length, Index_(a[1]), Index_(a[2]), StepOf(a[3]))

\* What r = range(start, stop, step) visits
RangePositions(length, start, stop, step) ==
  {start + k * step : k \in 0 .. 2 * length + 2} \cap
  {p \in -1 .. length : IF step > 0 THEN p >= start /\ p < stop ELSE p <= start /\ p > stop}

ItemCorrect(c, r) ==
  LET i == c.args[1]
      n == Len(c.self.items)
      k == Python!Resolved(IntOf(i), n)
  IN  IF ~IsIndex(i) THEN r = Raised("TypeError")
      ELSE IF k \notin 0 .. n - 1 THEN r = Raised("IndexError")
      ELSE r = CASE c.self.kind = "str" -> Str(<<c.self.items[k + 1]>>)
                 [] c.self.kind = "bytes" -> Smi(c.self.items[k + 1])
                 [] OTHER -> c.self.items[k + 1]

SliceCorrect(c, r) ==
  LET s == c.self.items
      chosen == SelectedOf(Len(s), c.args)
  IN  IF SliceError(c.args) # <<>> THEN r = SliceError(c.args)[1]
      ELSE r = Object(c.self.kind, [i \in DOMAIN chosen |-> s[chosen[i] + 1]])

IndicesCorrect(c, r) ==
  IF IntOf(c.self) < 0 THEN r = Raised("ValueError")
  ELSE IF SliceError(c.args) # <<>> THEN r = SliceError(c.args)[1]
  ELSE ~IsRaised(r) /\ RangePositions(IntOf(c.self), r.items[1].int, r.items[2].int, r.items[3].int)
                            = ToSet(SelectedOf(IntOf(c.self), c.args))

\* An integer searched for in bytes is a text of one byte.
NeedleOf(v) == IF IsIntLike(v) THEN <<IntOf(v)>> ELSE v.items
NeedleError(c) ==
  LET needle == c.args[1]
      takesInt == c.self.kind = "bytes" /\ c.call \notin {"startswith", "endswith"}
  IN  IF IsIndex(needle)
      THEN IF ~takesInt THEN <<Raised("TypeError")>>
           ELSE IF IntOf(needle) \notin 0 .. ByteMax THEN <<Raised("ValueError")>> ELSE <<>>
      ELSE IF needle.kind # c.self.kind THEN <<Raised("TypeError")>> ELSE <<>>

SearchCorrect(c, r) ==
  LET s == c.self.items
      t == NeedleOf(c.args[1])
      start == Index_(c.args[2])
      stop == Index_(c.args[3])
      at == Python!Occurrences(s, t, start, stop)
      position(p) == IF c.call \in {"index", "rindex"} /\ p = -1 THEN Raised("ValueError") ELSE Smi(p)
  IN  IF NeedleError(c) # <<>> THEN r = NeedleError(c)[1]
      ELSE CASE c.call = "startswith" -> r = Bool(Python!From(s, start) \in at)
             [] c.call = "endswith" -> r = Bool(Python!To(s, stop) - Len(t) \in at)
             [] c.call \in {"find", "index"} -> r = position(Python!First(at))
             [] c.call \in {"rfind", "rindex"} -> r = position(Python!Final(at))
             [] c.call = "count" -> r = Smi(Python!Packed(at, Len(t)))

ContainsCorrect(c, r) ==
  r = IF NeedleError(c) # <<>> THEN NeedleError(c)[1]
      ELSE Bool(Python!Occurrences(c.self.items, NeedleOf(c.args[1]), LeftOut, LeftOut) # {})

TextsOf(pieces) == [i \in DOMAIN pieces |-> pieces[i].items]

\* The pieces of a split at blanks, from the right in a reverse one
WordsOf(c) ==
  LET s == c.self.items
      m == IntOf(c.args[2])
  IN  IF c.args[3] THEN Python!Mirrored(Python!WordsCut(Reverse(s), m, IsWSpace))
      ELSE Python!WordsCut(s, m, IsWSpace)
SplitCorrect(c, r) ==
  LET s == c.self.items
      sep == c.args[1]
      m == IntOf(c.args[2])
      pieces == TextsOf(r.items)
  IN  IF Other \in {c.args[2], sep} THEN r = Raised("TypeError")
      ELSE IF sep = None THEN ~IsRaised(r) /\ pieces = WordsOf(c)
      ELSE IF sep.items = <<>> THEN r = Raised("ValueError")
      ELSE ~IsRaised(r) /\ IF c.args[3] THEN Python!CutAt(Python!Mirrored(pieces), Reverse(s), Reverse(sep.items), m)
                           ELSE Python!CutAt(pieces, s, sep.items, m)

PartitionCorrect(c, r) ==
  LET s == c.self.items
      t == c.args[1].items
      at == Python!Occurrences(s, t, LeftOut, LeftOut)
      p == IF c.args[2] THEN Python!Final(at) ELSE Python!First(at)
  IN  IF c.args[1] = Other THEN r = Raised("TypeError")
      ELSE IF t = <<>> THEN r = Raised("ValueError")
      ELSE IF IsRaised(r) THEN FALSE
      ELSE IF at = {} THEN TextsOf(r.items) = IF c.args[2] THEN <<<<>>, <<>>, s>> ELSE <<s, <<>>, <<>>>>
      ELSE TextsOf(r.items)[2] = t /\ FlattenSeq(TextsOf(r.items)) = s /\ Len(TextsOf(r.items)[1]) = p

\* join goes over the items of a sequence: characters of a str, integers of bytes.
JoinCorrect(c, r) ==
  LET o == c.args[1]
      texts == IF o.kind = "str" THEN [i \in DOMAIN o.items |-> <<o.items[i]>>] ELSE TextsOf(o.items)
      others == o.kind = "bytes" \/ (o.kind \in {"list", "tuple"} /\ Other \in ToSet(o.items))
  IN  IF o.items # <<>> /\ others THEN r = Raised("TypeError")
      ELSE r = Str(Python!Joined(c.self.items, IF o.items = <<>> THEN <<>> ELSE texts))

\* The case of a letter, by a table of those that have one
Recased(s, table) == [i \in DOMAIN s |-> IF s[i] \in DOMAIN table THEN table[s[i]] ELSE s[i]]
Rising == Lower :> Upper
Falling == Upper :> Lower
CaseCorrect(method, s, r) ==
  r = CASE method = "lower" -> Recased(s, Falling)
        [] method = "upper" -> Recased(s, Rising)
        [] method = "swapcase" -> Recased(s, Falling @@ Rising)
        [] method = "capitalize" ->
             IF s = <<>> THEN s ELSE Recased(<<Head(s)>>, Rising) \o Recased(Tail(s), Falling)

\* The classes hold of a text whose characters all belong, most not of the empty text.
ClassCorrect(method, s, r) ==
  LET chars == ToSet(s)
      all(C) == s # <<>> /\ chars \subseteq C
  IN  r = CASE method = "isalpha" -> all({Upper, Lower, Foreign})
            [] method = "isdigit" -> all({Numeral})
            [] method = "isalnum" -> all({Numeral, Upper, Lower, Foreign})
            [] method = "isspace" -> all({Blank, LineBreak})
            [] method = "islower" -> Lower \in chars /\ Upper \notin chars
            [] method = "isupper" -> Upper \in chars /\ Lower \notin chars
            [] method = "isascii" -> Foreign \notin chars
            [] method = "isprintable" -> LineBreak \notin chars

\* Reading a representation back
RECURSIVE Unescaped(_)
Unescaped(t) ==
  IF t = <<>> THEN <<>>
  ELSE IF Head(t) # Backslash THEN <<Head(t)>> \o Unescaped(Tail(t))
  ELSE <<IF t[2] = Lower THEN LineBreak ELSE t[2]>> \o Unescaped(Tail(Tail(t)))

\* bytes(n) is n zeros; of a list or a tuple every item is an integer that fits.
BytesCorrect(source, r) ==
  CASE source = None -> r = Bytes(<<>>)
    [] source = Other -> r = Raised("TypeError")
    [] OTHER ->
         IF IsIntLike(source) THEN r = Bytes([i \in 1 .. IntOf(source) |-> 0])
         ELSE IF source.kind = "bytes" THEN r = source
         ELSE IF \E i \in DOMAIN source.items : IntOf(source.items[i]) \notin 0 .. ByteMax THEN r = Raised("ValueError")
         ELSE r = Bytes([i \in DOMAIN source.items |-> IntOf(source.items[i])])

\* The values of a range, from the definition of the built-in
RangeValues(a) ==
  LET start == IF Len(a) = 1 THEN 0 ELSE IntOf(a[1])
      stop == IF Len(a) = 1 THEN IntOf(a[1]) ELSE IntOf(a[2])
      step == IF Len(a) = 3 THEN IntOf(a[3]) ELSE 1
      n == IF step > 0 /\ start < stop THEN ((stop - start - 1) \div step) + 1
           ELSE IF step < 0 /\ start > stop THEN ((start - stop - 1) \div (-step)) + 1 ELSE 0
  IN  [k \in 1 .. n |-> start + (k - 1) * step]
FirstTurns(values) == SubSeq(values, 1, IF Len(values) < TurnBound THEN Len(values) ELSE TurnBound)
RangeCorrect(a, r) ==
  IF Len(a) = 3 /\ IntOf(a[3]) = 0 THEN r = Raised("ValueError")
  ELSE /\ ~IsRaised(r)
       /\ r.values = FirstTurns(RangeValues(a)) /\ (r.ended <=> Len(RangeValues(a)) < TurnBound)

SequenceCorrect(c, r) ==
  LET s == c.self.items
      a == c.args
      n == Len(s)
  IN  CASE c.call = "item" -> ItemCorrect(c, r[1]) /\ ItemCorrect(c, r[2])
        [] c.call = "slice" -> SliceCorrect(c, r[1]) /\ SliceCorrect(c, r[2])
        [] c.call = "indices" -> IndicesCorrect(c, r)
        [] c.call \in SearchMethods -> SearchCorrect(c, r)
        [] c.call = "contains" -> ContainsCorrect(c, r)
        [] c.call = "split" -> SplitCorrect(c, r)
        [] c.call = "partition" -> PartitionCorrect(c, r)
        [] c.call = "replace" -> Python!Replaced(r, s, a[1], a[2], a[3])
        [] c.call = "removeprefix" -> r = IF IsPrefix(a[1], s) THEN SubSeq(s, Len(a[1]) + 1, n) ELSE s
        [] c.call = "removesuffix" -> r = IF IsSuffix(a[1], s) THEN SubSeq(s, 1, n - Len(a[1])) ELSE s
        [] c.call \in {"strip", "lstrip", "rstrip"} ->
             IF a[1] = Other THEN r = Raised("TypeError")
             ELSE ~IsRaised(r) /\ Python!Stripped(r.items, s, c.call # "rstrip", c.call # "lstrip",
                                  LAMBDA x : IF a[1] = None THEN IsWSpace(x) ELSE x \in ToSet(a[1].items))
        [] c.call = "join" -> JoinCorrect(c, r)
        [] c.call = "compare" ->
             r = IF a[3] THEN Python!Compares(a[1], a[2], s) ELSE Python!Compares(a[1], s, a[2])
        [] c.call \in RecaseMethods -> CaseCorrect(c.call, s, r)
        [] c.call \in ClassMethods -> ClassCorrect(c.call, s, r)
        [] c.call = "repr" -> Head(r) = Quote /\ Last(r) = Quote /\ Unescaped(SubSeq(r, 2, Len(r) - 1)) = s
        [] c.call = "hash" -> r[1] = r[2] /\ r[1] \in 0 .. SmiMax
        [] c.call = "bytes" -> BytesCorrect(a[1], r)
        [] c.call = "range" -> RangeCorrect(a, r)

-----------------------------------------------------------------------------
(* Where the VM is not Python: for which calls, and what they give instead *)

\* The heap integers and bools that a call is given
IntegersOf(c) ==
  LET given == CASE c.call = "split" -> <<c.args[2]>>
                 [] c.call = "indices" -> <<c.self>> \o c.args
                 [] OTHER -> c.args
  IN  ToSet(given) \cap {Heap32, Bool(TRUE)}
Refuses(r, e) == r = Raised(e) \/ r = <<Raised(e), Raised(e)>>

\* A subscript, a bound, a step, a limit or a length that is no immediate integer
\* (slice.h, list.cpp, str.cpp, bytes.cpp), also a heap integer asked for in bytes
HeapIntegerRefused(c, r) ==
  /\ c.call \in SearchMethods \cup {"item", "slice", "indices", "split", "contains"}
  /\ Heap32 \in IntegersOf(c)
  /\ Refuses(r, "OverflowError")

\* bytes[True], True in bytes, bytes([True]) (bytes.cpp)
BoolRefusedByBytes(c, r) ==
  /\ \/ c.call \in {"item", "contains"} /\ c.self.kind = "bytes" /\ c.args = <<Bool(TRUE)>>
     \/ c.call = "bytes" /\ c.args[1].kind \in {"list", "tuple"} /\ Bool(TRUE) \in ToSet(c.args[1].items)
  /\ Refuses(r, "TypeError")

\* bytes(n) (bytes.cpp), and join of what is neither a list nor a tuple (str.cpp)
IntegerRefusedByBytes(c, r) == c.call = "bytes" /\ IsSmi(c.args[1]) /\ r = Raised("TypeError")
JoinsOnlyListsAndTuples(c, r) ==
  c.call = "join" /\ c.args[1].kind \notin {"list", "tuple"} /\ r = Raised("TypeError")

\* range() of what is no immediate integer (interpreter.cpp, range.cpp)
RangeRefuses(c, r) == c.call = "range" /\ IntegersOf(c) # {} /\ r = Raised("TypeError")

\* The empty text is found at a start that lies past the end: the end is moved up
\* to the start (str.cpp, bytes.cpp).
EmptyFoundPastEnd(c, r) ==
  LET s == c.self.items
      start == Python!From(s, Index_(c.args[2]))
      clipped == IF start > Len(s) THEN Len(s) ELSE start
  IN  /\ c.call \in SearchMethods /\ ~IsIntLike(c.args[1]) /\ c.args[1].items = <<>>
      /\ start > Python!To(s, Index_(c.args[3]))
      /\ r = CASE c.call \in {"startswith", "endswith"} -> Bool(TRUE)
               [] c.call = "count" -> Smi(1)
               [] OTHER -> Smi(clipped)

\* A reverse split at blanks strips the piece it leaves also at its left end (str.cpp).
LeftPieceStripped(c, r) ==
  /\ c.call = "split" /\ c.args[3] /\ c.args[1] = None /\ IntOf(c.args[2]) > 0
  /\ LET kept == WordsOf(c)
     IN  /\ ~IsRaised(r) /\ Len(r.items) = Len(kept) /\ kept # <<>>
         /\ Tail(TextsOf(r.items)) = Tail(kept)
         /\ Python!Stripped(r.items[1].items, kept[1], TRUE, FALSE, IsWSpace)

\* The value past a range's last is no immediate: the loop runs on from the
\* other end of the immediates (range_iterator.cpp, op_for_iter_range_step).
RunsOnPastEnd(c, r) ==
  LET values == RangeValues(c.args)
      step == IF Len(c.args) = 3 THEN IntOf(c.args[3]) ELSE 1
  IN  /\ c.call = "range" /\ IntegersOf(c) = {} /\ values # <<>>
      /\ Overflows(Last(values) + step)
      /\ ~IsRaised(r) /\ ~r.ended /\ IsPrefix(FirstTurns(values), r.values)

NotPython(c, r) ==
  \/ HeapIntegerRefused(c, r) \/ BoolRefusedByBytes(c, r) \/ IntegerRefusedByBytes(c, r)
  \/ JoinsOnlyListsAndTuples(c, r) \/ RangeRefuses(c, r) \/ EmptyFoundPastEnd(c, r)
  \/ LeftPieceStripped(c, r) \/ RunsOnPastEnd(c, r)

-----------------------------------------------------------------------------
(* The parts                                                               *)

NoCase == [call |-> "none"]

DictPart == part = "dict" /\ Init /\ ListInit /\ case = NoCase /\ evaluated = TRUE
Idle == Init /\ program = Iterating /\ ListInit
ListPart == part = "list" /\ Idle /\ case = NoCase /\ evaluated = TRUE
CallPart ==
  /\ Idle
  /\ evaluated = FALSE
  /\ \/ part = "int" /\ IntegerCase
     \/ part = "sequence" /\ SequenceCase

\* Subtractions of two registers, whether or not they overflow
SubtractionPart ==
  /\ part = "int" /\ Idle /\ evaluated = FALSE
  /\ \E a, b \in {IntValue(x) : x \in Small} :
       case = [call |-> "opcode", op |-> "sub", form |-> "reg", a |-> a, b |-> b]

BuiltinsInit == DictPart \/ ListPart \/ CallPart

StepDict == part = "dict" /\ Next /\ UNCHANGED <<part, case, evaluated, listVars>>
StepList == part = "list" /\ ListNext /\ UNCHANGED <<part, case, evaluated, vars>>
Evaluate ==
  /\ ~evaluated
  /\ evaluated' = TRUE
  /\ UNCHANGED <<part, case, vars, listVars>>

BuiltinsNext == StepDict \/ StepList \/ Evaluate

builtinsVars == <<part, case, evaluated, vars, listVars>>
BuiltinsSpec == BuiltinsInit /\ [][BuiltinsNext]_builtinsVars

\* Every integer operation gives what it gives on mathematical integers, as an
\* immediate integer if it fits one and else as a normalized heap integer: the
\* opcodes with their overflow checks (runtime/interpreter.cpp), the methods and
\* trusted handlers (builtin_types/int.cpp), the digit algorithms
\* (builtin_types/bigint.cpp).
IntegersExact == [][part = "int" => IntegerCorrect(case, IntegerResult(case))]_evaluated

\* "Addition, subtraction, multiplication, negation, shifts, bitwise operations, and
\* binary power promote on SMI overflow" (doc/bigint.md): the opcode that subtracts two
\* registers gives the difference also when it does not fit an immediate integer.
SubtractionExact == [][part = "int" => IntegerCorrect(case, IntegerResult(case))]_evaluated

\* Every sequence operation returns, or raises, what Python's definition of it
\* says: slice.h's clipping and its count of selected items, the subscripts by
\* method and by trusted handler, the searches with their bounds, the splits from
\* both ends, replacement, stripping, joining, the case of letters, the classes of
\* characters, the orders, and loops over range (builtin_types/slice.h, list.cpp,
\* tuple.cpp, str.cpp, bytes.cpp, range_iterator.cpp).  Of repr the property is
\* that it reads back as the text.  Excepted are the calls of NotPython, each with
\* what it gives instead: heap integers are refused as subscripts, bounds, steps,
\* limits, lengths and by "in bytes" (HeapIntegerRefused), bytes refuses bools
\* (BoolRefusedByBytes) and bytes(n) (IntegerRefusedByBytes), join takes only
\* lists and tuples (JoinsOnlyListsAndTuples), range refuses heap integers and
\* bools (RangeRefuses), the empty text is found past the end (EmptyFoundPastEnd),
\* rsplit strips its left piece (LeftPieceStripped), and a range whose next value
\* is no immediate runs on (RunsOnPastEnd).
SequencesExact ==
  [][part = "sequence" => LET r == SequenceResult(case)
                          IN  SequenceCorrect(case, r) \/ NotPython(case, r)]_evaluated
=============================================================================
