---------------------------- MODULE IntOperators ----------------------------
(***************************************************************************)
(* Python's integers as the interpreter sees them: immediate integers      *)
(* (smi), booleans and heap integers; the opcodes that try machine         *)
(* arithmetic first (runtime/interpreter.cpp), the methods and trusted     *)
(* handlers behind them (builtin_types/int.cpp), int() of a text and the   *)
(* hash (builtin_types/hash.cpp).                                          *)
(***************************************************************************)
EXTENDS BigInt

Bool(b) == [kind |-> "bool", bool |-> b]
Big(v) == [kind |-> "big", view |-> v]
Other == [kind |-> "other"]                \* a value that is no integer
Float(negative) == [kind |-> "float", negative |-> negative]
NotImplemented == [kind |-> "NotImplemented"]
IsRaised(r) == "raised" \in DOMAIN r

IsSmi(a) == a.kind = "smi"
IsSmiOrBool(a) == a.kind \in {"smi", "bool"}
IsIntLike(a) == IsSmiOrBool(a) \/ a.kind = "big"
SmiOrBoolAsInt(a) == IF a.kind = "smi" THEN a.int ELSE IF a.bool THEN 1 ELSE 0
IntLikeView(a) == IF a.kind = "big" THEN a.view ELSE ViewOfInt64(SmiOrBoolAsInt(a))

\* Machine arithmetic on tagged words: the low bits are zero, so a result is
\* the integer modulo 2^SmiBits.
Wrapped(x) == ((x - SmiMin) % (2 ^ SmiBits)) + SmiMin
Overflows(x) == x < SmiMin \/ x > SmiMax

\* floor_div_smi_values and modulo_smi_values correct C++'s division, which truncates
Truncated(x, y) == LET q == (IF x < 0 THEN -x ELSE x) \div (IF y < 0 THEN -y ELSE y)
                   IN  IF (x < 0) # (y < 0) THEN -q ELSE q
Remainder(x, y) == x - y * Truncated(x, y)
FloorDivSmi(x, y) ==
  IF Remainder(x, y) # 0 /\ ((Remainder(x, y) < 0) # (y < 0)) THEN Truncated(x, y) - 1 ELSE Truncated(x, y)
ModuloSmi(x, y) ==
  IF Remainder(x, y) # 0 /\ ((Remainder(x, y) < 0) # (y < 0)) THEN Remainder(x, y) + y ELSE Remainder(x, y)

\* count_left_shift_headroom_bits: leading bits equal to the sign, less one
Headroom(x) ==
  LET bits == IF x < 0 THEN -(x + 1) ELSE x
      used == CHOOSE n \in 0 .. WordBits : bits < 2 ^ n /\ (n = 0 \/ bits >= 2 ^ (n - 1))
  IN  WordBits - used - 1

\* a word as a number without sign, and back
Unsigned(x) == x % (2 ^ WordBits)
Signed(u) == IF u >= 2 ^ (WordBits - 1) THEN u - 2 ^ WordBits ELSE u
BitwiseSmi(op, x, y) == Signed(ApplyDigits(op, Unsigned(x), Unsigned(y)))

-----------------------------------------------------------------------------
(* int.cpp: the operators on views and on immediate integers               *)

\* bigint_view_to_shift_count: more than two digits are too large
ShiftTooLarge(v) == NDigits(v) > 2

NegativePow(base, exponent) ==
  LET e == BigIntToDouble(exponent)
      b == BigIntToDouble(base)
  IN  IF IsRaised(e) THEN e
      ELSE IF IsRaised(b) THEN b
      ELSE IF base.signum = 0 THEN Raised("ZeroDivisionError")
      ELSE Float(base.signum < 0 /\ IsOdd(exponent))

\* An operator struct and its reflected twin, which swaps the operands
IntPowOperator(l, r) ==
  IF r.signum = 0 THEN Smi(1) ELSE IF r.signum < 0 THEN NegativePow(l, r) ELSE BigIntPow(l, r)

IntLShiftOperator(l, r) ==
  IF r.signum < 0 THEN Raised("ValueError")
  ELSE IF ShiftTooLarge(r) THEN Raised("OverflowError")
  ELSE BigIntLShift(l, TwoDigitMagnitude(r))

IntRShiftOperator(l, r) ==
  IF r.signum < 0 THEN Raised("ValueError")
  ELSE IF ShiftTooLarge(r) THEN Smi(IF l.signum < 0 THEN -1 ELSE 0)
  ELSE BigIntRShift(l, TwoDigitMagnitude(r))

IntArithmeticOperator(op, l, r) ==
  CASE op = "add" -> BigIntAdd(l, r)
    [] op = "sub" -> BigIntSub(l, r)
    [] op = "mul" -> BigIntMul(l, r)

IntDivisionOperator(op, l, r) ==
  CASE op = "floordiv" -> BigIntFloorDiv(l, r)
    [] op = "mod" -> BigIntMod(l, r)

IntBitwiseOperator(op, l, r) == BigIntBitwise(op, l, r)

IntOperator(op, l, r) ==
  CASE op \in {"add", "sub", "mul"} -> IntArithmeticOperator(op, l, r)
    [] op \in {"floordiv", "mod"} -> IntDivisionOperator(op, l, r)
    [] op = "pow" -> IntPowOperator(l, r)
    [] op = "lshift" -> IntLShiftOperator(l, r)
    [] op = "rshift" -> IntRShiftOperator(l, r)
    [] op \in {"and", "xor", "or"} -> IntBitwiseOperator(op, l, r)

CompareOperator(op, l, r) ==
  LET c == CompareBigInt(l, r)
  IN  Bool(CASE op = "eq" -> c = 0
             [] op = "ne" -> c # 0
             [] op = "lt" -> c < 0
             [] op = "le" -> c <= 0
             [] op = "gt" -> c > 0
             [] op = "ge" -> c >= 0)

\* int_smi_pow_nonnegative: squares in machine words until one does not fit
SmiPowNonnegative(base, exponent) ==
  LET RECURSIVE loop(_, _, _)
      loop(result, power, remaining) ==
        LET product == IF remaining % 2 = 1 THEN result * power ELSE result
            rest == remaining \div 2
        IN  IF remaining = 0 THEN Smi(result)
            ELSE IF Overflows(product) \/ (rest # 0 /\ Overflows(power * power))
            THEN BigIntPow(ViewOfInt64(base), ViewOfInt64(exponent))
            ELSE loop(product, IF rest # 0 THEN power * power ELSE power, rest)
  IN  loop(1, base, exponent)

SmiPowOperator(x, y) ==
  IF y = 0 THEN Smi(1)
  ELSE IF y > 0 THEN SmiPowNonnegative(x, y)
  ELSE IF x = 0 THEN Raised("ZeroDivisionError")
  ELSE Float(x < 0 /\ y % 2 = 1)

SmiBitwiseOperator(op, x, y) == Smi(BitwiseSmi(op, x, y))
SmiOperator(op, x, y) == IF op = "pow" THEN SmiPowOperator(x, y) ELSE SmiBitwiseOperator(op, x, y)

CompareOps == {"eq", "ne", "lt", "le", "gt", "ge"}

\* Apply op to the operands in the order the expression has them
ApplyInt(op, a, b) ==
  IF op \in CompareOps THEN CompareOperator(op, IntLikeView(a), IntLikeView(b))
  ELSE IntOperator(op, IntLikeView(a), IntLikeView(b))

\* native_int_bigint_binary_operator: a method called by name, self first
NativeMethod(op, reflected, self, other) ==
  IF ~IsIntLike(self) THEN Raised("TypeError")
  ELSE IF ~IsIntLike(other) THEN NotImplemented
  ELSE IF reflected THEN ApplyInt(op, other, self) ELSE ApplyInt(op, self, other)

\* The resolvers of trusted handlers: a method and the order it is tried in give the
\* operator on the operands as written.  A reflected method tried in reflected order
\* has its operands swapped back.
ResolvedOperands(methodReflected, order, a, b) ==
  IF methodReflected = (order = "reflected") THEN <<a, b>> ELSE <<b, a>>

HasSmiHandler(op) == op \in {"and", "xor", "or", "pow"}

TrustedHandler(op, methodReflected, order, a, b) ==
  LET o == ResolvedOperands(methodReflected, order, a, b)
  IN  IF HasSmiHandler(op) /\ IsSmiOrBool(a) /\ IsSmiOrBool(b)
      THEN SmiOperator(op, SmiOrBoolAsInt(o[1]), SmiOrBoolAsInt(o[2]))
      ELSE ApplyInt(op, o[1], o[2])

\* native_int_ternary_pow and native_int_ternary_rpow
TernaryPow(self, other, modulo, reflected) ==
  IF ~IsIntLike(self) THEN Raised("TypeError")
  ELSE IF ~IsIntLike(other) \/ ~IsIntLike(modulo) THEN NotImplemented
  ELSE LET base == IF reflected THEN other ELSE self
           exponent == IF reflected THEN self ELSE other
       IN  BigIntModularPow(IntLikeView(base), IntLikeView(exponent), IntLikeView(modulo))

-----------------------------------------------------------------------------
(* interpreter.cpp: opcodes.  operand0 is a register, operand1 the         *)
(* accumulator; a "smi" form has its second operand in the bytecode and    *)
(* the first in the accumulator.                                           *)

\* The generic dispatch: the handlers above for the operand order chosen.
DispatchBinary(op, a, b) ==
  IF IsIntLike(a) /\ IsIntLike(b) THEN TrustedHandler(op, FALSE, "normal", a, b)
  ELSE NotImplemented

\* op_add and op_sub store the wrapped result before they look at the overflow;
\* the operand that was in the accumulator is computed back from it.
AddRestored(form, a, b) ==
  IF form = "reg" THEN <<a, Smi(Wrapped(Wrapped(a.int + b.int) - a.int))>>
  ELSE <<Smi(Wrapped(Wrapped(a.int + b.int) - b.int)), b>>

SubRestored(form, a, b) ==
  IF form = "reg" THEN <<a, Smi(Wrapped(Wrapped(a.int - b.int) + a.int))>>
  ELSE <<Smi(Wrapped(Wrapped(a.int - b.int) + b.int)), b>>

OpAdd(form, a, b) ==
  IF ~IsSmi(a) \/ ~IsSmi(b) THEN DispatchBinary("add", a, b)
  ELSE IF Overflows(a.int + b.int)
  THEN LET r == AddRestored(form, a, b) IN DispatchBinary("add", r[1], r[2])
  ELSE Smi(a.int + b.int)

OpSub(form, a, b) ==
  IF ~IsSmi(a) \/ ~IsSmi(b) THEN DispatchBinary("sub", a, b)
  ELSE IF Overflows(a.int - b.int)
  THEN LET r == SubRestored(form, a, b) IN DispatchBinary("sub", r[1], r[2])
  ELSE Smi(a.int - b.int)

OpMul(a, b) ==
  IF ~IsSmi(a) \/ ~IsSmi(b) \/ Overflows(a.int * b.int) THEN DispatchBinary("mul", a, b)
  ELSE Smi(a.int * b.int)

OpFloorDiv(a, b) ==
  IF ~IsSmi(a) \/ ~IsSmi(b) THEN DispatchBinary("floordiv", a, b)
  ELSE IF b.int = 0 THEN Raised("ZeroDivisionError")
  ELSE IF FloorDivSmi(a.int, b.int) = -SmiMin THEN DispatchBinary("floordiv", a, b)
  ELSE Smi(FloorDivSmi(a.int, b.int))

OpMod(a, b) ==
  IF ~IsSmi(a) \/ ~IsSmi(b) THEN DispatchBinary("mod", a, b)
  ELSE IF b.int = 0 THEN Raised("ZeroDivisionError")
  ELSE Smi(ModuloSmi(a.int, b.int))

OpLShift(a, b) ==
  IF ~IsSmi(a) \/ ~IsSmi(b) THEN DispatchBinary("lshift", a, b)
  ELSE IF b.int < 0 THEN Raised("ValueError")
  ELSE IF b.int >= WordBits \/ (a.int # 0 /\ b.int + TagBits > Headroom(a.int))
  THEN DispatchBinary("lshift", a, b)
  ELSE Smi(Wrapped(a.int * 2 ^ b.int))

OpRShift(a, b) ==
  IF ~IsSmi(a) \/ ~IsSmi(b) THEN DispatchBinary("rshift", a, b)
  ELSE IF b.int < 0 THEN Raised("ValueError")
  ELSE IF b.int >= WordBits THEN Smi(IF a.int < 0 THEN -1 ELSE 0)
  ELSE Smi(a.int \div (2 ^ b.int))

OpBitwise(op, a, b) ==
  IF ~IsSmi(a) \/ ~IsSmi(b) THEN DispatchBinary(op, a, b) ELSE Smi(BitwiseSmi(op, a.int, b.int))

OpOrder(op, a, b) ==
  LET x == SmiOrBoolAsInt(a)
      y == SmiOrBoolAsInt(b)
  IN  IF ~IsSmiOrBool(a) \/ ~IsSmiOrBool(b) THEN DispatchBinary(op, a, b)
      ELSE Bool(CASE op = "lt" -> x < y [] op = "le" -> x <= y [] op = "gt" -> x > y [] op = "ge" -> x >= y)

\* op_eq and op_ne compare the words of two values that are no pointers
OpEqual(op, a, b) ==
  IF ~IsSmiOrBool(a) \/ ~IsSmiOrBool(b) THEN DispatchBinary(op, a, b)
  ELSE Bool((SmiOrBoolAsInt(a) = SmiOrBoolAsInt(b)) = (op = "eq"))

BinaryOpcode(op, form, a, b) ==
  CASE op = "add" -> OpAdd(form, a, b)
    [] op = "sub" -> OpSub(form, a, b)
    [] op = "mul" -> OpMul(a, b)
    [] op = "floordiv" -> OpFloorDiv(a, b)
    [] op = "mod" -> OpMod(a, b)
    [] op = "lshift" -> OpLShift(a, b)
    [] op = "rshift" -> OpRShift(a, b)
    [] op \in {"and", "xor", "or"} -> OpBitwise(op, a, b)
    [] op = "pow" -> DispatchBinary(op, a, b)
    [] op \in {"lt", "le", "gt", "ge"} -> OpOrder(op, a, b)
    [] op \in {"eq", "ne"} -> OpEqual(op, a, b)

\* Unary opcodes and the handlers behind them
NativeNeg(a) ==
  IF IsSmiOrBool(a)
  THEN IF SmiOrBoolAsInt(a) = SmiMin THEN BigIntNegate(ViewOfInt64(SmiMin)) ELSE Smi(-SmiOrBoolAsInt(a))
  ELSE IF a.kind = "big" THEN BigIntNegate(a.view) ELSE Raised("TypeError")

NativePos(a) ==
  IF a.kind \in {"smi", "big"} THEN a
  ELSE IF a.kind = "bool" THEN Smi(SmiOrBoolAsInt(a)) ELSE Raised("TypeError")

NativeInvert(a) ==
  IF IsSmiOrBool(a) THEN Smi(-SmiOrBoolAsInt(a) - 1)
  ELSE IF a.kind = "big" THEN BigIntInvert(a.view) ELSE Raised("TypeError")

OpNegate(a) ==
  IF ~IsSmi(a) THEN NativeNeg(a)
  ELSE IF Overflows(-a.int) THEN NativeNeg(Smi(Wrapped(-Wrapped(-a.int))))
  ELSE Smi(-a.int)

UnaryOpcode(op, a) ==
  CASE op = "neg" -> OpNegate(a)
    [] op = "pos" -> NativePos(a)
    [] op = "invert" -> NativeInvert(a)

\* canonicalize_hash_result
IntHash(a) ==
  CASE a.kind = "bool" -> SmiOrBoolAsInt(a)
    [] a.kind = "smi" -> IF a.int = -1 THEN -2 ELSE a.int
    [] a.kind = "big" -> BigIntHash(a.view)

\* native_int_str
IntStr(a) ==
  IF a.kind = "smi"
  THEN (IF a.int < 0 THEN <<MinusSign>> ELSE <<>>) \o Numerals(IF a.int < 0 THEN -a.int ELSE a.int)
  ELSE BigIntToDecimal(a.view)

-----------------------------------------------------------------------------
(* int() of a text                                                         *)

PlusSign == -2
Underscore == -3
Space == -4
Letter == -5
IsNumeral(c) == c \in 0 .. DecimalRadix - 1

Trimmed(text) ==
  LET solid == {i \in DOMAIN text : text[i] # Space}
  IN  IF solid = {} THEN <<>>
      ELSE SubSeq(text, CHOOSE i \in solid : \A j \in solid : i <= j,
                        CHOOSE i \in solid : \A j \in solid : j <= i)

HasSign(text) == text # <<>> /\ Head(text) \in {PlusSign, MinusSign}
WithoutSign(text) == IF HasSign(text) THEN Tail(text) ELSE text
IsNegative(text) == text # <<>> /\ Head(text) = MinusSign

\* parse_int_string_fast: a machine word, "slow" when it cannot tell
ParseFast(text) ==
  LET digits == WithoutSign(text)
      limit == IF IsNegative(text) THEN SmiMax + 1 ELSE SmiMax
      RECURSIVE loop(_, _)
      loop(i, parsed) ==
        IF i > Len(digits) THEN Smi(IF IsNegative(text) THEN -parsed ELSE parsed)
        ELSE IF digits[i] = Underscore THEN [kind |-> "slow"]
        ELSE IF ~IsNumeral(digits[i]) THEN Raised("ValueError")
        ELSE IF parsed > (limit - digits[i]) \div DecimalRadix THEN [kind |-> "slow"]
        ELSE loop(i + 1, parsed * DecimalRadix + digits[i])
  IN  IF digits = <<>> THEN Raised("ValueError") ELSE loop(1, 0)

\* parse_int_string_slow: any number of digits, single underscores between them
ParseSlow(text) ==
  LET digits == WithoutSign(text)
      RECURSIVE loop(_, _)
      loop(i, current) ==
        IF i > Len(digits)
        THEN LET v == NormalizeView(current)
             IN  IF Last(digits) = Underscore THEN Raised("ValueError")
                 ELSE FinalizeBigInt(IF v.signum # 0 /\ IsNegative(text) THEN View(-1, v.digits) ELSE v)
        ELSE IF digits[i] = Underscore
        THEN IF i = 1 \/ digits[i - 1] = Underscore THEN Raised("ValueError") ELSE loop(i + 1, current)
        ELSE IF ~IsNumeral(digits[i]) THEN Raised("ValueError")
        ELSE loop(i + 1, AbsMulAdd(current, DecimalRadix, digits[i]))
  IN  IF digits = <<>> THEN Raised("ValueError") ELSE loop(1, Zero)

ParseInt(text) ==
  LET fast == ParseFast(Trimmed(text))
  IN  IF ~IsRaised(fast) /\ fast.kind = "slow" THEN ParseSlow(Trimmed(text)) ELSE fast

\* native_int_new
IntNew(a) ==
  CASE IsSmiOrBool(a) -> Smi(SmiOrBoolAsInt(a))
    [] a.kind = "big" -> a
    [] a.kind = "str" -> ParseInt(a.text)
    [] OTHER -> Raised("TypeError")
=============================================================================
