----------------------------- MODULE PythonInts -----------------------------
(***************************************************************************)
(* Reference: Python's integer operations on mathematical integers.        *)
(* Precision and MaxExponent describe the floats that negative exponents   *)
(* are converted to; Radix is the base of numerals.                        *)
(***************************************************************************)
EXTENDS Integers, Sequences, Bitwise

CONSTANTS Width, Mantissa, Exponent, Radix

Fails(e) == [raised |-> e]
Num(x) == [int |-> x]
IsNum(r) == "int" \in DOMAIN r
AbsInt(x) == IF x < 0 THEN -x ELSE x

\* Python's division rounds towards minus infinity, the remainder has the
\* sign of the divisor.
FloorQuotient(x, y) == IF y > 0 THEN x \div y ELSE (-x) \div (-y)
FloorRemainder(x, y) == x - y * FloorQuotient(x, y)

\* Bits of the infinite two's complement; all operands have fewer than Width
TwosComplement(f(_, _), x, y) ==
  LET u == f(x % 2 ^ Width, y % 2 ^ Width)
  IN  Num(IF u >= 2 ^ (Width - 1) THEN u - 2 ^ Width ELSE u)
AndBits(u, v) == u & v
XorBits(u, v) == u ^^ v
OrBits(u, v) == u | v

Distance(x, f) == AbsInt(x - f)
\* The float nearest to x, ties to even
Nearest(x) ==
  LET a == AbsInt(x)
      e == CHOOSE e \in 0 .. Width : a < 2 ^ (Mantissa + e) /\ (e = 0 \/ a >= 2 ^ (Mantissa + e - 1))
      lower == (a \div (2 ^ e)) * 2 ^ e
      upper == lower + 2 ^ e
      nearest == IF a - lower < upper - a THEN lower
                 ELSE IF upper - a < a - lower THEN upper
                 ELSE IF (lower \div (2 ^ e)) % 2 = 0 THEN lower ELSE upper
  IN  IF nearest >= 2 ^ Exponent THEN Fails("OverflowError")
      ELSE Num(IF x < 0 THEN -nearest ELSE nearest)

NegativePower(x, y) ==
  IF ~IsNum(Nearest(y)) \/ ~IsNum(Nearest(x)) THEN Fails("OverflowError")
  ELSE IF x = 0 THEN Fails("ZeroDivisionError")
  ELSE [float |-> IF x < 0 /\ y % 2 = 1 THEN "negative" ELSE "positive"]

Exact(op, x, y) ==
  CASE op = "add" -> Num(x + y)
    [] op = "sub" -> Num(x - y)
    [] op = "mul" -> Num(x * y)
    [] op = "floordiv" -> IF y = 0 THEN Fails("ZeroDivisionError") ELSE Num(FloorQuotient(x, y))
    [] op = "mod" -> IF y = 0 THEN Fails("ZeroDivisionError") ELSE Num(FloorRemainder(x, y))
    [] op = "pow" -> IF y = 0 THEN Num(1) ELSE IF y > 0 THEN Num(x ^ y) ELSE NegativePower(x, y)
    [] op = "lshift" -> IF y < 0 THEN Fails("ValueError") ELSE Num(x * 2 ^ y)
    [] op = "rshift" -> IF y < 0 THEN Fails("ValueError")
                        ELSE Num(IF y > Width THEN (IF x < 0 THEN -1 ELSE 0) ELSE x \div (2 ^ y))
    [] op = "and" -> TwosComplement(AndBits, x, y)
    [] op = "xor" -> TwosComplement(XorBits, x, y)
    [] op = "or" -> TwosComplement(OrBits, x, y)
    [] op = "neg" -> Num(-x)
    [] op = "pos" -> Num(x)
    [] op = "invert" -> Num(-x - 1)

Related(op, x, y) ==
  CASE op = "eq" -> x = y [] op = "ne" -> x # y
    [] op = "lt" -> x < y [] op = "le" -> x <= y
    [] op = "gt" -> x > y [] op = "ge" -> x >= y

\* pow(x, y, m): for a negative exponent a power of the inverse of x, if there is one
ModularPower(x, y, m) ==
  LET inverses == {i \in 0 .. AbsInt(m) - 1 : (i * x) % AbsInt(m) = 1}
      base == IF y < 0 THEN CHOOSE i \in inverses : TRUE ELSE x % AbsInt(m)
      power[k \in 0 .. AbsInt(y)] == IF k = 0 THEN 1 ELSE (power[k - 1] * base) % AbsInt(m)
  IN  IF m = 0 THEN Fails("ValueError")
      ELSE IF AbsInt(m) = 1 THEN Num(0)
      ELSE IF y < 0 /\ inverses = {} THEN Fails("ValueError")
      ELSE Num(FloorRemainder(power[AbsInt(y)], m))

\* The grammar of int(): blanks around, a sign, numerals with single underscores between
RECURSIVE NumeralsOf(_)
NumeralsOf(x) == IF x < Radix THEN <<x>> ELSE NumeralsOf(x \div Radix) \o <<x % Radix>>

ValueOf(numerals) ==
  LET v[i \in 0 .. Len(numerals)] == IF i = 0 THEN 0 ELSE v[i - 1] * Radix + numerals[i]
  IN  v[Len(numerals)]
=============================================================================
