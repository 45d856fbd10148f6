------------------------------- MODULE BigInt -------------------------------
(***************************************************************************)
(* The arithmetic of heap integers (builtin_types/bigint.cpp): a sign and  *)
(* a sequence of digits, least significant first, on which the kernels     *)
(* work digit by digit with a carry.  The widths are parameters: a digit   *)
(* has DigitBits bits (32 in the code), a machine word two digits, and     *)
(* TagBits of a word are the tag of a small integer (5 in the code).       *)
(***************************************************************************)
EXTENDS Integers, Sequences, SequencesExt, Bitwise

CONSTANTS
  DigitBits,     \* kDigitBits
  TagBits,       \* value_tag_bits
  DecimalRadix,  \* 10
  ChunkDigits,   \* kDecimalBaseDigits: DecimalRadix ^ ChunkDigits fits a digit
  Precision,     \* DBL_MANT_DIG
  MaxExponent    \* DBL_MAX_EXP

ASSUME WidthAssumption ==
  /\ {DigitBits, TagBits, DecimalRadix, ChunkDigits, Precision, MaxExponent} \subseteq Nat \ {0}
  /\ DecimalRadix ^ ChunkDigits <= 2 ^ DigitBits
  /\ DigitBits < 2 * DigitBits - TagBits - 1

Digits == 2 ^ DigitBits                    \* kDigitBase
WordBits == 2 * DigitBits
SmiBits == WordBits - TagBits
SmiMin == -(2 ^ (SmiBits - 1))
SmiMax == 2 ^ (SmiBits - 1) - 1
HashModulusBits == SmiBits - 1
Int64Max == 2 ^ (WordBits - 1) - 1

View(signum, digits) == [signum |-> signum, digits |-> digits]
Zero == View(0, <<>>)
One == View(1, <<1>>)
NDigits(v) == Len(v.digits)
DigitAt(v, i) == IF i <= NDigits(v) THEN v.digits[i] ELSE 0
Zeros(n) == [i \in 1 .. n |-> 0]
Larger(m, n) == IF m < n THEN n ELSE m
Raised(e) == [raised |-> e]

-----------------------------------------------------------------------------
(* Representation                                                          *)

IsNormalized(v) ==
  IF v.digits = <<>> THEN v.signum = 0
  ELSE v.signum \in {-1, 1} /\ Last(v.digits) # 0

NormalizeView(v) ==
  LET n == CHOOSE n \in 0 .. NDigits(v) :
             /\ n # 0 => v.digits[n] # 0
             /\ \A i \in n + 1 .. NDigits(v) : v.digits[i] = 0
  IN  View(IF n = 0 THEN 0 ELSE v.signum, SubSeq(v.digits, 1, n))

\* smi_bigint_view and bigint_from_int64: a machine integer as at most two digits
ViewOfInt64(x) ==
  LET magnitude == IF x < 0 THEN -(x + 1) + 1 ELSE x
      d1 == magnitude % Digits
      d2 == magnitude \div Digits
  IN  View(IF x < 0 THEN -1 ELSE IF x > 0 THEN 1 ELSE 0,
           IF d2 # 0 THEN <<d1, d2>> ELSE IF d1 # 0 THEN <<d1>> ELSE <<>>)

TwoDigitMagnitude(v) == DigitAt(v, 1) + DigitAt(v, 2) * Digits

FitsSmi(v) ==
  \/ v.signum = 0
  \/ /\ NDigits(v) <= 2
     /\ TwoDigitMagnitude(v) <= IF v.signum > 0 THEN SmiMax ELSE -(SmiMin + 1) + 1

\* A value is an immediate integer whenever it fits, else a heap object.
Smi(x) == [kind |-> "smi", int |-> x]
FinalizeBigInt(v) ==
  IF FitsSmi(v) THEN Smi(v.signum * TwoDigitMagnitude(v)) ELSE [kind |-> "big", view |-> v]

BigIntToInt64(v) ==
  IF /\ v.signum # 0
     /\ \/ NDigits(v) > 2
        \/ TwoDigitMagnitude(v) > IF v.signum > 0 THEN Int64Max ELSE Int64Max + 1
  THEN Raised("OverflowError")
  ELSE [int64 |-> v.signum * TwoDigitMagnitude(v)]

-----------------------------------------------------------------------------
(* Magnitudes                                                              *)

CompareAbs(l, r) ==
  IF NDigits(l) # NDigits(r) THEN IF NDigits(l) < NDigits(r) THEN -1 ELSE 1
  ELSE LET differ == {i \in 1 .. NDigits(l) : l.digits[i] # r.digits[i]}
       IN  IF differ = {} THEN 0
           ELSE LET top == CHOOSE i \in differ : \A j \in differ : j <= i
                IN  IF l.digits[top] < r.digits[top] THEN -1 ELSE 1

CompareBigInt(l, r) ==
  IF l.signum # r.signum THEN IF l.signum < r.signum THEN -1 ELSE 1
  ELSE IF l.signum = 0 THEN 0
  ELSE l.signum * CompareAbs(l, r)

\* The digits and the carry out of n additions with carry: sum(i) without the carry
WithCarry(n, sum(_), carryIn) ==
  LET carry[i \in 0 .. n] ==
        IF i = 0 THEN carryIn ELSE (sum(i) + carry[i - 1]) \div Digits
  IN  [digits |-> [i \in 1 .. n |-> (sum(i) + carry[i - 1]) % Digits], carry |-> carry[n]]

Carried(n, sum(_), carryIn) ==
  LET s == WithCarry(n, sum, carryIn)
      digits == IF s.carry # 0 THEN Append(s.digits, s.carry) ELSE s.digits
  IN  View(IF digits = <<>> THEN 0 ELSE 1, digits)

AbsAdd(l, r) ==
  LET sum(i) == DigitAt(l, i) + DigitAt(r, i)
  IN  Carried(Larger(NDigits(l), NDigits(r)), sum, 0)

\* bigint_abs_sub_into and bigint_abs_sub_alias_left: left is not the smaller
AbsSub(l, r) ==
  LET borrow[i \in 0 .. NDigits(l)] ==
        IF i = 0 THEN 0 ELSE IF l.digits[i] < DigitAt(r, i) + borrow[i - 1] THEN 1 ELSE 0
      digit(i) == (Digits + l.digits[i] - (DigitAt(r, i) + borrow[i - 1])) % Digits
  IN  NormalizeView(View(IF NDigits(l) = 0 THEN 0 ELSE 1, [i \in 1 .. NDigits(l) |-> digit(i)]))

AbsMulDigit(l, d) ==
  LET product(i) == l.digits[i] * d
  IN  IF l.signum = 0 \/ d = 0 THEN Zero ELSE Carried(NDigits(l), product, 0)

\* bigint_abs_mul_add_u32
AbsMulAdd(v, multiplier, addend) ==
  LET product(i) == v.digits[i] * multiplier
  IN  Carried(NDigits(v), product, addend)

AbsView(v) == View(IF v.digits = <<>> THEN 0 ELSE 1, v.digits)

\* divmod_abs_by_u32
DivModByDigit(v, divisor) ==
  LET n == NDigits(v)
      rest[i \in 1 .. n + 1] ==
        IF i = n + 1 THEN 0 ELSE (rest[i + 1] * Digits + v.digits[i]) % divisor
      quotient == [i \in 1 .. n |-> (rest[i + 1] * Digits + v.digits[i]) \div divisor]
  IN  [quotient |-> NormalizeView(View(IF n = 0 THEN 0 ELSE 1, quotient)), rest |-> rest[1]]

ShiftLeft(v, amount) ==
  LET shift == amount % DigitBits
      shifted(i) == v.digits[i] * 2 ^ shift
      moved == IF shift = 0 THEN v.digits ELSE Carried(NDigits(v), shifted, 0).digits
  IN  IF v.signum = 0 THEN Zero
      ELSE View(v.signum, Zeros(amount \div DigitBits) \o moved)

ShiftRightAbs(v, amount) ==
  LET whole == amount \div DigitBits
      shift == amount % DigitBits
      digit(i) == (DigitAt(v, i + whole) \div (2 ^ shift)) +
                  ((DigitAt(v, i + whole + 1) * 2 ^ (DigitBits - shift)) % Digits)
  IN  IF v.signum = 0 \/ whole >= NDigits(v) THEN Zero
      ELSE NormalizeView(View(1, [i \in 1 .. NDigits(v) - whole |-> digit(i)]))

LosesNonzeroBits(v, amount) ==
  LET whole == amount \div DigitBits
  IN  /\ v.signum # 0 /\ amount # 0
      /\ \/ whole >= NDigits(v)
         \/ \E i \in 1 .. whole : v.digits[i] # 0
         \/ v.digits[whole + 1] % (2 ^ (amount % DigitBits)) # 0

BitsIn(d) == CHOOSE n \in 0 .. DigitBits : d < 2 ^ n /\ (n = 0 \/ d >= 2 ^ (n - 1))

-----------------------------------------------------------------------------
(* Division: one quotient digit at a time, estimated from the leading      *)
(* digits and corrected downwards.                                         *)

RECURSIVE EstimateQuotient(_, _, _, _, _)
EstimateQuotient(q, r, high, next, following) ==
  IF q = Digits \/ q * next > Digits * r + following
  THEN IF r + high >= Digits THEN q - 1
       ELSE EstimateQuotient(q - 1, r + high, high, next, following)
  ELSE q

\* Mutant: the estimate is taken without comparing the product.
LowerQuotientNever(q, segment, divisor) == q

RECURSIVE LowerQuotient(_, _, _)
LowerQuotient(q, segment, divisor) ==
  IF CompareAbs(segment, AbsMulDigit(divisor, q % Digits)) < 0
  THEN LowerQuotient(q - 1, segment, divisor) ELSE q

\* One round of the loop of bigint_abs_divmod_normalized_into: u are the
\* digits of the dividend still to divide, j the position of the quotient digit
DivisionStep(u, divisor, j) ==
  LET n == NDigits(divisor)
      high == divisor.digits[n]
      next == IF n >= 2 THEN divisor.digits[n - 1] ELSE 0
      pair == u[j + n + 1] * Digits + u[j + n]
      following == IF j + n >= 2 THEN u[j + n - 1] ELSE 0
      segment == NormalizeView(View(1, SubSeq(u, j + 1, j + n + 1)))
      estimate == EstimateQuotient(pair \div high, pair % high, high, next, following)
      q == LowerQuotient(estimate, segment, divisor)
      left == AbsSub(segment, AbsMulDigit(divisor, q % Digits))
      \* the difference is written back in place, its leading zeros included
  IN  [q |-> q % Digits,
       u |-> SubSeq(u, 1, j) \o left.digits \o Zeros(n + 1 - NDigits(left)) \o
             SubSeq(u, j + n + 2, Len(u))]

DivModNormalized(dividend, divisor) ==
  LET n == NDigits(divisor)
      m == Len(dividend) - n - 1
      step[j \in 0 .. m] ==
        DivisionStep(IF j = m THEN dividend ELSE step[j + 1].u, divisor, j)
  IN  [quotient  |-> NormalizeView(View(1, [i \in 1 .. m + 1 |-> step[i - 1].q])),
       remainder |-> NormalizeView(View(1, step[0].u))]

AbsDivMod(dividend, divisor) ==
  IF dividend.signum = 0 \/ CompareAbs(dividend, divisor) < 0
  THEN [quotient |-> Zero, remainder |-> dividend]
  ELSE IF NDigits(divisor) = 1
  THEN LET d == DivModByDigit(dividend, divisor.digits[1])
       IN  [quotient |-> d.quotient, remainder |-> IF d.rest = 0 THEN Zero ELSE View(1, <<d.rest>>)]
  ELSE LET shift == DigitBits - BitsIn(Last(divisor.digits))
           shifted == ShiftLeft(dividend, shift).digits
           padded == IF Len(shifted) = NDigits(dividend) THEN Append(shifted, 0) ELSE shifted
           result == DivModNormalized(padded, ShiftLeft(divisor, shift))
       IN  [quotient |-> result.quotient, remainder |-> ShiftRightAbs(result.remainder, shift)]

\* bigint_floor_divmod_views: the signs and the adjustment towards minus infinity
FloorDivMod(l, r) ==
  LET abs == AbsDivMod(AbsView(l), AbsView(r))
      sign == l.signum * r.signum
      q == IF abs.remainder.signum # 0 /\ sign < 0 THEN AbsAdd(abs.quotient, One) ELSE abs.quotient
      rem == IF abs.remainder.signum # 0 /\ l.signum # r.signum
             THEN AbsSub(AbsView(r), abs.remainder) ELSE abs.remainder
  IN  [quotient  |-> IF q.digits # <<>> THEN View(sign, q.digits) ELSE q,
       remainder |-> IF rem.digits # <<>> THEN View(r.signum, rem.digits) ELSE rem]

-----------------------------------------------------------------------------
(* Signed operations                                                       *)

Negated(v) == View(-v.signum, v.digits)

AddViews(l, r) ==
  CASE l.signum = 0 -> r
    [] l.signum # 0 /\ r.signum = 0 -> l
    [] l.signum # 0 /\ l.signum = r.signum -> View(l.signum, AbsAdd(l, r).digits)
    [] OTHER -> LET c == CompareAbs(l, r)
                IN  IF c = 0 THEN Zero
                    ELSE IF c > 0 THEN View(l.signum, AbsSub(l, r).digits)
                    ELSE View(r.signum, AbsSub(r, l).digits)

SubViews(l, r) == AddViews(l, Negated(r))

\* One row of the schoolbook product: dest + left digit i times right, shifted
MulRow(dest, l, r, i) ==
  LET product(j) == l.digits[i] * r.digits[j] + dest[i + j - 1]
      row == WithCarry(NDigits(r), product, 0)
  IN  [k \in DOMAIN dest |->
         IF k \in i .. i + NDigits(r) - 1 THEN row.digits[k - i + 1]
         ELSE IF k = i + NDigits(r) THEN row.carry ELSE dest[k]]

MulViews(l, r) ==
  LET rows[i \in 0 .. NDigits(l)] ==
        IF i = 0 THEN Zeros(NDigits(l) + NDigits(r)) ELSE MulRow(rows[i - 1], l, r, i)
  IN  IF l.signum = 0 \/ r.signum = 0 THEN Zero
      ELSE NormalizeView(View(l.signum * r.signum, rows[NDigits(l)]))

BigIntAdd(l, r) == FinalizeBigInt(AddViews(l, r))
BigIntSub(l, r) == FinalizeBigInt(SubViews(l, r))
BigIntMul(l, r) == FinalizeBigInt(MulViews(l, r))
BigIntNegate(v) == FinalizeBigInt(Negated(v))

BigIntFloorDiv(l, r) ==
  IF r.signum = 0 THEN Raised("ZeroDivisionError") ELSE FinalizeBigInt(FloorDivMod(l, r).quotient)

BigIntMod(l, r) ==
  IF r.signum = 0 THEN Raised("ZeroDivisionError") ELSE FinalizeBigInt(FloorDivMod(l, r).remainder)

BigIntLShift(v, amount) ==
  FinalizeBigInt(IF v.signum = 0 \/ amount = 0 THEN v ELSE ShiftLeft(v, amount))

BigIntRShift(v, amount) ==
  LET shifted == ShiftRightAbs(AbsView(v), amount)
  IN  FinalizeBigInt(
        IF v.signum = 0 \/ amount = 0 THEN v
        ELSE IF v.signum > 0 THEN shifted
        ELSE IF LosesNonzeroBits(AbsView(v), amount) THEN View(-1, AbsAdd(shifted, One).digits)
        ELSE IF shifted.digits # <<>> THEN View(-1, shifted.digits) ELSE shifted)

BigIntInvert(v) ==
  LET sum == AddViews(v, One)
  IN  FinalizeBigInt(IF sum.digits # <<>> THEN Negated(sum) ELSE sum)

-----------------------------------------------------------------------------
(* Bitwise operations on two's complements                                 *)

Complement(digits) ==
  LET inverted(i) == Digits - 1 - digits[i]
  IN  WithCarry(Len(digits), inverted, 1).digits

ResultNegative(op, l, r) ==
  CASE op = "and" -> l /\ r
    [] op = "xor" -> l # r
    [] op = "or" -> l \/ r

ApplyDigits(op, l, r) ==
  CASE op = "and" -> l & r
    [] op = "xor" -> l ^^ r
    [] op = "or" -> l | r

\* The digits the shorter operand does not have are its sign.
TailDigit(op, d, negative) ==
  CASE op = "and" -> IF negative THEN d ELSE 0
    [] op = "xor" -> IF negative THEN Digits - 1 - d ELSE d
    [] op = "or" -> IF negative THEN Digits - 1 ELSE d

BigIntBitwise(op, l, r) ==
  LET a == IF NDigits(l) < NDigits(r) THEN r ELSE l
      b == IF NDigits(l) < NDigits(r) THEN l ELSE r
      x == IF a.signum < 0 THEN Complement(a.digits) ELSE a.digits
      y == IF b.signum < 0 THEN Complement(b.digits) ELSE b.digits
      negative == ResultNegative(op, a.signum < 0, b.signum < 0)
      result == [i \in 1 .. Len(x) |->
                   IF i <= Len(y) THEN ApplyDigits(op, x[i], y[i])
                   ELSE TailDigit(op, x[i], b.signum < 0)]
  IN  IF Len(x) = 0 THEN FinalizeBigInt(Zero)
      ELSE IF negative
      THEN FinalizeBigInt(NormalizeView(View(-1, Complement(Append(result, Digits - 1)))))
      ELSE FinalizeBigInt(NormalizeView(View(1, result)))

-----------------------------------------------------------------------------
(* Powers                                                                  *)

BitLength(v) == IF v.digits = <<>> THEN 0 ELSE (NDigits(v) - 1) * DigitBits + BitsIn(Last(v.digits))
AbsBit(v, i) == (DigitAt(v, (i \div DigitBits) + 1) \div (2 ^ (i % DigitBits))) % 2
IsOdd(v) == NDigits(v) > 0 /\ v.digits[1] % 2 = 1
IsOne(v) == v = One

\* Square and multiply along the bits of the exponent
BigIntPow(base, exponent) ==
  LET bits == BitLength(exponent)
      power[i \in 0 .. bits] == IF i = 0 THEN base ELSE MulViews(power[i - 1], power[i - 1])
      result[i \in 0 .. bits] ==
        IF i = 0 THEN One
        ELSE IF AbsBit(exponent, i - 1) = 1 THEN MulViews(result[i - 1], power[i - 1])
        ELSE result[i - 1]
  IN  FinalizeBigInt(result[bits])

FloorMod(l, r) == FloorDivMod(l, r).remainder

\* The extended Euclidean algorithm of bigint_modular_inverse_into
RECURSIVE Euclid(_, _, _, _, _)
Euclid(oldR, r, oldT, t, modulo) ==
  IF r.signum = 0 THEN [gcd |-> oldR, inverse |-> oldT]
  ELSE LET d == AbsDivMod(oldR, r)
       IN  Euclid(r, d.remainder, t, FloorMod(SubViews(oldT, MulViews(d.quotient, t)), modulo), modulo)

ModularInverse(base, modulo) ==
  LET abs == AbsView(modulo)
      e == Euclid(abs, FloorMod(base, abs), Zero, One, abs)
  IN  IF IsOne(e.gcd) THEN FloorMod(e.inverse, modulo) ELSE Zero

BigIntModularPow(base, exponent, modulo) ==
  LET bits == BitLength(exponent)
      start == IF exponent.signum < 0 THEN ModularInverse(base, modulo) ELSE FloorMod(base, modulo)
      power[i \in 0 .. bits] ==
        IF i = 0 THEN start ELSE FloorMod(MulViews(power[i - 1], power[i - 1]), modulo)
      result[i \in 0 .. bits] ==
        IF i = 0 THEN FloorMod(One, modulo)
        ELSE IF AbsBit(exponent, i - 1) = 1
        THEN FloorMod(MulViews(result[i - 1], power[i - 1]), modulo) ELSE result[i - 1]
  IN  IF modulo.signum = 0 THEN Raised("ValueError")
      ELSE IF IsOne(AbsView(modulo)) THEN FinalizeBigInt(Zero)
      ELSE IF exponent.signum < 0 /\ start.signum = 0 THEN Raised("ValueError")
      ELSE FinalizeBigInt(result[bits])

-----------------------------------------------------------------------------
(* Conversions                                                             *)

\* Appending a digit folds the bits beyond the modulus 2^n - 1 back in.
HashModulus(v) ==
  LET modulus == 2 ^ HashModulusBits - 1
      split == 2 ^ (HashModulusBits - DigitBits)
      fold(mod, d) ==
        LET sum == (mod % split) * Digits + (mod \div split) + d
        IN  IF sum >= modulus THEN sum - modulus ELSE sum
  IN  FoldRight(LAMBDA d, mod : fold(mod, d), v.digits, 0)

\* bigint_hash, then remap_hash_sentinel of canonicalize_hash_result
BigIntHash(v) ==
  LET hash == IF FitsSmi(v) THEN v.signum * TwoDigitMagnitude(v)
              ELSE IF v.signum < 0 THEN -HashModulus(v) ELSE HashModulus(v)
  IN  IF hash = -1 THEN -2 ELSE hash

TopBits(v, bits, n) ==
  LET top[i \in 0 .. n] == IF i = 0 THEN 0 ELSE 2 * top[i - 1] + AbsBit(v, bits - i)
  IN  top[n]

AnyBitsBelow(v, n) ==
  LET full == n \div DigitBits
  IN  \/ \E i \in 1 .. full : i <= NDigits(v) /\ v.digits[i] # 0
      \/ DigitAt(v, full + 1) % (2 ^ (n % DigitBits)) # 0

\* The double nearest to v, ties to even, as its exact value
BigIntToDouble(v) ==
  LET bits == BitLength(v)
      lost == bits - Precision
      top == TopBits(v, bits, Precision)
      guard == AbsBit(v, lost - 1) = 1
      sticky == lost > 1 /\ AnyBitsBelow(v, lost - 1)
      up == IF guard /\ (sticky \/ top % 2 = 1) THEN top + 1 ELSE top
      carried == up = 2 ^ Precision
      mantissa == IF carried THEN up \div 2 ELSE up
      length == IF carried THEN bits + 1 ELSE bits
  IN  IF v.signum = 0 THEN [double |-> 0]
      ELSE IF bits <= Precision THEN [double |-> v.signum * TopBits(v, bits, bits)]
      ELSE IF length > MaxExponent THEN Raised("OverflowError")
      ELSE [double |-> v.signum * mantissa * 2 ^ (length - Precision)]

\* Characters are numbers: a numeral is its value, a minus sign is
MinusSign == -1

RECURSIVE Numerals(_)
Numerals(x) == IF x < DecimalRadix THEN <<x>> ELSE Append(Numerals(x \div DecimalRadix), x % DecimalRadix)
Padded(x) == LET s == Numerals(x) IN Zeros(ChunkDigits - Len(s)) \o s

RECURSIVE Chunks(_)
Chunks(v) ==
  IF v.digits = <<>> THEN <<>>
  ELSE LET d == DivModByDigit(v, DecimalRadix ^ ChunkDigits) IN <<d.rest>> \o Chunks(d.quotient)

BigIntToDecimal(v) ==
  LET chunks == Chunks(AbsView(v))
      rest == FlattenSeq([i \in 1 .. Len(chunks) - 1 |-> Padded(chunks[Len(chunks) - i])])
  IN  IF v.signum = 0 THEN <<0>>
      ELSE (IF v.signum < 0 THEN <<MinusSign>> ELSE <<>>) \o Numerals(Last(chunks)) \o rest
=============================================================================
