---------------------------- MODULE StringMethods ----------------------------
(***************************************************************************)
(* The methods of str (builtin_types/str.cpp) and, in the second half, of  *)
(* bytes (builtin_types/bytes.cpp).  A text is a sequence of               *)
(* characters, numbers whose order is that of the code points; positions   *)
(* count from 0.  The character classes and wstring_view's searches belong *)
(* to the C++ library.                                                     *)
(***************************************************************************)
EXTENDS SequenceAccess

CONSTANT ByteMax   \* 255

\* A few characters: a blank, a line break, a digit, a quote, a backslash, two
\* cased letters, a letter without case outside ASCII
Blank == 1
LineBreak == 2
Numeral == 3
Quote == 4
Upper == 5
Backslash == 6
Lower == 7
Foreign == 8
IsWSpace(c) == c \in {Blank, LineBreak}
IsWLower(c) == c = Lower
IsWUpper(c) == c = Upper
IsWAlpha(c) == c \in {Upper, Lower, Foreign}
IsWDigit(c) == c = Numeral
IsWAlnum(c) == IsWAlpha(c) \/ IsWDigit(c)
IsWPrint(c) == c # LineBreak
ToWUpper(c) == IF c = Lower THEN Upper ELSE c
ToWLower(c) == IF c = Upper THEN Lower ELSE c
LastAscii == Lower

SubStr(s, pos, n) == SubSeq(s, pos + 1, pos + n)
From(s, pos) == SubSeq(s, pos + 1, Len(s))
OccursAt(s, t, i) == i + Len(t) <= Len(s) /\ SubStr(s, i, Len(t)) = t
npos == -1
ViewFind(s, t, pos) ==
  LET at == {i \in pos .. Len(s) : OccursAt(s, t, i)}
  IN  IF at = {} THEN npos ELSE CHOOSE i \in at : \A j \in at : i <= j
ViewRFind(s, t, pos) ==
  LET at == {i \in 0 .. pos : OccursAt(s, t, i)}
  IN  IF at = {} THEN npos ELSE CHOOSE i \in at : \A j \in at : i >= j

-----------------------------------------------------------------------------
\* Search bounds: both clipped to the text, the end not before the start
NormalizeStringBound(value, length) ==
  LET i == IF value < 0 THEN value + length ELSE value
  IN  IF i < 0 THEN 0 ELSE IF i > length THEN length ELSE i
NormalizeStringRange(length, start, end) ==
  LET s == IF start = None THEN [smi |-> 0] ELSE IntlikeToSmi(start)
      e == IF end = None THEN [smi |-> length] ELSE IntlikeToSmi(end)
      from == NormalizeStringBound(s.smi, length)
      to == NormalizeStringBound(e.smi, length)
  IN  IF IsRaised(s) THEN s ELSE IF IsRaised(e) THEN e
      ELSE [start |-> from, end |-> IF to < from THEN from ELSE to]

StartsWith(s, t, r) == OccursAt(SubStr(s, r.start, r.end - r.start), t, 0)
EndsWith(s, t, r) ==
  LET range == SubStr(s, r.start, r.end - r.start)
  IN  Len(range) >= Len(t) /\ From(range, Len(range) - Len(t)) = t
StrFind(s, t, r) ==
  LET found == ViewFind(SubStr(s, r.start, r.end - r.start), t, 0)
  IN  IF found = npos THEN -1 ELSE r.start + found
StrRFind(s, t, r) ==
  LET range == SubStr(s, r.start, r.end - r.start)
      found == ViewRFind(range, t, Len(range))
  IN  IF found = npos THEN -1 ELSE r.start + found

RECURSIVE CountFrom(_, _, _)
CountFrom(range, t, pos) ==
  LET found == ViewFind(range, t, pos)
  IN  IF pos > Len(range) \/ found = npos THEN 0 ELSE 1 + CountFrom(range, t, found + Len(t))
CountSubstring(s, t, r) ==
  LET range == SubStr(s, r.start, r.end - r.start)
  IN  IF t = <<>> THEN Len(range) + 1 ELSE CountFrom(range, t, 0)

SearchMethods == {"startswith", "endswith", "find", "rfind", "index", "rindex", "count"}

\* The methods that take a substring and two optional bounds
StrSearch(method, self, needle, start, end) ==
  LET r == NormalizeStringRange(Len(self.items), start, end)
      s == self.items
      t == needle.items
      found == IF method \in {"find", "index"} THEN StrFind(s, t, r) ELSE StrRFind(s, t, r)
  IN  CASE needle.kind # "str" -> Raised("TypeError")
        [] needle.kind = "str" /\ IsRaised(r) -> r
        [] OTHER ->
             (CASE method = "startswith" -> Bool(StartsWith(s, t, r))
                [] method = "endswith" -> Bool(EndsWith(s, t, r))
                [] method \in {"find", "rfind"} -> Smi(found)
                [] method \in {"index", "rindex"} -> IF found = -1 THEN Raised("ValueError") ELSE Smi(found)
                [] method = "count" -> Smi(CountSubstring(s, t, r)))

StrContains(self, needle) ==
  IF needle.kind # "str" THEN Raised("TypeError")
  ELSE Bool(StrFind(self.items, needle.items, [start |-> 0, end |-> Len(self.items)]) >= 0)

Whole(s) == [start |-> 0, end |-> Len(s)]
RemovePrefix(s, t) == IF StartsWith(s, t, Whole(s)) THEN From(s, Len(t)) ELSE s
RemoveSuffix(s, t) == IF EndsWith(s, t, Whole(s)) THEN SubStr(s, 0, Len(s) - Len(t)) ELSE s

-----------------------------------------------------------------------------
\* Splits.  The reverse forms collect the pieces backwards and append them in order.
RECURSIVE SkipSpace(_, _), SkipWord(_, _), SkipSpaceBack(_, _), SkipWordBack(_, _)
SkipSpace(s, pos) == IF pos < Len(s) /\ IsWSpace(s[pos + 1]) THEN SkipSpace(s, pos + 1) ELSE pos
SkipWord(s, pos) == IF pos < Len(s) /\ ~IsWSpace(s[pos + 1]) THEN SkipWord(s, pos + 1) ELSE pos
SkipSpaceBack(s, end) == IF end > 0 /\ IsWSpace(s[end]) THEN SkipSpaceBack(s, end - 1) ELSE end
SkipWordBack(s, end) == IF end > 0 /\ ~IsWSpace(s[end]) THEN SkipWordBack(s, end - 1) ELSE end

RECURSIVE Words(_, _, _, _), WordsBack(_, _, _, _)
Words(s, at, splits, maxsplit) ==
  LET pos == SkipSpace(s, at)
      end == SkipWord(s, pos)
  IN  IF pos = Len(s) THEN <<>>
      ELSE IF maxsplit >= 0 /\ splits = maxsplit THEN <<From(s, pos)>>
      ELSE <<SubStr(s, pos, end - pos)>> \o Words(s, end, splits + 1, maxsplit)
\* The piece that remains loses its leading blanks, but only after a split.
WordsBack(s, at, splits, maxsplit) ==
  LET end == SkipSpaceBack(s, at)
      start == SkipWordBack(s, end)
      rest == IF splits > 0 THEN SkipSpace(SubStr(s, 0, end), 0) ELSE 0
  IN  IF end = 0 THEN <<>>
      ELSE IF maxsplit >= 0 /\ splits = maxsplit THEN <<SubStr(s, rest, end - rest)>>
      ELSE WordsBack(s, start, splits + 1, maxsplit) \o <<SubStr(s, start, end - start)>>
SplitWhitespace(s, maxsplit, reverse) ==
  IF reverse THEN WordsBack(s, Len(s), 0, maxsplit) ELSE Words(s, 0, 0, maxsplit)

RECURSIVE Pieces(_, _, _, _, _), PiecesBack(_, _, _, _, _)
Pieces(s, sep, pos, splits, maxsplit) ==
  LET found == ViewFind(s, sep, pos)
  IN  IF ~(maxsplit < 0 \/ splits < maxsplit) \/ found = npos THEN <<From(s, pos)>>
      ELSE <<SubStr(s, pos, found - pos)>> \o Pieces(s, sep, found + Len(sep), splits + 1, maxsplit)
PiecesBack(s, sep, end, splits, maxsplit) ==
  LET found == ViewRFind(s, sep, end - Len(sep))
  IN  IF ~(maxsplit < 0 \/ splits < maxsplit) \/ end < Len(sep) \/ found = npos THEN <<SubStr(s, 0, end)>>
      ELSE PiecesBack(s, sep, found, splits + 1, maxsplit)
           \o <<SubStr(s, found + Len(sep), end - found - Len(sep))>>
SplitExplicit(s, sep, maxsplit, reverse) ==
  IF reverse THEN PiecesBack(s, sep, Len(s), 0, maxsplit) ELSE Pieces(s, sep, 0, 0, maxsplit)

\* split and rsplit
StrSplit(self, sep, maxsplit, reverse) ==
  LET m == IntlikeToSmi(maxsplit)
      listed(pieces) == Object("list", [i \in DOMAIN pieces |-> Str(pieces[i])])
  IN  CASE IsRaised(m) -> m
        [] ~IsRaised(m) /\ sep = None -> listed(SplitWhitespace(self.items, m.smi, reverse))
        [] ~IsRaised(m) /\ sep # None /\ sep.kind # "str" -> Raised("TypeError")
        [] ~IsRaised(m) /\ sep # None /\ sep.kind = "str" ->
             IF sep.items = <<>> THEN Raised("ValueError")
             ELSE listed(SplitExplicit(self.items, sep.items, m.smi, reverse))

PartitionString(self, sep, reverse) ==
  LET s == self.items
      t == sep.items
      found == IF reverse THEN ViewRFind(s, t, Len(s)) ELSE ViewFind(s, t, 0)
  IN  CASE sep.kind # "str" -> Raised("TypeError")
        [] sep.kind = "str" /\ sep.items = <<>> -> Raised("ValueError")
        [] OTHER ->
             Object("tuple", CASE found = npos /\ reverse -> <<Str(<<>>), Str(<<>>), self>>
                               [] found = npos /\ ~reverse -> <<self, Str(<<>>), Str(<<>>)>>
                               [] found # npos -> <<Str(SubStr(s, 0, found)), sep, Str(From(s, found + Len(t)))>>)

-----------------------------------------------------------------------------
RECURSIVE Interleaved(_, _, _, _), ReplacedFrom(_, _, _, _, _, _)
Interleaved(s, new, replacements, max) ==
  (IF max < 0 \/ replacements < max THEN new ELSE <<>>) \o
  (IF s = <<>> THEN <<>> ELSE <<Head(s)>> \o Interleaved(Tail(s), new, replacements + 1, max))
ReplacedFrom(s, old, new, pos, replacements, max) ==
  LET found == ViewFind(s, old, pos)
  IN  IF pos >= Len(s) THEN <<>>
      ELSE IF (max >= 0 /\ replacements = max) \/ found = npos THEN From(s, pos)
      ELSE SubStr(s, pos, found - pos) \o new
           \o ReplacedFrom(s, old, new, found + Len(old), replacements + 1, max)
StrReplace(s, old, new, max) ==
  IF max = 0 THEN s
  ELSE IF old = <<>> THEN Interleaved(s, new, 0, max)
  ELSE ReplacedFrom(s, old, new, 0, 0, max)

\* strip, lstrip, rstrip, with a set of characters or None for blanks
StripString(s, left, right, chars) ==
  LET drops(c) == IF chars = None THEN IsWSpace(c) ELSE \E i \in DOMAIN chars.items : chars.items[i] = c
      up[i \in 0 .. Len(s)] == IF left /\ i < Len(s) /\ drops(s[i + 1]) THEN up[i + 1] ELSE i
      start == up[0]
      down[i \in 0 .. Len(s)] == IF right /\ i > start /\ drops(s[i]) THEN down[i - 1] ELSE i
  IN  SubStr(s, start, down[Len(s)] - start)
StrStrip(method, self, chars) ==
  IF chars # None /\ chars.kind # "str" THEN Raised("TypeError")
  ELSE Str(StripString(self.items, method # "rstrip", method # "lstrip", chars))

StrJoin(self, sequence) ==
  LET join[i \in 0 .. Len(sequence.items)] ==
        IF i = 0 THEN <<>>
        ELSE join[i - 1] \o (IF i # 1 THEN self.items ELSE <<>>) \o sequence.items[i].items
  IN  IF sequence.kind \notin {"list", "tuple"} THEN Raised("TypeError")
      ELSE IF \E i \in DOMAIN sequence.items : sequence.items[i].kind # "str" THEN Raised("TypeError")
      ELSE Str(join[Len(sequence.items)])

-----------------------------------------------------------------------------
StrRecased(method, s) ==
  CASE method = "lower" -> [i \in DOMAIN s |-> ToWLower(s[i])]
    [] method = "upper" -> [i \in DOMAIN s |-> ToWUpper(s[i])]
    [] method = "capitalize" -> [i \in DOMAIN s |-> IF i = 1 THEN ToWUpper(s[i]) ELSE ToWLower(s[i])]
    [] method = "swapcase" ->
         [i \in DOMAIN s |-> IF IsWLower(s[i]) THEN ToWUpper(s[i])
                             ELSE IF IsWUpper(s[i]) THEN ToWLower(s[i]) ELSE s[i]]

ClassifyString(s, P(_)) == s # <<>> /\ \A i \in DOMAIN s : P(s[i])
ClassifyCasedString(s, P(_)) ==
  LET cased == {i \in DOMAIN s : IsWLower(s[i]) \/ IsWUpper(s[i])}
  IN  cased # {} /\ \A i \in cased : P(s[i])
StrClassify(method, s) ==
  CASE method = "isalpha" -> ClassifyString(s, IsWAlpha)
    [] method = "isdigit" -> ClassifyString(s, IsWDigit)
    [] method = "isalnum" -> ClassifyString(s, IsWAlnum)
    [] method = "isspace" -> ClassifyString(s, IsWSpace)
    [] method = "islower" -> ClassifyCasedString(s, IsWLower)
    [] method = "isupper" -> ClassifyCasedString(s, IsWUpper)
    [] method = "isascii" -> \A i \in DOMAIN s : s[i] <= LastAscii
    [] method = "isprintable" -> \A i \in DOMAIN s : IsWPrint(s[i])

\* The line break becomes a backslash and a letter
StrRepr(s) ==
  LET escaped(c) == CASE c \in {Backslash, Quote} -> <<Backslash, c>>
                      [] c = LineBreak -> <<Backslash, Lower>>
                      [] OTHER -> <<c>>
      text[i \in 0 .. Len(s)] == IF i = 0 THEN <<Quote>> ELSE text[i - 1] \o escaped(s[i])
  IN  text[Len(s)] \o <<Quote>>

-----------------------------------------------------------------------------
StringHash(s) ==
  LET hash[i \in 0 .. Len(s)] == IF i = 0 THEN 5 ELSE (hash[i - 1] * 33 + s[i]) % (2 ^ WordBits)
  IN  hash[Len(s)] % (2 ^ HashModulusBits - 1)

\* string_eq_slow_path; two interned strings are compared by address
StringEq(a, b) == Len(a) = Len(b) /\ \A i \in DOMAIN a : a[i] = b[i]

StringCompare(a, b) ==
  LET n == IF Len(a) < Len(b) THEN Len(a) ELSE Len(b)
      order[i \in 1 .. n + 1] ==
        IF i > n THEN (IF Len(a) < Len(b) THEN -1 ELSE IF Len(a) > Len(b) THEN 1 ELSE 0)
        ELSE IF a[i] < b[i] THEN -1 ELSE IF a[i] > b[i] THEN 1 ELSE order[i + 1]
  IN  order[1]

\* The comparison methods and, with the operands exchanged, the reflected handlers
Ordered(op, sign) ==
  CASE op = "lt" -> sign < 0 [] op = "le" -> sign <= 0 [] op = "gt" -> sign > 0 [] op = "ge" -> sign >= 0
    [] op = "eq" -> sign = 0 [] op = "ne" -> sign # 0
StrCompare(op, a, b) ==
  IF op \in {"eq", "ne"} THEN (op = "eq") = StringEq(a, b) ELSE Ordered(op, StringCompare(a, b))
ReflectedOp(op) ==
  CASE op = "lt" -> "gt" [] op = "gt" -> "lt" [] op = "le" -> "ge" [] op = "ge" -> "le" [] OTHER -> op
\* b.op(a), asked for as a ... b: the resolver's second operator on the operands in source order
StrCompareReflected(op, a, b) == StrCompare(ReflectedOp(op), a, b)

-----------------------------------------------------------------------------
(***************************************************************************)
(* The methods of bytes (builtin_types/bytes.cpp).  Where str searches for *)
(* a text, bytes also takes an integer that fits a byte.  ByteMax stands   *)
(* for 255.                                                                *)
(***************************************************************************)

InByteRange(n) == n \in 0 .. ByteMax
Byte(n) == IF InByteRange(n) THEN [byte |-> n] ELSE Raised("ValueError")

\* value_to_byte and method_needle_as_byte compare the integer before they
\* convert it: one too large for an immediate is a ValueError.
ValueToByte(a) ==
  CASE a.kind = "smi" -> Byte(a.int)
    [] a.kind = "big" -> Raised("ValueError")
    [] OTHER -> Raised("TypeError")
MethodNeedleAsByte(a) ==
  CASE IsSmiOrBool(a) -> Byte(SmiOrBoolAsInt(a))
    [] a.kind = "big" -> Raised("ValueError")
    [] OTHER -> Raised("TypeError")
\* contains_needle_as_byte converts first
ContainsNeedleAsByte(a) == LET i == ExactIntToSmi(a) IN IF IsRaised(i) THEN i ELSE Byte(i.smi)

\* bytes_from_list and bytes_from_tuple stop at the first item they refuse
BytesFrom(items) ==
  LET bad == {i \in DOMAIN items : IsRaised(ValueToByte(items[i]))}
  IN  IF bad = {} THEN Bytes([i \in DOMAIN items |-> ValueToByte(items[i]).byte])
      ELSE ValueToByte(items[CHOOSE i \in bad : \A j \in bad : i <= j])
BytesNew(source) ==
  CASE source = None -> Bytes(<<>>)
    [] source # None /\ source.kind = "bytes" -> source
    [] source # None /\ source.kind \in {"list", "tuple"} -> BytesFrom(source.items)
    [] OTHER -> Raised("TypeError")

-----------------------------------------------------------------------------
NormalizeBytesRange(length, start, end) == NormalizeStringRange(length, start, end)

BytesStartsWith(s, t, r) == OccursAt(SubStr(s, r.start, r.end - r.start), t, 0)
BytesEndsWith(s, t, r) == r.end - r.start >= Len(t) /\ OccursAt(SubStr(s, 0, r.end), t, r.end - Len(t))

BytesFind(s, t, r) ==
  LET found == ViewFind(SubStr(s, r.start, r.end - r.start), t, 0)
  IN  IF t = <<>> THEN r.start ELSE IF found = npos THEN -1 ELSE r.start + found

\* Tries every position from the last down to the first
BytesRFind(s, t, r) ==
  LET range == SubStr(s, r.start, r.end - r.start)
      try[pos \in 0 .. Len(range)] ==
        IF OccursAt(range, t, pos) THEN r.start + pos ELSE IF pos = 0 THEN -1 ELSE try[pos - 1]
  IN  IF t = <<>> THEN r.end ELSE IF Len(t) > Len(range) THEN -1 ELSE try[Len(range) - Len(t)]

FindByte(s, b, r) ==
  LET at == {i \in r.start .. r.end - 1 : s[i + 1] = b}
  IN  IF at = {} THEN -1 ELSE CHOOSE i \in at : \A j \in at : i <= j
RFindByte(s, b, r) ==
  LET at == {i \in r.start .. r.end - 1 : s[i + 1] = b}
  IN  IF at = {} THEN -1 ELSE CHOOSE i \in at : \A j \in at : i >= j

RECURSIVE CountSearches(_, _, _)
CountSearches(range, t, pos) ==
  LET found == ViewFind(range, t, pos)
  IN  IF pos = Len(range) \/ found = npos THEN 0 ELSE 1 + CountSearches(range, t, found + Len(t))
CountSubsequence(s, t, r) ==
  LET range == SubStr(s, r.start, r.end - r.start)
  IN  IF t = <<>> THEN Len(range) + 1 ELSE CountSearches(range, t, 0)
CountByte(s, b, r) == Len(SelectSeq(SubStr(s, r.start, r.end - r.start), LAMBDA x : x = b))

BytesIndex(found) == IF found = -1 THEN Raised("ValueError") ELSE Smi(found)

\* find, rfind, index, rindex and count of an integer or of bytes
BytesSearch(method, self, needle, start, end) ==
  LET r == NormalizeBytesRange(Len(self.items), start, end)
      s == self.items
      b == MethodNeedleAsByte(needle)
      forward == method \in {"find", "index"}
      found == CASE IsIntLike(needle) /\ forward -> FindByte(s, b.byte, r)
                 [] IsIntLike(needle) /\ ~forward -> RFindByte(s, b.byte, r)
                 [] ~IsIntLike(needle) /\ forward -> BytesFind(s, needle.items, r)
                 [] ~IsIntLike(needle) /\ ~forward -> BytesRFind(s, needle.items, r)
  IN  CASE IsRaised(r) -> r
        [] ~IsRaised(r) /\ IsIntLike(needle) /\ IsRaised(b) -> b
        [] ~IsRaised(r) /\ ~IsIntLike(needle) /\ needle.kind # "bytes" -> Raised("TypeError")
        [] OTHER ->
             (CASE method \in {"find", "rfind"} -> Smi(found)
                [] method \in {"index", "rindex"} -> BytesIndex(found)
                [] method = "count" -> Smi(IF IsIntLike(needle) THEN CountByte(s, b.byte, r)
                                           ELSE CountSubsequence(s, needle.items, r)))

BytesAffix(method, self, affix, start, end) ==
  LET r == NormalizeBytesRange(Len(self.items), start, end)
  IN  CASE affix.kind # "bytes" -> Raised("TypeError")
        [] affix.kind = "bytes" /\ IsRaised(r) -> r
        [] OTHER -> Bool(IF method = "startswith" THEN BytesStartsWith(self.items, affix.items, r)
                         ELSE BytesEndsWith(self.items, affix.items, r))

BytesContains(self, needle) ==
  LET b == ContainsNeedleAsByte(needle)
  IN  IF needle.kind = "bytes" THEN Bool(BytesFind(self.items, needle.items, Whole(self.items)) >= 0)
      ELSE IF IsRaised(b) THEN b
      ELSE Bool(\E i \in DOMAIN self.items : self.items[i] = b.byte)

BytesRemove(method, s, t) ==
  IF method = "removeprefix"
  THEN IF BytesStartsWith(s, t, Whole(s)) THEN From(s, Len(t)) ELSE s
  ELSE IF BytesEndsWith(s, t, Whole(s)) THEN SubStr(s, 0, Len(s) - Len(t)) ELSE s

RECURSIVE BytesReplacedFrom(_, _, _, _, _, _)
BytesReplacedFrom(s, old, new, pos, replacements, max) ==
  LET found == ViewFind(s, old, pos)
  IN  IF pos = Len(s) THEN <<>>
      ELSE IF (max >= 0 /\ replacements = max) \/ found = npos THEN From(s, pos)
      ELSE SubStr(s, pos, found - pos) \o new
           \o BytesReplacedFrom(s, old, new, found + Len(old), replacements + 1, max)
BytesReplace(s, old, new, max) ==
  IF max = 0 THEN s
  ELSE IF old = <<>> THEN Interleaved(s, new, 0, max)
  ELSE BytesReplacedFrom(s, old, new, 0, 0, max)

BytesHash(s) ==
  LET hash[i \in 0 .. Len(s)] == IF i = 0 THEN 5 ELSE (hash[i - 1] * 33 + s[i]) % (2 ^ WordBits)
  IN  hash[Len(s)] % (2 ^ HashModulusBits - 1)

\* std::equal and lexicographical_compare_three_way
BytesEq(a, b) == Len(a) = Len(b) /\ \A i \in DOMAIN a : a[i] = b[i]
BytesOrder(a, b) ==
  LET differ == {i \in DOMAIN a \cap DOMAIN b : a[i] # b[i]}
      first == CHOOSE i \in differ : \A j \in differ : i <= j
  IN  IF differ # {} THEN IF a[first] < b[first] THEN -1 ELSE 1
      ELSE IF Len(a) < Len(b) THEN -1 ELSE IF Len(a) > Len(b) THEN 1 ELSE 0
BytesCompare(op, a, b) ==
  IF op \in {"eq", "ne"} THEN (op = "eq") = BytesEq(a, b) ELSE Ordered(op, BytesOrder(a, b))
BytesCompareReflected(op, a, b) == BytesCompare(ReflectedOp(op), a, b)
=============================================================================
