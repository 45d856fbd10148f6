----------------------------- MODULE Tokenizer ------------------------------
(***************************************************************************)
(* The tokenizer.  A source is a sequence of characters; a word (a keyword *)
(* or a name), which the code finds with a regular expression, is here a   *)
(* run of characters, each of which may be a whole word.  A token is its   *)
(* kind, written as the source writes it, and its text.                    *)
(***************************************************************************)
EXTENDS Integers, SequencesExt

Keywords ==
  {"False", "None", "True", "and", "as", "assert", "await", "async", "break", "class",
   "continue", "def", "del", "elif", "else", "except", "finally", "for", "from", "global",
   "if", "import", "in", "is", "lambda", "nonlocal", "not", "or", "pass", "raise", "return",
   "try", "while", "with", "yield"}

OneCharacter == {"(", ")", "[", "]", "{", "}", ":", ",", ";", "+", "-", "*", "/", "|", "&",
                 "<", ">", "=", ".", "%", "!", "~", "^", "@"}
TwoCharacters == {":=", "+=", "-=", "->", "*=", "**", "/=", "//", "|=", "&=", "<=", "<<",
                  ">=", ">>", "==", "%=", "!=", "^=", "@="}
ThreeCharacters == {"**=", "//=", "<<=", ">>=", "..."}

Opening == {"(", "[", "{"}
Closing == {")", "]", "}"}
Blanks == {" ", "\t", "\f"}
LineEnds == {"\n", "\r"}
Quotes == {"'", "\""}
Digits == {"0", "1", "2", "3", "4", "5", "6", "7", "8", "9"}
Invalid == {"$", "?", "\\"}
IsWord(c) == c \notin OneCharacter \cup Blanks \cup LineEnds \cup Quotes \cup Invalid \cup {"#"}

TabSize == 8

CharAt(src, i) == IF i \in DOMAIN src THEN src[i] ELSE ""
\* The number of characters from i on that satisfy P.
Run(src, i, P(_)) ==
  LET stops == {j \in i .. Len(src) : ~P(src[j])}
  IN  IF stops = {} THEN Len(src) + 1 - i ELSE Min(stops) - i

-----------------------------------------------------------------------------
(* String literals: scan_string_literal *)

PrefixLength(src, i) ==
  LET n == Run(src, i, LAMBDA c : c \in {"r", "u", "b"}) IN IF n > 2 THEN 2 ELSE n

\* is_string_prefix: at most one r, and at most one of u and b
IsStringPrefix(p) == \A c, d \in DOMAIN p : c # d => "r" \in {p[c], p[d]} /\ p[c] # p[d]

Closes(src, i, quote, n, escaped) ==
  /\ ~escaped
  /\ src[i] = quote
  /\ n = 3 => CharAt(src, i + 1) = quote /\ CharAt(src, i + 2) = quote

RECURSIVE StringEnd(_, _, _, _, _)
\* Where the literal whose body goes on at i ends, and how.
StringEnd(src, i, quote, n, escaped) ==
  CASE i > Len(src) ->
         [kind |-> IF n = 3 THEN "UNTERMINATED_TRIPLE_STRING" ELSE "UNTERMINATED_STRING",
          next |-> i]
    [] i <= Len(src) /\ n = 1 /\ src[i] \in LineEnds -> [kind |-> "UNTERMINATED_STRING", next |-> i]
    [] OTHER ->
         IF Closes(src, i, quote, n, escaped) THEN [kind |-> "STRING", next |-> i + n]
         ELSE StringEnd(src, i + 1, quote, n, ~escaped /\ src[i] = "\\")

ScanStringLiteral(src, i) ==
  LET p == PrefixLength(src, i)
      quote == CharAt(src, i + p)
      n == IF CharAt(src, i + p + 1) = quote /\ CharAt(src, i + p + 2) = quote THEN 3 ELSE 1
  IN  IF IsStringPrefix(SubSeq(src, i, i + p - 1)) /\ quote \in Quotes
      THEN StringEnd(src, i + p + n, quote, n, FALSE)
      ELSE [kind |-> "NOT_STRING", next |-> i]

-----------------------------------------------------------------------------
(* One token *)

EmitToken(z, kind, text) ==
  [z EXCEPT !.tokens = Append(@, [kind |-> kind, text |-> text])]

\* A token of the next n characters
TokenOf(src, z, kind, n) ==
  [EmitToken(z, kind, SubSeq(src, z.pos, z.pos + n - 1)) EXCEPT !.pos = @ + n]

\* The longest operator at z.pos, by looking two characters ahead
OperatorToken(src, z) ==
  LET c1 == src[z.pos]
      c2 == c1 \o CharAt(src, z.pos + 1)
      c3 == c2 \o CharAt(src, z.pos + 2)
      tok == CASE c3 \in ThreeCharacters -> TokenOf(src, z, c3, 3)
               [] c3 \notin ThreeCharacters /\ c2 \in TwoCharacters -> TokenOf(src, z, c2, 2)
               [] OTHER -> TokenOf(src, z, c1, 1)
  IN  [tok EXCEPT !.depth = CASE c1 \in Opening -> @ + 1
                              [] c1 \in Closing /\ @ > 0 -> @ - 1
                              [] OTHER -> @]

EndsWithNewline(z) == z.tokens # <<>> /\ Last(z.tokens).kind = "NEWLINE"

\* A line end: nothing inside brackets, and otherwise one NEWLINE for them all
LineEnd(src, z) ==
  LET skipped == [z EXCEPT !.pos = @ + Run(src, z.pos, LAMBDA c : c \in LineEnds)]
  IN  IF z.depth > 0 THEN skipped
      ELSE [IF EndsWithNewline(z) THEN skipped ELSE EmitToken(skipped, "NEWLINE", <<>>)
              EXCEPT !.startLine = TRUE]

\* The length of the number at i; an integer has no leading zeros.
NumberLength(src, i) ==
  LET Zeros == Run(src, i, LAMBDA c : c = "0")
      DigitRun(j) == Run(src, j, LAMBDA c : c \in Digits)
      point == i + DigitRun(i)
  IN  IF CharAt(src, point) = "." THEN point - i + 1 + DigitRun(point + 1)
      ELSE IF Zeros > 0 THEN Zeros ELSE point - i

\* A string, a number or a word
OtherToken(src, z) ==
  LET scan == ScanStringLiteral(src, z.pos)
      c == src[z.pos]
      n == Run(src, z.pos, IsWord)
  IN  CASE scan.kind # "NOT_STRING" -> TokenOf(src, z, scan.kind, scan.next - z.pos)
        [] scan.kind = "NOT_STRING" /\ c \in Digits ->
             TokenOf(src, z, "NUMBER", NumberLength(src, z.pos))
        [] scan.kind = "NOT_STRING" /\ c \notin Digits /\ n > 0 ->
             TokenOf(src, z, IF n = 1 /\ c \in Keywords THEN c ELSE "NAME", n)
        [] OTHER -> TokenOf(src, z, "INVALID_CHARACTER", 1)

NextToken(src, z) ==
  LET c == src[z.pos]
  IN  CASE c = "." /\ CharAt(src, z.pos + 1) \in Digits ->
             TokenOf(src, z, "NUMBER", NumberLength(src, z.pos))
        [] c \in OneCharacter /\ ~(c = "." /\ CharAt(src, z.pos + 1) \in Digits) ->
             OperatorToken(src, z)
        [] c \in LineEnds -> LineEnd(src, z)
        [] c \in Blanks -> [z EXCEPT !.pos = @ + 1]
        [] c = "#" -> [z EXCEPT !.pos = @ + Run(src, @, LAMBDA d : d \notin LineEnds)]
        [] OTHER -> OtherToken(src, z)

-----------------------------------------------------------------------------
(* The start of a line *)

NextColumn(column, c) ==
  CASE c = " " -> column + 1
    [] c = "\t" -> (column \div TabSize + 1) * TabSize
    [] OTHER -> 0

RECURSIVE DedentTo(_, _)
DedentTo(z, column) ==
  IF column >= Last(z.indents) THEN z
  ELSE DedentTo(EmitToken([z EXCEPT !.indents = Front(@)], "DEDENT", <<>>), column)

Indentation(z, column) ==
  CASE column > Last(z.indents) ->
         EmitToken([z EXCEPT !.indents = Append(@, column)], "INDENT", <<>>)
    [] column < Last(z.indents) /\ column \notin Range(z.indents) -> [z EXCEPT !.error = TRUE]
    [] OTHER -> DedentTo(z, column)

StartLine(src, z) ==
  LET n == Run(src, z.pos, LAMBDA c : c \in Blanks)
      column == FoldLeft(NextColumn, 0, SubSeq(src, z.pos, z.pos + n - 1))
      y == [z EXCEPT !.pos = @ + n, !.startLine = FALSE]
  IN  IF CharAt(src, y.pos) \in LineEnds \cup {"#", ""} THEN y ELSE Indentation(y, column)

-----------------------------------------------------------------------------

RECURSIVE TokenizeFrom(_, _)
TokenizeFrom(src, z) ==
  IF z.error \/ z.pos > Len(src) THEN z
  ELSE TokenizeFrom(src, IF z.startLine THEN StartLine(src, z) ELSE NextToken(src, z))

\* What follows the last character
EndOfSource(z) ==
  LET y == CASE z.depth > 0 -> EmitToken(z, "OPEN_BRACKET_EOF", <<>>)
             [] z.depth = 0 /\ ~EndsWithNewline(z) -> EmitToken(z, "NEWLINE", <<>>)
             [] OTHER -> z
  IN  EmitToken(DedentTo(y, 0), "ENDMARKER", <<>>)

\* The tokens of src; error means an IndentationError.
Tokenize(src) ==
  LET z == TokenizeFrom(src, [pos |-> 1, startLine |-> TRUE, indents |-> <<0>>, depth |-> 0,
                              tokens |-> <<>>, error |-> FALSE])
  IN  IF z.error THEN z ELSE EndOfSource(z)
=============================================================================
