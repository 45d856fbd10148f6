------------------------------- MODULE Parser -------------------------------
(***************************************************************************)
(* The recursive descent parser, one operator for every production.  The   *)
(* state of a parse is the token it is at, the indentation level, the      *)
(* result of the production that ended last (a node or a sequence of       *)
(* nodes) and the error, if one was raised; after an error Peek is no      *)
(* token and every production returns at once, which is what CL_TRY does.  *)
(* incomplete and level are the CompileContinuationInfo.                   *)
(***************************************************************************)
EXTENDS Tokenizer, Ast

TokenizerErrors == {"INVALID_CHARACTER", "UNTERMINATED_STRING", "UNTERMINATED_TRIPLE_STRING",
                    "OPEN_BRACKET_EOF"}

StartAt(tokens) == [tokens |-> tokens, pos |-> 1, indent |-> 0, node |-> NoNode,
                    error |-> FALSE, incomplete |-> FALSE, level |-> 0]

Failed(s) == s.error
Peek(s) == IF Failed(s) THEN "FAILED" ELSE s.tokens[s.pos].kind
Peek2(s) == IF Failed(s) \/ s.pos = Len(s.tokens) THEN "ENDMARKER" ELSE s.tokens[s.pos + 1].kind
Text(s) == IF Failed(s) THEN <<>> ELSE s.tokens[s.pos].text
\* advance with update_indentation_level
Advance(s) ==
  IF Failed(s) THEN s
  ELSE [s EXCEPT !.pos = @ + 1,
                 !.indent = CASE Peek(s) = "INDENT" -> @ + 1
                              [] Peek(s) = "DEDENT" -> @ - 1
                              [] OTHER -> @]
Match(s, kind) == IF Peek(s) = kind THEN Advance(s) ELSE s

Result(s, node) == IF Failed(s) THEN s ELSE [s EXCEPT !.node = node]

\* An exception that leaves the continuation info as it is
RaiseSyntaxError(s) == [s EXCEPT !.error = TRUE]
\* raise_parse_error
RaiseParseError(s, incomplete, level) ==
  [s EXCEPT !.error = TRUE, !.incomplete = incomplete, !.level = level]
\* raise_parse_error_for_tokenizer_error
RaiseTokenizerError(s) ==
  IF Peek(s) \in {"UNTERMINATED_TRIPLE_STRING", "OPEN_BRACKET_EOF"}
  THEN RaiseParseError(s, TRUE, s.indent) ELSE RaiseParseError(s, FALSE, 0)

\* A suite that is missing because the text ends in a nested one is an error.
ConsumeOnlyAtTop(s, kind) ==
  CASE Failed(s) -> s
    [] Peek(s) = kind -> Advance(s)
    [] Peek(s) \in TokenizerErrors -> RaiseTokenizerError(s)
    [] kind = "INDENT" /\ Peek(s) = "ENDMARKER" -> RaiseParseError(s, TRUE, s.indent + 1)
    [] OTHER -> RaiseParseError(s, FALSE, 0)

Consume(s, kind) ==
  CASE Failed(s) -> s
    [] Peek(s) = kind -> Advance(s)
    [] Peek(s) # kind /\ Peek(s) \in TokenizerErrors -> RaiseTokenizerError(s)
    [] kind = "INDENT" /\ Peek(s) \in {"ENDMARKER", "DEDENT"} ->
         RaiseParseError(s, TRUE, s.indent + 1)
    [] OTHER -> RaiseParseError(s, FALSE, 0)

\* A name; its text is the result.
ConsumeName(s) == LET t == Consume(s, "NAME") IN IF Failed(t) THEN t ELSE Result(t, Text(s))

Variable(name) == Node("VARIABLE", name, "", <<>>)
Literal(kind, value) == Node("LITERAL", value, kind, <<>>)
Binary(op, l, r) == Node("BINARY", <<>>, op, <<l, r>>)

-----------------------------------------------------------------------------
(* String literals: what the escapes of a literal's body stand for.        *)

HexDigits == <<"0", "1", "2", "3", "4", "5", "6", "7", "8", "9", "a", "b", "c", "d", "e", "f">>
IsHexDigit(c) == \E i \in DOMAIN HexDigits : HexDigits[i] = c
HexValue(cs) == FoldLeft(LAMBDA v, c : 16 * v + SelectInSeq(HexDigits, LAMBDA d : d = c) - 1, 0, cs)
OctalDigits == {"0", "1", "2", "3", "4", "5", "6", "7"}

\* The code point of a character; the others stand for one that is not ASCII.
Codes == "0" :> 48 @@ "1" :> 49 @@ "a" :> 97 @@ "n" :> 110 @@ "u" :> 117 @@ "x" :> 120
         @@ "'" :> 39 @@ "\"" :> 34 @@ "\\" :> 92 @@ "\n" :> 10
CodeOf(c) == IF c \in DOMAIN Codes THEN Codes[c] ELSE 1000
SimpleEscapes == "\\" :> 92 @@ "'" :> 39 @@ "\"" :> 34 @@ "a" :> 7 @@ "b" :> 8 @@ "f" :> 12
                 @@ "n" :> 10 @@ "r" :> 13 @@ "t" :> 9 @@ "v" :> 11

DigitsAfter(body, i, n) == SubSeq(body, i + 1, i + n)
\* How many characters after i belong to an octal escape that begins at i
OctalLength(body, i) ==
  IF i + 1 \in DOMAIN body /\ body[i + 1] \in OctalDigits
  THEN IF i + 2 \in DOMAIN body /\ body[i + 2] \in OctalDigits THEN 2 ELSE 1
  ELSE 0
OctalValue(cs) == FoldLeft(LAMBDA v, c : 8 * v + SelectInSeq(HexDigits, LAMBDA d : d = c) - 1, 0, cs)

\* What the escape after the backslash at i stands for, and its length; no
\* codes if it is invalid (the one that stands for nothing ends a line).
Escape(body, i, bytes) ==
  LET esc == IF i + 1 \in DOMAIN body THEN body[i + 1] ELSE ""
      n == CASE esc = "x" -> 2 [] esc = "u" /\ ~bytes -> 4 [] esc = "U" /\ ~bytes -> 8 [] OTHER -> 0
      hex == DigitsAfter(body, i + 1, n)
      more == OctalLength(body, i + 1)
      Means(codes, length) == [codes |-> codes, length |-> length]
  IN  CASE esc = "\n" -> Means(<<>>, 2)
        [] esc \in DOMAIN SimpleEscapes -> Means(<<SimpleEscapes[esc]>>, 2)
        [] n > 0 /\ i + 1 + n <= Len(body) /\ (\A k \in DOMAIN hex : IsHexDigit(hex[k])) ->
             Means(<<HexValue(hex)>>, n + 2)
        [] esc \in OctalDigits ->
             Means(<<OctalValue(<<esc>> \o DigitsAfter(body, i + 1, more)) % 256>>, more + 2)
        [] n = 0 /\ esc \notin OctalDigits \cup DOMAIN SimpleEscapes \cup {"", "\n"} ->
             Means(<<CodeOf("\\"), CodeOf(esc)>>, 2)
        [] OTHER -> Means(<<>>, 1)

RECURSIVE DecodeFrom(_, _, _, _)
\* The code points of body from i on; <<-1>> for an invalid escape.
DecodeFrom(body, i, bytes, out) ==
  LET e == Escape(body, i, bytes)
  IN  CASE i > Len(body) -> out
        [] i <= Len(body) /\ body[i] # "\\" ->
             DecodeFrom(body, i + 1, bytes, Append(out, CodeOf(body[i])))
        [] OTHER -> IF e.length = 1 THEN <<-1>>
                    ELSE DecodeFrom(body, i + e.length, bytes, out \o e.codes)

\* parse_literal_prefix, string_literal_body and the decoding of the body
DecodeLiteral(text) ==
  LET p == CHOOSE n \in 0 .. Len(text) : /\ \A i \in 1 .. n : text[i] \in {"r", "u", "b"}
                                         /\ text[n + 1] \in {"'", "\""}
      prefix == {text[i] : i \in 1 .. p}
      n == IF Len(text) >= p + 3 /\ text[p + 2] = text[p + 1] /\ text[p + 3] = text[p + 1]
           THEN 3 ELSE 1
      body == SubSeq(text, p + n + 1, Len(text) - n)
      codes == IF "r" \in prefix THEN [i \in DOMAIN body |-> CodeOf(body[i])]
               ELSE DecodeFrom(body, 1, "b" \in prefix, <<>>)
  IN  [bytes |-> "b" \in prefix, codes |-> codes,
       valid |-> codes # <<-1>> /\ ("b" \in prefix => \A i \in DOMAIN codes : codes[i] < 256)]

-----------------------------------------------------------------------------
(* Expressions                                                             *)

RECURSIVE Expression(_)

RECURSIVE ExpressionsUntil(_, _, _)
\* sequence_until_stop_token: more expressions after a comma, unless stop is next
ExpressionsUntil(s, nodes, stop) ==
  LET a == Advance(s)
      e == Expression(a)
  IN  IF Peek(s) # "," THEN Result(s, nodes)
      ELSE IF Peek(a) = stop THEN Result(a, nodes)
      ELSE ExpressionsUntil(e, Append(nodes, e.node), stop)

\* star_expressions and expressions: a tuple that needs no parentheses
StarExpressions(s) ==
  LET e == Expression(s)
      more == ExpressionsUntil(e, <<e.node>>, "NEWLINE")
  IN  IF Peek(e) # "," THEN e ELSE Result(more, Node("TUPLE", <<>>, "", more.node))

\* named_expression and assignment_expression
NamedExpression(s) ==
  LET e == Expression(Advance(Advance(s)))
  IN  IF Peek(s) = "NAME" /\ Peek2(s) = ":="
      THEN Result(e, Node("EXPRESSION_ASSIGN", <<>>, "NOP", <<Variable(Text(s)), e.node>>))
      ELSE Expression(s)

\* One argument: a keyword with its value, or a positional one
ArgumentAt(s) ==
  LET keyword == Peek(s) = "NAME" /\ Peek2(s) = "="
      e == Expression(IF keyword THEN Advance(Advance(s)) ELSE s)
  IN  Result(e, IF keyword THEN Node("KEYWORD", Text(s), "", <<e.node>>)
                ELSE Node("POSITIONAL", <<>>, "", <<e.node>>))

RECURSIVE Args(_, _)
Args(s, nodes) ==
  LET keywords == {i \in DOMAIN nodes : nodes[i].kind = "KEYWORD"}
      isKeyword == Peek(s) = "NAME" /\ Peek2(s) = "="
      e == ArgumentAt(s)
      ch == Append(nodes, e.node)
  IN  CASE Failed(s) -> s
        [] Peek(s) = ")" -> Result(s, Node("PARAMETER_SEQUENCE", <<>>, "", nodes))
        [] \/ Peek(s) \in {"*", "**"}
           \/ isKeyword /\ \E i \in keywords : nodes[i].name = Text(s)
           \/ ~isKeyword /\ Peek(s) # ")" /\ keywords # {} -> RaiseSyntaxError(s)
        [] OTHER -> IF Peek(e) = "," THEN Args(Advance(e), ch)
                    ELSE Result(e, Node("PARAMETER_SEQUENCE", <<>>, "", ch))

\* One bound of a slice, absent before any of the tokens of stop
Bound(s, stop) == IF Peek(s) \in stop THEN Result(s, NoNode) ELSE Expression(s)

SubscriptKey(s) ==
  LET lower == Bound(s, {":"})
      upper == Bound(Consume(lower, ":"), {":", "]", ","})
      step == IF Peek(upper) = ":" THEN Bound(Advance(upper), {"]", ","})
              ELSE Result(upper, NoNode)
  IN  CASE Peek(s) # ":" /\ Peek(lower) = "," -> RaiseSyntaxError(lower)
        [] Peek(s) # ":" /\ Peek(lower) \notin {":", ","} -> lower
        [] OTHER -> IF Peek(step) = "," THEN RaiseSyntaxError(step)
                    ELSE Result(step, Node("SLICE", <<>>, "", <<lower.node, upper.node, step.node>>))

RECURSIVE DictItems(_, _)
\* The rest of a dict display, whose first tokens are a key's
DictItems(s, nodes) ==
  LET k == Expression(s)
      v == Expression(Consume(k, ":"))
      ch == nodes \o <<k.node, v.node>>
  IN  CASE Failed(v) -> v
        [] ~Failed(v) /\ Peek(v) = "," /\ Peek(Advance(v)) # "}" -> DictItems(Advance(v), ch)
        [] OTHER -> Result(Match(v, ","), ch)

\* ( ), (e), (e, ...)
Parenthesized(s) ==
  LET a == Advance(s)
      e == Expression(a)
      tuple == ExpressionsUntil(e, <<e.node>>, ")")
      closed == Consume(tuple, ")")
  IN  CASE Peek(a) = ")" -> Result(Advance(a), Node("TUPLE", <<>>, "", <<>>))
        [] Peek(a) # ")" /\ Peek(e) = "," -> Result(closed, Node("TUPLE", <<>>, "", tuple.node))
        [] OTHER -> Consume(e, ")")

\* A display between brackets of the given kind
Display(s, kind, close) ==
  LET a == Advance(s)
      e == Expression(a)
      items == CASE Peek(a) = close -> Result(a, <<>>)
                 [] Peek(a) # close /\ kind = "LIST" -> ExpressionsUntil(e, <<e.node>>, close)
                 [] OTHER -> DictItems(a, <<>>)
  IN  Result(Consume(items, close), Node(kind, <<>>, "", items.node))

StringLiteral(s) ==
  LET d == DecodeLiteral(Text(s))
  IN  IF d.valid THEN Result(Advance(s), Literal(IF d.bytes THEN "BYTES" ELSE "STRING", d.codes))
      ELSE RaiseSyntaxError(s)

Atom(s) ==
  LET k == Peek(s)
  IN  CASE Failed(s) -> s
        [] k = "NAME" -> Result(Advance(s), Variable(Text(s)))
        [] k \in {"NUMBER", "None", "True", "False", "..."} -> Result(Advance(s), Literal(k, Text(s)))
        [] k = "STRING" -> StringLiteral(s)
        [] k = "(" -> Parenthesized(s)
        [] k = "[" -> Display(s, "LIST", "]")
        [] k = "{" -> Display(s, "DICT", "}")
        [] k \in TokenizerErrors -> RaiseTokenizerError(s)
        [] OTHER -> RaiseParseError(s, FALSE, 0)

RECURSIVE Trailers(_)
\* The attributes, calls and subscripts after a primary
Trailers(s) ==
  LET a == Advance(s)
      name == ConsumeName(a)
      args == Args(a, <<>>)
      key == SubscriptKey(a)
  IN  CASE Peek(s) = "." -> Trailers(Result(name, Node("ATTRIBUTE", name.node, "", <<s.node>>)))
        [] Peek(s) = "(" ->
             Trailers(Result(Consume(args, ")"), Node("CALL", <<>>, "", <<s.node, args.node>>)))
        [] Peek(s) = "[" -> Trailers(Result(Consume(key, "]"), Binary("SUBSCRIPT", s.node, key.node)))
        [] OTHER -> s
AwaitPrimary(s) == Trailers(Atom(s))

RECURSIVE Power(_)
Power(s) ==
  LET l == AwaitPrimary(s)
      r == Power(Advance(l))
  IN  IF Peek(l) = "**" THEN Result(r, Binary("**", l.node, r.node)) ELSE l

RECURSIVE Factor(_)
Factor(s) ==
  LET e == Factor(Advance(s))
  IN  IF Peek(s) \in {"+", "-", "~"} THEN Result(e, Node("UNARY", <<>>, Peek(s), <<e.node>>))
      ELSE Power(s)

\* The levels from bitwise_or down to term: operators that associate to the left
BinaryLevels == << {"|"}, {"^"}, {"&"}, {"<<", ">>"}, {"+", "-"}, {"*", "/", "//", "%", "@"} >>

RECURSIVE BinaryLevel(_, _), BinaryRest(_, _)
BinaryLevel(s, n) == IF n > Len(BinaryLevels) THEN Factor(s) ELSE BinaryRest(BinaryLevel(s, n + 1), n)

\* A level that associates to the right
BinaryRestRight(s, n) ==
  LET r == BinaryLevel(Advance(s), n)
  IN  IF Peek(s) \in BinaryLevels[n] THEN Result(r, Binary(Peek(s), s.node, r.node)) ELSE s

BinaryRest(s, n) ==
  LET r == BinaryLevel(Advance(s), n + 1)
  IN  IF Peek(s) \in BinaryLevels[n] THEN BinaryRest(Result(r, Binary(Peek(s), s.node, r.node)), n)
      ELSE s

\* The comparison operator at s, or "" where there is none
ComparisonOperator(s) ==
  CASE Peek(s) \in {"==", "!=", "<", "<=", ">=", ">", "in"} -> Peek(s)
    [] Peek(s) = "is" -> IF Peek2(s) = "not" THEN "is not" ELSE "is"
    [] Peek(s) = "not" /\ Peek2(s) = "in" -> "not in"
    [] OTHER -> ""

RECURSIVE Fragments(_, _)
\* The comparison_fragments after the first operand
Fragments(s, nodes) ==
  LET op == ComparisonOperator(s)
      e == BinaryLevel(IF op \in {"is not", "not in"} THEN Advance(Advance(s)) ELSE Advance(s), 1)
  IN  IF op = "" THEN Result(s, nodes)
      ELSE Fragments(e, Append(nodes, Node("COMPARISON_FRAGMENT", <<>>, op, <<e.node>>)))

Comparison(s) ==
  LET l == BinaryLevel(s, 1)
      chain == Fragments(l, <<l.node>>)
  IN  IF ComparisonOperator(l) = "" THEN l
      ELSE Result(chain, Node("COMPARISON", <<>>, "", chain.node))

RECURSIVE Inversion(_)
Inversion(s) ==
  LET e == Inversion(Advance(s))
  IN  IF Peek(s) = "not" THEN Result(e, Node("UNARY", <<>>, "not", <<e.node>>)) ELSE Comparison(s)

RECURSIVE Conjunction(_)
Conjunction(s) ==
  LET l == Inversion(s)
      r == Conjunction(Advance(l))
  IN  IF Peek(l) = "and" THEN Result(r, Node("SHORTCUTTING", <<>>, "and", <<l.node, r.node>>)) ELSE l

\* disjunction
Expression(s) ==
  LET l == Conjunction(s)
      r == Expression(Advance(l))
  IN  IF Peek(l) = "or" THEN Result(r, Node("SHORTCUTTING", <<>>, "or", <<l.node, r.node>>)) ELSE l

-----------------------------------------------------------------------------
(* Simple statements                                                       *)

\* validate_assignment_target and validate_del_target
IsTarget(n) == n.kind \in {"VARIABLE", "ATTRIBUTE"} \/ (n.kind = "BINARY" /\ n.op = "SUBSCRIPT")
ValidTarget(s) == IF ~Failed(s) /\ ~IsTarget(s.node) THEN RaiseSyntaxError(s) ELSE s

AugmentedAssignments ==
  [t \in {"+=", "-=", "*=", "@=", "/=", "%=", "&=", "|=", "^=", "<<=", ">>=", "**=", "//="} |->
     CASE t = "+=" -> "+" [] t = "-=" -> "-" [] t = "*=" -> "*" [] t = "@=" -> "@"
       [] t = "/=" -> "/" [] t = "%=" -> "%" [] t = "&=" -> "&" [] t = "|=" -> "|"
       [] t = "^=" -> "^" [] t = "<<=" -> "<<" [] t = ">>=" -> ">>" [] t = "**=" -> "**"
       [] OTHER -> "//"]

AnnotatedRhs(s) == IF Peek(s) = "yield" THEN RaiseSyntaxError(s) ELSE StarExpressions(s)

\* An annotation after the target l; it is simple if the target is a bare name.
Annotation(l, parenthesized) ==
  LET a == Expression(Advance(ValidTarget(l)))
      v == AnnotatedRhs(Advance(a))
      simple == IF l.node.kind = "VARIABLE" /\ ~parenthesized THEN "simple" ELSE "complex"
  IN  IF Peek(a) = "=" THEN Result(v, Node("ANN_ASSIGN", <<>>, simple, <<l.node, a.node, v.node>>))
      ELSE Result(a, Node("ANN_ASSIGN", <<>>, simple, <<l.node, a.node>>))

Assignment(s) ==
  LET l == StarExpressions(s)
      t == ValidTarget(l)
      r == AnnotatedRhs(Advance(t))
  IN  CASE Peek(l) = ":" -> Annotation(l, Peek(s) = "(")
        [] Peek(l) = "=" -> Result(r, Node("ASSIGN", <<>>, "NOP", <<l.node, r.node>>))
        [] Peek(l) \in DOMAIN AugmentedAssignments ->
             Result(r, Node("ASSIGN", <<>>, AugmentedAssignments[Peek(l)], <<l.node, r.node>>))
        [] OTHER -> Result(l, Node("EXPRESSION_STATEMENT", <<>>, "", <<l.node>>))

\* A keyword that may be followed by an expression, unless one of stop follows
OptionalOperand(s, kind, stop, Operand(_)) ==
  LET a == Advance(s)
      e == Operand(a)
  IN  IF Peek(a) \in stop THEN Result(a, Node(kind, <<>>, "", <<>>))
      ELSE Result(e, Node(kind, <<>>, "", <<e.node>>))

ReturnStmt(s) == OptionalOperand(s, "RETURN", {"NEWLINE", ";"}, StarExpressions)
RaiseStmt(s) ==
  LET r == OptionalOperand(s, "RAISE", {"NEWLINE", ";", "DEDENT", "ENDMARKER"}, Expression)
  IN  IF Peek(r) = "from" THEN RaiseSyntaxError(r) ELSE r

RECURSIVE DottedName(_, _)
\* The names after a name, each after a dot
DottedName(s, names) ==
  LET n == ConsumeName(Advance(s))
  IN  IF Peek(s) # "." THEN Result(s, names) ELSE DottedName(n, Append(names, n.node))

\* An import alias: the name imported and, after as, the name bound
AliasAt(s, dotted) ==
  LET first == ConsumeName(s)
      name == IF dotted THEN DottedName(first, <<first.node>>) ELSE Result(first, <<first.node>>)
      as == ConsumeName(Advance(name))
      hasAs == Peek(name) = "as"
      bound == IF hasAs THEN as.node ELSE first.node
      explicit == IF dotted THEN hasAs ELSE bound # first.node
  IN  Result(IF hasAs THEN as ELSE name,
             Node("IMPORT_ALIAS", name.node, IF explicit THEN "as" ELSE "", <<Variable(bound)>>))

RECURSIVE Newlines(_)
Newlines(s) == IF Peek(s) = "NEWLINE" THEN Newlines(Advance(s)) ELSE s

RECURSIVE Aliases(_, _, _, _)
\* Aliases up to the end of an import statement, or to the closing parenthesis
Aliases(s, nodes, dotted, parenthesized) ==
  LET a == AliasAt(s, dotted)
      ch == Append(nodes, a.node)
      next == IF parenthesized THEN Newlines(Advance(a)) ELSE Advance(a)
      end == IF parenthesized THEN {")"} ELSE {"NEWLINE", ";"}
  IN  IF Peek(a) # "," THEN Result(a, ch)
      ELSE IF Peek(next) \in end THEN Result(next, ch)
      ELSE Aliases(next, ch, dotted, parenthesized)

RECURSIVE Dots(_)
Dots(s) == IF Peek(s) = "." THEN Dots(Advance(s)) ELSE s

FromImport(s) ==
  LET dots == Dots(Advance(s))
      level == dots.pos - s.pos - 1
      first == ConsumeName(dots)
      module == IF Peek(dots) = "import" /\ level > 0 THEN Result(dots, <<>>)
                ELSE DottedName(first, <<first.node>>)
      import == Consume(module, "import")
      parenthesized == Peek(import) = "("
      names == Aliases(Match(import, "("), <<>>, FALSE, parenthesized)
      From(t, ch) == Result(t, Node("IMPORT_FROM", module.node, level, ch))
  IN  IF Peek(import) = "*" THEN From(Advance(import), <<Node("IMPORT_STAR", <<>>, "", <<>>)>>)
      ELSE From(IF parenthesized THEN Consume(Newlines(names), ")") ELSE names, names.node)

ImportStmt(s) ==
  LET names == Aliases(Advance(s), <<>>, TRUE, FALSE)
  IN  Result(names, Node("IMPORT", <<>>, "", names.node))

RECURSIVE DelTargets(_, _)
DelTargets(s, nodes) ==
  LET e == ValidTarget(StarExpressions(s))
      ch == Append(nodes, e.node)
      a == Advance(e)
  IN  IF Peek(e) # "," THEN Result(e, ch)
      ELSE IF Peek(a) \in {"NEWLINE", ";"} THEN Result(a, ch) ELSE DelTargets(a, ch)
DelStmt(s) == LET t == DelTargets(Advance(s), <<>>) IN Result(t, Node("DEL", <<>>, "", t.node))

AssertStmt(s) ==
  LET c == Expression(Advance(s))
      m == Expression(Advance(c))
  IN  IF Peek(c) = "," THEN Result(m, Node("ASSERT", <<>>, "", <<c.node, m.node>>))
      ELSE Result(c, Node("ASSERT", <<>>, "", <<c.node>>))

RECURSIVE GlobalNames(_, _)
GlobalNames(s, nodes) ==
  LET n == ConsumeName(s)
      ch == Append(nodes, Variable(n.node))
  IN  IF Peek(n) = "," THEN GlobalNames(Advance(n), ch) ELSE Result(n, ch)
GlobalStmt(s) == LET t == GlobalNames(Advance(s), <<>>) IN Result(t, Node("GLOBAL", <<>>, "", t.node))

SimpleStmt(s) ==
  LET k == Peek(s)
      Bare(kind) == Result(Advance(s), Node(kind, <<>>, "", <<>>))
  IN  CASE k = "return" -> ReturnStmt(s)
        [] k = "raise" -> RaiseStmt(s)
        [] k = "import" -> ImportStmt(s)
        [] k = "from" -> FromImport(s)
        [] k = "del" -> DelStmt(s)
        [] k = "assert" -> AssertStmt(s)
        [] k = "break" -> Bare("BREAK")
        [] k = "continue" -> Bare("CONTINUE")
        [] k = "pass" -> Bare("PASS")
        [] k = "global" -> GlobalStmt(s)
        [] k \in {"yield", "nonlocal"} -> RaiseSyntaxError(s)
        [] OTHER -> Assignment(s)

RECURSIVE SimpleStmtList(_, _)
SimpleStmtList(s, nodes) ==
  LET e == SimpleStmt(s)
      ch == Append(nodes, e.node)
  IN  IF Peek(e) = ";" THEN SimpleStmtList(Advance(e), ch) ELSE Result(e, ch)

SimpleStmts(s) ==
  LET list == SimpleStmtList(s, <<>>)
      end == Consume(list, "NEWLINE")
  IN  Result(end, IF Len(list.node) = 1 THEN list.node[1]
                  ELSE Node("SEQUENCE", <<>>, "", list.node))

-----------------------------------------------------------------------------
(* Compound statements                                                     *)

RECURSIVE Statement(_)

RECURSIVE StatementList(_, _)
StatementList(s, nodes) ==
  LET e == Statement(s)
      ch == Append(nodes, e.node)
  IN  IF Failed(e) \/ Peek(e) \in {"DEDENT", "ENDMARKER"} THEN Result(e, ch)
      ELSE StatementList(e, ch)
Statements(s) ==
  LET list == StatementList(s, <<>>) IN Result(list, Node("SEQUENCE", <<>>, "", list.node))

Block(s) ==
  LET body == Statements(Consume(Advance(s), "INDENT"))
  IN  IF Peek(s) = "NEWLINE" THEN Consume(body, "DEDENT") ELSE SimpleStmts(s)
ColonBlock(s) == Block(Consume(s, ":"))

\* A keyword, a colon and a block, if the keyword is next
OptionalBlock(s, keyword, nodes) ==
  LET b == ColonBlock(Advance(s))
  IN  IF Peek(s) = keyword THEN Result(b, Append(nodes, b.node)) ELSE Result(s, nodes)
\* The same with the block in a node of its own
OptionalPart(s, keyword, kind, nodes) ==
  LET b == ColonBlock(Advance(s))
  IN  IF Peek(s) = keyword THEN Result(b, Append(nodes, Node(kind, <<>>, "", <<b.node>>)))
      ELSE Result(s, nodes)

RECURSIVE Branches(_, _)
\* Conditions and blocks of an if statement; s is before the condition.
Branches(s, nodes) ==
  LET c == NamedExpression(s)
      b == ColonBlock(c)
      ch == nodes \o <<c.node, b.node>>
  IN  IF Peek(b) = "elif" THEN Branches(Advance(b), ch) ELSE OptionalBlock(b, "else", ch)
IfStmt(s) == LET b == Branches(Advance(s), <<>>) IN Result(b, Node("IF", <<>>, "", b.node))

WhileStmt(s) ==
  LET c == NamedExpression(Advance(s))
      b == ColonBlock(c)
      all == OptionalBlock(b, "else", <<c.node, b.node>>)
  IN  Result(all, Node("WHILE", <<>>, "", all.node))

\* A name, possibly the first of a tuple, or any expressions
ForTarget(s) ==
  LET name == Result(Advance(s), Variable(Text(s)))
      tuple == ExpressionsUntil(name, <<name.node>>, "in")
  IN  IF Peek(s) # "NAME" THEN StarExpressions(s)
      ELSE IF Peek(name) = "," THEN Result(tuple, Node("TUPLE", <<>>, "", tuple.node))
      ELSE name
ForStmt(s) ==
  LET t == ValidTarget(ForTarget(Advance(s)))
      i == NamedExpression(Consume(t, "in"))
      b == ColonBlock(i)
      all == OptionalBlock(b, "else", <<t.node, i.node, b.node>>)
  IN  Result(all, Node("FOR", <<>>, "", all.node))

RECURSIVE WithItems(_, _)
WithItems(s, nodes) ==
  LET e == NamedExpression(s)
      t == ValidTarget(Expression(Advance(e)))
      item == IF Peek(e) = "as" THEN Result(t, Node("WITH_ITEM", <<>>, "", <<e.node, t.node>>))
              ELSE Result(e, Node("WITH_ITEM", <<>>, "", <<e.node>>))
      ch == Append(nodes, item.node)
  IN  IF Peek(item) = "," THEN WithItems(Advance(item), ch) ELSE Result(item, ch)
WithStmt(s) ==
  LET items == WithItems(Advance(s), <<>>)
      b == ColonBlock(items)
  IN  Result(b, Node("WITH", <<>>, "", Append(items.node, b.node)))

\* One except clause; s is after the keyword.
Handler(s) ==
  LET e == Expression(s)
      name == ConsumeName(Advance(e))
      typed == Peek(s) # ":"
      named == typed /\ Peek(e) = "as"
      b == ColonBlock(IF named THEN name ELSE IF typed THEN e ELSE s)
      parts == IF named THEN <<e.node, Variable(name.node)>> ELSE IF typed THEN <<e.node>> ELSE <<>>
  IN  Result(b, Node("EXCEPT", <<>>, "", Append(parts, b.node)))

RECURSIVE Handlers(_, _)
\* A bare except clause must be the last one.
Handlers(s, nodes) ==
  LET h == Handler(Advance(s))
  IN  IF Peek(s) # "except" THEN Result(s, nodes)
      ELSE IF Len(nodes) > 1 /\ Len(Last(nodes).ch) = 1 THEN RaiseSyntaxError(s)
      ELSE Handlers(h, Append(nodes, h.node))

TryStmt(s) ==
  LET b == ColonBlock(Advance(s))
      handlers == Handlers(b, <<b.node>>)
      else == OptionalPart(handlers, "else", "ELSE", handlers.node)
      all == IF Peek(b) = "finally" THEN OptionalPart(b, "finally", "FINALLY", <<b.node>>)
             ELSE OptionalPart(else, "finally", "FINALLY", else.node)
  IN  IF ~Failed(b) /\ Peek(b) \notin {"finally", "except"} THEN RaiseSyntaxError(b)
      ELSE Result(all, Node("TRY", <<>>, "", all.node))

\* parse_named_parameter: an annotation is read and dropped.
NamedParameter(s, kind) ==
  LET name == ConsumeName(s)
      annotated == IF Peek(name) = ":" THEN Expression(Advance(name)) ELSE name
      default == Expression(Advance(annotated))
  IN  IF Peek(annotated) # "=" THEN Result(annotated, Node(kind, name.node, "", <<>>))
      ELSE IF kind # "PARAMETER" THEN RaiseSyntaxError(annotated)
      ELSE Result(default, Node(kind, name.node, "", <<default.node>>))

\* The parameters read so far: the groups, and what was seen of * and /
NoParameters == [posonly |-> <<>>, pos_or_kw |-> <<>>, vararg |-> <<>>, kwonly |-> <<>>,
                 kwarg |-> <<>>, slash |-> FALSE, star |-> FALSE, bareStar |-> FALSE]

\* A parameter p of its own
AddParameter(g, p) ==
  IF g.star THEN [g EXCEPT !.kwonly = Append(@, p), !.bareStar = FALSE]
  ELSE [g EXCEPT !.pos_or_kw = Append(@, p)]
\* seen_default
DefaultSeen(g) == \E i \in DOMAIN (g.posonly \o g.pos_or_kw) : (g.posonly \o g.pos_or_kw)[i].ch # <<>>

RECURSIVE ParameterGroups(_, _)
ParameterGroups(s, g) ==
  LET a == Advance(s)
      k == Peek(s)
      vararg == NamedParameter(a, "PARAMETER_VARARGS")
      kwarg == NamedParameter(a, "PARAMETER_KWARGS")
      p == NamedParameter(s, "PARAMETER")
      Go(t, h) == IF Peek(t) = "," THEN ParameterGroups(Advance(t), h) ELSE Result(t, h)
      slash == [g EXCEPT !.slash = TRUE, !.posonly = g.pos_or_kw, !.pos_or_kw = <<>>]
  IN  CASE Failed(s) -> s
        [] k = ")" -> IF g.bareStar THEN RaiseSyntaxError(s) ELSE Result(s, g)
        [] k = "/" ->
             IF g.slash \/ g.star \/ g.pos_or_kw = <<>> \/ Peek(a) \notin {",", ")"}
             THEN RaiseSyntaxError(a) ELSE Go(a, slash)
        [] k = "*" ->
             IF g.star \/ Peek(a) = ")" THEN RaiseSyntaxError(a)
             ELSE IF Peek(a) = "NAME"
             THEN Go(vararg, [g EXCEPT !.star = TRUE, !.vararg = <<vararg.node>>])
             ELSE Go(a, [g EXCEPT !.star = TRUE, !.bareStar = TRUE])
        [] k = "**" ->
             IF g.bareStar \/ (Peek(kwarg) = "," /\ Peek(Advance(kwarg)) # ")")
             THEN RaiseSyntaxError(a)
             ELSE Result(Match(kwarg, ","), [g EXCEPT !.kwarg = <<kwarg.node>>])
        [] OTHER ->
             IF ~Failed(p) /\ ~g.star /\ DefaultSeen(g) /\ p.node.ch = <<>>
             THEN RaiseSyntaxError(p) ELSE Go(p, AddParameter(g, p.node))

Signature(s) ==
  LET t == ParameterGroups(s, NoParameters)
      Group(ps) == Node("PARAMETER_SEQUENCE", <<>>, "", ps)
      g == t.node
  IN  IF Failed(t) THEN t
      ELSE Result(t, Node("PARAMETER_SIGNATURE", <<>>, "",
                          <<Group(g.posonly), Group(g.pos_or_kw), Group(g.vararg),
                            Group(g.kwonly), Group(g.kwarg)>>))

\* The return annotation is read and dropped.
FunctionDef(s) ==
  LET name == ConsumeName(Consume(s, "def"))
      params == Signature(Consume(name, "("))
      close == Consume(params, ")")
      b == ColonBlock(IF Peek(close) = "->" THEN Expression(Advance(close)) ELSE close)
  IN  Result(b, Node("FUNCTION_DEF", name.node, "", <<params.node, b.node>>))

ClassDef(s) ==
  LET name == ConsumeName(Advance(s))
      args == Args(Advance(name), <<>>)
      hasBases == Peek(name) = "("
      bases == IF hasBases THEN args.node ELSE Node("PARAMETER_SEQUENCE", <<>>, "", <<>>)
      b == ColonBlock(IF hasBases THEN Consume(args, ")") ELSE name)
  IN  Result(b, Node("CLASS_DEF", name.node, "", <<bases, b.node>>))

\* compound_statement and statement
Statement(s) ==
  LET k == Peek(s)
  IN  CASE k \in {"def", "@", "async"} -> FunctionDef(s)
        [] k = "if" -> IfStmt(s)
        [] k = "class" -> ClassDef(s)
        [] k = "with" -> WithStmt(s)
        [] k = "for" -> ForStmt(s)
        [] k = "try" -> TryStmt(s)
        [] k = "while" -> WhileStmt(s)
        [] OTHER -> SimpleStmts(s)

-----------------------------------------------------------------------------
(* Start rules                                                             *)

EndOfInput(s) == Consume(s, "ENDMARKER")

File(s) ==
  LET start == Newlines(s)
  IN  EndOfInput(IF Peek(start) = "ENDMARKER" THEN Result(start, Node("SEQUENCE", <<>>, "", <<>>))
                 ELSE Statements(start))

Interactive(s) ==
  LET start == Newlines(s)
      one == Statement(start)
      ch == IF Peek(start) = "ENDMARKER" THEN <<>> ELSE <<one.node>>
      end == EndOfInput(Newlines(IF Peek(start) = "ENDMARKER" THEN start ELSE one))
  IN  Result(end, Node("SEQUENCE", <<>>, "", ch))

Eval(s) == LET e == StarExpressions(s) IN Result(EndOfInput(Newlines(e)), e.node)

Parse(tokens, rule) ==
  LET s == StartAt(tokens)
  IN  CASE rule = "File" -> File(s)
        [] rule = "Interactive" -> Interactive(s)
        [] OTHER -> Eval(s)

-----------------------------------------------------------------------------
(***************************************************************************)
(* The read-eval-print loop (run_repl).  Lines are collected in            *)
(* source_buffer until they compile as one statement; a statement whose    *)
(* suite was opened on a line of its own waits for a blank line.  One turn *)
(* of the loop takes the loop's variables and a line to the variables      *)
(* after it.                                                               *)
(***************************************************************************)

\* ran: the statements compiled and run, in order; refused: how many times an
\* exception of the compiler was printed.
ReplStart ==
  [ source_buffer |-> <<>>,   \* the lines collected
    waiting |-> FALSE,        \* suite_waiting_for_blank_line
    indentation |-> 0,        \* continuation_indentation, in levels
    ran |-> <<>>,
    refused |-> 0 ]

IsBlankLine(line) == \A i \in DOMAIN line : line[i] \in {" ", "\t", "\f", "\r"}

\* compile_in_module: an IndentationError leaves the continuation info empty.
Compile(text, rule) ==
  LET z == Tokenize(text)
  IN  IF z.error THEN [StartAt(<<>>) EXCEPT !.error = TRUE] ELSE Parse(z.tokens, rule)

Reset(s) == [s EXCEPT !.source_buffer = <<>>, !.waiting = FALSE, !.indentation = 0]

Refuse(s) == [Reset(s) EXCEPT !.refused = @ + 1]

\* The text is a prefix of a statement; whether to wait for a blank line is
\* decided by the line that opens the suite.
AwaitMore(s, text, compiled) ==
  [s EXCEPT !.source_buffer = text,
            !.waiting = @ \/ compiled.level > s.indentation,
            !.indentation = compiled.level]

\* A line of a suite that compiles
Collect(s, text) == [s EXCEPT !.source_buffer = text]

RunStatement(s, compiled) == [Reset(s) EXCEPT !.ran = Append(@, compiled.node)]

ReadLine(s, line) ==
  LET text == s.source_buffer \o line \o <<"\n">>
      blank == IsBlankLine(line)
      compiled == Compile(text, "Interactive")
      more == compiled.incomplete /\ ~blank
  IN  IF s.source_buffer = <<>> /\ blank THEN s
      ELSE CASE Failed(compiled) /\ more -> AwaitMore(s, text, compiled)
             [] Failed(compiled) /\ ~more -> Refuse(s)
             [] ~Failed(compiled) /\ s.waiting /\ ~blank -> Collect(s, text)
             [] OTHER -> RunStatement(s, compiled)
=============================================================================
