----------------------------- MODULE SourceText -----------------------------
(***************************************************************************)
(* How a syntax tree is written down, by the rules of the Python language: *)
(* the reference for the tokenizer and the parser.  An operand gets        *)
(* parentheses only where its operator binds less tightly than the place   *)
(* it stands in; there are no blanks except between words.                 *)
(***************************************************************************)
EXTENDS Tokenizer, Ast

\* How tightly a node binds
Binding(n) ==
  CASE n.kind = "TUPLE" -> 0
    [] n.kind = "EXPRESSION_ASSIGN" -> 1
    [] n.kind = "SHORTCUTTING" -> IF n.op = "or" THEN 2 ELSE 3
    [] n.kind = "UNARY" /\ n.op = "not" -> 4
    [] n.kind = "COMPARISON" -> 5
    [] n.kind = "BINARY" /\ n.op # "SUBSCRIPT" ->
         CASE n.op = "|" -> 6 [] n.op = "^" -> 7 [] n.op = "&" -> 8 [] n.op \in {"<<", ">>"} -> 9
           [] n.op \in {"+", "-"} -> 10 [] n.op \in {"*", "/", "//", "%", "@"} -> 11
           [] OTHER -> 13
    [] n.kind = "UNARY" /\ n.op # "not" -> 12
    [] OTHER -> 14

\* Places: where a tuple may stand, where an assignment expression may, where
\* any other expression may, and where only a primary may
Tuples == 0
Conditions == 1
Elements == 2
Primaries == 14

\* The characters of an operator
Spelling2 == [op \in TwoCharacters |->
                CHOOSE s \in OneCharacter \X OneCharacter : s[1] \o s[2] = op]
Spelling3 == [op \in ThreeCharacters |->
                CHOOSE s \in OneCharacter \X OneCharacter \X OneCharacter : s[1] \o s[2] \o s[3] = op]
Chars(op) ==
  CASE op \in TwoCharacters -> Spelling2[op]
    [] op \in ThreeCharacters -> Spelling3[op]
    [] op = "is not" -> <<"is", " ", "not">>
    [] op = "not in" -> <<"not", " ", "in">>
    [] OTHER -> <<op>>

\* Two texts one after the other, apart if they would be one word
Beside(a, b) ==
  IF a # <<>> /\ b # <<>> /\ (IsWord(Last(a)) \/ Last(a) \in Quotes) /\ (IsWord(b[1]) \/ b[1] \in Quotes)
  THEN a \o <<" ">> \o b ELSE a \o b
Line(texts) == FoldLeft(Beside, <<>>, texts)
Commas(texts) ==
  FoldLeft(LAMBDA a, t : IF a = <<>> THEN t ELSE a \o <<",">> \o t, <<>>, texts)

\* Inside brackets a line may be broken: style.break is what follows an opening one.
Bracketed(open, text, close, style) == <<open>> \o style.break \o text \o <<close>>

RECURSIVE Written(_, _, _)
\* The text of n in a place for nodes that bind at least as tightly as min
Written(n, min, style) ==
  LET W(i, m) == Written(n.ch[i], m, style)
      All(m) == [i \in DOMAIN n.ch |-> W(i, m)]
      own ==
        CASE n.kind = "VARIABLE" -> n.name
          [] n.kind = "LITERAL" -> IF n.op \in {"STRING", "BYTES"} THEN style.string ELSE n.name
          [] n.kind = "ATTRIBUTE" -> Line(<<W(1, Primaries), <<".">>, n.name>>)
          [] n.kind = "CALL" -> Line(<<W(1, Primaries), Bracketed("(", W(2, Tuples), ")", style)>>)
          [] n.kind = "PARAMETER_SEQUENCE" -> Commas(All(Elements))
          [] n.kind = "POSITIONAL" -> W(1, Elements)
          [] n.kind = "KEYWORD" -> Line(<<n.name, <<"=">>, W(1, Elements)>>)
          [] n.kind = "BINARY" /\ n.op = "SUBSCRIPT" ->
               Line(<<W(1, Primaries), Bracketed("[", W(2, Elements), "]", style)>>)
          [] n.kind = "SLICE" -> Line(<<W(1, Elements), <<":">>, W(2, Elements)>>
                                      \o IF n.ch[3] = NoNode THEN <<>> ELSE <<<<":">>, W(3, Elements)>>)
          [] n.kind = "ABSENT" -> <<>>
          [] n.kind = "TUPLE" -> IF Len(n.ch) = 1 THEN W(1, Elements) \o <<",">> ELSE Commas(All(Elements))
          [] n.kind = "LIST" -> Bracketed("[", Commas(All(Elements)), "]", style)
          [] n.kind = "DICT" ->
               Bracketed("{", Commas([i \in 1 .. Len(n.ch) \div 2 |->
                                        Line(<<W(2 * i - 1, Elements), <<":">>, W(2 * i, Elements)>>)]), "}", style)
          [] n.kind = "UNARY" -> Line(<<<<n.op>>, W(1, Binding(n))>>)
          \* ** groups to the right, the other arithmetic operators to the left
          [] n.kind = "BINARY" /\ n.op # "SUBSCRIPT" ->
               Line(IF n.op = "**" THEN <<W(1, Primaries), Chars(n.op), W(2, 13)>>
                    ELSE <<W(1, Binding(n)), Chars(n.op), W(2, Binding(n) + 1)>>)
          [] n.kind = "SHORTCUTTING" -> Line(<<W(1, Binding(n) + 1), <<n.op>>, W(2, Binding(n))>>)
          [] n.kind = "COMPARISON" ->
               Line(<<W(1, 6)>> \o FlattenSeq([i \in 1 .. Len(n.ch) - 1 |->
                      <<Chars(n.ch[i + 1].op), Written(n.ch[i + 1].ch[1], 6, style)>>]))
          [] n.kind = "EXPRESSION_ASSIGN" -> Line(<<W(1, Primaries), Chars(":="), W(2, Elements)>>)
  IN  IF n # NoNode /\ (Binding(n) < min \/ (n.kind = "TUPLE" /\ n.ch = <<>>))
      THEN Bracketed("(", own, ")", style) ELSE own

-----------------------------------------------------------------------------
(* Statements.  style.unit is what one level of indentation is, and        *)
(* style.noise stands before every line: nothing, or lines that mean       *)
(* nothing.                                                                *)

ParameterText(p, stars, style) ==
  Line(<<stars, p.name>> \o IF p.ch = <<>> THEN <<>> ELSE <<<<"=">>, Written(p.ch[1], Elements, style)>>)
SignatureText(sig, style) ==
  LET Group(g, stars) == [i \in DOMAIN sig.ch[g].ch |-> ParameterText(sig.ch[g].ch[i], stars, style)]
      vararg == IF sig.ch[3].ch = <<>> /\ sig.ch[4].ch # <<>> THEN <<<<"*">>>> ELSE Group(3, <<"*">>)
  IN  Commas(Group(1, <<>>) \o (IF sig.ch[1].ch = <<>> THEN <<>> ELSE <<<<"/">>>>)
             \o Group(2, <<>>) \o vararg \o Group(4, <<>>) \o Group(5, Chars("**")))

AliasText(a, dotted) ==
  Line(<<FoldLeft(LAMBDA t, w : IF t = <<>> THEN w ELSE t \o <<".">> \o w, <<>>, a.name)>>
       \o IF a.op = "as" THEN <<<<"as">>, a.ch[1].name>> ELSE <<>>)

SimpleText(n, style) ==
  LET W(i, m) == Written(n.ch[i], m, style)
      Operand(word) == Line(<<<<word>>>> \o [i \in DOMAIN n.ch |-> W(i, Tuples)])
  IN  CASE n.kind = "EXPRESSION_STATEMENT" -> W(1, Tuples)
        [] n.kind = "ASSIGN" -> Line(<<W(1, Primaries), IF n.op = "NOP" THEN <<"=">> ELSE Chars(n.op \o "="),
                                       W(2, Tuples)>>)
        [] n.kind = "ANN_ASSIGN" ->
             Line(<<IF n.op = "complex" /\ n.ch[1].kind = "VARIABLE"
                    THEN Bracketed("(", W(1, Tuples), ")", style) ELSE W(1, Primaries), <<":">>, W(2, Elements)>>
                  \o IF Len(n.ch) = 3 THEN <<<<"=">>, W(3, Tuples)>> ELSE <<>>)
        [] n.kind = "RETURN" -> Operand("return")
        [] n.kind = "RAISE" -> Operand("raise")
        [] n.kind = "BREAK" -> <<"break">>
        [] n.kind = "CONTINUE" -> <<"continue">>
        [] n.kind = "PASS" -> <<"pass">>
        [] n.kind = "DEL" -> Operand("del")
        [] n.kind = "ASSERT" -> Line(<<<<"assert">>, Commas([i \in DOMAIN n.ch |-> W(i, Elements)])>>)
        [] n.kind = "GLOBAL" -> Line(<<<<"global">>, Commas([i \in DOMAIN n.ch |-> W(i, Elements)])>>)
        [] n.kind = "IMPORT" ->
             Line(<<<<"import">>, Commas([i \in DOMAIN n.ch |-> AliasText(n.ch[i], TRUE)])>>)
        [] n.kind = "IMPORT_FROM" ->
             Line(<<<<"from">>, [i \in 1 .. n.op |-> "."],
                    FoldLeft(LAMBDA t, w : IF t = <<>> THEN w ELSE t \o <<".">> \o w, <<>>, n.name),
                    <<"import">>,
                    IF n.ch[1].kind = "IMPORT_STAR" THEN <<"*">>
                    ELSE Bracketed("(", Commas([i \in DOMAIN n.ch |-> AliasText(n.ch[i], FALSE)]), ")",
                                   style)>>)

Simple == {"EXPRESSION_STATEMENT", "ASSIGN", "ANN_ASSIGN", "RETURN", "RAISE", "BREAK", "CONTINUE",
           "PASS", "DEL", "ASSERT", "GLOBAL", "IMPORT", "IMPORT_FROM"}
IsSimple(n) == n.kind \in Simple

Repeat(text, k) == FlattenSeq([i \in 1 .. k |-> text])
TextLine(text, depth, style) == style.noise \o Repeat(style.unit, depth) \o text \o <<"\n">>

RECURSIVE Statement1(_, _, _)
\* A suite: statements on lines of their own, or a simple one after the colon
Suite(header, body, depth, style) ==
  IF IsSimple(body) THEN TextLine(Line(header \o <<<<":">>, SimpleText(body, style)>>), depth, style)
  ELSE TextLine(Line(Append(header, <<":">>)), depth, style)
       \o FlattenSeq([i \in DOMAIN body.ch |-> Statement1(body.ch[i], depth + 1, style)])

\* The lines of a statement
Statement1(n, depth, style) ==
  LET W(i, m) == Written(n.ch[i], m, style)
      S(header, i) == Suite(header, n.ch[i], depth, style)
      Rest(from) == IF Len(n.ch) >= from THEN S(<<<<"else">>>>, from) ELSE <<>>
      Clause(c) ==
        CASE c.kind = "EXCEPT" ->
               Suite(<<<<"except">>>>
                     \o (IF Len(c.ch) > 1 THEN <<Written(c.ch[1], Elements, style)>> ELSE <<>>)
                     \o (IF Len(c.ch) > 2 THEN <<<<"as">>, c.ch[2].name>> ELSE <<>>),
                     Last(c.ch), depth, style)
          [] c.kind = "ELSE" -> Suite(<<<<"else">>>>, c.ch[1], depth, style)
          [] c.kind = "FINALLY" -> Suite(<<<<"finally">>>>, c.ch[1], depth, style)
  IN  CASE IsSimple(n) -> TextLine(SimpleText(n, style), depth, style)
        [] n.kind = "IF" ->
             FlattenSeq([i \in 1 .. Len(n.ch) \div 2 |->
                           S(<<IF i = 1 THEN <<"if">> ELSE <<"elif">>, W(2 * i - 1, Conditions)>>, 2 * i)])
             \o IF Len(n.ch) % 2 = 1 THEN S(<<<<"else">>>>, Len(n.ch)) ELSE <<>>
        [] n.kind = "WHILE" -> S(<<<<"while">>, W(1, Conditions)>>, 2) \o Rest(3)
        [] n.kind = "FOR" -> S(<<<<"for">>, W(1, Tuples), <<"in">>, W(2, Conditions)>>, 3) \o Rest(4)
        [] n.kind = "WITH" ->
             LET Item(w) == Line(<<Written(w.ch[1], Conditions, style)>>
                                 \o IF Len(w.ch) = 2 THEN <<<<"as">>, Written(w.ch[2], Elements, style)>>
                                    ELSE <<>>)
             IN  S(<<<<"with">>, Commas([i \in 1 .. Len(n.ch) - 1 |-> Item(n.ch[i])])>>, Len(n.ch))
        [] n.kind = "TRY" ->
             S(<<<<"try">>>>, 1) \o FlattenSeq([i \in 1 .. Len(n.ch) - 1 |-> Clause(n.ch[i + 1])])
        [] n.kind = "FUNCTION_DEF" ->
             S(<<<<"def">>, n.name, Bracketed("(", SignatureText(n.ch[1], style), ")", style)>>, 2)
        [] n.kind = "CLASS_DEF" ->
             S(<<<<"class">>, n.name>> \o
               (IF n.ch[1].ch = <<>> THEN <<>> ELSE <<Bracketed("(", W(1, Tuples), ")", style)>>), 2)

Program(nodes, style) == FlattenSeq([i \in DOMAIN nodes |-> Statement1(nodes[i], 0, style)])
=============================================================================
