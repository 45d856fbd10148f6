----------------------------- MODULE MCFrontEnd -----------------------------
(***************************************************************************)
(* Inputs for the front end of the compiler and what is asked of its       *)
(* output: function bodies for the scope analysis, the text of small       *)
(* syntax trees for the tokenizer and the parser, and statements typed     *)
(* line by line for the read-eval-print loop.                              *)
(***************************************************************************)
EXTENDS NameSemantics, Parser

Source == INSTANCE SourceText

-----------------------------------------------------------------------------
(* Function bodies: every small statement, alone and inside every compound *)
(* statement, two levels deep, followed by a read; and bodies that declare *)
(* globals.                                                                *)

Var(x) == Node("VARIABLE", x, "", <<>>)
Lit == Node("LITERAL", "", "", <<>>)
Fails == Node("OPERATION", "", "", <<Lit>>)
Seq2(ns) == Node("SEQUENCE", "", "", ns)
Stmt(e) == Node("EXPRESSION_STATEMENT", "", "", <<e>>)
Let(x, op) == Node("ASSIGN", "", op, <<Var(x), Fails>>)
Del(x) == Node("DEL", "", "", <<Var(x)>>)
Bare(kind) == Node(kind, "", "", <<>>)
Cond == Node("EXPRESSION_ASSIGN", "", "NOP", <<Var("y"), Lit>>)
If(b, e) == Node("IF", "", "", <<Var("y"), b, e>>)
While(b, e) == Node("WHILE", "", "", <<Cond, b, e>>)
For(x, b, e) == Node("FOR", "", "", <<Var(x), Fails, b, e>>)
With(b) == Node("WITH", "", "", <<Node("WITH_ITEM", "", "", <<Fails, Var("y")>>), b>>)
Except(b) == Node("EXCEPT", "", "", <<Lit, Var("y"), b>>)
Else(b) == Node("ELSE", "", "", <<b>>)
Final(b) == Node("FINALLY", "", "", <<b>>)
Try(parts) == Node("TRY", "", "", parts)

Load == Stmt(Var("x"))
Small == {Load, Let("x", "NOP"), Let("x", "ADD"), Del("x"), Bare("BREAK"), Bare("CONTINUE"),
          Bare("RETURN"), Stmt(Fails)}
Others == {Let("x", "NOP"), Del("x")}

\* The ways to put s inside a statement; t is some other statement.
Around(s, t) ==
  << If(s, t), While(s, t), While(Seq2(<<s, t>>), Bare("PASS")), For("x", s, t), For("y", s, t),
     With(s), Try(<<s, Except(t)>>), Try(<<t, Except(s)>>), Try(<<s, Except(t), Else(s)>>),
     Try(<<t, Except(Bare("PASS")), Else(s)>>), Try(<<s, Final(t)>>), Try(<<t, Final(s)>>),
     Try(<<t, Except(s), Final(Bare("PASS"))>>) >>
Ways == 1 .. 13

IsJump(n) == n.kind \in {"BREAK", "CONTINUE"}
RECURSIVE JumpsOut(_)
JumpsOut(n) == IsJump(n) \/ /\ n.kind \notin {"WHILE", "FOR"}
                            /\ \E i \in DOMAIN n.ch : JumpsOut(n.ch[i])
InLoop(n) == IF JumpsOut(n) THEN While(n, Bare("PASS")) ELSE n

Function(params, n) == [mode |-> "Function", params |-> params, body |-> n]
FlowCase(params, n) == Function(params, Seq2(<<InLoop(n), Load>>))
Parameters == {<<>>, <<"x">>}

\* Declarations of x and uses of it, in every order.
Global == Node("GLOBAL", "", "", <<Var("x")>>)
Annotated(valued) == Node("ANN_ASSIGN", "", "simple",
                          IF valued THEN <<Var("x"), Lit, Lit>> ELSE <<Var("x"), Lit>>)
Def(name, default) ==
  Node("FUNCTION_DEF", name, "",
       <<Node("PARAMETER_SIGNATURE", "", "",
              <<Node("PARAMETER_SEQUENCE", "", "",
                     <<Node("PARAMETER", "p", "", IF default THEN <<Var("x")>> ELSE <<>>)>>)>>),
         Seq2(<<Load>>)>>)
Alias(name) == Node("IMPORT_ALIAS", "", "", <<Var(name)>>)
From(ns) == Node("IMPORT_FROM", "", "", <<Lit>> \o ns)
Mentions == {Global, Load, Let("x", "NOP"), Let("x", "ADD"), Del("x"), Annotated(TRUE),
             Annotated(FALSE), Def("x", FALSE), Def("y", TRUE), From(<<Alias("x")>>),
             From(<<Bare("IMPORT_STAR")>>), Node("IMPORT", "", "", <<Alias("x")>>),
             For("x", Global, Load), Try(<<Global, Except(Load)>>),
             Node("ASSIGN", "", "NOP", <<Node("ATTRIBUTE", "m", "", <<Var("x")>>), Var("y")>>)}
GlobalCases == {Function(params, Seq2(<<s, t, u>>)) :
                  s \in Mentions, t \in Mentions, u \in {Global, Load}, params \in Parameters}

\* Many names, so that the name table collides and grows.
Many == << "a", "b", "c", "d", "e", "f", "g", "h", "i", "j", "k", "l", "m", "n", "o" >>
NameCases == {Function(<<>>, Seq2([i \in 1 .. k |-> Let(Many[i], "NOP")]
                                   \o [i \in 1 .. k |-> Stmt(Var(Many[i]))])) : k \in 10 .. 15}
MCNameHash(x) == IF \E i \in DOMAIN Many : Many[i] = x
                 THEN (5 * SelectInSeq(Many, LAMBDA y : y = x)) \div 2 ELSE 7

\* case is one of the cases.
ScopeCase(case) ==
  \/ case \in GlobalCases \cup NameCases
  \/ \E params \in Parameters, k \in Ways, s \in Small, t \in Small :
       case = FlowCase(params, Around(s, t)[k])
  \/ \E params \in Parameters, j \in Ways, k \in Ways, s \in Small, t \in Others, u \in Others :
       case = FlowCase(params, Around(Seq2(<<Around(s, t)[k], Load>>), u)[j])

-----------------------------------------------------------------------------
(* Syntax trees                                                            *)

X == Variable(<<"x">>)
Y == Variable(<<"y">>)
One == Literal("NUMBER", <<"1">>)
List2(kind, ns) == Node(kind, <<>>, "", ns)
Argument(e) == List2("POSITIONAL", <<e>>)
Call(f, args) == List2("CALL", <<f, List2("PARAMETER_SEQUENCE", args)>>)

BinaryOps == UNION Range(BinaryLevels) \cup {"**"}
CompareOps == {"==", "<", ">=", "in", "not in", "is", "is not"}
PrefixOps == {"~", "not"}
OtherOps == {"neg", "and", "or", "attribute", "call", "keyword", "subscript", "slice", "step", "tuple",
             "pair", "list", "dict", "chain"}
AllOps == BinaryOps \cup CompareOps \cup PrefixOps \cup OtherOps
FewOps == {"or", "not", "<", "|", "-", "*", "~", "**", "call", "pair", "subscript"}

Negated(e) == Node("UNARY", <<>>, "-", <<e>>)

\* The operation op on e and, if it has two operands, on f
Combine(op, e, f) ==
  CASE op \in BinaryOps -> Binary(op, e, f)
    [] op = "neg" -> Negated(e)
    [] op \in CompareOps ->
         List2("COMPARISON", <<e, Node("COMPARISON_FRAGMENT", <<>>, op, <<f>>)>>)
    [] op = "chain" ->
         List2("COMPARISON", <<e, Node("COMPARISON_FRAGMENT", <<>>, "<", <<f>>),
                               Node("COMPARISON_FRAGMENT", <<>>, "!=", <<X>>)>>)
    [] op \in PrefixOps -> Node("UNARY", <<>>, op, <<e>>)
    [] op \in {"and", "or"} -> Node("SHORTCUTTING", <<>>, op, <<e, f>>)
    [] op = "attribute" -> Node("ATTRIBUTE", <<"m">>, "", <<e>>)
    [] op = "call" -> Call(e, <<Argument(f)>>)
    [] op = "keyword" -> Call(X, <<Argument(e), Node("KEYWORD", <<"y">>, "", <<f>>)>>)
    [] op = "subscript" -> Binary("SUBSCRIPT", e, f)
    [] op = "slice" -> Binary("SUBSCRIPT", X, List2("SLICE", <<NoNode, e, NoNode>>))
    [] op = "step" -> Binary("SUBSCRIPT", X, List2("SLICE", <<e, NoNode, f>>))
    [] op = "tuple" -> List2("TUPLE", <<e>>)
    [] op = "pair" -> List2("TUPLE", <<e, f>>)
    [] op = "list" -> List2("LIST", <<e, f>>)
    [] op = "dict" -> List2("DICT", <<e, f>>)

\* The first operand of ** and the second are power expressions or primaries
\* here; the second one of Python may also be negated.
Accepted(op, f) == ~(op = "**" /\ f.kind = "UNARY")

-----------------------------------------------------------------------------
(* Ways to write a program down                                            *)

Plain == [unit |-> <<" ", " ">>, noise |-> <<>>, break |-> <<>>, string |-> <<>>]
Styles ==
  { [Plain EXCEPT !.unit = u, !.noise = n, !.break = b] :
      u \in {<<" ">>, <<"\t">>},
      n \in {<<>>, <<" ", "\f">>, <<" ", " ", " ", "#", "x", "(", "\n">>, <<" ", "\n", "\n">>},
      b \in {<<>>, <<"\n">>, <<"#", "'", "\n", " ">>} }

\* Statements by number; s is put inside where there is room.
Stmt2(e) == List2("EXPRESSION_STATEMENT", <<e>>)
Suite2(ns) == List2("SEQUENCE", ns)
Assign(op, t, e) == Node("ASSIGN", <<>>, op, <<t, e>>)
Bare2(kind) == List2(kind, <<>>)
Walrus == Node("EXPRESSION_ASSIGN", <<>>, "NOP", <<X, One>>)
Param(kind, name, default) == Node(kind, <<name>>, "", default)
Sig(po, pk, va, ko, kw) ==
  List2("PARAMETER_SIGNATURE", [i \in 1 .. 5 |-> List2("PARAMETER_SEQUENCE", <<po, pk, va, ko, kw>>[i])])
P1 == Param("PARAMETER", "x", <<>>)
P2 == Param("PARAMETER", "y", <<One>>)
Signatures ==
  << Sig(<<>>, <<>>, <<>>, <<>>, <<>>), Sig(<<P1>>, <<P2>>, <<>>, <<P1>>, <<>>),
     Sig(<<P1>>, <<>>, <<Param("PARAMETER_VARARGS", "y", <<>>)>>, <<P2, P1>>,
         <<Param("PARAMETER_KWARGS", "x", <<>>)>>),
     Sig(<<>>, <<P1, P2>>, <<>>, <<>>, <<Param("PARAMETER_KWARGS", "x", <<>>)>>) >>
ImportName(names, as) ==
  Node("IMPORT_ALIAS", names, IF as = <<>> THEN "" ELSE "as",
       <<Variable(IF as = <<>> THEN names[1] ELSE as)>>)

SimpleStatement(k) ==
  CASE k = 1 -> Assign("NOP", X, List2("TUPLE", <<One, X>>))
    [] k = 2 -> Assign("<<", Binary("SUBSCRIPT", X, One), Y)
    [] k = 3 -> Assign("**", Node("ATTRIBUTE", <<"m">>, "", <<X>>), Y)
    [] k = 4 -> Node("ANN_ASSIGN", <<>>, "simple", <<X, Y, One>>)
    [] k = 5 -> Node("ANN_ASSIGN", <<>>, "complex", <<X, Y>>)
    [] k = 6 -> List2("RETURN", <<List2("TUPLE", <<X>>)>>)
    [] k = 7 -> Bare2("RETURN")
    [] k = 8 -> List2("RAISE", <<Call(X, <<>>)>>)
    [] k = 9 -> Bare2("RAISE")
    [] k = 10 -> List2("DEL", <<Node("ATTRIBUTE", <<"m">>, "", <<X>>)>>)
    [] k = 11 -> List2("ASSERT", <<X, One>>)
    [] k = 12 -> List2("GLOBAL", <<X, Y>>)
    [] k = 13 -> List2("IMPORT", <<ImportName(<<<<"x">>, <<"y">>>>, <<>>),
                                   ImportName(<<<<"x">>>>, <<"y">>)>>)
    [] k = 14 -> Node("IMPORT_FROM", <<<<"x">>, <<"y">>>>, 0, <<ImportName(<<<<"x">>>>, <<>>),
                                                            ImportName(<<<<"x">>>>, <<"y">>)>>)
    [] k = 15 -> Node("IMPORT_FROM", <<>>, 2, <<Bare2("IMPORT_STAR")>>)
    [] k = 16 -> Bare2("BREAK")
    [] k = 17 -> Bare2("CONTINUE")
    [] k = 18 -> Stmt2(Call(X, <<Argument(List2("LIST", <<One, Y>>))>>))
    [] k = 19 -> Stmt2(List2("DICT", <<One, Y>>))
    [] OTHER -> Bare2("PASS")

\* s and t are suites.
CompoundStatement(k, s, t) ==
  CASE k = 1 -> List2("IF", <<Walrus, s>>)
    [] k = 2 -> List2("IF", <<Call(X, <<Argument(One)>>), s, Y, t, s>>)
    [] k = 3 -> List2("WHILE", <<Walrus, s, t>>)
    [] k = 4 -> List2("FOR", <<X, List2("LIST", <<One>>), s>>)
    [] k = 5 -> List2("FOR", <<X, Y, s, t>>)
    [] k = 6 -> List2("WITH", <<List2("WITH_ITEM", <<Call(X, <<>>), Y>>), List2("WITH_ITEM", <<X>>), s>>)
    [] k = 7 -> List2("TRY", <<s, List2("EXCEPT", <<X, Y, t>>), List2("EXCEPT", <<s>>)>>)
    [] k = 8 -> List2("TRY", <<s, List2("EXCEPT", <<X, t>>), List2("ELSE", <<s>>), List2("FINALLY", <<t>>)>>)
    [] k = 9 -> List2("TRY", <<s, List2("FINALLY", <<t>>)>>)
    [] k = 10 -> Node("CLASS_DEF", <<"x">>, "", <<List2("PARAMETER_SEQUENCE", <<>>), s>>)
    [] k = 11 -> Node("CLASS_DEF", <<"x">>, "", <<List2("PARAMETER_SEQUENCE", <<Argument(Y)>>), s>>)
    [] OTHER -> Node("FUNCTION_DEF", <<"f">>, "", <<Signatures[k - 11], s>>)
Compounds == 1 .. 15
IsTry(k) == k \in 7 .. 9

-----------------------------------------------------------------------------
(* String literals: the codes of two characters and how each is written    *)

CharSpellings(code) ==
  CASE code = 48 -> {<<"0">>, <<"\\", "6", "0">>, <<"\\", "0", "6", "0">>, <<"\\", "x", "3", "0">>}
    [] code = 1 -> {<<"\\", "1">>, <<"\\", "0", "0", "1">>, <<"\\", "u", "0", "0", "0", "1">>}
    [] code = 39 -> {<<"\\", "'">>, <<"\\", "x", "2", "7">>, <<"\\", "4", "7">>}
    [] code = 92 -> {<<"\\", "\\">>, <<"\\", "x", "5", "c">>}
    [] code = 110 -> {<<"n">>, <<"\\", "x", "6", "e">>, <<"\\", "\n", "n">>}
    [] OTHER -> {<<"\\", "n">>, <<"\\", "1", "2">>}
ShortOctal(s) == s[1] = "\\" /\ s[2] \in OctalDigits /\ Len(s) < 4
Spelled(p, s, t) == ~(ShortOctal(s) /\ t[1] \in OctalDigits) /\ ("b" = p => "u" \notin Range(s \o t))

QuotedBy(p, q, text) == (IF p = "" THEN <<>> ELSE <<p>>) \o q \o text \o q
HasLineEnd(text) == "\n" \in Range(text)

-----------------------------------------------------------------------------

\* A program: its statements and the style in which it is written
TextCase(c) ==
  \/ \E op \in AllOps, p \in AllOps, side \in 1 .. 2 :
       LET e == Combine(p, X, One)
           n == IF side = 1 THEN Combine(op, e, Y) ELSE Combine(op, Y, e)
       IN  Accepted(op, IF side = 1 THEN Y ELSE e) /\ c = [nodes |-> <<Stmt2(n)>>, style |-> Plain]
  \/ \E op \in FewOps, p \in FewOps, q \in FewOps, side \in 1 .. 4 :
       LET e == IF side % 2 = 1 THEN Combine(p, Combine(q, X, One), Negated(X))
                ELSE Combine(p, Negated(X), Combine(q, X, One))
           n == IF side <= 2 THEN Combine(op, e, Y) ELSE Combine(op, Y, e)
       IN  /\ Accepted(p, IF side % 2 = 1 THEN Negated(X) ELSE Combine(q, X, One))
           /\ Accepted(op, IF side <= 2 THEN Y ELSE e)
           /\ c = [nodes |-> <<Stmt2(n)>>, style |-> Plain]
  \/ \E k \in 1 .. 20, style \in Styles :
       c = [nodes |-> <<SimpleStatement(k), SimpleStatement(k)>>, style |-> style]
  \/ \E k \in Compounds, j \in Compounds, style \in Styles :
       LET inner == CompoundStatement(j, Suite2(<<Stmt2(X)>>), Bare2("PASS"))
       IN  c = [nodes |-> <<CompoundStatement(k, Suite2(<<inner>>), Suite2(<<Stmt2(Y), inner>>)), Stmt2(X)>>,
                style |-> style]
  \/ \E a \in {48, 1, 39, 92, 110, 10}, b \in {48, 39, 110, 10}, p \in {"", "u", "b"},
        q \in {<<"'">>, <<"\"">>, <<"'", "'", "'">>} :
       \E s \in CharSpellings(a), t \in CharSpellings(b) :
         /\ Spelled(p, s, t)
         /\ c = [nodes |-> <<Stmt2(Literal(IF p = "b" THEN "BYTES" ELSE "STRING", <<a, b>>))>>,
                 style |-> [Plain EXCEPT !.string = QuotedBy(p, q, s \o t)]]
         /\ HasLineEnd(s \o t) => Len(q) = 3

\* How lines are typed at the prompt: broken inside brackets in several ways, the
\* last of which leaves a line blank, and with lines of comment between them
PromptStyles ==
  { [Plain EXCEPT !.break = b, !.noise = n] :
      b \in {<<>>, <<"\n">>, <<"#", "'", "\n", " ">>, <<"\n", "\n">>},
      n \in {<<>>, <<" ", " ", " ", "#", "x", "(", "\n">>} }

\* Statements typed one after the other, each followed by an empty line
ReplCase(c) ==
  \/ \E k \in 1 .. 20, j \in {5, 18, 20}, style \in PromptStyles :
       c = [nodes |-> <<SimpleStatement(k), SimpleStatement(j)>>, style |-> style]
  \/ \E k \in Compounds, s, t \in {Suite2(<<Stmt2(X)>>), Bare2("PASS")}, style \in PromptStyles :
       c = [nodes |-> <<CompoundStatement(k, s, t), Stmt2(X)>>, style |-> style]
  \/ \E k, j \in Compounds, s \in {Suite2(<<Stmt2(X)>>), Bare2("PASS")}, b \in {<<>>, <<"\n">>} :
       LET inner == CompoundStatement(j, s, Suite2(<<Stmt2(Call(X, <<Argument(Y)>>))>>))
       IN  c = [nodes |-> <<CompoundStatement(k, Suite2(<<inner>>), Suite2(<<Stmt2(Y), inner>>)),
                            Stmt2(X)>>,
                style |-> [Plain EXCEPT !.break = b]]
  \/ \E t \in { [text |-> <<"\n">>, chars |-> <<10>>], [text |-> <<"\n", "\n">>, chars |-> <<10, 10>>],
               [text |-> <<"n", "\\", "\n", "n">>, chars |-> <<110, 110>>] } :
       c = [nodes |-> <<Stmt2(Literal("STRING", t.chars)), Stmt2(X)>>,
            style |-> [Plain EXCEPT !.string = QuotedBy("", <<"'", "'", "'">>, t.text)]]

RECURSIVE LinesOf(_)
LinesOf(text) ==
  IF text = <<>> THEN <<>>
  ELSE LET n == SelectInSeq(text, LAMBDA c : c = "\n")
       IN  <<SubSeq(text, 1, n - 1)>> \o LinesOf(SubSeq(text, n + 1, Len(text)))
LinesTyped(n, style) == LinesOf(Source!Program(<<n>>, style))
Typed(nodes, style) == FlattenSeq([i \in DOMAIN nodes |-> Append(LinesTyped(nodes[i], style), <<>>)])

RECURSIVE ContainsTry(_)
ContainsTry(n) == n.kind = "TRY" \/ \E i \in DOMAIN n.ch : ContainsTry(n.ch[i])

\* A statement that goes on after a first suite on the line of its header
GoesOnAfterLine(n) ==
  LET suite == IF n.kind = "FOR" THEN 3 ELSE 2
  IN  n.kind \in {"IF", "WHILE", "FOR"} /\ Len(n.ch) > suite /\ Source!IsSimple(n.ch[suite])

HasBlankLine(n, style) == <<>> \in Range(LinesTyped(n, style))

-----------------------------------------------------------------------------
(* What is asked                                                           *)

PresenceIsSoundFor(c) ==
  \A r \in {Analyze(c.mode, c.params, c.body)} : PresenceIsSound(r.a, c.body)

NamesAreResolvedFor(c) ==
  \A r \in {Analyze(c.mode, c.params, c.body)} : NamesAreResolved(r, c.params, c.body)

IsParsedAsWritten(c) ==
  \A r \in {Compile(Source!Program(c.nodes, c.style), "File")} :
    ~Failed(r) /\ r.node = Node("SEQUENCE", <<>>, "", c.nodes) /\ r.indent = 0

\* Lines of comment alone are programs without a statement.
RunsAsTyped(c) ==
  LET s == FoldLeft(ReadLine, ReplStart, Typed(c.nodes, c.style))
  IN  [s EXCEPT !.ran = SelectSeq(@, LAMBDA n : n.ch # <<>>)] =
        [ReplStart EXCEPT !.ran = [i \in DOMAIN c.nodes |-> Node("SEQUENCE", <<>>, "", <<c.nodes[i]>>)]]

\* Input that Python's prompt takes and this one does not: a try statement is an
\* error, and not an incomplete one, until its first handler is typed
\* (parser.cpp:2433); a blank line ends what is typed also inside brackets or a
\* string (repl.cpp:165); an if, while or for whose first suite is on its line
\* compiles and is run before its elif or else can be typed (repl.cpp:190).
RefusedAtPrompt(c) ==
  \E i \in DOMAIN c.nodes :
    \/ ContainsTry(c.nodes[i])
    \/ HasBlankLine(c.nodes[i], c.style)
    \/ GoesOnAfterLine(c.nodes[i])
=============================================================================
