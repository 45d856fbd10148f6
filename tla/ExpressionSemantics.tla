------------------------ MODULE ExpressionSemantics -------------------------
(***************************************************************************)
(* What Python says a statement does: the operands of an expression are    *)
(* evaluated once each, from left to right (the value of an assignment     *)
(* before its target), a comparison chain and a boolean operator stop as   *)
(* soon as they know, and nothing but a binding changes a local.  Method   *)
(* lookup is part of the call, as in this implementation.                  *)
(*                                                                         *)
(* An evaluation is a record: the locals, the events asked for, the last   *)
(* value, and how it ended.  The outcome of the k-th event is the one that *)
(* the k-th event of the execution had.                                    *)
(***************************************************************************)
EXTENDS ExpressionExecution

Start(locals) == [env |-> locals, asked |-> <<>>, val |-> None, status |-> "done"]
Good(s) == s.status = "done"
Value(s, v) == [s EXCEPT !.val = v]
Fail(s) == [s EXCEPT !.status = "raised"]

OutcomeOf(k) == IF k <= Len(events) THEN events[k].outcome ELSE "missing"
Ask(s, op, name, args) ==
  LET k == Len(s.asked) + 1
  IN  [s EXCEPT !.asked = Append(@, [op |-> op, name |-> name, args |-> args, outcome |-> OutcomeOf(k)]),
                !.val = FirstEvent + k,
                !.status = IF OutcomeOf(k) = "raised" THEN "raised"
                           ELSE IF OutcomeOf(k) = "missing" THEN "missing" ELSE "done"]

Bind(s, v) ==
  IF v.op = "Global" THEN Ask(s, "StaGlobal", v.name, <<s.val>>)
  ELSE [s EXCEPT !.env[Slot(v.name)] = s.val]
Lookup(s, v) ==
  IF v.op = "Global" THEN Ask(s, "LdaGlobal", v.name, <<>>)
  ELSE IF s.env[Slot(v.name)] = NotPresent THEN Fail(s) ELSE Value(s, s.env[Slot(v.name)])
Unbind(s, v) ==
  IF v.op = "Global" THEN Ask(s, "DelGlobal", v.name, <<>>)
  ELSE IF s.env[Slot(v.name)] = NotPresent THEN Fail(s)
  ELSE [s EXCEPT !.env[Slot(v.name)] = NotPresent]

RECURSIVE Eval(_, _)
RECURSIVE EvalAll(_, _, _)
\* The values of the expressions, in order
EvalAll(s, es, vals) ==
  IF ~Good(s) \/ es = <<>> THEN [s |-> s, vals |-> vals]
  ELSE LET a == Eval(s, Head(es)) IN EvalAll(a, Tail(es), Append(vals, a.val))

\* Event op on the values of the expressions
AskOn(s, op, name, es) ==
  LET r == EvalAll(s, es, <<>>) IN IF Good(r.s) THEN Ask(r.s, op, name, r.vals) ELSE r.s

\* The truth of the value, or not
Truth(s, positive) ==
  CASE ~Good(s) -> s
    [] Good(s) /\ Truthiness(s.val) = "neither" -> Fail(s)
    [] OTHER -> Value(s, Boolean((Truthiness(s.val) = "true") = positive))

Compare(s, op, a, b) ==
  CASE op \in {"is", "is not"} -> Value(s, Boolean((op = "is") = (a = b)))
    [] op \in Membership -> Truth(Ask(s, "Operator", <<"in">>, <<a, b>>), op = "in")
    [] OTHER -> Ask(s, "Operator", <<op>>, <<a, b>>)

RECURSIVE EvalChain(_, _, _, _)
\* left is the operand on the left of fragment i.
EvalChain(s, ch, i, left) ==
  LET right == Eval(s, ch[i].ch[1])
      c == Compare(right, ch[i].op, left, right.val)
  IN  CASE ~Good(right) -> right
        [] Good(right) /\ (~Good(c) \/ i = Len(ch)) -> c
        [] OTHER -> CASE Truthiness(c.val) = "neither" -> Fail(c)
                      [] Truthiness(c.val) = "false" -> c
                      [] Truthiness(c.val) = "true" -> EvalChain(c, ch, i + 1, right.val)

PartOf(e) == IF Absent(e) THEN Node("LITERAL", <<>>, "None", <<>>) ELSE e

\* Assign s.val to a target
Store(s, target) ==
  LET v == s.val
      r == EvalAll(s, target.ch, <<>>)
  IN  CASE target.kind = "VARIABLE" -> Bind(s, target)
        [] target.kind # "VARIABLE" /\ ~Good(r.s) -> r.s
        [] target.kind = "ATTRIBUTE" /\ Good(r.s) ->
             Ask(r.s, "StoreAttr", target.name, <<r.vals[1], v>>)
        [] target.kind = "BINARY" /\ Good(r.s) ->
             Ask(r.s, "SetItem", <<>>, <<r.vals[1], r.vals[2], v>>)

\* target op= e evaluates the parts of the target once.
AugmentedStore(s, op, target, e) ==
  LET parts == IF target.kind = "VARIABLE" THEN [s |-> s, vals |-> <<>>]
               ELSE EvalAll(s, target.ch, <<>>)
      old == CASE target.kind = "VARIABLE" -> Lookup(s, target)
               [] target.kind = "ATTRIBUTE" -> Ask(parts.s, "LoadAttr", target.name, parts.vals)
               [] target.kind = "BINARY" -> Ask(parts.s, "GetItem", <<>>, parts.vals)
      right == Eval(old, e)
      new == Ask(right, "Operator", <<op>>, <<old.val, right.val>>)
  IN  CASE ~Good(parts.s) -> parts.s
        [] Good(parts.s) /\ ~Good(old) -> old
        [] Good(parts.s) /\ Good(old) /\ ~Good(right) -> right
        [] Good(parts.s) /\ Good(old) /\ Good(right) /\ ~Good(new) -> new
        [] OTHER -> CASE target.kind = "VARIABLE" -> Bind(new, target)
                      [] target.kind = "ATTRIBUTE" ->
                           Ask(new, "StoreAttr", target.name, <<parts.vals[1], new.val>>)
                      [] target.kind = "BINARY" ->
                           Ask(new, "SetItem", <<>>, parts.vals \o <<new.val>>)

Then(s, F(_)) == IF Good(s) THEN F(s) ELSE s

RECURSIVE EvalImports(_, _, _)
EvalImports(s, aliases, i) ==
  LET a == aliases[i]
      RECURSIVE Reach(_, _)
      Reach(u, j) == IF ~Good(u) \/ j > Len(a.name) THEN u
                     ELSE Reach(Ask(u, "ImportFrom", <<a.name[j]>>, <<u.val>>), j + 1)
      module == Ask(s, "ImportName", a.name, <<None>>)
      bound == IF a.op = "as" THEN Reach(module, 2) ELSE module
  IN  IF ~Good(s) \/ i > Len(aliases) THEN s
      ELSE EvalImports(Then(bound, LAMBDA u : Store(u, a.ch[1])), aliases, i + 1)

RECURSIVE EvalFrom(_, _, _, _)
EvalFrom(s, aliases, i, module) ==
  IF ~Good(s) \/ i > Len(aliases) THEN s
  ELSE EvalFrom(Then(Ask(s, "ImportFrom", aliases[i].name, <<module>>),
                     LAMBDA u : Store(u, aliases[i].ch[1])), aliases, i + 1, module)

\* Defaults of the positional parameters, then of the keyword-only ones
EvalDefinition(s, d) ==
  LET params == Parameters(d.ch[1])
      with == {i \in DOMAIN params : HasDefault(params[i])}
      defaults == [i \in 1 .. (IF with = {} THEN 0 ELSE Max(with) - Min(with) + 1) |->
                     PartOf(IF HasDefault(params[Min(with) + i - 1])
                            THEN params[Min(with) + i - 1].ch[1] ELSE NoNode)]
      tuple == AskOn(s, "CreateTuple", <<>>, defaults)
      made == IF with = {} THEN Ask(s, "CreateFunction", d.name, <<>>)
              ELSE Then(tuple, LAMBDA u : Ask(u, "CreateFunction", d.name, <<u.val>>))
  IN  Then(made, LAMBDA u : Bind(u, d))

ObjectClass == 0
EvalClass(s, d) ==
  LET bases == [i \in DOMAIN d.ch[1].ch |-> d.ch[1].ch[i].ch[1]]
      tuple == IF bases = <<>> THEN Ask(s, "CreateTuple", <<>>, <<ObjectClass>>)
               ELSE AskOn(s, "CreateTuple", <<>>, bases)
  IN  Then(Then(tuple, LAMBDA u : Ask(u, "CreateClass", d.name, <<u.val>>)), LAMBDA u : Bind(u, d))

\* Positional arguments before the values of the keywords; all in source order
EvalCall(s, e) ==
  LET args == Arguments(e)
      callee == IF e.ch[1].kind = "ATTRIBUTE" THEN e.ch[1].ch[1] ELSE e.ch[1]
      name == IF e.ch[1].kind = "ATTRIBUTE" THEN e.ch[1].name ELSE <<>>
      r == EvalAll(s, <<callee>> \o [i \in DOMAIN args |-> args[i].ch[1]], <<>>)
      Of(kind) == LET is == SelectSeq([i \in DOMAIN args |-> i], LAMBDA i : IsKeyword(args[i]) = kind)
                  IN  [j \in DOMAIN is |-> r.vals[is[j] + 1]]
  IN  IF ~Good(r.s) THEN r.s
      ELSE Ask(r.s, IF e.ch[1].kind = "ATTRIBUTE" THEN "CallMethod" ELSE "Call",
               name \o KeywordNames(args), <<r.vals[1]>> \o Of(FALSE) \o Of(TRUE))

\* The helpers of the trusted mode are calls of builtins.
EvalTrusted(s, e) ==
  LET values == [i \in DOMAIN Arguments(e) |-> Arguments(e)[i].ch[1]]
      name == e.ch[1].name
  IN  CASE name = <<"__clover_call_special__">> ->
             AskOn(s, "CallSpecialMethod", values[2].name, <<values[1]>> \o SubSeq(values, 5, Len(values)))
        [] name = <<"__clover_ternary_pow__">> -> AskOn(s, "TernaryPow", <<>>, values)
        [] name \in {<<"__clover_globals__">>, <<"__clover_locals__">>} ->
             Ask(s, "RuntimeIntrinsic", name, <<>>)
        [] OTHER -> AskOn(s, "Helper", name, values)

Eval(s, e) ==
  CASE e.kind = "VARIABLE" -> Lookup(s, e)
    [] e.kind = "LITERAL" ->
         Value(s, CASE e.op = "None" -> None [] e.op = "True" -> True [] e.op = "False" -> False
                    [] OTHER -> LiteralValue(e.name))
    [] e.kind = "BINARY" /\ e.op = "SUBSCRIPT" -> AskOn(s, "GetItem", <<>>, e.ch)
    [] e.kind = "BINARY" /\ e.op \in Membership ->
         LET r == EvalAll(s, e.ch, <<>>)
         IN  Then(r.s, LAMBDA u : Compare(u, e.op, r.vals[1], r.vals[2]))
    [] e.kind = "BINARY" /\ e.op \notin Membership \union {"SUBSCRIPT"} ->
         AskOn(s, "Operator", <<e.op>>, e.ch)
    [] e.kind = "UNARY" /\ e.op = "not" -> Truth(Eval(s, e.ch[1]), FALSE)
    [] e.kind = "UNARY" /\ e.op # "not" -> AskOn(s, "Operator", <<e.op>>, e.ch)
    [] e.kind = "COMPARISON" -> Then(Eval(s, e.ch[1]), LAMBDA u : EvalChain(u, e.ch, 2, u.val))
    [] e.kind = "SHORTCUTTING" ->
         LET l == Eval(s, e.ch[1])
         IN  CASE ~Good(l) -> l
               [] Good(l) /\ Truthiness(l.val) = "neither" -> Fail(l)
               [] Good(l) /\ Truthiness(l.val) = (IF e.op = "and" THEN "false" ELSE "true") -> l
               [] OTHER -> Eval(l, e.ch[2])
    [] e.kind = "CALL" -> IF IsTrusted(e) THEN EvalTrusted(s, e) ELSE EvalCall(s, e)
    [] e.kind = "ATTRIBUTE" -> AskOn(s, "LoadAttr", e.name, e.ch)
    [] e.kind = "SLICE" -> AskOn(s, "CreateSlice", <<>>, [i \in 1 .. 3 |-> PartOf(e.ch[i])])
    [] e.kind = "TUPLE" -> AskOn(s, "CreateTuple", <<>>, e.ch)
    [] e.kind = "LIST" -> AskOn(s, "CreateList", <<>>, e.ch)
    [] e.kind = "DICT" -> AskOn(s, "CreateDict", <<>>, e.ch)
    [] e.kind \in {"ASSIGN", "EXPRESSION_ASSIGN"} ->
         IF e.op # "NOP" THEN AugmentedStore(s, e.op, e.ch[1], e.ch[2])
         ELSE Then(Eval(s, e.ch[2]), LAMBDA u : Store(u, e.ch[1]))
    [] e.kind = "ANN_ASSIGN" ->
         CASE Len(e.ch) = 3 -> Then(Eval(s, e.ch[3]), LAMBDA u : Store(u, e.ch[1]))
           [] Len(e.ch) = 2 /\ e.op = "simple" -> s
           [] Len(e.ch) = 2 /\ e.op # "simple" /\ e.ch[1].kind # "VARIABLE" ->
                EvalAll(s, e.ch[1].ch, <<>>).s
           [] OTHER -> Eval(s, e.ch[1])
    [] e.kind = "DEL" ->
         CASE e.ch[1].kind = "ATTRIBUTE" -> AskOn(s, "DelAttr", e.ch[1].name, e.ch[1].ch)
           [] e.ch[1].kind = "BINARY" -> AskOn(s, "DelItem", <<>>, e.ch[1].ch)
           [] OTHER -> Unbind(s, e.ch[1])
    [] e.kind = "IMPORT" -> EvalImports(s, e.ch, 1)
    [] e.kind = "IMPORT_FROM" ->
         Then(Ask(s, "ImportName", e.name, <<ObjectClass>>),
              LAMBDA u : IF e.ch[1].kind = "IMPORT_STAR" THEN Ask(u, "RuntimeIntrinsic", <<"ImportStar">>, <<>>)
                         ELSE EvalFrom(u, e.ch, 1, u.val))
    [] e.kind = "FUNCTION_DEF" -> EvalDefinition(s, e)
    [] e.kind = "CLASS_DEF" -> EvalClass(s, e)

-----------------------------------------------------------------------------
Bindings(e) == e.kind \in {"ASSIGN", "ANN_ASSIGN", "DEL", "IMPORT", "IMPORT_FROM", "FUNCTION_DEF", "CLASS_DEF"}

\* The execution of the statement is what Python says it is.
AsPython(locals) ==
  LET r == Eval(Start(locals), statement)
  IN  /\ r.status = ended
      /\ r.asked = events
      /\ \A x \in DOMAIN locals : registers[x] = r.env[x]
      /\ (ended = "done" /\ ~Bindings(statement)) => accumulator = r.val

\* Chains of three comparisons or more that begin with a local
RECURSIVE LongChainOnLocal(_)
LongChainOnLocal(e) ==
  \/ e.kind = "COMPARISON" /\ Len(e.ch) > 3 /\ InRegister(e.ch[1])
  \/ \E i \in DOMAIN e.ch : LongChainOnLocal(e.ch[i])
-----------------------------------------------------------------------------
(* Statements over two locals that are always bound, x and z, one that may *)
(* not be, y, and a global g: every operator on every two leaves, every    *)
(* form nested once in every operand of the others, every target, and the  *)
(* calls with nested calls and keywords among their arguments.             *)
SlotOf(name) == CASE name = <<"x">> -> 0 [] name = <<"y">> -> 1 [] name = <<"z">> -> 2
NumberOf(name) == CASE name = <<"3">> -> 3 [] name = <<"64">> -> 64 [] name = <<"200">> -> 200
                    [] OTHER -> 0
Local(r) == CASE r = 0 -> 501 [] r = 2 -> 502
LocalsOf(y) == [r \in 0 .. 2 |-> IF r = 1 THEN y ELSE Local(r)]
MaybeUnbound == {503, NotPresent}

Variable(name, access) == Node("VARIABLE", <<name>>, access, <<>>)
Number(name) == Node("LITERAL", <<name>>, "NUMBER", <<>>)
X == Variable("x", "Present")
Y == Variable("y", "Checked")
Z == Variable("z", "Present")
G == Variable("g", "Global")
Constant(op) == Node("LITERAL", <<>>, op, <<>>)
Nowhere == Node("ABSENT", <<>>, "", <<>>)

BinaryOf(op, l, r) == Node("BINARY", <<>>, op, <<l, r>>)
AttributeOf(e) == Node("ATTRIBUTE", <<"a">>, "", <<e>>)
Positional(e) == Node("POSITIONAL", <<>>, "", <<e>>)
KeywordOf(e) == Node("KEYWORD", <<"k">>, "", <<e>>)
CallOf(f, args) == Node("CALL", <<>>, "", <<f, Node("ARGUMENTS", <<>>, "", args)>>)
TrustedOf(name, values) ==
  Node("CALL", <<>>, "trusted",
       <<Variable(name, "Global"), Node("ARGUMENTS", <<>>, "", [i \in DOMAIN values |-> Positional(values[i])])>>)
Chain(first, rest) == Node("COMPARISON", <<>>, "", <<first>> \o rest)
Fragment(op, e) == Node("FRAGMENT", <<>>, op, <<e>>)

Leaves == {X, Y, G, Number("3")}
AllLeaves == Leaves \union {Number("64"), Number("200"), Constant("None"), Constant("True"), Constant("False")}

\* Every form with e in one of its operands
Around(e) ==
  {BinaryOf("+", X, e), BinaryOf("+", e, Y), BinaryOf("in", e, X), BinaryOf("SUBSCRIPT", e, G),
   BinaryOf("SUBSCRIPT", G, e), AttributeOf(e), CallOf(e, <<Positional(X)>>), CallOf(G, <<Positional(e), Positional(Y)>>),
   CallOf(X, <<KeywordOf(Y), Positional(e)>>), CallOf(X, <<Positional(Z), KeywordOf(e)>>),
   CallOf(AttributeOf(e), <<>>), CallOf(AttributeOf(X), <<KeywordOf(X), Positional(e)>>),
   Node("UNARY", <<>>, "not", <<e>>), Node("UNARY", <<>>, "-", <<e>>),
   Node("SHORTCUTTING", <<>>, "and", <<e, G>>), Node("SHORTCUTTING", <<>>, "or", <<X, e>>),
   Chain(e, <<Fragment("<", X)>>), Chain(X, <<Fragment("not in", e), Fragment("is", X)>>),
   Chain(e, <<Fragment("<", G), Fragment("is not", Y)>>),
   Node("TUPLE", <<>>, "", <<e, X>>), Node("LIST", <<>>, "", <<>>), Node("LIST", <<>>, "", <<Y, e>>),
   Node("DICT", <<>>, "", <<X, e>>),
   Node("SLICE", <<>>, "", <<e, Nowhere, Nowhere>>), Node("SLICE", <<>>, "", <<Nowhere, e, Nowhere>>),
   Node("SLICE", <<>>, "", <<X, Nowhere, e>>), Node("SLICE", <<>>, "", <<e, G, X>>)}

Targets == {X, Y, G, AttributeOf(X), AttributeOf(G), BinaryOf("SUBSCRIPT", X, Y), BinaryOf("SUBSCRIPT", G, X),
            BinaryOf("SUBSCRIPT", AttributeOf(Y), G)}
Values == {X, Y, G, Number("3"), BinaryOf("+", X, G), CallOf(X, <<Positional(G)>>)}
Parameter(ch) == Node("PARAMETER", <<"p">>, "", ch)
Group(ch) == Node("PARAMETERS", <<>>, "", ch)
Signature(positional, varargs, keyword) ==
  Node("SIGNATURE", <<>>, "", <<Group(<<>>), Group(positional), Group(varargs), Group(keyword), Group(<<>>)>>)
Star1 == Node("VARARGS", <<"args">>, "", <<>>)
Alias(name, op, target) == Node("ALIAS", name, op, <<target>>)

ExpressionCase(s) == \E y \in MaybeUnbound : ExecutionInit(s, LocalsOf(y))

ExpressionsInit ==
  \/ \E l, r \in AllLeaves, op \in {"+", "<<", "in"} : ExpressionCase(BinaryOf(op, l, r))
  \/ \E l \in Leaves : \E e \in Around(l) : ExpressionCase(e)
  \/ \E l \in {X, G} : \E e \in Around(l) : \E f \in Around(e) : ExpressionCase(f)
  \* chains of three comparisons and more
  \/ \E a, b, c \in {X, G}, d \in {Y, Z} :
       ExpressionCase(Chain(a, <<Fragment("<", b), Fragment("<", c), Fragment("==", d)>>))
  \/ \E tgt \in Targets, e \in Values, op \in {"NOP", "+"} : ExpressionCase(Node("ASSIGN", <<>>, op, <<tgt, e>>))
  \/ \E tgt \in {X, Y, G}, e \in Values : ExpressionCase(Node("EXPRESSION_ASSIGN", <<>>, "NOP", <<tgt, e>>))
  \/ \E tgt \in Targets, simple \in {"", "simple"} :
       \/ ExpressionCase(Node("ANN_ASSIGN", <<>>, simple, <<tgt, X>>))
       \/ ExpressionCase(Node("ANN_ASSIGN", <<>>, simple, <<tgt, X, G>>))
  \/ \E tgt \in Targets : ExpressionCase(Node("DEL", <<>>, "", <<tgt>>))
  \/ \E tgt \in {X, G}, op \in {"", "as"} :
       ExpressionCase(Node("IMPORT", <<>>, "", <<Alias(<<"m", "n">>, op, tgt), Alias(<<"k">>, "", Y)>>))
  \/ \E tgt \in {X, G} : \E as \in {<<Alias(<<"m">>, "", tgt)>>, <<Alias(<<"m">>, "", tgt), Alias(<<"n">>, "", Y)>>,
                                    <<Node("IMPORT_STAR", <<>>, "", <<>>)>>} :
       ExpressionCase(Node("IMPORT_FROM", <<"k">>, "", as))
  \/ \E e \in Values, access \in {"Present", "Global"} :
       \E sig \in {Signature(<<>>, <<>>, <<>>), Signature(<<Parameter(<<>>), Parameter(<<e>>)>>, <<>>, <<>>),
                   Signature(<<Parameter(<<e>>)>>, <<Star1>>, <<Parameter(<<>>), Parameter(<<X>>)>>)} :
         ExpressionCase(Node("FUNCTION_DEF", <<"x">>, access, <<sig>>))
  \/ \E e \in Values, access \in {"Present", "Global"} :
       \E bases \in {<<>>, <<Positional(e)>>, <<Positional(G), Positional(e)>>} :
         ExpressionCase(Node("CLASS_DEF", <<"x">>, access, <<Node("BASES", <<>>, "", bases)>>))
  \/ \E e \in Values :
       \E c \in {TrustedOf("__clover_call_special__", <<e, Constant("s"), G, Constant("e")>>),
                 TrustedOf("__clover_call_special__", <<X, Constant("s"), G, Constant("e"), e, Y>>),
                 TrustedOf("__clover_call_special__", <<X, e, G, Constant("e")>>),
                 TrustedOf("__clover_ternary_pow__", <<e, G, X>>), TrustedOf("__clover_ternary_pow__", <<X, e>>),
                 TrustedOf("__clover_locals__", <<>>), TrustedOf("__clover_sqrt__", <<e>>)} :
         ExpressionCase(c) \/ ExpressionCase(CallOf(X, <<Positional(Z), Positional(c)>>))

\* The locals at the start are known, but for y.
StartsAsPython == \E y \in MaybeUnbound : AsPython(LocalsOf(y))

\* A statement that has ended did what Python would; chains of three comparisons
\* that begin with a local may be left out.
Evaluated == ended \in {"done", "raised"} => StartsAsPython
EvaluatedButForChains == ~LongChainOnLocal(statement) => Evaluated
=============================================================================
