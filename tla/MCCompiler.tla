----------------------------- MODULE MCCompiler -----------------------------
(***************************************************************************)
(* The compiler and the bytecode it makes, in parts.  A behaviour compiles *)
(* the statements of a function and runs them (StatementSemantics), runs   *)
(* the code of one statement with its expressions (ExpressionSemantics),   *)
(* makes calls at one call site (CallAdaptation), or hands one input to the *)
(* front end: a function body to the scope analysis, a text to the parser, *)
(* lines to the read-eval-print loop (MCFrontEnd).                         *)
(***************************************************************************)
EXTENDS StatementSemantics, CallAdaptation

RECURSIVE Escapes(_)
\* The jumps out of n: which, and whether they leave the body of a try with
\* handlers.
Escapes(n) ==
  CASE n.k \in {"return", "break", "continue"} -> {[k |-> n.k, guarded |-> FALSE]}
    [] n.k = "seq" -> UNION {Escapes(n.body[i]) : i \in DOMAIN n.body}
    [] n.k = "if" -> Escapes(n.then) \cup Escapes(n.orelse)
    [] n.k \in {"while", "for", "range"} ->
         {e \in Escapes(n.body) : e.k = "return"} \cup Escapes(n.orelse)
    [] n.k = "with" -> Escapes(n.body)
    [] n.k = "try" ->
         {[e EXCEPT !.guarded = @ \/ n.handlers # <<>>] : e \in Escapes(n.body)}
           \cup UNION {Escapes(n.handlers[i].body) : i \in DOMAIN n.handlers}
           \cup Escapes(n.orelse) \cup Escapes(n.final)
    [] OTHER -> {}

GuardedEscape(n) == \E e \in Escapes(n) : e.guarded

RECURSIVE LeavesCleanupFromHandledBody(_)
\* A jump leaves first the body of a try with handlers and then a part that has
\* a cleanup.
LeavesCleanupFromHandledBody(n) ==
  CASE n.k = "seq" ->
         \E i \in DOMAIN n.body : LeavesCleanupFromHandledBody(n.body[i])
    [] n.k = "if" -> \/ LeavesCleanupFromHandledBody(n.then)
                     \/ LeavesCleanupFromHandledBody(n.orelse)
    [] n.k \in {"while", "for", "range"} ->
         \/ LeavesCleanupFromHandledBody(n.body)
         \/ LeavesCleanupFromHandledBody(n.orelse)
    [] n.k = "with" -> GuardedEscape(n.body) \/ LeavesCleanupFromHandledBody(n.body)
    [] n.k = "try" ->
         \/ n.final # absent /\ GuardedEscape([n EXCEPT !.final = absent])
         \/ \E i \in DOMAIN n.handlers :
              LET h == n.handlers[i]
              IN  \/ h.named /\ GuardedEscape(h.body)
                  \/ LeavesCleanupFromHandledBody(h.body)
         \/ \E b \in {n.body, n.orelse, n.final} : LeavesCleanupFromHandledBody(b)
    [] OTHER -> FALSE

-----------------------------------------------------------------------------
\* The calls at nesting level d: one before the inner statement, one elsewhere.
Before(d, n) == seq(<<call(10 * d), n>>)
Elsewhere(d) == call(10 * d + 9)
Handling(named, n) == <<except("E1", named, n)>>

\* The ways to put n inside a compound statement.
Around(d, n) ==
  { try(Before(d, n), Handling(FALSE, Elsewhere(d)), absent, absent),
    try(call(10 * d), Handling(TRUE, n), absent, Elsewhere(d)),
    try(call(10 * d), <<except("", FALSE, n)>>, absent, absent),
    try(call(10 * d), Handling(FALSE, Elsewhere(d)), n, absent),
    try(Before(d, n), <<>>, absent, Elsewhere(d)),
    try(Before(d, return), <<>>, absent, n),
    try(call(10 * d), <<>>, absent, n),
    with(10 * d, Before(d, n)),
    while(10 * d, n, Elsewhere(d)),
    for(10 * d, n, absent) }

Nest2(simple) == UNION {Around(2, n) : n \in UNION {Around(1, m) : m \in simple}}
Nest3(simple) == UNION {Around(3, n) : n \in Nest2(simple)}

\* Statements with several clauses or several ways out.
Larger ==
  { forRange(10, if(1, break, if(2, continue, call(3))), call(4)),
    forRange(10, try(assert(1), Handling(FALSE, continue), call(2), call(3)), absent),
    try(call(1), <<except("E1", FALSE, reraise), except("E2", TRUE, raise("E1"))>>,
        call(2), if(3, return, absent)),
    with(10, with(20, if(1, return, raise("E2")))),
    while(10, try(if(1, break, if(2, continue, return)), <<>>, absent,
                  try(call(3), Handling(FALSE, pass), absent, absent)), call(4)) }

\* Except clauses whose class is the result of a call, which may enter the function.
MatchedByCall(body, named, n) ==
  try(body, <<exceptCall(18, named, n), except("E2", FALSE, Elsewhere(1))>>, absent,
      absent)

Matching ==
  LET clauses == {MatchedByCall(body, named, n) :
                    body \in {call(10), raise("E1")}, named \in BOOLEAN,
                    n \in {pass, return, reraise, break, raise("E1")}}
  IN  clauses \cup UNION {Around(2, n) : n \in clauses}

Wellformed(n) == \A e \in Escapes(n) : e.k = "return"

AllPrograms ==
  {n \in Nest2({pass, return, raise("E1"), raise("E2"), reraise, break, continue})
            \cup Nest3({return, break}) \cup Larger \cup Matching :
     Wellformed(n)}

OrderedPrograms == {n \in AllPrograms : ~LeavesCleanupFromHandledBody(n)}

-----------------------------------------------------------------------------
(* The parts                                                               *)

CONSTANTS
  Slot(_), FirstTemporary, LiteralValue(_), LastRegister, FirstEvent,
  NameHash(_), InitialNameTableSize

VARIABLES
  part,
  statement, lowered, at, accumulator, registers, events, ended,
  case,         \* an input of the front end
  evaluated     \* has it been handed to it?

E == INSTANCE ExpressionSemantics
F == INSTANCE MCFrontEnd

SlotOf(name) == E!SlotOf(name)
NumberOf(name) == E!NumberOf(name)
NameHashOf(name) == F!MCNameHash(name)

(* The definitions called: up to six parameters, the same names in either  *)
(* order, defaults wherever the grammar allows them, each sharing the site *)
(* with one of two others; constructors from the same family with a first  *)
(* parameter, replaced by one another.                                     *)

NamesFromEnd(order) == {Names(SubSeq(order, k, Len(order))) : k \in 1 .. Len(order) + 1}

Family(posonlys, poskws, kwonlys, flags) ==
  UNION {{[posonly |-> po, poskw |-> pk, kwonly |-> ko, varargs |-> v,
           kwargs |-> k, defaults |-> ds \cup dk] :
            ds \in NamesFromEnd(po \o pk), dk \in SUBSET Names(ko)} :
           po \in posonlys, pk \in poskws, ko \in kwonlys, v \in flags, k \in flags}

ManyDefinitions ==
  Family({<<>>, <<"p">>}, {<<>>, <<"a">>, <<"a", "b">>}, {<<>>, <<"k">>}, BOOLEAN)
    \cup Family({<<>>}, {<<"b", "a">>}, {<<"k", "a2">>, <<>>}, {FALSE})

PlainClass == [kind |-> "none", def |-> NoDefinition]

SomeConstructors ==
  {PlainClass, [kind |-> "both", def |-> NoDefinition],
   [kind |-> "init", def |-> [NoDefinition EXCEPT !.varargs = TRUE]]}
  \cup {[kind |-> "new", def |-> d] :
          d \in Family({<<"self">>}, {<<"a">>}, {<<>>}, {FALSE})}
  \cup {[kind |-> "init", def |-> d] :
          d \in Family({<<>>}, {<<"self", "b", "a">>}, {<<"k">>}, {FALSE})}

Companions ==
  {[NoDefinition EXCEPT !.poskw = <<"b", "a">>],
   [NoDefinition EXCEPT !.varargs = TRUE, !.kwonly = <<"k", "a">>,
                        !.kwargs = TRUE, !.defaults = {"k"}]}

CallPrograms ==
  {[functions |-> {d, other}, constructors |-> {PlainClass}] :
     d \in ManyDefinitions, other \in Companions}
  \cup {[functions |-> {}, constructors |-> {c, other}] :
          c \in SomeConstructors, other \in SomeConstructors}

CallSites ==
  {[method |-> m, n |-> n, names |-> <<>>] : m \in BOOLEAN, n \in 0 .. 3}
  \cup {[method |-> m, n |-> n, names |-> names] : m \in BOOLEAN, n \in 0 .. 2,
          names \in {<<"a">>, <<"k">>, <<"b", "a">>, <<"a", "z">>, <<"p">>}}

\* These definitions and sites are what the proofs are about.
ASSUME CallsWellFormed == WellFormedCalls(CallPrograms, CallSites)

expressionVars == <<statement, lowered, at, accumulator, registers, events, ended>>

compilerVars == <<part, vars, expressionVars, callVars, case, evaluated>>

IdleStatements == InitOf({pass})
IdleExpressions ==
  /\ statement = <<>> /\ lowered = <<>> /\ at = 1 /\ accumulator = 0
  /\ registers = <<>> /\ events = <<>> /\ ended = "idle"
IdleCalls ==
  CallInit({[functions |-> {}, constructors |-> {PlainClass}]},
           {[method |-> FALSE, n |-> 0, names |-> <<>>]})
IdleFrontEnd == case = <<>> /\ evaluated = TRUE

StatementsPart ==
  part = "statements" /\ Init /\ IdleExpressions /\ IdleCalls /\ IdleFrontEnd
ExpressionsPart ==
  part = "expressions" /\ E!ExpressionsInit /\ IdleStatements /\ IdleCalls /\ IdleFrontEnd
CallsPart ==
  part = "calls" /\ CallInit(CallPrograms, CallSites) /\ IdleStatements /\ IdleExpressions /\ IdleFrontEnd
FrontEndPart ==
  /\ \/ part = "scopes" /\ F!ScopeCase(case)
     \/ part = "text" /\ F!TextCase(case)
     \/ part = "repl" /\ F!ReplCase(case)
  /\ evaluated = FALSE
  /\ IdleStatements /\ IdleExpressions /\ IdleCalls

CompilerInit == StatementsPart \/ ExpressionsPart \/ CallsPart \/ FrontEndPart

StepStatements ==
  /\ part = "statements" /\ (Next \/ Idle)
  /\ UNCHANGED <<part, expressionVars, callVars, case, evaluated>>
StepExpression ==
  /\ part = "expressions" /\ E!ExecutionNext
  /\ UNCHANGED <<part, vars, callVars, case, evaluated>>
StepCalls ==
  /\ part = "calls" /\ CallNext
  /\ UNCHANGED <<part, vars, expressionVars, case, evaluated>>
EvaluateInput ==
  /\ ~evaluated
  /\ evaluated' = TRUE
  /\ UNCHANGED <<part, vars, expressionVars, callVars, case>>

\* A statement has been run, or an input has been evaluated.
Finished ==
  /\ \/ part = "expressions" /\ ended # "no"
     \/ part \in {"scopes", "text", "repl"} /\ evaluated
  /\ UNCHANGED compilerVars

CompilerNext == StepStatements \/ StepExpression \/ StepCalls \/ EvaluateInput \/ Finished
CompilerSpec == CompilerInit /\ [][CompilerNext]_compilerVars

-----------------------------------------------------------------------------
(***************************************************************************)
(* A statement with expressions asks the objects involved for what Python  *)
(* says, in its order and with its values, raises where Python would, and  *)
(* leaves in the locals and in the accumulator what Python would.  In      *)
(* particular no operand is lost in a register that something evaluated    *)
(* after it, or a frame of something called after it, has taken.  About    *)
(* codegen_node and the registers it reserves, except that chains of three *)
(* comparisons that begin with a local are left to ChainsKeepLocals.       *)
(***************************************************************************)
ExpressionsEvaluate == part = "expressions" => E!EvaluatedButForChains

(***************************************************************************)
(* The same of the chains that begin with a local: the review of the code  *)
(* generator found comparison chains to have no difference from Python.    *)
(* The third operand of such a chain is stored in the register of the      *)
(* local.                                                                  *)
(***************************************************************************)
ChainsKeepLocals == part = "expressions" => E!Evaluated

\* A load that is compiled without a check finds its local bound on every path
\* that leads to it, and a local that some path reads or deletes before it is
\* bound is cleared on entry (codegen_scope_analysis.cpp).
PresenceSound == [][(part = "scopes" /\ ~evaluated) => F!PresenceIsSoundFor(case)]_evaluated

\* A name is local, global or an error as the declarations of the body say,
\* and distinct locals have distinct slots (codegen_scope_analysis.cpp, scope.cpp).
NamesResolved == [][(part = "scopes" /\ ~evaluated) => F!NamesAreResolvedFor(case)]_evaluated

\* A program that was written down by the rules of the language, with any
\* indentation, comments, empty lines and line breaks inside brackets, is
\* read back as the same tree: operators bind and group as they should, and
\* literals have the characters they spell (tokenizer.cpp, parser.cpp).  Not
\* among these programs are forms that the parser refuses although Python has
\* them (x ** -y, del a, b, a semicolon at the end of a line, a line continued
\* by a backslash), and statements that share a line.
ParsesAsWritten == [][(part = "text" /\ ~evaluated) => F!IsParsedAsWritten(case)]_evaluated

\* A statement typed at the prompt, on one line or on several, with comments
\* between its lines and with strings and brackets that go on, is run once it is
\* complete, is run as it was typed, and leaves nothing behind (repl.cpp).
\* Except for the input that the prompt is known not to take
\* (RefusedAtPrompt): a try statement, a blank line inside brackets or a
\* string, and a suite on the line of an if, while or for that goes on.
TypedStatementsRun ==
  [][(part = "repl" /\ ~evaluated) => F!RunsAsTyped(case) \/ F!RefusedAtPrompt(case)]_evaluated
=============================================================================
