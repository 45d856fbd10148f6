-------------------------- MODULE StatementLowering --------------------------
(***************************************************************************)
(* How the code generator lowers the statements that transfer control: try *)
(* with its handlers, else and finally, with, the loops, break, continue,  *)
(* return, raise and assert.  It emits instructions and appends entries to *)
(* the exception table while it walks the syntax tree; the bodies of       *)
(* finally clauses are generated once per way out of the protected part.   *)
(*                                                                         *)
(* A C++ method that calls codegen_node for its children is a sequence of  *)
(* tasks here (Lower): `todo' holds the tasks that remain and one step     *)
(* takes the first.  A label stands for a JumpTarget and also names the    *)
(* ExceptionTableRangeBuilder whose handler it is; labels are numbered in  *)
(* the order in which they are made, so an inner range has a higher number *)
(* than the ranges around it.  The program counter counts instructions.    *)
(***************************************************************************)
EXTENDS Naturals, Sequences, FiniteSets, SequencesExt

CONSTANT Programs   \* the function bodies to compile (statements, below)

VARIABLES
  program,    \* the body being compiled
  todo,       \* what the generator has still to do, the next task first
  code,       \* the instructions emitted
  table,      \* exception_table: start, end and handler label of each entry
  target,     \* the pc of each resolved label
  starts,     \* start_pc of every range that is open and not suspended
  cleanups,   \* active_cleanups, the innermost last
  loops,      \* loop_targets, the innermost last
  caught,     \* caught_exception_regs, the innermost last
  temps,      \* the temporary registers in use
  labels,     \* the number of labels made
  innermost   \* for each instruction the innermost range open around it, or 0

output == <<code, table, target, innermost>>
builder == <<todo, starts, cleanups, loops, caught, temps, labels>>
loweringVars == <<program, output, builder>>

-----------------------------------------------------------------------------
(* Statements.  `absent' stands for a clause that is not there.  Calls are *)
(* told apart by a number; with uses three: __enter__, __exit__ after the  *)
(* body, __exit__ for an exception.  A handler without a class is bare; the *)
(* class of a handler is a name, or what a call yields.                    *)
absent == [k |-> "absent"]
pass == [k |-> "pass"]
break == [k |-> "break"]
continue == [k |-> "continue"]
return == [k |-> "return"]
reraise == [k |-> "reraise"]
raise(c) == [k |-> "raise", cls |-> c]
call(i) == [k |-> "call", id |-> i]
assert(i) == [k |-> "assert", id |-> i]
seq(ns) == [k |-> "seq", body |-> ns]
if(i, then, else) == [k |-> "if", id |-> i, then |-> then, orelse |-> else]
while(i, body, else) == [k |-> "while", id |-> i, body |-> body, orelse |-> else]
for(i, body, else) == [k |-> "for", id |-> i, body |-> body, orelse |-> else]
forRange(i, body, else) ==
  [k |-> "range", id |-> i, body |-> body, orelse |-> else]
with(i, body) == [k |-> "with", id |-> i, body |-> body]
except(c, named, body) ==
  [cls |-> c, site |-> 0, named |-> named, body |-> body]
exceptCall(i, named, body) ==
  [cls |-> "called", site |-> i, named |-> named, body |-> body]
try(body, handlers, else, final) ==
  [k |-> "try", body |-> body, handlers |-> handlers, orelse |-> else,
   final |-> final]

IterOf(i) == i + 1
NextOf(i) == i + 2
RangeOf(i) == i + 3
ExitOf(i) == i + 1
ExitExcOf(i) == i + 2

RECURSIVE HasRaise(_)
\* node_has_raise_in_current_exception_context: a raise statement for which n's
\* own surroundings decide which exception is being handled.
HasRaise(n) ==
  CASE n.k \in {"raise", "reraise"} -> TRUE
    [] n.k = "seq" -> \E i \in DOMAIN n.body : HasRaise(n.body[i])
    [] n.k = "if" -> HasRaise(n.then) \/ HasRaise(n.orelse)
    [] n.k \in {"while", "for", "range"} -> HasRaise(n.body) \/ HasRaise(n.orelse)
    [] n.k = "with" -> HasRaise(n.body)
    [] n.k = "try" -> HasRaise(n.body) \/ HasRaise(n.orelse) \/ HasRaise(n.final)
    [] OTHER -> FALSE

-----------------------------------------------------------------------------
(* Tasks. *)
Ins(op, arg) == [op |-> op, arg |-> arg]
Emit(is) == <<[t |-> "emit", ins |-> is]>>
Op(op, arg) == Emit(<<Ins(op, arg)>>)
Node(n) == <<[t |-> "node", node |-> n]>>
Resolve(l) == <<[t |-> "resolve", label |-> l]>>
Open(l) == <<[t |-> "open", label |-> l]>>
Close(l) == <<[t |-> "close", label |-> l]>>
Temps(n) == <<[t |-> "temps", n |-> n]>>
Caught(rs) == <<[t |-> "caught", regs |-> rs]>>
Cleanups(cs) == <<[t |-> "cleanups", cs |-> cs]>>
Loops(ls) == <<[t |-> "loops", ls |-> ls]>>
Leave(d, after, popped) ==
  <<[t |-> "leave", depth |-> d, after |-> after, popped |-> popped]>>
Restore(popped) == <<[t |-> "restore", popped |-> popped]>>

FinallyBody(n, l) == [kind |-> "finally", body |-> n, reg |-> 0, range |-> l]
WithExit(r, l) == [kind |-> "with", body |-> absent, reg |-> r, range |-> l]
BindingCleanup(l) == [kind |-> "binding", body |-> absent, reg |-> 0, range |-> l]

UnbindName == Emit(<<Ins("LdaNone", 0), Ins("StoreName", 0), Ins("DelName", 0)>>)

\* emit_cleanup_body
CleanupBody(ctx) ==
  CASE ctx.kind = "finally" -> Node(ctx.body)
    [] ctx.kind = "with" -> Op("CallExit", ctx.reg)
    [] ctx.kind = "binding" -> UnbindName

\* The protected part of with, try-finally and bound handlers: a range that is
\* also a cleanup for the statements that leave it.
Protected(l, ctx, body) ==
  Open(l) \o Cleanups(Append(cleanups, ctx)) \o body \o Cleanups(cleanups)
    \o Close(l)

\* codegen_bound_exception_handler_body, with the labels l + 1 and l + 2.
BoundHandlerBody(body, l, r) ==
  Protected(l + 1, BindingCleanup(l + 1), Node(body))
    \o UnbindName \o Op("Jump", l + 2) \o Resolve(l + 1)
    \o Temps(r) \o Op("DrainInto", r) \o UnbindName
    \o Emit(<<Ins("Ldar", r), Ins("RaiseUnwind", 0)>>) \o Temps(r - 1)
    \o Resolve(l + 2)

\* One handler of codegen_try_except_statement; no is the label behind it.
Handler(h, l, no, done) ==
  LET r == temps + 1
      class == IF h.site = 0 THEN Ins("LdaClass", h.cls) ELSE Ins("Call", h.site)
      match == IF h.cls = "" THEN <<>>
               ELSE Emit(<<class, Ins("IsInstance", 0), Ins("JumpIfFalse", no)>>)
      behind == IF h.cls = "" THEN <<>> ELSE Resolve(no)
      body(d) == IF h.named THEN BoundHandlerBody(h.body, l, d) ELSE Node(h.body)
      saved == Temps(r) \o Op("DrainInto", r)
                 \o (IF h.named THEN Emit(<<Ins("Ldar", r), Ins("StoreName", 0)>>)
                     ELSE <<>>)
                 \o Caught(Append(caught, r)) \o body(r + 1) \o Caught(caught)
                 \o Op("Jump", done) \o Temps(temps)
      taken == CASE HasRaise(h.body) -> saved
                 [] ~HasRaise(h.body) /\ h.named ->
                      Op("DrainToName", 0) \o body(r) \o Op("Jump", done)
                 [] OTHER -> Op("ClearActive", 0) \o body(r) \o Op("Jump", done)
  IN  match \o taken \o behind

\* codegen_try_except_statement without its finally clause.  Labels: the
\* handlers' entry, the end, then three for each handler.
TryExcept(n, l) ==
  LET done == l + 2
      Of(i) == Handler(n.handlers[i], l + 3 * i, l + 3 * i, done)
      all[i \in 0 .. Len(n.handlers)] ==
        IF i = 0 THEN <<>> ELSE all[i - 1] \o Of(i)
      bare == \E i \in DOMAIN n.handlers : n.handlers[i].cls = ""
  IN  Open(l + 1) \o Node(n.body) \o Close(l + 1) \o Node(n.orelse)
        \o Op("Jump", done) \o Resolve(l + 1) \o all[Len(n.handlers)]
        \o (IF bare THEN <<>> ELSE Op("Reraise", 0)) \o Resolve(done)

\* codegen_try_finally_statement
TryFinally(n, l) ==
  LET r == temps + 1
      inner == IF n.handlers = <<>> THEN n.body ELSE [n EXCEPT !.final = absent]
  IN  Protected(l + 1, FinallyBody(n.final, l + 1), Node(inner))
        \o Node(n.final) \o Op("Jump", l + 2) \o Resolve(l + 1)
        \o Temps(r) \o Op("DrainInto", r)
        \o Caught(Append(caught, r)) \o Node(n.final) \o Caught(caught)
        \o Emit(<<Ins("Ldar", r), Ins("RaiseUnwind", 0)>>) \o Temps(temps)
        \o Resolve(l + 2)

\* codegen_with_statement_from_item; several items are nested statements.
With(n, l) ==
  LET m == temps + 1
      r == temps + 2
  IN  Temps(m) \o Emit(<<Ins("LdaManager", n.id), Ins("Star", m),
                         Ins("Call", n.id)>>)
        \o Protected(l + 1, WithExit(m, l + 1), Node(n.body))
        \o Emit(<<Ins("CallExit", m), Ins("Jump", l + 2)>>) \o Resolve(l + 1)
        \o Temps(r)
        \o Emit(<<Ins("DrainInto", r), Ins("CallExitExc", m),
                  Ins("JumpIfTrue", l + 2), Ins("Ldar", r),
                  Ins("RaiseUnwind", 0)>>)
        \o Resolve(l + 2) \o Temps(temps)

\* codegen_loop_body
LoopBody(body, brk, cont) ==
  Loops(Append(loops, [brk |-> brk, cont |-> cont, depth |-> Len(cleanups)]))
    \o Node(body) \o Loops(loops)

\* STATEMENT_WHILE
While(n, l) ==
  Emit(<<Ins("Call", n.id), Ins("JumpIfFalse", l + 2)>>) \o Resolve(l + 1)
    \o LoopBody(n.body, l + 3, l + 4) \o Resolve(l + 4)
    \o Emit(<<Ins("Call", n.id), Ins("JumpIfTrue", l + 1)>>) \o Resolve(l + 2)
    \o Node(n.orelse) \o Resolve(l + 3)

\* codegen_iterator_driven_for_loop, with the labels l + 1 .. l + 4.
IteratorLoop(n, l, else, brk) ==
  Resolve(l + 1) \o Open(l + 3) \o Op("CallNext", NextOf(n.id)) \o Close(l + 3)
    \o Op("StoreTarget", 0) \o LoopBody(n.body, brk, l + 2) \o Resolve(l + 2)
    \o Op("Jump", l + 1)
    \o Resolve(l + 3)
    \o Emit(<<Ins("LdaClass", "StopIteration"), Ins("IsInstance", 0),
              Ins("JumpIfFalse", l + 4), Ins("ClearActive", 0),
              Ins("Jump", else)>>)
    \o Resolve(l + 4) \o Op("Reraise", 0)

\* STATEMENT_FOR
For(n, l) ==
  Op("Call", IterOf(n.id)) \o IteratorLoop(n, l + 2, l + 1, l + 2)
    \o Resolve(l + 1) \o Node(n.orelse) \o Resolve(l + 2)

\* codegen_direct_range_for_loop: the body is generated for the builtin range
\* and once more for whatever else the name `range' may mean.
ForRange(n, l) ==
  Op("ForPrepRange", l + 3) \o Resolve(l + 4) \o Op("ForIterRange", l + 1)
    \o Op("StoreTarget", 0) \o LoopBody(n.body, l + 2, l + 5) \o Resolve(l + 5)
    \o Op("Jump", l + 4)
    \o Resolve(l + 3)
    \o Emit(<<Ins("Call", RangeOf(n.id)), Ins("Call", IterOf(n.id))>>)
    \o IteratorLoop(n, l + 5, l + 1, l + 2)
    \o Resolve(l + 1) \o Node(n.orelse) \o Resolve(l + 2)

\* STATEMENT_IF with one condition
If(n, l) ==
  Emit(<<Ins("Call", n.id), Ins("JumpIfFalse", l + 1)>>) \o Node(n.then)
    \o (IF n.orelse = absent THEN <<>> ELSE Op("Jump", l + 2)) \o Resolve(l + 1)
    \o Node(n.orelse) \o Resolve(l + 2)

\* STATEMENT_RETURN; the value returned is TRUE
Return(n) ==
  LET r == temps + 1
  IN  IF cleanups = <<>> THEN Emit(<<Ins("LdaTrue", 0), Ins("Return", 0)>>)
      ELSE Op("LdaTrue", 0) \o Temps(r) \o Op("Star", r)
             \o Leave(0, <<Ins("Ldar", r), Ins("Return", 0)>>, <<>>)
             \o Temps(temps)

\* STATEMENT_RAISE
Raise(n) ==
  IF n.k = "reraise"
  THEN IF caught = <<>> THEN Op("RaiseBare", 0)
       ELSE Emit(<<Ins("Ldar", Last(caught)), Ins("RaiseUnwind", 0)>>)
  ELSE Op("LdaClass", n.cls)
         \o (IF caught = <<>> THEN Op("RaiseUnwind", 0)
             ELSE Op("RaiseWithContext", Last(caught)))

\* STATEMENT_ASSERT
AssertStatement(n, l) ==
  Emit(<<Ins("Call", n.id), Ins("JumpIfTrue", l + 1), Ins("RaiseAssertion", 0)>>)
    \o Resolve(l + 1)

\* STATEMENT_BREAK and STATEMENT_CONTINUE, in a loop
LeaveLoop(label) == Leave(Last(loops).depth, <<Ins("Jump", label)>>, <<>>)

\* codegen_node
Lower(n, l) ==
  CASE n.k \in {"absent", "pass"} -> <<>>
    [] n.k = "seq" -> FlattenSeq([i \in DOMAIN n.body |-> Node(n.body[i])])
    [] n.k = "call" -> Op("Call", n.id)
    [] n.k = "if" -> If(n, l)
    [] n.k = "while" -> While(n, l)
    [] n.k = "for" -> For(n, l)
    [] n.k = "range" -> ForRange(n, l)
    [] n.k = "with" -> With(n, l)
    [] n.k = "try" -> IF n.final = absent THEN TryExcept(n, l) ELSE TryFinally(n, l)
    [] n.k = "break" -> LeaveLoop(Last(loops).brk)
    [] n.k = "continue" -> LeaveLoop(Last(loops).cont)
    [] n.k = "return" -> Return(n)
    [] n.k \in {"raise", "reraise"} -> Raise(n)
    [] n.k = "assert" -> AssertStatement(n, l)

\* JumpTargets a statement makes
LabelsOf(n) ==
  CASE n.k = "try" /\ n.final = absent -> 2 + 3 * Len(n.handlers)
    [] n.k \in {"try", "with", "if"} -> 2
    [] n.k = "while" -> 4
    [] n.k = "for" -> 6
    [] n.k = "range" -> 9
    [] n.k = "assert" -> 1
    [] OTHER -> 0

-----------------------------------------------------------------------------
(* The generator. *)
Task == Head(todo)
Here == Len(code) + 1

\* ExceptionTableRangeBuilder::close_segment
CloseSegment(l) ==
  Append(table, [start |-> starts[l], end |-> Here, handler |-> l])

LoweringInit(programs) ==
  /\ program \in programs
  /\ todo = Node(program) \o Emit(<<Ins("LdaNone", 0), Ins("Return", 0)>>)
  /\ code = <<>> /\ table = <<>> /\ target = <<>> /\ innermost = <<>>
  /\ starts = <<>> /\ cleanups = <<>> /\ loops = <<>> /\ caught = <<>>
  /\ temps = 0 /\ labels = 0

GenNode ==
  /\ Task.t = "node"
  /\ todo' = Lower(Task.node, labels) \o Tail(todo)
  /\ labels' = labels + LabelsOf(Task.node)
  /\ UNCHANGED <<program, output, starts, cleanups, loops, caught, temps>>

GenEmit ==
  /\ Task.t = "emit"
  /\ code' = code \o Task.ins
  /\ innermost' = innermost \o [i \in DOMAIN Task.ins |->
                                  IF starts = <<>> THEN 0 ELSE Max(DOMAIN starts)]
  /\ todo' = Tail(todo)
  /\ UNCHANGED <<program, table, target, starts, cleanups, loops, caught, temps,
                 labels>>

\* JumpTarget::resolve
GenResolve ==
  /\ Task.t = "resolve"
  /\ target' = (Task.label :> Here) @@ target
  /\ todo' = Tail(todo)
  /\ UNCHANGED <<program, code, table, innermost, starts, cleanups, loops,
                 caught, temps, labels>>

\* ExceptionTableRangeBuilder and its close
GenOpen ==
  /\ Task.t = "open"
  /\ starts' = (Task.label :> Here) @@ starts
  /\ todo' = Tail(todo)
  /\ UNCHANGED <<program, output, cleanups, loops, caught, temps, labels>>

GenClose ==
  /\ Task.t = "close"
  /\ table' = CloseSegment(Task.label)
  /\ starts' = Restrict(starts, DOMAIN starts \ {Task.label})
  /\ todo' = Tail(todo)
  /\ UNCHANGED <<program, code, target, innermost, cleanups, loops, caught,
                 temps, labels>>

\* The generator's stacks are pushed and popped.
GenScope ==
  /\ Task.t \in {"temps", "caught", "cleanups", "loops"}
  /\ temps' = IF Task.t = "temps" THEN Task.n ELSE temps
  /\ caught' = IF Task.t = "caught" THEN Task.regs ELSE caught
  /\ cleanups' = IF Task.t = "cleanups" THEN Task.cs ELSE cleanups
  /\ loops' = IF Task.t = "loops" THEN Task.ls ELSE loops
  /\ todo' = Tail(todo)
  /\ UNCHANGED <<program, output, starts, labels>>

\* Mutant: the range of a cleanup stays open while its body is generated.
GenLeaveCleanupUnsuspended ==
  LET ctx == Last(cleanups)
  IN  /\ Task.t = "leave" /\ Len(cleanups) > Task.depth
      /\ cleanups' = Front(cleanups)
      /\ todo' = CleanupBody(ctx)
                   \o Leave(Task.depth, Task.after, Append(Task.popped, ctx))
                   \o Tail(todo)
      /\ UNCHANGED <<program, output, starts, loops, caught, temps, labels>>

\* emit_active_cleanups_until_and_then: one cleanup of a statement that leaves
\* protected parts.  Its own range is suspended while its body is generated.
GenLeaveCleanup ==
  LET ctx == Last(cleanups)
  IN  /\ Task.t = "leave" /\ Len(cleanups) > Task.depth
      /\ cleanups' = Front(cleanups)
      /\ table' = CloseSegment(ctx.range)
      /\ starts' = Restrict(starts, DOMAIN starts \ {ctx.range})
      /\ todo' = CleanupBody(ctx)
                   \o Leave(Task.depth, Task.after, Append(Task.popped, ctx))
                   \o Tail(todo)
      /\ UNCHANGED <<program, code, target, innermost, loops, caught, temps,
                     labels>>

\* Its end: the jump or return, and the cleanups are active again.
GenLeaveEnd ==
  /\ Task.t = "leave" /\ Len(cleanups) <= Task.depth
  /\ todo' = Emit(Task.after) \o Restore(Task.popped) \o Tail(todo)
  /\ UNCHANGED <<program, output, starts, cleanups, loops, caught, temps, labels>>

GenRestore ==
  /\ Task.t = "restore"
  /\ cleanups' = cleanups \o Reverse(Task.popped)
  /\ starts' = [l \in {c.range : c \in Range(Task.popped)} |-> Here] @@ starts
  /\ todo' = Tail(todo)
  /\ UNCHANGED <<program, output, loops, caught, temps, labels>>

Generate ==
  /\ todo # <<>>
  /\ \/ GenNode \/ GenEmit \/ GenResolve \/ GenOpen \/ GenClose \/ GenScope
     \/ GenLeaveCleanup \/ GenLeaveEnd \/ GenRestore

-----------------------------------------------------------------------------
\* CodeObject::find_exception_handler: the first entry that covers pc, or 0.
FindHandler(pc) ==
  LET covering == {i \in DOMAIN table : table[i].start <= pc /\ pc < table[i].end}
  IN  IF covering = {} THEN 0 ELSE table[Min(covering)].handler

\* Every instruction is protected by the innermost range that was open when it
\* was emitted: the table is in priority order, inner ranges before the ranges
\* around them, although suspended ranges add their entries early.
InnermostHandlerFirst ==
  todo = <<>> => \A pc \in DOMAIN code : FindHandler(pc) = innermost[pc]
=============================================================================
