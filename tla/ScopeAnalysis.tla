--------------------------- MODULE ScopeAnalysis ----------------------------
(***************************************************************************)
(* The scope analysis of one code object (ScopeAnalyzer): which names are  *)
(* local and in which slot, whether a name is declared global before it is *)
(* used, and, for every load, store and deletion of a local, whether the   *)
(* local is present at that place.  A load that is present is compiled to  *)
(* an unchecked register read; a local for which needs_entry_clear is set  *)
(* is cleared on entry, the others start as what the frame's memory held.  *)
(*                                                                         *)
(* A node is a record of its kind, its name, its operator and its children *)
(* and is identified by its path from the root.  Expressions that are no   *)
(* name, attribute or slice are "OPERATION" nodes.                         *)
(***************************************************************************)
EXTENDS Ast, Integers, SequencesExt

CONSTANTS
  NameHash(_),           \* string_hash of a name
  InitialNameTableSize   \* slots of a new Scope's name table

Expressions ==
  {"VARIABLE", "ATTRIBUTE", "SLICE", "OPERATION", "EXPRESSION_ASSIGN", "LITERAL"}
Assignments == {"ASSIGN", "EXPRESSION_ASSIGN"}

IsVariable(n) == n.kind = "VARIABLE"
Names(nodes) == [i \in DOMAIN nodes |-> nodes[i].name]

\* The parameters of a signature, whose children are groups of parameters.
SignatureParameterNodes(sig) ==
  IF sig.kind # "PARAMETER_SIGNATURE" THEN sig.ch
  ELSE FlattenSeq([g \in DOMAIN sig.ch |-> sig.ch[g].ch])

\* The expressions a definition evaluates where it stands: defaults or bases.
EvaluatedByDefinition(n) ==
  IF n.kind = "CLASS_DEF" THEN n.ch[1].ch
  ELSE LET params == SignatureParameterNodes(n.ch[1])
       IN  FlattenSeq([i \in DOMAIN params |-> params[i].ch])

\* The targets of import aliases; a star import binds no name of its own.
AliasTargets(n) ==
  LET aliases == SelectSeq(IF n.kind = "IMPORT" THEN n.ch ELSE Tail(n.ch),
                           LAMBDA c : c.kind # "IMPORT_STAR")
  IN  [i \in DOMAIN aliases |-> aliases[i].ch[1]]

HandlerHasType(n) == Len(n.ch) >= 2
HandlerHasName(n) == Len(n.ch) = 3

\* The offset of a try statement's else part, or of its finally part, or 0.
PartAt(n, kind) ==
  SelectInSeq(n.ch, LAMBDA c : c.kind = kind)
LastHandler(n) == Cardinality({i \in DOMAIN n.ch : n.ch[i].kind = "EXCEPT"}) + 1

-----------------------------------------------------------------------------
(* The names of a Scope: an open addressing table of slot indices.         *)

NewScope == [table |-> [i \in 0 .. InitialNameTableSize - 1 |-> -1], names |-> <<>>]

RECURSIVE NameTableEntry(_, _, _)
\* find_name_table_entry: the place that holds key's slot, or the free one.
NameTableEntry(s, key, i) ==
  IF s.table[i] = -1 \/ s.names[s.table[i] + 1] = key THEN i
  ELSE NameTableEntry(s, key, (i + 1) % Cardinality(DOMAIN s.table))
EntryFor(s, key) == NameTableEntry(s, key, NameHash(key) % Cardinality(DOMAIN s.table))

LookupSlot(s, key) == s.table[EntryFor(s, key)]

\* maybe_grow_name_table, grow_name_table
GrownNameTable(s) ==
  LET size == Cardinality(DOMAIN s.table)
      empty == [s EXCEPT !.table = [i \in 0 .. 2 * size - 1 |-> -1]]
      Insert(t, i) == [t EXCEPT !.table[EntryFor(t, t.names[i])] = i - 1]
  IN  IF Len(s.names) > (size * 3) \div 4
      THEN FoldLeftDomain(Insert, empty, s.names) ELSE s

\* register_slot_index_for_write
RegisterSlot(s, key) ==
  IF LookupSlot(s, key) >= 0 THEN s
  ELSE LET t == GrownNameTable([s EXCEPT !.names = Append(@, key)])
       IN  [t EXCEPT !.table[EntryFor(t, key)] = Len(t.names) - 1]

-----------------------------------------------------------------------------
(* Validation of global declarations.  A validation is the sets of names   *)
(* met so far; the first error ends it.                                    *)

Validation(mode, params) ==
  [mode |-> mode, error |-> FALSE, parameter |-> IF mode = "Function" THEN params ELSE {},
   used |-> {}, assigned |-> {}, annotated |-> {}, global |-> {}]

MarkAnnotation(v, name) ==
  IF name \in v.global /\ v.mode = "Function" THEN [v EXCEPT !.error = TRUE]
  ELSE [v EXCEPT !.annotated = @ \cup {name}]

\* A use above the declaration is overlooked.
DeclareGlobalAfterUse(v, name) ==
  IF name \in v.parameter \cup v.annotated \cup v.assigned
  THEN [v EXCEPT !.error = TRUE]
  ELSE [v EXCEPT !.global = @ \cup {name}]

DeclareGlobal(v, name) ==
  IF name \in v.parameter \cup v.annotated \cup v.assigned \cup v.used
  THEN [v EXCEPT !.error = TRUE]
  ELSE [v EXCEPT !.global = @ \cup {name}]

RECURSIVE ValidateExpression(_, _)
ValidateExpression(v, n) ==
  CASE n = NoNode -> v
    [] n.kind = "VARIABLE" -> [v EXCEPT !.used = @ \cup {n.name}]
    [] n.kind = "ATTRIBUTE" -> ValidateExpression(v, n.ch[1])
    [] OTHER -> FoldLeft(LAMBDA w, c : ValidateExpression(w, c), v, n.ch)

ValidateExpressions(v, nodes) ==
  FoldLeft(LAMBDA w, c : ValidateExpression(w, c), v, nodes)

ValidateTarget(v, n, augmented) ==
  IF IsVariable(n)
  THEN [v EXCEPT !.used = IF augmented THEN @ \cup {n.name} ELSE @,
                 !.assigned = @ \cup {n.name}]
  ELSE ValidateExpression(v, n)

MarkAssigned(v, names) == [v EXCEPT !.assigned = @ \cup ToSet(names)]

RECURSIVE ValidateNode(_, _)
ValidateNodes(v, nodes) == FoldLeft(LAMBDA w, c : ValidateNode(w, c), v, nodes)

\* validate_global_declarations_in_node
ValidateNode(v, n) ==
  CASE v.error -> v
    [] n.kind = "GLOBAL" ->
         FoldLeft(LAMBDA w, c : IF w.error THEN w ELSE DeclareGlobal(w, c.name), v, n.ch)
    [] n.kind \in {"FUNCTION_DEF", "CLASS_DEF"} ->
         MarkAssigned(ValidateExpressions(v, EvaluatedByDefinition(n)), <<n.name>>)
    [] n.kind \in {"IMPORT", "IMPORT_FROM"} -> MarkAssigned(v, Names(AliasTargets(n)))
    [] n.kind \in Assignments ->
         IF n.op # "NOP"
         THEN ValidateExpression(ValidateTarget(v, n.ch[1], TRUE), n.ch[2])
         ELSE ValidateTarget(ValidateExpression(v, n.ch[2]), n.ch[1], FALSE)
    [] n.kind = "ANN_ASSIGN" ->
         LET w == IF IsVariable(n.ch[1]) THEN MarkAnnotation(v, n.ch[1].name)
                  ELSE ValidateTarget(v, n.ch[1], FALSE)
         IN  IF w.error THEN w ELSE ValidateExpressions(w, SubSeq(n.ch, 3, 3 * (Len(n.ch) \div 3)))
    [] n.kind = "DEL" -> FoldLeft(LAMBDA w, c : ValidateTarget(w, c, FALSE), v, n.ch)
    [] n.kind = "FOR" ->
         ValidateNodes(ValidateTarget(ValidateExpression(v, n.ch[2]), n.ch[1], FALSE),
                       SubSeq(n.ch, 3, Len(n.ch)))
    [] n.kind = "WITH_ITEM" ->
         LET w == ValidateExpression(v, n.ch[1])
         IN  IF Len(n.ch) = 2 THEN ValidateTarget(w, n.ch[2], FALSE) ELSE w
    [] n.kind = "EXCEPT" ->
         LET w == IF HandlerHasType(n) THEN ValidateExpression(v, n.ch[1]) ELSE v
             x == IF HandlerHasName(n) THEN ValidateTarget(w, n.ch[2], FALSE) ELSE w
         IN  ValidateNode(x, Last(n.ch))
    [] n.kind \in Expressions \ Assignments -> ValidateExpression(v, n)
    [] OTHER -> ValidateNodes(v, n.ch)

-----------------------------------------------------------------------------
(* Bindings.  An analysis has the mode, the scope of each bound name, the  *)
(* Scope with the locals' slots, the parameters, the accesses found and    *)
(* the locals to clear on entry.                                           *)

NewAnalysis(mode, params) ==
  [mode |-> mode, scope |-> << >>, slots |-> NewScope, present |-> ToSet(params),
   accesses |-> {}, clear |-> {}]

LocalNames(a) == {x \in DOMAIN a.scope : a.scope[x] = "Local"}

EnsureGlobalBinding(a, name) == [a EXCEPT !.scope = (name :> "Global") @@ @]
EnsureLocalBinding(a, name) ==
  IF name \in DOMAIN a.scope THEN a
  ELSE [a EXCEPT !.scope = (name :> "Local") @@ @,
                 !.slots = RegisterSlot(@, name)]
\* ensure_binding: a module has no locals.
EnsureBinding(a, name) == IF a.mode = "Module" THEN a ELSE EnsureLocalBinding(a, name)
EnsureBindings(a, names) == FoldLeft(EnsureBinding, a, names)
EnsureTarget(a, n) == IF IsVariable(n) THEN EnsureBinding(a, n.name) ELSE a

RECURSIVE CollectGlobalDeclarations(_, _)
CollectGlobalDeclarations(a, n) ==
  CASE n.kind = "GLOBAL" -> FoldLeft(EnsureGlobalBinding, a, Names(n.ch))
    [] n.kind \in {"FUNCTION_DEF", "CLASS_DEF", "BREAK", "CONTINUE"} -> a
    [] OTHER -> FoldLeft(LAMBDA b, c : CollectGlobalDeclarations(b, c), a, n.ch)

RECURSIVE CollectBindings(_, _)
\* collect_code_object_bindings
CollectBindings(a, n) ==
  LET Inside(b, nodes) == FoldLeft(LAMBDA c, x : CollectBindings(c, x), b, nodes)
  IN  CASE n.kind \in {"FUNCTION_DEF", "CLASS_DEF"} -> EnsureBinding(a, n.name)
        [] n.kind \in {"IMPORT", "IMPORT_FROM"} -> EnsureBindings(a, Names(AliasTargets(n)))
        [] n.kind \in Assignments \cup {"FOR"} -> Inside(EnsureTarget(a, n.ch[1]), n.ch)
        [] n.kind = "ANN_ASSIGN" ->
             LET valued == Len(n.ch) = 3
                 b == IF valued THEN CollectBindings(EnsureTarget(a, n.ch[1]), n.ch[3]) ELSE a
             IN  IF n.op = "simple" THEN b ELSE CollectBindings(b, n.ch[1])
        [] n.kind = "DEL" -> Inside(FoldLeft(EnsureTarget, a, n.ch), n.ch)
        [] n.kind = "WITH_ITEM" ->
             Inside(IF Len(n.ch) = 2 THEN EnsureTarget(a, n.ch[2]) ELSE a, n.ch)
        [] n.kind = "EXCEPT" ->
             LET b == IF HandlerHasName(n) THEN EnsureBinding(a, n.ch[2].name) ELSE a
                 c == IF HandlerHasType(n) THEN CollectBindings(b, n.ch[1]) ELSE b
             IN  CollectBindings(c, Last(n.ch))
        [] n.kind \in {"BREAK", "CONTINUE"} -> a
        [] OTHER -> Inside(a, n.ch)

-----------------------------------------------------------------------------
(* Touches: the locals that code may assign and those it may delete.       *)

NoTouches == [assigned |-> {}, deleted |-> {}]
MergeTouches(t, u) ==
  [assigned |-> t.assigned \cup u.assigned, deleted |-> t.deleted \cup u.deleted]
AllTouches(S) ==
  [assigned |-> UNION {t.assigned : t \in S}, deleted |-> UNION {t.deleted : t \in S}]
Assigns(a, names) == [NoTouches EXCEPT !.assigned = names \cap LocalNames(a)]
TargetTouch(a, n) == IF IsVariable(n) THEN Assigns(a, {n.name}) ELSE NoTouches

RECURSIVE LocalTouches(_, _)
\* collect_local_touches
LocalTouches(a, n) ==
  LET Inside == AllTouches({LocalTouches(a, n.ch[i]) : i \in DOMAIN n.ch})
  IN  CASE n.kind \in {"FUNCTION_DEF", "CLASS_DEF"} -> Assigns(a, {n.name})
        [] n.kind \in {"IMPORT", "IMPORT_FROM"} -> Assigns(a, ToSet(Names(AliasTargets(n))))
        [] n.kind \in Assignments \cup {"FOR"} -> MergeTouches(TargetTouch(a, n.ch[1]), Inside)
        [] n.kind = "ANN_ASSIGN" ->
             AllTouches((IF Len(n.ch) = 3 THEN {TargetTouch(a, n.ch[1]), LocalTouches(a, n.ch[3])}
                         ELSE {})
                        \cup (IF n.op = "simple" THEN {} ELSE {LocalTouches(a, n.ch[1])}))
        [] n.kind = "DEL" ->
             MergeTouches([NoTouches EXCEPT !.deleted =
                             {c.name : c \in {x \in ToSet(n.ch) : IsVariable(x)}}
                               \cap LocalNames(a)],
                          AllTouches({LocalTouches(a, c) : c \in {x \in ToSet(n.ch) : ~IsVariable(x)}}))
        [] n.kind = "WITH_ITEM" ->
             IF Len(n.ch) = 2 THEN MergeTouches(TargetTouch(a, n.ch[2]), Inside) ELSE Inside
        [] n.kind = "EXCEPT" ->
             IF HandlerHasName(n) THEN MergeTouches(Assigns(a, {n.ch[2].name}), Inside) ELSE Inside
        [] n.kind \in {"BREAK", "CONTINUE"} -> NoTouches
        [] OTHER -> Inside

TouchesOf(a, n, from, to) ==
  AllTouches({LocalTouches(a, n.ch[i]) : i \in from .. to})

-----------------------------------------------------------------------------
(* Flow states: the presence of each local and whether it may still be     *)
(* what the frame held on entry.                                           *)

InitialFlow(a) ==
  [presence |-> [x \in LocalNames(a) |-> IF x \in a.present THEN "Present" ELSE "Missing"],
   entry |-> [x \in LocalNames(a) |-> x \notin a.present]]

ConservativeFlow(a) ==
  [presence |-> [x \in LocalNames(a) |-> "Maybe"], entry |-> [x \in LocalNames(a) |-> TRUE]]

MergeFlows(f, g) ==
  [presence |-> [x \in DOMAIN f.presence |->
                   IF f.presence[x] = g.presence[x] THEN f.presence[x] ELSE "Maybe"],
   entry |-> [x \in DOMAIN f.entry |-> f.entry[x] \/ g.entry[x]]]

\* mark_local_presence
Mark(f, name, presence) ==
  IF name \notin DOMAIN f.presence THEN f
  ELSE [presence |-> [f.presence EXCEPT ![name] = presence],
        entry |-> [f.entry EXCEPT ![name] = FALSE]]

\* mark_binding_maybe, for each of names
Degrade(f, names) ==
  [f EXCEPT !.presence = [x \in DOMAIN @ |-> IF x \in names THEN "Maybe" ELSE @[x]]]
DegradeTouched(f, t) == Degrade(f, t.assigned \cup t.deleted)

\* A local that the body deletes is taken for present after the loop.
DegradeLoopExitOfAssigned(f, t) ==
  Degrade(f, {x \in t.assigned : f.presence[x] # "Present"})

\* apply_loop_exit_conservatism
DegradeLoopExit(f, t) ==
  Degrade(f, t.deleted \cup {x \in t.assigned : f.presence[x] # "Present"})

\* A summary of a statement: the analysis so far, the state in which control
\* leaves it at its end (none or one), and those in which break and continue do.
Summary(a, fall, breaks, continues) ==
  [a |-> a, fall |-> fall, breaks |-> breaks, continues |-> continues]
FallsThrough(a, f) == Summary(a, {f}, {}, {})

MergeFall(fall, f) == IF fall = {} THEN {f} ELSE {MergeFlows(g, f) : g \in fall}
MergeFalls(fall, more) == FoldSet(LAMBDA f, acc : MergeFall(acc, f), fall, more)
OrConservative(a, fall) == IF fall = {} THEN ConservativeFlow(a) ELSE CHOOSE f \in fall : TRUE

\* append_abrupt_exits; only what can be reached counts.
WithExits(s, t, reachable) ==
  IF reachable
  THEN [s EXCEPT !.breaks = @ \cup t.breaks, !.continues = @ \cup t.continues]
  ELSE s

DegradeSummary(s, t) ==
  [s EXCEPT !.fall = {DegradeTouched(f, t) : f \in @},
            !.breaks = {DegradeTouched(f, t) : f \in @},
            !.continues = {DegradeTouched(f, t) : f \in @}]

\* make_access, with the note of the access at path p
Access(a, p, use, name, f) ==
  IF name \notin LocalNames(a)
  THEN [a EXCEPT !.accesses = @ \cup {[at |-> p, use |-> use, name |-> name,
                                       scope |-> "Global", presence |-> "Maybe", slot |-> 0]}]
  ELSE [a EXCEPT
          !.accesses = @ \cup {[at |-> p, use |-> use, name |-> name, scope |-> "Local",
                                presence |-> f.presence[name],
                                slot |-> LookupSlot(a.slots, name)]},
          !.clear = IF use # "store" /\ f.presence[name] # "Present" /\ f.entry[name]
                    THEN @ \cup {name} ELSE @]

\* Analysis and flow state together, as expressions change them.
At(a, f) == [a |-> a, f |-> f]
Read(s, p, name) == At(Access(s.a, p, "load", name, s.f), s.f)
Write(s, p, name) == At(Access(s.a, p, "store", name, s.f), Mark(s.f, name, "Present"))
Delete(s, p, name) == At(Access(s.a, p, "delete", name, s.f), Mark(s.f, name, "Missing"))
Through(s) == FallsThrough(s.a, s.f)

-----------------------------------------------------------------------------
(* The flow of each kind of node.                                          *)

RECURSIVE Flow(_, _, _, _)

\* analyze_child_as_expression: child i of n
Child(s, n, p, i) ==
  LET r == Flow(s.a, n.ch[i], Append(p, i), s.f)
  IN  At(r.a, OrConservative(r.a, r.fall))

\* Children from .. to, one after the other; absent ones are skipped.
Children(s, n, p, from, to) ==
  FoldLeft(LAMBDA t, i : IF n.ch[i] = NoNode THEN t ELSE Child(t, n, p, i), s,
           [i \in 1 .. (to + 1 - from) |-> from + i - 1])

\* annotate_for_target_store and the stores of with items
StoreTarget(s, n, p, i) ==
  IF IsVariable(n.ch[i]) THEN Write(s, Append(p, i), n.ch[i].name) ELSE Child(s, n, p, i)

FlowSequence(a, n, p, f) ==
  LET Step(s, i) ==
        LET reachable == s.fall # {}
            r == Flow(s.a, n.ch[i], Append(p, i), OrConservative(s.a, s.fall))
        IN  [WithExits(s, r, reachable) EXCEPT
               !.a = r.a, !.fall = IF reachable THEN r.fall ELSE {}]
  IN  FoldLeftDomain(Step, FallsThrough(a, f), n.ch)

FlowIf(a, n, p, f) ==
  LET \* s.next: the state in which the next condition is evaluated, if it can be
      Branch(s, i, cond) ==
        LET reachable == cond # {}
            r == Flow(s.a, n.ch[i], Append(p, i), OrConservative(s.a, cond))
        IN  [WithExits(s, r, reachable) EXCEPT
               !.a = r.a, !.fall = IF reachable THEN MergeFalls(@, r.fall) ELSE @]
      Clause(s, k) ==
        LET c == Flow(s.a, n.ch[2 * k - 1], Append(p, 2 * k - 1), OrConservative(s.a, s.next))
            next == IF s.next = {} THEN {} ELSE c.fall
            t == [WithExits(s, c, s.next # {}) EXCEPT !.a = c.a, !.next = next]
        IN  Branch(t, 2 * k, next)
      clauses == FoldLeft(Clause, [next |-> {f}] @@ Summary(a, {}, {}, {}),
                          [k \in 1 .. Len(n.ch) \div 2 |-> k])
      all == IF Len(n.ch) % 2 = 1 THEN Branch(clauses, Len(n.ch), clauses.next)
             ELSE [clauses EXCEPT !.fall = MergeFalls(@, clauses.next)]
  IN  Summary(all.a, all.fall, all.breaks, all.continues)

\* The end of a loop: the else part, if any, from the normal exit, then breaks.
FlowLoopEnd(s, n, p, orelse, exit, body, touches) ==
  LET r == Flow(s.a, n.ch[orelse], Append(p, orelse), exit)
      ended == IF Len(n.ch) = orelse THEN [WithExits(s, r, TRUE) EXCEPT !.a = r.a, !.fall = r.fall]
               ELSE [s EXCEPT !.fall = {exit}]
  IN  [ended EXCEPT !.fall = MergeFalls(@, {Degrade(b, touches.deleted) : b \in body.breaks})]

FlowWhile(a, n, p, f) ==
  LET touches == LocalTouches(a, n.ch[2])
      entered == Degrade(f, touches.deleted)
      cond == Flow(a, n.ch[1], Append(p, 1), entered)
      body == Flow(cond.a, n.ch[2], Append(p, 2),
                   Degrade(OrConservative(cond.a, cond.fall), touches.deleted))
      exit == IF cond.fall = {} THEN entered ELSE CHOOSE g \in cond.fall : TRUE
  IN  FlowLoopEnd(WithExits(Summary(body.a, {}, {}, {}), cond, TRUE), n, p, 3,
                  DegradeLoopExit(exit, touches), body, touches)

FlowFor(a, n, p, f) ==
  LET iterable == Flow(a, n.ch[2], Append(p, 2), f)
      iterated == OrConservative(iterable.a, iterable.fall)
      touches == MergeTouches(LocalTouches(a, n.ch[3]), TargetTouch(a, n.ch[1]))
      s == StoreTarget(At(iterable.a, iterated), n, p, 1)
      kept == IF IsVariable(n.ch[1]) THEN {n.ch[1].name} ELSE {}
      body == Flow(s.a, n.ch[3], Append(p, 3), Degrade(s.f, touches.deleted \ kept))
  IN  FlowLoopEnd(WithExits(Summary(body.a, {}, {}, {}), iterable, TRUE), n, p, 4,
                  DegradeLoopExit(iterated, touches), body, touches)

\* analyze_try_except_statement; else parts are wrapped in a node of their own.
FlowTryExcept(a, n, p, f) ==
  LET protected == LocalTouches(a, n.ch[1])
      last == LastHandler(n)
      orelse == PartAt(n, "ELSE")
      all == MergeTouches(TouchesOf(a, n, 1, last),
                          IF orelse = 0 THEN NoTouches ELSE LocalTouches(a, n.ch[orelse]))
      body == Flow(a, n.ch[1], Append(p, 1), f)
      e == Flow(body.a, n.ch[orelse].ch[1], p \o <<orelse, 1>>, OrConservative(body.a, body.fall))
      tried == CASE orelse = 0 -> body
                 [] orelse # 0 /\ body.fall # {} ->
                      [WithExits(body, e, TRUE) EXCEPT !.a = e.a, !.fall = e.fall]
                 [] OTHER -> [body EXCEPT !.a = e.a]
      Handler(s, i) ==
        LET h == n.ch[i]  q == Append(p, i)
            t == At(s.a, DegradeTouched(f, protected))
            u == IF HandlerHasType(h) THEN Child(t, h, q, 1) ELSE t
            v == IF HandlerHasName(h) THEN StoreTarget(u, h, q, 2) ELSE u
            r == Flow(v.a, Last(h.ch), Append(q, Len(h.ch)), v.f)
        IN  [WithExits(s, r, TRUE) EXCEPT !.a = r.a, !.fall = MergeFalls(@, r.fall)]
  IN  DegradeSummary(FoldLeft(Handler, tried, [i \in 1 .. last - 1 |-> i + 1]), all)

FlowTry(a, n, p, f) ==
  LET final == Len(n.ch)
      protected == TouchesOf(a, n, 1, final - 1)
      inner == IF final = 2 THEN Flow(a, n.ch[1], Append(p, 1), f)
               ELSE FlowTryExcept(a, n, p, f)
      r == Flow(inner.a, n.ch[final].ch[1], p \o <<final, 1>>, DegradeTouched(f, protected))
      out == IF r.fall # {} THEN [WithExits(inner, r, TRUE) EXCEPT !.a = r.a]
             ELSE r
  IN  IF PartAt(n, "FINALLY") = 0 THEN FlowTryExcept(a, n, p, f)
      ELSE DegradeSummary(out, MergeTouches(protected, LocalTouches(a, n.ch[final])))

FlowWith(a, n, p, f) ==
  LET touches == TouchesOf(a, n, 1, Len(n.ch))
      r == FlowSequence(a, n, p, f)
  IN  DegradeSummary([r EXCEPT !.fall = MergeFall(@, DegradeTouched(f, touches))], touches)

FlowAssign(s, n, p) ==
  IF IsVariable(n.ch[1])
  THEN LET read == IF n.op # "NOP" THEN Read(s, Append(p, 1), n.ch[1].name) ELSE s
       IN  Write(Child(read, n, p, 2), Append(p, 1), n.ch[1].name)
  ELSE Child(Child(s, n, p, 1), n, p, 2)

FlowAnnAssign(s, n, p) ==
  CASE Len(n.ch) = 3 /\ IsVariable(n.ch[1]) ->
         Write(Child(s, n, p, 3), Append(p, 1), n.ch[1].name)
    [] Len(n.ch) = 3 /\ ~IsVariable(n.ch[1]) -> Child(Child(s, n, p, 1), n, p, 3)
    [] Len(n.ch) = 2 /\ n.op # "simple" -> Child(s, n, p, 1)
    [] OTHER -> s

FlowDel(s, n, p) ==
  FoldLeft(LAMBDA t, i : IF IsVariable(n.ch[i]) THEN Delete(t, Append(p, i), n.ch[i].name)
                         ELSE Child(t, n, p, i),
           s, [i \in DOMAIN n.ch |-> i])

\* The expressions a definition evaluates, each at a path of its own, then the store.
FlowDefinition(s, n, p) ==
  LET evaluated == EvaluatedByDefinition(n)
      inner == Node("OPERATION", "", "", evaluated)
  IN  Write(Children(s, inner, Append(p, 1), 1, Len(evaluated)), p, n.name)

\* analyze_flow_node
Flow(a, n, p, f) ==
  LET s == At(a, f)
  IN  CASE n.kind = "VARIABLE" -> Through(Read(s, p, n.name))
        [] n.kind \in Assignments -> Through(FlowAssign(s, n, p))
        [] n.kind \in {"IMPORT", "IMPORT_FROM"} ->
             LET targets == AliasTargets(n)
             IN  Through(FoldLeftDomain(LAMBDA t, i : Write(t, p \o <<i, 1>>, targets[i].name),
                                        s, targets))
        [] n.kind = "ANN_ASSIGN" -> Through(FlowAnnAssign(s, n, p))
        [] n.kind = "DEL" -> Through(FlowDel(s, n, p))
        [] n.kind \in {"SEQUENCE", "EXPRESSION_STATEMENT"} -> FlowSequence(a, n, p, f)
        [] n.kind = "IF" -> FlowIf(a, n, p, f)
        [] n.kind = "WHILE" -> FlowWhile(a, n, p, f)
        [] n.kind = "FOR" -> FlowFor(a, n, p, f)
        [] n.kind = "WITH" -> FlowWith(a, n, p, f)
        [] n.kind = "WITH_ITEM" ->
             LET t == Child(s, n, p, 1)
             IN  Through(IF Len(n.ch) = 2 THEN StoreTarget(t, n, p, 2) ELSE t)
        [] n.kind = "TRY" -> FlowTry(a, n, p, f)
        [] n.kind \in {"FUNCTION_DEF", "CLASS_DEF"} -> Through(FlowDefinition(s, n, p))
        [] n.kind \in {"RETURN", "RAISE"} ->
             Summary(Children(s, n, p, 1, Len(n.ch)).a, {}, {}, {})
        [] n.kind = "ASSERT" ->
             LET t == Child(s, n, p, 1)
                 m == IF Len(n.ch) = 2 THEN Child(t, n, p, 2) ELSE t
             IN  FallsThrough(m.a, t.f)
        [] n.kind = "BREAK" -> Summary(a, {}, {f}, {})
        [] n.kind = "CONTINUE" -> Summary(a, {}, {}, {f})
        [] n.kind \in {"PASS", "GLOBAL"} -> Through(s)
        [] OTHER -> Through(Children(s, n, p, 1, Len(n.ch)))

-----------------------------------------------------------------------------
\* ScopeAnalyzer::run
Analyze(mode, params, body) ==
  LET v == ValidateNode(Validation(mode, ToSet(params)), body)
      declared == CollectGlobalDeclarations(
                    NewAnalysis(mode, IF mode = "Function" THEN params ELSE <<>>), body)
      withParams == IF mode = "Function" THEN FoldLeft(EnsureLocalBinding, declared, params)
                    ELSE declared
      bound == CollectBindings(withParams, body)
  IN  [error |-> v.error,
       a |-> IF v.error THEN bound ELSE Flow(bound, body, <<>>, InitialFlow(bound)).a]
=============================================================================
