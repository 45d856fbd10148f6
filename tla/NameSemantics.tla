--------------------------- MODULE NameSemantics ----------------------------
(***************************************************************************)
(* What can be in the locals of a function wherever it reads one, by the   *)
(* meaning of its statements: every expression may fail, every condition   *)
(* go either way, every iteration be the last and every __exit__ suppress  *)
(* the exception.  A cell is "bound", "unbound" (the marker that a deletion *)
(* or an entry clear leaves) or "stale" (what the frame's memory held).    *)
(* ScopeAnalysis is checked against it.                                    *)
(***************************************************************************)
EXTENDS ScopeAnalysis

\* The states in which a statement ends, by the way it ends, and the reads in it.
Ends(next) ==
  [next |-> next, break |-> {}, continue |-> {}, return |-> {}, raise |-> {}, reads |-> {}]
Join(r, s) == [k \in DOMAIN r |-> r[k] \cup s[k]]
\* r, and then from where it ends normally, s
Then(r, s) == [Join(r, s) EXCEPT !.next = s.next]

Touch(p, name, envs, cell) ==
  LET ok == {e \in envs : name \notin DOMAIN e \/ e[name] = "bound"}
      reads == {[at |-> p, cell |-> e[name]] : e \in {x \in envs : name \in DOMAIN x}}
  IN  [Ends({IF name \in DOMAIN e THEN [e EXCEPT ![name] = cell] ELSE e : e \in ok})
         EXCEPT !.raise = envs, !.reads = reads]
Bind(name, envs) ==
  {IF name \in DOMAIN e THEN [e EXCEPT ![name] = "bound"] ELSE e : e \in envs}

RECURSIVE Reach(_, _, _)
RECURSIVE Rounds(_, _, _)

InOrder(n, p, from, envs) ==
  FoldLeft(LAMBDA r, i : Then(r, Reach(n.ch[i], Append(p, i), r.next)), Ends(envs),
           [i \in 1 .. (Len(n.ch) + 1 - from) |-> from + i - 1])

\* A value is stored in child i of n.
StoreTo(n, p, i, envs) ==
  IF IsVariable(n.ch[i]) THEN Ends(Bind(n.ch[i].name, envs))
  ELSE Reach(n.ch[i], Append(p, i), envs)

\* One round of a loop: its head, then its body, from every state it can begin in.
Head1(n, p, envs) ==
  IF n.kind = "WHILE" THEN Reach(n.ch[1], Append(p, 1), envs)
  ELSE [Ends(envs) EXCEPT !.raise = envs]
Round(n, p, envs) ==
  LET head == Head1(n, p, envs)
      stored == IF n.kind = "WHILE" THEN Ends(head.next) ELSE StoreTo(n, p, 1, head.next)
      at == IF n.kind = "WHILE" THEN 2 ELSE 3
      body == Reach(n.ch[at], Append(p, at), stored.next)
  IN  [Then(Then(head, stored), body) EXCEPT !.next = body.next \cup body.continue]
Rounds(n, p, envs) ==
  LET more == envs \cup Round(n, p, envs).next
  IN  IF more = envs THEN envs ELSE Rounds(n, p, more)

ReachLoop(n, p, envs) ==
  LET orelse == IF n.kind = "WHILE" THEN 3 ELSE 4
      first == IF n.kind = "WHILE" THEN Ends(envs) ELSE Reach(n.ch[2], Append(p, 2), envs)
      begin == Rounds(n, p, first.next)
      r == Round(n, p, begin)
      done == Head1(n, p, begin).next
      e == IF Len(n.ch) = orelse THEN Reach(n.ch[orelse], Append(p, orelse), done)
           ELSE Ends(done)
  IN  [Join(first, Join(r, e)) EXCEPT
         !.next = e.next \cup r.break, !.break = e.break, !.continue = e.continue]

\* The finally part runs after every way out of r, which it ends or lets go on.
Finally(r, n, p) ==
  LET k == Len(n.ch)
      After(way) == Reach(n.ch[k].ch[1], p \o <<k, 1>>, r[way])
      ways == {"next", "break", "continue", "return", "raise"}
      own == [w \in DOMAIN r |-> IF w = "next" THEN {} ELSE UNION {After(x)[w] : x \in ways}]
  IN  [w \in DOMAIN r |-> own[w] \cup IF w \in ways THEN After(w).next ELSE r[w]]

ReachTry(n, p, envs) ==
  LET body == Reach(n.ch[1], Append(p, 1), envs)
      orelse == PartAt(n, "ELSE")
      e == IF orelse = 0 THEN body
           ELSE Then(body, Reach(n.ch[orelse].ch[1], p \o <<orelse, 1>>, body.next))
      Handle(i) ==
        LET h == n.ch[i]  q == Append(p, i)
            typed == IF HandlerHasType(h) THEN Reach(h.ch[1], Append(q, 1), body.raise)
                     ELSE Ends(body.raise)
            named == IF HandlerHasName(h) THEN Bind(h.ch[2].name, typed.next) ELSE typed.next
        IN  Then(typed, Reach(Last(h.ch), Append(q, Len(h.ch)), named))
      handlers == 2 .. LastHandler(n)
      handled == IF handlers = {} THEN e
                 ELSE [w \in DOMAIN e |-> e[w] \cup UNION {Handle(i)[w] : i \in handlers}]
  IN  IF PartAt(n, "FINALLY") = 0 THEN handled ELSE Finally(handled, n, p)

Reach(n, p, envs) ==
  CASE envs = {} -> Ends({})
    [] n.kind = "VARIABLE" -> Touch(p, n.name, envs, "bound")
    [] n.kind \in Assignments ->
         LET read == IF n.op = "NOP" THEN Ends(envs)
                     ELSE Touch(Append(p, 1), n.ch[1].name, envs, "bound")
             value == Then(read, Reach(n.ch[2], Append(p, 2), read.next))
         IN  Then(value, StoreTo(n, p, 1, value.next))
    [] n.kind = "DEL" ->
         FoldLeft(LAMBDA r, i : Then(r, Touch(Append(p, i), n.ch[i].name, r.next, "unbound")),
                  Ends(envs), [i \in DOMAIN n.ch |-> i])
    [] n.kind \in {"SEQUENCE", "EXPRESSION_STATEMENT"} -> InOrder(n, p, 1, envs)
    [] n.kind = "IF" ->
         LET c == Reach(n.ch[1], Append(p, 1), envs)
             b == Reach(n.ch[2], Append(p, 2), c.next)
             e == IF Len(n.ch) = 2 THEN Ends(c.next)
                  ELSE Reach(n.ch[3], Append(p, 3), c.next)
         IN  Then(c, Join(b, e))
    [] n.kind \in {"WHILE", "FOR"} -> ReachLoop(n, p, envs)
    [] n.kind = "WITH" ->
         LET r == InOrder(n, p, 1, envs) IN [r EXCEPT !.next = @ \cup r.raise]
    [] n.kind = "WITH_ITEM" ->
         LET r == Reach(n.ch[1], Append(p, 1), envs)
         IN  IF Len(n.ch) = 2 THEN Then(r, StoreTo(n, p, 2, r.next)) ELSE r
    [] n.kind = "TRY" -> ReachTry(n, p, envs)
    [] n.kind = "RETURN" ->
         LET r == InOrder(n, p, 1, envs) IN [r EXCEPT !.next = {}, !.return = @ \cup r.next]
    [] n.kind = "RAISE" ->
         LET r == InOrder(n, p, 1, envs) IN [r EXCEPT !.next = {}, !.raise = @ \cup r.next]
    [] n.kind = "ASSERT" ->
         LET r == InOrder(n, p, 1, envs)
         IN  [r EXCEPT !.next = Reach(n.ch[1], Append(p, 1), envs).next]
    [] n.kind = "BREAK" -> [Ends({}) EXCEPT !.break = envs]
    [] n.kind = "CONTINUE" -> [Ends({}) EXCEPT !.continue = envs]
    [] n.kind \in {"FUNCTION_DEF", "CLASS_DEF"} ->
         LET r == Reach(Node("OPERATION", "", "", EvaluatedByDefinition(n)), Append(p, 1), envs)
         IN  [r EXCEPT !.next = Bind(n.name, @)]
    [] n.kind \in {"IMPORT", "IMPORT_FROM"} ->
         FoldLeft(LAMBDA r, c : [r EXCEPT !.next = Bind(c.name, @), !.raise = @ \cup r.next],
                  Ends(envs), AliasTargets(n))
    [] n.kind = "ANN_ASSIGN" /\ Len(n.ch) = 3 ->
         LET r == Reach(n.ch[3], Append(p, 3), envs) IN Then(r, StoreTo(n, p, 1, r.next))
    [] n.kind = "OPERATION" ->
         LET r == InOrder(n, p, 1, envs) IN [r EXCEPT !.raise = @ \cup r.next]
    [] OTHER -> Ends(envs)

\* The locals when the function has been entered and its prologue has run.
Entry(a) ==
  [x \in LocalNames(a) |-> CASE x \in a.present -> "bound"
                             [] x \notin a.present /\ x \in a.clear -> "unbound"
                             [] OTHER -> "stale"]

\* A local that the analysis calls present is bound whenever it is read there, and
\* a checked read never meets what the frame's memory held before the call.
PresenceIsSound(a, body) ==
  \A r \in Reach(body, <<>>, {Entry(a)}).reads : \A x \in a.accesses :
    x.at = r.at /\ x.use # "store" =>
      /\ x.presence = "Present" => r.cell = "bound"
      /\ r.cell # "stale"

-----------------------------------------------------------------------------
RECURSIVE Occurrences(_)
\* The names in the text of a code object, in order; [name, declared] each.
Occurrences(n) ==
  CASE IsVariable(n) -> <<[name |-> n.name, how |-> "used"]>>
    [] n.kind = "GLOBAL" -> [i \in DOMAIN n.ch |-> [name |-> n.ch[i].name, how |-> "declared"]]
    [] n.kind = "ANN_ASSIGN" ->
         (IF IsVariable(n.ch[1]) THEN <<[name |-> n.ch[1].name, how |-> "annotated"]>>
          ELSE Occurrences(n.ch[1]))
           \o (IF Len(n.ch) = 3 THEN Occurrences(n.ch[3]) ELSE <<>>)
    [] n.kind \in {"FUNCTION_DEF", "CLASS_DEF"} ->
         FlattenSeq([i \in DOMAIN EvaluatedByDefinition(n) |->
                       Occurrences(EvaluatedByDefinition(n)[i])])
           \o <<[name |-> n.name, how |-> "used"]>>
    [] n.kind \in {"IMPORT", "IMPORT_FROM"} ->
         [i \in DOMAIN AliasTargets(n) |-> [name |-> AliasTargets(n)[i].name, how |-> "used"]]
    [] OTHER -> FlattenSeq([i \in DOMAIN n.ch |-> Occurrences(n.ch[i])])

\* Exactly the functions are rejected that declare a parameter, or a name they have
\* used above, global, or annotate a name they declare so; in the others a name has
\* one scope and one slot everywhere, and different locals have different slots.
NamesAreResolved(r, params, body) ==
  LET text == Occurrences(body)
      Clash(i, j) == /\ text[i].name = text[j].name
                     /\ text[i].how = "annotated" \/ (text[i].how = "used" /\ i < j)
      bad == \E j \in DOMAIN text :
               /\ text[j].how = "declared"
               /\ text[j].name \in ToSet(params) \/ \E i \in DOMAIN text : Clash(i, j)
      declared == {text[j].name : j \in {i \in DOMAIN text : text[i].how = "declared"}}
  IN  /\ r.error <=> bad
      /\ \A x, y \in r.a.accesses :
           /\ x.name = y.name => x.scope = y.scope /\ x.slot = y.slot
           /\ x.name # y.name /\ x.scope = "Local" /\ y.scope = "Local" => x.slot # y.slot
      /\ \A x \in r.a.accesses :
           /\ x.name \in declared => x.scope = "Global"
           /\ x.use # "load" /\ x.name \notin declared => x.scope = "Local"
=============================================================================
