------------------------- MODULE StatementSemantics -------------------------
(***************************************************************************)
(* What the statements of StatementLowering mean, by structural recursion  *)
(* and without code, tables or registers.  A run of a statement is given   *)
(* what its calls do, in order (choices), and yields the calls it makes    *)
(* and how it completes.  FrameUnwinding is checked against it.            *)
(***************************************************************************)
EXTENDS FrameUnwinding

Normal == <<"normal">>
OutOfChoices == <<"out">>
Returns(v) == <<"return", v>>
Raises(e) == <<"raise", e>>

IsRaise(c) == c[1] = "raise"

\* A run: the choices left, the calls made, how it completed, the value of the
\* last call, the local name, and the call for which no choice was left.
Start(choices) ==
  [choices |-> choices, trace |-> <<>>, c |-> Normal, v |-> None, name |-> Nil,
   site |-> 0]

Throw(s, cls, context) ==
  [s EXCEPT !.trace = Append(@, Event(0, cls, s.name)),
            !.c = Raises(Exception(cls, Len(s.trace) + 1, context))]

RECURSIVE Exec(_, _, _)
RECURSIVE ExecSeq(_, _, _)
RECURSIVE Loop(_, _, _, _)
RECURSIVE Handle(_, _, _)

\* A call; entering the function again is a call whose result is its result.
Ask(s, site) ==
  LET o == Head(s.choices)
      t == [s EXCEPT !.choices = Tail(@),
                     !.trace = Append(@, Event(site, o, s.name))]
      callee == Exec(program, [t EXCEPT !.name = Nil], Nil)
  IN  CASE s.choices = <<>> -> [s EXCEPT !.c = OutOfChoices, !.site = site]
        [] s.choices # <<>> /\ o \in {"true", "false"} ->
             [t EXCEPT !.v = Truth(o = "true")]
        [] s.choices # <<>> /\ o \in DOMAIN Classes ->
             [t EXCEPT !.v = ClassValue(Classes[o])]
        [] s.choices # <<>> /\ o \in Raised \cup {"StopIteration"} ->
             [t EXCEPT !.c = Raises(Exception(o, Len(t.trace), 0))]
        [] s.choices # <<>> /\ o = "enter" ->
             [callee EXCEPT
                !.name = s.name,
                !.v = IF callee.c[1] = "return" THEN callee.c[2] ELSE None,
                !.c = IF callee.c[1] \in {"raise", "out"} THEN @ ELSE Normal]

ExecSeq(ns, s, handled) ==
  IF ns = <<>> \/ s.c # Normal THEN s
  ELSE ExecSeq(Tail(ns), Exec(Head(ns), s, handled), handled)

\* Rounds of a loop; ask is the call that decides whether there is another.
\* An iterator ends by raising StopIteration, a condition by being false.
Loop(n, s, ask, handled) ==
  LET t == Ask(s, ask)
      ended == \/ t.c = Normal /\ ask # NextOf(n.id) /\ ~IsTrue(t.v)
               \/ IsRaise(t.c) /\ ask = NextOf(n.id) /\ n.k # "while"
                    /\ t.c[2][2] = "StopIteration"
      body == Exec(n.body, t, handled)
  IN  CASE ended -> Exec(n.orelse, [t EXCEPT !.c = Normal], handled)
        [] ~ended /\ t.c # Normal -> t
        [] OTHER ->
             CASE body.c = <<"break">> -> [body EXCEPT !.c = Normal]
               [] body.c \in {Normal, <<"continue">>} ->
                    Loop(n, [body EXCEPT !.c = Normal], ask, handled)
               [] OTHER -> body

Iterate(n, s, handled) ==
  LET t == Ask(s, IterOf(n.id))
  IN  IF t.c # Normal THEN t ELSE Loop(n, t, NextOf(n.id), handled)

\* The first handler whose class is that of e; each class is asked for only when
\* those before it did not fit.
Handle(handlers, s, e) ==
  LET h == Head(handlers)
      t == IF h.site = 0 THEN [s EXCEPT !.v = ClassValue(h.cls)] ELSE Ask(s, h.site)
      u == Exec(h.body, [t EXCEPT !.name = IF h.named THEN e ELSE @], e)
  IN  IF handlers = <<>> THEN [s EXCEPT !.c = Raises(e)]
      ELSE IF t.c # Normal THEN t
      ELSE IF t.v[1] # "class" THEN Throw(t, "TypeError", 0)
      ELSE IF t.v[2] \notin {"", e[2]} THEN Handle(Tail(handlers), t, e)
      ELSE [u EXCEPT !.name = IF h.named THEN Nil ELSE @]

\* try without finally
ExecHandlers(n, s, handled) ==
  LET t == Exec(n.body, s, handled)
  IN  IF t.c = Normal THEN Exec(n.orelse, t, handled)
      ELSE IF IsRaise(t.c)
      THEN Handle(n.handlers, [t EXCEPT !.c = Normal], t.c[2])
      ELSE t

\* finally runs however the statement completes, and may change how it does.
ExecFinally(n, s, handled) ==
  LET t == Exec([n EXCEPT !.final = absent], s, handled)
      u == Exec(n.final, [t EXCEPT !.c = Normal],
                IF IsRaise(t.c) THEN t.c[2] ELSE handled)
  IN  IF t.c = OutOfChoices THEN t
      ELSE IF u.c = Normal THEN [u EXCEPT !.c = t.c] ELSE u

ExecWith(n, s, handled) ==
  LET t == Ask(s, n.id)
      body == Exec(n.body, t, handled)
      raised == IsRaise(body.c)
      u == Ask([body EXCEPT !.c = Normal],
               IF raised THEN ExitExcOf(n.id) ELSE ExitOf(n.id))
  IN  IF t.c # Normal THEN t
      ELSE IF body.c = OutOfChoices THEN body
      ELSE IF u.c # Normal \/ (raised /\ IsTrue(u.v)) THEN u
      ELSE [u EXCEPT !.c = body.c]

Branch(n, s, handled) ==
  LET t == Ask(s, n.id)
  IN  CASE t.c # Normal -> t
        [] t.c = Normal /\ n.k = "if" ->
             Exec(IF IsTrue(t.v) THEN n.then ELSE n.orelse, t, handled)
        [] t.c = Normal /\ n.k = "assert" ->
             IF IsTrue(t.v) THEN t ELSE Throw(t, "AssertionError", 0)

\* `range' may be the builtin or not.
ExecRange(n, s, handled) ==
  LET t == Ask(s, PrepSite)
      u == Ask(t, RangeOf(n.id))
  IN  CASE t.c # Normal -> t
        [] t.c = Normal /\ IsTrue(t.v) -> Loop(n, t, IterSite, handled)
        [] OTHER -> IF u.c # Normal THEN u ELSE Iterate(n, u, handled)

\* handled is the exception that a bare raise means and that becomes the
\* context of a raise, or Nil.
Exec(n, s, handled) ==
  CASE n.k \in {"absent", "pass"} -> s
    [] n.k = "seq" -> ExecSeq(n.body, s, handled)
    [] n.k = "call" -> Ask(s, n.id)
    [] n.k \in {"if", "assert"} -> Branch(n, s, handled)
    [] n.k = "while" -> Loop(n, s, n.id, handled)
    [] n.k = "for" -> Iterate(n, s, handled)
    [] n.k = "range" -> ExecRange(n, s, handled)
    [] n.k = "with" -> ExecWith(n, s, handled)
    [] n.k = "try" -> IF n.final = absent THEN ExecHandlers(n, s, handled)
                      ELSE ExecFinally(n, s, handled)
    [] n.k \in {"break", "continue"} -> [s EXCEPT !.c = <<n.k>>]
    [] n.k = "return" -> [s EXCEPT !.c = Returns(Truth(TRUE))]
    [] n.k = "raise" -> Throw(s, n.cls, IF handled = Nil THEN 0 ELSE handled[3])
    [] n.k = "reraise" -> IF handled = Nil THEN Throw(s, "RuntimeError", 0)
                          ELSE [s EXCEPT !.c = Raises(handled)]

-----------------------------------------------------------------------------
ChoicesMade ==
  LET calls == SelectSeq(trace, LAMBDA e : e.site # 0)
  IN  [i \in DOMAIN calls |-> calls[i].outcome]

\* The function's activation ended, or the bound on calls was met at a call.
Ended == todo = <<>> /\ frames = <<>>
AtBound == Running /\ Calls = MaxCalls /\ (IsCall \/ IsRangeOp)

\* The interpreter has nothing else to do there, and only there.
Idle == (Ended \/ AtBound) /\ UNCHANGED vars
StatementSpec == Init /\ [][Next \/ Idle]_vars

\* A function that was entered for the class of an except clause handled an
\* exception of its own: the one to be matched, which was pending all the time,
\* is gone (codegen.cpp:2234), and the clause raises SystemError.
MatchedExceptionLost ==
  \E entered, refused \in DOMAIN trace :
    /\ entered < refused
    /\ trace[entered].outcome = "enter"
    /\ trace[entered].site \in {code[pc].arg : pc \in {p \in DOMAIN code : IsMatched(p)}}
    /\ trace[refused].outcome = "SystemError"

\* A compiled function makes the calls that its statements prescribe, in their
\* order, with the handler's name bound as they prescribe, and ends with the
\* same value or the same exception and __context__, whatever its calls do:
\* every raise finds its handler in the right frame, every finally and
\* __exit__ runs exactly once on every way out.  Except where the exception is
\* lost while it is matched (MatchedExceptionLost).  About the programs of the
\* run: a finally body that a jump inlines does not itself leave an inner loop
\* or handler of the protected part (codegen.cpp:1838 takes the loops and
\* caught exceptions of the jump for it), and no program jumps out of the body
\* of a try with handlers through a cleanup, which is for
\* InnermostHandlerFirst.
RunsAsWritten ==
  LET m == Exec(program, Start(ChoicesMade), Nil)
  IN  \/ MatchedExceptionLost
      \/ /\ Ended => /\ m.trace = trace
                     /\ result = CASE m.c = Normal -> None
                                   [] m.c[1] \in {"return", "raise"} -> m.c[2]
                                   [] m.c = OutOfChoices -> Nil
         /\ AtBound => m.trace = trace /\ m.c = OutOfChoices /\ m.site = NextSite

HandlerOps == {"IsInstance", "DrainInto", "DrainToName", "ClearActive", "Reraise"}

\* The call at pc is made for the class of an except clause, or the running
\* function was entered by such a call.
MadeForMatching ==
  \/ IsCall /\ IsMatched(Top.pc)
  \/ \E i \in DOMAIN frames : i < Len(frames) /\ IsMatched(frames[i].pc - 1)

\* An exception is pending from where it is raised until its handler takes it
\* and not longer: handler code finds it, and no call or return happens with a
\* stale one, which native code would take for a failure of its own.  Except
\* for the class expression of an except clause, which the code evaluates with
\* the exception still pending (codegen.cpp:2234): its call, the calls and
\* returns of the functions it enters (MadeForMatching), and the match itself,
\* which then may find that one of those has taken the exception.
PendingUntilHandled ==
  Running =>
    /\ Instruction.op \in HandlerOps =>
         pending # Nil \/ (Instruction.op = "IsInstance" /\ IsMatched(Top.pc - 1))
    /\ IsCall \/ Instruction.op = "Return" => pending = Nil \/ MadeForMatching
=============================================================================
