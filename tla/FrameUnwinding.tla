--------------------------- MODULE FrameUnwinding ---------------------------
(***************************************************************************)
(* The interpreter's part of exceptions: it runs a function that           *)
(* StatementLowering compiled.  One action per opcode.  A call returns,    *)
(* raises or, since what is called may be the same function, enters a new  *)
(* frame; which of these happens is left open and recorded in `trace'.     *)
(* An exception is known by the position in the trace at which it was      *)
(* made.                                                                   *)
(***************************************************************************)
EXTENDS StatementLowering

CONSTANTS
  MaxCalls,    \* bound on the calls of a behaviour
  EnterCalls,  \* bound on those among which a call may enter the function
  MaxFrames    \* bound on nested activations

VARIABLES
  frames,   \* the Clover frames, the running one last; pc of a caller is the
            \* return pc in its callee's header
  acc,      \* accumulator
  pending,  \* the ThreadState's pending exception, or Nil
  trace,    \* the calls made and the exceptions raised by statements
  result    \* what the outermost activation ended with, or Nil

machine == <<frames, acc, pending, trace, result>>
vars == <<loweringVars, machine>>

Nil == <<"nil">>
None == <<"none">>
Truth(b) == <<"bool", b>>
ClassValue(c) == <<"class", c>>
Manager(i) == <<"manager", i>>
\* context is the position of the exception in __context__, or 0
Exception(c, at, context) == <<"exception", c, at, context>>

NewFrame == [pc |-> 1, regs |-> <<>>, name |-> Nil]

Event(site, outcome, name) == [site |-> site, outcome |-> outcome, name |-> name]
Calls == Cardinality({i \in DOMAIN trace : trace[i].site # 0})

\* Exceptions of calls: one the handlers name and one they do not.
Raised == {"E1", "E2"}
\* The outcomes that are a class, for the class expression of an except clause.
Classes == [isE1 |-> "E1", isE2 |-> "E2"]

Top == Last(frames)
Instruction == code[Top.pc]
Running == todo = <<>> /\ frames # <<>>
Goto(pc) == [frames EXCEPT ![Len(frames)].pc = pc]
Advance == Goto(Top.pc + 1)
SetReg(r, v) ==
  [frames EXCEPT ![Len(frames)] =
     [@ EXCEPT !.pc = @ + 1, !.regs = (r :> v) @@ @]]
SetName(v) ==
  [frames EXCEPT ![Len(frames)] = [@ EXCEPT !.pc = @ + 1, !.name = v]]

\* resolve_exceptional_frame_exit: from the running frame outwards, the first
\* frame whose table covers the instruction before its continuation.
Unwind(continuation) ==
  LET lookup(i) == FindHandler((IF i = Len(frames) THEN continuation
                                ELSE frames[i].pc) - 1)
      catching == {i \in DOMAIN frames : lookup(i) # 0}
      f == Max(catching)
  IN  IF catching = {} THEN <<>>
      ELSE [SubSeq(frames, 1, f) EXCEPT ![f].pc = target[lookup(f)]]

\* An exception e is pending and leaves the running frame at continuation; out
\* of the last frame it goes, still pending, to the native caller.
PropagateFrom(continuation, e) ==
  /\ frames' = Unwind(continuation)
  /\ pending' = e
  /\ result' = IF frames' = <<>> THEN e ELSE result
  /\ UNCHANGED acc

Propagate(e) == PropagateFrom(Top.pc + 1, e)

-----------------------------------------------------------------------------
InitOf(programs) ==
  /\ LoweringInit(programs)
  /\ frames = <<NewFrame>>
  /\ acc = None /\ pending = Nil /\ trace = <<>> /\ result = Nil
Init == InitOf(Programs)

\* op_ldar, op_lda_none, op_lda_true, loads of names
Load ==
  /\ Instruction.op \in {"Ldar", "LdaNone", "LdaTrue", "LdaClass", "LdaManager"}
  /\ LET a == Instruction.arg
     IN  acc' = CASE Instruction.op = "Ldar" -> Top.regs[a]
                  [] Instruction.op = "LdaNone" -> None
                  [] Instruction.op = "LdaTrue" -> Truth(TRUE)
                  [] Instruction.op = "LdaClass" -> ClassValue(a)
                  [] Instruction.op = "LdaManager" -> Manager(a)
  /\ frames' = Advance
  /\ UNCHANGED <<pending, trace, result>>

\* op_star, stores to and deletes of the local name, stores to loop variables,
\* whose values are not kept
Store ==
  /\ \/ Instruction.op = "Star" /\ frames' = SetReg(Instruction.arg, acc)
     \/ Instruction.op = "StoreName" /\ frames' = SetName(acc)
     \/ Instruction.op = "StoreTarget" /\ frames' = Advance
     \/ Instruction.op = "DelName" /\ Top.name # Nil /\ frames' = SetName(Nil)
  /\ UNCHANGED <<acc, pending, trace, result>>

IsTrue(v) == v = Truth(TRUE)

Jump ==
  /\ Instruction.op \in {"Jump", "JumpIfTrue", "JumpIfFalse"}
  /\ LET taken == CASE Instruction.op = "Jump" -> TRUE
                    [] Instruction.op = "JumpIfTrue" -> IsTrue(acc)
                    [] Instruction.op = "JumpIfFalse" -> ~IsTrue(acc)
     IN  frames' = IF taken THEN Goto(target[Instruction.arg]) ELSE Advance
  /\ UNCHANGED <<acc, pending, trace, result>>

\* The call an instruction makes; the __exit__ calls find their context
\* manager in a register.
Site ==
  CASE Instruction.op \in {"Call", "CallNext"} -> Instruction.arg
    [] Instruction.op = "CallExit" -> ExitOf(Top.regs[Instruction.arg][2])
    [] Instruction.op = "CallExitExc" -> ExitExcOf(Top.regs[Instruction.arg][2])

IsCall == Instruction.op \in {"Call", "CallNext", "CallExit", "CallExitExc"}
Record(site, o) == trace' = Append(trace, Event(site, o, Top.name))

IsMatched(pc) == code[pc].op = "Call" /\ code[pc + 1].op = "IsInstance"

CallReturnsTruth ==
  \E b \in IF code[Top.pc + 1].op \in {"JumpIfTrue", "JumpIfFalse"}
           THEN BOOLEAN ELSE {TRUE} :
    acc' = Truth(b) /\ Record(Site, IF b THEN "true" ELSE "false")
CallReturnsClass ==
  \E o \in DOMAIN Classes : acc' = ClassValue(Classes[o]) /\ Record(Site, o)

\* The result is true or false where the code asks for it, and a class where it
\* is matched.
CallReturns ==
  /\ IsCall /\ Calls < MaxCalls
  /\ \/ CallReturnsTruth
     \/ IsMatched(Top.pc) /\ CallReturnsClass
  /\ frames' = Advance
  /\ UNCHANGED <<pending, result>>

\* A native function returns the exception marker (op_return_or_raise_exception
\* in its thunk), or a managed one ends with an exception.
CallRaises ==
  /\ IsCall /\ Calls < MaxCalls
  /\ \E c \in IF Instruction.op = "CallNext" THEN {"StopIteration", "E1"}
              ELSE Raised :
       /\ Record(Site, c)
       /\ Propagate(Exception(c, Len(trace) + 1, 0))

\* enter_function_frame_from_positional_args
CallEnters ==
  /\ IsCall /\ Calls < EnterCalls /\ Len(frames) < MaxFrames
  /\ Record(Site, "enter")
  /\ frames' = Append(Advance, NewFrame)
  /\ UNCHANGED <<acc, pending, result>>

\* op_return, restore_frame_header
ReturnOp ==
  /\ Instruction.op = "Return"
  /\ frames' = Front(frames)
  /\ result' = IF frames' = <<>> THEN acc ELSE result
  /\ UNCHANGED <<acc, pending, trace>>

\* The decisions of the range opcodes count as calls.
PrepSite == 1000
IterSite == 1001
IsRangeOp == Instruction.op \in {"ForPrepRange", "ForIterRange"}
NextSite ==
  CASE IsCall -> Site
    [] Instruction.op = "ForPrepRange" -> PrepSite
    [] Instruction.op = "ForIterRange" -> IterSite

\* op_for_prep_range1 to 3: the name may stand for something else, and the
\* arguments may be wrong; the error is raised with pc behind the instruction,
\* so the handler is looked up for the one that follows.
ForPrepRange ==
  /\ Instruction.op = "ForPrepRange" /\ Calls < MaxCalls
  /\ \/ /\ Record(PrepSite, "true") /\ frames' = Advance
        /\ UNCHANGED <<acc, pending, result>>
     \/ /\ Record(PrepSite, "false") /\ frames' = Goto(target[Instruction.arg])
        /\ UNCHANGED <<acc, pending, result>>
     \/ /\ Record(PrepSite, "E1")
        /\ PropagateFrom(Top.pc + 2, Exception("E1", Len(trace) + 1, 0))

\* op_for_iter_range1, op_for_iter_range_step.  Integers that are not small are
\* refused with pc at the instruction, an overflow is raised with pc behind it.
ForIterRange ==
  /\ Instruction.op = "ForIterRange" /\ Calls < MaxCalls
  /\ \/ /\ Record(IterSite, "true") /\ frames' = Advance
        /\ acc' = None
        /\ UNCHANGED <<pending, result>>
     \/ /\ Record(IterSite, "false") /\ frames' = Goto(target[Instruction.arg])
        /\ acc' = None
        /\ UNCHANGED <<pending, result>>
     \/ /\ Record(IterSite, "E1")
        /\ \E behind \in {1, 2} :
             PropagateFrom(Top.pc + behind, Exception("E1", Len(trace) + 1, 0))

-----------------------------------------------------------------------------
\* An exception made by the interpreter.
RaiseNew(c) == Record(0, c) /\ Propagate(Exception(c, Len(trace) + 1, 0))

\* op_active_exception_is_instance; the classes are unrelated.
IsInstance ==
  /\ Instruction.op = "IsInstance" /\ pending # Nil /\ acc[1] = "class"
  /\ acc' = Truth(pending[2] = acc[2])
  /\ frames' = Advance
  /\ UNCHANGED <<pending, trace, result>>

\* active_exception_required_system_error, exception_handler_type_error
IsInstanceRefuses ==
  /\ Instruction.op = "IsInstance"
  /\ \/ pending = Nil /\ RaiseNew("SystemError")
     \/ pending # Nil /\ acc[1] # "class" /\ RaiseNew("TypeError")

\* Mutant: the exception stays pending.
DrainCopies ==
  /\ pending # Nil
  /\ \/ Instruction.op = "DrainInto" /\ frames' = SetReg(Instruction.arg, pending)
     \/ Instruction.op = "DrainToName" /\ frames' = SetName(pending)
  /\ UNCHANGED <<acc, pending, trace, result>>

\* op_drain_active_exception_into
Drain ==
  /\ pending # Nil
  /\ \/ Instruction.op = "DrainInto" /\ frames' = SetReg(Instruction.arg, pending)
     \/ Instruction.op = "DrainToName" /\ frames' = SetName(pending)
  /\ pending' = Nil
  /\ UNCHANGED <<acc, trace, result>>

\* op_clear_active_exception
ClearActive ==
  /\ Instruction.op = "ClearActive"
  /\ pending' = Nil
  /\ frames' = Advance
  /\ UNCHANGED <<acc, trace, result>>

\* op_reraise_active_exception
Reraise ==
  /\ Instruction.op = "Reraise" /\ pending # Nil
  /\ Propagate(pending)
  /\ UNCHANGED trace

\* raise_unwind, raise_unwind_with_context: acc holds a class, of which an
\* exception is made, or an exception that was caught.
RaiseUnwind ==
  /\ Instruction.op \in {"RaiseUnwind", "RaiseWithContext"}
  /\ LET context == IF Instruction.op = "RaiseUnwind" THEN 0
                    ELSE Top.regs[Instruction.arg][3]
     IN  IF acc[1] = "exception"
         THEN Propagate(acc) /\ UNCHANGED trace
         ELSE /\ Record(0, acc[2])
              /\ Propagate(Exception(acc[2], Len(trace) + 1, context))

RaiseBare == Instruction.op = "RaiseBare" /\ RaiseNew("RuntimeError")

\* assertion_error, assertion_error_with_message
RaiseAssertion == Instruction.op = "RaiseAssertion" /\ RaiseNew("AssertionError")

Execute ==
  \/ Load \/ Store \/ Jump \/ ForPrepRange \/ ForIterRange
  \/ CallReturns \/ CallRaises \/ CallEnters \/ ReturnOp
  \/ IsInstance \/ IsInstanceRefuses \/ Drain \/ ClearActive \/ Reraise \/ RaiseUnwind \/ RaiseBare
  \/ RaiseAssertion

Next ==
  \/ Generate /\ UNCHANGED machine
  \/ Running /\ Execute /\ UNCHANGED loweringVars

Spec == Init /\ [][Next]_vars
=============================================================================
