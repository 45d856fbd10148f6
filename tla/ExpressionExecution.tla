------------------------ MODULE ExpressionExecution -------------------------
(***************************************************************************)
(* The interpreter on the code of one statement.  What an instruction asks *)
(* of the objects involved (an operator, a call, an attribute, a global) is *)
(* an event: it may return a value that is true, false or of a type that   *)
(* has no truth value here, or raise.  A Python function that an event     *)
(* runs has its frame where the event puts it and overwrites the registers *)
(* from there on.                                                          *)
(***************************************************************************)
EXTENDS ExpressionLowering

VARIABLES
  statement,    \* the statement
  lowered,      \* its code
  at,           \* the next instruction
  accumulator,
  registers,
  events,       \* what has been asked so far, with the outcomes
  ended         \* "no", "done", "raised" or "refused"

CONSTANTS LastRegister, FirstEvent

None == -1
True == -2
False == -3
NotPresent == -4
Garbage == -5
Boolean(b) == IF b THEN True ELSE False

EventNumber(v) == v - FirstEvent
\* value_truthy_mask, op_*_float_truthiness
Truthiness(v) ==
  CASE v > FirstEvent -> events[EventNumber(v)].outcome
    [] v <= FirstEvent -> IF v \in {None, False, 0} THEN "false" ELSE "true"

Current == lowered.code[at]
Running == ended = "no" /\ at <= Len(lowered.code)
Continue(n) == at' = at + 1 + n /\ UNCHANGED <<statement, lowered, ended>>
Stop(how) == ended' = how /\ UNCHANGED <<statement, lowered, at>>
Is(ops) == Running /\ Current.op \in ops

\* An event on args; the frames it needs begin at register `frame'.
Happens(op, name, args, frame, outcomes) ==
  \E o \in outcomes :
    /\ events' = Append(events, [op |-> op, name |-> name, args |-> args, outcome |-> o])
    /\ registers' = [r \in DOMAIN registers |-> IF r >= frame THEN Garbage ELSE registers[r]]
    /\ IF o = "raised" THEN Stop("raised") /\ UNCHANGED accumulator
       ELSE Continue(0) /\ accumulator' = FirstEvent + Len(events')
Answers == {"true", "false", "neither", "raised"}
Asks(op, name, args) == Happens(op, name, args, FirstFree(lowered), Answers)
Makes(op, name, args) == Happens(op, name, args, FirstFree(lowered), {"true"})

Span(r, n) == [i \in 1 .. n |-> registers[r + i - 1]]
Reg(r) == registers[r]

-----------------------------------------------------------------------------
LoadAccumulator ==
  /\ Is({"LdaNone", "LdaTrue", "LdaFalse", "LdaConstant", "Ldar"})
  /\ accumulator' = CASE Current.op = "LdaNone" -> None
                      [] Current.op = "LdaTrue" -> True
                      [] Current.op = "LdaFalse" -> False
                      [] Current.op = "LdaConstant" -> Current.n
                      [] Current.op = "Ldar" -> Reg(Current.r)
  /\ Continue(0) /\ UNCHANGED <<registers, events>>

LoadLocalChecked ==
  /\ Is({"LoadLocalChecked"})
  /\ accumulator' = Reg(Current.r)
  /\ IF Reg(Current.r) = NotPresent THEN Stop("raised") ELSE Continue(0)
  /\ UNCHANGED <<registers, events>>

StoreRegister ==
  /\ Is({"Star", "Mov"})
  /\ registers' = [registers EXCEPT ![Current.r] =
                     IF Current.op = "Star" THEN accumulator ELSE Reg(Current.s)]
  /\ Continue(0) /\ UNCHANGED <<accumulator, events>>

DelLocal ==
  /\ Is({"DelLocal"})
  /\ IF Reg(Current.r) = NotPresent THEN Stop("raised") /\ UNCHANGED registers
     ELSE Continue(0) /\ registers' = [registers EXCEPT ![Current.r] = NotPresent]
  /\ UNCHANGED <<accumulator, events>>

GlobalOp ==
  /\ Is({"LdaGlobal", "StaGlobal", "DelGlobal"})
  /\ Asks(Current.op, Current.x, IF Current.op = "StaGlobal" THEN <<accumulator>> ELSE <<>>)

\* Add and the like; Contains has the needle in the register.
OperatorOp ==
  /\ Is({"Operator", "OperatorSmi", "Unary"})
  /\ Asks("Operator", Current.x,
          CASE Current.op = "Operator" -> <<Reg(Current.r), accumulator>>
            [] Current.op = "OperatorSmi" -> <<accumulator, Current.n>>
            [] Current.op = "Unary" -> <<accumulator>>)

IdentityTest ==
  /\ Is({"TestIs", "TestIsNot"})
  /\ accumulator' = Boolean((Current.op = "TestIs") = (Reg(Current.r) = accumulator))
  /\ Continue(0) /\ UNCHANGED <<registers, events>>

\* A value without truth raises TypeError.
TruthTest ==
  /\ Is({"Not", "ToBool", "ToBoolNot"})
  /\ IF Truthiness(accumulator) = "neither" THEN Stop("raised") /\ UNCHANGED accumulator
     ELSE /\ accumulator' = Boolean((Truthiness(accumulator) = "true") = (Current.op = "ToBool"))
          /\ Continue(0)
  /\ UNCHANGED <<registers, events>>

ConditionalJump ==
  /\ Is({"JumpIfFalse", "JumpIfTrue"})
  /\ LET taken == Truthiness(accumulator) = IF Current.op = "JumpIfTrue" THEN "true" ELSE "false"
     IN  CASE Truthiness(accumulator) = "neither" -> Stop("raised")
           [] Truthiness(accumulator) # "neither" -> Continue(IF taken THEN Current.n ELSE 0)
  /\ UNCHANGED <<accumulator, registers, events>>

AttributeOp ==
  /\ Is({"LoadAttr", "StoreAttr", "DelAttr"})
  /\ Asks(Current.op, Current.x,
          IF Current.op = "StoreAttr" THEN <<Reg(Current.r), accumulator>> ELSE <<Reg(Current.r)>>)

ItemOp ==
  /\ Is({"GetItem", "SetItem", "DelItem"})
  /\ Asks(Current.op, <<>>,
          IF Current.op = "SetItem" THEN <<Reg(Current.r), accumulator, Reg(Current.s)>>
          ELSE <<Reg(Current.r), accumulator>>)

\* The callee's frame begins with the arguments.
CallOp ==
  /\ Is({"Call", "CallMethod"})
  /\ LET receivers == IF Current.op = "Call" THEN 0 ELSE 1
         callable == IF Current.op = "Call" THEN <<Reg(Current.r)>> ELSE <<>>
     IN  Happens(Current.op, Current.x,
                 callable \o Span(Current.s, Current.n + receivers) \o Span(Current.k, Current.m),
                 Current.s, Answers)

CallSpecialMethod ==
  /\ Is({"CallSpecialMethod"})
  /\ Happens(Current.op, Current.x, Span(Current.s, Current.n + 1), Current.s, Answers)

CreateClass ==
  /\ Is({"CreateClass"})
  /\ Happens(Current.op, Current.x, <<Reg(Current.s + 1)>>, Current.s, Answers)

\* CreateDict hashes the keys.
CreateOp ==
  /\ Is({"CreateTuple", "CreateList", "CreateDict"})
  /\ Happens(Current.op, <<>>, Span(Current.r, IF Current.op = "CreateDict" THEN 2 * Current.n ELSE Current.n),
             FirstFree(lowered), IF Current.op = "CreateDict" THEN {"true", "raised"} ELSE {"true"})

CreateSlice ==
  /\ Is({"CreateBinarySlice", "CreateTernarySlice"})
  /\ Makes("CreateSlice", <<>>,
           IF Current.op = "CreateBinarySlice" THEN <<Reg(Current.r), accumulator, None>>
           ELSE <<Reg(Current.r), Reg(Current.s), accumulator>>)

CreateFunction ==
  /\ Is({"CreateFunction", "CreateFunctionWithDefaults"})
  /\ Makes("CreateFunction", Current.x,
           IF Current.op = "CreateFunction" THEN <<>> ELSE <<Reg(Current.r)>>)

ImportOp ==
  /\ Is({"ImportName", "ImportFrom"})
  /\ Asks(Current.op, Current.x, <<accumulator>>)

HelperOp ==
  /\ Is({"RuntimeIntrinsic", "TernaryPow", "Helper"})
  /\ Asks(Current.op, Current.x,
          CASE Current.op = "RuntimeIntrinsic" -> <<>>
            [] Current.op = "TernaryPow" -> <<Reg(Current.r), Reg(Current.s), accumulator>>
            [] Current.op = "Helper" -> <<accumulator>>)

Finish ==
  /\ ended = "no" /\ at > Len(lowered.code)
  /\ ended' = "done"
  /\ UNCHANGED <<statement, lowered, at, accumulator, registers, events>>

\* Code with a SyntaxError is not run.
Refusal == \E i \in DOMAIN lowered.code : lowered.code[i].op = "SyntaxError"
ExecutionInit(s, locals) ==
  /\ statement = s
  /\ lowered = CodeOf(s)
  /\ at = 1
  /\ accumulator = None
  /\ registers = [r \in 0 .. LastRegister |-> IF r \in DOMAIN locals THEN locals[r] ELSE Garbage]
  /\ events = <<>>
  /\ ended = IF Refusal THEN "refused" ELSE "no"

ExecutionNext ==
  \/ LoadAccumulator \/ LoadLocalChecked \/ StoreRegister \/ DelLocal \/ GlobalOp
  \/ OperatorOp \/ IdentityTest \/ TruthTest \/ ConditionalJump \/ AttributeOp \/ ItemOp
  \/ CallOp \/ CallSpecialMethod \/ CreateClass \/ CreateOp \/ CreateSlice \/ CreateFunction
  \/ ImportOp \/ HelperOp \/ Finish
=============================================================================
