------------------------------- MODULE MCJit --------------------------------
(***************************************************************************)
(* Parts of the JIT: a behaviour allocates space in the code cache         *)
(* (CodeCache), orders the moves of one parallel assignment                *)
(* (ParallelAssignment), or allocates registers for one function and then  *)
(* runs the machine code (LiveRanges to AllocationMaterializer).           *)
(***************************************************************************)
EXTENDS CodeCache, ParallelAssignment, AllocationMaterializer

-----------------------------------------------------------------------------
(* Parallel assignments: one register and three stack slots, with two, one *)
(* or no scratch registers: two cycles, and a stack slot saved in the      *)
(* scratch register that the next transfer would like to use, both occur.  *)

CONSTANTS x1, x2
MCScratchLists == {<<>>, <<x1>>, <<x1, x2>>}

-----------------------------------------------------------------------------
(* Register allocation of small functions: straight-line code with calls,  *)
(* guards and instructions that need temporaries, and loops whose edges    *)
(* permute or repeat their arguments.  Each function takes two parameters  *)
(* in registers and the frame pointer and the return address in its frame. *)

FramePointer == 3
ReturnAddress == 4

Instr(op, args, exits, result) == [op |-> op, args |-> args, exits |-> exits, result |-> result]

\* Operands by age: the first values, the last ones, or one of each; or
\* the second value twice.
Picks == {"old", "new", "wide", "twice"}
Pick(values, pick) ==
  CASE pick = "old" -> <<values[1], values[2]>>
    [] pick = "new" -> <<values[Len(values)], values[Len(values) - 1]>>
    [] pick = "wide" -> <<values[Len(values)], values[1]>>
    [] pick = "twice" -> <<values[2], values[2]>>

\* acc has the values in scope, the code so far and the next value's number.
AddInstruction(acc, choice) ==
  LET args == Pick(acc.values, choice.pick)
      result == acc.next
  IN  CASE choice.op = "guard" ->
             [values |-> [acc.values EXCEPT ![Len(acc.values)] = result],
              code |-> Append(acc.code, Instr("guard", <<acc.values[Len(acc.values)]>>, acc.values, result)),
              next |-> result + 1]
        [] choice.op # "guard" ->
             [values |-> Append(acc.values, result),
              code |-> Append(acc.code,
                Instr(choice.op, args, IF choice.op = "add" THEN acc.values ELSE <<>>, result)),
              next |-> result + 1]

Body(values, first, choices) ==
  FoldLeft(AddInstruction, [values |-> values, code |-> <<>>, next |-> first], choices)

EntryBlock(instrs, edges) ==
  [params |-> <<1, 2, FramePointer, ReturnAddress>>, code |-> instrs, edges |-> edges, depth |-> 0]

StraightLine(choices) ==
  LET body == Body(<<1, 2>>, 5, choices)
      value == body.values[Len(body.values)]
  IN  [blocks |-> <<EntryBlock(Append(body.code,
                      Instr("return", <<value, FramePointer, ReturnAddress>>, <<>>, NoValue)), <<>>)>>,
       nParameters |-> 2, values |-> 1 .. body.next - 1]

Edge(target, args) == [target |-> target, args |-> args]

\* Values 5 to 8 are the parameters of the loop, 9 to 11 those of its exit.
Loop(entryArgs, choices, backPick) ==
  LET body == Body(<<5, 6>>, 12, choices)
      test == body.next
      back == Pick(body.values, backPick)
      last == body.values[Len(body.values)]
  IN  [blocks |->
         <<EntryBlock(<<Instr("jump", <<>>, <<>>, NoValue)>>,
                      <<Edge(2, entryArgs \o <<FramePointer, ReturnAddress>>)>>),
           [params |-> <<5, 6, 7, 8>>,
            code |-> body.code \o <<Instr("compare", Pick(body.values, "wide"), <<>>, test),
                                    Instr("branch", <<test>>, <<>>, NoValue)>>,
            edges |-> <<Edge(2, back \o <<7, 8>>), Edge(3, <<last, 7, 8>>)>>, depth |-> 1],
           [params |-> <<9, 10, 11>>,
            code |-> <<Instr("return", <<9, 10, 11>>, <<>>, NoValue)>>,
            edges |-> <<>>, depth |-> 0]>>,
       nParameters |-> 2, values |-> 1 .. test]

MCOrder == <<0, 1, 2, 3>>
MCArgs == <<1, 2>>
MCRet == <<3>>
CONSTANTS StraightLength, LoopLength   \* instructions

Operations == {"add", "mul", "call", "guard"}
OpChoices(picks) == [op : Operations, pick : picks]

AllocatedFunctions ==
  {StraightLine(choices) : choices \in [1 .. StraightLength -> OpChoices({"new", "wide"})]} \cup
  {Loop(entryArgs, choices, back) :
     entryArgs \in {<<1, 2>>, <<2, 2>>}, back \in Picks,
     choices \in [1 .. LoopLength -> OpChoices({"old", "new", "wide"})]}

\* These functions are what the proofs are about.
ASSUME FunctionsVerified == \A g \in AllocatedFunctions : CfgVerified(g)

-----------------------------------------------------------------------------
(* The parts                                                               *)

VARIABLE part   \* "cache", "moves" or "registers"

NoMoves == CHOOSE f \in [Locations -> Locations] : \A d \in Locations : f[d] = d
CacheIdle == packed = FALSE
MovesIdle == source = NoMoves /\ scratch = <<>>
Functions == IF part = "registers" THEN AllocatedFunctions ELSE {StraightLine(<<>>)}

JitInit ==
  /\ part \in {"cache", "moves", "registers"}
  /\ CacheInit /\ (part # "cache" => CacheIdle)
  /\ Init /\ (part # "moves" => MovesIdle)
  /\ RegistersInit(Functions)
RegistersPart == JitInit /\ part = "registers"

StepCache == part = "cache" /\ CacheNext /\ UNCHANGED <<part, vars, allocVars, machineVars>>
StepMoves == part = "moves" /\ Next /\ UNCHANGED <<part, cacheVars, allocVars, machineVars>>
StepRegisters == part = "registers" /\ RegistersNext /\ UNCHANGED <<part, cacheVars, vars>>

JitNext == StepCache \/ StepMoves \/ StepRegisters
jitVars == <<part, cacheVars, vars, allocVars, machineVars>>
JitSpec == JitInit /\ [][JitNext]_jitVars /\ WF_jitVars(StepMoves)

-----------------------------------------------------------------------------
\* What an operand finds: what is read late is read after the temporaries
\* and the clobbered registers have been overwritten.
Read(op, r) == IF r.timing = "early" THEN store[r.from] ELSE AfterDestroying(op)[r.from]

\* Through every split, eviction, spill and edge, the machine instruction
\* that uses a value reads the location that holds it, a register if the
\* instruction can only read registers, and a block finds each of its
\* parameters where it expects it (allocation_materializer.cpp, the plan
\* and the emission of transfers).  Operands that name the result of a
\* guard instead of the guarded value are left to ForwardedValuesReachUses.
ValuesReachUses ==
  Running =>
    /\ CurrentOp.kind = "op" =>
         \A r \in ToSet(CurrentOp.reads) :
           /\ problem.origin[at[1]][r.value] = r.value => Read(CurrentOp, r) = r.value
           /\ r.required => r.from.kind = "reg"
    /\ at[2] = 1 => \A v \in DOMAIN ParameterNames(at[1]) : store[ParameterNames(at[1])[v]] = v

\* A value that went through a guard is read where it is, too: the operand
\* names the guard's result, which shares the live range of the guarded
\* value (doc/jit-register-allocation.md, forwarding definitions).
ForwardedValuesReachUses ==
  Running /\ CurrentOp.kind = "op" =>
    \A r \in ToSet(CurrentOp.reads) : Read(CurrentOp, r) = problem.origin[at[1]][r.value]

\* Ordering the moves ends: the fatal "no ready move or cycle" is never reached
\* (parallel_assignment_resolver.h).
MovesEnd == part = "moves" => OrderingEnds
=============================================================================
