------------------------ MODULE AllocationMaterializer ------------------------
(***************************************************************************)
(* From an allocation to machine code.  The transfers of each point of the *)
(* code and the copies of operands into argument registers become parallel *)
(* assignments; the transfers of an edge become a block of their own.  The *)
(* rewriter then renames: an operand stands for the location of the last   *)
(* instruction that defined its name, and a transfer redefines the name of *)
(* the value that opened its live range.                                   *)
(*                                                                         *)
(* The machine code is then run.  A location holds the value whose live    *)
(* range supplied its bits, or Junk.                                       *)
(***************************************************************************)
EXTENDS RegisterAssigner

VARIABLES
  machineCode,  \* the machine code of each block, <<>> until it is emitted
  faults,       \* why materialization stopped the process, if it did
  at,           \* the block and the index of the next machine instruction
  store         \* what each location holds

machineVars == <<machineCode, faults, at, store>>

Junk == 0

-----------------------------------------------------------------------------
(* Parallel assignments: sets of [from, to, name], where `from' is the     *)
(* location the plan moves from and `name' the value that is moved.        *)

MovesOf(assignments) == {a \in assignments : a.from # a.to}

\* Faults: the reasons why the materializer or the rewriter calls fatal().
FaultIf(condition, name) == IF condition THEN {name} ELSE {}

Conflicts(assignments) ==
  FaultIf(\E x, y \in MovesOf(assignments) : x # y /\ x.to = y.to, "duplicate destination")

TransfersAt(point) == {t \in transfers : t.point = point}

PointPosition(point) ==
  IF point.kind = "entry" THEN problem.starts[point.block]
  ELSE EarlyOf(problem.starts[point.block], point.at)

\* The ranges that a transfer at a position could be moving.
TransferSources(t, pos) ==
  {f.range : f \in {f \in bundles[t.from].frags :
                      f.to = pos /\ problem.ranges[f.range].key[1] = "value"}}

OriginOfRange(r) == problem.ranges[r].key[2]

TransferAssignment(t, pos) ==
  [from |-> place[t.from], to |-> place[t.to],
   name |-> OriginOfRange(CHOOSE r \in TransferSources(t, pos) : TRUE)]

\* A mistake: a transfer that loads a register from the frame is not named.
RenameRegistersOnly(names, moves) ==
  [v \in DOMAIN names |-> IF \E m \in moves : m.name = v /\ m.from.kind = "reg"
                            THEN (CHOOSE m \in moves : m.name = v).to ELSE names[v]]

\* Renaming after some moves: only the name that opened the range changes.
Rename(names, moves) ==
  [v \in DOMAIN names |-> IF \E m \in moves : m.name = v
                            THEN (CHOOSE m \in moves : m.name = v).to ELSE names[v]]

\* The machine reads the location its operand's name stands for.
Emitted(names, moves) == {[from |-> names[m.name], to |-> m.to] : m \in moves}

-----------------------------------------------------------------------------
(* An instruction: transfers, copies of operands, then the instruction.    *)

OccurrenceAt(kind, b, i, k) ==
  CHOOSE o \in DOMAIN problem.occs : problem.occs[o].anchor = Anchor(kind, b, i, k)

LocationAt(kind, b, i, k) == place[BundleCovering(OccurrenceAt(kind, b, i, k))]

CopiedOperands(b, i) ==
  {k \in DOMAIN Inputs(problem.graph.blocks[b].code[i]) :
     problem.occs[OccurrenceAt("operand", b, i, k)].copy # NoRegister}

\* Where the k-th operand is before the transfers of the instruction.
IncomingLocation(b, i, k) ==
  LET bundle == BundleCovering(OccurrenceAt("operand", b, i, k))
      into == {t \in TransfersAt(BeforePoint(b, i)) : t.to = bundle}
  IN  IF into = {} THEN place[bundle] ELSE place[(CHOOSE t \in into : TRUE).from]

\* Copies are made together with the transfers when they all come from
\* registers, and after them otherwise.
CombinedWithTransfers(b, i) ==
  /\ TransfersAt(BeforePoint(b, i)) # {}
  /\ \A k \in CopiedOperands(b, i) : IncomingLocation(b, i, k).kind = "reg"

OperandCopies(b, i) ==
  {[from |-> IF CombinedWithTransfers(b, i) THEN IncomingLocation(b, i, k)
             ELSE LocationAt("operand", b, i, k),
    to |-> Reg(problem.occs[OccurrenceAt("operand", b, i, k)].copy),
    name |-> Inputs(problem.graph.blocks[b].code[i])[k].value] : k \in CopiedOperands(b, i)}

MoveOp(moves) == [kind |-> "moves", moves |-> moves]

InstructionOp(b, i, names) ==
  LET instr == problem.graph.blocks[b].code[i]
      inputs == Inputs(instr)
      where(k) == IF k \in CopiedOperands(b, i)
                    THEN Reg(problem.occs[OccurrenceAt("operand", b, i, k)].copy)
                    ELSE names[inputs[k].value]
  IN  [kind |-> "op",
       reads |-> [k \in DOMAIN inputs |->
                    [value |-> inputs[k].value, timing |-> inputs[k].timing, from |-> where(k),
                     required |-> RequiresRegister(inputs[k].req)]],
       destroys |-> {Reg(r) : r \in Clobbers(instr)}
                      \cup (IF HasTemporary(instr) THEN {LocationAt("temporary", b, i, 0)} ELSE {}),
       result |-> IF instr.result = NoValue \/ Forwards(instr) THEN Nowhere
                  ELSE LocationAt("result", b, i, 0),
       value |-> instr.result]

WithResult(b, i, names) ==
  LET result == problem.graph.blocks[b].code[i].result
  IN  IF result = NoValue THEN names
      ELSE (result :> LocationAt("result", b, i, 0)) @@ names

PointFaults(point) ==
  FaultIf(\E t \in TransfersAt(point) : TransferSources(t, PointPosition(point)) = {},
          "no value to transfer")

TransferAssignments(point) ==
  {TransferAssignment(t, PointPosition(point)) : t \in TransfersAt(point)}

\* The names before an instruction and the code so far become the names
\* after it and the code with it.
MaterializeInstruction(b, acc, i) ==
  LET moves == MovesOf(TransferAssignments(BeforePoint(b, i)))
      renamed == Rename(acc.names, moves)
      copies == OperandCopies(b, i)
      together == MovesOf(TransferAssignments(BeforePoint(b, i)) \cup copies)
      apart == <<MoveOp(Emitted(acc.names, moves)), MoveOp(Emitted(renamed, MovesOf(copies)))>>
  IN  [names |-> WithResult(b, i, renamed),
       ops |-> acc.ops \o (IF CombinedWithTransfers(b, i) THEN <<MoveOp(Emitted(acc.names, together))>>
                           ELSE apart)
                       \o <<InstructionOp(b, i, renamed)>>]

InstructionFaults(b, i) ==
  LET assignments == TransferAssignments(BeforePoint(b, i))
      copies == OperandCopies(b, i)
  IN  PointFaults(BeforePoint(b, i))
        \cup (IF CombinedWithTransfers(b, i) THEN Conflicts(assignments \cup copies)
              ELSE Conflicts(assignments) \cup Conflicts(copies))

-----------------------------------------------------------------------------
(* An edge.  The transfers at the exit of the block that lead to one of    *)
(* its arguments come first, then the ones from arguments to parameters.   *)

ArgumentBundle(b, e, k) == BundleCovering(OccurrenceAt("edge", b, e, k))
ParameterBundle(b, e, k) ==
  BundleCovering(OccurrenceAt("result", problem.graph.blocks[b].edges[e].target, 0, k))

ExitTransfers(b, e) ==
  {t \in TransfersAt(ExitPoint(b)) :
     \E k \in DOMAIN problem.graph.blocks[b].edges[e].args : t.to = ArgumentBundle(b, e, k)}

\* Where an argument is when the edge is taken.
LeavingBundle(b, e, k) ==
  LET into == {t \in ExitTransfers(b, e) : t.to = ArgumentBundle(b, e, k)}
  IN  IF into = {} THEN ArgumentBundle(b, e, k) ELSE (CHOOSE t \in into : TRUE).from

NeedsBlock(b, e) == ExitTransfers(b, e) # {} \/ TransfersAt(EdgePoint(b, e)) # {}

PlainMove(from, to) == [from |-> place[from], to |-> place[to]]

ExitMoves(b, e) == MovesOf({PlainMove(t.from, t.to) : t \in ExitTransfers(b, e)})
EdgeMoves(b, e) ==
  MovesOf({PlainMove(ArgumentBundle(b, e, k), ParameterBundle(b, e, k)) :
             k \in DOMAIN problem.graph.blocks[b].edges[e].args})

\* An argument is passed twice and moved only for its first parameter; the
\* output for the second is no instruction of the edge's block.
OutputNotEmitted(b, e) ==
  \E j, k \in DOMAIN problem.graph.blocks[b].edges[e].args :
    /\ j < k /\ LeavingBundle(b, e, j) = LeavingBundle(b, e, k)
    /\ place[LeavingBundle(b, e, k)] = place[ArgumentBundle(b, e, k)]
    /\ place[ArgumentBundle(b, e, k)] = place[ParameterBundle(b, e, k)]

EdgeFaults(b, e) ==
  Conflicts(ExitMoves(b, e)) \cup Conflicts(EdgeMoves(b, e))
    \cup FaultIf(NeedsBlock(b, e) /\ OutputNotEmitted(b, e), "output not emitted")

ExitFaults(b) ==
  LET edges == DOMAIN problem.graph.blocks[b].edges
  IN  FaultIf(TransfersAt(ExitPoint(b)) # UNION {ExitTransfers(b, e) : e \in edges},
              "exit transfer unused")
        \cup UNION {EdgeFaults(b, e) : e \in edges}

-----------------------------------------------------------------------------
(* Blocks, and the step that emits them.                                   *)

ParameterNames(b) ==
  LET params == problem.graph.blocks[b].params
  IN  [v \in ToSet(params) |->
         LocationAt("result", b, 0, CHOOSE k \in DOMAIN params : params[k] = v)]

MaterializeBlock(b) ==
  LET names == ParameterNames(b)
      moves == MovesOf(TransferAssignments(EntryPoint(b)))
      code == problem.graph.blocks[b].code
      emitted[i \in 0 .. Len(code)] ==
        IF i = 0 THEN [names |-> Rename(names, moves), ops |-> <<MoveOp(Emitted(names, moves))>>]
        ELSE MaterializeInstruction(b, emitted[i - 1], i)
  IN  emitted[Len(code)].ops

EntryFaults(b) == PointFaults(EntryPoint(b)) \cup Conflicts(TransferAssignments(EntryPoint(b)))

\* The first of them stops the process.
BlockFaults(b) ==
  EntryFaults(b) \cup ExitFaults(b)
    \cup UNION {InstructionFaults(b, i) : i \in DOMAIN problem.graph.blocks[b].code}

MachineLocations ==
  {Reg(AllocationOrder[k]) : k \in DOMAIN AllocationOrder} \cup {place[b] : b \in DOMAIN place}

EntryStore ==
  [l \in MachineLocations |->
     IF \E v \in DOMAIN ParameterNames(1) : ParameterNames(1)[v] = l
       THEN CHOOSE v \in DOMAIN ParameterNames(1) : ParameterNames(1)[v] = l ELSE Junk]

Materialize ==
  /\ stage = "allocated"
  /\ faults' = UNION {BlockFaults(b) : b \in DOMAIN problem.graph.blocks}
  /\ stage' = IF faults' = {} THEN "running" ELSE "fatal"
  /\ machineCode' = IF faults' = {} THEN [b \in DOMAIN problem.graph.blocks |-> MaterializeBlock(b)]
                    ELSE <<>>
  /\ at' = <<1, 1>>
  /\ store' = EntryStore
  /\ UNCHANGED <<problem, bundles, transfers, place, carriers, worklist, deferred>>

-----------------------------------------------------------------------------
(* Running the code.                                                       *)

Assign(contents, moves) ==
  [l \in DOMAIN contents |-> IF \E m \in moves : m.to = l
                               THEN contents[(CHOOSE m \in moves : m.to = l).from] ELSE contents[l]]

Destroy(contents, locations) ==
  [l \in DOMAIN contents |-> IF l \in locations THEN Junk ELSE contents[l]]

AfterDestroying(op) == Destroy(store, op.destroys)

AfterInstruction(op) ==
  [l \in DOMAIN store |-> IF l = op.result THEN op.value ELSE AfterDestroying(op)[l]]

CurrentOp == machineCode[at[1]][at[2]]
Running == stage = "running" /\ at[2] <= Len(machineCode[at[1]])

RunInstruction ==
  /\ Running
  /\ store' = IF CurrentOp.kind = "moves" THEN Assign(store, CurrentOp.moves)
              ELSE AfterInstruction(CurrentOp)
  /\ at' = [at EXCEPT ![2] = @ + 1]
  /\ UNCHANGED <<machineCode, faults, allocVars>>

\* Along an edge the arguments become the parameters.
TakeEdge ==
  /\ stage = "running" /\ at[2] > Len(machineCode[at[1]])
  /\ \E e \in DOMAIN problem.graph.blocks[at[1]].edges :
       LET b == at[1]
           edge == problem.graph.blocks[b].edges[e]
           moved == IF NeedsBlock(b, e) THEN Assign(Assign(store, ExitMoves(b, e)), EdgeMoves(b, e))
                    ELSE store
           params == problem.graph.blocks[edge.target].params
           passed(k) == moved[place[ParameterBundle(b, e, k)]] = problem.origin[b][edge.args[k]]
       IN  /\ store' = [l \in DOMAIN store |->
                          IF \E k \in DOMAIN params : place[ParameterBundle(b, e, k)] = l /\ passed(k)
                            THEN params[CHOOSE k \in DOMAIN params : place[ParameterBundle(b, e, k)] = l]
                            ELSE Junk]
           /\ at' = <<edge.target, 1>>
  /\ UNCHANGED <<machineCode, faults, allocVars>>

MaterializerNext == Materialize \/ RunInstruction \/ TakeEdge

-----------------------------------------------------------------------------
(* Allocation and execution together, for some functions.                  *)

MachineIdle == machineCode = <<>> /\ faults = {} /\ at = <<1, 1>> /\ store = <<>>

RegistersInit(graphs) == (\E g \in graphs : AllocationInit(g)) /\ MachineIdle

Allocate == AllocationNext /\ UNCHANGED machineVars
RegistersNext == Allocate \/ MaterializerNext

registerVars == <<allocVars, machineVars>>
RegistersSpec(graphs) == RegistersInit(graphs) /\ [][RegistersNext]_registerVars

-----------------------------------------------------------------------------
KnownFaults == {"duplicate destination", "output not emitted"}

\* An allocation never stops the process: the splits leave every transfer
\* connected to one side, the verifier accepts what the assigner made
\* (allocation_verifier.cpp verify_register_allocation), and materialization
\* finds a value for every transfer and a use for every exit transfer.  Two
\* faults are excepted, which the code does have: a call with one value in two
\* argument registers, and an edge that passes one value to two parameters.
AllocationsVerify ==
  stage = "fatal" => faults # {} /\ faults \subseteq KnownFaults

PlacedAbove(w) == Cardinality({b \in DOMAIN bundles : place[b] # Nowhere /\ bundles[b].weight >= w})

Weights == {bundles[b].weight : b \in DOMAIN bundles}

\* The assignment loop comes to an end however bundles evict each other and
\* split (register_assigner.cpp assign_registers): every turn of it leaves
\* more bundles, of which there can be no more than positions, or gives up
\* on one more of them, or has more of the heavy ones in place, whatever
\* that costs the light ones.
AssignmentProgresses ==
  [][(stage = "assign" /\ stage' = "assign") =>
       \/ Cardinality(DOMAIN bundles') > Cardinality(DOMAIN bundles)
       \/ bundles' = bundles /\ Cardinality(deferred') > Cardinality(deferred)
       \/ /\ bundles' = bundles
          /\ \E w \in Weights : /\ PlacedAbove(w)' > PlacedAbove(w)
                               /\ \A v \in Weights : v > w => PlacedAbove(v)' = PlacedAbove(v)
     ]_registerVars
=============================================================================
