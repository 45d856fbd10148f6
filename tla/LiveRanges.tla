----------------------------- MODULE LiveRanges -----------------------------
(***************************************************************************)
(* What the JIT's register allocator is given.  A graph is a sequence of   *)
(* blocks; a block has parameters, instructions and outgoing edges whose   *)
(* arguments become the parameters of their targets, and values never      *)
(* cross a block boundary otherwise.  The scanner lays the blocks out on   *)
(* one line of positions, two for each instruction (Early, when operands   *)
(* are read, and Late, when the result is written) and turns every operand,*)
(* result, temporary and edge argument into an occurrence with the         *)
(* positions it has to cover.  One register class is modelled.  The second *)
(* half is about bundles, which fragments of live ranges form.             *)
(***************************************************************************)
EXTENDS Integers, Sequences, SequencesExt, FiniteSetsExt

CONSTANTS
  AllocationOrder,    \* the registers, in order of preference
  CallClobbers,       \* the registers a call destroys
  ResultRegister,     \* where calls and returns leave their value
  ArgumentRegisters,  \* where a call expects its arguments
  ReturnRegisters     \* where a return expects what it needs beside its value

\* Argument registers are among those that a call does not preserve.
ASSUME RegistersAssumption ==
  /\ AllocationOrder \in Seq(Nat) /\ ReturnRegisters \in Seq(Nat)
  /\ ResultRegister \in Nat /\ CallClobbers \subseteq Nat
  /\ ArgumentRegisters \in Seq(CallClobbers)

Reg(n) == [kind |-> "reg", n |-> n]
Stack(n) == [kind |-> "stack", n |-> n]
SpillSlot(n) == [kind |-> "spill", n |-> n]
Nowhere == [kind |-> "none", n |-> 0]

NoValue == 0
NoRegister == -1

-----------------------------------------------------------------------------
(* Constraints.  An access says which value is read when, and where.       *)

AnyLocation == [kind |-> "any", at |-> Nowhere]
AnyRegister == [kind |-> "register", at |-> Nowhere]
Fixed(l) == [kind |-> "fixed", at |-> l]
FixedOperandCopy(r) == [kind |-> "copy", at |-> Reg(r)]

RequiresRegister(req) ==
  req.kind = "register" \/ (req.kind = "fixed" /\ req.at.kind = "reg")

Accesses(values, timing, Req(_)) ==
  [k \in DOMAIN values |-> [value |-> values[k], timing |-> timing, req |-> Req(k)]]

\* A return takes its value, the caller's frame pointer and then what
\* ReturnRegisters expect; the pointer may be anywhere.
ReturnRequirement(k) ==
  CASE k = 1 -> Fixed(Reg(ResultRegister))
    [] k = 2 -> AnyLocation
    [] k > 2 -> Fixed(Reg(ReturnRegisters[k - 2]))

OwnInputs(i) ==
  CASE i.op = "call" -> Accesses(i.args, "early", LAMBDA k : FixedOperandCopy(ArgumentRegisters[k]))
    [] i.op = "return" -> Accesses(i.args, "early", ReturnRequirement)
    [] i.op = "mul" -> Accesses(i.args, "late", LAMBDA k : AnyRegister)
    [] OTHER -> Accesses(i.args, "early", LAMBDA k : AnyRegister)

\* Side-exit arguments are read at the end, wherever they are.
SideExitInputs(i) == Accesses(i.exits, "late", LAMBDA k : AnyLocation)
Inputs(i) == OwnInputs(i) \o SideExitInputs(i)

ResultRequirement(i) == IF i.op = "call" THEN Fixed(Reg(ResultRegister)) ELSE AnyRegister
HasTemporary(i) == i.op \in {"mul", "compare"}
Forwards(i) == i.op = "guard"
Clobbers(i) == IF i.op = "call" THEN CallClobbers ELSE {}
PermitsCallLocalSpills(i) == i.op = "call"

\* The parameters of the entry block come in registers, the frame header
\* values after them in the frame; other parameters may be anywhere.
ParameterRequirement(g, b, k) ==
  CASE b # 1 -> AnyLocation
    [] b = 1 /\ k <= g.nParameters -> Fixed(Reg(AllocationOrder[k]))
    [] b = 1 /\ k > g.nParameters -> Fixed(Stack(k - g.nParameters))

-----------------------------------------------------------------------------
(* What has been verified of a graph before it is scanned: every value is  *)
(* defined in one place, instructions use what was defined before them in  *)
(* their block, and edges pass as many arguments as their targets have     *)
(* parameters.  Definitions are named like the occurrences they become.    *)

Anchor(kind, b, at, index) == [kind |-> kind, block |-> b, at |-> at, index |-> index]

ParameterDefinitions(g, b) == {Anchor("result", b, 0, k) : k \in DOMAIN g.blocks[b].params}
ResultDefinitions(g, b) ==
  {Anchor("result", b, i, 0) : i \in {i \in DOMAIN g.blocks[b].code : g.blocks[b].code[i].result # NoValue}}

Definitions(g) ==
  UNION {ParameterDefinitions(g, b) \cup ResultDefinitions(g, b) : b \in DOMAIN g.blocks}

DefinedBy(g, d) ==
  IF d.at = 0 THEN g.blocks[d.block].params[d.index] ELSE g.blocks[d.block].code[d.at].result

\* The values that instruction i of a block may use.
InScope(g, b, i) ==
  {DefinedBy(g, d) : d \in {d \in ParameterDefinitions(g, b) \cup ResultDefinitions(g, b) : d.at < i}}

\* Trusted handlers have at most as many arguments as there are registers.
OperandsFit(i) ==
  /\ i.op = "call" => Len(i.args) <= Len(ArgumentRegisters)
  /\ i.op = "return" => Len(i.args) <= Len(ReturnRegisters) + 2
  /\ Forwards(i) => i.result # NoValue /\ Len(i.args) >= 1

InstructionVerified(g, b, i) ==
  LET instr == g.blocks[b].code[i]
  IN  /\ instr.result \in g.values \cup {NoValue}
      /\ instr.args \in Seq(InScope(g, b, i)) /\ instr.exits \in Seq(InScope(g, b, i))
      /\ OperandsFit(instr)

EdgeVerified(g, b, edge) ==
  /\ edge.target \in DOMAIN g.blocks
  /\ edge.args \in Seq(InScope(g, b, Len(g.blocks[b].code) + 1))
  /\ Len(edge.args) = Len(g.blocks[edge.target].params)

BlockVerified(g, b) ==
  LET blk == g.blocks[b]
  IN  /\ blk.depth \in Nat
      /\ blk.params \in Seq(g.values)
      /\ blk.code \in Seq(ToSet(blk.code)) /\ blk.edges \in Seq(ToSet(blk.edges))
      /\ \A i \in DOMAIN blk.code : InstructionVerified(g, b, i)
      /\ \A e \in DOMAIN blk.edges : EdgeVerified(g, b, blk.edges[e])

CfgVerified(g) ==
  /\ NoValue \notin g.values
  /\ g.nParameters \in 0 .. Len(AllocationOrder)
  /\ g.blocks \in Seq(ToSet(g.blocks)) /\ g.blocks # <<>>
  /\ \A b \in DOMAIN g.blocks : BlockVerified(g, b)
  /\ \A x, y \in Definitions(g) : DefinedBy(g, x) = DefinedBy(g, y) => x = y

-----------------------------------------------------------------------------
(* Positions.                                                              *)

BlockSize(blk) == (Len(blk.code) + 2) * 2

BlockStarts(blocks) ==
  LET end[b \in 0 .. Len(blocks)] == IF b = 0 THEN 0 ELSE end[b - 1] + BlockSize(blocks[b])
  IN  [b \in DOMAIN blocks |-> end[b - 1]]

EarlyOf(start, i) == start + 2 * i
ExitOf(start, blk) == start + 2 + 2 * Len(blk.code)

Coverage(early, kind, timing) ==
  CASE kind = "use" -> [from |-> early, to |-> IF timing = "early" THEN early + 1 ELSE early + 2]
    [] kind \in {"def", "forwarding"} ->
         [from |-> IF timing = "early" THEN early ELSE early + 1, to |-> early + 2]
    [] kind = "temporary" -> [from |-> early, to |-> early + 2]

-----------------------------------------------------------------------------
(* Occurrences.  `key' names the live range: the value that supplied the   *)
(* bits (a forwarding result shares the range of its operand), or the      *)
(* instruction whose temporary it is.  `range' is filled in at the end.    *)

Origins(values, code) ==
  LET origin[n \in 0 .. Len(code)] ==
        IF n = 0 THEN [v \in values |-> v]
        ELSE IF Forwards(code[n])
          THEN [origin[n - 1] EXCEPT ![code[n].result] = origin[n - 1][code[n].args[1]]]
          ELSE origin[n - 1]
  IN  origin[Len(code)]

ValueKey(origin, v) == <<"value", origin[v]>>
TemporaryKey(b, i) == <<"temporary", b, i>>

Occurrence(pos, cover, key, kind, anchor, req) ==
  [range |-> 0, pos |-> pos, from |-> cover.from, to |-> cover.to, key |-> key, kind |-> kind,
   anchor |-> anchor, required |-> RequiresRegister(req),
   fixed |-> IF req.kind = "fixed" THEN req.at ELSE Nowhere,
   copy |-> IF req.kind = "copy" THEN req.at.n ELSE NoRegister]

ParameterOccurrences(g, origin, b, start) ==
  [k \in DOMAIN g.blocks[b].params |->
     Occurrence(start + 1, [from |-> start + 1, to |-> start + 2],
                ValueKey(origin, g.blocks[b].params[k]), "def",
                Anchor("result", b, 0, k), ParameterRequirement(g, b, k))]

UseOccurrences(g, origin, b, i, early) ==
  LET inputs == Inputs(g.blocks[b].code[i])
      at(timing) == IF timing = "early" THEN early ELSE early + 1
  IN  [k \in DOMAIN inputs |->
         Occurrence(at(inputs[k].timing), Coverage(early, "use", inputs[k].timing),
                    ValueKey(origin, inputs[k].value), "use",
                    Anchor("operand", b, i, k), inputs[k].req)]

ResultOccurrences(g, origin, b, i, early) ==
  LET instr == g.blocks[b].code[i]
      kind == IF Forwards(instr) THEN "forwarding" ELSE "def"
  IN  IF instr.result = NoValue THEN <<>>
      ELSE <<Occurrence(early + 1, Coverage(early, kind, "late"), ValueKey(origin, instr.result),
                        kind, Anchor("result", b, i, 0), ResultRequirement(instr))>>

TemporaryOccurrences(g, b, i, early) ==
  IF ~HasTemporary(g.blocks[b].code[i]) THEN <<>>
  ELSE <<Occurrence(early, Coverage(early, "temporary", "early"), TemporaryKey(b, i),
                    "temporary", Anchor("temporary", b, i, 0), AnyRegister)>>

InstructionOccurrences(g, origin, b, i, early) ==
  UseOccurrences(g, origin, b, i, early) \o ResultOccurrences(g, origin, b, i, early)
    \o TemporaryOccurrences(g, b, i, early)

EdgeOccurrences(g, origin, b, exit) ==
  FlattenSeq([e \in DOMAIN g.blocks[b].edges |->
    [k \in DOMAIN g.blocks[b].edges[e].args |->
       Occurrence(exit, [from |-> exit, to |-> exit + 1],
                  ValueKey(origin, g.blocks[b].edges[e].args[k]), "use",
                  Anchor("edge", b, e, k), AnyLocation)]])

ScanBlock(g, origin, b, start) ==
  LET blk == g.blocks[b]
  IN  ParameterOccurrences(g, origin, b, start)
        \o FlattenSeq([i \in DOMAIN blk.code |->
                         InstructionOccurrences(g, origin, b, i, EarlyOf(start, i))])
        \o EdgeOccurrences(g, origin, b, ExitOf(start, blk))

-----------------------------------------------------------------------------
(* Live ranges, in the order of the definitions that open them.            *)

OccurrencesOf(occs, key) == {o \in DOMAIN occs : occs[o].key = key}

LiveRangesOf(occs) ==
  LET opening == FlattenSeq([o \in DOMAIN occs |->
                   IF occs[o].kind \in {"def", "temporary"} THEN <<occs[o]>> ELSE <<>>])
  IN  [r \in DOMAIN opening |->
         LET mine == OccurrencesOf(occs, opening[r].key)
         IN  [key |-> opening[r].key, block |-> opening[r].anchor.block,
              from |-> opening[r].from, to |-> Max({occs[o].to : o \in mine}),
              occurrences |-> mine]]

\* One affinity for each argument of each edge: the argument and the
\* parameter would like one location.
BlockEdgeAffinities(g, occs) ==
  LET find(kind, b, at, index) ==
        CHOOSE o \in DOMAIN occs : occs[o].anchor = Anchor(kind, b, at, index)
      affinity(b, e, k) ==
        [source |-> find("edge", b, e, k),
         destination |-> find("result", g.blocks[b].edges[e].target, 0, k),
         block |-> b, edge |-> e, index |-> k]
  IN  UNION {UNION {{affinity(b, e, k) : k \in DOMAIN g.blocks[b].edges[e].args}
                    : e \in DOMAIN g.blocks[b].edges}
             : b \in DOMAIN g.blocks}

ClobberReservations(g, starts) ==
  UNION {UNION {{[from |-> EarlyOf(starts[b], i) + 1, to |-> EarlyOf(starts[b], i) + 2,
                  reg |-> r, block |-> b, at |-> i] : r \in Clobbers(g.blocks[b].code[i])}
                : i \in DOMAIN g.blocks[b].code}
         : b \in DOMAIN g.blocks}

ScanLiveRanges(g) ==
  LET starts == BlockStarts(g.blocks)
      origin == [b \in DOMAIN g.blocks |-> Origins(g.values, g.blocks[b].code)]
      scanned == FlattenSeq([b \in DOMAIN g.blocks |-> ScanBlock(g, origin[b], b, starts[b])])
      ranges == LiveRangesOf(scanned)
      occs == [o \in DOMAIN scanned |->
                 [scanned[o] EXCEPT !.range =
                    CHOOSE r \in DOMAIN ranges : ranges[r].key = scanned[o].key]]
  IN  [graph |-> g, origin |-> origin, starts |-> starts, occs |-> occs, ranges |-> ranges,
       clobbers |-> ClobberReservations(g, starts),
       affinities |-> BlockEdgeAffinities(g, scanned)]

-----------------------------------------------------------------------------
(***************************************************************************)
(* Bundles: sets of non-overlapping live-range fragments that share one    *)
(* location.  Each live range starts as a bundle; bundles an edge would    *)
(* like to see in one place are merged; a bundle whose occurrences ask for *)
(* incompatible locations is split, and every split that cuts a fragment   *)
(* schedules a transfer.  The schedule is a set of transfers, each with    *)
(* the point of the code it belongs to.                                    *)
(***************************************************************************)
FixedMinimalWeight == 2 ^ 30 + 1
OrdinaryMinimalWeight == 2 ^ 30

-----------------------------------------------------------------------------
(* Properties of a bundle, from its fragments.                             *)

Within(f, from, to) == f.from <= from /\ to <= f.to
Overlap(x, y) == x.from < y.to /\ y.from < x.to

Covers(p, f, o) == p.occs[o].range = f.range /\ Within(f, p.occs[o].from, p.occs[o].to)
CoveredOccurrences(p, frags) == {o \in DOMAIN p.occs : \E f \in frags : Covers(p, f, o)}

IsFixed(p, o) == p.occs[o].fixed # Nowhere
FixedOccurrences(p, frags) == {o \in CoveredOccurrences(p, frags) : IsFixed(p, o)}

OccurrenceSpillWeight(p, o) ==
  LET occ == p.occs[o]
      depth == Min({p.graph.blocks[occ.anchor.block].depth, 10})
  IN  IF ~IsFixed(p, o) /\ ~occ.required THEN 0
      ELSE (1000 * (4 ^ depth)) + (IF occ.kind = "def" THEN 2000 ELSE 0)
             + (IF IsFixed(p, o) THEN 2000 ELSE 1000)

TotalSpillWeight(p, covered) ==
  LET total[o \in 0 .. Len(p.occs)] ==
        IF o = 0 THEN 0
        ELSE total[o - 1] + (IF o \in covered THEN OccurrenceSpillWeight(p, o) ELSE 0)
  IN  total[Len(p.occs)]

BundleSpillWeight(p, covered, fixed, priority) ==
  IF \E o \in covered : covered = {o} /\ priority = p.occs[o].to - p.occs[o].from
    THEN IF fixed = {} THEN OrdinaryMinimalWeight ELSE FixedMinimalWeight
    ELSE Max({1, TotalSpillWeight(p, covered) \div priority})

\* The fragments of a bundle do not overlap: its length is the number of
\* positions they cover.
Positions(frags) == UNION {f.from .. f.to - 1 : f \in frags}

Bundle(p, frags) ==
  LET covered == CoveredOccurrences(p, frags)
      fixed == FixedOccurrences(p, frags)
      priority == Cardinality(Positions(frags))
  IN  [frags |-> frags, fixed |-> fixed, priority |-> priority,
       weight |-> BundleSpillWeight(p, covered, fixed, priority)]

BundlesOverlap(fs, hs) == \E f \in fs, h \in hs : Overlap(f, h)

-----------------------------------------------------------------------------
(* Initial bundles and the merging of affinities: `parent' is the bundle   *)
(* that a live range is part of, which has the number of one of its ranges.*)

Whole(p, r) == [from |-> p.ranges[r].from, to |-> p.ranges[r].to, range |-> r]
Joined(p, parent, b) == {Whole(p, r) : r \in {r \in DOMAIN p.ranges : parent[r] = b}}

FixedLocations(p, frags) == {p.occs[o].fixed : o \in FixedOccurrences(p, frags)}

CanMerge(p, lhs, rhs) ==
  /\ ~BundlesOverlap(lhs, rhs)
  /\ Cardinality(FixedLocations(p, lhs) \cup FixedLocations(p, rhs)) <= 1

AffinityHotness(p, a) == OccurrenceSpillWeight(p, a.source) + OccurrenceSpillWeight(p, a.destination)
AffinityDistance(p, a) ==
  LET positions == {p.occs[a.destination].pos, p.occs[a.source].pos}
  IN  Max(positions) - Min(positions)

\* The hottest, then the shortest, then the first.
AffinityBefore(p, x, y) ==
  LET key(a) == <<-AffinityHotness(p, a), AffinityDistance(p, a), p.occs[a.source].pos,
                  p.occs[a.destination].pos, a.index, a.source, a.destination>>
      first == CHOOSE i \in 1 .. 7 : /\ key(x)[i] # key(y)[i]
                                     /\ \A j \in 1 .. i - 1 : key(x)[j] = key(y)[j]
  IN  x # y /\ key(x)[first] < key(y)[first]

MergeAffinity(p, parent, a) ==
  LET lhs == parent[p.occs[a.source].range]
      rhs == parent[p.occs[a.destination].range]
  IN  IF lhs = rhs \/ ~CanMerge(p, Joined(p, parent, lhs), Joined(p, parent, rhs)) THEN parent
      ELSE [r \in DOMAIN parent |-> IF parent[r] = rhs THEN lhs ELSE parent[r]]

\* One turn of the merging loop: the first of the affinities that are left.
MergeNext(p, m) ==
  LET first == {a \in m.left : \A c \in m.left \ {a} : AffinityBefore(p, a, c)}
      a == CHOOSE a \in first : TRUE
  IN  IF first = {} THEN m
      ELSE [parent |-> MergeAffinity(p, m.parent, a), left |-> m.left \ {a}]

MergedParents(p) ==
  LET merged[k \in 0 .. Cardinality(p.affinities)] ==
        IF k = 0 THEN [parent |-> [r \in DOMAIN p.ranges |-> r], left |-> p.affinities]
        ELSE MergeNext(p, merged[k - 1])
  IN  merged[Cardinality(p.affinities)].parent

\* The bundles that are left keep their numbers here; the code closes the
\* gaps, which keeps their order, the only use of a number.
InitialBundles(p) ==
  LET parent == MergedParents(p)
  IN  [b \in {parent[r] : r \in DOMAIN p.ranges} |-> Bundle(p, Joined(p, parent, b))]

-----------------------------------------------------------------------------
(* Splitting.  A schedule s has the bundles and the transfers so far.      *)

EntryPoint(b) == [kind |-> "entry", block |-> b, at |-> 0]
BeforePoint(b, i) == [kind |-> "before", block |-> b, at |-> i]
ExitPoint(b) == [kind |-> "exit", block |-> b, at |-> 0]
EdgePoint(b, e) == [kind |-> "edge", block |-> b, at |-> e]

TransferPointForOccurrence(p, o) ==
  LET a == p.occs[o].anchor
  IN  CASE a.kind = "edge" -> ExitPoint(a.block)
        [] a.kind = "result" /\ a.at = 0 -> EntryPoint(a.block)
        [] OTHER -> BeforePoint(a.block, a.at)

CanSplit(p, frags, boundary) ==
  /\ \A o \in CoveredOccurrences(p, frags) : ~(p.occs[o].from < boundary /\ boundary < p.occs[o].to)
  /\ \E f \in frags : f.from < boundary
  /\ \E f \in frags : f.to > boundary

LeftFragments(frags, boundary) ==
  {[from |-> f.from, to |-> Min({f.to, boundary}), range |-> f.range] :
     f \in {f \in frags : f.from < boundary}}

RightFragments(frags, boundary) ==
  {[from |-> Max({f.from, boundary}), to |-> f.to, range |-> f.range] :
     f \in {f \in frags : boundary < f.to}}

Adjacent(source, destination) ==
  \E f \in source.frags, h \in destination.frags : f.range = h.range /\ f.to = h.from

\* The side of a split that a transfer of the whole bundle belongs to.
SideOf(left, right, leftConnected) == IF leftConnected THEN left ELSE right

RemapTransfer(bundles, t, left, right) ==
  IF t.point.kind = "edge" THEN t
  ELSE [point |-> t.point,
        from |-> IF t.from # left THEN t.from
                 ELSE SideOf(left, right, Adjacent(bundles[left], bundles[t.to])),
        to |-> IF t.to # left THEN t.to
               ELSE SideOf(left, right, Adjacent(bundles[t.from], bundles[left]))]

\* fatal(): a transfer whose end is connected to both sides, or to none.
RemapAmbiguous(bundles, t, left, right) ==
  /\ t.point.kind # "edge"
  /\ \/ t.from = left /\ (Adjacent(bundles[left], bundles[t.to]) <=> Adjacent(bundles[right], bundles[t.to]))
     \/ t.to = left /\ (Adjacent(bundles[t.from], bundles[left]) <=> Adjacent(bundles[t.from], bundles[right]))

NewBundle(p, bundles) == Max({Len(p.ranges)} \cup DOMAIN bundles) + 1

SplitBundle(p, s, b, boundary, point) ==
  LET frags == s.bundles[b].frags
      right == NewBundle(p, s.bundles)
      bundles == [c \in DOMAIN s.bundles \cup {right} |->
                    CASE c = b -> Bundle(p, LeftFragments(frags, boundary))
                      [] c = right -> Bundle(p, RightFragments(frags, boundary))
                      [] OTHER -> s.bundles[c]]
      crosses == \E f \in frags : f.from < boundary /\ boundary < f.to
  IN  [bundles |-> bundles,
       transfers |-> {RemapTransfer(bundles, t, b, right) : t \in s.transfers}
                       \cup (IF crosses THEN {[point |-> point, from |-> b, to |-> right]} ELSE {}),
       fatal |-> s.fatal \/ \E t \in s.transfers : RemapAmbiguous(bundles, t, b, right)]

-----------------------------------------------------------------------------
(* Location constraints: the occurrences of a bundle are visited in order, *)
(* and the bundle is cut before the first one that the locations asked for *)
(* so far exclude.                                                         *)

PositionLess(p, x, y) ==
  p.occs[x].pos < p.occs[y].pos \/ (p.occs[x].pos = p.occs[y].pos /\ x < y)

Incompatible(p, x, y) ==
  \/ IsFixed(p, x) /\ IsFixed(p, y) /\ p.occs[x].fixed # p.occs[y].fixed
  \/ p.occs[x].fixed.kind = "stack" /\ p.occs[y].required
  \/ p.occs[y].fixed.kind = "stack" /\ p.occs[x].required

\* The occurrences that an earlier one of the bundle excludes, and the
\* first of them, at which the splitter stops.
Excluded(p, frags) ==
  LET covered == CoveredOccurrences(p, frags)
  IN  {o \in covered : \E x \in covered : PositionLess(p, x, o) /\ Incompatible(p, x, o)}

FirstExcluded(p, frags) ==
  {o \in Excluded(p, frags) : \A q \in Excluded(p, frags) \ {o} : PositionLess(p, o, q)}
=============================================================================
