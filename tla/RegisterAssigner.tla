--------------------------- MODULE RegisterAssigner ---------------------------
(***************************************************************************)
(* The assignment loop.  Bundles wait in a worklist ordered by priority    *)
(* (their length); each one popped is placed in a free register, or it     *)
(* evicts lighter bundles, or it is split and its parts wait again, or     *)
(* allocation fails.  A bundle that crosses a call may be cut so that its  *)
(* part around the call becomes a carrier, the only kind of bundle that    *)
(* may end in a spill slot.  What comes out is verified before it is used. *)
(***************************************************************************)
EXTENDS LiveRanges

VARIABLES
  problem,    \* what the scanner made of the graph
  bundles,    \* the bundles, by number
  transfers,  \* transfers between bundles that splits have scheduled
  place,      \* the location of each bundle, or Nowhere
  carriers,   \* the bundles that may be spilled
  worklist,   \* the bundles still to be placed
  deferred,   \* the carriers that wait for a spill slot
  stage       \* "scan", "constrain", "assign", "assigned", "allocated", "failed" or "fatal"

allocVars == <<problem, bundles, transfers, place, carriers, worklist, deferred, stage>>

-----------------------------------------------------------------------------
(* The places of the line of positions where a transfer can be put.        *)

BlockAt(pos) ==
  CHOOSE b \in DOMAIN problem.starts :
    /\ problem.starts[b] <= pos
    /\ pos < problem.starts[b] + BlockSize(problem.graph.blocks[b])

StartOf(b) == problem.starts[b]
EndOf(b) == StartOf(b) + BlockSize(problem.graph.blocks[b])
Exit(b) == ExitOf(StartOf(b), problem.graph.blocks[b])

NoPosition == -1
NoPoint == [kind |-> "none", block |-> 0, at |-> 0]

TransferPointForBoundary(pos) ==
  IF pos >= EndOf(Len(problem.starts)) THEN NoPoint
  ELSE LET b == BlockAt(pos)
       IN  CASE pos = StartOf(b) -> EntryPoint(b)
             [] pos = Exit(b) -> ExitPoint(b)
             [] StartOf(b) + 2 <= pos /\ pos < Exit(b) /\ (pos - StartOf(b)) % 2 = 0 ->
                  BeforePoint(b, (pos - StartOf(b)) \div 2)
             [] OTHER -> NoPoint

TransferBoundaryForConflict(pos) ==
  LET b == BlockAt(pos)
      even == StartOf(b) + (pos - StartOf(b)) - ((pos - StartOf(b)) % 2)
  IN  Min({Exit(b), Max({StartOf(b) + 2, even})})

TransferBoundaryAtOrAfter(b, pos) ==
  LET even == pos + ((pos - StartOf(b)) % 2)
  IN  CASE pos <= StartOf(b) -> StartOf(b)
        [] StartOf(b) < pos /\ even <= Exit(b) -> even
        [] OTHER -> NoPosition

TransferBoundaryAtOrBefore(b, pos) ==
  CASE pos < StartOf(b) -> NoPosition
    [] pos >= EndOf(b) -> EndOf(b)
    [] OTHER -> pos - ((pos - StartOf(b)) % 2)

-----------------------------------------------------------------------------
(* Probing a register.                                                     *)

FirstOf(frags) == Min({f.from : f \in frags})
LastOf(frags) == Max({f.to : f \in frags})

Residents(l, b) ==
  {c \in DOMAIN bundles : place[c] = l /\ BundlesOverlap(bundles[c].frags, bundles[b].frags)}

ClobbersHit(l, b) ==
  {c \in problem.clobbers : l = Reg(c.reg) /\ \E f \in bundles[b].frags : Overlap(f, c)}

Fits(l, b) == Residents(l, b) = {} /\ ClobbersHit(l, b) = {}

FirstConflict(l, b) ==
  LET taken == UNION {bundles[c].frags : c \in Residents(l, b)}
      spans == {[from |-> f.from, to |-> f.to] : f \in taken}
                 \cup {[from |-> c.from, to |-> c.to] : c \in ClobbersHit(l, b)}
  IN  Min({Max({fs[1].from, fs[2].from}) :
             fs \in {fs \in bundles[b].frags \X spans : Overlap(fs[1], fs[2])}})

ConflictWeight(l, b) == Max({0} \cup {bundles[c].weight : c \in Residents(l, b)})

RequiredLocation(b) ==
  IF bundles[b].fixed = {} THEN Nowhere
  ELSE problem.occs[CHOOSE o \in bundles[b].fixed : TRUE].fixed

Candidates(b) ==
  IF RequiredLocation(b) = Nowhere
    THEN [k \in DOMAIN AllocationOrder |-> Reg(AllocationOrder[k])]
    ELSE <<RequiredLocation(b)>>

\* The first of some candidates, which are given by their places in the
\* order of preference.
FirstCandidate(b, ks) == {Candidates(b)[k] : k \in {k \in ks : \A j \in ks : k <= j}}

FreeCandidates(b) == {k \in DOMAIN Candidates(b) : Fits(Candidates(b)[k], b)}
FreeLocation(b) == FirstCandidate(b, FreeCandidates(b))

CostOf(k, b) == ConflictWeight(Candidates(b)[k], b)

\* The first of the candidates that cost least, if any.
Cheapest(b, ks) == FirstCandidate(b, {k \in ks : \A j \in ks : CostOf(k, b) <= CostOf(j, b)})

Unclobbered(b) == {k \in DOMAIN Candidates(b) : ClobbersHit(Candidates(b)[k], b) = {}}

\* A mistake: bundles of the same weight may evict each other.
EvictableAsHeavy(b) == Cheapest(b, {k \in Unclobbered(b) : CostOf(k, b) <= bundles[b].weight})

Evictable(b) == Cheapest(b, {k \in Unclobbered(b) : CostOf(k, b) < bundles[b].weight})

-----------------------------------------------------------------------------
(* Splitting under pressure.                                               *)

PressureSplitBoundary(l, b) ==
  LET frags == bundles[b].frags
      conflict == TransferBoundaryForConflict(FirstConflict(l, b))
      next == TransferBoundaryForConflict(FirstOf(frags) + 1)
      candidate == IF conflict > FirstOf(frags) THEN conflict
                   ELSE IF next < FirstOf(frags) + 1 THEN next + 2 ELSE next
  IN  IF candidate < LastOf(frags) THEN candidate ELSE NoPosition

\* Where the bundle would be cut, if anywhere.
PressureSplit(b) ==
  {cut \in {PressureSplitBoundary(l, b) :
              l \in Cheapest(b, {k \in DOMAIN Candidates(b) :
                                  PressureSplitBoundary(Candidates(b)[k], b) # NoPosition})} :
     TransferPointForBoundary(cut) # NoPoint /\ CanSplit(problem, bundles[b].frags, cut)}

\* The first fixed use after the conflict, if the bundle can be cut there.
LaterFixedUse(b) ==
  LET later == {o \in bundles[b].fixed :
                  problem.occs[o].from > FirstConflict(RequiredLocation(b), b)}
  IN  {o \in later : /\ \A q \in later : problem.occs[o].from <= problem.occs[q].from
                     /\ CanSplit(problem, bundles[b].frags, problem.occs[o].from)}

-----------------------------------------------------------------------------
(* Carriers: the longest part of a fragment around a call that no          *)
(* occurrence needs, except the call's own copies of its operands.         *)

SpillBoundaries ==
  {[from |-> c.from - 1, to |-> c.to, block |-> c.block, at |-> c.at] :
     c \in {c \in problem.clobbers :
              PermitsCallLocalSpills(problem.graph.blocks[c.block].code[c.at])}}

CopiedAt(o, s) ==
  LET occ == problem.occs[o]
  IN  occ.copy # NoRegister /\ occ.anchor.block = s.block /\ occ.anchor.at = s.at

CarrierRange(b, f, s) ==
  LET observed == {o \in problem.ranges[f.range].occurrences :
                     Covers(problem, f, o) /\ ~CopiedAt(o, s)}
      before == {o \in observed : problem.occs[o].to <= s.from}
      after == {o \in observed : s.to <= problem.occs[o].from}
      starts == {TransferBoundaryAtOrAfter(s.block, pos) :
                   pos \in {f.from} \cup {problem.occs[o].to : o \in before}}
      ends == {TransferBoundaryAtOrBefore(s.block, pos) :
                 pos \in {f.to} \cup {problem.occs[o].from : o \in after}}
  IN  [from |-> Max(starts), to |-> Min(ends),
       good |-> /\ observed = before \cup after
                /\ NoPosition \notin starts \cup ends]

CarrierUsable(b, s, c) ==
  /\ c.good
  /\ c.from <= s.from /\ s.to <= c.to
  /\ CanSplit(problem, bundles[b].frags, c.from)
  /\ CanSplit(problem, bundles[b].frags, c.to)
  /\ TransferPointForBoundary(c.from) # NoPoint
  /\ TransferPointForBoundary(c.to) # NoPoint

\* The fragments of a bundle and the calls for which it could have a
\* carrier; the one for the first of the calls is made.
Carriers(b) ==
  {fs \in bundles[b].frags \X SpillBoundaries :
     /\ Within(fs[1], fs[2].from, fs[2].to)
     /\ CarrierUsable(b, fs[2], CarrierRange(b, fs[1], fs[2]))}

FirstCarrier(b) ==
  {CarrierRange(b, fs[1], fs[2]) : fs \in
     {fs \in Carriers(b) : \A gs \in Carriers(b) : fs[2].from <= gs[2].from}}

-----------------------------------------------------------------------------
(* One step of the loop for each thing that can be done with the bundle at *)
(* the top of the worklist.                                                *)

Before(x, y) ==
  \/ bundles[x].priority > bundles[y].priority
  \/ bundles[x].priority = bundles[y].priority /\ x < y

Top == CHOOSE b \in worklist : \A c \in worklist \ {b} : Before(b, c)

InRegister(b) == RequiredLocation(b).kind # "stack"
HasRequirement(b) == RequiredLocation(b) # Nowhere

Popped(b) == stage = "assign" /\ worklist # {} /\ b = Top

\* The bundle has no free location and may be moved about to find one.
Crowded(b) ==
  Popped(b) /\ b \notin carriers /\ FreeCandidates(b) = {} /\ InRegister(b)

ScheduleOf == [bundles |-> bundles, transfers |-> transfers, fatal |-> FALSE]

\* The schedule s replaces the current one; the bundles beyond the old
\* ones and b are to be placed again.
Reschedule(b, s, spillable) ==
  /\ bundles' = s.bundles
  /\ transfers' = s.transfers
  /\ place' = [c \in DOMAIN s.bundles |-> IF c \in DOMAIN place THEN place[c] ELSE Nowhere]
  /\ carriers' = carriers \cup spillable
  /\ worklist' = worklist \cup {b} \cup (DOMAIN s.bundles \ DOMAIN bundles)
  /\ stage' = IF s.fatal THEN "fatal" ELSE stage
  /\ UNCHANGED <<problem, deferred>>

PlaceBundle(b) ==
  /\ Popped(b)
  /\ \E l \in FreeLocation(b) : place' = [place EXCEPT ![b] = l]
  /\ worklist' = worklist \ {b}
  /\ UNCHANGED <<problem, bundles, transfers, carriers, deferred, stage>>

DeferSpillSlotAssignment(b) ==
  /\ Popped(b) /\ b \in carriers /\ FreeCandidates(b) = {}
  /\ deferred' = deferred \cup {b}
  /\ worklist' = worklist \ {b}
  /\ UNCHANGED <<problem, bundles, transfers, place, carriers, stage>>

TrimSpillCarrier(b) ==
  /\ Crowded(b) /\ (HasRequirement(b) \/ Evictable(b) = {})
  /\ \E c \in FirstCarrier(b), middle \in {NewBundle(problem, bundles)} :
     \E cut \in {SplitBundle(problem, ScheduleOf, b, c.from, TransferPointForBoundary(c.from))} :
     \E s \in {SplitBundle(problem, cut, middle, c.to, TransferPointForBoundary(c.to))} :
       Reschedule(b, s, {middle})

SplitBeforeLaterFixedUse(b) ==
  /\ Crowded(b) /\ HasRequirement(b) /\ Carriers(b) = {}
  /\ \E o \in LaterFixedUse(b) :
     \E s \in {SplitBundle(problem, ScheduleOf, b, problem.occs[o].from,
                          TransferPointForOccurrence(problem, o))} : Reschedule(b, s, {})

EvictAndPlace(b) ==
  /\ Crowded(b)
  /\ HasRequirement(b) => Carriers(b) = {} /\ LaterFixedUse(b) = {}
  /\ \E l \in Evictable(b) :
     \E evicted \in {Residents(l, b)} :
         /\ place' = [c \in DOMAIN place |-> IF c = b THEN l
                                             ELSE IF c \in evicted THEN Nowhere
                                             ELSE place[c]]
         /\ worklist' = (worklist \ {b}) \cup evicted
  /\ UNCHANGED <<problem, bundles, transfers, carriers, deferred, stage>>

Stuck(b) ==
  /\ Crowded(b) /\ Carriers(b) = {} /\ Evictable(b) = {}
  /\ HasRequirement(b) => LaterFixedUse(b) = {}

SplitForPressure(b) ==
  /\ Stuck(b)
  /\ \E cut \in PressureSplit(b) :
     \E s \in {SplitBundle(problem, ScheduleOf, b, cut, TransferPointForBoundary(cut))} :
       Reschedule(b, s, {})

\* RequiresSplittingOrSpilling: the function stays interpreted.
FailAllocation(b) ==
  /\ \/ Stuck(b) /\ PressureSplit(b) = {}
     \/ Popped(b) /\ b \notin carriers /\ FreeCandidates(b) = {} /\ ~InRegister(b)
  /\ stage' = "failed"
  /\ UNCHANGED <<problem, bundles, transfers, place, carriers, worklist, deferred>>

-----------------------------------------------------------------------------
(* Spill slots: in the order of their starts, each deferred bundle takes   *)
(* the lowest slot that no earlier one still needs.                        *)

BundleStart(b) == FirstOf(bundles[b].frags)
BundleEnd(b) == LastOf(bundles[b].frags)

StartsBefore(x, y) ==
  BundleStart(x) < BundleStart(y) \/ (BundleStart(x) = BundleStart(y) /\ x < y)

Earlier(b) == {c \in deferred : StartsBefore(c, b)}

\* A mistake: a slot is reused while its last position is still live.
SlotsInUseEarly(slots, b) == {slots[c] : c \in {c \in Earlier(b) : BundleEnd(c) > BundleStart(b) + 2}}

SlotsInUse(slots, b) == {slots[c] : c \in {c \in Earlier(b) : BundleEnd(c) > BundleStart(b)}}

LowestFree(slots) ==
  \A b \in deferred : /\ slots[b] \notin SlotsInUse(slots, b)
                      /\ \A n \in 0 .. slots[b] - 1 : n \in SlotsInUse(slots, b)

AssignSpillSlots ==
  /\ stage = "assign" /\ worklist = {}
  /\ \E slots \in [deferred -> 0 .. Cardinality(deferred) - 1] :
       /\ LowestFree(slots)
       /\ place' = [b \in DOMAIN place |-> IF b \in deferred THEN SpillSlot(slots[b]) ELSE place[b]]
  /\ stage' = "assigned"
  /\ UNCHANGED <<problem, bundles, transfers, carriers, worklist, deferred>>

-----------------------------------------------------------------------------
(* Edge transfers and the final verification.                              *)

BundleCovering(o) ==
  CHOOSE b \in DOMAIN bundles : \E f \in bundles[b].frags : Covers(problem, f, o)

AffinityTransfers ==
  {[point |-> EdgePoint(a.block, a.edge), from |-> BundleCovering(a.source),
    to |-> BundleCovering(a.destination)] :
     a \in {a \in problem.affinities :
              place[BundleCovering(a.source)] # place[BundleCovering(a.destination)]}}

\* The fragments of a live range, each with the bundle it is in.
Pieces(r) ==
  UNION {{<<b, f>> : f \in {f \in bundles[b].frags : f.range = r}} : b \in DOMAIN bundles}

Partitioned(r) ==
  LET range == problem.ranges[r]
  IN  /\ \A x \in Pieces(r) : /\ x[2].from < x[2].to
                             /\ Within(range, x[2].from, x[2].to)
                             /\ \A y \in Pieces(r) \ {x} : ~Overlap(x[2], y[2])
      /\ \A pos \in range.from .. range.to - 1 :
           \E x \in Pieces(r) : Within(x[2], pos, pos + 1)

Connected(t) ==
  IF t.point.kind # "edge" THEN Adjacent(bundles[t.from], bundles[t.to])
  ELSE \E a \in problem.affinities :
         /\ EdgePoint(a.block, a.edge) = t.point
         /\ \E f \in bundles[t.from].frags : Covers(problem, f, a.source)
         /\ \E f \in bundles[t.to].frags : Covers(problem, f, a.destination)

\* No slot is left out.
SlotsContiguous ==
  \A b \in DOMAIN bundles :
    place[b].kind = "spill" =>
      \A n \in 0 .. place[b].n : \E c \in DOMAIN bundles : place[c] = SpillSlot(n)

AssignmentVerified(b) ==
  LET covered == CoveredOccurrences(problem, bundles[b].frags)
  IN  /\ \A o \in bundles[b].fixed : problem.occs[o].fixed = place[b]
      /\ ClobbersHit(place[b], b) = {}
      /\ place[b].kind = "stack" =>
           \A o \in covered : problem.occs[o].required => IsFixed(problem, o)
      /\ place[b].kind = "spill" => \A o \in covered : problem.occs[o].copy # NoRegister
      /\ Residents(place[b], b) = {b}

AllocationVerified(scheduled) ==
  /\ SlotsContiguous
  /\ \A b \in DOMAIN bundles : place[b] # Nowhere
  /\ \A b \in DOMAIN bundles : bundles[b].frags # {}
  /\ \A r \in DOMAIN problem.ranges : Partitioned(r)
  /\ \A t \in scheduled : t.from # t.to /\ Connected(t)
  /\ \A b \in DOMAIN bundles : AssignmentVerified(b)

VerifyAllocation ==
  /\ stage = "assigned"
  /\ \E scheduled \in {transfers \cup AffinityTransfers} :
         /\ transfers' = scheduled
         /\ stage' = IF AllocationVerified(scheduled) THEN "allocated" ELSE "fatal"
  /\ UNCHANGED <<problem, bundles, place, carriers, worklist, deferred>>

-----------------------------------------------------------------------------
(* The allocator as a whole.                                               *)

AnchorVerified(p, o) ==
  LET occ == p.occs[o]
      a == occ.anchor
      range == p.ranges[occ.range]
      start == p.starts[a.block]
      early == EarlyOf(start, a.at)
      covers(c) == occ.from = c.from /\ occ.to = c.to
      timing == IF occ.pos = early THEN "early" ELSE "late"
      argument == p.graph.blocks[a.block].edges[a.at].args[a.index]
      operand == Inputs(p.graph.blocks[a.block].code[a.at])[a.index].value
  IN  /\ a.block = range.block
      /\ CASE a.kind = "result" /\ a.at = 0 -> covers([from |-> start + 1, to |-> start + 2])
           [] a.kind = "result" /\ a.at > 0 -> covers(Coverage(early, occ.kind, timing))
           [] a.kind = "operand" ->
                covers(Coverage(early, "use", timing)) /\ range.key = ValueKey(p.origin[a.block], operand)
           [] a.kind = "edge" ->
                /\ covers([from |-> occ.pos, to |-> occ.pos + 1])
                /\ occ.pos = ExitOf(start, p.graph.blocks[a.block])
                /\ range.key = ValueKey(p.origin[a.block], argument)
           [] a.kind = "temporary" -> covers(range) /\ range.key = TemporaryKey(a.block, a.at)

OccurrenceVerified(p, o) ==
  LET occ == p.occs[o]
      range == p.ranges[occ.range]
  IN  /\ range.from <= occ.from /\ occ.to <= range.to
      /\ occ.from <= occ.pos /\ occ.pos < occ.to
      /\ AnchorVerified(p, o)

RangeVerified(p, r) ==
  LET range == p.ranges[r]
      start == p.starts[range.block]
      ids == range.occurrences
  IN  /\ start <= range.from /\ range.from < range.to
      /\ range.to <= start + BlockSize(p.graph.blocks[range.block])
      /\ ids # {} /\ \A o \in ids : p.occs[o].range = r

\* Every live range is one fragment of one bundle, whole.
InitialBundlesVerified(p, initial) ==
  LET owners(r) == {b \in DOMAIN initial : \E f \in initial[b].frags : f.range = r}
  IN  /\ \A b \in DOMAIN initial :
           /\ initial[b].frags # {}
           /\ \A f, h \in initial[b].frags : f # h => ~Overlap(f, h)
           /\ \A f \in initial[b].frags : f = Whole(p, f.range)
      /\ \A r \in DOMAIN p.ranges : \E b \in DOMAIN initial : owners(r) = {b}

ReservationsVerified(p) ==
  /\ \A c \in p.clobbers : /\ c.from = EarlyOf(p.starts[c.block], c.at) + 1
                           /\ c.to = c.from + 1
  /\ \A a \in p.affinities :
       /\ p.occs[a.source].anchor = Anchor("edge", a.block, a.edge, a.index)
       /\ p.occs[a.destination].anchor =
            Anchor("result", p.graph.blocks[a.block].edges[a.edge].target, 0, a.index)

ScanVerified(p) ==
  /\ \A o \in DOMAIN p.occs : OccurrenceVerified(p, o)
  /\ \A r \in DOMAIN p.ranges : RangeVerified(p, r)
  /\ ReservationsVerified(p)

ProblemVerified(p) == ScanVerified(p) /\ InitialBundlesVerified(p, InitialBundles(p))

-----------------------------------------------------------------------------
(* What the allocator relies on in a scan: beside what is verified, where  *)
(* occurrences, ranges and blocks lie.                                     *)

Blocks(p) == DOMAIN p.graph.blocks
CodeOf(p, b) == p.graph.blocks[b].code
BlockEnd(p, b) == p.starts[b] + BlockSize(p.graph.blocks[b])

BlocksLaidOut(p) ==
  /\ DOMAIN p.starts = Blocks(p)
  /\ \A b \in Blocks(p) :
       /\ p.starts[b] \in Nat /\ Len(CodeOf(p, b)) \in Nat /\ p.graph.blocks[b].depth \in Nat
       /\ \A c \in Blocks(p) \ {b} : BlockEnd(p, b) <= p.starts[c] \/ BlockEnd(p, c) <= p.starts[b]

AnchorInCode(p, a) ==
  /\ a = Anchor(a.kind, a.block, a.at, a.index)
  /\ a.block \in Blocks(p)
  /\ a.kind \in {"edge", "result", "operand", "temporary"}
  /\ a.kind = "edge" => /\ a.at \in DOMAIN p.graph.blocks[a.block].edges
                        /\ a.index \in DOMAIN p.graph.blocks[a.block].edges[a.at].args
  /\ a.kind = "result" => a.at \in 0 .. Len(CodeOf(p, a.block))
  /\ a.kind \in {"operand", "temporary"} => a.at \in 1 .. Len(CodeOf(p, a.block))

\* An occurrence that does not open its range is a use, or the result of a
\* guard, which follows the guard's operand.
UseOrForwarded(p, o) ==
  LET occ == p.occs[o]
  IN  \/ occ.anchor.kind \in {"operand", "edge"}
      \/ /\ occ.anchor.kind = "result" /\ occ.anchor.at # 0 /\ ~IsFixed(p, o)
         /\ \E q \in DOMAIN p.occs :
              /\ p.occs[q].range = occ.range /\ p.occs[q].required /\ p.occs[q].pos < occ.pos
              /\ p.occs[q].from = occ.from - 1 /\ p.occs[q].to = occ.from

OccurrenceScanned(p, o) ==
  LET occ == p.occs[o]
  IN  /\ occ.from \in Nat /\ occ.to \in Nat /\ occ.pos \in Nat
      /\ occ.kind \in {"use", "def", "forwarding", "temporary"}
      /\ occ.range \in DOMAIN p.ranges /\ o \in p.ranges[occ.range].occurrences
      /\ occ.from # p.ranges[occ.range].from => UseOrForwarded(p, o)
      /\ occ.fixed.kind \in {"none", "reg", "stack"} /\ (occ.fixed.kind = "none" <=> ~IsFixed(p, o))
      /\ occ.fixed.kind = "stack" => ~occ.required
      /\ occ.copy # NoRegister => ~IsFixed(p, o)
      /\ AnchorInCode(p, occ.anchor)
      /\ \A q \in DOMAIN p.occs : p.occs[q].anchor = occ.anchor => q = o

RangeScanned(p, r) ==
  LET range == p.ranges[r]
  IN  /\ range.from \in Nat /\ range.to \in Nat /\ range.block \in Blocks(p)
      /\ range.to <= ExitOf(p.starts[range.block], p.graph.blocks[range.block]) + 1
      /\ range.occurrences \subseteq DOMAIN p.occs
      /\ \E o \in range.occurrences : p.occs[o].to = range.to
      /\ range.key[1] # "value" =>
           \E o \in range.occurrences : p.occs[o].from = range.from /\ p.occs[o].to = range.to

Scanned(p) ==
  /\ ScanVerified(p)
  /\ BlocksLaidOut(p)
  /\ Len(p.occs) \in Nat /\ DOMAIN p.occs = 1 .. Len(p.occs)
  /\ Len(p.ranges) \in Nat /\ DOMAIN p.ranges = 1 .. Len(p.ranges)
  /\ \A o \in DOMAIN p.occs : OccurrenceScanned(p, o)
  /\ \A r \in DOMAIN p.ranges : RangeScanned(p, r)
  /\ \A c \in p.clobbers : /\ c.from \in Nat \ {0} /\ c.to \in Nat
                           /\ c.block \in Blocks(p)
  /\ IsFiniteSet(p.affinities)
  /\ \A a \in p.affinities : a.source \in DOMAIN p.occs /\ a.destination \in DOMAIN p.occs

-----------------------------------------------------------------------------
(* The allocator's steps before and after the assignment.                  *)

\* The problem's graph is given; everything else starts empty.
AllocationInit(g) ==
  /\ problem = ScanLiveRanges(g)
  /\ bundles = <<>> /\ transfers = {} /\ place = <<>>
  /\ carriers = {} /\ worklist = {} /\ deferred = {}
  /\ stage = "scan"

BuildInitialBundles ==
  /\ stage = "scan"
  /\ bundles' = InitialBundles(problem)
  /\ place' = [b \in DOMAIN bundles' |-> Nowhere]
  /\ stage' = IF ProblemVerified(problem) THEN "constrain" ELSE "fatal"
  /\ UNCHANGED <<problem, transfers, carriers, worklist, deferred>>

Unsettled == {b \in DOMAIN bundles : Excluded(problem, bundles[b].frags) # {}}

\* The right part of the last split, or the first of the initial bundles.
NextUnsettled ==
  {b \in Unsettled : \A c \in Unsettled \ {b} :
     b > Len(problem.ranges) \/ (c <= Len(problem.ranges) /\ b < c)}

\* One turn of the splitter's loop.
SplitForLocation ==
  /\ stage = "constrain"
  /\ \E b \in NextUnsettled : \E o \in FirstExcluded(problem, bundles[b].frags) :
       LET boundary == problem.occs[o].from
           s == SplitBundle(problem, ScheduleOf, b, boundary, TransferPointForOccurrence(problem, o))
       IN  IF CanSplit(problem, bundles[b].frags, boundary)
             THEN /\ bundles' = s.bundles /\ transfers' = s.transfers
                  /\ place' = [c \in DOMAIN s.bundles |-> Nowhere]
                  /\ stage' = IF s.fatal THEN "fatal" ELSE stage
             ELSE stage' = "failed" /\ UNCHANGED <<bundles, transfers, place>>
  /\ UNCHANGED <<problem, carriers, worklist, deferred>>

StartAssignment ==
  /\ stage = "constrain" /\ Unsettled = {}
  /\ worklist' = DOMAIN bundles
  /\ stage' = "assign"
  /\ UNCHANGED <<problem, bundles, transfers, place, carriers, deferred>>

AssignStep ==
  \E b \in worklist :
    \/ PlaceBundle(b)
    \/ DeferSpillSlotAssignment(b)
    \/ TrimSpillCarrier(b)
    \/ SplitBeforeLaterFixedUse(b)
    \/ EvictAndPlace(b)
    \/ SplitForPressure(b)
    \/ FailAllocation(b)

AllocationNext ==
  \/ BuildInitialBundles \/ SplitForLocation \/ StartAssignment
  \/ AssignStep \/ AssignSpillSlots \/ VerifyAllocation
=============================================================================
