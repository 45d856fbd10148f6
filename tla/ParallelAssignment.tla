------------------------- MODULE ParallelAssignment -------------------------
(***************************************************************************)
(* The JIT's parallel assignments: a simultaneous shuffle of registers and *)
(* stack slots is turned into a sequence of moves, cycles being broken     *)
(* with a scratch location, and then moves between two stack slots are     *)
(* split through a scratch register.  A value is named by the location     *)
(* that held it at the start.  `regs' is what the ordered moves, executed  *)
(* one after the other, leave in each location; `machine' the same for the *)
(* legalized ones.  Assignments are known by their destinations.  The      *)
(* order of the deques is left open: any order gives the same result.      *)
(***************************************************************************)
EXTENDS Naturals, Sequences, FiniteSets, Functions

CONSTANTS
  Locations,     \* locations that assignments read and write
  StackSlots,    \* those of them that are in memory
  ScratchLists   \* what scratch_registers may be, in order of preference, for one class

ASSUME LocationsFinite == IsFiniteSet(Locations)
ASSUME ScratchApart ==
  /\ StackSlots \subseteq Locations
  /\ \A s \in ScratchLists : s \in Seq(Range(s)) /\ Range(s) \cap Locations = {}

AllLocations == Locations \cup UNION {Range(s) : s \in ScratchLists}

VARIABLES
  source,     \* the assignments: source[d] is to end in d
  scratch,    \* scratch_registers
  phase,      \* "order", "legalize", "done" or "failed"
  pending,    \* assignments not emitted yet
  location,   \* PendingAssignment::source_location
  nSources,   \* n_pending_sources_ (0: erased)
  ready,      \* assignments queued in ready_
  candidates, \* cycle_candidates_
  moves,      \* result_.moves
  next,       \* the ordered move that is legalized next
  regs, machine

orderVars == <<pending, location, nSources, ready, candidates, moves, regs>>
vars == <<source, scratch, phase, orderVars, next, machine>>

Dests == {d \in DOMAIN source : source[d] # d}
Initially == [l \in AllLocations |-> l]

\* plan_physical_assignments breaks every cycle with the first register.
CycleScratch == Head(scratch)

Users(from, l) == {d \in DOMAIN from : from[d] = l}

\* The constructor: assignments that move nothing are set aside.
Init ==
  /\ \E D \in SUBSET Locations : source \in [D -> Locations]
  /\ scratch \in ScratchLists
  /\ phase = "order"
  /\ pending = Dests
  /\ location = [d \in Dests |-> source[d]]
  /\ nSources = [l \in AllLocations |-> Cardinality(Users(location, l))]
  /\ ready = {d \in Dests : nSources[d] = 0}
  /\ candidates = Dests
  /\ moves = <<>> /\ next = 1
  /\ regs = Initially /\ machine = Initially
-----------------------------------------------------------------------------
\* OrderedMoveSource: the move's value comes from an original assignment or,
\* once its location was preserved, from the move that preserved it.
SavedIn(l) == {i \in DOMAIN moves : moves[i].dest = l}

FromOf(d) ==
  IF location[d] = source[d] THEN [kind |-> "assignment", index |-> d]
  ELSE [kind |-> "move", index |-> CHOOSE i \in SavedIn(location[d]) :
                                     \A j \in SavedIn(location[d]) : j <= i]

Emit(from, l, dest) ==
  /\ moves' = Append(moves, [from |-> from, loc |-> l, dest |-> dest])
  /\ regs' = [regs EXCEPT ![dest] = regs[l]]

\* Mutant: the assignment into a source is queued when one reader is done.
FreedEarly(l, left, count) == IF l \in left THEN {l} ELSE {}

\* source_became_free, enqueue_if_ready
Freed(l, left, count) == IF l \in left /\ count[l] = 0 THEN {l} ELSE {}

\* resolve takes a ready assignment; complete
EmitReady(d) ==
  /\ phase = "order" /\ d \in ready
  /\ Emit(FromOf(d), location[d], d)
  /\ pending' = pending \ {d}
  /\ nSources' = [nSources EXCEPT ![location[d]] = @ - 1]
  /\ ready' = (ready \ {d}) \cup Freed(location[d], pending', nSources')
  /\ UNCHANGED <<source, scratch, phase, location, candidates, next, machine>>

InCycle(d) == d \in pending /\ nSources[d] # 0

\* Mutant: cycles are broken while moves are ready.
NoReadyNeeded == phase = "order" /\ pending # {}

NoReady == phase = "order" /\ pending # {} /\ ready = {}

\* next_cycle, which drops the candidates it passes over, and break_cycle:
\* every reader of the location now reads the scratch.
BreakCycle(d) ==
  /\ NoReady /\ d \in candidates /\ InCycle(d) /\ scratch # <<>>
  /\ Emit(FromOf(d), location[d], CycleScratch)
  /\ LET old == location[d]
         users == {e \in pending : location[e] = old}
     IN  /\ location' = [e \in DOMAIN location |-> IF e \in users THEN CycleScratch ELSE location[e]]
         /\ nSources' = [nSources EXCEPT ![old] = 0, ![CycleScratch] = Cardinality(users)]
         /\ ready' = Freed(old, pending, nSources')
  /\ \E passed \in SUBSET {e \in candidates : ~InCycle(e)} :
       candidates' = candidates \ (passed \cup {d})
  /\ UNCHANGED <<source, scratch, phase, pending, next, machine>>

CycleScratchMissing ==
  /\ NoReady /\ (\E d \in candidates : InCycle(d)) /\ scratch = <<>>
  /\ phase' = "failed"
  /\ UNCHANGED <<source, scratch, orderVars, next, machine>>

Ordered ==
  /\ phase = "order" /\ pending = {}
  /\ phase' = "legalize"
  /\ UNCHANGED <<source, scratch, orderVars, next, machine>>
-----------------------------------------------------------------------------
\* legalize_stack_transfers: locations that the moves from this one on read.
FutureSources == {moves[i].loc : i \in next .. Len(moves)}

\* Mutant: a scratch register that holds a preserved value is taken.
AvailableFirst == {i \in DOMAIN scratch : TRUE}

\* available_scratch
Available == {i \in DOMAIN scratch : scratch[i] \notin FutureSources}

ToStack(m) == m.loc \in StackSlots /\ m.dest \in StackSlots

\* Mutant: the same move is looked at again.
LegalizeDirectAgain ==
  /\ phase = "legalize" /\ next <= Len(moves) /\ ~ToStack(moves[next])
  /\ machine' = [machine EXCEPT ![moves[next].dest] = machine[moves[next].loc]]
  /\ UNCHANGED <<source, scratch, phase, orderVars, next>>

LegalizeDirect ==
  /\ phase = "legalize" /\ next <= Len(moves) /\ ~ToStack(moves[next])
  /\ machine' = [machine EXCEPT ![moves[next].dest] = machine[moves[next].loc]]
  /\ next' = next + 1
  /\ UNCHANGED <<source, scratch, phase, orderVars>>

LegalizeThroughScratch ==
  /\ phase = "legalize" /\ next <= Len(moves) /\ ToStack(moves[next])
  /\ Available # {}
  /\ LET s == scratch[CHOOSE i \in Available : \A j \in Available : i <= j]
         v == machine[moves[next].loc]
     IN  machine' = [machine EXCEPT ![s] = v, ![moves[next].dest] = v]
  /\ next' = next + 1
  /\ UNCHANGED <<source, scratch, phase, orderVars>>

LegalizeScratchMissing ==
  /\ phase = "legalize" /\ next <= Len(moves) /\ ToStack(moves[next])
  /\ Available = {}
  /\ phase' = "failed"
  /\ UNCHANGED <<source, scratch, orderVars, next, machine>>

Legalized ==
  /\ phase = "legalize" /\ next > Len(moves)
  /\ phase' = "done"
  /\ UNCHANGED <<source, scratch, orderVars, next, machine>>

Finished == phase \in {"done", "failed"} /\ UNCHANGED vars

Next ==
  \/ \E d \in ready : EmitReady(d)
  \/ \E d \in candidates : BreakCycle(d)
  \/ CycleScratchMissing
  \/ Ordered
  \/ LegalizeDirect
  \/ LegalizeThroughScratch
  \/ LegalizeScratchMissing
  \/ Legalized
  \/ Finished

Spec == Init /\ [][Next]_vars
FairSpec == Spec /\ WF_vars(Next)
-----------------------------------------------------------------------------
(* Types.  Only pending assignments are queued.                            *)
TypeOK ==
  /\ scratch \in ScratchLists
  /\ phase \in {"order", "legalize", "done", "failed"}
  /\ pending \subseteq Dests /\ ready \subseteq pending /\ candidates \subseteq Dests
  /\ location \in [Dests -> AllLocations]
  /\ nSources \in [AllLocations -> Nat]
  /\ regs \in [AllLocations -> AllLocations]

(* n_pending_sources_ counts exactly the pending assignments that read a   *)
(* location: the fatal "invalid pending-source count" is never reached.    *)
CountsExact ==
  \A l \in AllLocations : nSources[l] = Cardinality({d \in pending : location[d] = l})

(* Values survive until they are used: a pending assignment finds its      *)
(* value in its current source location, although other moves, into that   *)
(* location included, may be emitted before it.                            *)
PendingValuesIntact == \A d \in pending : regs[location[d]] = source[d]

(* The ordered moves have the effect of the simultaneous assignment: every *)
(* destination has its source's first value and no other location, except  *)
(* for scratch, has changed.                                               *)
Shuffled(r) ==
  \A l \in Locations : r[l] = IF l \in Dests THEN source[l] ELSE l
OrderedMovesShuffle == phase \notin {"order", "failed"} => Shuffled(regs)

(* Splitting moves between stack slots keeps that effect: the register the *)
(* split goes through never holds a preserved value that is still needed.  *)
LegalizedMovesShuffle == phase = "done" => Shuffled(machine)

(* A scratch location is needed only for cycles, and one is enough for any *)
(* number of them: when the next cycle is broken no assignment reads it.   *)
OneScratchIsEnough ==
  NoReady /\ scratch # <<>> => \A d \in pending : location[d] # CycleScratch

(* Ordering ends: the fatal "no ready move or cycle" is never reached.     *)
OrderingEnds == <>(phase \in {"done", "failed"})
=============================================================================
