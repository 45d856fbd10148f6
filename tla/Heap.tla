-------------------------------- MODULE Heap --------------------------------
(***************************************************************************)
(* The memory subsystem of CloverVM: deferred reference counting, the      *)
(* zero-count tables (ZCTs), safepoint reclamation and the slabs the       *)
(* objects live in.                                                        *)
(*                                                                         *)
(* Values in Clover frames and in the accumulator are borrowed: only a     *)
(* store into a heap object (Member) or into a native owner (Owned) counts.*)
(* An object whose count is zero may therefore still be in use, and is     *)
(* reclaimed only at a safepoint, when the frames can be scanned.          *)
(*                                                                         *)
(* The VM calls make_new_thread once, so MainThread is the one ThreadState *)
(* that runs managed code; any other ThreadState has its frame chain at    *)
(* the sentinel and takes part with its heap and its ZCT (it is made       *)
(* active by an ActivationScope).  Nothing runs beside a reclamation:      *)
(* handle_safepoint returns only when it is complete, and the steps below  *)
(* split it so that every intermediate state is checked.                   *)
(***************************************************************************)
EXTENDS Naturals, Sequences, FiniteSets

CONSTANTS
  OrdinarySlabs,       \* slabs of DefaultSlabSize bytes
  LargeSlabs,          \* dedicated slabs, one large object each
  SlabCapacity,        \* objects that fit in an ordinary slab
  SlotCount,           \* owned Value slots per object (its release span)
  Handles,             \* native owners outside the heap: Owned<T>, VM fields
  Threads, MainThread, \* ThreadStates, and the one that runs managed code
  EmptySlabCacheCapacity,
  InactiveEpochSlabLimit,  \* ReclamationPolicyInactiveEpochSlabLimit
  DedicatedLargeLimit,     \* the dedicated bytes limit, in large objects
  FireEverySafepoint,      \* fire_every_safepoint_for_testing
  NotPresent,          \* any Value that is not a refcounted pointer
  NoSlab               \* a ThreadState that does not exist has no slab

Slabs == OrdinarySlabs \cup LargeSlabs
SlotIndex == 1 .. SlotCount
Capacity(s) == IF s \in LargeSlabs THEN 1 ELSE SlabCapacity
\* A heap address; it is reused only after its slab has been reset.
Addr == Slabs \X (1 .. SlabCapacity)
SlabOf(o) == o[1]
Cells == (Addr \X SlotIndex) \cup Handles
Value == Addr \cup {NotPresent}

ASSUME ConstantsAssumption ==
  /\ SlabCapacity \in Nat \ {0}
  /\ SlotCount \in Nat
  /\ EmptySlabCacheCapacity \in Nat \ {0}
  /\ InactiveEpochSlabLimit \in Nat
  /\ DedicatedLargeLimit \in Nat
  /\ FireEverySafepoint \in BOOLEAN
  /\ MainThread \in Threads
  /\ OrdinarySlabs # {}

ASSUME DisjointAssumption ==
  /\ OrdinarySlabs \cap LargeSlabs = {}
  /\ NoSlab \notin Slabs
  /\ NotPresent \notin Addr
  /\ Handles \cap (Addr \X SlotIndex) = {}

ASSUME FiniteAssumption ==
  /\ IsFiniteSet(OrdinarySlabs)
  /\ IsFiniteSet(LargeSlabs)
  /\ IsFiniteSet(Handles)
  /\ IsFiniteSet(Threads)

VARIABLES
  refcount, lifecycle,  \* the HeapObject header
  valid,                \* addresses whose valid-object bit is set
  cell,                 \* contents of every owned cell
  stack,                \* pointer-shaped words in MainThread's live frames
  live,                 \* those of them the program may still read
  acc,                  \* the accumulator
  requested,            \* safepoint_requested_
  zct, epoch, local,    \* per ThreadState: ZCT, epoch slabs, local allocator
  pins, slabState, bump, cache, \* slabs and the heap's empty-slab cache
  phase, cur, pending,  \* the running reclamation: step and thread
  roots,                \* its ReclamationRootSet
  scan, keep,           \* indexes of process_zero_count_table_entries
  victim, slot,         \* the object being torn down, its next slot
  candidates            \* release_candidates of the ReclamationContext

objVars == <<refcount, lifecycle, valid, cell>>
frameVars == <<stack, live, acc>>
slabVars == <<pins, slabState, bump, cache>>
gcVars == <<phase, cur, pending, roots, scan, keep, victim, slot, candidates>>
vars == <<objVars, frameVars, requested, zct, epoch, local, slabVars, gcVars>>

Running == phase = "run"
Registered == {t \in Threads : local[t] # NoSlab}

-----------------------------------------------------------------------------
(* Reference counts.                                                       *)

Incref(rc, v) == IF v = NotPresent THEN rc ELSE [rc EXCEPT ![v] = @ + 1]
Decref(rc, v) == IF v = NotPresent THEN rc ELSE [rc EXCEPT ![v] = @ - 1]

\* Mutant: an object that is already in a table is queued again.
AddToZeroCountTableTwice(t, v, rc) ==
  LET enqueue == v # NotPresent /\ rc[v] = 0
  IN /\ lifecycle' = IF enqueue THEN [lifecycle EXCEPT ![v] = "InZct"]
                                ELSE lifecycle
     /\ zct' = IF enqueue THEN [zct EXCEPT ![t] = Append(@, v)] ELSE zct

\* add_to_zero_count_table_if_needed on the ZCT of t, for a value v whose
\* count has just been decremented, rc holding the counts after that: an
\* object that is already in some ZCT is not queued again.
AddToZeroCountTableIfNeeded(t, v, rc) ==
  LET enqueue == v # NotPresent /\ rc[v] = 0 /\ lifecycle[v] # "InZct"
  IN /\ lifecycle' = IF enqueue THEN [lifecycle EXCEPT ![v] = "InZct"]
                                ELSE lifecycle
     /\ zct' = IF enqueue THEN [zct EXCEPT ![t] = Append(@, v)] ELSE zct

-----------------------------------------------------------------------------
(* Allocation.                                                             *)

\* GlobalHeap::make_new_slab gives out slab s: the most recently cached
\* empty slab, or else a fresh mapping.
TakesOrdinarySlab(s) ==
  /\ s \in OrdinarySlabs
  /\ IF cache # <<>>
     THEN /\ s = cache[Len(cache)]
          /\ cache' = SubSeq(cache, 1, Len(cache) - 1)
     ELSE /\ slabState[s] = "unmapped"
          /\ cache' = cache
  /\ slabState' = [slabState EXCEPT ![s] = "mapped"]

\* request_reclamation_if_policy_triggers, for the epoch slabs e of a thread.
PolicyTriggers(e) ==
  \/ Cardinality(e) > 1 + InactiveEpochSlabLimit
  \/ Cardinality(e \cap LargeSlabs) > DedicatedLargeLimit

\* construct_object: a fresh header, empty owned slots, then the valid bit.
\* The new pointer is handed to managed code in the accumulator.
ConstructObject(o) ==
  /\ refcount' = [refcount EXCEPT ![o] = 0]
  /\ lifecycle' = [lifecycle EXCEPT ![o] = "Normal"]
  /\ valid' = valid \cup {o}
  /\ cell' = [c \in Cells |-> IF c \in {o} \X SlotIndex THEN NotPresent
                                                       ELSE cell[c]]
  /\ acc' = o
  /\ UNCHANGED <<stack, live>>

\* ThreadLocalHeap::allocate, bump allocation in the local slab.
AllocateFast(t) ==
  LET s == local[t]
  IN /\ Running
     /\ s # NoSlab
     /\ bump[s] < Capacity(s)
     /\ bump' = [bump EXCEPT ![s] = @ + 1]
     /\ ConstructObject(<<s, bump[s] + 1>>)
     /\ UNCHANGED <<requested, zct, epoch, local, pins, slabState, cache,
                    gcVars>>

\* allocate_slow, ordinary size: the local slab is exhausted.  The old slab
\* keeps its epoch pin and loses its allocator pin.
AllocateSlow(t, s) ==
  LET old == local[t]
  IN /\ Running
     /\ old # NoSlab
     /\ bump[old] = Capacity(old)
     /\ TakesOrdinarySlab(s)
     /\ local' = [local EXCEPT ![t] = s]
     /\ epoch' = [epoch EXCEPT ![t] = @ \cup {s}]
     /\ pins' = [pins EXCEPT ![s] = @ + 2, ![old] = @ - 1]
     /\ requested' = (requested \/ PolicyTriggers(epoch[t] \cup {s}))
     /\ bump' = [bump EXCEPT ![s] = @ + 1]
     /\ ConstructObject(<<s, bump[s] + 1>>)
     /\ UNCHANGED <<zct, gcVars>>

\* allocate_slow, LargeAllocationSize and above: a dedicated slab.
AllocateLarge(t, s) ==
  /\ Running
  /\ local[t] # NoSlab
  /\ s \in LargeSlabs
  /\ slabState[s] = "unmapped"
  /\ slabState' = [slabState EXCEPT ![s] = "mapped"]
  /\ epoch' = [epoch EXCEPT ![t] = @ \cup {s}]
  /\ pins' = [pins EXCEPT ![s] = @ + 1]
  /\ requested' = (requested \/ PolicyTriggers(epoch[t] \cup {s}))
  /\ bump' = [bump EXCEPT ![s] = 1]
  /\ ConstructObject(<<s, 1>>)
  /\ UNCHANGED <<zct, local, cache, gcVars>>

\* switch_to_new_slabs: called when the builtins have been initialised.
SwitchToNewSlabs(t, s) ==
  LET old == local[t]
  IN /\ Running
     /\ old # NoSlab
     /\ TakesOrdinarySlab(s)
     /\ local' = [local EXCEPT ![t] = s]
     /\ epoch' = [epoch EXCEPT ![t] = @ \cup {s}]
     /\ pins' = [pins EXCEPT ![s] = @ + 2, ![old] = @ - 1]
     /\ UNCHANGED <<objVars, frameVars, requested, zct, bump, gcVars>>

\* A ThreadState is constructed: its heap takes a slab and pins it twice.
MakeNewThread(t, s) ==
  /\ Running
  /\ local[t] = NoSlab
  /\ TakesOrdinarySlab(s)
  /\ local' = [local EXCEPT ![t] = s]
  /\ epoch' = [epoch EXCEPT ![t] = {s}]
  /\ pins' = [pins EXCEPT ![s] = @ + 2]
  /\ UNCHANGED <<objVars, frameVars, requested, zct, bump, gcVars>>

\* Mutant: the table is adopted and the epoch slabs are dropped.
AdoptTableOnly(t) ==
  /\ Running
  /\ t # MainThread
  /\ local[t] # NoSlab
  /\ zct' = [zct EXCEPT ![MainThread] = @ \o zct[t], ![t] = <<>>]
  /\ epoch' = [epoch EXCEPT ![t] = {}]
  /\ pins' = [s \in Slabs |-> (pins[s] - Cardinality({s} \cap {local[t]}))
                                - Cardinality({s} \cap epoch[t])]
  /\ local' = [local EXCEPT ![t] = NoSlab]
  /\ UNCHANGED <<objVars, frameVars, requested, slabState, bump, cache,
                 gcVars>>

\* A ThreadState other than MainThread goes away: MainThread adopts its ZCT
\* and its epoch slabs, then ~ThreadLocalHeap drops the allocator pin; the
\* epoch list it would release is empty by then.
AdoptReclamationState(t) ==
  /\ Running
  /\ t # MainThread
  /\ local[t] # NoSlab
  /\ zct' = [zct EXCEPT ![MainThread] = @ \o zct[t], ![t] = <<>>]
  /\ epoch' = [epoch EXCEPT ![MainThread] = @ \cup epoch[t], ![t] = {}]
  /\ pins' = [pins EXCEPT ![local[t]] = @ - 1]
  /\ local' = [local EXCEPT ![t] = NoSlab]
  /\ UNCHANGED <<objVars, frameVars, requested, slabState, bump, cache,
                 gcVars>>

-----------------------------------------------------------------------------
(* The mutator.                                                            *)

Readable == live \cup ({acc} \ {NotPresent})
\* The cells the program can reach: the slots of an object it holds, and the
\* native owners.
AccessibleCells == (Readable \X SlotIndex) \cup Handles

\* Store the accumulator into a frame register: no count changes.
StoreRegister ==
  /\ Running
  /\ acc # NotPresent
  /\ stack' = stack \cup {acc}
  /\ live' = live \cup {acc}
  /\ UNCHANGED <<objVars, acc, requested, zct, epoch, local, slabVars, gcVars>>

\* Load a register, or any inline value, into the accumulator.
LoadRegister(v) ==
  /\ Running
  /\ v \in live \cup {NotPresent}
  /\ acc' = v
  /\ UNCHANGED <<objVars, stack, live, requested, zct, epoch, local, slabVars,
                 gcVars>>

\* Load an owned cell into the accumulator: no count changes.
LoadMember(c) ==
  /\ Running
  /\ c \in AccessibleCells
  /\ acc' = cell[c]
  /\ UNCHANGED <<objVars, stack, live, requested, zct, epoch, local, slabVars,
                 gcVars>>

\* The last use of a register: the word stays in the frame.
LeaveRegisterDead(o) ==
  /\ Running
  /\ o \in live
  /\ live' = live \ {o}
  /\ UNCHANGED <<objVars, stack, acc, requested, zct, epoch, local, slabVars,
                 gcVars>>

\* A dead word is overwritten, or its frame is popped.
DropStackWord(o) ==
  /\ Running
  /\ o \in stack \ live
  /\ stack' = stack \ {o}
  /\ UNCHANGED <<objVars, live, acc, requested, zct, epoch, local, slabVars,
                 gcVars>>

\* A new frame exposes a word an earlier frame left behind: any address the
\* heap ever gave out, reclaimed and reused ones included.
ExposeStaleWord(o) ==
  /\ Running
  /\ stack' = stack \cup {o}
  /\ UNCHANGED <<objVars, live, acc, requested, zct, epoch, local, slabVars,
                 gcVars>>

\* Member::assign and Owned::assign, with t the active thread: incref the
\* new value, decref the old one (and queue it at zero), then overwrite.
AssignMember(t, c, v) ==
  LET old == cell[c]
      counts == Decref(Incref(refcount, v), old)
  IN /\ Running
     /\ local[t] # NoSlab
     /\ c \in AccessibleCells
     /\ v \in Readable \cup {NotPresent}
     /\ refcount' = counts
     /\ cell' = [cell EXCEPT ![c] = v]
     /\ AddToZeroCountTableIfNeeded(t, old, counts)
     /\ UNCHANGED <<valid, frameVars, requested, epoch, local, slabVars,
                    gcVars>>

\* VirtualMachine::request_safepoint.
RequestSafepoint ==
  /\ Running
  /\ ~requested
  /\ requested' = TRUE
  /\ UNCHANGED <<objVars, frameVars, zct, epoch, local, slabVars, gcVars>>

-----------------------------------------------------------------------------
(* Safepoints and reclamation.                                             *)

\* collect_reclamation_roots_from_threads, with the accumulator the scan
\* record publishes; then the first thread's epoch is processed.
BeginReclamation(published) ==
  /\ Running
  /\ requested
  /\ roots' = stack \cup ({published} \ {NotPresent})
  /\ phase' = "zct"
  /\ \E t \in Registered : cur' = t /\ pending' = Registered \ {t}
  /\ scan' = 0 /\ keep' = 0
  /\ UNCHANGED <<objVars, stack, live, requested, zct, epoch, local, slabVars,
                 victim, slot, candidates>>

\* Function entry: op_committed_safepoint_slow publishes no accumulator, the
\* callee does not read it.
SafepointAtEntry ==
  /\ BeginReclamation(NotPresent)
  /\ acc' = NotPresent

\* Return, or re-entry from compiled code: the accumulator is published.
SafepointAtReturn ==
  /\ BeginReclamation(acc)
  /\ acc' = acc

\* Mutant: an entry a frame still names is dropped from the table.
ProcessZctEntryForgetsRooted ==
  LET o == zct[cur][scan + 1]
  IN /\ phase = "zct"
     /\ victim = NotPresent
     /\ scan < Len(zct[cur])
     /\ scan' = scan + 1
     /\ \/ /\ refcount[o] > 0
           /\ lifecycle' = [lifecycle EXCEPT ![o] = "Normal"]
           /\ UNCHANGED <<victim, slot>>
        \/ /\ refcount[o] = 0
           /\ o \in roots
           /\ UNCHANGED <<lifecycle, victim, slot>>
        \/ /\ refcount[o] = 0
           /\ o \notin roots
           /\ lifecycle' = [lifecycle EXCEPT ![o] = "Reclaiming"]
           /\ victim' = o
           /\ slot' = 1
     /\ UNCHANGED <<refcount, valid, cell, frameVars, requested, epoch, local,
                    slabVars, phase, cur, pending, roots, candidates, zct, keep>>

\* One iteration of process_zero_count_table_entries.
ProcessZctEntry ==
  LET o == zct[cur][scan + 1]
  IN /\ phase = "zct"
     /\ victim = NotPresent
     /\ scan < Len(zct[cur])
     /\ scan' = scan + 1
     /\ \/ /\ refcount[o] > 0
           /\ lifecycle' = [lifecycle EXCEPT ![o] = "Normal"]
           /\ UNCHANGED <<zct, keep, victim, slot>>
        \/ /\ refcount[o] = 0
           /\ o \in roots
           /\ zct' = [zct EXCEPT ![cur][keep + 1] = o]
           /\ keep' = keep + 1
           /\ UNCHANGED <<lifecycle, victim, slot>>
        \/ /\ refcount[o] = 0
           /\ o \notin roots
           /\ lifecycle' = [lifecycle EXCEPT ![o] = "Reclaiming"]
           /\ victim' = o
           /\ slot' = 1
           /\ UNCHANGED <<zct, keep>>
     /\ UNCHANGED <<refcount, valid, cell, frameVars, requested, epoch, local,
                    slabVars, phase, cur, pending, roots, candidates>>

\* The loop ends: the table is cut to the kept prefix, and the epoch slabs
\* are scanned next.
ResizeZct ==
  /\ phase = "zct"
  /\ victim = NotPresent
  /\ scan = Len(zct[cur])
  /\ zct' = [zct EXCEPT ![cur] = SubSeq(@, 1, keep)]
  /\ phase' = "epoch"
  /\ scan' = 0 /\ keep' = 0
  /\ UNCHANGED <<objVars, frameVars, requested, epoch, local, slabVars, cur,
                 pending, roots, victim, slot, candidates>>

\* Mutant: the slot is cleared and its child is not released.
ReleaseSlotWithoutDecref ==
  /\ phase \in {"zct", "epoch"}
  /\ victim # NotPresent
  /\ slot <= SlotCount
  /\ cell' = [cell EXCEPT ![<<victim, slot>>] = NotPresent]
  /\ slot' = slot + 1
  /\ UNCHANGED <<refcount, lifecycle, zct, valid, frameVars, requested, epoch,
                 local, slabVars, phase, cur, pending, roots, scan, keep,
                 victim, candidates>>

\* One slot of reclaim_object_value_slots: clear it, then release_value.  The
\* child that reaches zero is queued on the table being walked.  A
\* CustomDealloc layout releases its members the same way; the thread it
\* runs under has been made active, so decref uses the same table.
ReleaseSlot ==
  LET v == cell[<<victim, slot>>]
      counts == Decref(refcount, v)
  IN /\ phase \in {"zct", "epoch"}
     /\ victim # NotPresent
     /\ slot <= SlotCount
     /\ cell' = [cell EXCEPT ![<<victim, slot>>] = NotPresent]
     /\ refcount' = counts
     /\ AddToZeroCountTableIfNeeded(cur, v, counts)
     /\ slot' = slot + 1
     /\ UNCHANGED <<valid, frameVars, requested, epoch, local, slabVars, phase,
                    cur, pending, roots, scan, keep, victim, candidates>>

\* finish_reclaim_object.
FinishReclaimObject ==
  /\ phase \in {"zct", "epoch"}
  /\ victim # NotPresent
  /\ slot = SlotCount + 1
  /\ lifecycle' = [lifecycle EXCEPT ![victim] = "Dead"]
  /\ valid' = valid \ {victim}
  /\ candidates' = candidates \cup {SlabOf(victim)}
  /\ victim' = NotPresent
  /\ slot' = 1
  /\ UNCHANGED <<refcount, cell, frameVars, requested, zct, epoch, local,
                 slabVars, phase, cur, pending, roots, scan, keep>>

\* What scan_epoch_slab_bitmaps acts on.  A visited object never becomes
\* such a candidate again (a count that drops to zero makes it InZct), so one
\* pass over the bitmap visits exactly these.
EpochCandidate(o) ==
  /\ o \in valid
  /\ SlabOf(o) \in epoch[cur]
  /\ refcount[o] = 0
  /\ lifecycle[o] = "Normal"

\* Mutant: the scan does not consult the root set.
ScanEpochObjectUnrooted(o) ==
  /\ phase = "epoch"
  /\ victim = NotPresent
  /\ EpochCandidate(o)
  /\ lifecycle' = [lifecycle EXCEPT ![o] = "Reclaiming"]
  /\ victim' = o
  /\ slot' = 1
  /\ UNCHANGED <<zct, refcount, valid, cell, frameVars, requested, epoch, local,
                 slabVars, phase, cur, pending, roots, scan, keep, candidates>>

\* One callback of scan_epoch_slab_bitmaps.
ScanEpochObject(o) ==
  /\ phase = "epoch"
  /\ victim = NotPresent
  /\ EpochCandidate(o)
  /\ \/ /\ o \in roots
        /\ lifecycle' = [lifecycle EXCEPT ![o] = "InZct"]
        /\ zct' = [zct EXCEPT ![cur] = Append(@, o)]
        /\ UNCHANGED <<victim, slot>>
     \/ /\ o \notin roots
        /\ lifecycle' = [lifecycle EXCEPT ![o] = "Reclaiming"]
        /\ victim' = o
        /\ slot' = 1
        /\ zct' = zct
  /\ UNCHANGED <<refcount, valid, cell, frameVars, requested, epoch, local,
                 slabVars, phase, cur, pending, roots, scan, keep, candidates>>

\* Mutant: the slabs that lose their epoch pin are not release candidates.
FinishEpochWithoutCandidates ==
  /\ phase = "epoch"
  /\ victim = NotPresent
  /\ \A o \in Addr : ~EpochCandidate(o)
  /\ epoch' = [epoch EXCEPT ![cur] = {local[cur]}]
  /\ pins' = [s \in Slabs |->
                IF s \in epoch[cur] \ {local[cur]} THEN pins[s] - 1 ELSE
                IF s \in {local[cur]} \ epoch[cur] THEN pins[s] + 1 ELSE
                pins[s]]
  /\ phase' = "release"
  /\ UNCHANGED <<candidates, objVars, frameVars, requested, zct, local,
                 slabState, bump, cache, cur, pending, roots, scan, keep,
                 victim, slot>>

\* finish_reclamation_epoch: the local slab opens the next epoch, then the
\* finished slabs lose their epoch pin and become release candidates.
FinishReclamationEpoch ==
  /\ phase = "epoch"
  /\ victim = NotPresent
  /\ \A o \in Addr : ~EpochCandidate(o)
  /\ epoch' = [epoch EXCEPT ![cur] = {local[cur]}]
  /\ pins' = [s \in Slabs |->
                IF s \in epoch[cur] \ {local[cur]} THEN pins[s] - 1 ELSE
                IF s \in {local[cur]} \ epoch[cur] THEN pins[s] + 1 ELSE
                pins[s]]
  /\ candidates' = candidates \cup epoch[cur]
  /\ phase' = "release"
  /\ UNCHANGED <<objVars, frameVars, requested, zct, local, slabState, bump,
                 cache, cur, pending, roots, scan, keep, victim, slot>>

HasValidObjects(s) == \E o \in valid : SlabOf(o) = s

\* Mutant: the pins are not consulted.
ReleaseSlabIfNoObjects(s) ==
  LET cached == Append(cache, s)
      evicts == Len(cached) > EmptySlabCacheCapacity
  IN /\ phase = "release"
     /\ s \in candidates
     /\ candidates' = candidates \ {s}
     /\ \/ /\ HasValidObjects(s)
           /\ UNCHANGED <<slabState, bump, cache>>
        \/ /\ ~HasValidObjects(s)
           /\ s \in OrdinarySlabs
           /\ bump' = [bump EXCEPT ![s] = 0]
           /\ cache' = IF evicts THEN Tail(cached) ELSE cached
           /\ slabState' =
                IF evicts
                THEN [slabState EXCEPT ![s] = "cached", ![Head(cached)] = "unmapped"]
                ELSE [slabState EXCEPT ![s] = "cached"]
     /\ UNCHANGED <<objVars, frameVars, requested, zct, epoch, local, pins,
                    phase, cur, pending, roots, scan, keep, victim, slot>>

\* release_slab_if_empty on one candidate: an ordinary slab is reset and
\* cached, and the oldest cached slab is unmapped when the cache is over its
\* capacity; a dedicated slab is unmapped.
ReleaseSlabIfEmpty(s) ==
  LET cached == Append(cache, s)
      evicts == Len(cached) > EmptySlabCacheCapacity
  IN /\ phase = "release"
     /\ s \in candidates
     /\ candidates' = candidates \ {s}
     /\ \/ /\ pins[s] # 0 \/ HasValidObjects(s)
           /\ UNCHANGED <<slabState, bump, cache>>
        \/ /\ pins[s] = 0 /\ ~HasValidObjects(s)
           /\ s \in OrdinarySlabs
           /\ bump' = [bump EXCEPT ![s] = 0]
           /\ cache' = IF evicts THEN Tail(cached) ELSE cached
           /\ slabState' =
                IF evicts
                THEN [slabState EXCEPT ![s] = "cached", ![Head(cached)] = "unmapped"]
                ELSE [slabState EXCEPT ![s] = "cached"]
        \/ /\ pins[s] = 0 /\ ~HasValidObjects(s)
           /\ s \in LargeSlabs
           /\ bump' = [bump EXCEPT ![s] = 0]
           /\ slabState' = [slabState EXCEPT ![s] = "unmapped"]
           /\ cache' = cache
     /\ UNCHANGED <<objVars, frameVars, requested, zct, epoch, local, pins,
                    phase, cur, pending, roots, scan, keep, victim, slot>>

\* The next thread of run_heap_reclamation.
ProcessNextThread(t) ==
  /\ phase = "release"
  /\ candidates = {}
  /\ t \in pending
  /\ cur' = t
  /\ pending' = pending \ {t}
  /\ phase' = "zct"
  /\ UNCHANGED <<objVars, frameVars, requested, zct, epoch, local, slabVars,
                 roots, scan, keep, victim, slot, candidates>>

\* Mutant: the request is left standing.
CompleteSafepointKeepsRequest ==
  /\ phase = "release"
  /\ candidates = {}
  /\ pending = {}
  /\ phase' = "run"
  /\ roots' = {}
  /\ UNCHANGED <<requested, objVars, frameVars, zct, epoch, local, slabVars,
                 cur, pending, scan, keep, victim, slot, candidates>>

\* complete_safepoint: the request is cleared once every thread is done.
CompleteSafepoint ==
  /\ phase = "release"
  /\ candidates = {}
  /\ pending = {}
  /\ phase' = "run"
  /\ requested' = FireEverySafepoint
  /\ roots' = {}
  /\ UNCHANGED <<objVars, frameVars, zct, epoch, local, slabVars, cur, pending,
                 scan, keep, victim, slot, candidates>>

-----------------------------------------------------------------------------
Init ==
  /\ refcount = [o \in Addr |-> 0]
  /\ lifecycle = [o \in Addr |-> "Dead"]
  /\ valid = {}
  /\ cell = [c \in Cells |-> NotPresent]
  /\ stack = {} /\ live = {} /\ acc = NotPresent
  /\ requested = FireEverySafepoint
  /\ zct = [t \in Threads |-> <<>>]
  /\ bump = [s \in Slabs |-> 0]
  /\ cache = <<>>
  /\ \E s0 \in OrdinarySlabs :
       /\ local = [t \in Threads |-> IF t = MainThread THEN s0 ELSE NoSlab]
       /\ epoch = [t \in Threads |-> IF t = MainThread THEN {s0} ELSE {}]
       /\ pins = [s \in Slabs |-> IF s = s0 THEN 2 ELSE 0]
       /\ slabState = [s \in Slabs |-> IF s = s0 THEN "mapped" ELSE "unmapped"]
  /\ phase = "run" /\ cur = MainThread /\ pending = {} /\ roots = {}
  /\ scan = 0 /\ keep = 0 /\ victim = NotPresent /\ slot = 1
  /\ candidates = {}

Allocate ==
  \E t \in Threads :
    \/ AllocateFast(t)
    \/ \E s \in Slabs : AllocateSlow(t, s) \/ AllocateLarge(t, s)

ThreadStep ==
  \E t \in Threads :
    \/ \E s \in Slabs : MakeNewThread(t, s) \/ SwitchToNewSlabs(t, s)
    \/ AdoptReclamationState(t)

Mutate ==
  \/ StoreRegister
  \/ \E v \in Value : LoadRegister(v)
  \/ \E c \in Cells : LoadMember(c)
  \/ \E o \in Addr : LeaveRegisterDead(o) \/ DropStackWord(o) \/ ExposeStaleWord(o)
  \/ \E t \in Threads, c \in Cells, v \in Value : AssignMember(t, c, v)

Safepoint == SafepointAtEntry \/ SafepointAtReturn

Reclaim ==
  \/ ProcessZctEntry
  \/ ResizeZct
  \/ ReleaseSlot
  \/ FinishReclaimObject
  \/ \E o \in Addr : ScanEpochObject(o)
  \/ FinishReclamationEpoch
  \/ \E s \in Slabs : ReleaseSlabIfEmpty(s)
  \/ \E t \in Threads : ProcessNextThread(t)
  \/ CompleteSafepoint

Next ==
  Allocate \/ ThreadStep \/ Mutate \/ RequestSafepoint \/ Safepoint \/ Reclaim

Spec == Init /\ [][Next]_vars

\* Managed code calls and returns for as long as it runs, and each call and
\* return polls the flag; a reclamation that has begun runs to its end.
Fairness == WF_vars(Safepoint) /\ WF_vars(Reclaim)
FairSpec == Spec /\ Fairness

-----------------------------------------------------------------------------
(* Properties.                                                             *)

TypeOK ==
  /\ refcount \in [Addr -> Nat]
  /\ lifecycle \in [Addr -> {"Normal", "InZct", "Reclaiming", "Dead"}]
  /\ valid \subseteq Addr
  /\ cell \in [Cells -> Value]
  /\ stack \subseteq Addr /\ live \subseteq stack /\ acc \in Value
  /\ requested \in BOOLEAN
  /\ zct \in [Threads -> Seq(Addr)]
  /\ epoch \in [Threads -> SUBSET Slabs]
  /\ local \in [Threads -> OrdinarySlabs \cup {NoSlab}]
  /\ pins \in [Slabs -> Nat]
  /\ slabState \in [Slabs -> {"unmapped", "mapped", "cached"}]
  /\ bump \in [Slabs -> Nat] /\ \A s \in Slabs : bump[s] <= Capacity(s)
  /\ cache \in Seq(OrdinarySlabs)
  /\ phase \in {"run", "zct", "epoch", "release"}
  /\ cur \in Threads /\ pending \subseteq Threads
  /\ roots \subseteq Addr
  /\ scan \in Nat /\ keep \in Nat
  /\ victim \in Value /\ slot \in 1 .. SlotCount + 1
  /\ candidates \subseteq Slabs

RefsTo(o) == {c \in Cells : cell[c] = o}

\* The count in an object's header is the number of owned cells that hold
\* it, at every step of every store, teardown and cascade.
RefcountExact == \A o \in valid : refcount[o] = Cardinality(RefsTo(o))

\* No owned cell holds the address of a reclaimed object.
NoDanglingCell == \A c \in Cells : cell[c] # NotPresent => cell[c] \in valid

\* What the program still holds in a frame or in the accumulator is never
\* reclaimed, though neither is counted.
BorrowedAlive == Readable \subseteq valid

\* The positions of the ZCT of t that are entries: while the table is being
\* compacted, those between the kept prefix and the scan index are not.
Entries(t) ==
  {i \in 1 .. Len(zct[t]) :
     phase = "zct" /\ t = cur => i <= keep \/ i > scan}

\* "A single heap object must appear in at most one ZCT across the whole VM":
\* an object is InZct exactly when it is one entry of one table.
ZctUnique ==
  /\ \A t \in Threads : \A i \in Entries(t) : lifecycle[zct[t][i]] = "InZct"
  /\ \A t, u \in Threads : \A i \in Entries(t), j \in Entries(u) :
       zct[t][i] = zct[u][j] => t = u /\ i = j
  /\ \A o \in Addr : lifecycle[o] = "InZct" =>
       \E t \in Threads : \E i \in Entries(t) : zct[t][i] = o

\* An object with no counted reference will be looked at by a reclamation:
\* it is in a ZCT (or in hand), or it is in a slab some epoch still covers.
\* An object missed here is leaked for good.
ZeroCountDiscoverable ==
  \A o \in valid :
    refcount[o] = 0 /\ lifecycle[o] = "Normal" =>
      \E t \in Registered : SlabOf(o) \in epoch[t]

LocalUsers(s) == {t \in Threads : local[t] = s}
EpochUsers(s) == {t \in Threads : s \in epoch[t]}

\* A slab's pin count is the number of heaps that allocate from it plus the
\* number of epochs that list it.
PinsExact ==
  \A s \in Slabs :
    pins[s] = Cardinality(LocalUsers(s)) + Cardinality(EpochUsers(s))

\* A slab that was released holds no object and no heap uses it; the cache
\* holds exactly the released slabs that stay mapped, once each, and never
\* more than its capacity.
ReleasedSlabsUnused ==
  /\ \A s \in Slabs : slabState[s] # "mapped" =>
       /\ pins[s] = 0
       /\ bump[s] = 0
       /\ ~HasValidObjects(s)
  /\ \A s \in Slabs : slabState[s] = "cached" <=> \E i \in DOMAIN cache : cache[i] = s
  /\ \A i, j \in DOMAIN cache : cache[i] = cache[j] => i = j
  /\ Len(cache) <= EmptySlabCacheCapacity

\* A slab still mapped and in use by nobody would never be released: an
\* empty slab is always pinned by a heap or an epoch, or waiting to be
\* released by the reclamation that emptied it.
EmptySlabsReleased ==
  \A s \in Slabs : slabState[s] = "mapped" =>
    HasValidObjects(s) \/ pins[s] > 0 \/ s \in candidates

Memory == INSTANCE ManagedMemory WITH
  Object <- Addr, alive <- valid, borrowed <- Readable

\* Whatever the counts, tables, epochs and slabs do, the program sees managed
\* memory: nothing it holds or owns is reclaimed or handed out again.
ImplementsManagedMemory == Memory!Spec

\* A requested safepoint is reached and its reclamation completes.
RequestServed == requested ~> (Running /\ ~requested)

Garbage(o) == o \in valid /\ refcount[o] = 0 /\ o \notin stack /\ o # acc
\* As long as safepoints keep being requested, an object nothing holds is
\* reclaimed, unless a stale frame word happens to name it again.
GarbageReclaimed ==
  []<>requested =>
    \A o \in Addr : Garbage(o) ~> (o \notin valid \/ o \in stack)

=============================================================================
