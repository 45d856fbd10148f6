----------------------------- MODULE HeapProofs -----------------------------
(***************************************************************************)
(* Proofs about Heap.  First its slabs: pins are exact, a released slab is *)
(* in use by nobody, and a slab that is empty and unused is released.      *)
(* Then its objects: counts are exact, nothing dangles, what the program   *)
(* borrows stays alive, the zero-count tables are exact, and Heap          *)
(* implements ManagedMemory.  The invariant of the slabs is used where an  *)
(* address is given out.                                                   *)
(***************************************************************************)
EXTENDS Heap, FiniteSetTheorems, SequenceTheorems, TLAPS

SlabTypeOK ==
  /\ valid \subseteq Addr
  /\ epoch \in [Threads -> SUBSET Slabs]
  /\ local \in [Threads -> OrdinarySlabs \cup {NoSlab}]
  /\ pins \in [Slabs -> Nat]
  /\ slabState \in [Slabs -> {"unmapped", "mapped", "cached"}]
  /\ bump \in [Slabs -> Nat]
  /\ cache \in Seq(OrdinarySlabs)
  /\ phase \in {"run", "zct", "epoch", "release"}
  /\ cur \in Threads
  /\ pending \subseteq Threads
  /\ candidates \subseteq Slabs

BumpBounds ==
  /\ \A s \in Slabs : bump[s] <= Capacity(s)
  /\ \A o \in valid : o[2] <= bump[SlabOf(o)]

CandidatesMapped == \A s \in candidates : slabState[s] = "mapped"

\* A ThreadState lists its local slab in its epoch, one that is gone lists
\* nothing, no two list the same slab, and a reclamation visits ThreadStates
\* that exist.
ThreadsUseSlabs ==
  /\ \A t \in Threads : IF local[t] = NoSlab THEN epoch[t] = {}
                                             ELSE local[t] \in epoch[t]
  /\ \A t, u \in Threads : t # u => epoch[t] \cap epoch[u] = {}
  /\ local[MainThread] # NoSlab
  /\ phase # "run" => cur \in Registered /\ pending \subseteq Registered

SlabInv ==
  /\ SlabTypeOK
  /\ PinsExact
  /\ ReleasedSlabsUnused
  /\ EmptySlabsReleased
  /\ BumpBounds
  /\ CandidatesMapped
  /\ ThreadsUseSlabs

-----------------------------------------------------------------------------
(* Sets of threads and their cardinalities.                                *)

\* The heaps and the epochs that use a slab are finitely many, before and
\* after a step.
LEMMA UsersFinite ==
  ASSUME NEW s
  PROVE  /\ IsFiniteSet(LocalUsers(s)) /\ IsFiniteSet(EpochUsers(s))
         /\ Cardinality(LocalUsers(s)) \in Nat
         /\ Cardinality(EpochUsers(s)) \in Nat
         /\ IsFiniteSet(LocalUsers(s)') /\ IsFiniteSet(EpochUsers(s)')
<1>1. /\ LocalUsers(s) \in SUBSET Threads /\ EpochUsers(s) \in SUBSET Threads
      /\ LocalUsers(s)' \in SUBSET Threads /\ EpochUsers(s)' \in SUBSET Threads
  BY DEF LocalUsers, EpochUsers
<1>2. /\ IsFiniteSet(LocalUsers(s)) /\ IsFiniteSet(EpochUsers(s))
      /\ IsFiniteSet(LocalUsers(s)') /\ IsFiniteSet(EpochUsers(s)')
  BY <1>1, FS_Subset, FiniteAssumption
<1> QED BY <1>2, FS_CardinalityType

\* A slab that is not in use has no users; a slab with a user is mapped.
LEMMA UnmappedUnused ==
  ASSUME SlabInv, NEW s \in Slabs, slabState[s] # "mapped"
  PROVE  /\ LocalUsers(s) = {} /\ EpochUsers(s) = {}
         /\ pins[s] = 0 /\ bump[s] = 0
         /\ \A t \in Threads : local[t] # s /\ s \notin epoch[t]
<1>1. pins[s] = 0 /\ bump[s] = 0
  BY DEF SlabInv, ReleasedSlabsUnused
<1>2. Cardinality(LocalUsers(s)) + Cardinality(EpochUsers(s)) = 0
  BY <1>1 DEF SlabInv, PinsExact
<1>3. Cardinality(LocalUsers(s)) = 0 /\ Cardinality(EpochUsers(s)) = 0
  BY <1>2, UsersFinite
<1>4. LocalUsers(s) = {} /\ EpochUsers(s) = {}
  BY <1>3, UsersFinite, FS_EmptySet
<1> QED BY <1>1, <1>4 DEF LocalUsers, EpochUsers

\* A slab that a heap allocates from, or that an epoch lists, is pinned.
LEMMA UsedPinned ==
  ASSUME SlabInv, NEW s \in Slabs
  PROVE  /\ pins[s] = Cardinality(LocalUsers(s)) + Cardinality(EpochUsers(s))
         /\ LocalUsers(s) # {} => Cardinality(LocalUsers(s)) > 0 /\ pins[s] > 0
         /\ EpochUsers(s) # {} => Cardinality(EpochUsers(s)) > 0 /\ pins[s] > 0
<1>1. pins[s] = Cardinality(LocalUsers(s)) + Cardinality(EpochUsers(s))
  BY DEF SlabInv, PinsExact
<1>2. LocalUsers(s) # {} => Cardinality(LocalUsers(s)) # 0
  BY UsersFinite, FS_EmptySet
<1>3. EpochUsers(s) # {} => Cardinality(EpochUsers(s)) # 0
  BY UsersFinite, FS_EmptySet
<1> QED BY <1>1, <1>2, <1>3, UsersFinite

\* The arithmetic of moving a heap t from the slab old to the slab s.
LEMMA PinsAfterSwitch ==
  ASSUME SlabInv, NEW t \in Threads, NEW s \in OrdinarySlabs,
         slabState[s] # "mapped", NEW old, old = local[t], old # NoSlab,
         local' = [local EXCEPT ![t] = s],
         epoch' = [epoch EXCEPT ![t] = @ \cup {s}],
         pins' = [pins EXCEPT ![s] = @ + 2, ![old] = @ - 1]
  PROVE  /\ PinsExact'
         /\ pins' \in [Slabs -> Nat]
         /\ pins'[s] = 2
         /\ \A x \in Slabs : pins[x] > 0 => pins'[x] > 0
<1>1. /\ s \in Slabs /\ old \in Slabs /\ old # s
      /\ LocalUsers(s) = {} /\ EpochUsers(s) = {} /\ pins[s] = 0
  BY UnmappedUnused DEF Slabs, SlabInv, SlabTypeOK
<1>2. local \in [Threads -> OrdinarySlabs \cup {NoSlab}]
      /\ epoch \in [Threads -> SUBSET Slabs] /\ pins \in [Slabs -> Nat]
  BY DEF SlabInv, SlabTypeOK
<1>3. old \in epoch[t]
  BY DEF SlabInv, ThreadsUseSlabs
<1>4. LocalUsers(s)' = {t} /\ EpochUsers(s)' = {t}
  BY <1>1, <1>2 DEF LocalUsers, EpochUsers
<1>5. LocalUsers(old)' = LocalUsers(old) \ {t} /\ t \in LocalUsers(old)
  BY <1>1, <1>2 DEF LocalUsers
<1>6. EpochUsers(old)' = EpochUsers(old) /\ EpochUsers(old) # {}
  BY <1>1, <1>2, <1>3 DEF EpochUsers
<1>7. ASSUME NEW x \in Slabs, x # s, x # old
      PROVE  LocalUsers(x)' = LocalUsers(x) /\ EpochUsers(x)' = EpochUsers(x)
  BY <1>7, <1>1, <1>2 DEF LocalUsers, EpochUsers
<1>8. Cardinality(LocalUsers(s)') = 1 /\ Cardinality(EpochUsers(s)') = 1
  BY <1>4, FS_Singleton
<1>9. Cardinality(LocalUsers(old)') = Cardinality(LocalUsers(old)) - 1
  BY <1>5, UsersFinite, FS_RemoveElement
<1>10. /\ pins[old] = Cardinality(LocalUsers(old)) + Cardinality(EpochUsers(old))
       /\ Cardinality(LocalUsers(old)) > 0 /\ Cardinality(EpochUsers(old)) > 0
  BY <1>1, <1>5, <1>6, UsedPinned
<1>11. /\ pins'[s] = 2 /\ pins'[old] = pins[old] - 1
       /\ \A x \in Slabs : x # s /\ x # old => pins'[x] = pins[x]
  BY <1>1, <1>2
<1>12. pins'[old] \in Nat /\ pins'[old] > 0
  BY <1>10, <1>11, UsersFinite
<1>13. pins' \in [Slabs -> Nat]
  <2>1. \A x \in Slabs : pins'[x] \in Nat
    BY <1>1, <1>2, <1>11, <1>12
  <2>2. pins' = [x \in Slabs |-> pins'[x]]
    BY <1>2
  <2> QED BY <2>1, <2>2
<1>14. ASSUME NEW x \in Slabs
       PROVE  pins'[x] = Cardinality(LocalUsers(x)') + Cardinality(EpochUsers(x)')
  <2>1. CASE x = s BY <2>1, <1>8, <1>11
  <2>2. CASE x = old BY <2>2, <1>6, <1>9, <1>10, <1>11, UsersFinite
  <2>3. CASE x # s /\ x # old
    BY <2>3, <1>7, <1>11 DEF SlabInv, PinsExact
  <2> QED BY <2>1, <2>2, <2>3
<1>15. PinsExact'
  BY <1>14 DEF PinsExact
<1> QED BY <1>11, <1>12, <1>13, <1>15

-----------------------------------------------------------------------------
(* The empty-slab cache.                                                   *)

\* The cache holds exactly the slabs in state "cached", once each.
CacheExact ==
  /\ \A s \in Slabs : slabState[s] = "cached" <=> \E i \in DOMAIN cache : cache[i] = s
  /\ \A i, j \in DOMAIN cache : cache[i] = cache[j] => i = j
  /\ Len(cache) <= EmptySlabCacheCapacity

\* make_new_slab hands out a slab nobody uses and leaves the cache exact.
LEMMA TakeSlab ==
  ASSUME SlabInv, NEW s, TakesOrdinarySlab(s)
  PROVE  /\ s \in OrdinarySlabs /\ s \in Slabs /\ slabState[s] # "mapped"
         /\ slabState' = [slabState EXCEPT ![s] = "mapped"]
         /\ cache' \in Seq(OrdinarySlabs)
         /\ CacheExact'
<1>0. /\ s \in OrdinarySlabs /\ s \in Slabs
      /\ cache \in Seq(OrdinarySlabs)
      /\ slabState' = [slabState EXCEPT ![s] = "mapped"]
      /\ slabState \in [Slabs -> {"unmapped", "mapped", "cached"}]
      /\ CacheExact
  BY DEF TakesOrdinarySlab, Slabs, SlabInv, SlabTypeOK, ReleasedSlabsUnused, CacheExact
<1>1. CASE cache = <<>>
  <2>1. slabState[s] = "unmapped" /\ cache' = cache
    BY <1>1 DEF TakesOrdinarySlab
  <2> QED BY <1>0, <2>1 DEF CacheExact
<1>2. CASE cache # <<>>
  <2> DEFINE n == Len(cache)
  <2>1. s = cache[n] /\ cache' = SubSeq(cache, 1, n - 1)
    BY <1>2 DEF TakesOrdinarySlab
  <2>2. n \in Nat \ {0} /\ DOMAIN cache = 1 .. n /\ \A i \in 1 .. n : cache[i] \in OrdinarySlabs
    BY <1>0, <1>2, EmptySeq, LenProperties, ElementOfSeq
  <2>3. /\ cache' \in Seq(OrdinarySlabs)
        /\ Len(cache') = n - 1
        /\ \A i \in 1 .. n - 1 : cache'[i] = cache[i]
    BY <1>0, <2>1, <2>2, SubSeqProperties
  <2>4. DOMAIN cache' = 1 .. n - 1
    BY <2>3, LenProperties
  <2>5. slabState[s] = "cached"
    BY <1>0, <2>1, <2>2 DEF CacheExact
  <2>6. \A i \in 1 .. n - 1 : cache[i] # s
    BY <1>0, <2>1, <2>2 DEF CacheExact
  <2>7. ASSUME NEW x \in Slabs
        PROVE  slabState'[x] = "cached" <=> \E i \in DOMAIN cache' : cache'[i] = x
    <3>1. CASE x = s
      BY <3>1, <1>0, <2>3, <2>4, <2>6
    <3>2. CASE x # s
      <4>1. slabState'[x] = slabState[x]
        BY <3>2, <1>0
      <4>2. slabState[x] = "cached" <=> \E i \in 1 .. n : cache[i] = x
        BY <1>0, <2>2 DEF CacheExact
      <4>3. (\E i \in 1 .. n : cache[i] = x) <=> \E i \in 1 .. n - 1 : cache[i] = x
        BY <3>2, <2>1, <2>2
      <4> QED BY <4>1, <4>2, <4>3, <2>3, <2>4
    <3> QED BY <3>1, <3>2
  <2>8. \A i, j \in DOMAIN cache' : cache'[i] = cache'[j] => i = j
    BY <1>0, <2>2, <2>3, <2>4 DEF CacheExact
  <2>9. Len(cache') <= EmptySlabCacheCapacity
    BY <1>0, <2>2, <2>3, ConstantsAssumption DEF CacheExact
  <2> QED BY <1>0, <2>3, <2>5, <2>7, <2>8, <2>9 DEF CacheExact
<1> QED BY <1>1, <1>2

-----------------------------------------------------------------------------
(* The steps.                                                              *)

UnmappedEmpty ==
  \A s \in Slabs : slabState[s] # "mapped" =>
    pins[s] = 0 /\ bump[s] = 0 /\ ~HasValidObjects(s)

\* ReleasedSlabsUnused in two halves.
LEMMA ReleasedParts ==
  /\ ReleasedSlabsUnused <=> UnmappedEmpty /\ CacheExact
  /\ ReleasedSlabsUnused' <=> UnmappedEmpty' /\ CacheExact'
BY DEF ReleasedSlabsUnused, UnmappedEmpty, CacheExact

\* A step that leaves the slabs, the heaps and the valid bits alone.
LEMMA SlabFrame ==
  ASSUME SlabInv, UNCHANGED <<slabVars, epoch, local, valid, candidates>>,
         phase' \in {"run", "zct", "epoch", "release"},
         cur' \in Threads, pending' \subseteq Threads,
         phase' # "run" => cur' \in Registered /\ pending' \subseteq Registered
  PROVE  SlabInv'
<1>1. /\ pins' = pins /\ slabState' = slabState /\ bump' = bump /\ cache' = cache
      /\ epoch' = epoch /\ local' = local /\ valid' = valid
      /\ candidates' = candidates
  BY DEF slabVars
<1>2. SlabTypeOK' /\ BumpBounds' /\ CandidatesMapped'
  BY <1>1 DEF SlabInv, SlabTypeOK, BumpBounds, CandidatesMapped
<1>3. \A s \in Slabs : LocalUsers(s)' = LocalUsers(s) /\ EpochUsers(s)' = EpochUsers(s)
  BY <1>1 DEF LocalUsers, EpochUsers
<1>4. PinsExact'
  BY <1>1, <1>3 DEF SlabInv, PinsExact
<1>5. ReleasedSlabsUnused' /\ EmptySlabsReleased'
  BY <1>1 DEF SlabInv, ReleasedSlabsUnused, EmptySlabsReleased, HasValidObjects
<1>6. ThreadsUseSlabs'
  BY <1>1 DEF SlabInv, ThreadsUseSlabs, Registered
<1> QED BY <1>2, <1>4, <1>5, <1>6 DEF SlabInv

\* An object is placed in the slab s of which n objects are now used.
LEMMA PlaceObject ==
  ASSUME SlabInv, NEW s \in Slabs, NEW n \in Nat, n = bump[s] + 1,
         n <= Capacity(s), slabState'[s] = "mapped",
         bump' = [bump EXCEPT ![s] = n], valid' = valid \cup {<<s, n>>},
         \A x \in Slabs : x # s => slabState'[x] = slabState[x]
  PROVE  /\ valid' \subseteq Addr /\ bump' \in [Slabs -> Nat]
         /\ BumpBounds'
         /\ <<s, n>> \notin valid
         /\ \A x \in Slabs : slabState'[x] # "mapped" =>
              bump'[x] = 0 /\ ~HasValidObjects(x)'
<1>1. /\ valid \subseteq Addr /\ bump \in [Slabs -> Nat] /\ BumpBounds
      /\ ReleasedSlabsUnused
  BY DEF SlabInv, SlabTypeOK
<1>2. Capacity(s) <= SlabCapacity /\ Capacity(s) \in Nat
  BY ConstantsAssumption DEF Capacity
<1>3. <<s, n>> \in Addr
  BY <1>1, <1>2, ConstantsAssumption DEF Addr
<1>4. bump'[s] = n /\ \A x \in Slabs : x # s => bump'[x] = bump[x]
  BY <1>1
<1>5. bump' \in [Slabs -> Nat]
  BY <1>1
<1>6. <<s, n>> \notin valid
  BY <1>1 DEF BumpBounds, SlabOf
<1>7. \A x \in Slabs : bump'[x] <= Capacity(x)
  BY <1>1, <1>4 DEF BumpBounds
<1>8. \A o \in valid' : o[2] <= bump'[SlabOf(o)]
  <2>1. ASSUME NEW o \in valid PROVE o[2] <= bump'[SlabOf(o)]
    <3>1. o[1] \in Slabs /\ o[2] \in Nat /\ o[2] <= bump[o[1]]
      BY <1>1, ConstantsAssumption DEF Addr, BumpBounds, SlabOf
    <3> QED BY <3>1, <1>1, <1>4 DEF SlabOf
  <2> QED BY <2>1, <1>4 DEF SlabOf
<1>9. ASSUME NEW x \in Slabs, slabState'[x] # "mapped"
      PROVE  bump'[x] = 0 /\ ~HasValidObjects(x)'
  <2>1. x # s
    BY <1>9
  <2>2. slabState[x] # "mapped"
    BY <1>9, <2>1
  <2>3. bump[x] = 0 /\ ~HasValidObjects(x)
    BY <1>1, <2>2 DEF ReleasedSlabsUnused
  <2> QED BY <2>1, <2>3, <1>4 DEF HasValidObjects, SlabOf
<1> QED BY <1>1, <1>3, <1>5, <1>6, <1>7, <1>8, <1>9 DEF BumpBounds

\* ThreadLocalHeap::allocate in the local slab.
LEMMA SlabAllocateFast ==
  ASSUME SlabInv, NEW t \in Threads, AllocateFast(t)
  PROVE  SlabInv'
<1>0. PICK s, n : s = local[t] /\ n = bump[s] + 1
  OBVIOUS
<1>1. /\ s # NoSlab /\ bump[s] < Capacity(s) /\ bump' = [bump EXCEPT ![s] = n]
      /\ valid' = valid \cup {<<s, n>>}
      /\ UNCHANGED <<epoch, local, pins, slabState, cache, phase, cur, pending, candidates>>
  BY <1>0 DEF AllocateFast, ConstructObject, gcVars
<1>2. s \in Slabs /\ bump[s] \in Nat /\ n \in Nat
  BY <1>0, <1>1 DEF SlabInv, SlabTypeOK, Slabs
<1>3. slabState[s] = "mapped"
  BY <1>0, <1>2, UnmappedUnused
<1>4. Capacity(s) \in Nat
  BY ConstantsAssumption DEF Capacity
<1>5. /\ valid' \subseteq Addr /\ bump' \in [Slabs -> Nat] /\ BumpBounds'
      /\ \A x \in Slabs : slabState'[x] # "mapped" => bump'[x] = 0 /\ ~HasValidObjects(x)'
  <2>1. n <= Capacity(s) /\ slabState'[s] = "mapped"
    BY <1>0, <1>1, <1>2, <1>3, <1>4
  <2> QED BY <2>1, <1>0, <1>1, <1>2, PlaceObject
<1>6. SlabTypeOK'
  BY <1>1, <1>5 DEF SlabInv, SlabTypeOK
<1>7. PinsExact'
  <2>1. \A x \in Slabs : LocalUsers(x)' = LocalUsers(x) /\ EpochUsers(x)' = EpochUsers(x)
    BY <1>1 DEF LocalUsers, EpochUsers
  <2> QED BY <2>1, <1>1 DEF SlabInv, PinsExact
<1>8. ReleasedSlabsUnused'
  BY <1>1, <1>5, ReleasedParts DEF SlabInv, UnmappedEmpty, CacheExact
<1>9. EmptySlabsReleased'
  BY <1>1 DEF SlabInv, EmptySlabsReleased, HasValidObjects
<1>10. CandidatesMapped' /\ ThreadsUseSlabs'
  BY <1>1 DEF SlabInv, CandidatesMapped, ThreadsUseSlabs, Registered
<1> QED BY <1>5, <1>6, <1>7, <1>8, <1>9, <1>10 DEF SlabInv

\* What allocate_slow and switch_to_new_slabs have in common: the heap of t
\* moves to the slab s.
LEMMA SlabSwitch ==
  ASSUME SlabInv, NEW t \in Threads, NEW s, TakesOrdinarySlab(s),
         NEW old, old = local[t], old # NoSlab,
         local' = [local EXCEPT ![t] = s],
         epoch' = [epoch EXCEPT ![t] = @ \cup {s}],
         pins' = [pins EXCEPT ![s] = @ + 2, ![old] = @ - 1],
         valid \subseteq valid', valid' \subseteq Addr,
         bump' \in [Slabs -> Nat], BumpBounds',
         \A x \in Slabs : slabState'[x] # "mapped" => bump'[x] = 0 /\ ~HasValidObjects(x)',
         phase = "run", UNCHANGED <<phase, cur, pending, candidates>>
  PROVE  SlabInv'
<1>1. /\ s \in OrdinarySlabs /\ s \in Slabs /\ slabState[s] # "mapped"
      /\ slabState' = [slabState EXCEPT ![s] = "mapped"]
      /\ cache' \in Seq(OrdinarySlabs) /\ CacheExact'
  BY TakeSlab
<1>2. /\ PinsExact' /\ pins' \in [Slabs -> Nat] /\ pins'[s] = 2
      /\ \A x \in Slabs : pins[x] > 0 => pins'[x] > 0
  BY <1>1, PinsAfterSwitch
<1>3. /\ local \in [Threads -> OrdinarySlabs \cup {NoSlab}]
      /\ epoch \in [Threads -> SUBSET Slabs] /\ pins \in [Slabs -> Nat]
      /\ slabState \in [Slabs -> {"unmapped", "mapped", "cached"}]
      /\ NoSlab \notin Slabs
  BY DisjointAssumption DEF SlabInv, SlabTypeOK
<1>4. SlabTypeOK'
  BY <1>1, <1>2, <1>3 DEF SlabInv, SlabTypeOK
<1>5. UnmappedEmpty'
  <2> SUFFICES ASSUME NEW x \in Slabs, slabState'[x] # "mapped"
               PROVE  pins'[x] = 0
    BY DEF UnmappedEmpty
  <2>1. x # s /\ slabState[x] # "mapped"
    BY <1>1, <1>3
  <2>2. pins[x] = 0 /\ x # old
    BY <2>1, UnmappedUnused
  <2> QED BY <2>1, <2>2, <1>1, <1>3
<1>6. ReleasedSlabsUnused'
  BY <1>1, <1>5, ReleasedParts
<1>7. EmptySlabsReleased'
  <2> SUFFICES ASSUME NEW x \in Slabs, slabState'[x] = "mapped"
               PROVE  HasValidObjects(x)' \/ pins'[x] > 0 \/ x \in candidates'
    BY DEF EmptySlabsReleased
  <2>1. CASE x = s BY <2>1, <1>2
  <2>2. CASE x # s
    <3>1. HasValidObjects(x) \/ pins[x] > 0 \/ x \in candidates
      BY <2>2, <1>1, <1>3 DEF SlabInv, EmptySlabsReleased
    <3> QED BY <3>1, <1>2 DEF HasValidObjects
  <2> QED BY <2>1, <2>2
<1>8. CandidatesMapped'
  BY <1>1, <1>3 DEF SlabInv, CandidatesMapped, SlabTypeOK
<1>9. ThreadsUseSlabs'
  <2>1. \A u \in Threads : s \notin epoch[u]
    BY <1>1, UnmappedUnused
  <2> QED BY <2>1, <1>1, <1>3 DEF SlabInv, ThreadsUseSlabs
<1> QED BY <1>2, <1>4, <1>6, <1>7, <1>8, <1>9 DEF SlabInv

\* The allocator takes another slab.
LEMMA SlabAllocateSlow ==
  ASSUME SlabInv, NEW t \in Threads, NEW s \in Slabs, AllocateSlow(t, s)
  PROVE  SlabInv'
<1> DEFINE n == bump[s] + 1
<1>1. /\ phase = "run" /\ local[t] # NoSlab /\ TakesOrdinarySlab(s)
      /\ local' = [local EXCEPT ![t] = s]
      /\ epoch' = [epoch EXCEPT ![t] = @ \cup {s}]
      /\ pins' = [pins EXCEPT ![s] = @ + 2, ![local[t]] = @ - 1]
      /\ bump' = [bump EXCEPT ![s] = @ + 1]
      /\ valid' = valid \cup {<<s, n>>}
      /\ UNCHANGED <<phase, cur, pending, candidates>>
  BY DEF AllocateSlow, ConstructObject, gcVars, Running
<1>2. /\ slabState[s] # "mapped" /\ slabState' = [slabState EXCEPT ![s] = "mapped"]
      /\ slabState \in [Slabs -> {"unmapped", "mapped", "cached"}]
  BY <1>1, TakeSlab DEF SlabInv, SlabTypeOK
<1>3. bump[s] = 0
  BY <1>2, UnmappedUnused
<1>4. n <= Capacity(s) /\ n \in Nat
  BY <1>3, ConstantsAssumption DEF Capacity
<1>5. /\ valid' \subseteq Addr /\ bump' \in [Slabs -> Nat] /\ BumpBounds'
      /\ \A x \in Slabs : slabState'[x] # "mapped" => bump'[x] = 0 /\ ~HasValidObjects(x)'
  BY <1>1, <1>2, <1>4, PlaceObject
<1> QED BY <1>1, <1>5, SlabSwitch

\* The builtins are initialised: the thread goes on in a fresh slab.
LEMMA SlabSwitchToNewSlabs ==
  ASSUME SlabInv, NEW t \in Threads, NEW s \in Slabs, SwitchToNewSlabs(t, s)
  PROVE  SlabInv'
<1>1. /\ phase = "run" /\ local[t] # NoSlab /\ TakesOrdinarySlab(s)
      /\ local' = [local EXCEPT ![t] = s]
      /\ epoch' = [epoch EXCEPT ![t] = @ \cup {s}]
      /\ pins' = [pins EXCEPT ![s] = @ + 2, ![local[t]] = @ - 1]
      /\ UNCHANGED <<bump, valid, phase, cur, pending, candidates>>
  BY DEF SwitchToNewSlabs, objVars, gcVars, Running
<1>2. slabState' = [slabState EXCEPT ![s] = "mapped"]
      /\ slabState \in [Slabs -> {"unmapped", "mapped", "cached"}]
  BY <1>1, TakeSlab DEF SlabInv, SlabTypeOK
<1>3. valid' \subseteq Addr /\ bump' \in [Slabs -> Nat] /\ BumpBounds'
  BY <1>1 DEF SlabInv, SlabTypeOK, BumpBounds
<1>4. \A x \in Slabs : slabState'[x] # "mapped" => bump'[x] = 0 /\ ~HasValidObjects(x)'
  BY <1>1, <1>2 DEF SlabInv, ReleasedSlabsUnused, HasValidObjects
<1> QED BY <1>1, <1>3, <1>4, SlabSwitch

\* A large object gets a slab of its own.
LEMMA SlabAllocateLarge ==
  ASSUME SlabInv, NEW t \in Threads, NEW s \in Slabs, AllocateLarge(t, s)
  PROVE  SlabInv'
<1>1. /\ phase = "run" /\ local[t] # NoSlab /\ s \in LargeSlabs
      /\ slabState[s] = "unmapped"
      /\ slabState' = [slabState EXCEPT ![s] = "mapped"]
      /\ epoch' = [epoch EXCEPT ![t] = @ \cup {s}]
      /\ pins' = [pins EXCEPT ![s] = @ + 1]
      /\ bump' = [bump EXCEPT ![s] = 1]
      /\ valid' = valid \cup {<<s, 1>>}
      /\ UNCHANGED <<local, cache, phase, cur, pending, candidates>>
  BY DEF AllocateLarge, ConstructObject, gcVars, Running
<1>2. /\ LocalUsers(s) = {} /\ EpochUsers(s) = {} /\ pins[s] = 0 /\ bump[s] = 0
      /\ \A u \in Threads : local[u] # s /\ s \notin epoch[u]
  BY <1>1, UnmappedUnused
<1>3. /\ local \in [Threads -> OrdinarySlabs \cup {NoSlab}]
      /\ epoch \in [Threads -> SUBSET Slabs] /\ pins \in [Slabs -> Nat]
      /\ slabState \in [Slabs -> {"unmapped", "mapped", "cached"}]
  BY DEF SlabInv, SlabTypeOK
<1>4. /\ valid' \subseteq Addr /\ bump' \in [Slabs -> Nat] /\ BumpBounds'
      /\ \A x \in Slabs : slabState'[x] # "mapped" => bump'[x] = 0 /\ ~HasValidObjects(x)'
  <2>1. 1 = bump[s] + 1 /\ 1 <= Capacity(s) /\ slabState'[s] = "mapped"
        /\ \A x \in Slabs : x # s => slabState'[x] = slabState[x]
    BY <1>1, <1>2, <1>3, ConstantsAssumption DEF Capacity
  <2> QED BY <2>1, <1>1, PlaceObject
<1>5. SlabTypeOK'
  BY <1>1, <1>3, <1>4 DEF SlabInv, SlabTypeOK
<1>6. PinsExact'
  <2>1. LocalUsers(s)' = {} /\ EpochUsers(s)' = {t} /\ pins'[s] = 1
    BY <1>1, <1>2, <1>3 DEF LocalUsers, EpochUsers
  <2>2. Cardinality(LocalUsers(s)') = 0 /\ Cardinality(EpochUsers(s)') = 1
    BY <2>1, FS_EmptySet, FS_Singleton
  <2>3. ASSUME NEW x \in Slabs, x # s
        PROVE  /\ LocalUsers(x)' = LocalUsers(x) /\ EpochUsers(x)' = EpochUsers(x)
               /\ pins'[x] = pins[x]
    BY <2>3, <1>1, <1>3 DEF LocalUsers, EpochUsers
  <2>4. \A x \in Slabs :
          pins'[x] = Cardinality(LocalUsers(x)') + Cardinality(EpochUsers(x)')
    BY <2>1, <2>2, <2>3 DEF SlabInv, PinsExact
  <2> QED BY <2>4 DEF PinsExact
<1>7. ReleasedSlabsUnused'
  <2>1. CacheExact'
    BY <1>1, <1>3 DEF SlabInv, ReleasedSlabsUnused, CacheExact
  <2>2. UnmappedEmpty'
    BY <1>1, <1>3, <1>4 DEF SlabInv, ReleasedSlabsUnused, UnmappedEmpty
  <2> QED BY <2>1, <2>2, ReleasedParts
<1>8. EmptySlabsReleased'
  <2> SUFFICES ASSUME NEW x \in Slabs, slabState'[x] = "mapped"
               PROVE  HasValidObjects(x)' \/ pins'[x] > 0 \/ x \in candidates'
    BY DEF EmptySlabsReleased
  <2>1. CASE x = s BY <2>1, <1>1, <1>2, <1>3
  <2>2. CASE x # s
    <3>1. /\ HasValidObjects(x) \/ pins[x] > 0 \/ x \in candidates
          /\ pins'[x] = pins[x]
      BY <2>2, <1>1, <1>3 DEF SlabInv, EmptySlabsReleased
    <3> QED BY <3>1, <1>1 DEF HasValidObjects
  <2> QED BY <2>1, <2>2
<1>9. CandidatesMapped' /\ ThreadsUseSlabs'
  BY <1>1, <1>2, <1>3 DEF SlabInv, CandidatesMapped, ThreadsUseSlabs, SlabTypeOK
<1> QED BY <1>4, <1>5, <1>6, <1>7, <1>8, <1>9 DEF SlabInv

\* A thread starts with a slab.
LEMMA SlabMakeNewThread ==
  ASSUME SlabInv, NEW t \in Threads, NEW s \in Slabs, MakeNewThread(t, s)
  PROVE  SlabInv'
<1>1. /\ phase = "run" /\ local[t] = NoSlab /\ TakesOrdinarySlab(s)
      /\ local' = [local EXCEPT ![t] = s]
      /\ epoch' = [epoch EXCEPT ![t] = {s}]
      /\ pins' = [pins EXCEPT ![s] = @ + 2]
      /\ UNCHANGED <<valid, bump, phase, cur, pending, candidates>>
  BY DEF MakeNewThread, objVars, gcVars, Running
<1>2. /\ s \in OrdinarySlabs /\ slabState[s] # "mapped"
      /\ slabState' = [slabState EXCEPT ![s] = "mapped"]
      /\ cache' \in Seq(OrdinarySlabs) /\ CacheExact'
  BY <1>1, TakeSlab
<1>3. /\ local \in [Threads -> OrdinarySlabs \cup {NoSlab}]
      /\ epoch \in [Threads -> SUBSET Slabs] /\ pins \in [Slabs -> Nat]
      /\ slabState \in [Slabs -> {"unmapped", "mapped", "cached"}]
      /\ epoch[t] = {} /\ NoSlab \notin Slabs
  BY <1>1, DisjointAssumption DEF SlabInv, SlabTypeOK, ThreadsUseSlabs
<1>4. /\ LocalUsers(s) = {} /\ EpochUsers(s) = {} /\ pins[s] = 0
      /\ \A u \in Threads : local[u] # s /\ s \notin epoch[u]
  BY <1>2, UnmappedUnused
<1>5. SlabTypeOK' /\ BumpBounds'
  BY <1>1, <1>2, <1>3 DEF SlabInv, SlabTypeOK, BumpBounds
<1>6. PinsExact'
  <2>1. LocalUsers(s)' = {t} /\ EpochUsers(s)' = {t} /\ pins'[s] = 2
    BY <1>1, <1>3, <1>4 DEF LocalUsers, EpochUsers
  <2>2. Cardinality(LocalUsers(s)') = 1 /\ Cardinality(EpochUsers(s)') = 1
    BY <2>1, FS_Singleton
  <2>3. ASSUME NEW x \in Slabs, x # s
        PROVE  /\ LocalUsers(x)' = LocalUsers(x) /\ EpochUsers(x)' = EpochUsers(x)
               /\ pins'[x] = pins[x]
    BY <2>3, <1>1, <1>3 DEF LocalUsers, EpochUsers
  <2>4. \A x \in Slabs :
          pins'[x] = Cardinality(LocalUsers(x)') + Cardinality(EpochUsers(x)')
    BY <2>1, <2>2, <2>3 DEF SlabInv, PinsExact
  <2> QED BY <2>4 DEF PinsExact
<1>7. ReleasedSlabsUnused'
  <2>1. UnmappedEmpty'
    BY <1>1, <1>2, <1>3 DEF SlabInv, ReleasedSlabsUnused, UnmappedEmpty, HasValidObjects
  <2> QED BY <2>1, <1>2, ReleasedParts
<1>8. EmptySlabsReleased'
  BY <1>1, <1>2, <1>3, <1>4 DEF SlabInv, EmptySlabsReleased, HasValidObjects
<1>9. CandidatesMapped' /\ ThreadsUseSlabs'
  BY <1>1, <1>2, <1>3, <1>4 DEF SlabInv, CandidatesMapped, ThreadsUseSlabs, SlabTypeOK
<1> QED BY <1>5, <1>6, <1>7, <1>8, <1>9 DEF SlabInv

\* A ThreadState is adopted: each of its epoch pins becomes one of the
\* adopter's, which is exact because no two epochs list the same slab.
LEMMA SlabAdopt ==
  ASSUME SlabInv, NEW t \in Threads, AdoptReclamationState(t)
  PROVE  SlabInv'
<1>0. PICK old : old = local[t]
  OBVIOUS
<1>1. /\ phase = "run" /\ t # MainThread /\ old # NoSlab
      /\ epoch' = [epoch EXCEPT ![MainThread] = @ \cup epoch[t], ![t] = {}]
      /\ pins' = [pins EXCEPT ![old] = @ - 1]
      /\ local' = [local EXCEPT ![t] = NoSlab]
      /\ UNCHANGED <<valid, slabState, bump, cache, phase, cur, pending, candidates>>
  BY <1>0 DEF AdoptReclamationState, objVars, gcVars, Running
<1>2. /\ local \in [Threads -> OrdinarySlabs \cup {NoSlab}]
      /\ epoch \in [Threads -> SUBSET Slabs] /\ pins \in [Slabs -> Nat]
      /\ old \in Slabs /\ NoSlab \notin Slabs /\ MainThread \in Threads
  BY <1>0, <1>1, DisjointAssumption, ConstantsAssumption DEF SlabInv, SlabTypeOK, Slabs
<1>3. old \in epoch[t] /\ epoch[t] \cap epoch[MainThread] = {}
  BY <1>0, <1>1, <1>2 DEF SlabInv, ThreadsUseSlabs
<1>4. LocalUsers(old)' = LocalUsers(old) \ {t} /\ t \in LocalUsers(old)
  BY <1>0, <1>1, <1>2 DEF LocalUsers
<1>5. \A x \in Slabs : x # old => LocalUsers(x)' = LocalUsers(x)
  BY <1>0, <1>1, <1>2 DEF LocalUsers
<1>6. ASSUME NEW x \in Slabs
      PROVE  Cardinality(EpochUsers(x)') = Cardinality(EpochUsers(x))
  <2>1. CASE x \notin epoch[t]
    <3>1. EpochUsers(x)' = EpochUsers(x)
      BY <2>1, <1>1, <1>2 DEF EpochUsers
    <3> QED BY <3>1
  <2>2. CASE x \in epoch[t]
    <3> DEFINE rest == EpochUsers(x) \ {t}
    <3>1. t \in EpochUsers(x) /\ MainThread \notin rest /\ IsFiniteSet(EpochUsers(x))
      BY <2>2, <1>1, <1>3, UsersFinite DEF EpochUsers
    <3>2. EpochUsers(x)' = rest \cup {MainThread}
      BY <2>2, <1>1, <1>2 DEF EpochUsers
    <3>3. IsFiniteSet(rest) /\ Cardinality(rest) = Cardinality(EpochUsers(x)) - 1
      BY <3>1, FS_RemoveElement
    <3>4. Cardinality(rest \cup {MainThread}) = Cardinality(rest) + 1
      BY <3>1, <3>3, FS_AddElement
    <3> QED BY <3>2, <3>3, <3>4, UsersFinite
  <2> QED BY <2>1, <2>2
<1>7. Cardinality(LocalUsers(old)') = Cardinality(LocalUsers(old)) - 1
  BY <1>4, UsersFinite, FS_RemoveElement
<1>8. /\ pins[old] = Cardinality(LocalUsers(old)) + Cardinality(EpochUsers(old))
      /\ Cardinality(LocalUsers(old)) > 0 /\ Cardinality(EpochUsers(old)) > 0
  <2>1. EpochUsers(old) # {}
    BY <1>3 DEF EpochUsers
  <2> QED BY <2>1, <1>2, <1>4, UsedPinned
<1>9. /\ pins'[old] = pins[old] - 1 /\ \A x \in Slabs : x # old => pins'[x] = pins[x]
      /\ pins'[old] \in Nat /\ pins'[old] > 0
  BY <1>1, <1>2, <1>8, UsersFinite
<1>10. PinsExact'
  <2>1. \A x \in Slabs :
          pins'[x] = Cardinality(LocalUsers(x)') + Cardinality(EpochUsers(x)')
    BY <1>5, <1>6, <1>7, <1>8, <1>9, UsersFinite DEF SlabInv, PinsExact
  <2> QED BY <2>1 DEF PinsExact
<1>11. SlabTypeOK' /\ BumpBounds' /\ CandidatesMapped'
  BY <1>1, <1>2, <1>9 DEF SlabInv, SlabTypeOK, BumpBounds, CandidatesMapped
<1>12. ReleasedSlabsUnused'
  <2>1. CacheExact' /\ UnmappedEmpty
    BY <1>1, ReleasedParts DEF SlabInv, CacheExact
  <2>2. UnmappedEmpty'
    BY <2>1, <1>0, <1>1, <1>2, <1>8, <1>9, UsersFinite DEF UnmappedEmpty, HasValidObjects
  <2> QED BY <2>1, <2>2, ReleasedParts
<1>13. EmptySlabsReleased'
  BY <1>1, <1>9 DEF SlabInv, EmptySlabsReleased, HasValidObjects
<1>14. ThreadsUseSlabs'
  BY <1>1, <1>2 DEF SlabInv, ThreadsUseSlabs
<1> QED BY <1>10, <1>11, <1>12, <1>13, <1>14 DEF SlabInv

\* finish_reclaim_object: the slab of the object becomes a candidate, so it
\* is looked at once its last object is gone.
LEMMA SlabFinishReclaimObject ==
  ASSUME SlabInv, victim \in valid, FinishReclaimObject
  PROVE  SlabInv'
<1>0. PICK v, s : v = victim /\ s = SlabOf(v)
  OBVIOUS
<1>1. /\ valid' = valid \ {v} /\ candidates' = candidates \cup {s}
      /\ phase \in {"zct", "epoch"}
      /\ UNCHANGED <<epoch, local, pins, slabState, bump, cache, phase, cur, pending>>
  BY <1>0 DEF FinishReclaimObject, slabVars
<1>2. s \in Slabs /\ v \in valid /\ SlabOf(v) = s
  BY <1>0 DEF SlabInv, SlabTypeOK, Addr, SlabOf
<1>3. slabState[s] = "mapped"
  BY <1>2 DEF SlabInv, ReleasedSlabsUnused, HasValidObjects
<1>4. SlabTypeOK' /\ BumpBounds' /\ CandidatesMapped' /\ ThreadsUseSlabs'
  BY <1>1, <1>2, <1>3
  DEF SlabInv, SlabTypeOK, BumpBounds, CandidatesMapped, ThreadsUseSlabs, Registered
<1>5. PinsExact'
  <2>1. \A x \in Slabs : LocalUsers(x)' = LocalUsers(x) /\ EpochUsers(x)' = EpochUsers(x)
    BY <1>1 DEF LocalUsers, EpochUsers
  <2> QED BY <2>1, <1>1 DEF SlabInv, PinsExact
<1>6. ReleasedSlabsUnused'
  BY <1>1 DEF SlabInv, ReleasedSlabsUnused, HasValidObjects
<1>7. EmptySlabsReleased'
  BY <1>1, <1>2 DEF SlabInv, EmptySlabsReleased, HasValidObjects
<1> QED BY <1>4, <1>5, <1>6, <1>7 DEF SlabInv

\* finish_reclamation_epoch: the local slab stays listed, every other slab of
\* the epoch loses one pin and becomes a candidate.
LEMMA SlabFinishEpoch ==
  ASSUME SlabInv, FinishReclamationEpoch
  PROVE  SlabInv'
<1>0. PICK c, home, done : c = cur /\ home = local[c] /\ done = epoch[c] \ {home}
  OBVIOUS
<1>1. /\ phase = "epoch" /\ phase' = "release"
      /\ epoch' = [epoch EXCEPT ![c] = {home}]
      /\ pins' = [s \in Slabs |->
                    IF s \in done THEN pins[s] - 1 ELSE
                    IF s \in {home} \ epoch[c] THEN pins[s] + 1 ELSE pins[s]]
      /\ candidates' = candidates \cup epoch[c]
      /\ UNCHANGED <<valid, local, slabState, bump, cache, cur, pending>>
  BY <1>0 DEF FinishReclamationEpoch, objVars
<1>2. /\ local \in [Threads -> OrdinarySlabs \cup {NoSlab}]
      /\ epoch \in [Threads -> SUBSET Slabs] /\ pins \in [Slabs -> Nat]
      /\ candidates \subseteq Slabs
  BY DEF SlabInv, SlabTypeOK
<1>3. c \in Threads /\ home \in Slabs /\ home \in epoch[c]
  BY <1>0, <1>1, <1>2, DisjointAssumption
  DEF SlabInv, SlabTypeOK, ThreadsUseSlabs, Registered, Slabs
<1>4. \A x \in Slabs : LocalUsers(x)' = LocalUsers(x)
  BY <1>1 DEF LocalUsers
<1>5. ASSUME NEW x \in Slabs, x \notin done
      PROVE  /\ EpochUsers(x)' = EpochUsers(x) /\ pins'[x] = pins[x]
  BY <1>5, <1>0, <1>1, <1>2, <1>3 DEF EpochUsers
<1>6. ASSUME NEW x \in Slabs, x \in done
      PROVE  /\ Cardinality(EpochUsers(x)') = Cardinality(EpochUsers(x)) - 1
             /\ Cardinality(EpochUsers(x)) > 0
             /\ pins'[x] = pins[x] - 1
  <2>1. EpochUsers(x)' = EpochUsers(x) \ {c} /\ c \in EpochUsers(x)
    BY <1>6, <1>0, <1>1, <1>2, <1>3 DEF EpochUsers
  <2>2. Cardinality(EpochUsers(x)) > 0
    BY <2>1, UsedPinned
  <2> QED BY <2>1, <2>2, <1>1, <1>6, UsersFinite, FS_RemoveElement
<1>7. ASSUME NEW x \in Slabs
      PROVE  /\ pins'[x] = Cardinality(LocalUsers(x)') + Cardinality(EpochUsers(x)')
             /\ pins'[x] \in Nat /\ pins'[x] <= pins[x]
  <2>1. /\ pins[x] = Cardinality(LocalUsers(x)) + Cardinality(EpochUsers(x))
        /\ pins[x] \in Nat
    BY <1>2 DEF SlabInv, PinsExact
  <2> QED BY <2>1, <1>4, <1>5, <1>6, UsersFinite
<1>8. PinsExact'
  BY <1>7 DEF PinsExact
<1>9. \A x \in epoch[c] : slabState[x] = "mapped"
  BY <1>2, <1>3, UnmappedUnused
<1>10. SlabTypeOK' /\ BumpBounds' /\ CandidatesMapped'
  BY <1>1, <1>2, <1>3, <1>7, <1>9 DEF SlabInv, SlabTypeOK, BumpBounds, CandidatesMapped
<1>11. ReleasedSlabsUnused'
  <2>1. CacheExact' /\ UnmappedEmpty
    BY <1>1, ReleasedParts DEF SlabInv, CacheExact
  <2>2. UnmappedEmpty'
    <3> SUFFICES ASSUME NEW x \in Slabs, slabState'[x] # "mapped"
                 PROVE  pins'[x] = 0 /\ bump'[x] = 0 /\ ~HasValidObjects(x)'
      BY DEF UnmappedEmpty
    <3>1. pins[x] = 0 /\ bump[x] = 0 /\ ~HasValidObjects(x)
      BY <2>1, <1>1 DEF UnmappedEmpty
    <3>2. pins'[x] = 0
      BY <3>1, <1>7
    <3> QED BY <3>1, <3>2, <1>1 DEF HasValidObjects
  <2> QED BY <2>1, <2>2, ReleasedParts
<1>12. EmptySlabsReleased'
  BY <1>0, <1>1, <1>5 DEF SlabInv, EmptySlabsReleased, HasValidObjects
<1>13. ThreadsUseSlabs'
  BY <1>0, <1>1, <1>2, <1>3 DEF SlabInv, ThreadsUseSlabs, Registered
<1> QED BY <1>8, <1>10, <1>11, <1>12, <1>13 DEF SlabInv

\* cache_empty_slab_locked keeps the cache exact and within its capacity.
LEMMA CacheSlab ==
  ASSUME SlabInv, NEW s \in OrdinarySlabs, slabState[s] = "mapped",
         NEW cached, cached = Append(cache, s),
         cache' = IF Len(cached) > EmptySlabCacheCapacity THEN Tail(cached) ELSE cached,
         slabState' =
           IF Len(cached) > EmptySlabCacheCapacity
           THEN [slabState EXCEPT ![s] = "cached", ![Head(cached)] = "unmapped"]
           ELSE [slabState EXCEPT ![s] = "cached"]
  PROVE  /\ cache' \in Seq(OrdinarySlabs) /\ CacheExact'
         /\ slabState' \in [Slabs -> {"unmapped", "mapped", "cached"}]
         /\ slabState'[s] = "cached"
         /\ \A x \in Slabs : slabState[x] = "mapped" /\ x # s => slabState'[x] = "mapped"
         /\ \A x \in Slabs : slabState'[x] = "mapped" => slabState[x] = "mapped"
<1>0. PICK n : n = Len(cache)
  OBVIOUS
<1>1. /\ cache \in Seq(OrdinarySlabs) /\ n \in Nat /\ DOMAIN cache = 1 .. n
      /\ \A i \in 1 .. n : cache[i] \in OrdinarySlabs
      /\ slabState \in [Slabs -> {"unmapped", "mapped", "cached"}]
      /\ s \in Slabs /\ OrdinarySlabs \subseteq Slabs
  BY <1>0, LenProperties, ElementOfSeq DEF SlabInv, SlabTypeOK, Slabs
<1>2. CacheExact
  BY ReleasedParts DEF SlabInv
<1>3. /\ cached \in Seq(OrdinarySlabs) /\ Len(cached) = n + 1 /\ cached # <<>>
      /\ \A i \in 1 .. n : cached[i] = cache[i]
      /\ cached[n + 1] = s /\ DOMAIN cached = 1 .. n + 1
  BY <1>0, <1>1, AppendProperties, LenProperties
<1>4. \A i \in 1 .. n : cache[i] # s
  BY <1>1, <1>2 DEF CacheExact
<1>10. ASSUME NEW k \in 1 .. n + 1, NEW m \in 1 .. n + 1, cached[k] = cached[m]
       PROVE  k = m
  <2>1. \A i, j \in 1 .. n : cache[i] = cache[j] => i = j
    BY <1>1, <1>2 DEF CacheExact
  <2>2. (k = n + 1 \/ k \in 1 .. n) /\ (m = n + 1 \/ m \in 1 .. n)
    BY <1>1
  <2> QED BY <2>1, <2>2, <1>3, <1>4, <1>10
<1>5. CASE n + 1 <= EmptySlabCacheCapacity
  <2>1. cache' = cached /\ slabState' = [slabState EXCEPT ![s] = "cached"]
    BY <1>5, <1>3, <1>1, ConstantsAssumption
  <2>2. ASSUME NEW x \in Slabs
        PROVE  slabState'[x] = "cached" <=> \E i \in DOMAIN cache' : cache'[i] = x
    <3>1. slabState[x] = "cached" <=> \E i \in 1 .. n : cache[i] = x
      BY <1>1, <1>2 DEF CacheExact
    <3>2. (\E i \in 1 .. n + 1 : cached[i] = x) <=> (\E i \in 1 .. n : cache[i] = x) \/ x = s
      BY <1>1, <1>3
    <3> QED BY <3>1, <3>2, <2>1, <1>1, <1>3
  <2>3. \A i, j \in DOMAIN cache' : cache'[i] = cache'[j] => i = j
    BY <2>1, <1>3, <1>10
  <2>4. CacheExact'
    BY <1>3, <1>5, <2>1, <2>2, <2>3 DEF CacheExact
  <2> QED BY <1>1, <1>3, <2>1, <2>4
<1>6. CASE n + 1 > EmptySlabCacheCapacity
  <2>1. n = EmptySlabCacheCapacity /\ n >= 1
    BY <1>0, <1>1, <1>2, <1>6, ConstantsAssumption DEF CacheExact
  <2>2. cache' = Tail(cached) /\ Head(cached) = cache[1]
    BY <1>6, <1>3, <2>1, <1>1, HeadTailProperties
  <2>3. slabState' = [slabState EXCEPT ![s] = "cached", ![cache[1]] = "unmapped"]
    BY <1>6, <1>3, <2>2
  <2>4. /\ cache' \in Seq(OrdinarySlabs) /\ Len(cache') = n
        /\ \A i \in 1 .. n : cache'[i] = cached[i + 1]
        /\ DOMAIN cache' = 1 .. n
    BY <1>1, <1>3, <2>1, <2>2, HeadTailProperties, LenProperties
  <2>5. cache[1] # s /\ cache[1] \in Slabs /\ slabState[cache[1]] = "cached"
    BY <1>1, <1>2, <1>4, <2>1 DEF CacheExact
  <2>6. ASSUME NEW x \in Slabs
        PROVE  slabState'[x] = "cached" <=> \E i \in DOMAIN cache' : cache'[i] = x
    <3>1. slabState[x] = "cached" <=> \E i \in 1 .. n : cache[i] = x
      BY <1>1, <1>2 DEF CacheExact
    <3>2. (\E i \in 1 .. n : cache'[i] = x)
            <=> x = s \/ \E i \in 2 .. n : cache[i] = x
      <4>1. ASSUME NEW i \in 1 .. n, cache'[i] = x
            PROVE  x = s \/ \E k \in 2 .. n : cache[k] = x
        <5>1. x = cached[i + 1] BY <4>1, <2>4
        <5>2. CASE i = n BY <5>1, <5>2, <1>3
        <5>3. CASE i # n
          <6>1. i + 1 \in 2 .. n /\ i + 1 \in 1 .. n BY <5>3, <1>1
          <6> QED BY <6>1, <5>1, <1>3
        <5> QED BY <5>2, <5>3
      <4>2. ASSUME x = s PROVE \E i \in 1 .. n : cache'[i] = x
        <5>1. n \in 1 .. n /\ cache'[n] = s BY <1>1, <1>3, <2>1, <2>4
        <5> QED BY <5>1, <4>2
      <4>3. ASSUME NEW k \in 2 .. n, cache[k] = x
            PROVE  \E i \in 1 .. n : cache'[i] = x
        <5>1. k - 1 \in 1 .. n /\ k \in 1 .. n /\ (k - 1) + 1 = k BY <1>1
        <5>2. cache'[k - 1] = x BY <5>1, <4>3, <2>4, <1>3
        <5> QED BY <5>1, <5>2
      <4> QED BY <4>1, <4>2, <4>3
    <3>3. CASE x = cache[1]
      <4>1. ~ \E i \in 2 .. n : cache[i] = x
        BY <3>3, <1>1, <1>2, <2>1 DEF CacheExact
      <4>2. slabState'[x] = "unmapped"
        BY <3>3, <2>3, <2>5, <1>1
      <4> QED BY <4>1, <4>2, <3>2, <3>3, <2>4, <2>5, <2>1
    <3>4. CASE x = s
      <4>1. slabState'[x] = "cached" BY <3>4, <2>3, <2>5, <1>1
      <4> QED BY <4>1, <3>2, <3>4, <2>4, <2>1
    <3>5. CASE x # s /\ x # cache[1]
      <4>1. slabState'[x] = slabState[x] BY <3>5, <2>3, <1>1
      <4>2. (\E i \in 1 .. n : cache[i] = x) <=> \E i \in 2 .. n : cache[i] = x
        BY <3>5, <1>1, <2>1
      <4> QED BY <4>1, <4>2, <3>1, <3>2, <3>5, <2>4, <2>1
    <3> QED BY <3>3, <3>4, <3>5
  <2>7. \A i, j \in DOMAIN cache' : cache'[i] = cache'[j] => i = j
    <3> SUFFICES ASSUME NEW i \in 1 .. n, NEW j \in 1 .. n, cache'[i] = cache'[j]
                 PROVE  i = j
      BY <2>4, SMTT(40)
    <3>1. cached[i + 1] = cached[j + 1]
      BY <2>4
    <3>2. i + 1 \in 1 .. n + 1 /\ j + 1 \in 1 .. n + 1
      BY <1>1
    <3>3. i + 1 = j + 1
      BY <3>1, <3>2, <1>10
    <3> QED BY <3>3, <1>1
  <2>8. CacheExact'
    <3>1. Len(cache') <= EmptySlabCacheCapacity
      BY <2>1, <2>4, <1>1
    <3> QED BY <3>1, <2>6, <2>7 DEF CacheExact
  <2> QED BY <2>3, <2>4, <2>5, <2>8, <1>1
<1> QED BY <1>1, <1>5, <1>6, ConstantsAssumption

\* release_slab_if_empty: a slab with a pin or an object stays; any other is
\* reset and cached, or unmapped.
LEMMA SlabRelease ==
  ASSUME SlabInv, NEW s \in Slabs, ReleaseSlabIfEmpty(s)
  PROVE  SlabInv'
<1>1. /\ phase = "release" /\ s \in candidates
      /\ candidates' = candidates \ {s}
      /\ UNCHANGED <<valid, epoch, local, pins, phase, cur, pending>>
  BY DEF ReleaseSlabIfEmpty, objVars
<1>2. /\ slabState[s] = "mapped" /\ valid \subseteq Addr
      /\ bump \in [Slabs -> Nat] /\ candidates \subseteq Slabs
      /\ slabState \in [Slabs -> {"unmapped", "mapped", "cached"}]
  BY <1>1 DEF SlabInv, CandidatesMapped, SlabTypeOK
<1>3. PinsExact'
  <2>1. \A x \in Slabs : LocalUsers(x)' = LocalUsers(x) /\ EpochUsers(x)' = EpochUsers(x)
    BY <1>1 DEF LocalUsers, EpochUsers
  <2> QED BY <2>1, <1>1 DEF SlabInv, PinsExact
<1>4. ThreadsUseSlabs'
  BY <1>1 DEF SlabInv, ThreadsUseSlabs, Registered
<1>5. CASE pins[s] # 0 \/ HasValidObjects(s)
  <2>1. UNCHANGED <<slabState, bump, cache>>
    BY <1>5 DEF ReleaseSlabIfEmpty
  <2>2. pins[s] \in Nat
    BY DEF SlabInv, SlabTypeOK
  <2>3. SlabTypeOK' /\ BumpBounds' /\ CandidatesMapped' /\ ReleasedSlabsUnused'
    BY <1>1, <2>1 DEF SlabInv, SlabTypeOK, BumpBounds, CandidatesMapped,
                      ReleasedSlabsUnused, HasValidObjects
  <2>4. EmptySlabsReleased'
    BY <1>1, <1>5, <2>1, <2>2 DEF SlabInv, EmptySlabsReleased, HasValidObjects
  <2> QED BY <1>3, <1>4, <2>3, <2>4 DEF SlabInv
<1>6. CASE pins[s] = 0 /\ ~HasValidObjects(s)
  <2>1. bump' = [bump EXCEPT ![s] = 0]
    BY <1>6 DEF ReleaseSlabIfEmpty
  <2>2. /\ cache' \in Seq(OrdinarySlabs) /\ CacheExact'
        /\ slabState' \in [Slabs -> {"unmapped", "mapped", "cached"}]
        /\ slabState'[s] # "mapped"
        /\ \A x \in Slabs : slabState[x] = "mapped" /\ x # s => slabState'[x] = "mapped"
        /\ \A x \in Slabs : slabState'[x] = "mapped" => slabState[x] = "mapped"
    <3>1. CASE s \in OrdinarySlabs
      <4>1. PICK cached : cached = Append(cache, s)
        OBVIOUS
      <4>2. /\ cache' = IF Len(cached) > EmptySlabCacheCapacity THEN Tail(cached) ELSE cached
            /\ slabState' =
                 IF Len(cached) > EmptySlabCacheCapacity
                 THEN [slabState EXCEPT ![s] = "cached", ![Head(cached)] = "unmapped"]
                 ELSE [slabState EXCEPT ![s] = "cached"]
        BY <4>1, <3>1, <1>6, DisjointAssumption DEF ReleaseSlabIfEmpty
      <4> HIDE <4>1
      <4>3. cached = Append(cache, s)
        BY <4>1
      <4>4. /\ cache' \in Seq(OrdinarySlabs) /\ CacheExact'
            /\ slabState' \in [Slabs -> {"unmapped", "mapped", "cached"}]
            /\ slabState'[s] = "cached"
            /\ \A x \in Slabs : slabState[x] = "mapped" /\ x # s => slabState'[x] = "mapped"
            /\ \A x \in Slabs : slabState'[x] = "mapped" => slabState[x] = "mapped"
        BY <4>2, <4>3, <3>1, <1>2, CacheSlab
      <4> QED BY <4>4
    <3>2. CASE s \in LargeSlabs
      <4>1. cache' = cache /\ slabState' = [slabState EXCEPT ![s] = "unmapped"]
        BY <3>2, <1>6, DisjointAssumption DEF ReleaseSlabIfEmpty
      <4>2. CacheExact /\ cache \in Seq(OrdinarySlabs)
        BY ReleasedParts DEF SlabInv, SlabTypeOK
      <4>3. CacheExact'
        BY <4>1, <4>2, <1>2 DEF CacheExact
      <4> QED BY <4>1, <4>2, <4>3, <1>2
    <3> QED BY <3>1, <3>2 DEF Slabs
  <2>3. bump' \in [Slabs -> Nat] /\ \A x \in Slabs : bump'[x] = IF x = s THEN 0 ELSE bump[x]
    BY <1>2, <2>1
  <2>4. SlabTypeOK'
    BY <1>1, <1>2, <2>2, <2>3 DEF SlabInv, SlabTypeOK
  <2>5. BumpBounds'
    <3>1. \A x \in Slabs : bump'[x] <= Capacity(x)
      BY <1>2, <2>3, ConstantsAssumption DEF SlabInv, BumpBounds, Capacity
    <3>2. ASSUME NEW o \in valid PROVE o[2] <= bump'[SlabOf(o)]
      <4>1. SlabOf(o) # s /\ SlabOf(o) \in Slabs /\ o[2] <= bump[SlabOf(o)]
        BY <1>2, <1>6 DEF HasValidObjects, SlabOf, Addr, SlabInv, BumpBounds
      <4> QED BY <4>1, <2>3
    <3> QED BY <3>1, <3>2, <1>1 DEF BumpBounds
  <2>6. UnmappedEmpty'
    <3> SUFFICES ASSUME NEW x \in Slabs, slabState'[x] # "mapped"
                 PROVE  pins[x] = 0 /\ bump'[x] = 0 /\ ~HasValidObjects(x)
      BY <1>1 DEF UnmappedEmpty, HasValidObjects
    <3>1. CASE x = s BY <3>1, <1>6, <2>3
    <3>2. CASE x # s
      BY <3>2, <2>2, <2>3 DEF SlabInv, ReleasedSlabsUnused
    <3> QED BY <3>1, <3>2
  <2>7. ReleasedSlabsUnused'
    BY <2>2, <2>6, ReleasedParts
  <2>8. EmptySlabsReleased'
    BY <1>1, <2>2 DEF SlabInv, EmptySlabsReleased, HasValidObjects
  <2>9. CandidatesMapped'
    BY <1>1, <1>2, <2>2 DEF SlabInv, CandidatesMapped
  <2> QED BY <1>3, <1>4, <2>4, <2>5, <2>7, <2>8, <2>9 DEF SlabInv
<1> QED BY <1>5, <1>6

\* The first ThreadState has one slab, pinned twice, and nothing is released.
LEMMA SlabInit == Init => SlabInv
<1> SUFFICES ASSUME Init PROVE SlabInv
  OBVIOUS
<1>1. PICK s0 \in OrdinarySlabs :
        /\ local = [t \in Threads |-> IF t = MainThread THEN s0 ELSE NoSlab]
        /\ epoch = [t \in Threads |-> IF t = MainThread THEN {s0} ELSE {}]
        /\ pins = [s \in Slabs |-> IF s = s0 THEN 2 ELSE 0]
        /\ slabState = [s \in Slabs |-> IF s = s0 THEN "mapped" ELSE "unmapped"]
  BY DEF Init
<1>2. /\ valid = {} /\ bump = [s \in Slabs |-> 0] /\ cache = <<>> /\ phase = "run"
      /\ cur = MainThread /\ pending = {} /\ candidates = {}
      /\ MainThread \in Threads /\ s0 \in Slabs /\ NoSlab \notin Slabs
  BY ConstantsAssumption, DisjointAssumption DEF Init, Slabs
<1>3. SlabTypeOK
  BY <1>1, <1>2, EmptySeq DEF SlabTypeOK, Slabs
<1>4. PinsExact
  <2>1. LocalUsers(s0) = {MainThread} /\ EpochUsers(s0) = {MainThread}
    BY <1>1, <1>2 DEF LocalUsers, EpochUsers
  <2>2. \A s \in Slabs : s # s0 => LocalUsers(s) = {} /\ EpochUsers(s) = {}
    BY <1>1, <1>2 DEF LocalUsers, EpochUsers
  <2>3. Cardinality({}) = 0 /\ Cardinality({MainThread}) = 1
    BY FS_EmptySet, FS_Singleton
  <2>4. ASSUME NEW s \in Slabs
        PROVE  pins[s] = Cardinality(LocalUsers(s)) + Cardinality(EpochUsers(s))
    <3>1. CASE s = s0 BY <3>1, <2>1, <2>3, <1>1
    <3>2. CASE s # s0 BY <3>2, <2>2, <2>3, <1>1
    <3> QED BY <3>1, <3>2
  <2> QED BY <2>4 DEF PinsExact
<1>5. ReleasedSlabsUnused /\ EmptySlabsReleased /\ CandidatesMapped
  <2>1. Len(cache) = 0 /\ DOMAIN cache = {}
    BY <1>2
  <2> QED BY <1>1, <1>2, <2>1, ConstantsAssumption
          DEF ReleasedSlabsUnused, EmptySlabsReleased, CandidatesMapped, HasValidObjects
<1>6. BumpBounds
  BY <1>2, ConstantsAssumption DEF BumpBounds, Capacity
<1>7. ThreadsUseSlabs
  BY <1>1, <1>2 DEF ThreadsUseSlabs
<1> QED BY <1>3, <1>4, <1>5, <1>6, <1>7 DEF SlabInv

\* Every step keeps the slab invariant, given that the object being torn
\* down is one that exists.
LEMMA SlabStep ==
  ASSUME SlabInv, [Next]_vars, victim # NotPresent => victim \in valid
  PROVE  SlabInv'
<1> USE DEF SlabInv, SlabTypeOK, ThreadsUseSlabs, Registered
<1>1. CASE UNCHANGED vars
  BY <1>1, SlabFrame DEF vars, objVars, slabVars, gcVars
<1>2. CASE Allocate
  BY <1>2, SlabAllocateFast, SlabAllocateSlow, SlabAllocateLarge DEF Allocate
<1>3. CASE ThreadStep
  BY <1>3, SlabMakeNewThread, SlabSwitchToNewSlabs, SlabAdopt DEF ThreadStep
<1>4. CASE Mutate
  <2>1. UNCHANGED <<slabVars, epoch, local, valid, gcVars>>
    BY <1>4 DEF Mutate, StoreRegister, LoadRegister, LoadMember, LeaveRegisterDead,
                DropStackWord, ExposeStaleWord, AssignMember, objVars
  <2> QED BY <2>1, SlabFrame DEF gcVars
<1>5. CASE RequestSafepoint
  BY <1>5, SlabFrame DEF RequestSafepoint, objVars, slabVars, gcVars
<1>6. CASE Safepoint
  <2>1. /\ phase' = "zct" /\ cur' \in Registered /\ pending' \subseteq Registered
        /\ UNCHANGED <<slabVars, epoch, local, valid, candidates>>
    BY <1>6 DEF Safepoint, SafepointAtEntry, SafepointAtReturn, BeginReclamation, objVars
  <2> QED BY <2>1, SlabFrame
<1>7. CASE Reclaim
  <2>1. CASE ProcessZctEntry \/ ResizeZct \/ ReleaseSlot \/ \E o \in Addr : ScanEpochObject(o)
    <3>1. /\ phase \in {"zct", "epoch"}
          /\ phase' \in {"zct", "epoch"} /\ UNCHANGED <<cur, pending>>
          /\ UNCHANGED <<slabVars, epoch, local, valid, candidates>>
      BY <2>1 DEF ProcessZctEntry, ResizeZct, ReleaseSlot, ScanEpochObject, objVars
    <3> QED BY <3>1, SlabFrame
  <2>2. CASE FinishReclaimObject
    <3>1. victim \in valid
      BY <2>2 DEF FinishReclaimObject
    <3> QED BY <2>2, <3>1, SlabFinishReclaimObject
  <2>3. CASE FinishReclamationEpoch
    BY <2>3, SlabFinishEpoch
  <2>4. CASE \E s \in Slabs : ReleaseSlabIfEmpty(s)
    BY <2>4, SlabRelease
  <2>5. CASE \E t \in Threads : ProcessNextThread(t)
    <3>1. /\ phase = "release" /\ phase' = "zct" /\ cur' \in pending /\ pending' \subseteq pending
          /\ UNCHANGED <<slabVars, epoch, local, valid, candidates>>
      BY <2>5 DEF ProcessNextThread, objVars
    <3> QED BY <3>1, SlabFrame
  <2>6. CASE CompleteSafepoint
    <3>1. /\ phase' = "run" /\ UNCHANGED <<cur, pending>>
          /\ UNCHANGED <<slabVars, epoch, local, valid, candidates>>
      BY <2>6 DEF CompleteSafepoint, objVars
    <3> QED BY <3>1, SlabFrame
  <2> QED BY <1>7, <2>1, <2>2, <2>3, <2>4, <2>5, <2>6 DEF Reclaim
<1> QED BY <1>1, <1>2, <1>3, <1>4, <1>5, <1>6, <1>7 DEF Next

-----------------------------------------------------------------------------
(* Objects.                                                                *)

ObjTypeOK ==
  /\ refcount \in [Addr -> Nat]
  /\ lifecycle \in [Addr -> {"Normal", "InZct", "Reclaiming", "Dead"}]
  /\ valid \subseteq Addr
  /\ cell \in [Cells -> Value]
  /\ stack \subseteq Addr /\ live \subseteq stack /\ acc \in Value
  /\ requested \in BOOLEAN
  /\ zct \in [Threads -> Seq(Addr)]
  /\ roots \subseteq Addr
  /\ victim \in Value /\ slot \in 1 .. SlotCount + 1

\* The states of the header against the valid bit and the object in hand.
LifecycleOK ==
  \A o \in Addr :
    /\ o \in valid <=> lifecycle[o] # "Dead"
    /\ lifecycle[o] = "Reclaiming" <=> o = victim

\* A reclaimed object owns nothing.
DeadCellsEmpty ==
  \A o \in Addr \ valid, i \in SlotIndex : cell[<<o, i>>] = NotPresent

\* The root set of a running reclamation covers what the program holds.
RootsCover == ~Running => Readable \subseteq roots

\* The object being torn down is held by nothing, and the slots before the
\* current one are empty.
VictimUnheld ==
  victim # NotPresent =>
    /\ phase \in {"zct", "epoch"}
    /\ refcount[victim] = 0
    /\ victim \notin roots
    /\ \A i \in SlotIndex : i < slot => cell[<<victim, i>>] = NotPresent

\* The indexes of process_zero_count_table_entries.
IndicesOK ==
  /\ scan \in Nat /\ keep \in Nat
  /\ IF phase = "zct" THEN keep <= scan /\ scan <= Len(zct[cur])
                      ELSE scan = 0 /\ keep = 0

ObjInv ==
  /\ ObjTypeOK
  /\ RefcountExact
  /\ NoDanglingCell
  /\ BorrowedAlive
  /\ ZctUnique
  /\ LifecycleOK
  /\ DeadCellsEmpty
  /\ RootsCover
  /\ VictimUnheld
  /\ IndicesOK

IInv == SlabInv /\ ObjInv

-----------------------------------------------------------------------------
(* Counting the cells that hold an object.                                 *)

\* There are finitely many owning cells.
LEMMA CellsFinite == IsFiniteSet(Cells)
<1>1. IsFiniteSet(Slabs)
  BY FiniteAssumption, FS_Union DEF Slabs
<1>2. IsFiniteSet(1 .. SlabCapacity) /\ IsFiniteSet(SlotIndex)
  BY ConstantsAssumption, FS_Interval DEF SlotIndex
<1>3. IsFiniteSet(Addr)
  BY <1>1, <1>2, FS_Product DEF Addr
<1>4. IsFiniteSet(Addr \X SlotIndex)
  BY <1>2, <1>3, FS_Product
<1> QED BY <1>4, FiniteAssumption, FS_Union DEF Cells

\* References to an object can be counted, before and after a step.
LEMMA RefsFinite ==
  ASSUME NEW o
  PROVE  /\ IsFiniteSet(RefsTo(o)) /\ Cardinality(RefsTo(o)) \in Nat
         /\ IsFiniteSet(RefsTo(o)') /\ Cardinality(RefsTo(o)') \in Nat
<1>1. RefsTo(o) \in SUBSET Cells /\ RefsTo(o)' \in SUBSET Cells
  BY DEF RefsTo
<1>2. IsFiniteSet(RefsTo(o)) /\ IsFiniteSet(RefsTo(o)')
  BY <1>1, CellsFinite, FS_Subset
<1> QED BY <1>2, FS_CardinalityType

One(a, b) == IF a = b THEN 1 ELSE 0

\* Overwriting one cell moves one reference from its old value to the new.
LEMMA CellWrite ==
  ASSUME cell \in [Cells -> Value], NEW c \in Cells, NEW v \in Value,
         NEW old, old = cell[c], cell' = [cell EXCEPT ![c] = v], NEW o \in Addr
  PROVE  Cardinality(RefsTo(o)')
           = (Cardinality(RefsTo(o)) + One(o, v)) - One(o, old)
<1>1. CASE v = old
  <2>1. RefsTo(o)' = RefsTo(o)
    BY <1>1 DEF RefsTo
  <2> QED BY <1>1, <2>1, RefsFinite DEF One
<1>2. CASE v # old /\ o = v
  <2>1. RefsTo(o)' = RefsTo(o) \cup {c} /\ c \notin RefsTo(o)
    BY <1>2 DEF RefsTo
  <2>2. Cardinality(RefsTo(o) \cup {c}) = Cardinality(RefsTo(o)) + 1
    BY <2>1, RefsFinite, FS_AddElement
  <2> QED BY <1>2, <2>1, <2>2, RefsFinite DEF One
<1>3. CASE v # old /\ o = old
  <2>1. RefsTo(o)' = RefsTo(o) \ {c} /\ c \in RefsTo(o)
    BY <1>3 DEF RefsTo
  <2>2. Cardinality(RefsTo(o) \ {c}) = Cardinality(RefsTo(o)) - 1
    BY <2>1, RefsFinite, FS_RemoveElement
  <2> QED BY <1>3, <2>1, <2>2, RefsFinite DEF One
<1>4. CASE o # v /\ o # old
  <2>1. RefsTo(o)' = RefsTo(o)
    BY <1>4 DEF RefsTo
  <2> QED BY <1>4, <2>1, RefsFinite DEF One
<1> QED BY <1>1, <1>2, <1>3, <1>4

\* incref of the new value and decref of the old one do the same to a count.
LEMMA CountsWrite ==
  ASSUME refcount \in [Addr -> Nat], NEW v \in Value, NEW old \in Value,
         old # NotPresent => refcount[old] > 0,
         NEW counts, counts = Decref(Incref(refcount, v), old)
  PROVE  /\ counts \in [Addr -> Nat]
         /\ \A o \in Addr :
              counts[o] = (refcount[o] + One(o, v)) - One(o, old)
<1>0. NotPresent \notin Addr /\ Value = Addr \cup {NotPresent}
  BY DisjointAssumption DEF Value
<1>1. PICK up : up = Incref(refcount, v)
  OBVIOUS
<1>2. /\ up \in [Addr -> Nat]
      /\ \A o \in Addr : up[o] = refcount[o] + One(o, v)
  BY <1>0, <1>1 DEF Incref, One
<1>3. counts = IF old = NotPresent THEN up ELSE [up EXCEPT ![old] = @ - 1]
  BY <1>1 DEF Decref
<1>4. CASE old = NotPresent
  BY <1>0, <1>2, <1>3, <1>4 DEF One
<1>5. CASE old # NotPresent
  <2>1. old \in Addr /\ up[old] - 1 \in Nat
    BY <1>0, <1>2, <1>5 DEF One
  <2>2. counts = [up EXCEPT ![old] = up[old] - 1]
    BY <1>3, <1>5
  <2>3. counts \in [Addr -> Nat]
    BY <1>2, <2>1, <2>2
  <2>4. \A o \in Addr : counts[o] = up[o] - One(o, old)
    BY <1>2, <2>1, <2>2 DEF One
  <2> QED BY <1>2, <2>3, <2>4
<1> QED BY <1>4, <1>5

\* What a cell holds exists and is counted; a count of zero means no cell.
LEMMA HeldCounted ==
  ASSUME ObjInv, NEW c \in Cells, cell[c] # NotPresent
  PROVE  cell[c] \in valid /\ refcount[cell[c]] > 0
<1>0. PICK o : o = cell[c]
  OBVIOUS
<1>1. o \in valid
  BY <1>0 DEF ObjInv, NoDanglingCell
<1>2. c \in RefsTo(o)
  BY <1>0 DEF RefsTo
<1>3. Cardinality(RefsTo(o)) # 0
  BY <1>2, RefsFinite, FS_EmptySet
<1>4. refcount[o] = Cardinality(RefsTo(o))
  BY <1>1 DEF ObjInv, RefcountExact
<1> QED BY <1>0, <1>1, <1>3, <1>4, RefsFinite

\* An object with count zero is in no owning cell.
LEMMA ZeroUnheld ==
  ASSUME ObjInv, NEW o \in valid, refcount[o] = 0
  PROVE  \A c \in Cells : cell[c] # o
<1>1. Cardinality(RefsTo(o)) = 0
  BY DEF ObjInv, RefcountExact
<1>2. RefsTo(o) = {}
  BY <1>1, RefsFinite, FS_EmptySet
<1> QED BY <1>2 DEF RefsTo

\* A write of one cell, with its count updates, keeps the counts exact.
LEMMA WriteExact ==
  ASSUME ObjInv, NEW c \in Cells, NEW v \in Value, v # NotPresent => v \in valid,
         NEW old, old = cell[c], cell' = [cell EXCEPT ![c] = v],
         refcount' = Decref(Incref(refcount, v), old), valid' = valid
  PROVE  /\ refcount' \in [Addr -> Nat] /\ cell' \in [Cells -> Value]
         /\ RefcountExact' /\ NoDanglingCell'
         /\ old \in Value
         /\ old # NotPresent => old \in valid
<1>1. /\ refcount \in [Addr -> Nat] /\ cell \in [Cells -> Value] /\ valid \subseteq Addr
  BY DEF ObjInv, ObjTypeOK
<1>2. /\ old \in Value
      /\ old # NotPresent => old \in valid /\ refcount[old] > 0
  BY <1>1, HeldCounted
<1>3. /\ refcount' \in [Addr -> Nat]
      /\ \A o \in Addr :
           refcount'[o] = (refcount[o] + One(o, v)) - One(o, old)
  BY <1>1, <1>2, CountsWrite
<1>4. ASSUME NEW o \in Addr
      PROVE  Cardinality(RefsTo(o)')
               = (Cardinality(RefsTo(o)) + One(o, v)) - One(o, old)
  BY <1>1, CellWrite
<1>5. RefcountExact'
  <2> SUFFICES ASSUME NEW o \in valid PROVE refcount'[o] = Cardinality(RefsTo(o)')
    BY DEF RefcountExact
  <2>1. o \in Addr /\ refcount[o] = Cardinality(RefsTo(o))
    BY <1>1 DEF ObjInv, RefcountExact
  <2> QED BY <2>1, <1>3, <1>4
<1>6. NoDanglingCell'
  BY <1>1 DEF ObjInv, NoDanglingCell
<1> QED BY <1>1, <1>2, <1>3, <1>5, <1>6

-----------------------------------------------------------------------------
(* The zero-count tables.                                                  *)

\* A step that touches no table and no object that is in one.
LEMMA ZctFrame ==
  ASSUME ObjTypeOK, ZctUnique, zct' = zct,
         \A t \in Threads : Entries(t)' = Entries(t),
         \A o \in Addr : lifecycle'[o] = "InZct" <=> lifecycle[o] = "InZct"
  PROVE  ZctUnique'
<1>1. \A t \in Threads : \A i \in Entries(t) : zct[t][i] \in Addr
  BY DEF ObjTypeOK, Entries
<1>2. \A t \in Threads : \A i \in Entries(t)' : lifecycle'[zct'[t][i]] = "InZct"
  BY <1>1 DEF ZctUnique
<1>3. \A t, u \in Threads : \A i \in Entries(t)', j \in Entries(u)' :
        zct'[t][i] = zct'[u][j] => t = u /\ i = j
  BY DEF ZctUnique
<1>4. \A o \in Addr : lifecycle'[o] = "InZct" =>
        \E t \in Threads : \E i \in Entries(t)' : zct'[t][i] = o
  BY DEF ZctUnique
<1> QED BY <1>2, <1>3, <1>4 DEF ZctUnique

\* The entries of a table depend only on the table and the indexes.
LEMMA EntriesSame ==
  ASSUME NEW t \in Threads, zct'[t] = zct[t],
         UNCHANGED <<phase, cur, scan, keep>>
  PROVE  Entries(t)' = Entries(t)
BY DEF Entries

\* With both indexes at the start, every position is an entry.
LEMMA EntriesAll ==
  ASSUME NEW t \in Threads, zct[t] \in Seq(Addr), scan = 0, keep = 0
  PROVE  Entries(t) = 1 .. Len(zct[t])
BY DEF Entries

\* Queueing an object that is in no table.
LEMMA Enqueue ==
  ASSUME ObjTypeOK, ZctUnique, IndicesOK, cur \in Threads,
         NEW t \in Threads, NEW v \in Addr, lifecycle[v] # "InZct",
         lifecycle' = [lifecycle EXCEPT ![v] = "InZct"],
         zct' = [zct EXCEPT ![t] = Append(@, v)],
         UNCHANGED <<phase, cur, scan, keep>>
  PROVE  /\ zct' \in [Threads -> Seq(Addr)]
         /\ ZctUnique' /\ IndicesOK'
<1>0. PICK n : n = Len(zct[t])
  OBVIOUS
<1>1. /\ zct \in [Threads -> Seq(Addr)] /\ zct[t] \in Seq(Addr) /\ n \in Nat
      /\ lifecycle \in [Addr -> {"Normal", "InZct", "Reclaiming", "Dead"}]
  BY <1>0 DEF ObjTypeOK
<1>2. /\ zct'[t] \in Seq(Addr) /\ Len(zct'[t]) = n + 1 /\ zct'[t][n + 1] = v
      /\ \A i \in 1 .. n : zct'[t][i] = zct[t][i]
      /\ \A u \in Threads : u # t => zct'[u] = zct[u]
  BY <1>0, <1>1, AppendProperties
<1>3. zct' \in [Threads -> Seq(Addr)]
  BY <1>1, <1>2
<1>4. \A u \in Threads : u # t => Entries(u)' = Entries(u)
  BY <1>2, EntriesSame
<1>5. Entries(t) \subseteq 1 .. n
  BY <1>0 DEF Entries
<1>6. Entries(t)' = Entries(t) \cup {n + 1}
  <2>1. phase = "zct" /\ t = cur => scan <= n /\ scan \in Nat
    BY <1>0 DEF IndicesOK
  <2>2. \A i \in 1 .. n : i \in Entries(t)' <=> i \in Entries(t)
    BY <1>0, <1>1, <1>2 DEF Entries
  <2>3. n + 1 \in Entries(t)'
    BY <1>1, <1>2, <2>1 DEF Entries
  <2>4. Entries(t)' \subseteq 1 .. n + 1
    BY <1>2 DEF Entries
  <2> QED BY <2>2, <2>3, <2>4, <1>1, <1>5
<1>7. ASSUME NEW u \in Threads, NEW i \in Entries(u)
      PROVE  /\ zct[u][i] \in Addr /\ zct[u][i] # v
             /\ zct'[u][i] = zct[u][i] /\ zct'[u][i] # v
             /\ lifecycle'[zct'[u][i]] = "InZct"
  <2>1. zct[u][i] \in Addr
    BY DEF ObjTypeOK, Entries
  <2>2. zct[u][i] # v /\ lifecycle[zct[u][i]] = "InZct"
    BY DEF ZctUnique
  <2>3. zct'[u][i] = zct[u][i]
    BY <1>2, <1>5
  <2> QED BY <2>1, <2>2, <2>3, <1>1
<1>14. zct'[t][n + 1] = v /\ lifecycle'[v] = "InZct"
  BY <1>1, <1>2
<1>8. ASSUME NEW u \in Threads, NEW i \in Entries(u)'
      PROVE  i \in Entries(u) \/ (u = t /\ i = n + 1)
  <2>1. CASE u = t BY <2>1, <1>6
  <2>2. CASE u # t BY <2>2, <1>4
  <2> QED BY <2>1, <2>2
<1>9. ASSUME NEW u \in Threads, NEW i \in Entries(u)'
      PROVE  lifecycle'[zct'[u][i]] = "InZct"
  BY <1>7, <1>14, <1>8
<1>10. ASSUME NEW u \in Threads, NEW w \in Threads, NEW i \in Entries(u)',
              NEW j \in Entries(w)', zct'[u][i] = zct'[w][j]
       PROVE  u = w /\ i = j
  <2>1. CASE i \in Entries(u) /\ j \in Entries(w)
    <3>1. zct[u][i] = zct[w][j]
      BY <2>1, <1>7, <1>10
    <3> QED BY <2>1, <3>1 DEF ZctUnique
  <2>2. CASE u = t /\ i = n + 1 /\ w = t /\ j = n + 1
    BY <2>2
  <2>3. CASE i \in Entries(u) /\ w = t /\ j = n + 1
    <3>1. zct'[u][i] # v /\ zct'[w][j] = v
      BY <2>3, <1>7, <1>14
    <3> QED BY <3>1, <1>10
  <2>4. CASE j \in Entries(w) /\ u = t /\ i = n + 1
    <3>1. zct'[w][j] # v /\ zct'[u][i] = v
      BY <2>4, <1>7, <1>14
    <3> QED BY <3>1, <1>10
  <2> QED BY <2>1, <2>2, <2>3, <2>4, <1>8
<1>11. ASSUME NEW o \in Addr, lifecycle'[o] = "InZct"
       PROVE  \E u \in Threads : \E i \in Entries(u)' : zct'[u][i] = o
  <2>1. CASE o = v BY <2>1, <1>2, <1>6
  <2>2. CASE o # v
    <3>1. lifecycle[o] = "InZct" BY <2>2, <1>1, <1>11
    <3>5. PICK u \in Threads : \E i \in Entries(u) : zct[u][i] = o
      BY <3>1 DEF ZctUnique
    <3>2. PICK i \in Entries(u) : zct[u][i] = o
      BY <3>5
    <3>3. i \in Entries(u)'
      BY <1>4, <1>6
    <3>4. zct'[u][i] = o
      BY <3>2, <1>7
    <3> QED BY <3>3, <3>4
  <2> QED BY <2>1, <2>2
<1>12. IndicesOK'
  BY <1>0, <1>1, <1>2 DEF IndicesOK
<1>13. ZctUnique'
  BY <1>9, <1>10, <1>11 DEF ZctUnique
<1> QED BY <1>3, <1>12, <1>13

\* add_to_zero_count_table_if_needed, for a value that is not being torn down.
LEMMA AddIfNeeded ==
  ASSUME ObjInv, cur \in Threads, NEW t \in Threads, NEW v \in Value, NEW rc,
         AddToZeroCountTableIfNeeded(t, v, rc),
         v # NotPresent => v \in valid /\ v # victim,
         UNCHANGED <<phase, cur, scan, keep, valid, victim>>
  PROVE  /\ zct' \in [Threads -> Seq(Addr)]
         /\ lifecycle' \in [Addr -> {"Normal", "InZct", "Reclaiming", "Dead"}]
         /\ ZctUnique' /\ LifecycleOK' /\ IndicesOK'
<1>1. /\ ObjTypeOK /\ ZctUnique /\ IndicesOK /\ LifecycleOK
      /\ zct \in [Threads -> Seq(Addr)] /\ valid \subseteq Addr
      /\ lifecycle \in [Addr -> {"Normal", "InZct", "Reclaiming", "Dead"}]
  BY DEF ObjInv, ObjTypeOK
<1>2. CASE v # NotPresent /\ rc[v] = 0 /\ lifecycle[v] # "InZct"
  <2>1. /\ lifecycle' = [lifecycle EXCEPT ![v] = "InZct"]
        /\ zct' = [zct EXCEPT ![t] = Append(@, v)]
    BY <1>2 DEF AddToZeroCountTableIfNeeded
  <2>2. v \in Addr
    BY <1>1, <1>2
  <2>3. zct' \in [Threads -> Seq(Addr)] /\ ZctUnique' /\ IndicesOK'
    BY <1>1, <1>2, <2>1, <2>2, Enqueue
  <2>4. LifecycleOK'
    BY <1>1, <1>2, <2>1, <2>2 DEF LifecycleOK
  <2> QED BY <1>1, <2>1, <2>2, <2>3, <2>4
<1>3. CASE ~(v # NotPresent /\ rc[v] = 0 /\ lifecycle[v] # "InZct")
  <2>1. lifecycle' = lifecycle /\ zct' = zct
    BY <1>3 DEF AddToZeroCountTableIfNeeded
  <2>2. \A u \in Threads : Entries(u)' = Entries(u)
    BY <2>1, EntriesSame
  <2>3. ZctUnique'
    BY <1>1, <2>1, <2>2, ZctFrame
  <2> QED BY <1>1, <2>1, <2>3 DEF LifecycleOK, IndicesOK
<1> QED BY <1>2, <1>3

-----------------------------------------------------------------------------
(* The steps of the mutator.                                               *)

\* While managed code runs, no object is being torn down.
LEMMA RunningNoVictim ==
  ASSUME ObjInv, phase = "run"
  PROVE  /\ victim = NotPresent /\ scan = 0 /\ keep = 0
         /\ \A o \in Addr : lifecycle[o] # "Reclaiming"
BY DisjointAssumption DEF ObjInv, VictimUnheld, IndicesOK, LifecycleOK

\* A step of the running program that changes only what it holds.
LEMMA ObjHold ==
  ASSUME ObjInv, phase = "run", UNCHANGED <<objVars, zct, gcVars>>,
         requested' \in BOOLEAN,
         stack' \subseteq Addr, live' \subseteq stack', acc' \in Value,
         Readable' \subseteq valid
  PROVE  ObjInv'
<1>1. /\ refcount' = refcount /\ lifecycle' = lifecycle /\ valid' = valid
      /\ cell' = cell /\ zct' = zct /\ phase' = phase /\ cur' = cur
      /\ roots' = roots /\ scan' = scan /\ keep' = keep /\ victim' = victim
      /\ slot' = slot
  BY DEF objVars, gcVars
<1>2. ObjTypeOK'
  BY <1>1 DEF ObjInv, ObjTypeOK
<1>3. RefcountExact' /\ NoDanglingCell' /\ LifecycleOK' /\ DeadCellsEmpty'
  BY <1>1 DEF ObjInv, RefcountExact, NoDanglingCell, LifecycleOK, DeadCellsEmpty, RefsTo
<1>4. BorrowedAlive'
  BY <1>1 DEF BorrowedAlive
<1>5. ZctUnique'
  <2>1. \A t \in Threads : Entries(t)' = Entries(t)
    BY <1>1, EntriesSame
  <2> QED BY <1>1, <2>1, ZctFrame DEF ObjInv
<1>6. RootsCover' /\ VictimUnheld' /\ IndicesOK'
  BY <1>1, RunningNoVictim DEF ObjInv, RootsCover, VictimUnheld, IndicesOK, Running
<1> QED BY <1>2, <1>3, <1>4, <1>5, <1>6 DEF ObjInv

\* A step that changes nothing an object invariant speaks of.
LEMMA ObjFrame ==
  ASSUME ObjInv, UNCHANGED <<objVars, frameVars, zct, roots, scan, keep, victim, slot>>,
         requested' \in BOOLEAN, cur' \in Threads,
         \/ UNCHANGED <<phase, cur>>
         \/ phase = "release" /\ phase' \in {"zct", "run"}
         \/ phase = "epoch" /\ phase' = "release" /\ victim = NotPresent
  PROVE  ObjInv'
<1>1. /\ refcount' = refcount /\ lifecycle' = lifecycle /\ valid' = valid
      /\ cell' = cell /\ zct' = zct
      /\ stack' = stack /\ live' = live /\ acc' = acc
      /\ roots' = roots /\ scan' = scan /\ keep' = keep /\ victim' = victim
      /\ slot' = slot
  BY DEF objVars, frameVars
<1>2. ObjTypeOK'
  BY <1>1 DEF ObjInv, ObjTypeOK
<1>3. RefcountExact' /\ NoDanglingCell' /\ LifecycleOK' /\ DeadCellsEmpty' /\ BorrowedAlive'
  BY <1>1 DEF ObjInv, RefcountExact, NoDanglingCell, LifecycleOK, DeadCellsEmpty,
              BorrowedAlive, Readable, RefsTo
<1>4. \A t \in Threads : Entries(t)' = Entries(t)
  BY <1>1 DEF ObjInv, IndicesOK, Entries, ObjTypeOK
<1>5. ZctUnique'
  BY <1>1, <1>4, ZctFrame DEF ObjInv
<1>6. RootsCover' /\ VictimUnheld'
  BY <1>1 DEF ObjInv, RootsCover, VictimUnheld, Running, Readable
<1>7. IndicesOK'
  <2>1. CASE UNCHANGED <<phase, cur>>
    BY <1>1, <2>1 DEF ObjInv, IndicesOK
  <2>2. CASE ~UNCHANGED <<phase, cur>>
    <3>1. scan = 0 /\ keep = 0
      BY <2>2 DEF ObjInv, IndicesOK
    <3> QED BY <1>1, <3>1 DEF ObjInv, IndicesOK, ObjTypeOK
  <2> QED BY <2>1, <2>2
<1> QED BY <1>2, <1>3, <1>5, <1>6, <1>7 DEF ObjInv

\* construct_object at an address where no object lives.
LEMMA ObjConstruct ==
  ASSUME ObjInv, phase = "run", NEW o \in Addr, o \notin valid, ConstructObject(o),
         requested' \in BOOLEAN, UNCHANGED <<zct, gcVars>>
  PROVE  ObjInv'
<1>1. /\ refcount' = [refcount EXCEPT ![o] = 0]
      /\ lifecycle' = [lifecycle EXCEPT ![o] = "Normal"]
      /\ valid' = valid \cup {o} /\ acc' = o /\ stack' = stack /\ live' = live
      /\ zct' = zct /\ phase' = phase /\ cur' = cur
      /\ roots' = roots /\ scan' = scan /\ keep' = keep /\ victim' = victim
      /\ slot' = slot
  BY DEF ConstructObject, gcVars
<1>2. ObjTypeOK
  BY DEF ObjInv
<1>3. cell' = cell
  <2>1. \A c \in Cells : c \in {o} \X SlotIndex => cell[c] = NotPresent
    BY DEF ObjInv, DeadCellsEmpty
  <2>2. cell' = [c \in Cells |-> cell[c]]
    BY <2>1 DEF ConstructObject
  <2> QED BY <1>2, <2>2 DEF ObjTypeOK
<1>4. ObjTypeOK'
  BY <1>1, <1>2, <1>3 DEF ObjTypeOK, Value
<1>5. RefcountExact'
  <2> SUFFICES ASSUME NEW x \in valid' PROVE refcount'[x] = Cardinality(RefsTo(x)')
    BY DEF RefcountExact
  <2>1. RefsTo(x)' = RefsTo(x)
    BY <1>3 DEF RefsTo
  <2>2. CASE x = o
    <3>1. RefsTo(o) = {}
      BY DisjointAssumption DEF ObjInv, NoDanglingCell, RefsTo
    <3> QED BY <2>1, <2>2, <3>1, <1>1, <1>2, FS_EmptySet DEF ObjTypeOK
  <2>3. CASE x # o
    BY <2>1, <2>3, <1>1, <1>2 DEF ObjInv, RefcountExact, ObjTypeOK
  <2> QED BY <2>2, <2>3
<1>6. NoDanglingCell' /\ DeadCellsEmpty' /\ BorrowedAlive'
  BY <1>1, <1>3 DEF ObjInv, NoDanglingCell, DeadCellsEmpty, BorrowedAlive, Readable
<1>7. LifecycleOK'
  BY <1>1, <1>2, RunningNoVictim, DisjointAssumption DEF ObjInv, LifecycleOK, ObjTypeOK
<1>8. ZctUnique'
  <2>1. \A t \in Threads : Entries(t)' = Entries(t)
    BY <1>1, EntriesSame
  <2>2. lifecycle[o] = "Dead"
    BY DEF ObjInv, LifecycleOK
  <2>3. \A x \in Addr : lifecycle'[x] = "InZct" <=> lifecycle[x] = "InZct"
    BY <1>1, <1>2, <2>2 DEF ObjTypeOK
  <2> QED BY <1>1, <1>2, <2>1, <2>3, ZctFrame DEF ObjInv
<1>9. RootsCover' /\ VictimUnheld' /\ IndicesOK'
  BY <1>1, RunningNoVictim DEF ObjInv, RootsCover, VictimUnheld, IndicesOK, Running
<1> QED BY <1>4, <1>5, <1>6, <1>7, <1>8, <1>9 DEF ObjInv

\* Allocation gives out an address above the bump pointer of a slab, so no
\* object lives there.
LEMMA AllocateFresh ==
  ASSUME SlabInv, NEW s \in Slabs, NEW n \in Nat, n = bump[s] + 1, n <= Capacity(s)
  PROVE  <<s, n>> \in Addr \ valid
<1>1. Capacity(s) <= SlabCapacity /\ Capacity(s) \in Nat /\ bump[s] \in Nat
  BY ConstantsAssumption DEF Capacity, SlabInv, SlabTypeOK
<1>2. <<s, n>> \in Addr
  BY <1>1, ConstantsAssumption DEF Addr
<1>3. <<s, n>> \notin valid
  BY <1>1 DEF SlabInv, BumpBounds, SlabOf
<1> QED BY <1>2, <1>3

\* An allocation.
LEMMA ObjAllocate ==
  ASSUME IInv, Allocate
  PROVE  ObjInv'
<1>1. PICK t \in Threads :
        AllocateFast(t) \/ \E s \in Slabs : AllocateSlow(t, s) \/ AllocateLarge(t, s)
  BY DEF Allocate
<1>2. SlabInv /\ ObjInv /\ requested \in BOOLEAN
  BY DEF IInv, ObjInv, ObjTypeOK
<1>3. CASE AllocateFast(t)
  <2>0. PICK s, n : s = local[t] /\ n = bump[s] + 1
    OBVIOUS
  <2>1. /\ phase = "run" /\ s # NoSlab /\ bump[s] < Capacity(s)
        /\ ConstructObject(<<s, n>>) /\ UNCHANGED <<requested, zct, gcVars>>
    BY <1>3, <2>0 DEF AllocateFast, Running
  <2>2. s \in Slabs /\ bump[s] \in Nat /\ Capacity(s) \in Nat
    BY <1>2, <2>0, <2>1, ConstantsAssumption DEF SlabInv, SlabTypeOK, Slabs, Capacity
  <2>3. <<s, n>> \in Addr \ valid
    BY <1>2, <2>0, <2>1, <2>2, AllocateFresh
  <2> QED BY <1>2, <2>1, <2>3, ObjConstruct
<1>4. ASSUME NEW s \in Slabs, AllocateSlow(t, s)
      PROVE  ObjInv'
  <2>0. PICK n : n = bump[s] + 1
    OBVIOUS
  <2>1. /\ phase = "run" /\ TakesOrdinarySlab(s)
        /\ ConstructObject(<<s, n>>) /\ UNCHANGED <<zct, gcVars>>
        /\ requested' = (requested \/ PolicyTriggers(epoch[t] \cup {s}))
    BY <1>4, <2>0 DEF AllocateSlow, Running
  <2>2. bump[s] = 0
    BY <1>2, <2>1, TakeSlab, UnmappedUnused
  <2>3. n \in Nat /\ n <= Capacity(s)
    BY <2>0, <2>2, ConstantsAssumption DEF Capacity
  <2>4. <<s, n>> \in Addr \ valid
    BY <1>2, <2>0, <2>3, AllocateFresh
  <2>5. requested' \in BOOLEAN
    BY <2>1
  <2> QED BY <1>2, <2>1, <2>4, <2>5, ObjConstruct
<1>5. ASSUME NEW s \in Slabs, AllocateLarge(t, s)
      PROVE  ObjInv'
  <2>1. /\ phase = "run" /\ slabState[s] = "unmapped"
        /\ ConstructObject(<<s, 1>>) /\ UNCHANGED <<zct, gcVars>>
        /\ requested' = (requested \/ PolicyTriggers(epoch[t] \cup {s}))
    BY <1>5 DEF AllocateLarge, Running
  <2>2. 1 = bump[s] + 1 /\ 1 <= Capacity(s)
    BY <1>2, <2>1, UnmappedUnused, ConstantsAssumption DEF Capacity
  <2>3. <<s, 1>> \in Addr \ valid
    BY <1>2, <2>2, AllocateFresh
  <2>4. requested' \in BOOLEAN
    BY <2>1
  <2> QED BY <1>2, <2>1, <2>3, <2>4, ObjConstruct
<1> QED BY <1>1, <1>3, <1>4, <1>5

\* Adoption moves every entry of one table to the end of another.
LEMMA ObjAdopt ==
  ASSUME ObjInv, NEW t \in Threads, AdoptReclamationState(t)
  PROVE  ObjInv'
<1>0. PICK m, n, k : m = MainThread /\ n = Len(zct[m]) /\ k = Len(zct[t])
  OBVIOUS
<1>1. /\ phase = "run" /\ t # m /\ m \in Threads
      /\ zct' = [zct EXCEPT ![m] = @ \o zct[t], ![t] = <<>>]
      /\ UNCHANGED <<objVars, frameVars, requested, gcVars>>
  BY <1>0, ConstantsAssumption DEF AdoptReclamationState, Running
<1>2. /\ ObjTypeOK /\ zct \in [Threads -> Seq(Addr)] /\ zct[m] \in Seq(Addr)
      /\ zct[t] \in Seq(Addr) /\ n \in Nat /\ k \in Nat
      /\ scan = 0 /\ keep = 0 /\ ZctUnique
  BY <1>0, <1>1, RunningNoVictim DEF ObjInv, ObjTypeOK
<1>3. /\ zct'[m] = zct[m] \o zct[t] /\ zct'[t] = <<>>
      /\ \A u \in Threads : u # m /\ u # t => zct'[u] = zct[u]
  BY <1>1, <1>2
<1>4. /\ zct'[m] \in Seq(Addr) /\ Len(zct'[m]) = n + k
      /\ \A i \in 1 .. n : zct'[m][i] = zct[m][i]
      /\ \A i \in 1 .. n + k : i > n => zct'[m][i] = zct[t][i - n]
      /\ Len(zct'[t]) = 0 /\ zct'[t] \in Seq(Addr)
  <2>1. /\ zct[m] \o zct[t] \in Seq(Addr) /\ Len(zct[m] \o zct[t]) = n + k
        /\ \A i \in 1 .. n + k : (zct[m] \o zct[t])[i] =
             IF i <= n THEN zct[m][i] ELSE zct[t][i - n]
    BY <1>0, <1>2, ConcatProperties
  <2> QED BY <2>1, <1>2, <1>3, EmptySeq, SMTT(40)
<1>5. zct' \in [Threads -> Seq(Addr)]
  BY <1>1, <1>2, <1>3, <1>4
<1>6. \A u \in Threads : Entries(u) = 1 .. Len(zct[u]) /\ Entries(u)' = 1 .. Len(zct'[u])
  <2>1. phase' = phase /\ scan' = scan /\ keep' = keep
    BY <1>1 DEF gcVars
  <2> QED BY <2>1, <1>1 DEF Entries
\* An entry after the step, and the one it was before.
<1>7. ASSUME NEW u \in Threads, NEW i \in Entries(u)'
      PROVE  \/ u # m /\ u # t /\ i \in Entries(u) /\ zct'[u][i] = zct[u][i]
             \/ u = m /\ i \in Entries(m) /\ i <= n /\ zct'[m][i] = zct[m][i]
             \/ u = m /\ i > n /\ i - n \in Entries(t) /\ zct'[m][i] = zct[t][i - n]
  <2>1. CASE u # m /\ u # t BY <2>1, <1>3, <1>6
  <2>2. CASE u = t BY <2>2, <1>4, <1>6
  <2>3. CASE u = m
    <3>1. i \in 1 .. n + k BY <2>3, <1>4, <1>6
    <3>2. CASE i <= n BY <3>1, <3>2, <2>3, <1>0, <1>2, <1>4, <1>6
    <3>3. CASE i > n
      <4>1. i - n \in 1 .. k BY <3>1, <3>3, <1>2
      <4> QED BY <4>1, <3>1, <3>3, <2>3, <1>0, <1>4, <1>6
    <3> QED BY <3>1, <3>2, <3>3, <1>2
  <2> QED BY <2>1, <2>2, <2>3
<1>8. lifecycle' = lifecycle
  BY <1>1 DEF objVars
<1>9. ASSUME NEW u \in Threads, NEW i \in Entries(u)'
      PROVE  lifecycle'[zct'[u][i]] = "InZct"
  <2>1. PICK w \in Threads : \E j \in Entries(w) : zct'[u][i] = zct[w][j]
    BY <1>1, <1>7
  <2> QED BY <2>1, <1>2, <1>8 DEF ZctUnique
<1>16. ASSUME NEW u \in Threads, NEW i \in Entries(u)'
       PROVE  \E a \in Threads, p \in Nat :
                /\ p \in Entries(a) /\ zct[a][p] = zct'[u][i]
                /\ \/ a = u /\ p = i /\ a # t
                   \/ a = t /\ u = m /\ p = i - n
  <2>1. i \in Nat
    BY <1>6
  <2>2. CASE u # m /\ u # t /\ i \in Entries(u) /\ zct'[u][i] = zct[u][i]
    BY <2>1, <2>2
  <2>3. CASE u = m /\ i \in Entries(m) /\ i <= n /\ zct'[m][i] = zct[m][i]
    BY <2>1, <2>3, <1>1
  <2>4. CASE u = m /\ i > n /\ i - n \in Entries(t) /\ zct'[m][i] = zct[t][i - n]
    <3>1. i - n \in Nat
      BY <2>1, <2>4, <1>2
    <3> QED BY <2>4, <3>1
  <2> QED BY <2>2, <2>3, <2>4, <1>7
<1>10. ASSUME NEW u \in Threads, NEW w \in Threads, NEW i \in Entries(u)',
              NEW j \in Entries(w)', zct'[u][i] = zct'[w][j]
       PROVE  u = w /\ i = j
  <2>0. \A a, b \in Threads : \A p \in Entries(a), q \in Entries(b) :
          zct[a][p] = zct[b][q] => a = b /\ p = q
    BY <1>2 DEF ZctUnique
  <2>1. i \in Nat /\ j \in Nat
    BY <1>6
  <2>2. PICK a \in Threads, p \in Nat :
          /\ p \in Entries(a) /\ zct[a][p] = zct'[u][i]
          /\ \/ a = u /\ p = i /\ a # t
             \/ a = t /\ u = m /\ p = i - n
    BY <1>16
  <2>3. PICK b \in Threads, q \in Nat :
          /\ q \in Entries(b) /\ zct[b][q] = zct'[w][j]
          /\ \/ b = w /\ q = j /\ b # t
             \/ b = t /\ w = m /\ q = j - n
    BY <1>16
  <2>4. a = b /\ p = q
    BY <2>0, <2>2, <2>3, <1>10
  <2> QED BY <2>1, <2>2, <2>3, <2>4, <1>2
<1>11. ASSUME NEW o \in Addr, lifecycle'[o] = "InZct"
       PROVE  \E u \in Threads : \E i \in Entries(u)' : zct'[u][i] = o
  <2>1. PICK w \in Threads : \E j \in Entries(w) : zct[w][j] = o
    BY <1>2, <1>8, <1>11 DEF ZctUnique
  <2>2. PICK j \in Entries(w) : zct[w][j] = o
    BY <2>1
  <2>3. CASE w # m /\ w # t
    BY <2>2, <2>3, <1>3, <1>6
  <2>4. CASE w = m
    <3>1. j \in 1 .. n /\ j \in 1 .. n + k
      BY <2>4, <1>0, <1>2, <1>6
    <3>2. j \in Entries(m)' /\ zct'[m][j] = o
      BY <3>1, <2>2, <2>4, <1>1, <1>4, <1>6
    <3> QED BY <3>2, <1>1
  <2>5. CASE w = t
    <3>1. j \in 1 .. k
      BY <2>5, <1>0, <1>6
    <3>2. n + j \in 1 .. n + k /\ n + j > n /\ (n + j) - n = j
      BY <3>1, <1>2
    <3>3. n + j \in Entries(m)' /\ zct'[m][n + j] = o
      BY <3>2, <2>2, <2>5, <1>1, <1>4, <1>6
    <3> QED BY <3>3, <1>1
  <2> QED BY <2>3, <2>4, <2>5
<1>12. ZctUnique'
  BY <1>9, <1>10, <1>11 DEF ZctUnique
<1>13. ObjTypeOK'
  BY <1>1, <1>2, <1>5 DEF ObjTypeOK, objVars, frameVars, gcVars
<1>14. RefcountExact' /\ NoDanglingCell' /\ LifecycleOK' /\ DeadCellsEmpty' /\ BorrowedAlive'
  BY <1>1 DEF ObjInv, RefcountExact, NoDanglingCell, LifecycleOK, DeadCellsEmpty,
              BorrowedAlive, Readable, RefsTo, objVars, frameVars, gcVars
<1>15. RootsCover' /\ VictimUnheld' /\ IndicesOK'
  BY <1>1, RunningNoVictim
  DEF ObjInv, RootsCover, VictimUnheld, IndicesOK, Running, gcVars
<1> QED BY <1>12, <1>13, <1>14, <1>15 DEF ObjInv

\* The cells the program can reach are cells, and what it reads is alive.
LEMMA ReachableCells ==
  ASSUME ObjInv
  PROVE  /\ Readable \subseteq valid /\ Readable \subseteq Addr
         /\ AccessibleCells \subseteq Cells
<1>1. Readable \subseteq valid /\ Readable \subseteq Addr
  BY DEF ObjInv, BorrowedAlive, ObjTypeOK
<1> QED BY <1>1 DEF AccessibleCells, Cells

\* Member::assign and Owned::assign.
LEMMA ObjAssign ==
  ASSUME ObjInv, cur \in Threads, NEW t \in Threads, NEW c \in Cells, NEW v \in Value,
         AssignMember(t, c, v)
  PROVE  ObjInv'
<1>0. PICK old : old = cell[c]
  OBVIOUS
<1>1. /\ phase = "run" /\ v \in Readable \cup {NotPresent} /\ c \in AccessibleCells
      /\ refcount' = Decref(Incref(refcount, v), old)
      /\ cell' = [cell EXCEPT ![c] = v]
      /\ AddToZeroCountTableIfNeeded(t, old, Decref(Incref(refcount, v), old))
      /\ UNCHANGED <<valid, frameVars, requested, gcVars>>
  BY <1>0 DEF AssignMember, Running
<1>2. v # NotPresent => v \in valid
  BY <1>1, ReachableCells
<1>3. /\ refcount' \in [Addr -> Nat] /\ cell' \in [Cells -> Value]
      /\ RefcountExact' /\ NoDanglingCell'
      /\ old \in Value /\ (old # NotPresent => old \in valid)
  BY <1>0, <1>1, <1>2, WriteExact
<1>4. victim = NotPresent
  BY <1>1, RunningNoVictim
<1>5. /\ zct' \in [Threads -> Seq(Addr)]
      /\ lifecycle' \in [Addr -> {"Normal", "InZct", "Reclaiming", "Dead"}]
      /\ ZctUnique' /\ LifecycleOK' /\ IndicesOK'
  <2>1. UNCHANGED <<phase, cur, scan, keep, valid, victim>>
    BY <1>1 DEF gcVars
  <2> QED BY <1>1, <1>3, <1>4, <2>1, AddIfNeeded
<1>6. ObjTypeOK'
  BY <1>1, <1>3, <1>5 DEF ObjInv, ObjTypeOK, frameVars, gcVars
<1>7. BorrowedAlive'
  BY <1>1 DEF ObjInv, BorrowedAlive, Readable, frameVars
<1>8. DeadCellsEmpty'
  <2> SUFFICES ASSUME NEW o \in Addr \ valid, NEW j \in SlotIndex
               PROVE  cell'[<<o, j>>] = NotPresent
    BY <1>1 DEF DeadCellsEmpty
  <2>1. cell[<<o, j>>] = NotPresent /\ <<o, j>> \in Cells
    BY DEF ObjInv, DeadCellsEmpty, Cells
  <2>2. <<o, j>> # c
    <3>1. <<o, j>> \notin Handles
      BY DisjointAssumption
    <3>2. <<o, j>> \notin Readable \X SlotIndex
      BY ReachableCells
    <3> QED BY <3>1, <3>2, <1>1 DEF AccessibleCells
  <2> QED BY <2>1, <2>2, <1>1 DEF ObjInv, ObjTypeOK
<1>9. RootsCover' /\ VictimUnheld'
  BY <1>1, <1>4 DEF RootsCover, VictimUnheld, Running, gcVars
<1> QED BY <1>3, <1>5, <1>6, <1>7, <1>8, <1>9 DEF ObjInv

\* A mutator reads or writes registers, stack words and members.
LEMMA ObjMutate ==
  ASSUME ObjInv, cur \in Threads, Mutate
  PROVE  ObjInv'
<1>0. /\ stack \subseteq Addr /\ live \subseteq stack /\ acc \in Value
      /\ requested \in BOOLEAN /\ cell \in [Cells -> Value] /\ valid \subseteq Addr
      /\ NotPresent \notin Addr /\ Value = Addr \cup {NotPresent}
      /\ live \subseteq valid /\ acc \in valid \cup {NotPresent}
  BY DisjointAssumption DEF ObjInv, ObjTypeOK, BorrowedAlive, Readable, Value
<1>1. CASE StoreRegister
  BY <1>0, <1>1, ObjHold DEF StoreRegister, Readable, Running
<1>2. ASSUME NEW v \in Value, LoadRegister(v) PROVE ObjInv'
  BY <1>0, <1>2, ObjHold DEF LoadRegister, Readable, Running
<1>3. ASSUME NEW c \in Cells, LoadMember(c) PROVE ObjInv'
  <2>1. cell[c] \in valid \cup {NotPresent}
    BY DEF ObjInv, NoDanglingCell
  <2> QED BY <1>0, <1>3, <2>1, ObjHold DEF LoadMember, Readable, Running
<1>4. ASSUME NEW o \in Addr, LeaveRegisterDead(o) PROVE ObjInv'
  BY <1>0, <1>4, ObjHold DEF LeaveRegisterDead, Readable, Running
<1>5. ASSUME NEW o \in Addr, DropStackWord(o) PROVE ObjInv'
  BY <1>0, <1>5, ObjHold DEF DropStackWord, Readable, Running
<1>6. ASSUME NEW o \in Addr, ExposeStaleWord(o) PROVE ObjInv'
  BY <1>0, <1>6, ObjHold DEF ExposeStaleWord, Readable, Running
<1>7. ASSUME NEW t \in Threads, NEW c \in Cells, NEW v \in Value, AssignMember(t, c, v)
      PROVE  ObjInv'
  BY <1>7, ObjAssign
<1> QED BY <1>1, <1>2, <1>3, <1>4, <1>5, <1>6, <1>7 DEF Mutate

-----------------------------------------------------------------------------
(* The steps of a reclamation.                                             *)

\* The roots a safepoint collects cover what the program still reads: at
\* function entry the accumulator is dead, at a return it is published.
LEMMA ObjSafepoint ==
  ASSUME ObjInv, SlabInv, Safepoint
  PROVE  ObjInv'
<1>1. PICK published :
        /\ BeginReclamation(published)
        /\ (published = NotPresent /\ acc' = NotPresent) \/ (published = acc /\ acc' = acc)
  BY DEF Safepoint, SafepointAtEntry, SafepointAtReturn
<1>2. /\ phase = "run" /\ phase' = "zct" /\ cur' \in Threads
      /\ roots' = stack \cup ({published} \ {NotPresent})
      /\ scan' = 0 /\ keep' = 0 /\ victim' = victim /\ slot' = slot
      /\ refcount' = refcount /\ lifecycle' = lifecycle /\ valid' = valid
      /\ cell' = cell /\ zct' = zct /\ stack' = stack /\ live' = live
      /\ requested' = requested
  BY <1>1 DEF BeginReclamation, Running, objVars, Registered
<1>3. ObjTypeOK /\ acc' \in Value /\ published \in Value /\ Value = Addr \cup {NotPresent}
  BY <1>1 DEF ObjInv, ObjTypeOK, Value
<1>4. ObjTypeOK'
  BY <1>2, <1>3 DEF ObjTypeOK
<1>5. RefcountExact' /\ NoDanglingCell' /\ LifecycleOK' /\ DeadCellsEmpty'
  BY <1>2 DEF ObjInv, RefcountExact, NoDanglingCell, LifecycleOK, DeadCellsEmpty, RefsTo
<1>6. BorrowedAlive' /\ RootsCover'
  BY <1>1, <1>2, <1>3 DEF ObjInv, BorrowedAlive, RootsCover, Readable, ObjTypeOK
<1>7. ZctUnique'
  <2>1. \A t \in Threads : Entries(t)' = Entries(t)
    BY <1>2, <1>3 DEF Entries, ObjTypeOK
  <2> QED BY <1>2, <2>1, ZctFrame DEF ObjInv
<1>8. VictimUnheld' /\ IndicesOK'
  BY <1>2, <1>3, RunningNoVictim DEF VictimUnheld, IndicesOK, ObjTypeOK
<1> QED BY <1>4, <1>5, <1>6, <1>7, <1>8 DEF ObjInv

\* One slot of the object in hand is cleared and its child released: the
\* child is not the object itself, which no cell holds.
LEMMA ObjReleaseSlot ==
  ASSUME ObjInv, cur \in Threads, ReleaseSlot
  PROVE  ObjInv'
<1>0. PICK o, j, child : o = victim /\ j = slot /\ child = cell[<<o, j>>]
  OBVIOUS
<1>1. /\ phase \in {"zct", "epoch"} /\ o # NotPresent /\ j <= SlotCount
      /\ cell' = [cell EXCEPT ![<<o, j>>] = NotPresent]
      /\ refcount' = Decref(refcount, child)
      /\ AddToZeroCountTableIfNeeded(cur, child, Decref(refcount, child))
      /\ slot' = j + 1
      /\ UNCHANGED <<valid, frameVars, requested, phase, cur, roots, scan, keep, victim>>
  BY <1>0 DEF ReleaseSlot
<1>2. /\ o \in Addr /\ j \in SlotIndex /\ <<o, j>> \in Cells /\ j + 1 \in 1 .. SlotCount + 1
      /\ SlotCount \in Nat /\ j \in Nat
  BY <1>0, <1>1, ConstantsAssumption DEF ObjInv, ObjTypeOK, Value, SlotIndex, Cells
<1>3. /\ o \in valid /\ lifecycle[o] = "Reclaiming" /\ refcount[o] = 0 /\ o \notin roots
      /\ \A c \in Cells : cell[c] # o
  <2>1. lifecycle[o] = "Reclaiming" /\ o \in valid
    BY <1>0, <1>2 DEF ObjInv, LifecycleOK
  <2>2. refcount[o] = 0 /\ o \notin roots
    BY <1>0, <1>1 DEF ObjInv, VictimUnheld
  <2> QED BY <2>1, <2>2, ZeroUnheld
<1>4. Incref(refcount, NotPresent) = refcount
  BY DEF Incref
<1>5. /\ refcount' \in [Addr -> Nat] /\ cell' \in [Cells -> Value]
      /\ RefcountExact' /\ NoDanglingCell'
      /\ child \in Value /\ (child # NotPresent => child \in valid)
  <2>1. NotPresent \in Value
    BY DEF Value
  <2>2. PICK c \in Cells : c = <<o, j>>
    BY <1>2
  <2>3. /\ child = cell[c] /\ cell' = [cell EXCEPT ![c] = NotPresent]
        /\ refcount' = Decref(Incref(refcount, NotPresent), child) /\ valid' = valid
    BY <1>0, <1>1, <1>4, <2>2
  <2> HIDE <2>2
  <2> QED BY <2>1, <2>3, WriteExact
<1>6. child # o
  BY <1>0, <1>2, <1>3
<1>7. /\ zct' \in [Threads -> Seq(Addr)]
      /\ lifecycle' \in [Addr -> {"Normal", "InZct", "Reclaiming", "Dead"}]
      /\ ZctUnique' /\ LifecycleOK' /\ IndicesOK'
  BY <1>0, <1>1, <1>5, <1>6, AddIfNeeded
<1>8. ObjTypeOK'
  BY <1>1, <1>2, <1>5, <1>7 DEF ObjInv, ObjTypeOK, frameVars
<1>9. BorrowedAlive' /\ RootsCover'
  BY <1>1 DEF ObjInv, BorrowedAlive, RootsCover, Readable, Running, frameVars
<1>10. DeadCellsEmpty'
  BY <1>1, <1>2 DEF ObjInv, DeadCellsEmpty, ObjTypeOK, Cells
<1>11. VictimUnheld'
  <2>1. refcount'[o] = 0
    <3>1. \A c \in Cells : cell'[c] # o
      BY <1>1, <1>2, <1>3, DisjointAssumption DEF ObjInv, ObjTypeOK
    <3>2. RefsTo(o)' = {}
      BY <3>1 DEF RefsTo
    <3>3. refcount'[o] = Cardinality(RefsTo(o)')
      BY <1>1, <1>3, <1>5 DEF RefcountExact
    <3> QED BY <3>2, <3>3, FS_EmptySet
  <2>2. ASSUME NEW k \in SlotIndex, k < slot'
        PROVE  cell'[<<o, k>>] = NotPresent
    <3>1. <<o, k>> \in Cells
      BY <1>2 DEF Cells
    <3>2. CASE k = j BY <3>1, <3>2, <1>1 DEF ObjInv, ObjTypeOK
    <3>3. CASE k # j
      <4>1. k < j BY <3>3, <2>2, <1>1, <1>2 DEF SlotIndex
      <4>2. cell[<<o, k>>] = NotPresent
        BY <4>1, <1>0, <1>1 DEF ObjInv, VictimUnheld
      <4> QED BY <4>2, <3>1, <3>3, <1>1 DEF ObjInv, ObjTypeOK
    <3> QED BY <3>2, <3>3
  <2> QED BY <1>0, <1>1, <1>3, <2>1, <2>2 DEF VictimUnheld
<1> QED BY <1>5, <1>7, <1>8, <1>9, <1>10, <1>11 DEF ObjInv

\* The entry under the scan index is in the table: it exists and is InZct.
LEMMA ScannedEntry ==
  ASSUME ObjInv, cur \in Threads, phase = "zct", scan < Len(zct[cur])
  PROVE  /\ scan + 1 \in Entries(cur)
         /\ zct[cur][scan + 1] \in valid
         /\ lifecycle[zct[cur][scan + 1]] = "InZct"
<1>1. scan + 1 \in 1 .. Len(zct[cur]) /\ scan \in Nat
  BY DEF ObjInv, IndicesOK, ObjTypeOK
<1>2. scan + 1 \in Entries(cur)
  BY <1>1 DEF Entries
<1>3. lifecycle[zct[cur][scan + 1]] = "InZct"
  BY <1>2 DEF ObjInv, ZctUnique
<1>4. zct[cur][scan + 1] \in Addr
  BY <1>1 DEF ObjInv, ObjTypeOK
<1> QED BY <1>2, <1>3, <1>4 DEF ObjInv, LifecycleOK

\* The scanned entry leaves the table.
LEMMA Dequeue ==
  ASSUME ObjTypeOK, ZctUnique, IndicesOK, cur \in Threads, phase = "zct",
         scan < Len(zct[cur]), NEW o, o = zct[cur][scan + 1],
         NEW state \in {"Normal", "Reclaiming"},
         lifecycle' = [lifecycle EXCEPT ![o] = state],
         scan' = scan + 1, UNCHANGED <<zct, keep, phase, cur>>
  PROVE  ZctUnique' /\ IndicesOK'
<1>0. PICK u, e : u = cur /\ e = scan + 1
  OBVIOUS
<1>1. /\ scan \in Nat /\ keep \in Nat /\ keep <= scan /\ e \in 1 .. Len(zct[u])
      /\ zct[u] \in Seq(Addr) /\ Len(zct[u]) \in Nat /\ u \in Threads
      /\ lifecycle \in [Addr -> {"Normal", "InZct", "Reclaiming", "Dead"}]
      /\ zct \in [Threads -> Seq(Addr)]
  BY <1>0 DEF ObjTypeOK, IndicesOK
<1>2. o \in Addr /\ o = zct[u][e] /\ e \in Entries(u)
  BY <1>0, <1>1 DEF Entries
<1>3. Entries(u)' = Entries(u) \ {e}
  BY <1>0, <1>1 DEF Entries
<1>4. \A t \in Threads : t # u => Entries(t)' = Entries(t) /\ e \in Entries(u)
  BY <1>0, <1>2 DEF Entries
<1>5. ASSUME NEW t \in Threads, NEW k \in Entries(t)'
      PROVE  k \in Entries(t) /\ zct[t][k] # o /\ zct[t][k] \in Addr
  <2>1. k \in Entries(t) /\ (t = u => k # e)
    BY <1>3, <1>4
  <2>2. zct[t][k] # o
    BY <2>1, <1>1, <1>2 DEF ZctUnique
  <2>3. zct[t][k] \in Addr
    BY <2>1, <1>1 DEF Entries
  <2> QED BY <2>1, <2>2, <2>3
<1>6. ASSUME NEW t \in Threads, NEW k \in Entries(t)'
      PROVE  lifecycle'[zct'[t][k]] = "InZct"
  BY <1>1, <1>5 DEF ZctUnique
<1>7. ASSUME NEW t \in Threads, NEW w \in Threads, NEW k \in Entries(t)',
             NEW m \in Entries(w)', zct'[t][k] = zct'[w][m]
      PROVE  t = w /\ k = m
  <2>1. k \in Entries(t) /\ m \in Entries(w) /\ zct[t][k] = zct[w][m]
    BY <1>5, <1>7
  <2> QED BY <2>1 DEF ZctUnique
<1>8. ASSUME NEW x \in Addr, lifecycle'[x] = "InZct"
      PROVE  \E t \in Threads : \E k \in Entries(t)' : zct'[t][k] = x
  <2>1. x # o /\ lifecycle[x] = "InZct"
    BY <1>1, <1>2, <1>8
  <2>2. PICK t \in Threads : \E k \in Entries(t) : zct[t][k] = x
    BY <2>1 DEF ZctUnique
  <2>3. PICK k \in Entries(t) : zct[t][k] = x
    BY <2>2
  <2>4. k \in Entries(t)'
    BY <2>1, <2>3, <1>2, <1>3, <1>4
  <2> QED BY <2>3, <2>4
<1>9. ZctUnique'
  BY <1>6, <1>7, <1>8 DEF ZctUnique
<1>10. IndicesOK'
  BY <1>0, <1>1 DEF IndicesOK
<1> QED BY <1>9, <1>10

\* The scanned entry is a root: it moves to the end of the kept prefix.
LEMMA KeepEntry ==
  ASSUME ObjTypeOK, ZctUnique, IndicesOK, cur \in Threads, phase = "zct",
         scan < Len(zct[cur]), NEW o, o = zct[cur][scan + 1],
         zct' = [zct EXCEPT ![cur][keep + 1] = o],
         scan' = scan + 1, keep' = keep + 1, UNCHANGED <<lifecycle, phase, cur>>
  PROVE  zct' \in [Threads -> Seq(Addr)] /\ ZctUnique' /\ IndicesOK'
<1>0. PICK u, e, f, n : u = cur /\ e = scan + 1 /\ f = keep + 1 /\ n = Len(zct[u])
  OBVIOUS
<1>1. /\ scan \in Nat /\ keep \in Nat /\ keep <= scan /\ e \in 1 .. n /\ f \in 1 .. n
      /\ zct[u] \in Seq(Addr) /\ n \in Nat /\ u \in Threads /\ f <= e
      /\ zct \in [Threads -> Seq(Addr)]
  BY <1>0 DEF ObjTypeOK, IndicesOK
<1>2. o \in Addr /\ o = zct[u][e] /\ e \in Entries(u)
  BY <1>0, <1>1 DEF Entries
<1>3. /\ zct'[u] = [zct[u] EXCEPT ![f] = o]
      /\ \A t \in Threads : t # u => zct'[t] = zct[t]
  BY <1>0, <1>1
<1>4. /\ zct'[u] \in Seq(Addr) /\ Len(zct'[u]) = n
      /\ \A k \in 1 .. n : zct'[u][k] = IF k = f THEN o ELSE zct[u][k]
  BY <1>0, <1>1, <1>2, <1>3, ExceptSeq
<1>5. zct' \in [Threads -> Seq(Addr)]
  BY <1>1, <1>3, <1>4
<1>6. /\ Entries(u) = {k \in 1 .. n : k <= keep \/ k > scan}
      /\ Entries(u)' = {k \in 1 .. n : k <= keep + 1 \/ k > scan + 1}
  BY <1>0, <1>4 DEF Entries
<1>7. \A t \in Threads : t # u => Entries(t)' = Entries(t)
  BY <1>0, <1>3 DEF Entries
\* An entry after the step, and the position it had before.
<1>8. ASSUME NEW t \in Threads, NEW k \in Entries(t)'
      PROVE  \/ t = u /\ k = f /\ zct'[t][k] = zct[u][e]
             \/ k \in Entries(t) /\ zct'[t][k] = zct[t][k] /\ ~(t = u /\ (k = e \/ k = f))
  <2>1. CASE t # u BY <2>1, <1>3, <1>7
  <2>2. CASE t = u
    <3>1. k \in 1 .. n /\ (k <= keep + 1 \/ k > scan + 1)
      BY <2>2, <1>6
    <3>2. CASE k = f BY <3>1, <3>2, <2>2, <1>2, <1>4
    <3>3. CASE k # f
      <4>1. (k <= keep \/ k > scan) /\ k # e
        BY <3>1, <3>3, <1>0, <1>1
      <4> QED BY <4>1, <3>1, <3>3, <2>2, <1>4, <1>6
    <3> QED BY <3>2, <3>3
  <2> QED BY <2>1, <2>2
<1>9. ASSUME NEW t \in Threads, NEW k \in Entries(t)'
      PROVE  lifecycle'[zct'[t][k]] = "InZct"
  BY <1>1, <1>2, <1>8 DEF ZctUnique
<1>10. ASSUME NEW t \in Threads, NEW w \in Threads, NEW k \in Entries(t)',
              NEW m \in Entries(w)', zct'[t][k] = zct'[w][m]
       PROVE  t = w /\ k = m
  <2>0. \A a, b \in Threads : \A p \in Entries(a), q \in Entries(b) :
          zct[a][p] = zct[b][q] => a = b /\ p = q
    BY DEF ZctUnique
  <2>1. CASE t = u /\ k = f /\ zct'[t][k] = zct[u][e]
    <3>1. CASE w = u /\ m = f BY <2>1, <3>1
    <3>2. CASE m \in Entries(w) /\ zct'[w][m] = zct[w][m] /\ ~(w = u /\ (m = e \/ m = f))
      <4>1. zct[u][e] = zct[w][m] BY <2>1, <3>2, <1>10
      <4> QED BY <4>1, <3>2, <2>0, <1>1, <1>2
    <3> QED BY <3>1, <3>2, <1>8
  <2>2. CASE k \in Entries(t) /\ zct'[t][k] = zct[t][k] /\ ~(t = u /\ (k = e \/ k = f))
    <3>1. CASE w = u /\ m = f /\ zct'[w][m] = zct[u][e]
      <4>1. zct[u][e] = zct[t][k] BY <2>2, <3>1, <1>10
      <4> QED BY <4>1, <2>2, <2>0, <1>1, <1>2
    <3>2. CASE m \in Entries(w) /\ zct'[w][m] = zct[w][m]
      <4>1. zct[t][k] = zct[w][m] BY <2>2, <3>2, <1>10
      <4> QED BY <4>1, <2>2, <3>2, <2>0
    <3> QED BY <3>1, <3>2, <1>8
  <2> QED BY <2>1, <2>2, <1>8
<1>11. ASSUME NEW x \in Addr, lifecycle'[x] = "InZct"
       PROVE  \E t \in Threads : \E k \in Entries(t)' : zct'[t][k] = x
  <2>1. PICK t \in Threads : \E k \in Entries(t) : zct[t][k] = x
    BY <1>11 DEF ZctUnique
  <2>2. PICK k \in Entries(t) : zct[t][k] = x
    BY <2>1
  <2>3. CASE t # u BY <2>2, <2>3, <1>3, <1>7
  <2>4. CASE t = u /\ k = e
    <3>1. f \in Entries(u)' /\ zct'[u][f] = x
      BY <2>2, <2>4, <1>0, <1>1, <1>2, <1>4, <1>6
    <3> QED BY <3>1, <1>1
  <2>5. CASE t = u /\ k # e
    <3>1. k \in 1 .. n /\ (k <= keep \/ k > scan + 1)
      BY <2>2, <2>5, <1>0, <1>1, <1>6
    <3>2. k # f
      BY <3>1, <1>0, <1>1
    <3>3. k \in Entries(u)' /\ zct'[u][k] = x
      BY <3>1, <3>2, <2>2, <2>5, <1>1, <1>4, <1>6
    <3> QED BY <3>3, <1>1
  <2> QED BY <2>3, <2>4, <2>5
<1>12. ZctUnique'
  BY <1>9, <1>10, <1>11 DEF ZctUnique
<1>13. IndicesOK'
  BY <1>0, <1>1, <1>4 DEF IndicesOK
<1> QED BY <1>5, <1>12, <1>13

\* An object that no cell holds and that is not a root is taken in hand.
LEMMA TakeVictim ==
  ASSUME ObjInv, NEW o \in valid, refcount[o] = 0, o \notin roots, victim = NotPresent,
         phase \in {"zct", "epoch"}, lifecycle' = [lifecycle EXCEPT ![o] = "Reclaiming"],
         victim' = o, slot' = 1,
         UNCHANGED <<refcount, valid, cell, frameVars, requested, phase, cur, roots, zct>>
  PROVE  /\ ObjTypeOK' /\ RefcountExact' /\ NoDanglingCell' /\ BorrowedAlive'
         /\ LifecycleOK' /\ DeadCellsEmpty' /\ RootsCover' /\ VictimUnheld'
<1>1. ObjTypeOK /\ o \in Addr /\ NotPresent \notin Addr
  BY DisjointAssumption DEF ObjInv, ObjTypeOK
<1>2. ObjTypeOK'
  BY <1>1, ConstantsAssumption DEF ObjTypeOK, frameVars, Value
<1>3. RefcountExact' /\ NoDanglingCell' /\ DeadCellsEmpty' /\ BorrowedAlive' /\ RootsCover'
  BY DEF ObjInv, RefcountExact, NoDanglingCell, DeadCellsEmpty, BorrowedAlive,
         RootsCover, Running, Readable, RefsTo, frameVars
<1>4. LifecycleOK'
  BY <1>1 DEF ObjInv, LifecycleOK, ObjTypeOK
<1>5. VictimUnheld'
  BY <1>1, ConstantsAssumption DEF VictimUnheld, SlotIndex
<1> QED BY <1>2, <1>3, <1>4, <1>5

\* An entry of the zero-count table is processed.
LEMMA ObjProcessZctEntry ==
  ASSUME ObjInv, cur \in Threads, ProcessZctEntry
  PROVE  ObjInv'
<1>0. PICK o : o = zct[cur][scan + 1]
  OBVIOUS
<1>1. /\ phase = "zct" /\ victim = NotPresent /\ scan < Len(zct[cur]) /\ scan' = scan + 1
      /\ UNCHANGED <<refcount, valid, cell, frameVars, requested, phase, cur, roots>>
  BY DEF ProcessZctEntry
<1>2. /\ o \in valid /\ o \in Addr /\ lifecycle[o] = "InZct" /\ ObjTypeOK
      /\ NotPresent \notin Addr /\ refcount[o] \in Nat
  BY <1>0, <1>1, ScannedEntry, DisjointAssumption DEF ObjInv, ObjTypeOK
<1>3. CASE refcount[o] > 0
  <2>1. /\ lifecycle' = [lifecycle EXCEPT ![o] = "Normal"]
        /\ UNCHANGED <<zct, keep, victim, slot>>
    BY <1>0, <1>2, <1>3 DEF ProcessZctEntry
  <2>2. ZctUnique' /\ IndicesOK'
    BY <1>0, <1>1, <2>1, Dequeue DEF ObjInv
  <2>3. ObjTypeOK'
    BY <1>1, <1>2, <2>1 DEF ObjTypeOK, frameVars
  <2>4. RefcountExact' /\ NoDanglingCell' /\ DeadCellsEmpty' /\ BorrowedAlive' /\ RootsCover'
    BY <1>1 DEF ObjInv, RefcountExact, NoDanglingCell, DeadCellsEmpty, BorrowedAlive,
                RootsCover, Running, Readable, RefsTo, frameVars
  <2>5. LifecycleOK' /\ VictimUnheld'
    BY <1>1, <1>2, <2>1 DEF ObjInv, LifecycleOK, VictimUnheld, ObjTypeOK
  <2> QED BY <2>2, <2>3, <2>4, <2>5 DEF ObjInv
<1>4. CASE refcount[o] = 0 /\ o \in roots
  <2>1. /\ zct' = [zct EXCEPT ![cur][keep + 1] = o] /\ keep' = keep + 1
        /\ UNCHANGED <<lifecycle, victim, slot>>
    BY <1>0, <1>2, <1>4 DEF ProcessZctEntry
  <2>2. zct' \in [Threads -> Seq(Addr)] /\ ZctUnique' /\ IndicesOK'
    BY <1>0, <1>1, <2>1, KeepEntry DEF ObjInv
  <2>3. ObjTypeOK'
    BY <1>1, <1>2, <2>1, <2>2 DEF ObjTypeOK, frameVars
  <2>4. RefcountExact' /\ NoDanglingCell' /\ DeadCellsEmpty' /\ BorrowedAlive' /\ RootsCover'
    BY <1>1 DEF ObjInv, RefcountExact, NoDanglingCell, DeadCellsEmpty, BorrowedAlive,
                RootsCover, Running, Readable, RefsTo, frameVars
  <2>5. LifecycleOK' /\ VictimUnheld'
    BY <1>1, <2>1 DEF ObjInv, LifecycleOK, VictimUnheld
  <2> QED BY <2>2, <2>3, <2>4, <2>5 DEF ObjInv
<1>5. CASE refcount[o] = 0 /\ o \notin roots
  <2>1. /\ lifecycle' = [lifecycle EXCEPT ![o] = "Reclaiming"] /\ victim' = o /\ slot' = 1
        /\ UNCHANGED <<zct, keep>>
    BY <1>0, <1>2, <1>5 DEF ProcessZctEntry
  <2>2. ZctUnique' /\ IndicesOK'
    BY <1>0, <1>1, <2>1, Dequeue DEF ObjInv
  <2> QED BY <1>1, <1>2, <1>5, <2>1, <2>2, TakeVictim DEF ObjInv
<1> QED BY <1>2, <1>3, <1>4, <1>5

\* resize(keep) drops exactly the positions that are no longer entries.
LEMMA ObjResizeZct ==
  ASSUME ObjInv, cur \in Threads, ResizeZct
  PROVE  ObjInv'
<1>0. PICK u, n, k : u = cur /\ n = Len(zct[u]) /\ k = keep
  OBVIOUS
<1>1. /\ phase = "zct" /\ victim = NotPresent /\ scan = n /\ phase' = "epoch"
      /\ zct' = [zct EXCEPT ![u] = SubSeq(@, 1, k)] /\ scan' = 0 /\ keep' = 0
      /\ UNCHANGED <<objVars, frameVars, requested, cur, roots, victim, slot>>
  BY <1>0 DEF ResizeZct
<1>2. /\ ObjTypeOK /\ zct \in [Threads -> Seq(Addr)] /\ zct[u] \in Seq(Addr) /\ n \in Nat
      /\ k \in Nat /\ k <= n /\ ZctUnique /\ u \in Threads
  BY <1>0, <1>1 DEF ObjInv, ObjTypeOK, IndicesOK
<1>3. /\ zct'[u] = SubSeq(zct[u], 1, k) /\ \A t \in Threads : t # u => zct'[t] = zct[t]
  BY <1>1, <1>2
<1>4. /\ zct'[u] \in Seq(Addr) /\ Len(zct'[u]) = k
      /\ \A i \in 1 .. k : zct'[u][i] = zct[u][i]
  <2>1. \A i \in 1 .. k : zct[u][i] \in Addr
    BY <1>0, <1>2
  <2> QED BY <2>1, <1>2, <1>3, SubSeqProperties
<1>5. zct' \in [Threads -> Seq(Addr)]
  BY <1>1, <1>2, <1>3, <1>4
<1>6. Entries(u) = 1 .. k /\ Entries(u)' = 1 .. k
  <2>1. Entries(u) = {i \in 1 .. n : i <= k \/ i > n}
    BY <1>0, <1>1 DEF Entries
  <2>2. Entries(u)' = {i \in 1 .. k : TRUE}
    BY <1>1, <1>4 DEF Entries
  <2> QED BY <2>1, <2>2, <1>2
<1>7. \A t \in Threads : t # u => Entries(t)' = Entries(t)
  BY <1>0, <1>1, <1>3 DEF Entries
<1>8. \A t \in Threads : Entries(t)' = Entries(t)
  BY <1>6, <1>7
<1>9. \A t \in Threads : \A i \in Entries(t) : zct'[t][i] = zct[t][i]
  BY <1>3, <1>4, <1>6
<1>10. lifecycle' = lifecycle
  BY <1>1 DEF objVars
<1>11. \A t \in Threads : \A i \in Entries(t)' : lifecycle'[zct'[t][i]] = "InZct"
  BY <1>2, <1>8, <1>9, <1>10 DEF ZctUnique
<1>17. ASSUME NEW x \in Addr, lifecycle'[x] = "InZct"
       PROVE  \E t \in Threads : \E i \in Entries(t)' : zct'[t][i] = x
  <2>1. PICK t \in Threads : \E i \in Entries(t) : zct[t][i] = x
    BY <1>2, <1>10, <1>17 DEF ZctUnique
  <2> QED BY <2>1, <1>8, <1>9
<1>12. \A t, w \in Threads : \A i \in Entries(t)', j \in Entries(w)' :
         zct'[t][i] = zct'[w][j] => t = w /\ i = j
  BY <1>2, <1>8, <1>9 DEF ZctUnique
<1>13. ZctUnique'
  BY <1>11, <1>12, <1>17 DEF ZctUnique
<1>14. ObjTypeOK' /\ IndicesOK'
  BY <1>1, <1>2, <1>5 DEF ObjTypeOK, IndicesOK, objVars, frameVars
<1>15. RefcountExact' /\ NoDanglingCell' /\ LifecycleOK' /\ DeadCellsEmpty' /\ BorrowedAlive'
  BY <1>1 DEF ObjInv, RefcountExact, NoDanglingCell, LifecycleOK, DeadCellsEmpty,
              BorrowedAlive, Readable, RefsTo, objVars, frameVars
<1>16. RootsCover' /\ VictimUnheld'
  BY <1>1 DEF ObjInv, RootsCover, VictimUnheld, Running, Readable, frameVars
<1> QED BY <1>13, <1>14, <1>15, <1>16 DEF ObjInv

\* finish_reclaim_object: nothing holds the object, so nothing dangles.
LEMMA ObjFinishReclaim ==
  ASSUME ObjInv, FinishReclaimObject
  PROVE  ObjInv'
<1>0. PICK o : o = victim
  OBVIOUS
<1>1. /\ phase \in {"zct", "epoch"} /\ o # NotPresent /\ slot = SlotCount + 1
      /\ lifecycle' = [lifecycle EXCEPT ![o] = "Dead"]
      /\ valid' = valid \ {o} /\ victim' = NotPresent /\ slot' = 1
      /\ UNCHANGED <<refcount, cell, frameVars, requested, zct, phase, cur, roots, scan, keep>>
  BY <1>0 DEF FinishReclaimObject
<1>2. /\ ObjTypeOK /\ o \in Addr /\ o \in valid /\ lifecycle[o] = "Reclaiming"
      /\ refcount[o] = 0 /\ o \notin roots /\ NotPresent \notin Addr
  BY <1>0, <1>1, DisjointAssumption DEF ObjInv, ObjTypeOK, Value, LifecycleOK, VictimUnheld
<1>3. \A c \in Cells : cell[c] # o
  BY <1>2, ZeroUnheld
<1>4. ObjTypeOK'
  BY <1>1, <1>2, ConstantsAssumption DEF ObjTypeOK, frameVars, Value
<1>5. RefcountExact' /\ NoDanglingCell'
  BY <1>1, <1>3 DEF ObjInv, RefcountExact, NoDanglingCell, RefsTo
<1>6. BorrowedAlive' /\ RootsCover'
  BY <1>1, <1>2 DEF ObjInv, BorrowedAlive, RootsCover, Running, Readable, frameVars
<1>7. LifecycleOK'
  BY <1>0, <1>1, <1>2 DEF ObjInv, LifecycleOK, ObjTypeOK
<1>8. DeadCellsEmpty'
  <2>1. \A i \in SlotIndex : cell[<<o, i>>] = NotPresent
    <3>1. \A i \in SlotIndex : i < slot
      BY <1>1, ConstantsAssumption DEF SlotIndex
    <3> QED BY <3>1, <1>0, <1>1 DEF ObjInv, VictimUnheld
  <2> QED BY <2>1, <1>1 DEF ObjInv, DeadCellsEmpty
<1>9. ZctUnique' /\ IndicesOK'
  <2>1. \A t \in Threads : Entries(t)' = Entries(t)
    BY <1>1, EntriesSame
  <2>2. \A x \in Addr : lifecycle'[x] = "InZct" <=> lifecycle[x] = "InZct"
    BY <1>1, <1>2 DEF ObjTypeOK
  <2>3. ZctUnique'
    BY <1>1, <1>2, <2>1, <2>2, ZctFrame DEF ObjInv
  <2> QED BY <1>1, <2>3 DEF ObjInv, IndicesOK
<1>10. VictimUnheld'
  BY <1>1 DEF VictimUnheld
<1> QED BY <1>4, <1>5, <1>6, <1>7, <1>8, <1>9, <1>10 DEF ObjInv

\* scan_epoch_slab_bitmaps on one object.
LEMMA ObjScanEpoch ==
  ASSUME ObjInv, cur \in Threads, NEW o \in Addr, ScanEpochObject(o)
  PROVE  ObjInv'
<1>1. /\ phase = "epoch" /\ victim = NotPresent /\ o \in valid /\ refcount[o] = 0
      /\ lifecycle[o] = "Normal"
      /\ UNCHANGED <<refcount, valid, cell, frameVars, requested, phase, cur, roots, scan, keep>>
  BY DEF ScanEpochObject, EpochCandidate
<1>2. ObjTypeOK /\ NotPresent \notin Addr
  BY DisjointAssumption DEF ObjInv
<1>3. CASE o \in roots
  <2>1. /\ lifecycle' = [lifecycle EXCEPT ![o] = "InZct"]
        /\ zct' = [zct EXCEPT ![cur] = Append(@, o)]
        /\ UNCHANGED <<victim, slot>>
    BY <1>3 DEF ScanEpochObject
  <2>2. zct' \in [Threads -> Seq(Addr)] /\ ZctUnique' /\ IndicesOK'
    <3>1. PICK t \in Threads : t = cur
      OBVIOUS
    <3>2. zct' = [zct EXCEPT ![t] = Append(@, o)] /\ lifecycle[o] # "InZct"
      BY <2>1, <3>1, <1>1
    <3> QED BY <1>1, <2>1, <3>2, Enqueue DEF ObjInv
  <2>3. ObjTypeOK'
    BY <1>1, <1>2, <2>1, <2>2 DEF ObjTypeOK, frameVars
  <2>4. RefcountExact' /\ NoDanglingCell' /\ DeadCellsEmpty' /\ BorrowedAlive' /\ RootsCover'
    BY <1>1 DEF ObjInv, RefcountExact, NoDanglingCell, DeadCellsEmpty, BorrowedAlive,
                RootsCover, Running, Readable, RefsTo, frameVars
  <2>5. LifecycleOK' /\ VictimUnheld'
    BY <1>1, <1>2, <2>1 DEF ObjInv, LifecycleOK, VictimUnheld, ObjTypeOK
  <2> QED BY <2>2, <2>3, <2>4, <2>5 DEF ObjInv
<1>4. CASE o \notin roots
  <2>1. /\ lifecycle' = [lifecycle EXCEPT ![o] = "Reclaiming"] /\ victim' = o /\ slot' = 1
        /\ zct' = zct
    BY <1>4 DEF ScanEpochObject
  <2>2. ZctUnique' /\ IndicesOK'
    <3>1. \A t \in Threads : Entries(t)' = Entries(t)
      BY <1>1, <2>1, EntriesSame
    <3>2. \A x \in Addr : lifecycle'[x] = "InZct" <=> lifecycle[x] = "InZct"
      BY <1>1, <1>2, <2>1 DEF ObjTypeOK
    <3>3. ZctUnique'
      BY <1>2, <2>1, <3>1, <3>2, ZctFrame DEF ObjInv
    <3> QED BY <1>1, <2>1, <3>3 DEF ObjInv, IndicesOK
  <2> QED BY <1>1, <1>4, <2>1, <2>2, TakeVictim DEF ObjInv
<1> QED BY <1>3, <1>4

-----------------------------------------------------------------------------
(* The invariant of the specification.                                     *)

\* The initial state.
LEMMA ObjInit == Init => ObjInv
<1> SUFFICES ASSUME Init PROVE ObjInv
  OBVIOUS
<1>1. /\ refcount = [o \in Addr |-> 0] /\ lifecycle = [o \in Addr |-> "Dead"] /\ valid = {}
      /\ cell = [c \in Cells |-> NotPresent] /\ stack = {} /\ live = {} /\ acc = NotPresent
      /\ requested = FireEverySafepoint /\ zct = [t \in Threads |-> <<>>]
      /\ phase = "run" /\ cur = MainThread /\ roots = {} /\ scan = 0 /\ keep = 0
      /\ victim = NotPresent /\ slot = 1
  BY DEF Init
<1>2. ObjTypeOK
  BY <1>1, ConstantsAssumption, EmptySeq DEF ObjTypeOK, Value
<1>3. RefcountExact /\ NoDanglingCell /\ BorrowedAlive /\ RootsCover /\ VictimUnheld /\ IndicesOK
  BY <1>1 DEF RefcountExact, NoDanglingCell, BorrowedAlive, RootsCover, VictimUnheld,
              IndicesOK, Readable, Running
<1>4. LifecycleOK /\ DeadCellsEmpty
  BY <1>1, DisjointAssumption DEF LifecycleOK, DeadCellsEmpty, Cells
<1>5. \A t \in Threads : Entries(t) = {}
  BY <1>1 DEF Entries
<1>6. ZctUnique
  BY <1>1, <1>5 DEF ZctUnique
<1> QED BY <1>2, <1>3, <1>4, <1>6 DEF ObjInv

\* Every step keeps the invariant.
LEMMA IInvStep ==
  ASSUME IInv, [Next]_vars
  PROVE  IInv'
<1>0. /\ SlabInv /\ ObjInv /\ cur \in Threads /\ requested \in BOOLEAN
      /\ phase \in {"run", "zct", "epoch", "release"} /\ pending \subseteq Threads
  BY DEF IInv, SlabInv, SlabTypeOK, ObjInv, ObjTypeOK
<1>1. SlabInv'
  <2>1. victim # NotPresent => victim \in valid
    BY <1>0 DEF ObjInv, ObjTypeOK, LifecycleOK, Value
  <2> QED BY <1>0, <2>1, SlabStep
<1>2. ObjInv'
  <2>1. CASE UNCHANGED vars
    BY <1>0, <2>1, ObjFrame DEF vars, gcVars
  <2>2. CASE Allocate
    BY <2>2, ObjAllocate
  <2>3. CASE ThreadStep
    <3>1. ASSUME NEW t \in Threads, NEW s \in Slabs,
                 MakeNewThread(t, s) \/ SwitchToNewSlabs(t, s)
          PROVE  ObjInv'
      BY <1>0, <3>1, ObjFrame DEF MakeNewThread, SwitchToNewSlabs, gcVars
    <3>2. ASSUME NEW t \in Threads, AdoptReclamationState(t)
          PROVE  ObjInv'
      BY <1>0, <3>2, ObjAdopt
    <3> QED BY <2>3, <3>1, <3>2 DEF ThreadStep
  <2>4. CASE Mutate
    BY <1>0, <2>4, ObjMutate
  <2>5. CASE RequestSafepoint
    BY <1>0, <2>5, ObjFrame DEF RequestSafepoint, gcVars
  <2>6. CASE Safepoint
    BY <1>0, <2>6, ObjSafepoint
  <2>7. CASE Reclaim
    <3>1. CASE ProcessZctEntry BY <1>0, <3>1, ObjProcessZctEntry
    <3>2. CASE ResizeZct BY <1>0, <3>2, ObjResizeZct
    <3>3. CASE ReleaseSlot BY <1>0, <3>3, ObjReleaseSlot
    <3>4. CASE FinishReclaimObject BY <1>0, <3>4, ObjFinishReclaim
    <3>5. CASE \E o \in Addr : ScanEpochObject(o) BY <1>0, <3>5, ObjScanEpoch
    <3>6. CASE FinishReclamationEpoch
      BY <1>0, <3>6, ObjFrame DEF FinishReclamationEpoch
    <3>7. CASE \E s \in Slabs : ReleaseSlabIfEmpty(s)
      BY <1>0, <3>7, ObjFrame DEF ReleaseSlabIfEmpty
    <3>8. CASE \E t \in Threads : ProcessNextThread(t)
      BY <1>0, <3>8, ObjFrame DEF ProcessNextThread
    <3>9. CASE CompleteSafepoint
      <4>1. /\ phase = "release" /\ phase' = "run" /\ roots' = {} /\ cur' = cur
            /\ requested' \in BOOLEAN
            /\ UNCHANGED <<objVars, frameVars, zct, scan, keep, victim, slot>>
        BY <3>9, ConstantsAssumption DEF CompleteSafepoint
      <4>2. victim = NotPresent
        BY <1>0, <4>1 DEF ObjInv, VictimUnheld
      <4>3. /\ ObjTypeOK' /\ RefcountExact' /\ NoDanglingCell' /\ LifecycleOK'
            /\ DeadCellsEmpty' /\ BorrowedAlive'
        BY <1>0, <4>1 DEF ObjInv, ObjTypeOK, RefcountExact, NoDanglingCell, LifecycleOK,
                          DeadCellsEmpty, BorrowedAlive, Readable, RefsTo, objVars, frameVars
      <4>4. RootsCover' /\ VictimUnheld' /\ IndicesOK'
        BY <1>0, <4>1, <4>2 DEF ObjInv, RootsCover, VictimUnheld, IndicesOK, Running
      <4>5. ZctUnique'
        <5>1. \A t \in Threads : Entries(t)' = Entries(t)
          BY <1>0, <4>1 DEF Entries
        <5> QED BY <1>0, <4>1, <5>1, ZctFrame DEF ObjInv, objVars
      <4> QED BY <4>3, <4>4, <4>5 DEF ObjInv
    <3> QED BY <2>7, <3>1, <3>2, <3>3, <3>4, <3>5, <3>6, <3>7, <3>8, <3>9 DEF Reclaim
  <2> QED BY <2>1, <2>2, <2>3, <2>4, <2>5, <2>6, <2>7 DEF Next
<1> QED BY <1>1, <1>2 DEF IInv

\* The inductive invariant holds in every behaviour of the specification.
THEOREM InductiveInvariant == Spec => []IInv
<1>1. Init => IInv
  BY SlabInit, ObjInit DEF IInv
<1>2. IInv /\ [Next]_vars => IInv'
  BY IInvStep
<1> QED BY <1>1, <1>2, PTL DEF Spec

-----------------------------------------------------------------------------
(* The properties.                                                         *)

\* Types hold throughout; in particular no count and no pin ever goes below
\* zero.
THEOREM TypeCorrect == Spec => []TypeOK
<1>1. IInv => TypeOK
  BY DEF IInv, SlabInv, SlabTypeOK, BumpBounds, ObjInv, ObjTypeOK, IndicesOK, TypeOK
<1> QED BY <1>1, InductiveInvariant, PTL

\* The count in a header is the number of owned cells that hold the object.
THEOREM CountsAreExact == Spec => []RefcountExact
<1>1. IInv => RefcountExact
  BY DEF IInv, ObjInv
<1> QED BY <1>1, InductiveInvariant, PTL

\* No cell holds a reclaimed object, and nothing the program borrows is
\* reclaimed.
THEOREM NothingDangles == Spec => [](NoDanglingCell /\ BorrowedAlive)
<1>1. IInv => NoDanglingCell /\ BorrowedAlive
  BY DEF IInv, ObjInv
<1> QED BY <1>1, InductiveInvariant, PTL

\* An object is InZct exactly when it is one entry of one table.
THEOREM TablesAreExact == Spec => []ZctUnique
<1>1. IInv => ZctUnique
  BY DEF IInv, ObjInv
<1> QED BY <1>1, InductiveInvariant, PTL

\* Pins are exact, and a slab that was released is used by nobody.
THEOREM SlabsAreExact == Spec => [](PinsExact /\ ReleasedSlabsUnused)
<1>1. IInv => PinsExact /\ ReleasedSlabsUnused
  BY DEF IInv, SlabInv
<1> QED BY <1>1, InductiveInvariant, PTL

\* A slab that nobody pins, no epoch holds and no object lies in goes back.
THEOREM EmptySlabsGoBack == Spec => []EmptySlabsReleased
<1>1. IInv => EmptySlabsReleased
  BY DEF IInv, SlabInv
<1> QED BY <1>1, InductiveInvariant, PTL

-----------------------------------------------------------------------------
(* No object is missed by every reclamation.                               *)

\* A step that leaves counts, headers and valid bits alone and takes no slab
\* out of the epochs.
LEMMA DiscoverableFrame ==
  ASSUME ZeroCountDiscoverable, UNCHANGED <<refcount, lifecycle, valid>>,
         \A t \in Registered : \E u \in Registered' : epoch[t] \subseteq epoch'[u]
  PROVE  ZeroCountDiscoverable'
BY DEF ZeroCountDiscoverable

\* One reference fewer: an object whose count has become zero was queued.
LEMMA DiscoverableRelease ==
  ASSUME ObjInv, ZeroCountDiscoverable, NEW c \in Cells, NEW v \in Value,
         NEW old, old = cell[c], NEW t \in Threads,
         refcount' = Decref(Incref(refcount, v), old),
         AddToZeroCountTableIfNeeded(t, old, Decref(Incref(refcount, v), old)),
         UNCHANGED <<valid, epoch, local>>
  PROVE  ZeroCountDiscoverable'
<1>1. /\ refcount \in [Addr -> Nat] /\ cell \in [Cells -> Value] /\ valid \subseteq Addr
      /\ lifecycle \in [Addr -> {"Normal", "InZct", "Reclaiming", "Dead"}]
      /\ NotPresent \notin Addr
  BY DisjointAssumption DEF ObjInv, ObjTypeOK
<1>2. old \in Value /\ (old # NotPresent => refcount[old] > 0)
  BY <1>1, HeldCounted
<1>3. \A o \in Addr : refcount'[o] = (refcount[o] + One(o, v)) - One(o, old)
  BY <1>1, <1>2, CountsWrite
<1> SUFFICES ASSUME NEW o \in valid, refcount'[o] = 0, lifecycle'[o] = "Normal"
             PROVE  \E u \in Registered' : SlabOf(o) \in epoch'[u]
  BY DEF ZeroCountDiscoverable
<1>4. o # old
  <2>1. CASE o = old
    <3>1. old # NotPresent /\ Decref(Incref(refcount, v), old)[old] = 0
      BY <2>1, <1>1
    <3>2. lifecycle'[old] = "InZct"
      BY <3>1, <2>1, <1>1 DEF AddToZeroCountTableIfNeeded
    <3> QED BY <2>1, <3>2
  <2> QED BY <2>1
<1>5. refcount[o] = 0
  <2>1. refcount'[o] = refcount[o] + One(o, v) /\ refcount[o] \in Nat
    BY <1>1, <1>3, <1>4 DEF One
  <2> QED BY <2>1 DEF One
<1>6. lifecycle[o] = "Normal"
  BY <1>1, <1>4 DEF AddToZeroCountTableIfNeeded
<1> QED BY <1>5, <1>6 DEF ZeroCountDiscoverable, Registered

\* No step loses sight of a zero-count object.
LEMMA DiscoverableStep ==
  ASSUME IInv, ZeroCountDiscoverable, [Next]_vars
  PROVE  ZeroCountDiscoverable'
<1>0. /\ SlabInv /\ ObjInv /\ cur \in Threads /\ NoSlab \notin Slabs
      /\ epoch \in [Threads -> SUBSET Slabs]
      /\ local \in [Threads -> OrdinarySlabs \cup {NoSlab}]
      /\ lifecycle \in [Addr -> {"Normal", "InZct", "Reclaiming", "Dead"}]
      /\ refcount \in [Addr -> Nat] /\ valid \subseteq Addr
  BY DisjointAssumption DEF IInv, SlabInv, SlabTypeOK, ObjInv, ObjTypeOK
<1>1. ASSUME UNCHANGED <<refcount, lifecycle, valid, epoch, local>>
      PROVE  ZeroCountDiscoverable'
  BY <1>1, DiscoverableFrame DEF Registered
\* A new object is in a slab its epoch lists.
<1>2. ASSUME NEW t \in Threads, NEW o, ConstructObject(o),
             o \in Addr, local'[t] # NoSlab, SlabOf(o) \in epoch'[t],
             \A u \in Registered : u \in Registered' /\ epoch[u] \subseteq epoch'[u]
      PROVE  ZeroCountDiscoverable'
  <2>1. t \in Registered'
    BY <1>2 DEF Registered
  <2> SUFFICES ASSUME NEW x \in valid', refcount'[x] = 0, lifecycle'[x] = "Normal"
               PROVE  \E u \in Registered' : SlabOf(x) \in epoch'[u]
    BY DEF ZeroCountDiscoverable
  <2>2. CASE x = o BY <2>1, <2>2, <1>2
  <2>3. CASE x # o
    <3>1. x \in valid /\ refcount[x] = 0 /\ lifecycle[x] = "Normal"
      BY <2>3, <1>0, <1>2 DEF ConstructObject
    <3> QED BY <3>1, <1>2 DEF ZeroCountDiscoverable
  <2> QED BY <2>2, <2>3
<1>3. CASE UNCHANGED vars
  BY <1>1, <1>3 DEF vars, objVars
<1>4. CASE Allocate
  <2>1. PICK t \in Threads :
          AllocateFast(t) \/ \E s \in Slabs : AllocateSlow(t, s) \/ AllocateLarge(t, s)
    BY <1>4 DEF Allocate
  <2>2. CASE AllocateFast(t)
    <3>0. PICK s, n : s = local[t] /\ n = bump[s] + 1
      OBVIOUS
    <3>1. /\ s # NoSlab /\ bump[s] < Capacity(s) /\ ConstructObject(<<s, n>>)
          /\ epoch' = epoch /\ local' = local
      BY <2>2, <3>0 DEF AllocateFast
    <3>2. s \in Slabs /\ bump[s] \in Nat /\ Capacity(s) \in Nat
      BY <1>0, <3>0, <3>1, ConstantsAssumption DEF SlabInv, SlabTypeOK, Slabs, Capacity
    <3>3. <<s, n>> \in Addr
      BY <1>0, <3>0, <3>1, <3>2, AllocateFresh
    <3>4. s \in epoch[t] /\ SlabOf(<<s, n>>) = s
      BY <1>0, <3>0, <3>1 DEF SlabInv, ThreadsUseSlabs, SlabOf
    <3> QED BY <3>0, <3>1, <3>3, <3>4, <1>2 DEF Registered
  <2>3. ASSUME NEW s \in Slabs, AllocateSlow(t, s)
        PROVE  ZeroCountDiscoverable'
    <3>0. PICK n : n = bump[s] + 1
      OBVIOUS
    <3>1. /\ TakesOrdinarySlab(s) /\ ConstructObject(<<s, n>>)
          /\ local' = [local EXCEPT ![t] = s] /\ epoch' = [epoch EXCEPT ![t] = @ \cup {s}]
      BY <2>3, <3>0 DEF AllocateSlow
    <3>2. n \in Nat /\ n <= Capacity(s)
      BY <1>0, <3>0, <3>1, TakeSlab, UnmappedUnused, ConstantsAssumption DEF Capacity
    <3>3. <<s, n>> \in Addr /\ SlabOf(<<s, n>>) = s
      BY <1>0, <3>0, <3>2, AllocateFresh DEF SlabOf
    <3>4. /\ local'[t] # NoSlab /\ s \in epoch'[t]
          /\ \A u \in Registered : u \in Registered' /\ epoch[u] \subseteq epoch'[u]
      BY <1>0, <3>1 DEF Registered
    <3> QED BY <3>1, <3>3, <3>4, <1>2
  <2>4. ASSUME NEW s \in Slabs, AllocateLarge(t, s)
        PROVE  ZeroCountDiscoverable'
    <3>1. /\ slabState[s] = "unmapped" /\ ConstructObject(<<s, 1>>) /\ local[t] # NoSlab
          /\ local' = local /\ epoch' = [epoch EXCEPT ![t] = @ \cup {s}]
      BY <2>4 DEF AllocateLarge
    <3>2. 1 = bump[s] + 1 /\ 1 <= Capacity(s)
      BY <1>0, <3>1, UnmappedUnused, ConstantsAssumption DEF Capacity
    <3>3. <<s, 1>> \in Addr /\ SlabOf(<<s, 1>>) = s
      BY <1>0, <3>2, AllocateFresh DEF SlabOf
    <3>4. /\ s \in epoch'[t]
          /\ \A u \in Registered : u \in Registered' /\ epoch[u] \subseteq epoch'[u]
      BY <1>0, <3>1 DEF Registered
    <3> QED BY <3>1, <3>3, <3>4, <1>2
  <2> QED BY <2>1, <2>2, <2>3, <2>4
<1>5. CASE ThreadStep
  <2>1. ASSUME NEW t \in Threads, NEW s \in Slabs, MakeNewThread(t, s) \/ SwitchToNewSlabs(t, s)
        PROVE  ZeroCountDiscoverable'
    <3>1. \A u \in Registered : u \in Registered' /\ epoch[u] \subseteq epoch'[u]
      BY <1>0, <2>1 DEF MakeNewThread, SwitchToNewSlabs, Registered
    <3> QED BY <2>1, <3>1, DiscoverableFrame DEF MakeNewThread, SwitchToNewSlabs, objVars
  <2>2. ASSUME NEW t \in Threads, AdoptReclamationState(t)
        PROVE  ZeroCountDiscoverable'
    <3>1. /\ t # MainThread /\ MainThread \in Threads
          /\ epoch' = [epoch EXCEPT ![MainThread] = @ \cup epoch[t], ![t] = {}]
          /\ local' = [local EXCEPT ![t] = NoSlab]
          /\ UNCHANGED <<refcount, lifecycle, valid>>
      BY <2>2, ConstantsAssumption DEF AdoptReclamationState, objVars
    <3>2. MainThread \in Registered' /\ epoch[t] \subseteq epoch'[MainThread]
      BY <1>0, <3>1 DEF SlabInv, ThreadsUseSlabs, Registered
    <3>3. \A u \in Registered : u # t => u \in Registered' /\ epoch[u] \subseteq epoch'[u]
      BY <1>0, <3>1 DEF Registered
    <3> QED BY <3>1, <3>2, <3>3, DiscoverableFrame
  <2> QED BY <1>5, <2>1, <2>2 DEF ThreadStep
<1>6. CASE Mutate
  <2>1. ASSUME NEW t \in Threads, NEW c \in Cells, NEW v \in Value, AssignMember(t, c, v)
        PROVE  ZeroCountDiscoverable'
    <3>0. PICK old : old = cell[c]
      OBVIOUS
    <3>1. /\ refcount' = Decref(Incref(refcount, v), old)
          /\ AddToZeroCountTableIfNeeded(t, old, Decref(Incref(refcount, v), old))
          /\ UNCHANGED <<valid, epoch, local>>
      BY <2>1, <3>0 DEF AssignMember
    <3> QED BY <1>0, <3>0, <3>1, DiscoverableRelease
  <2> QED BY <1>1, <1>6, <2>1
          DEF Mutate, StoreRegister, LoadRegister, LoadMember, LeaveRegisterDead,
              DropStackWord, ExposeStaleWord, objVars
<1>7. CASE RequestSafepoint
  BY <1>1, <1>7 DEF RequestSafepoint, objVars
<1>8. CASE Safepoint
  BY <1>1, <1>8 DEF Safepoint, SafepointAtEntry, SafepointAtReturn, BeginReclamation, objVars
<1>9. CASE Reclaim
  <2>1. CASE ProcessZctEntry
    <3>0. PICK o : o = zct[cur][scan + 1]
      OBVIOUS
    <3>1. o \in Addr
      BY <1>0, <2>1, <3>0, ScannedEntry DEF ProcessZctEntry
    <3>2. /\ \/ refcount[o] > 0
             \/ lifecycle' = lifecycle
             \/ lifecycle' = [lifecycle EXCEPT ![o] = "Reclaiming"]
          /\ \A x \in Addr : x # o => lifecycle'[x] = lifecycle[x]
          /\ UNCHANGED <<refcount, valid, epoch, local>>
      BY <1>0, <2>1, <3>0, <3>1 DEF ProcessZctEntry
    <3>3. \A x \in valid : refcount[x] = 0 /\ lifecycle'[x] = "Normal" => lifecycle[x] = "Normal"
      BY <1>0, <3>1, <3>2
    <3> QED BY <3>2, <3>3 DEF ZeroCountDiscoverable, Registered
  <2>2. CASE ResizeZct BY <1>1, <2>2 DEF ResizeZct, objVars
  <2>3. CASE ReleaseSlot
    <3>0. PICK c, v, child : c = <<victim, slot>> /\ v = NotPresent /\ child = cell[c]
      OBVIOUS
    <3>1. /\ refcount' = Decref(refcount, child)
          /\ AddToZeroCountTableIfNeeded(cur, child, Decref(refcount, child))
          /\ UNCHANGED <<valid, epoch, local>>
      BY <2>3, <3>0 DEF ReleaseSlot
    <3>2. c \in Cells /\ v \in Value /\ Incref(refcount, v) = refcount
      <4>1. victim \in Addr /\ slot \in SlotIndex
        BY <2>3, <1>0, ConstantsAssumption
        DEF ReleaseSlot, ObjInv, ObjTypeOK, Value, SlotIndex
      <4> QED BY <3>0, <4>1 DEF Cells, Value, Incref
    <3>3. PICK t \in Threads : t = cur
      BY <1>0
    <3>4. /\ refcount' = Decref(Incref(refcount, v), child)
          /\ AddToZeroCountTableIfNeeded(t, child, Decref(Incref(refcount, v), child))
      BY <3>1, <3>2, <3>3
    <3> QED BY <1>0, <3>0, <3>1, <3>2, <3>4, DiscoverableRelease
  <2>4. CASE FinishReclaimObject
    BY <1>0, <2>4 DEF FinishReclaimObject, ZeroCountDiscoverable, Registered, ObjInv, ObjTypeOK,
                      Value
  <2>5. CASE \E o \in Addr : ScanEpochObject(o)
    <3>1. PICK o \in Addr : ScanEpochObject(o)
      BY <2>5
    <3>2. /\ lifecycle'[o] # "Normal" /\ \A x \in Addr : x # o => lifecycle'[x] = lifecycle[x]
          /\ UNCHANGED <<refcount, valid, epoch, local>>
      BY <1>0, <3>1 DEF ScanEpochObject
    <3> QED BY <1>0, <3>2 DEF ZeroCountDiscoverable, Registered
  <2>6. CASE FinishReclamationEpoch
    <3>1. /\ \A o \in Addr : ~EpochCandidate(o)
          /\ epoch' = [epoch EXCEPT ![cur] = {local[cur]}]
          /\ UNCHANGED <<refcount, lifecycle, valid, local>>
      BY <2>6 DEF FinishReclamationEpoch, objVars
    <3>2. ASSUME NEW o \in valid, refcount[o] = 0, lifecycle[o] = "Normal"
          PROVE  \E u \in Registered' : SlabOf(o) \in epoch'[u]
      <4>1. PICK u \in Registered : SlabOf(o) \in epoch[u]
        BY <3>2 DEF ZeroCountDiscoverable
      <4>2. u # cur
        BY <1>0, <3>1, <3>2, <4>1 DEF EpochCandidate
      <4> QED BY <1>0, <3>1, <4>1, <4>2 DEF Registered
    <3> QED BY <3>1, <3>2 DEF ZeroCountDiscoverable
  <2>7. CASE \E s \in Slabs : ReleaseSlabIfEmpty(s)
    BY <1>1, <2>7 DEF ReleaseSlabIfEmpty, objVars
  <2>8. CASE (\E t \in Threads : ProcessNextThread(t)) \/ CompleteSafepoint
    BY <1>1, <2>8 DEF ProcessNextThread, CompleteSafepoint, objVars
  <2> QED BY <1>9, <2>1, <2>2, <2>3, <2>4, <2>5, <2>6, <2>7, <2>8 DEF Reclaim
<1> QED BY <1>3, <1>4, <1>5, <1>6, <1>7, <1>8, <1>9 DEF Next

\* No object with a zero count ever drops out of sight of the reclaimer.
THEOREM NothingIsMissed == Spec => []ZeroCountDiscoverable
<1>1. Init => ZeroCountDiscoverable
  BY DEF Init, ZeroCountDiscoverable
<1>2. IInv /\ ZeroCountDiscoverable /\ [Next]_vars => ZeroCountDiscoverable'
  BY DiscoverableStep
<1> QED BY <1>1, <1>2, InductiveInvariant, PTL DEF Spec

-----------------------------------------------------------------------------
(* Heap implements ManagedMemory.                                          *)

\* A step that leaves the objects and the cells alone and adds nothing to
\* what the program holds.
LEMMA RefineForget ==
  ASSUME UNCHANGED <<valid, cell>>, Readable' \subseteq Readable
  PROVE  Memory!Next
<1>1. Memory!Forget
  BY DEF Memory!Forget
<1> QED BY <1>1 DEF Memory!Next

\* A new object is placed at an address where no object lives.
LEMMA RefineNew ==
  ASSUME NEW o \in Addr \ valid, ConstructObject(o)
  PROVE  Memory!Next
<1>1. Memory!Cells = Cells
  BY DEF Memory!Cells, Cells
<1>2. Readable' \subseteq Readable \cup {o}
  BY DEF ConstructObject, Readable
<1>3. Memory!New(o)
  BY <1>1, <1>2 DEF Memory!New, ConstructObject
<1> QED BY <1>3 DEF Memory!Next

\* The victim of a reclamation is held by no cell and no borrower.
LEMMA VictimUnreferenced ==
  ASSUME ObjInv, victim # NotPresent
  PROVE  /\ victim \in Addr /\ victim \in valid
         /\ Memory!Unreferenced(victim)
<1>1. /\ victim \in Addr /\ phase # "run" /\ refcount[victim] = 0
      /\ victim \notin roots
  BY DEF ObjInv, ObjTypeOK, VictimUnheld, Value
<1>2. victim \in valid
  BY <1>1 DEF ObjInv, LifecycleOK
<1>3. victim \notin Readable
  BY <1>1 DEF ObjInv, RootsCover, Running
<1>4. \A c \in Cells : cell[c] # victim
  BY <1>1, <1>2, ZeroUnheld
<1> QED BY <1>1, <1>2, <1>3, <1>4 DEF Memory!Unreferenced, Memory!Cells, Cells

\* An allocation is one of the abstract memory.
LEMMA RefineAllocate ==
  ASSUME IInv, Allocate
  PROVE  Memory!Next
<1>0. SlabInv
  BY DEF IInv
<1>1. PICK t \in Threads :
        AllocateFast(t) \/ \E s \in Slabs : AllocateSlow(t, s) \/ AllocateLarge(t, s)
  BY DEF Allocate
<1>2. CASE AllocateFast(t)
  <2>0. PICK s, n : s = local[t] /\ n = bump[s] + 1
    OBVIOUS
  <2>1. s # NoSlab /\ bump[s] < Capacity(s) /\ ConstructObject(<<s, n>>)
    BY <1>2, <2>0 DEF AllocateFast
  <2>2. s \in Slabs /\ bump[s] \in Nat /\ Capacity(s) \in Nat
    BY <1>0, <2>0, <2>1, ConstantsAssumption DEF SlabInv, SlabTypeOK, Slabs, Capacity
  <2>3. <<s, n>> \in Addr \ valid
    BY <1>0, <2>0, <2>1, <2>2, AllocateFresh
  <2> QED BY <2>1, <2>3, RefineNew
<1>3. ASSUME NEW s \in Slabs, AllocateSlow(t, s)
      PROVE  Memory!Next
  <2>0. PICK n : n = bump[s] + 1
    OBVIOUS
  <2>1. TakesOrdinarySlab(s) /\ ConstructObject(<<s, n>>)
    BY <1>3, <2>0 DEF AllocateSlow
  <2>2. n \in Nat /\ n <= Capacity(s)
    BY <1>0, <2>0, <2>1, TakeSlab, UnmappedUnused, ConstantsAssumption DEF Capacity
  <2>3. <<s, n>> \in Addr \ valid
    BY <1>0, <2>0, <2>2, AllocateFresh
  <2> QED BY <2>1, <2>3, RefineNew
<1>4. ASSUME NEW s \in Slabs, AllocateLarge(t, s)
      PROVE  Memory!Next
  <2>1. slabState[s] = "unmapped" /\ ConstructObject(<<s, 1>>)
    BY <1>4 DEF AllocateLarge
  <2>2. 1 = bump[s] + 1 /\ 1 <= Capacity(s)
    BY <1>0, <2>1, UnmappedUnused, ConstantsAssumption DEF Capacity
  <2>3. <<s, 1>> \in Addr \ valid
    BY <1>0, <2>2, AllocateFresh
  <2> QED BY <2>1, <2>3, RefineNew
<1> QED BY <1>1, <1>2, <1>3, <1>4

\* Every step of the program and of the reclaimer is a step of managed
\* memory, or leaves it alone.
LEMMA RefineStep ==
  ASSUME IInv, [Next]_vars
  PROVE  Memory!Next \/ UNCHANGED <<valid, cell, Readable>>
<1>0. SlabInv /\ ObjInv /\ Memory!Cells = Cells /\ Memory!Accessible = AccessibleCells
  BY DEF IInv, Memory!Cells, Cells, Memory!Accessible, AccessibleCells
<1>1. CASE UNCHANGED vars
  BY <1>1 DEF vars, objVars, frameVars, Readable
<1>2. CASE Allocate
  BY <1>2, RefineAllocate
<1>3. CASE ThreadStep
  BY <1>3 DEF ThreadStep, MakeNewThread, SwitchToNewSlabs, AdoptReclamationState,
              objVars, frameVars, Readable
<1>4. CASE Mutate
  <2>1. ASSUME NEW c \in Cells, LoadMember(c) PROVE Memory!Next
    <3>1. Memory!Borrow(c)
      BY <2>1, <1>0 DEF LoadMember, Memory!Borrow, Readable, objVars
    <3> QED BY <3>1, <1>0 DEF Memory!Next
  <2>2. ASSUME NEW t \in Threads, NEW c \in Cells, NEW v \in Value, AssignMember(t, c, v)
        PROVE  Memory!Next
    <3>1. v \in Readable \cup {NotPresent} /\ Memory!Store(c, v)
      BY <2>2, <1>0 DEF AssignMember, Memory!Store, Readable, frameVars
    <3> QED BY <3>1, <1>0 DEF Memory!Next
  <2>3. CASE StoreRegister
    BY <2>3, RefineForget DEF StoreRegister, Readable, objVars
  <2>4. ASSUME NEW v \in Value, LoadRegister(v) PROVE Memory!Next
    BY <2>4, RefineForget DEF LoadRegister, Readable, objVars
  <2>5. ASSUME NEW o \in Addr, LeaveRegisterDead(o) \/ DropStackWord(o) \/ ExposeStaleWord(o)
        PROVE  Memory!Next
    BY <2>5, RefineForget
       DEF LeaveRegisterDead, DropStackWord, ExposeStaleWord, Readable, objVars
  <2> QED BY <1>4, <2>1, <2>2, <2>3, <2>4, <2>5 DEF Mutate
<1>5. CASE RequestSafepoint
  BY <1>5 DEF RequestSafepoint, objVars, frameVars, Readable
<1>6. CASE Safepoint
  <2>1. UNCHANGED <<valid, cell, live>> /\ acc' \in {acc, NotPresent}
    BY <1>6 DEF Safepoint, SafepointAtEntry, SafepointAtReturn, BeginReclamation, objVars
  <2> QED BY <2>1, RefineForget DEF Readable
<1>7. CASE Reclaim
  <2>1. CASE ReleaseSlot
    <3>1. /\ victim # NotPresent /\ slot \in SlotIndex
          /\ cell' = [cell EXCEPT ![<<victim, slot>>] = NotPresent]
          /\ UNCHANGED <<valid, frameVars>>
      BY <2>1, <1>0, ConstantsAssumption DEF ReleaseSlot, ObjInv, ObjTypeOK, SlotIndex
    <3>2. Memory!Empty(victim, slot)
      BY <3>1, <1>0, VictimUnreferenced DEF Memory!Empty, frameVars, Readable
    <3> QED BY <3>1, <3>2, <1>0, VictimUnreferenced DEF Memory!Next
  <2>2. CASE FinishReclaimObject
    <3>1. /\ victim # NotPresent /\ slot = SlotCount + 1
          /\ valid' = valid \ {victim} /\ UNCHANGED <<cell, frameVars>>
      BY <2>2 DEF FinishReclaimObject
    <3>2. \A i \in SlotIndex : cell[<<victim, i>>] = NotPresent
      BY <3>1, <1>0, ConstantsAssumption DEF ObjInv, VictimUnheld, SlotIndex
    <3>3. Memory!Destroy(victim)
      BY <3>1, <3>2, <1>0, VictimUnreferenced DEF Memory!Destroy, frameVars, Readable
    <3> QED BY <3>1, <3>3, <1>0, VictimUnreferenced DEF Memory!Next
  <2>3. CASE ~ReleaseSlot /\ ~FinishReclaimObject
    BY <1>7, <2>3
       DEF Reclaim, ProcessZctEntry, ResizeZct, ScanEpochObject, FinishReclamationEpoch,
           ReleaseSlabIfEmpty, ProcessNextThread, CompleteSafepoint, objVars, frameVars, Readable
  <2> QED BY <2>1, <2>2, <2>3
<1> QED BY <1>1, <1>2, <1>3, <1>4, <1>5, <1>6, <1>7 DEF Next

\* Deferred counting with safepoint reclamation implements managed memory:
\* nothing that is held, counted or not, is ever reclaimed or handed out
\* again.
THEOREM Refinement == Spec => ImplementsManagedMemory
<1>1. Init => Memory!Init
  BY DEF Init, Memory!Init, Memory!Cells, Cells, Readable
<1>2. IInv /\ [Next]_vars => [Memory!Next]_<<valid, cell, Readable>>
  BY RefineStep
<1> QED BY <1>1, <1>2, InductiveInvariant, PTL DEF Spec, ImplementsManagedMemory, Memory!Spec

=============================================================================
