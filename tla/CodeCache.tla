----------------------------- MODULE CodeCache -----------------------------
(***************************************************************************)
(* Placement and publication of machine code.  A slab of whole pages holds *)
(* code units growing up from its start and constant pools growing down    *)
(* from its end.  A unit is proposed with a pessimistic code size, then    *)
(* committed with its final size, written, and published or abandoned.     *)
(* The platform below is either the standard mmap backend (pages become    *)
(* read-execute one by one) or the packed MAP_JIT backend (a per-thread    *)
(* write switch; pages that hold pools are replaced by ordinary ones).     *)
(* Sizes and offsets are in abstract bytes.                                *)
(***************************************************************************)
EXTENDS Integers, Sequences, FiniteSets, SequencesExt

CONSTANTS
  PageSize,                \* of the platform
  PackedGranularity,       \* packing of code units on the MAP_JIT backend
  StandardSlabSize,
  Spans,                   \* architectural reach of the pool modes: near, far
  CodeSizes, PoolSizes, PoolAlignments,   \* what compilations ask for
  MaxSlabs, MaxUnits,      \* bounds on a behaviour
  NoProposal

ASSUME CodeCacheConstants ==
  /\ {PageSize, PackedGranularity, StandardSlabSize, MaxSlabs, MaxUnits} \subseteq Nat \ {0}
  /\ PageSize % PackedGranularity = 0 /\ StandardSlabSize % PageSize = 0
  /\ \A a \in PoolAlignments : a \in Nat \ {0} /\ PageSize % a = 0
  /\ CodeSizes \subseteq Nat \ {0} /\ PoolSizes \subseteq Nat
  /\ Spans \subseteq Nat /\ \A s \in Spans : StandardSlabSize <= s
  /\ NoProposal \notin [slab : Nat, code : Nat, size : Nat, pool : Nat, poolSize : Nat, span : Nat]

VARIABLES
  packed,       \* MAP_JIT backend rather than the standard one
  slabs,        \* slabs_, each with its frontiers and page states
  units,        \* code units whose space was committed
  proposal,     \* the placement the emitter works with, or NoProposal
  jitWriteDepth \* MAP_JIT: open writable scopes of the thread

cacheVars == <<packed, slabs, units, proposal, jitWriteDepth>>

Granularity == IF packed THEN PackedGranularity ELSE PageSize

AlignDown(v, a) == v - (v % a)
AlignUp(v, a) == AlignDown(v + a - 1, a)
AlignedPoolOffset(frontier, size, alignment) ==
  IF size = 0 THEN frontier ELSE AlignDown(frontier - size, alignment)

\* The start offsets of the pages that the bytes from .. to - 1 touch.
Pages(from, to) ==
  {p \in 0 .. to : from < to /\ p % PageSize = 0 /\ p + PageSize > from /\ p < to}

CacheInit ==
  /\ packed \in BOOLEAN
  /\ slabs = <<>> /\ units = <<>> /\ proposal = NoProposal /\ jitWriteDepth = 0
-----------------------------------------------------------------------------
MinimumSlabSize(code, pool) ==
  AlignUp(AlignUp(code, Granularity), PageSize) + AlignUp(pool, PageSize)

FitsWithinSpan(code, pool, span) == pool = 0 \/ MinimumSlabSize(code, pool) <= span

\* Mutant: code may reach into the page of the lowest pool.
ReservationFitsToPool(s, reserved, pool, alignment) ==
  /\ reserved <= s.size - s.codeFrontier
  /\ pool <= s.poolFrontier
  /\ s.codeFrontier + reserved <= AlignedPoolOffset(s.poolFrontier, pool, alignment)

\* The whole reservation fits below the page that holds the lowest pool.
ReservationFits(s, reserved, pool, alignment) ==
  /\ reserved <= s.size - s.codeFrontier
  /\ pool <= s.poolFrontier
  /\ s.codeFrontier + reserved
       <= AlignDown(AlignedPoolOffset(s.poolFrontier, pool, alignment), PageSize)

CanPropose(s, reserved, pool, alignment) ==
  ~s.dedicated /\ ReservationFits(s, reserved, pool, alignment)

NewSlab(size, dedicated) ==
  [size |-> size, dedicated |-> dedicated, codeFrontier |-> 0, poolFrontier |-> size,
   executable |-> {}, jitPageFrontier |-> size, poolPageFrontier |-> size]

\* Where propose places a unit: the first standard slab with room, or a new
\* slab, dedicated to the unit when a standard one is too small.
UsesStandardSlab(code, pool) == MinimumSlabSize(code, pool) <= StandardSlabSize
FittingSlabs(code, pool, alignment) ==
  {i \in DOMAIN slabs : UsesStandardSlab(code, pool)
                        /\ CanPropose(slabs[i], AlignUp(code, Granularity), pool, alignment)}

Propose(code, pool, alignment, span) ==
  /\ proposal = NoProposal /\ Len(units) < MaxUnits
  /\ FitsWithinSpan(code, pool, span)
  /\ LET found == FittingSlabs(code, pool, alignment)
         i == IF found = {} THEN Len(slabs) + 1
              ELSE CHOOSE j \in found : \A k \in found : j <= k
     IN  /\ i <= MaxSlabs
         /\ slabs' = IF found # {} THEN slabs
                     ELSE Append(slabs, IF UsesStandardSlab(code, pool)
                                        THEN NewSlab(StandardSlabSize, FALSE)
                                        ELSE NewSlab(MinimumSlabSize(code, pool), TRUE))
         /\ proposal' = [slab |-> i, code |-> slabs'[i].codeFrontier, size |-> code,
                         pool |-> AlignedPoolOffset(slabs'[i].poolFrontier, pool, alignment),
                         poolSize |-> pool, span |-> span]
  /\ UNCHANGED <<packed, units, jitWriteDepth>>

\* The proposal is destroyed: no frontier has moved.
DropProposal ==
  /\ proposal # NoProposal
  /\ proposal' = NoProposal
  /\ UNCHANGED <<packed, slabs, units, jitWriteDepth>>

\* CodeCacheSlab::commit moves both frontiers before the platform commits.
Committed(encoded) == AlignUp(encoded, Granularity)
Advanced(encoded) ==
  [slabs[proposal.slab] EXCEPT !.codeFrontier = @ + Committed(encoded),
                               !.poolFrontier = proposal.pool]
Unit(encoded, state) ==
  [slab |-> proposal.slab, code |-> proposal.code, capacity |-> Committed(encoded),
   pool |-> proposal.pool, poolSize |-> proposal.poolSize, span |-> proposal.span,
   state |-> state]

Commit(encoded, slab, state) ==
  /\ slabs' = [slabs EXCEPT ![proposal.slab] = slab]
  /\ units' = Append(units, Unit(encoded, state))
  /\ jitWriteDepth' = IF packed /\ state = "open" THEN jitWriteDepth + 1 ELSE jitWriteDepth
  /\ proposal' = NoProposal
  /\ UNCHANGED packed

\* MapJitCodeSlab::commit has pages to take out of the MAP_JIT mapping.
MustUnmap(slab) ==
  packed /\ proposal.poolSize # 0 /\ AlignDown(proposal.pool, PageSize) < slab.jitPageFrontier

\* Those pages are gone, whether or not ordinary ones replace them.
Unmapped(slab) ==
  IF MustUnmap(slab)
  THEN [slab EXCEPT !.jitPageFrontier = AlignDown(proposal.pool, PageSize)] ELSE slab
MustMap(slab) ==
  packed /\ proposal.poolSize # 0 /\ slab.jitPageFrontier # slab.poolPageFrontier

\* The whole hole is mapped, also what an earlier failure left.
Mapped(slab) ==
  IF MustMap(slab) THEN [slab EXCEPT !.poolPageFrontier = slab.jitPageFrontier] ELSE slab

CommitSucceeds(encoded) ==
  /\ proposal # NoProposal /\ encoded <= proposal.size
  /\ Commit(encoded, Mapped(Unmapped(Advanced(encoded))), "open")

CommitUnmapFails(encoded) ==
  /\ proposal # NoProposal /\ encoded <= proposal.size
  /\ MustUnmap(Advanced(encoded))
  /\ Commit(encoded, Advanced(encoded), "lost")

CommitMapFails(encoded) ==
  /\ proposal # NoProposal /\ encoded <= proposal.size
  /\ MustMap(Unmapped(Advanced(encoded)))
  /\ Commit(encoded, Unmapped(Advanced(encoded)), "lost")
-----------------------------------------------------------------------------
EndCodeWrite(u, state) ==
  /\ units' = [units EXCEPT ![u].state = state]
  /\ jitWriteDepth' = IF packed THEN jitWriteDepth - 1 ELSE jitWriteDepth

\* ~CodeAllocation of an allocation that was not published.
Abandon(u) ==
  /\ units[u].state = "open"
  /\ EndCodeWrite(u, "lost")
  /\ UNCHANGED <<packed, slabs, proposal>>

\* The pages mprotect makes read-execute.
Protected(u) ==
  IF packed THEN {} ELSE Pages(units[u].code, units[u].code + units[u].capacity)

Publish(u) ==
  /\ units[u].state = "open"
  /\ EndCodeWrite(u, "published")
  /\ slabs' = [slabs EXCEPT ![units[u].slab].executable = @ \cup Protected(u)]
  /\ UNCHANGED <<packed, proposal>>

\* mprotect fails.
PublishFails(u) ==
  /\ ~packed
  /\ units[u].state = "open"
  /\ EndCodeWrite(u, "lost")
  /\ UNCHANGED <<packed, slabs, proposal>>

CacheNext ==
  \/ \E code \in CodeSizes, pool \in PoolSizes, alignment \in PoolAlignments, span \in Spans :
       Propose(code, pool, alignment, span)
  \/ DropProposal
  \/ \E encoded \in CodeSizes : CommitSucceeds(encoded)
  \/ \E encoded \in CodeSizes : CommitUnmapFails(encoded)
  \/ \E encoded \in CodeSizes : CommitMapFails(encoded)
  \/ \E u \in DOMAIN units : Abandon(u) \/ Publish(u) \/ PublishFails(u)

CacheSpec == CacheInit /\ [][CacheNext]_cacheVars
-----------------------------------------------------------------------------
CodePages(u) == Pages(units[u].code, units[u].code + units[u].capacity)
PoolPages(u) == Pages(units[u].pool, units[u].pool + units[u].poolSize)
SameSlab(u, v) == units[u].slab = units[v].slab
UnitsOverlap(a, n, b, m) == a < b + m /\ b < a + n

(* Code and pools never share a page, and no two units share a byte of     *)
(* either, whatever was dropped, abandoned or failed in between: a         *)
(* published unit is never overwritten by a later compilation.             *)
UnitsSeparate ==
  \A u, v \in DOMAIN units : SameSlab(u, v) =>
    /\ CodePages(u) \cap PoolPages(v) = {}
    /\ u # v =>
         /\ ~UnitsOverlap(units[u].code, units[u].capacity, units[v].code, units[v].capacity)
         /\ units[u].poolSize > 0 /\ units[v].poolSize > 0 =>
              ~UnitsOverlap(units[u].pool, units[u].poolSize, units[v].pool, units[v].poolSize)

\* What a page may be used for.
Executable(s, p) == IF packed THEN p + PageSize <= s.jitPageFrontier ELSE p \in s.executable
Writable(s, p) ==
  IF packed THEN p >= s.poolPageFrontier \/ (jitWriteDepth > 0 /\ p < s.jitPageFrontier)
  ELSE p \notin s.executable

(* A unit that is open can be written: its code pages are writable code    *)
(* pages that nothing made read-only.  A published unit can run.  The pool *)
(* of either lies in mapped, writable pages (the collector rewrites it),   *)
(* even after a commit that left a hole in the slab.                       *)
UnitsUsable ==
  \A u \in DOMAIN units : units[u].state # "lost" =>
    LET s == slabs[units[u].slab]
    IN  /\ \A p \in CodePages(u) :
             IF units[u].state = "open" THEN Writable(s, p) ELSE Executable(s, p)
        /\ \A p \in PoolPages(u) :
             (IF packed THEN p >= s.poolPageFrontier ELSE p \notin s.executable)

(* Once no allocation is open, code is protected from writes again.        *)
WriteProtectionRestored ==
  jitWriteDepth = IF packed THEN Cardinality({u \in DOMAIN units : units[u].state = "open"})
                  ELSE 0

(* Every byte of a unit's pool is within the reach of its loads.           *)
PoolInReach ==
  \A u \in DOMAIN units : units[u].poolSize > 0 =>
    units[u].pool + units[u].poolSize - units[u].code <= units[u].span

(* What a unit may rely on while it is emitted, published and run          *)
UnitsSound == UnitsSeparate /\ UnitsUsable /\ PoolInReach /\ WriteProtectionRestored
=============================================================================
