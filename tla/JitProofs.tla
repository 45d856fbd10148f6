------------------------------ MODULE JitProofs ------------------------------
(***************************************************************************)
(* What TLAPS proves of the compiler's back end, in two parts.             *)
(*                                                                         *)
(* The code cache: units of code stay apart, usable and within reach for   *)
(* any sizes of pages, slabs, code and pools.  The invariant orders what a *)
(* slab holds: code from its start up to codeFrontier, the pools from      *)
(* poolFrontier up to its end, and between them, on a page boundary,       *)
(* nothing.  Units are ordered by their commits, later code above and      *)
(* later pools below, and a proposal always starts at the frontiers,       *)
(* because nothing is committed while it is open.  On the MAP_JIT backend  *)
(* the two page frontiers lie between the code and the pools that may be   *)
(* used.                                                                   *)
(*                                                                         *)
(* The ordering engine of the parallel assignments is correct for any      *)
(* finite set of locations and any assignments.  The invariant relates the *)
(* two bookkeeping structures, the reader counts and the ready queue, to   *)
(* the pending assignments, and the pending and the emitted assignments to *)
(* the contents of the locations.  The step that breaks a cycle overwrites *)
(* the scratch location; that no assignment still reads it is a pigeonhole *)
(* argument, in NoReaderOfScratch.                                         *)
(***************************************************************************)
EXTENDS CodeCache, ParallelAssignment, ArithmeticLemmas, SequenceTheorems

SlabRecords ==
  [size : Nat, dedicated : BOOLEAN, codeFrontier : Nat, poolFrontier : Nat,
   executable : SUBSET Int, jitPageFrontier : Nat, poolPageFrontier : Nat]
UnitRecords ==
  [slab : Nat, code : Nat, capacity : Nat \ {0}, pool : Nat, poolSize : Nat, span : Nat,
   state : {"open", "published", "lost"}]
Proposals ==
  [slab : Nat, code : Nat, size : Nat \ {0}, pool : Nat, poolSize : Nat, span : Nat]

CacheTypeOK ==
  /\ packed \in BOOLEAN
  /\ slabs \in Seq(SlabRecords)
  /\ units \in Seq(UnitRecords) /\ \A u \in DOMAIN units : units[u].slab \in DOMAIN slabs
  /\ proposal \in Proposals \cup {NoProposal}
  /\ proposal # NoProposal => proposal.slab \in DOMAIN slabs
  /\ jitWriteDepth \in Nat

\* Code ends below the page of the lowest pool; the pages that are, or were,
\* taken from the MAP_JIT mapping begin at that page or above it.
SlabOK(s) ==
  /\ ~s.dedicated => s.size = StandardSlabSize
  /\ Multiple(s.size, PageSize) /\ Multiple(s.jitPageFrontier, PageSize)
  /\ Multiple(s.codeFrontier, Granularity)
  /\ s.codeFrontier <= AlignDown(s.poolFrontier, PageSize) /\ s.poolFrontier <= s.size
  /\ AlignDown(s.poolFrontier, PageSize) <= s.jitPageFrontier
  /\ s.jitPageFrontier <= s.poolPageFrontier
  /\ \A p \in s.executable : p < s.codeFrontier

\* A unit lies between the frontiers and the ends of its slab, which is within
\* the reach of its loads; its pool was given ordinary pages.
UnitOK(unit, s) ==
  /\ Multiple(unit.code, Granularity) /\ Multiple(unit.capacity, Granularity)
  /\ unit.code + unit.capacity <= s.codeFrontier
  /\ s.poolFrontier <= unit.pool /\ unit.pool + unit.poolSize <= s.size
  /\ unit.poolSize > 0 => s.size <= unit.span
  /\ packed /\ unit.state # "lost" /\ unit.poolSize > 0
       => s.poolPageFrontier <= AlignDown(unit.pool, PageSize)

InCommitOrder ==
  \A u, v \in DOMAIN units : u < v /\ SameSlab(u, v) =>
    /\ units[u].code + units[u].capacity <= units[v].code
    /\ units[v].pool + units[v].poolSize <= units[u].pool

\* Publication protects exactly the pages of published units.
ProtectionExact ==
  ~packed => \A u \in DOMAIN units :
    /\ units[u].state = "published" => CodePages(u) \subseteq slabs[units[u].slab].executable
    /\ units[u].state = "open" => CodePages(u) \cap slabs[units[u].slab].executable = {}

\* The proposal starts at the frontiers and fits between them.
ProposalOK(p, s) ==
  /\ p.code = s.codeFrontier
  /\ s.codeFrontier + AlignUp(p.size, Granularity) <= AlignDown(p.pool, PageSize)
  /\ p.pool + p.poolSize <= s.poolFrontier
  /\ p.poolSize > 0 => s.size <= p.span

CacheInv ==
  /\ CacheTypeOK
  /\ \A i \in DOMAIN slabs : SlabOK(slabs[i])
  /\ \A u \in DOMAIN units : UnitOK(units[u], slabs[units[u].slab])
  /\ InCommitOrder
  /\ ProtectionExact
  /\ proposal # NoProposal => ProposalOK(proposal, slabs[proposal.slab])
  /\ WriteProtectionRestored
-----------------------------------------------------------------------------
(* Rounding, in the terms of the code cache.                               *)
LEMMA Down ==
  ASSUME NEW a \in Nat \ {0}, NEW v \in Int
  PROVE  /\ AlignDown(v, a) \in Int /\ Multiple(AlignDown(v, a), a)
         /\ AlignDown(v, a) <= v /\ v < AlignDown(v, a) + a
         /\ \A m \in Int : Multiple(m, a) /\ m <= v => m <= AlignDown(v, a)
         /\ v \in Nat => AlignDown(v, a) \in Nat
<1>1. /\ AlignDown(v, a) \in Int /\ Multiple(AlignDown(v, a), a)
      /\ AlignDown(v, a) <= v /\ v < AlignDown(v, a) + a
      /\ \A m \in Int : Multiple(m, a) /\ m <= v => m <= AlignDown(v, a)
  BY RoundedDown DEF AlignDown
<1>2. Multiple(0, a)
  BY DEF Multiple
<1>. QED BY <1>1, <1>2

\* AlignUp is the least multiple from v on.
LEMMA Up ==
  ASSUME NEW a \in Nat \ {0}, NEW v \in Int
  PROVE  /\ AlignUp(v, a) \in Int /\ Multiple(AlignUp(v, a), a)
         /\ v <= AlignUp(v, a)
         /\ \A m \in Int : Multiple(m, a) /\ v <= m => AlignUp(v, a) <= m
<1>1. AlignUp(v, a) = (v + a - 1) - ((v + a - 1) % a)
  BY DEF AlignUp, AlignDown
<1>. QED BY <1>1, RoundedUp

(* The larger the bound, the larger the multiple below it, and above it.   *)
LEMMA Monotone ==
  ASSUME NEW a \in Nat \ {0}, NEW v \in Int, NEW w \in Int, v <= w
  PROVE  AlignDown(v, a) <= AlignDown(w, a) /\ AlignUp(v, a) <= AlignUp(w, a)
<1>1. AlignDown(v, a) \in Int /\ Multiple(AlignDown(v, a), a) /\ AlignDown(v, a) <= w
  BY Down
<1>2. AlignUp(w, a) \in Int /\ Multiple(AlignUp(w, a), a) /\ v <= AlignUp(w, a)
  BY Up
<1>. QED BY <1>1, <1>2, Down, Up

(* What the constants say about the granularity of code.                   *)
LEMMA Granularities ==
  ASSUME packed \in BOOLEAN
  PROVE  /\ PageSize \in Nat \ {0} /\ Granularity \in Nat \ {0}
         /\ Multiple(PageSize, Granularity) /\ Multiple(PageSize, PageSize)
         /\ ~packed => Granularity = PageSize
         /\ StandardSlabSize \in Nat /\ Multiple(StandardSlabSize, PageSize)
<1>1. PageSize \in Nat \ {0} /\ PackedGranularity \in Nat \ {0} /\ StandardSlabSize \in Nat \ {0}
  BY CodeCacheConstants
<1>2. Multiple(PageSize, PackedGranularity) /\ Multiple(StandardSlabSize, PageSize)
  BY CodeCacheConstants DEF Multiple
<1>3. Multiple(PageSize * 1, PageSize) /\ PageSize * 1 = PageSize
  BY <1>1, ProductMultiple
<1>. QED BY <1>1, <1>2, <1>3 DEF Granularity

(* A page that bytes touch is below every page boundary after them and     *)
(* not below the page of the first.                                        *)
LEMMA PageBounds ==
  ASSUME PageSize \in Nat \ {0}, NEW from \in Nat, NEW to \in Nat, NEW p \in Pages(from, to)
  PROVE  /\ p \in Nat /\ Multiple(p, PageSize) /\ p < to /\ from < to
         /\ AlignDown(from, PageSize) <= p
         /\ \A f \in Int : Multiple(f, PageSize) /\ to <= f => p + PageSize <= f
<1>1. p \in Nat /\ Multiple(p, PageSize) /\ p < to /\ from < p + PageSize /\ from < to
  BY DEF Pages, Multiple
<1>2. AlignDown(from, PageSize) \in Int /\ AlignDown(from, PageSize) <= from
      /\ Multiple(AlignDown(from, PageSize), PageSize)
  BY Down
<1>3. AlignDown(from, PageSize) <= p
  <2>1. CASE p < AlignDown(from, PageSize)
    <3>1. p + PageSize <= AlignDown(from, PageSize)
      BY <2>1, <1>1, <1>2, MultipleGap
    <3>. QED BY <3>1, <1>1, <1>2
  <2>. QED BY <2>1, <1>1, <1>2
<1>4. ASSUME NEW f \in Int, Multiple(f, PageSize), to <= f
      PROVE  p + PageSize <= f
  <2>1. p < f
    BY <1>1, <1>4
  <2>. QED BY <2>1, <1>1, <1>4, MultipleGap
<1>. QED BY <1>1, <1>3, <1>4

(* The types of one slab and of one unit.                                  *)
LEMMA Parts ==
  ASSUME CacheTypeOK
  PROVE  /\ \A i \in DOMAIN slabs : slabs[i] \in SlabRecords
         /\ \A u \in DOMAIN units : units[u] \in UnitRecords /\ slabs[units[u].slab] \in SlabRecords
         /\ DOMAIN units = 1 .. Len(units) /\ Len(units) \in Nat
         /\ DOMAIN slabs = 1 .. Len(slabs) /\ Len(slabs) \in Nat
<1>1. /\ DOMAIN units = 1 .. Len(units) /\ Len(units) \in Nat
      /\ DOMAIN slabs = 1 .. Len(slabs) /\ Len(slabs) \in Nat
  BY LenProperties DEF CacheTypeOK
<1>2. \A i \in DOMAIN slabs : slabs[i] \in SlabRecords
  BY <1>1, ElementOfSeq DEF CacheTypeOK
<1>3. \A u \in DOMAIN units : units[u] \in UnitRecords
  BY <1>1, ElementOfSeq DEF CacheTypeOK
<1>. QED BY <1>1, <1>2, <1>3 DEF CacheTypeOK
-----------------------------------------------------------------------------
(* What the invariant says of the bytes of two units of a slab.            *)
LEMMA BelowPools ==
  ASSUME CacheInv, NEW u \in DOMAIN units, NEW v \in DOMAIN units, SameSlab(u, v)
  PROVE  /\ units[u].code + units[u].capacity <= AlignDown(units[v].pool, PageSize)
         /\ units[u].code + units[u].capacity <= slabs[units[v].slab].codeFrontier
         /\ slabs[units[v].slab].codeFrontier <= AlignDown(units[v].pool, PageSize)
<1>1. PICK s \in SlabRecords : s = slabs[units[v].slab]
  BY Parts DEF CacheInv
<1>2. units[u] \in UnitRecords /\ units[v] \in UnitRecords /\ PageSize \in Nat \ {0}
  BY Parts, Granularities DEF CacheInv, CacheTypeOK
<1>3. SlabOK(s) /\ UnitOK(units[u], s) /\ UnitOK(units[v], s)
  BY <1>1 DEF CacheInv, CacheTypeOK, SameSlab
<1>4. s.poolFrontier \in Int /\ units[v].pool \in Int /\ s.poolFrontier <= units[v].pool
  BY <1>1, <1>2, <1>3 DEF UnitOK, SlabRecords, UnitRecords
<1>5. AlignDown(s.poolFrontier, PageSize) <= AlignDown(units[v].pool, PageSize)
      /\ AlignDown(s.poolFrontier, PageSize) \in Int /\ AlignDown(units[v].pool, PageSize) \in Int
  BY <1>2, <1>4, Monotone, Down
<1>. QED BY <1>1, <1>2, <1>3, <1>5 DEF UnitOK, SlabOK, SlabRecords, UnitRecords

\* Units do not overlap.
LEMMA Separate == CacheInv => UnitsSeparate
<1> SUFFICES ASSUME CacheInv, NEW u \in DOMAIN units, NEW v \in DOMAIN units, SameSlab(u, v)
             PROVE  /\ CodePages(u) \cap PoolPages(v) = {}
                    /\ u # v =>
                       /\ ~UnitsOverlap(units[u].code, units[u].capacity, units[v].code, units[v].capacity)
                       /\ units[u].poolSize > 0 /\ units[v].poolSize > 0 =>
                            ~UnitsOverlap(units[u].pool, units[u].poolSize, units[v].pool, units[v].poolSize)
  BY DEF UnitsSeparate
<1>1. units[u] \in UnitRecords /\ units[v] \in UnitRecords /\ PageSize \in Nat \ {0} /\ u \in Nat /\ v \in Nat
  BY Parts, Granularities DEF CacheInv, CacheTypeOK
<1>2. ASSUME NEW p \in CodePages(u), p \in PoolPages(v)
      PROVE  FALSE
  <2>1. p \in Nat /\ p < units[u].code + units[u].capacity
    BY <1>1, PageBounds DEF CodePages, UnitRecords
  <2>2. AlignDown(units[v].pool, PageSize) <= p
    BY <1>1, <1>2, PageBounds, SMTT(40) DEF PoolPages, UnitRecords
  <2>3. AlignDown(units[v].pool, PageSize) \in Int
    BY <1>1, Down DEF UnitRecords
  <2>4. units[u].code + units[u].capacity <= AlignDown(units[v].pool, PageSize)
    BY BelowPools
  <2>. QED BY <1>1, <2>1, <2>2, <2>3, <2>4 DEF UnitRecords
<1>3. /\ units[u].code \in Nat /\ units[u].capacity \in Nat /\ units[u].pool \in Nat
      /\ units[u].poolSize \in Nat /\ units[v].code \in Nat /\ units[v].capacity \in Nat
      /\ units[v].pool \in Nat /\ units[v].poolSize \in Nat
  BY <1>1 DEF UnitRecords
<1>4. ASSUME u # v
      PROVE  /\ ~UnitsOverlap(units[u].code, units[u].capacity, units[v].code, units[v].capacity)
             /\ ~UnitsOverlap(units[u].pool, units[u].poolSize, units[v].pool, units[v].poolSize)
  <2>1. CASE u < v
    <3>1. /\ units[u].code + units[u].capacity <= units[v].code
          /\ units[v].pool + units[v].poolSize <= units[u].pool
      BY <2>1 DEF CacheInv, InCommitOrder
    <3>. QED BY <3>1, <1>3 DEF UnitsOverlap
  <2>2. CASE v < u
    <3>1. SameSlab(v, u)
      BY DEF SameSlab
    <3>2. /\ units[v].code + units[v].capacity <= units[u].code
          /\ units[u].pool + units[u].poolSize <= units[v].pool
      BY <2>2, <3>1 DEF CacheInv, InCommitOrder
    <3>. QED BY <3>2, <1>3 DEF UnitsOverlap
  <2>. QED BY <2>1, <2>2, <1>1, <1>4
<1>. QED BY <1>2, <1>4

(* The open units can be counted.                                          *)
Open == {u \in DOMAIN units : units[u].state = "open"}

\* Open units can be counted.
LEMMA OpenFinite ==
  ASSUME CacheTypeOK
  PROVE  IsFiniteSet(DOMAIN units) /\ IsFiniteSet(Open) /\ Cardinality(Open) \in Nat
         /\ (Cardinality(Open) = 0 <=> Open = {})
<1>1. IsFiniteSet(DOMAIN units)
  BY Parts, FS_Interval
<1>2. IsFiniteSet(Open)
  BY <1>1, FS_Subset DEF Open
<1>. QED BY <1>1, <1>2, FS_CardinalityType, FS_EmptySet

\* Published units are mapped and executable.
LEMMA Usable == CacheInv => UnitsUsable
<1> SUFFICES ASSUME CacheInv, NEW u \in DOMAIN units, units[u].state # "lost",
                    NEW s \in SlabRecords, s = slabs[units[u].slab]
             PROVE  /\ \A p \in CodePages(u) :
                         IF units[u].state = "open" THEN Writable(s, p) ELSE Executable(s, p)
                    /\ \A p \in PoolPages(u) :
                         (IF packed THEN p >= s.poolPageFrontier ELSE p \notin s.executable)
  BY Parts DEF UnitsUsable, CacheInv
<1>1. units[u] \in UnitRecords /\ PageSize \in Nat \ {0} /\ packed \in BOOLEAN
  BY Parts, Granularities DEF CacheInv, CacheTypeOK
<1>2. SlabOK(s) /\ UnitOK(units[u], s)
  BY DEF CacheInv, CacheTypeOK
<1>3. /\ s.codeFrontier <= AlignDown(units[u].pool, PageSize)
      /\ units[u].code + units[u].capacity <= s.jitPageFrontier
  <2>1. s.codeFrontier <= AlignDown(units[u].pool, PageSize)
    BY BelowPools DEF SameSlab
  <2>2. s.poolFrontier \in Int /\ AlignDown(s.poolFrontier, PageSize) \in Int
    BY <1>1, Down DEF SlabRecords
  <2>. QED BY <1>1, <1>2, <2>1, <2>2 DEF UnitOK, SlabOK, UnitRecords, SlabRecords
<1>4. ASSUME NEW p \in CodePages(u)
      PROVE  IF units[u].state = "open" THEN Writable(s, p) ELSE Executable(s, p)
  <2>1. /\ p \in Nat /\ p < units[u].code + units[u].capacity
        /\ units[u].code + units[u].capacity <= s.jitPageFrontier
    BY <1>1, <1>3, PageBounds DEF CodePages, UnitRecords
  <2>2. CASE packed /\ units[u].state = "open"
    <3>1. jitWriteDepth > 0
      <4>1. u \in Open
        BY <2>2 DEF Open
      <4>2. jitWriteDepth = Cardinality(Open)
        BY <2>2 DEF CacheInv, WriteProtectionRestored, Open
      <4>3. CacheTypeOK
        BY DEF CacheInv
      <4>4. Cardinality(Open) \in Nat /\ Cardinality(Open) # 0
        BY <4>1, <4>3, OpenFinite
      <4>. QED BY <4>2, <4>4
    <3>. QED BY <2>1, <2>2, <3>1, <1>1 DEF Writable, UnitRecords, SlabRecords
  <2>3. CASE packed /\ units[u].state # "open"
    <3>1. p + PageSize <= s.jitPageFrontier
      BY <1>1, <1>2, <2>1, PageBounds DEF CodePages, UnitRecords, SlabRecords, SlabOK
    <3>. QED BY <2>3, <3>1 DEF Executable
  <2>4. CASE ~packed
    BY <2>4, <1>1 DEF CacheInv, ProtectionExact, Writable, Executable, UnitRecords
  <2>. QED BY <2>2, <2>3, <2>4, <1>1
<1>5. ASSUME NEW p \in PoolPages(u)
      PROVE  IF packed THEN p >= s.poolPageFrontier ELSE p \notin s.executable
  <2>1. /\ p \in Nat /\ AlignDown(units[u].pool, PageSize) <= p /\ units[u].poolSize > 0
        /\ AlignDown(units[u].pool, PageSize) \in Int
    BY <1>1, PageBounds, Down DEF PoolPages, UnitRecords
  <2>2. CASE packed
    BY <1>1, <1>2, <2>1, <2>2 DEF UnitOK, SlabRecords, UnitRecords
  <2>3. CASE ~packed
    <3>1. \A q \in s.executable : q \in Int /\ q < s.codeFrontier
      BY <1>2 DEF SlabOK, SlabRecords
    <3>. QED BY <2>1, <2>3, <3>1, <1>1, <1>3 DEF SlabRecords
  <2>. QED BY <2>2, <2>3, <1>1
<1>. QED BY <1>4, <1>5

\* Code reaches its pool.
LEMMA InReach == CacheInv => PoolInReach
<1> SUFFICES ASSUME CacheInv, NEW u \in DOMAIN units, units[u].poolSize > 0,
                    NEW s \in SlabRecords, s = slabs[units[u].slab]
             PROVE  units[u].pool + units[u].poolSize - units[u].code <= units[u].span
  BY Parts DEF PoolInReach, CacheInv
<1>1. units[u] \in UnitRecords /\ UnitOK(units[u], s)
  BY Parts DEF CacheInv, CacheTypeOK
<1>. QED BY <1>1 DEF UnitOK, UnitRecords, SlabRecords
-----------------------------------------------------------------------------
(* Initially there is nothing.                                             *)
LEMMA InitCacheInv == CacheInit => CacheInv
<1> SUFFICES ASSUME CacheInit PROVE CacheInv
  OBVIOUS
<1>1. DOMAIN units = {} /\ DOMAIN slabs = {} /\ units = <<>> /\ slabs = <<>>
      /\ proposal = NoProposal /\ jitWriteDepth = 0 /\ packed \in BOOLEAN
  BY DEF CacheInit
<1>2. CacheTypeOK
  BY <1>1 DEF CacheTypeOK
<1>3. WriteProtectionRestored
  <2>1. {u \in DOMAIN units : units[u].state = "open"} = {}
    BY <1>1
  <2>. QED BY <1>1, <2>1, FS_EmptySet DEF WriteProtectionRestored
<1>. QED BY <1>1, <1>2, <1>3 DEF CacheInv, InCommitOrder, ProtectionExact

(* Where a unit with this much code and pool goes in a slab with room.     *)
LEMMA Placement ==
  ASSUME packed \in BOOLEAN, NEW s \in SlabRecords, NEW code \in Nat \ {0}, NEW pool \in Nat,
         NEW alignment \in PoolAlignments,
         ReservationFits(s, AlignUp(code, Granularity), pool, alignment)
  PROVE  /\ AlignedPoolOffset(s.poolFrontier, pool, alignment) \in Nat
         /\ AlignedPoolOffset(s.poolFrontier, pool, alignment) + pool <= s.poolFrontier
         /\ s.codeFrontier + AlignUp(code, Granularity)
              <= AlignDown(AlignedPoolOffset(s.poolFrontier, pool, alignment), PageSize)
<1>1. alignment \in Nat \ {0} /\ s.poolFrontier \in Nat /\ pool <= s.poolFrontier
  BY CodeCacheConstants DEF ReservationFits, SlabRecords
<1>2. PICK d \in Nat : d = s.poolFrontier - pool
  BY <1>1
<1>3. AlignDown(d, alignment) \in Nat /\ AlignDown(d, alignment) <= d
  <2>1. d \in Int
    OBVIOUS
  <2>. QED BY <1>1, <2>1, Down
<1>. QED BY <1>1, <1>2, <1>3 DEF ReservationFits, AlignedPoolOffset

(* A slab as large as the two rounded parts has room for both: the pages   *)
(* of the pool end on a boundary that every pool alignment divides.        *)
LEMMA NewSlabFits ==
  ASSUME packed \in BOOLEAN, NEW code \in Nat \ {0}, NEW pool \in Nat,
         NEW alignment \in PoolAlignments, NEW size \in Nat, Multiple(size, PageSize),
         MinimumSlabSize(code, pool) <= size, NEW dedicated \in BOOLEAN
  PROVE  ReservationFits(NewSlab(size, dedicated), AlignUp(code, Granularity), pool, alignment)
<1>. DEFINE reserved == AlignUp(code, Granularity)
            room == size - AlignUp(pool, PageSize)
            offset == AlignedPoolOffset(size, pool, alignment)
<1>1. alignment \in Nat \ {0} /\ Multiple(PageSize, alignment)
  BY CodeCacheConstants DEF Multiple
<1>2. /\ PageSize \in Nat \ {0} /\ Granularity \in Nat \ {0}
  BY Granularities
<1>. HIDE DEF reserved, offset
<1>3. /\ reserved \in Int /\ code <= reserved
      /\ AlignUp(reserved, PageSize) \in Int /\ reserved <= AlignUp(reserved, PageSize)
  <2>1. reserved \in Int /\ code <= reserved
    <3>1. code \in Int
      OBVIOUS
    <3>. QED BY <1>2, <3>1, Up DEF reserved
  <2>. QED BY <1>2, <2>1, Up
<1>4. AlignUp(pool, PageSize) \in Int /\ Multiple(AlignUp(pool, PageSize), PageSize)
      /\ pool <= AlignUp(pool, PageSize)
  <2>1. pool \in Int
    OBVIOUS
  <2>. QED BY <1>2, <2>1, Up
<1>5. MinimumSlabSize(code, pool) = AlignUp(reserved, PageSize) + AlignUp(pool, PageSize)
  BY DEF MinimumSlabSize, reserved
<1>6. room \in Int /\ Multiple(room, PageSize) /\ room <= size - pool /\ reserved <= room
  <2>1. Multiple(room, PageSize)
    BY <1>2, <1>4, MultipleSum
  <2>. QED BY <2>1, <1>3, <1>4, <1>5
<1>7. Multiple(room, alignment)
  BY <1>1, <1>2, <1>6, MultipleOfMultiple
<1>. HIDE DEF room
<1>8. offset \in Int /\ room <= offset
  <2>1. size - pool \in Int
    OBVIOUS
  <2>2. AlignDown(size - pool, alignment) \in Int /\ room <= AlignDown(size - pool, alignment)
    BY <1>1, <1>6, <1>7, <2>1, Down
  <2>. QED BY <2>2, <1>6 DEF offset, AlignedPoolOffset
<1>9. AlignDown(offset, PageSize) \in Int /\ room <= AlignDown(offset, PageSize)
  BY <1>2, <1>6, <1>8, Down
<1>10. /\ NewSlab(size, dedicated).size = size /\ NewSlab(size, dedicated).codeFrontier = 0
       /\ NewSlab(size, dedicated).poolFrontier = size
  BY DEF NewSlab
<1>. QED BY <1>3, <1>4, <1>6, <1>9, <1>10 DEF ReservationFits, reserved, offset

(* A new slab is in order.                                                 *)
LEMMA NewSlabOK ==
  ASSUME packed \in BOOLEAN, NEW size \in Nat, Multiple(size, PageSize), NEW dedicated \in BOOLEAN,
         ~dedicated => size = StandardSlabSize
  PROVE  NewSlab(size, dedicated) \in SlabRecords /\ SlabOK(NewSlab(size, dedicated))
<1>1. PageSize \in Nat \ {0} /\ Granularity \in Nat \ {0}
  BY Granularities
<1>2. /\ AlignDown(size, PageSize) \in Nat /\ AlignDown(size, PageSize) <= size
      /\ Multiple(0, Granularity)
  <2>1. size \in Int
    OBVIOUS
  <2>. QED BY <1>1, <2>1, Down DEF Multiple
<1>. QED BY <1>2 DEF NewSlab, SlabRecords, SlabOK

(* The sizes of the two kinds of slab: enough for the unit, whole pages,   *)
(* and within the span of its loads.                                       *)
LEMMA NewSlabSize ==
  ASSUME packed \in BOOLEAN, NEW code \in CodeSizes, NEW pool \in PoolSizes, NEW span \in Spans,
         FitsWithinSpan(code, pool, span)
  PROVE  /\ MinimumSlabSize(code, pool) \in Nat /\ Multiple(MinimumSlabSize(code, pool), PageSize)
         /\ pool > 0 => MinimumSlabSize(code, pool) <= span
<1>1. /\ PageSize \in Nat \ {0} /\ Granularity \in Nat \ {0}
      /\ code \in Int /\ code > 0 /\ pool \in Int /\ pool >= 0
  BY Granularities, CodeCacheConstants
<1>2. PICK r \in Int : r = AlignUp(code, Granularity) /\ code <= r
  BY <1>1, Up
<1>3. /\ AlignUp(r, PageSize) \in Int /\ Multiple(AlignUp(r, PageSize), PageSize) /\ r <= AlignUp(r, PageSize)
      /\ AlignUp(pool, PageSize) \in Int /\ Multiple(AlignUp(pool, PageSize), PageSize)
      /\ pool <= AlignUp(pool, PageSize)
  BY <1>1, Up
<1>4. MinimumSlabSize(code, pool) = AlignUp(r, PageSize) + AlignUp(pool, PageSize)
  BY <1>2 DEF MinimumSlabSize
<1>5. Multiple(AlignUp(r, PageSize) + AlignUp(pool, PageSize), PageSize)
  BY <1>1, <1>3, MultipleSum
<1>. QED BY <1>1, <1>2, <1>3, <1>4, <1>5 DEF FitsWithinSpan

(* Where a proposal lands: in a slab with room, in order, within reach.    *)
LEMMA ProposedSlab ==
  ASSUME CacheInv, NEW code \in CodeSizes, NEW pool \in PoolSizes,
         NEW alignment \in PoolAlignments, NEW span \in Spans,
         Propose(code, pool, alignment, span)
  PROVE  \E i \in DOMAIN slabs' :
           /\ slabs' \in Seq(SlabRecords)
           /\ \A j \in DOMAIN slabs : j \in DOMAIN slabs' /\ slabs'[j] = slabs[j]
           /\ \A j \in DOMAIN slabs' : SlabOK(slabs'[j])
           /\ ReservationFits(slabs'[i], AlignUp(code, Granularity), pool, alignment)
           /\ pool > 0 => slabs'[i].size <= span
           /\ proposal' = [slab |-> i, code |-> slabs'[i].codeFrontier, size |-> code,
                           pool |-> AlignedPoolOffset(slabs'[i].poolFrontier, pool, alignment),
                           poolSize |-> pool, span |-> span]
<1>. DEFINE found == FittingSlabs(code, pool, alignment)
<1>1. /\ packed \in BOOLEAN /\ slabs \in Seq(SlabRecords) /\ CacheTypeOK
      /\ \A j \in DOMAIN slabs : SlabOK(slabs[j])
  BY DEF CacheInv, CacheTypeOK
<1>2. /\ code \in Nat \ {0} /\ pool \in Nat /\ span \in Nat /\ StandardSlabSize <= span
      /\ StandardSlabSize \in Nat /\ Multiple(StandardSlabSize, PageSize)
  BY <1>1, Granularities, CodeCacheConstants
<1>3. CASE found # {}
  <2>1. /\ slabs' = slabs
        /\ proposal' =
             [slab |-> CHOOSE j \in found : \A k \in found : j <= k,
              code |-> slabs'[CHOOSE j \in found : \A k \in found : j <= k].codeFrontier, size |-> code,
              pool |-> AlignedPoolOffset(slabs'[CHOOSE j \in found : \A k \in found : j <= k].poolFrontier,
                                         pool, alignment),
              poolSize |-> pool, span |-> span]
    BY <1>3 DEF Propose
  <2>2. found \in SUBSET Nat
    BY <1>1, Parts DEF FittingSlabs
  <2>3. PICK i \in found : i = CHOOSE j \in found : \A k \in found : j <= k
    <3>. HIDE DEF found
    <3>1. \E j \in found : \A k \in found : j <= k
      BY <1>3, <2>2, LeastElement
    <3>. QED BY <3>1
  <2>4. /\ i \in DOMAIN slabs /\ slabs[i] \in SlabRecords /\ ~slabs[i].dedicated
        /\ ReservationFits(slabs[i], AlignUp(code, Granularity), pool, alignment)
    BY <1>1, Parts DEF FittingSlabs, CanPropose
  <2>5. slabs[i].size = StandardSlabSize
    BY <1>1, <2>4 DEF SlabOK
  <2>. QED BY <1>1, <1>2, <2>1, <2>3, <2>4, <2>5
<1>4. CASE found = {}
  <2>. DEFINE standard == UsesStandardSlab(code, pool)
              size == IF standard THEN StandardSlabSize ELSE MinimumSlabSize(code, pool)
              dedicated == ~standard
  <2>1. /\ size \in Nat /\ Multiple(size, PageSize) /\ MinimumSlabSize(code, pool) <= size
        /\ (~dedicated => size = StandardSlabSize) /\ (pool > 0 => size <= span)
        /\ dedicated \in BOOLEAN
    <3>1. /\ MinimumSlabSize(code, pool) \in Nat /\ Multiple(MinimumSlabSize(code, pool), PageSize)
          /\ pool > 0 => MinimumSlabSize(code, pool) <= span
      BY <1>1, NewSlabSize DEF Propose
    <3>. QED BY <1>2, <3>1 DEF UsesStandardSlab
  <2>2. PICK t \in SlabRecords : t = NewSlab(size, dedicated) /\ SlabOK(t) /\ t.size = size
    BY <1>1, <2>1, NewSlabOK DEF NewSlab
  <2>3. PICK i \in Nat : i = Len(slabs) + 1
    BY <1>1, Parts
  <2>4. /\ slabs' = Append(slabs, t)
        /\ proposal' = [slab |-> i, code |-> slabs'[i].codeFrontier, size |-> code,
                        pool |-> AlignedPoolOffset(slabs'[i].poolFrontier, pool, alignment),
                        poolSize |-> pool, span |-> span]
    <3>1. t = IF standard THEN NewSlab(StandardSlabSize, FALSE)
              ELSE NewSlab(MinimumSlabSize(code, pool), TRUE)
      BY <2>2
    <3>. QED BY <1>4, <3>1, <2>3 DEF Propose
  <2>5. /\ slabs' \in Seq(SlabRecords) /\ i \in DOMAIN slabs' /\ slabs'[i] = t
        /\ \A j \in DOMAIN slabs : j \in DOMAIN slabs' /\ slabs'[j] = slabs[j]
        /\ \A j \in DOMAIN slabs' : j = i \/ j \in DOMAIN slabs
    BY <1>1, <2>3, <2>4, AppendProperties, Parts
  <2>6. ReservationFits(t, AlignUp(code, Granularity), pool, alignment)
    BY <1>1, <1>2, <2>1, <2>2, NewSlabFits
  <2>. QED BY <1>1, <2>1, <2>2, <2>4, <2>5, <2>6, ZenonT(60)
<1>. QED BY <1>3, <1>4

(* What the units say stays true while no unit and no slab with one changes. *)
LEMMA UnitsKept ==
  ASSUME CacheInv, UNCHANGED <<packed, units, jitWriteDepth>>,
         slabs' \in Seq(SlabRecords),
         \A j \in DOMAIN slabs : j \in DOMAIN slabs' /\ slabs'[j] = slabs[j],
         \A j \in DOMAIN slabs' : SlabOK(slabs'[j]),
         proposal' \in Proposals \cup {NoProposal},
         proposal' # NoProposal =>
           proposal'.slab \in DOMAIN slabs' /\ ProposalOK(proposal', slabs'[proposal'.slab])
  PROVE  CacheInv'
<1>1. CacheTypeOK'
  BY DEF CacheInv, CacheTypeOK
<1>2. \A u \in DOMAIN units : units[u].slab \in DOMAIN slabs /\ slabs'[units[u].slab] = slabs[units[u].slab]
  BY DEF CacheInv, CacheTypeOK
<1>3. (\A i \in DOMAIN slabs : SlabOK(slabs[i]))'
  BY DEF SlabOK, Granularity
<1>4. (\A u \in DOMAIN units : UnitOK(units[u], slabs[units[u].slab]))'
  BY <1>2 DEF CacheInv, UnitOK, Granularity
<1>5. InCommitOrder'
  BY DEF CacheInv, InCommitOrder, SameSlab
<1>6. ProtectionExact'
  BY <1>2 DEF CacheInv, ProtectionExact, CodePages, Pages
<1>7. (proposal # NoProposal => ProposalOK(proposal, slabs[proposal.slab]))'
  BY DEF ProposalOK, Granularity
<1>8. WriteProtectionRestored'
  BY DEF CacheInv, WriteProtectionRestored
<1>. QED BY <1>1, <1>3, <1>4, <1>5, <1>6, <1>7, <1>8 DEF CacheInv

\* propose
LEMMA ProposeStep ==
  ASSUME CacheInv, NEW code \in CodeSizes, NEW pool \in PoolSizes,
         NEW alignment \in PoolAlignments, NEW span \in Spans,
         Propose(code, pool, alignment, span)
  PROVE  CacheInv'
<1>1. PICK i \in DOMAIN slabs' :
           /\ slabs' \in Seq(SlabRecords)
           /\ \A j \in DOMAIN slabs : j \in DOMAIN slabs' /\ slabs'[j] = slabs[j]
           /\ \A j \in DOMAIN slabs' : SlabOK(slabs'[j])
           /\ ReservationFits(slabs'[i], AlignUp(code, Granularity), pool, alignment)
           /\ pool > 0 => slabs'[i].size <= span
           /\ proposal' = [slab |-> i, code |-> slabs'[i].codeFrontier, size |-> code,
                           pool |-> AlignedPoolOffset(slabs'[i].poolFrontier, pool, alignment),
                           poolSize |-> pool, span |-> span]
  BY ProposedSlab
<1>2. PICK s \in SlabRecords : s = slabs'[i]
  BY <1>1, ElementOfSeq, LenProperties
<1>3. i \in Nat
  BY <1>1, LenProperties
<1>4. code \in Nat \ {0} /\ pool \in Nat /\ span \in Nat /\ packed \in BOOLEAN
  BY CodeCacheConstants DEF CacheInv, CacheTypeOK
<1>5. /\ AlignedPoolOffset(s.poolFrontier, pool, alignment) \in Nat
      /\ AlignedPoolOffset(s.poolFrontier, pool, alignment) + pool <= s.poolFrontier
      /\ s.codeFrontier + AlignUp(code, Granularity)
           <= AlignDown(AlignedPoolOffset(s.poolFrontier, pool, alignment), PageSize)
  BY <1>1, <1>2, <1>4, Placement
<1>6. proposal' \in Proposals /\ proposal'.slab = i /\ ProposalOK(proposal', s)
  BY <1>1, <1>2, <1>3, <1>4, <1>5 DEF Proposals, ProposalOK, SlabRecords
<1>7. UNCHANGED <<packed, units, jitWriteDepth>>
  BY DEF Propose
<1>. QED BY <1>1, <1>2, <1>6, <1>7, UnitsKept

\* A proposal is dropped.
LEMMA DropStep == CacheInv /\ DropProposal => CacheInv'
<1> SUFFICES ASSUME CacheInv, DropProposal PROVE CacheInv'
  OBVIOUS
<1>1. UNCHANGED <<packed, units, jitWriteDepth>> /\ slabs' = slabs /\ proposal' = NoProposal
  BY DEF DropProposal
<1>2. slabs \in Seq(SlabRecords) /\ \A j \in DOMAIN slabs : SlabOK(slabs[j])
  BY DEF CacheInv, CacheTypeOK
<1>. QED BY <1>1, <1>2, UnitsKept
-----------------------------------------------------------------------------
(* A commit puts one more unit between the frontiers of its slab, and      *)
(* moves them to its bounds, whatever becomes of the page frontiers.       *)
CommittedSlab(s, encoded, state, t) ==
  /\ t.size = s.size /\ t.dedicated = s.dedicated /\ t.executable = s.executable
  /\ t.codeFrontier = s.codeFrontier + Committed(encoded) /\ t.poolFrontier = proposal.pool
  /\ Multiple(t.jitPageFrontier, PageSize)
  /\ AlignDown(proposal.pool, PageSize) <= t.jitPageFrontier
  /\ t.jitPageFrontier <= t.poolPageFrontier
  /\ t.poolPageFrontier <= s.poolPageFrontier
  /\ packed /\ state = "open" /\ proposal.poolSize > 0
       => t.poolPageFrontier <= AlignDown(proposal.pool, PageSize)

(* The rounded size of the code, within what the proposal reserved.        *)
LEMMA CommittedSize ==
  ASSUME CacheInv, proposal # NoProposal, NEW encoded \in CodeSizes, encoded <= proposal.size
  PROVE  /\ Committed(encoded) \in Nat \ {0} /\ Multiple(Committed(encoded), Granularity)
         /\ AlignUp(proposal.size, Granularity) \in Int
         /\ Committed(encoded) <= AlignUp(proposal.size, Granularity)
<1>1. /\ Granularity \in Nat \ {0} /\ encoded \in Int /\ encoded > 0 /\ proposal.size \in Int
  BY Granularities, CodeCacheConstants, SMTT(40) DEF CacheInv, CacheTypeOK, Proposals
<1>2. AlignUp(encoded, Granularity) \in Int /\ encoded <= AlignUp(encoded, Granularity)
      /\ Multiple(AlignUp(encoded, Granularity), Granularity) /\ AlignUp(proposal.size, Granularity) \in Int
  BY <1>1, Up
<1>3. AlignUp(encoded, Granularity) <= AlignUp(proposal.size, Granularity)
  BY <1>1, Monotone
<1>. QED BY <1>1, <1>2, <1>3 DEF Committed

(* The slab and the new unit after a commit.                               *)
LEMMA CommittedParts ==
  ASSUME CacheInv, proposal # NoProposal, NEW encoded \in CodeSizes, encoded <= proposal.size,
         NEW state \in {"open", "lost"}, NEW s \in SlabRecords, s = slabs[proposal.slab],
         NEW t \in SlabRecords, CommittedSlab(s, encoded, state, t)
  PROVE  /\ SlabOK(t) /\ s.codeFrontier <= t.codeFrontier /\ t.poolFrontier <= s.poolFrontier
         /\ Unit(encoded, state) \in UnitRecords /\ UnitOK(Unit(encoded, state), t)
         /\ Unit(encoded, state).code = s.codeFrontier
         /\ Unit(encoded, state).pool + Unit(encoded, state).poolSize <= s.poolFrontier
         /\ Unit(encoded, state).slab = proposal.slab /\ Unit(encoded, state).state = state
<1>1. /\ PageSize \in Nat \ {0} /\ Granularity \in Nat \ {0} /\ proposal \in Proposals
      /\ SlabOK(s) /\ ProposalOK(proposal, s) /\ proposal.slab \in Nat
  BY Granularities, Parts DEF CacheInv, CacheTypeOK
<1>2. PICK c \in Nat \ {0} : /\ c = Committed(encoded) /\ Multiple(c, Granularity)
                             /\ s.codeFrontier + c <= AlignDown(proposal.pool, PageSize)
  <2>1. AlignDown(proposal.pool, PageSize) \in Int /\ s.codeFrontier \in Nat
    <3>1. proposal.pool \in Int
      BY <1>1 DEF Proposals
    <3>. QED BY <3>1, <1>1, Down DEF SlabRecords
  <2>2. s.codeFrontier + AlignUp(proposal.size, Granularity) <= AlignDown(proposal.pool, PageSize)
    BY <1>1 DEF ProposalOK
  <2>. QED BY <2>1, <2>2, CommittedSize
<1>3. Multiple(s.codeFrontier + c, Granularity)
  <2>1. s.codeFrontier \in Int /\ c \in Int /\ Multiple(s.codeFrontier, Granularity)
    BY <1>1, <1>2 DEF SlabOK, SlabRecords
  <2>. QED BY <2>1, <1>1, <1>2, MultipleSum
<1>4. SlabOK(t) /\ s.codeFrontier <= t.codeFrontier /\ t.poolFrontier <= s.poolFrontier
  <2>1. /\ t.codeFrontier = s.codeFrontier + c /\ t.poolFrontier = proposal.pool
        /\ t.size = s.size /\ t.dedicated = s.dedicated /\ t.executable = s.executable
        /\ Multiple(t.jitPageFrontier, PageSize)
        /\ AlignDown(proposal.pool, PageSize) <= t.jitPageFrontier
        /\ t.jitPageFrontier <= t.poolPageFrontier
    BY <1>2 DEF CommittedSlab
  <2>2. proposal.pool \in Nat /\ proposal.poolSize \in Nat
    BY <1>1 DEF Proposals
  <2>. QED BY <1>1, <1>2, <1>3, <2>1, <2>2 DEF SlabOK, ProposalOK, SlabRecords
<1>5. Unit(encoded, state) = [slab |-> proposal.slab, code |-> proposal.code, capacity |-> c,
        pool |-> proposal.pool, poolSize |-> proposal.poolSize, span |-> proposal.span,
        state |-> state]
  BY <1>2 DEF Unit
<1>6. UnitOK(Unit(encoded, state), t)
  BY <1>1, <1>2, <1>5 DEF UnitOK, CommittedSlab, ProposalOK, SlabOK, SlabRecords, Proposals
<1>. QED BY <1>1, <1>4, <1>5, <1>6 DEF UnitRecords, Proposals, ProposalOK

(* The open units after a unit was added, and after one was closed.        *)
LEMMA OpenAfterCommit ==
  ASSUME CacheInv, NEW unit \in UnitRecords
  PROVE  LET units2 == Append(units, unit)
         IN  Cardinality({u \in DOMAIN units2 : units2[u].state = "open"})
               = IF unit.state = "open" THEN Cardinality(Open) + 1 ELSE Cardinality(Open)
<1>. DEFINE units2 == Append(units, unit)
            Open2 == {u \in DOMAIN units2 : units2[u].state = "open"}
<1>1. PICK n \in Nat : n = Len(units) + 1 /\ DOMAIN units = 1 .. n - 1 /\ units \in Seq(UnitRecords)
  BY Parts DEF CacheInv, CacheTypeOK
<1>2. /\ DOMAIN units2 = DOMAIN units \cup {n} /\ units2[n] = unit /\ n \notin DOMAIN units
      /\ \A u \in DOMAIN units : units2[u] = units[u]
  BY <1>1, AppendProperties
<1>. HIDE DEF units2
<1>3. Open2 = IF unit.state = "open" THEN Open \cup {n} ELSE Open
  BY <1>2 DEF Open
<1>4. n \notin Open
  BY <1>2 DEF Open
<1>5. IsFiniteSet(Open)
  BY OpenFinite DEF CacheInv
<1>. QED BY <1>3, <1>4, <1>5, FS_AddElement DEF units2

\* A commit, as far as its three outcomes have it in common.
LEMMA CommitStep ==
  ASSUME CacheInv, proposal # NoProposal, NEW encoded \in CodeSizes, encoded <= proposal.size,
         NEW state \in {"open", "lost"}, NEW s \in SlabRecords, s = slabs[proposal.slab],
         NEW t \in SlabRecords, CommittedSlab(s, encoded, state, t), Commit(encoded, t, state)
  PROVE  CacheInv'
<1>. DEFINE i == proposal.slab
<1>1. PICK unit \in UnitRecords :
        /\ unit = Unit(encoded, state) /\ SlabOK(t) /\ UnitOK(unit, t)
        /\ s.codeFrontier <= t.codeFrontier /\ t.poolFrontier <= s.poolFrontier
        /\ unit.code = s.codeFrontier /\ unit.pool + unit.poolSize <= s.poolFrontier
        /\ unit.slab = i /\ unit.state = state
  BY CommittedParts
<1>2. /\ CacheTypeOK /\ i \in DOMAIN slabs /\ packed \in BOOLEAN /\ packed' = packed
      /\ proposal' = NoProposal /\ slabs' = [slabs EXCEPT ![i] = t] /\ units' = Append(units, unit)
      /\ SlabOK(s) /\ PageSize \in Nat \ {0} /\ Granularity \in Nat \ {0}
  BY <1>1, Granularities DEF Commit, CacheInv, CacheTypeOK
<1>3. PICK n \in Nat : n = Len(units) + 1 /\ DOMAIN units = 1 .. n - 1
  BY <1>2, Parts
<1>4. /\ units' \in Seq(UnitRecords) /\ DOMAIN units' = DOMAIN units \cup {n} /\ units'[n] = unit
      /\ n \notin DOMAIN units /\ \A u \in DOMAIN units : units'[u] = units[u] /\ u < n
  BY <1>2, <1>3, AppendProperties DEF CacheTypeOK
<1>5. /\ slabs' \in Seq(SlabRecords) /\ DOMAIN slabs' = DOMAIN slabs /\ slabs'[i] = t
      /\ \A j \in DOMAIN slabs : j # i => slabs'[j] = slabs[j]
  BY <1>2, ExceptSeq DEF CacheTypeOK
<1>6. \A u \in DOMAIN units : /\ units[u] \in UnitRecords /\ units[u].slab \in DOMAIN slabs
                              /\ slabs[units[u].slab] \in SlabRecords
                              /\ UnitOK(units[u], slabs[units[u].slab])
  BY <1>2, Parts DEF CacheTypeOK, CacheInv
<1>7. CacheTypeOK'
  <2>1. jitWriteDepth' \in Nat
    BY <1>2 DEF Commit, CacheTypeOK
  <2>. QED BY <1>1, <1>2, <1>4, <1>5, <1>6, <2>1 DEF CacheTypeOK
<1>8. (\A j \in DOMAIN slabs : SlabOK(slabs[j]))'
  BY <1>1, <1>2, <1>5 DEF CacheInv, SlabOK, Granularity
<1>9. (\A u \in DOMAIN units : UnitOK(units[u], slabs[units[u].slab]))'
  <2>1. ASSUME NEW u \in DOMAIN units
        PROVE  UnitOK(units[u], slabs'[units[u].slab])
    <3>1. CASE units[u].slab = i
      <4>1. /\ units[u].code \in Nat /\ units[u].capacity \in Nat /\ units[u].pool \in Nat
            /\ units[u].poolSize \in Nat /\ AlignDown(units[u].pool, PageSize) \in Int
        BY <1>2, <1>6, Down, SMTT(40) DEF UnitRecords
      <4>2. /\ s.codeFrontier \in Nat /\ s.poolFrontier \in Nat /\ s.poolPageFrontier \in Nat
            /\ t.codeFrontier \in Nat /\ t.poolFrontier \in Nat /\ t.poolPageFrontier \in Nat
            /\ t.size = s.size /\ t.poolPageFrontier <= s.poolPageFrontier
        BY DEF SlabRecords, CommittedSlab
      <4>3. UnitOK(units[u], s) /\ slabs'[units[u].slab] = t
        BY <3>1, <1>5, <1>6
      <4>4. UnitOK(units[u], t)
        BY <1>1, <4>1, <4>2, <4>3 DEF UnitOK
      <4>. QED BY <4>3, <4>4
    <3>2. CASE units[u].slab # i
      BY <3>2, <1>5, <1>6
    <3>. QED BY <3>1, <3>2
  <2>2. \A u \in DOMAIN units' : UnitOK(units'[u], slabs'[units'[u].slab])
    BY <2>1, <1>1, <1>4, <1>5
  <2>. QED BY <2>2, <1>2 DEF UnitOK, Granularity
<1>10. InCommitOrder'
  <2>1. ASSUME NEW u \in DOMAIN units, units[u].slab = i
        PROVE  /\ units[u].code + units[u].capacity <= unit.code
               /\ unit.pool + unit.poolSize <= units[u].pool
    BY <2>1, <1>1, <1>6 DEF UnitOK, UnitRecords, SlabRecords
  <2>2. ASSUME NEW u \in DOMAIN units', NEW v \in DOMAIN units', u < v, units'[u].slab = units'[v].slab
        PROVE  /\ units'[u].code + units'[u].capacity <= units'[v].code
               /\ units'[v].pool + units'[v].poolSize <= units'[u].pool
    <3>1. u \in DOMAIN units
      BY <2>2, <1>3, <1>4
    <3>2. CASE v = n
      BY <3>1, <3>2, <2>1, <2>2, <1>1, <1>4
    <3>3. CASE v \in DOMAIN units
      BY <3>1, <3>3, <2>2, <1>4 DEF CacheInv, InCommitOrder, SameSlab
    <3>. QED BY <3>2, <3>3, <1>4
  <2>. QED BY <2>2 DEF InCommitOrder, SameSlab
<1>11. ProtectionExact'
  <2>1. \A j \in DOMAIN slabs : slabs'[j].executable = slabs[j].executable
    BY <1>5 DEF CommittedSlab
  <2>2. ASSUME ~packed, NEW p \in Pages(unit.code, unit.code + unit.capacity), p \in t.executable
        PROVE  FALSE
    <3>1. /\ Granularity = PageSize /\ unit.code \in Nat /\ unit.capacity \in Nat
      BY <1>2, <2>2, Granularities DEF UnitRecords
    <3>2. Multiple(unit.code, PageSize)
      BY <3>1, <1>1 DEF UnitOK
    <3>3. AlignDown(unit.code, PageSize) \in Int /\ unit.code <= AlignDown(unit.code, PageSize)
      BY <3>1, <3>2, <1>2, Down
    <3>4. p \in Nat /\ AlignDown(unit.code, PageSize) <= p
      <4>1. unit.code + unit.capacity \in Nat
        BY <3>1
      <4>. QED BY <4>1, <3>1, <2>2, <1>2, PageBounds
    <3>5. p < s.codeFrontier
      BY <2>2, <1>2 DEF SlabOK, CommittedSlab
    <3>. QED BY <3>1, <3>3, <3>4, <3>5, <1>1 DEF SlabRecords
  <2>3. CodePages(n)' = Pages(unit.code, unit.code + unit.capacity)
    BY <1>4 DEF CodePages, Pages
  <2>4. \A u \in DOMAIN units : CodePages(u)' = CodePages(u)
    BY <1>4 DEF CodePages, Pages
  <2>. QED BY <1>1, <1>2, <1>4, <1>5, <1>6, <2>1, <2>2, <2>3, <2>4 DEF CacheInv, ProtectionExact
<1>12. WriteProtectionRestored'
  <2>1. Cardinality({u \in DOMAIN units : units[u].state = "open"})'
          = IF state = "open" THEN Cardinality(Open) + 1 ELSE Cardinality(Open)
    <3>1. units' = Append(units, unit) /\ unit \in UnitRecords /\ unit.state = state
      BY <1>1, <1>2
    <3>. QED BY <3>1, OpenAfterCommit
  <2>2. jitWriteDepth = IF packed THEN Cardinality(Open) ELSE 0
    BY DEF CacheInv, WriteProtectionRestored, Open
  <2>3. jitWriteDepth' = IF packed /\ state = "open" THEN jitWriteDepth + 1 ELSE jitWriteDepth
    BY DEF Commit
  <2>4. CASE packed
    BY <2>1, <2>2, <2>3, <2>4, <1>2 DEF WriteProtectionRestored
  <2>5. CASE ~packed
    BY <2>2, <2>3, <2>5, <1>2 DEF WriteProtectionRestored
  <2>. QED BY <2>4, <2>5
<1>. QED BY <1>2, <1>7, <1>8, <1>9, <1>10, <1>11, <1>12 DEF CacheInv

(* The three outcomes of a commit leave such a slab: the pages are still   *)
(* in place, gone from the mapping, or replaced by ordinary ones.          *)
LEMMA OutcomesCommit ==
  ASSUME CacheInv, proposal # NoProposal, NEW encoded \in CodeSizes, encoded <= proposal.size,
         NEW s \in SlabRecords, s = slabs[proposal.slab]
  PROVE  /\ CommittedSlab(s, encoded, "lost", Advanced(encoded))
         /\ CommittedSlab(s, encoded, "lost", Unmapped(Advanced(encoded)))
         /\ CommittedSlab(s, encoded, "open", Mapped(Unmapped(Advanced(encoded))))
         /\ Advanced(encoded) \in SlabRecords /\ Unmapped(Advanced(encoded)) \in SlabRecords
         /\ Mapped(Unmapped(Advanced(encoded))) \in SlabRecords
<1>1. /\ PageSize \in Nat \ {0} /\ proposal \in Proposals /\ SlabOK(s) /\ ProposalOK(proposal, s)
      /\ packed \in BOOLEAN
  BY Granularities DEF CacheInv, CacheTypeOK
<1>2. PICK c \in Nat \ {0}, d \in Int :
        /\ c = Committed(encoded) /\ d = AlignDown(proposal.pool, PageSize) /\ s.codeFrontier + c <= d
        /\ Multiple(d, PageSize) /\ d <= proposal.pool
        /\ \A m \in Int : Multiple(m, PageSize) /\ m <= proposal.pool => m <= d
  <2>1. proposal.pool \in Int /\ s.codeFrontier \in Nat
    BY <1>1 DEF Proposals, SlabRecords
  <2>2. s.codeFrontier + AlignUp(proposal.size, Granularity) <= AlignDown(proposal.pool, PageSize)
    BY <1>1 DEF ProposalOK
  <2>3. /\ AlignDown(proposal.pool, PageSize) \in Int /\ Multiple(AlignDown(proposal.pool, PageSize), PageSize)
        /\ AlignDown(proposal.pool, PageSize) <= proposal.pool
        /\ \A m \in Int : Multiple(m, PageSize) /\ m <= proposal.pool => m <= AlignDown(proposal.pool, PageSize)
    BY <1>1, <2>1, Down
  <2>. QED BY <2>1, <2>2, <2>3, CommittedSize
<1>3. PICK pool \in Nat, poolSize \in Nat :
        pool = proposal.pool /\ poolSize = proposal.poolSize /\ pool + poolSize <= s.poolFrontier
  BY <1>1 DEF Proposals, ProposalOK
<1>4. /\ s.codeFrontier \in Nat /\ s.jitPageFrontier \in Nat /\ s.poolPageFrontier \in Nat
      /\ s.jitPageFrontier <= s.poolPageFrontier /\ Multiple(s.jitPageFrontier, PageSize)
  BY <1>1 DEF SlabRecords, SlabOK
<1>5. d <= s.jitPageFrontier
  <2>1. /\ s.poolFrontier \in Int /\ AlignDown(s.poolFrontier, PageSize) \in Int
        /\ AlignDown(pool, PageSize) <= AlignDown(s.poolFrontier, PageSize)
    <3>1. s.poolFrontier \in Int /\ pool \in Int /\ pool <= s.poolFrontier
      BY <1>3 DEF SlabRecords
    <3>. QED BY <3>1, <1>1, Monotone, Down
  <2>. QED BY <2>1, <1>1, <1>2, <1>3, <1>4 DEF SlabOK
<1>6. d \in Nat
  BY <1>2, <1>4
<1>. DEFINE a == Advanced(encoded)
            b == Unmapped(a)
<1>7. /\ a \in SlabRecords /\ a.size = s.size /\ a.dedicated = s.dedicated
      /\ a.executable = s.executable /\ a.codeFrontier = s.codeFrontier + c /\ a.poolFrontier = pool
      /\ a.jitPageFrontier = s.jitPageFrontier /\ a.poolPageFrontier = s.poolPageFrontier
  <2>1. s.codeFrontier + c \in Nat /\ pool \in Nat
    BY <1>2, <1>3, <1>4
  <2>2. a = [s EXCEPT !.codeFrontier = s.codeFrontier + c, !.poolFrontier = pool]
    BY <1>2, <1>3 DEF Advanced
  <2>. HIDE DEF a
  <2>. QED BY <2>1, <2>2 DEF SlabRecords
<1>8. CommittedSlab(s, encoded, "lost", a)
  BY <1>2, <1>3, <1>4, <1>5, <1>7 DEF CommittedSlab
<1>. HIDE DEF a
<1>9. /\ b \in SlabRecords /\ b.size = a.size /\ b.dedicated = a.dedicated
      /\ b.executable = a.executable /\ b.codeFrontier = a.codeFrontier
      /\ b.poolFrontier = a.poolFrontier /\ b.poolPageFrontier = a.poolPageFrontier
      /\ b.jitPageFrontier \in {a.jitPageFrontier, d}
      /\ packed /\ poolSize > 0 => b.jitPageFrontier = d
  BY <1>2, <1>3, <1>4, <1>5, <1>6, <1>7 DEF Unmapped, MustUnmap, SlabRecords
<1>10. CommittedSlab(s, encoded, "lost", b)
  BY <1>2, <1>3, <1>4, <1>5, <1>7, <1>9 DEF CommittedSlab
<1>. HIDE DEF b
<1>11. /\ Mapped(b) \in SlabRecords /\ Mapped(b).size = b.size /\ Mapped(b).dedicated = b.dedicated
       /\ Mapped(b).executable = b.executable /\ Mapped(b).codeFrontier = b.codeFrontier
       /\ Mapped(b).poolFrontier = b.poolFrontier /\ Mapped(b).jitPageFrontier = b.jitPageFrontier
       /\ Mapped(b).poolPageFrontier \in {b.jitPageFrontier, b.poolPageFrontier}
       /\ packed /\ poolSize > 0 => Mapped(b).poolPageFrontier = b.jitPageFrontier
  BY <1>3, <1>9 DEF Mapped, MustMap, SlabRecords
<1>12. CommittedSlab(s, encoded, "open", Mapped(b))
  BY <1>2, <1>3, <1>4, <1>5, <1>7, <1>9, <1>11 DEF CommittedSlab
<1>. QED BY <1>7, <1>8, <1>9, <1>10, <1>11, <1>12 DEF a, b

\* A commit succeeds, or its mapping or unmapping fails.
LEMMA CommitsStep ==
  ASSUME CacheInv, NEW encoded \in CodeSizes,
         CommitSucceeds(encoded) \/ CommitUnmapFails(encoded) \/ CommitMapFails(encoded)
  PROVE  CacheInv'
<1>1. proposal # NoProposal /\ encoded <= proposal.size
  BY DEF CommitSucceeds, CommitUnmapFails, CommitMapFails
<1>2. PICK s \in SlabRecords : s = slabs[proposal.slab]
  BY <1>1, Parts DEF CacheInv, CacheTypeOK
<1>3. CASE CommitSucceeds(encoded)
  BY <1>1, <1>2, <1>3, OutcomesCommit, CommitStep DEF CommitSucceeds
<1>4. CASE CommitUnmapFails(encoded)
  BY <1>1, <1>2, <1>4, OutcomesCommit, CommitStep DEF CommitUnmapFails
<1>5. CASE CommitMapFails(encoded)
  BY <1>1, <1>2, <1>5, OutcomesCommit, CommitStep DEF CommitMapFails
<1>. QED BY <1>3, <1>4, <1>5
-----------------------------------------------------------------------------
(* With whole-page granularity no two units of a slab share a code page.   *)
LEMMA CodePagesApart ==
  ASSUME CacheInv, ~packed, NEW u \in DOMAIN units, NEW v \in DOMAIN units, u # v, SameSlab(u, v)
  PROVE  CodePages(u) \cap CodePages(v) = {}
<1>1. ASSUME NEW x \in DOMAIN units, NEW y \in DOMAIN units, x < y, SameSlab(x, y),
             NEW p, p \in CodePages(x), p \in CodePages(y)
      PROVE  FALSE
  <2>1. /\ units[x] \in UnitRecords /\ units[y] \in UnitRecords /\ PageSize \in Nat \ {0}
        /\ Granularity = PageSize /\ Multiple(units[y].code, Granularity)
    BY Parts, Granularities DEF CacheInv, CacheTypeOK, UnitOK
  <2>2. PICK c \in Nat, d \in Nat, e \in Nat :
          /\ c = units[x].code /\ d = units[x].code + units[x].capacity
          /\ e = units[y].code + units[y].capacity
    BY <2>1 DEF UnitRecords
  <2>3. units[y].code \in Nat /\ d <= units[y].code
    BY <1>1, <2>1, <2>2 DEF CacheInv, InCommitOrder, UnitRecords
  <2>4. p \in Nat /\ p < d
    BY <1>1, <2>1, <2>2, PageBounds DEF CodePages
  <2>5. AlignDown(units[y].code, PageSize) <= p
    BY <1>1, <2>1, <2>2, <2>3, PageBounds DEF CodePages
  <2>6. AlignDown(units[y].code, PageSize) \in Int /\ units[y].code <= AlignDown(units[y].code, PageSize)
    BY <2>1, <2>3, Down
  <2>. QED BY <2>2, <2>3, <2>4, <2>5, <2>6
<1>2. u \in Nat /\ v \in Nat /\ SameSlab(v, u)
  BY Parts DEF CacheInv, SameSlab
<1>. QED BY <1>1, <1>2

(* Closing an open unit, published or not: pages become executable exactly *)
(* when it is published, and they are its own.                             *)
LEMMA EndCodeWriteStep ==
  ASSUME CacheInv, NEW u \in DOMAIN units, units[u].state = "open",
         NEW state \in {"published", "lost"}, EndCodeWrite(u, state),
         UNCHANGED <<packed, proposal>>,
         NEW pages \in SUBSET CodePages(u), ~packed /\ state = "published" => pages = CodePages(u),
         slabs' = [slabs EXCEPT ![units[u].slab].executable = @ \cup pages]
  PROVE  CacheInv'
<1>. DEFINE i == units[u].slab
<1>1. /\ CacheTypeOK /\ i \in DOMAIN slabs /\ slabs[i] \in SlabRecords /\ PageSize \in Nat \ {0}
      /\ packed \in BOOLEAN /\ packed' = packed /\ proposal' = proposal
  BY Parts, Granularities DEF CacheInv, CacheTypeOK
<1>2. PICK unit \in UnitRecords : unit = [units[u] EXCEPT !.state = state] /\ unit.state = state
  <2>1. units[u] \in UnitRecords
    BY <1>1, Parts
  <2>2. [units[u] EXCEPT !.state = state] \in UnitRecords
    BY <2>1 DEF UnitRecords
  <2>3. [units[u] EXCEPT !.state = state].state = state
    BY <2>1 DEF UnitRecords
  <2>. QED BY <2>2, <2>3
<1>3. /\ \A v \in DOMAIN units : units[v] \in UnitRecords /\ units[v].slab \in DOMAIN slabs
      /\ units \in Seq(UnitRecords) /\ slabs \in Seq(SlabRecords)
  BY <1>1, Parts DEF CacheTypeOK
<1>4. units' = [units EXCEPT ![u] = unit]
  BY <1>2 DEF EndCodeWrite
<1>5. /\ units' \in Seq(UnitRecords) /\ DOMAIN units' = DOMAIN units /\ units'[u] = unit
      /\ \A v \in DOMAIN units : v # u => units'[v] = units[v]
  BY <1>3, <1>4, ExceptSeq
<1>6. \A v \in DOMAIN units :
        /\ units'[v].slab = units[v].slab /\ units'[v].code = units[v].code
        /\ units'[v].capacity = units[v].capacity /\ units'[v].pool = units[v].pool
        /\ units'[v].poolSize = units[v].poolSize /\ units'[v].span = units[v].span
        /\ units'[v].state = IF v = u THEN state ELSE units[v].state
  BY <1>2, <1>3, <1>5, ZenonT(60) DEF UnitRecords
<1>7. pages \subseteq Int /\ \A p \in pages : p < slabs[i].codeFrontier
  <2>1. PICK c \in Nat, d \in Nat : c = units[u].code /\ d = units[u].code + units[u].capacity
    <3>1. units[u] \in UnitRecords
      BY <1>3
    <3>. QED BY <3>1 DEF UnitRecords
  <2>2. d <= slabs[i].codeFrontier
    BY <2>1 DEF CacheInv, UnitOK
  <2>3. \A p \in pages : p \in Nat /\ p < d
    BY <1>1, <2>1, PageBounds DEF CodePages
  <2>. QED BY <1>1, <2>1, <2>2, <2>3 DEF SlabRecords
<1>8. PICK t \in SlabRecords : /\ slabs' = [slabs EXCEPT ![i] = t]
                               /\ t = [slabs[i] EXCEPT !.executable = slabs[i].executable \cup pages]
  BY <1>1, <1>7 DEF SlabRecords
<1>9. /\ slabs' \in Seq(SlabRecords) /\ DOMAIN slabs' = DOMAIN slabs /\ slabs'[i] = t
      /\ \A j \in DOMAIN slabs : j # i => slabs'[j] = slabs[j]
  BY <1>1, <1>3, <1>8, ExceptSeq
<1>10. \A j \in DOMAIN slabs :
        /\ slabs'[j].size = slabs[j].size /\ slabs'[j].dedicated = slabs[j].dedicated
        /\ slabs'[j].codeFrontier = slabs[j].codeFrontier /\ slabs'[j].poolFrontier = slabs[j].poolFrontier
        /\ slabs'[j].jitPageFrontier = slabs[j].jitPageFrontier
        /\ slabs'[j].poolPageFrontier = slabs[j].poolPageFrontier
        /\ slabs'[j].executable = IF j = i THEN slabs[j].executable \cup pages ELSE slabs[j].executable
  BY <1>1, <1>8, <1>9, ZenonT(60) DEF SlabRecords
<1>11. jitWriteDepth = (IF packed THEN Cardinality(Open) ELSE 0)
       /\ jitWriteDepth' = IF packed THEN jitWriteDepth - 1 ELSE jitWriteDepth
  BY DEF CacheInv, WriteProtectionRestored, Open, EndCodeWrite
<1>12. /\ Cardinality(Open) - 1 \in Nat
       /\ {v \in DOMAIN units' : units'[v].state = "open"} = Open \ {u}
       /\ Cardinality(Open \ {u}) = Cardinality(Open) - 1
  <2>1. {v \in DOMAIN units' : units'[v].state = "open"} = Open \ {u}
    BY <1>5, <1>6 DEF Open
  <2>2. u \in Open
    BY DEF Open
  <2>3. IsFiniteSet(Open) /\ Cardinality(Open) \in Nat /\ Cardinality(Open) # 0
    BY <1>1, <2>2, OpenFinite
  <2>4. Cardinality(Open \ {u}) = Cardinality(Open) - 1
    BY <2>2, <2>3, FS_RemoveElement
  <2>. QED BY <2>1, <2>3, <2>4
<1>13. CacheTypeOK'
  <2>1. jitWriteDepth' \in Nat
    BY <1>1, <1>11, <1>12
  <2>2. \A v \in DOMAIN units' : units'[v].slab \in DOMAIN slabs'
    BY <1>3, <1>5, <1>6, <1>9
  <2>. QED BY <1>1, <1>5, <1>9, <2>1, <2>2 DEF CacheTypeOK
<1>14. (\A j \in DOMAIN slabs : SlabOK(slabs[j]))'
  BY <1>1, <1>7, <1>9, <1>10 DEF CacheInv, SlabOK, Granularity
<1>15. (\A v \in DOMAIN units : UnitOK(units[v], slabs[units[v].slab]))'
  <2>1. \A v \in DOMAIN units : units'[v].state # "lost" => units[v].state # "lost"
    BY <1>6
  <2>. QED BY <1>1, <1>3, <1>5, <1>6, <1>10, <2>1 DEF CacheInv, UnitOK, Granularity
<1>16. InCommitOrder'
  BY <1>5, <1>6 DEF CacheInv, InCommitOrder, SameSlab
<1>17. ProtectionExact'
  <2>1. \A v \in DOMAIN units : CodePages(v)' = CodePages(v)
    BY <1>6 DEF CodePages, Pages
  <2>2. ASSUME ~packed, NEW v \in DOMAIN units
        PROVE  /\ units'[v].state = "published" => CodePages(v) \subseteq slabs'[units[v].slab].executable
               /\ units'[v].state = "open" => CodePages(v) \cap slabs'[units[v].slab].executable = {}
    <3>1. CASE v = u
      <4>1. units'[v].state = state /\ slabs'[i].executable = slabs[i].executable \cup pages
        BY <3>1, <1>1, <1>6, <1>10, ZenonT(60)
      <4>. QED BY <2>2, <3>1, <4>1
    <3>2. CASE v # u /\ units[v].slab # i
      <4>1. /\ units'[v].state = units[v].state
            /\ slabs'[units[v].slab].executable = slabs[units[v].slab].executable
        BY <3>2, <1>3, <1>6, <1>10
      <4>. QED BY <2>2, <4>1 DEF CacheInv, ProtectionExact
    <3>3. CASE v # u /\ units[v].slab = i
      <4>1. CodePages(u) \cap CodePages(v) = {}
        BY <2>2, <3>3, CodePagesApart DEF SameSlab
      <4>2. slabs'[units[v].slab].executable = slabs[units[v].slab].executable \cup pages
        BY <3>3, <1>3, <1>10
      <4>3. units'[v].state = units[v].state
        BY <3>3, <1>6
      <4>. QED BY <2>2, <4>1, <4>2, <4>3 DEF CacheInv, ProtectionExact
    <3>. QED BY <3>1, <3>2, <3>3
  <2>. QED BY <1>1, <1>5, <1>6, <2>1, <2>2 DEF ProtectionExact
<1>18. (proposal # NoProposal => ProposalOK(proposal, slabs[proposal.slab]))'
  BY <1>1, <1>10 DEF CacheInv, CacheTypeOK, ProposalOK, Granularity
<1>19. WriteProtectionRestored'
  <2>1. CASE packed
    <3>1. jitWriteDepth' = Cardinality(Open \ {u})
      BY <2>1, <1>11, <1>12
    <3>2. Open' = Open \ {u}
      BY <1>12 DEF Open
    <3>3. WriteProtectionRestored' <=> (jitWriteDepth' = IF packed' THEN Cardinality(Open') ELSE 0)
      BY DEF WriteProtectionRestored, Open
    <3>. QED BY <2>1, <3>1, <3>2, <3>3, <1>1
  <2>2. CASE ~packed
    <3>1. jitWriteDepth' = 0 /\ ~packed'
      BY <2>2, <1>1, <1>11
    <3>. QED BY <3>1 DEF WriteProtectionRestored
  <2>. QED BY <2>1, <2>2
<1>. QED BY <1>13, <1>14, <1>15, <1>16, <1>17, <1>18, <1>19 DEF CacheInv

(* Every step preserves the invariant.                                     *)
LEMMA CacheStep == CacheInv /\ [CacheNext]_cacheVars => CacheInv'
<1> SUFFICES ASSUME CacheInv, [CacheNext]_cacheVars PROVE CacheInv'
  OBVIOUS
<1>1. CASE UNCHANGED cacheVars
  <2>1. CacheTypeOK /\ \A j \in DOMAIN slabs : SlabOK(slabs[j])
    BY DEF CacheInv
  <2>2. slabs \in Seq(SlabRecords) /\ proposal \in Proposals \cup {NoProposal}
        /\ (proposal # NoProposal => proposal.slab \in DOMAIN slabs)
        /\ (proposal # NoProposal => ProposalOK(proposal, slabs[proposal.slab]))
    BY DEF CacheInv, CacheTypeOK
  <2>. QED BY <1>1, <2>1, <2>2, UnitsKept DEF cacheVars
<1>2. ASSUME NEW code \in CodeSizes, NEW pool \in PoolSizes, NEW alignment \in PoolAlignments,
             NEW span \in Spans, Propose(code, pool, alignment, span)
      PROVE  CacheInv'
  BY <1>2, ProposeStep
<1>3. CASE DropProposal
  BY <1>3, DropStep
<1>4. ASSUME NEW encoded \in CodeSizes,
             CommitSucceeds(encoded) \/ CommitUnmapFails(encoded) \/ CommitMapFails(encoded)
      PROVE  CacheInv'
  BY <1>4, CommitsStep
<1>5. ASSUME NEW u \in DOMAIN units, Abandon(u) \/ Publish(u) \/ PublishFails(u)
      PROVE  CacheInv'
  <2>1. /\ units[u].state = "open" /\ UNCHANGED <<packed, proposal>> /\ CacheTypeOK
        /\ units[u].slab \in DOMAIN slabs /\ slabs[units[u].slab] \in SlabRecords
        /\ slabs \in Seq(SlabRecords)
    BY <1>5, Parts DEF Abandon, Publish, PublishFails, CacheInv, CacheTypeOK
  <2>2. CASE Publish(u)
    <3>1. Protected(u) \in SUBSET CodePages(u) /\ (~packed => Protected(u) = CodePages(u))
      BY DEF Protected, CodePages
    <3>. QED BY <2>1, <2>2, <3>1, EndCodeWriteStep DEF Publish
  <2>3. CASE Abandon(u) \/ PublishFails(u)
    <3>1. EndCodeWrite(u, "lost") /\ slabs' = slabs
      BY <2>3 DEF Abandon, PublishFails
    <3>2. PICK s \in SlabRecords : s = slabs[units[u].slab]
      BY <2>1
    <3>3. [s EXCEPT !.executable = s.executable \cup {}] = s
      BY DEF SlabRecords
    <3>4. [slabs EXCEPT ![units[u].slab] = s] = slabs
      BY <2>1, <3>2
    <3>5. slabs' = [slabs EXCEPT ![units[u].slab].executable = @ \cup {}]
      BY <3>1, <3>2, <3>3, <3>4
    <3>6. {} \in SUBSET CodePages(u) /\ "lost" \in {"published", "lost"}
          /\ (~packed /\ "lost" = "published" => {} = CodePages(u))
      OBVIOUS
    <3>. QED BY <2>1, <3>1, <3>5, <3>6, EndCodeWriteStep
  <2>. QED BY <1>5, <2>2, <2>3
<1>. QED BY <1>1, <1>2, <1>3, <1>4, <1>5 DEF CacheNext

(* The invariant of the code cache, types included.                        *)
THEOREM CacheInvariant == CacheSpec => []CacheInv
<1>. QED BY InitCacheInv, CacheStep, PTL DEF CacheSpec

(* Whatever compilations ask for, drop, abandon or fail to map: code and   *)
(* pools never share a page, no two units share a byte, a unit can be      *)
(* written while it is open and run once published, its pool is mapped     *)
(* and within reach of its loads, and with no open unit code is protected. *)
THEOREM CodeCacheSound == CacheSpec => []UnitsSound
<1>1. CacheInv => UnitsSound
  BY Separate, Usable, InReach DEF UnitsSound, CacheInv
<1>. QED BY <1>1, CacheInvariant, PTL

-----------------------------------------------------------------------------
(* Parallel assignments                                                    *)
-----------------------------------------------------------------------------
Readers(l) == {d \in pending : location[d] = l}

\* The assignments, and the location each is read from.
AssignmentsOK ==
  /\ DOMAIN source \subseteq Locations
  /\ \A d \in DOMAIN source : source[d] \in Locations
  /\ \A d \in Dests : location[d] \in {source[d], CycleScratch}
  /\ scratch = <<>> => \A d \in Dests : location[d] = source[d]

\* Queued are exactly the assignments into locations that nobody reads.
ReadyExact == \A d \in pending : d \in ready <=> Readers(d) = {}

EmittedInPlace == \A d \in Dests \ pending : regs[d] = source[d]
OthersUntouched == \A l \in Locations \ Dests : regs[l] = l
OrderingOver == phase \notin {"order", "failed"} => pending = {}

IInv ==
  /\ TypeOK
  /\ AssignmentsOK
  /\ CountsExact
  /\ ReadyExact
  /\ PendingValuesIntact
  /\ EmittedInPlace
  /\ OthersUntouched
  /\ OrderingOver

-----------------------------------------------------------------------------
(* Every pending set is finite, so its reader sets can be counted.         *)
LEMMA ReadersFinite ==
  ASSUME TypeOK, AssignmentsOK
  PROVE  /\ IsFiniteSet(pending)
         /\ \A l : IsFiniteSet(Readers(l)) /\ Cardinality(Readers(l)) \in Nat
         /\ \A l : Cardinality(Readers(l)) = 0 <=> Readers(l) = {}
<1>1. pending \subseteq Locations
  BY DEF TypeOK, AssignmentsOK, Dests
<1>2. IsFiniteSet(pending)
  BY <1>1, LocationsFinite, FS_Subset
<1>3. ASSUME NEW l
      PROVE  /\ IsFiniteSet(Readers(l)) /\ Cardinality(Readers(l)) \in Nat
             /\ Cardinality(Readers(l)) = 0 <=> Readers(l) = {}
  <2>1. IsFiniteSet(Readers(l))
    BY <1>2, FS_Subset DEF Readers
  <2>. QED BY <2>1, FS_CardinalityType, FS_EmptySet
<1>. QED BY <1>2, <1>3

(* The location that breaks cycles is a scratch register.                  *)
LEMMA CycleScratchApart ==
  ASSUME TypeOK, scratch # <<>>
  PROVE  CycleScratch \in AllLocations /\ CycleScratch \notin Locations
<1>1. scratch \in Seq(Range(scratch)) /\ Range(scratch) \cap Locations = {}
  BY ScratchApart DEF TypeOK
<1>2. CycleScratch \in Range(scratch)
  BY <1>1 DEF CycleScratch
<1>. QED BY <1>1, <1>2 DEF TypeOK, AllLocations

(* When nothing is ready, every pending destination is a location that a   *)
(* pending assignment reads.  There are as many pending assignments as     *)
(* pending destinations, so they read no location besides those: none of   *)
(* them reads the scratch location, and it may be overwritten.             *)
LEMMA NoReaderOfScratch ==
  ASSUME IInv
  PROVE  OneScratchIsEnough
<1>. USE DEF IInv
<1> SUFFICES ASSUME NoReady, scratch # <<>>, NEW d \in pending, location[d] = CycleScratch
             PROVE  FALSE
  BY DEF OneScratchIsEnough
<1>1. IsFiniteSet(pending) /\ Cardinality(pending) \in Nat
  BY ReadersFinite, FS_CardinalityType
<1>2. CycleScratch \notin pending
  BY CycleScratchApart DEF TypeOK, AssignmentsOK, Dests
<1>. DEFINE Read == {location[e] : e \in pending}
            f == [e \in pending |-> location[e]]
<1>3. f \in Surjection(pending, Read)
  BY DEF Surjection
<1>4. IsFiniteSet(Read) /\ Cardinality(Read) <= Cardinality(pending)
  BY <1>1, <1>3, FS_Surjection
<1>5. ASSUME NEW e \in pending
      PROVE  e \in Read
  <2>1. Readers(e) # {}
    BY DEF NoReady, ReadyExact
  <2>. QED BY <2>1 DEF Readers
<1>6. pending \cup {CycleScratch} \subseteq Read
  BY <1>5
<1>7. Cardinality(pending \cup {CycleScratch}) = Cardinality(pending) + 1
  BY <1>1, <1>2, FS_AddElement
<1>8. Cardinality(pending \cup {CycleScratch}) <= Cardinality(Read)
  BY <1>4, <1>6, FS_Subset
<1>. HIDE DEF Read
<1>9. Cardinality(Read) \in Nat
  BY <1>4, FS_CardinalityType
<1>. QED BY <1>1, <1>4, <1>7, <1>8, <1>9

-----------------------------------------------------------------------------
(* The constructor establishes the invariant.                              *)
LEMMA InitIInv == Init => IInv
<1> SUFFICES ASSUME Init PROVE IInv
  OBVIOUS
<1>1. /\ DOMAIN source \subseteq Locations
      /\ \A d \in DOMAIN source : source[d] \in Locations
  BY DEF Init
<1>2. Dests \subseteq Locations /\ Locations \subseteq AllLocations
  BY <1>1 DEF Dests, AllLocations
<1>3. \A l : Readers(l) = Users(location, l)
  BY DEF Init, Readers, Users
<1>4. AssignmentsOK
  BY <1>1 DEF Init, AssignmentsOK
<1>5. \A l : /\ IsFiniteSet(Users(location, l)) /\ Cardinality(Users(location, l)) \in Nat
             /\ Cardinality(Users(location, l)) = 0 <=> Users(location, l) = {}
  <2>1. IsFiniteSet(Dests)
    BY <1>2, LocationsFinite, FS_Subset
  <2>2. ASSUME NEW l
        PROVE  IsFiniteSet(Users(location, l))
    BY <2>1, FS_Subset DEF Init, Users
  <2>. QED BY <2>2, FS_CardinalityType, FS_EmptySet
<1>6. TypeOK
  <2>1. location \in [Dests -> AllLocations]
    BY <1>1, <1>2 DEF Init, Dests
  <2>2. nSources \in [AllLocations -> Nat]
    BY <1>5 DEF Init
  <2>3. regs \in [AllLocations -> AllLocations]
    BY DEF Init, Initially
  <2>. QED BY <2>1, <2>2, <2>3 DEF Init, TypeOK
<1>7. CountsExact
  BY <1>3 DEF Init, CountsExact, Readers
<1>8. ReadyExact
  BY <1>2, <1>3, <1>5 DEF Init, ReadyExact
<1>9. PendingValuesIntact
  BY <1>1, <1>2 DEF Init, PendingValuesIntact, Initially, Dests
<1>10. EmittedInPlace /\ OthersUntouched /\ OrderingOver
  BY <1>2 DEF Init, EmittedInPlace, OthersUntouched, OrderingOver, Initially
<1>. QED BY <1>4, <1>6, <1>7, <1>8, <1>9, <1>10 DEF IInv

(* Emitting a ready assignment: no pending assignment reads the location   *)
(* it overwrites, and its own source has one reader less.                  *)
LEMMA EmitReadyStep ==
  ASSUME IInv, NEW d \in ready, EmitReady(d)
  PROVE  IInv'
<1>. USE DEF IInv
<1>1. /\ d \in pending /\ d \in Dests /\ d \in AllLocations /\ d \in Locations
      /\ location[d] \in AllLocations
  BY DEF TypeOK, AssignmentsOK, Dests, AllLocations
<1>2. /\ pending' = pending \ {d} /\ location' = location /\ source' = source
      /\ scratch' = scratch /\ CycleScratch' = CycleScratch
      /\ regs' = [regs EXCEPT ![d] = regs[location[d]]]
      /\ nSources' = [nSources EXCEPT ![location[d]] = @ - 1]
      /\ ready' = (ready \ {d}) \cup Freed(location[d], pending', nSources')
      /\ phase' = phase /\ phase = "order" /\ candidates' = candidates /\ Dests' = Dests
  BY DEF EmitReady, Emit, Dests, CycleScratch
<1>3. Readers(d) = {}
  BY <1>1 DEF ReadyExact
<1>4. \A l : Readers(l)' = Readers(l) \ {d}
  BY <1>2 DEF Readers
<1>5. \A l : /\ IsFiniteSet(Readers(l)) /\ Cardinality(Readers(l)) \in Nat
             /\ Cardinality(Readers(l)) = 0 <=> Readers(l) = {}
  BY ReadersFinite
<1>6. \A l \in AllLocations : nSources[l] = Cardinality(Readers(l))
  BY DEF CountsExact, Readers
<1>7. \A l \in AllLocations : nSources'[l] = Cardinality(Readers(l)')
  <2> SUFFICES ASSUME NEW l \in AllLocations
               PROVE  nSources'[l] = Cardinality(Readers(l) \ {d})
    BY <1>4
  <2>1. CASE l = location[d]
    <3>1. d \in Readers(l)
      BY <1>1, <2>1 DEF Readers
    <3>2. Cardinality(Readers(l) \ {d}) = Cardinality(Readers(l)) - 1
      BY <3>1, <1>5, FS_RemoveElement
    <3>. QED BY <3>2, <1>2, <1>6, <2>1 DEF TypeOK
  <2>2. CASE l # location[d]
    <3>1. Readers(l) \ {d} = Readers(l)
      BY <2>2 DEF Readers
    <3>. QED BY <3>1, <1>2, <1>6, <2>2 DEF TypeOK
  <2>. QED BY <2>1, <2>2
<1>8. \A l : Cardinality(Readers(l)') \in Nat /\ (Cardinality(Readers(l)') = 0 <=> Readers(l)' = {})
  <2> SUFFICES ASSUME NEW l
               PROVE  Cardinality(Readers(l) \ {d}) \in Nat
                      /\ (Cardinality(Readers(l) \ {d}) = 0 <=> Readers(l) \ {d} = {})
    BY <1>4
  <2>1. IsFiniteSet(Readers(l) \ {d})
    BY <1>5, FS_Subset
  <2>. QED BY <2>1, FS_CardinalityType, FS_EmptySet
<1>9. TypeOK'
  <2>1. nSources' \in [AllLocations -> Nat]
    BY <1>2, <1>7, <1>8 DEF TypeOK
  <2>2. regs' \in [AllLocations -> AllLocations]
    BY <1>1, <1>2 DEF TypeOK
  <2>3. Freed(location[d], pending', nSources') \subseteq pending'
    BY DEF Freed
  <2>. QED BY <1>2, <2>1, <2>2, <2>3 DEF TypeOK
<1>10. AssignmentsOK'
  BY <1>2 DEF AssignmentsOK
<1>11. CountsExact'
  BY <1>7 DEF CountsExact, Readers
<1>12. ReadyExact'
  <2> SUFFICES ASSUME NEW e \in pending'
               PROVE  e \in ready' <=> Readers(e)' = {}
    BY DEF ReadyExact
  <2>1. e \in pending /\ e # d /\ e \in AllLocations
    BY <1>2 DEF TypeOK, AssignmentsOK, Dests, AllLocations
  <2>2. e \in ready' <=> e \in ready \/ (e = location[d] /\ nSources'[e] = 0)
    BY <1>2, <2>1 DEF Freed
  <2>3. e \in ready <=> Readers(e) = {}
    BY <2>1 DEF ReadyExact
  <2>4. nSources'[e] = 0 <=> Readers(e)' = {}
    BY <1>7, <1>8, <2>1
  <2>5. e # location[d] => Readers(e)' = Readers(e)
    BY <1>4 DEF Readers
  <2>6. e = location[d] => Readers(e) # {}
    BY <1>1 DEF Readers
  <2>7. Readers(e) = {} => Readers(e)' = {}
    BY <1>4
  <2>. QED BY <2>2, <2>3, <2>4, <2>5, <2>6, <2>7
<1>13. PendingValuesIntact'
  <2> SUFFICES ASSUME NEW e \in pending'
               PROVE  regs'[location[e]] = source[e]
    BY <1>2 DEF PendingValuesIntact
  <2>1. e \in pending /\ location[e] # d /\ location[e] \in AllLocations
    BY <1>2, <1>3 DEF Readers, TypeOK
  <2>. QED BY <1>2, <2>1 DEF PendingValuesIntact, TypeOK
<1>14. EmittedInPlace'
  <2> SUFFICES ASSUME NEW e \in Dests \ pending'
               PROVE  regs'[e] = source[e]
    BY <1>2 DEF EmittedInPlace
  <2>1. e \in AllLocations
    BY DEF TypeOK, AssignmentsOK, Dests, AllLocations
  <2>2. CASE e = d
    BY <1>1, <1>2, <2>2 DEF PendingValuesIntact, TypeOK
  <2>3. CASE e # d
    BY <1>2, <2>1, <2>3 DEF EmittedInPlace, TypeOK
  <2>. QED BY <2>2, <2>3
<1>15. OthersUntouched'
  BY <1>1, <1>2 DEF OthersUntouched, TypeOK, AllLocations
<1>16. OrderingOver'
  BY <1>2 DEF OrderingOver
<1>. QED BY <1>9, <1>10, <1>11, <1>12, <1>13, <1>14, <1>15, <1>16

(* Breaking a cycle: the scratch location has no reader, so nothing is     *)
(* lost, and afterwards it has the readers of the freed location.          *)
LEMMA BreakCycleStep ==
  ASSUME IInv, NEW d \in candidates, BreakCycle(d)
  PROVE  IInv'
<1>. USE DEF IInv
<1>0. PICK old : old = location[d]
  OBVIOUS
<1>. DEFINE users == {e \in pending : location[e] = old}
<1>1. /\ d \in pending /\ d \in Dests /\ scratch # <<>>
      /\ old \in AllLocations /\ CycleScratch \in AllLocations
      /\ CycleScratch \notin Locations
  BY <1>0, CycleScratchApart DEF BreakCycle, InCycle, TypeOK, AllLocations
<1>2. /\ pending' = pending /\ source' = source /\ Dests' = Dests
      /\ scratch' = scratch /\ CycleScratch' = CycleScratch
      /\ phase' = phase /\ phase = "order" /\ ready = {}
      /\ regs' = [regs EXCEPT ![CycleScratch] = regs[old]]
      /\ location' = [e \in Dests |-> IF e \in users THEN CycleScratch ELSE location[e]]
      /\ nSources' = [nSources EXCEPT ![old] = 0, ![CycleScratch] = Cardinality(users)]
      /\ ready' = Freed(old, pending, nSources')
      /\ candidates' \subseteq candidates
  BY <1>0 DEF BreakCycle, Emit, NoReady, Dests, TypeOK, CycleScratch
<1>3. \A e \in pending : location[e] # CycleScratch
  BY NoReaderOfScratch DEF OneScratchIsEnough, BreakCycle
<1>4. old # CycleScratch /\ d \in users /\ users = Readers(old)
  BY <1>0, <1>1, <1>3 DEF Readers
<1>5. \A l : /\ IsFiniteSet(Readers(l)) /\ Cardinality(Readers(l)) \in Nat
             /\ Cardinality(Readers(l)) = 0 <=> Readers(l) = {}
  BY ReadersFinite
<1>6. \A l \in AllLocations : nSources[l] = Cardinality(Readers(l))
  BY DEF CountsExact, Readers
<1>7. pending \subseteq Dests /\ Dests \subseteq Locations /\ Locations \subseteq AllLocations
  BY DEF TypeOK, AssignmentsOK, Dests, AllLocations
<1>8. \A e \in pending : location'[e] = IF location[e] = old THEN CycleScratch ELSE location[e]
  BY <1>2, <1>7
<1>9. /\ Readers(old)' = {}
      /\ Readers(CycleScratch)' = users
      /\ \A l : l # old /\ l # CycleScratch => Readers(l)' = Readers(l)
  <2>1. \A l : Readers(l)' = {e \in pending : location'[e] = l}
    BY <1>2 DEF Readers
  <2>2. Readers(old)' = {}
    BY <2>1, <1>8, <1>4
  <2>3. Readers(CycleScratch)' = users
    BY <1>2, <1>8, <1>3, <1>4 DEF Readers
  <2>4. ASSUME NEW l, l # old, l # CycleScratch
        PROVE  Readers(l)' = Readers(l)
    BY <2>1, <2>4, <1>8 DEF Readers
  <2>. QED BY <2>2, <2>3, <2>4
<1>. HIDE DEF users
<1>10. \A l \in AllLocations : nSources'[l] = Cardinality(Readers(l)')
  <2> SUFFICES ASSUME NEW l \in AllLocations
               PROVE  nSources'[l] = Cardinality(Readers(l)')
    OBVIOUS
  <2>1. CASE l = old
    <3>1. Cardinality({}) = 0
      BY FS_EmptySet
    <3>2. nSources'[old] = 0
      BY <1>1, <1>2, <1>4 DEF TypeOK
    <3>. QED BY <3>1, <3>2, <1>9, <2>1
  <2>2. CASE l = CycleScratch
    BY <1>1, <1>2, <1>9, <2>2 DEF TypeOK
  <2>3. CASE l # old /\ l # CycleScratch
    BY <1>2, <1>6, <1>9, <2>3 DEF TypeOK
  <2>. QED BY <2>1, <2>2, <2>3
<1>11. Cardinality(users) \in Nat
  BY <1>4, <1>5
<1>12. TypeOK'
  <2>1. location' \in [Dests -> AllLocations]
    BY <1>1, <1>2 DEF TypeOK
  <2>2. nSources' \in [AllLocations -> Nat]
    BY <1>2, <1>11 DEF TypeOK
  <2>3. regs' \in [AllLocations -> AllLocations]
    BY <1>1, <1>2 DEF TypeOK
  <2>4. ready' \subseteq pending
    BY <1>2 DEF Freed
  <2>. QED BY <1>2, <2>1, <2>2, <2>3, <2>4 DEF TypeOK
<1>13. AssignmentsOK'
  <2>1. \A e \in Dests : location'[e] \in {source[e], CycleScratch}
    BY <1>2 DEF AssignmentsOK
  <2>. QED BY <1>1, <1>2, <2>1 DEF AssignmentsOK
<1>14. CountsExact'
  BY <1>10 DEF CountsExact, Readers
<1>15. ReadyExact'
  <2> SUFFICES ASSUME NEW e \in pending
               PROVE  e \in ready' <=> Readers(e)' = {}
    BY <1>2 DEF ReadyExact
  <2>1. e \in AllLocations /\ e # CycleScratch
    BY <1>1, <1>7
  <2>2. Readers(e) # {}
    BY <1>2 DEF ReadyExact
  <2>3. e \in ready' <=> e = old /\ nSources'[old] = 0
    BY <1>2 DEF Freed
  <2>4. nSources'[old] = 0
    BY <1>1, <1>2, <1>4 DEF TypeOK
  <2>. QED BY <2>1, <2>2, <2>3, <2>4, <1>9
<1>16. PendingValuesIntact'
  <2> SUFFICES ASSUME NEW e \in pending
               PROVE  regs'[location'[e]] = source[e]
    BY <1>2 DEF PendingValuesIntact
  <2>1. regs[location[e]] = source[e] /\ location[e] # CycleScratch /\ location[e] \in AllLocations
    BY <1>3, <1>7 DEF PendingValuesIntact, TypeOK
  <2>2. CASE location[e] = old
    BY <1>1, <1>2, <1>8, <2>1, <2>2 DEF TypeOK
  <2>3. CASE location[e] # old
    BY <1>1, <1>2, <1>8, <2>1, <2>3 DEF TypeOK
  <2>. QED BY <2>2, <2>3
<1>17. \A l \in Locations : regs'[l] = regs[l]
  BY <1>1, <1>2, <1>7 DEF TypeOK
<1>18. EmittedInPlace' /\ OthersUntouched'
  BY <1>2, <1>7, <1>17 DEF EmittedInPlace, OthersUntouched
<1>19. OrderingOver'
  BY <1>2 DEF OrderingOver
<1>. QED BY <1>12, <1>13, <1>14, <1>15, <1>16, <1>18, <1>19

(* The other steps leave the ordering as it is.                            *)
LEMMA OtherSteps ==
  ASSUME IInv,
         \/ CycleScratchMissing \/ Ordered \/ LegalizeDirect \/ LegalizeThroughScratch
         \/ LegalizeScratchMissing \/ Legalized \/ UNCHANGED vars
  PROVE  IInv'
<1>1. /\ UNCHANGED <<source, scratch, pending, location, nSources, ready, candidates, regs>>
      /\ phase' \in {"order", "legalize", "done", "failed"}
      /\ phase' \notin {"order", "failed"} => pending = {}
  BY DEF CycleScratchMissing, Ordered, LegalizeDirect, LegalizeThroughScratch,
         LegalizeScratchMissing, Legalized, vars, orderVars, IInv, TypeOK, OrderingOver
<1>2. Dests' = Dests /\ CycleScratch' = CycleScratch /\ \A l : Readers(l)' = Readers(l)
  BY <1>1 DEF Dests, Readers, CycleScratch
<1>. QED
  BY <1>1, <1>2 DEF IInv, TypeOK, AssignmentsOK, CountsExact, ReadyExact, PendingValuesIntact,
                    EmittedInPlace, OthersUntouched, OrderingOver

(* The bookkeeping and the contents of the locations stay related.         *)
THEOREM InductiveInvariant == Spec => []IInv
<1>1. IInv /\ [Next]_vars => IInv'
  <2> SUFFICES ASSUME IInv, [Next]_vars PROVE IInv'
    OBVIOUS
  <2>1. CASE \E d \in ready : EmitReady(d)
    BY <2>1, EmitReadyStep
  <2>2. CASE \E d \in candidates : BreakCycle(d)
    BY <2>2, BreakCycleStep
  <2>3. CASE \/ CycleScratchMissing \/ Ordered \/ LegalizeDirect \/ LegalizeThroughScratch
             \/ LegalizeScratchMissing \/ Legalized \/ UNCHANGED vars
    BY <2>3, OtherSteps
  <2>. QED BY <2>1, <2>2, <2>3 DEF Next, Finished
<1>. QED BY <1>1, InitIInv, PTL DEF Spec

(* The bookkeeping is well typed and the reader counts are exact: the      *)
(* resolver's fatal count checks cannot fire.                              *)
THEOREM Bookkeeping == Spec => [](TypeOK /\ CountsExact)
<1>1. IInv => TypeOK /\ CountsExact
  BY DEF IInv
<1>. QED BY <1>1, InductiveInvariant, PTL

(* Emitted moves never destroy a value a pending assignment needs.         *)
THEOREM ValuesSurvive == Spec => []PendingValuesIntact
<1>1. IInv => PendingValuesIntact
  BY DEF IInv
<1>. QED BY <1>1, InductiveInvariant, PTL

(* The ordered moves do what the simultaneous assignment asks for, for any *)
(* locations and any assignments.                                          *)
THEOREM OrderingCorrect == Spec => []OrderedMovesShuffle
<1>1. IInv => OrderedMovesShuffle
  BY DEF IInv, OrderedMovesShuffle, Shuffled, OrderingOver, EmittedInPlace, OthersUntouched
<1>. QED BY <1>1, InductiveInvariant, PTL

(* One scratch location is enough for any number of cycles.                *)
THEOREM ScratchSuffices == Spec => []OneScratchIsEnough
<1>. QED BY NoReaderOfScratch, InductiveInvariant, PTL

-----------------------------------------------------------------------------
(* The candidates that were passed over are emitted, and those already     *)
(* broken read the scratch location until they are emitted.                *)
CandidatesLeft ==
  \A d \in pending \ candidates : scratch # <<>> /\ location[d] = CycleScratch

(* Some cycle is left whenever something is pending and nothing is ready:  *)
(* the resolver's fatal "no ready move or cycle" cannot be reached.        *)
CycleLeft == NoReady => \E d \in candidates : InCycle(d)

\* Every step keeps CandidatesLeft.
LEMMA CandidatesStep ==
  ASSUME IInv, CandidatesLeft, [Next]_vars
  PROVE  CandidatesLeft'
<1>1. CASE \E d \in ready : EmitReady(d)
  BY <1>1 DEF EmitReady, Emit, CandidatesLeft, CycleScratch
<1>2. ASSUME NEW d \in candidates, BreakCycle(d)
      PROVE  CandidatesLeft'
  <2>1. /\ pending' = pending /\ scratch' = scratch /\ CycleScratch' = CycleScratch
        /\ scratch # <<>>
        /\ location' = [e \in Dests |-> IF e \in pending /\ location[e] = location[d]
                                        THEN CycleScratch ELSE location[e]]
        /\ pending \subseteq Dests
    BY <1>2 DEF BreakCycle, CycleScratch, IInv, TypeOK
  <2>2. PICK passed \in SUBSET {e \in candidates : ~InCycle(e)} : candidates' = candidates \ (passed \cup {d})
    BY <1>2 DEF BreakCycle
  <2>3. \A e \in pending : InCycle(e)
    <3>1. ASSUME NEW e \in pending
          PROVE  nSources[e] # 0
      <4>1. e \in AllLocations /\ Readers(e) # {}
        BY <1>2 DEF BreakCycle, NoReady, IInv, ReadyExact, TypeOK, AssignmentsOK, Dests, AllLocations
      <4>. QED BY <4>1, ReadersFinite DEF IInv, CountsExact, Readers
    <3>. QED BY <3>1 DEF InCycle
  <2>4. ASSUME NEW e \in pending, e \notin candidates'
        PROVE  scratch' # <<>> /\ location'[e] = CycleScratch
    <3>1. e = d \/ e \notin candidates
      BY <2>2, <2>3, <2>4
    <3>2. CASE e = d
      BY <3>2, <2>1
    <3>3. CASE e \notin candidates
      BY <3>3, <2>1 DEF CandidatesLeft
    <3>. QED BY <3>1, <3>2, <3>3
  <2>. QED BY <2>1, <2>4 DEF CandidatesLeft
<1>3. CASE \/ CycleScratchMissing \/ Ordered \/ LegalizeDirect \/ LegalizeThroughScratch
           \/ LegalizeScratchMissing \/ Legalized \/ Finished \/ UNCHANGED vars
  BY <1>3 DEF CycleScratchMissing, Ordered, LegalizeDirect, LegalizeThroughScratch,
              LegalizeScratchMissing, Legalized, Finished, vars, orderVars, CandidatesLeft, CycleScratch
<1>. QED BY <1>1, <1>2, <1>3 DEF Next

(* Ordering never stops halfway: with something pending, a move is ready   *)
(* or there is a cycle to break.                                           *)
THEOREM OrderingNeverStuck == Spec => []CycleLeft
<1>1. Init => CandidatesLeft
  BY DEF Init, CandidatesLeft
<1>2. Spec => []CandidatesLeft
  BY <1>1, CandidatesStep, InductiveInvariant, PTL DEF Spec
<1>3. ASSUME IInv, CandidatesLeft
      PROVE  CycleLeft
  <2> SUFFICES ASSUME NoReady PROVE \E d \in candidates : InCycle(d)
    BY DEF CycleLeft
  <2>1. PICK d : d \in pending
    BY DEF NoReady
  <2>2. d \in AllLocations /\ Readers(d) # {}
    BY <2>1, <1>3 DEF NoReady, IInv, ReadyExact, TypeOK, AssignmentsOK, Dests, AllLocations
  <2>3. InCycle(d)
    BY <2>1, <2>2, <1>3, ReadersFinite DEF IInv, CountsExact, Readers, InCycle
  <2>. QED BY <2>1, <2>3, <1>3, NoReaderOfScratch DEF OneScratchIsEnough, CandidatesLeft
<1>. QED BY <1>2, <1>3, InductiveInvariant, PTL

-----------------------------------------------------------------------------
(* Legalization.  What the ordered moves leave in the locations, step by   *)
(* step, is a function h of the number of moves done; the legalized moves  *)
(* agree with it on the locations of the assignment and on those that a    *)
(* later move reads.  The scratch registers that splits go through are     *)
(* neither.                                                                *)
Contents == [AllLocations -> AllLocations]
MovesOK ==
  /\ moves \in Seq(Range(moves))
  /\ \A i \in 1 .. Len(moves) : moves[i].loc \in AllLocations /\ moves[i].dest \in AllLocations
Executes(h) ==
  /\ h \in [0 .. Len(moves) -> Contents]
  /\ h[0] = Initially
  /\ \A i \in 1 .. Len(moves) : h[i] = [h[i - 1] EXCEPT ![moves[i].dest] = h[i - 1][moves[i].loc]]
  /\ h[Len(moves)] = regs
Agrees(h) == \A l \in Locations \cup FutureSources : machine[l] = h[next - 1][l]

LegalInv ==
  /\ MovesOK
  /\ next \in 1 .. Len(moves) + 1
  /\ machine \in Contents
  /\ phase = "order" => next = 1 /\ machine = Initially
  /\ phase = "done" => next = Len(moves) + 1
  /\ \E h : Executes(h) /\ Agrees(h)

\* The initial state of the legalization.
LEMMA InitLegal == Init => LegalInv
<1> SUFFICES ASSUME Init PROVE LegalInv
  OBVIOUS
<1>. DEFINE h == [i \in 0 .. 0 |-> Initially]
<1>1. moves = <<>> /\ Len(moves) = 0 /\ next = 1 /\ regs = Initially /\ machine = Initially
  BY DEF Init
<1>2. MovesOK
  BY <1>1, EmptySeq DEF MovesOK
<1>3. Initially \in Contents
  BY DEF Initially, Contents
<1>4. Executes(h) /\ Agrees(h)
  BY <1>1, <1>3 DEF Executes, Agrees
<1>. QED BY <1>1, <1>2, <1>3, <1>4 DEF LegalInv, Init

(* A move that is emitted extends the execution by one step.               *)
LEMMA EmitLegal ==
  ASSUME LegalInv, phase = "order", phase' = "order", regs \in Contents,
         NEW from, NEW l \in AllLocations, NEW d \in AllLocations,
         Emit(from, l, d), UNCHANGED <<next, machine>>
  PROVE  LegalInv'
<1>. DEFINE m == [from |-> from, loc |-> l, dest |-> d]
<1>0. PICK n : n = Len(moves)
  OBVIOUS
<1>1. moves' = Append(moves, m) /\ regs' = [regs EXCEPT ![d] = regs[l]]
  BY DEF Emit
<1>2. moves \in Seq(Range(moves)) /\ n \in Nat
  BY <1>0, LenProperties DEF LegalInv, MovesOK
<1>3. /\ moves' \in Seq(Range(moves) \cup {m}) /\ Len(moves') = n + 1
      /\ \A i \in 1 .. n : moves'[i] = moves[i]
      /\ moves'[n + 1] = m
  <2>1. moves \in Seq(Range(moves) \cup {m})
    BY <1>2, SeqMonotonic
  <2>. QED BY <2>1, <1>0, <1>1, <1>2, AppendProperties
<1>4. moves' \in Seq(Range(moves'))
  <2>1. \A i \in 1 .. n + 1 : moves'[i] \in Range(moves') /\ DOMAIN moves' = 1 .. n + 1
    BY <1>2, <1>3, LenProperties DEF Range
  <2>. QED BY <2>1, <1>2, <1>3
<1>5. MovesOK'
  BY <1>0, <1>2, <1>3, <1>4 DEF LegalInv, MovesOK
<1>6. PICK h : Executes(h)
  BY DEF LegalInv
<1>7. regs' \in Contents
  BY <1>1 DEF Contents
<1>. HIDE DEF m
<1>8. PICK g : g = [i \in 0 .. n + 1 |-> IF i \in 0 .. n THEN h[i] ELSE regs']
  OBVIOUS
<1>9. /\ h \in [0 .. n -> Contents] /\ h[0] = Initially /\ h[n] = regs
      /\ \A i \in 1 .. n : h[i] = [h[i - 1] EXCEPT ![moves[i].dest] = h[i - 1][moves[i].loc]]
  BY <1>0, <1>6 DEF Executes
<1>10. /\ g \in [0 .. n + 1 -> Contents] /\ g[n + 1] = regs'
       /\ \A i \in 0 .. n : g[i] = h[i]
  BY <1>2, <1>7, <1>8, <1>9
<1>11. ASSUME NEW i \in 1 .. n + 1
       PROVE  g[i] = [g[i - 1] EXCEPT ![moves'[i].dest] = g[i - 1][moves'[i].loc]]
  <2>1. CASE i \in 1 .. n
    <3>1. i - 1 \in 0 .. n /\ i \in 0 .. n
      BY <2>1, <1>2
    <3>. QED BY <3>1, <2>1, <1>3, <1>9, <1>10
  <2>2. CASE i = n + 1
    <3>1. moves'[i].dest = d /\ moves'[i].loc = l
      BY <2>2, <1>3 DEF m
    <3>2. g[i] = regs' /\ g[i - 1] = regs
      BY <2>2, <1>2, <1>9, <1>10
    <3>. QED BY <3>1, <3>2, <1>1
  <2>. QED BY <2>1, <2>2, <1>2
<1>12. Executes(g)'
  BY <1>2, <1>3, <1>9, <1>10, <1>11, SMTT(40) DEF Executes, Contents, Initially
<1>13. Agrees(g)'
  <2>1. next' = 1 /\ machine' = Initially /\ g[0] = Initially
    BY <1>2, <1>9, <1>10 DEF LegalInv
  <2>. QED BY <2>1 DEF Agrees
<1>. QED BY <1>0, <1>2, <1>3, <1>5, <1>12, <1>13 DEF LegalInv

(* One legalized move does what the ordered move it stands for does, and   *)
(* nothing else to a location that is still of interest.                   *)
LEMMA MoveLegal ==
  ASSUME LegalInv, next \in 1 .. Len(moves), UNCHANGED <<moves, regs>>,
         phase = "legalize", phase' = "legalize", next' = next + 1,
         NEW S, S \cap (Locations \cup FutureSources) = {},
         machine' \in Contents,
         machine'[moves[next].dest] = machine[moves[next].loc],
         \A l \in AllLocations \ S : l # moves[next].dest => machine'[l] = machine[l]
  PROVE  LegalInv'
<1>1. PICK h : Executes(h) /\ Agrees(h)
  BY DEF LegalInv
<1>2. moves[next].loc \in FutureSources /\ moves[next].dest \in AllLocations /\ moves[next].loc \in AllLocations
  BY DEF FutureSources, LegalInv, MovesOK
<1>3. Executes(h)'
  BY <1>1 DEF Executes, Contents, Initially
<1>4. FutureSources' \subseteq FutureSources /\ FutureSources \subseteq AllLocations
  BY DEF FutureSources, LegalInv, MovesOK
<1>5. h[next] = [h[next - 1] EXCEPT ![moves[next].dest] = h[next - 1][moves[next].loc]]
      /\ h[next - 1] \in Contents
  BY <1>1, SMTT(40) DEF Executes
<1>6. ASSUME NEW l \in Locations \cup FutureSources'
      PROVE  machine'[l] = h[next][l]
  <2>1. l \in AllLocations /\ l \in Locations \cup FutureSources /\ l \notin S
    BY <1>4 DEF AllLocations
  <2>2. CASE l = moves[next].dest
    BY <2>2, <2>1, <1>1, <1>2, <1>5 DEF Agrees, Contents
  <2>3. CASE l # moves[next].dest
    BY <2>3, <2>1, <1>1, <1>2, <1>5 DEF Agrees, Contents
  <2>. QED BY <2>2, <2>3
<1>7. Agrees(h)'
  <2>1. next' - 1 = next
    BY DEF LegalInv
  <2>. QED BY <2>1, <1>6 DEF Agrees
<1>8. MovesOK' /\ next' \in 1 .. Len(moves') + 1
  BY DEF LegalInv, MovesOK
<1>. QED BY <1>3, <1>7, <1>8 DEF LegalInv

\* Every step keeps the invariant of the legalization.
LEMMA LegalStep ==
  ASSUME IInv, LegalInv, [Next]_vars
  PROVE  LegalInv'
<1>1. ASSUME NEW d \in ready, EmitReady(d)
      PROVE  LegalInv'
  <2>1. d \in AllLocations /\ location[d] \in AllLocations /\ regs \in Contents
    BY DEF IInv, TypeOK, AssignmentsOK, Dests, AllLocations, Contents
  <2>2. Emit(FromOf(d), location[d], d) /\ UNCHANGED <<phase, next, machine>> /\ phase = "order"
    BY <1>1 DEF EmitReady
  <2>. QED BY <2>1, <2>2, EmitLegal
<1>2. ASSUME NEW d \in candidates, BreakCycle(d)
      PROVE  LegalInv'
  <2>1. Emit(FromOf(d), location[d], CycleScratch) /\ UNCHANGED <<phase, next, machine>>
        /\ phase = "order" /\ scratch # <<>> /\ d \in pending
    BY <1>2 DEF BreakCycle, NoReady, InCycle
  <2>2. location[d] \in AllLocations /\ regs \in Contents /\ CycleScratch \in AllLocations
    BY <2>1, CycleScratchApart DEF IInv, TypeOK, Contents
  <2>. QED BY <2>1, <2>2, EmitLegal
<1>3. CASE LegalizeDirect
  <2>1. next \in 1 .. Len(moves) /\ moves[next].dest \in AllLocations /\ moves[next].loc \in AllLocations
    BY <1>3 DEF LegalizeDirect, LegalInv, MovesOK
  <2>2. /\ machine' = [machine EXCEPT ![moves[next].dest] = machine[moves[next].loc]]
        /\ UNCHANGED <<moves, regs>> /\ phase = "legalize" /\ phase' = "legalize" /\ next' = next + 1
    BY <1>3 DEF LegalizeDirect, orderVars
  <2>3. machine \in Contents
    BY DEF LegalInv
  <2>4. /\ machine' \in Contents /\ machine'[moves[next].dest] = machine[moves[next].loc]
        /\ \A l \in AllLocations \ {} : l # moves[next].dest => machine'[l] = machine[l]
    BY <2>1, <2>2, <2>3 DEF Contents
  <2>5. {} \cap (Locations \cup FutureSources) = {}
    OBVIOUS
  <2>. QED BY <2>1, <2>2, <2>4, <2>5, MoveLegal
<1>4. CASE LegalizeThroughScratch
  <2>1. next \in 1 .. Len(moves) /\ moves[next].dest \in AllLocations /\ moves[next].loc \in AllLocations
    BY <1>4 DEF LegalizeThroughScratch, LegalInv, MovesOK
  <2>2. scratch \in Seq(Range(scratch)) /\ Range(scratch) \cap Locations = {} /\ Range(scratch) \subseteq AllLocations
    BY ScratchApart DEF IInv, TypeOK, AllLocations
  <2>3. Available \in SUBSET Nat /\ Available \subseteq DOMAIN scratch /\ Available # {}
    <3>1. DOMAIN scratch = 1 .. Len(scratch) /\ Len(scratch) \in Nat
      BY <2>2, LenProperties
    <3>2. Available \subseteq DOMAIN scratch
      BY DEF Available
    <3>3. Available # {}
      BY <1>4 DEF LegalizeThroughScratch
    <3>4. DOMAIN scratch \subseteq Nat
      BY <3>1
    <3>. QED BY <3>2, <3>3, <3>4
  <2>4. PICK k : k = CHOOSE i \in Available : \A j \in Available : i <= j
    OBVIOUS
  <2>5. k \in Available
    BY <2>3, <2>4, LeastElement
  <2>6. PICK s : s = scratch[k]
    OBVIOUS
  <2>7. s \in Range(scratch) /\ s \in AllLocations /\ {s} \cap (Locations \cup FutureSources) = {}
    BY <2>2, <2>3, <2>5, <2>6 DEF Available, Range
  <2>8. /\ machine' = [machine EXCEPT ![s] = machine[moves[next].loc],
                                      ![moves[next].dest] = machine[moves[next].loc]]
        /\ UNCHANGED <<moves, regs>> /\ phase = "legalize" /\ phase' = "legalize" /\ next' = next + 1
    BY <1>4, <2>4, <2>6 DEF LegalizeThroughScratch, orderVars
  <2>9. machine \in Contents
    BY DEF LegalInv
  <2>10. /\ machine' \in Contents /\ machine'[moves[next].dest] = machine[moves[next].loc]
         /\ \A l \in AllLocations \ {s} : l # moves[next].dest => machine'[l] = machine[l]
    BY <2>1, <2>7, <2>8, <2>9 DEF Contents
  <2>. QED BY <2>1, <2>7, <2>8, <2>10, MoveLegal
<1>5. CASE CycleScratchMissing \/ Ordered \/ LegalizeScratchMissing \/ Legalized \/ UNCHANGED vars
  <2>1. UNCHANGED <<moves, regs, next, machine>>
    BY <1>5 DEF CycleScratchMissing, Ordered, LegalizeScratchMissing, Legalized, vars, orderVars
  <2>2. \A h : Executes(h)' <=> Executes(h)
    BY <2>1 DEF Executes, Contents, Initially
  <2>3. \A h : Agrees(h)' <=> Agrees(h)
    BY <2>1 DEF Agrees, FutureSources
  <2>4. \E h : Executes(h)' /\ Agrees(h)'
    BY <2>2, <2>3 DEF LegalInv
  <2>5. MovesOK' /\ next' \in 1 .. Len(moves') + 1 /\ machine' \in Contents
    BY <2>1 DEF LegalInv, MovesOK, Contents
  <2>6. /\ phase' = "order" => next' = 1 /\ machine' = Initially
        /\ phase' = "done" => next' = Len(moves') + 1
    BY <1>5, <2>1 DEF CycleScratchMissing, Ordered, LegalizeScratchMissing, Legalized, vars, LegalInv, Initially
  <2>. QED BY <2>4, <2>5, <2>6 DEF LegalInv, Contents, Initially
<1>. QED BY <1>1, <1>2, <1>3, <1>4, <1>5 DEF Next, Finished

(* The legalized moves do what the simultaneous assignment asks for, for   *)
(* any locations, stack slots and scratch lists.                           *)
THEOREM LegalizationCorrect == Spec => []LegalizedMovesShuffle
<1>1. Spec => []LegalInv
  BY InitLegal, LegalStep, InductiveInvariant, PTL DEF Spec
<1>2. ASSUME IInv, LegalInv
      PROVE  LegalizedMovesShuffle
  <2> SUFFICES ASSUME phase = "done" PROVE Shuffled(machine)
    BY DEF LegalizedMovesShuffle
  <2>1. Shuffled(regs)
    BY <1>2 DEF IInv, Shuffled, OrderingOver, EmittedInPlace, OthersUntouched
  <2>2. PICK h : Executes(h) /\ Agrees(h)
    BY <1>2 DEF LegalInv
  <2>3. h[next - 1] = regs
    BY <1>2, <2>2 DEF LegalInv, Executes, MovesOK
  <2>. QED BY <2>1, <2>2, <2>3 DEF Agrees, Shuffled
<1>. QED BY <1>1, <1>2, InductiveInvariant, PTL

=============================================================================
