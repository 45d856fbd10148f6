------------------------------- MODULE MCHeap -------------------------------
(* Instances of Heap for TLC.  The safety run explores one instance with   *)
(* three ordinary slabs, a dedicated one and two ThreadStates from         *)
(* three sides; each is the part of its behaviours in which something is   *)
(* kept small.                                                             *)
EXTENDS Heap, TLC

CONSTANTS s1, s2, s3, s4, h1, t1, t2
SlabSymmetry == Permutations(OrdinarySlabs)

\* Objects that own each other and are held in frames, in a single slab.
ObjectSide ==
  /\ Cardinality({s \in Slabs : slabState[s] # "unmapped"}) = 1
  /\ \A o \in stack : slabState[SlabOf(o)] = "mapped"
  /\ Registered = {MainThread}

\* Slabs of one ThreadState that fill, empty and are released, the dedicated
\* one included, with few objects that only frames hold.
SlabSide ==
  /\ Registered = {MainThread}
  /\ Cardinality(stack) <= 1
  /\ \A c \in Cells : cell[c] = NotPresent
  /\ Cardinality(valid) <= 2

\* Two ThreadStates, the second of which may end, with one object that
\* native owners take and release.
ThreadSide ==
  /\ stack = {}
  /\ \A c \in Addr \X SlotIndex : cell[c] = NotPresent
  /\ \A s \in LargeSlabs : slabState[s] = "unmapped"
  /\ Cardinality(valid) <= 1

Sides == ObjectSide \/ SlabSide \/ ThreadSide
=============================================================================
