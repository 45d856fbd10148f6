--------------------------- MODULE ManagedMemory ---------------------------
(***************************************************************************)
(* What the memory subsystem promises to the program that runs on it,      *)
(* without counts, tables, slabs or safepoints: an object is reclaimed     *)
(* only when no owned cell and no borrower refers to it, and an address is *)
(* given out only when no object lives there.                              *)
(***************************************************************************)
CONSTANTS Object, SlotIndex, Handles, NotPresent

VARIABLES
  alive,     \* the objects that exist
  cell,      \* what each owned cell holds
  borrowed   \* what the program holds without owning it

Cells == (Object \X SlotIndex) \cup Handles
Unreferenced(o) == o \notin borrowed /\ \A c \in Cells : cell[c] # o
Accessible == (borrowed \X SlotIndex) \cup Handles

Init ==
  /\ alive = {}
  /\ cell = [c \in Cells |-> NotPresent]
  /\ borrowed = {}

\* A new object, its cells empty, is handed to the program, which may forget
\* something else at the same time.
New(o) ==
  /\ o \in Object \ alive
  /\ alive' = alive \cup {o}
  /\ cell' = [c \in Cells |-> IF c \in {o} \X SlotIndex THEN NotPresent ELSE cell[c]]
  /\ borrowed' \subseteq borrowed \cup {o}

\* The program borrows what a cell it can reach holds, and forgets at will.
Borrow(c) ==
  /\ c \in Accessible
  /\ borrowed' \subseteq borrowed \cup ({cell[c]} \ {NotPresent})
  /\ UNCHANGED <<alive, cell>>

Forget ==
  /\ borrowed' \subseteq borrowed
  /\ UNCHANGED <<alive, cell>>

\* The program stores something it holds in a cell it can reach.
Store(c, v) ==
  /\ c \in Accessible
  /\ v \in borrowed \cup {NotPresent}
  /\ cell' = [cell EXCEPT ![c] = v]
  /\ UNCHANGED <<alive, borrowed>>

\* An object nothing refers to is emptied and destroyed.
Empty(o, i) ==
  /\ o \in alive
  /\ Unreferenced(o)
  /\ i \in SlotIndex
  /\ cell' = [cell EXCEPT ![<<o, i>>] = NotPresent]
  /\ UNCHANGED <<alive, borrowed>>

Destroy(o) ==
  /\ o \in alive
  /\ Unreferenced(o)
  /\ \A i \in SlotIndex : cell[<<o, i>>] = NotPresent
  /\ alive' = alive \ {o}
  /\ UNCHANGED <<cell, borrowed>>

Next ==
  \/ \E o \in Object : New(o) \/ Destroy(o) \/ \E i \in SlotIndex : Empty(o, i)
  \/ \E c \in Cells : Borrow(c) \/ \E v \in borrowed \cup {NotPresent} : Store(c, v)
  \/ Forget

Spec == Init /\ [][Next]_<<alive, cell, borrowed>>
=============================================================================
