--------------------------- MODULE ClassHierarchy ---------------------------
(***************************************************************************)
(* Building classes: the checks on the bases and the C3 linearization that *)
(* fixes a class's __mro__.  Classes are built one at a time; every base   *)
(* exists, with its MRO, before a class that names it.                     *)
(***************************************************************************)
EXTENDS Naturals, Sequences, FiniteSets, Functions

CONSTANTS
  ObjectClass,  \* `object', the root the bootstrap builds
  UserClasses,  \* class objects that class statements may create, not `object'
  MaxBases      \* bound on the bases of one class statement

ASSUME MaxBasesAssumption == MaxBases \in Nat

VARIABLES
  bases,       \* bases[c] of the classes built so far
  mro,         \* mro[c] of the classes built so far
  rejected,    \* the base list last refused with TypeError, or <<>>
  building,    \* the class being built, its bases and its merge, or <<>>
  sequences,   \* the remaining MRO of each base, then the remaining bases
  linearized   \* the MRO found so far

hierarchyVars == <<bases, mro, rejected, building, sequences, linearized>>

Built == DOMAIN mro

-----------------------------------------------------------------------------
\* appears_in_any_tail
AppearsInAnyTail(c, seqs) ==
  \E i \in DOMAIN seqs : \E j \in 2 .. Len(seqs[i]) : seqs[i][j] = c

HasRemaining(seqs) == \E i \in DOMAIN seqs : seqs[i] # <<>>

\* Mutant: only the first sequence with classes left is considered.
FirstHeadOnly(seqs) ==
  LET rest == {i \in DOMAIN seqs : seqs[i] # <<>>}
  IN  {i \in rest : /\ \A j \in rest : i <= j
                   /\ ~AppearsInAnyTail(Head(seqs[i]), seqs)}

\* find_c3_merge_candidate: the first sequence whose head is in no tail.
GoodHeads(seqs) ==
  {i \in DOMAIN seqs : seqs[i] # <<>> /\ ~AppearsInAnyTail(Head(seqs[i]), seqs)}
Candidate(seqs) ==
  Head(seqs[CHOOSE i \in GoodHeads(seqs) : \A j \in GoodHeads(seqs) : i <= j])

\* remove_c3_merge_candidate: no sequence has a class twice, so popping the
\* matching head once leaves none.
RemoveCandidate(c, seqs) ==
  [i \in DOMAIN seqs |->
     IF seqs[i] # <<>> /\ Head(seqs[i]) = c THEN Tail(seqs[i]) ELSE seqs[i]]

NoDuplicates(s) == \A i, j \in DOMAIN s : s[i] = s[j] => i = j
-----------------------------------------------------------------------------
HierarchyInit ==
  /\ bases = [c \in {ObjectClass} |-> <<>>]
  /\ mro = [c \in {ObjectClass} |-> <<ObjectClass>>]
  /\ rejected = <<>>
  /\ building = <<>>
  /\ sequences = <<>>
  /\ linearized = <<>>

\* A class statement reaches ClassObject::make; an empty list of bases has
\* become (object,) in the code generator.  validate_bases refuses a base
\* named twice, otherwise compute_mro starts its merge.
Make(c, bs) ==
  /\ building = <<>>
  /\ IF NoDuplicates(bs)
     THEN /\ building' = <<c, bs>>
          /\ sequences' = Append([i \in DOMAIN bs |-> mro[bs[i]]], bs)
          /\ linearized' = <<c>>
          /\ rejected' = <<>>
     ELSE /\ rejected' = bs
          /\ UNCHANGED <<building, sequences, linearized>>
  /\ UNCHANGED <<bases, mro>>

\* One round of the loop of compute_mro that finds a candidate.
Merge ==
  /\ building # <<>>
  /\ GoodHeads(sequences) # {}
  /\ linearized' = Append(linearized, Candidate(sequences))
  /\ sequences' = RemoveCandidate(Candidate(sequences), sequences)
  /\ UNCHANGED <<bases, mro, rejected, building>>

\* The loop ends with nothing remaining: the class has its MRO.
Finish ==
  /\ building # <<>>
  /\ ~HasRemaining(sequences)
  /\ mro' = [c \in Built \cup {building[1]} |->
               IF c = building[1] THEN linearized ELSE mro[c]]
  /\ bases' = [c \in Built \cup {building[1]} |->
                 IF c = building[1] THEN building[2] ELSE bases[c]]
  /\ building' = <<>> /\ sequences' = <<>> /\ linearized' = <<>>
  /\ UNCHANGED rejected

\* Classes remain and every head is in some tail: TypeError, no class.
Reject ==
  /\ building # <<>>
  /\ HasRemaining(sequences) /\ GoodHeads(sequences) = {}
  /\ rejected' = building[2]
  /\ building' = <<>> /\ sequences' = <<>> /\ linearized' = <<>>
  /\ UNCHANGED <<bases, mro>>

BaseLists(S) == UNION {[1 .. n -> S] : n \in 1 .. MaxBases}
\* Which of the unused class objects is allocated makes no difference.
UnusedClasses == UserClasses \ Built

HierarchyNext ==
  \/ /\ UnusedClasses # {}
     /\ \E bs \in BaseLists(Built) : Make(CHOOSE c \in UnusedClasses : TRUE, bs)
  \/ Merge
  \/ Finish
  \/ Reject

HierarchySpec == HierarchyInit /\ [][HierarchyNext]_hierarchyVars
-----------------------------------------------------------------------------
IsPrecedence(x, y, s) ==
  \E i, j \in DOMAIN s : i < j /\ s[i] = x /\ s[j] = y

\* The order a class may not contradict: that of its base list and those of
\* the MROs of its bases.
Precedes(x, y, bs) ==
  IsPrecedence(x, y, bs) \/ \E i \in DOMAIN bs : IsPrecedence(x, y, mro[bs[i]])

Ancestors(bs) == UNION {Range(mro[bs[i]]) : i \in DOMAIN bs}

(* The MRO of a class lists the class first and then every ancestor        *)
(* exactly once: lookup visits no class twice and misses none.             *)
MroListsAncestors ==
  \A c \in Built \ {ObjectClass} :
    /\ mro[c][1] = c
    /\ NoDuplicates(mro[c])
    /\ Range(mro[c]) = {c} \cup Ancestors(bases[c])

(* A class comes before its own bases wherever it occurs, bases keep the   *)
(* order of the class statement, and a subclass never reorders what its    *)
(* base had ordered (monotonicity).                                        *)
MroKeepsOrder ==
  \A c \in Built : \A x, y \in Range(mro[c]) :
    Precedes(x, y, bases[c]) => IsPrecedence(x, y, mro[c])

(* A base list is refused only for a repeated base or when the orders it   *)
(* must respect really contradict each other: some set of ancestors has no *)
(* member that all of them allow to come first.                            *)
RejectedOnlyIfInconsistent ==
  \/ rejected = <<>>
  \/ ~NoDuplicates(rejected)
  \/ \E S \in (SUBSET Ancestors(rejected)) \ {{}} :
       \A x \in S : \E y \in S : Precedes(y, x, rejected)

(* compute_mro lists the class and every ancestor exactly once, respects   *)
(* the order of the class statement and of every base's MRO, and refuses   *)
(* only bases whose orders contradict each other.                          *)
ClassesLinearized == MroListsAncestors /\ MroKeepsOrder /\ RejectedOnlyIfInconsistent

=============================================================================
