--------------------------- MODULE MCObjectModel ----------------------------
(* The object model in one run: a behaviour builds classes                 *)
(* (ClassHierarchy), uses given ones (LookupCaches) or imports modules     *)
(* (ImportSystem).                                                         *)
EXTENDS LookupCaches, ImportSystem, ClassHierarchy, TLC

-----------------------------------------------------------------------------
(* Class A with subclass B, both below the frozen `object' O, and D, a     *)
(* class whose instance desc is a value that may become a data descriptor. *)

CONSTANTS A, B, D, O, T, b, e, desc, f, g, v, rd, st, del, call

MCMro == (A :> <<A, O>>) @@ (B :> <<B, A, O>>) @@ (D :> <<D, O>>)
           @@ (T :> <<T, O>>) @@ (O :> <<O>>)
MCSiteName == [site \in ReadSites \cup MutationSites |-> "x"]
NoBody == [c \in Classes |-> <<>>]

\* class D: def __set__; assigning D.__get__ makes desc a data descriptor.
Reads ==
  [class |-> (b :> B) @@ (e :> B) @@ (desc :> D),
   body |-> [NoBody EXCEPT ![D] = <<[name |-> Set, value |-> f]>>],
   objects |-> {A, B, b, desc}, sites |-> {rd},
   assigns |-> {<<A, "x", f>>, <<A, "x", desc>>, <<B, "x", desc>>, <<D, Get, f>>,
                <<b, "x", v>>},
   clones |-> 0]

\* Two instances of A that share shapes; assigning D.__set__ makes desc a data
\* descriptor.
Stores ==
  [class |-> (b :> A) @@ (e :> A) @@ (desc :> D),
   body |-> NoBody, objects |-> {}, sites |-> {st, del},
   assigns |-> {<<A, "x", desc>>, <<D, Set, f>>, <<b, "x", v>>, <<e, "x", v>>},
   clones |-> 0]

\* An instance whose class changes.
Migrations ==
  [Stores EXCEPT !.objects = {b}, !.assigns = @ \ {<<e, "x", v>>},
                 !.clones = 1]

Constructions ==
  [class |-> (b :> B) @@ (e :> B) @@ (desc :> D),
   body |-> NoBody, objects |-> {A, B}, sites |-> {call},
   assigns |-> {<<A, New, f>>, <<A, Init_, f>>, <<A, Init_, g>>,
                <<B, Init_, f>>, <<B, Init_, v>>},
   clones |-> 0]

AllPrograms == {Reads, Stores, Migrations, Constructions}
OnlyReads == {Reads}
-----------------------------------------------------------------------------
(* A package pkg with a source submodule pkg_m and a namespace package     *)
(* pkg_ns inside it, a native module nat, sys, and a name nothing is found *)
(* for.                                                                    *)

CONSTANTS pkg, pkg_m, pkg_ns, nat, sys, missing

MCChain == [n \in Names |-> IF n \in {pkg_m, pkg_ns} THEN <<pkg, n>> ELSE <<n>>]
MCSpecKind == [n \in Names |->
  CASE n \in {pkg, pkg_m} -> "source" [] n = pkg_ns -> "namespace" [] n = nat -> "native"
    [] n = sys -> "builtin" [] OTHER -> "none"]

\* Modules that import each other, fail and catch failures.
Circular == [names |-> {pkg, pkg_m, nat}, edits |-> {}, imports |-> 5]
\* Programs that edit sys.modules while imports run.
Editing == [names |-> {pkg, pkg_ns, sys, missing}, edits |-> {Absent, NoneObj, Foreign},
            imports |-> 3]
MCImportPrograms == {Circular, Editing}
-----------------------------------------------------------------------------
(* The parts                                                               *)

VARIABLE part

ModelInit ==
  /\ Init /\ HierarchyInit /\ ImportInit
  /\ part \in {"building", "using", "importing"}
  /\ part # "using" => program = CHOOSE p \in Programs : TRUE
  /\ part # "importing" => importProgram = CHOOSE p \in ImportPrograms : TRUE

ModelNext ==
  \/ part = "using" /\ Next /\ UNCHANGED <<part, hierarchyVars, importVars>>
  \/ part = "building" /\ HierarchyNext /\ UNCHANGED <<part, vars, importVars>>
  \/ part = "importing" /\ ImportNext /\ UNCHANGED <<part, vars, hierarchyVars>>

modelVars == <<part, vars, hierarchyVars, importVars>>
ModelSpec == ModelInit /\ [][ModelNext]_modelVars

LookupPart == ModelInit /\ part = "using"
=============================================================================
