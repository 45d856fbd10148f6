-------------------------------- MODULE Ast ---------------------------------
(* A node of the syntax tree: its kind, its name or constant, its operator *)
(* and its children.  The source keeps the nodes in an AstVector.          *)

Node(kind, name, op, ch) == [kind |-> kind, name |-> name, op |-> op, ch |-> ch]
NoNode == Node("ABSENT", "", "", <<>>)      \* child index -1
=============================================================================
