------------------------------ MODULE MCRecord ------------------------------
(* Record with two files and a name that cannot be opened. *)
EXTENDS Record

MCNames == {"a", "b", "gone"}
MCPieces == [f \in {"a", "b"} |-> IF f = "a" THEN 2 ELSE 1]
=============================================================================
