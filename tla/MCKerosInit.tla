---------------------------- MODULE MCKerosInit ----------------------------
(* KerosInit with a file of every kind and two complete ones. *)
EXTENDS KerosInit

MCFiles == {"missing", "nokey", "nomember", "empty", "a", "b"}

MCKind == [f \in MCFiles |->
    CASE f = "missing"  -> "unreadable"
      [] f = "nokey"    -> "nokey"
      [] f = "nomember" -> "nomember"
      [] f = "empty"    -> "emptymember"
      [] OTHER          -> "complete"]
=============================================================================
