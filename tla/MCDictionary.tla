---------------------------- MODULE MCDictionary ----------------------------
(* Dictionary on small instances: three keys, two of which have the same    *)
(* hash; arrays of two that may grow to four.                               *)
EXTENDS Dictionary

CONSTANTS k1, k2, k3, v1, v2

MCHash == [k \in Keys |-> IF k = k3 THEN 0 ELSE 7]
=============================================================================
