----------------------------- MODULE MCSession -----------------------------
(* Constants for checking Session: a timeout, as the header has it.  (A     *)
(* negative one is refused by select and breaks ContractSpec.)              *)
EXTENDS Session, TLC

MCTimeouts == {1000}

\* The two sessions are alike: nothing chooses between them.
MCSymmetry == Permutations(Users)
=============================================================================
