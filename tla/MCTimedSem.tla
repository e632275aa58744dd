----------------------------- MODULE MCTimedSem -----------------------------
(* Model checking of TimedSem.  A second has two milliseconds of two units,  *)
(* so that timeouts of 0, 1 and 2 reach within, to the end of and past a     *)
(* second, from all its phases or, with the longest, from most.              *)
EXTENDS TimedSem

CONSTANTS t1, t2
MCThreads  == {t1, t2}
MCTimeouts == {-1, 0, 1, 2}
MCJumps    == {-1, 3}
=============================================================================
