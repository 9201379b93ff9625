---------------------------- MODULE MCEmptyClaim ----------------------------
(* Model values for the EmptyClaim run. *)
EXTENDS EmptyClaim

CONSTANTS t1, r1, r2, c1, c2
=============================================================================
