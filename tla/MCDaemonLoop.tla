---------------------------- MODULE MCDaemonLoop ----------------------------
(* Model values for the DaemonLoop runs. *)
EXTENDS DaemonLoop

CONSTANTS p1, p2, s1, s2, h1, h2, u1, u2
=============================================================================
