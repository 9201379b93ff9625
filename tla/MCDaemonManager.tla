---------------------------- MODULE MCDaemonManager ----------------------------
(* Model values for the DaemonManager runs. *)
EXTENDS DaemonManager

CONSTANTS u1, u2, c1, c2
=============================================================================
