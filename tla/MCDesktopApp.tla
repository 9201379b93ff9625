----------------------------- MODULE MCDesktopApp -----------------------------
(* Model values for the DesktopApp run. *)
EXTENDS DesktopApp

CONSTANTS u1, u2, c1, c2
=============================================================================
