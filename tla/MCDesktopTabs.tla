----------------------------- MODULE MCDesktopTabs -----------------------------
(* Model values for the DesktopTabs runs. *)
EXTENDS DesktopTabs, TLC

CONSTANTS acme, beta, issues, inbox

(* The workspaces are interchangeable; only safety is checked here. *)
Symmetry == Permutations(Workspaces)
=============================================================================
