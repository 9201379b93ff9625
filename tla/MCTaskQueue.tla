----------------------------- MODULE MCTaskQueue -----------------------------
(* Constant definitions and symmetry for the TaskQueue runs. *)
EXTENDS TaskQueue, TLC

CONSTANTS a1, r1, r2, i1, c1

(* autopilot.go:286 gives its tasks 0; chat tasks and a medium issue have 2 *)
CodePriority == [l \in Links |-> IF l = Autopilot THEN 0 ELSE 2]

RequestSymmetry == Permutations(Requests)
WorkerSymmetry  == Permutations(Workers)
=============================================================================
