----------------------------- MODULE MCIssueCache -----------------------------
(* Model values for the IssueCache runs. *)
EXTENDS IssueCache
CONSTANTS i1, i2, m1, m2

=============================================================================
