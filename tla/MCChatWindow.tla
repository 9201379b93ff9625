----------------------------- MODULE MCChatWindow -----------------------------
(* Model values for the ChatWindow run. *)
EXTENDS ChatWindow
CONSTANTS a1, a2, s1, s2, c1, c2

=============================================================================
