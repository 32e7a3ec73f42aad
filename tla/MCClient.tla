------------------------------- MODULE MCClient -------------------------------
(* Both clients, and all builds, for TLC. *)
EXTENDS Client
=============================================================================
