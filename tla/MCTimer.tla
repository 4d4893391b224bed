------------------------------ MODULE MCTimer ------------------------------
(* Timer for TLC. *)
EXTENDS Timer
=============================================================================
