--------------------------- MODULE MCCommsServer ---------------------------
(* CommsServer for TLC. *)
EXTENDS CommsServer
=============================================================================
