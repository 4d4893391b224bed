-------------------------- MODULE MCCommsEndpoint --------------------------
(* CommsEndpoint for TLC: comms_main.c as each kind of endpoint, and programs *)
(* that make any calls, with callbacks that call back.                        *)
EXTENDS CommsEndpoint

AllPrograms ==
    {p \in [kind : Kinds, cb : Callbacks, main : BOOLEAN] :
        /\ p.main => p.cb = "quiet"
        /\ p.kind = "server" => p.cb \in {"none", "quiet"}}
=============================================================================
