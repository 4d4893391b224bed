---------------------------- MODULE ClientRoster ----------------------------
(***************************************************************************)
(* What the server's client table is for: an ordered roster of connected   *)
(* clients, numbered 1, 2, ... without gaps, in the order they joined.     *)
(* Joining and leaving are atomic; a client that leaves renumbers those    *)
(* behind it and disturbs nothing else.                                    *)
(***************************************************************************)
EXTENDS Naturals, Sequences

CONSTANTS
    Peers,
    Limit      \* clients the server can hold

VARIABLES
    roster,    \* the clients, by cid
    serving    \* FALSE once the server is being closed

Members == {roster[i] : i \in 1..Len(roster)}

Init == roster = <<>> /\ serving = TRUE

Join(p) ==
    /\ serving /\ p \notin Members /\ Len(roster) < Limit
    /\ roster' = Append(roster, p)
    /\ UNCHANGED serving

Leave(i) ==
    /\ serving
    /\ roster' = SubSeq(roster, 1, i - 1) \o SubSeq(roster, i + 1, Len(roster))
    /\ UNCHANGED serving

Shutdown == serving /\ serving' = FALSE /\ roster' = <<>>

\* Every step of the roster changes it.
Next ==
    /\ <<roster, serving>>' # <<roster, serving>>
    /\ (\E p \in Peers : Join(p)) \/ (\E i \in 1..Len(roster) : Leave(i)) \/ Shutdown

Spec == Init /\ [][Next]_<<roster, serving>>
=============================================================================
