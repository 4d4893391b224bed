------------------------------ MODULE MCServer ------------------------------
(***************************************************************************)
(* The safety of CommsServer for TLC, in two scenes that share the table   *)
(* and the descriptors: "calls", where two peers talk to a user who calls  *)
(* everything, and "roster", where three peers come and go in silence and  *)
(* the user only disconnects them.                                         *)
(***************************************************************************)
EXTENDS CommsServer, TLC

CONSTANT Third       \* the peer that takes part in "roster" only

VARIABLE scene

\* The other two are interchangeable in both scenes.
PeerSymmetry == Permutations(Peers \ {Third})

Calls  == scene = "calls" /\ UNCHANGED scene
Silent == scene = "roster" /\ UNCHANGED scene
Both   == UNCHANGED scene

MCInit == scene \in {"calls", "roster"} /\ Init

MCNext ==
    \/ Both /\ ListenerWhile
    \/ Both /\ ListenerCount
    \/ Both /\ ListenerEndRound
    \/ Both /\ ListenerSlot
    \/ Calls /\ ListenerReceive
    \/ Both /\ ListenerNoData
    \/ Both /\ ListenerDrop
    \/ \E t \in Callers : Both /\ DisconnectEnter(t)
    \/ \E t \in Callers : Both /\ DisconnectClose(t)
    \/ \E t \in Callers : Both /\ DisconnectZero(t)
    \/ \E t \in Callers : Both /\ DisconnectShift(t)
    \/ \E t \in Callers : Both /\ DisconnectClear(t)
    \/ \E t \in Callers : Both /\ DisconnectCount(t)
    \/ Both /\ AccepterWhile
    \/ \E p \in Peers, f \in Fds : Both /\ AccepterAccept(p, f)
    \/ Both /\ AccepterFail
    \/ Both /\ AccepterInsert
    \/ Calls /\ SendAllCall
    \/ Calls /\ SendAllTest
    \/ Calls /\ SendAllSend
    \/ \E c \in 1 .. MAX - 2 : Calls /\ SendCall(c)
    \/ Calls /\ SendLoad
    \/ Calls /\ SendOne
    \/ \E c \in 1 .. MAX - 2 : Calls /\ DisconnectCall(c)
    \/ \E c \in 1 .. MAX - 1 : Silent /\ DisconnectCall(c)
    \/ Calls /\ CloseCall
    \/ Calls /\ CloseCheck
    \/ Calls /\ CloseClose
    \/ Calls /\ CloseMark
    \/ Calls /\ CloseStop
    \/ Calls /\ CloseJoin
    \/ \E p \in Peers \ {Third} : Calls /\ PeerConnect(p)
    \/ \E p \in Peers : Silent /\ PeerConnect(p)
    \/ \E p \in Peers : Calls /\ PeerSend(p)
    \/ \E p \in Peers : Both /\ PeerLeave(p)
    \/ Both /\ Finished

MCSpec == MCInit /\ [][MCNext]_<<vars, scene>>
=============================================================================
