---------------------------- MODULE MCServerLive ----------------------------
(***************************************************************************)
(* The liveness of CommsServer for TLC, in two scenes: "live", a table     *)
(* with room for both peers and a user who only waits, and "full", a table *)
(* with room for one of them and a user who disconnects clients and closes *)
(* the server.  Most steps do not depend on the size of the table.         *)
(***************************************************************************)
EXTENDS CommsServer

VARIABLE scene

Full == INSTANCE CommsServer WITH MAX <- 2, MaxMsg <- 0, UserOps <- {"disconnect", "close"}

InLive == scene = "live" /\ UNCHANGED scene
InFull == scene = "full" /\ UNCHANGED scene
Both   == UNCHANGED scene

MCInit == \/ scene = "live" /\ Init
          \/ scene = "full" /\ Full!Init

MCAccepter ==
    \/ Both /\ AccepterWhile
    \/ \E p \in Peers, f \in Fds : Both /\ AccepterAccept(p, f)
    \/ Both /\ AccepterFail
    \/ InLive /\ AccepterInsert
    \/ InFull /\ Full!AccepterInsert
    \/ InFull /\ Full!AccepterFull

MCNext ==
    \/ Both /\ ListenerWhile
    \/ Both /\ ListenerCount
    \/ Both /\ ListenerEndRound
    \/ Both /\ ListenerSlot
    \/ InLive /\ ListenerReceive
    \/ Both /\ ListenerNoData
    \/ Both /\ ListenerDrop
    \/ \E t \in Callers : Both /\ DisconnectEnter(t)
    \/ \E t \in Callers : Both /\ DisconnectClose(t)
    \/ \E t \in Callers : Both /\ DisconnectZero(t)
    \/ \E t \in Callers : Both /\ DisconnectShift(t)
    \/ \E t \in Callers : Both /\ DisconnectClear(t)
    \/ \E t \in Callers : Both /\ DisconnectCount(t)
    \/ MCAccepter
    \/ InFull /\ Full!DisconnectCall(1)
    \/ InFull /\ Full!CloseCall
    \/ InFull /\ CloseCheck
    \/ InFull /\ CloseClose
    \/ InFull /\ CloseMark
    \/ InFull /\ CloseStop
    \/ InFull /\ CloseJoin
    \/ \E p \in Peers : Both /\ PeerConnect(p)
    \/ \E p \in Peers : InLive /\ PeerSend(p)
    \/ \E p \in Peers : Both /\ PeerLeave(p)
    \/ InFull /\ Finished

\* CommsServer!Fairness; only the accepter's steps depend on the scene.
MCFairness ==
    WF_<<vars, scene>>(Listener /\ Both) /\ WF_<<vars, scene>>(MCAccepter)
    /\ WF_<<vars, scene>>(UserStep /\ Both)

MCSpec == MCInit /\ [][MCNext]_<<vars, scene>> /\ MCFairness

\* CommsServer!AccepterEndsAtCapacity of the small table: the accepter ends
\* only at capacity, or when the server is closed (eth_comms.h:637, 651-660).
AccepterEnds == Full!AccepterEndsAtCapacity
=============================================================================
