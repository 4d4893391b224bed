---------------------------- MODULE CommsServer ----------------------------
(***************************************************************************)
(* The TCP server of include/eth_comms.h after a successful                *)
(* CommsTCPServerInit with a receive callback: the user's thread, the      *)
(* listener thread that receives from every client, the accepter thread,   *)
(* the operating system's descriptors and the peers.                       *)
(*                                                                         *)
(* Grain: what runs under g_comms_mtx without touching a descriptor is one *)
(* step when it is a few loads; CommsDisconnect, which shifts the client   *)
(* table under the lock, takes one step per store group because CommsSend  *)
(* and CommsClose look at the table without the lock.                      *)
(***************************************************************************)
EXTENDS Integers, FiniteSets

CONSTANTS
    Peers,     \* remote programs, each connects at most once
    MAX,       \* COMMS_MAX_CLIENTS; slot 0 is the listening socket
    MaxFd,     \* largest descriptor the process may hold
    MaxMsg,    \* messages each peer sends (bound)
    UserOps    \* what the user's thread calls

AllUserOps == {"sendall", "send", "disconnect", "close"}
NotAPeer   == {"free", "tty", "listen", "none"}

ASSUME MaxAssumption  == MAX \in Nat /\ MAX >= 2 /\ MaxFd \in Nat /\ MaxFd >= 1
ASSUME PeerAssumption == NotAPeer \cap Peers = {}
ASSUME OpsAssumption  == UserOps \subseteq AllUserOps /\ MaxMsg \in Nat

Slot    == 0 .. MAX - 1
Fds     == 0 .. MaxFd
Callers == {"user", "listener"}         \* the threads that call CommsDisconnect
Threads == Callers \cup {"accepter"}

VARIABLES
    socks,     \* commh->clients_socks
    addr,      \* commh->client_address
    count,     \* commh->client_count
    running,   \* commh->running
    err,       \* commh->err_type
    mutex,     \* owner of g_comms_mtx, or "free"
    fdOwner,   \* what each descriptor of the process refers to
    link,      \* the server's side of each peer's connection
    gone,      \* peers that have closed or reset their side
    inbox,     \* messages of each peer not received yet
    sent,      \* messages each peer has sent
    pc,        \* where each thread is
    cid,       \* i of the thread's loop, or the cid it was called with
    cur,       \* i of the shifting loop of CommsDisconnect
    fd,        \* the descriptor each thread has loaded
    who,       \* the address the listener, or the accepter, has loaded
    limit,     \* local_count of the listener
    raced,     \* (history) another thread closed sockets since the listener looked
    moved,     \* (history) a client was removed since the user's call began
    need,      \* (history) clients there when the user's CommsSend began
    got,       \* (history) how often that call sent to each peer
    disturbed  \* (history) the table changed under CommsClose

table == <<socks, addr, count>>
world == <<fdOwner, link>>
peers == <<gone, inbox, sent>>
local == <<cid, cur, fd, who, limit>>
hist  == <<raced, moved, need, got, disturbed>>
vars  == <<table, running, err, mutex, world, peers, pc, local, hist>>

Init ==
    /\ socks = [i \in Slot |-> IF i = 0 THEN 1 ELSE 0]
    /\ addr = [i \in Slot |-> "none"] /\ count = 1
    /\ running = TRUE /\ err = "NOERROR" /\ mutex = "free"
    /\ fdOwner = [f \in Fds |-> IF f = 0 THEN "tty" ELSE IF f = 1 THEN "listen" ELSE "free"]
    /\ link = [p \in Peers |-> "new"] /\ gone = {}
    /\ inbox = [p \in Peers |-> 0] /\ sent = [p \in Peers |-> 0]
    /\ pc = [user |-> "idle", listener |-> "while", accepter |-> "while"]
    /\ cid = [t \in Callers |-> 0] /\ cur = [t \in Callers |-> 0]
    /\ fd = [t \in Threads |-> 0]
    /\ who = [listener |-> "none", accepter |-> "none"] /\ limit = 0
    /\ raced = FALSE /\ moved = FALSE /\ disturbed = FALSE
    /\ need = {} /\ got = [p \in Peers |-> 0]

At(t, label)   == pc[t] = label
Goto(t, label) == pc' = [pc EXCEPT ![t] = label]

\* The slots that hold clients, and the clients they name.
ClientSlots == 1 .. count - 1
Sending     == pc["user"] \in {"test", "sendto", "load", "sendone"}
Closing     == pc["user"] \in {"check", "close", "mark", "stop", "join", "join2", "closed"}

----------------------------------------------------------------------------
(* The operating system *)

\* shutdown() and close(); of a descriptor that is not open it does nothing.
CloseFd(f) ==
    /\ fdOwner' = IF f \in Fds THEN [fdOwner EXCEPT ![f] = "free"] ELSE fdOwner
    /\ link' = IF f \in Fds /\ fdOwner[f] \in Peers
                 THEN [link EXCEPT ![fdOwner[f]] = "closed"] ELSE link

\* A new descriptor is the lowest that is free.
IsNextFd(f) == fdOwner[f] = "free" /\ \A g \in 0 .. f - 1 : fdOwner[g] # "free"

Refers(f) == IF f \in Fds THEN fdOwner[f] ELSE "free"

PeerConnect(p) ==
    /\ link[p] = "new" /\ "listen" \in {fdOwner[f] : f \in Fds}
    /\ link' = [link EXCEPT ![p] = "queued"]
    /\ UNCHANGED <<table, running, err, mutex, fdOwner, peers, pc, local, hist>>

PeerSend(p) ==
    /\ link[p] \in {"queued", "up"} /\ p \notin gone /\ sent[p] < MaxMsg
    /\ inbox' = [inbox EXCEPT ![p] = @ + 1] /\ sent' = [sent EXCEPT ![p] = @ + 1]
    /\ UNCHANGED <<table, running, err, mutex, world, gone, pc, local, hist>>

\* The peer closes; or it resets, and what it had sent may be lost.
PeerLeave(p) ==
    /\ link[p] \in {"queued", "up"} /\ p \notin gone
    /\ gone' = gone \cup {p}
    /\ \E left \in {0, inbox[p]} : inbox' = [inbox EXCEPT ![p] = left]
    /\ UNCHANGED <<table, running, err, mutex, world, sent, pc, local, hist>>

----------------------------------------------------------------------------
(* CommsDisconnect, called by the user or by the listener for slot cid[t] *)

\* Back to the user's program, or on to the listener's next slot.
Return(t) ==
    /\ Goto(t, IF t = "user" THEN "idle" ELSE "slot")
    /\ cid' = [cid EXCEPT ![t] = IF t = "user" THEN 0 ELSE @ + 1]

\* Faulty variant: the cid is not checked against the table.
DisconnectEnter_NoCheck(t) ==
    /\ At(t, "disconnect") /\ mutex = "free"
    /\ mutex' = t /\ Goto(t, "dclose") /\ UNCHANGED <<err, cid>>
    /\ disturbed' = (disturbed \/ Closing)
    /\ UNCHANGED <<table, running, world, peers, cur, fd, who, limit, raced, moved, need, got>>

\* Faulty variant: the early return forgets to unlock.
DisconnectEnter_KeepsLock(t) ==
    /\ At(t, "disconnect") /\ mutex = "free"
    /\ mutex' = t
    /\ IF cid[t] >= 1 /\ cid[t] < count /\ socks[cid[t]] > 0
         THEN Goto(t, "dclose") /\ UNCHANGED <<err, cid>>
         ELSE err' = "DISCONNECT" /\ Return(t)
    /\ disturbed' = (disturbed \/ Closing)
    /\ UNCHANGED <<table, running, world, peers, cur, fd, who, limit, raced, moved, need, got>>

DisconnectEnter(t) ==
    /\ At(t, "disconnect") /\ mutex = "free"
    /\ IF cid[t] >= 1 /\ cid[t] < count /\ socks[cid[t]] > 0
         THEN mutex' = t /\ Goto(t, "dclose") /\ UNCHANGED <<err, cid>>
         ELSE err' = "DISCONNECT" /\ Return(t) /\ UNCHANGED mutex
    /\ disturbed' = (disturbed \/ Closing)
    /\ UNCHANGED <<table, running, world, peers, cur, fd, who, limit, raced, moved, need, got>>

DisconnectClose(t) ==
    /\ At(t, "dclose")
    /\ CloseFd(IF socks[cid[t]] > 0 THEN socks[cid[t]] ELSE -1)
    /\ Goto(t, "dzero")
    /\ raced' = (raced \/ (t = "user" /\ pc["listener"] \in {"recv", "disconnect"}))
    /\ moved' = (moved \/ Sending)
    /\ UNCHANGED <<table, running, err, mutex, peers, local, need, got, disturbed>>

DisconnectZero(t) ==
    /\ At(t, "dzero")
    /\ socks' = [socks EXCEPT ![cid[t]] = 0] /\ addr' = [addr EXCEPT ![cid[t]] = "none"]
    /\ cur' = [cur EXCEPT ![t] = cid[t]]
    /\ Goto(t, "dshift")
    /\ UNCHANGED <<count, running, err, mutex, world, peers, cid, fd, who, limit, hist>>

\* Faulty variant: addresses stay behind when sockets move.
DisconnectShift_SocketsOnly(t) ==
    /\ At(t, "dshift") /\ cur[t] < count - 1
    /\ socks' = [socks EXCEPT ![cur[t]] = socks[cur[t] + 1]]
    /\ cur'   = [cur EXCEPT ![t] = @ + 1]
    /\ UNCHANGED <<addr, count, running, err, mutex, world, peers, pc, cid, fd, who, limit, hist>>

DisconnectShift(t) ==
    /\ At(t, "dshift") /\ cur[t] < count - 1
    /\ socks' = [socks EXCEPT ![cur[t]] = socks[cur[t] + 1]]
    /\ addr'  = [addr EXCEPT ![cur[t]] = addr[cur[t] + 1]]
    /\ cur'   = [cur EXCEPT ![t] = @ + 1]
    /\ UNCHANGED <<count, running, err, mutex, world, peers, pc, cid, fd, who, limit, hist>>

DisconnectClear(t) ==
    /\ At(t, "dshift") /\ cur[t] >= count - 1
    /\ socks' = [socks EXCEPT ![count - 1] = 0] /\ addr' = [addr EXCEPT ![count - 1] = "none"]
    /\ cur' = [cur EXCEPT ![t] = 0]
    /\ Goto(t, "dcount")
    /\ UNCHANGED <<count, running, err, mutex, world, peers, cid, fd, who, limit, hist>>

DisconnectCount(t) ==
    /\ At(t, "dcount")
    /\ count' = count - 1 /\ mutex' = "free"
    /\ Return(t)
    /\ UNCHANGED <<socks, addr, running, err, world, peers, cur, fd, who, limit, hist>>

Disconnect(t) ==
    DisconnectEnter(t) \/ DisconnectClose(t) \/ DisconnectZero(t) \/ DisconnectShift(t)
    \/ DisconnectClear(t) \/ DisconnectCount(t)

----------------------------------------------------------------------------
(* comms__listener *)

ListenerWhile ==
    /\ At("listener", "while")
    /\ Goto("listener", IF running THEN "count" ELSE "done")
    /\ UNCHANGED <<table, running, err, mutex, world, peers, local, hist>>

\* Faulty variant: off by one, the last client is never looked at.
ListenerCount_Short ==
    /\ At("listener", "count") /\ mutex = "free"
    /\ limit' = count - 1 /\ cid' = [cid EXCEPT !["listener"] = 1]
    /\ Goto("listener", "slot")
    /\ UNCHANGED <<table, running, err, mutex, world, peers, cur, fd, who, hist>>

ListenerCount ==
    /\ At("listener", "count") /\ mutex = "free"
    /\ limit' = count /\ cid' = [cid EXCEPT !["listener"] = 1]
    /\ Goto("listener", "slot")
    /\ UNCHANGED <<table, running, err, mutex, world, peers, cur, fd, who, hist>>

ListenerEndRound ==
    /\ At("listener", "slot") /\ cid["listener"] >= limit
    /\ cid' = [cid EXCEPT !["listener"] = 0] /\ limit' = 0
    /\ Goto("listener", "while")
    /\ UNCHANGED <<table, running, err, mutex, world, peers, cur, fd, who, hist>>

\* Faulty variant: does not take the lock.
ListenerSlot_NoLock ==
    LET i == cid["listener"] IN
    /\ At("listener", "slot") /\ i < limit
    /\ raced' = FALSE
    /\ IF socks[i] <= 0
         THEN cid' = [cid EXCEPT !["listener"] = i + 1] /\ UNCHANGED <<pc, fd, who>>
         ELSE /\ fd'  = [fd EXCEPT !["listener"] = socks[i]]
              /\ who' = [who EXCEPT !["listener"] = addr[i]]
              /\ Goto("listener", "recv") /\ UNCHANGED cid
    /\ UNCHANGED <<table, running, err, mutex, world, peers, cur, limit, moved, need, got, disturbed>>

\* Copy descriptor and address of the slot under the lock.
ListenerSlot ==
    LET i == cid["listener"] IN
    /\ At("listener", "slot") /\ i < limit /\ mutex = "free"
    /\ raced' = FALSE
    /\ IF socks[i] <= 0
         THEN cid' = [cid EXCEPT !["listener"] = i + 1] /\ UNCHANGED <<pc, fd, who>>
         ELSE /\ fd'  = [fd EXCEPT !["listener"] = socks[i]]
              /\ who' = [who EXCEPT !["listener"] = addr[i]]
              /\ Goto("listener", "recv") /\ UNCHANGED cid
    /\ UNCHANGED <<table, running, err, mutex, world, peers, cur, limit, moved, need, got, disturbed>>

\* The loop goes on to its next slot; the copies go out of scope.
ListenerForget ==
    /\ fd'  = [fd EXCEPT !["listener"] = 0]
    /\ who' = [who EXCEPT !["listener"] = "none"]

ListenerNext ==
    /\ ListenerForget
    /\ cid' = [cid EXCEPT !["listener"] = @ + 1]
    /\ Goto("listener", "slot")

\* recv() finds data and the callback runs, with the address copied before.
ListenerReceive ==
    LET from == Refers(fd["listener"]) IN
    /\ At("listener", "recv") /\ from \in Peers /\ inbox[from] > 0
    /\ inbox' = [inbox EXCEPT ![from] = @ - 1]
    /\ ListenerNext
    /\ UNCHANGED <<table, running, err, mutex, world, gone, sent, cur, limit, hist>>

\* EAGAIN or EINTR.
ListenerNoData ==
    LET from == Refers(fd["listener"]) IN
    /\ At("listener", "recv") /\ from \in Peers \ gone /\ inbox[from] = 0
    /\ ListenerNext
    /\ UNCHANGED <<table, running, err, mutex, world, peers, cur, limit, hist>>

\* Faulty variant: drops a client for having nothing to say.
ListenerDrop_Impatient ==
    LET from == Refers(fd["listener"]) IN
    /\ At("listener", "recv")
    /\ from \in Peers => inbox[from] = 0
    /\ ListenerForget
    /\ Goto("listener", "disconnect")
    /\ UNCHANGED <<table, running, err, mutex, world, peers, cid, cur, limit, hist>>

\* Faulty variant: takes the end of the stream for silence.
ListenerDrop_Never ==
    LET from == Refers(fd["listener"]) IN
    /\ At("listener", "recv")
    /\ from \in Peers => from \in gone /\ inbox[from] = 0
    /\ ListenerNext
    /\ UNCHANGED <<table, running, err, mutex, world, peers, cur, limit, hist>>

\* End of stream, or an error: the descriptor is not a connection any more.
ListenerDrop ==
    LET from == Refers(fd["listener"]) IN
    /\ At("listener", "recv")
    /\ from \in Peers => from \in gone /\ inbox[from] = 0
    /\ ListenerForget
    /\ Goto("listener", "disconnect")
    /\ UNCHANGED <<table, running, err, mutex, world, peers, cid, cur, limit, hist>>

----------------------------------------------------------------------------
(* comms_accepter *)

AccepterWhile ==
    /\ At("accepter", "while")
    /\ Goto("accepter", IF running THEN "accept" ELSE "done")
    /\ UNCHANGED <<table, running, err, mutex, world, peers, local, hist>>

AccepterAccept(p, f) ==
    /\ At("accepter", "accept") /\ Refers(socks[0]) = "listen"
    /\ link[p] = "queued" /\ IsNextFd(f)
    /\ fdOwner' = [fdOwner EXCEPT ![f] = p] /\ link' = [link EXCEPT ![p] = "up"]
    /\ fd' = [fd EXCEPT !["accepter"] = f] /\ who' = [who EXCEPT !["accepter"] = p]
    /\ Goto("accepter", "insert")
    /\ disturbed' = (disturbed \/ Closing)
    /\ UNCHANGED <<table, running, err, mutex, peers, cid, cur, limit, raced, moved, need, got>>

\* Faulty variant: ends as soon as nobody waits.
AccepterFail_GivesUp ==
    /\ At("accepter", "accept")
    /\ Refers(socks[0]) # "listen"
          \/ ~(\E p \in Peers, f \in Fds : link[p] = "queued" /\ IsNextFd(f))
    /\ Goto("accepter", "done")
    /\ UNCHANGED <<table, running, err, mutex, world, peers, local, hist>>

\* accept() fails: nobody waits, no descriptor is left, or the socket is closed.
AccepterFail ==
    /\ At("accepter", "accept")
    /\ LET bad == Refers(socks[0]) # "listen"
       IN  /\ bad \/ ~(\E p \in Peers, f \in Fds : link[p] = "queued" /\ IsNextFd(f))
           /\ Goto("accepter", IF bad /\ ~running THEN "done" ELSE "while")
    /\ UNCHANGED <<table, running, err, mutex, world, peers, local, hist>>

AccepterForget ==
    /\ fd'  = [fd EXCEPT !["accepter"] = 0]
    /\ who' = [who EXCEPT !["accepter"] = "none"]

\* Faulty variant: does not take the lock.
AccepterInsert_NoLock ==
    /\ At("accepter", "insert") /\ count < MAX
    /\ socks' = [socks EXCEPT ![count] = fd["accepter"]]
    /\ addr'  = [addr EXCEPT ![count] = who["accepter"]]
    /\ count' = count + 1
    /\ AccepterForget
    /\ Goto("accepter", "while")
    /\ UNCHANGED <<running, err, mutex, world, peers, cid, cur, limit, hist>>

AccepterInsert ==
    /\ At("accepter", "insert") /\ mutex = "free" /\ count < MAX
    /\ socks' = [socks EXCEPT ![count] = fd["accepter"]]
    /\ addr'  = [addr EXCEPT ![count] = who["accepter"]]
    /\ count' = count + 1
    /\ AccepterForget
    /\ Goto("accepter", "while")
    /\ UNCHANGED <<running, err, mutex, world, peers, cid, cur, limit, hist>>

\* At capacity the new client is turned away and the accepter ends.
AccepterFull ==
    /\ At("accepter", "insert") /\ mutex = "free" /\ count >= MAX
    /\ err' = "MAX_CLIENTS"
    /\ CloseFd(IF fd["accepter"] > 0 THEN fd["accepter"] ELSE -1)
    /\ AccepterForget
    /\ Goto("accepter", "done")
    /\ UNCHANGED <<table, running, mutex, peers, cid, cur, limit, hist>>

----------------------------------------------------------------------------
(* comms_send__opt on a server *)

\* send() on f: to a peer it may work or fail (buffer full, connection reset).
SendResult(f, ok) == ok => Refers(f) \in Peers

SendStart(label, c) ==
    /\ At("user", "idle")
    /\ cid' = [cid EXCEPT !["user"] = c]
    /\ need' = {addr[i] : i \in ClientSlots} \cap Peers
    /\ moved' = (mutex # "free")
    /\ Goto("user", label)
    /\ UNCHANGED <<table, running, err, mutex, world, peers, cur, fd, who, limit, raced, got, disturbed>>

SendReturn ==
    /\ Goto("user", "idle")
    /\ cid' = [cid EXCEPT !["user"] = 0]
    /\ need' = {} /\ got' = [p \in Peers |-> 0] /\ moved' = FALSE

SendAllCall == "sendall" \in UserOps /\ SendStart("test", 1)

\* Faulty variant: off by one, the last client is left out.
SendAllTest_Short ==
    /\ At("user", "test")
    /\ IF cid["user"] < count - 1
         THEN Goto("user", "sendto") /\ UNCHANGED <<cid, need, got, moved>>
         ELSE SendReturn
    /\ UNCHANGED <<table, running, err, mutex, world, peers, cur, fd, who, limit, raced, disturbed>>

SendAllTest ==
    /\ At("user", "test")
    /\ IF cid["user"] < count
         THEN Goto("user", "sendto") /\ UNCHANGED <<cid, need, got, moved>>
         ELSE SendReturn
    /\ UNCHANGED <<table, running, err, mutex, world, peers, cur, fd, who, limit, raced, disturbed>>

SendAllSend ==
    LET f == socks[cid["user"]] IN
    /\ At("user", "sendto")
    /\ \/ /\ SendResult(f, TRUE)
          /\ got' = [got EXCEPT ![Refers(f)] = @ + 1]
          /\ cid' = [cid EXCEPT !["user"] = @ + 1]
          /\ Goto("user", "test")
          /\ UNCHANGED <<err, need, moved>>
       \/ /\ SendResult(f, FALSE)
          /\ err' = "FAILED_TO_SEND"
          /\ SendReturn
    /\ UNCHANGED <<table, running, mutex, world, peers, cur, fd, who, limit, raced, disturbed>>

SendCall(c) == "send" \in UserOps /\ SendStart("load", c)

\* Faulty variant: cids are taken to start at slot 0.
SendLoad_FromZero ==
    /\ At("user", "load")
    /\ fd' = [fd EXCEPT !["user"] = socks[cid["user"] - 1]]
    /\ Goto("user", "sendone")
    /\ UNCHANGED <<table, running, err, mutex, world, peers, cid, cur, who, limit, hist>>

SendLoad ==
    /\ At("user", "load")
    /\ fd' = [fd EXCEPT !["user"] = socks[cid["user"]]]
    /\ Goto("user", "sendone")
    /\ UNCHANGED <<table, running, err, mutex, world, peers, cid, cur, who, limit, hist>>

SendOne ==
    LET f == fd["user"] IN
    /\ At("user", "sendone")
    /\ \E ok \in BOOLEAN :
           /\ SendResult(f, ok)
           /\ err' = IF ok THEN err ELSE IF f < 0 THEN "NO_REMOTE_PROVIDED" ELSE "FAILED_TO_SEND"
    /\ fd' = [fd EXCEPT !["user"] = 0]
    /\ SendReturn
    /\ UNCHANGED <<table, running, mutex, world, peers, cur, who, limit, raced, disturbed>>

DisconnectCall(c) ==
    /\ "disconnect" \in UserOps /\ At("user", "idle")
    /\ cid' = [cid EXCEPT !["user"] = c]
    /\ Goto("user", "disconnect")
    /\ UNCHANGED <<table, running, err, mutex, world, peers, cur, fd, who, limit, hist>>

----------------------------------------------------------------------------
(* CommsClose: sweeps the table without the lock, then stops the threads *)

CloseCall ==
    /\ "close" \in UserOps /\ At("user", "idle")
    /\ cid' = [cid EXCEPT !["user"] = 0]
    /\ Goto("user", "check")
    /\ disturbed' = (mutex # "free" \/ At("accepter", "insert"))
    /\ UNCHANGED <<table, running, err, mutex, world, peers, cur, fd, who, limit, raced, moved, need, got>>

\* Faulty variant: off by one, the last client is not closed.
CloseCheck_Short ==
    LET i == cid["user"] IN
    /\ At("user", "check")
    /\ IF i >= count - 1
         THEN Goto("user", "stop") /\ UNCHANGED cid
         ELSE IF socks[i] > 0
           THEN Goto("user", "close") /\ UNCHANGED cid
           ELSE cid' = [cid EXCEPT !["user"] = i + 1] /\ UNCHANGED pc
    /\ UNCHANGED <<table, running, err, mutex, world, peers, cur, fd, who, limit, hist>>

CloseCheck ==
    LET i == cid["user"] IN
    /\ At("user", "check")
    /\ IF i >= count
         THEN Goto("user", "stop") /\ UNCHANGED cid
         ELSE IF socks[i] > 0
           THEN Goto("user", "close") /\ UNCHANGED cid
           ELSE cid' = [cid EXCEPT !["user"] = i + 1] /\ UNCHANGED pc
    /\ UNCHANGED <<table, running, err, mutex, world, peers, cur, fd, who, limit, hist>>

CloseClose ==
    /\ At("user", "close")
    /\ CloseFd(socks[cid["user"]])
    /\ Goto("user", "mark")
    /\ UNCHANGED <<table, running, err, mutex, peers, local, hist>>

CloseMark ==
    LET i == cid["user"] IN
    /\ At("user", "mark")
    /\ socks' = [socks EXCEPT ![i] = -1] /\ addr' = [addr EXCEPT ![i] = "none"]
    /\ cid' = [cid EXCEPT !["user"] = i + 1]
    /\ Goto("user", "check")
    /\ UNCHANGED <<count, running, err, mutex, world, peers, cur, fd, who, limit, hist>>

\* Faulty variant: the threads are not told.
CloseStop_NotTold ==
    /\ At("user", "stop")
    /\ Goto("user", "join")
    /\ UNCHANGED <<table, running, err, mutex, world, peers, local, hist>>

CloseStop ==
    /\ At("user", "stop")
    /\ running' = FALSE
    /\ Goto("user", "join")
    /\ UNCHANGED <<table, err, mutex, world, peers, local, hist>>

CloseJoin ==
    /\ \/ At("user", "join") /\ At("listener", "done") /\ Goto("user", "join2")
       \/ At("user", "join2") /\ At("accepter", "done") /\ Goto("user", "closed")
    /\ UNCHANGED <<table, running, err, mutex, world, peers, local, hist>>

----------------------------------------------------------------------------
Listener ==
    \/ ListenerWhile \/ ListenerCount \/ ListenerEndRound \/ ListenerSlot
    \/ ListenerReceive \/ ListenerNoData \/ ListenerDrop
    \/ Disconnect("listener")

Accepter ==
    \/ AccepterWhile \/ (\E p \in Peers, f \in Fds : AccepterAccept(p, f))
    \/ AccepterFail \/ AccepterInsert \/ AccepterFull

UserStep ==
    \/ SendAllTest \/ SendAllSend \/ SendLoad \/ SendOne
    \/ CloseCheck \/ CloseClose \/ CloseMark \/ CloseStop \/ CloseJoin
    \/ Disconnect("user")

UserCall ==
    \/ SendAllCall \/ CloseCall
    \/ \E c \in 1 .. MAX - 1 : SendCall(c) \/ DisconnectCall(c)

Peer(p) == PeerConnect(p) \/ PeerSend(p) \/ PeerLeave(p)

\* All threads have ended and the process is about to.
Finished ==
    /\ At("user", "closed")
    /\ UNCHANGED vars

Next == Listener \/ Accepter \/ UserStep \/ UserCall \/ (\E p \in Peers : Peer(p)) \/ Finished

(***************************************************************************)
(* The threads run on POSIX threads and sleep at most a millisecond at a   *)
(* time, so each keeps taking steps; a call the user has made is carried   *)
(* through.  Which calls are made, and what the peers do, is open.         *)
(***************************************************************************)
Fairness == WF_vars(Listener) /\ WF_vars(Accepter) /\ WF_vars(UserStep)

Spec == Init /\ [][Next]_vars /\ Fairness

----------------------------------------------------------------------------
PcLabels == [user     |-> {"idle", "test", "sendto", "load", "sendone", "disconnect", "dclose",
                           "dzero", "dshift", "dcount", "check", "close", "mark", "stop",
                           "join", "join2", "closed"},
             listener |-> {"while", "count", "slot", "recv", "disconnect", "dclose", "dzero",
                           "dshift", "dcount", "done"},
             accepter |-> {"while", "accept", "insert", "done"}]

TypeOK ==
    /\ socks \in [Slot -> -1 .. MaxFd] /\ addr \in [Slot -> Peers \cup {"none"}]
    /\ count \in 1..MAX /\ running \in BOOLEAN
    /\ err \in {"NOERROR", "DISCONNECT", "MAX_CLIENTS", "FAILED_TO_SEND", "NO_REMOTE_PROVIDED"}
    /\ mutex \in Callers \cup {"free"}
    /\ fdOwner \in [Fds -> Peers \cup {"free", "tty", "listen"}]
    /\ link \in [Peers -> {"new", "queued", "up", "closed"}] /\ gone \subseteq Peers
    /\ inbox \in [Peers -> 0..MaxMsg] /\ sent \in [Peers -> 0..MaxMsg]
    /\ DOMAIN pc = Threads /\ \A t \in Threads : pc[t] \in PcLabels[t]
    /\ cid \in [Callers -> 0..MAX] /\ cur \in [Callers -> Slot]
    /\ fd \in [Threads -> -1 .. MaxFd]
    /\ who \in [{"listener", "accepter"} -> Peers \cup {"none"}] /\ limit \in 0..MAX
    /\ {raced, moved, disturbed} \subseteq BOOLEAN
    /\ need \subseteq Peers /\ got \in [Peers -> 0..MAX]

(***************************************************************************)
(* While CommsDisconnect shifts the table one slot is a hole: its client   *)
(* is gone, or has been copied to the slot before.                         *)
(***************************************************************************)
Hole ==
    IF mutex = "free" THEN 0
    ELSE CASE pc[mutex] = "dzero"  -> cid[mutex]
           [] pc[mutex] = "dshift" -> cur[mutex]
           [] pc[mutex] = "dcount" -> count - 1
           [] OTHER -> 0

Occupied == ClientSlots \ {Hole}
InHand   == IF At("accepter", "insert") THEN {who["accepter"]} ELSE {}

(***************************************************************************)
(* Until CommsClose is called the table is a true roster even in the       *)
(* middle of a shift: every occupied slot holds a peer with the one open   *)
(* descriptor of that peer's connection, no peer has two slots, and no     *)
(* connection is open that is neither in the table nor about to be put     *)
(* there (eth_comms.h:237-254, 649-668).                                   *)
(***************************************************************************)
RosterOK ==
    ~Closing =>
        /\ \A i \in Occupied :
              /\ addr[i] \in Peers /\ socks[i] \in Fds \ {0}
              /\ fdOwner[socks[i]] = addr[i]
        /\ \A i, j \in Occupied : i # j => addr[i] # addr[j]
        /\ {p \in Peers : link[p] = "up"} = {addr[i] : i \in Occupied} \cup InHand
        /\ \A i \in Slot : i >= count => socks[i] = 0

(***************************************************************************)
(* The table implements the roster: a client joins when the accepter       *)
(* stores it and leaves when its socket is closed.                         *)
(***************************************************************************)
Roster == [k \in 1..Cardinality(Occupied) |-> addr[IF Hole = 0 \/ k < Hole THEN k ELSE k + 1]]

Abstract == INSTANCE ClientRoster
              WITH Limit <- MAX - 1, serving <- ~Closing,
                   roster <- IF Closing THEN <<>> ELSE Roster

ImplementsRoster == Abstract!Spec

(***************************************************************************)
(* The receive callback is told the truth: the message came from the       *)
(* address and the cid it is given, unless another thread closed a socket  *)
(* after the listener copied the slot (eth_comms.h:513-527).               *)
(***************************************************************************)
Delivers(p) == At("listener", "recv") /\ pc'["listener"] = "slot" /\ inbox'[p] < inbox[p]

CallbackExact ==
    [][\A p \in Peers : Delivers(p) /\ ~raced /\ ~Closing =>
          who["listener"] = p /\ addr[cid["listener"]] = p /\ cid["listener"] < count]_vars

(***************************************************************************)
(* The listener disconnects only a client that has left and whose data has *)
(* all been delivered, unless another thread removed a client meanwhile:   *)
(* the cid it found the end of stream on still names that client when it   *)
(* gets the lock (eth_comms.h:528-537, 222-243).                           *)
(***************************************************************************)
DropsOnlyGone ==
    [][\A p \in Peers :
          At("listener", "dclose") /\ link[p] = "up" /\ link'[p] = "closed"
          /\ ~raced /\ ~Closing
             => pc'["listener"] = "dzero" /\ p \in gone /\ inbox[p] = 0]_vars

(***************************************************************************)
(* A CommsSend to all clients that returns true reached every client that  *)
(* was there when it was called, each once, unless a client was removed    *)
(* while it ran (eth_comms.h:412-424).                                     *)
(***************************************************************************)
BroadcastComplete ==
    [][At("user", "test") /\ pc'["user"] = "idle" /\ ~moved =>
          \A p \in Peers : got[p] <= 1 /\ (p \in need => got[p] = 1)]_vars

\* A CommsSend to one cid reaches that client or nobody, unless a client was
\* removed while it ran (eth_comms.h:410, 442).
SendReachesCid ==
    At("user", "sendone") /\ ~moved /\ Refers(fd["user"]) \in Peers =>
        cid["user"] < count /\ addr[cid["user"]] = Refers(fd["user"])

(***************************************************************************)
(* When CommsClose has returned, every socket is closed and nothing else   *)
(* is, provided the table stood still while it was swept without the lock  *)
(* (eth_comms.h:276-302).                                                  *)
(***************************************************************************)
CloseReleases ==
    ~disturbed => /\ fdOwner[0] = "tty"
                  /\ At("user", "closed") => \A f \in Fds \ {0} : fdOwner[f] = "free"

\* CommsClose returns: both threads see running and end (eth_comms.h:288-302).
CloseReturns == At("user", "check") ~> At("user", "closed")

\* A peer that connects is accepted, unless the accepter has ended at capacity
\* or the server is closing (eth_comms.h:625-675).
ConnectAccepted ==
    \A p \in Peers : link[p] = "queued" ~> link[p] # "queued" \/ At("accepter", "done") \/ Closing

\* The accepter ends only at capacity, or when the server is closed
\* (eth_comms.h:637, 651-660).
AccepterEndsAtCapacity ==
    [][At("accepter", "done")' /\ ~At("accepter", "done") => count >= MAX \/ ~running]_vars

\* What a client has sent is delivered to the callback, or the client is gone
\* (eth_comms.h:499-541).
DataHeard ==
    \A p \in Peers :
        link[p] = "up" /\ inbox[p] > 0 ~> inbox[p] = 0 \/ link[p] = "closed" \/ Closing

\* A client that has left is removed (eth_comms.h:528-537).
GoneRemoved ==
    \A p \in Peers : link[p] = "up" /\ p \in gone ~> link[p] = "closed" \/ Closing

----------------------------------------------------------------------------
(* What the program says of itself *)

\* "Succesfully sent ... over TCP to all %i clients!" (eth_comms.h:423).
SentToAll ==
    [][At("user", "test") /\ pc'["user"] = "idle" =>
          \A p \in need : link[p] = "up" => got[p] = 1]_vars

\* "Comunication closed succesfully!" (eth_comms.h:305).
ClosedMeansClosed == At("user", "closed") => \A p \in Peers : link[p] # "up"
=============================================================================
