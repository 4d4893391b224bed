-------------------------- MODULE CommsServerProof --------------------------
(***************************************************************************)
(* Theorems about CommsServer, for every set of peers, capacity, number of *)
(* descriptors and choice of the user's calls.                             *)
(***************************************************************************)
EXTENDS CommsServer, FiniteSetTheorems, SequenceTheorems, TLAPS

\* The type invariant, part by part; Boolean-valued variables are kept apart for the provers.
Booleans ==
    running \in BOOLEAN /\ raced \in BOOLEAN /\ moved \in BOOLEAN /\ disturbed \in BOOLEAN

Scalars ==
    /\ err \in {"NOERROR", "DISCONNECT", "MAX_CLIENTS", "FAILED_TO_SEND", "NO_REMOTE_PROVIDED"}
    /\ need \subseteq Peers

\* The client table and its lock.
Tables ==
    /\ socks \in [Slot -> -1 .. MaxFd] /\ addr \in [Slot -> Peers \cup {"none"}] /\ count \in 1..MAX
    /\ mutex \in Callers \cup {"free"}

\* The operating system's side; what is in an inbox has been sent.
System ==
    /\ fdOwner \in [Fds -> Peers \cup {"free", "tty", "listen"}]
    /\ link \in [Peers -> {"new", "queued", "up", "closed"}] /\ gone \subseteq Peers
    /\ inbox \in [Peers -> 0..MaxMsg] /\ sent \in [Peers -> 0..MaxMsg]
    /\ \A p \in Peers : inbox[p] <= sent[p]

\* Each thread is at one of its labels.
Labels ==
    /\ pc = [t \in Threads |-> pc[t]]
    /\ pc["user"] \in PcLabels["user"] /\ pc["listener"] \in PcLabels["listener"]
    /\ pc["accepter"] \in PcLabels["accepter"]

\* The threads' local variables.
Locals ==
    /\ cid \in [Callers -> 0..MAX] /\ cur \in [Callers -> Slot]
    /\ fd \in [Threads -> -1 .. MaxFd]
    /\ who \in [{"listener", "accepter"} -> Peers \cup {"none"}] /\ limit \in 0..MAX
    /\ got \in [Peers -> 0..MAX]

Fields == Tables /\ System /\ Labels /\ Locals

\* The thread is past the test of CommsDisconnect, which it makes with the lock.
Removing(t) == pc[t] \in {"dclose", "dzero", "dshift", "dcount"}

\* Where a thread's counters are, and what holding the lock means.
Places ==
    /\ \A t \in Callers : Removing(t) <=> mutex = t
    /\ \A t \in Callers : pc[t] \in {"dclose", "dzero"} => cid[t] \in 1 .. count - 1
    /\ \A t \in Callers : pc[t] = "dshift" => cur[t] \in 1 .. count - 1
    /\ \A t \in Callers : pc[t] = "dcount" => count >= 2
    /\ pc["listener"] \in {"recv", "disconnect", "dclose", "dzero", "dshift", "dcount"}
          => cid["listener"] < MAX
    /\ pc["user"] \in {"sendto", "load", "sendone", "disconnect", "close", "mark"} => cid["user"] < MAX
    /\ pc["user"] = "load" => cid["user"] >= 1
    /\ pc["user"] \in {"test", "sendto"} => \A p \in Peers : got[p] < cid["user"]
    /\ pc["user"] \notin {"test", "sendto"} => \A p \in Peers : got[p] = 0

\* The operating system: one descriptor for each connection that is up.
Owners ==
    /\ \A f \in Fds : fdOwner[f] \in Peers => link[fdOwner[f]] = "up"
    /\ \A f, g \in Fds : fdOwner[f] # "free" /\ fdOwner[f] = fdOwner[g] => f = g
    /\ ~Closing => fdOwner[0] = "tty" /\ fdOwner[1] = "listen" /\ socks[0] = 1

\* RosterOK, slot by slot.
Entries ==
    ~Closing =>
        /\ \A i \in Occupied : addr[i] \in Peers /\ socks[i] \in Fds \ {0} /\ fdOwner[socks[i]] = addr[i]
        /\ \A i, j \in Occupied : addr[i] = addr[j] => i = j
        /\ At("accepter", "insert") =>
              /\ who["accepter"] \in Peers /\ fd["accepter"] \in Fds
              /\ fdOwner[fd["accepter"]] = who["accepter"]
              /\ \A i \in Occupied : addr[i] # who["accepter"]
        /\ \A p \in Peers : link[p] = "up" =>
              (\E i \in Occupied : addr[i] = p) \/ (At("accepter", "insert") /\ who["accepter"] = p)
        /\ \A i \in Slot : i >= count => socks[i] = 0
        /\ \A t \in Callers : pc[t] = "dcount" => socks[count - 1] = 0

\* While no client has been removed, what CommsSend has loaded is still in its slot.
Sends ==
    /\ Sending /\ ~moved /\ mutex # "free" => pc[mutex] = "dclose"
    /\ At("user", "sendone") /\ ~moved =>
          fd["user"] = 0 \/ (cid["user"] \in 1 .. count - 1 /\ fd["user"] = socks[cid["user"]])

\* A sweep that nobody disturbs closes slot after slot, and no socket is elsewhere.
Swept == IF At("user", "mark") THEN cid["user"] + 1 ELSE cid["user"]

\* The descriptors that are open are those of the slots not swept yet.
Closes ==
    Closing /\ ~disturbed =>
        /\ mutex = "free" /\ ~At("accepter", "insert")
        /\ fdOwner[0] = "tty"
        /\ pc["user"] \in {"check", "close", "mark"} =>
              \A i \in 0 .. count - 1 : i >= Swept =>
                 socks[i] \in Fds \ {0} /\ fdOwner[socks[i]] = (IF i = 0 THEN "listen" ELSE addr[i])
        /\ pc["user"] \in {"check", "close", "mark"} =>
              \A f \in Fds \ {0} : fdOwner[f] # "free" =>
                 \E i \in 0 .. count - 1 : i >= Swept /\ socks[i] = f
        /\ pc["user"] \in {"check", "close", "mark"} =>
              \A i, j \in 1 .. count - 1 : i >= Swept /\ j >= Swept /\ addr[i] = addr[j] => i = j
        /\ pc["user"] \in {"close", "mark"} => cid["user"] < count
        /\ pc["user"] \in {"stop", "join", "join2", "closed"} =>
              \A f \in Fds \ {0} : fdOwner[f] = "free"

\* The inductive invariant.
IInv == Booleans /\ Scalars /\ Fields /\ Places /\ Owners /\ Entries /\ Sends /\ Closes

\* A number under one that is at most n is under n.
LEMMA Below ==
  ASSUME NEW n \in Nat, NEW m \in 0 .. n, NEW k \in 0 .. n, k < m
  PROVE  k < n /\ k \in 0 .. n - 1
  OBVIOUS

\* A place in the table is one of any longer table.
LEMMA Longer ==
  ASSUME NEW n \in Int, NEW m \in Int, m >= n, NEW i \in 1 .. n - 1
  PROVE  i \in 1 .. m - 1
  OBVIOUS

\* A thread goes on, the others stay where they are.
LEMMA Went ==
  ASSUME Labels, NEW t \in Threads, NEW l \in PcLabels[t], Goto(t, l)
  PROVE  Labels' /\ pc'[t] = l /\ \A u \in Threads : u # t => pc'[u] = pc[u]
  <1> USE DEF Labels, Goto, Threads, Callers, PcLabels
  <1>1. pc'[t] = l /\ pc' = [u \in Threads |-> pc'[u]] /\ \A u \in Threads : u # t => pc'[u] = pc[u]
    OBVIOUS
  <1>2. \A u \in Threads : pc'[u] \in PcLabels[u]
    BY <1>1
  <1> QED
    BY <1>1, <1>2

\* What the roster says of is left as it is.
Keeps ==
    /\ UNCHANGED <<socks, addr, count, mutex, fdOwner>>
    /\ \A p \in Peers : link'[p] = "up" <=> link[p] = "up"
    /\ \A t \in Callers : mutex = t => pc'[t] = pc[t] /\ cid'[t] = cid[t] /\ cur'[t] = cur[t]
    /\ At("accepter", "insert")' <=> At("accepter", "insert")
    /\ At("accepter", "insert") => who'["accepter"] = who["accepter"] /\ fd'["accepter"] = fd["accepter"]
    /\ Closing => Closing'

\* Such a step leaves the slot that is a hole, and those that are occupied.
LEMMA HoleStays ==
  ASSUME Tables, Keeps
  PROVE  Hole' = Hole /\ Occupied' = Occupied
  <1>1. Hole' = Hole
    BY DEF Keeps, Tables, Hole
  <1> QED
    BY <1>1 DEF Keeps, Occupied, ClientSlots

\* Such a step keeps the descriptors' owners and the roster (eth_comms.h:237-254).
LEMMA KeepsInv ==
  ASSUME IInv, Keeps, Places'
  PROVE  Owners' /\ Entries'
  <1>1. Hole' = Hole /\ Occupied' = Occupied
    BY HoleStays DEF IInv, Fields
  <1>2. Owners'
    BY DEF IInv, Keeps, Owners, Fields, System
  <1>3. \A t \in Callers : pc'[t] = "dcount" => pc[t] = "dcount"
    BY DEF IInv, Keeps, Places, Removing
  <1> HIDE DEF Hole, Occupied
  <1>4. Entries'
    BY <1>1, <1>3 DEF IInv, Keeps, Entries
  <1> QED
    BY <1>2, <1>4

\* A step of another thread that touches neither the table nor the user.
LEMMA AsideInv ==
  ASSUME IInv, Keeps, moved => moved', disturbed => disturbed',
         pc'["user"] = pc["user"], cid'["user"] = cid["user"], fd'["user"] = fd["user"]
  PROVE  Sends' /\ Closes'
  BY DEF IInv, Fields, Tables, Keeps, Sends, Closes, Sending, Closing, At, Swept

(***************************************************************************)
(* The listener outside of CommsDisconnect.                                *)
(***************************************************************************)
ListenerMoves ==
    /\ UNCHANGED <<socks, addr, count, mutex, fdOwner, link, gone, sent, got, cur>>
    /\ moved => moved'
    /\ disturbed => disturbed'
    /\ pc["listener"] \in {"while", "count", "slot", "recv", "disconnect"}
    /\ \E l \in {"while", "count", "slot", "recv", "disconnect", "done"} : Goto("listener", l)
    /\ cid' \in [Callers -> 0..MAX] /\ cid'["user"] = cid["user"]
    /\ pc'["listener"] \in {"recv", "disconnect"} => cid'["listener"] < MAX
    /\ fd' \in [Threads -> -1 .. MaxFd] /\ fd'["user"] = fd["user"] /\ fd'["accepter"] = fd["accepter"]
    /\ who' \in [{"listener", "accepter"} -> Peers \cup {"none"}] /\ who'["accepter"] = who["accepter"]
    /\ limit' \in 0 .. MAX
    /\ inbox' \in [Peers -> 0 .. MaxMsg] /\ \A p \in Peers : inbox'[p] <= sent[p]

\* What the listener does outside CommsDisconnect keeps the parts of the invariant.
LEMMA ListenerMovesInv ==
  ASSUME IInv, ListenerMoves
  PROVE  Fields' /\ Places' /\ Owners' /\ Entries' /\ Sends' /\ Closes'
  <1>1. /\ Labels' /\ pc'["listener"] \in {"while", "count", "slot", "recv", "disconnect", "done"}
        /\ pc'["user"] = pc["user"] /\ pc'["accepter"] = pc["accepter"]
    <2>1. PICK l \in {"while", "count", "slot", "recv", "disconnect", "done"} : Goto("listener", l)
      BY DEF ListenerMoves
    <2> QED
      BY <2>1, Went DEF IInv, Fields, Threads, Callers, PcLabels
  <1>2. Fields'
    BY <1>1 DEF IInv, Fields, ListenerMoves, Tables, System, Locals
  <1>3. mutex # "listener"
    BY DEF IInv, Places, Removing, ListenerMoves, Callers
  <1>4. Places'
    BY <1>1, <1>3 DEF IInv, Places, Removing, ListenerMoves, Callers
  <1>5. Keeps
    BY <1>1, <1>3 DEF Keeps, ListenerMoves, Callers, At, Closing
  <1> QED
    BY <1>1, <1>2, <1>4, <1>5, KeepsInv, AsideInv DEF ListenerMoves

\* The listener's loop (eth_comms.h:499-542) keeps the invariant.
LEMMA ListenerInv ==
  ASSUME IInv, ListenerWhile \/ ListenerCount \/ ListenerEndRound \/ ListenerSlot
               \/ ListenerReceive \/ ListenerNoData \/ ListenerDrop
  PROVE  IInv'
  <1> USE DEF table, world, peers, local, hist, At
  <1>1. Booleans'
    BY Zenon DEF IInv, Booleans, ListenerWhile, ListenerCount, ListenerEndRound, ListenerSlot,
       ListenerReceive, ListenerNoData, ListenerDrop
  <1>2. Scalars'
    BY Zenon DEF IInv, Scalars, ListenerWhile, ListenerCount, ListenerEndRound, ListenerSlot,
       ListenerReceive, ListenerNoData, ListenerDrop
  <1>3. /\ UNCHANGED <<socks, addr, count, mutex, fdOwner, link, gone, sent, got, cur>>
        /\ UNCHANGED <<moved, disturbed>>
    BY Zenon DEF ListenerWhile, ListenerCount, ListenerEndRound, ListenerSlot,
       ListenerReceive, ListenerNoData, ListenerDrop
  <1>4. ListenerMoves
    <2> USE <1>3 DEF ListenerMoves, IInv, Fields, Tables, System, Locals, Callers, Threads
    <2>1. CASE ListenerWhile
      <3>1. Goto("listener", "count") \/ Goto("listener", "done")
        BY <2>1, Zenon DEF ListenerWhile
      <3>2. UNCHANGED <<cid, fd, who, limit, inbox>> /\ pc["listener"] = "while"
        BY <2>1, Zenon DEF ListenerWhile
      <3> QED
        BY <3>1, <3>2, Went DEF PcLabels
    <2>2. CASE ListenerCount
      <3>1. /\ Goto("listener", "slot") /\ pc["listener"] = "count" /\ UNCHANGED <<fd, who, inbox>>
            /\ limit' = count /\ cid' = [cid EXCEPT !["listener"] = 1]
        BY <2>2, Zenon DEF ListenerCount
      <3> QED
        BY <3>1, MaxAssumption, Went DEF PcLabels
    <2>3. CASE ListenerEndRound
      <3>1. /\ Goto("listener", "while") /\ pc["listener"] = "slot" /\ UNCHANGED <<fd, who, inbox>>
            /\ limit' = 0 /\ cid' = [cid EXCEPT !["listener"] = 0]
        BY <2>3, Zenon DEF ListenerEndRound
      <3> QED
        BY <3>1, MaxAssumption, Went DEF PcLabels
    <2>4. CASE ListenerSlot
      <3>1. pc["listener"] = "slot" /\ UNCHANGED <<limit, inbox>> /\ cid["listener"] < limit
        BY <2>4, Zenon DEF ListenerSlot
      <3>2. CASE socks[cid["listener"]] <= 0
        <4>1. cid' = [cid EXCEPT !["listener"] = cid["listener"] + 1] /\ UNCHANGED <<pc, fd, who>>
          BY <2>4, <3>2, Zenon DEF ListenerSlot
        <4>2. Goto("listener", "slot")
          BY <3>1, <4>1 DEF Goto, Labels
        <4> QED
          BY <3>1, <4>1, <4>2, MaxAssumption
      <3>3. CASE ~(socks[cid["listener"]] <= 0)
        <4>1. /\ fd'  = [fd EXCEPT !["listener"] = socks[cid["listener"]]]
              /\ who' = [who EXCEPT !["listener"] = addr[cid["listener"]]]
              /\ Goto("listener", "recv") /\ UNCHANGED cid
          BY <2>4, <3>3, Zenon DEF ListenerSlot
        <4>2. cid["listener"] < MAX /\ cid["listener"] \in Slot
          <5>1. cid["listener"] \in 0 .. MAX /\ limit \in 0 .. MAX
            OBVIOUS
          <5> QED
            BY <3>1, <5>1, MaxAssumption, Below DEF Slot
        <4>3. /\ fd' \in [Threads -> -1 .. MaxFd]
              /\ who' \in [{"listener", "accepter"} -> Peers \cup {"none"}]
          BY <4>1, <4>2
        <4>4. pc'["listener"] = "recv"
          BY <4>1, Went DEF PcLabels
        <4> QED
          BY <3>1, <4>1, <4>2, <4>3, <4>4
      <3> QED
        BY <3>2, <3>3
    <2>5. CASE ListenerReceive \/ ListenerNoData
      <3>1. /\ Goto("listener", "slot") /\ pc["listener"] = "recv" /\ UNCHANGED limit
            /\ cid' = [cid EXCEPT !["listener"] = cid["listener"] + 1]
            /\ fd' = [fd EXCEPT !["listener"] = 0] /\ who' = [who EXCEPT !["listener"] = "none"]
        BY <2>5, Zenon DEF ListenerReceive, ListenerNoData, ListenerNext, ListenerForget
      <3>2. inbox' \in [Peers -> 0 .. MaxMsg] /\ \A p \in Peers : inbox'[p] <= sent[p]
        BY <2>5, OpsAssumption DEF ListenerReceive, ListenerNoData
      <3> QED
        BY <3>1, <3>2, MaxAssumption, Went DEF PcLabels, Places
    <2>6. CASE ListenerDrop
      <3>1. /\ Goto("listener", "disconnect") /\ pc["listener"] = "recv" /\ UNCHANGED <<limit, cid, inbox>>
            /\ fd' = [fd EXCEPT !["listener"] = 0] /\ who' = [who EXCEPT !["listener"] = "none"]
        BY <2>6, Zenon DEF ListenerDrop, ListenerForget
      <3> QED
        BY <3>1, MaxAssumption, Went DEF PcLabels, Places
    <2> QED
      BY <2>1, <2>2, <2>3, <2>4, <2>5, <2>6
  <1> QED
    BY <1>1, <1>2, <1>4, ListenerMovesInv, Zenon DEF IInv

(***************************************************************************)
(* The accepter when it does not accept, and the peers.                    *)
(***************************************************************************)
LEMMA AccepterIdleInv ==
  ASSUME IInv, AccepterWhile \/ AccepterFail
  PROVE  IInv'
  <1> USE DEF table, world, peers, local, hist
  <1>1. Booleans' /\ Scalars'
    BY Zenon DEF IInv, Booleans, Scalars, AccepterWhile, AccepterFail
  <1>2. /\ UNCHANGED <<socks, addr, count, mutex, fdOwner, link, gone, inbox, sent>>
        /\ UNCHANGED <<cid, cur, fd, who, limit, got, moved, disturbed>>
    BY Zenon DEF AccepterWhile, AccepterFail
  <1>3. pc["accepter"] # "insert" /\ \E l \in {"while", "accept", "done"} : Goto("accepter", l)
    <2>1. CASE AccepterWhile
      <3>1. At("accepter", "while") /\ (Goto("accepter", "accept") \/ Goto("accepter", "done"))
        BY <2>1, Zenon DEF AccepterWhile
      <3> QED
        BY <3>1 DEF At
    <2>2. CASE AccepterFail
      <3>1. At("accepter", "accept") /\ (Goto("accepter", "while") \/ Goto("accepter", "done"))
        BY <2>2, Zenon DEF AccepterFail
      <3> QED
        BY <3>1 DEF At
    <2> QED
      BY <2>1, <2>2
  <1>4. /\ Labels' /\ pc'["accepter"] \in {"while", "accept", "done"}
        /\ pc'["user"] = pc["user"] /\ pc'["listener"] = pc["listener"]
    BY <1>3, Went DEF IInv, Fields, Threads, Callers, PcLabels
  <1>5. Fields'
    BY <1>2, <1>4 DEF IInv, Fields, Tables, System, Locals
  <1>6. Places'
    BY <1>2, <1>4 DEF IInv, Places, Removing, Callers
  <1>7. Keeps
    BY <1>2, <1>3, <1>4 DEF Keeps, At, Callers, Closing
  <1> QED
    BY <1>1, <1>2, <1>4, <1>5, <1>6, <1>7, KeepsInv, AsideInv DEF IInv

\* A peer that connects, sends or leaves keeps the invariant.
LEMMA PeerInv ==
  ASSUME IInv, NEW p \in Peers, Peer(p)
  PROVE  IInv'
  <1> USE DEF table, world, peers, local, hist, Peer
  <1>1. Booleans' /\ Scalars'
    BY Zenon DEF IInv, Booleans, Scalars, PeerConnect, PeerSend, PeerLeave
  <1>2. /\ UNCHANGED <<socks, addr, count, mutex, fdOwner, pc>>
        /\ UNCHANGED <<cid, cur, fd, who, limit, got, moved, disturbed>>
    BY Zenon DEF PeerConnect, PeerSend, PeerLeave
  <1>3. System' /\ \A q \in Peers : link'[q] = "up" <=> link[q] = "up"
    <2> USE DEF IInv, Fields, System
    <2>1. CASE PeerConnect(p)
      BY <2>1 DEF PeerConnect
    <2>2. CASE PeerSend(p)
      <3>1. /\ UNCHANGED <<fdOwner, link, gone>> /\ sent[p] < MaxMsg
            /\ inbox' = [inbox EXCEPT ![p] = inbox[p] + 1] /\ sent' = [sent EXCEPT ![p] = sent[p] + 1]
        BY <2>2, Zenon DEF PeerSend
      <3> QED
        BY <3>1, OpsAssumption
    <2>3. CASE PeerLeave(p)
      <3>1. PICK left \in {0, inbox[p]} : inbox' = [inbox EXCEPT ![p] = left]
        BY <2>3, Zenon DEF PeerLeave
      <3>2. UNCHANGED <<fdOwner, link, sent>> /\ gone' = gone \cup {p}
        BY <2>3, Zenon DEF PeerLeave
      <3>3. left \in 0 .. MaxMsg /\ left <= sent[p]
        BY <3>1, OpsAssumption
      <3> QED
        BY <3>1, <3>2, <3>3
    <2> QED
      BY <2>1, <2>2, <2>3
  <1>4. Fields'
    BY <1>2, <1>3 DEF IInv, Fields, Tables, Labels, Locals
  <1>5. Places'
    BY <1>2 DEF IInv, Places, Removing
  <1>6. Keeps
    BY <1>2, <1>3 DEF Keeps, At, Closing
  <1> QED
    BY <1>1, <1>2, <1>4, <1>5, <1>6, KeepsInv, AsideInv DEF IInv

(***************************************************************************)
(* The user outside of CommsDisconnect and of the closing of sockets.      *)
(***************************************************************************)
UserMoves(l) ==
    /\ l \in PcLabels["user"] /\ Goto("user", l)
    /\ UNCHANGED <<socks, addr, count, mutex, fdOwner, link, gone, inbox, sent, cur, who, limit>>
    /\ ~Removing("user") /\ l \notin {"dclose", "dzero", "dshift", "dcount"}
    /\ Closing => l \in {"check", "close", "mark", "stop", "join", "join2", "closed"}
    /\ cid' \in [Callers -> 0..MAX] /\ cid'["listener"] = cid["listener"]
    /\ l \in {"sendto", "load", "sendone", "disconnect", "close", "mark"} => cid'["user"] < MAX
    /\ l = "load" => cid'["user"] >= 1
    /\ fd' \in [Threads -> -1 .. MaxFd]
    /\ fd'["listener"] = fd["listener"] /\ fd'["accepter"] = fd["accepter"]
    /\ got' \in [Peers -> 0..MAX]
    /\ l \in {"test", "sendto"} => \A p \in Peers : got'[p] < cid'["user"]
    /\ l \notin {"test", "sendto"} => \A p \in Peers : got'[p] = 0

\* A step of CommsSend or CommsClose that stores nothing in the table keeps these parts.
LEMMA UserMovesInv ==
  ASSUME IInv, NEW l, UserMoves(l)
  PROVE  /\ Fields' /\ Places' /\ Owners' /\ Entries'
         /\ pc'["user"] = l /\ pc'["listener"] = pc["listener"] /\ pc'["accepter"] = pc["accepter"]
  <1>1. /\ Labels' /\ pc'["user"] = l
        /\ pc'["listener"] = pc["listener"] /\ pc'["accepter"] = pc["accepter"]
    BY Went DEF UserMoves, IInv, Fields, Threads, Callers
  <1>2. Fields'
    BY <1>1 DEF IInv, Fields, UserMoves, Tables, System, Locals
  <1>3. mutex # "user"
    BY DEF IInv, Places, Removing, UserMoves, Callers
  <1>4. Places'
    BY <1>1, <1>3 DEF IInv, Places, Removing, UserMoves, Callers
  <1>5. Keeps
    BY <1>1, <1>3 DEF Keeps, UserMoves, Callers, At, Closing
  <1> QED
    BY <1>1, <1>2, <1>4, <1>5, KeepsInv

\* Outside CommsSend there is nothing to say of what it has loaded.
LEMMA NotSending ==
  ASSUME pc'["user"] \notin {"test", "sendto", "load", "sendone"}
  PROVE  Sends'
  BY DEF Sends, Sending, At

\* Outside CommsClose there is nothing to say of its sweep.
LEMMA NotClosing ==
  ASSUME pc'["user"] \notin {"check", "close", "mark", "stop", "join", "join2", "closed"}
  PROVE  Closes'
  BY DEF Closes, Closing

\* The call of CommsSend, to one client or to all (eth_comms.h:399-412).
LEMMA SendCallInv ==
  ASSUME IInv, SendAllCall \/ (\E c \in 1 .. MAX - 1 : SendCall(c))
  PROVE  IInv'
  <1>1. PICK l \in {"test", "load"}, c \in 1 .. MAX - 1 : SendStart(l, c)
    BY MaxAssumption DEF SendAllCall, SendCall
  <1> USE <1>1 DEF SendStart, table, world, peers
  <1>2. Booleans'
    <2>1. (mutex # "free") \in BOOLEAN
      OBVIOUS
    <2> QED
      BY <2>1, Zenon DEF IInv, Booleans
  <1>3. Scalars'
    BY Zenon DEF IInv, Scalars
  <1>4. ~moved' => mutex' = "free"
    BY Zenon
  <1>5. /\ pc["user"] = "idle" /\ Goto("user", l) /\ cid' = [cid EXCEPT !["user"] = c]
        /\ UNCHANGED <<socks, addr, count, mutex, fdOwner, link, gone, inbox, sent, cur, who, limit, got, fd>>
    BY Zenon DEF At
  <1>6. UserMoves(l)
    BY <1>5, MaxAssumption DEF UserMoves, IInv, Fields, Tables, System, Locals, Places, Removing, Closing,
       PcLabels, Callers, Threads
  <1>7. pc'["user"] = l
    BY <1>6, UserMovesInv
  <1>8. Sends'
    BY <1>4, <1>7 DEF Sends, At
  <1> QED
    BY <1>2, <1>3, <1>6, <1>7, <1>8, UserMovesInv, NotClosing DEF IInv

\* The steps of comms_send__opt (eth_comms.h:412-449).
LEMMA SendStepInv ==
  ASSUME IInv, SendAllTest \/ SendAllSend \/ SendLoad \/ SendOne
  PROVE  IInv'
  <1> USE DEF table, world, peers, hist
  <1>1. Booleans' /\ Scalars'
    BY Zenon DEF IInv, Booleans, Scalars, SendAllTest, SendAllSend, SendLoad, SendOne, SendReturn
  <1>2. UNCHANGED <<socks, addr, count, mutex, fdOwner, link, gone, inbox, sent, cur, who, limit>>
    BY Zenon DEF SendAllTest, SendAllSend, SendLoad, SendOne, SendReturn
  <1> USE DEF IInv, Fields, Tables, System, Locals, Callers, Threads
  <1>3. ASSUME SendReturn, pc["user"] \in {"test", "sendto", "sendone"},
               fd' = fd \/ fd' = [fd EXCEPT !["user"] = 0]
        PROVE  IInv'
    <2>1. Goto("user", "idle") /\ cid' = [cid EXCEPT !["user"] = 0] /\ got' = [p \in Peers |-> 0]
      BY <1>3, Zenon DEF SendReturn
    <2>2. UserMoves("idle")
      BY <1>2, <1>3, <2>1, MaxAssumption DEF UserMoves, Removing, Closing, PcLabels
    <2>3. pc'["user"] = "idle"
      BY <2>2, UserMovesInv
    <2> QED
      BY <1>1, <2>2, <2>3, UserMovesInv, NotSending, NotClosing
  <1>4. CASE SendAllTest /\ cid["user"] < count
    <2>1. /\ pc["user"] = "test" /\ Goto("user", "sendto") /\ UNCHANGED <<cid, got, fd>>
          /\ (moved' <=> moved)
      BY <1>4, Zenon DEF SendAllTest, At
    <2> DEFINE c == cid["user"]
    <2>2. c < MAX
      <3>1. c \in 0 .. MAX /\ count \in 1 .. MAX /\ c < count
        BY <1>4
      <3> HIDE DEF c
      <3> QED
        BY <3>1, MaxAssumption
    <2>3. UserMoves("sendto")
      BY <1>2, <1>4, <2>1, <2>2 DEF UserMoves, Removing, Closing, PcLabels, Places
    <2>4. pc'["user"] = "sendto" /\ pc'["listener"] = pc["listener"]
      BY <2>3, UserMovesInv
    <2>5. mutex # "user"
      BY <2>1 DEF Places, Removing
    <2>6. Sends'
      BY <1>2, <2>1, <2>4, <2>5 DEF Sends, Sending, At
    <2> QED
      BY <1>1, <2>3, <2>4, <2>6, UserMovesInv, NotClosing
  <1>5. CASE SendAllTest /\ ~(cid["user"] < count)
    <2>1. pc["user"] = "test" /\ SendReturn /\ UNCHANGED fd
      BY <1>5, Zenon DEF SendAllTest, At
    <2> QED
      BY <1>3, <2>1
  <1>6. CASE SendAllSend
    <2>1. pc["user"] = "sendto" /\ UNCHANGED fd
      BY <1>6, Zenon DEF SendAllSend, At
    <2>2. CASE SendReturn
      BY <1>3, <2>1, <2>2
    <2>3. CASE ~SendReturn
      <3> DEFINE p == Refers(socks[cid["user"]])
      <3>1. /\ p \in Peers /\ got' = [got EXCEPT ![p] = got[p] + 1]
            /\ cid' = [cid EXCEPT !["user"] = cid["user"] + 1] /\ Goto("user", "test") /\ UNCHANGED moved
        BY <1>6, <2>3 DEF SendAllSend, SendResult
      <3> HIDE DEF p
      <3>2. cid["user"] < MAX /\ cid["user"] \in Nat /\ \A q \in Peers : got[q] < cid["user"] /\ got[q] \in Nat
        BY <2>1 DEF Places
      <3>3. got' \in [Peers -> 0..MAX] /\ \A q \in Peers : got'[q] < cid["user"] + 1
        BY <3>1, <3>2, MaxAssumption
      <3>4. cid' \in [Callers -> 0..MAX] /\ cid'["user"] = cid["user"] + 1 /\ cid'["listener"] = cid["listener"]
        BY <3>1, <3>2, MaxAssumption
      <3>5. UserMoves("test")
        BY <1>2, <2>1, <3>1, <3>3, <3>4 DEF UserMoves, Removing, Closing, PcLabels
      <3>6. pc'["user"] = "test" /\ pc'["listener"] = pc["listener"]
        BY <3>5, UserMovesInv
      <3>7. mutex # "user"
        BY <2>1 DEF Places, Removing
      <3>8. Sends'
        BY <1>2, <2>1, <3>1, <3>6, <3>7 DEF Sends, Sending, At
      <3> QED
        BY <1>1, <3>5, <3>6, <3>8, UserMovesInv, NotClosing
    <2> QED
      BY <2>2, <2>3
  <1>7. CASE SendLoad
    <2>1. /\ pc["user"] = "load" /\ fd' = [fd EXCEPT !["user"] = socks[cid["user"]]]
          /\ Goto("user", "sendone") /\ UNCHANGED <<cid, got>> /\ (moved' <=> moved)
      BY <1>7, Zenon DEF SendLoad, At, local
    <2>2. cid["user"] \in Slot /\ cid["user"] < MAX
      BY <2>1, MaxAssumption DEF Places, Slot
    <2>3. fd' \in [Threads -> -1 .. MaxFd] /\ fd'["user"] = socks[cid["user"]]
      BY <2>1, <2>2
    <2>4. UserMoves("sendone")
      BY <1>2, <2>1, <2>2, <2>3 DEF UserMoves, Removing, Closing, PcLabels, Places
    <2>5. pc'["user"] = "sendone" /\ pc'["listener"] = pc["listener"]
      BY <2>4, UserMovesInv
    <2>6. mutex # "user"
      BY <2>1 DEF Places, Removing
    <2>7. Sends'
      <3>1. cid["user"] >= 1
        BY <2>1 DEF Places
      <3>2. socks[cid["user"]] = 0 \/ cid["user"] \in 1 .. count - 1
        BY <2>1, <2>2, <3>1 DEF Entries, Closing, Slot
      <3> QED
        BY <1>2, <2>1, <2>3, <2>5, <2>6, <3>2 DEF Sends, Sending, At
    <2> QED
      BY <1>1, <2>4, <2>5, <2>7, UserMovesInv, NotClosing
  <1>8. CASE SendOne
    <2>1. pc["user"] = "sendone" /\ SendReturn /\ fd' = [fd EXCEPT !["user"] = 0]
      BY <1>8, Zenon DEF SendOne, At
    <2> QED
      BY <1>3, <2>1
  <1> QED
    BY <1>4, <1>5, <1>6, <1>7, <1>8

\* The call of CommsDisconnect by the user (eth_comms.h:214).
LEMMA DisconnectCallInv ==
  ASSUME IInv, NEW c \in 1 .. MAX - 1, DisconnectCall(c)
  PROVE  IInv'
  <1> USE DEF DisconnectCall, table, world, peers, hist
  <1>1. Booleans' /\ Scalars'
    BY Zenon DEF IInv, Booleans, Scalars
  <1>2. /\ pc["user"] = "idle" /\ Goto("user", "disconnect") /\ cid' = [cid EXCEPT !["user"] = c]
        /\ UNCHANGED <<socks, addr, count, mutex, fdOwner, link, gone, inbox, sent, cur, who, limit, got, fd>>
    BY Zenon DEF At
  <1>3. UserMoves("disconnect")
    BY <1>2, MaxAssumption DEF UserMoves, IInv, Fields, Tables, System, Locals, Places, Removing, Closing,
       PcLabels, Callers, Threads
  <1>4. pc'["user"] = "disconnect"
    BY <1>3, UserMovesInv
  <1> QED
    BY <1>1, <1>3, <1>4, UserMovesInv, NotSending, NotClosing DEF IInv

(***************************************************************************)
(* CommsClose.                                                             *)
(***************************************************************************)
LEMMA CloseCallInv ==
  ASSUME IInv, CloseCall
  PROVE  IInv'
  <1> USE DEF CloseCall, table, world, peers
  <1>1. Booleans' /\ Scalars'
    <2>1. (mutex # "free" \/ At("accepter", "insert")) \in BOOLEAN
      OBVIOUS
    <2> QED
      BY <2>1, Zenon DEF IInv, Booleans, Scalars
  <1>2. /\ pc["user"] = "idle" /\ Goto("user", "check") /\ cid' = [cid EXCEPT !["user"] = 0]
        /\ UNCHANGED <<socks, addr, count, mutex, fdOwner, link, gone, inbox, sent, cur, who, limit, got, fd>>
        /\ (~disturbed' => mutex = "free" /\ ~At("accepter", "insert"))
    BY Zenon DEF At
  <1>3. UserMoves("check")
    BY <1>2, MaxAssumption DEF UserMoves, IInv, Fields, Tables, System, Locals, Places, Removing, Closing,
       PcLabels, Callers, Threads
  <1>4. pc'["user"] = "check" /\ pc'["accepter"] = pc["accepter"]
    BY <1>3, UserMovesInv
  <1>5. ASSUME mutex = "free", ~At("accepter", "insert") PROVE Closes'
    <2>1. Occupied = 1 .. count - 1 /\ count \in 1 .. MAX /\ ~Closing
      BY <1>2, <1>5 DEF Occupied, Hole, ClientSlots, Closing, IInv, Fields, Tables
    <2>2. \A i \in 1 .. count - 1 : addr[i] \in Peers /\ socks[i] \in Fds \ {0} /\ fdOwner[socks[i]] = addr[i]
      BY <2>1 DEF IInv, Entries
    <2>3. \A i, j \in 1 .. count - 1 : addr[i] = addr[j] => i = j
      BY <2>1 DEF IInv, Entries
    <2>4. fdOwner[0] = "tty" /\ fdOwner[1] = "listen" /\ socks[0] = 1 /\ 1 \in Fds \ {0}
      BY <2>1, MaxAssumption DEF IInv, Owners, Fds
    <2>5. ASSUME NEW f \in Fds \ {0}, fdOwner[f] # "free" PROVE \E i \in 0 .. count - 1 : socks[i] = f
      <3>1. CASE fdOwner[f] \in Peers
        <4>1. link[fdOwner[f]] = "up"
          BY <3>1 DEF IInv, Owners
        <4>2. PICK i \in 1 .. count - 1 : addr[i] = fdOwner[f]
          BY <1>5, <2>1, <3>1, <4>1 DEF IInv, Entries
        <4>3. socks[i] \in Fds /\ fdOwner[socks[i]] = fdOwner[f]
          BY <2>2, <4>2
        <4>4. socks[i] = f
          BY <2>5, <4>3 DEF IInv, Owners
        <4> QED
          BY <4>4
      <3>2. CASE fdOwner[f] = "tty"
        <4>1. 0 \in Fds
          BY MaxAssumption DEF Fds
        <4> QED
          BY <2>4, <3>2, <4>1 DEF IInv, Owners
      <3>3. CASE fdOwner[f] = "listen"
        <4>1. f = 1
          BY <2>4, <3>3 DEF IInv, Owners
        <4> QED
          BY <2>1, <2>4, <4>1
      <3> QED
        BY <2>5, <3>1, <3>2, <3>3 DEF IInv, Fields, System
    <2>6. cid'["user"] = 0
      BY <1>2 DEF IInv, Fields, Locals, Callers
    <2>7. Swept' = 0
      BY <1>4, <2>6 DEF Swept, At
    <2> QED
      BY <1>2, <1>4, <1>5, <2>1, <2>2, <2>3, <2>4, <2>5, <2>7 DEF Closes, At
  <1>6. Closes'
    BY <1>2, <1>5, Zenon DEF Closes
  <1> QED
    BY <1>1, <1>3, <1>4, <1>6, UserMovesInv, NotSending DEF IInv

\* The steps of CommsClose that close nothing (eth_comms.h:276-302).
LEMMA CloseQuietInv ==
  ASSUME IInv, CloseCheck \/ CloseStop \/ CloseJoin
  PROVE  IInv'
  <1> USE DEF table, world, peers, hist, local
  <1>1. Booleans' /\ Scalars'
    BY Zenon DEF IInv, Booleans, Scalars, CloseCheck, CloseStop, CloseJoin
  <1>2. /\ UNCHANGED <<socks, addr, count, mutex, fdOwner, link, gone, inbox, sent, cur, who, limit, got, fd>>
        /\ UNCHANGED disturbed
    <2>1. CASE CloseCheck
      BY <2>1, Zenon DEF CloseCheck
    <2>2. CASE CloseStop
      BY <2>2, Zenon DEF CloseStop
    <2>3. CASE CloseJoin
      BY <2>3, Zenon DEF CloseJoin
    <2> QED
      BY <2>1, <2>2, <2>3
  <1> USE DEF IInv, Fields, Tables, System, Locals, Callers, Threads
  <1>3. ASSUME NEW l \in {"join", "join2", "closed"}, Goto("user", l), UNCHANGED cid,
               pc["user"] \in {"stop", "join", "join2"}
        PROVE  IInv'
    <2>1. UserMoves(l)
      BY <1>2, <1>3 DEF UserMoves, Removing, Closing, PcLabels, Places, Went
    <2>2. pc'["user"] = l /\ pc'["accepter"] = pc["accepter"]
      BY <2>1, UserMovesInv
    <2>3. Closes'
      BY <1>2, <1>3, <2>2 DEF Closes, Closing, At
    <2> QED
      BY <1>1, <2>1, <2>2, <2>3, UserMovesInv, NotSending
  <1>4. CASE CloseCheck
    <2> DEFINE i == cid["user"]
    <2>1. pc["user"] = "check" /\ i \in 0 .. MAX
      BY <1>4 DEF CloseCheck, At
    <2>2. CASE i >= count
      <3>1. Goto("user", "stop") /\ UNCHANGED cid
        BY <1>4, <2>2, Zenon DEF CloseCheck
      <3>2. UserMoves("stop")
        BY <1>2, <2>1, <3>1 DEF UserMoves, Removing, Closing, PcLabels, Places
      <3>3. pc'["user"] = "stop" /\ pc'["accepter"] = pc["accepter"]
        BY <3>2, UserMovesInv
      <3>4. Closes'
        BY <1>2, <2>1, <2>2, <3>3 DEF Closes, Closing, Swept, At
      <3> QED
        BY <1>1, <3>2, <3>3, <3>4, UserMovesInv, NotSending
    <2>3. CASE ~(i >= count) /\ socks[i] > 0
      <3>1. Goto("user", "close") /\ UNCHANGED cid
        BY <1>4, <2>3, Zenon DEF CloseCheck
      <3>2. i < MAX /\ i < count
        BY <2>1, <2>3, MaxAssumption
      <3>3. UserMoves("close")
        BY <1>2, <2>1, <3>1, <3>2 DEF UserMoves, Removing, Closing, PcLabels, Places
      <3>4. pc'["user"] = "close" /\ pc'["accepter"] = pc["accepter"]
        BY <3>3, UserMovesInv
      <3>5. Closes'
        BY <1>2, <2>1, <3>1, <3>2, <3>4 DEF Closes, Closing, Swept, At
      <3> QED
        BY <1>1, <3>3, <3>4, <3>5, UserMovesInv, NotSending
    <2>4. CASE ~(i >= count) /\ ~(socks[i] > 0)
      <3>1. cid' = [cid EXCEPT !["user"] = i + 1] /\ UNCHANGED pc
        BY <1>4, <2>4, Zenon DEF CloseCheck
      <3>2. i < MAX /\ i < count /\ i \in 0 .. count - 1
        BY <2>1, <2>4, MaxAssumption
      <3>3. Goto("user", "check")
        BY <2>1, <3>1 DEF Goto, Labels
      <3>4. cid' \in [Callers -> 0..MAX] /\ cid'["listener"] = cid["listener"]
        BY <2>1, <3>1, <3>2, MaxAssumption
      <3>5. UserMoves("check")
        BY <1>2, <2>1, <3>3, <3>4 DEF UserMoves, Removing, Closing, PcLabels, Places
      <3>6. pc'["user"] = "check"
        BY <3>5, UserMovesInv
      <3>7. disturbed
        <4>1. Swept = i /\ Closing
          BY <2>1 DEF Swept, At, Closing
        <4>2. ~disturbed => socks[i] \in Fds \ {0}
          BY <2>1, <3>2, <4>1 DEF Closes
        <4>3. socks[i] \notin Fds \ {0}
          BY <2>4, MaxAssumption DEF Fds
        <4> QED
          BY <4>2, <4>3
      <3>8. Closes'
        BY <1>2, <3>7 DEF Closes
      <3> QED
        BY <1>1, <3>5, <3>6, <3>8, UserMovesInv, NotSending
    <2> QED
      BY <2>2, <2>3, <2>4
  <1>5. CASE CloseStop
    <2>1. Goto("user", "join") /\ UNCHANGED cid /\ pc["user"] = "stop"
      BY <1>5, Zenon DEF CloseStop, At
    <2> QED
      BY <1>3, <2>1
  <1>6. CASE CloseJoin
    <2>1. (Goto("user", "join2") \/ Goto("user", "closed")) /\ UNCHANGED cid /\ pc["user"] \in {"join", "join2"}
      BY <1>6 DEF CloseJoin, At
    <2> QED
      BY <1>3, <2>1
  <1> QED
    BY <1>4, <1>5, <1>6

\* What close() leaves of the descriptors and of the connections.
LEMMA CloseFdFacts ==
  ASSUME IInv, NEW f \in Int, CloseFd(f), UNCHANGED <<gone, inbox, sent>>
  PROVE  /\ System'
         /\ \A g \in Fds : fdOwner'[g] = IF g = f THEN "free" ELSE fdOwner[g]
         /\ \A p \in Peers : link'[p] = IF f \in Fds /\ fdOwner[f] = p THEN "closed" ELSE link[p]
         /\ \A g \in Fds : fdOwner'[g] \in Peers => link'[fdOwner'[g]] = "up"
         /\ \A g, h \in Fds : fdOwner'[g] # "free" /\ fdOwner'[g] = fdOwner'[h] => g = h
  <1> USE DEF IInv, Fields, System
  <1>1. CASE f \in Fds
    <2>1. \A g \in Fds : fdOwner'[g] = IF g = f THEN "free" ELSE fdOwner[g]
      BY <1>1 DEF CloseFd
    <2>2. \A p \in Peers : link'[p] = IF fdOwner[f] = p THEN "closed" ELSE link[p]
      BY <1>1 DEF CloseFd
    <2>3. System'
      BY <1>1 DEF CloseFd
    <2> QED
      BY <1>1, <2>1, <2>2, <2>3, PeerAssumption DEF Owners, NotAPeer
  <1>2. CASE f \notin Fds
    BY <1>2 DEF CloseFd, Owners
  <1> QED
    BY <1>1, <1>2

\* CommsClose closes the descriptor of its slot (eth_comms.h:278-280).
LEMMA CloseCloseInv ==
  ASSUME IInv, CloseClose
  PROVE  IInv'
  <1> USE DEF table, world, peers, hist, local
  <1>1. Booleans' /\ Scalars'
    BY Zenon DEF IInv, Booleans, Scalars, CloseClose
  <1> DEFINE c == cid["user"]
             f == socks[c]
  <1>2. /\ UNCHANGED <<socks, addr, count, mutex, gone, inbox, sent, cid, cur, fd, who, limit, got, disturbed>>
        /\ pc["user"] = "close" /\ Goto("user", "mark") /\ CloseFd(f)
    BY Zenon DEF CloseClose, At
  <1>3. c \in 0 .. MAX - 1 /\ f \in Int
    <2>1. c \in 0 .. MAX /\ c < MAX
      BY <1>2 DEF IInv, Fields, Locals, Places, Callers
    <2>2. c \in 0 .. MAX - 1
      BY <2>1, MaxAssumption
    <2> QED
      BY <2>2, MaxAssumption DEF IInv, Fields, Tables, Slot
  <1> HIDE DEF c, f
  <1>4. Labels' /\ pc'["user"] = "mark" /\ pc'["listener"] = pc["listener"] /\ pc'["accepter"] = pc["accepter"]
    BY <1>2, Went DEF IInv, Fields, Threads, Callers, PcLabels
  <1>5. Fields'
    BY <1>2, <1>3, <1>4, CloseFdFacts DEF IInv, Fields, Tables, Locals
  <1>6. Places'
    BY <1>2, <1>4 DEF IInv, Places, Removing, Callers, c
  <1>7. Owners'
    BY <1>2, <1>3, <1>4, CloseFdFacts DEF Owners, Closing
  <1>8. Entries'
    BY <1>4 DEF Entries, Closing
  <1>9. ASSUME ~disturbed PROVE Closes'
    <2>1. Closing /\ Swept = c /\ Swept' = c + 1 /\ c' = c
      BY <1>2, <1>4 DEF Closing, Swept, At, c
    <2>2. /\ mutex = "free" /\ ~At("accepter", "insert") /\ fdOwner[0] = "tty" /\ c < count
          /\ \A i \in 0 .. count - 1 : i >= c =>
                socks[i] \in Fds \ {0} /\ fdOwner[socks[i]] = (IF i = 0 THEN "listen" ELSE addr[i])
          /\ \A g \in Fds \ {0} : fdOwner[g] # "free" => \E i \in 0 .. count - 1 : i >= c /\ socks[i] = g
          /\ \A i, j \in 1 .. count - 1 : i >= c /\ j >= c /\ addr[i] = addr[j] => i = j
      BY <1>2, <1>9, <2>1 DEF IInv, Closes, c
    <2>3. count \in 1 .. MAX /\ \A i \in 1 .. count - 1 : addr[i] # "listen"
      BY MaxAssumption, PeerAssumption DEF IInv, Fields, Tables, Slot, NotAPeer
    <2>4. /\ \A g \in Fds : fdOwner'[g] = IF g = f THEN "free" ELSE fdOwner[g]
      BY <1>2, <1>3, CloseFdFacts
    <2>5. ASSUME NEW i \in 0 .. count - 1, i >= c + 1 PROVE socks[i] # f
      <3>1. c \in 0 .. count - 1 /\ i \in 1 .. count - 1 /\ i # c
        BY <1>3, <2>2, <2>3, <2>5
      <3>2. socks[i] \in Fds \ {0} /\ fdOwner[socks[i]] = addr[i]
        BY <1>3, <2>2, <2>5, <3>1
      <3>3. fdOwner[f] = (IF c = 0 THEN "listen" ELSE addr[c])
        BY <1>3, <2>2, <3>1 DEF f
      <3>4. c # 0 => addr[c] # addr[i]
        BY <1>3, <2>2, <2>5, <3>1
      <3> QED
        BY <2>3, <3>1, <3>2, <3>3, <3>4
    <2>6. 0 \in Fds /\ f # 0
      BY <1>3, <2>2, <2>3, MaxAssumption DEF Fds, f
    <2>7. \A i \in 0 .. count - 1 : i >= c + 1 =>
             socks[i] \in Fds \ {0} /\ fdOwner'[socks[i]] = (IF i = 0 THEN "listen" ELSE addr[i])
      BY <1>3, <2>2, <2>4, <2>5
    <2>8. ASSUME NEW g \in Fds \ {0}, fdOwner'[g] # "free"
          PROVE  \E i \in 0 .. count - 1 : i >= c + 1 /\ socks[i] = g
      <3>1. g # f /\ fdOwner[g] # "free"
        BY <2>4, <2>8
      <3>2. PICK i \in 0 .. count - 1 : i >= c /\ socks[i] = g
        BY <2>2, <3>1
      <3>3. i # c
        BY <3>1, <3>2 DEF f
      <3> QED
        BY <1>3, <3>2, <3>3
    <2>9. \A i, j \in 1 .. count - 1 : i >= c + 1 /\ j >= c + 1 /\ addr[i] = addr[j] => i = j
      BY <1>3, <2>2
    <2> QED
      BY <1>2, <1>4, <2>1, <2>2, <2>4, <2>6, <2>7, <2>8, <2>9 DEF Closes, At, c
  <1>10. Closes'
    BY <1>2, <1>9 DEF Closes
  <1> QED
    BY <1>1, <1>4, <1>5, <1>6, <1>7, <1>8, <1>10, NotSending DEF IInv

\* CommsClose marks the slot it has closed (eth_comms.h:281-282).
LEMMA CloseMarkInv ==
  ASSUME IInv, CloseMark
  PROVE  IInv'
  <1> USE DEF world, peers, hist
  <1>1. Booleans' /\ Scalars'
    BY Zenon DEF IInv, Booleans, Scalars, CloseMark
  <1> DEFINE c == cid["user"]
  <1>2. /\ UNCHANGED <<count, mutex, fdOwner, link, gone, inbox, sent, cur, fd, who, limit, got, disturbed>>
        /\ pc["user"] = "mark" /\ Goto("user", "check")
        /\ socks' = [socks EXCEPT ![c] = -1] /\ addr' = [addr EXCEPT ![c] = "none"]
        /\ cid' = [cid EXCEPT !["user"] = c + 1]
    BY Zenon DEF CloseMark, At
  <1>3. c \in 0 .. MAX - 1 /\ c + 1 \in 0 .. MAX
    <2>1. c \in 0 .. MAX /\ c < MAX
      BY <1>2 DEF IInv, Fields, Locals, Places, Callers
    <2> HIDE DEF c
    <2> QED
      BY <2>1, MaxAssumption
  <1>4. Labels' /\ pc'["user"] = "check" /\ pc'["listener"] = pc["listener"] /\ pc'["accepter"] = pc["accepter"]
    BY <1>2, Went DEF IInv, Fields, Threads, Callers, PcLabels
  <1>5. cid'["user"] = c + 1 /\ cid'["listener"] = cid["listener"] /\ cid' \in [Callers -> 0..MAX]
    BY <1>2, <1>3 DEF IInv, Fields, Locals, Callers
  <1>6. Fields'
    <2>1. socks' \in [Slot -> -1 .. MaxFd] /\ addr' \in [Slot -> Peers \cup {"none"}]
      <3>1. socks \in [Slot -> -1 .. MaxFd] /\ addr \in [Slot -> Peers \cup {"none"}] /\ -1 \in -1 .. MaxFd
        BY MaxAssumption DEF IInv, Fields, Tables
      <3> QED
        BY <1>2, <3>1
    <2> QED
      BY <1>2, <1>4, <1>5, <2>1 DEF IInv, Fields, Tables, System, Locals
  <1>7. Places'
    BY <1>2, <1>4, <1>5 DEF IInv, Places, Removing, Callers
  <1>8. Owners' /\ Entries'
    BY <1>2, <1>4 DEF IInv, Owners, Entries, Closing
  <1>9. ASSUME ~disturbed PROVE Closes'
    <2>1. Closing /\ Swept = c + 1 /\ Swept' = c + 1
      BY <1>2, <1>4, <1>5 DEF Closing, Swept, At
    <2> HIDE DEF c
    <2>2. \A i \in 0 .. count - 1 : i >= c + 1 => socks'[i] = socks[i] /\ addr'[i] = addr[i]
      BY <1>2, <1>3, MaxAssumption DEF IInv, Fields, Tables, Slot
    <2>3. count \in 1 .. MAX
      BY DEF IInv, Fields, Tables
    <2> QED
      BY <1>2, <1>3, <1>4, <1>9, <2>1, <2>2, <2>3 DEF IInv, Closes, At
  <1>10. Closes'
    BY <1>2, <1>9 DEF Closes
  <1> QED
    BY <1>1, <1>4, <1>6, <1>7, <1>8, <1>10, NotSending DEF IInv

(***************************************************************************)
(* CommsDisconnect.                                                        *)
(***************************************************************************)
\* A sweep during which the lock is taken, or a client waits to be stored, is disturbed.
LEMMA DisturbedSweep ==
  ASSUME IInv, Closing, mutex # "free" \/ At("accepter", "insert")
  PROVE  disturbed
  BY DEF IInv, Closes

\* CommsDisconnect refuses a cid that names no client (eth_comms.h:222-235).
LEMMA DisconnectRefusedInv ==
  ASSUME IInv, NEW t \in Callers, DisconnectEnter(t), ~(cid[t] >= 1 /\ cid[t] < count /\ socks[cid[t]] > 0)
  PROVE  IInv'
  <1> USE DEF table, world, peers
  <1>1. Booleans'
    <2>1. (disturbed \/ Closing) \in BOOLEAN
      OBVIOUS
    <2> QED
      BY <2>1, Zenon DEF IInv, Booleans, DisconnectEnter
  <1>2. Scalars'
    BY Zenon DEF IInv, Scalars, DisconnectEnter, Return
  <1>3. /\ UNCHANGED <<socks, addr, count, mutex, fdOwner, link, gone, inbox, sent, cur, fd, who, limit, got>>
        /\ UNCHANGED moved /\ (disturbed => disturbed') /\ pc[t] = "disconnect" /\ Return(t)
    BY Zenon DEF DisconnectEnter, At
  <1>4. CASE t = "user"
    <2>1. Goto("user", "idle") /\ cid' = [cid EXCEPT !["user"] = 0]
      BY <1>3, <1>4 DEF Return
    <2>2. UserMoves("idle")
      BY <1>3, <1>4, <2>1, MaxAssumption DEF UserMoves, IInv, Fields, Tables, System, Locals, Places, Removing,
         Closing, PcLabels, Callers, Threads
    <2>3. pc'["user"] = "idle"
      BY <2>2, UserMovesInv
    <2> QED
      BY <1>1, <1>2, <2>2, <2>3, UserMovesInv, NotSending, NotClosing DEF IInv
  <1>5. CASE t = "listener"
    <2>1. Goto("listener", "slot") /\ cid' = [cid EXCEPT !["listener"] = cid["listener"] + 1]
      BY <1>3, <1>5 DEF Return
    <2>2. cid["listener"] + 1 \in 0 .. MAX
      <3>1. cid["listener"] \in 0 .. MAX /\ cid["listener"] < MAX
        BY <1>3, <1>5 DEF IInv, Fields, Locals, Places, Callers
      <3> QED
        BY <3>1, MaxAssumption
    <2>3. cid' \in [Callers -> 0..MAX] /\ cid'["user"] = cid["user"]
      BY <2>1, <2>2 DEF IInv, Fields, Locals, Callers
    <2>4. pc'["listener"] = "slot"
      BY <2>1, Went DEF IInv, Fields, Threads, Callers, PcLabels
    <2>5. ListenerMoves
      BY <1>3, <1>5, <2>1, <2>3, <2>4 DEF ListenerMoves, IInv, Fields, System, Locals
    <2> QED
      BY <1>1, <1>2, <2>5, ListenerMovesInv, Zenon DEF IInv
  <1> QED
    BY <1>4, <1>5 DEF Callers

\* CommsDisconnect takes the lock for a cid that names a client (eth_comms.h:222-230).
LEMMA DisconnectEnteredInv ==
  ASSUME IInv, NEW t \in Callers, DisconnectEnter(t), cid[t] >= 1 /\ cid[t] < count /\ socks[cid[t]] > 0
  PROVE  IInv'
  <1> USE DEF table, world, peers
  <1>1. Booleans'
    <2>1. (disturbed \/ Closing) \in BOOLEAN
      OBVIOUS
    <2> QED
      BY <2>1, Zenon DEF IInv, Booleans, DisconnectEnter
  <1>2. Scalars'
    BY Zenon DEF IInv, Scalars, DisconnectEnter
  <1>3. /\ UNCHANGED <<socks, addr, count, fdOwner, link, gone, inbox, sent, cid, cur, fd, who, limit, got, moved>>
        /\ pc[t] = "disconnect" /\ mutex = "free" /\ mutex' = t /\ Goto(t, "dclose")
        /\ (~disturbed' => ~disturbed /\ ~Closing)
    BY Zenon DEF DisconnectEnter, At
  <1>4. Labels' /\ pc'[t] = "dclose" /\ \A u \in Threads : u # t => pc'[u] = pc[u]
    BY <1>3, Went DEF IInv, Fields, Threads, Callers, PcLabels
  <1>5. t \in Threads /\ {"user", "listener", "accepter"} = Threads /\ t \in {"user", "listener"}
    BY DEF Threads, Callers
  <1>6. Fields'
    BY <1>3, <1>4 DEF IInv, Fields, Tables, System, Locals
  <1>7. Places'
    <2>1. cid[t] \in 1 .. count - 1
      BY DEF IInv, Fields, Locals, Tables
    <2> QED
      BY <1>3, <1>4, <1>5, <2>1 DEF IInv, Places, Removing, Callers
  <1>8. Closing' <=> Closing
    BY <1>3, <1>4, <1>5 DEF Closing
  <1>9. Owners'
    BY <1>3, <1>8 DEF IInv, Owners
  <1>10. Hole = 0 /\ Hole' = 0
    BY <1>3, <1>4, <1>5 DEF Hole
  <1>11. Occupied' = Occupied
    BY <1>3, <1>10 DEF Occupied, ClientSlots
  <1>12. Entries'
    BY <1>3, <1>4, <1>5, <1>8, <1>11 DEF IInv, Entries, At, Callers
  <1>13. Sends'
    BY <1>3, <1>4, <1>5 DEF IInv, Sends, At
  <1>14. Closes'
    BY <1>3, <1>8 DEF Closes
  <1> QED
    BY <1>1, <1>2, <1>6, <1>7, <1>9, <1>12, <1>13, <1>14 DEF IInv

\* CommsDisconnect closes the client's descriptor (eth_comms.h:238-241).
LEMMA DisconnectCloseInv ==
  ASSUME IInv, NEW t \in Callers, DisconnectClose(t)
  PROVE  IInv'
  <1> USE DEF table, world, peers, local
  <1>1. Booleans'
    <2>1. (raced \/ (t = "user" /\ pc["listener"] \in {"recv", "disconnect"})) \in BOOLEAN
          /\ (moved \/ Sending) \in BOOLEAN
      OBVIOUS
    <2> QED
      BY <2>1, Zenon DEF IInv, Booleans, DisconnectClose
  <1>2. Scalars'
    BY Zenon DEF IInv, Scalars, DisconnectClose
  <1> DEFINE c == cid[t]
             f == IF socks[cid[t]] > 0 THEN socks[cid[t]] ELSE -1
  <1>3. /\ UNCHANGED <<socks, addr, count, mutex, gone, inbox, sent, cid, cur, fd, who, limit, got, disturbed>>
        /\ pc[t] = "dclose" /\ Goto(t, "dzero") /\ CloseFd(f)
        /\ (~moved' => ~moved /\ ~Sending)
    BY Zenon DEF DisconnectClose, At
  <1>4. Labels' /\ pc'[t] = "dzero" /\ \A u \in Threads : u # t => pc'[u] = pc[u]
    BY <1>3, Went DEF IInv, Fields, Threads, Callers, PcLabels
  <1>5. t \in Threads /\ {"user", "listener", "accepter"} = Threads /\ t \in {"user", "listener"} /\ mutex = t
    BY <1>3 DEF Threads, Callers, IInv, Places, Removing
  <1>6. c \in 1 .. count - 1 /\ count \in 1 .. MAX /\ socks[c] \in -1 .. MaxFd /\ f \in Int
    <2>1. c \in 1 .. count - 1 /\ count \in 1 .. MAX
      BY <1>3 DEF IInv, Places, Fields, Tables
    <2>2. c \in Slot
      BY <2>1, MaxAssumption DEF Slot
    <2> QED
      BY <2>1, <2>2, MaxAssumption DEF IInv, Fields, Tables
  <1> HIDE DEF f
  <1>7. Fields'
    BY <1>3, <1>4, <1>6, CloseFdFacts DEF IInv, Fields, Tables, Locals
  <1>8. Places'
    BY <1>3, <1>4, <1>5 DEF IInv, Places, Removing, Callers
  <1>9. Closing' <=> Closing
    BY <1>3, <1>4, <1>5 DEF Closing
  <1>10. ASSUME ~Closing
         PROVE  /\ socks[c] = f /\ f \in Fds \ {0, 1} /\ fdOwner[f] = addr[c] /\ addr[c] \in Peers
                /\ Occupied = 1 .. count - 1 /\ Occupied' = (1 .. count - 1) \ {c}
    <2>1. Hole = 0
      BY <1>3, <1>5 DEF Hole
    <2>2. Hole' = c
      BY <1>3, <1>4, <1>5 DEF Hole
    <2>3. Occupied = 1 .. count - 1 /\ Occupied' = (1 .. count - 1) \ {c}
      BY <1>3, <1>6, <2>1, <2>2 DEF Occupied, ClientSlots
    <2>4. addr[c] \in Peers /\ socks[c] \in Fds \ {0} /\ fdOwner[socks[c]] = addr[c]
      BY <1>6, <1>10, <2>3 DEF IInv, Entries
    <2>5. socks[c] # 1
      BY <1>10, <2>4, PeerAssumption DEF IInv, Owners, NotAPeer
    <2> QED
      BY <1>6, <2>3, <2>4, <2>5, MaxAssumption DEF f, Fds
  <1>11. Owners'
    <2>1. 0 \in Fds /\ 1 \in Fds
      BY MaxAssumption DEF Fds
    <2> QED
      BY <1>3, <1>6, <1>9, <1>10, <2>1, CloseFdFacts DEF IInv, Owners
  <1>12. ASSUME ~Closing PROVE Entries'
    <2> USE <1>10, <1>12
    <2>1. /\ \A i \in 1 .. count - 1 : addr[i] \in Peers /\ socks[i] \in Fds \ {0} /\ fdOwner[socks[i]] = addr[i]
          /\ \A i, j \in 1 .. count - 1 : addr[i] = addr[j] => i = j
          /\ At("accepter", "insert") =>
                /\ who["accepter"] \in Peers /\ fd["accepter"] \in Fds
                /\ fdOwner[fd["accepter"]] = who["accepter"]
                /\ \A i \in 1 .. count - 1 : addr[i] # who["accepter"]
          /\ \A p \in Peers : link[p] = "up" =>
                (\E i \in 1 .. count - 1 : addr[i] = p) \/ (At("accepter", "insert") /\ who["accepter"] = p)
          /\ \A i \in Slot : i >= count => socks[i] = 0
      BY DEF IInv, Entries
    <2>2. /\ \A g \in Fds : fdOwner'[g] = IF g = f THEN "free" ELSE fdOwner[g]
          /\ \A p \in Peers : link'[p] = IF p = addr[c] THEN "closed" ELSE link[p]
      BY <1>3, <1>6, CloseFdFacts
    <2>3. At("accepter", "insert")' <=> At("accepter", "insert")
      BY <1>4, <1>5 DEF At, Callers
    <2>4. \A u \in Callers : pc'[u] # "dcount"
      BY <1>3, <1>4, <1>5 DEF IInv, Places, Removing, Callers
    <2> HIDE DEF c
    <2>5. \A i \in (1 .. count - 1) \ {c} : fdOwner'[socks[i]] = addr[i]
      BY <1>6, <2>1, <2>2
    <2>6. At("accepter", "insert") => fdOwner'[fd["accepter"]] = who["accepter"]
      BY <1>6, <2>1, <2>2
    <2>7. \A p \in Peers : link'[p] = "up" =>
             (\E i \in (1 .. count - 1) \ {c} : addr[i] = p) \/ (At("accepter", "insert") /\ who["accepter"] = p)
      BY <2>1, <2>2
    <2> QED
      BY <1>3, <2>1, <2>3, <2>4, <2>5, <2>6, <2>7 DEF Entries
  <1>13. Entries'
    BY <1>9, <1>12 DEF Entries
  <1>14. Sends'
    <2>1. Sending' => Sending
      BY <1>4, <1>5 DEF Sending
    <2>2. At("user", "sendone")' => Sending
      BY <1>4, <1>5 DEF At, Sending
    <2> QED
      BY <1>3, <2>1, <2>2 DEF Sends
  <1>15. Closes'
    BY <1>3, <1>5, <1>9, DisturbedSweep DEF Closes, Callers
  <1> QED
    BY <1>1, <1>2, <1>7, <1>8, <1>11, <1>13, <1>14, <1>15 DEF IInv

\* A removal past close() is known to a send that runs, and to a sweep.
LEMMA RemovalIsKnown ==
  ASSUME IInv, NEW t \in Callers, pc[t] \in {"dzero", "dshift", "dcount"}
  PROVE  /\ mutex = t /\ t \in {"user", "listener"} /\ t \in Threads
         /\ Closing => disturbed
         /\ Sending => moved
         /\ Hole \in 1 .. count - 1 /\ Occupied = (1 .. count - 1) \ {Hole}
  <1>1. mutex = t /\ mutex # "free" /\ t \in {"user", "listener"} /\ t \in Threads
    BY DEF IInv, Places, Removing, Callers, Threads
  <1>2. (Closing => disturbed) /\ (Sending => moved)
    BY <1>1, DisturbedSweep DEF IInv, Sends
  <1>3. Hole \in 1 .. count - 1
    BY <1>1 DEF Hole, IInv, Places, Fields, Tables
  <1> HIDE DEF Hole
  <1> QED
    BY <1>1, <1>2, <1>3 DEF Occupied, ClientSlots

(***************************************************************************)
(* A step of the shifting loop: the hole moves, and the entry that was     *)
(* there is now where the hole was.                                        *)
(***************************************************************************)
Shifts(t, l) ==
    /\ pc[t] \in {"dzero", "dshift"} /\ l \in {"dshift", "dcount"} /\ Goto(t, l)
    /\ UNCHANGED <<count, mutex, fdOwner, link, gone, inbox, sent, cid, fd, who, limit, got, moved, disturbed>>
    /\ socks' \in [Slot -> -1 .. MaxFd] /\ addr' \in [Slot -> Peers \cup {"none"}]
    /\ cur' \in [Callers -> Slot] /\ \A u \in Callers : u # t => cur'[u] = cur[u]
    /\ l = "dshift" => cur'[t] \in 1 .. count - 1
    /\ Hole' \in 1 .. count - 1
    /\ socks'[0] = socks[0]
    /\ \A i \in (1 .. count - 1) \ {Hole'} :
          LET j == IF i = Hole THEN Hole' ELSE i IN socks'[i] = socks[j] /\ addr'[i] = addr[j]
    /\ \A i \in Slot : i >= count => socks'[i] = socks[i]
    /\ l = "dcount" => socks'[count - 1] = 0

\* What such a step keeps of the invariant, given where it leaves the hole.
LEMMA ShiftsInv ==
  ASSUME IInv, NEW t \in Callers, NEW l, Shifts(t, l)
  PROVE  Fields' /\ Places' /\ Owners' /\ Entries' /\ Sends' /\ Closes'
  <1> USE DEF Shifts
  <1>1. /\ mutex = t /\ t \in {"user", "listener"} /\ t \in Threads
        /\ (Closing => disturbed) /\ (Sending => moved)
        /\ Hole \in 1 .. count - 1 /\ Occupied = (1 .. count - 1) \ {Hole}
    BY RemovalIsKnown
  <1>2. Labels' /\ pc'[t] = l /\ \A u \in Threads : u # t => pc'[u] = pc[u]
    BY <1>1, Went DEF IInv, Fields, PcLabels
  <1>3. Fields'
    BY <1>2 DEF IInv, Fields, Tables, System, Locals
  <1>4. {"user", "listener", "accepter"} = Threads
    BY DEF Threads, Callers
  <1>5. count >= 2 /\ count \in 1 .. MAX
    BY <1>1 DEF IInv, Fields, Tables
  <1>6. Places'
    BY <1>1, <1>2, <1>4, <1>5 DEF IInv, Places, Removing, Callers
  <1>7. (Closing' <=> Closing) /\ (Sending' <=> Sending) /\ (At("user", "sendone")' => Sending)
        /\ (At("accepter", "insert")' <=> At("accepter", "insert"))
    BY <1>1, <1>2, <1>4 DEF Closing, Sending, At, Callers
  <1>8. Owners'
    BY <1>7 DEF IInv, Owners
  <1>9. Occupied' = (1 .. count - 1) \ {Hole'}
    BY DEF Occupied, ClientSlots
  <1>10. \A u \in Callers : pc'[u] = "dcount" => u = t
    BY <1>1, <1>2, <1>4 DEF IInv, Places, Removing, Callers
  <1>11. ASSUME ~Closing PROVE Entries'
    <2> DEFINE from(i) == IF i = Hole THEN Hole' ELSE i
               new == (1 .. count - 1) \ {Hole'}
    <2> HIDE DEF Hole
    <2>1. /\ \A i \in new : from(i) \in Occupied
          /\ \A i, j \in new : from(i) = from(j) => i = j
          /\ \A j \in Occupied : \E i \in new : from(i) = j
      BY <1>1
    <2>2. \A i \in new : socks'[i] = socks[from(i)] /\ addr'[i] = addr[from(i)]
      OBVIOUS
    <2>3. /\ \A i \in Occupied : addr[i] \in Peers /\ socks[i] \in Fds \ {0} /\ fdOwner[socks[i]] = addr[i]
          /\ \A i, j \in Occupied : addr[i] = addr[j] => i = j
          /\ At("accepter", "insert") =>
                /\ who["accepter"] \in Peers /\ fd["accepter"] \in Fds
                /\ fdOwner[fd["accepter"]] = who["accepter"]
                /\ \A i \in Occupied : addr[i] # who["accepter"]
          /\ \A p \in Peers : link[p] = "up" =>
                (\E i \in Occupied : addr[i] = p) \/ (At("accepter", "insert") /\ who["accepter"] = p)
          /\ \A i \in Slot : i >= count => socks[i] = 0
      BY <1>11 DEF IInv, Entries
    <2> HIDE DEF from, new, Shifts
    <2>4. /\ \A i \in new : addr'[i] \in Peers /\ socks'[i] \in Fds \ {0} /\ fdOwner[socks'[i]] = addr'[i]
          /\ \A i, j \in new : addr'[i] = addr'[j] => i = j
      BY <2>1, <2>2, <2>3
    <2>5. At("accepter", "insert") => \A i \in new : addr'[i] # who["accepter"]
      BY <2>1, <2>2, <2>3
    <2>6. \A p \in Peers : link[p] = "up" =>
             (\E i \in new : addr'[i] = p) \/ (At("accepter", "insert") /\ who["accepter"] = p)
      BY <2>1, <2>2, <2>3
    <2>7. Occupied' = new
      BY <1>9 DEF new
    <2>8. /\ UNCHANGED <<count, fdOwner, link, fd, who>>
          /\ \A i \in Slot : i >= count => socks'[i] = 0
          /\ l = "dcount" => socks'[count - 1] = 0
      BY <2>3 DEF Shifts
    <2> QED
      BY <1>2, <1>7, <1>10, <2>3, <2>4, <2>5, <2>6, <2>7, <2>8 DEF Entries
  <1>12. Entries'
    BY <1>7, <1>11 DEF Entries
  <1>13. Sends' /\ Closes'
    BY <1>1, <1>7 DEF Sends, Closes
  <1> QED
    BY <1>3, <1>6, <1>8, <1>12, <1>13

\* CommsDisconnect clears the slot, moves the slots behind it and clears the last (eth_comms.h:242-252).
LEMMA DisconnectShiftsInv ==
  ASSUME IInv, NEW t \in Callers, DisconnectZero(t) \/ DisconnectShift(t) \/ DisconnectClear(t)
  PROVE  IInv'
  <1> USE DEF table, world, peers, hist
  <1>1. Booleans' /\ Scalars'
    BY Zenon DEF IInv, Booleans, Scalars, DisconnectZero, DisconnectShift, DisconnectClear
  <1>2. UNCHANGED <<count, mutex, fdOwner, link, gone, inbox, sent, cid, fd, who, limit, got, moved, disturbed>>
    BY Zenon DEF DisconnectZero, DisconnectShift, DisconnectClear
  <1>3. pc[t] \in {"dzero", "dshift"}
    BY DEF DisconnectZero, DisconnectShift, DisconnectClear, At
  <1>4. /\ mutex = t /\ mutex # "free" /\ t \in {"user", "listener"} /\ t \in Threads
        /\ Hole \in 1 .. count - 1
    BY <1>3, RemovalIsKnown
  <1>5. /\ count \in 1 .. MAX /\ MAX \in Nat /\ socks \in [Slot -> -1 .. MaxFd]
        /\ addr \in [Slot -> Peers \cup {"none"}] /\ cur \in [Callers -> Slot] /\ cid[t] \in 0 .. MAX
        /\ 0 \in -1 .. MaxFd /\ 1 .. count - 1 \subseteq Slot /\ 0 \in Slot /\ count - 1 \in Slot
    BY MaxAssumption DEF IInv, Fields, Tables, Locals, Slot
  <1>6. CASE DisconnectZero(t)
    <2> DEFINE c == cid[t]
    <2>1. /\ pc[t] = "dzero" /\ Goto(t, "dshift") /\ cur' = [cur EXCEPT ![t] = c]
          /\ socks' = [socks EXCEPT ![c] = 0] /\ addr' = [addr EXCEPT ![c] = "none"]
      BY <1>6, Zenon DEF DisconnectZero, At
    <2>2. c \in 1 .. count - 1
      BY <2>1 DEF IInv, Places
    <2>3. pc'[t] = "dshift" /\ cur'[t] = c
      BY <1>4, <1>5, <2>1, <2>2, Went DEF IInv, Fields, PcLabels
    <2>4. Hole = c
      BY <1>4, <2>1 DEF Hole
    <2>5. Hole' = c
      BY <1>2, <1>4, <2>3 DEF Hole
    <2> HIDE DEF Hole, c
    <2>6. /\ socks' \in [Slot -> -1 .. MaxFd] /\ addr' \in [Slot -> Peers \cup {"none"}]
          /\ cur' \in [Callers -> Slot] /\ \A u \in Callers : u # t => cur'[u] = cur[u]
          /\ \A i \in Slot : i # c => socks'[i] = socks[i] /\ addr'[i] = addr[i]
      BY <1>5, <2>1, <2>2
    <2>7. Shifts(t, "dshift")
      BY <1>2, <1>3, <1>4, <1>5, <2>1, <2>2, <2>3, <2>4, <2>5, <2>6 DEF Shifts
    <2> QED
      BY <1>1, <2>7, ShiftsInv DEF IInv
  <1>7. CASE DisconnectShift(t)
    <2> DEFINE k == cur[t]
    <2>1. /\ pc[t] = "dshift" /\ k < count - 1 /\ UNCHANGED pc /\ cur' = [cur EXCEPT ![t] = k + 1]
          /\ socks' = [socks EXCEPT ![k] = socks[k + 1]] /\ addr' = [addr EXCEPT ![k] = addr[k + 1]]
      BY <1>7, Zenon DEF DisconnectShift, At
    <2>2. k \in 1 .. count - 1 /\ k + 1 \in 1 .. count - 1
      BY <1>5, <2>1 DEF IInv, Places
    <2>3. Goto(t, "dshift")
      BY <2>1, <1>4 DEF Goto, IInv, Fields, Labels
    <2>4. cur'[t] = k + 1
      BY <1>5, <2>1, <2>2
    <2>5. Hole = k
      BY <1>4, <2>1 DEF Hole
    <2>6. Hole' = k + 1
      BY <1>2, <1>4, <2>1, <2>4 DEF Hole
    <2> HIDE DEF Hole, k
    <2>7. /\ socks' \in [Slot -> -1 .. MaxFd] /\ addr' \in [Slot -> Peers \cup {"none"}]
          /\ cur' \in [Callers -> Slot] /\ \A u \in Callers : u # t => cur'[u] = cur[u]
          /\ socks'[k] = socks[k + 1] /\ addr'[k] = addr[k + 1]
          /\ \A i \in Slot : i # k => socks'[i] = socks[i] /\ addr'[i] = addr[i]
      BY <1>5, <2>1, <2>2
    <2>8. Shifts(t, "dshift")
      BY <1>2, <1>3, <1>4, <1>5, <2>2, <2>3, <2>4, <2>5, <2>6, <2>7 DEF Shifts
    <2> QED
      BY <1>1, <2>8, ShiftsInv DEF IInv
  <1>8. CASE DisconnectClear(t)
    <2>1. /\ pc[t] = "dshift" /\ cur[t] >= count - 1 /\ Goto(t, "dcount") /\ cur' = [cur EXCEPT ![t] = 0]
          /\ socks' = [socks EXCEPT ![count - 1] = 0] /\ addr' = [addr EXCEPT ![count - 1] = "none"]
      BY <1>8, Zenon DEF DisconnectClear, At
    <2>2. cur[t] \in 1 .. count - 1
      BY <2>1 DEF IInv, Places
    <2>3. pc'[t] = "dcount"
      BY <1>4, <2>1, Went DEF IInv, Fields, PcLabels
    <2>4. Hole = cur[t]
      BY <1>4, <2>1 DEF Hole
    <2>5. Hole' = count - 1
      BY <1>2, <1>4, <2>3 DEF Hole
    <2>6. cur[t] = count - 1
      BY <1>5, <2>1, <2>2
    <2> HIDE DEF Hole
    <2>7. /\ socks' \in [Slot -> -1 .. MaxFd] /\ addr' \in [Slot -> Peers \cup {"none"}]
          /\ cur' \in [Callers -> Slot] /\ \A u \in Callers : u # t => cur'[u] = cur[u]
          /\ socks'[count - 1] = 0
          /\ \A i \in Slot : i # count - 1 => socks'[i] = socks[i] /\ addr'[i] = addr[i]
      BY <1>5, <2>1
    <2>8. Shifts(t, "dcount")
      BY <1>2, <1>3, <1>4, <1>5, <2>1, <2>2, <2>4, <2>5, <2>6, <2>7 DEF Shifts
    <2> QED
      BY <1>1, <2>8, ShiftsInv DEF IInv
  <1> QED
    BY <1>6, <1>7, <1>8

\* CommsDisconnect counts the client out and unlocks (eth_comms.h:254-256).
LEMMA DisconnectCountInv ==
  ASSUME IInv, NEW t \in Callers, DisconnectCount(t)
  PROVE  IInv'
  <1> USE DEF world, peers, hist
  <1>1. Booleans' /\ Scalars'
    BY Zenon DEF IInv, Booleans, Scalars, DisconnectCount
  <1>2. /\ UNCHANGED <<socks, addr, fdOwner, link, gone, inbox, sent, cur, fd, who, limit, got, moved, disturbed>>
        /\ pc[t] = "dcount" /\ count' = count - 1 /\ mutex' = "free" /\ Return(t)
    BY Zenon DEF DisconnectCount, At
  <1>3. /\ mutex = t /\ mutex # "free" /\ t \in {"user", "listener"} /\ t \in Threads
        /\ (Closing => disturbed) /\ (Sending => moved)
    BY <1>2, RemovalIsKnown
  <1>4. Occupied = (1 .. count - 1) \ {count - 1} /\ count \in 2 .. MAX /\ count - 1 \in 1 .. MAX
        /\ count - 1 \in Slot
    <2>1. Hole = count - 1
      BY <1>2, <1>3 DEF Hole
    <2>2. count >= 2 /\ count \in 1 .. MAX
      BY <1>2 DEF IInv, Places, Fields, Tables
    <2> QED
      BY <1>2, <2>1, <2>2, MaxAssumption, RemovalIsKnown DEF Slot
  <1>5. /\ Labels' /\ \A u \in Threads : u # t => pc'[u] = pc[u]
        /\ pc'[t] = IF t = "user" THEN "idle" ELSE "slot"
        /\ cid' \in [Callers -> 0..MAX] /\ \A u \in Callers : u # t => cid'[u] = cid[u]
    <2>1. CASE t = "user"
      <3>1. Goto("user", "idle") /\ cid' = [cid EXCEPT !["user"] = 0]
        BY <1>2, <2>1 DEF Return
      <3>2. cid' \in [Callers -> 0..MAX] /\ \A u \in Callers : u # t => cid'[u] = cid[u]
        BY <2>1, <3>1, MaxAssumption DEF IInv, Fields, Locals
      <3> QED
        BY <1>3, <2>1, <3>1, <3>2, Went DEF IInv, Fields, PcLabels
    <2>2. CASE t = "listener"
      <3>1. Goto("listener", "slot") /\ cid' = [cid EXCEPT !["listener"] = cid["listener"] + 1]
        BY <1>2, <2>2 DEF Return
      <3>2. cid["listener"] \in 0 .. MAX /\ cid["listener"] < MAX
        BY <1>2, <2>2 DEF IInv, Fields, Locals, Places, Callers
      <3>3. cid["listener"] + 1 \in 0 .. MAX
        BY <3>2, MaxAssumption
      <3>4. cid' \in [Callers -> 0..MAX] /\ \A u \in Callers : u # t => cid'[u] = cid[u]
        BY <2>2, <3>1, <3>3 DEF IInv, Fields, Locals
      <3> QED
        BY <1>3, <2>2, <3>1, <3>4, Went DEF IInv, Fields, PcLabels
    <2> QED
      BY <1>3, <2>1, <2>2
  <1>6. {"user", "listener", "accepter"} = Threads /\ Callers = {"user", "listener"}
    BY DEF Threads, Callers
  <1>7. Fields'
    BY <1>2, <1>4, <1>5 DEF IInv, Fields, Tables, System, Locals
  <1>8. \A u \in Callers : ~Removing(u)'
    BY <1>2, <1>3, <1>5, <1>6 DEF IInv, Places, Removing
  <1>9. Places'
    BY <1>2, <1>3, <1>5, <1>6, <1>8 DEF IInv, Places, Removing
  <1>10. (Closing' <=> Closing) /\ (Sending' <=> Sending) /\ (At("user", "sendone")' => Sending)
         /\ (At("accepter", "insert")' <=> At("accepter", "insert"))
    BY <1>2, <1>3, <1>5, <1>6 DEF Closing, Sending, At
  <1>11. Owners'
    BY <1>2, <1>10 DEF IInv, Owners
  <1>12. Occupied' = Occupied
    <2>1. Hole' = 0
      BY <1>2 DEF Hole
    <2>2. Occupied' = (1 .. count - 2) \ {0}
      BY <1>2, <1>4, <2>1 DEF Occupied, ClientSlots
    <2> QED
      BY <1>4, <2>2
  <1>13. ASSUME ~Closing PROVE \A i \in Slot : i >= count - 1 => socks[i] = 0
    BY <1>2, <1>4, <1>13 DEF IInv, Entries, Slot
  <1>14. \A u \in Callers : pc'[u] # "dcount"
    BY <1>8 DEF Removing
  <1> HIDE DEF Occupied
  <1>15. Entries'
    BY <1>2, <1>10, <1>12, <1>13, <1>14 DEF IInv, Entries
  <1>16. Sends' /\ Closes'
    BY <1>2, <1>3, <1>10 DEF Sends, Closes
  <1> QED
    BY <1>1, <1>7, <1>9, <1>11, <1>15, <1>16 DEF IInv

(***************************************************************************)
(* The accepter with a new connection.                                     *)
(***************************************************************************)
LEMMA AccepterAcceptInv ==
  ASSUME IInv, NEW p \in Peers, NEW f \in Fds, AccepterAccept(p, f)
  PROVE  IInv'
  <1> USE DEF table, peers
  <1>1. Booleans'
    <2>1. (disturbed \/ Closing) \in BOOLEAN
      OBVIOUS
    <2> QED
      BY <2>1, Zenon DEF IInv, Booleans, AccepterAccept
  <1>2. Scalars'
    BY Zenon DEF IInv, Scalars, AccepterAccept
  <1>3. /\ UNCHANGED <<socks, addr, count, mutex, gone, inbox, sent, cid, cur, limit, got, moved>>
        /\ fdOwner' = [fdOwner EXCEPT ![f] = p] /\ link' = [link EXCEPT ![p] = "up"]
        /\ fd' = [fd EXCEPT !["accepter"] = f] /\ who' = [who EXCEPT !["accepter"] = p]
        /\ pc["accepter"] = "accept" /\ Goto("accepter", "insert")
        /\ link[p] = "queued" /\ fdOwner[f] = "free"
        /\ (~disturbed' => ~disturbed /\ ~Closing)
    BY Zenon DEF AccepterAccept, At, IsNextFd
  <1>4. Labels' /\ pc'["accepter"] = "insert" /\ pc'["user"] = pc["user"] /\ pc'["listener"] = pc["listener"]
    BY <1>3, Went DEF IInv, Fields, Threads, Callers, PcLabels
  <1>5. /\ fdOwner \in [Fds -> Peers \cup {"free", "tty", "listen"}]
        /\ link \in [Peers -> {"new", "queued", "up", "closed"}]
        /\ fd \in [Threads -> -1 .. MaxFd] /\ who \in [{"listener", "accepter"} -> Peers \cup {"none"}]
    BY DEF IInv, Fields, System, Locals
  <1>6. /\ \A g \in Fds : fdOwner'[g] = IF g = f THEN p ELSE fdOwner[g]
        /\ \A q \in Peers : link'[q] = IF q = p THEN "up" ELSE link[q]
        /\ fd'["accepter"] = f /\ fd'["user"] = fd["user"] /\ fd'["listener"] = fd["listener"]
        /\ who'["accepter"] = p
    BY <1>3, <1>5 DEF Threads, Callers
  <1>7. Fields'
    <2>1. System'
      BY <1>3, <1>5 DEF IInv, Fields, System
    <2>2. Locals'
      <3>1. f \in -1 .. MaxFd
        BY MaxAssumption DEF Fds
      <3> QED
        BY <1>3, <1>5, <3>1 DEF IInv, Fields, Locals
    <2> QED
      BY <1>3, <1>4, <2>1, <2>2 DEF IInv, Fields, Tables
  <1>8. Places'
    BY <1>3, <1>4 DEF IInv, Places, Removing, Callers
  <1>9. Closing' <=> Closing
    BY <1>4 DEF Closing
  <1>10. \A g \in Fds : fdOwner[g] # p
    BY <1>3 DEF IInv, Owners
  <1>11. Owners'
    <2>1. 0 \in Fds /\ 1 \in Fds
      BY MaxAssumption DEF Fds
    <2> QED
      BY <1>3, <1>6, <1>9, <1>10, <2>1 DEF IInv, Owners
  <1>12. Occupied' = Occupied
    <2>1. Hole' = Hole
      BY <1>3, <1>4 DEF Hole, IInv, Fields, Tables, Callers
    <2> QED
      BY <1>3, <2>1 DEF Occupied, ClientSlots
  <1>13. Entries'
    <2>1. ASSUME ~Closing, NEW i \in Occupied PROVE addr[i] # p /\ socks[i] # f
      BY <1>3, <1>10, <2>1, PeerAssumption DEF IInv, Entries, NotAPeer
    <2>2. \A u \in Callers : pc'[u] = pc[u]
      BY <1>4 DEF Callers
    <2> HIDE DEF Occupied
    <2> QED
      BY <1>3, <1>4, <1>6, <1>9, <1>12, <2>1, <2>2 DEF IInv, Entries, At
  <1>14. Sends'
    BY <1>3, <1>4, <1>6 DEF IInv, Sends, Sending, At, Fields, Tables, Callers
  <1>15. Closes'
    BY <1>3, <1>9 DEF Closes
  <1> QED
    BY <1>1, <1>2, <1>7, <1>8, <1>11, <1>13, <1>14, <1>15 DEF IInv

\* The accepter stores the client it has accepted behind the others (eth_comms.h:663-668).
LEMMA AccepterInsertInv ==
  ASSUME IInv, AccepterInsert
  PROVE  IInv'
  <1> USE DEF world, peers, hist
  <1>1. Booleans' /\ Scalars'
    BY Zenon DEF IInv, Booleans, Scalars, AccepterInsert, AccepterForget
  <1>2. /\ UNCHANGED <<mutex, fdOwner, link, gone, inbox, sent, cid, cur, limit, got, moved, disturbed>>
        /\ socks' = [socks EXCEPT ![count] = fd["accepter"]] /\ addr' = [addr EXCEPT ![count] = who["accepter"]]
        /\ count' = count + 1 /\ count < MAX /\ mutex = "free"
        /\ fd' = [fd EXCEPT !["accepter"] = 0] /\ who' = [who EXCEPT !["accepter"] = "none"]
        /\ pc["accepter"] = "insert" /\ Goto("accepter", "while")
    BY Zenon DEF AccepterInsert, AccepterForget, At
  <1>3. Labels' /\ pc'["accepter"] = "while" /\ pc'["user"] = pc["user"] /\ pc'["listener"] = pc["listener"]
    BY <1>2, Went DEF IInv, Fields, Threads, Callers, PcLabels
  <1>4. /\ count \in 1 .. MAX /\ count + 1 \in 1 .. MAX /\ count \in Slot /\ 0 \in -1 .. MaxFd
        /\ fd["accepter"] \in -1 .. MaxFd /\ who["accepter"] \in Peers \cup {"none"}
    <2>1. count \in 1 .. MAX
      BY DEF IInv, Fields, Tables
    <2> QED
      BY <1>2, <2>1, MaxAssumption DEF IInv, Fields, Locals, Slot, Threads
  <1>5. /\ socks' \in [Slot -> -1 .. MaxFd] /\ addr' \in [Slot -> Peers \cup {"none"}]
        /\ socks'[count] = fd["accepter"] /\ addr'[count] = who["accepter"]
        /\ \A i \in Slot : i # count => socks'[i] = socks[i] /\ addr'[i] = addr[i]
    BY <1>2, <1>4 DEF IInv, Fields, Tables
  <1>6. /\ fd' \in [Threads -> -1 .. MaxFd] /\ fd'["user"] = fd["user"]
        /\ who' \in [{"listener", "accepter"} -> Peers \cup {"none"}]
    BY <1>2, <1>4 DEF IInv, Fields, Locals, Threads, Callers
  <1>7. Fields'
    BY <1>2, <1>3, <1>4, <1>5, <1>6 DEF IInv, Fields, Tables, System, Locals
  <1>8. Places'
    BY <1>2, <1>3, <1>4 DEF IInv, Places, Removing, Callers
  <1>9. (Closing' <=> Closing) /\ (Closing => disturbed)
    BY <1>2, <1>3, DisturbedSweep DEF Closing, At
  <1>10. 0 \in Slot /\ count # 0 /\ 1 .. count - 1 \subseteq Slot
    BY <1>4, MaxAssumption DEF Slot
  <1>11. Owners'
    BY <1>2, <1>5, <1>9, <1>10 DEF IInv, Owners
  <1>12. Occupied = 1 .. count - 1 /\ Occupied' = 1 .. count
    <2>1. Hole = 0 /\ Hole' = 0
      BY <1>2 DEF Hole
    <2> QED
      BY <1>2, <1>4, <2>1 DEF Occupied, ClientSlots
  <1>13. ASSUME ~Closing PROVE Entries'
    <2>1. /\ \A i \in 1 .. count - 1 : addr[i] \in Peers /\ socks[i] \in Fds \ {0} /\ fdOwner[socks[i]] = addr[i]
          /\ \A i, j \in 1 .. count - 1 : addr[i] = addr[j] => i = j
          /\ who["accepter"] \in Peers /\ fd["accepter"] \in Fds
          /\ fdOwner[fd["accepter"]] = who["accepter"]
          /\ \A i \in 1 .. count - 1 : addr[i] # who["accepter"]
          /\ \A p \in Peers : link[p] = "up" =>
                (\E i \in 1 .. count - 1 : addr[i] = p) \/ who["accepter"] = p
          /\ \A i \in Slot : i >= count => socks[i] = 0
      BY <1>2, <1>12, <1>13 DEF IInv, Entries, At
    <2>2. fd["accepter"] # 0
      BY <1>13, <2>1, PeerAssumption DEF IInv, Owners, NotAPeer
    <2>3. \A i \in 1 .. count : i = count \/ i \in 1 .. count - 1
      BY <1>4
    <2>4. \A i \in 1 .. count : addr'[i] \in Peers /\ socks'[i] \in Fds \ {0} /\ fdOwner[socks'[i]] = addr'[i]
      BY <1>5, <1>10, <2>1, <2>2, <2>3
    <2>5. \A i, j \in 1 .. count : addr'[i] = addr'[j] => i = j
      BY <1>5, <1>10, <2>1, <2>3
    <2>6. ASSUME NEW p \in Peers, link[p] = "up" PROVE \E i \in 1 .. count : addr'[i] = p
      <3>1. CASE who["accepter"] = p
        BY <1>4, <1>5, <3>1
      <3>2. CASE \E i \in 1 .. count - 1 : addr[i] = p
        BY <1>4, <1>5, <1>10, <3>2
      <3> QED
        BY <2>1, <2>6, <3>1, <3>2
    <2>7. \A i \in Slot : i >= count + 1 => socks'[i] = 0
      BY <1>4, <1>5, <2>1 DEF Slot
    <2>8. \A u \in Callers : pc'[u] # "dcount"
      BY <1>2, <1>3 DEF IInv, Places, Removing, Callers
    <2> QED
      BY <1>2, <1>3, <1>12, <2>4, <2>5, <2>6, <2>7, <2>8 DEF Entries, At
  <1>14. Entries'
    BY <1>9, <1>13 DEF Entries
  <1>15. Sends'
    BY <1>2, <1>3, <1>4, <1>5, <1>6, <1>10 DEF IInv, Sends, Sending, At
  <1>16. Closes'
    BY <1>2, <1>9 DEF Closes
  <1> QED
    BY <1>1, <1>7, <1>8, <1>11, <1>14, <1>15, <1>16 DEF IInv

\* The accepter turns the client away at capacity and ends (eth_comms.h:651-660).
LEMMA AccepterFullInv ==
  ASSUME IInv, AccepterFull
  PROVE  IInv'
  <1> USE DEF table, peers, hist
  <1>1. Booleans' /\ Scalars'
    BY Zenon DEF IInv, Booleans, Scalars, AccepterFull, AccepterForget
  <1> DEFINE f == IF fd["accepter"] > 0 THEN fd["accepter"] ELSE -1
  <1>2. /\ UNCHANGED <<socks, addr, count, mutex, gone, inbox, sent, cid, cur, limit, got, moved, disturbed>>
        /\ fd' = [fd EXCEPT !["accepter"] = 0] /\ who' = [who EXCEPT !["accepter"] = "none"]
        /\ pc["accepter"] = "insert" /\ Goto("accepter", "done") /\ CloseFd(f) /\ mutex = "free"
    BY Zenon DEF AccepterFull, AccepterForget, At
  <1>3. Labels' /\ pc'["accepter"] = "done" /\ pc'["user"] = pc["user"] /\ pc'["listener"] = pc["listener"]
    BY <1>2, Went DEF IInv, Fields, Threads, Callers, PcLabels
  <1>4. f \in Int /\ 0 \in -1 .. MaxFd /\ 0 \in Fds /\ 1 \in Fds
    BY MaxAssumption DEF IInv, Fields, Locals, Threads, Fds
  <1>5. ASSUME ~Closing
        PROVE  /\ f = fd["accepter"] /\ f \in Fds \ {0, 1} /\ fdOwner[f] = who["accepter"]
               /\ who["accepter"] \in Peers
    BY <1>2, <1>5, MaxAssumption, PeerAssumption DEF IInv, Entries, Owners, At, Fds, NotAPeer
  <1> HIDE DEF f
  <1>6. /\ fd' \in [Threads -> -1 .. MaxFd] /\ fd'["user"] = fd["user"]
        /\ who' \in [{"listener", "accepter"} -> Peers \cup {"none"}]
    BY <1>2, <1>4 DEF IInv, Fields, Locals, Threads, Callers
  <1>7. Fields'
    BY <1>2, <1>3, <1>4, <1>6, CloseFdFacts DEF IInv, Fields, Tables, Locals
  <1>8. Places'
    BY <1>2, <1>3 DEF IInv, Places, Removing, Callers
  <1>9. (Closing' <=> Closing) /\ (Closing => disturbed)
    BY <1>2, <1>3, DisturbedSweep DEF Closing, At
  <1>10. Owners'
    BY <1>2, <1>4, <1>5, <1>9, CloseFdFacts DEF IInv, Owners
  <1>11. Occupied = ClientSlots /\ Occupied' = ClientSlots /\ ClientSlots = 1 .. count - 1
    <2>1. Hole = 0 /\ Hole' = 0
      BY <1>2 DEF Hole
    <2> QED
      BY <1>2, <2>1 DEF Occupied, ClientSlots, IInv, Fields, Tables
  <1>12. ASSUME ~Closing PROVE Entries'
    <2>1. /\ \A g \in Fds : fdOwner'[g] = IF g = f THEN "free" ELSE fdOwner[g]
          /\ \A p \in Peers : link'[p] = IF p = who["accepter"] THEN "closed" ELSE link[p]
      BY <1>2, <1>4, <1>5, <1>12, CloseFdFacts
    <2>2. /\ \A i \in Occupied : addr[i] \in Peers /\ socks[i] \in Fds \ {0} /\ fdOwner[socks[i]] = addr[i]
          /\ \A i, j \in Occupied : addr[i] = addr[j] => i = j
          /\ \A i \in Occupied : addr[i] # who["accepter"]
          /\ \A p \in Peers : link[p] = "up" => (\E i \in Occupied : addr[i] = p) \/ who["accepter"] = p
          /\ \A i \in Slot : i >= count => socks[i] = 0
      BY <1>2, <1>12 DEF IInv, Entries, At
    <2>3. \A u \in Callers : pc'[u] # "dcount"
      BY <1>2, <1>3 DEF IInv, Places, Removing, Callers
    <2>4. \A i \in Occupied : fdOwner'[socks[i]] = addr[i]
      BY <1>5, <1>12, <2>1, <2>2
    <2>5. Occupied' = Occupied
      BY <1>11
    <2> HIDE DEF Occupied
    <2> QED
      BY <1>2, <1>3, <2>1, <2>2, <2>3, <2>4, <2>5 DEF Entries, At
  <1>13. Entries'
    BY <1>9, <1>12 DEF Entries
  <1>14. Sends'
    BY <1>2, <1>3, <1>6 DEF IInv, Sends, Sending, At
  <1>15. Closes'
    BY <1>2, <1>9 DEF Closes
  <1> QED
    BY <1>1, <1>7, <1>8, <1>10, <1>13, <1>14, <1>15 DEF IInv

----------------------------------------------------------------------------
\* The state after CommsTCPServerInit satisfies the invariant.
LEMMA InitInv == Init => IInv
  <1> SUFFICES ASSUME Init PROVE IInv
    OBVIOUS
  <1> USE MaxAssumption, PeerAssumption, OpsAssumption DEF Init
  <1>1. Booleans /\ Scalars
    BY Zenon DEF Booleans, Scalars
  <1>2. Tables /\ System /\ Labels /\ Locals
    BY DEF Tables, System, Labels, Locals, Slot, Fds, Callers, Threads, PcLabels
  <1>3. Places
    BY DEF Places, Removing, Callers
  <1>4. Owners
    BY DEF Owners, NotAPeer, Fds, Slot
  <1>5. Entries
    BY DEF Entries, Occupied, ClientSlots, At, Slot, Callers
  <1>6. Sends /\ Closes
    BY DEF Sends, Sending, Closes, Closing, At
  <1> QED
    BY <1>1, <1>2, <1>3, <1>4, <1>5, <1>6 DEF IInv, Fields

\* Nothing happens once the process has nothing left to do.
LEMMA StutterInv ==
  ASSUME IInv, UNCHANGED vars
  PROVE  IInv'
  <1> USE DEF vars, table, world, peers, local, hist
  <1>1. Booleans' /\ Scalars'
    BY Zenon DEF IInv, Booleans, Scalars
  <1>2. Fields' /\ Places'
    BY DEF IInv, Fields, Tables, System, Labels, Locals, Places, Removing
  <1>3. Keeps
    BY DEF Keeps, At, Closing
  <1> QED
    BY <1>1, <1>2, <1>3, KeepsInv, AsideInv DEF IInv

(***************************************************************************)
(* The invariant holds in every reachable state, whichever way the three   *)
(* threads and the peers interleave.                                       *)
(***************************************************************************)
THEOREM Invariant == Spec => []IInv
  <1>1. IInv /\ [Next]_vars => IInv'
    <2> SUFFICES ASSUME IInv, [Next]_vars PROVE IInv'
      OBVIOUS
    <2>1. CASE Listener
      BY <2>1, ListenerInv, DisconnectRefusedInv, DisconnectEnteredInv, DisconnectCloseInv,
         DisconnectShiftsInv, DisconnectCountInv DEF Listener, Disconnect, Callers
    <2>2. CASE Accepter
      BY <2>2, AccepterIdleInv, AccepterAcceptInv, AccepterInsertInv, AccepterFullInv DEF Accepter
    <2>3. CASE UserStep
      BY <2>3, SendStepInv, CloseQuietInv, CloseCloseInv, CloseMarkInv, DisconnectRefusedInv,
         DisconnectEnteredInv, DisconnectCloseInv, DisconnectShiftsInv, DisconnectCountInv
         DEF UserStep, Disconnect, Callers
    <2>4. CASE UserCall
      BY <2>4, SendCallInv, CloseCallInv, DisconnectCallInv DEF UserCall
    <2>5. CASE \E p \in Peers : Peer(p)
      BY <2>5, PeerInv
    <2>6. CASE Finished \/ UNCHANGED vars
      BY <2>6, StutterInv DEF Finished
    <2> QED
      BY <2>1, <2>2, <2>3, <2>4, <2>5, <2>6 DEF Next
  <1> QED
    BY InitInv, <1>1, PTL DEF Spec

(***************************************************************************)
(* Every variable keeps its type: no index leaves client_address and       *)
(* clients_socks, in the shifting loop (eth_comms.h:237-254) as well as    *)
(* where CommsSend and CommsClose look at them without the lock.           *)
(***************************************************************************)
THEOREM TypeCorrect == Spec => []TypeOK
  <1>1. IInv => TypeOK
    <2> SUFFICES ASSUME IInv PROVE TypeOK
      OBVIOUS
    <2>1. DOMAIN pc = Threads /\ \A t \in Threads : pc[t] \in PcLabels[t]
      BY DEF IInv, Fields, Labels, Threads, Callers
    <2>2. Booleans /\ Scalars /\ Tables /\ System /\ Locals
      BY DEF IInv, Fields
    <2> QED
      BY <2>1, <2>2, Zenon DEF TypeOK, Booleans, Scalars, Tables, System, Locals
  <1> QED
    BY Invariant, <1>1, PTL

(***************************************************************************)
(* The table is a true roster even in the middle of a shift, for every     *)
(* capacity and number of peers, until CommsClose is called (eth_comms.h:  *)
(* 237-254, 649-668).                                                      *)
(***************************************************************************)
THEOREM RosterOKHolds == Spec => []RosterOK
  <1>1. IInv => RosterOK
    <2> SUFFICES ASSUME IInv, ~Closing PROVE RosterOK
      BY DEF RosterOK
    <2>1. /\ \A i \in Occupied : addr[i] \in Peers /\ socks[i] \in Fds \ {0} /\ fdOwner[socks[i]] = addr[i]
          /\ \A i, j \in Occupied : addr[i] = addr[j] => i = j
          /\ At("accepter", "insert") =>
                /\ who["accepter"] \in Peers /\ fd["accepter"] \in Fds
                /\ fdOwner[fd["accepter"]] = who["accepter"]
          /\ \A p \in Peers : link[p] = "up" =>
                (\E i \in Occupied : addr[i] = p) \/ (At("accepter", "insert") /\ who["accepter"] = p)
          /\ \A i \in Slot : i >= count => socks[i] = 0
      BY DEF IInv, Entries
    <2>2. \A f \in Fds : fdOwner[f] \in Peers => link[fdOwner[f]] = "up"
      BY DEF IInv, Owners
    <2> HIDE DEF Occupied
    <2>3. {p \in Peers : link[p] = "up"} = {addr[i] : i \in Occupied} \cup InHand
      BY <2>1, <2>2 DEF InHand
    <2> QED
      BY <2>1, <2>3 DEF RosterOK
  <1> QED
    BY Invariant, <1>1, PTL

(***************************************************************************)
(* CommsSend to one cid writes to that client or to nobody, unless a       *)
(* client was removed while it ran (eth_comms.h:410, 442).                 *)
(***************************************************************************)
THEOREM SendReachesCidHolds == Spec => []SendReachesCid
  <1>1. IInv => SendReachesCid
    <2> SUFFICES ASSUME IInv, At("user", "sendone"), ~moved, Refers(fd["user"]) \in Peers
                 PROVE  cid["user"] < count /\ addr[cid["user"]] = Refers(fd["user"])
      BY DEF SendReachesCid
    <2>1. ~Closing /\ Sending
      BY DEF Closing, Sending, At
    <2>2. fd["user"] \in Fds /\ Refers(fd["user"]) = fdOwner[fd["user"]] /\ fd["user"] # 0
      BY <2>1, PeerAssumption DEF Refers, IInv, Owners, NotAPeer
    <2>3. cid["user"] \in 1 .. count - 1 /\ fd["user"] = socks[cid["user"]]
      BY <2>2 DEF IInv, Sends
    <2>4. Hole = 0
      BY <2>1 DEF IInv, Sends, Hole
    <2>5. cid["user"] \in Occupied
      BY <2>3, <2>4 DEF Occupied, ClientSlots
    <2>6. addr[cid["user"]] = fdOwner[fd["user"]]
      BY <2>1, <2>3, <2>5 DEF IInv, Entries
    <2> QED
      BY <2>2, <2>3, <2>6 DEF IInv, Fields, Tables
  <1> QED
    BY Invariant, <1>1, PTL

(***************************************************************************)
(* After CommsClose every socket is closed and nothing else is, provided   *)
(* the table stood still while it was swept (eth_comms.h:276-302).         *)
(***************************************************************************)
THEOREM CloseReleasesHolds == Spec => []CloseReleases
  <1>1. IInv => CloseReleases
    <2> SUFFICES ASSUME IInv, ~disturbed PROVE CloseReleases
      BY DEF CloseReleases
    <2>1. fdOwner[0] = "tty"
      BY DEF IInv, Owners, Closes
    <2>2. At("user", "closed") => \A f \in Fds \ {0} : fdOwner[f] = "free"
      BY DEF IInv, Closes, Closing, At
    <2> QED
      BY <2>1, <2>2 DEF CloseReleases
  <1> QED
    BY Invariant, <1>1, PTL

----------------------------------------------------------------------------
(***************************************************************************)
(* What the listener has copied of a slot is still there, and the client   *)
(* it is about to drop has left, unless the user removed a client since.   *)
(***************************************************************************)
Copied ==
    /\ pc["listener"] \in {"slot", "recv", "disconnect", "dclose", "dzero", "dshift", "dcount"}
          => cid["listener"] >= 1
    /\ ~raced /\ ~Closing =>
          /\ pc["listener"] \in {"recv", "disconnect"} /\ mutex # "free" => pc[mutex] = "dclose"
          /\ pc["listener"] = "recv" =>
                /\ cid["listener"] < count
                /\ fd["listener"] = socks[cid["listener"]] /\ who["listener"] = addr[cid["listener"]]
          /\ pc["listener"] \in {"disconnect", "dclose"} =>
                /\ cid["listener"] < count
                /\ addr[cid["listener"]] \in gone /\ inbox[addr[cid["listener"]]] = 0

\* A step of the others that leaves what the listener looks at.
ListenerKept ==
    /\ raced => raced'
    /\ Closing => Closing'
    /\ pc'["listener"] = pc["listener"] /\ cid'["listener"] = cid["listener"]
    /\ fd'["listener"] = fd["listener"] /\ who'["listener"] = who["listener"]
    /\ count' \in Int /\ count' >= count
    /\ ~Closing => \A k \in 1 .. count - 1 : socks'[k] = socks[k] /\ addr'[k] = addr[k]
    /\ \A p \in gone : p \in gone' /\ inbox'[p] = inbox[p]
    /\ \/ mutex' = mutex /\ (mutex # "free" => pc'[mutex] = pc[mutex])
       \/ pc["listener"] \notin {"recv", "disconnect"}
       \/ pc'[mutex'] = "dclose"
       \/ mutex # "free" /\ pc[mutex] # "dclose"

\* Such a step keeps Copied.
LEMMA CopiedStays ==
  ASSUME IInv, Copied, ListenerKept
  PROVE  Copied'
  <1>1. cid["listener"] \in 0 .. MAX /\ count \in 1 .. MAX /\ pc["listener"] \in PcLabels["listener"]
    BY DEF IInv, Fields, Tables, Labels, Locals, Callers
  <1>2. ASSUME ~raced', ~Closing', pc["listener"] \in {"recv", "disconnect", "dclose"}, cid["listener"] < count
        PROVE  /\ socks'[cid["listener"]] = socks[cid["listener"]] /\ addr'[cid["listener"]] = addr[cid["listener"]]
               /\ cid["listener"] < count'
    BY <1>1, <1>2 DEF Copied, ListenerKept
  <1> QED
    BY <1>1, <1>2 DEF Copied, ListenerKept

\* The accepter and the peers are such steps.
LEMMA AccepterKeepsListener ==
  ASSUME IInv, Accepter \/ (\E p \in Peers : Peer(p))
  PROVE  ListenerKept /\ UNCHANGED <<raced, moved, need, got, cid, mutex>> /\ pc'["user"] = pc["user"]
  <1> USE DEF table, world, peers, local, hist
  <1>1. UNCHANGED <<raced, moved, need, got, cid, mutex>>
    BY Zenon DEF Accepter, AccepterWhile, AccepterAccept, AccepterFail, AccepterInsert, AccepterFull,
       Peer, PeerConnect, PeerSend, PeerLeave
  <1>2. UNCHANGED pc \/ \E l \in PcLabels["accepter"] : Goto("accepter", l)
    <2>1. {"while", "accept", "insert", "done"} = PcLabels["accepter"]
      BY DEF PcLabels
    <2>2. UNCHANGED pc \/ Goto("accepter", "while") \/ Goto("accepter", "accept")
          \/ Goto("accepter", "insert") \/ Goto("accepter", "done")
      BY Zenon DEF Accepter, AccepterWhile, AccepterAccept, AccepterFail, AccepterInsert, AccepterFull,
         Peer, PeerConnect, PeerSend, PeerLeave
    <2> QED
      BY <2>1, <2>2
  <1>3. pc'["user"] = pc["user"] /\ pc'["listener"] = pc["listener"] /\ \A t \in Callers : pc'[t] = pc[t]
    BY <1>2, Went DEF IInv, Fields, Threads, Callers
  <1>4. UNCHANGED <<fd, who>> \/ \E f, w : fd' = [fd EXCEPT !["accepter"] = f] /\ who' = [who EXCEPT !["accepter"] = w]
    BY Zenon DEF Accepter, AccepterWhile, AccepterAccept, AccepterFail, AccepterInsert, AccepterFull, AccepterForget,
       Peer, PeerConnect, PeerSend, PeerLeave
  <1>5. fd'["listener"] = fd["listener"] /\ who'["listener"] = who["listener"]
    BY <1>4 DEF IInv, Fields, Locals, Threads, Callers
  <1>6. /\ count' \in Int /\ count' >= count
        /\ \A k \in 1 .. count - 1 : socks'[k] = socks[k] /\ addr'[k] = addr[k]
    <2>1. CASE UNCHANGED <<socks, addr, count>>
      BY <2>1 DEF IInv, Fields, Tables
    <2>2. CASE AccepterInsert
      BY <2>2, MaxAssumption DEF AccepterInsert, IInv, Fields, Tables, Slot
    <2>3. UNCHANGED <<socks, addr, count>> \/ AccepterInsert
      BY Zenon DEF Accepter, AccepterWhile, AccepterAccept, AccepterFail, AccepterFull,
         Peer, PeerConnect, PeerSend, PeerLeave
    <2> QED
      BY <2>1, <2>2, <2>3
  <1>7. \A p \in gone : p \in gone' /\ inbox'[p] = inbox[p]
    <2>1. CASE UNCHANGED <<gone, inbox>>
      BY <2>1
    <2>2. ASSUME NEW p \in Peers, PeerSend(p) \/ PeerLeave(p) PROVE \A q \in gone : q \in gone' /\ inbox'[q] = inbox[q]
      BY <2>2 DEF PeerSend, PeerLeave, IInv, Fields, System
    <2>3. UNCHANGED <<gone, inbox>> \/ \E p \in Peers : PeerSend(p) \/ PeerLeave(p)
      BY Zenon DEF Accepter, AccepterWhile, AccepterAccept, AccepterFail, AccepterInsert, AccepterFull, Peer, PeerConnect
    <2> QED
      BY <2>1, <2>2, <2>3
  <1>8. Closing' <=> Closing
    BY <1>3 DEF Closing
  <1>9. raced => raced'
    BY <1>1
  <1>10. mutex' = mutex /\ (mutex # "free" => pc'[mutex] = pc[mutex]) /\ cid'["listener"] = cid["listener"]
    BY <1>1, <1>3 DEF IInv, Fields, Tables
  <1> QED
    BY <1>1, <1>3, <1>5, <1>6, <1>7, <1>8, <1>9, <1>10 DEF ListenerKept

\* The steps of the user's thread: of CommsSend, calls, and of CommsClose.
SendSteps == SendAllTest \/ SendAllSend \/ SendLoad \/ SendOne
CallSteps == SendAllCall \/ (\E c \in 1 .. MAX - 1 : SendCall(c) \/ DisconnectCall(c)) \/ CloseCall
CloseSteps == CloseCheck \/ CloseClose \/ CloseMark \/ CloseStop \/ CloseJoin

\* So are those of the user's thread outside CommsDisconnect.
LEMMA UserKeepsListener ==
  ASSUME IInv, SendSteps \/ CallSteps \/ CloseSteps
  PROVE  ListenerKept
  <1> USE DEF table, world, peers, local, hist
  <1>1. UNCHANGED <<count, raced, gone, inbox, mutex, who>>
    <2>1. CASE SendSteps
      BY <2>1, Zenon DEF SendSteps, SendAllTest, SendAllSend, SendLoad, SendOne
    <2>2. CASE CallSteps
      BY <2>2, Zenon DEF CallSteps, SendAllCall, SendCall, SendStart, DisconnectCall, CloseCall
    <2>3. CASE CloseSteps
      BY <2>3, Zenon DEF CloseSteps, CloseCheck, CloseClose, CloseMark, CloseStop, CloseJoin
    <2> QED
      BY <2>1, <2>2, <2>3
  <1>2. pc["user"] \notin {"dclose", "dzero", "dshift", "dcount"}
    <2>1. CASE SendSteps
      BY <2>1 DEF SendSteps, SendAllTest, SendAllSend, SendLoad, SendOne, At
    <2>2. CASE CallSteps
      BY <2>2 DEF CallSteps, SendAllCall, SendCall, SendStart, DisconnectCall, CloseCall, At
    <2>3. CASE CloseSteps
      BY <2>3 DEF CloseSteps, CloseCheck, CloseClose, CloseMark, CloseStop, CloseJoin, At
    <2> QED
      BY <2>1, <2>2, <2>3
  <1>3. UNCHANGED pc \/ \E l : Goto("user", l)
    <2>1. CASE SendSteps
      BY <2>1, Zenon DEF SendSteps, SendAllTest, SendAllSend, SendLoad, SendOne, SendReturn
    <2>2. CASE CallSteps
      BY <2>2, Zenon DEF CallSteps, SendAllCall, SendCall, SendStart, DisconnectCall, CloseCall
    <2>3. CASE CloseSteps
      BY <2>3, Zenon DEF CloseSteps, CloseCheck, CloseClose, CloseMark, CloseStop, CloseJoin
    <2> QED
      BY <2>1, <2>2, <2>3
  <1>4. pc'["listener"] = pc["listener"] /\ pc'["accepter"] = pc["accepter"]
    BY <1>3 DEF Goto, IInv, Fields, Labels, Threads, Callers
  <1>5. UNCHANGED cid \/ \E v : cid' = [cid EXCEPT !["user"] = v]
    <2>1. CASE SendSteps
      BY <2>1, Zenon DEF SendSteps, SendAllTest, SendAllSend, SendLoad, SendOne, SendReturn
    <2>2. CASE CallSteps
      BY <2>2, Zenon DEF CallSteps, SendAllCall, SendCall, SendStart, DisconnectCall, CloseCall
    <2>3. CASE CloseSteps
      BY <2>3, Zenon DEF CloseSteps, CloseCheck, CloseClose, CloseMark, CloseStop, CloseJoin
    <2> QED
      BY <2>1, <2>2, <2>3
  <1>6. UNCHANGED fd \/ \E v : fd' = [fd EXCEPT !["user"] = v]
    <2>1. CASE SendSteps
      BY <2>1, Zenon DEF SendSteps, SendAllTest, SendAllSend, SendLoad, SendOne, SendReturn
    <2>2. CASE CallSteps
      BY <2>2, Zenon DEF CallSteps, SendAllCall, SendCall, SendStart, DisconnectCall, CloseCall
    <2>3. CASE CloseSteps
      BY <2>3, Zenon DEF CloseSteps, CloseCheck, CloseClose, CloseMark, CloseStop, CloseJoin
    <2> QED
      BY <2>1, <2>2, <2>3
  <1>7. cid'["listener"] = cid["listener"] /\ fd'["listener"] = fd["listener"]
    BY <1>5, <1>6 DEF IInv, Fields, Locals, Threads, Callers
  <1>8. UNCHANGED <<socks, addr>> \/ Closing
    <2>1. CASE SendSteps
      BY <2>1, Zenon DEF SendSteps, SendAllTest, SendAllSend, SendLoad, SendOne
    <2>2. CASE CallSteps
      BY <2>2, Zenon DEF CallSteps, SendAllCall, SendCall, SendStart, DisconnectCall, CloseCall
    <2>3. CASE CloseSteps
      BY <2>3 DEF CloseSteps, CloseCheck, CloseClose, CloseMark, CloseStop, CloseJoin, Closing, At
    <2> QED
      BY <2>1, <2>2, <2>3
  <1>9. Closing => Closing'
    <2> USE DEF IInv, Fields, Labels, Threads, Callers, Goto, Closing, At
    <2>1. CASE SendSteps
      BY <2>1 DEF SendSteps, SendAllTest, SendAllSend, SendLoad, SendOne
    <2>2. CASE CallSteps
      BY <2>2 DEF CallSteps, SendAllCall, SendCall, SendStart, DisconnectCall, CloseCall
    <2>3. CASE CloseCheck
      <3>1. UNCHANGED pc \/ Goto("user", "stop") \/ Goto("user", "close")
        BY <2>3, Zenon DEF CloseCheck
      <3> QED
        BY <3>1
    <2>4. CASE CloseClose \/ CloseMark \/ CloseStop \/ CloseJoin
      <3>1. Goto("user", "mark") \/ Goto("user", "check") \/ Goto("user", "join") \/ Goto("user", "join2")
            \/ Goto("user", "closed")
        BY <2>4, Zenon DEF CloseClose, CloseMark, CloseStop, CloseJoin
      <3> QED
        BY <3>1
    <2> QED
      BY <2>1, <2>2, <2>3, <2>4 DEF CloseSteps
  <1>10. mutex' = mutex /\ (mutex # "free" => pc'[mutex] = pc[mutex])
    BY <1>1, <1>2, <1>4 DEF IInv, Fields, Tables, Places, Removing, Callers
  <1>11. raced => raced'
    BY <1>1
  <1>12. count' \in Int /\ count' >= count
    BY <1>1 DEF IInv, Fields, Tables
  <1> QED
    BY <1>1, <1>4, <1>7, <1>8, <1>9, <1>10, <1>11, <1>12 DEF ListenerKept

\* A removal by the user is known to the listener.
LEMMA UserRemovesCopied ==
  ASSUME IInv, Copied, Disconnect("user")
  PROVE  Copied'
  <1> USE DEF table, world, peers, local, hist
  <1>1. UNCHANGED <<gone, inbox, who, fd>> /\ ("user" \in Callers)
    BY Zenon DEF Disconnect, DisconnectEnter, DisconnectClose, DisconnectZero, DisconnectShift, DisconnectClear,
       DisconnectCount, Callers
  <1>2. UNCHANGED pc \/ \E l \in {"idle", "dclose", "dzero", "dshift", "dcount"} : Goto("user", l)
    BY DEF Disconnect, DisconnectEnter, DisconnectClose, DisconnectZero, DisconnectShift, DisconnectClear,
       DisconnectCount, Return
  <1>3. /\ pc'["listener"] = pc["listener"] /\ ~Closing /\ ~Closing'
    <2>1. pc["user"] \in {"disconnect", "dclose", "dzero", "dshift", "dcount"}
      BY DEF Disconnect, DisconnectEnter, DisconnectClose, DisconnectZero, DisconnectShift, DisconnectClear,
         DisconnectCount, At
    <2> QED
      BY <1>2, <2>1 DEF Goto, IInv, Fields, Labels, Threads, Callers, Closing
  <1>4. UNCHANGED cid \/ cid' = [cid EXCEPT !["user"] = 0]
    BY DEF Disconnect, DisconnectEnter, DisconnectClose, DisconnectZero, DisconnectShift, DisconnectClear,
       DisconnectCount, Return
  <1>5. cid'["listener"] = cid["listener"]
    BY <1>4 DEF IInv, Fields, Locals, Callers
  <1>6. raced => raced'
    BY DEF Disconnect, DisconnectEnter, DisconnectClose, DisconnectZero, DisconnectShift, DisconnectClear,
       DisconnectCount, IInv, Booleans
  <1>7. CASE DisconnectEnter("user")
    <2>1. UNCHANGED <<socks, addr, count>>
      BY <1>7, Zenon DEF DisconnectEnter
    <2>2. UNCHANGED mutex \/ (mutex' = "user" /\ Goto("user", "dclose"))
      BY <1>7, Zenon DEF DisconnectEnter
    <2>3. mutex = "free"
      BY <1>7 DEF DisconnectEnter
    <2>4. mutex' = "user" => pc'[mutex'] = "dclose"
      BY <2>2, <2>3 DEF Goto, IInv, Fields, Labels, Threads, Callers
    <2>5. ListenerKept
      BY <1>1, <1>3, <1>5, <1>6, <2>1, <2>2, <2>3, <2>4 DEF ListenerKept, IInv, Fields, Tables
    <2> QED
      BY <2>5, CopiedStays
  <1>8. CASE ~DisconnectEnter("user")
    <2>1. mutex = "user" /\ pc["user"] \in {"dclose", "dzero", "dshift", "dcount"}
      <3>1. pc["user"] \in {"dclose", "dzero", "dshift", "dcount"}
        BY <1>8 DEF Disconnect, DisconnectClose, DisconnectZero, DisconnectShift, DisconnectClear, DisconnectCount, At
      <3> QED
        BY <3>1 DEF IInv, Places, Removing, Callers
    <2>2. pc["listener"] \notin {"dclose", "dzero", "dshift", "dcount"}
      BY <2>1 DEF IInv, Places, Removing, Callers
    <2>3. ASSUME pc["listener"] \in {"recv", "disconnect"} PROVE raced'
      <3>1. CASE pc["user"] = "dclose"
        <4>1. DisconnectClose("user")
          BY <1>8, <3>1 DEF Disconnect, DisconnectZero, DisconnectShift, DisconnectClear, DisconnectCount, At
        <4>2. raced' = (raced \/ ("user" = "user" /\ pc["listener"] \in {"recv", "disconnect"}))
          BY <4>1, Zenon DEF DisconnectClose
        <4> QED
          BY <2>3, <4>2, Zenon
      <3>2. CASE pc["user"] # "dclose"
        BY <1>3, <1>6, <2>1, <2>3, <3>2 DEF Copied
      <3> QED
        BY <3>1, <3>2
    <2> QED
      BY <1>3, <1>5, <2>2, <2>3 DEF Copied
  <1> QED
    BY <1>7, <1>8

\* The entry the listener has copied is that of an open connection.
LEMMA CopiedIsOpen ==
  ASSUME IInv, Copied, ~raced, ~Closing, pc["listener"] \in {"recv", "disconnect", "dclose"}
  PROVE  /\ cid["listener"] \in 1 .. count - 1
         /\ addr[cid["listener"]] \in Peers /\ socks[cid["listener"]] \in Fds \ {0}
         /\ fdOwner[socks[cid["listener"]]] = addr[cid["listener"]]
  <1>1. cid["listener"] \in 1 .. count - 1
    BY DEF Copied, IInv, Fields, Tables, Locals, Callers, Places
  <1>2. Hole = 0
    <2>1. mutex # "free" => pc[mutex] = "dclose"
      BY DEF Copied, IInv, Places, Removing, Callers
    <2> QED
      BY <2>1 DEF Hole
  <1>3. cid["listener"] \in Occupied
    BY <1>1, <1>2 DEF Occupied, ClientSlots
  <1> QED
    BY <1>1, <1>3 DEF IInv, Entries

\* The listener's own steps keep Copied (eth_comms.h:499-541).
LEMMA ListenerCopied ==
  ASSUME IInv, Copied, Listener
  PROVE  Copied'
  <1> USE DEF table, world, peers, local, hist
  <1>1. cid["listener"] \in 0 .. MAX /\ count \in 1 .. MAX /\ limit \in 0 .. MAX
    BY DEF IInv, Fields, Tables, Locals, Callers
  <1>2. ASSUME NEW l \in PcLabels["listener"], Goto("listener", l)
        PROVE  pc'["listener"] = l /\ pc'["user"] = pc["user"] /\ (Closing' <=> Closing)
    BY <1>2, Went DEF IInv, Fields, Threads, Callers, Closing
  <1>3. CASE ListenerWhile \/ ListenerCount \/ ListenerEndRound
    <2>1. \/ Goto("listener", "count") \/ Goto("listener", "done") \/ Goto("listener", "while")
          \/ (Goto("listener", "slot") /\ cid' = [cid EXCEPT !["listener"] = 1])
      BY <1>3, Zenon DEF ListenerWhile, ListenerCount, ListenerEndRound
    <2>2. CASE Goto("listener", "count") \/ Goto("listener", "done") \/ Goto("listener", "while")
      BY <1>2, <2>2 DEF Copied, PcLabels
    <2>3. CASE Goto("listener", "slot") /\ cid' = [cid EXCEPT !["listener"] = 1]
      BY <1>2, <2>3 DEF Copied, PcLabels, IInv, Fields, Locals, Callers
    <2> QED
      BY <2>1, <2>2, <2>3
  <1>4. CASE ListenerReceive \/ ListenerNoData
    <2>1. pc["listener"] = "recv" /\ Goto("listener", "slot") /\ cid' = [cid EXCEPT !["listener"] = cid["listener"] + 1]
      BY <1>4, Zenon DEF ListenerReceive, ListenerNoData, ListenerNext, At
    <2> QED
      BY <1>1, <1>2, <2>1 DEF Copied, PcLabels, IInv, Fields, Locals, Callers
  <1>5. CASE ListenerSlot
    <2> DEFINE k == cid["listener"]
    <2>1. /\ UNCHANGED <<socks, addr, count, mutex, gone, inbox>> /\ ~raced'
          /\ pc["listener"] = "slot" /\ k < limit /\ mutex = "free"
      BY <1>5, Zenon DEF ListenerSlot, At
    <2>2. CASE socks[k] <= 0
      <3>1. cid' = [cid EXCEPT !["listener"] = k + 1] /\ UNCHANGED pc
        BY <1>5, <2>2, Zenon DEF ListenerSlot
      <3> QED
        BY <1>1, <2>1, <3>1 DEF Copied, IInv, Fields, Locals, Callers
    <2>3. CASE ~(socks[k] <= 0)
      <3>1. /\ fd' = [fd EXCEPT !["listener"] = socks[k]] /\ who' = [who EXCEPT !["listener"] = addr[k]]
            /\ Goto("listener", "recv") /\ UNCHANGED cid
        BY <1>5, <2>3, Zenon DEF ListenerSlot
      <3>2. pc'["listener"] = "recv" /\ (Closing' <=> Closing) /\ k >= 1
        BY <1>2, <2>1, <3>1 DEF PcLabels, Copied
      <3>3. fd'["listener"] = socks[k] /\ who'["listener"] = addr[k]
        BY <3>1 DEF IInv, Fields, Locals, Threads, Callers
      <3>4. ASSUME ~Closing PROVE k < count
        <4>1. k \in Slot
          BY <1>1, <2>1, Below, MaxAssumption DEF Slot
        <4>2. \A i \in Slot : i >= count => socks[i] = 0
          BY <3>4 DEF IInv, Entries
        <4> QED
          BY <1>1, <2>3, <4>1, <4>2
      <3> QED
        BY <2>1, <3>1, <3>2, <3>3, <3>4 DEF Copied
    <2> QED
      BY <2>2, <2>3
  <1>6. CASE ListenerDrop
    <2>1. /\ UNCHANGED <<socks, addr, count, mutex, gone, inbox, cid, raced>>
          /\ pc["listener"] = "recv" /\ Goto("listener", "disconnect")
          /\ (Refers(fd["listener"]) \in Peers =>
                 Refers(fd["listener"]) \in gone /\ inbox[Refers(fd["listener"])] = 0)
      BY <1>6, Zenon DEF ListenerDrop, At
    <2>2. pc'["listener"] = "disconnect" /\ pc'["user"] = pc["user"] /\ (Closing' <=> Closing)
      BY <1>2, <2>1 DEF PcLabels
    <2>3. ASSUME ~raced, ~Closing
          PROVE  addr[cid["listener"]] \in gone /\ inbox[addr[cid["listener"]]] = 0 /\ cid["listener"] < count
                 /\ (mutex # "free" => pc[mutex] = "dclose")
      <3>1. fd["listener"] = socks[cid["listener"]] /\ (mutex # "free" => pc[mutex] = "dclose")
        BY <2>1, <2>3 DEF Copied
      <3>2. /\ addr[cid["listener"]] \in Peers /\ socks[cid["listener"]] \in Fds
            /\ fdOwner[socks[cid["listener"]]] = addr[cid["listener"]] /\ cid["listener"] \in 1 .. count - 1
        BY <2>1, <2>3, CopiedIsOpen
      <3>3. Refers(fd["listener"]) = addr[cid["listener"]]
        BY <3>1, <3>2 DEF Refers
      <3> QED
        BY <1>1, <2>1, <3>1, <3>2, <3>3
    <2>4. mutex # "free" => mutex = "user"
      BY <2>1 DEF IInv, Fields, Tables, Places, Removing, Callers
    <2>5. (raced' <=> raced)
      BY <2>1
    <2> QED
      BY <2>1, <2>2, <2>3, <2>4, <2>5 DEF Copied
  <1>7. CASE Disconnect("listener")
    <2>1. CASE DisconnectEnter("listener")
      <3>1. /\ UNCHANGED <<socks, addr, count, gone, inbox, raced>> /\ pc["listener"] = "disconnect"
            /\ \/ Goto("listener", "dclose") /\ UNCHANGED cid
               \/ Return("listener")
        BY <2>1, Zenon DEF DisconnectEnter, At
      <3>2. CASE Goto("listener", "dclose") /\ UNCHANGED cid
        BY <1>2, <3>1, <3>2 DEF PcLabels, Copied
      <3>3. CASE Return("listener")
        <4>1. Goto("listener", "slot") /\ cid' = [cid EXCEPT !["listener"] = cid["listener"] + 1]
          BY <3>3 DEF Return
        <4> QED
          BY <1>1, <1>2, <3>1, <4>1 DEF Copied, PcLabels, IInv, Fields, Locals, Callers
      <3> QED
        BY <3>1, <3>2, <3>3
    <2>2. CASE DisconnectClose("listener") \/ DisconnectZero("listener") \/ DisconnectShift("listener")
               \/ DisconnectClear("listener")
      <3>1. UNCHANGED cid /\ pc["listener"] \in {"dclose", "dzero", "dshift"}
        BY <2>2 DEF DisconnectClose, DisconnectZero, DisconnectShift, DisconnectClear, At
      <3>2. \/ Goto("listener", "dzero") \/ Goto("listener", "dshift") \/ Goto("listener", "dcount")
            \/ (UNCHANGED pc /\ pc["listener"] = "dshift")
        BY <2>2, Zenon DEF DisconnectClose, DisconnectZero, DisconnectShift, DisconnectClear, At
      <3>3. pc'["listener"] \in {"dzero", "dshift", "dcount"}
        BY <1>2, <3>2 DEF PcLabels
      <3> QED
        BY <3>1, <3>3 DEF Copied
    <2>3. CASE DisconnectCount("listener")
      <3>1. /\ pc["listener"] = "dcount" /\ Goto("listener", "slot")
            /\ cid' = [cid EXCEPT !["listener"] = cid["listener"] + 1]
        BY <2>3 DEF DisconnectCount, Return, At
      <3> QED
        BY <1>1, <1>2, <3>1 DEF Copied, PcLabels, IInv, Fields, Locals, Callers
    <2> QED
      BY <1>7, <2>1, <2>2, <2>3 DEF Disconnect
  <1> QED
    BY <1>3, <1>4, <1>5, <1>6, <1>7 DEF Listener

\* The steps of the whole system, by whose they are.
LEMMA StepsOf ==
  ASSUME [Next]_vars
  PROVE  \/ Listener \/ Accepter \/ (\E p \in Peers : Peer(p))
         \/ SendSteps \/ CallSteps \/ CloseSteps \/ Disconnect("user") \/ UNCHANGED vars
  BY Zenon DEF Next, UserStep, UserCall, SendSteps, CallSteps, CloseSteps, Finished

\* What the listener has copied is still so whenever Copied says it is.
THEOREM CopiedHolds == Spec => [](IInv /\ Copied)
  <1>1. Init => Copied
    BY DEF Init, Copied
  <1>2. IInv /\ Copied /\ [Next]_vars => Copied'
    <2> SUFFICES ASSUME IInv, Copied, [Next]_vars PROVE Copied'
      OBVIOUS
    <2>1. CASE UNCHANGED vars
      <3>1. ListenerKept
        BY <2>1 DEF vars, table, world, peers, local, hist, ListenerKept, Closing, IInv, Fields, Tables
      <3> QED
        BY <3>1, CopiedStays
    <2> QED
      BY <2>1, StepsOf, ListenerCopied, AccepterKeepsListener, UserKeepsListener, UserRemovesCopied, CopiedStays
  <1> QED
    BY Invariant, <1>1, <1>2, PTL DEF Spec

(***************************************************************************)
(* The receive callback is told the truth: the message came from the       *)
(* address and the cid it is given, unless another thread closed a socket  *)
(* after the listener copied the slot (eth_comms.h:513-527).               *)
(***************************************************************************)
THEOREM CallbackExactHolds == Spec => CallbackExact
  <1>1. ASSUME IInv, Copied, [Next]_vars, NEW p \in Peers, Delivers(p), ~raced, ~Closing
        PROVE  who["listener"] = p /\ addr[cid["listener"]] = p /\ cid["listener"] < count
    <2>1. pc["listener"] = "recv" /\ pc'["listener"] = "slot" /\ inbox'[p] < inbox[p]
      BY <1>1 DEF Delivers, At
    <2>2. Listener \/ Disconnect("user")
      <3>1. ListenerKept => FALSE
        BY <2>1 DEF ListenerKept
      <3>2. UNCHANGED vars => FALSE
        BY <2>1 DEF vars
      <3> QED
        BY <1>1, <3>1, <3>2, StepsOf, AccepterKeepsListener, UserKeepsListener
    <2>3. inbox' # inbox
      <3>1. inbox[p] \in Int
        BY <1>1, OpsAssumption DEF IInv, Fields, System
      <3>2. ASSUME inbox' = inbox PROVE FALSE
        <4>1. inbox[p] < inbox[p]
          BY <2>1, <3>2
        <4> QED
          BY <3>1, <4>1
      <3> QED
        BY <3>2
    <2>4. ListenerReceive
      BY <2>1, <2>2, <2>3 DEF Listener, ListenerWhile, ListenerCount, ListenerEndRound, ListenerSlot, ListenerNoData,
         ListenerDrop, Disconnect, DisconnectEnter, DisconnectClose, DisconnectZero, DisconnectShift,
         DisconnectClear, DisconnectCount, At, peers
    <2>5. p = Refers(fd["listener"])
      <3> DEFINE from == Refers(fd["listener"])
      <3>1. from \in Peers /\ inbox' = [inbox EXCEPT ![from] = inbox[from] - 1]
        BY <2>4 DEF ListenerReceive
      <3>2. inbox \in [Peers -> Nat]
        BY <1>1, OpsAssumption DEF IInv, Fields, System
      <3> HIDE DEF from
      <3> QED
        BY <1>1, <2>1, <3>1, <3>2 DEF from
    <2>6. /\ fd["listener"] = socks[cid["listener"]] /\ who["listener"] = addr[cid["listener"]]
          /\ cid["listener"] < count
      BY <1>1, <2>1 DEF Copied
    <2>7. socks[cid["listener"]] \in Fds /\ fdOwner[socks[cid["listener"]]] = addr[cid["listener"]]
      BY <1>1, <2>1, CopiedIsOpen
    <2> QED
      BY <2>5, <2>6, <2>7 DEF Refers
  <1>2. IInv /\ Copied /\ [Next]_vars =>
          [\A p \in Peers : Delivers(p) /\ ~raced /\ ~Closing =>
              who["listener"] = p /\ addr[cid["listener"]] = p /\ cid["listener"] < count]_vars
    BY <1>1
  <1> QED
    BY CopiedHolds, <1>2, PTL DEF Spec, CallbackExact

(***************************************************************************)
(* The listener disconnects only a client that has left and whose data has *)
(* all been delivered, unless another thread removed a client meanwhile    *)
(* (eth_comms.h:528-537, 222-243).                                         *)
(***************************************************************************)
THEOREM DropsOnlyGoneHolds == Spec => DropsOnlyGone
  <1>1. ASSUME IInv, Copied, [Next]_vars, NEW p \in Peers,
               At("listener", "dclose") /\ link[p] = "up" /\ link'[p] = "closed", ~raced, ~Closing
        PROVE  pc'["listener"] = "dzero" /\ p \in gone /\ inbox[p] = 0
    <2>1. pc["listener"] = "dclose" /\ mutex = "listener" /\ mutex # "free" /\ mutex # "user"
      BY <1>1 DEF At, IInv, Places, Removing, Callers
    <2>2. link' # link
      BY <1>1
    <2>3. pc["user"] \notin {"dclose", "close"}
      BY <1>1, <2>1 DEF IInv, Places, Removing, Callers, Closing
    <2>4. CASE DisconnectClose("listener")
      <3>1. socks[cid["listener"]] \in Fds \ {0} /\ fdOwner[socks[cid["listener"]]] = addr[cid["listener"]]
        BY <1>1, <2>1, CopiedIsOpen
      <3>2. CloseFd(socks[cid["listener"]]) /\ Goto("listener", "dzero")
        BY <2>4, <3>1, MaxAssumption DEF DisconnectClose, Fds
      <3>3. p = addr[cid["listener"]]
        BY <1>1, <3>1, <3>2 DEF CloseFd, IInv, Fields, System
      <3>4. pc'["listener"] = "dzero"
        BY <1>1, <3>2 DEF Goto, IInv, Fields, Labels, Threads, Callers
      <3> QED
        BY <1>1, <2>1, <3>3, <3>4 DEF Copied
    <2>5. CASE Listener /\ ~DisconnectClose("listener")
      BY <2>1, <2>2, <2>5 DEF Listener, ListenerWhile, ListenerCount, ListenerEndRound, ListenerSlot, ListenerReceive,
         ListenerNoData, ListenerDrop, Disconnect, DisconnectEnter, DisconnectZero, DisconnectShift,
         DisconnectClear, DisconnectCount, At, world
    <2>6. CASE Disconnect("user")
      BY <2>1, <2>2, <2>3, <2>6 DEF Disconnect, DisconnectEnter, DisconnectClose, DisconnectZero, DisconnectShift,
         DisconnectClear, DisconnectCount, At, world
    <2>7. CASE Accepter
      <3>1. AccepterFull => FALSE
        BY <2>1 DEF AccepterFull
      <3>2. ASSUME NEW q \in Peers, NEW f \in Fds, AccepterAccept(q, f) PROVE FALSE
        BY <1>1, <3>2 DEF AccepterAccept, IInv, Fields, System
      <3> QED
        BY <2>2, <2>7, <3>1, <3>2 DEF Accepter, AccepterWhile, AccepterFail, AccepterInsert, world
    <2>8. ASSUME NEW q \in Peers, Peer(q) PROVE FALSE
      BY <1>1, <2>8 DEF Peer, PeerConnect, PeerSend, PeerLeave, world, IInv, Fields, System
    <2>9. CASE SendSteps
      BY <2>2, <2>9, Zenon DEF SendSteps, SendAllTest, SendAllSend, SendLoad, SendOne, world
    <2>10. CASE CallSteps
      BY <2>2, <2>10, Zenon DEF CallSteps, SendAllCall, SendCall, SendStart, DisconnectCall, CloseCall, world
    <2>11. CASE CloseSteps
      BY <2>2, <2>3, <2>11 DEF CloseSteps, CloseCheck, CloseClose, CloseMark, CloseStop, CloseJoin, At, world
    <2>12. CASE UNCHANGED vars
      BY <2>2, <2>12 DEF vars, world
    <2> QED
      BY <1>1, <2>4, <2>5, <2>6, <2>7, <2>8, <2>9, <2>10, <2>11, <2>12, StepsOf
  <1>2. IInv /\ Copied /\ [Next]_vars =>
          [\A p \in Peers : At("listener", "dclose") /\ link[p] = "up" /\ link'[p] = "closed" /\ ~raced /\ ~Closing
              => pc'["listener"] = "dzero" /\ p \in gone /\ inbox[p] = 0]_vars
    BY <1>1
  <1> QED
    BY CopiedHolds, <1>2, PTL DEF Spec, DropsOnlyGone

\* The steps of the listener and of the user go on in their own code.
LEMMA AccepterIsItself ==
  ASSUME [Next]_vars
  PROVE  Accepter \/ UNCHANGED pc \/ \E t \in Callers : \E l : Goto(t, l)
  <1> USE DEF table, world, peers, local, hist
  <1>1. "listener" \in Callers /\ "user" \in Callers
    BY DEF Callers
  <1>2. ASSUME NEW t \in Callers, Disconnect(t) PROVE UNCHANGED pc \/ \E l : Goto(t, l)
    BY <1>2, Zenon DEF Disconnect, DisconnectEnter, DisconnectClose, DisconnectZero, DisconnectShift,
       DisconnectClear, DisconnectCount, Return
  <1>3. CASE Listener
    <2>1. ListenerWhile \/ ListenerCount \/ ListenerEndRound => \E l : Goto("listener", l)
      BY Zenon DEF ListenerWhile, ListenerCount, ListenerEndRound
    <2>2. ListenerSlot => UNCHANGED pc \/ \E l : Goto("listener", l)
      BY Zenon DEF ListenerSlot
    <2>3. ListenerReceive \/ ListenerNoData => \E l : Goto("listener", l)
      BY Zenon DEF ListenerReceive, ListenerNoData, ListenerNext
    <2>4. ListenerDrop => \E l : Goto("listener", l)
      BY Zenon DEF ListenerDrop
    <2> QED
      BY <1>1, <1>2, <1>3, <2>1, <2>2, <2>3, <2>4, Zenon DEF Listener
  <1>4. ASSUME NEW p \in Peers, Peer(p) PROVE UNCHANGED pc
    BY <1>4, Zenon DEF Peer, PeerConnect, PeerSend, PeerLeave
  <1>5. CASE SendSteps
    <2>1. \E l : Goto("user", l)
      BY <1>5, Zenon DEF SendSteps, SendAllTest, SendAllSend, SendLoad, SendOne, SendReturn
    <2> QED
      BY <1>1, <2>1, Zenon
  <1>6. CASE CallSteps
    <2>1. \E l : Goto("user", l)
      BY <1>6, Zenon DEF CallSteps, SendAllCall, SendCall, SendStart, DisconnectCall, CloseCall
    <2> QED
      BY <1>1, <2>1, Zenon
  <1>7. CASE CloseSteps
    <2>1. UNCHANGED pc \/ \E l : Goto("user", l)
      BY <1>7, Zenon DEF CloseSteps, CloseCheck, CloseClose, CloseMark, CloseStop, CloseJoin
    <2> QED
      BY <1>1, <2>1, Zenon
  <1>8. CASE UNCHANGED vars
    BY <1>8 DEF vars
  <1> QED
    BY <1>1, <1>2, <1>3, <1>4, <1>5, <1>6, <1>7, <1>8, StepsOf, Zenon

(***************************************************************************)
(* Only a full table or CommsClose ends the accepter: no failed accept()   *)
(* does, and no step of another thread (eth_comms.h:637, 651-660).         *)
(***************************************************************************)
THEOREM AccepterEndsAtCapacityHolds == Spec => AccepterEndsAtCapacity
  <1>1. ASSUME IInv, [Next]_vars, pc'["accepter"] = "done", pc["accepter"] # "done"
        PROVE  count >= MAX \/ ~running
    <2>1. DOMAIN pc = Threads /\ "accepter" \in Threads /\ "accepter" \notin Callers
      BY <1>1 DEF IInv, Fields, Labels, Threads, Callers
    <2>2. ASSUME NEW t \in Callers, NEW l, Goto(t, l) PROVE FALSE
      BY <1>1, <2>1, <2>2 DEF Goto
    <2>3. Accepter
      BY <1>1, <2>2, AccepterIsItself, Zenon
    <2>4. ASSUME NEW l, Goto("accepter", l) PROVE l = "done"
      BY <1>1, <2>1, <2>4 DEF Goto
    <2>5. CASE AccepterWhile
      BY <2>4, <2>5 DEF AccepterWhile
    <2>6. ASSUME NEW p \in Peers, NEW f \in Fds, AccepterAccept(p, f) PROVE FALSE
      BY <2>4, <2>6 DEF AccepterAccept
    <2>7. CASE AccepterFail
      BY <2>4, <2>7 DEF AccepterFail
    <2>8. ~AccepterInsert
      BY <2>4 DEF AccepterInsert
    <2>9. CASE AccepterFull
      BY <2>9 DEF AccepterFull
    <2> QED
      BY <2>3, <2>5, <2>6, <2>7, <2>8, <2>9, Zenon DEF Accepter
  <1>2. IInv /\ [Next]_vars => [At("accepter", "done")' /\ ~At("accepter", "done") => count >= MAX \/ ~running]_vars
    BY <1>1 DEF At
  <1> QED
    BY Invariant, <1>2, PTL DEF Spec, AccepterEndsAtCapacity
(***************************************************************************)
(* A third invariant, of a CommsSend to all: while no client is removed it *)
(* has sent once to the client of each slot below its counter and to       *)
(* nobody else, and whoever was there at the call still has a slot.        *)
(***************************************************************************)
SendingToAll == pc["user"] \in {"test", "sendto"}

Progress ==
    SendingToAll /\ ~moved =>
        /\ cid["user"] \in 1 .. count
        /\ pc["user"] = "sendto" => cid["user"] < count
        /\ \A p \in Peers : got[p] = 0 \/ (got[p] = 1 /\ \E i \in 1 .. cid["user"] - 1 : addr[i] = p)
        /\ \A i \in 1 .. cid["user"] - 1 : addr[i] \in Peers => got[addr[i]] = 1
        /\ \A p \in need : \E i \in 1 .. count - 1 : addr[i] = p

\* What Progress says of is left as it is, but for clients added at the end.
SendKept ==
    /\ pc'["user"] = pc["user"]
    /\ SendingToAll =>
          \/ moved'
          \/ /\ moved => moved'
             /\ UNCHANGED <<got, need>> /\ cid'["user"] = cid["user"]
             /\ count' \in Int /\ count' >= count
             /\ \A k \in 1 .. count - 1 : addr'[k] = addr[k]

\* A step that keeps to SendKept keeps Progress.
LEMMA ProgressStays ==
  ASSUME IInv, Progress, SendKept
  PROVE  Progress'
  <1> SUFFICES ASSUME SendingToAll', ~moved' PROVE Progress'
    BY DEF Progress
  <1>1. SendingToAll /\ ~moved
    BY DEF SendKept, SendingToAll
  <1>2. /\ UNCHANGED <<got, need>> /\ cid'["user"] = cid["user"] /\ pc'["user"] = pc["user"]
        /\ count' \in Int /\ count' >= count
        /\ \A k \in 1 .. count - 1 : addr'[k] = addr[k]
    BY <1>1 DEF SendKept
  <1>3. count \in 1 .. MAX /\ cid["user"] \in 1 .. count /\ cid["user"] \in Int /\ count \in Int
    BY <1>1 DEF Progress, IInv, Fields, Tables
  <1>4. \A i \in 1 .. cid["user"] - 1 : i \in 1 .. count - 1 /\ addr'[i] = addr[i]
    BY <1>2, <1>3
  <1>5. \A i \in 1 .. count - 1 : i \in 1 .. count' - 1 /\ addr'[i] = addr[i]
    <2> SUFFICES ASSUME NEW i \in 1 .. count - 1 PROVE i \in 1 .. count' - 1 /\ addr'[i] = addr[i]
      OBVIOUS
    <2>1. count' \in Int /\ count' >= count /\ count \in Int
      BY <1>2, <1>3
    <2>2. i \in 1 .. count' - 1
      BY <2>1, Longer
    <2> QED
      BY <1>2, <2>2
  <1>6. cid'["user"] \in 1 .. count' /\ (pc'["user"] = "sendto" => cid'["user"] < count')
    BY <1>1, <1>2, <1>3 DEF Progress
  <1>7. \A p \in Peers : got'[p] = 0 \/ (got'[p] = 1 /\ \E i \in 1 .. cid'["user"] - 1 : addr'[i] = p)
    BY <1>1, <1>2, <1>4 DEF Progress
  <1>8. \A i \in 1 .. cid'["user"] - 1 : addr'[i] \in Peers => got'[addr'[i]] = 1
    BY <1>1, <1>2, <1>4 DEF Progress
  <1>9. \A p \in need' : \E i \in 1 .. count' - 1 : addr'[i] = p
    BY <1>1, <1>2, <1>5 DEF Progress
  <1> QED
    BY <1>6, <1>7, <1>8, <1>9 DEF Progress

\* The accepter and the peers leave CommsSend alone; a new client is added behind the others.
LEMMA AccepterKeepsSend ==
  ASSUME IInv, Accepter \/ \E p \in Peers : Peer(p)
  PROVE  SendKept
  <1> USE DEF table, world, peers, local, hist
  <1>1. UNCHANGED <<moved, need, got, cid>>
    BY Zenon DEF Accepter, AccepterWhile, AccepterAccept, AccepterFail, AccepterInsert, AccepterFull,
       Peer, PeerConnect, PeerSend, PeerLeave
  <1>2. UNCHANGED pc \/ \E l \in PcLabels["accepter"] : Goto("accepter", l)
    BY DEF Accepter, AccepterWhile, AccepterAccept, AccepterFail, AccepterInsert, AccepterFull, PcLabels,
       Peer, PeerConnect, PeerSend, PeerLeave
  <1>3. pc'["user"] = pc["user"]
    BY <1>2, Went DEF IInv, Fields, Threads, Callers
  <1>4. count' \in Int /\ count' >= count /\ \A k \in 1 .. count - 1 : addr'[k] = addr[k]
    <2>1. CASE UNCHANGED <<addr, count>>
      BY <2>1 DEF IInv, Fields, Tables
    <2>2. CASE AccepterInsert
      BY <2>2, MaxAssumption DEF AccepterInsert, IInv, Fields, Tables, Slot
    <2>3. UNCHANGED <<addr, count>> \/ AccepterInsert
      BY Zenon DEF Accepter, AccepterWhile, AccepterAccept, AccepterFail, AccepterFull,
         Peer, PeerConnect, PeerSend, PeerLeave
    <2> QED
      BY <2>1, <2>2, <2>3
  <1> QED
    BY <1>1, <1>3, <1>4 DEF SendKept

\* The listener leaves CommsSend alone, or the removal of a client is recorded.
LEMMA ListenerKeepsSend ==
  ASSUME IInv, Listener
  PROVE  SendKept
  <1> USE DEF table, world, peers, local, hist
  <1>1. UNCHANGED <<need, got>>
    BY Zenon DEF Listener, ListenerWhile, ListenerCount, ListenerEndRound, ListenerSlot, ListenerReceive,
       ListenerNoData, ListenerDrop, Disconnect, DisconnectEnter, DisconnectClose, DisconnectZero,
       DisconnectShift, DisconnectClear, DisconnectCount
  <1>2. UNCHANGED pc \/ \E l \in PcLabels["listener"] : Goto("listener", l)
    BY DEF Listener, ListenerWhile, ListenerCount, ListenerEndRound, ListenerSlot, ListenerReceive, ListenerNext,
       ListenerNoData, ListenerDrop, Disconnect, DisconnectEnter, DisconnectClose, DisconnectZero,
       DisconnectShift, DisconnectClear, DisconnectCount, Return, PcLabels
  <1>3. pc'["user"] = pc["user"]
    BY <1>2, Went DEF IInv, Fields, Threads, Callers
  <1>4. UNCHANGED cid \/ \E v : cid' = [cid EXCEPT !["listener"] = v]
    BY Zenon DEF Listener, ListenerWhile, ListenerCount, ListenerEndRound, ListenerSlot, ListenerReceive, ListenerNext,
       ListenerNoData, ListenerDrop, Disconnect, DisconnectEnter, DisconnectClose, DisconnectZero,
       DisconnectShift, DisconnectClear, DisconnectCount, Return
  <1>5. cid'["user"] = cid["user"]
    BY <1>4 DEF IInv, Fields, Locals, Callers
  <1>6. CASE UNCHANGED <<addr, count, moved>>
    BY <1>1, <1>3, <1>5, <1>6 DEF SendKept, IInv, Fields, Tables
  <1>7. CASE DisconnectClose("listener")
    <2>1. moved' = (moved \/ Sending)
      BY <1>7, Zenon DEF DisconnectClose
    <2>2. SendingToAll => moved'
      BY <2>1, Zenon DEF SendingToAll, Sending
    <2> QED
      BY <1>3, <2>2 DEF SendKept
  <1>8. CASE UNCHANGED moved /\ pc["listener"] \in {"dzero", "dshift", "dcount"}
    <2>1. mutex = "listener" /\ mutex # "free" /\ pc[mutex] # "dclose"
      BY <1>8 DEF IInv, Places, Removing, Callers
    <2>2. SendingToAll => Sending
      BY DEF SendingToAll, Sending
    <2>3. SendingToAll => moved
      BY <2>1, <2>2 DEF IInv, Sends
    <2> QED
      BY <1>3, <1>8, <2>3 DEF SendKept
  <1>9. CASE Disconnect("listener") /\ ~DisconnectEnter("listener") /\ ~DisconnectClose("listener")
    <2>1. UNCHANGED moved
      BY <1>9, Zenon DEF Disconnect, DisconnectZero, DisconnectShift, DisconnectClear, DisconnectCount
    <2>2. pc["listener"] \in {"dzero", "dshift", "dcount"}
      BY <1>9 DEF Disconnect, DisconnectZero, DisconnectShift, DisconnectClear, DisconnectCount, At
    <2> QED
      BY <1>8, <2>1, <2>2
  <1>10. CASE ~(Disconnect("listener") /\ ~DisconnectEnter("listener")) /\ ~DisconnectClose("listener")
    <2>1. UNCHANGED <<addr, count, moved>>
      BY <1>10, Zenon DEF Listener, ListenerWhile, ListenerCount, ListenerEndRound, ListenerSlot, ListenerReceive,
         ListenerNoData, ListenerDrop, DisconnectEnter
    <2> QED
      BY <1>6, <2>1
  <1> QED
    BY <1>7, <1>9, <1>10

\* A step of the user's other calls is not within a CommsSend to all.
LEMMA OtherCallsProgress ==
  ASSUME IInv,
         \/ SendLoad \/ SendOne \/ CloseCall \/ CloseCheck \/ CloseClose \/ CloseMark \/ CloseStop \/ CloseJoin
         \/ Disconnect("user") \/ \E c \in 1 .. MAX - 1 : SendCall(c) \/ DisconnectCall(c)
  PROVE  Progress'
  <1>1. UNCHANGED pc \/ \E l \in PcLabels["user"] \ {"test", "sendto"} : Goto("user", l)
    BY DEF SendLoad, SendOne, SendReturn, CloseCall, CloseCheck, CloseClose, CloseMark, CloseStop, CloseJoin,
       SendCall, SendStart, DisconnectCall, Disconnect, DisconnectEnter, DisconnectClose, DisconnectZero,
       DisconnectShift, DisconnectClear, DisconnectCount, Return, PcLabels, local
  <1>2. pc["user"] \notin {"test", "sendto"}
    BY DEF SendLoad, SendOne, CloseCall, CloseCheck, CloseClose, CloseMark, CloseStop, CloseJoin,
       SendCall, SendStart, DisconnectCall, Disconnect, DisconnectEnter, DisconnectClose, DisconnectZero,
       DisconnectShift, DisconnectClear, DisconnectCount, At
  <1>3. pc'["user"] \notin {"test", "sendto"}
    BY <1>1, <1>2, Went DEF IInv, Fields, Threads, Callers
  <1> QED
    BY <1>3 DEF Progress, SendingToAll

\* The call of CommsSend to all notes who is there and starts with slot 1.
LEMMA SendAllCallProgress ==
  ASSUME IInv, SendAllCall
  PROVE  Progress'
  <1>1. /\ pc["user"] = "idle" /\ Goto("user", "test") /\ cid' = [cid EXCEPT !["user"] = 1]
        /\ need' = {addr[i] : i \in ClientSlots} \cap Peers /\ UNCHANGED <<got, addr, count>>
    BY DEF SendAllCall, SendStart, At, table
  <1>2. pc'["user"] = "test" /\ cid'["user"] = 1
    BY <1>1, Went DEF IInv, Fields, Locals, Threads, Callers, PcLabels
  <1>3. count \in 1 .. MAX
    BY DEF IInv, Fields, Tables
  <1>4. \A p \in Peers : got'[p] = 0
    BY <1>1 DEF IInv, Places
  <1>5. \A p \in need' : \E i \in 1 .. count' - 1 : addr'[i] = p
    BY <1>1 DEF ClientSlots
  <1>6. 1 .. cid'["user"] - 1 = {}
    BY <1>2
  <1> QED
    BY <1>1, <1>2, <1>3, <1>4, <1>5, <1>6, MaxAssumption DEF Progress

\* The loop of CommsSend goes on to its next client, or returns.
LEMMA SendAllTestProgress ==
  ASSUME IInv, Progress, SendAllTest
  PROVE  Progress'
  <1>1. /\ pc["user"] = "test" /\ UNCHANGED <<addr, count>>
        /\ \/ cid["user"] < count /\ Goto("user", "sendto") /\ UNCHANGED <<cid, need, got, moved>>
           \/ Goto("user", "idle")
    BY DEF SendAllTest, SendReturn, At, table
  <1>2. CASE Goto("user", "idle")
    <2>1. pc'["user"] = "idle"
      BY <1>2, Went DEF IInv, Fields, Threads, Callers, PcLabels
    <2> QED
      BY <2>1 DEF Progress, SendingToAll
  <1>3. CASE cid["user"] < count /\ Goto("user", "sendto") /\ UNCHANGED <<cid, need, got, moved>>
    <2>1. pc'["user"] = "sendto"
      BY <1>3, Went DEF IInv, Fields, Threads, Callers, PcLabels
    <2>2. SendingToAll
      BY <1>1 DEF SendingToAll
    <2> QED
      BY <1>1, <1>3, <2>1, <2>2 DEF Progress
  <1> QED
    BY <1>1, <1>2, <1>3

\* send() reaches the client of the slot, which was not sent to before, or the call fails (eth_comms.h:413-420).
LEMMA SendAllSendProgress ==
  ASSUME IInv, Progress, SendAllSend
  PROVE  Progress'
  <1> DEFINE c == cid["user"]
             q == Refers(socks[c])
  <1>1. /\ pc["user"] = "sendto" /\ UNCHANGED <<addr, count>>
        /\ \/ /\ q \in Peers /\ got' = [got EXCEPT ![q] = got[q] + 1]
              /\ cid' = [cid EXCEPT !["user"] = c + 1]
              /\ Goto("user", "test") /\ UNCHANGED <<need, moved>>
           \/ Goto("user", "idle")
    BY DEF SendAllSend, SendResult, SendReturn, At, table
  <1>2. CASE Goto("user", "idle")
    <2>1. pc'["user"] = "idle"
      BY <1>2, Went DEF IInv, Fields, Threads, Callers, PcLabels
    <2> QED
      BY <2>1 DEF Progress, SendingToAll
  <1>3. CASE /\ q \in Peers /\ got' = [got EXCEPT ![q] = got[q] + 1]
             /\ cid' = [cid EXCEPT !["user"] = c + 1]
             /\ Goto("user", "test") /\ UNCHANGED <<need, moved>>
    <2> SUFFICES ASSUME ~moved' PROVE Progress'
      BY DEF Progress
    <2>1. SendingToAll /\ ~moved /\ Sending /\ ~Closing
      BY <1>1, <1>3 DEF SendingToAll, Sending, Closing
    <2>2. c \in 1 .. count - 1 /\ count \in Int
      BY <1>1, <2>1 DEF Progress, IInv, Fields, Tables
    <2>3. Hole = 0
      BY <2>1 DEF IInv, Sends, Hole
    <2>4. Occupied = 1 .. count - 1
      BY <2>2, <2>3 DEF Occupied, ClientSlots
    <2>5. /\ \A i \in 1 .. count - 1 : addr[i] \in Peers /\ socks[i] \in Fds \ {0} /\ fdOwner[socks[i]] = addr[i]
          /\ \A i, j \in 1 .. count - 1 : addr[i] = addr[j] => i = j
      BY <2>1, <2>4 DEF IInv, Entries
    <2>6. q = addr[c]
      BY <2>2, <2>5 DEF Refers
    <2>7. pc'["user"] = "test" /\ cid'["user"] = c + 1
      BY <1>3, Went DEF IInv, Fields, Locals, Threads, Callers, PcLabels
    <2>8. /\ \A p \in Peers : got[p] = 0 \/ (got[p] = 1 /\ \E i \in 1 .. c - 1 : addr[i] = p)
          /\ \A i \in 1 .. c - 1 : addr[i] \in Peers => got[addr[i]] = 1
          /\ \A p \in need : \E i \in 1 .. count - 1 : addr[i] = p
      BY <2>1 DEF Progress
    <2>9. got[q] = 0
      BY <1>3, <2>2, <2>5, <2>6, <2>8
    <2>10. got' = [got EXCEPT ![q] = 1] /\ got \in [Peers -> 0 .. MAX]
      BY <1>3, <2>9 DEF IInv, Fields, Locals
    <2> HIDE DEF c, q
    <2>11. \A i \in 1 .. c : i = c \/ i \in 1 .. c - 1
      BY <2>2
    <2>12. \A i \in 1 .. c - 1 : i \in 1 .. c
      BY <2>2
    <2>13. c \in 1 .. c
      BY <2>2
    <2>14. \A p \in Peers : got'[p] = 0 \/ (got'[p] = 1 /\ \E i \in 1 .. c : addr[i] = p)
      BY <2>6, <2>8, <2>10, <2>12, <2>13
    <2>15. \A i \in 1 .. c : addr[i] \in Peers => got'[addr[i]] = 1
      BY <1>3, <2>6, <2>8, <2>10, <2>11
    <2>16. cid'["user"] - 1 = c /\ cid'["user"] \in 1 .. count
      BY <2>2, <2>7
    <2> QED
      BY <1>1, <1>3, <2>7, <2>8, <2>14, <2>15, <2>16 DEF Progress
  <1> QED
    BY <1>1, <1>2, <1>3

\* The loop of CommsSend to all is where Progress says, in every state.
THEOREM ProgressHolds == Spec => [](IInv /\ Progress)
  <1>1. Init => Progress
    BY DEF Init, Progress, SendingToAll
  <1>2. IInv /\ Progress /\ [Next]_vars => Progress'
    <2> SUFFICES ASSUME IInv, Progress, [Next]_vars PROVE Progress'
      OBVIOUS
    <2>1. CASE UNCHANGED vars
      <3>1. SendKept
        BY <2>1 DEF vars, table, local, hist, SendKept, IInv, Fields, Tables
      <3> QED
        BY <3>1, ProgressStays
    <2>2. CASE Listener \/ Accepter \/ \E p \in Peers : Peer(p)
      BY <2>2, ListenerKeepsSend, AccepterKeepsSend, ProgressStays
    <2>3. CASE SendSteps \/ CallSteps \/ CloseSteps \/ Disconnect("user")
      BY <2>3, OtherCallsProgress, SendAllCallProgress, SendAllTestProgress, SendAllSendProgress
         DEF SendSteps, CallSteps, CloseSteps
    <2> QED
      BY <2>1, <2>2, <2>3, StepsOf
  <1> QED
    BY Invariant, <1>1, <1>2, PTL DEF Spec

(***************************************************************************)
(* A CommsSend to all clients that returns true reached every client that  *)
(* was there when it was called, each once, unless a client was removed    *)
(* while it ran (eth_comms.h:412-424).                                     *)
(***************************************************************************)
THEOREM BroadcastCompleteHolds == Spec => BroadcastComplete
  <1>1. ASSUME IInv, Progress, [Next]_vars, At("user", "test"), pc'["user"] = "idle", ~moved, NEW p \in Peers
        PROVE  got[p] <= 1 /\ (p \in need => got[p] = 1)
    <2>1. ~SendKept /\ ~UNCHANGED vars
      BY <1>1 DEF SendKept, At, vars
    <2>2. SendSteps \/ CallSteps \/ CloseSteps \/ Disconnect("user")
      BY <1>1, <2>1, StepsOf, ListenerKeepsSend, AccepterKeepsSend
    <2>3. SendAllTest
      BY <1>1, <2>2 DEF SendSteps, CallSteps, CloseSteps, SendAllSend, SendLoad, SendOne, SendAllCall, SendCall, SendStart,
         DisconnectCall, CloseCall, CloseCheck, CloseClose, CloseMark, CloseStop, CloseJoin, Disconnect,
         DisconnectEnter, DisconnectClose, DisconnectZero, DisconnectShift, DisconnectClear, DisconnectCount, At
    <2>4. ~(cid["user"] < count)
      <3>1. cid["user"] < count => Goto("user", "sendto")
        BY <2>3 DEF SendAllTest
      <3>2. ASSUME Goto("user", "sendto") PROVE FALSE
        BY <1>1, <3>2, Went DEF IInv, Fields, Threads, Callers, PcLabels
      <3> QED
        BY <3>1, <3>2
    <2>5. SendingToAll
      BY <1>1 DEF SendingToAll, At
    <2>6. /\ cid["user"] \in 1 .. count
          /\ got[p] = 0 \/ got[p] = 1
          /\ \A i \in 1 .. cid["user"] - 1 : addr[i] \in Peers => got[addr[i]] = 1
          /\ p \in need => \E i \in 1 .. count - 1 : addr[i] = p
      BY <1>1, <2>5 DEF Progress
    <2>7. cid["user"] = count
      <3>1. count \in Int
        BY <1>1 DEF IInv, Fields, Tables
      <3> QED
        BY <2>4, <2>6, <3>1
    <2> QED
      BY <1>1, <2>6, <2>7
  <1>2. IInv /\ Progress /\ [Next]_vars =>
          [At("user", "test") /\ pc'["user"] = "idle" /\ ~moved =>
              \A p \in Peers : got[p] <= 1 /\ (p \in need => got[p] = 1)]_vars
    BY <1>1
  <1> QED
    BY ProgressHolds, <1>2, PTL DEF Spec, BroadcastComplete

----------------------------------------------------------------------------
\* The clients of a table whose slot h is a hole, or of a table without one if h is 0.
Clients(a, n, h) == [k \in 1 .. (IF h = 0 THEN n - 1 ELSE n - 2) |-> a[IF h = 0 \/ k < h THEN k ELSE k + 1]]

\* How many slots are occupied.
LEMMA OccupiedCount ==
  ASSUME IInv
  PROVE  /\ count \in 1 .. MAX /\ Hole \in 0 .. count - 1
         /\ Cardinality(Occupied) = IF Hole = 0 THEN count - 1 ELSE count - 2
         /\ Roster = Clients(addr, count, Hole)
  <1>1. count \in 1 .. MAX /\ mutex \in Callers \cup {"free"}
    BY DEF IInv, Fields, Tables
  <1>2. Hole \in 0 .. count - 1
    <2>1. CASE mutex = "free"
      BY <1>1, <2>1 DEF Hole
    <2>2. CASE mutex \in Callers
      <3>1. pc[mutex] \in {"dclose", "dzero", "dshift", "dcount"}
        BY <2>2 DEF IInv, Places, Removing
      <3>2. /\ pc[mutex] \in {"dclose", "dzero"} => cid[mutex] \in 1 .. count - 1
            /\ pc[mutex] = "dshift" => cur[mutex] \in 1 .. count - 1
            /\ pc[mutex] = "dcount" => count >= 2
        BY <2>2 DEF IInv, Places
      <3>3. mutex # "free"
        BY <2>2 DEF Callers
      <3>4. CASE pc[mutex] = "dclose"
        BY <1>1, <3>3, <3>4 DEF Hole
      <3>5. CASE pc[mutex] = "dzero"
        BY <1>1, <3>2, <3>3, <3>5 DEF Hole
      <3>6. CASE pc[mutex] = "dshift"
        BY <1>1, <3>2, <3>3, <3>6 DEF Hole
      <3>7. CASE pc[mutex] = "dcount"
        BY <1>1, <3>2, <3>3, <3>7 DEF Hole
      <3> QED
        BY <3>1, <3>4, <3>5, <3>6, <3>7
    <2> QED
      BY <1>1, <2>1, <2>2
  <1>3. Cardinality(Occupied) = IF Hole = 0 THEN count - 1 ELSE count - 2
    <2>1. IsFiniteSet(1 .. count - 1) /\ Cardinality(1 .. count - 1) = count - 1
      <3>1. /\ IsFiniteSet(1 .. count - 1)
            /\ Cardinality(1 .. count - 1) = IF 1 > count - 1 THEN 0 ELSE count - 1 - 1 + 1
        BY <1>1, FS_Interval
      <3> QED
        BY <1>1, <3>1
    <2>2. Cardinality(Occupied) = IF Hole \in 1 .. count - 1 THEN count - 1 - 1 ELSE count - 1
      BY <2>1, FS_RemoveElement DEF Occupied, ClientSlots
    <2> QED
      BY <1>1, <1>2, <2>2
  <1> QED
    BY <1>1, <1>2, <1>3 DEF Roster, Clients

\* Two tables with the same clients.
LEMMA SameClients ==
  ASSUME NEW a, NEW n \in Nat, NEW h \in Nat, NEW b, NEW m \in Nat, NEW g \in Nat,
         (IF h = 0 THEN n - 1 ELSE n - 2) = (IF g = 0 THEN m - 1 ELSE m - 2),
         \A k \in 1 .. (IF h = 0 THEN n - 1 ELSE n - 2) :
             a[IF h = 0 \/ k < h THEN k ELSE k + 1] = b[IF g = 0 \/ k < g THEN k ELSE k + 1]
  PROVE  Clients(a, n, h) = Clients(b, m, g)
  BY DEF Clients

\* The slot that is cleared is the hole.
LEMMA ZeroKeepsClients ==
  ASSUME NEW a, NEW n \in Nat, NEW h \in 1 .. n - 1, NEW v, DOMAIN a = Slot, n <= MAX
  PROVE  Clients([a EXCEPT ![h] = v], n, h) = Clients(a, n, h)
  <1> DEFINE b == [a EXCEPT ![h] = v]
  <1>1. ASSUME NEW k \in 1 .. n - 2
        PROVE  b[IF h = 0 \/ k < h THEN k ELSE k + 1] = a[IF h = 0 \/ k < h THEN k ELSE k + 1]
    BY MaxAssumption DEF Slot
  <1> HIDE DEF b
  <1>2. Clients(b, n, h) = Clients(a, n, h)
    BY <1>1 DEF Clients
  <1> QED
    BY <1>2 DEF b

\* The hole moves on by one slot and its neighbour back.
LEMMA ShiftKeepsClients ==
  ASSUME NEW a, NEW n \in Nat, NEW h \in 1 .. n - 2, DOMAIN a = Slot, n <= MAX
  PROVE  Clients([a EXCEPT ![h] = a[h + 1]], n, h + 1) = Clients(a, n, h)
  <1> DEFINE b == [a EXCEPT ![h] = a[h + 1]]
  <1>1. ASSUME NEW k \in 1 .. n - 2
        PROVE  b[IF h + 1 = 0 \/ k < h + 1 THEN k ELSE k + 1] = a[IF h = 0 \/ k < h THEN k ELSE k + 1]
    BY MaxAssumption DEF Slot
  <1>2. h + 1 # 0 /\ h # 0
    OBVIOUS
  <1> HIDE DEF b
  <1>3. Clients(b, n, h + 1) = Clients(a, n, h)
    BY <1>1, <1>2 DEF Clients
  <1> QED
    BY <1>3 DEF b

\* A hole at the end is as good as a shorter table.
LEMMA CountKeepsClients ==
  ASSUME NEW a, NEW n \in Nat, n >= 2
  PROVE  Clients(a, n - 1, 0) = Clients(a, n, n - 1)
  <1>1. n - 1 # 0 /\ n - 1 - 1 = n - 2
    OBVIOUS
  <1>2. \A k \in 1 .. n - 2 : k < n - 1
    OBVIOUS
  <1> QED
    BY <1>1, <1>2 DEF Clients

\* A client that is stored behind the others is appended.
LEMMA InsertAppends ==
  ASSUME NEW a \in [Slot -> Peers \cup {"none"}], NEW n \in 1 .. MAX - 1, NEW p \in Peers
  PROVE  Clients([a EXCEPT ![n] = p], n + 1, 0) = Append(Clients(a, n, 0), p)
  <1> DEFINE b == [a EXCEPT ![n] = p]
             s == Clients(a, n, 0)
  <1>1. s = [k \in 1 .. n - 1 |-> a[k]] /\ \A k \in 1 .. n - 1 : a[k] \in Peers \cup {"none"}
    BY MaxAssumption DEF Clients, Slot
  <1>2. s \in Seq(Peers \cup {"none"}) /\ Len(s) = n - 1
    BY <1>1, MaxAssumption, SeqDef, LenProperties
  <1>3. \A k \in 1 .. n : b[k] = IF k = n THEN p ELSE a[k]
    BY MaxAssumption DEF Slot
  <1>4. Clients(b, n + 1, 0) = [k \in 1 .. n |-> b[k]]
    BY MaxAssumption DEF Clients
  <1> HIDE DEF b
  <1> DEFINE t == Clients(b, n + 1, 0)
  <1>5. t \in Seq(Peers \cup {"none"}) /\ Len(t) = n
    BY <1>1, <1>3, <1>4, MaxAssumption, SeqDef, LenProperties
  <1>6. /\ Append(s, p) \in Seq(Peers \cup {"none"}) /\ Len(Append(s, p)) = n
        /\ \A k \in 1 .. n - 1 : Append(s, p)[k] = s[k]
        /\ Append(s, p)[n] = p
    BY <1>2, AppendProperties
  <1>7. \A k \in 1 .. n : Append(s, p)[k] = t[k]
    <2> SUFFICES ASSUME NEW k \in 1 .. n PROVE Append(s, p)[k] = t[k]
      OBVIOUS
    <2>1. CASE k = n
      BY <1>3, <1>4, <1>6, <2>1
    <2>2. CASE k \in 1 .. n - 1
      BY <1>1, <1>3, <1>4, <1>6, <2>2
    <2>3. n \in Int
      BY MaxAssumption
    <2>4. k = n \/ k \in 1 .. n - 1
      BY <2>3
    <2> QED
      BY <2>1, <2>2, <2>4
  <1> HIDE DEF s, t
  <1>8. Append(s, p) = t
    BY <1>5, <1>6, <1>7, SeqEqual
  <1> QED
    BY <1>8 DEF s, t, b

\* A slot that becomes a hole is taken out.
LEMMA HoleLeaves ==
  ASSUME NEW a \in [Slot -> Peers \cup {"none"}], NEW n \in 1 .. MAX, NEW h \in 1 .. n - 1
  PROVE  LET s == Clients(a, n, 0)
         IN  /\ Len(s) = n - 1
             /\ Clients(a, n, h) = SubSeq(s, 1, h - 1) \o SubSeq(s, h + 1, Len(s))
             /\ Clients(a, n, h) # s
  <1> DEFINE s == Clients(a, n, 0)
             T == Peers \cup {"none"}
  <1>1. s = [k \in 1 .. n - 1 |-> a[k]] /\ \A k \in 1 .. n - 1 : a[k] \in T
    BY MaxAssumption DEF Clients, Slot
  <1>2. s \in Seq(T) /\ Len(s) = n - 1 /\ n - 1 \in Nat
    BY <1>1, MaxAssumption, SeqDef, LenProperties
  <1> DEFINE t == SubSeq(s, 1, h - 1)
             u == SubSeq(s, h + 1, Len(s))
  <1>3. /\ t \in Seq(T) /\ Len(t) = h - 1 /\ \A k \in 1 .. h - 1 : t[k] = a[k]
    BY <1>1, <1>2, SubSeqProperties
  <1>4. /\ u \in Seq(T) /\ Len(u) = n - 1 - h /\ \A k \in 1 .. n - 1 - h : u[k] = a[h + k]
    BY <1>1, <1>2, SubSeqProperties
  <1> HIDE DEF t, u
  <1> DEFINE w == Clients(a, n, h)
  <1>5. n \in Int /\ h \in Int /\ 1 <= h /\ h <= n - 1 /\ n - 2 \in Nat
    BY MaxAssumption
  <1>6. w = [k \in 1 .. n - 2 |-> IF k < h THEN a[k] ELSE a[k + 1]]
    BY DEF Clients
  <1>7. w \in Seq(T) /\ Len(w) = n - 2
    <2>1. \A k \in 1 .. n - 2 : (IF k < h THEN a[k] ELSE a[k + 1]) \in T
      BY <1>1, <1>5
    <2>2. w \in [1 .. n - 2 -> T]
      BY <1>6, <2>1
    <2> HIDE DEF w
    <2> QED
      BY <1>5, <2>2, SeqDef, LenProperties
  <1>8. /\ t \o u \in Seq(T) /\ Len(t \o u) = n - 2
        /\ \A k \in 1 .. n - 2 : (t \o u)[k] = IF k <= h - 1 THEN t[k] ELSE u[k - (h - 1)]
    <2>1. Len(t) + Len(u) = n - 2
      BY <1>3, <1>4, <1>5
    <2>2. /\ t \o u \in Seq(T) /\ Len(t \o u) = Len(t) + Len(u)
          /\ \A k \in 1 .. Len(t) + Len(u) : (t \o u)[k] = IF k <= Len(t) THEN t[k] ELSE u[k - Len(t)]
      BY <1>3, <1>4, ConcatProperties, Zenon
    <2>3. \A k \in 1 .. n - 2 : (t \o u)[k] = IF k <= Len(t) THEN t[k] ELSE u[k - Len(t)]
      BY <2>1, <2>2, Zenon
    <2> QED
      BY <1>3, <2>1, <2>2, <2>3, Zenon
  <1>9. \A k \in 1 .. n - 2 : (t \o u)[k] = w[k]
    <2> SUFFICES ASSUME NEW k \in 1 .. n - 2 PROVE (t \o u)[k] = w[k]
      OBVIOUS
    <2>1. CASE k < h
      <3>1. k \in 1 .. h - 1 /\ k <= h - 1
        BY <1>5, <2>1
      <3> QED
        BY <1>3, <1>6, <1>8, <2>1, <3>1
    <2>2. CASE ~(k < h)
      <3>1. k - (h - 1) \in 1 .. n - 1 - h /\ ~(k <= h - 1) /\ h + (k - (h - 1)) = k + 1
        BY <1>5, <2>2
      <3> QED
        BY <1>4, <1>6, <1>8, <2>2, <3>1
    <2> QED
      BY <2>1, <2>2
  <1> HIDE DEF w
  <1>10. t \o u = w
    BY <1>7, <1>8, <1>9, SeqEqual
  <1>11. w # s
    BY <1>2, <1>5, <1>7
  <1> QED
    BY <1>2, <1>10, <1>11 DEF s, t, u, w

----------------------------------------------------------------------------
(***************************************************************************)
(* The table implements the roster.  A step either leaves the clients of   *)
(* the table alone, appends one, or opens the hole at one of them.         *)
(***************************************************************************)
ClientTable ==
    /\ count \in 1 .. MAX /\ Hole \in 0 .. count - 1
    /\ Roster = Clients(addr, count, Hole)

\* What the abstract roster is refined by.
Served == IF Closing THEN <<>> ELSE Roster

\* A step that keeps the clients and does not start CommsClose is a stutter.
Stutters == Served' = Served /\ (Closing' <=> Closing)

\* A step after which the table has the same clients.
LEMMA ClientsStay ==
  ASSUME ClientTable, ClientTable', Closing' <=> Closing,
         ~Closing => Clients(addr', count', Hole') = Clients(addr, count, Hole)
  PROVE  Stutters
  BY DEF ClientTable, Served, Stutters

\* So does one that leaves alone the table, and where the owner of the lock is.
LEMMA OwnerStays ==
  ASSUME Tables, ClientTable, ClientTable', Closing' <=> Closing,
         ~Closing => UNCHANGED <<addr, count, mutex>>,
         ~Closing => \A t \in Callers : mutex = t => pc'[t] = pc[t] /\ cid'[t] = cid[t] /\ cur'[t] = cur[t]
  PROVE  Stutters
  <1>1. ~Closing => Hole' = Hole
    BY DEF Tables, Hole
  <1> QED
    BY <1>1, ClientsStay

\* The accepter and the peers, but for the insertion of a client.
LEMMA AccepterStutters ==
  ASSUME IInv, ClientTable, ClientTable',
         \/ AccepterWhile \/ (\E p \in Peers, f \in Fds : AccepterAccept(p, f)) \/ AccepterFail \/ AccepterFull
         \/ \E p \in Peers : Peer(p)
  PROVE  Stutters
  <1> USE DEF table, world, peers, local, hist
  <1>1. UNCHANGED <<addr, count, mutex, cid, cur>>
    BY Zenon DEF AccepterWhile, AccepterAccept, AccepterFail, AccepterFull, Peer, PeerConnect, PeerSend, PeerLeave
  <1>2. UNCHANGED pc \/ \E l \in PcLabels["accepter"] : Goto("accepter", l)
    BY DEF AccepterWhile, AccepterAccept, AccepterFail, AccepterFull, PcLabels, Peer, PeerConnect, PeerSend, PeerLeave
  <1>3. pc'["user"] = pc["user"] /\ pc'["listener"] = pc["listener"]
    BY <1>2, Went DEF IInv, Fields, Threads, Callers
  <1> QED
    BY <1>1, <1>3, OwnerStays DEF IInv, Fields, Closing, Callers

\* The listener's loop.
LEMMA ListenerStutters ==
  ASSUME IInv, ClientTable, ClientTable',
         \/ ListenerWhile \/ ListenerCount \/ ListenerEndRound \/ ListenerSlot
         \/ ListenerReceive \/ ListenerNoData \/ ListenerDrop
  PROVE  Stutters
  <1> USE DEF table, world, peers, local, hist
  <1>1. UNCHANGED <<addr, count, mutex, cur>>
    BY Zenon DEF ListenerWhile, ListenerCount, ListenerEndRound, ListenerSlot, ListenerReceive, ListenerNoData,
       ListenerDrop
  <1>2. UNCHANGED pc \/ \E l \in PcLabels["listener"] : Goto("listener", l)
    BY DEF ListenerWhile, ListenerCount, ListenerEndRound, ListenerSlot, ListenerReceive, ListenerNext,
       ListenerNoData, ListenerDrop, PcLabels
  <1>3. pc'["user"] = pc["user"]
    BY <1>2, Went DEF IInv, Fields, Threads, Callers
  <1>4. UNCHANGED cid \/ \E v : cid' = [cid EXCEPT !["listener"] = v]
    BY Zenon DEF ListenerWhile, ListenerCount, ListenerEndRound, ListenerSlot, ListenerReceive, ListenerNext,
       ListenerNoData, ListenerDrop
  <1>5. cid'["user"] = cid["user"]
    BY <1>4 DEF IInv, Fields, Locals, Callers
  <1>6. mutex # "listener"
    <2>1. pc["listener"] \in {"while", "count", "slot", "recv"}
      BY DEF ListenerWhile, ListenerCount, ListenerEndRound, ListenerSlot, ListenerReceive, ListenerNoData,
         ListenerDrop, At
    <2> QED
      BY <2>1 DEF IInv, Places, Removing, Callers
  <1> QED
    BY <1>1, <1>3, <1>5, <1>6, OwnerStays DEF IInv, Fields, Closing, Callers

\* The user's sends and calls, but for the call of CommsClose.
LEMMA UserStutters ==
  ASSUME IInv, ClientTable, ClientTable',
         SendSteps \/ SendAllCall \/ \E c \in 1 .. MAX - 1 : SendCall(c) \/ DisconnectCall(c)
  PROVE  Stutters
  <1> USE DEF table, world, peers, local, hist
  <1>1. UNCHANGED <<addr, count, mutex, cur>>
    BY Zenon DEF SendSteps, SendAllTest, SendAllSend, SendLoad, SendOne, SendAllCall, SendCall, SendStart,
       DisconnectCall
  <1>2. pc["user"] \in {"idle", "test", "sendto", "load", "sendone"}
    BY DEF SendSteps, SendAllTest, SendAllSend, SendLoad, SendOne, SendAllCall, SendCall, SendStart,
       DisconnectCall, At
  <1>3. \E l \in {"idle", "test", "sendto", "load", "sendone", "disconnect"} : Goto("user", l)
    BY DEF SendSteps, SendAllTest, SendAllSend, SendLoad, SendOne, SendAllCall, SendCall, SendStart, SendReturn,
       DisconnectCall
  <1>4. /\ pc'["user"] \in {"idle", "test", "sendto", "load", "sendone", "disconnect"}
        /\ pc'["listener"] = pc["listener"]
    BY <1>3, Went DEF IInv, Fields, Threads, Callers, PcLabels
  <1>5. UNCHANGED cid \/ \E v : cid' = [cid EXCEPT !["user"] = v]
    BY Zenon DEF SendSteps, SendAllTest, SendAllSend, SendLoad, SendOne, SendAllCall, SendCall, SendStart,
       SendReturn, DisconnectCall
  <1>6. cid'["listener"] = cid["listener"]
    BY <1>5 DEF IInv, Fields, Locals, Callers
  <1>7. mutex # "user"
    BY <1>2 DEF IInv, Places, Removing, Callers
  <1>8. ~Closing /\ ~Closing'
    BY <1>2, <1>4 DEF Closing
  <1> QED
    BY <1>1, <1>4, <1>6, <1>7, <1>8, OwnerStays DEF IInv, Fields, Callers

\* The steps of CommsClose: nobody is served any more.
LEMMA CloseStutters ==
  ASSUME IInv, CloseSteps
  PROVE  Stutters
  <1>1. Closing
    BY DEF CloseSteps, CloseCheck, CloseClose, CloseMark, CloseStop, CloseJoin, Closing, At
  <1>2. Closing'
    BY <1>1, UserKeepsListener DEF ListenerKept
  <1> QED
    BY <1>1, <1>2 DEF Stutters, Served

\* CommsDisconnect, but for the closing of the socket: the clients are the same,
\* whichever slot is the hole.
LEMMA DisconnectStutters ==
  ASSUME IInv, ClientTable, ClientTable', NEW t \in Callers, Disconnect(t), ~DisconnectClose(t)
  PROVE  Stutters
  <1> USE DEF table, world, peers, local, hist
  <1>1. t \in {"user", "listener"} /\ t \in Threads /\ count \in 1 .. MAX /\ DOMAIN addr = Slot /\ count \in Nat
    BY MaxAssumption DEF Callers, Threads, IInv, Fields, Tables
  <1>2. UNCHANGED pc \/ \E l \in {"idle", "slot", "dclose", "dshift", "dcount"} \cap PcLabels[t] : Goto(t, l)
    <2>1. Return(t) => \E l \in {"idle", "slot"} \cap PcLabels[t] : Goto(t, l)
      BY <1>1 DEF Return, PcLabels
    <2>2. \A l \in {"dclose", "dshift", "dcount"} : l \in PcLabels[t]
      BY <1>1 DEF PcLabels
    <2> QED
      BY <2>1, <2>2, Zenon DEF Disconnect, DisconnectEnter, DisconnectZero, DisconnectShift, DisconnectClear,
         DisconnectCount
  <1>3. pc[t] \in {"disconnect", "dzero", "dshift", "dcount"}
    BY DEF Disconnect, DisconnectEnter, DisconnectZero, DisconnectShift, DisconnectClear, DisconnectCount, At
  <1>4. Closing' <=> Closing
    <2>1. CASE t = "listener"
      <3>1. pc'["user"] = pc["user"]
        BY <1>1, <1>2, <2>1, Went DEF IInv, Fields, Threads, Callers
      <3> QED
        BY <3>1 DEF Closing
    <2>2. CASE t = "user"
      <3>1. ~Closing
        BY <1>3, <2>2 DEF Closing
      <3>2. pc'["user"] \in {"disconnect", "idle", "slot", "dclose", "dzero", "dshift", "dcount"}
        BY <1>1, <1>2, <1>3, <2>2, Went DEF IInv, Fields
      <3> QED
        BY <3>1, <3>2 DEF Closing
    <2> QED
      BY <1>1, <2>1, <2>2
  <1>5. CASE DisconnectEnter(t)
    <2>1. /\ UNCHANGED <<addr, count>> /\ mutex = "free"
          /\ mutex' = "free" \/ (mutex' = t /\ Goto(t, "dclose"))
      BY <1>5, Zenon DEF DisconnectEnter
    <2>2. Hole = 0
      BY <2>1 DEF Hole
    <2>3. Hole' = 0
      <3>1. CASE mutex' = "free"
        BY <3>1 DEF Hole
      <3>2. CASE mutex' = t /\ Goto(t, "dclose")
        <4>1. pc'[t] = "dclose"
          BY <1>1, <3>2, Went DEF IInv, Fields, PcLabels
        <4> QED
          BY <1>1, <3>2, <4>1 DEF Hole
      <3> QED
        BY <2>1, <3>1, <3>2
    <2> QED
      BY <1>4, <2>1, <2>2, <2>3, ClientsStay
  <1>6. CASE ~DisconnectEnter(t)
    <2>1. pc[t] \in {"dzero", "dshift", "dcount"}
      BY <1>6 DEF Disconnect, DisconnectZero, DisconnectShift, DisconnectClear, DisconnectCount, At
    <2>2. mutex = t /\ mutex # "free"
      BY <1>1, <2>1 DEF IInv, Places, Removing
    <2>3. /\ pc[t] = "dzero" => Hole = cid[t] /\ cid[t] \in 1 .. count - 1
          /\ pc[t] = "dshift" => Hole = cur[t] /\ cur[t] \in 1 .. count - 1
          /\ pc[t] = "dcount" => Hole = count - 1 /\ count >= 2
      BY <2>2 DEF Hole, IInv, Places
    <2>4. ASSUME mutex' = t, pc'[t] = "dshift" PROVE Hole' = cur'[t]
      BY <2>2, <2>4 DEF Hole
    <2>5. ASSUME mutex' = t, pc'[t] = "dcount" PROVE Hole' = count' - 1
      BY <2>2, <2>5 DEF Hole
    <2>6. CASE DisconnectZero(t)
      <3>1. /\ pc[t] = "dzero" /\ addr' = [addr EXCEPT ![cid[t]] = "none"] /\ cur' = [cur EXCEPT ![t] = cid[t]]
            /\ Goto(t, "dshift") /\ UNCHANGED <<count, mutex>>
        BY <2>6 DEF DisconnectZero, At
      <3>2. pc'[t] = "dshift" /\ cur'[t] = cid[t]
        BY <1>1, <3>1, Went DEF IInv, Fields, Locals, PcLabels
      <3>3. Hole' = Hole /\ Hole = cid[t] /\ cid[t] \in 1 .. count - 1
        BY <2>2, <2>3, <2>4, <3>1, <3>2
      <3>4. Clients([addr EXCEPT ![cid[t]] = "none"], count, cid[t]) = Clients(addr, count, cid[t])
        <4>1. count \in Nat /\ count <= MAX /\ cid[t] \in 1 .. count - 1 /\ DOMAIN addr = Slot
          BY <1>1, <3>3, MaxAssumption
        <4> QED
          BY <4>1, ZeroKeepsClients
      <3>5. count' = count /\ Hole' = cid[t] /\ Hole = cid[t]
        BY <3>1, <3>3
      <3>6. Clients(addr', count', Hole') = Clients(addr, count, Hole)
        BY <3>1, <3>4, <3>5, Zenon
      <3> QED
        BY <1>4, <3>6, ClientsStay
    <2>7. CASE DisconnectShift(t)
      <3>1. /\ pc[t] = "dshift" /\ cur[t] < count - 1
            /\ addr' = [addr EXCEPT ![cur[t]] = addr[cur[t] + 1]] /\ cur' = [cur EXCEPT ![t] = cur[t] + 1]
            /\ UNCHANGED <<pc, count, mutex>>
        BY <2>7 DEF DisconnectShift, At
      <3>2. pc'[t] = "dshift" /\ cur'[t] = cur[t] + 1
        BY <1>1, <3>1 DEF IInv, Fields, Locals
      <3>3. Hole' = Hole + 1 /\ Hole = cur[t] /\ cur[t] \in 1 .. count - 2
        BY <1>1, <2>2, <2>3, <2>4, <3>1, <3>2
      <3>4. Clients([addr EXCEPT ![cur[t]] = addr[cur[t] + 1]], count, cur[t] + 1) = Clients(addr, count, cur[t])
        <4>1. count \in Nat /\ count <= MAX /\ cur[t] \in 1 .. count - 2 /\ DOMAIN addr = Slot
          BY <1>1, <3>3, MaxAssumption
        <4> QED
          BY <4>1, ShiftKeepsClients
      <3>5. count' = count /\ Hole' = cur[t] + 1 /\ Hole = cur[t]
        BY <3>1, <3>3
      <3>6. Clients(addr', count', Hole') = Clients(addr, count, Hole)
        BY <3>1, <3>4, <3>5, Zenon
      <3> QED
        BY <1>4, <3>6, ClientsStay
    <2>8. CASE DisconnectClear(t)
      <3>1. /\ pc[t] = "dshift" /\ cur[t] >= count - 1
            /\ addr' = [addr EXCEPT ![count - 1] = "none"]
            /\ Goto(t, "dcount") /\ UNCHANGED <<count, mutex>>
        BY <2>8 DEF DisconnectClear, At
      <3>2. pc'[t] = "dcount"
        BY <1>1, <3>1, Went DEF IInv, Fields, PcLabels
      <3>3. Hole' = Hole /\ Hole = count - 1 /\ count - 1 \in 1 .. count - 1
        BY <1>1, <2>2, <2>3, <2>5, <3>1, <3>2
      <3>4. Clients([addr EXCEPT ![count - 1] = "none"], count, count - 1) = Clients(addr, count, count - 1)
        <4>1. count \in Nat /\ count <= MAX /\ count - 1 \in 1 .. count - 1 /\ DOMAIN addr = Slot
          BY <1>1, <3>3, MaxAssumption
        <4> QED
          BY <4>1, ZeroKeepsClients
      <3>5. count' = count /\ Hole' = count - 1 /\ Hole = count - 1
        BY <3>1, <3>3
      <3>6. Clients(addr', count', Hole') = Clients(addr, count, Hole)
        BY <3>1, <3>4, <3>5, Zenon
      <3> QED
        BY <1>4, <3>6, ClientsStay
    <2>9. CASE DisconnectCount(t)
      <3>1. pc[t] = "dcount" /\ UNCHANGED addr /\ count' = count - 1 /\ mutex' = "free"
        BY <2>9 DEF DisconnectCount, At
      <3>2. Hole' = 0
        BY <3>1 DEF Hole
      <3>3. Clients(addr', count', Hole') = Clients(addr, count, Hole)
        BY <1>1, <2>3, <3>1, <3>2, CountKeepsClients
      <3> QED
        BY <1>4, <3>3, ClientsStay
    <2> QED
      BY <1>6, <2>6, <2>7, <2>8, <2>9 DEF Disconnect
  <1> QED
    BY <1>5, <1>6

\* The accepter's insertion is a client that joins.
LEMMA InsertJoins ==
  ASSUME IInv, ClientTable, ClientTable', AccepterInsert
  PROVE  /\ Closing' <=> Closing
         /\ ~Closing => /\ who["accepter"] \in Peers
                        /\ who["accepter"] \notin {Served[i] : i \in 1 .. Len(Served)}
                        /\ Len(Served) < MAX - 1
                        /\ Served' = Append(Served, who["accepter"])
                        /\ Served' # Served
  <1> USE DEF table, world, peers, local, hist
  <1> DEFINE p == who["accepter"]
  <1>1. /\ At("accepter", "insert") /\ mutex = "free" /\ count < MAX /\ mutex' = mutex
        /\ addr' = [addr EXCEPT ![count] = p] /\ count' = count + 1 /\ Goto("accepter", "while")
    BY DEF AccepterInsert
  <1>2. pc'["user"] = pc["user"]
    BY <1>1, Went DEF IInv, Fields, Threads, Callers, PcLabels
  <1>3. Closing' <=> Closing
    BY <1>2 DEF Closing
  <1>4. Hole = 0 /\ Hole' = 0
    BY <1>1 DEF Hole
  <1>5. ASSUME ~Closing
        PROVE  /\ p \in Peers /\ p \notin {Served[i] : i \in 1 .. Len(Served)} /\ Len(Served) < MAX - 1
               /\ Served' = Append(Served, p) /\ Served' # Served
    <2>1. addr \in [Slot -> Peers \cup {"none"}] /\ count \in 1 .. MAX - 1 /\ count - 1 \in Nat
      BY <1>1, MaxAssumption DEF IInv, Fields, Tables
    <2>2. p \in Peers /\ \A i \in 1 .. count - 1 : addr[i] # p
      BY <1>1, <1>4, <1>5, <2>1 DEF IInv, Entries, Occupied, ClientSlots
    <2>3. Served = Clients(addr, count, 0) /\ Served' = Clients(addr', count', 0)
      BY <1>3, <1>4, <1>5 DEF Served, ClientTable
    <2>4. Served' = Append(Served, p)
      BY <1>1, <2>1, <2>2, <2>3, InsertAppends
    <2>5. Clients(addr, count, 0) = [k \in 1 .. count - 1 |-> addr[k]]
      BY DEF Clients
    <2>6. \A k \in 1 .. count - 1 : addr[k] \in Peers \cup {"none"}
      BY <2>1, MaxAssumption DEF Slot
    <2>7. Clients(addr, count, 0) \in [1 .. count - 1 -> Peers \cup {"none"}]
      BY <2>5, <2>6
    <2>8. Served \in Seq(Peers \cup {"none"}) /\ Len(Served) = count - 1
      BY <2>1, <2>3, <2>7, SeqDef, LenProperties
    <2>9. p \notin {Served[i] : i \in 1 .. Len(Served)}
      BY <2>2, <2>3, <2>5, <2>8
    <2>10. Len(Served') # Len(Served)
      BY <2>2, <2>4, <2>8, AppendProperties
    <2> HIDE DEF p
    <2>11. Len(Served) < MAX - 1
      BY <2>1, <2>8, MaxAssumption
    <2> QED
      BY <2>2, <2>4, <2>9, <2>10, <2>11
  <1> QED
    BY <1>3, <1>5

\* The socket that CommsDisconnect closes is a client that leaves.
LEMMA CloseLeaves ==
  ASSUME IInv, ClientTable, ClientTable', NEW t \in Callers, DisconnectClose(t)
  PROVE  /\ Closing' <=> Closing
         /\ ~Closing => \E i \in 1 .. Len(Served) :
                          /\ Served' = SubSeq(Served, 1, i - 1) \o SubSeq(Served, i + 1, Len(Served))
                          /\ Served' # Served
  <1> USE DEF table, world, peers, local, hist
  <1>1. t \in {"user", "listener"} /\ t \in Threads
    BY DEF Callers, Threads
  <1>2. pc[t] = "dclose" /\ Goto(t, "dzero") /\ UNCHANGED <<addr, count, mutex, cid>>
    BY DEF DisconnectClose, At
  <1>3. pc'[t] = "dzero" /\ \A u \in Threads : u # t => pc'[u] = pc[u]
    BY <1>1, <1>2, Went DEF IInv, Fields, PcLabels
  <1>4. Closing' <=> Closing
    BY <1>1, <1>2, <1>3 DEF Closing, Threads, Callers
  <1>5. mutex = t /\ mutex # "free" /\ cid[t] \in 1 .. count - 1
    BY <1>1, <1>2 DEF IInv, Places, Removing
  <1>6. Hole = 0
    BY <1>2, <1>5 DEF Hole
  <1>7. Hole' = cid[t]
    BY <1>2, <1>3, <1>5 DEF Hole
  <1>8. ASSUME ~Closing
        PROVE  \E i \in 1 .. Len(Served) :
                  /\ Served' = SubSeq(Served, 1, i - 1) \o SubSeq(Served, i + 1, Len(Served))
                  /\ Served' # Served
    <2>1. Served = Clients(addr, count, 0) /\ Served' = Clients(addr, count, cid[t])
      BY <1>2, <1>4, <1>6, <1>7, <1>8 DEF Served, ClientTable
    <2>2. addr \in [Slot -> Peers \cup {"none"}] /\ count \in 1 .. MAX
      BY DEF IInv, Fields, Tables
    <2>3. /\ Len(Served) = count - 1 /\ Served' # Served
          /\ Served' = SubSeq(Served, 1, cid[t] - 1) \o SubSeq(Served, cid[t] + 1, Len(Served))
      BY <1>5, <2>1, <2>2, HoleLeaves
    <2> QED
      BY <1>5, <2>3
  <1> QED
    BY <1>4, <1>8

(***************************************************************************)
(* The table refines the roster of clients, in which joining and leaving   *)
(* are atomic: every store of a shift is invisible, and only the accepter, *)
(* the closing of a client's socket and CommsClose change it (eth_comms.h: *)
(* 237-254, 276, 649-668).                                                 *)
(***************************************************************************)
THEOREM ImplementsRosterHolds == Spec => ImplementsRoster
  <1>1. IInv => ClientTable
    BY OccupiedCount DEF ClientTable
  <1>2. Init => Abstract!Init
    <2> SUFFICES ASSUME Init PROVE Abstract!Init
      OBVIOUS
    <2>1. ~Closing /\ Hole = 0 /\ Roster = Clients(addr, count, Hole)
      BY InitInv, OccupiedCount DEF Init, Closing, Hole
    <2>2. Roster = <<>>
      BY <2>1 DEF Init, Clients
    <2> QED
      BY <2>1, <2>2 DEF Abstract!Init
  <1>3. IInv /\ ClientTable /\ ClientTable' /\ [Next]_vars =>
           [Abstract!Next]_<<IF Closing THEN <<>> ELSE Roster, ~Closing>>
    <2> SUFFICES ASSUME IInv, ClientTable, ClientTable', [Next]_vars
                 PROVE  \/ Served' = Served /\ (~Closing)' = (~Closing)
                        \/ Abstract!Next
      BY DEF Served
    <2>1. Stutters => Served' = Served /\ (~Closing)' = (~Closing)
      BY DEF Stutters
    <2>2. CASE UNCHANGED vars
      <3>1. Stutters
        BY <2>2, OwnerStays DEF vars, table, local, IInv, Fields, Closing
      <3> QED
        BY <2>1, <3>1
    <2>3. CASE Listener /\ ~DisconnectClose("listener")
      BY <2>1, <2>3, ListenerStutters, DisconnectStutters DEF Listener, Callers
    <2>4. CASE (Accepter \/ \E p \in Peers : Peer(p)) /\ ~AccepterInsert
      BY <2>1, <2>4, AccepterStutters DEF Accepter
    <2>5. CASE SendSteps \/ CloseSteps \/ (CallSteps /\ ~CloseCall)
      BY <2>1, <2>5, UserStutters, CloseStutters DEF CallSteps
    <2>6. CASE Disconnect("user") /\ ~DisconnectClose("user")
      BY <2>1, <2>6, DisconnectStutters DEF Callers
    <2>7. CASE AccepterInsert
      <3>1. CASE Closing
        BY <2>1, <2>7, <3>1, InsertJoins DEF Stutters, Served
      <3>2. CASE ~Closing
        BY <2>7, <3>2, InsertJoins DEF Abstract!Next, Abstract!Join, Abstract!Members, Served
      <3> QED
        BY <3>1, <3>2
    <2>8. CASE CloseCall
      <3>1. pc["user"] = "idle" /\ Goto("user", "check")
        BY <2>8 DEF CloseCall, At
      <3>2. pc'["user"] = "check"
        BY <3>1, Went DEF IInv, Fields, Threads, Callers, PcLabels
      <3>3. ~Closing /\ Closing'
        BY <3>1, <3>2 DEF Closing
      <3> QED
        BY <3>3 DEF Abstract!Next, Abstract!Shutdown
    <2>9. ASSUME NEW t \in Callers, DisconnectClose(t) PROVE (Served' = Served /\ (~Closing)' = (~Closing)) \/ Abstract!Next
      <3>1. CASE Closing
        BY <2>1, <2>9, <3>1, CloseLeaves DEF Stutters, Served
      <3>2. CASE ~Closing
        BY <2>9, <3>2, CloseLeaves DEF Abstract!Next, Abstract!Leave, Served
      <3> QED
        BY <3>1, <3>2
    <2> QED
      BY <2>2, <2>3, <2>4, <2>5, <2>6, <2>7, <2>8, <2>9, StepsOf DEF Callers, Accepter
  <1> QED
    BY Invariant, <1>1, <1>2, <1>3, PTL DEF Spec, ImplementsRoster, Abstract!Spec
=============================================================================
