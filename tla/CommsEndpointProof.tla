------------------------- MODULE CommsEndpointProof -------------------------
(***************************************************************************)
(* Theorems about CommsEndpoint, for every set of programs and any bounds. *)
(***************************************************************************)
EXTENDS CommsEndpoint, TLAPS

(***************************************************************************)
(* The inductive invariant.  Before the initialisation nothing has been    *)
(* stored; the rest says what each store of CommsConnect and of CommsClose *)
(* may rely on, whatever the listener's callback does in between.          *)
(***************************************************************************)
Fresh ==
    pc["user"] = "start" =>
        /\ ~tcp /\ ~server /\ sock = "zero" /\ count = 0 /\ net = "none" /\ ~told
        /\ ~connected /\ op = "init" /\ thread["listener"] = "none" /\ pc["listener"] = "none"

\* A CommsConnect that goes on has a connection of its own.
Connecting ==
    /\ pc["user"] \in {"connect", "count", "ip", "port", "has"} => prog.kind # "server"
    /\ pc["user"] = "count" => tcp /\ count = 0
    /\ pc["user"] \in {"count", "ip", "port", "has"} /\ tcp => told
    /\ tcp /\ prog.kind # "server" /\ ~told => count = 0
    /\ connected /\ tcp => told
    /\ connected => count # 0

\* A connection ends only by its two sides.
Linked ==
    /\ told => net \in {"up", "fin", "broken", "closed"}
    /\ net \in {"fin", "broken"} => left

\* A count that is not zero makes the address valid, until the socket is marked closed.
WholeAddress ==
    /\ ~tcp /\ count # 0 /\ sock = "open" => ip # "zero" /\ port # "zero"
    /\ pc["user"] \in {"port", "has"} /\ sock = "open" => ip # "zero"
    /\ pc["user"] = "has" /\ sock = "open" => port # "zero"

\* Once CommsClose is past the socket, a connected one is closed.
Ending ==
    /\ op = "close" => pc["user"] \in {"idle", "check", "mark", "stop", "join", "join2"}
    /\ thread["listener"] # "none" => sock = "open" \/ (sock = "minus" /\ net = "closed")
    /\ \A t \in Callers : pc[t] = "mark" => net = "closed"
    /\ pc["user"] \in {"mark", "stop", "join", "join2"} /\ connected /\ thread["listener"] # "none"
          => net = "closed"
    /\ pc["user"] = "join2" => pc["listener"] = "ended" /\ thread["listener"] # "none"
    /\ pc["user"] = "idle" /\ op = "close" /\ ret =>
          pc["listener"] = "ended" /\ (connected => net = "closed")

\* Until CommsClose is called a client that is connected has its remote's address.
Named ==
    tcp /\ ~closing =>
        /\ connected \/ pc["user"] \in {"port", "has"} => ip = "remote"
        /\ \A t \in Callers : pc[t] \notin {"check", "mark"}

Others ==
    /\ Fields /\ Fresh /\ Connecting /\ Linked /\ WholeAddress /\ Ending /\ Named
    /\ KilledOnlyWithoutRemote /\ SendsToWholeAddress

IInv == Flags /\ Others

\* Static storage.
LEMMA InitInv == Init => IInv
  <1>1. Init => Flags
    BY Zenon DEF Init, Flags
  <1>2. Init => Fields /\ Fresh /\ Connecting
    BY EndpointAssumption DEF Init, Fields, Fresh, Connecting, Labels
  <1>3. Init => /\ Linked /\ WholeAddress /\ Ending /\ Named
                /\ KilledOnlyWithoutRemote /\ SendsToWholeAddress
    BY DEF Init, Linked, WholeAddress, Ending, Named, KilledOnlyWithoutRemote,
       SendsToWholeAddress, Callers
  <1> QED
    BY <1>1, <1>2, <1>3 DEF IInv, Others

\* A set-up that fails before there are threads.
LEMMA InitFailsInv ==
  ASSUME IInv, InitNoSocket \/ InitNoBind \/ InitNoListen
  PROVE  IInv'
  <1> USE EndpointAssumption DEF commh, os, far, user, hist, At, Goto, Callers
  <1>1. Flags'
    BY Zenon DEF IInv, Flags, InitNoSocket, Fails, Return, InitNoBind, InitNoListen
  <1> USE DEF Others, Fields, Fresh, Connecting, Linked, WholeAddress, Ending, Named,
     KilledOnlyWithoutRemote, SendsToWholeAddress, Labels
  <1>2. CASE InitNoSocket
    BY <1>1, <1>2 DEF IInv, InitNoSocket, Fails, Return
  <1>3. CASE InitNoBind
    BY <1>1, <1>3 DEF IInv, InitNoBind
  <1>4. CASE InitNoListen
    BY <1>1, <1>4 DEF IInv, InitNoListen
  <1> QED
    BY <1>2, <1>3, <1>4

\* The stores of CommsConnect.
LEMMA StoresInv ==
  ASSUME IInv, ConnectUdp \/ ConnectCount \/ ConnectIp \/ ConnectPort \/ ConnectHas
  PROVE  IInv'
  <1> USE EndpointAssumption DEF commh, os, far, user, hist, At, Goto, Callers
  <1>1. Flags'
    BY Zenon DEF IInv, Flags, ConnectUdp, ConnectCount, ConnectIp, ConnectPort, ConnectHas, Return
  <1> USE DEF Others, Fields, Fresh, Connecting, Linked, WholeAddress, Ending, Named,
     KilledOnlyWithoutRemote, SendsToWholeAddress, Labels
  <1>2. CASE ConnectUdp
    BY <1>1, <1>2 DEF IInv, ConnectUdp
  <1>3. CASE ConnectCount
    BY <1>1, <1>3 DEF IInv, ConnectCount
  <1>4. CASE ConnectIp
    BY <1>1, <1>4 DEF IInv, ConnectIp
  <1>5. CASE ConnectPort
    BY <1>1, <1>5 DEF IInv, ConnectPort
  <1>6. CASE ConnectHas
    BY <1>1, <1>6 DEF IInv, ConnectHas, Return
  <1> QED
    BY <1>2, <1>3, <1>4, <1>5, <1>6

\* The steps of CommsClose before it waits.
LEMMA CloseInv ==
  ASSUME IInv, NEW t \in Callers, CloseSocket(t) \/ CloseMark(t) \/ CloseStop(t)
  PROVE  IInv'
  <1> USE EndpointAssumption DEF commh, os, far, user, hist, At, Goto, Callers
  <1>1. Flags'
    BY Zenon DEF IInv, Flags, CloseSocket, CloseMark, CloseStop
  <1> USE DEF Others, Fields, Fresh, Connecting, Linked, WholeAddress, Ending, Named,
     KilledOnlyWithoutRemote, SendsToWholeAddress, Labels
  <1>2. CASE CloseSocket(t)
    BY <1>1, <1>2 DEF IInv, CloseSocket
  <1>3. CASE CloseMark(t)
    BY <1>1, <1>3 DEF IInv, CloseMark
  <1>4. CASE CloseStop(t)
    BY <1>1, <1>4 DEF IInv, CloseStop
  <1> QED
    BY <1>2, <1>3, <1>4

\* What is refused, and the end of main.
LEMMA RefusedInv ==
  ASSUME IInv, SendAll \/ DisconnectRefused \/ MainReturns
  PROVE  IInv'
  <1> USE EndpointAssumption DEF commh, os, far, user, hist, At, Goto, Callers
  <1>1. Flags'
    BY Zenon DEF IInv, Flags, SendAll, Fails, Return, DisconnectRefused, MainReturns, Ends
  <1> USE DEF Others, Fields, Fresh, Connecting, Linked, WholeAddress, Ending, Named,
     KilledOnlyWithoutRemote, SendsToWholeAddress, Labels
  <1>2. CASE SendAll
    BY <1>1, <1>2 DEF IInv, SendAll, Fails, Return
  <1>3. CASE DisconnectRefused
    BY <1>1, <1>3 DEF IInv, DisconnectRefused, Fails, Return
  <1>4. CASE MainReturns
    BY <1>1, <1>4 DEF IInv, MainReturns, Ends
  <1> QED
    BY <1>2, <1>3, <1>4

\* The listener outside of the callback, and the accepter.
LEMMA ListenerInv ==
  ASSUME IInv,
         ListenerBegin \/ ListenerWhile \/ ListenerReceive \/ ListenerNoData \/ ListenerError
         \/ AccepterEnds
  PROVE  IInv'
  <1> USE EndpointAssumption DEF commh, os, far, user, hist, At, Goto, Callers
  <1>1. Flags'
    BY Zenon DEF IInv, Flags, ListenerBegin, ListenerWhile, ListenerReceive, ListenerNoData,
       ListenerError, AccepterEnds
  <1> USE DEF Others, Fields, Fresh, Connecting, Linked, WholeAddress, Ending, Named,
     KilledOnlyWithoutRemote, SendsToWholeAddress, Labels
  <1>2. CASE ListenerBegin
    BY <1>1, <1>2 DEF IInv, ListenerBegin
  <1>3. CASE ListenerWhile
    BY <1>1, <1>3 DEF IInv, ListenerWhile
  <1>4. CASE ListenerReceive
    BY <1>1, <1>4 DEF IInv, ListenerReceive
  <1>5. CASE ListenerNoData
    BY <1>1, <1>5 DEF IInv, ListenerNoData
  <1>6. CASE ListenerError
    BY <1>1, <1>6 DEF IInv, ListenerError
  <1>7. CASE AccepterEnds
    BY <1>1, <1>7 DEF IInv, AccepterEnds
  <1> QED
    BY <1>2, <1>3, <1>4, <1>5, <1>6, <1>7

\* The remote and the network.
LEMMA RemoteInv ==
  ASSUME IInv, RemoteListens \/ Answer \/ RemoteSends \/ RemoteLeaves
  PROVE  IInv'
  <1> USE EndpointAssumption DEF commh, os, far, user, hist, At, Goto, Callers
  <1>1. Flags'
    BY Zenon DEF IInv, Flags, RemoteListens, Answer, RemoteSends, RemoteLeaves
  <1> USE DEF Others, Fields, Fresh, Connecting, Linked, WholeAddress, Ending, Named,
     KilledOnlyWithoutRemote, SendsToWholeAddress, Labels
  <1>2. CASE RemoteListens
    BY <1>1, <1>2 DEF IInv, RemoteListens
  <1>3. CASE Answer
    BY <1>1, <1>3 DEF IInv, Answer
  <1>4. CASE RemoteSends
    BY <1>1, <1>4 DEF IInv, RemoteSends
  <1>5. CASE RemoteLeaves
    BY <1>1, <1>5 DEF IInv, RemoteLeaves
  <1> QED
    BY <1>2, <1>3, <1>4, <1>5

\* A call returns: SMT is told so, since it does not see that a result is a Boolean.
Returned(t) ==
    /\ pc' = [pc EXCEPT ![t] = IF t = "user" THEN "idle" ELSE "while"]
    /\ t = "listener" => ret' = ret
    /\ UNCHANGED proc

\* send() of a client.
LEMMA SendTcpInv ==
  ASSUME IInv, NEW t \in Callers, SendTcp(t)
  PROVE  IInv'
  <1> USE EndpointAssumption DEF commh, os, far, user, hist, At, Goto, Callers
  <1>1. Flags'
    BY Zenon DEF IInv, Flags, SendTcp, Fails, Return, Ends
  <1>2. \/ Returned(t)
        \/ UNCHANGED <<pc, ret>> /\ proc' = "killed" /\ net \in {"bound", "refused", "broken"}
    BY Zenon DEF SendTcp, Fails, Return, Ends, Returned
  <1>3. pc[t] = "send" /\ tcp /\ net' \in {net} \cup (IF net = "fin" THEN {"broken"} ELSE {})
    BY DEF SendTcp
  <1>4. UNCHANGED <<prog, commh, thread, nonblock, told, far, who, op, calls, hist>>
    BY DEF SendTcp
  <1>5. err' \in {err, "NO_REMOTE", "FAILED_TO_SEND"}
    BY Zenon DEF SendTcp, Fails
  <1> QED
    BY <1>1, <1>2, <1>3, <1>4, <1>5 DEF IInv, Others, Fields, Fresh, Connecting, Linked,
       WholeAddress, Ending, Named, KilledOnlyWithoutRemote, SendsToWholeAddress, Labels, Returned

\* The address of a datagram, which it stores, has both its halves.
LEMMA SendUdpInv ==
  ASSUME IInv, NEW t \in Callers, NEW opt \in Options(t), SendUdp(t, opt)
  PROVE  IInv'
  <1> USE EndpointAssumption DEF commh, os, far, user, hist, At, Goto, Callers
  <1>1. Flags'
    BY Zenon DEF IInv, Flags, SendUdp, Fails, Return
  <1>2. Returned(t)
    BY Zenon DEF SendUdp, Fails, Return, Returned
  <1>3. pc[t] = "send" /\ ~tcp
    BY DEF SendUdp
  <1>4. UNCHANGED <<prog, tcp, server, sock, count, running, thread, os, far, proc, who, op, calls,
                   connected, closing>>
    BY DEF SendUdp
  <1>5. err' \in {err, "NO_REMOTE", "FAILED_TO_SEND"}
    BY Zenon DEF SendUdp, Fails
  <1>6. {opt.ip, opt.port} \subseteq {"zero", "other"}
    BY DEF Options
  <1>7. \/ ip' = ip /\ port' = port /\ dest' = dest
        \/ /\ (opt.ip # "zero" /\ opt.port # "zero") \/ count # 0
           /\ ip' = Addressed(opt).ip /\ port' = Addressed(opt).port
           /\ dest' = dest \/ (sock = "open" /\ dest' = <<ip', port'>>)
    BY Zenon DEF SendUdp
  <1>9. /\ {ip', port'} \subseteq {"zero", "remote", "other"}
        /\ sock = "open" /\ count # 0 => ip' # "zero" /\ port' # "zero"
        /\ ip' = "zero" => ip = "zero"
        /\ port' = "zero" => port = "zero"
    BY <1>3, <1>6, <1>7 DEF IInv, Others, Fields, Fresh, Connecting, Linked, WholeAddress, Ending,
       Named, KilledOnlyWithoutRemote, SendsToWholeAddress, Labels, Addressed
  <1>10. dest' = dest \/ (dest' = <<ip', port'>> /\ ip' # "zero" /\ port' # "zero")
    <2>1. CASE count # 0
      BY <1>7, <1>9, <2>1
    <2>2. CASE count = 0
      BY <1>7, <2>2 DEF Addressed
    <2> QED
      BY <2>1, <2>2
  <1>11. SendsToWholeAddress'
    BY <1>10 DEF SendsToWholeAddress, IInv, Others
  <1> QED
    BY <1>1, <1>2, <1>3, <1>4, <1>5, <1>9, <1>11 DEF IInv, Others, Fields, Fresh, Connecting,
       Linked, WholeAddress, Ending, Named, KilledOnlyWithoutRemote, Labels, Returned

\* CommsClose waits for the threads; only the user's call can be told that they ended.
LEMMA JoinInv ==
  ASSUME IInv, NEW t \in Callers,
         CloseJoin(t, "join", "listener") \/ CloseJoin(t, "join2", "accepter")
  PROVE  IInv'
  <1> USE EndpointAssumption DEF commh, os, far, user, hist, At, Goto, Callers
  <1>1. Flags'
    BY Zenon DEF IInv, Flags, CloseJoin, Fails, Return, Ends
  <1> USE DEF Others, Fields, Fresh, Connecting, Linked, WholeAddress, Ending, Named,
     KilledOnlyWithoutRemote, SendsToWholeAddress, Labels
  <1>2. UNCHANGED <<prog, commh, os, far, who, op, calls, hist>>
    BY DEF CloseJoin
  <1>3. err' \in {err, "CLOSE_COMMS"} /\ proc' \in {proc, "crashed"}
    BY Zenon DEF CloseJoin, Fails, Ends
  <1>4. CASE CloseJoin(t, "join", "listener")
    <2>1. pc[t] = "join"
      BY <1>4 DEF CloseJoin
    <2>2. \/ /\ CanJoin(t, "listener") /\ thread' = [thread EXCEPT !["listener"] = "joined"]
             /\ ~server /\ Returned(t)
          \/ /\ CanJoin(t, "listener") /\ thread' = [thread EXCEPT !["listener"] = "joined"]
             /\ pc' = [pc EXCEPT ![t] = "join2"] /\ ret' = ret
          \/ UNCHANGED thread /\ Returned(t) /\ (t = "user" => ret' = FALSE)
          \/ UNCHANGED <<pc, ret, thread>> /\ proc' = "crashed"
      BY <1>4, Zenon DEF CloseJoin, Fails, Return, Ends, Returned
    <2> QED
      BY <1>1, <1>2, <1>3, <2>1, <2>2 DEF IInv, Returned, CanJoin
  <1>5. CASE CloseJoin(t, "join2", "accepter")
    <2>1. pc[t] = "join2"
      BY <1>5 DEF CloseJoin
    <2>2. \/ /\ CanJoin(t, "accepter") /\ thread' = [thread EXCEPT !["accepter"] = "joined"]
             /\ Returned(t)
          \/ UNCHANGED thread /\ Returned(t) /\ (t = "user" => ret' = FALSE)
          \/ UNCHANGED <<pc, ret, thread>> /\ proc' = "crashed"
      BY <1>5, Zenon DEF CloseJoin, Fails, Return, Ends, Returned
    <2> QED
      BY <1>1, <1>2, <1>3, <2>1, <2>2 DEF IInv, Returned, CanJoin
  <1> QED
    BY <1>4, <1>5

\* What connect() may do.
LEMMA ConnectOutcomes ==
  ASSUME NEW o \in Connect
  PROVE  /\ o[2] \in {0, -1}
         /\ o[2] = 0 => ~told \/ net = "bound"
         /\ o[2] = 0 => o[1] = "up" \/ (o[1] = net /\ net \in {"up", "fin"})
         /\ \/ o[1] = net
            \/ net = "bound" /\ o[1] \in {"up", "connecting"}
            \/ net \in {"refused", "broken"} /\ ~told /\ o[1] = "bound"
         /\ sock # "open" => o[1] = net /\ o[2] = -1
  <1>1. CASE sock # "open"
    BY <1>1 DEF Connect
  <1>2. CASE sock = "open" /\ net = "bound"
    <2>1. o \in {<<"up", 0>>, <<"bound", -1>>, <<"connecting", -1>>}
      BY <1>2, Zenon DEF Connect
    <2> QED
      BY <1>2, <2>1
  <1>3. CASE sock = "open" /\ net \in {"up", "fin"} /\ ~told
    BY <1>3 DEF Connect
  <1>4. CASE sock = "open" /\ net \in {"refused", "broken"} /\ ~told
    BY <1>4 DEF Connect
  <1>5. CASE /\ sock = "open" /\ net # "bound"
             /\ told \/ net \notin {"up", "fin", "refused", "broken"}
    BY <1>5 DEF Connect
  <1> QED
    BY <1>1, <1>2, <1>3, <1>4, <1>5

\* A connect() that returns 0 does so once.
LEMMA ConnectTcpInv ==
  ASSUME IInv, ConnectTcp
  PROVE  IInv'
  <1> USE EndpointAssumption DEF commh, os, far, user, hist, At, Goto, Callers
  <1>1. PICK o \in Connect :
            /\ net' = o[1]
            /\ told' = (told \/ o[2] = 0)
            /\ inbox' = IF o[1] = "bound" THEN 0 ELSE inbox
            /\ IF o[2] = 0 THEN pc' = [pc EXCEPT !["user"] = "count"] /\ UNCHANGED <<err, ret>>
                       ELSE Fails("user", "CONNECT")
    BY DEF ConnectTcp
  <1>2. pc["user"] = "connect" /\ tcp
    BY DEF ConnectTcp
  <1>3. UNCHANGED <<prog, commh, thread, nonblock, remote, left, sent, proc, who, op, calls, hist>>
    BY DEF ConnectTcp
  <1>4. Flags'
    BY <1>1, <1>3, ConnectOutcomes, Zenon DEF IInv, Flags, Fails, Return
  <1> USE DEF Others, Fields, Fresh, Connecting, Linked, WholeAddress, Ending, Named,
     KilledOnlyWithoutRemote, SendsToWholeAddress, Labels
  <1>5. CASE o[2] = 0
    <2>1. pc' = [pc EXCEPT !["user"] = "count"] /\ UNCHANGED <<err, ret>>
      BY <1>1, <1>5
    <2>2. told' /\ ~told
      BY <1>1, <1>5, ConnectOutcomes DEF IInv, Others, Linked
    <2> QED
      BY <1>1, <1>2, <1>3, <1>4, <1>5, <2>1, <2>2, ConnectOutcomes DEF IInv
  <1>6. CASE o[2] # 0
    <2>1. told' = told
      BY <1>1, <1>6, Zenon DEF IInv, Flags
    <2>2. pc' = [pc EXCEPT !["user"] = "idle"] /\ err' = "CONNECT"
      BY <1>1, <1>6, Zenon DEF Fails, Return
    <2> QED
      BY <1>1, <1>2, <1>3, <1>4, <2>1, <2>2, ConnectOutcomes DEF IInv
  <1> QED
    BY <1>5, <1>6

\* The initialisation creates the threads.
LEMMA ThreadsInv ==
  ASSUME IInv, NEW fail \in {"none", "listener", "accepter"}, InitThreads(fail)
  PROVE  IInv'
  <1> USE EndpointAssumption DEF commh, os, far, user, hist, At, Goto, Callers
  <1>1. Flags'
    BY Zenon DEF IInv, Flags, InitThreads, Runs
  <1>2. pc["user"] = "start" /\ pc'["user"] = "idle" /\ (~tcp' => count' = 0) /\ count' \in {0, 1}
    BY DEF InitThreads, IInv, Others, Fields, Fresh, Connecting, Linked, WholeAddress, Ending,
       Named, KilledOnlyWithoutRemote, SendsToWholeAddress, Labels, Kinds
  <1>3. WholeAddress'
    BY <1>2 DEF WholeAddress
  <1> QED
    BY <1>1, <1>3 DEF IInv, Others, Fields, Fresh, Connecting, Linked, Ending, Named,
       KilledOnlyWithoutRemote, SendsToWholeAddress, Labels, InitThreads, Runs

\* CommsPrintError and CommsExit.
LEMMA PrintErrorInv ==
  ASSUME IInv, PrintError
  PROVE  IInv'
  <1> USE EndpointAssumption DEF commh, os, far, user, hist, At, Goto, Callers
  <1>1. Flags'
    BY Zenon DEF IInv, Flags, PrintError, Return, Ends
  <1>2. \/ pc' = pc /\ ret' = ret /\ proc' \in {"exited", "aborted"}
        \/ pc' = [pc EXCEPT !["user"] = "idle"] /\ proc' = proc
    BY Zenon DEF PrintError, Return, Ends
  <1>3. UNCHANGED <<prog, commh, err, thread, os, far, who, op, calls, hist>> /\ pc["user"] = "print"
    BY DEF PrintError
  <1> QED
    BY <1>1, <1>2, <1>3 DEF IInv, Others, Fields, Fresh, Connecting, Linked, WholeAddress, Ending,
       Named, KilledOnlyWithoutRemote, SendsToWholeAddress, Labels

\* The callback begins.
LEMMA CallbackInv ==
  ASSUME IInv, ListenerCallback
  PROVE  IInv'
  <1> USE EndpointAssumption DEF commh, os, far, user, hist, At, Goto, Callers
  <1>0. closing' \in BOOLEAN
    BY DEF ListenerCallback
  <1>1. Flags'
    BY <1>0, Zenon DEF IInv, Flags, ListenerCallback
  <1>2. ~closing' => ~closing /\ prog.cb # "close"
    BY Zenon DEF ListenerCallback
  <1>3. /\ pc["listener"] = "address" /\ \E label \in {"send", "check", "while"} :
               pc' = [pc EXCEPT !["listener"] = label] /\ (label = "check" => prog.cb = "close")
        /\ UNCHANGED <<prog, commh, err, thread, os, far, proc, user, connected, dest>>
    BY DEF ListenerCallback
  <1> QED
    BY <1>1, <1>2, <1>3 DEF IInv, Others, Fields, Fresh, Connecting, Linked, WholeAddress, Ending,
       Named, KilledOnlyWithoutRemote, SendsToWholeAddress, Labels

\* The user's program makes a call.
LEMMA CallInv ==
  ASSUME IInv, NEW call, NEW label,
         \/ call \in {"connect", "send", "print", "disconnect"} /\ label = call
         \/ call = "exit" /\ label = "print"
         \/ call = "close" /\ label = "check",
         Call(call, label)
  PROVE  IInv'
  <1> USE EndpointAssumption DEF commh, os, far, user, hist, At, Goto, Callers
  <1>1. closing' \in BOOLEAN
    BY DEF Call
  <1>2. Flags'
    BY <1>1, Zenon DEF IInv, Flags, Call
  <1>3. ~closing' => call # "close" /\ ~closing
    BY Zenon DEF Call
  <1>4. /\ pc["user"] = "idle" /\ op' = call /\ pc' = [pc EXCEPT !["user"] = label]
        /\ UNCHANGED <<prog, commh, err, thread, os, far, proc, who, ret, connected, dest>>
        /\ calls' = calls \/ (calls < MaxCalls /\ calls' = calls + 1)
        /\ call = "connect" => prog.kind # "server"
    BY DEF Call, Again, Sensible
  <1> QED
    BY <1>2, <1>3, <1>4 DEF IInv, Others, Fields, Fresh, Connecting, Linked, WholeAddress, Ending,
       Named, KilledOnlyWithoutRemote, SendsToWholeAddress, Labels

\* Every step of the process, the remote and the network.
LEMMA StepInv == IInv /\ [Next]_vars => IInv'
  <1> SUFFICES ASSUME IInv, [Next]_vars PROVE IInv'
    OBVIOUS
  <1> USE DEF Callers
  <1>1. CASE Decide
    BY <1>1, CallInv DEF Decide
  <1>2. CASE UserStep
    <2>1. CASE InitStep
      BY <2>1, InitFailsInv, ThreadsInv DEF InitStep
    <2>2. CASE ConnectStep
      BY <2>2, ConnectTcpInv, StoresInv DEF ConnectStep
    <2>3. CASE SendStep("user")
      BY <2>3, SendTcpInv, SendUdpInv DEF SendStep
    <2>4. CASE CloseStep("user")
      BY <2>4, CloseInv, JoinInv DEF CloseStep
    <2>5. CASE SendAll \/ DisconnectRefused \/ MainReturns
      BY <2>5, RefusedInv
    <2>6. CASE PrintError
      BY <2>6, PrintErrorInv
    <2>7. CASE Call("connect", "connect") \/ Call("exit", "print")
      BY <2>7, CallInv
    <2> QED
      BY <1>2, <2>1, <2>2, <2>3, <2>4, <2>5, <2>6, <2>7 DEF UserStep
  <1>3. CASE Listener
    <2>1. CASE SendStep("listener")
      BY <2>1, SendTcpInv, SendUdpInv DEF SendStep
    <2>2. CASE CloseStep("listener")
      BY <2>2, CloseInv, JoinInv DEF CloseStep
    <2>3. CASE ListenerCallback
      BY <2>3, CallbackInv
    <2> QED
      BY <1>3, <2>1, <2>2, <2>3, ListenerInv DEF Listener
  <1>4. CASE AccepterEnds
    BY <1>4, ListenerInv
  <1>5. CASE RemoteListens \/ Answer \/ RemoteSends \/ RemoteLeaves
    BY <1>5, RemoteInv
  <1>6. CASE UNCHANGED vars
    BY <1>6 DEF IInv, Flags, Others, Fields, Fresh, Connecting, Linked, WholeAddress, Ending,
       Named, KilledOnlyWithoutRemote, SendsToWholeAddress, Labels, vars, commh, os, far, user,
       hist
  <1> QED
    BY <1>1, <1>2, <1>3, <1>4, <1>5, <1>6 DEF Next

(***************************************************************************)
(* The invariant holds of every execution: what each store of CommsConnect *)
(* and CommsClose relies on survives the other thread's steps between them *)
(* (eth_comms.h:270-355).                                                  *)
(***************************************************************************)
THEOREM Invariant == Spec => []IInv
  BY InitInv, StepInv, PTL DEF Spec

(***************************************************************************)
(* Type correctness: the fields of the context stay what the code stores   *)
(* in them; the count is never above one, since a client connects once,    *)
(* whatever is called (eth_comms.h:337-352).                               *)
(***************************************************************************)
THEOREM TypeCorrect == Spec => []TypeOK
  <1>1. IInv => TypeOK
    BY DEF IInv, Others, TypeOK
  <1> QED
    BY Invariant, <1>1, PTL

(***************************************************************************)
(* No datagram goes to half an address, whatever the user calls and the    *)
(* callback answers while CommsConnect stores it (eth_comms.h:348-352,     *)
(* 454-473).                                                               *)
(***************************************************************************)
THEOREM SendsToWholeAddressHolds == Spec => []SendsToWholeAddress
  <1>1. IInv => SendsToWholeAddress
    BY DEF IInv, Others
  <1> QED
    BY Invariant, <1>1, PTL

(***************************************************************************)
(* Once CommsConnect has returned true only a remote that leaves lets a    *)
(* send end the process, however often connect was tried and whatever it   *)
(* answered (eth_comms.h:337-343, 442).                                    *)
(***************************************************************************)
THEOREM KilledOnlyWithoutRemoteHolds == Spec => []KilledOnlyWithoutRemote
  <1>1. IInv => KilledOnlyWithoutRemote
    BY DEF IInv, Others, KilledOnlyWithoutRemote
  <1> QED
    BY Invariant, <1>1, PTL

(***************************************************************************)
(* A CommsClose that returns true to the user has closed a connected       *)
(* socket and no callback runs after it, also when the callback closes     *)
(* meanwhile (eth_comms.h:276-302).                                        *)
(***************************************************************************)
THEOREM CloseEndsHolds == Spec => []CloseEnds
  <1>1. IInv => CloseEnds
    BY DEF IInv, Others, Ending, CloseEnds, At
  <1> QED
    BY Invariant, <1>1, PTL

\* Only ListenerCallback takes the listener on from the address.
LEMMA OnlyCallback ==
  ASSUME IInv, [Next]_vars, At("listener", "address"), pc'["listener"] # "address"
  PROVE  ListenerCallback
  <1> USE DEF At, Goto, Callers
  <1>1. pc \in [{"user", "listener", "accepter"} -> Labels] /\ pc["user"] # "start"
    BY DEF IInv, Others, Fields, Fresh
  <1>2. ASSUME NEW label,
               \/ pc' = [pc EXCEPT !["user"] = label] \/ pc' = pc
               \/ pc' = [pc EXCEPT !["accepter"] = label]
        PROVE  FALSE
    BY <1>1, <1>2
  <1>3. ~Decide
    BY <1>2 DEF Decide, Call
  <1>4. ASSUME UserStep PROVE FALSE
    <2>1. ~InitStep
      BY <1>1 DEF InitStep, InitNoSocket, InitNoBind, InitNoListen, InitThreads
    <2>2. ASSUME ConnectStep PROVE FALSE
      <3>1. ~ConnectTcp
        <4>1. ASSUME ConnectTcp PROVE \E label : pc' = [pc EXCEPT !["user"] = label]
          BY <4>1, Zenon DEF ConnectTcp, Fails, Return
        <4> QED
          BY <1>2, <4>1
      <3> QED
        BY <1>2, <2>2, <3>1 DEF ConnectStep, ConnectUdp, ConnectCount, ConnectIp, ConnectPort,
           ConnectHas, Return
    <2>3. ASSUME SendStep("user") PROVE FALSE
      <3>1. pc' = pc \/ pc' = [pc EXCEPT !["user"] = "idle"]
        BY <2>3, Zenon DEF SendStep, SendTcp, SendUdp, Fails, Return, Ends
      <3> QED
        BY <1>2, <3>1
    <2>4. ASSUME CloseStep("user") PROVE FALSE
      <3>1. pc' = pc \/ \E label : pc' = [pc EXCEPT !["user"] = label]
        BY <2>4, Zenon DEF CloseStep, CloseSocket, CloseMark, CloseStop, CloseJoin, Fails, Return,
           Ends
      <3> QED
        BY <1>2, <3>1
    <2>5. ASSUME SendAll \/ PrintError \/ DisconnectRefused \/ MainReturns PROVE FALSE
      <3>1. pc' = pc \/ pc' = [pc EXCEPT !["user"] = "idle"]
        BY <2>5, Zenon DEF SendAll, PrintError, DisconnectRefused, MainReturns, Fails, Return, Ends
      <3> QED
        BY <1>2, <3>1
    <2>6. ~Call("connect", "connect") /\ ~Call("exit", "print")
      BY <1>2 DEF Call
    <2> QED
      BY <1>4, <2>1, <2>2, <2>3, <2>4, <2>5, <2>6 DEF UserStep
  <1>5. ASSUME Listener PROVE ListenerCallback
    BY <1>5 DEF Listener, ListenerBegin, ListenerWhile, ListenerReceive, ListenerNoData,
       ListenerError,
                SendStep, SendTcp, SendUdp, CloseStep, CloseSocket, CloseMark, CloseStop, CloseJoin
  <1>6. ~AccepterEnds
    BY <1>2 DEF AccepterEnds
  <1>7. ~(RemoteListens \/ Answer \/ RemoteSends \/ RemoteLeaves)
    BY <1>2 DEF RemoteListens, Answer, RemoteSends, RemoteLeaves
  <1>8. ~UNCHANGED vars
    BY <1>2 DEF vars
  <1> QED
    BY <1>3, <1>4, <1>5, <1>6, <1>7, <1>8 DEF Next

(***************************************************************************)
(* A callback that runs between a CommsConnect that returned true and the  *)
(* first CommsClose is told the remote, whatever the other thread is doing *)
(* (eth_comms.h:345-349, 557-564).                                         *)
(***************************************************************************)
THEOREM CallbackNamesRemoteHolds == Spec => CallbackNamesRemote
  <1>1. ASSUME IInv, [Next]_vars,
               At("listener", "address"), pc'["listener"] # "address", connected, ~closing
        PROVE  who' = "remote"
    <2>1. ListenerCallback
      BY <1>1, OnlyCallback
    <2>2. tcp => ip = "remote"
      BY <1>1, Zenon DEF IInv, Others, Named
    <2> QED
      BY <2>1, <2>2 DEF ListenerCallback
  <1>2. IInv /\ [Next]_vars =>
          [At("listener", "address") /\ pc'["listener"] # "address" /\ connected /\ ~closing
             => who' = "remote"]_vars
    BY <1>1
  <1> QED
    BY Invariant, <1>2, PTL DEF Spec, CallbackNamesRemote
=============================================================================
