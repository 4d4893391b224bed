--------------------------- MODULE CommsEndpoint ---------------------------
(***************************************************************************)
(* The other half of include/eth_comms.h: setting up a UDP endpoint, a TCP *)
(* client or a TCP server, with every way that can fail; CommsConnect,     *)
(* CommsSend, CommsClose and CommsPrintError of a UDP endpoint and of a    *)
(* TCP client; and their listener thread, whose callback may call back     *)
(* into the library.  The user's thread runs comms_main.c, or makes any    *)
(* calls.  What a server does once it is set up is in CommsServer.         *)
(*                                                                         *)
(* Grain: one step per system call and per store of CommsConnect, since    *)
(* the callback of the listener reads the same fields.  Only slot 0 of the *)
(* tables is used.                                                         *)
(***************************************************************************)
EXTENDS Integers

CONSTANTS
    Programs,  \* what the process is: its kind of endpoint, its callback, main or not
    MaxCalls,  \* calls of a program that is not main (bound)
    MaxMsg     \* messages the remote sends (bound)

Kinds     == {"udp", "client", "server"}
Callbacks == {"none", "quiet", "send", "close"}   \* what the callback calls
ASSUME EndpointAssumption ==
    /\ Programs \subseteq [kind : Kinds, cb : Callbacks, main : BOOLEAN]
    /\ MaxCalls \in Nat /\ MaxMsg \in Nat

VARIABLES
    prog,      \* the program
    tcp, server, sock, ip, port, count, running, err,   \* of commh, slot 0
    thread,    \* what commh->listener and commh->accepter are: never created,
               \* created, or joined
    net,       \* the socket, for the operating system
    nonblock,  \* O_NONBLOCK
    told,      \* connect() has returned 0
    remote,    \* the remote listens, or it is UDP
    left,      \* the remote has left a connection
    inbox, sent,
    proc,      \* how the process is
    pc,        \* where each thread is
    who,       \* the remote the callback is told
    op, ret,   \* the user's last call and what it returned
    calls,
    connected, \* (history) CommsConnect has returned true
    closing,   \* (history) CommsClose has been called
    dest       \* (history) where the last datagram went

commh == <<tcp, server, sock, ip, port, count, running>>
os    == <<net, nonblock, told>>
far   == <<remote, left, inbox, sent>>
user  == <<op, ret, calls>>
hist  == <<connected, closing, dest>>
vars  == <<prog, commh, err, thread, os, far, proc, pc, who, user, hist>>

Callers == {"user", "listener"}
At(t, label)   == proc = "alive" /\ pc[t] = label
Goto(t, label) == pc' = [pc EXCEPT ![t] = label]

\* Static storage: the context is zero.
Init ==
    /\ prog \in Programs
    /\ tcp = FALSE /\ server = FALSE /\ sock = "zero" /\ ip = "zero" /\ port = "zero"
    /\ count = 0 /\ running = FALSE /\ err = "NOERROR"
    /\ thread = [listener |-> "none", accepter |-> "none"]
    /\ net = "none" /\ nonblock = FALSE /\ told = FALSE
    /\ remote \in BOOLEAN /\ left = FALSE /\ inbox = 0 /\ sent = 0
    /\ proc = "alive" /\ pc = [user |-> "start", listener |-> "none", accepter |-> "none"]
    /\ who = "nobody"
    /\ op = "init" /\ ret = TRUE /\ calls = 0 /\ connected = FALSE /\ closing = FALSE
    /\ dest = <<"none", "none">>

----------------------------------------------------------------------------
(* Returning from a call *)

\* A call made by the user, or by the callback, which then returns as well.
Return(t, result) ==
    /\ Goto(t, IF t = "user" THEN "idle" ELSE "while")
    /\ ret' = IF t = "user" THEN result ELSE ret

Fails(t, code) == err' = code /\ Return(t, FALSE)

\* The process ends, and with it its threads.
Ends(how) == proc' = how /\ UNCHANGED <<pc, ret>>

----------------------------------------------------------------------------
(* comms_udp_init__opt, comms_tcpclient_init__opt, comms_tcpserver_init__opt *)

InitNoSocket ==
    /\ At("user", "start")
    /\ Fails("user", "SOCKET")
    /\ UNCHANGED <<prog, commh, thread, os, far, proc, who, op, calls, hist>>

\* The socket stays open without a name for it; of TCP, CommsClose is called.
InitNoBind ==
    /\ At("user", "start")
    /\ sock' = "minus" /\ err' = "BIND" /\ ret' = FALSE
    /\ Goto("user", IF prog.kind = "udp" THEN "idle" ELSE "check")
    /\ UNCHANGED <<prog, tcp, server, ip, port, count, running, thread, os, far, proc, who, op, calls, hist>>

InitNoListen ==
    /\ At("user", "start") /\ prog.kind = "server"
    /\ sock' = "open" /\ net' = "bound" /\ err' = "LISTEN" /\ ret' = FALSE
    /\ Goto("user", "check")
    /\ UNCHANGED <<prog, tcp, server, ip, port, count, running, thread, nonblock, told, far, proc, who,
                   op, calls, hist>>

\* Faulty variant: a thread that was created is not told that the other was not.
Runs_NotTold(fail) == prog.cb # "none"

\* Whether commh->running is left true.
Runs(fail) == prog.cb # "none" /\ fail = "none"

\* Without a callback there are no threads.
InitThreads(fail) ==
    /\ At("user", "start") /\ (fail # "none" => prog.cb # "none")
    /\ fail = "accepter" => prog.kind = "server"
    /\ sock' = "open" /\ net' = "bound"
    /\ tcp' = (prog.kind # "udp") /\ server' = (prog.kind = "server")
    /\ count' = IF prog.kind = "server" THEN 1 ELSE 0
    /\ running' = Runs(fail)
    /\ LET starts(t) == prog.cb # "none" /\ fail \notin {t, "listener"} IN
       /\ thread' = [listener |-> IF starts("listener") THEN "created" ELSE "none",
                     accepter |-> IF starts("accepter") /\ prog.kind = "server" THEN "created" ELSE "none"]
       /\ pc' = [user |-> "idle", listener |-> IF starts("listener") THEN "begin" ELSE "none",
                 accepter |-> IF starts("accepter") /\ prog.kind = "server" THEN "while" ELSE "none"]
    /\ ret' = (fail = "none")
    /\ err' = IF fail = "none" THEN err ELSE IF fail = "listener" THEN "CREATE_LISTENER" ELSE "CREATE_ACCEPTER"
    /\ UNCHANGED <<prog, ip, port, nonblock, told, far, proc, who, op, calls, hist>>

----------------------------------------------------------------------------
(* The user's program: main of comms_main.c, or any calls *)

\* What main calls next: it ignores what the initialisation returned.
Again(call) ==
    CASE call = "connect" -> prog.kind # "server" /\ (op = "init" \/ (op = "connect" /\ ~ret /\ prog.kind = "client"))
      [] call = "send"    -> prog.kind # "server" /\ ((op = "connect" /\ (ret \/ prog.kind = "udp")) \/ (op = "send" /\ ret))
      [] call = "exit"    -> op = "send" /\ ~ret
      [] call = "close"   -> (op = "send" /\ ret) \/ (op = "init" /\ prog.kind = "server")
      [] OTHER -> FALSE

\* Any calls that make sense for the kind; a server is only closed here.
Sensible(call) == call \in {"close", "print"} \/ prog.kind # "server"

Call(call, label) ==
    /\ At("user", "idle")
    /\ IF prog.main THEN Again(call) /\ UNCHANGED calls
       ELSE Sensible(call) /\ calls < MaxCalls /\ calls' = calls + 1
    /\ op' = call /\ Goto("user", label)
    /\ closing' = (closing \/ call = "close")
    /\ UNCHANGED <<prog, commh, err, thread, os, far, proc, who, ret, connected, dest>>

\* main returns when CommsClose has.
MainReturns ==
    /\ At("user", "idle") /\ prog.main /\ op = "close"
    /\ Ends("exited")
    /\ UNCHANGED <<prog, commh, err, thread, os, far, who, op, calls, hist>>

----------------------------------------------------------------------------
(* CommsConnect *)

\* Faulty variant: its result is not looked at.
Connect_AnyResult ==
    IF sock # "open" THEN {<<net, -1>>}
    ELSE IF net = "bound" THEN {<<IF remote THEN "up" ELSE "bound", 0>>, <<"connecting", 0>>}
    ELSE {<<net, 0>>}

\* connect() of a TCP client: what becomes of the socket, and what it returns.
\* On a non-blocking socket it may answer at once, or later; one that failed is
\* put back, and what it had received is lost.
Connect ==
    IF sock # "open" THEN {<<net, -1>>}
    ELSE CASE net = "bound" -> {IF remote THEN <<"up", 0>> ELSE <<"bound", -1>>}
                               \cup IF nonblock THEN {<<"connecting", -1>>} ELSE {}
           [] net \in {"up", "fin"} /\ ~told         -> {<<net, 0>>}
           [] net \in {"refused", "broken"} /\ ~told -> {<<"bound", -1>>}
           [] OTHER -> {<<net, -1>>}

\* Faulty variant: gives the socket up when the remote does not answer.
ConnectTcp_GivesUp ==
    /\ At("user", "connect") /\ tcp
    /\ \E outcome \in Connect :
          /\ net' = outcome[1]
          /\ told' = (told \/ outcome[2] = 0)
          /\ inbox' = IF outcome[1] = "bound" THEN 0 ELSE inbox
          /\ sock' = IF outcome[2] = 0 THEN sock ELSE "minus"
          /\ IF outcome[2] = 0 THEN Goto("user", "count") /\ UNCHANGED <<err, ret>>
                           ELSE Fails("user", "CONNECT")
    /\ UNCHANGED <<prog, tcp, server, ip, port, count, running, thread, nonblock, remote, left, sent, proc, who, op, calls, hist>>

ConnectTcp ==
    /\ At("user", "connect") /\ tcp
    /\ \E outcome \in Connect :
          /\ net' = outcome[1]
          /\ told' = (told \/ outcome[2] = 0)
          /\ inbox' = IF outcome[1] = "bound" THEN 0 ELSE inbox
          /\ IF outcome[2] = 0 THEN Goto("user", "count") /\ UNCHANGED <<err, ret>>
                           ELSE Fails("user", "CONNECT")
    /\ UNCHANGED <<prog, commh, thread, nonblock, remote, left, sent, proc, who, op, calls, hist>>

\* Also of a TCP client whose initialisation failed: tcp is still false.
ConnectUdp ==
    /\ At("user", "connect") /\ ~tcp
    /\ Goto("user", "ip")
    /\ UNCHANGED <<prog, commh, err, thread, os, far, proc, who, user, hist>>

ConnectCount ==
    /\ At("user", "count")
    /\ count' = count + 1
    /\ Goto("user", "ip")
    /\ UNCHANGED <<prog, tcp, server, sock, ip, port, running, err, thread, os, far, proc, who, user, hist>>

\* Faulty variant: only a UDP endpoint is thought to need the address.
ConnectIp_Udp ==
    /\ At("user", "ip")
    /\ ip' = IF tcp THEN ip ELSE "remote"
    /\ Goto("user", "port")
    /\ UNCHANGED <<prog, tcp, server, sock, port, count, running, err, thread, os, far, proc, who, user, hist>>

\* Faulty variant: says that there is a remote before it says which.
ConnectIp_CountFirst ==
    /\ At("user", "ip")
    /\ count' = 1 /\ ip' = "remote"
    /\ Goto("user", "port")
    /\ UNCHANGED <<prog, tcp, server, sock, port, running, err, thread, os, far, proc, who, user, hist>>

ConnectIp ==
    /\ At("user", "ip")
    /\ ip' = "remote"
    /\ Goto("user", "port")
    /\ UNCHANGED <<prog, tcp, server, sock, port, count, running, err, thread, os, far, proc, who, user, hist>>

ConnectPort ==
    /\ At("user", "port")
    /\ port' = "remote"
    /\ Goto("user", "has")
    /\ UNCHANGED <<prog, tcp, server, sock, ip, count, running, err, thread, os, far, proc, who, user, hist>>

ConnectHas ==
    /\ At("user", "has")
    /\ count' = IF count = 0 THEN 1 ELSE count
    /\ connected' = TRUE
    /\ Return("user", TRUE)
    /\ UNCHANGED <<prog, tcp, server, sock, ip, port, running, err, thread, os, far, proc, who, op, calls, closing, dest>>

----------------------------------------------------------------------------
(* comms_send__opt *)

\* send() of a TCP client: it works, fails, or ends the process with SIGPIPE;
\* what a remote that has left gets makes it reset the connection.
SendTcp(t) ==
    /\ At(t, "send") /\ tcp
    /\ \/ /\ sock = "open" /\ net \in {"up", "fin"}
          /\ net' \in IF net = "fin" THEN {"fin", "broken"} ELSE {"up"}
          /\ Return(t, TRUE)
          /\ UNCHANGED <<err, proc>>
       \/ /\ sock # "open" \/ net \in {"up", "connecting", "refused", "broken", "closed"}
          /\ Fails(t, IF sock = "minus" THEN "NO_REMOTE" ELSE "FAILED_TO_SEND")
          /\ UNCHANGED <<net, proc>>
       \/ /\ sock = "open" /\ net \in {"bound", "refused", "broken"}
          /\ Ends("killed")
          /\ UNCHANGED <<net, err>>
    /\ UNCHANGED <<prog, commh, thread, nonblock, told, far, who, op, calls, hist>>

\* COMMS_SEND_TO_ALL_CLIENTS is not for a client.
SendAll ==
    /\ At("user", "send") /\ tcp /\ ~prog.main
    /\ Fails("user", "FAILED_TO_SEND")
    /\ UNCHANGED <<prog, commh, thread, os, far, proc, who, op, calls, hist>>

\* The address as the options leave it: with a remote, only the port is taken
\* if both are given.
Addressed(opt) ==
    IF count = 0 THEN [ip |-> opt.ip, port |-> opt.port]
    ELSE IF opt.port # "zero" THEN [ip |-> ip, port |-> opt.port]
    ELSE IF opt.ip # "zero" THEN [ip |-> opt.ip, port |-> port]
    ELSE [ip |-> ip, port |-> port]

\* The user may give another remote's address; main and the callback give none.
Options(t) ==
    [ip : {"zero"} \cup IF t = "user" /\ ~prog.main THEN {"other"} ELSE {},
     port : {"zero"} \cup IF t = "user" /\ ~prog.main THEN {"other"} ELSE {}]

\* Also of a TCP client whose initialisation failed.
SendUdp(t, opt) ==
    /\ At(t, "send") /\ ~tcp
    /\ IF (opt.ip = "zero" \/ opt.port = "zero") /\ count = 0
         THEN Fails(t, "NO_REMOTE") /\ UNCHANGED <<ip, port, dest>>
         ELSE /\ ip' = Addressed(opt).ip /\ port' = Addressed(opt).port
              /\ \/ /\ sock = "open" /\ net = "bound"
                    /\ dest' = <<ip', port'>>
                    /\ Return(t, TRUE) /\ UNCHANGED err
                 \/ Fails(t, "FAILED_TO_SEND") /\ UNCHANGED dest
    /\ UNCHANGED <<prog, tcp, server, sock, count, running, thread, os, far, proc, who, op, calls,
                   connected, closing>>

----------------------------------------------------------------------------
(* CommsClose, called by the user, by the initialisation or by the callback *)

CloseSocket(t) ==
    /\ At(t, "check")
    /\ IF count > 0 /\ sock = "open"
         THEN net' = "closed" /\ Goto(t, "mark")
         ELSE Goto(t, "stop") /\ UNCHANGED net
    /\ UNCHANGED <<prog, commh, err, thread, nonblock, told, far, proc, who, user, hist>>

CloseMark(t) ==
    /\ At(t, "mark")
    /\ sock' = "minus" /\ ip' = "zero" /\ port' = "zero"
    /\ Goto(t, "stop")
    /\ UNCHANGED <<prog, tcp, server, count, running, err, thread, os, far, proc, who, user, hist>>

CloseStop(t) ==
    /\ At(t, "stop")
    /\ running' = FALSE
    /\ Goto(t, "join")
    /\ UNCHANGED <<prog, tcp, server, sock, ip, port, count, err, thread, os, far, proc, who, user, hist>>

\* Faulty variant: only a thread that is still running is waited for.
CanJoin_AtOnce(t, target) == thread[target] = "created" /\ t # target

\* pthread_join returns 0 when the thread has ended; of itself it fails; of one
\* that was never created, or is joined already, anything may happen.
CanJoin(t, target) == thread[target] = "created" /\ pc[target] = "ended" /\ t # target
NoThread(target)   == thread[target] # "created"

\* The last thing CommsClose does is to wait for the listener, or the accepter.
CloseJoin(t, label, target) ==
    LET last == target = "accepter" \/ ~server IN
    /\ At(t, label)
    /\ \/ /\ CanJoin(t, target)
          /\ thread' = [thread EXCEPT ![target] = "joined"]
          /\ IF last THEN Return(t, op = "close") ELSE Goto(t, "join2") /\ UNCHANGED ret
          /\ UNCHANGED <<err, proc>>
       \/ /\ t = target \/ NoThread(target)
          /\ Fails(t, "CLOSE_COMMS")
          /\ UNCHANGED <<thread, proc>>
       \/ /\ NoThread(target)
          /\ Ends("crashed")
          /\ UNCHANGED <<thread, err>>
    /\ UNCHANGED <<prog, commh, os, far, who, op, calls, hist>>

----------------------------------------------------------------------------
(* CommsPrintError, CommsExit, and CommsDisconnect, which is for servers *)

\* The codes its switch does not list.
Unlisted == {"CREATE_ACCEPTER", "DISCONNECT"}

PrintError ==
    /\ At("user", "print")
    /\ IF err \in Unlisted THEN Ends("aborted")
       ELSE IF op = "exit" THEN Ends("exited")
       ELSE Return("user", TRUE) /\ UNCHANGED proc
    /\ UNCHANGED <<prog, commh, err, thread, os, far, who, op, calls, hist>>

DisconnectRefused ==
    /\ At("user", "disconnect")
    /\ Fails("user", "DISCONNECT")
    /\ UNCHANGED <<prog, commh, thread, os, far, proc, who, op, calls, hist>>

----------------------------------------------------------------------------
(* comms__listener of a client or a UDP endpoint; a server's threads only end *)

ListenerBegin ==
    /\ At("listener", "begin")
    /\ nonblock' = (nonblock \/ sock = "open")
    /\ Goto("listener", "while")
    /\ UNCHANGED <<prog, commh, err, thread, net, told, far, proc, who, user, hist>>

\* Without a socket it sleeps and looks again.
ListenerWhile ==
    /\ At("listener", "while")
    /\ \/ ~running /\ Goto("listener", "ended")
       \/ running /\ prog.kind # "server" /\ sock = "open" /\ Goto("listener", "recv")
    /\ UNCHANGED <<prog, commh, err, thread, os, far, proc, who, user, hist>>

AccepterEnds ==
    /\ At("accepter", "while") /\ ~running
    /\ Goto("accepter", "ended")
    /\ UNCHANGED <<prog, commh, err, thread, os, far, proc, who, user, hist>>

\* recv() or recvfrom() finds a message.
CanReceive == net \in {"up", "fin", "broken"} \cup (IF prog.kind = "udp" THEN {"bound"} ELSE {})
ListenerReceive ==
    /\ At("listener", "recv") /\ inbox > 0 /\ CanReceive
    /\ inbox' = inbox - 1
    /\ Goto("listener", "address")
    /\ UNCHANGED <<prog, commh, err, thread, os, remote, left, sent, proc, who, user, hist>>

\* Nothing yet: EAGAIN, or EINTR.
NoData == inbox = 0 /\ net \in {"up", "connecting"} \cup (IF prog.kind = "udp" THEN {"bound"} ELSE {})
ListenerNoData ==
    /\ At("listener", "recv") /\ NoData
    /\ Goto("listener", "while")
    /\ UNCHANGED <<prog, commh, err, thread, os, far, proc, who, user, hist>>

\* Faulty variant: an error ends the thread.
ListenerError_Ends ==
    /\ At("listener", "recv") /\ ~NoData /\ (inbox = 0 \/ ~CanReceive)
    /\ err' = IF tcp THEN "DISCONNECT" ELSE err
    /\ Goto("listener", "ended")
    /\ UNCHANGED <<prog, commh, thread, os, far, proc, who, user, hist>>

\* The end of the stream, or an error, as of a client that is not connected:
\* CommsDisconnect refuses, and the loop goes on.
ListenerError ==
    /\ At("listener", "recv") /\ ~NoData /\ (inbox = 0 \/ ~CanReceive)
    /\ err' = IF tcp THEN "DISCONNECT" ELSE err
    /\ Goto("listener", "while")
    /\ UNCHANGED <<prog, commh, thread, os, far, proc, who, user, hist>>

\* The callback of a client is told the address in the table.
ListenerCallback ==
    /\ At("listener", "address")
    /\ who' = IF tcp THEN ip ELSE "remote"
    /\ Goto("listener", CASE prog.cb = "send" -> "send" [] prog.cb = "close" -> "check" [] OTHER -> "while")
    /\ closing' = (closing \/ prog.cb = "close")
    /\ UNCHANGED <<prog, commh, err, thread, os, far, proc, user, connected, dest>>

----------------------------------------------------------------------------
(* The remote and the network *)

RemoteListens ==
    /\ proc = "alive" /\ ~remote /\ remote' = TRUE
    /\ UNCHANGED <<prog, commh, err, thread, os, left, inbox, sent, proc, pc, who, user, hist>>

Answer ==
    /\ proc = "alive" /\ net = "connecting"
    /\ net' = IF remote THEN "up" ELSE "refused"
    /\ UNCHANGED <<prog, commh, err, thread, nonblock, told, far, proc, pc, who, user, hist>>

RemoteSends ==
    /\ proc = "alive" /\ net \in {"up"} \cup (IF prog.kind = "udp" THEN {"bound"} ELSE {}) /\ sent < MaxMsg
    /\ sent' = sent + 1 /\ inbox' = inbox + 1
    /\ UNCHANGED <<prog, commh, err, thread, os, remote, left, proc, pc, who, user, hist>>

\* It closes, or resets the connection and what it sent may be lost.
RemoteLeaves ==
    /\ proc = "alive" /\ net = "up" /\ ~left /\ left' = TRUE
    /\ \/ net' = "fin" /\ UNCHANGED inbox
       \/ net' = "broken" /\ inbox' \in {0, inbox}
    /\ UNCHANGED <<prog, commh, err, thread, nonblock, told, remote, sent, proc, pc, who, user, hist>>

----------------------------------------------------------------------------
ConnectStep == ConnectTcp \/ ConnectUdp \/ ConnectCount \/ ConnectIp \/ ConnectPort \/ ConnectHas
SendStep(t) == SendTcp(t) \/ \E opt \in Options(t) : SendUdp(t, opt)
CloseStep(t) ==
    \/ CloseSocket(t) \/ CloseMark(t) \/ CloseStop(t)
    \/ CloseJoin(t, "join", "listener") \/ CloseJoin(t, "join2", "accepter")

InitStep ==
    \/ InitNoSocket \/ InitNoBind \/ InitNoListen
    \/ \E fail \in {"none", "listener", "accepter"} : InitThreads(fail)

\* What the user's program decides, and getc in main, may take for ever.
Decide ==
    \/ Call("send", "send") \/ Call("close", "check") \/ Call("print", "print")
    \/ Call("disconnect", "disconnect")

UserStep ==
    \/ InitStep \/ ConnectStep \/ SendStep("user") \/ SendAll \/ CloseStep("user")
    \/ PrintError \/ DisconnectRefused \/ MainReturns
    \/ Call("connect", "connect") \/ Call("exit", "print")

Listener ==
    \/ ListenerBegin \/ ListenerWhile \/ ListenerReceive \/ ListenerNoData \/ ListenerError
    \/ ListenerCallback \/ SendStep("listener") \/ CloseStep("listener")

Next ==
    \/ Decide \/ UserStep \/ Listener \/ AccepterEnds
    \/ RemoteListens \/ Answer \/ RemoteSends \/ RemoteLeaves

(***************************************************************************)
(* The threads take their steps: they are POSIX threads that sleep at most *)
(* a millisecond.  A connection attempt is answered: TCP gives up after a  *)
(* while.  What the remote does, and when a key is pressed, is open.       *)
(***************************************************************************)
Fairness == WF_vars(UserStep) /\ WF_vars(Listener) /\ WF_vars(AccepterEnds) /\ WF_vars(Answer)

Spec == Init /\ [][Next]_vars /\ Fairness

----------------------------------------------------------------------------
Labels == {"start", "none", "idle", "connect", "count", "ip", "port", "has", "send", "check", "mark",
           "stop", "join", "join2", "print", "disconnect", "begin", "while", "recv", "address", "ended"}

Flags == {tcp, server, running, nonblock, told, remote, left, ret, connected, closing} \subseteq BOOLEAN

Fields ==
    /\ prog \in Programs
    /\ sock \in {"zero", "open", "minus"} /\ {ip, port} \subseteq {"zero", "remote", "other"}
    /\ count \in {0, 1} /\ thread \in [{"listener", "accepter"} -> {"none", "created", "joined"}]
    /\ net \in {"none", "bound", "connecting", "refused", "up", "fin", "broken", "closed"}
    /\ net # "none" => sock # "zero"
    /\ inbox \in 0 .. sent /\ sent \in 0 .. MaxMsg /\ calls \in 0 .. MaxCalls
    /\ proc \in {"alive", "exited", "aborted", "killed", "crashed"}
    /\ pc \in [{"user", "listener", "accepter"} -> Labels]
    /\ err \in {"NOERROR", "SOCKET", "BIND", "LISTEN", "CREATE_LISTENER", "CREATE_ACCEPTER", "CONNECT",
                "FAILED_TO_SEND", "NO_REMOTE", "CLOSE_COMMS", "DISCONNECT"}

TypeOK == Flags /\ Fields

(***************************************************************************)
(* When CommsClose has returned true to the user no callback runs any      *)
(* more, and the socket of an endpoint that was given a remote is closed   *)
(* (eth_comms.h:276-295).  Without a remote it stays open.                 *)
(***************************************************************************)
CloseEnds ==
    At("user", "idle") /\ op = "close" /\ ret =>
        pc["listener"] = "ended" /\ (connected => net = "closed")

(***************************************************************************)
(* No datagram goes to half an address, also when the callback answers     *)
(* while CommsConnect is storing the address: the count that makes it      *)
(* valid is stored last (eth_comms.h:348-352, 454-473).                    *)
(***************************************************************************)
SendsToWholeAddress == "zero" \notin {dest[1], dest[2]}

(***************************************************************************)
(* A callback that runs after CommsConnect has returned true is told the   *)
(* remote, until CommsClose is called; before, a client's may be told no   *)
(* address (eth_comms.h:345-349, 557-564).                                 *)
(***************************************************************************)
CallbackNamesRemote ==
    [][At("listener", "address") /\ pc'["listener"] # "address" /\ connected /\ ~closing
          => who' = "remote"]_vars

(***************************************************************************)
(* SIGPIPE, which nothing in the library masks, ends the process only if   *)
(* it sends without a CommsConnect that returned true, or to a remote that *)
(* has left (eth_comms.h:338-343, 442).                                    *)
(***************************************************************************)
KilledOnlyWithoutRemote == proc = "killed" => ~connected \/ left

\* What the remote sends reaches the callback, also if the listener met errors
\* before there was a connection (eth_comms.h:543-610).
DataHeard == inbox > 0 /\ running ~> inbox = 0 \/ ~running \/ proc # "alive"

(***************************************************************************)
(* The loop of main around CommsConnect ends once the remote listens,      *)
(* whatever attempts have failed before; CommsClose returns or ends the    *)
(* process, also when the callback calls it meanwhile (comms_main.c:46-47, *)
(* eth_comms.h:288-302, 337-343).                                          *)
(***************************************************************************)
CallsReturn ==
    /\ prog.main /\ remote /\ At("user", "connect") ~> connected \/ proc # "alive"
    /\ At("user", "check") ~> At("user", "idle") \/ proc # "alive"

\* An initialisation that fails leaves no thread behind (eth_comms.h:824-840).
FailedInitStops ==
    At("user", "idle") /\ op = "init" /\ ~ret ~>
        proc # "alive" \/ \A t \in {"listener", "accepter"} : pc[t] \in {"none", "ended"}
=============================================================================
