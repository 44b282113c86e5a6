-------------------------------- MODULE Wawa --------------------------------
(***************************************************************************)
(* The whole system: the wawa server of Channels, camera clients that      *)
(* follow the main of src/src/raspi.cpp and viewers that follow the main   *)
(* of src/src/remote.cpp, each over a TCP connection of its own.  A step   *)
(* of the server takes one packet, or the end, of one connection.          *)
(*                                                                         *)
(* Sends are accepted whole, or fail where the peer has closed (PacketIO,  *)
(* Framing and Server have the partial ones).  The camera threads of a     *)
(* raspi are one: whether any runs, and what camera_status tells it        *)
(* (RaspiCamera has them apart).  Headers, which are sent with head.fd = 0 *)
(* and which the server drops, are left out.                               *)
(***************************************************************************)
EXTENDS Channels

CONSTANTS
    Viewer,  \* processes of remote.cpp
    Raspi,   \* processes of raspi.cpp
    StackFd, \* what head.fd of the choice, never assigned, may hold
    Choice,  \* what users may enter as the descriptor of a raspi
    AHEAD,   \* bound: frames a raspi is ahead of the server
    QUEUE,   \* bound: packets a client has not read
    STARTS   \* bound: processes of clients that are started

ASSUME QueueAssumption == QUEUE \in Nat \ {0}

ASSUME StartsAssumption == STARTS \in Nat

ASSUME AheadAssumption == AHEAD \in Nat \ {0}

ASSUME ChoiceAssumption == Choice \subseteq FD

ASSUME StackFdAssumption == StackFd \subseteq Int

\* remote.cpp and raspi.cpp are two programs.
ASSUME ClientAssumption == Viewer \cap Raspi = {}

Client == Viewer \cup Raspi

VARIABLES
    server,    \* a State of Channels
    link,      \* what the client and the kernels know of its connection
    conn,      \* the server's descriptor of it, NULL before accept()
    out,       \* packets on their way to the server
    box,       \* packets on their way to the client
    pc,        \* where each client is
    streaming, \* camera_status of a raspi is CAMERA_START
    camera,    \* does a camera thread run?
    remotefd,  \* where its frames go
    ignored,   \* ghost: viewers that asked for what the server does not answer
    broken,    \* ghost: did a connection end for the server by an error?
    starts     \* processes started so far

net == <<link, conn, out, box>>
raspi == <<streaming, camera, remotefd>>
ghost == <<ignored, broken>>
vars == <<server, net, pc, raspi, ghost, starts>>

(***************************************************************************)
(* "up": also while it waits for accept().  "closed": the client closed it *)
(* and the server will read the end of the stream.  "dead": and it has     *)
(* been sent to since, so that the next send may fail.  "reset": it was    *)
(* closed with packets unread, and the server will read an error.  "cut":  *)
(* the server closed it and the client will read the end.                  *)
(***************************************************************************)
Link == {"none", "up", "closed", "dead", "reset", "cut"}

Left == {"closed", "dead", "reset"}

ViewerPC == {"off", "list", "choose", "bridge", "watch"}

RaspiPC == {"off", "reg", "main"}

Init ==
    /\ server = Fresh("up")
    /\ link = [c \in Client |-> "none"]
    /\ conn = [c \in Client |-> NULL]
    /\ out = [c \in Client |-> <<>>]
    /\ box = [c \in Client |-> <<>>]
    /\ pc = [c \in Client |-> "off"]
    /\ streaming = [r \in Raspi |-> FALSE]
    /\ camera = [r \in Raspi |-> FALSE]
    /\ remotefd = [r \in Raspi |-> 0]
    /\ ignored = {}
    /\ broken = FALSE
    /\ starts = 0

-----------------------------------------------------------------------------
(* What every client does.                                                 *)

\* connect() and the registration, which may be sent before accept().
Connect(c, type, next) ==
    /\ pc[c] = "off" /\ link[c] = "none"
    /\ link' = [link EXCEPT ![c] = "up"]
    /\ out' = [out EXCEPT ![c] = <<[cmd |-> "REGISTER_CLIENT_REQ", fd |-> 0,
                                    arg |-> type]>>]
    /\ pc' = [pc EXCEPT ![c] = next]
    /\ starts < STARTS /\ starts' = starts + 1
    /\ UNCHANGED <<server, conn, box, raspi, ghost>>

\* The process is gone, with unread still in its receive buffer.
Quit(c, unread) ==
    /\ pc' = [pc EXCEPT ![c] = "off"]
    /\ link' = [link EXCEPT ![c] = IF @ = "cut" THEN "none"
                                     ELSE IF unread = <<>> THEN "closed"
                                     ELSE "reset"]
    /\ box' = [box EXCEPT ![c] = <<>>]
    /\ out' = [out EXCEPT ![c] = IF link[c] = "cut" THEN <<>> ELSE @]
    /\ ignored' = ignored \ {c}
    /\ IF c \in Raspi
       THEN /\ streaming' = [streaming EXCEPT ![c] = FALSE]
            /\ camera' = [camera EXCEPT ![c] = FALSE]
            /\ remotefd' = [remotefd EXCEPT ![c] = 0]
       ELSE UNCHANGED raspi
    /\ UNCHANGED <<server, conn, broken, starts>>

\* It is interrupted or killed, at any time.
Killed(c) == pc[c] # "off" /\ Quit(c, box[c])

\* recv_pkg fails after the last packet of a connection the server closed.
RecvFails(c) ==
    /\ pc[c] \notin {"off", "choose"}
    /\ link[c] = "cut" /\ box[c] = <<>>
    /\ Quit(c, <<>>)

\* recv_pkg returned the first packet of box[c].
Take(c, next) ==
    /\ box' = [box EXCEPT ![c] = Tail(@)]
    /\ pc' = [pc EXCEPT ![c] = next]
    /\ UNCHANGED <<server, link, conn, out, ghost, starts>>

\* send_pkg: what is sent on a connection the server has closed is lost.
SendPkg(c, p) ==
    out' = IF link[c] = "up" THEN [out EXCEPT ![c] = Append(@, p)] ELSE out

-----------------------------------------------------------------------------
(* remote.cpp                                                              *)

ViewerStart(v) == Connect(v, 1, "list")

\* The first packet is taken for the answer whatever it is.
TakeList(v) ==
    /\ pc[v] = "list" /\ box[v] # <<>>
    /\ Take(v, "choose")
    /\ UNCHANGED raspi

\* The user enters a number.
Choose(v) ==
    /\ pc[v] = "choose"
    /\ \E f \in Choice, h \in StackFd :
         SendPkg(v, [cmd |-> "CHOOSE_SERVER_REQ", fd |-> h, arg |-> f])
    /\ pc' = [pc EXCEPT ![v] = "bridge"]
    /\ UNCHANGED <<server, link, conn, box, raspi, ghost, starts>>

\* The first word of a frame, read as a result, may be anything.
ResultOf(p) == IF p.cmd = "STREAM_DATA_NTF" THEN {0, 1} ELSE {p.arg}

TakeResult(v) ==
    /\ pc[v] = "bridge" /\ box[v] # <<>>
    /\ \E result \in ResultOf(Head(box[v])) :
         \/ result = 0 /\ Take(v, "watch") /\ UNCHANGED raspi
         \/ result # 0 /\ Quit(v, Tail(box[v]))

\* Any packet is written to the file.
TakeFrame(v) ==
    /\ pc[v] = "watch" /\ box[v] # <<>>
    /\ Take(v, "watch")
    /\ UNCHANGED raspi

ViewerTakes(v) == TakeList(v) \/ TakeResult(v) \/ TakeFrame(v)

-----------------------------------------------------------------------------
(* raspi.cpp                                                               *)

RaspiStart(r) == Connect(r, 0, "reg")

TakeRegistered(r) ==
    /\ pc[r] = "reg" /\ box[r] # <<>>
    /\ IF Head(box[r]).cmd = "REGISTER_CLIENT_RES"
       THEN Take(r, "main") /\ UNCHANGED raspi
       ELSE Quit(r, Tail(box[r]))

TakeRestart(r) ==
    /\ pc[r] = "main" /\ box[r] # <<>>
    /\ Head(box[r]).cmd = "RESTART_CLIENT_NTF"
    /\ streaming' = [streaming EXCEPT ![r] = FALSE]
    /\ Take(r, "main")
    /\ UNCHANGED <<camera, remotefd>>

TakeStart(r) ==
    /\ pc[r] = "main" /\ box[r] # <<>>
    /\ Head(box[r]).cmd = "START_SEND_DATA_NTF"
    /\ streaming' = [streaming EXCEPT ![r] = TRUE]
    /\ camera' = [camera EXCEPT ![r] = TRUE]
    /\ remotefd' = [remotefd EXCEPT ![r] = Head(box[r]).arg]
    /\ Take(r, "main")

TakeOther(r) ==
    /\ pc[r] = "main" /\ box[r] # <<>>
    /\ Head(box[r]).cmd \notin {"RESTART_CLIENT_NTF", "START_SEND_DATA_NTF"}
    /\ Take(r, "main")
    /\ UNCHANGED raspi

RaspiTakes(r) ==
    TakeRegistered(r) \/ TakeRestart(r) \/ TakeStart(r) \/ TakeOther(r)

\* A camera thread sends a packet of a frame; it may be the last after a stop.
Frame(r) ==
    /\ camera[r] /\ link[r] = "up" /\ Len(out[r]) < AHEAD
    /\ SendPkg(r, [cmd |-> "STREAM_DATA_NTF", fd |-> remotefd[r], arg |-> 0])
    /\ UNCHANGED <<server, link, conn, box, pc, raspi, ghost, starts>>

CameraEnds(r) ==
    /\ camera[r] /\ ~streaming[r]
    /\ camera' = [camera EXCEPT ![r] = FALSE]
    /\ UNCHANGED <<server, net, pc, streaming, remotefd, ghost, starts>>

-----------------------------------------------------------------------------
(* The server.                                                             *)

(***************************************************************************)
(* The server is in state t; k and o are conn and out, but for the         *)
(* connections that end with this step.                                    *)
(***************************************************************************)
Become(t, k, o) ==
    LET Ended(c) == \/ conn[c] # NULL /\ conn[c] \notin t.open
                    \/ link[c] # "none" /\ t.run # "up"
        Sent(c) == conn[c] # NULL /\ t.inbox[conn[c]] # <<>>
    IN  /\ server' = [t EXCEPT !.inbox = [f \in FD |-> <<>>]]
        /\ conn' = [c \in Client |-> IF Ended(c) THEN NULL ELSE k[c]]
        /\ link' = [c \in Client |->
                      IF Ended(c)
                      THEN IF link[c] \in Left THEN "none" ELSE "cut"
                      ELSE IF link[c] = "closed" /\ Sent(c) THEN "dead"
                      ELSE link[c]]
        /\ out' = [c \in Client |-> IF Ended(c) THEN <<>> ELSE o[c]]
        /\ box' = [c \in Client |->
                     IF Sent(c) /\ link[c] = "up"
                     THEN box[c] \o t.inbox[conn[c]] ELSE box[c]]
        /\ \A c \in Client : Len(box'[c]) <= QUEUE
        /\ UNCHANGED <<pc, raspi, starts>>

\* The connections that wait are accepted in any order.
Accept(c) ==
    /\ server.run = "up"
    /\ conn[c] = NULL /\ link[c] \in {"up", "closed"}
    /\ \E f \in FD \ server.open :
         /\ \A g \in FD \ server.open : f <= g
         /\ LET k == [conn EXCEPT ![c] = f]
            IN  \/ NoneFree(server) /\ Become(Fresh("segv"), k, out)
                \/ \E n \in Slot : /\ FirstFree(server, n)
                                   /\ Become(accept_cb(server, f, n), k, out)
    /\ UNCHANGED ghost

\* What send() to descriptor f may return.
Outcome(f) ==
    IF \E c \in Client : conn[c] = f /\ link[c] \in {"dead", "reset"}
    THEN {"all", "fail"} ELSE {"all"}

ChannelOf(c) == server.channel_map[conn[c]]

Reads(c) ==
    /\ server.run = "up" /\ conn[c] # NULL
    /\ server.channel[ChannelOf(c)].recvOn

\* A request of c with this command arrives.
Request(c, cmd) ==
    /\ Reads(c) /\ out[c] # <<>>
    /\ Head(out[c]).fd = 0 /\ Head(out[c]).cmd = cmd

Rest(c) == [out EXCEPT ![c] = Tail(@)]

\* response() frees the connection it fails to write to and tells nobody.
Lost(failed) == broken' = (broken \/ failed)

\* A registration is not answered when the list is full.
Register(c) ==
    /\ Request(c, "REGISTER_CLIENT_REQ")
    /\ LET p == Head(out[c])
           typed == [server EXCEPT !.channel[ChannelOf(c)].type = ClientType(p)]
       IN  /\ \E o \in Outcome(conn[c]) :
                /\ Become(handle_register_client_req(server, p, conn[c], o),
                          conn, Rest(c))
                /\ Lost(o = "fail")
           /\ ignored' = IF p.arg = 1 /\ Cardinality(Raspis(typed)) >= LIST_MAX
                         THEN ignored \cup {c} ELSE ignored

\* Nor is a choice that names no connection.
ChooseServer(c) ==
    /\ Request(c, "CHOOSE_SERVER_REQ")
    /\ LET p == Head(out[c])
       IN  /\ \E o \in Outcome(conn[c]), o2 \in Outcome(p.arg) :
                /\ Become(handle_choose_server_req(server, p, conn[c], o, o2),
                          conn, Rest(c))
                /\ Lost("fail" \in {o, o2})
           /\ ignored' = IF p.arg \in server.open THEN ignored
                         ELSE ignored \cup {c}

\* Bridged(f): whom check_break_fd tells that descriptor f is gone.
Bridged(f) ==
    LET b == Find(server.bridge_map, f) IN
    IF b = NULL THEN NULL ELSE server.channel[b].fd

\* A choice that is forwarded, head.fd being what was on the stack, is none
\* the server answers.
Forward(c) ==
    /\ Reads(c) /\ out[c] # <<>> /\ Head(out[c]).fd # 0
    /\ LET p == Head(out[c])
       IN  /\ \E o \in Outcome(p.fd), o2 \in Outcome(Bridged(p.fd)) :
                /\ o = "all" => o2 = "all"
                /\ Become(dispatch(server, p, conn[c], o, o2), conn, Rest(c))
                /\ Lost(o2 = "fail")
           /\ ignored' = IF c \in Viewer THEN ignored \cup {c} ELSE ignored

EndOfStream(c) ==
    /\ Reads(c) /\ out[c] = <<>> /\ link[c] \in {"closed", "dead"}
    /\ \E o \in Outcome(Bridged(conn[c])) :
         /\ Become(PeerClosed(server, ChannelOf(c), o), conn, out)
         /\ Lost(o = "fail")
    /\ UNCHANGED ignored

RecvError(c) ==
    /\ Reads(c) /\ out[c] = <<>> /\ link[c] = "reset"
    /\ Become(free_channel(server, ChannelOf(c)), conn, out)
    /\ Lost(TRUE)
    /\ UNCHANGED ignored

Serve(c) ==
    \/ Register(c) \/ ChooseServer(c) \/ Forward(c)
    \/ EndOfStream(c) \/ RecvError(c)

-----------------------------------------------------------------------------
Next ==
    \/ \E c \in Client : Accept(c) \/ Serve(c) \/ RecvFails(c) \/ Killed(c)
    \/ \E v \in Viewer : ViewerStart(v) \/ ViewerTakes(v) \/ Choose(v)
    \/ \E r \in Raspi : RaspiStart(r) \/ RaspiTakes(r) \/ Frame(r) \/ CameraEnds(r)

Spec == Init /\ [][Next]_vars

(***************************************************************************)
(* The server's loop calls back every watcher that is ready, and every     *)
(* process and thread runs.  Users need do nothing.                        *)
(***************************************************************************)
FairSpec ==
    /\ Spec
    /\ \A c \in Client : WF_vars(Accept(c)) /\ WF_vars(Serve(c))
                         /\ WF_vars(RecvFails(c))
    /\ \A v \in Viewer : WF_vars(ViewerTakes(v))
    /\ \A r \in Raspi : /\ WF_vars(RaspiTakes(r)) /\ WF_vars(Frame(r))
                        /\ WF_vars(CameraEnds(r))

-----------------------------------------------------------------------------
\* A request to send names a descriptor; what else a first word can be is a
\* choice, a type, a result or Reserve.
Packet ==
    {p \in [cmd : PKG_CMD_TYPE, fd : FD \cup StackFd \cup {0},
            arg : FD \cup {0, 1}] :
        p.cmd = "START_SEND_DATA_NTF" => p.arg \in FD}

TypeOK ==
    /\ server \in State
    /\ out \in [Client -> Seq(Packet)]
    /\ box \in [Client -> Seq(Packet)]
    /\ \A c \in Client : Len(out[c]) <= AHEAD + 1 /\ Len(box[c]) <= QUEUE
    /\ link \in [Client -> Link]
    /\ conn \in [Client -> FD \cup {NULL}]
    /\ pc \in [Client -> ViewerPC \cup RaspiPC]
    /\ streaming \in [Raspi -> BOOLEAN]
    /\ camera \in [Raspi -> BOOLEAN]
    /\ remotefd \in [Raspi -> FD \cup {0}]
    /\ ignored \subseteq Viewer
    /\ broken \in BOOLEAN
    /\ starts \in 0 .. STARTS

Notification == {"RESTART_CLIENT_NTF", "START_SEND_DATA_NTF"}

\* A raspi streams to f after it has read the packets b: the last notification
\* in b says so, or there is none and it did before.
StreamsAfter(b, f, before) ==
    LET Silent(i) == \A j \in i + 1 .. Len(b) : b[j].cmd \notin Notification
    IN  \/ before /\ Silent(0)
        \/ \E i \in DOMAIN b : /\ b[i].cmd = "START_SEND_DATA_NTF" /\ b[i].arg = f
                              /\ Silent(i)

StreamsTo(r, f) == streaming[r] /\ remotefd[r] = f

\* The raspi streams to f once it has read all it was sent.
WillStream(r, f) == StreamsAfter(box[r], f, StreamsTo(r, f))

\* While no connection ends by an error, a raspi does not stream for nobody:
\* the one it streams to, or will once it has read its notifications, is
\* connected, and bridged to it, so that its leaving will be told.
StreamWanted ==
    broken \/ \A r \in Raspi, f \in FD :
        link[r] = "up" /\ conn[r] # NULL /\ WillStream(r, f) =>
            f \in server.open /\ server.bridge_map[f] = ChannelOf(r)

\* While no connection ends by an error, the server keeps no bridge of a
\* connection that is gone: the next one with the descriptor starts without.
BridgeHasViewer ==
    broken \/ \A f \in FD : server.bridge_map[f] # NULL => f \in server.open

\* No client waits in recv_pkg for an answer that is not under way: its request
\* has not been read, or a packet is there for it, or the connection is cut, or
\* it asked for what the server does not answer.
AnswerUnderWay ==
    \A c \in Client :
        pc[c] \in {"list", "bridge", "reg"} /\ link[c] = "up" =>
            out[c] # <<>> \/ box[c] # <<>> \/ c \in ignored

-----------------------------------------------------------------------------
(* What a comment of the code says and the code does not keep.             *)

\* server.cpp:200 "the other side is closed: stop the raspi": a raspi whose
\* frames go to a descriptor that is closed stops sending them.
StreamStops ==
    \A r \in Raspi : camera[r] /\ remotefd[r] \notin server.open
                     ~> ~camera[r] \/ remotefd[r] \in server.open
=============================================================================
