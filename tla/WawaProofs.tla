------------------------------ MODULE WawaProofs ------------------------------
(***************************************************************************)
(* Proofs about the whole system, for any numbers of viewers and raspis,   *)
(* of channels, of descriptors and of packets on their way: the server     *)
(* keeps no bridge for a connection that is gone, a raspi streams only for *)
(* a viewer that is there and bridged to it, and no client waits for an    *)
(* answer that nobody is going to give.                                    *)
(***************************************************************************)
EXTENDS Wawa, ChannelsProofs

-----------------------------------------------------------------------------
(* The inductive invariant: what is true of every client, and of the       *)
(* server.                                                                 *)

\* A process that runs has a connection; one that does not has read all.
At(c) ==
    /\ c \in Viewer => pc[c] \in ViewerPC
    /\ c \in Raspi => pc[c] \in RaspiPC
    /\ pc[c] = "off" => link[c] \notin {"up", "cut"} /\ box[c] = <<>>
    /\ pc[c] # "off" => link[c] \in {"up", "cut"}

\* The server's descriptor of a client is open.  Before accept() the client
\* has been sent nothing and waits for the answer to its registration.
Linked(c) ==
    /\ conn[c] # NULL => conn[c] \in server.open /\ link[c] \notin {"none", "cut"}
    /\ conn[c] = NULL /\ link[c] = "up" => box[c] = <<>> /\ pc[c] \in {"list", "reg"}

\* A camera runs only in the loop of main, and has been told where to.
Filming(r) ==
    /\ pc[r] # "main" => ~streaming[r] /\ ~camera[r]
    /\ streaming[r] \/ camera[r] => remotefd[r] \in FD

IsRegistration(p, type) ==
    p.cmd = "REGISTER_CLIENT_REQ" /\ p.fd = 0 /\ p.arg = type

IsChoice(p) == p.cmd = "CHOOSE_SERVER_REQ" /\ p.arg \in FD

IsFrame(p) == p.cmd = "STREAM_DATA_NTF"

\* A viewer registers first, and then chooses once.
Viewing(v) ==
    /\ Len(out[v]) <= IF pc[v] \in {"list", "choose"} THEN 1 ELSE 2
    /\ \A i \in DOMAIN out[v] :
         \/ i = 1 /\ IsRegistration(out[v][i], 1)
         \/ /\ i = Len(out[v]) /\ IsChoice(out[v][i])
            /\ pc[v] \notin {"list", "choose"}

\* A raspi registers, and sends frames when it has been answered.
Sending(r) ==
    /\ Len(out[r]) <= AHEAD
    /\ \A i \in DOMAIN out[r] :
         \/ IsRegistration(out[r][i], 0)
         \/ IsFrame(out[r][i]) /\ pc[r] # "reg"

\* The server has read the registration of a viewer before anything else.
Typed(v) ==
    link[v] \notin {"none", "cut"} =>
        \/ out[v] # <<>> /\ out[v][1].cmd = "REGISTER_CLIENT_REQ"
        \/ conn[v] # NULL /\ server.channel[ChannelOf(v)].type = "CTYPE_REMOTE"

\* c has still to choose, or the server to read its choice.
Choosing(c) ==
    \/ pc[c] \in {"list", "choose"}
    \/ \E i \in DOMAIN out[c] : IsChoice(out[c][i])

\* Only viewers are bridged, and only when their choice has been read.
Unbridged(c) ==
    ~broken /\ conn[c] # NULL /\ (c \in Raspi \/ Choosing(c)) =>
        server.bridge_map[conn[c]] = NULL

\* StreamWanted and AnswerUnderWay, of one client.
Wanted(r) ==
    ~broken => \A f \in FD :
        link[r] = "up" /\ conn[r] # NULL /\ WillStream(r, f) =>
            f \in server.open /\ server.bridge_map[f] = ChannelOf(r)

Answered(c) ==
    pc[c] \in {"list", "bridge", "reg"} /\ link[c] = "up" =>
        out[c] # <<>> \/ box[c] # <<>> \/ c \in ignored

OfClient(c) ==
    /\ At(c) /\ Linked(c) /\ Unbridged(c) /\ Answered(c)
    /\ c \in Viewer => Viewing(c) /\ Typed(c)
    /\ c \in Raspi => Filming(c) /\ Sending(c) /\ Wanted(c)

\* No two clients share a descriptor.
Apart == \A c, d \in Client : conn[c] = conn[d] /\ conn[c] # NULL => c = d

\* Who is bridged has registered as a remote, so that its end will be told.
Bridges ==
    ~broken => \A f \in FD : server.bridge_map[f] # NULL =>
        /\ f \in server.open
        /\ server.channel[server.channel_map[f]].type = "CTYPE_REMOTE"

WInv ==
    /\ TypeOK
    /\ Smooth(server) /\ Quiet(server)
    /\ Apart /\ Bridges
    /\ \A c \in Client : OfClient(c)

-----------------------------------------------------------------------------
(* Sequences of packets.                                                   *)

\* A client may have nothing to read,
LEMMA EmptySeq ==
    ASSUME NEW S
    PROVE  <<>> \in Seq(S)
OBVIOUS

\* or one packet.
LEMMA Singleton ==
    ASSUME NEW S, NEW x \in S
    PROVE  <<>> \in Seq(S) /\ <<x>> \in Seq(S)
OBVIOUS

\* send() of the server puts packets behind those that wait.
LEMMA Concatenated ==
    ASSUME NEW S, NEW b \in Seq(S), NEW q \in Seq(S)
    PROVE  /\ b \o q \in Seq(S)
           /\ Len(b \o q) = Len(b) + Len(q)
           /\ \A i \in 1 .. Len(b) : (b \o q)[i] = b[i]
           /\ \A i \in 1 .. Len(q) : (b \o q)[Len(b) + i] = q[i]
OBVIOUS

\* What waits to be read is still there then.
LEMMA NotEmptied ==
    ASSUME NEW S, NEW b \in Seq(S), NEW q \in Seq(S), b # <<>> \/ q # <<>>
    PROVE  b \o q # <<>>
<1>1. Len(b) \in Nat /\ Len(q) \in Nat /\ Len(b \o q) = Len(b) + Len(q)
  OBVIOUS
<1>2. Len(b) # 0 \/ Len(q) # 0
  OBVIOUS
<1>3. Len(b \o q) # 0
  BY <1>1, <1>2
<1> QED BY <1>3

\* recv_pkg takes the first packet.
LEMMA TailOf ==
    ASSUME NEW S, NEW b \in Seq(S), b # <<>>
    PROVE  /\ Tail(b) \in Seq(S)
           /\ Len(b) \in Nat \ {0}
           /\ Len(Tail(b)) = Len(b) - 1
           /\ \A i \in 1 .. Len(b) - 1 : Tail(b)[i] = b[i + 1]
           /\ Head(b) = b[1]
OBVIOUS

\* send_pkg of a client puts one behind the others.
LEMMA Appended ==
    ASSUME NEW S, NEW b \in Seq(S), NEW p \in S
    PROVE  LET q == Append(b, p) IN
           /\ q \in Seq(S) /\ Len(b) \in Nat /\ Len(q) = Len(b) + 1 /\ q # <<>>
           /\ \A i \in 1 .. Len(b) : q[i] = b[i]
           /\ q[Len(b) + 1] = p
           /\ DOMAIN b = 1 .. Len(b) /\ DOMAIN q = 1 .. Len(b) + 1
OBVIOUS

-----------------------------------------------------------------------------
(* What a raspi does after it has read some packets.                       *)

\* Nothing read changes nothing.
LEMMA AfterNone ==
    ASSUME NEW f, NEW x \in BOOLEAN
    PROVE  StreamsAfter(<<>>, f, x) <=> x
<1>1. DOMAIN <<>> = {} /\ \A j \in 0 + 1 .. Len(<<>>) : FALSE
  OBVIOUS
<1> QED BY <1>1 DEF StreamsAfter

\* Of one packet.
LEMMA AfterOne ==
    ASSUME NEW p, NEW f, NEW x \in BOOLEAN
    PROVE  StreamsAfter(<<p>>, f, x) <=>
             IF p.cmd = "START_SEND_DATA_NTF" THEN p.arg = f
             ELSE x /\ p.cmd # "RESTART_CLIENT_NTF"
<1> DEFINE b == <<p>>
<1>1. DOMAIN b = {1} /\ Len(b) = 1 /\ b[1] = p
  OBVIOUS
<1> HIDE DEF b
<1>2. (\A j \in 0 + 1 .. Len(b) : b[j].cmd \notin Notification)
      <=> p.cmd \notin Notification
  BY <1>1
<1>3. \A j \in 1 + 1 .. Len(b) : b[j].cmd \notin Notification
  BY <1>1
<1>4. StreamsAfter(b, f, x) <=> \/ x /\ p.cmd \notin Notification
                                \/ p.cmd = "START_SEND_DATA_NTF" /\ p.arg = f
  BY <1>1, <1>2, <1>3 DEF StreamsAfter
<1> QED BY <1>4 DEF b, Notification

\* The first of b has been read, and y is what the raspi does since.
LEMMA AfterFirst ==
    ASSUME NEW S, NEW b \in Seq(S), b # <<>>, NEW f, NEW x \in BOOLEAN, NEW y \in BOOLEAN,
           StreamsAfter(Tail(b), f, y),
           y => IF Head(b).cmd = "START_SEND_DATA_NTF" THEN Head(b).arg = f
                ELSE x /\ Head(b).cmd # "RESTART_CLIENT_NTF"
    PROVE  StreamsAfter(b, f, x)
<1> DEFINE q == Tail(b)
           Silent(s, i) == \A j \in i + 1 .. Len(s) : s[j].cmd \notin Notification
           Start(s, i) == s[i].cmd = "START_SEND_DATA_NTF" /\ s[i].arg = f
<1>1. /\ q \in Seq(S) /\ Len(b) \in Nat \ {0} /\ Len(q) = Len(b) - 1
      /\ \A i \in 1 .. Len(b) - 1 : q[i] = b[i + 1]
      /\ Head(b) = b[1]
  BY TailOf
<1>2. StreamsAfter(q, f, y)
  OBVIOUS
<1> HIDE DEF q
<1>3. ASSUME NEW i \in 0 .. Len(q), Silent(q, i)
      PROVE  Silent(b, i + 1)
  <2> SUFFICES ASSUME NEW j \in i + 1 + 1 .. Len(b) PROVE b[j].cmd \notin Notification
    OBVIOUS
  <2>1. j - 1 \in i + 1 .. Len(q) /\ j - 1 \in 1 .. Len(b) - 1 /\ (j - 1) + 1 = j
    BY <1>1
  <2> QED BY <1>1, <1>3, <2>1
<1>4. CASE y /\ Silent(q, 0)
  <2>1. Silent(b, 1) /\ 1 \in DOMAIN b
    BY <1>1, <1>3, <1>4
  <2>2. CASE Head(b).cmd = "START_SEND_DATA_NTF"
    BY <1>1, <1>4, <2>1, <2>2 DEF StreamsAfter
  <2>3. CASE Head(b).cmd # "START_SEND_DATA_NTF"
    <3>1. x /\ b[1].cmd \notin Notification
      BY <1>1, <1>4, <2>3 DEF Notification
    <3>2. Silent(b, 0)
      BY <1>1, <2>1, <3>1
    <3> QED BY <3>1, <3>2 DEF StreamsAfter
  <2> QED BY <2>2, <2>3
<1>5. ASSUME NEW i \in DOMAIN q, Start(q, i), Silent(q, i)
      PROVE  StreamsAfter(b, f, x)
  <2>1. i \in 0 .. Len(q) /\ i \in 1 .. Len(b) - 1 /\ i + 1 \in DOMAIN b
    BY <1>1
  <2>2. Start(b, i + 1) /\ Silent(b, i + 1)
    BY <1>1, <1>3, <1>5, <2>1
  <2> QED BY <2>1, <2>2 DEF StreamsAfter
<1> QED BY <1>2, <1>4, <1>5 DEF StreamsAfter

\* The packets of q come after those of b.
LEMMA AfterMore ==
    ASSUME NEW S, NEW b \in Seq(S), NEW q \in Seq(S), NEW f, NEW x \in BOOLEAN,
           StreamsAfter(b \o q, f, x)
    PROVE  StreamsAfter(q, f, StreamsAfter(b, f, x))
<1> DEFINE a == b \o q
           Silent(s, i) == \A j \in i + 1 .. Len(s) : s[j].cmd \notin Notification
           Start(s, i) == s[i].cmd = "START_SEND_DATA_NTF" /\ s[i].arg = f
<1>1. /\ a \in Seq(S) /\ Len(a) = Len(b) + Len(q)
      /\ \A i \in 1 .. Len(b) : a[i] = b[i]
      /\ \A i \in 1 .. Len(q) : a[Len(b) + i] = q[i]
  BY Concatenated
<1>2. Len(b) \in Nat /\ Len(q) \in Nat
  OBVIOUS
<1> HIDE DEF a
<1>3. CASE x /\ Silent(a, 0)
  <2>1. x /\ Silent(b, 0)
    BY <1>1, <1>2, <1>3
  <2>2. Silent(q, 0)
    <3> SUFFICES ASSUME NEW j \in 1 .. Len(q) PROVE q[j].cmd \notin Notification
      OBVIOUS
    <3>1. Len(b) + j \in 1 .. Len(a)
      BY <1>1, <1>2
    <3> QED BY <1>1, <1>3, <3>1
  <2> QED BY <2>1, <2>2 DEF StreamsAfter
<1>4. ASSUME NEW i \in DOMAIN a, Start(a, i), Silent(a, i)
      PROVE  StreamsAfter(q, f, StreamsAfter(b, f, x))
  <2>1. i \in 1 .. Len(b) + Len(q)
    BY <1>1
  <2>2. CASE i <= Len(b)
    <3>1. i \in DOMAIN b /\ Start(b, i) /\ Silent(b, i)
      BY <1>1, <1>2, <1>4, <2>1, <2>2
    <3>2. Silent(q, 0)
      <4> SUFFICES ASSUME NEW j \in 1 .. Len(q) PROVE q[j].cmd \notin Notification
        OBVIOUS
      <4>1. Len(b) + j \in i + 1 .. Len(a)
        BY <1>1, <1>2, <2>1, <2>2
      <4> QED BY <1>1, <1>4, <4>1
    <3> QED BY <3>1, <3>2 DEF StreamsAfter
  <2>3. CASE i > Len(b)
    <3> DEFINE k == i - Len(b)
    <3>1. k \in 1 .. Len(q) /\ Len(b) + k = i
      BY <1>2, <2>1, <2>3
    <3>2. k \in DOMAIN q /\ Start(q, k)
      BY <1>1, <1>4, <3>1
    <3>3. Silent(q, k)
      <4> SUFFICES ASSUME NEW j \in k + 1 .. Len(q) PROVE q[j].cmd \notin Notification
        OBVIOUS
      <4>1. Len(b) + j \in i + 1 .. Len(a) /\ j \in 1 .. Len(q)
        BY <1>1, <1>2, <3>1
      <4> QED BY <1>1, <1>4, <4>1
    <3> HIDE DEF k
    <3> QED BY <3>2, <3>3 DEF StreamsAfter
  <2> QED BY <1>2, <2>1, <2>2, <2>3
<1>5. (x /\ Silent(a, 0)) \/ \E i \in DOMAIN a : Start(a, i) /\ Silent(a, i)
  BY DEF StreamsAfter, a
<1> QED BY <1>3, <1>4, <1>5

-----------------------------------------------------------------------------
(* Steps of the clients.                                                   *)

\* Nothing changes for client d.
Same(d) ==
    /\ link'[d] = link[d] /\ conn'[d] = conn[d] /\ out'[d] = out[d]
    /\ box'[d] = box[d] /\ pc'[d] = pc[d]
    /\ d \in ignored' <=> d \in ignored
    /\ d \in Raspi => /\ streaming'[d] = streaming[d] /\ camera'[d] = camera[d]
                      /\ remotefd'[d] = remotefd[d]

\* A step that is not about client d leaves what is true of it.
LEMMA SameClient ==
    ASSUME NEW d \in Client, OfClient(d), Same(d), server' = server, broken' = broken
    PROVE  OfClient(d)'
<1>1. At(d)' /\ Linked(d)' /\ Answered(d)'
  BY DEF OfClient, At, Linked, Answered, Same
<1>2. Unbridged(d)'
  BY DEF OfClient, Unbridged, Choosing, Same
<1>3. d \in Viewer => Viewing(d)' /\ Typed(d)'
  BY DEF OfClient, Viewing, Typed, Same, ChannelOf
<1>4. ASSUME d \in Raspi PROVE Filming(d)' /\ Sending(d)' /\ Wanted(d)'
  <2>1. Filming(d)' /\ Sending(d)'
    BY <1>4 DEF OfClient, Filming, Sending, Same
  <2>2. \A f : WillStream(d, f)' <=> WillStream(d, f)
    BY <1>4 DEF WillStream, StreamsTo, Same
  <2>3. Wanted(d)'
    BY <1>4, <2>2 DEF OfClient, Wanted, Same, ChannelOf
  <2> QED BY <2>1, <2>3
<1> QED BY <1>1, <1>2, <1>3, <1>4 DEF OfClient

\* A step of client c, which is all right for c.
LEMMA OneClient ==
    ASSUME WInv, NEW c \in Client, server' = server, broken' = broken, conn' = conn,
           \A d \in Client \ {c} : Same(d), TypeOK', OfClient(c)'
    PROVE  WInv'
<1>1. Smooth(server)' /\ Quiet(server)' /\ Apart' /\ Bridges'
  BY DEF WInv, Apart, Bridges
<1>2. ASSUME NEW d \in Client PROVE OfClient(d)'
  BY <1>2, SameClient DEF WInv
<1> QED BY <1>1, <1>2 DEF WInv

\* The first packet of each program is one.
LEMMA Registration ==
    ASSUME NEW type \in {0, 1}
    PROVE  /\ [cmd |-> "REGISTER_CLIENT_REQ", fd |-> 0, arg |-> type] \in Packet
           /\ IsRegistration([cmd |-> "REGISTER_CLIENT_REQ", fd |-> 0, arg |-> type], type)
BY DEF Packet, PKG_CMD_TYPE, IsRegistration

\* A client that connects has only its registration under way.
LEMMA ConnectKeeps ==
    ASSUME WInv, NEW c \in Client, NEW type, NEW next, Connect(c, type, next),
           \/ c \in Viewer /\ type = 1 /\ next = "list"
           \/ c \in Raspi /\ type = 0 /\ next = "reg"
    PROVE  WInv'
<1> DEFINE p == [cmd |-> "REGISTER_CLIENT_REQ", fd |-> 0, arg |-> type]
<1>1. type \in {0, 1} /\ p \in Packet /\ IsRegistration(p, type)
  BY Registration
<1>2. p.cmd = "REGISTER_CLIENT_REQ"
  OBVIOUS
<1> HIDE DEF p
<1>3. TypeOK /\ OfClient(c) /\ (c \in Viewer <=> c \notin Raspi)
  BY ClientAssumption DEF WInv, Client
<1>4. /\ link' = [link EXCEPT ![c] = "up"] /\ out' = [out EXCEPT ![c] = <<p>>]
      /\ pc' = [pc EXCEPT ![c] = next] /\ starts' = starts + 1 /\ starts < STARTS
      /\ pc[c] = "off" /\ link[c] = "none"
      /\ UNCHANGED <<server, conn, box, raspi, ghost>>
  BY DEF Connect, p
<1>5. /\ link'[c] = "up" /\ out'[c] = <<p>> /\ pc'[c] = next /\ conn'[c] = conn[c]
      /\ box'[c] = box[c]
      /\ \A d \in Client \ {c} : /\ link'[d] = link[d] /\ out'[d] = out[d]
                                 /\ pc'[d] = pc[d]
  BY <1>3, <1>4 DEF TypeOK
<1>6. /\ server' = server /\ broken' = broken /\ conn' = conn /\ box' = box
      /\ streaming' = streaming /\ camera' = camera /\ remotefd' = remotefd
      /\ ignored' = ignored
  BY <1>4 DEF raspi, ghost
<1>7. TypeOK'
  <2>1. out' \in [Client -> Seq(Packet)]
    BY <1>1, <1>3, <1>4 DEF TypeOK
  <2>2. link' \in [Client -> Link] /\ pc' \in [Client -> ViewerPC \cup RaspiPC]
    BY <1>3, <1>4 DEF TypeOK, Link, ViewerPC, RaspiPC
  <2>3. ASSUME NEW d \in Client PROVE Len(out'[d]) <= AHEAD + 1
    <3>1. Len(out[d]) <= AHEAD + 1
      BY <1>3 DEF TypeOK
    <3>2. CASE d = c
      <4>1. Len(<<p>>) = 1
        OBVIOUS
      <4>2. 1 <= AHEAD + 1
        BY AheadAssumption
      <4>3. out'[d] = <<p>>
        BY <1>5, <3>2
      <4> QED BY <4>1, <4>2, <4>3
    <3> QED BY <1>5, <3>1, <3>2
  <2>4. starts' \in 0 .. STARTS
    BY <1>3, <1>4, StartsAssumption DEF TypeOK
  <2> QED BY <1>3, <1>6, <2>1, <2>2, <2>3, <2>4 DEF TypeOK
<1>8. \A d \in Client \ {c} : Same(d)
  BY <1>5, <1>6 DEF Same
<1>9. conn[c] = NULL /\ box[c] = <<>>
  BY <1>3, <1>4 DEF OfClient, Linked, At
<1>10. At(c)' /\ Linked(c)' /\ Answered(c)' /\ Unbridged(c)'
  BY <1>3, <1>5, <1>6, <1>9
  DEF At, Linked, Answered, Unbridged, ViewerPC, RaspiPC
<1>11. ASSUME c \in Viewer PROVE Viewing(c)' /\ Typed(c)'
  BY <1>1, <1>2, <1>3, <1>5, <1>11 DEF Viewing, Typed
<1>12. ASSUME c \in Raspi PROVE Filming(c)' /\ Sending(c)' /\ Wanted(c)'
  <2>1. ~streaming[c] /\ ~camera[c]
    BY <1>3, <1>4, <1>12 DEF OfClient, Filming
  <2>2. Filming(c)' /\ Wanted(c)'
    BY <1>5, <1>6, <1>9, <2>1 DEF Filming, Wanted
  <2>3. Sending(c)'
    BY <1>1, <1>3, <1>5, <1>12, AheadAssumption DEF Sending
  <2> QED BY <2>2, <2>3
<1>13. OfClient(c)'
  BY <1>10, <1>11, <1>12 DEF OfClient
<1> QED BY <1>6, <1>7, <1>8, <1>13, OneClient

\* A process that is gone leaves its connection to be ended by the server.
LEMMA QuitKeeps ==
    ASSUME WInv, NEW c \in Client, NEW unread, Quit(c, unread), pc[c] # "off"
    PROVE  WInv'
<1> DEFINE x == IF link[c] = "cut" THEN "none"
                ELSE IF unread = <<>> THEN "closed" ELSE "reset"
<1>1. TypeOK /\ OfClient(c) /\ (c \in Viewer <=> c \notin Raspi)
  BY ClientAssumption DEF WInv, Client
<1>2. link[c] \in {"up", "cut"}
  BY <1>1 DEF OfClient, At
<1>3. /\ server' = server /\ broken' = broken /\ conn' = conn /\ starts' = starts
      /\ ignored' = ignored \ {c}
      /\ pc' = [pc EXCEPT ![c] = "off"] /\ box' = [box EXCEPT ![c] = <<>>]
      /\ out' = [out EXCEPT ![c] = IF link[c] = "cut" THEN <<>> ELSE out[c]]
      /\ link' = [link EXCEPT ![c] = x]
  BY DEF Quit
<1> x \in {"none", "closed", "reset"} /\ (x = "none" <=> link[c] = "cut")
  OBVIOUS
<1> HIDE DEF x
<1>4. \/ /\ c \in Raspi
         /\ streaming' = [streaming EXCEPT ![c] = FALSE]
         /\ camera' = [camera EXCEPT ![c] = FALSE]
         /\ remotefd' = [remotefd EXCEPT ![c] = 0]
      \/ c \notin Raspi /\ UNCHANGED raspi
  BY DEF Quit
<1>5. /\ pc'[c] = "off" /\ box'[c] = <<>> /\ conn'[c] = conn[c]
      /\ out'[c] = IF link[c] = "cut" THEN <<>> ELSE out[c]
      /\ link'[c] \in {"none", "closed", "reset"}
      /\ link'[c] = "none" <=> link[c] = "cut"
      /\ \A d \in Client \ {c} : /\ link'[d] = link[d] /\ out'[d] = out[d]
                                 /\ pc'[d] = pc[d] /\ box'[d] = box[d]
  BY <1>1, <1>3 DEF TypeOK
<1>6. c \in Raspi => ~streaming'[c] /\ ~camera'[c]
  BY <1>1, <1>4 DEF TypeOK
<1>7. TypeOK'
  <2>1. out' \in [Client -> Seq(Packet)] /\ box' \in [Client -> Seq(Packet)]
    BY <1>1, <1>3 DEF TypeOK
  <2>2. link' \in [Client -> Link] /\ pc' \in [Client -> ViewerPC \cup RaspiPC]
    BY <1>1, <1>3 DEF TypeOK, Link, ViewerPC, RaspiPC
  <2>3. ASSUME NEW d \in Client
        PROVE  Len(out'[d]) <= AHEAD + 1 /\ Len(box'[d]) <= QUEUE
    <3>1. Len(out[d]) <= AHEAD + 1 /\ Len(box[d]) <= QUEUE
      BY <1>1 DEF TypeOK
    <3> QED BY <1>5, <3>1, AheadAssumption, QueueAssumption
  <2>4. /\ streaming' \in [Raspi -> BOOLEAN] /\ camera' \in [Raspi -> BOOLEAN]
        /\ remotefd' \in [Raspi -> FD \cup {0}]
    BY <1>1, <1>4 DEF TypeOK, raspi
  <2> QED BY <1>1, <1>3, <2>1, <2>2, <2>3, <2>4 DEF TypeOK
<1>8. ASSUME NEW d \in Client \ {c} PROVE Same(d)
  <2>1. d \in Raspi => /\ streaming'[d] = streaming[d] /\ camera'[d] = camera[d]
                       /\ remotefd'[d] = remotefd[d]
    BY <1>1, <1>4 DEF TypeOK, raspi
  <2> QED BY <1>3, <1>5, <2>1 DEF Same
<1>9. At(c)' /\ Answered(c)' /\ Linked(c)'
  BY <1>1, <1>2, <1>3, <1>5 DEF OfClient, At, Answered, Linked, ViewerPC, RaspiPC
<1>10. Unbridged(c)'
  <2>1. conn[c] # NULL => link[c] # "cut"
    BY <1>1 DEF OfClient, Linked
  <2>2. conn[c] # NULL => (Choosing(c)' => Choosing(c))
    BY <1>5, <2>1 DEF Choosing
  <2> QED BY <1>1, <1>3, <2>2 DEF OfClient, Unbridged
<1>11. ASSUME c \in Viewer PROVE Viewing(c)' /\ Typed(c)'
  <2>1. Viewing(c)'
    BY <1>1, <1>5, <1>11 DEF OfClient, Viewing
  <2>2. Typed(c)'
    BY <1>1, <1>2, <1>3, <1>5, <1>11 DEF OfClient, Typed, ChannelOf
  <2> QED BY <2>1, <2>2
<1>12. ASSUME c \in Raspi PROVE Filming(c)' /\ Sending(c)' /\ Wanted(c)'
  <2>1. Filming(c)' /\ Wanted(c)'
    BY <1>5, <1>6, <1>12 DEF Filming, Wanted
  <2>2. Sending(c)'
    BY <1>1, <1>5, <1>12, AheadAssumption DEF OfClient, Sending
  <2> QED BY <2>1, <2>2
<1>13. OfClient(c)'
  BY <1>9, <1>10, <1>11, <1>12 DEF OfClient
<1> QED BY <1>3, <1>7, <1>8, <1>13, OneClient

\* A client has read a packet, as a viewer in the order of its requests, as a
\* raspi so that it streams for nobody it would not have streamed for.
LEMMA TakeKeeps ==
    ASSUME WInv, NEW c \in Client, NEW next, Take(c, next),
           pc[c] # "off", box[c] # <<>>,
           \/ /\ c \in Viewer /\ UNCHANGED raspi
              /\ \/ pc[c] = "list" /\ next = "choose"
                 \/ pc[c] \in {"bridge", "watch"} /\ next = "watch"
           \/ /\ c \in Raspi /\ next = "main"
              /\ streaming' \in [Raspi -> BOOLEAN] /\ camera' \in [Raspi -> BOOLEAN]
              /\ remotefd' \in [Raspi -> FD \cup {0}]
              /\ \A d \in Raspi \ {c} : /\ streaming'[d] = streaming[d]
                                        /\ camera'[d] = camera[d]
                                        /\ remotefd'[d] = remotefd[d]
              /\ streaming'[c] \/ camera'[c] => remotefd'[c] \in FD
              /\ \A f \in FD : WillStream(c, f)' => WillStream(c, f)
    PROVE  WInv'
<1>1. TypeOK /\ OfClient(c) /\ (c \in Viewer <=> c \notin Raspi)
  BY ClientAssumption DEF WInv, Client
<1>2. /\ server' = server /\ broken' = broken /\ conn' = conn /\ starts' = starts
      /\ ignored' = ignored /\ link' = link /\ out' = out
      /\ pc' = [pc EXCEPT ![c] = next] /\ box' = [box EXCEPT ![c] = Tail(box[c])]
  BY DEF Take, ghost
<1>3. /\ pc'[c] = next /\ box'[c] = Tail(box[c])
      /\ \A d \in Client \ {c} : pc'[d] = pc[d] /\ box'[d] = box[d]
  BY <1>1, <1>2 DEF TypeOK
<1>4. /\ Tail(box[c]) \in Seq(Packet) /\ Len(box[c]) \in Nat
      /\ Len(Tail(box[c])) = Len(box[c]) - 1
  BY <1>1, TailOf DEF TypeOK
<1>5. /\ streaming' \in [Raspi -> BOOLEAN] /\ camera' \in [Raspi -> BOOLEAN]
      /\ remotefd' \in [Raspi -> FD \cup {0}]
  BY <1>1 DEF TypeOK, raspi
<1>6. TypeOK'
  <2>1. box' \in [Client -> Seq(Packet)]
    BY <1>1, <1>2, <1>4 DEF TypeOK
  <2>2. pc' \in [Client -> ViewerPC \cup RaspiPC]
    BY <1>1, <1>2 DEF TypeOK, ViewerPC, RaspiPC
  <2>3. ASSUME NEW d \in Client PROVE Len(box'[d]) <= QUEUE
    <3>1. Len(box[d]) <= QUEUE /\ QUEUE \in Nat
      BY <1>1, QueueAssumption DEF TypeOK
    <3>2. CASE d = c
      <4>1. Len(box'[d]) = Len(box[d]) - 1 /\ Len(box[d]) \in Nat
        BY <1>3, <1>4, <3>2
      <4> QED BY <3>1, <4>1
    <3> QED BY <1>3, <3>1, <3>2
  <2> QED BY <1>1, <1>2, <1>5, <2>1, <2>2, <2>3 DEF TypeOK
<1>7. \A d \in Client \ {c} : Same(d)
  BY <1>1, <1>2, <1>3 DEF Same, raspi
<1>8. At(c)' /\ Linked(c)' /\ Answered(c)' /\ Unbridged(c)'
  <2>1. At(c)'
    BY <1>1, <1>2, <1>3 DEF OfClient, At, ViewerPC, RaspiPC
  <2>2. Linked(c)' /\ Answered(c)'
    BY <1>1, <1>2, <1>3 DEF OfClient, Linked, Answered
  <2>3. Unbridged(c)'
    BY <1>1, <1>2, <1>3 DEF OfClient, Unbridged, Choosing
  <2> QED BY <2>1, <2>2, <2>3
<1>9. c \in Viewer => Viewing(c)' /\ Typed(c)'
  BY <1>1, <1>2, <1>3 DEF OfClient, Viewing, Typed, ChannelOf
<1>10. c \in Raspi => Filming(c)' /\ Sending(c)' /\ Wanted(c)'
  <2>1. c \in Raspi => Filming(c)' /\ Sending(c)'
    BY <1>1, <1>2, <1>3 DEF OfClient, Filming, Sending
  <2>2. c \in Raspi => Wanted(c)'
    BY <1>1, <1>2 DEF OfClient, Wanted, ChannelOf
  <2> QED BY <2>1, <2>2
<1>11. OfClient(c)'
  BY <1>8, <1>9, <1>10 DEF OfClient
<1> QED BY <1>2, <1>6, <1>7, <1>11, OneClient

\* A viewer reads the list, the result, or a frame.
LEMMA ViewerTakesKeeps ==
    ASSUME WInv, NEW v \in Viewer, ViewerTakes(v)
    PROVE  WInv'
<1>1. v \in Client
  BY DEF Client
<1>2. CASE TakeList(v)
  BY <1>1, <1>2, TakeKeeps DEF TakeList
<1>3. CASE TakeResult(v)
  BY <1>1, <1>3, TakeKeeps, QuitKeeps DEF TakeResult
<1>4. CASE TakeFrame(v)
  BY <1>1, <1>4, TakeKeeps DEF TakeFrame
<1> QED BY <1>2, <1>3, <1>4 DEF ViewerTakes

\* What a raspi does with a notification is what WillStream foresees.
LEMMA RaspiTakesKeeps ==
    ASSUME WInv, NEW r \in Raspi, RaspiTakes(r)
    PROVE  WInv'
<1>1. r \in Client /\ TypeOK /\ OfClient(r)
  BY DEF WInv, Client
<1>2. /\ box[r] # <<>> /\ pc[r] \in {"reg", "main"}
      /\ box[r] \in Seq(Packet)
  BY <1>1 DEF RaspiTakes, TakeRegistered, TakeRestart, TakeStart, TakeOther, TypeOK
<1>3. Head(box[r]) \in Packet
  BY <1>2
<1> DEFINE p == Head(box[r])
           Expected == \A f \in FD : WillStream(r, f)' => WillStream(r, f)
<1>4. ASSUME box'[r] = Tail(box[r]), streaming'[r] \in BOOLEAN,
             \A f \in FD : streaming'[r] /\ remotefd'[r] = f =>
                IF p.cmd = "START_SEND_DATA_NTF" THEN p.arg = f
                ELSE StreamsTo(r, f) /\ p.cmd # "RESTART_CLIENT_NTF"
      PROVE  Expected
  <2> SUFFICES ASSUME NEW f \in FD, WillStream(r, f)' PROVE WillStream(r, f)
    OBVIOUS
  <2> DEFINE x == StreamsTo(r, f)
             y == streaming'[r] /\ remotefd'[r] = f
  <2>1. x \in BOOLEAN /\ y \in BOOLEAN
    BY DEF StreamsTo
  <2>2. StreamsAfter(Tail(box[r]), f, y)
    BY <1>4 DEF WillStream, StreamsTo
  <2>3. y => IF p.cmd = "START_SEND_DATA_NTF" THEN p.arg = f
             ELSE x /\ p.cmd # "RESTART_CLIENT_NTF"
    BY <1>4
  <2> HIDE DEF x, y
  <2>4. StreamsAfter(box[r], f, x)
    BY <1>2, <2>1, <2>2, <2>3, AfterFirst
  <2> QED BY <2>4 DEF WillStream, x
<1>5. ASSUME NEW next, Take(r, next) PROVE box'[r] = Tail(box[r])
  BY <1>1, <1>5 DEF Take, TypeOK
<1>6. ASSUME UNCHANGED raspi
      PROVE  /\ streaming' = streaming /\ camera' = camera /\ remotefd' = remotefd
             /\ streaming' \in [Raspi -> BOOLEAN] /\ camera' \in [Raspi -> BOOLEAN]
             /\ remotefd' \in [Raspi -> FD \cup {0}]
             /\ streaming'[r] \/ camera'[r] => remotefd'[r] \in FD
  BY <1>1, <1>6 DEF raspi, TypeOK, OfClient, Filming
<1> HIDE DEF p, Expected
<1>7. CASE TakeRegistered(r)
  <2>1. CASE Quit(r, Tail(box[r]))
    BY <1>1, <1>2, <2>1, QuitKeeps
  <2>2. CASE Take(r, "main") /\ UNCHANGED raspi
    <3>1. ~streaming[r]
      BY <1>1, <1>7 DEF TakeRegistered, OfClient, Filming
    <3>2. Expected
      BY <1>4, <1>5, <1>6, <2>2, <3>1
    <3> QED BY <1>1, <1>2, <1>6, <2>2, <3>2, TakeKeeps DEF Expected
  <2> QED BY <1>7, <2>1, <2>2 DEF TakeRegistered
<1>8. CASE TakeRestart(r)
  <2>1. /\ Take(r, "main") /\ p.cmd = "RESTART_CLIENT_NTF"
        /\ streaming' = [streaming EXCEPT ![r] = FALSE]
        /\ camera' = camera /\ remotefd' = remotefd
    BY <1>8 DEF TakeRestart, p
  <2>2. /\ streaming' \in [Raspi -> BOOLEAN] /\ ~streaming'[r]
        /\ \A d \in Raspi \ {r} : streaming'[d] = streaming[d]
    BY <1>1, <2>1 DEF TypeOK
  <2>3. Expected
    BY <1>4, <1>5, <2>1, <2>2
  <2>4. /\ camera' \in [Raspi -> BOOLEAN] /\ remotefd' \in [Raspi -> FD \cup {0}]
        /\ streaming'[r] \/ camera'[r] => remotefd'[r] \in FD
    BY <1>1, <2>1, <2>2 DEF TypeOK, OfClient, Filming
  <2> QED BY <1>1, <1>2, <2>1, <2>2, <2>3, <2>4, TakeKeeps DEF Expected
<1>9. CASE TakeStart(r)
  <2>1. /\ Take(r, "main") /\ p.cmd = "START_SEND_DATA_NTF"
        /\ streaming' = [streaming EXCEPT ![r] = TRUE]
        /\ camera' = [camera EXCEPT ![r] = TRUE]
        /\ remotefd' = [remotefd EXCEPT ![r] = p.arg]
    BY <1>9 DEF TakeStart, p
  <2>2. p.arg \in FD
    BY <1>3, <2>1 DEF Packet, p
  <2>3. /\ streaming' \in [Raspi -> BOOLEAN] /\ camera' \in [Raspi -> BOOLEAN]
        /\ remotefd' \in [Raspi -> FD \cup {0}] /\ remotefd'[r] = p.arg
        /\ \A d \in Raspi \ {r} : /\ streaming'[d] = streaming[d]
                                  /\ camera'[d] = camera[d]
                                  /\ remotefd'[d] = remotefd[d]
    BY <1>1, <2>1, <2>2 DEF TypeOK
  <2>4. Expected
    BY <1>4, <1>5, <2>1, <2>3
  <2> QED BY <1>1, <1>2, <2>1, <2>2, <2>3, <2>4, TakeKeeps DEF Expected
<1>10. CASE TakeOther(r)
  <2>1. /\ Take(r, "main") /\ UNCHANGED raspi
        /\ p.cmd \notin {"RESTART_CLIENT_NTF", "START_SEND_DATA_NTF"}
    BY <1>10 DEF TakeOther, p
  <2>2. streaming'[r] \in BOOLEAN
    BY <1>6, <2>1
  <2>3. Expected
    BY <1>4, <1>5, <1>6, <2>1, <2>2 DEF StreamsTo
  <2> QED BY <1>1, <1>2, <1>6, <2>1, <2>3, TakeKeeps DEF Expected
<1> QED BY <1>7, <1>8, <1>9, <1>10 DEF RaspiTakes

\* A client has sent a packet: a viewer its choice, a raspi one of a frame.
LEMMA SendKeeps ==
    ASSUME WInv, NEW c \in Client, NEW p \in Packet, SendPkg(c, p),
           UNCHANGED <<server, link, conn, box, raspi, ghost, starts>>,
           pc' \in [Client -> ViewerPC \cup RaspiPC],
           \A d \in Client \ {c} : pc'[d] = pc[d],
           \/ /\ c \in Viewer /\ IsChoice(p)
              /\ pc[c] = "choose" /\ pc'[c] = "bridge"
           \/ /\ c \in Raspi /\ IsFrame(p) /\ Len(out[c]) < AHEAD
              /\ pc[c] = "main" /\ pc'[c] = "main"
    PROVE  WInv'
<1>1. TypeOK /\ OfClient(c) /\ (c \in Viewer <=> c \notin Raspi)
  BY ClientAssumption DEF WInv, Client
<1>2. /\ server' = server /\ broken' = broken /\ conn' = conn /\ starts' = starts
      /\ ignored' = ignored /\ link' = link /\ box' = box
      /\ streaming' = streaming /\ camera' = camera /\ remotefd' = remotefd
  BY DEF raspi, ghost
<1> DEFINE b == out[c]
           q == Append(out[c], p)
<1>0. b \in Seq(Packet)
  BY <1>1 DEF TypeOK
<1>3. /\ b \in Seq(Packet) /\ q \in Seq(Packet) /\ Len(b) \in Nat /\ Len(q) = Len(b) + 1
      /\ q # <<>> /\ \A i \in 1 .. Len(b) : q[i] = b[i]
      /\ q[Len(b) + 1] = p
      /\ DOMAIN b = 1 .. Len(b) /\ DOMAIN q = 1 .. Len(b) + 1
  BY <1>0, Appended
<1>4. /\ out'[c] \in {b, q} /\ out' \in [Client -> Seq(Packet)]
      /\ link[c] = "up" => out'[c] = q
      /\ \A d \in Client \ {c} : out'[d] = out[d]
  BY <1>1, <1>3 DEF SendPkg, TypeOK
<1> HIDE DEF q
<1>5. Len(b) <= AHEAD + 1 /\ (c \in Viewer => Len(b) <= 1)
  BY <1>1 DEF TypeOK, OfClient, Viewing
<1>6. TypeOK'
  <2>1. ASSUME NEW d \in Client PROVE Len(out'[d]) <= AHEAD + 1
    <3>1. Len(out[d]) <= AHEAD + 1
      BY <1>1 DEF TypeOK
    <3>2. CASE d = c
      <4>1. Len(q) <= AHEAD + 1
        BY <1>1, <1>3, <1>5, AheadAssumption
      <4> QED BY <1>4, <1>5, <3>2, <4>1
    <3> QED BY <1>4, <3>1, <3>2
  <2> QED BY <1>1, <1>2, <1>4, <2>1 DEF TypeOK
<1>7. \A d \in Client \ {c} : Same(d)
  BY <1>2, <1>4 DEF Same
<1>8. At(c)' /\ Linked(c)' /\ Answered(c)' /\ Unbridged(c)'
  <2>1. At(c)'
    BY <1>1, <1>2 DEF OfClient, At, ViewerPC, RaspiPC
  <2>2. Linked(c)'
    <3>1. ~(conn[c] = NULL /\ link[c] = "up")
      BY <1>1 DEF OfClient, Linked
    <3> QED BY <1>1, <1>2, <3>1 DEF OfClient, Linked
  <2>3. Answered(c)'
    BY <1>2, <1>3, <1>4 DEF Answered
  <2>4. Choosing(c) \/ c \in Raspi
    BY DEF Choosing
  <2>5. Unbridged(c)'
    BY <1>1, <1>2, <2>4 DEF OfClient, Unbridged
  <2> QED BY <2>1, <2>2, <2>3, <2>5
<1>9. ASSUME c \in Viewer PROVE Viewing(c)' /\ Typed(c)'
  <2>1. \A i \in DOMAIN b : i = 1 /\ IsRegistration(b[i], 1)
    BY <1>1, <1>9 DEF OfClient, Viewing
  <2>2. ASSUME NEW s \in {b, q}
        PROVE  Len(s) <= 2 /\ \A i \in DOMAIN s : \/ i = 1 /\ IsRegistration(s[i], 1)
                                                  \/ i = Len(s) /\ IsChoice(s[i])
    BY <1>1, <1>3, <1>5, <1>9, <2>1
  <2>3. Viewing(c)'
    BY <1>1, <1>4, <1>9, <2>2 DEF Viewing
  <2>4. Typed(c)'
    <3>1. b # <<>> => q[1] = b[1]
      BY <1>3
    <3> QED BY <1>1, <1>2, <1>3, <1>4, <1>9, <3>1 DEF OfClient, Typed, ChannelOf
  <2> QED BY <2>3, <2>4
<1>10. ASSUME c \in Raspi PROVE Filming(c)' /\ Sending(c)' /\ Wanted(c)'
  <2>1. Filming(c)'
    BY <1>1, <1>2, <1>10 DEF OfClient, Filming
  <2>2. Len(b) <= AHEAD /\ \A i \in DOMAIN b : IsRegistration(b[i], 0) \/ IsFrame(b[i])
    BY <1>1, <1>10 DEF OfClient, Sending
  <2>3. ASSUME NEW s \in {b, q}
        PROVE  /\ Len(s) <= AHEAD
               /\ \A i \in DOMAIN s : IsRegistration(s[i], 0) \/ IsFrame(s[i])
    <3>1. Len(b) < AHEAD /\ IsFrame(p)
      BY <1>1, <1>10
    <3>2. Len(q) <= AHEAD
      BY <1>3, <3>1, AheadAssumption
    <3>3. \A i \in DOMAIN q : IsRegistration(q[i], 0) \/ IsFrame(q[i])
      BY <1>3, <2>2, <3>1
    <3> QED BY <2>2, <3>2, <3>3
  <2>4. Sending(c)'
    BY <1>1, <1>4, <1>10, <2>3 DEF Sending
  <2>5. Wanted(c)'
    BY <1>1, <1>2, <1>10
    DEF OfClient, Wanted, WillStream, StreamsTo, ChannelOf
  <2> QED BY <2>1, <2>4, <2>5
<1>11. OfClient(c)'
  BY <1>8, <1>9, <1>10 DEF OfClient
<1> QED BY <1>2, <1>6, <1>7, <1>11, OneClient

\* A user chooses; the viewer has only its registration under way, if that.
LEMMA ChooseKeeps ==
    ASSUME WInv, NEW v \in Viewer, Choose(v)
    PROVE  WInv'
<1>1. PICK f \in Choice, h \in StackFd :
         SendPkg(v, [cmd |-> "CHOOSE_SERVER_REQ", fd |-> h, arg |-> f])
  BY DEF Choose
<1> DEFINE p == [cmd |-> "CHOOSE_SERVER_REQ", fd |-> h, arg |-> f]
<1>2. p \in Packet /\ IsChoice(p)
  BY ChoiceAssumption DEF Packet, PKG_CMD_TYPE, IsChoice
<1> HIDE DEF p
<1>3. v \in Client /\ TypeOK
  BY DEF WInv, Client
<1>4. /\ pc' \in [Client -> ViewerPC \cup RaspiPC] /\ pc[v] = "choose"
      /\ pc'[v] = "bridge" /\ \A d \in Client \ {v} : pc'[d] = pc[d]
      /\ UNCHANGED <<server, link, conn, box, raspi, ghost, starts>>
  BY <1>3 DEF Choose, TypeOK, ViewerPC
<1>5. SendPkg(v, p)
  BY <1>1 DEF p
<1> QED BY <1>2, <1>3, <1>4, <1>5, SendKeeps

\* A camera thread sends a packet, whatever else is under way.
LEMMA FrameKeeps ==
    ASSUME WInv, NEW r \in Raspi, Frame(r)
    PROVE  WInv'
<1> DEFINE p == [cmd |-> "STREAM_DATA_NTF", fd |-> remotefd[r], arg |-> 0]
<1>1. r \in Client /\ TypeOK /\ OfClient(r)
  BY DEF WInv, Client
<1>2. camera[r] /\ pc[r] = "main" /\ remotefd[r] \in FD
  BY <1>1 DEF Frame, OfClient, Filming
<1>3. p \in Packet /\ IsFrame(p)
  BY <1>2 DEF Packet, PKG_CMD_TYPE, IsFrame
<1>4. SendPkg(r, p)
  BY DEF Frame
<1> HIDE DEF p
<1>5. /\ pc' = pc /\ Len(out[r]) < AHEAD
      /\ UNCHANGED <<server, link, conn, box, raspi, ghost, starts>>
  BY DEF Frame
<1>6. pc' \in [Client -> ViewerPC \cup RaspiPC]
  BY <1>1, <1>5 DEF TypeOK
<1> QED BY <1>1, <1>2, <1>3, <1>4, <1>5, <1>6, SendKeeps

\* The last camera thread ends.
LEMMA CameraEndsKeeps ==
    ASSUME WInv, NEW r \in Raspi, CameraEnds(r)
    PROVE  WInv'
<1>1. r \in Client /\ TypeOK /\ OfClient(r) /\ (r \in Viewer <=> r \notin Raspi)
  BY ClientAssumption DEF WInv, Client
<1>2. /\ server' = server /\ broken' = broken /\ conn' = conn /\ starts' = starts
      /\ ignored' = ignored /\ link' = link /\ box' = box /\ out' = out /\ pc' = pc
      /\ streaming' = streaming /\ remotefd' = remotefd
      /\ camera' = [camera EXCEPT ![r] = FALSE]
  BY DEF CameraEnds, ghost, net
<1>3. /\ camera' \in [Raspi -> BOOLEAN] /\ ~camera'[r]
      /\ \A d \in Raspi \ {r} : camera'[d] = camera[d]
  BY <1>1, <1>2 DEF TypeOK
<1>4. TypeOK'
  BY <1>1, <1>2, <1>3 DEF TypeOK
<1>5. \A d \in Client \ {r} : Same(d)
  BY <1>2, <1>3 DEF Same
<1>6. At(r)' /\ Linked(r)' /\ Answered(r)' /\ Unbridged(r)'
  <2>1. At(r)' /\ Linked(r)' /\ Answered(r)'
    BY <1>1, <1>2 DEF OfClient, At, Linked, Answered
  <2>2. Unbridged(r)'
    BY <1>1, <1>2 DEF OfClient, Unbridged
  <2> QED BY <2>1, <2>2
<1>7. Filming(r)' /\ Sending(r)' /\ Wanted(r)'
  <2>1. Filming(r)' /\ Sending(r)'
    BY <1>1, <1>2, <1>3 DEF OfClient, Filming, Sending
  <2>2. Wanted(r)'
    BY <1>1, <1>2 DEF OfClient, Wanted, WillStream, StreamsTo, ChannelOf
  <2> QED BY <2>1, <2>2
<1>8. OfClient(r)'
  BY <1>1, <1>6, <1>7 DEF OfClient
<1> QED BY <1>1, <1>2, <1>4, <1>5, <1>8, OneClient

-----------------------------------------------------------------------------
(* Steps of the server.                                                    *)

\* The connection of c ends with a step of the server to t.
Parted(c, t) ==
    \/ conn[c] # NULL /\ conn[c] \notin t.open
    \/ link[c] # "none" /\ t.run # "up"

\* What the step does to client c.
Served(c, t, k, o) ==
    /\ Parted(c, t) => /\ conn'[c] = NULL /\ out'[c] = <<>>
                       /\ link'[c] = IF link[c] \in Left THEN "none" ELSE "cut"
    /\ ~Parted(c, t) => /\ conn'[c] = k[c] /\ out'[c] = o[c]
                        /\ \/ link'[c] = link[c]
                           \/ link[c] = "closed" /\ link'[c] = "dead"
    /\ box'[c] = IF conn[c] # NULL /\ link[c] = "up"
                 THEN box[c] \o t.inbox[conn[c]] ELSE box[c]
    /\ Len(box'[c]) <= QUEUE

\* Become, for one client: its connection may end, and it may get packets.
LEMMA BecomeServes ==
    ASSUME TypeOK, NEW t, NEW k, NEW o, Become(t, k, o), NEW c \in Client
    PROVE  Served(c, t, k, o)
<1>1. box[c] \o <<>> = box[c]
  BY DEF TypeOK
<1>2. /\ conn'[c] = IF Parted(c, t) THEN NULL ELSE k[c]
      /\ out'[c] = IF Parted(c, t) THEN <<>> ELSE o[c]
  BY DEF Become, Parted
<1>3. link'[c] = IF Parted(c, t)
                 THEN IF link[c] \in Left THEN "none" ELSE "cut"
                 ELSE IF /\ link[c] = "closed"
                         /\ conn[c] # NULL /\ t.inbox[conn[c]] # <<>> THEN "dead"
                 ELSE link[c]
  BY DEF Become, Parted
<1>4. box'[c] = IF (conn[c] # NULL /\ t.inbox[conn[c]] # <<>>) /\ link[c] = "up"
                THEN box[c] \o t.inbox[conn[c]] ELSE box[c]
  BY DEF Become
<1>5. Len(box'[c]) <= QUEUE
  BY DEF Become
<1> QED BY <1>1, <1>2, <1>3, <1>4, <1>5 DEF Served

\* What was sent has been handed to the clients.
LEMMA EmptyInbox ==
    ASSUME NEW t, Smooth(t), NEW u, u = [t EXCEPT !.inbox = [f \in FD |-> <<>>]]
    PROVE  /\ Smooth(u) /\ Quiet(u)
           /\ u.channel = t.channel /\ u.channel_map = t.channel_map
           /\ u.bridge_map = t.bridge_map /\ u.open = t.open /\ u.run = t.run
<1>1. Good(t) /\ t \in State
  BY DEF Smooth, Good
<1>2. [f \in FD |-> <<>>] \in [FD -> Seq(Pkg)]
  OBVIOUS
<1>3. u \in State
  BY <1>1, <1>2 DEF State
<1>4. /\ u.channel = t.channel /\ u.channel_map = t.channel_map
      /\ u.bridge_map = t.bridge_map /\ u.open = t.open /\ u.run = t.run
      /\ u.wire = t.wire
  BY <1>1 DEF State
<1>5. u.inbox = [f \in FD |-> <<>>]
  BY <1>1 DEF State
<1>6. Quiet(u)
  BY <1>5 DEF Quiet
<1>7. MapSound(u) /\ NoLeak(u) /\ Addressed(u) /\ Located(u)
  BY <1>1, <1>4 DEF Good, MapSound, NoLeak, Addressed, Located
<1>8. Watched(u) /\ (\A f \in FD : u.wire[f] = Clean) /\ u.run # "undef"
  BY <1>4 DEF Smooth, Watched
<1> QED BY <1>3, <1>4, <1>6, <1>7, <1>8 DEF Smooth, Good

\* Connections are only added for clients that wait, and only the first packet
\* of a client is read: whatever the step is, this much of the invariant stays.
LEMMA BecomeKeeps ==
    ASSUME WInv, NEW t, NEW k, NEW o, Become(t, k, o), Smooth(t),
           k \in [Client -> FD \cup {NULL}],
           \A c, d \in Client : k[c] = k[d] /\ k[c] # NULL => c = d,
           \A c \in Client : \/ k[c] = conn[c]
                             \/ /\ conn[c] = NULL /\ link[c] \in {"up", "closed"}
                                /\ k[c] \in t.open \/ t.run # "up",
           \A c \in Client : o[c] = out[c] \/ (out[c] # <<>> /\ o[c] = Tail(out[c])),
           \A f \in FD : t.inbox[f] \in Seq(Packet),
           ignored' \subseteq Viewer, broken' \in BOOLEAN
    PROVE  /\ TypeOK' /\ Smooth(server)' /\ Quiet(server)' /\ Apart'
           /\ \A c \in Client :
                /\ At(c)' /\ Linked(c)' /\ Served(c, t, k, o)
                /\ c \in Viewer => Viewing(c)'
                /\ c \in Raspi => Filming(c)' /\ Sending(c)'
           /\ server'.channel = t.channel /\ server'.channel_map = t.channel_map
           /\ server'.bridge_map = t.bridge_map /\ server'.open = t.open
<1>1. TypeOK /\ \A c \in Client : OfClient(c)
  BY DEF WInv
<1>2. /\ server' = [t EXCEPT !.inbox = [f \in FD |-> <<>>]]
      /\ pc' = pc /\ streaming' = streaming /\ camera' = camera
      /\ remotefd' = remotefd /\ starts' = starts
  BY DEF Become, raspi
<1>3. /\ Smooth(server)' /\ Quiet(server)'
      /\ server'.channel = t.channel /\ server'.channel_map = t.channel_map
      /\ server'.bridge_map = t.bridge_map /\ server'.open = t.open
  BY <1>2, EmptyInbox
<1>4. ASSUME NEW c \in Client PROVE Served(c, t, k, o)
  BY <1>1, BecomeServes
<1>5. ASSUME NEW c \in Client
      PROVE  /\ out[c] \in Seq(Packet) /\ o[c] \in Seq(Packet)
             /\ Len(out[c]) \in Nat /\ Len(o[c]) <= Len(out[c])
             /\ out'[c] \in {<<>>, o[c]} /\ Len(out'[c]) <= Len(out[c])
             /\ \/ o[c] = out[c]
                \/ /\ Len(o[c]) = Len(out[c]) - 1
                   /\ \A i \in 1 .. Len(out[c]) - 1 : o[c][i] = out[c][i + 1]
  <2>1. out[c] \in Seq(Packet)
    BY <1>1 DEF TypeOK
  <2>2. Len(out[c]) \in Nat
    BY <2>1
  <2>3. CASE o[c] = out[c]
    BY <1>4, <2>1, <2>2, <2>3 DEF Served
  <2>4. CASE out[c] # <<>> /\ o[c] = Tail(out[c])
    <3>1. /\ o[c] \in Seq(Packet) /\ Len(o[c]) = Len(out[c]) - 1
          /\ \A i \in 1 .. Len(out[c]) - 1 : o[c][i] = out[c][i + 1]
          /\ Len(o[c]) \in Nat
      BY <2>1, <2>4, TailOf
    <3>2. out'[c] \in {<<>>, o[c]}
      BY <1>4 DEF Served
    <3> QED BY <2>1, <2>2, <3>1, <3>2
  <2> QED BY <2>3, <2>4
<1>6. TypeOK'
  <2>1. out' \in [Client -> Seq(Packet)]
    <3>1. out' = [c \in Client |-> out'[c]]
      BY DEF Become
    <3>2. ASSUME NEW c \in Client PROVE out'[c] \in Seq(Packet)
      <4>1. o[c] \in Seq(Packet) /\ out'[c] \in {<<>>, o[c]} /\ <<>> \in Seq(Packet)
        BY <1>5
      <4> QED BY <4>1
    <3> QED BY <3>1, <3>2
  <2>2. box' \in [Client -> Seq(Packet)]
    <3>1. box' = [c \in Client |-> box'[c]]
      BY DEF Become
    <3>2. ASSUME NEW c \in Client PROVE box'[c] \in Seq(Packet)
      <4>1. box[c] \in Seq(Packet) /\ conn[c] \in FD \cup {NULL}
        BY <1>1 DEF TypeOK
      <4>2. CASE conn[c] # NULL /\ link[c] = "up"
        <5>1. t.inbox[conn[c]] \in Seq(Packet)
          BY <4>1, <4>2
        <5>2. box'[c] = box[c] \o t.inbox[conn[c]]
          BY <1>4, <4>2 DEF Served
        <5> QED BY <4>1, <5>1, <5>2
      <4> QED BY <1>4, <4>1, <4>2 DEF Served
    <3> QED BY <3>1, <3>2
  <2>3. conn' \in [Client -> FD \cup {NULL}]
    <3>1. conn' = [c \in Client |-> conn'[c]]
      BY DEF Become
    <3>2. \A c \in Client : conn'[c] \in FD \cup {NULL}
      BY <1>4 DEF Served
    <3> QED BY <3>1, <3>2
  <2>4. link' \in [Client -> Link]
    <3>1. link' = [c \in Client |-> link'[c]]
      BY DEF Become
    <3>2. \A c \in Client : link'[c] \in Link
      BY <1>1, <1>4 DEF Served, TypeOK, Link
    <3> QED BY <3>1, <3>2
  <2>5. ASSUME NEW c \in Client
        PROVE  Len(out'[c]) <= AHEAD + 1 /\ Len(box'[c]) <= QUEUE
    <3>1. Len(out[c]) <= AHEAD + 1
      BY <1>1 DEF TypeOK
    <3>2. Len(out'[c]) \in Nat /\ Len(out[c]) \in Nat
      BY <1>5
    <3> QED BY <1>4, <1>5, <3>1, <3>2, AheadAssumption DEF Served
  <2>6. server' \in State
    BY <1>3 DEF Smooth, Good
  <2> QED BY <1>1, <1>2, <2>1, <2>2, <2>3, <2>4, <2>5, <2>6 DEF TypeOK
<1>7. Apart'
  <2>1. \A c \in Client : conn'[c] \in {k[c], NULL}
    BY <1>4 DEF Served
  <2> QED BY <2>1 DEF Apart
<1>8. ASSUME NEW c \in Client PROVE At(c)' /\ Linked(c)'
  <2>1. At(c) /\ Linked(c) /\ link[c] \in Link
    BY <1>1 DEF OfClient, TypeOK
  <2>2. Served(c, t, k, o)
    BY <1>4
  <2>3. At(c)'
    <3>1. c \in Viewer => pc'[c] \in ViewerPC
      BY <1>2, <2>1 DEF At
    <3>2. c \in Raspi => pc'[c] \in RaspiPC
      BY <1>2, <2>1 DEF At
    <3>3. CASE pc[c] = "off"
      <4>1. box'[c] = <<>>
        BY <2>1, <2>2, <3>3 DEF At, Served
      <4>2. Parted(c, t) => link[c] \in Left
        BY <2>1, <3>3 DEF At, Linked, Parted, Link, Left
      <4>3. link'[c] \notin {"up", "cut"}
        BY <2>1, <2>2, <3>3, <4>2 DEF At, Served
      <4> QED BY <1>2, <3>1, <3>2, <3>3, <4>1, <4>3 DEF At
    <3>4. CASE pc[c] # "off"
      <4>1. link'[c] \in {"up", "cut"}
        BY <2>1, <2>2, <3>4 DEF At, Served, Left
      <4> QED BY <1>2, <3>1, <3>2, <3>4, <4>1 DEF At
    <3> QED BY <3>3, <3>4
  <2>4. Linked(c)'
    <3>1. conn'[c] # NULL => conn'[c] \in t.open
      BY <2>2 DEF Served, Parted
    <3>2. conn'[c] # NULL => link'[c] \notin {"none", "cut"}
      BY <2>1, <2>2 DEF Served, Linked
    <3>3. ASSUME conn'[c] = NULL, link'[c] = "up"
          PROVE  box'[c] = <<>> /\ pc'[c] \in {"list", "reg"}
      <4>1. ~Parted(c, t) /\ link[c] = "up" /\ k[c] = NULL
        BY <2>2, <3>3 DEF Served
      <4>2. conn[c] = NULL
        <5>1. t.run = "up"
          BY <4>1 DEF Parted
        <5>2. t.open \subseteq FD
          BY Parts DEF Smooth
        <5> QED BY <4>1, <5>1, <5>2, NullNotFD
      <4> QED BY <1>2, <2>1, <2>2, <4>1, <4>2 DEF Served, Linked
    <3> QED BY <1>3, <3>1, <3>2, <3>3 DEF Linked
  <2> QED BY <2>3, <2>4
<1>9. ASSUME NEW c \in Viewer PROVE Viewing(c)'
  <2>1. c \in Client /\ Viewing(c)
    BY <1>1 DEF Client, OfClient
  <2>2. /\ out'[c] \in {<<>>, o[c]} /\ Len(out[c]) \in Nat
        /\ Len(o[c]) <= Len(out[c]) /\ o[c] \in Seq(Packet)
        /\ \/ o[c] = out[c]
           \/ /\ Len(o[c]) = Len(out[c]) - 1
              /\ \A i \in 1 .. Len(out[c]) - 1 : o[c][i] = out[c][i + 1]
    BY <1>5, <2>1
  <2>3. out[c] \in Seq(Packet) /\ DOMAIN out[c] = 1 .. Len(out[c])
        /\ DOMAIN o[c] = 1 .. Len(o[c])
    BY <1>5, <2>1
  <2>4. ASSUME NEW i \in DOMAIN o[c]
        PROVE  \/ i = 1 /\ IsRegistration(o[c][i], 1)
               \/ /\ i = Len(o[c]) /\ IsChoice(o[c][i])
                  /\ pc[c] \notin {"list", "choose"}
    <3>1. CASE o[c] = out[c]
      BY <2>1, <3>1 DEF Viewing
    <3>2. CASE /\ Len(o[c]) = Len(out[c]) - 1
               /\ \A j \in 1 .. Len(out[c]) - 1 : o[c][j] = out[c][j + 1]
      <4>1. i + 1 \in DOMAIN out[c] /\ i + 1 # 1 /\ o[c][i] = out[c][i + 1]
        BY <2>2, <2>3, <3>2
      <4>2. /\ i + 1 = Len(out[c]) /\ IsChoice(out[c][i + 1])
            /\ pc[c] \notin {"list", "choose"}
        BY <2>1, <4>1 DEF Viewing
      <4> QED BY <2>2, <2>3, <3>2, <4>1, <4>2
    <3> QED BY <2>2, <3>1, <3>2
  <2>5. Len(o[c]) <= IF pc[c] \in {"list", "choose"} THEN 1 ELSE 2
    <3>1. Len(out[c]) <= IF pc[c] \in {"list", "choose"} THEN 1 ELSE 2
      BY <2>1 DEF Viewing
    <3>2. Len(o[c]) \in Nat
      BY <2>2
    <3> QED BY <2>2, <3>1, <3>2
  <2>6. CASE out'[c] = <<>>
    BY <1>2, <2>6 DEF Viewing
  <2>7. CASE out'[c] = o[c]
    BY <1>2, <2>4, <2>5, <2>7 DEF Viewing
  <2> QED BY <2>2, <2>6, <2>7
<1>10. ASSUME NEW r \in Raspi PROVE Filming(r)' /\ Sending(r)'
  <2>1. r \in Client /\ Filming(r) /\ Sending(r)
    BY <1>1 DEF Client, OfClient
  <2>2. /\ out'[r] \in {<<>>, o[r]} /\ Len(out[r]) \in Nat
        /\ Len(o[r]) <= Len(out[r]) /\ o[r] \in Seq(Packet)
        /\ \/ o[r] = out[r]
           \/ /\ Len(o[r]) = Len(out[r]) - 1
              /\ \A i \in 1 .. Len(out[r]) - 1 : o[r][i] = out[r][i + 1]
    BY <1>5, <2>1
  <2>3. out[r] \in Seq(Packet) /\ DOMAIN out[r] = 1 .. Len(out[r])
        /\ DOMAIN o[r] = 1 .. Len(o[r])
    BY <1>5, <2>1
  <2>4. ASSUME NEW i \in DOMAIN o[r]
        PROVE  \/ IsRegistration(o[r][i], 0)
               \/ IsFrame(o[r][i]) /\ pc[r] # "reg"
    <3>1. CASE o[r] = out[r]
      BY <2>1, <3>1 DEF Sending
    <3>2. CASE /\ Len(o[r]) = Len(out[r]) - 1
               /\ \A j \in 1 .. Len(out[r]) - 1 : o[r][j] = out[r][j + 1]
      <4>1. i + 1 \in DOMAIN out[r] /\ o[r][i] = out[r][i + 1]
        BY <2>2, <2>3, <3>2
      <4> QED BY <2>1, <4>1 DEF Sending
    <3> QED BY <2>2, <3>1, <3>2
  <2>5. Len(o[r]) <= AHEAD
    <3>1. Len(out[r]) <= AHEAD
      BY <2>1 DEF Sending
    <3>2. Len(o[r]) \in Nat
      BY <2>2
    <3> QED BY <2>2, <3>1, <3>2, AheadAssumption
  <2>6. CASE out'[r] = <<>>
    BY <1>2, <2>1, <2>6, AheadAssumption DEF Sending, Filming
  <2>7. CASE out'[r] = o[r]
    BY <1>2, <2>1, <2>4, <2>5, <2>7 DEF Sending, Filming
  <2> QED BY <2>2, <2>6, <2>7
<1> QED BY <1>3, <1>4, <1>6, <1>7, <1>8, <1>9, <1>10

\* What a step of the server to t that accepts nobody does to client c, o being
\* what is left to be read.
Passed(c, t, o) ==
    /\ pc'[c] = pc[c]
    /\ c \in Raspi => streaming'[c] = streaming[c] /\ remotefd'[c] = remotefd[c]
    /\ conn'[c] # NULL =>
         /\ conn'[c] = conn[c] /\ conn[c] \in FD
         /\ conn[c] \in server.open /\ conn[c] \in server'.open
         /\ ChannelOf(c) \in Slot /\ ChannelOf(c)' = ChannelOf(c)
    /\ out'[c] \in {o[c], <<>>}
    /\ link'[c] \notin {"none", "cut"} =>
         link[c] \notin {"none", "cut"} /\ conn'[c] = conn[c] /\ out'[c] = o[c]
    /\ link'[c] = "up" =>
         /\ link[c] = "up"
         /\ box'[c] = IF conn[c] # NULL THEN box[c] \o t.inbox[conn[c]] ELSE box[c]

\* The part of the invariant that does not depend on what the step is about.
Continued(t, o) ==
    /\ TypeOK' /\ Smooth(server)' /\ Quiet(server)' /\ Apart'
    /\ server'.channel = t.channel /\ server'.channel_map = t.channel_map
    /\ server'.bridge_map = t.bridge_map /\ server'.open = t.open
    /\ \A d \in Client :
         /\ At(d)' /\ Linked(d)' /\ Passed(d, t, o)
         /\ d \in Viewer => Viewing(d)'
         /\ d \in Raspi => Filming(d)' /\ Sending(d)'
         /\ o[d] = out[d] => Answered(d)'

\* Reading a packet of c takes none of the others'.
LEMMA RestOf ==
    ASSUME TypeOK, NEW c \in Client, NEW o, o = Rest(c)
    PROVE  o[c] = Tail(out[c]) /\ \A d \in Client \ {c} : o[d] = out[d]
BY DEF TypeOK, Rest

\* A step that Follows, and answers, leaves the part of the invariant that does
\* not depend on what it is about.
LEMMA ServeContinues ==
    ASSUME WInv, server.run = "up", NEW c \in Client, NEW t, NEW o,
           Become(t, conn, o), Follows(server, t),
           o = out \/ (out[c] # <<>> /\ o = Rest(c)),
           \A f \in FD : t.inbox[f] \in Seq(Packet),
           ignored \subseteq ignored', ignored' \subseteq Viewer, broken' \in BOOLEAN
    PROVE  Continued(t, o)
<1>1. TypeOK /\ Smooth(server) /\ Apart /\ \A d \in Client : OfClient(d)
  BY DEF WInv
<1>2. Smooth(t) /\ t.run = "up"
  BY <1>1, FollowsSmooth DEF Follows
<1>3. \A d \in Client : o[d] = out[d] \/ (out[d] # <<>> /\ o[d] = Tail(out[d]))
  BY <1>1, RestOf
<1>4. /\ conn \in [Client -> FD \cup {NULL}]
      /\ \A d, e \in Client : conn[d] = conn[e] /\ conn[d] # NULL => d = e
  BY <1>1 DEF TypeOK, Apart
<1>5. /\ TypeOK' /\ Smooth(server)' /\ Quiet(server)' /\ Apart'
      /\ \A d \in Client :
            /\ At(d)' /\ Linked(d)' /\ Served(d, t, conn, o)
            /\ d \in Viewer => Viewing(d)'
            /\ d \in Raspi => Filming(d)' /\ Sending(d)'
      /\ server'.channel = t.channel /\ server'.channel_map = t.channel_map
      /\ server'.bridge_map = t.bridge_map /\ server'.open = t.open
  BY <1>2, <1>3, <1>4, BecomeKeeps
<1>6. pc' = pc /\ streaming' = streaming /\ remotefd' = remotefd
  BY DEF Become, raspi
<1>7. ASSUME NEW d \in Client PROVE Passed(d, t, o)
  <2>1. Served(d, t, conn, o) /\ Linked(d) /\ conn[d] \in FD \cup {NULL}
    BY <1>1, <1>4, <1>5 DEF OfClient
  <2>2. ASSUME conn'[d] # NULL
        PROVE  /\ conn'[d] = conn[d] /\ conn[d] \in FD
               /\ conn[d] \in server.open /\ conn[d] \in server'.open
               /\ ChannelOf(d) \in Slot /\ ChannelOf(d)' = ChannelOf(d)
    <3>1. /\ conn'[d] = conn[d] /\ conn[d] \in FD
          /\ conn[d] \in server.open /\ conn[d] \in t.open
      BY <2>1, <2>2 DEF Served, Parted, Linked
    <3>2. t.channel_map[conn[d]] # NULL
      BY <1>2, <3>1 DEF Smooth, Good, NoLeak
    <3>3. t.channel_map[conn[d]] = server.channel_map[conn[d]]
      BY <3>1, <3>2 DEF Follows
    <3>4. server.channel_map[conn[d]] \in Slot
      BY <1>1, <3>1, <3>2, <3>3, Parts DEF Smooth
    <3> QED BY <1>5, <3>1, <3>3, <3>4 DEF ChannelOf
  <2>3. out'[d] \in {o[d], <<>>}
    BY <2>1 DEF Served
  <2>4. ASSUME link'[d] \notin {"none", "cut"}
        PROVE  link[d] \notin {"none", "cut"} /\ conn'[d] = conn[d] /\ out'[d] = o[d]
    BY <2>1, <2>4 DEF Served
  <2>5. ASSUME link'[d] = "up"
        PROVE  /\ link[d] = "up"
               /\ box'[d] = IF conn[d] # NULL THEN box[d] \o t.inbox[conn[d]] ELSE box[d]
    BY <2>1, <2>5 DEF Served
  <2> QED BY <1>6, <2>2, <2>3, <2>4, <2>5 DEF Passed
<1>8. ASSUME NEW d \in Client, o[d] = out[d] PROVE Answered(d)'
  <2>1. Passed(d, t, o) /\ Answered(d) /\ box[d] \in Seq(Packet)
        /\ conn[d] \in FD \cup {NULL}
    BY <1>1, <1>4, <1>7 DEF OfClient, TypeOK
  <2>2. ASSUME link'[d] = "up", box[d] # <<>> PROVE box'[d] # <<>>
    <3>1. CASE conn[d] = NULL
      BY <2>1, <2>2, <3>1 DEF Passed
    <3>2. CASE conn[d] # NULL
      <4>1. t.inbox[conn[d]] \in Seq(Packet)
        BY <2>1, <3>2
      <4>2. box[d] \o t.inbox[conn[d]] # <<>>
        BY <2>1, <2>2, <4>1, NotEmptied
      <4> QED BY <2>1, <2>2, <3>2, <4>2 DEF Passed
    <3> QED BY <3>1, <3>2
  <2>3. link'[d] = "up" => link[d] = "up" /\ out'[d] = out[d] /\ pc'[d] = pc[d]
    BY <1>8, <2>1 DEF Passed
  <2> QED BY <2>1, <2>2, <2>3 DEF Answered
<1> QED BY <1>5, <1>7, <1>8 DEF Continued

\* The type of a viewer's channel is the one it registered with.
LEMMA TypedStays ==
    ASSUME NEW v \in Viewer, Typed(v), NEW c, NEW t, NEW o, Passed(v, t, o),
           server'.channel = t.channel, SameTypes(server, t),
           \/ o[v] = out[v]
           \/ out[v] # <<>> /\ out[v][1].cmd # "REGISTER_CLIENT_REQ"
    PROVE  Typed(v)'
<1> SUFFICES ASSUME link'[v] \notin {"none", "cut"},
                    ~(out'[v] # <<>> /\ out'[v][1].cmd = "REGISTER_CLIENT_REQ")
             PROVE  /\ conn'[v] # NULL
                    /\ server'.channel[ChannelOf(v)'].type = "CTYPE_REMOTE"
  BY DEF Typed
<1>1. /\ link[v] \notin {"none", "cut"} /\ conn'[v] = conn[v] /\ out'[v] = o[v]
  BY DEF Passed
<1>2. conn[v] # NULL /\ server.channel[ChannelOf(v)].type = "CTYPE_REMOTE"
  BY <1>1 DEF Typed
<1>3. ChannelOf(v)' = ChannelOf(v) /\ ChannelOf(v) \in Slot
  BY <1>1, <1>2 DEF Passed
<1> QED BY <1>1, <1>2, <1>3 DEF SameTypes

\* A bridge that is none yet is not made for a client that has not chosen.
LEMMA UnbridgedStays ==
    ASSUME TypeOK, NEW c \in Client, Unbridged(c), NEW t, NEW o, Passed(c, t, o),
           broken => broken', server'.bridge_map = t.bridge_map,
           o[c] = out[c] \/ (out[c] # <<>> /\ o[c] = Tail(out[c])),
           ~broken' /\ conn[c] \in FD =>
              t.bridge_map[conn[c]] \in {server.bridge_map[conn[c]], NULL}
    PROVE  Unbridged(c)'
<1> SUFFICES ASSUME ~broken', conn'[c] # NULL, c \in Raspi \/ Choosing(c)'
             PROVE  server'.bridge_map[conn'[c]] = NULL
  BY DEF Unbridged
<1>1. conn'[c] = conn[c] /\ conn[c] # NULL /\ conn[c] \in FD
  BY DEF Passed
<1>2. Choosing(c)' => Choosing(c)
  <2>1. out[c] \in Seq(Packet) /\ pc'[c] = pc[c] /\ out'[c] \in {o[c], <<>>}
    BY DEF TypeOK, Passed
  <2>2. ASSUME NEW i \in DOMAIN o[c], IsChoice(o[c][i])
        PROVE  \E j \in DOMAIN out[c] : IsChoice(out[c][j])
    <3>1. CASE o[c] = out[c]
      BY <2>2, <3>1
    <3>2. CASE out[c] # <<>> /\ o[c] = Tail(out[c])
      <4>1. i + 1 \in DOMAIN out[c] /\ o[c][i] = out[c][i + 1]
        BY <2>1, <3>2, TailOf
      <4> QED BY <2>2, <4>1
    <3> QED BY <3>1, <3>2
  <2> QED BY <2>1, <2>2 DEF Choosing
<1> QED BY <1>1, <1>2 DEF Unbridged

\* A raspi still streams for somebody if it does once it has read what it is sent.
LEMMA WantedStays ==
    ASSUME TypeOK, NEW r \in Raspi, NEW t, NEW o, Passed(r, t, o),
           server'.bridge_map = t.bridge_map, server'.open = t.open,
           \A f \in FD : t.inbox[f] \in Seq(Packet),
           ASSUME NEW f \in FD, ~broken', link[r] = "up",
                  conn[r] \in FD, conn[r] \in server.open, conn[r] \in t.open,
                  StreamsAfter(t.inbox[conn[r]], f, WillStream(r, f))
           PROVE  f \in t.open /\ t.bridge_map[f] = ChannelOf(r)
    PROVE  Wanted(r)'
<1> SUFFICES ASSUME NEW f \in FD, ~broken', link'[r] = "up", conn'[r] # NULL,
                    WillStream(r, f)'
             PROVE  f \in server'.open /\ server'.bridge_map[f] = ChannelOf(r)'
  BY DEF Wanted
<1>1. /\ link[r] = "up" /\ conn[r] \in FD /\ conn[r] # NULL
      /\ conn[r] \in server.open /\ conn[r] \in t.open
      /\ ChannelOf(r)' = ChannelOf(r)
      /\ box'[r] = box[r] \o t.inbox[conn[r]]
      /\ streaming'[r] = streaming[r] /\ remotefd'[r] = remotefd[r]
  BY NullNotFD DEF Passed
<1>2. box[r] \in Seq(Packet) /\ t.inbox[conn[r]] \in Seq(Packet)
  BY <1>1 DEF TypeOK, Client
<1>3. StreamsTo(r, f)' <=> StreamsTo(r, f)
  BY <1>1 DEF StreamsTo
<1>4. StreamsAfter(box[r] \o t.inbox[conn[r]], f, StreamsTo(r, f))
  BY <1>1, <1>3 DEF WillStream, StreamsTo
<1>5. StreamsTo(r, f) \in BOOLEAN
  BY DEF StreamsTo
<1>6. StreamsAfter(t.inbox[conn[r]], f, StreamsAfter(box[r], f, StreamsTo(r, f)))
  BY <1>2, <1>4, <1>5, AfterMore
<1>7. StreamsAfter(t.inbox[conn[r]], f, WillStream(r, f))
  BY <1>6 DEF WillStream
<1> QED BY <1>1, <1>7

\* StreamsAfter is applied to what a raspi is going to do already.
LEMMA WillStreamBoolean ==
    ASSUME NEW r, NEW f
    PROVE  WillStream(r, f) \in BOOLEAN
BY DEF WillStream, StreamsAfter

\* No bridge is made, and none is left without its entry.
LEMMA BridgesStay ==
    ASSUME Bridges, Smooth(server), Smooth(server)', NEW t, SameTypes(server, t),
           server'.channel = t.channel, server'.channel_map = t.channel_map,
           server'.bridge_map = t.bridge_map, broken => broken',
           ~broken' => \A f \in FD : t.bridge_map[f] # NULL =>
              server.bridge_map[f] # NULL /\ t.channel_map[f] = server.channel_map[f]
    PROVE  Bridges'
<1> SUFFICES ASSUME ~broken', NEW f \in FD, server'.bridge_map[f] # NULL
             PROVE  /\ f \in server'.open
                    /\ server'.channel[server'.channel_map[f]].type = "CTYPE_REMOTE"
  BY DEF Bridges
<1>1. /\ f \in server.open /\ server'.channel_map[f] = server.channel_map[f]
      /\ server.channel[server.channel_map[f]].type = "CTYPE_REMOTE"
  BY DEF Bridges
<1>2. server.channel_map[f] # NULL
  BY <1>1 DEF Smooth, Good, NoLeak
<1>3. f \in server'.open
  BY <1>1, <1>2 DEF Smooth, Good, NoLeak
<1>4. server.channel_map[f] \in Slot
  BY <1>2, Parts DEF Smooth
<1> QED BY <1>1, <1>3, <1>4 DEF SameTypes

\* When connection f0 ends, so does its bridge.
LEMMA EndedBridges ==
    ASSUME Bridges, ~broken, NEW f0, NEW t, Ended(server, t, f0), NEW f \in FD
    PROVE  /\ t.bridge_map[f] \in {server.bridge_map[f], NULL}
           /\ t.bridge_map[f] # NULL =>
                /\ f # f0 /\ server.bridge_map[f] # NULL
                /\ t.channel_map[f] = server.channel_map[f]
BY DEF Bridges, Ended

\* And the raspi that it was bridged to does not stream any more once it has
\* read what it is told.
LEMMA EndedWanted ==
    ASSUME Bridges, ~broken, Smooth(server), NEW t, Good(t),
           NEW f0 \in FD, Ended(server, t, f0), Notified(t),
           NEW r \in Raspi, Wanted(r), link[r] = "up",
           conn[r] \in FD, conn[r] \in server.open, conn[r] \in t.open,
           NEW f \in FD, StreamsAfter(t.inbox[conn[r]], f, WillStream(r, f))
    PROVE  f \in t.open /\ t.bridge_map[f] = ChannelOf(r)
<1> DEFINE g == conn[r]
<1>1. t.channel_map[g] # NULL /\ t.channel_map[f0] = NULL
  BY DEF Good, NoLeak, Ended
<1>2. g # f0 /\ g \in FD /\ g # NULL
  BY <1>1, NullNotFD
<1>3. t.inbox[g] = <<>>
  <2>1. t.inbox[g] \in {<<>>, <<Restart(g)>>}
    BY DEF Notified
  <2>2. Restart(g).cmd = "RESTART_CLIENT_NTF"
    BY DEF Restart
  <2>3. ~StreamsAfter(<<Restart(g)>>, f, WillStream(r, f))
    BY <2>2, AfterOne, WillStreamBoolean
  <2> QED BY <2>1, <2>3
<1>4. WillStream(r, f)
  BY <1>3, AfterNone, WillStreamBoolean
<1>5. f \in server.open /\ server.bridge_map[f] = ChannelOf(r)
  BY <1>2, <1>4 DEF Wanted
<1>6. /\ ChannelOf(r) # NULL /\ ChannelOf(r) \in Slot
      /\ server.channel[ChannelOf(r)].fd = g
  <2>1. ChannelOf(r) = server.channel_map[g] /\ server.channel_map[g] # NULL
    BY DEF ChannelOf, Smooth, Good, NoLeak
  <2>2. server.channel_map[g] \in Slot
    BY <2>1, Parts DEF Smooth
  <2> QED BY <2>1, <2>2 DEF Smooth, Good, MapSound
<1>7. f # f0
  <2> SUFFICES ASSUME f = f0 PROVE FALSE
    OBVIOUS
  <2>1. server.channel[server.channel_map[f0]].type = "CTYPE_REMOTE"
    BY <1>5, <1>6 DEF Bridges
  <2>2. t.inbox[g] = <<Restart(g)>>
    BY <1>2, <1>5, <1>6, <2>1 DEF Ended
  <2>3. <<>> # <<Restart(g)>>
    OBVIOUS
  <2> QED BY <1>3, <2>2, <2>3
<1>8. t.bridge_map[f] = server.bridge_map[f] /\ t.channel_map[f] = server.channel_map[f]
  BY <1>7 DEF Ended
<1>9. f \in t.open
  <2>1. server.channel_map[f] # NULL
    BY <1>5 DEF Smooth, Good, NoLeak
  <2> QED BY <1>8, <2>1 DEF Good, NoLeak
<1> QED BY <1>5, <1>8, <1>9

\* The clients' packets are packets of Channels.
LEMMA PacketPkg == Packet \subseteq Pkg
<1> SUFFICES ASSUME NEW p \in Packet PROVE p \in Pkg
  OBVIOUS
<1>1. /\ p \in [cmd : PKG_CMD_TYPE, fd : FD \cup StackFd \cup {0}, arg : FD \cup {0, 1}]
  BY DEF Packet
<1>2. p.fd \in Int /\ p.arg \in Int /\ p.cmd \in PKG_CMD_TYPE
  <2>1. FD \cup StackFd \cup {0} \subseteq Int /\ FD \cup {0, 1} \subseteq Int
    BY NullNotFD, StackFdAssumption
  <2>2. p.fd \in FD \cup StackFd \cup {0} /\ p.arg \in FD \cup {0, 1}
    BY <1>1
  <2> QED BY <1>1, <2>1, <2>2
<1>3. p = [cmd |-> p.cmd, fd |-> p.fd, arg |-> p.arg]
  BY <1>1
<1> QED BY <1>2, <1>3 DEF Pkg

\* No send stops short here.
LEMMA Outcomes ==
    ASSUME NEW f
    PROVE  Outcome(f) \subseteq {"all", "fail"}
BY DEF Outcome

\* Who has not closed can be sent to.
LEMMA OwnOutcome ==
    ASSUME Apart, NEW c \in Client, conn[c] # NULL, link[c] = "up"
    PROVE  Outcome(conn[c]) = {"all"}
BY DEF Outcome, Apart

\* What the server sends of its own.
LEMMA ResTyped ==
    ASSUME NEW f \in FD
    PROVE  /\ [cmd |-> "REGISTER_CLIENT_RES", fd |-> f, arg |-> 0] \in Packet
           /\ [cmd |-> "CHOOSE_SERVER_RES", fd |-> f, arg |-> 0] \in Packet
           /\ Restart(f) \in Packet
BY DEF Packet, PKG_CMD_TYPE, Restart

\* A start notification is a packet.
LEMMA NtfTyped ==
    ASSUME NEW f \in FD, NEW g \in FD
    PROVE  [cmd |-> "START_SEND_DATA_NTF", fd |-> g, arg |-> f] \in Packet
BY DEF Packet, PKG_CMD_TYPE

\* What the server can read of a client.
LEMMA FirstPacket ==
    ASSUME WInv, NEW c \in Client, out[c] # <<>>
    PROVE  LET p == Head(out[c]) IN
           /\ p \in Packet /\ p \in Pkg /\ p = out[c][1]
           /\ c \in Viewer => \/ IsRegistration(p, 1)
                              \/ /\ IsChoice(p) /\ Tail(out[c]) = <<>>
                                 /\ pc[c] \notin {"list", "choose"}
           /\ c \in Raspi => \/ IsRegistration(p, 0)
                             \/ IsFrame(p) /\ pc[c] # "reg"
<1>1. TypeOK /\ OfClient(c)
  BY DEF WInv
<1>2. out[c] \in Seq(Packet)
  BY <1>1 DEF TypeOK
<1>3. Head(out[c]) = out[c][1] /\ 1 \in DOMAIN out[c] /\ Head(out[c]) \in Packet
  BY <1>2
<1>4. Head(out[c]) \in Pkg
  BY <1>3, PacketPkg
<1>5. c \in Viewer => \/ IsRegistration(out[c][1], 1)
                      \/ /\ IsChoice(out[c][1]) /\ 1 = Len(out[c])
                         /\ pc[c] \notin {"list", "choose"}
  BY <1>1, <1>3 DEF OfClient, Viewing
<1>6. 1 = Len(out[c]) => Tail(out[c]) = <<>>
  <2>1. Tail(out[c]) \in Seq(Packet) /\ Len(Tail(out[c])) = Len(out[c]) - 1
    BY <1>2, TailOf
  <2> DEFINE b == Tail(out[c])
  <2>2. b \in Seq(Packet) /\ (Len(out[c]) = 1 => Len(b) = 0)
    BY <2>1
  <2> HIDE DEF b
  <2>3. Len(b) = 0 => b = <<>>
    BY <2>2
  <2> QED BY <2>2, <2>3 DEF b
<1>7. c \in Raspi => \/ IsRegistration(out[c][1], 0)
                     \/ IsFrame(out[c][1]) /\ pc[c] # "reg"
  BY <1>1, <1>3 DEF OfClient, Sending
<1> QED BY <1>3, <1>4, <1>5, <1>6, <1>7

\* A client is served through a channel the map finds.
LEMMA Serving ==
    ASSUME WInv, NEW c \in Client, Reads(c)
    PROVE  /\ server.run = "up" /\ conn[c] \in FD /\ conn[c] # NULL
           /\ conn[c] \in server.open
           /\ ChannelOf(c) \in Slot /\ ChannelOf(c) = server.channel_map[conn[c]]
           /\ ChannelOf(c) # NULL
           /\ server.channel[ChannelOf(c)].fd = conn[c]
           /\ link[c] \notin {"none", "cut"}
<1>1. TypeOK /\ Smooth(server) /\ OfClient(c) /\ server.run = "up" /\ conn[c] # NULL
  BY DEF WInv, Reads
<1>2. conn[c] \in FD /\ conn[c] \in server.open /\ link[c] \notin {"none", "cut"}
  BY <1>1 DEF TypeOK, OfClient, Linked
<1>3. ChannelOf(c) = server.channel_map[conn[c]] /\ ChannelOf(c) # NULL
  BY <1>1, <1>2 DEF ChannelOf, Smooth, Good, NoLeak
<1>4. ChannelOf(c) \in Slot
  BY <1>1, <1>2, <1>3, Parts DEF Smooth
<1>5. server.channel[ChannelOf(c)].fd = conn[c]
  BY <1>1, <1>2, <1>3 DEF Smooth, Good, MapSound
<1> QED BY <1>1, <1>2, <1>3, <1>4, <1>5

\* The channels of two clients differ.
LEMMA OtherChannel ==
    ASSUME WInv, NEW c \in Client, NEW d \in Client \ {c},
           conn[c] # NULL, conn[d] # NULL
    PROVE  conn[d] # conn[c] /\ ChannelOf(d) # ChannelOf(c)
<1>1. TypeOK /\ Smooth(server) /\ OfClient(c) /\ OfClient(d) /\ Apart
  BY DEF WInv
<1>2. conn[d] # conn[c] /\ conn[c] \in FD /\ conn[d] \in FD
  BY <1>1 DEF Apart, TypeOK
<1>3. /\ server.channel_map[conn[c]] # NULL /\ server.channel_map[conn[d]] # NULL
  BY <1>1, <1>2 DEF OfClient, Linked, Smooth, Good, NoLeak
<1>4. /\ server.channel[ChannelOf(c)].fd = conn[c]
      /\ server.channel[ChannelOf(d)].fd = conn[d]
  BY <1>1, <1>2, <1>3 DEF Smooth, Good, MapSound, ChannelOf
<1> QED BY <1>2, <1>4

\* The rest of the invariant.
LEMMA ServeKeeps ==
    ASSUME NEW t, NEW o, Continued(t, o), Bridges',
           NEW c \in Client, Answered(c)',
           \A d \in Client \ {c} : o[d] = out[d],
           \A d \in Client : /\ Unbridged(d)'
                             /\ d \in Viewer => Typed(d)'
                             /\ d \in Raspi => Wanted(d)'
    PROVE  WInv'
<1>1. \A d \in Client : OfClient(d)'
  BY DEF Continued, OfClient
<1> QED BY <1>1 DEF Continued, WInv

\* Connection f0 ends, as far as no send fails, and c has been served.
LEMMA EndKeeps ==
    ASSUME WInv, NEW c \in Client, Reads(c), NEW t, NEW o, Become(t, conn, o),
           Follows(server, t), SameTypes(server, t), Notified(t),
           NEW f0 \in FD, ~broken' => Ended(server, t, f0),
           \/ o = out
           \/ /\ out[c] # <<>> /\ o = Rest(c)
              /\ out[c][1].cmd # "REGISTER_CLIENT_REQ"
              /\ c \in ignored' \/ pc[c] \notin {"list", "bridge", "reg"},
           ignored \subseteq ignored', ignored' \subseteq Viewer,
           broken' \in BOOLEAN, broken => broken'
    PROVE  WInv'
<1>1. /\ TypeOK /\ Smooth(server) /\ Bridges /\ \A d \in Client : OfClient(d)
      /\ server.run = "up"
  BY Serving DEF WInv
<1>2. Smooth(t) /\ Good(t)
  BY <1>1, FollowsSmooth DEF Smooth
<1>3. ASSUME NEW f \in FD PROVE t.inbox[f] \in Seq(Packet)
  <2>1. Restart(f) \in Packet /\ t.inbox[f] \in {<<>>, <<Restart(f)>>}
    BY <1>3, ResTyped DEF Notified
  <2> QED BY <2>1, Singleton
<1>4. Continued(t, o)
  BY <1>1, <1>3, ServeContinues
<1>5. /\ server'.channel = t.channel /\ server'.channel_map = t.channel_map
      /\ server'.bridge_map = t.bridge_map /\ server'.open = t.open
      /\ Smooth(server)' /\ \A d \in Client : Passed(d, t, o)
  BY <1>4 DEF Continued
<1>6. \A d \in Client : \/ o[d] = out[d]
                        \/ /\ d = c /\ out[c] # <<>> /\ o[c] = Tail(out[c])
                           /\ out[c][1].cmd # "REGISTER_CLIENT_REQ"
  BY <1>1, RestOf
<1>7. Bridges'
  BY <1>1, <1>5, EndedBridges, BridgesStay
<1>8. Answered(c)'
  <2>1. CASE o[c] = out[c]
    BY <1>4, <2>1 DEF Continued
  <2>2. CASE c \in ignored' \/ pc[c] \notin {"list", "bridge", "reg"}
    BY <1>5, <2>2 DEF Answered, Passed
  <2> QED BY <2>1, <2>2
<1>9. ASSUME NEW d \in Client PROVE Unbridged(d)'
  <2>1. ~broken' /\ conn[d] \in FD =>
           t.bridge_map[conn[d]] \in {server.bridge_map[conn[d]], NULL}
    BY <1>1, EndedBridges
  <2>2. o[d] = out[d] \/ (out[d] # <<>> /\ o[d] = Tail(out[d]))
    BY <1>6
  <2> QED BY <1>1, <1>5, <2>1, <2>2, UnbridgedStays DEF OfClient
<1>10. ASSUME NEW d \in Viewer PROVE Typed(d)'
  <2>1. d \in Client /\ Typed(d)
    BY <1>1 DEF Client, OfClient
  <2>2. \/ o[d] = out[d]
        \/ out[d] # <<>> /\ out[d][1].cmd # "REGISTER_CLIENT_REQ"
    BY <1>6, <2>1
  <2> QED BY <1>5, <2>1, <2>2, TypedStays
<1>11. ASSUME NEW d \in Raspi PROVE Wanted(d)'
  <2>1. d \in Client /\ Wanted(d) /\ Passed(d, t, o)
    BY <1>1, <1>5 DEF Client, OfClient
  <2>2. ASSUME NEW f \in FD, ~broken', link[d] = "up",
               conn[d] \in FD, conn[d] \in server.open, conn[d] \in t.open,
               StreamsAfter(t.inbox[conn[d]], f, WillStream(d, f))
        PROVE  f \in t.open /\ t.bridge_map[f] = ChannelOf(d)
    BY <1>1, <1>2, <2>1, <2>2, EndedWanted
  <2> QED BY <1>1, <1>3, <1>5, <2>1, <2>2, WantedStays
<1>12. \A d \in Client \ {c} : o[d] = out[d]
  BY <1>6
<1> QED BY <1>4, <1>7, <1>8, <1>9, <1>10, <1>11, <1>12, ServeKeeps

\* A connection ends by end of stream: check_break_fd tells the raspi.
LEMMA EndOfStreamKeeps ==
    ASSUME WInv, NEW c \in Client, EndOfStream(c)
    PROVE  WInv'
<1>1. PICK r \in Outcome(Bridged(conn[c])) :
         Become(PeerClosed(server, ChannelOf(c), r), conn, out) /\ Lost(r = "fail")
  BY DEF EndOfStream
<1>2. /\ Reads(c) /\ ignored' = ignored /\ broken' = (broken \/ r = "fail")
      /\ r \in {"all", "fail"}
  BY <1>1, Outcomes DEF EndOfStream, Lost
<1>3. /\ conn[c] \in FD /\ ChannelOf(c) \in Slot
      /\ ChannelOf(c) = server.channel_map[conn[c]] /\ ChannelOf(c) # NULL
      /\ server.channel[ChannelOf(c)].fd = conn[c]
      /\ Smooth(server) /\ Quiet(server) /\ TypeOK
  BY <1>2, Serving DEF WInv
<1> DEFINE t == PeerClosed(server, ChannelOf(c), r)
<1>4. /\ SameTypes(server, t) /\ Notified(t)
      /\ r = "all" => Ended(server, t, conn[c])
  BY <1>2, <1>3, PeerClosedEffect
<1>5. Follows(server, t)
  BY <1>2, <1>3, PeerClosedFollows DEF Smooth
<1>6. Become(t, conn, out)
  BY <1>1
<1> HIDE DEF t
<1>7. broken' \in BOOLEAN /\ ignored' \subseteq Viewer /\ (~broken' => r = "all")
  BY <1>2, <1>3 DEF TypeOK
<1> QED BY <1>2, <1>3, <1>4, <1>5, <1>6, <1>7, EndKeeps

\* A connection ends by an error: nobody is told, and broken excuses it.
LEMMA RecvErrorKeeps ==
    ASSUME WInv, NEW c \in Client, RecvError(c)
    PROVE  WInv'
<1> DEFINE t == free_channel(server, ChannelOf(c))
<1>1. /\ Reads(c) /\ ignored' = ignored /\ broken' = TRUE
      /\ Become(t, conn, out)
  BY DEF RecvError, Lost
<1>2. /\ conn[c] \in FD /\ ChannelOf(c) \in Slot
      /\ ChannelOf(c) = server.channel_map[conn[c]] /\ ChannelOf(c) # NULL
      /\ server.channel[ChannelOf(c)].fd = conn[c]
      /\ Smooth(server) /\ Quiet(server) /\ TypeOK
  BY <1>1, Serving DEF WInv
<1>3. Freed(server, t, conn[c])
  BY <1>2, FreeEffect DEF Smooth
<1>4. Follows(server, t)
  BY <1>2, FreeFollows DEF Smooth
<1> HIDE DEF t
<1>5. SameTypes(server, t) /\ Notified(t)
  BY <1>2, <1>3 DEF Freed, Quiet, Notified
<1>6. broken' \in BOOLEAN /\ ignored' \subseteq Viewer
  BY <1>1, <1>2 DEF TypeOK
<1> QED BY <1>1, <1>2, <1>4, <1>5, <1>6, EndKeeps

\* dispatch passes a frame on, or frees a connection it cannot write to.
LEMMA ForwardKeeps ==
    ASSUME WInv, NEW c \in Client, Forward(c)
    PROVE  WInv'
<1> DEFINE p == Head(out[c])
           o == Rest(c)
<1>1. PICK r \in Outcome(p.fd), r2 \in Outcome(Bridged(p.fd)) :
         /\ Become(dispatch(server, p, conn[c], r, r2), conn, Rest(c))
         /\ Lost(r2 = "fail")
  BY DEF Forward
<1> DEFINE t == dispatch(server, p, conn[c], r, r2)
<1>2. /\ Reads(c) /\ out[c] # <<>> /\ p.fd # 0 /\ Become(t, conn, o)
      /\ broken' = (broken \/ r2 = "fail")
      /\ ignored' = IF c \in Viewer THEN ignored \cup {c} ELSE ignored
      /\ r \in {"all", "fail"} /\ r2 \in {"all", "fail"}
  BY <1>1, Outcomes DEF Forward, Lost
<1>3. /\ TypeOK /\ Smooth(server) /\ Quiet(server) /\ Good(server) /\ Watched(server)
      /\ Bridges /\ Apart /\ \A d \in Client : OfClient(d)
      /\ server.run = "up"
  BY <1>2, Serving DEF WInv, Smooth
<1>4. /\ p \in Packet /\ p \in Pkg /\ p = out[c][1]
      /\ c \in Viewer \/ pc[c] # "reg"
      /\ p.cmd \in {"CHOOSE_SERVER_REQ", "STREAM_DATA_NTF"}
  <2>1. ~IsRegistration(p, 0) /\ ~IsRegistration(p, 1)
    BY <1>2 DEF IsRegistration
  <2> QED BY <1>2, <2>1, FirstPacket DEF Client, IsChoice, IsFrame
<1>5. /\ SameTypes(server, t)
      /\ \/ /\ t.channel_map = server.channel_map /\ t.bridge_map = server.bridge_map
            /\ \A h \in FD : t.inbox[h] \in {<<>>, <<p>>}
         \/ /\ p.fd \in server.open /\ Notified(t)
            /\ r2 = "all" => Ended(server, t, p.fd)
  BY <1>2, <1>3, <1>4, DispatchEffect
<1>6. Follows(server, t)
  BY <1>2, <1>3, <1>4, DispatchFollows
<1>7. /\ broken' \in BOOLEAN /\ (broken => broken') /\ (~broken' => r2 = "all")
      /\ ignored' \subseteq Viewer /\ ignored \subseteq ignored'
  BY <1>2, <1>3 DEF TypeOK
<1>8. c \in ignored' \/ pc[c] \notin {"list", "bridge", "reg"}
  <2>1. c \in Raspi => pc[c] \in RaspiPC
    BY <1>3 DEF OfClient, At
  <2> QED BY <1>2, <1>4, <2>1 DEF RaspiPC, Client
<1>9. o[c] = Tail(out[c]) /\ \A d \in Client \ {c} : o[d] = out[d]
  BY <1>3, RestOf
<1> HIDE DEF t, p
<1>10. CASE /\ p.fd \in server.open /\ Notified(t)
            /\ r2 = "all" => Ended(server, t, p.fd)
  <2>1. p.fd \in FD
    BY <1>3, <1>10, Parts
  <2>2. ~broken' => Ended(server, t, p.fd)
    BY <1>7, <1>10
  <2>3. out[c][1].cmd # "REGISTER_CLIENT_REQ"
    BY <1>4
  <2> QED BY <1>2, <1>5, <1>6, <1>7, <1>8, <1>10, <2>1, <2>2, <2>3, EndKeeps
<1>11. CASE /\ t.channel_map = server.channel_map /\ t.bridge_map = server.bridge_map
            /\ \A h \in FD : t.inbox[h] \in {<<>>, <<p>>}
  <2>1. ASSUME NEW f \in FD PROVE t.inbox[f] \in Seq(Packet)
    BY <1>4, <1>11, Singleton
  <2>2. Continued(t, o)
    BY <1>2, <1>3, <1>6, <1>7, <2>1, ServeContinues
  <2>3. /\ server'.channel = t.channel /\ server'.channel_map = t.channel_map
        /\ server'.bridge_map = t.bridge_map /\ server'.open = t.open
        /\ Smooth(server)' /\ \A d \in Client : Passed(d, t, o)
    BY <2>2 DEF Continued
  <2>4. Bridges'
    BY <1>3, <1>5, <1>7, <1>11, <2>3, BridgesStay
  <2>5. Answered(c)'
    BY <1>8, <2>3 DEF Answered, Passed
  <2>6. ASSUME NEW d \in Client PROVE Unbridged(d)'
    <3>1. o[d] = out[d] \/ (out[d] # <<>> /\ o[d] = Tail(out[d]))
      BY <1>2, <1>9
    <3> HIDE DEF o
    <3> QED BY <1>3, <1>7, <1>11, <2>3, <3>1, UnbridgedStays DEF OfClient
  <2>7. ASSUME NEW d \in Viewer PROVE Typed(d)'
    <3>1. d \in Client /\ Typed(d)
      BY <1>3 DEF Client, OfClient
    <3>2. \/ o[d] = out[d]
          \/ out[d] # <<>> /\ out[d][1].cmd # "REGISTER_CLIENT_REQ"
      BY <1>2, <1>4, <1>9, <3>1
    <3> HIDE DEF o
    <3> QED BY <1>5, <2>3, <3>1, <3>2, TypedStays
  <2>8. ASSUME NEW d \in Raspi PROVE Wanted(d)'
    <3>1. d \in Client /\ Wanted(d) /\ Passed(d, t, o)
      BY <1>3, <2>3 DEF Client, OfClient
    <3>2. Good(t)
      BY <1>6 DEF Follows
    <3>3. ASSUME NEW f \in FD, ~broken', link[d] = "up",
                 conn[d] \in FD, conn[d] \in server.open, conn[d] \in t.open,
                 StreamsAfter(t.inbox[conn[d]], f, WillStream(d, f))
          PROVE  f \in t.open /\ t.bridge_map[f] = ChannelOf(d)
      <4>1. WillStream(d, f)
        <5>1. t.inbox[conn[d]] \in {<<>>, <<p>>}
          BY <1>11, <3>3
        <5>2. StreamsAfter(<<p>>, f, WillStream(d, f)) => WillStream(d, f)
          BY <1>4, AfterOne, WillStreamBoolean
        <5> QED BY <3>3, <5>1, <5>2, AfterNone, WillStreamBoolean
      <4>2. f \in server.open /\ server.bridge_map[f] = ChannelOf(d)
        BY <1>7, <3>1, <3>3, <4>1, NullNotFD DEF Wanted
      <4> QED BY <1>3, <1>11, <3>2, <4>2 DEF Good, NoLeak
    <3> HIDE DEF o
    <3> QED BY <1>3, <2>1, <2>3, <3>1, <3>3, WantedStays
  <2> HIDE DEF o
  <2> QED BY <1>9, <2>2, <2>4, <2>5, <2>6, <2>7, <2>8, ServeKeeps
<1> QED BY <1>5, <1>10, <1>11

\* A client registers: it is answered, unless the list is full.
LEMMA RegisterKeeps ==
    ASSUME WInv, NEW c \in Client, Register(c)
    PROVE  WInv'
<1> DEFINE p == Head(out[c])
           f == conn[c]
           o == Rest(c)
           res == [cmd |-> "REGISTER_CLIENT_RES", fd |-> f, arg |-> 0]
           typed == [server EXCEPT !.channel[ChannelOf(c)].type = ClientType(p)]
           full == p.arg = 1 /\ Cardinality(Raspis(typed)) >= LIST_MAX
<1>1. PICK r \in Outcome(f) :
         /\ Become(handle_register_client_req(server, p, f, r), conn, o)
         /\ Lost(r = "fail")
  BY DEF Register
<1> DEFINE t == handle_register_client_req(server, p, f, r)
<1>2. /\ Reads(c) /\ out[c] # <<>> /\ Become(t, conn, o)
      /\ p.cmd = "REGISTER_CLIENT_REQ"
      /\ broken' = (broken \/ r = "fail")
      /\ ignored' = IF full THEN ignored \cup {c} ELSE ignored
      /\ r \in {"all", "fail"}
  BY <1>1, Outcomes DEF Register, Request, Lost
<1>3. /\ TypeOK /\ Smooth(server) /\ Quiet(server) /\ Good(server) /\ Watched(server)
      /\ Bridges /\ Apart /\ \A d \in Client : OfClient(d)
      /\ server.run = "up" /\ f \in FD /\ f # NULL /\ f \in server.open
      /\ ChannelOf(c) \in Slot /\ ChannelOf(c) = server.channel_map[f]
      /\ link[c] \notin {"none", "cut"}
  BY <1>2, Serving DEF WInv, Smooth
<1>4. /\ p \in Packet /\ p \in Pkg /\ p.arg \in {0, 1}
      /\ c \in Viewer => ClientType(p) = "CTYPE_REMOTE"
      /\ c \in Raspi => p.arg = 0
  <2>1. p \in Packet /\ p \in Pkg
    BY <1>2, FirstPacket
  <2>2. /\ c \in Viewer => IsRegistration(p, 1)
        /\ c \in Raspi => IsRegistration(p, 0)
    BY <1>2, FirstPacket DEF IsChoice, IsFrame
  <2> QED BY <2>1, <2>2 DEF IsRegistration, ClientType, Client
<1>5. /\ \A d \in Slot : t.channel[d].type =
             IF d = ChannelOf(c) THEN ClientType(p) ELSE server.channel[d].type
      /\ t.bridge_map = server.bridge_map
      /\ \A h \in FD : t.inbox[h] \in {<<>>, <<res>>}
      /\ r = "all" => /\ t.channel_map = server.channel_map
                      /\ t.inbox[f] = <<res>> \/ full
  <2>1. Registered(server, t, p, f, r)
    BY <1>2, <1>3, <1>4, RegisterEffect
  <2> HIDE DEF t, p
  <2> QED BY <1>3, <2>1 DEF Registered, ChannelOf
<1>6. Follows(server, t)
  BY <1>2, <1>3, <1>4, RegisterFollows
<1>7. res \in Packet /\ res.cmd = "REGISTER_CLIENT_RES"
  <2>1. f \in FD
    BY <1>3
  <2>2. [cmd |-> "REGISTER_CLIENT_RES", fd |-> f, arg |-> 0] \in Packet
    BY <2>1, ResTyped
  <2> QED BY <2>2
<1>8. /\ broken' \in BOOLEAN /\ (broken => broken') /\ (~broken' => r = "all")
      /\ ignored \subseteq ignored'
  BY <1>2, <1>3 DEF TypeOK
<1>9. ignored' \subseteq Viewer
  <2>1. full => c \in Viewer
    BY <1>4 DEF Client
  <2> QED BY <1>2, <1>3, <2>1 DEF TypeOK
<1>10. o[c] = Tail(out[c]) /\ \A d \in Client \ {c} : o[d] = out[d]
  BY <1>3, RestOf
<1>11. full => c \in ignored'
  BY <1>2
<1> HIDE DEF t, p, res, full, typed
<1>12. ASSUME NEW h \in FD PROVE t.inbox[h] \in Seq(Packet)
  BY <1>5, <1>7, Singleton
<1>13. Continued(t, o)
  BY <1>2, <1>3, <1>6, <1>8, <1>9, <1>12, ServeContinues
<1>14. /\ server'.channel = t.channel /\ server'.channel_map = t.channel_map
       /\ server'.bridge_map = t.bridge_map /\ server'.open = t.open
       /\ Smooth(server)' /\ \A d \in Client : Passed(d, t, o)
  BY <1>13 DEF Continued
<1> HIDE DEF o
<1>15. Bridges'
  <2> SUFFICES ASSUME ~broken', NEW h \in FD, server'.bridge_map[h] # NULL
               PROVE  /\ h \in server'.open
                      /\ server'.channel[server'.channel_map[h]].type = "CTYPE_REMOTE"
    BY DEF Bridges
  <2>1. /\ h \in server.open /\ t.channel_map = server.channel_map /\ ~broken
        /\ server.bridge_map[h] # NULL
        /\ server.channel[server.channel_map[h]].type = "CTYPE_REMOTE"
    BY <1>3, <1>5, <1>8, <1>14 DEF Bridges
  <2>2. server.channel_map[h] # NULL
    BY <1>3, <2>1 DEF Good, NoLeak
  <2>3. server.channel_map[h] \in Slot /\ h \in server'.open
    BY <1>3, <1>14, <2>1, <2>2, Parts DEF Smooth, Good, NoLeak
  <2>4. CASE server.channel_map[h] # ChannelOf(c)
    BY <1>5, <1>14, <2>1, <2>3, <2>4
  <2>5. CASE server.channel_map[h] = ChannelOf(c)
    <3>1. h = f
      BY <1>3, <2>2, <2>5 DEF Good, MapSound
    <3>2. c \in Viewer
      BY <1>3, <2>1, <3>1 DEF OfClient, Unbridged, Client
    <3> QED BY <1>4, <1>5, <1>14, <2>1, <2>3, <2>5, <3>2
  <2> QED BY <2>4, <2>5
<1>16. Answered(c)'
  <2> SUFFICES ASSUME link'[c] = "up" PROVE box'[c] # <<>> \/ c \in ignored'
    BY DEF Answered
  <2>1. link[c] = "up" /\ box'[c] = box[c] \o t.inbox[f]
    BY <1>3, <1>14 DEF Passed
  <2>2. r = "all"
    BY <1>3, <2>1, OwnOutcome
  <2>3. CASE t.inbox[f] = <<res>>
    <3>1. box[c] \in Seq(Packet) /\ <<res>> \in Seq(Packet) /\ <<res>> # <<>>
      BY <1>3, <1>7, Singleton DEF TypeOK
    <3> QED BY <2>1, <2>3, <3>1, NotEmptied
  <2> QED BY <1>5, <1>11, <2>2, <2>3
<1>17. ASSUME NEW d \in Client PROVE Unbridged(d)'
  <2>1. o[d] = out[d] \/ (out[d] # <<>> /\ o[d] = Tail(out[d]))
    BY <1>2, <1>10
  <2> QED BY <1>3, <1>5, <1>8, <1>14, <2>1, UnbridgedStays DEF OfClient
<1>18. ASSUME NEW v \in Viewer PROVE Typed(v)'
  <2> SUFFICES ASSUME link'[v] \notin {"none", "cut"},
                      ~(out'[v] # <<>> /\ out'[v][1].cmd = "REGISTER_CLIENT_REQ")
               PROVE  /\ conn'[v] # NULL
                      /\ server'.channel[ChannelOf(v)'].type = "CTYPE_REMOTE"
    BY DEF Typed
  <2>1. v \in Client /\ Typed(v) /\ Passed(v, t, o)
    BY <1>3, <1>14 DEF Client, OfClient
  <2>2. link[v] \notin {"none", "cut"} /\ conn'[v] = conn[v] /\ out'[v] = o[v]
    BY <2>1 DEF Passed
  <2>3. CASE v = c
    <3>1. ChannelOf(c)' = ChannelOf(c)
      BY <1>3, <2>1, <2>2, <2>3 DEF Passed
    <3> QED BY <1>3, <1>4, <1>5, <1>14, <2>2, <2>3, <3>1
  <2>4. CASE v # c
    <3>1. out'[v] = out[v]
      BY <1>10, <2>1, <2>2, <2>4
    <3>2. conn[v] # NULL /\ server.channel[ChannelOf(v)].type = "CTYPE_REMOTE"
      BY <2>1, <2>2, <3>1 DEF Typed
    <3>3. ChannelOf(v)' = ChannelOf(v) /\ ChannelOf(v) \in Slot
      BY <2>1, <2>2, <3>2 DEF Passed
    <3>4. ChannelOf(v) # ChannelOf(c)
      BY <1>3, <2>1, <2>4, <3>2, OtherChannel
    <3> QED BY <1>5, <1>14, <2>2, <3>2, <3>3, <3>4
  <2> QED BY <2>3, <2>4
<1>19. ASSUME NEW d \in Raspi PROVE Wanted(d)'
  <2>1. d \in Client /\ Wanted(d) /\ Passed(d, t, o)
    BY <1>3, <1>14 DEF Client, OfClient
  <2>2. Good(t)
    BY <1>6 DEF Follows
  <2>3. ASSUME NEW g \in FD, ~broken', link[d] = "up",
               conn[d] \in FD, conn[d] \in server.open, conn[d] \in t.open,
               StreamsAfter(t.inbox[conn[d]], g, WillStream(d, g))
        PROVE  g \in t.open /\ t.bridge_map[g] = ChannelOf(d)
    <3>1. WillStream(d, g)
      <4>1. t.inbox[conn[d]] \in {<<>>, <<res>>}
        BY <1>5, <2>3
      <4>2. StreamsAfter(<<res>>, g, WillStream(d, g)) => WillStream(d, g)
        BY <1>7, AfterOne, WillStreamBoolean
      <4> QED BY <2>3, <4>1, <4>2, AfterNone, WillStreamBoolean
    <3>2. g \in server.open /\ server.bridge_map[g] = ChannelOf(d)
      BY <1>8, <2>1, <2>3, <3>1, NullNotFD DEF Wanted
    <3>3. t.channel_map = server.channel_map
      BY <1>5, <1>8, <2>3
    <3> QED BY <1>3, <1>5, <2>2, <3>2, <3>3 DEF Good, NoLeak
  <2> QED BY <1>3, <1>12, <1>14, <2>1, <2>3, WantedStays
<1> QED BY <1>10, <1>13, <1>15, <1>16, <1>17, <1>18, <1>19, ServeKeeps

\* A viewer chooses: it is answered, and its raspi told, in the step that makes
\* the bridge.
LEMMA ChooseServerKeeps ==
    ASSUME WInv, NEW c \in Client, ChooseServer(c)
    PROVE  WInv'
<1> DEFINE p == Head(out[c])
           f == conn[c]
           g == p.arg
           o == Rest(c)
           res == [cmd |-> "CHOOSE_SERVER_RES", fd |-> f, arg |-> 0]
           ntf == [cmd |-> "START_SEND_DATA_NTF", fd |-> g, arg |-> f]
<1>1. PICK r \in Outcome(f), r2 \in Outcome(g) :
         /\ Become(handle_choose_server_req(server, p, f, r, r2), conn, o)
         /\ Lost("fail" \in {r, r2})
  BY DEF ChooseServer
<1> DEFINE t == handle_choose_server_req(server, p, f, r, r2)
<1>2. /\ Reads(c) /\ out[c] # <<>> /\ Become(t, conn, o)
      /\ p.cmd = "CHOOSE_SERVER_REQ"
      /\ broken' = (broken \/ "fail" \in {r, r2})
      /\ ignored' = IF g \in server.open THEN ignored ELSE ignored \cup {c}
      /\ r \in {"all", "fail"} /\ r2 \in {"all", "fail"}
  BY <1>1, Outcomes DEF ChooseServer, Request, Lost
<1>3. /\ TypeOK /\ Smooth(server) /\ Quiet(server) /\ Good(server) /\ Watched(server)
      /\ Bridges /\ Apart /\ \A d \in Client : OfClient(d)
      /\ server.run = "up" /\ f \in FD /\ f # NULL /\ f \in server.open
      /\ ChannelOf(c) \in Slot /\ ChannelOf(c) = server.channel_map[f]
      /\ link[c] \notin {"none", "cut"}
  BY <1>2, Serving DEF WInv, Smooth
<1>4. /\ p \in Packet /\ p \in Pkg /\ p = out[c][1]
      /\ c \in Viewer /\ c \notin Raspi /\ g \in FD
      /\ Tail(out[c]) = <<>> /\ pc[c] \notin {"list", "choose"}
      /\ Choosing(c)
  <2>1. /\ p \in Packet /\ p \in Pkg /\ p = out[c][1]
        /\ c \in Viewer => IsChoice(p) /\ Tail(out[c]) = <<>>
                           /\ pc[c] \notin {"list", "choose"}
        /\ c \notin Raspi
    BY <1>2, FirstPacket DEF IsRegistration, IsFrame
  <2>2. out[c] \in Seq(Packet)
    BY <1>3 DEF TypeOK
  <2>3. 1 \in DOMAIN out[c]
    BY <1>2, <2>2
  <2> QED BY <2>1, <2>3 DEF Client, Choosing, IsChoice
<1>5. Chosen(server, t, p, f, r, r2)
  BY <1>2, <1>3, <1>4, ChooseEffect
<1>6. Follows(server, t)
  BY <1>2, <1>3, <1>4, ChooseFollows
<1>7. /\ res \in Packet /\ res.cmd = "CHOOSE_SERVER_RES"
      /\ ntf \in Packet /\ ntf.cmd = "START_SEND_DATA_NTF" /\ ntf.arg = f
  <2>1. f \in FD /\ g \in FD
    BY <1>3, <1>4
  <2> HIDE DEF f, g
  <2> QED BY <2>1, ResTyped, NtfTyped
<1>8. /\ broken' \in BOOLEAN /\ (broken => broken')
      /\ ~broken' => r = "all" /\ r2 = "all" /\ ~broken
      /\ ignored \subseteq ignored' /\ ignored' \subseteq Viewer
      /\ g \notin server.open => c \in ignored'
  BY <1>2, <1>3, <1>4 DEF TypeOK
<1>9. o[c] = <<>> /\ \A d \in Client \ {c} : o[d] = out[d]
  BY <1>3, <1>4, RestOf
<1> HIDE DEF t, p
<1>10. /\ SameTypes(server, t)
       /\ g \notin server.open => t = server
       /\ g \in server.open =>
            /\ t.bridge_map = Insert(server.bridge_map, f, server.channel_map[g])
            /\ t.inbox[f] \in {<<>>, <<res>>, <<ntf>>, Append(<<res>>, ntf)}
            /\ \A h \in FD \ {f} : t.inbox[h] \in {<<>>, <<ntf>>}
            /\ \A h \in FD \ {g} : t.inbox[h] \in {<<>>, <<res>>}
            /\ r = "all" /\ (f = g => r2 = "all") => t.inbox[f] # <<>>
            /\ r = "all" /\ r2 = "all" => t.channel_map = server.channel_map
  BY <1>5 DEF Chosen
<1> HIDE DEF res, ntf
<1>11. ASSUME NEW h \in FD PROVE t.inbox[h] \in Seq(Packet)
  <2>1. /\ <<>> \in Seq(Packet) /\ <<res>> \in Seq(Packet) /\ <<ntf>> \in Seq(Packet)
    BY <1>7, Singleton
  <2>2. Append(<<res>>, ntf) \in Seq(Packet)
    BY <1>7, <2>1, Appended
  <2>3. g \notin server.open => t.inbox[h] = <<>>
    BY <1>3, <1>10 DEF Quiet
  <2>4. g \in server.open => t.inbox[h] \in {<<>>, <<res>>, <<ntf>>, Append(<<res>>, ntf)}
    BY <1>10
  <2> QED BY <2>1, <2>2, <2>3, <2>4
<1>12. Continued(t, o)
  BY <1>2, <1>3, <1>6, <1>8, <1>11, ServeContinues
<1>13. /\ server'.channel = t.channel /\ server'.channel_map = t.channel_map
       /\ server'.bridge_map = t.bridge_map /\ server'.open = t.open
       /\ Smooth(server)' /\ \A d \in Client : Passed(d, t, o)
  BY <1>12 DEF Continued
<1> HIDE DEF o
\* Without a failure the connections are the same, and at most one bridge is new.
<1>14. ASSUME ~broken'
       PROVE  /\ ~broken /\ t.channel_map = server.channel_map
              /\ server.bridge_map[f] = NULL
              /\ \A h \in FD \ {f} : t.bridge_map[h] = server.bridge_map[h]
              /\ g \in server.open => t.bridge_map[f] = server.channel_map[g]
  <2>1. ~broken /\ t.channel_map = server.channel_map
    BY <1>8, <1>10, <1>14
  <2>2. server.bridge_map[f] = NULL
    BY <1>3, <1>4, <2>1 DEF OfClient, Unbridged
  <2>3. server.bridge_map \in [FD -> Slot \cup {NULL}]
    BY <1>3, Parts
  <2> QED BY <1>3, <1>10, <2>1, <2>2, <2>3 DEF Insert
<1>15. server.channel[ChannelOf(c)].type = "CTYPE_REMOTE"
  BY <1>2, <1>3, <1>4 DEF OfClient, Typed
<1>16. Bridges'
  <2> SUFFICES ASSUME ~broken', NEW h \in FD, server'.bridge_map[h] # NULL
               PROVE  /\ h \in server'.open
                      /\ server'.channel[server'.channel_map[h]].type = "CTYPE_REMOTE"
    BY DEF Bridges
  <2>1. /\ h \in server.open
        /\ server.channel[server.channel_map[h]].type = "CTYPE_REMOTE"
    <3>1. CASE h = f
      BY <1>3, <1>15, <3>1
    <3>2. CASE h # f
      BY <1>3, <1>13, <1>14, <3>2 DEF Bridges
    <3> QED BY <3>1, <3>2
  <2>2. server.channel_map[h] # NULL
    BY <1>3, <2>1 DEF Good, NoLeak
  <2>3. server.channel_map[h] \in Slot
    BY <1>3, <2>2, Parts
  <2>4. h \in server'.open
    BY <1>13, <1>14, <2>2 DEF Smooth, Good, NoLeak
  <2> QED BY <1>10, <1>13, <1>14, <2>1, <2>3, <2>4 DEF SameTypes
<1>17. Answered(c)'
  <2> SUFFICES ASSUME link'[c] = "up" PROVE box'[c] # <<>> \/ c \in ignored'
    BY DEF Answered
  <2>1. link[c] = "up" /\ box'[c] = box[c] \o t.inbox[f]
    BY <1>3, <1>13 DEF Passed
  <2>2. r = "all" /\ (f = g => r2 = "all")
    BY <1>3, <2>1, OwnOutcome
  <2>3. CASE g \in server.open
    <3>1. box[c] \in Seq(Packet) /\ t.inbox[f] \in Seq(Packet) /\ t.inbox[f] # <<>>
      BY <1>3, <1>10, <1>11, <2>2, <2>3 DEF TypeOK
    <3> QED BY <2>1, <3>1, NotEmptied
  <2> QED BY <1>8, <2>3
<1>18. ASSUME NEW d \in Client PROVE Unbridged(d)'
  <2>1. CASE d = c
    <3>1. out'[c] = <<>> /\ pc'[c] = pc[c]
      BY <1>9, <1>13 DEF Passed
    <3>2. ~Choosing(c)'
      BY <1>4, <3>1 DEF Choosing
    <3> QED BY <1>4, <2>1, <3>2 DEF Unbridged
  <2>2. CASE d # c
    <3>1. o[d] = out[d]
      BY <1>9, <2>2
    <3>2. conn[d] \in FD => conn[d] # f
      BY <1>3, <2>2 DEF Apart
    <3>3. ~broken' /\ conn[d] \in FD =>
            t.bridge_map[conn[d]] \in {server.bridge_map[conn[d]], NULL}
      BY <1>14, <3>2
    <3> QED BY <1>3, <1>8, <1>13, <3>1, <3>3, UnbridgedStays DEF OfClient
  <2> QED BY <2>1, <2>2
<1>19. ASSUME NEW v \in Viewer PROVE Typed(v)'
  <2>1. v \in Client /\ Typed(v)
    BY <1>3 DEF Client, OfClient
  <2>2. \/ o[v] = out[v]
        \/ out[v] # <<>> /\ out[v][1].cmd # "REGISTER_CLIENT_REQ"
    BY <1>2, <1>4, <1>9, <2>1
  <2> QED BY <1>10, <1>13, <2>1, <2>2, TypedStays
<1>20. ASSUME NEW d \in Raspi PROVE Wanted(d)'
  <2>1. d \in Client /\ Wanted(d) /\ Passed(d, t, o) /\ d # c
    BY <1>3, <1>4, <1>13 DEF Client, OfClient
  <2>2. Good(t)
    BY <1>6 DEF Follows
  <2>3. ASSUME NEW h \in FD, ~broken', link[d] = "up",
               conn[d] \in FD, conn[d] \in server.open, conn[d] \in t.open,
               StreamsAfter(t.inbox[conn[d]], h, WillStream(d, h))
        PROVE  h \in t.open /\ t.bridge_map[h] = ChannelOf(d)
    <3>1. conn[d] # f /\ conn[d] # NULL
      BY <1>3, <2>1, <2>3, NullNotFD DEF Apart
    <3>2. CASE t.inbox[conn[d]] = <<>>
      <4>1. WillStream(d, h)
        BY <2>3, <3>2, AfterNone, WillStreamBoolean
      <4>2. h \in server.open /\ server.bridge_map[h] = ChannelOf(d)
        BY <1>14, <2>1, <2>3, <3>1, <4>1 DEF Wanted
      <4>3. ChannelOf(d) # NULL
        BY <1>3, <2>3 DEF Good, NoLeak, ChannelOf
      <4>4. h # f
        BY <1>14, <2>3, <4>2, <4>3
      <4> QED BY <1>3, <1>14, <2>2, <2>3, <4>2, <4>4 DEF Good, NoLeak
    <3>3. CASE t.inbox[conn[d]] # <<>>
      <4>1. g \in server.open
        BY <1>3, <1>10, <2>3, <3>3 DEF Quiet
      <4>2. t.inbox[conn[d]] = <<ntf>>
        BY <1>10, <2>3, <3>1, <3>3, <4>1
      <4>3. conn[d] = g
        <5>1. <<res>> # <<ntf>> /\ <<ntf>> # <<>>
          BY <1>7
        <5> QED BY <1>10, <2>3, <4>1, <4>2, <5>1
      <4>4. h = f
        BY <1>7, <2>3, <4>2, AfterOne, WillStreamBoolean
      <4>5. t.bridge_map[f] = ChannelOf(d)
        BY <1>14, <2>3, <4>1, <4>3 DEF ChannelOf
      <4> QED BY <1>3, <1>14, <2>2, <2>3, <4>4, <4>5 DEF Good, NoLeak
    <3> QED BY <3>2, <3>3
  <2> QED BY <1>3, <1>11, <1>13, <2>1, <2>3, WantedStays
<1> QED BY <1>9, <1>12, <1>16, <1>17, <1>18, <1>19, <1>20, ServeKeeps

\* A client gets a descriptor that nobody has and nobody is bridged from.
LEMMA AcceptKeeps ==
    ASSUME WInv, NEW c \in Client, Accept(c)
    PROVE  WInv'
<1>1. PICK f \in FD \ server.open :
         \/ Become(Fresh("segv"), [conn EXCEPT ![c] = f], out)
         \/ \E n \in Slot : /\ FirstFree(server, n)
                            /\ Become(accept_cb(server, f, n),
                                      [conn EXCEPT ![c] = f], out)
  BY DEF Accept
<1> DEFINE k == [conn EXCEPT ![c] = f]
<1>2. /\ server.run = "up" /\ conn[c] = NULL /\ link[c] \in {"up", "closed"}
      /\ ignored' = ignored /\ broken' = broken
  BY DEF Accept, ghost
<1>3. /\ TypeOK /\ Smooth(server) /\ Quiet(server) /\ Good(server)
      /\ Bridges /\ Apart /\ \A d \in Client : OfClient(d)
  BY DEF WInv, Smooth
<1>4. /\ k \in [Client -> FD \cup {NULL}] /\ k[c] = f
      /\ \A d \in Client \ {c} : k[d] = conn[d]
  BY <1>3 DEF TypeOK
<1> HIDE DEF k
<1>5. \A d \in Client : conn[d] # NULL => conn[d] \in server.open /\ conn[d] # f
  BY <1>3 DEF OfClient, Linked
<1>6. \A d, e \in Client : k[d] = k[e] /\ k[d] # NULL => d = e
  BY <1>3, <1>4, <1>5 DEF Apart
<1>7. ignored' \subseteq Viewer /\ broken' \in BOOLEAN /\ f # NULL /\ f \in FD
  BY <1>2, <1>3, NullNotFD DEF TypeOK
<1>8. CASE Become(Fresh("segv"), k, out)
  <2> DEFINE t == Fresh("segv")
  <2>1. /\ t.run = "segv" /\ \A h \in FD : t.inbox[h] = <<>> /\ t.bridge_map[h] = NULL
    BY DEF Fresh
  <2>2. Smooth(t) /\ Become(t, k, out)
    BY <1>8, FreshSmooth DEF RunState
  <2> HIDE DEF t
  <2>3. /\ TypeOK' /\ Smooth(server)' /\ Quiet(server)' /\ Apart'
        /\ \A d \in Client :
             /\ At(d)' /\ Linked(d)' /\ Served(d, t, k, out)
             /\ d \in Viewer => Viewing(d)'
             /\ d \in Raspi => Filming(d)' /\ Sending(d)'
        /\ server'.bridge_map = t.bridge_map
    <3>1. \A d \in Client : \/ k[d] = conn[d]
                            \/ /\ conn[d] = NULL /\ link[d] \in {"up", "closed"}
                               /\ k[d] \in t.open \/ t.run # "up"
      BY <1>2, <1>4, <2>1
    <3>2. \A h \in FD : t.inbox[h] \in Seq(Packet)
      BY <2>1, EmptySeq
    <3> QED BY <1>3, <1>4, <1>6, <1>7, <2>2, <3>1, <3>2, BecomeKeeps
  <2>4. ASSUME NEW d \in Client
        PROVE  conn'[d] = NULL /\ link'[d] \in {"none", "cut"}
    <3>1. Served(d, t, k, out) /\ Linked(d)
      BY <1>3, <2>3 DEF OfClient
    <3>2. CASE Parted(d, t)
      BY <3>1, <3>2 DEF Served
    <3>3. CASE ~Parted(d, t)
      <4>1. link[d] = "none" /\ d # c
        BY <1>2, <2>1, <3>3 DEF Parted
      <4> QED BY <1>4, <3>1, <3>3, <4>1 DEF Served, Linked
    <3> QED BY <3>2, <3>3
  <2>5. Bridges'
    BY <2>1, <2>3 DEF Bridges
  <2>6. ASSUME NEW d \in Client PROVE OfClient(d)'
    <3>1. Unbridged(d)' /\ Answered(d)' /\ Typed(d)' /\ Wanted(d)'
      BY <2>4 DEF Unbridged, Answered, Typed, Wanted
    <3> QED BY <2>3, <3>1 DEF OfClient
  <2> QED BY <2>3, <2>5, <2>6 DEF WInv
<1>9. ASSUME NEW n \in Slot, FirstFree(server, n), Become(accept_cb(server, f, n), k, out)
      PROVE  WInv'
  <2> DEFINE t == accept_cb(server, f, n)
  <2>1. Smooth(t)
    BY <1>3, <1>9, AcceptSmooth
  <2>2. /\ SameTypes(server, t) /\ t.bridge_map = server.bridge_map
        /\ t.inbox = server.inbox /\ t.open = server.open \cup {f}
        /\ t.run = server.run
        /\ \A h \in FD : t.channel_map[h] = IF h = f THEN n ELSE server.channel_map[h]
    BY <1>3, <1>9, AcceptEffect
  <2>3. Become(t, k, out)
    BY <1>9
  <2> HIDE DEF t
  <2>4. \A h \in FD : t.inbox[h] = <<>>
    BY <1>3, <2>2 DEF Quiet
  <2>5. /\ TypeOK' /\ Smooth(server)' /\ Quiet(server)' /\ Apart'
        /\ \A d \in Client :
             /\ At(d)' /\ Linked(d)' /\ Served(d, t, k, out)
             /\ d \in Viewer => Viewing(d)'
             /\ d \in Raspi => Filming(d)' /\ Sending(d)'
        /\ server'.channel = t.channel /\ server'.channel_map = t.channel_map
        /\ server'.bridge_map = t.bridge_map /\ server'.open = t.open
    <3>1. \A d \in Client : \/ k[d] = conn[d]
                            \/ /\ conn[d] = NULL /\ link[d] \in {"up", "closed"}
                               /\ k[d] \in t.open \/ t.run # "up"
      BY <1>2, <1>4, <2>2
    <3>2. \A h \in FD : t.inbox[h] \in Seq(Packet)
      BY <2>4, EmptySeq
    <3> QED BY <1>3, <1>4, <1>6, <1>7, <2>1, <2>3, <3>1, <3>2, BecomeKeeps
  <2>6. ASSUME NEW d \in Client
        PROVE  /\ conn'[d] = k[d] /\ out'[d] = out[d] /\ box'[d] = box[d]
               /\ pc'[d] = pc[d]
               /\ link'[d] = link[d] \/ (link[d] = "closed" /\ link'[d] = "dead")
    <3>1. Served(d, t, k, out) /\ ~Parted(d, t)
      BY <1>2, <1>5, <2>2, <2>5 DEF Parted
    <3>2. box[d] \in Seq(Packet) /\ conn[d] \in FD \cup {NULL}
      BY <1>3 DEF TypeOK
    <3>3. box[d] \o <<>> = box[d]
      BY <3>2
    <3>4. pc'[d] = pc[d]
      BY <2>3 DEF Become
    <3>5. box'[d] = box[d]
      BY <2>4, <3>1, <3>2, <3>3 DEF Served
    <3> QED BY <3>1, <3>4, <3>5 DEF Served
  <2>7. Bridges'
    <3> SUFFICES ASSUME ~broken', NEW h \in FD, server'.bridge_map[h] # NULL
                 PROVE  /\ h \in server'.open
                        /\ server'.channel[server'.channel_map[h]].type = "CTYPE_REMOTE"
      BY DEF Bridges
    <3>1. /\ h \in server.open /\ h # f
          /\ server.channel[server.channel_map[h]].type = "CTYPE_REMOTE"
      BY <1>2, <1>3, <2>2, <2>5 DEF Bridges
    <3>2. server.channel_map[h] \in Slot
      BY <1>3, <3>1, Parts DEF Good, NoLeak
    <3> QED BY <2>2, <2>5, <3>1, <3>2 DEF SameTypes
  \* Who had a connection keeps its channel.
  <2>8. ASSUME NEW d \in Client \ {c}, conn'[d] # NULL
        PROVE  /\ conn'[d] = conn[d] /\ conn[d] \in FD /\ conn[d] # f
               /\ ChannelOf(d)' = ChannelOf(d) /\ ChannelOf(d) \in Slot
    <3>1. conn'[d] = conn[d] /\ conn[d] \in FD /\ conn[d] # f /\ conn[d] \in server.open
      BY <1>3, <1>4, <1>5, <2>6, <2>8 DEF TypeOK
    <3>2. ChannelOf(d)' = ChannelOf(d)
      BY <2>2, <2>5, <3>1 DEF ChannelOf
    <3>3. ChannelOf(d) \in Slot
      BY <1>3, <3>1, Parts DEF Good, NoLeak, ChannelOf
    <3> QED BY <3>1, <3>2, <3>3
  <2>9. ASSUME NEW d \in Client PROVE Unbridged(d)' /\ Answered(d)'
    <3>1. Answered(d)'
      BY <1>2, <1>3, <2>6 DEF OfClient, Answered
    <3>2. CASE d = c
      <4>1. ~broken' => server'.bridge_map[f] = NULL
        BY <1>2, <1>3, <1>7, <2>2, <2>5 DEF Bridges
      <4> QED BY <1>4, <2>6, <3>1, <3>2, <4>1 DEF Unbridged
    <3>3. CASE d # c
      <4>1. Choosing(d)' => Choosing(d)
        BY <2>6 DEF Choosing
      <4> QED BY <1>2, <1>3, <2>2, <2>5, <2>8, <3>1, <3>3, <4>1 DEF OfClient, Unbridged
    <3> QED BY <3>2, <3>3
  <2>10. ASSUME NEW v \in Viewer PROVE Typed(v)'
    <3>1. v \in Client /\ Typed(v)
      BY <1>3 DEF Client, OfClient
    <3>2. CASE v = c
      BY <1>2, <2>6, <3>1, <3>2 DEF Typed
    <3>3. CASE v # c
      <4>1. /\ k[v] = conn[v] /\ conn'[v] = conn[v] /\ out'[v] = out[v]
            /\ link'[v] \notin {"none", "cut"} => link[v] \notin {"none", "cut"}
        BY <1>4, <2>6, <3>1, <3>3
      <4>2. conn[v] # NULL => /\ ChannelOf(v)' = ChannelOf(v)
                              /\ ChannelOf(v) \in Slot
        BY <2>8, <3>1, <3>3, <4>1
      <4> QED BY <2>2, <2>5, <3>1, <4>1, <4>2 DEF Typed, SameTypes
    <3> QED BY <3>2, <3>3
  <2>11. ASSUME NEW r \in Raspi PROVE Wanted(r)'
    <3> SUFFICES ASSUME NEW h \in FD, ~broken', link'[r] = "up", conn'[r] # NULL,
                        WillStream(r, h)'
                 PROVE  h \in server'.open /\ server'.bridge_map[h] = ChannelOf(r)'
      BY DEF Wanted
    <3>1. r \in Client /\ Wanted(r) /\ Linked(r) /\ Filming(r) /\ At(r)
      BY <1>3 DEF Client, OfClient
    <3>2. link[r] = "up" /\ (WillStream(r, h)' <=> WillStream(r, h))
      <4>1. box'[r] = box[r] /\ link[r] = "up"
        BY <2>6, <3>1
      <4>2. streaming' = streaming /\ remotefd' = remotefd
        BY <2>3 DEF Become, raspi
      <4> QED BY <4>1, <4>2 DEF WillStream, StreamsTo
    <3>3. CASE r = c
      <4>1. box[r] = <<>> /\ pc[r] # "main" /\ ~streaming[r]
        BY <1>2, <3>1, <3>2, <3>3 DEF Linked, Filming
      <4>2. ~StreamsTo(r, h) /\ StreamsTo(r, h) \in BOOLEAN
        BY <4>1 DEF StreamsTo
      <4>3. ~WillStream(r, h)
        BY <4>1, <4>2, AfterNone DEF WillStream
      <4> QED BY <3>2, <4>3
    <3>4. CASE r # c
      <4>1. conn[r] # NULL /\ ChannelOf(r)' = ChannelOf(r)
        BY <2>8, <3>1, <3>4
      <4>2. h \in server.open /\ server.bridge_map[h] = ChannelOf(r)
        BY <1>2, <3>1, <3>2, <4>1 DEF Wanted
      <4> QED BY <2>2, <2>5, <4>1, <4>2
    <3> QED BY <3>3, <3>4
  <2>12. \A d \in Client : OfClient(d)'
    BY <2>5, <2>9, <2>10, <2>11 DEF OfClient
  <2> QED BY <2>5, <2>7, <2>12 DEF WInv
<1> QED BY <1>1, <1>8, <1>9 DEF k

-----------------------------------------------------------------------------
\* Nobody is connected yet.
THEOREM Initialised == Init => WInv
<1> SUFFICES ASSUME Init PROVE WInv
  OBVIOUS
<1>1. /\ server = Fresh("up") /\ ignored = {} /\ broken = FALSE /\ starts = 0
      /\ link = [c \in Client |-> "none"] /\ conn = [c \in Client |-> NULL]
      /\ out = [c \in Client |-> <<>>] /\ box = [c \in Client |-> <<>>]
      /\ pc = [c \in Client |-> "off"]
      /\ streaming = [r \in Raspi |-> FALSE] /\ camera = [r \in Raspi |-> FALSE]
      /\ remotefd = [r \in Raspi |-> 0]
  BY DEF Init
<1>2. /\ \A c \in Client : /\ link[c] = "none" /\ conn[c] = NULL /\ out[c] = <<>>
                           /\ box[c] = <<>> /\ pc[c] = "off"
      /\ \A r \in Raspi : ~streaming[r] /\ ~camera[r]
  BY <1>1
<1>3. Smooth(server)
  BY <1>1, FreshSmooth DEF RunState
<1>4. Quiet(server) /\ \A f \in FD : server.bridge_map[f] = NULL
  BY <1>1 DEF Quiet, Fresh
<1>5. TypeOK
  <2>1. server \in State
    BY <1>3 DEF Smooth, Good
  <2>2. /\ out \in [Client -> Seq(Packet)] /\ box \in [Client -> Seq(Packet)]
        /\ link \in [Client -> Link] /\ conn \in [Client -> FD \cup {NULL}]
        /\ pc \in [Client -> ViewerPC \cup RaspiPC]
    BY <1>1 DEF Link, ViewerPC, RaspiPC
  <2>3. /\ streaming \in [Raspi -> BOOLEAN] /\ camera \in [Raspi -> BOOLEAN]
        /\ remotefd \in [Raspi -> FD \cup {0}]
    BY <1>1
  <2>4. \A c \in Client : Len(out[c]) <= AHEAD + 1 /\ Len(box[c]) <= QUEUE
    BY <1>2, AheadAssumption, QueueAssumption
  <2>5. starts \in 0 .. STARTS
    BY <1>1, StartsAssumption
  <2> QED BY <1>1, <2>1, <2>2, <2>3, <2>4, <2>5 DEF TypeOK
<1>6. Apart /\ Bridges
  BY <1>2, <1>4 DEF Apart, Bridges
<1>7. ASSUME NEW c \in Client PROVE OfClient(c)
  <2>1. At(c) /\ Linked(c) /\ Unbridged(c) /\ Answered(c)
    BY <1>2 DEF At, Linked, Unbridged, Answered, ViewerPC, RaspiPC
  <2>2. Viewing(c) /\ Typed(c)
    BY <1>2 DEF Viewing, Typed
  <2>3. c \in Raspi => Filming(c) /\ Sending(c) /\ Wanted(c)
    BY <1>2, AheadAssumption DEF Filming, Sending, Wanted
  <2> QED BY <2>1, <2>2, <2>3 DEF OfClient
<1> QED BY <1>3, <1>4, <1>5, <1>6, <1>7 DEF WInv

\* Every step of the server, of a viewer or of a raspi preserves the invariant.
THEOREM Inductive == WInv /\ [Next]_vars => WInv'
<1> SUFFICES ASSUME WInv, [Next]_vars PROVE WInv'
  OBVIOUS
<1>1. ASSUME NEW c \in Client, Accept(c) \/ Serve(c) \/ RecvFails(c) \/ Killed(c)
      PROVE  WInv'
  <2>1. CASE Accept(c)
    BY <2>1, AcceptKeeps
  <2>2. CASE Serve(c)
    BY <2>2, RegisterKeeps, ChooseServerKeeps, ForwardKeeps, EndOfStreamKeeps,
       RecvErrorKeeps DEF Serve
  <2>3. CASE RecvFails(c)
    BY <2>3, QuitKeeps DEF RecvFails
  <2>4. CASE Killed(c)
    BY <2>4, QuitKeeps DEF Killed
  <2> QED BY <1>1, <2>1, <2>2, <2>3, <2>4
<1>2. ASSUME NEW v \in Viewer, ViewerStart(v) \/ ViewerTakes(v) \/ Choose(v)
      PROVE  WInv'
  <2>1. v \in Client
    BY DEF Client
  <2> QED BY <1>2, <2>1, ConnectKeeps, ViewerTakesKeeps, ChooseKeeps DEF ViewerStart
<1>3. ASSUME NEW r \in Raspi,
             RaspiStart(r) \/ RaspiTakes(r) \/ Frame(r) \/ CameraEnds(r)
      PROVE  WInv'
  <2>1. r \in Client
    BY DEF Client
  <2> QED BY <1>3, <2>1, ConnectKeeps, RaspiTakesKeeps, FrameKeeps, CameraEndsKeeps
      DEF RaspiStart
<1>4. CASE UNCHANGED vars
  <2>1. /\ server' = server /\ broken' = broken /\ conn' = conn /\ link' = link
        /\ out' = out /\ box' = box /\ pc' = pc /\ starts' = starts
        /\ ignored' = ignored /\ streaming' = streaming /\ camera' = camera
        /\ remotefd' = remotefd
    BY <1>4 DEF vars, net, raspi, ghost
  <2>2. TypeOK' /\ Smooth(server)' /\ Quiet(server)' /\ Apart' /\ Bridges'
    BY <2>1 DEF WInv, TypeOK, Apart, Bridges
  <2>3. ASSUME NEW c \in Client PROVE OfClient(c)'
    BY <2>1, SameClient DEF WInv, Same
  <2> QED BY <2>2, <2>3 DEF WInv
<1> QED BY <1>1, <1>2, <1>3, <1>4 DEF Next

\* The invariant holds in every reachable state.
THEOREM AlwaysInv == Spec => []WInv
BY Initialised, Inductive, PTL DEF Spec

\* Every variable keeps its type, and every queue its bound, in whatever order
\* packets come and connections end; what the server stores of a packet in a
\* map or a channel is a descriptor.
THEOREM TypeCorrect == Spec => []TypeOK
<1>1. WInv => TypeOK
  BY DEF WInv
<1> QED BY <1>1, AlwaysInv, PTL

\* A raspi streams, or will once it has read its notifications, only to a
\* viewer that is connected and bridged to it, as long as no connection ends by
\* an error: handle_choose_server_req makes the bridge in the callback that
\* tells the raspi, and check_break_fd tells it in the one that drops it.
THEOREM StreamsAreWanted == Spec => []StreamWanted
<1>1. WInv => StreamWanted
  BY DEF WInv, OfClient, Wanted, StreamWanted, Client
<1> QED BY <1>1, AlwaysInv, PTL

\* bridge_map has no entry for a descriptor that is closed, as long as no
\* connection ends by an error.
THEOREM BridgesHaveViewers == Spec => []BridgeHasViewer
<1>1. WInv => BridgeHasViewer
  BY DEF WInv, Bridges, BridgeHasViewer
<1> QED BY <1>1, AlwaysInv, PTL

\* No client waits in recv_pkg for an answer that nobody is going to send it.
THEOREM AnswersUnderWay == Spec => []AnswerUnderWay
<1>1. WInv => AnswerUnderWay
  BY DEF WInv, OfClient, Answered, AnswerUnderWay
<1> QED BY <1>1, AlwaysInv, PTL
===============================================================================
