------------------------------ MODULE Channels ------------------------------
(***************************************************************************)
(* The functions of the wawa server (src/src/server.cpp, handler.cpp) and  *)
(* the data they work on (server.h, protocol.h).  The server is one thread *)
(* that runs libev callbacks one after the other; it keeps a Channel of a  *)
(* fixed array for each connection, answers requests, and forwards every   *)
(* packet whose head names a descriptor to that descriptor.                *)
(*                                                                         *)
(* A server state is a record.  Each function of the code is an operator   *)
(* from a server state to a server state; the result of every send() it    *)
(* makes is a parameter:                                                   *)
(*    "all"    every remaining byte was accepted by the kernel             *)
(*    "some"   a proper, non-empty part of them                            *)
(*    "again"  -1 with EAGAIN or EWOULDBLOCK                               *)
(*    "fail"   -1 with any other errno                                     *)
(* A packet is PKG_UNITS units long, so that it can be half sent.          *)
(***************************************************************************)
EXTENDS Integers, FiniteSets, Sequences

CONSTANTS
    CHANNEL_MAX, \* length of the channel array
    FD,          \* the descriptors the kernel may give to accept()
    LIST_MAX     \* length of RegisterClientRes.fd

ASSUME ChannelMaxAssumption == CHANNEL_MAX \in Nat \ {0}

\* Descriptors 0, 1 and 2 are the terminal's and stay open, so that accept()
\* never returns 0, which in a head stands for the server itself.
ASSUME FDAssumption == FD \subseteq Nat \ {0}

ASSUME ListMaxAssumption == LIST_MAX \in Nat \ {0}

NULL == -1

PKG_UNITS == 2

Slot == 0 .. CHANNEL_MAX - 1

SendResult == {"all", "some", "again", "fail"}

CLIENT_TYPE == {"CTYPE_RASPI", "CTYPE_REMOTE"}

CHANNEL_STATUS == {"NON_ACTIVE", "ACTIVE"} \* BUSY is never assigned

PKG_CMD_TYPE == {"NONE", "REGISTER_CLIENT_REQ", "REGISTER_CLIENT_RES",
                 "STREAM_DATA_NTF", "CHOOSE_SERVER_REQ", "CHOOSE_SERVER_RES",
                 "START_SEND_DATA_NTF", "RESTART_CLIENT_NTF"}

\* arg is the first word of the body: clientType, choose_fd, result or reserve.
Pkg == [cmd : PKG_CMD_TYPE, fd : Int, arg : Int]

\* Pkg::construct()
ZeroPkg == [cmd |-> "NONE", fd |-> 0, arg |-> 0]

(***************************************************************************)
(* struct Channel.  idx is left out: get_free_channel sets it to the       *)
(* position of the channel, so that free_channel's channel[c->idx] is *c.  *)
(* recvOn and sendOn say whether recvCtx.io and sendCtx.io are started;    *)
(* pkg, len and src are sendCtx.pkg, sendCtx.len and sendCtx.pSrcChannel.  *)
(***************************************************************************)
Channel == [fd : FD \cup {0}, status : CHANNEL_STATUS, type : CLIENT_TYPE,
            recvOn : BOOLEAN, sendOn : BOOLEAN,
            pkg : Pkg, len : 0 .. PKG_UNITS, src : Slot \cup {NULL}]

\* Static storage: all zero, and CTYPE_RASPI and NON_ACTIVE are 0.
ZeroChannel == [fd |-> 0, status |-> "NON_ACTIVE", type |-> "CTYPE_RASPI",
                recvOn |-> FALSE, sendOn |-> FALSE,
                pkg |-> ZeroPkg, len |-> 0, src |-> NULL]

(***************************************************************************)
(* What the stream to one peer lacks: due is the packet that was begun and *)
(* is not complete (ZeroPkg if there is none), off the units of it already *)
(* written.  The stream is torn for good once a packet is begun while      *)
(* another is due, or what is sent as a rest is not the rest of it.        *)
(***************************************************************************)
Wire == [due : Pkg, off : 0 .. PKG_UNITS - 1, torn : BOOLEAN]

Clean == [due |-> ZeroPkg, off |-> 0, torn |-> FALSE]

Torn == [due |-> ZeroPkg, off |-> 0, torn |-> TRUE]

(***************************************************************************)
(* A server state.  open, wire and inbox are the kernel's: the open        *)
(* descriptors of accepted connections, and per descriptor what its stream *)
(* lacks and the whole packets the peer can read.  run is "up", or how the *)
(* process ended: "down" (signal), "segv", or "undef" (libev's list of     *)
(* watchers corrupted, anything may follow).                               *)
(***************************************************************************)
RunState == {"up", "down", "segv", "undef"}

State == [channel : [Slot -> Channel],
          channel_map : [FD -> Slot \cup {NULL}],
          bridge_map : [FD -> Slot \cup {NULL}],
          open : SUBSET FD,
          wire : [FD -> Wire],
          inbox : [FD -> Seq(Pkg)],
          run : RunState]

\* The state of a process that has just started, or whose memory and
\* descriptors are gone because it ended.
Fresh(how) == [channel |-> [c \in Slot |-> ZeroChannel],
               channel_map |-> [f \in FD |-> NULL],
               bridge_map |-> [f \in FD |-> NULL],
               open |-> {},
               wire |-> [f \in FD |-> Clean],
               inbox |-> [f \in FD |-> <<>>],
               run |-> how]

-----------------------------------------------------------------------------
(* send(): p from unit off on goes to descriptor f.                        *)

Write(s, f, p, off, fits, out) ==
    IF s.wire[f].torn \/ ~fits THEN [s EXCEPT !.wire[f] = Torn]
    ELSE CASE out = "all" -> [s EXCEPT !.wire[f] = Clean,
                                       !.inbox[f] = Append(@, p)]
           [] out = "some" -> [s EXCEPT !.wire[f] = [due |-> p, off |-> off + 1,
                                                     torn |-> FALSE]]
           [] OTHER -> [s EXCEPT !.wire[f] = [due |-> p, off |-> off,
                                              torn |-> FALSE]]

Begin(s, f, p, out) == Write(s, f, p, 0, s.wire[f].due = ZeroPkg, out)

Continue(s, f, p, off, out) ==
    Write(s, f, p, off,
          p # ZeroPkg /\ s.wire[f].due = p /\ s.wire[f].off = off, out)

-----------------------------------------------------------------------------
\* std::map find and insert; insert leaves the value of an existing key alone.
Find(m, f) == IF f \in FD THEN m[f] ELSE NULL

Insert(m, f, c) == IF m[f] = NULL THEN [m EXCEPT ![f] = c] ELSE m

\* ev_io_start and ev_io_stop on recvCtx.io and on sendCtx.io.
RecvIo(s, c, on) == [s EXCEPT !.channel[c].recvOn = on]

SendIo(s, c, on) == [s EXCEPT !.channel[c].sendOn = on]

\* The test every handler makes on the result of channel_map.find.
Usable(s, c) == c # NULL /\ s.channel[c].status = "ACTIVE"

\* Mutant: the entry of channel_map is not erased.
FreeKeepsEntry(s, c) ==
    LET f == s.channel[c].fd IN
    [s EXCEPT !.channel[c] = [@ EXCEPT !.status = "NON_ACTIVE", !.len = 0,
                                       !.recvOn = FALSE, !.sendOn = FALSE],
              !.open = @ \ {f},
              !.wire[f] = Clean,
              !.inbox[f] = <<>>]

\* Mutant: the socket is not closed.
FreeKeepsSocket(s, c) ==
    LET f == s.channel[c].fd IN
    [s EXCEPT !.channel[c] = [@ EXCEPT !.status = "NON_ACTIVE", !.len = 0,
                                       !.recvOn = FALSE, !.sendOn = FALSE],
              !.channel_map[f] = NULL]

\* Mutant: the channel forgets the descriptor it has closed.
FreeClearsFd(s, c) ==
    LET f == s.channel[c].fd IN
    [s EXCEPT !.channel[c] = [@ EXCEPT !.fd = 0, !.status = "NON_ACTIVE",
                                       !.len = 0,
                                       !.recvOn = FALSE, !.sendOn = FALSE],
              !.channel_map[f] = NULL,
              !.open = @ \ {f},
              !.wire[f] = Clean,
              !.inbox[f] = <<>>]

free_channel(s, c) ==
    LET f == s.channel[c].fd IN
    [s EXCEPT !.channel[c] = [@ EXCEPT !.status = "NON_ACTIVE", !.len = 0,
                                       !.recvOn = FALSE, !.sendOn = FALSE],
              !.channel_map[f] = NULL,
              !.open = @ \ {f},
              !.wire[f] = Clean,
              !.inbox[f] = <<>>]

\* Mutant: sendCtx.pkg is not cleared when the channel is handed out again.
GetKeepsPkg(s, c, f) ==
    [s EXCEPT !.channel[c] = [@ EXCEPT !.fd = f, !.status = "ACTIVE", !.len = 0,
                                       !.recvOn = TRUE],
              !.channel_map = Insert(@, f, c),
              !.open = @ \cup {f}]

(***************************************************************************)
(* accept_cb gives descriptor f the free channel c.  type and pSrcChannel  *)
(* keep the values of the channel's last use.                              *)
(***************************************************************************)
get_free_channel(s, c, f) ==
    [s EXCEPT !.channel[c] = [@ EXCEPT !.fd = f, !.status = "ACTIVE",
                                       !.pkg = ZeroPkg, !.len = 0,
                                       !.recvOn = TRUE],
              !.channel_map = Insert(@, f, c),
              !.open = @ \cup {f}]

-----------------------------------------------------------------------------
\* Mutant: the send watcher is started only if a part was taken.
ResponseForgets(s, p, out) ==
    LET c == Find(s.channel_map, p.fd)
        t == Begin(s, p.fd, p, out)
        ch == s.channel[c]
    IN  IF ~Usable(s, c) THEN s
        ELSE IF out = "fail" THEN free_channel(t, c)
        ELSE [t EXCEPT !.channel[c] =
                 [ch EXCEPT !.len = IF out = "some" THEN 1 ELSE 0,
                            !.sendOn = IF out = "some" THEN TRUE ELSE ch.sendOn,
                            !.recvOn = IF out = "all" THEN TRUE ELSE ch.recvOn]]

(***************************************************************************)
(* response: p goes to the descriptor its own head names.  Callers pass    *)
(* sendCtx.pkg itself, except check_break_fd.                              *)
(***************************************************************************)
response(s, p, out) ==
    LET c == Find(s.channel_map, p.fd)
        t == Begin(s, p.fd, p, out)
        ch == s.channel[c]
    IN  IF ~Usable(s, c) THEN s
        ELSE IF out = "fail" THEN free_channel(t, c)
        ELSE [t EXCEPT !.channel[c] =
                 [ch EXCEPT !.len = IF out = "some" THEN 1 ELSE 0,
                            !.sendOn = IF out = "all" THEN ch.sendOn ELSE TRUE,
                            !.recvOn = IF out = "all" THEN TRUE ELSE ch.recvOn]]

\* Mutant: the head of the notification is left as construct() made it.
CheckLeavesHead(s, type, f, out) ==
    LET b == s.bridge_map[f]
        ntf == [cmd |-> "RESTART_CLIENT_NTF", fd |-> 0, arg |-> 1]
    IN  IF type # "CTYPE_REMOTE" \/ b = NULL THEN s
        ELSE [response(s, ntf, out) EXCEPT !.channel[b].status = "ACTIVE",
                                           !.bridge_map[f] = NULL]

(***************************************************************************)
(* A connection of the given type on f is gone: tell the raspi it was      *)
(* bridged to, and drop the bridge.  The raspi's channel is marked ACTIVE  *)
(* whatever has become of it.                                              *)
(***************************************************************************)
check_break_fd(s, type, f, out) ==
    LET b == s.bridge_map[f]
        ntf == [cmd |-> "RESTART_CLIENT_NTF", fd |-> s.channel[b].fd, arg |-> 1]
    IN  IF type # "CTYPE_REMOTE" \/ b = NULL THEN s
        ELSE [response(s, ntf, out) EXCEPT !.channel[b].status = "ACTIVE",
                                           !.bridge_map[f] = NULL]

(***************************************************************************)
(* dispatch: forward p from srcfd to p.fd.  out is the result of send(),   *)
(* out2 that of the notification to a bridged raspi.  The test of          *)
(* stHead.len against BUF_SIZE repeats the one server_recv_cb has made.    *)
(* When check_break_fd erases the entry dst_it points at (a client bridged *)
(* to itself), the pointer read after it is that of the freed node, which  *)
(* free() has not overwritten.                                             *)
(***************************************************************************)
dispatch(s, p, srcfd, out, out2) ==
    LET src == Find(s.channel_map, srcfd)
        dst == Find(s.channel_map, p.fd)
        t == [Begin(s, p.fd, p, out) EXCEPT !.channel[dst] =
                 [@ EXCEPT !.pkg = p, !.len = IF out = "some" THEN 1 ELSE 0]]
    IN  IF ~Usable(s, src) \/ ~Usable(s, dst) THEN s
        ELSE CASE out = "all" ->
                    RecvIo(SendIo(t, dst, FALSE), src, TRUE)
               [] out = "fail" ->
                    free_channel(check_break_fd(t, t.channel[dst].type,
                                                t.channel[dst].fd, out2), dst)
               [] OTHER ->
                    [SendIo(RecvIo(t, src, FALSE), dst, TRUE) EXCEPT
                        !.channel[dst].src = src]

\* The descriptors a registering remote is offered.
Raspis(s) ==
    {f \in FD : /\ Usable(s, s.channel_map[f])
                /\ s.channel[s.channel_map[f]].type = "CTYPE_RASPI"}

ClientType(p) == IF p.arg = 0 THEN "CTYPE_RASPI" ELSE "CTYPE_REMOTE"

\* Mutant: the test for a full list comes one raspi too early.
RegisterOneLess(s, p, fd, out) ==
    LET c == Find(s.channel_map, fd)
        res == [cmd |-> "REGISTER_CLIENT_RES", fd |-> fd, arg |-> 0]
        t == [s EXCEPT !.channel[c] = [@ EXCEPT !.type = ClientType(p),
                                                !.pkg = res]]
    IN  IF ~Usable(s, c) \/ p.arg \notin {0, 1} THEN s
        ELSE IF p.arg = 1 /\ Cardinality(Raspis(t)) + 1 >= LIST_MAX THEN t
        ELSE response(t, res, out)

(***************************************************************************)
(* fd is the descriptor server_recv_cb wrote into the head.  With LIST_MAX *)
(* raspis or more the loop returns before the answer is sent.              *)
(***************************************************************************)
handle_register_client_req(s, p, fd, out) ==
    LET c == Find(s.channel_map, fd)
        res == [cmd |-> "REGISTER_CLIENT_RES", fd |-> fd, arg |-> 0]
        t == [s EXCEPT !.channel[c] = [@ EXCEPT !.type = ClientType(p),
                                                !.pkg = res]]
    IN  IF ~Usable(s, c) \/ p.arg \notin {0, 1} THEN s
        ELSE IF p.arg = 1 /\ Cardinality(Raspis(t)) >= LIST_MAX THEN t
        ELSE response(t, res, out)

\* Mutant: the raspi is told the number of the viewer's channel.
ChooseTellsIndex(s, p, fd, out, out2) ==
    LET c == Find(s.channel_map, fd)
        r == Find(s.channel_map, p.arg)
        res == [cmd |-> "CHOOSE_SERVER_RES", fd |-> fd, arg |-> 0]
        t1 == response([s EXCEPT !.channel[c].pkg = res], res, out)
        ntf == [cmd |-> "START_SEND_DATA_NTF", fd |-> t1.channel[r].pkg.fd,
                arg |-> c]
        t2 == response([t1 EXCEPT !.channel[r].pkg = ntf], ntf, out2)
    IN  IF ~Usable(s, c) \/ ~Usable(s, r) THEN s
        ELSE [t2 EXCEPT !.bridge_map = Insert(@, fd, r)]

(***************************************************************************)
(* The head of the notification to the raspi keeps the fd the last packet  *)
(* in the raspi's sendCtx had.  type is not looked at.                     *)
(***************************************************************************)
handle_choose_server_req(s, p, fd, out, out2) ==
    LET c == Find(s.channel_map, fd)
        r == Find(s.channel_map, p.arg)
        res == [cmd |-> "CHOOSE_SERVER_RES", fd |-> fd, arg |-> 0]
        t1 == response([s EXCEPT !.channel[c].pkg = res], res, out)
        ntf == [cmd |-> "START_SEND_DATA_NTF", fd |-> t1.channel[r].pkg.fd,
                arg |-> fd]
        t2 == response([t1 EXCEPT !.channel[r].pkg = ntf], ntf, out2)
    IN  IF ~Usable(s, c) \/ ~Usable(s, r) THEN s
        ELSE [t2 EXCEPT !.bridge_map = Insert(@, fd, r)]

-----------------------------------------------------------------------------
(* The branches of the callbacks.                                          *)

FirstFree(s, c) ==
    /\ s.channel[c].status = "NON_ACTIVE"
    /\ \A d \in 0 .. c - 1 : s.channel[d].status # "NON_ACTIVE"

NoneFree(s) == \A c \in Slot : s.channel[c].status # "NON_ACTIVE"

(***************************************************************************)
(* accept_cb when accept() returned f and c is the first free channel.     *)
(* Initialising a watcher that is still started corrupts libev's list of   *)
(* watchers.  Without a free channel the code writes through a null        *)
(* pointer.                                                                *)
(***************************************************************************)
accept_cb(s, f, c) ==
    IF s.channel[c].recvOn \/ s.channel[c].sendOn THEN Fresh("undef")
    ELSE get_free_channel(s, c, f)

\* Mutant: the end of a stream is not told to the raspi.
PeerClosedTellsNobody(s, c, out) == free_channel(s, c)

\* server_recv_cb when recv() returned 0: the peer closed the connection.
PeerClosed(s, c, out) ==
    check_break_fd(free_channel(s, c), s.channel[c].type, s.channel[c].fd, out)

(***************************************************************************)
(* server_send_cb goes on with sendCtx.pkg at sendCtx.len.  SendShort: the *)
(* watcher stays started after EAGAIN or while bytes are left.             *)
(***************************************************************************)
SendShort(s, c, out) ==
    LET ch == s.channel[c] IN
    [Continue(s, ch.fd, ch.pkg, ch.len, out) EXCEPT
        !.channel[c] = [ch EXCEPT !.len = IF out = "some" THEN ch.len + 1
                                          ELSE ch.len]]

\* Mutant: the length of the packet is added instead of what was just sent.
SendDoneCountsAll(s, c) ==
    [s EXCEPT !.channel[c] = [@ EXCEPT !.len = @ + PKG_UNITS, !.sendOn = FALSE]]

\* The rest was sent: both ends are read again, through pSrcChannel unchecked.
SendDone(s, c) ==
    LET ch == s.channel[c]
        t == [Continue(s, ch.fd, ch.pkg, ch.len, "all") EXCEPT
                 !.channel[c] = [@ EXCEPT !.len = PKG_UNITS, !.sendOn = FALSE,
                                          !.recvOn = TRUE]]
    IN  IF ch.src = NULL THEN Fresh("segv")
        ELSE RecvIo(t, ch.src, TRUE)

SendFail(s, c, out) ==
    free_channel(check_break_fd(s, s.channel[c].type, s.channel[c].fd, out), c)
=============================================================================
