------------------------------- MODULE Server -------------------------------
(***************************************************************************)
(* The event loop of the wawa server (src/src/server.cpp): one action is   *)
(* one libev callback, run to completion.  The clients are unconstrained:  *)
(* any connection may send any packet of PkgIn, close or fail at any time, *)
(* and reads at once what it is sent.  How packets are cut out of the byte *)
(* stream is not modelled here: a receive callback sees a whole packet,    *)
(* the end of the stream or an error.                                      *)
(***************************************************************************)
EXTENDS Channels

CONSTANTS
    Outcome, \* the results send() may have
    Resets,  \* may recv() fail, or a peer announce an oversized body?
    PkgIn    \* the packets a client may send

ASSUME OutcomeAssumption == Outcome \subseteq SendResult

ASSUME PkgInAssumption == PkgIn \subseteq Pkg

VARIABLES
    channel,     \* the array: Slot -> Channel
    channel_map, \* FD -> Slot, NULL where the map has no such key
    bridge_map,  \* remote's FD -> Slot of the raspi, NULL where no such key
    open,        \* the descriptors of accepted connections open in the kernel
    wire,        \* FD -> what the stream to that peer still lacks
    run          \* "up" or how the process ended

vars == <<channel, channel_map, bridge_map, open, wire, run>>

st == [channel |-> channel, channel_map |-> channel_map,
       bridge_map |-> bridge_map, open |-> open, wire |-> wire,
       inbox |-> [f \in FD |-> <<>>], run |-> run]

Become(t) ==
    /\ channel' = t.channel
    /\ channel_map' = t.channel_map
    /\ bridge_map' = t.bridge_map
    /\ open' = t.open
    /\ wire' = t.wire
    /\ run' = t.run

Init ==
    /\ channel = Fresh("up").channel
    /\ channel_map = Fresh("up").channel_map
    /\ bridge_map = Fresh("up").bridge_map
    /\ open = Fresh("up").open
    /\ wire = Fresh("up").wire
    /\ run = "up"

\* The kernel returns the lowest unused descriptor.
Accept ==
    /\ run = "up"
    /\ \E f \in FD \ open :
         /\ \A g \in FD \ open : f <= g
         /\ \/ NoneFree(st) /\ Become(Fresh("segv"))
            \/ \E c \in Slot : FirstFree(st, c) /\ Become(accept_cb(st, f, c))

-----------------------------------------------------------------------------
(* server_recv_cb on channel c.                                            *)

Readable(c) == run = "up" /\ channel[c].recvOn /\ channel[c].fd \in open

\* A complete packet with head.fd = 0 is a request: handle() looks its command
\* up in handler_map, which holds two handlers.
Request(c, cmd) == {p \in PkgIn : Readable(c) /\ p.fd = 0 /\ p.cmd = cmd}

RecvRegister(c) ==
    \E p \in Request(c, "REGISTER_CLIENT_REQ"), out \in Outcome :
        Become(handle_register_client_req(st, p, channel[c].fd, out))

RecvChoose(c) ==
    \E p \in Request(c, "CHOOSE_SERVER_REQ"), out, out2 \in Outcome :
        Become(handle_choose_server_req(st, p, channel[c].fd, out, out2))

RecvUnhandled(c) ==
    \E cmd \in PKG_CMD_TYPE \ {"REGISTER_CLIENT_REQ", "CHOOSE_SERVER_REQ"} :
        Request(c, cmd) # {} /\ UNCHANGED vars

\* Any other head.fd: forward.  Only a failed send() has a second one follow.
RecvForward(c) ==
    /\ Readable(c)
    /\ \E p \in PkgIn, out, out2 \in Outcome :
         /\ p.fd # 0
         /\ out # "fail" => out2 = out
         /\ Become(dispatch(st, p, channel[c].fd, out, out2))

RecvClosed(c) ==
    /\ Readable(c)
    /\ \E out \in Outcome : Become(PeerClosed(st, c, out))

(***************************************************************************)
(* recv() failed, or the head announces a body longer than BUF_SIZE.  A    *)
(* watcher that is started on a closed descriptor is called back by libev, *)
(* and recv() returns EBADF.                                               *)
(***************************************************************************)
RecvError(c) ==
    /\ run = "up"
    /\ channel[c].recvOn
    /\ Resets \/ channel[c].fd \notin open
    /\ Become(free_channel(st, c))

server_recv_cb(c) ==
    \/ RecvRegister(c)
    \/ RecvChoose(c)
    \/ RecvUnhandled(c)
    \/ RecvForward(c)
    \/ RecvClosed(c)
    \/ RecvError(c)

-----------------------------------------------------------------------------
(* server_send_cb on channel c.                                            *)

\* A watcher that is started on a closed descriptor is called back as well,
\* and send() returns EBADF.
Sending(c) == run = "up" /\ channel[c].sendOn

Writable(c) == Sending(c) /\ channel[c].fd \in open

Short(c) ==
    /\ Writable(c)
    /\ \E out \in Outcome \cap {"some", "again"} :
         /\ out = "some" => channel[c].len + 1 < PKG_UNITS
         /\ Become(SendShort(st, c, out))

Done(c) == Writable(c) /\ "all" \in Outcome /\ Become(SendDone(st, c))

Failed(c) ==
    /\ Sending(c)
    /\ "fail" \in Outcome \/ channel[c].fd \notin open
    /\ \E out \in Outcome : Become(SendFail(st, c, out))

server_send_cb(c) == Short(c) \/ Done(c) \/ Failed(c)

\* SIGINT or SIGTERM: the loop ends and main returns.
signal_cb == run = "up" /\ Become(Fresh("down"))

Next ==
    \/ Accept
    \/ \E c \in Slot : server_recv_cb(c) \/ server_send_cb(c)
    \/ signal_cb

Spec == Init /\ [][Next]_vars

-----------------------------------------------------------------------------
TypeOK ==
    /\ channel \in [Slot -> Channel]
    /\ channel_map \in [FD -> Slot \cup {NULL}]
    /\ bridge_map \in [FD -> Slot \cup {NULL}]
    /\ open \in SUBSET FD
    /\ wire \in [FD -> Wire]
    /\ run \in RunState

Mapped(c) == \E f \in FD : channel_map[f] = c

\* channel_map finds, for a descriptor, the active channel that uses it: on
\* every path through response, dispatch, check_break_fd and the callbacks,
\* double frees and stale watchers included.
ChannelMapSound ==
    \A f \in FD : channel_map[f] # NULL =>
        /\ channel[channel_map[f]].fd = f
        /\ channel[channel_map[f]].status = "ACTIVE"

\* No connection is left open that channel_map has forgotten, and none that it
\* still knows is closed: accept and free_channel keep the map and the kernel's
\* descriptors in step.
NoDescriptorLeak == \A f \in FD : f \in open <=> channel_map[f] # NULL

\* What a connected channel holds in sendCtx.pkg is addressed to that channel
\* or to nobody.  handle_choose_server_req sends the raspi's sendCtx.pkg
\* without setting head.fd, so this is all that keeps the start notification
\* from reaching another client.
ReplyAddressed ==
    \A f \in FD : channel_map[f] # NULL =>
        channel[channel_map[f]].pkg.fd \in {0, f}

\* A packet that was begun is not forgotten: while the stream to a connection
\* waits for a rest, the connection's send watcher is started.  Each function
\* stops and starts watchers by itself, of channels that other functions have
\* started or freed; a rest without a watcher would hold up the stream for ever.
RestWatched ==
    \A f \in open : wire[f].due # ZeroPkg => channel[channel_map[f]].sendOn

\* Pointers to channels that were freed stay in use as pSrcChannel, and start
\* watchers of them.  None is of a channel that has had no connection, whose fd
\* is 0: the server never receives from, sends to or closes its own terminal.
NeverTheTerminal ==
    \A c \in Slot :
        (channel[c].recvOn \/ channel[c].sendOn
           \/ \E d \in Slot : channel[d].src = c) => channel[c].fd # 0

-----------------------------------------------------------------------------
(***************************************************************************)
(* What comments and messages of the code say and the code does not keep.  *)
(* Each of these is violated in a run of its own.                          *)
(***************************************************************************)

\* server.h:44 "1 active 0 unactive": an active channel is one in use, it has
\* a connection.  A channel that is active without one is never free again.
ActiveIsConnected ==
    \A c \in Slot : channel[c].status = "ACTIVE" => Mapped(c)

\* server.cpp:383 "the receive io of the source must be started": a channel
\* whose rest is to be sent has a source.
SourceKnown ==
    \A c \in Slot : Mapped(c) /\ channel[c].sendOn => channel[c].src # NULL

\* c is kept as the source of what channel d has begun to send.
Source(c, d) == Mapped(d) /\ channel[d].sendOn /\ channel[d].src = c

\* handler.cpp:93 "while the packet is not finished the source must not go on
\* receiving" and server.cpp:383 "the receive io of the source must be started": a
\* connection is not read while a packet from it is unfinished, and only as long
\* as somebody will start its watcher again.  (Even if none streams to itself.)
SourcePaused ==
    (\A d \in Slot : channel[d].src # d) =>
        \A c \in Slot : Mapped(c) =>
            IF channel[c].recvOn
            THEN \A d \in Slot : Source(c, d) =>
                   wire[channel[d].fd].due.cmd # "STREAM_DATA_NTF"
            ELSE \E d \in Slot : Source(c, d)
=============================================================================
