------------------------------- MODULE Framing -------------------------------
(***************************************************************************)
(* How server_recv_cb (src/src/server.cpp) cuts packets out of the byte    *)
(* stream of one connection.  recv() may return any part of what it is     *)
(* asked for, and what it is asked for is computed from stHead.len in a    *)
(* packet that may have arrived only in part: the receive buffer was       *)
(* zeroed, and the bytes of len come lowest first.                         *)
(*                                                                         *)
(* Only the lengths of the bodies are modelled.  A head has HEAD bytes;    *)
(* the two low bytes of its len are at LEN_AT and LEN_AT + 1, the bytes    *)
(* above them are zero, for no client sends more than BUF_SIZE.            *)
(***************************************************************************)
EXTENDS Integers, Sequences

CONSTANTS
    HEAD,     \* sizeof(Head)
    LEN_AT,   \* offset of the first byte of stHead.len
    BASE,     \* values of a byte
    BUF_SIZE, \* the longest body
    PACKETS   \* bound: number of packets the client sends

ASSUME HeadAssumption ==
    HEAD \in Nat /\ LEN_AT \in Nat /\ LEN_AT + 2 <= HEAD

ASSUME LenAssumption ==
    BASE \in Nat \ {0, 1} /\ BUF_SIZE \in Nat /\ BUF_SIZE < BASE * BASE

ASSUME PacketsAssumption == PACKETS \in Nat

Body == 0 .. BUF_SIZE

VARIABLES
    packets, \* what the client sends: the length of each body
    n,       \* the packet the next byte of the stream belongs to
    off,     \* how many bytes of it have been received
    len,     \* recvCtx.len
    seen,    \* recvCtx.pkg.stHead.len, as far as it has arrived
    handled, \* the lengths of the packets given to handle or dispatch
    state,   \* "open"; "freed"; or "lost": bytes landed where they do not belong
    peer     \* has the client closed its end?

vars == <<packets, n, off, len, seen, handled, state, peer>>

Init ==
    /\ packets \in [1 .. PACKETS -> Body]
    /\ n = 1
    /\ off = 0
    /\ len = 0
    /\ seen = 0
    /\ handled = <<>>
    /\ state = "open"
    /\ peer = FALSE

\* Mutant: the receive buffer is not zeroed for a new connection.
VisibleUncleared(l, got) ==
    IF got <= LEN_AT THEN BASE * BASE - 1
    ELSE IF got = LEN_AT + 1 THEN l % BASE ELSE l

\* stHead.len of a packet with body length l of which got bytes are there.
Visible(l, got) ==
    IF got <= LEN_AT THEN 0 ELSE IF got = LEN_AT + 1 THEN l % BASE ELSE l

\* Mutant: recv() is asked for whatever fits in the buffer.
WantedFitting == BUF_SIZE + HEAD - len

\* The third argument of recv().
Wanted == seen + HEAD - len

\* Mutant: a body that fills the buffer is refused.
BadFull(l) == l >= BUF_SIZE

Bad(l) == l > BUF_SIZE

\* Mutant: handed over as soon as the head is complete.
WholeHead(got, l) == got >= HEAD

\* Mutant: a byte more is waited for.
WholeStrict(got, l) == got > l + HEAD

Whole(got, l) == got >= l + HEAD

\* recv() took the next r bytes off the stream.
Taken(r) ==
    IF off + r = HEAD + packets[n] THEN n' = n + 1 /\ off' = 0
    ELSE n' = n /\ off' = off + r

\* Mutant: a packet without a body is not handed over.
ReceivedSkipsEmpty(got, l) ==
    \/ /\ got < HEAD \/ (~Bad(l) /\ ~Whole(got, l))
       /\ len' = got
       /\ seen' = l
       /\ UNCHANGED <<handled, state>>
    \/ /\ got >= HEAD /\ ~Bad(l) /\ Whole(got, l)
       /\ handled' = IF l = 0 THEN handled ELSE Append(handled, l)
       /\ len' = 0
       /\ seen' = 0
       /\ UNCHANGED state

(***************************************************************************)
(* recv() returned r > 0, and recvCtx.pkg now has got bytes, of which l is *)
(* the length.  Nothing more is known once the r bytes are not the next of *)
(* one packet, or do not go to their place in recvCtx.pkg.                 *)
(***************************************************************************)
Received(got, l) ==
    \/ /\ got < HEAD \/ (~Bad(l) /\ ~Whole(got, l))
       /\ len' = got
       /\ seen' = l
       /\ UNCHANGED <<handled, state>>
    \/ /\ got >= HEAD /\ Bad(l)
       /\ state' = "freed"
       /\ UNCHANGED <<len, seen, handled>>
    \/ /\ got >= HEAD /\ ~Bad(l) /\ Whole(got, l)
       /\ handled' = Append(handled, l)
       /\ len' = 0
       /\ seen' = 0
       /\ UNCHANGED state

Recv(r) ==
    /\ state = "open"
    /\ n <= PACKETS
    /\ UNCHANGED <<packets, peer>>
    /\ \/ /\ off # len \/ off + r > HEAD + packets[n]
          /\ state' = "lost"
          /\ UNCHANGED <<handled, n, off, len, seen>>
       \/ /\ off = len /\ off + r <= HEAD + packets[n]
          /\ Taken(r)
          /\ Received(len + r, Visible(packets[n], len + r))

\* recv() returned 0: the client closed its end, or no byte was asked for.
RecvZero ==
    /\ state = "open"
    /\ peer \/ Wanted = 0
    /\ state' = "freed"
    /\ UNCHANGED <<packets, n, off, len, seen, handled, peer>>

\* The client goes away, perhaps in the middle of a packet.
Close ==
    /\ ~peer
    /\ peer' = TRUE
    /\ UNCHANGED <<packets, n, off, len, seen, handled, state>>

Next ==
    \/ \E r \in 1 .. Wanted : Recv(r)
    \/ RecvZero
    \/ Close

Spec == Init /\ [][Next]_vars

\* The bytes arrive, and libev calls back a readable connection.
FairSpec == Spec /\ WF_vars(\E r \in 1 .. Wanted : Recv(r))

-----------------------------------------------------------------------------
TypeOK ==
    /\ packets \in [1 .. PACKETS -> Body]
    /\ n \in 1 .. PACKETS + 1
    /\ off \in 0 .. HEAD + BUF_SIZE
    /\ len \in 0 .. HEAD + BUF_SIZE
    /\ seen \in Body
    /\ handled \in Seq(Body)
    /\ state \in {"open", "freed", "lost"}
    /\ peer \in BOOLEAN

\* However the stream is cut up by recv(), the server stays in step with it: a
\* call never reaches into the next packet, though its size comes from a length
\* of which only one byte may have arrived.
InStep == state # "lost"

\* The server never closes a connection on which whole, legal packets arrive: it
\* neither takes a part of a length for a bad one nor asks recv() for 0 bytes,
\* the answer to which it would take for the end.
NotCutOff == state = "freed" => peer

\* What is handled is what was sent, in order, nothing lost and nothing twice.
HandledInOrder ==
    /\ Len(handled) = n - 1
    /\ \A i \in 1 .. Len(handled) : handled[i] = packets[i]

\* Cutting packets out of the bytes implements a stream of packets: handle and
\* dispatch are given the packets the client sent, one by one.
Stream == INSTANCE PacketStream WITH Packet <- Body, sent <- packets, got <- handled

StreamsPackets == Stream!Spec

\* Every packet is handled, empty bodies included, if the client stays.
AllHandled == <>(Len(handled) = PACKETS \/ peer)
=============================================================================
