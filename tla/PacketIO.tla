------------------------------- MODULE PacketIO -------------------------------
(***************************************************************************)
(* A stream from a camera to a viewer's file: camera_thread (raspi.cpp)    *)
(* cuts each encoded frame into packets, send_pkg loops until a packet is  *)
(* sent, recv_pkg (remote.cpp; those of raspi.cpp and client.cpp differ    *)
(* only in that they do not look at the length) loops until it is          *)
(* received, and the viewer appends its body to a file.                    *)
(*                                                                         *)
(* send() may take and recv() return any part of what they are asked for.  *)
(* The server between the two ends hands packets on whole and in order, as *)
(* Framing and Server say, and is left out.  The stream is the packets one *)
(* after the other; frame, from and len say which bytes a body holds.      *)
(***************************************************************************)
EXTENDS Integers, Sequences

CONSTANTS
    HEAD,      \* sizeof(Head)
    BUF_SIZE,  \* the longest body
    FRAME_MAX, \* bound: the longest frame
    FRAMES     \* bound: number of frames

ASSUME HeadAssumption == HEAD \in Nat \ {0}

ASSUME BufAssumption == BUF_SIZE \in Nat \ {0}

ASSUME FrameAssumption == FRAME_MAX \in Nat /\ FRAMES \in Nat

Packet == [frame : 1 .. FRAMES, from : 0 .. FRAME_MAX, len : 0 .. BUF_SIZE]

VARIABLES
    frames,    \* the lengths of the frames encoded so far
    byte_left, \* bytes of the last of them that are not yet in a packet
    packets,   \* the packets given to send_pkg
    byte_sent, \* bytes of the last of them that were sent
    sender,    \* "encode", "cut", "send", or "failed": the connection is gone
    n,         \* the packet the next byte of the stream belongs to
    off,       \* bytes of it that were received
    len,       \* recv_pkg's len
    phase,     \* "head" or "body": the loop recv_pkg is in
    file,      \* per packet received: [pkt, whole], was all of it written?
    receiver   \* "open", "failed", or "lost": bytes where they do not belong

sending == <<frames, byte_left, packets, byte_sent, sender>>
receiving == <<n, off, len, phase, file, receiver>>
vars == <<sending, receiving>>

Init ==
    /\ frames = <<>>
    /\ byte_left = 0
    /\ packets = <<>>
    /\ byte_sent = 0
    /\ sender = "encode"
    /\ n = 1
    /\ off = 0
    /\ len = 0
    /\ phase = "head"
    /\ file = <<>>
    /\ receiver = "open"

Size(i) == HEAD + packets[i].len

-----------------------------------------------------------------------------
(* camera_thread and send_pkg.                                             *)

\* encode_do gave a frame; one without data is skipped.
Encode ==
    /\ sender = "encode"
    /\ Len(frames) < FRAMES
    /\ \E l \in 1 .. FRAME_MAX : frames' = Append(frames, l) /\ byte_left' = l
    /\ sender' = "cut"
    /\ UNCHANGED <<packets, byte_sent, receiving>>

\* Mutant: one more time round the loop.
MoreOrEqual == byte_left >= 0

More == byte_left > 0

\* Mutant: byte_left is reduced before the bytes are copied.
PieceLate(l) == [frame |-> Len(frames),
                 from |-> frames[Len(frames)] - (byte_left - l), len |-> l]

Piece(l) == [frame |-> Len(frames),
             from |-> frames[Len(frames)] - byte_left, len |-> l]

Cut ==
    /\ sender = "cut"
    /\ IF More
       THEN LET l == IF byte_left >= BUF_SIZE THEN BUF_SIZE ELSE byte_left
            IN  /\ packets' = Append(packets, Piece(l))
                /\ byte_left' = byte_left - l
                /\ byte_sent' = 0
                /\ sender' = "send"
       ELSE /\ sender' = "encode"
            /\ UNCHANGED <<byte_left, packets, byte_sent>>
    /\ UNCHANGED <<frames, receiving>>

\* Mutant: the whole length is asked for each time, as remote.cpp:28 does.
AskedWhole == Size(Len(packets))

\* The third argument of send().
Asked == Size(Len(packets)) - byte_sent

Send ==
    /\ sender = "send"
    /\ \E s \in 1 .. Asked :
         /\ byte_sent' = byte_sent + s
         /\ sender' = IF byte_sent + s = Size(Len(packets)) THEN "cut" ELSE "send"
    /\ UNCHANGED <<frames, byte_left, packets, receiving>>

\* send() failed, perhaps within a packet: the thread ends, nothing follows.
SendFails ==
    /\ sender = "send"
    /\ sender' = "failed"
    /\ UNCHANGED <<frames, byte_left, packets, byte_sent, receiving>>

-----------------------------------------------------------------------------
(* recv_pkg and the viewer's loop.                                         *)

\* How many bytes of packet i are on the stream.
OnStream(i) ==
    IF i < Len(packets) THEN Size(i) ELSE IF i = Len(packets) THEN byte_sent ELSE 0

Pkglen == IF phase = "head" THEN HEAD ELSE HEAD + packets[n].len

\* Mutant: recv() is asked for the whole length again.
WantedWhole == Pkglen

\* The third argument of recv().
Wanted == Pkglen - len

\* Mutant: a byte more is waited for.
CompleteStrict(got) == got > Pkglen

Complete(got) == got = Pkglen

Bad(l) == l > BUF_SIZE

\* Mutant: after a short write the whole body is written again.
WriteRetried(whole) ==
    IF whole THEN Append(file, [pkt |-> packets[n], whole |-> TRUE])
    ELSE Append(Append(file, [pkt |-> packets[n], whole |-> FALSE]),
                [pkt |-> packets[n], whole |-> TRUE])

\* A write that falls short is logged and nothing else.
Write(whole) == Append(file, [pkt |-> packets[n], whole |-> whole])

\* recv() returned r > 0 bytes, the next of packet n, and recv_pkg has got.
Received(got) ==
    \/ /\ ~Complete(got)
       /\ off' = got /\ len' = got
       /\ UNCHANGED <<n, phase, file, receiver>>
    \/ /\ Complete(got) /\ phase = "head"
       /\ off' = got /\ len' = got
       /\ phase' = "body"
       /\ receiver' = IF Bad(packets[n].len) THEN "failed" ELSE "open"
       /\ UNCHANGED <<n, file>>
    \/ /\ Complete(got) /\ phase = "body"
       /\ \E whole \in BOOLEAN : file' = Write(whole)
       /\ n' = n + 1
       /\ off' = 0 /\ len' = 0
       /\ phase' = "head"
       /\ UNCHANGED receiver

(***************************************************************************)
(* Nothing more is known of the receiver once bytes of the next packet are *)
(* taken for bytes of this one.                                            *)
(***************************************************************************)
Recv(r) ==
    /\ receiver = "open"
    /\ n <= Len(packets)
    /\ \/ /\ off = len /\ off + r <= OnStream(n)
          /\ Received(len + r)
       \/ /\ off # len \/ off + r > Size(n)
          /\ off + r <= Size(n) + OnStream(n + 1)
          /\ receiver' = "lost"
          /\ UNCHANGED <<n, off, len, phase, file>>
    /\ UNCHANGED sending

\* recv() failed, or returned 0 because the connection ended or because it was
\* asked for nothing: the viewer ends.
RecvFails ==
    /\ receiver = "open"
    /\ sender = "failed" \/ Wanted = 0
    /\ receiver' = "failed"
    /\ UNCHANGED <<sending, n, off, len, phase, file>>

RecvSome == \E r \in 1 .. Wanted : Recv(r)

Next == Encode \/ Cut \/ Send \/ SendFails \/ RecvSome \/ RecvFails

Spec == Init /\ [][Next]_vars

\* The threads run, and the connection carries what is sent until it fails.
FairSpec == Spec /\ WF_vars(Cut) /\ WF_vars(Send) /\ WF_vars(RecvSome)

-----------------------------------------------------------------------------
TypeOK ==
    /\ frames \in Seq(1 .. FRAME_MAX) /\ Len(frames) <= FRAMES
    /\ byte_left \in 0 .. FRAME_MAX
    /\ packets \in Seq(Packet)
    /\ byte_sent \in 0 .. HEAD + BUF_SIZE
    /\ sender \in {"encode", "cut", "send", "failed"}
    /\ n \in 1 .. Len(packets) + 1
    /\ off \in 0 .. HEAD + BUF_SIZE
    /\ len \in 0 .. HEAD + BUF_SIZE
    /\ phase \in {"head", "body"}
    /\ file \in Seq([pkt : Packet, whole : BOOLEAN])
    /\ receiver \in {"open", "failed", "lost"}

\* The two loops of recv_pkg never take bytes of the next packet, however
\* send() and recv() cut the stream.
InStep == receiver # "lost"

\* A viewer ends only when the connection has ended: no packet the camera cuts
\* is too long, and none is empty, for which recv_pkg would ask for 0 bytes and
\* take the answer for the end.
EndsWithConnection == receiver = "failed" => sender = "failed"

\* Of frames with lengths l, piece q is what comes after piece p.
Follows(l, p, q) ==
    \/ q.frame = p.frame /\ q.from = p.from + p.len
    \/ q.frame = p.frame + 1 /\ q.from = 0 /\ p.from + p.len = l[p.frame]

\* Up to the first write that falls short the file is the frames, one after the
\* other, without a hole or an overlap.
FileFollowsFrames ==
    \A i \in 1 .. Len(file) :
        (\A j \in 1 .. i : file[j].whole) =>
            IF i = 1 THEN file[1].pkt.frame = 1 /\ file[1].pkt.from = 0
            ELSE Follows(frames, file[i - 1].pkt, file[i].pkt)

\* The loops together implement a stream of packets: the viewer is given the
\* packets the camera sent, whole, in order, each once; of a packet whose
\* sending fails half way it is given nothing.
Stream == INSTANCE PacketStream
          WITH sent <- packets, got <- [i \in 1 .. Len(file) |-> file[i].pkt]

StreamsPackets == Stream!Spec

\* Every packet the camera cuts gets to the viewer, or the connection fails.
PacketsArrive ==
    \A i \in 1 .. FRAMES * FRAME_MAX :
        (Len(packets) >= i) ~> (Len(file) >= i \/ sender = "failed")
=============================================================================
