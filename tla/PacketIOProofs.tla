---------------------------- MODULE PacketIOProofs ----------------------------
(***************************************************************************)
(* The blocking loops of the clients implement a stream of packets, for    *)
(* every size of head, body and frame, every number of frames and every    *)
(* way the kernel cuts the stream.  The invariant has a part for each end  *)
(* of the connection and one for the cutting of the frames.                *)
(***************************************************************************)
EXTENDS PacketIO, SequenceTheorems, TLAPS

\* send_pkg is inside its last packet iff it has bytes of it to send, and no
\* packet is empty.
Sending ==
    /\ packets = <<>> => byte_sent = 0 /\ sender \in {"encode", "cut"}
    /\ packets # <<>> => byte_sent <= Size(Len(packets))
    /\ packets # <<>> /\ sender \in {"encode", "cut"} =>
           byte_sent = Size(Len(packets))
    /\ sender = "send" => byte_sent < Size(Len(packets))
    /\ \A i \in 1 .. Len(packets) : packets[i].len >= 1

\* recv_pkg knows where the stream is in packet n, and the file holds the
\* packets before it.
Synchronised ==
    /\ off = len
    /\ len <= OnStream(n)
    /\ n <= Len(packets) =>
           \/ phase = "head" /\ len < HEAD
           \/ phase = "body" /\ HEAD <= len /\ len < Size(n)
    /\ n = Len(packets) + 1 => phase = "head" /\ len = 0

Filed ==
    /\ Len(file) = n - 1
    /\ \A i \in 1 .. Len(file) : file[i].pkt = packets[i]

\* The packets are the frames from the first on, up to the byte_left bytes of
\* the last frame that are still to be cut.
Cutting ==
    /\ sender = "cut" => frames # <<>>
    /\ sender = "encode" => byte_left = 0
    /\ frames # <<>> => byte_left <= frames[Len(frames)]
    /\ \A i \in 1 .. Len(packets) : packets[i].frame <= Len(frames)
    /\ packets = <<>> => /\ sender = "encode" => frames = <<>>
                         /\ sender = "cut" => /\ Len(frames) = 1
                                              /\ byte_left = frames[1]
    /\ packets # <<>> => packets[1].frame = 1 /\ packets[1].from = 0
    /\ \A i \in 1 .. Len(packets) : i < Len(packets) =>
           Follows(frames, packets[i], packets[i + 1])
    /\ packets # <<>> =>
           LET p == packets[Len(packets)] IN
           \/ /\ p.frame = Len(frames)
              /\ p.from + p.len = frames[Len(frames)] - byte_left
           \/ /\ p.frame + 1 = Len(frames)
              /\ p.from + p.len = frames[p.frame]
              /\ byte_left = frames[Len(frames)]
              /\ sender = "cut"

\* The inductive invariant.
IInv == TypeOK /\ Sending /\ Synchronised /\ Filed /\ Cutting
        /\ InStep /\ EndsWithConnection

LEMMA Constants ==
    /\ HEAD \in Nat /\ HEAD > 0 /\ BUF_SIZE \in Nat /\ BUF_SIZE > 0
    /\ FRAME_MAX \in Nat /\ FRAMES \in Nat
BY HeadAssumption, BufAssumption, FrameAssumption

\* What the invariant says of the packets and the frames, field by field.
LEMMA Fields ==
    ASSUME IInv
    PROVE  /\ Len(packets) \in Nat /\ Len(frames) \in Nat
           /\ \A i \in 1 .. Len(packets) :
                  /\ packets[i] \in Packet
                  /\ packets[i].frame \in 1 .. Len(frames)
                  /\ packets[i].from \in Nat
                  /\ packets[i].len \in 1 .. BUF_SIZE
                  /\ Size(i) \in Nat /\ Size(i) <= HEAD + BUF_SIZE
                  /\ Size(i) > HEAD
           /\ \A i \in 1 .. Len(frames) : frames[i] \in 1 .. FRAME_MAX
<1>1. /\ Len(packets) \in Nat /\ Len(frames) \in Nat
      /\ \A i \in 1 .. Len(packets) : packets[i] \in Packet
      /\ \A i \in 1 .. Len(frames) : frames[i] \in 1 .. FRAME_MAX
  <2>1. packets \in Seq(Packet) /\ frames \in Seq(1 .. FRAME_MAX)
    BY DEF IInv, TypeOK
  <2> QED BY <2>1, ElementOfSeq, LenProperties
<1>2. ASSUME NEW i \in 1 .. Len(packets)
      PROVE  /\ packets[i].frame \in 1 .. FRAMES /\ packets[i].from \in 0 .. FRAME_MAX
             /\ packets[i].len \in 0 .. BUF_SIZE /\ packets[i].len >= 1
             /\ packets[i].frame <= Len(frames)
  <2>1. packets[i] \in [frame : 1 .. FRAMES, from : 0 .. FRAME_MAX, len : 0 .. BUF_SIZE]
    BY <1>1 DEF Packet
  <2> QED BY <2>1 DEF IInv, Sending, Cutting
<1> QED BY <1>1, <1>2, Constants DEF Size

\* Nothing has been cut, sent or received.
THEOREM Initialised == Init => IInv
<1> SUFFICES ASSUME Init PROVE IInv
  OBVIOUS
<1>1. TypeOK
  BY Constants DEF Init, TypeOK, Packet
<1>2. Sending /\ Synchronised /\ Filed /\ Cutting
  BY Constants DEF Init, Sending, Synchronised, Filed, Cutting, OnStream
<1> QED BY <1>1, <1>2 DEF Init, IInv, InStep, EndsWithConnection

\* A frame is encoded: nothing is cut from it yet.
LEMMA EncodeInductive == IInv /\ Encode => IInv'
<1> SUFFICES ASSUME IInv, Encode PROVE IInv'
  OBVIOUS
<1>1. PICK l \in 1 .. FRAME_MAX : frames' = Append(frames, l) /\ byte_left' = l
  BY DEF Encode
<1>2. /\ frames' \in Seq(1 .. FRAME_MAX) /\ Len(frames') = Len(frames) + 1
      /\ frames'[Len(frames) + 1] = l
      /\ \A i \in 1 .. Len(frames) : frames'[i] = frames[i]
  BY <1>1, Constants DEF IInv, TypeOK
<1>3. TypeOK'
  BY <1>1, <1>2, Constants DEF Encode, IInv, TypeOK, receiving
<1>4. (Sending /\ Synchronised /\ Filed /\ InStep /\ EndsWithConnection)'
  BY DEF Encode, IInv, Sending, Synchronised, Filed, InStep,
         EndsWithConnection, OnStream, Size, receiving
<1>5. Cutting'
  <2>1. \A i \in 1 .. Len(packets) : /\ packets[i] \in Packet
                                     /\ packets[i].frame \in 1 .. Len(frames)
    BY Fields
  <2>2. \A i \in 1 .. Len(packets) : i < Len(packets) =>
            Follows(frames', packets[i], packets[i + 1])
    BY <1>2, <2>1, Constants DEF Encode, IInv, Cutting, Follows
  <2>3. packets # <<>> =>
            LET p == packets[Len(packets)] IN
            p.frame = Len(frames) /\ p.from + p.len = frames'[p.frame]
    <3>1. SUFFICES ASSUME packets # <<>>
                   PROVE  LET p == packets[Len(packets)] IN
                          p.frame = Len(frames) /\ p.from + p.len = frames'[p.frame]
      OBVIOUS
    <3>2. Len(packets) \in 1 .. Len(packets) /\ Len(frames) \in Nat
      BY <3>1 DEF IInv, TypeOK
    <3>3. frames # <<>>
      BY <3>2, <2>1 DEF IInv, TypeOK
    <3>4. frames[Len(frames)] \in Nat
      BY <3>2, <3>3, Constants DEF IInv, TypeOK
    <3> QED BY <1>2, <2>1, <3>1, <3>2, <3>4 DEF Encode, IInv, Cutting
  <2>4. packets = <<>> => frames = <<>> /\ Len(frames') = 1
    BY <1>2 DEF Encode, IInv, Cutting
  <2>5. packets' = packets /\ sender' = "cut" /\ Len(frames) \in Nat
    BY DEF Encode, IInv, TypeOK
  <2>6. packets # <<>> => packets[1].frame = 1 /\ packets[1].from = 0
    BY DEF IInv, Cutting
  <2>7. frames' # <<>> /\ byte_left' = frames'[Len(frames')] /\ l \in Nat
    BY <1>1, <1>2, <2>5
  <2>8. \A i \in 1 .. Len(packets) : packets[i].frame <= Len(frames')
    BY <1>2, <2>1, <2>5
  <2>9. packets' # <<>> =>
            LET p == packets'[Len(packets')] IN
            p.frame + 1 = Len(frames') /\ p.from + p.len = frames'[p.frame]
    BY <1>2, <2>3, <2>5
  <2>10. packets' = <<>> => Len(frames') = 1 /\ byte_left' = frames'[1]
    BY <2>4, <2>5, <2>7
  <2>11. byte_left' <= frames'[Len(frames')]
    BY <1>1, <2>7
  <2>12. \A i \in 1 .. Len(packets') : i < Len(packets') =>
             Follows(frames', packets'[i], packets'[i + 1])
    BY <2>2, <2>5
  <2> QED BY <2>5, <2>6, <2>7, <2>8, <2>9, <2>10, <2>11, <2>12 DEF Cutting
<1> QED BY <1>3, <1>4, <1>5 DEF IInv

\* The next packet is cut from the frame, or the frame is done.
LEMMA CutInductive == IInv /\ Cut => IInv'
<1> SUFFICES ASSUME IInv, Cut PROVE IInv'
  OBVIOUS
<1> DEFINE l == IF byte_left >= BUF_SIZE THEN BUF_SIZE ELSE byte_left
           p == Piece(l)
<1>1. /\ frames \in Seq(1 .. FRAME_MAX) /\ frames # <<>> /\ Len(frames) \in 1 .. FRAMES
      /\ frames[Len(frames)] \in 1 .. FRAME_MAX /\ byte_left \in Nat
      /\ byte_left <= frames[Len(frames)]
  <2>1. frames \in Seq(1 .. FRAME_MAX) /\ frames # <<>> /\ Len(frames) <= FRAMES
    BY DEF Cut, IInv, TypeOK, Cutting
  <2>2. Len(frames) \in 1 .. FRAMES
    BY <2>1, Constants
  <2>3. frames[Len(frames)] \in 1 .. FRAME_MAX
    <3>1. Len(frames) \in 1 .. Len(frames)
      BY <2>2
    <3> QED BY <2>1, <3>1, ElementOfSeq
  <2>4. byte_left \in 0 .. FRAME_MAX /\ byte_left <= frames[Len(frames)]
    BY <2>1 DEF IInv, TypeOK, Cutting
  <2> QED BY <2>1, <2>2, <2>3, <2>4, Constants
<1>2. CASE ~More
  <2>1. byte_left = 0
    BY <1>1, <1>2 DEF More
  <2>2. TypeOK'
    BY <1>2, <2>1 DEF Cut, IInv, TypeOK, receiving
  <2>3. (Sending /\ Synchronised /\ Filed /\ InStep /\ EndsWithConnection)'
    BY <1>2 DEF Cut, IInv, Sending, Synchronised, Filed, InStep,
         EndsWithConnection, OnStream, Size, receiving
  <2>4. Cutting'
    BY <1>1, <1>2, <2>1, Constants DEF Cut, IInv, Cutting, Follows
  <2> QED BY <2>2, <2>3, <2>4 DEF IInv
<1>3. CASE More
  <2>1. /\ l \in 1 .. BUF_SIZE /\ l <= byte_left
        /\ p \in Packet /\ p.len = l /\ p.frame = Len(frames)
        /\ p.from = frames[Len(frames)] - byte_left
    BY <1>1, <1>3, Constants DEF More, Piece, Packet
  <2>2. /\ packets' = Append(packets, p) /\ byte_left' = byte_left - l
        /\ byte_sent' = 0 /\ sender' = "send" /\ frames' = frames
        /\ UNCHANGED receiving
    BY <1>3 DEF Cut
  <2> HIDE DEF p, l
  <2>3. /\ packets' \in Seq(Packet) /\ Len(packets') = Len(packets) + 1
        /\ packets'[Len(packets) + 1] = p /\ packets' # <<>>
        /\ \A i \in 1 .. Len(packets) : packets'[i] = packets[i]
    BY <2>1, <2>2 DEF IInv, TypeOK
  <2>4. TypeOK'
    BY <1>1, <2>1, <2>2, <2>3, Constants DEF IInv, TypeOK, receiving
  <2>5. Sending'
    BY <2>1, <2>2, <2>3, Constants DEF IInv, Sending, Size
  <2>6. Synchronised'
    <3>1. n <= Len(packets) => OnStream(n)' = OnStream(n) /\ Size(n)' = Size(n)
      BY <2>2, <2>3, Fields DEF Cut, IInv, TypeOK, Sending, OnStream, Size, receiving
    <3>2. n = Len(packets) + 1 => len = 0 /\ OnStream(n)' = 0
      BY <2>2, <2>3 DEF IInv, TypeOK, Synchronised, OnStream, Size, receiving
    <3> QED BY <2>2, <2>3, <3>1, <3>2, Constants
            DEF IInv, TypeOK, Synchronised, receiving
  <2>7. Filed'
    BY <2>2, <2>3 DEF IInv, TypeOK, Filed, receiving
  <2>8. Cutting'
    <3>1. CASE packets = <<>>
      <4>1. Len(frames) = 1 /\ byte_left = frames[1]
        BY <3>1 DEF Cut, IInv, Cutting
      <4>2. Len(packets') = 1 /\ packets'[1] = p
        BY <2>3, <3>1
      <4>3. p.from = 0 /\ p.frame = 1 /\ p.len = l
        BY <1>1, <2>1, <4>1
      <4> QED BY <1>1, <2>1, <2>2, <2>3, <4>1, <4>2, <4>3 DEF Cutting
    <3>2. CASE packets # <<>>
      <4>1. Len(packets) \in 1 .. Len(packets)
        BY <3>2 DEF IInv, TypeOK
      <4>2. Follows(frames, packets[Len(packets)], p)
        <5>1. LET q == packets[Len(packets)] IN
              \/ /\ q.frame = Len(frames)
                 /\ q.from + q.len = frames[Len(frames)] - byte_left
              \/ /\ q.frame + 1 = Len(frames)
                 /\ q.from + q.len = frames[q.frame]
                 /\ byte_left = frames[Len(frames)]
          BY <3>2 DEF IInv, Cutting
        <5> QED BY <1>1, <2>1, <5>1 DEF Follows
      <4>3. \A i \in 1 .. Len(packets') : i < Len(packets') =>
                Follows(frames', packets'[i], packets'[i + 1])
        <5>1. \A i \in 1 .. Len(packets') : i < Len(packets') =>
                  Follows(frames, packets'[i], packets'[i + 1])
          <6> SUFFICES ASSUME NEW i \in 1 .. Len(packets), i + 1 <= Len(packets')
                       PROVE  Follows(frames, packets'[i], packets'[i + 1])
            BY <2>3, <4>1
          <6>1. CASE i = Len(packets)
            BY <2>3, <4>1, <4>2, <6>1
          <6>2. CASE i < Len(packets)
            <7>1. Follows(frames, packets[i], packets[i + 1])
              BY <6>2 DEF IInv, Cutting
            <7>2. i + 1 \in 1 .. Len(packets)
              BY <4>1, <6>2
            <7> QED BY <2>3, <7>1, <7>2
          <6> QED BY <4>1, <6>1, <6>2
        <5> QED BY <2>2, <5>1
      <4>4. packets'[1].frame = 1 /\ packets'[1].from = 0
        BY <2>3, <3>2, <4>1 DEF IInv, Cutting
      <4>5. \A i \in 1 .. Len(packets') : packets'[i].frame <= Len(frames')
        BY <1>1, <2>1, <2>2, <2>3, <4>1 DEF IInv, Cutting
      <4>6. p.from + p.len = frames[Len(frames)] - (byte_left - l)
        BY <1>1, <2>1
      <4> QED BY <1>1, <2>1, <2>2, <2>3, <4>3, <4>4, <4>5, <4>6 DEF Cutting
    <3> QED BY <3>1, <3>2
  <2>9. (InStep /\ EndsWithConnection)'
    BY <2>2 DEF Cut, IInv, InStep, EndsWithConnection, receiving
  <2> QED BY <2>4, <2>5, <2>6, <2>7, <2>8, <2>9 DEF IInv
<1> QED BY <1>2, <1>3

\* send() takes some bytes of the last packet, or fails.
LEMMA SendInductive == IInv /\ (Send \/ SendFails) => IInv'
<1> SUFFICES ASSUME IInv, Send \/ SendFails PROVE IInv'
  OBVIOUS
<1>1. /\ packets # <<>> /\ Len(packets) \in 1 .. Len(packets)
      /\ Size(Len(packets)) \in Nat /\ Size(Len(packets)) <= HEAD + BUF_SIZE
      /\ byte_sent \in Nat /\ packets[Len(packets)] \in Packet
  <2>1. packets # <<>> /\ packets \in Seq(Packet) /\ byte_sent \in Nat
    BY Constants DEF Send, SendFails, IInv, TypeOK, Sending
  <2>2. Len(packets) \in 1 .. Len(packets)
    BY <2>1, EmptySeq
  <2> QED BY <2>1, <2>2, Fields
<1>2. /\ byte_sent <= byte_sent' /\ byte_sent' \in Nat
      /\ byte_sent' <= Size(Len(packets))
      /\ sender' = "cut" => byte_sent' = Size(Len(packets))
      /\ sender' = "send" => byte_sent' < Size(Len(packets))
      /\ sender' \in {"cut", "send", "failed"}
      /\ sender = "send"
  BY <1>1 DEF Send, SendFails, Asked, IInv, Sending
<1>3. UNCHANGED <<frames, byte_left, packets, receiving>>
  BY DEF Send, SendFails
<1>4. TypeOK'
  BY <1>1, <1>2, <1>3, Constants DEF IInv, TypeOK, receiving
<1>5. Sending'
  BY <1>1, <1>2, <1>3 DEF IInv, Sending, Size
<1>6. Synchronised'
  <2>1. n \in Nat /\ len \in Nat /\ OnStream(n) <= OnStream(n)' /\ OnStream(n) \in Int
        /\ OnStream(n)' \in Int
    <3>1. n \in Nat /\ len \in Nat /\ n' = n /\ packets' = packets
      BY <1>1, <1>3 DEF IInv, TypeOK, receiving
    <3>2. n < Len(packets) => Size(n) \in Nat
      BY <3>1, Fields DEF IInv, TypeOK
    <3> QED BY <1>1, <1>2, <3>1, <3>2 DEF OnStream, Size
  <2> QED BY <1>3, <2>1 DEF IInv, Synchronised, Size, receiving
<1>7. (Filed /\ Cutting /\ InStep)'
  BY <1>1, <1>2, <1>3 DEF IInv, Filed, Cutting, InStep, Follows, receiving
<1>8. EndsWithConnection'
  BY <1>2, <1>3 DEF IInv, EndsWithConnection, receiving
<1> QED BY <1>4, <1>5, <1>6, <1>7, <1>8 DEF IInv

\* recv() is asked for some bytes, and never for more than the packet has left.
LEMMA WantedBound ==
    ASSUME IInv
    PROVE  /\ Wanted \in Nat /\ Wanted > 0
           /\ n <= Len(packets) => /\ len + Wanted <= Size(n)
                                   /\ Size(n) \in Nat /\ packets[n] \in Packet
<1>1. CASE n <= Len(packets)
  <2>1. /\ n \in 1 .. Len(packets) /\ len \in Nat
        /\ \/ phase = "head" /\ len < HEAD
           \/ phase = "body" /\ HEAD <= len /\ len < Size(n)
    BY <1>1, Constants DEF IInv, TypeOK, Synchronised
  <2>2. packets[n] \in Packet /\ Size(n) > HEAD /\ Size(n) \in Nat
    BY <2>1, Fields
  <2> QED BY <2>1, <2>2, Constants DEF Wanted, Pkglen, Size
<1>2. CASE n = Len(packets) + 1
  BY <1>2, Constants DEF IInv, TypeOK, Synchronised, Wanted, Pkglen
<1> QED BY <1>1, <1>2 DEF IInv, TypeOK

\* recv() returns the next bytes of packet n, never any of packet n + 1.
LEMMA RecvTakes ==
    ASSUME IInv, NEW r \in 1 .. Wanted, Recv(r)
    PROVE  /\ Received(len + r) /\ UNCHANGED sending
           /\ n <= Len(packets) /\ len + r <= OnStream(n) /\ len + r <= Size(n)
           /\ len + r <= Pkglen
           /\ len + r \in Nat /\ Size(n) \in Nat /\ packets[n] \in Packet
<1>1. n <= Len(packets) /\ off = len /\ len \in Nat /\ UNCHANGED sending
  BY DEF Recv, IInv, Synchronised, TypeOK
<1>2. len + r \in Nat /\ len + r <= Size(n) /\ Size(n) \in Nat /\ packets[n] \in Packet
  BY <1>1, WantedBound
<1>3. len + r <= Pkglen
  <2>1. Pkglen \in Nat
    BY <1>1, <1>2, Constants DEF Pkglen, Packet
  <2> QED BY <1>1, <2>1 DEF Wanted
<1> QED BY <1>1, <1>2, <1>3 DEF Recv

\* The receiving loop preserves the invariant.
LEMMA RecvInductive == IInv /\ RecvSome => IInv'
<1> SUFFICES ASSUME IInv, NEW r \in 1 .. Wanted, Recv(r) PROVE IInv'
  BY DEF RecvSome
<1> DEFINE got == len + r
<1>1. /\ Received(got) /\ UNCHANGED sending /\ n <= Len(packets)
      /\ got <= OnStream(n) /\ got <= Size(n) /\ got <= Pkglen
      /\ got \in Nat /\ got > len /\ Size(n) \in Nat /\ packets[n] \in Packet
      /\ n \in 1 .. Len(packets) /\ packets[n].len >= 1 /\ packets[n].len \in Nat
      /\ packets[n].len <= BUF_SIZE
  <2>1. /\ Received(got) /\ UNCHANGED sending /\ n <= Len(packets)
        /\ got <= OnStream(n) /\ got <= Size(n) /\ got <= Pkglen /\ got \in Nat
    BY RecvTakes
  <2>2. n \in 1 .. Len(packets) /\ len \in Nat /\ got > len
    BY <2>1, WantedBound DEF IInv, TypeOK
  <2> QED BY <2>1, <2>2, Fields
<1> HIDE DEF got
<1>2. CASE ~Complete(got)
  <2>1. off' = got /\ len' = got /\ got < Pkglen /\ UNCHANGED <<n, phase, file, receiver>>
    BY <1>1, <1>2, Constants DEF Received, Complete, Pkglen
  <2>2. TypeOK'
    BY <1>1, <2>1, Constants DEF IInv, TypeOK, sending, Size
  <2>3. Synchronised'
    BY <1>1, <2>1, Constants
       DEF IInv, TypeOK, Synchronised, OnStream, Size, Pkglen, sending
  <2>4. (Sending /\ Filed /\ Cutting /\ InStep /\ EndsWithConnection)'
    BY <1>1, <2>1 DEF IInv, Sending, Filed, Cutting, Follows, InStep,
                      EndsWithConnection, Size, sending
  <2> QED BY <2>2, <2>3, <2>4 DEF IInv
<1>3. CASE Complete(got) /\ phase = "head"
  <2>1. /\ off' = HEAD /\ len' = HEAD /\ phase' = "body" /\ got = HEAD
        /\ receiver' = "open" /\ UNCHANGED <<n, file>>
    BY <1>1, <1>3, Constants DEF Received, Complete, Pkglen, Bad
  <2>2. TypeOK'
    BY <1>1, <2>1, Constants DEF IInv, TypeOK, sending
  <2>3. Synchronised'
    <3>1. OnStream(n)' = OnStream(n) /\ Size(n)' = Size(n) /\ n' = n /\ packets' = packets
      BY <1>1, <2>1 DEF OnStream, Size, sending
    <3>2. HEAD < Size(n)
      BY <1>1, Constants DEF Size
    <3>3. HEAD <= OnStream(n)
      BY <1>1, <2>1
    <3> QED BY <1>1, <2>1, <3>1, <3>2, <3>3, Constants DEF Synchronised
  <2>4. (Sending /\ Filed /\ Cutting /\ InStep /\ EndsWithConnection)'
    BY <1>1, <2>1 DEF IInv, Sending, Filed, Cutting, Follows, InStep,
                      EndsWithConnection, Size, sending
  <2> QED BY <2>2, <2>3, <2>4 DEF IInv
<1>4. CASE Complete(got) /\ phase = "body"
  <2>1. PICK whole \in BOOLEAN :
            file' = Append(file, [pkt |-> packets[n], whole |-> whole])
    BY <1>1, <1>4 DEF Received, Write
  <2>2. n' = n + 1 /\ off' = 0 /\ len' = 0 /\ phase' = "head" /\ receiver' = receiver
    BY <1>1, <1>4 DEF Received
  <2>3. /\ file' \in Seq([pkt : Packet, whole : BOOLEAN])
        /\ Len(file') = Len(file) + 1 /\ file'[Len(file) + 1].pkt = packets[n]
        /\ \A i \in 1 .. Len(file) : file'[i] = file[i]
    BY <1>1, <2>1 DEF IInv, TypeOK
  <2>4. TypeOK'
    BY <1>1, <2>2, <2>3, Constants DEF IInv, TypeOK, sending
  <2>5. Synchronised'
    <3>1. n' \in Nat /\ packets' = packets /\ byte_sent' = byte_sent
          /\ byte_sent \in Nat /\ n' <= Len(packets) + 1 /\ n' >= 1
      BY <1>1, <2>2, Constants DEF IInv, TypeOK, sending
    <3>2. 0 <= OnStream(n')
      BY <3>1, Fields DEF OnStream
    <3>3. OnStream(n)' = OnStream(n')
      BY <3>1 DEF OnStream, Size
    <3> QED BY <1>1, <2>2, <3>1, <3>2, <3>3, Constants DEF Synchronised
  <2>6. Filed'
    <3>1. Len(file) = n - 1 /\ \A i \in 1 .. Len(file) : file[i].pkt = packets[i]
      BY DEF IInv, Filed
    <3>2. Len(file') = n' - 1 /\ Len(file) \in Nat /\ packets' = packets
      BY <1>1, <2>2, <2>3, <3>1 DEF sending
    <3>3. \A i \in 1 .. Len(file') : i \in 1 .. Len(file) \/ i = n
      BY <2>3, <3>1, <3>2, <1>1
    <3>4. file'[n].pkt = packets[n]
      BY <2>3, <3>1, <1>1
    <3> QED BY <2>3, <3>1, <3>2, <3>3, <3>4 DEF Filed
  <2>7. (Sending /\ Cutting /\ InStep /\ EndsWithConnection)'
    BY <1>1, <2>2 DEF IInv, Sending, Cutting, Follows, InStep,
                      EndsWithConnection, Size, sending
  <2> QED BY <2>4, <2>5, <2>6, <2>7 DEF IInv
<1> QED BY <1>1, <1>2, <1>3, <1>4 DEF Received

\* Every step of either end keeps the invariant.
THEOREM Inductive == IInv /\ [Next]_vars => IInv'
<1> SUFFICES ASSUME IInv, [Next]_vars PROVE IInv'
  OBVIOUS
<1>1. CASE RecvFails
  <2>1. sender = "failed"
    BY <1>1, WantedBound DEF RecvFails
  <2> QED BY <1>1, <2>1 DEF RecvFails, IInv, TypeOK, Sending, Synchronised, Filed,
             Cutting, Follows, InStep, EndsWithConnection, OnStream, Size, sending
<1>2. CASE UNCHANGED vars
  BY <1>2 DEF vars, sending, receiving, IInv, TypeOK, Sending, Synchronised, Filed,
             Cutting, Follows, InStep, EndsWithConnection, OnStream, Size
<1> QED BY <1>1, <1>2, EncodeInductive, CutInductive, SendInductive, RecvInductive
        DEF Next

\* The invariant holds in every reachable state.
LEMMA Invariant == Spec => []IInv
BY Initialised, Inductive, PTL DEF Spec

\* All variables keep their types: send_pkg never counts more than it was given.
THEOREM TypeCorrect == Spec => []TypeOK
<1>1. IInv => TypeOK
  BY DEF IInv
<1> QED BY Invariant, <1>1, PTL

\* recv_pkg never takes bytes of the next packet.
THEOREM StaysInStep == Spec => []InStep
<1>1. IInv => InStep
  BY DEF IInv
<1> QED BY Invariant, <1>1, PTL

\* The viewer ends only when the connection has.
THEOREM EndsOnlyThen == Spec => []EndsWithConnection
<1>1. IInv => EndsWithConnection
  BY DEF IInv
<1> QED BY Invariant, <1>1, PTL

\* Up to the first short write the viewer's file is the camera's frames.
THEOREM FileCorrect == Spec => []FileFollowsFrames
<1>1. IInv => FileFollowsFrames
  <2> SUFFICES ASSUME IInv, NEW i \in 1 .. Len(file)
               PROVE  IF i = 1 THEN file[1].pkt.frame = 1 /\ file[1].pkt.from = 0
                      ELSE Follows(frames, file[i - 1].pkt, file[i].pkt)
    BY DEF FileFollowsFrames
  <2>1. i \in 1 .. Len(packets) /\ file[i].pkt = packets[i]
    BY DEF IInv, TypeOK, Filed
  <2>2. CASE i = 1
    BY <2>1, <2>2 DEF IInv, TypeOK, Cutting
  <2>3. CASE i # 1
    <3>1. i - 1 \in 1 .. Len(file) /\ i - 1 \in 1 .. Len(packets) /\ i - 1 < Len(packets)
      BY <2>1, <2>3 DEF IInv, TypeOK
    <3> QED BY <2>1, <2>3, <3>1 DEF IInv, Filed, Cutting
  <2> QED BY <2>2, <2>3
<1> QED BY Invariant, <1>1, PTL

\* The loops implement the stream of packets: cutting a packet sends it, the
\* recv() that completes one delivers it, everything else is a stutter.
THEOREM ImplementsStream == Spec => StreamsPackets
<1> DEFINE got == [i \in 1 .. Len(file) |-> file[i].pkt]
<1>1. Init => Stream!Init
  BY DEF Init, Stream!Init
<1>2. IInv /\ IInv' /\ [Next]_vars => [Stream!Send \/ Stream!Deliver]_<<packets, got>>
  <2> SUFFICES ASSUME IInv, IInv', [Next]_vars
               PROVE  Stream!Send \/ Stream!Deliver \/ UNCHANGED <<packets, got>>
    OBVIOUS
  <2>1. CASE Cut
    <3>1. CASE packets' = packets
      BY <2>1, <3>1 DEF Cut, receiving
    <3>2. CASE packets' # packets
      <4>1. PICK p : packets' = Append(packets, p)
        BY <2>1, <3>2 DEF Cut
      <4>2. Len(packets') = Len(packets) + 1 /\ packets'[Len(packets) + 1] = p
        BY <4>1 DEF IInv, TypeOK
      <4>3. p \in Packet
        <5>1. packets \in Seq(Packet) /\ packets' \in Seq(Packet)
          BY DEF IInv, TypeOK
        <5>2. Len(packets') \in 1 .. Len(packets')
          BY <4>2, <5>1
        <5> QED BY <4>2, <5>1, <5>2, ElementOfSeq
      <4> QED BY <2>1, <4>1, <4>3 DEF Cut, Stream!Send, receiving
    <3> QED BY <3>1, <3>2
  <2>2. CASE RecvSome
    <3>1. packets' = packets
      BY <2>2 DEF RecvSome, Recv, sending
    <3>2. CASE file' = file
      BY <3>1, <3>2
    <3>3. CASE file' # file
      <4>1. Len(file') = Len(file) + 1 /\ \A i \in 1 .. Len(file) : file'[i] = file[i]
        <5>1. file \in Seq([pkt : Packet, whole : BOOLEAN])
          BY DEF IInv, TypeOK
        <5>2. PICK e : file' = Append(file, e)
          BY <2>2, <3>3 DEF RecvSome, Recv, Received, Write
        <5> QED BY <5>1, <5>2
      <4>2. /\ Len(file) \in Nat /\ Len(file) + 1 \in 1 .. Len(packets)
            /\ file'[Len(file) + 1].pkt = packets[Len(file) + 1]
        <5>1. Len(file) \in Nat /\ Len(packets) \in Nat /\ n' \in 1 .. Len(packets) + 1
          <6>1. file \in Seq([pkt : Packet, whole : BOOLEAN]) /\ packets \in Seq(Packet)
            BY DEF IInv, TypeOK
          <6>2. n' \in 1 .. Len(packets') + 1
            BY DEF IInv, TypeOK
          <6> QED BY <3>1, <6>1, <6>2
        <5>2. Len(file') = n' - 1 /\ \A i \in 1 .. Len(file') : file'[i].pkt = packets[i]
          BY <3>1 DEF IInv, Filed
        <5> QED BY <4>1, <5>1, <5>2
      <4>3. got' = Append(got, packets[Len(file) + 1])
        BY <4>1, <4>2
      <4>4. Len(got) = Len(file)
        BY <4>2
      <4> QED BY <3>1, <4>2, <4>3, <4>4 DEF Stream!Deliver
    <3> QED BY <3>2, <3>3
  <2>3. CASE Encode \/ Send \/ SendFails \/ RecvFails \/ UNCHANGED vars
    BY <2>3 DEF Encode, Send, SendFails, RecvFails, vars, sending, receiving
  <2> QED BY <2>1, <2>2, <2>3 DEF Next
<1> HIDE DEF got
<1> QED BY <1>1, <1>2, Invariant, PTL DEF Spec, StreamsPackets, Stream!Spec, got
=============================================================================
