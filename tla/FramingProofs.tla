---------------------------- MODULE FramingProofs ----------------------------
(***************************************************************************)
(* The server stays in step with the byte stream, for every size of head,  *)
(* place and base of the length in it, longest body and number of packets. *)
(* The invariant: what recvCtx knows (len, and the bytes of stHead.len     *)
(* that have come) is exactly where the stream is in its current packet.   *)
(***************************************************************************)
EXTENDS Framing, TLAPS

\* recvCtx.len is the place in the current packet, and of stHead.len it has the
\* bytes that have come.  InStep and NotCutOff are about the next call of recv();
\* this is what they follow from.
Synchronised ==
    /\ off = len
    /\ n <= PACKETS => /\ len < HEAD + packets[n]
                       /\ seen = Visible(packets[n], len)
    /\ n = PACKETS + 1 => len = 0 /\ seen = 0

\* The inductive invariant.
IInv == TypeOK /\ Synchronised /\ InStep /\ NotCutOff /\ HandledInOrder

\* A length of which only some bytes have arrived is never too long: this is
\* what makes it safe to ask recv() for as much as it says.
LEMMA VisibleBound ==
    ASSUME NEW l \in Body, NEW got \in Nat
    PROVE  Visible(l, got) \in 0 .. l
<1>1. l % BASE \in 0 .. l
  <2>1. l \in Nat /\ BASE \in Nat /\ BASE > 0
    BY LenAssumption DEF Body
  <2>2. CASE l < BASE
    <3>1. l % BASE = l
      BY <2>1, <2>2
    <3> QED BY <2>1, <3>1
  <2>3. CASE l >= BASE
    <3>1. l % BASE \in 0 .. BASE - 1
      BY <2>1
    <3> QED BY <2>1, <2>3, <3>1
  <2> QED BY <2>1, <2>2, <2>3
<1> QED BY <1>1 DEF Visible, Body

\* Once the head is complete, so is the length.
LEMMA VisibleWhole ==
    ASSUME NEW l \in Body, NEW got \in Nat, got >= HEAD
    PROVE  Visible(l, got) = l
BY HeadAssumption DEF Visible

\* recv() is asked for some bytes, and never for more than the packet has left.
LEMMA WantedBound ==
    ASSUME IInv
    PROVE  /\ Wanted > 0
           /\ n <= PACKETS => Wanted <= HEAD + packets[n] - len
<1>1. /\ HEAD \in Nat /\ HEAD > 0 /\ PACKETS \in Nat
      /\ len \in Nat /\ seen \in Nat /\ n \in Nat
  BY HeadAssumption, PacketsAssumption, LenAssumption DEF IInv, TypeOK, Body
<1>2. CASE n = PACKETS + 1
  BY <1>1, <1>2 DEF IInv, Synchronised, Wanted
<1>3. CASE n <= PACKETS
  <2>1. packets[n] \in Body /\ packets[n] \in Nat
    BY <1>1, <1>3, LenAssumption DEF IInv, TypeOK, Body
  <2>2. seen \in 0 .. packets[n] /\ len < HEAD + packets[n]
    BY <1>1, <1>3, <2>1, VisibleBound DEF IInv, Synchronised
  <2>3. len >= HEAD => seen = packets[n]
    BY <1>1, <1>3, <2>1, VisibleWhole DEF IInv, Synchronised
  <2> QED BY <1>1, <2>1, <2>2, <2>3 DEF Wanted
<1> QED BY <1>1, <1>2, <1>3 DEF IInv, TypeOK

\* A channel that has just been handed out is in step with its new stream.
THEOREM Initialised == Init => IInv
<1> SUFFICES ASSUME Init PROVE IInv
  OBVIOUS
<1>1. HEAD \in Nat /\ HEAD > 0 /\ PACKETS \in Nat /\ BUF_SIZE \in Nat
  BY HeadAssumption, LenAssumption, PacketsAssumption
<1>2. TypeOK
  <2>1. 0 \in Body /\ 0 \in 0 .. HEAD + BUF_SIZE /\ 1 \in 1 .. PACKETS + 1
    BY <1>1 DEF Body
  <2>2. <<>> \in Seq(Body)
    OBVIOUS
  <2> QED BY <2>1, <2>2 DEF Init, TypeOK
<1>3. Synchronised
  <2>1. ASSUME 1 <= PACKETS PROVE packets[1] \in Nat
    BY <1>1, <2>1 DEF Init, Body
  <2>2. \A l \in Body : Visible(l, 0) = 0
    BY HeadAssumption DEF Visible
  <2>3. ASSUME 1 <= PACKETS PROVE Visible(packets[1], 0) = 0
    BY <1>1, <2>2, <2>3 DEF Init
  <2> QED BY <1>1, <2>1, <2>3 DEF Init, Synchronised
<1> QED BY <1>2, <1>3 DEF Init, IInv, InStep, NotCutOff, HandledInOrder

\* Every call of recv() keeps it so, however few bytes it returns.
THEOREM Inductive == IInv /\ [Next]_vars => IInv'
<1> SUFFICES ASSUME IInv, [Next]_vars
             PROVE  IInv'
  OBVIOUS
<1>1. /\ HEAD \in Nat /\ HEAD > 0 /\ PACKETS \in Nat /\ BUF_SIZE \in Nat
      /\ n \in Nat /\ len \in Nat /\ off = len
  BY HeadAssumption, LenAssumption, PacketsAssumption DEF IInv, TypeOK, Synchronised
<1>2. ASSUME NEW r \in 1 .. Wanted, Recv(r)
      PROVE  IInv'
  <2> DEFINE got == len + r
             l == Visible(packets[n], got)
  <2>1. n <= PACKETS /\ packets' = packets /\ peer' = peer /\ packets[n] \in Body
    BY <1>1, <1>2 DEF Recv, IInv, TypeOK
  <2>2. packets[n] \in Nat /\ packets[n] <= BUF_SIZE
    BY <1>1, <2>1 DEF Body
  <2>3. Wanted \in Int
    BY <1>1 DEF Wanted, IInv, TypeOK, Body
  <2>4. got \in Nat /\ got <= HEAD + packets[n] /\ got = off + r
    BY <1>1, <2>1, <2>2, <2>3, WantedBound
  <2>5. l \in 0 .. packets[n] /\ l \in Body
    <3> HIDE DEF got
    <3>1. l \in 0 .. packets[n]
      BY <2>1, <2>4, VisibleBound
    <3> QED BY <1>1, <2>2, <3>1 DEF Body
  <2>6. got >= HEAD => l = packets[n]
    BY <2>1, <2>4, VisibleWhole
  <2>7. Taken(r) /\ Received(got, l)
    BY <1>1, <1>2, <2>2, <2>4 DEF Recv
  <2>8. ~Bad(l)
    BY <1>1, <2>5 DEF Bad, Body
  <2>9. CASE got < HEAD \/ ~Whole(got, l)
    <3>1. got < HEAD + packets[n]
      BY <1>1, <2>2, <2>4, <2>5, <2>6, <2>9 DEF Whole
    <3>2. n' = n /\ off' = got
      BY <2>2, <2>4, <2>7, <3>1 DEF Taken
    <3>3. len' = got /\ seen' = l /\ handled' = handled /\ state' = state
      BY <1>1, <2>4, <2>7, <2>8, <2>9 DEF Received
    <3>4. TypeOK'
      BY <1>1, <2>1, <2>2, <2>4, <2>5, <3>2, <3>3 DEF IInv, TypeOK
    <3>5. Synchronised'
      BY <1>1, <2>1, <3>1, <3>2, <3>3 DEF Synchronised
    <3> QED BY <2>1, <3>2, <3>3, <3>4, <3>5 DEF IInv, InStep, NotCutOff, HandledInOrder
  <2>10. CASE got >= HEAD /\ Whole(got, l)
    <3>1. l = packets[n] /\ got = HEAD + packets[n]
      BY <1>1, <2>2, <2>4, <2>6, <2>10 DEF Whole
    <3>2. n' = n + 1 /\ off' = 0
      BY <2>4, <3>1, <2>7 DEF Taken
    <3>3. len' = 0 /\ seen' = 0 /\ handled' = Append(handled, l) /\ state' = state
      BY <1>1, <2>4, <2>7, <2>8, <2>10 DEF Received
    <3>4. TypeOK'
      BY <1>1, <2>1, <2>5, <3>2, <3>3 DEF IInv, TypeOK, Body
    <3>5. Synchronised'
      <4>1. ASSUME n + 1 <= PACKETS
            PROVE  packets[n + 1] \in Body
        BY <1>1, <4>1 DEF IInv, TypeOK
      <4>2. \A b \in Body : Visible(b, 0) = 0 /\ b \in Nat
        BY HeadAssumption DEF Visible, Body
      <4>3. ASSUME n + 1 <= PACKETS
            PROVE  0 < HEAD + packets[n + 1] /\ Visible(packets[n + 1], 0) = 0
        BY <1>1, <4>1, <4>2, <4>3
      <4> QED BY <1>1, <2>1, <3>2, <3>3, <4>3 DEF Synchronised
    <3>6. HandledInOrder'
      BY <1>1, <2>1, <3>1, <3>2, <3>3 DEF IInv, HandledInOrder, TypeOK
    <3> QED BY <2>1, <3>2, <3>3, <3>4, <3>5, <3>6 DEF IInv, InStep, NotCutOff
  <2> QED BY <1>1, <2>4, <2>9, <2>10
<1>3. CASE RecvZero
  <2>1. Wanted # 0
    BY WantedBound
  <2> QED BY <1>3, <2>1
          DEF RecvZero, IInv, TypeOK, Synchronised, InStep, NotCutOff, HandledInOrder
<1>4. CASE Close
  BY <1>4 DEF Close, IInv, TypeOK, Synchronised, InStep, NotCutOff, HandledInOrder
<1>5. CASE UNCHANGED vars
  BY <1>5 DEF vars, IInv, TypeOK, Synchronised, InStep, NotCutOff, HandledInOrder
<1> QED BY <1>2, <1>3, <1>4, <1>5 DEF Next

\* Where server_recv_cb puts bytes and how many it asks for always fits the
\* stream.
THEOREM StaysInStep == Spec => []InStep
<1>1. IInv => InStep
  BY DEF IInv
<1> QED BY Initialised, Inductive, <1>1, PTL DEF Spec

\* server_recv_cb frees no channel over a legal packet.
THEOREM NeverCutOff == Spec => []NotCutOff
<1>1. IInv => NotCutOff
  BY DEF IInv
<1> QED BY Initialised, Inductive, <1>1, PTL DEF Spec

\* handle and dispatch get the client's packets, in order and once each.
THEOREM AlwaysInOrder == Spec => []HandledInOrder
<1>1. IInv => HandledInOrder
  BY DEF IInv
<1> QED BY Initialised, Inductive, <1>1, PTL DEF Spec

\* All variables of Framing keep their types.
THEOREM TypeCorrect == Spec => []TypeOK
<1>1. IInv => TypeOK
  BY DEF IInv
<1> QED BY Initialised, Inductive, <1>1, PTL DEF Spec

\* Cutting packets out of the bytes that recv() returns, in pieces of any size,
\* implements the stream of packets that handle and dispatch rely on: a callback
\* that completes a packet delivers the next one, every other one is a stutter.
THEOREM ImplementsStream == Spec => StreamsPackets
<1>1. Init => Stream!Init
  <2> SUFFICES ASSUME Init PROVE Stream!Init
    OBVIOUS
  <2>1. packets \in Seq(Body)
    BY PacketsAssumption DEF Init
  <2> QED BY <2>1 DEF Init, Stream!Init
<1>2. IInv /\ IInv' /\ [Next]_vars => [Stream!Send \/ Stream!Deliver]_<<packets, handled>>
  <2> SUFFICES ASSUME IInv, IInv', [Next]_vars
               PROVE  Stream!Deliver \/ UNCHANGED <<packets, handled>>
    OBVIOUS
  <2>1. ASSUME NEW r \in 1 .. Wanted, Recv(r)
        PROVE  Stream!Deliver \/ UNCHANGED <<packets, handled>>
    <3> DEFINE got == len + r
               l == Visible(packets[n], got)
    <3>1. packets' = packets /\ n \in Nat /\ Len(handled) = n - 1
      BY <2>1, PacketsAssumption DEF Recv, IInv, TypeOK, HandledInOrder
    <3>2. CASE handled' = Append(handled, l)
      <4>1. Len(handled') = Len(handled) + 1 /\ handled'[Len(handled) + 1] = l
        BY <3>2 DEF IInv, TypeOK
      <4>2. l = packets[Len(handled) + 1]
        BY <3>1, <4>1 DEF IInv, HandledInOrder, TypeOK
      <4>3. Len(handled') = n' - 1 /\ n' \in 1 .. PACKETS + 1
        BY DEF IInv, HandledInOrder, TypeOK
      <4>4. Len(packets) = PACKETS
        BY PacketsAssumption DEF IInv, TypeOK
      <4> QED BY <3>1, <3>2, <4>1, <4>2, <4>3, <4>4, PacketsAssumption DEF Stream!Deliver
    <3>3. CASE handled' = handled
      BY <3>1, <3>3
    <3> QED BY <2>1, <3>2, <3>3 DEF Recv, Received
  <2>2. CASE RecvZero \/ Close \/ UNCHANGED vars
    BY <2>2 DEF RecvZero, Close, vars
  <2> QED BY <2>1, <2>2 DEF Next
<1>3. Spec => []IInv
  BY Initialised, Inductive, PTL DEF Spec
<1> QED BY <1>1, <1>2, <1>3, PTL DEF Spec, StreamsPackets, Stream!Spec
=============================================================================
