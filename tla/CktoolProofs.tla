----------------------------- MODULE CktoolProofs -----------------------------
(***************************************************************************)
(* Proofs about Cktool, for any number of headers and of packets: the      *)
(* types, the handles and the way of headers and pictures, whatever bits   *)
(* the option -s has.                                                      *)
(***************************************************************************)
EXTENDS Cktool, TLAPS

\* What is true of the handles and of the bits of -s where the tool is.
Path ==
    /\ pc = "options" => open = {}
    /\ pc \in {"convert", "stamp", "headers", "packheader", "encode", "packpicture"}
         => "convert" \in stage
    /\ pc \in {"headers", "packheader", "encode", "packpicture"} => "encode" \in stage
    /\ pc \in {"packheader", "packpicture"} => "pack" \in stage

\* The open handles are those that are not to be opened any more, all that the
\* run needs, or those that are still to be closed.
Booked ==
    ~failed => /\ pc # "undef"
               /\ pc = "open" => open = Needed(stage) \ todo
               /\ pc \in Looping \cup {"start", "stop"} => open = Needed(stage)
               /\ pc = "close" => open = todo
               /\ pc = "done" => open = {}

\* How the packets of headers and pictures leave a run that encodes.
EncodedWay == IF "pack" \notin stage THEN "encoded"
              ELSE IF "network" \in stage THEN "sent" ELSE "packed"

\* Headers and pictures leave by the way the bits of -s name, nothing before
\* the loop, and a picture is encoded only when there is no header left.
OneWay ==
    /\ pc \in {"options", "open", "start"} =>
           written.header = {} /\ written.picture = {}
    /\ pc \in {"encode", "packpicture"} => headers = 0
    /\ written.picture \cap {"encoded", "packed", "sent"} # {} => headers = 0
    /\ written.header # {} => {"convert", "encode"} \subseteq stage
    /\ written.header \subseteq {EncodedWay}
    /\ written.picture \subseteq {IF "convert" \notin stage THEN "captured"
                                  ELSE IF "encode" \notin stage THEN "converted"
                                  ELSE EncodedWay}

IInv == TypeOK /\ Path /\ Booked /\ OneWay

-----------------------------------------------------------------------------
\* Both lists of cktool.c go through every handle a run needs.
LEMMA Lists ==
    ASSUME NEW s
    PROVE  Of(Opens, s) = Needed(s) /\ Of(Closes, s) = Needed(s) /\ Needed(s) \subseteq Handle
<1>1. Needed(s) \subseteq Handle
  BY DEF Needed, Handle
<1>2. \A h \in Handle : \E i \in DOMAIN Opens : Opens[i] = h
  BY DEF Handle, Opens
<1>3. \A h \in Handle : \E i \in DOMAIN Closes : Closes[i] = h
  BY DEF Handle, Closes
<1> QED BY <1>1, <1>2, <1>3 DEF Of

\* What leaves the tool keeps its type.
LEMMA EmitTypes ==
    ASSUME written \in [{"header", "picture"} -> SUBSET Sink],
           NEW what \in {"header", "picture"}, NEW sink \in Sink, Emit(what, sink)
    PROVE  written' \in [{"header", "picture"} -> SUBSET Sink]
BY DEF Emit

\* Every step keeps the types,
LEMMA TypeNext == TypeOK /\ Path /\ [Next]_vars => TypeOK'
<1> SUFFICES ASSUME TypeOK, Path, [Next]_vars PROVE TypeOK'
  OBVIOUS
<1> USE HeadersAssumption, PacksAssumption, EmitTypes, Lists
    DEF TypeOK, PC, options, Call, Quiet, Sink, First
<1>1. CASE Options
  <2>1. open = {}
    BY <1>1 DEF Options, Path
  <2> QED BY <1>1, <2>1 DEF Options
<1>2. CASE Open
  <2>1. PICK h \in todo :
          /\ open' \in {open, open \cup {h}} /\ headers' \in {headers, HEADERS}
          /\ todo' \in {todo, todo \ {h}} /\ pc' \in {"start", "open", "error"}
          /\ failed' = TRUE \/ failed' = failed
    BY <1>2 DEF Open
  <2>2. UNCHANGED <<options, packs, written, sigint, quit>>
    BY <1>2 DEF Open
  <2>3. todo' \subseteq Needed(stage) /\ open' \subseteq Needed(stage)
    BY <2>1
  <2>4. headers' \in 0 .. HEADERS
    BY <2>1
  <2>5. failed' \in BOOLEAN
    BY <2>1
  <2>6. pc' \in PC
    BY <2>1
  <2> QED BY <2>2, <2>3, <2>4, <2>5, <2>6
<1>3. CASE Start
  BY <1>3 DEF Start
<1>4. CASE Loop
  BY <1>4 DEF Loop
<1>5. CASE Capture
  BY <1>5 DEF Capture
<1>6. CASE Convert
  BY <1>6 DEF Convert
<1>7. CASE Stamp
  BY <1>7 DEF Stamp
<1>8. CASE Headers
  BY <1>8 DEF Headers
<1>9. CASE PackHeader
  BY <1>9 DEF PackHeader, Pack
<1>10. CASE Encode
  BY <1>10 DEF Encode
<1>11. CASE PackPicture
  BY <1>11 DEF PackPicture, Pack
<1>12. CASE Stop
  BY <1>12 DEF Stop
<1>13. CASE Close
  BY <1>13 DEF Close
<1>14. CASE Sigint
  BY <1>14 DEF Sigint
<1>15. CASE UNCHANGED vars
  BY <1>15 DEF vars
<1> QED BY <1>1, <1>2, <1>3, <1>4, <1>5, <1>6, <1>7, <1>8, <1>9, <1>10,
           <1>11, <1>12, <1>13, <1>14, <1>15 DEF Next, Main

\* the stages a place stands for,
LEMMA PathNext == TypeOK /\ Path /\ [Next]_vars => Path'
<1> SUFFICES ASSUME TypeOK, Path, [Next]_vars PROVE Path'
  OBVIOUS
<1> USE DEF Path, options, Call, Quiet
<1>1. CASE Options
  BY <1>1 DEF Options
<1>2. CASE Open
  BY <1>2 DEF Open
<1>3. CASE Start
  BY <1>3 DEF Start
<1>4. CASE Loop
  BY <1>4 DEF Loop
<1>5. CASE Capture
  BY <1>5 DEF Capture
<1>6. CASE Convert
  BY <1>6 DEF Convert
<1>7. CASE Stamp
  BY <1>7 DEF Stamp
<1>8. CASE Headers
  BY <1>8 DEF Headers
<1>9. CASE PackHeader
  BY <1>9 DEF PackHeader, Pack
<1>10. CASE Encode
  BY <1>10 DEF Encode
<1>11. CASE PackPicture
  BY <1>11 DEF PackPicture, Pack
<1>12. CASE Stop
  BY <1>12 DEF Stop
<1>13. CASE Close
  BY <1>13 DEF Close
<1>14. CASE Sigint
  BY <1>14 DEF Sigint
<1>15. CASE UNCHANGED vars
  BY <1>15 DEF vars
<1> QED BY <1>1, <1>2, <1>3, <1>4, <1>5, <1>6, <1>7, <1>8, <1>9, <1>10,
           <1>11, <1>12, <1>13, <1>14, <1>15 DEF Next, Main

\* In the loop all the handles that the bits of -s ask for are open, and the
\* path to a call asks for the handle of the call.
LEMMA BookedNext == TypeOK /\ Path /\ Booked /\ [Next]_vars => Booked'
<1> SUFFICES ASSUME TypeOK, Path, Booked, [Next]_vars, ~failed'
             PROVE  Booked'
  BY DEF Booked
<1>1. ~failed
  BY DEF Next, Main, Options, Open, Start, Loop, Capture, Convert, Stamp,
         Headers, PackHeader, Encode, PackPicture, Pack, Stop, Close, Sigint,
         Quiet, vars
<1>2. /\ {"cap", "tms"} \subseteq Needed(stage)
      /\ "convert" \in stage => "cvt" \in Needed(stage)
      /\ "encode" \in stage => "enc" \in Needed(stage)
      /\ "pack" \in stage => "pac" \in Needed(stage)
      /\ "network" \in stage => "net" \in Needed(stage)
  BY DEF Needed
<1>3. pc \in PC /\ todo \subseteq Needed(stage) /\ open \subseteq Needed(stage)
  BY DEF TypeOK
<1> USE <1>1, <1>2, <1>3 DEF Path, Booked, Looping, options, Call, Quiet
<1>4. CASE Options
  BY <1>4, Lists DEF Options
<1>5. CASE Open
  <2>1. PICK h \in todo :
          \/ /\ open' = open \cup {h} /\ todo' = todo \ {h}
             /\ pc' = IF todo' = {} THEN "start" ELSE "open"
          \/ pc' = "error"
    BY <1>5 DEF Open, First
  <2> QED BY <1>5, <2>1 DEF Open
<1>6. CASE Start
  BY <1>6 DEF Start
<1>7. CASE Loop
  BY <1>7 DEF Loop
<1>8. CASE Capture
  BY <1>8 DEF Capture
<1>9. CASE Convert
  BY <1>9 DEF Convert
<1>10. CASE Stamp
  BY <1>10 DEF Stamp
<1>11. CASE Headers
  BY <1>11 DEF Headers
<1>12. CASE PackHeader
  BY <1>12 DEF PackHeader, Pack
<1>13. CASE Encode
  BY <1>13 DEF Encode
<1>14. CASE PackPicture
  BY <1>14 DEF PackPicture, Pack
<1>15. CASE Stop
  BY <1>15, Lists DEF Stop
<1>16. CASE Close
  BY <1>16 DEF Close, First
<1>17. CASE Sigint
  BY <1>17 DEF Sigint
<1>18. CASE UNCHANGED vars
  BY <1>18 DEF vars
<1> QED BY <1>4, <1>5, <1>6, <1>7, <1>8, <1>9, <1>10, <1>11, <1>12, <1>13,
           <1>14, <1>15, <1>16, <1>17, <1>18 DEF Next, Main

\* and the way that headers and pictures leave by.
LEMMA OneWayNext == TypeOK /\ Path /\ OneWay /\ [Next]_vars => OneWay'
<1> SUFFICES ASSUME TypeOK, Path, OneWay, [Next]_vars PROVE OneWay'
  OBVIOUS
<1>1. headers \in Nat /\ written \in [{"header", "picture"} -> SUBSET Sink]
  BY HeadersAssumption DEF TypeOK
<1> USE <1>1 DEF Path, options, Call, Quiet, Emit
<1>2. CASE Options
  BY <1>2 DEF Options, OneWay
<1>3. ASSUME UNCHANGED options PROVE EncodedWay' = EncodedWay
  BY <1>3 DEF EncodedWay
<1> USE <1>3 DEF OneWay
<1>4. CASE Open
  BY <1>4 DEF Open
<1>5. CASE Start
  BY <1>5 DEF Start
<1>6. CASE Loop
  BY <1>6 DEF Loop
<1>7. CASE Capture
  BY <1>7 DEF Capture
<1>8. CASE Convert
  BY <1>8 DEF Convert
<1>9. CASE Stamp
  BY <1>9 DEF Stamp
<1>10. CASE Headers
  BY <1>10 DEF Headers, EncodedWay
<1>11. CASE PackHeader
  BY <1>11 DEF PackHeader, Pack, EncodedWay
<1>12. CASE Encode
  BY <1>12 DEF Encode, EncodedWay
<1>13. CASE PackPicture
  BY <1>13 DEF PackPicture, Pack, EncodedWay
<1>14. CASE Stop
  BY <1>14 DEF Stop
<1>15. CASE Close
  BY <1>15 DEF Close
<1>16. CASE Sigint
  BY <1>16 DEF Sigint
<1>17. CASE UNCHANGED vars
  BY <1>17 DEF vars
<1> QED BY <1>2, <1>4, <1>5, <1>6, <1>7, <1>8, <1>9, <1>10, <1>11, <1>12,
           <1>13, <1>14, <1>15, <1>16, <1>17 DEF Next, Main

\* Before the options nothing is open and nothing has left.
THEOREM Initialised == Init => IInv
<1>1. Init => TypeOK
  <2> SUFFICES ASSUME Init PROVE TypeOK
    OBVIOUS
  <2>1. written \in [{"header", "picture"} -> SUBSET Sink]
    BY DEF Init
  <2>2. headers \in 0 .. HEADERS /\ packs \in 0 .. PACKS
    BY HeadersAssumption, PacksAssumption DEF Init
  <2> QED BY <2>1, <2>2 DEF Init, TypeOK, PC, Stages
<1> QED BY <1>1 DEF Init, IInv, Path, Booked, OneWay, Looping

\* Every step of the tool preserves the invariant.
THEOREM Inductive == IInv /\ [Next]_vars => IInv'
BY TypeNext, PathNext, BookedNext, OneWayNext DEF IInv

\* The invariant holds in every reachable state.
LEMMA Invariant == Spec => []IInv
BY Initialised, Inductive, PTL DEF Spec

\* The options, the lists and the counters keep their types.
THEOREM TypeCorrect == Spec => []TypeOK
BY Invariant, PTL DEF IInv

\* No call goes through a handle that is not open, whatever bits -s has, if the
\* timestamp's handle, which cktool.c does not check, could be opened.
THEOREM HandlesStayOpen == Spec => []HandlesOpen
<1>1. IInv => HandlesOpen
  BY DEF IInv, TypeOK, Booked, HandlesOpen
<1> QED BY <1>1, Invariant, PTL

\* A run that ends in the regular way has closed what it has opened.
THEOREM RunClosesAll == Spec => []ClosesAll
<1>1. IInv => ClosesAll
  BY DEF IInv, TypeOK, Booked, ClosesAll
<1> QED BY <1>1, Invariant, PTL

\* All headers leave before the first encoded picture, and by the same way.
THEOREM HeadersLeaveFirst == Spec => []HeadersFirst
<1>1. IInv => HeadersFirst
  <2> SUFFICES ASSUME IInv, written.header # {}, written.picture # {}
               PROVE  written.header = written.picture
    BY DEF IInv, OneWay, HeadersFirst
  <2>1. written.header = {EncodedWay}
    BY DEF IInv, OneWay
  <2>2. written.picture = {EncodedWay}
    BY DEF IInv, OneWay
  <2> QED BY <2>1, <2>2
<1> QED BY <1>1, Invariant, PTL

===============================================================================
