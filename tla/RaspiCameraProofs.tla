-------------------------- MODULE RaspiCameraProofs --------------------------
(***************************************************************************)
(* Proofs about RaspiCamera, for any number of threads and viewers, at     *)
(* once or one after the other, and whatever fails.                        *)
(***************************************************************************)
EXTENDS RaspiCamera, TLAPS

\* The handles t has opened and not yet closed, by where it is.
Has(t) == CASE pc[t] = "none" -> {}
            [] pc[t] = "open" -> {h \in Handle : \E i \in 1 .. at[t] - 1 : Opens[i] = h}
            [] pc[t] = "close" -> {h \in Handle : \E i \in at[t] .. 5 : Closes[i] = h}
            [] OTHER -> Handle

\* Threads that run at once have met.
Meeting == \A s, t \in Running : s # t => s \in met

\* The global remotefd is that of the request of every thread that runs, or of a
\* later one.
Addressed == \A t \in Running : remotefd \in viewer[t]

\* What the thread t has open, and the global handles, agree with where t is.
Own(t) == /\ \A h \in Handle : t \in alive[h] <=> h \in Has(t)
          /\ \A h \in Has(t) : handle[h] = t

\* That holds for every thread that never ran beside another one; only the
\* others use what is not open.
Booked ==
    ~failed => /\ run # "exit"
               /\ run = "undef" => Running \cap met # {}
               /\ \A t \in Thread \ met : Own(t)

LEMMA OpensAll ==
    /\ Opens \in [1 .. 5 -> Handle] /\ Len(Opens) = 5
    /\ \A h \in Handle : \E i \in 1 .. 5 : Opens[i] = h
BY DEF Opens, Handle

LEMMA ClosesAll ==
    /\ Closes \in [1 .. 5 -> Handle] /\ Len(Closes) = 5
    /\ \A h \in Handle : \E i \in 1 .. 5 : Closes[i] = h
    /\ \A i, j \in 1 .. 5 : Closes[i] = Closes[j] => i = j
BY DEF Closes, Handle

\* A thread has packets to send while it sends, and main has a descriptor while
\* it starts one.
Sending == /\ \A t \in Thread : pc[t] = "send" => left[t] > 0
           /\ main = "start" => ntf.fd \in Remote

\* What a step of a thread does to the shared control: it moves the thread, or
\* shows that a handle is not open.
Moved(t) ==
    /\ run = "up"
    /\ \/ run' = "undef" /\ UNCHANGED <<pc, failed>>
       \/ \E where \in PC : Go(t, where) \/ Fail(t, where)

LEMMA ThreadMoves ==
    ASSUME NEW t \in Thread, camera_thread(t)
    PROVE  /\ Moved(t) /\ UNCHANGED <<shared, main, ntf, met>>
           /\ viewer' = IF pc'[t] = "none" THEN [viewer EXCEPT ![t] = {}] ELSE viewer
<1>1. /\ met' = met
      /\ viewer' = IF pc'[t] = "none" THEN [viewer EXCEPT ![t] = {}] ELSE viewer
  BY DEF camera_thread
<1>2. Moved(t) /\ UNCHANGED <<shared, main, ntf>>
  <2> USE DEF At, Using, Moved, PC, local, library
  <2>1. CASE Open(t)
    BY <2>1 DEF Open
  <2>2. CASE CaptureStart(t)
    BY <2>2 DEF CaptureStart
  <2>3. CASE Loop(t)
    BY <2>3 DEF Loop
  <2>4. CASE Capture(t)
    BY <2>4 DEF Capture
  <2>5. CASE Convert(t)
    BY <2>5 DEF Convert
  <2>6. CASE Headers(t)
    BY <2>6 DEF Headers
  <2>7. CASE Encode(t)
    BY <2>7 DEF Encode
  <2>8. CASE Send(t)
    BY <2>8 DEF Send
  <2>9. CASE CaptureStop(t)
    BY <2>9 DEF CaptureStop
  <2>10. CASE Close(t)
    BY <2>10 DEF Close
  <2> QED BY <2>1, <2>2, <2>3, <2>4, <2>5, <2>6, <2>7, <2>8, <2>9, <2>10
          DEF camera_thread
<1> QED BY <1>1, <1>2

LEMMA MovedTypes ==
    ASSUME TypeOK, NEW t \in Thread, Moved(t)
    PROVE  /\ pc' \in [Thread -> PC]
           /\ failed' \in BOOLEAN /\ run' \in {"up", "undef"}
           /\ \A s \in Thread : s # t => pc'[s] = pc[s]
           /\ run' = "up" => \E where \in PC : pc' = [pc EXCEPT ![t] = where]
           /\ run' = "undef" => pc' = pc
BY DEF Moved, Go, Fail, Move, TypeOK, PC

\* What a thread's data must be for its next step to keep the types.
Data ==
    /\ at \in [Thread -> 1 .. 5]
    /\ \A t \in Thread : run = "up" /\ pc[t] \notin {"open", "close"} => at[t] = 1
    /\ left \in [Thread -> 0 .. CHUNKS]
    /\ \A t \in Thread : pc[t] = "send" => left[t] > 0
    /\ fd \in [Thread -> Remote \cup {0}]
    /\ handle \in [Handle -> Thread \cup {NULL}]
    /\ alive \in [Handle -> SUBSET Thread]

LEMMA ThreadData ==
    ASSUME TypeOK, Sending, NEW t \in Thread, camera_thread(t)
    PROVE  Data'
<1> USE ChunksAssumption
<1>1. Data
  BY OpensAll DEF Data, TypeOK, Sending
<1>2. /\ pc \in [Thread -> PC] /\ remotefd \in Remote \cup {0} /\ run \in {"up", "exit", "undef"}
  BY DEF TypeOK
<1>3. ASSUME UNCHANGED <<at, left, fd, handle, alive>>,
             run = "up", pc[t] \notin {"open", "close"},
             NEW where \in PC \ {"open", "close", "send"},
             \/ pc' = [pc EXCEPT ![t] = where] /\ run' = run
             \/ run' = "undef" /\ pc' = pc
      PROVE  Data'
  BY <1>1, <1>2, <1>3 DEF Data, PC
<1> USE DEF At, Using, Go, Fail, Move
<1>4. CASE Open(t)
  <2>1. at[t] \in 1 .. 5 /\ Opens[at[t]] \in Handle /\ pc[t] = "open" /\ run = "up"
    BY <1>1, <1>4, OpensAll DEF Data, Open
  <2>2. /\ UNCHANGED <<left, fd>> /\ run' = run
        /\ \/ pc' = [pc EXCEPT ![t] = "started"] /\ at' = [at EXCEPT ![t] = 1]
           \/ /\ pc' = [pc EXCEPT ![t] = "open"] /\ at' = [at EXCEPT ![t] = @ + 1]
              /\ at[t] # 5
        /\ handle' \in [Handle -> Thread \cup {NULL}]
        /\ alive' \in [Handle -> SUBSET Thread]
    BY <1>1, <1>4, <2>1, OpensAll DEF Data, Open, After
  <2> QED BY <1>1, <1>2, <2>1, <2>2 DEF Data, Sending, PC
<1>5. CASE Close(t)
  <2>1. at[t] \in 1 .. 5 /\ Closes[at[t]] \in Handle /\ pc[t] = "close" /\ run = "up"
    BY <1>1, <1>5, ClosesAll DEF Data, Close
  <2>2. /\ UNCHANGED <<left, fd, handle>>
        /\ at' = [at EXCEPT ![t] = IF at[t] = 5 THEN 1 ELSE at[t] + 1]
        /\ \/ pc' = pc /\ run' = "undef"
           \/ pc' = [pc EXCEPT ![t] = "none"] /\ run' = run /\ at[t] = 5
           \/ pc' = [pc EXCEPT ![t] = "close"] /\ run' = run /\ at[t] # 5
        /\ alive' \in [Handle -> SUBSET Thread]
    BY <1>1, <1>5, <2>1, ClosesAll DEF Data, Close, After
  <2> QED BY <1>1, <1>2, <2>1, <2>2 DEF Data, Sending, PC
<1>6. CASE Encode(t)
  <2>1. /\ UNCHANGED <<at, handle, alive>>
        /\ pc[t] = "encode"
        /\ \/ /\ \/ pc' = [pc EXCEPT ![t] = "send"] /\ run' = run
                 \/ run' = "undef" /\ pc' = pc
              /\ fd' = [fd EXCEPT ![t] = remotefd]
              /\ \E n \in 1 .. CHUNKS : left' = [left EXCEPT ![t] = n]
           \/ /\ \/ pc' = [pc EXCEPT ![t] = "loop"] /\ run' = run
                 \/ pc' = [pc EXCEPT ![t] = "stop"] /\ run' = run
                 \/ run' = "undef" /\ pc' = pc
              /\ UNCHANGED <<left, fd>>
    BY <1>6 DEF Encode, library
  <2> QED BY <1>1, <1>2, <2>1 DEF Data, Sending, PC
<1>7. CASE Send(t)
  <2>1. left[t] \in 1 .. CHUNKS /\ pc[t] = "send"
    BY <1>1, <1>7 DEF Data, Send, Sending
  <2>2. /\ UNCHANGED <<at, handle, alive>> /\ run' = run
        /\ fd' \in [Thread -> Remote \cup {0}]
        /\ \/ pc' = [pc EXCEPT ![t] = "loop"] /\ left' = [left EXCEPT ![t] = @ - 1]
           \/ /\ pc' = [pc EXCEPT ![t] = "send"] /\ left' = [left EXCEPT ![t] = @ - 1]
              /\ left[t] # 1
           \/ pc' = [pc EXCEPT ![t] = "none"] /\ left' = [left EXCEPT ![t] = 0]
    BY <1>1, <1>7 DEF Send, library, Data
  <2> QED BY <1>1, <1>2, <2>1, <2>2 DEF Data, Sending, PC
<1>8. CASE CaptureStop(t)
  <2>1. /\ UNCHANGED <<at, left, fd, handle, alive>> /\ pc[t] = "stop" /\ run = "up"
        /\ \/ pc' = pc /\ run' = "undef"
           \/ pc' = [pc EXCEPT ![t] = "close"] /\ run' = run
    BY <1>8 DEF CaptureStop, local, library
  <2> QED BY <1>1, <1>2, <2>1 DEF Data, Sending, PC
<1>9. CASE CaptureStart(t) \/ Loop(t) \/ Capture(t) \/ Convert(t) \/ Headers(t)
  <2>1. UNCHANGED <<at, left, fd, handle, alive>>
    BY <1>9 DEF CaptureStart, Loop, Capture, Convert, Headers, local, library
  <2>2. run = "up" /\ pc[t] \notin {"open", "close"}
    BY <1>9 DEF CaptureStart, Loop, Capture, Convert, Headers
  <2>3. \E where \in PC \ {"open", "close", "send"} :
           \/ pc' = [pc EXCEPT ![t] = where] /\ run' = run
           \/ run' = "undef" /\ pc' = pc
    BY <1>9 DEF CaptureStart, Loop, Capture, Convert, Headers, PC
  <2> QED BY <1>3, <2>1, <2>2, <2>3
<1> QED BY <1>4, <1>5, <1>6, <1>7, <1>8, <1>9 DEF camera_thread

LEMMA TypeInvariant == Spec => [](TypeOK /\ Sending)
<1>1. Init => TypeOK /\ Sending
  <2> SUFFICES ASSUME Init PROVE TypeOK /\ Sending
    OBVIOUS
  <2>1. pc \in [Thread -> PC] /\ Sending
    BY DEF Init, PC, Sending
  <2>2. at \in [Thread -> 1 .. 5] /\ \A t \in Thread : at[t] = 1
    BY DEF Init
  <2>3. left \in [Thread -> 0 .. CHUNKS]
    BY ChunksAssumption DEF Init
  <2>4. /\ fd \in [Thread -> Remote \cup {0}] /\ viewer \in [Thread -> SUBSET Remote]
        /\ handle \in [Handle -> Thread \cup {NULL}]
        /\ alive \in [Handle -> SUBSET Thread]
    BY DEF Init
  <2>5. ntf \in [cmd : {"NONE", "RESTART_CLIENT_NTF", "START_SEND_DATA_NTF"},
                 fd : Remote \cup {0}]
    BY DEF Init
  <2>6. /\ camera_status \in {"CAMERA_START", "CAMERA_STOP"}
        /\ remotefd \in Remote \cup {0} /\ main \in {"recv", "start"}
        /\ met \subseteq Thread /\ failed \in BOOLEAN /\ run \in {"up", "exit", "undef"}
    BY DEF Init
  <2> QED BY <2>1, <2>2, <2>3, <2>4, <2>5, <2>6, OpensAll DEF TypeOK
<1>2. TypeOK /\ Sending /\ [Next]_vars => TypeOK' /\ Sending'
  <2> SUFFICES ASSUME TypeOK, Sending, [Next]_vars PROVE TypeOK' /\ Sending'
    OBVIOUS
  <2> USE ChunksAssumption, OpensAll DEF TypeOK, PC, Sending
  <2>1. CASE RecvRestart
    BY <2>1 DEF RecvRestart, local, library, ghosts
  <2>2. CASE RecvStart
    BY <2>2 DEF RecvStart, local, library, ghosts
  <2>3. CASE StartThread
    <3>1. ntf.fd \in Remote
      BY <2>3 DEF StartThread
    <3>2. ASSUME NEW T \in SUBSET Thread, Asked(T)
          PROVE  viewer' \in [Thread -> SUBSET Remote]
      BY <3>1, <3>2 DEF Asked
    <3>3. CASE UNCHANGED <<pc, local, met>> /\ Asked(Running) /\ failed' = TRUE
      BY <2>3, <3>1, <3>2, <3>3 DEF StartThread, local, library, Running
    <3>4. ASSUME NEW t \in Thread, CreateThread(t), Asked(Running \cup {t}), UNCHANGED failed
          PROVE  TypeOK' /\ Sending'
      <4>1. /\ pc' = [pc EXCEPT ![t] = "open"] /\ met' \subseteq Thread
            /\ UNCHANGED <<at, left, fd>> /\ pc[t] = "none"
        BY <3>4 DEF CreateThread, Unused, Running, local
      <4> QED BY <2>3, <3>1, <3>2, <3>4, <4>1 DEF StartThread, library, Running
    <3> QED BY <2>3, <3>3, <3>4 DEF StartThread
  <2>4. CASE RecvFails
    BY <2>4 DEF RecvFails, local, shared, ghosts
  <2>5. ASSUME NEW t \in Thread, camera_thread(t) PROVE TypeOK' /\ Sending'
    <3>1. viewer' \in [Thread -> SUBSET Remote]
      BY <2>5, ThreadMoves
    <3> QED BY <2>5, <3>1, ThreadMoves, MovedTypes, ThreadData DEF Data, shared
  <2>6. CASE UNCHANGED vars
    BY <2>6 DEF vars, shared, local, library, ghosts
  <2> QED BY <2>1, <2>2, <2>3, <2>4, <2>5, <2>6 DEF Next
<1> QED BY <1>1, <1>2, PTL DEF Spec

\* The flags, the handles and every thread's data keep their types.
THEOREM TypeCorrect == Spec => []TypeOK
BY TypeInvariant, PTL

-----------------------------------------------------------------------------
(* Frames go to the viewers.                                               *)

\* A step of a thread is one of a thread that runs, and no other starts or stops.
LEMMA ThreadRuns ==
    ASSUME TypeOK, NEW t \in Thread, camera_thread(t)
    PROVE  /\ t \in Running /\ run = "up" /\ Running' \subseteq Running
           /\ \A s \in Thread : s # t => pc'[s] = pc[s]
           /\ \A s \in Running' : viewer'[s] = viewer[s]
<1>1. pc[t] # "none" /\ run = "up"
  BY DEF camera_thread, Open, CaptureStart, Loop, Capture, Convert, Headers,
         Encode, Send, CaptureStop, Close, At
<1>2. \A s \in Thread : s # t => pc'[s] = pc[s]
  BY ThreadMoves, MovedTypes
<1>3. viewer' = IF pc'[t] = "none" THEN [viewer EXCEPT ![t] = {}] ELSE viewer
  BY ThreadMoves
<1> QED BY <1>1, <1>2, <1>3 DEF Running, TypeOK

\* What a start does to the threads, created or not.
LEMMA Starts ==
    ASSUME TypeOK, StartThread
    PROVE  /\ Running \subseteq Running'
           /\ \A t \in Running : pc'[t] = pc[t] /\ viewer'[t] = viewer[t] \cup {ntf.fd}
           /\ \A t \in Running' \ Running : pc'[t] = "open" /\ viewer'[t] = {ntf.fd}
           /\ remotefd' = ntf.fd /\ UNCHANGED <<at, left, fd>>
<1>1. CASE UNCHANGED <<pc, local, met>> /\ Asked(Running)
  BY <1>1 DEF StartThread, Asked, Running, local
<1>2. ASSUME NEW t \in Thread, CreateThread(t), Asked(Running \cup {t})
      PROVE  /\ Running \subseteq Running'
             /\ \A s \in Running : pc'[s] = pc[s] /\ viewer'[s] = viewer[s] \cup {ntf.fd}
             /\ \A s \in Running' \ Running : pc'[s] = "open" /\ viewer'[s] = {ntf.fd}
             /\ UNCHANGED <<at, left, fd>>
  <2>1. pc[t] = "none" /\ pc' = [pc EXCEPT ![t] = "open"] /\ UNCHANGED <<at, left, fd>>
    BY <1>2 DEF CreateThread, Unused, local
  <2> QED BY <1>2, <2>1 DEF Asked, Running, TypeOK
<1> QED BY <1>1, <1>2 DEF StartThread

\* A thread that runs finds the descriptor of its request, or of a later one.
LEMMA AddressedNext ==
    ASSUME TypeOK, Addressed, [Next]_vars
    PROVE  Addressed'
<1> USE DEF Addressed
<1>1. CASE RecvRestart \/ RecvStart
  BY <1>1 DEF RecvRestart, RecvStart, ghosts, Running
<1>2. CASE StartThread
  BY <1>2, Starts
<1>3. CASE RecvFails
  BY <1>3 DEF RecvFails, Running
<1>4. ASSUME NEW t \in Thread, camera_thread(t) PROVE Addressed'
  BY <1>4, ThreadMoves, ThreadRuns DEF shared
<1>5. CASE UNCHANGED vars
  BY <1>5 DEF vars, shared, ghosts, Running
<1> QED BY <1>1, <1>2, <1>3, <1>4, <1>5 DEF Next

\* Only Encode makes a thread send, and only it and Send touch the header.
LEMMA SendsAfterEncode ==
    ASSUME TypeOK, NEW t \in Thread, camera_thread(t)
    PROVE  \/ pc'[t] # "send" /\ \A s \in Thread : s # t => fd'[s] = fd[s]
           \/ pc[t] = "send" /\ fd' = fd
           \/ fd' = [fd EXCEPT ![t] = remotefd]
<1>1. CASE Encode(t)
  <2>1. \/ fd' = [fd EXCEPT ![t] = remotefd]
        \/ fd' = fd /\ (Go(t, "loop") \/ Fail(t, "stop") \/ pc' = pc) /\ pc[t] = "encode"
    BY <1>1 DEF Encode, Using, At
  <2> QED BY <2>1 DEF Go, Fail, Move, TypeOK
<1>2. CASE Send(t)
  <2>1. /\ pc[t] = "send"
        /\ \/ fd' = fd
           \/ fd' = [fd EXCEPT ![t] = 0] /\ (Go(t, "loop") \/ Fail(t, "none"))
    BY <1>2 DEF Send, At
  <2> QED BY <2>1 DEF Go, Fail, Move, TypeOK
<1>3. CASE ~Encode(t) /\ ~Send(t)
  <2>1. \/ Open(t) \/ CaptureStart(t) \/ Loop(t) \/ Capture(t) \/ Convert(t)
        \/ Headers(t) \/ CaptureStop(t) \/ Close(t)
    BY <1>3 DEF camera_thread
  <2>2. fd' = fd
    BY <2>1 DEF Open, CaptureStart, Loop, Capture, Convert, Headers,
                CaptureStop, Close, local
  <2>3. pc'[t] # "send"
    <3> USE DEF Using, Go, Fail, Move, At, TypeOK
    <3>1. CASE Open(t)
      BY <3>1 DEF Open
    <3>2. CASE CaptureStart(t) \/ Loop(t)
      BY <3>2 DEF CaptureStart, Loop
    <3>3. CASE Capture(t) \/ Convert(t) \/ Headers(t)
      BY <3>3 DEF Capture, Convert, Headers
    <3>4. CASE CaptureStop(t) \/ Close(t)
      BY <3>4 DEF CaptureStop, Close
    <3> QED BY <2>1, <3>1, <3>2, <3>3, <3>4
  <2> QED BY <2>2, <2>3
<1> QED BY <1>1, <1>2, <1>3

\* However many threads run and whatever fails, a frame goes to the viewer its
\* thread was created for or to one that asked later.
THEOREM FramesToTheirViewer == Spec => []ToItsViewer
<1>1. Init => Addressed /\ ToItsViewer
  BY DEF Init, Addressed, ToItsViewer, Running
<1>2. TypeOK /\ Addressed /\ ToItsViewer /\ [Next]_vars => Addressed' /\ ToItsViewer'
  <2> SUFFICES ASSUME TypeOK, Addressed, ToItsViewer, [Next]_vars
               PROVE  ToItsViewer'
    BY AddressedNext
  <2> USE DEF ToItsViewer
  <2>1. CASE RecvRestart \/ RecvStart
    BY <2>1 DEF RecvRestart, RecvStart, local, ghosts
  <2>2. CASE StartThread
    <3> SUFFICES ASSUME NEW t \in Thread, pc'[t] = "send" PROVE fd'[t] \in viewer'[t]
      OBVIOUS
    <3>1. t \in Running' /\ t \in Running
      BY <2>2, Starts DEF Running
    <3> QED BY <2>2, <3>1, Starts
  <2>3. CASE RecvFails
    BY <2>3 DEF RecvFails
  <2>4. ASSUME NEW t \in Thread, camera_thread(t) PROVE ToItsViewer'
    <3> SUFFICES ASSUME NEW s \in Thread, pc'[s] = "send" PROVE fd'[s] \in viewer'[s]
      OBVIOUS
    <3>1. s \in Running' /\ s \in Running /\ viewer'[s] = viewer[s]
      BY <2>4, ThreadRuns DEF Running
    <3>2. CASE s # t
      <4>1. pc'[s] = pc[s] /\ fd'[s] = fd[s]
        BY <2>4, <3>2, SendsAfterEncode, ThreadRuns DEF TypeOK
      <4> QED BY <3>1, <4>1
    <3>3. CASE s = t
      BY <2>4, <3>1, <3>3, SendsAfterEncode DEF Addressed, TypeOK
    <3> QED BY <3>2, <3>3
  <2>5. CASE UNCHANGED vars
    BY <2>5 DEF vars, local, ghosts
  <2> QED BY <2>1, <2>2, <2>3, <2>4, <2>5 DEF Next
<1> QED BY <1>1, <1>2, TypeCorrect, PTL DEF Spec

-----------------------------------------------------------------------------
(* The handles of the library.                                             *)

\* What Has is, place by place.
LEMMA HasAt ==
    ASSUME NEW t \in Thread
    PROVE  /\ pc[t] = "none" => Has(t) = {}
           /\ pc[t] = "open" =>
                \A h \in Handle : h \in Has(t) <=> \E i \in 1 .. at[t] - 1 : Opens[i] = h
           /\ pc[t] = "close" =>
                \A h \in Handle : h \in Has(t) <=> \E i \in at[t] .. 5 : Closes[i] = h
           /\ pc[t] \notin {"none", "open", "close"} => Has(t) = Handle
           /\ Has(t) \subseteq Handle
BY DEF Has

\* The same after a step.
LEMMA HasNext ==
    ASSUME NEW t \in Thread
    PROVE  /\ pc'[t] = "none" => Has(t)' = {}
           /\ pc'[t] = "open" =>
                \A h \in Handle : h \in Has(t)' <=> \E i \in 1 .. at'[t] - 1 : Opens[i] = h
           /\ pc'[t] = "close" =>
                \A h \in Handle : h \in Has(t)' <=> \E i \in at'[t] .. 5 : Closes[i] = h
           /\ pc'[t] \notin {"none", "open", "close"} => Has(t)' = Handle
           /\ Has(t)' \subseteq Handle
BY DEF Has

\* A step of a thread that never met another, if it does not fail, goes through
\* handles that are open and keeps its books.
LEMMA OwnStep ==
    ASSUME TypeOK, ~failed, ~failed', NEW t \in Thread, Own(t), camera_thread(t)
    PROVE  run' = "up" /\ Own(t)'
<1>1. /\ pc \in [Thread -> PC] /\ at \in [Thread -> 1 .. 5] /\ at[t] \in 1 .. 5
      /\ handle \in [Handle -> Thread \cup {NULL}] /\ alive \in [Handle -> SUBSET Thread]
      /\ run = "up" /\ pc[t] \notin {"open", "close"} => at[t] = 1
  BY OpensAll DEF TypeOK
<1>2. ASSUME pc[t] \notin {"none", "open", "close"},
             UNCHANGED <<alive, handle>>,
             NEW where \in PC \ {"none", "open", "close"},
             pc' = [pc EXCEPT ![t] = where]
      PROVE  Own(t)'
  <2>1. Has(t) = Handle /\ Has(t)' = Handle
    BY <1>1, <1>2, HasAt, HasNext
  <2> QED BY <1>2, <2>1 DEF Own
<1> USE DEF At, Go, Fail, Move
<1>3. CASE Open(t)
  <2>1. Opens[at[t]] \in Handle /\ pc[t] = "open" /\ run = "up"
    BY <1>1, <1>3, OpensAll DEF Open
  <2>2. /\ handle' = [handle EXCEPT ![Opens[at[t]]] = t]
        /\ alive' = [alive EXCEPT ![Opens[at[t]]] = @ \cup {t}]
        /\ at[t] # 5 => at' = [at EXCEPT ![t] = @ + 1]
        /\ run' = run
        /\ pc' = [pc EXCEPT ![t] = IF at[t] = 5 THEN "started" ELSE "open"]
    BY <1>3, OpensAll DEF Open, After
  <2>3. \A h \in Handle : h \in Has(t) <=> \E i \in 1 .. at[t] - 1 : Opens[i] = h
    BY <2>1, HasAt
  <2>4. \A h \in Handle : h \in Has(t)' <=> \E i \in 1 .. at[t] : Opens[i] = h
    <3>1. CASE at[t] = 5
      BY <1>1, <2>2, <3>1, OpensAll, HasNext
    <3>2. CASE at[t] # 5
      BY <1>1, <2>2, <3>2, HasNext
    <3> QED BY <3>1, <3>2
  <2>5. \A h \in Handle : h \in Has(t)' <=> h \in Has(t) \/ h = Opens[at[t]]
    BY <1>1, <2>3, <2>4
  <2>6. \A h \in Handle : t \in alive'[h] <=> h \in Has(t)'
    BY <1>1, <2>1, <2>2, <2>5 DEF Own
  <2>7. \A h \in Has(t)' : handle'[h] = t
    BY <1>1, <2>1, <2>2, <2>5, HasNext DEF Own
  <2> QED BY <2>1, <2>2, <2>6, <2>7 DEF Own
<1>4. CASE CaptureStop(t)
  <2>1. pc[t] = "stop" /\ run = "up"
    BY <1>4 DEF CaptureStop
  <2>2. Has(t) = Handle /\ "cap" \in Handle
    BY <2>1, HasAt DEF Handle
  <2>3. handle["cap"] \in alive["cap"]
    BY <2>2 DEF Own
  <2>4. /\ run' = run /\ pc' = [pc EXCEPT ![t] = "close"]
        /\ UNCHANGED <<at, alive, handle>>
    BY <1>4, <2>3 DEF CaptureStop, Using, local, library
  <2>5. pc'[t] = "close" /\ at'[t] = 1
    BY <1>1, <2>1, <2>4
  <2>6. Has(t)' = Handle
    BY <2>5, ClosesAll, HasNext
  <2> QED BY <2>1, <2>2, <2>4, <2>6 DEF Own
<1>5. CASE Close(t)
  <2>1. Closes[at[t]] \in Handle /\ pc[t] = "close" /\ run = "up"
    BY <1>1, <1>5, ClosesAll DEF Close
  <2>2. \A h \in Handle : h \in Has(t) <=> \E i \in at[t] .. 5 : Closes[i] = h
    BY <2>1, HasAt
  <2>3. handle[Closes[at[t]]] = t /\ t \in alive[Closes[at[t]]]
    BY <1>1, <2>1, <2>2 DEF Own
  <2>4. /\ alive' = [alive EXCEPT ![Closes[at[t]]] = @ \ {t}]
        /\ at[t] # 5 => at' = [at EXCEPT ![t] = @ + 1]
        /\ handle' = handle /\ run' = run
        /\ pc' = [pc EXCEPT ![t] = IF at[t] = 5 THEN "none" ELSE "close"]
    <3>1. /\ alive' = [alive EXCEPT ![Closes[at[t]]] = @ \ {handle[Closes[at[t]]]}]
          /\ at' = [at EXCEPT ![t] = After(@, Closes)] /\ handle' = handle
          /\ run' = run
          /\ pc' = [pc EXCEPT ![t] = IF at[t] = 5 THEN "none" ELSE "close"]
      BY <1>5, <2>3, ClosesAll DEF Close, Using
    <3> QED BY <2>3, <3>1, ClosesAll DEF After
  <2>5. \A h \in Handle : h \in Has(t)' <=> \E i \in at[t] + 1 .. 5 : Closes[i] = h
    <3>1. CASE at[t] = 5
      BY <1>1, <2>4, <3>1, HasNext
    <3>2. CASE at[t] # 5
      BY <1>1, <2>4, <3>2, HasNext
    <3> QED BY <3>1, <3>2
  <2>6. \A h \in Handle : h \in Has(t)' <=> h \in Has(t) /\ h # Closes[at[t]]
    BY <1>1, <2>1, <2>2, <2>5, ClosesAll
  <2>7. \A h \in Handle : t \in alive'[h] <=> h \in Has(t)'
    BY <1>1, <2>1, <2>4, <2>6 DEF Own
  <2> QED BY <2>1, <2>4, <2>6, <2>7, HasNext DEF Own
<1>6. CASE Loop(t) \/ Send(t)
  <2>1. /\ pc[t] \in {"loop", "send"} /\ UNCHANGED <<alive, handle>> /\ run' = "up"
        /\ \E where \in {"capture", "stop", "loop", "send"} :
              pc' = [pc EXCEPT ![t] = where]
    BY <1>6 DEF Loop, Send, library
  <2> QED BY <1>2, <2>1 DEF PC
<1>7. CASE CaptureStart(t) \/ Capture(t) \/ Convert(t) \/ Headers(t) \/ Encode(t)
  <2>1. pc[t] \in {"started", "capture", "convert", "headers", "encode"} /\ run = "up"
    BY <1>7 DEF CaptureStart, Capture, Convert, Headers, Encode
  <2>2. \A h \in Handle : handle[h] \in alive[h]
    BY <2>1, HasAt DEF Own
  <2>3. {"cap", "cvt", "enc", "pac", "tms"} \subseteq Handle
    BY DEF Handle
  <2>4. UNCHANGED <<alive, handle>>
    BY <1>7 DEF CaptureStart, Capture, Convert, Headers, Encode, library
  <2>5. /\ run' = "up"
        /\ \E where \in {"loop", "convert", "headers", "encode", "send", "stop"} :
              pc' = [pc EXCEPT ![t] = where]
    <3>1. CASE CaptureStart(t)
      BY <2>1, <2>2, <2>3, <3>1 DEF CaptureStart, Using
    <3>2. CASE Capture(t)
      BY <2>1, <2>2, <2>3, <3>2 DEF Capture, Using
    <3>3. CASE Convert(t)
      BY <2>1, <2>2, <2>3, <3>3 DEF Convert, Using
    <3>4. CASE Headers(t)
      BY <2>1, <2>2, <2>3, <3>4 DEF Headers, Using
    <3>5. CASE Encode(t)
      BY <2>1, <2>2, <2>3, <3>5 DEF Encode, Using
    <3> QED BY <1>7, <3>1, <3>2, <3>3, <3>4, <3>5
  <2> QED BY <1>2, <2>1, <2>4, <2>5 DEF PC
<1> QED BY <1>3, <1>4, <1>5, <1>6, <1>7 DEF camera_thread

\* A thread opens for itself alone.
LEMMA OpensForItself ==
    ASSUME TypeOK, NEW t \in Thread, camera_thread(t), NEW h \in Handle
    PROVE  alive'[h] \subseteq alive[h] \cup {t}
<1>1. CASE Open(t)
  BY <1>1 DEF Open, TypeOK
<1>2. CASE Close(t)
  BY <1>2 DEF Close, TypeOK
<1>3. CASE ~Open(t) /\ ~Close(t)
  <2>1. \/ CaptureStart(t) \/ Loop(t) \/ Capture(t) \/ Convert(t)
        \/ Headers(t) \/ Encode(t) \/ Send(t) \/ CaptureStop(t)
    BY <1>3 DEF camera_thread
  <2>2. alive' = alive
    BY <2>1 DEF CaptureStart, Loop, Capture, Convert, Headers, Encode, Send,
                CaptureStop, library
  <2> QED BY <2>2
<1> QED BY <1>1, <1>2, <1>3

\* Handles that go through what is not open stop the program where it is.
LEMMA UndefStays ==
    ASSUME TypeOK, NEW t \in Thread, camera_thread(t)
    PROVE  run' = "up" \/ (run' = "undef" /\ pc' = pc)
<1>1. Moved(t)
  BY ThreadMoves
<1> QED BY <1>1 DEF Moved, Go, Fail, Move

-----------------------------------------------------------------------------
\* Two threads that run at once have met.
LEMMA MeetingNext ==
    ASSUME TypeOK, Meeting, [Next]_vars
    PROVE  Meeting'
<1> USE DEF Meeting
<1>1. CASE RecvRestart \/ RecvStart
  BY <1>1 DEF RecvRestart, RecvStart, ghosts, Running
<1>2. CASE StartThread
  <2>1. CASE UNCHANGED <<pc, met>>
    BY <2>1 DEF Running
  <2>2. ASSUME NEW t \in Thread, CreateThread(t) PROVE Meeting'
    <3>1. Running' = Running \cup {t}
      BY <2>2 DEF CreateThread, Unused, Running, TypeOK
    <3>2. Running = {} \/ met' = met \cup Running \cup {t}
      BY <2>2 DEF CreateThread
    <3> QED BY <3>1, <3>2
  <2> QED BY <1>2, <2>1, <2>2 DEF StartThread
<1>3. CASE RecvFails
  BY <1>3 DEF RecvFails, Running
<1>4. ASSUME NEW t \in Thread, camera_thread(t) PROVE Meeting'
  BY <1>4, ThreadRuns, ThreadMoves
<1>5. CASE UNCHANGED vars
  BY <1>5 DEF vars, ghosts, Running
<1> QED BY <1>1, <1>2, <1>3, <1>4, <1>5 DEF Next

\* What failed stays failed.
LEMMA FailedStays ==
    ASSUME failed, [Next]_vars, TypeOK
    PROVE  failed'
<1>1. CASE RecvRestart \/ RecvStart \/ StartThread \/ RecvFails
  BY <1>1 DEF RecvRestart, RecvStart, StartThread, RecvFails
<1>2. ASSUME NEW t \in Thread, camera_thread(t) PROVE failed'
  BY <1>2, ThreadMoves DEF Moved, Go, Fail
<1>3. CASE UNCHANGED vars
  BY <1>3 DEF vars
<1> QED BY <1>1, <1>2, <1>3 DEF Next

\* The books depend on where the threads are and on the library alone.
LEMMA BookedSame ==
    ASSUME Booked, UNCHANGED <<pc, at, handle, alive, met, failed, run>>
    PROVE  Booked'
BY DEF Booked, Own, Has, Running

\* The thread that is created has nothing open; those it meets are no concern.
LEMMA BookedStart ==
    ASSUME TypeOK, Booked, ~failed, run = "up", NEW t \in Thread, CreateThread(t),
           UNCHANGED <<library, failed, run>>
    PROVE  Booked'
<1>1. /\ pc[t] = "none" /\ \A h \in Handle : t \notin alive[h]
      /\ pc' = [pc EXCEPT ![t] = "open"] /\ UNCHANGED <<at, alive, handle>>
      /\ met \ {t} \subseteq met'
  BY DEF CreateThread, Unused, local, library
<1>2. pc'[t] = "open" /\ at'[t] = 1 /\ \A s \in Thread : s # t => pc'[s] = pc[s]
  BY <1>1 DEF TypeOK
<1>3. Own(t)'
  <2>1. Has(t)' = {}
    BY <1>2, HasNext
  <2> QED BY <1>1, <2>1 DEF Own
<1>4. \A s \in Thread \ met' : s # t => Own(s)'
  <2> SUFFICES ASSUME NEW s \in Thread \ met', s # t PROVE Own(s)'
    OBVIOUS
  <2>1. Own(s)
    BY <1>1 DEF Booked
  <2>2. Has(s)' = Has(s)
    BY <1>1, <1>2 DEF Has
  <2> QED BY <1>1, <2>1, <2>2 DEF Own
<1> QED BY <1>3, <1>4 DEF Booked

\* The books are kept, whatever the threads that met do.
LEMMA BookedNext ==
    ASSUME TypeOK, Meeting, Booked, [Next]_vars
    PROVE  Booked'
<1> SUFFICES ASSUME ~failed, ~failed' PROVE Booked'
  BY FailedStays DEF Booked
<1>1. CASE RecvRestart \/ RecvStart
  <2>1. UNCHANGED <<pc, at, handle, alive, met, failed, run>>
    BY <1>1 DEF RecvRestart, RecvStart, local, library, ghosts
  <2> QED BY <2>1, BookedSame
<1>2. CASE StartThread
  <2>1. run = "up" /\ UNCHANGED <<library, run>>
    BY <1>2 DEF StartThread
  <2>2. PICK t \in Thread : CreateThread(t) /\ UNCHANGED failed
    BY <1>2 DEF StartThread
  <2> QED BY <2>1, <2>2, BookedStart
<1>3. CASE RecvFails
  BY <1>3 DEF RecvFails
<1>4. ASSUME NEW t \in Thread, camera_thread(t) PROVE Booked'
  <2>1. met' = met /\ t \in Running /\ \A s \in Thread : s # t => pc'[s] = pc[s]
    BY <1>4, ThreadRuns, ThreadMoves
  <2>2. ASSUME NEW s \in Thread \ met, s # t, t \notin met PROVE Own(s)'
    <3>1. pc[s] = "none" /\ pc'[s] = "none"
      BY <2>1, <2>2 DEF Meeting, Running
    <3>2. \A h \in Handle : s \notin alive'[h]
      BY <1>4, <2>2, <3>1, HasAt, OpensForItself DEF Booked, Own
    <3> QED BY <3>1, <3>2, HasNext DEF Own
  <2>3. CASE t \notin met
    <3>1. run' = "up" /\ Own(t)'
      BY <1>4, <2>3, OwnStep DEF Booked
    <3> QED BY <2>1, <2>2, <2>3, <3>1 DEF Booked
  <2>4. CASE t \in met
    <3>1. ASSUME NEW s \in Thread \ met PROVE Own(s)'
      <4>1. pc[s] = "none" /\ pc'[s] = "none"
        BY <2>1, <2>4, <3>1 DEF Meeting, Running
      <4>2. \A h \in Handle : s \notin alive'[h]
        BY <1>4, <2>4, <3>1, <4>1, HasAt, OpensForItself DEF Booked, Own
      <4> QED BY <4>1, <4>2, HasNext DEF Own
    <3>2. run' = "up" \/ (run' = "undef" /\ t \in Running')
      BY <1>4, <2>1, UndefStays DEF Running
    <3> QED BY <2>1, <2>4, <3>1, <3>2 DEF Booked
  <2> QED BY <2>3, <2>4
<1>5. CASE UNCHANGED vars
  <2>1. UNCHANGED <<pc, at, handle, alive, met, failed, run>>
    BY <1>5 DEF vars, local, library, ghosts
  <2> QED BY <2>1, BookedSame
<1> QED BY <1>1, <1>2, <1>3, <1>4, <1>5 DEF Next

LEMMA BookedInvariant == Spec => [](TypeOK /\ Booked)
<1>1. Init => Meeting /\ Booked
  <2> SUFFICES ASSUME Init PROVE Meeting /\ Booked
    OBVIOUS
  <2>1. Running = {} /\ run = "up" /\ \A t \in Thread : pc[t] = "none"
    BY DEF Init, Running
  <2>2. \A t \in Thread : Own(t)
    BY <2>1, HasAt DEF Init, Own
  <2> QED BY <2>1, <2>2 DEF Meeting, Booked
<1>2. /\ TypeOK /\ Meeting /\ Booked /\ [Next]_vars
      => Meeting' /\ Booked'
  BY MeetingNext, BookedNext
<1> QED BY <1>1, <1>2, TypeCorrect, PTL DEF Spec

\* While nothing fails only a thread that has run beside another one goes through
\* a handle that is not open.
THEOREM HandlesStayOpen == Spec => []HandlesOpen
<1>1. Booked => HandlesOpen
  BY DEF Booked, HandlesOpen
<1> QED BY <1>1, BookedInvariant, PTL

\* While nothing fails a thread that never ran beside another one leaves nothing
\* open.
THEOREM ThreadsCloseAll == Spec => []NothingLeftOpen
<1>1. Booked => NothingLeftOpen
  BY HasAt DEF Booked, Own, NothingLeftOpen
<1> QED BY <1>1, BookedInvariant, PTL
=============================================================================
