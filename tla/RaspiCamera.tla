----------------------------- MODULE RaspiCamera -----------------------------
(***************************************************************************)
(* The camera client src/src/raspi.cpp: its main thread takes              *)
(* notifications from the server and starts a camera thread for each       *)
(* request to send; the threads share, without a lock, the flags           *)
(* camera_status and remotefd and the handles of the Camkit library.       *)
(*                                                                         *)
(* Each access to a shared variable and each call of the library is a step *)
(* of its own.  What goes through a handle that is not open is undefined:  *)
(* run is then "undef".  Left out: the pictures, and how a frame is cut    *)
(* into packets beyond their number.                                       *)
(***************************************************************************)
EXTENDS Integers, Sequences

CONSTANTS
    Thread, \* camera threads that may exist at once
    Remote, \* descriptors the server names in a request to send
    CHUNKS, \* bound: packets a frame is cut into
    Faults  \* may the library, the socket and pthread_create fail?

ASSUME ChunksAssumption == CHUNKS \in Nat \ {0}

NULL == "NULL"

Handle == {"cap", "cvt", "enc", "pac", "tms"}

\* The order in which init_camera opens them.
Opens == <<"cap", "cvt", "enc", "pac", "tms">>

\* Mutant: the capture handle is closed twice, the timestamp handle never.
ClosesCapTwice == <<"pac", "enc", "cvt", "cap", "cap">>

\* Mutant: the convert handle is forgotten.
ClosesNoConvert == <<"pac", "enc", "cap", "tms">>

\* The order in which camera_thread closes them.
Closes == <<"pac", "enc", "cvt", "cap", "tms">>

VARIABLES
    camera_status, \* "CAMERA_START" or "CAMERA_STOP"
    remotefd,      \* where frames are to go, 0 at first
    main,          \* "recv": in recv_pkg; "start": between the two assignments
    ntf,           \* the notification main took last: [cmd, fd]
    pc,            \* where each thread is
    at,            \* the place of the next handle it opens or closes in the
                   \* order, 1 while it does neither
    left,          \* packets of the current frame it has still to send
    fd,            \* pkg.stHead.fd of the current frame
    viewer,        \* ghost: the descriptors in the request the thread is for
                   \* and in those taken since
    handle,        \* the global handles: the thread that opened it, or NULL
    alive,         \* for each kind of handle, the threads whose one is open
    met,           \* ghost: threads that have run beside another one
    failed,        \* ghost: has the library, the socket or the system failed?
    run            \* "up", "exit" or "undef"

shared == <<camera_status, remotefd>>
local == <<at, left, fd>>
library == <<handle, alive>>
ghosts == <<viewer, met>>
vars == <<shared, main, ntf, pc, local, library, ghosts, failed, run>>

PC == {"none", "open", "started", "loop", "capture", "convert", "headers",
       "encode", "send", "stop", "close"}

Init ==
    /\ camera_status = "CAMERA_START"
    /\ remotefd = 0
    /\ main = "recv"
    /\ ntf = [cmd |-> "NONE", fd |-> 0]
    /\ pc = [t \in Thread |-> "none"]
    /\ at = [t \in Thread |-> 1]
    /\ left = [t \in Thread |-> 0]
    /\ fd = [t \in Thread |-> 0]
    /\ viewer = [t \in Thread |-> {}]
    /\ handle = [h \in Handle |-> NULL]
    /\ alive = [h \in Handle |-> {}]
    /\ met = {}
    /\ failed = FALSE
    /\ run = "up"

Running == {t \in Thread : pc[t] # "none"}

-----------------------------------------------------------------------------
(* The main thread.                                                        *)

RecvRestart ==
    /\ run = "up" /\ main = "recv"
    /\ ntf' = [cmd |-> "RESTART_CLIENT_NTF", fd |-> 0]
    /\ camera_status' = "CAMERA_STOP"
    /\ UNCHANGED <<remotefd, main, pc, local, library, ghosts, failed, run>>

RecvStart ==
    /\ run = "up" /\ main = "recv"
    /\ \E f \in Remote : ntf' = [cmd |-> "START_SEND_DATA_NTF", fd |-> f]
    /\ camera_status' = "CAMERA_START"
    /\ main' = "start"
    /\ UNCHANGED <<remotefd, pc, local, library, ghosts, failed, run>>

\* A thread of which nothing is left, not even a handle.
Unused(t) == pc[t] = "none" /\ \A h \in Handle : t \notin alive[h]

CreateThread(t) ==
    /\ Unused(t)
    /\ pc' = [pc EXCEPT ![t] = "open"]
    /\ met' = IF Running = {} THEN met \ {t} ELSE met \cup Running \cup {t}
    /\ UNCHANGED local

\* The request is noted with the threads of T, a new one has no other.
Asked(T) ==
    viewer' = [t \in Thread |-> IF t \notin T THEN viewer[t]
                               ELSE IF t \in Running THEN viewer[t] \cup {ntf.fd}
                               ELSE {ntf.fd}]

\* Mutant: the thread is created before remotefd is assigned.
StartThreadFirst ==
    /\ run = "up" /\ main \in {"start", "assign"}
    /\ IF main = "start"
       THEN /\ \E t \in Thread : CreateThread(t) /\ Asked(Running \cup {t})
            /\ main' = "assign"
            /\ UNCHANGED remotefd
       ELSE /\ remotefd' = ntf.fd
            /\ main' = "recv"
            /\ UNCHANGED <<pc, local, ghosts>>
    /\ UNCHANGED <<camera_status, ntf, library, failed, run>>

\* pthread_create returns a positive number when it fails, which main takes
\* for success.
StartThread ==
    /\ run = "up" /\ main = "start"
    /\ remotefd' = ntf.fd
    /\ \/ /\ \E t \in Thread : CreateThread(t) /\ Asked(Running \cup {t})
          /\ UNCHANGED failed
       \/ /\ Faults /\ failed' = TRUE
          /\ Asked(Running)
          /\ UNCHANGED <<pc, local, met>>
    /\ main' = "recv"
    /\ UNCHANGED <<camera_status, ntf, library, run>>

\* recv_pkg failed: main returns, and with it the process ends.
RecvFails ==
    /\ run = "up" /\ main = "recv"
    /\ Faults
    /\ failed' = TRUE
    /\ run' = "exit"
    /\ pc' = [t \in Thread |-> "none"]
    /\ alive' = [h \in Handle |-> {}]
    /\ UNCHANGED <<shared, main, ntf, local, handle, ghosts>>

-----------------------------------------------------------------------------
(* A camera thread.                                                        *)

At(t, where) == run = "up" /\ pc[t] = where

Move(t, where) ==
    /\ pc' = [pc EXCEPT ![t] = where]
    /\ run' = run

Go(t, where) == Move(t, where) /\ UNCHANGED failed

Fail(t, where) == Faults /\ failed' = TRUE /\ Move(t, where)

\* A call of the library through the handles of kinds H, then A.
Using(H, A) ==
    IF \A h \in H : handle[h] \in alive[h] THEN A
    ELSE run' = "undef" /\ UNCHANGED <<pc, failed>>

\* The place after i in an order.
After(i, order) == IF i = Len(order) THEN 1 ELSE i + 1

\* init_camera, one open after the other.  Its result is ignored, and so is a
\* failure to open the timestamp handle.
Open(t) ==
    /\ At(t, "open")
    /\ LET h == Opens[at[t]]
           Opened == /\ handle' = [handle EXCEPT ![h] = t]
                     /\ alive' = [alive EXCEPT ![h] = @ \cup {t}]
           Refused == handle' = [handle EXCEPT ![h] = NULL] /\ UNCHANGED alive
       IN  \/ /\ Opened
              /\ at' = [at EXCEPT ![t] = After(@, Opens)]
              /\ Go(t, IF at[t] = Len(Opens) THEN "started" ELSE "open")
           \/ /\ Refused
              /\ at' = [at EXCEPT ![t] = 1]
              /\ Fail(t, "started")
    /\ UNCHANGED <<shared, main, ntf, left, fd>>

CaptureStart(t) ==
    /\ At(t, "started")
    /\ Using({"cap"}, Go(t, "loop"))
    /\ UNCHANGED <<shared, main, ntf, local, library>>

Loop(t) ==
    /\ At(t, "loop")
    /\ Go(t, IF camera_status = "CAMERA_START" THEN "capture" ELSE "stop")
    /\ UNCHANGED <<shared, main, ntf, local, library>>

\* No data yet: round the loop again.  Errors leave the loop.
Capture(t) ==
    /\ At(t, "capture")
    /\ Using({"cap"}, \/ Go(t, "convert")
                      \/ Go(t, "loop")
                      \/ Fail(t, "stop"))
    /\ UNCHANGED <<shared, main, ntf, local, library>>

Convert(t) ==
    /\ At(t, "convert")
    /\ Using({"cvt", "tms"}, \/ Go(t, "headers")
                             \/ Go(t, "loop")
                             \/ Fail(t, "stop"))
    /\ UNCHANGED <<shared, main, ntf, local, library>>

\* The headers are packed and sent with stHead.fd = 0.  If that fails the
\* thread returns at once.
Headers(t) ==
    /\ At(t, "headers")
    /\ Using({"enc", "pac"}, \/ Go(t, "encode")
                             \/ Fail(t, "none"))
    /\ UNCHANGED <<shared, main, ntf, local, library>>

\* remotefd is read once for all packets of the frame.
Encode(t) ==
    /\ At(t, "encode")
    /\ \/ /\ Using({"enc"}, Go(t, "send"))
          /\ fd' = [fd EXCEPT ![t] = remotefd]
          /\ \E n \in 1 .. CHUNKS : left' = [left EXCEPT ![t] = n]
       \/ /\ Using({"enc"}, Go(t, "loop") \/ Fail(t, "stop"))
          /\ UNCHANGED <<left, fd>>
    /\ UNCHANGED <<shared, main, ntf, at, library>>

\* Mutant: byte_left >= 0 in the loop's condition, one packet too many.
SendOneMore(t) ==
    /\ At(t, "send")
    /\ left' = [left EXCEPT ![t] = @ - 1]
    /\ Go(t, IF left[t] = 0 THEN "loop" ELSE "send")
    /\ UNCHANGED <<shared, main, ntf, at, fd, library>>

\* One packet of the frame: send_pkg, which returns when all of it was sent. The
\* packet's header ends with the frame.
Send(t) ==
    /\ At(t, "send")
    /\ \/ /\ left' = [left EXCEPT ![t] = @ - 1]
          /\ fd' = IF left[t] = 1 THEN [fd EXCEPT ![t] = 0] ELSE fd
          /\ Go(t, IF left[t] = 1 THEN "loop" ELSE "send")
       \/ /\ left' = [left EXCEPT ![t] = 0]
          /\ fd' = [fd EXCEPT ![t] = 0]
          /\ Fail(t, "none")
    /\ UNCHANGED <<shared, main, ntf, at, library>>

CaptureStop(t) ==
    /\ At(t, "stop")
    /\ Using({"cap"}, Go(t, "close"))
    /\ UNCHANGED <<shared, main, ntf, local, library>>

Close(t) ==
    /\ At(t, "close")
    /\ LET h == Closes[at[t]]
       IN  /\ Using({h}, Go(t, IF at[t] = Len(Closes) THEN "none" ELSE "close"))
           /\ alive' = [alive EXCEPT ![h] = @ \ {handle[h]}]
           /\ at' = [at EXCEPT ![t] = After(@, Closes)]
    /\ UNCHANGED <<shared, main, ntf, left, fd, handle>>

camera_thread(t) ==
    /\ \/ Open(t) \/ CaptureStart(t) \/ Loop(t) \/ Capture(t) \/ Convert(t)
       \/ Headers(t) \/ Encode(t) \/ Send(t) \/ CaptureStop(t) \/ Close(t)
    /\ viewer' = IF pc'[t] = "none" THEN [viewer EXCEPT ![t] = {}] ELSE viewer
    /\ met' = met

Next ==
    \/ RecvRestart
    \/ RecvStart
    \/ StartThread
    \/ RecvFails
    \/ \E t \in Thread : camera_thread(t)

Spec == Init /\ [][Next]_vars

\* The system runs every thread and the socket takes what is sent.
FairSpec ==
    Spec /\ WF_vars(StartThread) /\ \A t \in Thread : WF_vars(camera_thread(t))

-----------------------------------------------------------------------------
TypeOK ==
    /\ camera_status \in {"CAMERA_START", "CAMERA_STOP"}
    /\ remotefd \in Remote \cup {0}
    /\ main \in {"recv", "start"}
    /\ ntf \in [cmd : {"NONE", "RESTART_CLIENT_NTF", "START_SEND_DATA_NTF"},
                fd : Remote \cup {0}]
    /\ pc \in [Thread -> PC]
    /\ at \in [Thread -> 1 .. Len(Opens)]
    /\ \A t \in Thread :
         run = "up" /\ pc[t] \notin {"open", "close"} => at[t] = 1
    /\ left \in [Thread -> 0 .. CHUNKS]
    /\ fd \in [Thread -> Remote \cup {0}]
    /\ viewer \in [Thread -> SUBSET Remote]
    /\ handle \in [Handle -> Thread \cup {NULL}]
    /\ alive \in [Handle -> SUBSET Thread]
    /\ met \subseteq Thread
    /\ failed \in BOOLEAN
    /\ run \in {"up", "exit", "undef"}

\* While nothing fails, a call goes through a handle that is not open only in a
\* thread that has run beside another one.  What such threads have overwritten,
\* lost or closed does no harm to the threads created when they are gone.
HandlesOpen == run = "undef" => failed \/ Running \cap met # {}

\* While nothing fails, a thread that never ran beside another leaves nothing
\* open, so that the device can be opened again for the next viewer.
NothingLeftOpen ==
    ~failed => \A t \in Thread \ met :
                 pc[t] = "none" => \A h \in Handle : t \notin alive[h]

\* A frame goes to the viewer for whose request its thread was created, or to
\* one that asked while the thread ran: never to an earlier viewer, nor to 0.
ToItsViewer == \A t \in Thread : pc[t] = "send" => fd[t] \in viewer[t]

-----------------------------------------------------------------------------
(* What a message of the code says and the code does not keep.             *)

\* raspi.cpp:493 "stop pthread": a thread that runs when a stop is taken ends.
StopEndsThread ==
    \A t \in Thread :
        (pc[t] # "none" /\ ntf.cmd = "RESTART_CLIENT_NTF") ~>
            (pc[t] = "none" \/ run # "up")
=============================================================================
