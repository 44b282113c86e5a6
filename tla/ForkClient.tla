----------------------------- MODULE ForkClient -----------------------------
(***************************************************************************)
(* The older camera client src/src/client.cpp.  For each request to send   *)
(* it forks a child, which forks the program that writes the video into a  *)
(* pipe and sends what it reads to the server; a stop is a SIGHUP to the   *)
(* child.  All these processes share one connection and one process group. *)
(*                                                                         *)
(* A child whose pipe ends, and a child whose program could not be         *)
(* started, go on in the loop of main, as readers of the connection beside *)
(* the first process.  Packets are sent and received whole (PacketIO has   *)
(* the loops of send_pkg and recv_pkg).                                    *)
(***************************************************************************)
EXTENDS Integers, Sequences

CONSTANTS
    PROCS, \* bound: processes the system lets the client have, dead ones
           \* included, for it never waits for a child
    QUEUE  \* bound: notifications on their way

ASSUME ProcsAssumption == PROCS \in Nat \ {0}

ASSUME QueueAssumption == QUEUE \in Nat \ {0}

\* Process 1 is the one that connected.  As a pid 0 is the process group.
Proc == 1 .. PROCS

Cmd == {"NONE", "REGISTER_CLIENT_RES", "START_SEND_DATA_NTF",
        "RESTART_CLIENT_NTF"}

VARIABLES
    proc,  \* the processes
    forks, \* 1 .. forks exist or have existed
    in,    \* the commands of the packets nobody has received
    cut,   \* has the connection ended?
    last,  \* the last packet the server sent
    calm   \* ghost: have starts and stops alternated and all calls worked?

net == <<in, cut, last>>
vars == <<proc, forks, net, calm>>

\* "reg": waits for the answer to its registration; "recv": at the top of the
\* loop; "next": waits for the packet after a stop; "camera": runs ./out.
PC == {"none", "reg", "recv", "next", "fork", "spawn", "exec", "stream",
       "camera", "dead"}

\* cmd is recvpkg.stHead.cmd, hook says whether atexit_func is registered; pipes
\* are the pipes, named after the processes that read them, of which the process
\* holds an end to write to.
Process == [pc : PC, cmd : Cmd, child_pid : Proc \cup {0},
            camera_pid : Proc \cup {0}, hook : BOOLEAN, pipes : SUBSET Proc]

Blank(where) == [pc |-> where, cmd |-> "NONE", child_pid |-> 0,
                 camera_pid |-> 0, hook |-> FALSE, pipes |-> {}]

Init ==
    /\ proc = [p \in Proc |-> Blank(IF p = 1 THEN "reg" ELSE "none")]
    /\ forks = 1
    /\ in = <<>>
    /\ cut = FALSE
    /\ last = "NONE"
    /\ calm = TRUE

At(p, where) == proc[p].pc = where

Alive == {p \in Proc : proc[p].pc \notin {"none", "dead"}}

\* The processes a kill(pid, ...) ends: 0 is the whole group.
Target(pid) == IF pid = 0 THEN Alive ELSE Alive \cap {pid}

\* f without the processes of P.
Without(f, P) == [p \in Proc |-> IF p \in P THEN Blank("dead") ELSE f[p]]

\* The pipe that p reads can still be written to.
Held(p) == \E q \in Proc : p \in proc[q].pipes

Goto(p, where) == proc' = [proc EXCEPT ![p].pc = where]

\* exit(), or a return from main: atexit_func kills the camera.
Exit(p) ==
    proc' = Without(proc, {p} \cup IF proc[p].hook
                                   THEN Target(proc[p].camera_pid) ELSE {})

-----------------------------------------------------------------------------
(* The server and the network.                                             *)

Orderly(n) ==
    n = CASE last = "NONE" -> "REGISTER_CLIENT_RES"
          [] last = "START_SEND_DATA_NTF" -> "RESTART_CLIENT_NTF"
          [] OTHER -> "START_SEND_DATA_NTF"

Notify ==
    /\ ~cut /\ Len(in) < QUEUE
    /\ \E n \in Cmd \ {"NONE"} :
         /\ in' = Append(in, n)
         /\ last' = n
         /\ calm' = (calm /\ Orderly(n))
    /\ UNCHANGED <<proc, forks, cut>>

\* What was sent before can still be received.
Cut ==
    /\ ~cut
    /\ cut' = TRUE
    /\ UNCHANGED <<proc, forks, in, last, calm>>

-----------------------------------------------------------------------------
(* main, in whatever process it runs.                                      *)

\* recv_pkg returns the packet at the head of the queue and p goes on there,
\* without the processes of P.
Receive(p, where, P) ==
    /\ in' = Tail(in)
    /\ proc' = Without([proc EXCEPT ![p].cmd = Head(in), ![p].pc = where], P)
    /\ UNCHANGED <<forks, cut, last, calm>>

RecvRegistered(p) ==
    /\ At(p, "reg") /\ in # <<>>
    /\ Receive(p, "recv", IF Head(in) = "REGISTER_CLIENT_RES" THEN {} ELSE {p})

RecvStart(p) ==
    /\ At(p, "recv") /\ in # <<>> /\ Head(in) = "START_SEND_DATA_NTF"
    /\ Receive(p, "fork", {})

\* Mutant: the child is not stopped.
RecvRestartKillsNone(p) ==
    /\ At(p, "recv") /\ in # <<>> /\ Head(in) = "RESTART_CLIENT_NTF"
    /\ Receive(p, "next", {})

\* Mutant: the next packet is not waited for.
RecvRestartForksAtOnce(p) ==
    /\ At(p, "recv") /\ in # <<>> /\ Head(in) = "RESTART_CLIENT_NTF"
    /\ Receive(p, "fork", Target(proc[p].child_pid))

\* A stop: SIGHUP to child_pid, whatever that is, then one more packet.
RecvRestart(p) ==
    /\ At(p, "recv") /\ in # <<>> /\ Head(in) = "RESTART_CLIENT_NTF"
    /\ Receive(p, "next", Target(proc[p].child_pid))

RecvOther(p) ==
    /\ At(p, "recv") /\ in # <<>>
    /\ Head(in) \notin {"START_SEND_DATA_NTF", "RESTART_CLIENT_NTF"}
    /\ Receive(p, "recv", {})

\* Mutant: the packet after a stop is looked at in the next round only.
RecvNextContinues(p) == At(p, "next") /\ in # <<>> /\ Receive(p, "recv", {})

\* The packet after a stop is taken for the next start whatever it is.
RecvNext(p) == At(p, "next") /\ in # <<>> /\ Receive(p, "fork", {})

RecvFails(p) ==
    /\ At(p, "reg") \/ At(p, "recv") \/ At(p, "next")
    /\ cut /\ in = <<>>
    /\ Exit(p)
    /\ UNCHANGED <<forks, net, calm>>

-----------------------------------------------------------------------------
(* fork(): the new process is a copy of p, but for what fork() returned.   *)

\* Mutant: the parent does not keep the pid.
ForkForgetsPid(p) ==
    /\ At(p, "fork") /\ forks < PROCS
    /\ forks' = forks + 1
    /\ LET starts == proc[p].cmd = "START_SEND_DATA_NTF"
           child == [proc[p] EXCEPT !.pc = IF starts THEN "spawn" ELSE "recv",
                                    !.child_pid = 0]
       IN  proc' = [proc EXCEPT ![p].pc = "recv", ![forks + 1] = child]
    /\ UNCHANGED <<net, calm>>

\* A child that was forked for anything but a start is one more reader.
Fork(p) ==
    /\ At(p, "fork") /\ forks < PROCS
    /\ forks' = forks + 1
    /\ LET starts == proc[p].cmd = "START_SEND_DATA_NTF"
           child == [proc[p] EXCEPT !.pc = IF starts THEN "spawn" ELSE "recv",
                                    !.child_pid = 0]
           parent == [proc[p] EXCEPT !.pc = "recv", !.child_pid = forks + 1]
       IN  proc' = [proc EXCEPT ![p] = parent, ![forks + 1] = child]
    /\ UNCHANGED <<net, calm>>

\* Mutant: a failed fork is not looked at.
ForkFailsUnseen(p) ==
    /\ At(p, "fork")
    /\ proc' = [proc EXCEPT ![p].pc = "recv", ![p].child_pid = -1]
    /\ calm' = FALSE
    /\ UNCHANGED <<forks, net>>

\* At any time, and always when no process is left to have.
ForkFails(p) ==
    /\ At(p, "fork")
    /\ Exit(p)
    /\ calm' = FALSE
    /\ UNCHANGED <<forks, net>>

\* The child registers atexit_func after the fork: its camera has it only if
\* the child had it before. The child closes its own end to write to, no other
\* that it has inherited.
ForkCamera(p) ==
    /\ At(p, "spawn") /\ forks < PROCS
    /\ forks' = forks + 1
    /\ LET cam == [proc[p] EXCEPT !.pc = "exec", !.camera_pid = 0,
                                  !.pipes = @ \cup {p}]
           child == [proc[p] EXCEPT !.pc = "stream", !.hook = TRUE,
                                    !.camera_pid = forks + 1]
       IN  proc' = [proc EXCEPT ![p] = child, ![forks + 1] = cam]
    /\ UNCHANGED <<net, calm>>

\* camera_pid is -1 then: kill(-1, 9) ends whatever the user may end.
ForkCameraFails(p) ==
    /\ At(p, "spawn")
    /\ proc' = Without(proc, IF proc[p].hook THEN Alive ELSE {p})
    /\ calm' = FALSE
    /\ UNCHANGED <<forks, net>>

\* ./out keeps nothing of the memory, and all open descriptors.
Exec(p) ==
    /\ At(p, "exec")
    /\ proc' = [proc EXCEPT ![p] = [Blank("camera") EXCEPT !.pipes = proc[p].pipes]]
    /\ UNCHANGED <<forks, net, calm>>

\* dup2 fails and main returns, or execlp fails and main goes on, its end of the
\* pipe open: its children and their cameras will hold it too.
ExecFails(p) ==
    /\ At(p, "exec")
    /\ Exit(p) \/ Goto(p, "recv")
    /\ calm' = FALSE
    /\ UNCHANGED <<forks, net>>

-----------------------------------------------------------------------------
(* The child that streams.                                                 *)

\* ./out, while it runs, gives read() data.
Writes(p) == At(proc[p].camera_pid, "camera")

\* Mutant: a failed send is not looked at.
SendFailsUnseen(p) == At(p, "stream") /\ Writes(p) /\ cut /\ UNCHANGED vars

\* read() gave data and send_pkg fails.
SendFails(p) ==
    /\ At(p, "stream") /\ Writes(p) /\ cut
    /\ Exit(p)
    /\ UNCHANGED <<forks, net, calm>>

\* The same with what a camera that is gone has left in the pipe, or with what a
\* process whose execlp failed prints: its standard output is the pipe. Nothing
\* says that there is any.
SendRestFails(p) ==
    /\ At(p, "stream") /\ ~At(proc[p].camera_pid, "exec") /\ cut
    /\ Exit(p)
    /\ UNCHANGED <<forks, net, calm>>

\* read() is at the end of the pipe, which nobody holds open any more.
ReadEnds(p) ==
    /\ At(p, "stream") /\ ~Held(p)
    /\ Goto(p, "recv")
    /\ UNCHANGED <<forks, net, calm>>

ReadFails(p) ==
    /\ At(p, "stream")
    /\ Goto(p, "recv")
    /\ calm' = FALSE
    /\ UNCHANGED <<forks, net>>

\* ./out never ends by itself, and as SIGPIPE is ignored it outlives its reader.
CameraEnds(p) ==
    /\ At(p, "camera")
    /\ proc' = Without(proc, {p})
    /\ calm' = FALSE
    /\ UNCHANGED <<forks, net>>

Runs(p) ==
    \/ RecvRegistered(p) \/ RecvStart(p) \/ RecvRestart(p) \/ RecvOther(p)
    \/ RecvNext(p) \/ RecvFails(p)
    \/ Fork(p) \/ ForkFails(p) \/ ForkCamera(p) \/ ForkCameraFails(p)
    \/ Exec(p) \/ ExecFails(p)
    \/ SendFails(p) \/ ReadEnds(p)

Next ==
    \/ Notify \/ Cut
    \/ \E p \in Proc : Runs(p) \/ SendRestFails(p) \/ ReadFails(p) \/ CameraEnds(p)

Spec == Init /\ [][Next]_vars

\* Every process runs, every call returns, and ./out goes on writing.
FairSpec == Spec /\ \A p \in Proc : WF_vars(Runs(p))

-----------------------------------------------------------------------------
TypeOK ==
    /\ proc \in [Proc -> Process]
    /\ forks \in Proc
    /\ \A p \in Proc : At(p, "none") <=> p > forks
    /\ in \in Seq(Cmd) /\ Len(in) <= QUEUE
    /\ cut \in BOOLEAN
    /\ last \in Cmd
    /\ calm \in BOOLEAN

Streams(p) == proc[p].pc \in {"spawn", "stream"}

Reads(p) == proc[p].pc \in {"reg", "recv", "next", "fork"}

\* While starts and stops alternate and nothing fails, the first process alone
\* receives: a second one would take notifications from it, or parts of them.
SoleReader == calm => \A p \in Proc : Reads(p) => p = 1

\* While starts and stops alternate and nothing fails, a process that streams
\* is the one the next stop will kill, so there is one at most, unless the first
\* process has found the connection cut.
StopReaches ==
    calm /\ 1 \in Alive => \A p \in Proc : Streams(p) => p = proc[1].child_pid

\* While starts and stops alternate and nothing fails, nobody streams from a
\* stop until the next start.
StopStops ==
    calm /\ At(1, "next") => \A p \in Proc : ~Streams(p)

\* A start makes somebody stream, as long as starts and stops alternate,
\* nothing fails and no stop follows.
StartStreams ==
    (calm /\ last = "START_SEND_DATA_NTF") ~>
        (\/ \E p \in Proc : At(p, "stream")
         \/ ~calm \/ cut \/ last # "START_SEND_DATA_NTF")

\* p waits in read() for a pipe that a camera holds and never writes to: that of
\* a process which inherited the pipe, and of which only the camera is left.
Stuck(p) ==
    /\ At(p, "stream") /\ ~Writes(p)
    /\ \E q \in Proc : At(q, "camera") /\ p \in proc[q].pipes

\* Whatever was sent and failed before, once the connection is cut no process
\* that uses it is left in the end, but those that hang on a pipe which such a
\* camera has inherited: there may be cameras.
ConnectionEnds ==
    cut ~> \A p \in Proc :
               proc[p].pc \in {"none", "dead", "camera"} \/ Stuck(p)
=============================================================================
