--------------------------- MODULE ForkClientProofs ---------------------------
(***************************************************************************)
(* Proofs about ForkClient, for any number of processes and of packets on  *)
(* their way: the types, whatever is sent and fails; and, while starts and *)
(* stops alternate and nothing fails, who receives and who streams.        *)
(***************************************************************************)
EXTENDS ForkClient, TLAPS

\* The packet that follows c while starts and stops alternate.
After(c) == CASE c = "NONE" -> "REGISTER_CLIENT_RES"
              [] c = "START_SEND_DATA_NTF" -> "RESTART_CLIENT_NTF"
              [] OTHER -> "START_SEND_DATA_NTF"

\* The packets on their way go on where the first process is: the first of them
\* follows the one it received last.
InTurn ==
    /\ in = <<>> => last = proc[1].cmd
    /\ in # <<>> => in[1] = After(proc[1].cmd) /\ last = in[Len(in)]
    /\ \A i \in 2 .. Len(in) : in[i] = After(in[i - 1])

\* Where the first process is, what it has received.
Place ==
    /\ At(1, "reg") => proc[1].cmd = "NONE"
    /\ At(1, "recv") => proc[1].cmd \in {"REGISTER_CLIENT_RES", "START_SEND_DATA_NTF"}
    /\ At(1, "next") => proc[1].cmd = "RESTART_CLIENT_NTF"
    /\ At(1, "fork") => proc[1].cmd = "START_SEND_DATA_NTF"

\* The first process receives and never streams, the others never receive.
Roles ==
    /\ proc[1].pc \in {"reg", "recv", "next", "fork", "dead"}
    /\ ~proc[1].hook
    /\ \A p \in Proc \ {1} : proc[p].pc \in {"none", "spawn", "exec", "stream", "camera", "dead"}

\* A process that streams has its camera, which can write to its pipe.
HasCamera ==
    \A p \in Proc : At(p, "stream") =>
        /\ proc[p].camera_pid \in Proc
        /\ proc[proc[p].camera_pid].pc \in {"exec", "camera"}
        /\ p \in proc[proc[p].camera_pid].pipes

\* Somebody streams only from a start until the next stop, and then it is the
\* process whose pid the first one keeps.
OneStream ==
    /\ \A p, q \in Proc : Streams(p) /\ Streams(q) => p = q
    /\ At(1, "recv") /\ proc[1].cmd = "START_SEND_DATA_NTF"
         => proc[1].child_pid \in Proc \ {1}
    /\ ~At(1, "dead") => \A p \in Proc : Streams(p) =>
         /\ At(1, "recv") /\ proc[1].cmd = "START_SEND_DATA_NTF"
         /\ p = proc[1].child_pid

Orderliness ==
    /\ ~At(1, "dead") => InTurn /\ Place
    /\ Roles
    /\ HasCamera
    /\ OneStream

IInv == TypeOK /\ (calm => Orderliness)

-----------------------------------------------------------------------------
\* Pids are positive: 0 is the process group.
LEMMA Group == Proc \subseteq Nat \ {0} /\ 1 \in Proc
BY ProcsAssumption DEF Proc

\* What recv_pkg takes from the queue, and what it leaves.
LEMMA HeadTail ==
    ASSUME NEW q \in Seq(Cmd), q # <<>>
    PROVE  /\ Len(q) \in Nat \ {0}
           /\ Head(q) \in Cmd /\ Head(q) = q[1]
           /\ Tail(q) \in Seq(Cmd) /\ Len(Tail(q)) = Len(q) - 1
           /\ \A i \in 1 .. Len(q) - 1 : Tail(q)[i] = q[i + 1]
OBVIOUS

\* f is a table of processes of which the first n exist or have existed.
Table(f, n) ==
    /\ f \in [Proc -> Process]
    /\ \A p \in Proc : f[p].pc = "none" <=> p > n

\* A process that is ended has existed.
LEMMA WithoutTable ==
    ASSUME NEW n \in Proc, NEW f, Table(f, n), NEW P \in SUBSET Proc,
           \A p \in P : f[p].pc # "none"
    PROVE  Table(Without(f, P), n)
<1>1. Blank("dead") \in Process
  BY DEF Blank, Process, PC, Cmd
<1> QED BY <1>1 DEF Table, Without, Blank

\* A process that exists goes on with other values.
LEMMA UpdateTable ==
    ASSUME NEW n \in Proc, NEW f, Table(f, n), NEW p \in Proc,
           f[p].pc # "none", NEW r \in Process, r.pc # "none"
    PROVE  Table([f EXCEPT ![p] = r], n)
BY DEF Table

\* Moving a process changes only its place in the table.
LEMMA GotoTable ==
    ASSUME NEW n \in Proc, NEW f, Table(f, n), NEW p \in Proc,
           f[p].pc # "none", NEW where \in PC, where # "none"
    PROVE  Table([f EXCEPT ![p].pc = where], n)
<1>1. f[p] \in Process
  BY DEF Table
<1>2. [f[p] EXCEPT !.pc = where] \in Process
  BY <1>1 DEF Process
<1>3. [f EXCEPT ![p].pc = where] = [f EXCEPT ![p] = [f[p] EXCEPT !.pc = where]]
  BY DEF Table
<1> QED BY <1>1, <1>2, <1>3, UpdateTable DEF Process

\* kill() reaches processes of the table.
LEMMA TargetTypes ==
    ASSUME NEW pid
    PROVE  Target(pid) \in SUBSET Proc /\ \A p \in Target(pid) : proc[p].pc # "none"
BY DEF Target, Alive

\* A process that exits takes with it whom its hook kills.
LEMMA ExitTable ==
    ASSUME NEW n \in Proc, Table(proc, n), NEW p \in Proc, proc[p].pc # "none",
           Exit(p)
    PROVE  Table(proc', n)
<1> DEFINE P == {p} \cup IF proc[p].hook THEN Target(proc[p].camera_pid) ELSE {}
<1>1. P \in SUBSET Proc /\ \A q \in P : proc[q].pc # "none"
  BY TargetTypes
<1>2. proc' = Without(proc, P)
  BY DEF Exit
<1> HIDE DEF P
<1> QED BY <1>1, <1>2, WithoutTable

\* A process that receives keeps the command.
LEMMA ReceiveTable ==
    ASSUME NEW n \in Proc, Table(proc, n), NEW p \in Proc, proc[p].pc # "none",
           in \in Seq(Cmd), in # <<>>, NEW where \in PC, where # "none",
           NEW P \in SUBSET Proc, \A q \in P : proc[q].pc # "none",
           Receive(p, where, P)
    PROVE  /\ Table(proc', n) /\ UNCHANGED <<forks, cut, last, calm>>
           /\ in' \in Seq(Cmd) /\ Len(in') <= Len(in)
<1> DEFINE r == [proc[p] EXCEPT !.cmd = Head(in), !.pc = where]
           f == [proc EXCEPT ![p] = r]
<1>1. proc[p] \in Process
  BY DEF Table
<1>2. r \in Process /\ r.pc # "none"
  BY <1>1, HeadTail DEF Process
<1>3. proc' = Without(f, P)
  BY DEF Receive, Table
<1>4. Table(f, n)
  <2> HIDE DEF r
  <2> QED BY <1>2, UpdateTable
<1>5. \A q \in P : f[q].pc # "none"
  BY <1>2 DEF Table
<1> HIDE DEF f
<1>6. Table(proc', n)
  BY <1>3, <1>4, <1>5, WithoutTable
<1> QED BY <1>6, HeadTail DEF Receive

\* fork(): the next place of the table is taken.
LEMMA ForkTable ==
    ASSUME NEW n \in Proc, Table(proc, n), n < PROCS, NEW p \in Proc, proc[p].pc # "none",
           NEW r \in Process, r.pc # "none", NEW c \in Process, c.pc # "none"
    PROVE  n + 1 \in Proc /\ Table([proc EXCEPT ![p] = r, ![n + 1] = c], n + 1)
BY ProcsAssumption DEF Table, Proc

-----------------------------------------------------------------------------
\* TypeOK in terms of the table.
LEMMA TypeByTable ==
    TypeOK <=> /\ forks \in Proc /\ Table(proc, forks)
               /\ in \in Seq(Cmd) /\ Len(in) <= QUEUE
               /\ cut \in BOOLEAN /\ last \in Cmd /\ calm \in BOOLEAN
BY DEF TypeOK, Table, At

\* A step of a process that receives nothing.
LEMMA TypeSent ==
    ASSUME TypeOK, UNCHANGED net, calm' \in BOOLEAN, forks' \in Proc, Table(proc', forks')
    PROVE  TypeOK'
BY TypeByTable DEF TypeOK, Table, At, net

\* Receiving keeps the types.
LEMMA TypeReceived ==
    ASSUME TypeOK, NEW p \in Proc, in # <<>>,
           At(p, "reg") \/ At(p, "recv") \/ At(p, "next"),
           NEW where \in {"recv", "next", "fork"},
           NEW P \in SUBSET Proc, \A q \in P : proc[q].pc # "none",
           Receive(p, where, P)
    PROVE  TypeOK'
<1>1. proc[p].pc # "none" /\ where \in PC /\ where # "none"
  BY DEF At, PC
<1>2. /\ forks \in Proc /\ Table(proc, forks) /\ in \in Seq(Cmd)
      /\ Len(in) <= QUEUE
  BY TypeByTable
<1>3. /\ Table(proc', forks) /\ UNCHANGED <<forks, cut, last, calm>>
      /\ in' \in Seq(Cmd) /\ Len(in') <= Len(in)
  BY <1>1, <1>2, ReceiveTable
<1>4. Len(in') <= QUEUE
  BY <1>2, <1>3, QueueAssumption
<1> QED BY <1>2, <1>3, <1>4 DEF TypeOK, Table, At

\* Every step keeps the types, whatever is sent and fails.
LEMMA TypeNext == TypeOK /\ [Next]_vars => TypeOK'
<1> SUFFICES ASSUME TypeOK, [Next]_vars PROVE TypeOK'
  OBVIOUS
<1>1. /\ forks \in Proc /\ Table(proc, forks) /\ in \in Seq(Cmd)
      /\ calm \in BOOLEAN /\ Proc \subseteq Nat \ {0}
  BY TypeByTable, Group
<1>2. CASE Notify
  <2>1. PICK n \in Cmd : in' = Append(in, n) /\ last' = n /\ calm' = (calm /\ Orderly(n))
    BY <1>2 DEF Notify
  <2>2. in' \in Seq(Cmd) /\ Len(in') <= QUEUE
    BY <1>1, <1>2, <2>1, QueueAssumption DEF Notify
  <2>3. calm' \in BOOLEAN
    BY <2>1 DEF TypeOK
  <2> QED BY <1>2, <2>1, <2>2, <2>3 DEF Notify, TypeOK, At
<1>3. CASE Cut
  BY <1>3 DEF Cut, TypeOK, At
<1>4. ASSUME NEW p \in Proc, Runs(p) \/ SendRestFails(p) \/ ReadFails(p) \/ CameraEnds(p)
      PROVE  TypeOK'
  <2>1. proc[p] \in Process
    BY <1>1 DEF Table
  <2>2. CASE RecvRegistered(p)
    <3>1. /\ At(p, "reg") /\ in # <<>>
          /\ \E P \in {{}, {p}} : Receive(p, "recv", P)
      BY <2>2 DEF RecvRegistered
    <3>2. \A P \in {{}, {p}} : P \in SUBSET Proc /\ \A q \in P : proc[q].pc # "none"
      BY <3>1 DEF At
    <3> QED BY <3>1, <3>2, TypeReceived
  <2>3. CASE RecvStart(p)
    BY <2>3, TypeReceived DEF RecvStart
  <2>4. CASE RecvRestart(p)
    BY <2>4, TypeReceived, TargetTypes DEF RecvRestart
  <2>5. CASE RecvOther(p)
    BY <2>5, TypeReceived DEF RecvOther
  <2>6. CASE RecvNext(p)
    BY <2>6, TypeReceived DEF RecvNext
  <2>7. ASSUME Exit(p), proc[p].pc # "none", UNCHANGED <<forks, net>>, calm' \in BOOLEAN
        PROVE  TypeOK'
    BY <1>1, <2>7, ExitTable, TypeSent
  <2>8. CASE RecvFails(p) \/ ForkFails(p) \/ SendFails(p) \/ SendRestFails(p)
    BY <1>1, <2>7, <2>8 DEF RecvFails, ForkFails, SendFails, SendRestFails, At, TypeOK
  <2>9. CASE Fork(p)
    <3> DEFINE child == [proc[p] EXCEPT !.pc = IF proc[p].cmd = "START_SEND_DATA_NTF"
                                                THEN "spawn" ELSE "recv",
                                        !.child_pid = 0]
               parent == [proc[p] EXCEPT !.pc = "recv", !.child_pid = forks + 1]
    <3>1. /\ proc[p].pc # "none" /\ forks < PROCS /\ forks' = forks + 1
          /\ proc' = [proc EXCEPT ![p] = parent, ![forks + 1] = child]
          /\ UNCHANGED <<net, calm>>
      BY <2>9 DEF Fork, At
    <3>2. forks + 1 \in Proc
      BY <1>1, <3>1, ProcsAssumption DEF Proc
    <3>3. child \in Process /\ child.pc # "none" /\ parent \in Process /\ parent.pc # "none"
      BY <2>1, <3>2 DEF Process, PC
    <3> HIDE DEF child, parent
    <3> QED BY <1>1, <3>1, <3>3, ForkTable, TypeSent
  <2>10. CASE ForkCamera(p)
    <3> DEFINE cam == [proc[p] EXCEPT !.pc = "exec", !.camera_pid = 0,
                                      !.pipes = @ \cup {p}]
               child == [proc[p] EXCEPT !.pc = "stream", !.hook = TRUE,
                                        !.camera_pid = forks + 1]
    <3>1. /\ proc[p].pc # "none" /\ forks < PROCS /\ forks' = forks + 1
          /\ proc' = [proc EXCEPT ![p] = child, ![forks + 1] = cam]
          /\ UNCHANGED <<net, calm>>
      BY <2>10 DEF ForkCamera, At
    <3>2. forks + 1 \in Proc
      BY <1>1, <3>1, ProcsAssumption DEF Proc
    <3>3. child \in Process /\ child.pc # "none" /\ cam \in Process /\ cam.pc # "none"
      BY <2>1, <3>2 DEF Process, PC
    <3> HIDE DEF child, cam
    <3> QED BY <1>1, <3>1, <3>3, ForkTable, TypeSent
  <2>11. CASE ForkCameraFails(p)
    <3>1. /\ {p} \in SUBSET Proc /\ Alive \in SUBSET Proc
          /\ proc[p].pc # "none" /\ \A q \in Alive : proc[q].pc # "none"
      BY <2>11 DEF Alive, ForkCameraFails, At
    <3>2. Table(proc', forks)
      BY <1>1, <2>11, <3>1, WithoutTable DEF ForkCameraFails
    <3> QED BY <1>1, <2>11, <3>2, TypeSent DEF ForkCameraFails
  <2>12. CASE Exec(p)
    <3> DEFINE cam == [Blank("camera") EXCEPT !.pipes = proc[p].pipes]
    <3>1. cam \in Process /\ cam.pc # "none"
      BY <2>1 DEF Blank, Process, PC, Cmd
    <3>2. Table(proc', forks)
      BY <1>1, <2>12, <3>1, UpdateTable DEF Exec, At
    <3> QED BY <1>1, <2>12, <3>2, TypeSent DEF Exec
  <2>13. ASSUME NEW where \in PC, where # "none", Goto(p, where), proc[p].pc # "none",
                UNCHANGED <<forks, net>>, calm' \in BOOLEAN
         PROVE  TypeOK'
    BY <1>1, <2>13, GotoTable, TypeSent DEF Goto
  <2>14. CASE ExecFails(p)
    BY <2>7, <2>13, <2>14 DEF ExecFails, At, PC
  <2>15. CASE ReadEnds(p) \/ ReadFails(p)
    BY <1>1, <2>13, <2>15 DEF ReadEnds, ReadFails, At, PC
  <2>16. CASE CameraEnds(p)
    <3>1. {p} \in SUBSET Proc /\ \A q \in {p} : proc[q].pc # "none"
      BY <2>16 DEF CameraEnds, At
    <3>2. Table(proc', forks)
      BY <1>1, <2>16, <3>1, WithoutTable DEF CameraEnds
    <3> QED BY <1>1, <2>16, <3>2, TypeSent DEF CameraEnds
  <2> QED BY <1>4, <2>2, <2>3, <2>4, <2>5, <2>6, <2>8, <2>9, <2>10, <2>11,
             <2>12, <2>14, <2>15, <2>16 DEF Runs
<1>5. CASE UNCHANGED vars
  BY <1>5 DEF vars, net, TypeOK, At
<1> QED BY <1>2, <1>3, <1>4, <1>5 DEF Next

-----------------------------------------------------------------------------
(* Starts and stops alternate, and nothing fails.                          *)

\* The first process takes the packet that is its turn, and the rest of the
\* queue follows that one.
LEMMA TakesTurn ==
    ASSUME TypeOK, InTurn, in # <<>>, NEW c, c = Head(in)
    PROVE  /\ c = After(proc[1].cmd)
           /\ Tail(in) = <<>> => last = c
           /\ Tail(in) # <<>> => Tail(in)[1] = After(c) /\ last = Tail(in)[Len(Tail(in))]
           /\ \A i \in 2 .. Len(Tail(in)) : Tail(in)[i] = After(Tail(in)[i - 1])
<1>1. in \in Seq(Cmd)
  BY DEF TypeOK
<1> DEFINE q == Tail(in)
<1>2. /\ Len(in) \in Nat \ {0} /\ c = in[1]
      /\ q \in Seq(Cmd) /\ Len(q) = Len(in) - 1
      /\ \A i \in 1 .. Len(in) - 1 : q[i] = in[i + 1]
  BY <1>1, HeadTail
<1> HIDE DEF q
<1>3. q = <<>> <=> Len(q) = 0
  BY <1>2
<1>4. c = After(proc[1].cmd) /\ last = in[Len(in)]
  BY <1>2 DEF InTurn
<1>5. ASSUME q = <<>> PROVE last = c
  <2>1. Len(in) = 1
    BY <1>2, <1>3, <1>5
  <2> QED BY <1>2, <1>4, <2>1
<1>6. ASSUME q # <<>> PROVE q[1] = After(c) /\ last = q[Len(q)]
  <2>1. Len(in) \in Nat /\ Len(in) >= 2
    BY <1>2, <1>3, <1>6
  <2>2. q[1] = in[2] /\ q[Len(q)] = in[Len(in)] /\ in[2] = After(in[2 - 1])
    BY <1>2, <2>1 DEF InTurn
  <2> QED BY <1>2, <1>4, <2>2
<1>7. ASSUME NEW i \in 2 .. Len(q) PROVE q[i] = After(q[i - 1])
  <2>1. /\ i \in 1 .. Len(in) - 1 /\ i - 1 \in 1 .. Len(in) - 1
        /\ i + 1 \in 2 .. Len(in) /\ (i - 1) + 1 = i /\ (i + 1) - 1 = i
    BY <1>2
  <2>2. q[i] = in[i + 1] /\ q[i - 1] = in[i] /\ in[i + 1] = After(in[i])
    BY <1>2, <2>1 DEF InTurn
  <2> QED BY <2>2
<1> QED BY <1>4, <1>5, <1>6, <1>7 DEF q

\* The server sends what is due.
LEMMA NotifyInTurn ==
    ASSUME TypeOK, InTurn, Notify, calm'
    PROVE  InTurn'
<1>1. PICK n \in Cmd : in' = Append(in, n) /\ last' = n /\ n = After(last)
  BY DEF Notify, Orderly, After
<1>2. in \in Seq(Cmd) /\ Len(in) \in Nat /\ proc' = proc
  BY DEF TypeOK, Notify
<1>3. /\ in' # <<>> /\ Len(in') = Len(in) + 1 /\ in'[Len(in')] = n
      /\ \A i \in 1 .. Len(in) : in'[i] = in[i]
  BY <1>1, <1>2
<1>4. in'[1] = After(proc[1].cmd)
  <2>1. CASE in = <<>>
    BY <1>1, <1>3, <2>1 DEF InTurn
  <2>2. CASE in # <<>>
    <3>1. 1 \in 1 .. Len(in)
      BY <1>2, <2>2
    <3> QED BY <1>3, <2>2, <3>1 DEF InTurn
  <2> QED BY <2>1, <2>2
<1>5. ASSUME NEW i \in 2 .. Len(in') PROVE in'[i] = After(in'[i - 1])
  <2>1. CASE i <= Len(in)
    <3>1. i \in 2 .. Len(in) /\ i \in 1 .. Len(in) /\ i - 1 \in 1 .. Len(in)
      BY <1>2, <2>1
    <3> QED BY <1>3, <3>1 DEF InTurn
  <2>2. CASE i = Len(in) + 1
    <3>1. i - 1 = Len(in) /\ Len(in) \in 1 .. Len(in) /\ in # <<>>
      BY <1>2, <1>3, <2>2
    <3> QED BY <1>1, <1>3, <2>2, <3>1 DEF InTurn
  <2> QED BY <1>2, <1>3, <2>1, <2>2
<1> QED BY <1>1, <1>2, <1>3, <1>4, <1>5 DEF InTurn

\* While starts and stops alternate and nothing fails, they go on being heard by
\* the first process alone and obeyed.
LEMMA OrderlyStep ==
    ASSUME TypeOK, Orderliness, [Next]_vars, calm, calm'
    PROVE  Orderliness'
<1>1. /\ proc \in [Proc -> Process] /\ forks \in Proc /\ in \in Seq(Cmd)
      /\ \A p \in Proc : At(p, "none") <=> p > forks
      /\ Proc \subseteq Nat \ {0} /\ 1 \in Proc
  BY Group DEF TypeOK
<1>2. Roles /\ HasCamera /\ OneStream /\ (~At(1, "dead") => InTurn /\ Place)
  BY DEF Orderliness
<1>3. CASE Notify \/ Cut \/ UNCHANGED vars
  <2>1. proc' = proc
    BY <1>3 DEF Notify, Cut, vars
  <2>2. Roles' /\ HasCamera' /\ OneStream' /\ Place' = Place
    BY <1>2, <2>1 DEF Roles, HasCamera, OneStream, Place, At, Streams
  <2>3. InTurn => InTurn'
    BY <1>3, NotifyInTurn DEF Cut, vars, net, InTurn
  <2> QED BY <1>2, <2>1, <2>2, <2>3 DEF Orderliness, At
<1>4. ASSUME in # <<>>, At(1, "reg") \/ At(1, "recv") \/ At(1, "next"),
             NEW where \in {"recv", "next", "fork"},
             NEW P \in SUBSET (Proc \ {1}), Receive(1, where, P),
             Head(in) = After(proc[1].cmd) =>
               /\ where = "recv" => Head(in) = "REGISTER_CLIENT_RES"
               /\ where = "next" => Head(in) = "RESTART_CLIENT_NTF"
               /\ where = "fork" => Head(in) = "START_SEND_DATA_NTF"
               /\ \A p \in Proc : Streams(p) => p \in P
      PROVE  Orderliness'
  <2>1. InTurn /\ proc[1] \in Process
    BY <1>1, <1>2, <1>4 DEF At
  <2>2. /\ Head(in) = After(proc[1].cmd)
        /\ Tail(in) = <<>> => last = Head(in)
        /\ Tail(in) # <<>> => /\ Tail(in)[1] = After(Head(in))
                              /\ last = Tail(in)[Len(Tail(in))]
        /\ \A i \in 2 .. Len(Tail(in)) : Tail(in)[i] = After(Tail(in)[i - 1])
    BY <1>4, <2>1, TakesTurn
  <2>3. /\ proc' \in [Proc -> Process]
        /\ proc'[1] = [proc[1] EXCEPT !.cmd = Head(in), !.pc = where]
        /\ \A p \in P : proc'[p] = Blank("dead")
        /\ \A p \in Proc \ (P \cup {1}) : proc'[p] = proc[p]
    <3>1. TypeOK'
      BY TypeNext
    <3> QED BY <1>1, <1>4, <3>1 DEF Receive, Without, TypeOK
  <2>4. /\ proc'[1].cmd = Head(in) /\ proc'[1].pc = where
        /\ ~proc'[1].hook
    BY <1>2, <2>1, <2>3 DEF Process, Roles
  <2>5. InTurn' /\ Place'
    BY <1>4, <2>2, <2>4 DEF Receive, InTurn, Place, At
  <2>6. \A p \in Proc : ~Streams(p)'
    <3> SUFFICES ASSUME NEW p \in Proc PROVE proc'[p].pc \notin {"spawn", "stream"}
      BY DEF Streams
    <3>1. CASE p \in P
      BY <2>3, <3>1 DEF Blank
    <3>2. CASE p = 1
      BY <1>4, <2>4, <3>2
    <3>3. CASE p \notin P \cup {1}
      BY <1>4, <2>2, <2>3, <3>3 DEF Streams
    <3> QED BY <3>1, <3>2, <3>3
  <2>7. Roles'
    BY <1>2, <2>3, <2>4 DEF Roles, Blank
  <2>8. HasCamera' /\ OneStream'
    BY <1>4, <2>2, <2>4, <2>6 DEF HasCamera, OneStream, At, Streams
  <2> QED BY <2>5, <2>7, <2>8 DEF Orderliness
<1>5. ASSUME NEW P \in SUBSET Proc, proc' = Without(proc, P), UNCHANGED net,
             \A p \in Proc \ P : At(p, "stream") => proc[p].camera_pid \notin P
      PROVE  Orderliness'
  <2>1. \A p \in Proc : proc'[p] = IF p \in P THEN Blank("dead") ELSE proc[p]
    BY <1>5 DEF Without
  <2>2. Blank("dead").pc = "dead" /\ ~Blank("dead").hook
    BY DEF Blank
  <2>3. \A p \in Proc : Streams(p)' => Streams(p) /\ p \notin P
    BY <2>1, <2>2 DEF Streams
  <2>4. Roles'
    BY <1>1, <1>2, <2>1, <2>2 DEF Roles
  <2>5. HasCamera'
    BY <1>2, <1>5, <2>1, <2>2 DEF HasCamera, At
  <2>6. ~At(1, "dead")' => 1 \notin P /\ ~At(1, "dead") /\ proc'[1] = proc[1]
    BY <1>1, <2>1, <2>2 DEF At
  <2>7. At(1, "recv")' => 1 \notin P /\ proc'[1] = proc[1] /\ At(1, "recv")
    BY <1>1, <2>1, <2>2 DEF At
  <2>8. OneStream'
    BY <1>2, <2>3, <2>6, <2>7 DEF OneStream, At
  <2>9. ~At(1, "dead")' => InTurn' /\ Place'
    BY <1>2, <1>5, <2>6 DEF InTurn, Place, At, net
  <2> QED BY <2>4, <2>5, <2>8, <2>9 DEF Orderliness
<1>6. CASE Fork(1)
  <2> DEFINE child == [proc[1] EXCEPT !.pc = "spawn", !.child_pid = 0]
             parent == [proc[1] EXCEPT !.pc = "recv", !.child_pid = forks + 1]
  <2>1. proc[1].pc = "fork" /\ InTurn /\ Place /\ proc[1].cmd = "START_SEND_DATA_NTF"
    BY <1>2, <1>6 DEF Fork, At, Place
  <2>2. /\ forks < PROCS /\ UNCHANGED <<net, calm>>
        /\ proc' = [proc EXCEPT ![1] = parent, ![forks + 1] = child]
    BY <1>6, <2>1 DEF Fork
  <2>3. forks + 1 \in Proc \ {1} /\ proc[1] \in Process /\ proc[forks + 1].pc = "none"
    BY <1>1, <2>2, ProcsAssumption DEF Proc, At
  <2>4. /\ child.pc = "spawn" /\ parent.pc = "recv" /\ ~parent.hook
        /\ parent.cmd = "START_SEND_DATA_NTF" /\ parent.child_pid = forks + 1
    BY <1>2, <2>1, <2>3 DEF Process, Roles
  <2> HIDE DEF child, parent
  <2>5. /\ proc'[1] = parent /\ proc'[forks + 1] = child
        /\ \A p \in Proc \ {1, forks + 1} : proc'[p] = proc[p]
    BY <1>1, <2>2, <2>3
  <2>6. \A p \in Proc : Streams(p)' => p = forks + 1
    BY <1>2, <2>1, <2>4, <2>5 DEF Streams, OneStream, At
  <2>7. Roles'
    BY <1>2, <2>3, <2>4, <2>5 DEF Roles
  <2>8. HasCamera'
    BY <1>2, <2>1, <2>3, <2>4, <2>5, <2>6 DEF HasCamera, OneStream, At, Streams
  <2>9. OneStream'
    BY <2>3, <2>4, <2>5, <2>6 DEF OneStream, At
  <2>10. InTurn' /\ Place'
    BY <2>1, <2>2, <2>4, <2>5 DEF InTurn, Place, At, net
  <2> QED BY <2>7, <2>8, <2>9, <2>10 DEF Orderliness
<1>7. ASSUME NEW p \in Proc, ForkCamera(p) PROVE Orderliness'
  <2> DEFINE cam == [proc[p] EXCEPT !.pc = "exec", !.camera_pid = 0,
                                      !.pipes = @ \cup {p}]
             child == [proc[p] EXCEPT !.pc = "stream", !.hook = TRUE,
                                      !.camera_pid = forks + 1]
  <2>1. /\ proc[p].pc = "spawn" /\ forks < PROCS /\ UNCHANGED <<net, calm>>
        /\ proc' = [proc EXCEPT ![p] = child, ![forks + 1] = cam]
    BY <1>7 DEF ForkCamera, At
  <2>2. /\ forks + 1 \in Proc \ {1, p} /\ proc[p] \in Process /\ p # 1
        /\ proc[forks + 1].pc = "none"
    BY <1>1, <1>2, <2>1, ProcsAssumption DEF Proc, At, Roles
  <2>3. /\ child.pc = "stream" /\ child.camera_pid = forks + 1 /\ cam.pc = "exec"
        /\ p \in cam.pipes
    BY <2>2 DEF Process
  <2> HIDE DEF child, cam
  <2>4. /\ proc'[p] = child /\ proc'[forks + 1] = cam
        /\ \A q \in Proc \ {p, forks + 1} : proc'[q] = proc[q]
    BY <1>1, <2>1, <2>2
  <2>5. proc'[1] = proc[1]
    BY <1>1, <2>2, <2>4
  <2>6. \A q \in Proc : Streams(q)' => q = p /\ Streams(q)
    BY <1>2, <2>1, <2>3, <2>4 DEF Streams, OneStream
  <2>7. Roles'
    BY <1>2, <2>3, <2>4, <2>5 DEF Roles
  <2>8. HasCamera'
    BY <2>2, <2>3, <2>4, <2>6 DEF HasCamera, At, Streams
  <2>9. OneStream'
    BY <1>2, <2>5, <2>6 DEF OneStream, At
  <2>10. ~At(1, "dead")' => InTurn' /\ Place'
    BY <1>2, <2>1, <2>5 DEF InTurn, Place, At, net
  <2> QED BY <2>7, <2>8, <2>9, <2>10 DEF Orderliness
<1>8. ASSUME NEW p \in Proc, Exec(p) PROVE Orderliness'
  <2>1. /\ proc[p].pc = "exec" /\ p # 1 /\ UNCHANGED net
        /\ proc'[p].pc = "camera" /\ proc'[p].pipes = proc[p].pipes
        /\ \A q \in Proc \ {p} : proc'[q] = proc[q]
    BY <1>1, <1>2, <1>8 DEF Exec, At, Roles, Blank, Process
  <2>2. proc'[1] = proc[1]
    BY <1>1, <2>1
  <2>3. \A q \in Proc : Streams(q)' <=> Streams(q)
    BY <2>1 DEF Streams
  <2>4. Roles'
    BY <1>2, <2>1, <2>2 DEF Roles
  <2>5. HasCamera'
    BY <1>2, <2>1 DEF HasCamera, At
  <2>6. OneStream'
    BY <1>2, <2>2, <2>3 DEF OneStream, At
  <2>7. ~At(1, "dead")' => InTurn' /\ Place'
    BY <1>2, <2>1, <2>2 DEF InTurn, Place, At, net
  <2> QED BY <2>4, <2>5, <2>6, <2>7 DEF Orderliness
<1>9. ASSUME NEW p \in Proc, Runs(p) \/ SendRestFails(p) \/ ReadFails(p) \/ CameraEnds(p)
      PROVE  Orderliness'
  <2>1. p = 1 \/ proc[p].pc \in {"none", "spawn", "exec", "stream", "camera", "dead"}
    BY <1>2 DEF Roles
  <2>2. proc[1].pc \in {"reg", "recv", "next", "fork", "dead"}
    BY <1>2 DEF Roles
  <2>3. CASE RecvRegistered(p)
    <3>1. p = 1 /\ At(1, "reg") /\ in # <<>>
      BY <2>1, <2>3 DEF RecvRegistered, At
    <3>2. InTurn /\ proc[1].cmd = "NONE"
      BY <1>2, <3>1 DEF At, Place
    <3>3. Head(in) = "REGISTER_CLIENT_RES"
      BY <3>1, <3>2, TakesTurn DEF After
    <3>4. Receive(1, "recv", {})
      BY <2>3, <3>1, <3>3 DEF RecvRegistered
    <3>5. \A q \in Proc : ~Streams(q)
      BY <1>2, <3>1 DEF OneStream, At
    <3> QED BY <1>4, <3>1, <3>3, <3>4, <3>5
  <2>4. CASE RecvStart(p)
    <3>1. /\ p = 1 /\ At(1, "recv") /\ in # <<>> /\ Receive(1, "fork", {})
          /\ Head(in) = "START_SEND_DATA_NTF"
      BY <2>1, <2>4 DEF RecvStart, At
    <3>2. Head(in) = After(proc[1].cmd) => \A q \in Proc : ~Streams(q)
      BY <1>2, <3>1 DEF OneStream, At, After
    <3> QED BY <1>4, <3>1, <3>2
  <2>5. CASE RecvRestart(p)
    <3>1. /\ p = 1 /\ At(1, "recv") /\ in # <<>>
          /\ Receive(1, "next", Target(proc[1].child_pid))
          /\ Head(in) = "RESTART_CLIENT_NTF"
      BY <2>1, <2>5 DEF RecvRestart, At
    <3>2. InTurn
      BY <1>2, <3>1 DEF At
    <3>3. proc[1].cmd = "START_SEND_DATA_NTF"
      BY <3>1, <3>2, TakesTurn DEF After
    <3>4. proc[1].child_pid \in Proc \ {1}
      BY <1>2, <3>1, <3>3 DEF OneStream
    <3>5. Target(proc[1].child_pid) = Alive \cap {proc[1].child_pid}
      BY <1>1, <3>4 DEF Target
    <3>6. \A q \in Proc : Streams(q) => q \in Target(proc[1].child_pid)
      BY <1>2, <3>1, <3>5 DEF OneStream, At, Alive, Streams
    <3>7. Target(proc[1].child_pid) \in SUBSET (Proc \ {1})
      BY <3>4, <3>5
    <3> QED BY <1>4, <3>1, <3>6, <3>7
  <2>6. CASE RecvOther(p)
    <3>1. /\ p = 1 /\ At(1, "recv") /\ in # <<>>
          /\ Head(in) \notin {"START_SEND_DATA_NTF", "RESTART_CLIENT_NTF"}
      BY <2>1, <2>6 DEF RecvOther, At
    <3>2. InTurn /\ proc[1].cmd \in {"REGISTER_CLIENT_RES", "START_SEND_DATA_NTF"}
      BY <1>2, <3>1 DEF At, Place
    <3> QED BY <3>1, <3>2, TakesTurn DEF After
  <2>7. CASE RecvNext(p)
    <3>1. p = 1 /\ At(1, "next") /\ in # <<>> /\ Receive(1, "fork", {})
      BY <2>1, <2>7 DEF RecvNext, At
    <3>2. InTurn /\ proc[1].cmd = "RESTART_CLIENT_NTF"
      BY <1>2, <3>1 DEF At, Place
    <3>3. Head(in) = "START_SEND_DATA_NTF"
      BY <3>1, <3>2, TakesTurn DEF After
    <3>4. \A q \in Proc : ~Streams(q)
      BY <1>2, <3>1 DEF OneStream, At
    <3> QED BY <1>4, <3>1, <3>3, <3>4
  <2>8. CASE RecvFails(p)
    <3>1. p = 1 /\ proc[1].pc # "dead" /\ ~proc[1].hook /\ UNCHANGED net
      BY <1>2, <2>1, <2>8 DEF RecvFails, At, Roles
    <3>2. proc' = Without(proc, {1})
      BY <2>8, <3>1 DEF RecvFails, Exit
    <3>3. \A q \in Proc : At(q, "stream") => proc[q].camera_pid \notin {1}
      BY <1>2, <2>2 DEF HasCamera
    <3> QED BY <1>1, <1>5, <3>1, <3>2, <3>3
  <2>9. CASE SendFails(p) \/ SendRestFails(p)
    <3> DEFINE P == {p} \cup IF proc[p].hook THEN Target(proc[p].camera_pid) ELSE {}
    <3>1. At(p, "stream") /\ UNCHANGED net /\ proc' = Without(proc, P)
      BY <2>9 DEF SendFails, SendRestFails, Exit
    <3>2. P \in SUBSET Proc
      BY TargetTypes
    <3>3. \A q \in Proc \ P : ~At(q, "stream")
      BY <1>2, <3>1 DEF OneStream, Streams, At
    <3> HIDE DEF P
    <3> QED BY <1>5, <3>1, <3>2, <3>3
  <2>10. CASE Fork(p)
    BY <1>6, <2>1, <2>10 DEF Fork, At
  <2>11. CASE ForkCamera(p) \/ Exec(p)
    BY <1>7, <1>8, <2>11
  <2>12. ~(ForkFails(p) \/ ForkCameraFails(p) \/ ExecFails(p) \/ ReadFails(p) \/ CameraEnds(p))
    BY DEF ForkFails, ForkCameraFails, ExecFails, ReadFails, CameraEnds
  <2>13. ~ReadEnds(p)
    BY <1>2 DEF ReadEnds, HasCamera, Held, At
  <2> QED BY <1>9, <2>3, <2>4, <2>5, <2>6, <2>7, <2>8, <2>9, <2>10, <2>11,
             <2>12, <2>13 DEF Runs
<1> QED BY <1>3, <1>9 DEF Next

\* Once something has failed, or the server has sent what was not due, nothing
\* makes up for it.
LEMMA CalmOnce == [Next]_vars /\ calm' => calm
BY DEF Next, Notify, Cut, Runs, RecvRegistered, RecvStart, RecvRestart, RecvOther,
       RecvNext, RecvFails, Receive, Fork, ForkFails, ForkCamera, ForkCameraFails,
       Exec, ExecFails, SendFails, SendRestFails, ReadEnds, ReadFails, CameraEnds, vars

\* One process connects, and there is no other.
THEOREM Initialised == Init => IInv
<1> SUFFICES ASSUME Init PROVE IInv
  OBVIOUS
<1>1. /\ Blank("reg") \in Process /\ Blank("none") \in Process
      /\ Blank("reg").pc = "reg" /\ Blank("none").pc = "none"
      /\ Blank("reg").cmd = "NONE" /\ ~Blank("reg").hook
  BY DEF Blank, Process, PC, Cmd
<1>2. /\ proc \in [Proc -> Process] /\ 1 \in Proc /\ proc[1] = Blank("reg")
      /\ \A p \in Proc \ {1} : proc[p] = Blank("none")
  BY <1>1, Group DEF Init
<1>3. \A p \in Proc : At(p, "none") <=> p > forks
  BY <1>1, <1>2, Group DEF Init, At
<1>4. in = <<>> /\ last = "NONE" /\ forks = 1 /\ cut = FALSE /\ calm = TRUE
  BY DEF Init
<1>5. TypeOK
  <2>1. in \in Seq(Cmd) /\ Len(in) = 0 /\ 0 <= QUEUE
    BY <1>4, QueueAssumption
  <2>2. Len(in) <= QUEUE
    BY <2>1
  <2>3. last \in Cmd /\ forks \in Proc
    BY <1>2, <1>4 DEF Cmd
  <2>4. cut \in BOOLEAN
    BY <1>4
  <2>5. calm \in BOOLEAN
    BY <1>4
  <2> QED BY <1>2, <1>3, <2>1, <2>2, <2>3, <2>4, <2>5 DEF TypeOK
<1>6. InTurn /\ Place
  BY <1>1, <1>2, <1>4 DEF InTurn, Place, At
<1>7. Roles /\ HasCamera /\ OneStream
  BY <1>1, <1>2 DEF Roles, HasCamera, OneStream, At, Streams
<1> QED BY <1>5, <1>6, <1>7 DEF IInv, Orderliness

\* Every step of a process or of the server preserves the invariant.
THEOREM Inductive == IInv /\ [Next]_vars => IInv'
BY TypeNext, OrderlyStep, CalmOnce DEF IInv

\* The invariant holds in every reachable state.
LEMMA Invariant == Spec => []IInv
BY Initialised, Inductive, PTL DEF Spec

\* Processes, pids and the queue keep their types, whatever is sent and fails.
THEOREM TypeCorrect == Spec => []TypeOK
BY Invariant, PTL DEF IInv

\* While starts and stops alternate and nothing fails, only the process that
\* connected receives, however many children it has had.
THEOREM FirstAloneReads == Spec => []SoleReader
<1>1. IInv => SoleReader
  BY DEF IInv, Orderliness, Roles, SoleReader, Reads
<1> QED BY <1>1, Invariant, PTL

\* ... a process that streams is the one that the next stop is sent to.
THEOREM StopReachesStream == Spec => []StopReaches
<1>1. IInv => StopReaches
  BY DEF IInv, Orderliness, OneStream, StopReaches, Alive, At
<1> QED BY <1>1, Invariant, PTL

\* ... and after a stop nobody streams until the next start.
THEOREM NobodyStreamsAfterStop == Spec => []StopStops
<1>1. IInv => StopStops
  BY DEF IInv, Orderliness, OneStream, StopStops, At
<1> QED BY <1>1, Invariant, PTL

===============================================================================
