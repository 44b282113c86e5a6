------------------------------- MODULE Cktool -------------------------------
(***************************************************************************)
(* The command-line tool src/src/cktool.c over the Camkit library: it      *)
(* captures pictures and takes them through the stages its option -s       *)
(* names, convert, encode, pack and network, and writes or sends what the  *)
(* last of them yields, until SIGINT or an error.                          *)
(*                                                                         *)
(* stage is the set of the bits of the option.  A call of the library      *)
(* through a handle that is not open is undefined: pc is then "undef".     *)
(* Left out: the pictures, the parameters of the stages and -d's output.   *)
(***************************************************************************)
EXTENDS Integers, Sequences

CONSTANTS
    HEADERS, \* bound: headers the encoder has for a stream
    PACKS    \* bound: packets one header or picture is cut into

ASSUME HeadersAssumption == HEADERS \in Nat

ASSUME PacksAssumption == PACKS \in Nat \ {0}

Stages == {"convert", "encode", "pack", "network"}

Handle == {"cap", "cvt", "enc", "pac", "net", "tms"}

Sink == {"captured", "converted", "encoded", "packed", "sent"}

VARIABLES
    pc,
    stage,    \* the bits of -s
    yuv420,   \* is the captured format that of the encoder already (-c 1)?
    outfd,    \* is there an output file?
    server,   \* were -a and -p given?
    todo,     \* the handles still to open or to close
    open,     \* the open handles
    headers,  \* headers the encoder still has
    packs,    \* packets the packer still has
    written,  \* ghost: how headers and pictures have left the tool
    sigint,   \* ghost: the last SIGINT came inside the loop
    quit,     \* the flag of the signal handler
    failed    \* ghost: could the timestamp handle not be opened?

options == <<stage, yuv420, outfd, server>>
vars == <<pc, options, todo, open, headers, packs, written, sigint, quit, failed>>

PC == {"options", "open", "start", "loop", "capture", "convert", "stamp",
       "headers", "packheader", "encode", "packpicture", "stop", "close",
       "done", "error", "undef"}

Init ==
    /\ pc = "options"
    /\ stage = {"convert", "encode"}
    /\ yuv420 = FALSE
    /\ outfd = FALSE
    /\ server = FALSE
    /\ todo = {}
    /\ open = {}
    /\ headers = 0
    /\ packs = 0
    /\ written = [header |-> {}, picture |-> {}]
    /\ sigint = FALSE
    /\ quit = FALSE
    /\ failed = FALSE

\* The handles a run with these stages opens.
Needed(s) == {"cap", "tms"} \cup (IF "convert" \in s THEN {"cvt"} ELSE {})
                            \cup (IF "encode" \in s THEN {"enc"} ELSE {})
                            \cup (IF "pack" \in s THEN {"pac"} ELSE {})
                            \cup (IF "network" \in s THEN {"net"} ELSE {})

Opens == <<"cap", "cvt", "enc", "pac", "net", "tms">>

\* Mutant: the network handle is forgotten.
ClosesNoNetwork == <<"pac", "enc", "cvt", "cap", "tms">>

Closes == <<"net", "pac", "enc", "cvt", "cap", "tms">>

\* The handles of a run with the stages s that the list q goes through.
Of(q, s) == {h \in Needed(s) : \E i \in DOMAIN q : q[i] = h}

\* h is the next handle in the order of q.
First(h, q) == \E i \in DOMAIN q : /\ q[i] = h /\ h \in todo
                                  /\ \A j \in 1 .. i - 1 : q[j] \notin todo

\* The options are read, or one asks for help or is unknown and main returns.
Options ==
    /\ pc = "options"
    /\ \/ /\ stage' \in SUBSET Stages
          /\ yuv420' \in BOOLEAN /\ outfd' \in BOOLEAN /\ server' \in BOOLEAN
          /\ todo' = Of(Opens, stage')
          /\ pc' = "open"
       \/ pc' = "error" /\ UNCHANGED <<options, todo>>
    /\ UNCHANGED <<open, headers, packs, written, sigint, quit, failed>>

-----------------------------------------------------------------------------
\* One handle is opened.  A failure ends the program, but for the timestamp's.
Open ==
    /\ pc = "open"
    /\ \E h \in Handle :
         /\ First(h, Opens)
         /\ \/ /\ h = "net" => server
               /\ open' = open \cup {h}
               /\ headers' = IF h = "enc" THEN HEADERS ELSE headers
               /\ todo' = todo \ {h}
               /\ pc' = IF todo' = {} THEN "start" ELSE "open"
               /\ UNCHANGED failed
            \/ /\ h # "tms"
               /\ pc' = "error"
               /\ UNCHANGED <<open, headers, todo, failed>>
            \/ /\ h = "tms"
               /\ failed' = TRUE
               /\ todo' = todo \ {h}
               /\ pc' = "start"
               /\ UNCHANGED <<open, headers>>
    /\ UNCHANGED <<options, packs, written, sigint, quit>>

\* A call through the handles H leads to one of the places P.
Call(H, P) == pc' \in (IF H \subseteq open THEN P ELSE {"undef"})

\* A SIGINT that came before is forgotten here.
Start ==
    /\ pc = "start"
    /\ Call({"cap"}, {"loop"})
    /\ quit' = FALSE
    /\ UNCHANGED <<options, todo, open, headers, packs, written, sigint, failed>>

Quiet == UNCHANGED <<options, todo, open, sigint, quit, failed>>

\* Mutant: quit is not looked at.
LoopForEver == pc = "loop" /\ pc' = "capture" /\ Quiet
               /\ UNCHANGED <<headers, packs, written>>

Loop ==
    /\ pc = "loop"
    /\ pc' = IF quit THEN "stop" ELSE "capture"
    /\ Quiet /\ UNCHANGED <<headers, packs, written>>

\* What leaves the tool: to the file if there is one, or over the network.
Emit(what, sink) ==
    written' = IF outfd \/ sink = "sent" THEN [written EXCEPT ![what] = @ \cup {sink}]
               ELSE written

\* "stop" after an error, "loop" when there is no data yet.
Capture ==
    /\ pc = "capture"
    /\ \/ /\ Call({"cap"}, {"stop", "loop"})
          /\ UNCHANGED written
       \/ /\ "convert" \in stage
          /\ Call({"cap"}, {"convert"})
          /\ UNCHANGED written
       \/ /\ "convert" \notin stage
          /\ Call({"cap"}, {"loop"})
          /\ Emit("picture", "captured")
    /\ Quiet /\ UNCHANGED <<headers, packs>>

\* Mutant: the converter is also called for pictures that need no converting,
\* through the handle of the encoder.
ConvertAlways ==
    /\ pc = "convert"
    /\ Call(IF yuv420 THEN {"enc"} ELSE {"cvt"}, {"stamp", "stop", "loop"})
    /\ Quiet /\ UNCHANGED <<headers, packs, written>>

Convert ==
    /\ pc = "convert"
    /\ IF yuv420 THEN pc' = "stamp" ELSE Call({"cvt"}, {"stamp", "stop", "loop"})
    /\ Quiet /\ UNCHANGED <<headers, packs, written>>

Stamp ==
    /\ pc = "stamp"
    /\ IF "encode" \in stage
       THEN Call({"tms"}, {"headers"}) /\ UNCHANGED written
       ELSE Call({"tms"}, {"loop"}) /\ Emit("picture", "converted")
    /\ Quiet /\ UNCHANGED <<headers, packs>>

\* Mutant: if instead of while, one header only.
HeadersOnce ==
    /\ pc = "headers"
    /\ IF headers = 0 THEN Call({"enc"}, {"encode"}) /\ UNCHANGED <<headers, packs, written>>
       ELSE /\ headers' = headers - 1
            /\ Call({"enc"}, {"encode"})
            /\ Emit("header", "encoded")
            /\ UNCHANGED packs
    /\ Quiet

\* All headers the encoder has, before the picture.
Headers ==
    /\ pc = "headers"
    /\ \/ /\ headers = 0
          /\ Call({"enc"}, {"encode"})
          /\ UNCHANGED <<headers, packs, written>>
       \/ /\ headers > 0
          /\ headers' = headers - 1
          /\ IF "pack" \in stage
             THEN /\ Call({"enc", "pac"}, {"packheader"})
                  /\ packs' \in 1 .. PACKS
                  /\ UNCHANGED written
             ELSE /\ Call({"enc"}, {"headers"})
                  /\ Emit("header", "encoded")
                  /\ UNCHANGED packs
    /\ Quiet

Encode ==
    /\ pc = "encode"
    /\ \/ /\ Call({"enc"}, {"stop", "loop"})
          /\ UNCHANGED <<packs, written>>
       \/ /\ "pack" \notin stage
          /\ Call({"enc"}, {"loop"})
          /\ Emit("picture", "encoded")
          /\ UNCHANGED packs
       \/ /\ "pack" \in stage
          /\ Call({"enc", "pac"}, {"packpicture"})
          /\ packs' \in 1 .. PACKS
          /\ UNCHANGED written
    /\ Quiet /\ UNCHANGED headers

\* Mutant: the loop goes on when pack_get returns 0.
PackOneMore(at, what, next) ==
    /\ pc = at
    /\ packs' = packs - 1
    /\ Call({"pac"}, {IF packs < 0 THEN next ELSE at})
    /\ Emit(what, "packed")
    /\ Quiet /\ UNCHANGED headers

\* Packets are taken until pack_get has no more.  A failed net_send is logged.
Pack(at, what, next) ==
    /\ pc = at
    /\ IF packs = 0
       THEN Call({"pac"}, {next}) /\ UNCHANGED <<packs, written>>
       ELSE /\ packs' = packs - 1
            /\ IF "network" \in stage
               THEN Call({"pac", "net"}, {at}) /\ Emit(what, "sent")
               ELSE Call({"pac"}, {at}) /\ Emit(what, "packed")
    /\ Quiet /\ UNCHANGED headers

PackHeader == Pack("packheader", "header", "headers")

PackPicture == Pack("packpicture", "picture", "loop")

Stop ==
    /\ pc = "stop"
    /\ Call({"cap"}, {"close"})
    /\ todo' = Of(Closes, stage)
    /\ UNCHANGED <<options, open, headers, packs, written, sigint, quit, failed>>

Close ==
    /\ pc = "close"
    /\ \/ /\ todo = {}
          /\ pc' = "done"
          /\ UNCHANGED <<todo, open>>
       \/ \E h \in Handle :
            /\ First(h, Closes)
            /\ Call({h}, {"close"})
            /\ open' = open \ {h}
            /\ todo' = todo \ {h}
    /\ UNCHANGED <<options, headers, packs, written, sigint, quit, failed>>

Looping == {"loop", "capture", "convert", "stamp", "headers", "packheader",
            "encode", "packpicture"}

\* quit_func, which is installed when the options have been read.
Sigint ==
    /\ pc \in Looping \cup {"open", "start", "stop", "close"}
    /\ quit' = TRUE
    /\ sigint' = (sigint \/ pc \in Looping)
    /\ UNCHANGED <<pc, options, todo, open, headers, packs, written, failed>>

Main ==
    \/ Options \/ Open \/ Start \/ Loop \/ Capture \/ Convert \/ Stamp
    \/ Headers \/ PackHeader \/ Encode \/ PackPicture \/ Stop \/ Close

Next == Main \/ Sigint

Spec == Init /\ [][Next]_vars

\* The program runs, and no call of the library blocks for ever.
FairSpec == Spec /\ WF_vars(Main)

-----------------------------------------------------------------------------
TypeOK ==
    /\ pc \in PC
    /\ stage \subseteq Stages
    /\ yuv420 \in BOOLEAN /\ outfd \in BOOLEAN /\ server \in BOOLEAN
    /\ sigint \in BOOLEAN /\ quit \in BOOLEAN /\ failed \in BOOLEAN
    /\ todo \subseteq Needed(stage)
    /\ open \subseteq Needed(stage)
    /\ headers \in 0 .. HEADERS
    /\ packs \in 0 .. PACKS
    /\ written \in [{"header", "picture"} -> SUBSET Sink]

\* Whatever bits -s has, also those that skip a stage, no call goes through a
\* handle that is not open, if the one that is not checked could be opened.
HandlesOpen == pc = "undef" => failed

\* A run that ends in the regular way, after SIGINT or an error of a stage,
\* leaves nothing open: the list that closes matches the list that opened.
ClosesAll == pc = "done" /\ ~failed => open = {}

\* No picture leaves the tool encoded before all headers have, and both leave
\* by the same way: at the same stage, to the same place.
HeadersFirst ==
    /\ written.picture \cap {"encoded", "packed", "sent"} # {} => headers = 0
    /\ written.header # {} /\ written.picture # {} => written.header = written.picture

\* A SIGINT inside the loop ends the program.
QuitEnds == sigint ~> pc \in {"done", "undef"}
=============================================================================
