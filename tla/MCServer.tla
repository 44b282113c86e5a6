------------------------------ MODULE MCServer ------------------------------
(* Values for the constants of Server.                                     *)
EXTENDS Server

\* What remote.cpp and raspi.cpp send.  The kernel hands out descriptors from
\* the lowest: the first connection is the one that is chosen, the second the
\* one that streams are addressed to.
Requests ==
    [cmd : {"REGISTER_CLIENT_REQ"}, fd : {0}, arg : {0, 1}]
    \cup [cmd : {"CHOOSE_SERVER_REQ"}, fd : {0}, arg : {5}]

\* raspi.cpp sends its H.264 headers with head.fd = 0.
Streams == [cmd : {"STREAM_DATA_NTF"}, fd : {0, 6}, arg : {0}]

OneWay == Requests \cup Streams

\* Packets to and choices of any descriptor.
AnyWay ==
    Requests
    \cup [cmd : {"CHOOSE_SERVER_REQ"}, fd : {0}, arg : FD]
    \cup [cmd : {"STREAM_DATA_NTF"}, fd : FD, arg : {0}]
=============================================================================
