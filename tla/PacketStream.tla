----------------------------- MODULE PacketStream -----------------------------
(***************************************************************************)
(* What a connection promises the program above it: whole packets, in the  *)
(* order they were sent, none twice and none left out.  How the bytes are  *)
(* cut up by send() and recv() is not visible here.                        *)
(***************************************************************************)
EXTENDS Integers, Sequences

CONSTANT Packet

VARIABLES
    sent, \* the packets one end has handed over
    got   \* those the other end has been given

\* Some packets may have been handed over before the other end looks.
Init == sent \in Seq(Packet) /\ got = <<>>

Send ==
    /\ \E p \in Packet : sent' = Append(sent, p)
    /\ UNCHANGED got

Deliver ==
    /\ Len(got) < Len(sent)
    /\ got' = Append(got, sent[Len(got) + 1])
    /\ UNCHANGED sent

Spec == Init /\ [][Send \/ Deliver]_<<sent, got>>
=============================================================================
