----------------------------- MODULE UdtChannel -----------------------------
(***************************************************************************)
(* What a connection in message mode promises to the two applications:     *)
(* the messages accepted by sendmsg come out of recvmsg whole and at most  *)
(* once; they may overtake each other, but one that was sent with the      *)
(* order flag comes after everything sent before it.                       *)
(***************************************************************************)
EXTENDS Naturals, Sequences

CONSTANT Ordered(_)     \* whether message m was sent with the order flag

VARIABLES accepted,     \* how many messages sendmsg has taken
          delivered     \* the messages recvmsg has returned, in that order

Out == {delivered[k] : k \in DOMAIN delivered}

ChannelInit == accepted = 0 /\ delivered = <<>>

Accept == accepted' = accepted + 1 /\ UNCHANGED delivered

Deliver ==
    /\ \E m \in 1 .. accepted :
          /\ m \notin Out
          /\ Ordered(m) => 1 .. m - 1 \subseteq Out
          /\ delivered' = Append(delivered, m)
    /\ UNCHANGED accepted

ChannelSpec == ChannelInit /\ [][Accept \/ Deliver]_<<accepted, delivered>>
=============================================================================
