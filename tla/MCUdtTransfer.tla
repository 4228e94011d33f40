---------------------------- MODULE MCUdtTransfer ----------------------------
(***************************************************************************)
(* Three messages of two, one and one packets, the second one ordered.     *)
(***************************************************************************)
EXTENDS UdtTransfer

MCMessages == <<[len |-> 2, order |-> FALSE], [len |-> 1, order |-> TRUE], [len |-> 1, order |-> FALSE]>>
=============================================================================
