---------------------------- MODULE UdtAckHistory ----------------------------
(***************************************************************************)
(* What CACKWindow promises: the acknowledgements sent last, at most Size  *)
(* - 1 of them.  One of them is answered by its number, and then it and    *)
(* those before it are forgotten.                                          *)
(***************************************************************************)
EXTENDS Integers, Sequences

CONSTANTS Size, AckNos, SeqNos

VARIABLES
    history,      \* [no, ack], the newest last
    heard         \* the data sequence numbers that answers have confirmed: the last one, or none

historyVars == <<history, heard>>

HistoryInit == history = <<>> /\ heard = {}

Sent(no, ack) ==
    LET longer == Append(history, [no |-> no, ack |-> ack])
    IN  history' = (IF Len(longer) = Size THEN Tail(longer) ELSE longer) /\ heard' = {}

Answered(no) ==
    LET at == {i \in DOMAIN history : history[i].no = no}
        first == CHOOSE i \in at : \A j \in at : i <= j
    IN  IF at = {} THEN heard' = {} /\ UNCHANGED history
        ELSE heard' = {history[first].ack} /\ history' = SubSeq(history, first + 1, Len(history))

HistoryNext == \E no \in AckNos : Answered(no) \/ \E ack \in SeqNos : Sent(no, ack)
HistorySpec == HistoryInit /\ [][HistoryNext]_historyVars
=============================================================================
