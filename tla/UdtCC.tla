-------------------------------- MODULE UdtCC --------------------------------
(***************************************************************************)
(* CUDTCC of udt4 (ccc.cpp), the congestion control of a sender: the       *)
(* window and the time between two packets, as acknowledgements, reports   *)
(* of losses and timeouts change them.                                     *)
(*                                                                         *)
(* The period is a whole number of microseconds and its increase of the    *)
(* rate any smaller one, for real numbers and their logarithms are not     *)
(* modelled; neither is the random share of the reports that counts again, *)
(* which may be any.                                                       *)
(***************************************************************************)
EXTENDS UdtSeqNo, FiniteSets

CONSTANTS
    FirstSeqNo,   \* of the first packet
    FirstWindow,  \* m_dCWndSize at first (16)
    MaxWindow,    \* m_dMaxCWndSize
    RateWindows,  \* what the receiving rate and the RTT may make of the window, beyond FirstWindow
    Periods,      \* what the receiving rate may make of the period
    MinPeriod,    \* minSP of UDT_MAXBW, or 1
    MaxFlight,    \* bound: packets sent and not acknowledged
    MaxReports,   \* bound: reports of old losses in one period of congestion
    MaxSends      \* bound: packets sent in a run

VARIABLES
    m_bSlowStart, m_bLoss,
    m_iLastAck, m_iLastDecSeq,
    m_iDecCount,      \* decreases in this period of congestion, and reports not counted
    m_dCWndSize,
    m_dPktSndPeriod,
    m_iSndCurrSeqNo,  \* the packet sent last
    unacked,          \* the first packet not acknowledged
    past              \* what has happened: packets sent and acknowledged, acknowledgements, the
                      \* decreases in this period of congestion and the packet sent before the last

ccVars == <<m_bSlowStart, m_bLoss, m_iLastAck, m_iLastDecSeq, m_iDecCount, m_dCWndSize, m_dPktSndPeriod,
            m_iSndCurrSeqNo, unacked, past>>

\* init.
CCInit ==
    /\ m_bSlowStart = TRUE /\ m_bLoss = FALSE
    /\ m_iSndCurrSeqNo = decseq(FirstSeqNo) /\ unacked = FirstSeqNo
    /\ m_iLastAck = m_iSndCurrSeqNo /\ m_iLastDecSeq = decseq(m_iLastAck)
    /\ m_iDecCount = 0
    /\ m_dCWndSize = FirstWindow /\ m_dPktSndPeriod = 1
    /\ past = [sent |-> 0, acked |-> 0, acks |-> 0, cuts |-> 0, cutAt |-> -1]

\* packData tells it of a new packet.
setSndCurrSeqNo ==
    /\ past.sent < MaxSends /\ seqlen(unacked, incseq(m_iSndCurrSeqNo)) <= MaxFlight
    /\ m_iSndCurrSeqNo' = incseq(m_iSndCurrSeqNo)
    /\ past' = [past EXCEPT !.sent = @ + 1]
    /\ UNCHANGED <<m_bSlowStart, m_bLoss, m_iLastAck, m_iLastDecSeq, m_iDecCount, m_dCWndSize, m_dPktSndPeriod,
                   unacked>>

\* Slow start: the window grows by what is acknowledged, counted with both ends.
Grown(ack) == m_dCWndSize + seqlen(m_iLastAck, ack)

Limited(period) == IF period < MinPeriod THEN MinPeriod ELSE period

\* The rate is limited, but not while the timer of the control runs (early).
onACK(ack, early) ==
    /\ seqlen(unacked, ack) <= seqlen(unacked, m_iSndCurrSeqNo) + 1 /\ ack # unacked
    /\ unacked # incseq(m_iSndCurrSeqNo)
    /\ unacked' = ack
    /\ past' = [past EXCEPT !.acked = @ + seqoff(unacked, ack), !.acks = @ + 1]
    /\ IF early THEN UNCHANGED <<m_bSlowStart, m_bLoss, m_iLastAck, m_dCWndSize, m_dPktSndPeriod>>
       ELSE LET ends == m_bSlowStart /\ Grown(ack) > MaxWindow
                slow == m_bSlowStart /\ ~ends
            IN  /\ m_bSlowStart' = slow
                /\ IF m_bSlowStart THEN m_dCWndSize' = Grown(ack) /\ m_iLastAck' = ack
                   ELSE (\E more \in RateWindows : m_dCWndSize' = FirstWindow + more) /\ UNCHANGED m_iLastAck
                /\ m_bLoss' = (IF slow THEN m_bLoss ELSE FALSE)
                /\ \E p \in IF ends THEN Periods ELSE {m_dPktSndPeriod} :
                      IF slow \/ m_bLoss THEN m_dPktSndPeriod' = Limited(p)
                      ELSE \E faster \in {p, (p + 1) \div 2} : m_dPktSndPeriod' = Limited(faster)
    /\ UNCHANGED <<m_iLastDecSeq, m_iDecCount, m_iSndCurrSeqNo>>

\* Slow start ends with the first loss or timeout, with the period that the receiving rate gives.
Slower(p) == (p * 9 + 7) \div 8

\* mutant of Fresh: the packet lost is compared as a plain number
FreshByNumber(lost) == lost > m_iLastDecSeq

\* A packet is lost that was sent after the rate was decreased last.
Fresh(lost) == seqcmp(lost, m_iLastDecSeq) > 0

\* losslist[0] is lost; of the reports of old losses, some count again.
onLoss(lost, again) ==
    /\ unacked # incseq(m_iSndCurrSeqNo)
    /\ seqlen(unacked, lost) <= seqlen(unacked, m_iSndCurrSeqNo)
    /\ m_bSlowStart' = FALSE /\ m_bLoss' = TRUE
    /\ \E p \in IF m_bSlowStart THEN Periods ELSE {m_dPktSndPeriod} :
          IF Fresh(lost)
          THEN /\ m_dPktSndPeriod' = Slower(p)
               /\ m_iDecCount' = 1 /\ m_iLastDecSeq' = m_iSndCurrSeqNo
               /\ past' = [past EXCEPT !.cuts = 1, !.cutAt = past.sent]
          ELSE LET counts == m_iDecCount < 5 /\ again
               IN  /\ m_iDecCount' = m_iDecCount + 1
                   /\ m_iDecCount < MaxReports
                   /\ m_dPktSndPeriod' = IF counts THEN Slower(p) ELSE p
                   /\ m_iLastDecSeq' = IF counts THEN m_iSndCurrSeqNo ELSE m_iLastDecSeq
                   /\ past' = IF counts THEN [past EXCEPT !.cuts = @ + 1, !.cutAt = past.sent] ELSE past
    /\ UNCHANGED <<m_iLastAck, m_dCWndSize, m_iSndCurrSeqNo, unacked>>

onTimeout ==
    /\ m_bSlowStart
    /\ m_bSlowStart' = FALSE
    /\ \E p \in Periods : m_dPktSndPeriod' = p
    /\ UNCHANGED <<m_bLoss, m_iLastAck, m_iLastDecSeq, m_iDecCount, m_dCWndSize, m_iSndCurrSeqNo, unacked, past>>

CCNext ==
    \/ setSndCurrSeqNo \/ onTimeout
    \/ \E ack \in SeqNos, early \in BOOLEAN : onACK(ack, early)
    \/ \E lost \in SeqNos, again \in BOOLEAN : onLoss(lost, again)

CCSpec == CCInit /\ [][CCNext]_ccVars
-----------------------------------------------------------------------------
\* A loss begins a new period of congestion exactly when the packet lost was sent after the last
\* decrease, also when the sequence numbers have begun anew; "rate should not be decreased by
\* more than half within a congestion period": it is decreased five times at most.  In slow start
\* the window grows by the packets acknowledged, one for each acknowledgement and one more, and it is never smaller than at first.
CongestionIsBounded ==
    /\ \A lost \in SeqNos :
          seqlen(unacked, lost) <= seqlen(unacked, m_iSndCurrSeqNo) /\ unacked # incseq(m_iSndCurrSeqNo) =>
              (Fresh(lost) <=> past.sent - seqoff(lost, m_iSndCurrSeqNo) > past.cutAt)
    /\ past.cuts <= 5
    /\ m_dCWndSize >= FirstWindow
    /\ m_bSlowStart => m_dCWndSize <= FirstWindow + past.acked + past.acks + 1
=============================================================================
