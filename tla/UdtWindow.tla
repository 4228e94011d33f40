------------------------------ MODULE UdtWindow ------------------------------
(***************************************************************************)
(* The windows of udt4 (window.cpp): CACKWindow, where a receiver looks up *)
(* what the acknowledgement was that the peer answers (ACK2), and          *)
(* CPktTimeWindow, where it estimates from the times between packets how   *)
(* fast they arrive and how fast the link is.                              *)
(*                                                                         *)
(* Both are rings in arrays.  Of an acknowledgement sent the time is left  *)
(* out.                                                                    *)
(***************************************************************************)
EXTENDS Integers, Sequences, SequencesExt, FiniteSets

CONSTANTS
    Size,         \* of the ring of acknowledgements (1024)
    LastAckNo,    \* m_iMaxAckSeqNo
    SeqNos,       \* data sequence numbers
    AWSize,       \* packet arrivals remembered (16)
    PWSize,       \* pairs of probing packets remembered (64)
    Intervals,    \* times between two packets, microseconds
    FirstInterval, FirstProbe,  \* what the windows begin with (1000000 and 1000)
    Million,      \* microseconds in a second
    MaxSent       \* bound: packets and acknowledgements in a run

VARIABLES
    head, tail,   \* m_iHead, m_iTail
    ring,         \* m_piACKSeqNo and m_piACK: [no, ack]
    ackNo,        \* m_iAckSeqNo of the receiver: the number used last
    said,         \* what acknowledge has returned: the data sequence number, or none
    arrivals,     \* m_piPktWindow
    arrivalPtr,   \* m_iPktWindowPtr
    probes,       \* m_piProbeWindow
    probePtr,     \* m_iProbeWindowPtr
    sent          \* bound: steps so far

windowVars == <<head, tail, ring, ackNo, said, arrivals, arrivalPtr, probes, probePtr, sent>>

AckNos == 0 .. LastAckNo
Unset == [no |-> -1, ack |-> -1]

WindowInit ==
    /\ head = 0 /\ tail = 0 /\ ring = [i \in 0 .. Size - 1 |-> Unset]
    /\ ackNo = 0 /\ said = {}
    /\ arrivals = [i \in 0 .. AWSize - 1 |-> FirstInterval] /\ arrivalPtr = 0
    /\ probes = [i \in 0 .. PWSize - 1 |-> FirstProbe] /\ probePtr = 0
    /\ sent = 0

timesUnchanged == UNCHANGED <<arrivals, arrivalPtr, probes, probePtr>>
acksUnchanged == UNCHANGED <<head, tail, ring, ackNo, said>>

incack(no) == IF no = LastAckNo THEN 0 ELSE no + 1

-----------------------------------------------------------------------------
\* mutant of NewTail: the oldest acknowledgement is not given up
NewTailKeeps(h) == tail

\* The oldest acknowledgement is overwritten.
NewTail(h) == IF h = tail THEN (tail + 1) % Size ELSE tail

\* sendCtrl, case ACK: the acknowledgement gets the next number.
store(ack) ==
    /\ sent < MaxSent /\ sent' = sent + 1
    /\ ackNo' = incack(ackNo)
    /\ ring' = [ring EXCEPT ![head] = [no |-> ackNo', ack |-> ack]]
    /\ head' = (head + 1) % Size
    /\ tail' = NewTail(head')
    /\ said' = {}
    /\ timesUnchanged

\* The places from the tail to the head, and the first of them with the number.
Held == IF head >= tail THEN {i \in 0 .. Size - 1 : tail <= i /\ i < head}
        ELSE {i \in 0 .. Size - 1 : tail <= i \/ i < head}
Age(i) == (i + Size - tail) % Size

acknowledge(no) ==
    LET at == {i \in Held : ring[i].no = no}
        i == CHOOSE k \in at : \A j \in at : Age(k) <= Age(j)
    IN  /\ IF at = {} THEN said' = {} /\ UNCHANGED <<head, tail, ring>>
           ELSE /\ said' = {ring[i].ack}
                /\ IF head >= tail /\ i + 1 = head
                   THEN head' = 0 /\ tail' = 0 /\ ring' = [ring EXCEPT ![0].no = -1]
                   ELSE tail' = (i + 1) % Size /\ UNCHANGED <<head, ring>>
        /\ UNCHANGED <<ackNo, sent>> /\ timesUnchanged

-----------------------------------------------------------------------------
onPktArrival(interval) ==
    /\ sent < MaxSent /\ sent' = sent + 1
    /\ arrivals' = [arrivals EXCEPT ![arrivalPtr] = interval]
    /\ arrivalPtr' = (arrivalPtr + 1) % AWSize
    /\ acksUnchanged /\ UNCHANGED <<probes, probePtr>>

probe2Arrival(interval) ==
    /\ sent < MaxSent /\ sent' = sent + 1
    /\ probes' = [probes EXCEPT ![probePtr] = interval]
    /\ probePtr' = (probePtr + 1) % PWSize
    /\ acksUnchanged /\ UNCHANGED <<arrivals, arrivalPtr>>

\* The element in the middle of all but the last one: std::copy leaves that one out.
Median(window, size) == SortSeq([i \in 1 .. size - 1 |-> window[i - 1]], <)[(size \div 2) + 1]

\* The elements that are not much greater or smaller than the median.
Typical(window, size) ==
    LET m == Median(window, size)
    IN  {i \in 0 .. size - 1 : window[i] < m * 8 /\ window[i] > m \div 8}

SumOf(window, S) == FoldFunctionOnSet(+, 0, window, S)
CeilDiv(a, b) == (a + b - 1) \div b

\* Packets a second, or 0 if too few intervals are typical.
getPktRcvSpeed ==
    LET typical == Typical(arrivals, AWSize)
    IN  IF Cardinality(typical) > AWSize \div 2
        THEN CeilDiv(Million, SumOf(arrivals, typical) \div Cardinality(typical)) ELSE 0

\* The median counts once more.  A sum of 0 is divided by: the outcome is undefined.
Interval == Median(probes, PWSize)
ProbeSum == Interval + SumOf(probes, Typical(probes, PWSize))
getBandwidth == CeilDiv(Million * (Cardinality(Typical(probes, PWSize)) + 1), ProbeSum)

WindowNext ==
    \/ \E no \in AckNos : acknowledge(no)
    \/ \E ack \in SeqNos : store(ack)
    \/ \E interval \in Intervals : onPktArrival(interval) \/ probe2Arrival(interval)

WindowSpec == WindowInit /\ [][WindowNext]_windowVars
-----------------------------------------------------------------------------
\* The ring with its two pointers behaves as the history of the acknowledgements sent last: an
\* answer finds what its number stood for, also after the ring and the numbers have begun anew.
History == INSTANCE UdtAckHistory WITH
    history <- [i \in 1 .. Cardinality(Held) |-> ring[(tail + i - 1) % Size]],
    heard <- said
AckWindowIsHistory == History!HistorySpec

\* One interval that is out of all proportion, where the others are alike, changes neither speed
\* by more than a factor of two, wherever it is in the window.
OneOutlierIsIgnored ==
    \A usual \in Intervals \ {0}, odd \in Intervals :
        /\ Cardinality({i \in DOMAIN arrivals : arrivals[i] = usual}) >= AWSize - 1
           /\ (\E i \in DOMAIN arrivals : arrivals[i] = odd)
           => getPktRcvSpeed <= CeilDiv(Million, usual) * 2 /\ getPktRcvSpeed * 2 >= Million \div usual
        /\ Cardinality({i \in DOMAIN probes : probes[i] = usual}) >= PWSize - 1
           /\ (\E i \in DOMAIN probes : probes[i] = odd)
           => getBandwidth <= CeilDiv(Million, usual) * 2 /\ getBandwidth * 2 >= Million \div usual
=============================================================================
