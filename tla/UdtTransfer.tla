----------------------------- MODULE UdtTransfer -----------------------------
(***************************************************************************)
(* One direction of a UDT connection in message mode (core.cpp of udt4):   *)
(* an application sends messages, packData turns them into data packets,   *)
(* processData takes them in, and acknowledgements and loss reports travel *)
(* back, over a network that loses, duplicates and reorders datagrams.     *)
(*                                                                         *)
(* The sender works in two threads: the one of the sending queue calls     *)
(* packData, the one of the receiving queue processCtrl and checkTimers.   *)
(* packData takes a lost number from the loss list and looks the packet up *)
(* only later, under m_AckLock: the two are steps of their own.  The       *)
(* receiver's buffer is the ring of UdtRcvBuffer; the sending buffer and   *)
(* the loss lists are the sequence and the sets that UdtSndBuffer and      *)
(* UdtLossList are shown to implement.  Time is left out: a timer may fire *)
(* whenever its condition on the state holds.  Keep-alives carry nothing   *)
(* and are left out, and so is giving up the peer, which takes more than   *)
(* sixteen expirations in a row (UdtSockets has it).                       *)
(***************************************************************************)
EXTENDS UdtSeqNo, UdtRcvBuffer, FiniteSets

CONSTANTS
    Messages,       \* the messages the application sends: [len |-> packets, order |-> flag]
    SndBufSize,     \* m_iSndBufSize: packets the sending buffer may hold
    FlightSize,     \* the flow window agreed on by the handshake
    CWnd,           \* m_dCongestionWindow
    ISN,            \* the initial sequence number
    MaxFaults,      \* bound: datagrams lost, duplicated or delayed by the network
    MaxQueue        \* bound: no timer fires and no packet is sent again while this many
                    \* datagrams are under way

ASSUME TransferAssumption ==
    /\ ISN \in SeqNos
    /\ \A m \in DOMAIN Messages : Messages[m].len \in 1 .. SndBufSize
    /\ {FlightSize, CWnd, MaxFaults, MaxQueue} \subseteq Nat

VARIABLES
    snd,    \* the sending end
    rcv,    \* the receiving end
    net,    \* datagrams under way: toRcv and toSnd
    faults, \* faults of the network so far
    got     \* what recvmsg has returned: the packets of each message

vars == <<snd, rcv, net, faults, got>>

None == -1

\* The packets of message m, as CSndBuffer::addBuffer cuts them.
Packets(m) ==
    [k \in 1 .. Messages[m].len |->
        [msg |-> m, idx |-> k, order |-> Messages[m].order,
         bound |-> (IF k = 1 THEN 2 ELSE 0) + (IF k = Messages[m].len THEN 1 ELSE 0)]]

Init ==
    /\ snd = [buf |-> <<>>,             \* packets not acknowledged, oldest first
              read |-> 0,               \* how many of them packData has read once
              next |-> 1,               \* the next message of the application
              lastAck |-> ISN,          \* m_iSndLastAck
              lastDataAck |-> ISN,      \* m_iSndLastDataAck
              curr |-> decseq(ISN),     \* m_iSndCurrSeqNo
              flow |-> FlightSize,      \* m_iFlowWindowSize
              loss |-> {},              \* m_pSndLossList
              picked |-> None,          \* the number packData took from the loss list
              broken |-> FALSE]         \* m_bBroken: a packet looked like an attack
    /\ rcv = [buf |-> EmptyRcvBuffer,
              lastAck |-> ISN,          \* m_iRcvLastAck
              lastAckAck |-> ISN,       \* m_iRcvLastAckAck
              curr |-> decseq(ISN),     \* m_iRcvCurrSeqNo
              loss |-> {},              \* m_pRcvLossList
              fresh |-> FALSE]          \* data came since the last acknowledgement (m_iPktCount)
    /\ net = [toRcv |-> <<>>, toSnd |-> <<>>]
    /\ faults = 0
    /\ got = <<>>

Oldest(S) == CHOOSE s \in S : \A t \in S : seqcmp(s, t) <= 0

Quiet == Len(net.toRcv) + Len(net.toSnd) < MaxQueue

SendToRcv(p) == net' = [net EXCEPT !.toRcv = Append(@, p)]

-----------------------------------------------------------------------------
(* The sending application and packData *)

\* sendmsg: blocks until the whole message fits.
sendmsg ==
    /\ snd.next \in DOMAIN Messages /\ ~snd.broken
    /\ Len(snd.buf) + Messages[snd.next].len <= SndBufSize
    /\ snd' = [snd EXCEPT !.buf = @ \o Packets(snd.next), !.next = @ + 1]
    /\ UNCHANGED <<rcv, net, faults, got>>

\* packData, retransmission first: getLostSeq.
PickLost ==
    /\ ~snd.broken /\ snd.picked = None /\ snd.loss # {} /\ Quiet
    /\ snd' = [snd EXCEPT !.picked = Oldest(snd.loss), !.loss = @ \ {Oldest(snd.loss)}]
    /\ UNCHANGED <<rcv, net, faults, got>>

\* ... then, under m_AckLock, the packet at that distance from the last acknowledged one.
SendPicked ==
    /\ snd.picked # None
    /\ LET offset == seqoff(snd.lastDataAck, snd.picked)
       IN  IF offset < 0 THEN UNCHANGED net
           ELSE SendToRcv([type |-> "data", seq |-> snd.picked, pkt |-> snd.buf[offset + 1]])
    /\ snd' = [snd EXCEPT !.picked = None]
    /\ UNCHANGED <<rcv, faults, got>>

\* Numbers sent and not acknowledged, one more included: what packData compares with the window.
WindowAfterNext == seqlen(snd.lastAck, incseq(snd.curr))

\* packData, no loss: the next packet of the buffer if the windows allow it.
SendNew ==
    /\ ~snd.broken /\ snd.picked = None /\ snd.loss = {}
    /\ WindowAfterNext <= snd.flow /\ WindowAfterNext <= CWnd
    /\ snd.read < Len(snd.buf)
    /\ SendToRcv([type |-> "data", seq |-> incseq(snd.curr), pkt |-> snd.buf[snd.read + 1]])
    /\ snd' = [snd EXCEPT !.curr = incseq(@), !.read = @ + 1]
    /\ UNCHANGED <<rcv, faults, got>>

-----------------------------------------------------------------------------
(* processCtrl of the sending end: snd after packet p *)

\* "this should not happen: attack or bug"
Tricked == [snd EXCEPT !.broken = TRUE]

\* A lite acknowledgement carries the number only.
OnLiteAck(p) ==
    IF seqcmp(p.ack, snd.lastAck) >= 0
    THEN [snd EXCEPT !.flow = @ - seqoff(snd.lastAck, p.ack), !.lastAck = p.ack]
    ELSE snd

\* mutant of OnAck: the packets are released from the last acknowledgement, lite ones included
OnAckFromLastAck(p) ==
    LET offset == seqoff(snd.lastAck, p.ack)
        S == [snd EXCEPT !.flow = p.win, !.lastAck = p.ack]
    IN  IF offset < 0 THEN snd
        ELSE [S EXCEPT !.buf = SubSeq(@, offset + 1, Len(@)), !.read = @ - offset,
                       !.lastDataAck = p.ack,
                       !.loss = {s \in @ : seqcmp(s, p.ack) >= 0}]

\* A full acknowledgement: the windows, then the buffer and the loss list.
OnAck(p) ==
    LET offset == seqoff(snd.lastDataAck, p.ack)
        S == IF seqcmp(p.ack, snd.lastAck) >= 0
             THEN [snd EXCEPT !.flow = p.win, !.lastAck = p.ack]
             ELSE snd
    IN  IF seqcmp(p.ack, incseq(snd.curr)) > 0 THEN Tricked
        ELSE IF offset <= 0 THEN S
        ELSE [S EXCEPT !.buf = SubSeq(@, offset + 1, Len(@)), !.read = @ - offset,
                       !.lastDataAck = p.ack,
                       !.loss = {s \in @ : seqcmp(s, p.ack) >= 0}]

\* A loss report of from..to: what is not acknowledged yet joins the loss list.
OnNak(p) ==
    LET from == IF seqcmp(p.from, snd.lastAck) >= 0 THEN p.from ELSE snd.lastAck
    IN  IF seqcmp(p.from, p.to) > 0 \/ seqcmp(p.to, snd.curr) > 0 THEN Tricked
        ELSE IF seqcmp(p.to, snd.lastAck) < 0 THEN snd
        ELSE [snd EXCEPT !.loss = @ \cup SeqRange(from, p.to)]

\* The sending end takes the next packet; an acknowledgement is acknowledged in turn.
SenderReceives ==
    /\ net.toSnd # <<>>
    /\ LET p == Head(net.toSnd)
           rest == [net EXCEPT !.toSnd = Tail(@)]
       IN  IF snd.broken THEN net' = rest /\ UNCHANGED snd
           ELSE \/ /\ p.type = "lite"
                   /\ snd' = OnLiteAck(p) /\ net' = rest
                \/ /\ p.type = "ack"
                   /\ snd' = OnAck(p)
                   /\ net' = [rest EXCEPT !.toRcv = Append(@, [type |-> "ack2", ack |-> p.ack])]
                \/ /\ p.type = "nak"
                   /\ snd' = OnNak(p) /\ net' = rest
    /\ UNCHANGED <<rcv, faults, got>>

\* checkTimers, nothing heard for the expiration interval: everything in flight is lost.
SenderExpires ==
    /\ ~snd.broken /\ Quiet
    /\ snd.buf # <<>> /\ incseq(snd.curr) # snd.lastAck /\ snd.loss = {}
    /\ snd' = [snd EXCEPT !.loss = SeqRange(snd.lastAck, snd.curr)]
    /\ UNCHANGED <<rcv, net, faults, got>>

-----------------------------------------------------------------------------
(* The receiving end *)

SendToSnd(p) == net' = [net EXCEPT !.toRcv = Tail(@), !.toSnd = @ \o p]

\* mutant of OnData: a retransmitted packet stays in the loss list
OnDataKeepLoss(p) ==
    LET offset == seqoff(rcv.lastAck, p.seq)
        a == addData(rcv.buf, p.pkt, offset)
        gap == seqcmp(p.seq, incseq(rcv.curr)) > 0
        lost == SeqRange(incseq(rcv.curr), decseq(p.seq))
    IN  IF offset < 0 \/ offset >= getAvailBufSize(rcv.buf) THEN rcv
        ELSE IF a.res < 0 THEN [rcv EXCEPT !.buf = a.buf]
        ELSE [rcv EXCEPT !.buf = a.buf, !.loss = IF gap THEN @ \cup lost ELSE @,
                         !.curr = IF seqcmp(p.seq, @) > 0 THEN p.seq ELSE @]

\* processData: the receiving end after data packet p.
OnData(p) ==
    LET offset == seqoff(rcv.lastAck, p.seq)
        a == addData(rcv.buf, p.pkt, offset)
        gap == seqcmp(p.seq, incseq(rcv.curr)) > 0
        lost == SeqRange(incseq(rcv.curr), decseq(p.seq))
    IN  IF offset < 0 \/ offset >= getAvailBufSize(rcv.buf) THEN rcv
        ELSE IF a.res < 0 THEN [rcv EXCEPT !.buf = a.buf]
        ELSE [rcv EXCEPT !.buf = a.buf,
                         !.loss = IF gap THEN @ \cup lost ELSE @ \ {p.seq},
                         !.curr = IF seqcmp(p.seq, @) > 0 THEN p.seq ELSE @]

\* The loss report processData sends at once when p opens a gap.
ReportFor(p) ==
    IF OnData(p).loss \subseteq rcv.loss THEN <<>>
    ELSE <<[type |-> "nak", from |-> incseq(rcv.curr), to |-> decseq(p.seq)]>>

\* The receiving end takes the next packet.
ReceiverReceives ==
    /\ net.toRcv # <<>>
    /\ LET p == Head(net.toRcv)
       IN  \/ /\ p.type = "data"
              /\ rcv' = [OnData(p) EXCEPT !.fresh = TRUE]
              /\ SendToSnd(ReportFor(p))
           \/ /\ p.type = "ack2"
              /\ rcv' = [rcv EXCEPT !.lastAckAck = IF seqcmp(p.ack, @) > 0 THEN p.ack ELSE @]
              /\ SendToSnd(<<>>)
    /\ UNCHANGED <<snd, faults, got>>

\* What an acknowledgement says: the first missing number, or the one after the last.
AckNumber == IF rcv.loss = {} THEN incseq(rcv.curr) ELSE Oldest(rcv.loss)

AckSend(p) == net' = [net EXCEPT !.toSnd = Append(@, p)]

\* mutant of SendFullAck: a full buffer closes the window
SendFullAckNoMinimum ==
    /\ AckNumber # rcv.lastAckAck /\ Quiet
    /\ LET moved == seqcmp(AckNumber, rcv.lastAck) > 0
           B == rcvAckData(rcv.buf, seqoff(rcv.lastAck, AckNumber))
           R == IF moved THEN [rcv EXCEPT !.lastAck = AckNumber, !.buf = B, !.fresh = FALSE]
                ELSE [rcv EXCEPT !.fresh = FALSE]
       IN  /\ AckNumber = R.lastAck
           /\ rcv' = R
           /\ AckSend([type |-> "ack", ack |-> R.lastAck, win |-> getAvailBufSize(R.buf)])
    /\ UNCHANGED <<snd, faults, got>>

\* sendCtrl(2) by the timer of checkTimers: release the buffer up to the number and tell the
\* sender, again and again until it has acknowledged the acknowledgement.  A full buffer is
\* announced as a window of two.
SendFullAck ==
    /\ AckNumber # rcv.lastAckAck /\ Quiet
    /\ LET moved == seqcmp(AckNumber, rcv.lastAck) > 0
           B == rcvAckData(rcv.buf, seqoff(rcv.lastAck, AckNumber))
           R == IF moved THEN [rcv EXCEPT !.lastAck = AckNumber, !.buf = B, !.fresh = FALSE]
                ELSE [rcv EXCEPT !.fresh = FALSE]
           avail == getAvailBufSize(R.buf)
       IN  /\ AckNumber = R.lastAck
           /\ rcv' = R
           /\ IF seqcmp(R.lastAck, R.lastAckAck) > 0
              THEN AckSend([type |-> "ack", ack |-> R.lastAck, win |-> IF avail < 2 THEN 2 ELSE avail])
              ELSE UNCHANGED net
    /\ UNCHANGED <<snd, faults, got>>

\* sendCtrl(2) of size 4, every so many packets (here: every packet at the most).
SendLiteAck ==
    /\ rcv.fresh /\ AckNumber # rcv.lastAckAck /\ Quiet
    /\ AckSend([type |-> "lite", ack |-> AckNumber])
    /\ rcv' = [rcv EXCEPT !.fresh = FALSE]
    /\ UNCHANGED <<snd, faults, got>>

\* recvmsg: the next readable message, if there is one.
recvmsg ==
    /\ LET r == readMsg(rcv.buf)
       IN  /\ r.buf # rcv.buf
           /\ rcv' = [rcv EXCEPT !.buf = r.buf]
           /\ got' = IF r.out = <<>> THEN got ELSE Append(got, r.out)
    /\ UNCHANGED <<snd, net, faults>>

-----------------------------------------------------------------------------
(* The network: the packet at the front of a direction is lost, delivered  *)
(* twice, or overtaken by the others.                                      *)

Fault(dir) ==
    /\ faults < MaxFaults /\ net[dir] # <<>>
    /\ faults' = faults + 1
    /\ \/ net' = [net EXCEPT ![dir] = Tail(@)]
       \/ net' = [net EXCEPT ![dir] = Append(@, Head(@))]
       \/ net' = [net EXCEPT ![dir] = Append(Tail(@), Head(@))]
    /\ UNCHANGED <<snd, rcv, got>>

Next ==
    \/ sendmsg \/ PickLost \/ SendPicked \/ SendNew
    \/ SenderReceives \/ SenderExpires
    \/ ReceiverReceives \/ SendFullAck \/ SendLiteAck \/ recvmsg
    \/ Fault("toRcv") \/ Fault("toSnd")

NothingToRead == readMsg(rcv.buf).out = <<>>

\* Both threads of each end run, timers fire, the applications call, and the network delivers
\* what it has not lost.  Strong fairness stands for the length of the timers: they do not fire
\* so often that nothing else is ever sent (and for the bound in Quiet, which the code has not).
TransferFairness ==
    /\ WF_vars(sendmsg) /\ WF_vars(SendPicked)
    /\ WF_vars(SenderReceives) /\ WF_vars(ReceiverReceives) /\ []<>NothingToRead
    /\ SF_vars(SendNew) /\ SF_vars(PickLost) /\ SF_vars(SenderExpires) /\ SF_vars(SendFullAck)

Spec == Init /\ [][Next]_vars /\ TransferFairness

-----------------------------------------------------------------------------
\* Types.
TypeOK ==
    /\ {snd.lastAck, snd.lastDataAck, snd.curr, rcv.lastAck, rcv.lastAckAck, rcv.curr} \subseteq SeqNos
    /\ snd.loss \subseteq SeqNos /\ rcv.loss \subseteq SeqNos
    /\ snd.picked \in SeqNos \cup {None}
    /\ snd.read \in 0 .. Len(snd.buf) /\ Len(snd.buf) <= SndBufSize

\* The sending buffer and the numbers stay in step: the packet at distance k from the last
\* acknowledged one bears the number k after m_iSndLastDataAck.  Retransmission (packData),
\* release (ackData) and the loss list all rely on it.  And whatever the network does, honest ends
\* never take each other for attackers (the "attack or bug" branches of processCtrl).
NumbersMatchBuffer ==
    /\ ~snd.broken
    /\ seqoff(snd.lastDataAck, incseq(snd.curr)) = snd.read
    /\ seqoff(snd.lastDataAck, snd.lastAck) \in 0 .. snd.read
    /\ \A s \in snd.loss : seqoff(snd.lastDataAck, s) \in 0 .. snd.read - 1

\* A packet leaves the sending buffer only when the receiver holds it: the sender's
\* acknowledged number never overtakes what the receiver would acknowledge.
AckedIsReceived == seqcmp(snd.lastAck, AckNumber) <= 0

\* Between the receiver's acknowledgement and its newest packet each number is either in the ring
\* or in its loss list.
RingOrLoss ==
    \A k \in 0 .. seqoff(rcv.lastAck, rcv.curr) :
        Held(rcv.buf, Ring(rcv.buf.ackPos + k)) <=> addseq(rcv.lastAck, k) \notin rcv.loss

\* So no packet is released that is still missing, and none is missing that is never asked for.
NothingForgotten == AckedIsReceived /\ RingOrLoss

\* The message a read returned, 0 if its packets are not exactly those of one message.
MessageOf(out) ==
    IF \E m \in DOMAIN Messages : out = Packets(m)
    THEN CHOOSE m \in DOMAIN Messages : out = Packets(m) ELSE 0

\* What the applications see is the channel of UdtChannel: whole messages, none twice, ordered
\* ones after everything before them.
Ordered(m) == Messages[m].order
Channel == INSTANCE UdtChannel WITH
    accepted <- snd.next - 1, delivered <- [k \in DOMAIN got |-> MessageOf(got[k])]
ImplementsChannel == Channel!ChannelSpec

\* Every message sent is delivered.
EverythingArrives == <>(Len(got) = Len(Messages))
=============================================================================
