---------------------------- MODULE UdtSendQueue ----------------------------
(***************************************************************************)
(* What the sending buffer promises: a queue of packets.  A message enters *)
(* it as one or more packets under one number, each packet is read in turn *)
(* for the first transmission, may be read again at its distance from the  *)
(* oldest one, and leaves when the peer has acknowledged it.               *)
(***************************************************************************)
EXTENDS Naturals, Sequences

CONSTANTS
    MaxMsgNo,       \* CMsgNo::m_iMaxMsgNo, which itself is never used
    MaxPackets      \* the longest message, in packets

VARIABLES
    queue,      \* the packets sent or to be sent and not acknowledged, oldest first
    read,       \* how many of them have been read once
    nextMsg,    \* the number of the next message
    ret         \* what the last read returned

NoPacket == [msg |-> 0, bound |-> 0]

\* The packets of message msg: bound is 2 on the first one plus 1 on the last one.
Packets(msg, size) ==
    [k \in 1 .. size |-> [msg |-> msg, bound |-> (IF k = 1 THEN 2 ELSE 0) + (IF k = size THEN 1 ELSE 0)]]

NextMsgNo(msg) == IF msg + 1 = MaxMsgNo THEN 1 ELSE msg + 1

QueueInit == queue = <<>> /\ read = 0 /\ nextMsg = 1 /\ ret = NoPacket

Add(size) ==
    /\ queue' = queue \o Packets(nextMsg, size)
    /\ nextMsg' = NextMsgNo(nextMsg)
    /\ UNCHANGED <<read, ret>>

ReadNext ==
    /\ ret' = IF read < Len(queue) THEN queue[read + 1] ELSE NoPacket
    /\ read' = IF read < Len(queue) THEN read + 1 ELSE read
    /\ UNCHANGED <<queue, nextMsg>>

ReadAgain ==
    /\ \E k \in 1 .. read : ret' = queue[k]
    /\ UNCHANGED <<queue, read, nextMsg>>

Release ==
    /\ \E n \in 1 .. read : queue' = SubSeq(queue, n + 1, Len(queue)) /\ read' = read - n
    /\ UNCHANGED <<nextMsg, ret>>

QueueNext ==
    \/ \E size \in 1 .. MaxPackets : Add(size)
    \/ ReadNext \/ ReadAgain \/ Release

QueueSpec == QueueInit /\ [][QueueNext]_<<queue, read, nextMsg, ret>>
=============================================================================
