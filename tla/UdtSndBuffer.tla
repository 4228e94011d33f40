---------------------------- MODULE UdtSndBuffer ----------------------------
(***************************************************************************)
(* CSndBuffer of udt4's buffer.cpp: a ring of blocks that grows by as many *)
(* blocks as it first had whenever a message would fill it.  Between       *)
(* m_pFirstBlock and m_pLastBlock are the packets not acknowledged, from   *)
(* m_pCurrBlock on those never read.  The application's thread adds        *)
(* (addBuffer), the thread of the sending queue reads, the thread of the   *)
(* receiving queue releases: addBuffer shows the blocks (m_pLastBlock)     *)
(* before it counts them (m_iCount), and the other two may act in between. *)
(***************************************************************************)
EXTENDS Integers, Sequences, FiniteSets

CONSTANTS
    MaxMsgNo,       \* CMsgNo::m_iMaxMsgNo
    MaxPackets,     \* the longest message, in packets
    Initial,        \* the first size of the ring (32)
    SndBufSize      \* m_iSndBufSize: the callers let no more than this many packets in

VARIABLES
    blocks,     \* the ring: of each block, m_pNext and what it holds
    at,         \* m_pFirstBlock, m_pCurrBlock and m_pLastBlock
    count,      \* m_iCount
    nextMsg,    \* m_iNextMsgNo
    adding,     \* packets that addBuffer has shown and not counted yet
    ret         \* what the last readData returned

sndBufVars == <<blocks, at, count, nextMsg, adding, ret>>

NoPacket == [msg |-> 0, bound |-> 0]

m_iSize == Cardinality(DOMAIN blocks)

SndBufferInit ==
    /\ blocks = [b \in 0 .. Initial - 1 |-> [next |-> (b + 1) % Initial, pkt |-> NoPacket]]
    /\ at = [first |-> 0, curr |-> 0, last |-> 0]
    /\ count = 0 /\ nextMsg = 1 /\ adding = 0 /\ ret = NoPacket

\* The packets of message msg: bound is 2 on the first one plus 1 on the last one.
Packets(msg, size) ==
    [k \in 1 .. size |-> [msg |-> msg, bound |-> (IF k = 1 THEN 2 ELSE 0) + (IF k = size THEN 1 ELSE 0)]]

NextMsgNo(msg) == IF msg + 1 = MaxMsgNo THEN 1 ELSE msg + 1

\* The block n places after block b.
After(ring, b, n) ==
    LET walk[k \in 0 .. n] == IF k = 0 THEN b ELSE ring[walk[k - 1]].next IN walk[n]

\* mutant of Increases: a ring may be filled to its last block
IncreasesLate(size) == CHOOSE g \in 0 .. SndBufSize :
    /\ size + count <= m_iSize + g * Initial
    /\ \A h \in 0 .. g - 1 : size + count > m_iSize + h * Initial

\* How often increase is called before a message of that size: the ring is never filled.
Increases(size) == CHOOSE g \in 0 .. SndBufSize :
    /\ size + count < m_iSize + g * Initial
    /\ \A h \in 0 .. g - 1 : size + count >= m_iSize + h * Initial

\* The ring after g calls of increase, each of which puts its blocks right after m_pLastBlock.
Increased(g) ==
    LET end(b) == (b + 1 - m_iSize) % Initial = 0           \* the last block of an increase
        after(b) == IF b < m_iSize + Initial THEN blocks[at.last].next ELSE b + 1 - 2 * Initial
    IN  [b \in 0 .. m_iSize + g * Initial - 1 |->
            IF b \in DOMAIN blocks
            THEN IF b = at.last /\ g > 0
                 THEN [blocks[b] EXCEPT !.next = m_iSize + (g - 1) * Initial] ELSE blocks[b]
            ELSE [next |-> IF end(b) THEN after(b) ELSE b + 1, pkt |-> NoPacket]]

\* addBuffer up to m_pLastBlock = s; sendmsg has waited until the message fits.
addBuffer(size) ==
    /\ adding = 0 /\ count + size <= SndBufSize
    /\ LET ring == Increased(Increases(size))
           pkts == Packets(nextMsg, size)
           place(b) == {k \in 1 .. size : After(ring, at.last, k - 1) = b}
       IN  /\ blocks' = [b \in DOMAIN ring |->
                            IF place(b) = {} THEN ring[b]
                            ELSE [ring[b] EXCEPT !.pkt = pkts[CHOOSE k \in place(b) : TRUE]]]
           /\ at' = [at EXCEPT !.last = After(ring, @, size)]
    /\ adding' = size
    /\ UNCHANGED <<count, nextMsg, ret>>

\* The rest of addBuffer.
addBufferDone ==
    /\ adding > 0 /\ adding' = 0
    /\ count' = count + adding
    /\ nextMsg' = NextMsgNo(nextMsg)
    /\ UNCHANGED <<blocks, at, ret>>

\* readData of the next packet, which needs no lock.
readData ==
    /\ ret' = IF at.curr = at.last THEN NoPacket ELSE blocks[at.curr].pkt
    /\ at' = IF at.curr = at.last THEN at ELSE [at EXCEPT !.curr = blocks[@].next]
    /\ UNCHANGED <<blocks, count, nextMsg, adding>>

\* Packets from m_pFirstBlock to block b.
Distance(b) == CHOOSE n \in 0 .. m_iSize - 1 : After(blocks, at.first, n) = b

\* readData of a lost packet at that distance from the oldest one (no lifetime is set).
readDataAt(offset) ==
    /\ offset < Distance(at.curr)
    /\ ret' = blocks[After(blocks, at.first, offset)].pkt
    /\ UNCHANGED <<blocks, at, count, nextMsg, adding>>

\* ackData: the peer acknowledges what was sent.  (The code leaves the packets in the freed
\* blocks, which are written before they are read again.)
ackData(offset) ==
    /\ offset <= Distance(at.curr)
    /\ at' = [at EXCEPT !.first = After(blocks, @, offset)]
    /\ blocks' = [b \in DOMAIN blocks |->
                     IF Distance(b) < offset THEN [blocks[b] EXCEPT !.pkt = NoPacket] ELSE blocks[b]]
    /\ count' = count - offset
    /\ UNCHANGED <<nextMsg, adding, ret>>

SndBufferNext ==
    \/ \E size \in 1 .. MaxPackets : addBuffer(size)
    \/ addBufferDone
    \/ readData
    \/ \E offset \in 0 .. SndBufSize : readDataAt(offset)
    \/ \E offset \in 1 .. SndBufSize : ackData(offset)

-----------------------------------------------------------------------------
\* What is in the ring, in order.
Queued == [k \in 1 .. Distance(at.last) |-> blocks[After(blocks, at.first, k - 1)].pkt]

\* The blocks form one ring, and the count is right as soon as addBuffer is over.
RingIsWhole ==
    /\ \A n \in 1 .. m_iSize - 1 : After(blocks, at.first, n) # at.first
    /\ count + adding = Distance(at.last)

\* Whatever the three threads do, the ring is the queue of UdtSendQueue: no packet is read
\* twice as a new one, overtaken, mixed up with another or lost while the ring grows around the
\* packets in use.  The message is in the queue as soon as its blocks are shown.
Queue == INSTANCE UdtSendQueue WITH
    queue <- Queued, read <- Distance(at.curr),
    nextMsg <- IF adding > 0 THEN NextMsgNo(nextMsg) ELSE nextMsg
SndBufferIsQueue == Queue!QueueSpec
=============================================================================
