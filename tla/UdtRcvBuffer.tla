---------------------------- MODULE UdtRcvBuffer ----------------------------
(***************************************************************************)
(* CRcvBuffer of udt4's buffer.cpp: a ring of units filled out of order by *)
(* the receiving thread, acknowledged in order, and read by the            *)
(* application either as a stream of bytes or message by message.          *)
(*                                                                         *)
(* A buffer is a record: m_pUnit is unit, m_iStartPos start, m_iLastAckPos *)
(* ackPos, m_iMaxPos maxPos and m_iNotch notch.  A unit is its packet and  *)
(* its flag: 1 good, 2 read before its acknowledgement, 3 dropped.  A      *)
(* packet knows its message, its length and, as in the header, whether it  *)
(* is the first (2), the last (1), the only (3) or an inner (0) packet of  *)
(* the message and whether the message must be read in order.              *)
(***************************************************************************)
EXTENDS Integers, Sequences, FiniteSets

CONSTANT RcvBufSize     \* m_iSize: places of the ring

ASSUME RcvBufAssumption == RcvBufSize \in Nat /\ RcvBufSize > 1

NoUnit == [flag |-> 0]

Ring(k) == k % RcvBufSize

EmptyRcvBuffer == [unit |-> [i \in 0 .. RcvBufSize - 1 |-> NoUnit],
                   start |-> 0, ackPos |-> 0, maxPos |-> 0, notch |-> 0]

Held(B, i) == B.unit[i] # NoUnit

getRcvDataSize(B) == Ring(B.ackPos - B.start)

\* One place stays empty to tell a full ring from an empty one.
getAvailBufSize(B) == RcvBufSize - getRcvDataSize(B) - 1

\* addData: [buf, res], res = -1 when the place is taken.
addData(B, pkt, offset) ==
    LET pos == Ring(B.ackPos + offset)
        C == [B EXCEPT !.maxPos = IF offset > @ THEN offset ELSE @]
    IN  IF Held(B, pos) THEN [buf |-> C, res |-> -1]
        ELSE [buf |-> [C EXCEPT !.unit[pos] = [pkt |-> pkt, flag |-> 1]], res |-> 0]

\* ackData
rcvAckData(B, len) ==
    [B EXCEPT !.ackPos = Ring(@ + len), !.maxPos = IF @ < len THEN 0 ELSE @ - len]

\* dropMsg compares the bare number with the whole header word, boundary and order bits
\* included: only inner packets of a message that may be read out of order match.
dropMsg(B, msg) ==
    LET upto == Ring(B.ackPos + B.maxPos - B.start)
        hit(i) == /\ Ring(i - B.start) < upto
                  /\ Held(B, i)
                  /\ B.unit[i].pkt.msg = msg /\ B.unit[i].pkt.bound = 0 /\ ~B.unit[i].pkt.order
    IN  [B EXCEPT !.unit = [i \in DOMAIN @ |-> IF hit(i) THEN [@[i] EXCEPT !.flag = 3] ELSE @[i]]]

-----------------------------------------------------------------------------
(* Reading bytes *)

\* The bytes left of the packet k places after the start: m_iNotch remembers how much of the first
\* one is read.
Skip(B, k) == IF k = 0 THEN B.notch ELSE 0
Left(B, k) == B.unit[Ring(B.start + k)].pkt.len - Skip(B, k)

\* The bytes of the next n packets, and how many packets the next len bytes lie in.
FirstPackets(B, n) ==
    LET sum[k \in 0 .. n] == IF k = 0 THEN 0 ELSE sum[k - 1] + Left(B, k - 1) IN sum[n]
PacketsIn(B, len) == Cardinality({k \in 0 .. getRcvDataSize(B) - 1 : FirstPackets(B, k) < len})

\* The next n bytes of the packet k places after the start, each as <<packet, position>>.
BytesAt(B, k, n) == [i \in 1 .. n |-> <<B.unit[Ring(B.start + k)].pkt, Skip(B, k) + i>>]

\* readBuffer: [buf, out]; a packet read in part keeps its place.
readBuffer(B, len) ==
    LET n == Cardinality({k \in 1 .. getRcvDataSize(B) : FirstPackets(B, k) <= len})   \* read to their end
        rest == IF n < getRcvDataSize(B) THEN len - FirstPackets(B, n) ELSE 0
        bytes[k \in 0 .. n] == IF k = 0 THEN <<>> ELSE bytes[k - 1] \o BytesAt(B, k - 1, Left(B, k - 1))
    IN  [buf |-> [B EXCEPT !.unit = [i \in DOMAIN @ |-> IF Ring(i - B.start) < n THEN NoUnit ELSE @[i]],
                           !.start = Ring(@ + n),
                           !.notch = (IF n = 0 THEN @ ELSE 0) + rest],
         out |-> bytes[n] \o IF rest > 0 THEN BytesAt(B, n, rest) ELSE <<>>]

-----------------------------------------------------------------------------
(* Reading messages *)

\* The unit k places after the start.
Nth(B, k) == B.unit[Ring(B.start + k)]
Good(B, k) == Nth(B, k).flag = 1
Bound(B, k) == Nth(B, k).pkt.bound

\* The k-th place starts a message that is whole as far as it is acknowledged.
WholeFrom(B, k) ==
    /\ Good(B, k) /\ Bound(B, k) > 1
    /\ \E e \in k .. getRcvDataSize(B) :
          /\ \A i \in k .. e - 1 : Good(B, i)
          /\ e = getRcvDataSize(B) \/ (Good(B, e) /\ Bound(B, e) \in {1, 3})

\* The first loop of scanMsg: what is acknowledged and no start of a whole message is skipped.
SkipBad(B) ==
    LET acked == getRcvDataSize(B)
        k == CHOOSE j \in 0 .. acked : /\ j = acked \/ WholeFrom(B, j)
                                       /\ \A i \in 0 .. j - 1 : ~WholeFrom(B, i)
    IN  [B EXCEPT !.unit = [i \in DOMAIN @ |-> IF Ring(i - B.start) < k THEN NoUnit ELSE @[i]],
                  !.start = Ring(@ + k)]

\* Place h holds the head of the message that place k belongs to, or of an earlier one with no
\* hole in between.
HeadOf(B, h, k) == (\A i \in h .. k : Good(B, i)) /\ Bound(B, h) > 1

\* The second loop of scanMsg finds at place k the end of a message that may be read: it is
\* acknowledged or needs no order.
Ends(B, k) ==
    /\ Good(B, k) /\ Bound(B, k) \in {1, 3}
    /\ \E h \in 0 .. k : HeadOf(B, h, k)
    /\ k < getRcvDataSize(B) \/ ~Nth(B, k).pkt.order

NoMsg(B) == [buf |-> B, p |-> 0, q |-> 0, passack |-> FALSE, found |-> FALSE]

Least(S) == CHOOSE k \in S : \A j \in S : k <= j
Greatest(S) == CHOOSE k \in S : \A j \in S : j <= k

\* The message that ends at place q.
MsgTo(B, q) ==
    [buf |-> B, p |-> Greatest({h \in 0 .. q : HeadOf(B, h, q)}), q |-> q,
     passack |-> q >= getRcvDataSize(B), found |-> TRUE]

\* The second loop of scanMsg and what follows: a message as large as the ring counts as found.
FirstMsg(B) ==
    LET last == B.maxPos + getRcvDataSize(B)
        ends == {k \in 0 .. last : Ends(B, k)}
        heads == {h \in 0 .. last : HeadOf(B, h, last)}
    IN  IF ends # {} THEN MsgTo(B, Least(ends))
        ELSE IF heads # {} /\ Ring(last + 2 - Greatest(heads)) = 0
        THEN [buf |-> B, p |-> Greatest(heads), q |-> last + 1, passack |-> TRUE, found |-> TRUE]
        ELSE NoMsg(B)

\* scanMsg: [buf, p, q, passack, found], p and q as places from the start.
scanMsg(B) == IF B.start = B.ackPos /\ B.maxPos <= 0 THEN NoMsg(B) ELSE FirstMsg(SkipBad(B))

\* The packets of a message found leave the ring; those not acknowledged stay, marked as read.
TakeMsg(m) ==
    LET n == Ring(m.q + 1 - m.p)
        inside(i) == Ring(i - m.buf.start - m.p) < n
        left(i) == IF m.passack THEN [m.buf.unit[i] EXCEPT !.flag = 2] ELSE NoUnit
    IN  [buf |-> [m.buf EXCEPT !.unit = [i \in DOMAIN @ |-> IF inside(i) THEN left(i) ELSE @[i]],
                               !.start = IF m.passack THEN @ ELSE Ring(@ + m.q + 1)],
         out |-> [k \in 1 .. n |-> Nth(m.buf, m.p + k - 1).pkt]]

\* readMsg: [buf, out], out the packets of the message.
ReadFound(m) == IF m.found THEN TakeMsg(m) ELSE [buf |-> m.buf, out |-> <<>>]
readMsg(B) == ReadFound(scanMsg(B))
=============================================================================
