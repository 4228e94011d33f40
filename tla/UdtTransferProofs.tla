-------------------------- MODULE UdtTransferProofs --------------------------
(***************************************************************************)
(* The numbers of a connection and its sending buffer stay in step,        *)
(* whatever the network does to the datagrams, as long as fewer packets    *)
(* are sent than two numbers may be apart to be compared.                  *)
(***************************************************************************)
EXTENDS UdtTransfer, WellFoundedInduction, TLAPS

\* First[m] packets come before message m, and never so many that the first and the last number
\* of the connection could not be compared any more.
FewPackets(First, n) ==
    /\ n \in Nat /\ DOMAIN Messages = 1 .. n
    /\ First \in [1 .. n + 1 -> Nat] /\ First[1] = 0
    /\ \A m \in 1 .. n : First[m + 1] = First[m] + Messages[m].len
    /\ \A m \in 1 .. n + 1 : First[m] + 1 < SeqNoTH

-----------------------------------------------------------------------------
(* Numbers on a line: how far a number is after the initial one *)

Pos(s) == seqoff(ISN, s)

\* Two such numbers are less than SeqNoTH apart.
Near(s) == s \in SeqNos /\ -1 <= Pos(s) /\ Pos(s) + 1 < SeqNoTH

LEMMA Line ==
    ASSUME NEW s, NEW t, Near(s), Near(t)
    PROVE  /\ Pos(s) \in Int /\ Pos(t) \in Int
           /\ seqoff(s, t) = Pos(t) - Pos(s)
           /\ seqcmp(s, t) \in Int
           /\ seqcmp(s, t) > 0 <=> Pos(s) > Pos(t)
           /\ seqcmp(s, t) < 0 <=> Pos(s) < Pos(t)
           /\ s = t <=> Pos(s) = Pos(t)
  BY SeqNoAssumption, TransferAssumption DEF Near, Pos, SeqNos, seqoff, seqcmp, absdiff

LEMMA Start ==
    ASSUME SeqNoTH > 1
    PROVE  Near(ISN) /\ Pos(ISN) = 0 /\ Near(decseq(ISN)) /\ Pos(decseq(ISN)) = -1
<1>1. ISN \in 0 .. MaxSeqNo /\ MaxSeqNo \in Nat /\ SeqNoTH \in Nat /\ 2 * SeqNoTH < MaxSeqNo + 1
  BY SeqNoAssumption, TransferAssumption DEF SeqNos
<1>2. Pos(ISN) = 0
  BY <1>1 DEF Pos, seqoff, absdiff
<1>3. decseq(ISN) \in SeqNos /\ decseq(ISN) = IF ISN = 0 THEN MaxSeqNo ELSE ISN - 1
  BY <1>1 DEF decseq, SeqNos
<1>4. Pos(decseq(ISN)) = -1
  <2>1. CASE ISN = 0
    BY <1>1, <1>3, <2>1 DEF Pos, seqoff, absdiff
  <2>2. CASE ISN # 0
    BY <1>1, <1>3, <2>2 DEF Pos, seqoff, absdiff
  <2> QED
    BY <2>1, <2>2
<1> QED
  BY <1>1, <1>2, <1>3, <1>4 DEF Near, SeqNos

LEMMA Inc ==
    ASSUME NEW s, Near(s), Pos(s) + 2 < SeqNoTH
    PROVE  Near(incseq(s)) /\ Pos(incseq(s)) = Pos(s) + 1
  BY SeqNoAssumption, TransferAssumption DEF Near, Pos, SeqNos, seqoff, absdiff, incseq

LEMMA Dec ==
    ASSUME NEW s, Near(s), Pos(s) >= 0
    PROVE  Near(decseq(s)) /\ Pos(decseq(s)) = Pos(s) - 1
  BY SeqNoAssumption, TransferAssumption DEF Near, Pos, SeqNos, seqoff, absdiff, decseq

LEMMA RangeIsBetween ==
    ASSUME NEW s, NEW t, Near(s), Near(t), Pos(s) <= Pos(t), NEW x \in SeqRange(s, t)
    PROVE  Near(x) /\ Pos(s) <= Pos(x) /\ Pos(x) <= Pos(t)
<1>1. PICK k \in 0 .. seqlen(s, t) - 1 : x = addseq(s, k)
  BY DEF SeqRange
<1>2. seqlen(s, t) = Pos(t) - Pos(s) + 1
  BY SeqNoAssumption, TransferAssumption DEF Near, Pos, SeqNos, seqoff, absdiff, seqlen
<1>3. Pos(s) \in Int /\ Pos(t) \in Int
  BY Line
<1>4. k \in Int /\ 0 <= k /\ k <= Pos(t) - Pos(s)
  BY <1>2, <1>3
<1>5. Near(x) /\ Pos(x) = Pos(s) + k
  BY <1>1, <1>3, <1>4, SeqNoAssumption, TransferAssumption DEF Near, Pos, SeqNos, seqoff, absdiff, addseq
<1> QED
  BY <1>3, <1>4, <1>5

LEMMA OldestIsFirst ==
    ASSUME NEW S, S # {}, \A s \in S : Near(s)
    PROVE  Oldest(S) \in S /\ \A t \in S : Pos(Oldest(S)) <= Pos(t)
<1> DEFINE P == {Pos(s) + 1 : s \in S}
<1>1. P \subseteq Nat /\ P # {}
  BY Line DEF Near
<1> HIDE DEF P
<1>2. PICK m \in P : \A k \in P : m <= k
  <2>1. PICK m \in P : \A k \in P : <<k, m>> \notin OpToRel(<, Nat)
    BY <1>1, WFMin, NatLessThanWellFounded
  <2>2. \A k \in P : <<k, m>> \in OpToRel(<, Nat) <=> k < m
    BY <1>1 DEF OpToRel
  <2>3. \A k \in P : ~(k < m)
    BY <2>1, <2>2
  <2>4. m \in Nat /\ P \subseteq Nat
    BY <1>1
  <2>5. \A k \in P : m <= k
    BY <2>3, <2>4
  <2> QED
    BY <2>5
<1> USE DEF P
<1>3. PICK s \in S : \A t \in S : Pos(s) <= Pos(t)
  <2>1. PICK s \in S : m = Pos(s) + 1
    OBVIOUS
  <2>2. \A t \in S : Pos(s) + 1 <= Pos(t) + 1
    BY <1>2, <2>1
  <2> QED
    BY <2>2, Line
<1>4. \A t \in S : seqcmp(s, t) <= 0
  <2> TAKE t \in S
  <2> QED
    BY <1>3, Line
<1>5. Oldest(S) \in S /\ \A t \in S : seqcmp(Oldest(S), t) <= 0
  BY <1>4 DEF Oldest
<1>6. \A t \in S : Pos(Oldest(S)) <= Pos(t)
  <2> TAKE t \in S
  <2>1. Near(Oldest(S)) /\ Near(t) /\ seqcmp(Oldest(S), t) <= 0
    BY <1>5
  <2> QED
    BY <2>1, Line
<1> QED
  BY <1>5, <1>6

-----------------------------------------------------------------------------
(* Sequences of whatever elements *)

Elems(q) == {q[i] : i \in DOMAIN q}
IsSeq(q) == q \in Seq(Elems(q))

LEMMA IsASeq == ASSUME NEW S, NEW n \in Nat, NEW q \in [1 .. n -> S] PROVE q \in Seq(S)
  OBVIOUS

LEMMA OwnElems == ASSUME NEW S, NEW q \in Seq(S) PROVE IsSeq(q)
<1>1. q \in [1 .. Len(q) -> Elems(q)] /\ Len(q) \in Nat
  BY DEF Elems
<1> QED
  BY <1>1, IsASeq DEF IsSeq

LEMMA AppendSeq ==
    ASSUME NEW q, IsSeq(q), NEW e
    PROVE  IsSeq(Append(q, e)) /\ Elems(Append(q, e)) = Elems(q) \cup {e}
<1>1. q \in Seq(Elems(q) \cup {e})
  BY DEF IsSeq
<1>2. Append(q, e) \in Seq(Elems(q) \cup {e}) /\ Len(Append(q, e)) = Len(q) + 1
  BY <1>1
<1>3. Elems(Append(q, e)) = Elems(q) \cup {e}
  BY <1>1, <1>2 DEF Elems
<1> QED
  BY <1>2, <1>3 DEF IsSeq

LEMMA TailSeq ==
    ASSUME NEW q, IsSeq(q), q # <<>>
    PROVE  Head(q) \in Elems(q) /\ IsSeq(Tail(q)) /\ Elems(Tail(q)) \subseteq Elems(q)
<1>1. Head(q) \in Elems(q) /\ Tail(q) \in Seq(Elems(q))
  BY DEF IsSeq, Elems
<1>2. Elems(Tail(q)) \subseteq Elems(q)
  BY <1>1 DEF Elems
<1> QED
  BY <1>1, <1>2, OwnElems

LEMMA ConcatSeq ==
    ASSUME NEW q, IsSeq(q), NEW r, IsSeq(r)
    PROVE  /\ IsSeq(q \o r) /\ Elems(q \o r) \subseteq Elems(q) \cup Elems(r)
           /\ Len(q \o r) = Len(q) + Len(r)
<1> DEFINE S == Elems(q) \cup Elems(r)
<1>1. q \in Seq(S) /\ r \in Seq(S)
  BY DEF IsSeq
<1> HIDE DEF S
<1>2. q \o r \in Seq(S) /\ Len(q \o r) = Len(q) + Len(r)
  BY <1>1
<1>3. Elems(q \o r) \subseteq S
  BY <1>2 DEF Elems
<1> QED
  BY <1>2, <1>3, OwnElems DEF S

LEMMA RestSeq ==
    ASSUME NEW q, IsSeq(q), NEW k \in 0 .. Len(q)
    PROVE  IsSeq(SubSeq(q, k + 1, Len(q))) /\ Len(SubSeq(q, k + 1, Len(q))) = Len(q) - k
<1> DEFINE r == SubSeq(q, k + 1, Len(q))
<1>1. r \in Seq(Elems(q)) /\ Len(r) = Len(q) - k
  BY DEF IsSeq
<1> QED
  BY <1>1, OwnElems

LEMMA EmptySeq == IsSeq(<<>>) /\ Elems(<<>>) = {}
  BY DEF IsSeq, Elems

-----------------------------------------------------------------------------
(* The invariant *)

Shape ==
    /\ DOMAIN snd = {"buf", "read", "next", "lastAck", "lastDataAck", "curr", "flow", "loss", "picked", "broken"}
    /\ DOMAIN rcv = {"buf", "lastAck", "lastAckAck", "curr", "loss", "fresh"}
    /\ DOMAIN net = {"toRcv", "toSnd"}
    /\ IsSeq(snd.buf) /\ IsSeq(net.toRcv) /\ IsSeq(net.toSnd)

\* Where a sending end S stands, of which A packets were accepted so far.
SenderAt(S, A) ==
    /\ ~S.broken
    /\ Near(S.lastDataAck) /\ Near(S.lastAck) /\ Near(S.curr)
    /\ S.read \in 0 .. Len(S.buf)
    /\ Pos(S.lastDataAck) >= 0
    /\ Pos(S.lastDataAck) + Len(S.buf) = A
    /\ Pos(S.lastDataAck) + S.read = Pos(S.curr) + 1
    /\ Pos(S.lastDataAck) <= Pos(S.lastAck) /\ Pos(S.lastAck) <= Pos(S.curr) + 1
    /\ \A s \in S.loss : Near(s) /\ Pos(S.lastDataAck) <= Pos(s) /\ Pos(s) <= Pos(S.curr)
    /\ S.picked # None => Near(S.picked) /\ 0 <= Pos(S.picked) /\ Pos(S.picked) <= Pos(S.curr)

\* A receiving end R that has heard of numbers up to last at most.
ReceiverAt(R, last) ==
    /\ Near(R.lastAck) /\ Near(R.curr)
    /\ 0 <= Pos(R.lastAck) /\ Pos(R.lastAck) <= Pos(R.curr) + 1 /\ Pos(R.curr) <= last
    /\ \A s \in R.loss : Near(s) /\ Pos(R.lastAck) <= Pos(s) /\ Pos(s) <= Pos(R.curr)

\* AckNumber of a receiving end R.
AckOf(R) == IF R.loss = {} THEN incseq(R.curr) ELSE Oldest(R.loss)

\* What is on its way to the receiver was sent; what is on its way back was received or is missing.
DataSent(q, S) ==
    \A p \in Elems(q) : p.type = "data" => Near(p.seq) /\ 0 <= Pos(p.seq) /\ Pos(p.seq) <= Pos(S.curr)
ReportsTrue(q, R) ==
    \A p \in Elems(q) :
        /\ p.type \in {"lite", "ack"} => Near(p.ack) /\ 0 <= Pos(p.ack) /\ Pos(p.ack) <= Pos(AckOf(R))
        /\ p.type = "nak" => /\ Near(p.from) /\ Near(p.to) /\ 0 <= Pos(p.from)
                             /\ Pos(p.from) <= Pos(p.to) /\ Pos(p.to) <= Pos(R.curr)

IInv(First, n) ==
    /\ Shape
    /\ snd.next \in 1 .. n + 1 /\ SenderAt(snd, First[snd.next])
    /\ ReceiverAt(rcv, Pos(snd.curr))
    /\ Pos(snd.lastAck) <= Pos(AckOf(rcv))
    /\ DataSent(net.toRcv, snd) /\ ReportsTrue(net.toSnd, rcv)

\* There is always room for one more number.
LEMMA Room ==
    ASSUME NEW First, NEW n, FewPackets(First, n), NEW S, NEW k \in 1 .. n + 1, SenderAt(S, First[k])
    PROVE  /\ Pos(S.curr) \in Int /\ Pos(S.curr) + 2 < SeqNoTH /\ First[k] \in Nat
           /\ Near(incseq(S.curr)) /\ Pos(incseq(S.curr)) = Pos(S.curr) + 1
<1>1. First[k] \in Nat /\ First[k] + 1 < SeqNoTH
  BY DEF FewPackets
<1>2. Pos(S.curr) \in Int /\ Pos(S.lastDataAck) \in Int /\ Near(S.curr)
  BY Line DEF SenderAt
<1>3. IF S.read = Len(S.buf) THEN Pos(S.curr) + 1 = First[k] ELSE Pos(S.curr) + 1 < First[k]
  BY <1>1, <1>2 DEF SenderAt
<1>4. Pos(S.curr) + 2 < SeqNoTH
  BY <1>1, <1>2, <1>3, SeqNoAssumption
<1> QED
  BY <1>1, <1>2, <1>4, Inc

\* The next acknowledgement is the first number that is missing.
LEMMA AckOfIs ==
    ASSUME NEW R, NEW last \in Int, ReceiverAt(R, last), last + 2 < SeqNoTH
    PROVE  /\ Near(AckOf(R)) /\ Pos(R.lastAck) <= Pos(AckOf(R)) /\ Pos(AckOf(R)) <= Pos(R.curr) + 1
           /\ R.loss = {} => Pos(AckOf(R)) = Pos(R.curr) + 1
           /\ R.loss # {} => AckOf(R) \in R.loss /\ \A s \in R.loss : Pos(AckOf(R)) <= Pos(s)
<1>0. Pos(R.curr) \in Int /\ Pos(R.lastAck) \in Int
  BY Line DEF ReceiverAt
<1>1. CASE R.loss = {}
  <2>1. Near(incseq(R.curr)) /\ Pos(incseq(R.curr)) = Pos(R.curr) + 1
    BY <1>0, Inc, SeqNoAssumption DEF ReceiverAt
  <2> QED
    BY <1>0, <1>1, <2>1 DEF AckOf, ReceiverAt
<1>2. CASE R.loss # {}
  <2>1. \A s \in R.loss : Near(s)
    BY DEF ReceiverAt
  <2>2. Oldest(R.loss) \in R.loss /\ \A t \in R.loss : Pos(Oldest(R.loss)) <= Pos(t)
    BY <1>2, <2>1, OldestIsFirst
  <2>3. /\ Near(Oldest(R.loss)) /\ Pos(Oldest(R.loss)) \in Int
        /\ Pos(R.lastAck) <= Pos(Oldest(R.loss)) /\ Pos(Oldest(R.loss)) <= Pos(R.curr)
    BY <2>2, Line DEF ReceiverAt
  <2> QED
    BY <1>0, <1>2, <2>2, <2>3 DEF AckOf
<1> QED
  BY <1>1, <1>2

LEMMA Beginning ==
    ASSUME NEW First, NEW n, FewPackets(First, n), Init
    PROVE  IInv(First, n)
<1>1. SeqNoTH > 1 /\ First[1] = 0 /\ 1 \in 1 .. n + 1
  BY SeqNoAssumption DEF FewPackets
<1>2. Near(ISN) /\ Pos(ISN) = 0 /\ Near(decseq(ISN)) /\ Pos(decseq(ISN)) = -1
  BY <1>1, Start
<1>3. Shape
  BY EmptySeq DEF Init, Shape
<1>4. snd.next = 1 /\ SenderAt(snd, 0)
  BY <1>2 DEF Init, SenderAt
<1>5. ReceiverAt(rcv, Pos(snd.curr))
  BY <1>2 DEF Init, ReceiverAt
<1>6. Pos(AckOf(rcv)) = 0
  <2>1. incseq(decseq(ISN)) = ISN
    BY SeqNoAssumption, TransferAssumption DEF incseq, decseq, SeqNos
  <2> QED
    BY <1>2, <2>1 DEF Init, AckOf
<1>7. DataSent(net.toRcv, snd) /\ ReportsTrue(net.toSnd, rcv)
  BY EmptySeq DEF Init, DataSent, ReportsTrue
<1>8. Pos(snd.lastAck) <= Pos(AckOf(rcv))
  BY <1>2, <1>6 DEF Init
<1> QED
  BY <1>1, <1>3, <1>4, <1>5, <1>7, <1>8 DEF IInv

-----------------------------------------------------------------------------
(* What the sending end makes of a report *)

\* S is the sending end after a report: it has sent and accepted what it had before.
After(S, A) ==
    /\ DOMAIN S = DOMAIN snd /\ IsSeq(S.buf) /\ S.next = snd.next /\ S.curr = snd.curr
    /\ SenderAt(S, A) /\ Pos(S.lastAck) <= Pos(AckOf(rcv))

\* What the lemmas below are proved from.
LEMMA Facts ==
    ASSUME NEW First, NEW n, FewPackets(First, n), IInv(First, n)
    PROVE  /\ {Pos(snd.lastAck), Pos(snd.lastDataAck), Pos(snd.curr), Pos(rcv.curr), Pos(rcv.lastAck)} \subseteq Int
           /\ Pos(snd.curr) + 2 < SeqNoTH /\ First[snd.next] \in Nat
           /\ Near(incseq(snd.curr)) /\ Pos(incseq(snd.curr)) = Pos(snd.curr) + 1
           /\ Near(AckOf(rcv)) /\ Pos(AckOf(rcv)) \in Int
           /\ Pos(rcv.lastAck) <= Pos(AckOf(rcv)) /\ Pos(AckOf(rcv)) <= Pos(rcv.curr) + 1
           /\ Pos(rcv.curr) <= Pos(snd.curr)
           /\ After(snd, First[snd.next])
<1>1. SenderAt(snd, First[snd.next]) /\ snd.next \in 1 .. n + 1 /\ ReceiverAt(rcv, Pos(snd.curr)) /\ Shape
  BY DEF IInv
<1>2. /\ Pos(snd.curr) \in Int /\ Pos(snd.curr) + 2 < SeqNoTH /\ First[snd.next] \in Nat
      /\ Near(incseq(snd.curr)) /\ Pos(incseq(snd.curr)) = Pos(snd.curr) + 1
  BY <1>1, Room
<1>3. /\ Near(AckOf(rcv)) /\ Pos(rcv.lastAck) <= Pos(AckOf(rcv)) /\ Pos(AckOf(rcv)) <= Pos(rcv.curr) + 1
  BY <1>1, <1>2, AckOfIs
<1>4. {Pos(snd.lastAck), Pos(snd.lastDataAck), Pos(rcv.curr), Pos(rcv.lastAck), Pos(AckOf(rcv))} \subseteq Int
  BY <1>1, <1>3, Line DEF SenderAt, ReceiverAt
<1>5. Pos(rcv.curr) <= Pos(snd.curr)
  BY <1>1 DEF ReceiverAt
<1>6. After(snd, First[snd.next])
  BY <1>1 DEF IInv, After, Shape
<1> QED
  BY <1>2, <1>3, <1>4, <1>5, <1>6

LEMMA LiteAckAdvances ==
    ASSUME NEW First, NEW n, FewPackets(First, n), IInv(First, n),
           NEW p \in Elems(net.toSnd), p.type = "lite"
    PROVE  After(OnLiteAck(p), First[snd.next])
<1>1. Near(p.ack) /\ 0 <= Pos(p.ack) /\ Pos(p.ack) <= Pos(AckOf(rcv))
  BY DEF IInv, ReportsTrue
<1>2. SenderAt(snd, First[snd.next]) /\ Shape
  BY DEF IInv
<1>3. CASE seqcmp(p.ack, snd.lastAck) >= 0
  <2>1. Pos(p.ack) \in Int /\ Pos(p.ack) >= Pos(snd.lastAck)
    BY <1>1, <1>2, <1>3, Line DEF SenderAt
  <2>2. PICK w : OnLiteAck(p) = [snd EXCEPT !.flow = w, !.lastAck = p.ack]
    BY <1>3 DEF OnLiteAck
  <2>3. Pos(snd.lastDataAck) <= Pos(p.ack) /\ Pos(p.ack) <= Pos(snd.curr) + 1
    BY <1>1, <1>2, <2>1, Facts DEF SenderAt
  <2> QED
    BY <1>1, <1>2, <2>2, <2>3, Facts DEF After, Shape, SenderAt
<1>4. CASE ~(seqcmp(p.ack, snd.lastAck) >= 0)
  BY <1>4, Facts DEF OnLiteAck
<1> QED
  BY <1>3, <1>4

LEMMA AckAdvances ==
    ASSUME NEW First, NEW n, FewPackets(First, n), IInv(First, n),
           NEW p \in Elems(net.toSnd), p.type = "ack"
    PROVE  After(OnAck(p), First[snd.next])
<1> DEFINE S == IF seqcmp(p.ack, snd.lastAck) >= 0
                THEN [snd EXCEPT !.flow = p.win, !.lastAck = p.ack]
                ELSE snd
           offset == seqoff(snd.lastDataAck, p.ack)
           R == [S EXCEPT !.buf = SubSeq(@, offset + 1, Len(@)), !.read = @ - offset,
                          !.lastDataAck = p.ack, !.loss = {s \in @ : seqcmp(s, p.ack) >= 0}]
<1>1. Near(p.ack) /\ 0 <= Pos(p.ack) /\ Pos(p.ack) <= Pos(AckOf(rcv))
  BY DEF IInv, ReportsTrue
<1>2. SenderAt(snd, First[snd.next]) /\ Shape /\ After(snd, First[snd.next])
  BY Facts DEF IInv
<1>3. /\ Pos(p.ack) \in Int /\ Pos(p.ack) <= Pos(snd.curr) + 1
      /\ seqcmp(p.ack, snd.lastAck) >= 0 <=> Pos(p.ack) >= Pos(snd.lastAck)
      /\ offset = Pos(p.ack) - Pos(snd.lastDataAck)
  <2>1. Near(snd.lastAck) /\ Near(snd.lastDataAck)
    BY <1>2 DEF SenderAt
  <2>2. /\ Pos(p.ack) \in Int /\ seqcmp(p.ack, snd.lastAck) \in Int /\ Pos(snd.lastAck) \in Int
        /\ seqcmp(p.ack, snd.lastAck) < 0 <=> Pos(p.ack) < Pos(snd.lastAck)
        /\ offset = Pos(p.ack) - Pos(snd.lastDataAck)
    BY <1>1, <2>1, Line
  <2>3. Pos(p.ack) <= Pos(snd.curr) + 1
    BY <1>1, <2>2, Facts
  <2> HIDE DEF offset
  <2> QED
    BY <2>2, <2>3
<1>4. ~(seqcmp(p.ack, incseq(snd.curr)) > 0)
  BY <1>1, <1>3, Line, Facts
<1>5. /\ After(S, First[snd.next])
      /\ S.buf = snd.buf /\ S.read = snd.read /\ S.lastDataAck = snd.lastDataAck /\ S.loss = snd.loss
      /\ S.picked = snd.picked /\ S.broken = snd.broken
      /\ Pos(p.ack) <= Pos(S.lastAck)
  <2>1. CASE seqcmp(p.ack, snd.lastAck) >= 0
    <3>1. /\ S.buf = snd.buf /\ S.read = snd.read /\ S.lastDataAck = snd.lastDataAck /\ S.loss = snd.loss
          /\ S.picked = snd.picked /\ S.broken = snd.broken /\ S.curr = snd.curr /\ S.next = snd.next
          /\ S.lastAck = p.ack /\ DOMAIN S = DOMAIN snd
      BY <1>2, <2>1 DEF Shape
    <3>2. Pos(snd.lastDataAck) <= Pos(p.ack)
      BY <1>2, <1>3, <2>1, Facts DEF SenderAt
    <3> HIDE DEF S
    <3>3. SenderAt(S, First[snd.next])
      BY <1>1, <1>2, <1>3, <3>1, <3>2 DEF SenderAt
    <3> QED
      BY <1>1, <1>2, <1>3, <3>1, <3>3 DEF After
  <2>2. CASE ~(seqcmp(p.ack, snd.lastAck) >= 0)
    <3>1. S = snd
      BY <2>2
    <3> QED
      BY <1>2, <1>3, <2>2, <3>1, Facts
  <2> QED
    BY <2>1, <2>2
<1>6. CASE offset <= 0
  BY <1>4, <1>5, <1>6 DEF OnAck
<1>7. CASE ~(offset <= 0)
  <2>1. OnAck(p) = R
    BY <1>4, <1>7 DEF OnAck
  <2> HIDE DEF S
  <2>2. DOMAIN S = DOMAIN snd
    BY <1>5 DEF After
  <2>3. /\ R.buf = SubSeq(snd.buf, offset + 1, Len(snd.buf)) /\ R.read = snd.read - offset
        /\ R.lastDataAck = p.ack /\ R.loss = {s \in snd.loss : seqcmp(s, p.ack) >= 0}
        /\ R.picked = snd.picked /\ R.broken = snd.broken /\ R.curr = S.curr /\ R.next = S.next
        /\ R.lastAck = S.lastAck /\ DOMAIN R = DOMAIN snd
    BY <1>2, <1>5, <2>2 DEF Shape
  <2> HIDE DEF R
  <2>4. offset \in 0 .. snd.read /\ snd.read \in 0 .. Len(snd.buf) /\ IsSeq(snd.buf) /\ Len(snd.buf) \in Nat
    <3>1. IsSeq(snd.buf)
      BY <1>2 DEF Shape
    <3>2. Len(snd.buf) \in Nat
      BY <3>1 DEF IsSeq
    <3>3. offset \in Int /\ offset <= snd.read /\ snd.read \in 0 .. Len(snd.buf)
      BY <1>2, <1>3, Facts DEF SenderAt
    <3> QED
      BY <1>7, <3>1, <3>2, <3>3
  <2>5. IsSeq(R.buf) /\ Len(R.buf) = Len(snd.buf) - offset
    BY <2>3, <2>4, RestSeq
  <2>6. \A s \in R.loss : Near(s) /\ Pos(p.ack) <= Pos(s) /\ Pos(s) <= Pos(snd.curr)
    <3> TAKE s \in R.loss
    <3>1. Near(s) /\ Pos(s) <= Pos(snd.curr) /\ seqcmp(s, p.ack) >= 0
      BY <1>2, <2>3 DEF SenderAt
    <3> QED
      BY <1>1, <3>1, Line
  <2>7. S.curr = snd.curr /\ SenderAt(S, First[snd.next]) /\ S.next = snd.next /\ Pos(S.lastAck) <= Pos(AckOf(rcv))
    BY <1>5 DEF After
  <2> HIDE DEF offset
  <2>8. R.read \in 0 .. Len(R.buf) /\ Pos(p.ack) + Len(R.buf) = First[snd.next]
        /\ Pos(p.ack) + R.read = Pos(snd.curr) + 1
    <3>1. /\ Pos(snd.lastDataAck) + Len(snd.buf) = First[snd.next]
          /\ Pos(snd.lastDataAck) + snd.read = Pos(snd.curr) + 1
      BY <1>2 DEF SenderAt
    <3>2. Pos(snd.lastDataAck) \in Int /\ Pos(p.ack) = Pos(snd.lastDataAck) + offset
      BY <1>3, <2>4, Facts
    <3>3. R.read = snd.read - offset /\ snd.read \in Nat
      BY <2>3, <2>4
    <3> QED
      BY <2>4, <2>5, <3>1, <3>2, <3>3
  <2>9. SenderAt(R, First[snd.next])
    BY <1>1, <1>5, <2>3, <2>6, <2>7, <2>8 DEF SenderAt
  <2> QED
    BY <2>1, <2>3, <2>5, <2>7, <2>9 DEF After
<1> QED
  BY <1>6, <1>7

LEMMA NakAddsUnacknowledged ==
    ASSUME NEW First, NEW n, FewPackets(First, n), IInv(First, n),
           NEW p \in Elems(net.toSnd), p.type = "nak"
    PROVE  After(OnNak(p), First[snd.next])
<1> DEFINE from == IF seqcmp(p.from, snd.lastAck) >= 0 THEN p.from ELSE snd.lastAck
<1>1. /\ Near(p.from) /\ Near(p.to) /\ 0 <= Pos(p.from)
      /\ Pos(p.from) <= Pos(p.to) /\ Pos(p.to) <= Pos(rcv.curr)
  BY DEF IInv, ReportsTrue
<1>2. SenderAt(snd, First[snd.next]) /\ Shape /\ After(snd, First[snd.next])
  BY Facts DEF IInv
<1>3. Pos(p.from) \in Int /\ Pos(p.to) \in Int /\ Near(snd.lastAck) /\ Near(snd.curr)
  BY <1>1, <1>2, Line DEF SenderAt
<1>4. ~(seqcmp(p.from, p.to) > 0 \/ seqcmp(p.to, snd.curr) > 0)
  BY <1>1, <1>3, Line, Facts
<1>5. CASE seqcmp(p.to, snd.lastAck) < 0
  BY <1>2, <1>4, <1>5 DEF OnNak
<1>6. CASE ~(seqcmp(p.to, snd.lastAck) < 0)
  <2>1. OnNak(p) = [snd EXCEPT !.loss = @ \cup SeqRange(from, p.to)]
    BY <1>4, <1>6 DEF OnNak
  <2>2. Near(from) /\ Pos(from) >= Pos(snd.lastAck) /\ Pos(from) <= Pos(p.to)
    BY <1>1, <1>3, <1>6, Line, Facts
  <2> HIDE DEF from
  <2>3. \A s \in SeqRange(from, p.to) : Near(s) /\ Pos(from) <= Pos(s) /\ Pos(s) <= Pos(p.to)
    BY <1>1, <2>2, RangeIsBetween
  <2>4. \A s \in SeqRange(from, p.to) : Near(s) /\ Pos(snd.lastDataAck) <= Pos(s) /\ Pos(s) <= Pos(snd.curr)
    <3> TAKE s \in SeqRange(from, p.to)
    <3>1. Pos(s) \in Int /\ Pos(from) \in Int
      BY <2>2, <2>3, Line
    <3>2. Pos(snd.lastDataAck) <= Pos(snd.lastAck)
      BY <1>2 DEF SenderAt
    <3> QED
      BY <1>1, <1>3, <2>2, <2>3, <3>1, <3>2, Facts
  <2>5. \A s \in snd.loss \cup SeqRange(from, p.to) :
            Near(s) /\ Pos(snd.lastDataAck) <= Pos(s) /\ Pos(s) <= Pos(snd.curr)
    BY <1>2, <2>4 DEF SenderAt
  <2> QED
    BY <1>2, <2>1, <2>5 DEF After, Shape, SenderAt
<1> QED
  BY <1>5, <1>6

-----------------------------------------------------------------------------
(* The steps of the sending end *)

LEMMA SenderReceivesKeeps ==
    ASSUME NEW First, NEW n, FewPackets(First, n), IInv(First, n), SenderReceives
    PROVE  IInv(First, n)'
<1> DEFINE p == Head(net.toSnd)
           rest == [net EXCEPT !.toSnd = Tail(@)]
<1>1. Shape /\ ~snd.broken /\ net.toSnd # <<>>
  BY DEF IInv, SenderAt, SenderReceives
<1>2. p \in Elems(net.toSnd) /\ IsSeq(Tail(net.toSnd)) /\ Elems(Tail(net.toSnd)) \subseteq Elems(net.toSnd)
  BY <1>1, TailSeq DEF Shape
<1>3. After(snd', First[snd.next]) /\ net'.toSnd = Tail(net.toSnd) /\ DOMAIN net' = DOMAIN net
      /\ IsSeq(net'.toRcv) /\ \A d \in Elems(net'.toRcv) : d \in Elems(net.toRcv) \/ d.type = "ack2"
  <2>1. rest.toSnd = Tail(net.toSnd) /\ rest.toRcv = net.toRcv /\ DOMAIN rest = DOMAIN net /\ IsSeq(net.toRcv)
    BY <1>1 DEF Shape
  <2>2. CASE p.type = "lite" /\ snd' = OnLiteAck(p) /\ net' = rest
    BY <1>2, <2>1, <2>2, LiteAckAdvances
  <2>3. CASE p.type = "nak" /\ snd' = OnNak(p) /\ net' = rest
    BY <1>2, <2>1, <2>3, NakAddsUnacknowledged
  <2>4. CASE /\ p.type = "ack" /\ snd' = OnAck(p)
             /\ net' = [rest EXCEPT !.toRcv = Append(@, [type |-> "ack2", ack |-> p.ack])]
    <3> DEFINE a == [type |-> "ack2", ack |-> p.ack]
    <3>1. After(snd', First[snd.next])
      BY <1>2, <2>4, AckAdvances
    <3>2. net'.toRcv = Append(net.toRcv, a) /\ net'.toSnd = Tail(net.toSnd) /\ DOMAIN net' = DOMAIN net
      BY <1>1, <2>1, <2>4 DEF Shape
    <3>3. IsSeq(net'.toRcv) /\ Elems(net'.toRcv) = Elems(net.toRcv) \cup {a}
      BY <2>1, <3>2, AppendSeq
    <3> QED
      BY <3>1, <3>2, <3>3
  <2> QED
    BY <1>1, <2>2, <2>3, <2>4 DEF SenderReceives
<1>4. rcv' = rcv
  BY DEF SenderReceives
<1>5. Shape' /\ snd'.next = snd.next /\ snd'.curr = snd.curr /\ SenderAt(snd', First[snd.next])
      /\ Pos(snd'.lastAck) <= Pos(AckOf(rcv))
  BY <1>1, <1>2, <1>3, <1>4 DEF Shape, After
<1>6. DataSent(net'.toRcv, snd')
  BY <1>3, <1>5 DEF IInv, DataSent
<1>7. ReportsTrue(net'.toSnd, rcv)
  BY <1>2, <1>3 DEF IInv, ReportsTrue
<1>8. snd.next \in 1 .. n + 1 /\ ReceiverAt(rcv, Pos(snd.curr))
  BY DEF IInv
<1> QED
  BY <1>4, <1>5, <1>6, <1>7, <1>8 DEF IInv

\* The lengths of messages add up.
LEMMA SendmsgKeeps ==
    ASSUME NEW First, NEW n, FewPackets(First, n), IInv(First, n), sendmsg
    PROVE  IInv(First, n)'
<1> DEFINE m == snd.next
<1>1. Shape /\ SenderAt(snd, First[m]) /\ m \in 1 .. n + 1 /\ m \in DOMAIN Messages
  BY DEF IInv, sendmsg
<1>2. m \in 1 .. n /\ m + 1 \in 1 .. n + 1 /\ First[m + 1] = First[m] + Messages[m].len
  BY <1>1 DEF FewPackets
<1>3. Messages[m].len \in Nat
  BY <1>1, TransferAssumption
<1>4. IsSeq(Packets(m)) /\ Len(Packets(m)) = Messages[m].len
  <2>1. Packets(m) \in [1 .. Messages[m].len -> {Packets(m)[k] : k \in 1 .. Messages[m].len}]
    BY DEF Packets
  <2>2. Packets(m) \in Seq({Packets(m)[k] : k \in 1 .. Messages[m].len})
    BY <1>3, <2>1, IsASeq
  <2> QED
    BY <1>3, <2>2, OwnElems DEF Packets
<1>5. /\ snd'.buf = snd.buf \o Packets(m) /\ snd'.next = m + 1 /\ DOMAIN snd' = DOMAIN snd
      /\ snd'.read = snd.read /\ snd'.lastAck = snd.lastAck /\ snd'.lastDataAck = snd.lastDataAck
      /\ snd'.curr = snd.curr /\ snd'.loss = snd.loss /\ snd'.picked = snd.picked /\ snd'.broken = snd.broken
      /\ rcv' = rcv /\ net' = net
  BY <1>1 DEF sendmsg, Shape
<1>6. IsSeq(snd.buf) /\ IsSeq(snd'.buf) /\ Len(snd'.buf) = Len(snd.buf) + Messages[m].len
  <2>1. IsSeq(snd.buf)
    BY <1>1 DEF Shape
  <2>2. IsSeq(snd.buf \o Packets(m)) /\ Len(snd.buf \o Packets(m)) = Len(snd.buf) + Len(Packets(m))
    BY <1>4, <2>1, ConcatSeq
  <2> QED
    BY <1>4, <1>5, <2>1, <2>2
<1>7. Len(snd.buf) \in Nat /\ Pos(snd.lastDataAck) \in Int
  BY <1>6, Facts DEF IsSeq
<1>8. snd'.read \in 0 .. Len(snd'.buf) /\ Pos(snd'.lastDataAck) + Len(snd'.buf) = First[m + 1]
  <2>1. snd.read \in 0 .. Len(snd.buf) /\ Pos(snd.lastDataAck) + Len(snd.buf) = First[m]
    BY <1>1 DEF SenderAt
  <2> QED
    BY <1>2, <1>3, <1>5, <1>6, <1>7, <2>1
<1>9. SenderAt(snd', First[m + 1])
  BY <1>1, <1>5, <1>8 DEF SenderAt
<1>10. Shape'
  BY <1>1, <1>5, <1>6 DEF Shape
<1> QED
  BY <1>2, <1>5, <1>9, <1>10 DEF IInv, DataSent

LEMMA PickLostKeeps ==
    ASSUME NEW First, NEW n, FewPackets(First, n), IInv(First, n), PickLost
    PROVE  IInv(First, n)'
<1> DEFINE s == Oldest(snd.loss)
<1>1. Shape /\ SenderAt(snd, First[snd.next]) /\ snd.loss # {}
  BY DEF IInv, PickLost
<1>2. s \in snd.loss
  BY <1>1, OldestIsFirst DEF SenderAt
<1>3. Near(s) /\ 0 <= Pos(s) /\ Pos(s) <= Pos(snd.curr)
  <2>1. Near(s) /\ Pos(snd.lastDataAck) <= Pos(s) /\ Pos(s) <= Pos(snd.curr) /\ 0 <= Pos(snd.lastDataAck)
    BY <1>1, <1>2 DEF SenderAt
  <2> QED
    BY <2>1, Line, Facts
<1> HIDE DEF s
<1>4. /\ snd' = [snd EXCEPT !.picked = s, !.loss = @ \ {s}] /\ rcv' = rcv /\ net' = net
  BY DEF PickLost, s
<1>5. Shape' /\ snd'.next = snd.next /\ SenderAt(snd', First[snd.next]) /\ snd'.curr = snd.curr
      /\ snd'.lastAck = snd.lastAck
  BY <1>1, <1>3, <1>4 DEF Shape, SenderAt
<1> QED
  BY <1>4, <1>5 DEF IInv, DataSent

LEMMA SendPickedKeeps ==
    ASSUME NEW First, NEW n, FewPackets(First, n), IInv(First, n), SendPicked
    PROVE  IInv(First, n)'
<1>1. Shape /\ SenderAt(snd, First[snd.next]) /\ snd.picked # None
  BY DEF IInv, SendPicked
<1>2. Near(snd.picked) /\ 0 <= Pos(snd.picked) /\ Pos(snd.picked) <= Pos(snd.curr)
  BY <1>1 DEF SenderAt
<1>3. snd' = [snd EXCEPT !.picked = None] /\ rcv' = rcv
  BY DEF SendPicked
<1>4. snd'.next = snd.next /\ SenderAt(snd', First[snd.next]) /\ snd'.curr = snd.curr
      /\ snd'.lastAck = snd.lastAck /\ snd'.buf = snd.buf /\ DOMAIN snd' = DOMAIN snd
  BY <1>1, <1>3 DEF Shape, SenderAt
<1>5. /\ net'.toSnd = net.toSnd /\ DOMAIN net' = DOMAIN net /\ IsSeq(net'.toRcv)
      /\ \A d \in Elems(net'.toRcv) : d \in Elems(net.toRcv) \/ (d.type = "data" /\ d.seq = snd.picked)
  <2>1. CASE net' = net
    BY <1>1, <2>1 DEF Shape
  <2>2. ASSUME NEW x, SendToRcv([type |-> "data", seq |-> snd.picked, pkt |-> x])
        PROVE  <1>5!:
    <3> DEFINE d == [type |-> "data", seq |-> snd.picked, pkt |-> x]
    <3>1. net'.toRcv = Append(net.toRcv, d) /\ net'.toSnd = net.toSnd /\ DOMAIN net' = DOMAIN net
      BY <1>1, <2>2 DEF SendToRcv, Shape
    <3>2. IsSeq(net'.toRcv) /\ Elems(net'.toRcv) = Elems(net.toRcv) \cup {d}
      BY <1>1, <3>1, AppendSeq DEF Shape
    <3> QED
      BY <3>1, <3>2
  <2> QED
    BY <2>1, <2>2 DEF SendPicked
<1>6. Shape' /\ DataSent(net'.toRcv, snd')
  <2>1. DataSent(net.toRcv, snd)
    BY DEF IInv
  <2>2. DataSent(net'.toRcv, snd')
    BY <1>2, <1>4, <1>5, <2>1 DEF DataSent
  <2> QED
    BY <1>1, <1>3, <1>4, <1>5, <2>2 DEF Shape
<1> QED
  BY <1>3, <1>4, <1>5, <1>6 DEF IInv

LEMMA SendNewKeeps ==
    ASSUME NEW First, NEW n, FewPackets(First, n), IInv(First, n), SendNew
    PROVE  IInv(First, n)'
<1> DEFINE s == incseq(snd.curr)
           d == [type |-> "data", seq |-> s, pkt |-> snd.buf[snd.read + 1]]
<1>1. Shape /\ SenderAt(snd, First[snd.next]) /\ snd.read < Len(snd.buf) /\ snd.picked = None
  BY DEF IInv, SendNew
<1>2. Near(s) /\ Pos(s) = Pos(snd.curr) + 1 /\ Pos(snd.curr) \in Int /\ Pos(s) >= 0
  <2>1. Pos(snd.lastDataAck) + snd.read = Pos(snd.curr) + 1 /\ Pos(snd.lastDataAck) >= 0 /\ snd.read \in Nat
    BY <1>1 DEF SenderAt
  <2>2. Near(s) /\ Pos(s) = Pos(snd.curr) + 1 /\ Pos(snd.curr) \in Int /\ Pos(snd.lastDataAck) \in Int
    BY Facts
  <2> QED
    BY <2>1, <2>2
<1> HIDE DEF s
<1>3. /\ snd' = [snd EXCEPT !.curr = s, !.read = @ + 1] /\ rcv' = rcv
      /\ net' = [net EXCEPT !.toRcv = Append(@, d)]
  BY DEF SendNew, SendToRcv, s
<1>4. /\ snd'.curr = s /\ snd'.read = snd.read + 1 /\ snd'.buf = snd.buf /\ snd'.next = snd.next
      /\ snd'.lastAck = snd.lastAck /\ snd'.lastDataAck = snd.lastDataAck /\ snd'.loss = snd.loss
      /\ snd'.picked = None /\ snd'.broken = snd.broken /\ DOMAIN snd' = DOMAIN snd
  BY <1>1, <1>3 DEF Shape
<1>5. SenderAt(snd', First[snd.next])
  <2>1. IsSeq(snd.buf) /\ Len(snd.buf) \in Nat
    BY <1>1 DEF Shape, IsSeq
  <2>2. snd'.read \in 0 .. Len(snd'.buf) /\ Pos(snd.lastDataAck) + snd'.read = Pos(s) + 1
    <3>1. snd.read \in 0 .. Len(snd.buf) /\ Pos(snd.lastDataAck) + snd.read = Pos(snd.curr) + 1
      BY <1>1 DEF SenderAt
    <3>2. Pos(snd.lastDataAck) \in Int
      BY Facts
    <3> QED
      BY <1>1, <1>2, <1>4, <2>1, <3>1, <3>2
  <2>3. Pos(snd.lastAck) <= Pos(s) + 1
    BY <1>1, <1>2, Facts DEF SenderAt
  <2>4. \A x \in snd.loss : Near(x) /\ Pos(snd.lastDataAck) <= Pos(x) /\ Pos(x) <= Pos(s)
    <3> TAKE x \in snd.loss
    <3>1. Near(x) /\ Pos(snd.lastDataAck) <= Pos(x) /\ Pos(x) <= Pos(snd.curr)
      BY <1>1 DEF SenderAt
    <3> QED
      BY <1>2, <3>1, Line
  <2> QED
    BY <1>1, <1>2, <1>4, <2>2, <2>3, <2>4 DEF SenderAt
<1>6. ReceiverAt(rcv, Pos(s))
  <2>1. ReceiverAt(rcv, Pos(snd.curr))
    BY DEF IInv
  <2> QED
    BY <1>2, <2>1, Facts DEF ReceiverAt
<1>7. /\ net'.toSnd = net.toSnd /\ DOMAIN net' = DOMAIN net /\ IsSeq(net'.toRcv)
      /\ Elems(net'.toRcv) = Elems(net.toRcv) \cup {d}
  BY <1>1, <1>3, AppendSeq DEF Shape
<1>8. DataSent(net'.toRcv, snd')
  <2> SUFFICES ASSUME NEW x \in Elems(net'.toRcv), x.type = "data"
               PROVE  Near(x.seq) /\ 0 <= Pos(x.seq) /\ Pos(x.seq) <= Pos(s)
    BY <1>4 DEF DataSent
  <2>1. CASE x = d
    BY <1>2, <2>1
  <2>2. CASE x \in Elems(net.toRcv)
    <3>1. Near(x.seq) /\ 0 <= Pos(x.seq) /\ Pos(x.seq) <= Pos(snd.curr)
      BY <2>2 DEF IInv, DataSent
    <3> QED
      BY <1>2, <3>1, Line
  <2> QED
    BY <1>7, <2>1, <2>2
<1>9. Shape'
  BY <1>1, <1>3, <1>4, <1>7 DEF Shape
<1> QED
  BY <1>3, <1>4, <1>5, <1>6, <1>7, <1>8, <1>9 DEF IInv

LEMMA SenderExpiresKeeps ==
    ASSUME NEW First, NEW n, FewPackets(First, n), IInv(First, n), SenderExpires
    PROVE  IInv(First, n)'
<1> DEFINE L == SeqRange(snd.lastAck, snd.curr)
<1>1. Shape /\ SenderAt(snd, First[snd.next]) /\ incseq(snd.curr) # snd.lastAck
  BY DEF IInv, SenderExpires
<1>2. Near(snd.lastAck) /\ Near(snd.curr) /\ Pos(snd.lastAck) <= Pos(snd.curr)
  <2>1. Pos(snd.lastAck) <= Pos(snd.curr) + 1 /\ Near(snd.lastAck) /\ Near(snd.curr)
    BY <1>1 DEF SenderAt
  <2>2. Pos(snd.lastAck) # Pos(snd.curr) + 1
    BY <1>1, <2>1, Line, Facts
  <2> QED
    BY <2>1, <2>2, Facts
<1>3. \A s \in L : Near(s) /\ Pos(snd.lastDataAck) <= Pos(s) /\ Pos(s) <= Pos(snd.curr)
  <2> TAKE s \in L
  <2>1. Near(s) /\ Pos(snd.lastAck) <= Pos(s) /\ Pos(s) <= Pos(snd.curr) /\ Pos(s) \in Int
    BY <1>2, RangeIsBetween, Line
  <2>2. Pos(snd.lastDataAck) <= Pos(snd.lastAck)
    BY <1>1 DEF SenderAt
  <2> QED
    BY <2>1, <2>2, Facts
<1>4. snd' = [snd EXCEPT !.loss = L] /\ rcv' = rcv /\ net' = net
  BY DEF SenderExpires
<1> HIDE DEF L
<1>5. Shape' /\ snd'.next = snd.next /\ SenderAt(snd', First[snd.next]) /\ snd'.curr = snd.curr
      /\ snd'.lastAck = snd.lastAck
  BY <1>1, <1>3, <1>4 DEF Shape, SenderAt
<1> QED
  BY <1>4, <1>5 DEF IInv, DataSent

-----------------------------------------------------------------------------
(* The steps of the receiving end *)

\* R is the receiving end after data or an acknowledgement: it misses nothing it had before.
Advanced(R) ==
    /\ DOMAIN R = DOMAIN rcv /\ ReceiverAt(R, Pos(snd.curr))
    /\ Pos(AckOf(rcv)) <= Pos(AckOf(R)) /\ Pos(rcv.curr) <= Pos(R.curr)

\* Only the numbers count.
LEMMA SameNumbers ==
    ASSUME NEW First, NEW n, FewPackets(First, n), IInv(First, n), NEW R,
           DOMAIN R = DOMAIN rcv, R.lastAck = rcv.lastAck, R.curr = rcv.curr, R.loss = rcv.loss
    PROVE  Advanced(R)
<1>1. ReceiverAt(rcv, Pos(snd.curr))
  BY DEF IInv
<1>2. AckOf(R) = AckOf(rcv)
  BY DEF AckOf
<1> QED
  BY <1>1, <1>2, Facts DEF Advanced, ReceiverAt

\* Data that opens a gap adds the numbers of the gap to the loss list; other data is no loss any more.
LEMMA DataIsNoStepBack ==
    ASSUME NEW First, NEW n, FewPackets(First, n), IInv(First, n),
           NEW p \in Elems(net.toRcv), p.type = "data"
    PROVE  /\ Advanced(OnData(p))
           /\ \/ OnData(p).loss \subseteq rcv.loss
              \/ /\ Near(incseq(rcv.curr)) /\ Near(decseq(p.seq)) /\ 0 <= Pos(incseq(rcv.curr))
                 /\ Pos(incseq(rcv.curr)) <= Pos(decseq(p.seq)) /\ Pos(decseq(p.seq)) <= Pos(OnData(p).curr)
<1> DEFINE R == OnData(p)
           offset == seqoff(rcv.lastAck, p.seq)
           a == addData(rcv.buf, p.pkt, offset)
           gap == seqcmp(p.seq, incseq(rcv.curr)) > 0
           lost == SeqRange(incseq(rcv.curr), decseq(p.seq))
           newLoss == IF gap THEN rcv.loss \cup lost ELSE rcv.loss \ {p.seq}
           newCurr == IF seqcmp(p.seq, rcv.curr) > 0 THEN p.seq ELSE rcv.curr
<1>1. Near(p.seq) /\ 0 <= Pos(p.seq) /\ Pos(p.seq) <= Pos(snd.curr) /\ Pos(p.seq) \in Int
  BY Line DEF IInv, DataSent
<1>2. Shape /\ ReceiverAt(rcv, Pos(snd.curr)) /\ Near(rcv.curr) /\ Near(rcv.lastAck)
  BY DEF IInv, ReceiverAt
<1>3. CASE offset < 0 \/ offset >= getAvailBufSize(rcv.buf)
  <2>1. R = rcv
    BY <1>3 DEF OnData
  <2> QED
    BY <1>2, <2>1, SameNumbers
<1>4. CASE ~(offset < 0 \/ offset >= getAvailBufSize(rcv.buf)) /\ a.res < 0
  <2>1. R = [rcv EXCEPT !.buf = a.buf]
    BY <1>4 DEF OnData
  <2>2. DOMAIN R = DOMAIN rcv /\ R.lastAck = rcv.lastAck /\ R.curr = rcv.curr /\ R.loss = rcv.loss
    BY <1>2, <2>1 DEF Shape
  <2> HIDE DEF R
  <2>3. Advanced(R)
    BY <2>2, SameNumbers
  <2> QED
    BY <2>2, <2>3 DEF R
<1>5. CASE ~(offset < 0 \/ offset >= getAvailBufSize(rcv.buf)) /\ ~(a.res < 0)
  <2>1. R = [rcv EXCEPT !.buf = a.buf, !.loss = newLoss, !.curr = newCurr]
    BY <1>2, <1>5 DEF OnData, Shape
  <2>2. Pos(rcv.lastAck) <= Pos(p.seq)
    BY <1>1, <1>2, <1>5, Line, Facts
  <2> HIDE DEF a
  <2>3. DOMAIN R = DOMAIN rcv /\ R.lastAck = rcv.lastAck /\ R.curr = newCurr /\ R.loss = newLoss
    BY <1>2, <2>1 DEF Shape
  <2> HIDE DEF R, offset
  <2>4. /\ Near(incseq(rcv.curr)) /\ Pos(incseq(rcv.curr)) = Pos(rcv.curr) + 1
        /\ Near(decseq(p.seq)) /\ Pos(decseq(p.seq)) = Pos(p.seq) - 1
    BY <1>1, <1>2, Inc, Dec, Facts, SeqNoAssumption
  <2>5. /\ gap <=> Pos(p.seq) > Pos(rcv.curr) + 1
        /\ seqcmp(p.seq, rcv.curr) > 0 <=> Pos(p.seq) > Pos(rcv.curr)
    BY <1>1, <1>2, <2>4, Line
  <2>6. /\ Near(newCurr) /\ Pos(newCurr) \in Int /\ Pos(newCurr) >= Pos(rcv.curr)
        /\ Pos(newCurr) >= Pos(p.seq) /\ Pos(newCurr) <= Pos(snd.curr)
        /\ Pos(newCurr) = Pos(rcv.curr) \/ Pos(newCurr) = Pos(p.seq)
    BY <1>1, <1>2, <2>5, Facts
  <2> HIDE DEF newCurr
  <2>7. gap => \A s \in lost : Near(s) /\ Pos(rcv.curr) + 1 <= Pos(s) /\ Pos(s) <= Pos(p.seq) - 1
    BY <1>1, <2>4, <2>5, RangeIsBetween, Facts
  <2> HIDE DEF lost
  <2>8. \A s \in newLoss : /\ Near(s) /\ Pos(s) \in Int /\ Pos(rcv.lastAck) <= Pos(s) /\ Pos(s) <= Pos(newCurr)
                           /\ s \in rcv.loss \/ Pos(s) >= Pos(rcv.curr) + 1
    <3> TAKE s \in newLoss
    <3>1. CASE s \in rcv.loss
      <4>1. Near(s) /\ Pos(s) \in Int /\ Pos(rcv.lastAck) <= Pos(s) /\ Pos(s) <= Pos(rcv.curr)
        BY <1>2, <3>1, Line DEF ReceiverAt
      <4> QED
        BY <2>6, <3>1, <4>1, Facts
    <3>2. CASE gap /\ s \in lost
      <4>1. Near(s) /\ Pos(s) \in Int /\ Pos(rcv.curr) + 1 <= Pos(s) /\ Pos(s) <= Pos(p.seq) - 1
        BY <2>7, <3>2, Line
      <4>2. Pos(rcv.lastAck) <= Pos(rcv.curr) + 1
        BY <1>2 DEF ReceiverAt
      <4> QED
        BY <1>1, <2>6, <4>1, <4>2, Facts
    <3> QED
      BY <3>1, <3>2
  <2>9. ReceiverAt(R, Pos(snd.curr))
    <3>1. 0 <= Pos(rcv.lastAck) /\ Pos(rcv.lastAck) <= Pos(newCurr) + 1
      BY <1>2, <2>6, Facts DEF ReceiverAt
    <3> QED
      BY <1>2, <2>3, <2>6, <2>8, <3>1 DEF ReceiverAt
  <2>10. Pos(AckOf(rcv)) <= Pos(AckOf(R))
    <3>1. /\ Near(AckOf(R)) /\ Pos(AckOf(R)) \in Int
          /\ newLoss = {} => Pos(AckOf(R)) = Pos(newCurr) + 1
          /\ newLoss # {} => AckOf(R) \in newLoss
      BY <2>3, <2>9, AckOfIs, Line, Facts
    <3>2. \A s \in rcv.loss : Pos(AckOf(rcv)) <= Pos(s)
      BY <1>2, AckOfIs, Facts
    <3>3. CASE newLoss = {}
      BY <2>6, <3>1, <3>3, Facts
    <3>4. CASE newLoss # {}
      <4>1. AckOf(R) \in rcv.loss \/ Pos(AckOf(R)) >= Pos(rcv.curr) + 1
        BY <2>8, <3>1, <3>4
      <4> QED
        BY <3>1, <3>2, <4>1, Facts
    <3> QED
      BY <3>3, <3>4
  <2>11. CASE gap
    <3>1. 0 <= Pos(rcv.curr) + 1 /\ Pos(rcv.curr) + 1 <= Pos(p.seq) - 1 /\ Pos(p.seq) - 1 <= Pos(newCurr)
      BY <1>1, <1>2, <2>5, <2>6, <2>11, Facts DEF ReceiverAt
    <3> QED
      BY <2>3, <2>4, <2>6, <2>9, <2>10, <3>1 DEF Advanced, R
  <2>12. CASE ~gap
    BY <2>3, <2>6, <2>9, <2>10, <2>12 DEF Advanced, R
  <2> QED
    BY <2>11, <2>12
<1> QED
  BY <1>3, <1>4, <1>5

\* A step of the receiving end to R that sends true reports keeps the invariant.
LEMMA AdvancedKeeps ==
    ASSUME NEW First, NEW n, IInv(First, n), snd' = snd, Advanced(rcv'),
           DOMAIN net' = DOMAIN net, IsSeq(net'.toRcv), IsSeq(net'.toSnd),
           Elems(net'.toRcv) \subseteq Elems(net.toRcv), FewPackets(First, n),
           \A p \in Elems(net'.toSnd) : p \in Elems(net.toSnd) \/ ReportsTrue(<<p>>, rcv')
    PROVE  IInv(First, n)'
<1>1. Shape' /\ ReceiverAt(rcv', Pos(snd.curr)) /\ DataSent(net'.toRcv, snd)
  BY DEF IInv, Shape, Advanced, DataSent
<1>2. /\ Pos(AckOf(rcv)) <= Pos(AckOf(rcv')) /\ Pos(rcv.curr) <= Pos(rcv'.curr)
      /\ {Pos(AckOf(rcv)), Pos(AckOf(rcv')), Pos(rcv.curr), Pos(rcv'.curr)} \subseteq Int
  <2>1. Near(rcv'.curr) /\ Near(AckOf(rcv'))
    BY <1>1, AckOfIs, Facts DEF ReceiverAt
  <2> QED
    BY <2>1, Line, Facts DEF Advanced
<1>3. Pos(snd.lastAck) <= Pos(AckOf(rcv'))
  <2>1. Pos(snd.lastAck) <= Pos(AckOf(rcv))
    BY DEF IInv
  <2> QED
    BY <1>2, <2>1, Facts
<1>4. ReportsTrue(net'.toSnd, rcv')
  <2> SUFFICES ASSUME NEW p \in Elems(net'.toSnd)
               PROVE  /\ p.type \in {"lite", "ack"} =>
                            Near(p.ack) /\ 0 <= Pos(p.ack) /\ Pos(p.ack) <= Pos(AckOf(rcv'))
                      /\ p.type = "nak" => /\ Near(p.from) /\ Near(p.to) /\ 0 <= Pos(p.from)
                                           /\ Pos(p.from) <= Pos(p.to) /\ Pos(p.to) <= Pos(rcv'.curr)
    BY DEF ReportsTrue
  <2>1. CASE p \in Elems(net.toSnd)
    <3>1. /\ p.type \in {"lite", "ack"} => Near(p.ack) /\ 0 <= Pos(p.ack) /\ Pos(p.ack) <= Pos(AckOf(rcv))
          /\ p.type = "nak" => /\ Near(p.from) /\ Near(p.to) /\ 0 <= Pos(p.from)
                               /\ Pos(p.from) <= Pos(p.to) /\ Pos(p.to) <= Pos(rcv.curr)
      BY <2>1 DEF IInv, ReportsTrue
    <3>2. CASE p.type \in {"lite", "ack"}
      BY <1>2, <3>1, <3>2, Line
    <3>3. CASE p.type = "nak"
      BY <1>2, <3>1, <3>3, Line
    <3> QED
      BY <3>2, <3>3
  <2>2. CASE ReportsTrue(<<p>>, rcv')
    <3>1. p \in Elems(<<p>>)
      BY DEF Elems
    <3> QED
      BY <2>2, <3>1 DEF ReportsTrue
  <2> QED
    BY <2>1, <2>2
<1> QED
  BY <1>1, <1>3, <1>4 DEF IInv

LEMMA ReceiverReceivesKeeps ==
    ASSUME NEW First, NEW n, FewPackets(First, n), IInv(First, n), ReceiverReceives
    PROVE  IInv(First, n)'
<1> DEFINE p == Head(net.toRcv)
<1>1. Shape /\ net.toRcv # <<>> /\ snd' = snd
  BY DEF IInv, ReceiverReceives
<1>2. p \in Elems(net.toRcv) /\ IsSeq(Tail(net.toRcv)) /\ Elems(Tail(net.toRcv)) \subseteq Elems(net.toRcv)
  BY <1>1, TailSeq DEF Shape
<1>3. ASSUME NEW q, IsSeq(q), SendToSnd(q)
      PROVE  /\ DOMAIN net' = DOMAIN net /\ IsSeq(net'.toRcv) /\ IsSeq(net'.toSnd)
             /\ Elems(net'.toRcv) \subseteq Elems(net.toRcv)
             /\ Elems(net'.toSnd) \subseteq Elems(net.toSnd) \cup Elems(q)
  <2>1. net'.toRcv = Tail(net.toRcv) /\ net'.toSnd = net.toSnd \o q /\ DOMAIN net' = DOMAIN net
    BY <1>1, <1>3 DEF SendToSnd, Shape
  <2>2. IsSeq(net.toSnd)
    BY <1>1 DEF Shape
  <2>3. IsSeq(net.toSnd \o q) /\ Elems(net.toSnd \o q) \subseteq Elems(net.toSnd) \cup Elems(q)
    BY <1>3, <2>2, ConcatSeq
  <2> QED
    BY <1>2, <2>1, <2>3
<1>4. CASE p.type = "data" /\ rcv' = [OnData(p) EXCEPT !.fresh = TRUE] /\ SendToSnd(ReportFor(p))
  <2> DEFINE R == OnData(p)
             nak == [type |-> "nak", from |-> incseq(rcv.curr), to |-> decseq(p.seq)]
  <2>1. /\ Advanced(R)
        /\ \/ R.loss \subseteq rcv.loss
           \/ /\ Near(incseq(rcv.curr)) /\ Near(decseq(p.seq)) /\ 0 <= Pos(incseq(rcv.curr))
              /\ Pos(incseq(rcv.curr)) <= Pos(decseq(p.seq)) /\ Pos(decseq(p.seq)) <= Pos(R.curr)
    BY <1>2, <1>4, DataIsNoStepBack
  <2>2. ReportFor(p) = IF R.loss \subseteq rcv.loss THEN <<>> ELSE <<nak>>
    BY DEF ReportFor
  <2>3. rcv' = [R EXCEPT !.fresh = TRUE]
    BY <1>4
  <2> HIDE DEF R
  <2>4. DOMAIN rcv' = DOMAIN R /\ rcv'.lastAck = R.lastAck /\ rcv'.curr = R.curr /\ rcv'.loss = R.loss
    BY <1>1, <2>1, <2>3 DEF Advanced, Shape
  <2>5. Advanced(rcv')
    <3>1. AckOf(rcv') = AckOf(R)
      BY <2>4 DEF AckOf
    <3> QED
      BY <2>1, <2>4, <3>1 DEF Advanced, ReceiverAt
  <2>6. IsSeq(<<nak>>) /\ Elems(<<nak>>) = {nak}
    <3>1. <<nak>> \in Seq({nak}) /\ Elems(<<nak>>) = {nak}
      BY DEF Elems
    <3> QED
      BY <3>1 DEF IsSeq
  <2>7. IsSeq(ReportFor(p)) /\ \A d \in Elems(ReportFor(p)) : d = nak /\ ~(R.loss \subseteq rcv.loss)
    BY <2>2, <2>6, EmptySeq
  <2>8. /\ DOMAIN net' = DOMAIN net /\ IsSeq(net'.toRcv) /\ IsSeq(net'.toSnd)
        /\ Elems(net'.toRcv) \subseteq Elems(net.toRcv)
        /\ Elems(net'.toSnd) \subseteq Elems(net.toSnd) \cup Elems(ReportFor(p))
    BY <1>3, <1>4, <2>7
  <2>9. ~(R.loss \subseteq rcv.loss) => ReportsTrue(<<nak>>, rcv')
    BY <2>1, <2>4, <2>6 DEF ReportsTrue
  <2>10. \A d \in Elems(net'.toSnd) : d \in Elems(net.toSnd) \/ ReportsTrue(<<d>>, rcv')
    BY <2>7, <2>8, <2>9
  <2> QED
    BY <1>1, <2>5, <2>8, <2>10, AdvancedKeeps
<1>5. ASSUME NEW w, p.type = "ack2", rcv' = [rcv EXCEPT !.lastAckAck = w], SendToSnd(<<>>)
      PROVE  IInv(First, n)'
  <2>1. DOMAIN rcv' = DOMAIN rcv /\ rcv'.lastAck = rcv.lastAck /\ rcv'.curr = rcv.curr /\ rcv'.loss = rcv.loss
    BY <1>1, <1>5 DEF Shape
  <2>2. Advanced(rcv')
    BY <2>1, SameNumbers
  <2>3. /\ DOMAIN net' = DOMAIN net /\ IsSeq(net'.toRcv) /\ IsSeq(net'.toSnd)
        /\ Elems(net'.toRcv) \subseteq Elems(net.toRcv) /\ Elems(net'.toSnd) \subseteq Elems(net.toSnd)
    BY <1>3, <1>5, EmptySeq
  <2> QED
    BY <1>1, <2>2, <2>3, AdvancedKeeps
<1> QED
  BY <1>4, <1>5 DEF ReceiverReceives

\* A true acknowledgement is sent.
LEMMA AckSendKeeps ==
    ASSUME NEW First, NEW n, FewPackets(First, n), IInv(First, n), snd' = snd, Advanced(rcv'),
           NEW p, AckSend(p), p.type \in {"lite", "ack"}, p.ack = AckOf(rcv')
    PROVE  IInv(First, n)'
<1>1. Shape /\ ReceiverAt(rcv', Pos(snd.curr))
  BY DEF IInv, Advanced
<1>2. net'.toSnd = Append(net.toSnd, p) /\ net'.toRcv = net.toRcv /\ DOMAIN net' = DOMAIN net
  BY <1>1 DEF AckSend, Shape
<1>3. IsSeq(net'.toRcv) /\ IsSeq(net'.toSnd) /\ Elems(net'.toSnd) = Elems(net.toSnd) \cup {p}
  BY <1>1, <1>2, AppendSeq DEF Shape
<1>4. Near(AckOf(rcv')) /\ 0 <= Pos(AckOf(rcv')) /\ Pos(AckOf(rcv')) \in Int
  <2>1. Near(AckOf(rcv')) /\ Pos(rcv'.lastAck) <= Pos(AckOf(rcv')) /\ Near(rcv'.lastAck) /\ 0 <= Pos(rcv'.lastAck)
    BY <1>1, AckOfIs, Facts DEF ReceiverAt
  <2> QED
    BY <2>1, Line
<1>5. ReportsTrue(<<p>>, rcv')
  <2>1. Elems(<<p>>) = {p}
    BY DEF Elems
  <2> QED
    BY <1>4, <2>1 DEF ReportsTrue
<1> QED
  BY <1>2, <1>3, <1>5, AdvancedKeeps

\* A step of the receiving end that sends nothing.
LEMMA QuietStepKeeps ==
    ASSUME NEW First, NEW n, FewPackets(First, n), IInv(First, n), snd' = snd, Advanced(rcv'), net' = net
    PROVE  IInv(First, n)'
<1>1. Shape
  BY DEF IInv
<1> QED
  BY <1>1, AdvancedKeeps DEF Shape

\* rcv.lastAck moves to the first missing number only, so nothing missing is before it.
LEMMA SendFullAckKeeps ==
    ASSUME NEW First, NEW n, FewPackets(First, n), IInv(First, n), SendFullAck
    PROVE  IInv(First, n)'
<1>1. Shape /\ ReceiverAt(rcv, Pos(snd.curr)) /\ snd' = snd /\ AckNumber = AckOf(rcv)
  BY DEF IInv, SendFullAck, AckNumber, AckOf
<1>2. /\ DOMAIN rcv' = DOMAIN rcv /\ rcv'.curr = rcv.curr /\ rcv'.loss = rcv.loss /\ rcv'.lastAck = AckOf(rcv)
      /\ \/ net' = net
         \/ \E w : AckSend([type |-> "ack", ack |-> rcv'.lastAck, win |-> w])
  <2> DEFINE moved == seqcmp(AckNumber, rcv.lastAck) > 0
             B == rcvAckData(rcv.buf, seqoff(rcv.lastAck, AckNumber))
             R == IF moved THEN [rcv EXCEPT !.lastAck = AckNumber, !.buf = B, !.fresh = FALSE]
                  ELSE [rcv EXCEPT !.fresh = FALSE]
  <2>1. /\ AckNumber = R.lastAck /\ rcv' = R
        /\ \/ net' = net
           \/ \E w : AckSend([type |-> "ack", ack |-> R.lastAck, win |-> w])
    BY DEF SendFullAck
  <2>2. DOMAIN R = DOMAIN rcv /\ R.curr = rcv.curr /\ R.loss = rcv.loss
    BY <1>1 DEF Shape
  <2> HIDE DEF R
  <2> QED
    BY <1>1, <2>1, <2>2
<1>3. AckOf(rcv') = AckOf(rcv)
  BY <1>2 DEF AckOf
<1>4. Advanced(rcv')
  <2>1. \A s \in rcv.loss : Pos(AckOf(rcv)) <= Pos(s)
    BY <1>1, AckOfIs, Facts
  <2>2. 0 <= Pos(AckOf(rcv))
    BY <1>1, Facts DEF ReceiverAt
  <2> QED
    BY <1>1, <1>2, <1>3, <2>1, <2>2, Facts DEF Advanced, ReceiverAt
<1>5. CASE net' = net
  BY <1>1, <1>4, <1>5, QuietStepKeeps
<1>6. ASSUME NEW w, AckSend([type |-> "ack", ack |-> rcv'.lastAck, win |-> w])
      PROVE  IInv(First, n)'
  BY <1>1, <1>2, <1>3, <1>4, <1>6, AckSendKeeps
<1> QED
  BY <1>2, <1>5, <1>6

LEMMA SendLiteAckKeeps ==
    ASSUME NEW First, NEW n, FewPackets(First, n), IInv(First, n), SendLiteAck
    PROVE  IInv(First, n)'
<1>1. Shape /\ snd' = snd /\ AckNumber = AckOf(rcv)
  BY DEF IInv, SendLiteAck, AckNumber, AckOf
<1>2. /\ DOMAIN rcv' = DOMAIN rcv /\ rcv'.curr = rcv.curr /\ rcv'.loss = rcv.loss /\ rcv'.lastAck = rcv.lastAck
      /\ AckSend([type |-> "lite", ack |-> AckOf(rcv)])
  BY <1>1 DEF SendLiteAck, Shape
<1>3. AckOf(rcv') = AckOf(rcv) /\ Advanced(rcv')
  BY <1>2, SameNumbers DEF AckOf
<1> QED
  BY <1>1, <1>2, <1>3, AckSendKeeps

LEMMA RecvmsgKeeps ==
    ASSUME NEW First, NEW n, FewPackets(First, n), IInv(First, n), recvmsg
    PROVE  IInv(First, n)'
<1>1. Shape /\ snd' = snd /\ net' = net
  BY DEF IInv, recvmsg
<1>2. PICK b : rcv' = [rcv EXCEPT !.buf = b]
  BY DEF recvmsg
<1>3. DOMAIN rcv' = DOMAIN rcv /\ rcv'.curr = rcv.curr /\ rcv'.loss = rcv.loss /\ rcv'.lastAck = rcv.lastAck
  BY <1>1, <1>2 DEF Shape
<1>4. Advanced(rcv')
  BY <1>3, SameNumbers
<1> QED
  BY <1>1, <1>4, QuietStepKeeps

-----------------------------------------------------------------------------
(* The network and the theorem *)

LEMMA FaultKeeps ==
    ASSUME NEW First, NEW n, FewPackets(First, n), IInv(First, n),
           NEW dir \in {"toRcv", "toSnd"}, Fault(dir)
    PROVE  IInv(First, n)'
<1> DEFINE q == net[dir]
<1>1. Shape /\ snd' = snd /\ rcv' = rcv /\ q # <<>> /\ IsSeq(q)
  BY DEF IInv, Fault, Shape
<1>2. Head(q) \in Elems(q) /\ IsSeq(Tail(q)) /\ Elems(Tail(q)) \subseteq Elems(q)
  BY <1>1, TailSeq
<1>3. /\ IsSeq(Append(q, Head(q))) /\ Elems(Append(q, Head(q))) \subseteq Elems(q)
      /\ IsSeq(Append(Tail(q), Head(q))) /\ Elems(Append(Tail(q), Head(q))) \subseteq Elems(q)
  BY <1>1, <1>2, AppendSeq
<1> HIDE DEF q
<1>4. PICK r : net' = [net EXCEPT ![dir] = r] /\ IsSeq(r) /\ Elems(r) \subseteq Elems(q)
  BY <1>2, <1>3 DEF Fault, q
<1>5. /\ DOMAIN net' = DOMAIN net /\ IsSeq(net'.toRcv) /\ IsSeq(net'.toSnd)
      /\ Elems(net'.toRcv) \subseteq Elems(net.toRcv) /\ Elems(net'.toSnd) \subseteq Elems(net.toSnd)
  BY <1>1, <1>4 DEF Shape, q
<1>6. Advanced(rcv')
  BY <1>1, SameNumbers
<1> QED
  BY <1>1, <1>5, <1>6, AdvancedKeeps

LEMMA Invariance ==
    ASSUME NEW First, NEW n, FewPackets(First, n)
    PROVE  Spec => []IInv(First, n)
<1>1. Init => IInv(First, n)
  BY Beginning
<1>2. IInv(First, n) /\ [Next]_vars => IInv(First, n)'
  <2> SUFFICES ASSUME IInv(First, n), [Next]_vars PROVE IInv(First, n)'
    OBVIOUS
  <2>1. CASE sendmsg
    BY <2>1, SendmsgKeeps
  <2>2. CASE PickLost
    BY <2>2, PickLostKeeps
  <2>3. CASE SendPicked
    BY <2>3, SendPickedKeeps
  <2>4. CASE SendNew
    BY <2>4, SendNewKeeps
  <2>5. CASE SenderReceives
    BY <2>5, SenderReceivesKeeps
  <2>6. CASE SenderExpires
    BY <2>6, SenderExpiresKeeps
  <2>7. CASE ReceiverReceives
    BY <2>7, ReceiverReceivesKeeps
  <2>8. CASE SendFullAck
    BY <2>8, SendFullAckKeeps
  <2>9. CASE SendLiteAck
    BY <2>9, SendLiteAckKeeps
  <2>10. CASE recvmsg
    BY <2>10, RecvmsgKeeps
  <2>11. CASE Fault("toRcv") \/ Fault("toSnd")
    BY <2>11, FaultKeeps
  <2>12. CASE UNCHANGED vars
    BY <2>12 DEF vars, IInv, Shape, DataSent
  <2> QED
    BY <2>1, <2>2, <2>3, <2>4, <2>5, <2>6, <2>7, <2>8, <2>9, <2>10, <2>11, <2>12 DEF Next
<1> QED
  BY <1>1, <1>2, PTL DEF Spec

\* The packet at distance k from the last released one bears the number k after it, acknowledgements
\* and losses point into the buffer, and honest ends never take each other for attackers: packData,
\* ackData and processCtrl of core.cpp.
THEOREM NumbersCorrect ==
    ASSUME NEW First, NEW n, FewPackets(First, n)
    PROVE  Spec => []NumbersMatchBuffer
<1>1. IInv(First, n) => NumbersMatchBuffer
  <2> SUFFICES ASSUME IInv(First, n) PROVE NumbersMatchBuffer
    OBVIOUS
  <2>1. SenderAt(snd, First[snd.next]) /\ Near(snd.lastDataAck) /\ Near(snd.lastAck)
    BY DEF IInv, SenderAt
  <2>2. seqoff(snd.lastDataAck, incseq(snd.curr)) = snd.read /\ snd.read \in Int
    <3>1. Pos(snd.lastDataAck) + snd.read = Pos(snd.curr) + 1 /\ snd.read \in Int
      BY <2>1 DEF SenderAt
    <3>2. seqoff(snd.lastDataAck, incseq(snd.curr)) = Pos(incseq(snd.curr)) - Pos(snd.lastDataAck)
      BY <2>1, Line, Facts
    <3> QED
      BY <3>1, <3>2, Facts
  <2>3. seqoff(snd.lastDataAck, snd.lastAck) \in 0 .. snd.read
    <3>1. /\ Pos(snd.lastDataAck) + snd.read = Pos(snd.curr) + 1
          /\ Pos(snd.lastDataAck) <= Pos(snd.lastAck) /\ Pos(snd.lastAck) <= Pos(snd.curr) + 1
      BY <2>1 DEF SenderAt
    <3>2. seqoff(snd.lastDataAck, snd.lastAck) = Pos(snd.lastAck) - Pos(snd.lastDataAck)
      BY <2>1, Line
    <3>3. Pos(snd.lastDataAck) \in Int /\ Pos(snd.lastAck) \in Int /\ Pos(snd.curr) \in Int
      BY Facts
    <3> QED
      BY <2>2, <3>1, <3>2, <3>3
  <2>4. \A s \in snd.loss : seqoff(snd.lastDataAck, s) \in 0 .. snd.read - 1
    <3> TAKE s \in snd.loss
    <3>1. Near(s) /\ Pos(snd.lastDataAck) <= Pos(s) /\ Pos(s) <= Pos(snd.curr)
      BY <2>1 DEF SenderAt
    <3>2. seqoff(snd.lastDataAck, s) = Pos(s) - Pos(snd.lastDataAck) /\ Pos(s) \in Int
      BY <2>1, <3>1, Line
    <3>3. Pos(snd.lastDataAck) + snd.read = Pos(snd.curr) + 1
      BY <2>1 DEF SenderAt
    <3>4. Pos(snd.lastDataAck) \in Int /\ Pos(snd.curr) \in Int
      BY Facts
    <3> QED
      BY <2>2, <3>1, <3>2, <3>3, <3>4
  <2> QED
    BY <2>1, <2>2, <2>3, <2>4 DEF NumbersMatchBuffer, SenderAt
<1> QED
  BY <1>1, Invariance, PTL

\* However acknowledgements are delayed or repeated, the sender never takes a packet for acknowledged
\* that the receiver misses: what ackData releases never has to be sent again.
THEOREM AckedCorrect ==
    ASSUME NEW First, NEW n, FewPackets(First, n)
    PROVE  Spec => []AckedIsReceived
<1>1. IInv(First, n) => AckedIsReceived
  <2> SUFFICES ASSUME IInv(First, n) PROVE AckedIsReceived
    OBVIOUS
  <2>1. AckNumber = AckOf(rcv) /\ Near(AckOf(rcv)) /\ Near(snd.lastAck) /\ Pos(snd.lastAck) <= Pos(AckOf(rcv))
    BY Facts DEF AckNumber, AckOf, IInv, SenderAt
  <2>2. seqcmp(snd.lastAck, AckOf(rcv)) \in Int /\ ~(seqcmp(snd.lastAck, AckOf(rcv)) > 0)
    BY <2>1, Line
  <2> QED
    BY <2>1, <2>2 DEF AckedIsReceived
<1> QED
  BY <1>1, Invariance, PTL
-----------------------------------------------------------------------------
(***************************************************************************)
(* The receiver's ring holds what the numbers say, and so a connection in  *)
(* message mode is the channel of UdtChannel: each place of the ring,      *)
(* counted from m_iStartPos, stands for one position of the stream of      *)
(* packets, a message that was read stays marked until it leaves the ring, *)
(* and nothing before m_iStartPos is unread.                               *)
(***************************************************************************)
N == RcvBufSize

-----------------------------------------------------------------------------
(* Places of the ring, counted from the start *)

LEMMA RingOf ==
    ASSUME NEW k \in Int
    PROVE  /\ Ring(k) \in 0 .. N - 1 /\ (k \in 0 .. N - 1 => Ring(k) = k)
           /\ k \in N .. 2 * N - 1 => Ring(k) = k - N
           /\ k \in -N .. -1 => Ring(k) = k + N
<1>1. Ring(k) \in 0 .. N - 1 /\ (k \in 0 .. N - 1 => Ring(k) = k)
  BY RcvBufAssumption DEF Ring, N
<1>2. k \in N .. 2 * N - 1 => Ring(k) = k - N
  BY RcvBufAssumption DEF Ring, N
<1>3. k \in -N .. -1 => Ring(k) = k + N
  BY RcvBufAssumption DEF Ring, N
<1> QED
  BY <1>1, <1>2, <1>3

LEMMA Size == N \in Nat /\ N > 1
  BY RcvBufAssumption DEF N

\* The place that lies k places after s, and how far place i is after s.
Place(s, k) == Ring(s + k)
Steps(s, i) == Ring(i - s)

LEMMA RingPlus ==
    ASSUME NEW s \in 0 .. N - 1, NEW k \in 0 .. N
    PROVE  Place(s, k) = IF s + k < N THEN s + k ELSE s + k - N
<1>1. s + k \in 0 .. 2 * N - 1
  BY Size
<1> QED
  BY <1>1, Size, RingOf DEF Place

LEMMA RingMinus ==
    ASSUME NEW i \in 0 .. N - 1, NEW s \in 0 .. N - 1
    PROVE  Steps(s, i) = IF i >= s THEN i - s ELSE i - s + N
<1>1. i - s \in -N .. N - 1
  BY Size
<1> QED
  BY <1>1, Size, RingOf DEF Steps

LEMMA ThereAndBack ==
    ASSUME NEW s \in 0 .. N - 1, NEW k \in 0 .. N - 1
    PROVE  Place(s, k) \in 0 .. N - 1 /\ Steps(s, Place(s, k)) = k
<1>1. Place(s, k) = (IF s + k < N THEN s + k ELSE s + k - N) /\ Place(s, k) \in 0 .. N - 1
  BY Size, RingPlus
<1>2. Steps(s, Place(s, k)) = IF Place(s, k) >= s THEN Place(s, k) - s ELSE Place(s, k) - s + N
  BY <1>1, RingMinus
<1> QED
  BY <1>1, <1>2, Size

LEMMA BackAndThere ==
    ASSUME NEW s \in 0 .. N - 1, NEW i \in 0 .. N - 1
    PROVE  Steps(s, i) \in 0 .. N - 1 /\ Place(s, Steps(s, i)) = i
<1>1. Steps(s, i) = (IF i >= s THEN i - s ELSE i - s + N) /\ Steps(s, i) \in 0 .. N - 1
  BY RingMinus, Size
<1>2. Place(s, Steps(s, i)) = IF s + Steps(s, i) < N THEN s + Steps(s, i) ELSE s + Steps(s, i) - N
  BY <1>1, RingPlus, Size
<1> QED
  BY <1>1, <1>2, Size

\* j places on after k places.
LEMMA TwoSteps ==
    ASSUME NEW s \in 0 .. N - 1, NEW k \in 0 .. N - 1, NEW j \in 0 .. N - 1
    PROVE  Place(Place(s, k), j) = Place(s, IF k + j < N THEN k + j ELSE k + j - N)
<1> DEFINE n == IF k + j < N THEN k + j ELSE k + j - N
<1>1. Place(s, k) = (IF s + k < N THEN s + k ELSE s + k - N) /\ Place(s, k) \in 0 .. N - 1
  BY RingPlus, Size
<1>2. Place(Place(s, k), j) = IF Place(s, k) + j < N THEN Place(s, k) + j ELSE Place(s, k) + j - N
  BY <1>1, RingPlus, Size
<1>3. n \in 0 .. N - 1
  BY Size
<1>4. Place(s, n) = IF s + n < N THEN s + n ELSE s + n - N
  BY <1>3, RingPlus, Size
<1> QED
  BY <1>1, <1>2, <1>4, Size

\* The places p, ..., q are those less than q + 1 - p after p.
LEMMA InsideIs ==
    ASSUME NEW s \in 0 .. N - 1, NEW i \in 0 .. N - 1, NEW p \in 0 .. N - 1, NEW q \in p .. N - 1
    PROVE  Ring(i - s - p) < q + 1 - p <=> Steps(s, i) \in p .. q
<1>1. Steps(s, i) = (IF i >= s THEN i - s ELSE i - s + N) /\ Steps(s, i) \in 0 .. N - 1
  BY RingMinus, Size
<1>2. Ring(i - s - p) = IF Steps(s, i) >= p THEN Steps(s, i) - p ELSE Steps(s, i) - p + N
  <2>1. i - s - p \in Int /\ N \in Nat /\ N > 1
    BY Size
  <2>2. CASE i - s - p >= 0
    BY <1>1, <2>1, <2>2, RingOf
  <2>3. CASE i - s - p < 0 /\ i - s - p >= -N
    BY <1>1, <2>1, <2>3, RingOf
  <2>4. CASE i - s - p < -N
    <3>1. Ring(i - s - p) = i - s - p + 2 * N
      <4>1. N \in Nat /\ N > 1 /\ i - s - p \in Int /\ i - s - p < -N /\ i - s - p >= - 2 * N
        BY <2>1, <2>4
      <4> QED
        BY <4>1 DEF Ring, N
    <3> QED
      BY <1>1, <2>1, <2>4, <3>1
  <2> QED
    BY <2>1, <2>2, <2>3, <2>4
<1> QED
  BY <1>1, <1>2, Size

-----------------------------------------------------------------------------
(* What the operations of the buffer do to the places *)

BufShape(B) ==
    /\ DOMAIN B = {"unit", "start", "ackPos", "maxPos", "notch"}
    /\ DOMAIN B.unit = 0 .. N - 1
    /\ B.unit = [i \in 0 .. N - 1 |-> B.unit[i]]
    /\ B.start \in 0 .. N - 1 /\ B.ackPos \in 0 .. N - 1 /\ B.maxPos \in Nat

\* How many places are acknowledged, and where place k is.
LEMMA Places ==
    ASSUME NEW B, BufShape(B)
    PROVE  /\ getRcvDataSize(B) = Steps(B.start, B.ackPos) /\ getRcvDataSize(B) \in 0 .. N - 1
           /\ B.start \in 0 .. N - 1 /\ B.ackPos = Place(B.start, getRcvDataSize(B))
           /\ getAvailBufSize(B) = N - 1 - getRcvDataSize(B)
           /\ \A k : Nth(B, k) = B.unit[Place(B.start, k)]
<1>1. getRcvDataSize(B) = Steps(B.start, B.ackPos) /\ \A k : Nth(B, k) = B.unit[Place(B.start, k)]
  BY DEF getRcvDataSize, Steps, Nth, Place
<1>2. B.start \in 0 .. N - 1 /\ B.ackPos \in 0 .. N - 1
  BY DEF BufShape
<1>3. getRcvDataSize(B) \in 0 .. N - 1 /\ B.ackPos = Place(B.start, getRcvDataSize(B))
  BY <1>1, <1>2, BackAndThere
<1>4. getAvailBufSize(B) = N - 1 - getRcvDataSize(B)
  <2>1. getAvailBufSize(B) = N - getRcvDataSize(B) - 1
    BY DEF getAvailBufSize, N
  <2> QED
    BY <1>3, <2>1, Size
<1> QED
  BY <1>1, <1>2, <1>3, <1>4

\* The place k after the acknowledged position.
LEMMA AckPosPlus ==
    ASSUME NEW B, BufShape(B), NEW k \in Nat, getRcvDataSize(B) + k < N
    PROVE  Ring(B.ackPos + k) = Place(B.start, getRcvDataSize(B) + k) /\ getRcvDataSize(B) + k \in 0 .. N - 1
<1> DEFINE d == getRcvDataSize(B)
<1>1. d \in 0 .. N - 1 /\ B.start \in 0 .. N - 1 /\ B.ackPos = Place(B.start, d)
  BY Places
<1> HIDE DEF d
<1>2. k \in 0 .. N - 1 /\ d + k < N
  BY <1>1, Size DEF d
<1>3. Place(Place(B.start, d), k) = Place(B.start, d + k)
  BY <1>1, <1>2, TwoSteps
<1>4. Ring(B.ackPos + k) = Place(B.ackPos, k)
  BY DEF Place
<1>5. d + k \in 0 .. N - 1
  BY <1>1, <1>2, Size
<1> QED
  BY <1>1, <1>3, <1>4, <1>5 DEF d

LEMMA AddDataIs ==
    ASSUME NEW B, BufShape(B), NEW pkt, NEW o \in Nat, NEW a, a = addData(B, pkt, o),
           NEW e, e = getRcvDataSize(B) + o, e < N
    PROVE  /\ BufShape(a.buf) /\ getRcvDataSize(a.buf) = getRcvDataSize(B)
           /\ a.buf.maxPos = IF o > B.maxPos THEN o ELSE B.maxPos
           /\ IF Nth(B, e) # NoUnit
              THEN a.res < 0 /\ \A k \in 0 .. N - 1 : Nth(a.buf, k) = Nth(B, k)
              ELSE /\ ~(a.res < 0)
                   /\ \A k \in 0 .. N - 1 : Nth(a.buf, k) = IF k = e THEN [pkt |-> pkt, flag |-> 1] ELSE Nth(B, k)
<1> DEFINE pos == Ring(B.ackPos + o)
           C == [B EXCEPT !.maxPos = IF o > @ THEN o ELSE @]
           D == [C EXCEPT !.unit[pos] = [pkt |-> pkt, flag |-> 1]]
<1>1. e \in 0 .. N - 1 /\ pos = Place(B.start, e) /\ pos \in 0 .. N - 1 /\ B.start \in 0 .. N - 1
  <2>1. e \in 0 .. N - 1 /\ pos = Place(B.start, e) /\ B.start \in 0 .. N - 1
    BY AckPosPlus, Places
  <2> QED
    BY <2>1, ThereAndBack
<1> HIDE DEF pos
<1>2. /\ DOMAIN C = DOMAIN B /\ C.unit = B.unit /\ C.start = B.start /\ C.ackPos = B.ackPos
      /\ C.maxPos = IF o > B.maxPos THEN o ELSE B.maxPos
  BY DEF BufShape
<1>3. C.maxPos \in Nat
  BY <1>2 DEF BufShape
<1>4. a = IF Held(B, pos) THEN [buf |-> C, res |-> -1] ELSE [buf |-> D, res |-> 0]
  BY DEF addData, pos
<1>5. Held(B, pos) <=> Nth(B, e) # NoUnit
  BY <1>1, Places DEF Held
<1> HIDE DEF C
<1>6. /\ DOMAIN D = DOMAIN B /\ D.start = B.start /\ D.ackPos = B.ackPos /\ D.maxPos = C.maxPos
      /\ D.unit = [B.unit EXCEPT ![pos] = [pkt |-> pkt, flag |-> 1]]
  BY <1>2 DEF BufShape
<1> HIDE DEF D
<1>7. CASE Held(B, pos)
  <2>1. a.buf = C /\ a.res = -1
    BY <1>4, <1>7
  <2>2. BufShape(C) /\ getRcvDataSize(C) = getRcvDataSize(B) /\ \A k : Nth(C, k) = Nth(B, k)
    BY <1>2, <1>3 DEF BufShape, getRcvDataSize, Nth
  <2> QED
    BY <1>2, <1>5, <1>7, <2>1, <2>2
<1>8. CASE ~Held(B, pos)
  <2>1. a.buf = D /\ a.res = 0
    BY <1>4, <1>8
  <2>2. BufShape(D) /\ getRcvDataSize(D) = getRcvDataSize(B)
    BY <1>2, <1>3, <1>6 DEF BufShape, getRcvDataSize
  <2>3. ASSUME NEW k \in 0 .. N - 1
        PROVE  Nth(D, k) = IF k = e THEN [pkt |-> pkt, flag |-> 1] ELSE Nth(B, k)
    <3>1. Place(B.start, k) \in 0 .. N - 1 /\ (Place(B.start, k) = pos <=> k = e)
      <4>1. Place(B.start, k) \in 0 .. N - 1 /\ Steps(B.start, Place(B.start, k)) = k
        BY <1>1, ThereAndBack
      <4>2. Steps(B.start, pos) = e
        BY <1>1, ThereAndBack
      <4> QED
        BY <1>1, <4>1, <4>2
    <3>2. D.unit[Place(B.start, k)] = IF Place(B.start, k) = pos THEN [pkt |-> pkt, flag |-> 1]
                                      ELSE B.unit[Place(B.start, k)]
      BY <1>6, <3>1 DEF BufShape
    <3>3. Nth(D, k) = D.unit[Place(B.start, k)] /\ Nth(B, k) = B.unit[Place(B.start, k)]
      BY <1>6 DEF Nth, Place
    <3> QED
      BY <3>1, <3>2, <3>3
  <2> QED
    BY <1>2, <1>5, <1>6, <1>8, <2>1, <2>2, <2>3
<1> QED
  BY <1>7, <1>8

LEMMA AckDataIs ==
    ASSUME NEW B, BufShape(B), NEW len \in Nat, getRcvDataSize(B) + len < N, NEW C, C = rcvAckData(B, len)
    PROVE  /\ BufShape(C) /\ getRcvDataSize(C) = getRcvDataSize(B) + len
           /\ C.maxPos = IF B.maxPos < len THEN 0 ELSE B.maxPos - len
           /\ \A k \in 0 .. N - 1 : Nth(C, k) = Nth(B, k)
<1>1. /\ DOMAIN C = DOMAIN B /\ C.unit = B.unit /\ C.start = B.start
      /\ C.ackPos = Ring(B.ackPos + len) /\ C.maxPos = IF B.maxPos < len THEN 0 ELSE B.maxPos - len
  BY DEF rcvAckData, BufShape
<1>2. C.ackPos = Place(B.start, getRcvDataSize(B) + len) /\ getRcvDataSize(B) + len \in 0 .. N - 1
  BY <1>1, AckPosPlus
<1>3. C.ackPos \in 0 .. N - 1 /\ Steps(B.start, C.ackPos) = getRcvDataSize(B) + len
  BY <1>2, ThereAndBack, Places
<1>4. C.maxPos \in Nat
  BY <1>1 DEF BufShape
<1> QED
  BY <1>1, <1>3, <1>4 DEF BufShape, getRcvDataSize, Nth, Steps

\* The first n places leave the ring.
IsReleased(C, B, n) ==
    /\ DOMAIN C = DOMAIN B /\ C.ackPos = B.ackPos /\ C.maxPos = B.maxPos /\ C.start = Place(B.start, n)
    /\ C.unit = [i \in 0 .. N - 1 |-> IF Steps(B.start, i) < n THEN NoUnit ELSE B.unit[i]]

Released(B, n) ==
    [B EXCEPT !.unit = [i \in DOMAIN @ |-> IF Ring(i - B.start) < n THEN NoUnit ELSE @[i]],
              !.start = Ring(@ + n)]

LEMMA ReleasedIs ==
    ASSUME NEW B, BufShape(B), NEW n \in 0 .. getRcvDataSize(B), NEW C, IsReleased(C, B, n)
    PROVE  /\ BufShape(C) /\ getRcvDataSize(C) = getRcvDataSize(B) - n /\ C.maxPos = B.maxPos
           /\ \A k \in 0 .. N - 1 : Nth(C, k) = IF n + k < N THEN Nth(B, n + k) ELSE NoUnit
<1> DEFINE d == getRcvDataSize(B)
<1>1. d \in 0 .. N - 1 /\ n \in 0 .. d /\ n \in 0 .. N - 1 /\ B.start \in 0 .. N - 1 /\ B.ackPos = Place(B.start, d)
  BY Places, Size
<1> HIDE DEF d
<1>2. /\ DOMAIN C = DOMAIN B /\ C.ackPos = B.ackPos /\ C.maxPos = B.maxPos /\ C.start = Place(B.start, n)
      /\ C.unit = [i \in 0 .. N - 1 |-> IF Steps(B.start, i) < n THEN NoUnit ELSE B.unit[i]]
  BY DEF IsReleased
<1>3. C.start \in 0 .. N - 1
  BY <1>1, <1>2, ThereAndBack
<1>4. BufShape(C)
  BY <1>2, <1>3 DEF BufShape
<1>5. getRcvDataSize(C) = d - n
  <2>1. d - n \in 0 .. N - 1 /\ n + (d - n) = d /\ d < N
    BY <1>1, Size
  <2>2. Place(C.start, d - n) = B.ackPos
    BY <1>1, <1>2, <2>1, TwoSteps
  <2>3. Steps(C.start, B.ackPos) = d - n
    BY <1>3, <2>1, <2>2, ThereAndBack
  <2> QED
    BY <1>2, <1>4, <2>3, Places
<1>6. ASSUME NEW k \in 0 .. N - 1
      PROVE  Nth(C, k) = IF n + k < N THEN Nth(B, n + k) ELSE NoUnit
  <2> DEFINE j == IF n + k < N THEN n + k ELSE n + k - N
  <2>1. j \in 0 .. N - 1 /\ (j < n <=> ~(n + k < N))
    BY <1>1, Size
  <2>2. Place(C.start, k) = Place(B.start, j)
    BY <1>1, <1>2, TwoSteps
  <2> HIDE DEF j
  <2>3. Place(B.start, j) \in 0 .. N - 1 /\ Steps(B.start, Place(B.start, j)) = j
    BY <1>1, <2>1, ThereAndBack
  <2>4. C.unit[Place(B.start, j)] = IF j < n THEN NoUnit ELSE B.unit[Place(B.start, j)]
    BY <1>2, <2>3
  <2>5. Nth(C, k) = IF j < n THEN NoUnit ELSE Nth(B, j)
    BY <1>4, <2>2, <2>4, Places
  <2> QED
    BY <2>1, <2>5 DEF j
<1> QED
  BY <1>2, <1>4, <1>5, <1>6 DEF d

LEMMA ReleasedIsReleased ==
    ASSUME NEW B, BufShape(B), NEW n
    PROVE  IsReleased(Released(B, n), B, n)
  BY DEF Released, IsReleased, BufShape, Place, Steps

\* The places p, ..., q are marked as read.
IsMarked(C, B, p, q) ==
    /\ DOMAIN C = DOMAIN B /\ C.ackPos = B.ackPos /\ C.maxPos = B.maxPos /\ C.start = B.start
    /\ C.unit = [i \in 0 .. N - 1 |-> IF Ring(i - B.start - p) < q + 1 - p
                                      THEN [B.unit[i] EXCEPT !.flag = 2] ELSE B.unit[i]]

LEMMA MarkedIs ==
    ASSUME NEW B, BufShape(B), NEW p \in 0 .. N - 1, NEW q \in p .. N - 1, NEW C, IsMarked(C, B, p, q)
    PROVE  /\ BufShape(C) /\ getRcvDataSize(C) = getRcvDataSize(B) /\ C.maxPos = B.maxPos
           /\ \A k \in 0 .. N - 1 : Nth(C, k) = IF k \in p .. q THEN [Nth(B, k) EXCEPT !.flag = 2] ELSE Nth(B, k)
<1>1. B.start \in 0 .. N - 1
  BY DEF BufShape
<1>2. /\ DOMAIN C = DOMAIN B /\ C.ackPos = B.ackPos /\ C.maxPos = B.maxPos /\ C.start = B.start
      /\ C.unit = [i \in 0 .. N - 1 |-> IF Ring(i - B.start - p) < q + 1 - p
                                        THEN [B.unit[i] EXCEPT !.flag = 2] ELSE B.unit[i]]
  BY DEF IsMarked
<1>3. BufShape(C) /\ getRcvDataSize(C) = getRcvDataSize(B)
  BY <1>2 DEF BufShape, getRcvDataSize
<1>4. ASSUME NEW k \in 0 .. N - 1
      PROVE  Nth(C, k) = IF k \in p .. q THEN [Nth(B, k) EXCEPT !.flag = 2] ELSE Nth(B, k)
  <2>1. Place(B.start, k) \in 0 .. N - 1 /\ Steps(B.start, Place(B.start, k)) = k
    BY <1>1, ThereAndBack
  <2>2. Ring(Place(B.start, k) - B.start - p) < q + 1 - p <=> k \in p .. q
    BY <1>1, <2>1, InsideIs
  <2>3. C.unit[Place(B.start, k)] = IF k \in p .. q THEN [B.unit[Place(B.start, k)] EXCEPT !.flag = 2]
                                    ELSE B.unit[Place(B.start, k)]
    BY <1>2, <2>1, <2>2
  <2> QED
    BY <1>2, <2>3 DEF Nth, Place
<1> QED
  BY <1>2, <1>3, <1>4

-----------------------------------------------------------------------------
(* The first and the last of a set of places *)

LEMMA LeastIs ==
    ASSUME NEW S, S \subseteq Nat, S # {}
    PROVE  Least(S) \in S /\ \A k \in S : Least(S) <= k
<1>1. PICK m \in S : \A k \in S : <<k, m>> \notin OpToRel(<, Nat)
  BY WFMin, NatLessThanWellFounded
<1>2. \A k \in S : <<k, m>> \in OpToRel(<, Nat) <=> k < m
  BY DEF OpToRel
<1>3. \A k \in S : ~(k < m)
  BY <1>1, <1>2
<1>4. \A k \in S : m <= k
  BY <1>3
<1> QED
  BY <1>4 DEF Least

LEMMA GreatestIs ==
    ASSUME NEW b \in Nat, NEW S, S \subseteq 0 .. b, S # {}
    PROVE  Greatest(S) \in S /\ \A k \in S : k <= Greatest(S)
<1> DEFINE T == {b - k : k \in S}
<1>1. T \subseteq Nat /\ T # {}
  <2>1. \A k \in S : k \in 0 .. b
    OBVIOUS
  <2>2. \A k \in S : b - k \in Nat
    BY <2>1
  <2> QED
    BY <2>2
<1>2. PICK m \in T : \A k \in T : m <= k
  BY <1>1, LeastIs
<1>3. PICK g \in S : m = b - g
  BY <1>2
<1>4. \A k \in S : k <= g
  <2> TAKE k \in S
  <2>1. m <= b - k
    BY <1>2
  <2> QED
    BY <1>3, <2>1
<1> QED
  BY <1>4 DEF Greatest

-----------------------------------------------------------------------------
(* What scanMsg and readMsg come to *)

LEMMA SkipBadIs ==
    ASSUME NEW B, BufShape(B)
    PROVE  \E k \in 0 .. getRcvDataSize(B) :
              /\ SkipBad(B) = Released(B, k) /\ (k = getRcvDataSize(B) \/ WholeFrom(B, k))
              /\ \A i \in 0 .. k - 1 : ~WholeFrom(B, i)
<1> DEFINE d == getRcvDataSize(B)
           OK(j) == (j = d \/ WholeFrom(B, j)) /\ \A i \in 0 .. j - 1 : ~WholeFrom(B, i)
           S == {j \in 0 .. d : j = d \/ WholeFrom(B, j)}
           c == CHOOSE j \in 0 .. d : OK(j)
<1>1. d \in Nat
  BY Places, Size
<1> HIDE DEF d
<1>2. S \subseteq Nat /\ S # {}
  BY <1>1
<1>3. PICK m \in S : \A k \in S : m <= k
  BY <1>2, LeastIs
<1>4. m \in 0 .. d /\ OK(m)
  <2>1. m \in 0 .. d /\ (m = d \/ WholeFrom(B, m))
    BY <1>3
  <2>2. ASSUME NEW i \in 0 .. m - 1, WholeFrom(B, i) PROVE FALSE
    <3>1. i \in S /\ i < m
      BY <1>1, <2>1, <2>2
    <3> QED
      BY <1>1, <1>3, <2>1, <3>1
  <2> QED
    BY <2>1, <2>2
<1> HIDE DEF S
<1>5. c \in 0 .. d /\ OK(c)
  BY <1>4
<1>6. SkipBad(B) = Released(B, c)
  BY DEF SkipBad, Released, d
<1> HIDE DEF c
<1> QED
  BY <1>5, <1>6 DEF d

\* Buffer C has the places of B, as far as they matter.
SamePlaces(C, B) ==
    /\ BufShape(C) /\ getRcvDataSize(C) = getRcvDataSize(B) /\ C.maxPos = B.maxPos
    /\ \A k \in 0 .. N - 1 : Nth(C, k) = Nth(B, k)

\* The message that FirstMsg finds in B lies in p, ..., q.
Found(B, p, q) ==
    /\ q \in Nat /\ q <= N - 2 /\ p \in 0 .. q
    /\ Ends(B, q) /\ \A k \in 0 .. q - 1 : ~Ends(B, k)
    /\ HeadOf(B, p, q) /\ \A h \in 0 .. q : HeadOf(B, h, q) => h <= p

\* r is what reading it leads to.
ReadTo(r, B, p, q) ==
    /\ r.out = [k \in 1 .. q + 1 - p |-> Nth(B, p + k - 1).pkt]
    /\ q >= getRcvDataSize(B) => IsMarked(r.buf, B, p, q)
    /\ q < getRcvDataSize(B) /\ p = 0 => IsReleased(r.buf, B, q + 1)

LEMMA TakeLate ==
    ASSUME NEW B, BufShape(B), NEW p, NEW q, Ring(q + 1 - p) = q + 1 - p,
           NEW r, r = TakeMsg([buf |-> B, p |-> p, q |-> q, passack |-> TRUE, found |-> TRUE])
    PROVE  IsMarked(r.buf, B, p, q) /\ r.out = [k \in 1 .. q + 1 - p |-> Nth(B, p + k - 1).pkt]
<1>1. r.buf = [B EXCEPT !.unit = [i \in DOMAIN @ |-> IF Ring(i - B.start - p) < Ring(q + 1 - p)
                                                     THEN [B.unit[i] EXCEPT !.flag = 2] ELSE @[i]],
                        !.start = @]
  BY DEF TakeMsg
<1>2. IsMarked(r.buf, B, p, q)
  <2>1. /\ DOMAIN r.buf = DOMAIN B /\ r.buf.ackPos = B.ackPos /\ r.buf.maxPos = B.maxPos /\ r.buf.start = B.start
        /\ r.buf.unit = [i \in 0 .. N - 1 |-> IF Ring(i - B.start - p) < Ring(q + 1 - p)
                                              THEN [B.unit[i] EXCEPT !.flag = 2] ELSE B.unit[i]]
    BY <1>1 DEF BufShape
  <2> DEFINE n == Ring(q + 1 - p)
             m == q + 1 - p
  <2>2. n = m
    OBVIOUS
  <2>3. r.buf.unit = [i \in 0 .. N - 1 |-> IF Ring(i - B.start - p) < n THEN [B.unit[i] EXCEPT !.flag = 2] ELSE B.unit[i]]
    BY <2>1
  <2> HIDE DEF n, m
  <2>4. r.buf.unit = [i \in 0 .. N - 1 |-> IF Ring(i - B.start - p) < m THEN [B.unit[i] EXCEPT !.flag = 2] ELSE B.unit[i]]
    BY <2>2, <2>3
  <2> QED
    BY <2>1, <2>4 DEF IsMarked, m
<1>3. r.out = [k \in 1 .. Ring(q + 1 - p) |-> Nth(B, p + k - 1).pkt]
  BY DEF TakeMsg
<1> QED
  BY <1>2, <1>3

LEMMA TakeFirst ==
    ASSUME NEW B, BufShape(B), NEW q \in Nat, q + 1 = Ring(q + 1 - 0),
           NEW r, r = TakeMsg([buf |-> B, p |-> 0, q |-> q, passack |-> FALSE, found |-> TRUE])
    PROVE  IsReleased(r.buf, B, q + 1) /\ r.out = [k \in 1 .. q + 1 - 0 |-> Nth(B, 0 + k - 1).pkt]
<1>1. r.buf = [B EXCEPT !.unit = [i \in DOMAIN @ |-> IF Ring(i - B.start - 0) < Ring(q + 1 - 0) THEN NoUnit ELSE @[i]],
                        !.start = Ring(@ + q + 1)]
  BY DEF TakeMsg
<1>2. IsReleased(r.buf, B, q + 1)
  <2>1. /\ DOMAIN r.buf = DOMAIN B /\ r.buf.ackPos = B.ackPos /\ r.buf.maxPos = B.maxPos
        /\ r.buf.start = Ring(B.start + q + 1)
        /\ r.buf.unit = [i \in 0 .. N - 1 |-> IF Ring(i - B.start - 0) < Ring(q + 1 - 0) THEN NoUnit ELSE B.unit[i]]
    BY <1>1 DEF BufShape
  <2>2. B.start \in 0 .. N - 1
    BY DEF BufShape
  <2>3. r.buf.start = Place(B.start, q + 1)
    BY <2>1, <2>2 DEF Place
  <2>4. \A i \in 0 .. N - 1 : Ring(i - B.start - 0) = Steps(B.start, i)
    BY <2>2 DEF Steps
  <2> QED
    BY <2>1, <2>3, <2>4 DEF IsReleased
<1>3. r.out = [k \in 1 .. Ring(q + 1 - 0) |-> Nth(B, 0 + k - 1).pkt]
  BY DEF TakeMsg
<1> QED
  BY <1>2, <1>3

LEMMA FirstMsgIs ==
    ASSUME NEW B, BufShape(B), B.maxPos + getRcvDataSize(B) < N, ~Good(B, N - 1), NEW r, r = ReadFound(FirstMsg(B))
    PROVE  \/ SamePlaces(r.buf, B) /\ r.out = <<>>
           \/ \E p, q : Found(B, p, q) /\ ReadTo(r, B, p, q)
<1> DEFINE d == getRcvDataSize(B)
           last == B.maxPos + d
           ends == {k \in 0 .. last : Ends(B, k)}
           heads == {h \in 0 .. last : HeadOf(B, h, last)}
           full == heads # {} /\ Ring(last + 2 - Greatest(heads)) = 0
<1>1. d \in 0 .. N - 1 /\ last \in Nat /\ last < N /\ B.start \in 0 .. N - 1
  BY Places, Size DEF BufShape
<1>2. FirstMsg(B) = IF ends # {} THEN MsgTo(B, Least(ends))
                    ELSE IF full
                    THEN [buf |-> B, p |-> Greatest(heads), q |-> last + 1, passack |-> TRUE, found |-> TRUE]
                    ELSE NoMsg(B)
  BY DEF FirstMsg
<1> HIDE DEF d, last
<1>3. CASE ends # {}
  <2> DEFINE q == Least(ends)
             H == {h \in 0 .. q : HeadOf(B, h, q)}
             p == Greatest(H)
             m == MsgTo(B, q)
  <2>1. q \in ends /\ \A k \in ends : q <= k
    <3>1. ends \subseteq Nat
      BY <1>1
    <3> HIDE DEF ends
    <3> QED
      BY <1>3, <3>1, LeastIs
  <2>2. q \in 0 .. last /\ Ends(B, q) /\ \A k \in 0 .. q - 1 : ~Ends(B, k)
    <3>1. q \in 0 .. last /\ Ends(B, q)
      BY <2>1
    <3>2. ASSUME NEW k \in 0 .. q - 1, Ends(B, k) PROVE FALSE
      <4>1. k \in 0 .. last /\ k < q
        BY <1>1, <3>1
      <4>2. k \in ends
        BY <3>2, <4>1
      <4>3. q <= k
        BY <2>1, <4>2
      <4> QED
        BY <1>1, <3>1, <4>1, <4>3
    <3> QED
      BY <3>1, <3>2
  <2> HIDE DEF q, ends
  <2>3. p \in H /\ \A h \in H : h <= p
    <3>1. H # {}
      BY <2>2 DEF Ends
    <3>2. H \subseteq 0 .. q /\ q \in Nat
      BY <2>2
    <3> HIDE DEF H
    <3> QED
      BY <3>1, <3>2, GreatestIs
  <2>5. Found(B, p, q)
    <3>1. p \in 0 .. q /\ HeadOf(B, p, q) /\ \A h \in 0 .. q : HeadOf(B, h, q) => h <= p
      BY <2>3
    <3>2. q # N - 1
      BY <2>2 DEF Ends
    <3>3. q \in Nat /\ q <= N - 2
      BY <1>1, <2>2, <3>2, Size
    <3> QED
      BY <2>2, <3>1, <3>3 DEF Found
  <2>6. p \in 0 .. q /\ q \in Nat /\ q <= N - 2
    BY <2>5 DEF Found
  <2> HIDE DEF p, m
  <2>7. Ring(q + 1 - p) = q + 1 - p
    <3>1. q + 1 - p \in 0 .. N - 1
      BY <1>1, <2>6, Size
    <3> QED
      BY <3>1, RingOf, Size
  <2>8. r = TakeMsg(m) /\ m = [buf |-> B, p |-> p, q |-> q, passack |-> q >= d, found |-> TRUE]
    <3>1. m = [buf |-> B, p |-> p, q |-> q, passack |-> q >= d, found |-> TRUE]
      BY DEF m, MsgTo, p, d
    <3>2. FirstMsg(B) = m
      BY <1>2, <1>3 DEF q, m
    <3>3. m.found = TRUE
      BY <3>1
    <3> QED
      BY <3>1, <3>2, <3>3 DEF ReadFound
  <2>9. CASE q >= d
    <3>1. (q >= d) = TRUE
      BY <2>9
    <3>2. r = TakeMsg([buf |-> B, p |-> p, q |-> q, passack |-> TRUE, found |-> TRUE])
      BY <2>8, <3>1
    <3>3. IsMarked(r.buf, B, p, q) /\ r.out = [k \in 1 .. q + 1 - p |-> Nth(B, p + k - 1).pkt]
      BY <2>7, <3>2, TakeLate
    <3>4. ~(q < d)
      BY <1>1, <2>6, <2>9
    <3> QED
      BY <2>5, <2>9, <3>3, <3>4 DEF ReadTo, d
  <2>10. CASE ~(q >= d)
    <3>1. (q >= d) = FALSE
      BY <2>10
    <3>2. r = TakeMsg([buf |-> B, p |-> p, q |-> q, passack |-> FALSE, found |-> TRUE])
      BY <2>8, <3>1
    <3>3. r.out = [k \in 1 .. Ring(q + 1 - p) |-> Nth(B, p + k - 1).pkt]
      BY <3>2 DEF TakeMsg
    <3>4. ASSUME p = 0 PROVE IsReleased(r.buf, B, q + 1)
      <4>1. q \in Nat /\ q + 1 = Ring(q + 1 - 0)
        BY <2>6, <2>7, <3>4
      <4>2. r = TakeMsg([buf |-> B, p |-> 0, q |-> q, passack |-> FALSE, found |-> TRUE])
        BY <3>2, <3>4
      <4> QED
        BY <4>1, <4>2, TakeFirst
    <3> QED
      BY <2>5, <2>7, <2>10, <3>3, <3>4 DEF ReadTo, d
  <2> QED
    BY <2>9, <2>10
<1>4. CASE ends = {} /\ full
  <2> DEFINE g == Greatest(heads)
             m == [buf |-> B, p |-> g, q |-> last + 1, passack |-> TRUE, found |-> TRUE]
  <2>1. g \in 0 .. last
    <3>1. heads \subseteq 0 .. last
      OBVIOUS
    <3> HIDE DEF heads
    <3>2. g \in heads
      BY <1>1, <1>4, <3>1, GreatestIs
    <3> QED
      BY <3>1, <3>2
  <2>2. Ring(last + 2 - g) = 0
    BY <1>4
  <2> HIDE DEF g, heads, ends
  <2>3. r = TakeMsg(m)
    BY <1>2, <1>4 DEF ReadFound, g
  <2>4. last + 1 + 1 - g = last + 2 - g
    BY <1>1, <2>1
  <2>5. r.out = [k \in 1 .. 0 |-> Nth(B, g + k - 1).pkt]
    BY <2>2, <2>3, <2>4 DEF TakeMsg
  <2>6. r.out = <<>>
    BY <2>5
  <2>7. r.buf = [B EXCEPT !.unit = [i \in DOMAIN @ |-> IF Ring(i - B.start - g) < Ring(last + 1 + 1 - g)
                                                       THEN [B.unit[i] EXCEPT !.flag = 2] ELSE @[i]],
                          !.start = @]
    BY <2>3 DEF TakeMsg
  <2>8. ASSUME NEW i \in 0 .. N - 1 PROVE ~(Ring(i - B.start - g) < 0)
    <3>1. i - B.start - g \in Int
      BY <1>1, <2>1
    <3>2. Ring(i - B.start - g) \in 0 .. N - 1
      BY <3>1, RingOf
    <3> QED
      BY <3>2
  <2>9. /\ DOMAIN r.buf = DOMAIN B /\ r.buf.start = B.start /\ r.buf.ackPos = B.ackPos /\ r.buf.maxPos = B.maxPos
        /\ r.buf.unit = [i \in 0 .. N - 1 |-> B.unit[i]]
    BY <2>2, <2>4, <2>7, <2>8 DEF BufShape
  <2>10. SamePlaces(r.buf, B)
    <3>1. r.buf.unit = B.unit
      BY <2>9 DEF BufShape
    <3> QED
      BY <2>9, <3>1 DEF BufShape, SamePlaces, getRcvDataSize, Nth
  <2> QED
    BY <2>6, <2>10
<1>5. CASE ends = {} /\ ~full
  <2>1. r = [buf |-> B, out |-> <<>>]
    BY <1>2, <1>5 DEF ReadFound, NoMsg
  <2> QED
    BY <2>1 DEF SamePlaces
<1> QED
  BY <1>3, <1>4, <1>5

LEMMA ReadMsgIs ==
    ASSUME NEW B, BufShape(B), B.maxPos + getRcvDataSize(B) < N, ~Good(B, N - 1), NEW r, r = readMsg(B)
    PROVE  \/ r.buf = B /\ r.out = <<>>
           \/ \E k \in 0 .. getRcvDataSize(B) :
                /\ k = getRcvDataSize(B) \/ WholeFrom(B, k)
                /\ \A i \in 0 .. k - 1 : ~WholeFrom(B, i)
                /\ \/ SamePlaces(r.buf, Released(B, k)) /\ r.out = <<>>
                   \/ \E p, q : Found(Released(B, k), p, q) /\ ReadTo(r, Released(B, k), p, q)
<1>1. CASE B.start = B.ackPos /\ B.maxPos <= 0
  <2>1. r = [buf |-> B, out |-> <<>>]
    BY <1>1 DEF readMsg, scanMsg, ReadFound, NoMsg
  <2> QED
    BY <2>1
<1>2. CASE ~(B.start = B.ackPos /\ B.maxPos <= 0)
  <2>1. PICK k \in 0 .. getRcvDataSize(B) :
              /\ SkipBad(B) = Released(B, k) /\ (k = getRcvDataSize(B) \/ WholeFrom(B, k))
              /\ \A i \in 0 .. k - 1 : ~WholeFrom(B, i)
    BY SkipBadIs
  <2>2. r = ReadFound(FirstMsg(Released(B, k)))
    BY <1>2, <2>1 DEF readMsg, scanMsg
  <2>3. BufShape(Released(B, k)) /\ Released(B, k).maxPos + getRcvDataSize(Released(B, k)) < N
        /\ ~Good(Released(B, k), N - 1)
    <3>1. /\ BufShape(Released(B, k)) /\ Released(B, k).maxPos = B.maxPos
          /\ getRcvDataSize(Released(B, k)) = getRcvDataSize(B) - k
          /\ Nth(Released(B, k), N - 1) = IF k + (N - 1) < N THEN Nth(B, k + (N - 1)) ELSE NoUnit
      <4>1. N - 1 \in 0 .. N - 1
        BY Size
      <4> QED
        BY <4>1, ReleasedIs, ReleasedIsReleased
    <3>2. getRcvDataSize(B) \in Nat /\ B.maxPos \in Nat /\ k \in Nat
      BY Places, Size DEF BufShape
    <3>3. k + (N - 1) < N => k + (N - 1) = N - 1
      BY <3>2, Size
    <3>4. ~Good(Released(B, k), N - 1)
      BY <3>1, <3>3 DEF Good, NoUnit
    <3> QED
      BY <3>1, <3>2, <3>4, Size
  <2>4. \/ SamePlaces(r.buf, Released(B, k)) /\ r.out = <<>>
        \/ \E p, q : Found(Released(B, k), p, q) /\ ReadTo(r, Released(B, k), p, q)
    BY <2>2, <2>3, FirstMsgIs
  <2> QED
    BY <2>1, <2>4
<1> QED
  BY <1>1, <1>2

-----------------------------------------------------------------------------
(* Packets and their positions in the stream *)

\* p is the packet at position x.
IsPacket(First, p, x) ==
    /\ p.msg \in DOMAIN Messages /\ p.idx \in 1 .. Messages[p.msg].len
    /\ p = Packets(p.msg)[p.idx] /\ x = First[p.msg] + p.idx - 1

LEMMA Lengths ==
    ASSUME NEW First, NEW n, FewPackets(First, n), NEW m \in 1 .. n
    PROVE  /\ Messages[m].len \in Nat \ {0} /\ First[m + 1] = First[m] + Messages[m].len
           /\ First[m] \in Nat /\ First[m + 1] \in Nat /\ First[m] < First[m + 1]
<1>1. m \in DOMAIN Messages /\ m \in 1 .. n + 1 /\ m + 1 \in 1 .. n + 1
  BY DEF FewPackets
<1>2. Messages[m].len \in 1 .. SndBufSize
  BY <1>1, TransferAssumption
<1>3. First[m + 1] = First[m] + Messages[m].len /\ First[m] \in Nat /\ First[m + 1] \in Nat
  BY <1>1 DEF FewPackets
<1> QED
  BY <1>2, <1>3

LEMMA FirstGrows ==
    ASSUME NEW First, NEW n, FewPackets(First, n), NEW j \in 1 .. n + 1, NEW k \in j .. n + 1
    PROVE  First[j] <= First[k]
<1> DEFINE S == {i \in Nat : i \in j .. n + 1 /\ First[i] < First[j]}
<1>1. n \in Nat /\ \A i \in 1 .. n + 1 : First[i] \in Nat
  BY DEF FewPackets
<1>2. ASSUME S # {} PROVE FALSE
  <2>1. PICK m \in S : \A i \in S : m <= i
    BY <1>2, LeastIs
  <2>2. m \in j .. n + 1 /\ First[m] < First[j] /\ m # j
    BY <1>1, <2>1
  <2>3. PICK i \in 1 .. n : i + 1 = m /\ i \in j .. n + 1 /\ i < m
    <3>1. m - 1 \in 1 .. n /\ m - 1 + 1 = m /\ m - 1 \in j .. n + 1 /\ m - 1 < m
      BY <1>1, <2>2
    <3> QED
      BY <3>1
  <2>4. First[m] = First[i] + Messages[i].len /\ Messages[i].len \in Nat
    BY <2>3, Lengths
  <2>5. i \in S
    BY <1>1, <2>2, <2>3, <2>4
  <2>6. m <= i
    BY <2>1, <2>5
  <2> QED
    BY <2>2, <2>3, <2>6
<1>3. k \in Nat /\ First[k] \in Nat /\ First[j] \in Nat
  BY <1>1
<1>4. ~(First[k] < First[j])
  BY <1>2, <1>3
<1> QED
  BY <1>3, <1>4

\* What a packet tells of its message.
LEMMA PacketIs ==
    ASSUME NEW First, NEW n, FewPackets(First, n), NEW p, NEW x, IsPacket(First, p, x)
    PROVE  /\ p.msg \in 1 .. n /\ First[p.msg] \in Nat /\ First[p.msg + 1] \in Nat /\ x \in Nat
           /\ First[p.msg] <= x /\ x < First[p.msg + 1] /\ p.idx = x - First[p.msg] + 1
           /\ p.order = Messages[p.msg].order
           /\ p.bound > 1 <=> x = First[p.msg]
           /\ p.bound \in {1, 3} <=> x = First[p.msg + 1] - 1
<1> DEFINE m == p.msg
           i == p.idx
<1>1. m \in 1 .. n /\ i \in 1 .. Messages[m].len
  BY DEF IsPacket, FewPackets
<1>3. First[m] \in Nat /\ First[m + 1] = First[m] + Messages[m].len /\ Messages[m].len \in Nat
  BY <1>1, Lengths
<1>4. x = First[m] + i - 1
  BY DEF IsPacket
<1>5. p = [msg |-> m, idx |-> i, order |-> Messages[m].order,
           bound |-> (IF i = 1 THEN 2 ELSE 0) + (IF i = Messages[m].len THEN 1 ELSE 0)]
  BY <1>1 DEF IsPacket, Packets
<1>6. p.order = Messages[m].order /\ p.bound = (IF i = 1 THEN 2 ELSE 0) + (IF i = Messages[m].len THEN 1 ELSE 0)
  BY <1>5
<1> HIDE DEF m, i
<1>7. First[m] <= x /\ x < First[m + 1] /\ i = x - First[m] + 1 /\ x \in Nat /\ First[m + 1] \in Nat
  BY <1>1, <1>3, <1>4
<1>8. (p.bound > 1 <=> i = 1) /\ (p.bound \in {1, 3} <=> i = Messages[m].len)
  BY <1>1, <1>6
<1>9. (i = 1 <=> x = First[m]) /\ (i = Messages[m].len <=> x = First[m + 1] - 1)
  BY <1>1, <1>3, <1>4
<1> QED
  BY <1>1, <1>3, <1>6, <1>7, <1>8, <1>9 DEF m, i

\* A position belongs to one message.
LEMMA MessageAt ==
    ASSUME NEW First, NEW n, FewPackets(First, n), NEW p, NEW x, IsPacket(First, p, x), NEW m \in 1 .. n
    PROVE  /\ First[m] <= x => m <= p.msg
           /\ x < First[m + 1] => p.msg <= m
<1>1. /\ p.msg \in 1 .. n /\ First[p.msg] \in Nat /\ First[p.msg + 1] \in Nat /\ x \in Nat
      /\ First[p.msg] <= x /\ x < First[p.msg + 1]
  BY PacketIs
<1>2. n \in Nat /\ m + 1 \in 1 .. n + 1 /\ p.msg + 1 \in 1 .. n + 1 /\ m \in 1 .. n + 1 /\ p.msg \in 1 .. n + 1
  <2>1. n \in Nat
    BY DEF FewPackets
  <2> QED
    BY <1>1, <2>1
<1>3. First[m] \in Nat /\ First[m + 1] \in Nat
  BY <1>2 DEF FewPackets
<1>4. ASSUME First[m] <= x, m > p.msg PROVE FALSE
  <2>1. m \in p.msg + 1 .. n + 1
    BY <1>1, <1>2, <1>4
  <2>2. First[p.msg + 1] <= First[m]
    BY <1>2, <2>1, FirstGrows
  <2> QED
    BY <1>1, <1>3, <1>4, <2>2
<1>5. ASSUME x < First[m + 1], p.msg > m PROVE FALSE
  <2>1. p.msg \in m + 1 .. n + 1
    BY <1>1, <1>2, <1>5
  <2>2. First[m + 1] <= First[p.msg]
    BY <1>2, <2>1, FirstGrows
  <2> QED
    BY <1>1, <1>3, <1>5, <2>2
<1> QED
  BY <1>1, <1>2, <1>4, <1>5

\* The packets of the positions of message m, in order, are the message.
LEMMA WholeMessage ==
    ASSUME NEW First, NEW n, FewPackets(First, n), NEW m \in 1 .. n, NEW out,
           out = [k \in 1 .. First[m + 1] - First[m] |-> out[k]],
           \A k \in 1 .. First[m + 1] - First[m] : IsPacket(First, out[k], First[m] + k - 1)
    PROVE  out = Packets(m)
<1>1. First[m + 1] - First[m] = Messages[m].len /\ First[m] \in Nat /\ First[m + 1] \in Nat /\ Messages[m].len \in Nat
  BY Lengths
<1>2. ASSUME NEW k \in 1 .. Messages[m].len PROVE out[k] = Packets(m)[k]
  <2>1. IsPacket(First, out[k], First[m] + k - 1)
    BY <1>1
  <2>2. First[m] <= First[m] + k - 1 /\ First[m] + k - 1 < First[m + 1]
    BY <1>1
  <2>3. out[k].msg \in 1 .. n /\ m <= out[k].msg /\ out[k].msg <= m
    BY <2>1, <2>2, MessageAt, PacketIs
  <2>4. out[k].msg = m
    BY <2>3 DEF FewPackets
  <2>5. First[m] + k - 1 = First[m] + out[k].idx - 1 /\ out[k].idx \in Int
    BY <2>1, <2>4, <1>1 DEF IsPacket
  <2>6. out[k].idx = k
    BY <1>1, <2>5
  <2> QED
    BY <2>1, <2>4, <2>6 DEF IsPacket
<1>3. Packets(m) = [k \in 1 .. Messages[m].len |-> Packets(m)[k]]
  BY DEF Packets
<1> QED
  BY <1>1, <1>2, <1>3

-----------------------------------------------------------------------------
(* The ring of a receiving end R that has read the messages of D *)

Here(R, x) == x <= Pos(R.curr) /\ \A s \in R.loss : Pos(s) # x

\* The position that place 0 stands for.
StartPos(R) == Pos(R.lastAck) - getRcvDataSize(R.buf)

PlaceHolds(First, R, D, k) ==
    IF Here(R, StartPos(R) + k)
    THEN /\ IsPacket(First, Nth(R.buf, k).pkt, StartPos(R) + k)
         /\ Nth(R.buf, k) = [pkt |-> Nth(R.buf, k).pkt, flag |-> IF Nth(R.buf, k).pkt.msg \in D THEN 2 ELSE 1]
    ELSE Nth(R.buf, k) = NoUnit

\* What was read came as a whole, and nothing that left the ring is unread.
WellRead(First, n, R, D) ==
    /\ D \subseteq 1 .. n
    /\ \A m \in 1 .. n : First[m] < StartPos(R) => m \in D
    /\ \A m \in D : \A x \in First[m] .. First[m + 1] - 1 : Here(R, x)

RingAt(First, n, R, D) ==
    /\ BufShape(R.buf) /\ StartPos(R) >= 0 /\ Pos(R.curr) + 1 - StartPos(R) < N
    /\ R.buf.maxPos = IF Pos(R.curr) < Pos(R.lastAck) THEN 0 ELSE Pos(R.curr) - Pos(R.lastAck)
    /\ \A k \in 0 .. N - 1 : PlaceHolds(First, R, D, k)
    /\ WellRead(First, n, R, D)

LEMMA RingFacts ==
    ASSUME NEW First, NEW n, NEW R, NEW last, ReceiverAt(R, last), NEW D, RingAt(First, n, R, D),
           NEW d, d = getRcvDataSize(R.buf)
    PROVE  /\ BufShape(R.buf) /\ d \in 0 .. N - 1 /\ {Pos(R.curr), Pos(R.lastAck)} \subseteq Int
           /\ StartPos(R) \in Nat /\ StartPos(R) + d = Pos(R.lastAck)
           /\ StartPos(R) + (N - 1) > Pos(R.curr)
           /\ \A k \in 0 .. d - 1 : Here(R, StartPos(R) + k)
           /\ R.buf.maxPos + d < N /\ R.buf.maxPos \in Nat
           /\ ~Good(R.buf, N - 1)
<1>1. BufShape(R.buf) /\ d \in 0 .. N - 1 /\ N \in Nat /\ N > 1
  BY Places, Size DEF RingAt
<1>2. Pos(R.curr) \in Int /\ Pos(R.lastAck) \in Int /\ Pos(R.lastAck) <= Pos(R.curr) + 1
  BY Line DEF ReceiverAt
<1>3. StartPos(R) = Pos(R.lastAck) - d /\ StartPos(R) >= 0 /\ Pos(R.curr) + 1 - StartPos(R) < N
  BY DEF StartPos, RingAt
<1>4. StartPos(R) \in Nat /\ StartPos(R) + d = Pos(R.lastAck) /\ StartPos(R) + (N - 1) > Pos(R.curr)
  BY <1>1, <1>2, <1>3
<1>5. ASSUME NEW k \in 0 .. d - 1 PROVE Here(R, StartPos(R) + k)
  <2>1. StartPos(R) + k < Pos(R.lastAck) /\ StartPos(R) + k <= Pos(R.curr)
    BY <1>1, <1>2, <1>4
  <2>2. ASSUME NEW s \in R.loss PROVE Pos(s) # StartPos(R) + k
    <3>1. Pos(R.lastAck) <= Pos(s) /\ Pos(s) \in Int
      BY Line DEF ReceiverAt
    <3> QED
      BY <1>1, <1>2, <1>4, <2>1, <3>1
  <2> QED
    BY <2>1, <2>2 DEF Here
<1>6. R.buf.maxPos + d < N /\ R.buf.maxPos \in Nat
  <2>1. R.buf.maxPos = IF Pos(R.curr) < Pos(R.lastAck) THEN 0 ELSE Pos(R.curr) - Pos(R.lastAck)
    BY DEF RingAt
  <2> QED
    BY <1>1, <1>2, <1>3, <2>1
<1>7. ~Good(R.buf, N - 1)
  <2>1. N - 1 \in 0 .. N - 1 /\ ~Here(R, StartPos(R) + (N - 1))
    BY <1>1, <1>2, <1>4 DEF Here
  <2>2. PlaceHolds(First, R, D, N - 1)
    BY <2>1 DEF RingAt
  <2> QED
    BY <2>1, <2>2 DEF PlaceHolds, Good, NoUnit
<1> QED
  BY <1>1, <1>2, <1>4, <1>5, <1>6, <1>7

\* The units of the places that hold something; the others are not good.
LEMMA UnitsAre ==
    ASSUME NEW First, NEW n, NEW R, NEW D, RingAt(First, n, R, D)
    PROVE  \A k \in 0 .. N - 1 :
             IF Here(R, StartPos(R) + k)
             THEN /\ IsPacket(First, Nth(R.buf, k).pkt, StartPos(R) + k)
                  /\ Nth(R.buf, k) = [pkt |-> Nth(R.buf, k).pkt, flag |-> IF Nth(R.buf, k).pkt.msg \in D THEN 2 ELSE 1]
                  /\ Good(R.buf, k) <=> Nth(R.buf, k).pkt.msg \notin D
                  /\ Bound(R.buf, k) = Nth(R.buf, k).pkt.bound
             ELSE Nth(R.buf, k) = NoUnit /\ ~Good(R.buf, k)
<1> SUFFICES ASSUME NEW k \in 0 .. N - 1
             PROVE  IF Here(R, StartPos(R) + k)
                    THEN /\ IsPacket(First, Nth(R.buf, k).pkt, StartPos(R) + k)
                         /\ Nth(R.buf, k) = [pkt |-> Nth(R.buf, k).pkt, flag |-> IF Nth(R.buf, k).pkt.msg \in D THEN 2 ELSE 1]
                         /\ Good(R.buf, k) <=> Nth(R.buf, k).pkt.msg \notin D
                         /\ Bound(R.buf, k) = Nth(R.buf, k).pkt.bound
                    ELSE Nth(R.buf, k) = NoUnit /\ ~Good(R.buf, k)
  OBVIOUS
<1>1. PlaceHolds(First, R, D, k)
  BY DEF RingAt
<1> DEFINE p == Nth(R.buf, k).pkt
<1>2. CASE Here(R, StartPos(R) + k)
  <2>1. IsPacket(First, p, StartPos(R) + k) /\ Nth(R.buf, k) = [pkt |-> p, flag |-> IF p.msg \in D THEN 2 ELSE 1]
    BY <1>1, <1>2 DEF PlaceHolds
  <2> HIDE DEF p
  <2>2. Nth(R.buf, k).flag = IF p.msg \in D THEN 2 ELSE 1
    BY <2>1
  <2> QED
    BY <1>2, <2>1, <2>2 DEF Good, Bound, p
<1>3. CASE ~Here(R, StartPos(R) + k)
  <2>1. Nth(R.buf, k) = NoUnit
    BY <1>1, <1>3 DEF PlaceHolds
  <2>2. ~Good(R.buf, k)
    BY <2>1 DEF Good, NoUnit
  <2> QED
    BY <1>3, <2>1, <2>2
<1> QED
  BY <1>2, <1>3

\* What the first loop of scanMsg skips was read before.
LEMMA SkippedIsRead ==
    ASSUME NEW First, NEW n, FewPackets(First, n), NEW R, NEW last, ReceiverAt(R, last), NEW D,
           RingAt(First, n, R, D), NEW k \in 0 .. getRcvDataSize(R.buf),
           \A i \in 0 .. k - 1 : ~WholeFrom(R.buf, i), NEW i \in 0 .. k - 1
    PROVE  Nth(R.buf, i).pkt.msg \in D
<1> DEFINE d == getRcvDataSize(R.buf)
           B == R.buf
           x0 == StartPos(R)
           m == Nth(B, i).pkt.msg
           h == First[m] - x0
           z == First[m + 1] - 1 - x0
           e == IF z < d THEN z ELSE d
<1>0. d \in 0 .. N - 1 /\ x0 \in Nat /\ \A j \in 0 .. d - 1 : Here(R, x0 + j)
  BY RingFacts
<1>1. d \in 0 .. N - 1 /\ x0 \in Nat /\ i \in 0 .. d - 1 /\ i \in 0 .. N - 1 /\ k \in 0 .. d /\ Here(R, x0 + i)
  <2>1. k \in 0 .. d
    OBVIOUS
  <2> HIDE DEF d, x0
  <2>2. i \in 0 .. d - 1 /\ i \in 0 .. N - 1
    BY <1>0, <2>1, Size
  <2>3. Here(R, x0 + i)
    BY <1>0, <2>2
  <2> QED
    BY <1>0, <2>1, <2>2, <2>3
<1>2. SUFFICES ASSUME m \notin D PROVE FALSE
  OBVIOUS
<1>3. \A j \in 0 .. N - 1 : Here(R, x0 + j) =>
         /\ IsPacket(First, Nth(B, j).pkt, x0 + j)
         /\ Good(B, j) <=> Nth(B, j).pkt.msg \notin D
         /\ Bound(B, j) = Nth(B, j).pkt.bound
  BY UnitsAre
<1>4. IsPacket(First, Nth(B, i).pkt, x0 + i)
  BY <1>1, <1>3
<1>5. m \in 1 .. n /\ First[m] \in Nat /\ First[m + 1] \in Nat /\ First[m] <= x0 + i /\ x0 + i < First[m + 1]
  BY <1>4, PacketIs
<1>6. x0 <= First[m]
  BY <1>1, <1>2, <1>5 DEF RingAt, WellRead
<1> HIDE DEF d, x0, m
<1>7. h \in 0 .. i /\ h <= z /\ i <= z /\ e \in h .. d /\ h < d /\ z \in Nat
  BY <1>1, <1>5, <1>6
<1>8. ASSUME NEW j \in 0 .. d - 1, h <= j, j <= z
      PROVE  /\ Good(B, j) /\ IsPacket(First, Nth(B, j).pkt, x0 + j) /\ Nth(B, j).pkt.msg = m
             /\ Bound(B, j) = Nth(B, j).pkt.bound
  <2>0. First[m] <= x0 + j /\ x0 + j < First[m + 1]
    BY <1>1, <1>5, <1>8
  <2>1. j \in 0 .. N - 1
    BY <1>1, Size
  <2>2. IsPacket(First, Nth(B, j).pkt, x0 + j) /\ Bound(B, j) = Nth(B, j).pkt.bound
        /\ (Nth(B, j).pkt.msg \notin D => Good(B, j))
    BY <1>0, <2>1, <1>3
  <2>3. Nth(B, j).pkt.msg <= m /\ m <= Nth(B, j).pkt.msg /\ Nth(B, j).pkt.msg \in 1 .. n
    BY <1>5, <2>0, <2>2, MessageAt, PacketIs
  <2>4. Nth(B, j).pkt.msg = m
    BY <1>5, <2>3
  <2> QED
    BY <1>2, <2>2, <2>4
<1>9. h \in 0 .. d - 1 /\ Good(B, h) /\ Bound(B, h) > 1
  <2>1. h \in 0 .. d - 1
    BY <1>1, <1>7
  <2>2. Good(B, h) /\ IsPacket(First, Nth(B, h).pkt, x0 + h) /\ Nth(B, h).pkt.msg = m /\ Bound(B, h) = Nth(B, h).pkt.bound
    BY <1>7, <1>8, <2>1
  <2>3. x0 + h = First[m]
    BY <1>1, <1>5
  <2> QED
    BY <2>1, <2>2, <2>3, PacketIs
<1>10. \A j \in h .. e - 1 : Good(B, j)
  <2> TAKE j \in h .. e - 1
  <2>1. j \in 0 .. d - 1 /\ h <= j /\ j <= z
    BY <1>1, <1>7
  <2> QED
    BY <1>8, <2>1
<1>11. e = d \/ (Good(B, e) /\ Bound(B, e) \in {1, 3})
  <2> SUFFICES ASSUME e # d PROVE Good(B, e) /\ Bound(B, e) \in {1, 3}
    OBVIOUS
  <2>1. e = z /\ z \in 0 .. d - 1 /\ h <= z
    BY <1>1, <1>7
  <2>2. Good(B, z) /\ IsPacket(First, Nth(B, z).pkt, x0 + z) /\ Nth(B, z).pkt.msg = m /\ Bound(B, z) = Nth(B, z).pkt.bound
    BY <1>7, <1>8, <2>1
  <2>3. x0 + z = First[m + 1] - 1
    BY <1>1, <1>5
  <2> QED
    BY <2>1, <2>2, <2>3, PacketIs
<1>12. WholeFrom(B, h)
  <2>1. e \in h .. getRcvDataSize(B) /\ getRcvDataSize(B) = d
    BY <1>7 DEF d
  <2> HIDE DEF e, h
  <2> QED
    BY <1>9, <1>10, <1>11, <2>1 DEF WholeFrom
<1>13. h \in 0 .. k - 1
  BY <1>1, <1>7
<1> QED
  BY <1>12, <1>13

\* R2 differs from R in its buffer alone.
SameButBuffer(R2, R) == R2.curr = R.curr /\ R2.lastAck = R.lastAck /\ R2.loss = R.loss

\* Places that hold what was read may leave the ring.
LEMMA ReleaseKeeps ==
    ASSUME NEW First, NEW n, FewPackets(First, n), NEW R, NEW last, ReceiverAt(R, last), NEW D,
           RingAt(First, n, R, D), NEW k \in 0 .. getRcvDataSize(R.buf),
           \A i \in 0 .. k - 1 : Nth(R.buf, i).pkt.msg \in D,
           NEW R2, SameButBuffer(R2, R), BufShape(R2.buf),
           getRcvDataSize(R2.buf) = getRcvDataSize(R.buf) - k, R2.buf.maxPos = R.buf.maxPos,
           \A i \in 0 .. N - 1 : Nth(R2.buf, i) = IF k + i < N THEN Nth(R.buf, k + i) ELSE NoUnit
    PROVE  RingAt(First, n, R2, D) /\ StartPos(R2) = StartPos(R) + k
<1> DEFINE d == getRcvDataSize(R.buf)
           x0 == StartPos(R)
<1>1. k \in 0 .. d
  OBVIOUS
<1>2. d \in 0 .. N - 1 /\ x0 \in Nat /\ x0 + (N - 1) > Pos(R.curr) /\ Pos(R.curr) \in Int /\ Pos(R.lastAck) \in Int
      /\ x0 = Pos(R.lastAck) - d /\ \A j \in 0 .. d - 1 : Here(R, x0 + j)
  <2>1. d \in 0 .. N - 1 /\ x0 \in Nat /\ x0 + (N - 1) > Pos(R.curr) /\ \A j \in 0 .. d - 1 : Here(R, x0 + j)
    BY RingFacts
  <2>2. Pos(R.curr) \in Int /\ Pos(R.lastAck) \in Int
    BY RingFacts
  <2> QED
    BY <2>1, <2>2 DEF StartPos
<1>3. StartPos(R2) = x0 + k
  <2>1. StartPos(R2) = Pos(R.lastAck) - (d - k)
    BY DEF StartPos, SameButBuffer
  <2> HIDE DEF d, x0
  <2> QED
    BY <1>1, <1>2, <2>1
<1>4. \A x : Here(R2, x) <=> Here(R, x)
  BY DEF Here, SameButBuffer
<1>5. \A j \in 0 .. N - 1 : PlaceHolds(First, R, D, j)
  BY DEF RingAt
<1>6. WellRead(First, n, R, D)
  BY DEF RingAt
<1> HIDE DEF d, x0
<1>7. ASSUME NEW i \in 0 .. N - 1 PROVE PlaceHolds(First, R2, D, i)
  <2>1. CASE k + i < N
    <3>1. k + i \in 0 .. N - 1 /\ x0 + k + i = x0 + (k + i)
      BY <1>1, <1>2, <2>1, Size
    <3>2. PlaceHolds(First, R, D, k + i) /\ Nth(R2.buf, i) = Nth(R.buf, k + i)
      BY <1>5, <2>1, <3>1
    <3> QED
      BY <1>3, <1>4, <3>1, <3>2 DEF PlaceHolds, x0
  <2>2. CASE ~(k + i < N)
    <3>1. x0 + k + i > Pos(R.curr) /\ x0 + k + i \in Int
      BY <1>1, <1>2, <2>2, Size
    <3>2. ~Here(R, x0 + k + i)
      BY <1>2, <3>1 DEF Here
    <3>3. Nth(R2.buf, i) = NoUnit
      BY <2>2
    <3> QED
      BY <1>3, <1>4, <3>2, <3>3 DEF PlaceHolds
  <2> QED
    BY <2>1, <2>2
<1>8. ASSUME NEW m \in 1 .. n, First[m] < StartPos(R2) PROVE m \in D
  <2>1. First[m] \in Nat /\ First[m + 1] \in Nat /\ First[m] < First[m + 1]
    BY Lengths
  <2>2. CASE First[m] < x0
    BY <1>6, <2>2 DEF WellRead, x0
  <2>3. CASE ~(First[m] < x0)
    <3> DEFINE j == First[m] - x0
    <3>1. j \in 0 .. k - 1 /\ j \in 0 .. d - 1 /\ j \in 0 .. N - 1 /\ x0 + j = First[m]
      BY <1>1, <1>2, <1>3, <1>8, <2>1, <2>3, Size
    <3> HIDE DEF j
    <3>2. PlaceHolds(First, R, D, j) /\ Here(R, x0 + j)
      BY <1>2, <1>5, <3>1
    <3>3. IsPacket(First, Nth(R.buf, j).pkt, First[m])
      BY <3>1, <3>2 DEF PlaceHolds, x0
    <3>4. Nth(R.buf, j).pkt.msg <= m /\ m <= Nth(R.buf, j).pkt.msg /\ Nth(R.buf, j).pkt.msg \in 1 .. n
      BY <2>1, <3>3, MessageAt, PacketIs
    <3>5. Nth(R.buf, j).pkt.msg = m /\ Nth(R.buf, j).pkt.msg \in D
      BY <3>1, <3>4
    <3> QED
      BY <3>5
  <2> QED
    BY <2>2, <2>3
<1>9. WellRead(First, n, R2, D)
  BY <1>4, <1>6, <1>8 DEF WellRead
<1>10. StartPos(R2) >= 0 /\ Pos(R2.curr) + 1 - StartPos(R2) < N
  <2>1. R2.curr = R.curr
    BY DEF SameButBuffer
  <2> QED
    BY <1>1, <1>2, <1>3, <2>1, Size
<1>11. R2.buf.maxPos = IF Pos(R2.curr) < Pos(R2.lastAck) THEN 0 ELSE Pos(R2.curr) - Pos(R2.lastAck)
  BY DEF RingAt, SameButBuffer
<1> QED
  BY <1>3, <1>7, <1>9, <1>10, <1>11 DEF RingAt, x0

LEMMA SameKeeps ==
    ASSUME NEW First, NEW n, FewPackets(First, n), NEW R, NEW last, ReceiverAt(R, last), NEW D,
           RingAt(First, n, R, D), NEW R2, SameButBuffer(R2, R), SamePlaces(R2.buf, R.buf)
    PROVE  RingAt(First, n, R2, D)
<1>1. getRcvDataSize(R.buf) \in Nat
  BY RingFacts, Size
<1>2. BufShape(R2.buf) /\ R2.buf.maxPos = R.buf.maxPos /\ 0 \in 0 .. getRcvDataSize(R.buf)
      /\ getRcvDataSize(R2.buf) = getRcvDataSize(R.buf) - 0
  BY <1>1 DEF SamePlaces
<1>3. \A i \in 0 .. N - 1 : Nth(R2.buf, i) = IF 0 + i < N THEN Nth(R.buf, 0 + i) ELSE NoUnit
  BY Size DEF SamePlaces
<1>4. \A i \in 0 .. 0 - 1 : Nth(R.buf, i).pkt.msg \in D
  OBVIOUS
<1> QED
  BY <1>2, <1>3, <1>4, ReleaseKeeps

\* A whole message may be marked as read.
LEMMA MarkKeeps ==
    ASSUME NEW First, NEW n, FewPackets(First, n), NEW R, NEW last, ReceiverAt(R, last), NEW D,
           RingAt(First, n, R, D), NEW m \in 1 .. n, StartPos(R) <= First[m],
           \A x \in First[m] .. First[m + 1] - 1 : Here(R, x),
           NEW R2, SameButBuffer(R2, R), BufShape(R2.buf),
           getRcvDataSize(R2.buf) = getRcvDataSize(R.buf), R2.buf.maxPos = R.buf.maxPos,
           \A k \in 0 .. N - 1 :
              Nth(R2.buf, k) = IF k \in First[m] - StartPos(R) .. First[m + 1] - 1 - StartPos(R)
                               THEN [Nth(R.buf, k) EXCEPT !.flag = 2] ELSE Nth(R.buf, k)
    PROVE  RingAt(First, n, R2, D \cup {m})
<1> DEFINE x0 == StartPos(R)
<1>1. x0 \in Nat /\ StartPos(R2) = x0
  <2>1. x0 \in Nat
    BY RingFacts
  <2> QED
    BY <2>1 DEF StartPos, SameButBuffer
<1>2. \A x : Here(R2, x) <=> Here(R, x)
  BY DEF Here, SameButBuffer
<1>3. WellRead(First, n, R, D) /\ \A k \in 0 .. N - 1 : PlaceHolds(First, R, D, k)
  BY DEF RingAt
<1>4. First[m] \in Nat /\ First[m + 1] \in Nat
  BY Lengths
<1>5. ASSUME NEW k \in 0 .. N - 1 PROVE PlaceHolds(First, R2, D \cup {m}, k)
  <2> DEFINE u == Nth(R.buf, k)
             inside == k \in First[m] - x0 .. First[m + 1] - 1 - x0
  <2>1. Nth(R2.buf, k) = IF inside THEN [u EXCEPT !.flag = 2] ELSE u
    OBVIOUS
  <2>2. IF Here(R, x0 + k)
        THEN IsPacket(First, u.pkt, x0 + k) /\ u = [pkt |-> u.pkt, flag |-> IF u.pkt.msg \in D THEN 2 ELSE 1]
        ELSE u = NoUnit
    BY <1>3 DEF PlaceHolds
  <2> HIDE DEF x0, u
  <2>3. inside <=> First[m] <= x0 + k /\ x0 + k < First[m + 1]
    BY <1>1, <1>4, Size
  <2>4. CASE Here(R, x0 + k)
    <3>1. IsPacket(First, u.pkt, x0 + k) /\ u = [pkt |-> u.pkt, flag |-> IF u.pkt.msg \in D THEN 2 ELSE 1]
      BY <2>2, <2>4
    <3>2. inside <=> u.pkt.msg = m
      <4>1. u.pkt.msg \in 1 .. n /\ First[u.pkt.msg] <= x0 + k /\ x0 + k < First[u.pkt.msg + 1]
        BY <3>1, PacketIs
      <4>2. /\ First[m] <= x0 + k => m <= u.pkt.msg
            /\ x0 + k < First[m + 1] => u.pkt.msg <= m
        BY <3>1, MessageAt
      <4>3. CASE inside
        <5>1. m <= u.pkt.msg /\ u.pkt.msg <= m
          BY <2>3, <4>2, <4>3
        <5> QED
          BY <4>1, <4>3, <5>1
      <4>4. CASE u.pkt.msg = m
        BY <2>3, <4>1, <4>4
      <4> QED
        BY <4>3, <4>4
    <3> HIDE DEF inside
    <3>3. Nth(R2.buf, k) = [pkt |-> u.pkt, flag |-> IF u.pkt.msg \in D \cup {m} THEN 2 ELSE 1]
      <4>1. CASE inside
        BY <2>1, <3>1, <3>2, <4>1
      <4>2. CASE ~inside
        BY <2>1, <3>1, <3>2, <4>2
      <4> QED
        BY <4>1, <4>2
    <3>4. Nth(R2.buf, k).pkt = u.pkt
      BY <3>3
    <3> QED
      BY <1>1, <1>2, <2>4, <3>1, <3>3, <3>4 DEF PlaceHolds
  <2>5. CASE ~Here(R, x0 + k)
    <3>1. ~inside
      <4>1. SUFFICES ASSUME inside PROVE FALSE
        OBVIOUS
      <4>2. x0 + k \in First[m] .. First[m + 1] - 1
        BY <1>1, <1>4, <2>3, <4>1, Size
      <4> QED
        BY <2>5, <4>2
    <3>2. Nth(R2.buf, k) = NoUnit
      BY <2>1, <2>2, <2>5, <3>1
    <3> QED
      BY <1>1, <1>2, <2>5, <3>2 DEF PlaceHolds
  <2> QED
    BY <2>4, <2>5
<1>6. WellRead(First, n, R2, D \cup {m})
  BY <1>1, <1>2, <1>3 DEF WellRead
<1>7. R2.buf.maxPos = (IF Pos(R2.curr) < Pos(R2.lastAck) THEN 0 ELSE Pos(R2.curr) - Pos(R2.lastAck))
      /\ StartPos(R2) >= 0 /\ Pos(R2.curr) + 1 - StartPos(R2) < N
  BY <1>1 DEF RingAt, SameButBuffer
<1> QED
  BY <1>5, <1>6, <1>7 DEF RingAt

\* What scanMsg finds is one whole message that was not read yet.
LEMMA FoundIs ==
    ASSUME NEW First, NEW n, FewPackets(First, n), NEW R, NEW last, ReceiverAt(R, last), NEW D,
           RingAt(First, n, R, D), NEW p, NEW q, Found(R.buf, p, q)
    PROVE  \E m \in 1 .. n :
              /\ m \notin D /\ StartPos(R) <= First[m]
              /\ p = First[m] - StartPos(R) /\ q = First[m + 1] - 1 - StartPos(R)
              /\ \A x \in First[m] .. First[m + 1] - 1 : Here(R, x)
              /\ [k \in 1 .. q + 1 - p |-> Nth(R.buf, p + k - 1).pkt] = Packets(m)
              /\ q >= getRcvDataSize(R.buf) => ~Messages[m].order
<1> DEFINE B == R.buf
           x0 == StartPos(R)
           m == Nth(B, q).pkt.msg
           a == Nth(B, p).pkt.msg
           h == First[m] - x0
           out == [k \in 1 .. q + 1 - p |-> Nth(B, p + k - 1).pkt]
<1>1. x0 \in Nat
  BY RingFacts
<1>2. \A k \in 0 .. N - 1 : Good(B, k) =>
         /\ Here(R, x0 + k) /\ IsPacket(First, Nth(B, k).pkt, x0 + k)
         /\ Nth(B, k).pkt.msg \notin D /\ Bound(B, k) = Nth(B, k).pkt.bound
  BY UnitsAre
<1>3. q \in Nat /\ q <= N - 2 /\ p \in 0 .. q /\ Ends(B, q) /\ HeadOf(B, p, q)
      /\ \A i \in 0 .. q : HeadOf(B, i, q) => i <= p
  BY DEF Found
<1>4. \A i \in p .. q : i \in 0 .. N - 1 /\ Good(B, i)
  BY <1>3, Size DEF HeadOf
<1> HIDE DEF x0
<1>5. \A i \in p .. q : /\ Here(R, x0 + i) /\ IsPacket(First, Nth(B, i).pkt, x0 + i)
                        /\ Nth(B, i).pkt.msg \notin D /\ Bound(B, i) = Nth(B, i).pkt.bound
  BY <1>2, <1>4
<1>6. IsPacket(First, Nth(B, q).pkt, x0 + q) /\ Bound(B, q) = Nth(B, q).pkt.bound /\ m \notin D
  BY <1>3, <1>5
<1>7. IsPacket(First, Nth(B, p).pkt, x0 + p) /\ Bound(B, p) = Nth(B, p).pkt.bound
  BY <1>3, <1>5
<1>8. m \in 1 .. n /\ First[m] \in Nat /\ First[m + 1] \in Nat /\ First[m] <= x0 + q /\ x0 + q = First[m + 1] - 1
  <2>1. Bound(B, q) \in {1, 3}
    BY <1>3 DEF Ends
  <2> QED
    BY <1>6, <2>1, PacketIs
<1>9. a \in 1 .. n /\ First[a] \in Nat /\ First[a + 1] \in Nat /\ x0 + p = First[a] /\ First[a] < First[a + 1]
  <2>1. Bound(B, p) > 1
    BY <1>3 DEF HeadOf
  <2> QED
    BY <1>7, <2>1, PacketIs
<1>10. a = m
  <2>1. First[a] <= x0 + q
    BY <1>1, <1>3, <1>9
  <2>2. a <= m
    BY <1>6, <1>9, <2>1, MessageAt
  <2>3. ASSUME a < m PROVE FALSE
    <3>1. First[a + 1] <= First[m]
      <4>1. a + 1 \in 1 .. n + 1 /\ m \in a + 1 .. n + 1
        <5>1. n \in Nat
          BY DEF FewPackets
        <5> HIDE DEF m, a
        <5> QED
          BY <1>8, <1>9, <2>3, <5>1
      <4> QED
        BY <4>1, FirstGrows
    <3>2. h \in p + 1 .. q /\ h \in p .. q /\ h \in 0 .. q /\ x0 + h = First[m]
      BY <1>1, <1>3, <1>8, <1>9, <3>1
    <3> HIDE DEF h, m, a
    <3>3. IsPacket(First, Nth(B, h).pkt, First[m]) /\ Bound(B, h) = Nth(B, h).pkt.bound
      BY <1>5, <3>2
    <3>4. First[m] < First[m + 1]
      BY <1>8, Lengths
    <3>5. Nth(B, h).pkt.msg \in 1 .. n /\ Nth(B, h).pkt.msg <= m /\ m <= Nth(B, h).pkt.msg
      BY <1>8, <3>3, <3>4, MessageAt, PacketIs
    <3>6. Nth(B, h).pkt.msg = m
      BY <1>8, <3>5
    <3>7. Bound(B, h) > 1
      BY <3>3, <3>6, PacketIs
    <3>8. \A i \in h .. q : Good(B, i)
      BY <1>3, <1>4, <3>2
    <3>9. HeadOf(B, h, q)
      BY <3>7, <3>8 DEF HeadOf
    <3>10. h <= p
      BY <1>3, <3>2, <3>9
    <3> QED
      BY <1>3, <3>2, <3>10
  <2> QED
    BY <1>8, <1>9, <2>2, <2>3
<1> HIDE DEF m, a
<1>11. p = First[m] - x0 /\ q = First[m + 1] - 1 - x0 /\ x0 <= First[m]
  BY <1>1, <1>3, <1>8, <1>9, <1>10
<1>12. ASSUME NEW x \in First[m] .. First[m + 1] - 1 PROVE Here(R, x)
  <2>1. x - x0 \in p .. q /\ x0 + (x - x0) = x
    BY <1>1, <1>8, <1>11
  <2>2. Here(R, x0 + (x - x0))
    BY <1>5, <2>1
  <2> QED
    BY <2>1, <2>2
<1>13. out = Packets(m)
  <2>1. First[m + 1] - First[m] = q + 1 - p
    BY <1>1, <1>8, <1>11
  <2>2. out = [k \in 1 .. First[m + 1] - First[m] |-> out[k]]
    BY <2>1
  <2>3. ASSUME NEW k \in 1 .. First[m + 1] - First[m] PROVE IsPacket(First, out[k], First[m] + k - 1)
    <3>1. k \in 1 .. q + 1 - p /\ p + k - 1 \in p .. q /\ x0 + (p + k - 1) = First[m] + k - 1
      BY <1>1, <1>3, <1>8, <1>11, <2>1
    <3>2. out[k] = Nth(B, p + k - 1).pkt
      BY <3>1
    <3> HIDE DEF out
    <3> QED
      BY <1>5, <3>1, <3>2
  <2> HIDE DEF out
  <2> QED
    BY <1>8, <2>2, <2>3, WholeMessage
<1>14. q >= getRcvDataSize(B) => ~Messages[m].order
  <2>1. q < getRcvDataSize(B) \/ ~Nth(B, q).pkt.order
    BY <1>3 DEF Ends
  <2>2. Nth(B, q).pkt.order = Messages[m].order
    BY <1>6, PacketIs DEF m
  <2>3. q \in Int /\ getRcvDataSize(B) \in Int
    BY <1>3, RingFacts, Size
  <2> QED
    BY <2>1, <2>2, <2>3
<1> QED
  BY <1>6, <1>8, <1>11, <1>12, <1>13, <1>14 DEF x0

\* If it is acknowledged, it is the message that begins at m_iStartPos, and everything sent before
\* it was read.
LEMMA FoundFirst ==
    ASSUME NEW First, NEW n, FewPackets(First, n), NEW R, NEW last, ReceiverAt(R, last), NEW D,
           RingAt(First, n, R, D), NEW p, NEW q, Found(R.buf, p, q), q < getRcvDataSize(R.buf),
           getRcvDataSize(R.buf) = 0 \/ WholeFrom(R.buf, 0),
           NEW m \in 1 .. n, p = First[m] - StartPos(R), q = First[m + 1] - 1 - StartPos(R)
    PROVE  p = 0 /\ 1 .. m - 1 \subseteq D
<1> DEFINE B == R.buf
           d == getRcvDataSize(B)
           x0 == StartPos(R)
           a == Nth(B, 0).pkt.msg
           z == First[a + 1] - 1 - x0
<1>1. d \in 0 .. N - 1 /\ x0 \in Nat /\ \A k \in 0 .. d - 1 : Here(R, x0 + k)
  BY RingFacts
<1>2. \A k \in 0 .. N - 1 : Here(R, x0 + k) =>
         /\ IsPacket(First, Nth(B, k).pkt, x0 + k) /\ Bound(B, k) = Nth(B, k).pkt.bound
         /\ Good(B, k) <=> Nth(B, k).pkt.msg \notin D
  BY UnitsAre
<1>3. q \in Nat /\ p \in 0 .. q /\ q < d /\ \A k \in 0 .. q - 1 : ~Ends(B, k)
  BY DEF Found
<1>4. Good(B, 0) /\ Bound(B, 0) > 1
  <2> HIDE DEF d
  <2>1. d # 0
    BY <1>1, <1>3
  <2> QED
    BY <2>1 DEF d, WholeFrom
<1>5. WellRead(First, n, R, D)
  BY DEF RingAt
<1> HIDE DEF d, x0
<1>6. \A k \in 0 .. d - 1 : /\ IsPacket(First, Nth(B, k).pkt, x0 + k) /\ Bound(B, k) = Nth(B, k).pkt.bound
                            /\ Good(B, k) <=> Nth(B, k).pkt.msg \notin D
  <2> TAKE k \in 0 .. d - 1
  <2>1. k \in 0 .. N - 1 /\ Here(R, x0 + k)
    BY <1>1, Size
  <2> QED
    BY <1>2, <2>1
<1>7. IsPacket(First, Nth(B, 0).pkt, x0) /\ a \notin D /\ Bound(B, 0) = Nth(B, 0).pkt.bound
  <2>1. 0 \in 0 .. d - 1 /\ x0 + 0 = x0
    BY <1>1, <1>3
  <2> QED
    BY <1>4, <1>6, <2>1
<1>8. a \in 1 .. n /\ First[a] = x0 /\ First[a + 1] \in Nat /\ First[a] < First[a + 1]
  BY <1>4, <1>7, PacketIs
<1> HIDE DEF a
<1>9. z \in Nat /\ x0 + z < First[a + 1] /\ x0 + z = First[a + 1] - 1
  BY <1>1, <1>8
<1>10. \A k \in 0 .. d - 1 : k <= z => Good(B, k) /\ Nth(B, k).pkt.msg = a
  <2> TAKE k \in 0 .. d - 1
  <2> HAVE k <= z
  <2>1. First[a] <= x0 + k /\ x0 + k < First[a + 1]
    BY <1>1, <1>8, <1>9
  <2>2. IsPacket(First, Nth(B, k).pkt, x0 + k)
    BY <1>6
  <2>3. Nth(B, k).pkt.msg \in 1 .. n /\ Nth(B, k).pkt.msg <= a /\ a <= Nth(B, k).pkt.msg
    BY <1>8, <2>1, <2>2, MessageAt, PacketIs
  <2>4. Nth(B, k).pkt.msg = a
    BY <1>8, <2>3
  <2> QED
    BY <1>6, <1>7, <2>4 DEF a
<1> HIDE DEF z
<1>11. q <= z
  <2> SUFFICES ASSUME z < q PROVE FALSE
    BY <1>3, <1>9
  <2>1. z \in 0 .. d - 1 /\ z \in 0 .. q - 1
    BY <1>1, <1>3, <1>9
  <2>2. \A i \in 0 .. z : Good(B, i)
    BY <1>1, <1>10, <2>1
  <2>3. HeadOf(B, 0, z)
    BY <1>4, <2>2 DEF HeadOf
  <2>4. Bound(B, z) \in {1, 3}
    <3>1. IsPacket(First, Nth(B, z).pkt, x0 + z) /\ Bound(B, z) = Nth(B, z).pkt.bound /\ Nth(B, z).pkt.msg = a
      BY <1>6, <1>10, <2>1
    <3> QED
      BY <1>9, <3>1, PacketIs
  <2>5. z < d /\ Good(B, z)
    BY <1>1, <2>1, <2>2
  <2>6. Ends(B, z)
    <3>1. 0 \in 0 .. z
      BY <2>1
    <3> QED
      BY <2>3, <2>4, <2>5, <3>1 DEF Ends, d
  <2> QED
    BY <1>3, <2>1, <2>6
<1>12. m = a
  <2>1. q \in 0 .. d - 1
    BY <1>1, <1>3
  <2>2. Nth(B, q).pkt.msg = a /\ IsPacket(First, Nth(B, q).pkt, x0 + q)
    BY <1>6, <1>10, <1>11, <2>1
  <2>3. First[m] \in Nat /\ First[m + 1] \in Nat /\ First[m] < First[m + 1]
    BY Lengths
  <2>4. First[m] <= x0 + q /\ x0 + q < First[m + 1]
    BY <1>1, <1>3, <2>3 DEF x0
  <2>5. m <= a /\ a <= m
    BY <2>2, <2>4, MessageAt
  <2> QED
    BY <1>8, <2>5
<1>13. ASSUME NEW i \in 1 .. m - 1 PROVE i \in D
  <2>1. i \in 1 .. n /\ i + 1 \in 1 .. n + 1 /\ m \in i + 1 .. n + 1
    <3>1. n \in Nat /\ m \in 1 .. n
      BY DEF FewPackets
    <3> QED
      BY <3>1
  <2>2. First[i] < First[i + 1] /\ First[i + 1] <= First[m] /\ First[i] \in Nat /\ First[i + 1] \in Nat
    BY <2>1, FirstGrows, Lengths
  <2>3. First[i] < x0
    BY <1>1, <1>8, <1>12, <2>2
  <2> QED
    BY <1>5, <2>1, <2>3 DEF WellRead, x0
<1> QED
  BY <1>8, <1>12, <1>13, <1>1 DEF x0

LEMMA WholeFromStart ==
    ASSUME NEW B, BufShape(B), NEW k \in 0 .. getRcvDataSize(B), WholeFrom(B, k),
           NEW C, getRcvDataSize(C) = getRcvDataSize(B) - k,
           \A i \in 0 .. N - 1 : Nth(C, i) = IF k + i < N THEN Nth(B, k + i) ELSE NoUnit
    PROVE  WholeFrom(C, 0)
<1> DEFINE d == getRcvDataSize(B)
<1>1. d \in 0 .. N - 1 /\ k \in 0 .. d
  BY Places
<1>2. PICK e \in k .. d : /\ \A i \in k .. e - 1 : Good(B, i)
                          /\ e = d \/ (Good(B, e) /\ Bound(B, e) \in {1, 3})
  BY DEF WholeFrom
<1>3. Good(B, k) /\ Bound(B, k) > 1
  BY DEF WholeFrom
<1>4. getRcvDataSize(C) = d - k
  OBVIOUS
<1> HIDE DEF d
<1>5. ASSUME NEW i \in 0 .. d - k PROVE (Good(C, i) <=> Good(B, k + i)) /\ Bound(C, i) = Bound(B, k + i)
  <2>1. i \in 0 .. N - 1 /\ k + i < N
    BY <1>1, Size
  <2> QED
    BY <2>1 DEF Good, Bound
<1>6. e - k \in 0 .. d - k /\ k + (e - k) = e /\ 0 \in 0 .. d - k /\ k + 0 = k
  BY <1>1, <1>2, Size
<1>7. Good(C, 0) /\ Bound(C, 0) > 1
  BY <1>3, <1>5, <1>6
<1>8. \A i \in 0 .. (e - k) - 1 : Good(C, i)
  <2> TAKE i \in 0 .. (e - k) - 1
  <2>1. i \in 0 .. d - k /\ k + i \in k .. e - 1
    BY <1>1, <1>2, Size
  <2> QED
    BY <1>2, <1>5, <2>1
<1>9. e - k = d - k \/ (Good(C, e - k) /\ Bound(C, e - k) \in {1, 3})
  <2>1. Good(C, e - k) <=> Good(B, e)
    BY <1>5, <1>6
  <2>2. Bound(C, e - k) = Bound(B, e)
    BY <1>5, <1>6
  <2> QED
    BY <1>2, <2>1, <2>2
<1> QED
  BY <1>4, <1>6, <1>7, <1>8, <1>9 DEF WholeFrom

\* readMsg returns nothing or a whole message that was not read yet; one with the order flag has
\* everything before it read.
LEMMA ReadKeeps ==
    ASSUME NEW First, NEW n, FewPackets(First, n), NEW R, NEW last, ReceiverAt(R, last), NEW D,
           RingAt(First, n, R, D), NEW R2, SameButBuffer(R2, R), NEW r, r = readMsg(R.buf), R2.buf = r.buf
    PROVE  \/ r.out = <<>> /\ RingAt(First, n, R2, D)
           \/ \E m \in 1 .. n : /\ m \notin D /\ r.out = Packets(m) /\ RingAt(First, n, R2, D \cup {m})
                                /\ Messages[m].order => 1 .. m - 1 \subseteq D
                                /\ \A x \in First[m] .. First[m + 1] - 1 : Here(R, x)
<1> DEFINE B == R.buf
           d == getRcvDataSize(B)
<1>1. BufShape(B) /\ B.maxPos + d < N /\ ~Good(B, N - 1) /\ d \in 0 .. N - 1
  BY RingFacts
<1>2. SUFFICES ASSUME ~(r.out = <<>> /\ RingAt(First, n, R2, D))
               PROVE  \E m \in 1 .. n : /\ m \notin D /\ r.out = Packets(m) /\ RingAt(First, n, R2, D \cup {m})
                                        /\ Messages[m].order => 1 .. m - 1 \subseteq D
                                        /\ \A x \in First[m] .. First[m + 1] - 1 : Here(R, x)
  OBVIOUS
<1>3. ~(r.buf = B /\ r.out = <<>>)
  <2> SUFFICES ASSUME r.buf = B PROVE RingAt(First, n, R2, D)
    BY <1>2
  <2>1. SamePlaces(R2.buf, R.buf)
    BY <1>1 DEF SamePlaces
  <2> QED
    BY <2>1, SameKeeps
<1>4. PICK k \in 0 .. d :
              /\ k = d \/ WholeFrom(B, k)
              /\ \A i \in 0 .. k - 1 : ~WholeFrom(B, i)
              /\ \/ SamePlaces(r.buf, Released(B, k)) /\ r.out = <<>>
                 \/ \E p, q : Found(Released(B, k), p, q) /\ ReadTo(r, Released(B, k), p, q)
  BY <1>1, <1>3, ReadMsgIs
<1> DEFINE C == Released(B, k)
           R1 == [curr |-> R.curr, lastAck |-> R.lastAck, loss |-> R.loss, buf |-> C]
<1>5. /\ BufShape(C) /\ getRcvDataSize(C) = d - k /\ C.maxPos = B.maxPos
      /\ \A i \in 0 .. N - 1 : Nth(C, i) = IF k + i < N THEN Nth(B, k + i) ELSE NoUnit
  BY <1>1, ReleasedIs, ReleasedIsReleased
<1> HIDE DEF C
<1>6. R1.buf = C /\ SameButBuffer(R1, R) /\ SameButBuffer(R2, R1)
  BY DEF SameButBuffer
<1> HIDE DEF R1
<1>7. RingAt(First, n, R1, D)
  <2>1. \A i \in 0 .. k - 1 : Nth(R.buf, i).pkt.msg \in D
    BY <1>4, SkippedIsRead
  <2> QED
    BY <1>5, <1>6, <2>1, ReleaseKeeps
<1>8. ReceiverAt(R1, last) /\ \A x : Here(R1, x) <=> Here(R, x)
  BY <1>6 DEF ReceiverAt, SameButBuffer, Here
<1>9. d - k \in Nat /\ d - k < N
  BY <1>1, Size
<1> HIDE DEF d
<1>10. ~(SamePlaces(r.buf, C) /\ r.out = <<>>)
  <2> SUFFICES ASSUME SamePlaces(r.buf, C) PROVE RingAt(First, n, R2, D)
    BY <1>2
  <2>1. SamePlaces(R2.buf, R1.buf)
    BY <1>6
  <2> QED
    BY <1>6, <1>7, <1>8, <2>1, SameKeeps
<1>11. PICK p, q : Found(C, p, q) /\ ReadTo(r, C, p, q)
  BY <1>4, <1>10 DEF C
<1>12. PICK m \in 1 .. n :
              /\ m \notin D /\ StartPos(R1) <= First[m]
              /\ p = First[m] - StartPos(R1) /\ q = First[m + 1] - 1 - StartPos(R1)
              /\ \A x \in First[m] .. First[m + 1] - 1 : Here(R1, x)
              /\ [i \in 1 .. q + 1 - p |-> Nth(C, p + i - 1).pkt] = Packets(m)
              /\ q >= d - k => ~Messages[m].order
  BY <1>5, <1>6, <1>7, <1>8, <1>11, FoundIs
<1>13. r.out = Packets(m)
  BY <1>11, <1>12 DEF ReadTo
<1>14. q \in Nat /\ q <= N - 2 /\ p \in 0 .. q /\ p \in 0 .. N - 1 /\ q \in p .. N - 1
  <2>1. q \in Nat /\ q <= N - 2 /\ p \in 0 .. q
    BY <1>11 DEF Found
  <2> QED
    BY <2>1, Size
<1>15. CASE q >= d - k
  <2>1. IsMarked(r.buf, C, p, q) /\ ~Messages[m].order
    BY <1>5, <1>11, <1>12, <1>15 DEF ReadTo
  <2>2. /\ BufShape(r.buf) /\ getRcvDataSize(r.buf) = getRcvDataSize(C) /\ r.buf.maxPos = C.maxPos
        /\ \A i \in 0 .. N - 1 : Nth(r.buf, i) = IF i \in p .. q THEN [Nth(C, i) EXCEPT !.flag = 2] ELSE Nth(C, i)
    BY <1>5, <1>14, <2>1, MarkedIs
  <2>3. RingAt(First, n, R2, D \cup {m})
    BY <1>6, <1>7, <1>8, <1>12, <2>2, MarkKeeps
  <2> QED
    BY <1>8, <1>12, <1>13, <2>1, <2>3
<1>16. CASE q < d - k
  <2>1. getRcvDataSize(R1.buf) = 0 \/ WholeFrom(R1.buf, 0)
    <3>1. CASE k = d
      BY <1>5, <1>6, <1>9, <3>1
    <3>2. CASE WholeFrom(B, k)
      BY <1>1, <1>5, <1>6, <3>2, WholeFromStart DEF d
    <3> QED
      BY <1>4, <3>1, <3>2
  <2>2. p = 0 /\ 1 .. m - 1 \subseteq D
    <3>1. Found(R1.buf, p, q) /\ q < getRcvDataSize(R1.buf)
      BY <1>5, <1>6, <1>11, <1>16
    <3>2. p = First[m] - StartPos(R1) /\ q = First[m + 1] - 1 - StartPos(R1)
      BY <1>12
    <3> QED
      BY <1>7, <1>8, <2>1, <3>1, <3>2, FoundFirst
  <2>3. IsReleased(r.buf, C, q + 1)
    BY <1>5, <1>11, <1>16, <2>2 DEF ReadTo
  <2>4. q + 1 \in 0 .. getRcvDataSize(C)
    BY <1>5, <1>9, <1>14, <1>16
  <2>5. /\ BufShape(r.buf) /\ getRcvDataSize(r.buf) = getRcvDataSize(C) - (q + 1) /\ r.buf.maxPos = C.maxPos
        /\ \A i \in 0 .. N - 1 : Nth(r.buf, i) = IF q + 1 + i < N THEN Nth(C, q + 1 + i) ELSE NoUnit
    BY <1>5, <2>3, <2>4, ReleasedIs
  <2> DEFINE M == [C EXCEPT !.unit = [i \in DOMAIN @ |-> IF Ring(i - C.start - p) < q + 1 - p
                                                         THEN [C.unit[i] EXCEPT !.flag = 2] ELSE C.unit[i]]]
             R3 == [curr |-> R.curr, lastAck |-> R.lastAck, loss |-> R.loss, buf |-> M]
  <2>6. IsMarked(M, C, p, q)
    BY <1>5 DEF IsMarked, BufShape
  <2> HIDE DEF M
  <2>7. /\ BufShape(M) /\ getRcvDataSize(M) = getRcvDataSize(C) /\ M.maxPos = C.maxPos
        /\ \A i \in 0 .. N - 1 : Nth(M, i) = IF i \in p .. q THEN [Nth(C, i) EXCEPT !.flag = 2] ELSE Nth(C, i)
    BY <1>5, <1>14, <2>6, MarkedIs
  <2>8. R3.buf = M /\ SameButBuffer(R3, R1) /\ SameButBuffer(R2, R3) /\ ReceiverAt(R3, last)
    BY <1>6 DEF SameButBuffer, ReceiverAt
  <2> HIDE DEF R3
  <2>9. RingAt(First, n, R3, D \cup {m})
    BY <1>6, <1>7, <1>8, <1>12, <2>7, <2>8, MarkKeeps
  <2>10. \A i \in 0 .. (q + 1) - 1 : Nth(R3.buf, i).pkt.msg \in D \cup {m}
    <3> TAKE i \in 0 .. (q + 1) - 1
    <3>1. StartPos(R3) = StartPos(R1) /\ StartPos(R1) \in Nat
      <4>1. StartPos(R3) = StartPos(R1)
        BY <1>6, <2>7, <2>8 DEF StartPos, SameButBuffer
      <4> QED
        BY <1>7, <1>8, <4>1, RingFacts
    <3>2. i \in 0 .. N - 1 /\ First[m] <= StartPos(R3) + i /\ StartPos(R3) + i < First[m + 1]
          /\ StartPos(R3) + i \in First[m] .. First[m + 1] - 1
      <4>1. First[m] \in Nat /\ First[m + 1] \in Nat
        BY Lengths
      <4>2. 0 = First[m] - StartPos(R1) /\ q = First[m + 1] - 1 - StartPos(R1)
        BY <1>12, <2>2
      <4>3. i \in 0 .. q /\ q <= N - 2 /\ q \in Nat
        BY <1>14
      <4> QED
        BY <3>1, <4>1, <4>2, <4>3, Size
    <3>3. Here(R3, StartPos(R3) + i)
      <4>1. Here(R1, StartPos(R3) + i)
        BY <1>12, <3>2
      <4> QED
        BY <2>8, <4>1 DEF Here, SameButBuffer
    <3>4. IsPacket(First, Nth(R3.buf, i).pkt, StartPos(R3) + i)
      BY <2>9, <3>2, <3>3, UnitsAre
    <3>5. /\ Nth(R3.buf, i).pkt.msg \in 1 .. n
          /\ Nth(R3.buf, i).pkt.msg <= m /\ m <= Nth(R3.buf, i).pkt.msg
      BY <3>2, <3>4, MessageAt, PacketIs
    <3>6. Nth(R3.buf, i).pkt.msg = m
      BY <3>5
    <3> QED
      BY <3>6
  <2>11. \A i \in 0 .. N - 1 : Nth(R2.buf, i) = IF q + 1 + i < N THEN Nth(R3.buf, q + 1 + i) ELSE NoUnit
    <3> TAKE i \in 0 .. N - 1
    <3>1. CASE q + 1 + i < N
      <4>1. q + 1 + i \in 0 .. N - 1 /\ q + 1 + i \notin p .. q
        BY <1>14, <3>1, Size
      <4>2. Nth(M, q + 1 + i) = Nth(C, q + 1 + i)
        BY <2>7, <4>1
      <4> QED
        BY <2>5, <2>8, <3>1, <4>2
    <3>2. CASE ~(q + 1 + i < N)
      BY <2>5, <3>2
    <3> QED
      BY <3>1, <3>2
  <2>12. RingAt(First, n, R2, D \cup {m})
    <3> DEFINE c == q + 1
    <3>1. /\ c \in 0 .. getRcvDataSize(R3.buf) /\ BufShape(R2.buf)
          /\ getRcvDataSize(R2.buf) = getRcvDataSize(R3.buf) - c /\ R2.buf.maxPos = R3.buf.maxPos
      BY <2>4, <2>5, <2>7, <2>8
    <3>2. ReceiverAt(R3, last) /\ SameButBuffer(R2, R3)
      BY <2>8
    <3> DEFINE E == D \cup {m}
    <3>3. RingAt(First, n, R3, E)
      BY <2>9
    <3>4. \A i \in 0 .. c - 1 : Nth(R3.buf, i).pkt.msg \in E
      BY <2>10
    <3>5. \A i \in 0 .. N - 1 : Nth(R2.buf, i) = IF c + i < N THEN Nth(R3.buf, c + i) ELSE NoUnit
      BY <2>11
    <3> HIDE DEF c, E
    <3>6. RingAt(First, n, R2, E)
      BY <3>1, <3>2, <3>3, <3>4, <3>5, ReleaseKeeps
    <3> QED
      BY <3>6 DEF E
  <2> QED
    BY <1>8, <1>12, <1>13, <2>2, <2>12
<1> QED
  BY <1>9, <1>14, <1>15, <1>16

-----------------------------------------------------------------------------
(* What data and acknowledgements do to the ring *)

LEMMA BetweenIsRange ==
    ASSUME NEW s, NEW t, Near(s), Near(t), Pos(s) <= Pos(t), NEW y \in Int, Pos(s) <= y, y <= Pos(t)
    PROVE  \E z \in SeqRange(s, t) : Pos(z) = y
<1> DEFINE k == y - Pos(s)
<1>1. Pos(s) \in Int /\ Pos(t) \in Int
  BY Line
<1>2. seqlen(s, t) = Pos(t) - Pos(s) + 1
  BY SeqNoAssumption, TransferAssumption DEF Near, Pos, SeqNos, seqoff, absdiff, seqlen
<1>3. k \in 0 .. seqlen(s, t) - 1 /\ k \in Int /\ 0 <= k /\ k <= Pos(t) - Pos(s) /\ Pos(s) + k = y
  BY <1>1, <1>2
<1> HIDE DEF k
<1>4. Pos(addseq(s, k)) = Pos(s) + k
  BY <1>1, <1>3, SeqNoAssumption, TransferAssumption DEF Near, Pos, SeqNos, seqoff, absdiff, addseq
<1>5. addseq(s, k) \in SeqRange(s, t)
  BY <1>3 DEF SeqRange
<1> QED
  BY <1>3, <1>4, <1>5

\* R2 is R with the packet of position x come in.
LEMMA ComesIn ==
    ASSUME NEW First, NEW n, FewPackets(First, n), NEW R, NEW last, ReceiverAt(R, last), NEW D,
           RingAt(First, n, R, D), NEW pkt, NEW x, IsPacket(First, pkt, x), ~Here(R, x), Pos(R.lastAck) <= x,
           NEW R2, Near(R2.curr), R2.lastAck = R.lastAck, Pos(R2.curr) = IF x > Pos(R.curr) THEN x ELSE Pos(R.curr),
           \A y \in Int : Here(R2, y) <=> Here(R, y) \/ y = x,
           NEW e, e = x - StartPos(R), e < N - 1,
           BufShape(R2.buf), getRcvDataSize(R2.buf) = getRcvDataSize(R.buf),
           R2.buf.maxPos = IF x - Pos(R.lastAck) > R.buf.maxPos THEN x - Pos(R.lastAck) ELSE R.buf.maxPos,
           \A k \in 0 .. N - 1 : Nth(R2.buf, k) = IF k = e THEN [pkt |-> pkt, flag |-> 1] ELSE Nth(R.buf, k)
    PROVE  RingAt(First, n, R2, D)
<1>1. x \in Int /\ pkt.msg \in 1 .. n /\ First[pkt.msg] <= x /\ x < First[pkt.msg + 1]
      /\ First[pkt.msg] \in Nat /\ First[pkt.msg + 1] \in Nat
  BY PacketIs
<1>2. /\ StartPos(R) \in Nat /\ Pos(R.curr) \in Int /\ Pos(R.lastAck) \in Int /\ getRcvDataSize(R.buf) \in 0 .. N - 1
      /\ R.buf.maxPos \in Nat
  BY RingFacts
<1>3. StartPos(R2) = StartPos(R)
  BY DEF StartPos
<1>4. WellRead(First, n, R, D) /\ Pos(R.curr) + 1 - StartPos(R) < N
      /\ R.buf.maxPos = IF Pos(R.curr) < Pos(R.lastAck) THEN 0 ELSE Pos(R.curr) - Pos(R.lastAck)
  BY DEF RingAt
<1>5. pkt.msg \notin D
  <2>1. x \in First[pkt.msg] .. First[pkt.msg + 1] - 1
    BY <1>1
  <2> QED
    BY <1>4, <2>1 DEF WellRead
<1>6. ASSUME NEW k \in 0 .. N - 1 PROVE PlaceHolds(First, R2, D, k)
  <2>1. PlaceHolds(First, R, D, k)
    BY DEF RingAt
  <2>2. StartPos(R) + k \in Int /\ (k = e <=> StartPos(R) + k = x)
    BY <1>1, <1>2, Size
  <2>3. CASE k = e
    <3>1. Here(R2, StartPos(R2) + k) /\ StartPos(R2) + k = x
      BY <1>1, <1>3, <2>2, <2>3
    <3>2. Nth(R2.buf, k) = [pkt |-> pkt, flag |-> 1]
      BY <2>3
    <3>3. Nth(R2.buf, k).pkt = pkt
      BY <3>2
    <3> QED
      BY <1>5, <3>1, <3>2, <3>3 DEF PlaceHolds
  <2>4. CASE k # e
    <3>1. Nth(R2.buf, k) = Nth(R.buf, k) /\ (Here(R2, StartPos(R2) + k) <=> Here(R, StartPos(R) + k))
      BY <1>3, <2>2, <2>4
    <3> QED
      BY <1>3, <2>1, <3>1 DEF PlaceHolds
  <2> QED
    BY <2>3, <2>4
<1>7. WellRead(First, n, R2, D)
  <2>1. ASSUME NEW m \in D, NEW y \in First[m] .. First[m + 1] - 1 PROVE Here(R2, y)
    <3>1. Here(R, y)
      BY <1>4 DEF WellRead
    <3>2. y \in Int
      OBVIOUS
    <3> QED
      BY <3>1, <3>2
  <2> QED
    BY <1>3, <1>4, <2>1 DEF WellRead
<1>8. StartPos(R2) >= 0 /\ Pos(R2.curr) + 1 - StartPos(R2) < N
  BY <1>1, <1>2, <1>3, <1>4, Size
<1>9. R2.buf.maxPos = IF Pos(R2.curr) < Pos(R2.lastAck) THEN 0 ELSE Pos(R2.curr) - Pos(R2.lastAck)
  <2>1. Pos(R2.curr) \in Int
    BY <1>1, <1>2
  <2> QED
    BY <1>1, <1>2, <1>4, <2>1
<1> QED
  BY <1>6, <1>7, <1>8, <1>9 DEF RingAt

\* What is Here after a packet: newLoss and newCurr as in OnData.
LEMMA NowHere ==
    ASSUME NEW R, NEW last, ReceiverAt(R, last), NEW s, Near(s), Pos(R.lastAck) <= Pos(s),
           ~Here(R, Pos(s)), Near(incseq(R.curr)), Pos(incseq(R.curr)) = Pos(R.curr) + 1,
           NEW R2, R2.curr = IF seqcmp(s, R.curr) > 0 THEN s ELSE R.curr,
           R2.loss = IF seqcmp(s, incseq(R.curr)) > 0 THEN R.loss \cup SeqRange(incseq(R.curr), decseq(s))
                     ELSE R.loss \ {s}
    PROVE  /\ Near(R2.curr) /\ Pos(R2.curr) = IF Pos(s) > Pos(R.curr) THEN Pos(s) ELSE Pos(R.curr)
           /\ \A y \in Int : Here(R2, y) <=> Here(R, y) \/ y = Pos(s)
<1> DEFINE x == Pos(s)
           c == Pos(R.curr)
           gap == seqcmp(s, incseq(R.curr)) > 0
           L == SeqRange(incseq(R.curr), decseq(s))
<1>1. /\ x \in Int /\ c \in Int /\ Near(R.curr) /\ 0 <= x
      /\ x <= c => \E t \in R.loss : Pos(t) = x
      /\ \A t \in R.loss : Near(t) /\ Pos(t) \in Int /\ Pos(t) <= c
  <2>1. Near(R.curr) /\ Near(R.lastAck) /\ 0 <= Pos(R.lastAck) /\ \A t \in R.loss : Near(t) /\ Pos(t) <= c
    BY DEF ReceiverAt
  <2>2. x \in Int /\ c \in Int /\ Pos(R.lastAck) \in Int /\ \A t \in R.loss : Pos(t) \in Int
    BY <2>1, Line
  <2>3. 0 <= x
    BY <2>1, <2>2
  <2>4. x <= c => \E t \in R.loss : Pos(t) = x
    BY DEF Here
  <2> QED
    BY <2>1, <2>2, <2>3, <2>4
<1>2. /\ gap <=> x > c + 1
      /\ seqcmp(s, R.curr) > 0 <=> x > c
  BY <1>1, Line
<1>3. Near(R2.curr) /\ Pos(R2.curr) = IF x > c THEN x ELSE c
  BY <1>1, <1>2
<1>4. ASSUME gap PROVE \A y \in Int : (\E t \in L : Pos(t) = y) <=> c + 1 <= y /\ y <= x - 1
  <2>1. Near(decseq(s)) /\ Pos(decseq(s)) = x - 1
    BY <1>1, Dec
  <2>2. c + 1 <= x - 1
    BY <1>1, <1>2, <1>4
  <2>3. \A t \in L : c + 1 <= Pos(t) /\ Pos(t) <= x - 1
    BY <2>1, <2>2, RangeIsBetween
  <2>4. ASSUME NEW y \in Int, c + 1 <= y, y <= x - 1 PROVE \E t \in L : Pos(t) = y
    BY <2>1, <2>2, <2>4, BetweenIsRange
  <2> QED
    BY <2>3, <2>4
<1> HIDE DEF L, gap, c
<1>5. ASSUME NEW y \in Int PROVE Here(R2, y) <=> Here(R, y) \/ y = x
  <2>1. Here(R, y) <=> y <= c /\ \A t \in R.loss : Pos(t) # y
    BY DEF Here, c
  <2>2. Here(R2, y) <=> y <= (IF x > c THEN x ELSE c) /\ \A t \in R2.loss : Pos(t) # y
    BY <1>3 DEF Here
  <2> HIDE DEF x
  <2>3. CASE gap
    <3>1. R2.loss = R.loss \cup L
      BY <2>3 DEF gap, L
    <3>2. (\A t \in R2.loss : Pos(t) # y) <=> (\A t \in R.loss : Pos(t) # y) /\ ~(c + 1 <= y /\ y <= x - 1)
      BY <1>4, <2>3, <3>1
    <3>3. x > c + 1
      BY <1>2, <2>3
    <3>4. y > c => \A t \in R.loss : Pos(t) # y
      BY <1>1 DEF c
    <3> QED
      BY <1>1, <2>1, <2>2, <3>2, <3>3, <3>4 DEF x
  <2>4. CASE ~gap
    <3>1. R2.loss = R.loss \ {s}
      BY <2>4 DEF gap
    <3>2. \A t \in R.loss : Pos(t) = x <=> t = s
      BY <1>1, Line DEF x
    <3>3. (\A t \in R2.loss : Pos(t) # y) <=> y = x \/ (\A t \in R.loss : Pos(t) # y)
      <4>1. CASE y = x
        BY <3>1, <3>2, <4>1
      <4>2. CASE y # x
        <5>1. Pos(s) # y
          BY <4>2 DEF x
        <5> QED
          BY <3>1, <4>2, <5>1
      <4> QED
        BY <4>1, <4>2
    <3>4. x <= c + 1
      BY <1>1, <1>2, <2>4 DEF c, x
    <3> QED
      BY <1>1, <2>1, <2>2, <3>3, <3>4 DEF c, x
  <2> QED
    BY <2>3, <2>4
<1> QED
  BY <1>3, <1>5 DEF c

LEMMA DataKeepsRing ==
    ASSUME NEW First, NEW n, FewPackets(First, n), IInv(First, n), NEW D, RingAt(First, n, rcv, D),
           NEW p \in Elems(net.toRcv), p.type = "data", IsPacket(First, p.pkt, Pos(p.seq))
    PROVE  RingAt(First, n, OnData(p), D)
<1> DEFINE R == OnData(p)
           B == rcv.buf
           o == seqoff(rcv.lastAck, p.seq)
           a == addData(B, p.pkt, o)
           x == Pos(p.seq)
           e == getRcvDataSize(B) + o
           newLoss == IF seqcmp(p.seq, incseq(rcv.curr)) > 0
                      THEN rcv.loss \cup SeqRange(incseq(rcv.curr), decseq(p.seq)) ELSE rcv.loss \ {p.seq}
           newCurr == IF seqcmp(p.seq, rcv.curr) > 0 THEN p.seq ELSE rcv.curr
<1>1. Near(p.seq) /\ x \in Int
  BY Line DEF IInv, DataSent
<1>2. Shape /\ ReceiverAt(rcv, Pos(snd.curr)) /\ Near(rcv.lastAck) /\ Near(rcv.curr)
  BY DEF IInv, ReceiverAt
<1>3. /\ BufShape(B) /\ getRcvDataSize(B) \in 0 .. N - 1 /\ getAvailBufSize(B) = N - 1 - getRcvDataSize(B)
      /\ StartPos(rcv) \in Nat /\ StartPos(rcv) + getRcvDataSize(B) = Pos(rcv.lastAck) /\ B.maxPos \in Nat
      /\ Pos(rcv.curr) \in Int /\ Pos(rcv.lastAck) \in Int
  <2>1. BufShape(B) /\ getRcvDataSize(B) \in 0 .. N - 1 /\ StartPos(rcv) \in Nat
        /\ StartPos(rcv) + getRcvDataSize(B) = Pos(rcv.lastAck) /\ B.maxPos \in Nat
    BY <1>2, RingFacts
  <2>2. getAvailBufSize(B) = N - 1 - getRcvDataSize(B)
    BY <2>1, Places
  <2> QED
    BY <2>1, <2>2, Facts
<1>4. o = x - Pos(rcv.lastAck)
  BY <1>1, <1>2, Line
<1>5. CASE o < 0 \/ o >= getAvailBufSize(B)
  BY <1>5 DEF OnData
<1>6. CASE ~(o < 0 \/ o >= getAvailBufSize(B))
  <2>1. o \in Nat /\ e < N - 1 /\ e \in 0 .. N - 1 /\ e < N /\ StartPos(rcv) + e = x /\ e = x - StartPos(rcv)
        /\ Pos(rcv.lastAck) <= x
    <3> HIDE DEF o, x
    <3> QED
      BY <1>1, <1>3, <1>4, <1>6, Size
  <2>2. /\ BufShape(a.buf) /\ getRcvDataSize(a.buf) = getRcvDataSize(B)
        /\ a.buf.maxPos = IF o > B.maxPos THEN o ELSE B.maxPos
        /\ IF Nth(B, e) # NoUnit
           THEN a.res < 0 /\ \A k \in 0 .. N - 1 : Nth(a.buf, k) = Nth(B, k)
           ELSE /\ ~(a.res < 0)
                /\ \A k \in 0 .. N - 1 : Nth(a.buf, k) = IF k = e THEN [pkt |-> p.pkt, flag |-> 1] ELSE Nth(B, k)
    BY <1>3, <2>1, AddDataIs
  <2>3. IF Here(rcv, x)
        THEN Nth(B, e) = [pkt |-> Nth(B, e).pkt, flag |-> IF Nth(B, e).pkt.msg \in D THEN 2 ELSE 1]
        ELSE Nth(B, e) = NoUnit
    BY <2>1, UnitsAre
  <2>4. Nth(B, e) # NoUnit <=> Here(rcv, x)
    <3>1. CASE Here(rcv, x)
      <4>1. Nth(B, e).flag = IF Nth(B, e).pkt.msg \in D THEN 2 ELSE 1
        BY <2>3, <3>1
      <4>2. NoUnit.flag = 0
        BY DEF NoUnit
      <4> QED
        BY <3>1, <4>1, <4>2
    <3> QED
      BY <2>3, <3>1
  <2>5. OnData(p) = IF a.res < 0 THEN [rcv EXCEPT !.buf = a.buf]
                    ELSE [rcv EXCEPT !.buf = a.buf, !.loss = newLoss, !.curr = newCurr]
    BY <1>2, <1>6 DEF OnData, Shape
  <2> HIDE DEF a, R
  <2>6. CASE Here(rcv, x)
    <3>1. R = [rcv EXCEPT !.buf = a.buf]
      BY <2>2, <2>4, <2>5, <2>6 DEF R
    <3>2. R.buf = a.buf /\ SameButBuffer(R, rcv)
      BY <1>2, <3>1 DEF Shape, SameButBuffer
    <3>3. a.buf.maxPos = B.maxPos
      <4>1. x <= Pos(rcv.curr)
        BY <2>6 DEF Here
      <4>2. B.maxPos = IF Pos(rcv.curr) < Pos(rcv.lastAck) THEN 0 ELSE Pos(rcv.curr) - Pos(rcv.lastAck)
        BY DEF RingAt
      <4> HIDE DEF o, x, e
      <4> QED
        BY <1>1, <1>3, <1>4, <2>1, <2>2, <4>1, <4>2
    <3>4. SamePlaces(R.buf, B)
      BY <2>2, <2>4, <2>6, <3>2, <3>3 DEF SamePlaces
    <3>5. RingAt(First, n, R, D)
      BY <1>2, <3>2, <3>4, SameKeeps
    <3> QED
      BY <3>5 DEF R
  <2>7. CASE ~Here(rcv, x)
    <3>1. R = [rcv EXCEPT !.buf = a.buf, !.loss = newLoss, !.curr = newCurr]
      BY <2>2, <2>4, <2>5, <2>7 DEF R
    <3> HIDE DEF newLoss, newCurr
    <3>2. R.buf = a.buf /\ R.loss = newLoss /\ R.curr = newCurr /\ R.lastAck = rcv.lastAck
      BY <1>2, <3>1 DEF Shape
    <3> USE DEF newLoss, newCurr
    <3>3. Near(incseq(rcv.curr)) /\ Pos(incseq(rcv.curr)) = Pos(rcv.curr) + 1
      BY <1>2, Inc, Facts, SeqNoAssumption
    <3>4. /\ Near(R.curr) /\ Pos(R.curr) = IF x > Pos(rcv.curr) THEN x ELSE Pos(rcv.curr)
          /\ \A y \in Int : Here(R, y) <=> Here(rcv, y) \/ y = x
      BY <1>1, <1>2, <2>1, <2>7, <3>2, <3>3, NowHere
    <3>5. /\ BufShape(R.buf) /\ getRcvDataSize(R.buf) = getRcvDataSize(rcv.buf)
          /\ R.buf.maxPos = IF x - Pos(rcv.lastAck) > rcv.buf.maxPos THEN x - Pos(rcv.lastAck) ELSE rcv.buf.maxPos
          /\ \A k \in 0 .. N - 1 : Nth(R.buf, k) = IF k = e THEN [pkt |-> p.pkt, flag |-> 1] ELSE Nth(rcv.buf, k)
      BY <1>4, <2>2, <2>4, <2>7, <3>2
    <3> HIDE DEF e, x, o, newLoss, newCurr
    <3>6. IsPacket(First, p.pkt, x)
      BY DEF x
    <3>7. RingAt(First, n, R, D)
      BY <1>2, <2>1, <2>7, <3>2, <3>4, <3>5, <3>6, ComesIn
    <3> QED
      BY <3>7 DEF R
  <2> QED
    BY <2>6, <2>7
<1> QED
  BY <1>5, <1>6

\* Up to the first missing number everything is acknowledged in the ring.
LEMMA FullAckKeepsRing ==
    ASSUME NEW First, NEW n, FewPackets(First, n), IInv(First, n), NEW D, RingAt(First, n, rcv, D), SendFullAck
    PROVE  RingAt(First, n, rcv', D)
<1> DEFINE A == AckNumber
           B == rcv.buf
           d == getRcvDataSize(B)
           len == seqoff(rcv.lastAck, A)
           C == rcvAckData(B, len)
           moved == seqcmp(A, rcv.lastAck) > 0
<1>1. Shape /\ ReceiverAt(rcv, Pos(snd.curr)) /\ A = AckOf(rcv)
  BY DEF IInv, AckNumber, AckOf
<1>2. Near(A) /\ Near(rcv.lastAck) /\ Pos(A) \in Int /\ Pos(rcv.lastAck) \in Int
      /\ Pos(rcv.lastAck) <= Pos(A) /\ Pos(A) <= Pos(rcv.curr) + 1 /\ Pos(rcv.curr) \in Int
  BY <1>1, Facts DEF ReceiverAt
<1>3. rcv' = IF moved THEN [rcv EXCEPT !.lastAck = A, !.buf = C, !.fresh = FALSE] ELSE [rcv EXCEPT !.fresh = FALSE]
  BY DEF SendFullAck
<1>4. BufShape(B) /\ d \in 0 .. N - 1 /\ StartPos(rcv) \in Nat /\ StartPos(rcv) + d = Pos(rcv.lastAck)
  BY <1>1, RingFacts
<1>5. /\ StartPos(rcv) >= 0 /\ Pos(rcv.curr) + 1 - StartPos(rcv) < N
      /\ B.maxPos = IF Pos(rcv.curr) < Pos(rcv.lastAck) THEN 0 ELSE Pos(rcv.curr) - Pos(rcv.lastAck)
      /\ \A k \in 0 .. N - 1 : PlaceHolds(First, rcv, D, k)
      /\ WellRead(First, n, rcv, D)
  BY DEF RingAt
<1>6. len = Pos(A) - Pos(rcv.lastAck) /\ (moved <=> Pos(A) > Pos(rcv.lastAck))
  BY <1>2, Line
<1> HIDE DEF A, d
<1>7. CASE ~moved
  <2>1. rcv'.buf = B /\ SameButBuffer(rcv', rcv)
    BY <1>1, <1>3, <1>7 DEF Shape, SameButBuffer
  <2>2. SamePlaces(rcv'.buf, B)
    BY <1>4, <2>1 DEF SamePlaces
  <2> QED
    BY <1>1, <2>1, <2>2, SameKeeps
<1>8. CASE moved
  <2>1. rcv'.lastAck = A /\ rcv'.buf = C /\ rcv'.curr = rcv.curr /\ rcv'.loss = rcv.loss
    BY <1>1, <1>3, <1>8 DEF Shape
  <2>2. len \in Nat /\ d + len < N
    <3> HIDE DEF len
    <3> QED
      BY <1>2, <1>4, <1>5, <1>6, Size
  <2>3. /\ BufShape(C) /\ getRcvDataSize(C) = d + len
        /\ C.maxPos = IF B.maxPos < len THEN 0 ELSE B.maxPos - len
        /\ \A k \in 0 .. N - 1 : Nth(C, k) = Nth(B, k)
    BY <1>4, <2>2, AckDataIs DEF d
  <2> HIDE DEF C, len
  <2>4. StartPos(rcv') = StartPos(rcv)
    <3>1. StartPos(rcv') = Pos(A) - (d + len)
      BY <2>1, <2>3 DEF StartPos
    <3> QED
      BY <1>2, <1>4, <1>6, <2>2, <3>1
  <2>5. \A y : Here(rcv', y) <=> Here(rcv, y)
    BY <2>1 DEF Here
  <2>6. \A k \in 0 .. N - 1 : PlaceHolds(First, rcv', D, k)
    BY <1>5, <2>1, <2>3, <2>4, <2>5 DEF PlaceHolds
  <2>7. WellRead(First, n, rcv', D)
    BY <1>5, <2>4, <2>5 DEF WellRead
  <2>8. rcv'.buf.maxPos = IF Pos(rcv'.curr) < Pos(rcv'.lastAck) THEN 0 ELSE Pos(rcv'.curr) - Pos(rcv'.lastAck)
    BY <1>2, <1>5, <1>6, <2>1, <2>2, <2>3
  <2> QED
    BY <1>5, <2>1, <2>3, <2>4, <2>6, <2>7, <2>8 DEF RingAt
<1> QED
  BY <1>7, <1>8

-----------------------------------------------------------------------------
(* The invariant *)

\* The messages that were read, as a sequence and as a set.
ReadOf(q) == [k \in DOMAIN q |-> MessageOf(q[k])]
OutOf(q) == {MessageOf(q[k]) : k \in DOMAIN q}
Out == OutOf(got)

\* The packets of the sending buffer and those under way are the ones their numbers stand for.
BufHolds(First, S) == \A i \in 1 .. Len(S.buf) : IsPacket(First, S.buf[i], Pos(S.lastDataAck) + i - 1)
NetCarries(First, q) == \A d \in Elems(q) : d.type = "data" => IsPacket(First, d.pkt, Pos(d.seq))

RInv(First, n) ==
    /\ BufHolds(First, snd) /\ NetCarries(First, net.toRcv)
    /\ RingAt(First, n, rcv, Out) /\ IsSeq(got)

\* What most steps leave alone.
LEMMA SameRing ==
    ASSUME NEW First, NEW n, RInv(First, n), FewPackets(First, n), IInv(First, n), SameButBuffer(rcv', rcv),
           rcv'.buf = rcv.buf
    PROVE  RingAt(First, n, rcv', Out)
<1>1. ReceiverAt(rcv, Pos(snd.curr)) /\ RingAt(First, n, rcv, Out)
  BY DEF IInv, RInv
<1>2. SamePlaces(rcv'.buf, rcv.buf)
  BY <1>1 DEF RingAt, SamePlaces
<1> QED
  BY <1>1, <1>2, SameKeeps

LEMMA RingBegins ==
    ASSUME NEW First, NEW n, FewPackets(First, n), Init
    PROVE  RInv(First, n)
<1>1. Pos(ISN) = 0 /\ Pos(decseq(ISN)) = -1
  BY SeqNoAssumption, Start DEF FewPackets
<1>2. BufHolds(First, snd) /\ NetCarries(First, net.toRcv) /\ IsSeq(got) /\ Out = {}
  BY EmptySeq DEF Init, BufHolds, NetCarries, Out, OutOf
<1>3. rcv.buf = [unit |-> [i \in 0 .. N - 1 |-> NoUnit], start |-> 0, ackPos |-> 0, maxPos |-> 0, notch |-> 0]
      /\ rcv.lastAck = ISN /\ rcv.curr = decseq(ISN) /\ rcv.loss = {}
  BY DEF Init, EmptyRcvBuffer, N
<1>4. BufShape(rcv.buf) /\ rcv.buf.maxPos = 0
  BY <1>3, Size DEF BufShape
<1>5. getRcvDataSize(rcv.buf) = 0
  <2>1. Steps(0, 0) = 0
    BY Size, RingMinus
  <2> QED
    BY <1>3, <1>4, <2>1, Places
<1>6. StartPos(rcv) = 0
  BY <1>1, <1>3, <1>5 DEF StartPos
<1>7. ASSUME NEW k \in 0 .. N - 1 PROVE PlaceHolds(First, rcv, {}, k)
  <2>1. ~Here(rcv, StartPos(rcv) + k)
    BY <1>1, <1>3, <1>6, Size DEF Here
  <2>2. Place(0, k) \in 0 .. N - 1
    BY Size, ThereAndBack
  <2>3. Nth(rcv.buf, k) = rcv.buf.unit[Place(0, k)]
    BY <1>3 DEF Nth, Place
  <2> QED
    BY <1>3, <2>1, <2>2, <2>3 DEF PlaceHolds
<1>8. WellRead(First, n, rcv, {})
  <2>1. \A m \in 1 .. n : First[m] \in Nat
    BY Lengths
  <2> QED
    BY <1>6, <2>1 DEF WellRead
<1> QED
  BY <1>1, <1>2, <1>3, <1>4, <1>6, <1>7, <1>8, Size DEF RInv, RingAt

\* The packet of a number in the buffer.
LEMMA BufferedPacket ==
    ASSUME NEW First, NEW n, FewPackets(First, n), IInv(First, n), RInv(First, n),
           NEW o \in 0 .. Len(snd.buf) - 1
    PROVE  IsPacket(First, snd.buf[o + 1], Pos(snd.lastDataAck) + o)
<1>1. IsSeq(snd.buf) /\ Len(snd.buf) \in Nat /\ Pos(snd.lastDataAck) \in Int
  <2>1. IsSeq(snd.buf)
    BY DEF IInv, Shape
  <2>2. Len(snd.buf) \in Nat
    BY <2>1 DEF IsSeq
  <2> QED
    BY <2>1, <2>2, Facts
<1>2. o + 1 \in 1 .. Len(snd.buf) /\ Pos(snd.lastDataAck) + (o + 1) - 1 = Pos(snd.lastDataAck) + o
  BY <1>1
<1>3. IsPacket(First, snd.buf[o + 1], Pos(snd.lastDataAck) + (o + 1) - 1)
  BY <1>2 DEF RInv, BufHolds
<1> QED
  BY <1>2, <1>3

LEMMA SendmsgKeepsRing ==
    ASSUME NEW First, NEW n, FewPackets(First, n), IInv(First, n), RInv(First, n), sendmsg
    PROVE  RInv(First, n)'
<1> DEFINE m == snd.next
           P == Packets(m)
           l == Pos(snd.lastDataAck)
<1>1. Shape /\ SenderAt(snd, First[m]) /\ m \in 1 .. n /\ m \in DOMAIN Messages
  BY DEF IInv, sendmsg, FewPackets
<1>2. Messages[m].len \in Nat /\ First[m] \in Nat /\ l \in Int
  BY <1>1, Lengths, Facts
<1>3. snd'.buf = snd.buf \o P /\ snd'.lastDataAck = snd.lastDataAck
      /\ rcv' = rcv /\ net' = net /\ got' = got
  BY <1>1 DEF sendmsg, Shape
<1>4. IsSeq(snd.buf) /\ Len(snd.buf) \in Nat /\ l + Len(snd.buf) = First[m]
  BY <1>1 DEF Shape, IsSeq, SenderAt
<1>5. IsSeq(P) /\ Len(P) = Messages[m].len
  <2>1. P \in [1 .. Messages[m].len -> {P[k] : k \in 1 .. Messages[m].len}]
    BY DEF Packets
  <2>2. P \in Seq({P[k] : k \in 1 .. Messages[m].len})
    BY <1>2, <2>1, IsASeq
  <2>3. DOMAIN P = 1 .. Messages[m].len
    BY DEF Packets
  <2>4. Len(P) = Messages[m].len
    BY <1>2, <2>2, <2>3
  <2> QED
    BY <2>2, <2>3, <2>4 DEF IsSeq, Elems
<1> HIDE DEF m, l
<1>6. ASSUME NEW i \in 1 .. Len(snd'.buf) PROVE IsPacket(First, snd'.buf[i], Pos(snd'.lastDataAck) + i - 1)
  <2>1. Len(snd'.buf) = Len(snd.buf) + Messages[m].len
    BY <1>3, <1>4, <1>5, ConcatSeq
  <2>2. CASE i <= Len(snd.buf)
    <3>1. i \in 1 .. Len(snd.buf) /\ snd'.buf[i] = snd.buf[i]
      BY <1>3, <1>4, <1>5, <2>2 DEF IsSeq
    <3> QED
      BY <1>3, <3>1 DEF RInv, BufHolds
  <2>3. CASE i > Len(snd.buf)
    <3> DEFINE j == i - Len(snd.buf)
    <3>1. j \in 1 .. Messages[m].len /\ l + i - 1 = First[m] + j - 1
      BY <1>2, <1>4, <2>1, <2>3
    <3>2. snd'.buf[i] = P[j]
      BY <1>3, <1>4, <1>5, <2>1, <2>3 DEF IsSeq
    <3> HIDE DEF j
    <3>3. P[j].msg = m /\ P[j].idx = j
      BY <3>1 DEF Packets
    <3>4. IsPacket(First, P[j], First[m] + j - 1)
      BY <1>1, <3>1, <3>3 DEF IsPacket, m
    <3> QED
      BY <1>3, <3>1, <3>2, <3>4 DEF l
  <2> QED
    BY <1>4, <2>2, <2>3
<1> QED
  BY <1>3, <1>6 DEF RInv, BufHolds, NetCarries, RingAt, Out, StartPos, PlaceHolds, WellRead, Here

\* The sending buffer after a report.
LEMMA ReportKeepsBuffer ==
    ASSUME NEW First, NEW n, FewPackets(First, n), IInv(First, n), RInv(First, n),
           NEW p \in Elems(net.toSnd),
           NEW S, \/ p.type = "lite" /\ S = OnLiteAck(p)
                  \/ p.type = "ack" /\ S = OnAck(p)
                  \/ p.type = "nak" /\ S = OnNak(p)
    PROVE  BufHolds(First, S)
<1>1. Shape /\ SenderAt(snd, First[snd.next]) /\ BufHolds(First, snd) /\ IsSeq(snd.buf)
  BY DEF IInv, RInv, Shape
<1>2. ASSUME S.buf = snd.buf, S.lastDataAck = snd.lastDataAck PROVE BufHolds(First, S)
  BY <1>1, <1>2 DEF BufHolds
<1>3. CASE p.type = "lite" /\ S = OnLiteAck(p)
  <2>1. S = snd \/ \E w : S = [snd EXCEPT !.flow = w, !.lastAck = p.ack]
    BY <1>3 DEF OnLiteAck
  <2> QED
    BY <1>1, <1>2, <2>1 DEF Shape
<1>4. CASE p.type = "nak" /\ S = OnNak(p)
  <2>1. S = snd \/ (\E b : S = [snd EXCEPT !.broken = b]) \/ \E L : S = [snd EXCEPT !.loss = L]
    BY <1>4 DEF OnNak, Tricked
  <2> QED
    BY <1>1, <1>2, <2>1 DEF Shape
<1>5. CASE p.type = "ack" /\ S = OnAck(p)
  <2> DEFINE offset == seqoff(snd.lastDataAck, p.ack)
             T == IF seqcmp(p.ack, snd.lastAck) >= 0
                  THEN [snd EXCEPT !.flow = p.win, !.lastAck = p.ack] ELSE snd
             l == Pos(snd.lastDataAck)
  <2>1. DOMAIN T = DOMAIN snd /\ T.buf = snd.buf /\ T.lastDataAck = snd.lastDataAck
    BY <1>1 DEF Shape
  <2>2. S = IF seqcmp(p.ack, incseq(snd.curr)) > 0 THEN Tricked
            ELSE IF offset <= 0 THEN T
            ELSE [T EXCEPT !.buf = SubSeq(@, offset + 1, Len(@)), !.read = @ - offset,
                           !.lastDataAck = p.ack, !.loss = {s \in @ : seqcmp(s, p.ack) >= 0}]
    BY <1>5 DEF OnAck
  <2> HIDE DEF T
  <2>3. CASE seqcmp(p.ack, incseq(snd.curr)) > 0 \/ offset <= 0
    <3>1. S = Tricked \/ S = T
      BY <2>2, <2>3
    <3>2. Tricked.buf = snd.buf /\ Tricked.lastDataAck = snd.lastDataAck
      BY <1>1 DEF Tricked, Shape
    <3> QED
      BY <1>2, <2>1, <3>1, <3>2
  <2>4. CASE ~(seqcmp(p.ack, incseq(snd.curr)) > 0) /\ ~(offset <= 0)
    <3>1. Near(p.ack) /\ Near(snd.lastDataAck) /\ Pos(p.ack) \in Int /\ l \in Int /\ offset = Pos(p.ack) - l
      <4>1. Near(p.ack) /\ Near(snd.lastDataAck)
        BY <1>1, <1>5 DEF IInv, ReportsTrue, SenderAt
      <4> QED
        BY <4>1, Line
    <3>2. Pos(p.ack) <= Pos(snd.curr) + 1 /\ Pos(snd.curr) \in Int
      <4>1. Pos(p.ack) <= Pos(AckOf(rcv))
        BY <1>5 DEF IInv, ReportsTrue
      <4> QED
        BY <3>1, <4>1, Facts
    <3>3. l + snd.read = Pos(snd.curr) + 1 /\ snd.read \in 0 .. Len(snd.buf) /\ Len(snd.buf) \in Nat
      BY <1>1 DEF SenderAt, IsSeq
    <3>4. offset \in 0 .. Len(snd.buf)
      <4> HIDE DEF offset, l
      <4> QED
        BY <2>4, <3>1, <3>2, <3>3
    <3>5. S = [T EXCEPT !.buf = SubSeq(@, offset + 1, Len(@)), !.read = @ - offset,
                        !.lastDataAck = p.ack, !.loss = {s \in @ : seqcmp(s, p.ack) >= 0}]
      BY <2>2, <2>4
    <3> HIDE DEF offset
    <3>6. S.buf = SubSeq(snd.buf, offset + 1, Len(snd.buf)) /\ S.lastDataAck = p.ack
      BY <1>1, <2>1, <3>5 DEF Shape
    <3>7. ASSUME NEW i \in 1 .. Len(S.buf) PROVE IsPacket(First, S.buf[i], Pos(S.lastDataAck) + i - 1)
      <4>1. Len(S.buf) = Len(snd.buf) - offset
        BY <1>1, <3>4, <3>6, RestSeq
      <4>2. S.buf[i] = snd.buf[offset + i]
        BY <1>1, <3>3, <3>4, <3>6, <4>1 DEF IsSeq
      <4>3. offset + i \in 1 .. Len(snd.buf) /\ l + (offset + i) - 1 = Pos(p.ack) + i - 1
        <5>1. i \in 1 .. Len(snd.buf) - offset /\ Len(snd.buf) \in Nat /\ offset \in Int /\ i \in Int
          <6>1. i \in 1 .. Len(S.buf)
            OBVIOUS
          <6>2. Len(snd.buf) \in Nat /\ offset \in Int
            BY <3>3, <3>4
          <6> QED
            BY <4>1, <6>1, <6>2
        <5> HIDE DEF l
        <5> QED
          BY <3>1, <3>4, <5>1
      <4>4. IsPacket(First, snd.buf[offset + i], l + (offset + i) - 1)
        BY <1>1, <4>3 DEF BufHolds
      <4> QED
        BY <3>6, <4>2, <4>3, <4>4
    <3> QED
      BY <3>7 DEF BufHolds
  <2> QED
    BY <2>3, <2>4
<1> QED
  BY <1>3, <1>4, <1>5

LEMMA SenderReceivesKeepsRing ==
    ASSUME NEW First, NEW n, FewPackets(First, n), IInv(First, n), RInv(First, n), SenderReceives
    PROVE  RInv(First, n)' /\ snd'.next = snd.next
<1> DEFINE p == Head(net.toSnd)
           rest == [net EXCEPT !.toSnd = Tail(@)]
<1>1. Shape /\ ~snd.broken /\ net.toSnd # <<>> /\ rcv' = rcv /\ got' = got
  BY DEF IInv, SenderAt, SenderReceives
<1>2. p \in Elems(net.toSnd) /\ IsSeq(net.toRcv)
  BY <1>1, TailSeq DEF Shape
<1>3. /\ \/ p.type = "lite" /\ snd' = OnLiteAck(p)
         \/ p.type = "ack" /\ snd' = OnAck(p)
         \/ p.type = "nak" /\ snd' = OnNak(p)
      /\ net' = rest \/ net' = [rest EXCEPT !.toRcv = Append(@, [type |-> "ack2", ack |-> p.ack])]
  BY <1>1 DEF SenderReceives
<1>4. BufHolds(First, snd')
  BY <1>2, <1>3, ReportKeepsBuffer
<1>5. snd'.next = snd.next
  <2>1. After(snd', First[snd.next])
    BY <1>2, <1>3, LiteAckAdvances, AckAdvances, NakAddsUnacknowledged
  <2> QED
    BY <2>1 DEF After
<1>6. NetCarries(First, net'.toRcv)
  <2>1. NetCarries(First, net.toRcv)
    BY DEF RInv
  <2>2. net'.toRcv = net.toRcv \/ net'.toRcv = Append(net.toRcv, [type |-> "ack2", ack |-> p.ack])
    BY <1>1, <1>3 DEF Shape
  <2> DEFINE a == [type |-> "ack2", ack |-> p.ack]
  <2>3. Elems(Append(net.toRcv, a)) = Elems(net.toRcv) \cup {a} /\ a.type # "data"
    BY <1>2, AppendSeq
  <2> HIDE DEF a
  <2>4. CASE net'.toRcv = net.toRcv
    BY <2>1, <2>4
  <2>5. CASE net'.toRcv = Append(net.toRcv, a)
    BY <2>1, <2>3, <2>5 DEF NetCarries
  <2> QED
    BY <2>2, <2>4, <2>5 DEF a
<1>7. RingAt(First, n, rcv, Out)' /\ IsSeq(got)'
  BY <1>1 DEF RInv, RingAt, Out, StartPos, PlaceHolds, WellRead, Here
<1> QED
  BY <1>4, <1>5, <1>6, <1>7 DEF RInv

LEMMA SendPickedKeepsRing ==
    ASSUME NEW First, NEW n, FewPackets(First, n), IInv(First, n), RInv(First, n), SendPicked
    PROVE  RInv(First, n)'
<1> DEFINE s == snd.picked
           o == seqoff(snd.lastDataAck, s)
           d == [type |-> "data", seq |-> s, pkt |-> snd.buf[o + 1]]
           l == Pos(snd.lastDataAck)
<1>1. Shape /\ SenderAt(snd, First[snd.next]) /\ s # None
  BY DEF IInv, SendPicked
<1>2. /\ snd' = [snd EXCEPT !.picked = None] /\ rcv' = rcv /\ got' = got
      /\ net' = net \/ (~(o < 0) /\ net' = [net EXCEPT !.toRcv = Append(@, d)])
  BY DEF SendPicked, SendToRcv
<1>3. Near(s) /\ Near(snd.lastDataAck) /\ Pos(s) <= Pos(snd.curr) /\ o = Pos(s) - l /\ Pos(s) \in Int /\ l \in Int
  <2>1. Near(s) /\ Near(snd.lastDataAck) /\ Pos(s) <= Pos(snd.curr)
    BY <1>1 DEF SenderAt
  <2> QED
    BY <2>1, Line
<1>4. l + snd.read = Pos(snd.curr) + 1 /\ snd.read \in 0 .. Len(snd.buf) /\ Len(snd.buf) \in Nat /\ Pos(snd.curr) \in Int
  BY <1>1, Facts DEF SenderAt, Shape, IsSeq
<1>5. ~(o < 0) => o \in 0 .. Len(snd.buf) - 1
  <2> HIDE DEF o, l
  <2> QED
    BY <1>3, <1>4
<1>6. ~(o < 0) => IsPacket(First, d.pkt, Pos(d.seq))
  <2> SUFFICES ASSUME ~(o < 0) PROVE IsPacket(First, d.pkt, Pos(d.seq))
    OBVIOUS
  <2>1. IsPacket(First, snd.buf[o + 1], l + o)
    BY <1>5, BufferedPacket
  <2>2. l + o = Pos(s)
    BY <1>3
  <2> QED
    BY <2>1, <2>2
<1> HIDE DEF d, o
<1>7. NetCarries(First, net'.toRcv)
  <2>1. NetCarries(First, net.toRcv) /\ IsSeq(net.toRcv)
    BY <1>1 DEF RInv, Shape
  <2>2. CASE net' = net
    BY <2>1, <2>2
  <2>3. CASE ~(o < 0) /\ net' = [net EXCEPT !.toRcv = Append(@, d)]
    <3>1. net'.toRcv = Append(net.toRcv, d)
      BY <1>1, <2>3 DEF Shape
    <3>2. Elems(net'.toRcv) = Elems(net.toRcv) \cup {d}
      BY <2>1, <3>1, AppendSeq
    <3> QED
      BY <1>6, <2>1, <2>3, <3>2 DEF NetCarries
  <2> QED
    BY <1>2, <2>2, <2>3
<1>8. BufHolds(First, snd')
  BY <1>1, <1>2 DEF Shape, RInv, BufHolds
<1>9. RingAt(First, n, rcv, Out)' /\ IsSeq(got)'
  BY <1>2 DEF RInv, RingAt, Out, StartPos, PlaceHolds, WellRead, Here
<1> QED
  BY <1>7, <1>8, <1>9 DEF RInv

LEMMA SendNewKeepsRing ==
    ASSUME NEW First, NEW n, FewPackets(First, n), IInv(First, n), RInv(First, n), SendNew
    PROVE  RInv(First, n)'
<1> DEFINE s == incseq(snd.curr)
           d == [type |-> "data", seq |-> s, pkt |-> snd.buf[snd.read + 1]]
           l == Pos(snd.lastDataAck)
<1>1. Shape /\ SenderAt(snd, First[snd.next]) /\ snd.read < Len(snd.buf)
  BY DEF IInv, SendNew
<1>2. /\ snd' = [snd EXCEPT !.curr = s, !.read = @ + 1] /\ rcv' = rcv /\ got' = got
      /\ net' = [net EXCEPT !.toRcv = Append(@, d)]
  BY DEF SendNew, SendToRcv
<1>3. Pos(s) = Pos(snd.curr) + 1 /\ l + snd.read = Pos(snd.curr) + 1 /\ snd.read \in 0 .. Len(snd.buf) - 1
  <2>1. snd.read \in 0 .. Len(snd.buf) /\ Len(snd.buf) \in Nat
    BY <1>1 DEF SenderAt, Shape, IsSeq
  <2> QED
    BY <1>1, <2>1, Facts DEF SenderAt
<1>4. IsPacket(First, d.pkt, Pos(d.seq))
  <2>1. IsPacket(First, snd.buf[snd.read + 1], l + snd.read)
    BY <1>3, BufferedPacket
  <2> QED
    BY <1>3, <2>1
<1> HIDE DEF d, s
<1>5. NetCarries(First, net'.toRcv)
  <2>1. NetCarries(First, net.toRcv) /\ IsSeq(net.toRcv) /\ net'.toRcv = Append(net.toRcv, d)
    BY <1>1, <1>2 DEF RInv, Shape
  <2>2. Elems(net'.toRcv) = Elems(net.toRcv) \cup {d}
    BY <2>1, AppendSeq
  <2> QED
    BY <1>4, <2>1, <2>2 DEF NetCarries
<1>6. BufHolds(First, snd')
  BY <1>1, <1>2 DEF Shape, RInv, BufHolds
<1>7. RingAt(First, n, rcv, Out)' /\ IsSeq(got)'
  BY <1>2 DEF RInv, RingAt, Out, StartPos, PlaceHolds, WellRead, Here
<1> QED
  BY <1>5, <1>6, <1>7 DEF RInv

LEMMA ReceiverReceivesKeepsRing ==
    ASSUME NEW First, NEW n, FewPackets(First, n), IInv(First, n), RInv(First, n), ReceiverReceives
    PROVE  RInv(First, n)'
<1> DEFINE p == Head(net.toRcv)
<1>1. Shape /\ net.toRcv # <<>> /\ snd' = snd /\ got' = got /\ RingAt(First, n, rcv, Out) /\ NetCarries(First, net.toRcv)
  BY DEF IInv, RInv, ReceiverReceives
<1>2. p \in Elems(net.toRcv) /\ Elems(Tail(net.toRcv)) \subseteq Elems(net.toRcv)
  BY <1>1, TailSeq DEF Shape
<1>3. net'.toRcv = Tail(net.toRcv)
  BY <1>1 DEF ReceiverReceives, SendToSnd, Shape
<1>4. RingAt(First, n, rcv', Out)
  <2>1. CASE p.type = "data" /\ rcv' = [OnData(p) EXCEPT !.fresh = TRUE]
    <3> DEFINE R == OnData(p)
    <3>1. RingAt(First, n, R, Out)
      <4>1. IsPacket(First, p.pkt, Pos(p.seq))
        BY <1>1, <1>2, <2>1 DEF NetCarries
      <4> QED
        BY <1>1, <1>2, <2>1, <4>1, DataKeepsRing
    <3>2. DOMAIN R = DOMAIN rcv /\ ReceiverAt(R, Pos(snd.curr))
      BY <1>2, <2>1, DataIsNoStepBack DEF Advanced
    <3>3. rcv' = [R EXCEPT !.fresh = TRUE]
      BY <2>1
    <3> HIDE DEF R
    <3>4. rcv'.buf = R.buf /\ SameButBuffer(rcv', R)
      BY <1>1, <3>2, <3>3 DEF Shape, SameButBuffer
    <3>5. SamePlaces(rcv'.buf, R.buf)
      BY <3>1, <3>4 DEF RingAt, SamePlaces
    <3> QED
      BY <3>1, <3>2, <3>4, <3>5, SameKeeps
  <2>2. ASSUME NEW w, rcv' = [rcv EXCEPT !.lastAckAck = w] PROVE RingAt(First, n, rcv', Out)
    <3>1. rcv'.buf = rcv.buf /\ SameButBuffer(rcv', rcv)
      BY <1>1, <2>2 DEF Shape, SameButBuffer
    <3> QED
      BY <3>1, SameRing
  <2> QED
    BY <2>1, <2>2 DEF ReceiverReceives
<1>5. NetCarries(First, net'.toRcv)
  BY <1>1, <1>2, <1>3 DEF NetCarries
<1> QED
  BY <1>1, <1>4, <1>5 DEF RInv, BufHolds, Out

\* The packets of a message tell which one it is.
LEMMA MessageOfPackets ==
    ASSUME NEW m \in DOMAIN Messages
    PROVE  MessageOf(Packets(m)) = m /\ Packets(m) # <<>>
<1>1. \A a \in DOMAIN Messages : Messages[a].len \in Nat \ {0}
  <2> TAKE a \in DOMAIN Messages
  <2>1. Messages[a].len \in 1 .. SndBufSize
    BY TransferAssumption
  <2> QED
    BY <2>1
<1>2. \A a \in DOMAIN Messages : 1 \in DOMAIN Packets(a) /\ Packets(a)[1].msg = a
  BY <1>1 DEF Packets
<1>3. \A a \in DOMAIN Messages : Packets(m) = Packets(a) => a = m
  BY <1>2
<1>4. MessageOf(Packets(m)) = CHOOSE a \in DOMAIN Messages : Packets(m) = Packets(a)
  BY DEF MessageOf
<1>5. MessageOf(Packets(m)) = m
  BY <1>3, <1>4
<1>6. Packets(m) # <<>>
  <2>1. DOMAIN <<>> = {}
    OBVIOUS
  <2> QED
    BY <1>2, <2>1
<1> QED
  BY <1>5, <1>6

\* One more message was read.
LEMMA OutGrows ==
    ASSUME NEW q, IsSeq(q), NEW m \in DOMAIN Messages, NEW r, r = Append(q, Packets(m))
    PROVE  IsSeq(r) /\ OutOf(r) = OutOf(q) \cup {m} /\ ReadOf(r) = Append(ReadOf(q), m)
<1> DEFINE f == ReadOf(q)
           g == ReadOf(r)
           e == Packets(m)
           S == OutOf(q) \cup {m}
<1>1. MessageOf(e) = m
  BY MessageOfPackets
<1>2. Len(q) \in Nat /\ DOMAIN q = 1 .. Len(q)
  BY DEF IsSeq
<1> HIDE DEF e
<1>3. DOMAIN r = 1 .. Len(q) + 1 /\ r[Len(q) + 1] = e /\ \A k \in 1 .. Len(q) : r[k] = q[k]
  BY <1>2 DEF IsSeq, e
<1>4. IsSeq(r)
  BY AppendSeq
<1>5. g = [k \in 1 .. Len(q) + 1 |-> g[k]] /\ g[Len(q) + 1] = m /\ \A k \in 1 .. Len(q) : g[k] = MessageOf(q[k])
  BY <1>1, <1>2, <1>3 DEF ReadOf
<1>6. OutOf(r) = S
  BY <1>1, <1>2, <1>3 DEF OutOf
<1>7. f \in [1 .. Len(q) -> S] /\ \A k \in 1 .. Len(q) : f[k] = MessageOf(q[k])
  BY <1>2 DEF ReadOf, OutOf
<1>8. m \in S
  OBVIOUS
<1> HIDE DEF f, g, S
<1>9. f \in Seq(S) /\ Len(f) = Len(q)
  <2>1. f \in Seq(S)
    BY <1>2, <1>7, IsASeq
  <2> QED
    BY <1>2, <1>7, <2>1
<1> DEFINE a == Append(f, m)
<1>10. a \in Seq(S) /\ Len(a) = Len(q) + 1 /\ a[Len(q) + 1] = m /\ \A k \in 1 .. Len(q) : a[k] = MessageOf(q[k])
  BY <1>2, <1>7, <1>8, <1>9
<1> HIDE DEF a
<1>11. a = [k \in 1 .. Len(q) + 1 |-> a[k]]
  <2>1. a \in [1 .. Len(q) + 1 -> S]
    BY <1>10
  <2> QED
    BY <2>1
<1>12. \A k \in 1 .. Len(q) + 1 : g[k] = a[k]
  <2> TAKE k \in 1 .. Len(q) + 1
  <2>1. k \in 1 .. Len(q) \/ k = Len(q) + 1
    BY <1>2
  <2> QED
    BY <1>5, <1>10, <2>1
<1>13. g = a
  BY <1>5, <1>11, <1>12
<1> QED
  BY <1>4, <1>6, <1>13 DEF f, g, a, S

\* What recvmsg does, and that it may: the message was sent before, is read once, and comes after
\* all that was sent before it if it has the order flag.
LEMMA RecvmsgKeepsRing ==
    ASSUME NEW First, NEW n, FewPackets(First, n), IInv(First, n), RInv(First, n), recvmsg
    PROVE  /\ RInv(First, n)'
           /\ \/ got' = got
              \/ \E m \in 1 .. snd.next - 1 :
                   /\ m \notin Out
                   /\ Messages[m].order => 1 .. m - 1 \subseteq Out
                   /\ got' = Append(got, Packets(m)) /\ m \in DOMAIN Messages
<1> DEFINE r == readMsg(rcv.buf)
<1>1. Shape /\ ReceiverAt(rcv, Pos(snd.curr)) /\ RingAt(First, n, rcv, Out) /\ IsSeq(got)
      /\ snd' = snd /\ net' = net
  BY DEF IInv, RInv, recvmsg
<1>2. /\ rcv' = [rcv EXCEPT !.buf = r.buf]
      /\ got' = IF r.out = <<>> THEN got ELSE Append(got, r.out)
  BY DEF recvmsg
<1> HIDE DEF r
<1>3. rcv'.buf = r.buf /\ SameButBuffer(rcv', rcv)
  BY <1>1, <1>2 DEF Shape, SameButBuffer
<1>4. \/ r.out = <<>> /\ RingAt(First, n, rcv', Out)
      \/ \E m \in 1 .. n : /\ m \notin Out /\ r.out = Packets(m) /\ RingAt(First, n, rcv', Out \cup {m})
                           /\ Messages[m].order => 1 .. m - 1 \subseteq Out
                           /\ \A x \in First[m] .. First[m + 1] - 1 : Here(rcv, x)
  <2>1. r = readMsg(rcv.buf) /\ rcv'.buf = r.buf
    BY <1>3 DEF r
  <2> QED
    BY <1>1, <1>3, <2>1, ReadKeeps, SMTT(30)
<1>5. BufHolds(First, snd)' /\ NetCarries(First, net.toRcv)'
  BY <1>1 DEF RInv, BufHolds, NetCarries
<1>6. CASE r.out = <<>> /\ RingAt(First, n, rcv', Out)
  <2>1. got' = got
    BY <1>2, <1>6
  <2> QED
    BY <1>1, <1>5, <1>6, <2>1 DEF RInv, Out
<1>7. ASSUME NEW m \in 1 .. n, m \notin Out, r.out = Packets(m), RingAt(First, n, rcv', Out \cup {m}),
             Messages[m].order => 1 .. m - 1 \subseteq Out,
             \A x \in First[m] .. First[m + 1] - 1 : Here(rcv, x)
      PROVE  /\ RInv(First, n)' /\ m \in DOMAIN Messages
             /\ m \in 1 .. snd.next - 1 /\ got' = Append(got, Packets(m))
  <2>1. m \in DOMAIN Messages
    BY DEF FewPackets
  <2>2. got' = Append(got, Packets(m))
    BY <1>2, <1>7, <2>1, MessageOfPackets
  <2>3. IsSeq(got') /\ Out' = Out \cup {m}
    <3>1. IsSeq(got') /\ OutOf(got') = OutOf(got) \cup {m}
      BY <1>1, <2>1, <2>2, OutGrows
    <3> QED
      BY <3>1 DEF Out, OutOf
  <2>4. RInv(First, n)'
    BY <1>5, <1>7, <2>3 DEF RInv
  <2>5. First[m] \in Nat /\ First[m] < First[m + 1] /\ First[m + 1] \in Nat
    BY Lengths
  <2>6. First[m] \in First[m] .. First[m + 1] - 1
    BY <2>5
  <2>7. First[m] <= Pos(rcv.curr)
    BY <1>7, <2>6 DEF Here
  <2>8. Pos(snd.curr) + 1 <= First[snd.next] /\ snd.next \in 1 .. n + 1
    <3>1. SenderAt(snd, First[snd.next]) /\ snd.next \in 1 .. n + 1
      BY DEF IInv
    <3>2. /\ Pos(snd.lastDataAck) + Len(snd.buf) = First[snd.next] /\ snd.read \in 0 .. Len(snd.buf)
          /\ Pos(snd.lastDataAck) + snd.read = Pos(snd.curr) + 1 /\ Len(snd.buf) \in Nat
      BY <1>1, <3>1 DEF SenderAt, Shape, IsSeq
    <3>3. Pos(snd.lastDataAck) \in Int
      BY Facts
    <3> QED
      BY <3>1, <3>2, <3>3
  <2>9. First[m] < First[snd.next]
    BY <2>5, <2>7, <2>8, Facts
  <2>10. ASSUME snd.next <= m PROVE FALSE
    <3>1. n \in Nat
      BY DEF FewPackets
    <3>2. m \in snd.next .. n + 1
      BY <2>8, <2>10, <3>1
    <3>3. First[snd.next] <= First[m]
      BY <2>8, <3>2, FirstGrows
    <3> QED
      BY <2>5, <2>9, <3>3, Facts
  <2>11. m \in 1 .. snd.next - 1
    BY <2>8, <2>10
  <2> QED
    BY <2>1, <2>2, <2>4, <2>11
<1> QED
  BY <1>4, <1>6, <1>2, <1>7

\* Steps that take nothing out of the ring or the sending buffer and put no data under way.
LEMMA OtherStepsKeepRing ==
    ASSUME NEW First, NEW n, FewPackets(First, n), IInv(First, n), RInv(First, n),
           PickLost \/ SenderExpires \/ SendFullAck \/ SendLiteAck \/ UNCHANGED vars
    PROVE  RInv(First, n)' /\ snd'.next = snd.next /\ got' = got
<1>1. Shape /\ BufHolds(First, snd) /\ NetCarries(First, net.toRcv) /\ RingAt(First, n, rcv, Out) /\ IsSeq(got)
  BY DEF IInv, RInv
<1>2. got' = got
  BY DEF PickLost, SenderExpires, SendFullAck, SendLiteAck, vars
<1>3. snd'.buf = snd.buf /\ snd'.lastDataAck = snd.lastDataAck /\ snd'.next = snd.next
  BY <1>1 DEF Shape, PickLost, SenderExpires, SendFullAck, SendLiteAck, vars
<1>4. net'.toRcv = net.toRcv
  BY <1>1 DEF Shape, PickLost, SenderExpires, SendFullAck, SendLiteAck, AckSend, vars
<1>5. RingAt(First, n, rcv', Out)
  <2>1. CASE PickLost \/ SenderExpires \/ UNCHANGED vars
    <3>1. rcv' = rcv
      BY <2>1 DEF PickLost, SenderExpires, vars
    <3> QED
      BY <1>1, <3>1
  <2>2. CASE SendFullAck
    BY <1>1, <2>2, FullAckKeepsRing
  <2>3. CASE SendLiteAck
    <3>1. rcv' = [rcv EXCEPT !.fresh = FALSE]
      BY <2>3 DEF SendLiteAck
    <3>2. rcv'.buf = rcv.buf /\ SameButBuffer(rcv', rcv)
      BY <1>1, <3>1 DEF Shape, SameButBuffer
    <3> QED
      BY <3>2, SameRing
  <2> QED
    BY <2>1, <2>2, <2>3
<1>6. BufHolds(First, snd') /\ NetCarries(First, net'.toRcv)
  BY <1>1, <1>3, <1>4 DEF BufHolds
<1>7. Out' = Out /\ IsSeq(got')
  BY <1>1, <1>2 DEF Out, OutOf
<1> QED
  BY <1>2, <1>3, <1>5, <1>6, <1>7 DEF RInv

LEMMA FaultKeepsRing ==
    ASSUME NEW First, NEW n, FewPackets(First, n), IInv(First, n), RInv(First, n),
           NEW dir \in {"toRcv", "toSnd"}, Fault(dir)
    PROVE  RInv(First, n)' /\ snd'.next = snd.next /\ got' = got
<1> DEFINE q == net[dir]
<1>1. Shape /\ snd' = snd /\ rcv' = rcv /\ got' = got /\ q # <<>> /\ IsSeq(q)
  BY DEF IInv, Fault, Shape
<1>2. Head(q) \in Elems(q) /\ IsSeq(Tail(q)) /\ Elems(Tail(q)) \subseteq Elems(q)
  BY <1>1, TailSeq
<1>3. /\ Elems(Append(q, Head(q))) \subseteq Elems(q)
      /\ Elems(Append(Tail(q), Head(q))) \subseteq Elems(q)
  BY <1>1, <1>2, AppendSeq
<1> HIDE DEF q
<1>4. PICK r : net' = [net EXCEPT ![dir] = r] /\ Elems(r) \subseteq Elems(q)
  BY <1>2, <1>3 DEF Fault, q
<1>5. Elems(net'.toRcv) \subseteq Elems(net.toRcv)
  BY <1>1, <1>4 DEF Shape, q
<1>6. BufHolds(First, snd') /\ NetCarries(First, net'.toRcv)
  BY <1>1, <1>5 DEF RInv, BufHolds, NetCarries
<1>7. RingAt(First, n, rcv', Out) /\ Out' = Out /\ IsSeq(got')
  BY <1>1 DEF RInv, Out, OutOf
<1> QED
  BY <1>1, <1>6, <1>7 DEF RInv

\* What a step may do to the messages taken and returned.
LEMMA RingStep ==
    ASSUME NEW First, NEW n, FewPackets(First, n), IInv(First, n), RInv(First, n), [Next]_vars
    PROVE  /\ RInv(First, n)'
           /\ \/ sendmsg /\ snd'.next = snd.next + 1 /\ got' = got
              \/ recvmsg /\ snd' = snd
              \/ snd'.next = snd.next /\ got' = got
<1>1. CASE sendmsg
  <2>1. snd'.next = snd.next + 1 /\ got' = got
    BY <1>1 DEF sendmsg, IInv, Shape
  <2> QED
    BY <1>1, <2>1, SendmsgKeepsRing
<1>2. CASE PickLost \/ SenderExpires \/ SendFullAck \/ SendLiteAck \/ UNCHANGED vars
  BY <1>2, OtherStepsKeepRing
<1>3. CASE SendPicked
  <2>1. snd'.next = snd.next /\ got' = got
    BY <1>3 DEF SendPicked, IInv, Shape
  <2> QED
    BY <1>3, <2>1, SendPickedKeepsRing
<1>4. CASE SendNew
  <2>1. snd'.next = snd.next /\ got' = got
    BY <1>4 DEF SendNew, IInv, Shape
  <2> QED
    BY <1>4, <2>1, SendNewKeepsRing
<1>5. CASE SenderReceives
  <2>1. got' = got
    BY <1>5 DEF SenderReceives
  <2> QED
    BY <1>5, <2>1, SenderReceivesKeepsRing
<1>6. CASE ReceiverReceives
  <2>1. snd' = snd /\ got' = got
    BY <1>6 DEF ReceiverReceives
  <2> QED
    BY <1>6, <2>1, ReceiverReceivesKeepsRing
<1>7. CASE recvmsg
  <2>1. snd' = snd
    BY <1>7 DEF recvmsg
  <2> QED
    BY <1>7, <2>1, RecvmsgKeepsRing
<1>8. CASE Fault("toRcv") \/ Fault("toSnd")
  BY <1>8, FaultKeepsRing
<1> QED
  BY <1>1, <1>2, <1>3, <1>4, <1>5, <1>6, <1>7, <1>8 DEF Next

LEMMA RingInvariance ==
    ASSUME NEW First, NEW n, FewPackets(First, n)
    PROVE  Spec => [](IInv(First, n) /\ RInv(First, n))
<1>1. Init => RInv(First, n)
  BY RingBegins
<1>2. IInv(First, n) /\ RInv(First, n) /\ [Next]_vars => RInv(First, n)'
  BY RingStep
<1>3. Spec => []IInv(First, n)
  BY Invariance
<1> QED
  BY <1>1, <1>2, <1>3, PTL DEF Spec

-----------------------------------------------------------------------------
(* What it gives *)

\* From the acknowledgement on, the ring holds exactly what the loss list does not name.
LEMMA RingIsRight ==
    ASSUME NEW First, NEW n, FewPackets(First, n), IInv(First, n), RInv(First, n)
    PROVE  RingOrLoss
<1> DEFINE B == rcv.buf
           d == getRcvDataSize(B)
           a == Pos(rcv.lastAck)
           c == Pos(rcv.curr)
<1>1. ReceiverAt(rcv, Pos(snd.curr)) /\ RingAt(First, n, rcv, Out)
  BY DEF IInv, RInv
<1>2. /\ BufShape(B) /\ d \in 0 .. N - 1 /\ {c, a} \subseteq Int
      /\ StartPos(rcv) \in Nat /\ StartPos(rcv) + d = a /\ StartPos(rcv) + (N - 1) > c
  BY <1>1, RingFacts
<1>3. Near(rcv.lastAck) /\ Near(rcv.curr) /\ 0 <= a /\ c + 1 < SeqNoTH
  BY <1>1 DEF ReceiverAt, Near
<1>4. seqoff(rcv.lastAck, rcv.curr) = c - a
  BY <1>3, Line
<1> SUFFICES ASSUME NEW k \in 0 .. c - a
             PROVE  Held(B, Ring(B.ackPos + k)) <=> addseq(rcv.lastAck, k) \notin rcv.loss
  BY <1>4 DEF RingOrLoss
<1> DEFINE x == addseq(rcv.lastAck, k)
<1>5. k \in Nat /\ d + k \in 0 .. N - 1 /\ a + k <= c /\ StartPos(rcv) + (d + k) = a + k
  <2> HIDE DEF a, c, d
  <2> QED
    BY <1>2, Size
<1>6. Near(x) /\ Pos(x) = a + k
  <2>1. 0 <= k /\ k <= Pos(rcv.curr) - Pos(rcv.lastAck) /\ k \in Int
    BY <1>2, <1>5
  <2> QED
    BY <1>2, <1>3, <2>1, SeqNoAssumption, TransferAssumption DEF Near, Pos, SeqNos, seqoff, absdiff, addseq
<1>7. Here(rcv, a + k) <=> x \notin rcv.loss
  <2>1. \A s \in rcv.loss : Pos(s) = Pos(x) <=> s = x
    BY <1>1, <1>6, Line DEF ReceiverAt
  <2> HIDE DEF x, a, c
  <2> QED
    BY <1>5, <1>6, <2>1 DEF Here, c
<1>8. Here(rcv, StartPos(rcv) + (d + k)) <=> Nth(B, d + k) # NoUnit
  <2>1. IF Here(rcv, StartPos(rcv) + (d + k))
        THEN Nth(B, d + k).flag \in {1, 2} ELSE Nth(B, d + k) = NoUnit
    <3>1. PlaceHolds(First, rcv, Out, d + k)
      BY <1>1, <1>5 DEF RingAt
    <3> HIDE DEF d
    <3> DEFINE u == Nth(B, d + k)
               p == u.pkt
    <3>2. CASE Here(rcv, StartPos(rcv) + (d + k))
      <4>1. u = [pkt |-> p, flag |-> IF p.msg \in Out THEN 2 ELSE 1]
        BY <3>1, <3>2 DEF PlaceHolds
      <4> HIDE DEF u, p
      <4>2. u.flag \in {1, 2}
        BY <4>1
      <4> QED
        BY <3>2, <4>2 DEF u
    <3>3. CASE ~Here(rcv, StartPos(rcv) + (d + k))
      BY <3>1, <3>3 DEF PlaceHolds
    <3> QED
      BY <3>2, <3>3
  <2> QED
    BY <2>1 DEF NoUnit
<1>9. B.unit[Ring(B.ackPos + k)] = Nth(B, d + k)
  <2>1. d + k < N /\ k \in Nat
    <3> HIDE DEF d
    <3> QED
      BY <1>2, <1>5, Size
  <2>2. Ring(B.ackPos + k) = Place(B.start, d + k)
    BY <1>2, <2>1, AckPosPlus
  <2> QED
    BY <1>2, <2>2, Places
<1> QED
  BY <1>5, <1>7, <1>8, <1>9 DEF Held

\* Neither end forgets a packet, whatever the network loses, repeats or overtakes: what the sender
\* released has arrived, and between the receiver's acknowledgement and its newest packet each
\* number is in the ring of CRcvBuffer or in the loss list (processData, sendCtrl and readMsg).
THEOREM NothingIsForgotten ==
    ASSUME NEW First, NEW n, FewPackets(First, n)
    PROVE  Spec => []NothingForgotten
<1>1. IInv(First, n) /\ RInv(First, n) => RingOrLoss
  BY RingIsRight
<1>2. RingOrLoss /\ AckedIsReceived => NothingForgotten
  BY DEF NothingForgotten
<1>3. Spec => [](IInv(First, n) /\ RInv(First, n))
  BY RingInvariance
<1>4. Spec => []AckedIsReceived
  BY AckedCorrect
<1> QED
  BY <1>1, <1>2, <1>3, <1>4, PTL

\* sendmsg at one end and recvmsg at the other are the channel of UdtChannel: every message that
\* comes out is one that went in, whole and once, and one with the order flag comes after all that
\* were sent before it (readMsg, scanMsg and dropMsg of buffer.cpp over processData and sendCtrl).
THEOREM TransferIsChannel ==
    ASSUME NEW First, NEW n, FewPackets(First, n)
    PROVE  Spec => ImplementsChannel
<1>1. Init => Channel!ChannelInit
  <2> SUFFICES ASSUME Init PROVE snd.next - 1 = 0 /\ [k \in DOMAIN got |-> MessageOf(got[k])] = <<>>
    BY DEF Channel!ChannelInit
  <2>1. snd.next = 1 /\ got = <<>>
    BY DEF Init
  <2>2. DOMAIN got = {}
    BY <2>1
  <2> QED
    BY <2>1, <2>2
<1>2. IInv(First, n) /\ RInv(First, n) /\ [Next]_vars =>
        [Channel!Accept \/ Channel!Deliver]_<<snd.next - 1, [k \in DOMAIN got |-> MessageOf(got[k])]>>
  <2> SUFFICES ASSUME IInv(First, n), RInv(First, n), [Next]_vars
               PROVE  [Channel!Accept \/ Channel!Deliver]_<<snd.next - 1, [k \in DOMAIN got |-> MessageOf(got[k])]>>
    OBVIOUS
  <2>1. snd.next \in 1 .. n + 1 /\ n \in Nat /\ IsSeq(got)
    BY DEF IInv, FewPackets, RInv
  <2>2. CASE snd'.next = snd.next + 1 /\ got' = got
    <3>1. snd'.next - 1 = (snd.next - 1) + 1
      BY <2>1, <2>2
    <3>2. [k \in DOMAIN got |-> MessageOf(got[k])]' = [k \in DOMAIN got |-> MessageOf(got[k])]
      BY <2>2
    <3> QED
      BY <3>1, <3>2 DEF Channel!Accept
  <2>3. CASE snd'.next = snd.next /\ got' = got
    BY <2>3
  <2>4. CASE recvmsg /\ snd' = snd
    <3>1. CASE got' = got
      BY <2>4, <3>1
    <3>2. CASE \E m \in 1 .. snd.next - 1 :
                 /\ m \notin Out
                 /\ Messages[m].order => 1 .. m - 1 \subseteq Out
                 /\ got' = Append(got, Packets(m)) /\ m \in DOMAIN Messages
      <4>1. PICK m \in 1 .. snd.next - 1 :
              /\ m \notin Out
              /\ Messages[m].order => 1 .. m - 1 \subseteq Out
              /\ got' = Append(got, Packets(m)) /\ m \in DOMAIN Messages
        BY <3>2
      <4>2. ReadOf(got') = Append(ReadOf(got), m)
        BY <2>1, <4>1, OutGrows
      <4>3. Channel!Out = Out
        BY DEF Channel!Out, Out, OutOf
      <4>4. m \notin Channel!Out /\ (Ordered(m) => 1 .. m - 1 \subseteq Channel!Out)
        BY <4>1, <4>3 DEF Ordered
      <4>5. [k \in DOMAIN got |-> MessageOf(got[k])]' = Append([k \in DOMAIN got |-> MessageOf(got[k])], m)
        BY <4>2 DEF ReadOf
      <4>6. Channel!Deliver
        BY <2>4, <4>4, <4>5 DEF Channel!Deliver
      <4> QED
        BY <4>6
    <3> QED
      BY <2>4, <3>1, <3>2, RecvmsgKeepsRing
  <2> QED
    BY <2>2, <2>3, <2>4, RingStep
<1>3. Spec => [](IInv(First, n) /\ RInv(First, n))
  BY RingInvariance
<1> QED
  BY <1>1, <1>2, <1>3, PTL DEF Spec, ImplementsChannel, Channel!ChannelSpec
=============================================================================
