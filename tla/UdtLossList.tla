----------------------------- MODULE UdtLossList -----------------------------
(***************************************************************************)
(* CSndLossList and CRcvLossList of udt4's list.cpp: a set of sequence     *)
(* numbers kept as ranges in arrays.  A node holds the first number of its *)
(* range in m_piData1 and the last in m_piData2 (-1 when it is the same    *)
(* number); the nodes are chained by m_piNext (and m_piPrior).  A range    *)
(* that starts k numbers after the first one of the list sits k places     *)
(* after m_iHead, so a number is found by probing one place.               *)
(*                                                                         *)
(* A list is a record; m_piData1 is d1, m_piData2 d2, m_piNext next,       *)
(* m_piPrior prior, m_iHead head, m_iTail tail, m_iLength len and          *)
(* m_iLastInsertPos last.  The driver below stands for the callers in      *)
(* core.cpp: what they may insert or remove follows from how far the       *)
(* connection has sent, received and acknowledged.                         *)
(* The links of a freed node are cleared, which the code does not do: they *)
(* are not read again before they are written.                             *)
(***************************************************************************)
EXTENDS UdtSeqNo, FiniteSets, Sequences

CONSTANTS
    SndSize,    \* nodes of the sender's list, m_iFlowWindowSize * 2
    RcvSize,    \* nodes of the receiver's list, m_iFlightFlagSize
    FirstSeqNo  \* the first number of the connection

VARIABLES
    snd,        \* the sender's list
    rcv,        \* the receiver's list
    ret,        \* what the last call returned
    sndWin,     \* [data |-> m_iSndLastDataAck, ack |-> m_iSndLastAck, curr |-> m_iSndCurrSeqNo,
                \*  flow |-> m_iFlowWindowSize]
    rcvWin      \* [ack |-> m_iRcvLastAck, curr |-> m_iRcvCurrSeqNo]

lossVars == <<snd, rcv, ret, sndWin, rcvWin>>

None == -1

\* The place k after place i in a list of n nodes.
At(i, k, n) == (i + k + n) % n

Blank(n) == [i \in 0 .. n - 1 |-> None]

SndEmpty == [d1 |-> Blank(SndSize), d2 |-> Blank(SndSize), next |-> Blank(SndSize),
             head |-> None, len |-> 0, last |-> None]

RcvEmpty == [d1 |-> Blank(RcvSize), d2 |-> Blank(RcvSize), next |-> Blank(RcvSize),
             prior |-> Blank(RcvSize), head |-> None, tail |-> None, len |-> 0]

\* Write a range into node i; m_piData2 is touched only for a proper range.
Put(L, i, s1, s2) ==
    [L EXCEPT !.d1[i] = s1, !.d2[i] = IF s2 # s1 THEN s2 ELSE @,
              !.len = @ + seqlen(s1, s2)]

\* Node "to" takes what node "from" holds after s.
Split(L, from, to, s) ==
    [L EXCEPT !.d1[to] = incseq(s),
              !.d2[to] = IF seqcmp(L.d2[from], incseq(s)) > 0 THEN L.d2[from] ELSE @,
              !.next[to] = L.next[from]]

-----------------------------------------------------------------------------
(* CSndLossList *)

\* Let node i end at s2.
Stretch(L, i, s2) ==
    [L EXCEPT !.len = @ + seqlen(IF L.d2[i] = None THEN L.d1[i] ELSE L.d2[i], s2) - 1,
              !.d2[i] = s2]

\* Node loc reaches the node after it.
Reaches(L, loc) ==
    /\ L.next[loc] # None /\ L.d2[loc] # None
    /\ seqcmp(L.d1[L.next[loc]], incseq(L.d2[loc])) <= 0

\* Node loc takes the node after it in.
Merge(L, loc) ==
    LET i == L.next[loc]
        overlap == IF seqcmp(L.d2[loc], L.d1[i]) < 0 THEN 0
                   ELSE seqlen(L.d1[i], IF L.d2[i] = None THEN L.d1[i]
                                        ELSE IF seqcmp(L.d2[i], L.d2[loc]) > 0 THEN L.d2[loc]
                                        ELSE L.d2[i])
        end == IF L.d2[i] = None
               THEN IF L.d1[i] = incseq(L.d2[loc]) THEN L.d1[i] ELSE L.d2[loc]
               ELSE IF seqcmp(L.d2[i], L.d2[loc]) > 0 THEN L.d2[i] ELSE L.d2[loc]
    IN  [L EXCEPT !.len = @ - overlap, !.d2 = [@ EXCEPT ![loc] = end, ![i] = None], !.d1[i] = None,
                  !.next = [@ EXCEPT ![loc] = L.next[i], ![i] = None]]

\* Merge node loc with the nodes after it that it reaches; there are fewer than SndSize.
Coalesce(L, loc) ==
    LET merged[k \in 0 .. SndSize] ==
            IF k = 0 THEN L
            ELSE LET M == merged[k - 1] IN IF Reaches(M, loc) THEN Merge(M, loc) ELSE M
    IN  merged[SndSize]

\* The last node that starts before s, searched from node i on.
PriorFrom(L, i, s) ==
    LET prior[k \in 0 .. SndSize] ==
            IF k = 0 THEN i
            ELSE LET j == prior[k - 1]
                 IN  IF L.next[j] # None /\ seqcmp(L.d1[L.next[j]], s) < 0 THEN L.next[j] ELSE j
    IN  prior[SndSize]

\* mutant of SndPrior: the search starts at the place of the last insertion whatever it holds
SndPriorFromLast(L, s) == PriorFrom(L, IF L.last # None THEN L.last ELSE L.head, s)

SndPrior(L, s) ==
    PriorFrom(L, IF L.last # None /\ seqcmp(L.d1[L.last], s) < 0 THEN L.last ELSE L.head, s)

\* insert(seqno1, seqno2): the new list.
SndInsert(L, s1, s2) ==
    LET offset == seqoff(L.d1[L.head], s1)
        loc == At(L.head, offset, SndSize)
        i == SndPrior(L, s1)
        longer(n) == IF L.d2[n] = None THEN s2 # s1 ELSE seqcmp(s2, L.d2[n]) > 0
        grown(n) == LET M == [L EXCEPT !.last = n]
                    IN  IF longer(n) THEN Coalesce(Stretch(M, n, s2), n) ELSE M
    IN  IF L.len = 0
        THEN [Put(L, 0, s1, s2) EXCEPT !.head = 0, !.next[0] = None, !.last = 0]
        ELSE IF offset < 0
        THEN Coalesce([Put(L, loc, s1, s2) EXCEPT !.next[loc] = L.head, !.head = loc, !.last = loc], loc)
        ELSE IF L.d1[loc] = s1
        THEN grown(loc)
        ELSE IF L.d2[i] = None \/ seqcmp(L.d2[i], s1) < 0
        THEN Coalesce([Put(L, loc, s1, s2) EXCEPT !.last = loc, !.next[loc] = L.next[i], !.next[i] = loc], loc)
        ELSE grown(i)

\* Free the nodes from h up to the new head.
FreeUpTo(L, h) ==
    LET free(M, i) == [M EXCEPT !.len = @ - (IF M.d2[i] = None THEN 1 ELSE seqlen(M.d1[i], M.d2[i])),
                                !.d1[i] = None, !.d2[i] = None, !.next[i] = None,
                                !.last = IF @ = i THEN None ELSE @]
        freed[k \in 0 .. SndSize] ==      \* the list, and the node that is freed next
            IF k = 0 THEN [list |-> L, node |-> h]
            ELSE LET F == freed[k - 1]
                 IN  IF F.node = L.head THEN F
                     ELSE [list |-> free(F.list, F.node), node |-> F.list.next[F.node]]
    IN  freed[SndSize].list

\* The head loses its first number, which is s.
DropFirst(L, s) ==
    LET h == L.head
        to == At(h, 1, SndSize)
        M == IF L.d2[h] = None THEN [L EXCEPT !.head = L.next[h]]
             ELSE [Split(L, h, to, s) EXCEPT !.d2[h] = None, !.head = to]
    IN  [M EXCEPT !.d1[h] = None, !.next[h] = None, !.last = IF @ = h THEN None ELSE @, !.len = @ - 1]

\* mutant of SndRemove: a range that goes on beyond s is dropped as a whole
SndRemoveWholeRange(L, s) ==
    LET i == IF L.d1[At(L.head, seqoff(L.d1[L.head], s), SndSize)] = s
             THEN At(L.head, seqoff(L.d1[L.head], s), SndSize) ELSE SndPrior(L, s)
    IN  IF L.len = 0 \/ seqoff(L.d1[L.head], s) < 0 THEN L
        ELSE FreeUpTo([L EXCEPT !.head = L.next[i]], L.head)

\* remove(seqno): nothing up to s stays.
SndRemove(L, s) ==
    LET offset == seqoff(L.d1[L.head], s)
        loc == At(L.head, offset, SndSize)
        to == At(loc, 1, SndSize)
        i == PriorFrom(L, L.head, s)
        M == IF L.d1[loc] = s
             THEN IF L.d2[loc] = None THEN [L EXCEPT !.head = L.next[loc]]
                  ELSE [Split(L, loc, to, s) EXCEPT !.head = to, !.next[loc] = to, !.d2[loc] = None]
             ELSE IF L.d2[i] # None /\ seqcmp(L.d2[i], s) > 0
                  THEN [Split(L, i, to, s) EXCEPT !.head = to, !.next[i] = to, !.d2[i] = s]
                  ELSE [L EXCEPT !.head = L.next[i]]
    IN  IF L.len = 0 \/ offset < 0 THEN L
        ELSE IF offset = 0 THEN DropFirst(L, s)
        ELSE FreeUpTo(M, L.head)
-----------------------------------------------------------------------------
(* CRcvLossList *)

\* insert(seqno1, seqno2): both are above everything the list holds.
RcvInsert(L, s1, s2) ==
    LET loc == At(L.head, seqoff(L.d1[L.head], s1), RcvSize)
    IN  IF L.len = 0
        THEN [Put(L, 0, s1, s2) EXCEPT !.head = 0, !.tail = 0, !.next[0] = None, !.prior[0] = None]
        ELSE IF L.d2[L.tail] # None /\ incseq(L.d2[L.tail]) = s1
        THEN [L EXCEPT !.d2[L.tail] = s2, !.len = @ + seqlen(s1, s2)]
        ELSE [Put(L, loc, s1, s2) EXCEPT !.next = [@ EXCEPT ![L.tail] = loc, ![loc] = None],
                                         !.prior[loc] = L.tail, !.tail = loc]

\* Node i leaves the chain.
Unlink(L, i) ==
    LET n == L.next[i]
        p == L.prior[i]
    IN  IF i = L.head
        THEN [L EXCEPT !.head = n, !.prior = IF n = None THEN @ ELSE [@ EXCEPT ![n] = None]]
        ELSE [L EXCEPT !.next[p] = n, !.tail = IF n = None THEN p ELSE @,
                       !.prior = IF n = None THEN @ ELSE [@ EXCEPT ![n] = p]]

\* The node that starts at s in place loc moves one place on and loses s.
MoveOn(L, loc, s) ==
    LET i == At(loc, 1, RcvSize)
        M == [Split(L, loc, i, s) EXCEPT !.d1[loc] = None, !.d2[loc] = None, !.next[loc] = None,
                                         !.prior = [@ EXCEPT ![i] = L.prior[loc], ![loc] = None]]
        N == IF L.head = loc THEN [M EXCEPT !.head = i] ELSE [M EXCEPT !.next[M.prior[i]] = i]
    IN  IF N.tail = loc THEN [N EXCEPT !.tail = i] ELSE [N EXCEPT !.prior[N.next[i]] = i]

\* Node i ends just before s.
EndBefore(L, i, s) == [L EXCEPT !.d2[i] = IF s = incseq(L.d1[i]) THEN None ELSE decseq(s)]

\* s lies inside node i: what follows s gets a node of its own at place loc.
CutAt(L, i, loc, s) ==
    LET M == [EndBefore(Split(L, i, loc, s), i, s) EXCEPT !.next[i] = loc, !.prior[loc] = i]
    IN  IF L.tail = i THEN [M EXCEPT !.tail = loc] ELSE [M EXCEPT !.prior[M.next[loc]] = loc]

\* The first place below loc that holds a node.
NodeBelow(L, loc) ==
    LET holds(k) == L.d1[At(loc, -k, RcvSize)] # None
    IN  At(loc, -(CHOOSE k \in 1 .. RcvSize : holds(k) /\ \A j \in 1 .. k - 1 : ~holds(j)), RcvSize)

\* remove(seqno): [list |-> the new list, found |-> what it returned].
RcvRemove(L, s) ==
    LET offset == seqoff(L.d1[L.head], s)
        loc == At(L.head, offset, RcvSize)
        i == NodeBelow(L, loc)
        M == IF L.d1[loc] = s
             THEN IF L.d2[loc] = None THEN [Unlink(L, loc) EXCEPT !.d1[loc] = None, !.next[loc] = None, !.prior[loc] = None] ELSE MoveOn(L, loc, s)
             ELSE IF s = L.d2[i] THEN EndBefore(L, i, s)
             ELSE CutAt(L, i, At(loc, 1, RcvSize), s)
    IN  IF \/ L.len = 0
           \/ offset < 0
           \/ L.d1[loc] # s /\ (L.d2[i] = None \/ seqcmp(s, L.d2[i]) > 0)
        THEN [list |-> L, found |-> FALSE]
        ELSE [list |-> [M EXCEPT !.len = @ - 1], found |-> TRUE]

\* The numbers remove(seqno1, seqno2) goes through, in order: past the wrap-around its loop
\* stops short of m_iMaxSeqNo.
RcvRemoveEach(L, s, upto) ==
    LET before[t \in s .. upto] == IF t = s THEN L ELSE RcvRemove(before[t - 1], t - 1).list
    IN  before[upto]

RcvRemoveRange(L, s1, s2) ==
    IF s1 <= s2 THEN RcvRemoveEach(L, s1, s2 + 1)
    ELSE RcvRemoveEach(RcvRemoveEach(L, s1, MaxSeqNo), 0, s2 + 1)

\* getFirstLostSeq
FirstLost(L) == IF L.len = 0 THEN None ELSE L.d1[L.head]

\* The nodes of a list in the order of the chain.
Chain(L) ==
    LET from[i \in DOMAIN L.next \cup {None}] == IF i = None THEN <<>> ELSE <<i>> \o from[L.next[i]]
    IN  IF L.len = 0 THEN <<>> ELSE from[L.head]

-----------------------------------------------------------------------------
(* The callers in core.cpp *)

\* The sender's numbers whose data is not acknowledged yet: a lite ACK moves m_iSndLastAck alone, so
\* some of them may be acknowledged themselves.
Unfreed == IF sndWin.data = incseq(sndWin.curr) THEN {} ELSE SeqRange(sndWin.data, sndWin.curr)

\* What a receiver may acknowledge: everything before one of these (older ones change nothing).
Acknowledgeable == Unfreed \cup {incseq(sndWin.curr)}

MaxFlow == SndSize \div 2   \* the flow window that the list is made for

LossInit ==
    /\ snd = SndEmpty /\ rcv = RcvEmpty /\ ret = 0
    /\ sndWin = [data |-> FirstSeqNo, ack |-> FirstSeqNo, curr |-> decseq(FirstSeqNo), flow |-> MaxFlow]
    /\ rcvWin = [ack |-> FirstSeqNo, curr |-> decseq(FirstSeqNo)]

\* packData sends a new packet while the flow window allows it.
SendNew ==
    /\ sndWin.flow >= seqlen(sndWin.ack, incseq(sndWin.curr))
    /\ sndWin' = [sndWin EXCEPT !.curr = incseq(@)]
    /\ UNCHANGED <<snd, rcv, ret, rcvWin>>

\* A loss report names s1..s2, all of them sent (checkTimers reports everything in flight); what is
\* acknowledged, be it by a lite ACK, is left out.
ReportLoss(s1, s2) ==
    /\ s1 \in Unfreed /\ s2 \in Unfreed /\ seqcmp(s1, s2) <= 0
    /\ IF seqcmp(s2, sndWin.ack) < 0 THEN UNCHANGED <<snd, ret>>
       ELSE /\ snd' = SndInsert(snd, IF seqcmp(s1, sndWin.ack) >= 0 THEN s1 ELSE sndWin.ack, s2)
            /\ ret' = snd'.len - snd.len
    /\ UNCHANGED <<rcv, sndWin, rcvWin>>

\* A lite ACK of everything before s: the list is not looked at.
LiteAck(s) ==
    /\ s \in Acknowledgeable /\ seqcmp(s, sndWin.ack) >= 0
    /\ sndWin' = [sndWin EXCEPT !.ack = s, !.flow = @ - seqoff(sndWin.ack, s)]
    /\ UNCHANGED <<snd, rcv, ret, rcvWin>>

\* An ACK of everything before s, with the window of the peer; it may be older than a lite one.
Acknowledge(s, flow) ==
    /\ s \in Acknowledgeable
    /\ LET W == IF seqcmp(s, sndWin.ack) >= 0 THEN [sndWin EXCEPT !.ack = s, !.flow = flow] ELSE sndWin
       IN  IF seqoff(sndWin.data, s) > 0
           THEN sndWin' = [W EXCEPT !.data = s] /\ snd' = SndRemove(snd, decseq(s))
           ELSE sndWin' = W /\ UNCHANGED snd
    /\ UNCHANGED <<rcv, ret, rcvWin>>

\* getLostSeq, called by packData.
TakeLost ==
    /\ IF snd.len = 0 THEN ret' = None /\ UNCHANGED snd
       ELSE ret' = snd.d1[snd.head] /\ snd' = DropFirst(snd, snd.d1[snd.head])
    /\ UNCHANGED <<rcv, sndWin, rcvWin>>

\* processData: s is within the receiver's buffer; above the current number it may open a gap.
ArriveData(s) ==
    LET gap == seqcmp(s, incseq(rcvWin.curr)) > 0
        L == RcvRemove(rcv, s)
    IN  /\ seqoff(rcvWin.ack, s) \in 0 .. RcvSize - 1
        /\ IF seqcmp(s, rcvWin.curr) > 0
           THEN /\ rcv' = (IF gap THEN RcvInsert(rcv, incseq(rcvWin.curr), decseq(s)) ELSE rcv)
                /\ rcvWin' = [rcvWin EXCEPT !.curr = s]
                /\ UNCHANGED ret
           ELSE rcv' = L.list /\ ret' = (IF L.found THEN 1 ELSE 0) /\ UNCHANGED rcvWin
        /\ UNCHANGED <<snd, sndWin>>

\* processCtrl of a drop request for s1..s2: the receiver stops waiting for them.
ArriveDrop(s1, s2) ==
    /\ seqoff(rcvWin.ack, s1) \in 0 .. RcvSize - 1 /\ seqoff(rcvWin.ack, s2) \in 0 .. RcvSize - 1
    /\ seqcmp(s1, s2) <= 0
    /\ rcv' = RcvRemoveRange(rcv, s1, s2)
    /\ rcvWin' = [rcvWin EXCEPT !.curr =
                      IF seqcmp(s1, incseq(@)) <= 0 /\ seqcmp(s2, @) > 0 THEN s2 ELSE @]
    /\ UNCHANGED <<snd, ret, sndWin>>

\* sendCtrl of an acknowledgement moves the receiver's window to the first missing number.
SendAck ==
    /\ rcvWin' = [rcvWin EXCEPT !.ack = IF rcv.len = 0 THEN incseq(rcvWin.curr) ELSE FirstLost(rcv)]
    /\ UNCHANGED <<snd, rcv, ret, sndWin>>

SenderNext ==
    \/ SendNew
    \/ \E s1, s2 \in Unfreed : ReportLoss(s1, s2)
    \/ \E s \in Acknowledgeable : LiteAck(s)
    \/ \E s \in Acknowledgeable, flow \in 2 .. MaxFlow : Acknowledge(s, flow)
    \/ TakeLost

ReceiverNext ==
    \/ \E s \in SeqNos : ArriveData(s)
    \/ \E s1, s2 \in SeqNos : ArriveDrop(s1, s2)
    \/ SendAck

\* The two lists are driven one after the other from each first number: they share nothing.
LossSpec == LossInit /\ [][SenderNext \/ ReceiverNext]_lossVars

-----------------------------------------------------------------------------
\* The numbers a list stands for.
LostIn(L) ==
    LET c == Chain(L)
    IN  UNION {SeqRange(L.d1[i], IF L.d2[i] = None THEN L.d1[i] ELSE L.d2[i]) : i \in {c[k] : k \in DOMAIN c}}

\* Every list is a chain of disjoint ascending ranges, each at the place its first number
\* asks for; every other place is blank (a stale one would be taken for a node when probed),
\* and the length is the number of members (list.cpp, all operations).
WellFormed(L, size) ==
    LET c == Chain(L)
    IN  /\ \A k \in DOMAIN c : c[k] = At(L.head, seqoff(L.d1[L.head], L.d1[c[k]]), size)
        /\ \A k \in 1 .. Len(c) - 1 :
              seqcmp(IF L.d2[c[k]] = None THEN L.d1[c[k]] ELSE L.d2[c[k]], L.d1[c[k + 1]]) < 0
        /\ \A i \in 0 .. size - 1 : i \notin {c[k] : k \in DOMAIN c} => L.d1[i] = None /\ L.d2[i] = None
        /\ L.len = Cardinality(LostIn(L))

LossListsAreWellFormed == WellFormed(snd, SndSize) /\ WellFormed(rcv, RcvSize)

\* The sender's list holds nothing whose data is given back to the sending buffer, nor what was never
\* sent, although lite ACKs leave acknowledged numbers in it (core.cpp:764) and an ACK may be older than
\* a lite one; and it has places for all it may hold.  The receiver acknowledges no number it misses.
LossesAreInWindow ==
    /\ LostIn(snd) \subseteq Unfreed
    /\ Cardinality(Unfreed) <= SndSize
    /\ \A s \in LostIn(rcv) : seqcmp(rcvWin.ack, s) <= 0 /\ seqcmp(s, rcvWin.curr) <= 0

\* The arrays behave as the sets of UdtLossSet, and the sender forgets a loss only when the number is
\* handed out or its data acknowledged: a lite ACK and a repeated one drop nothing.  One step is left
\* out: a range that wraps around is given up but for the largest number (list.cpp:640).
LossSet == INSTANCE UdtLossSet WITH sndLost <- LostIn(snd), rcvLost <- LostIn(rcv)
MaxSeqNoStays ==
    /\ MaxSeqNo \in LostIn(rcv)
    /\ \E s1, s2 \in SeqNos :
          s1 > s2 /\ LostIn(rcv') = (LostIn(rcv) \ SeqRange(s1, s2)) \cup {MaxSeqNo}
    /\ UNCHANGED <<snd, ret>>
OnlyAckedIsForgotten ==
    [][\A s \in LostIn(snd) \ LostIn(snd') : s = ret' \/ seqcmp(s, sndWin'.data) < 0]_lossVars
LossListsAreSets ==
    /\ LossSet!LossSetInit
    /\ [][LossSet!LossSetNext \/ MaxSeqNoStays]_<<LostIn(snd), LostIn(rcv), ret>>
    /\ OnlyAckedIsForgotten

\* list.h: "Remove all packets between seqno1 and seqno2", whatever range the receiver gives up.
RangesAreRemoved == LossSet!LossSetSpec
=============================================================================
