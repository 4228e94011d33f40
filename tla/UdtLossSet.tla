----------------------------- MODULE UdtLossSet -----------------------------
(***************************************************************************)
(* What the two loss lists of a connection promise: each is a set of       *)
(* sequence numbers, ordered along the circle.  The sender's list is       *)
(* filled by reports of the peer, emptied from below by acknowledgements   *)
(* and read one number at a time, the oldest first.  The receiver's list   *)
(* is filled by gaps above everything it holds and emptied by arrivals.    *)
(***************************************************************************)
EXTENDS UdtSeqNo, FiniteSets

VARIABLES sndLost, rcvLost, ret

Before(s, t) == seqcmp(s, t) < 0

LossSetInit == sndLost = {} /\ rcvLost = {} /\ ret = 0

\* insert returns how many numbers it added.
SetInsert(s1, s2) ==
    /\ UNCHANGED rcvLost
    /\ ~Before(s2, s1)
    /\ sndLost' = sndLost \cup SeqRange(s1, s2)
    /\ ret' = Cardinality(sndLost') - Cardinality(sndLost)

\* remove forgets every number up to s.
SetRemoveUpTo(s) ==
    /\ UNCHANGED <<ret, rcvLost>>
    /\ sndLost' = {t \in sndLost : Before(s, t)}

\* getLostSeq hands out the oldest number, or -1.
SetTakeOldest ==
    /\ UNCHANGED rcvLost
    /\ IF sndLost = {} THEN ret' = -1
       ELSE /\ ret' \in sndLost
            /\ \A t \in sndLost : ~Before(t, ret')
    /\ sndLost' = sndLost \ {ret'}

SetGap(s1, s2) ==
    /\ UNCHANGED <<ret, sndLost>>
    /\ ~Before(s2, s1)
    /\ rcvLost' = rcvLost \cup SeqRange(s1, s2)

\* remove of the receiver says whether the number was there.
SetArrive(s) ==
    /\ UNCHANGED sndLost
    /\ rcvLost' = rcvLost \ {s}
    /\ ret' = (IF s \in rcvLost THEN 1 ELSE 0)

\* A range is given up.
SetArriveRange(s1, s2) ==
    /\ UNCHANGED <<ret, sndLost>>
    /\ ~Before(s2, s1)
    /\ rcvLost' = rcvLost \ SeqRange(s1, s2)

LossSetNext ==
    \/ \E s1, s2 \in sndLost' : SetInsert(s1, s2)
    \/ \E s \in SeqNos : SetRemoveUpTo(s) \/ SetArrive(s)
    \/ SetTakeOldest
    \/ \E s1, s2 \in rcvLost' : SetGap(s1, s2)
    \/ \E s1, s2 \in SeqNos : SetArriveRange(s1, s2)

LossSetSpec == LossSetInit /\ [][LossSetNext]_<<sndLost, rcvLost, ret>>
=============================================================================
