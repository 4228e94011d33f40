------------------------------ MODULE UdtSeqNo ------------------------------
(***************************************************************************)
(* The circular numbers of the transport: CSeqNo of udt4's common.h.  A    *)
(* number counts 0, 1, ..., MaxSeqNo and starts again at 0.  The program   *)
(* has MaxSeqNo = 2^31 - 1 and SeqNoTH = 2^30 - 1; both are parameters, so *)
(* that an instance with few numbers meets the wrap-around at once.        *)
(***************************************************************************)
EXTENDS Integers

CONSTANTS
    MaxSeqNo,   \* m_iMaxSeqNo, the largest number
    SeqNoTH     \* m_iSeqNoTH, two numbers closer than this compare as integers

\* The threshold is less than half the circle, as in the program.
ASSUME SeqNoAssumption ==
    /\ MaxSeqNo \in Nat
    /\ SeqNoTH \in Nat \ {0}
    /\ 2 * SeqNoTH < MaxSeqNo + 1

SeqNos == 0 .. MaxSeqNo

absdiff(s1, s2) == IF s1 < s2 THEN s2 - s1 ELSE s1 - s2

\* Negative, zero or positive as s1 is before, at or after s2.
seqcmp(s1, s2) == IF absdiff(s1, s2) < SeqNoTH THEN s1 - s2 ELSE s2 - s1

\* How many numbers s1, ..., s2 are, both included.
seqlen(s1, s2) == IF s1 <= s2 THEN s2 - s1 + 1 ELSE s2 - s1 + MaxSeqNo + 2

\* How far s2 is after s1, negative when it is before.
seqoff(s1, s2) == IF absdiff(s1, s2) < SeqNoTH THEN s2 - s1
                  ELSE IF s1 < s2 THEN s2 - s1 - MaxSeqNo - 1
                  ELSE s2 - s1 + MaxSeqNo + 1

incseq(s) == IF s = MaxSeqNo THEN 0 ELSE s + 1

decseq(s) == IF s = 0 THEN MaxSeqNo ELSE s - 1

\* incseq with an increment.
addseq(s, inc) == IF MaxSeqNo - s >= inc THEN s + inc ELSE s - MaxSeqNo + inc - 1

\* The numbers from s1 on to s2 (abstract: what [s1, s2] stands for).
SeqRange(s1, s2) == {addseq(s1, k) : k \in 0 .. seqlen(s1, s2) - 1}
=============================================================================
