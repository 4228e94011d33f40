------------------------------ MODULE KadNodeId ------------------------------
(***************************************************************************)
(* Node ids (src/KadNodeId.h) as the routing table uses them: bit vectors  *)
(* with the most significant bit first, their XOR, and the order memcmp    *)
(* gives them.  The byte-wise arithmetic is in KadNodeIdArith.             *)
(***************************************************************************)
EXTENDS Naturals, SequencesExt

CONSTANT ID_BITS        \* KADEMLIA_ID_BITS

ASSUME IdBitsAssumption == ID_BITS \in Nat \ {0}

Bit == {0, 1}
KadId == [1..ID_BITS -> Bit]

\* operator ^
Xor(a, b) == [i \in 1..ID_BITS |-> IF a[i] = b[i] THEN 0 ELSE 1]

\* operator <: memcmp decides at the first difference.
Less(a, b) == \E i \in 1..ID_BITS : a[i] < b[i] /\ \A j \in 1..(i - 1) : a[j] = b[j]

\* id.Closer(to, than)
Closer(id, to, than) == Less(Xor(id, to), Xor(id, than))

\* The first n bits: what GetBit(0) .. GetBit(n - 1) say.
Prefix(d, n) == SubSeq(d, 1, n)

\* The space next to the one that p is the path of: m0 for m1 and m1 for m0.
Sibling(p) == [p EXCEPT ![Len(p)] = 1 - @]
=============================================================================
