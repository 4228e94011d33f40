----------------------------- MODULE MCKadLookup -----------------------------
(***************************************************************************)
(* Instances of KadLookup for TLC.  The ids are 1..n of a space of eight,  *)
(* the keys are 0 and 3, so that the two lookups order the ids differently.*)
(***************************************************************************)
EXTENDS KadLookup, TLC

\* Three ids, the first of which has two contact objects.
ContactPair == {"a", "a2", "b", "c"}
IdOfPair == [c \in ContactPair |-> IF c \in {"a", "a2"} THEN 1 ELSE IF c = "b" THEN 2 ELSE 4]

\* Three contacts of three ids.
ContactTrio == {"a", "b", "c"}
IdOfTrio == [c \in ContactTrio |-> IF c = "a" THEN 1 ELSE IF c = "b" THEN 2 ELSE 4]

Ids == {1, 2, 4}
XorKey3 == (1 :> 2) @@ (2 :> 1) @@ (4 :> 7)
XorKey0 == (1 :> 1) @@ (2 :> 2) @@ (4 :> 4)
DistanceTwo == [o \in {"p", "q"} |-> IF o = "p" THEN XorKey0 ELSE XorKey3]
=============================================================================
