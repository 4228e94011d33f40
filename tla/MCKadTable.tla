----------------------------- MODULE MCKadTable -----------------------------
(***************************************************************************)
(* Instances of KadRtNode and KadJoin.                                     *)
(*                                                                         *)
(* A behaviour is of one of three systems: the table as a class of its own *)
(* (nodes are added and removed), the table in KadOpMgr (nodes are added,  *)
(* fail and answer), or the table of a node that joins, over fewer ids.    *)
(***************************************************************************)
EXTENDS KadJoin

VARIABLE part       \* "class", "node" or "join" (or another part of a node: see MCKadParts)

MCLocalId == <<0, 1, 0, 1>>
At(d) == Xor(d, MCLocalId)

\* Distances 8 to 11 share a bucket that cannot be split; 1 and 6 do not.
FewIds == {At(<<1, 0, 0, 0>>), At(<<1, 0, 0, 1>>), At(<<1, 0, 1, 0>>), At(<<1, 0, 1, 1>>),
           At(<<0, 0, 0, 1>>), At(<<0, 1, 1, 0>>)}

\* One node near and two far; and, for a run of its own, one more that splits off the bucket of
\* the distances 12 to 15.
JoinIds == {At(<<0, 0, 0, 1>>), At(<<1, 0, 0, 0>>), At(<<1, 0, 1, 1>>)}
BucketIds == {At(<<0, 0, 0, 1>>), At(<<1, 0, 0, 0>>), At(<<1, 1, 0, 0>>), At(<<1, 1, 0, 1>>)}

TableInit == JoinInit /\ part \in {"class", "node", "join"}
TableNext ==
    \/ part = "class" /\ RtNext /\ UNCHANGED <<part, joinVars, self, refreshVars>>
    \/ part = "node" /\ NodeNext /\ UNCHANGED <<part, joinVars, self, refreshVars>>
    \/ part = "join" /\ JoinNextOver(JoinIds) /\ UNCHANGED part

TableSpec == TableInit /\ [][TableNext]_<<tableVars, part>> /\ (part = "join" => JoinFairness)

\* The buckets divide the space, every contact is where its id belongs, and, unless nodes are
\* removed, each node is held once and only full buckets that cannot be split have a cache.
TableIsSoundAlways ==
    /\ part \in {"class", "node", "join"} => RtTypeOK /\ JoinTypeOK /\ TableIsSound
    /\ part \in {"node", "join"} => OneEntryPerId /\ CacheBehindFull

\* No list changes its order but by the node that is added, and unless nodes are removed no contact
\* is forgotten before it is stale.
NodesAreKept ==
    /\ [][part = "class" => KeepsOrder]_<<table, part>>
    /\ [][part # "class" => LiveContacts \subseteq Contacts']_<<table, part>>

\* FindClosest answers every question as well as the buckets allow.
FindAnswers == part = "node" => FindsEnough /\ OmitsOnlyInBucket

\* Whichever way the first contact comes, Join sees it and ends.
JoinEndsHere == part = "join" => JoinEnds
=============================================================================
