------------------------------ MODULE KadRtNode ------------------------------
(***************************************************************************)
(* The routing table of a node (src/KadRtNode.h): a binary tree over the   *)
(* distance to the local id, with a bucket of contacts and a replacement   *)
(* cache at every leaf.  The tree is the set of its leaves: a leaf is its  *)
(* path, the bits of distance that lead to it; mDepth is the length of the *)
(* path and mIndex its value.  Every operation runs under KadOpMgr::mLock  *)
(* and is one action.                                                      *)
(***************************************************************************)
EXTENDS KadNodeId, FiniteSets

CONSTANTS
    LocalId,        \* mLocalId
    Ids,            \* the ids of the other nodes
    B,              \* KADEMLIA_B
    RT_BASE,        \* KADEMLIA_RT_BASE
    BUCKET_SIZE,    \* KADEMLIA_BUCKET_SIZE
    CACHE_SIZE,     \* KADEMLIA_CACHE_SIZE
    STALE           \* KADEMLIA_STALE; mFailQty is not told apart above it

ASSUME IdsAssumption == LocalId \in KadId /\ Ids \subseteq KadId \ {LocalId}
ASSUME SizesAssumption ==
    /\ {B, BUCKET_SIZE, CACHE_SIZE, STALE} \subseteq Nat \ {0}
    /\ RT_BASE \in Nat

VARIABLE table      \* the leaves: path -> [contacts, cache]

Contact(id) == [id |-> id, fail |-> 0]
IsStale(c) == c.fail >= STALE

-----------------------------------------------------------------------------
(* The tree *)

Dist(id) == Xor(id, LocalId)
Under(p, id) == Prefix(Dist(id), Len(p)) = p

\* Closest() from the root down to a bucket.
Leaf(t, id) == CHOOSE p \in DOMAIN t : Under(p, id)

Held(s) == {s[i].id : i \in DOMAIN s}

\* mIndex < PowerOfTwo(mDepth % B): but for the last mDepth % B bits, all are 0.
MaySplit(p) ==
    /\ Len(p) < ID_BITS - 1
    /\ Len(p) < RT_BASE \/ \A i \in 1..(Len(p) - (Len(p) % B)) : p[i] = 0

IsSplittable(p, contacts) == MaySplit(p) /\ Len(contacts) >= BUCKET_SIZE

Take(s, n) == SubSeq(s, 1, IF Len(s) < n THEN Len(s) ELSE n)

\* What stands in s at the places I, in its order.
Sublist(s, I) ==
    LET Rank(i) == Cardinality({j \in I : j <= i})
    IN  [k \in 1..Cardinality(I) |-> s[CHOOSE i \in I : Rank(i) = k]]

\* What Split gives to the space q of a bucket b: its contacts, then, while
\* there is room, the cached ones.
ShareAll(q, b) == b                                       \* mutant of Share
Share(q, b) ==
    LET both == b.contacts \o b.cache
        all == Sublist(both, {i \in DOMAIN both : Under(q, both[i].id)})
    IN  [contacts |-> Take(all, BUCKET_SIZE),
         cache    |-> Take(SubSeq(all, BUCKET_SIZE + 1, Len(all)), CACHE_SIZE)]

\* AddNode splits the bucket of id, then the half that id falls in, as long as
\* that one is full, splittable and without id: down to the depth Stop.
Splits(q, contacts, id) == id \notin Held(contacts) /\ IsSplittable(q, contacts)

Stop(p, b, id) ==
    LET At(n) == Prefix(Dist(id), n)
        Full(n) == Splits(At(n), (IF n = Len(p) THEN b ELSE Share(At(n), b)).contacts, id)
    IN  CHOOSE n \in Len(p)..ID_BITS : ~Full(n) /\ \A m \in Len(p)..(n - 1) : Full(m)

Grown(t, id) ==
    LET p == Leaf(t, id)
        n == Stop(p, t[p], id)
        path == {Prefix(Dist(id), m) : m \in (Len(p) + 1)..n}
        new == {Sibling(q) : q \in path} \cup (path \cap {Prefix(Dist(id), n)})
    IN  IF n = Len(p) THEN t
        ELSE [q \in (DOMAIN t \ {p}) \cup new |-> IF q \in new THEN Share(q, t[p]) ELSE t[q]]

-----------------------------------------------------------------------------
(* Actions *)

Without(s, id) == Sublist(s, {i \in DOMAIN s : s[i].id # id})
Entry(s, id) == Sublist(s, {i \in DOMAIN s : s[i].id = id})

PutFront(b, id) ==                                        \* mutant of Put
    IF id \in Held(b.contacts)
    THEN [b EXCEPT !.contacts = Entry(@, id) \o Without(@, id)]
    ELSE IF Len(b.contacts) < BUCKET_SIZE
    THEN [b EXCEPT !.contacts = Append(@, Contact(id))]
    ELSE [b EXCEPT !.cache = Take(<<Contact(id)>> \o Without(@, id), CACHE_SIZE)]

\* AddNode at a bucket that is not split: known ids move to the back, a new one
\* is appended to the contacts or, when they are full, to the cache, which
\* forgets its oldest.
Put(b, id) ==
    IF id \in Held(b.contacts)
    THEN [b EXCEPT !.contacts = Without(@, id) \o Entry(@, id)]
    ELSE IF Len(b.contacts) < BUCKET_SIZE
    THEN [b EXCEPT !.contacts = Append(@, Contact(id))]
    ELSE IF id \in Held(b.cache)
    THEN [b EXCEPT !.cache = Without(@, id) \o Entry(@, id)]
    ELSE [b EXCEPT !.cache = Append(IF Len(@) < CACHE_SIZE THEN @ ELSE Tail(@), Contact(id))]

AddNode(id) ==
    LET t == Grown(table, id)
    IN  table' = [t EXCEPT ![Leaf(t, id)] = Put(@, id)]

\* A contact is taken out; its place is not filled from the cache.
Drop(b, id) ==
    IF id \in Held(b.contacts) THEN [b EXCEPT !.contacts = Without(@, id)]
                               ELSE [b EXCEPT !.cache = Without(@, id)]

RemoveNode(id) == table' = [table EXCEPT ![Leaf(table, id)] = Drop(@, id)]

\* KadOpMgr holds the contacts of the table and counts their failures:
\* ReqTracker::OnTimeout and, with 0, OnResponse and RecieveCbk.
Counted(s, i, n) == [s EXCEPT ![i].fail = n]

NoteFailure(p, list, i) ==
    /\ table[p][list][i].fail < STALE                \* the bound of mFailQty
    /\ table' = [table EXCEPT ![p][list] = Counted(@, i, @[i].fail + 1)]

NoteAlive(p, list, i) == table' = [table EXCEPT ![p][list] = Counted(@, i, 0)]

RtInit == table = [p \in {<<>>} |-> [contacts |-> <<>>, cache |-> <<>>]]

Note == \E p \in DOMAIN table, list \in {"contacts", "cache"} :
            \E i \in DOMAIN table[p][list] :
                NoteFailure(p, list, i) \/ NoteAlive(p, list, i)

\* The table as a class of its own.
RtNext == \E id \in Ids : AddNode(id) \/ RemoveNode(id)
RtSpec == RtInit /\ [][RtNext]_table

\* The table in KadOpMgr, which never calls RemoveNode.
NodeNext == (\E id \in Ids : AddNode(id)) \/ Note
NodeSpec == RtInit /\ [][NodeNext]_table

-----------------------------------------------------------------------------
(* Lookup *)

Live(s) == SelectSeq(s, LAMBDA c : ~IsStale(c))

\* The order in which FindClosest visits the leaves.
Nearer(d, p, q) ==
    \E i \in DOMAIN p \cap DOMAIN q : /\ p[i] = d[i] /\ q[i] # d[i]
                                      /\ \A j \in 1..(i - 1) : p[j] = q[j]

\* At a bucket: the first qty live contacts, and each later one takes the place
\* of the first that is farther than it.
Replace(r, c, id) ==
    LET farther == {j \in DOMAIN r : Closer(id, c.id, r[j].id)}
    IN  IF farther = {} THEN r ELSE [r EXCEPT ![CHOOSE j \in farther : \A k \in farther : j <= k] = c]

Pick(s, id, qty) ==
    FoldLeft(LAMBDA r, c : IF Len(r) < qty THEN Append(r, c) ELSE Replace(r, c, id), <<>>, Live(s))

FindAhead(id, qty) == Pick(table[Leaf(table, id)].contacts, id, qty)  \* mutant of FindClosest
FindClosest(id, qty) ==
    LET visit == SetToSortSeq(DOMAIN table, LAMBDA p, q : Nearer(Dist(id), p, q))
    IN  FoldLeft(LAMBDA r, p : r \o Pick(table[p].contacts, id, qty - Len(r)), <<>>, visit)

-----------------------------------------------------------------------------
(* Properties *)

Entries(p) == Held(table[p].contacts) \cup Held(table[p].cache)
Contacts == UNION {Held(table[p].contacts) : p \in DOMAIN table}

\* Types, and no list above its size.
EntryType == [id : Ids, fail : 0..STALE]
RtTypeOK ==
    \A p \in DOMAIN table :
        /\ p \in Seq(Bit) /\ Len(p) < ID_BITS
        /\ table[p].contacts \in Seq(EntryType) /\ Len(table[p].contacts) <= BUCKET_SIZE
        /\ table[p].cache \in Seq(EntryType) /\ Len(table[p].cache) <= CACHE_SIZE

\* The tree stays a full binary tree (testRouting of test/KadRtNodeTS.h: spaces
\* are buckets - 1) and every distance leads to exactly one bucket.
Spaces == UNION {{Prefix(p, n) : n \in 0..(Len(p) - 1)} : p \in DOMAIN table}

SpaceIsPartitioned ==
    /\ Cardinality(Spaces) = Cardinality(DOMAIN table) - 1
    /\ \A d \in KadId : Cardinality({p \in DOMAIN table : Prefix(d, Len(p)) = p}) = 1

\* A split never leaves a contact where AddNode, which goes down by the bits of
\* the distance, would not find it again.
ContactsArePlaced == \A p \in DOMAIN table : \A id \in Entries(p) : Under(p, id)

\* However ids come back while their bucket is full, cached or split, each is
\* held once: in one bucket, as a contact or in the cache.
OneEntryPerId ==
    \A p \in DOMAIN table :
        LET b == table[p]
            all == b.contacts \o b.cache
        IN  /\ Cardinality(Held(all)) = Len(all)
            /\ \A q \in DOMAIN table \ {p} : Entries(p) \cap Entries(q) = {}

\* Only a full bucket that can never be split has a cache: the loop of Split
\* over mCache has nothing to do.
CacheBehindFull ==
    \A p \in DOMAIN table : table[p].cache # <<>> =>
        Len(table[p].contacts) = BUCKET_SIZE /\ ~MaySplit(p)

\* However nodes come, go and come back, the table stays a tree of buckets that holds each node where
\* it is looked for.
TableIsSound == SpaceIsPartitioned /\ ContactsArePlaced

\* The contacts that have not failed STALE times in a row.
LiveContacts ==
    {id \in Contacts : \A p \in DOMAIN table : \A i \in DOMAIN table[p].contacts :
                          table[p].contacts[i].id = id => ~IsStale(table[p].contacts[i])}

\* However buckets split while nodes are added, no contact is forgotten before it is stale
\* (KadConfig.h.in: "Number of times a node can be marked as stale before it is actually removed").
NoLiveContactForgotten == [][LiveContacts \subseteq Contacts']_table

\* Lists are ordered by the last AddNode, also across splits: two contacts change
\* order only when the one that comes last now is the one added.  PopFront of a full
\* cache relies on it.
Before(s, x, y) == \E i, j \in DOMAIN s : i < j /\ s[i].id = x /\ s[j].id = y
Moved(s, after) == {x \in Held(s) : \E y \in Held(s) : Before(s, x, y) /\ Before(after, y, x)}

KeepsOrder ==
    \A p \in DOMAIN table, q \in DOMAIN table' :
        Moved(table[p].contacts, table'[q].contacts) \cup Moved(table[p].cache, table'[q].cache)
            \subseteq {id \in Ids : AddNode(id)}

\* FindClosest, for every target and quantity.
Targets == Ids \cup {LocalId}
LiveIds == UNION {Held(Live(table[p].contacts)) : p \in DOMAIN table}

\* It finds as many live contacts as there are, up to qty, each once.
FindsEnough ==
    \A id \in Targets, qty \in 0..Cardinality(Ids) :
        LET r == FindClosest(id, qty)
            n == Cardinality(LiveIds)
        IN  /\ Len(r) = IF qty < n THEN qty ELSE n
            /\ Cardinality(Held(r)) = Len(r) /\ Held(r) \subseteq LiveIds

\* It leaves out a contact that is closer than one it returns only when both are
\* in one bucket, and never the closest one.
OmitsOnlyInBucket ==
    \A id \in Targets, qty \in 1..Cardinality(Ids) :
        LET r == Held(FindClosest(id, qty))
        IN  \A x \in LiveIds \ r, y \in r : Closer(id, x, y) =>
                /\ \E p \in DOMAIN table : {x, y} \subseteq Held(table[p].contacts)
                /\ \E z \in r : Closer(id, z, x)
=============================================================================
