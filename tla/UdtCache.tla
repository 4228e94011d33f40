------------------------------ MODULE UdtCache ------------------------------
(***************************************************************************)
(* CCache<CInfoBlock> of udt4 (cache.h, cache.cpp): what is known of the   *)
(* path to each address, written when a connection is closed and read when *)
(* the next one is made, whichever socket does it.  The items are in a     *)
(* list, the newest first, and a hash table points into the list.          *)
(*                                                                         *)
(* A place of the list has a number of its own, so that a pointer to a     *)
(* place that is gone can be told from one to a new place.  The number of  *)
(* items, m_iCurrSize, is the length of the list until a pointer to a      *)
(* place that is gone is followed.                                         *)
(***************************************************************************)
EXTENDS Integers, Sequences, SequencesExt, FiniteSets

CONSTANTS
    Keys,         \* the addresses, as the integers getKey makes of them
    Infos,        \* what is known of a path (RTT, bandwidth)
    MaxSize,      \* m_iMaxSize (1024)
    MaxUpdates    \* bound: updates in a run

VARIABLES
    storage,      \* m_StorageList: [place, key, info]
    hash,         \* m_vHashPtr: of each index, the places pointed to
    updates,      \* updates so far
    answer,       \* what the last lookup has returned
    latest,       \* history: of each address, the item stored last
    astray        \* history: the oldest item was dropped for one of another index

cacheVars == <<storage, hash, updates, answer, latest, astray>>

HashSize == MaxSize * 3
Index(k) == IF k >= MaxSize THEN k % HashSize ELSE k

CacheInit ==
    /\ storage = <<>>
    /\ hash = [i \in 0 .. HashSize - 1 |-> <<>>]
    /\ updates = 0
    /\ answer = [key |-> 0, found |-> {}]
    /\ latest = [k \in Keys |-> [place |-> 0, key |-> k, info |-> CHOOSE info \in Infos : TRUE]]
    /\ astray = FALSE

At(p) == {n \in Range(storage) : n.place = p}
Dangling(i) == {p \in Range(hash[i]) : At(p) = {}}

\* Where the pointers of a chain are that lead to an item of the key: whatever a pointer to a place
\* that is gone may read, it may seem to be one of them.
Matches(chain, items, k, ghosts) ==
    {b \in DOMAIN chain : chain[b] \in ghosts \/ \E n \in Range(items) : n.place = chain[b] /\ n.key = k}
Hits(k, ghosts) == Matches(hash[Index(k)], storage, k, ghosts)
First(B) == CHOOSE b \in B : \A c \in B : b <= c

Found(k, ghosts) ==
    LET hits == Hits(k, ghosts)
        p == hash[Index(k)][First(hits)]
    IN  IF k < 0 \/ hits = {} THEN {}
        ELSE IF p \in ghosts THEN Infos
        ELSE {n.info : n \in At(p)}

\* connect(response), newConnection.
lookup(k) ==
    /\ \E ghosts \in SUBSET (IF k < 0 THEN {} ELSE Dangling(Index(k))) :
          answer' = [key |-> k, found |-> Found(k, ghosts)]
    /\ UNCHANGED <<storage, hash, updates, latest, astray>>

\* The hash table after the oldest of the items is removed: item_list is a reference, so that the
\* chain of the index in use, i, is overwritten by that of the oldest item, and the item is taken
\* out of there.
DropOldest(h, i, items, ghosts) ==
    LET chain == h[Index(Last(items).key)]
        hits == Matches(chain, items, Last(items).key, ghosts)
    IN  [h EXCEPT ![i] = IF hits = {} THEN chain ELSE RemoveAt(chain, First(hits))]

\* An item that is there gets its new value and a new place at the front; the pointer, which is the
\* one at b, goes along.
Repointed(i, b, new) == <<new>> \o RemoveAt(hash[i], b)
Renewed(p, item) ==
    LET at == {m \in DOMAIN storage : storage[m].place = p}
    IN  <<item>> \o IF at = {} THEN storage ELSE RemoveAt(storage, CHOOSE m \in at : TRUE)

\* CUDT::close.  An address whose key is negative is not kept.
update(k, info) ==
    /\ updates < MaxUpdates
    /\ updates' = updates + 1
    /\ IF k < 0 THEN UNCHANGED <<storage, hash, latest, astray>>
       ELSE \E ghosts \in SUBSET UNION {Dangling(j) : j \in DOMAIN hash} :
            LET i == Index(k)
                hits == Hits(k, ghosts)
                item == [place |-> updates', key |-> k, info |-> info]
                longer == <<item>> \o storage
                h == [hash EXCEPT ![i] = <<item.place>> \o @]
            IN  /\ latest' = [latest EXCEPT ![k] = item]
                /\ IF hits # {}
                   THEN /\ storage' = Renewed(hash[i][First(hits)], item)
                        /\ hash' = [hash EXCEPT ![i] = Repointed(i, First(hits), item.place)]
                        /\ UNCHANGED astray
                   ELSE IF Len(longer) >= MaxSize
                   THEN /\ storage' = Front(longer)
                        /\ hash' = DropOldest(h, i, longer, ghosts)
                        /\ astray' = (astray \/ Index(Last(longer).key) # i)
                   ELSE storage' = longer /\ hash' = h /\ UNCHANGED astray
    /\ UNCHANGED answer

CacheNext ==
    \E k \in Keys :
        \/ lookup(k)
        \/ \E info \in Infos : update(k, info)

CacheSpec == CacheInit /\ [][CacheNext]_cacheVars
-----------------------------------------------------------------------------
\* Until the oldest item is dropped for one of another index of the hash table, a lookup finds of an
\* address what was stored last for it and for no other, though addresses share an index and items
\* are dropped: the oldest only, when MaxSize - 1 are kept.  Afterwards nothing is promised: see
\* StoredIsFound.
LookupFindsLatest ==
    ~astray =>
        /\ \A i \in DOMAIN hash : Dangling(i) = {}
        /\ \A k \in Keys : Found(k, {}) \subseteq {latest[k].info}
        /\ \A k \in Keys : k >= 0 /\ latest[k].place > 0 /\ Found(k, {}) = {} =>
              /\ Len(storage) = MaxSize - 1
              /\ \A n \in Range(storage) : n.place > latest[k].place

\* cache.h: "update an item in the cache, or insert one if it doesn't exist; oldest item may be
\* removed": what has just been stored can be found, as long as there is room for one.
StoredIsFound ==
    \A k \in Keys : k >= 0 /\ MaxSize > 1 /\ latest[k].place = updates /\ updates > 0 => Hits(k, {}) # {}
=============================================================================
