------------------------------- MODULE KadJoin -------------------------------
(***************************************************************************)
(* How a node gets into the network and keeps its table fresh: Join,       *)
(* JoinFindComplete and RefreshAllBuckets of src/KadOpMgr.h over the       *)
(* routing table of KadRtNode.  The thread that called Join, the listener  *)
(* thread, which adds contacts, and the thread of mPeriodicTimers meet at  *)
(* the table.  What a lookup does between Find and its handler is          *)
(* KadLookup's: here it completes at some time or never does.              *)
(***************************************************************************)
EXTENDS KadRtNode

CONSTANTS
    Bsp,                \* the bootstrap addresses given to Join
    TIMEOUT_RESPONSE,   \* KADEMLIA_TIMEOUT_RESPONSE, in ms
    DELAY_MAX           \* delayMax, in ms

ASSUME DelayAssumption == TIMEOUT_RESPONSE \in Nat \ {0} /\ DELAY_MAX \in Nat

VARIABLES
    stage,         \* where Join is: start, ping, sleep, find, done
    delay,      \* how long Join sleeps after its pings
    count,      \* contacts, as Join last counted them
    self,       \* the lookup of LocalId: none, running, complete
    level,      \* i of RefreshAllBuckets; 0 while the timer waits
    searched    \* distances RefreshAllBuckets searched for in this pass

tableVars == <<table, stage, delay, count, self, level, searched>>
joinVars == <<stage, delay, count>>
refreshVars == <<level, searched>>

JoinInit ==
    /\ table = [p \in {<<>>} |-> [contacts |-> <<>>, cache |-> <<>>]]
    /\ stage = "start" /\ delay = TIMEOUT_RESPONSE /\ count = 0
    /\ self = "none"
    /\ level = 0 /\ searched = {}

-----------------------------------------------------------------------------
(* Join *)

CountContacts == Cardinality(Contacts)

\* With no bootstrap address Join returns without a word; otherwise it counts
\* the contacts it has.
JoinStart ==
    /\ stage = "start"
    /\ count' = IF Bsp = {} THEN 0 ELSE CountContacts
    /\ stage' = IF Bsp = {} THEN "done" ELSE IF count' > 0 THEN "find" ELSE "ping"
    /\ UNCHANGED <<table, delay, self, refreshVars>>

\* One round: a ping, with no tracker, to every bootstrap address.
JoinPing ==
    /\ stage = "ping" /\ stage' = "sleep"
    /\ UNCHANGED <<table, delay, count, self, refreshVars>>

\* After the sleep the contacts are counted again and the delay grows by half,
\* cut to an integer.
CountBefore == count                                      \* mutant of Recount
Recount == CountContacts
Backoff(d) ==
    LET longer == (d * 3) \div 2
    IN  IF d >= DELAY_MAX THEN d ELSE IF longer > DELAY_MAX THEN DELAY_MAX ELSE longer

JoinWakeAnyway ==                                         \* mutant of JoinWake
    /\ stage = "sleep" /\ stage' = "find"
    /\ count' = Recount
    /\ delay' = Backoff(delay)
    /\ UNCHANGED <<table, self, refreshVars>>
JoinWake ==
    /\ stage = "sleep"
    /\ count' = Recount
    /\ delay' = Backoff(delay)
    /\ stage' = IF count' > 0 THEN "find" ELSE "ping"
    /\ UNCHANGED <<table, self, refreshVars>>

\* Find(LocalId()).
JoinFind ==
    /\ stage = "find" /\ stage' = "done"
    /\ self' = "running"
    /\ UNCHANGED <<table, delay, count, refreshVars>>

\* JoinFindComplete sets the periodic timer: the first pass starts at once.
JoinFindComplete ==
    /\ self = "running" /\ self' = "complete"
    /\ level' = 1 /\ searched' = {}
    /\ UNCHANGED <<table, joinVars>>

-----------------------------------------------------------------------------
(* RefreshAllBuckets *)

\* (rndId | prefix) ^ LocalId() as a distance: Random() with its first i bits
\* cleared, and bit i, from the least significant one, set.
Target(i, rnd) == [b \in 1..ID_BITS |-> IF b = ID_BITS - i THEN 1 ELSE IF b <= i THEN 0 ELSE rnd[b]]

RefreshStep ==
    /\ level \in 1..(ID_BITS - 1)
    /\ \E rnd \in KadId : searched' = searched \cup {Target(level, rnd)}
    /\ level' = level + 1
    /\ UNCHANGED <<table, joinVars, self>>

\* The pass ends; KADEMLIA_REFRESH later the timer starts the next one.
RefreshFinished == level = ID_BITS

RefreshAgain ==
    /\ RefreshFinished
    /\ level' = 1 /\ searched' = {}
    /\ UNCHANGED <<table, joinVars, self>>

-----------------------------------------------------------------------------
(* What the other threads do to the table *)

\* RecieveCbk of any message, be it the PONG or a node's own request: the sender
\* is added and, if it was stale, alive again.
Revived(s, id) == [i \in DOMAIN s |-> IF s[i].id = id /\ IsStale(s[i]) THEN Contact(id) ELSE s[i]]

Receive(id) ==
    /\ LET t == Grown(table, id)
           b == Put(t[Leaf(t, id)], id)
       IN  table' = [t EXCEPT ![Leaf(t, id)] = [contacts |-> Revived(b.contacts, id),
                                                cache    |-> Revived(b.cache, id)]]
    /\ UNCHANGED <<joinVars, self, refreshVars>>

\* The answer to a lookup names a node.
Learn(id) ==
    /\ self # "none"
    /\ AddNode(id)
    /\ UNCHANGED <<joinVars, self, refreshVars>>

\* Requests are sent by lookups only: none fails before the first one.
LookupNote ==
    /\ self # "none"
    /\ Note
    /\ UNCHANGED <<joinVars, self, refreshVars>>

JoinNextOver(ids) ==
    \/ JoinStart \/ JoinPing \/ JoinWake \/ JoinFind \/ JoinFindComplete
    \/ RefreshStep \/ RefreshAgain
    \/ \E id \in ids : Receive(id) \/ Learn(id)
    \/ LookupNote

JoinNext == JoinNextOver(Ids)

\* Join's thread and the timer thread run; a message may never come, and a
\* lookup may never call its handler.
JoinFairness == /\ WF_tableVars(JoinStart) /\ WF_tableVars(JoinPing) /\ WF_tableVars(JoinWake) /\ WF_tableVars(JoinFind)
            /\ WF_tableVars(RefreshStep) /\ WF_tableVars(RefreshAgain)

JoinSpec == JoinInit /\ [][JoinNext]_tableVars /\ JoinFairness

-----------------------------------------------------------------------------
(* Properties *)

\* Types; the delay grows from the response timeout to delayMax and not above.
JoinTypeOK ==
    /\ stage \in {"start", "ping", "sleep", "find", "done"}
    /\ delay \in TIMEOUT_RESPONSE..DELAY_MAX
    /\ count \in 0..Cardinality(Ids)
    /\ self \in {"none", "running", "complete"}
    /\ level \in 0..ID_BITS /\ searched \subseteq KadId

\* Join starts its lookup only over a table in which FindClosest finds somebody,
\* whatever the other threads do in between: this lookup cannot hang at Start.
SelfLookupAsksSomeone == stage = "find" => FindClosest(LocalId, BUCKET_SIZE) # <<>>

\* Whichever way the first contact comes, Join sees it and ends.
JoinEnds == <>(CountContacts > 0) => <>(stage = "done")

\* KadConfig.h: "The time after which an otherwise non-accessed bucket must be
\* refreshed": some pass can search in every bucket that has contacts.
EveryBucketIsRefreshed ==
    \A p \in DOMAIN table : table[p].contacts # <<>> =>
        \E i \in 1..(ID_BITS - 1), rnd \in KadId : Prefix(Target(i, rnd), Len(p)) = p
=============================================================================
