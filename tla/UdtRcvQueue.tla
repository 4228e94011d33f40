----------------------------- MODULE UdtRcvQueue -----------------------------
(***************************************************************************)
(* CRcvQueue of udt4 (queue.cpp): the worker of one UDP port hands the     *)
(* packets that arrive to the sockets of the port and drives their timers; *)
(* with it CRcvUList (the sockets, least recently served first), CHash     *)
(* (the sockets by their id), the entries that threads hand over, the      *)
(* requests to connect (CRendezvousQueue) and the packets kept for the     *)
(* threads that wait for an answer.                                        *)
(*                                                                         *)
(* The worker alone touches the list and the hash.  A time stamp is old    *)
(* when it is more than 100 ms back.  A packet is an answer to a request   *)
(* or another one.                                                         *)
(***************************************************************************)
EXTENDS Integers, Sequences, SequencesExt, FiniteSets

CONSTANTS
    Sockets,      \* ids of the sockets, a set of positive numbers
    HashSize,     \* m_iHashSize (1024)
    MaxStored     \* packets kept for one thread (17)

VARIABLES
    udt,          \* of each socket: its phase, m_bSynRecving, m_bOnList
    newEntry,     \* m_vNewEntry
    rcvUList,     \* CRcvUList: [u, old]
    bucket,       \* CHash: the ids in each bucket
    requests,     \* m_lRendezvousID
    stored,       \* m_mBuffer: the packets kept for each id
    caller,       \* what the thread that connects a socket is doing
    storing       \* the id the worker is about to store a packet for, the packet, or none

rcvQueueVars == <<udt, newEntry, rcvUList, bucket, requests, stored, caller, storing>>

Packets == {"answer", "other"}
Nothing == [id |-> 0, packet |-> "other"]

RcvQueueInit ==
    /\ udt = [u \in Sockets |-> [phase |-> "new", async |-> FALSE, onList |-> FALSE]]
    /\ newEntry = <<>> /\ rcvUList = <<>> /\ requests = <<>>
    /\ bucket = [b \in 0 .. HashSize - 1 |-> <<>>]
    /\ stored = [u \in Sockets |-> <<>>]
    /\ caller = [u \in Sockets |-> "out"]
    /\ storing = Nothing

Alive(u) == udt[u].phase = "connected"
Listed == {rcvUList[i].u : i \in DOMAIN rcvUList}

\* CHash: each bucket is a list, the latest socket first; remove takes the first entry of an id.
Hash(u) == u % HashSize
lookup(u) == u \in Range(bucket[Hash(u)])
HashInsert(u) == bucket' = [bucket EXCEPT ![Hash(u)] = <<u>> \o @]
HashRemove(u) == bucket' = [bucket EXCEPT ![Hash(u)] = RemoveFirst(@, u)]

\* CRcvUList: always inserted at the end with a new time stamp, and moved there by update.
ListInsert(list, u) == Append(list, [u |-> u, old |-> FALSE])
ListRemove(list, u) == RemoveAt(list, CHOOSE i \in DOMAIN list : list[i].u = u)
update(list, u) ==
    IF \E i \in DOMAIN list : list[i].u = u THEN ListInsert(ListRemove(list, u), u) ELSE list

\* CRendezvousQueue: the requests in the order they were made; remove takes the first one.
retrieve(u) == u \in Range(requests)
RequestRemove(u) == requests' = RemoveFirst(requests, u)

\* m_vNewEntry: the sockets that wait for the worker to insert them.
setNewEntry(u) == newEntry' = Append(newEntry, u)
ifNewEntry == newEntry # <<>>

-----------------------------------------------------------------------------
\* CUDT::connect(addr): a request is registered; m_bSynRecving decides who takes the answer.
registerConnector(u, async) ==
    /\ udt[u].phase = "new"
    /\ udt' = [udt EXCEPT ![u] = [@ EXCEPT !.phase = "connecting", !.async = async]]
    /\ requests' = Append(requests, u)
    /\ caller' = IF async THEN caller ELSE [caller EXCEPT ![u] = "recvfrom"]
    /\ UNCHANGED <<newEntry, rcvUList, bucket, stored, storing>>

\* The answer is there: connect(response) takes the request and what is stored for it away, and
\* hands the socket to the worker.
Connected(u) ==
    /\ udt' = [udt EXCEPT ![u] = [@ EXCEPT !.phase = "connected", !.onList = TRUE]]
    /\ RequestRemove(u)
    /\ setNewEntry(u)

\* recvfrom takes the first packet stored, or waits.  A packet that is no answer ends connect.
recvfrom(u) ==
    /\ caller[u] = "recvfrom"
    /\ IF stored[u] = <<>>
       THEN caller' = [caller EXCEPT ![u] = "wait"] /\ UNCHANGED <<udt, requests, newEntry, stored>>
       ELSE IF Head(stored[u]) = "answer" /\ udt[u].phase = "connecting"
       THEN /\ Connected(u)
            /\ stored' = [stored EXCEPT ![u] = <<>>] /\ caller' = [caller EXCEPT ![u] = "out"]
       ELSE /\ stored' = [stored EXCEPT ![u] = Tail(@)] /\ caller' = [caller EXCEPT ![u] = "out"]
            /\ UNCHANGED <<udt, requests, newEntry>>
    /\ UNCHANGED <<rcvUList, bucket, storing>>

\* A second is over: connect looks again, or gives up when its time or the socket is over.
WaitEnds(u) ==
    /\ caller[u] = "wait"
    /\ caller' = [caller EXCEPT ![u] = IF udt[u].phase = "connecting" THEN "recvfrom" ELSE "out"]
    /\ UNCHANGED <<udt, newEntry, rcvUList, bucket, requests, stored, storing>>

\* close, or a connection that breaks; close takes a request back.
Ends(u) ==
    /\ udt[u].phase \in {"connecting", "connected", "expired"}
    /\ udt' = [udt EXCEPT ![u].phase = "closed"]
    /\ RequestRemove(u)
    /\ stored' = IF udt[u].phase # "connected" THEN [stored EXCEPT ![u] = <<>>] ELSE stored
    /\ UNCHANGED <<newEntry, rcvUList, bucket, caller, storing>>

-----------------------------------------------------------------------------
\* The worker's loop begins with the sockets handed over.
getNewEntry ==
    /\ storing = Nothing /\ ifNewEntry
    /\ LET u == Head(newEntry) IN rcvUList' = ListInsert(rcvUList, u) /\ HashInsert(u)
    /\ newEntry' = Tail(newEntry)
    /\ UNCHANGED <<udt, requests, stored, caller, storing>>

\* A packet for a socket in the hash: the socket handles it if it is alive, and its timers.
Deliver(u) ==
    /\ storing = Nothing /\ lookup(u) /\ Alive(u)
    /\ rcvUList' = update(rcvUList, u)
    /\ UNCHANGED <<udt, newEntry, bucket, requests, stored, caller, storing>>

\* A packet for a socket with a request: kept for the thread that waits, or handled at once.
Answer(u, p) ==
    /\ storing = Nothing /\ ~lookup(u) /\ retrieve(u)
    /\ IF ~udt[u].async THEN storing' = [id |-> u, packet |-> p] /\ UNCHANGED <<udt, requests, newEntry, stored>>
       ELSE /\ p = "answer" /\ udt[u].phase = "connecting"
            /\ Connected(u)
            /\ stored' = [stored EXCEPT ![u] = <<>>] /\ UNCHANGED storing
    /\ UNCHANGED <<rcvUList, bucket, caller>>

\* The first packet of an id wakes one of the threads that wait, whichever id it waits for.
storePkt ==
    LET u == storing.id
        waiting == {v \in Sockets : caller[v] = "wait"}
    IN  /\ storing # Nothing
        /\ stored' = IF Len(stored[u]) >= MaxStored THEN stored
                     ELSE [stored EXCEPT ![u] = Append(@, storing.packet)]
        /\ IF stored[u] = <<>> /\ waiting # {}
           THEN \E v \in waiting : caller' = [caller EXCEPT ![v] = "recvfrom"]
           ELSE UNCHANGED caller
        /\ storing' = Nothing
        /\ UNCHANGED <<udt, newEntry, rcvUList, bucket, requests>>

\* mutant of TimerCheck: a dead socket stays in the hash
TimerCheckHashed ==
    /\ storing = Nothing /\ rcvUList # <<>> /\ Head(rcvUList).old
    /\ LET u == Head(rcvUList).u
       IN  IF Alive(u) THEN rcvUList' = update(rcvUList, u) /\ UNCHANGED <<bucket, udt>>
           ELSE /\ rcvUList' = ListRemove(rcvUList, u)
                /\ udt' = [udt EXCEPT ![u].onList = FALSE]
                /\ UNCHANGED bucket
    /\ UNCHANGED <<newEntry, requests, stored, caller, storing>>

\* mutant of TimerCheck: a socket whose timers have run keeps its place
TimerCheckInPlace ==
    /\ storing = Nothing /\ rcvUList # <<>> /\ Head(rcvUList).old
    /\ LET u == Head(rcvUList).u
       IN  IF Alive(u) THEN rcvUList' = [rcvUList EXCEPT ![1].old = FALSE] /\ UNCHANGED <<bucket, udt>>
           ELSE /\ HashRemove(u)
                /\ rcvUList' = ListRemove(rcvUList, u)
                /\ udt' = [udt EXCEPT ![u].onList = FALSE]
    /\ UNCHANGED <<newEntry, requests, stored, caller, storing>>

\* TIMER_CHECK looks at the first of the list: one whose time stamp is old runs its timers, or
\* leaves the hash and the list if it is dead.
TimerCheck ==
    /\ storing = Nothing /\ rcvUList # <<>> /\ Head(rcvUList).old
    /\ LET u == Head(rcvUList).u
       IN  IF Alive(u) THEN rcvUList' = update(rcvUList, u) /\ UNCHANGED <<bucket, udt>>
           ELSE /\ HashRemove(u)
                /\ rcvUList' = ListRemove(rcvUList, u)
                /\ udt' = [udt EXCEPT ![u].onList = FALSE]
    /\ UNCHANGED <<newEntry, requests, stored, caller, storing>>

\* updateConnStatus: a request whose time is over stays, but its socket connects no more.
updateConnStatus(u) ==
    /\ storing = Nothing /\ retrieve(u) /\ udt[u].phase = "connecting"
    /\ udt' = [udt EXCEPT ![u].phase = "expired"]
    /\ UNCHANGED <<newEntry, rcvUList, bucket, requests, stored, caller, storing>>

-----------------------------------------------------------------------------
\* Time passes: what was served longest ago gets old first.
StampsGetOld(k) ==
    /\ k \in DOMAIN rcvUList /\ ~rcvUList[k].old
    /\ rcvUList' = [i \in DOMAIN rcvUList |-> [rcvUList[i] EXCEPT !.old = @ \/ i <= k]]
    /\ UNCHANGED <<udt, newEntry, bucket, requests, stored, caller, storing>>

RcvQueueNext ==
    \/ getNewEntry \/ storePkt \/ TimerCheck
    \/ \E k \in DOMAIN rcvUList : StampsGetOld(k)
    \/ \E u \in Sockets :
          \/ recvfrom(u) \/ WaitEnds(u) \/ Ends(u) \/ Deliver(u) \/ updateConnStatus(u)
          \/ \E async \in BOOLEAN : registerConnector(u, async)
          \/ \E p \in Packets : Answer(u, p)

\* Between two packets the worker takes the sockets handed over and looks at the timers.
RcvQueueFairness ==
    /\ SF_rcvQueueVars(getNewEntry) /\ WF_rcvQueueVars(storePkt) /\ SF_rcvQueueVars(TimerCheck)
    /\ \A u \in Sockets : WF_rcvQueueVars(recvfrom(u)) /\ WF_rcvQueueVars(WaitEnds(u))
    /\ WF_rcvQueueVars(\E k \in DOMAIN rcvUList : StampsGetOld(k))

RcvQueueSpec == RcvQueueInit /\ [][RcvQueueNext]_rcvQueueVars /\ RcvQueueFairness
-----------------------------------------------------------------------------
\* The hash and the list hold the same sockets, each once and in its bucket; a socket in them, or
\* on its way there, has m_bOnList set, which keeps the collector from deleting it; and no packets
\* are kept for a socket that is not connected yet and has no request.
ListedIsKept ==
    /\ Len(rcvUList) = Cardinality(Listed)
    /\ \A u \in Sockets :
          /\ u \in Listed <=> lookup(u)
          /\ (u \in Listed \/ u \in Range(newEntry)) <=> udt[u].onList
          /\ ~(u \in Listed /\ u \in Range(newEntry))
          /\ udt[u].phase = "new" => stored[u] = <<>>

\* The timers of a socket whose time stamp is old run in the end, or the socket leaves the list,
\* however many packets the other sockets get: the list is in the order of the time stamps.  A
\* socket that is closed leaves it in the end, and the worker's hands: the collector waits for that.
TimersRun ==
    \A u \in Sockets :
        LET late == \E i \in DOMAIN rcvUList : rcvUList[i].u = u /\ rcvUList[i].old
        IN  (late ~> ~late) /\ (udt[u].phase = "closed" ~> ~udt[u].onList)
=============================================================================
