------------------------------ MODULE KadLookup ------------------------------
(***************************************************************************)
(* The iterative node lookup of one node: KadOpMgr::KadIterativeFindOp of  *)
(* src/KadOpMgr.h, with the request tracking (ReqTracker, SendRequest,     *)
(* HandleResponse, HandleTimeout) it is driven by.                         *)
(*                                                                         *)
(* Several lookups of a node run at once and share the contact objects of  *)
(* the routing table: a timeout seen by one lookup raises the mFailQty     *)
(* that another one orders its sends by, and an answer to one resets it    *)
(* for all.  Every action is one critical section of KadOpMgr::mLock.      *)
(*                                                                         *)
(* The routing table is abstract here: what FindClosest and FindAddContact *)
(* return is chosen among the existing contact objects under the           *)
(* constraints the table guarantees (module KadRtNode).  The network is    *)
(* abstract too: any outstanding request may be answered or may expire.    *)
(***************************************************************************)
EXTENDS Integers, FiniteSets

CONSTANTS
    Contact,      \* KadContact objects (a shared_ptr compares by identity)
    Id,           \* node ids
    IdOf,         \* KadContact::mId: several objects may carry the same id
    Lookup,       \* KadIterativeFindOp objects
    Distance,     \* Distance[o][id] = id ^ mKey of lookup o, as a number
    ALPHA,        \* KADEMLIA_ALPHA
    BUCKET_SIZE,  \* KADEMLIA_BUCKET_SIZE
    STALE         \* KADEMLIA_STALE

ASSUME ContactAssumption == IsFiniteSet(Contact) /\ IdOf \in [Contact -> Id]
ASSUME LookupAssumption == IsFiniteSet(Lookup)
ASSUME DistanceAssumption ==       \* x ^ key is injective in x
    /\ Distance \in [Lookup -> [Id -> Nat]]
    /\ \A o \in Lookup : \A a, b \in Id : Distance[o][a] = Distance[o][b] => a = b
ASSUME LimitAssumption ==
    ALPHA \in Nat \ {0} /\ BUCKET_SIZE \in Nat \ {0} /\ STALE \in Nat \ {0}

VARIABLES
    started,      \* lookups whose Start() has run
    mList,        \* per lookup: the closest contacts known, in the order of Closer
    mBlock,       \* per lookup: contacts not to be asked (again)
    mPendingQty,  \* per lookup: its own count of requests in flight
    mOps,         \* KadOpMgr::mOps, a ReqTracker as <<lookup, mDst>>
    mFailQty,     \* KadContact::mFailQty
    completed,    \* per lookup: how often Complete() called the handler
    answered      \* history, per lookup: contacts whose response it processed

vars == <<started, mList, mBlock, mPendingQty, mOps, mFailQty, completed, answered>>

-----------------------------------------------------------------------------
(* Operators *)

OnePerId(S) == \A c, d \in S : IdOf[c] = IdOf[d] => c = d

Asked(o, ops) == {c \in Contact : <<o, c>> \in ops}

IsStale(fail, c) == fail[c] >= STALE

\* The n first elements of S in the strict order R.
Lowest(S, R, n) == {c \in S : Cardinality({d \in S : <<d, c>> \in R}) < n}

\* mKey.Closer(c->mId, d->mId)
Closer(o, c, d) == Distance[o][IdOf[c]] < Distance[o][IdOf[d]]

CloserOn(o, S) == {p \in S \X S : Closer(o, p[1], p[2])}

\* Send() walks mList once per value of mFailQty below STALE, nearest first.
SendOrder(o, fail, S) ==
    {p \in S \X S : \/ fail[p[1]] < fail[p[2]]
                    \/ fail[p[1]] = fail[p[2]] /\ Closer(o, p[1], p[2])}

Sendable(list, block, fail) == {c \in list \ block : ~IsStale(fail, c)}

ToSendBlocked(o, list, block, fail, qty) ==          \* mutant of ToSend
    LET S == {c \in list : ~IsStale(fail, c)} IN Lowest(S, SendOrder(o, fail, S), qty)

ToSend(o, list, block, fail, qty) ==
    LET S == Sendable(list, block, fail) IN Lowest(S, SendOrder(o, fail, S), qty)

\* Inserting contacts one by one into a list that is sorted and cut at
\* BUCKET_SIZE leaves the BUCKET_SIZE closest ones.
InsertOverBack(o, list, news) ==                     \* mutant of Insert
    LET S == list \cup news IN
    IF news = {} THEN list ELSE Lowest(S, {<<p[2], p[1]>> : p \in CloserOn(o, S)}, BUCKET_SIZE)

Insert(o, list, news) ==
    LET S == list \cup news IN Lowest(S, CloserOn(o, S), BUCKET_SIZE)

\* The contacts of a response that are neither in mBlock nor in mList, by id.
UnknownByObject(o, found) == found \ (mBlock[o] \cup mList[o])   \* mutant of Unknown

Unknown(o, found) ==
    {c \in found : \A d \in mBlock[o] \cup mList[o] : IdOf[c] # IdOf[d]}

-----------------------------------------------------------------------------
(* Actions *)

SendUncounted(o, sent, block, pending, ops) ==                   \* mutant of Send
    /\ mBlock' = [mBlock EXCEPT ![o] = block \cup sent]
    /\ mPendingQty' = [mPendingQty EXCEPT ![o] = pending]
    /\ mOps' = ops \cup ({o} \X sent)

\* Send(): the chosen contacts are blocked, tracked and counted.
Send(o, sent, block, pending, ops) ==
    /\ mBlock' = [mBlock EXCEPT ![o] = block \cup sent]
    /\ mPendingQty' = [mPendingQty EXCEPT ![o] = pending + Cardinality(sent)]
    /\ mOps' = ops \cup ({o} \X sent)

Complete(o, done) ==
    completed' = [completed EXCEPT ![o] = IF done THEN @ + 1 ELSE @]

\* KadOpMgr::Find: the constructor fills mList from FindClosest, which returns
\* at most BUCKET_SIZE distinct contacts and skips the stale ones, then Start
\* sends the first ALPHA requests.  Nothing completes here.
Find(o) ==
    /\ o \notin started
    /\ \E closest \in SUBSET {c \in Contact : ~IsStale(mFailQty, c)} :
         /\ OnePerId(closest)
         /\ Cardinality(closest) <= BUCKET_SIZE
         /\ mList' = [mList EXCEPT ![o] = closest]
         /\ Send(o, ToSend(o, closest, {}, mFailQty, ALPHA), {}, 0, mOps)
    /\ started' = started \cup {o}
    /\ UNCHANGED <<mFailQty, completed, answered>>

\* What OnResponce does to mBlock and mList when the request to c timed out:
\* a contact that is stale leaves the list and stays blocked, another one may
\* be asked again.
KeepBlocked(o, c, fail) == mBlock[o]                             \* mutant of BlockAfterTimeout
BlockAfterTimeout(o, c, fail) ==
    IF IsStale(fail, c) THEN mBlock[o] ELSE mBlock[o] \ {c}

ListAfterTimeout(o, c, fail) ==
    IF IsStale(fail, c) THEN mList[o] \ {c} ELSE mList[o]

FailUncounted(c) == mFailQty                                     \* mutant of Fail
Fail(c) == [mFailQty EXCEPT ![c] = @ + 1]

\* KadOpMgr::HandleTimeout, ReqTracker::OnTimeout, OnResponce(NULL, c).
Timeout(o, c) ==
    /\ <<o, c>> \in mOps
    /\ LET ops   == mOps \ {<<o, c>>}
           fail  == Fail(c)
           list  == ListAfterTimeout(o, c, fail)
           block == BlockAfterTimeout(o, c, fail)
           sent  == ToSend(o, list, block, fail, 1)
       IN  /\ mFailQty' = fail
           /\ IF c \notin mBlock[o]                              \* "Wrong pending"
              THEN mOps' = ops /\ UNCHANGED <<mList, mBlock, mPendingQty, completed>>
              ELSE /\ mList' = [mList EXCEPT ![o] = list]
                   /\ Send(o, sent, block, mPendingQty[o] - 1, ops)
                   /\ Complete(o, sent = {} /\ mPendingQty[o] - 1 = 0)
    /\ UNCHANGED <<started, answered>>

\* KadOpMgr::HandleResponse, ReqTracker::OnResponse, OnResponce(rsp, c).
\* found: the objects FindAddContact returns for the ids of the response,
\* those of mBlock and mList and the node's own and the zero id excepted.
NothingLeftEarly(news, pending) == news = {}                     \* mutant of NothingLeft
NothingLeftInverted(news, pending) == news # {} /\ pending = 0   \* mutant of NothingLeft
NothingLeft(news, pending) == news = {} /\ pending = 0

Respond(o, c, found) ==
    /\ <<o, c>> \in mOps
    /\ LET ops     == mOps \ {<<o, c>>}
           fail    == [mFailQty EXCEPT ![c] = 0]
           pending == mPendingQty[o] - 1
           list    == Insert(o, mList[o], Unknown(o, found))
           news    == list \ mList[o]                            \* insertQty > 0
           sent    == IF news = {} THEN {}
                      ELSE ToSend(o, list, mBlock[o], fail, ALPHA - pending)
       IN  /\ mFailQty' = fail
           /\ IF c \notin mBlock[o]                              \* "Wrong pending"
              THEN mOps' = ops /\ UNCHANGED <<mList, mBlock, mPendingQty, completed, answered>>
              ELSE /\ mList' = [mList EXCEPT ![o] = list]
                   /\ Send(o, sent, mBlock[o], pending, ops)
                   /\ Complete(o, NothingLeft(news, pending))
                   /\ answered' = [answered EXCEPT ![o] = @ \cup {c}]
    /\ UNCHANGED started

\* KadOpMgr::RecieveCbk: any message from a stale contact revives it.
Return(c) ==
    /\ IsStale(mFailQty, c)
    /\ mFailQty' = [mFailQty EXCEPT ![c] = 0]
    /\ UNCHANGED <<started, mList, mBlock, mPendingQty, mOps, completed, answered>>

Init ==
    /\ started = {}
    /\ mList = [o \in Lookup |-> {}]
    /\ mBlock = [o \in Lookup |-> {}]
    /\ mPendingQty = [o \in Lookup |-> 0]
    /\ mOps = {}
    /\ mFailQty = [c \in Contact |-> 0]
    /\ completed = [o \in Lookup |-> 0]
    /\ answered = [o \in Lookup |-> {}]

Next ==
    \/ \E o \in Lookup : Find(o)
    \/ \E o \in Lookup, c \in Contact : Timeout(o, c)
    \/ \E o \in Lookup, c \in Contact :
         \E found \in {S \in SUBSET Contact : OnePerId(S)} : Respond(o, c, found)
    \/ \E c \in Contact : Return(c)

\* SendRequest arms a one-shot timer for every request, so that an outstanding
\* request ends some day.  Nothing else is owed: answers may all be lost.
Fairness == \A o \in Lookup, c \in Contact : WF_vars(Timeout(o, c))

Spec == Init /\ [][Next]_vars /\ Fairness

-----------------------------------------------------------------------------
(* Properties *)

\* Types of the state of a node's lookups.
TypeOK ==
    /\ started \subseteq Lookup
    /\ mList \in [Lookup -> SUBSET Contact]
    /\ mBlock \in [Lookup -> SUBSET Contact]
    /\ mPendingQty \in [Lookup -> Nat]
    /\ mOps \subseteq Lookup \X Contact
    /\ mFailQty \in [Contact -> Nat]
    /\ completed \in [Lookup -> Nat]
    /\ answered \in [Lookup -> SUBSET Contact]

\* The counter each lookup keeps beside mOps always agrees with it, and no
\* lookup has more than ALPHA requests in flight (the X_ASSERT of OnResponce):
\* the ALPHA - mPendingQty and the Send(1) of the two handlers, in any order,
\* never add up to more.
PendingMatchesRequests ==
    \A o \in Lookup : /\ mPendingQty[o] = Cardinality(Asked(o, mOps))
                      /\ mPendingQty[o] <= ALPHA

\* The "Wrong pending" branch of OnResponce is dead: whatever the handlers of
\* a lookup blocked and unblocked, a contact that is being asked is blocked.
\* No contact of the list is in limbo either: blocked, so that it is never
\* asked again, but neither being asked nor answered.
BlockedIsAccounted ==
    \A o \in Lookup : /\ Asked(o, mOps) \subseteq mBlock[o]
                      /\ mBlock[o] \cap mList[o] \subseteq Asked(o, mOps) \cup answered[o]

\* However objects are evicted and created anew, a lookup asks and reports
\* every node id at most once, and reports at most BUCKET_SIZE of them.
OneContactPerId ==
    \A o \in Lookup : /\ OnePerId(mList[o] \cup mBlock[o])
                      /\ Cardinality(mList[o]) <= BUCKET_SIZE

\* The handler is called at most once, and then no request of the lookup is
\* left that could call back into it.
CompletesOnce ==
    \A o \in Lookup : completed[o] > 0 => completed[o] = 1 /\ Asked(o, mOps) = {}

\* Lookups that share a contact overshoot STALE by the requests they already
\* had in flight and by no more.
FailBound ==
    \A c \in Contact :
        mFailQty[c] + Cardinality({o \in Lookup : <<o, c>> \in mOps})
            <= STALE - 1 + Cardinality(Lookup)

\* A contact leaves the list of a lookup only because it went stale or because
\* BUCKET_SIZE closer ones displaced it.
OnlyDisplacedOrStale ==
    [][\A o \in started : \A c \in mList[o] \ mList'[o] :
          \/ mFailQty'[c] >= STALE
          \/ /\ Cardinality(mList'[o]) = BUCKET_SIZE
             /\ \A d \in mList'[o] : Closer(o, d, c)]_vars

\* A contact that answered a lookup is not asked by it again, a completed
\* lookup asks nobody, and its result, which the handler holds by reference,
\* does not change.
NoSecondQuestion ==
    [][\A o \in Lookup :
          /\ Asked(o, mOps') \cap answered[o] = {}
          /\ completed[o] > 0 => mList'[o] = mList[o] /\ Asked(o, mOps') = {}]_vars

\* A lookup falls silent without calling its handler only when nobody is left
\* to ask: every contact of its list is blocked or stale.
SilentOnlyWhenExhausted ==
    [][\A o \in started' :
          /\ mPendingQty'[o] = 0 /\ completed'[o] = 0
          /\ o \notin started \/ mPendingQty[o] > 0
          => Sendable(mList'[o], mBlock'[o], mFailQty') = {}]_vars

\* A lookup does not retry for ever: requests that keep timing out, contacts
\* that come back to life and other lookups that reset their counters included,
\* it comes to rest.
LookupComesToRest == \A o \in Lookup : mPendingQty[o] > 0 ~> mPendingQty[o] = 0

\* KadConfig.h: "Timeout for performing an operation (ms)": a lookup that found
\* somebody to ask ends, with its handler called.
EveryBusyLookupCompletes == \A o \in Lookup : mPendingQty[o] > 0 ~> completed[o] > 0
=============================================================================
