---------------------------- MODULE KadReqTracker ----------------------------
(***************************************************************************)
(* Request tracking of KadOpMgr (src/KadOpMgr.h): the ReqTracker objects,  *)
(* the list mOps of pointers to them, and the one-shot timers that carry   *)
(* such a pointer as their argument.  KadLookup takes it for granted that  *)
(* an outstanding request ends exactly once; this module shows how.        *)
(*                                                                         *)
(* Three threads meet here: whoever calls Find, the listener thread        *)
(* (HandleResponse) and the timer thread (HandleTimeout).  The handlers    *)
(* run under mLock, each one an action; but the timer thread takes an      *)
(* expired timer out of its queue before it waits for mLock, so a timer    *)
(* may be in the air (firing) while its tracker is answered, deleted, and  *)
(* its address used again by new.                                          *)
(***************************************************************************)
EXTENDS Naturals

CONSTANTS
    Req,        \* the ReqTracker objects ever created
    Addr,       \* the heap addresses they may get
    MsgId,      \* the message ids random() may return
    None        \* no tracker at this address

ASSUME NoneAssumption == None \notin Req
ASSUME MsgIdAssumption == MsgId \subseteq Nat

VARIABLES
    mOps,       \* KadOpMgr::mOps: the addresses of the outstanding trackers
    tracker,    \* the heap: the tracker at each address
    mMsgId,     \* ReqTracker::mMsgId
    armed,      \* timers as <<argument, the request it was set for>>
    firing,     \* the timer the timer thread took out and did not handle yet
    outcome,    \* what became of each request
    elapsed     \* history: the requests whose own timer ran out

vars == <<mOps, tracker, mMsgId, armed, firing, outcome, elapsed>>

Unsent == {r \in Req : outcome[r] = "unsent"}
Free == {a \in Addr : tracker[a] = None}

-----------------------------------------------------------------------------
(* Actions *)

\* new ReqTracker and SendRequest for every r of S: an address that is free, a
\* random id, an entry of mOps and an armed timer.
Placed(at, old) == [a \in Addr |-> IF \E r \in DOMAIN at : at[r] = a
                                   THEN CHOOSE r \in DOMAIN at : at[r] = a ELSE old[a]]
Injective(at) == \A r, q \in DOMAIN at : at[r] = at[q] => r = q
Timers(at) == {<<at[r], r>> : r \in DOMAIN at}

SentWith(at, id) == [r \in Req |-> IF r \in DOMAIN at THEN id[r] ELSE mMsgId[r]]

SendRequest(S) ==
    /\ \E at \in [S -> Free], id \in [S -> MsgId] :
         /\ Injective(at)
         /\ mOps' = mOps \cup {at[r] : r \in S}
         /\ tracker' = Placed(at, tracker)
         /\ mMsgId' = SentWith(at, id)
         /\ armed' = armed \cup Timers(at)
    /\ outcome' = [r \in Req |-> IF r \in S THEN "pending" ELSE outcome[r]]
    /\ UNCHANGED <<firing, elapsed>>

\* The tracker at a leaves mOps, its handler runs and sends the requests S,
\* and only then the tracker is deleted: S cannot get its address.
Removed(a) == mOps \ {a}
Leaked(a, heap) == heap                                   \* mutant of Deleted
Deleted(a, heap) == [heap EXCEPT ![a] = None]

EndAgain(a, how, timers, S) ==                            \* mutant of End
    /\ \E at \in [S -> Free], id \in [S -> MsgId] :
         /\ Injective(at)
         /\ mOps' = mOps \cup {at[r] : r \in S}
         /\ tracker' = Placed(at, tracker)
         /\ mMsgId' = SentWith(at, id)
         /\ armed' = timers \cup Timers(at)
    /\ outcome' = [r \in Req |-> IF r = tracker[a] THEN how
                                 ELSE IF r \in S THEN "pending" ELSE outcome[r]]

End(a, how, timers, S) ==
    /\ \E at \in [S -> Free], id \in [S -> MsgId] :
         /\ Injective(at)
         /\ mOps' = Removed(a) \cup {at[r] : r \in S}
         /\ tracker' = Deleted(a, Placed(at, tracker))
         /\ mMsgId' = SentWith(at, id)
         /\ armed' = timers \cup Timers(at)
    /\ outcome' = [r \in Req |-> IF r = tracker[a] THEN how
                                 ELSE IF r \in S THEN "pending" ELSE outcome[r]]

\* KadOpMgr::HandleResponse: the tracker is found by the message id alone; id 0
\* is not looked up.  Of several with one id the first is found: any, here.
\* CancelTimer takes the timers with this argument out, but not one in the air.
CancelAll(a) == {}                                        \* mutant of CancelTimer
CancelTimer(a) == {t \in armed : t[1] # a}

HandleResponse(m, S) ==
    /\ m # 0
    /\ \E a \in mOps : mMsgId[tracker[a]] = m /\ End(a, "answered", CancelTimer(a), S)
    /\ UNCHANGED <<firing, elapsed>>

\* The single timer thread takes an expired timer out of its queue.
Expire(t) ==
    /\ t \in armed /\ firing = {}
    /\ armed' = armed \ {t} /\ firing' = {t}
    /\ elapsed' = elapsed \cup {t[2]}
    /\ UNCHANGED <<mOps, tracker, mMsgId, outcome>>

\* KadOpMgr::HandleTimeout: the tracker is looked for by its address.
HandleTimeout(t, S) ==
    /\ t \in firing /\ firing' = {}
    /\ IF t[1] \in mOps
       THEN End(t[1], "timedout", armed, S)
       ELSE S = {} /\ UNCHANGED <<mOps, tracker, mMsgId, armed, outcome>>
    /\ UNCHANGED elapsed

Init ==
    /\ mOps = {}
    /\ tracker = [a \in Addr |-> None]
    /\ mMsgId = [r \in Req |-> 0]
    /\ armed = {} /\ firing = {}
    /\ outcome = [r \in Req |-> "unsent"]
    /\ elapsed = {}

Next ==
    \/ \E S \in SUBSET Unsent : SendRequest(S)
    \/ \E m \in MsgId, S \in SUBSET Unsent : HandleResponse(m, S)
    \/ \E t \in armed : Expire(t)
    \/ \E t \in firing, S \in SUBSET Unsent : HandleTimeout(t, S)

\* Timers run out and the timer thread gets the lock; an answer may never come.
Fairness == /\ \A t \in Addr \X Req : WF_vars(Expire(t))
            /\ WF_vars(\E t \in firing, S \in SUBSET Unsent : HandleTimeout(t, S))

Spec == Init /\ [][Next]_vars /\ Fairness

-----------------------------------------------------------------------------
(* Properties *)

\* Types, and the timer thread is busy with one timer at most.
TypeOK ==
    /\ mOps \subseteq Addr
    /\ tracker \in [Addr -> Req \cup {None}]
    /\ mMsgId \in [Req -> Nat]
    /\ armed \subseteq Addr \X Req
    /\ firing \subseteq Addr \X Req /\ \A t, u \in firing : t = u
    /\ outcome \in [Req -> {"unsent", "pending", "answered", "timedout"}]
    /\ elapsed \subseteq Req

\* mOps, which the handlers dereference, the heap and the pending requests
\* agree: no dangling pointer, no leaked tracker, no request at two addresses.
TrackersAgree ==
    /\ \A a \in Addr : a \in mOps <=> tracker[a] # None
    /\ \A a, b \in mOps : tracker[a] = tracker[b] => a = b
    /\ \A r \in Req : outcome[r] = "pending" <=> \E a \in mOps : tracker[a] = r

\* However timers in the air and reused addresses mix, every outstanding
\* request has a timer of its own still to come.
OutstandingIsTimed ==
    \A a \in mOps : <<a, tracker[a]>> \in armed \cup firing

\* Every request that was sent ends, be it by another one's timer.
EveryRequestEnds ==
    \A r \in Req : outcome[r] = "pending" ~> outcome[r] \in {"answered", "timedout"}

\* KadConfig.h: "If no reply received from a node in this period (ms) consider
\* the node unresponsive": not earlier.
UnresponsiveAfterPeriod ==
    \A r \in Req : outcome[r] = "timedout" => r \in elapsed

\* The tracking keeps the promise of KadRequest.
Contract == INSTANCE KadRequest
ContractSpec == Contract!Spec
=============================================================================
