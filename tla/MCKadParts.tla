----------------------------- MODULE MCKadParts -----------------------------
(***************************************************************************)
(* The parts of a node beside the lookup, one in each behaviour: the       *)
(* routing table and Join (MCKadTable), the requests under way             *)
(* (KadReqTracker), the files from run to run (KadSession), the arithmetic *)
(* of ids (KadNodeIdArith), and the threads of KadOverIP.h (KadListener,   *)
(* KadConnectionMgr).  A part that is not chosen stays as it is at first.  *)
(***************************************************************************)
EXTENDS MCKadTable, KadReqTracker, KadSession, KadNodeIdArith, KadListener, KadConnectionMgr

othersVars == <<vars, sessionVars, mData, listenerVars, mgrVars>>

PartsInit ==
    /\ part \in {"class", "node", "join", "requests", "session", "ids", "listener", "connections"}
    /\ JoinInit /\ Init /\ SessionInit /\ ArithInit /\ ListenerInit /\ MgrInit

PartsNext ==
    \/ TableNext /\ UNCHANGED othersVars
    \/ /\ UNCHANGED <<part, tableVars>>
       /\ \/ part = "requests" /\ Next /\ UNCHANGED <<sessionVars, mData, listenerVars, mgrVars>>
          \/ part = "session" /\ SessionNext /\ UNCHANGED <<vars, mData, listenerVars, mgrVars>>
          \/ part = "ids" /\ ArithNext /\ UNCHANGED <<vars, sessionVars, listenerVars, mgrVars>>
          \/ part = "listener" /\ ListenerNext /\ UNCHANGED <<vars, sessionVars, mData, mgrVars>>
          \/ part = "connections" /\ MgrNext /\ UNCHANGED <<vars, sessionVars, mData, listenerVars>>

PartsSpec ==
    /\ PartsInit /\ [][PartsNext]_<<part, tableVars, othersVars>>
    /\ (part = "join" => JoinFairness) /\ Fairness /\ ListenerFairness /\ MgrFairness

\* Add, Sub, the order, SetBits and PowerOfTwo of ids compute the numbers they stand for, and Shl
\* does up to a byte.
IdsAreNumbers == part = "ids" => ArithmeticAgrees

\* Both destructors of KadOverIP.h return as far as the code can see to it, and no handler runs
\* after them.
DestructorsReturn == ListenerEnds /\ MgrEnds
=============================================================================
