------------------------------ MODULE KadRequest ------------------------------
(***************************************************************************)
(* What the request tracking of a node promises to a lookup: a request     *)
(* that was sent ends at most once, answered or timed out, and an ended    *)
(* request stays ended.  The handler of the request that ends may send     *)
(* others in the same critical section.                                    *)
(***************************************************************************)
CONSTANT Req            \* the ReqTracker objects ever created
VARIABLE outcome        \* what became of each: see Outcomes

Outcomes == {"unsent", "pending", "answered", "timedout"}
Unsent == {r \in Req : outcome[r] = "unsent"}

Init == outcome = [r \in Req |-> "unsent"]

Send(S) ==
    /\ S \subseteq Unsent
    /\ outcome' = [r \in Req |-> IF r \in S THEN "pending" ELSE outcome[r]]

End(r, how, S) ==
    /\ outcome[r] = "pending"
    /\ S \subseteq Unsent
    /\ outcome' = [q \in Req |-> IF q = r THEN how ELSE IF q \in S THEN "pending" ELSE outcome[q]]

Next ==
    \/ \E S \in SUBSET Req : Send(S)
    \/ \E r \in Req, how \in {"answered", "timedout"}, S \in SUBSET Req : End(r, how, S)

Spec == Init /\ [][Next]_outcome
=============================================================================
