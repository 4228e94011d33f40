----------------------------- MODULE KadListener -----------------------------
(***************************************************************************)
(* Listener of src/KadOverIP.h: the thread that hands datagrams to a       *)
(* handler, the network, and the destructor that stops the thread.         *)
(***************************************************************************)
EXTENDS Integers

CONSTANTS
    MaxDatagrams    \* bound: datagrams sent to the listener

VARIABLES
    mListenerThread,    \* [pc, len], len of what RecvFrom has returned
    datagrams,          \* what is under way to its socket; the wake lost; sent: the bound
    listenerEnd         \* the destructor: "none", "wake", "wait", "gone"

listenerVars == <<mListenerThread, datagrams, listenerEnd>>

ListenerInit ==
    /\ mListenerThread = [pc |-> "off", len |-> 0]
    /\ datagrams = [data |-> 0, wakes |-> 0, lost |-> FALSE, sent |-> 0] /\ listenerEnd = "none"

\* The constructor starts the thread unless Bind has failed.
ListenerStart ==
    /\ mListenerThread.pc = "off" /\ listenerEnd = "none"
    /\ mListenerThread' = [pc |-> "recv", len |-> 0]
    /\ UNCHANGED <<datagrams, listenerEnd>>

Datagram ==
    /\ datagrams.sent < MaxDatagrams
    /\ datagrams' = [datagrams EXCEPT !.data = @ + 1, !.sent = @ + 1]
    /\ UNCHANGED <<mListenerThread, listenerEnd>>

\* RecvFrom returns what has come, in any order; an empty datagram only brings it round.
RecvFrom ==
    /\ mListenerThread.pc = "recv"
    /\ \/ /\ datagrams.data > 0 /\ datagrams' = [datagrams EXCEPT !.data = @ - 1]
          /\ \E len \in 0 .. 1 : mListenerThread' = [pc |-> "got", len |-> len]
       \/ /\ datagrams.wakes > 0 /\ datagrams' = [datagrams EXCEPT !.wakes = @ - 1]
          /\ mListenerThread' = [pc |-> "got", len |-> 6]
    /\ UNCHANGED listenerEnd

\* IsStopping
ListenerStopping == listenerEnd # "none"

Got ==
    /\ mListenerThread.pc = "got"
    /\ mListenerThread' = [pc |-> IF ListenerStopping THEN "ended"
                                  ELSE IF mListenerThread.len > 0 THEN "callback" ELSE "recv", len |-> 0]
    /\ UNCHANGED <<datagrams, listenerEnd>>

\* The handler has returned.
Handled ==
    /\ mListenerThread.pc = "callback"
    /\ mListenerThread' = [pc |-> IF ListenerStopping THEN "ended" ELSE "recv", len |-> 0]
    /\ UNCHANGED <<datagrams, listenerEnd>>

\* The destructor: Stop; a datagram to itself, which the network may lose; Wait.
ListenerStop ==
    /\ listenerEnd = "none" /\ listenerEnd' = "wake"
    /\ UNCHANGED <<mListenerThread, datagrams>>

ListenerWake ==
    /\ listenerEnd = "wake" /\ listenerEnd' = "wait"
    /\ datagrams' = [datagrams EXCEPT !.wakes = 1]
    /\ UNCHANGED mListenerThread

WakeIsLost ==
    /\ datagrams.wakes = 1 /\ datagrams' = [datagrams EXCEPT !.wakes = 0, !.lost = TRUE]
    /\ UNCHANGED <<mListenerThread, listenerEnd>>

ListenerGone ==
    /\ listenerEnd = "wait" /\ mListenerThread.pc \in {"off", "ended"}
    /\ listenerEnd' = "gone"
    /\ UNCHANGED <<mListenerThread, datagrams>>

ListenerNext == ListenerStart \/ Datagram \/ RecvFrom \/ Got \/ Handled \/ ListenerStop \/ ListenerWake
                \/ WakeIsLost \/ ListenerGone

\* The threads run; nobody has to send or to stop anything.
ListenerFairness == WF_listenerVars(RecvFrom \/ Got \/ Handled) /\ WF_listenerVars(ListenerWake \/ ListenerGone)

ListenerSpec == ListenerInit /\ [][ListenerNext]_listenerVars /\ ListenerFairness
-----------------------------------------------------------------------------
\* No handler runs when the destructor has returned, and it returns, unless the datagram that is to
\* wake the thread is lost.
ListenerEnds ==
    /\ [](listenerEnd = "gone" => mListenerThread.pc \in {"off", "ended"})
    /\ listenerEnd = "wake" ~> (listenerEnd = "gone" \/ datagrams.lost)
=============================================================================
