---------------------------- MODULE MCUdtWorkers ----------------------------
(***************************************************************************)
(* The two threads of a UDP port, one in each behaviour: the one that      *)
(* sends (UdtSndQueue), the one that receives (UdtRcvQueue), and the sleep *)
(* of the first between two packets (UdtTimer).  A part that is not chosen *)
(* stays as it is at first.                                                *)
(***************************************************************************)
EXTENDS Integers, FiniteSets

CONSTANTS
    Senders, MaxTime, MaxData, MaxWindow, MaxLosses,    \* of UdtSndQueue
    Receivers, HashSize, MaxStored,                     \* of UdtRcvQueue
    MaxClock, MaxInserts                                \* of UdtTimer

\* The ids of sockets are positive (CUDTUnited::newSocket counts down from a random number), and
\* the hash has a bucket at least.
ASSUME WorkersAssumption == Receivers \subseteq Nat \ {0} /\ HashSize \in Nat \ {0}

VARIABLES
    part,               \* "sending", "receiving" or "sleeping"
    list, now, socket, sender, signalled,
    udt, newEntry, rcvUList, bucket, requests, stored, caller, storing,
    clock, first, m_ullSchedTime, sleeper, interrupted, inserts, event, poller

sendingVars == <<list, now, socket, sender, signalled>>
receivingVars == <<udt, newEntry, rcvUList, bucket, requests, stored, caller, storing>>
sleepingVars == <<clock, first, m_ullSchedTime, sleeper, interrupted, inserts, event, poller>>

SndQueue == INSTANCE UdtSndQueue WITH
    Sockets <- Senders, worker <- sender

RcvQueue == INSTANCE UdtRcvQueue WITH Sockets <- Receivers

Timer == INSTANCE UdtTimer WITH MaxTime <- MaxClock, worker <- sleeper

WorkersInit ==
    /\ part \in {"sending", "receiving", "sleeping"}
    /\ SndQueue!SndQueueInit /\ RcvQueue!RcvQueueInit /\ Timer!TimerInit

WorkersNext ==
    \/ part = "sending" /\ SndQueue!SndQueueNext /\ UNCHANGED <<part, receivingVars, sleepingVars>>
    \/ part = "receiving" /\ RcvQueue!RcvQueueNext /\ UNCHANGED <<part, sendingVars, sleepingVars>>
    \/ part = "sleeping" /\ Timer!TimerNext /\ UNCHANGED <<part, sendingVars, receivingVars>>

WorkersSpec ==
    /\ WorkersInit /\ [][WorkersNext]_<<part, sendingVars, receivingVars, sleepingVars>>
    /\ \/ part = "sending" /\ SndQueue!SndQueueFairness
       \/ part = "receiving" /\ RcvQueue!RcvQueueFairness
       \/ part = "sleeping" /\ Timer!TimerFairness
-----------------------------------------------------------------------------
\* A socket that could send is scheduled and the thread is not left waiting beside it; the list, the
\* hash and m_bOnList of the port agree, which the collector relies on.
ListsAreKept == SndQueue!NobodyIsForgotten /\ RcvQueue!ListedIsKept

\* Whatever a socket has to send is sent.
EverythingIsSent == SndQueue!EverythingIsSent

\* Timers run, and a socket that is closed is let go, however many packets the others get; and
\* an interrupted sleep ends, and what is due is looked at although signals are missed.
TimersRun == RcvQueue!TimersRun /\ Timer!SleepsAreCut /\ Timer!DueIsPopped
=============================================================================
