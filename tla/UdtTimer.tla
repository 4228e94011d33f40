------------------------------- MODULE UdtTimer -------------------------------
(***************************************************************************)
(* CTimer of udt4's common.cpp between the threads that use it: the worker *)
(* of CSndQueue sleeps until the first socket on the list is due, and      *)
(* whoever puts an earlier one there interrupts it; select and epoll wait  *)
(* for an event that other threads trigger.                                *)
(*                                                                         *)
(* The list is only the time of its first entry.  Neither condition        *)
(* variable is signalled under its mutex, so that any signal may be missed *)
(* by a thread that is about to wait: a wait ends with a signal or after   *)
(* 10 ms, that is, at any time.                                            *)
(***************************************************************************)
EXTENDS Integers

CONSTANTS
    MaxTime,      \* bound: the clock stops there
    MaxInserts    \* bound: entries put on the list by others than the worker

VARIABLES
    clock,            \* what rdtsc reads
    first,            \* m_llTimeStamp of the first entry, or None
    m_ullSchedTime,
    worker,           \* where the sending thread is, and the time it was given
    interrupted,      \* history: since m_ullSchedTime was set by the thread that sleeps
    inserts,
    event,            \* what a poller looks for is there
    poller            \* "look", "wait" or "done"

timerVars == <<clock, first, m_ullSchedTime, worker, interrupted, inserts, event, poller>>

None == 0
Asleep == worker.pc \in {"look", "wait"}

TimerInit ==
    /\ clock = 1 /\ first = None /\ m_ullSchedTime = 0
    /\ worker = [pc |-> "top", ts |-> None] /\ interrupted = FALSE /\ inserts = 0
    /\ event = FALSE /\ poller = "look"

\* The sleep is over at the present time.
interrupt == m_ullSchedTime' = clock /\ interrupted' = TRUE
NoInterrupt == UNCHANGED <<m_ullSchedTime, interrupted>>

-----------------------------------------------------------------------------
\* insert_ and update: an entry that becomes the first one interrupts.  update makes the first
\* entry due at once.
Insert(ts) ==
    /\ inserts < MaxInserts /\ inserts' = inserts + 1
    /\ IF first = None \/ ts < first THEN first' = ts /\ interrupt
       ELSE UNCHANGED first /\ (NoInterrupt \/ (ts = 1 /\ interrupt))
    /\ UNCHANGED <<clock, worker, event, poller>>

\* remove_: a later entry comes first, or the same, or none.  It interrupts when one entry is left
\* ("the only event has been deleted", says the code).
Remove(ts) ==
    /\ first # None /\ (ts = None \/ ts >= first)
    /\ first' = ts
    /\ IF ts = None THEN NoInterrupt ELSE interrupt \/ NoInterrupt
    /\ UNCHANGED <<clock, worker, inserts, event, poller>>

\* The worker of CSndQueue: the time of the first entry, and whether it is still to come.
getNextProcTime ==
    /\ worker.pc = "top" /\ first # None
    /\ worker' = [pc |-> IF clock < first THEN "sleepto" ELSE "pop", ts |-> first]
    /\ NoInterrupt /\ UNCHANGED <<clock, first, inserts, event, poller>>

\* sleepto: the time is put into a member, so that others can change it, and whoever did so
\* before is overruled.
sleepto ==
    /\ worker.pc = "sleepto"
    /\ m_ullSchedTime' = worker.ts /\ interrupted' = FALSE
    /\ worker' = [worker EXCEPT !.pc = "look"]
    /\ UNCHANGED <<clock, first, inserts, event, poller>>

\* The loop of sleepto ends when the clock has come to the member.
Over == clock >= m_ullSchedTime

Look ==
    /\ worker.pc = "look"
    /\ worker' = [worker EXCEPT !.pc = IF Over THEN "pop" ELSE "wait"]
    /\ NoInterrupt /\ UNCHANGED <<clock, first, inserts, event, poller>>

\* tick, or 10 ms.
WaitEnds ==
    /\ worker.pc = "wait"
    /\ worker' = [worker EXCEPT !.pc = "look"]
    /\ NoInterrupt /\ UNCHANGED <<clock, first, inserts, event, poller>>

\* pop: nothing while the first entry is not due; otherwise it is taken off, sent and put back for
\* now or later, before the others or behind them, or not at all.
pop(ts) ==
    /\ worker.pc = "pop"
    /\ IF first = None \/ clock < first THEN ts = None /\ UNCHANGED first /\ NoInterrupt
       ELSE /\ ts = None \/ ts >= first
            /\ first' = ts
            /\ NoInterrupt \/ (ts # None /\ interrupt)
    /\ worker' = [worker EXCEPT !.pc = "top"]
    /\ UNCHANGED <<clock, inserts, event, poller>>

-----------------------------------------------------------------------------
\* selectEx, epoll_wait: look, and wait for an event at most 10 ms.
Poll ==
    /\ poller = "look"
    /\ poller' = IF event THEN "done" ELSE "wait"
    /\ NoInterrupt /\ UNCHANGED <<clock, first, worker, inserts, event>>

waitForEvent ==
    /\ poller = "wait" /\ poller' = "look"
    /\ NoInterrupt /\ UNCHANGED <<clock, first, worker, inserts, event>>

\* What is polled for comes; whether a poller gets the signal or waits just after it is all one.
triggerEvent ==
    /\ ~event /\ event' = TRUE
    /\ poller' \in IF poller = "wait" THEN {"wait", "look"} ELSE {poller}
    /\ NoInterrupt /\ UNCHANGED <<clock, first, worker, inserts>>

Advance ==
    /\ clock < MaxTime /\ clock' = clock + 1
    /\ NoInterrupt /\ UNCHANGED <<first, worker, inserts, event, poller>>

TimerNext ==
    \/ \E ts \in 1 .. MaxTime : Insert(ts)
    \/ \E ts \in 0 .. MaxTime : Remove(ts) \/ pop(ts)
    \/ getNextProcTime \/ sleepto \/ Look \/ WaitEnds
    \/ Poll \/ waitForEvent \/ triggerEvent \/ Advance

\* Threads run, a wait ends, and the clock goes on.
TimerFairness ==
    /\ WF_timerVars(getNextProcTime) /\ WF_timerVars(sleepto) /\ WF_timerVars(Look) /\ WF_timerVars(WaitEnds)
    /\ WF_timerVars(\E ts \in 0 .. MaxTime : pop(ts))
    /\ WF_timerVars(Poll) /\ WF_timerVars(waitForEvent) /\ WF_timerVars(Advance)

TimerSpec == TimerInit /\ [][TimerNext]_timerVars /\ TimerFairness
-----------------------------------------------------------------------------
\* A thread never sleeps beyond the time it was given, and an interrupt that comes while it sleeps
\* ends the sleep at the next look, however the signal and the look fall together.
SleepsAreCut ==
    [][worker.pc = "look" /\ worker'.pc # "look" /\ (interrupted \/ clock >= worker.ts) => worker'.pc = "pop"]_timerVars

\* An entry that is due is popped or taken back in the end, although the interrupt that announces
\* it is overruled when it comes between getNextProcTime and sleepto; and a poller sees its event,
\* although the signal may be missed.
DueIsPopped ==
    /\ (first # None /\ first <= clock) ~> (first = None \/ first > clock \/ worker.pc = "pop")
    /\ event ~> poller = "done"

\* "an earlier event has been inserted, wake up sending worker" (queue.cpp): does not hold.
NeverSleepsTooLong == Asleep /\ first # None => m_ullSchedTime <= clock \/ m_ullSchedTime <= first
===============================================================================
