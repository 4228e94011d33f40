----------------------------- MODULE UdtSndQueue -----------------------------
(***************************************************************************)
(* CSndUList and the worker of CSndQueue (udt4's queue.cpp): the sockets   *)
(* of one UDP port that have something to send, in a binary heap by the    *)
(* time of their next packet, and the thread that sends it.  The           *)
(* application adds data and then updates the list; so does the thread of  *)
(* the receiving queue when an acknowledgement opens the window, a loss is *)
(* reported or a timer expires.                                            *)
(*                                                                         *)
(* What a socket could send is a number of packets and a window.  Time is  *)
(* left out, except that a socket is rescheduled later than it was due:    *)
(* the worker may find the time come whenever it looks.                    *)
(***************************************************************************)
EXTENDS Integers, Sequences, FiniteSets

CONSTANTS
    Sockets,
    MaxTime,    \* bound: times are 1 (at once), 2, ..., MaxTime
    MaxData,    \* bound: packets each application sends
    MaxWindow,  \* packets that may be under way
    MaxLosses   \* bound: how often the packets under way are lost

VARIABLES
    list,       \* m_pHeap as a sequence, m_llTimeStamp and m_iHeapLoc of the nodes
    now,        \* the latest time at which a packet was due and sent
    socket,     \* of each socket: what its application and its peer did
    worker,     \* where the sending thread is
    signalled   \* the condition variable m_WindowCond was signalled while the thread waited

sndQueueVars == <<list, now, socket, worker, signalled>>

Last(L) == Len(L.heap) - 1          \* m_iLastEntry
Node(L, i) == L.heap[i + 1]
TimeAt(L, i) == L.ts[Node(L, i)]
OnHeap(u) == list.loc[u] >= 0

EmptyList == [heap |-> <<>>, ts |-> [u \in Sockets |-> 1], loc |-> [u \in Sockets |-> -1]]

\* Exchange two entries; the nodes learn their places.
Swap(L, i, j) ==
    [heap |-> [L.heap EXCEPT ![i + 1] = Node(L, j), ![j + 1] = Node(L, i)], ts |-> L.ts,
     loc |-> [L.loc EXCEPT ![Node(L, j)] = i, ![Node(L, i)] = j]]

\* A run of insert_'s loop, and of remove_'s: the entry at place s.at is exchanged with its parent
\* when that is due later, or with the earlier of its children when that is due sooner.
Up(s) ==
    LET p == (s.at - 1) \div 2
    IN  IF s.at # 0 /\ TimeAt(s.list, p) > TimeAt(s.list, s.at)
        THEN [list |-> Swap(s.list, p, s.at), at |-> p] ELSE s

Down(s) ==
    LET l == 2 * s.at + 1
        p == IF l + 1 <= Last(s.list) /\ TimeAt(s.list, l) > TimeAt(s.list, l + 1) THEN l + 1 ELSE l
    IN  IF l <= Last(s.list) /\ TimeAt(s.list, s.at) > TimeAt(s.list, p)
        THEN [list |-> Swap(s.list, s.at, p), at |-> p] ELSE s

\* The loops end at the first entry, or at the last.
SiftUp(L, q) ==
    LET run[n \in 0 .. q] == IF n = 0 THEN [list |-> L, at |-> q] ELSE Up(run[n - 1])
    IN  run[q].list

SiftDown(L, q) ==
    LET run[n \in 0 .. Len(L.heap)] == IF n = 0 THEN [list |-> L, at |-> q] ELSE Down(run[n - 1])
    IN  run[Len(L.heap)].list

\* insert_: nothing if u is on the heap.
insert_(L, ts, u) ==
    IF L.loc[u] >= 0 THEN L
    ELSE SiftUp([heap |-> Append(L.heap, u), ts |-> [L.ts EXCEPT ![u] = ts],
                 loc |-> [L.loc EXCEPT ![u] = Len(L.heap)]], Len(L.heap))

\* remove_: the last entry takes the place of u and sinks from there.
remove_(L, u) ==
    LET q == L.loc[u]
        moved == Node(L, Last(L))
        M == [heap |-> SubSeq([L.heap EXCEPT ![q + 1] = moved], 1, Last(L)), ts |-> L.ts,
              loc |-> [L.loc EXCEPT ![moved] = q, ![u] = -1]]
    IN  IF q < 0 THEN L ELSE SiftDown(M, q)

\* mutant of update: a socket that waits for its time is not scheduled anew
updateKeep(L, u, reschedule) == IF L.loc[u] > 0 \/ ~reschedule THEN L ELSE insert_(L, 1, u)

\* update: u is due at once, unless it is on the heap and need not be rescheduled.
update(L, u, reschedule) ==
    IF L.loc[u] >= 0 /\ ~reschedule THEN L
    ELSE IF L.loc[u] = 0 THEN [L EXCEPT !.ts[u] = 1]
    ELSE insert_(remove_(L, u), 1, u)

-----------------------------------------------------------------------------
SndQueueInit ==
    /\ list = EmptyList /\ now = 1
    /\ socket = [u \in Sockets |-> [left |-> MaxData,   \* packets the application has still to add
                                    data |-> 0,         \* packets added and not sent
                                    flight |-> 0,       \* packets sent and not acknowledged
                                    losses |-> 0,       \* how often they were lost
                                    todo |-> "",        \* a thread is about to call update
                                    closed |-> FALSE]]
    /\ worker = "top" /\ signalled = FALSE

\* The list after a call of insert_ that was the first entry signals the worker, if it waits.
Changed(L) ==
    /\ list' = L
    /\ signalled' = (signalled \/ (worker = "wait" /\ list.heap = <<>> /\ L.heap # <<>>))

\* sendmsg: addBuffer, and after it update(this, false).
addBuffer(u) ==
    /\ socket[u].todo = "" /\ socket[u].left > 0 /\ ~socket[u].closed
    /\ socket' = [socket EXCEPT ![u] = [socket[u] EXCEPT !.left = @ - 1, !.data = @ + 1, !.todo = "send"]]
    /\ UNCHANGED <<list, now, worker, signalled>>

\* processCtrl: an acknowledgement moves m_iSndLastAck, and after it update(this, false).
Acknowledged(u) ==
    /\ socket[u].todo = "" /\ socket[u].flight > 0 /\ ~socket[u].closed
    /\ socket' = [socket EXCEPT ![u] = [@ EXCEPT !.flight = 0, !.todo = "ack"]]
    /\ UNCHANGED <<list, now, worker, signalled>>

\* processCtrl, checkTimers: the packets under way are lost, and after it update(this).
Lost(u) ==
    /\ socket[u].todo = "" /\ socket[u].flight > 0 /\ ~socket[u].closed
    /\ socket[u].losses < MaxLosses
    /\ socket' = [socket EXCEPT ![u] = [socket[u] EXCEPT !.data = @ + socket[u].flight, !.flight = 0,
                                                          !.losses = @ + 1, !.todo = "loss"]]
    /\ UNCHANGED <<list, now, worker, signalled>>

Update(u) ==
    /\ socket[u].todo # ""
    /\ Changed(update(list, u, socket[u].todo = "loss"))
    /\ socket' = [socket EXCEPT ![u].todo = ""]
    /\ UNCHANGED <<now, worker>>

\* close: the socket leaves the list.
close(u) ==
    /\ ~socket[u].closed /\ socket[u].todo = ""
    /\ socket' = [socket EXCEPT ![u].closed = TRUE]
    /\ Changed(remove_(list, u))
    /\ UNCHANGED <<now, worker>>

\* The worker asks for the next time; nothing scheduled: it goes to wait.
getNextProcTime ==
    /\ worker = "top"
    /\ worker' = IF list.heap = <<>> THEN "park" ELSE "pop"
    /\ UNCHANGED <<list, now, socket, signalled>>

\* Under m_WindowLock it looks once more before it waits.
Park ==
    /\ worker = "park"
    /\ worker' = IF list.heap = <<>> THEN "wait" ELSE "top"
    /\ signalled' = FALSE
    /\ UNCHANGED <<list, now, socket>>

WakeUp ==
    /\ worker = "wait" /\ signalled
    /\ worker' = "top" /\ signalled' = FALSE
    /\ UNCHANGED <<list, now, socket>>

\* pop: the first socket leaves the heap, and packData decides whether it comes back, and when.
pop ==
    /\ worker = "pop" /\ worker' = "top"
    /\ IF list.heap = <<>> THEN UNCHANGED <<list, now, socket>>
       ELSE LET u == Node(list, 0)
                due == list.ts[u]
                sends == socket[u].data > 0 /\ socket[u].flight < MaxWindow
            IN  /\ now' = IF due > now THEN due ELSE now
                /\ IF ~sends \/ socket[u].closed
                   THEN list' = remove_(list, u) /\ UNCHANGED socket
                   ELSE /\ \E ts \in now' + 1 .. MaxTime \cup {MaxTime} :
                              list' = insert_(remove_(list, u), ts, u)
                        /\ socket' = [socket EXCEPT ![u] = [socket[u] EXCEPT !.data = @ - 1, !.flight = @ + 1]]
    /\ UNCHANGED signalled

\* It is not time yet: the worker goes round again.
NotYet ==
    /\ worker = "pop" /\ list.heap # <<>> /\ list.ts[Node(list, 0)] > 1
    /\ worker' = "top"
    /\ UNCHANGED <<list, now, socket, signalled>>

SndQueueNext ==
    \/ \E u \in Sockets : addBuffer(u) \/ Acknowledged(u) \/ Lost(u) \/ Update(u) \/ close(u)
    \/ getNextProcTime \/ Park \/ WakeUp \/ pop \/ NotYet

\* Every thread runs on, the time of the first socket comes, and the peer acknowledges.
SndQueueFairness ==
    /\ \A u \in Sockets : WF_sndQueueVars(Update(u)) /\ WF_sndQueueVars(Acknowledged(u))
    /\ WF_sndQueueVars(getNextProcTime) /\ WF_sndQueueVars(Park) /\ WF_sndQueueVars(WakeUp)
    /\ SF_sndQueueVars(pop)

SndQueueSpec == SndQueueInit /\ [][SndQueueNext]_sndQueueVars /\ SndQueueFairness

\* The list alone, under the calls its users make for sockets that always have data: pop puts
\* the first one back for a later time.
ListNext ==
    /\ \/ \E u \in Sockets, reschedule \in BOOLEAN : list' = update(list, u, reschedule) /\ now' = now
       \/ \E u \in Sockets : list' = remove_(list, u) /\ now' = now
       \/ /\ list.heap # <<>>
          /\ LET u == Node(list, 0)
             IN  /\ now' = IF list.ts[u] > now THEN list.ts[u] ELSE now
                 /\ \E ts \in now' + 1 .. MaxTime : list' = insert_(remove_(list, u), ts, u)
    /\ UNCHANGED <<socket, worker, signalled>>

ListSpec == SndQueueInit /\ [][ListNext]_sndQueueVars

-----------------------------------------------------------------------------
\* The nodes know their places, and no socket is in the heap twice.
PlacesAreKnown ==
    /\ \A i \in 0 .. Last(list) : list.loc[Node(list, i)] = i
    /\ Cardinality({u \in Sockets : OnHeap(u)}) = Len(list.heap)

\* A socket that could send is on the heap, or a thread is just about to put it there, and
\* while anything is on the heap the worker is not left waiting: no wake-up is lost between
\* sendmsg, the acknowledgements and the worker, which takes a socket off the heap whenever it
\* has nothing to send.
NobodyIsForgotten ==
    /\ \A u \in Sockets : socket[u].data > 0 /\ socket[u].flight < MaxWindow /\ ~socket[u].closed =>
          OnHeap(u) \/ socket[u].todo # ""
    /\ worker = "wait" /\ list.heap # <<>> => signalled

\* Whatever is added is sent, unless the socket is closed.
EverythingIsSent == \A u \in Sockets : socket[u].data > 0 ~> socket[u].data = 0 \/ socket[u].closed

\* pop: "from the first entry", getNextProcTime: "Scheduled processing time of the first UDT
\* socket in the list" (queue.h): no socket is due before the first one.
FirstIsDueFirst == \A u \in Sockets : OnHeap(u) => list.ts[Node(list, 0)] <= list.ts[u]
=============================================================================
