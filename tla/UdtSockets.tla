----------------------------- MODULE UdtSockets -----------------------------
(***************************************************************************)
(* CUDTUnited (udt4's api.cpp) with the opening and closing of a           *)
(* connection (open, connect, close of core.cpp): the sockets of a         *)
(* process, the multiplexers (UDP ports) they share, and the threads that  *)
(* handle them: the application's, one worker for each multiplexer, and    *)
(* the garbage collector.                                                  *)
(*                                                                         *)
(* A step is what a thread does under one lock, or between two.  Sockets   *)
(* are numbered in the order of their creation (the code counts down).     *)
(* Time is one flag of each timestamp: old when its limit (1 s for a       *)
(* closed socket, 3 s for a listener and for a request to connect) has     *)
(* passed.                                                                 *)
(***************************************************************************)
EXTENDS Integers, Sequences, FiniteSets

CONSTANTS
    Threads,      \* threads of the application
    Peers,        \* who may connect to a listener here
    MaxSockets,   \* bound: sockets in a run
    MaxOwn,       \* bound: those of them that the application makes
    MaxTries,     \* bound: how often one socket tries to connect
    BackLog       \* of each listener

ASSUME SocketsAssumption ==
    /\ IsFiniteSet(Threads)
    /\ 0 \notin Peers                                  \* 0 is the peer of a socket that nobody made
    /\ MaxSockets \in Nat /\ MaxOwn \in 0 .. MaxSockets

Socket == 1 .. MaxSockets

VARIABLES
    made,         \* the sockets made so far: 1 .. made
    sock,         \* CUDTSocket: the map it is in, m_Status, ...
    udt,          \* CUDT: its flags
    queued,       \* m_pQueuedSockets of each listener
    mux,          \* m_mMultiplexer: references and listener of each port, by the first socket
    connectors,   \* the requests to connect (m_pRendezvousQueue) of each port
    app,          \* what each thread of the application is doing
    worker,       \* what the worker of each port is doing
    gc            \* what the garbage collector is doing

socketsVars == <<made, sock, udt, queued, mux, connectors, app, worker, gc>>

\* m_ControlLock of CUDTUnited: only the garbage collector keeps it over several steps.
ControlLockFree == gc.pc = "idle"

\* m_ControlLock of the socket: bind, listen, connect and close hold it.
SocketLockFree(u) == ~\E t \in Threads : app[t].u = u /\ app[t].pc \in {"connecting", "complete", "closing", "erase"}

Located(u) == sock[u].place = "sockets" /\ sock[u].status # "CLOSED"

CUDTSocket == [place |-> "none", status |-> "INIT", peer |-> 0, mux |-> 0, known |-> FALSE, async |-> FALSE,
               old |-> FALSE, tries |-> 0]
CUDT == [opened |-> FALSE, listening |-> FALSE, connecting |-> FALSE, connected |-> FALSE, refused |-> FALSE,
         closing |-> FALSE, broken |-> FALSE, onList |-> FALSE, patience |-> 0, lingers |-> FALSE]

SocketsInit ==
    /\ made = 0
    /\ sock = [u \in Socket |-> CUDTSocket] /\ udt = [u \in Socket |-> CUDT]
    /\ queued = [u \in Socket |-> {}]
    /\ mux = [u \in Socket |-> [refs |-> 0, listener |-> 0, given |-> FALSE]]
    /\ connectors = [u \in Socket |-> <<>>]
    /\ app = [t \in Threads |-> [pc |-> "idle", u |-> 0, got |-> 0]]
    /\ worker = [u \in Socket |-> [pc |-> "idle", u |-> 0, ns |-> 0, peer |-> 0]]
    /\ gc = [pc |-> "idle", todo |-> {}, mux |-> 0, stop |-> FALSE]

\* The first one of a set of sockets, as the code numbers them.
Newest(S) == {n \in S : \A k \in S : k <= n}

Idle == [pc |-> "idle", u |-> 0, got |-> 0]
Rest == [pc |-> "idle", u |-> 0, ns |-> 0, peer |-> 0]

\* The application calls for a socket whose number it knows.
Calls(t, u) == app[t] = Idle /\ sock[u].known /\ Located(u) /\ ControlLockFree /\ ~gc.stop

-----------------------------------------------------------------------------
newSocket(t) ==
    /\ app[t] = Idle /\ made < MaxOwn /\ ControlLockFree /\ ~gc.stop
    /\ made' = made + 1
    /\ sock' = [sock EXCEPT ![made + 1] = [@ EXCEPT !.place = "sockets", !.known = TRUE]]
    /\ UNCHANGED <<udt, queued, mux, connectors, app, worker, gc>>

\* updateMux with a given port: the multiplexer of that port if there is one (the port to listen
\* on is the only one given), otherwise a new one of the socket's own.
Shared == {m \in Socket : mux[m].refs > 0 /\ mux[m].given}
newMux(u, given) == [mux EXCEPT ![u] = [refs |-> 1, listener |-> 0, given |-> given]]
reuseMux(m) == [mux EXCEPT ![m].refs = @ + 1]

bind(t, u) ==
    /\ Calls(t, u) /\ SocketLockFree(u) /\ sock[u].status = "INIT"
    /\ LET m == IF Shared = {} THEN u ELSE CHOOSE m \in Shared : TRUE
       IN  /\ sock' = [sock EXCEPT ![u] = [@ EXCEPT !.status = "OPENED", !.mux = m]]
           /\ mux' = IF Shared = {} THEN newMux(u, TRUE) ELSE reuseMux(m)
    /\ udt' = [udt EXCEPT ![u].opened = TRUE]
    /\ UNCHANGED <<made, queued, connectors, app, worker, gc>>

\* m_pListener of a port, under m_LSLock.
setListener(m, u) == mux[m].listener = 0 /\ mux' = [mux EXCEPT ![m].listener = u]
removeListener(port, S) == [port EXCEPT !.listener = IF @ \in S THEN 0 ELSE @]

\* One socket listens on a port; the second one to try gets an exception and stays OPENED.
listen(t, u) ==
    /\ Calls(t, u) /\ SocketLockFree(u) /\ sock[u].status = "OPENED"
    /\ ~udt[u].connecting /\ ~udt[u].connected
    /\ setListener(sock[u].mux, u)
    /\ udt' = [udt EXCEPT ![u].listening = TRUE]
    /\ sock' = [sock EXCEPT ![u].status = "LISTENING"]
    /\ UNCHANGED <<made, queued, connectors, app, worker, gc>>

AcceptBegin(t, u) ==
    /\ Calls(t, u) /\ sock[u].status = "LISTENING"
    /\ app' = [app EXCEPT ![t] = [Idle EXCEPT !.pc = "accept", !.u = u]]
    /\ UNCHANGED <<made, sock, udt, queued, mux, connectors, worker, gc>>

\* Under m_AcceptLock: the listener is closed; or the first of the set, the newest, is taken; or
\* the thread waits on m_AcceptCond.
AcceptTry(t) ==
    LET l == app[t].u
    IN  /\ app[t].pc = "accept"
        /\ IF sock[l].status # "LISTENING" \/ udt[l].broken
           THEN app' = [app EXCEPT ![t] = Idle] /\ UNCHANGED queued
           ELSE IF queued[l] # {}
           THEN /\ queued' = [queued EXCEPT ![l] = @ \ Newest(@)]
                /\ \E n \in Newest(queued[l]) :
                      app' = [app EXCEPT ![t] = [@ EXCEPT !.pc = "accepted", !.got = n]]
           ELSE app' = [app EXCEPT ![t].pc = "wait"] /\ UNCHANGED queued
        /\ UNCHANGED <<made, sock, udt, mux, connectors, worker, gc>>

\* The address of the peer is copied from the socket, which is located anew.
AcceptEnd(t) ==
    /\ app[t].pc = "accepted" /\ ControlLockFree
    /\ sock' = [sock EXCEPT ![app[t].got].known = TRUE]
    /\ app' = [app EXCEPT ![t] = Idle]
    /\ UNCHANGED <<made, udt, queued, mux, connectors, worker, gc>>

Awake(u) == [t \in Threads |-> IF app[t].pc = "wait" /\ app[t].u = u THEN [app[t] EXCEPT !.pc = "accept"]
                               ELSE app[t]]

-----------------------------------------------------------------------------
\* connect, with m_bSynRecving or without; a socket that is not bound gets a port of its own.
ConnectBegin(t, u, async) ==
    /\ Calls(t, u) /\ SocketLockFree(u) /\ sock[u].status \in {"INIT", "OPENED"}
    /\ ~udt[u].listening /\ ~udt[u].connecting /\ ~udt[u].connected
    /\ sock[u].tries < MaxTries
    /\ LET m == IF sock[u].status = "INIT" THEN u ELSE sock[u].mux
       IN  /\ sock' = [sock EXCEPT ![u] = [sock[u] EXCEPT !.status = "CONNECTING", !.mux = m, !.async = async,
                                                         !.tries = @ + 1]]
           /\ mux' = IF sock[u].status = "INIT" THEN newMux(u, FALSE) ELSE mux
           /\ connectors' = [connectors EXCEPT ![m] = Append(@, [u |-> u, old |-> FALSE])]
    /\ udt' = [udt EXCEPT ![u] = [@ EXCEPT !.opened = TRUE, !.connecting = TRUE]]
    /\ app' = IF async THEN app ELSE [app EXCEPT ![t] = [Idle EXCEPT !.pc = "connecting", !.u = u]]
    /\ UNCHANGED <<made, queued, worker, gc>>

\* removeConnector: the first entry of the socket.
Without(m, u) ==
    LET q == connectors[m]
        at == {i \in DOMAIN q : q[i].u = u}
        k == CHOOSE i \in at : \A j \in at : i <= j
    IN  [connectors EXCEPT ![m] = IF at = {} THEN q ELSE SubSeq(q, 1, k - 1) \o SubSeq(q, k + 1, Len(q))]

\* connect(response): any answer that is not a cookie makes the socket connected, a refusal too.
connect(u, refused) ==
    /\ udt' = [udt EXCEPT ![u] = [@ EXCEPT !.connecting = FALSE, !.connected = TRUE, !.onList = TRUE,
                                           !.refused = refused]]
    /\ connectors' = Without(sock[u].mux, u)

\* The thread that waits in connect has got the answer.
ConnectAnswered(t, refused) ==
    LET u == app[t].u
    IN  /\ app[t].pc = "connecting" /\ udt[u].connecting
        /\ connect(u, refused)
        /\ app' = [app EXCEPT ![t].pc = "complete"]
        /\ UNCHANGED <<made, sock, queued, mux, worker, gc>>

\* connect_complete; after a refusal connect throws, and the status is set back.
ConnectEnd(t) ==
    LET u == app[t].u
    IN  /\ app[t].pc = "complete" /\ ControlLockFree
        /\ sock' = [sock EXCEPT ![u].status = IF udt[u].refused THEN "OPENED" ELSE "CONNECTED"]
        /\ app' = [app EXCEPT ![t] = Idle]
        /\ UNCHANGED <<made, udt, queued, mux, connectors, worker, gc>>

\* No answer in time, or the worker has given the request up, or the socket is being closed: an
\* exception, and nobody takes the request out of the list.
ConnectFails(t) ==
    LET u == app[t].u
        q == connectors[sock[u].mux]
    IN  /\ app[t].pc = "connecting"
        /\ ~udt[u].connecting \/ udt[u].closing \/ q[Len(q)].old
        /\ sock' = [sock EXCEPT ![u].status = "OPENED"]
        /\ app' = [app EXCEPT ![t] = Idle]
        /\ UNCHANGED <<made, udt, queued, mux, connectors, worker, gc>>

-----------------------------------------------------------------------------
CloseBegin(t, u) ==
    /\ Calls(t, u) /\ SocketLockFree(u)
    /\ IF sock[u].status = "LISTENING"
       THEN /\ ~udt[u].broken
            /\ sock' = [sock EXCEPT ![u].old = FALSE]
            /\ udt' = [udt EXCEPT ![u].broken = TRUE]
            /\ app' = Awake(u)
       ELSE /\ app' = [app EXCEPT ![t] = [Idle EXCEPT !.pc = "closing", !.u = u]]
            /\ UNCHANGED <<sock, udt>>
    /\ UNCHANGED <<made, queued, mux, connectors, worker, gc>>

\* CUDT::close of the sockets in S: nothing if it is not open.
Shut(u) == IF udt[u].opened THEN [udt[u] EXCEPT !.opened = FALSE, !.closing = TRUE, !.listening = FALSE,
                                                !.connected = FALSE]
           ELSE udt[u]

\* A connected socket with data left and no m_bSynSending is left to the collector.
CloseUdt(t, lingers) ==
    LET u == app[t].u
    IN  /\ app[t].pc = "closing"
        /\ lingers => udt[u].connected /\ ~udt[u].broken
        /\ IF lingers THEN udt' = [udt EXCEPT ![u].lingers = TRUE] /\ UNCHANGED connectors
           ELSE /\ udt' = [udt EXCEPT ![u] = Shut(u)]
                /\ connectors' = IF udt[u].opened THEN Without(sock[u].mux, u) ELSE connectors
        /\ app' = [app EXCEPT ![t].pc = "erase"]
        /\ UNCHANGED <<made, sock, queued, mux, worker, gc>>

CloseEnd(t) ==
    LET u == app[t].u
    IN  /\ app[t].pc = "erase" /\ ControlLockFree
        /\ sock' = IF Located(u)
                   THEN [sock EXCEPT ![u] = [@ EXCEPT !.status = "CLOSED", !.place = "closed", !.old = FALSE]]
                   ELSE sock
        /\ app' = [app EXCEPT ![t] = Idle]
        /\ UNCHANGED <<made, udt, queued, mux, connectors, worker, gc>>

-----------------------------------------------------------------------------
\* The worker of port m has a request of peer p, and reads m_pListener, without m_LSLock: nothing
\* keeps the listener from now on.
WorkerListen(m, p) ==
    /\ worker[m] = Rest /\ mux[m].refs > 0 /\ mux[m].listener # 0
    /\ worker' = [worker EXCEPT ![m] = [Rest EXCEPT !.pc = "listen", !.u = mux[m].listener, !.peer = p]]
    /\ UNCHANGED <<made, sock, udt, queued, mux, connectors, app, gc>>

\* m_PeerRec: the sockets that were made for the same request and are still in m_Sockets.
Known(peer) == {n \in Socket : sock[n].place = "sockets" /\ sock[n].peer = peer}

\* newConnection: the listener is located, and the connection the peer has already, if any: a
\* broken one is closed and makes room for a new one, any other is answered again.  When the
\* listener has been deleted since it was read, listen of a deleted object runs, which is undefined;
\* here it does what it does for one that is closing: it gives up.
WorkerLocate(m) ==
    LET w == worker[m]
        old == Newest(Known(w.peer))
        broken == {n \in old : udt[n].broken}
    IN  /\ w.pc = "listen" /\ ControlLockFree
        /\ IF udt[w.u].closing \/ ~Located(w.u) \/ old # broken
           THEN worker' = [worker EXCEPT ![m] = Rest] /\ UNCHANGED <<sock, queued>>
           ELSE /\ worker' = [worker EXCEPT ![m].pc = "create"]
                /\ sock' = [n \in Socket |-> IF n \in broken
                                              THEN [sock[n] EXCEPT !.status = "CLOSED", !.old = FALSE] ELSE sock[n]]
                /\ queued' = [queued EXCEPT ![w.u] = @ \ broken]
        /\ UNCHANGED <<made, udt, mux, connectors, app, gc>>

\* A new socket on the port of the listener, connected, unless the queue is full.
WorkerCreate(m) ==
    LET w == worker[m]
        n == made + 1
    IN  /\ w.pc = "create" /\ ControlLockFree
        /\ IF Cardinality(queued[w.u]) >= BackLog \/ made = MaxSockets
           THEN worker' = [worker EXCEPT ![m] = Rest] /\ UNCHANGED <<made, sock, udt, mux>>
           ELSE /\ made' = n
                /\ sock' = [sock EXCEPT ![n] = [@ EXCEPT !.status = "CONNECTED", !.peer = w.peer, !.mux = m]]
                /\ udt' = [udt EXCEPT ![n] = [@ EXCEPT !.opened = TRUE, !.connected = TRUE, !.onList = TRUE]]
                /\ mux' = reuseMux(m)
                /\ worker' = [worker EXCEPT ![m] = [@ EXCEPT !.pc = "insert", !.ns = n]]
        /\ UNCHANGED <<queued, connectors, app, gc>>

WorkerInsert(m) ==
    /\ worker[m].pc = "insert" /\ ControlLockFree
    /\ sock' = [sock EXCEPT ![worker[m].ns].place = "sockets"]
    /\ worker' = [worker EXCEPT ![m].pc = "enqueue"]
    /\ UNCHANGED <<made, udt, queued, mux, connectors, app, gc>>

\* mutant of WorkerEnqueue: nobody is woken
WorkerEnqueueSilent(m) ==
    LET w == worker[m]
    IN  /\ w.pc = "enqueue"
        /\ queued' = [queued EXCEPT ![w.u] = @ \cup {w.ns}]
        /\ worker' = [worker EXCEPT ![m] = Rest]
        /\ UNCHANGED <<made, sock, udt, mux, connectors, app, gc>>

\* Under m_AcceptLock into the queue; after it one waiting accept is woken.
WorkerEnqueue(m) ==
    LET w == worker[m]
    IN  /\ w.pc = "enqueue"
        /\ queued' = [queued EXCEPT ![w.u] = @ \cup {w.ns}]
        /\ worker' = [worker EXCEPT ![m].pc = "signal"]
        /\ UNCHANGED <<made, sock, udt, mux, connectors, app, gc>>

WorkerSignal(m) ==
    LET w == worker[m]
        waiting == {t \in Threads : app[t].pc = "wait" /\ app[t].u = w.u}
    IN  /\ w.pc = "signal"
        /\ worker' = [worker EXCEPT ![m] = Rest]
        /\ IF waiting = {} THEN UNCHANGED app ELSE \E t \in waiting : app' = [app EXCEPT ![t].pc = "accept"]
        /\ UNCHANGED <<made, sock, udt, queued, mux, connectors, gc>>

\* An answer to a request that nobody waits for: the worker itself connects the socket.
WorkerConnect(m, u, refused) ==
    /\ worker[m] = Rest /\ mux[m].refs > 0
    /\ \E i \in DOMAIN connectors[m] : connectors[m][i].u = u
    /\ sock[u].async /\ udt[u].connecting
    /\ connect(u, refused)
    /\ worker' = [worker EXCEPT ![m] = [Rest EXCEPT !.pc = "complete", !.u = u]]
    /\ UNCHANGED <<made, sock, queued, mux, app, gc>>

\* connect_complete throws for a socket that is closed, out of a function that throws nothing.
WorkerConnectEnd(m) ==
    LET u == worker[m].u
    IN  /\ worker[m].pc = "complete" /\ ControlLockFree
        /\ sock' = IF Located(u) THEN [sock EXCEPT ![u].status = "CONNECTED"] ELSE sock
        /\ worker' = [worker EXCEPT ![m] = IF Located(u) THEN Rest ELSE [Rest EXCEPT !.pc = "terminated"]]
        /\ UNCHANGED <<made, udt, queued, mux, connectors, app, gc>>

\* updateConnStatus: a request whose time is over is given up.
WorkerExpires(m) ==
    /\ worker[m] = Rest /\ mux[m].refs > 0
    /\ \E i \in DOMAIN connectors[m] :
          /\ connectors[m][i].old /\ udt[connectors[m][i].u].connecting
          /\ udt' = [udt EXCEPT ![connectors[m][i].u].connecting = FALSE]
    /\ UNCHANGED <<made, sock, queued, mux, connectors, app, worker, gc>>

\* processCtrl, checkTimers: the peer has shut down, or is silent.  Data not yet read make the
\* collector patient.
WorkerBreak(m, u, patience) ==
    /\ worker[m] = Rest /\ mux[m].refs > 0 /\ sock[u].mux = m /\ udt[u].onList
    /\ udt[u].connected /\ ~udt[u].broken /\ ~udt[u].closing
    /\ udt' = [udt EXCEPT ![u] = [@ EXCEPT !.broken = TRUE, !.closing = TRUE, !.patience = patience]]
    /\ UNCHANGED <<made, sock, queued, mux, connectors, app, worker, gc>>

\* mutant of WorkerForget: a socket that is closed while the connection stands stays in the list
WorkerForgetBroken(m, u) ==
    /\ worker[m] = Rest /\ mux[m].refs > 0 /\ sock[u].mux = m /\ udt[u].onList
    /\ udt[u].broken
    /\ udt' = [udt EXCEPT ![u].onList = FALSE]
    /\ UNCHANGED <<made, sock, queued, mux, connectors, app, worker, gc>>

\* The worker's timer: a socket that is not connected any more leaves m_pRcvUList and m_pHash.
WorkerForget(m, u) ==
    /\ worker[m] = Rest /\ mux[m].refs > 0 /\ sock[u].mux = m /\ udt[u].onList
    /\ ~udt[u].connected \/ udt[u].broken \/ udt[u].closing
    /\ udt' = [udt EXCEPT ![u].onList = FALSE]
    /\ UNCHANGED <<made, sock, queued, mux, connectors, app, worker, gc>>

-----------------------------------------------------------------------------
\* mutant of Finished: m_bOnList is not looked at
FinishedListed(u, s) == s.place = "closed" /\ s.old

\* A socket closed a second ago that the worker of its port has let go.
Finished(u, s) == s.place = "closed" /\ s.old /\ ~udt[u].onList

\* checkBrokenSockets, under m_ControlLock.  First the broken sockets are closed: a listener
\* after 3 s, one with data to read when patience is at an end; they leave the listener's queue.
\* Closed sockets that lingered are done with when their data are sent, or it takes too long.
GcScan(over) ==
    LET broken == {u \in Socket : sock[u].place = "sockets" /\ udt[u].broken}
        patient == {u \in broken : sock[u].status # "LISTENING" /\ udt[u].patience > 0}
        closes == {u \in broken \ patient : sock[u].status = "LISTENING" => sock[u].old}
    IN  /\ gc.pc = "idle"
        /\ over \subseteq {u \in Socket : (sock[u].place = "closed" \/ u \in closes) /\ udt[u].lingers}
        /\ sock' = [u \in Socket |->
                       IF u \in closes THEN [sock[u] EXCEPT !.status = "CLOSED", !.place = "closed", !.old = FALSE]
                       ELSE IF u \in over THEN [sock[u] EXCEPT !.old = FALSE] ELSE sock[u]]
        /\ udt' = [u \in Socket |->
                      IF u \in over THEN [udt[u] EXCEPT !.lingers = FALSE, !.closing = TRUE]
                      ELSE IF u \in patient THEN [udt[u] EXCEPT !.patience = @ - 1] ELSE udt[u]]
        /\ queued' = [l \in Socket |-> queued[l] \ closes]
        /\ gc' = LET todo == {u \in Socket : Finished(u, sock'[u])}
                 IN  [gc EXCEPT !.pc = IF todo = {} THEN "idle" ELSE "remove", !.todo = todo]
        /\ UNCHANGED <<made, mux, connectors, app, worker>>

\* removeSocket of one of them: what is queued at a listener is closed, the socket is deleted, and
\* with the last socket of a port its multiplexer.
GcRemove(u) ==
    LET m == sock[u].mux
        drops == queued[u]
        port == removeListener(mux[m], IF udt[u].opened THEN {u} ELSE {})
    IN  /\ gc.pc = "remove" /\ u \in gc.todo
        /\ sock' = [n \in Socket |->
                       IF n = u THEN [CUDTSocket EXCEPT !.place = "removed", !.tries = sock[u].tries]
                       ELSE IF n \in drops
                       THEN [sock[n] EXCEPT !.place = "closed", !.status = "CLOSED", !.old = FALSE] ELSE sock[n]]
        /\ udt' = [n \in Socket |-> IF n = u THEN [CUDT EXCEPT !.onList = udt[u].onList]
                                     ELSE IF n \in drops THEN [Shut(n) EXCEPT !.broken = TRUE] ELSE udt[n]]
        /\ queued' = [queued EXCEPT ![u] = {}]
        /\ connectors' = IF m # 0 /\ udt[u].opened THEN Without(m, u) ELSE connectors
        /\ mux' = IF m = 0 THEN mux ELSE [mux EXCEPT ![m] = [port EXCEPT !.refs = @ - 1]]
        /\ gc' = IF m # 0 /\ mux[m].refs = 1 THEN [gc EXCEPT !.pc = "join", !.todo = @ \ {u}, !.mux = m]
                 ELSE [gc EXCEPT !.pc = IF gc.todo = {u} THEN "idle" ELSE "remove", !.todo = @ \ {u}]
        /\ UNCHANGED <<made, app, worker>>

\* The collector waits, with the lock, for the worker of the port to end.
GcJoin ==
    /\ gc.pc = "join" /\ worker[gc.mux].pc = "idle"
    /\ connectors' = [connectors EXCEPT ![gc.mux] = <<>>]
    /\ gc' = [gc EXCEPT !.pc = IF gc.todo = {} THEN "idle" ELSE "remove", !.mux = 0]
    /\ UNCHANGED <<made, sock, udt, queued, mux, app, worker>>

\* m_bClosing, set by the last cleanup.
Stop == ~gc.stop /\ gc' = [gc EXCEPT !.stop = TRUE]

\* cleanup: the collector closes every socket and from now on waits for no timestamp.
cleanup ==
    /\ Stop /\ gc.pc = "idle" /\ \A t \in Threads : app[t] = Idle
    /\ LET all == {u \in Socket : sock[u].place = "sockets"}
       IN  /\ sock' = [u \in Socket |->
                          IF u \in all THEN [sock[u] EXCEPT !.status = "CLOSED", !.place = "closed", !.old = TRUE]
                          ELSE [sock[u] EXCEPT !.old = TRUE]]
           /\ udt' = [u \in Socket |-> IF u \in all THEN [Shut(u) EXCEPT !.broken = TRUE] ELSE udt[u]]
           /\ queued' = [l \in Socket |-> {}]
           /\ connectors' = [m \in Socket |-> SelectSeq(connectors[m], LAMBDA r : r.u \notin all)]
           /\ mux' = [m \in Socket |-> removeListener(mux[m], all)]
    /\ UNCHANGED <<made, app, worker>>

-----------------------------------------------------------------------------
\* Seconds pass only while no thread is between two steps: a method is faster than that, unless
\* it waits.
Waits == /\ \A t \in Threads : app[t].pc \in {"idle", "wait", "connecting"}
         /\ \A m \in Socket : worker[m].pc = "idle"
         /\ gc.pc = "idle"

SecondsPass(u) ==
    /\ Waits /\ ~sock[u].old
    /\ sock[u].place = "closed" \/ (sock[u].status = "LISTENING" /\ udt[u].broken /\ sock[u].place = "sockets")
    /\ sock' = [sock EXCEPT ![u].old = TRUE]
    /\ UNCHANGED <<made, udt, queued, mux, connectors, app, worker, gc>>

RequestTimesOut(m) ==
    /\ Waits
    /\ \E i \in DOMAIN connectors[m] :
          ~connectors[m][i].old /\ connectors' = [connectors EXCEPT ![m][i].old = TRUE]
    /\ UNCHANGED <<made, sock, udt, queued, mux, app, worker, gc>>

ApplicationNext ==
    \E t \in Threads :
        \/ newSocket(t) \/ AcceptTry(t) \/ AcceptEnd(t) \/ ConnectEnd(t) \/ ConnectFails(t) \/ CloseEnd(t)
        \/ \E u \in Socket : bind(t, u) \/ listen(t, u) \/ AcceptBegin(t, u) \/ CloseBegin(t, u)
        \/ \E u \in Socket, async \in BOOLEAN : ConnectBegin(t, u, async)
        \/ \E refused \in BOOLEAN : ConnectAnswered(t, refused)
        \/ \E lingers \in BOOLEAN : CloseUdt(t, lingers)

WorkerStep(m) ==
    \/ WorkerLocate(m) \/ WorkerCreate(m) \/ WorkerInsert(m) \/ WorkerEnqueue(m) \/ WorkerSignal(m)
    \/ WorkerConnectEnd(m)

WorkerNext ==
    \E m \in Socket :
        \/ WorkerStep(m) \/ WorkerExpires(m)
        \/ \E p \in Peers : WorkerListen(m, p)
        \/ \E u \in Socket, refused \in BOOLEAN : WorkerConnect(m, u, refused)
        \/ \E u \in Socket, patience \in 0 .. 1 : WorkerBreak(m, u, patience)
        \/ \E u \in Socket : WorkerForget(m, u)

CollectorNext == cleanup \/ GcJoin \/ (\E u \in Socket : GcRemove(u)) \/ (\E over \in SUBSET Socket : GcScan(over))

TimeNext == \E u \in Socket : SecondsPass(u) \/ RequestTimesOut(u)

Terminated == \E m \in Socket : worker[m].pc = "terminated"

SocketsNext == ApplicationNext \/ WorkerNext \/ CollectorNext \/ TimeNext
SocketsSpec == SocketsInit /\ [][SocketsNext]_socketsVars

-----------------------------------------------------------------------------
\* The collector waits for a worker that waits for the collector's lock.
Stuck == gc.pc = "join" /\ worker[gc.mux].pc # "idle"

\* Threads go on, the workers' and the collector's timers come round, time passes, and answers to
\* a connect or its end come: threads are never all between two steps for ever.
SocketsFairness ==
    /\ []<>(Waits \/ Stuck)
    /\ \A m \in Socket : WF_socketsVars(WorkerStep(m)) /\ \A u \in Socket : SF_socketsVars(WorkerForget(m, u))
    /\ \A t \in Threads :
          WF_socketsVars(\/ AcceptTry(t) \/ AcceptEnd(t) \/ ConnectEnd(t) \/ ConnectFails(t)
                         \/ CloseUdt(t, FALSE) \/ CloseEnd(t))
    /\ WF_socketsVars(\E over \in SUBSET Socket : GcScan(over))
    /\ WF_socketsVars(GcJoin)
    /\ \A u \in Socket : SF_socketsVars(SecondsPass(u)) /\ WF_socketsVars(GcRemove(u))

SocketsFairSpec == SocketsSpec /\ SocketsFairness

\* The socket that a worker has in hand between two steps: the listener, from the moment it was
\* located (before that it may be gone, see WorkerListen), or the socket it has just connected.
InHand(m) ==
    \/ worker[m].pc \in {"create", "insert", "enqueue", "signal"}
    \/ worker[m].pc = "complete" /\ sock[worker[m].u].tries <= 1

\* No thread of the application, no worker with a listener it has located, with a socket it has made or
\* connected or with its list, and no port refers to a socket that the collector has deleted; a
\* listener's queue holds only sockets that are open; and a multiplexer counts the sockets that use it.
\* (The one second a closed socket is kept is all that protects the thread: no lock does.  Nothing is
\* said of a worker between its reading m_pListener and newConnection, which may have a deleted one;
\* cleanup waits for no second; and close takes back one request of a socket that has tried to connect
\* twice.)
NobodyUsesRemoved ==
    ~gc.stop =>
    /\ \A t \in Threads : app[t].u # 0 => sock[app[t].u].place # "removed"
    /\ \A m \in Socket :
          /\ worker[m].ns # 0 => sock[worker[m].ns].place # "removed"
          /\ InHand(m) => sock[worker[m].u].place # "removed"
          /\ mux[m].listener # 0 => sock[mux[m].listener].place # "removed"
          /\ mux[m].refs = Cardinality({u \in Socket : sock[u].mux = m /\ sock[u].place # "removed"})
          /\ \A i \in DOMAIN connectors[m] :
                sock[connectors[m][i].u].tries = 1 => sock[connectors[m][i].u].place # "removed"
    /\ \A u \in Socket : sock[u].place = "removed" /\ sock[u].tries <= 1 => ~udt[u].onList
    /\ \A l \in Socket : \A n \in queued[l] : sock[n].place = "sockets"

\* A thread waits in accept only for a listener that is open, and never beside a connection in the
\* queue that nobody is about to take.
WaitersAreWoken ==
    \A l \in Socket :
        LET at(pc) == {t \in Threads : app[t].u = l /\ app[t].pc = pc}
            signals == {m \in Socket : worker[m].u = l /\ worker[m].pc = "signal"}
        IN  at("wait") # {} =>
              /\ sock[l].status = "LISTENING" /\ ~udt[l].broken
              /\ Cardinality(queued[l]) <= Cardinality(at("accept")) + Cardinality(signals)

\* A closed socket is deleted in the end, and its multiplexer with the last of them, unless the
\* collector and a worker wait for each other or the process has ended.
ClosedIsRemoved ==
    \A u \in Socket : sock[u].place = "closed" ~> (sock[u].place = "removed" \/ Stuck \/ Terminated)
=============================================================================
