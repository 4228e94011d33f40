-------------------------- MODULE UdtSocketsProofs --------------------------
(***************************************************************************)
(* Proof that no wake-up of accept is lost and that nobody uses a socket   *)
(* that was removed (WaitersAreWoken and NobodyUsesRemoved of UdtSockets), *)
(* for any number of threads, peers and sockets and any length of the      *)
(* queue.                                                                  *)
(*                                                                         *)
(* The first part proves Core, an invariant of the sockets that does not   *)
(* speak of waiting: which of them can be a listener, and which thread may *)
(* close or reopen one.  The second part counts who waits.  The third      *)
(* follows whatever refers to a socket, from newConnection to removeSocket,*)
(* and the fourth the sockets that the workers have in hand.               *)
(***************************************************************************)
EXTENDS UdtSockets, FiniteSetTheorems, SequenceTheorems, WellFoundedInduction, TLAPS

\* The shape of the state, as far as the proof needs it.
Shape ==
    /\ made \in 0 .. MaxSockets
    /\ DOMAIN sock = Socket
    /\ \A u \in Socket : DOMAIN sock[u] = {"place", "status", "peer", "mux", "known", "async", "old", "tries"}
    /\ DOMAIN udt = Socket
    /\ \A u \in Socket : DOMAIN udt[u] = {"opened", "listening", "connecting", "connected", "refused",
                                          "closing", "broken", "onList", "patience", "lingers"}
    /\ DOMAIN queued = Socket /\ \A l \in Socket : queued[l] \subseteq Socket
    /\ DOMAIN mux = Socket
    /\ \A m \in Socket : /\ DOMAIN mux[m] = {"refs", "listener", "given"}
                         /\ mux[m].listener \in Socket \cup {0}
    /\ DOMAIN app = Threads
    /\ \A t \in Threads : /\ DOMAIN app[t] = {"pc", "u", "got"}
                          /\ app[t].pc # "idle" => app[t].u \in Socket
    /\ DOMAIN worker = Socket
    /\ \A m \in Socket : /\ DOMAIN worker[m] = {"pc", "u", "ns", "peer"}
                         /\ worker[m].pc \notin {"idle", "terminated"} => worker[m].u \in Socket
    /\ DOMAIN gc = {"pc", "todo", "mux", "stop"}

SockFields == {"place", "status", "peer", "mux", "known", "async", "old", "tries"}
UdtFields == {"opened", "listening", "connecting", "connected", "refused", "closing", "broken", "onList", "patience",
              "lingers"}

\* A number not given yet is of no socket.
Fresh == \A u \in Socket : u > made => sock[u].place = "none" /\ sock[u].peer = 0

\* A listener is open and no connection; accepted sockets, and those that connect in the background,
\* are beyond the states from which one may listen.
Kinds ==
    \A u \in Socket :
        /\ sock[u].status = "LISTENING" => sock[u].place = "sockets" /\ ~udt[u].connected
        /\ sock[u].peer # 0 \/ sock[u].async => sock[u].status \notin {"INIT", "OPENED", "LISTENING"}

\* What a thread that holds the lock of a socket may rely on.
Held ==
    \A t \in Threads :
        /\ app[t].pc \in {"connecting", "complete", "closing", "erase"} => sock[app[t].u].status # "LISTENING"
        /\ app[t].pc \in {"connecting", "complete"} =>
              ~sock[app[t].u].async /\ sock[app[t].u].peer = 0 /\ app[t].u <= made

\* The collector has the socket, or has deleted it.
Done(n) == sock[n].place \in {"closed", "removed"}

\* A socket that newConnection has made and inserted, or one that is done with.
Accepted(n) == n \in Socket /\ sock[n].place # "none" /\ (sock[n].peer # 0 \/ Done(n))

\* What a worker relies on between two steps of newConnection and of connect_complete.
Work ==
    \A m \in Socket :
        LET w == worker[m]
        IN  /\ w.pc \in {"listen", "create"} => w.peer # 0
            /\ w.pc = "insert" => /\ w.ns \in Socket /\ w.ns <= made
                                  /\ sock[w.ns].place = "none" /\ sock[w.ns].peer # 0
                                  /\ \A k \in Socket : worker[k].pc = "insert" /\ worker[k].ns = w.ns => k = m
            /\ w.pc = "enqueue" => Accepted(w.ns)
            /\ w.pc = "complete" => sock[w.u].async \/ Done(w.u)

Queue == \A l \in Socket : \A n \in queued[l] : Accepted(n)

Todo == \A u \in gc.todo : u \in Socket /\ sock[u].place = "closed"

\* The inductive invariant of the first part.
Core == Shape /\ Fresh /\ Kinds /\ Held /\ Work /\ Queue /\ Todo
-----------------------------------------------------------------------------
\* What the invariants say of a socket is as it was.
Kept(u) == /\ sock'[u].place = sock[u].place /\ sock'[u].status = sock[u].status
           /\ sock'[u].peer = sock[u].peer /\ sock'[u].async = sock[u].async

Flags(u) == udt'[u].connected = udt[u].connected /\ udt'[u].broken = udt[u].broken

LEMMA Numbers ==
    ASSUME Shape
    PROVE  /\ made \in Nat
           /\ \A u \in Socket : /\ u > made + 1 => u > made /\ u # made + 1
                                /\ u <= made => u <= made + 1 /\ u # made + 1
                                /\ u > made \/ u <= made
           /\ made + 1 \in Socket => made + 1 > made
BY SocketsAssumption DEF Shape, Socket

LEMMA newSocketStep == ASSUME Core, NEW t \in Threads, newSocket(t) PROVE Core'
<1> DEFINE n == made + 1
<1>1. n \in Socket /\ made' = n /\ UNCHANGED <<udt, queued, mux, app, worker, gc>>
  BY SocketsAssumption DEF Core, Shape, newSocket, Socket
<1>2. Shape'
  BY <1>1 DEF Core, Shape, newSocket, Socket
<1>3. /\ sock'[n].place = "sockets" /\ sock'[n].status = sock[n].status
      /\ sock'[n].peer = sock[n].peer /\ sock'[n].async = sock[n].async
      /\ \A u \in Socket : u # n => Kept(u)
  BY <1>1 DEF Core, Shape, newSocket, Kept
<1>4. sock[n].place = "none" /\ sock[n].peer = 0
  BY <1>1 DEF Core, Fresh, Shape
<1>11. \A u \in Socket : (u > n => u > made /\ u # n) /\ (u <= made => u <= n /\ u # n)
  BY SocketsAssumption DEF Core, Shape, Socket
<1> HIDE DEF n
<1>5. Fresh'
  BY <1>1, <1>3, <1>11 DEF Core, Fresh, Kept
<1>6. Kinds'
  BY <1>1, <1>3, <1>4 DEF Core, Kinds, Kept
<1>7. Held'
  BY <1>1, <1>3, <1>4, <1>11 DEF Core, Held, Kept, Shape
<1>8. Work'
  BY <1>1, <1>3, <1>4, <1>11 DEF Core, Work, Kept, Shape, Accepted, Done
<1>9. Queue'
  BY <1>1, <1>3, <1>4 DEF Core, Queue, Kept, Shape, Accepted, Done
<1>10. Todo'
  BY <1>1, <1>3, <1>4 DEF Core, Todo, Kept
<1> QED
  BY <1>2, <1>5, <1>6, <1>7, <1>8, <1>9, <1>10 DEF Core

LEMMA bindStep == ASSUME Core, NEW t \in Threads, NEW v \in Socket, bind(t, v) PROVE Core'
<1>1. /\ sock[v].status = "INIT" /\ UNCHANGED <<made, queued, app, worker, gc>>
      /\ \A u \in Socket : /\ sock'[u].place = sock[u].place /\ sock'[u].peer = sock[u].peer
                           /\ sock'[u].async = sock[u].async /\ Flags(u)
                           /\ sock'[u].status = IF u = v THEN "OPENED" ELSE sock[u].status
  BY DEF Core, Shape, bind, Flags
<1>2. Shape'
  BY DEF Core, Shape, bind, newMux, reuseMux, Shared
<1>3. Fresh' /\ Kinds' /\ Held' /\ Work' /\ Queue' /\ Todo'
  BY <1>1 DEF Core, Fresh, Kinds, Held, Work, Queue, Todo, Accepted, Done, Flags, Shape
<1> QED
  BY <1>2, <1>3 DEF Core

LEMMA listenStep == ASSUME Core, NEW t \in Threads, NEW v \in Socket, listen(t, v) PROVE Core'
<1>1. /\ sock[v].status = "OPENED" /\ sock[v].place = "sockets" /\ ~udt[v].connected
      /\ SocketLockFree(v) /\ UNCHANGED <<made, queued, app, worker, gc>>
      /\ \A u \in Socket : /\ sock'[u].place = sock[u].place /\ sock'[u].peer = sock[u].peer
                           /\ sock'[u].async = sock[u].async /\ Flags(u)
                           /\ sock'[u].status = IF u = v THEN "LISTENING" ELSE sock[u].status
  BY DEF Core, Shape, listen, Flags, Calls, Located
<1>2. Shape'
  BY DEF Core, Shape, listen, setListener
<1>3. Fresh' /\ Kinds' /\ Work' /\ Queue' /\ Todo'
  BY <1>1 DEF Core, Fresh, Kinds, Work, Queue, Todo, Accepted, Done, Flags, Shape
<1>4. Held'
  BY <1>1 DEF Core, Held, Shape, SocketLockFree
<1> QED
  BY <1>2, <1>3, <1>4 DEF Core

LEMMA AcceptBeginStep == ASSUME Core, NEW t \in Threads, NEW v \in Socket, AcceptBegin(t, v) PROVE Core'
  BY DEF Core, Shape, Fresh, Kinds, Held, Work, Queue, Todo, Accepted, Done, AcceptBegin, Idle

\* What a try to accept does: nobody but the thread moves; it gives up, takes the newest or waits.
LEMMA AcceptTryMoves ==
    ASSUME Core, NEW t \in Threads, AcceptTry(t)
    PROVE  /\ UNCHANGED <<made, sock, udt, mux, connectors, worker, gc>>
           /\ app[t].pc = "accept" /\ app[t].u \in Socket
           /\ DOMAIN app' = Threads /\ \A s \in Threads : s # t => app'[s] = app[s]
           /\ \/ app'[t] = Idle /\ UNCHANGED queued
              \/ /\ queued' = [queued EXCEPT ![app[t].u] = @ \ Newest(queued[app[t].u])]
                 /\ \E n \in Newest(queued[app[t].u]) : app'[t] = [app[t] EXCEPT !.pc = "accepted", !.got = n]
              \/ app'[t] = [app[t] EXCEPT !.pc = "wait"] /\ UNCHANGED queued
<1>1. /\ UNCHANGED <<made, sock, udt, mux, connectors, worker, gc>>
      /\ app[t].pc = "accept" /\ app[t].u \in Socket
  BY DEF AcceptTry, Core, Shape
<1>2. DOMAIN app = Threads
  BY DEF Core, Shape
<1>3. CASE app' = [app EXCEPT ![t] = Idle] /\ UNCHANGED queued
  BY <1>1, <1>2, <1>3
<1>4. CASE app' = [app EXCEPT ![t].pc = "wait"] /\ UNCHANGED queued
  BY <1>1, <1>2, <1>4
<1>5. ASSUME NEW n \in Newest(queued[app[t].u]), app' = [app EXCEPT ![t] = [@ EXCEPT !.pc = "accepted", !.got = n]],
             queued' = [queued EXCEPT ![app[t].u] = @ \ Newest(queued[app[t].u])]
      PROVE  /\ DOMAIN app' = Threads /\ \A s \in Threads : s # t => app'[s] = app[s]
             /\ app'[t] = [app[t] EXCEPT !.pc = "accepted", !.got = n]
  BY <1>2, <1>5
<1> QED
  BY <1>1, <1>3, <1>4, <1>5 DEF AcceptTry

LEMMA AcceptTryStep == ASSUME Core, NEW t \in Threads, AcceptTry(t) PROVE Core'
<1>a. /\ UNCHANGED <<made, sock, udt, mux, connectors, worker, gc>>
      /\ app[t].pc = "accept" /\ app[t].u \in Socket
      /\ DOMAIN app' = Threads /\ \A s \in Threads : s # t => app'[s] = app[s]
      /\ \/ app'[t] = Idle /\ UNCHANGED queued
         \/ /\ queued' = [queued EXCEPT ![app[t].u] = @ \ Newest(queued[app[t].u])]
            /\ \E n \in Newest(queued[app[t].u]) : app'[t] = [app[t] EXCEPT !.pc = "accepted", !.got = n]
         \/ app'[t] = [app[t] EXCEPT !.pc = "wait"] /\ UNCHANGED queued
  BY AcceptTryMoves
<1>1. /\ UNCHANGED <<made, sock, udt, mux, worker, gc>>
      /\ \A s \in Threads : /\ app'[s].pc \in {"connecting", "complete", "closing", "erase"} => app'[s] = app[s]
                            /\ DOMAIN app'[s] = {"pc", "u", "got"}
                            /\ app'[s].pc # "idle" => app'[s].u = app[s].u /\ app[s].pc # "idle"
      /\ DOMAIN app' = Threads /\ DOMAIN queued' = Socket
      /\ \A l \in Socket : queued'[l] \subseteq queued[l]
  <2>1. \A s \in Threads : DOMAIN app[s] = {"pc", "u", "got"}
    BY DEF Core, Shape
  <2>2. /\ DOMAIN app'[t] = {"pc", "u", "got"} /\ app'[t].pc \in {"idle", "accepted", "wait"}
        /\ app'[t].pc # "idle" => app'[t].u = app[t].u
    <3>1. DOMAIN app[t] = {"pc", "u", "got"}
      BY <2>1
    <3>2. CASE app'[t] = Idle
      BY <3>2 DEF Idle
    <3>3. CASE app'[t] = [app[t] EXCEPT !.pc = "wait"]
      BY <3>1, <3>3
    <3>4. ASSUME NEW n, app'[t] = [app[t] EXCEPT !.pc = "accepted", !.got = n]
          PROVE  DOMAIN app'[t] = {"pc", "u", "got"} /\ app'[t].pc = "accepted" /\ app'[t].u = app[t].u
      BY <3>1, <3>4
    <3> QED
      BY <1>a, <3>2, <3>3, <3>4
  <2>3. DOMAIN queued' = Socket /\ \A l \in Socket : queued'[l] \subseteq queued[l]
    <3>1. queued' = queued \/ queued' = [queued EXCEPT ![app[t].u] = @ \ Newest(queued[app[t].u])]
      BY <1>a
    <3> QED
      BY <3>1 DEF Core, Shape
  <2> QED
    BY <1>a, <2>1, <2>2, <2>3
<1>2. Shape' /\ Fresh' /\ Kinds' /\ Held' /\ Work' /\ Queue' /\ Todo'
  BY <1>1 DEF Core, Shape, Fresh, Kinds, Held, Work, Queue, Todo, Accepted, Done
<1> QED
  BY <1>2 DEF Core

LEMMA AcceptEndStep == ASSUME Core, NEW t \in Threads, AcceptEnd(t) PROVE Core'
<1>1. /\ UNCHANGED <<made, udt, queued, mux, worker, gc>> /\ app' = [app EXCEPT ![t] = Idle]
      /\ \A u \in Socket : Kept(u)
  BY DEF Core, Shape, AcceptEnd, Kept
<1>2. Shape'
  BY DEF Core, Shape, AcceptEnd, Idle
<1>3. Fresh' /\ Kinds' /\ Held' /\ Work' /\ Queue' /\ Todo'
  BY <1>1 DEF Core, Shape, Fresh, Kinds, Held, Work, Queue, Todo, Accepted, Done, Kept, Idle
<1> QED
  BY <1>2, <1>3 DEF Core

LEMMA ConnectBeginStep ==
    ASSUME Core, NEW t \in Threads, NEW v \in Socket, NEW async \in BOOLEAN, ConnectBegin(t, v, async)
    PROVE  Core'
<1>1. /\ sock[v].status \in {"INIT", "OPENED"} /\ sock[v].place = "sockets" /\ SocketLockFree(v)
      /\ UNCHANGED <<made, queued, worker, gc>>
      /\ \A u \in Socket : /\ sock'[u].place = sock[u].place /\ sock'[u].peer = sock[u].peer /\ Flags(u)
                           /\ u # v => Kept(u)
      /\ sock'[v].status = "CONNECTING" /\ sock'[v].async = async
      /\ app' = IF async THEN app ELSE [app EXCEPT ![t] = [Idle EXCEPT !.pc = "connecting", !.u = v]]
  BY DEF Core, Shape, ConnectBegin, Flags, Calls, Located, Kept
<1>2. Shape'
  BY DEF Core, Shape, ConnectBegin, newMux, Idle
<1>3. Fresh' /\ Kinds' /\ Work' /\ Queue' /\ Todo'
  BY <1>1 DEF Core, Fresh, Kinds, Work, Queue, Todo, Accepted, Done, Flags, Shape, Kept
<1>4. v <= made /\ sock[v].peer = 0
  BY <1>1, SocketsAssumption DEF Core, Fresh, Kinds, Shape, Socket
<1>5. Held'
  BY <1>1, <1>4 DEF Core, Held, Shape, SocketLockFree, Kept, Idle
<1> QED
  BY <1>2, <1>3, <1>5 DEF Core

LEMMA ConnectAnsweredStep ==
    ASSUME Core, NEW t \in Threads, NEW refused \in BOOLEAN, ConnectAnswered(t, refused)
    PROVE  Core'
<1> DEFINE v == app[t].u
<1>1. /\ UNCHANGED <<made, sock, queued, mux, worker, gc>> /\ app' = [app EXCEPT ![t].pc = "complete"]
      /\ app[t].pc = "connecting" /\ v \in Socket
      /\ \A u \in Socket : u # v => Flags(u)
  BY DEF Core, Shape, ConnectAnswered, connect, Flags
<1>2. Shape'
  BY DEF Core, Shape, ConnectAnswered, connect
<1>3. sock[v].status # "LISTENING"
  BY <1>1 DEF Core, Held
<1>4. Fresh' /\ Kinds' /\ Held' /\ Work' /\ Queue' /\ Todo'
  BY <1>1, <1>3 DEF Core, Fresh, Kinds, Held, Work, Queue, Todo, Accepted, Done, Flags, Shape
<1> QED
  BY <1>2, <1>4 DEF Core

\* The three ends of a call that set the status of the socket, whose lock they hold.
LEMMA CallEndStep ==
    ASSUME Core, NEW t \in Threads, ConnectEnd(t) \/ ConnectFails(t) \/ CloseEnd(t)
    PROVE  Core'
<1> DEFINE v == app[t].u
           closed == [sock[v] EXCEPT !.status = "CLOSED", !.place = "closed", !.old = FALSE]
<1>1. /\ UNCHANGED <<made, udt, queued, mux, worker, gc>> /\ app' = [app EXCEPT ![t] = Idle]
      /\ app[t].pc \in {"connecting", "complete", "erase"} /\ v \in Socket
  BY DEF Core, Shape, ConnectEnd, ConnectFails, CloseEnd
<1>a. \/ /\ app[t].pc \in {"connecting", "complete"}
         /\ \E st \in {"OPENED", "CONNECTED"} : sock' = [sock EXCEPT ![v].status = st]
      \/ sock' = sock
      \/ sock[v].place = "sockets" /\ sock' = [sock EXCEPT ![v] = closed]
  BY DEF ConnectEnd, ConnectFails, CloseEnd, Located
<1>b. DOMAIN sock' = Socket /\ \A u \in Socket : u # v => sock'[u] = sock[u]
  BY <1>1, <1>a DEF Core, Shape
<1>c. \A u \in Socket : DOMAIN sock[u] = {"place", "status", "peer", "mux", "known", "async", "old", "tries"}
  BY DEF Core, Shape
<1>3. /\ DOMAIN sock'[v] = DOMAIN sock[v]
      /\ sock'[v].peer = sock[v].peer /\ sock'[v].async = sock[v].async
      /\ \/ /\ app[t].pc \in {"connecting", "complete"}
            /\ sock'[v].place = sock[v].place /\ sock'[v].status \in {"OPENED", "CONNECTED"}
         \/ Kept(v)
         \/ sock[v].place = "sockets" /\ sock'[v].place = "closed" /\ sock'[v].status = "CLOSED"
  <2>1. CASE sock' = sock
    BY <2>1 DEF Kept
  <2>2. ASSUME app[t].pc \in {"connecting", "complete"}, NEW st \in {"OPENED", "CONNECTED"},
               sock' = [sock EXCEPT ![v].status = st]
        PROVE  /\ DOMAIN sock'[v] = DOMAIN sock[v]
               /\ sock'[v].peer = sock[v].peer /\ sock'[v].async = sock[v].async
               /\ sock'[v].place = sock[v].place /\ sock'[v].status \in {"OPENED", "CONNECTED"}
    BY <1>1, <1>c, <2>2 DEF Core, Shape
  <2>3. CASE sock[v].place = "sockets" /\ sock' = [sock EXCEPT ![v] = closed]
    <3>1. sock'[v] = closed
      BY <1>1, <2>3 DEF Core, Shape
    <3>2. DOMAIN sock[v] = {"place", "status", "peer", "mux", "known", "async", "old", "tries"}
      BY <1>1, <1>c
    <3>3. /\ DOMAIN sock'[v] = DOMAIN sock[v]
          /\ sock'[v].peer = sock[v].peer /\ sock'[v].async = sock[v].async
          /\ sock'[v].place = "closed" /\ sock'[v].status = "CLOSED"
      BY <3>1, <3>2
    <3> QED
      BY <2>3, <3>3
  <2> QED
    BY <1>a, <2>1, <2>2, <2>3
<1>d. \A u \in Socket : u # v => Kept(u)
  BY <1>b DEF Kept
<1>2. Shape'
  <2>1. \A u \in Socket : DOMAIN sock'[u] = DOMAIN sock[u]
    BY <1>b, <1>3
  <2> QED
    BY <1>1, <1>b, <1>c, <2>1 DEF Core, Shape, Idle
<1>4. /\ sock[v].status # "LISTENING"
      /\ app[t].pc \in {"connecting", "complete"} => ~sock[v].async /\ sock[v].peer = 0
  BY <1>1 DEF Core, Held
<1> HIDE DEF v
<1>5. Fresh' /\ Todo'
  BY <1>1, <1>d, <1>3 DEF Core, Fresh, Todo, Kept
<1>6. Kinds'
  BY <1>1, <1>d, <1>3, <1>4 DEF Core, Kinds, Kept
<1>7. Held'
  BY <1>1, <1>d, <1>3, <1>4 DEF Core, Held, Kept, Shape, Idle
<1>8. Work' /\ Queue'
  BY <1>1, <1>d, <1>3 DEF Core, Work, Queue, Accepted, Done, Kept, Shape
<1> QED
  BY <1>2, <1>5, <1>6, <1>7, <1>8 DEF Core

LEMMA CloseBeginStep == ASSUME Core, NEW t \in Threads, NEW v \in Socket, CloseBegin(t, v) PROVE Core'
<1>1. /\ UNCHANGED <<made, queued, mux, worker, gc>>
      /\ \A u \in Socket : Kept(u) /\ udt'[u].connected = udt[u].connected
  BY DEF Core, Shape, CloseBegin, Kept
<1>2. /\ DOMAIN app' = Threads /\ \A s \in Threads : DOMAIN app'[s] = {"pc", "u", "got"}
      /\ \A s \in Threads : \/ app'[s] = app[s]
                            \/ app'[s].pc = "accept" /\ app'[s].u = v
                            \/ app'[s].pc = "closing" /\ app'[s].u = v /\ sock[v].status # "LISTENING"
  <2>1. CASE sock[v].status = "LISTENING"
    <3>1. app' = [s \in Threads |-> IF app[s].pc = "wait" /\ app[s].u = v THEN [app[s] EXCEPT !.pc = "accept"]
                                    ELSE app[s]]
      BY <2>1 DEF CloseBegin, Awake
    <3> QED
      BY <3>1 DEF Core, Shape
  <2>2. CASE sock[v].status # "LISTENING"
    <3>1. app' = [app EXCEPT ![t] = [pc |-> "closing", u |-> v, got |-> 0]]
      BY <2>2 DEF CloseBegin, Idle
    <3> QED
      BY <2>2, <3>1 DEF Core, Shape
  <2> QED
    BY <2>1, <2>2
<1>3. /\ DOMAIN sock' = Socket /\ \A u \in Socket : DOMAIN sock'[u] = DOMAIN sock[u]
      /\ DOMAIN udt' = Socket /\ \A u \in Socket : DOMAIN udt'[u] = DOMAIN udt[u]
  BY DEF Core, Shape, CloseBegin
<1>6. Shape'
  BY <1>1, <1>2, <1>3 DEF Core, Shape
<1>4. Fresh' /\ Kinds' /\ Work' /\ Queue' /\ Todo'
  BY <1>1 DEF Core, Fresh, Kinds, Work, Queue, Todo, Accepted, Done, Kept, Shape
<1>5. Held'
  BY <1>1, <1>2 DEF Core, Held, Kept, Shape
<1> QED
  BY <1>4, <1>5, <1>6 DEF Core

LEMMA CloseUdtStep ==
    ASSUME Core, NEW t \in Threads, NEW lingers \in BOOLEAN, CloseUdt(t, lingers)
    PROVE  Core'
<1>1. /\ UNCHANGED <<made, sock, queued, mux, worker, gc>> /\ app' = [app EXCEPT ![t].pc = "erase"]
      /\ app[t].pc = "closing"
  BY DEF CloseUdt
<1>2. /\ DOMAIN udt' = Socket /\ \A u \in Socket : DOMAIN udt'[u] = DOMAIN udt[u]
      /\ \A u \in Socket : udt'[u].connected => udt[u].connected
  <2>1. CASE lingers
    <3>1. udt' = [udt EXCEPT ![app[t].u].lingers = TRUE]
      BY <2>1 DEF CloseUdt
    <3> QED
      BY <3>1 DEF Core, Shape
  <2>2. CASE ~lingers
    <3>1. udt' = [udt EXCEPT ![app[t].u] = Shut(app[t].u)]
      BY <2>2 DEF CloseUdt
    <3> QED
      BY <3>1 DEF Core, Shape, Shut
  <2> QED
    BY <2>1, <2>2
<1>3. Shape'
  BY <1>1, <1>2 DEF Core, Shape
<1>4. Fresh' /\ Kinds' /\ Held' /\ Work' /\ Queue' /\ Todo'
  BY <1>1, <1>2 DEF Core, Shape, Fresh, Kinds, Held, Work, Queue, Todo, Accepted, Done
<1> QED
  BY <1>3, <1>4 DEF Core
-----------------------------------------------------------------------------
LEMMA WorkerListenStep == ASSUME Core, NEW m \in Socket, NEW p \in Peers, WorkerListen(m, p) PROVE Core'
<1>1. /\ UNCHANGED <<made, sock, udt, queued, mux, app, gc>>
      /\ DOMAIN worker' = Socket /\ \A k \in Socket : k # m => worker'[k] = worker[k]
      /\ DOMAIN worker'[m] = {"pc", "u", "ns", "peer"}
      /\ worker'[m].pc = "listen" /\ worker'[m].u = mux[m].listener /\ worker'[m].peer = p
  BY DEF WorkerListen, Rest, Core, Shape
<1>2. mux[m].listener \in Socket /\ p # 0
  BY SocketsAssumption DEF Core, Shape, WorkerListen
<1> QED
  BY <1>1, <1>2 DEF Core, Shape, Fresh, Kinds, Held, Work, Queue, Todo, Accepted, Done

\* What both outcomes of WorkerLocate have in common.
ClosedSome ==
    /\ DOMAIN sock' = Socket /\ \A n \in Socket : DOMAIN sock'[n] = DOMAIN sock[n]
    /\ \A n \in Socket : /\ sock'[n].place = sock[n].place /\ sock'[n].peer = sock[n].peer
                         /\ sock'[n].async = sock[n].async /\ sock'[n].status \in {sock[n].status, "CLOSED"}
    /\ DOMAIN queued' = Socket /\ \A l \in Socket : queued'[l] \subseteq queued[l]

\* What the invariants see of a socket that is closed, or whose time stamp is set.

LEMMA ClosedRecord ==
    ASSUME NEW r, DOMAIN r = SockFields, NEW c, c = [r EXCEPT !.status = "CLOSED", !.old = FALSE]
    PROVE  /\ DOMAIN c = DOMAIN r /\ c.place = r.place /\ c.peer = r.peer /\ c.async = r.async
           /\ c.status = "CLOSED"
BY DEF SockFields

LEMMA StampedRecord ==
    ASSUME NEW r, DOMAIN r = SockFields, NEW x, NEW c, c = [r EXCEPT !.old = x]
    PROVE  /\ DOMAIN c = DOMAIN r /\ c.place = r.place /\ c.peer = r.peer /\ c.async = r.async
           /\ c.status = r.status
BY DEF SockFields

LEMMA ClosesSome ==
    ASSUME Shape, NEW l \in Socket, NEW B,
           sock' = [n \in Socket |-> IF n \in B THEN [sock[n] EXCEPT !.status = "CLOSED", !.old = FALSE] ELSE sock[n]],
           queued' = [queued EXCEPT ![l] = @ \ B]
    PROVE  ClosedSome
<1>1. DOMAIN sock' = Socket
  OBVIOUS
<1>2. ASSUME NEW n \in Socket
      PROVE  /\ DOMAIN sock'[n] = DOMAIN sock[n]
             /\ sock'[n].place = sock[n].place /\ sock'[n].peer = sock[n].peer
             /\ sock'[n].async = sock[n].async /\ sock'[n].status \in {sock[n].status, "CLOSED"}
  <2>1. CASE n \in B
    <3>1. sock'[n] = [sock[n] EXCEPT !.status = "CLOSED", !.old = FALSE]
      BY <2>1
    <3>2. DOMAIN sock[n] = SockFields
      BY DEF Shape, SockFields
    <3> QED
      BY <3>1, <3>2, ClosedRecord
  <2>2. CASE n \notin B
    BY <2>2
  <2> QED
    BY <2>1, <2>2
<1>3. DOMAIN queued' = Socket /\ \A k \in Socket : queued'[k] \subseteq queued[k]
  BY DEF Shape
<1> QED
  BY <1>1, <1>2, <1>3 DEF ClosedSome

LEMMA WorkerLocateStep == ASSUME Core, NEW m \in Socket, WorkerLocate(m) PROVE Core'
<1> DEFINE w == worker[m]
           broken == {n \in Newest(Known(w.peer)) : udt[n].broken}
<1>1. UNCHANGED <<made, udt, mux, app, gc>> /\ w.pc = "listen" /\ w.u \in Socket
  BY DEF WorkerLocate, Core, Shape
<1>2. worker' = [worker EXCEPT ![m] = Rest] \/ worker' = [worker EXCEPT ![m].pc = "create"]
  BY DEF WorkerLocate
<1>3. \/ UNCHANGED <<sock, queued>>
      \/ /\ sock' = [n \in Socket |-> IF n \in broken THEN [sock[n] EXCEPT !.status = "CLOSED", !.old = FALSE]
                                      ELSE sock[n]]
         /\ queued' = [queued EXCEPT ![w.u] = @ \ broken]
  BY DEF WorkerLocate
<1> HIDE DEF broken
<1>4. ClosedSome
  <2>1. CASE UNCHANGED <<sock, queued>>
    BY <2>1 DEF ClosedSome, Core, Shape
  <2> QED
    BY <1>1, <1>3, <2>1, ClosesSome DEF Core
<1>5. Shape'
  BY <1>1, <1>2, <1>4 DEF Core, Shape, Rest, ClosedSome
<1>6. Fresh' /\ Kinds' /\ Held' /\ Queue' /\ Todo'
  BY <1>1, <1>4 DEF Core, Shape, Fresh, Kinds, Held, Queue, Todo, Accepted, Done, ClosedSome
<1>8. /\ \A k \in Socket : k # m => worker'[k] = worker[k]
      /\ \/ worker'[m].pc = "idle"
         \/ worker'[m].pc = "create" /\ worker'[m].peer = w.peer
  BY <1>2 DEF Core, Shape, Rest
<1>7. Work'
  BY <1>1, <1>4, <1>8 DEF Core, Shape, Work, Accepted, Done, ClosedSome
<1> QED
  BY <1>5, <1>6, <1>7 DEF Core

LEMMA WorkerCreateStep == ASSUME Core, NEW m \in Socket, WorkerCreate(m) PROVE Core'
<1> DEFINE n == made + 1
           w == worker[m]
<1>1. CASE Cardinality(queued[w.u]) >= BackLog \/ made = MaxSockets
  <2>1. UNCHANGED <<made, sock, udt, mux, queued, app, gc>> /\ worker' = [worker EXCEPT ![m] = Rest]
    BY <1>1 DEF WorkerCreate
  <2> QED
    BY <2>1 DEF Core, Shape, Fresh, Kinds, Held, Work, Queue, Todo, Rest, Accepted, Done
<1>2. CASE ~(Cardinality(queued[w.u]) >= BackLog \/ made = MaxSockets)
  <2>1. /\ n \in Socket /\ made' = n /\ UNCHANGED <<queued, app, gc>>
        /\ w.pc = "create"
        /\ sock' = [sock EXCEPT ![n] = [@ EXCEPT !.status = "CONNECTED", !.peer = w.peer, !.mux = m]]
        /\ udt' = [udt EXCEPT ![n] = [@ EXCEPT !.opened = TRUE, !.connected = TRUE, !.onList = TRUE]]
        /\ mux' = [mux EXCEPT ![m].refs = @ + 1]
        /\ worker' = [worker EXCEPT ![m] = [@ EXCEPT !.pc = "insert", !.ns = n]]
    BY <1>2, SocketsAssumption DEF WorkerCreate, Socket, Core, Shape, reuseMux
  <2>2. Shape'
    <3>1. made' \in 0 .. MaxSockets
      BY <2>1, SocketsAssumption DEF Socket
    <3>2. DOMAIN sock' = Socket /\ \A u \in Socket : DOMAIN sock'[u] = DOMAIN sock[u]
      BY <2>1 DEF Core, Shape
    <3>3. DOMAIN udt' = Socket /\ \A u \in Socket : DOMAIN udt'[u] = DOMAIN udt[u]
      BY <2>1 DEF Core, Shape
    <3>4. /\ DOMAIN mux' = Socket
          /\ \A k \in Socket : DOMAIN mux'[k] = DOMAIN mux[k] /\ mux'[k].listener = mux[k].listener
      BY <2>1 DEF Core, Shape
    <3>5. /\ DOMAIN worker' = Socket
          /\ \A k \in Socket : /\ DOMAIN worker'[k] = DOMAIN worker[k] /\ worker'[k].u = worker[k].u
                               /\ worker'[k].pc \notin {"idle", "terminated"}
                                     => worker[k].pc \notin {"idle", "terminated"}
      BY <2>1 DEF Core, Shape
    <3> HIDE DEF n, w
    <3> QED
      BY <2>1, <3>1, <3>2, <3>3, <3>4, <3>5 DEF Core, Shape
  <2>3. /\ \A u \in Socket : u # n => Kept(u) /\ udt'[u].connected = udt[u].connected
        /\ sock'[n].place = sock[n].place /\ sock'[n].peer = w.peer /\ sock'[n].status = "CONNECTED"
        /\ w.peer # 0 /\ sock[n].place = "none"
    <3>1. sock[n].place = "none" /\ w.peer # 0
      BY <2>1, Numbers DEF Core, Fresh, Work
    <3> QED
      BY <2>1, <3>1 DEF Core, Shape, Kept
  <2>4. \A u \in Socket : (u > n => u > made /\ u # n) /\ (u <= made => u <= n /\ u # n)
    BY SocketsAssumption DEF Core, Shape, Socket
  <2>5. n <= n
    BY SocketsAssumption DEF Core, Shape
  <2>6. /\ worker'[m].pc = "insert" /\ worker'[m].ns = n
        /\ \A k \in Socket : k # m => worker'[k] = worker[k]
    BY <2>1 DEF Core, Shape
  <2> HIDE DEF n
  <2>7. Fresh' /\ Todo'
    BY <2>1, <2>3, <2>4 DEF Core, Fresh, Todo, Kept
  <2>11. Kinds'
    BY <2>3 DEF Core, Kinds, Kept
  <2>8. Held'
    BY <2>1, <2>3, <2>4 DEF Core, Held, Shape, Kept
  <2>9. Queue'
    BY <2>1, <2>3 DEF Core, Shape, Queue, Accepted, Done, Kept
  <2>10. Work'
    BY <2>1, <2>3, <2>4, <2>5, <2>6 DEF Core, Shape, Work, Accepted, Done, Kept
  <2> QED
    BY <2>2, <2>7, <2>8, <2>9, <2>10, <2>11 DEF Core
<1> QED
  BY <1>1, <1>2

LEMMA WorkerInsertStep == ASSUME Core, NEW m \in Socket, WorkerInsert(m) PROVE Core'
<1> DEFINE n == worker[m].ns
<1>1. /\ UNCHANGED <<made, udt, queued, mux, app, gc>> /\ worker[m].pc = "insert"
      /\ n \in Socket /\ n <= made /\ sock[n].place = "none" /\ sock[n].peer # 0
      /\ sock' = [sock EXCEPT ![n].place = "sockets"]
      /\ worker' = [worker EXCEPT ![m].pc = "enqueue"]
  BY DEF Core, Work, WorkerInsert
<1>2. Shape'
  BY <1>1 DEF Core, Shape
<1>3. /\ \A u \in Socket : u # n => Kept(u)
      /\ sock'[n].place = "sockets" /\ sock'[n].peer = sock[n].peer /\ sock'[n].status = sock[n].status
      /\ sock'[n].async = sock[n].async
  BY <1>1 DEF Core, Shape, Kept
<1>4. /\ worker'[m].pc = "enqueue" /\ worker'[m].ns = n
      /\ \A k \in Socket : k # m => worker'[k] = worker[k]
  BY <1>1 DEF Core, Shape
<1>5. \A u \in Socket : u > made => u # n
  BY <1>1, SocketsAssumption DEF Core, Shape, Socket
<1>6. \A k \in Socket : k # m /\ worker[k].pc = "insert" => worker[k].ns # n
  BY <1>1 DEF Core, Work
<1> HIDE DEF n
<1>7. Fresh' /\ Kinds' /\ Todo' /\ Queue'
  BY <1>1, <1>3, <1>5 DEF Core, Fresh, Kinds, Todo, Kept, Queue, Accepted, Done, Shape
<1>8. Held'
  BY <1>1, <1>3 DEF Core, Held, Kept, Shape
<1>9. Work'
  BY <1>1, <1>3, <1>4, <1>6 DEF Core, Shape, Work, Accepted, Done, Kept
<1> QED
  BY <1>2, <1>7, <1>8, <1>9 DEF Core

LEMMA WorkerEnqueueStep == ASSUME Core, NEW m \in Socket, WorkerEnqueue(m) PROVE Core'
<1>1. /\ UNCHANGED <<made, sock, udt, mux, app, gc>> /\ worker[m].pc = "enqueue"
      /\ queued' = [queued EXCEPT ![worker[m].u] = @ \cup {worker[m].ns}]
      /\ worker' = [worker EXCEPT ![m].pc = "signal"]
      /\ Accepted(worker[m].ns)
  BY DEF Core, Work, WorkerEnqueue
<1>2. Shape'
  BY <1>1 DEF Core, Shape, Accepted, Done
<1>3. Fresh' /\ Kinds' /\ Held' /\ Work' /\ Queue' /\ Todo'
  BY <1>1 DEF Core, Shape, Fresh, Kinds, Held, Work, Queue, Todo, Accepted, Done
<1> QED
  BY <1>2, <1>3 DEF Core

LEMMA WorkerSignalStep == ASSUME Core, NEW m \in Socket, WorkerSignal(m) PROVE Core'
<1>1. /\ UNCHANGED <<made, sock, udt, queued, mux, gc>> /\ worker' = [worker EXCEPT ![m] = Rest]
      /\ app' = app \/ \E t \in Threads : app[t].pc = "wait" /\ app' = [app EXCEPT ![t].pc = "accept"]
  BY DEF WorkerSignal
<1>2. Shape'
  BY <1>1 DEF Core, Shape, Rest
<1>3. Fresh' /\ Kinds' /\ Held' /\ Work' /\ Queue' /\ Todo'
  BY <1>1 DEF Core, Shape, Fresh, Kinds, Held, Work, Queue, Todo, Accepted, Done, Rest
<1> QED
  BY <1>2, <1>3 DEF Core

LEMMA WorkerConnectStep ==
    ASSUME Core, NEW m \in Socket, NEW v \in Socket, NEW refused \in BOOLEAN, WorkerConnect(m, v, refused)
    PROVE  Core'
<1>1. /\ UNCHANGED <<made, sock, queued, mux, app, gc>> /\ sock[v].async
      /\ DOMAIN worker' = Socket /\ \A k \in Socket : k # m => worker'[k] = worker[k]
      /\ DOMAIN worker'[m] = {"pc", "u", "ns", "peer"}
      /\ worker'[m].pc = "complete" /\ worker'[m].u = v
  BY DEF WorkerConnect, Rest, Core, Shape
<1>2. /\ DOMAIN udt' = Socket /\ \A u \in Socket : DOMAIN udt'[u] = DOMAIN udt[u]
      /\ \A u \in Socket : u # v => udt'[u].connected = udt[u].connected
  BY DEF Core, Shape, WorkerConnect, connect
<1>3. Shape'
  BY <1>1, <1>2 DEF Core, Shape
<1>4. Fresh' /\ Kinds' /\ Held' /\ Queue' /\ Todo'
  BY <1>1, <1>2 DEF Core, Shape, Fresh, Kinds, Held, Queue, Todo, Accepted, Done
<1>5. Work'
  BY <1>1 DEF Core, Shape, Work, Accepted, Done
<1> QED
  BY <1>3, <1>4, <1>5 DEF Core

LEMMA WorkerConnectEndStep == ASSUME Core, NEW m \in Socket, WorkerConnectEnd(m) PROVE Core'
<1> DEFINE v == worker[m].u
<1>1. /\ UNCHANGED <<made, udt, queued, mux, app, gc>> /\ worker[m].pc = "complete" /\ v \in Socket
      /\ sock' = IF Located(v) THEN [sock EXCEPT ![v].status = "CONNECTED"] ELSE sock
      /\ worker' = [worker EXCEPT ![m] = IF Located(v) THEN Rest ELSE [Rest EXCEPT !.pc = "terminated"]]
  BY DEF Core, Shape, WorkerConnectEnd
<1>2. /\ \A u \in Socket : /\ sock'[u].place = sock[u].place /\ sock'[u].peer = sock[u].peer
                           /\ sock'[u].async = sock[u].async
                           /\ sock'[u].status \in {sock[u].status, "CONNECTED"}
      /\ DOMAIN sock' = Socket /\ \A u \in Socket : DOMAIN sock'[u] = DOMAIN sock[u]
  BY <1>1 DEF Core, Shape
<1>3. /\ DOMAIN worker' = Socket /\ DOMAIN worker'[m] = {"pc", "u", "ns", "peer"}
      /\ worker'[m].pc \in {"idle", "terminated"} /\ \A k \in Socket : k # m => worker'[k] = worker[k]
  BY <1>1 DEF Core, Shape, Rest
<1>4. Shape'
  BY <1>1, <1>2, <1>3 DEF Core, Shape
<1>5. Fresh' /\ Kinds' /\ Held' /\ Queue' /\ Todo'
  BY <1>1, <1>2 DEF Core, Shape, Fresh, Kinds, Held, Queue, Todo, Accepted, Done
<1>6. Work'
  BY <1>1, <1>2, <1>3 DEF Core, Shape, Work, Accepted, Done
<1> QED
  BY <1>4, <1>5, <1>6 DEF Core

\* The steps of a worker that change flags of a connection only.
LEMMA WorkerFlagsStep ==
    ASSUME Core, NEW m \in Socket,
           \/ WorkerExpires(m) \/ \E u \in Socket : WorkerForget(m, u)
           \/ \E u \in Socket, patience \in 0 .. 1 : WorkerBreak(m, u, patience)
    PROVE  Core'
<1>1. UNCHANGED <<made, sock, queued, mux, app, worker, gc>>
  BY DEF WorkerExpires, WorkerForget, WorkerBreak
<1>2. /\ DOMAIN udt' = Socket
      /\ \A u \in Socket : DOMAIN udt'[u] = DOMAIN udt[u] /\ udt'[u].connected = udt[u].connected
  <2>1. CASE WorkerExpires(m)
    <3>1. \E i : udt' = [udt EXCEPT ![i].connecting = FALSE]
      BY <2>1 DEF WorkerExpires
    <3>2. DOMAIN udt = Socket /\ \A u \in Socket : DOMAIN udt[u] = UdtFields
      BY DEF Core, Shape, UdtFields
    <3> QED
      BY <3>1, <3>2 DEF UdtFields
  <2>2. ASSUME NEW v \in Socket, WorkerForget(m, v) PROVE <1>2!:
    BY <2>2 DEF Core, Shape, WorkerForget
  <2>3. ASSUME NEW v \in Socket, NEW patience \in 0 .. 1, WorkerBreak(m, v, patience) PROVE <1>2!:
    <3>1. udt' = [udt EXCEPT ![v] = [@ EXCEPT !.broken = TRUE, !.closing = TRUE, !.patience = patience]]
      BY <2>3 DEF WorkerBreak
    <3> QED
      BY <3>1 DEF Core, Shape
  <2> QED
    BY <2>1, <2>2, <2>3
<1> QED
  BY <1>1, <1>2 DEF Core, Shape, Fresh, Kinds, Held, Work, Queue, Todo, Accepted, Done
-----------------------------------------------------------------------------
LEMMA GcScanStep == ASSUME Core, NEW over \in SUBSET Socket, GcScan(over) PROVE Core'
<1>1. UNCHANGED <<made, mux, app, worker>>
  BY DEF GcScan
<1>2. /\ DOMAIN sock' = Socket /\ \A u \in Socket : DOMAIN sock'[u] = DOMAIN sock[u]
      /\ \A u \in Socket :
            /\ sock'[u].peer = sock[u].peer /\ sock'[u].async = sock[u].async
            /\ \/ sock'[u].place = sock[u].place /\ sock'[u].status = sock[u].status
               \/ sock[u].place = "sockets" /\ sock'[u].place = "closed" /\ sock'[u].status = "CLOSED"
  <2> DEFINE broken == {u \in Socket : sock[u].place = "sockets" /\ udt[u].broken}
             patient == {u \in broken : sock[u].status # "LISTENING" /\ udt[u].patience > 0}
             closes == {u \in broken \ patient : sock[u].status = "LISTENING" => sock[u].old}
  <2>1. sock' = [u \in Socket |->
                   IF u \in closes THEN [sock[u] EXCEPT !.status = "CLOSED", !.place = "closed", !.old = FALSE]
                   ELSE IF u \in over THEN [sock[u] EXCEPT !.old = FALSE] ELSE sock[u]]
    BY DEF GcScan
  <2>2. \A u \in closes : sock[u].place = "sockets"
    OBVIOUS
  <2> HIDE DEF closes
  <2>3. ASSUME NEW u \in Socket
        PROVE  /\ DOMAIN sock'[u] = DOMAIN sock[u]
                 /\ sock'[u].peer = sock[u].peer /\ sock'[u].async = sock[u].async
                 /\ \/ sock'[u].place = sock[u].place /\ sock'[u].status = sock[u].status
                    \/ sock[u].place = "sockets" /\ sock'[u].place = "closed" /\ sock'[u].status = "CLOSED"
    <3>1. DOMAIN sock[u] = SockFields
      BY DEF Core, Shape, SockFields
    <3>2. CASE u \in closes
      <4>1. sock'[u] = [sock[u] EXCEPT !.status = "CLOSED", !.place = "closed", !.old = FALSE]
        BY <2>1, <3>2
      <4> QED
        BY <2>2, <3>1, <3>2, <4>1 DEF SockFields
    <3>3. CASE u \notin closes /\ u \in over
      <4>1. sock'[u] = [sock[u] EXCEPT !.old = FALSE]
        BY <2>1, <3>3
      <4> QED
        BY <3>1, <4>1, StampedRecord
    <3>4. CASE u \notin closes /\ u \notin over
      BY <2>1, <3>4
    <3> QED
      BY <3>2, <3>3, <3>4
  <2> QED
    BY <2>1, <2>3
<1>3. /\ DOMAIN udt' = Socket /\ \A u \in Socket : DOMAIN udt'[u] = DOMAIN udt[u]
      /\ \A u \in Socket : udt'[u].connected = udt[u].connected
  <2>1. /\ DOMAIN udt' = Socket
        /\ \A u \in Socket : udt'[u] \in {udt[u], [udt[u] EXCEPT !.lingers = FALSE, !.closing = TRUE],
                                          [udt[u] EXCEPT !.patience = @ - 1]}
    BY DEF GcScan
  <2>2. ASSUME NEW u \in Socket PROVE DOMAIN udt'[u] = DOMAIN udt[u] /\ udt'[u].connected = udt[u].connected
    <3>1. DOMAIN udt[u] = UdtFields
      BY DEF Core, Shape, UdtFields
    <3> QED
      BY <2>1, <3>1 DEF UdtFields
  <2> QED
    BY <2>1, <2>2
<1>4. DOMAIN queued' = Socket /\ \A l \in Socket : queued'[l] \subseteq queued[l]
  BY DEF GcScan, Core, Shape
<1>5. /\ DOMAIN gc' = DOMAIN gc
      /\ \A u \in gc'.todo : u \in Socket /\ sock'[u].place = "closed"
  BY DEF GcScan, Core, Shape, Finished
<1>6. Shape'
  BY <1>1, <1>2, <1>3, <1>4, <1>5 DEF Core, Shape
<1>7. Fresh' /\ Kinds' /\ Todo'
  BY <1>1, <1>2, <1>3, <1>5 DEF Core, Fresh, Kinds, Todo
<1>8. Held'
  BY <1>1, <1>2 DEF Core, Held, Shape
<1>9. Work' /\ Queue'
  BY <1>1, <1>2, <1>4 DEF Core, Work, Queue, Accepted, Done, Shape
<1> QED
  BY <1>6, <1>7, <1>8, <1>9 DEF Core

LEMMA GcRemoveStep == ASSUME Core, NEW v \in Socket, GcRemove(v) PROVE Core'
<1>1. UNCHANGED <<made, app, worker>> /\ sock[v].place = "closed"
  BY DEF GcRemove, Core, Todo
<1>2. /\ DOMAIN sock' = Socket /\ \A u \in Socket : DOMAIN sock'[u] = DOMAIN sock[u]
      /\ sock'[v].place = "removed" /\ sock'[v].status = "INIT" /\ sock'[v].peer = 0 /\ ~sock'[v].async
      /\ \A u \in Socket \ {v} :
            /\ sock'[u].peer = sock[u].peer /\ sock'[u].async = sock[u].async
            /\ \/ sock'[u].place = sock[u].place /\ sock'[u].status = sock[u].status
               \/ u \in queued[v] /\ sock'[u].place = "closed" /\ sock'[u].status = "CLOSED"
  <2> DEFINE drops == queued[v]
  <2>1. sock' = [n \in Socket |->
                   IF n = v THEN [CUDTSocket EXCEPT !.place = "removed", !.tries = sock[v].tries]
                   ELSE IF n \in drops
                   THEN [sock[n] EXCEPT !.place = "closed", !.status = "CLOSED", !.old = FALSE] ELSE sock[n]]
    BY DEF GcRemove
  <2>2. /\ sock'[v].place = "removed" /\ sock'[v].status = "INIT" /\ sock'[v].peer = 0 /\ ~sock'[v].async
        /\ DOMAIN sock'[v] = SockFields
    <3>1. sock'[v] = [CUDTSocket EXCEPT !.place = "removed", !.tries = sock[v].tries]
      BY <2>1
    <3> QED
      BY <3>1 DEF CUDTSocket, SockFields
  <2> HIDE DEF drops
  <2>3. ASSUME NEW u \in Socket \ {v}
        PROVE  /\ DOMAIN sock'[u] = DOMAIN sock[u]
               /\ sock'[u].peer = sock[u].peer /\ sock'[u].async = sock[u].async
               /\ \/ sock'[u].place = sock[u].place /\ sock'[u].status = sock[u].status
                  \/ u \in drops /\ sock'[u].place = "closed" /\ sock'[u].status = "CLOSED"
    <3>1. DOMAIN sock[u] = SockFields
      BY DEF Core, Shape, SockFields
    <3>2. CASE u \in drops
      <4>1. sock'[u] = [sock[u] EXCEPT !.place = "closed", !.status = "CLOSED", !.old = FALSE]
        BY <2>1, <3>2
      <4> QED
        BY <3>1, <3>2, <4>1 DEF SockFields
    <3>3. CASE u \notin drops
      BY <2>1, <3>3
    <3> QED
      BY <3>2, <3>3
  <2>4. DOMAIN sock[v] = SockFields
    BY DEF Core, Shape, SockFields
  <2> QED
    BY <2>1, <2>2, <2>3, <2>4 DEF drops
<1>3. /\ DOMAIN udt' = Socket /\ \A u \in Socket : DOMAIN udt'[u] = DOMAIN udt[u]
      /\ \A u \in Socket : udt'[u].connected => udt[u].connected
  <2>1. /\ DOMAIN udt' = Socket
        /\ \A u \in Socket : udt'[u] \in {udt[u], [Shut(u) EXCEPT !.broken = TRUE],
                                          [CUDT EXCEPT !.onList = udt[v].onList]}
    BY DEF GcRemove
  <2>2. ASSUME NEW u \in Socket PROVE DOMAIN udt'[u] = DOMAIN udt[u] /\ (udt'[u].connected => udt[u].connected)
    <3>1. DOMAIN udt[u] = UdtFields
      BY DEF Core, Shape, UdtFields
    <3>2. DOMAIN Shut(u) = UdtFields /\ (Shut(u).connected => udt[u].connected)
      BY <3>1 DEF Shut, UdtFields
    <3>3. DOMAIN CUDT = UdtFields /\ ~CUDT.connected
      BY DEF CUDT, UdtFields
    <3> QED
      BY <2>1, <3>1, <3>2, <3>3 DEF UdtFields
  <2> QED
    BY <2>1, <2>2
<1>4. DOMAIN queued' = Socket /\ \A l \in Socket : queued'[l] \subseteq queued[l]
  BY DEF GcRemove, Core, Shape
<1>5. /\ DOMAIN mux' = Socket
      /\ \A m \in Socket : DOMAIN mux'[m] = DOMAIN mux[m] /\ mux'[m].listener \in Socket \cup {0}
  <2> DEFINE p == sock[v].mux
             port == removeListener(mux[p], IF udt[v].opened THEN {v} ELSE {})
  <2>1. mux' = mux \/ mux' = [mux EXCEPT ![p] = [port EXCEPT !.refs = @ - 1]]
    BY DEF GcRemove
  <2>2. \A m \in Socket : DOMAIN mux[m] = {"refs", "listener", "given"} /\ mux[m].listener \in Socket \cup {0}
    BY DEF Core, Shape
  <2>3. DOMAIN mux = Socket
    BY DEF Core, Shape
  <2>4. p \in Socket => DOMAIN port = {"refs", "listener", "given"} /\ port.listener \in Socket \cup {0}
    BY <2>2 DEF removeListener
  <2> HIDE DEF p, port
  <2>5. /\ DOMAIN mux' = Socket
        /\ \A m \in Socket : mux'[m] = mux[m] \/ (m = p /\ mux'[m] = [port EXCEPT !.refs = @ - 1])
    <3>1. CASE mux' = mux
      BY <2>3, <3>1
    <3>2. CASE mux' = [mux EXCEPT ![p] = [port EXCEPT !.refs = @ - 1]]
      BY <2>3, <3>2
    <3> QED
      BY <2>1, <3>1, <3>2
  <2> QED
    BY <2>2, <2>4, <2>5
<1>6. DOMAIN gc' = DOMAIN gc /\ gc'.todo = gc.todo \ {v}
  BY DEF GcRemove, Core, Shape
<1>7. \A n \in queued[v] : Accepted(n)
  BY DEF Core, Queue
<1>8. Shape'
  BY <1>1, <1>2, <1>3, <1>4, <1>5, <1>6 DEF Core, Shape
<1>9. Fresh' /\ Todo'
  BY <1>1, <1>2, <1>6, <1>7 DEF Core, Fresh, Todo, Accepted
<1>10. Kinds'
  BY <1>2, <1>3, <1>7 DEF Core, Kinds, Accepted
<1>11. Held'
  BY <1>1, <1>2 DEF Core, Held, Shape
<1>12. Work' /\ Queue'
  BY <1>1, <1>2, <1>4, <1>7 DEF Core, Work, Queue, Accepted, Done, Shape
<1> QED
  BY <1>8, <1>9, <1>10, <1>11, <1>12 DEF Core

LEMMA cleanupStep == ASSUME Core, cleanup PROVE Core'
<1>1. UNCHANGED <<made, app, worker>> /\ \A t \in Threads : app[t].pc = "idle"
  <2>1. UNCHANGED <<made, app, worker>> /\ \A t \in Threads : app[t] = Idle
    BY DEF cleanup
  <2> QED
    BY <2>1 DEF Idle
<1>2. /\ DOMAIN sock' = Socket /\ \A u \in Socket : DOMAIN sock'[u] = DOMAIN sock[u]
      /\ \A u \in Socket :
            /\ sock'[u].peer = sock[u].peer /\ sock'[u].async = sock[u].async
            /\ \/ sock'[u].place = sock[u].place /\ sock'[u].status = sock[u].status
               \/ sock[u].place = "sockets" /\ sock'[u].place = "closed" /\ sock'[u].status = "CLOSED"
  <2> DEFINE all == {u \in Socket : sock[u].place = "sockets"}
  <2>1. sock' = [u \in Socket |->
                   IF u \in all THEN [sock[u] EXCEPT !.status = "CLOSED", !.place = "closed", !.old = TRUE]
                   ELSE [sock[u] EXCEPT !.old = TRUE]]
    BY DEF cleanup
  <2>2. \A u \in all : sock[u].place = "sockets"
    OBVIOUS
  <2> HIDE DEF all
  <2>3. ASSUME NEW u \in Socket
        PROVE  /\ DOMAIN sock'[u] = DOMAIN sock[u]
                 /\ sock'[u].peer = sock[u].peer /\ sock'[u].async = sock[u].async
                 /\ \/ sock'[u].place = sock[u].place /\ sock'[u].status = sock[u].status
                    \/ sock[u].place = "sockets" /\ sock'[u].place = "closed" /\ sock'[u].status = "CLOSED"
    <3>1. DOMAIN sock[u] = SockFields
      BY DEF Core, Shape, SockFields
    <3>2. CASE u \in all
      <4>1. sock'[u] = [sock[u] EXCEPT !.status = "CLOSED", !.place = "closed", !.old = TRUE]
        BY <2>1, <3>2
      <4> QED
        BY <2>2, <3>1, <3>2, <4>1 DEF SockFields
    <3>3. CASE u \notin all
      <4>1. sock'[u] = [sock[u] EXCEPT !.old = TRUE]
        BY <2>1, <3>3
      <4> QED
        BY <3>1, <4>1, StampedRecord
    <3> QED
      BY <3>2, <3>3
  <2> QED
    BY <2>1, <2>3
<1>3. /\ DOMAIN udt' = Socket /\ \A u \in Socket : DOMAIN udt'[u] = DOMAIN udt[u]
      /\ \A u \in Socket : udt'[u].connected => udt[u].connected
  <2>1. /\ DOMAIN udt' = Socket
        /\ \A u \in Socket : udt'[u] \in {udt[u], [Shut(u) EXCEPT !.broken = TRUE]}
    BY DEF cleanup
  <2>2. ASSUME NEW u \in Socket PROVE DOMAIN udt'[u] = DOMAIN udt[u] /\ (udt'[u].connected => udt[u].connected)
    <3>1. DOMAIN udt[u] = UdtFields
      BY DEF Core, Shape, UdtFields
    <3>2. DOMAIN Shut(u) = UdtFields /\ (Shut(u).connected => udt[u].connected)
      BY <3>1 DEF Shut, UdtFields
    <3> QED
      BY <2>1, <3>1, <3>2 DEF UdtFields
  <2> QED
    BY <2>1, <2>2
<1>4. DOMAIN queued' = Socket /\ \A l \in Socket : queued'[l] \subseteq queued[l]
  BY DEF cleanup, Core, Shape
<1>5. /\ DOMAIN mux' = Socket
      /\ \A m \in Socket : DOMAIN mux'[m] = DOMAIN mux[m] /\ mux'[m].listener \in Socket \cup {0}
  <2> DEFINE all == {u \in Socket : sock[u].place = "sockets"}
  <2>1. DOMAIN mux' = Socket /\ \A m \in Socket : mux'[m] = removeListener(mux[m], all)
    BY DEF cleanup
  <2>2. ASSUME NEW m \in Socket
        PROVE  /\ DOMAIN removeListener(mux[m], all) = DOMAIN mux[m]
               /\ removeListener(mux[m], all).listener \in Socket \cup {0}
    <3>1. DOMAIN mux[m] = {"refs", "listener", "given"} /\ mux[m].listener \in Socket \cup {0}
      BY DEF Core, Shape
    <3> HIDE DEF all
    <3> QED
      BY <3>1 DEF removeListener
  <2> HIDE DEF all
  <2> QED
    BY <2>1, <2>2
<1>6. DOMAIN gc' = DOMAIN gc /\ gc'.todo = gc.todo
  BY DEF cleanup, Stop, Core, Shape
<1>8. Shape'
  BY <1>1, <1>2, <1>3, <1>4, <1>5, <1>6 DEF Core, Shape
<1>9. Fresh' /\ Kinds' /\ Todo'
  BY <1>1, <1>2, <1>3, <1>6 DEF Core, Fresh, Kinds, Todo
<1>10. Held'
  BY <1>1 DEF Held
<1>11. Work' /\ Queue'
  BY <1>1, <1>2, <1>4 DEF Core, Work, Queue, Accepted, Done, Shape
<1> QED
  BY <1>8, <1>9, <1>10, <1>11 DEF Core

LEMMA QuietStep ==
    ASSUME Core, GcJoin \/ (\E u \in Socket : SecondsPass(u)) \/ (\E m \in Socket : RequestTimesOut(m))
    PROVE  Core'
<1>1. UNCHANGED <<made, udt, queued, mux, app, worker>> /\ \A u \in Socket : Kept(u)
  BY DEF GcJoin, SecondsPass, RequestTimesOut, Core, Shape, Kept
<1>2. DOMAIN sock' = Socket /\ \A u \in Socket : DOMAIN sock'[u] = DOMAIN sock[u]
  BY DEF GcJoin, SecondsPass, RequestTimesOut, Core, Shape
<1>3. DOMAIN gc' = DOMAIN gc /\ gc'.todo = gc.todo
  BY DEF GcJoin, SecondsPass, RequestTimesOut, Core, Shape
<1> QED
  BY <1>1, <1>2, <1>3 DEF Core, Shape, Fresh, Kinds, Held, Work, Queue, Todo, Accepted, Done, Kept

LEMMA CoreInit == SocketsInit => Core
BY SocketsAssumption
DEF SocketsInit, Core, Shape, Fresh, Kinds, Held, Work, Queue, Todo, CUDTSocket, CUDT, Socket

LEMMA CoreStep == Core /\ [SocketsNext]_socketsVars => Core'
<1> SUFFICES ASSUME Core, [SocketsNext]_socketsVars PROVE Core'
  OBVIOUS
<1>1. CASE ApplicationNext
  BY <1>1, newSocketStep, bindStep, listenStep, AcceptBeginStep, AcceptTryStep, AcceptEndStep, ConnectBeginStep,
     ConnectAnsweredStep, CallEndStep, CloseBeginStep, CloseUdtStep DEF ApplicationNext
<1>2. CASE WorkerNext
  BY <1>2, WorkerListenStep, WorkerLocateStep, WorkerCreateStep, WorkerInsertStep, WorkerEnqueueStep,
     WorkerSignalStep, WorkerConnectStep, WorkerConnectEndStep, WorkerFlagsStep DEF WorkerNext, WorkerStep
<1>3. CASE CollectorNext
  BY <1>3, GcScanStep, GcRemoveStep, cleanupStep, QuietStep DEF CollectorNext
<1>4. CASE TimeNext
  BY <1>4, QuietStep DEF TimeNext
<1>5. CASE UNCHANGED socketsVars
  BY <1>5 DEF socketsVars, Core, Shape, Fresh, Kinds, Held, Work, Queue, Todo, Accepted, Done
<1> QED
  BY <1>1, <1>2, <1>3, <1>4, <1>5 DEF SocketsNext
-----------------------------------------------------------------------------
\* WaitersAreWoken of one listener, over any values of the variables it reads.
Woken(l, ap, wk, q, sk, ud) ==
    LET at(pc) == {t \in Threads : ap[t].u = l /\ ap[t].pc = pc}
        signals == {m \in Socket : wk[m].u = l /\ wk[m].pc = "signal"}
    IN  at("wait") # {} =>
          /\ sk[l].status = "LISTENING" /\ ~ud[l].broken
          /\ Cardinality(q[l]) <= Cardinality(at("accept")) + Cardinality(signals)

LEMMA EachWoken ==
    /\ WaitersAreWoken <=> \A l \in Socket : Woken(l, app, worker, queued, sock, udt)
    /\ WaitersAreWoken' <=> \A l \in Socket : Woken(l, app', worker', queued', sock', udt')
BY DEF WaitersAreWoken, Woken

LEMMA Nonzero == \A u \in Socket : u # 0
BY SocketsAssumption DEF Socket

LEMMA FiniteParts ==
    /\ IsFiniteSet(Socket)
    /\ \A S : S \subseteq Socket \/ S \subseteq Threads => IsFiniteSet(S) /\ Cardinality(S) \in Nat
<1>1. IsFiniteSet(Socket)
  BY SocketsAssumption, FS_Interval DEF Socket
<1> QED
  BY <1>1, SocketsAssumption, FS_Subset, FS_CardinalityType

\* Nobody new waits, nobody who is about to take a connection and no signal is lost, and nothing
\* comes into the queue.
LEMMA StillWoken ==
    ASSUME NEW l \in Socket, Shape, Woken(l, app, worker, queued, sock, udt),
           \A t \in Threads : app'[t].pc = "wait" /\ app'[t].u = l => app[t].pc = "wait" /\ app[t].u = l,
           \A t \in Threads : app[t].pc = "accept" /\ app[t].u = l => app'[t].pc = "accept" /\ app'[t].u = l,
           \A m \in Socket : worker[m].pc = "signal" /\ worker[m].u = l =>
                                 worker'[m].pc = "signal" /\ worker'[m].u = l,
           queued'[l] \subseteq queued[l],
           /\ \E t \in Threads : app'[t].pc = "wait" /\ app'[t].u = l
           /\ sock[l].status = "LISTENING" /\ ~udt[l].broken
           => sock'[l].status = "LISTENING" /\ ~udt'[l].broken
    PROVE  Woken(l, app', worker', queued', sock', udt')
<1> DEFINE W == {t \in Threads : app[t].u = l /\ app[t].pc = "wait"}
           A == {t \in Threads : app[t].u = l /\ app[t].pc = "accept"}
           S == {m \in Socket : worker[m].u = l /\ worker[m].pc = "signal"}
           W2 == {t \in Threads : app'[t].u = l /\ app'[t].pc = "wait"}
           A2 == {t \in Threads : app'[t].u = l /\ app'[t].pc = "accept"}
           S2 == {m \in Socket : worker'[m].u = l /\ worker'[m].pc = "signal"}
<1> SUFFICES ASSUME W2 # {}
             PROVE  /\ sock'[l].status = "LISTENING" /\ ~udt'[l].broken
                    /\ Cardinality(queued'[l]) <= Cardinality(A2) + Cardinality(S2)
  BY DEF Woken
<1>1. /\ sock[l].status = "LISTENING" /\ ~udt[l].broken
      /\ Cardinality(queued[l]) <= Cardinality(A) + Cardinality(S)
  <2>1. W # {}
    OBVIOUS
  <2> QED
    BY <2>1 DEF Woken
<1>2. sock'[l].status = "LISTENING" /\ ~udt'[l].broken
  BY <1>1
<1>3. A \subseteq A2 /\ A2 \subseteq Threads /\ S \subseteq S2 /\ S2 \subseteq Socket
  OBVIOUS
<1>4. queued'[l] \subseteq queued[l] /\ queued[l] \subseteq Socket
  BY DEF Shape
<1> HIDE DEF W, A, S, W2, A2, S2
<1>5. /\ Cardinality(A) <= Cardinality(A2) /\ Cardinality(A2) \in Nat /\ Cardinality(A) \in Nat
      /\ Cardinality(S) <= Cardinality(S2) /\ Cardinality(S2) \in Nat /\ Cardinality(S) \in Nat
      /\ Cardinality(queued'[l]) <= Cardinality(queued[l])
      /\ Cardinality(queued'[l]) \in Nat /\ Cardinality(queued[l]) \in Nat
  BY <1>3, <1>4, FiniteParts, FS_Subset
<1>6. Cardinality(queued'[l]) <= Cardinality(A2) + Cardinality(S2)
  BY <1>1, <1>5
<1> QED
  BY <1>2, <1>6

\* The steps that leave the balance of every listener as it is, or better.
LEMMA AllStillWoken ==
    ASSUME Core, WaitersAreWoken,
           \A t \in Threads : app'[t].pc = "wait" => app[t].pc = "wait" /\ app[t].u = app'[t].u,
           \A t \in Threads : app[t].pc = "accept" => app'[t].pc = "accept" /\ app'[t].u = app[t].u,
           \A m \in Socket : worker[m].pc = "signal" => worker'[m].pc = "signal" /\ worker'[m].u = worker[m].u,
           \A l \in Socket : queued'[l] \subseteq queued[l],
           \A l \in Socket :
               /\ \E t \in Threads : app'[t].pc = "wait" /\ app'[t].u = l
               /\ sock[l].status = "LISTENING" /\ ~udt[l].broken
               => sock'[l].status = "LISTENING" /\ ~udt'[l].broken
    PROVE  WaitersAreWoken'
<1>1. ASSUME NEW l \in Socket PROVE Woken(l, app', worker', queued', sock', udt')
  BY StillWoken, EachWoken DEF Core
<1> QED
  BY <1>1, EachWoken

LEMMA CallsFromIdle == \A t \in Threads : \A u \in Socket : Calls(t, u) => app[t].pc = "idle"
<1> SUFFICES ASSUME NEW t \in Threads, NEW u \in Socket, Calls(t, u) PROVE app[t].pc = "idle"
  OBVIOUS
<1>1. app[t] = Idle
  BY DEF Calls
<1> QED
  BY <1>1 DEF Idle

\* The calls that neither begin to wait nor take from a queue.
LEMMA WokenByCalls ==
    ASSUME Core, WaitersAreWoken, NEW t \in Threads
    PROVE  (\/ newSocket(t) \/ AcceptEnd(t) \/ ConnectEnd(t) \/ ConnectFails(t) \/ CloseEnd(t)
            \/ \E u \in Socket : bind(t, u) \/ listen(t, u) \/ AcceptBegin(t, u)
            \/ \E u \in Socket, async \in BOOLEAN : ConnectBegin(t, u, async)
            \/ \E refused \in BOOLEAN : ConnectAnswered(t, refused)
            \/ \E lingers \in BOOLEAN : CloseUdt(t, lingers))
           => WaitersAreWoken'
<1> DEFINE Alone == /\ app[t].pc \notin {"wait", "accept"} /\ app'[t].pc # "wait"
                    /\ \A s \in Threads : s # t => app'[s] = app[s]
           Listens == \A l \in Socket : /\ sock[l].status = "LISTENING" => sock'[l].status = "LISTENING"
                                        /\ udt'[l].broken = udt[l].broken
<1>2. ASSUME newSocket(t) PROVE WaitersAreWoken'
  <2>0. UNCHANGED <<queued, worker>>
    BY <1>2 DEF newSocket
  <2>1. app[t] = Idle /\ app' = app
    BY <1>2 DEF newSocket
  <2>2. Alone
    BY <2>1 DEF Idle
  <2>3. Listens
    BY <1>2 DEF newSocket, Core, Shape
  <2> QED
    BY <2>0, <2>2, <2>3, AllStillWoken
<1>3. ASSUME AcceptEnd(t) PROVE WaitersAreWoken'
  <2>0. UNCHANGED <<queued, worker>>
    BY <1>3 DEF AcceptEnd
  <2>1. app[t].pc = "accepted" /\ app' = [app EXCEPT ![t] = Idle]
    BY <1>3 DEF AcceptEnd
  <2>2. Alone
    BY <2>1 DEF Idle, Core, Shape
  <2>3. Listens
    BY <1>3 DEF AcceptEnd, Core, Shape
  <2> QED
    BY <2>0, <2>2, <2>3, AllStillWoken
<1>4. ASSUME ConnectEnd(t) \/ ConnectFails(t) \/ CloseEnd(t) PROVE WaitersAreWoken'
  <2>0. UNCHANGED <<queued, worker>>
    BY <1>4 DEF ConnectEnd, ConnectFails, CloseEnd
  <2>1. app[t].pc \in {"connecting", "complete", "erase"} /\ app' = [app EXCEPT ![t] = Idle]
    BY <1>4 DEF ConnectEnd, ConnectFails, CloseEnd
  <2>2. Alone
    BY <2>1 DEF Idle, Core, Shape
  <2>3. /\ sock[app[t].u].status # "LISTENING" /\ udt' = udt
        /\ \A u \in Socket : u # app[t].u => sock'[u] = sock[u]
    BY <1>4, <2>1 DEF ConnectEnd, ConnectFails, CloseEnd, Core, Shape, Held
  <2> QED
    BY <2>0, <2>2, <2>3, AllStillWoken
<1>5. ASSUME NEW u \in Socket, bind(t, u) \/ listen(t, u) PROVE WaitersAreWoken'
  <2>0. UNCHANGED <<queued, worker>>
    BY <1>5 DEF bind, listen
  <2>1. Calls(t, u) /\ app' = app
    BY <1>5 DEF bind, listen
  <2>2. Alone
    BY <2>1, CallsFromIdle
  <2>3. \/ udt' = [udt EXCEPT ![u].opened = TRUE]
        \/ udt' = [udt EXCEPT ![u].listening = TRUE]
    BY <1>5 DEF bind, listen
  <2>4. \A l \in Socket : udt'[l].broken = udt[l].broken
    BY <2>3 DEF Core, Shape
  <2>5. \A l \in Socket : sock[l].status = "LISTENING" => sock'[l].status = "LISTENING"
    BY <1>5 DEF bind, listen, Core, Shape
  <2> QED
    BY <2>0, <2>2, <2>4, <2>5, AllStillWoken
<1>6. ASSUME NEW u \in Socket, AcceptBegin(t, u) PROVE WaitersAreWoken'
  <2>0. UNCHANGED <<queued, worker>>
    BY <1>6 DEF AcceptBegin
  <2>1. Calls(t, u) /\ app' = [app EXCEPT ![t] = [Idle EXCEPT !.pc = "accept", !.u = u]] /\ UNCHANGED <<sock, udt>>
    BY <1>6 DEF AcceptBegin
  <2>2. Alone
    BY <2>1, CallsFromIdle DEF Idle, Core, Shape
  <2> QED
    BY <2>0, <2>1, <2>2, AllStillWoken
<1>7. ASSUME NEW u \in Socket, NEW async \in BOOLEAN, ConnectBegin(t, u, async) PROVE WaitersAreWoken'
  <2>0. UNCHANGED <<queued, worker>>
    BY <1>7 DEF ConnectBegin
  <2>1. /\ Calls(t, u) /\ sock[u].status # "LISTENING"
        /\ app' = app \/ app' = [app EXCEPT ![t] = [Idle EXCEPT !.pc = "connecting", !.u = u]]
        /\ udt' = [udt EXCEPT ![u] = [@ EXCEPT !.opened = TRUE, !.connecting = TRUE]]
        /\ \A v \in Socket : v # u => sock'[v] = sock[v]
    BY <1>7 DEF ConnectBegin, Core, Shape
  <2>2. Alone
    <3>1. app[t].pc = "idle"
      BY <2>1, CallsFromIdle
    <3>2. CASE app' = app
      BY <3>1, <3>2
    <3>3. CASE app' = [app EXCEPT ![t] = [Idle EXCEPT !.pc = "connecting", !.u = u]]
      BY <3>1, <3>3 DEF Idle, Core, Shape
    <3> QED
      BY <2>1, <3>2, <3>3
  <2>3. Listens
    BY <2>1 DEF Core, Shape
  <2> QED
    BY <2>0, <2>2, <2>3, AllStillWoken
<1>8. ASSUME NEW refused \in BOOLEAN, ConnectAnswered(t, refused) PROVE WaitersAreWoken'
  <2>0. UNCHANGED <<queued, worker>>
    BY <1>8 DEF ConnectAnswered
  <2>1. /\ app[t].pc = "connecting" /\ app' = [app EXCEPT ![t].pc = "complete"] /\ sock' = sock
    BY <1>8 DEF ConnectAnswered
  <2>2. Alone
    BY <2>1 DEF Core, Shape
  <2>3. Listens
    BY <1>8, <2>1 DEF ConnectAnswered, connect, Core, Shape
  <2> QED
    BY <2>0, <2>2, <2>3, AllStillWoken
<1>9. ASSUME NEW lingers \in BOOLEAN, CloseUdt(t, lingers) PROVE WaitersAreWoken'
  <2>0. UNCHANGED <<queued, worker>>
    BY <1>9 DEF CloseUdt
  <2>1. /\ app[t].pc = "closing" /\ app' = [app EXCEPT ![t].pc = "erase"] /\ sock' = sock
    BY <1>9 DEF CloseUdt
  <2>2. Alone
    BY <2>1 DEF Core, Shape
  <2>3. \A l \in Socket : udt'[l].broken = udt[l].broken
    <3>1. CASE lingers
      <4>1. udt' = [udt EXCEPT ![app[t].u].lingers = TRUE]
        BY <1>9, <3>1 DEF CloseUdt
      <4> QED
        BY <4>1 DEF Core, Shape
    <3>2. CASE ~lingers
      <4>1. udt' = [udt EXCEPT ![app[t].u] = Shut(app[t].u)]
        BY <1>9, <3>2 DEF CloseUdt
      <4> QED
        BY <4>1 DEF Core, Shape, Shut
    <3> QED
      BY <3>1, <3>2
  <2> QED
    BY <2>0, <2>1, <2>2, <2>3, AllStillWoken
<1> QED
  BY <1>2, <1>3, <1>4, <1>5, <1>6, <1>7, <1>8, <1>9

\* close of a listener wakes everybody who waits for it.
LEMMA WokenByClose ==
    ASSUME Core, WaitersAreWoken, NEW t \in Threads, NEW v \in Socket, CloseBegin(t, v)
    PROVE  WaitersAreWoken'
<1>1. UNCHANGED <<queued, worker>>
  BY DEF CloseBegin
<1>2. CASE sock[v].status = "LISTENING"
  <2>1. /\ app' = Awake(v)
        /\ udt' = [udt EXCEPT ![v].broken = TRUE] /\ sock' = [sock EXCEPT ![v].old = FALSE]
    BY <1>2 DEF CloseBegin
  <2>2. ASSUME NEW s \in Threads
        PROVE  \/ app[s].pc = "wait" /\ app[s].u = v /\ app'[s].pc = "accept"
               \/ ~(app[s].pc = "wait" /\ app[s].u = v) /\ app'[s] = app[s]
    BY <2>1 DEF Awake, Core, Shape
  <2>3. \A l \in Socket : sock'[l].status = sock[l].status /\ (l # v => udt'[l].broken = udt[l].broken)
    <3>1. udt' = [udt EXCEPT ![v].broken = TRUE] /\ sock' = [sock EXCEPT ![v].old = FALSE]
      BY <2>1
    <3>2. DOMAIN udt = Socket /\ DOMAIN sock = Socket /\ DOMAIN sock[v] = SockFields
      BY DEF Core, Shape, SockFields
    <3>3. \A l \in Socket : l # v => sock'[l] = sock[l] /\ udt'[l] = udt[l]
      BY <3>1, <3>2
    <3>4. sock'[v].status = sock[v].status
      BY <3>1, <3>2 DEF SockFields
    <3> QED
      BY <3>3, <3>4
  <2> QED
    BY <1>1, <2>2, <2>3, AllStillWoken
<1>3. CASE sock[v].status # "LISTENING"
  <2>1. /\ app' = [app EXCEPT ![t] = [Idle EXCEPT !.pc = "closing", !.u = v]] /\ app[t] = Idle
        /\ UNCHANGED <<sock, udt>>
    BY <1>3 DEF CloseBegin, Calls
  <2>2. /\ \A s \in Threads : s # t => app'[s] = app[s]
        /\ app'[t].pc = "closing" /\ app[t].pc = "idle"
    BY <2>1 DEF Core, Shape, Idle
  <2> QED
    BY <1>1, <2>1, <2>2, AllStillWoken
<1> QED
  BY <1>2, <1>3

\* The steps of a worker other than those that enqueue and signal.
LEMMA WokenByWorker ==
    ASSUME Core, WaitersAreWoken, NEW m \in Socket
    PROVE  (\/ WorkerLocate(m) \/ WorkerCreate(m) \/ WorkerInsert(m) \/ WorkerConnectEnd(m) \/ WorkerExpires(m)
            \/ \E p \in Peers : WorkerListen(m, p)
            \/ \E u \in Socket, refused \in BOOLEAN : WorkerConnect(m, u, refused)
            \/ \E u \in Socket, patience \in 0 .. 1 : WorkerBreak(m, u, patience)
            \/ \E u \in Socket : WorkerForget(m, u))
           => WaitersAreWoken'
<1> DEFINE Alone == worker[m].pc # "signal" /\ \A k \in Socket : k # m => worker'[k] = worker[k]
           Shrinks == \A l \in Socket : queued'[l] \subseteq queued[l]
           Listens == \A l \in Socket : sock[l].status = "LISTENING" /\ ~udt[l].broken =>
                                            sock'[l].status = "LISTENING" /\ ~udt'[l].broken
<1>2. worker[m] = Rest => worker[m].pc # "signal"
  BY DEF Rest
<1>3. ASSUME WorkerLocate(m) PROVE WaitersAreWoken'
  <2>0. app' = app
    BY <1>3 DEF WorkerLocate
  <2> DEFINE broken == {n \in Newest(Known(worker[m].peer)) : udt[n].broken}
  <2>1. worker[m].pc = "listen" /\ udt' = udt
    BY <1>3 DEF WorkerLocate
  <2>2. worker' = [worker EXCEPT ![m] = Rest] \/ worker' = [worker EXCEPT ![m].pc = "create"]
    BY <1>3 DEF WorkerLocate
  <2>3. Alone
    BY <2>1, <2>2 DEF Core, Shape
  <2>4. \/ UNCHANGED <<sock, queued>>
        \/ /\ sock' = [n \in Socket |-> IF n \in broken THEN [sock[n] EXCEPT !.status = "CLOSED", !.old = FALSE]
                                        ELSE sock[n]]
           /\ queued' = [queued EXCEPT ![worker[m].u] = @ \ broken]
    BY <1>3 DEF WorkerLocate
  <2>5. \A n \in broken : udt[n].broken
    OBVIOUS
  <2> HIDE DEF broken
  <2>6. Shrinks /\ Listens
    <3>1. CASE UNCHANGED <<sock, queued>>
      BY <2>1, <3>1
    <3>2. CASE ~UNCHANGED <<sock, queued>>
      <4>1. Shrinks
        <5>1. queued' = [queued EXCEPT ![worker[m].u] = @ \ broken]
          BY <2>4, <3>2
        <5> QED
          BY <5>1 DEF Core, Shape
      <4>2. ASSUME NEW l \in Socket, ~udt[l].broken PROVE sock'[l] = sock[l]
        BY <2>4, <2>5, <3>2, <4>2
      <4> QED
        BY <2>1, <4>1, <4>2
    <3> QED
      BY <3>1, <3>2
  <2> QED
    BY <2>0, <2>3, <2>6, AllStillWoken
<1>4. ASSUME WorkerCreate(m) PROVE WaitersAreWoken'
  <2>0. app' = app
    BY <1>4 DEF WorkerCreate
  <2> DEFINE n == made + 1
  <2>1. worker[m].pc = "create" /\ queued' = queued
    BY <1>4 DEF WorkerCreate
  <2>2. \/ worker' = [worker EXCEPT ![m] = Rest] /\ UNCHANGED <<sock, udt>>
        \/ /\ worker' = [worker EXCEPT ![m] = [@ EXCEPT !.pc = "insert", !.ns = n]] /\ made # MaxSockets
           /\ sock' = [sock EXCEPT ![n] = [@ EXCEPT !.status = "CONNECTED", !.peer = worker[m].peer, !.mux = m]]
           /\ udt' = [udt EXCEPT ![n] = [@ EXCEPT !.opened = TRUE, !.connected = TRUE, !.onList = TRUE]]
    BY <1>4 DEF WorkerCreate
  <2>3. Alone
    BY <2>1, <2>2 DEF Core, Shape
  <2>4. \A l \in Socket : sock[l].status = "LISTENING" => l # n
    BY Numbers DEF Core, Fresh, Kinds
  <2> HIDE DEF n
  <2>5. Listens
    BY <2>2, <2>4 DEF Core, Shape
  <2> QED
    BY <2>0, <2>1, <2>3, <2>5, AllStillWoken
<1>5. ASSUME WorkerInsert(m) PROVE WaitersAreWoken'
  <2>0. app' = app
    BY <1>5 DEF WorkerInsert
  <2>1. /\ worker[m].pc = "insert" /\ UNCHANGED <<udt, queued>>
        /\ worker' = [worker EXCEPT ![m].pc = "enqueue"]
        /\ sock' = [sock EXCEPT ![worker[m].ns].place = "sockets"]
    BY <1>5 DEF WorkerInsert
  <2>2. Alone /\ Listens
    BY <2>1 DEF Core, Shape
  <2> QED
    BY <2>0, <2>1, <2>2, AllStillWoken
<1>6. ASSUME WorkerConnectEnd(m) PROVE WaitersAreWoken'
  <2>0. app' = app
    BY <1>6 DEF WorkerConnectEnd
  <2> DEFINE v == worker[m].u
  <2>1. /\ worker[m].pc = "complete" /\ UNCHANGED <<udt, queued>>
        /\ sock' = IF Located(v) THEN [sock EXCEPT ![v].status = "CONNECTED"] ELSE sock
    BY <1>6 DEF WorkerConnectEnd
  <2>2. v \in Socket /\ \A k \in Socket : k # m => worker'[k] = worker[k]
    BY <1>6, <2>1 DEF WorkerConnectEnd, Core, Shape
  <2>3. sock[v].status # "LISTENING"
    BY <2>1, <2>2 DEF Core, Work, Done, Kinds
  <2> HIDE DEF v
  <2>4. Listens
    BY <2>1, <2>2, <2>3 DEF Core, Shape
  <2> QED
    BY <2>0, <2>1, <2>2, <2>4, AllStillWoken
<1>7. ASSUME WorkerExpires(m) PROVE WaitersAreWoken'
  <2>0. app' = app
    BY <1>7 DEF WorkerExpires
  <2>1. /\ worker[m] = Rest /\ UNCHANGED <<sock, queued, worker>>
    BY <1>7 DEF WorkerExpires
  <2>2. Listens
    BY <1>7, <2>1 DEF WorkerExpires, Core, Shape
  <2> QED
    BY <1>2, <2>0, <2>1, <2>2, AllStillWoken
<1>8. ASSUME NEW p \in Peers, WorkerListen(m, p) PROVE WaitersAreWoken'
  <2>0. app' = app
    BY <1>8 DEF WorkerListen
  <2>1. /\ worker[m] = Rest /\ UNCHANGED <<sock, udt, queued>>
        /\ worker' = [worker EXCEPT ![m] = [Rest EXCEPT !.pc = "listen", !.u = mux[m].listener, !.peer = p]]
    BY <1>8 DEF WorkerListen
  <2>2. Alone
    BY <1>2, <2>1 DEF Core, Shape
  <2> QED
    BY <2>0, <2>1, <2>2, AllStillWoken
<1>9. ASSUME NEW u \in Socket, NEW refused \in BOOLEAN, WorkerConnect(m, u, refused) PROVE WaitersAreWoken'
  <2>0. app' = app
    BY <1>9 DEF WorkerConnect
  <2>1. /\ worker[m] = Rest /\ UNCHANGED <<sock, queued>>
        /\ worker' = [worker EXCEPT ![m] = [Rest EXCEPT !.pc = "complete", !.u = u]]
        /\ udt' = [udt EXCEPT ![u] = [@ EXCEPT !.connecting = FALSE, !.connected = TRUE, !.onList = TRUE,
                              !.refused = refused]]
    BY <1>9 DEF WorkerConnect, connect
  <2>2. Alone
    BY <1>2, <2>1 DEF Core, Shape
  <2>3. Listens
    BY <2>1 DEF Core, Shape
  <2> QED
    BY <2>0, <2>1, <2>2, <2>3, AllStillWoken
<1>10. ASSUME NEW u \in Socket, NEW patience \in 0 .. 1, WorkerBreak(m, u, patience) PROVE WaitersAreWoken'
  <2>0. app' = app
    BY <1>10 DEF WorkerBreak
  <2>1. /\ worker[m] = Rest /\ UNCHANGED <<sock, queued, worker>> /\ udt[u].connected
        /\ udt' = [udt EXCEPT ![u] = [@ EXCEPT !.broken = TRUE, !.closing = TRUE, !.patience = patience]]
    BY <1>10 DEF WorkerBreak
  <2>2. Listens
    BY <2>1 DEF Core, Shape, Kinds
  <2> QED
    BY <1>2, <2>0, <2>1, <2>2, AllStillWoken
<1>11. ASSUME NEW u \in Socket, WorkerForget(m, u) PROVE WaitersAreWoken'
  <2>0. app' = app
    BY <1>11 DEF WorkerForget
  <2>1. /\ worker[m] = Rest /\ UNCHANGED <<sock, queued, worker>> /\ udt' = [udt EXCEPT ![u].onList = FALSE]
    BY <1>11 DEF WorkerForget
  <2>2. Listens
    BY <2>1 DEF Core, Shape
  <2> QED
    BY <1>2, <2>0, <2>1, <2>2, AllStillWoken
<1> QED
  BY <1>3, <1>4, <1>5, <1>6, <1>7, <1>8, <1>9, <1>10, <1>11

\* Only broken sockets are closed by the scan, only closed ones are removed, and when the process
\* cleans up nobody waits.
LEMMA WokenByCollector ==
    ASSUME Core, WaitersAreWoken
    PROVE  (\/ cleanup \/ GcJoin \/ \E u \in Socket : GcRemove(u) \/ SecondsPass(u) \/ RequestTimesOut(u)
            \/ \E over \in SUBSET Socket : GcScan(over))
           => WaitersAreWoken'
<1> DEFINE Shrinks == \A l \in Socket : queued'[l] \subseteq queued[l]
           Listens == \A l \in Socket : sock[l].status = "LISTENING" /\ ~udt[l].broken =>
                                            sock'[l].status = "LISTENING" /\ ~udt'[l].broken
<1>1. ASSUME cleanup PROVE WaitersAreWoken'
  <2>1. UNCHANGED <<app, worker>> /\ \A t \in Threads : app[t] = Idle
    BY <1>1 DEF cleanup
  <2>2. \A t \in Threads : app'[t].pc = "idle" /\ app[t].pc = "idle"
    BY <2>1 DEF Idle
  <2>3. Shrinks
    BY <1>1 DEF cleanup
  <2> QED
    BY <2>1, <2>2, <2>3, AllStillWoken
<1>2. ASSUME GcJoin PROVE WaitersAreWoken'
  <2>1. UNCHANGED <<app, worker, sock, udt, queued>>
    BY <1>2 DEF GcJoin
  <2> QED
    BY <2>1, AllStillWoken
<1>3. ASSUME NEW v \in Socket, GcRemove(v) PROVE WaitersAreWoken'
  <2>1. UNCHANGED <<app, worker>> /\ sock[v].place = "closed" /\ queued' = [queued EXCEPT ![v] = {}]
    BY <1>3 DEF GcRemove, Core, Todo
  <2>2. Shrinks
    BY <2>1 DEF Core, Shape
  <2>3. ASSUME NEW l \in Socket, sock[l].status = "LISTENING"
        PROVE  sock'[l] = sock[l] /\ udt'[l] = udt[l]
    <3>1. l # v /\ l \notin queued[v]
      BY <2>1, <2>3 DEF Core, Kinds, Queue, Accepted, Done
    <3> QED
      BY <1>3, <3>1 DEF GcRemove
  <2> QED
    BY <2>1, <2>2, <2>3, AllStillWoken
<1>4. ASSUME NEW u \in Socket, SecondsPass(u) PROVE WaitersAreWoken'
  <2>1. UNCHANGED <<app, worker, udt, queued>> /\ sock' = [sock EXCEPT ![u].old = TRUE]
    BY <1>4 DEF SecondsPass
  <2>2. Listens
    BY <2>1 DEF Core, Shape
  <2> QED
    BY <2>1, <2>2, AllStillWoken
<1>5. ASSUME NEW u \in Socket, RequestTimesOut(u) PROVE WaitersAreWoken'
  <2>1. UNCHANGED <<app, worker, sock, udt, queued>>
    BY <1>5 DEF RequestTimesOut
  <2> QED
    BY <2>1, AllStillWoken
<1>6. ASSUME NEW over \in SUBSET Socket, GcScan(over) PROVE WaitersAreWoken'
  <2> DEFINE broken == {u \in Socket : sock[u].place = "sockets" /\ udt[u].broken}
             patient == {u \in broken : sock[u].status # "LISTENING" /\ udt[u].patience > 0}
             closes == {u \in broken \ patient : sock[u].status = "LISTENING" => sock[u].old}
  <2>1. /\ UNCHANGED <<app, worker>>
        /\ sock' = [u \in Socket |->
                      IF u \in closes THEN [sock[u] EXCEPT !.status = "CLOSED", !.place = "closed", !.old = FALSE]
                      ELSE IF u \in over THEN [sock[u] EXCEPT !.old = FALSE] ELSE sock[u]]
        /\ udt' = [u \in Socket |->
                     IF u \in over THEN [udt[u] EXCEPT !.lingers = FALSE, !.closing = TRUE]
                     ELSE IF u \in patient THEN [udt[u] EXCEPT !.patience = @ - 1] ELSE udt[u]]
        /\ queued' = [l \in Socket |-> queued[l] \ closes]
    BY <1>6 DEF GcScan
  <2>2. \A u \in closes : udt[u].broken
    OBVIOUS
  <2> HIDE DEF closes, patient, broken
  <2>3. Shrinks
    BY <2>1
  <2>4. ASSUME NEW l \in Socket, ~udt[l].broken PROVE sock'[l].status = sock[l].status
    <3>1. sock'[l] = sock[l] \/ sock'[l] = [sock[l] EXCEPT !.old = FALSE]
      BY <2>1, <2>2, <2>4
    <3>2. DOMAIN sock[l] = SockFields
      BY DEF Core, Shape, SockFields
    <3> QED
      BY <3>1, <3>2, StampedRecord
  <2>5. ASSUME NEW l \in Socket PROVE udt'[l].broken = udt[l].broken
    <3>1. \/ udt'[l] = udt[l]
          \/ udt'[l] = [udt[l] EXCEPT !.lingers = FALSE, !.closing = TRUE]
          \/ udt'[l] = [udt[l] EXCEPT !.patience = @ - 1]
      BY <2>1
    <3> QED
      BY <3>1 DEF Core, Shape
  <2> QED
    BY <2>1, <2>3, <2>4, <2>5, AllStillWoken
<1> QED
  BY <1>1, <1>2, <1>3, <1>4, <1>5, <1>6
-----------------------------------------------------------------------------
LEMMA OneNewest ==
    ASSUME NEW S \in SUBSET Socket, NEW n \in Newest(S)
    PROVE  Newest(S) = {n} /\ n \in S
<1>1. \A k \in Socket, j \in Socket : k <= j /\ j <= k => k = j
  BY SocketsAssumption DEF Socket
<1> QED
  BY <1>1 DEF Newest

\* accept: who gives up leaves nobody who waits, who takes a connection leaves one less to take, and
\* who waits has found the queue empty.
LEMMA WokenByAccept == ASSUME Core, WaitersAreWoken, NEW t \in Threads, AcceptTry(t) PROVE WaitersAreWoken'
<1> DEFINE v == app[t].u
<1>a. /\ UNCHANGED <<made, sock, udt, mux, connectors, worker, gc>>
      /\ app[t].pc = "accept" /\ app[t].u \in Socket
      /\ DOMAIN app' = Threads /\ \A s \in Threads : s # t => app'[s] = app[s]
      /\ \/ app'[t] = Idle /\ UNCHANGED queued
         \/ /\ queued' = [queued EXCEPT ![app[t].u] = @ \ Newest(queued[app[t].u])]
            /\ \E n \in Newest(queued[app[t].u]) : app'[t] = [app[t] EXCEPT !.pc = "accepted", !.got = n]
         \/ app'[t] = [app[t] EXCEPT !.pc = "wait"] /\ UNCHANGED queued
  BY AcceptTryMoves
<1>1. /\ app[t].pc = "accept" /\ UNCHANGED <<sock, udt, worker>> /\ v \in Socket
  BY DEF AcceptTry, Core, Shape
<1>2. /\ \A k \in Socket : k # v => queued'[k] = queued[k]
      /\ \A s \in Threads : s # t => app'[s] = app[s]
      /\ app'[t].pc = "wait" => app'[t].u = v
  <2>1. app'[t].pc = "wait" => app'[t].u = v
    <3>1. DOMAIN app[t] = {"pc", "u", "got"}
      BY DEF Core, Shape
    <3>2. CASE app'[t] = Idle
      BY <3>2 DEF Idle
    <3>3. CASE app'[t] = [app[t] EXCEPT !.pc = "wait"]
      BY <3>1, <3>3
    <3>4. ASSUME NEW n, app'[t] = [app[t] EXCEPT !.pc = "accepted", !.got = n]
          PROVE  app'[t].pc = "accepted"
      BY <3>1, <3>4
    <3> QED
      BY <1>a, <3>2, <3>3, <3>4
  <2> QED
    BY <1>a, <2>1 DEF Core, Shape
<1>3. ASSUME NEW k \in Socket, k # v PROVE Woken(k, app', worker', queued', sock', udt')
  BY <1>1, <1>2, <1>3, StillWoken, EachWoken DEF Core
<1>4. Woken(v, app', worker', queued', sock', udt')
  <2> DEFINE W == {s \in Threads : app[s].u = v /\ app[s].pc = "wait"}
             A == {s \in Threads : app[s].u = v /\ app[s].pc = "accept"}
             S == {m \in Socket : worker[m].u = v /\ worker[m].pc = "signal"}
             W2 == {s \in Threads : app'[s].u = v /\ app'[s].pc = "wait"}
             A2 == {s \in Threads : app'[s].u = v /\ app'[s].pc = "accept"}
             S2 == {m \in Socket : worker'[m].u = v /\ worker'[m].pc = "signal"}
  <2>1. W # {} => /\ sock[v].status = "LISTENING" /\ ~udt[v].broken
                  /\ Cardinality(queued[v]) <= Cardinality(A) + Cardinality(S)
    BY <1>1, EachWoken DEF Woken
  <2>2. SUFFICES W2 # {} => /\ sock'[v].status = "LISTENING" /\ ~udt'[v].broken
                            /\ Cardinality(queued'[v]) <= Cardinality(A2) + Cardinality(S2)
    BY DEF Woken
  <2>3. S2 = S /\ t \in A
    BY <1>1
  <2>4. CASE sock[v].status # "LISTENING" \/ udt[v].broken
    <3>1. app' = [app EXCEPT ![t] = Idle]
      BY <2>4 DEF AcceptTry
    <3>2. app'[t].pc # "wait"
      BY <3>1 DEF Idle, Core, Shape
    <3>3. W2 \subseteq W
      BY <1>2, <3>2
    <3> QED
      BY <2>1, <2>4, <3>3
  <2>5. CASE sock[v].status = "LISTENING" /\ ~udt[v].broken /\ queued[v] # {}
    <3>1. PICK n \in Newest(queued[v]) : /\ app' = [app EXCEPT ![t] = [@ EXCEPT !.pc = "accepted", !.got = n]]
                                         /\ queued' = [queued EXCEPT ![v] = @ \ Newest(@)]
      BY <2>5 DEF AcceptTry
    <3>2. Newest(queued[v]) = {n} /\ n \in queued[v]
      BY <1>1, OneNewest DEF Core, Shape
    <3>3. queued'[v] = queued[v] \ {n}
      BY <1>1, <3>1, <3>2 DEF Core, Shape
    <3>4. app'[t].pc = "accepted"
      BY <3>1 DEF Core, Shape
    <3>5. A2 = A \ {t} /\ W2 \subseteq W /\ A \subseteq Threads /\ S \subseteq Socket /\ queued[v] \subseteq Socket
      BY <1>1, <1>2, <3>4 DEF Core, Shape
    <3> HIDE DEF A, A2, W, W2, S, S2
    <3>6. /\ IsFiniteSet(A) /\ IsFiniteSet(queued[v])
          /\ Cardinality(A) \in Nat /\ Cardinality(S) \in Nat /\ Cardinality(queued[v]) \in Nat
      BY <3>5, FiniteParts
    <3>7. Cardinality(A2) = Cardinality(A) - 1 /\ Cardinality(queued'[v]) = Cardinality(queued[v]) - 1
      <4>1. Cardinality(A \ {t}) = Cardinality(A) - 1
        BY <2>3, <3>6, FS_RemoveElement
      <4>2. Cardinality(queued[v] \ {n}) = Cardinality(queued[v]) - 1
        BY <3>2, <3>6, FS_RemoveElement
      <4> QED
        BY <3>3, <3>5, <4>1, <4>2
    <3>8. W # {} => Cardinality(queued'[v]) <= Cardinality(A2) + Cardinality(S2)
      BY <2>1, <2>3, <3>6, <3>7
    <3> QED
      BY <1>1, <2>5, <3>5, <3>8
  <2>6. CASE sock[v].status = "LISTENING" /\ ~udt[v].broken /\ queued[v] = {}
    <3>1. queued' = queued
      BY <2>6 DEF AcceptTry
    <3>2. Cardinality(queued'[v]) = 0
      BY <2>6, <3>1, FS_EmptySet
    <3>3. A2 \subseteq Threads /\ S2 \subseteq Socket
      OBVIOUS
    <3> HIDE DEF A2, S2
    <3>4. Cardinality(A2) \in Nat /\ Cardinality(S2) \in Nat
      BY <3>3, FiniteParts
    <3>5. Cardinality(queued'[v]) <= Cardinality(A2) + Cardinality(S2)
      BY <3>2, <3>4
    <3> QED
      BY <1>1, <2>6, <3>5
  <2> QED
    BY <2>4, <2>5, <2>6
<1> QED
  BY <1>3, <1>4, EachWoken

\* A connection comes into the queue with a signal to come.
LEMMA WokenByEnqueue == ASSUME Core, WaitersAreWoken, NEW m \in Socket, WorkerEnqueue(m) PROVE WaitersAreWoken'
<1> DEFINE v == worker[m].u
           n == worker[m].ns
<1>1. /\ UNCHANGED <<sock, udt, app>> /\ worker[m].pc = "enqueue" /\ v \in Socket /\ n \in Socket
      /\ queued' = [queued EXCEPT ![v] = @ \cup {n}]
      /\ worker' = [worker EXCEPT ![m].pc = "signal"]
  BY DEF WorkerEnqueue, Core, Shape, Work, Accepted
<1>2. /\ worker'[m].pc = "signal" /\ worker'[m].u = v
      /\ \A k \in Socket : k # m => worker'[k] = worker[k]
      /\ \A k \in Socket : k # v => queued'[k] = queued[k]
      /\ queued'[v] = queued[v] \cup {n} /\ queued[v] \subseteq Socket
  BY <1>1 DEF Core, Shape
<1>3. ASSUME NEW k \in Socket, k # v PROVE Woken(k, app', worker', queued', sock', udt')
  BY <1>1, <1>2, <1>3, StillWoken, EachWoken DEF Core
<1>4. Woken(v, app', worker', queued', sock', udt')
  <2> DEFINE W == {s \in Threads : app[s].u = v /\ app[s].pc = "wait"}
             A == {s \in Threads : app[s].u = v /\ app[s].pc = "accept"}
             S == {k \in Socket : worker[k].u = v /\ worker[k].pc = "signal"}
             W2 == {s \in Threads : app'[s].u = v /\ app'[s].pc = "wait"}
             A2 == {s \in Threads : app'[s].u = v /\ app'[s].pc = "accept"}
             S2 == {k \in Socket : worker'[k].u = v /\ worker'[k].pc = "signal"}
  <2>1. W # {} => /\ sock[v].status = "LISTENING" /\ ~udt[v].broken
                  /\ Cardinality(queued[v]) <= Cardinality(A) + Cardinality(S)
    BY <1>1, EachWoken DEF Woken
  <2>2. SUFFICES W2 # {} => /\ sock'[v].status = "LISTENING" /\ ~udt'[v].broken
                            /\ Cardinality(queued'[v]) <= Cardinality(A2) + Cardinality(S2)
    BY DEF Woken
  <2>3. W2 = W /\ A2 = A /\ A \subseteq Threads /\ S \subseteq Socket
    BY <1>1
  <2>4. S2 = S \cup {m} /\ m \notin S
    BY <1>1, <1>2
  <2> HIDE DEF A, A2, W, W2, S, S2, v, n
  <2>5. /\ IsFiniteSet(S) /\ IsFiniteSet(queued[v])
        /\ Cardinality(A) \in Nat /\ Cardinality(S) \in Nat /\ Cardinality(queued[v]) \in Nat
    BY <1>2, <2>3, FiniteParts
  <2>6. /\ Cardinality(S2) = Cardinality(S) + 1
        /\ Cardinality(queued'[v]) \in {Cardinality(queued[v]), Cardinality(queued[v]) + 1}
    <3>1. Cardinality(S \cup {m}) = Cardinality(S) + 1
      BY <2>4, <2>5, FS_AddElement
    <3>2. Cardinality(queued[v] \cup {n}) \in {Cardinality(queued[v]), Cardinality(queued[v]) + 1}
      BY <2>5, FS_AddElement
    <3> QED
      BY <1>2, <2>4, <3>1, <3>2
  <2>7. W # {} => Cardinality(queued'[v]) <= Cardinality(A2) + Cardinality(S2)
    BY <2>1, <2>3, <2>5, <2>6
  <2> QED
    BY <1>1, <2>1, <2>3, <2>7
<1> QED
  BY <1>3, <1>4, EachWoken

\* The signal makes one of those who wait, if there is one, look into the queue.
LEMMA WokenBySignal == ASSUME Core, WaitersAreWoken, NEW m \in Socket, WorkerSignal(m) PROVE WaitersAreWoken'
<1> DEFINE v == worker[m].u
           W == {s \in Threads : app[s].u = v /\ app[s].pc = "wait"}
<1>1. /\ UNCHANGED <<sock, udt, queued>> /\ worker[m].pc = "signal" /\ v \in Socket
      /\ worker' = [worker EXCEPT ![m] = Rest]
  BY DEF WorkerSignal, Core, Shape
<1>2. /\ worker'[m].pc = "idle" /\ \A k \in Socket : k # m => worker'[k] = worker[k]
  BY <1>1 DEF Core, Shape, Rest
<1>3. CASE W = {}
  <2>1. app' = app
    BY <1>3 DEF WorkerSignal
  <2>2. Woken(v, app', worker', queued', sock', udt')
    BY <1>3, <2>1 DEF Woken
  <2>3. ASSUME NEW k \in Socket, k # v PROVE Woken(k, app', worker', queued', sock', udt')
    BY <1>1, <1>2, <2>1, <2>3, StillWoken, EachWoken DEF Core
  <2> QED
    BY <2>2, <2>3, EachWoken
<1>4. CASE W # {}
  <2>1. PICK t \in W : app' = [app EXCEPT ![t].pc = "accept"]
    BY <1>4 DEF WorkerSignal
  <2>2. /\ t \in Threads /\ app[t].u = v /\ app[t].pc = "wait"
        /\ app'[t].pc = "accept" /\ app'[t].u = v /\ \A s \in Threads : s # t => app'[s] = app[s]
    BY <2>1 DEF Core, Shape
  <2>3. ASSUME NEW k \in Socket, k # v PROVE Woken(k, app', worker', queued', sock', udt')
    BY <1>1, <1>2, <2>2, <2>3, StillWoken, EachWoken DEF Core
  <2>4. Woken(v, app', worker', queued', sock', udt')
    <3> DEFINE A == {s \in Threads : app[s].u = v /\ app[s].pc = "accept"}
               S == {k \in Socket : worker[k].u = v /\ worker[k].pc = "signal"}
               A2 == {s \in Threads : app'[s].u = v /\ app'[s].pc = "accept"}
               S2 == {k \in Socket : worker'[k].u = v /\ worker'[k].pc = "signal"}
    <3>1. /\ sock[v].status = "LISTENING" /\ ~udt[v].broken
          /\ Cardinality(queued[v]) <= Cardinality(A) + Cardinality(S)
      BY <1>1, <1>4, EachWoken DEF Woken
    <3>2. SUFFICES /\ sock'[v].status = "LISTENING" /\ ~udt'[v].broken
                   /\ Cardinality(queued'[v]) <= Cardinality(A2) + Cardinality(S2)
      BY DEF Woken
    <3>3. A2 = A \cup {t} /\ t \notin A /\ A \subseteq Threads /\ S \subseteq Socket
      BY <2>2
    <3>4. S2 = S \ {m} /\ m \in S
      BY <1>1, <1>2
    <3>5. queued'[v] = queued[v] /\ queued[v] \subseteq Socket
      BY <1>1 DEF Core, Shape
    <3> HIDE DEF A, A2, S, S2
    <3>6. /\ IsFiniteSet(S) /\ IsFiniteSet(A)
          /\ Cardinality(A) \in Nat /\ Cardinality(S) \in Nat /\ Cardinality(queued[v]) \in Nat
      BY <3>3, <3>5, FiniteParts
    <3>7. Cardinality(S2) = Cardinality(S) - 1 /\ Cardinality(A2) = Cardinality(A) + 1
      BY <3>3, <3>4, <3>6, FS_AddElement, FS_RemoveElement
    <3>8. Cardinality(queued'[v]) <= Cardinality(A2) + Cardinality(S2)
      BY <3>1, <3>5, <3>6, <3>7
    <3> QED
      BY <1>1, <3>1, <3>8
  <2> QED
    BY <2>3, <2>4, EachWoken
<1> QED
  BY <1>3, <1>4

LEMMA WokenStep == Core /\ WaitersAreWoken /\ [SocketsNext]_socketsVars => WaitersAreWoken'
<1> SUFFICES ASSUME Core, WaitersAreWoken, [SocketsNext]_socketsVars PROVE WaitersAreWoken'
  OBVIOUS
<1>1. CASE ApplicationNext
  BY <1>1, WokenByCalls, WokenByAccept, WokenByClose DEF ApplicationNext
<1>2. CASE WorkerNext
  BY <1>2, WokenByWorker, WokenByEnqueue, WokenBySignal DEF WorkerNext, WorkerStep
<1>3. CASE CollectorNext \/ TimeNext
  BY <1>3, WokenByCollector DEF CollectorNext, TimeNext
<1>4. CASE UNCHANGED socketsVars
  BY <1>4 DEF socketsVars, WaitersAreWoken
<1> QED
  BY <1>1, <1>2, <1>3, <1>4 DEF SocketsNext

\* No wake-up is lost: whoever waits in CUDTUnited::accept waits for an open listener, and there are
\* never more connections in its queue than threads that are about to look into it and signals that
\* its workers have still to give.
THEOREM NoLostWakeUp == SocketsSpec => []WaitersAreWoken
<1>1. SocketsInit => WaitersAreWoken
  BY DEF SocketsInit, WaitersAreWoken
<1>2. Core /\ WaitersAreWoken /\ [SocketsNext]_socketsVars => (Core /\ WaitersAreWoken)'
  BY CoreStep, WokenStep
<1> QED
  BY CoreInit, <1>1, <1>2, PTL DEF SocketsSpec
-----------------------------------------------------------------------------
LockPcs == {"connecting", "complete", "closing", "erase"}

\* The third part: who refers to a socket, to its port and to its request to connect, as long as the
\* process does not clean up.

\* A number that is of no socket, or of one that newConnection has just taken: nothing is set.
Blank ==
    \A u \in Socket :
        sock[u].place = "none" =>
            /\ ~sock[u].known /\ ~udt[u].listening
            /\ sock[u].peer = 0 =>
                  /\ sock[u].status = "INIT" /\ sock[u].mux = 0 /\ sock[u].tries = 0
                  /\ ~udt[u].opened /\ ~udt[u].connecting /\ ~udt[u].connected /\ ~udt[u].broken /\ ~udt[u].onList

\* From newConnection to accept a new socket is in one place, and the application does not know it.
Handed ==
    /\ \A l \in Socket : \A n \in queued[l] :
          /\ sock[n].place = "sockets" /\ ~sock[n].known /\ sock[n].peer # 0
          /\ \A k \in Socket : n \in queued[k] => k = l
    /\ \A m \in Socket : worker[m].pc \in {"insert", "enqueue"} =>
          LET n == worker[m].ns
          IN  /\ n \in Socket /\ ~sock[n].known /\ sock[n].mux = m /\ ~udt[n].broken /\ sock[n].peer # 0
              /\ worker[m].pc = "enqueue" => sock[n].place = "sockets"
              /\ \A l \in Socket : n \notin queued[l]
    /\ \A t \in Threads : app[t].pc = "accepted" =>
          LET n == app[t].got
          IN  /\ n \in Socket /\ sock[n].place \in {"sockets", "closed"} /\ sock[n].peer # 0
              /\ \A l \in Socket : n \notin queued[l]
              /\ \A m \in Socket : worker[m].pc \in {"insert", "enqueue"} => worker[m].ns # n

\* A second after a socket was closed no call is under way with it, and no worker has it in hand.
Released(u) ==
    /\ \A t \in Threads : app[t].u # u /\ (app[t].pc = "accepted" => app[t].got # u)
    /\ \A m \in Socket : worker[m].ns # u

Callers ==
    /\ \A t \in Threads : IF app[t].pc = "idle" THEN app[t].u = 0
                          ELSE sock[app[t].u].known /\ sock[app[t].u].place \in {"sockets", "closed"}
    /\ \A m \in Socket : /\ worker[m].pc = "idle" => worker[m].ns = 0
                         /\ worker[m].ns # 0 => worker[m].ns \in Socket /\ sock[worker[m].ns].place # "removed"
    /\ \A u \in Socket : sock[u].place = "closed" /\ sock[u].old => Released(u)
    /\ \A u \in gc.todo : sock[u].old

\* What the lock of a socket protects.
Locks ==
    /\ \A s, t \in Threads : app[s].pc \in LockPcs /\ app[t].pc \in LockPcs /\ app[s].u = app[t].u => s = t
    /\ \A t \in Threads :
          LET u == app[t].u
          IN  /\ app[t].pc \in LockPcs => ~udt[u].listening
              /\ app[t].pc = "connecting" => sock[u].place = "sockets" /\ ~udt[u].broken /\ ~udt[u].connected
              /\ app[t].pc = "complete" => udt[u].connected
              /\ app[t].pc \in {"connecting", "complete"} => udt[u].opened /\ sock[u].mux # 0

\* The flags that go with the status of a socket that nobody has locked, and with each other.
Flagged(u) ==
    /\ sock[u].place = "sockets" =>
          /\ sock[u].status = "INIT" =>
                /\ sock[u].mux = 0 /\ sock[u].tries = 0 /\ ~udt[u].opened /\ ~udt[u].listening
                /\ ~udt[u].connecting /\ ~udt[u].connected /\ ~udt[u].broken /\ ~udt[u].onList
          /\ udt[u].listening <=> sock[u].status = "LISTENING"
          /\ sock[u].status = "OPENED" /\ SocketLockFree(u) => udt[u].opened /\ sock[u].mux # 0
          /\ sock[u].status = "OPENED" /\ SocketLockFree(u) /\ udt[u].broken => udt[u].connected
    /\ udt[u].listening => udt[u].opened
    /\ udt[u].listening \/ udt[u].connected \/ udt[u].broken \/ sock[u].peer # 0 \/ sock[u].place = "removed"
          => ~udt[u].connecting
Statuses == \A u \in Socket : Flagged(u)

\* Who listens on a port uses it and is open.
Listeners ==
    \A m \in Socket : mux[m].listener # 0 =>
        LET u == mux[m].listener
        IN  sock[u].mux = m /\ udt[u].opened /\ udt[u].listening /\ sock[u].place \in {"sockets", "closed"}

\* A port has the number of a socket that was bound; the ports that are in use have.
Bound(m) == sock[m].place # "none" /\ ~(sock[m].place = "sockets" /\ sock[m].status = "INIT")

BoundPorts ==
    /\ \A m \in Socket : mux[m].refs # 0 \/ worker[m].pc # "idle" => Bound(m)
    /\ \A u \in Socket : sock[u].mux # 0 => sock[u].mux \in Socket /\ Bound(sock[u].mux)

\* m_iRefCount.
Users(m) == {u \in Socket : sock[u].mux = m /\ sock[u].place # "removed"}
Counted == \A m \in Socket : mux[m].refs = Cardinality(Users(m))

\* The requests to connect: a socket that has tried once has one at most, in the list of its port.
Request == [u : Socket, old : BOOLEAN]
In(u, q) == \E i \in DOMAIN q : q[i].u = u
Single(q, u) == \A i, j \in DOMAIN q : q[i].u = u /\ q[j].u = u => i = j
Asker(m, u) == /\ sock[u].peer = 0 /\ sock[u].tries # 0
               /\ sock[u].tries = 1 => sock[u].mux = m /\ udt[u].opened /\ sock[u].place # "removed"
Requests ==
    /\ connectors \in [Socket -> Seq(Request)]
    /\ \A m \in Socket : \A u \in Socket : /\ In(u, connectors[m]) => Asker(m, u)
                                           /\ sock[u].tries = 1 => Single(connectors[m], u)

\* A worker may still connect the socket.
HasRequest(u) == \E m \in Socket : In(u, connectors[m])
Asks(u) == sock[u].tries <= 1 /\ udt[u].connecting /\ HasRequest(u)

\* What is closed does not come back into the list of its worker.
Listed ==
    /\ \A u \in Socket : sock[u].tries \in Nat
    /\ \A u \in Socket : Done(u) => ~Asks(u)
    /\ \A t \in Threads : app[t].pc = "erase" => ~Asks(app[t].u)
    /\ \A u \in Socket : (sock[u].place = "removed" \/ u \in gc.todo) /\ sock[u].tries <= 1 => ~udt[u].onList

Parts == /\ Blank /\ Handed /\ Callers /\ Locks /\ Statuses /\ Listeners /\ BoundPorts /\ Counted
         /\ Requests /\ Listed
Removal == ~gc.stop => Parts

Safe == Core /\ WaitersAreWoken /\ Parts
-----------------------------------------------------------------------------

LEMMA SmallestIndex == ASSUME NEW S \in SUBSET Nat, S # {} PROVE \E k \in S : \A j \in S : k <= j
<1>1. PICK k \in S : \A j \in S : ~(<<j, k>> \in OpToRel(<, Nat))
  BY WFMin, NatLessThanWellFounded
<1>2. \A j \in S : j \in Nat /\ k \in Nat
  OBVIOUS
<1>3. \A j \in S : ~(j < k)
  BY <1>1, <1>2 DEF OpToRel
<1> QED
  BY <1>2, <1>3

LEMMA Shorter ==
    ASSUME NEW n \in Nat, NEW k \in Nat, 1 <= k, k <= n
    PROVE  /\ (k - 1) + (n - k) = n - 1 /\ 1 .. (k - 1) + (n - k) = 1 .. n - 1
           /\ \A i \in 1 .. n - 1 :
                 /\ i \in Nat
                 /\ i < k => i <= k - 1 /\ i \in 1 .. k - 1
                 /\ ~(i < k) => ~(i <= k - 1) /\ i - (k - 1) \in 1 .. n - k /\ k + (i - (k - 1)) = i + 1
OBVIOUS

\* A list without one of its elements.
LEMMA RemoveOne ==
    ASSUME NEW R, NEW q \in Seq(R), NEW k \in DOMAIN q
    PROVE  LET c == SubSeq(q, 1, k - 1) \o SubSeq(q, k + 1, Len(q))
           IN  /\ c \in Seq(R) /\ Len(c) = Len(q) - 1
               /\ \A i \in DOMAIN c : i \in Nat /\ c[i] = q[IF i < k THEN i ELSE i + 1]
<1> DEFINE n == Len(q)
           a == SubSeq(q, 1, k - 1)
           b == SubSeq(q, k + 1, Len(q))
           c == a \o b
<1>1. n \in Nat /\ k \in Nat /\ 1 <= k /\ k <= n /\ \A i \in 1 .. n : q[i] \in R
  OBVIOUS
<1>2. a \in Seq(R) /\ Len(a) = k - 1 /\ \A i \in 1 .. k - 1 : a[i] = q[i]
  <2>1. 1 \in 1 .. Len(q) + 1 /\ k - 1 \in 0 .. Len(q)
    BY <1>1
  <2> QED
    BY <1>1, <2>1, SubSeqProperties
<1>3. b \in Seq(R) /\ Len(b) = n - k /\ \A i \in 1 .. n - k : b[i] = q[k + i]
  <2>1. \A i \in k + 1 .. n : q[i] \in R
    BY <1>1
  <2>2. k + 1 \in Int /\ n \in Int /\ n - (k + 1) + 1 = n - k
    BY <1>1
  <2>3. /\ b \in Seq(R) /\ Len(b) = IF k + 1 <= n THEN n - (k + 1) + 1 ELSE 0
        /\ \A i \in 1 .. n - (k + 1) + 1 : b[i] = q[(k + 1) + i - 1]
    BY <2>1, <2>2, SubSeqProperties
  <2>4. (IF k + 1 <= n THEN n - (k + 1) + 1 ELSE 0) = n - k
    BY <1>1
  <2>5. \A i \in 1 .. n - k : (k + 1) + i - 1 = k + i
    BY <1>1
  <2> HIDE DEF b
  <2> QED
    BY <2>2, <2>3, <2>4, <2>5
<1>4. /\ c \in Seq(R) /\ Len(c) = Len(a) + Len(b)
      /\ \A i \in 1 .. Len(a) + Len(b) : c[i] = IF i <= Len(a) THEN a[i] ELSE b[i - Len(a)]
  BY <1>2, <1>3, ConcatProperties
<1> HIDE DEF n, a, b, c
<1>5. /\ Len(c) = (k - 1) + (n - k)
      /\ \A i \in 1 .. (k - 1) + (n - k) : c[i] = IF i <= k - 1 THEN a[i] ELSE b[i - (k - 1)]
  BY <1>2, <1>3, <1>4
<1>6. Len(c) = n - 1 /\ DOMAIN c = 1 .. n - 1
  <2>1. DOMAIN c = 1 .. Len(c)
    BY <1>4
  <2>2. (k - 1) + (n - k) = n - 1
    BY <1>1, Shorter
  <2>3. Len(c) = n - 1
    BY <1>5, <2>2
  <2> QED
    BY <2>1, <2>3
<1>7. ASSUME NEW i \in 1 .. n - 1 PROVE i \in Nat /\ c[i] = q[IF i < k THEN i ELSE i + 1]
  <2>1. /\ i \in Nat /\ i \in 1 .. (k - 1) + (n - k)
        /\ i < k => i <= k - 1 /\ i \in 1 .. k - 1
        /\ ~(i < k) => ~(i <= k - 1) /\ i - (k - 1) \in 1 .. n - k /\ k + (i - (k - 1)) = i + 1
    BY <1>1, Shorter
  <2>2. CASE i < k
    BY <1>2, <1>5, <2>1, <2>2
  <2>3. CASE ~(i < k)
    BY <1>3, <1>5, <2>1, <2>3
  <2> QED
    BY <2>2, <2>3
<1> QED
  BY <1>4, <1>6, <1>7 DEF n, a, b, c

\* Requests are taken away, none is added.
Thinned(c) ==
    /\ c \in [Socket -> Seq(Request)]
    /\ \A m \in Socket : \A u \in Socket : /\ In(u, c[m]) => In(u, connectors[m])
                                           /\ Single(connectors[m], u) => Single(c[m], u)

LEMMA WithoutIs ==
    ASSUME connectors \in [Socket -> Seq(Request)], NEW m \in Socket, NEW u \in Socket,
           NEW c, c = Without(m, u)
    PROVE  /\ Thinned(c)
           /\ Single(connectors[m], u) => ~In(u, c[m])
<1> DEFINE q == connectors[m]
           at == {i \in DOMAIN q : q[i].u = u}
           k == CHOOSE i \in at : \A j \in at : i <= j
           r == SubSeq(q, 1, k - 1) \o SubSeq(q, k + 1, Len(q))
<1>1. q \in Seq(Request) /\ Len(q) \in Nat /\ DOMAIN q = 1 .. Len(q)
  OBVIOUS
<1>2. /\ c \in [Socket -> {q, r} \cup {connectors[n] : n \in Socket}]
      /\ c[m] = IF at = {} THEN q ELSE r
      /\ \A n \in Socket : n # m => c[n] = connectors[n]
  BY DEF Without
<1>3. CASE at = {}
  <2>1. c = connectors
    <3>1. c \in [Socket -> {q, r} \cup {connectors[n] : n \in Socket}] /\ c[m] = q
          /\ \A n \in Socket : n # m => c[n] = connectors[n]
      BY <1>2, <1>3
    <3> HIDE DEF r, at
    <3>2. \A n \in Socket : c[n] = connectors[n]
      BY <3>1
    <3>3. DOMAIN c = Socket /\ DOMAIN connectors = Socket
      BY <3>1
    <3> HIDE DEF q
    <3> QED
      BY <3>1, <3>2, <3>3
  <2>2. ~In(u, q)
    BY <1>3 DEF In
  <2> QED
    BY <2>1, <2>2 DEF Thinned
<1>4. CASE at # {}
  <2>1. k \in at /\ k \in DOMAIN q /\ q[k].u = u
    <3>1. at \in SUBSET Nat
      BY <1>1
    <3>2. \E i \in at : \A j \in at : i <= j
      BY <1>4, <3>1, SmallestIndex
    <3>3. k \in at
      BY <3>2
    <3> QED
      BY <3>3
  <2> HIDE DEF k
  <2>2. /\ r \in Seq(Request) /\ Len(r) = Len(q) - 1
        /\ \A i \in DOMAIN r : i \in Nat /\ r[i] = q[IF i < k THEN i ELSE i + 1]
    BY <1>1, <2>1, RemoveOne
  <2> HIDE DEF r, at
  <2>3. DOMAIN r = 1 .. Len(q) - 1
    BY <2>2
  <2>4. ASSUME NEW i \in DOMAIN r
        PROVE  /\ (IF i < k THEN i ELSE i + 1) \in DOMAIN q /\ (IF i < k THEN i ELSE i + 1) # k
    BY <1>1, <2>1, <2>2, <2>3
  <2>5. \A i, j \in DOMAIN r : (IF i < k THEN i ELSE i + 1) = (IF j < k THEN j ELSE j + 1) => i = j
    BY <1>1, <2>1, <2>2, <2>3
  <2> DEFINE f(i) == IF i < k THEN i ELSE i + 1
  <2>6. /\ \A i \in DOMAIN r : r[i] = q[f(i)] /\ f(i) \in DOMAIN q /\ f(i) # k
        /\ \A i, j \in DOMAIN r : f(i) = f(j) => i = j
    BY <2>2, <2>4, <2>5
  <2> HIDE DEF f, q
  <2>7. \A n \in Socket : n # m => c[n] = connectors[n]
    BY <1>2
  <2>8. c[m] = r /\ connectors[m] = q
    BY <1>2, <1>4 DEF q
  <2>9. c \in [Socket -> Seq(Request)]
    <3>1. \A n \in Socket : c[n] \in Seq(Request)
      BY <2>2, <2>7, <2>8
    <3> QED
      BY <1>2, <3>1
  <2>10. \A w \in Socket : In(w, r) => In(w, q)
    BY <2>6 DEF In
  <2>11. \A w \in Socket : Single(q, w) => Single(r, w)
    BY <2>6 DEF Single
  <2>12. Single(q, u) => ~In(u, r)
    BY <2>1, <2>6 DEF Single, In
  <2>13. ASSUME NEW n \in Socket, NEW w \in Socket
         PROVE  (In(w, c[n]) => In(w, connectors[n])) /\ (Single(connectors[n], w) => Single(c[n], w))
    <3>1. CASE n = m
      BY <2>8, <2>10, <2>11, <3>1
    <3>2. CASE n # m
      BY <2>7, <3>2
    <3> QED
      BY <3>1, <3>2
  <2> QED
    BY <2>8, <2>9, <2>12, <2>13 DEF Thinned
<1> QED
  BY <1>3, <1>4

LEMMA Whole == connectors \in [Socket -> Seq(Request)] => Thinned(connectors)
BY DEF Thinned

LEMMA ThinnedRequests ==
    ASSUME Requests, Thinned(connectors'),
           \A u \in Socket : sock'[u].tries = sock[u].tries,
           \A m \in Socket : \A u \in Socket : In(u, connectors'[m]) /\ Asker(m, u) => Asker(m, u)'
    PROVE  Requests'
<1>1. Requests' <=>
        /\ connectors' \in [Socket -> Seq(Request)]
        /\ \A m \in Socket : \A u \in Socket : /\ In(u, connectors'[m]) => Asker(m, u)'
                                               /\ sock'[u].tries = 1 => Single(connectors'[m], u)
  BY DEF Requests, In, Single, Request
<1>2. /\ \A m \in Socket : \A u \in Socket : In(u, connectors'[m]) => Asker(m, u)'
      /\ \A m \in Socket : \A u \in Socket : sock'[u].tries = 1 => Single(connectors'[m], u)
      /\ connectors' \in [Socket -> Seq(Request)]
  BY DEF Requests, Thinned
<1> QED
  BY <1>1, <1>2

LEMMA NoNewAsks ==
    ASSUME Thinned(connectors'), NEW u \in Socket, sock'[u].tries = sock[u].tries,
           udt'[u].connecting => udt[u].connecting
    PROVE  Asks(u)' => Asks(u)
<1>1. HasRequest(u)' <=> \E m \in Socket : In(u, connectors'[m])
  BY DEF HasRequest, In
<1>2. HasRequest(u) <=> \E m \in Socket : In(u, connectors[m])
  BY DEF HasRequest
<1> QED
  BY <1>1, <1>2 DEF Thinned, Asks

LEMMA SameUsers ==
    ASSUME Counted, \A m \in Socket : mux'[m].refs = mux[m].refs,
           \A u \in Socket : /\ sock'[u].mux = sock[u].mux
                             /\ sock'[u].place = "removed" <=> sock[u].place = "removed"
    PROVE  Counted'
<1>1. \A m \in Socket : Users(m)' = Users(m)
  BY DEF Users
<1> QED
  BY <1>1 DEF Counted

\* A thread goes on with its call, ends it, or begins one with a socket that is there; a worker goes on,
\* ends, or makes a new socket; no socket is deleted and none gets old.
LEMMA CallersStep ==
    ASSUME Callers,
           \A u \in Socket : /\ sock[u].known => sock'[u].known
                             /\ sock[u].place \in {"sockets", "closed"} => sock'[u].place \in {"sockets", "closed"}
                             /\ sock[u].place # "removed" => sock'[u].place # "removed"
                             /\ sock'[u].place = "closed" /\ sock'[u].old => sock[u].place = "closed" /\ sock[u].old,
           \A t \in Threads :
              /\ app[t].pc # "idle" => app[t].u \in Socket
              /\ \/ app'[t] = app[t]
                 \/ app'[t].pc = "idle" /\ app'[t].u = 0
                 \/ /\ app'[t].pc # "idle" /\ app[t].pc # "idle" /\ app'[t].u = app[t].u
                    /\ app'[t].pc = "accepted" => sock'[app'[t].got].place = "sockets"
                 \/ /\ app'[t].pc \notin {"idle", "accepted"} /\ app'[t].u \in Socket
                    /\ sock'[app'[t].u].known /\ sock'[app'[t].u].place = "sockets",
           \A m \in Socket :
              \/ worker'[m].ns = worker[m].ns /\ (worker'[m].pc = "idle" => worker[m].pc = "idle")
              \/ worker'[m].ns = 0
              \/ /\ worker'[m].pc # "idle" /\ worker'[m].ns \in Socket
                 /\ sock'[worker'[m].ns].place = "none",
           \A u \in gc'.todo : sock'[u].old
    PROVE  Callers'
<1>1. \A t \in Threads : IF app'[t].pc = "idle" THEN app'[t].u = 0
                         ELSE sock'[app'[t].u].known /\ sock'[app'[t].u].place \in {"sockets", "closed"}
  BY DEF Callers
<1>2. \A m \in Socket : /\ worker'[m].pc = "idle" => worker'[m].ns = 0
                        /\ worker'[m].ns # 0 => worker'[m].ns \in Socket /\ sock'[worker'[m].ns].place # "removed"
  BY DEF Callers
<1>3. ASSUME NEW u \in Socket, sock'[u].place = "closed" /\ sock'[u].old PROVE Released(u)'
  BY <1>3, Nonzero DEF Callers, Released
<1> QED
  BY <1>1, <1>2, <1>3 DEF Callers

LEMMA CallersSame ==
    ASSUME Core, Callers, UNCHANGED <<app, worker, gc>>,
           \A u \in Socket : /\ sock[u].known => sock'[u].known
                             /\ sock'[u].place = sock[u].place
                             /\ sock'[u].place = "closed" => sock'[u].old = sock[u].old
    PROVE  Callers'
<1>1. \A u \in gc'.todo : sock'[u].old
  BY DEF Core, Todo, Callers
<1>2. \A t \in Threads : (app[t].pc # "idle" => app[t].u \in Socket) /\ app'[t] = app[t]
  BY DEF Core, Shape
<1> QED
  BY <1>1, <1>2, CallersStep

LEMMA newSocketSafe == ASSUME Safe, NEW t \in Threads, newSocket(t) PROVE Parts'
<1> DEFINE n == made + 1
<1>1. n \in Socket /\ UNCHANGED <<udt, queued, mux, connectors, app, worker, gc>>
  BY SocketsAssumption DEF Safe, Core, Shape, newSocket, Socket
<1>2. /\ sock'[n].place = "sockets" /\ sock'[n].known /\ sock'[n].status = sock[n].status
      /\ sock'[n].peer = sock[n].peer /\ sock'[n].mux = sock[n].mux /\ sock'[n].tries = sock[n].tries
      /\ sock'[n].old = sock[n].old
      /\ \A u \in Socket : u # n => sock'[u] = sock[u]
  BY <1>1 DEF Safe, Core, Shape, newSocket
<1>3. sock[n].place = "none" /\ sock[n].peer = 0
  BY <1>1 DEF Safe, Core, Fresh, Shape
<1> HIDE DEF n
<1>4. Blank'
  BY <1>1, <1>2 DEF Safe, Parts, Blank
<1>5. Handed'
  BY <1>1, <1>2, <1>3 DEF Safe, Parts, Handed, Core, Shape
<1>6. Callers'
  BY <1>1, <1>2, <1>3 DEF Safe, Parts, Callers, Released, Core, Shape, Todo
<1>7. Locks'
  BY <1>1, <1>2, <1>3 DEF Safe, Parts, Locks, LockPcs, Core, Shape
<1>8. Statuses'
  BY <1>1, <1>2, <1>3 DEF Safe, Parts, Statuses, Flagged, Blank, SocketLockFree
<1>9. Listeners'
  BY <1>1, <1>2 DEF Safe, Parts, Listeners, Core, Shape
<1>10. BoundPorts'
  BY <1>1, <1>2, <1>3 DEF Safe, Parts, BoundPorts, Bound
<1>11. Counted'
  BY <1>1, <1>2, <1>3, SameUsers DEF Safe, Parts
<1>12. Requests'
  <2>1. \A u \in Socket : sock'[u].tries = sock[u].tries
    BY <1>2
  <2>2. ASSUME NEW m \in Socket, NEW u \in Socket, Asker(m, u) PROVE Asker(m, u)'
    BY <1>1, <1>2, <2>2 DEF Asker
  <2>3. Thinned(connectors')
    BY <1>1, Whole DEF Safe, Parts, Requests
  <2> QED
    BY <2>1, <2>2, <2>3, ThinnedRequests DEF Safe, Parts
<1>13. Listed'
  BY <1>1, <1>2, <1>3 DEF Safe, Parts, Listed, Asks, HasRequest, Done, Core, Shape
<1> QED
  BY <1>4, <1>5, <1>6, <1>7, <1>8, <1>9, <1>10, <1>11, <1>12, <1>13 DEF Parts

LEMMA SameRequests ==
    ASSUME Requests, connectors' = connectors,
           \A u \in Socket : sock'[u].tries = sock[u].tries,
           \A m \in Socket : \A u \in Socket : Asker(m, u) => Asker(m, u)'
    PROVE  Requests'
<1>1. Thinned(connectors')
  BY Whole DEF Requests
<1> QED
  BY <1>1, ThinnedRequests

LEMMA FiniteUsers == \A m \in Socket : IsFiniteSet(Users(m)) /\ Cardinality(Users(m)) \in Nat
<1>1. \A m \in Socket : Users(m) \subseteq Socket
  BY DEF Users
<1> QED
  BY <1>1, FiniteParts

\* A socket comes to use a port, or is the first to use it.
LEMMA OneMoreUser ==
    ASSUME Counted, NEW v \in Socket, NEW m \in Socket, sock[v].mux = 0,
           sock'[v].mux = m, sock[v].place # "removed", sock'[v].place # "removed",
           \A u \in Socket : u # v => sock'[u].mux = sock[u].mux /\ sock'[u].place = sock[u].place,
           mux'[m].refs = mux[m].refs + 1,
           \A k \in Socket : k # m => mux'[k].refs = mux[k].refs
    PROVE  Counted'
<1>1. v \notin Users(m) /\ Users(m)' = Users(m) \cup {v}
  BY Nonzero DEF Users
<1>2. \A k \in Socket : k # m => Users(k)' = Users(k)
  BY Nonzero DEF Users
<1>3. Cardinality(Users(m) \cup {v}) = Cardinality(Users(m)) + 1
  BY <1>1, FiniteUsers, FS_AddElement
<1> QED
  BY <1>1, <1>2, <1>3 DEF Counted

\* updateMux: the port that it chooses, and what becomes of it.
LEMMA PortOfItsOwn ==
    ASSUME Safe, NEW u \in Socket, sock[u].place = "sockets", sock[u].status = "INIT"
    PROVE  mux[u].refs = 0 /\ worker[u].pc = "idle"
BY DEF Safe, Parts, BoundPorts, Bound

LEMMA bindSafe == ASSUME Safe, NEW t \in Threads, NEW v \in Socket, bind(t, v) PROVE Parts'
<1>1. /\ sock[v].place = "sockets" /\ sock[v].status = "INIT" /\ SocketLockFree(v) /\ sock[v].known
      /\ UNCHANGED <<made, queued, connectors, app, worker, gc>>
      /\ udt' = [udt EXCEPT ![v].opened = TRUE]
  BY DEF bind, Calls, Located
<1>2. PICK m \in Socket :
         /\ sock' = [sock EXCEPT ![v] = [@ EXCEPT !.status = "OPENED", !.mux = m]]
         /\ \/ m = v /\ mux' = newMux(v, TRUE)
            \/ m \in Shared /\ mux' = reuseMux(m)
  BY DEF bind, Shared
<1>3. /\ \A u \in Socket : u # v => sock'[u] = sock[u] /\ udt'[u] = udt[u]
      /\ sock'[v].place = sock[v].place /\ sock'[v].status = "OPENED" /\ sock'[v].peer = sock[v].peer
      /\ sock'[v].mux = m /\ sock'[v].known = sock[v].known /\ sock'[v].old = sock[v].old
      /\ sock'[v].tries = sock[v].tries
      /\ udt'[v].opened /\ udt'[v].listening = udt[v].listening /\ udt'[v].connecting = udt[v].connecting
      /\ udt'[v].connected = udt[v].connected /\ udt'[v].broken = udt[v].broken
      /\ udt'[v].onList = udt[v].onList
  <2>1. /\ \A u \in Socket : u # v => sock'[u] = sock[u]
        /\ sock'[v].place = sock[v].place /\ sock'[v].status = "OPENED" /\ sock'[v].peer = sock[v].peer
        /\ sock'[v].mux = m /\ sock'[v].known = sock[v].known /\ sock'[v].old = sock[v].old
        /\ sock'[v].tries = sock[v].tries
    BY <1>2 DEF Safe, Core, Shape
  <2> QED
    BY <1>1, <2>1 DEF Safe, Core, Shape
<1>4. /\ sock[v].mux = 0 /\ sock[v].tries = 0 /\ ~udt[v].opened /\ ~udt[v].listening
      /\ ~udt[v].connecting /\ ~udt[v].connected /\ ~udt[v].broken /\ ~udt[v].onList
  BY <1>1 DEF Safe, Parts, Statuses, Flagged
<1>5. /\ mux'[m].refs = mux[m].refs + 1 /\ mux'[m].listener \in {0, mux[m].listener}
      /\ \A k \in Socket : k # m => mux'[k] = mux[k]
      /\ m # v => mux[m].refs # 0
  <2>1. CASE m = v /\ mux' = newMux(v, TRUE)
    <3>1. mux[v].refs = 0
      BY <1>1, PortOfItsOwn
    <3> QED
      BY <2>1, <3>1 DEF newMux, Safe, Core, Shape
  <2>2. CASE m \in Shared /\ mux' = reuseMux(m)
    <3>1. mux[m].refs > 0 /\ mux[m].refs \in Nat
      BY <2>2, FiniteUsers DEF Shared, Safe, Parts, Counted
    <3>2. mux[m].refs # 0
      BY <3>1
    <3> QED
      BY <2>2, <3>2 DEF reuseMux, Safe, Core, Shape
  <2> QED
    BY <1>2, <2>1, <2>2
<1>6. Blank'
  BY <1>1, <1>3 DEF Safe, Parts, Blank
<1>7. Handed'
  BY <1>1, <1>3 DEF Safe, Parts, Handed, Core, Shape
<1>8. Callers'
  BY <1>1, <1>3, CallersSame DEF Safe, Parts
<1>9. Locks'
  BY <1>1, <1>3 DEF Safe, Parts, Locks, LockPcs, Core, Shape, SocketLockFree
<1>10. Statuses'
  BY <1>1, <1>3, <1>4, Nonzero DEF Safe, Parts, Statuses, Flagged, SocketLockFree
<1>11. Listeners'
  BY <1>3, <1>4, <1>5, Nonzero DEF Safe, Parts, Listeners, Core, Shape
<1>12. BoundPorts'
  BY <1>1, <1>3, <1>5 DEF Safe, Parts, BoundPorts, Bound
<1>13. Counted'
  BY <1>1, <1>3, <1>4, <1>5, OneMoreUser DEF Safe, Parts
<1>14. Requests'
  <2>1. \A u \in Socket : sock'[u].tries = sock[u].tries
    BY <1>3
  <2>2. ASSUME NEW k \in Socket, NEW u \in Socket, Asker(k, u) PROVE Asker(k, u)'
    BY <1>1, <1>3, <1>4, <2>2 DEF Asker
  <2> QED
    BY <1>1, <2>1, <2>2, SameRequests DEF Safe, Parts
<1>15. Listed'
  BY <1>1, <1>3, <1>4 DEF Safe, Parts, Listed, Asks, HasRequest, Done, Core, Shape
<1> QED
  BY <1>6, <1>7, <1>8, <1>9, <1>10, <1>11, <1>12, <1>13, <1>14, <1>15 DEF Parts

LEMMA listenSafe == ASSUME Safe, NEW t \in Threads, NEW v \in Socket, listen(t, v) PROVE Parts'
<1>1. /\ sock[v].place = "sockets" /\ sock[v].status = "OPENED" /\ SocketLockFree(v) /\ sock[v].known
      /\ ~udt[v].connecting /\ ~udt[v].connected
      /\ UNCHANGED <<made, queued, connectors, app, worker, gc>>
      /\ mux[sock[v].mux].listener = 0 /\ mux' = [mux EXCEPT ![sock[v].mux].listener = v]
  BY DEF listen, Calls, Located, setListener
<1>2. /\ \A u \in Socket : u # v => sock'[u] = sock[u] /\ udt'[u] = udt[u]
      /\ sock'[v].place = sock[v].place /\ sock'[v].status = "LISTENING" /\ sock'[v].peer = sock[v].peer
      /\ sock'[v].mux = sock[v].mux /\ sock'[v].known = sock[v].known /\ sock'[v].old = sock[v].old
      /\ sock'[v].tries = sock[v].tries
      /\ udt'[v].opened = udt[v].opened /\ udt'[v].listening /\ udt'[v].connecting = udt[v].connecting
      /\ udt'[v].connected = udt[v].connected /\ udt'[v].broken = udt[v].broken
      /\ udt'[v].onList = udt[v].onList
  BY DEF listen, Safe, Core, Shape
<1>3. /\ udt[v].opened /\ sock[v].mux \in Socket /\ ~udt[v].broken
  BY <1>1 DEF Safe, Parts, Statuses, Flagged, BoundPorts
<1>4. \A k \in Socket : /\ mux'[k].refs = mux[k].refs
                        /\ mux'[k].listener = IF k = sock[v].mux THEN v ELSE mux[k].listener
  BY <1>1, <1>3 DEF Safe, Core, Shape
<1>6. Blank'
  BY <1>1, <1>2 DEF Safe, Parts, Blank
<1>7. Handed'
  BY <1>1, <1>2 DEF Safe, Parts, Handed, Core, Shape
<1>8. Callers'
  BY <1>1, <1>2, CallersSame DEF Safe, Parts
<1>9. Locks'
  BY <1>1, <1>2 DEF Safe, Parts, Locks, LockPcs, Core, Shape, SocketLockFree
<1>10. Statuses'
  <2>1. Flagged(v)'
    BY <1>1, <1>2, <1>3 DEF Flagged
  <2>2. ASSUME NEW u \in Socket, u # v PROVE Flagged(u)'
    BY <1>1, <1>2, <2>2 DEF Safe, Parts, Statuses, Flagged, SocketLockFree
  <2> QED
    BY <2>1, <2>2 DEF Statuses
<1>11. Listeners'
  <2>1. /\ Listeners /\ sock'[v].mux = sock[v].mux /\ udt'[v].opened /\ udt'[v].listening
        /\ sock'[v].place = "sockets"
    BY <1>1, <1>2, <1>3 DEF Safe, Parts
  <2> SUFFICES ASSUME NEW k \in Socket, mux'[k].listener # 0
               PROVE  LET u == mux'[k].listener
                      IN  sock'[u].mux = k /\ udt'[u].opened /\ udt'[u].listening
                          /\ sock'[u].place \in {"sockets", "closed"}
    BY DEF Listeners
  <2>2. CASE k = sock[v].mux
    BY <1>4, <2>1, <2>2
  <2>3. CASE k # sock[v].mux
    <3>1. mux'[k].listener = mux[k].listener /\ mux[k].listener \in Socket
      BY <1>4, <2>3 DEF Safe, Core, Shape
    <3>2. sock[mux[k].listener].mux = k /\ mux[k].listener # v
      BY <2>1, <2>3, <3>1 DEF Listeners
    <3> QED
      BY <1>2, <2>1, <3>1, <3>2 DEF Listeners
  <2> QED
    BY <2>2, <2>3
<1>12. BoundPorts'
  BY <1>1, <1>2, <1>4 DEF Safe, Parts, BoundPorts, Bound
<1>13. Counted'
  BY <1>2, <1>4, SameUsers DEF Safe, Parts
<1>14. Requests'
  <2>1. \A u \in Socket : sock'[u].tries = sock[u].tries
    BY <1>2
  <2>2. ASSUME NEW k \in Socket, NEW u \in Socket, Asker(k, u) PROVE Asker(k, u)'
    BY <1>2, <2>2 DEF Asker
  <2> QED
    BY <1>1, <2>1, <2>2, SameRequests DEF Safe, Parts
<1>15. Listed'
  BY <1>1, <1>2 DEF Safe, Parts, Listed, Asks, HasRequest, Done, Core, Shape
<1> QED
  BY <1>6, <1>7, <1>8, <1>9, <1>10, <1>11, <1>12, <1>13, <1>14, <1>15 DEF Parts

\* accept reads and changes nothing of a socket but that the application knows it.
LEMMA OnlyAccept ==
    ASSUME Safe, UNCHANGED <<sock, udt, mux, connectors, worker, gc>>,
           \A s \in Threads : app'[s].pc \in LockPcs \/ app[s].pc \in LockPcs => app'[s] = app[s]
    PROVE  Blank' /\ Locks' /\ Statuses' /\ Listeners' /\ BoundPorts' /\ Counted' /\ Requests' /\ Listed'
<1>1. Blank' /\ Listeners' /\ BoundPorts'
  BY DEF Safe, Parts, Blank, Listeners, BoundPorts, Bound
<1>2. Locks'
  BY DEF Safe, Parts, Locks, LockPcs
<1>3. ASSUME NEW u \in Socket PROVE Flagged(u)'
  <2>1. SocketLockFree(u)' <=> SocketLockFree(u)
    BY DEF SocketLockFree, LockPcs
  <2> QED
    BY <2>1 DEF Safe, Parts, Statuses, Flagged
<1>4. Counted'
  BY SameUsers DEF Safe, Parts
<1>5. Requests'
  BY SameRequests DEF Safe, Parts, Asker
<1>6. Listed'
  <2>1. \A s \in Threads : app'[s].pc = "erase" => app[s].pc = "erase" /\ app'[s].u = app[s].u
    BY DEF LockPcs
  <2> QED
    BY <2>1 DEF Safe, Parts, Listed, Asks, HasRequest, Done
<1> QED
  BY <1>1, <1>2, <1>3, <1>4, <1>5, <1>6 DEF Statuses

LEMMA AcceptBeginSafe == ASSUME Safe, NEW t \in Threads, NEW v \in Socket, AcceptBegin(t, v) PROVE Parts'
<1>1. /\ UNCHANGED <<made, sock, udt, queued, mux, connectors, worker, gc>>
      /\ app[t].pc = "idle" /\ sock[v].known /\ sock[v].place = "sockets"
      /\ app'[t].pc = "accept" /\ app'[t].u = v /\ \A s \in Threads : s # t => app'[s] = app[s]
  BY CallsFromIdle DEF AcceptBegin, Idle, Safe, Core, Shape, Calls, Located
<1>2. Handed'
  BY <1>1 DEF Safe, Parts, Handed
<1>3. Callers'
  <2>1. \A s \in Threads : app[s].pc # "idle" => app[s].u \in Socket
    BY DEF Safe, Core, Shape
  <2>2. \A u \in gc'.todo : sock'[u].old
    BY <1>1 DEF Safe, Parts, Callers
  <2> QED
    BY <1>1, <2>1, <2>2, CallersStep DEF Safe, Parts
<1>4. \A s \in Threads : app'[s].pc \in LockPcs \/ app[s].pc \in LockPcs => app'[s] = app[s]
  BY <1>1 DEF LockPcs
<1> QED
  BY <1>1, <1>2, <1>3, <1>4, OnlyAccept DEF Parts

LEMMA AcceptTrySafe == ASSUME Safe, NEW t \in Threads, AcceptTry(t) PROVE Parts'
<1> DEFINE l == app[t].u
<1>1. /\ UNCHANGED <<made, sock, udt, mux, connectors, worker, gc>>
      /\ app[t].pc = "accept" /\ l \in Socket
  BY DEF AcceptTry, Safe, Core, Shape
<1>a. \/ app' = [app EXCEPT ![t] = Idle] /\ UNCHANGED queued
      \/ /\ queued' = [queued EXCEPT ![l] = @ \ Newest(queued[l])]
         /\ \E n \in Newest(queued[l]) : app' = [app EXCEPT ![t] = [@ EXCEPT !.pc = "accepted", !.got = n]]
      \/ app' = [app EXCEPT ![t].pc = "wait"] /\ UNCHANGED queued
  BY DEF AcceptTry
<1>2. \A s \in Threads : s # t => app'[s] = app[s]
  BY <1>a DEF Safe, Core, Shape
<1>3. \/ UNCHANGED queued /\ app'[t].pc = "idle" /\ app'[t].u = 0
      \/ UNCHANGED queued /\ app'[t].pc = "wait" /\ app'[t].u = l
      \/ \E n \in queued[l] : /\ app'[t].pc = "accepted" /\ app'[t].u = l /\ app'[t].got = n
                              /\ queued' = [queued EXCEPT ![l] = @ \ {n}]
  <2>1. CASE app' = [app EXCEPT ![t] = Idle] /\ UNCHANGED queued
    BY <2>1 DEF Idle, Safe, Core, Shape
  <2>2. CASE app' = [app EXCEPT ![t].pc = "wait"] /\ UNCHANGED queued
    BY <2>2 DEF Safe, Core, Shape
  <2>3. ASSUME NEW n \in Newest(queued[l]), app' = [app EXCEPT ![t] = [@ EXCEPT !.pc = "accepted", !.got = n]],
               queued' = [queued EXCEPT ![l] = @ \ Newest(queued[l])]
        PROVE  /\ n \in queued[l] /\ app'[t].pc = "accepted" /\ app'[t].u = l /\ app'[t].got = n
               /\ queued' = [queued EXCEPT ![l] = @ \ {n}]
    <3>1. Newest(queued[l]) = {n} /\ n \in queued[l]
      BY <1>1, OneNewest DEF Safe, Core, Shape
    <3>2. queued' = [queued EXCEPT ![l] = @ \ {n}]
      BY <2>3, <3>1
    <3> QED
      BY <2>3, <3>1, <3>2 DEF Safe, Core, Shape
  <2> QED
    BY <1>a, <2>1, <2>2, <2>3
<1>4. Handed'
  <2>1. CASE UNCHANGED queued /\ app'[t].pc # "accepted"
    BY <1>1, <1>2, <2>1 DEF Safe, Parts, Handed
  <2>2. ASSUME NEW n \in queued[l],
               app'[t].pc = "accepted" /\ app'[t].u = l /\ app'[t].got = n,
               queued' = [queued EXCEPT ![l] = @ \ {n}]
        PROVE  Handed'
    <3>1. /\ n \in Socket /\ sock[n].place = "sockets" /\ sock[n].peer # 0
          /\ \A k \in Socket : n \notin queued'[k] /\ queued'[k] \subseteq queued[k]
      <4>1. n \in Socket /\ sock[n].place = "sockets" /\ sock[n].peer # 0
        BY <1>1, <2>2 DEF Safe, Parts, Handed, Core, Shape
      <4>2. \A k \in Socket : queued'[k] = IF k = l THEN queued[k] \ {n} ELSE queued[k]
        BY <1>1, <2>2 DEF Safe, Core, Shape
      <4>3. \A k \in Socket : n \in queued[k] => k = l
        BY <1>1, <2>2 DEF Safe, Parts, Handed
      <4> QED
        BY <4>1, <4>2, <4>3
    <3>2. \A m \in Socket : worker[m].pc \in {"insert", "enqueue"} => worker[m].ns # n
      BY <1>1, <2>2 DEF Safe, Parts, Handed
    <3> QED
      BY <1>1, <1>2, <2>2, <3>1, <3>2 DEF Safe, Parts, Handed
  <2> QED
    BY <1>3, <2>1, <2>2
<1>5. Callers'
  <2>1. \A s \in Threads : app[s].pc # "idle" => app[s].u \in Socket
    BY DEF Safe, Core, Shape
  <2>2. \A u \in gc'.todo : sock'[u].old
    BY <1>1 DEF Safe, Parts, Callers
  <2>3. app'[t].pc = "accepted" => sock'[app'[t].got].place = "sockets"
    BY <1>1, <1>3 DEF Safe, Parts, Handed
  <2>4. \/ app'[t].pc = "idle" /\ app'[t].u = 0
        \/ app'[t].pc # "idle" /\ app[t].pc # "idle" /\ app'[t].u = app[t].u
    BY <1>1, <1>3
  <2> QED
    BY <1>1, <1>2, <2>1, <2>2, <2>3, <2>4, CallersStep DEF Safe, Parts
<1>6. \A s \in Threads : app'[s].pc \in LockPcs \/ app[s].pc \in LockPcs => app'[s] = app[s]
  BY <1>1, <1>2, <1>3 DEF LockPcs
<1> QED
  BY <1>1, <1>4, <1>5, <1>6, OnlyAccept DEF Parts

LEMMA AcceptEndSafe == ASSUME Safe, NEW t \in Threads, AcceptEnd(t) PROVE Parts'
<1> DEFINE v == app[t].got
<1>1. /\ UNCHANGED <<made, udt, queued, mux, connectors, worker, gc>>
      /\ app[t].pc = "accepted" /\ sock' = [sock EXCEPT ![v].known = TRUE]
      /\ v \in Socket /\ sock[v].place # "none" /\ sock[v].peer # 0
  BY DEF AcceptEnd, Safe, Parts, Handed
<1>2. /\ app'[t].pc = "idle" /\ app'[t].u = 0 /\ \A s \in Threads : s # t => app'[s] = app[s]
      /\ \A u \in Socket : u # v => sock'[u] = sock[u]
      /\ sock'[v].place = sock[v].place /\ sock'[v].status = sock[v].status /\ sock'[v].peer = sock[v].peer
      /\ sock'[v].mux = sock[v].mux /\ sock'[v].known /\ sock'[v].old = sock[v].old
      /\ sock'[v].tries = sock[v].tries
  <2>1. app' = [app EXCEPT ![t] = Idle]
    BY DEF AcceptEnd
  <2> QED
    BY <1>1, <2>1 DEF Safe, Core, Shape, Idle
<1>3. /\ \A k \in Socket : v \notin queued[k]
      /\ \A m \in Socket : worker[m].pc \in {"insert", "enqueue"} => worker[m].ns # v
  BY <1>1 DEF Safe, Parts, Handed
<1> HIDE DEF v
<1>4. Blank'
  BY <1>1, <1>2 DEF Safe, Parts, Blank
<1>5. Handed'
  <2>1. \A l \in Socket : queued[l] \subseteq Socket
    BY DEF Safe, Core, Shape
  <2> QED
    BY <1>1, <1>2, <1>3, <2>1 DEF Safe, Parts, Handed
<1>6. Callers'
  <2>1. \A s \in Threads : app[s].pc # "idle" => app[s].u \in Socket
    BY DEF Safe, Core, Shape
  <2>2. \A u \in gc'.todo : sock'[u].old
    BY <1>1, <1>2 DEF Safe, Parts, Callers, Core, Todo
  <2> QED
    BY <1>1, <1>2, <2>1, <2>2, CallersStep DEF Safe, Parts
<1>7. Locks'
  <2>1. \A s \in Threads : app'[s].pc \in LockPcs => app'[s] = app[s] /\ app[s].u \in Socket
    BY <1>1, <1>2 DEF LockPcs, Safe, Core, Shape
  <2>2. \A u \in Socket : sock'[u].place = sock[u].place /\ sock'[u].mux = sock[u].mux
    BY <1>2
  <2> QED
    BY <1>1, <2>1, <2>2 DEF Safe, Parts, Locks, LockPcs
<1>8. Statuses'
  <2>1. ASSUME NEW u \in Socket PROVE Flagged(u)'
    <3>1. SocketLockFree(u)' <=> SocketLockFree(u)
      BY <1>1, <1>2 DEF SocketLockFree
    <3>2. /\ sock'[u].place = sock[u].place /\ sock'[u].status = sock[u].status /\ sock'[u].peer = sock[u].peer
          /\ sock'[u].mux = sock[u].mux /\ sock'[u].tries = sock[u].tries
      BY <1>2
    <3> QED
      BY <1>1, <3>1, <3>2 DEF Safe, Parts, Statuses, Flagged
  <2> QED
    BY <2>1 DEF Statuses
<1>9. Listeners'
  BY <1>1, <1>2 DEF Safe, Parts, Listeners, Core, Shape
<1>10. BoundPorts'
  BY <1>1, <1>2 DEF Safe, Parts, BoundPorts, Bound
<1>11. Counted'
  BY <1>1, <1>2, SameUsers DEF Safe, Parts
<1>12. Requests'
  <2>1. \A u \in Socket : sock'[u].tries = sock[u].tries
    BY <1>2
  <2>2. ASSUME NEW k \in Socket, NEW u \in Socket, Asker(k, u) PROVE Asker(k, u)'
    BY <1>1, <1>2, <2>2 DEF Asker
  <2> QED
    BY <1>1, <2>1, <2>2, SameRequests DEF Safe, Parts
<1>13. Listed'
  BY <1>1, <1>2 DEF Safe, Parts, Listed, Asks, HasRequest, Done, Core, Shape
<1> QED
  BY <1>4, <1>5, <1>6, <1>7, <1>8, <1>9, <1>10, <1>11, <1>12, <1>13 DEF Parts

LEMMA OneMoreRequest ==
    ASSUME NEW q \in Seq(Request), NEW r \in Request, NEW c, c = Append(q, r)
    PROVE  /\ c \in Seq(Request)
           /\ \A u \in Socket : /\ In(u, c) <=> In(u, q) \/ u = r.u
                                /\ Single(q, u) /\ (u = r.u => ~In(u, q)) => Single(c, u)
<1>1. Len(q) \in Nat /\ DOMAIN q = 1 .. Len(q)
  OBVIOUS
<1>2. c \in Seq(Request) /\ DOMAIN c = 1 .. Len(q) + 1
  BY <1>1
<1>3. \A i \in DOMAIN c : IF i \in DOMAIN q THEN c[i] = q[i] ELSE i = Len(q) + 1 /\ c[i] = r
  BY <1>1, <1>2
<1>4. DOMAIN q \subseteq DOMAIN c /\ Len(q) + 1 \in DOMAIN c /\ Len(q) + 1 \notin DOMAIN q
  BY <1>1, <1>2
<1> QED
  BY <1>2, <1>3, <1>4 DEF In, Single

LEMMA ConnectBeginSafe ==
    ASSUME Safe, NEW t \in Threads, NEW v \in Socket, NEW async \in BOOLEAN, ConnectBegin(t, v, async)
    PROVE  Parts'
<1> DEFINE m == IF sock[v].status = "INIT" THEN v ELSE sock[v].mux
           r == [u |-> v, old |-> FALSE]
<1>1. /\ sock[v].place = "sockets" /\ sock[v].status \in {"INIT", "OPENED"} /\ SocketLockFree(v) /\ sock[v].known
      /\ ~udt[v].listening /\ ~udt[v].connecting /\ ~udt[v].connected
      /\ UNCHANGED <<made, queued, worker, gc>>
      /\ sock' = [sock EXCEPT ![v] = [sock[v] EXCEPT !.status = "CONNECTING", !.mux = m, !.async = async, !.tries = @ + 1]]
      /\ mux' = IF sock[v].status = "INIT" THEN newMux(v, FALSE) ELSE mux
      /\ connectors' = [connectors EXCEPT ![m] = Append(@, r)]
      /\ udt' = [udt EXCEPT ![v] = [@ EXCEPT !.opened = TRUE, !.connecting = TRUE]]
      /\ app[t].pc = "idle"
  BY CallsFromIdle DEF ConnectBegin, Calls, Located
<1>2. app' = IF async THEN app ELSE [app EXCEPT ![t] = [Idle EXCEPT !.pc = "connecting", !.u = v]]
  BY DEF ConnectBegin
<1>3. \/ app' = app
      \/ app'[t].pc = "connecting" /\ app'[t].u = v /\ \A s \in Threads : s # t => app'[s] = app[s]
  BY <1>2 DEF Idle, Safe, Core, Shape
<1>4. /\ m \in Socket /\ ~udt[v].broken /\ sock[v].peer = 0 /\ sock[v].tries \in Nat
      /\ sock[v].status = "INIT" => sock[v].mux = 0
  BY <1>1, Nonzero DEF Safe, Core, Kinds, Parts, Statuses, Flagged, BoundPorts, Listed
<1>5. /\ \A u \in Socket : u # v => sock'[u] = sock[u] /\ udt'[u] = udt[u]
      /\ sock'[v].place = sock[v].place /\ sock'[v].status = "CONNECTING" /\ sock'[v].peer = sock[v].peer
      /\ sock'[v].mux = m /\ sock'[v].known = sock[v].known /\ sock'[v].old = sock[v].old
      /\ sock'[v].tries = sock[v].tries + 1
  <2> HIDE DEF m
  <2>1. sock' = [sock EXCEPT ![v] = [sock[v] EXCEPT !.status = "CONNECTING", !.mux = m, !.async = async,
                                                    !.tries = @ + 1]]
    BY <1>1
  <2>2. udt' = [udt EXCEPT ![v] = [@ EXCEPT !.opened = TRUE, !.connecting = TRUE]]
    BY <1>1
  <2>3. \A u \in Socket : u # v => sock'[u] = sock[u] /\ udt'[u] = udt[u]
    BY <2>1, <2>2 DEF Safe, Core, Shape
  <2>4. sock'[v] = [sock[v] EXCEPT !.status = "CONNECTING", !.mux = m, !.async = async, !.tries = @ + 1]
    BY <2>1 DEF Safe, Core, Shape
  <2>5. {"place", "status", "peer", "mux", "known", "old", "tries"} \subseteq DOMAIN sock[v]
    BY DEF Safe, Core, Shape
  <2> QED
    BY <2>3, <2>4, <2>5
<1>6. /\ udt'[v].opened /\ udt'[v].listening = udt[v].listening /\ udt'[v].connecting
      /\ udt'[v].connected = udt[v].connected /\ udt'[v].broken = udt[v].broken
      /\ udt'[v].onList = udt[v].onList
  BY <1>1 DEF Safe, Core, Shape
<1>7. /\ \A k \in Socket : k # m => mux'[k] = mux[k]
      /\ IF sock[v].status = "INIT" THEN mux'[m].refs = mux[m].refs + 1 /\ mux'[m].listener = 0
         ELSE mux'[m] = mux[m]
  <2>1. CASE sock[v].status = "INIT"
    <3>1. mux[v].refs = 0
      BY <1>1, <2>1, PortOfItsOwn
    <3> QED
      BY <1>1, <2>1, <3>1 DEF newMux, Safe, Core, Shape
  <2>2. CASE sock[v].status # "INIT"
    BY <1>1, <2>2
  <2> QED
    BY <2>1, <2>2
<1>8. /\ connectors' \in [Socket -> Seq(Request)]
      /\ \A k, u \in Socket :
            /\ In(u, connectors'[k]) <=> In(u, connectors[k]) \/ (k = m /\ u = v)
            /\ Single(connectors[k], u) /\ (u = v => ~In(u, connectors[k])) => Single(connectors'[k], u)
  <2>1. /\ connectors \in [Socket -> Seq(Request)] /\ connectors[m] \in Seq(Request)
        /\ r \in Request /\ r.u = v
    BY <1>4 DEF Safe, Parts, Requests, Request
  <2>2. /\ connectors'[m] = Append(connectors[m], r) /\ DOMAIN connectors' = Socket
        /\ \A k \in Socket : k # m => connectors'[k] = connectors[k]
    BY <1>1, <1>4, <2>1
  <2> HIDE DEF m, r
  <2>3. /\ connectors'[m] \in Seq(Request)
        /\ \A u \in Socket : /\ In(u, connectors'[m]) <=> In(u, connectors[m]) \/ u = v
                             /\ Single(connectors[m], u) /\ (u = v => ~In(u, connectors[m]))
                                   => Single(connectors'[m], u)
    BY <2>1, <2>2, OneMoreRequest
  <2>4. connectors' \in [Socket -> Seq(Request)]
    BY <1>1, <1>4, <2>1, <2>2, <2>3
  <2> QED
    BY <2>2, <2>3, <2>4
<1> HIDE DEF m, r
<1>9. Blank'
  <2>1. sock'[v].place # "none"
    BY <1>1, <1>5
  <2> QED
    BY <1>5, <2>1 DEF Safe, Parts, Blank
<1>10. Handed'
  BY <1>1, <1>3, <1>5, <1>6 DEF Safe, Parts, Handed, Core, Shape
<1>11. Callers'
  <2>1. \A s \in Threads : app[s].pc # "idle" => app[s].u \in Socket
    BY DEF Safe, Core, Shape
  <2>2. \A u \in gc'.todo : sock'[u].old
    BY <1>1, <1>5 DEF Safe, Parts, Callers, Core, Todo
  <2> QED
    BY <1>1, <1>3, <1>5, <2>1, <2>2, CallersStep DEF Safe, Parts
<1>12. Locks'
  <2>1. \A s \in Threads : /\ app[s].pc \in LockPcs => app[s].u # v
                           /\ app[s].pc # "idle" => app[s].u \in Socket
    BY <1>1 DEF LockPcs, SocketLockFree, Safe, Core, Shape
  <2>2. sock'[v].mux # 0 /\ ~udt'[v].listening /\ ~udt'[v].broken /\ ~udt'[v].connected
    BY <1>1, <1>4, <1>5, <1>6, Nonzero
  <2>3. sock'[v].place = "sockets" /\ udt'[v].opened
    BY <1>1, <1>5, <1>6
  <2>4. \A s \in Threads : app'[s].pc \in LockPcs =>
            \/ app'[s] = app[s] /\ app[s].u \in Socket /\ app[s].u # v
            \/ s = t /\ app'[s].pc = "connecting" /\ app'[s].u = v
    BY <1>1, <1>3, <2>1 DEF LockPcs
  <2>5. \A s, o \in Threads :
            app'[s].pc \in LockPcs /\ app'[o].pc \in LockPcs /\ app'[s].u = app'[o].u => s = o
    BY <2>4 DEF Safe, Parts, Locks
  <2>6. ASSUME NEW s \in Threads, app'[s].pc \in LockPcs
        PROVE  LET u == app'[s].u
               IN  /\ ~udt'[u].listening
                   /\ app'[s].pc = "connecting" =>
                         sock'[u].place = "sockets" /\ ~udt'[u].broken /\ ~udt'[u].connected
                   /\ app'[s].pc = "complete" => udt'[u].connected
                   /\ app'[s].pc \in {"connecting", "complete"} => udt'[u].opened /\ sock'[u].mux # 0
    <3>1. CASE app'[s] = app[s] /\ app[s].u \in Socket /\ app[s].u # v
      BY <1>5, <2>6, <3>1 DEF Safe, Parts, Locks
    <3>2. CASE app'[s].pc = "connecting" /\ app'[s].u = v
      BY <2>2, <2>3, <3>2
    <3> QED
      BY <2>4, <2>6, <3>1, <3>2
  <2> QED
    BY <2>5, <2>6 DEF Locks, LockPcs
<1>13. Statuses'
  <2>1. Flagged(v)'
    BY <1>1, <1>4, <1>5, <1>6 DEF Flagged
  <2>2. ASSUME NEW u \in Socket, u # v PROVE Flagged(u)'
    <3>1. SocketLockFree(u)' <=> SocketLockFree(u)
      BY <1>1, <1>3, <2>2 DEF SocketLockFree
    <3> QED
      BY <1>5, <2>2, <3>1 DEF Safe, Parts, Statuses, Flagged
  <2> QED
    BY <2>1, <2>2 DEF Statuses
<1>14. Listeners'
  <2>1. \A k \in Socket : mux'[k].listener \in {0, mux[k].listener}
    BY <1>7
  <2>2. /\ \A k \in Socket : mux[k].listener # 0 => mux[k].listener \in Socket /\ mux[k].listener # v
        /\ Listeners
    BY <1>1 DEF Safe, Parts, Listeners, Core, Shape
  <2> QED
    BY <1>5, <2>1, <2>2 DEF Listeners
<1>15. BoundPorts'
  <2>1. \A k \in Socket : Bound(k) \/ k = v => Bound(k)'
    BY <1>1, <1>5 DEF Bound
  <2>2. \A k \in Socket : mux'[k].refs # 0 => mux[k].refs # 0 \/ k = v
    BY <1>7 DEF m
  <2>3. PICK q \in Socket : q = m
    BY <1>4
  <2>4. q = v \/ (q = sock[v].mux /\ sock[v].mux # 0)
    <3>1. sock[v].status = "INIT" => m = v
      BY DEF m
    <3>2. sock[v].status # "INIT" => m = sock[v].mux /\ sock[v].mux # 0
      BY <1>1 DEF m, Safe, Parts, Statuses, Flagged
    <3> QED
      BY <2>3, <3>1, <3>2
  <2>5. BoundPorts
    BY DEF Safe, Parts
  <2>6. Bound(q)'
    BY <2>1, <2>3, <2>4, <2>5 DEF BoundPorts
  <2>7. \A u \in Socket : sock'[u].mux # 0 => sock'[u].mux = sock[u].mux \/ sock'[u].mux = q
    BY <1>5, <2>3
  <2>8. \A k \in Socket : mux'[k].refs # 0 \/ worker'[k].pc # "idle" => Bound(k)'
    BY <1>1, <2>1, <2>2, <2>5 DEF BoundPorts
  <2>9. ASSUME NEW u \in Socket, sock'[u].mux # 0
        PROVE  \E k \in Socket : k = sock'[u].mux /\ Bound(k)'
    <3>1. CASE sock'[u].mux = q
      BY <2>6, <3>1
    <3>2. CASE sock'[u].mux = sock[u].mux
      BY <2>1, <2>5, <2>9, <3>2 DEF BoundPorts
    <3> QED
      BY <2>7, <2>9, <3>1, <3>2
  <2> QED
    BY <2>8, <2>9 DEF BoundPorts
<1>16. Counted'
  <2>1. CASE sock[v].status = "INIT"
    <3>1. sock[v].place # "removed" /\ sock'[v].place # "removed"
      BY <1>1, <1>5
    <3> QED
      BY <1>4, <1>5, <1>7, <2>1, <3>1, OneMoreUser DEF Safe, Parts
  <2>2. CASE sock[v].status # "INIT"
    <3>1. m = sock[v].mux
      BY <2>2 DEF m
    <3>2. \A k \in Socket : mux'[k].refs = mux[k].refs
      BY <1>7, <2>2
    <3> QED
      BY <1>5, <3>1, <3>2, SameUsers DEF Safe, Parts
  <2> QED
    BY <2>1, <2>2
<1>17. Requests'
  <2>1. sock'[v].tries # 0 /\ (sock'[v].tries = 1 => sock[v].tries = 0)
    BY <1>4, <1>5
  <2>2. \A k \in Socket : sock[v].tries = 0 => ~In(v, connectors[k])
    BY DEF Safe, Parts, Requests, Asker
  <2>3. ASSUME NEW k \in Socket, NEW u \in Socket, In(u, connectors'[k]) PROVE Asker(k, u)'
    <3>1. CASE u = v
      <4>1. sock'[v].tries = 1 => k = m
        BY <1>8, <2>1, <2>2, <2>3, <3>1
      <4> QED
        BY <1>1, <1>4, <1>5, <1>6, <2>1, <3>1, <4>1 DEF Asker
    <3>2. CASE u # v
      <4>1. In(u, connectors[k])
        BY <1>8, <2>3, <3>2
      <4> QED
        BY <1>5, <3>2, <4>1 DEF Safe, Parts, Requests, Asker
    <3> QED
      BY <3>1, <3>2
  <2>4. ASSUME NEW k \in Socket, NEW u \in Socket, sock'[u].tries = 1 PROVE Single(connectors'[k], u)
    <3>1. CASE u = v
      <4>1. ~In(v, connectors[k])
        BY <2>1, <2>2, <2>4, <3>1
      <4>2. Single(connectors[k], v)
        BY <4>1 DEF In, Single
      <4> QED
        BY <1>8, <3>1, <4>1, <4>2
    <3>2. CASE u # v
      <4>1. sock[u].tries = 1
        BY <1>5, <2>4, <3>2
      <4>2. Single(connectors[k], u)
        BY <4>1 DEF Safe, Parts, Requests
      <4> QED
        BY <1>8, <3>2, <4>2
    <3> QED
      BY <3>1, <3>2
  <2>5. Requests' <=>
          /\ connectors' \in [Socket -> Seq(Request)]
          /\ \A k \in Socket : \A u \in Socket : /\ In(u, connectors'[k]) => Asker(k, u)'
                                                 /\ sock'[u].tries = 1 => Single(connectors'[k], u)
    BY DEF Requests, In, Single, Request
  <2> QED
    BY <1>8, <2>3, <2>4, <2>5
<1>18. Listed'
  <2>1. \A u \in Socket : u # v => (HasRequest(u)' <=> HasRequest(u))
    <3>1. \A u \in Socket : HasRequest(u)' <=> \E k \in Socket : In(u, connectors'[k])
      BY DEF HasRequest, In
    <3> QED
      BY <1>8, <3>1 DEF HasRequest
  <2>2. \A u \in Socket : u # v => (Asks(u)' <=> Asks(u))
    BY <1>5, <2>1 DEF Asks
  <2>3. \A s \in Threads : app'[s].pc = "erase" => /\ app[s].pc = "erase" /\ app'[s].u = app[s].u
                                                   /\ app[s].u \in Socket /\ app[s].u # v
    BY <1>1, <1>3 DEF SocketLockFree, Safe, Core, Shape
  <2>4. ~Done(v)' /\ (\A u \in Socket : u # v => (Done(u)' <=> Done(u))) /\ v \notin gc.todo
    BY <1>1, <1>5 DEF Done, Safe, Core, Todo
  <2>5. \A u \in Socket : sock'[u].tries \in Nat
    BY <1>4, <1>5 DEF Safe, Parts, Listed
  <2>6. sock'[v].place # "removed"
    BY <1>1, <1>5
  <2> QED
    BY <1>1, <1>5, <2>2, <2>3, <2>4, <2>5, <2>6 DEF Safe, Parts, Listed
<1> QED
  BY <1>9, <1>10, <1>11, <1>12, <1>13, <1>14, <1>15, <1>16, <1>17, <1>18 DEF Parts

LEMMA WithoutThins == connectors \in [Socket -> Seq(Request)] => \A m : \A u \in Socket : Thinned(Without(m, u))
<1> SUFFICES ASSUME connectors \in [Socket -> Seq(Request)], NEW m, NEW u \in Socket PROVE Thinned(Without(m, u))
  OBVIOUS
<1>1. CASE m \in Socket
  BY <1>1, WithoutIs
<1>2. CASE m \notin Socket
  <2>1. Without(m, u) = connectors
    BY <1>2 DEF Without
  <2> QED
    BY <2>1, Whole
<1> QED
  BY <1>1, <1>2

\* connect(response), whoever gets it.
LEMMA connectKeeps ==
    ASSUME Safe, NEW v \in Socket, NEW refused \in BOOLEAN, connect(v, refused),
           udt[v].connecting, sock[v].tries <= 1 => ~Done(v),
           UNCHANGED <<sock, queued, mux, gc>>,
           \A u \in Socket : SocketLockFree(u)' <=> SocketLockFree(u),
           \A s \in Threads : app'[s].pc = "erase" => app'[s] = app[s],
           \A k \in Socket : worker'[k].pc # "idle" => worker[k].pc # "idle" \/ mux[k].refs # 0
    PROVE  Blank' /\ Statuses' /\ Listeners' /\ BoundPorts' /\ Counted' /\ Requests' /\ Listed'
<1>1. /\ \A u \in Socket : u # v => udt'[u] = udt[u]
      /\ udt'[v].opened = udt[v].opened /\ udt'[v].listening = udt[v].listening /\ ~udt'[v].connecting
      /\ udt'[v].connected /\ udt'[v].broken = udt[v].broken
      /\ udt'[v].onList
  BY DEF connect, Safe, Core, Shape
<1>2. connectors' = Without(sock[v].mux, v)
  BY DEF connect
<1>3. Thinned(connectors')
  BY <1>2, WithoutThins DEF Safe, Parts, Requests
<1>4. Flagged(v)
  BY DEF Safe, Parts, Statuses
<1>5. sock[v].place # "none"
  BY <1>4 DEF Flagged, Safe, Parts, Blank
<1>6. Blank'
  BY <1>1, <1>5 DEF Safe, Parts, Blank
<1>7. Statuses'
  <2>1. Flagged(v)'
    BY <1>1, <1>4 DEF Flagged
  <2>2. ASSUME NEW u \in Socket, u # v PROVE Flagged(u)'
    BY <1>1, <2>2 DEF Safe, Parts, Statuses, Flagged
  <2> QED
    BY <2>1, <2>2 DEF Statuses
<1>8. Listeners'
  BY <1>1 DEF Safe, Parts, Listeners, Core, Shape
<1>9. BoundPorts'
  BY DEF Safe, Parts, BoundPorts, Bound
<1>10. Counted'
  BY SameUsers DEF Safe, Parts
<1>11. Requests'
  <2>1. ASSUME NEW k \in Socket, NEW u \in Socket, Asker(k, u) PROVE Asker(k, u)'
    BY <1>1, <2>1 DEF Asker
  <2> QED
    BY <1>3, <2>1, ThinnedRequests DEF Safe, Parts
<1>12. Listed'
  <2>1. \A u \in Socket : Asks(u)' => Asks(u)
    BY <1>1, <1>3, NoNewAsks
  <2>2. \A u \in Socket : Done(u)' <=> Done(u)
    BY DEF Done
  <2>3. (sock[v].place = "removed" \/ v \in gc.todo) => sock[v].tries > 1
    BY DEF Safe, Core, Todo, Done, Parts, Listed
  <2>4. \A s \in Threads : app[s].pc = "erase" => app[s].u \in Socket
    BY DEF Safe, Core, Shape
  <2>5. ASSUME NEW u \in Socket, sock[u].place = "removed" \/ u \in gc.todo, sock[u].tries <= 1 PROVE ~udt'[u].onList
    <3>1. u # v
      BY <2>3, <2>5 DEF Safe, Parts, Listed
    <3> QED
      BY <1>1, <2>5, <3>1 DEF Safe, Parts, Listed
  <2> QED
    BY <2>1, <2>2, <2>4, <2>5 DEF Safe, Parts, Listed
<1> QED
  BY <1>6, <1>7, <1>8, <1>9, <1>10, <1>11, <1>12

LEMMA ConnectAnsweredSafe ==
    ASSUME Safe, NEW t \in Threads, NEW refused \in BOOLEAN, ConnectAnswered(t, refused)
    PROVE  Parts'
<1> DEFINE v == app[t].u
<1>1. /\ UNCHANGED <<made, sock, queued, mux, worker, gc>>
      /\ app[t].pc = "connecting" /\ udt[v].connecting /\ v \in Socket /\ connect(v, refused)
      /\ sock[v].place = "sockets"
  BY DEF ConnectAnswered, Safe, Core, Shape, Parts, Locks
<1>2. app'[t].pc = "complete" /\ app'[t].u = v /\ \A s \in Threads : s # t => app'[s] = app[s]
  BY DEF ConnectAnswered, Safe, Core, Shape
<1>3. /\ \A u \in Socket : u # v => udt'[u] = udt[u]
      /\ udt'[v].opened = udt[v].opened /\ udt'[v].listening = udt[v].listening /\ ~udt'[v].connecting
      /\ udt'[v].connected /\ udt'[v].broken = udt[v].broken
  BY <1>1 DEF connect, Safe, Core, Shape
<1> HIDE DEF v
<1>4. Blank' /\ Statuses' /\ Listeners' /\ BoundPorts' /\ Counted' /\ Requests' /\ Listed'
  <2>1. \A u \in Socket : SocketLockFree(u)' <=> SocketLockFree(u)
    BY <1>1, <1>2 DEF SocketLockFree, v
  <2> QED
    BY <1>1, <1>2, <2>1, connectKeeps DEF Done
<1>5. Handed'
  BY <1>1, <1>2, <1>3 DEF Safe, Parts, Handed, Core, Shape
<1>6. Callers'
  <2>1. \A s \in Threads : app[s].pc # "idle" => app[s].u \in Socket
    BY DEF Safe, Core, Shape
  <2>2. \A u \in gc'.todo : sock'[u].old
    BY <1>1 DEF Safe, Parts, Callers
  <2>3. app[t].pc # "idle" /\ app'[t].pc # "idle" /\ app'[t].u = app[t].u /\ app'[t].pc # "accepted"
    BY <1>1, <1>2 DEF v
  <2> QED
    BY <1>1, <1>2, <2>1, <2>2, <2>3, CallersStep DEF Safe, Parts
<1>7. Locks'
  <2>1. \A s \in Threads : app[s].pc \in LockPcs /\ s # t => app[s].u \in Socket /\ app[s].u # v
    BY <1>1 DEF LockPcs, Safe, Core, Shape, Parts, Locks, v
  <2>2. /\ ~udt'[v].listening /\ udt'[v].opened /\ sock'[v].mux # 0
    BY <1>1, <1>3 DEF Safe, Parts, Locks, LockPcs, v
  <2> QED
    BY <1>1, <1>2, <1>3, <2>1, <2>2 DEF Safe, Parts, Locks, LockPcs
<1> QED
  BY <1>4, <1>5, <1>6, <1>7 DEF Parts

LEMMA WorkerConnectSafe ==
    ASSUME Safe, NEW m \in Socket, NEW v \in Socket, NEW refused \in BOOLEAN, WorkerConnect(m, v, refused)
    PROVE  Parts'
<1>1. /\ UNCHANGED <<made, sock, queued, mux, app, gc>>
      /\ mux[m].refs > 0 /\ In(v, connectors[m]) /\ sock[v].async /\ udt[v].connecting /\ connect(v, refused)
  BY DEF WorkerConnect, In
<1>2. /\ worker[m].pc = "idle" /\ worker'[m].pc = "complete" /\ worker'[m].ns = 0
      /\ \A k \in Socket : k # m => worker'[k] = worker[k]
  BY DEF WorkerConnect, Rest, Safe, Core, Shape
<1>3. /\ \A u \in Socket : u # v => udt'[u] = udt[u]
      /\ udt'[v].opened = udt[v].opened /\ udt'[v].listening = udt[v].listening /\ ~udt'[v].connecting
      /\ udt'[v].connected /\ udt'[v].broken = udt[v].broken
  BY <1>1 DEF connect, Safe, Core, Shape
<1>4. Blank' /\ Statuses' /\ Listeners' /\ BoundPorts' /\ Counted' /\ Requests' /\ Listed'
  <2>1. \A u \in Socket : SocketLockFree(u)' <=> SocketLockFree(u)
    BY <1>1 DEF SocketLockFree
  <2>2. sock[v].tries <= 1 => ~Done(v)
    BY <1>1 DEF Safe, Parts, Listed, Asks, HasRequest
  <2>3. \A k \in Socket : worker'[k].pc # "idle" => worker[k].pc # "idle" \/ mux[k].refs # 0
    <3>1. mux[m].refs \in Nat
      BY FiniteUsers DEF Safe, Parts, Counted
    <3>2. mux[m].refs # 0
      BY <1>1, <3>1
    <3> QED
      BY <1>2, <3>2
  <2> QED
    BY <1>1, <2>1, <2>2, <2>3, connectKeeps
<1>5. Handed'
  BY <1>1, <1>2, <1>3 DEF Safe, Parts, Handed, Core, Shape
<1>6. Callers'
  <2>1. \A s \in Threads : app[s].pc # "idle" => app[s].u \in Socket
    BY DEF Safe, Core, Shape
  <2>2. \A u \in gc'.todo : sock'[u].old
    BY <1>1 DEF Safe, Parts, Callers
  <2> QED
    BY <1>1, <1>2, <2>1, <2>2, CallersStep DEF Safe, Parts
<1>7. Locks'
  <2>1. \A s \in Threads : app[s].pc \in {"connecting", "complete"} => app[s].u # v
    BY <1>1 DEF Safe, Core, Held
  <2>2. \A s \in Threads : app[s].pc \in LockPcs => app[s].u \in Socket
    BY DEF Safe, Core, Shape, LockPcs
  <2> QED
    BY <1>1, <1>3, <2>1, <2>2 DEF Safe, Parts, Locks, LockPcs
<1> QED
  BY <1>4, <1>5, <1>6, <1>7 DEF Parts

LEMMA ConnectReturnsSafe ==
    ASSUME Safe, NEW t \in Threads, ConnectEnd(t) \/ ConnectFails(t)
    PROVE  Parts'
<1>0. PICK v \in Socket : v = app[t].u
  BY DEF ConnectEnd, ConnectFails, CloseUdt, Safe, Core, Shape
<1>1. /\ UNCHANGED <<made, udt, queued, mux, connectors, worker, gc>>
      /\ app[t].pc \in {"connecting", "complete"} /\ v \in Socket
  BY <1>0 DEF ConnectEnd, ConnectFails, Safe, Core, Shape
<1>2. app'[t].pc = "idle" /\ app'[t].u = 0 /\ \A s \in Threads : s # t => app'[s] = app[s]
  BY <1>0 DEF ConnectEnd, ConnectFails, Idle, Safe, Core, Shape
<1>3. /\ \A u \in Socket : u # v => sock'[u] = sock[u]
      /\ sock'[v].place = sock[v].place /\ sock'[v].status \in {"OPENED", "CONNECTED"}
      /\ sock'[v].peer = sock[v].peer /\ sock'[v].mux = sock[v].mux /\ sock'[v].known = sock[v].known
      /\ sock'[v].old = sock[v].old /\ sock'[v].tries = sock[v].tries
  BY <1>0, <1>1 DEF ConnectEnd, ConnectFails, Safe, Core, Shape
<1>4. /\ udt[v].opened /\ ~udt[v].listening /\ sock[v].mux # 0 /\ (udt[v].broken => udt[v].connected)
      /\ sock[v].peer = 0 /\ sock[v].known
  BY <1>0, <1>1 DEF Safe, Parts, Locks, LockPcs, Core, Held, Callers
<1>5. Blank'
  BY <1>1, <1>3, <1>4 DEF Safe, Parts, Blank
<1>6. Handed'
  BY <1>1, <1>2, <1>3 DEF Safe, Parts, Handed, Core, Shape
<1>7. Callers'
  <2>1. \A s \in Threads : app[s].pc # "idle" => app[s].u \in Socket
    BY DEF Safe, Core, Shape
  <2>2. \A u \in gc'.todo : sock'[u].old
    BY <1>1, <1>3 DEF Safe, Parts, Callers, Core, Todo
  <2> QED
    BY <1>1, <1>2, <1>3, <2>1, <2>2, CallersStep DEF Safe, Parts
<1>8. Locks'
  <2>1. \A s \in Threads : app'[s].pc \in LockPcs => app'[s] = app[s] /\ app[s].u \in Socket
    BY <1>2 DEF LockPcs, Safe, Core, Shape
  <2>2. \A u \in Socket : sock'[u].place = sock[u].place /\ sock'[u].mux = sock[u].mux
    BY <1>3
  <2> QED
    BY <1>1, <2>1, <2>2 DEF Safe, Parts, Locks, LockPcs
<1>9. Statuses'
  <2>1. Flagged(v)'
    <3>1. Flagged(v)
      BY <1>0, <1>1 DEF Safe, Parts, Statuses
    <3> QED
      BY <1>1, <1>3, <1>4, <3>1 DEF Flagged
  <2>2. ASSUME NEW u \in Socket, u # v PROVE Flagged(u)'
    <3>1. SocketLockFree(u)' <=> SocketLockFree(u)
      BY <1>0, <1>1, <1>2, <2>2 DEF SocketLockFree
    <3> QED
      BY <1>1, <1>3, <2>2, <3>1 DEF Safe, Parts, Statuses, Flagged
  <2> QED
    BY <2>1, <2>2 DEF Statuses
<1>10. Listeners'
  BY <1>1, <1>3 DEF Safe, Parts, Listeners, Core, Shape
<1>11. BoundPorts'
  <2>1. \A k \in Socket : Bound(k) => Bound(k)'
    BY <1>3 DEF Bound
  <2> QED
    BY <1>1, <1>3, <2>1 DEF Safe, Parts, BoundPorts
<1>12. Counted'
  BY <1>1, <1>3, SameUsers DEF Safe, Parts
<1>13. Requests'
  <2>1. \A u \in Socket : sock'[u].tries = sock[u].tries
    BY <1>3
  <2>2. ASSUME NEW k \in Socket, NEW u \in Socket, Asker(k, u) PROVE Asker(k, u)'
    BY <1>1, <1>3, <2>2 DEF Asker
  <2> QED
    BY <1>1, <2>1, <2>2, SameRequests DEF Safe, Parts
<1>14. Listed'
  BY <1>1, <1>2, <1>3 DEF Safe, Parts, Listed, Asks, HasRequest, Done, Core, Shape
<1> QED
  BY <1>5, <1>6, <1>7, <1>8, <1>9, <1>10, <1>11, <1>12, <1>13, <1>14 DEF Parts

\* close of a listener, and of any other socket.
LEMMA CloseBeginSafe == ASSUME Safe, NEW t \in Threads, NEW v \in Socket, CloseBegin(t, v) PROVE Parts'
<1>1. /\ UNCHANGED <<made, queued, mux, connectors, worker, gc>>
      /\ sock[v].place = "sockets" /\ sock[v].known /\ SocketLockFree(v) /\ app[t].pc = "idle"
  BY CallsFromIdle DEF CloseBegin, Calls, Located
<1>2. ASSUME sock[v].status = "LISTENING" PROVE Parts'
  <2>1. /\ app' = Awake(v) /\ sock' = [sock EXCEPT ![v].old = FALSE] /\ udt' = [udt EXCEPT ![v].broken = TRUE]
    BY <1>2 DEF CloseBegin
  <2>2. \A s \in Threads : \/ app'[s] = app[s]
                           \/ app[s].pc = "wait" /\ app'[s].pc = "accept" /\ app'[s].u = app[s].u
    BY <2>1 DEF Awake, Safe, Core, Shape
  <2>3. /\ \A u \in Socket : u # v => sock'[u] = sock[u] /\ udt'[u] = udt[u]
        /\ sock'[v].place = sock[v].place /\ sock'[v].status = sock[v].status
        /\ sock'[v].peer = sock[v].peer /\ sock'[v].mux = sock[v].mux /\ sock'[v].known = sock[v].known
        /\ sock'[v].tries = sock[v].tries
        /\ udt'[v].opened = udt[v].opened /\ udt'[v].listening = udt[v].listening
        /\ udt'[v].connecting = udt[v].connecting /\ udt'[v].connected = udt[v].connected
        /\ udt'[v].onList = udt[v].onList
    BY <2>1 DEF Safe, Core, Shape
  <2>4. udt[v].listening /\ ~udt[v].connecting /\ udt[v].opened
    BY <1>1, <1>2 DEF Safe, Parts, Statuses, Flagged
  <2>5. Blank'
    <3>1. sock'[v].place # "none"
      BY <1>1, <2>3
    <3> QED
      BY <2>3, <3>1 DEF Safe, Parts, Blank
  <2>6. Handed'
    BY <1>1, <2>2, <2>3 DEF Safe, Parts, Handed, Core, Shape
  <2>7. Callers'
    <3>1. \A s \in Threads : app[s].pc # "idle" => app[s].u \in Socket
      BY DEF Safe, Core, Shape
    <3>2. \A u \in gc'.todo : sock'[u].old
      BY <1>1, <2>3 DEF Safe, Parts, Callers, Core, Todo
    <3>3. \A s \in Threads : \/ app'[s] = app[s]
                             \/ /\ app'[s].pc # "idle" /\ app[s].pc # "idle" /\ app'[s].u = app[s].u
                                /\ app'[s].pc # "accepted"
      BY <2>2
    <3> QED
      BY <1>1, <2>3, <3>1, <3>2, <3>3, CallersStep DEF Safe, Parts
  <2>8. Locks'
    <3>1. \A s \in Threads : app'[s].pc \in LockPcs => app'[s] = app[s] /\ app[s].u \in Socket /\ app[s].u # v
      BY <1>1, <2>2 DEF LockPcs, Safe, Core, Shape, SocketLockFree
    <3> QED
      BY <2>3, <3>1 DEF Safe, Parts, Locks, LockPcs
  <2>9. Statuses'
    <3>1. \A u \in Socket : SocketLockFree(u)' <=> SocketLockFree(u)
      BY <2>2 DEF SocketLockFree
    <3>2. Flagged(v)'
      BY <1>2, <2>3, <2>4 DEF Flagged
    <3>3. ASSUME NEW u \in Socket, u # v PROVE Flagged(u)'
      BY <2>3, <3>1, <3>3 DEF Safe, Parts, Statuses, Flagged
    <3> QED
      BY <3>2, <3>3 DEF Statuses
  <2>10. Listeners'
    BY <1>1, <2>3 DEF Safe, Parts, Listeners, Core, Shape
  <2>11. BoundPorts'
    BY <1>1, <2>3 DEF Safe, Parts, BoundPorts, Bound
  <2>12. Counted'
    BY <1>1, <2>3, SameUsers DEF Safe, Parts
  <2>13. Requests'
    <3>1. \A u \in Socket : sock'[u].tries = sock[u].tries
      BY <2>3
    <3>2. ASSUME NEW k \in Socket, NEW u \in Socket, Asker(k, u) PROVE Asker(k, u)'
      BY <2>3, <3>2 DEF Asker
    <3> QED
      BY <1>1, <3>1, <3>2, SameRequests DEF Safe, Parts
  <2>14. Listed'
    <3>1. \A s \in Threads : app'[s].pc = "erase" => app'[s] = app[s] /\ app[s].u \in Socket
      BY <2>2 DEF Safe, Core, Shape
    <3> QED
      BY <1>1, <2>3, <3>1 DEF Safe, Parts, Listed, Asks, HasRequest, Done, Core, Shape
  <2> QED
    BY <2>5, <2>6, <2>7, <2>8, <2>9, <2>10, <2>11, <2>12, <2>13, <2>14 DEF Parts
<1>3. ASSUME sock[v].status # "LISTENING" PROVE Parts'
  <2>1. UNCHANGED <<sock, udt>> /\ app' = [app EXCEPT ![t] = [Idle EXCEPT !.pc = "closing", !.u = v]]
    BY <1>3 DEF CloseBegin
  <2>2. app'[t].pc = "closing" /\ app'[t].u = v /\ \A s \in Threads : s # t => app'[s] = app[s]
    BY <2>1 DEF Idle, Safe, Core, Shape
  <2>3. Blank' /\ Listeners' /\ BoundPorts'
    BY <1>1, <2>1 DEF Safe, Parts, Blank, Listeners, BoundPorts, Bound
  <2>4. Handed'
    BY <1>1, <2>1, <2>2 DEF Safe, Parts, Handed
  <2>5. Callers'
    <3>1. \A s \in Threads : app[s].pc # "idle" => app[s].u \in Socket
      BY DEF Safe, Core, Shape
    <3>2. \A u \in gc'.todo : sock'[u].old
      BY <1>1, <2>1 DEF Safe, Parts, Callers
    <3> QED
      BY <1>1, <2>1, <2>2, <3>1, <3>2, CallersStep DEF Safe, Parts
  <2>6. Locks'
    <3>1. ~udt[v].listening
      BY <1>1, <1>3 DEF Safe, Parts, Statuses, Flagged
    <3>2. \A s \in Threads : app[s].pc \in LockPcs => app[s].u # v
      BY <1>1 DEF SocketLockFree, LockPcs
    <3> QED
      BY <2>1, <2>2, <3>1, <3>2 DEF Safe, Parts, Locks, LockPcs
  <2>7. Statuses'
    <3>1. ASSUME NEW u \in Socket PROVE Flagged(u)'
      <4>1. SocketLockFree(u)' => SocketLockFree(u)
        BY <1>1, <2>2 DEF SocketLockFree
      <4> QED
        BY <2>1, <4>1 DEF Safe, Parts, Statuses, Flagged
    <3> QED
      BY <3>1 DEF Statuses
  <2>8. Counted'
    BY <1>1, <2>1, SameUsers DEF Safe, Parts
  <2>9. Requests'
    BY <1>1, <2>1, SameRequests DEF Safe, Parts, Asker
  <2>10. Listed'
    BY <1>1, <2>1, <2>2 DEF Safe, Parts, Listed, Asks, HasRequest, Done
  <2> QED
    BY <2>3, <2>4, <2>5, <2>6, <2>7, <2>8, <2>9, <2>10 DEF Parts
<1> QED
  BY <1>2, <1>3

LEMMA ShutIs ==
    ASSUME Shape, NEW u \in Socket
    PROVE  /\ DOMAIN Shut(u) = DOMAIN udt[u]
           /\ Shut(u).connecting = udt[u].connecting /\ Shut(u).broken = udt[u].broken
           /\ Shut(u).onList = udt[u].onList
           /\ IF udt[u].opened THEN ~Shut(u).opened /\ ~Shut(u).listening /\ ~Shut(u).connected
              ELSE Shut(u) = udt[u]
BY DEF Shape, Shut

LEMMA CloseUdtSafe ==
    ASSUME Safe, NEW t \in Threads, NEW lingers \in BOOLEAN, CloseUdt(t, lingers)
    PROVE  Parts'
<1>0. PICK v \in Socket : v = app[t].u
  BY DEF CloseUdt, Safe, Core, Shape
<1>1. /\ UNCHANGED <<made, sock, queued, mux, worker, gc>>
      /\ app[t].pc = "closing" /\ v \in Socket /\ (lingers => udt[v].connected)
  BY <1>0 DEF CloseUdt, Safe, Core, Shape
<1>2. app'[t].pc = "erase" /\ app'[t].u = v /\ \A s \in Threads : s # t => app'[s] = app[s]
  BY <1>0 DEF CloseUdt, Safe, Core, Shape
<1>3. /\ \A u \in Socket : u # v => udt'[u] = udt[u]
      /\ udt'[v].connecting = udt[v].connecting /\ udt'[v].broken = udt[v].broken /\ udt'[v].onList = udt[v].onList
      /\ \/ /\ udt'[v].opened = udt[v].opened /\ udt'[v].listening = udt[v].listening
            /\ udt'[v].connected = udt[v].connected
            /\ connectors' = connectors
            /\ lingers \/ ~udt[v].opened
         \/ /\ udt[v].opened /\ ~udt'[v].opened /\ ~udt'[v].listening /\ ~udt'[v].connected
            /\ connectors' = Without(sock[v].mux, v)
  <2>1. CASE lingers
    <3>1. udt' = [udt EXCEPT ![v].lingers = TRUE] /\ connectors' = connectors
      BY <1>0, <2>1 DEF CloseUdt
    <3> QED
      BY <1>0, <1>1, <2>1, <3>1 DEF Safe, Core, Shape
  <2>2. CASE ~lingers
    <3>1. /\ udt' = [udt EXCEPT ![v] = Shut(v)]
          /\ connectors' = IF udt[v].opened THEN Without(sock[v].mux, v) ELSE connectors
      BY <1>0, <2>2 DEF CloseUdt
    <3>2. udt'[v] = Shut(v) /\ \A u \in Socket : u # v => udt'[u] = udt[u]
      BY <3>1 DEF Safe, Core, Shape
    <3> QED
      BY <3>1, <3>2, ShutIs DEF Safe, Core
  <2> QED
    BY <1>0, <2>1, <2>2
<1>4. /\ ~udt[v].listening /\ Flagged(v) /\ sock[v].place \in {"sockets", "closed"}
      /\ \A s \in Threads : app[s].pc \in LockPcs /\ s # t => app[s].u # v /\ app[s].u \in Socket
  BY <1>0, <1>1 DEF Safe, Parts, Locks, LockPcs, Statuses, Core, Shape, Callers
<1>5. connectors \in [Socket -> Seq(Request)] /\ Thinned(connectors')
  <2>1. connectors \in [Socket -> Seq(Request)]
    BY DEF Safe, Parts, Requests
  <2> QED
    BY <1>1, <1>3, <2>1, Whole, WithoutThins
<1>6. Blank'
  BY <1>1, <1>3, <1>4 DEF Safe, Parts, Blank
<1>7. Handed'
  BY <1>1, <1>2, <1>3 DEF Safe, Parts, Handed, Core, Shape
<1>8. Callers'
  <2>1. \A s \in Threads : app[s].pc # "idle" => app[s].u \in Socket
    BY DEF Safe, Core, Shape
  <2>2. \A u \in gc'.todo : sock'[u].old
    BY <1>1 DEF Safe, Parts, Callers
  <2>3. app[t].pc # "idle" /\ app'[t].pc # "idle" /\ app'[t].u = app[t].u /\ app'[t].pc # "accepted"
    BY <1>0, <1>1, <1>2
  <2> QED
    BY <1>1, <1>2, <2>1, <2>2, <2>3, CallersStep DEF Safe, Parts
<1>9. Locks'
  <2>1. ~udt'[v].listening
    BY <1>3, <1>4
  <2>2. app[t].u = v /\ app[t].pc \in LockPcs
    BY <1>0, <1>1 DEF LockPcs
  <2> QED
    BY <1>1, <1>2, <1>3, <1>4, <2>1, <2>2 DEF Safe, Parts, Locks, LockPcs
<1>10. Statuses'
  <2>1. Flagged(v)'
    <3>1. ~SocketLockFree(v)'
      BY <1>2 DEF SocketLockFree
    <3> QED
      BY <1>1, <1>3, <1>4, <3>1 DEF Flagged
  <2>2. ASSUME NEW u \in Socket, u # v PROVE Flagged(u)'
    <3>1. SocketLockFree(u)' <=> SocketLockFree(u)
      BY <1>0, <1>1, <1>2, <2>2 DEF SocketLockFree
    <3> QED
      BY <1>1, <1>3, <2>2, <3>1 DEF Safe, Parts, Statuses, Flagged
  <2> QED
    BY <2>1, <2>2 DEF Statuses
<1>11. Listeners'
  BY <1>1, <1>3, <1>4 DEF Safe, Parts, Listeners, Core, Shape
<1>12. BoundPorts'
  BY <1>1 DEF Safe, Parts, BoundPorts, Bound
<1>13. Counted'
  BY <1>1, SameUsers DEF Safe, Parts
<1>14. sock[v].tries <= 1 /\ udt[v].connecting => \A k \in Socket : ~In(v, connectors'[k])
  <2> SUFFICES ASSUME sock[v].tries <= 1, udt[v].connecting, NEW k \in Socket, In(v, connectors'[k]) PROVE FALSE
    OBVIOUS
  <2>1. v \in Socket
    BY <1>1
  <2>2. In(v, connectors[k])
    BY <1>5, <2>1 DEF Thinned
  <2>3. Asker(k, v)
    BY <2>1, <2>2 DEF Safe, Parts, Requests
  <2>4. sock[v].tries = 1
    <3>1. sock[v].tries \in Nat
      BY <2>1 DEF Safe, Parts, Listed
    <3> QED
      BY <2>3, <3>1 DEF Asker
  <2>5. sock[v].mux = k /\ udt[v].opened /\ Single(connectors[k], v)
    BY <2>1, <2>3, <2>4 DEF Asker, Safe, Parts, Requests
  <2>6. ~udt[v].connected
    BY <1>4 DEF Flagged
  <2>7. connectors' = Without(k, v)
    BY <1>1, <1>3, <2>5, <2>6
  <2> QED
    BY <1>5, <2>1, <2>5, <2>7, WithoutIs
<1>15. Requests'
  <2>1. \A u \in Socket : sock'[u].tries = sock[u].tries
    BY <1>1
  <2>2. ASSUME NEW k \in Socket, NEW u \in Socket, In(u, connectors'[k]), Asker(k, u) PROVE Asker(k, u)'
    <3>1. CASE u # v \/ udt'[u].opened = udt[u].opened
      BY <1>1, <1>3, <2>2, <3>1 DEF Asker
    <3>2. CASE u = v /\ ~(udt'[u].opened = udt[u].opened)
      <4>1. udt[v].opened /\ connectors' = Without(sock[v].mux, v)
        BY <1>3, <3>2
      <4>2. sock[v].tries # 1
        <5> SUFFICES ASSUME sock[v].tries = 1 PROVE FALSE
          OBVIOUS
        <5>1. sock[v].mux = k /\ Single(connectors[k], v)
          BY <2>2, <3>2 DEF Asker, Safe, Parts, Requests
        <5> QED
          BY <1>5, <2>2, <3>2, <4>1, <5>1, WithoutIs
      <4> QED
        BY <1>1, <2>2, <3>2, <4>2 DEF Asker
    <3> QED
      BY <3>1, <3>2
  <2> QED
    BY <1>5, <2>1, <2>2, ThinnedRequests DEF Safe, Parts
<1>16. Listed'
  <2>1. \A u \in Socket : Asks(u)' => Asks(u)
    <3>1. \A u \in Socket : udt'[u].connecting => udt[u].connecting
      BY <1>3
    <3> QED
      BY <1>1, <1>5, <3>1, NoNewAsks
  <2>2. ~Asks(v)'
    <3>1. HasRequest(v)' <=> \E k \in Socket : In(v, connectors'[k])
      BY DEF HasRequest, In
    <3> QED
      BY <1>1, <1>3, <1>14, <3>1 DEF Asks
  <2>3. \A s \in Threads : app'[s].pc = "erase" => app'[s].u = v \/ (app'[s] = app[s] /\ app[s].u \in Socket)
    BY <1>2 DEF Safe, Core, Shape
  <2>4. \A u \in Socket : udt'[u].onList = udt[u].onList
    BY <1>3
  <2>5. \A u \in Socket : Done(u)' <=> Done(u)
    BY <1>1 DEF Done
  <2>6. \A s \in Threads : (app[s].pc = "erase" => ~Asks(app[s].u))'
    BY <2>1, <2>2, <2>3 DEF Safe, Parts, Listed
  <2>7. gc.todo \subseteq Socket
    BY DEF Safe, Core, Todo
  <2> QED
    BY <1>1, <2>1, <2>4, <2>5, <2>6, <2>7 DEF Safe, Parts, Listed
<1> QED
  BY <1>6, <1>7, <1>8, <1>9, <1>10, <1>11, <1>12, <1>13, <1>15, <1>16 DEF Parts

LEMMA CloseEndSafe == ASSUME Safe, NEW t \in Threads, CloseEnd(t) PROVE Parts'
<1>0. PICK v \in Socket : v = app[t].u
  BY DEF CloseEnd, Safe, Core, Shape
<1>1. /\ UNCHANGED <<made, udt, queued, mux, connectors, worker, gc>>
      /\ app[t].pc = "erase" /\ v \in Socket
  BY <1>0 DEF CloseEnd
<1>2. app'[t].pc = "idle" /\ app'[t].u = 0 /\ \A s \in Threads : s # t => app'[s] = app[s]
  BY DEF CloseEnd, Idle, Safe, Core, Shape
<1>3. /\ \A u \in Socket : u # v => sock'[u] = sock[u]
      /\ sock'[v].peer = sock[v].peer /\ sock'[v].mux = sock[v].mux /\ sock'[v].known = sock[v].known
      /\ sock'[v].tries = sock[v].tries
      /\ \/ /\ sock'[v].place = sock[v].place /\ sock'[v].status = sock[v].status /\ sock'[v].old = sock[v].old
            /\ sock[v].place = "sockets" => sock[v].status = "CLOSED"
         \/ sock[v].place = "sockets" /\ sock'[v].place = "closed" /\ ~sock'[v].old
  <2>1. CASE Located(v)
    <3>1. sock' = [sock EXCEPT ![v] = [@ EXCEPT !.status = "CLOSED", !.place = "closed", !.old = FALSE]]
      BY <1>0, <2>1 DEF CloseEnd
    <3> QED
      BY <2>1, <3>1 DEF Located, Safe, Core, Shape
  <2>2. CASE ~Located(v)
    BY <1>0, <2>2 DEF CloseEnd, Located
  <2> QED
    BY <2>1, <2>2
<1>4. /\ sock[v].place \in {"sockets", "closed"} /\ sock[v].known
      /\ \A s \in Threads : app[s].pc \in LockPcs /\ s # t => app[s].u # v /\ app[s].u \in Socket
  BY <1>0, <1>1 DEF Safe, Parts, Locks, LockPcs, Core, Shape, Callers
<1>5. Blank'
  BY <1>1, <1>3, <1>4 DEF Safe, Parts, Blank
<1>6. Handed'
  BY <1>1, <1>2, <1>3, <1>4 DEF Safe, Parts, Handed, Core, Shape
<1>7. Callers'
  <2>1. \A s \in Threads : app[s].pc # "idle" => app[s].u \in Socket
    BY DEF Safe, Core, Shape
  <2>2. \A u \in gc'.todo : sock'[u].old
    BY <1>1, <1>3 DEF Safe, Parts, Callers, Core, Todo
  <2> QED
    BY <1>1, <1>2, <1>3, <2>1, <2>2, CallersStep DEF Safe, Parts
<1>8. Locks'
  <2>1. \A s \in Threads : app'[s].pc \in LockPcs => app'[s] = app[s] /\ app[s].u \in Socket /\ app[s].u # v
    BY <1>2, <1>4 DEF LockPcs
  <2> QED
    BY <1>1, <1>3, <2>1 DEF Safe, Parts, Locks, LockPcs
<1>9. Statuses'
  <2>1. Flagged(v)'
    <3>1. Flagged(v)
      BY DEF Safe, Parts, Statuses
    <3> QED
      BY <1>1, <1>3, <3>1 DEF Flagged
  <2>2. ASSUME NEW u \in Socket, u # v PROVE Flagged(u)'
    <3>1. SocketLockFree(u)' <=> SocketLockFree(u)
      BY <1>0, <1>2, <2>2 DEF SocketLockFree
    <3> QED
      BY <1>1, <1>3, <2>2, <3>1 DEF Safe, Parts, Statuses, Flagged
  <2> QED
    BY <2>1, <2>2 DEF Statuses
<1>10. Listeners'
  BY <1>1, <1>3 DEF Safe, Parts, Listeners, Core, Shape
<1>11. BoundPorts'
  <2>1. \A k \in Socket : Bound(k) => Bound(k)'
    BY <1>3 DEF Bound
  <2> QED
    BY <1>1, <1>3, <2>1 DEF Safe, Parts, BoundPorts
<1>12. Counted'
  BY <1>1, <1>3, SameUsers DEF Safe, Parts
<1>13. Requests'
  <2>1. \A u \in Socket : sock'[u].tries = sock[u].tries
    BY <1>3
  <2>2. ASSUME NEW k \in Socket, NEW u \in Socket, Asker(k, u) PROVE Asker(k, u)'
    BY <1>1, <1>3, <2>2 DEF Asker
  <2> QED
    BY <1>1, <2>1, <2>2, SameRequests DEF Safe, Parts
<1>14. Listed'
  <2>1. \A u \in Socket : Asks(u)' <=> Asks(u)
    BY <1>1, <1>3 DEF Asks, HasRequest
  <2>2. ~Asks(v)
    BY <1>0, <1>1 DEF Safe, Parts, Listed
  <2>3. \A s \in Threads : app'[s].pc = "erase" => app'[s] = app[s] /\ app[s].u \in Socket
    BY <1>2 DEF Safe, Core, Shape
  <2>4. \A s \in Threads : (app[s].pc = "erase" => ~Asks(app[s].u))'
    BY <2>1, <2>3 DEF Safe, Parts, Listed
  <2>5. \A u \in Socket : Done(u)' => ~Asks(u)'
    BY <1>3, <2>1, <2>2 DEF Done, Safe, Parts, Listed
  <2> QED
    BY <1>1, <1>3, <2>4, <2>5 DEF Safe, Parts, Listed
<1> QED
  BY <1>5, <1>6, <1>7, <1>8, <1>9, <1>10, <1>11, <1>12, <1>13, <1>14 DEF Parts

\* The steps of a worker that change no socket, no flag and no list.
LEMMA WorkerReads ==
    ASSUME Safe, UNCHANGED <<sock, udt, queued, mux, connectors, gc>>, NEW m \in Socket,
           \A k \in Socket : k # m => worker'[k] = worker[k],
           worker'[m].pc \notin {"insert", "enqueue"},
           worker'[m].pc # "idle" => worker[m].pc # "idle" \/ mux[m].refs # 0,
           \/ worker'[m].ns = 0
           \/ worker'[m].ns = worker[m].ns /\ worker'[m].pc # "idle",
           \A s \in Threads : \/ app'[s] = app[s]
                              \/ app[s].pc = "wait" /\ app'[s].pc = "accept" /\ app'[s].u = app[s].u
    PROVE  Parts'
<1>1. Blank' /\ Listeners'
  BY DEF Safe, Parts, Blank, Listeners
<1>2. Handed'
  BY DEF Safe, Parts, Handed
<1>3. Callers'
  <2>1. \A s \in Threads : app[s].pc # "idle" => app[s].u \in Socket
    BY DEF Safe, Core, Shape
  <2>2. \A u \in gc'.todo : sock'[u].old
    BY DEF Safe, Parts, Callers
  <2>3. \A s \in Threads : \/ app'[s] = app[s]
                           \/ /\ app'[s].pc # "idle" /\ app[s].pc # "idle" /\ app'[s].u = app[s].u
                              /\ app'[s].pc # "accepted"
    OBVIOUS
  <2>4. \A k \in Socket : \/ worker'[k].ns = worker[k].ns /\ (worker'[k].pc = "idle" => worker[k].pc = "idle")
                          \/ worker'[k].ns = 0
    OBVIOUS
  <2> QED
    BY <2>1, <2>2, <2>3, <2>4, CallersStep DEF Safe, Parts
<1>4. Locks'
  <2>1. \A s \in Threads : app'[s].pc \in LockPcs => app'[s] = app[s]
    BY DEF LockPcs
  <2> QED
    BY <2>1 DEF Safe, Parts, Locks, LockPcs
<1>5. Statuses'
  <2>1. ASSUME NEW u \in Socket PROVE Flagged(u)'
    <3>1. SocketLockFree(u)' <=> SocketLockFree(u)
      BY DEF SocketLockFree
    <3> QED
      BY <3>1 DEF Safe, Parts, Statuses, Flagged
  <2> QED
    BY <2>1 DEF Statuses
<1>6. BoundPorts'
  BY DEF Safe, Parts, BoundPorts, Bound
<1>7. Counted'
  BY SameUsers DEF Safe, Parts
<1>8. Requests'
  BY SameRequests DEF Safe, Parts, Asker
<1>9. Listed'
  <2>1. \A s \in Threads : app'[s].pc = "erase" => app'[s] = app[s]
    OBVIOUS
  <2> QED
    BY <2>1 DEF Safe, Parts, Listed, Asks, HasRequest, Done
<1> QED
  BY <1>1, <1>2, <1>3, <1>4, <1>5, <1>6, <1>7, <1>8, <1>9 DEF Parts

LEMMA InUse == ASSUME Safe, NEW m \in Socket, mux[m].refs > 0 PROVE mux[m].refs # 0
<1>1. mux[m].refs \in Nat
  BY FiniteUsers DEF Safe, Parts, Counted
<1> QED
  BY <1>1

LEMMA WorkerListenSafe == ASSUME Safe, NEW m \in Socket, NEW p \in Peers, WorkerListen(m, p) PROVE Parts'
<1>1. /\ UNCHANGED <<sock, udt, queued, mux, connectors, app, gc>>
      /\ \A k \in Socket : k # m => worker'[k] = worker[k]
      /\ worker'[m].pc = "listen" /\ worker'[m].ns = 0 /\ mux[m].refs # 0
  BY InUse DEF WorkerListen, Rest, Safe, Core, Shape
<1> QED
  BY <1>1, WorkerReads

LEMMA WorkerSignalSafe == ASSUME Safe, NEW m \in Socket, WorkerSignal(m) PROVE Parts'
<1>1. /\ UNCHANGED <<sock, udt, queued, mux, connectors, gc>>
      /\ \A k \in Socket : k # m => worker'[k] = worker[k]
      /\ worker'[m].pc = "idle" /\ worker'[m].ns = 0
  BY DEF WorkerSignal, Rest, Safe, Core, Shape
<1>2. \A s \in Threads : \/ app'[s] = app[s]
                         \/ app[s].pc = "wait" /\ app'[s].pc = "accept" /\ app'[s].u = app[s].u
  <2>1. CASE UNCHANGED app
    BY <2>1
  <2>2. ASSUME NEW t \in Threads, app[t].pc = "wait", app' = [app EXCEPT ![t].pc = "accept"]
        PROVE  \A s \in Threads : \/ app'[s] = app[s]
                                  \/ app[s].pc = "wait" /\ app'[s].pc = "accept" /\ app'[s].u = app[s].u
    BY <2>2 DEF Safe, Core, Shape
  <2> QED
    BY <2>1, <2>2 DEF WorkerSignal
<1> QED
  BY <1>1, <1>2, WorkerReads

LEMMA WorkerLocateSafe == ASSUME Safe, NEW m \in Socket, WorkerLocate(m) PROVE Parts'
<1> DEFINE w == worker[m]
           old == Newest(Known(w.peer))
           broken == {n \in old : udt[n].broken}
<1>1. /\ UNCHANGED <<made, udt, mux, connectors, app, gc>>
      /\ w.pc = "listen" /\ w.peer # 0 /\ w.u \in Socket
      /\ \A k \in Socket : k # m => worker'[k] = worker[k]
  BY DEF WorkerLocate, Safe, Core, Shape, Work
<1>2. ASSUME worker' = [worker EXCEPT ![m] = Rest], UNCHANGED <<sock, queued>> PROVE Parts'
  <2>1. worker'[m].pc = "idle" /\ worker'[m].ns = 0
    BY <1>2 DEF Rest, Safe, Core, Shape
  <2> QED
    BY <1>1, <1>2, <2>1, WorkerReads
<1>3. ASSUME worker' = [worker EXCEPT ![m].pc = "create"],
             sock' = [n \in Socket |-> IF n \in broken
                                       THEN [sock[n] EXCEPT !.status = "CLOSED", !.old = FALSE] ELSE sock[n]],
             queued' = [queued EXCEPT ![w.u] = @ \ broken]
      PROVE  Parts'
  <2>3. \A u \in broken : u \in Socket /\ sock[u].place = "sockets" /\ sock[u].peer # 0
    BY <1>1 DEF Newest, Known
  <2> HIDE DEF broken, old, w
  <2>1. worker'[m].pc = "create" /\ worker'[m].ns = worker[m].ns
    <3>1. worker' = [worker EXCEPT ![m].pc = "create"]
      BY <1>3
    <3>2. m \in DOMAIN worker /\ {"pc", "ns"} \subseteq DOMAIN worker[m]
      BY DEF Safe, Core, Shape
    <3> QED
      BY <3>1, <3>2
  <2>2. \A l \in Socket : queued'[l] \subseteq queued[l]
    BY <1>3 DEF Safe, Core, Shape
  <2>4. \A u \in Socket :
           /\ sock'[u].place = sock[u].place /\ sock'[u].peer = sock[u].peer /\ sock'[u].mux = sock[u].mux
           /\ sock'[u].known = sock[u].known /\ sock'[u].tries = sock[u].tries
           /\ u \notin broken => sock'[u] = sock[u]
           /\ u \in broken => sock'[u].status = "CLOSED" /\ ~sock'[u].old
    <3> SUFFICES ASSUME NEW u \in Socket
                 PROVE  /\ sock'[u].place = sock[u].place /\ sock'[u].peer = sock[u].peer
                        /\ sock'[u].mux = sock[u].mux /\ sock'[u].known = sock[u].known
                        /\ sock'[u].tries = sock[u].tries
                        /\ u \notin broken => sock'[u] = sock[u]
                        /\ u \in broken => sock'[u].status = "CLOSED" /\ ~sock'[u].old
      OBVIOUS
    <3>1. sock'[u] = IF u \in broken THEN [sock[u] EXCEPT !.status = "CLOSED", !.old = FALSE] ELSE sock[u]
      BY <1>3
    <3>2. DOMAIN sock[u] = SockFields
      BY DEF Safe, Core, Shape, SockFields
    <3> QED
      BY <3>1, <3>2 DEF SockFields
  <2>5. \A u \in broken : ~udt[u].listening
    BY <2>3 DEF Safe, Core, Kinds, Parts, Statuses, Flagged
  <2>6. Blank'
    BY <1>1, <2>3, <2>4 DEF Safe, Parts, Blank
  <2>7. Handed'
    BY <1>1, <2>1, <2>2, <2>4 DEF Safe, Parts, Handed, Core, Shape
  <2>8. Callers'
    <3>1. \A s \in Threads : app[s].pc # "idle" => app[s].u \in Socket
      BY DEF Safe, Core, Shape
    <3>2. \A u \in gc'.todo : sock'[u].old
      BY <1>1, <2>3, <2>4 DEF Safe, Parts, Callers, Core, Todo
    <3> QED
      BY <1>1, <2>1, <2>3, <2>4, <3>1, <3>2, CallersStep DEF Safe, Parts
  <2>9. Locks'
    <3>1. \A s \in Threads : app[s].pc \in LockPcs => app[s].u \in Socket
      BY DEF Safe, Core, Shape, LockPcs
    <3> QED
      BY <1>1, <2>4, <3>1 DEF Safe, Parts, Locks, LockPcs
  <2>10. Statuses'
    <3>1. ASSUME NEW u \in Socket PROVE Flagged(u)'
      <4>1. SocketLockFree(u)' <=> SocketLockFree(u)
        BY <1>1 DEF SocketLockFree
      <4>2. Flagged(u)
        BY DEF Safe, Parts, Statuses
      <4>3. CASE u \in broken
        BY <1>1, <2>4, <2>5, <4>2, <4>3 DEF Flagged
      <4>4. CASE u \notin broken
        BY <1>1, <2>4, <4>1, <4>2, <4>4 DEF Flagged
      <4> QED
        BY <4>3, <4>4
    <3> QED
      BY <3>1 DEF Statuses
  <2>11. Listeners'
    BY <1>1, <2>4 DEF Safe, Parts, Listeners, Core, Shape
  <2>12. BoundPorts'
    <3>1. \A k \in Socket : Bound(k) => Bound(k)'
      BY <2>4 DEF Bound
    <3> QED
      BY <1>1, <2>1, <2>4, <3>1 DEF Safe, Parts, BoundPorts, w
  <2>13. Counted'
    BY <1>1, <2>4, SameUsers DEF Safe, Parts
  <2>14. Requests'
    <3>1. ASSUME NEW k \in Socket, NEW u \in Socket, Asker(k, u) PROVE Asker(k, u)'
      BY <1>1, <2>4, <3>1 DEF Asker
    <3> QED
      BY <1>1, <2>4, <3>1, SameRequests DEF Safe, Parts
  <2>15. Listed'
    BY <1>1, <2>4 DEF Safe, Parts, Listed, Asks, HasRequest, Done, Core, Shape, Todo
  <2> QED
    BY <2>6, <2>7, <2>8, <2>9, <2>10, <2>11, <2>12, <2>13, <2>14, <2>15 DEF Parts
<1> QED
  BY <1>2, <1>3 DEF WorkerLocate

LEMMA WorkerCreateSafe == ASSUME Safe, NEW m \in Socket, WorkerCreate(m) PROVE Parts'
<1> DEFINE w == worker[m]
<1>1. /\ UNCHANGED <<queued, connectors, app, gc>>
      /\ w.pc = "create" /\ w.peer # 0 /\ w.u \in Socket
      /\ \A k \in Socket : k # m => worker'[k] = worker[k]
  BY DEF WorkerCreate, Safe, Core, Shape, Work
<1>2. ASSUME worker' = [worker EXCEPT ![m] = Rest], UNCHANGED <<made, sock, udt, mux>> PROVE Parts'
  <2>1. worker'[m].pc = "idle" /\ worker'[m].ns = 0
    BY <1>2 DEF Rest, Safe, Core, Shape
  <2> QED
    BY <1>1, <1>2, <2>1, WorkerReads
<1>3. ASSUME NEW n, n = made + 1, made # MaxSockets,
             sock' = [sock EXCEPT ![n] = [@ EXCEPT !.status = "CONNECTED", !.peer = w.peer, !.mux = m]],
             udt' = [udt EXCEPT ![n] = [@ EXCEPT !.opened = TRUE, !.connected = TRUE, !.onList = TRUE]],
             mux' = reuseMux(m),
             worker' = [worker EXCEPT ![m] = [@ EXCEPT !.pc = "insert", !.ns = n]]
      PROVE  Parts'
  <2>1. n \in Socket /\ sock[n].place = "none" /\ sock[n].peer = 0
    <3>1. n \in Socket /\ n > made
      BY <1>3, SocketsAssumption DEF Safe, Core, Shape, Socket
    <3> QED
      BY <3>1 DEF Safe, Core, Fresh
  <2>2. worker'[m].pc = "insert" /\ worker'[m].ns = n
    BY <1>3 DEF Safe, Core, Shape
  <2>3. /\ \A u \in Socket : u # n => sock'[u] = sock[u] /\ udt'[u] = udt[u]
        /\ sock'[n].place = "none" /\ sock'[n].status = "CONNECTED" /\ sock'[n].peer = w.peer /\ sock'[n].mux = m
        /\ sock'[n].known = sock[n].known /\ sock'[n].old = sock[n].old /\ sock'[n].tries = sock[n].tries
        /\ udt'[n].opened /\ udt'[n].listening = udt[n].listening /\ udt'[n].connecting = udt[n].connecting
        /\ udt'[n].connected /\ udt'[n].broken = udt[n].broken /\ udt'[n].onList
    BY <1>3, <2>1 DEF Safe, Core, Shape
  <2>4. /\ ~sock[n].known /\ ~udt[n].listening /\ sock[n].mux = 0 /\ sock[n].tries = 0
        /\ ~udt[n].connecting /\ ~udt[n].broken
    BY <2>1 DEF Safe, Parts, Blank
  <2>5. /\ mux'[m].refs = mux[m].refs + 1 /\ mux'[m].listener = mux[m].listener
        /\ \A k \in Socket : k # m => mux'[k] = mux[k]
    BY <1>3 DEF reuseMux, Safe, Core, Shape
  <2>6. \A l \in Socket : n \notin queued[l]
    BY <2>1 DEF Safe, Parts, Handed
  <2>7. Blank'
    BY <1>1, <2>1, <2>3, <2>4 DEF Safe, Parts, Blank
  <2>8. Handed'
    <3>1. \A k \in Socket : worker[k].pc \in {"insert", "enqueue"} => worker[k].ns # n
      BY <2>1 DEF Safe, Parts, Handed
    <3>2. \A l \in Socket : \A x \in queued[l] : x # n /\ x \in Socket
      BY <2>6 DEF Safe, Core, Shape
    <3>3. \A s \in Threads : app[s].pc = "accepted" => app[s].got # n /\ app[s].got \in Socket
      BY <2>1 DEF Safe, Parts, Handed
    <3>4. /\ \A l \in Socket : \A x \in queued'[l] :
                /\ sock'[x].place = "sockets" /\ ~sock'[x].known /\ sock'[x].peer # 0
                /\ \A k \in Socket : x \in queued'[k] => k = l
      BY <1>1, <2>3, <3>2 DEF Safe, Parts, Handed
    <3>5. ASSUME NEW k \in Socket, worker'[k].pc \in {"insert", "enqueue"}
          PROVE  LET x == worker'[k].ns
                 IN  /\ x \in Socket /\ ~sock'[x].known /\ sock'[x].mux = k /\ ~udt'[x].broken /\ sock'[x].peer # 0
                     /\ worker'[k].pc = "enqueue" => sock'[x].place = "sockets"
                     /\ \A l \in Socket : x \notin queued'[l]
      <4>1. CASE k = m
        BY <1>1, <2>1, <2>2, <2>3, <2>4, <2>6, <4>1
      <4>2. CASE k # m
        BY <1>1, <2>3, <3>1, <3>5, <4>2 DEF Safe, Parts, Handed
      <4> QED
        BY <4>1, <4>2
    <3>6. ASSUME NEW s \in Threads, app[s].pc = "accepted"
          PROVE  LET x == app[s].got
                 IN  /\ x \in Socket /\ sock'[x].place \in {"sockets", "closed"} /\ sock'[x].peer # 0
                     /\ \A l \in Socket : x \notin queued[l]
                     /\ \A k \in Socket : worker'[k].pc \in {"insert", "enqueue"} => worker'[k].ns # x
      BY <1>1, <2>2, <2>3, <3>3, <3>6 DEF Safe, Parts, Handed
    <3> QED
      BY <1>1, <3>4, <3>5, <3>6 DEF Handed
  <2>9. Callers'
    <3>1. \A s \in Threads : app[s].pc # "idle" => app[s].u \in Socket
      BY DEF Safe, Core, Shape
    <3>2. \A u \in gc'.todo : sock'[u].old
      BY <1>1, <2>1, <2>3 DEF Safe, Parts, Callers, Core, Todo
    <3> QED
      BY <1>1, <2>1, <2>2, <2>3, <3>1, <3>2, CallersStep DEF Safe, Parts
  <2>10. Locks'
    <3>1. \A s \in Threads : app[s].pc \in LockPcs => app[s].u \in Socket /\ app[s].u # n
      BY <2>1 DEF Safe, Core, Shape, LockPcs, Parts, Callers
    <3> QED
      BY <1>1, <2>3, <3>1 DEF Safe, Parts, Locks, LockPcs
  <2>11. Statuses'
    <3>1. Flagged(n)'
      BY <2>3, <2>4 DEF Flagged
    <3>2. ASSUME NEW u \in Socket, u # n PROVE Flagged(u)'
      BY <1>1, <2>3, <3>2 DEF Safe, Parts, Statuses, Flagged, SocketLockFree
    <3> QED
      BY <3>1, <3>2 DEF Statuses
  <2>12. Listeners'
    <3>1. \A k \in Socket : mux'[k].listener = mux[k].listener /\ mux[k].listener \in Socket \cup {0}
      BY <2>5 DEF Safe, Core, Shape
    <3> QED
      BY <2>1, <2>3, <3>1 DEF Safe, Parts, Listeners
  <2>13. BoundPorts'
    <3>1. \A k \in Socket : Bound(k) => Bound(k)' /\ k # n
      BY <2>1, <2>3 DEF Bound
    <3>2. Bound(m)
      BY <1>1 DEF Safe, Parts, BoundPorts
    <3> QED
      BY <1>1, <2>2, <2>3, <2>5, <3>1, <3>2 DEF Safe, Parts, BoundPorts
  <2>14. Counted'
    BY <2>1, <2>3, <2>4, <2>5, OneMoreUser DEF Safe, Parts
  <2>15. Requests'
    <3>1. ASSUME NEW k \in Socket, NEW u \in Socket, Asker(k, u) PROVE Asker(k, u)'
      BY <2>3, <2>4, <3>1 DEF Asker
    <3> QED
      BY <1>1, <2>3, <3>1, SameRequests DEF Safe, Parts
  <2>16. Listed'
    <3>1. \A u \in Socket : Asks(u)' => Asks(u)
      BY <1>1, <2>3, <2>4 DEF Asks, HasRequest
    <3>2. n \notin gc.todo /\ gc.todo \subseteq Socket
      BY <2>1 DEF Safe, Core, Todo
    <3>3. \A u \in Socket : Done(u)' => Done(u)
      BY <2>3 DEF Done
    <3>4. \A s \in Threads : app[s].pc = "erase" => app[s].u \in Socket
      BY DEF Safe, Core, Shape
    <3>5. \A s \in Threads : (app[s].pc = "erase" => ~Asks(app[s].u))'
      BY <1>1, <3>1, <3>4 DEF Safe, Parts, Listed
    <3> QED
      BY <1>1, <2>1, <2>3, <3>1, <3>2, <3>3, <3>5 DEF Safe, Parts, Listed
  <2> QED
    BY <2>7, <2>8, <2>9, <2>10, <2>11, <2>12, <2>13, <2>14, <2>15, <2>16 DEF Parts
<1> QED
  BY <1>2, <1>3 DEF WorkerCreate

LEMMA WorkerInsertSafe == ASSUME Safe, NEW m \in Socket, WorkerInsert(m) PROVE Parts'
<1>0. PICK n \in Socket : n = worker[m].ns
  BY DEF WorkerInsert, Safe, Core, Work
<1>1. /\ UNCHANGED <<made, udt, queued, mux, connectors, app, gc>>
      /\ worker[m].pc = "insert" /\ sock' = [sock EXCEPT ![n].place = "sockets"]
  BY <1>0 DEF WorkerInsert
<1>2. /\ worker'[m].pc = "enqueue" /\ worker'[m].ns = n
      /\ \A k \in Socket : k # m => worker'[k] = worker[k]
  BY <1>0 DEF WorkerInsert, Safe, Core, Shape
<1>3. /\ \A u \in Socket : u # n => sock'[u] = sock[u]
      /\ sock'[n].place = "sockets" /\ sock'[n].status = sock[n].status /\ sock'[n].peer = sock[n].peer
      /\ sock'[n].mux = sock[n].mux /\ sock'[n].known = sock[n].known /\ sock'[n].tries = sock[n].tries
      /\ sock'[n].old = sock[n].old
  BY <1>1 DEF Safe, Core, Shape
<1>4. /\ sock[n].place = "none" /\ sock[n].peer # 0 /\ ~sock[n].known /\ sock[n].mux = m /\ ~udt[n].listening
      /\ sock[n].status \notin {"INIT", "OPENED", "LISTENING"}
      /\ \A k \in Socket : k # m /\ worker[k].pc \in {"insert", "enqueue"} => worker[k].ns # n
      /\ \A l \in Socket : n \notin queued[l]
  <2>1. /\ sock[n].place = "none" /\ sock[n].peer # 0
        /\ sock[n].status \notin {"INIT", "OPENED", "LISTENING"}
    BY <1>0, <1>1 DEF Safe, Core, Work, Kinds
  <2>2. /\ ~sock[n].known /\ sock[n].mux = m /\ ~udt[n].listening
        /\ \A l \in Socket : n \notin queued[l]
    BY <1>0, <1>1, <2>1 DEF Safe, Parts, Handed, Blank
  <2>3. \A k \in Socket : k # m /\ worker[k].pc \in {"insert", "enqueue"} => worker[k].ns # n
    BY <2>2 DEF Safe, Parts, Handed
  <2> QED
    BY <2>1, <2>2, <2>3
<1>5. Blank'
  BY <1>1, <1>3, <1>4 DEF Safe, Parts, Blank
<1>6. Handed'
  <2>1. Handed
    BY DEF Safe, Parts
  <2>2. \A k \in Socket : worker'[k].pc \in {"insert", "enqueue"} =>
           \/ k = m /\ worker'[k].pc = "enqueue" /\ worker'[k].ns = n /\ worker[k].pc = "insert" /\ worker[k].ns = n
           \/ k # m /\ worker'[k] = worker[k]
    BY <1>0, <1>1, <1>2
  <2>3. \A l \in Socket : queued[l] \subseteq Socket
    BY DEF Safe, Core, Shape
  <2>4. \A l \in Socket : \A u \in queued[l] :
           /\ sock'[u].place = "sockets" /\ ~sock'[u].known /\ sock'[u].peer # 0
           /\ \A k \in Socket : u \in queued[k] => k = l
    BY <1>3, <2>1, <2>3 DEF Handed
  <2>5. ASSUME NEW k \in Socket, worker'[k].pc \in {"insert", "enqueue"}
        PROVE  LET u == worker'[k].ns
               IN  /\ u \in Socket /\ ~sock'[u].known /\ sock'[u].mux = k /\ ~udt[u].broken /\ sock'[u].peer # 0
                   /\ worker'[k].pc = "enqueue" => sock'[u].place = "sockets"
                   /\ \A l \in Socket : u \notin queued[l]
    BY <1>3, <2>1, <2>2, <2>5 DEF Handed
  <2>6. ASSUME NEW t \in Threads, app[t].pc = "accepted"
        PROVE  LET u == app[t].got
               IN  /\ u \in Socket /\ sock'[u].place \in {"sockets", "closed"} /\ sock'[u].peer # 0
                   /\ \A l \in Socket : u \notin queued[l]
                   /\ \A k \in Socket : worker'[k].pc \in {"insert", "enqueue"} => worker'[k].ns # u
    BY <1>3, <2>1, <2>2, <2>6 DEF Handed
  <2> QED
    BY <1>1, <2>4, <2>5, <2>6 DEF Handed
<1>7. Callers'
  <2>1. \A s \in Threads : app[s].pc # "idle" => app[s].u \in Socket
    BY DEF Safe, Core, Shape
  <2>2. \A u \in gc'.todo : sock'[u].old
    BY <1>1, <1>3 DEF Safe, Parts, Callers, Core, Todo
  <2> QED
    BY <1>0, <1>1, <1>2, <1>3, <2>1, <2>2, CallersStep DEF Safe, Parts
<1>8. Locks'
  <2>1. \A s \in Threads : app[s].pc \in LockPcs => app[s].u \in Socket /\ app[s].u # n
    BY <1>4 DEF Safe, Core, Shape, LockPcs, Parts, Callers
  <2> QED
    BY <1>1, <1>3, <2>1 DEF Safe, Parts, Locks, LockPcs
<1>9. Statuses'
  <2>1. Flagged(n)'
    BY <1>1, <1>3, <1>4 DEF Flagged, Safe, Parts, Statuses
  <2>2. ASSUME NEW u \in Socket, u # n PROVE Flagged(u)'
    BY <1>1, <1>3, <2>2 DEF Safe, Parts, Statuses, Flagged, SocketLockFree
  <2> QED
    BY <2>1, <2>2 DEF Statuses
<1>10. Listeners'
  BY <1>1, <1>3 DEF Safe, Parts, Listeners, Core, Shape
<1>11. BoundPorts'
  <2>1. \A k \in Socket : Bound(k) => Bound(k)'
    BY <1>3, <1>4 DEF Bound
  <2> QED
    BY <1>1, <1>2, <1>3, <2>1 DEF Safe, Parts, BoundPorts
<1>12. Counted'
  BY <1>1, <1>3, <1>4, SameUsers DEF Safe, Parts
<1>13. Requests'
  <2>1. ASSUME NEW k \in Socket, NEW u \in Socket, Asker(k, u) PROVE Asker(k, u)'
    BY <1>1, <1>3, <2>1 DEF Asker
  <2> QED
    BY <1>1, <1>3, <2>1, SameRequests DEF Safe, Parts
<1>14. Listed'
  BY <1>1, <1>3, <1>4 DEF Safe, Parts, Listed, Asks, HasRequest, Done, Core, Shape
<1> QED
  BY <1>5, <1>6, <1>7, <1>8, <1>9, <1>10, <1>11, <1>12, <1>13, <1>14 DEF Parts

LEMMA WorkerEnqueueSafe == ASSUME Safe, NEW m \in Socket, WorkerEnqueue(m) PROVE Parts'
<1>0. PICK n \in Socket : n = worker[m].ns
  BY DEF WorkerEnqueue, Safe, Parts, Handed
<1>1. /\ UNCHANGED <<made, sock, udt, mux, connectors, app, gc>>
      /\ worker[m].pc = "enqueue" /\ worker[m].u \in Socket
      /\ queued' = [queued EXCEPT ![worker[m].u] = @ \cup {n}]
  BY <1>0 DEF WorkerEnqueue, Safe, Core, Shape
<1>2. /\ worker'[m].pc = "signal" /\ worker'[m].ns = n
      /\ \A k \in Socket : k # m => worker'[k] = worker[k]
  BY <1>0 DEF WorkerEnqueue, Safe, Core, Shape
<1>3. /\ n \in queued'[worker[m].u]
      /\ \A l \in Socket : \A x \in queued'[l] : x \in queued[l] \/ (x = n /\ l = worker[m].u)
  BY <1>1 DEF Safe, Core, Shape
<1>4. /\ ~sock[n].known /\ sock[n].mux = m /\ sock[n].peer # 0 /\ sock[n].place = "sockets"
      /\ \A l \in Socket : n \notin queued[l]
  BY <1>0, <1>1 DEF Safe, Parts, Handed
<1>5. Handed'
  <2>1. \A l \in Socket : \A x \in queued'[l] :
           /\ sock[x].place = "sockets" /\ ~sock[x].known /\ sock[x].peer # 0
           /\ \A k \in Socket : x \in queued'[k] => k = l
    BY <1>1, <1>3, <1>4 DEF Safe, Parts, Handed
  <2>2. ASSUME NEW k \in Socket, worker'[k].pc \in {"insert", "enqueue"}
        PROVE  k # m /\ worker'[k] = worker[k] /\ worker[k].ns # n
    <3>1. k # m
      BY <1>2, <2>2
    <3> QED
      BY <1>2, <1>4, <2>2, <3>1 DEF Safe, Parts, Handed
  <2>3. \A s \in Threads : app[s].pc = "accepted" => app[s].got # n
    BY <1>0, <1>1 DEF Safe, Parts, Handed
  <2> QED
    BY <1>1, <1>3, <2>1, <2>2, <2>3 DEF Safe, Parts, Handed
<1>6. Callers'
  <2>1. \A s \in Threads : app[s].pc # "idle" => app[s].u \in Socket
    BY DEF Safe, Core, Shape
  <2>2. \A u \in gc'.todo : sock'[u].old
    BY <1>1 DEF Safe, Parts, Callers
  <2>3. \A k \in Socket : worker'[k].ns = worker[k].ns /\ (worker'[k].pc = "idle" => worker[k].pc = "idle")
    BY <1>0, <1>2
  <2> QED
    BY <1>1, <2>1, <2>2, <2>3, CallersStep DEF Safe, Parts
<1>7. Blank' /\ Locks' /\ Listeners'
  BY <1>1 DEF Safe, Parts, Blank, Locks, LockPcs, Listeners
<1>8. Statuses'
  BY <1>1 DEF Safe, Parts, Statuses, Flagged, SocketLockFree
<1>9. BoundPorts'
  BY <1>1, <1>2 DEF Safe, Parts, BoundPorts, Bound
<1>10. Counted'
  BY <1>1, SameUsers DEF Safe, Parts
<1>11. Requests'
  BY <1>1, SameRequests DEF Safe, Parts, Asker
<1>12. Listed'
  BY <1>1 DEF Safe, Parts, Listed, Asks, HasRequest, Done
<1> QED
  BY <1>5, <1>6, <1>7, <1>8, <1>9, <1>10, <1>11, <1>12 DEF Parts

LEMMA WorkerConnectEndSafe == ASSUME Safe, NEW m \in Socket, WorkerConnectEnd(m) PROVE Parts'
<1>0. PICK v \in Socket : v = worker[m].u
  BY DEF WorkerConnectEnd, Safe, Core, Shape
<1>1. /\ UNCHANGED <<made, udt, queued, mux, connectors, app, gc>>
      /\ worker[m].pc = "complete" /\ (sock[v].async \/ Done(v))
  BY <1>0 DEF WorkerConnectEnd, Safe, Core, Work
<1>2. /\ worker'[m].pc \in {"idle", "terminated"} /\ worker'[m].ns = 0
      /\ \A k \in Socket : k # m => worker'[k] = worker[k]
  BY <1>0 DEF WorkerConnectEnd, Rest, Safe, Core, Shape
<1>3. ASSUME ~Located(v) PROVE Parts'
  <2>1. sock' = sock
    BY <1>0, <1>3 DEF WorkerConnectEnd
  <2> QED
    BY <1>1, <1>2, <2>1, WorkerReads
<1>4. ASSUME Located(v) PROVE Parts'
  <2>1. sock' = [sock EXCEPT ![v].status = "CONNECTED"] /\ sock[v].place = "sockets"
    BY <1>0, <1>4 DEF WorkerConnectEnd, Located
  <2>2. sock[v].status \notin {"INIT", "OPENED", "LISTENING"} /\ ~udt[v].listening
    BY <1>1, <2>1 DEF Done, Safe, Core, Kinds, Parts, Statuses, Flagged
  <2>3. /\ \A u \in Socket : u # v => sock'[u] = sock[u]
        /\ sock'[v].place = sock[v].place /\ sock'[v].status = "CONNECTED" /\ sock'[v].peer = sock[v].peer
        /\ sock'[v].mux = sock[v].mux /\ sock'[v].known = sock[v].known /\ sock'[v].tries = sock[v].tries
        /\ sock'[v].old = sock[v].old
    BY <2>1 DEF Safe, Core, Shape
  <2>4. Blank'
    BY <1>1, <2>1, <2>3 DEF Safe, Parts, Blank
  <2>5. Handed'
    BY <1>1, <1>2, <2>3 DEF Safe, Parts, Handed, Core, Shape
  <2>6. Callers'
    <3>1. \A s \in Threads : app[s].pc # "idle" => app[s].u \in Socket
      BY DEF Safe, Core, Shape
    <3>2. \A u \in gc'.todo : sock'[u].old
      BY <1>1, <2>3 DEF Safe, Parts, Callers, Core, Todo
    <3> QED
      BY <1>1, <1>2, <2>3, <3>1, <3>2, CallersStep DEF Safe, Parts
  <2>7. Locks'
    <3>1. \A s \in Threads : app[s].pc \in LockPcs => app[s].u \in Socket
      BY DEF Safe, Core, Shape, LockPcs
    <3> QED
      BY <1>1, <2>3, <3>1 DEF Safe, Parts, Locks, LockPcs
  <2>8. Statuses'
    <3>1. Flagged(v)'
      BY <1>1, <2>2, <2>3 DEF Flagged, Safe, Parts, Statuses
    <3>2. ASSUME NEW u \in Socket, u # v PROVE Flagged(u)'
      BY <1>1, <2>3, <3>2 DEF Safe, Parts, Statuses, Flagged, SocketLockFree
    <3> QED
      BY <3>1, <3>2 DEF Statuses
  <2>9. Listeners'
    BY <1>1, <2>3 DEF Safe, Parts, Listeners, Core, Shape
  <2>10. BoundPorts'
    <3>1. \A k \in Socket : Bound(k) => Bound(k)'
      BY <2>3 DEF Bound
    <3> QED
      BY <1>1, <1>2, <2>3, <3>1 DEF Safe, Parts, BoundPorts
  <2>11. Counted'
    BY <1>1, <2>3, SameUsers DEF Safe, Parts
  <2>12. Requests'
    <3>1. ASSUME NEW k \in Socket, NEW u \in Socket, Asker(k, u) PROVE Asker(k, u)'
      BY <1>1, <2>3, <3>1 DEF Asker
    <3> QED
      BY <1>1, <2>3, <3>1, SameRequests DEF Safe, Parts
  <2>13. Listed'
    BY <1>1, <2>3 DEF Safe, Parts, Listed, Asks, HasRequest, Done, Core, Shape
  <2> QED
    BY <2>4, <2>5, <2>6, <2>7, <2>8, <2>9, <2>10, <2>11, <2>12, <2>13 DEF Parts
<1> QED
  BY <1>3, <1>4

\* A worker gives up a request, breaks a connection, or takes a socket off its list.
LEMMA WorkerFlagsSafe ==
    ASSUME Safe, NEW m \in Socket,
           \/ WorkerExpires(m)
           \/ \E u \in Socket, patience \in 0 .. 1 : WorkerBreak(m, u, patience)
           \/ \E u \in Socket : WorkerForget(m, u)
    PROVE  Parts'
<1>1. UNCHANGED <<made, sock, queued, mux, connectors, app, worker, gc>>
  BY DEF WorkerExpires, WorkerBreak, WorkerForget
<1>2. PICK v \in Socket :
         /\ \A u \in Socket : u # v => udt'[u] = udt[u]
         /\ udt'[v].opened = udt[v].opened /\ udt'[v].listening = udt[v].listening
         /\ udt'[v].connected = udt[v].connected
         /\ udt'[v].connecting => udt[v].connecting
         /\ udt'[v].onList => udt[v].onList
         /\ udt'[v].broken => udt[v].broken \/ (udt[v].connected /\ worker[m].pc = "idle" /\ sock[v].mux = m)
  <2>1. CASE WorkerExpires(m)
    <3>1. PICK i \in DOMAIN connectors[m] : udt' = [udt EXCEPT ![connectors[m][i].u].connecting = FALSE]
      BY <2>1 DEF WorkerExpires
    <3>2. connectors[m][i].u \in Socket
      <4>1. connectors[m] \in Seq(Request)
        BY DEF Safe, Parts, Requests
      <4>2. connectors[m][i] \in Request
        BY <4>1
      <4> QED
        BY <4>2 DEF Request
    <3> QED
      BY <3>1, <3>2 DEF Safe, Core, Shape
  <2>2. ASSUME NEW u \in Socket, NEW patience \in 0 .. 1, WorkerBreak(m, u, patience)
        PROVE  /\ \A x \in Socket : x # u => udt'[x] = udt[x]
               /\ udt'[u].opened = udt[u].opened /\ udt'[u].listening = udt[u].listening
               /\ udt'[u].connected = udt[u].connected
               /\ udt'[u].connecting => udt[u].connecting
               /\ udt'[u].onList => udt[u].onList
               /\ udt[u].connected /\ worker[m].pc = "idle" /\ sock[u].mux = m
    <3>1. udt' = [udt EXCEPT ![u] = [@ EXCEPT !.broken = TRUE, !.closing = TRUE, !.patience = patience]]
      BY <2>2 DEF WorkerBreak
    <3>2. udt[u].connected /\ sock[u].mux = m
      BY <2>2 DEF WorkerBreak
    <3>3. worker[m].pc = "idle"
      <4>1. worker[m] = Rest
        BY <2>2 DEF WorkerBreak
      <4> QED
        BY <4>1 DEF Rest
    <3>4. /\ \A x \in Socket : x # u => udt'[x] = udt[x]
          /\ udt'[u].opened = udt[u].opened /\ udt'[u].listening = udt[u].listening
          /\ udt'[u].connected = udt[u].connected
          /\ udt'[u].connecting = udt[u].connecting /\ udt'[u].onList = udt[u].onList
      BY <3>1 DEF Safe, Core, Shape
    <3> QED
      BY <3>2, <3>3, <3>4
  <2>3. ASSUME NEW u \in Socket, WorkerForget(m, u)
        PROVE  /\ \A x \in Socket : x # u => udt'[x] = udt[x]
               /\ udt'[u].opened = udt[u].opened /\ udt'[u].listening = udt[u].listening
               /\ udt'[u].connected = udt[u].connected
               /\ udt'[u].connecting => udt[u].connecting
               /\ udt'[u].onList => udt[u].onList
               /\ udt'[u].broken => udt[u].broken
    BY <2>3 DEF WorkerForget, Rest, Safe, Core, Shape
  <2> QED
    BY <2>1, <2>2, <2>3
<1>3. Blank'
  BY <1>1, <1>2 DEF Safe, Parts, Blank
<1>4. Handed'
  <2>1. ASSUME NEW k \in Socket, worker[k].pc \in {"insert", "enqueue"} PROVE ~udt'[worker[k].ns].broken
    <3>1. worker[k].ns \in Socket /\ sock[worker[k].ns].mux = k /\ ~udt[worker[k].ns].broken
      BY <2>1 DEF Safe, Parts, Handed
    <3> QED
      BY <1>2, <2>1, <3>1
  <2> QED
    BY <1>1, <2>1 DEF Safe, Parts, Handed
<1>5. Callers'
  BY <1>1, CallersSame DEF Safe, Parts
<1>6. Locks'
  <2>1. \A s \in Threads : app[s].pc \in LockPcs => app[s].u \in Socket
    BY DEF Safe, Core, Shape, LockPcs
  <2> QED
    BY <1>1, <1>2, <2>1 DEF Safe, Parts, Locks, LockPcs
<1>7. Statuses'
  <2>1. ASSUME NEW u \in Socket PROVE Flagged(u)'
    <3>1. (SocketLockFree(u)' <=> SocketLockFree(u)) /\ Flagged(u)
      BY <1>1 DEF SocketLockFree, Safe, Parts, Statuses
    <3>2. CASE u = v
      BY <1>1, <1>2, <3>1, <3>2 DEF Flagged
    <3>3. CASE u # v
      BY <1>1, <1>2, <3>1, <3>3 DEF Flagged
    <3> QED
      BY <3>2, <3>3
  <2> QED
    BY <2>1 DEF Statuses
<1>8. Listeners'
  BY <1>1, <1>2 DEF Safe, Parts, Listeners, Core, Shape
<1>9. BoundPorts'
  BY <1>1 DEF Safe, Parts, BoundPorts, Bound
<1>10. Counted'
  BY <1>1, SameUsers DEF Safe, Parts
<1>11. Requests'
  <2>1. ASSUME NEW k \in Socket, NEW u \in Socket, Asker(k, u) PROVE Asker(k, u)'
    BY <1>1, <1>2, <2>1 DEF Asker
  <2> QED
    BY <1>1, <2>1, SameRequests DEF Safe, Parts
<1>12. Listed'
  <2>1. \A u \in Socket : (Asks(u)' => Asks(u)) /\ (udt'[u].onList => udt[u].onList)
    BY <1>1, <1>2 DEF Asks, HasRequest
  <2>2. \A s \in Threads : app[s].pc = "erase" => app[s].u \in Socket
    BY DEF Safe, Core, Shape
  <2>3. \A s \in Threads : (app[s].pc = "erase" => ~Asks(app[s].u))'
    BY <1>1, <2>1, <2>2 DEF Safe, Parts, Listed
  <2> QED
    BY <1>1, <2>1, <2>3 DEF Safe, Parts, Listed, Done, Core, Todo
<1> QED
  BY <1>3, <1>4, <1>5, <1>6, <1>7, <1>8, <1>9, <1>10, <1>11, <1>12 DEF Parts

\* Requests get old, or go with their port.
LEMMA OnlyRequests ==
    ASSUME Safe, Thinned(connectors'), UNCHANGED <<sock, udt, queued, mux, app, worker>>, gc'.todo = gc.todo
    PROVE  Parts'
<1>1. Blank' /\ Listeners' /\ Handed'
  BY DEF Safe, Parts, Blank, Listeners, Handed
<1>2. Callers'
  BY DEF Safe, Parts, Callers, Released
<1>3. Locks' /\ Statuses'
  BY DEF Safe, Parts, Locks, LockPcs, Statuses, Flagged, SocketLockFree
<1>4. BoundPorts'
  BY DEF Safe, Parts, BoundPorts, Bound
<1>5. Counted'
  BY SameUsers DEF Safe, Parts
<1>6. Requests'
  BY ThinnedRequests DEF Safe, Parts, Asker
<1>7. Listed'
  <2>1. \A u \in Socket : Asks(u)' => Asks(u)
    BY NoNewAsks
  <2>2. \A s \in Threads : app[s].pc = "erase" => app[s].u \in Socket
    BY DEF Safe, Core, Shape
  <2>3. \A s \in Threads : (app[s].pc = "erase" => ~Asks(app[s].u))'
    BY <2>1, <2>2 DEF Safe, Parts, Listed
  <2>4. \A u \in Socket : Done(u)' <=> Done(u)
    BY DEF Done
  <2> QED
    BY <2>1, <2>3, <2>4 DEF Safe, Parts, Listed
<1> QED
  BY <1>1, <1>2, <1>3, <1>4, <1>5, <1>6, <1>7 DEF Parts

LEMMA GcJoinSafe == ASSUME Safe, GcJoin PROVE Parts'
<1>1. UNCHANGED <<sock, udt, queued, mux, app, worker>> /\ gc'.todo = gc.todo
  BY DEF GcJoin, Safe, Core, Shape
<1>2. Thinned(connectors')
  <2>1. connectors \in [Socket -> Seq(Request)] /\ connectors' = [connectors EXCEPT ![gc.mux] = <<>>]
    BY DEF GcJoin, Safe, Parts, Requests
  <2>2. \A u \in Socket : ~In(u, <<>>) /\ Single(<<>>, u)
    BY DEF In, Single
  <2>3. connectors' \in [Socket -> Seq(Request)]
    <3> DEFINE none == <<>>
    <3>1. none \in Seq(Request) /\ connectors' = [connectors EXCEPT ![gc.mux] = none]
      BY <2>1
    <3> HIDE DEF none
    <3> QED
      BY <2>1, <3>1
  <2>4. \A k \in Socket : connectors'[k] = connectors[k] \/ connectors'[k] = <<>>
    BY <2>1
  <2> QED
    BY <2>2, <2>3, <2>4 DEF Thinned
<1> QED
  BY <1>1, <1>2, OnlyRequests

LEMMA RequestTimesOutSafe == ASSUME Safe, NEW m \in Socket, RequestTimesOut(m) PROVE Parts'
<1>1. UNCHANGED <<sock, udt, queued, mux, app, worker, gc>>
  BY DEF RequestTimesOut
<1>2. Thinned(connectors')
  <2>1. PICK i \in DOMAIN connectors[m] : connectors' = [connectors EXCEPT ![m][i].old = TRUE]
    BY DEF RequestTimesOut
  <2> DEFINE q == connectors[m]
             c == [q EXCEPT ![i].old = TRUE]
  <2>2. connectors \in [Socket -> Seq(Request)] /\ q \in Seq(Request)
    BY DEF Safe, Parts, Requests
  <2>3. i \in 1 .. Len(q) /\ q[i] \in Request
    BY <2>2
  <2>4. [q[i] EXCEPT !.old = TRUE] \in Request /\ [q[i] EXCEPT !.old = TRUE].u = q[i].u
    BY <2>3 DEF Request
  <2>5. c \in Seq(Request) /\ DOMAIN c = DOMAIN q
    BY <2>2, <2>3, <2>4
  <2>6. \A j \in DOMAIN q : c[j].u = q[j].u
    BY <2>4
  <2>7. connectors' = [connectors EXCEPT ![m] = c]
    BY <2>1
  <2> HIDE DEF c
  <2>8. /\ connectors' \in [Socket -> Seq(Request)] /\ connectors'[m] = c
        /\ \A k \in Socket : k # m => connectors'[k] = connectors[k]
    BY <2>2, <2>5, <2>7
  <2>9. \A u \in Socket : (In(u, c) => In(u, q)) /\ (Single(q, u) => Single(c, u))
    BY <2>5, <2>6 DEF In, Single
  <2> QED
    BY <2>8, <2>9 DEF Thinned
<1> QED
  BY <1>1, <1>2, OnlyRequests

LEMMA NothingHappens == ASSUME Safe, UNCHANGED socketsVars PROVE Parts'
<1>1. Thinned(connectors')
  BY Whole DEF socketsVars, Safe, Parts, Requests
<1> QED
  BY <1>1, OnlyRequests DEF socketsVars

\* A second is longer than any call but those that wait, and these are for a socket that is open.
LEMMA SecondsPassSafe == ASSUME Safe, NEW v \in Socket, SecondsPass(v) PROVE Parts'
<1>1. UNCHANGED <<made, udt, queued, mux, connectors, app, worker, gc>> /\ Waits
  BY DEF SecondsPass
<1>2. /\ \A u \in Socket : u # v => sock'[u] = sock[u]
      /\ sock'[v].place = sock[v].place /\ sock'[v].status = sock[v].status /\ sock'[v].peer = sock[v].peer
      /\ sock'[v].mux = sock[v].mux /\ sock'[v].known = sock[v].known /\ sock'[v].tries = sock[v].tries
      /\ sock'[v].old
  BY DEF SecondsPass, Safe, Core, Shape
<1>3. \A u \in Socket : /\ sock'[u].place = sock[u].place /\ sock'[u].status = sock[u].status
                        /\ sock'[u].peer = sock[u].peer /\ sock'[u].mux = sock[u].mux
                        /\ sock'[u].known = sock[u].known /\ sock'[u].tries = sock[u].tries
  BY <1>2
<1>4. Blank'
  BY <1>1, <1>3 DEF Safe, Parts, Blank
<1>5. Handed'
  <2>1. \A l \in Socket : queued[l] \subseteq Socket
    BY DEF Safe, Core, Shape
  <2> QED
    BY <1>1, <1>3, <2>1 DEF Safe, Parts, Handed
<1>6. Callers'
  <2>1. ASSUME sock[v].place = "closed" PROVE Released(v)
    <3>1. ASSUME NEW s \in Threads PROVE app[s].u # v /\ app[s].pc # "accepted"
      <4>1. CASE app[s].pc = "idle"
        BY <4>1, Nonzero DEF Safe, Parts, Callers
      <4>2. CASE app[s].pc = "wait"
        <5>1. app[s].u \in Socket
          BY <4>2 DEF Safe, Core, Shape
        <5>2. sock[app[s].u].status = "LISTENING"
          BY <4>2, <5>1 DEF Safe, WaitersAreWoken
        <5>3. sock[app[s].u].place = "sockets"
          BY <5>1, <5>2 DEF Safe, Core, Kinds
        <5> QED
          BY <2>1, <4>2, <5>3
      <4>3. CASE app[s].pc = "connecting"
        BY <2>1, <4>3 DEF Safe, Parts, Locks
      <4> QED
        BY <1>1, <4>1, <4>2, <4>3 DEF Waits
    <3>2. \A k \in Socket : worker[k].ns # v
      BY <1>1, Nonzero DEF Waits, Safe, Parts, Callers
    <3> QED
      BY <3>1, <3>2 DEF Released
  <2>2. \A u \in Socket : Released(u)' <=> Released(u)
    BY <1>1 DEF Released
  <2>3. \A u \in Socket : sock'[u].place = "closed" /\ sock'[u].old => Released(u)'
    BY <1>2, <2>1, <2>2 DEF Safe, Parts, Callers
  <2>4. \A u \in gc'.todo : sock'[u].old
    BY <1>1, <1>2 DEF Safe, Parts, Callers, Core, Todo
  <2>5. \A s \in Threads : app[s].pc # "idle" => app[s].u \in Socket
    BY DEF Safe, Core, Shape
  <2> QED
    BY <1>1, <1>3, <2>3, <2>4, <2>5 DEF Safe, Parts, Callers
<1>7. Locks'
  <2>1. \A s \in Threads : app[s].pc \in LockPcs => app[s].u \in Socket
    BY DEF Safe, Core, Shape, LockPcs
  <2> QED
    BY <1>1, <1>3, <2>1 DEF Safe, Parts, Locks, LockPcs
<1>8. Statuses'
  BY <1>1, <1>3 DEF Safe, Parts, Statuses, Flagged, SocketLockFree
<1>9. Listeners'
  BY <1>1, <1>3 DEF Safe, Parts, Listeners, Core, Shape
<1>10. BoundPorts'
  <2>1. \A k \in Socket : Bound(k) => Bound(k)'
    BY <1>3 DEF Bound
  <2> QED
    BY <1>1, <1>3, <2>1 DEF Safe, Parts, BoundPorts
<1>11. Counted'
  BY <1>1, <1>3, SameUsers DEF Safe, Parts
<1>12. Requests'
  <2>1. ASSUME NEW k \in Socket, NEW u \in Socket, Asker(k, u) PROVE Asker(k, u)'
    BY <1>1, <1>3, <2>1 DEF Asker
  <2> QED
    BY <1>1, <1>3, <2>1, SameRequests DEF Safe, Parts
<1>13. Listed'
  BY <1>1, <1>3 DEF Safe, Parts, Listed, Asks, HasRequest, Done, Core, Shape
<1> QED
  BY <1>4, <1>5, <1>6, <1>7, <1>8, <1>9, <1>10, <1>11, <1>12, <1>13 DEF Parts

LEMMA GcScanSafe == ASSUME Safe, NEW over \in SUBSET Socket, GcScan(over) PROVE Parts'
<1> DEFINE broken == {u \in Socket : sock[u].place = "sockets" /\ udt[u].broken}
           patient == {u \in broken : sock[u].status # "LISTENING" /\ udt[u].patience > 0}
           closes == {u \in broken \ patient : sock[u].status = "LISTENING" => sock[u].old}
<1>1. UNCHANGED <<made, mux, connectors, app, worker>>
  BY DEF GcScan
<1>2. /\ sock' = [u \in Socket |->
                     IF u \in closes THEN [sock[u] EXCEPT !.status = "CLOSED", !.place = "closed", !.old = FALSE]
                     ELSE IF u \in over THEN [sock[u] EXCEPT !.old = FALSE] ELSE sock[u]]
      /\ udt' = [u \in Socket |->
                    IF u \in over THEN [udt[u] EXCEPT !.lingers = FALSE, !.closing = TRUE]
                    ELSE IF u \in patient THEN [udt[u] EXCEPT !.patience = @ - 1] ELSE udt[u]]
      /\ queued' = [l \in Socket |-> queued[l] \ closes]
  BY DEF GcScan
<1>3. gc'.todo = {u \in Socket : Finished(u, sock'[u])}
  BY DEF GcScan, Safe, Core, Shape
<1>4. \A u \in closes : u \in Socket /\ sock[u].place = "sockets" /\ udt[u].broken
  OBVIOUS
<1> HIDE DEF broken, patient, closes
<1>5. \A u \in Socket :
         /\ sock'[u].peer = sock[u].peer /\ sock'[u].mux = sock[u].mux /\ sock'[u].known = sock[u].known
         /\ sock'[u].tries = sock[u].tries
         /\ u \in closes => sock'[u].place = "closed" /\ ~sock'[u].old
         /\ u \notin closes => /\ sock'[u].place = sock[u].place /\ sock'[u].status = sock[u].status
                               /\ sock'[u].old => sock[u].old
  <2> SUFFICES ASSUME NEW u \in Socket
               PROVE  /\ sock'[u].peer = sock[u].peer /\ sock'[u].mux = sock[u].mux
                      /\ sock'[u].known = sock[u].known /\ sock'[u].tries = sock[u].tries
                      /\ u \in closes => sock'[u].place = "closed" /\ ~sock'[u].old
                      /\ u \notin closes => /\ sock'[u].place = sock[u].place /\ sock'[u].status = sock[u].status
                                            /\ sock'[u].old => sock[u].old
    OBVIOUS
  <2>1. sock'[u] = IF u \in closes THEN [sock[u] EXCEPT !.status = "CLOSED", !.place = "closed", !.old = FALSE]
                   ELSE IF u \in over THEN [sock[u] EXCEPT !.old = FALSE] ELSE sock[u]
    BY <1>2
  <2>2. DOMAIN sock[u] = SockFields
    BY DEF Safe, Core, Shape, SockFields
  <2> QED
    BY <2>1, <2>2 DEF SockFields
<1>6. \A u \in Socket :
         /\ udt'[u].opened = udt[u].opened /\ udt'[u].listening = udt[u].listening
         /\ udt'[u].connecting = udt[u].connecting /\ udt'[u].connected = udt[u].connected
         /\ udt'[u].broken = udt[u].broken /\ udt'[u].onList = udt[u].onList
  <2> SUFFICES ASSUME NEW u \in Socket
               PROVE  /\ udt'[u].opened = udt[u].opened /\ udt'[u].listening = udt[u].listening
                      /\ udt'[u].connecting = udt[u].connecting /\ udt'[u].connected = udt[u].connected
                      /\ udt'[u].broken = udt[u].broken /\ udt'[u].onList = udt[u].onList
    OBVIOUS
  <2>1. udt'[u] = IF u \in over THEN [udt[u] EXCEPT !.lingers = FALSE, !.closing = TRUE]
                  ELSE IF u \in patient THEN [udt[u] EXCEPT !.patience = @ - 1] ELSE udt[u]
    BY <1>2
  <2>2. DOMAIN udt[u] = {"opened", "listening", "connecting", "connected", "refused",
                         "closing", "broken", "onList", "patience", "lingers"}
    BY DEF Safe, Core, Shape
  <2> QED
    BY <2>1, <2>2
<1>7. \A l \in Socket : queued'[l] = queued[l] \ closes /\ queued[l] \subseteq Socket
  BY <1>2 DEF Safe, Core, Shape
<1>8. \A u \in gc'.todo : u \in Socket /\ sock'[u].place = "closed" /\ sock'[u].old /\ ~udt[u].onList
  BY <1>3 DEF Finished
<1>9. Blank'
  BY <1>4, <1>5, <1>6 DEF Safe, Parts, Blank
<1>10. Handed'
  BY <1>1, <1>4, <1>5, <1>6, <1>7 DEF Safe, Parts, Handed
<1>11. Callers'
  <2>1. \A s \in Threads : app[s].pc # "idle" => app[s].u \in Socket
    BY DEF Safe, Core, Shape
  <2>2. \A u \in gc'.todo : sock'[u].old
    BY <1>8
  <2>3. \A u \in Socket : /\ sock[u].known => sock'[u].known
                          /\ sock[u].place \in {"sockets", "closed"} => sock'[u].place \in {"sockets", "closed"}
                          /\ sock[u].place # "removed" => sock'[u].place # "removed"
                          /\ sock'[u].place = "closed" /\ sock'[u].old => sock[u].place = "closed" /\ sock[u].old
    BY <1>4, <1>5
  <2> QED
    BY <1>1, <2>1, <2>2, <2>3, CallersStep DEF Safe, Parts
<1>12. Locks'
  <2>1. \A s \in Threads : app[s].pc \in LockPcs => app[s].u \in Socket
    BY DEF Safe, Core, Shape, LockPcs
  <2> QED
    BY <1>1, <1>4, <1>5, <1>6, <2>1 DEF Safe, Parts, Locks, LockPcs
<1>13. Statuses'
  <2>1. ASSUME NEW u \in Socket PROVE Flagged(u)'
    <3>1. (SocketLockFree(u)' <=> SocketLockFree(u)) /\ Flagged(u)
      BY <1>1 DEF SocketLockFree, Safe, Parts, Statuses
    <3>2. CASE u \in closes
      BY <1>4, <1>5, <1>6, <3>1, <3>2 DEF Flagged
    <3>3. CASE u \notin closes
      BY <1>5, <1>6, <3>1, <3>3 DEF Flagged
    <3> QED
      BY <3>2, <3>3
  <2> QED
    BY <2>1 DEF Statuses
<1>14. Listeners'
  <2>1. \A u \in Socket : sock[u].place \in {"sockets", "closed"} => sock'[u].place \in {"sockets", "closed"}
    BY <1>5
  <2> QED
    BY <1>1, <1>5, <1>6, <2>1 DEF Safe, Parts, Listeners, Core, Shape
<1>15. BoundPorts'
  <2>1. \A k \in Socket : Bound(k) => Bound(k)'
    BY <1>5 DEF Bound
  <2> QED
    BY <1>1, <1>5, <2>1 DEF Safe, Parts, BoundPorts
<1>16. Counted'
  BY <1>1, <1>4, <1>5, SameUsers DEF Safe, Parts
<1>17. Requests'
  <2>1. ASSUME NEW k \in Socket, NEW u \in Socket, Asker(k, u) PROVE Asker(k, u)'
    BY <1>4, <1>5, <1>6, <2>1 DEF Asker
  <2> QED
    BY <1>1, <1>5, <2>1, SameRequests DEF Safe, Parts
<1>18. Listed'
  <2>1. \A u \in Socket : Asks(u)' <=> Asks(u)
    BY <1>1, <1>5, <1>6 DEF Asks, HasRequest
  <2>2. \A s \in Threads : app[s].pc = "erase" => app[s].u \in Socket
    BY DEF Safe, Core, Shape
  <2>3. \A s \in Threads : (app[s].pc = "erase" => ~Asks(app[s].u))'
    BY <1>1, <2>1, <2>2 DEF Safe, Parts, Listed
  <2>4. \A u \in closes : ~Asks(u)
    BY <1>4 DEF Asks, Safe, Parts, Statuses, Flagged
  <2>5. \A u \in Socket : Done(u)' => ~Asks(u)'
    BY <1>5, <2>1, <2>4 DEF Done, Safe, Parts, Listed
  <2>6. \A u \in Socket : (sock'[u].place = "removed" \/ u \in gc'.todo) /\ sock'[u].tries <= 1 => ~udt'[u].onList
    BY <1>5, <1>6, <1>8 DEF Safe, Parts, Listed
  <2> QED
    BY <1>5, <2>3, <2>5, <2>6 DEF Safe, Parts, Listed
<1> QED
  BY <1>9, <1>10, <1>11, <1>12, <1>13, <1>14, <1>15, <1>16, <1>17, <1>18 DEF Parts

\* removeSocket: nobody refers to the socket any more, and those in its queue were given to nobody.
LEMMA GcRemoveSafe == ASSUME Safe, NEW v \in Socket, GcRemove(v) PROVE Parts'
<1> DEFINE m == sock[v].mux
           drops == queued[v]
           port == removeListener(mux[m], IF udt[v].opened THEN {v} ELSE {})
<1>1. /\ UNCHANGED <<made, app, worker>> /\ v \in gc.todo /\ gc'.todo = gc.todo \ {v}
      /\ queued' = [queued EXCEPT ![v] = {}]
      /\ connectors' = IF m # 0 /\ udt[v].opened THEN Without(m, v) ELSE connectors
      /\ mux' = IF m = 0 THEN mux ELSE [mux EXCEPT ![m] = [port EXCEPT !.refs = @ - 1]]
  BY DEF GcRemove, Safe, Core, Shape
<1>2. /\ sock' = [n \in Socket |->
                     IF n = v THEN [CUDTSocket EXCEPT !.place = "removed", !.tries = sock[v].tries]
                     ELSE IF n \in drops
                     THEN [sock[n] EXCEPT !.place = "closed", !.status = "CLOSED", !.old = FALSE] ELSE sock[n]]
      /\ udt' = [n \in Socket |-> IF n = v THEN [CUDT EXCEPT !.onList = udt[v].onList]
                                  ELSE IF n \in drops THEN [Shut(n) EXCEPT !.broken = TRUE] ELSE udt[n]]
  BY DEF GcRemove
<1>3. sock[v].place = "closed" /\ Released(v)
  BY <1>1 DEF Safe, Core, Todo, Parts, Callers
<1>4. \A n \in drops :
         /\ n \in Socket /\ n # v /\ sock[n].place = "sockets" /\ ~sock[n].known /\ sock[n].peer # 0
         /\ \A k \in Socket : n \in queued[k] => k = v
  BY <1>3 DEF Safe, Core, Shape, Parts, Handed
<1>5. \A n \in drops : ~udt[n].connecting /\ ~udt[n].listening
  BY <1>4 DEF Safe, Core, Kinds, Parts, Statuses, Flagged
<1>6. m # 0 => m \in Socket /\ Bound(m)
  BY DEF Safe, Parts, BoundPorts
<1> HIDE DEF m, drops, port
<1>7. /\ sock'[v].place = "removed" /\ sock'[v].peer = 0 /\ sock'[v].mux = 0 /\ sock'[v].tries = sock[v].tries
      /\ ~udt'[v].listening /\ ~udt'[v].connecting /\ udt'[v].onList = udt[v].onList
  <2>1. /\ sock'[v] = [CUDTSocket EXCEPT !.place = "removed", !.tries = sock[v].tries]
        /\ udt'[v] = [CUDT EXCEPT !.onList = udt[v].onList]
    BY <1>2
  <2>2. sock'[v].place = "removed" /\ sock'[v].peer = 0 /\ sock'[v].mux = 0 /\ sock'[v].tries = sock[v].tries
    BY <2>1 DEF CUDTSocket
  <2>3. ~udt'[v].listening /\ ~udt'[v].connecting /\ udt'[v].onList = udt[v].onList
    BY <2>1 DEF CUDT
  <2> QED
    BY <2>2, <2>3
<1>8. \A n \in drops :
         /\ sock'[n].place = "closed" /\ ~sock'[n].old /\ sock'[n].peer = sock[n].peer
         /\ sock'[n].mux = sock[n].mux /\ sock'[n].known = sock[n].known /\ sock'[n].tries = sock[n].tries
         /\ udt'[n].connecting = udt[n].connecting /\ udt'[n].onList = udt[n].onList
         /\ ~udt'[n].listening
  <2> SUFFICES ASSUME NEW n \in drops
               PROVE  /\ sock'[n].place = "closed" /\ ~sock'[n].old /\ sock'[n].peer = sock[n].peer
                      /\ sock'[n].mux = sock[n].mux /\ sock'[n].known = sock[n].known
                      /\ sock'[n].tries = sock[n].tries
                      /\ udt'[n].connecting = udt[n].connecting /\ udt'[n].onList = udt[n].onList
                      /\ ~udt'[n].listening
    OBVIOUS
  <2>1. /\ sock'[n] = [sock[n] EXCEPT !.place = "closed", !.status = "CLOSED", !.old = FALSE]
        /\ udt'[n] = [Shut(n) EXCEPT !.broken = TRUE]
    BY <1>2, <1>4
  <2>2. DOMAIN sock[n] = SockFields
    BY <1>4 DEF Safe, Core, Shape, SockFields
  <2>3. /\ sock'[n].place = "closed" /\ ~sock'[n].old /\ sock'[n].peer = sock[n].peer
        /\ sock'[n].mux = sock[n].mux /\ sock'[n].known = sock[n].known /\ sock'[n].tries = sock[n].tries
    BY <2>1, <2>2 DEF SockFields
  <2>4. /\ udt'[n].connecting = Shut(n).connecting /\ udt'[n].onList = Shut(n).onList
        /\ udt'[n].listening = Shut(n).listening
    <3>1. {"connecting", "onList", "listening"} \subseteq DOMAIN Shut(n)
      BY <1>4, ShutIs DEF Safe, Core, Shape
    <3> QED
      BY <2>1, <3>1
  <2>5. Shut(n).connecting = udt[n].connecting /\ Shut(n).onList = udt[n].onList /\ ~Shut(n).listening
    BY <1>4, <1>5, ShutIs DEF Safe, Core
  <2> QED
    BY <2>3, <2>4, <2>5
<1>9. \A u \in Socket : u # v /\ u \notin drops => sock'[u] = sock[u] /\ udt'[u] = udt[u]
  BY <1>2
<1>10. \A l \in Socket : queued'[l] = IF l = v THEN {} ELSE queued[l]
  BY <1>1 DEF Safe, Core, Shape
<1>11. \A k \in Socket : /\ k # m => mux'[k] = mux[k]
                         /\ k = m => /\ mux'[k].refs = mux[k].refs - 1
                                     /\ mux'[k].listener \in {0, mux[k].listener}
                                     /\ mux'[k].listener = v => ~udt[v].opened
  <2> SUFFICES ASSUME NEW k \in Socket
               PROVE  /\ k # m => mux'[k] = mux[k]
                      /\ k = m => /\ mux'[k].refs = mux[k].refs - 1
                                  /\ mux'[k].listener \in {0, mux[k].listener}
                                  /\ mux'[k].listener = v => ~udt[v].opened
    OBVIOUS
  <2>1. k # m => mux'[k] = mux[k]
    BY <1>1
  <2>2. ASSUME m \in Socket PROVE /\ mux'[m].refs = mux[m].refs - 1
                                  /\ mux'[m].listener \in {0, mux[m].listener}
                                  /\ mux'[m].listener = v => ~udt[v].opened
    <3>1. mux' = [mux EXCEPT ![m] = [port EXCEPT !.refs = @ - 1]]
      BY <1>1, <2>2, Nonzero
    <3>2. DOMAIN mux[m] = {"refs", "listener", "given"}
      BY <2>2 DEF Safe, Core, Shape
    <3>3. /\ DOMAIN port = {"refs", "listener", "given"} /\ port.refs = mux[m].refs
          /\ port.listener \in {0, mux[m].listener} /\ (port.listener = v => ~udt[v].opened)
      BY <3>2, Nonzero DEF removeListener, port
    <3>4. mux'[m] = [port EXCEPT !.refs = @ - 1]
      BY <2>2, <3>1 DEF Safe, Core, Shape
    <3> QED
      BY <3>3, <3>4
  <2> QED
    BY <2>1, <2>2
<1>12. Thinned(connectors')
  <2>1. connectors \in [Socket -> Seq(Request)]
    BY DEF Safe, Parts, Requests
  <2> QED
    BY <1>1, <2>1, Whole, WithoutThins
<1>13. Blank'
  BY <1>7, <1>8, <1>9 DEF Safe, Parts, Blank
<1>14. Handed'
  <2>1. ASSUME NEW l \in Socket, NEW n \in queued'[l]
        PROVE  /\ n \in Socket /\ sock'[n].place = "sockets" /\ ~sock'[n].known /\ sock'[n].peer # 0
               /\ \A k \in Socket : n \in queued'[k] => k = l
    <3>1. l # v /\ n \in queued[l] /\ n \in Socket
      BY <1>10, <2>1 DEF Safe, Core, Shape
    <3>2. n # v /\ n \notin drops
      BY <1>3, <1>4, <3>1 DEF Safe, Parts, Handed
    <3> QED
      BY <1>9, <1>10, <3>1, <3>2 DEF Safe, Parts, Handed
  <2>2. \A k \in Socket : worker[k].pc \in {"insert", "enqueue"} =>
           /\ worker[k].ns \in Socket /\ worker[k].ns # v /\ worker[k].ns \notin drops
           /\ \A l \in Socket : worker[k].ns \notin queued[l]
    BY <1>3 DEF Safe, Parts, Handed, Released, drops
  <2>3. \A s \in Threads : app[s].pc = "accepted" =>
           /\ app[s].got \in Socket /\ app[s].got # v /\ app[s].got \notin drops
           /\ \A l \in Socket : app[s].got \notin queued[l]
    BY <1>3 DEF Safe, Parts, Handed, Released, drops
  <2> QED
    BY <1>1, <1>9, <1>10, <2>1, <2>2, <2>3 DEF Safe, Parts, Handed
<1>15. \A s \in Threads : app[s].pc # "idle" => app[s].u \in Socket /\ app[s].u # v /\ app[s].u \notin drops
  BY <1>3, <1>4 DEF Safe, Core, Shape, Parts, Callers, Released
<1>16. Callers'
  <2>1. \A s \in Threads : IF app[s].pc = "idle" THEN app[s].u = 0
                           ELSE sock'[app[s].u].known /\ sock'[app[s].u].place \in {"sockets", "closed"}
    BY <1>9, <1>15 DEF Safe, Parts, Callers
  <2>2. \A k \in Socket : /\ worker[k].pc = "idle" => worker[k].ns = 0
                          /\ worker[k].ns # 0 => worker[k].ns \in Socket /\ sock'[worker[k].ns].place # "removed"
    BY <1>3, <1>8, <1>9 DEF Safe, Parts, Callers, Released
  <2>3. ASSUME NEW u \in Socket, sock'[u].place = "closed" /\ sock'[u].old PROVE Released(u)'
    <3>1. Released(u)
      BY <1>7, <1>8, <1>9, <2>3 DEF Safe, Parts, Callers
    <3> QED
      BY <1>1, <3>1 DEF Released
  <2>4. \A u \in gc'.todo : sock'[u].old
    BY <1>1, <1>4, <1>9 DEF Safe, Core, Todo, Parts, Callers
  <2> QED
    BY <1>1, <2>1, <2>2, <2>3, <2>4 DEF Callers
<1>17. Locks'
  <2>1. \A s \in Threads : app[s].pc \in LockPcs => app[s].u \in Socket /\ app[s].u # v /\ app[s].u \notin drops
    BY <1>15 DEF LockPcs
  <2> QED
    BY <1>1, <1>9, <2>1 DEF Safe, Parts, Locks, LockPcs
<1>18. Statuses'
  <2>1. Flagged(v)'
    BY <1>7 DEF Flagged
  <2>2. ASSUME NEW u \in drops PROVE Flagged(u)'
    BY <1>5, <1>8 DEF Flagged
  <2>3. ASSUME NEW u \in Socket, u # v, u \notin drops PROVE Flagged(u)'
    BY <1>1, <1>9, <2>3 DEF Safe, Parts, Statuses, Flagged, SocketLockFree
  <2> QED
    BY <2>1, <2>2, <2>3 DEF Statuses
<1>19. Listeners'
  <2> SUFFICES ASSUME NEW k \in Socket, mux'[k].listener # 0
               PROVE  LET u == mux'[k].listener
                      IN  sock'[u].mux = k /\ udt'[u].opened /\ udt'[u].listening
                          /\ sock'[u].place \in {"sockets", "closed"}
    BY DEF Listeners
  <2>1. PICK u \in Socket : u = mux[k].listener /\ u = mux'[k].listener
    BY <1>11 DEF Safe, Core, Shape
  <2>2. sock[u].mux = k /\ udt[u].opened /\ udt[u].listening /\ sock[u].place \in {"sockets", "closed"}
    BY <2>1, Nonzero DEF Safe, Parts, Listeners
  <2>3. u # v
    BY <1>11, <2>1, <2>2 DEF m
  <2> QED
    BY <1>5, <1>9, <2>1, <2>2, <2>3
<1>20. BoundPorts'
  <2>1. \A k \in Socket : Bound(k) => Bound(k)'
    BY <1>7, <1>8, <1>9 DEF Bound
  <2>2. \A k \in Socket : mux'[k].refs # 0 => k = m \/ mux[k].refs # 0
    BY <1>11
  <2>3. \A u \in Socket : sock'[u].mux # 0 => sock'[u].mux = sock[u].mux
    BY <1>7, <1>8, <1>9
  <2> QED
    BY <1>1, <1>6, <2>1, <2>2, <2>3, Nonzero DEF Safe, Parts, BoundPorts
<1>21. Counted'
  <2>1. \A u \in Socket : u # v => /\ sock'[u].mux = sock[u].mux
                                   /\ sock'[u].place = "removed" <=> sock[u].place = "removed"
    BY <1>4, <1>8, <1>9
  <2>2. \A k \in Socket : Users(k)' = IF k = m THEN Users(k) \ {v} ELSE Users(k)
    BY <1>3, <1>7, <2>1 DEF Users, m
  <2>3. m \in Socket => v \in Users(m)
    BY <1>3 DEF Users, m
  <2>4. m \in Socket => Cardinality(Users(m) \ {v}) = Cardinality(Users(m)) - 1
    BY <2>3, FiniteUsers, FS_RemoveElement
  <2> QED
    BY <1>11, <2>2, <2>4 DEF Counted, Safe, Parts
<1>22. Requests'
  <2>1. \A u \in Socket : sock'[u].tries = sock[u].tries
    BY <1>7, <1>8, <1>9
  <2>2. ASSUME NEW k \in Socket, NEW u \in Socket, In(u, connectors'[k]), Asker(k, u) PROVE Asker(k, u)'
    <3>1. CASE u = v
      <4>1. sock[v].tries # 1
        <5> SUFFICES ASSUME sock[v].tries = 1 PROVE FALSE
          OBVIOUS
        <5>1. m = k /\ udt[v].opened /\ Single(connectors[k], v)
          BY <2>2, <3>1 DEF Asker, Safe, Parts, Requests, m
        <5>2. connectors' = Without(k, v)
          BY <1>1, <5>1, Nonzero
        <5>3. connectors \in [Socket -> Seq(Request)]
          BY DEF Safe, Parts, Requests
        <5> QED
          BY <2>2, <3>1, <5>1, <5>2, <5>3, WithoutIs
      <4> QED
        BY <1>7, <2>2, <3>1, <4>1 DEF Asker
    <3>2. CASE u # v
      <4>1. u \notin drops
        BY <1>4, <2>2 DEF Asker
      <4> QED
        BY <1>9, <2>2, <3>2, <4>1 DEF Asker
    <3> QED
      BY <3>1, <3>2
  <2> QED
    BY <1>12, <2>1, <2>2, ThinnedRequests DEF Safe, Parts
<1>23. Listed'
  <2>1. \A u \in Socket : sock'[u].tries = sock[u].tries
    BY <1>7, <1>8, <1>9
  <2>2. \A u \in Socket : Asks(u)' => Asks(u)
    <3>1. \A u \in Socket : udt'[u].connecting => udt[u].connecting
      BY <1>7, <1>8, <1>9
    <3> QED
      BY <1>12, <2>1, <3>1, NoNewAsks
  <2>3. \A u \in drops : ~Asks(u)
    BY <1>5 DEF Asks
  <2>4. \A u \in Socket : Done(u)' => Done(u) \/ u \in drops
    BY <1>3, <1>9 DEF Done
  <2>5. \A u \in Socket : Done(u)' => ~Asks(u)'
    BY <2>2, <2>3, <2>4 DEF Safe, Parts, Listed
  <2>6. \A s \in Threads : (app[s].pc = "erase" => ~Asks(app[s].u))'
    BY <1>1, <1>15, <2>2 DEF Safe, Parts, Listed
  <2>7. \A u \in Socket : /\ udt'[u].onList = udt[u].onList
                          /\ sock'[u].place = "removed" => u = v \/ sock[u].place = "removed"
    BY <1>7, <1>8, <1>9
  <2>8. \A u \in Socket : (sock'[u].place = "removed" \/ u \in gc'.todo) /\ sock'[u].tries <= 1 => ~udt'[u].onList
    BY <1>1, <2>1, <2>7 DEF Safe, Parts, Listed
  <2> QED
    BY <2>1, <2>5, <2>6, <2>8 DEF Safe, Parts, Listed
<1> QED
  BY <1>13, <1>14, <1>16, <1>17, <1>18, <1>19, <1>20, <1>21, <1>22, <1>23 DEF Parts

LEMMA RemovalInit == SocketsInit => Removal
<1> SUFFICES ASSUME SocketsInit PROVE Parts
  BY DEF Removal
<1>1. \A u \in Socket : sock[u] = CUDTSocket /\ udt[u] = CUDT
  BY DEF SocketsInit
<1>2. \A u \in Socket :
         /\ sock[u].place = "none" /\ sock[u].status = "INIT" /\ sock[u].peer = 0 /\ sock[u].mux = 0
         /\ ~sock[u].known /\ sock[u].tries = 0
         /\ ~udt[u].opened /\ ~udt[u].listening /\ ~udt[u].connecting /\ ~udt[u].connected /\ ~udt[u].broken
         /\ ~udt[u].onList
  BY <1>1 DEF CUDTSocket, CUDT
<1>3. /\ \A l \in Socket : /\ queued[l] = {} /\ mux[l].refs = 0 /\ mux[l].listener = 0 /\ connectors[l] = <<>>
                           /\ worker[l].pc = "idle" /\ worker[l].ns = 0
      /\ \A t \in Threads : app[t].pc = "idle" /\ app[t].u = 0
      /\ gc.todo = {} /\ connectors = [m \in Socket |-> <<>>]
  BY DEF SocketsInit
<1>4. Blank /\ Handed /\ Callers /\ Locks /\ Listeners /\ BoundPorts
  BY <1>2, <1>3 DEF Blank, Handed, Callers, Locks, LockPcs, Listeners, BoundPorts
<1>5. Statuses
  BY <1>2 DEF Statuses, Flagged
<1>6. Counted
  <2>1. \A m \in Socket : Users(m) = {}
    BY <1>2, Nonzero DEF Users
  <2> QED
    BY <1>3, <2>1, FS_EmptySet DEF Counted
<1>7. Requests
  <2>1. \A u \in Socket : ~In(u, <<>>)
    BY DEF In
  <2>2. connectors \in [Socket -> Seq(Request)]
    BY <1>3
  <2> QED
    BY <1>2, <1>3, <2>1, <2>2 DEF Requests
<1>8. Listed
  BY <1>2, <1>3 DEF Listed, Asks, Done
<1> QED
  BY <1>4, <1>5, <1>6, <1>7, <1>8 DEF Parts

\* Only cleanup stops the collector.
LEMMA StopIsCleanup ==
    ASSUME Core, [SocketsNext]_socketsVars, ~gc'.stop
    PROVE  ~gc.stop /\ ~cleanup
<1>1. ~cleanup
  BY DEF cleanup, Stop, Core, Shape
<1>2. gc'.stop = gc.stop
  <2>1. CASE ApplicationNext
    <3> SUFFICES ASSUME NEW t \in Threads, ~(gc' = gc),
                        \/ newSocket(t) \/ AcceptTry(t) \/ AcceptEnd(t) \/ ConnectEnd(t) \/ ConnectFails(t)
                        \/ CloseEnd(t)
                        \/ \E u \in Socket : bind(t, u) \/ listen(t, u) \/ AcceptBegin(t, u) \/ CloseBegin(t, u)
                        \/ \E u \in Socket, async \in BOOLEAN : ConnectBegin(t, u, async)
                        \/ \E refused \in BOOLEAN : ConnectAnswered(t, refused)
                        \/ \E lingers \in BOOLEAN : CloseUdt(t, lingers)
                 PROVE  FALSE
      BY <2>1 DEF ApplicationNext
    <3>1. ~(newSocket(t) \/ AcceptTry(t) \/ AcceptEnd(t) \/ ConnectEnd(t) \/ ConnectFails(t) \/ CloseEnd(t))
      BY DEF newSocket, AcceptTry, AcceptEnd, ConnectEnd, ConnectFails, CloseEnd
    <3>2. \A u \in Socket : ~(bind(t, u) \/ listen(t, u) \/ AcceptBegin(t, u) \/ CloseBegin(t, u))
      BY DEF bind, listen, AcceptBegin, CloseBegin
    <3>3. \A u \in Socket, async \in BOOLEAN : ~ConnectBegin(t, u, async)
      BY DEF ConnectBegin
    <3>4. \A refused \in BOOLEAN : ~ConnectAnswered(t, refused)
      BY DEF ConnectAnswered
    <3>5. \A lingers \in BOOLEAN : ~CloseUdt(t, lingers)
      BY DEF CloseUdt
    <3> QED
      BY <3>1, <3>2, <3>3, <3>4, <3>5
  <2>2. CASE WorkerNext
    BY <2>2 DEF WorkerNext, WorkerStep, WorkerLocate, WorkerCreate, WorkerInsert, WorkerEnqueue, WorkerSignal,
         WorkerConnectEnd, WorkerExpires, WorkerListen, WorkerConnect, WorkerBreak, WorkerForget
  <2>3. CASE CollectorNext
    <3>1. CASE GcJoin
      BY <3>1 DEF GcJoin, Core, Shape
    <3>2. ASSUME NEW u \in Socket, GcRemove(u) PROVE gc'.stop = gc.stop
      BY <3>2 DEF GcRemove, Core, Shape
    <3>3. ASSUME NEW over \in SUBSET Socket, GcScan(over) PROVE gc'.stop = gc.stop
      BY <3>3 DEF GcScan, Core, Shape
    <3> QED
      BY <1>1, <2>3, <3>1, <3>2, <3>3 DEF CollectorNext
  <2>4. CASE TimeNext
    BY <2>4 DEF TimeNext, SecondsPass, RequestTimesOut
  <2>5. CASE UNCHANGED socketsVars
    BY <2>5 DEF socketsVars
  <2> QED
    BY <2>1, <2>2, <2>3, <2>4, <2>5 DEF SocketsNext
<1> QED
  BY <1>1, <1>2

LEMMA RemovalStep == Core /\ WaitersAreWoken /\ Removal /\ [SocketsNext]_socketsVars => Removal'
<1> SUFFICES ASSUME Core, WaitersAreWoken, Removal, [SocketsNext]_socketsVars, ~gc'.stop PROVE Parts'
  BY DEF Removal
<1>1. Safe /\ ~cleanup
  BY StopIsCleanup DEF Removal, Safe
<1>2. ASSUME ApplicationNext PROVE Parts'
  BY <1>1, <1>2, newSocketSafe, AcceptTrySafe, AcceptEndSafe, ConnectReturnsSafe, CloseEndSafe, bindSafe, listenSafe,
     AcceptBeginSafe, CloseBeginSafe, ConnectBeginSafe, ConnectAnsweredSafe, CloseUdtSafe DEF ApplicationNext
<1>3. ASSUME WorkerNext PROVE Parts'
  BY <1>1, <1>3, WorkerLocateSafe, WorkerCreateSafe, WorkerInsertSafe, WorkerEnqueueSafe, WorkerSignalSafe,
     WorkerConnectEndSafe, WorkerFlagsSafe, WorkerListenSafe, WorkerConnectSafe DEF WorkerNext, WorkerStep
<1>4. ASSUME CollectorNext PROVE Parts'
  BY <1>1, <1>4, GcJoinSafe, GcRemoveSafe, GcScanSafe DEF CollectorNext
<1>5. ASSUME TimeNext PROVE Parts'
  BY <1>1, <1>5, SecondsPassSafe, RequestTimesOutSafe DEF TimeNext
<1>6. ASSUME UNCHANGED socketsVars PROVE Parts'
  BY <1>1, <1>6, NothingHappens
<1> QED
  BY <1>2, <1>3, <1>4, <1>5, <1>6 DEF SocketsNext

-----------------------------------------------------------------------------
\* The fourth part: a worker has nothing in hand that the collector could delete.
Gone(u) == sock[u].place = "removed" \/ (sock[u].place = "closed" /\ sock[u].old)

Holds(m) == ~Gone(worker[m].u)
Carried == \A m \in Socket : InHand(m) => Holds(m)
CarriedRemoval == ~gc.stop => Carried

\* What becomes of a socket that was not gone: it goes when a second passes, while no worker is busy.
Lasts(u) == /\ Gone(u)' => Gone(u)
            /\ sock'[u].tries <= 1 => sock[u].tries <= 1
AllLast == \A u \in Socket : Lasts(u)

LEMMA LastsAsIs ==
    ASSUME NEW u \in Socket, sock'[u].place = sock[u].place, sock'[u].old = sock[u].old, sock'[u].tries = sock[u].tries
    PROVE  Lasts(u)
BY DEF Lasts, Gone

LEMMA LastsYoung ==
    ASSUME NEW u \in Socket, sock'[u].place # "removed", sock'[u].place = "closed" => ~sock'[u].old,
           sock'[u].tries = sock[u].tries
    PROVE  Lasts(u)
BY DEF Lasts, Gone

LEMMA LastByCalls == ASSUME Safe, ApplicationNext PROVE AllLast
<1> USE DEF AllLast
<1>0. /\ DOMAIN sock = Socket
      /\ \A u \in Socket : {"place", "status", "mux", "known", "async", "old", "tries"} \subseteq DOMAIN sock[u]
      /\ \A t \in Threads : app[t].pc # "idle" => app[t].u \in Socket
      /\ made + 1 \in Socket => sock[made + 1].place = "none"
  <2>1. made + 1 \in Socket => made + 1 > made
    BY Numbers DEF Safe, Core
  <2>2. \A u \in Socket : u > made => sock[u].place = "none"
    BY DEF Safe, Core, Fresh
  <2> QED
    BY <2>1, <2>2 DEF Safe, Core, Shape
<1>1. PICK t \in Threads :
        \/ newSocket(t) \/ AcceptTry(t) \/ AcceptEnd(t) \/ ConnectEnd(t) \/ ConnectFails(t) \/ CloseEnd(t)
        \/ \E u \in Socket : bind(t, u) \/ listen(t, u) \/ AcceptBegin(t, u) \/ CloseBegin(t, u)
        \/ \E u \in Socket, async \in BOOLEAN : ConnectBegin(t, u, async)
        \/ \E refused \in BOOLEAN : ConnectAnswered(t, refused)
        \/ \E lingers \in BOOLEAN : CloseUdt(t, lingers)
  BY DEF ApplicationNext
<1>2. ASSUME UNCHANGED sock PROVE AllLast
  BY <1>2, LastsAsIs
<1>3. CASE newSocket(t)
  <2>1. /\ sock' = [sock EXCEPT ![made + 1] = [@ EXCEPT !.place = "sockets", !.known = TRUE]]
    BY <1>3 DEF newSocket
  <2> SUFFICES ASSUME NEW u \in Socket PROVE Lasts(u)
    OBVIOUS
  <2>2. CASE u = made + 1
    <3>1. sock'[u] = [sock[u] EXCEPT !.place = "sockets", !.known = TRUE]
      BY <1>0, <2>1, <2>2
    <3>2. sock'[u].place = "sockets" /\ sock'[u].tries = sock[u].tries
      BY <1>0, <3>1
    <3> QED
      BY <3>2, LastsYoung
  <2>3. CASE u # made + 1
    BY <2>1, <2>3, LastsAsIs
  <2> QED
    BY <2>2, <2>3
<1>4. CASE AcceptTry(t)
  BY <1>2, <1>4 DEF AcceptTry
<1>5. CASE AcceptEnd(t)
  <2>1. sock' = [sock EXCEPT ![app[t].got].known = TRUE]
    BY <1>5 DEF AcceptEnd
  <2>2. \A u \in Socket : /\ sock'[u].place = sock[u].place /\ sock'[u].old = sock[u].old
                          /\ sock'[u].tries = sock[u].tries
    BY <1>0, <2>1
  <2> QED
    BY <2>2, LastsAsIs
<1>6. CASE ConnectEnd(t)
  <2>1. PICK x : sock' = [sock EXCEPT ![app[t].u].status = x]
    BY <1>6 DEF ConnectEnd
  <2>2. \A u \in Socket : /\ sock'[u].place = sock[u].place /\ sock'[u].old = sock[u].old
                          /\ sock'[u].tries = sock[u].tries
    BY <1>0, <2>1
  <2> QED
    BY <2>2, LastsAsIs
<1>7. CASE ConnectFails(t)
  <2>1. sock' = [sock EXCEPT ![app[t].u].status = "OPENED"]
    BY <1>7 DEF ConnectFails
  <2>2. \A u \in Socket : /\ sock'[u].place = sock[u].place /\ sock'[u].old = sock[u].old
                          /\ sock'[u].tries = sock[u].tries
    BY <1>0, <2>1
  <2> QED
    BY <2>2, LastsAsIs
<1>8. CASE CloseEnd(t)
  <2> DEFINE v == app[t].u
  <2>1. /\ v \in Socket
        /\ \/ sock' = [sock EXCEPT ![v] = [@ EXCEPT !.status = "CLOSED", !.place = "closed", !.old = FALSE]]
           \/ UNCHANGED sock
    BY <1>0, <1>8 DEF CloseEnd
  <2> HIDE DEF v
  <2>2. ASSUME sock' = [sock EXCEPT ![v] = [@ EXCEPT !.status = "CLOSED", !.place = "closed", !.old = FALSE]],
               NEW u \in Socket
        PROVE  Lasts(u)
    <3>1. CASE u = v
      <4>1. sock'[u] = [sock[u] EXCEPT !.status = "CLOSED", !.place = "closed", !.old = FALSE]
        BY <1>0, <2>2, <3>1
      <4>2. sock'[u].place = "closed" /\ ~sock'[u].old /\ sock'[u].tries = sock[u].tries
        BY <1>0, <4>1
      <4> QED
        BY <4>2, LastsYoung
    <3>2. CASE u # v
      <4>1. sock'[u] = sock[u]
        BY <1>0, <2>2, <3>2
      <4> QED
        BY <4>1, LastsAsIs
    <3> QED
      BY <3>1, <3>2
  <2> QED
    BY <1>2, <2>1, <2>2
<1>9. ASSUME NEW v \in Socket, bind(t, v) PROVE AllLast
  <2>1. PICK m : sock' = [sock EXCEPT ![v] = [@ EXCEPT !.status = "OPENED", !.mux = m]]
    BY <1>9 DEF bind
  <2>2. \A u \in Socket : /\ sock'[u].place = sock[u].place /\ sock'[u].old = sock[u].old
                          /\ sock'[u].tries = sock[u].tries
    BY <1>0, <2>1
  <2> QED
    BY <2>2, LastsAsIs
<1>10. ASSUME NEW v \in Socket, listen(t, v) PROVE AllLast
  <2>1. sock' = [sock EXCEPT ![v].status = "LISTENING"]
    BY <1>10 DEF listen
  <2>2. \A u \in Socket : /\ sock'[u].place = sock[u].place /\ sock'[u].old = sock[u].old
                          /\ sock'[u].tries = sock[u].tries
    BY <1>0, <2>1
  <2> QED
    BY <2>2, LastsAsIs
<1>11. ASSUME NEW v \in Socket, AcceptBegin(t, v) PROVE AllLast
  BY <1>2, <1>11 DEF AcceptBegin
<1>12. ASSUME NEW v \in Socket, CloseBegin(t, v) PROVE AllLast
  <2>1. Located(v) /\ (sock' = [sock EXCEPT ![v].old = FALSE] \/ UNCHANGED sock)
    BY <1>12 DEF CloseBegin, Calls
  <2>2. ASSUME sock' = [sock EXCEPT ![v].old = FALSE], NEW u \in Socket PROVE Lasts(u)
    <3>1. /\ sock'[u].place = sock[u].place /\ sock'[u].tries = sock[u].tries
          /\ IF u = v THEN ~sock'[u].old /\ sock[u].place = "sockets" ELSE sock'[u].old = sock[u].old
      BY <1>0, <2>1, <2>2 DEF Located
    <3> QED
      BY <3>1 DEF Lasts, Gone
  <2> QED
    BY <1>2, <2>1, <2>2
<1>13. ASSUME NEW v \in Socket, NEW async \in BOOLEAN, ConnectBegin(t, v, async) PROVE AllLast
  <2>1. PICK m : sock' = [sock EXCEPT ![v] = [sock[v] EXCEPT !.status = "CONNECTING", !.mux = m, !.async = async,
                                                            !.tries = @ + 1]]
    BY <1>13 DEF ConnectBegin
  <2>2. \A u \in Socket : /\ sock'[u].place = sock[u].place /\ sock'[u].old = sock[u].old
                          /\ sock'[u].tries \in {sock[u].tries, sock[u].tries + 1}
    <3> SUFFICES ASSUME NEW u \in Socket
                 PROVE  /\ sock'[u].place = sock[u].place /\ sock'[u].old = sock[u].old
                        /\ sock'[u].tries \in {sock[u].tries, sock[u].tries + 1}
      OBVIOUS
    <3>1. CASE u = v
      <4>1. sock'[u] = [sock[u] EXCEPT !.status = "CONNECTING", !.mux = m, !.async = async, !.tries = @ + 1]
        BY <1>0, <2>1, <3>1
      <4> QED
        BY <1>0, <4>1
    <3>2. CASE u # v
      BY <2>1, <3>2
    <3> QED
      BY <3>1, <3>2
  <2>3. \A u \in Socket : sock[u].tries \in Nat
    BY DEF Safe, Parts, Listed
  <2>4. \A u \in Socket : sock'[u].tries <= 1 => sock[u].tries <= 1
    BY <2>2, <2>3
  <2> QED
    BY <2>2, <2>4 DEF Lasts, Gone
<1>14. ASSUME NEW refused \in BOOLEAN, ConnectAnswered(t, refused) PROVE AllLast
  BY <1>2, <1>14 DEF ConnectAnswered
<1>15. ASSUME NEW lingers \in BOOLEAN, CloseUdt(t, lingers) PROVE AllLast
  BY <1>2, <1>15 DEF CloseUdt
<1> HIDE DEF AllLast
<1> QED
  BY <1>1, <1>3, <1>4, <1>5, <1>6, <1>7, <1>8, <1>9, <1>10, <1>11, <1>12, <1>13, <1>14, <1>15

LEMMA LastByWorker == ASSUME Safe, WorkerNext PROVE AllLast
<1> USE DEF AllLast
<1>0. /\ DOMAIN sock = Socket
      /\ \A u \in Socket : {"place", "status", "peer", "mux", "old", "tries"} \subseteq DOMAIN sock[u]
  BY DEF Safe, Core, Shape
<1>1. PICK m \in Socket :
        \/ WorkerStep(m) \/ WorkerExpires(m)
        \/ \E p \in Peers : WorkerListen(m, p)
        \/ \E u \in Socket, refused \in BOOLEAN : WorkerConnect(m, u, refused)
        \/ \E u \in Socket, patience \in 0 .. 1 : WorkerBreak(m, u, patience)
        \/ \E u \in Socket : WorkerForget(m, u)
  BY DEF WorkerNext
<1>2. ASSUME UNCHANGED sock PROVE AllLast
  BY <1>2, LastsAsIs
<1>3. CASE WorkerLocate(m)
  <2> DEFINE broken == {n \in Newest(Known(worker[m].peer)) : udt[n].broken}
  <2>1. \/ UNCHANGED sock
        \/ sock' = [n \in Socket |-> IF n \in broken THEN [sock[n] EXCEPT !.status = "CLOSED", !.old = FALSE]
                                     ELSE sock[n]]
    BY <1>3 DEF WorkerLocate
  <2>2. \A n \in broken : sock[n].place = "sockets"
    BY DEF Newest, Known
  <2> HIDE DEF broken
  <2>3. ASSUME sock' = [n \in Socket |-> IF n \in broken THEN [sock[n] EXCEPT !.status = "CLOSED", !.old = FALSE]
                                        ELSE sock[n]],
               NEW u \in Socket
        PROVE  Lasts(u)
    <3>1. CASE u \in broken
      <4>1. sock'[u] = [sock[u] EXCEPT !.status = "CLOSED", !.old = FALSE]
        BY <2>3, <3>1
      <4>2. sock'[u].place = "sockets" /\ sock'[u].tries = sock[u].tries
        BY <1>0, <2>2, <3>1, <4>1
      <4> QED
        BY <4>2, LastsYoung
    <3>2. CASE u \notin broken
      BY <2>3, <3>2, LastsAsIs
    <3> QED
      BY <3>1, <3>2
  <2> QED
    BY <1>2, <2>1, <2>3
<1>4. CASE WorkerCreate(m)
  <2>1. \/ UNCHANGED sock
        \/ sock' = [sock EXCEPT ![made + 1] = [@ EXCEPT !.status = "CONNECTED", !.peer = worker[m].peer, !.mux = m]]
    BY <1>4 DEF WorkerCreate
  <2>2. ASSUME sock' = [sock EXCEPT ![made + 1] = [@ EXCEPT !.status = "CONNECTED", !.peer = worker[m].peer,
                                                            !.mux = m]],
               NEW u \in Socket
        PROVE  Lasts(u)
    <3>1. CASE u = made + 1
      <4>1. sock'[u] = [sock[u] EXCEPT !.status = "CONNECTED", !.peer = worker[m].peer, !.mux = m]
        BY <1>0, <2>2, <3>1
      <4>2. sock'[u].place = sock[u].place /\ sock'[u].old = sock[u].old /\ sock'[u].tries = sock[u].tries
        BY <1>0, <4>1
      <4> QED
        BY <4>2, LastsAsIs
    <3>2. CASE u # made + 1
      <4>1. sock'[u] = sock[u]
        BY <1>0, <2>2, <3>2
      <4> QED
        BY <4>1, LastsAsIs
    <3> QED
      BY <3>1, <3>2
  <2> QED
    BY <1>2, <2>1, <2>2
<1>5. CASE WorkerInsert(m)
  <2>1. sock' = [sock EXCEPT ![worker[m].ns].place = "sockets"]
    BY <1>5 DEF WorkerInsert
  <2>2. \A u \in Socket : /\ sock'[u].place \in {sock[u].place, "sockets"} /\ sock'[u].old = sock[u].old
                          /\ sock'[u].tries = sock[u].tries
    BY <1>0, <2>1
  <2> QED
    BY <2>2 DEF Lasts, Gone
<1>6. CASE WorkerEnqueue(m)
  BY <1>2, <1>6 DEF WorkerEnqueue
<1>7. CASE WorkerSignal(m)
  BY <1>2, <1>7 DEF WorkerSignal
<1>8. CASE WorkerConnectEnd(m)
  <2>1. sock' = [sock EXCEPT ![worker[m].u].status = "CONNECTED"] \/ UNCHANGED sock
    BY <1>8 DEF WorkerConnectEnd
  <2>2. \A u \in Socket : /\ sock'[u].place = sock[u].place /\ sock'[u].old = sock[u].old
                          /\ sock'[u].tries = sock[u].tries
    BY <1>0, <2>1
  <2> QED
    BY <2>2, LastsAsIs
<1>9. CASE WorkerExpires(m)
  BY <1>2, <1>9 DEF WorkerExpires
<1>10. ASSUME NEW p \in Peers, WorkerListen(m, p) PROVE AllLast
  BY <1>2, <1>10 DEF WorkerListen
<1>11. ASSUME NEW u \in Socket, NEW refused \in BOOLEAN, WorkerConnect(m, u, refused) PROVE AllLast
  BY <1>2, <1>11 DEF WorkerConnect
<1>12. ASSUME NEW u \in Socket, NEW patience \in 0 .. 1, WorkerBreak(m, u, patience) PROVE AllLast
  BY <1>2, <1>12 DEF WorkerBreak
<1>13. ASSUME NEW u \in Socket, WorkerForget(m, u) PROVE AllLast
  BY <1>2, <1>13 DEF WorkerForget
<1> HIDE DEF AllLast
<1> QED
  BY <1>1, <1>3, <1>4, <1>5, <1>6, <1>7, <1>8, <1>9, <1>10, <1>11, <1>12, <1>13 DEF WorkerStep

LEMMA LastByCollector == ASSUME Safe, CollectorNext, ~cleanup PROVE AllLast
<1> USE DEF AllLast
<1>0. \A u \in Socket : {"place", "status", "old", "tries"} \subseteq DOMAIN sock[u]
  BY DEF Safe, Core, Shape
<1>1. CASE GcJoin
  <2>1. UNCHANGED sock
    BY <1>1 DEF GcJoin
  <2> QED
    BY <2>1, LastsAsIs
<1>2. ASSUME NEW v \in Socket, GcRemove(v) PROVE AllLast
  <2> DEFINE drops == queued[v]
  <2>1. sock' = [n \in Socket |->
                   IF n = v THEN [CUDTSocket EXCEPT !.place = "removed", !.tries = sock[v].tries]
                   ELSE IF n \in drops
                   THEN [sock[n] EXCEPT !.place = "closed", !.status = "CLOSED", !.old = FALSE] ELSE sock[n]]
    BY <1>2 DEF GcRemove
  <2>2. Gone(v)
    BY <1>2 DEF GcRemove, Gone, Safe, Core, Todo, Parts, Callers
  <2> HIDE DEF drops
  <2>3. ASSUME NEW u \in Socket PROVE Lasts(u)
    <3>1. CASE u = v
      <4>1. sock'[u] = [CUDTSocket EXCEPT !.place = "removed", !.tries = sock[v].tries]
        BY <2>1, <3>1
      <4>2. sock'[u].tries = sock[u].tries
        BY <3>1, <4>1 DEF CUDTSocket
      <4> QED
        BY <2>2, <3>1, <4>2 DEF Lasts
    <3>2. CASE u # v /\ u \in drops
      <4>1. sock'[u] = [sock[u] EXCEPT !.place = "closed", !.status = "CLOSED", !.old = FALSE]
        BY <2>1, <3>2
      <4>2. sock'[u].place = "closed" /\ ~sock'[u].old /\ sock'[u].tries = sock[u].tries
        BY <1>0, <4>1
      <4> QED
        BY <4>2, LastsYoung
    <3>3. CASE u # v /\ u \notin drops
      BY <2>1, <3>3, LastsAsIs
    <3> QED
      BY <3>1, <3>2, <3>3
  <2> QED
    BY <2>3
<1>3. ASSUME NEW over \in SUBSET Socket, GcScan(over) PROVE AllLast
  <2> DEFINE broken == {u \in Socket : sock[u].place = "sockets" /\ udt[u].broken}
             patient == {u \in broken : sock[u].status # "LISTENING" /\ udt[u].patience > 0}
             closes == {u \in broken \ patient : sock[u].status = "LISTENING" => sock[u].old}
  <2>1. sock' = [u \in Socket |->
                   IF u \in closes THEN [sock[u] EXCEPT !.status = "CLOSED", !.place = "closed", !.old = FALSE]
                   ELSE IF u \in over THEN [sock[u] EXCEPT !.old = FALSE] ELSE sock[u]]
    BY <1>3 DEF GcScan
  <2> HIDE DEF closes
  <2>2. ASSUME NEW u \in Socket PROVE Lasts(u)
    <3>1. CASE u \in closes
      <4>1. sock'[u] = [sock[u] EXCEPT !.status = "CLOSED", !.place = "closed", !.old = FALSE]
        BY <2>1, <3>1
      <4>2. sock'[u].place = "closed" /\ ~sock'[u].old /\ sock'[u].tries = sock[u].tries
        BY <1>0, <4>1
      <4> QED
        BY <4>2, LastsYoung
    <3>2. CASE u \notin closes /\ u \in over
      <4>1. sock'[u] = [sock[u] EXCEPT !.old = FALSE]
        BY <2>1, <3>2
      <4>2. sock'[u].place = sock[u].place /\ ~sock'[u].old /\ sock'[u].tries = sock[u].tries
        BY <1>0, <4>1
      <4> QED
        BY <4>2 DEF Lasts, Gone
    <3>3. CASE u \notin closes /\ u \notin over
      BY <2>1, <3>3, LastsAsIs
    <3> QED
      BY <3>1, <3>2, <3>3
  <2> QED
    BY <2>2
<1> HIDE DEF AllLast
<1> QED
  BY <1>1, <1>2, <1>3 DEF CollectorNext

LEMMA CarriedWhileResting == ASSUME Waits, UNCHANGED worker PROVE Carried'
BY DEF Waits, Carried, InHand

\* As long as the workers have in hand what they had, it lasts.
LEMMA CarriedOn ==
    ASSUME Safe, Carried, AllLast, NEW m \in Socket, InHand(m)',
           worker'[m].u = worker[m].u,
           worker'[m].pc \in {"create", "insert", "enqueue", "signal"} =>
              worker[m].pc \in {"create", "insert", "enqueue", "signal"},
           worker'[m].pc = "complete" => worker[m].pc = "complete"
    PROVE  Holds(m)'
<1>1. worker[m].u \in Socket
  BY DEF InHand, Safe, Core, Shape
<1>2. Lasts(worker[m].u)
  BY <1>1 DEF AllLast
<1>3. InHand(m)
  BY <1>2 DEF InHand, Lasts
<1>4. ~Gone(worker[m].u)
  BY <1>3 DEF Carried, Holds
<1>5. PICK v \in Socket : worker'[m].u = v /\ ~Gone(v) /\ Lasts(v)
  BY <1>1, <1>2, <1>4
<1> QED
  BY <1>5 DEF Lasts, Gone, Holds

LEMMA CarriedSame == ASSUME Safe, Carried, AllLast, UNCHANGED worker PROVE Carried'
<1> SUFFICES ASSUME NEW m \in Socket, InHand(m)' PROVE Holds(m)'
  BY DEF Carried
<1> QED
  BY CarriedOn

LEMMA CarriedByWorker == ASSUME Safe, Carried, AllLast, WorkerNext PROVE Carried'
<1>0. DOMAIN worker = Socket /\ \A m \in Socket : {"pc", "u", "ns"} \subseteq DOMAIN worker[m]
  BY DEF Safe, Core, Shape
<1>1. PICK m \in Socket :
        \/ WorkerStep(m) \/ WorkerExpires(m)
        \/ \E p \in Peers : WorkerListen(m, p)
        \/ \E u \in Socket, refused \in BOOLEAN : WorkerConnect(m, u, refused)
        \/ \E u \in Socket, patience \in 0 .. 1 : WorkerBreak(m, u, patience)
        \/ \E u \in Socket : WorkerForget(m, u)
  BY DEF WorkerNext
<1>2. \/ UNCHANGED worker
      \/ WorkerStep(m)
      \/ \E p \in Peers : WorkerListen(m, p)
      \/ \E u \in Socket, refused \in BOOLEAN : WorkerConnect(m, u, refused)
  BY <1>1 DEF WorkerExpires, WorkerBreak, WorkerForget
<1>3. ASSUME NEW k \in Socket, k # m, InHand(k)' PROVE Holds(k)'
  <2>1. worker'[k] = worker[k]
    BY <1>0, <1>2, <1>3 DEF WorkerStep, WorkerLocate, WorkerCreate, WorkerInsert, WorkerEnqueue, WorkerSignal,
       WorkerConnectEnd, WorkerListen, WorkerConnect
  <2> QED
    BY <1>3, <2>1, CarriedOn
<1>4. ASSUME InHand(m)' PROVE Holds(m)'
  <2>1. CASE UNCHANGED worker
    BY <1>4, <2>1, CarriedOn
  <2>2. ASSUME WorkerLocate(m), worker'[m].pc = "create" PROVE Holds(m)'
    <3>1. /\ worker[m].pc = "listen"
          /\ \/ worker' = [worker EXCEPT ![m] = Rest]
             \/ Located(worker[m].u) /\ worker' = [worker EXCEPT ![m].pc = "create"]
      BY <2>2 DEF WorkerLocate
    <3>2. Located(worker[m].u) /\ worker'[m].u = worker[m].u
      BY <1>0, <2>2, <3>1 DEF Rest
    <3>3. PICK v \in Socket : ~Gone(v) /\ worker'[m].u = v
      BY <3>1, <3>2 DEF Safe, Core, Shape, Located, Gone
    <3>4. Lasts(v)
      BY <3>3 DEF AllLast
    <3> QED
      BY <3>3, <3>4 DEF Lasts, Gone, Holds
  <2>3. ASSUME NEW v \in Socket, NEW refused \in BOOLEAN, WorkerConnect(m, v, refused) PROVE Holds(m)'
    <3>1. /\ In(v, connectors[m]) /\ udt[v].connecting /\ UNCHANGED sock
          /\ worker'[m].pc = "complete" /\ worker'[m].u = v
      BY <1>0, <2>3 DEF WorkerConnect, In, Rest
    <3>2. sock[v].tries <= 1
      BY <1>4, <3>1 DEF InHand
    <3>3. ~Done(v)
      BY <3>1, <3>2 DEF Safe, Parts, Listed, Asks, HasRequest
    <3> QED
      BY <3>1, <3>3 DEF Done, Gone, Holds
  <2>4. CASE \E p \in Peers : WorkerListen(m, p)
    <3>1. worker'[m].pc = "listen"
      BY <1>0, <2>4 DEF WorkerListen, Rest
    <3> QED
      BY <1>4, <3>1 DEF InHand
  <2>5. ASSUME WorkerStep(m), ~(WorkerLocate(m) /\ worker'[m].pc = "create") PROVE Holds(m)'
    <3>1. \/ worker'[m].pc \in {"idle", "terminated"}
          \/ /\ worker'[m].u = worker[m].u /\ worker'[m].pc # "complete"
             /\ worker[m].pc \in {"create", "insert", "enqueue", "signal"}
      <4>1. CASE WorkerLocate(m)
        <5>1. \/ worker' = [worker EXCEPT ![m] = Rest]
              \/ worker' = [worker EXCEPT ![m].pc = "create"]
          BY <4>1 DEF WorkerLocate
        <5> QED
          BY <1>0, <2>5, <4>1, <5>1 DEF Rest
      <4>2. CASE WorkerCreate(m)
        <5>1. \/ worker' = [worker EXCEPT ![m] = Rest]
              \/ worker' = [worker EXCEPT ![m] = [@ EXCEPT !.pc = "insert", !.ns = made + 1]]
          BY <4>2 DEF WorkerCreate
        <5>2. worker[m].pc = "create"
          BY <4>2 DEF WorkerCreate
        <5>3. ASSUME worker' = [worker EXCEPT ![m] = [@ EXCEPT !.pc = "insert", !.ns = made + 1]]
              PROVE  worker'[m].u = worker[m].u /\ worker'[m].pc = "insert"
          <6>1. worker'[m] = [worker[m] EXCEPT !.pc = "insert", !.ns = made + 1]
            BY <1>0, <5>3
          <6> QED
            BY <1>0, <6>1
        <5>4. ASSUME worker' = [worker EXCEPT ![m] = Rest] PROVE worker'[m].pc = "idle"
          BY <1>0, <5>4 DEF Rest
        <5> QED
          BY <5>1, <5>2, <5>3, <5>4
      <4>3. CASE WorkerInsert(m) \/ WorkerEnqueue(m) \/ WorkerSignal(m)
        BY <1>0, <4>3 DEF WorkerInsert, WorkerEnqueue, WorkerSignal, Rest
      <4>4. CASE WorkerConnectEnd(m)
        BY <1>0, <4>4 DEF WorkerConnectEnd, Rest
      <4> QED
        BY <2>5, <4>1, <4>2, <4>3, <4>4 DEF WorkerStep
    <3>2. worker'[m].pc \notin {"idle", "terminated"}
      BY <1>4 DEF InHand
    <3> QED
      BY <1>4, <3>1, <3>2, CarriedOn
  <2> QED
    BY <1>2, <2>1, <2>2, <2>3, <2>4, <2>5
<1> QED
  BY <1>3, <1>4 DEF Carried

LEMMA CarriedStep ==
    Core /\ WaitersAreWoken /\ Removal /\ CarriedRemoval /\ [SocketsNext]_socketsVars => CarriedRemoval'
<1> SUFFICES ASSUME Core, WaitersAreWoken, Removal, CarriedRemoval, [SocketsNext]_socketsVars, ~gc'.stop
             PROVE  Carried'
  BY DEF CarriedRemoval
<1>1. Safe /\ Carried /\ ~cleanup
  BY StopIsCleanup DEF Removal, CarriedRemoval, Safe
<1>2. ASSUME ApplicationNext PROVE Carried'
  <2>1. UNCHANGED worker
    BY <1>2 DEF ApplicationNext, newSocket, AcceptTry, AcceptEnd, ConnectEnd, ConnectFails, CloseEnd, bind, listen,
       AcceptBegin, CloseBegin, ConnectBegin, ConnectAnswered, CloseUdt
  <2> QED
    BY <1>1, <1>2, <2>1, LastByCalls, CarriedSame
<1>3. ASSUME WorkerNext PROVE Carried'
  BY <1>1, <1>3, LastByWorker, CarriedByWorker
<1>4. ASSUME CollectorNext PROVE Carried'
  <2>1. UNCHANGED worker
    BY <1>1, <1>4 DEF CollectorNext, GcJoin, GcRemove, GcScan
  <2> QED
    BY <1>1, <1>4, <2>1, LastByCollector, CarriedSame
<1>5. ASSUME TimeNext PROVE Carried'
  <2>1. UNCHANGED worker /\ Waits
    BY <1>5 DEF TimeNext, SecondsPass, RequestTimesOut
  <2> QED
    BY <2>1, CarriedWhileResting
<1>6. ASSUME UNCHANGED socketsVars PROVE Carried'
  BY <1>1, <1>6 DEF Carried, InHand, Holds, Gone, socketsVars
<1> QED
  BY <1>2, <1>3, <1>4, <1>5, <1>6 DEF SocketsNext

LEMMA RemovedIsUnusedState == Core /\ Removal /\ CarriedRemoval => NobodyUsesRemoved
<1> SUFFICES ASSUME Core, Parts, Carried PROVE NobodyUsesRemoved
  BY DEF Removal, CarriedRemoval, NobodyUsesRemoved
<1>1. \A t \in Threads : app[t].u # 0 => sock[app[t].u].place # "removed"
  BY DEF Parts, Callers
<1>2. \A m \in Socket : worker[m].ns # 0 => sock[worker[m].ns].place # "removed"
  BY DEF Parts, Callers
<1>3. \A m \in Socket : mux[m].listener # 0 => sock[mux[m].listener].place # "removed"
  BY DEF Parts, Listeners
<1>4. \A m \in Socket : mux[m].refs = Cardinality({u \in Socket : sock[u].mux = m /\ sock[u].place # "removed"})
  BY DEF Parts, Counted, Users
<1>5. ASSUME NEW m \in Socket, NEW i \in DOMAIN connectors[m], sock[connectors[m][i].u].tries = 1
      PROVE  sock[connectors[m][i].u].place # "removed"
  <2>1. connectors[m] \in Seq(Request)
    BY DEF Parts, Requests
  <2>2. connectors[m][i] \in Request
    BY <2>1
  <2>3. connectors[m][i].u \in Socket /\ In(connectors[m][i].u, connectors[m])
    BY <2>2 DEF Request, In
  <2> QED
    BY <1>5, <2>3 DEF Parts, Requests, Asker
<1>6. \A u \in Socket : sock[u].place = "removed" /\ sock[u].tries <= 1 => ~udt[u].onList
  BY DEF Parts, Listed
<1>7. \A l \in Socket : \A n \in queued[l] : sock[n].place = "sockets"
  BY DEF Parts, Handed
<1>8. \A m \in Socket : InHand(m) => sock[worker[m].u].place # "removed"
  BY DEF Carried, Holds, Gone
<1> QED
  BY <1>1, <1>2, <1>3, <1>4, <1>5, <1>6, <1>7, <1>8 DEF NobodyUsesRemoved

\* Until the process cleans up, no call under way, no worker with a connection in its hands or with the listener
\* it has located, no listener or request of a port and no list of its worker refers to a socket that the
\* collector has deleted; a listener's queue holds open connections only, and a port is counted once for each
\* socket that uses it.  (Nothing is said of m_pListener between the worker's reading it and newConnection.)
THEOREM RemovedIsUnused == SocketsSpec => []NobodyUsesRemoved
<1> DEFINE IInv == Core /\ WaitersAreWoken /\ Removal /\ CarriedRemoval
<1>1. SocketsInit => IInv
  <2>1. SocketsInit => WaitersAreWoken
    BY DEF SocketsInit, WaitersAreWoken
  <2>2. SocketsInit => CarriedRemoval
    BY DEF SocketsInit, CarriedRemoval, Carried, InHand
  <2> QED
    BY <2>1, <2>2, CoreInit, RemovalInit
<1>2. IInv /\ [SocketsNext]_socketsVars => IInv'
  BY CoreStep, WokenStep, RemovalStep, CarriedStep
<1>3. IInv => NobodyUsesRemoved
  BY RemovedIsUnusedState
<1> QED
  BY <1>1, <1>2, <1>3, PTL DEF SocketsSpec
=============================================================================
