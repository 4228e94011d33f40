-------------------------- MODULE KadConnectionMgr --------------------------
(***************************************************************************)
(* ConnectionMgr of src/KadOverIP.h: the thread that hands the messages of *)
(* UDT connections to them, Connect, which one thread of the application   *)
(* calls, and the destructor that stops the thread.                        *)
(*                                                                         *)
(* Of udt4 this module knows what UdtEpoll shows of it: a socket that can  *)
(* be read is in the epoll's set, and now and then one that cannot.        *)
(***************************************************************************)
EXTENDS Integers, FiniteSets

CONSTANTS
    Socket,         \* UDT sockets: made by Connect or by accept
    MaxMessages,    \* bound: messages on each connection
    MaxLate         \* bound: reports of a socket that has nothing to read

ASSUME AcceptorAssumption == "mListener" \notin Socket     \* the listening socket is none of them

VARIABLES
    mConnections,       \* the sockets in the list
    epoll,              \* the sockets added, those reported, released; late: the bound
    link,               \* of each socket: how it came about, messages sent to it, unread, handed over
    backlog,            \* connections to be accepted
    connecting,         \* Connect: [pc, s]
    run,                \* Run: [pc, readfds, it]
    mgrEnd              \* the destructor: "none", "release", "wait", "gone"

mgrVars == <<mConnections, epoll, link, backlog, connecting, run, mgrEnd>>

Acceptor == "mListener"

MgrInit ==
    /\ mConnections = {}
    /\ epoll = [added |-> {Acceptor}, ready |-> {}, released |-> FALSE, late |-> 0]
    /\ link = [s \in Socket |-> [by |-> "nobody", sent |-> 0, unread |-> 0, handed |-> 0]]
    /\ backlog = 0
    /\ connecting = [pc |-> "idle", s |-> Acceptor]
    /\ run = [pc |-> "off", readfds |-> {}, it |-> Acceptor]
    /\ mgrEnd = "none"

Unused == {s \in Socket : link[s].by = "nobody"}

\* The end of a successful constructor.
MgrStart ==
    /\ run.pc = "off" /\ mgrEnd = "none"
    /\ run' = [run EXCEPT !.pc = "wait"]
    /\ UNCHANGED <<mConnections, epoll, link, backlog, connecting, mgrEnd>>

\* mutant of ConnectOrder: into the epoll first
AddFirst == <<"add", "append">>

\* Connect: UDT::connect; then Append to mConnections and epoll_add_usock.
ConnectOrder == <<"append", "add">>

Connect(s) ==
    /\ connecting.pc = "idle" /\ mgrEnd = "none" /\ link[s].by = "nobody" /\ backlog < Cardinality(Unused)
    /\ link' = [link EXCEPT ![s].by = "Connect"]
    /\ connecting' = [pc |-> ConnectOrder[1], s |-> s]
    /\ UNCHANGED <<mConnections, epoll, backlog, run, mgrEnd>>

ConnectGoesOn == connecting' = IF connecting.pc = ConnectOrder[1] THEN [connecting EXCEPT !.pc = ConnectOrder[2]]
                               ELSE [pc |-> "idle", s |-> Acceptor]

AppendConnection ==
    /\ connecting.pc = "append" /\ ConnectGoesOn
    /\ mConnections' = mConnections \cup {connecting.s}
    /\ UNCHANGED <<epoll, link, backlog, run, mgrEnd>>

\* epoll_add_usock reports a socket that has messages already.
AddConnection ==
    LET s == connecting.s
    IN  /\ connecting.pc = "add" /\ ConnectGoesOn
        /\ epoll' = [epoll EXCEPT !.added = @ \cup {s}, !.ready = IF link[s].unread > 0 THEN @ \cup {s} ELSE @]
        /\ UNCHANGED <<mConnections, link, backlog, run, mgrEnd>>

Report(s) == epoll' = [epoll EXCEPT !.ready = IF s \in epoll.added THEN @ \cup {s} ELSE @]

\* A peer sends a message, or connects.
Message(s) ==
    /\ link[s].by # "nobody" /\ link[s].sent < MaxMessages
    /\ link' = [link EXCEPT ![s] = [link[s] EXCEPT !.sent = @ + 1, !.unread = @ + 1]]
    /\ Report(s)
    /\ UNCHANGED <<mConnections, backlog, connecting, run, mgrEnd>>

Incoming ==
    /\ backlog < Cardinality(Unused)
    /\ backlog' = backlog + 1
    /\ Report(Acceptor)
    /\ UNCHANGED <<mConnections, link, connecting, run, mgrEnd>>

\* udt4 reports a socket after what it reports has been read.
LateReport(s) ==
    /\ epoll.late < MaxLate /\ s \in epoll.added
    /\ epoll' = [epoll EXCEPT !.ready = @ \cup {s}, !.late = @ + 1]
    /\ UNCHANGED <<mConnections, link, backlog, connecting, run, mgrEnd>>

\* epoll_wait returns the sockets reported; nothing after 10 ms, or when the epoll is gone.
EpollWait ==
    /\ run.pc = "wait"
    /\ run' = [run EXCEPT !.pc = "check", !.readfds = IF epoll.released THEN {} ELSE epoll.ready]
    /\ UNCHANGED <<mConnections, epoll, link, backlog, connecting, mgrEnd>>

\* mutant of MgrStopping: set when the epoll is gone, too late for Run
MgrStoppingLate == mgrEnd = "gone"

\* IsStopping
MgrStopping == mgrEnd # "none"

NextOf(fds) == IF fds = {} THEN run' = [run EXCEPT !.pc = IF MgrStopping THEN "ended" ELSE "wait", !.readfds = {}]
              ELSE \E s \in fds : run' = [pc |-> IF s = Acceptor THEN "accept" ELSE "recv",
                                          readfds |-> fds \ {s}, it |-> s]

Check ==
    /\ run.pc = "check"
    /\ IF MgrStopping THEN run' = [run EXCEPT !.pc = "ended"] ELSE NextOf(run.readfds)
    /\ UNCHANGED <<mConnections, epoll, link, backlog, connecting, mgrEnd>>

\* accept waits for a connection; the socket goes into the epoll and not into the list.
Accept(s) ==
    /\ run.pc = "accept" /\ backlog > 0 /\ link[s].by = "nobody"
    /\ backlog' = backlog - 1
    /\ link' = [link EXCEPT ![s].by = "accept"]
    /\ epoll' = [epoll EXCEPT !.added = @ \cup {s}, !.ready = IF backlog = 1 THEN @ \ {Acceptor} ELSE @]
    /\ NextOf(run.readfds)
    /\ UNCHANGED <<mConnections, connecting, mgrEnd>>

\* recvmsg waits for a message.
Recvmsg ==
    LET s == run.it
    IN  /\ run.pc = "recv" /\ link[s].unread > 0
        /\ link' = [link EXCEPT ![s].unread = @ - 1]
        /\ epoll' = [epoll EXCEPT !.ready = IF link[s].unread = 1 THEN @ \ {s} ELSE @]
        /\ run' = [run EXCEPT !.pc = "find"]
        /\ UNCHANGED <<mConnections, backlog, connecting, mgrEnd>>

\* The handler of the connection with that socket, if there is one in the list.
Find ==
    /\ run.pc = "find"
    /\ link' = IF run.it \in mConnections THEN [link EXCEPT ![run.it].handed = @ + 1] ELSE link
    /\ NextOf(run.readfds)
    /\ UNCHANGED <<mConnections, epoll, backlog, connecting, mgrEnd>>

\* The destructor: Stop, epoll_release, Wait.  The application connects no more.
MgrStop ==
    /\ mgrEnd = "none" /\ connecting.pc = "idle" /\ mgrEnd' = "release"
    /\ UNCHANGED <<mConnections, epoll, link, backlog, connecting, run>>

EpollRelease ==
    /\ mgrEnd = "release" /\ mgrEnd' = "wait"
    /\ epoll' = [epoll EXCEPT !.released = TRUE, !.ready = {}, !.added = {}]
    /\ UNCHANGED <<mConnections, link, backlog, connecting, run>>

MgrGone ==
    /\ mgrEnd = "wait" /\ run.pc \in {"off", "ended"}
    /\ mgrEnd' = "gone"
    /\ UNCHANGED <<mConnections, epoll, link, backlog, connecting, run>>

MgrNext ==
    \/ MgrStart \/ AppendConnection \/ AddConnection \/ Incoming \/ EpollWait \/ Check \/ Recvmsg \/ Find
    \/ MgrStop \/ EpollRelease \/ MgrGone
    \/ \E s \in Socket : Connect(s) \/ Message(s) \/ Accept(s)
    \/ \E s \in Socket \cup {Acceptor} : LateReport(s)

\* The threads run; nobody has to send, to connect or to stop anything.
MgrFairness ==
    /\ WF_mgrVars(EpollWait \/ Check \/ Recvmsg \/ Find \/ \E s \in Socket : Accept(s))
    /\ WF_mgrVars(EpollRelease \/ MgrGone)

MgrSpec == MgrInit /\ [][MgrNext]_mgrVars /\ MgrFairness
-----------------------------------------------------------------------------
\* Every message that Run has read from a connection made by Connect has been handed to it, however
\* soon after UDT::connect it came.
MessagesAreHandedOver ==
    \A s \in Socket :
        link[s].by = "Connect" =>
            link[s].handed + link[s].unread + (IF run.pc = "find" /\ run.it = s THEN 1 ELSE 0) = link[s].sent

\* The destructor returns, unless Run waits in accept or recvmsg for something that was reported
\* and is not there.
MgrEnds ==
    mgrEnd = "release" ~> \/ mgrEnd = "gone"
                          \/ run.pc = "accept" /\ backlog = 0
                          \/ run.pc = "recv" /\ link[run.it].unread = 0
=============================================================================
