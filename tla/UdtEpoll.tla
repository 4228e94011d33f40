------------------------------ MODULE UdtEpoll ------------------------------
(***************************************************************************)
(* The calls that send, receive and poll on one connected socket of udt4   *)
(* (send, recv, sendmsg and recvmsg of core.cpp, CEPoll of epoll.cpp), and *)
(* the worker that gives the socket data and room and breaks the           *)
(* connection.                                                             *)
(*                                                                         *)
(* A step is what a thread does under one lock, or between two: the epolls *)
(* are told of a change in a step of its own, after the change, as in the  *)
(* code.  Data are counted in packets; a message is one packet.            *)
(***************************************************************************)
EXTENDS Integers, FiniteSets

CONSTANTS
    Threads,      \* threads of the application
    Epolls,       \* ids of epolls
    Options,      \* what the socket may be: see option
    Events,       \* what an epoll is asked to watch: for reading, for writing
    SndBufSize,   \* m_iSndBufSize
    RcvBufSize    \* packets that the receiver can hold

VARIABLES
    option,       \* m_iSockType = UDT_STREAM, m_bSynSending, m_bSynRecving, a receiving timeout
    flag,         \* m_bOpened, m_bConnected, m_bClosing, m_bBroken
    snd,          \* m_pSndBuffer->getCurrBufSize()
    rcv,          \* what can be read: getRcvDataSize(), or the messages that scanMsg finds
    early,        \* history: of these, messages that came after the last signal and told nobody
    m_mPolls,     \* the epolls there are: m_sUDTSocksIn, ... of each
    m_sPollID,    \* the epolls of the socket
    call,         \* what each thread of the application is doing
    worker        \* what the worker is doing, and whether it tells the epolls of a break

epollVars == <<option, flag, snd, rcv, early, m_mPolls, m_sPollID, call, worker>>

Idle == [pc |-> "idle", eid |-> 0, len |-> 0]
CEPollDesc == [in |-> FALSE, out |-> FALSE, reads |-> FALSE, writes |-> FALSE]

EpollInit ==
    /\ option \in Options
    /\ flag = [opened |-> TRUE, connected |-> TRUE, closing |-> FALSE, broken |-> FALSE]
    /\ snd = 0 /\ rcv = 0 /\ early = 0
    /\ m_mPolls = [e \in {} |-> CEPollDesc] /\ m_sPollID = {}
    /\ call = [t \in Threads |-> Idle]
    /\ worker = [pc |-> "idle", tells |-> FALSE]

At(pcs) == {t \in Threads : call[t].pc \in pcs}
Goto(t, pc) == call' = [call EXCEPT ![t] = IF pc = "idle" THEN Idle ELSE [@ EXCEPT !.pc = pc]]
Return(t) == call' = [call EXCEPT ![t] = Idle]
Alive == flag.connected /\ ~flag.broken /\ ~flag.closing

\* m_SendLock and m_RecvLock
Sending == {"send", "wait_room", "sent", "disable_write"}
Receiving == {"recv", "woken", "wait_data", "read", "took", "received", "disable_read"}

-----------------------------------------------------------------------------
\* CEPoll under m_EPollLock.  An epoll that is gone is dropped from the set of the socket.
Known(eids) == eids \cap DOMAIN m_mPolls

enable_read(eids) ==
    /\ m_mPolls' = [e \in DOMAIN m_mPolls |->
                       IF e \in eids /\ m_mPolls[e].in THEN [m_mPolls[e] EXCEPT !.reads = TRUE] ELSE m_mPolls[e]]
    /\ m_sPollID' = Known(eids)

enable_write(eids) ==
    /\ m_mPolls' = [e \in DOMAIN m_mPolls |->
                       IF e \in eids /\ m_mPolls[e].out THEN [m_mPolls[e] EXCEPT !.writes = TRUE] ELSE m_mPolls[e]]
    /\ m_sPollID' = Known(eids)

disable_read(eids) ==
    /\ m_mPolls' = [e \in DOMAIN m_mPolls |->
                       IF e \in eids THEN [m_mPolls[e] EXCEPT !.reads = FALSE] ELSE m_mPolls[e]]
    /\ m_sPollID' = Known(eids)

disable_write(eids) ==
    /\ m_mPolls' = [e \in DOMAIN m_mPolls |->
                       IF e \in eids THEN [m_mPolls[e] EXCEPT !.writes = FALSE] ELSE m_mPolls[e]]
    /\ m_sPollID' = Known(eids)

create(e) ==
    /\ e \notin DOMAIN m_mPolls
    /\ m_mPolls' = [f \in DOMAIN m_mPolls \cup {e} |-> IF f = e THEN CEPollDesc ELSE m_mPolls[f]]
    /\ UNCHANGED <<option, flag, snd, rcv, early, m_sPollID, call, worker>>

release(e) ==
    /\ e \in DOMAIN m_mPolls
    /\ m_mPolls' = [f \in DOMAIN m_mPolls \ {e} |-> m_mPolls[f]]
    /\ UNCHANGED <<option, flag, snd, rcv, early, m_sPollID, call, worker>>

\* epoll_add_usock: first the epoll, then addEPoll of the socket: its set, what can be read,
\* what can be written.
add_usock(t, e, events) ==
    /\ call[t] = Idle /\ flag.opened /\ e \in DOMAIN m_mPolls /\ e \notin m_sPollID
    /\ m_mPolls' = [m_mPolls EXCEPT ![e] = [m_mPolls[e] EXCEPT !.in = @ \/ events.in, !.out = @ \/ events.out]]
    /\ call' = [call EXCEPT ![t] = [Idle EXCEPT !.pc = "add", !.eid = e]]
    /\ UNCHANGED <<option, flag, snd, rcv, early, m_sPollID, worker>>

addEPoll(t) ==
    /\ call[t].pc = "add"
    /\ m_sPollID' = m_sPollID \cup {call[t].eid}
    /\ Goto(t, IF Alive THEN "add_read" ELSE "idle")
    /\ UNCHANGED <<option, flag, snd, rcv, early, m_mPolls, worker>>

AddRead(t) ==
    /\ call[t].pc = "add_read"
    /\ IF rcv > 0 THEN enable_read(m_sPollID) ELSE UNCHANGED <<m_mPolls, m_sPollID>>
    /\ Goto(t, "add_write")
    /\ UNCHANGED <<option, flag, snd, rcv, early, worker>>

AddWrite(t) ==
    /\ call[t].pc = "add_write"
    /\ IF SndBufSize > snd THEN enable_write(m_sPollID) ELSE UNCHANGED <<m_mPolls, m_sPollID>>
    /\ Return(t)
    /\ UNCHANGED <<option, flag, snd, rcv, early, worker>>

\* epoll_remove_usock: removeEPoll takes the epoll out of the set and resets the others.
removeEPoll(t, e) ==
    /\ call[t] = Idle /\ flag.opened /\ e \in m_sPollID
    /\ m_mPolls' = [f \in DOMAIN m_mPolls |->
                       IF f \in m_sPollID \ {e} THEN [m_mPolls[f] EXCEPT !.reads = FALSE, !.writes = FALSE]
                       ELSE m_mPolls[f]]
    /\ m_sPollID' = Known(m_sPollID \ {e})
    /\ call' = [call EXCEPT ![t] = [Idle EXCEPT !.pc = "remove", !.eid = e]]
    /\ UNCHANGED <<option, flag, snd, rcv, early, worker>>

remove_usock(t) ==
    /\ call[t].pc = "remove"
    /\ m_mPolls' = [e \in DOMAIN m_mPolls |-> IF e = call[t].eid THEN CEPollDesc ELSE m_mPolls[e]]
    /\ Return(t)
    /\ UNCHANGED <<option, flag, snd, rcv, early, m_sPollID, worker>>

\* wait looks under the lock, and again at each event; without a timeout it throws when nothing
\* is monitored.
WaitBegin(t, e) ==
    /\ call[t] = Idle
    /\ call' = [call EXCEPT ![t] = [Idle EXCEPT !.pc = "wait", !.eid = e]]
    /\ UNCHANGED <<option, flag, snd, rcv, early, m_mPolls, m_sPollID, worker>>

Ready(e) == m_mPolls[e].reads \/ m_mPolls[e].writes
Monitors(e) == m_mPolls[e].in \/ m_mPolls[e].out

wait(t) ==
    /\ call[t].pc = "wait"
    /\ call[t].eid \in DOMAIN m_mPolls => Ready(call[t].eid) \/ ~Monitors(call[t].eid)
    /\ Return(t)
    /\ UNCHANGED <<option, flag, snd, rcv, early, m_mPolls, m_sPollID, worker>>
-----------------------------------------------------------------------------
\* send and sendmsg, under m_SendLock.  send is content with one free place.
SendBegin(t, len) ==
    /\ call[t] = Idle /\ At(Sending) = {} /\ flag.opened /\ Alive
    /\ call' = [call EXCEPT ![t] = [Idle EXCEPT !.pc = "send", !.len = len]]
    /\ UNCHANGED <<option, flag, snd, rcv, early, m_mPolls, m_sPollID, worker>>

NoRoom(len) == SndBufSize - snd < (IF option.stream THEN 1 ELSE len)

\* Without m_bSynSending a call that finds no room throws; with it, it waits on m_SendBlockCond
\* while the connection stands.
SendWaits(t) ==
    /\ call[t].pc = "send" /\ NoRoom(call[t].len) /\ (option.synSending => Alive)
    /\ Goto(t, IF option.synSending THEN "wait_room" ELSE "idle")
    /\ UNCHANGED <<option, flag, snd, rcv, early, m_mPolls, m_sPollID, worker>>

SendFails(t) ==
    /\ call[t].pc = "send" /\ NoRoom(call[t].len) /\ option.synSending /\ ~Alive
    /\ Return(t)
    /\ UNCHANGED <<option, flag, snd, rcv, early, m_mPolls, m_sPollID, worker>>

addBuffer(t) ==
    /\ call[t].pc = "send" /\ ~NoRoom(call[t].len)
    /\ snd' = snd + (IF call[t].len < SndBufSize - snd THEN call[t].len ELSE SndBufSize - snd)
    /\ Goto(t, "sent")
    /\ UNCHANGED <<option, flag, rcv, early, m_mPolls, m_sPollID, worker>>

\* Afterwards the size is read, and the epolls are told that write is not available any more.
SendEnd(t) ==
    /\ call[t].pc = "sent"
    /\ Goto(t, IF SndBufSize <= snd THEN "disable_write" ELSE "idle")
    /\ UNCHANGED <<option, flag, snd, rcv, early, m_mPolls, m_sPollID, worker>>

DisableWrite(t) ==
    /\ call[t].pc = "disable_write"
    /\ disable_write(m_sPollID)
    /\ Return(t)
    /\ UNCHANGED <<option, flag, snd, rcv, early, worker>>
-----------------------------------------------------------------------------
\* recv and recvmsg, under m_RecvLock.
RecvBegin(t) ==
    /\ call[t] = Idle /\ At(Receiving) = {} /\ flag.opened /\ flag.connected
    /\ option.stream => ~((flag.broken \/ flag.closing) /\ rcv = 0)
    /\ call' = [call EXCEPT ![t] = [Idle EXCEPT !.pc = "recv"]]
    /\ UNCHANGED <<option, flag, snd, rcv, early, m_mPolls, m_sPollID, worker>>

\* readMsg and readBuffer take a packet out of the buffer, if there is one: acknowledged ones first.
Take(t, pc) ==
    /\ rcv' = (IF rcv > 0 THEN rcv - 1 ELSE 0)
    /\ early' = (IF early > rcv' THEN rcv' ELSE early)
    /\ Goto(t, pc)

\* recv waits while there is nothing, then looks at the connection and reads.
RecvStream(t) ==
    /\ call[t].pc = "recv" /\ option.stream
    /\ IF rcv > 0 THEN Goto(t, "read")
       ELSE IF ~option.synRecving \/ ~Alive THEN Return(t)
       ELSE Goto(t, "wait_data")
    /\ UNCHANGED <<option, flag, snd, rcv, early, m_mPolls, m_sPollID, worker>>

readBuffer(t) ==
    /\ call[t].pc = "read"
    /\ IF flag.connected /\ ((flag.broken \/ flag.closing) => rcv > 0) THEN Take(t, "received")
       ELSE Return(t) /\ UNCHANGED <<rcv, early>>
    /\ UNCHANGED <<option, flag, snd, m_mPolls, m_sPollID, worker>>

\* recvmsg of a broken connection reads what there is; without m_bSynRecving it reads and leaves
\* the epolls alone.
RecvMsgBroken(t) ==
    /\ call[t].pc = "recv" /\ ~option.stream /\ (flag.broken \/ flag.closing)
    /\ Take(t, "received")
    /\ UNCHANGED <<option, flag, snd, m_mPolls, m_sPollID, worker>>

RecvMsgAsync(t) ==
    /\ call[t].pc = "recv" /\ ~option.stream /\ ~flag.broken /\ ~flag.closing /\ ~option.synRecving
    /\ Take(t, "idle")
    /\ UNCHANGED <<option, flag, snd, m_mPolls, m_sPollID, worker>>

\* Otherwise it loops; with a timeout it waits first, and reads when it is woken.
RecvMsg(t) ==
    /\ call[t].pc = "recv" /\ ~option.stream /\ ~flag.broken /\ ~flag.closing /\ option.synRecving
    /\ Goto(t, IF option.timed THEN "wait_data" ELSE "woken")
    /\ UNCHANGED <<option, flag, snd, rcv, early, m_mPolls, m_sPollID, worker>>

RecvMsgLoop(t) ==
    /\ call[t].pc = "woken" /\ ~option.stream
    /\ IF option.timed \/ (Alive /\ rcv > 0) THEN Take(t, "took")
       ELSE Goto(t, IF Alive THEN "wait_data" ELSE "took") /\ UNCHANGED <<rcv, early>>
    /\ UNCHANGED <<option, flag, snd, m_mPolls, m_sPollID, worker>>

\* The time is up: recvmsg reads, recv looks at the connection.
RecvTimesOut(t) ==
    /\ call[t].pc = "wait_data" /\ option.timed
    /\ IF option.stream THEN Goto(t, "read") /\ UNCHANGED <<rcv, early>> ELSE Take(t, "took")
    /\ UNCHANGED <<option, flag, snd, m_mPolls, m_sPollID, worker>>

\* The connection is looked at after the message has been taken out: if it is broken by now, the
\* call throws and the message is lost.  (A wait in time that found nothing ends here too.)
RecvMsgEnd(t) ==
    /\ call[t].pc = "took"
    /\ Goto(t, IF Alive THEN "received" ELSE "idle")
    /\ UNCHANGED <<option, flag, snd, rcv, early, m_mPolls, m_sPollID, worker>>

\* What is left is looked at, and the epolls are told that read is not available any more.
RecvEnd(t) ==
    /\ call[t].pc = "received"
    /\ Goto(t, IF rcv <= 0 THEN "disable_read" ELSE "idle")
    /\ UNCHANGED <<option, flag, snd, rcv, early, m_mPolls, m_sPollID, worker>>

DisableRead(t) ==
    /\ call[t].pc = "disable_read"
    /\ disable_read(m_sPollID)
    /\ Return(t)
    /\ UNCHANGED <<option, flag, snd, rcv, early, worker>>

\* select polls the socket itself: it can be read, or it is of no use any more.
SelectBegin(t) ==
    /\ call[t] = Idle /\ flag.opened
    /\ call' = [call EXCEPT ![t] = [Idle EXCEPT !.pc = "select"]]
    /\ UNCHANGED <<option, flag, snd, rcv, early, m_mPolls, m_sPollID, worker>>

select(t) ==
    /\ call[t].pc = "select"
    /\ (flag.connected /\ rcv > 0) \/ flag.broken \/ ~flag.connected \/ ~flag.opened
    /\ Return(t)
    /\ UNCHANGED <<option, flag, snd, rcv, early, m_mPolls, m_sPollID, worker>>
-----------------------------------------------------------------------------
\* The worker, as long as the connection stands.  Each change is followed by a signal to the
\* thread that waits, and then by the news to the epolls.
WakeReceiver == [t \in Threads |->
    IF call[t].pc # "wait_data" THEN call[t] ELSE [call[t] EXCEPT !.pc = IF option.stream THEN "recv" ELSE "woken"]]
WakeSender == [t \in Threads |-> IF call[t].pc = "wait_room" THEN [call[t] EXCEPT !.pc = "send"] ELSE call[t]]

\* mutant of SignalData: nobody is woken
SignalNobody ==
    /\ worker.pc = "signal_data"
    /\ worker' = [worker EXCEPT !.pc = "enable_read"]
    /\ UNCHANGED <<option, flag, snd, rcv, early, m_mPolls, m_sPollID, call>>

\* processData stores the last packet of a message that may be read out of order, behind a hole or
\* ahead of the acknowledgement: it can be read from now on, and nobody is told.
addData ==
    /\ worker.pc = "idle" /\ Alive /\ ~option.stream /\ rcv < RcvBufSize
    /\ rcv' = rcv + 1 /\ early' = early + 1
    /\ UNCHANGED <<option, flag, snd, m_mPolls, m_sPollID, call, worker>>

\* sendCtrl: an acknowledgement makes packets readable, or only those that are already.
rcvAckData(n) ==
    /\ worker.pc = "idle" /\ Alive /\ rcv + n <= RcvBufSize
    /\ rcv' = rcv + n
    /\ worker' = [worker EXCEPT !.pc = "signal_data"]
    /\ UNCHANGED <<option, flag, snd, early, m_mPolls, m_sPollID, call>>

SignalData ==
    /\ worker.pc = "signal_data"
    /\ call' = IF option.synRecving THEN WakeReceiver ELSE call
    /\ early' = 0
    /\ worker' = [worker EXCEPT !.pc = "enable_read"]
    /\ UNCHANGED <<option, flag, snd, rcv, m_mPolls, m_sPollID>>

EnableRead ==
    /\ worker.pc = "enable_read"
    /\ enable_read(m_sPollID)
    /\ worker' = [worker EXCEPT !.pc = IF worker.tells THEN "enable_write" ELSE "idle"]
    /\ UNCHANGED <<option, flag, snd, rcv, early, call>>

\* processCtrl: the peer has acknowledged packets.
ackData(n) ==
    /\ worker.pc = "idle" /\ Alive /\ n <= snd
    /\ snd' = snd - n
    /\ worker' = [worker EXCEPT !.pc = "signal_room"]
    /\ UNCHANGED <<option, flag, rcv, early, m_mPolls, m_sPollID, call>>

SignalRoom ==
    /\ worker.pc = "signal_room"
    /\ call' = IF option.synSending THEN WakeSender ELSE call
    /\ worker' = [worker EXCEPT !.pc = "enable_write"]
    /\ UNCHANGED <<option, flag, snd, rcv, early, m_mPolls, m_sPollID>>

EnableWrite ==
    /\ worker.pc = "enable_write"
    /\ enable_write(m_sPollID)
    /\ worker' = [pc |-> "idle", tells |-> FALSE]
    /\ UNCHANGED <<option, flag, snd, rcv, early, call>>

\* checkTimers (the peer is silent) and processCtrl (it has shut down): the first tells the epolls,
\* the second does not.
Break(tells) ==
    /\ worker.pc = "idle" /\ Alive
    /\ flag' = [flag EXCEPT !.closing = TRUE, !.broken = TRUE]
    /\ worker' = [pc |-> "release_send", tells |-> tells]
    /\ UNCHANGED <<option, snd, rcv, early, m_mPolls, m_sPollID, call>>

\* processCtrl of an acknowledgement beyond what was sent, or of a loss report that makes no sense:
\* the connection is broken, but not closing, and nobody is told.  The collector closes it later, as
\* an application may (CloseBegin).
BreakSilently ==
    /\ worker.pc = "idle" /\ Alive
    /\ flag' = [flag EXCEPT !.broken = TRUE]
    /\ UNCHANGED <<option, snd, rcv, early, m_mPolls, m_sPollID, call, worker>>

\* releaseSynch: signal the sender, then take m_SendLock once; the same for the receiver.
ReleaseSend ==
    /\ worker.pc = "release_send"
    /\ call' = WakeSender
    /\ worker' = [worker EXCEPT !.pc = "lock_send"]
    /\ UNCHANGED <<option, flag, snd, rcv, early, m_mPolls, m_sPollID>>

ReleaseRecv ==
    /\ worker.pc = "lock_send" /\ At(Sending) = {}
    /\ call' = WakeReceiver
    /\ worker' = [worker EXCEPT !.pc = "lock_recv"]
    /\ UNCHANGED <<option, flag, snd, rcv, early, m_mPolls, m_sPollID>>

Released ==
    /\ worker.pc = "lock_recv" /\ At(Receiving) = {}
    /\ worker' = [worker EXCEPT !.pc = IF worker.tells THEN "enable_read" ELSE "idle"]
    /\ UNCHANGED <<option, flag, snd, rcv, early, m_mPolls, m_sPollID, call>>
-----------------------------------------------------------------------------
\* close: the socket leaves its epolls, one after the other until one is gone (an exception), and
\* is closing; then releaseSynch, and the locks of the callers.
CloseBegin(t) ==
    /\ call[t] = Idle /\ flag.opened /\ ~\E u \in Threads : call[u].pc \in {"close_send", "close_lock", "close_recv", "close_end"}
    /\ LET left == {e \in m_sPollID : \A f \in m_sPollID : f <= e => f \in DOMAIN m_mPolls}
       IN  m_mPolls' = [e \in DOMAIN m_mPolls |-> IF e \in left THEN CEPollDesc ELSE m_mPolls[e]]
    /\ flag' = [flag EXCEPT !.closing = TRUE]
    /\ call' = [call EXCEPT ![t] = [Idle EXCEPT !.pc = "close_send"]]
    /\ UNCHANGED <<option, snd, rcv, early, m_sPollID, worker>>

CloseSend(t) ==
    /\ call[t].pc = "close_send"
    /\ call' = [WakeSender EXCEPT ![t].pc = "close_lock"]
    /\ UNCHANGED <<option, flag, snd, rcv, early, m_mPolls, m_sPollID, worker>>

CloseRecv(t) ==
    /\ call[t].pc = "close_lock" /\ At(Sending) = {}
    /\ call' = [WakeReceiver EXCEPT ![t].pc = "close_recv"]
    /\ UNCHANGED <<option, flag, snd, rcv, early, m_mPolls, m_sPollID, worker>>

CloseUdt(t) ==
    /\ call[t].pc = "close_recv" /\ At(Receiving) = {}
    /\ flag' = [flag EXCEPT !.connected = FALSE]
    /\ Goto(t, "close_end")
    /\ UNCHANGED <<option, snd, rcv, early, m_mPolls, m_sPollID, worker>>

CloseEnd(t) ==
    /\ call[t].pc = "close_end" /\ At(Sending) = {} /\ At(Receiving) = {}
    /\ flag' = [flag EXCEPT !.opened = FALSE]
    /\ Return(t)
    /\ UNCHANGED <<option, snd, rcv, early, m_mPolls, m_sPollID, worker>>
-----------------------------------------------------------------------------
CallStep(t) ==
    \/ addEPoll(t) \/ AddRead(t) \/ AddWrite(t) \/ remove_usock(t) \/ wait(t) \/ select(t)
    \/ SendWaits(t) \/ SendFails(t) \/ addBuffer(t) \/ SendEnd(t) \/ DisableWrite(t)
    \/ RecvStream(t) \/ readBuffer(t) \/ RecvMsgBroken(t) \/ RecvMsgAsync(t) \/ RecvMsg(t)
    \/ RecvMsgLoop(t) \/ RecvTimesOut(t) \/ RecvMsgEnd(t) \/ RecvEnd(t) \/ DisableRead(t)
    \/ CloseSend(t) \/ CloseRecv(t) \/ CloseUdt(t) \/ CloseEnd(t)

CallBegins(t) ==
    \/ SendBegin(t, 1) \/ SendBegin(t, SndBufSize) \/ RecvBegin(t) \/ SelectBegin(t) \/ CloseBegin(t)
    \/ \E e \in Epolls :
          \/ removeEPoll(t, e) \/ WaitBegin(t, e)
          \/ \E ev \in Events : add_usock(t, e, ev)

WorkerStep ==
    \/ SignalData \/ EnableRead \/ SignalRoom \/ EnableWrite \/ ReleaseSend \/ ReleaseRecv \/ Released

WorkerBegins ==
    \/ \E n \in 0 .. RcvBufSize : rcvAckData(n)
    \/ addData \/ BreakSilently
    \/ \E n \in 1 .. SndBufSize : ackData(n)
    \/ \E tells \in BOOLEAN : Break(tells)

EpollNext ==
    \/ \E t \in Threads : CallStep(t) \/ CallBegins(t)
    \/ \E e \in Epolls : create(e) \/ release(e)
    \/ WorkerStep \/ WorkerBegins

\* Threads run, and a mutex is given to a thread that keeps asking for it; nobody has to call, and
\* no packet has to come.
EpollFairness ==
    /\ WF_epollVars(WorkerStep) /\ SF_epollVars(ReleaseRecv) /\ SF_epollVars(Released)
    /\ \A t \in Threads : /\ WF_epollVars(CallStep(t))
                          /\ SF_epollVars(CloseRecv(t) \/ CloseUdt(t) \/ CloseEnd(t))
EpollSpec == EpollInit /\ [][EpollNext]_epollVars /\ EpollFairness
-----------------------------------------------------------------------------
\* A thread waits for data only while there are none and the connection stands, or the signal
\* is on its way (or its timeout); the same for room.  One lock more, or one signal before its
\* change, and recv sleeps for ever.  Two changes come without a signal, and are named here: a
\* message that is readable out of order, and a connection broken by a control packet.
Closer(pcs) == \E t \in Threads : call[t].pc \in pcs
BrokenSilently == flag.broken /\ ~flag.closing
CallersAreWoken ==
    /\ At({"wait_data"}) # {} =>
          \/ option.timed
          \/ rcv = early /\ Alive
          \/ BrokenSilently
          \/ worker.pc \in {"signal_data", "release_send", "lock_send"}
          \/ Closer({"close_send", "close_lock"})
    /\ \A t \in At({"wait_room"}) :
          \/ NoRoom(call[t].len) /\ Alive
          \/ BrokenSilently
          \/ worker.pc \in {"signal_room", "release_send"}
          \/ Closer({"close_send"})

\* close returns, whoever sends, receives or breaks the connection meanwhile, and so does every
\* call of a connection that is broken or closed.
CallsEnd ==
    \A t \in Threads :
        call[t].pc \in {"close_send", "send", "recv"} /\ flag.closing ~> call[t] = Idle

\* An application that waits for a socket is told of it: when no call and no worker is at work,
\* an epoll that monitors a socket for reading shows it while it can be read (messages that told
\* nobody apart).
ReadableIsReported ==
    (worker.pc = "idle" /\ (\A t \in Threads : call[t].pc \in {"idle", "wait"}) /\ Alive /\ rcv > early) =>
        \A e \in m_sPollID \cap DOMAIN m_mPolls : m_mPolls[e].in => m_mPolls[e].reads
=============================================================================
