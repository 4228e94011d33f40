---------------------------- MODULE UdtCallsProofs ----------------------------
(***************************************************************************)
(* Two proofs about the calls of a socket: no call on a connected socket   *)
(* sleeps for ever because a signal was given too early or not at all      *)
(* (UdtEpoll, for any threads, epolls, options and buffers), and the       *)
(* handshake keeps its promises for any number of tries, any backlog and   *)
(* any sizes of the two ends, whatever happens to the packets              *)
(* (UdtHandshake).                                                         *)
(***************************************************************************)
EXTENDS MCUdtParts, FiniteSetTheorems, TLAPS

-----------------------------------------------------------------------------
(* A step of one part leaves the others as they are *)

LEMMA CallsMoves == ASSUME [PartsNext]_partsVars PROVE [Calls!EpollNext]_(Calls!epollVars)
  BY DEF PartsNext, Only, partsVars, callsVars, Calls!epollVars

LEMMA HandshakeMoves == ASSUME [PartsNext]_partsVars PROVE [Handshake!HandshakeNext]_(Handshake!handshakeVars)
  BY DEF PartsNext, Only, partsVars, handshakeVars, Handshake!handshakeVars

-----------------------------------------------------------------------------
(* Calls and signals *)

\* The shape of the state: what is counted, and the records that the steps write to.
CallsShape ==
    /\ DOMAIN flag = {"opened", "connected", "closing", "broken"}
    /\ DOMAIN receiver = {"pc", "tells"}
    /\ sndUsed \in Nat /\ rcvUsed \in Nat /\ early \in Nat /\ early <= rcvUsed
    /\ DOMAIN call = Threads
    /\ \A t \in Threads : DOMAIN call[t] = {"pc", "eid", "len"} /\ call[t].len \in Nat

\* Only a socket that blocks is waited for: the worker signals nobody else.
OnlyBlocking ==
    \A t \in Threads : /\ call[t].pc \in {"woken", "wait_data"} => option.synRecving
                       /\ call[t].pc = "wait_room" => option.synSending

DataWoken ==
    \A t \in Threads : call[t].pc = "wait_data" =>
        \/ option.timed
        \/ rcvUsed = early /\ Calls!Alive
        \/ Calls!BrokenSilently
        \/ receiver.pc \in {"signal_data", "release_send", "lock_send"}
        \/ \E s \in Threads : call[s].pc \in {"close_send", "close_lock"}

RoomWoken ==
    \A t \in Threads : call[t].pc = "wait_room" =>
        \/ Calls!NoRoom(call[t].len) /\ Calls!Alive
        \/ Calls!BrokenSilently
        \/ receiver.pc \in {"signal_room", "release_send"}
        \/ \E s \in Threads : call[s].pc = "close_send"

\* close begins by closing, and a closing socket never comes back.
ClosersClose ==
    \A t \in Threads : call[t].pc \in {"close_send", "close_lock", "close_recv", "close_end"} => flag.closing

CallsInv == CallsShape /\ OnlyBlocking /\ ClosersClose /\ DataWoken /\ RoomWoken

LEMMA BothWoken == Calls!CallersAreWoken <=> DataWoken /\ RoomWoken
  BY DEF Calls!CallersAreWoken, DataWoken, RoomWoken, Calls!At, Calls!Closer
-----------------------------------------------------------------------------
\* Thread t goes to pc, and no other thread moves.
Moves(t, pc) ==
    /\ DOMAIN call' = Threads /\ \A s \in Threads : s # t => call'[s] = call[s]
    /\ DOMAIN call'[t] = {"pc", "eid", "len"} /\ call'[t].len \in Nat /\ call'[t].pc = pc

LEMMA GotoMoves ==
    ASSUME CallsShape, NEW t \in Threads, NEW pc, Calls!Goto(t, pc)
    PROVE  Moves(t, pc) /\ (pc # "idle" => call'[t].len = call[t].len)
<1>1. CASE pc = "idle"
  <2>1. call' = [call EXCEPT ![t] = Calls!Idle]
    BY <1>1 DEF Calls!Goto
  <2> QED
    BY <1>1, <2>1 DEF CallsShape, Moves, Calls!Idle
<1>2. CASE pc # "idle"
  <2>1. call' = [call EXCEPT ![t].pc = pc]
    BY <1>2 DEF Calls!Goto
  <2> QED
    BY <1>2, <2>1 DEF CallsShape, Moves
<1> QED
  BY <1>1, <1>2

LEMMA ReturnMoves == ASSUME CallsShape, NEW t \in Threads, Calls!Return(t) PROVE Moves(t, "idle")
  BY DEF CallsShape, Calls!Return, Moves, Calls!Idle

LEMMA BeginMoves ==
    ASSUME CallsShape, NEW t \in Threads, NEW pc, NEW len \in Nat,
           \/ call' = [call EXCEPT ![t] = [Calls!Idle EXCEPT !.pc = pc, !.len = len]]
           \/ call' = [call EXCEPT ![t] = [Calls!Idle EXCEPT !.pc = pc]]
           \/ \E e : call' = [call EXCEPT ![t] = [Calls!Idle EXCEPT !.pc = pc, !.eid = e]]
    PROVE  Moves(t, pc)
<1>1. CASE call' = [call EXCEPT ![t] = [Calls!Idle EXCEPT !.pc = pc, !.len = len]]
  BY <1>1 DEF CallsShape, Moves, Calls!Idle
<1>2. CASE call' = [call EXCEPT ![t] = [Calls!Idle EXCEPT !.pc = pc]]
  BY <1>2 DEF CallsShape, Moves, Calls!Idle
<1>3. ASSUME NEW e, call' = [call EXCEPT ![t] = [Calls!Idle EXCEPT !.pc = pc, !.eid = e]] PROVE Moves(t, pc)
  BY <1>3 DEF CallsShape, Moves, Calls!Idle
<1> QED
  BY <1>1, <1>2, <1>3

\* What is taken out of the buffer, if anything, keeps what told nobody within what can be read.
Taken == rcvUsed' \in Nat /\ early' \in Nat /\ early' <= rcvUsed' /\ (rcvUsed = early => rcvUsed' = early')

LEMMA TakeMoves == ASSUME CallsShape, NEW t \in Threads, NEW pc, Calls!Take(t, pc) PROVE Moves(t, pc) /\ Taken
<1>1. /\ rcvUsed' = IF rcvUsed > 0 THEN rcvUsed - 1 ELSE 0
      /\ early' = IF early > rcvUsed' THEN rcvUsed' ELSE early
      /\ Calls!Goto(t, pc)
  BY DEF Calls!Take
<1>2. rcvUsed \in Nat /\ early \in Nat /\ early <= rcvUsed
  BY DEF CallsShape
<1> QED
  BY <1>1, <1>2, GotoMoves DEF Taken

LEMMA NothingTaken == ASSUME CallsShape, UNCHANGED <<rcvUsed, early>> PROVE Taken
  BY DEF CallsShape, Taken

\* A step of a call after which its thread does not wait; it may take something out of the buffer.
LEMMA OtherSteps ==
    ASSUME CallsInv, NEW t \in Threads, NEW pc, Moves(t, pc),
           call[t].pc \notin {"close_send", "close_lock"},
           pc \notin {"woken", "wait_data", "wait_room", "close_send", "close_lock", "close_recv", "close_end"},
           UNCHANGED <<option, flag, sndUsed, receiver>>, Taken \/ UNCHANGED <<rcvUsed, early>>
    PROVE  CallsInv'
<1>0. Taken
  BY NothingTaken DEF CallsInv
<1>1. CallsShape' /\ OnlyBlocking' /\ ClosersClose'
  BY <1>0 DEF CallsInv, CallsShape, OnlyBlocking, ClosersClose, Moves, Taken
<1>2. /\ Calls!Alive' = Calls!Alive /\ Calls!BrokenSilently' = Calls!BrokenSilently
      /\ (rcvUsed = early => rcvUsed' = early') /\ \A len : Calls!NoRoom(len)' = Calls!NoRoom(len)
  BY <1>0 DEF Calls!Alive, Calls!BrokenSilently, Calls!NoRoom, Taken
<1> QED
  BY <1>1, <1>2 DEF CallsInv, DataWoken, RoomWoken, Moves

\* The steps that begin to wait.
LEMMA WaitForData ==
    ASSUME CallsInv, NEW t \in Threads, Moves(t, "wait_data"), option.synRecving,
           option.timed \/ (rcvUsed = early /\ Calls!Alive),
           call[t].pc \notin {"close_send", "close_lock"},
           UNCHANGED <<option, flag, sndUsed, rcvUsed, early, receiver>>
    PROVE  CallsInv'
<1>1. CallsShape' /\ OnlyBlocking' /\ ClosersClose'
  BY DEF CallsInv, CallsShape, OnlyBlocking, ClosersClose, Moves
<1>2. Calls!Alive' = Calls!Alive /\ Calls!BrokenSilently' = Calls!BrokenSilently /\ \A len : Calls!NoRoom(len)' = Calls!NoRoom(len)
  BY DEF Calls!Alive, Calls!BrokenSilently, Calls!NoRoom
<1> QED
  BY <1>1, <1>2 DEF CallsInv, DataWoken, RoomWoken, Moves

LEMMA WaitForRoom ==
    ASSUME CallsInv, NEW t \in Threads, Moves(t, "wait_room"), option.synSending,
           Calls!NoRoom(call'[t].len), Calls!Alive,
           call[t].pc \notin {"close_send", "close_lock"},
           UNCHANGED <<option, flag, sndUsed, rcvUsed, early, receiver>>
    PROVE  CallsInv'
<1>1. CallsShape' /\ OnlyBlocking' /\ ClosersClose'
  BY DEF CallsInv, CallsShape, OnlyBlocking, ClosersClose, Moves
<1>2. Calls!Alive' = Calls!Alive /\ Calls!BrokenSilently' = Calls!BrokenSilently /\ \A len : Calls!NoRoom(len)' = Calls!NoRoom(len)
  BY DEF Calls!Alive, Calls!BrokenSilently, Calls!NoRoom
<1> QED
  BY <1>1, <1>2 DEF CallsInv, DataWoken, RoomWoken, Moves

LEMMA GoOnReading ==
    ASSUME CallsInv, NEW t \in Threads, Moves(t, "woken"), option.synRecving,
           call[t].pc \notin {"close_send", "close_lock"},
           UNCHANGED <<option, flag, sndUsed, rcvUsed, early, receiver>>
    PROVE  CallsInv'
<1>1. CallsShape' /\ OnlyBlocking' /\ ClosersClose'
  BY DEF CallsInv, CallsShape, OnlyBlocking, ClosersClose, Moves
<1>2. Calls!Alive' = Calls!Alive /\ Calls!BrokenSilently' = Calls!BrokenSilently /\ \A len : Calls!NoRoom(len)' = Calls!NoRoom(len)
  BY DEF Calls!Alive, Calls!BrokenSilently, Calls!NoRoom
<1> QED
  BY <1>1, <1>2 DEF CallsInv, DataWoken, RoomWoken, Moves
-----------------------------------------------------------------------------
LEMMA PollSteps ==
    ASSUME CallsInv, NEW t \in Threads
    PROVE  (\/ Calls!addEPoll(t) \/ Calls!AddRead(t) \/ Calls!AddWrite(t) \/ Calls!remove_usock(t) \/ Calls!wait(t) \/ Calls!select(t) \/ Calls!SelectBegin(t)
            \/ \E e \in Epolls : Calls!removeEPoll(t, e) \/ Calls!WaitBegin(t, e) \/ \E ev \in PollEvents : Calls!add_usock(t, e, ev))
           => CallsInv'
<1>1. ASSUME Calls!addEPoll(t) PROVE CallsInv'
  <2>1. \E pc \in {"add_read", "idle"} : Calls!Goto(t, pc)
    BY <1>1 DEF Calls!addEPoll
  <2> QED
    BY <1>1, <2>1, GotoMoves, OtherSteps DEF Calls!addEPoll, CallsInv, CallsShape
<1>2. ASSUME Calls!AddRead(t) PROVE CallsInv'
  BY <1>2, GotoMoves, OtherSteps DEF Calls!AddRead, CallsInv, CallsShape
<1>3. ASSUME Calls!AddWrite(t) PROVE CallsInv'
  BY <1>3, ReturnMoves, OtherSteps DEF Calls!AddWrite, CallsInv, CallsShape
<1>4. ASSUME Calls!remove_usock(t) PROVE CallsInv'
  BY <1>4, ReturnMoves, OtherSteps DEF Calls!remove_usock, CallsInv, CallsShape
<1>5. ASSUME Calls!wait(t) PROVE CallsInv'
  BY <1>5, ReturnMoves, OtherSteps DEF Calls!wait, CallsInv, CallsShape
<1>6. ASSUME Calls!select(t) PROVE CallsInv'
  BY <1>6, ReturnMoves, OtherSteps DEF Calls!select, CallsInv, CallsShape
<1>7. ASSUME Calls!SelectBegin(t) PROVE CallsInv'
  <2>1. Moves(t, "select")
    BY <1>7, BeginMoves DEF Calls!SelectBegin, CallsInv
  <2> QED
    BY <1>7, <2>1, OtherSteps DEF Calls!SelectBegin, CallsInv, CallsShape, Calls!Idle
<1>8. ASSUME NEW e \in Epolls, Calls!removeEPoll(t, e) PROVE CallsInv'
  <2>1. Moves(t, "remove")
    BY <1>8, BeginMoves DEF Calls!removeEPoll, CallsInv
  <2>2. call[t] = Calls!Idle /\ UNCHANGED <<option, flag, sndUsed, rcvUsed, early, receiver>>
    BY <1>8 DEF Calls!removeEPoll
  <2> QED
    BY <2>1, <2>2, OtherSteps DEF CallsInv, CallsShape, Calls!Idle
<1>9. ASSUME NEW e \in Epolls, Calls!WaitBegin(t, e) PROVE CallsInv'
  <2>1. Moves(t, "wait")
    BY <1>9, BeginMoves DEF Calls!WaitBegin, CallsInv
  <2> QED
    BY <1>9, <2>1, OtherSteps DEF Calls!WaitBegin, CallsInv, CallsShape, Calls!Idle
<1>10. ASSUME NEW e \in Epolls, NEW ev \in PollEvents, Calls!add_usock(t, e, ev) PROVE CallsInv'
  <2>1. Moves(t, "add")
    BY <1>10, BeginMoves DEF Calls!add_usock, CallsInv
  <2> QED
    BY <1>10, <2>1, OtherSteps DEF Calls!add_usock, CallsInv, CallsShape, Calls!Idle
<1> QED
  BY <1>1, <1>2, <1>3, <1>4, <1>5, <1>6, <1>7, <1>8, <1>9, <1>10

\* With more in the buffer there is no more room.
LEMMA LessRoom == \A a, b, c, d \in Nat : b >= a /\ d - a < c => d - b < c
  OBVIOUS

LEMMA SendSteps ==
    ASSUME CallsInv, NEW t \in Threads
    PROVE  (\/ Calls!SendBegin(t, 1) \/ Calls!SendBegin(t, SndPackets) \/ Calls!SendWaits(t) \/ Calls!SendFails(t) \/ Calls!addBuffer(t)
            \/ Calls!SendEnd(t) \/ Calls!DisableWrite(t)) => CallsInv'
<1>1. ASSUME NEW len \in Nat, Calls!SendBegin(t, len) PROVE CallsInv'
  <2>1. Moves(t, "send")
    BY <1>1, BeginMoves DEF Calls!SendBegin, CallsInv
  <2> QED
    BY <1>1, <2>1, OtherSteps DEF Calls!SendBegin, CallsInv, CallsShape, Calls!Idle
<1>2. ASSUME Calls!SendWaits(t) PROVE CallsInv'
  <2>1. CASE option.synSending
    <3>1. Calls!Goto(t, "wait_room")
      BY <1>2, <2>1 DEF Calls!SendWaits
    <3>2. Moves(t, "wait_room") /\ call'[t].len = call[t].len
      BY <3>1, GotoMoves DEF CallsInv
    <3> QED
      BY <1>2, <2>1, <3>2, WaitForRoom DEF Calls!SendWaits
  <2>2. CASE ~option.synSending
    <3>1. Calls!Goto(t, "idle")
      BY <1>2, <2>2 DEF Calls!SendWaits
    <3> QED
      BY <1>2, <3>1, GotoMoves, OtherSteps DEF Calls!SendWaits, CallsInv, CallsShape
  <2> QED
    BY <2>1, <2>2
<1>3. ASSUME Calls!SendFails(t) PROVE CallsInv'
  BY <1>3, ReturnMoves, OtherSteps DEF Calls!SendFails, CallsInv, CallsShape
<1>4. ASSUME Calls!addBuffer(t) PROVE CallsInv'
  <2>1. Moves(t, "sent") /\ UNCHANGED <<option, flag, rcvUsed, early, receiver>> /\ call[t].pc = "send"
    BY <1>4, GotoMoves DEF Calls!addBuffer, CallsInv
  <2>2. sndUsed' \in Nat /\ sndUsed' >= sndUsed
    BY <1>4, CallsAssumption DEF Calls!addBuffer, Calls!NoRoom, CallsInv, CallsShape
  <2>3. CallsShape' /\ OnlyBlocking' /\ ClosersClose'
    BY <2>1, <2>2 DEF CallsInv, CallsShape, OnlyBlocking, ClosersClose, Moves
  <2>4. Calls!Alive' = Calls!Alive /\ Calls!BrokenSilently' = Calls!BrokenSilently
    BY <2>1 DEF Calls!Alive, Calls!BrokenSilently
  <2>5. ASSUME NEW len \in Nat, Calls!NoRoom(len) PROVE Calls!NoRoom(len)'
    <3> DEFINE need == IF option.stream THEN 1 ELSE len
    <3>1. need \in Nat /\ sndUsed \in Nat
      BY DEF CallsInv, CallsShape
    <3>2. SndPackets - sndUsed < need
      BY <2>5 DEF Calls!NoRoom
    <3> HIDE DEF need
    <3>3. SndPackets - sndUsed' < need
      BY <2>2, <3>1, <3>2, LessRoom, CallsAssumption
    <3> QED
      BY <2>1, <3>3 DEF Calls!NoRoom, need
  <2> QED
    BY <2>1, <2>3, <2>4, <2>5 DEF CallsInv, DataWoken, RoomWoken, Moves, CallsShape
<1>5. ASSUME Calls!SendEnd(t) PROVE CallsInv'
  <2>1. \E pc \in {"disable_write", "idle"} : Calls!Goto(t, pc)
    BY <1>5 DEF Calls!SendEnd
  <2> QED
    BY <1>5, <2>1, GotoMoves, OtherSteps DEF Calls!SendEnd, CallsInv, CallsShape
<1>6. ASSUME Calls!DisableWrite(t) PROVE CallsInv'
  BY <1>6, ReturnMoves, OtherSteps DEF Calls!DisableWrite, CallsInv, CallsShape
<1> QED
  BY <1>1, <1>2, <1>3, <1>4, <1>5, <1>6, CallsAssumption

LEMMA RecvSteps ==
    ASSUME CallsInv, NEW t \in Threads
    PROVE  (\/ Calls!RecvBegin(t) \/ Calls!RecvStream(t) \/ Calls!readBuffer(t) \/ Calls!RecvMsgBroken(t) \/ Calls!RecvMsgAsync(t) \/ Calls!RecvMsg(t)
            \/ Calls!RecvMsgLoop(t) \/ Calls!RecvTimesOut(t) \/ Calls!RecvMsgEnd(t) \/ Calls!RecvEnd(t) \/ Calls!DisableRead(t)) => CallsInv'
<1>1. ASSUME Calls!RecvBegin(t) PROVE CallsInv'
  <2>1. Moves(t, "recv")
    BY <1>1, BeginMoves DEF Calls!RecvBegin, CallsInv
  <2> QED
    BY <1>1, <2>1, OtherSteps DEF Calls!RecvBegin, CallsInv, CallsShape, Calls!Idle
<1>2. ASSUME Calls!RecvStream(t) PROVE CallsInv'
  <2>1. CASE rcvUsed > 0
    BY <1>2, <2>1, GotoMoves, OtherSteps DEF Calls!RecvStream, CallsInv, CallsShape
  <2>2. CASE ~(rcvUsed > 0) /\ (~option.synRecving \/ ~Calls!Alive)
    BY <1>2, <2>2, ReturnMoves, OtherSteps DEF Calls!RecvStream, CallsInv, CallsShape
  <2>3. CASE ~(rcvUsed > 0) /\ option.synRecving /\ Calls!Alive
    <3>1. rcvUsed = early /\ Calls!Goto(t, "wait_data")
      BY <1>2, <2>3 DEF Calls!RecvStream, CallsInv, CallsShape
    <3> QED
      BY <1>2, <2>3, <3>1, GotoMoves, WaitForData DEF Calls!RecvStream, CallsInv
  <2> QED
    BY <2>1, <2>2, <2>3
<1>3. ASSUME Calls!readBuffer(t) PROVE CallsInv'
  <2>1. Calls!Take(t, "received") \/ (Calls!Return(t) /\ UNCHANGED <<rcvUsed, early>>)
    BY <1>3, Zenon DEF Calls!readBuffer
  <2>2. \E pc \in {"received", "idle"} : Moves(t, pc) /\ Taken
    BY <2>1, TakeMoves, ReturnMoves, NothingTaken DEF CallsInv
  <2> QED
    BY <1>3, <2>2, OtherSteps DEF Calls!readBuffer
<1>4. ASSUME Calls!RecvMsgBroken(t) PROVE CallsInv'
  BY <1>4, TakeMoves, OtherSteps DEF Calls!RecvMsgBroken, CallsInv
<1>5. ASSUME Calls!RecvMsgAsync(t) PROVE CallsInv'
  BY <1>5, TakeMoves, OtherSteps DEF Calls!RecvMsgAsync, CallsInv
<1>6. ASSUME Calls!RecvMsg(t) PROVE CallsInv'
  <2>1. CASE option.timed
    <3>1. /\ Calls!Goto(t, "wait_data") /\ call[t].pc = "recv" /\ option.synRecving
          /\ UNCHANGED <<option, flag, sndUsed, rcvUsed, early, receiver>>
      BY <1>6, <2>1 DEF Calls!RecvMsg
    <3>2. Moves(t, "wait_data")
      BY <3>1, GotoMoves DEF CallsInv
    <3> QED
      BY <2>1, <3>1, <3>2, WaitForData
  <2>2. CASE ~option.timed
    <3>1. Calls!Goto(t, "woken")
      BY <1>6, <2>2 DEF Calls!RecvMsg
    <3> QED
      BY <1>6, <3>1, GotoMoves, GoOnReading DEF Calls!RecvMsg, CallsInv
  <2> QED
    BY <2>1, <2>2
<1>7. ASSUME Calls!RecvMsgLoop(t) PROVE CallsInv'
  <2>1. CASE option.timed \/ (Calls!Alive /\ rcvUsed > 0)
    <3>1. Calls!Take(t, "took")
      BY <1>7, <2>1 DEF Calls!RecvMsgLoop
    <3> QED
      BY <1>7, <3>1, TakeMoves, OtherSteps DEF Calls!RecvMsgLoop, CallsInv
  <2>2. CASE ~(option.timed \/ (Calls!Alive /\ rcvUsed > 0)) /\ Calls!Alive
    <3>1. rcvUsed = early /\ Calls!Goto(t, "wait_data") /\ UNCHANGED <<rcvUsed, early>>
      BY <1>7, <2>2 DEF Calls!RecvMsgLoop, CallsInv, CallsShape
    <3>2. option.synRecving
      BY <1>7 DEF Calls!RecvMsgLoop, CallsInv, OnlyBlocking
    <3> QED
      BY <1>7, <2>2, <3>1, <3>2, GotoMoves, WaitForData DEF Calls!RecvMsgLoop, CallsInv
  <2>3. CASE ~(option.timed \/ (Calls!Alive /\ rcvUsed > 0)) /\ ~Calls!Alive
    <3>1. Calls!Goto(t, "took") /\ UNCHANGED <<rcvUsed, early>>
      BY <1>7, <2>3 DEF Calls!RecvMsgLoop
    <3> QED
      BY <1>7, <3>1, GotoMoves, OtherSteps DEF Calls!RecvMsgLoop, CallsInv, CallsShape
  <2> QED
    BY <2>1, <2>2, <2>3
<1>8. ASSUME Calls!RecvTimesOut(t) PROVE CallsInv'
  <2>1. \/ Calls!Goto(t, "read") /\ UNCHANGED <<rcvUsed, early>>
        \/ Calls!Take(t, "took")
    BY <1>8 DEF Calls!RecvTimesOut
  <2>2. \E pc \in {"read", "took"} : Moves(t, pc) /\ Taken
    BY <2>1, TakeMoves, GotoMoves, NothingTaken DEF CallsInv
  <2> QED
    BY <1>8, <2>2, OtherSteps DEF Calls!RecvTimesOut
<1>9. ASSUME Calls!RecvMsgEnd(t) PROVE CallsInv'
  <2>1. \E pc \in {"received", "idle"} : Calls!Goto(t, pc)
    BY <1>9 DEF Calls!RecvMsgEnd
  <2>2. \E pc \in {"received", "idle"} : Moves(t, pc)
    BY <2>1, GotoMoves DEF CallsInv
  <2> QED
    BY <1>9, <2>2, OtherSteps DEF Calls!RecvMsgEnd, CallsInv, CallsShape
<1>10. ASSUME Calls!RecvEnd(t) PROVE CallsInv'
  <2>1. \E pc \in {"disable_read", "idle"} : Calls!Goto(t, pc)
    BY <1>10 DEF Calls!RecvEnd
  <2> QED
    BY <1>10, <2>1, GotoMoves, OtherSteps DEF Calls!RecvEnd, CallsInv, CallsShape
<1>11. ASSUME Calls!DisableRead(t) PROVE CallsInv'
  BY <1>11, ReturnMoves, OtherSteps DEF Calls!DisableRead, CallsInv, CallsShape
<1> QED
  BY <1>1, <1>2, <1>3, <1>4, <1>5, <1>6, <1>7, <1>8, <1>9, <1>10, <1>11
-----------------------------------------------------------------------------
\* Everybody who waits for room, or for data, is awake after the signal.
LEMMA SendersWake ==
    ASSUME CallsShape
    PROVE  /\ DOMAIN Calls!WakeSender = Threads
           /\ \A s \in Threads : /\ DOMAIN Calls!WakeSender[s] = {"pc", "eid", "len"}
                                 /\ Calls!WakeSender[s].len = call[s].len
                                 /\ Calls!WakeSender[s].pc # "wait_room"
                                 /\ \/ Calls!WakeSender[s] = call[s]
                                    \/ call[s].pc = "wait_room" /\ Calls!WakeSender[s].pc = "send"
  BY DEF Calls!WakeSender, CallsShape

LEMMA ReceiversWake ==
    ASSUME CallsShape
    PROVE  /\ DOMAIN Calls!WakeReceiver = Threads
           /\ \A s \in Threads : /\ DOMAIN Calls!WakeReceiver[s] = {"pc", "eid", "len"}
                                 /\ Calls!WakeReceiver[s].len = call[s].len
                                 /\ Calls!WakeReceiver[s].pc # "wait_data"
                                 /\ \/ Calls!WakeReceiver[s] = call[s]
                                    \/ call[s].pc = "wait_data" /\ Calls!WakeReceiver[s].pc \in {"recv", "woken"}
  BY DEF Calls!WakeReceiver, CallsShape

LEMMA CloseSteps ==
    ASSUME CallsInv, NEW t \in Threads
    PROVE  Calls!CloseBegin(t) \/ Calls!CloseSend(t) \/ Calls!CloseRecv(t) \/ Calls!CloseUdt(t) \/ Calls!CloseEnd(t) => CallsInv'
<1>1. ASSUME Calls!CloseBegin(t) PROVE CallsInv'
  <2>1. Moves(t, "close_send") /\ UNCHANGED <<option, sndUsed, rcvUsed, early, receiver>>
    BY <1>1, BeginMoves DEF Calls!CloseBegin, CallsInv
  <2>2. flag' = [flag EXCEPT !.closing = TRUE]
    BY <1>1 DEF Calls!CloseBegin
  <2>3. DOMAIN flag' = DOMAIN flag /\ flag'.closing
    BY <2>2 DEF CallsInv, CallsShape
  <2> QED
    BY <2>1, <2>3 DEF CallsInv, CallsShape, OnlyBlocking, ClosersClose, DataWoken, RoomWoken, Moves
<1>2. ASSUME Calls!CloseSend(t) PROVE CallsInv'
  <2>1. /\ call[t].pc = "close_send" /\ call' = [Calls!WakeSender EXCEPT ![t].pc = "close_lock"]
        /\ UNCHANGED <<option, flag, sndUsed, rcvUsed, early, receiver>>
    BY <1>2 DEF Calls!CloseSend
  <2>2. /\ DOMAIN call' = Threads /\ \A s \in Threads : s # t => call'[s] = Calls!WakeSender[s]
        /\ DOMAIN call'[t] = {"pc", "eid", "len"} /\ call'[t].len = call[t].len /\ call'[t].pc = "close_lock"
    BY <2>1, SendersWake DEF CallsInv
  <2>3. Calls!Alive' = Calls!Alive /\ Calls!BrokenSilently' = Calls!BrokenSilently
    BY <2>1 DEF Calls!Alive, Calls!BrokenSilently
  <2>4. \A s \in Threads : call'[s].pc = "wait_data" => call[s].pc = "wait_data"
    BY <2>2, SendersWake DEF CallsInv
  <2>5. \A s \in Threads : call'[s].pc # "wait_room"
    BY <2>2, SendersWake DEF CallsInv
  <2>6. CallsShape' /\ OnlyBlocking' /\ ClosersClose'
    BY <2>1, <2>2, SendersWake DEF CallsInv, CallsShape, OnlyBlocking, ClosersClose
  <2> QED
    BY <2>2, <2>5, <2>6 DEF CallsInv, DataWoken, RoomWoken
<1>3. ASSUME Calls!CloseRecv(t) PROVE CallsInv'
  <2>1. /\ call[t].pc = "close_lock" /\ call' = [Calls!WakeReceiver EXCEPT ![t].pc = "close_recv"] /\ Calls!At(Calls!Sending) = {}
        /\ UNCHANGED <<option, flag, sndUsed, rcvUsed, early, receiver>>
    BY <1>3 DEF Calls!CloseRecv
  <2>2. /\ DOMAIN call' = Threads /\ \A s \in Threads : s # t => call'[s] = Calls!WakeReceiver[s]
        /\ DOMAIN call'[t] = {"pc", "eid", "len"} /\ call'[t].len = call[t].len /\ call'[t].pc = "close_recv"
    BY <2>1, ReceiversWake DEF CallsInv
  <2>3. \A s \in Threads : call'[s].pc \notin {"wait_data", "wait_room"}
    BY <2>1, <2>2, ReceiversWake DEF CallsInv, Calls!At, Calls!Sending
  <2>4. CallsShape' /\ OnlyBlocking' /\ ClosersClose'
    BY <2>1, <2>2, ReceiversWake DEF CallsInv, CallsShape, OnlyBlocking, ClosersClose
  <2> QED
    BY <2>3, <2>4 DEF CallsInv, DataWoken, RoomWoken
<1>4. ASSUME Calls!CloseUdt(t) \/ Calls!CloseEnd(t) PROVE CallsInv'
  <2>1. /\ \E pc \in {"close_end", "idle"} : Calls!Goto(t, pc) \/ (pc = "idle" /\ Calls!Return(t))
        /\ call[t].pc \in {"close_recv", "close_end"} /\ UNCHANGED <<option, sndUsed, rcvUsed, early, receiver>>
        /\ flag' = [flag EXCEPT !.connected = FALSE] \/ flag' = [flag EXCEPT !.opened = FALSE]
    BY <1>4 DEF Calls!CloseUdt, Calls!CloseEnd
  <2>2. PICK pc \in {"close_end", "idle"} : Moves(t, pc)
    BY <2>1, GotoMoves, ReturnMoves DEF CallsInv
  <2>3. flag.closing
    BY <2>1 DEF CallsInv, ClosersClose
  <2>4. DOMAIN flag' = DOMAIN flag /\ flag'.closing
    BY <2>1, <2>3 DEF CallsInv, CallsShape
  <2>5. ~Calls!Alive /\ ~Calls!BrokenSilently
    BY <2>3 DEF Calls!Alive, Calls!BrokenSilently
  <2> QED
    BY <2>1, <2>2, <2>4, <2>5 DEF CallsInv, CallsShape, OnlyBlocking, ClosersClose, DataWoken, RoomWoken, Moves
<1> QED
  BY <1>1, <1>2, <1>3, <1>4
-----------------------------------------------------------------------------
\* The worker signals everybody who waits, or nobody when the socket does not block.
LEMMA WorkerSteps == ASSUME CallsInv PROVE Calls!WorkerStep => CallsInv'
<1>1. ASSUME Calls!SignalData PROVE CallsInv'
  <2>1. /\ UNCHANGED <<option, flag, sndUsed, rcvUsed>> /\ receiver' = [receiver EXCEPT !.pc = "enable_read"] /\ early' = 0
        /\ receiver.pc = "signal_data" /\ call' = IF option.synRecving THEN Calls!WakeReceiver ELSE call
    BY <1>1 DEF Calls!SignalData
  <2>2. \A s \in Threads : /\ call'[s].pc # "wait_data"
                           /\ call'[s] = call[s] \/ (call[s].pc = "wait_data" /\ call'[s].pc \in {"recv", "woken"})
                           /\ DOMAIN call'[s] = {"pc", "eid", "len"} /\ call'[s].len = call[s].len
    <3>1. CASE option.synRecving
      BY <2>1, <3>1, ReceiversWake DEF CallsInv
    <3>2. CASE ~option.synRecving
      BY <2>1, <3>2 DEF CallsInv, OnlyBlocking, CallsShape
    <3> QED
      BY <3>1, <3>2
  <2>3. DOMAIN call' = Threads /\ DOMAIN receiver' = DOMAIN receiver
    BY <2>1, ReceiversWake DEF CallsInv, CallsShape
  <2>4. CallsShape' /\ OnlyBlocking' /\ ClosersClose'
    BY <2>1, <2>2, <2>3 DEF CallsInv, CallsShape, OnlyBlocking, ClosersClose
  <2>5. Calls!Alive' = Calls!Alive /\ Calls!BrokenSilently' = Calls!BrokenSilently /\ \A len : Calls!NoRoom(len)' = Calls!NoRoom(len)
    BY <2>1 DEF Calls!Alive, Calls!BrokenSilently, Calls!NoRoom
  <2> QED
    BY <2>1, <2>2, <2>4, <2>5 DEF CallsInv, DataWoken, RoomWoken
<1>2. ASSUME Calls!SignalRoom PROVE CallsInv'
  <2>1. /\ UNCHANGED <<option, flag, sndUsed, rcvUsed, early>> /\ receiver' = [receiver EXCEPT !.pc = "enable_write"]
        /\ receiver.pc = "signal_room" /\ call' = IF option.synSending THEN Calls!WakeSender ELSE call
    BY <1>2 DEF Calls!SignalRoom
  <2>2. \A s \in Threads : /\ call'[s].pc # "wait_room"
                           /\ call'[s] = call[s] \/ (call[s].pc = "wait_room" /\ call'[s].pc = "send")
                           /\ DOMAIN call'[s] = {"pc", "eid", "len"} /\ call'[s].len = call[s].len
    <3>1. CASE option.synSending
      BY <2>1, <3>1, SendersWake DEF CallsInv
    <3>2. CASE ~option.synSending
      BY <2>1, <3>2 DEF CallsInv, OnlyBlocking, CallsShape
    <3> QED
      BY <3>1, <3>2
  <2>3. DOMAIN call' = Threads /\ DOMAIN receiver' = DOMAIN receiver
    BY <2>1, SendersWake DEF CallsInv, CallsShape
  <2>4. CallsShape' /\ OnlyBlocking' /\ ClosersClose'
    BY <2>1, <2>2, <2>3 DEF CallsInv, CallsShape, OnlyBlocking, ClosersClose
  <2>5. Calls!Alive' = Calls!Alive /\ Calls!BrokenSilently' = Calls!BrokenSilently
    BY <2>1 DEF Calls!Alive, Calls!BrokenSilently
  <2> QED
    BY <2>1, <2>2, <2>4, <2>5 DEF CallsInv, DataWoken, RoomWoken
<1>3. ASSUME Calls!ReleaseSend PROVE CallsInv'
  <2>1. /\ UNCHANGED <<option, flag, sndUsed, rcvUsed, early>> /\ receiver' = [receiver EXCEPT !.pc = "lock_send"]
        /\ receiver.pc = "release_send" /\ call' = Calls!WakeSender
    BY <1>3 DEF Calls!ReleaseSend
  <2>2. DOMAIN receiver' = DOMAIN receiver /\ receiver'.pc = "lock_send"
    BY <2>1 DEF CallsInv, CallsShape
  <2>3. CallsShape' /\ OnlyBlocking' /\ ClosersClose'
    BY <2>1, <2>2, SendersWake DEF CallsInv, CallsShape, OnlyBlocking, ClosersClose
  <2> QED
    BY <2>1, <2>2, <2>3, SendersWake DEF CallsInv, DataWoken, RoomWoken
<1>4. ASSUME Calls!ReleaseRecv PROVE CallsInv'
  <2>1. /\ UNCHANGED <<option, flag, sndUsed, rcvUsed, early>> /\ receiver' = [receiver EXCEPT !.pc = "lock_recv"]
        /\ Calls!At(Calls!Sending) = {} /\ call' = Calls!WakeReceiver
    BY <1>4 DEF Calls!ReleaseRecv
  <2>2. DOMAIN receiver' = DOMAIN receiver
    BY <2>1 DEF CallsInv, CallsShape
  <2>3. \A s \in Threads : call'[s].pc \notin {"wait_data", "wait_room"}
    BY <2>1, ReceiversWake DEF CallsInv, Calls!At, Calls!Sending
  <2>4. CallsShape' /\ OnlyBlocking' /\ ClosersClose'
    BY <2>1, <2>2, ReceiversWake DEF CallsInv, CallsShape, OnlyBlocking, ClosersClose
  <2> QED
    BY <2>3, <2>4 DEF CallsInv, DataWoken, RoomWoken
<1>5. ASSUME Calls!EnableRead \/ Calls!EnableWrite \/ Calls!Released PROVE CallsInv'
  <2>1. /\ UNCHANGED <<option, flag, sndUsed, rcvUsed, early, call>>
        /\ receiver.pc \in {"enable_read", "enable_write", "lock_recv"}
    BY <1>5 DEF Calls!EnableRead, Calls!EnableWrite, Calls!Released
  <2>2. DOMAIN receiver' = {"pc", "tells"}
    BY <1>5 DEF Calls!EnableRead, Calls!EnableWrite, Calls!Released, CallsInv, CallsShape
  <2>3. CallsShape' /\ OnlyBlocking' /\ ClosersClose'
    BY <2>1, <2>2 DEF CallsInv, CallsShape, OnlyBlocking, ClosersClose
  <2>4. Calls!Alive' = Calls!Alive /\ Calls!BrokenSilently' = Calls!BrokenSilently /\ \A len : Calls!NoRoom(len)' = Calls!NoRoom(len)
    BY <2>1 DEF Calls!Alive, Calls!BrokenSilently, Calls!NoRoom
  <2> QED
    BY <2>1, <2>3, <2>4 DEF CallsInv, DataWoken, RoomWoken
<1> QED
  BY <1>1, <1>2, <1>3, <1>4, <1>5 DEF Calls!WorkerStep

LEMMA WorkerBeginSteps == ASSUME CallsInv PROVE Calls!WorkerBegins => CallsInv'
<1>1. ASSUME NEW n \in 0 .. RcvPackets, Calls!rcvAckData(n) PROVE CallsInv'
  <2>1. /\ UNCHANGED <<option, flag, sndUsed, early, call>> /\ receiver' = [receiver EXCEPT !.pc = "signal_data"]
        /\ rcvUsed' = rcvUsed + n /\ receiver.pc = "idle"
    BY <1>1 DEF Calls!rcvAckData
  <2>2. DOMAIN receiver' = DOMAIN receiver /\ receiver'.pc = "signal_data" /\ rcvUsed' \in Nat /\ early <= rcvUsed'
    BY <2>1 DEF CallsInv, CallsShape
  <2>3. Calls!Alive' = Calls!Alive /\ Calls!BrokenSilently' = Calls!BrokenSilently /\ \A len : Calls!NoRoom(len)' = Calls!NoRoom(len)
    BY <2>1 DEF Calls!Alive, Calls!BrokenSilently, Calls!NoRoom
  <2>4. CallsShape' /\ OnlyBlocking' /\ ClosersClose'
    BY <2>1, <2>2 DEF CallsInv, CallsShape, OnlyBlocking, ClosersClose
  <2> QED
    BY <2>1, <2>2, <2>3, <2>4 DEF CallsInv, DataWoken, RoomWoken
<1>2. ASSUME NEW n \in 1 .. SndPackets, Calls!ackData(n) PROVE CallsInv'
  <2>1. /\ UNCHANGED <<option, flag, rcvUsed, early, call>> /\ receiver' = [receiver EXCEPT !.pc = "signal_room"]
        /\ sndUsed' = sndUsed - n /\ n <= sndUsed /\ receiver.pc = "idle"
    BY <1>2 DEF Calls!ackData
  <2>2. DOMAIN receiver' = DOMAIN receiver /\ receiver'.pc = "signal_room" /\ sndUsed' \in Nat
    BY <2>1 DEF CallsInv, CallsShape
  <2>3. Calls!Alive' = Calls!Alive /\ Calls!BrokenSilently' = Calls!BrokenSilently
    BY <2>1 DEF Calls!Alive, Calls!BrokenSilently
  <2>4. CallsShape' /\ OnlyBlocking' /\ ClosersClose'
    BY <2>1, <2>2 DEF CallsInv, CallsShape, OnlyBlocking, ClosersClose
  <2> QED
    BY <2>1, <2>2, <2>3, <2>4 DEF CallsInv, DataWoken, RoomWoken
<1>3. ASSUME NEW tells \in BOOLEAN, Calls!Break(tells) PROVE CallsInv'
  <2>1. /\ UNCHANGED <<option, sndUsed, rcvUsed, early, call>> /\ receiver' = [pc |-> "release_send", tells |-> tells]
        /\ flag' = [flag EXCEPT !.closing = TRUE, !.broken = TRUE]
    BY <1>3 DEF Calls!Break
  <2>2. DOMAIN flag' = DOMAIN flag /\ flag'.closing
    BY <2>1 DEF CallsInv, CallsShape
  <2> QED
    BY <2>1, <2>2 DEF CallsInv, CallsShape, OnlyBlocking, ClosersClose, DataWoken, RoomWoken
<1>4. ASSUME Calls!addData PROVE CallsInv'
  <2>1. /\ UNCHANGED <<option, flag, sndUsed, call, receiver>>
        /\ rcvUsed' = rcvUsed + 1 /\ early' = early + 1
    BY <1>4 DEF Calls!addData
  <2>2. /\ rcvUsed' \in Nat /\ early' \in Nat /\ early' <= rcvUsed'
        /\ rcvUsed = early => rcvUsed' = early'
    BY <2>1 DEF CallsInv, CallsShape
  <2>3. Calls!Alive' = Calls!Alive /\ Calls!BrokenSilently' = Calls!BrokenSilently /\ \A len : Calls!NoRoom(len)' = Calls!NoRoom(len)
    BY <2>1 DEF Calls!Alive, Calls!BrokenSilently, Calls!NoRoom
  <2>4. CallsShape' /\ OnlyBlocking' /\ ClosersClose'
    BY <2>1, <2>2 DEF CallsInv, CallsShape, OnlyBlocking, ClosersClose
  <2> QED
    BY <2>1, <2>2, <2>3, <2>4 DEF CallsInv, DataWoken, RoomWoken
<1>5. ASSUME Calls!BreakSilently PROVE CallsInv'
  <2>1. /\ UNCHANGED <<option, sndUsed, rcvUsed, early, call, receiver>> /\ Calls!Alive
        /\ flag' = [flag EXCEPT !.broken = TRUE]
    BY <1>5 DEF Calls!BreakSilently
  <2>2. DOMAIN flag' = DOMAIN flag /\ flag'.closing = flag.closing /\ flag'.broken
    BY <2>1 DEF CallsInv, CallsShape
  <2>3. Calls!BrokenSilently'
    BY <2>1, <2>2 DEF Calls!BrokenSilently, Calls!Alive
  <2> QED
    BY <2>1, <2>2, <2>3 DEF CallsInv, CallsShape, OnlyBlocking, ClosersClose, DataWoken, RoomWoken
<1> QED
  BY <1>1, <1>2, <1>3, <1>4, <1>5 DEF Calls!WorkerBegins

LEMMA EpollSteps == ASSUME CallsInv, NEW e PROVE Calls!create(e) \/ Calls!release(e) => CallsInv'
<1> SUFFICES ASSUME Calls!create(e) \/ Calls!release(e) PROVE CallsInv'
  OBVIOUS
<1>1. UNCHANGED <<option, flag, sndUsed, rcvUsed, early, call, receiver>>
  BY DEF Calls!create, Calls!release
<1>2. Calls!Alive' = Calls!Alive /\ Calls!BrokenSilently' = Calls!BrokenSilently /\ \A len : Calls!NoRoom(len)' = Calls!NoRoom(len)
  BY <1>1 DEF Calls!Alive, Calls!BrokenSilently, Calls!NoRoom
<1> QED
  BY <1>1, <1>2 DEF CallsInv, CallsShape, OnlyBlocking, ClosersClose, DataWoken, RoomWoken

LEMMA InvInit == Calls!EpollInit => CallsInv
  BY DEF Calls!EpollInit, CallsInv, CallsShape, OnlyBlocking, ClosersClose, DataWoken, RoomWoken, Calls!Idle

LEMMA InvStep == ASSUME CallsInv, [Calls!EpollNext]_(Calls!epollVars) PROVE CallsInv'
<1>1. ASSUME NEW t \in Threads, Calls!CallStep(t) PROVE CallsInv'
  BY <1>1, PollSteps, SendSteps, RecvSteps, CloseSteps DEF Calls!CallStep
<1>2. ASSUME NEW t \in Threads, Calls!CallBegins(t) PROVE CallsInv'
  BY <1>2, PollSteps, SendSteps, RecvSteps, CloseSteps DEF Calls!CallBegins
<1>3. CASE UNCHANGED Calls!epollVars
  <2>1. Calls!Alive' = Calls!Alive /\ Calls!BrokenSilently' = Calls!BrokenSilently /\ \A len : Calls!NoRoom(len)' = Calls!NoRoom(len)
    BY <1>3 DEF Calls!epollVars, Calls!Alive, Calls!BrokenSilently, Calls!NoRoom
  <2> QED
    BY <1>3, <2>1 DEF Calls!epollVars, CallsInv, CallsShape, OnlyBlocking, ClosersClose, DataWoken, RoomWoken
<1> QED
  BY <1>1, <1>2, <1>3, EpollSteps, WorkerSteps, WorkerBeginSteps DEF Calls!EpollNext

\* A thread that waits in send, sendmsg, recv or recvmsg has nothing to do there, or the signal that
\* ends its wait is still to come, whoever closes or breaks the connection meanwhile; but for a message
\* that may be read out of order, and a connection broken by a control packet, which nobody signals.
THEOREM CallersWake == PartsSpec => []CallersAreWoken
<1>1. PartsInit => CallsInv
  BY InvInit DEF PartsInit
<1>2. CallsInv /\ [PartsNext]_partsVars => CallsInv'
  BY CallsMoves, InvStep
<1>3. CallsInv => CallersAreWoken
  BY BothWoken DEF CallsInv, CallersAreWoken
<1> QED
  BY <1>1, <1>2, <1>3, PTL DEF PartsSpec

-----------------------------------------------------------------------------
(* The handshake *)

\* What the two ends agree on.
Agreed == Handshake!MinOf(ClientMSS, ServerMSS)

HandshakeShape ==
    /\ DOMAIN client = {"isn", "call", "connecting", "connected", "reqType", "cookie", "mss", "flow", "res", "resIsn"}
    /\ DOMAIN server = Handshake!Try
    /\ \A i \in Handshake!Try : DOMAIN server[i] = {"state", "queued", "mss", "flow", "made"} /\ server[i].made \in Nat

\* Only a socket that is not connected yet connects, with the MSS it was opened with; only a call of
\* a blocking socket waits and has a result.
ClientAt ==
    /\ client.isn \in 0 .. MaxTries
    /\ client.connecting => client.isn \in Handshake!Try /\ ~client.connected
    /\ ~client.connected => client.mss = ClientMSS
    /\ client.call \in {"waits", "connected"} => Blocking

\* Who was accepted has a peer of its last try, with the MSS agreed on.
ConnectedAt ==
    client.call = "connected" /\ client.connected =>
        /\ client.isn \in Handshake!Try /\ client.isn = client.resIsn
        /\ server[client.isn].made > 0 /\ client.mss = Agreed

\* All connections of the listener have what the requests, which are all alike, asked for.
ServerAt ==
    \A i \in Handshake!Try :
        /\ server[i].made > 0 => server[i].mss = Agreed /\ server[i].flow = Handshake!Window("client")
        /\ server[i].state = "connected" => server[i].made > 0

Requests ==
    \A m \in net : m.to = "server" => m.isn \in Handshake!Try /\ m.mss = ClientMSS /\ m.flow = Handshake!Window("client")

\* Who is told to be connected has a peer, even if it is told again and late.
Answers ==
    \A m \in net : m.to = "client" /\ m.reqType = -1 =>
        m.isn \in Handshake!Try /\ server[m.isn].made > 0 /\ m.mss = Agreed

HandshakeInv == HandshakeShape /\ ClientAt /\ ConnectedAt /\ ServerAt /\ Requests /\ Answers /\ Handshake!BacklogIsKept

LEMMA QueuedIsFinite == ASSUME MaxTries \in Nat PROVE IsFiniteSet(Handshake!Queued) /\ Cardinality(Handshake!Queued) \in Nat
<1>1. IsFiniteSet(Handshake!Try)
  BY FS_Interval DEF Handshake!Try
<1>2. Handshake!Queued \in SUBSET Handshake!Try
  BY DEF Handshake!Queued
<1> QED
  BY <1>1, <1>2, FS_Subset, FS_CardinalityType

\* The instance has a Cardinality of its own.
LEMMA HandshakeCardinality == \A S : Handshake!Cardinality(S) = Cardinality(S)
  BY Zenon DEF Handshake!Cardinality, Cardinality

LEMMA Beginning == ASSUME Handshake!HandshakeInit PROVE HandshakeInv
<1>1. Handshake!Queued = {}
  BY DEF Handshake!HandshakeInit, Handshake!Queued, Handshake!NoServer
<1>2. Handshake!BacklogIsKept
  BY HandshakeAssumption, HandshakeCardinality, <1>1, FS_EmptySet DEF Handshake!BacklogIsKept
<1> QED
  BY HandshakeAssumption, <1>2 DEF HandshakeInv, Handshake!HandshakeInit, HandshakeShape, ClientAt, ConnectedAt, ServerAt, Requests, Answers, Handshake!NoServer, Handshake!Try
-----------------------------------------------------------------------------
(* Steps of the client *)

\* A packet that was sent before, or a request of the client.
LEMMA RequestIsAlike ==
    ASSUME NEW c, c.isn \in Handshake!Try, c.mss = ClientMSS
    PROVE  LET m == Handshake!Request(c) IN
           m.to = "server" /\ m.isn \in Handshake!Try /\ m.mss = ClientMSS /\ m.flow = Handshake!Window("client")
  BY DEF Handshake!Request

\* A step of the client that stays unconnected, and sends requests only.
LEMMA StillConnecting ==
    ASSUME HandshakeInv, server' = server, DOMAIN client' = DOMAIN client, ~client'.connected,
           client'.isn \in 0 .. MaxTries, client'.connecting => client'.isn \in Handshake!Try,
           client'.mss = ClientMSS, client'.call \in {"waits", "connected"} => Blocking,
           \A m \in net' : m \in net \/ (m = Handshake!Request(client') /\ client'.isn \in Handshake!Try)
    PROVE  HandshakeInv'
<1>1. HandshakeShape' /\ ClientAt' /\ ConnectedAt' /\ ServerAt' /\ Handshake!BacklogIsKept'
  BY DEF HandshakeInv, HandshakeShape, ClientAt, ConnectedAt, ServerAt, Handshake!BacklogIsKept, Handshake!Queued
<1>2. Requests' /\ Answers'
  BY RequestIsAlike DEF HandshakeInv, Requests, Answers
<1> QED
  BY <1>1, <1>2 DEF HandshakeInv

LEMMA ClientConnectKeeps == ASSUME HandshakeInv, Handshake!ClientConnect PROVE HandshakeInv'
<1>1. client' = [client EXCEPT !.isn = @ + 1, !.call = IF Blocking THEN "waits" ELSE "returned",
                               !.connecting = TRUE, !.reqType = 1]
  BY DEF Handshake!ClientConnect
<1>2. /\ DOMAIN client' = DOMAIN client /\ client'.isn = client.isn + 1 /\ client'.connected = client.connected
      /\ client'.mss = client.mss /\ client'.call = IF Blocking THEN "waits" ELSE "returned"
  BY <1>1 DEF HandshakeInv, HandshakeShape
<1>3. ~client'.connected /\ client'.mss = ClientMSS
  BY <1>2 DEF Handshake!ClientConnect, HandshakeInv, ClientAt
<1>4. client'.isn \in Handshake!Try /\ client'.isn \in 0 .. MaxTries
  BY HandshakeAssumption, <1>2 DEF Handshake!ClientConnect, HandshakeInv, ClientAt, Handshake!Try
<1>5. server' = server /\ net' = net \cup {Handshake!Request(client')}
  BY DEF Handshake!ClientConnect
<1> QED
  BY <1>2, <1>3, <1>4, <1>5, StillConnecting

LEMMA ClientResendKeeps == ASSUME HandshakeInv, Handshake!ClientResend PROVE HandshakeInv'
  BY StillConnecting DEF Handshake!ClientResend, HandshakeInv, ClientAt

LEMMA ClientTimesOutKeeps == ASSUME HandshakeInv, Handshake!ClientTimesOut PROVE HandshakeInv'
<1>1. client' = [client EXCEPT !.connecting = FALSE, !.call = IF @ = "waits" THEN "timeout" ELSE @]
  BY DEF Handshake!ClientTimesOut
<1>2. /\ DOMAIN client' = DOMAIN client /\ client'.isn = client.isn /\ client'.connected = client.connected
      /\ client'.mss = client.mss /\ ~client'.connecting
      /\ client'.call = IF client.call = "waits" THEN "timeout" ELSE client.call
  BY <1>1 DEF HandshakeInv, HandshakeShape
<1>3. /\ client.isn \in 0 .. MaxTries /\ ~client.connected /\ client.mss = ClientMSS
      /\ client.call \in {"waits", "connected"} => Blocking
  BY DEF Handshake!ClientTimesOut, HandshakeInv, ClientAt
<1>4. client'.call \in {"waits", "connected"} => Blocking
  BY <1>2, <1>3
<1>5. server' = server /\ \A x \in net' : x \in net
  BY DEF Handshake!ClientTimesOut
<1> QED
  BY <1>2, <1>3, <1>4, <1>5, StillConnecting

LEMMA OnCookieKeeps == ASSUME HandshakeInv, NEW m, Handshake!OnCookie(m) PROVE HandshakeInv'
<1>1. client' = [Handshake!Recorded(m) EXCEPT !.reqType = -1, !.cookie = m.cookie]
  BY DEF Handshake!OnCookie
<1>2. /\ DOMAIN client' = DOMAIN client /\ client'.isn = client.isn /\ client'.connected = client.connected
      /\ client'.mss = client.mss /\ client'.call = client.call
  BY <1>1 DEF HandshakeInv, HandshakeShape, Handshake!Recorded
<1>3. /\ client.isn \in 0 .. MaxTries /\ client.isn \in Handshake!Try /\ ~client.connected /\ client.mss = ClientMSS
      /\ client.call \in {"waits", "connected"} => Blocking
  BY DEF Handshake!OnCookie, Handshake!Handles, HandshakeInv, ClientAt
<1>4. client'.call \in {"waits", "connected"} => Blocking
  BY <1>2, <1>3
<1>5. server' = server /\ \A x \in net' : x \in net \/ x = Handshake!Request(client')
  BY DEF Handshake!OnCookie
<1> QED
  BY <1>2, <1>3, <1>4, <1>5, StillConnecting

LEMMA OnDataKeeps == ASSUME HandshakeInv, NEW m, Handshake!OnData(m) PROVE HandshakeInv'
<1>1. client' = Handshake!Ends(client)
  BY DEF Handshake!OnData
<1>2. /\ DOMAIN client' = DOMAIN client /\ client'.isn = client.isn /\ client'.connected = client.connected
      /\ client'.mss = client.mss /\ (client.call # "waits" => client'.call = client.call)
  BY <1>1 DEF HandshakeInv, HandshakeShape, Handshake!Ends
<1>3. /\ client.isn \in 0 .. MaxTries /\ client.isn \in Handshake!Try /\ ~client.connected /\ client.mss = ClientMSS
      /\ client.call \in {"waits", "connected"} => Blocking
  BY DEF Handshake!OnData, Handshake!Handles, HandshakeInv, ClientAt
<1>4. client'.call \in {"waits", "connected"} => Blocking
  BY <1>2, <1>3
<1>5. server' = server /\ \A x \in net' : x \in net
  BY DEF Handshake!OnData
<1> QED
  BY <1>2, <1>3, <1>4, <1>5, StillConnecting

\* The call ends well only if the answer is to this try.
LEMMA OnAnswerKeeps == ASSUME HandshakeInv, NEW m \in net, m.to = "client", Handshake!OnAnswer(m) PROVE HandshakeInv'
<1> DEFINE c == [Handshake!Recorded(m) EXCEPT !.connecting = FALSE, !.connected = TRUE, !.mss = m.mss, !.flow = m.flow]
<1>1. client' = Handshake!Ends(c) /\ server' = server /\ net' = net /\ HandshakeShape /\ client.isn \in Handshake!Try
  BY DEF Handshake!OnAnswer, Handshake!Connected, Handshake!Handles, HandshakeInv, ClientAt
<1>2. /\ DOMAIN c = DOMAIN client /\ c.isn = client.isn /\ c.connected /\ ~c.connecting /\ c.call = client.call
      /\ c.mss = m.mss /\ c.res = m.reqType /\ c.resIsn = m.isn
  BY <1>1 DEF Handshake!Recorded, HandshakeShape
<1> HIDE DEF c
<1>3. /\ DOMAIN client' = DOMAIN client /\ client'.isn = client.isn /\ client'.connected /\ ~client'.connecting
      /\ client'.mss = m.mss /\ client'.resIsn = m.isn
      /\ client'.call = IF client.call = "waits" THEN Handshake!Result(c) ELSE client.call
  BY <1>1, <1>2 DEF Handshake!Ends, HandshakeShape
<1>4. ConnectedAt'
  <2> SUFFICES ASSUME client'.call = "connected"
               PROVE  client.isn = m.isn /\ server[client.isn].made > 0 /\ m.mss = Agreed
    BY <1>1, <1>3 DEF ConnectedAt, Agreed
  <2>1. CASE client.call = "waits"
    <3>1. m.reqType # 1002 /\ client.isn = m.isn
      BY <1>2, <1>3, <2>1 DEF Handshake!Result
    <3>2. m.reqType = -1
      BY <3>1 DEF Handshake!OnAnswer
    <3> QED
      BY <3>1, <3>2 DEF HandshakeInv, Answers
  <2>2. CASE client.call # "waits"
    BY <1>3, <2>2 DEF Handshake!OnAnswer, Handshake!Handles, HandshakeInv, ClientAt
  <2> QED
    BY <2>1, <2>2
<1> QED
  BY <1>1, <1>3, <1>4 DEF HandshakeInv, HandshakeShape, ClientAt, ServerAt, Requests, Answers, Handshake!BacklogIsKept, Handshake!Queued
-----------------------------------------------------------------------------
(* Steps of the listener and its sockets *)

\* A step of the listener that makes no connection, and no queue longer.
LEMMA ListenerStep ==
    ASSUME HandshakeInv, client' = client, DOMAIN server' = Handshake!Try,
           \A i \in Handshake!Try :
              /\ DOMAIN server'[i] = DOMAIN server[i]
              /\ server'[i].queued => server[i].queued
              /\ server'[i].mss = server[i].mss /\ server'[i].flow = server[i].flow
              /\ server'[i].made = server[i].made
              /\ server'[i].state = server[i].state \/ server'[i].state = "broken",
           \A m \in net' :
              \/ m \in net
              \/ m.to = "client" /\ (m.reqType = -1 => m.isn \in Handshake!Try /\ server[m.isn].made > 0 /\ m.mss = Agreed)
    PROVE  HandshakeInv'
<1>1. HandshakeShape'
  BY DEF HandshakeInv, HandshakeShape
<1>2. ClientAt' /\ Requests'
  BY DEF HandshakeInv, ClientAt, Requests
<1>3. ConnectedAt'
  BY DEF HandshakeInv, ConnectedAt
<1>4. ServerAt'
  <2> SUFFICES ASSUME NEW i \in Handshake!Try
               PROVE  /\ server'[i].made > 0 => server'[i].mss = Agreed /\ server'[i].flow = Handshake!Window("client")
                      /\ server'[i].state = "connected" => server'[i].made > 0
    BY DEF ServerAt, Agreed, Handshake!Window, Handshake!MinOf
  <2>1. server'[i].state = "connected" => server[i].state = "connected"
    OBVIOUS
  <2>2. /\ server[i].made > 0 => server[i].mss = Agreed /\ server[i].flow = Handshake!Window("client")
        /\ server[i].state = "connected" => server[i].made > 0
    BY DEF HandshakeInv, ServerAt
  <2> QED
    BY <2>1, <2>2
<1>5. Answers'
  <2> SUFFICES ASSUME NEW x \in net', x.to = "client", x.reqType = -1
               PROVE  x.isn \in Handshake!Try /\ server'[x.isn].made > 0 /\ x.mss = Agreed
    BY DEF Answers, Agreed
  <2>1. x.isn \in Handshake!Try /\ server[x.isn].made > 0 /\ x.mss = Agreed
    BY DEF HandshakeInv, Answers
  <2> QED
    BY <2>1
<1>6. Handshake!BacklogIsKept'
  <2>1. Handshake!Queued' \in SUBSET Handshake!Queued
    <3> SUFFICES ASSUME NEW i \in Handshake!Queued' PROVE i \in Handshake!Queued
      OBVIOUS
    <3>1. i \in Handshake!Try /\ server'[i].queued
      BY DEF Handshake!Queued
    <3>2. server[i].queued
      BY <3>1
    <3> QED
      BY <3>1, <3>2 DEF Handshake!Queued
  <2>2. Cardinality(Handshake!Queued') <= Cardinality(Handshake!Queued) /\ Cardinality(Handshake!Queued) \in Nat /\ Cardinality(Handshake!Queued') \in Nat
    BY HandshakeAssumption, <2>1, QueuedIsFinite, FS_Subset, FS_CardinalityType
  <2> QED
    BY HandshakeAssumption, HandshakeCardinality, <2>2 DEF HandshakeInv, Handshake!BacklogIsKept
<1> QED
  BY <1>1, <1>2, <1>3, <1>4, <1>5, <1>6 DEF HandshakeInv

LEMMA SendCookieKeeps == ASSUME HandshakeInv, NEW m, Handshake!SendCookie(m) PROVE HandshakeInv'
<1> DEFINE a == Handshake!Answer(m, 1, minute, m.mss, m.flow)
<1>1. a.to = "client" /\ a.reqType # -1
  BY DEF Handshake!Answer
<1>2. client' = client /\ server' = server /\ net' = net \cup {a} /\ HandshakeShape
  BY DEF Handshake!SendCookie, HandshakeInv
<1> HIDE DEF a
<1> QED
  BY <1>1, <1>2, ListenerStep DEF HandshakeShape

LEMMA SendAgainKeeps == ASSUME HandshakeInv, NEW m \in net, m.to = "server", Handshake!SendAgain(m) PROVE HandshakeInv'
<1> DEFINE a == Handshake!Answer(m, -1, 0, server[m.isn].mss, ServerFlight)
<1>1. a.to = "client" /\ a.isn = m.isn /\ a.mss = server[m.isn].mss
  BY DEF Handshake!Answer
<1>2. m.isn \in Handshake!Try /\ server[m.isn].made > 0 /\ server[m.isn].mss = Agreed
  BY DEF Handshake!SendAgain, HandshakeInv, Requests, ServerAt
<1>3. client' = client /\ server' = server /\ net' = net \cup {a} /\ HandshakeShape
  BY DEF Handshake!SendAgain, HandshakeInv
<1> HIDE DEF a
<1> QED
  BY <1>1, <1>2, <1>3, ListenerStep DEF HandshakeShape

LEMMA RefuseKeeps == ASSUME HandshakeInv, NEW m \in net, m.to = "server", Handshake!Refuse(m) PROVE HandshakeInv'
<1> DEFINE a == Handshake!Answer(m, 1002, 0, m.mss, m.flow)
<1>1. a.to = "client" /\ a.reqType # -1
  BY DEF Handshake!Answer
<1>2. client' = client /\ net' = net \cup {a} /\ HandshakeShape /\ m.isn \in Handshake!Try
      /\ server' = [server EXCEPT ![m.isn].queued = FALSE]
  BY DEF Handshake!Refuse, HandshakeInv, Requests
<1> HIDE DEF a
<1> QED
  BY <1>1, <1>2, ListenerStep DEF HandshakeShape

LEMMA SocketKeeps ==
    ASSUME HandshakeInv, NEW i \in Handshake!Try, Handshake!Accept(i) \/ Handshake!ServerSends(i) \/ Handshake!ServerBreaks(i)
    PROVE  HandshakeInv'
<1>1. HandshakeShape
  BY DEF HandshakeInv
<1>2. CASE Handshake!Accept(i)
  BY <1>1, <1>2, ListenerStep DEF Handshake!Accept, HandshakeShape
<1>3. CASE Handshake!ServerBreaks(i)
  BY <1>1, <1>3, ListenerStep DEF Handshake!ServerBreaks, HandshakeShape
<1>4. CASE Handshake!ServerSends(i)
  <2>1. Handshake!Data(i).to = "client" /\ Handshake!Data(i).reqType # -1
    BY DEF Handshake!Data
  <2>2. client' = client /\ server' = server /\ net' = net \cup {Handshake!Data(i)}
    BY <1>4 DEF Handshake!ServerSends
  <2> QED
    BY <1>1, <2>1, <2>2, ListenerStep DEF HandshakeShape
<1> QED
  BY <1>2, <1>3, <1>4

\* The queue was measured without the socket that the new one replaces.
LEMMA NewConnectionKeeps ==
    ASSUME HandshakeInv, NEW m \in net, m.to = "server", Handshake!NewConnection(m) PROVE HandshakeInv'
<1> DEFINE s == [state |-> "connected", queued |-> TRUE, mss |-> Agreed,
                 flow |-> m.flow, made |-> server[m.isn].made + 1]
           a == Handshake!Answer(m, -1, m.cookie, Agreed, Handshake!Window("server"))
<1>1. m.isn \in Handshake!Try /\ m.mss = ClientMSS /\ m.flow = Handshake!Window("client") /\ HandshakeShape
  BY DEF HandshakeInv, Requests
<1>2. Handshake!MinOf(m.mss, ServerMSS) = Agreed
  BY <1>1 DEF Agreed
<1>3. server' = [server EXCEPT ![m.isn] = s] /\ client' = client /\ net' = net \cup {a} /\ Handshake!Room(m)
  BY <1>2 DEF Handshake!NewConnection
<1>4. a.to = "client" /\ a.isn = m.isn /\ a.mss = Agreed
  BY DEF Handshake!Answer
<1> HIDE DEF a
<1>5. /\ DOMAIN server' = Handshake!Try /\ server'[m.isn] = s
      /\ \A i \in Handshake!Try : i # m.isn => server'[i] = server[i]
  BY <1>1, <1>3 DEF HandshakeShape
<1>6. /\ DOMAIN s = {"state", "queued", "mss", "flow", "made"} /\ s.made \in Nat /\ s.made > 0
      /\ s.mss = Agreed /\ s.flow = Handshake!Window("client") /\ s.queued
  BY <1>1 DEF HandshakeShape
<1> HIDE DEF s
<1>7. HandshakeShape' /\ ServerAt'
  BY <1>1, <1>3, <1>5, <1>6 DEF HandshakeInv, HandshakeShape, ServerAt
<1>8. ClientAt' /\ ConnectedAt' /\ Requests'
  BY <1>1, <1>3, <1>4, <1>5, <1>6 DEF HandshakeInv, ClientAt, ConnectedAt, Requests
<1>9. Answers'
  <2> SUFFICES ASSUME NEW x \in net', x.to = "client", x.reqType = -1
               PROVE  x.isn \in Handshake!Try /\ server'[x.isn].made > 0 /\ x.mss = Agreed
    BY DEF Answers, Agreed
  <2>1. CASE x = a
    BY <1>1, <1>4, <1>5, <1>6, <2>1
  <2>2. CASE x \in net
    <3>1. x.isn \in Handshake!Try /\ server[x.isn].made > 0 /\ x.mss = Agreed
      BY <2>2 DEF HandshakeInv, Answers
    <3> QED
      BY <1>5, <1>6, <3>1
  <2> QED
    BY <1>3, <2>1, <2>2
<1>10. Handshake!BacklogIsKept'
  <2> DEFINE others == Handshake!Queued \ {m.isn}
  <2>1. IsFiniteSet(others) /\ Cardinality(others) \in Nat
    BY HandshakeAssumption, QueuedIsFinite, FS_RemoveElement, FS_CardinalityType
  <2>2. Handshake!Queued' = others \cup {m.isn}
    BY <1>1, <1>5, <1>6 DEF Handshake!Queued
  <2>3. Cardinality(Handshake!Queued') = Cardinality(others) + 1
    BY <2>1, <2>2, FS_AddElement
  <2>4. Cardinality(others) < BackLog
    BY <1>3, HandshakeCardinality DEF Handshake!Room
  <2> QED
    BY HandshakeAssumption, HandshakeCardinality, <2>1, <2>3, <2>4 DEF Handshake!BacklogIsKept
<1> QED
  BY <1>7, <1>8, <1>9, <1>10 DEF HandshakeInv

-----------------------------------------------------------------------------
LEMMA Invariance == PartsSpec => []HandshakeInv
<1>1. PartsInit => HandshakeInv
  BY Beginning DEF PartsInit
<1>2. HandshakeInv /\ [PartsNext]_partsVars => HandshakeInv'
  <2> SUFFICES ASSUME HandshakeInv, [Handshake!HandshakeNext]_(Handshake!handshakeVars) PROVE HandshakeInv'
    BY HandshakeMoves
  <2>1. CASE Handshake!ClientConnect \/ Handshake!ClientResend \/ Handshake!ClientTimesOut
    BY <2>1, ClientConnectKeeps, ClientResendKeeps, ClientTimesOutKeeps
  <2>2. ASSUME NEW m \in net, m.to = "client", Handshake!OnCookie(m) \/ Handshake!OnAnswer(m) \/ Handshake!OnData(m) PROVE HandshakeInv'
    BY <2>2, OnCookieKeeps, OnAnswerKeeps, OnDataKeeps
  <2>3. ASSUME NEW m \in net, m.to = "server", Handshake!SendCookie(m) \/ Handshake!SendAgain(m) \/ Handshake!Refuse(m) \/ Handshake!NewConnection(m)
        PROVE  HandshakeInv'
    BY <2>3, SendCookieKeeps, SendAgainKeeps, RefuseKeeps, NewConnectionKeeps
  <2>4. ASSUME NEW i \in Handshake!Try, Handshake!Accept(i) \/ Handshake!ServerSends(i) \/ Handshake!ServerBreaks(i) PROVE HandshakeInv'
    BY <2>4, SocketKeeps
  <2>5. CASE Handshake!ListenerCloses \/ Handshake!MinutePasses \/ UNCHANGED Handshake!handshakeVars
    <3>1. client' = client /\ server' = server /\ net' = net
      BY <2>5 DEF Handshake!ListenerCloses, Handshake!MinutePasses, Handshake!handshakeVars
    <3> QED
      BY <3>1 DEF HandshakeInv, HandshakeShape, ClientAt, ConnectedAt, ServerAt, Requests, Answers, Handshake!BacklogIsKept, Handshake!Queued
  <2> QED
    BY <2>1, <2>2, <2>3, <2>4, <2>5 DEF Handshake!HandshakeNext
<1> QED
  BY <1>1, <1>2, PTL DEF PartsSpec

\* newConnection never lets more sockets wait for accept than the listener's backlog, however often
\* requests arrive again and connections of the same try break and are replaced; a connect that
\* succeeds has a peer of the same try, of the same MSS, which fits both ends, and that keeps to the
\* client's window, although answers to earlier tries may still arrive.
THEOREM HandshakeCorrect == PartsSpec => []HandshakeAgrees
<1>1. HandshakeInv => Handshake!BacklogIsKept
  BY DEF HandshakeInv
<1>2. HandshakeInv => Handshake!EndsAgree
  <2>1. Agreed <= ClientMSS /\ Agreed <= ServerMSS
    BY HandshakeAssumption DEF Agreed, Handshake!MinOf
  <2> QED
    BY <2>1 DEF HandshakeInv, ConnectedAt, ServerAt, Handshake!EndsAgree
<1> QED
  BY <1>1, <1>2, Invariance, PTL DEF HandshakeAgrees
=============================================================================
