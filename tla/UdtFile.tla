------------------------------- MODULE UdtFile -------------------------------
(***************************************************************************)
(* sendfile and recvfile of udt4's core.cpp, with the buffers they read    *)
(* from and write to a file (addBufferFromFile, readBufferToFile).  The    *)
(* sender cuts the file into blocks and these into packets; the receiver   *)
(* takes other blocks out of its ring (UdtRcvBuffer), so that a packet may *)
(* be split between two of them.  The disk may be full and a caller may    *)
(* try again from where the offset stands.                                 *)
(*                                                                         *)
(* Packets arrive once and in any order, which is what UdtTransfer shows   *)
(* of the protocol; both sockets block (UDT_SNDSYN, UDT_RCVSYN).  A byte   *)
(* of the file is its position.                                            *)
(***************************************************************************)
EXTENDS UdtRcvBuffer

CONSTANTS
    FileLen,    \* bytes of the file that is sent
    Payload,    \* m_iMSS of the buffers: the bytes of a full packet
    SndBufSize, \* m_iSndBufSize, in packets
    SndBlock,   \* the block of sendfile, in bytes
    RcvBlock,   \* the block of recvfile
    SndSizes,   \* bytes a call of sendfile asks for
    RcvSizes,   \* bytes a call of recvfile asks for
    MaxCalls,   \* bound: calls of each
    MaxFull     \* bound: how often the disk is full

VARIABLES
    sender,     \* the thread in sendfile and its socket
    packets,    \* every packet put into the sending buffer so far
    acked,      \* how many of them have left it
    count,      \* m_iCount of the sending buffer
    receiver,   \* the thread in recvfile and its socket
    buf,        \* its CRcvBuffer
    written,    \* what stands in the file it writes, up to its position
    reports     \* under way: "error" to the sender, the shutdown of either ("to sender", "to receiver")

fileVars == <<sender, packets, acked, count, receiver, buf, written, reports>>

FileInit ==
    /\ sender = [pc |-> "idle", tosend |-> 0, offset |-> 0,
                 eof |-> FALSE,             \* ifs.fail(): a read came short
                 health |-> TRUE,           \* m_bPeerHealth
                 broken |-> FALSE, calls |-> 0]
    /\ packets = <<>> /\ acked = 0 /\ count = 0
    /\ receiver = [pc |-> "idle", torecv |-> 0, offset |-> 0,
                   full |-> FALSE,          \* ofs.fail(): a write failed
                   acked |-> 0,             \* m_iRcvLastAck, as a number of packets
                   broken |-> FALSE, calls |-> 0, fulls |-> 0]
    /\ buf = EmptyRcvBuffer
    /\ written = <<>> /\ reports = {}

Lesser(a, b) == IF a < b THEN a ELSE b
InPackets(bytes) == (bytes + Payload - 1) \div Payload

\* Exceptions and returns leave the thread where it was before the call.
Return(thread) == [thread EXCEPT !.pc = "idle"]
Awake(thread) == IF thread.pc = "wait" THEN [thread EXCEPT !.pc = "loop"] ELSE thread

-----------------------------------------------------------------------------
(* The sender *)

\* sendfile: the stream is positioned at the offset.
sendfile(size) ==
    /\ sender.pc = "idle" /\ ~sender.broken /\ sender.calls < MaxCalls
    /\ sender' = [sender EXCEPT !.pc = "loop", !.tosend = size, !.eof = FALSE, !.calls = @ + 1]
    /\ UNCHANGED <<packets, acked, count, receiver, buf, written, reports>>

\* The packets cut from len bytes after the offset, of which the file has only some.
Cut(offset, len) ==
    [k \in 1 .. InPackets(len) |->
        [first |-> offset + (k - 1) * Payload + 1, len |-> Lesser(Payload, len - (k - 1) * Payload)]]

\* addBufferFromFile: it counts the packets it was asked for, also those that the file had no bytes for.
addBufferFromFile(len) ==
    LET total == Lesser(len, FileLen - sender.offset)
    IN  /\ packets' = packets \o Cut(sender.offset, total)
        /\ count' = count + InPackets(len)
        /\ sender' = [sender EXCEPT !.tosend = @ - total, !.offset = @ + total, !.eof = total < len]

\* The loop of sendfile: over when the bytes are sent or the file has no more, asleep while the
\* buffer is full and nobody has complained.
SendBlock ==
    /\ sender.pc = "loop"
    /\ \/ /\ sender.tosend = 0 \/ sender.eof
          /\ sender' = Return(sender) /\ UNCHANGED <<packets, count>>
       \/ /\ sender.tosend > 0 /\ ~sender.eof
          /\ \/ /\ sender.broken
                /\ sender' = Return(sender) /\ UNCHANGED <<packets, count>>
             \/ /\ ~sender.broken /\ ~sender.health
                /\ sender' = [Return(sender) EXCEPT !.health = TRUE] /\ UNCHANGED <<packets, count>>
             \/ /\ ~sender.broken /\ sender.health /\ SndBufSize <= count
                /\ sender' = [sender EXCEPT !.pc = "wait"] /\ UNCHANGED <<packets, count>>
             \/ /\ ~sender.broken /\ sender.health /\ SndBufSize > count
                /\ addBufferFromFile(Lesser(sender.tosend, SndBlock))
    /\ UNCHANGED <<acked, receiver, buf, written, reports>>

\* processCtrl, an acknowledgement: the packets leave the buffer, and the thread is woken.
AckArrives ==
    /\ acked < receiver.acked /\ ~sender.broken
    /\ acked' = receiver.acked
    /\ count' = count - (receiver.acked - acked)
    /\ sender' = Awake(sender)
    /\ UNCHANGED <<packets, receiver, buf, written, reports>>

\* processCtrl, type 8: "giving the app a chance to fix the issue" (nobody is woken).
ErrorArrives ==
    /\ "error" \in reports /\ reports' = reports \ {"error"}
    /\ sender' = IF sender.broken THEN sender ELSE [sender EXCEPT !.health = FALSE]
    /\ UNCHANGED <<packets, acked, count, receiver, buf, written>>

\* processCtrl, type 5, at either end: the socket is broken, and the thread is woken.
ShutdownArrives ==
    /\ \/ /\ "to sender" \in reports /\ reports' = reports \ {"to sender"}
          /\ sender' = [Awake(sender) EXCEPT !.broken = TRUE]
          /\ UNCHANGED receiver
       \/ /\ "to receiver" \in reports /\ reports' = reports \ {"to receiver"}
          /\ receiver' = [Awake(receiver) EXCEPT !.broken = TRUE]
          /\ UNCHANGED sender
    /\ UNCHANGED <<packets, acked, count, buf, written>>

\* close of either end, between two calls, and its last word to the other one.
FileClose ==
    /\ \/ /\ sender.pc = "idle" /\ ~sender.broken
          /\ sender' = [sender EXCEPT !.pc = "closed", !.broken = TRUE]
          /\ reports' = reports \cup {"to receiver"} /\ UNCHANGED receiver
       \/ /\ receiver.pc = "idle" /\ ~receiver.broken
          /\ receiver' = [receiver EXCEPT !.pc = "closed", !.broken = TRUE]
          /\ reports' = reports \cup {"to sender"} /\ UNCHANGED sender
    /\ UNCHANGED <<packets, acked, count, buf, written>>

\* Nothing repeats these datagrams.
ReportIsLost ==
    /\ \E r \in reports : reports' = reports \ {r}
    /\ UNCHANGED <<sender, packets, acked, count, receiver, buf, written>>

-----------------------------------------------------------------------------
(* The receiver *)

\* processData: packet k arrives, if it lies within the room that is left.
PacketArrives(k) ==
    LET offset == k - 1 - receiver.acked
        a == addData(buf, packets[k], offset)
    IN  /\ ~receiver.broken
        /\ offset >= 0 /\ offset < getAvailBufSize(buf) /\ a.res = 0
        /\ buf' = a.buf
        /\ UNCHANGED <<sender, packets, acked, count, receiver, written, reports>>

\* sendCtrl(2): what has no hole before it is acknowledged, and the thread is woken.
Acknowledge ==
    LET n == CHOOSE j \in 0 .. RcvBufSize :
                /\ \A i \in 0 .. j - 1 : Held(buf, Ring(buf.ackPos + i))
                /\ ~Held(buf, Ring(buf.ackPos + j))
    IN  /\ ~receiver.broken /\ n > 0
        /\ buf' = rcvAckData(buf, n)
        /\ receiver' = [Awake(receiver) EXCEPT !.acked = @ + n]
        /\ UNCHANGED <<sender, packets, acked, count, written, reports>>

\* recvfile: the stream is positioned at the offset, over whatever a failed write has left there.
recvfile(size) ==
    /\ receiver.pc = "idle" /\ receiver.calls < MaxCalls
    /\ ~(receiver.broken /\ getRcvDataSize(buf) = 0)
    /\ receiver' = [receiver EXCEPT !.pc = "loop", !.torecv = size, !.full = FALSE, !.calls = @ + 1]
    /\ written' = SubSeq(written, 1, receiver.offset)
    /\ UNCHANGED <<sender, packets, acked, count, buf, reports>>

\* readBufferToFile: one write for each packet, until one fails; that packet stays in the ring.
readBufferToFile(len, writes) ==
    readBuffer(buf, IF writes < PacketsIn(buf, len) THEN FirstPackets(buf, writes) ELSE len)

Positions(bytes) == [i \in DOMAIN bytes |-> bytes[i][1].first + bytes[i][2] - 1]

\* mutant of RecvBlock: the offset is moved by whole blocks
RecvBlockWhole(len, writes) ==
    LET r == readBufferToFile(len, writes)
        full == writes < PacketsIn(buf, len)
    IN  /\ buf' = r.buf
        /\ written' = written \o Positions(r.out)
        /\ receiver' = [receiver EXCEPT !.torecv = @ - Len(r.out), !.offset = @ + len,
                                        !.full = full, !.fulls = IF full THEN @ + 1 ELSE @]

\* One block of recvfile.
RecvBlock(len, writes) ==
    LET r == readBufferToFile(len, writes)
        full == writes < PacketsIn(buf, len)
    IN  /\ buf' = r.buf
        /\ written' = written \o Positions(r.out)
        /\ receiver' = [receiver EXCEPT !.torecv = @ - Len(r.out), !.offset = @ + Len(r.out),
                                        !.full = full, !.fulls = IF full THEN @ + 1 ELSE @]

\* The loop of recvfile: over when the bytes are there, when the disk is full, which it tells the
\* sender, or when the connection is gone and read empty; asleep while there is nothing to read.
Receive ==
    /\ receiver.pc = "loop"
    /\ \/ /\ receiver.torecv = 0
          /\ receiver' = Return(receiver) /\ UNCHANGED <<buf, written, reports>>
       \/ /\ receiver.torecv > 0 /\ receiver.full
          /\ receiver' = Return(receiver) /\ reports' = reports \cup {"error"}
          /\ UNCHANGED <<buf, written>>
       \/ /\ receiver.torecv > 0 /\ ~receiver.full /\ getRcvDataSize(buf) = 0
          /\ receiver' = IF receiver.broken THEN Return(receiver) ELSE [receiver EXCEPT !.pc = "wait"]
          /\ UNCHANGED <<buf, written, reports>>
       \/ /\ receiver.torecv > 0 /\ ~receiver.full /\ getRcvDataSize(buf) > 0
          /\ \E writes \in 0 .. RcvBufSize :
                /\ writes < RcvBufSize => receiver.fulls < MaxFull
                /\ RecvBlock(Lesser(receiver.torecv, RcvBlock), writes)
          /\ UNCHANGED reports
    /\ UNCHANGED <<sender, packets, acked, count>>

FileNext ==
    \/ \E size \in SndSizes : sendfile(size)
    \/ SendBlock \/ AckArrives \/ ErrorArrives \/ ShutdownArrives \/ FileClose \/ ReportIsLost
    \/ \E k \in DOMAIN packets : PacketArrives(k)
    \/ Acknowledge
    \/ \E size \in RcvSizes : recvfile(size)
    \/ Receive

FileSpec == FileInit /\ [][FileNext]_fileVars

-----------------------------------------------------------------------------
\* The bytes of the first n packets, and those acknowledged in the ring and not read.
BytesOf(n) ==
    LET bytes[k \in 0 .. n] ==
            IF k = 0 THEN <<>> ELSE bytes[k - 1] \o [i \in 1 .. packets[k].len |-> packets[k].first + i - 1]
    IN  bytes[n]
InRing == Positions(readBuffer(buf, FileLen).out)

\* What stands in the file up to the offset the caller knows, and after it what is acknowledged and
\* not read, is the beginning of what sendfile says it has sent: no byte is lost, doubled or moved
\* when a block ends inside a packet, a write fails in the middle of a block, the caller tries
\* again from its offset or the connection breaks.
FileIsCopied ==
    /\ Len(written) = receiver.offset
    /\ written \o InRing = BytesOf(receiver.acked)
    /\ BytesOf(Len(packets)) = [i \in 1 .. sender.offset |-> i]
=============================================================================
