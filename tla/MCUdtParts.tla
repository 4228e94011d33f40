----------------------------- MODULE MCUdtParts -----------------------------
(***************************************************************************)
(* The parts of a udt4 connection, one in each behaviour (the threads of a *)
(* port are in MCUdtWorkers).  A part that is not chosen stays as it is at *)
(* first.  Each part is an instance of its own with its own constants, so  *)
(* that its limits are met; README.md says why they are enough.  Those of  *)
(* the parts that theorems are about are parameters.                       *)
(***************************************************************************)
EXTENDS Integers, FiniteSets, TLC

CONSTANTS   \* of UdtEpoll
    Threads, Epolls, SocketKinds, PollEvents, SndPackets, RcvPackets

\* The buffers hold some number of packets.
ASSUME CallsAssumption == SndPackets \in Nat /\ RcvPackets \in Nat

CONSTANTS   \* of UdtHandshake: the sizes of the two ends
    MaxTries, MaxEvents, BackLog, Blocking,
    ClientMSS, ServerMSS, ClientFlight, ServerFlight, ClientRcvBuf, ServerRcvBuf

\* Sizes are natural numbers.
ASSUME HandshakeAssumption ==
    MaxTries \in Nat /\ BackLog \in Nat /\ ClientMSS \in Nat /\ ServerMSS \in Nat

CONSTANTS   \* of UdtSndBuffer
    MaxMsgNo, MsgPackets, FirstBlocks, SndBufPackets

\* The ring has blocks at first, and the buffer is for some number of packets.
ASSUME SndBufferAssumption == MsgPackets \in Nat /\ FirstBlocks \in Nat \ {0} /\ SndBufPackets \in Nat

CONSTANTS   \* of UdtCache
    Keys, Infos, MaxSize, MaxUpdates

\* There is something to know of a path, and room for some paths.
ASSUME CacheAssumption ==
    Keys \subseteq Int /\ Infos # {} /\ MaxSize \in Nat /\ MaxSize > 1 /\ MaxUpdates \in Nat

CONSTANTS   \* of UdtWindow: the ring of acknowledgements
    AckSlots, LastAckNo, AckedSeqNos

\* The ring has places and the numbers begin with 0.
ASSUME WindowAssumption == AckSlots \in Nat \ {0} /\ LastAckNo \in Nat

CONSTANTS   \* of UdtCC
    CCMaxSeqNo, CCSeqNoTH, CCFirstSeqNo, FirstWindow, MaxWindow, RateWindows, Periods, MinPeriod,
    MaxFlight, MaxSends, MaxReports

\* A run sends fewer packets than two numbers may be apart to be compared.
ASSUME CCAssumption ==
    /\ CCMaxSeqNo \in Nat /\ CCSeqNoTH \in Nat /\ 2 * CCSeqNoTH < CCMaxSeqNo + 1
    /\ CCFirstSeqNo \in 0 .. CCMaxSeqNo
    /\ MaxSends \in Nat /\ MaxSends + 1 < CCSeqNoTH
    /\ FirstWindow \in Nat /\ RateWindows \subseteq Nat

CONSTANTS   \* of UdtOptions
    Header, MinContent, MinWindow, OptionSizes, Defaults

\* What the constructor sets is fit for use.
ASSUME OptionsAssumption ==
    /\ Header \in Nat /\ MinContent \in Nat \ {0} /\ MinWindow \in Nat /\ OptionSizes \subseteq Nat
    /\ Defaults \in [{"mss", "flight", "snd", "rcv", "udpSnd", "udpRcv"} -> Nat]
    /\ Defaults.mss >= Header + MinContent
    /\ Defaults.mss <= Defaults.udpSnd /\ Defaults.mss <= Defaults.udpRcv
    /\ Defaults.rcv >= MinWindow /\ Defaults.flight >= MinWindow

CONSTANTS   \* of UdtFile
    FileLen, Payload, FileSndBuf, FileRcvBuf, SndBlock, RcvBlock, SndSizes, RcvSizes, MaxCalls, MaxFull

\* Packets carry something, the ring has more than one place and a file is read in blocks of bytes.
ASSUME FileAssumption ==
    /\ FileLen \in Nat /\ Payload \in Nat \ {0} /\ FileRcvBuf \in Nat /\ FileRcvBuf > 1
    /\ SndBlock \in Nat /\ RcvBlock \in Nat /\ SndSizes \subseteq Nat /\ RcvSizes \subseteq Nat

VARIABLES
    part,
    option, flag, sndUsed, rcvUsed, early, m_mPolls, m_sPollID, call, receiver,
    client, listener, server, minute, net,
    sndLoss, rcvLoss, lossRet, sndWin, rcvWin,
    blocks, at, count, nextMsg, adding, read,
    queue, got, drift,
    storage, hash, updates, looked, latest, astray,
    head, tail, ring, ackNo, said, arrivals, arrivalPtr, probes, probePtr, sent,
    m_bSlowStart, m_bLoss, m_iLastAck, m_iLastDecSeq, m_iDecCount, m_dCWndSize, m_dPktSndPeriod,
    m_iSndCurrSeqNo, unacked, past,
    options, accepted, phase, optval,
    sending, packets, acked, counted, receiving, buf, written, reports,
    order, packet, given, wire, unit, length, packed

callsVars == <<option, flag, sndUsed, rcvUsed, early, m_mPolls, m_sPollID, call, receiver>>
handshakeVars == <<client, listener, server, minute, net>>
lossVars == <<sndLoss, rcvLoss, lossRet, sndWin, rcvWin>>
sndBufVars == <<blocks, at, count, nextMsg, adding, read>>
unitVars == <<queue, got, drift>>
cacheVars == <<storage, hash, updates, looked, latest, astray>>
windowVars == <<head, tail, ring, ackNo, said, arrivals, arrivalPtr, probes, probePtr, sent>>
ccVars == <<m_bSlowStart, m_bLoss, m_iLastAck, m_iLastDecSeq, m_iDecCount, m_dCWndSize, m_dPktSndPeriod,
            m_iSndCurrSeqNo, unacked, past>>
optionVars == <<options, accepted, phase, optval>>
fileVars == <<sending, packets, acked, counted, receiving, buf, written, reports>>
packetVars == <<order, packet, given, wire, unit, length, packed>>
partsVars == <<part, callsVars, handshakeVars, lossVars, sndBufVars, unitVars, cacheVars,
               windowVars, ccVars, optionVars, fileVars, packetVars>>

\* For TLC: a socket may be for a stream or for messages, and its calls may wait, give up or not wait.
Kind(stream, synSending, synRecving, timed) ==
    [stream |-> stream, synSending |-> synSending, synRecving |-> synRecving, timed |-> timed]
FewKinds == {Kind(FALSE, TRUE, TRUE, FALSE), Kind(TRUE, FALSE, TRUE, TRUE), Kind(FALSE, FALSE, FALSE, FALSE)}
\* Keys of addresses that share an index of a hash table of nine, one of another index, and one that
\* is not kept.
MixedKeys == {-1, 1, 2, 10, 19}
BothEvents == {[in |-> TRUE, out |-> TRUE]}
FewBytes == [mss |-> 6, flight |-> 12, snd |-> 8, rcv |-> 8, udpSnd |-> 20, udpRcv |-> 40]
\* The threads that call may change places.
ThreadSymmetry == Permutations(Threads)

Calls == INSTANCE UdtEpoll WITH
    Options <- SocketKinds, Events <- PollEvents, SndBufSize <- SndPackets, RcvBufSize <- RcvPackets,
    snd <- sndUsed, rcv <- rcvUsed, worker <- receiver

Handshake == INSTANCE UdtHandshake WITH
    MSS <- [client |-> ClientMSS, server |-> ServerMSS],
    FlightFlag <- [client |-> ClientFlight, server |-> ServerFlight],
    RcvBuf <- [client |-> ClientRcvBuf, server |-> ServerRcvBuf]

Losses == INSTANCE UdtLossList WITH
    MaxSeqNo <- 8, SeqNoTH <- 4, SndSize <- 6, RcvSize <- 4, FirstSeqNo <- 6,
    snd <- sndLoss, rcv <- rcvLoss, ret <- lossRet

SndBuffer == INSTANCE UdtSndBuffer WITH
    MaxPackets <- MsgPackets, Initial <- FirstBlocks, SndBufSize <- SndBufPackets, ret <- read

Units == INSTANCE UdtUnitQueue WITH UnitsPerBlock <- 4, FullPercent <- 50, MaxBlocks <- 2, MaxDrift <- 1

Cache == INSTANCE UdtCache WITH answer <- looked

Window == INSTANCE UdtWindow WITH
    Size <- AckSlots, SeqNos <- AckedSeqNos, AWSize <- 8, PWSize <- 8, Intervals <- {0, 10, 500},
    FirstInterval <- 10, FirstProbe <- 10, Million <- 1000, MaxSent <- 5

CC == INSTANCE UdtCC WITH
    MaxSeqNo <- CCMaxSeqNo, SeqNoTH <- CCSeqNoTH, FirstSeqNo <- CCFirstSeqNo

Opts == INSTANCE UdtOptions WITH
    Sizes <- OptionSizes, answer <- optval

File == INSTANCE UdtFile WITH
    SndBufSize <- FileSndBuf, RcvBufSize <- FileRcvBuf,
    sender <- sending, receiver <- receiving, count <- counted

Packet == INSTANCE UdtPacket WITH
    Base <- 8, Words <- {1, 77}, MsgNos <- {5}, Texts <- {<<>>, <<1, 2, 3>>, <<1, 2, 3, 4, 5>>},
    Foreign <- {15, 16}, Capacity <- 48, MaxPackets <- 2, read <- length

PartsInit ==
    /\ part \in {"calls", "handshake", "sndLosses", "rcvLosses", "sndBuffer", "units", "cache",
                "window", "cc", "options", "file", "packet"}
    /\ Calls!EpollInit /\ Handshake!HandshakeInit /\ Losses!LossInit /\ SndBuffer!SndBufferInit
    /\ Units!UnitInit /\ Cache!CacheInit /\ Window!WindowInit /\ CC!CCInit /\ Opts!OptionsInit
    /\ File!FileInit /\ Packet!PacketInit
    /\ part # "packet" => order = [h \in Packet!Host |-> "big"] /\ unit = Packet!EmptyPacket
    /\ part # "calls" => option = CHOOSE kind \in SocketKinds : TRUE

\* Only part p moves.
Only(p) ==
    /\ part = p /\ part' = p
    /\ IF p = "calls" THEN TRUE ELSE UNCHANGED callsVars
    /\ IF p = "handshake" THEN TRUE ELSE UNCHANGED handshakeVars
    /\ IF p \in {"sndLosses", "rcvLosses"} THEN TRUE ELSE UNCHANGED lossVars
    /\ IF p = "sndBuffer" THEN TRUE ELSE UNCHANGED sndBufVars
    /\ IF p = "units" THEN TRUE ELSE UNCHANGED unitVars
    /\ IF p = "cache" THEN TRUE ELSE UNCHANGED cacheVars
    /\ IF p = "window" THEN TRUE ELSE UNCHANGED windowVars
    /\ IF p = "cc" THEN TRUE ELSE UNCHANGED ccVars
    /\ IF p = "options" THEN TRUE ELSE UNCHANGED optionVars
    /\ IF p = "file" THEN TRUE ELSE UNCHANGED fileVars
    /\ IF p = "packet" THEN TRUE ELSE UNCHANGED packetVars

PartsNext ==
    \/ part = "calls" /\ Calls!EpollNext /\ Only("calls")
    \/ part = "handshake" /\ Handshake!HandshakeNext /\ Only("handshake")
    \/ part = "sndLosses" /\ Losses!SenderNext /\ Only("sndLosses")
    \/ part = "rcvLosses" /\ Losses!ReceiverNext /\ Only("rcvLosses")
    \/ part = "sndBuffer" /\ SndBuffer!SndBufferNext /\ Only("sndBuffer")
    \/ part = "units" /\ Units!UnitNext /\ Only("units")
    \/ part = "cache" /\ Cache!CacheNext /\ Only("cache")
    \/ part = "window" /\ Window!WindowNext /\ Only("window")
    \/ part = "cc" /\ CC!CCNext /\ Only("cc")
    \/ part = "options" /\ Opts!OptionsNext /\ Only("options")
    \/ part = "file" /\ File!FileNext /\ Only("file")
    \/ part = "packet" /\ Packet!PacketNext /\ Only("packet")

PartsSpec == PartsInit /\ [][PartsNext]_partsVars
-----------------------------------------------------------------------------
\* A call that waits for data or room is on its way to be woken whenever it should be, but for two
\* changes of the worker that come without a signal.
CallersAreWoken == part = "calls" => Calls!CallersAreWoken

\* The listener keeps its backlog and the two ends of a connection agree, whatever packets are
\* lost, doubled and late.
HandshakeAgrees == part = "handshake" => Handshake!BacklogIsKept /\ Handshake!EndsAgree

\* The two lists of losses behave as sets of sequence numbers, around the wrap (but for the number
\* that a range given up there leaves behind), whatever lite ACKs, late ACKs and reports come.
LossListsAreSets == Losses!LossListsAreSets

\* The lists are well formed chains of packets that are sent and whose data is still kept.
LossListsFitWindow ==
    part \in {"sndLosses", "rcvLosses"} => Losses!LossListsAreWellFormed /\ Losses!LossesAreInWindow

\* The ring of blocks that grows is a queue for the three threads that use it.
SndBufferIsQueue == SndBuffer!SndBufferIsQueue

\* The ring of acknowledgements is the history of those sent last.
AckWindowIsHistory == Window!AckWindowIsHistory

\* A packet is read into a free unit, a search in vain is followed by one that finds, and what is
\* read is what was packed, whatever byte order the two hosts have; and what their arrivals say of
\* the path is not moved by one of them.
PacketsAreRead ==
    /\ Units!UnitsAreFound
    /\ Packet!PacketsSurvive
    /\ [](part = "window" => Window!OneOutlierIsIgnored)

\* A file arrives byte for byte, however the calls, the blocks and the disk cut it up.
FileIsCopied == part = "file" => File!FileIsCopied

\* The congestion control and the options keep their limits, in whatever order events and calls come,
\* and the cache finds what was stored last until it drops its oldest item for one of another index.
LimitsHold ==
    /\ part = "cc" => CC!CongestionIsBounded
    /\ part = "options" => Opts!PacketsFit
    /\ part = "cache" => Cache!LookupFindsLatest

\* epoll.h: "readfds: UDT sockets available for reading": an application that waits is told.
ReadableIsReported == part = "calls" => Calls!ReadableIsReported

\* list.h: "Remove all packets between seqno1 and seqno2": no packet of a range that the sender gives
\* up is waited for any longer.
RangesAreRemoved == Losses!RangesAreRemoved

\* A blocking connect that returns without an exception has connected the socket.
ConnectMeansConnected == part = "handshake" => Handshake!ConnectMeansConnected
=============================================================================
