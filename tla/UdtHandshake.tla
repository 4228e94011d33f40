---------------------------- MODULE UdtHandshake ----------------------------
(***************************************************************************)
(* How a udt4 socket connects to a listener (connect and listen of         *)
(* core.cpp, newConnection of api.cpp): a request, an answer with a        *)
(* cookie, the request again with the cookie, and the answer of the new    *)
(* socket.  Packets may be lost, doubled and reordered; a socket may try   *)
(* again after a failure, and the answers to the first try are still under *)
(* way.                                                                    *)
(*                                                                         *)
(* A try is told from another by its initial sequence number, random in    *)
(* the code and the number of the try here.  The cookie is a hash of the   *)
(* peer's address and the minute: here the minute.                         *)
(***************************************************************************)
EXTENDS Integers, FiniteSets

CONSTANTS
    MaxTries,     \* bound: how often the socket connects
    MaxEvents,    \* bound: tries and minutes together
    BackLog,      \* of the listener
    Blocking,     \* m_bSynRecving of the socket that connects
    MSS,          \* m_iMSS of the two ends
    FlightFlag,   \* m_iFlightFlagSize of the two ends
    RcvBuf        \* m_iRcvBufSize of the two ends

Try == 1 .. MaxTries

VARIABLES
    client,       \* the socket that connects
    listener,     \* "open" or "closing"
    server,       \* the sockets newConnection made: of each try, the latest
    minute,
    net           \* packets sent so far: each may arrive any number of times, or never

handshakeVars == <<client, listener, server, minute, net>>

MinOf(a, b) == IF a < b THEN a ELSE b
Window(end) == MinOf(RcvBuf[end], FlightFlag[end])

NoServer == [state |-> "none", queued |-> FALSE, mss |-> 0, flow |-> 0, made |-> 0]

HandshakeInit ==
    /\ client = [isn |-> 0, call |-> "none", connecting |-> FALSE, connected |-> FALSE, reqType |-> 1,
                 cookie |-> -1, mss |-> MSS.client, flow |-> 0, res |-> 0, resIsn |-> 0]
    /\ listener = "open"
    /\ server = [i \in Try |-> NoServer]
    /\ minute = 1
    /\ net = {}

Request(c) == [to |-> "server", reqType |-> c.reqType, isn |-> c.isn, cookie |-> c.cookie,
               mss |-> c.mss, flow |-> Window("client")]
Answer(hs, reqType, cookie, mss, flow) ==
    [to |-> "client", reqType |-> reqType, isn |-> hs.isn, cookie |-> cookie, mss |-> mss, flow |-> flow]
Data(i) == [to |-> "client", reqType |-> 0, isn |-> i, cookie |-> 0, mss |-> 0, flow |-> 0]

-----------------------------------------------------------------------------
\* connect: a socket that is neither connecting nor connected; a failed try leaves the last
\* m_ConnRes behind.
ClientConnect ==
    /\ client.call # "waits" /\ ~client.connecting /\ ~client.connected /\ client.isn < MaxTries
    /\ client.isn + minute < MaxEvents
    /\ client' = [client EXCEPT !.isn = @ + 1, !.call = IF Blocking THEN "waits" ELSE "returned",
                                !.connecting = TRUE, !.reqType = 1]
    /\ net' = net \cup {Request(client')}
    /\ UNCHANGED <<listener, server, minute>>

\* Every 250 ms, by the call that waits or by updateConnStatus.
ClientResend ==
    /\ client.connecting
    /\ net' = net \cup {Request(client)}
    /\ UNCHANGED <<client, listener, server, minute>>

\* The result of a blocking call that has left its loop without an exception.
Result(c) == IF c.res = 1002 THEN "rejected" ELSE IF c.isn # c.resIsn THEN "security" ELSE "connected"
Ends(c) == IF c.call = "waits" THEN [c EXCEPT !.call = Result(c)] ELSE c

Recorded(m) == [client EXCEPT !.res = m.reqType, !.resIsn = m.isn]

\* Any answer that is not a cookie connects: its parameters become the socket's.
Connected(m) ==
    Ends([Recorded(m) EXCEPT !.connecting = FALSE, !.connected = TRUE, !.mss = m.mss, !.flow = m.flow])

\* The packets for a blocking socket are stored for the call that waits.
Handles == client.connecting /\ (Blocking => client.call = "waits")

\* connect(response) with a cookie: the request is sent again with it.
OnCookie(m) ==
    /\ m.reqType = 1 /\ Handles
    /\ client' = [Recorded(m) EXCEPT !.reqType = -1, !.cookie = m.cookie]
    /\ net' = net \cup {Request(client')}
    /\ UNCHANGED <<listener, server, minute>>

OnAnswer(m) ==
    /\ m.reqType \in {-1, 1002} /\ Handles
    /\ client' = Connected(m)
    /\ UNCHANGED <<listener, server, minute, net>>

\* A packet that is no answer makes connect(response) return -1, and the loop ends.
OnData(m) ==
    /\ m.reqType = 0 /\ Handles
    /\ client' = Ends(client)
    /\ UNCHANGED <<listener, server, minute, net>>

\* The time is up: the call throws; m_bConnecting is reset by updateConnStatus.
ClientTimesOut ==
    /\ client.connecting
    /\ client' = [client EXCEPT !.connecting = FALSE, !.call = IF @ = "waits" THEN "timeout" ELSE @]
    /\ UNCHANGED <<listener, server, minute, net>>
-----------------------------------------------------------------------------
\* listen: a first request is answered with the cookie of this minute.
SendCookie(m) ==
    /\ listener = "open" /\ m.reqType = 1
    /\ net' = net \cup {Answer(m, 1, minute, m.mss, m.flow)}
    /\ UNCHANGED <<client, listener, server, minute>>

\* A request with the cookie of this minute goes on; the string the cookie of the last minute is
\* computed from still holds this minute's, so that the last one is never found.
CookieMatches(m) == m.cookie = minute

Queued == {i \in Try : server[i].queued}

\* A broken connection of the same try leaves the queue before the queue is measured.
RoomForOneMore(m) == Cardinality(Queued \ {m.isn}) <= BackLog  \* mutant of Room
Room(m) == Cardinality(Queued \ {m.isn}) < BackLog

\* newConnection: the connection there is already answers again; not for a closing one.
SendAgain(m) ==
    LET s == server[m.isn]
    IN  /\ listener = "open" /\ m.reqType = -1 /\ CookieMatches(m)
        /\ s.state = "connected"
        /\ net' = net \cup {Answer(m, -1, 0, s.mss, FlightFlag.server)}
        /\ UNCHANGED <<client, listener, server, minute>>

\* The backlog is full.
Refuse(m) ==
    /\ listener = "open" /\ m.reqType = -1 /\ CookieMatches(m)
    /\ server[m.isn].state # "connected" /\ ~Room(m)
    /\ server' = [server EXCEPT ![m.isn].queued = FALSE]
    /\ net' = net \cup {Answer(m, 1002, 0, m.mss, m.flow)}
    /\ UNCHANGED <<client, listener, minute>>

\* A new socket, with the smaller MSS of the two and the window of the peer; its answer has the
\* window of this end.
NewConnection(m) ==
    LET mss == MinOf(m.mss, MSS.server)
    IN  /\ listener = "open" /\ m.reqType = -1 /\ CookieMatches(m)
        /\ server[m.isn].state # "connected" /\ Room(m)
        /\ server' = [server EXCEPT ![m.isn] = [state |-> "connected", queued |-> TRUE, mss |-> mss,
                                                flow |-> m.flow, made |-> @.made + 1]]
        /\ net' = net \cup {Answer(m, -1, m.cookie, mss, Window("server"))}
        /\ UNCHANGED <<client, listener, minute>>

Accept(i) ==
    /\ server[i].queued
    /\ server' = [server EXCEPT ![i].queued = FALSE]
    /\ UNCHANGED <<client, listener, minute, net>>

\* An accepted socket may send at once.
ServerSends(i) ==
    /\ server[i].state = "connected" /\ ~server[i].queued
    /\ net' = net \cup {Data(i)}
    /\ UNCHANGED <<client, listener, server, minute>>

\* No word from the peer for long: checkTimers breaks the connection; the bound is on new ones.
ServerBreaks(i) ==
    /\ server[i].state = "connected" /\ server[i].made = 1
    /\ server' = [server EXCEPT ![i].state = "broken"]
    /\ UNCHANGED <<client, listener, minute, net>>

ListenerCloses ==
    /\ listener = "open" /\ listener' = "closing"
    /\ UNCHANGED <<client, server, minute, net>>

MinutePasses ==
    /\ client.isn + minute < MaxEvents /\ minute' = minute + 1
    /\ UNCHANGED <<client, listener, server, net>>

HandshakeNext ==
    \/ ClientConnect \/ ClientResend \/ ClientTimesOut \/ ListenerCloses \/ MinutePasses
    \/ \E m \in {p \in net : p.to = "client"} : OnCookie(m) \/ OnAnswer(m) \/ OnData(m)
    \/ \E m \in {p \in net : p.to = "server"} :
          SendCookie(m) \/ SendAgain(m) \/ Refuse(m) \/ NewConnection(m)
    \/ \E i \in Try : Accept(i) \/ ServerSends(i) \/ ServerBreaks(i)

HandshakeSpec == HandshakeInit /\ [][HandshakeNext]_handshakeVars
-----------------------------------------------------------------------------
\* Never more sockets wait to be accepted than the backlog lets in, however often requests come
\* again and connections break.
BacklogIsKept == Cardinality(Queued) <= BackLog

\* A socket that connected and was not refused has a peer of the same try, and both send packets
\* that the other can take: the same MSS, the smaller of the two, and no more of the server's than
\* the client's window.
EndsAgree ==
    client.call = "connected" /\ client.connected =>
        /\ client.isn = client.resIsn
        /\ server[client.isn].made > 0
        /\ client.mss = server[client.isn].mss
        /\ client.mss <= MSS.client /\ client.mss <= MSS.server
        /\ server[client.isn].flow = Window("client")

\* A blocking connect that returns without an exception has connected the socket.
ConnectMeansConnected == client.call = "connected" => client.connected

\* A client sends no more than the server told it to have room for, whichever of the answers
\* arrives.
WindowFitsBuffer == client.connected /\ client.res = -1 => client.flow <= RcvBuf.server
=============================================================================
