--------------------------- MODULE KadNodeProofs ----------------------------
(***************************************************************************)
(* The node program around its table.  First, that a node keeps its        *)
(* identity, for any number of keys, peers, runs and kills: the point of   *)
(* the inductive invariant is the order of SaveKeys, key.pub not being     *)
(* begun before key.priv is whole, so that TryLoadKeys, which wants both   *)
(* files, never sees the halves of two keys.  Second, that Run hands over  *)
(* every message it reads from a connection of Connect, however the        *)
(* threads interleave: its heart is ReportedAreKnown, that a socket        *)
(* reaches the epoll, a set that epoll_wait returned, and the hands of Run *)
(* only after it is in mConnections, or when it was accepted.  Third, the  *)
(* request trackers, for any number of requests, addresses and message     *)
(* ids, colliding ones included.                                           *)
(***************************************************************************)
EXTENDS KadSession, KadConnectionMgr, KadReqTracker, TLAPS

-----------------------------------------------------------------------------
(* The identity (KadSession) *)

\* The halves on disk: a public half stands beside the private half of its key.
PubAfterPriv ==
    /\ pubFile = "torn" => privFile \in Key
    /\ pubFile \in Key => privFile = pubFile

\* How far SaveKeys is.
Saving ==
    /\ pc \in {"open_priv", "write_priv", "open_pub", "write_pub"} =>
          ~temporary /\ rsa.priv \in Key
    /\ pc \in {"open_priv", "write_priv", "open_pub"} => pubFile = "absent"
    /\ pc \in {"open_pub", "write_pub"} => privFile = rsa.priv
    /\ pc = "write_pub" => pubFile = "torn"

RsaType == /\ rsa \in [priv : Key \cup {NoKey}, pub : Key \cup {NoKey}]
           /\ rsa.priv = rsa.pub

SessionInv == SessionTypeOK /\ RsaType /\ PubAfterPriv /\ Saving /\ IdentityIsSaved

\* The inductive invariant holds in every reachable state.
THEOREM SessionInvariance == SessionSpec => []SessionInv
<1>1. SessionInit => SessionInv
  <2> SUFFICES ASSUME SessionInit PROVE SessionInv
    OBVIOUS
  <2>1. "absent" \notin Key
    BY KeyAssumption
  <2>2. rsa = NoKeys /\ pc = "off" /\ privFile = "absent" /\ pubFile = "absent"
    BY DEF SessionInit
  <2>3. RsaType
    BY <2>2 DEF RsaType, NoKeys
  <2>4. SessionTypeOK
    BY DEF SessionTypeOK, SessionInit, NoKeys, Running, Half
  <2>5. PubAfterPriv /\ Saving /\ IdentityIsSaved
    BY <2>1, <2>2 DEF PubAfterPriv, Saving, IdentityIsSaved, Running
  <2>6. QED
    BY <2>3, <2>4, <2>5 DEF SessionInv
<1>2. SessionInv /\ [SessionNext]_sessionVars => SessionInv'
  <2> SUFFICES ASSUME SessionInv, [SessionNext]_sessionVars PROVE SessionInv'
    OBVIOUS
  <2> USE KeyAssumption DEF SessionInv, SessionTypeOK, RsaType, PubAfterPriv, Saving, IdentityIsSaved, Running, Half,
                            NoKey, files
  <2>1. ASSUME NEW temp \in BOOLEAN, Start(temp) PROVE SessionInv'
    BY <2>1 DEF Start
  <2>2. CASE TryLoadKeys
    BY <2>2 DEF TryLoadKeys, KeysSaved, Torn, NoKeys
  <2>3. ASSUME NEW k \in Key, GenerateKeys(k) PROVE SessionInv'
    BY <2>3 DEF GenerateKeys, KeysSaved, Pair
  <2>4. CASE SaveKeys
    BY <2>4 DEF SaveKeys
  <2>5. CASE LoadBsp
    BY <2>5 DEF LoadBsp
  <2>6. ASSUME NEW p \in Peer, Ask(p) PROVE SessionInv'
    BY <2>6 DEF Ask
  <2>7. ASSUME NEW p \in Peer, WriteBsp(p) PROVE SessionInv'
    BY <2>7 DEF WriteBsp
  <2>8. ASSUME NEW contacts \in SUBSET Peer, Leave(contacts) PROVE SessionInv'
    BY <2>8 DEF Leave, NoKeys
  <2>9. CASE OpenBsp
    BY <2>9 DEF OpenBsp
  <2>10. CASE CloseBsp
    BY <2>10 DEF CloseBsp, NoKeys
  <2>11. CASE Kill
    BY <2>11 DEF Kill, NoKeys
  <2>12. CASE UNCHANGED sessionVars
    BY <2>12 DEF sessionVars
  <2>13. QED
    BY <2>1, <2>2, <2>3, <2>4, <2>5, <2>6, <2>7, <2>8, <2>9, <2>10, <2>11, <2>12 DEF SessionNext
<1>3. QED
  BY <1>1, <1>2, PTL DEF SessionSpec

\* A running node has two halves of one key, which its files will give it again.
THEOREM IdentityCorrect == SessionSpec => []IdentityIsSaved
<1>1. SessionInv => IdentityIsSaved
  BY DEF SessionInv
<1>2. QED
  BY <1>1, SessionInvariance, PTL

\* The types of the session.
THEOREM SessionTypeCorrect == SessionSpec => []SessionTypeOK
<1>1. SessionInv => SessionTypeOK
  BY DEF SessionInv
<1>2. QED
  BY <1>1, SessionInvariance, PTL

\* A saved identity is never changed.
THEOREM IdentityPersistsCorrect == SessionSpec => IdentityPersists
<1> DEFINE Same == privFile = pubFile /\ privFile \in Key => UNCHANGED <<privFile, pubFile>>
<1>1. SessionInv /\ [SessionNext]_sessionVars => [Same]_sessionVars
  <2> SUFFICES ASSUME SessionInv, SessionNext, privFile = pubFile, privFile \in Key
               PROVE  UNCHANGED <<privFile, pubFile>>
    OBVIOUS
  <2>1. pubFile # "absent" /\ pubFile # "torn"
    BY KeyAssumption
  <2>2. ~SaveKeys
    BY <2>1 DEF SaveKeys, SessionInv, Saving
  <2>3. QED
    BY <2>2 DEF SessionNext, Start, TryLoadKeys, GenerateKeys, LoadBsp, Ask, WriteBsp, Leave, OpenBsp, CloseBsp,
                Kill, files
<1>2. QED
  BY <1>1, SessionInvariance, PTL DEF SessionSpec, IdentityPersists

\* What the bootstrap list needs: a file that was not lost names a peer, and what
\* is written names one.
BspInv ==
    /\ SessionTypeOK
    /\ ~lost => bspFile \cap Peer # {}
    /\ pc = "ask" => bspFile = {}
    /\ pc = "run" /\ ~lost => bspLst = bspFile
    /\ pc \in {"open_bsp", "write_bsp"} => bspLst \subseteq Peer /\ bspLst # {}
    /\ pc = "write_bsp" => lost

\* A list saved by Leave serves the next start.
THEOREM BootstrapCorrect == SessionSpec => []BootstrapIsKept
<1>1. SessionInit /\ SessionTypeOK => BspInv
  BY DEF SessionInit, BspInv
<1>2. BspInv /\ SessionTypeOK' /\ [SessionNext]_sessionVars => BspInv'
  <2> SUFFICES ASSUME BspInv, SessionTypeOK', [SessionNext]_sessionVars PROVE BspInv'
    OBVIOUS
  <2> USE DEF BspInv, files
  <2>1. ASSUME NEW temp \in BOOLEAN, Start(temp) PROVE BspInv'
    BY <2>1 DEF Start
  <2>2. CASE TryLoadKeys
    BY <2>2 DEF TryLoadKeys
  <2>3. ASSUME NEW k \in Key, GenerateKeys(k) PROVE BspInv'
    BY <2>3 DEF GenerateKeys
  <2>4. CASE SaveKeys
    BY <2>4 DEF SaveKeys
  <2>5. CASE LoadBsp
    BY <2>5 DEF LoadBsp
  <2>6. ASSUME NEW p \in Peer, Ask(p) PROVE BspInv'
    BY <2>6 DEF Ask
  <2>7. ASSUME NEW p \in Peer, WriteBsp(p) PROVE BspInv'
    BY <2>7 DEF WriteBsp
  <2>8. ASSUME NEW contacts \in SUBSET Peer, Leave(contacts) PROVE BspInv'
    BY <2>8 DEF Leave, WorthSaving
  <2>9. CASE OpenBsp
    BY <2>9 DEF OpenBsp
  <2>10. CASE CloseBsp
    BY <2>10 DEF CloseBsp
  <2>11. CASE Kill
    BY <2>11 DEF Kill
  <2>12. CASE UNCHANGED sessionVars
    BY <2>12 DEF sessionVars
  <2>13. QED
    BY <2>1, <2>2, <2>3, <2>4, <2>5, <2>6, <2>7, <2>8, <2>9, <2>10, <2>11, <2>12 DEF SessionNext
<1>3. BspInv => BootstrapIsKept
  BY DEF BspInv, BootstrapIsKept
<1>4. QED
  BY <1>1, <1>2, <1>3, SessionTypeCorrect, PTL DEF SessionSpec

\* Identity and bootstrap list serve the next start, wherever a run was killed.
THEOREM FilesCorrect == SessionSpec => []FilesAreKept
<1>1. IdentityIsSaved /\ BootstrapIsKept => FilesAreKept
  BY DEF FilesAreKept
<1>2. QED
  BY <1>1, IdentityCorrect, BootstrapCorrect, PTL

-----------------------------------------------------------------------------
(* The connections (KadConnectionMgr) *)

Places == {"off", "wait", "check", "accept", "recv", "find", "ended"}
EpollType == [added : SUBSET (Socket \cup {Acceptor}), ready : SUBSET (Socket \cup {Acceptor}),
              released : BOOLEAN, late : Int]
RunType == [pc : Places, readfds : SUBSET (Socket \cup {Acceptor}), it : Socket \cup {Acceptor}]

MgrTypeOK ==
    /\ mConnections \subseteq Socket
    /\ link \in [Socket -> [by : {"nobody", "Connect", "accept"}, sent : Nat, unread : Nat, handed : Nat]]
    /\ epoll \in EpollType
    /\ connecting \in [pc : {"idle", "append", "add"}, s : Socket \cup {Acceptor}]
    /\ run \in RunType

\* The sockets that Run may meet without losing a message of theirs.
Known == {Acceptor} \cup mConnections \cup {s \in Socket : link[s].by = "accept"}

ListedAreConnected == \A s \in mConnections : link[s].by = "Connect"

\* Connect works on a socket of its own, which is in the list before it is added to the epoll.
ConnectInOrder ==
    /\ connecting.pc # "idle" => connecting.s \in Socket /\ link[connecting.s].by = "Connect"
    /\ connecting.pc = "add" => connecting.s \in mConnections

ReportedAreKnown ==
    /\ epoll.added \subseteq Known /\ epoll.ready \subseteq Known /\ run.readfds \subseteq Known
    /\ run.pc \in {"recv", "find"} => run.it \in Socket \cap Known

UnusedAreFresh ==
    \A s \in Socket : link[s].by = "nobody" => link[s].sent = 0 /\ link[s].unread = 0 /\ link[s].handed = 0

MgrInv ==
    /\ MgrTypeOK /\ ListedAreConnected /\ ConnectInOrder /\ ReportedAreKnown /\ UnusedAreFresh
    /\ MessagesAreHandedOver

-----------------------------------------------------------------------------
LEMMA InitIsSound == MgrInit => MgrInv
BY AcceptorAssumption
DEF MgrInit, MgrInv, MgrTypeOK, EpollType, RunType, Places, Acceptor, Known, ListedAreConnected, ConnectInOrder,
    ReportedAreKnown, UnusedAreFresh, MessagesAreHandedOver

\* Whatever Run turns to next is one of the sockets it was given, and it does not start with find.
LEMMA NextOfStep ==
    ASSUME MgrTypeOK, NEW fds \in SUBSET (Socket \cup {Acceptor}), NextOf(fds)
    PROVE  /\ run' \in RunType
           /\ run'.readfds \subseteq fds
           /\ run'.pc # "find"
           /\ run'.pc = "recv" => run'.it \in fds \cap Socket
<1>1. CASE fds = {}
  <2>1. run' = [run EXCEPT !.pc = IF MgrStopping THEN "ended" ELSE "wait", !.readfds = {}]
    BY <1>1 DEF NextOf
  <2>2. run \in RunType
    BY DEF MgrTypeOK
  <2>3. run' = [pc |-> IF MgrStopping THEN "ended" ELSE "wait", readfds |-> {}, it |-> run.it]
    BY <2>1, <2>2 DEF RunType
  <2> QED
    BY <2>2, <2>3 DEF RunType, Places
<1>2. CASE fds # {}
  BY <1>2 DEF NextOf, MgrTypeOK, EpollType, RunType, Places
<1> QED
  BY <1>1, <1>2

\* MgrTypeOK, EpollType, RunType, part by part as the steps use it.
LEMMA Fields ==
    ASSUME MgrTypeOK
    PROVE  /\ run.it \in Socket \cup {Acceptor} /\ run.pc \in Places
           /\ run.readfds \in SUBSET (Socket \cup {Acceptor})
           /\ epoll.ready \in SUBSET (Socket \cup {Acceptor})
           /\ \A s \in Socket : /\ link[s].sent \in Nat /\ link[s].unread \in Nat /\ link[s].handed \in Nat
                                /\ link[s].by \in {"nobody", "Connect", "accept"}
BY DEF MgrTypeOK, EpollType, RunType

LEMMA ConnectStep == ASSUME MgrInv, NEW s \in Socket, Connect(s) PROVE MgrInv'
<1> USE DEF MgrInv
<1>1. /\ link' = [link EXCEPT ![s].by = "Connect"]
      /\ connecting' = [pc |-> "append", s |-> s]
      /\ link[s].by = "nobody" /\ connecting.pc = "idle"
      /\ UNCHANGED <<mConnections, epoll, run>>
  BY DEF Connect, ConnectOrder
<1>2. /\ \A t \in Socket : /\ link'[t].sent = link[t].sent /\ link'[t].unread = link[t].unread
                           /\ link'[t].handed = link[t].handed
                           /\ t # s => link'[t].by = link[t].by
      /\ link'[s].by = "Connect"
  BY <1>1 DEF MgrTypeOK, EpollType, RunType
<1>3. MgrTypeOK'
  BY <1>1 DEF MgrTypeOK, EpollType, RunType
<1>4. Known' = Known
  BY <1>1, <1>2 DEF Known
<1>5. ListedAreConnected' /\ ConnectInOrder' /\ ReportedAreKnown' /\ UnusedAreFresh'
  BY <1>1, <1>2, <1>4 DEF MgrTypeOK, EpollType, RunType, ListedAreConnected, ConnectInOrder, ReportedAreKnown, UnusedAreFresh
<1>6. s \notin Known
  BY <1>1, AcceptorAssumption DEF Known, ListedAreConnected, Acceptor
<1>7. MessagesAreHandedOver'
  BY <1>1, <1>2, <1>6, Fields DEF MessagesAreHandedOver, ReportedAreKnown, UnusedAreFresh
<1> QED
  BY <1>3, <1>5, <1>7

LEMMA AppendStep == ASSUME MgrInv, AppendConnection PROVE MgrInv'
<1> USE DEF MgrInv
<1>1. /\ mConnections' = mConnections \cup {connecting.s}
      /\ connecting' = [connecting EXCEPT !.pc = "add"]
      /\ connecting.s \in Socket /\ link[connecting.s].by = "Connect"
      /\ UNCHANGED <<epoll, link, run>>
  BY DEF AppendConnection, ConnectGoesOn, ConnectOrder, ConnectInOrder
<1>2. Known' = Known \cup {connecting.s}
  BY <1>1 DEF Known
<1>3. MgrTypeOK'
  BY <1>1 DEF MgrTypeOK, EpollType, RunType
<1>4. connecting'.s = connecting.s /\ connecting'.pc = "add"
  BY <1>1 DEF MgrTypeOK, EpollType, RunType
<1>5. ListedAreConnected' /\ ConnectInOrder' /\ ReportedAreKnown' /\ UnusedAreFresh' /\ MessagesAreHandedOver'
  BY <1>1, <1>2, <1>4 DEF ListedAreConnected, ConnectInOrder, ReportedAreKnown, UnusedAreFresh, MessagesAreHandedOver
<1> QED
  BY <1>3, <1>5

LEMMA AddStep == ASSUME MgrInv, AddConnection PROVE MgrInv'
<1> USE DEF MgrInv
<1>1. /\ connecting.pc = "add" /\ connecting' = [pc |-> "idle", s |-> Acceptor]
      /\ connecting.s \in mConnections /\ connecting.s \in Socket
      /\ UNCHANGED <<mConnections, link, run>>
  BY DEF AddConnection, ConnectGoesOn, ConnectOrder, ConnectInOrder
<1>2. /\ epoll'.added = epoll.added \cup {connecting.s}
      /\ epoll'.ready \subseteq epoll.ready \cup {connecting.s}
      /\ epoll' \in EpollType
  BY <1>1 DEF AddConnection, MgrTypeOK, EpollType, RunType
<1>3. MgrTypeOK'
  BY <1>1, <1>2 DEF MgrTypeOK, EpollType, RunType
<1>4. Known' = Known /\ connecting.s \in Known
  BY <1>1 DEF Known
<1>5. ListedAreConnected' /\ ConnectInOrder' /\ ReportedAreKnown' /\ UnusedAreFresh' /\ MessagesAreHandedOver'
  BY <1>1, <1>2, <1>4 DEF ListedAreConnected, ConnectInOrder, ReportedAreKnown, UnusedAreFresh, MessagesAreHandedOver
<1> QED
  BY <1>3, <1>5

LEMMA ReportStep ==
    ASSUME MgrTypeOK, ReportedAreKnown, NEW s \in Socket \cup {Acceptor}, Report(s)
    PROVE  /\ epoll' \in EpollType
           /\ epoll'.added = epoll.added /\ epoll'.ready \subseteq Known
BY DEF MgrTypeOK, EpollType, RunType, ReportedAreKnown, Report

LEMMA MessageStep == ASSUME MgrInv, NEW s \in Socket, Message(s) PROVE MgrInv'
<1> USE DEF MgrInv
<1>1. /\ link' = [link EXCEPT ![s] = [link[s] EXCEPT !.sent = @ + 1, !.unread = @ + 1]] /\ link[s].by # "nobody"
      /\ UNCHANGED <<mConnections, connecting, run>> /\ Report(s)
  BY DEF Message
<1>2. \A t \in Socket : /\ link'[t].by = link[t].by /\ link'[t].handed = link[t].handed
                        /\ t # s => link'[t].sent = link[t].sent /\ link'[t].unread = link[t].unread
                        /\ t = s => link'[t].sent = link[t].sent + 1 /\ link'[t].unread = link[t].unread + 1
  BY <1>1 DEF MgrTypeOK, EpollType, RunType
<1>3. MgrTypeOK'
  <2>1. link' \in [Socket -> [by : {"nobody", "Connect", "accept"}, sent : Nat, unread : Nat, handed : Nat]]
    <3> DEFINE L == [by : {"nobody", "Connect", "accept"}, sent : Nat, unread : Nat, handed : Nat]
               new == [link[s] EXCEPT !.sent = @ + 1, !.unread = @ + 1]
    <3>1. link \in [Socket -> L] /\ link' = [link EXCEPT ![s] = new]
      BY <1>1 DEF MgrTypeOK
    <3>2. link[s] \in L
      BY <3>1
    <3>3. new \in L
      <4>1. \A a \in Nat, b \in Nat : [link[s] EXCEPT !.sent = a, !.unread = b] \in L
        BY <3>2
      <4>2. link[s].sent + 1 \in Nat /\ link[s].unread + 1 \in Nat
        BY <3>2
      <4>3. new = [link[s] EXCEPT !.sent = link[s].sent + 1, !.unread = link[s].unread + 1]
        OBVIOUS
      <4> QED
        BY <4>1, <4>2, <4>3
    <3> HIDE DEF L, new
    <3>4. link' \in [Socket -> L]
      BY <3>1, <3>3
    <3> QED
      BY <3>4 DEF L
  <2> QED
    BY <1>1, <2>1, ReportStep DEF MgrTypeOK, EpollType, RunType
<1>4. Known' = Known
  BY <1>1, <1>2 DEF Known
<1>5. ListedAreConnected' /\ ConnectInOrder' /\ ReportedAreKnown' /\ UnusedAreFresh'
  BY <1>1, <1>2, <1>4, ReportStep
  DEF MgrTypeOK, EpollType, RunType, ListedAreConnected, ConnectInOrder, ReportedAreKnown, UnusedAreFresh
<1>6. ASSUME NEW t \in Socket, link'[t].by = "Connect"
      PROVE  link'[t].handed + link'[t].unread + (IF run'.pc = "find" /\ run'.it = t THEN 1 ELSE 0) = link'[t].sent
  <2>1. link[t].handed + link[t].unread + (IF run.pc = "find" /\ run.it = t THEN 1 ELSE 0) = link[t].sent
    BY <1>2, <1>6 DEF MessagesAreHandedOver
  <2>2. run' = run
    BY <1>1
  <2>3. /\ link'[t].handed = link[t].handed
        /\ link'[t].sent = link[t].sent + (IF t = s THEN 1 ELSE 0)
        /\ link'[t].unread = link[t].unread + (IF t = s THEN 1 ELSE 0)
    BY <1>2, Fields
  <2>4. link[t].sent \in Nat /\ link[t].unread \in Nat /\ link[t].handed \in Nat
    BY Fields
  <2> QED
    BY <2>1, <2>2, <2>3, <2>4
<1>7. MessagesAreHandedOver'
  BY <1>6 DEF MessagesAreHandedOver
<1> QED
  BY <1>3, <1>5, <1>7

LEMMA AcceptStep == ASSUME MgrInv, NEW s \in Socket, Accept(s) PROVE MgrInv'
<1> USE DEF MgrInv
<1>1. /\ link' = [link EXCEPT ![s].by = "accept"] /\ link[s].by = "nobody"
      /\ run.pc = "accept" /\ NextOf(run.readfds)
      /\ UNCHANGED <<mConnections, connecting>>
  BY DEF Accept
<1>2. \A t \in Socket : /\ link'[t].sent = link[t].sent /\ link'[t].unread = link[t].unread
                        /\ link'[t].handed = link[t].handed
                        /\ link'[t].by = IF t = s THEN "accept" ELSE link[t].by
  BY <1>1 DEF MgrTypeOK, EpollType, RunType
<1>3. /\ epoll'.added = epoll.added \cup {s} /\ epoll'.ready \subseteq epoll.ready
      /\ epoll' \in EpollType
  BY DEF Accept, MgrTypeOK, EpollType, RunType
<1>4. MgrTypeOK'
  BY <1>1, <1>3, NextOfStep, Fields DEF MgrTypeOK, EpollType, RunType
<1>5. Known' = Known \cup {s}
  BY <1>1, <1>2 DEF Known
<1>6. s \notin mConnections /\ (connecting.pc # "idle" => connecting.s # s)
  BY <1>1 DEF ListedAreConnected, ConnectInOrder
<1>7. /\ run'.readfds \subseteq run.readfds /\ run'.pc # "find"
      /\ run'.pc = "recv" => run'.it \in run.readfds \cap Socket
  BY <1>1, NextOfStep, Fields
<1>8. ListedAreConnected' /\ ConnectInOrder' /\ UnusedAreFresh'
  BY <1>1, <1>2, <1>6 DEF MgrTypeOK, EpollType, RunType, ListedAreConnected, ConnectInOrder, UnusedAreFresh
<1>9. ReportedAreKnown'
  BY <1>3, <1>5, <1>7 DEF ReportedAreKnown
<1>10. MessagesAreHandedOver'
  BY <1>1, <1>2, <1>7, Fields DEF MessagesAreHandedOver
<1> QED
  BY <1>4, <1>8, <1>9, <1>10

LEMMA RecvmsgStep == ASSUME MgrInv, Recvmsg PROVE MgrInv'
<1> USE DEF MgrInv
<1>1. /\ run.pc = "recv" /\ run' = [run EXCEPT !.pc = "find"] /\ run.it \in Socket \cap Known
      /\ link' = [link EXCEPT ![run.it].unread = @ - 1] /\ link[run.it].unread > 0
      /\ UNCHANGED <<mConnections, connecting>>
  BY DEF Recvmsg, ReportedAreKnown
<1>2. \A t \in Socket : /\ link'[t].by = link[t].by /\ link'[t].handed = link[t].handed
                        /\ link'[t].sent = link[t].sent
                        /\ link'[t].unread = IF t = run.it THEN link[t].unread - 1 ELSE link[t].unread
  BY <1>1 DEF MgrTypeOK, EpollType, RunType
<1>3. /\ epoll'.added = epoll.added /\ epoll'.ready \subseteq epoll.ready
      /\ epoll' \in EpollType
  BY DEF Recvmsg, MgrTypeOK, EpollType, RunType
<1>4. run'.pc = "find" /\ run'.it = run.it /\ run'.readfds = run.readfds
  BY <1>1 DEF MgrTypeOK, EpollType, RunType
<1>5. link[run.it].unread - 1 \in Nat
  BY <1>1, Fields
<1>6. MgrTypeOK'
  BY <1>1, <1>3, <1>5 DEF MgrTypeOK, EpollType, RunType, Places
<1>7. Known' = Known
  BY <1>1, <1>2 DEF Known
<1>8. link[run.it].by # "nobody"
  BY <1>1, Fields DEF UnusedAreFresh
<1>9. ListedAreConnected' /\ ConnectInOrder' /\ ReportedAreKnown' /\ UnusedAreFresh'
  BY <1>1, <1>2, <1>3, <1>4, <1>7, <1>8
  DEF MgrTypeOK, EpollType, RunType, ListedAreConnected, ConnectInOrder, ReportedAreKnown, UnusedAreFresh
<1>10. MessagesAreHandedOver'
  BY <1>1, <1>2, <1>4, Fields DEF MessagesAreHandedOver
<1> QED
  BY <1>6, <1>9, <1>10

LEMMA FindStep == ASSUME MgrInv, Find PROVE MgrInv'
<1> USE DEF MgrInv
<1>1. /\ run.pc = "find" /\ run.it \in Socket \cap Known /\ NextOf(run.readfds)
      /\ link' = IF run.it \in mConnections THEN [link EXCEPT ![run.it].handed = @ + 1] ELSE link
      /\ UNCHANGED <<mConnections, epoll, connecting>>
  BY DEF Find, ReportedAreKnown
<1>2. \A t \in Socket :
        /\ link'[t].by = link[t].by /\ link'[t].unread = link[t].unread /\ link'[t].sent = link[t].sent
        /\ link'[t].handed = IF t = run.it /\ t \in mConnections THEN link[t].handed + 1 ELSE link[t].handed
  BY <1>1 DEF MgrTypeOK, EpollType, RunType
<1>3. /\ run'.readfds \subseteq run.readfds /\ run'.pc # "find"
      /\ run'.pc = "recv" => run'.it \in run.readfds \cap Socket
  BY <1>1, NextOfStep, Fields
<1>4. MgrTypeOK'
  BY <1>1, NextOfStep, Fields DEF MgrTypeOK, EpollType, RunType
<1>5. Known' = Known
  BY <1>1, <1>2 DEF Known
<1>6. link[run.it].by = "Connect" => run.it \in mConnections
  BY <1>1, AcceptorAssumption DEF Known, Acceptor
<1>7. run.it \in mConnections => link[run.it].by # "nobody"
  BY DEF ListedAreConnected
<1>8. ListedAreConnected' /\ ConnectInOrder' /\ ReportedAreKnown' /\ UnusedAreFresh'
  BY <1>1, <1>2, <1>3, <1>5, <1>7
  DEF MgrTypeOK, EpollType, RunType, ListedAreConnected, ConnectInOrder, ReportedAreKnown, UnusedAreFresh
<1>9. MessagesAreHandedOver'
  BY <1>1, <1>2, <1>3, <1>6, Fields DEF MessagesAreHandedOver
<1> QED
  BY <1>4, <1>8, <1>9

\* The steps that leave the messages and the list alone.
LEMMA OtherStep ==
    ASSUME MgrInv, \/ MgrStart \/ Incoming \/ EpollWait \/ Check \/ MgrStop \/ EpollRelease \/ MgrGone
                 \/ \E s \in Socket \cup {Acceptor} : LateReport(s)
    PROVE  MgrInv'
<1> USE DEF MgrInv
<1>1. UNCHANGED <<mConnections, link, connecting>>
  BY DEF MgrStart, Incoming, EpollWait, Check, MgrStop, EpollRelease, MgrGone, LateReport
<1>2. Known' = Known /\ Acceptor \in Known
  BY <1>1 DEF Known
<1>3. /\ epoll' \in EpollType
      /\ epoll'.added \subseteq Known /\ epoll'.ready \subseteq Known
  <2>1. CASE Incoming
    BY <2>1, ReportStep DEF Incoming, ReportedAreKnown
  <2>2. CASE \E s \in Socket \cup {Acceptor} : LateReport(s)
    <3>1. PICK s \in Socket \cup {Acceptor} : LateReport(s)
      BY <2>2
    <3>2. /\ epoll' = [epoll EXCEPT !.ready = @ \cup {s}, !.late = @ + 1]
          /\ s \in epoll.added /\ s \in Known
      BY <3>1 DEF LateReport, ReportedAreKnown
    <3>3. epoll' \in EpollType
      <4> DEFINE e == [epoll EXCEPT !.ready = @ \cup {s}]
      <4>1. e \in EpollType /\ e.late \in Int
        BY DEF MgrTypeOK, EpollType
      <4>2. epoll' = [e EXCEPT !.late = @ + 1]
        BY <3>2 DEF MgrTypeOK, EpollType
      <4> HIDE DEF e
      <4>3. [e EXCEPT !.late = @ + 1] \in EpollType
        BY <4>1 DEF EpollType
      <4> QED
        BY <4>2, <4>3
    <3>4. epoll'.added = epoll.added /\ epoll'.ready = epoll.ready \cup {s}
      BY <3>2 DEF MgrTypeOK, EpollType
    <3> QED
      BY <3>2, <3>3, <3>4 DEF ReportedAreKnown
  <2>3. CASE EpollRelease
    BY <2>3 DEF EpollRelease, MgrTypeOK, EpollType, RunType
  <2>4. CASE MgrStart \/ EpollWait \/ Check \/ MgrStop \/ MgrGone
    BY <2>4 DEF MgrStart, EpollWait, Check, MgrStop, MgrGone, MgrTypeOK, EpollType, RunType, ReportedAreKnown
  <2> QED
    BY <2>1, <2>2, <2>3, <2>4
<1>4. /\ run' \in RunType
      /\ run'.readfds \subseteq Known
      /\ run'.pc = "recv" => run'.it \in Socket \cap Known
      /\ run'.pc = "find" \/ run.pc = "find" => run' = run
  <2>1. CASE EpollWait
    BY <2>1 DEF EpollWait, MgrTypeOK, EpollType, RunType, ReportedAreKnown, Places
  <2>2. CASE Check
    <3>1. CASE MgrStopping
      BY <2>2, <3>1 DEF Check, MgrTypeOK, EpollType, RunType, ReportedAreKnown, Places
    <3>2. CASE ~MgrStopping
      BY <2>2, <3>2, NextOfStep, Fields DEF Check, ReportedAreKnown
    <3> QED
      BY <3>1, <3>2
  <2>3. CASE MgrStart
    BY <2>3 DEF MgrStart, MgrTypeOK, EpollType, RunType, ReportedAreKnown, Places
  <2>4. CASE Incoming \/ MgrStop \/ EpollRelease \/ MgrGone \/ \E s \in Socket \cup {Acceptor} : LateReport(s)
    BY <2>4 DEF Incoming, MgrStop, EpollRelease, MgrGone, LateReport, MgrTypeOK, EpollType, RunType, ReportedAreKnown
  <2> QED
    BY <2>1, <2>2, <2>3, <2>4
<1>5. MgrTypeOK'
  BY <1>1, <1>3, <1>4 DEF MgrTypeOK, EpollType, RunType
<1>6. ListedAreConnected' /\ ConnectInOrder' /\ UnusedAreFresh'
  BY <1>1 DEF ListedAreConnected, ConnectInOrder, UnusedAreFresh
<1>7. ReportedAreKnown'
  BY <1>2, <1>3, <1>4 DEF ReportedAreKnown
<1>8. MessagesAreHandedOver'
  BY <1>1, <1>4 DEF MessagesAreHandedOver
<1> QED
  BY <1>5, <1>6, <1>7, <1>8

-----------------------------------------------------------------------------
LEMMA Inductive == MgrInv /\ [MgrNext]_mgrVars => MgrInv'
<1> SUFFICES ASSUME MgrInv, [MgrNext]_mgrVars PROVE MgrInv'
  OBVIOUS
<1>1. CASE MgrNext
  BY <1>1, ConnectStep, AppendStep, AddStep, MessageStep, AcceptStep, RecvmsgStep, FindStep, OtherStep DEF MgrNext
<1>2. CASE UNCHANGED mgrVars
  BY <1>2 DEF mgrVars, MgrInv, MgrTypeOK, EpollType, RunType, Known, ListedAreConnected, ConnectInOrder, ReportedAreKnown,
     UnusedAreFresh, MessagesAreHandedOver
<1> QED
  BY <1>1, <1>2

\* Every message that Run (src/src/KadOverIP.h) has read from a connection of Connect was handed to
\* that connection, for any number of sockets and messages and of late reports by udt4.
THEOREM HandedOver == MgrSpec => []MessagesAreHandedOver
<1>1. MgrInv => MessagesAreHandedOver
  BY DEF MgrInv
<1> QED
  BY <1>1, InitIsSound, Inductive, PTL DEF MgrSpec

-----------------------------------------------------------------------------
(* The requests under way (KadReqTracker) *)

\* The three properties are inductive together.
IInv == TypeOK /\ TrackersAgree /\ OutstandingIsTimed

\* The heap after new trackers were placed at free addresses.
LEMMA PlacedHeap ==
    ASSUME TypeOK, NEW S \in SUBSET Req, NEW at \in [S -> Free], Injective(at)
    PROVE  /\ Placed(at, tracker) \in [Addr -> Req \cup {None}]
           /\ \A r \in S : at[r] \in Addr /\ tracker[at[r]] = None /\ Placed(at, tracker)[at[r]] = r
           /\ \A a \in Addr : (\A r \in S : at[r] # a) => Placed(at, tracker)[a] = tracker[a]
<1>1. \A r \in S : at[r] \in Addr /\ tracker[at[r]] = None
  BY DEF Free
<1>2. ASSUME NEW a \in Addr, NEW r \in S, at[r] = a
      PROVE  (CHOOSE q \in S : at[q] = a) = r
  <2>1. (CHOOSE q \in S : at[q] = a) \in S /\ at[CHOOSE q \in S : at[q] = a] = a
    BY <1>2
  <2> QED
    BY <1>2, <2>1 DEF Injective
<1>3. DOMAIN at = S
  OBVIOUS
<1>4. \A r \in S : Placed(at, tracker)[at[r]] = r
  BY <1>1, <1>2, <1>3 DEF Placed
<1>5. \A a \in Addr : (\A r \in S : at[r] # a) => Placed(at, tracker)[a] = tracker[a]
  BY <1>3 DEF Placed
<1>6. Placed(at, tracker) \in [Addr -> Req \cup {None}]
  BY <1>2, <1>3 DEF Placed, TypeOK
<1> QED
  BY <1>1, <1>4, <1>5, <1>6

LEMMA SentIds ==
    ASSUME TypeOK, NEW S \in SUBSET Req, NEW at \in [S -> Free], NEW id \in [S -> MsgId]
    PROVE  SentWith(at, id) \in [Req -> Nat]
  BY MsgIdAssumption DEF SentWith, TypeOK

LEMMA SendStep ==
    ASSUME IInv, NEW S \in SUBSET Unsent, SendRequest(S)
    PROVE  IInv'
<1>0. TypeOK /\ TrackersAgree /\ OutstandingIsTimed /\ S \in SUBSET Req
  BY DEF IInv, Unsent
<1>1. PICK at \in [S -> Free], id \in [S -> MsgId] :
        /\ Injective(at)
        /\ mOps' = mOps \cup {at[r] : r \in S}
        /\ tracker' = Placed(at, tracker)
        /\ mMsgId' = SentWith(at, id)
        /\ armed' = armed \cup Timers(at)
  BY DEF SendRequest
<1>2. /\ tracker' \in [Addr -> Req \cup {None}]
      /\ \A r \in S : at[r] \in Addr /\ tracker[at[r]] = None /\ tracker'[at[r]] = r
      /\ \A a \in Addr : (\A r \in S : at[r] # a) => tracker'[a] = tracker[a]
  BY <1>0, <1>1, PlacedHeap
<1>3. Timers(at) = {<<at[r], r>> : r \in S}
  BY DEF Timers
<1>4. /\ outcome' = [r \in Req |-> IF r \in S THEN "pending" ELSE outcome[r]]
      /\ firing' = firing /\ elapsed' = elapsed
  BY DEF SendRequest
<1>5. TypeOK'
  BY <1>0, <1>1, <1>2, <1>3, <1>4, SentIds DEF TypeOK
<1>6. TrackersAgree'
  <2>1. \A r \in S : outcome[r] = "unsent" /\ \A a \in mOps : tracker[a] # r
    BY <1>0 DEF Unsent, TrackersAgree
  <2>2. \A a \in mOps : a \in Addr /\ tracker[a] # None /\ tracker'[a] = tracker[a]
    BY <1>0, <1>2 DEF TypeOK, TrackersAgree
  <2>3. \A a \in Addr : a \in mOps' <=> tracker'[a] # None
    BY <1>0, <1>1, <1>2, <2>2, NoneAssumption DEF TrackersAgree
  <2>4. \A a, b \in mOps' : tracker'[a] = tracker'[b] => a = b
    BY <1>0, <1>1, <1>2, <2>1, <2>2 DEF TrackersAgree
  <2>5. \A r \in Req : outcome'[r] = "pending" <=> \E a \in mOps' : tracker'[a] = r
    BY <1>0, <1>1, <1>2, <1>4, <2>1, <2>2 DEF TrackersAgree, TypeOK
  <2> QED
    BY <2>3, <2>4, <2>5 DEF TrackersAgree
<1>7. OutstandingIsTimed'
  BY <1>0, <1>1, <1>2, <1>3, <1>4 DEF OutstandingIsTimed, TrackersAgree, TypeOK
<1> QED
  BY <1>5, <1>6, <1>7 DEF IInv

\* The part HandleResponse and HandleTimeout have in common.
LEMMA EndStep ==
    ASSUME IInv, NEW a \in mOps, NEW how \in {"answered", "timedout"},
           NEW timers \in SUBSET armed, NEW S \in SUBSET Unsent, End(a, how, timers, S),
           \A t \in (armed \cup firing) \ (timers \cup firing') : t[1] = a,
           firing' \subseteq firing, elapsed' = elapsed
    PROVE  IInv'
<1>0. TypeOK /\ TrackersAgree /\ OutstandingIsTimed /\ S \in SUBSET Req
  BY DEF IInv, Unsent
<1>1. PICK at \in [S -> Free], id \in [S -> MsgId] :
        /\ Injective(at)
        /\ mOps' = (mOps \ {a}) \cup {at[r] : r \in S}
        /\ tracker' = [Placed(at, tracker) EXCEPT ![a] = None]
        /\ mMsgId' = SentWith(at, id)
        /\ armed' = timers \cup Timers(at)
  BY DEF End, Removed, Deleted
<1>2. /\ Placed(at, tracker) \in [Addr -> Req \cup {None}]
      /\ \A r \in S : at[r] \in Addr /\ tracker[at[r]] = None /\ Placed(at, tracker)[at[r]] = r
      /\ \A b \in Addr : (\A r \in S : at[r] # b) => Placed(at, tracker)[b] = tracker[b]
  BY <1>0, <1>1, PlacedHeap
<1>3. a \in Addr /\ tracker[a] \in Req /\ tracker[a] # None /\ outcome[tracker[a]] = "pending"
  BY <1>0 DEF TypeOK, TrackersAgree
<1>4. /\ tracker' \in [Addr -> Req \cup {None}]
      /\ tracker'[a] = None
      /\ \A r \in S : at[r] \in Addr /\ at[r] # a /\ tracker[at[r]] = None /\ tracker'[at[r]] = r
      /\ \A b \in Addr \ {a} : (\A r \in S : at[r] # b) => tracker'[b] = tracker[b]
  BY <1>1, <1>2, <1>3
<1>5. Timers(at) = {<<at[r], r>> : r \in S}
  BY DEF Timers
<1>6. outcome' = [r \in Req |-> IF r = tracker[a] THEN how
                                ELSE IF r \in S THEN "pending" ELSE outcome[r]]
  BY DEF End
<1>7. TypeOK'
  <2>1. armed' \subseteq Addr \X Req /\ mOps' \subseteq Addr /\ mMsgId' \in [Req -> Nat]
    BY <1>0, <1>1, <1>4, <1>5, SentIds DEF TypeOK
  <2>2. outcome' \in [Req -> {"unsent", "pending", "answered", "timedout"}]
    BY <1>0, <1>6 DEF TypeOK
  <2> QED
    BY <1>0, <1>4, <2>1, <2>2 DEF TypeOK
<1>8. TrackersAgree'
  <2>1. \A r \in S : outcome[r] = "unsent" /\ \A b \in mOps : tracker[b] # r
    BY <1>0 DEF Unsent, TrackersAgree
  <2>2. \A b \in mOps \ {a} : b \in Addr /\ tracker[b] # None /\ tracker'[b] = tracker[b]
    BY <1>0, <1>4 DEF TypeOK, TrackersAgree
  <2>3. \A b \in Addr : b \in mOps' <=> tracker'[b] # None
    BY <1>0, <1>1, <1>4, <2>2, NoneAssumption DEF TrackersAgree
  <2>4. \A b, c \in mOps' : tracker'[b] = tracker'[c] => b = c
    BY <1>0, <1>1, <1>4, <2>1, <2>2 DEF TrackersAgree
  <2>5. ASSUME NEW r \in Req
        PROVE  outcome'[r] = "pending" <=> \E b \in mOps' : tracker'[b] = r
    <3>1. CASE r = tracker[a]
      <4>1. outcome'[r] # "pending"
        BY <1>6, <3>1
      <4>2. \A b \in mOps \ {a} : tracker[b] # r
        BY <1>0, <3>1 DEF TrackersAgree
      <4>3. r \notin S
        BY <1>3, <2>1, <3>1
      <4> QED
        BY <1>1, <1>4, <2>2, <4>1, <4>2, <4>3
    <3>2. CASE r # tracker[a] /\ r \in S
      BY <1>1, <1>4, <1>6, <3>2
    <3>3. CASE r # tracker[a] /\ r \notin S
      <4>1. outcome'[r] = outcome[r]
        BY <1>6, <3>3
      <4>2. (\E b \in mOps : tracker[b] = r) <=> (\E b \in mOps \ {a} : tracker[b] = r)
        BY <3>3
      <4>3. (\E b \in mOps \ {a} : tracker[b] = r) <=> (\E b \in mOps' : tracker'[b] = r)
        BY <1>1, <1>4, <2>2, <3>3
      <4> QED
        BY <1>0, <4>1, <4>2, <4>3 DEF TrackersAgree
    <3> QED
      BY <3>1, <3>2, <3>3
  <2> QED
    BY <2>3, <2>4, <2>5 DEF TrackersAgree
<1>9. OutstandingIsTimed'
  <2> SUFFICES ASSUME NEW b \in mOps' PROVE <<b, tracker'[b]>> \in armed' \cup firing'
    BY DEF OutstandingIsTimed
  <2>1. CASE \E r \in S : b = at[r]
    BY <1>1, <1>4, <1>5, <2>1
  <2>2. CASE ~ \E r \in S : b = at[r]
    <3>1. b \in mOps /\ b # a /\ b \in Addr
      BY <1>0, <1>1, <2>2 DEF TypeOK
    <3>2. tracker'[b] = tracker[b]
      BY <1>4, <2>2, <3>1
    <3>3. <<b, tracker[b]>> \in armed \cup firing
      BY <1>0, <3>1 DEF OutstandingIsTimed
    <3>4. <<b, tracker[b]>> \in timers \cup firing'
      BY <3>1, <3>3
    <3> QED
      BY <1>1, <3>2, <3>4
  <2> QED
    BY <2>1, <2>2
<1> QED
  BY <1>7, <1>8, <1>9 DEF IInv

LEMMA ResponseStep ==
    ASSUME IInv, NEW m \in MsgId, NEW S \in SUBSET Unsent, HandleResponse(m, S)
    PROVE  IInv'
<1>1. PICK a \in mOps : End(a, "answered", CancelTimer(a), S)
  BY DEF HandleResponse
<1>2. firing' = firing /\ elapsed' = elapsed
  BY DEF HandleResponse
<1>3. /\ CancelTimer(a) \in SUBSET armed
      /\ \A t \in (armed \cup firing) \ (CancelTimer(a) \cup firing') : t[1] = a
  BY <1>2 DEF CancelTimer
<1> HIDE DEF CancelTimer
<1> QED
  BY <1>1, <1>2, <1>3, EndStep

LEMMA ExpireStep ==
    ASSUME IInv, NEW t \in armed, Expire(t)
    PROVE  IInv'
  BY DEF IInv, TypeOK, TrackersAgree, OutstandingIsTimed, Expire

LEMMA TimeoutStep ==
    ASSUME IInv, NEW t \in firing, NEW S \in SUBSET Unsent, HandleTimeout(t, S)
    PROVE  IInv'
<1>1. firing' = {} /\ elapsed' = elapsed /\ \A u \in firing : u = t
  BY DEF HandleTimeout, IInv, TypeOK
<1>2. CASE t[1] \in mOps
  <2>1. End(t[1], "timedout", armed, S)
    BY <1>2 DEF HandleTimeout
  <2>2. \A u \in (armed \cup firing) \ (armed \cup firing') : u[1] = t[1]
    BY <1>1
  <2> QED
    BY <1>1, <1>2, <2>1, <2>2, EndStep
<1>3. CASE t[1] \notin mOps
  <2>1. UNCHANGED <<mOps, tracker, mMsgId, armed, outcome>>
    BY <1>3 DEF HandleTimeout
  <2>2. TypeOK' /\ TrackersAgree'
    BY <1>1, <2>1 DEF IInv, TypeOK, TrackersAgree
  <2>3. \A a \in mOps : <<a, tracker[a]>> \in armed
    <3>1. \A a \in mOps : <<a, tracker[a]>> # t
      BY <1>3
    <3> QED
      BY <1>1, <3>1 DEF IInv, OutstandingIsTimed
  <2>4. OutstandingIsTimed'
    BY <2>1, <2>3 DEF OutstandingIsTimed
  <2> QED
    BY <2>2, <2>4 DEF IInv
<1> QED
  BY <1>2, <1>3

\* The inductive invariant holds of every state of every behaviour.
THEOREM Invariance == Spec => []IInv
<1>1. Init => IInv
  BY DEF Init, IInv, TypeOK, TrackersAgree, OutstandingIsTimed
<1>2. IInv /\ [Next]_vars => IInv'
  <2> SUFFICES ASSUME IInv, [Next]_vars PROVE IInv'
    OBVIOUS
  <2>1. CASE UNCHANGED vars
    BY <2>1 DEF IInv, TypeOK, TrackersAgree, OutstandingIsTimed, vars
  <2> QED
    BY <2>1, SendStep, ResponseStep, ExpireStep, TimeoutStep DEF Next
<1> QED
  BY <1>1, <1>2, PTL DEF Spec

\* The state of the request tracking keeps its types.
THEOREM TypeCorrect == Spec => []TypeOK
  BY Invariance, PTL DEF IInv

\* No dangling pointer in mOps, no leaked tracker, no request tracked twice.
THEOREM TrackersAgreeCorrect == Spec => []TrackersAgree
  BY Invariance, PTL DEF IInv

\* No outstanding request is ever without a timer of its own to come.
THEOREM OutstandingIsTimedCorrect == Spec => []OutstandingIsTimed
  BY Invariance, PTL DEF IInv

\* The request tracking implements KadRequest.
THEOREM Refinement == Spec => ContractSpec
<1>1. Init => Contract!Init
  BY DEF Init, Contract!Init
<1>2. IInv /\ [Next]_vars => [Contract!Next]_outcome
  <2> SUFFICES ASSUME IInv, [Next]_vars PROVE Contract!Next \/ outcome' = outcome
    OBVIOUS
  <2>1. ASSUME NEW S \in SUBSET Unsent, SendRequest(S) PROVE Contract!Next
    BY <2>1 DEF SendRequest, Contract!Next, Contract!Send, Contract!Unsent, Unsent
  <2>2. ASSUME NEW a \in mOps, NEW how \in {"answered", "timedout"}, NEW timers,
               NEW S \in SUBSET Unsent, End(a, how, timers, S)
        PROVE  Contract!Next
    <3>1. tracker[a] \in Req /\ outcome[tracker[a]] = "pending"
      BY DEF IInv, TypeOK, TrackersAgree
    <3>2. Contract!End(tracker[a], how, S) /\ S \in SUBSET Req
      BY <2>2, <3>1 DEF End, Contract!End, Contract!Unsent, Unsent
    <3> QED
      BY <3>1, <3>2 DEF Contract!Next
  <2>3. ASSUME NEW m \in MsgId, NEW S \in SUBSET Unsent, HandleResponse(m, S) PROVE Contract!Next
    BY <2>2, <2>3 DEF HandleResponse
  <2>4. ASSUME NEW t \in armed, Expire(t) PROVE outcome' = outcome
    BY <2>4 DEF Expire
  <2>5. ASSUME NEW t \in firing, NEW S \in SUBSET Unsent, HandleTimeout(t, S)
        PROVE  Contract!Next \/ outcome' = outcome
    BY <2>2, <2>5 DEF HandleTimeout
  <2>6. CASE UNCHANGED vars
    BY <2>6 DEF vars
  <2> QED
    BY <2>1, <2>3, <2>4, <2>5, <2>6 DEF Next
<1> QED
  BY <1>1, <1>2, Invariance, PTL DEF Spec, ContractSpec, Contract!Spec
=============================================================================
