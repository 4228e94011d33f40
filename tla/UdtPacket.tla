------------------------------ MODULE UdtPacket ------------------------------
(***************************************************************************)
(* CPacket and CHandShake of udt4's packet.cpp and the two ends of         *)
(* channel.cpp: a packet is packed, converted to network order where it    *)
(* lies, sent and converted back; the other host reads it into a unit that *)
(* still holds the packet before, and asks for its fields.                 *)
(*                                                                         *)
(* A word has four bytes, a byte Base values instead of 256: the fields    *)
(* keep their places (the flag, 2 bits of boundary, ...), only their       *)
(* widths shrink.  A header word is a number of the host, the payload is   *)
(* what lies in memory, byte for byte.                                     *)
(***************************************************************************)
EXTENDS Integers, Sequences, SequencesExt

CONSTANTS
    Base,       \* values of a byte, a power of two and at least 8
    Words,      \* numbers given to pack, less than half a word (bit 0 is the flag)
    MsgNos,     \* message numbers
    Texts,      \* payloads of data packets
    Foreign,    \* lengths of datagrams that are no packets
    Capacity,   \* bytes a unit has room for (m_iPayloadSize)
    MaxPackets  \* bound: packets sent

VARIABLES
    order,      \* of the two hosts: "little" or "big"
    packet,     \* the packet of the sender
    given,      \* what it was packed from
    wire,       \* the datagram under way
    unit,       \* the receiver's packet: the last one read
    read,       \* what recvfrom returned
    packed      \* packets so far

packetVars == <<order, packet, given, wire, unit, read, packed>>

Half == Base * Base
Word == Half * Half
Host == {"sender", "receiver"}

\* The bytes of a word as they lie in memory, and back.
BigEndian(w) == <<w \div (Base * Half), (w \div Half) % Base, (w \div Base) % Base, w % Base>>
Memory(w, o) == IF o = "little" THEN Reverse(BigEndian(w)) ELSE BigEndian(w)
Number(b, o) == LET c == IF o = "little" THEN Reverse(b) ELSE b
                IN  c[1] * Base * Half + c[2] * Half + c[3] * Base + c[4]
MemoryOf(ws, o) == FlattenSeq([i \in DOMAIN ws |-> Memory(ws[i], o)])

\* htonl and ntohl are the same function.
htonl(w, o) == Number(BigEndian(w), o)

\* The whole words of a payload, each converted where it lies; bytes that fill no word stay.
ConvertWords(data, o) ==
    LET whole == 4 * (Len(data) \div 4)
        place(i) == IF o = "big" \/ i > whole THEN i ELSE 4 * ((i - 1) \div 4) + 4 - ((i - 1) % 4)
    IN  [i \in DOMAIN data |-> data[place(i)]]

-----------------------------------------------------------------------------
(* What a packet says *)

getFlag(p) == p.header[1] \div (Word \div 2)
getType(p) == (p.header[1] \div Half) % (Half \div 2)
getExtendedType(p) == p.header[1] % Half
getAckSeqNo(p) == p.header[2]
getMsgBoundary(p) == p.header[2] \div (Word \div 4)
getMsgOrderFlag(p) == (p.header[2] \div (Word \div 8)) % 2 = 1
getMsgSeq(p) == p.header[2] % (Word \div 8)

UserType == Half \div 2 - 1     \* 0x7FFF

EmptyPacket == [header |-> <<0, 0, 0, 0>>, data |-> <<>>]

\* The words of the control information, as the host reads them.
ControlInfo(p, o) == [i \in 1 .. Len(p.data) \div 4 |-> Number(SubSeq(p.data, 4 * i - 3, 4 * i), o)]

\* What the readers of a packet see.
Fields(p, o) ==
    IF getFlag(p) = 1
    THEN [type |-> getType(p), ext |-> getExtendedType(p), info |-> getAckSeqNo(p), words |-> ControlInfo(p, o)]
    ELSE [seq |-> p.header[1], boundary |-> getMsgBoundary(p), inorder |-> getMsgOrderFlag(p),
          msg |-> getMsgSeq(p), text |-> p.data]

-----------------------------------------------------------------------------
(* The handshake *)

HandShakeFields == <<"version", "type", "isn", "mss", "flight", "reqtype", "id", "cookie", "ip0", "ip1", "ip2", "ip3">>
ContentSize == 4 * Len(HandShakeFields)

\* serialize and deserialize: the fields in their order; too small a buffer is refused.
serialize(hs) == [i \in DOMAIN HandShakeFields |-> hs[HandShakeFields[i]]]
deserialize(ws, size) ==
    IF size < ContentSize THEN <<>>
    ELSE [f \in ToSet(HandShakeFields) |-> ws[CHOOSE i \in DOMAIN HandShakeFields : HandShakeFields[i] = f]]

\* A handshake whose fields all differ.
SomeHandShake == [f \in ToSet(HandShakeFields) |-> CHOOSE i \in DOMAIN HandShakeFields : HandShakeFields[i] = f]

-----------------------------------------------------------------------------
(* Packing *)

NoWord == -1
Pad == <<0>>        \* "control info field should be none but writev does not allow this"

\* pack: the additional information is left alone without lparam, and padding stands for no
\* control information.
Packed(type, lparam, rparam) ==
    [header |-> <<Word \div 2 + type * Half + (IF type = UserType THEN lparam ELSE 0),
                  IF type \in {2, 6, 7, 8} /\ lparam # NoWord THEN lparam ELSE 0, 0, 0>>,
     data |-> MemoryOf(IF rparam = <<>> THEN Pad ELSE rparam, order["sender"])]

\* What sendCtrl and its like give to pack: full and lite acknowledgements, reports of losses, ...
ControlGiven ==
    {<<2, a, <<b, a>>>> : a \in Words, b \in Words} \cup {<<2, NoWord, <<a>>>> : a \in Words}
    \cup {<<6, a, <<>>>> : a \in Words} \cup {<<8, a, <<>>>> : a \in Words}
    \cup {<<3, NoWord, <<Word \div 2 + a, b>>>> : a \in Words, b \in Words}
    \cup {<<t, NoWord, <<>>>> : t \in {1, 4, 5}}
    \cup {<<7, a, <<b, a>>>> : a \in MsgNos, b \in Words}
    \cup {<<0, NoWord, serialize(SomeHandShake)>>}
    \cup {<<UserType, t, r>> : t \in {0, Half - 1}, r \in {<<>>, <<0>>}}

Fresh == packed < MaxPackets /\ wire = <<>> /\ packed' = packed + 1

packControl ==
    /\ Fresh
    /\ \E c \in ControlGiven :
          /\ packet' = Packed(c[1], c[2], c[3])
          /\ given' = [type |-> c[1], ext |-> IF c[1] = UserType THEN c[2] ELSE 0,
                       info |-> IF c[1] = UserType \/ c[2] = NoWord THEN 0 ELSE c[2],
                       words |-> IF c[3] = <<>> THEN Pad ELSE c[3]]
    /\ UNCHANGED <<order, wire, unit, read>>

\* packData with the header word that CSndBuffer made of the message.
packData ==
    /\ Fresh
    /\ \E seq \in Words, msg \in MsgNos, bound \in 0 .. 3, inorder \in BOOLEAN, text \in Texts :
          /\ packet' = [header |-> <<seq, bound * (Word \div 4) + (IF inorder THEN Word \div 8 ELSE 0) + msg, 0, 0>>,
                        data |-> text]
          /\ given' = [seq |-> seq, boundary |-> bound, inorder |-> inorder, msg |-> msg, text |-> text]
    /\ UNCHANGED <<order, wire, unit, read>>

\* A packet converted where it lies: the payload of a control packet, and the header.
Convert(p, o, control) ==
    [header |-> [i \in 1 .. 4 |-> htonl(p.header[i], o)],
     data |-> IF control THEN ConvertWords(p.data, o) ELSE p.data]

\* sendto: into network order, out, and back again, for the packet may be sent once more.
sendto ==
    /\ wire = <<>> /\ packed > 0
    /\ LET o == order["sender"]
           sent == Convert(packet, o, getFlag(packet) = 1)
           header == [sent EXCEPT !.header = [i \in 1 .. 4 |-> htonl(sent.header[i], o)]]
       IN  /\ wire' = MemoryOf(sent.header, o) \o sent.data
           /\ packet' = [header EXCEPT !.data = IF getFlag(header) = 1 THEN ConvertWords(@, o) ELSE @]
    /\ UNCHANGED <<order, given, unit, read, packed>>

\* Whatever else comes to the port.
ForeignArrives ==
    /\ wire = <<>> /\ \E n \in Foreign : wire' = [i \in 1 .. n |-> 0]
    /\ given' = <<>> /\ packet' = EmptyPacket
    /\ UNCHANGED <<order, unit, read, packed>>

\* recvfrom: header and payload are read over what the unit held, as far as the datagram goes and
\* there is room, and converted; a datagram shorter than a header has a negative length.
recvfrom ==
    /\ wire # <<>>
    /\ LET o == order["receiver"]
           n == IF Len(wire) > 16 + Capacity THEN 16 + Capacity ELSE Len(wire)
           old == MemoryOf(unit.header, o)
           bytes == [i \in 1 .. 16 |-> IF i <= n THEN wire[i] ELSE old[i]]
           header == [i \in 1 .. 4 |-> htonl(Number(SubSeq(bytes, 4 * i - 3, 4 * i), o), o)]
           p == [header |-> header, data |-> SubSeq(wire, 17, n)]
       IN  /\ unit' = [p EXCEPT !.data = IF getFlag(p) = 1 THEN ConvertWords(@, o) ELSE @]
           /\ read' = n - 16
    /\ wire' = <<>>
    /\ UNCHANGED <<order, packet, given, packed>>

\* A unit as it comes from the queue of units, or with all that another packet has left in it.
Used == [header |-> [i \in 1 .. 4 |-> Word - 1], data |-> <<Base - 1>>]

PacketInit ==
    /\ order \in [Host -> {"little", "big"}]
    /\ unit \in {EmptyPacket, Used}
    /\ packet = EmptyPacket /\ given = <<>> /\ wire = <<>> /\ read = -1 /\ packed = 0

PacketNext == packControl \/ packData \/ sendto \/ ForeignArrives \/ recvfrom

PacketSpec == PacketInit /\ [][PacketNext]_packetVars

-----------------------------------------------------------------------------
\* What is read is what was packed, word for word and byte for byte, whatever order the two hosts
\* keep their bytes in and whatever the unit held before; a handshake comes out as it went in;
\* the sender's packet is after sendto what it was before (a handshake is sent again and again, a
\* data packet lies in the sending buffer); and what is shorter than a header is not taken for a
\* packet.
PacketIsRestored == given # <<>> => Fields(packet, order["sender"]) = given
PacketsSurvive ==
    /\ []PacketIsRestored
    /\ [][wire # <<>> /\ wire' = <<>> =>
            /\ read' >= 0 <=> Len(wire) >= 16
            /\ given # <<>> =>
                  /\ Fields(unit', order["receiver"]) = given
                  /\ getFlag(unit') = 1 /\ getType(unit') = 0 =>
                        deserialize(ControlInfo(unit', order["receiver"]), read') = SomeHandShake]_packetVars
=============================================================================
