----------------------------- MODULE UdtOptions -----------------------------
(***************************************************************************)
(* The options of a socket of udt4 that depend on one another (the         *)
(* constructors, setOpt and getOpt of core.cpp): the packet size, the      *)
(* buffers of the socket in packets, those of its UDP port in bytes, and   *)
(* the flow window; with what becomes of them when the socket is bound,    *)
(* connects, or accepts: a socket accepted starts with the listener's.     *)
(*                                                                         *)
(* The other options are a flag or a number each, stored and read.         *)
(***************************************************************************)
EXTENDS Integers

CONSTANTS
    Header,       \* bytes of IP and UDP header in a packet (28)
    MinContent,   \* bytes of a handshake (48)
    MinWindow,    \* packets (32)
    Sizes,        \* values the application passes
    Defaults      \* of the constructor: mss, flight, snd, rcv, udpSnd, udpRcv

VARIABLES
    options,      \* the options of the socket
    accepted,     \* those of the socket that was accepted last, or none
    phase,        \* "new", then "opened" (bound), then "connected"
    answer        \* what getOpt has returned last

optionVars == <<options, accepted, phase, answer>>

NoOptions == [mss |-> 0, flight |-> 0, snd |-> 0, rcv |-> 0, udpSnd |-> 0, udpRcv |-> 0]

OptionsInit == options = Defaults /\ accepted = NoOptions /\ phase = "new" /\ answer = -1

Smaller(a, b) == IF a < b THEN a ELSE b
Greater(a, b) == IF a > b THEN a ELSE b

\* Any call that the code refuses raises an exception and leaves everything as it was.
Set(allowed, new) ==
    /\ allowed
    /\ options' = new
    /\ UNCHANGED <<accepted, phase, answer>>

SetMSS(v) == Set(phase = "new" /\ v >= Header + MinContent,
                 [options EXCEPT !.mss = Smaller(v, Smaller(options.udpSnd, options.udpRcv))])

SetFC(v) == Set(phase # "connected" /\ v >= 1, [options EXCEPT !.flight = Greater(v, MinWindow)])

SetSndBuf(v) == Set(phase = "new" /\ v > 0, [options EXCEPT !.snd = v \div (options.mss - Header)])

SetRcvBuf(v) ==
    Set(phase = "new" /\ v > 0,
        [options EXCEPT !.rcv = Smaller(IF v > (options.mss - Header) * MinWindow THEN v \div (options.mss - Header)
                                        ELSE MinWindow,
                                        options.flight)])

AtLeastMSS(v) == Greater(v, options.mss)
SetUDPSndBuf(v) == Set(phase = "new", [options EXCEPT !.udpSnd = AtLeastMSS(v)])
SetUDPRcvBuf(v) == Set(phase = "new", [options EXCEPT !.udpRcv = AtLeastMSS(v)])

\* getOpt: sizes in bytes, as the packet size is now.
Bytes == {options.mss, options.flight, options.snd * (options.mss - Header), options.rcv * (options.mss - Header),
          options.udpSnd, options.udpRcv}
getOpt == answer' \in Bytes /\ UNCHANGED <<options, accepted, phase>>

\* bind opens the socket, connect connects it.
open == phase = "new" /\ phase' = "opened" /\ UNCHANGED <<options, accepted, answer>>
connect == phase = "opened" /\ phase' = "connected" /\ UNCHANGED <<options, accepted, answer>>

\* CUDT(ancestor) for a socket that is accepted by this one.
accept == phase = "opened" /\ accepted' = options /\ UNCHANGED <<options, phase, answer>>

OptionsNext ==
    \/ getOpt \/ open \/ connect \/ accept
    \/ \E v \in Sizes : \/ SetMSS(v) \/ SetFC(v) \/ SetSndBuf(v) \/ SetRcvBuf(v)
                        \/ SetUDPSndBuf(v) \/ SetUDPRcvBuf(v)

OptionsSpec == OptionsInit /\ [][OptionsNext]_optionVars

\* What a connection is made with: the window the peer is told, the size of the list of losses.
Advertised(o) == Smaller(o.rcv, o.flight)
-----------------------------------------------------------------------------
\* In whatever order options are set: a packet has room for a handshake and fits into the buffers
\* of the port, the receive buffer and the window keep their minimum, and the peer is told a
\* window no greater than the buffer it fills.
PacketsFit ==
    \A o \in {options} \cup ({accepted} \ {NoOptions}) :
        /\ o.mss >= Header + MinContent /\ o.mss <= o.udpSnd /\ o.mss <= o.udpRcv
        /\ o.rcv >= MinWindow /\ o.flight >= MinWindow /\ Advertised(o) <= o.rcv

\* "Rcv buffer MUST NOT be bigger than Flight Flag size" (core.cpp): the list of losses has room for
\* the window only.
RcvBufFitsFlight == options.rcv <= options.flight
=============================================================================
