---------------------------- MODULE UdtPartsProofs ----------------------------
(***************************************************************************)
(* Proofs about the parts of a connection that keep limits and promises of *)
(* their own: the congestion control (UdtCC), the options (UdtOptions),    *)
(* the cache of paths (UdtCache), the ring of acknowledgements (UdtWindow, *)
(* which implements UdtAckHistory), files (UdtFile with UdtRcvBuffer) and  *)
(* the sending buffer (UdtSndBuffer, which implements UdtSendQueue).       *)
(***************************************************************************)
EXTENDS MCUdtParts, Sequences, FiniteSetTheorems, WellFoundedInduction, TLAPS

-----------------------------------------------------------------------------
(* A step of one part leaves the others as they are *)

LEMMA CCMoves == ASSUME [PartsNext]_partsVars PROVE [CC!CCNext]_(CC!ccVars)
  BY DEF PartsNext, Only, partsVars, ccVars, CC!ccVars

LEMMA OptionsMove == ASSUME [PartsNext]_partsVars PROVE [Opts!OptionsNext]_(Opts!optionVars)
  BY DEF PartsNext, Only, partsVars, optionVars, Opts!optionVars

LEMMA CacheMoves == ASSUME [PartsNext]_partsVars PROVE [Cache!CacheNext]_(Cache!cacheVars)
  BY DEF PartsNext, Only, partsVars, cacheVars, Cache!cacheVars

LEMMA WindowMoves == ASSUME [PartsNext]_partsVars PROVE [Window!WindowNext]_(Window!windowVars)
  BY DEF PartsNext, Only, partsVars, windowVars, Window!windowVars

-----------------------------------------------------------------------------
(* The congestion control: numbers of packets instead of sequence numbers *)

\* The packets that may be spoken of: the two before the first one, and the one after the last.
Counted == -1 .. MaxSends + 1

\* The sequence number of packet n, the first packet being number 1.
Num(n) ==
    LET k == CCFirstSeqNo + n - 1
    IN  IF k > CCMaxSeqNo THEN k - CCMaxSeqNo - 1 ELSE IF k < 0 THEN k + CCMaxSeqNo + 1 ELSE k

LEMMA NumIsSeqNo == \A n \in Counted : Num(n) \in CC!SeqNos
  BY CCAssumption DEF Counted, Num, CC!SeqNos

LEMMA NumNext == \A n \in Counted : n <= MaxSends => CC!incseq(Num(n)) = Num(n + 1)
  BY CCAssumption DEF Counted, Num, CC!incseq

\* Packets that can be compared.
Near(m, n) == m \in Counted /\ n \in Counted /\ m - n < CCSeqNoTH /\ n - m < CCSeqNoTH

LEMMA NumOff == \A m, n : Near(m, n) => CC!seqoff(Num(m), Num(n)) = n - m
  BY CCAssumption DEF Near, Counted, Num, CC!seqoff, CC!absdiff

LEMMA NumCmp == \A m, n : Near(m, n) => (CC!seqcmp(Num(m), Num(n)) > 0 <=> m > n)
  BY CCAssumption DEF Near, Counted, Num, CC!seqcmp, CC!absdiff

LEMMA NumLen == \A m, n \in Counted : m <= n => CC!seqlen(Num(m), Num(n)) = n - m + 1
  BY CCAssumption, SMTT(60) DEF Counted, Num, CC!seqlen

\* The numbers within reach of packet m are those of the packets after it.
LEMMA NumReached ==
    ASSUME NEW m \in Counted, NEW s \in CC!SeqNos, NEW last \in Counted, CC!seqlen(Num(m), s) <= last - m + 1
    PROVE  \E n \in m .. last : s = Num(n)
<1> DEFINE n == m + CC!seqlen(Num(m), s) - 1
<1>1. Num(m) \in CC!SeqNos
  BY NumIsSeqNo
<1>2. CC!seqlen(Num(m), s) \in 1 .. last - m + 1
  BY <1>1, CCAssumption DEF CC!seqlen, CC!SeqNos, Counted
<1>3. n \in m .. last
  BY <1>2 DEF Counted
<1>4. s = Num(n)
  BY <1>2, CCAssumption DEF CC!seqlen, CC!SeqNos, Num, Counted
<1> QED
  BY <1>3, <1>4

\* The numbers kept are those of packets, and the window is what was acknowledged.
CCInv ==
    /\ past.sent \in 0 .. MaxSends /\ past.acked \in 0 .. past.sent /\ past.acks \in Nat
    /\ DOMAIN past = {"sent", "acked", "acks", "cuts", "cutAt"}
    /\ past.cutAt \in -1 .. past.sent
    /\ m_iSndCurrSeqNo = Num(past.sent) /\ unacked = Num(past.acked + 1) /\ m_iLastDecSeq = Num(past.cutAt)
    /\ m_iDecCount \in Nat /\ past.cuts \in 0 .. 5 /\ past.cuts <= m_iDecCount
    /\ m_dCWndSize \in Nat /\ m_dCWndSize >= FirstWindow
    /\ m_bSlowStart => \E a \in 0 .. past.acked + 1 :
                          m_iLastAck = Num(a) /\ m_dCWndSize <= FirstWindow + a + past.acks

LEMMA CCBegins == CC!CCInit => CCInv
<1> SUFFICES ASSUME CC!CCInit PROVE CCInv
  OBVIOUS
<1>1. CC!decseq(CCFirstSeqNo) = Num(0) /\ CC!decseq(Num(0)) = Num(-1) /\ CCFirstSeqNo = Num(1)
  BY CCAssumption DEF Num, CC!decseq
<1> HIDE DEF Num
<1>2. \E a \in 0 .. past.acked + 1 : m_iLastAck = Num(a) /\ m_dCWndSize <= FirstWindow + a + past.acks
  BY <1>1, CCAssumption DEF CC!CCInit
<1> QED
  BY <1>1, <1>2, CCAssumption DEF CC!CCInit, CCInv

LEMMA SndKeeps == ASSUME CCInv, CC!setSndCurrSeqNo PROVE CCInv'
<1>1. CC!incseq(Num(past.sent)) = Num(past.sent + 1)
  BY NumNext, CCAssumption DEF CCInv, Counted
<1>2. past'.sent = past.sent + 1 /\ past.sent + 1 <= MaxSends /\ past'.acked = past.acked /\ past'.acks = past.acks
      /\ past'.cuts = past.cuts /\ past'.cutAt = past.cutAt /\ DOMAIN past' = DOMAIN past
  BY CCAssumption DEF CC!setSndCurrSeqNo, CCInv
<1> QED
  BY <1>1, <1>2, CCAssumption DEF CC!setSndCurrSeqNo, CCInv

LEMMA TimeoutKeeps == ASSUME CCInv, CC!onTimeout PROVE CCInv'
  BY DEF CC!onTimeout, CCInv

LEMMA AckKeeps == ASSUME CCInv, NEW ack \in CC!SeqNos, NEW soon \in BOOLEAN, CC!onACK(ack, soon) PROVE CCInv'
<1>1. past.acked + 1 \in Counted /\ past.sent \in Counted /\ past.sent + 1 \in Counted
  BY CCAssumption DEF CCInv, Counted
<1>2. past.acked < past.sent
  <2>1. CC!incseq(Num(past.sent)) = Num(past.sent + 1)
    BY <1>1, NumNext, CCAssumption DEF CCInv
  <2>2. unacked # Num(past.sent + 1)
    BY <2>1 DEF CC!onACK, CCInv
  <2> QED
    BY <2>2 DEF CCInv
<1>3. CC!seqlen(unacked, m_iSndCurrSeqNo) = past.sent - past.acked
  BY <1>1, <1>2, NumLen DEF CCInv
<1>4. PICK n \in past.acked + 1 .. past.sent + 1 : ack = Num(n)
  <2>1. CC!seqlen(Num(past.acked + 1), ack) <= (past.sent + 1) - (past.acked + 1) + 1
    BY <1>3 DEF CC!onACK, CCInv
  <2> QED
    BY <1>1, <2>1, NumReached
<1>5. n \in Counted /\ n > past.acked + 1
  <2>1. n # past.acked + 1
    BY <1>4 DEF CC!onACK, CCInv
  <2> QED
    BY <1>1, <2>1, CCAssumption DEF CCInv, Counted
<1>6. CC!seqoff(unacked, ack) = n - (past.acked + 1)
  <2>1. Near(past.acked + 1, n)
    BY <1>1, <1>5, CCAssumption DEF CCInv, Near, Counted
  <2> QED
    BY <1>4, <2>1, NumOff DEF CCInv
<1>7. past'.sent = past.sent /\ past'.acked = n - 1 /\ past'.acks = past.acks + 1
      /\ past'.cuts = past.cuts /\ past'.cutAt = past.cutAt /\ DOMAIN past' = DOMAIN past
  BY <1>6 DEF CC!onACK, CCInv
<1>8. unacked' = Num(past'.acked + 1)
  BY <1>4, <1>7 DEF CC!onACK, CCInv
<1>9. UNCHANGED <<m_iLastDecSeq, m_iDecCount, m_iSndCurrSeqNo>>
  BY DEF CC!onACK
<1>10. /\ m_dCWndSize' \in Nat /\ m_dCWndSize' >= FirstWindow
       /\ m_bSlowStart' => \E a \in 0 .. past'.acked + 1 :
                              m_iLastAck' = Num(a) /\ m_dCWndSize' <= FirstWindow + a + past'.acks
  <2>1. CASE soon
    <3>1. UNCHANGED <<m_bSlowStart, m_iLastAck, m_dCWndSize>>
      BY <2>1 DEF CC!onACK
    <3> QED
      BY <1>5, <1>7, <3>1, CCAssumption DEF CCInv
  <2>2. CASE ~soon /\ m_bSlowStart
    <3>1. m_dCWndSize' = m_dCWndSize + CC!seqlen(m_iLastAck, ack) /\ m_iLastAck' = ack
      BY <2>2 DEF CC!onACK, CC!Grown
    <3>2. PICK a \in 0 .. past.acked + 1 : m_iLastAck = Num(a) /\ m_dCWndSize <= FirstWindow + a + past.acks
      BY <2>2 DEF CCInv
    <3>3. CC!seqlen(m_iLastAck, ack) = n - a + 1
      <4>1. a \in Counted /\ a <= n
        BY <1>5, <3>2, CCAssumption DEF Counted, CCInv
      <4> QED
        BY <1>4, <1>5, <3>2, <4>1, NumLen
    <3>4. n \in 0 .. past'.acked + 1 /\ m_iLastAck' = Num(n) /\ m_dCWndSize' <= FirstWindow + n + past'.acks
      BY <1>4, <1>5, <1>7, <3>1, <3>2, <3>3, CCAssumption DEF CCInv
    <3>5. m_dCWndSize' \in Nat /\ m_dCWndSize' >= FirstWindow
      BY <1>5, <3>1, <3>2, <3>3, CCAssumption DEF CCInv
    <3> QED
      BY <3>4, <3>5
  <2>3. CASE ~soon /\ ~m_bSlowStart
    <3>1. ~m_bSlowStart' /\ \E more \in RateWindows : m_dCWndSize' = FirstWindow + more
      BY <2>3 DEF CC!onACK
    <3> QED
      BY <3>1, CCAssumption
  <2> QED
    BY <2>1, <2>2, <2>3
<1> HIDE DEF Num
<1> QED
  BY <1>5, <1>7, <1>8, <1>9, <1>10 DEF CCInv

LEMMA LossKeeps == ASSUME CCInv, NEW loss \in CC!SeqNos, NEW again \in BOOLEAN, CC!onLoss(loss, again) PROVE CCInv'
<1>1. /\ UNCHANGED <<m_dCWndSize, m_iSndCurrSeqNo, unacked>> /\ ~m_bSlowStart'
  BY DEF CC!onLoss
<1>2. CASE CC!Fresh(loss)
  <2>1. /\ m_iDecCount' = 1 /\ m_iLastDecSeq' = m_iSndCurrSeqNo
        /\ past' = [past EXCEPT !.cuts = 1, !.cutAt = past.sent]
    BY <1>2 DEF CC!onLoss
  <2>2. /\ past'.sent = past.sent /\ past'.acked = past.acked /\ past'.acks = past.acks
        /\ past'.cuts = 1 /\ past'.cutAt = past.sent /\ DOMAIN past' = DOMAIN past
    BY <2>1 DEF CCInv
  <2> QED
    BY <1>1, <2>1, <2>2 DEF CCInv
<1>3. CASE ~CC!Fresh(loss) /\ m_iDecCount < 5 /\ again
  <2>1. /\ m_iDecCount' = m_iDecCount + 1 /\ m_iLastDecSeq' = m_iSndCurrSeqNo
        /\ past' = [past EXCEPT !.cuts = @ + 1, !.cutAt = past.sent]
    BY <1>3 DEF CC!onLoss
  <2>2. /\ past'.sent = past.sent /\ past'.acked = past.acked /\ past'.acks = past.acks
        /\ past'.cuts = past.cuts + 1 /\ past'.cutAt = past.sent /\ DOMAIN past' = DOMAIN past
    BY <2>1 DEF CCInv
  <2> QED
    BY <1>1, <1>3, <2>1, <2>2 DEF CCInv
<1>4. CASE ~CC!Fresh(loss) /\ ~(m_iDecCount < 5 /\ again)
  <2>1. m_iDecCount' = m_iDecCount + 1 /\ m_iLastDecSeq' = m_iLastDecSeq /\ past' = past
    BY <1>4 DEF CC!onLoss
  <2> QED
    BY <1>1, <2>1 DEF CCInv
<1> QED
  BY <1>2, <1>3, <1>4

LEMMA CCInvariance == PartsSpec => []CCInv
<1>1. PartsInit => CCInv
  BY CCBegins DEF PartsInit
<1>2. CCInv /\ [PartsNext]_partsVars => CCInv'
  <2> SUFFICES ASSUME CCInv, [CC!CCNext]_(CC!ccVars) PROVE CCInv'
    BY CCMoves
  <2>1. CASE UNCHANGED CC!ccVars
    BY <2>1 DEF CC!ccVars, CCInv
  <2> QED
    BY <2>1, SndKeeps, TimeoutKeeps, AckKeeps, LossKeeps DEF CC!CCNext
<1> QED
  BY <1>1, <1>2, PTL DEF PartsSpec

\* What the invariant says in sequence numbers.
LEMMA CCLimits == CCInv => CC!CongestionIsBounded
<1> SUFFICES ASSUME CCInv PROVE CC!CongestionIsBounded
  OBVIOUS
<1>1. past.acked + 1 \in Counted /\ past.sent \in Counted /\ past.sent + 1 \in Counted /\ past.cutAt \in Counted
  BY CCAssumption DEF CCInv, Counted
<1>2. ASSUME NEW loss \in CC!SeqNos, CC!seqlen(unacked, loss) <= CC!seqlen(unacked, m_iSndCurrSeqNo),
             unacked # CC!incseq(m_iSndCurrSeqNo)
      PROVE  CC!Fresh(loss) <=> past.sent - CC!seqoff(loss, m_iSndCurrSeqNo) > past.cutAt
  <2>1. past.acked < past.sent
    <3>1. CC!incseq(Num(past.sent)) = Num(past.sent + 1)
      BY <1>1, NumNext, CCAssumption DEF CCInv
    <3> QED
      BY <1>2, <3>1 DEF CCInv
  <2>2. CC!seqlen(unacked, m_iSndCurrSeqNo) = past.sent - past.acked
    BY <1>1, <2>1, NumLen DEF CCInv
  <2>3. PICK n \in past.acked + 1 .. past.sent : loss = Num(n)
    <3>1. CC!seqlen(Num(past.acked + 1), loss) <= past.sent - (past.acked + 1) + 1
      BY <1>2, <2>2 DEF CCInv
    <3> QED
      BY <1>1, <3>1, NumReached
  <2>4. n \in Counted
    BY <1>1, CCAssumption DEF CCInv, Counted
  <2>5. CC!seqoff(loss, m_iSndCurrSeqNo) = past.sent - n
    <3>1. Near(n, past.sent)
      BY <1>1, <2>4, CCAssumption DEF CCInv, Near, Counted
    <3> QED
      BY <2>3, <3>1, NumOff DEF CCInv
  <2>6. CC!Fresh(loss) <=> n > past.cutAt
    <3>1. Near(n, past.cutAt)
      BY <1>1, <2>4, CCAssumption DEF CCInv, Near, Counted
    <3> QED
      BY <2>3, <3>1, NumCmp DEF CCInv, CC!Fresh
  <2> QED
    BY <2>4, <2>5, <2>6 DEF CCInv, Counted
<1>3. m_bSlowStart => m_dCWndSize <= FirstWindow + past.acked + past.acks + 1
  BY CCAssumption DEF CCInv
<1> QED
  BY <1>2, <1>3 DEF CCInv, CC!CongestionIsBounded

-----------------------------------------------------------------------------
(* The options *)

\* A packet has room for a handshake and fits into the buffers of the port; what is measured in
\* packets keeps its minimum.
Fit(o) ==
    /\ o \in [{"mss", "flight", "snd", "rcv", "udpSnd", "udpRcv"} -> Nat]
    /\ o.mss >= Header + MinContent /\ o.mss <= o.udpSnd /\ o.mss <= o.udpRcv
    /\ o.rcv >= MinWindow /\ o.flight >= MinWindow

OptionsInv == Fit(options) /\ (accepted = Opts!NoOptions \/ Fit(accepted))

\* More bytes than so many packets have room for at least as many packets.
LEMMA Quotient == \A v, p, w \in Nat : p > 0 /\ v > p * w => v \div p \in Nat /\ v \div p >= w
  OBVIOUS

LEMMA QuotientIsNat == \A v, p \in Nat : p > 0 => v \div p \in Nat
  OBVIOUS

LEMMA SetKeeps == ASSUME Fit(options), NEW v \in OptionSizes,
                         \/ Opts!SetMSS(v) \/ Opts!SetFC(v) \/ Opts!SetSndBuf(v) \/ Opts!SetRcvBuf(v)
                         \/ Opts!SetUDPSndBuf(v) \/ Opts!SetUDPRcvBuf(v)
                  PROVE  Fit(options') /\ accepted' = accepted
<1> USE OptionsAssumption
<1>1. v \in Nat /\ options.mss - Header \in Nat /\ options.mss - Header > 0
  BY DEF Fit
<1>2. CASE Opts!SetMSS(v)
  BY <1>1, <1>2 DEF Opts!SetMSS, Opts!Set, Opts!Smaller, Fit
<1>3. CASE Opts!SetFC(v)
  BY <1>1, <1>3 DEF Opts!SetFC, Opts!Set, Opts!Greater, Fit
<1>4. CASE Opts!SetSndBuf(v)
  <2> DEFINE n == v \div (options.mss - Header)
  <2>1. n \in Nat
    BY <1>1, QuotientIsNat
  <2>2. options' = [options EXCEPT !.snd = n] /\ accepted' = accepted
    BY <1>4 DEF Opts!SetSndBuf, Opts!Set
  <2> HIDE DEF n
  <2> QED
    BY <2>1, <2>2 DEF Fit
<1>5. CASE Opts!SetRcvBuf(v)
  <2> DEFINE p == options.mss - Header
             n == IF v > p * MinWindow THEN v \div p ELSE MinWindow
  <2>1. n \in Nat /\ n >= MinWindow
    BY <1>1, Quotient
  <2>2. options' = [options EXCEPT !.rcv = Opts!Smaller(n, options.flight)] /\ accepted' = accepted
    BY <1>5 DEF Opts!SetRcvBuf, Opts!Set
  <2> HIDE DEF n
  <2> QED
    BY <2>1, <2>2 DEF Fit, Opts!Smaller
<1>6. CASE Opts!SetUDPSndBuf(v) \/ Opts!SetUDPRcvBuf(v)
  BY <1>1, <1>6 DEF Opts!SetUDPSndBuf, Opts!SetUDPRcvBuf, Opts!Set, Opts!AtLeastMSS, Opts!Greater, Fit
<1> QED
  BY <1>2, <1>3, <1>4, <1>5, <1>6

LEMMA OptionsInvariance == PartsSpec => []OptionsInv
<1>1. PartsInit => OptionsInv
  BY OptionsAssumption DEF PartsInit, Opts!OptionsInit, OptionsInv, Fit
<1>2. OptionsInv /\ [PartsNext]_partsVars => OptionsInv'
  <2> SUFFICES ASSUME OptionsInv, [Opts!OptionsNext]_(Opts!optionVars) PROVE OptionsInv'
    BY OptionsMove
  <2>1. CASE UNCHANGED <<options, accepted>>
    BY <2>1 DEF OptionsInv, Fit, Opts!NoOptions
  <2>2. CASE Opts!accept
    BY <2>2 DEF Opts!accept, OptionsInv, Fit
  <2>3. ASSUME Fit(options'), accepted' = accepted PROVE OptionsInv'
    BY <2>3 DEF OptionsInv, Fit, Opts!NoOptions
  <2>4. Opts!getOpt \/ Opts!open \/ Opts!connect \/ UNCHANGED Opts!optionVars => UNCHANGED <<options, accepted>>
    BY DEF Opts!getOpt, Opts!open, Opts!connect, Opts!optionVars
  <2> QED
    BY <2>1, <2>2, <2>3, <2>4, SetKeeps DEF Opts!OptionsNext, OptionsInv
<1> QED
  BY <1>1, <1>2, PTL DEF PartsSpec

LEMMA OptionsLimits == OptionsInv => Opts!PacketsFit
<1> SUFFICES ASSUME OptionsInv, NEW o \in {options} \cup ({accepted} \ {Opts!NoOptions})
             PROVE  /\ o.mss >= Header + MinContent /\ o.mss <= o.udpSnd /\ o.mss <= o.udpRcv
                    /\ o.rcv >= MinWindow /\ o.flight >= MinWindow /\ Opts!Advertised(o) <= o.rcv
  BY DEF Opts!PacketsFit
<1>1. Fit(o)
  BY DEF OptionsInv
<1> QED
  BY <1>1 DEF Fit, Opts!Advertised, Opts!Smaller

-----------------------------------------------------------------------------
(* The cache: sequences whose first entry is new *)

Member(v, s) == \E i \in 1 .. Len(s) : s[i] = v
Distinct(s) == \A i \in 1 .. Len(s) : \A j \in 1 .. Len(s) : s[i] = s[j] => i = j

\* RemoveAt takes one entry out and keeps the order of the others.
LEMMA RemoveAtIs ==
    ASSUME NEW S, NEW s \in Seq(S), NEW i \in 1 .. Len(s)
    PROVE  /\ Cache!RemoveAt(s, i) \in Seq(S)
           /\ Len(Cache!RemoveAt(s, i)) = Len(s) - 1
           /\ \A k \in 1 .. Len(s) - 1 : Cache!RemoveAt(s, i)[k] = s[IF k < i THEN k ELSE k + 1]
<1> DEFINE a == SubSeq(s, 1, i - 1)
           b == SubSeq(s, i + 1, Len(s))
<1>1. Len(s) \in Nat /\ i \in Nat /\ i >= 1 /\ i <= Len(s)
  OBVIOUS
<1>2. a \in Seq(S) /\ Len(a) = i - 1 /\ \A k \in 1 .. i - 1 : a[k] = s[k]
  BY <1>1
<1>3. b \in Seq(S) /\ Len(b) = Len(s) - i /\ \A k \in 1 .. Len(s) - i : b[k] = s[i + k]
  BY <1>1
<1>4. Cache!RemoveAt(s, i) = a \o b
  BY DEF Cache!RemoveAt
<1> HIDE DEF a, b
<1>5. a \o b \in Seq(S) /\ Len(a \o b) = Len(s) - 1
  <2>1. a \o b \in Seq(S) /\ Len(a \o b) = Len(a) + Len(b)
    <3>1. a \in Seq(S) /\ b \in Seq(S)
      BY <1>2, <1>3
    <3> QED
      BY <3>1
  <2>2. Len(a) + Len(b) = Len(s) - 1
    BY <1>1, <1>2, <1>3
  <2> QED
    BY <2>1, <2>2
<1>6. ASSUME NEW k \in 1 .. Len(s) - 1 PROVE (a \o b)[k] = s[IF k < i THEN k ELSE k + 1]
  <2>1. CASE k < i
    <3>1. k \in 1 .. Len(a) /\ k \in 1 .. i - 1
      BY <1>1, <1>2, <2>1
    <3> QED
      BY <1>2, <1>3, <2>1, <3>1
  <2>2. CASE ~(k < i)
    <3>1. k \in Len(a) + 1 .. Len(a) + Len(b) /\ k - Len(a) \in 1 .. Len(s) - i /\ i + (k - Len(a)) = k + 1
      BY <1>1, <1>2, <1>3, <2>2
    <3>2. (a \o b)[k] = b[k - Len(a)]
      BY <1>2, <1>3, <3>1
    <3> QED
      BY <1>3, <2>2, <3>1, <3>2
  <2> QED
    BY <2>1, <2>2
<1> QED
  BY <1>4, <1>5, <1>6

\* Whoever is in the rest was in the sequence, at another place than i; and all the others are.
LEMMA RemoveAtKeeps ==
    ASSUME NEW S, NEW s \in Seq(S), NEW i \in 1 .. Len(s)
    PROVE  LET r == Cache!RemoveAt(s, i)
           IN  /\ \A k \in 1 .. Len(r) : \E j \in 1 .. Len(s) : j # i /\ r[k] = s[j]
               /\ \A j \in 1 .. Len(s) : j # i => \E k \in 1 .. Len(r) : r[k] = s[j]
<1> DEFINE r == Cache!RemoveAt(s, i)
<1>1. Len(s) \in Nat /\ i \in Nat /\ i >= 1 /\ i <= Len(s)
  OBVIOUS
<1>2. Len(r) = Len(s) - 1 /\ \A k \in 1 .. Len(s) - 1 : r[k] = s[IF k < i THEN k ELSE k + 1]
  BY RemoveAtIs
<1> HIDE DEF r
<1>3. ASSUME NEW k \in 1 .. Len(r) PROVE \E j \in 1 .. Len(s) : j # i /\ r[k] = s[j]
  <2>1. k \in 1 .. Len(s) - 1 /\ r[k] = s[IF k < i THEN k ELSE k + 1]
    BY <1>2
  <2>2. CASE k < i
    <3>1. k \in 1 .. Len(s) /\ k # i /\ r[k] = s[k]
      BY <1>1, <2>1, <2>2
    <3> QED
      BY <3>1
  <2>3. CASE ~(k < i)
    <3>1. k + 1 \in 1 .. Len(s) /\ k + 1 # i /\ r[k] = s[k + 1]
      BY <1>1, <2>1, <2>3
    <3> QED
      BY <3>1
  <2> QED
    BY <2>2, <2>3
<1>4. ASSUME NEW j \in 1 .. Len(s), j # i PROVE \E k \in 1 .. Len(r) : r[k] = s[j]
  <2>1. CASE j < i
    <3>1. j \in 1 .. Len(r)
      BY <1>1, <1>2, <2>1
    <3>2. r[j] = s[j]
      BY <1>2, <2>1, <3>1
    <3> QED
      BY <3>1, <3>2
  <2>2. CASE ~(j < i)
    <3>1. j - 1 \in 1 .. Len(r) /\ ~(j - 1 < i) /\ j - 1 + 1 = j
      BY <1>1, <1>2, <1>4, <2>2
    <3>2. r[j - 1] = s[j]
      BY <1>2, <3>1
    <3> QED
      BY <3>1, <3>2
  <2> QED
    BY <2>1, <2>2
<1> QED
  BY <1>3, <1>4 DEF r

LEMMA PrependKeeps ==
    ASSUME NEW S, NEW s \in Seq(S), NEW e \in S
    PROVE  /\ <<e>> \o s \in Seq(S)
           /\ \A v : Member(v, <<e>> \o s) <=> Member(v, s) \/ v = e
           /\ Distinct(s) /\ ~Member(e, s) => Distinct(<<e>> \o s)
<1> DEFINE r == <<e>> \o s
           n == Len(s)
<1>1. /\ r \in Seq(S) /\ n \in Nat /\ Len(r) = n + 1 /\ r[1] = e /\ \A k \in 1 .. n : r[k + 1] = s[k]
  OBVIOUS
<1>2. /\ 1 \in 1 .. n + 1 /\ \A k \in 1 .. n : k + 1 \in 1 .. n + 1
      /\ \A i \in 1 .. n + 1 : i = 1 \/ (i - 1 \in 1 .. n /\ i = i - 1 + 1)
  BY <1>1
<1> HIDE DEF r, n
<1>3. ASSUME NEW i \in 1 .. n + 1, i # 1 PROVE i - 1 \in 1 .. n /\ r[i] = s[i - 1]
  <2>1. i - 1 \in 1 .. n /\ i = i - 1 + 1
    BY <1>2, <1>3
  <2>2. r[i - 1 + 1] = s[i - 1]
    BY <1>1, <2>1
  <2> QED
    BY <2>1, <2>2
<1>4. \A v : Member(v, r) <=> Member(v, s) \/ v = e
  <2>1. ASSUME NEW v, Member(v, s) PROVE Member(v, r)
    <3>1. PICK k \in 1 .. n : s[k] = v
      BY <2>1 DEF Member, n
    <3>2. r[k + 1] = v /\ k + 1 \in 1 .. n + 1
      BY <1>1, <1>2, <3>1
    <3> QED
      BY <1>1, <3>2 DEF Member
  <2>2. Member(e, r)
    BY <1>1, <1>2 DEF Member
  <2>3. ASSUME NEW v, Member(v, r), v # e PROVE Member(v, s)
    <3>1. PICK k \in 1 .. n + 1 : r[k] = v
      BY <1>1, <2>3 DEF Member
    <3>2. k # 1
      BY <1>1, <2>3, <3>1
    <3> QED
      BY <1>3, <3>1, <3>2 DEF Member, n
  <2> QED
    BY <2>1, <2>2, <2>3
<1>5. ASSUME Distinct(s), ~Member(e, s), NEW i \in 1 .. n + 1, NEW j \in 1 .. n + 1, r[i] = r[j] PROVE i = j
  <2>1. CASE i # 1 /\ j # 1
    <3>1. i - 1 = j - 1
      BY <1>3, <1>5, <2>1 DEF Distinct, n
    <3> QED
      BY <1>1, <3>1
  <2>2. CASE i = 1 /\ j # 1
    BY <1>1, <1>3, <1>5, <2>2 DEF Member, n
  <2>3. CASE i # 1 /\ j = 1
    BY <1>1, <1>3, <1>5, <2>3 DEF Member, n
  <2>4. CASE i = 1 /\ j = 1
    BY <2>4
  <2> QED
    BY <2>1, <2>2, <2>3, <2>4
<1>6. Distinct(s) /\ ~Member(e, s) => Distinct(r)
  BY <1>1, <1>5 DEF Distinct
<1> QED
  BY <1>1, <1>4, <1>6 DEF r

LEMMA RangeIs == ASSUME NEW S, NEW s \in Seq(S) PROVE \A v : v \in Cache!Range(s) <=> Member(v, s)
  BY DEF Cache!Range, Member

\* Without the entry at i there are all the others.
LEMMA Removed ==
    ASSUME NEW S, NEW s \in Seq(S), NEW i \in 1 .. Len(s), Distinct(s)
    PROVE  LET r == Cache!RemoveAt(s, i)
           IN  /\ r \in Seq(S) /\ Len(r) = Len(s) - 1 /\ Distinct(r)
               /\ \A v : Member(v, r) <=> Member(v, s) /\ v # s[i]
<1> DEFINE r == Cache!RemoveAt(s, i)
<1>1. r \in Seq(S) /\ Len(r) = Len(s) - 1 /\ \A k \in 1 .. Len(s) - 1 : r[k] = s[IF k < i THEN k ELSE k + 1]
  BY RemoveAtIs
<1>2. /\ \A k \in 1 .. Len(r) : \E j \in 1 .. Len(s) : j # i /\ r[k] = s[j]
      /\ \A j \in 1 .. Len(s) : j # i => \E k \in 1 .. Len(r) : r[k] = s[j]
  BY RemoveAtKeeps
<1> HIDE DEF r
<1>3. \A v : Member(v, r) <=> Member(v, s) /\ v # s[i]
  <2>1. ASSUME NEW v, Member(v, r) PROVE Member(v, s) /\ v # s[i]
    <3>1. PICK k \in 1 .. Len(r) : r[k] = v
      BY <2>1 DEF Member
    <3>2. PICK j \in 1 .. Len(s) : j # i /\ r[k] = s[j]
      BY <1>2, <3>1
    <3> QED
      BY <3>1, <3>2 DEF Member, Distinct
  <2>2. ASSUME NEW v, Member(v, s), v # s[i] PROVE Member(v, r)
    <3>1. PICK j \in 1 .. Len(s) : s[j] = v
      BY <2>2 DEF Member
    <3>2. PICK k \in 1 .. Len(r) : r[k] = s[j]
      BY <1>2, <2>2, <3>1
    <3> QED
      BY <3>1, <3>2 DEF Member
  <2> QED
    BY <2>1, <2>2
<1>4. Distinct(r)
  <2> SUFFICES ASSUME NEW k \in 1 .. Len(r), NEW j \in 1 .. Len(r), r[k] = r[j] PROVE k = j
    BY DEF Distinct
  <2> DEFINE pos(n) == IF n < i THEN n ELSE n + 1
  <2>1. pos(k) \in 1 .. Len(s) /\ pos(j) \in 1 .. Len(s) /\ (pos(k) = pos(j) => k = j)
    BY <1>1
  <2>2. r[k] = s[pos(k)] /\ r[j] = s[pos(j)]
    BY <1>1
  <2> HIDE DEF pos
  <2> QED
    BY <2>1, <2>2 DEF Distinct
<1> QED
  BY <1>1, <1>3, <1>4 DEF r

\* The newest first.
InOrder(s) == \A a \in 1 .. Len(s) : \A b \in 1 .. Len(s) : a < b => s[a].place > s[b].place

LEMMA RemovedInOrder ==
    ASSUME NEW S, NEW s \in Seq(S), NEW i \in 1 .. Len(s), InOrder(s)
    PROVE  InOrder(Cache!RemoveAt(s, i))
<1> DEFINE r == Cache!RemoveAt(s, i)
           pos(k) == IF k < i THEN k ELSE k + 1
<1>1. r \in Seq(S) /\ Len(r) = Len(s) - 1 /\ \A k \in 1 .. Len(s) - 1 : r[k] = s[pos(k)]
  BY RemoveAtIs
<1>2. \A k \in 1 .. Len(s) - 1 : pos(k) \in 1 .. Len(s)
  OBVIOUS
<1>3. \A j, k \in 1 .. Len(s) - 1 : j < k => pos(j) < pos(k)
  OBVIOUS
<1> HIDE DEF r, pos
<1>4. ASSUME NEW j \in 1 .. Len(r), NEW k \in 1 .. Len(r), j < k PROVE r[j].place > r[k].place
  <2>1. j \in 1 .. Len(s) - 1 /\ k \in 1 .. Len(s) - 1
    BY <1>1
  <2>2. r[j] = s[pos(j)] /\ r[k] = s[pos(k)] /\ pos(j) \in 1 .. Len(s) /\ pos(k) \in 1 .. Len(s) /\ pos(j) < pos(k)
    BY <1>1, <1>2, <1>3, <1>4, <2>1
  <2> QED
    BY <2>2 DEF InOrder
<1>5. InOrder(r)
  BY <1>4 DEF InOrder
<1> QED
  BY <1>5 DEF r

\* Two sequences of a length that agree at every place are one.
LEMMA SameSeq ==
    ASSUME NEW S, NEW s \in Seq(S), NEW t \in Seq(S), Len(s) = Len(t), \A k \in 1 .. Len(s) : s[k] = t[k]
    PROVE  s = t
<1>1. s = [k \in 1 .. Len(s) |-> s[k]] /\ t = [k \in 1 .. Len(t) |-> t[k]]
  OBVIOUS
<1> QED
  BY <1>1

\* An entry behind the first is taken out behind the first.
LEMMA RemoveBehind ==
    ASSUME NEW S, NEW e \in S, NEW s \in Seq(S), NEW b \in 1 .. Len(s)
    PROVE  Cache!RemoveAt(<<e>> \o s, b + 1) = <<e>> \o Cache!RemoveAt(s, b)
<1> DEFINE l == <<e>> \o s
           r == Cache!RemoveAt(s, b)
           x == Cache!RemoveAt(l, b + 1)
           y == <<e>> \o r
<1>1. /\ l \in Seq(S) /\ Len(l) = Len(s) + 1 /\ Len(s) \in Nat /\ l[1] = e /\ \A k \in 1 .. Len(s) : l[k + 1] = s[k]
  OBVIOUS
<1>2. r \in Seq(S) /\ Len(r) = Len(s) - 1 /\ \A k \in 1 .. Len(s) - 1 : r[k] = s[IF k < b THEN k ELSE k + 1]
  BY RemoveAtIs
<1> HIDE DEF l, r
<1>3. b + 1 \in 1 .. Len(l)
  BY <1>1
<1>4. x \in Seq(S) /\ Len(x) = Len(l) - 1 /\ \A k \in 1 .. Len(l) - 1 : x[k] = l[IF k < b + 1 THEN k ELSE k + 1]
  BY <1>1, <1>3, RemoveAtIs
<1>5. y \in Seq(S) /\ Len(y) = Len(r) + 1 /\ y[1] = e /\ \A k \in 1 .. Len(r) : y[k + 1] = r[k]
  BY <1>2
<1> HIDE DEF x, y
<1>6. Len(x) = Len(s) /\ Len(y) = Len(s) /\ Len(s) >= 1
  BY <1>1, <1>2, <1>4, <1>5
<1>7. ASSUME NEW k \in 1 .. Len(x) PROVE x[k] = y[k]
  <2>1. CASE k = 1
    <3>1. x[1] = l[1]
      BY <1>1, <1>4, <1>6
    <3> QED
      BY <1>1, <1>5, <2>1, <3>1
  <2>2. CASE k # 1
    <3>1. k - 1 \in 1 .. Len(s) - 1 /\ k - 1 + 1 = k /\ k \in 1 .. Len(s) /\ k \in 1 .. Len(l) - 1
      BY <1>1, <1>6, <2>2
    <3>2. y[k] = s[IF k - 1 < b THEN k - 1 ELSE k]
      <4>1. y[k - 1 + 1] = r[k - 1]
        BY <1>2, <1>5, <3>1
      <4>2. r[k - 1] = s[IF k - 1 < b THEN k - 1 ELSE k - 1 + 1]
        BY <1>2, <3>1
      <4> QED
        BY <3>1, <4>1, <4>2
    <3>3. x[k] = l[IF k < b + 1 THEN k ELSE k + 1]
      BY <1>4, <3>1
    <3>4. CASE k < b + 1
      <4>1. k - 1 < b /\ k - 1 \in 1 .. Len(s)
        BY <3>1, <3>4
      <4>2. l[k - 1 + 1] = s[k - 1]
        BY <1>1, <4>1
      <4> QED
        BY <3>1, <3>2, <3>3, <3>4, <4>1, <4>2
    <3>5. CASE ~(k < b + 1)
      <4>1. ~(k - 1 < b)
        BY <3>1, <3>5
      <4>2. l[k + 1] = s[k]
        BY <1>1, <3>1
      <4> QED
        BY <3>2, <3>3, <3>5, <4>1, <4>2
    <3> QED
      BY <3>4, <3>5
  <2> QED
    BY <2>1, <2>2
<1>8. x = y
  BY <1>4, <1>5, <1>6, <1>7, SameSeq
<1> QED
  BY <1>8 DEF x, y, l, r

\* All but the last entry, which is not the first.
LEMMA FrontIs ==
    ASSUME NEW S, NEW e \in S, NEW s \in Seq(S), Len(s) >= 1
    PROVE  Cache!Front(<<e>> \o s) = <<e>> \o Cache!RemoveAt(s, Len(s))
<1> DEFINE l == <<e>> \o s
           n == Len(s)
           r == Cache!RemoveAt(s, n)
           x == Cache!Front(l)
           y == <<e>> \o r
<1>1. /\ l \in Seq(S) /\ Len(l) = n + 1 /\ n \in Nat /\ n \in 1 .. n /\ l[1] = e /\ \A k \in 1 .. n : l[k + 1] = s[k]
  OBVIOUS
<1>2. r \in Seq(S) /\ Len(r) = n - 1 /\ \A k \in 1 .. n - 1 : r[k] = s[IF k < n THEN k ELSE k + 1]
  BY <1>1, RemoveAtIs
<1> HIDE DEF l, r
<1>3. x = SubSeq(l, 1, Len(l) - 1)
  BY DEF Cache!Front, x
<1>4. x \in Seq(S) /\ Len(x) = n /\ \A k \in 1 .. n : x[k] = l[k]
  BY <1>1, <1>3
<1>5. y \in Seq(S) /\ Len(y) = n /\ y[1] = e /\ \A k \in 1 .. n - 1 : y[k + 1] = r[k]
  BY <1>1, <1>2
<1> HIDE DEF x, y, n
<1>6. ASSUME NEW k \in 1 .. Len(x) PROVE x[k] = y[k]
  <2>1. CASE k = 1
    BY <1>1, <1>4, <1>5, <2>1
  <2>2. CASE k # 1
    <3>1. k - 1 \in 1 .. n - 1 /\ k - 1 + 1 = k /\ k - 1 < n /\ k - 1 \in 1 .. n /\ k \in 1 .. n
      BY <1>1, <1>4, <2>2
    <3>2. l[k - 1 + 1] = s[k - 1] /\ y[k - 1 + 1] = r[k - 1] /\ r[k - 1] = s[k - 1]
      BY <1>1, <1>2, <1>5, <3>1
    <3> QED
      BY <1>4, <3>1, <3>2
  <2> QED
    BY <2>1, <2>2
<1>7. x = y
  BY <1>4, <1>5, <1>6, SameSeq
<1> QED
  BY <1>7 DEF x, y, l, r, n

-----------------------------------------------------------------------------
(* The cache: the pointers at each index are those to the items of the index *)

Index(k) == Cache!Index(k)
Indexes == 0 .. Cache!HashSize - 1
Items == [place : Nat, key : Nat, info : Infos]

\* The items are those stored last, newest first; the oldest are gone when there is no room; and the
\* pointers are those to the items.
Kept ==
    /\ updates \in 0 .. MaxUpdates
    /\ storage \in Seq(Items) /\ Len(storage) < MaxSize /\ Distinct(storage) /\ InOrder(storage)
    /\ hash \in [Indexes -> Seq(Nat)] /\ \A i \in Indexes : Distinct(hash[i])
    /\ \A n : Member(n, storage) => n.place \in 1 .. updates
    /\ \A m, n : Member(m, storage) /\ Member(n, storage) /\ (m.key = n.key \/ m.place = n.place) => m = n
    /\ \A n : Member(n, storage) => \A i \in Indexes : Member(n.place, hash[i]) <=> i = Index(n.key)
    /\ \A i \in Indexes : \A p : Member(p, hash[i]) => \E n : Member(n, storage) /\ n.place = p
    /\ latest \in [Keys -> [place : Nat, key : Keys, info : Infos]]
    /\ \A k \in Keys : latest[k].key = k /\ latest[k].place \in 0 .. updates
    /\ \A n : Member(n, storage) => n.key \in Keys /\ latest[n.key] = n
    /\ \A k \in Keys : latest[k].place > 0 /\ ~Member(latest[k], storage) =>
          Len(storage) = MaxSize - 1 /\ \A n : Member(n, storage) => n.place > latest[k].place

\* Once an item was dropped for one of another index nothing is left to keep.
CacheInv == ~astray => Kept

LEMMA IndexIs == \A k \in Nat : Index(k) \in Indexes
  BY CacheAssumption DEF Index, Indexes, Cache!Index, Cache!HashSize

LEMMA CacheBegins == Cache!CacheInit => CacheInv
<1> SUFFICES ASSUME Cache!CacheInit PROVE Kept
  BY DEF CacheInv
<1>1. storage = <<>> /\ Len(storage) = 0 /\ updates = 0 /\ hash = [i \in Indexes |-> <<>>]
  BY DEF Cache!CacheInit, Indexes
<1>2. ~(\E n : Member(n, storage)) /\ \A i \in Indexes : ~(\E p : Member(p, hash[i]))
  BY <1>1 DEF Member
<1>3. Distinct(storage) /\ InOrder(storage) /\ \A i \in Indexes : Distinct(hash[i])
  BY <1>1 DEF Distinct, InOrder
<1>4. /\ latest \in [Keys -> [place : Nat, key : Keys, info : Infos]]
      /\ \A k \in Keys : latest[k].key = k /\ latest[k].place = 0
  <2>1. (CHOOSE info \in Infos : TRUE) \in Infos
    BY CacheAssumption
  <2> QED
    BY <2>1 DEF Cache!CacheInit
<1>5. storage \in Seq(Items) /\ Len(storage) < MaxSize /\ updates \in 0 .. MaxUpdates
  BY <1>1, CacheAssumption
<1>6. hash \in [Indexes -> Seq(Nat)]
  BY <1>1
<1> QED
  BY <1>2, <1>3, <1>4, <1>5, <1>6 DEF Kept

\* What the operators of the cache are, when every pointer leads to an item.
LEMMA CacheFacts ==
    ASSUME Kept
    PROVE  /\ \A n : n \in Cache!Range(storage) <=> Member(n, storage)
           /\ \A i \in Indexes : \A p : p \in Cache!Range(hash[i]) <=> Member(p, hash[i])
           /\ \A p : Cache!At(p) = {n \in Cache!Range(storage) : n.place = p}
           /\ \A i \in Indexes : Cache!Dangling(i) = {}
<1>1. \A n : n \in Cache!Range(storage) <=> Member(n, storage)
  BY RangeIs DEF Kept
<1>2. ASSUME NEW i \in Indexes PROVE \A p : p \in Cache!Range(hash[i]) <=> Member(p, hash[i])
  <2>1. hash[i] \in Seq(Nat)
    BY DEF Kept
  <2> QED
    BY <2>1, RangeIs
<1>3. \A p : Cache!At(p) = {n \in Cache!Range(storage) : n.place = p}
  BY DEF Cache!At
<1>4. ASSUME NEW i \in Indexes PROVE Cache!Dangling(i) = {}
  BY <1>1, <1>2, <1>3 DEF Cache!Dangling, Kept
<1> QED
  BY <1>1, <1>2, <1>3, <1>4

LEMMA LeastOf ==
    ASSUME NEW B, B \subseteq Nat, B # {}
    PROVE  \E least \in B : \A c \in B : least <= c
<1>1. PICK least \in B : \A c \in B : ~(<<c, least>> \in OpToRel(<, Nat))
  BY WFMin, NatLessThanWellFounded
<1>2. \A c \in B : c \in Nat /\ least \in Nat
  OBVIOUS
<1>3. \A c \in B : ~(c < least)
  BY <1>1, <1>2 DEF OpToRel
<1> QED
  BY <1>2, <1>3

\* What a lookup finds: what was stored last, and nothing for what is not there.
LEMMA CacheLimits == CacheInv => Cache!LookupFindsLatest
<1> SUFFICES ASSUME Kept PROVE Cache!LookupFindsLatest
  BY DEF CacheInv, Cache!LookupFindsLatest
<1>1. DOMAIN hash = Indexes /\ \A i \in DOMAIN hash : Cache!Dangling(i) = {}
  BY CacheFacts DEF Kept
<1>2. ASSUME NEW k \in Keys, k >= 0
      PROVE  IF Member(latest[k], storage) THEN Cache!Found(k, {}) = {latest[k].info} ELSE Cache!Found(k, {}) = {}
  <2> DEFINE i == Index(k)
             hits == Cache!Hits(k, {})
  <2>1. k \in Nat /\ i \in Indexes /\ hash[i] \in Seq(Nat)
    BY <1>2, IndexIs, CacheAssumption DEF Kept
  <2>2. \A b : b \in hits <=> b \in DOMAIN hash[i] /\ \E n : Member(n, storage) /\ n.place = hash[i][b] /\ n.key = k
    BY <2>1, CacheFacts DEF Cache!Hits, Cache!Matches, Index
  <2>3. Cache!Found(k, {}) = IF hits = {} THEN {} ELSE {n.info : n \in Cache!At(hash[i][Cache!First(hits)])}
    BY <1>2, <2>1, CacheAssumption DEF Cache!Found, Index
  <2>4. \A n : Member(n, storage) /\ n.key = k => n = latest[k]
    BY DEF Kept
  <2> HIDE DEF i, hits
  <2>5. CASE hits = {}
    <3>1. ~Member(latest[k], storage)
      <4> SUFFICES ASSUME Member(latest[k], storage) PROVE FALSE
        OBVIOUS
      <4>1. latest[k].key = k /\ Member(latest[k].place, hash[i])
        BY <2>1 DEF Kept, i
      <4>2. PICK b \in 1 .. Len(hash[i]) : hash[i][b] = latest[k].place
        BY <4>1 DEF Member
      <4>3. b \in DOMAIN hash[i]
        BY <2>1, <4>2
      <4> QED
        BY <2>2, <2>5, <4>1, <4>2, <4>3
    <3> QED
      BY <2>3, <2>5, <3>1
  <2>6. CASE hits # {}
    <3> DEFINE b == Cache!First(hits)
    <3>1. b \in hits
      <4>1. hits \subseteq Nat
        BY <2>1, <2>2
      <4>2. PICK least \in hits : \A c \in hits : least <= c
        BY <2>6, <4>1, LeastOf
      <4> QED
        BY <4>2 DEF Cache!First
    <3> HIDE DEF b
    <3>2. PICK n : Member(n, storage) /\ n.place = hash[i][b] /\ n.key = k
      BY <2>2, <3>1
    <3>3. \A m : Member(m, storage) /\ m.place = hash[i][b] => m = n
      BY <3>2 DEF Kept
    <3>4. Cache!At(hash[i][b]) = {n}
      BY <3>2, <3>3, CacheFacts
    <3>5. n = latest[k]
      BY <2>4, <3>2
    <3>6. Cache!Found(k, {}) = {m.info : m \in {n}}
      BY <2>3, <2>6, <3>4 DEF b
    <3> QED
      BY <3>2, <3>5, <3>6
  <2> QED
    BY <2>5, <2>6
<1>3. ASSUME NEW k \in Keys PROVE Cache!Found(k, {}) \subseteq {latest[k].info}
  <2>1. CASE k >= 0
    BY <1>2, <2>1
  <2>2. CASE ~(k >= 0)
    BY <2>2, CacheAssumption DEF Cache!Found
  <2> QED
    BY <2>1, <2>2
<1>4. ASSUME NEW k \in Keys, k >= 0, latest[k].place > 0, Cache!Found(k, {}) = {}
      PROVE  Len(storage) = MaxSize - 1 /\ \A n \in Cache!Range(storage) : n.place > latest[k].place
  <2>1. ~Member(latest[k], storage)
    BY <1>2, <1>4
  <2> QED
    BY <1>4, <2>1, CacheFacts DEF Kept
<1> QED
  BY <1>1, <1>3, <1>4 DEF Cache!LookupFindsLatest

\* A new item at the front of its index and of the list, for which those of G have gone: the one it
\* renews, or the oldest of its index when there is no room.
LEMMA CacheAdds ==
    ASSUME Kept, NEW item \in Items, item.place = updates', updates' = updates + 1,
           updates' \in 0 .. MaxUpdates, item.key \in Keys, latest' = [latest EXCEPT ![item.key] = item],
           NEW G, \A n \in G : Index(n.key) = Index(item.key),
           \A n : Member(n, storage) /\ n.key = item.key => n \in G,
           NEW list, storage' = <<item>> \o list, list \in Seq(Items),
           Distinct(list), InOrder(list), Len(list) + 1 < MaxSize, Len(storage) <= Len(list) + 1,
           \A n : Member(n, list) <=> Member(n, storage) /\ n \notin G,
           \A n \in G : n.key = item.key \/ (Len(list) + 1 = MaxSize - 1 /\ \A m : Member(m, list) => m.place > n.place),
           NEW chain, hash' = [hash EXCEPT ![Index(item.key)] = <<item.place>> \o chain], chain \in Seq(Nat),
           Distinct(chain),
           \A p : Member(p, chain) <=> Member(p, hash[Index(item.key)]) /\ \A n : Member(n, storage) /\ n.place = p => n \notin G
    PROVE  Kept'
<1> DEFINE i == Index(item.key)
<1>1. i \in Indexes
  BY IndexIs DEF Items
<1>2. /\ updates \in Nat /\ hash \in [Indexes -> Seq(Nat)] /\ \A j \in Indexes : Distinct(hash[j])
      /\ \A n : Member(n, storage) => n.place \in 1 .. updates
      /\ \A m, n : Member(m, storage) /\ Member(n, storage) /\ (m.key = n.key \/ m.place = n.place) => m = n
      /\ \A n : Member(n, storage) => \A j \in Indexes : Member(n.place, hash[j]) <=> j = Index(n.key)
      /\ \A j \in Indexes : \A p : Member(p, hash[j]) => \E n : Member(n, storage) /\ n.place = p
  BY CacheAssumption DEF Kept
<1> HIDE DEF i
<1>3. ~Member(item, list) /\ ~Member(item.place, chain) /\ ~Member(item.place, hash[i])
  <2>1. ASSUME NEW n, Member(n, storage) PROVE n.place # updates'
    <3>1. n.place \in 1 .. updates
      BY <1>2, <2>1
    <3> QED
      BY <1>2, <3>1
  <2>2. ASSUME NEW p, Member(p, hash[i]) PROVE p # updates'
    <3>1. PICK n : Member(n, storage) /\ n.place = p
      BY <1>1, <1>2, <2>2
    <3> QED
      BY <2>1, <3>1
  <2> QED
    BY <2>1, <2>2 DEF i
<1>4. /\ storage' \in Seq(Items) /\ Distinct(storage')
      /\ \A n : Member(n, storage') <=> Member(n, list) \/ n = item
  <2> DEFINE t == <<item>> \o list
  <2>1. /\ t \in Seq(Items) /\ Distinct(t)
        /\ \A n : Member(n, t) <=> Member(n, list) \/ n = item
    <3>1. list \in Seq(Items) /\ item \in Items
      OBVIOUS
    <3>2. /\ t \in Seq(Items) /\ (Distinct(list) /\ ~Member(item, list) => Distinct(t))
          /\ \A n : Member(n, t) <=> Member(n, list) \/ n = item
      BY <3>1, PrependKeeps
    <3> QED
      BY <1>3, <3>2
  <2> HIDE DEF t
  <2>2. storage' = t
    BY DEF t
  <2> QED
    BY <2>1, <2>2
<1>5. hash' = [hash EXCEPT ![i] = <<item.place>> \o chain]
  BY DEF i
<1>6. hash'[i] = <<item.place>> \o chain /\ \A j \in Indexes : j # i => hash'[j] = hash[j]
  BY <1>1, <1>2, <1>5
<1>7. /\ hash'[i] \in Seq(Nat) /\ Distinct(hash'[i])
      /\ \A p : Member(p, hash'[i]) <=> Member(p, chain) \/ p = item.place
  <2> DEFINE t == <<item.place>> \o chain
  <2>1. t \in Seq(Nat) /\ Distinct(t) /\ \A p : Member(p, t) <=> Member(p, chain) \/ p = item.place
    <3>1. item.place \in Nat
      OBVIOUS
    <3> QED
      BY <1>3, <3>1, PrependKeeps
  <2> HIDE DEF t
  <2>2. hash'[i] = t
    BY <1>6 DEF t
  <2> QED
    BY <2>1, <2>2
<1>8. hash' \in [Indexes -> Seq(Nat)] /\ \A j \in Indexes : Distinct(hash'[j])
  <2>1. ASSUME NEW j \in Indexes PROVE hash'[j] \in Seq(Nat) /\ Distinct(hash'[j])
    BY <1>2, <1>6, <1>7
  <2>2. DOMAIN hash' = Indexes /\ hash' = [j \in Indexes |-> hash'[j]]
    BY <1>2, <1>5
  <2> QED
    BY <2>1, <2>2
<1>9. updates' \in 0 .. MaxUpdates /\ Len(storage') < MaxSize /\ Len(storage') = Len(list) + 1 /\ InOrder(storage')
  <2> DEFINE t == <<item>> \o list
  <2>1. Len(t) = Len(list) + 1 /\ Len(list) \in Nat /\ t[1] = item /\ \A k \in 1 .. Len(list) : t[k + 1] = list[k]
    OBVIOUS
  <2>2. storage' = t
    OBVIOUS
  <2> HIDE DEF t
  <2>3. ASSUME NEW x \in 1 .. Len(t), x # 1 PROVE x - 1 \in 1 .. Len(list) /\ t[x] = list[x - 1]
    <3>1. x - 1 \in 1 .. Len(list) /\ x - 1 + 1 = x
      BY <2>1, <2>3
    <3> QED
      BY <2>1, <3>1
  <2>4. ASSUME NEW x \in 1 .. Len(t), NEW y \in 1 .. Len(t), x < y PROVE t[x].place > t[y].place
    <3>1. y - 1 \in 1 .. Len(list) /\ t[y] = list[y - 1]
      BY <2>1, <2>3, <2>4
    <3>2. CASE x = 1
      <4>1. Member(t[y], list)
        BY <3>1 DEF Member
      <4>2. t[y].place \in 1 .. updates
        BY <1>2, <4>1
      <4> QED
        BY <1>2, <2>1, <3>2, <4>2
    <3>3. CASE x # 1
      <4>1. x - 1 \in 1 .. Len(list) /\ t[x] = list[x - 1] /\ x - 1 < y - 1
        BY <2>1, <2>3, <2>4, <3>3
      <4> QED
        BY <3>1, <4>1 DEF InOrder
    <3> QED
      BY <3>2, <3>3
  <2> QED
    BY <2>1, <2>2, <2>4 DEF InOrder
<1>10. ASSUME NEW n, Member(n, storage') PROVE n.place \in 1 .. updates'
  <2>1. CASE n = item
    BY <1>2, <2>1
  <2>2. CASE Member(n, storage)
    <3>1. n.place \in 1 .. updates
      BY <1>2, <2>2
    <3> QED
      BY <1>2, <3>1
  <2> QED
    BY <1>4, <1>10, <2>1, <2>2
<1>11. ASSUME NEW m, NEW n, Member(m, storage'), Member(n, storage'), m.key = n.key \/ m.place = n.place PROVE m = n
  <2>1. ASSUME NEW o, Member(o, storage') PROVE o = item \/ (Member(o, storage) /\ o \notin G /\ o.key # item.key /\ o.place # item.place)
    <3>1. CASE Member(o, list)
      <4>1. o.place \in 1 .. updates
        BY <1>2, <3>1
      <4> QED
        BY <1>2, <3>1, <4>1
    <3> QED
      BY <1>4, <2>1, <3>1
  <2> QED
    BY <1>2, <1>11, <2>1
<1>12. ASSUME NEW n, Member(n, storage'), NEW j \in Indexes PROVE Member(n.place, hash'[j]) <=> j = Index(n.key)
  <2>1. CASE n = item
    <3>1. CASE j = i
      BY <1>7, <2>1, <3>1 DEF i
    <3>2. CASE j # i
      <4>1. ~Member(item.place, hash[j])
        <5> SUFFICES ASSUME Member(item.place, hash[j]) PROVE FALSE
          OBVIOUS
        <5>1. PICK o : Member(o, storage) /\ o.place = item.place
          BY <1>2
        <5>2. o.place \in 1 .. updates
          BY <1>2, <5>1
        <5> QED
          BY <1>2, <5>1, <5>2
      <4> QED
        BY <1>6, <2>1, <3>2, <4>1 DEF i
    <3> QED
      BY <3>1, <3>2
  <2>2. CASE Member(n, storage) /\ n \notin G
    <3>1. n.place \in 1 .. updates /\ n.place # item.place
      <4>1. n.place \in 1 .. updates
        BY <1>2, <2>2
      <4> QED
        BY <1>2, <4>1
    <3>2. CASE j # i
      BY <1>2, <1>6, <2>2, <3>2
    <3>3. CASE j = i
      <4>1. ASSUME NEW o, Member(o, storage), o.place = n.place PROVE o \notin G
        BY <1>2, <2>2, <4>1
      <4>2. Member(n.place, chain) <=> Member(n.place, hash[i])
        BY <4>1 DEF i
      <4>3. Member(n.place, hash'[i]) <=> Member(n.place, chain)
        BY <1>7, <3>1
      <4> QED
        BY <1>1, <1>2, <2>2, <3>3, <4>2, <4>3
    <3> QED
      BY <3>2, <3>3
  <2> QED
    BY <1>4, <1>12, <2>1, <2>2
<1>13. ASSUME NEW j \in Indexes, NEW p, Member(p, hash'[j]) PROVE \E n : Member(n, storage') /\ n.place = p
  <2>1. CASE p = item.place
    BY <1>4, <2>1
  <2>2. CASE j = i /\ Member(p, chain)
    <3>1. Member(p, hash[i]) /\ \A n : Member(n, storage) /\ n.place = p => n \notin G
      BY <2>2 DEF i
    <3>2. PICK n : Member(n, storage) /\ n.place = p
      BY <1>1, <1>2, <3>1
    <3> QED
      BY <1>4, <3>1, <3>2
  <2>3. CASE j # i /\ p # item.place
    <3>1. Member(p, hash[j])
      BY <1>6, <1>13, <2>3
    <3>2. PICK n : Member(n, storage) /\ n.place = p
      BY <1>2, <3>1
    <3>3. n \notin G
      BY <1>2, <2>3, <3>1, <3>2 DEF i
    <3> QED
      BY <1>4, <3>2, <3>3
  <2> QED
    BY <1>7, <1>13, <2>1, <2>2, <2>3
<1>14. /\ latest' \in [Keys -> [place : Nat, key : Keys, info : Infos]] /\ \A k \in Keys : latest'[k].key = k /\ latest'[k].place \in 0 .. updates'
       /\ latest'[item.key] = item /\ \A k \in Keys : k # item.key => latest'[k] = latest[k]
  <2>1. item \in [place : Nat, key : Keys, info : Infos]
    BY DEF Items
  <2>2. /\ latest \in [Keys -> [place : Nat, key : Keys, info : Infos]] /\ updates \in Nat
        /\ \A k \in Keys : latest[k].key = k /\ latest[k].place \in 0 .. updates
    BY <1>2 DEF Kept
  <2>3. item.place \in 0 .. updates' /\ \A x \in 0 .. updates : x \in 0 .. updates'
    BY <2>2
  <2> QED
    BY <2>1, <2>2, <2>3
<1>15. ASSUME NEW n, Member(n, storage') PROVE n.key \in Keys /\ latest'[n.key] = n
  <2>1. CASE n = item
    BY <1>14, <2>1
  <2>2. CASE Member(n, storage) /\ n \notin G
    <3>1. n.key \in Keys /\ latest[n.key] = n /\ n.key # item.key
      BY <2>2 DEF Kept
    <3> QED
      BY <1>14, <3>1
  <2> QED
    BY <1>4, <1>15, <2>1, <2>2
<1>16. ASSUME NEW k \in Keys, latest'[k].place > 0, ~Member(latest'[k], storage')
       PROVE  Len(storage') = MaxSize - 1 /\ \A n : Member(n, storage') => n.place > latest'[k].place
  <2>1. k # item.key /\ latest'[k] = latest[k] /\ latest[k].key = k
    BY <1>4, <1>14, <1>16
  <2>2. ~Member(latest[k], list)
    BY <1>4, <1>16, <2>1
  <2>3. latest[k].place \in 0 .. updates /\ latest[k].place < item.place
    <3> SUFFICES latest[k].place \in 0 .. updates
      BY <1>2
    <3> QED
      BY DEF Kept
  <2>4. CASE Member(latest[k], storage)
    <3>1. latest[k] \in G
      BY <2>2, <2>4
    <3>2. Len(list) + 1 = MaxSize - 1 /\ \A m : Member(m, list) => m.place > latest[k].place
      BY <2>1, <3>1
    <3> QED
      BY <1>2, <1>4, <1>9, <2>1, <2>3, <3>2
  <2>5. CASE ~Member(latest[k], storage)
    <3>1. Len(storage) = MaxSize - 1 /\ \A n : Member(n, storage) => n.place > latest[k].place
      BY <1>16, <2>1, <2>5 DEF Kept
    <3>2. Len(storage') = MaxSize - 1
      <4>1. Len(list) \in Nat
        OBVIOUS
      <4> QED
        BY <1>9, <3>1, <4>1, CacheAssumption
    <3> QED
      BY <1>2, <1>4, <2>1, <2>3, <3>1, <3>2
  <2> QED
    BY <2>4, <2>5
<1> QED
  BY <1>4, <1>8, <1>9, <1>10, <1>11, <1>12, <1>13, <1>14, <1>15, <1>16 DEF Kept

\* A pointer leads to one item only.
LEMMA HashLeads ==
    ASSUME Kept, NEW i \in Indexes, NEW p, Member(p, hash[i])
    PROVE  \E n : Member(n, storage) /\ n.place = p /\ \A m : Member(m, storage) /\ m.place = p => m = n
  BY DEF Kept

\* An update of an address that is not kept.
LEMMA UpdateOfNone == ASSUME Kept, NEW k \in Keys, NEW info \in Infos, Cache!update(k, info), k < 0 PROVE Kept'
<1>1. UNCHANGED <<storage, hash, latest, astray>> /\ updates' = updates + 1 /\ updates < MaxUpdates
  BY DEF Cache!update
<1>2. updates \in 0 .. MaxUpdates /\ updates \in Nat
  BY CacheAssumption DEF Kept
<1>3. updates' \in 0 .. MaxUpdates /\ (\A x \in 0 .. updates : x \in 0 .. updates') /\ (\A x \in 1 .. updates : x \in 1 .. updates')
  BY <1>1, <1>2, CacheAssumption
<1>4. /\ \A n : Member(n, storage) => n.place \in 1 .. updates
      /\ \A j \in Keys : latest[j].key = j /\ latest[j].place \in 0 .. updates
  BY DEF Kept
<1>5. /\ \A n : Member(n, storage') => n.place \in 1 .. updates'
      /\ \A j \in Keys : latest'[j].key = j /\ latest'[j].place \in 0 .. updates'
  BY <1>1, <1>3, <1>4
<1>6. Len(storage') < MaxSize /\ InOrder(storage') /\ Distinct(storage') /\ storage' \in Seq(Items)
  BY <1>1 DEF Kept
<1> QED
  BY <1>1, <1>3, <1>5, <1>6 DEF Kept

\* Where an update of an address finds its item, and what it does then.
UpdateDoes(k, item, i, hits) ==
    /\ k \in Nat /\ updates \in Nat /\ updates < MaxUpdates /\ updates' = updates + 1
    /\ updates' \in 0 .. MaxUpdates /\ Len(storage) \in Nat
    /\ i = Index(k) /\ i \in Indexes /\ item \in Items /\ item.place = updates' /\ item.key = k
    /\ latest' = [latest EXCEPT ![k] = item]
    /\ IF hits # {}
       THEN /\ storage' = Cache!Renewed(hash[i][Cache!First(hits)], item)
            /\ hash' = [hash EXCEPT ![i] = Cache!Repointed(i, Cache!First(hits), item.place)]
       ELSE IF Len(<<item>> \o storage) >= MaxSize
       THEN /\ storage' = Cache!Front(<<item>> \o storage)
            /\ hash' = Cache!DropOldest([hash EXCEPT ![i] = <<item.place>> \o @], i, <<item>> \o storage, {})
            /\ astray' = (astray \/ Index(Cache!Last(<<item>> \o storage).key) # i)
       ELSE storage' = <<item>> \o storage /\ hash' = [hash EXCEPT ![i] = <<item.place>> \o @]
    /\ \A b : b \in hits <=> b \in DOMAIN hash[i] /\ \E n : Member(n, storage) /\ n.place = hash[i][b] /\ n.key = k

LEMMA UpdateIs ==
    ASSUME Kept, NEW k \in Keys, NEW info \in Infos, Cache!update(k, info), ~(k < 0)
    PROVE  UpdateDoes(k, [place |-> updates', key |-> k, info |-> info], Index(k), Cache!Hits(k, {}))
<1> DEFINE i == Index(k)
           hits == Cache!Hits(k, {})
           item == [place |-> updates', key |-> k, info |-> info]
<1>1. /\ k \in Nat /\ updates \in Nat /\ updates < MaxUpdates /\ updates' = updates + 1
      /\ updates' \in 0 .. MaxUpdates
  BY CacheAssumption DEF Cache!update, Kept
<1>2. Len(storage) \in Nat
  BY DEF Kept
<1>3. i \in Indexes /\ item \in Items
  BY <1>1, IndexIs DEF Items
<1>4. \A b : b \in hits <=> b \in DOMAIN hash[i] /\ \E n : Member(n, storage) /\ n.place = hash[i][b] /\ n.key = k
  BY <1>1, <1>3, CacheFacts DEF Cache!Hits, Cache!Matches, Index
<1>5. SUBSET UNION {Cache!Dangling(j) : j \in DOMAIN hash} = {{}}
  <2>1. DOMAIN hash = Indexes
    BY DEF Kept
  <2>2. \A j \in DOMAIN hash : Cache!Dangling(j) = {}
    BY <2>1, CacheFacts
  <2> QED
    BY <2>2
<1>6. /\ latest' = [latest EXCEPT ![k] = item]
      /\ IF hits # {}
         THEN /\ storage' = Cache!Renewed(hash[i][Cache!First(hits)], item)
              /\ hash' = [hash EXCEPT ![i] = Cache!Repointed(i, Cache!First(hits), item.place)]
         ELSE IF Len(<<item>> \o storage) >= MaxSize
         THEN /\ storage' = Cache!Front(<<item>> \o storage)
              /\ hash' = Cache!DropOldest([hash EXCEPT ![i] = <<item.place>> \o @], i, <<item>> \o storage, {})
              /\ astray' = (astray \/ Index(Cache!Last(<<item>> \o storage).key) # i)
         ELSE storage' = <<item>> \o storage /\ hash' = [hash EXCEPT ![i] = <<item.place>> \o @]
  BY <1>5 DEF Cache!update, Index
<1>7. item.place = updates' /\ item.key = k
  OBVIOUS
<1> HIDE DEF i, hits, item
<1>8. i = Index(k)
  BY DEF i
<1> QED
  BY <1>1, <1>2, <1>3, <1>4, <1>6, <1>7, <1>8 DEF UpdateDoes, i, hits, item

\* The item of the address gives way to the new one.
LEMMA RenewKeeps ==
    ASSUME Kept, NEW k \in Keys, NEW item, NEW i, NEW hits, UpdateDoes(k, item, i, hits), hits # {}
    PROVE  Kept'
<1>1. /\ k \in Nat /\ updates \in Nat /\ updates' = updates + 1 /\ updates' \in 0 .. MaxUpdates /\ Len(storage) \in Nat
      /\ i = Index(k) /\ i \in Indexes /\ item \in Items /\ item.place = updates' /\ item.key = k
      /\ latest' = [latest EXCEPT ![k] = item]
      /\ storage' = Cache!Renewed(hash[i][Cache!First(hits)], item)
      /\ hash' = [hash EXCEPT ![i] = Cache!Repointed(i, Cache!First(hits), item.place)]
      /\ \A b : b \in hits <=> b \in DOMAIN hash[i] /\ \E n : Member(n, storage) /\ n.place = hash[i][b] /\ n.key = k
  BY DEF UpdateDoes
<1>2. /\ storage \in Seq(Items) /\ Distinct(storage) /\ hash[i] \in Seq(Nat) /\ Distinct(hash[i])
      /\ hash \in [Indexes -> Seq(Nat)] /\ InOrder(storage) /\ Len(storage) < MaxSize
  BY <1>1 DEF Kept
<1>3. \A m, n : Member(m, storage) /\ Member(n, storage) /\ (m.key = n.key \/ m.place = n.place) => m = n
  BY DEF Kept
<1> DEFINE b == Cache!First(hits)
<1>4. b \in hits
  <2>1. hits \subseteq Nat
    BY <1>1, <1>2
  <2>2. PICK least \in hits : \A c \in hits : least <= c
    BY <2>1, LeastOf
  <2> QED
    BY <2>2 DEF Cache!First
<1> HIDE DEF b
<1>5. PICK n : Member(n, storage) /\ n.place = hash[i][b] /\ n.key = k
  BY <1>1, <1>4
<1>6. PICK a \in 1 .. Len(storage) : storage[a] = n
  BY <1>5 DEF Member
<1>7. b \in 1 .. Len(hash[i])
  BY <1>1, <1>2, <1>4
<1>8. storage' = <<item>> \o Cache!RemoveAt(storage, a)
  <2>1. \A c \in 1 .. Len(storage) : storage[c].place = n.place <=> c = a
    BY <1>2, <1>3, <1>6 DEF Distinct, Member
  <2>2. {m \in DOMAIN storage : storage[m].place = hash[i][b]} = {a}
    <3>1. DOMAIN storage = 1 .. Len(storage)
      BY <1>2
    <3>2. hash[i][b] = n.place
      BY <1>5
    <3> QED
      BY <1>6, <2>1, <3>1, <3>2
  <2> QED
    BY <1>1, <2>2 DEF Cache!Renewed, b
<1>9. hash' = [hash EXCEPT ![i] = <<item.place>> \o Cache!RemoveAt(hash[i], b)]
  BY <1>1 DEF Cache!Repointed, b
<1> DEFINE list == Cache!RemoveAt(storage, a)
           chain == Cache!RemoveAt(hash[i], b)
<1>10. list \in Seq(Items) /\ Len(list) = Len(storage) - 1 /\ Distinct(list) /\ \A v : Member(v, list) <=> Member(v, storage) /\ v # storage[a]
  BY <1>2, Removed
<1>11. chain \in Seq(Nat) /\ Distinct(chain) /\ \A v : Member(v, chain) <=> Member(v, hash[i]) /\ v # hash[i][b]
  BY <1>2, <1>7, Removed
<1>12. InOrder(list)
  BY <1>2, RemovedInOrder
<1> HIDE DEF list, chain
<1> DEFINE G == {n}
<1>13. /\ \A m \in G : Index(m.key) = Index(item.key) /\ m.key = item.key
       /\ \A m : Member(m, storage) /\ m.key = item.key => m \in G
       /\ \A m : Member(m, list) <=> Member(m, storage) /\ m \notin G
  BY <1>1, <1>3, <1>5, <1>6, <1>10
<1>14. \A p : Member(p, chain) <=> Member(p, hash[i]) /\ \A m : Member(m, storage) /\ m.place = p => m \notin G
  BY <1>1, <1>5, <1>11, HashLeads
<1> HIDE DEF G
<1>15. Len(list) + 1 < MaxSize /\ Len(storage) <= Len(list) + 1
  BY <1>1, <1>2, <1>10
<1>16. storage' = <<item>> \o list /\ hash' = [hash EXCEPT ![Index(item.key)] = <<item.place>> \o chain]
  BY <1>1, <1>8, <1>9 DEF list, chain
<1>17. list \in Seq(Items) /\ Distinct(list) /\ InOrder(list) /\ chain \in Seq(Nat) /\ Distinct(chain)
  BY <1>10, <1>11, <1>12
<1>18. /\ item.key \in Keys /\ latest' = [latest EXCEPT ![item.key] = item]
       /\ \A p : Member(p, chain) <=> Member(p, hash[Index(item.key)]) /\ \A m : Member(m, storage) /\ m.place = p => m \notin G
  BY <1>1, <1>14
<1> QED
  BY <1>1, <1>13, <1>15, <1>16, <1>17, <1>18, CacheAdds

\* No item is found: none has the key.
LEMMA NoneThere ==
    ASSUME Kept, NEW k \in Keys, NEW item, NEW i, NEW hits, UpdateDoes(k, item, i, hits), hits = {}
    PROVE  \A n : Member(n, storage) => n.key # k
<1> SUFFICES ASSUME NEW n, Member(n, storage), n.key = k PROVE FALSE
  OBVIOUS
<1>1. i \in Indexes /\ i = Index(k) /\ \A b : b \in hits <=> b \in DOMAIN hash[i] /\ \E m : Member(m, storage) /\ m.place = hash[i][b] /\ m.key = k
  BY DEF UpdateDoes
<1>2. hash[i] \in Seq(Nat) /\ Member(n.place, hash[i])
  BY <1>1 DEF Kept
<1>3. PICK b \in 1 .. Len(hash[i]) : hash[i][b] = n.place
  BY <1>2 DEF Member
<1>4. b \in DOMAIN hash[i]
  BY <1>2, <1>3
<1> QED
  BY <1>1, <1>3, <1>4

\* There is room for a new item.
LEMMA InsertKeeps ==
    ASSUME Kept, NEW k \in Keys, NEW item, NEW i, NEW hits, UpdateDoes(k, item, i, hits), hits = {},
           ~(Len(<<item>> \o storage) >= MaxSize)
    PROVE  Kept'
<1>1. /\ k \in Nat /\ updates \in Nat /\ updates' = updates + 1 /\ updates' \in 0 .. MaxUpdates /\ Len(storage) \in Nat
      /\ i = Index(k) /\ i \in Indexes /\ item \in Items /\ item.place = updates' /\ item.key = k
      /\ latest' = [latest EXCEPT ![k] = item]
      /\ storage' = <<item>> \o storage /\ hash' = [hash EXCEPT ![i] = <<item.place>> \o hash[i]]
  BY DEF UpdateDoes
<1>2. /\ storage \in Seq(Items) /\ Distinct(storage) /\ hash[i] \in Seq(Nat) /\ Distinct(hash[i]) /\ InOrder(storage)
  BY <1>1 DEF Kept
<1>3. Len(storage) + 1 < MaxSize /\ Len(storage) <= Len(storage) + 1
  <2>1. Len(<<item>> \o storage) = Len(storage) + 1
    BY <1>1, <1>2
  <2> QED
    BY <1>1, <2>1, CacheAssumption
<1> DEFINE G == {}
<1>4. /\ \A n \in G : Index(n.key) = Index(item.key) /\ n.key = item.key
      /\ \A n : Member(n, storage) /\ n.key = item.key => n \in G
      /\ \A n : Member(n, storage) <=> Member(n, storage) /\ n \notin G
      /\ \A p : Member(p, hash[i]) <=> Member(p, hash[i]) /\ \A n : Member(n, storage) /\ n.place = p => n \notin G
  BY <1>1, NoneThere
<1> HIDE DEF G
<1> QED
  BY <1>1, <1>2, <1>3, <1>4, CacheAdds

\* The one pointer of its chain that leads to the oldest item, behind that to the new one.
LEMMA MatchIs ==
    ASSUME Kept, NEW item \in Items, NEW i \in Indexes, NEW old, Member(old, storage), old.key # item.key,
           NEW b \in 1 .. Len(hash[i]), hash[i][b] = old.place, item.place \notin 1 .. updates
    PROVE  Cache!Matches(<<item.place>> \o hash[i], <<item>> \o storage, old.key, {}) = {b + 1}
<1> DEFINE longer == <<item>> \o storage
           long == <<item.place>> \o hash[i]
<1>1. /\ storage \in Seq(Items) /\ hash[i] \in Seq(Nat) /\ Distinct(hash[i])
      /\ \A v : Member(v, storage) => v.place \in 1 .. updates
      /\ \A m, n : Member(m, storage) /\ Member(n, storage) /\ (m.key = n.key \/ m.place = n.place) => m = n
  BY DEF Kept
<1>2. longer \in Seq(Items) /\ \A v : Member(v, longer) <=> Member(v, storage) \/ v = item
  BY <1>1, PrependKeeps
<1>3. long \in Seq(Nat) /\ Len(long) = Len(hash[i]) + 1 /\ Len(hash[i]) \in Nat /\ long[1] = item.place /\ \A x \in 1 .. Len(hash[i]) : long[x + 1] = hash[i][x]
  <2>1. item.place \in Nat /\ hash[i] \in Seq(Nat)
    BY <1>1 DEF Items
  <2>2. <<item.place>> \o hash[i] \in Seq(Nat) /\ Len(<<item.place>> \o hash[i]) = Len(hash[i]) + 1 /\ Len(hash[i]) \in Nat
    BY <2>1
  <2>3. (<<item.place>> \o hash[i])[1] = item.place /\ \A x \in 1 .. Len(hash[i]) : (<<item.place>> \o hash[i])[x + 1] = hash[i][x]
    BY <2>1
  <2> QED
    BY <2>2, <2>3
<1> HIDE DEF longer, long
<1>4. \A v : v \in Cache!Range(longer) <=> Member(v, storage) \/ v = item
  BY <1>2, RangeIs
<1>5. DOMAIN long = 1 .. Len(hash[i]) + 1
  BY <1>3
<1>6. \A c : c \in Cache!Matches(long, longer, old.key, {}) <=>
             c \in 1 .. Len(hash[i]) + 1 /\ \E v : (Member(v, storage) \/ v = item) /\ v.place = long[c] /\ v.key = old.key
  BY <1>4, <1>5 DEF Cache!Matches
<1>7. \A v : (Member(v, storage) \/ v = item) /\ v.key = old.key <=> v = old
  BY <1>1
<1>8. \A c : c \in Cache!Matches(long, longer, old.key, {}) <=> c \in 1 .. Len(hash[i]) + 1 /\ old.place = long[c]
  <2> SUFFICES ASSUME NEW c \in 1 .. Len(hash[i]) + 1
               PROVE  (\E v : (Member(v, storage) \/ v = item) /\ v.place = long[c] /\ v.key = old.key) <=> old.place = long[c]
    BY <1>6
  <2>1. ASSUME NEW v, Member(v, storage) \/ v = item, v.place = long[c], v.key = old.key PROVE old.place = long[c]
    <3>1. v = old
      BY <1>7, <2>1
    <3> QED
      BY <2>1, <3>1
  <2>2. old.place = long[c] => Member(old, storage) /\ old.place = long[c] /\ old.key = old.key
    OBVIOUS
  <2> QED
    BY <2>1, <2>2
<1>9. \A c \in 1 .. Len(hash[i]) + 1 : old.place = long[c] <=> c = b + 1
  <2> SUFFICES ASSUME NEW c \in 1 .. Len(hash[i]) + 1 PROVE old.place = long[c] <=> c = b + 1
    OBVIOUS
  <2>1. CASE c = 1
    <3>1. old.place # item.place /\ b + 1 # 1
      BY <1>1
    <3> QED
      BY <1>3, <2>1, <3>1
  <2>2. CASE c # 1
    <3>1. c - 1 \in 1 .. Len(hash[i]) /\ c - 1 + 1 = c
      <4>1. Len(hash[i]) \in Nat
        BY <1>3
      <4> QED
        BY <2>2, <4>1
    <3>2. long[c - 1 + 1] = hash[i][c - 1]
      BY <1>3, <3>1
    <3>3. old.place = hash[i][c - 1] <=> c - 1 = b
      BY <1>1, <3>1 DEF Distinct
    <3>4. c - 1 = b <=> c = b + 1
      BY <1>3
    <3> QED
      BY <3>1, <3>2, <3>3, <3>4
  <2> QED
    BY <2>1, <2>2
<1>10. b + 1 \in 1 .. Len(hash[i]) + 1
  BY <1>3
<1>11. Cache!Matches(long, longer, old.key, {}) = {b + 1}
  BY <1>8, <1>9, <1>10
<1> QED
  BY <1>11 DEF long, longer

\* There is no room, and the oldest item has the index of the new one.
LEMMA EvictKeeps ==
    ASSUME Kept, NEW k \in Keys, NEW item, NEW i, NEW hits, UpdateDoes(k, item, i, hits), hits = {},
           Len(<<item>> \o storage) >= MaxSize, ~astray'
    PROVE  Kept'
<1> DEFINE longer == <<item>> \o storage
           n == Len(storage)
           list == Cache!RemoveAt(storage, n)
           old == storage[n]
<1>1. /\ k \in Nat /\ updates \in Nat /\ updates' = updates + 1 /\ updates' \in 0 .. MaxUpdates /\ n \in Nat
      /\ i = Index(k) /\ i \in Indexes /\ item \in Items /\ item.place = updates' /\ item.key = k
      /\ latest' = [latest EXCEPT ![k] = item]
      /\ storage' = Cache!Front(longer)
      /\ hash' = Cache!DropOldest([hash EXCEPT ![i] = <<item.place>> \o hash[i]], i, longer, {})
      /\ Index(Cache!Last(longer).key) = i
  BY DEF UpdateDoes
<1>2. /\ storage \in Seq(Items) /\ Distinct(storage) /\ hash[i] \in Seq(Nat) /\ Distinct(hash[i]) /\ InOrder(storage)
      /\ n < MaxSize /\ hash \in [Indexes -> Seq(Nat)]
  BY <1>1 DEF Kept
<1>3. /\ longer \in Seq(Items) /\ Len(longer) = n + 1 /\ longer[1] = item /\ \A x \in 1 .. n : longer[x + 1] = storage[x]
  BY <1>1, <1>2
<1>4. n + 1 = MaxSize /\ n \in 1 .. n /\ n >= 1
  BY <1>1, <1>2, <1>3, CacheAssumption
<1>5. Cache!Last(longer) = old /\ Member(old, storage)
  BY <1>1, <1>3, <1>4 DEF Cache!Last, Member
<1>6. Cache!Front(longer) = <<item>> \o list
  BY <1>1, <1>2, <1>4, FrontIs
<1>7. list \in Seq(Items) /\ Len(list) = n - 1 /\ Distinct(list) /\ \A v : Member(v, list) <=> Member(v, storage) /\ v # old
  BY <1>2, <1>4, Removed
<1>8. InOrder(list)
  BY <1>2, <1>4, RemovedInOrder
<1>9. \A v : Member(v, list) => v.place > old.place
  <2> SUFFICES ASSUME NEW v, Member(v, list) PROVE v.place > old.place
    OBVIOUS
  <2>1. Member(v, storage) /\ v # old
    BY <1>7
  <2>2. PICK x \in 1 .. n : storage[x] = v
    BY <2>1 DEF Member
  <2>3. x < n
    BY <1>4, <2>1, <2>2
  <2> QED
    BY <1>2, <1>4, <2>2, <2>3 DEF InOrder
<1>10. \A v : Member(v, storage) => v.key # k
  BY NoneThere
<1>11. old.key # k /\ Index(old.key) = i
  BY <1>1, <1>5, <1>10
<1>12. /\ \A m, v : Member(m, storage) /\ Member(v, storage) /\ (m.key = v.key \/ m.place = v.place) => m = v
       /\ \A v : Member(v, storage) => v.place \in 1 .. updates
       /\ Member(old.place, hash[i])
  <2>1. Member(old.place, hash[i]) <=> i = Index(old.key)
    BY <1>1, <1>5 DEF Kept
  <2> QED
    BY <1>11, <2>1 DEF Kept
<1>13. PICK b \in 1 .. Len(hash[i]) : hash[i][b] = old.place
  BY <1>12 DEF Member
<1> DEFINE long == <<item.place>> \o hash[i]
           chain == Cache!RemoveAt(hash[i], b)
<1>14. long \in Seq(Nat) /\ Len(long) = Len(hash[i]) + 1 /\ long[1] = item.place /\ \A x \in 1 .. Len(hash[i]) : long[x + 1] = hash[i][x]
  <2>1. item.place \in Nat
    BY <1>1
  <2> QED
    BY <1>2, <2>1
<1>15. Cache!Matches(long, longer, old.key, {}) = {b + 1}
  <2>1. item.place \notin 1 .. updates
    BY <1>1
  <2>2. Member(old, storage) /\ old.key # item.key /\ hash[i][b] = old.place
    BY <1>1, <1>5, <1>11, <1>13
  <2> HIDE DEF old, n
  <2>4. item \in Items /\ i \in Indexes /\ b \in 1 .. Len(hash[i])
    BY <1>1, <1>13
  <2>5. Member(old, storage)
    BY <2>2
  <2>6. old.key # item.key
    BY <2>2
  <2>7. hash[i][b] = old.place
    BY <2>2
  <2> QED
    BY <2>1, <2>4, <2>5, <2>6, <2>7, MatchIs
<1>16. hash' = [hash EXCEPT ![i] = Cache!RemoveAt(long, b + 1)]
  <2>1. Cache!First({b + 1}) = b + 1
    BY <1>13 DEF Cache!First
  <2>2. [hash EXCEPT ![i] = long][Cache!Index(Cache!Last(longer).key)] = long
    BY <1>1, <1>2 DEF Index
  <2> HIDE DEF long, longer
  <2>3. Cache!DropOldest([hash EXCEPT ![i] = long], i, longer, {}) = [[hash EXCEPT ![i] = long] EXCEPT ![i] = Cache!RemoveAt(long, b + 1)]
    BY <1>5, <1>15, <2>1, <2>2 DEF Cache!DropOldest
  <2>4. [[hash EXCEPT ![i] = long] EXCEPT ![i] = Cache!RemoveAt(long, b + 1)] = [hash EXCEPT ![i] = Cache!RemoveAt(long, b + 1)]
    BY <1>1, <1>2
  <2>5. hash' = Cache!DropOldest([hash EXCEPT ![i] = long], i, longer, {})
    BY <1>1 DEF long, longer
  <2> QED
    BY <2>3, <2>4, <2>5
<1>17. Cache!RemoveAt(long, b + 1) = <<item.place>> \o chain
  <2>1. item.place \in Nat
    BY <1>1
  <2> QED
    BY <1>2, <1>13, <2>1, RemoveBehind
<1>18. chain \in Seq(Nat) /\ Distinct(chain) /\ \A v : Member(v, chain) <=> Member(v, hash[i]) /\ v # old.place
  BY <1>2, <1>13, Removed
<1> HIDE DEF list, chain, longer, old, n, long
<1> DEFINE G == {old}
<1>19. /\ \A m \in G : Index(m.key) = Index(item.key)
       /\ \A m : Member(m, storage) /\ m.key = item.key => m \in G
       /\ \A m : Member(m, list) <=> Member(m, storage) /\ m \notin G
       /\ \A m \in G : \A v : Member(v, list) => v.place > m.place
  BY <1>1, <1>7, <1>9, <1>10, <1>11
<1>20. \A p : Member(p, chain) <=> Member(p, hash[i]) /\ \A m : Member(m, storage) /\ m.place = p => m \notin G
  BY <1>1, <1>5, <1>12, <1>18, HashLeads
<1> HIDE DEF G
<1>21. Len(list) + 1 = MaxSize - 1 /\ Len(list) + 1 < MaxSize /\ Len(storage) <= Len(list) + 1
  BY <1>1, <1>4, <1>7, CacheAssumption DEF n
<1>22. storage' = <<item>> \o list /\ hash' = [hash EXCEPT ![Index(item.key)] = <<item.place>> \o chain]
  BY <1>1, <1>6, <1>16, <1>17
<1> QED
  BY <1>1, <1>7, <1>8, <1>18, <1>19, <1>20, <1>21, <1>22, CacheAdds

\* What an update does to a cache that is not astray.
LEMMA UpdateKeeps == ASSUME Kept, NEW k \in Keys, NEW info \in Infos, Cache!update(k, info) PROVE CacheInv'
<1>1. CASE k < 0
  BY <1>1, UpdateOfNone DEF CacheInv
<1>2. CASE ~(k < 0)
  <2> DEFINE item == [place |-> updates', key |-> k, info |-> info]
             hits == Cache!Hits(k, {})
             i == Index(k)
  <2>1. UpdateDoes(k, item, i, hits)
    BY <1>2, UpdateIs
  <2> HIDE DEF item, hits, i
  <2> QED
    BY <2>1, RenewKeeps, InsertKeeps, EvictKeeps DEF CacheInv
<1> QED
  BY <1>1, <1>2

THEOREM CacheInvariance == PartsSpec => []CacheInv
<1>1. PartsInit => CacheInv
  BY CacheBegins DEF PartsInit
<1>2. CacheInv /\ [PartsNext]_partsVars => CacheInv'
  <2> SUFFICES ASSUME CacheInv, [PartsNext]_partsVars PROVE CacheInv'
    OBVIOUS
  <2>1. Cache!CacheNext \/ UNCHANGED Cache!cacheVars
    BY CacheMoves
  <2>2. CASE UNCHANGED <<storage, hash, updates, latest, astray>>
    BY <2>2 DEF CacheInv, Kept
  <2>3. ASSUME NEW k \in Keys, Cache!lookup(k) PROVE UNCHANGED <<storage, hash, updates, latest, astray>>
    BY <2>3 DEF Cache!lookup
  <2>4. UNCHANGED Cache!cacheVars => UNCHANGED <<storage, hash, updates, latest, astray>>
    BY DEF Cache!cacheVars
  <2>5. ASSUME NEW k \in Keys, NEW info \in Infos, Cache!update(k, info) PROVE CacheInv'
    <3>1. CASE astray
      <4>1. astray'
        BY <2>5, <3>1 DEF Cache!update
      <4> QED
        BY <4>1 DEF CacheInv
    <3>2. CASE ~astray
      BY <2>5, <3>2, UpdateKeeps DEF CacheInv
    <3> QED
      BY <3>1, <3>2
  <2> QED
    BY <2>1, <2>2, <2>3, <2>4, <2>5 DEF Cache!CacheNext
<1> QED
  BY <1>1, <1>2, PTL DEF PartsSpec

-----------------------------------------------------------------------------
(* Rings of n places *)

\* The place k places after place 0, and how far place i is after place t.
Slot(n, k) == IF k < n THEN k ELSE k - n
AgeOf(n, t, i) == IF i >= t THEN i - t ELSE i - t + n

LEMMA SlotIs ==
    ASSUME NEW n \in Nat \ {0}
    PROVE  \A k \in 0 .. 2 * n - 1 : k % n = Slot(n, k) /\ Slot(n, k) \in 0 .. n - 1
  BY DEF Slot

LEMMA SlotPlus ==
    ASSUME NEW n \in Nat \ {0}, NEW t \in 0 .. n - 1, NEW i \in 0 .. n - 1
    PROVE  Slot(n, t + i) \in 0 .. n - 1 /\ AgeOf(n, t, Slot(n, t + i)) = i /\ (t + i) % n = Slot(n, t + i)
<1>1. t + i \in 0 .. 2 * n - 1
  OBVIOUS
<1>2. Slot(n, t + i) \in 0 .. n - 1 /\ (t + i) % n = Slot(n, t + i)
  BY <1>1, SlotIs
<1> QED
  BY <1>2 DEF Slot, AgeOf

LEMMA AgeIs ==
    ASSUME NEW n \in Nat \ {0}, NEW t \in 0 .. n - 1, NEW i \in 0 .. n - 1
    PROVE  /\ AgeOf(n, t, i) \in 0 .. n - 1 /\ Slot(n, t + AgeOf(n, t, i)) = i
           /\ (i + n - t) % n = AgeOf(n, t, i) /\ (i - t) % n = AgeOf(n, t, i)
<1>1. i + n - t \in 0 .. 2 * n - 1
  OBVIOUS
<1>2. (i + n - t) % n = Slot(n, i + n - t)
  BY <1>1, SlotIs
<1>3. (i - t) % n = AgeOf(n, t, i)
  BY DEF AgeOf
<1> QED
  BY <1>2, <1>3 DEF Slot, AgeOf

-----------------------------------------------------------------------------
(* The ring of acknowledgements: places of the ring, counted from the tail *)

S == AckSlots
Acks == [no : Window!AckNos \cup {-1}, ack : AckedSeqNos \cup {-1}]

CountOf(h, t) == IF h >= t THEN h - t ELSE h - t + S
HeldOf(h, t) == IF h >= t THEN {i \in 0 .. S - 1 : t <= i /\ i < h} ELSE {i \in 0 .. S - 1 : t <= i \/ i < h}

\* What the ring r holds from the tail t to the head h.
HistOf(r, h, t) == [i \in 1 .. CountOf(h, t) |-> r[Slot(S, t + i - 1)]]

LEMMA Slots == S \in Nat \ {0}
  BY WindowAssumption DEF S

\* The places held are those less than the count after the tail.
LEMMA HeldIs ==
    ASSUME NEW h \in 0 .. S - 1, NEW t \in 0 .. S - 1
    PROVE  /\ CountOf(h, t) \in 0 .. S - 1
           /\ \A i \in 0 .. S - 1 : i \in HeldOf(h, t) <=> AgeOf(S, t, i) < CountOf(h, t)
           /\ HeldOf(h, t) \subseteq 0 .. S - 1
  BY Slots DEF CountOf, HeldOf, AgeOf

LEMMA WindowCardinality == \A T : Window!Cardinality(T) = Cardinality(T)
  BY Zenon DEF Window!Cardinality, Cardinality

LEMMA HeldCount ==
    ASSUME NEW h \in 0 .. S - 1, NEW t \in 0 .. S - 1
    PROVE  Window!Cardinality(HeldOf(h, t)) = CountOf(h, t)
<1>1. CASE h >= t
  <2>1. HeldOf(h, t) = t .. h - 1
    BY <1>1, Slots DEF HeldOf
  <2>2. Cardinality(t .. h - 1) = h - t
    <3>1. t \in Int /\ h - 1 \in Int
      BY Slots
    <3>2. Cardinality(t .. h - 1) = IF t > h - 1 THEN 0 ELSE h - 1 - t + 1
      BY <3>1, FS_Interval
    <3> QED
      BY <1>1, <3>1, <3>2
  <2> QED
    BY <1>1, <2>1, <2>2, WindowCardinality DEF CountOf
<1>2. CASE ~(h >= t)
  <2>1. HeldOf(h, t) = (t .. S - 1) \cup (0 .. h - 1) /\ (t .. S - 1) \cap (0 .. h - 1) = {}
    BY <1>2, Slots DEF HeldOf
  <2>2. t \in Int /\ S - 1 \in Int /\ h - 1 \in Int /\ 0 \in Int /\ h < t /\ t <= S - 1 /\ h >= 0
    BY <1>2, Slots
  <2>3. /\ IsFiniteSet(t .. S - 1) /\ Cardinality(t .. S - 1) = S - 1 - t + 1
        /\ IsFiniteSet(0 .. h - 1) /\ Cardinality(0 .. h - 1) = h
    <3>1. IsFiniteSet(t .. S - 1) /\ Cardinality(t .. S - 1) = IF t > S - 1 THEN 0 ELSE S - 1 - t + 1
      BY <2>2, FS_Interval
    <3>2. IsFiniteSet(0 .. h - 1) /\ Cardinality(0 .. h - 1) = IF 0 > h - 1 THEN 0 ELSE h - 1 - 0 + 1
      BY <2>2, FS_Interval
    <3> QED
      BY <2>2, <3>1, <3>2
  <2>4. Cardinality((t .. S - 1) \cup (0 .. h - 1)) = S - 1 - t + 1 + h - 0
    <3>1. Cardinality({}) = 0
      BY FS_EmptySet
    <3>2. Cardinality((t .. S - 1) \cup (0 .. h - 1)) =
              Cardinality(t .. S - 1) + Cardinality(0 .. h - 1) - Cardinality((t .. S - 1) \cap (0 .. h - 1))
      BY <2>3, FS_Union
    <3> QED
      BY <2>1, <2>3, <3>1, <3>2
  <2> QED
    BY <1>2, <2>1, <2>2, <2>4, WindowCardinality, Slots DEF CountOf
<1> QED
  BY <1>1, <1>2, Slots

WindowInv == head \in 0 .. S - 1 /\ tail \in 0 .. S - 1 /\ ring \in [0 .. S - 1 -> Acks] /\ ackNo \in Window!AckNos

\* What the ring shows as the history.
History == [i \in 1 .. Window!Cardinality(Window!Held) |-> ring[(tail + i - 1) % AckSlots]]

LEMMA HistIs ==
    ASSUME NEW r, NEW h \in 0 .. S - 1, NEW t \in 0 .. S - 1
    PROVE  [i \in 1 .. Window!Cardinality(HeldOf(h, t)) |-> r[(t + i - 1) % AckSlots]] = HistOf(r, h, t)
<1>1. CountOf(h, t) \in 0 .. S - 1
  BY HeldIs
<1>2. ASSUME NEW i \in 1 .. CountOf(h, t) PROVE (t + i - 1) % AckSlots = Slot(S, t + i - 1)
  <2>1. i - 1 \in 0 .. S - 1 /\ t + (i - 1) = t + i - 1
    BY <1>1, Slots
  <2>2. (t + (i - 1)) % S = Slot(S, t + (i - 1))
    BY <2>1, SlotPlus, Slots
  <2> QED
    BY <2>1, <2>2 DEF S
<1> QED
  BY <1>2, HeldCount DEF HistOf

LEMMA HistSeq ==
    ASSUME NEW r \in [0 .. S - 1 -> Acks], NEW h \in 0 .. S - 1, NEW t \in 0 .. S - 1
    PROVE  /\ HistOf(r, h, t) \in Seq(Acks) /\ Len(HistOf(r, h, t)) = CountOf(h, t)
           /\ CountOf(h, t) \in 0 .. S - 1
           /\ \A i \in 1 .. CountOf(h, t) : HistOf(r, h, t)[i] = r[Slot(S, t + (i - 1))] /\ Slot(S, t + (i - 1)) \in 0 .. S - 1
<1>1. CountOf(h, t) \in 0 .. S - 1
  BY HeldIs
<1>2. ASSUME NEW i \in 1 .. CountOf(h, t)
      PROVE  Slot(S, t + (i - 1)) \in 0 .. S - 1 /\ t + (i - 1) = t + i - 1
  <2>1. i - 1 \in 0 .. S - 1 /\ t + (i - 1) = t + i - 1
    BY <1>1, Slots
  <2> QED
    BY <2>1, SlotPlus, Slots
<1>3. HistOf(r, h, t) \in [1 .. CountOf(h, t) -> Acks]
  BY <1>2 DEF HistOf
<1>4. HistOf(r, h, t) \in Seq(Acks) /\ Len(HistOf(r, h, t)) = CountOf(h, t)
  BY <1>1, <1>3
<1> QED
  BY <1>1, <1>2, <1>4 DEF HistOf

LEMMA SubSeqIs ==
    ASSUME NEW q \in Seq(Acks), NEW f \in 1 .. Len(q)
    PROVE  SubSeq(q, f + 1, Len(q)) = [i \in 1 .. Len(q) - f |-> q[f + i]]
<1>1. Len(q) \in Nat /\ f \in Nat /\ f <= Len(q) /\ f >= 1
  OBVIOUS
<1> QED
  BY <1>1

\* The head goes on by one place, and the tail too if they would meet.
LEMMA CountNext ==
    ASSUME NEW h \in 0 .. S - 1, NEW t \in 0 .. S - 1
    PROVE  LET g == Slot(S, h + 1)
               n == CountOf(h, t)
           IN  /\ n + 1 = S => g = t /\ CountOf(g, Slot(S, t + 1)) = n
               /\ n + 1 # S => g # t /\ CountOf(g, t) = n + 1
<1>1. S \in Nat /\ S > 0 /\ h \in Nat /\ t \in Nat /\ h <= S - 1 /\ t <= S - 1
  BY Slots
<1>2. CASE h >= t
  BY <1>1, <1>2 DEF CountOf, Slot
<1>3. CASE ~(h >= t)
  BY <1>1, <1>3 DEF CountOf, Slot
<1> QED
  BY <1>2, <1>3

\* A record goes to the place of the head; when the ring is full the oldest gives way.
LEMMA StoreIs ==
    ASSUME WindowInv, NEW e \in Acks,
           ring' \in [0 .. S - 1 -> Acks], ring'[head] = e, \A i \in 0 .. S - 1 : i # head => ring'[i] = ring[i],
           head' = (head + 1) % S, tail' = IF head' = tail THEN (tail + 1) % S ELSE tail,
           NEW longer \in Seq(Acks), Len(longer) = CountOf(head, tail) + 1, longer[Len(longer)] = e,
           \A i \in 1 .. CountOf(head, tail) : longer[i] = HistOf(ring, head, tail)[i]
    PROVE  /\ head' \in 0 .. S - 1 /\ tail' \in 0 .. S - 1
           /\ HistOf(ring', head', tail') = IF Len(longer) = S THEN Tail(longer) ELSE longer
<1>0. head \in 0 .. S - 1 /\ tail \in 0 .. S - 1 /\ ring \in [0 .. S - 1 -> Acks]
  BY DEF WindowInv
<1> DEFINE H == HistOf(ring, head, tail)
           n == CountOf(head, tail)
<1>1. head' = Slot(S, head + 1) /\ head' \in 0 .. S - 1 /\ (tail + 1) % S = Slot(S, tail + 1) /\ Slot(S, tail + 1) \in 0 .. S - 1
  <2>1. head \in 0 .. S - 1 /\ tail \in 0 .. S - 1
    BY <1>0
  <2>2. head + 1 \in 0 .. 2 * S - 1
    BY <2>1, Slots
  <2>3. tail + 1 \in 0 .. 2 * S - 1
    BY <2>1, Slots
  <2> QED
    BY <2>2, <2>3, SlotIs, Slots
<1>2. tail' \in 0 .. S - 1
  BY <1>0, <1>1
<1>3. /\ H \in Seq(Acks) /\ Len(H) = n /\ n \in 0 .. S - 1
      /\ \A i \in 1 .. n : H[i] = ring[Slot(S, tail + (i - 1))] /\ Slot(S, tail + (i - 1)) \in 0 .. S - 1
  <2>1. n \in 0 .. S - 1
    BY <1>0, HeldIs
  <2>2. /\ H \in Seq(Acks) /\ Len(H) = n
        /\ \A i \in 1 .. n : H[i] = ring[Slot(S, tail + (i - 1))] /\ Slot(S, tail + (i - 1)) \in 0 .. S - 1
    BY <1>0, HistSeq
  <2> QED
    BY <2>1, <2>2
<1>4. \A i \in 0 .. n - 1 : Slot(S, tail + i) # head
  BY <1>0, Slots, <1>3 DEF CountOf, Slot
<1>5. Slot(S, tail + n) = head
  BY <1>0, Slots DEF CountOf, Slot
<1>6. Len(longer) = n + 1 /\ longer[n + 1] = e /\ \A i \in 1 .. n : longer[i] = H[i]
  OBVIOUS
<1> HIDE DEF H, n
<1>7. \A i \in 1 .. n + 1 : longer[i] = ring'[Slot(S, tail + (i - 1))]
  <2>1. ASSUME NEW i \in 1 .. n + 1 PROVE longer[i] = ring'[Slot(S, tail + (i - 1))]
    <3>1. CASE i = n + 1
      <4>1. ring'[head] = e /\ i - 1 = n
        BY <1>3, <3>1
      <4> QED
        BY <1>5, <1>6, <3>1, <4>1
    <3>2. CASE i # n + 1
      <4>1. i \in 1 .. n /\ i - 1 \in 0 .. n - 1
        BY <1>3, <3>2
      <4> QED
        BY <1>3, <1>4, <1>6, <4>1
    <3> QED
      BY <3>1, <3>2
  <2> QED
    BY <2>1
<1>8. CASE n + 1 = S
  <2>1. head' = tail /\ tail' = Slot(S, tail + 1)
    BY <1>0, <1>1, <1>8, CountNext DEF n
  <2>2. CountOf(head', tail') = n
    BY <1>0, <1>1, <1>8, <2>1, CountNext DEF n
  <2>3. Tail(longer) = [i \in 1 .. n |-> longer[i + 1]]
    <3>1. longer \in Seq(Acks) /\ Len(longer) = n + 1 /\ n \in Nat
      BY <1>3, <1>6
    <3>2. longer # <<>>
      BY <3>1
    <3>3. Tail(longer) \in Seq(Acks) /\ Len(Tail(longer)) = n /\ \A i \in 1 .. n : Tail(longer)[i] = longer[i + 1]
      BY <3>1, <3>2
    <3> DEFINE rest == Tail(longer)
    <3> HIDE DEF rest
    <3>4. rest \in Seq(Acks)
      BY <3>3 DEF rest
    <3>5. rest = [i \in 1 .. Len(rest) |-> rest[i]]
      BY <3>4
    <3>6. Len(rest) = n /\ \A i \in 1 .. n : rest[i] = longer[i + 1]
      BY <3>3 DEF rest
    <3>7. rest = [i \in 1 .. n |-> longer[i + 1]]
      BY <3>5, <3>6
    <3> QED
      BY <3>7 DEF rest
  <2>4. ASSUME NEW i \in 1 .. n PROVE ring'[Slot(S, tail' + i - 1)] = longer[i + 1]
    <3>1. i + 1 \in 1 .. n + 1 /\ i + 1 - 1 = i /\ i \in 1 .. S - 1
      <4>1. n \in Nat /\ S - 1 = n
        BY <1>3, <1>8, Slots
      <4> QED
        BY <4>1
    <3>2. Slot(S, tail' + i - 1) = Slot(S, tail + i)
      <4> DEFINE t == tail
                 u == tail'
      <4>1. t \in 0 .. S - 1 /\ u = Slot(S, t + 1) /\ i \in 1 .. S - 1
        BY <1>0, <2>1, <3>1
      <4> HIDE DEF t, u
      <4>2. Slot(S, u + i - 1) = Slot(S, t + i)
        BY <4>1, Slots DEF Slot
      <4> QED
        BY <4>2 DEF t, u
    <3> QED
      BY <1>7, <3>1, <3>2
  <2>5. HistOf(ring', head', tail') = Tail(longer)
    BY <2>2, <2>3, <2>4 DEF HistOf
  <2> QED
    BY <1>0, <1>1, <1>2, <1>6, <1>8, <2>5
<1>9. CASE n + 1 # S
  <2>1. head' # tail /\ tail' = tail
    BY <1>0, <1>1, <1>9, CountNext DEF n
  <2>2. CountOf(head', tail') = n + 1
    BY <1>0, <1>1, <1>9, <2>1, CountNext DEF n
  <2>3. longer = [i \in 1 .. n + 1 |-> longer[i]]
    BY <1>3, <1>6
  <2>4. ASSUME NEW i \in 1 .. n + 1 PROVE ring'[Slot(S, tail' + i - 1)] = longer[i]
    <3>1. tail' + i - 1 = tail + (i - 1)
      BY <1>3, <2>1
    <3> QED
      BY <1>7, <3>1
  <2>5. HistOf(ring', head', tail') = longer
    BY <2>2, <2>3, <2>4 DEF HistOf
  <2> QED
    BY <1>0, <1>1, <1>2, <1>6, <1>9, <2>5
<1> QED
  BY <1>8, <1>9

\* With the entry at place p go those before it.
LEMMA ForgetIs ==
    ASSUME NEW r \in [0 .. S - 1 -> Acks], NEW h \in 0 .. S - 1, NEW t \in 0 .. S - 1, NEW p \in HeldOf(h, t)
    PROVE  LET H == HistOf(r, h, t)
               f == AgeOf(S, t, p) + 1
           IN  /\ f \in 1 .. Len(H) /\ Slot(S, p + 1) \in 0 .. S - 1
               /\ HistOf(r, h, Slot(S, p + 1)) = SubSeq(H, f + 1, Len(H))
               /\ \A q : h >= t /\ p + 1 = h => HistOf(q, 0, 0) = SubSeq(H, f + 1, Len(H))
<1> DEFINE H == HistOf(r, h, t)
           n == CountOf(h, t)
           f == AgeOf(S, t, p) + 1
<1>1. p \in 0 .. S - 1 /\ AgeOf(S, t, p) < n /\ n \in 0 .. S - 1 /\ AgeOf(S, t, p) \in 0 .. S - 1
  <2>1. p \in 0 .. S - 1
    BY HeldIs
  <2> QED
    BY <2>1, HeldIs, AgeIs, Slots
<1>2. /\ H \in Seq(Acks) /\ Len(H) = n
      /\ \A i \in 1 .. n : H[i] = r[Slot(S, t + (i - 1))] /\ Slot(S, t + (i - 1)) \in 0 .. S - 1
  BY HistSeq
<1>3. f \in 1 .. n /\ f \in 1 .. Len(H)
  BY <1>1, <1>2
<1>4. Slot(S, p + 1) \in 0 .. S - 1
  BY <1>1, Slots DEF Slot
<1>5. CountOf(h, Slot(S, p + 1)) = n - f
  BY <1>1, Slots DEF CountOf, Slot, AgeOf
<1>6. \A i \in 1 .. n - f : Slot(S, Slot(S, p + 1) + i - 1) = Slot(S, t + (f + i - 1))
  BY <1>1, Slots DEF CountOf, Slot, AgeOf
<1> HIDE DEF H, n
<1>7. SubSeq(H, f + 1, Len(H)) = [i \in 1 .. n - f |-> H[f + i]]
  <2> HIDE DEF f
  <2> QED
    BY <1>2, <1>3, SubSeqIs
<1>8. ASSUME NEW i \in 1 .. n - f PROVE r[Slot(S, Slot(S, p + 1) + i - 1)] = H[f + i]
  <2> HIDE DEF f
  <2>1. f + i \in 1 .. n /\ f + i - 1 = (f + i) - 1
    BY <1>1, <1>3
  <2> QED
    BY <1>2, <1>6, <2>1
<1>9. HistOf(r, h, Slot(S, p + 1)) = SubSeq(H, f + 1, Len(H))
  BY <1>5, <1>7, <1>8 DEF HistOf
<1>10. ASSUME NEW q, h >= t, p + 1 = h PROVE HistOf(q, 0, 0) = SubSeq(H, f + 1, Len(H))
  <2>1. n - f = 0
    BY <1>1, <1>10, Slots DEF n, CountOf, AgeOf
  <2>2. CountOf(0, 0) = 0
    BY Slots DEF CountOf
  <2>3. HistOf(q, 0, 0) = [i \in 1 .. 0 |-> q[Slot(S, 0 + i - 1)]] /\ SubSeq(H, f + 1, Len(H)) = [i \in 1 .. 0 |-> H[f + i]]
    BY <1>7, <2>1, <2>2 DEF HistOf
  <2>4. 1 .. 0 = {}
    OBVIOUS
  <2> QED
    BY <2>3, <2>4
<1> QED
  BY <1>3, <1>4, <1>9, <1>10 DEF H

-----------------------------------------------------------------------------
(* The ring of acknowledgements implements the history *)

LEMMA HistoryIs == ASSUME WindowInv PROVE History = HistOf(ring, head, tail)
<1>1. Window!Held = HeldOf(head, tail)
  BY DEF Window!Held, HeldOf, S
<1> QED
  BY <1>1, HistIs DEF History, WindowInv

LEMMA HistoryWillBe == ASSUME WindowInv' PROVE History' = HistOf(ring', head', tail')
<1>1. Window!Held' = HeldOf(head', tail')
  BY DEF Window!Held, HeldOf, S
<1> QED
  BY <1>1, HistIs DEF History, WindowInv

LEMMA WindowBegins == ASSUME Window!WindowInit PROVE WindowInv /\ Window!History!HistoryInit
<1>1. WindowInv
  BY Slots, WindowAssumption DEF Window!WindowInit, WindowInv, Window!Unset, Window!AckNos, Acks, S
<1>2. History = <<>>
  <2>1. HistOf(ring, head, tail) = <<>>
    BY Slots DEF Window!WindowInit, HistOf, CountOf
  <2> QED
    BY <1>1, <2>1, HistoryIs
<1> QED
  BY <1>1, <1>2 DEF Window!WindowInit, Window!History!HistoryInit, History

LEMMA StoreSends ==
    ASSUME WindowInv, NEW ack \in AckedSeqNos, Window!store(ack)
    PROVE  WindowInv' /\ \E no \in Window!AckNos : Window!History!Sent(no, ack)
<1> DEFINE e == [no |-> ackNo', ack |-> ack]
<1>1. ackNo' \in Window!AckNos
  BY WindowAssumption DEF Window!store, Window!incack, Window!AckNos, WindowInv
<1>2. e \in Acks
  BY <1>1 DEF Acks
<1>3. /\ ring' = [ring EXCEPT ![head] = e] /\ head' = (head + 1) % S
      /\ tail' = IF head' = tail THEN (tail + 1) % S ELSE tail
      /\ said' = {}
  BY DEF Window!store, Window!NewTail, S
<1>4. ring' \in [0 .. S - 1 -> Acks] /\ ring'[head] = e /\ \A i \in 0 .. S - 1 : i # head => ring'[i] = ring[i]
  BY <1>2, <1>3 DEF WindowInv
<1> HIDE DEF e
<1> DEFINE longer == Append(HistOf(ring, head, tail), e)
<1>5. /\ head' \in 0 .. S - 1 /\ tail' \in 0 .. S - 1
      /\ HistOf(ring', head', tail') = IF Len(longer) = S THEN Tail(longer) ELSE longer
  <2>1. head \in 0 .. S - 1 /\ tail \in 0 .. S - 1 /\ ring \in [0 .. S - 1 -> Acks]
    BY DEF WindowInv
  <2> DEFINE H == HistOf(ring, head, tail)
             n == CountOf(head, tail)
  <2>2. H \in Seq(Acks) /\ Len(H) = n /\ n \in Nat
    <3>1. n \in 0 .. S - 1
      BY <2>1, HeldIs
    <3>2. H \in Seq(Acks) /\ Len(H) = n
      BY <2>1, HistSeq
    <3> QED
      BY <3>1, <3>2
  <2> HIDE DEF H, n
  <2>3. longer = Append(H, e)
    BY DEF H
  <2>4. /\ longer \in Seq(Acks) /\ Len(longer) = n + 1 /\ longer[Len(longer)] = e
        /\ \A i \in 1 .. n : longer[i] = H[i]
    BY <1>2, <2>2, <2>3
  <2> HIDE DEF longer
  <2> QED
    BY <1>2, <1>3, <1>4, <2>4, StoreIs DEF H, n
<1>6. WindowInv'
  BY <1>1, <1>4, <1>5 DEF WindowInv
<1>7. longer = Append(History, e)
  BY HistoryIs
<1>8. History' = IF Len(Append(History, e)) = S THEN Tail(Append(History, e)) ELSE Append(History, e)
  BY <1>5, <1>6, <1>7, HistoryWillBe
<1>9. Window!History!Sent(ackNo', ack)
  BY <1>3, <1>8 DEF Window!History!Sent, History, e, S
<1> QED
  BY <1>1, <1>6, <1>9

LEMMA AcknowledgeAnswers ==
    ASSUME WindowInv, NEW no \in Window!AckNos, Window!acknowledge(no)
    PROVE  WindowInv' /\ Window!History!Answered(no)
<1> DEFINE H == HistOf(ring, head, tail)
           n == CountOf(head, tail)
           held == {i \in Window!Held : ring[i].no = no}
           p == CHOOSE k \in held : \A j \in held : Window!Age(k) <= Window!Age(j)
           found == {i \in DOMAIN H : H[i].no = no}
           first == CHOOSE i \in found : \A j \in found : i <= j
<1>1. head \in 0 .. S - 1 /\ tail \in 0 .. S - 1 /\ ring \in [0 .. S - 1 -> Acks] /\ ackNo' = ackNo
  BY DEF WindowInv, Window!acknowledge
<1>2. /\ H \in Seq(Acks) /\ Len(H) = n /\ n \in 0 .. S - 1
      /\ \A i \in 1 .. n : H[i] = ring[Slot(S, tail + (i - 1))] /\ Slot(S, tail + (i - 1)) \in 0 .. S - 1
  BY <1>1, HistSeq
<1>3. Window!Held = HeldOf(head, tail) /\ Window!Held \subseteq 0 .. S - 1
  BY <1>1, HeldIs DEF Window!Held, HeldOf, S
<1>4. \A i \in 0 .. S - 1 : i \in Window!Held <=> AgeOf(S, tail, i) < n
  BY <1>1, <1>3, HeldIs
<1>5. \A i \in Window!Held : Window!Age(i) = AgeOf(S, tail, i) /\ AgeOf(S, tail, i) + 1 \in 1 .. n /\ H[AgeOf(S, tail, i) + 1] = ring[i]
  <2> TAKE i \in Window!Held
  <2>1. i \in 0 .. S - 1 /\ AgeOf(S, tail, i) < n
    BY <1>3, <1>4
  <2>2. AgeOf(S, tail, i) \in 0 .. S - 1 /\ Slot(S, tail + AgeOf(S, tail, i)) = i /\ (i + S - tail) % S = AgeOf(S, tail, i)
    BY <1>1, <2>1, AgeIs, Slots
  <2>3. AgeOf(S, tail, i) + 1 \in 1 .. n /\ AgeOf(S, tail, i) + 1 - 1 = AgeOf(S, tail, i)
    BY <1>2, <2>1, <2>2
  <2> QED
    BY <1>2, <2>2, <2>3 DEF Window!Age, S
<1>6. \A i \in 1 .. n : Slot(S, tail + (i - 1)) \in Window!Held /\ AgeOf(S, tail, Slot(S, tail + (i - 1))) = i - 1
  <2> TAKE i \in 1 .. n
  <2>1. i - 1 \in 0 .. S - 1
    BY <1>2, Slots
  <2>2. Slot(S, tail + (i - 1)) \in 0 .. S - 1 /\ AgeOf(S, tail, Slot(S, tail + (i - 1))) = i - 1
    BY <1>1, <2>1, SlotPlus, Slots
  <2>3. i - 1 < n
    BY <1>2
  <2> QED
    BY <1>4, <2>2, <2>3
<1>7. DOMAIN H = 1 .. n
  BY <1>2
<1>8. /\ IF held = {} THEN said' = {} /\ UNCHANGED <<head, tail, ring>>
         ELSE /\ said' = {ring[p].ack}
              /\ IF head >= tail /\ p + 1 = head
                 THEN head' = 0 /\ tail' = 0 /\ ring' = [ring EXCEPT ![0].no = -1]
                 ELSE tail' = (p + 1) % S /\ UNCHANGED <<head, ring>>
  BY DEF Window!acknowledge, S
<1>9. History = H
  BY HistoryIs
<1> HIDE DEF H, n, held, p
<1>10. CASE held = {}
  <2>1. found = {}
    <3> SUFFICES ASSUME NEW i \in 1 .. n, H[i].no = no PROVE FALSE
      BY <1>7
    <3>1. Slot(S, tail + (i - 1)) \in Window!Held /\ ring[Slot(S, tail + (i - 1))].no = no
      BY <1>2, <1>6
    <3> QED
      BY <1>10, <3>1 DEF held
  <2>2. WindowInv'
    BY <1>1, <1>8, <1>10 DEF WindowInv
  <2>3. History' = History
    BY <1>8, <1>9, <1>10, <2>2, HistoryWillBe DEF H
  <2>4. {i \in DOMAIN History : History[i].no = no} = {}
    BY <1>9, <2>1
  <2> QED
    BY <1>8, <1>10, <2>2, <2>3, <2>4 DEF Window!History!Answered, History
<1>11. CASE held # {}
  <2>1. p \in held /\ \A j \in held : AgeOf(S, tail, p) <= AgeOf(S, tail, j)
    <3> DEFINE ages == {AgeOf(S, tail, i) : i \in held}
    <3>1. held \subseteq Window!Held
      BY DEF held
    <3>2. ages \subseteq Nat /\ ages # {}
      <4>1. ASSUME NEW i \in held PROVE AgeOf(S, tail, i) \in Nat
        <5>1. i \in 0 .. S - 1
          BY <1>3, <3>1
        <5>2. AgeOf(S, tail, i) \in 0 .. S - 1
          BY <1>1, <5>1, AgeIs, Slots
        <5> QED
          BY <5>2
      <4> QED
        BY <1>11, <4>1
    <3>3. PICK least \in ages : \A c \in ages : least <= c
      BY <3>2, LeastOf
    <3>4. PICK k \in held : least = AgeOf(S, tail, k)
      BY <3>3
    <3>5. \A j \in held : AgeOf(S, tail, k) <= AgeOf(S, tail, j)
      BY <3>3, <3>4
    <3>6. \A j \in held : Window!Age(k) <= Window!Age(j)
      BY <1>5, <3>1, <3>4, <3>5
    <3>7. p \in held /\ \A j \in held : Window!Age(p) <= Window!Age(j)
      BY <3>4, <3>6 DEF p
    <3> QED
      BY <1>5, <3>1, <3>7
  <2>2. p \in Window!Held /\ ring[p].no = no
    BY <2>1 DEF held
  <2> DEFINE f == AgeOf(S, tail, p) + 1
  <2>3. f \in 1 .. n /\ H[f] = ring[p]
    BY <1>5, <2>2
  <2>4. f \in found /\ \A j \in found : f <= j
    <3>1. f \in found
      BY <1>7, <2>2, <2>3
    <3>2. ASSUME NEW j \in found PROVE f <= j
      <4>1. j \in 1 .. n /\ H[j].no = no
        BY <1>7
      <4>2. Slot(S, tail + (j - 1)) \in held /\ AgeOf(S, tail, Slot(S, tail + (j - 1))) = j - 1
        BY <1>2, <1>6, <4>1 DEF held
      <4>3. AgeOf(S, tail, p) <= j - 1
        BY <2>1, <4>2
      <4>4. AgeOf(S, tail, p) \in 0 .. S - 1
        BY <1>1, <1>3, <2>2, AgeIs, Slots
      <4> QED
        BY <4>1, <4>3, <4>4
    <3> QED
      BY <3>1, <3>2
  <2>5. first = f
    <3>1. first \in found /\ \A j \in found : first <= j
      BY <2>4
    <3>2. first <= f /\ f <= first /\ first \in Nat /\ f \in Nat
      BY <1>7, <2>3, <2>4, <3>1
    <3> QED
      BY <3>2
  <2>6. /\ f \in 1 .. Len(H) /\ Slot(S, p + 1) \in 0 .. S - 1
        /\ HistOf(ring, head, Slot(S, p + 1)) = SubSeq(H, f + 1, Len(H))
        /\ \A q : head >= tail /\ p + 1 = head => HistOf(q, 0, 0) = SubSeq(H, f + 1, Len(H))
    BY <1>1, <1>3, <2>2, ForgetIs DEF H
  <2>7. WindowInv' /\ HistOf(ring', head', tail') = SubSeq(H, f + 1, Len(H))
    <3>1. CASE head >= tail /\ p + 1 = head
      <4>1. head' = 0 /\ tail' = 0 /\ ring' = [ring EXCEPT ![0].no = -1]
        BY <1>8, <1>11, <3>1
      <4>2. ring' \in [0 .. S - 1 -> Acks]
        BY <1>1, <4>1, Slots DEF Acks
      <4> QED
        BY <1>1, <2>6, <3>1, <4>1, <4>2, Slots DEF WindowInv
    <3>2. CASE ~(head >= tail /\ p + 1 = head)
      <4>1. tail' = (p + 1) % S /\ head' = head /\ ring' = ring
        BY <1>8, <1>11, <3>2
      <4>2. tail' = Slot(S, p + 1)
        <5>1. p + 1 \in 0 .. 2 * S - 1
          BY <1>3, <2>2, Slots
        <5> QED
          BY <4>1, <5>1, SlotIs, Slots
      <4> QED
        BY <1>1, <2>6, <4>1, <4>2 DEF WindowInv
    <3> QED
      BY <3>1, <3>2
  <2>8. History' = SubSeq(H, f + 1, Len(H))
    BY <2>7, HistoryWillBe
  <2>9. said' = {H[f].ack}
    BY <1>8, <1>11, <2>3
  <2> HIDE DEF f
  <2>10. found # {}
    BY <2>4
  <2>11. said' = {H[first].ack} /\ History' = SubSeq(H, first + 1, Len(H))
    BY <2>5, <2>8, <2>9
  <2> QED
    BY <1>9, <2>7, <2>10, <2>11 DEF Window!History!Answered, History
<1> QED
  BY <1>10, <1>11

\* The ring of acknowledgements is the history of those sent last, whatever its size, wherever the
\* numbers begin anew and whichever of them are answered.
THEOREM AckWindowCorrect == PartsSpec => AckWindowIsHistory
<1>1. PartsInit => WindowInv /\ Window!History!HistoryInit
  BY WindowBegins DEF PartsInit
<1>2. WindowInv /\ [PartsNext]_partsVars => WindowInv' /\ [Window!History!HistoryNext]_(Window!History!historyVars)
  <2> SUFFICES ASSUME WindowInv, [PartsNext]_partsVars
               PROVE  WindowInv' /\ [Window!History!HistoryNext]_(Window!History!historyVars)
    OBVIOUS
  <2>1. Window!WindowNext \/ UNCHANGED Window!windowVars
    BY WindowMoves
  <2>2. CASE UNCHANGED <<head, tail, ring, ackNo, said>>
    <3>1. WindowInv'
      BY <2>2 DEF WindowInv
    <3>2. UNCHANGED Window!History!historyVars
      BY <2>2 DEF Window!History!historyVars, Window!Held
    <3> QED
      BY <3>1, <3>2
  <2>3. ASSUME NEW no \in Window!AckNos, Window!acknowledge(no)
        PROVE  WindowInv' /\ [Window!History!HistoryNext]_(Window!History!historyVars)
    BY <2>3, AcknowledgeAnswers DEF Window!History!HistoryNext
  <2>4. ASSUME NEW ack \in AckedSeqNos, Window!store(ack)
        PROVE  WindowInv' /\ [Window!History!HistoryNext]_(Window!History!historyVars)
    BY <2>4, StoreSends DEF Window!History!HistoryNext
  <2>5. ASSUME NEW interval, Window!onPktArrival(interval) \/ Window!probe2Arrival(interval)
        PROVE  UNCHANGED <<head, tail, ring, ackNo, said>>
    BY <2>5 DEF Window!onPktArrival, Window!probe2Arrival, Window!acksUnchanged
  <2>6. UNCHANGED Window!windowVars => UNCHANGED <<head, tail, ring, ackNo, said>>
    BY DEF Window!windowVars
  <2> QED
    BY <2>1, <2>2, <2>3, <2>4, <2>5, <2>6 DEF Window!WindowNext
<1> QED
  BY <1>1, <1>2, PTL DEF PartsSpec, AckWindowIsHistory, Window!AckWindowIsHistory, Window!History!HistorySpec

-----------------------------------------------------------------------------
(* Files: the packets follow each other in the file, and the ring holds some of them in order *)

N == FileRcvBuf
SomePacket == [first : Nat, len : Nat \ {0}]

\* The byte of the file that packet k ends with.
EndOf(ps, k) == IF k = 0 THEN 0 ELSE ps[k].first + ps[k].len - 1

Follow(ps) == ps \in Seq(SomePacket) /\ \A k \in 1 .. Len(ps) : ps[k].first = EndOf(ps, k - 1) + 1

\* The unit d places after the first one.
UnitAt(B, d) == B.unit[Slot(N, B.start + d)]

RingShape(B) ==
    /\ DOMAIN B = {"unit", "start", "ackPos", "maxPos", "notch"}
    /\ DOMAIN B.unit = 0 .. N - 1 /\ B.unit = [i \in 0 .. N - 1 |-> B.unit[i]]
    /\ B.start \in 0 .. N - 1 /\ B.ackPos \in 0 .. N - 1 /\ B.maxPos \in Int /\ B.notch \in Nat

Acked(B) == AgeOf(N, B.start, B.ackPos)

\* base packets have been read, and some of the next one; what is held after them are the next ones.
RingHolds(B, ps, base) ==
    /\ RingShape(B) /\ base \in Nat /\ base + Acked(B) <= Len(ps)
    /\ \A d \in 0 .. N - 1 : UnitAt(B, d) # File!NoUnit =>
          d < N - 1 /\ base + d + 1 <= Len(ps) /\ UnitAt(B, d).pkt = ps[base + d + 1]
    /\ \A d \in 0 .. N - 1 : d < Acked(B) => UnitAt(B, d) # File!NoUnit
    /\ IF Acked(B) = 0 THEN B.notch = 0 ELSE B.notch < ps[base + 1].len

FileInv ==
    /\ Follow(packets)
    /\ {"offset", "tosend"} \subseteq DOMAIN sending /\ sending.tosend \in Int
    /\ sending.offset = EndOf(packets, Len(packets)) /\ sending.offset <= FileLen
    /\ {"offset", "torecv", "acked"} \subseteq DOMAIN receiving /\ receiving.torecv \in Int
    /\ receiving.acked \in Nat
    /\ RingHolds(buf, packets, receiving.acked - Acked(buf))
    /\ receiving.offset = EndOf(packets, receiving.acked - Acked(buf)) + buf.notch
    /\ written = [i \in 1 .. receiving.offset |-> i]

\* Two sequences of values that begin alike and go on alike are alike: for recursive functions.
LEMMA Stepwise ==
    ASSUME NEW n \in Nat, NEW f, NEW g, f[0] = g[0], \A k \in 1 .. n : f[k - 1] = g[k - 1] => f[k] = g[k]
    PROVE  \A k \in 0 .. n : f[k] = g[k]
<1> DEFINE bad == {k \in 0 .. n : f[k] # g[k]}
<1> SUFFICES ASSUME bad # {} PROVE FALSE
  OBVIOUS
<1>1. bad \subseteq Nat
  OBVIOUS
<1>2. PICK k \in bad : \A c \in bad : k <= c
  BY <1>1, LeastOf
<1>3. k \in 1 .. n /\ k - 1 \in 0 .. n /\ ~(k <= k - 1)
  BY <1>2
<1> QED
  BY <1>2, <1>3

\* The same of a set of numbers.
LEMMA StepByStep ==
    ASSUME NEW n \in Nat, NEW T, 0 \in T, \A k \in 1 .. n : k - 1 \in T => k \in T
    PROVE  0 .. n \subseteq T
<1> DEFINE bad == {k \in 0 .. n : k \notin T}
<1> SUFFICES ASSUME bad # {} PROVE FALSE
  OBVIOUS
<1>1. bad \subseteq Nat
  OBVIOUS
<1>2. PICK k \in bad : \A c \in bad : k <= c
  BY <1>1, LeastOf
<1>3. k \in 1 .. n /\ k - 1 \in 0 .. n /\ ~(k <= k - 1)
  BY <1>2
<1> QED
  BY <1>2, <1>3

LEMMA EndIs ==
    ASSUME NEW ps, Follow(ps)
    PROVE  /\ Len(ps) \in Nat
           /\ \A k \in 0 .. Len(ps) : EndOf(ps, k) \in Nat
           /\ \A k \in 1 .. Len(ps) : /\ ps[k].first \in Nat /\ ps[k].len \in Nat /\ ps[k].len > 0
                                      /\ ps[k].first = EndOf(ps, k - 1) + 1
                                      /\ EndOf(ps, k) = EndOf(ps, k - 1) + ps[k].len
<1>1. Len(ps) \in Nat /\ \A k \in 1 .. Len(ps) : ps[k] \in SomePacket
  BY DEF Follow
<1>2. \A k \in 1 .. Len(ps) : ps[k].first \in Nat /\ ps[k].len \in Nat /\ ps[k].len > 0
  BY <1>1 DEF SomePacket
<1>3. \A k \in 0 .. Len(ps) : EndOf(ps, k) \in Nat
  BY <1>1, <1>2 DEF EndOf
<1>4. ASSUME NEW k \in 1 .. Len(ps)
      PROVE  ps[k].first = EndOf(ps, k - 1) + 1 /\ EndOf(ps, k) = EndOf(ps, k - 1) + ps[k].len
  <2>1. ps[k].first = EndOf(ps, k - 1) + 1 /\ k - 1 \in 0 .. Len(ps)
    BY <1>1 DEF Follow
  <2>2. EndOf(ps, k) = ps[k].first + ps[k].len - 1
    BY DEF EndOf
  <2> DEFINE e == EndOf(ps, k)
             e0 == EndOf(ps, k - 1)
             f == ps[k].first
             l == ps[k].len
  <2>3. e = f + l - 1 /\ f = e0 + 1 /\ e0 \in Nat /\ l \in Nat
    BY <1>2, <1>3, <2>1, <2>2
  <2> HIDE DEF e, e0, f, l
  <2>4. e = e0 + l
    BY <2>3
  <2> QED
    BY <2>1, <2>4 DEF e, e0, l
<1> QED
  BY <1>1, <1>2, <1>3, <1>4

LEMMA EndGrows ==
    ASSUME NEW ps, Follow(ps), NEW i \in 0 .. Len(ps), NEW j \in i .. Len(ps)
    PROVE  EndOf(ps, i) + (j - i) <= EndOf(ps, j)
<1> DEFINE n == Len(ps) - i
           T == {d \in 0 .. n : EndOf(ps, i) + d <= EndOf(ps, i + d)}
<1>1. Len(ps) \in Nat /\ i \in Nat /\ n \in Nat
  BY EndIs
<1>2. 0 \in T
  <2>1. EndOf(ps, i) \in Nat /\ i + 0 = i
    BY <1>1, EndIs
  <2> QED
    BY <1>1, <2>1
<1>3. ASSUME NEW d \in 1 .. n, d - 1 \in T PROVE d \in T
  <2>1. i + d \in 1 .. Len(ps) /\ i + (d - 1) = i + d - 1 /\ i + d - 1 \in 0 .. Len(ps) /\ i + d \in 0 .. Len(ps)
    BY <1>1
  <2>2. /\ EndOf(ps, i + d) = EndOf(ps, i + d - 1) + ps[i + d].len /\ ps[i + d].len \in Nat /\ ps[i + d].len > 0
        /\ EndOf(ps, i + d - 1) \in Nat /\ EndOf(ps, i) \in Nat
    <3> DEFINE c == i + d
               b == i + d - 1
    <3>1. c \in 1 .. Len(ps) /\ b = c - 1 /\ b \in 0 .. Len(ps)
      BY <1>1, <2>1
    <3> HIDE DEF c, b
    <3>2. EndOf(ps, c) = EndOf(ps, b) + ps[c].len /\ ps[c].len \in Nat /\ ps[c].len > 0
      BY <3>1, EndIs
    <3>3. EndOf(ps, b) \in Nat /\ EndOf(ps, i) \in Nat
      BY <3>1, EndIs
    <3> QED
      BY <3>2, <3>3 DEF b, c
  <2>3. EndOf(ps, i) + (d - 1) <= EndOf(ps, i + d - 1)
    BY <1>3, <2>1
  <2> QED
    BY <2>2, <2>3
<1>4. 0 .. n \subseteq T
  <2> HIDE DEF T, n
  <2> QED
    BY <1>1, <1>2, <1>3, StepByStep
<1>5. j - i \in 0 .. n /\ i + (j - i) = j
  BY <1>1
<1> QED
  BY <1>4, <1>5

\* A packet's bytes are those up to where it ends and after where the one before it ends.
LEMMA PacketOf ==
    ASSUME NEW ps, Follow(ps), NEW i \in 1 .. Len(ps), NEW j \in 1 .. Len(ps),
           NEW x \in Nat, ps[i].first <= x, x <= EndOf(ps, i), ps[j].first <= x, x <= EndOf(ps, j)
    PROVE  i = j
<1>1. /\ Len(ps) \in Nat /\ i - 1 \in 0 .. Len(ps) /\ j - 1 \in 0 .. Len(ps)
      /\ i \in 0 .. Len(ps) /\ j \in 0 .. Len(ps)
  BY EndIs
<1>2. /\ ps[i].first = EndOf(ps, i - 1) + 1 /\ ps[j].first = EndOf(ps, j - 1) + 1
      /\ EndOf(ps, i) \in Nat /\ EndOf(ps, j) \in Nat /\ EndOf(ps, i - 1) \in Nat /\ EndOf(ps, j - 1) \in Nat
  BY <1>1, EndIs
<1>3. CASE i < j
  <2>1. j - 1 \in i .. Len(ps)
    BY <1>1, <1>3
  <2>2. EndOf(ps, i) + (j - 1 - i) <= EndOf(ps, j - 1)
    BY <1>1, <2>1, EndGrows
  <2> QED
    BY <1>1, <1>2, <1>3, <2>1, <2>2
<1>4. CASE j < i
  <2>1. i - 1 \in j .. Len(ps)
    BY <1>1, <1>4
  <2>2. EndOf(ps, j) + (i - 1 - j) <= EndOf(ps, i - 1)
    BY <1>1, <2>1, EndGrows
  <2> QED
    BY <1>1, <1>2, <1>4, <2>1, <2>2
<1> QED
  BY <1>1, <1>3, <1>4

LEMMA IsASeq == ASSUME NEW T, NEW n \in Nat, NEW q \in [1 .. n -> T] PROVE q \in Seq(T) /\ Len(q) = n
  OBVIOUS

\* What goes on where the first part ends is the whole.
LEMMA GoesOn ==
    ASSUME NEW T, NEW p \in Seq(T), NEW q \in Seq(T), NEW r \in Seq(T), Len(r) = Len(p) + Len(q),
           \A i \in 1 .. Len(p) : r[i] = p[i], \A i \in 1 .. Len(q) : r[Len(p) + i] = q[i]
    PROVE  p \o q = r
<1> DEFINE w == p \o q
<1>1. Len(p) \in Nat /\ Len(q) \in Nat
  OBVIOUS
<1>2. w \in Seq(T) /\ Len(w) = Len(p) + Len(q)
  OBVIOUS
<1>3. ASSUME NEW i \in 1 .. Len(p) + Len(q) PROVE w[i] = r[i]
  <2>1. CASE i \in 1 .. Len(p)
    BY <1>1, <2>1
  <2>2. CASE i \notin 1 .. Len(p)
    <3>1. i \in Len(p) + 1 .. Len(p) + Len(q) /\ i - Len(p) \in 1 .. Len(q) /\ Len(p) + (i - Len(p)) = i
      BY <1>1, <2>2
    <3>2. w[i] = q[i - Len(p)]
      BY <3>1
    <3>3. r[Len(p) + (i - Len(p))] = q[i - Len(p)]
      BY <3>1
    <3> QED
      BY <3>1, <3>2, <3>3
  <2> QED
    BY <2>1, <2>2
<1> HIDE DEF w
<1>4. w = [i \in 1 .. Len(w) |-> w[i]] /\ r = [i \in 1 .. Len(r) |-> r[i]]
  BY <1>2
<1>5. w = r
  BY <1>2, <1>3, <1>4
<1> QED
  BY <1>5 DEF w

\* The bytes of the first packets are the first bytes of the file.
LEMMA BytesOfIs ==
    ASSUME Follow(packets), NEW n \in 0 .. Len(packets)
    PROVE  File!BytesOf(n) = [i \in 1 .. EndOf(packets, n) |-> i]
<1> DEFINE More(k) == [i \in 1 .. packets[k].len |-> packets[k].first + i - 1]
           First(k) == [i \in 1 .. EndOf(packets, k) |-> i]
           G == [k \in 0 .. n |-> First(k)]
           Rec(f) == f = [k \in 0 .. n |-> IF k = 0 THEN <<>> ELSE f[k - 1] \o More(k)]
           bytes == CHOOSE f : Rec(f)
<1>1. Len(packets) \in Nat /\ n \in Nat /\ \A k \in 1 .. n : k \in 1 .. Len(packets) /\ k - 1 \in 0 .. n /\ k - 1 \in 0 .. Len(packets)
  BY EndIs
<1>2. ASSUME NEW k \in 1 .. n PROVE First(k - 1) \o More(k) = First(k)
  <2>1. /\ EndOf(packets, k - 1) \in Nat /\ packets[k].len \in Nat /\ packets[k].first = EndOf(packets, k - 1) + 1
        /\ EndOf(packets, k) = EndOf(packets, k - 1) + packets[k].len
    BY <1>1, EndIs
  <2>2. First(k - 1) \in Seq(Nat) /\ Len(First(k - 1)) = EndOf(packets, k - 1) /\ \A i \in 1 .. EndOf(packets, k - 1) : First(k - 1)[i] = i
    BY <2>1
  <2>3. First(k) \in Seq(Nat) /\ Len(First(k)) = EndOf(packets, k) /\ \A i \in 1 .. EndOf(packets, k) : First(k)[i] = i
    BY <2>1
  <2>4. More(k) \in Seq(Nat) /\ Len(More(k)) = packets[k].len
        /\ \A i \in 1 .. packets[k].len : More(k)[i] = EndOf(packets, k - 1) + i
    <3>1. \A i \in 1 .. packets[k].len : More(k)[i] = EndOf(packets, k - 1) + i /\ EndOf(packets, k - 1) + i \in Nat
      BY <2>1
    <3>2. More(k) \in [1 .. packets[k].len -> Nat]
      BY <3>1
    <3> HIDE DEF More
    <3>3. More(k) \in Seq(Nat) /\ Len(More(k)) = packets[k].len
      BY <2>1, <3>2, IsASeq
    <3> QED
      BY <3>1, <3>3
  <2> HIDE DEF First, More
  <2>5. \A i \in 1 .. packets[k].len : EndOf(packets, k - 1) + i \in 1 .. EndOf(packets, k)
    BY <2>1
  <2>6. \A i \in 1 .. EndOf(packets, k - 1) : i \in 1 .. EndOf(packets, k)
    BY <2>1
  <2>7. \A i \in 1 .. Len(First(k - 1)) : First(k)[i] = First(k - 1)[i]
    BY <2>2, <2>3, <2>6
  <2>8. \A i \in 1 .. Len(More(k)) : First(k)[Len(First(k - 1)) + i] = More(k)[i]
    BY <2>2, <2>3, <2>4, <2>5
  <2>9. Len(First(k)) = Len(First(k - 1)) + Len(More(k))
    BY <2>1, <2>2, <2>3, <2>4
  <2> QED
    BY <2>2, <2>3, <2>4, <2>7, <2>8, <2>9, GoesOn
<1>3. First(0) = <<>>
  <2>1. EndOf(packets, 0) = 0
    BY DEF EndOf
  <2> QED
    BY <2>1
<1> HIDE DEF First, More
<1>4. Rec(G)
  <2>1. ASSUME NEW k \in 0 .. n PROVE G[k] = IF k = 0 THEN <<>> ELSE G[k - 1] \o More(k)
    <3>1. CASE k = 0
      BY <1>3, <3>1
    <3>2. CASE k # 0
      <4>1. k \in 1 .. n /\ k - 1 \in 0 .. n
        BY <1>1, <3>2
      <4>2. G[k] = First(k) /\ G[k - 1] = First(k - 1)
        BY <4>1
      <4>3. First(k) = First(k - 1) \o More(k)
        BY <1>2, <4>1
      <4> HIDE DEF G
      <4> QED
        BY <3>2, <4>2, <4>3
    <3> QED
      BY <3>1, <3>2
  <2>2. G = [k \in 0 .. n |-> G[k]]
    OBVIOUS
  <2> DEFINE H(k) == IF k = 0 THEN <<>> ELSE G[k - 1] \o More(k)
  <2>3. \A k \in 0 .. n : G[k] = H(k)
    BY <2>1
  <2> HIDE DEF G, H
  <2>4. G = [k \in 0 .. n |-> H(k)]
    BY <2>2, <2>3
  <2> QED
    BY <2>4, Zenon DEF H
<1>5. Rec(bytes)
  <2> HIDE DEF Rec, G
  <2> QED
    BY <1>4
<1>6. File!BytesOf(n) = bytes[n]
  BY DEF File!BytesOf, More
<1> HIDE DEF bytes
<1>7. bytes[0] = G[0]
  BY <1>1, <1>3, <1>5
<1>8. ASSUME NEW k \in 1 .. n, bytes[k - 1] = G[k - 1] PROVE bytes[k] = G[k]
  <2>1. bytes[k] = bytes[k - 1] \o More(k)
    <3>1. k \in 0 .. n /\ k # 0
      OBVIOUS
    <3> QED
      BY <1>5, <3>1
  <2>2. G[k] = G[k - 1] \o More(k)
    BY <1>1, <1>2
  <2> QED
    BY <1>8, <2>1, <2>2
<1>9. bytes[n] = G[n]
  <2> HIDE DEF G, Rec
  <2>1. n \in Nat /\ n \in 0 .. n
    BY <1>1
  <2> DEFINE T == {k \in 0 .. n : bytes[k] = G[k]}
  <2>2. 0 \in T
    BY <1>7, <2>1
  <2>3. \A k \in 1 .. n : k - 1 \in T => k \in T
    BY <1>8, <2>1
  <2>4. 0 .. n \subseteq T
    <3> HIDE DEF T
    <3> QED
      BY <2>1, <2>2, <2>3, StepByStep
  <2> QED
    BY <2>1, <2>4
<1> QED
  BY <1>1, <1>6, <1>9 DEF First

-----------------------------------------------------------------------------
(* Files: the ring *)

LEMMA FileSize == N \in Nat \ {0} /\ N \in Nat /\ N > 1
  BY FileAssumption DEF N

LEMMA RingIs ==
    /\ \A k \in 0 .. 2 * N - 1 : File!Ring(k) = Slot(N, k) /\ Slot(N, k) \in 0 .. N - 1
    /\ \A s, i \in 0 .. N - 1 : File!Ring(i - s) = AgeOf(N, s, i) /\ AgeOf(N, s, i) \in 0 .. N - 1
<1>1. \A k : File!Ring(k) = k % N
  BY DEF File!Ring, N
<1> QED
  BY <1>1, SlotIs, AgeIs, FileSize

LEMMA InTwice == \A a \in 0 .. N - 1, b \in 0 .. N : a + b \in 0 .. 2 * N - 1
  BY FileSize

\* a places on, and b more.
LEMMA PlaceTwice ==
    ASSUME NEW s \in 0 .. N - 1, NEW a \in 0 .. N, NEW b \in 0 .. N, a + b <= N
    PROVE  Slot(N, s + a) \in 0 .. N - 1 /\ Slot(N, Slot(N, s + a) + b) = Slot(N, s + (a + b))
  BY FileSize DEF Slot

LEMMA ThereAndBack == \A s, d \in 0 .. N - 1 : AgeOf(N, s, Slot(N, s + d)) = d
  BY SlotPlus, FileSize

LEMMA UnitFacts ==
    ASSUME NEW B, RingShape(B)
    PROVE  /\ File!getRcvDataSize(B) = Acked(B) /\ Acked(B) \in 0 .. N - 1
           /\ B.ackPos = Slot(N, B.start + Acked(B))
           /\ \A d \in 0 .. N - 1 : /\ Slot(N, B.start + d) \in 0 .. N - 1
                                    /\ File!Ring(B.start + d) = Slot(N, B.start + d)
                                    /\ AgeOf(N, B.start, Slot(N, B.start + d)) = d
           /\ \A i \in 0 .. N - 1 : /\ File!Ring(i - B.start) = AgeOf(N, B.start, i) /\ AgeOf(N, B.start, i) \in 0 .. N - 1
                                    /\ Slot(N, B.start + AgeOf(N, B.start, i)) = i
<1>1. B.start \in 0 .. N - 1 /\ B.ackPos \in 0 .. N - 1
  BY DEF RingShape
<1>2. File!getRcvDataSize(B) = Acked(B) /\ Acked(B) \in 0 .. N - 1
  BY <1>1, RingIs DEF File!getRcvDataSize, Acked
<1>3. B.ackPos = Slot(N, B.start + Acked(B))
  BY <1>1, AgeIs, FileSize DEF Acked
<1>4. ASSUME NEW d \in 0 .. N - 1
      PROVE  /\ Slot(N, B.start + d) \in 0 .. N - 1 /\ File!Ring(B.start + d) = Slot(N, B.start + d)
             /\ AgeOf(N, B.start, Slot(N, B.start + d)) = d
  <2>1. B.start + d \in 0 .. 2 * N - 1
    BY <1>1, FileSize
  <2> QED
    BY <1>1, <2>1, RingIs, SlotPlus, FileSize
<1>5. ASSUME NEW i \in 0 .. N - 1
      PROVE  /\ File!Ring(i - B.start) = AgeOf(N, B.start, i) /\ AgeOf(N, B.start, i) \in 0 .. N - 1
             /\ Slot(N, B.start + AgeOf(N, B.start, i)) = i
  BY <1>1, RingIs, AgeIs, FileSize
<1> QED
  BY <1>2, <1>3, <1>4, <1>5

\* A packet comes to its place.
LEMMA RingAdds ==
    ASSUME NEW B, NEW ps, NEW base, RingHolds(B, ps, base), NEW k \in 1 .. Len(ps),
           NEW off, off = k - 1 - (base + Acked(B)), off >= 0, off < File!getAvailBufSize(B),
           NEW C, C = File!addData(B, ps[k], off).buf, File!addData(B, ps[k], off).res = 0
    PROVE  RingHolds(C, ps, base) /\ Acked(C) = Acked(B) /\ C.notch = B.notch
<1> DEFINE d0 == Acked(B) + off
           p0 == Slot(N, B.start + d0)
           u0 == [pkt |-> ps[k], flag |-> 1]
<1>1. RingShape(B) /\ base \in Nat
  BY DEF RingHolds
<1>2. Acked(B) \in 0 .. N - 1 /\ off \in Nat /\ d0 \in 0 .. N - 2 /\ d0 \in 0 .. N - 1 /\ off \in 0 .. N /\ Acked(B) \in 0 .. N
  <2>1. Acked(B) \in 0 .. N - 1 /\ File!getAvailBufSize(B) = N - Acked(B) - 1
    BY <1>1, UnitFacts DEF File!getAvailBufSize, N
  <2>2. off \in Int
    BY <1>1, <2>1, FileSize
  <2> QED
    BY <2>1, <2>2, FileSize
<1>3. base + d0 + 1 = k
  <2>1. base \in Int /\ Acked(B) \in Int /\ k \in Int
    BY <1>1, <1>2
  <2> QED
    BY <2>1
<1>4. File!Ring(B.ackPos + off) = p0 /\ p0 \in 0 .. N - 1
  <2>1. B.ackPos = Slot(N, B.start + Acked(B)) /\ B.start \in 0 .. N - 1 /\ B.ackPos \in 0 .. N - 1
    BY <1>1, UnitFacts DEF RingShape
  <2>2. B.ackPos + off \in 0 .. 2 * N - 1
    BY <1>2, <2>1, InTwice
  <2>3. Slot(N, B.ackPos + off) = Slot(N, B.start + (Acked(B) + off))
    <3> DEFINE a == Acked(B)
               b == off
    <3>1. a \in 0 .. N /\ b \in 0 .. N /\ a + b <= N
      BY <1>2, FileSize
    <3> HIDE DEF a, b
    <3>2. Slot(N, Slot(N, B.start + a) + b) = Slot(N, B.start + (a + b))
      BY <2>1, <3>1, PlaceTwice
    <3> QED
      BY <2>1, <3>2 DEF a, b
  <2>4. p0 \in 0 .. N - 1
    BY <1>1, <1>2, UnitFacts
  <2> QED
    BY <2>2, <2>3, <2>4, RingIs
<1> HIDE DEF d0, p0, u0
<1>5. /\ DOMAIN C = {"unit", "start", "ackPos", "maxPos", "notch"}
      /\ C.unit = [B.unit EXCEPT ![p0] = u0] /\ C.start = B.start /\ C.ackPos = B.ackPos /\ C.notch = B.notch
      /\ C.maxPos = IF off > B.maxPos THEN off ELSE B.maxPos
  <2>1. DOMAIN B = {"unit", "start", "ackPos", "maxPos", "notch"}
    BY <1>1 DEF RingShape
  <2>2. ~File!Held(B, p0)
    BY <1>4, <2>1 DEF File!addData
  <2>3. ~File!Held(B, p0) => C = [[B EXCEPT !.maxPos = IF off > @ THEN off ELSE @] EXCEPT !.unit[p0] = u0]
    BY <1>4 DEF File!addData, u0
  <2> QED
    BY <2>1, <2>2, <2>3
<1>6. RingShape(C) /\ Acked(C) = Acked(B)
  <2>1. /\ B.maxPos \in Int /\ B.start \in 0 .. N - 1 /\ B.ackPos \in 0 .. N - 1 /\ B.notch \in Nat
        /\ DOMAIN B.unit = 0 .. N - 1
    BY <1>1 DEF RingShape
  <2>2. C.maxPos \in Int
    BY <1>2, <1>5, <2>1
  <2>3. DOMAIN C.unit = 0 .. N - 1 /\ C.unit = [i \in 0 .. N - 1 |-> C.unit[i]]
    BY <1>5, <2>1
  <2> QED
    BY <1>5, <2>1, <2>2, <2>3 DEF RingShape, Acked
<1>7. \A d \in 0 .. N - 1 : UnitAt(C, d) = IF d = d0 THEN u0 ELSE UnitAt(B, d)
  <2> TAKE d \in 0 .. N - 1
  <2>1. Slot(N, B.start + d) \in 0 .. N - 1 /\ AgeOf(N, B.start, Slot(N, B.start + d)) = d
    BY <1>1, UnitFacts
  <2>2. AgeOf(N, B.start, p0) = d0
    BY <1>1, <1>2, UnitFacts DEF p0
  <2>3. DOMAIN B.unit = 0 .. N - 1
    BY <1>1 DEF RingShape
  <2>4. CASE d = d0
    BY <1>5, <2>1, <2>3, <2>4 DEF UnitAt, p0
  <2>5. CASE d # d0
    BY <1>5, <2>1, <2>2, <2>3, <2>5 DEF UnitAt
  <2> QED
    BY <2>4, <2>5
<1>8. u0 # File!NoUnit /\ u0.pkt = ps[k]
  BY DEF u0, File!NoUnit
<1>9. \A d \in 0 .. N - 1 : UnitAt(C, d) # File!NoUnit =>
          d < N - 1 /\ base + d + 1 <= Len(ps) /\ UnitAt(C, d).pkt = ps[base + d + 1]
  <2> SUFFICES ASSUME NEW d \in 0 .. N - 1, UnitAt(C, d) # File!NoUnit
               PROVE  d < N - 1 /\ base + d + 1 <= Len(ps) /\ UnitAt(C, d).pkt = ps[base + d + 1]
    OBVIOUS
  <2>1. CASE d = d0
    BY <1>2, <1>3, <1>7, <1>8, <2>1, FileSize
  <2>2. CASE d # d0
    BY <1>7, <2>2 DEF RingHolds
  <2> QED
    BY <2>1, <2>2
<1>10. \A d \in 0 .. N - 1 : d < Acked(C) => UnitAt(C, d) # File!NoUnit
  BY <1>6, <1>7, <1>8 DEF RingHolds
<1> QED
  BY <1>5, <1>6, <1>9, <1>10 DEF RingHolds

\* What has no hole before it is acknowledged: never the whole ring.
LEMMA RingAcks ==
    ASSUME NEW B, NEW ps, Follow(ps), NEW base, RingHolds(B, ps, base), NEW n \in 0 .. N,
           \A i \in 0 .. n - 1 : File!Held(B, File!Ring(B.ackPos + i)),
           NEW C, C = File!rcvAckData(B, n)
    PROVE  RingHolds(C, ps, base) /\ Acked(C) = Acked(B) + n /\ C.notch = B.notch
<1>1. RingShape(B) /\ base \in Nat /\ Acked(B) \in 0 .. N - 1
  BY UnitFacts DEF RingHolds
<1>2. B.ackPos = Slot(N, B.start + Acked(B)) /\ B.start \in 0 .. N - 1 /\ B.ackPos \in 0 .. N - 1
  BY <1>1, UnitFacts DEF RingShape
<1>3. \A i \in 0 .. N : Acked(B) + i <= N => File!Ring(B.ackPos + i) = Slot(N, B.start + (Acked(B) + i))
  <2> SUFFICES ASSUME NEW i \in 0 .. N, Acked(B) + i <= N
               PROVE  File!Ring(B.ackPos + i) = Slot(N, B.start + (Acked(B) + i))
    OBVIOUS
  <2>1. B.ackPos + i \in 0 .. 2 * N - 1 /\ Acked(B) \in 0 .. N
    BY <1>1, <1>2, FileSize
  <2>2. Slot(N, B.ackPos + i) = Slot(N, B.start + (Acked(B) + i))
    BY <1>1, <1>2, <2>1, PlaceTwice, FileSize
  <2> QED
    BY <2>1, <2>2, RingIs
<1>4. \A i \in 0 .. n - 1 : Acked(B) + i <= N - 1 => UnitAt(B, Acked(B) + i) # File!NoUnit
  <2> SUFFICES ASSUME NEW i \in 0 .. n - 1, Acked(B) + i <= N - 1 PROVE UnitAt(B, Acked(B) + i) # File!NoUnit
    OBVIOUS
  <2>1. i \in 0 .. N /\ Acked(B) + i <= N
    BY <1>1, FileSize
  <2>2. File!Held(B, Slot(N, B.start + (Acked(B) + i)))
    BY <1>3, <2>1
  <2> QED
    BY <2>2 DEF File!Held, UnitAt
<1>5. Acked(B) + n <= N - 1
  <2> SUFFICES ASSUME ~(Acked(B) + n <= N - 1) PROVE FALSE
    OBVIOUS
  <2> DEFINE i == N - 1 - Acked(B)
  <2>1. i \in 0 .. n - 1 /\ Acked(B) + i = N - 1 /\ N - 1 \in 0 .. N - 1 /\ Acked(B) + i <= N - 1
    BY <1>1, FileSize
  <2>2. UnitAt(B, N - 1) # File!NoUnit
    BY <1>4, <2>1
  <2>3. N - 1 < N - 1
    BY <2>1, <2>2 DEF RingHolds
  <2> QED
    BY <2>3, FileSize
<1>6. DOMAIN B = {"unit", "start", "ackPos", "maxPos", "notch"} /\ B.maxPos \in Int /\ B.notch \in Nat
  BY <1>1 DEF RingShape
<1>7. /\ DOMAIN C = {"unit", "start", "ackPos", "maxPos", "notch"} /\ C.unit = B.unit /\ C.start = B.start /\ C.notch = B.notch
      /\ C.ackPos = File!Ring(B.ackPos + n) /\ C.maxPos = IF B.maxPos < n THEN 0 ELSE B.maxPos - n
  BY <1>6 DEF File!rcvAckData
<1>8. C.ackPos = Slot(N, B.start + (Acked(B) + n)) /\ Acked(B) + n \in 0 .. N - 1
  <2>1. Acked(B) + n <= N /\ Acked(B) + n \in 0 .. N - 1
    BY <1>1, <1>5, FileSize
  <2> QED
    BY <1>3, <1>7, <2>1
<1>9. Acked(C) = Acked(B) + n /\ C.ackPos \in 0 .. N - 1
  BY <1>1, <1>7, <1>8, UnitFacts DEF Acked
<1>10. RingShape(C)
  <2>1. C.maxPos \in Int
    BY <1>6, <1>7
  <2> QED
    BY <1>1, <1>7, <1>9, <2>1 DEF RingShape
<1>11. \A d : UnitAt(C, d) = UnitAt(B, d)
  BY <1>7 DEF UnitAt
<1>12. ASSUME NEW d \in 0 .. N - 1, d < Acked(C) PROVE UnitAt(C, d) # File!NoUnit
  <2>1. CASE d < Acked(B)
    BY <1>11, <2>1 DEF RingHolds
  <2>2. CASE ~(d < Acked(B))
    <3>1. d - Acked(B) \in 0 .. n - 1 /\ Acked(B) + (d - Acked(B)) = d /\ d <= N - 1
      BY <1>1, <1>9, <1>12, <2>2, FileSize
    <3> QED
      BY <1>4, <1>11, <3>1
  <2> QED
    BY <2>1, <2>2
<1>13. base + Acked(C) <= Len(ps)
  <2>1. CASE n = 0
    BY <1>1, <1>9, <2>1 DEF RingHolds
  <2>2. CASE n # 0
    <3>1. Acked(C) - 1 \in 0 .. N - 1 /\ Acked(C) - 1 < Acked(C) /\ base + (Acked(C) - 1) + 1 = base + Acked(C)
      BY <1>1, <1>8, <1>9, <2>2, FileSize
    <3>2. UnitAt(B, Acked(C) - 1) # File!NoUnit
      BY <1>11, <1>12, <3>1
    <3> QED
      BY <3>1, <3>2 DEF RingHolds
  <2> QED
    BY <2>1, <2>2
<1>14. IF Acked(C) = 0 THEN C.notch = 0 ELSE C.notch < ps[base + 1].len
  <2>1. CASE Acked(B) # 0
    <3>1. Acked(C) # 0
      BY <1>1, <1>9, <2>1, FileSize
    <3> QED
      BY <1>7, <2>1, <3>1 DEF RingHolds
  <2>2. CASE Acked(B) = 0
    <3>1. C.notch = 0
      BY <1>7, <2>2 DEF RingHolds
    <3>2. Acked(C) # 0 => ps[base + 1].len > 0
      <4> SUFFICES ASSUME Acked(C) # 0 PROVE ps[base + 1].len > 0
        OBVIOUS
      <4>1. base + 1 \in 1 .. Len(ps)
        BY <1>1, <1>8, <1>9, <1>13, EndIs, FileSize
      <4> QED
        BY <4>1, EndIs
    <3> QED
      BY <3>1, <3>2
  <2> QED
    BY <2>1, <2>2
<1>15. \A d \in 0 .. N - 1 : UnitAt(C, d) # File!NoUnit =>
          d < N - 1 /\ base + d + 1 <= Len(ps) /\ UnitAt(C, d).pkt = ps[base + d + 1]
  BY <1>11 DEF RingHolds
<1> QED
  BY <1>1, <1>7, <1>9, <1>10, <1>12, <1>13, <1>14, <1>15 DEF RingHolds

-----------------------------------------------------------------------------
(* Files: reading out of the ring *)

\* The bytes that n packets still have, and the byte of the file after which reading goes on.
Sum(B, ps, base, n) == IF n = 0 THEN 0 ELSE EndOf(ps, base + n) - EndOf(ps, base) - B.notch
ReadTo(B, ps, base) == EndOf(ps, base) + B.notch

\* Byte x of the file as a packet and a position in it.
Byte(ps, x) ==
    LET k == CHOOSE j \in 1 .. Len(ps) : ps[j].first <= x /\ x <= EndOf(ps, j)
    IN  <<ps[k], x - ps[k].first + 1>>

LEMMA ByteIs ==
    ASSUME NEW ps, Follow(ps), NEW k \in 1 .. Len(ps), NEW i \in 1 .. ps[k].len
    PROVE  /\ Byte(ps, EndOf(ps, k - 1) + i) = <<ps[k], i>>
           /\ EndOf(ps, k - 1) + i \in Nat
           /\ ps[k].first + i - 1 = EndOf(ps, k - 1) + i
<1> DEFINE x == EndOf(ps, k - 1) + i
           j == CHOOSE c \in 1 .. Len(ps) : ps[c].first <= x /\ x <= EndOf(ps, c)
<1>1. Len(ps) \in Nat /\ k - 1 \in 0 .. Len(ps)
  BY EndIs
<1>2. /\ ps[k].first = EndOf(ps, k - 1) + 1 /\ EndOf(ps, k - 1) \in Nat
      /\ EndOf(ps, k) = EndOf(ps, k - 1) + ps[k].len /\ ps[k].len \in Nat
  BY <1>1, EndIs
<1>3. x \in Nat /\ ps[k].first <= x /\ x <= EndOf(ps, k) /\ x - ps[k].first + 1 = i /\ ps[k].first + i - 1 = x
  <2> DEFINE e == EndOf(ps, k - 1)
             l == ps[k].len
             b == ps[k].first
  <2>1. b = e + 1 /\ e \in Nat /\ EndOf(ps, k) = e + l /\ l \in Nat /\ i \in 1 .. l
    BY <1>2
  <2> HIDE DEF e, l, b
  <2>2. e + i \in Nat /\ b <= e + i /\ e + i <= EndOf(ps, k) /\ (e + i) - b + 1 = i /\ b + i - 1 = e + i
    BY <2>1
  <2> QED
    BY <2>2 DEF e, b
<1> HIDE DEF x
<1>4. j \in 1 .. Len(ps) /\ ps[j].first <= x /\ x <= EndOf(ps, j)
  BY <1>3
<1> HIDE DEF j
<1>5. j = k
  BY <1>3, <1>4, PacketOf
<1>6. Byte(ps, x) = <<ps[j], x - ps[j].first + 1>>
  BY DEF Byte, j
<1> QED
  BY <1>3, <1>5, <1>6 DEF x

LEMMA LeftIs ==
    ASSUME NEW B, NEW ps, Follow(ps), NEW base, RingHolds(B, ps, base), NEW k \in 0 .. Acked(B) - 1
    PROVE  /\ base + k + 1 \in 1 .. Len(ps)
           /\ B.unit[File!Ring(B.start + k)].pkt = ps[base + k + 1]
           /\ File!Skip(B, k) \in Nat
           /\ File!Left(B, k) = ps[base + k + 1].len - File!Skip(B, k)
           /\ File!Left(B, k) \in Nat /\ File!Left(B, k) > 0
           /\ Sum(B, ps, base, k) \in Nat /\ Sum(B, ps, base, k + 1) = Sum(B, ps, base, k) + File!Left(B, k)
           /\ ReadTo(B, ps, base) + Sum(B, ps, base, k) = EndOf(ps, base + k) + File!Skip(B, k)
<1>1. RingShape(B) /\ base \in Nat /\ Acked(B) \in 0 .. N - 1 /\ base + Acked(B) <= Len(ps) /\ Len(ps) \in Nat /\ B.notch \in Nat
  BY UnitFacts, EndIs DEF RingHolds, RingShape
<1>2. base + k + 1 \in 1 .. Len(ps) /\ base + k \in 0 .. Len(ps) /\ base + 1 \in 1 .. Len(ps) /\ base \in 0 .. Len(ps)
      /\ k \in 0 .. N - 1 /\ k < Acked(B) /\ Acked(B) # 0 /\ base + k + 1 - 1 = base + k /\ base + (k + 1) = base + k + 1
      /\ base + 1 - 1 = base /\ k \in Nat /\ base + 0 = base
  BY <1>1, FileSize
<1>3. B.unit[File!Ring(B.start + k)] = UnitAt(B, k) /\ UnitAt(B, k).pkt = ps[base + k + 1]
  BY <1>1, <1>2, UnitFacts DEF UnitAt, RingHolds
<1>4. B.notch < ps[base + 1].len
  BY <1>2 DEF RingHolds
<1>5. /\ ps[base + k + 1].len \in Nat /\ ps[base + k + 1].len > 0 /\ EndOf(ps, base + k) \in Nat /\ EndOf(ps, base) \in Nat
      /\ EndOf(ps, base + k + 1) = EndOf(ps, base + k) + ps[base + k + 1].len
  BY <1>2, EndIs
<1>6. File!Skip(B, k) = IF k = 0 THEN B.notch ELSE 0
  BY DEF File!Skip
<1>7. File!Left(B, k) = ps[base + k + 1].len - File!Skip(B, k)
  BY <1>3 DEF File!Left
<1>8. k # 0 => EndOf(ps, base) + k <= EndOf(ps, base + k) /\ EndOf(ps, base) + B.notch < EndOf(ps, base + k)
  <2> SUFFICES ASSUME k # 0 PROVE EndOf(ps, base) + B.notch < EndOf(ps, base + k) /\ EndOf(ps, base) + k <= EndOf(ps, base + k)
    OBVIOUS
  <2>1. base + k \in base + 1 .. Len(ps) /\ base + 1 \in 0 .. Len(ps) /\ base + k \in base .. Len(ps)
    BY <1>1, <1>2
  <2>2. EndOf(ps, base + 1) + (base + k - (base + 1)) <= EndOf(ps, base + k) /\ EndOf(ps, base) + (base + k - base) <= EndOf(ps, base + k)
    BY <1>2, <2>1, EndGrows
  <2>3. EndOf(ps, base + 1) = EndOf(ps, base) + ps[base + 1].len /\ ps[base + 1].len \in Nat
    BY <1>2, EndIs
  <2> DEFINE e == EndOf(ps, base)
             e1 == EndOf(ps, base + 1)
             ek == EndOf(ps, base + k)
             l == ps[base + 1].len
  <2>4. /\ e \in Nat /\ ek \in Nat /\ l \in Nat /\ e1 = e + l /\ k \in Nat /\ k > 0 /\ B.notch \in Nat /\ B.notch < l /\ base \in Nat
        /\ e1 + (base + k - (base + 1)) <= ek /\ e + (base + k - base) <= ek
    BY <1>1, <1>2, <1>4, <1>5, <2>2, <2>3
  <2> HIDE DEF e, e1, ek, l
  <2>5. e + B.notch < ek /\ e + k <= ek
    BY <2>4
  <2> QED
    BY <2>5 DEF e, ek
<1>9. Sum(B, ps, base, k) = (IF k = 0 THEN 0 ELSE EndOf(ps, base + k) - EndOf(ps, base) - B.notch)
      /\ Sum(B, ps, base, k + 1) = EndOf(ps, base + k + 1) - EndOf(ps, base) - B.notch
  BY <1>2 DEF Sum
<1>10. CASE k = 0
  BY <1>1, <1>2, <1>3, <1>4, <1>5, <1>6, <1>7, <1>9, <1>10 DEF ReadTo
<1>11. CASE k # 0
  <2> DEFINE e == EndOf(ps, base)
             ek == EndOf(ps, base + k)
             en == EndOf(ps, base + k + 1)
             l == ps[base + k + 1].len
  <2>1. /\ e \in Nat /\ ek \in Nat /\ l \in Nat /\ l > 0 /\ en = ek + l /\ B.notch \in Nat /\ e + B.notch < ek
        /\ Sum(B, ps, base, k) = ek - e - B.notch /\ Sum(B, ps, base, k + 1) = en - e - B.notch
        /\ File!Skip(B, k) = 0 /\ File!Left(B, k) = l /\ ReadTo(B, ps, base) = e + B.notch
    BY <1>1, <1>5, <1>6, <1>7, <1>8, <1>9, <1>11 DEF ReadTo
  <2> HIDE DEF e, ek, en, l
  <2>2. /\ Sum(B, ps, base, k) \in Nat /\ Sum(B, ps, base, k + 1) = Sum(B, ps, base, k) + File!Left(B, k)
        /\ ReadTo(B, ps, base) + Sum(B, ps, base, k) = ek + File!Skip(B, k)
    BY <2>1
  <2>3. File!Skip(B, k) \in Nat /\ File!Left(B, k) \in Nat /\ File!Left(B, k) > 0 /\ Sum(B, ps, base, k) \in Nat
    BY <2>1
  <2>4. ReadTo(B, ps, base) + Sum(B, ps, base, k) = EndOf(ps, base + k) + File!Skip(B, k)
    BY <2>2 DEF ek
  <2> QED
    BY <1>2, <1>3, <1>7, <2>2, <2>3, <2>4
<1> QED
  BY <1>10, <1>11

LEMMA SumIs ==
    ASSUME NEW B, NEW ps, Follow(ps), NEW base, RingHolds(B, ps, base), NEW n \in 0 .. Acked(B)
    PROVE  File!FirstPackets(B, n) = Sum(B, ps, base, n) /\ Sum(B, ps, base, n) \in Nat
<1> DEFINE G == [k \in 0 .. n |-> Sum(B, ps, base, k)]
           Rec(f) == f = [k \in 0 .. n |-> IF k = 0 THEN 0 ELSE f[k - 1] + File!Left(B, k - 1)]
           sum == CHOOSE f : Rec(f)
<1>1. n \in Nat /\ Acked(B) \in Nat /\ \A k \in 1 .. n : k - 1 \in 0 .. Acked(B) - 1 /\ k - 1 \in 0 .. n /\ k - 1 + 1 = k
  <2>1. Acked(B) \in 0 .. N - 1
    BY UnitFacts DEF RingHolds
  <2> QED
    BY <2>1, FileSize
<1>2. Sum(B, ps, base, 0) = 0
  BY DEF Sum
<1>3. \A k \in 1 .. n : Sum(B, ps, base, k) = Sum(B, ps, base, k - 1) + File!Left(B, k - 1) /\ Sum(B, ps, base, k) \in Nat
  <2> TAKE k \in 1 .. n
  <2>1. k - 1 \in 0 .. Acked(B) - 1 /\ k - 1 + 1 = k
    BY <1>1
  <2>2. /\ File!Left(B, k - 1) \in Nat /\ Sum(B, ps, base, k - 1) \in Nat
        /\ Sum(B, ps, base, k - 1 + 1) = Sum(B, ps, base, k - 1) + File!Left(B, k - 1)
    BY <2>1, LeftIs
  <2> QED
    BY <2>1, <2>2
<1>4. Rec(G)
  BY <1>1, <1>2, <1>3
<1>5. Rec(sum)
  <2> HIDE DEF Rec, G
  <2> QED
    BY <1>4
<1>6. File!FirstPackets(B, n) = sum[n]
  BY DEF File!FirstPackets
<1> HIDE DEF sum
<1>7. sum[0] = G[0]
  BY <1>1, <1>2, <1>5
<1>8. ASSUME NEW k \in 1 .. n, sum[k - 1] = G[k - 1] PROVE sum[k] = G[k]
  <2>1. k \in 0 .. n /\ k # 0
    OBVIOUS
  <2>2. sum[k] = sum[k - 1] + File!Left(B, k - 1)
    BY <1>5, <2>1
  <2> QED
    BY <1>1, <1>3, <1>8, <2>1, <2>2
<1>9. sum[n] = G[n]
  <2> HIDE DEF G, Rec
  <2> QED
    BY <1>1, <1>7, <1>8, Stepwise
<1> QED
  BY <1>1, <1>2, <1>3, <1>6, <1>9

LEMMA SumGrows ==
    ASSUME NEW B, NEW ps, Follow(ps), NEW base, RingHolds(B, ps, base), NEW i \in 1 .. Acked(B), NEW j \in i .. Acked(B)
    PROVE  Sum(B, ps, base, i) <= Sum(B, ps, base, j)
<1>1. base \in Nat /\ Acked(B) \in 0 .. N - 1 /\ base + Acked(B) <= Len(ps) /\ Len(ps) \in Nat /\ B.notch \in Nat
  BY UnitFacts, EndIs DEF RingHolds, RingShape
<1>2. base + i \in 0 .. Len(ps) /\ base + j \in base + i .. Len(ps) /\ base \in 0 .. Len(ps) /\ i # 0 /\ j # 0 /\ base + j \in 0 .. Len(ps)
  BY <1>1, FileSize
<1>3. EndOf(ps, base + i) + (base + j - (base + i)) <= EndOf(ps, base + j)
  BY <1>2, EndGrows
<1>4. EndOf(ps, base + i) \in Nat /\ EndOf(ps, base + j) \in Nat /\ EndOf(ps, base) \in Nat
  BY <1>2, EndIs
<1> DEFINE ei == EndOf(ps, base + i)
           ej == EndOf(ps, base + j)
           e == EndOf(ps, base)
<1>5. ei <= ej /\ ei \in Nat /\ ej \in Nat /\ e \in Nat /\ B.notch \in Nat
  BY <1>1, <1>3, <1>4
<1>6. Sum(B, ps, base, i) = ei - e - B.notch /\ Sum(B, ps, base, j) = ej - e - B.notch
  BY <1>2 DEF Sum
<1> HIDE DEF ei, ej, e
<1> QED
  BY <1>5, <1>6

LEMMA FileCardinality == \A T : File!Cardinality(T) = Cardinality(T)
  BY Zenon DEF File!Cardinality, Cardinality

\* How many packets are read to their end.
LEMMA ReadCount ==
    ASSUME NEW B, NEW ps, Follow(ps), NEW base, RingHolds(B, ps, base), NEW len \in Nat,
           NEW n, n = File!Cardinality({k \in 1 .. File!getRcvDataSize(B) : File!FirstPackets(B, k) <= len})
    PROVE  /\ n \in 0 .. Acked(B) /\ Sum(B, ps, base, n) <= len
           /\ n < Acked(B) => Sum(B, ps, base, n + 1) > len
<1> DEFINE size == Acked(B)
           over == {k \in 1 .. size : Sum(B, ps, base, k) > len}
           within == {k \in 1 .. size : Sum(B, ps, base, k) <= len}
<1>1. size \in Nat /\ File!getRcvDataSize(B) = size
  <2>1. size \in 0 .. N - 1 /\ File!getRcvDataSize(B) = size
    BY UnitFacts DEF RingHolds
  <2> QED
    BY <2>1, FileSize
<1> HIDE DEF size
<1>2. \A k \in 0 .. size : File!FirstPackets(B, k) = Sum(B, ps, base, k) /\ Sum(B, ps, base, k) \in Nat
  BY SumIs DEF size
<1>3. {k \in 1 .. File!getRcvDataSize(B) : File!FirstPackets(B, k) <= len} = within
  <2>1. \A k \in 1 .. size : k \in 0 .. size
    BY <1>1
  <2> QED
    BY <1>1, <1>2, <2>1
<1>4. Sum(B, ps, base, 0) = 0
  BY DEF Sum
<1>5. ASSUME NEW m \in 0 .. size, within = 1 .. m PROVE n = m
  <2>1. Cardinality(1 .. m) = m
    <3>1. 1 \in Int /\ m \in Int /\ m \in Nat
      BY <1>1
    <3>2. Cardinality(1 .. m) = IF 1 > m THEN 0 ELSE m - 1 + 1
      BY <3>1, FS_Interval
    <3> QED
      BY <3>1, <3>2
  <2> QED
    BY <1>3, <1>5, <2>1, FileCardinality
<1>6. CASE over = {}
  <2>1. within = 1 .. size
    <3>1. \A k \in 1 .. size : k \in 0 .. size
      BY <1>1
    <3>2. \A k \in 1 .. size : ~(Sum(B, ps, base, k) > len) /\ Sum(B, ps, base, k) \in Nat
      BY <1>2, <1>6, <3>1
    <3> QED
      BY <3>2
  <2>2. size \in 0 .. size
    BY <1>1
  <2>3. n = size
    BY <1>5, <2>1, <2>2
  <2>4. Sum(B, ps, base, size) <= len
    <3>1. CASE size = 0
      BY <1>4, <3>1
    <3>2. CASE size # 0
      <4>1. size \in 1 .. size
        BY <1>1, <3>2
      <4> QED
        BY <2>1, <4>1
    <3> QED
      BY <3>1, <3>2
  <2> QED
    BY <1>1, <2>2, <2>3, <2>4 DEF size
<1>7. CASE over # {}
  <2>1. PICK c \in over : \A k \in over : c <= k
    <3>1. over \subseteq Nat
      BY <1>1
    <3> QED
      BY <1>7, <3>1, LeastOf
  <2>2. c \in 1 .. size /\ Sum(B, ps, base, c) > len /\ c - 1 \in 0 .. size /\ c - 1 + 1 = c
    BY <1>1, <2>1
  <2>3. ASSUME NEW k \in 1 .. size PROVE k \in within <=> k \in 1 .. c - 1
    <3>1. k \in 0 .. size /\ c \in 0 .. size
      BY <1>1, <2>2
    <3>2. Sum(B, ps, base, k) \in Nat /\ Sum(B, ps, base, c) \in Nat
      BY <1>2, <3>1
    <3>3. CASE k < c
      <4>1. ~(Sum(B, ps, base, k) > len)
        BY <1>1, <2>1, <2>2, <3>3
      <4> QED
        BY <2>2, <3>2, <3>3, <4>1
    <3>4. CASE ~(k < c)
      <4>1. k \in c .. size
        BY <1>1, <2>2, <3>4
      <4>2. Sum(B, ps, base, c) <= Sum(B, ps, base, k)
        BY <2>2, <4>1, SumGrows DEF size
      <4> QED
        BY <2>2, <3>2, <3>4, <4>2
    <3> QED
      BY <3>3, <3>4
  <2>4. within = 1 .. c - 1
    <3>1. \A k \in 1 .. c - 1 : k \in 1 .. size
      BY <1>1, <2>2
    <3>2. within \subseteq 1 .. size
      OBVIOUS
    <3> HIDE DEF within
    <3> QED
      BY <2>3, <3>1, <3>2
  <2>5. n = c - 1
    BY <1>5, <2>2, <2>4
  <2>6. Sum(B, ps, base, c - 1) <= len
    <3>1. CASE c - 1 = 0
      BY <1>4, <3>1
    <3>2. CASE c - 1 # 0
      <4>1. c - 1 \in 1 .. c - 1
        BY <2>2, <3>2
      <4> QED
        BY <2>4, <4>1
    <3> QED
      BY <3>1, <3>2
  <2> QED
    BY <2>2, <2>5, <2>6 DEF size
<1> QED
  BY <1>6, <1>7

\* The first n packets leave the ring, and what is read of the next one is noted.
LEMMA RingDrops ==
    ASSUME NEW B, NEW ps, Follow(ps), NEW base, RingHolds(B, ps, base), NEW n \in 0 .. Acked(B), NEW C, C.notch \in Nat,
           IF n = Acked(B) THEN C.notch = 0 ELSE C.notch < ps[base + n + 1].len,
           DOMAIN C = DOMAIN B, C.ackPos = B.ackPos, C.maxPos = B.maxPos, C.start = File!Ring(B.start + n),
           C.unit = [i \in DOMAIN B.unit |-> IF File!Ring(i - B.start) < n THEN File!NoUnit ELSE B.unit[i]]
    PROVE  RingHolds(C, ps, base + n) /\ Acked(C) = Acked(B) - n
<1>1. RingShape(B) /\ base \in Nat /\ Acked(B) \in 0 .. N - 1 /\ base + Acked(B) <= Len(ps) /\ Len(ps) \in Nat
  BY UnitFacts, EndIs DEF RingHolds
<1>2. /\ DOMAIN B = {"unit", "start", "ackPos", "maxPos", "notch"} /\ DOMAIN B.unit = 0 .. N - 1
      /\ B.start \in 0 .. N - 1 /\ B.ackPos \in 0 .. N - 1 /\ B.maxPos \in Int
  BY <1>1 DEF RingShape
<1>3. /\ DOMAIN C = {"unit", "start", "ackPos", "maxPos", "notch"} /\ C.ackPos = B.ackPos /\ C.maxPos = B.maxPos
      /\ C.unit = [i \in DOMAIN B.unit |-> IF File!Ring(i - B.start) < n THEN File!NoUnit ELSE B.unit[i]]
      /\ C.start = File!Ring(B.start + n)
  BY <1>2
<1>4. n \in 0 .. N - 1 /\ n \in Nat /\ n \in 0 .. N
  BY <1>1, FileSize
<1>5. C.start = Slot(N, B.start + n) /\ C.start \in 0 .. N - 1
  BY <1>1, <1>3, <1>4, UnitFacts
<1>6. \A i \in 0 .. N - 1 : C.unit[i] = IF AgeOf(N, B.start, i) < n THEN File!NoUnit ELSE B.unit[i]
  BY <1>1, <1>2, <1>3, UnitFacts
<1>7. RingShape(C)
  <2>1. DOMAIN C.unit = 0 .. N - 1
    BY <1>2, <1>3
  <2>2. C.unit = [i \in 0 .. N - 1 |-> C.unit[i]]
    BY <1>2, <1>3
  <2> QED
    BY <1>2, <1>3, <1>5, <2>1, <2>2 DEF RingShape
<1>8. Acked(C) = Acked(B) - n
  <2> DEFINE a == Acked(B)
  <2>0. a \in 0 .. N - 1 /\ n \in 0 .. a /\ B.ackPos = Slot(N, B.start + a)
    BY <1>1, UnitFacts
  <2> HIDE DEF a
  <2>1. B.ackPos = Slot(N, B.start + Acked(B)) /\ Acked(B) - n \in 0 .. N - 1 /\ Acked(B) - n \in 0 .. N /\ n + (Acked(B) - n) = Acked(B)
    <3>1. a - n \in 0 .. N - 1 /\ a - n \in 0 .. N /\ n + (a - n) = a
      BY <2>0, FileSize
    <3> QED
      BY <2>0, <3>1 DEF a
  <2>2. Slot(N, Slot(N, B.start + n) + (Acked(B) - n)) = Slot(N, B.start + (n + (Acked(B) - n))) /\ n + (Acked(B) - n) <= N
    <3> DEFINE b == Acked(B) - n
    <3>1. b \in 0 .. N /\ n + b = Acked(B) /\ Acked(B) <= N
      BY <1>1, <2>1, FileSize
    <3> HIDE DEF b
    <3>2. n + b <= N
      BY <3>1
    <3>3. Slot(N, Slot(N, B.start + n) + b) = Slot(N, B.start + (n + b))
      BY <1>2, <1>4, <3>1, <3>2, PlaceTwice
    <3> QED
      BY <3>2, <3>3 DEF b
  <2>3. AgeOf(N, C.start, Slot(N, C.start + (Acked(B) - n))) = Acked(B) - n
    BY <1>5, <2>1, ThereAndBack
  <2> QED
    BY <1>3, <1>5, <2>1, <2>2, <2>3 DEF Acked
<1>9. ASSUME NEW d \in 0 .. N - 1
      PROVE  UnitAt(C, d) = IF d + n <= N - 1 THEN UnitAt(B, n + d) ELSE File!NoUnit
  <2>1. CASE d + n <= N - 1
    <3>1. n + d \in 0 .. N - 1 /\ d \in 0 .. N /\ n + d <= N /\ ~(n + d < n)
      BY <1>4, <2>1, FileSize
    <3>2. Slot(N, C.start + d) = Slot(N, B.start + (n + d))
      <4>1. B.start \in 0 .. N - 1 /\ n \in 0 .. N /\ C.start = Slot(N, B.start + n)
        BY <1>2, <1>4, <1>5
      <4>2. Slot(N, Slot(N, B.start + n) + d) = Slot(N, B.start + (n + d))
        BY <3>1, <4>1, PlaceTwice
      <4> QED
        BY <4>1, <4>2
    <3>3. Slot(N, B.start + (n + d)) \in 0 .. N - 1 /\ AgeOf(N, B.start, Slot(N, B.start + (n + d))) = n + d
      BY <1>1, <3>1, UnitFacts
    <3>4. C.unit[Slot(N, B.start + (n + d))] = B.unit[Slot(N, B.start + (n + d))]
      BY <1>6, <3>1, <3>3
    <3> QED
      BY <2>1, <3>2, <3>4 DEF UnitAt
  <2>2. CASE ~(d + n <= N - 1)
    <3> DEFINE e == n + d - N
    <3>1. e \in 0 .. N - 1 /\ e < n
      BY <1>4, <2>2, FileSize
    <3>2. Slot(N, C.start + d) = Slot(N, B.start + e)
      <4> DEFINE s == B.start
                 t == C.start
      <4>1. s \in 0 .. N - 1 /\ t = Slot(N, s + n) /\ n \in 0 .. N - 1 /\ ~(d + n <= N - 1)
        BY <1>2, <1>4, <1>5, <2>2
      <4> HIDE DEF s, t
      <4>2. Slot(N, t + d) = Slot(N, s + e)
        BY <4>1, FileSize DEF Slot
      <4> QED
        BY <4>2 DEF s, t
    <3> HIDE DEF e
    <3>3. Slot(N, B.start + e) \in 0 .. N - 1 /\ AgeOf(N, B.start, Slot(N, B.start + e)) = e
      BY <1>1, <3>1, UnitFacts
    <3>4. C.unit[Slot(N, B.start + e)] = File!NoUnit
      BY <1>6, <3>1, <3>3
    <3> QED
      BY <2>2, <3>2, <3>4 DEF UnitAt
  <2> QED
    BY <2>1, <2>2
<1>10. ASSUME NEW d \in 0 .. N - 1, UnitAt(C, d) # File!NoUnit
       PROVE  d < N - 1 /\ base + n + d + 1 <= Len(ps) /\ UnitAt(C, d).pkt = ps[base + n + d + 1]
  <2>1. d + n <= N - 1 /\ UnitAt(C, d) = UnitAt(B, n + d)
    BY <1>9, <1>10
  <2>2. n + d \in 0 .. N - 1 /\ base + (n + d) + 1 = base + n + d + 1
    BY <1>1, <1>4, <2>1, FileSize
  <2>3. n + d < N - 1 /\ base + (n + d) + 1 <= Len(ps) /\ UnitAt(B, n + d).pkt = ps[base + (n + d) + 1]
    BY <1>10, <2>1, <2>2 DEF RingHolds
  <2>4. d < N - 1
    BY <1>4, <2>3, FileSize
  <2> QED
    BY <2>1, <2>2, <2>3, <2>4
<1>11. ASSUME NEW d \in 0 .. N - 1, d < Acked(C) PROVE UnitAt(C, d) # File!NoUnit
  <2>1. n + d \in 0 .. N - 1 /\ n + d < Acked(B) /\ d + n <= N - 1
    BY <1>1, <1>4, <1>8, <1>11, FileSize
  <2>2. UnitAt(B, n + d) # File!NoUnit
    BY <2>1 DEF RingHolds
  <2> QED
    BY <1>9, <2>1, <2>2
<1>12. base + n \in Nat /\ base + n + Acked(C) <= Len(ps)
  BY <1>1, <1>4, <1>8
<1>13. IF Acked(C) = 0 THEN C.notch = 0 ELSE C.notch < ps[base + n + 1].len
  <2>1. Acked(C) = 0 <=> n = Acked(B)
    BY <1>1, <1>4, <1>8
  <2> QED
    BY <1>3, <2>1
<1> QED
  BY <1>3, <1>7, <1>8, <1>10, <1>11, <1>12, <1>13 DEF RingHolds

\* A byte of the file is where its packet says.
LEMMA ByteAt ==
    ASSUME NEW ps, Follow(ps), NEW x \in 1 .. EndOf(ps, Len(ps))
    PROVE  Byte(ps, x)[1].first + Byte(ps, x)[2] - 1 = x
<1> DEFINE beyond == {k \in 0 .. Len(ps) : x <= EndOf(ps, k)}
           j == CHOOSE c \in 1 .. Len(ps) : ps[c].first <= x /\ x <= EndOf(ps, c)
<1>1. Len(ps) \in Nat /\ Len(ps) \in 0 .. Len(ps) /\ EndOf(ps, Len(ps)) \in Nat /\ x \in Nat /\ x > 0 /\ x <= EndOf(ps, Len(ps))
  BY EndIs
<1>2. beyond \subseteq Nat /\ beyond # {}
  BY <1>1
<1>3. PICK k \in beyond : \A c \in beyond : k <= c
  BY <1>2, LeastOf
<1>4. k # 0
  BY <1>1, <1>3 DEF EndOf
<1>5. k \in 1 .. Len(ps) /\ k - 1 \in 0 .. Len(ps) /\ ~(k <= k - 1) /\ x <= EndOf(ps, k)
  BY <1>1, <1>3, <1>4
<1>6. ~(x <= EndOf(ps, k - 1))
  BY <1>3, <1>5
<1>7. ps[k].first = EndOf(ps, k - 1) + 1 /\ EndOf(ps, k - 1) \in Nat
  BY <1>5, EndIs
<1>8. ps[k].first <= x
  BY <1>1, <1>6, <1>7
<1>9. j \in 1 .. Len(ps)
  BY <1>5, <1>8
<1>10. Byte(ps, x) = <<ps[j], x - ps[j].first + 1>>
  BY DEF Byte
<1> HIDE DEF j
<1>11. ps[j].first \in Nat
  BY <1>9, EndIs
<1>12. Byte(ps, x)[1] = ps[j] /\ Byte(ps, x)[2] = (x - ps[j].first) + 1
  BY <1>10
<1> DEFINE b == ps[j].first
           y == Byte(ps, x)[2]
<1>13. b \in Nat /\ y = (x - b) + 1
  BY <1>11, <1>12
<1> HIDE DEF b, y
<1>14. b + y - 1 = x
  BY <1>1, <1>13
<1> QED
  BY <1>12, <1>14 DEF b, y

BytesIn(ps) == {Byte(ps, x) : x \in Nat}

\* The next m bytes of a packet in the ring.
LEMMA ChunkIs ==
    ASSUME NEW B, NEW ps, Follow(ps), NEW base, RingHolds(B, ps, base), NEW k \in 0 .. Acked(B) - 1,
           NEW m \in Nat, m <= File!Left(B, k), NEW q, q = File!BytesAt(B, k, m)
    PROVE  /\ q \in Seq(BytesIn(ps)) /\ Len(q) = m
           /\ \A i \in 1 .. m : q[i] = Byte(ps, ReadTo(B, ps, base) + Sum(B, ps, base, k) + i)
<1> DEFINE sk == File!Skip(B, k)
           l == ps[base + k + 1].len
           e == EndOf(ps, base + k)
           x0 == ReadTo(B, ps, base) + Sum(B, ps, base, k)
<1>1. base \in Nat /\ k \in Nat
  <2>1. Acked(B) \in 0 .. N - 1
    BY UnitFacts DEF RingHolds
  <2> QED
    BY <2>1, FileSize DEF RingHolds
<1>2. /\ base + k + 1 \in 1 .. Len(ps) /\ B.unit[File!Ring(B.start + k)].pkt = ps[base + k + 1]
      /\ sk \in Nat /\ File!Left(B, k) = l - sk /\ x0 = e + sk
  BY LeftIs
<1>3. base + k + 1 - 1 = base + k
  BY <1>1
<1>4. l \in Nat /\ e \in Nat
  <2>1. base + k + 1 \in 1 .. Len(ps) /\ Len(ps) \in Nat
    BY <1>2, EndIs
  <2>2. base + k \in 0 .. Len(ps)
    BY <1>1, <2>1
  <2> QED
    BY <2>1, <2>2, EndIs
<1>5. m <= l - sk
  BY <1>2
<1>6. q = [i \in 1 .. m |-> <<ps[base + k + 1], sk + i>>]
  BY <1>2 DEF File!BytesAt
<1>7. ASSUME NEW i \in 1 .. m PROVE <<ps[base + k + 1], sk + i>> = Byte(ps, x0 + i) /\ x0 + i \in Nat
  <2> HIDE DEF sk, l, e, x0
  <2>1. sk + i \in 1 .. l /\ x0 + i = e + (sk + i) /\ x0 + i \in Nat
    BY <1>2, <1>4, <1>5
  <2>2. Byte(ps, e + (sk + i)) = <<ps[base + k + 1], sk + i>>
    <3>1. sk + i \in 1 .. ps[base + k + 1].len
      BY <2>1 DEF l
    <3> DEFINE c == base + k + 1
               y == sk + i
    <3>2. c \in 1 .. Len(ps) /\ y \in 1 .. ps[c].len
      BY <1>2, <3>1
    <3> HIDE DEF c, y
    <3>3. Byte(ps, EndOf(ps, c - 1) + y) = <<ps[c], y>>
      BY <3>2, ByteIs
    <3>4. c - 1 = base + k
      BY <1>1 DEF c
    <3> QED
      BY <3>3, <3>4 DEF c, e, y
  <2> QED
    BY <2>1, <2>2
<1> HIDE DEF sk, x0
<1>8. \A i \in 1 .. m : q[i] = Byte(ps, x0 + i) /\ q[i] \in BytesIn(ps)
  BY <1>6, <1>7 DEF BytesIn
<1>9. DOMAIN q = 1 .. m /\ q = [i \in 1 .. m |-> q[i]]
  BY <1>6
<1>10. q \in [1 .. m -> BytesIn(ps)]
  BY <1>8, <1>9
<1>11. q \in Seq(BytesIn(ps)) /\ Len(q) = m
  BY <1>10, IsASeq
<1> QED
  BY <1>8, <1>11 DEF x0

\* All bytes of the next n packets, as readBuffer puts them together.
Whole(B, n) ==
    LET bytes[k \in 0 .. n] ==
            IF k = 0 THEN <<>> ELSE bytes[k - 1] \o File!BytesAt(B, k - 1, File!Left(B, k - 1))
    IN  bytes[n]

LEMMA WholeIs ==
    ASSUME NEW B, NEW ps, Follow(ps), NEW base, RingHolds(B, ps, base), NEW n \in 0 .. Acked(B), NEW q, q = Whole(B, n)
    PROVE  /\ q \in Seq(BytesIn(ps)) /\ Len(q) = Sum(B, ps, base, n) /\ Sum(B, ps, base, n) \in Nat
           /\ \A i \in 1 .. Sum(B, ps, base, n) : q[i] = Byte(ps, ReadTo(B, ps, base) + i)
<1> DEFINE x0 == ReadTo(B, ps, base)
           l(k) == Sum(B, ps, base, k)
           First(k) == [i \in 1 .. l(k) |-> Byte(ps, x0 + i)]
           More(k) == File!BytesAt(B, k - 1, File!Left(B, k - 1))
           G == [k \in 0 .. n |-> First(k)]
           Rec(f) == f = [k \in 0 .. n |-> IF k = 0 THEN <<>> ELSE f[k - 1] \o More(k)]
           bytes == CHOOSE f : Rec(f)
<1>1. n \in Nat /\ Acked(B) \in Nat /\ \A k \in 1 .. n : k - 1 \in 0 .. Acked(B) - 1 /\ k - 1 \in 0 .. n /\ k - 1 + 1 = k
  <2>1. Acked(B) \in 0 .. N - 1
    BY UnitFacts DEF RingHolds
  <2> QED
    BY <2>1, FileSize
<1>2. x0 \in Nat
  <2>1. base \in 0 .. Len(ps) /\ B.notch \in Nat
    BY <1>1, EndIs DEF RingHolds, RingShape
  <2> QED
    BY <2>1, EndIs DEF ReadTo
<1>3. \A k \in 0 .. n : l(k) \in Nat
  <2>1. \A k \in 0 .. n : k \in 0 .. Acked(B)
    BY <1>1
  <2> QED
    BY <2>1, SumIs
<1>4. ASSUME NEW k \in 0 .. n
      PROVE  First(k) \in Seq(BytesIn(ps)) /\ Len(First(k)) = l(k) /\ \A i \in 1 .. l(k) : First(k)[i] = Byte(ps, x0 + i)
  <2>1. l(k) \in Nat
    BY <1>3
  <2> HIDE DEF l
  <2>2. \A i \in 1 .. l(k) : x0 + i \in Nat
    BY <1>2
  <2> HIDE DEF x0
  <2>3. First(k) \in [1 .. l(k) -> BytesIn(ps)] /\ \A i \in 1 .. l(k) : First(k)[i] = Byte(ps, x0 + i)
    BY <2>2 DEF BytesIn
  <2> HIDE DEF First
  <2> QED
    BY <2>1, <2>3, IsASeq
<1>5. ASSUME NEW k \in 1 .. n PROVE First(k - 1) \o More(k) = First(k)
  <2> DEFINE m == File!Left(B, k - 1)
             p0 == First(k - 1)
             q0 == More(k)
             r0 == First(k)
             a == l(k - 1)
             b == l(k)
             k1 == k - 1
  <2>1. k1 \in 0 .. Acked(B) - 1 /\ k1 + 1 = k /\ k1 \in 0 .. n /\ k \in 0 .. n
    BY <1>1
  <2>2. m \in Nat /\ l(k1 + 1) = l(k1) + m
    <3> HIDE DEF k1
    <3>1. File!Left(B, k1) \in Nat /\ l(k1 + 1) = l(k1) + File!Left(B, k1)
      BY <2>1, LeftIs
    <3> QED
      BY <3>1 DEF k1
  <2>3. b = a + m /\ a \in Nat /\ b \in Nat
    BY <1>3, <2>1, <2>2
  <2>4. q0 \in Seq(BytesIn(ps)) /\ Len(q0) = m /\ \A i \in 1 .. m : q0[i] = Byte(ps, (x0 + a) + i)
    <3> HIDE DEF k1
    <3> DEFINE q1 == File!BytesAt(B, k1, File!Left(B, k1))
    <3>1. File!Left(B, k1) \in Nat /\ File!Left(B, k1) <= File!Left(B, k1)
      BY <2>2 DEF k1
    <3>2. q1 \in Seq(BytesIn(ps)) /\ Len(q1) = File!Left(B, k1)
          /\ \A i \in 1 .. File!Left(B, k1) : q1[i] = Byte(ps, x0 + l(k1) + i)
      <4> HIDE DEF q1
      <4>1. q1 = File!BytesAt(B, k1, File!Left(B, k1))
        BY DEF q1
      <4> QED
        BY <2>1, <3>1, <4>1, ChunkIs
    <3> QED
      BY <3>2 DEF k1
  <2>5. p0 \in Seq(BytesIn(ps)) /\ Len(p0) = a /\ \A i \in 1 .. a : p0[i] = Byte(ps, x0 + i)
    BY <1>4, <2>1
  <2>6. r0 \in Seq(BytesIn(ps)) /\ Len(r0) = b /\ \A i \in 1 .. b : r0[i] = Byte(ps, x0 + i)
    BY <1>4, <2>1
  <2> HIDE DEF m, p0, q0, r0, a, b, x0
  <2>7. \A i \in 1 .. Len(p0) : r0[i] = p0[i]
    <3>1. \A i \in 1 .. a : i \in 1 .. b
      BY <2>2, <2>3
    <3> QED
      BY <2>5, <2>6, <3>1
  <2>8. \A i \in 1 .. Len(q0) : r0[Len(p0) + i] = q0[i]
    <3>1. \A i \in 1 .. m : a + i \in 1 .. b /\ x0 + (a + i) = (x0 + a) + i
      BY <1>2, <2>2, <2>3
    <3> QED
      BY <2>4, <2>5, <2>6, <3>1
  <2>9. Len(r0) = Len(p0) + Len(q0)
    BY <2>3, <2>4, <2>5, <2>6
  <2>10. p0 \o q0 = r0
    BY <2>4, <2>5, <2>6, <2>7, <2>8, <2>9, GoesOn
  <2> QED
    BY <2>10 DEF p0, q0, r0
<1>6. First(0) = <<>>
  <2>1. l(0) = 0
    BY DEF Sum
  <2> HIDE DEF l
  <2> QED
    BY <2>1
<1>7. q = bytes[n]
  BY DEF Whole
<1> HIDE DEF First, More
<1>8. Rec(G)
  <2>1. ASSUME NEW k \in 0 .. n PROVE G[k] = IF k = 0 THEN <<>> ELSE G[k - 1] \o More(k)
    <3>1. CASE k = 0
      BY <1>6, <3>1
    <3>2. CASE k # 0
      <4>1. k \in 1 .. n /\ k - 1 \in 0 .. n
        BY <1>1, <3>2
      <4>2. G[k] = First(k) /\ G[k - 1] = First(k - 1)
        BY <4>1
      <4>3. First(k) = First(k - 1) \o More(k)
        BY <1>5, <4>1
      <4> HIDE DEF G
      <4> QED
        BY <3>2, <4>2, <4>3
    <3> QED
      BY <3>1, <3>2
  <2>2. G = [k \in 0 .. n |-> G[k]]
    OBVIOUS
  <2> DEFINE H(k) == IF k = 0 THEN <<>> ELSE G[k - 1] \o More(k)
  <2>3. \A k \in 0 .. n : G[k] = H(k)
    BY <2>1
  <2> HIDE DEF G, H
  <2>4. G = [k \in 0 .. n |-> H(k)]
    BY <2>2, <2>3
  <2> QED
    BY <2>4, Zenon DEF H
<1>9. Rec(bytes)
  <2> HIDE DEF Rec, G
  <2> QED
    BY <1>8
<1> HIDE DEF bytes
<1>10. bytes[0] = G[0]
  BY <1>1, <1>6, <1>9
<1>11. ASSUME NEW k \in 1 .. n, bytes[k - 1] = G[k - 1] PROVE bytes[k] = G[k]
  <2>1. bytes[k] = bytes[k - 1] \o More(k)
    <3>1. k \in 0 .. n /\ k # 0
      OBVIOUS
    <3> QED
      BY <1>9, <3>1
  <2>2. G[k] = G[k - 1] \o More(k)
    BY <1>1, <1>5
  <2> QED
    BY <1>11, <2>1, <2>2
<1>12. bytes[n] = G[n]
  <2> HIDE DEF G, Rec
  <2> QED
    BY <1>1, <1>10, <1>11, Stepwise
<1>13. q = First(n) /\ n \in 0 .. n
  BY <1>1, <1>7, <1>12
<1> QED
  BY <1>3, <1>4, <1>13

\* One sequence after the other.
LEMMA Joined ==
    ASSUME NEW T, NEW p \in Seq(T), NEW q \in Seq(T), NEW w, w = p \o q
    PROVE  /\ w \in Seq(T) /\ Len(w) = Len(p) + Len(q) /\ Len(p) \in Nat /\ Len(q) \in Nat
           /\ \A i \in 1 .. Len(p) : w[i] = p[i]
           /\ \A i \in 1 .. Len(q) : w[Len(p) + i] = q[i]
  OBVIOUS

\* C is left and q is read: the next bytes of the file, all there are if enough are asked for.
InFile(q, ps, x) == q \in Seq(BytesIn(ps)) /\ \A i \in 1 .. Len(q) : q[i] = Byte(ps, x + i)
IsRead(B, ps, base, len, C, q) ==
    \E n \in 0 .. Acked(B) :
        /\ RingHolds(C, ps, base + n) /\ Acked(C) = Acked(B) - n
        /\ InFile(q, ps, ReadTo(B, ps, base))
        /\ EndOf(ps, base + n) + C.notch = ReadTo(B, ps, base) + Len(q)
        /\ Sum(B, ps, base, Acked(B)) <= len => n = Acked(B)

LEMMA ReadIs ==
    ASSUME NEW B, NEW ps, Follow(ps), NEW base, RingHolds(B, ps, base), NEW len \in Nat,
           NEW C, C = File!readBuffer(B, len).buf, NEW q, q = File!readBuffer(B, len).out
    PROVE  IsRead(B, ps, base, len, C, q)
<1> DEFINE size == Acked(B)
           n == File!Cardinality({k \in 1 .. File!getRcvDataSize(B) : File!FirstPackets(B, k) <= len})
           rest == IF n < File!getRcvDataSize(B) THEN len - File!FirstPackets(B, n) ELSE 0
           notch == (IF n = 0 THEN B.notch ELSE 0) + rest
           more == IF rest > 0 THEN File!BytesAt(B, n, rest) ELSE <<>>
           x0 == ReadTo(B, ps, base)
           sn == Sum(B, ps, base, n)
<1>1. File!getRcvDataSize(B) = size /\ size \in Nat /\ B.notch \in Nat /\ base \in Nat
  <2>1. size \in 0 .. N - 1 /\ File!getRcvDataSize(B) = size
    BY UnitFacts DEF RingHolds
  <2> QED
    BY <2>1, FileSize DEF RingHolds, RingShape
<1>2. /\ DOMAIN C = DOMAIN B /\ C.ackPos = B.ackPos /\ C.maxPos = B.maxPos /\ C.start = File!Ring(B.start + n)
      /\ C.unit = [i \in DOMAIN B.unit |-> IF File!Ring(i - B.start) < n THEN File!NoUnit ELSE B.unit[i]]
      /\ C.notch = notch
  <2>1. DOMAIN B = {"unit", "start", "ackPos", "maxPos", "notch"}
    BY DEF RingHolds, RingShape
  <2> QED
    BY <2>1 DEF File!readBuffer
<1>3. q = Whole(B, n) \o more
  BY DEF File!readBuffer, Whole
<1> HIDE DEF size, n
<1>4. n \in 0 .. size /\ sn <= len /\ (n < size => Sum(B, ps, base, n + 1) > len)
  BY ReadCount DEF n, size
<1>5. File!FirstPackets(B, n) = sn /\ sn \in Nat
  BY <1>4, SumIs DEF size
<1>6. /\ n = size => rest = 0
      /\ n < size => rest = len - sn
      /\ rest \in Nat
  BY <1>1, <1>4, <1>5
<1>7. CASE n = size
  <2>1. rest = 0 /\ more = <<>>
    BY <1>6, <1>7
  <2>2. notch = 0
    <3>1. size = 0 => B.notch = 0
      BY DEF RingHolds, size
    <3> QED
      BY <1>7, <2>1, <3>1
  <2>3. EndOf(ps, base + n) + notch = x0 + sn
    <3>1. CASE size = 0
      <4>1. base + n = base /\ B.notch = 0 /\ sn = 0
        BY <1>1, <1>7, <3>1 DEF RingHolds, size, Sum
      <4>2. base \in 0 .. Len(ps)
        BY <1>1, EndIs DEF RingHolds, size
      <4>3. EndOf(ps, base) \in Nat
        BY <4>2, EndIs
      <4> QED
        BY <2>2, <4>1, <4>3 DEF ReadTo
    <3>2. CASE size # 0
      <4>1. EndOf(ps, base) \in Nat /\ EndOf(ps, base + n) \in Nat
        <5>1. base \in 0 .. Len(ps) /\ base + n \in 0 .. Len(ps)
          BY <1>1, <1>7, EndIs DEF RingHolds, size
        <5> QED
          BY <5>1, EndIs
      <4>2. sn = EndOf(ps, base + n) - EndOf(ps, base) - B.notch
        BY <1>7, <3>2 DEF Sum
      <4> QED
        BY <1>1, <2>2, <4>1, <4>2 DEF ReadTo
    <3> QED
      BY <3>1, <3>2
  <2>4. q \in Seq(BytesIn(ps)) /\ Len(q) = sn /\ \A i \in 1 .. sn : q[i] = Byte(ps, x0 + i)
    <3> DEFINE w == Whole(B, n)
    <3>1. w \in Seq(BytesIn(ps)) /\ Len(w) = sn /\ \A i \in 1 .. sn : w[i] = Byte(ps, x0 + i)
      <4> HIDE DEF w
      <4>1. w = Whole(B, n)
        BY DEF w
      <4> QED
        BY <1>4, <4>1, WholeIs DEF size
    <3> HIDE DEF w
    <3>2. w \o <<>> = w
      BY <3>1
    <3> QED
      BY <1>3, <2>1, <3>1, <3>2 DEF w
  <2>5. RingHolds(C, ps, base + n) /\ Acked(C) = Acked(B) - n /\ C.notch = notch
    <3>1. notch \in Nat /\ n = Acked(B)
      BY <1>7, <2>2 DEF size
    <3> HIDE DEF notch
    <3> QED
      BY <1>2, <1>4, <2>2, <3>1, RingDrops DEF size
  <2> QED
    BY <1>4, <1>7, <2>3, <2>4, <2>5 DEF size, IsRead, InFile
<1>8. CASE n < size
  <2> DEFINE l == File!Left(B, n)
             sk == File!Skip(B, n)
             e == EndOf(ps, base + n)
  <2>1. n \in 0 .. Acked(B) - 1
    BY <1>1, <1>4, <1>8 DEF size
  <2>2. /\ sk \in Nat /\ l \in Nat /\ l = ps[base + n + 1].len - sk
        /\ Sum(B, ps, base, n + 1) = sn + l /\ x0 + sn = e + sk
    BY <2>1, LeftIs
  <2>3. rest = len - sn /\ rest < l
    BY <1>4, <1>5, <1>6, <1>8, <2>2
  <2>4. notch = sk + rest
    BY DEF File!Skip
  <2>5. e \in Nat /\ ps[base + n + 1].len \in Nat
    <3>1. base + n \in 0 .. Len(ps) /\ base + n + 1 \in 1 .. Len(ps)
      BY <1>1, <1>4, <2>1, LeftIs
    <3> QED
      BY <3>1, EndIs
  <2>6. notch \in Nat /\ notch < ps[base + n + 1].len
    <3> HIDE DEF notch, rest, sk, l
    <3> QED
      BY <1>6, <2>2, <2>3, <2>4, <2>5
  <2>7. RingHolds(C, ps, base + n) /\ Acked(C) = Acked(B) - n /\ C.notch = notch
    <3>1. n # Acked(B)
      BY <1>1, <1>4, <1>8 DEF size
    <3>2. IF n = Acked(B) THEN notch = 0 ELSE notch < ps[base + n + 1].len
      BY <2>6, <3>1
    <3>3. notch \in Nat /\ n \in 0 .. Acked(B)
      BY <1>4, <2>6 DEF size
    <3> HIDE DEF notch
    <3> QED
      BY <1>2, <3>2, <3>3, RingDrops
  <2>8. e + notch = x0 + (sn + rest)
    <3>1. x0 \in Nat
      <4>1. base \in 0 .. Len(ps)
        BY <1>1, <1>4, EndIs, LeftIs, <2>1
      <4> QED
        BY <1>1, <4>1, EndIs DEF ReadTo
    <3> HIDE DEF notch, rest, sk, e, x0, sn
    <3> QED
      BY <1>5, <1>6, <2>2, <2>4, <2>5, <3>1
  <2>9. more \in Seq(BytesIn(ps)) /\ Len(more) = rest /\ \A i \in 1 .. rest : more[i] = Byte(ps, x0 + sn + i)
    <3>1. CASE rest > 0
      <4>1. more = File!BytesAt(B, n, rest) /\ rest <= File!Left(B, n)
        BY <1>6, <2>2, <2>3, <3>1
      <4> HIDE DEF rest, more
      <4> QED
        BY <1>6, <2>1, <4>1, ChunkIs
    <3>2. CASE ~(rest > 0)
      <4>1. more = <<>> /\ rest = 0
        BY <1>6, <3>2
      <4> HIDE DEF rest, more
      <4> QED
        BY <4>1
    <3> QED
      BY <3>1, <3>2
  <2>10. q \in Seq(BytesIn(ps)) /\ Len(q) = sn + rest /\ \A i \in 1 .. sn + rest : q[i] = Byte(ps, x0 + i)
    <3> DEFINE w == Whole(B, n)
    <3>1. w \in Seq(BytesIn(ps)) /\ Len(w) = sn /\ \A i \in 1 .. sn : w[i] = Byte(ps, x0 + i)
      <4> HIDE DEF w
      <4>1. w = Whole(B, n)
        BY DEF w
      <4> QED
        BY <1>4, <4>1, WholeIs DEF size
    <3>2. q = w \o more
      BY <1>3
    <3> HIDE DEF w, more, rest, sn
    <3>3. /\ q \in Seq(BytesIn(ps)) /\ Len(q) = sn + rest
          /\ \A i \in 1 .. sn : q[i] = w[i]
          /\ \A i \in 1 .. rest : q[sn + i] = more[i]
      BY <2>9, <3>1, <3>2, Joined
    <3>4. x0 \in Int
      <4>1. base \in 0 .. Len(ps)
        BY <1>1, <1>4, EndIs, LeftIs, <2>1
      <4> QED
        BY <1>1, <4>1, EndIs DEF ReadTo
    <3> HIDE DEF x0
    <3>5. ASSUME NEW i \in 1 .. sn + rest PROVE q[i] = Byte(ps, x0 + i)
      <4>1. CASE i <= sn
        BY <1>5, <1>6, <3>1, <3>3, <3>5, <4>1
      <4>2. CASE ~(i <= sn)
        <5>1. i - sn \in 1 .. rest /\ sn + (i - sn) = i /\ x0 + sn + (i - sn) = x0 + i
          BY <1>5, <1>6, <3>4, <3>5, <4>2
        <5>2. q[sn + (i - sn)] = Byte(ps, x0 + sn + (i - sn))
          BY <2>9, <3>3, <5>1
        <5> QED
          BY <5>1, <5>2
      <4> QED
        BY <4>1, <4>2
    <3> QED
      BY <3>3, <3>5
  <2>11. ~(Sum(B, ps, base, Acked(B)) <= len)
    <3> DEFINE n1 == n + 1
    <3>1. n1 \in 1 .. Acked(B) /\ Acked(B) \in n1 .. Acked(B) /\ Acked(B) \in 0 .. Acked(B) /\ n1 \in 0 .. Acked(B)
      BY <1>1, <1>4, <1>8 DEF size
    <3> HIDE DEF n1
    <3>2. Sum(B, ps, base, n1) <= Sum(B, ps, base, Acked(B))
      BY <3>1, SumGrows
    <3>3. Sum(B, ps, base, n1) \in Nat /\ Sum(B, ps, base, Acked(B)) \in Nat
      BY <3>1, SumIs
    <3>4. Sum(B, ps, base, n1) > len
      BY <1>4, <1>8 DEF n1
    <3> QED
      BY <3>2, <3>3, <3>4
  <2> HIDE DEF notch, rest, sn, e, x0
  <2> QED
    BY <1>4, <2>7, <2>8, <2>10, <2>11 DEF size, e, x0, IsRead, InFile
<1> QED
  BY <1>1, <1>4, <1>7, <1>8

\* The positions of bytes that follow each other.
FirstBytes(x) == [i \in 1 .. x |-> i]
NextBytes(x, m) == [i \in 1 .. m |-> x + i]

LEMMA PositionsAre ==
    ASSUME NEW ps, Follow(ps), NEW x0 \in Nat, NEW q, InFile(q, ps, x0), x0 + Len(q) <= EndOf(ps, Len(ps))
    PROVE  File!Positions(q) = NextBytes(x0, Len(q))
<1>0. q \in Seq(BytesIn(ps)) /\ \A i \in 1 .. Len(q) : q[i] = Byte(ps, x0 + i)
  BY DEF InFile
<1>1. Len(q) \in Nat /\ DOMAIN q = 1 .. Len(q) /\ EndOf(ps, Len(ps)) \in Nat
  BY <1>0, EndIs
<1>2. ASSUME NEW i \in 1 .. Len(q) PROVE q[i][1].first + q[i][2] - 1 = x0 + i
  <2> DEFINE x == x0 + i
  <2>1. x \in 1 .. EndOf(ps, Len(ps))
    BY <1>1
  <2> HIDE DEF x
  <2>2. Byte(ps, x)[1].first + Byte(ps, x)[2] - 1 = x
    BY <2>1, ByteAt
  <2>3. q[i] = Byte(ps, x)
    BY <1>0 DEF x
  <2>4. q[i][1].first + q[i][2] - 1 = x
    BY <2>2, <2>3
  <2> QED
    BY <2>4 DEF x
<1> QED
  BY <1>1, <1>2 DEF File!Positions, NextBytes

-----------------------------------------------------------------------------
(* Files: cutting blocks into packets *)

LEMMA Packs ==
    \A t \in Nat : /\ File!InPackets(t) \in Nat /\ t <= File!InPackets(t) * Payload
                    /\ File!InPackets(t) * Payload < t + Payload
<1>1. \A t \in Nat, p \in Nat \ {0} :
        /\ (t + p - 1) \div p \in Nat /\ t <= ((t + p - 1) \div p) * p
        /\ ((t + p - 1) \div p) * p < t + p
  OBVIOUS
<1>2. Payload \in Nat \ {0}
  BY FileAssumption
<1> QED
  BY <1>1, <1>2 DEF File!InPackets

LEMMA TimesGrows == \A i, j, p \in Nat : i <= j => i * p <= j * p /\ i * p \in Nat /\ (i + 1) * p = i * p + p
  OBVIOUS

\* Packets of t bytes that go on after byte o.
Continue(cs, o, t) ==
    /\ cs \in Seq(SomePacket)
    /\ \A k \in 1 .. Len(cs) : cs[k].first = (IF k = 1 THEN o ELSE EndOf(cs, k - 1)) + 1
    /\ IF Len(cs) = 0 THEN t = 0 ELSE EndOf(cs, Len(cs)) = o + t

\* The packets of a block: full ones, and a last one with what is left.
LEMMA CutIs == ASSUME NEW o \in Nat, NEW t \in Nat, NEW cs, cs = File!Cut(o, t) PROVE Continue(cs, o, t)
<1> DEFINE K == File!InPackets(t)
           m(k) == k * Payload
           first(k) == o + (k - 1) * Payload + 1
           left(k) == t - (k - 1) * Payload
<1>1. Payload \in Nat /\ Payload > 0
  BY FileAssumption
<1>2. K \in Nat /\ t <= m(K) /\ m(K) < t + Payload
  BY Packs
<1> HIDE DEF K
<1>3. ASSUME NEW k \in 1 .. K
      PROVE  /\ m(k - 1) \in Nat /\ m(k) = m(k - 1) + Payload /\ m(k - 1) < t
             /\ k < K => m(k) < t
             /\ k = K => t <= m(k)
  <2>1. k - 1 \in Nat /\ k \in Nat /\ K - 1 \in Nat /\ k - 1 <= K - 1 /\ k - 1 + 1 = k /\ K - 1 + 1 = K /\ (k < K => k <= K - 1)
    BY <1>2
  <2> DEFINE a == k - 1
             b == K - 1
  <2>2. a \in Nat /\ b \in Nat /\ a <= b /\ a + 1 = k /\ b + 1 = K
    BY <2>1
  <2> HIDE DEF a, b
  <2>3. m(a) \in Nat /\ m(a) <= m(b) /\ m(b) \in Nat /\ m(a + 1) = m(a) + Payload /\ m(b + 1) = m(b) + Payload
    BY <1>1, <2>2, TimesGrows
  <2>4. k <= b => m(k) <= m(b) /\ m(k) \in Nat
    BY <1>1, <2>1, <2>2, TimesGrows
  <2>5. m(k) = m(a) + Payload /\ m(K) = m(b) + Payload
    BY <2>2, <2>3
  <2> HIDE DEF m
  <2>6. m(b) < t
    BY <1>1, <1>2, <2>3, <2>5
  <2>7. k < K => m(k) < t
    BY <2>1, <2>2, <2>3, <2>4, <2>6
  <2>8. m(a) < t
    BY <2>3, <2>6
  <2>9. a = k - 1
    BY DEF a
  <2> QED
    BY <1>2, <2>3, <2>5, <2>7, <2>8, <2>9
<1>4. cs = [k \in 1 .. K |-> [first |-> first(k), len |-> IF Payload < left(k) THEN Payload ELSE left(k)]]
  BY DEF File!Cut, File!Lesser, K
<1>5. ASSUME NEW k \in 1 .. K
      PROVE  /\ cs[k].first = o + m(k - 1) + 1
             /\ cs[k].len = IF k < K THEN Payload ELSE t - m(k - 1)
             /\ cs[k].len \in Nat /\ cs[k].len > 0 /\ cs[k].first \in Nat
             /\ cs[k] \in SomePacket
  <2>1. cs[k] = [first |-> o + m(k - 1) + 1, len |-> IF Payload < t - m(k - 1) THEN Payload ELSE t - m(k - 1)]
    BY <1>4
  <2> DEFINE a == m(k - 1)
  <2>2. /\ a \in Nat /\ a < t /\ (k < K => a + Payload < t) /\ (~(k < K) => t <= a + Payload)
    <3>1. ~(k < K) => k = K
      BY <1>2
    <3>2. a \in Nat /\ m(k) = a + Payload /\ a < t
      BY <1>3
    <3>3. (k < K => m(k) < t) /\ (k = K => t <= m(k))
      BY <1>3
    <3> HIDE DEF m, a
    <3> QED
      BY <3>1, <3>2, <3>3
  <2> HIDE DEF a
  <2>3. cs[k] = [first |-> o + a + 1, len |-> IF Payload < t - a THEN Payload ELSE t - a]
    BY <2>1 DEF a
  <2>4. (IF Payload < t - a THEN Payload ELSE t - a) = IF k < K THEN Payload ELSE t - a
    <3>1. CASE k < K
      BY <1>1, <2>2, <3>1
    <3>2. CASE ~(k < K)
      BY <1>1, <2>2, <3>2
    <3> QED
      BY <3>1, <3>2
  <2>5. /\ o + a + 1 \in Nat
        /\ (IF k < K THEN Payload ELSE t - a) \in Nat /\ (IF k < K THEN Payload ELSE t - a) > 0
    BY <1>1, <2>2
  <2> QED
    BY <2>3, <2>4, <2>5 DEF SomePacket, a
<1>6. cs \in Seq(SomePacket) /\ Len(cs) = K
  <2> HIDE DEF first, left
  <2>1. DOMAIN cs = 1 .. K /\ cs = [k \in 1 .. K |-> cs[k]]
    BY <1>4
  <2>2. cs \in [1 .. K -> SomePacket]
    BY <1>5, <2>1
  <2> QED
    BY <1>2, <2>2, IsASeq
<1>7. ASSUME NEW k \in 1 .. K PROVE EndOf(cs, k) = IF k < K THEN o + m(k) ELSE o + t
  <2> DEFINE a == m(k - 1)
             f == cs[k].first
             l == cs[k].len
             c == m(k)
  <2>1. EndOf(cs, k) = f + l - 1
    BY DEF EndOf
  <2>2. f = o + a + 1 /\ l = IF k < K THEN Payload ELSE t - a
    BY <1>5
  <2>3. a \in Nat /\ c = a + Payload
    BY <1>3
  <2> HIDE DEF a, c, f, l
  <2>4. f + l - 1 = IF k < K THEN o + c ELSE o + t
    BY <1>1, <2>2, <2>3
  <2> QED
    BY <2>1, <2>4 DEF c
<1>8. ASSUME NEW k \in 1 .. K PROVE cs[k].first = (IF k = 1 THEN o ELSE EndOf(cs, k - 1)) + 1
  <2>1. CASE k = 1
    <3>1. m(k - 1) = 0
      BY <1>1, <2>1
    <3> HIDE DEF m
    <3>2. cs[k].first = o + 0 + 1
      BY <1>5, <3>1
    <3> QED
      BY <2>1, <3>2
  <2>2. CASE k # 1
    <3>1. k - 1 \in 1 .. K /\ k - 1 < K
      BY <1>2, <2>2
    <3>2. EndOf(cs, k - 1) = o + m(k - 1)
      BY <1>7, <3>1
    <3> HIDE DEF m
    <3> QED
      BY <1>5, <2>2, <3>2
  <2> QED
    BY <2>1, <2>2
<1>9. IF K = 0 THEN t = 0 ELSE EndOf(cs, K) = o + t
  <2>1. CASE K = 0
    <3>1. m(K) = 0
      BY <1>1, <2>1
    <3> HIDE DEF m
    <3> QED
      BY <1>2, <2>1, <3>1
  <2>2. CASE K # 0
    <3>1. K \in 1 .. K /\ ~(K < K)
      BY <1>2, <2>2
    <3> QED
      BY <1>7, <2>2, <3>1
  <2> QED
    BY <2>1, <2>2
<1> HIDE DEF m, first, left
<1> QED
  BY <1>6, <1>8, <1>9 DEF Continue

\* Packets that go on where the last one ends.
LEMMA FollowsOn ==
    ASSUME NEW ps, Follow(ps), NEW t \in Nat, NEW qs, qs = ps \o File!Cut(EndOf(ps, Len(ps)), t)
    PROVE  /\ Follow(qs) /\ Len(ps) <= Len(qs) /\ \A k \in 1 .. Len(ps) : qs[k] = ps[k]
           /\ EndOf(qs, Len(qs)) = EndOf(ps, Len(ps)) + t
<1>0. PICK o \in Nat : o = EndOf(ps, Len(ps))
  <2>1. Len(ps) \in 0 .. Len(ps)
    BY EndIs
  <2> QED
    BY <2>1, EndIs
<1> DEFINE cs == File!Cut(o, t)
           n == Len(ps)
           c == Len(cs)
<1>1. n \in Nat /\ o \in Nat /\ ps \in Seq(SomePacket)
  BY EndIs DEF Follow
<1>2. /\ cs \in Seq(SomePacket)
      /\ \A k \in 1 .. c : cs[k].first = (IF k = 1 THEN o ELSE EndOf(cs, k - 1)) + 1
      /\ IF c = 0 THEN t = 0 ELSE EndOf(cs, c) = o + t
  <2> HIDE DEF cs
  <2>1. cs = File!Cut(o, t)
    BY DEF cs
  <2>2. Continue(cs, o, t)
    BY <1>1, <2>1, CutIs
  <2> QED
    BY <2>2 DEF Continue
<1>3. qs = ps \o cs
  BY <1>0
<1> HIDE DEF cs
<1>4. /\ qs \in Seq(SomePacket) /\ Len(qs) = n + c /\ c \in Nat
      /\ \A k \in 1 .. n : qs[k] = ps[k]
      /\ \A k \in 1 .. c : qs[n + k] = cs[k]
  BY <1>1, <1>2, <1>3, Joined
<1> HIDE DEF n, c
<1>5. \A k \in 0 .. n : EndOf(qs, k) = EndOf(ps, k)
  BY <1>1, <1>4 DEF EndOf
<1>6. \A k \in 1 .. c : EndOf(qs, n + k) = EndOf(cs, k)
  BY <1>1, <1>4 DEF EndOf
<1>7. EndOf(qs, n) = o
  BY <1>0, <1>1, <1>5 DEF n
<1>8. ASSUME NEW k \in 1 .. n + c PROVE qs[k].first = EndOf(qs, k - 1) + 1
  <2>1. CASE k <= n
    <3>1. k \in 1 .. n /\ k - 1 \in 0 .. n
      BY <1>1, <2>1
    <3>2. ps[k].first = EndOf(ps, k - 1) + 1
      BY <3>1 DEF Follow, n
    <3> QED
      BY <1>4, <1>5, <3>1, <3>2
  <2>2. CASE ~(k <= n)
    <3> DEFINE i == k - n
    <3>1. i \in 1 .. c /\ n + i = k /\ (i = 1 => k - 1 = n) /\ (i # 1 => i - 1 \in 1 .. c /\ n + (i - 1) = k - 1)
      BY <1>1, <1>4, <2>2
    <3> HIDE DEF i
    <3>2. qs[k].first = (IF i = 1 THEN o ELSE EndOf(cs, i - 1)) + 1
      BY <1>2, <1>4, <3>1
    <3>3. CASE i = 1
      BY <1>7, <3>1, <3>2, <3>3
    <3>4. CASE i # 1
      BY <1>6, <3>1, <3>2, <3>4
    <3> QED
      BY <3>3, <3>4
  <2> QED
    BY <2>1, <2>2
<1>9. Follow(qs)
  BY <1>4, <1>8 DEF Follow
<1>10. EndOf(qs, n + c) = o + t
  <2>1. CASE c = 0
    BY <1>1, <1>2, <1>7, <2>1
  <2>2. CASE c # 0
    <3>1. c \in 1 .. c
      BY <1>4, <2>2
    <3> QED
      BY <1>2, <1>6, <2>2, <3>1
  <2> QED
    BY <2>1, <2>2
<1>11. n <= n + c
  BY <1>1, <1>4
<1> QED
  BY <1>0, <1>4, <1>9, <1>10, <1>11 DEF n

\* The ring does not mind packets that are put into the sending buffer.
LEMMA RingWaits ==
    ASSUME NEW B, NEW ps, Follow(ps), NEW base, RingHolds(B, ps, base), NEW qs, Follow(qs), Len(ps) <= Len(qs),
           \A k \in 1 .. Len(ps) : qs[k] = ps[k]
    PROVE  RingHolds(B, qs, base)
<1>1. /\ RingShape(B) /\ base \in Nat /\ Acked(B) \in 0 .. N - 1 /\ base + Acked(B) <= Len(ps)
      /\ Len(ps) \in Nat /\ Len(qs) \in Nat
  BY UnitFacts, EndIs DEF RingHolds
<1>2. base + Acked(B) <= Len(qs)
  BY <1>1, FileSize
<1>3. ASSUME NEW d \in 0 .. N - 1, UnitAt(B, d) # File!NoUnit
      PROVE  d < N - 1 /\ base + d + 1 <= Len(qs) /\ UnitAt(B, d).pkt = qs[base + d + 1]
  <2>1. d < N - 1 /\ base + d + 1 <= Len(ps) /\ UnitAt(B, d).pkt = ps[base + d + 1]
    BY <1>3 DEF RingHolds
  <2>2. base + d + 1 \in 1 .. Len(ps) /\ base + d + 1 <= Len(qs)
    BY <1>1, <2>1
  <2> QED
    BY <2>1, <2>2
<1>4. IF Acked(B) = 0 THEN B.notch = 0 ELSE B.notch < qs[base + 1].len
  <2>1. Acked(B) # 0 => base + 1 \in 1 .. Len(ps)
    BY <1>1, FileSize
  <2> QED
    BY <2>1 DEF RingHolds
<1> QED
  BY <1>1, <1>2, <1>3, <1>4 DEF RingHolds

-----------------------------------------------------------------------------
(* Files: every step *)

LEMMA FileBegins == ASSUME File!FileInit PROVE FileInv
<1>1. /\ packets = <<>> /\ written = <<>> /\ buf = File!EmptyRcvBuffer
      /\ {"offset", "tosend"} \subseteq DOMAIN sending /\ sending.tosend = 0 /\ sending.offset = 0
      /\ {"offset", "torecv", "acked"} \subseteq DOMAIN receiving /\ receiving.torecv = 0
      /\ receiving.offset = 0 /\ receiving.acked = 0
  BY DEF File!FileInit
<1>2. Len(packets) = 0 /\ Follow(packets) /\ EndOf(packets, 0) = 0
  BY <1>1 DEF Follow, EndOf
<1>3. /\ DOMAIN buf = {"unit", "start", "ackPos", "maxPos", "notch"}
      /\ buf.unit = [i \in 0 .. N - 1 |-> File!NoUnit]
      /\ buf.start = 0 /\ buf.ackPos = 0 /\ buf.maxPos = 0 /\ buf.notch = 0
  BY <1>1 DEF File!EmptyRcvBuffer, N
<1>4. RingShape(buf) /\ Acked(buf) = 0
  BY <1>3, FileSize DEF RingShape, Acked, AgeOf
<1>5. \A d \in 0 .. N - 1 : UnitAt(buf, d) = File!NoUnit
  BY <1>3, FileSize DEF UnitAt, Slot
<1>6. RingHolds(buf, packets, 0)
  BY <1>2, <1>3, <1>4, <1>5 DEF RingHolds
<1>7. written = [i \in 1 .. 0 |-> i]
  BY <1>1
<1> QED
  BY <1>1, <1>2, <1>3, <1>4, <1>6, <1>7, FileAssumption DEF FileInv

LEMMA FileFacts ==
    ASSUME FileInv, NEW base, base = receiving.acked - Acked(buf)
    PROVE  /\ Follow(packets) /\ RingHolds(buf, packets, base)
           /\ base \in Nat /\ Acked(buf) \in Nat /\ receiving.acked = base + Acked(buf)
           /\ receiving.acked <= Len(packets) /\ Len(packets) \in Nat
           /\ base \in 0 .. Len(packets) /\ receiving.acked \in 0 .. Len(packets)
           /\ sending.offset \in Nat /\ receiving.offset \in Nat /\ buf.notch \in Nat
           /\ receiving.offset = ReadTo(buf, packets, base)
<1>1. Follow(packets) /\ RingHolds(buf, packets, base) /\ receiving.acked \in Nat
  BY DEF FileInv
<1>2. base \in Nat /\ Acked(buf) \in 0 .. N - 1 /\ base + Acked(buf) <= Len(packets) /\ buf.notch \in Nat
  BY <1>1, UnitFacts DEF RingHolds, RingShape
<1>3. receiving.acked = base + Acked(buf) /\ Acked(buf) \in Nat
  BY <1>1, <1>2, FileSize
<1>4. Len(packets) \in Nat /\ Len(packets) \in 0 .. Len(packets)
  BY <1>1, EndIs
<1>5. base \in 0 .. Len(packets) /\ receiving.acked \in 0 .. Len(packets) /\ receiving.acked <= Len(packets)
  BY <1>1, <1>2, <1>3, <1>4
<1>6. EndOf(packets, base) \in Nat /\ EndOf(packets, Len(packets)) \in Nat
  BY <1>1, <1>4, <1>5, EndIs
<1>7. receiving.offset = EndOf(packets, base) + buf.notch /\ sending.offset = EndOf(packets, Len(packets))
  BY DEF FileInv
<1>8. receiving.offset \in Nat /\ sending.offset \in Nat
  BY <1>2, <1>6, <1>7
<1>9. receiving.offset = ReadTo(buf, packets, base)
  BY <1>7 DEF ReadTo
<1> QED
  BY <1>1, <1>2, <1>3, <1>4, <1>5, <1>8, <1>9

\* Steps that only move the threads on.
LEMMA FileStands ==
    ASSUME FileInv, packets' = packets, buf' = buf, written' = written,
           DOMAIN sending' = DOMAIN sending, sending'.offset = sending.offset, sending'.tosend \in Int,
           DOMAIN receiving' = DOMAIN receiving, receiving'.offset = receiving.offset,
           receiving'.acked = receiving.acked, receiving'.torecv \in Int
    PROVE  FileInv'
  BY DEF FileInv

LEMMA SenderMoves ==
    ASSUME FileInv,
           \/ \E size \in SndSizes : File!sendfile(size)
           \/ File!AckArrives
           \/ File!ErrorArrives
           \/ File!ShutdownArrives
           \/ File!FileClose
           \/ File!ReportIsLost
    PROVE  FileInv'
<1>1. /\ {"offset", "tosend"} \subseteq DOMAIN sending /\ sending.tosend \in Int
      /\ {"offset", "torecv", "acked"} \subseteq DOMAIN receiving /\ receiving.torecv \in Int
  BY DEF FileInv
<1>2. CASE \E size \in SndSizes : File!sendfile(size)
  <2>1. PICK size \in SndSizes : File!sendfile(size)
    BY <1>2
  <2>2. size \in Int
    BY FileAssumption
  <2> QED
    BY <1>1, <2>1, <2>2, FileStands DEF File!sendfile
<1>3. CASE File!AckArrives
  BY <1>1, <1>3, FileStands DEF File!AckArrives, File!Awake
<1>4. CASE File!ErrorArrives
  BY <1>1, <1>4, FileStands DEF File!ErrorArrives
<1>5. CASE File!ShutdownArrives
  BY <1>1, <1>5, FileStands DEF File!ShutdownArrives, File!Awake
<1>6. CASE File!FileClose
  BY <1>1, <1>6, FileStands DEF File!FileClose
<1>7. CASE File!ReportIsLost
  BY <1>1, <1>7, FileStands DEF File!ReportIsLost
<1> QED
  BY <1>2, <1>3, <1>4, <1>5, <1>6, <1>7

\* A block is put into the sending buffer.
LEMMA BlockIsSent ==
    ASSUME FileInv, NEW t \in Nat, t <= FileLen - sending.offset,
           packets' = packets \o File!Cut(sending.offset, t), buf' = buf, written' = written, receiving' = receiving,
           DOMAIN sending' = DOMAIN sending, sending'.offset = sending.offset + t, sending'.tosend \in Int
    PROVE  FileInv'
<1> DEFINE base == receiving.acked - Acked(buf)
<1>1. /\ Follow(packets) /\ RingHolds(buf, packets, base) /\ base \in 0 .. Len(packets)
      /\ sending.offset \in Nat /\ sending.offset = EndOf(packets, Len(packets))
  BY FileFacts DEF FileInv
<1>2. packets' = packets \o File!Cut(EndOf(packets, Len(packets)), t)
  BY <1>1
<1>3. /\ Follow(packets') /\ Len(packets) <= Len(packets') /\ \A k \in 1 .. Len(packets) : packets'[k] = packets[k]
      /\ EndOf(packets', Len(packets')) = EndOf(packets, Len(packets)) + t
  BY <1>1, <1>2, FollowsOn
<1>4. RingHolds(buf, packets', base) /\ EndOf(packets', base) = EndOf(packets, base)
  <2> HIDE DEF base
  <2>1. RingHolds(buf, packets', base)
    BY <1>1, <1>3, RingWaits
  <2>2. base # 0 => base \in 1 .. Len(packets)
    BY <1>1, EndIs
  <2>3. EndOf(packets', base) = EndOf(packets, base)
    BY <1>3, <2>2 DEF EndOf
  <2> QED
    BY <2>1, <2>3
<1>5. sending'.offset = EndOf(packets', Len(packets')) /\ sending'.offset <= FileLen
  BY <1>1, <1>3, FileAssumption
<1> QED
  BY <1>3, <1>4, <1>5 DEF FileInv

LEMMA BlockMoves == ASSUME FileInv, File!SendBlock PROVE FileInv'
<1>1. /\ {"offset", "tosend"} \subseteq DOMAIN sending /\ sending.tosend \in Int
      /\ {"offset", "torecv", "acked"} \subseteq DOMAIN receiving /\ receiving.torecv \in Int
      /\ sending.offset <= FileLen
  BY DEF FileInv
<1>2. buf' = buf /\ written' = written /\ receiving' = receiving
  BY DEF File!SendBlock
<1>3. CASE packets' = packets /\ ~(sending.tosend > 0 /\ File!addBufferFromFile(File!Lesser(sending.tosend, SndBlock)))
  <2>1. \/ sending' = File!Return(sending)
        \/ sending' = [File!Return(sending) EXCEPT !.health = TRUE]
        \/ sending' = [sending EXCEPT !.pc = "wait"]
    BY <1>3 DEF File!SendBlock
  <2>2. DOMAIN sending' = DOMAIN sending /\ sending'.offset = sending.offset /\ sending'.tosend = sending.tosend
    BY <1>1, <2>1 DEF File!Return
  <2> QED
    BY <1>1, <1>2, <1>3, <2>2, FileStands
<1>4. CASE sending.tosend > 0 /\ File!addBufferFromFile(File!Lesser(sending.tosend, SndBlock))
  <2> DEFINE len == File!Lesser(sending.tosend, SndBlock)
             t == File!Lesser(len, FileLen - sending.offset)
  <2>1. len \in Nat
    BY <1>1, <1>4, FileAssumption DEF File!Lesser
  <2> HIDE DEF len
  <2>2. t \in Nat /\ t <= FileLen - sending.offset
    BY <1>1, <2>1, FileFacts, FileAssumption DEF File!Lesser
  <2> HIDE DEF t
  <2>3. /\ packets' = packets \o File!Cut(sending.offset, t)
        /\ sending' = [sending EXCEPT !.tosend = @ - t, !.offset = @ + t, !.eof = t < len]
    BY <1>4 DEF File!addBufferFromFile, len, t
  <2>4. DOMAIN sending' = DOMAIN sending /\ sending'.offset = sending.offset + t /\ sending'.tosend = sending.tosend - t
    BY <1>1, <2>3
  <2>5. sending'.tosend \in Int
    BY <1>1, <2>2, <2>4
  <2> QED
    BY <1>2, <2>2, <2>3, <2>4, <2>5, BlockIsSent
<1>5. packets' = packets \/ (sending.tosend > 0 /\ File!addBufferFromFile(File!Lesser(sending.tosend, SndBlock)))
  BY DEF File!SendBlock
<1> QED
  BY <1>3, <1>4, <1>5

\* Steps that change the ring or what is read of it.
LEMMA ReceiverMoves ==
    ASSUME FileInv, packets' = packets, sending' = sending, NEW base, RingHolds(buf', packets, base),
           receiving'.acked = base + Acked(buf'),
           DOMAIN receiving' = DOMAIN receiving, receiving'.torecv \in Int,
           receiving'.offset = EndOf(packets, base) + buf'.notch,
           written' = [i \in 1 .. receiving'.offset |-> i]
    PROVE  FileInv'
<1>1. base \in Nat /\ Acked(buf') \in Nat
  <2>1. base \in Nat /\ RingShape(buf')
    BY DEF RingHolds
  <2>2. Acked(buf') \in 0 .. N - 1
    BY <2>1, UnitFacts
  <2> QED
    BY <2>1, <2>2, FileSize
<1>2. receiving'.acked \in Nat /\ receiving'.acked - Acked(buf') = base
  BY <1>1
<1> QED
  BY <1>2 DEF FileInv

LEMMA PacketComes == ASSUME FileInv, NEW k \in DOMAIN packets, File!PacketArrives(k) PROVE FileInv'
<1> DEFINE base == receiving.acked - Acked(buf)
           off == k - 1 - receiving.acked
<1>1. /\ Follow(packets) /\ RingHolds(buf, packets, base) /\ base \in Nat /\ Acked(buf) \in Nat
      /\ receiving.acked = base + Acked(buf) /\ Len(packets) \in Nat
  BY FileFacts
<1>2. /\ {"offset", "torecv", "acked"} \subseteq DOMAIN receiving /\ receiving.torecv \in Int
      /\ receiving.offset = EndOf(packets, base) + buf.notch
      /\ written = [i \in 1 .. receiving.offset |-> i]
  BY DEF FileInv
<1>3. k \in 1 .. Len(packets)
  BY <1>1 DEF Follow
<1>4. /\ off >= 0 /\ off < File!getAvailBufSize(buf)
      /\ File!addData(buf, packets[k], off).res = 0
      /\ buf' = File!addData(buf, packets[k], off).buf
      /\ packets' = packets /\ sending' = sending /\ receiving' = receiving /\ written' = written
  BY DEF File!PacketArrives
<1>5. off = k - 1 - (base + Acked(buf))
  BY <1>1
<1> HIDE DEF base, off
<1>6. RingHolds(buf', packets, base) /\ Acked(buf') = Acked(buf) /\ buf'.notch = buf.notch
  BY <1>1, <1>3, <1>4, <1>5, RingAdds
<1> QED
  BY <1>1, <1>2, <1>4, <1>6, ReceiverMoves

LEMMA PacketsAreAcked == ASSUME FileInv, File!Acknowledge PROVE FileInv'
<1> DEFINE base == receiving.acked - Acked(buf)
           Prefix(j) == /\ \A i \in 0 .. j - 1 : File!Held(buf, File!Ring(buf.ackPos + i))
                        /\ ~File!Held(buf, File!Ring(buf.ackPos + j))
           n == CHOOSE j \in 0 .. N : Prefix(j)
           free == {j \in 0 .. N : ~File!Held(buf, File!Ring(buf.ackPos + j))}
<1>1. /\ Follow(packets) /\ RingHolds(buf, packets, base) /\ base \in Nat /\ Acked(buf) \in Nat
      /\ receiving.acked = base + Acked(buf) /\ Len(packets) \in Nat
  BY FileFacts
<1>2. /\ {"offset", "torecv", "acked"} \subseteq DOMAIN receiving /\ receiving.torecv \in Int
      /\ receiving.offset = EndOf(packets, base) + buf.notch
      /\ written = [i \in 1 .. receiving.offset |-> i]
  BY DEF FileInv
<1>3. free # {} /\ free \subseteq Nat
  <2> DEFINE j0 == N - 1 - Acked(buf)
  <2>1. /\ RingShape(buf) /\ Acked(buf) \in 0 .. N - 1 /\ buf.ackPos = Slot(N, buf.start + Acked(buf))
        /\ buf.start \in 0 .. N - 1 /\ buf.ackPos \in 0 .. N - 1
    BY <1>1, UnitFacts DEF RingHolds, RingShape
  <2>2. /\ j0 \in 0 .. N /\ Acked(buf) \in 0 .. N /\ Acked(buf) + j0 = N - 1 /\ Acked(buf) + j0 <= N
        /\ buf.ackPos + j0 \in 0 .. 2 * N - 1 /\ N - 1 \in 0 .. N - 1
    BY <2>1, FileSize
  <2> HIDE DEF j0
  <2>3. Slot(N, buf.ackPos + j0) = Slot(N, buf.start + (Acked(buf) + j0))
    BY <2>1, <2>2, PlaceTwice
  <2>4. File!Ring(buf.ackPos + j0) = Slot(N, buf.start + (N - 1))
    BY <2>2, <2>3, RingIs
  <2>5. UnitAt(buf, N - 1) = File!NoUnit
    <3>1. ~(N - 1 < N - 1)
      BY FileSize
    <3> QED
      BY <1>1, <2>2, <3>1 DEF RingHolds
  <2>6. j0 \in free
    BY <2>2, <2>4, <2>5 DEF UnitAt, File!Held
  <2> QED
    BY <2>6, FileSize
<1>4. \E j \in 0 .. N : Prefix(j)
  <2>1. PICK j \in free : \A c \in free : j <= c
    BY <1>3, LeastOf
  <2>2. j \in 0 .. N /\ ~File!Held(buf, File!Ring(buf.ackPos + j))
    BY <2>1
  <2>3. ASSUME NEW i \in 0 .. j - 1 PROVE File!Held(buf, File!Ring(buf.ackPos + i))
    <3>1. i \in 0 .. N /\ ~(j <= i)
      BY <2>2, FileSize
    <3> QED
      BY <2>1, <3>1
  <2> QED
    BY <2>2, <2>3
<1>5. n \in 0 .. N /\ Prefix(n)
  <2> HIDE DEF Prefix
  <2> QED
    BY <1>4
<1>6. /\ buf' = File!rcvAckData(buf, n)
      /\ receiving' = [File!Awake(receiving) EXCEPT !.acked = @ + n]
      /\ packets' = packets /\ sending' = sending /\ written' = written
  BY DEF File!Acknowledge, N
<1> HIDE DEF n, base
<1>7. RingHolds(buf', packets, base) /\ Acked(buf') = Acked(buf) + n /\ buf'.notch = buf.notch
  <2>1. \A i \in 0 .. n - 1 : File!Held(buf, File!Ring(buf.ackPos + i))
    BY <1>5
  <2> QED
    BY <1>1, <1>5, <1>6, <2>1, RingAcks
<1>8. /\ DOMAIN receiving' = DOMAIN receiving /\ receiving'.offset = receiving.offset
      /\ receiving'.torecv = receiving.torecv /\ receiving'.acked = receiving.acked + n
  BY <1>2, <1>6 DEF File!Awake
<1>9. receiving'.acked = base + Acked(buf')
  BY <1>1, <1>5, <1>7, <1>8, FileSize
<1> QED
  BY <1>2, <1>6, <1>7, <1>8, <1>9, ReceiverMoves

LEMMA PacketsInIs ==
    ASSUME NEW B, RingShape(B), NEW len
    PROVE  File!PacketsIn(B, len) \in Nat /\ File!PacketsIn(B, len) <= Acked(B)
<1> DEFINE T == {k \in 0 .. File!getRcvDataSize(B) - 1 : File!FirstPackets(B, k) < len}
           a == Acked(B)
<1>1. File!getRcvDataSize(B) = a /\ a \in Nat
  <2>1. File!getRcvDataSize(B) = a /\ a \in 0 .. N - 1
    BY UnitFacts
  <2> QED
    BY <2>1, FileSize
<1> HIDE DEF a
<1>2. T \in SUBSET (0 .. a - 1)
  BY <1>1
<1>3. File!PacketsIn(B, len) = Cardinality(T)
  BY FileCardinality DEF File!PacketsIn
<1> HIDE DEF T
<1>4. IsFiniteSet(0 .. a - 1) /\ Cardinality(0 .. a - 1) = a
  <2>1. 0 \in Int /\ a - 1 \in Int
    BY <1>1
  <2>2. IsFiniteSet(0 .. a - 1) /\ Cardinality(0 .. a - 1) = IF 0 > a - 1 THEN 0 ELSE a - 1 - 0 + 1
    BY <2>1, FS_Interval
  <2> QED
    BY <1>1, <2>2
<1>5. IsFiniteSet(T) /\ Cardinality(T) <= Cardinality(0 .. a - 1)
  BY <1>2, <1>4, FS_Subset
<1>6. Cardinality(T) \in Nat
  BY <1>5, FS_CardinalityType
<1> QED
  BY <1>3, <1>4, <1>5, <1>6 DEF a

\* What is read comes after what is written.
LEMMA WritesGoOn == \A x, m \in Nat : FirstBytes(x) \o NextBytes(x, m) = FirstBytes(x + m)
<1> TAKE x, m \in Nat
<1> DEFINE p == FirstBytes(x)
           q == NextBytes(x, m)
           r == FirstBytes(x + m)
<1>1. p \in [1 .. x -> Nat] /\ q \in [1 .. m -> Nat] /\ r \in [1 .. x + m -> Nat] /\ x + m \in Nat
  BY DEF FirstBytes, NextBytes
<1>2. (\A i \in 1 .. x : r[i] = p[i]) /\ \A i \in 1 .. m : r[x + i] = q[i]
  BY DEF FirstBytes, NextBytes
<1> HIDE DEF p, q, r
<1>3. p \in Seq(Nat) /\ Len(p) = x /\ q \in Seq(Nat) /\ Len(q) = m
  BY <1>1, IsASeq
<1>4. r \in Seq(Nat) /\ Len(r) = x + m
  BY <1>1, IsASeq
<1>5. /\ Len(r) = Len(p) + Len(q)
      /\ \A i \in 1 .. Len(p) : r[i] = p[i]
      /\ \A i \in 1 .. Len(q) : r[Len(p) + i] = q[i]
  BY <1>2, <1>3, <1>4
<1> QED
  BY <1>3, <1>4, <1>5, GoesOn DEF p, q, r

LEMMA FirstIsSeq == \A x \in Nat : FirstBytes(x) \in Seq(Nat) /\ Len(FirstBytes(x)) = x
<1> TAKE x \in Nat
<1>1. FirstBytes(x) \in [1 .. x -> Nat]
  BY DEF FirstBytes
<1> QED
  BY <1>1, IsASeq

\* Reading out of the ring, in terms of the file.
IsTaken(base, len, C, q) ==
    \E n \in 0 .. Acked(buf) :
        /\ RingHolds(C, packets, base + n) /\ Acked(C) = Acked(buf) - n
        /\ Len(q) \in Nat
        /\ EndOf(packets, base + n) + C.notch = receiving.offset + Len(q)
        /\ File!Positions(q) = NextBytes(receiving.offset, Len(q))
        /\ Sum(buf, packets, base, Acked(buf)) <= len => n = Acked(buf)

LEMMA RingIsRead ==
    ASSUME FileInv, NEW len \in Nat, NEW base, base = receiving.acked - Acked(buf),
           NEW C, C = File!readBuffer(buf, len).buf, NEW q, q = File!readBuffer(buf, len).out
    PROVE  IsTaken(base, len, C, q)
<1>1. /\ Follow(packets) /\ RingHolds(buf, packets, base) /\ base \in Nat /\ Acked(buf) \in Nat
      /\ receiving.acked = base + Acked(buf) /\ Len(packets) \in Nat /\ receiving.offset \in Nat
      /\ receiving.offset = ReadTo(buf, packets, base)
  BY FileFacts
<1>2. IsRead(buf, packets, base, len, C, q)
  BY <1>1, ReadIs
<1>3. PICK n \in 0 .. Acked(buf) :
         /\ RingHolds(C, packets, base + n) /\ Acked(C) = Acked(buf) - n
         /\ InFile(q, packets, receiving.offset)
         /\ EndOf(packets, base + n) + C.notch = receiving.offset + Len(q)
         /\ Sum(buf, packets, base, Acked(buf)) <= len => n = Acked(buf)
  BY <1>1, <1>2 DEF IsRead
<1>4. Len(q) \in Nat
  BY <1>3 DEF InFile
<1>5. receiving.offset + Len(q) <= EndOf(packets, Len(packets))
  <2> DEFINE k == base + n
             a == Acked(C)
             c == C.notch
             e == EndOf(packets, k)
             last == EndOf(packets, Len(packets))
  <2>1. k \in Nat /\ a \in Nat /\ k + a <= Len(packets) /\ c \in Nat
        /\ (IF a = 0 THEN c = 0 ELSE c < packets[k + 1].len) /\ e + c = receiving.offset + Len(q)
    BY <1>1, <1>3 DEF RingHolds, RingShape
  <2> HIDE DEF k, a, c
  <2>2. k \in 0 .. Len(packets) /\ Len(packets) \in 0 .. Len(packets) /\ Len(packets) \in k .. Len(packets)
    BY <1>1, <2>1
  <2>3. e \in Nat /\ last \in Nat /\ e + (Len(packets) - k) <= last
    BY <1>1, <2>2, EndIs, EndGrows
  <2>4. CASE a = 0
    <3> HIDE DEF e, last
    <3>1. receiving.offset + Len(q) <= last
      BY <1>1, <2>1, <2>2, <2>3, <2>4
    <3> QED
      BY <3>1 DEF last
  <2>5. CASE a # 0
    <3> DEFINE k1 == k + 1
               e1 == EndOf(packets, k1)
               l == packets[k1].len
    <3>1. k1 \in 1 .. Len(packets) /\ k1 \in 0 .. Len(packets) /\ k1 - 1 = k /\ Len(packets) \in k1 .. Len(packets) /\ c < l
      BY <1>1, <2>1, <2>5
    <3> HIDE DEF k1
    <3>2. e1 + (Len(packets) - k1) <= last /\ e1 \in Nat
      BY <1>1, <3>1, EndGrows, EndIs
    <3>3. e1 = EndOf(packets, k1 - 1) + l /\ l \in Nat
      BY <1>1, <3>1, EndIs
    <3>4. e1 = e + l
      BY <3>1, <3>3
    <3> HIDE DEF e, last, e1, l
    <3>5. receiving.offset + Len(q) <= last
      BY <1>1, <1>4, <2>1, <2>3, <3>1, <3>2, <3>3, <3>4
    <3> QED
      BY <3>5 DEF last
  <2> QED
    BY <2>4, <2>5
<1>6. File!Positions(q) = NextBytes(receiving.offset, Len(q))
  BY <1>1, <1>3, <1>5, PositionsAre
<1> QED
  BY <1>3, <1>4, <1>6 DEF IsTaken

LEMMA BlockIsRead ==
    ASSUME FileInv, NEW len \in Nat, NEW writes \in 0 .. N, File!RecvBlock(len, writes),
           packets' = packets, sending' = sending
    PROVE  FileInv'
<1> DEFINE base == receiving.acked - Acked(buf)
           len1 == IF writes < File!PacketsIn(buf, len) THEN File!FirstPackets(buf, writes) ELSE len
           q == File!readBuffer(buf, len1).out
<1>1. /\ Follow(packets) /\ RingHolds(buf, packets, base) /\ base \in Nat /\ Acked(buf) \in Nat
      /\ receiving.acked = base + Acked(buf) /\ Len(packets) \in Nat /\ receiving.offset \in Nat
  BY FileFacts
<1>2. /\ {"offset", "torecv", "acked"} \subseteq DOMAIN receiving /\ receiving.torecv \in Int
      /\ written = [i \in 1 .. receiving.offset |-> i]
  BY DEF FileInv
<1>3. len1 \in Nat
  <2>1. RingShape(buf)
    BY <1>1 DEF RingHolds
  <2>2. CASE writes < File!PacketsIn(buf, len)
    <3>1. File!PacketsIn(buf, len) \in Nat /\ File!PacketsIn(buf, len) <= Acked(buf)
      BY <2>1, PacketsInIs
    <3>2. writes \in 0 .. Acked(buf)
      BY <1>1, <2>2, <3>1, FileSize
    <3>3. File!FirstPackets(buf, writes) \in Nat
      <4> HIDE DEF base
      <4>1. File!FirstPackets(buf, writes) = Sum(buf, packets, base, writes) /\ Sum(buf, packets, base, writes) \in Nat
        BY <1>1, <3>2, SumIs
      <4> QED
        BY <4>1
    <3> QED
      BY <2>2, <3>3
  <2>3. CASE ~(writes < File!PacketsIn(buf, len))
    BY <2>3
  <2> QED
    BY <2>2, <2>3
<1>4. /\ buf' = File!readBuffer(buf, len1).buf
      /\ written' = written \o File!Positions(q)
      /\ DOMAIN receiving' = DOMAIN receiving
      /\ receiving'.torecv = receiving.torecv - Len(q) /\ receiving'.offset = receiving.offset + Len(q)
      /\ receiving'.acked = receiving.acked
  <2> HIDE DEF len1
  <2>1. File!readBufferToFile(len, writes) = File!readBuffer(buf, len1)
    BY DEF File!readBufferToFile, len1
  <2> QED
    BY <1>2, <2>1 DEF File!RecvBlock
<1> HIDE DEF len1, base, q
<1>5. PICK n \in 0 .. Acked(buf) :
         /\ RingHolds(buf', packets, base + n) /\ Acked(buf') = Acked(buf) - n
         /\ Len(q) \in Nat
         /\ EndOf(packets, base + n) + buf'.notch = receiving.offset + Len(q)
         /\ File!Positions(q) = NextBytes(receiving.offset, Len(q))
  <2>1. q = File!readBuffer(buf, len1).out /\ base = receiving.acked - Acked(buf)
    BY DEF base, q
  <2>2. IsTaken(base, len1, buf', q)
    BY <1>3, <1>4, <2>1, RingIsRead
  <2> QED
    BY <2>2 DEF IsTaken
<1>6. written' = FirstBytes(receiving.offset + Len(q))
  <2>1. written = FirstBytes(receiving.offset)
    BY <1>2 DEF FirstBytes
  <2>2. written \o NextBytes(receiving.offset, Len(q)) = FirstBytes(receiving.offset + Len(q))
    BY <1>1, <1>5, <2>1, WritesGoOn
  <2> QED
    BY <1>4, <1>5, <2>2
<1>7. receiving'.acked = base + n + Acked(buf') /\ receiving'.torecv \in Int
  BY <1>1, <1>2, <1>4, <1>5
<1>8. /\ receiving'.offset = EndOf(packets, base + n) + buf'.notch
      /\ written' = [i \in 1 .. receiving'.offset |-> i]
  BY <1>4, <1>5, <1>6 DEF FirstBytes
<1> QED
  BY <1>4, <1>5, <1>7, <1>8, ReceiverMoves

LEMMA FileIsRead ==
    ASSUME FileInv, File!Receive \/ \E size \in RcvSizes : File!recvfile(size)
    PROVE  FileInv'
<1>1. /\ {"offset", "torecv", "acked"} \subseteq DOMAIN receiving /\ receiving.torecv \in Int
      /\ {"offset", "tosend"} \subseteq DOMAIN sending /\ sending.tosend \in Int
      /\ receiving.offset \in Nat /\ written = [i \in 1 .. receiving.offset |-> i]
  BY FileFacts DEF FileInv
<1>2. CASE \E size \in RcvSizes : File!recvfile(size)
  <2>1. PICK size \in RcvSizes : File!recvfile(size)
    BY <1>2
  <2>2. size \in Int
    BY FileAssumption
  <2>3. SubSeq(written, 1, receiving.offset) = written
    <3>1. written \in [1 .. receiving.offset -> Nat]
      BY <1>1
    <3>2. written \in Seq(Nat) /\ Len(written) = receiving.offset
      BY <1>1, <3>1, IsASeq
    <3> QED
      BY <3>2
  <2> QED
    BY <1>1, <2>1, <2>2, <2>3, FileStands DEF File!recvfile
<1>3. CASE File!Receive
  <2>1. packets' = packets /\ sending' = sending
    BY <1>3 DEF File!Receive
  <2>2. CASE /\ buf' = buf /\ written' = written
             /\ receiving' = File!Return(receiving) \/ receiving' = [receiving EXCEPT !.pc = "wait"]
    BY <1>1, <2>1, <2>2, FileStands DEF File!Return
  <2>3. CASE receiving.torecv > 0 /\ \E writes \in 0 .. N : File!RecvBlock(File!Lesser(receiving.torecv, RcvBlock), writes)
    <3>1. PICK writes \in 0 .. N : File!RecvBlock(File!Lesser(receiving.torecv, RcvBlock), writes)
      BY <2>3
    <3>2. File!Lesser(receiving.torecv, RcvBlock) \in Nat
      BY <1>1, <2>3, FileAssumption DEF File!Lesser
    <3> QED
      BY <2>1, <3>1, <3>2, BlockIsRead
  <2> QED
    BY <1>3, <2>2, <2>3 DEF File!Receive, N
<1> QED
  BY <1>2, <1>3

LEMMA FileMoves == ASSUME [PartsNext]_partsVars PROVE [File!FileNext]_(File!fileVars)
  BY DEF PartsNext, Only, partsVars, fileVars, File!fileVars

LEMMA FileInvariance == PartsSpec => []FileInv
<1>1. PartsInit => FileInv
  BY FileBegins DEF PartsInit
<1>2. FileInv /\ [PartsNext]_partsVars => FileInv'
  <2> SUFFICES ASSUME FileInv, [File!FileNext]_(File!fileVars) PROVE FileInv'
    BY FileMoves
  <2>1. CASE UNCHANGED File!fileVars
    BY <2>1 DEF File!fileVars, FileInv
  <2> QED
    BY <2>1, SenderMoves, BlockMoves, PacketComes, PacketsAreAcked, FileIsRead DEF File!FileNext
<1> QED
  BY <1>1, <1>2, PTL DEF PartsSpec

\* What is written and what is acknowledged and not read is the beginning of what was sent: a file
\* arrives byte for byte, however the calls, the blocks and the disk cut it up.
THEOREM FileCorrect == PartsSpec => []FileIsCopied
<1>1. FileInv => File!FileIsCopied
  <2> SUFFICES ASSUME FileInv PROVE File!FileIsCopied
    OBVIOUS
  <2> DEFINE base == receiving.acked - Acked(buf)
             q == File!readBuffer(buf, FileLen).out
             C == File!readBuffer(buf, FileLen).buf
             x == receiving.offset
             e == EndOf(packets, receiving.acked)
  <2>1. /\ Follow(packets) /\ RingHolds(buf, packets, base) /\ base \in Nat /\ Acked(buf) \in Nat
        /\ receiving.acked = base + Acked(buf) /\ Len(packets) \in Nat /\ x \in Nat
        /\ receiving.acked \in 0 .. Len(packets) /\ base \in 0 .. Len(packets) /\ buf.notch \in Nat
        /\ x = ReadTo(buf, packets, base) /\ Len(packets) \in 0 .. Len(packets)
    BY FileFacts
  <2>2. /\ written = [i \in 1 .. x |-> i] /\ FileLen \in Nat
        /\ sending.offset = EndOf(packets, Len(packets)) /\ sending.offset <= FileLen
    BY FileAssumption DEF FileInv
  <2>3. e \in Nat /\ EndOf(packets, base) \in Nat /\ EndOf(packets, Len(packets)) \in Nat /\ e <= FileLen
    <3>1. e \in Nat /\ EndOf(packets, base) \in Nat /\ EndOf(packets, Len(packets)) \in Nat
      BY <2>1, EndIs
    <3>2. Len(packets) \in receiving.acked .. Len(packets)
      BY <2>1
    <3>3. e + (Len(packets) - receiving.acked) <= EndOf(packets, Len(packets))
      BY <2>1, <3>2, EndGrows
    <3> QED
      BY <2>1, <2>2, <3>1, <3>3
  <2>4. Sum(buf, packets, base, Acked(buf)) <= FileLen
    <3>1. Acked(buf) # 0 => Sum(buf, packets, base, Acked(buf)) = e - EndOf(packets, base) - buf.notch
      BY <2>1 DEF Sum
    <3>2. Acked(buf) = 0 => Sum(buf, packets, base, Acked(buf)) = 0
      BY DEF Sum
    <3> HIDE DEF base, e
    <3> QED
      BY <2>1, <2>2, <2>3, <3>1, <3>2
  <2> HIDE DEF base, e, q, C
  <2>5. PICK n \in 0 .. Acked(buf) :
           /\ RingHolds(C, packets, base + n) /\ Acked(C) = Acked(buf) - n
           /\ Len(q) \in Nat
           /\ EndOf(packets, base + n) + C.notch = x + Len(q)
           /\ File!Positions(q) = NextBytes(x, Len(q))
           /\ Sum(buf, packets, base, Acked(buf)) <= FileLen => n = Acked(buf)
    <3>1. /\ q = File!readBuffer(buf, FileLen).out /\ C = File!readBuffer(buf, FileLen).buf
          /\ base = receiving.acked - Acked(buf)
      BY DEF base, q, C
    <3>2. IsTaken(base, FileLen, C, q)
      BY <2>2, <3>1, RingIsRead
    <3> QED
      BY <3>2 DEF IsTaken
  <2>6. e = x + Len(q)
    <3>1. n = Acked(buf) /\ Acked(C) = 0
      BY <2>1, <2>4, <2>5
    <3>2. C.notch = 0
      BY <2>5, <3>1 DEF RingHolds
    <3>3. EndOf(packets, base + n) = e
      BY <2>1, <3>1 DEF e
    <3> QED
      BY <2>3, <2>5, <3>2, <3>3
  <2>7. written \o File!InRing = FirstBytes(e)
    <3>1. written = FirstBytes(x)
      BY <2>2 DEF FirstBytes
    <3>2. FirstBytes(x) \o NextBytes(x, Len(q)) = FirstBytes(x + Len(q))
      <4> HIDE DEF x
      <4> QED
        BY <2>1, <2>5, WritesGoOn
    <3>3. File!InRing = NextBytes(x, Len(q))
      BY <2>5 DEF q, File!InRing
    <3> QED
      BY <2>6, <3>1, <3>2, <3>3
  <2>8. File!BytesOf(receiving.acked) = FirstBytes(e)
    BY <2>1, BytesOfIs DEF e, FirstBytes
  <2>9. File!BytesOf(Len(packets)) = [i \in 1 .. sending.offset |-> i]
    BY <2>1, <2>2, BytesOfIs
  <2>10. Len(written) = receiving.offset
    <3>1. written \in [1 .. x -> Nat]
      BY <2>1, <2>2
    <3> QED
      BY <2>1, <3>1, IsASeq
  <2> QED
    BY <2>7, <2>8, <2>9, <2>10 DEF File!FileIsCopied
<1>2. FileInv => FileIsCopied
  BY <1>1 DEF FileIsCopied
<1> QED
  BY <1>2, FileInvariance, PTL

-----------------------------------------------------------------------------
(* The sending buffer: the blocks of the ring, counted from the oldest packet *)

LEMMA SndBufferMoves == ASSUME [PartsNext]_partsVars PROVE [SndBuffer!SndBufferNext]_(SndBuffer!sndBufVars)
  BY DEF PartsNext, Only, partsVars, sndBufVars, SndBuffer!sndBufVars

\* What a block of a ring of n blocks holds.
Pkts == [msg : Nat, bound : 0 .. 3]
Block(n) == [next : 0 .. n - 1, pkt : Pkts]

\* o tells the order of the n blocks blk along m_pNext.
InTurn(blk, n, o) ==
    /\ n \in Nat \ {0} /\ blk \in [0 .. n - 1 -> Block(n)]
    /\ o \in [0 .. n - 1 -> 0 .. n - 1]
    /\ \A i, j \in 0 .. n - 1 : o[i] = o[j] => i = j
    /\ \A k \in 0 .. n - 1 : blk[o[k]].next = o[IF k + 1 = n THEN 0 ELSE k + 1]

\* The first l packets of the ring.
QueueOf(blk, o, l) == [k \in 1 .. l |-> blk[o[k - 1]].pkt]

\* How far block b is after block f.
HowFar(blk, f, n, b) == CHOOSE k \in 0 .. n - 1 : SndBuffer!After(blk, f, k) = b

LEMMA WalkIs ==
    ASSUME NEW blk, NEW n, NEW o, InTurn(blk, n, o), NEW j \in 0 .. n - 1, NEW m \in Nat, j + m <= n - 1
    PROVE  SndBuffer!After(blk, o[j], m) = o[j + m]
<1> DEFINE G == [k \in 0 .. m |-> o[j + k]]
           Rec(f) == f = [k \in 0 .. m |-> IF k = 0 THEN o[j] ELSE blk[f[k - 1]].next]
           walk == CHOOSE f : Rec(f)
<1>1. n \in Nat /\ j \in Nat /\ j + 0 = j
  BY DEF InTurn
<1>2. \A k \in 1 .. m : blk[o[j + (k - 1)]].next = o[j + k]
  <2> TAKE k \in 1 .. m
  <2>1. j + (k - 1) \in 0 .. n - 1 /\ j + (k - 1) + 1 # n /\ j + (k - 1) + 1 = j + k
    BY <1>1
  <2> QED
    BY <2>1 DEF InTurn
<1>3. Rec(G)
  <2>1. ASSUME NEW k \in 0 .. m PROVE G[k] = IF k = 0 THEN o[j] ELSE blk[G[k - 1]].next
    <3>1. CASE k = 0
      BY <1>1, <3>1
    <3>2. CASE k # 0
      <4>1. k \in 1 .. m /\ k - 1 \in 0 .. m
        BY <3>2
      <4> QED
        BY <1>2, <3>2, <4>1
    <3> QED
      BY <3>1, <3>2
  <2> QED
    BY <2>1
<1>4. Rec(walk)
  <2> HIDE DEF Rec, G
  <2> QED
    BY <1>3
<1>5. SndBuffer!After(blk, o[j], m) = walk[m]
  BY DEF SndBuffer!After
<1> HIDE DEF walk
<1>6. walk[0] = G[0]
  BY <1>1, <1>4
<1>7. ASSUME NEW k \in 1 .. m, walk[k - 1] = G[k - 1] PROVE walk[k] = G[k]
  <2>1. k \in 0 .. m /\ k # 0 /\ k - 1 \in 0 .. m
    OBVIOUS
  <2>2. walk[k] = blk[walk[k - 1]].next
    BY <1>4, <2>1
  <2> QED
    BY <1>2, <1>7, <2>1, <2>2
<1>8. walk[m] = G[m]
  <2> HIDE DEF G, Rec
  <2> QED
    BY <1>6, <1>7, Stepwise
<1> QED
  BY <1>5, <1>8

LEMMA FarIs ==
    ASSUME NEW blk, NEW n, NEW o, InTurn(blk, n, o), NEW j \in 0 .. n - 1
    PROVE  HowFar(blk, o[0], n, o[j]) = j
<1>1. n \in Nat /\ 0 \in 0 .. n - 1
  BY DEF InTurn
<1>2. ASSUME NEW k \in 0 .. n - 1 PROVE SndBuffer!After(blk, o[0], k) = o[k]
  <2>1. k \in Nat /\ 0 + k <= n - 1 /\ 0 + k = k
    BY <1>1
  <2> QED
    BY <1>1, <2>1, WalkIs
<1>3. \A k \in 0 .. n - 1 : SndBuffer!After(blk, o[0], k) = o[j] <=> k = j
  BY <1>2 DEF InTurn
<1> HIDE DEF InTurn
<1> DEFINE A(k) == SndBuffer!After(blk, o[0], k) = o[j]
<1>4. \A k \in 0 .. n - 1 : A(k) <=> k = j
  BY <1>3
<1> HIDE DEF A
<1>5. (CHOOSE k \in 0 .. n - 1 : A(k)) = j
  BY <1>4
<1> QED
  BY <1>5 DEF HowFar, A

LEMMA SndCardinality == \A T : SndBuffer!Cardinality(T) = Cardinality(T)
  BY Zenon DEF SndBuffer!Cardinality, Cardinality

LEMMA BlocksAre == \A n \in Nat : SndBuffer!Cardinality(0 .. n - 1) = n
<1> TAKE n \in Nat
<1>1. 0 \in Int /\ n - 1 \in Int
  OBVIOUS
<1>2. Cardinality(0 .. n - 1) = IF 0 > n - 1 THEN 0 ELSE n - 1 - 0 + 1
  BY <1>1, FS_Interval
<1> QED
  BY <1>2, SndCardinality

LEMMA QueueIsSeq ==
    ASSUME NEW blk, NEW n, NEW o, InTurn(blk, n, o), NEW l \in 0 .. n - 1
    PROVE  QueueOf(blk, o, l) \in Seq(Pkts) /\ Len(QueueOf(blk, o, l)) = l
<1>1. n \in Nat /\ l \in Nat /\ \A k \in 1 .. l : k - 1 \in 0 .. n - 1
  BY DEF InTurn
<1>2. \A k \in 1 .. l : blk[o[k - 1]].pkt \in Pkts
  BY <1>1 DEF InTurn, Block
<1>3. QueueOf(blk, o, l) \in [1 .. l -> Pkts]
  BY <1>2 DEF QueueOf
<1> QED
  BY <1>1, <1>3, IsASeq

-----------------------------------------------------------------------------
(* The ring grows *)

\* Block j of the g * i blocks put into a ring of n blocks, the last i of them first.
NewBlock(n, g, i, j) == n + (g - 1 - (j \div i)) * i + (j % i)

LEMMA Division ==
    ASSUME NEW i \in Nat \ {0}, NEW j \in Nat
    PROVE  j \div i \in Nat /\ j % i \in 0 .. i - 1 /\ j = (j \div i) * i + (j % i)
<1>1. j % i \in 0 .. i - 1
  OBVIOUS
<1>2. j \div i \in Nat
  BY QuotientIsNat
<1>3. j = i * (j \div i) + (j % i)
  OBVIOUS
<1>4. i * (j \div i) = (j \div i) * i
  BY <1>2
<1> QED
  BY <1>1, <1>2, <1>3, <1>4

LEMMA DividedAs ==
    ASSUME NEW i \in Nat \ {0}, NEW q \in Nat, NEW r \in 0 .. i - 1, NEW p \in Nat, NEW s \in 0 .. i - 1,
           q * i + r = p * i + s
    PROVE  q = p /\ r = s
<1>1. ASSUME NEW a \in Nat, NEW b \in Nat, NEW x \in 0 .. i - 1, NEW y \in 0 .. i - 1, a < b PROVE a * i + x < b * i + y
  <2>1. (a + 1) * i <= b * i /\ (a + 1) * i = a * i + i
    BY <1>1, TimesGrows
  <2>2. a * i \in Nat /\ b * i \in Nat
    BY TimesGrows
  <2> QED
    BY <2>1, <2>2
<1>2. ~(q < p) /\ ~(p < q)
  <2>1. q < p => q * i + r < p * i + s
    BY <1>1
  <2>2. p < q => p * i + s < q * i + r
    BY <1>1
  <2>3. q * i \in Nat /\ p * i \in Nat
    BY TimesGrows
  <2> QED
    BY <2>1, <2>2, <2>3
<1>3. q = p
  BY <1>2
<1>4. q * i \in Nat /\ r \in Nat /\ s \in Nat
  BY TimesGrows
<1> QED
  BY <1>3, <1>4

LEMMA QuotientIs ==
    ASSUME NEW i \in Nat \ {0}, NEW q \in Nat, NEW r \in 0 .. i - 1
    PROVE  (q * i + r) \div i = q /\ (q * i + r) % i = r
<1> DEFINE j == q * i + r
<1>1. j \in Nat
  BY TimesGrows
<1> HIDE DEF j
<1>2. j \div i \in Nat /\ j % i \in 0 .. i - 1 /\ j = (j \div i) * i + (j % i)
  BY <1>1, Division
<1>3. j = q * i + r
  BY DEF j
<1>4. j \div i = q /\ j % i = r
  BY <1>2, <1>3, DividedAs
<1> QED
  BY <1>4 DEF j

\* What comes after block j of the new ones.
LEMMA NewBlocks ==
    ASSUME NEW n \in Nat, NEW g \in Nat, NEW i \in Nat \ {0}, NEW j \in 0 .. g * i - 1
    PROVE  LET b == NewBlock(n, g, i, j)
               ends == (b + 1 - n) % i = 0
           IN  /\ b \in n .. n + g * i - 1
               /\ j + 1 < g * i /\ ends => ~(b < n + i) /\ NewBlock(n, g, i, j + 1) = b + 1 - 2 * i
               /\ ~ends => j + 1 < g * i /\ NewBlock(n, g, i, j + 1) = b + 1
               /\ j + 1 = g * i => b < n + i
<1> DEFINE q == j \div i
           r == j % i
           p == g - 1 - q
           b == NewBlock(n, g, i, j)
           c == NewBlock(n, g, i, j + 1)
           d == b + 1 - n
           qi == q * i
           pi == p * i
           gi == g * i
<1>1. q \in Nat /\ r \in 0 .. i - 1 /\ j = qi + r /\ gi \in Nat /\ j \in Nat /\ j < gi
  <2>1. gi \in Nat
    BY TimesGrows
  <2>2. j \in Nat /\ j < gi
    BY <2>1
  <2> QED
    BY <2>1, <2>2, Division
<1>2. p \in Nat /\ q + 1 <= g /\ p + 1 <= g /\ p + 1 = g - q
  <2> SUFFICES ~(g <= q)
    BY <1>1
  <2> SUFFICES ASSUME g <= q PROVE FALSE
    OBVIOUS
  <2>1. gi <= qi /\ qi \in Nat
    BY <1>1, TimesGrows
  <2> HIDE DEF q, r, qi, gi
  <2> QED
    BY <1>1, <2>1
<1>3. /\ pi \in Nat /\ (p + 1) * i = pi + i /\ pi + i <= gi /\ qi \in Nat /\ (q + 1) * i = qi + i /\ qi + i <= gi
      /\ (p - 1) * i = pi - i
  <2>1. pi \in Nat /\ (p + 1) * i = pi + i /\ (p + 1) * i <= gi
    BY <1>1, <1>2, TimesGrows
  <2>2. qi \in Nat /\ (q + 1) * i = qi + i /\ (q + 1) * i <= gi
    BY <1>1, <1>2, TimesGrows
  <2>3. (p - 1) * i = pi - i
    <3> HIDE DEF p
    <3> QED
      BY <1>2
  <2> QED
    BY <2>1, <2>2, <2>3
<1>4. b = n + pi + r /\ d = pi + (r + 1)
  <2>1. b = n + pi + r
    BY DEF NewBlock
  <2> HIDE DEF b, r, p, pi, q
  <2> QED
    BY <1>1, <1>3, <2>1
<1>5. b \in n .. n + gi - 1
  <2> HIDE DEF b, r, p, pi, q, gi
  <2> QED
    BY <1>1, <1>3, <1>4
<1>6. CASE r + 1 < i
  <2>1. r + 1 \in 0 .. i - 1 /\ r + 1 # 0 /\ j + 1 = q * i + (r + 1)
    <3> HIDE DEF r, q
    <3> QED
      BY <1>1, <1>3, <1>6 DEF qi
  <2>2. (q * i + (r + 1)) \div i = q /\ (q * i + (r + 1)) % i = r + 1
    <3> HIDE DEF r, q
    <3> QED
      BY <1>1, <2>1, QuotientIs
  <2>3. (p * i + (r + 1)) % i = r + 1
    <3> HIDE DEF r, p
    <3> QED
      BY <1>2, <2>1, QuotientIs
  <2>4. d % i = r + 1
    <3> HIDE DEF d, r, p
    <3> QED
      BY <1>4, <2>3 DEF pi
  <2>5. c = n + p * i + (r + 1)
    <3>1. (j + 1) \div i = q /\ (j + 1) % i = r + 1
      BY <2>1, <2>2
    <3> HIDE DEF q, r
    <3> QED
      BY <3>1 DEF NewBlock
  <2>6. j + 1 # gi
    <3>1. g \in Nat /\ 0 \in 0 .. i - 1 /\ g * i + 0 = gi
      BY <1>1
    <3>2. (g * i + 0) % i = 0
      BY <3>1, QuotientIs
    <3> HIDE DEF q, r, gi
    <3> QED
      BY <2>1, <2>2, <3>1, <3>2
  <2>7. j + 1 < gi /\ c = b + 1
    <3> HIDE DEF b, c, q, r, p, gi
    <3> QED
      BY <1>1, <1>3, <1>4, <2>5, <2>6 DEF pi
  <2>8. d % i # 0 /\ j + 1 < gi /\ c = b + 1 /\ b \in n .. n + gi - 1
    <3> HIDE DEF b, c, d, q, r, p, gi
    <3> QED
      BY <1>5, <2>1, <2>4, <2>7
  <2> QED
    BY <2>8, <1>1
<1>7. CASE r + 1 = i
  <2>1. 0 \in 0 .. i - 1 /\ q + 1 \in Nat /\ p + 1 \in Nat /\ j + 1 = (q + 1) * i + 0 /\ d = (p + 1) * i + 0
    <3> HIDE DEF d, r, q, p
    <3> QED
      BY <1>1, <1>2, <1>3, <1>4, <1>7 DEF qi, pi
  <2>2. ((q + 1) * i + 0) \div i = q + 1 /\ ((q + 1) * i + 0) % i = 0
    <3> HIDE DEF q
    <3> QED
      BY <2>1, QuotientIs
  <2>3. d % i = 0
    <3>1. ((p + 1) * i + 0) % i = 0
      <4> HIDE DEF p
      <4> QED
        BY <2>1, QuotientIs
    <3> HIDE DEF d, p
    <3> QED
      BY <2>1, <3>1
  <2>4. c = n + (g - 1 - (q + 1)) * i + 0
    <3>1. (j + 1) \div i = q + 1 /\ (j + 1) % i = 0
      BY <2>1, <2>2
    <3> HIDE DEF q
    <3> QED
      BY <3>1 DEF NewBlock
  <2>5. g - 1 - (q + 1) = p - 1
    BY <1>1
  <2>6. c = b + 1 - 2 * i
    <3>1. c = n + (p - 1) * i + 0
      <4> HIDE DEF c
      <4> QED
        BY <2>4, <2>5
    <3> HIDE DEF b, c, q, r, p
    <3> QED
      BY <1>1, <1>3, <1>4, <1>7, <3>1 DEF pi
  <2>7. j + 1 < gi => ~(b < n + i)
    <3> SUFFICES ASSUME j + 1 < gi PROVE ~(b < n + i)
      OBVIOUS
    <3>1. q + 1 # g
      <4> SUFFICES ASSUME q + 1 = g PROVE FALSE
        OBVIOUS
      <4>1. (q + 1) * i = gi
        BY DEF gi
      <4> HIDE DEF q, r, gi
      <4> QED
        BY <1>1, <1>3, <1>7, <4>1 DEF qi
    <3>2. 1 <= p /\ 1 * i = i
      BY <1>1, <1>2, <3>1
    <3>3. i <= pi
      <4>1. 1 * i <= p * i
        <5> HIDE DEF p
        <5> QED
          BY <1>2, <3>2, TimesGrows
      <4> QED
        BY <3>2, <4>1
    <3> HIDE DEF b, p, r, q
    <3> QED
      BY <1>1, <1>3, <1>4, <3>3 DEF pi
  <2>8. j + 1 = gi => b < n + i
    <3> SUFFICES ASSUME j + 1 = gi PROVE b < n + i
      OBVIOUS
    <3>1. q + 1 = g
      <4>1. q + 1 < g => (q + 1) + 1 <= g
        BY <1>1, <1>2
      <4>2. ((q + 1) + 1) * i = (q + 1) * i + i
        <5> HIDE DEF q
        <5> QED
          BY <2>1, TimesGrows
      <4>3. (q + 1) + 1 <= g => ((q + 1) + 1) * i <= gi
        <5> HIDE DEF q
        <5> QED
          BY <2>1, TimesGrows
      <4>4. j + 1 = (q + 1) * i
        <5> HIDE DEF q
        <5> QED
          BY <2>1, <1>3
      <4> DEFINE z == (q + 1) * i
                 y == ((q + 1) + 1) * i
      <4>5. z \in Nat /\ z = gi /\ y = z + i
        BY <1>1, <4>2, <4>4
      <4> HIDE DEF q, z, y, gi
      <4>6. ~((q + 1) + 1 <= g)
        BY <4>3, <4>5 DEF y
      <4> QED
        BY <1>1, <1>2, <4>1, <4>6
    <3>2. p = 0
      BY <1>1, <3>1
    <3>3. pi = 0
      BY <3>2
    <3> HIDE DEF b, p, r, q, pi
    <3> QED
      BY <1>1, <1>4, <3>3
  <2> HIDE DEF b, c, q, r, p, gi
  <2> QED
    BY <1>5, <2>3, <2>6, <2>7, <2>8 DEF b, c, gi, d
<1>8. r + 1 < i \/ r + 1 = i
  <2> HIDE DEF r
  <2> QED
    BY <1>1
<1> QED
  BY <1>6, <1>7, <1>8

\* The first of the new blocks, and no two of them are the same.
LEMMA NewBlocksDiffer ==
    ASSUME NEW n \in Nat, NEW g \in Nat, NEW i \in Nat \ {0}
    PROVE  /\ NewBlock(n, g, i, 0) = n + (g - 1) * i
           /\ \A j, k \in 0 .. g * i - 1 : NewBlock(n, g, i, j) = NewBlock(n, g, i, k) => j = k
<1>1. NewBlock(n, g, i, 0) = n + (g - 1) * i
  <2>1. 0 * i + 0 = 0 /\ 0 \in Nat /\ 0 \in 0 .. i - 1
    OBVIOUS
  <2>2. (0 * i + 0) \div i = 0 /\ (0 * i + 0) % i = 0
    BY <2>1, QuotientIs
  <2>3. 0 \div i = 0 /\ 0 % i = 0
    BY <2>1, <2>2
  <2>4. (g - 1 - 0) * i \in Int /\ g - 1 - 0 = g - 1
    OBVIOUS
  <2> QED
    BY <2>3, <2>4 DEF NewBlock
<1>2. ASSUME NEW j \in 0 .. g * i - 1, NEW k \in 0 .. g * i - 1, NewBlock(n, g, i, j) = NewBlock(n, g, i, k) PROVE j = k
  <2> DEFINE q(h) == h \div i
             r(h) == h % i
             p(h) == g - 1 - q(h)
  <2>1. ASSUME NEW h \in 0 .. g * i - 1 PROVE q(h) \in Nat /\ r(h) \in 0 .. i - 1 /\ h = q(h) * i + r(h) /\ p(h) \in Nat
    <3>1. h \in Nat /\ g * i \in Nat
      BY TimesGrows
    <3>2. q(h) \in Nat /\ r(h) \in 0 .. i - 1 /\ h = q(h) * i + r(h)
      BY <3>1, Division
    <3>3. ~(g <= q(h))
      <4>1. g <= q(h) => g * i <= q(h) * i /\ q(h) * i \in Nat
        BY <3>2, TimesGrows
      <4> DEFINE z == q(h) * i
                 y == g * i
      <4>2. h = z + r(h) /\ r(h) \in Nat /\ h < y /\ y \in Nat /\ (g <= q(h) => y <= z /\ z \in Nat)
        BY <3>1, <3>2, <4>1
      <4> HIDE DEF z, y, q, r
      <4> QED
        BY <4>2
    <3> HIDE DEF q, r
    <3> QED
      BY <3>2, <3>3
  <2>2. NewBlock(n, g, i, j) = n + p(j) * i + r(j) /\ NewBlock(n, g, i, k) = n + p(k) * i + r(k)
    BY DEF NewBlock
  <2>3. p(j) * i \in Nat /\ p(k) * i \in Nat
    <3>1. p(j) \in Nat /\ p(k) \in Nat
      BY <2>1
    <3> HIDE DEF p
    <3> QED
      BY <3>1, TimesGrows
  <2>4. p(j) * i + r(j) = p(k) * i + r(k)
    <3> DEFINE y == p(j) * i
               z == p(k) * i
    <3>1. y \in Nat /\ z \in Nat
      BY <2>3
    <3>2. r(j) \in 0 .. i - 1 /\ r(k) \in 0 .. i - 1
      BY <2>1
    <3>3. n + y + r(j) = n + z + r(k)
      BY <1>2, <2>2
    <3> HIDE DEF y, z, r
    <3>4. y + r(j) = z + r(k)
      BY <3>1, <3>2, <3>3
    <3> QED
      BY <3>4 DEF y, z
  <2>5. p(j) = p(k) /\ r(j) = r(k)
    <3>1. p(j) \in Nat /\ p(k) \in Nat /\ r(j) \in 0 .. i - 1 /\ r(k) \in 0 .. i - 1
      BY <2>1
    <3> HIDE DEF p, r
    <3> QED
      BY <2>4, <3>1, DividedAs
  <2>6. q(j) = q(k)
    <3>1. q(j) \in Nat /\ q(k) \in Nat
      BY <2>1
    <3> HIDE DEF q
    <3> QED
      BY <2>5, <3>1 DEF p
  <2>7. j = q(j) * i + r(j) /\ k = q(k) * i + r(k)
    BY <2>1
  <2> HIDE DEF q, r
  <2> QED
    BY <2>5, <2>6, <2>7
<1> QED
  BY <1>1, <1>2

\* The ring blk of n blocks after g increases behind block top, and its order.
Batch == FirstBlocks      \* the blocks of an increase
Grown(blk, n, top, g) ==
    [b \in 0 .. (n + g * Batch) - 1 |->
        IF b \in 0 .. n - 1
        THEN IF b = top /\ g > 0 THEN [blk[b] EXCEPT !.next = n + (g - 1) * Batch] ELSE blk[b]
        ELSE [next |-> IF (b + 1 - n) % Batch = 0 THEN IF b < n + Batch THEN blk[top].next ELSE b + 1 - 2 * Batch ELSE b + 1,
              pkt |-> SndBuffer!NoPacket]]
GrownOrder(n, o, l, g) ==
    [k \in 0 .. (n + g * Batch) - 1 |->
        IF k <= l THEN o[k] ELSE IF k <= l + g * Batch THEN NewBlock(n, g, Batch, k - (l + 1)) ELSE o[k - g * Batch]]

LEMMA BlockIs ==
    ASSUME NEW n, NEW x \in 0 .. n - 1
    PROVE  /\ \A p \in Pkts : [next |-> x, pkt |-> p] \in Block(n)
           /\ \A B \in Block(n) : [B EXCEPT !.next = x] \in Block(n) /\ [B EXCEPT !.next = x].pkt = B.pkt
           /\ \A B \in Block(n), p \in Pkts : [B EXCEPT !.pkt = p] \in Block(n)
  BY DEF Block

LEMMA GrownBlocks ==
    ASSUME NEW blk, NEW n, NEW o, InTurn(blk, n, o), NEW l \in 0 .. n - 1, NEW g \in Nat, g > 0
    PROVE  Grown(blk, n, o[l], g) \in [0 .. (n + g * Batch) - 1 -> Block(n + g * Batch)]
<1> DEFINE D == g * Batch
<1>1. D \in Nat /\ Batch \in Nat /\ Batch > 0 /\ n \in Nat /\ n > 0 /\ Batch <= D
  <2>1. 1 * Batch <= g * Batch /\ Batch \in Nat /\ Batch > 0 /\ 1 * Batch = Batch /\ g * Batch \in Nat
    BY SndBufferAssumption, TimesGrows DEF Batch
  <2> QED
    BY <2>1 DEF InTurn
<1>2. /\ \A b \in 0 .. n - 1 : blk[b] \in [next : 0 .. n - 1, pkt : Pkts]
      /\ o[l] \in 0 .. n - 1 /\ blk[o[l]].next \in 0 .. n - 1
  BY DEF InTurn, Block
<1>3. SndBuffer!NoPacket \in Pkts
  BY DEF SndBuffer!NoPacket, Pkts
<1>0. Batch \in Nat \ {0}
  BY <1>1
<1>4. n + (g - 1) * Batch \in 0 .. (n + D) - 1
  <2>1. (g - 1) * Batch \in Nat /\ (g - 1 + 1) * Batch = (g - 1) * Batch + Batch /\ g - 1 + 1 = g
    BY <1>1, TimesGrows
  <2> DEFINE x == (g - 1) * Batch
  <2>2. x \in Nat /\ D = x + Batch
    BY <2>1
  <2> HIDE DEF x, D
  <2>3. n + x \in 0 .. (n + D) - 1
    BY <1>1, <2>2
  <2> QED
    BY <2>3 DEF x
<1>5. ASSUME NEW b \in n .. (n + D) - 1
      PROVE  /\ (b + 1 - n) % Batch = 0 /\ ~(b < n + Batch) => b + 1 - 2 * Batch \in 0 .. (n + D) - 1
             /\ (b + 1 - n) % Batch # 0 => b + 1 \in 0 .. (n + D) - 1
  <2> DEFINE d == b + 1 - n
             k == d \div Batch
  <2>1. d \in Nat /\ b \in Nat /\ b = d + n - 1 /\ d <= D /\ d > 0
    BY <1>1
  <2> HIDE DEF d
  <2>2. k \in Nat /\ d % Batch \in 0 .. Batch - 1 /\ d = k * Batch + (d % Batch)
    BY <1>0, <2>1, Division
  <2>3. ASSUME d % Batch = 0, ~(b < n + Batch) PROVE b + 1 - 2 * Batch \in 0 .. (n + D) - 1
    <3>1. ~(k <= 1)
      <4>1. k <= 1 => k * Batch <= 1 * Batch /\ 1 * Batch = Batch /\ k * Batch \in Nat
        BY <1>1, <2>2, TimesGrows
      <4> DEFINE x == k * Batch
      <4>2. k <= 1 => x <= Batch /\ x \in Nat
        BY <4>1
      <4>3. x = d
        <5>1. k * Batch \in Nat
          BY <1>1, <2>2, TimesGrows
        <5> HIDE DEF k
        <5> QED
          BY <2>2, <2>3, <5>1
      <4> HIDE DEF x, k, D
      <4> QED
        BY <1>1, <2>1, <2>3, <4>2, <4>3
    <3>2. 2 * Batch <= k * Batch
      <4> HIDE DEF k
      <4> QED
        BY <1>1, <2>2, <3>1, TimesGrows
    <3>3. 2 * Batch <= d
      <4> DEFINE x == k * Batch
      <4>1. x \in Nat /\ d = x + (d % Batch) /\ 2 * Batch <= x
        <5>1. k * Batch \in Nat
          BY <1>1, <2>2, TimesGrows
        <5> QED
          BY <2>2, <3>2, <5>1
      <4> HIDE DEF x
      <4> QED
        BY <2>1, <2>3, <4>1
    <3> HIDE DEF k, D
    <3> QED
      BY <1>1, <2>1, <3>3
  <2>4. ASSUME d % Batch # 0 PROVE b + 1 \in 0 .. (n + D) - 1
    <3>1. d # D
      <4>1. 0 \in 0 .. Batch - 1 /\ g * Batch + 0 = D
        BY <1>1
      <4>2. (g * Batch + 0) % Batch = 0
        BY <1>1, <4>1, QuotientIs
      <4> HIDE DEF D
      <4> QED
        BY <2>4, <4>1, <4>2
    <3> HIDE DEF D
    <3> QED
      BY <1>1, <2>1, <3>1
  <2> QED
    BY <2>3, <2>4 DEF d
<1>6. ASSUME NEW b \in 0 .. (n + D) - 1 PROVE Grown(blk, n, o[l], g)[b] \in Block(n + D)
  <2>1. CASE b \in 0 .. n - 1
    <3>1. blk[b] \in Block(n + D)
      <4> HIDE DEF D
      <4> QED
        BY <1>1, <1>2, <2>1 DEF Block
    <3>2. [blk[b] EXCEPT !.next = n + (g - 1) * Batch] \in Block(n + D)
      <4> DEFINE x == n + (g - 1) * Batch
      <4>1. x \in 0 .. (n + D) - 1
        BY <1>4
      <4> HIDE DEF x, D
      <4>2. [blk[b] EXCEPT !.next = x] \in Block(n + D)
        BY <3>1, <4>1, BlockIs
      <4> QED
        BY <4>2 DEF x
    <3> QED
      BY <2>1, <3>1, <3>2 DEF Grown
  <2>2. CASE b \notin 0 .. n - 1
    <3>1. b \in n .. (n + D) - 1
      <4> HIDE DEF D
      <4> QED
        BY <1>1, <2>2
    <3> DEFINE x == IF (b + 1 - n) % Batch = 0 THEN IF b < n + Batch THEN blk[o[l]].next ELSE b + 1 - 2 * Batch ELSE b + 1
    <3>2. x \in 0 .. (n + D) - 1
      <4>1. blk[o[l]].next \in 0 .. (n + D) - 1
        <5> HIDE DEF D
        <5> QED
          BY <1>1, <1>2
      <4> HIDE DEF D
      <4> QED
        BY <1>5, <3>1, <4>1
    <3>3. Grown(blk, n, o[l], g)[b] = [next |-> x, pkt |-> SndBuffer!NoPacket]
      BY <2>2 DEF Grown
    <3> HIDE DEF x, D
    <3>4. [next |-> x, pkt |-> SndBuffer!NoPacket] \in Block(n + D)
      BY <1>3, <3>2, BlockIs
    <3> QED
      BY <3>3, <3>4
  <2> QED
    BY <2>1, <2>2
<1> QED
  BY <1>6 DEF Grown

\* Where a block of the grown ring comes from.
LEMMA GrownAt ==
    ASSUME NEW blk, NEW n, NEW o, InTurn(blk, n, o), NEW l \in 0 .. n - 1, NEW g \in Nat
    PROVE  LET r == Grown(blk, n, o[l], g)
               q == GrownOrder(n, o, l, g)
           IN  /\ \A k \in 0 .. n - 1 : /\ k <= l => k \in 0 .. (n + g * Batch) - 1 /\ q[k] = o[k]
                                        /\ k > l => k + g * Batch \in 0 .. (n + g * Batch) - 1 /\ q[k + g * Batch] = o[k]
                                        /\ o[k] \in 0 .. n - 1
                                        /\ k # l => r[o[k]] = blk[o[k]]
                                        /\ r[o[k]].pkt = blk[o[k]].pkt
               /\ \A j \in 0 .. g * Batch - 1 : /\ l + (j + 1) \in 0 .. (n + g * Batch) - 1
                                            /\ q[l + (j + 1)] = NewBlock(n, g, Batch, j)
                                            /\ NewBlock(n, g, Batch, j) \in n .. (n + g * Batch) - 1
<1> DEFINE D == g * Batch
           r == Grown(blk, n, o[l], g)
           q == GrownOrder(n, o, l, g)
<1>1. D \in Nat /\ n \in Nat /\ n > 0 /\ Batch \in Nat \ {0}
  BY SndBufferAssumption, TimesGrows DEF Batch, InTurn
<1>2. ASSUME NEW k \in 0 .. n - 1
      PROVE  /\ k <= l => k \in 0 .. (n + D) - 1 /\ q[k] = o[k]
             /\ k > l => k + D \in 0 .. (n + D) - 1 /\ q[k + D] = o[k]
  <2>1. CASE k <= l
    <3>1. k \in 0 .. (n + D) - 1
      <4> HIDE DEF D, q
      <4> QED
        BY <1>1, <2>1
    <3>2. q[k] = o[k]
      BY <2>1, <3>1 DEF GrownOrder
    <3> HIDE DEF D, q
    <3> QED
      BY <1>1, <2>1, <3>1, <3>2
  <2>2. CASE k > l
    <3>1. k + D \in 0 .. (n + D) - 1 /\ ~(k + D <= l) /\ ~(k + D <= l + D) /\ (k + D) - D = k
      <4> HIDE DEF D, q
      <4> QED
        BY <1>1, <2>2
    <3>2. q[k + D] = o[(k + D) - D]
      BY <3>1 DEF GrownOrder
    <3>3. q[k + D] = o[k]
      <4> HIDE DEF D, q
      <4> QED
        BY <3>1, <3>2
    <3> HIDE DEF D, q
    <3> QED
      BY <1>1, <2>2, <3>1, <3>3
  <2> HIDE DEF D, q
  <2> QED
    BY <1>1, <2>1, <2>2
<1>3. ASSUME NEW k \in 0 .. n - 1
      PROVE  o[k] \in 0 .. n - 1 /\ (k # l => r[o[k]] = blk[o[k]]) /\ r[o[k]].pkt = blk[o[k]].pkt
  <2>1. o[k] \in 0 .. n - 1 /\ (k # l => o[k] # o[l]) /\ blk[o[k]] \in Block(n)
    BY DEF InTurn
  <2>2. o[k] \in 0 .. (n + D) - 1
    <3> HIDE DEF D
    <3> QED
      BY <1>1, <2>1
  <2>3. r[o[k]] = IF o[k] = o[l] /\ g > 0 THEN [blk[o[k]] EXCEPT !.next = n + (g - 1) * Batch] ELSE blk[o[k]]
    BY <2>1, <2>2 DEF Grown
  <2> DEFINE x == n + (g - 1) * Batch
  <2>4. r[o[k]] = IF o[k] = o[l] /\ g > 0 THEN [blk[o[k]] EXCEPT !.next = x] ELSE blk[o[k]]
    BY <2>3
  <2>5. [blk[o[k]] EXCEPT !.next = x].pkt = blk[o[k]].pkt
    <3> HIDE DEF x, D, r
    <3> QED
      BY <2>1 DEF Block
  <2> HIDE DEF x, D, r
  <2> QED
    BY <2>1, <2>4, <2>5
<1>4. ASSUME NEW j \in 0 .. D - 1
      PROVE  /\ l + (j + 1) \in 0 .. (n + D) - 1 /\ q[l + (j + 1)] = NewBlock(n, g, Batch, j)
             /\ NewBlock(n, g, Batch, j) \in n .. (n + D) - 1
  <2>1. /\ l + (j + 1) \in 0 .. (n + D) - 1 /\ ~(l + (j + 1) <= l) /\ l + (j + 1) <= l + D
        /\ l + (j + 1) - (l + 1) = j
    <3> HIDE DEF D
    <3> QED
      BY <1>1
  <2>2. q[l + (j + 1)] = NewBlock(n, g, Batch, l + (j + 1) - (l + 1))
    BY <2>1 DEF GrownOrder
  <2>3. NewBlock(n, g, Batch, j) \in n .. n + D - 1
    BY <1>1, NewBlocks
  <2> HIDE DEF D, q
  <2> QED
    BY <1>1, <2>1, <2>2, <2>3
<1> HIDE DEF D, r, q
<1>5. \A k \in 0 .. n - 1 : /\ k <= l => k \in 0 .. (n + D) - 1 /\ q[k] = o[k]
                            /\ k > l => k + D \in 0 .. (n + D) - 1 /\ q[k + D] = o[k]
                            /\ o[k] \in 0 .. n - 1
                            /\ k # l => r[o[k]] = blk[o[k]]
                            /\ r[o[k]].pkt = blk[o[k]].pkt
  BY <1>2, <1>3
<1>6. \A j \in 0 .. D - 1 : /\ l + (j + 1) \in 0 .. (n + D) - 1
                            /\ q[l + (j + 1)] = NewBlock(n, g, Batch, j)
                            /\ NewBlock(n, g, Batch, j) \in n .. (n + D) - 1
  BY <1>4
<1> QED
  BY <1>5, <1>6 DEF D, r, q

LEMMA GrownInTurn ==
    ASSUME NEW blk, NEW n, NEW o, InTurn(blk, n, o), NEW l \in 0 .. n - 1, NEW g \in Nat
    PROVE  InTurn(Grown(blk, n, o[l], g), n + g * Batch, GrownOrder(n, o, l, g))
<1> DEFINE D == g * Batch
           m == n + D
           r == Grown(blk, n, o[l], g)
           q == GrownOrder(n, o, l, g)
           New(j) == NewBlock(n, g, Batch, j)
<1>1. D \in Nat /\ n \in Nat /\ n > 0 /\ Batch \in Nat \ {0} /\ Batch \in Nat /\ Batch > 0 /\ (g = 0 => D = 0) /\ (g > 0 => D > 0)
  <2>1. D \in Nat /\ Batch \in Nat \ {0} /\ (g > 0 => 1 * Batch <= g * Batch /\ 1 * Batch = Batch)
    BY SndBufferAssumption, TimesGrows DEF Batch
  <2>2. g = 0 => D = 0
    BY <2>1
  <2>3. g > 0 => D > 0
    <3> SUFFICES ASSUME g > 0 PROVE D > 0
      OBVIOUS
    <3>1. Batch <= D
      BY <2>1
    <3> HIDE DEF D
    <3> QED
      BY <2>1, <3>1
  <2> HIDE DEF D
  <2> QED
    BY <2>1, <2>2, <2>3 DEF InTurn
<1>2. \A k \in 0 .. n - 1 : /\ k <= l => k \in 0 .. m - 1 /\ q[k] = o[k]
                            /\ k > l => k + D \in 0 .. m - 1 /\ q[k + D] = o[k]
                            /\ o[k] \in 0 .. n - 1
                            /\ k # l => r[o[k]] = blk[o[k]]
  BY GrownAt
<1>3. \A j \in 0 .. D - 1 : l + (j + 1) \in 0 .. m - 1 /\ q[l + (j + 1)] = New(j) /\ New(j) \in n .. m - 1
  BY GrownAt
<1>4. \A j, k \in 0 .. D - 1 : New(j) = New(k) => j = k
  BY <1>1, NewBlocksDiffer
<1>5. \A i, j \in 0 .. n - 1 : o[i] = o[j] => i = j
  BY DEF InTurn
<1>6. \A k \in 0 .. n - 1 : blk[o[k]].next = o[IF k + 1 = n THEN 0 ELSE k + 1]
  BY DEF InTurn
\* The three kinds of places.
<1> DEFINE Old(k) == k <= l
           Fresh(k) == k > l /\ k <= l + D
           Late(k) == k > l + D
<1>7. \A k \in 0 .. m - 1 : /\ Old(k) \/ Fresh(k) \/ Late(k)
                            /\ Old(k) => k \in 0 .. n - 1
                            /\ Fresh(k) => k - (l + 1) \in 0 .. D - 1 /\ k = l + (k - (l + 1) + 1)
                            /\ Late(k) => k - D \in 0 .. n - 1 /\ k - D > l /\ k = (k - D) + D
  <2> HIDE DEF D
  <2> QED
    BY <1>1
<1>8. \A k \in 0 .. m - 1 : /\ Old(k) => q[k] = o[k] /\ q[k] \in 0 .. n - 1
                            /\ Fresh(k) => q[k] = New(k - (l + 1)) /\ q[k] \in n .. m - 1
                            /\ Late(k) => q[k] = o[k - D] /\ q[k] \in 0 .. n - 1
  <2> HIDE DEF D, m, r, q, New
  <2> TAKE k \in 0 .. m - 1
  <2>1. Old(k) => q[k] = o[k] /\ q[k] \in 0 .. n - 1
    BY <1>2, <1>7
  <2>2. ASSUME Fresh(k) PROVE q[k] = New(k - (l + 1)) /\ q[k] \in n .. m - 1
    <3> DEFINE j == k - (l + 1)
    <3>1. j \in 0 .. D - 1 /\ k = l + (j + 1)
      BY <1>7, <2>2
    <3> HIDE DEF j
    <3>2. q[k] = New(j) /\ New(j) \in n .. m - 1
      BY <1>3, <3>1
    <3> QED
      BY <3>2 DEF j
  <2>3. ASSUME Late(k) PROVE q[k] = o[k - D] /\ q[k] \in 0 .. n - 1
    <3> DEFINE j == k - D
    <3>1. j \in 0 .. n - 1 /\ k = j + D /\ j > l
      BY <1>7, <2>3
    <3> HIDE DEF j
    <3>2. q[k] = o[j] /\ o[j] \in 0 .. n - 1
      BY <1>2, <3>1
    <3> QED
      BY <3>2 DEF j
  <2> HIDE DEF Old, Fresh, Late
  <2> QED
    BY <2>1, <2>2, <2>3
<1>9. q \in [0 .. m - 1 -> 0 .. m - 1]
  <2>1. \A k \in 0 .. m - 1 : q[k] \in 0 .. m - 1
    <3> HIDE DEF D, r, q, New, Old, Fresh, Late
    <3> TAKE k \in 0 .. m - 1
    <3>1. \A b : b \in 0 .. n - 1 \/ b \in n .. m - 1 => b \in 0 .. m - 1
      BY <1>1
    <3> HIDE DEF m
    <3> QED
      BY <1>7, <1>8, <3>1
  <2>2. q = [k \in 0 .. m - 1 |-> q[k]]
    BY DEF GrownOrder
  <2> HIDE DEF q, m
  <2> QED
    BY <2>1, <2>2
<1>10. ASSUME NEW i \in 0 .. m - 1, NEW j \in 0 .. m - 1, q[i] = q[j] PROVE i = j
  <2> HIDE DEF D, r, q, New, m
  <2>1. ~(q[i] \in 0 .. n - 1 /\ q[i] \in n .. m - 1)
    BY <1>1
  <2>2. CASE Fresh(i)
    <3>1. Fresh(j)
      <4> HIDE DEF Old, Fresh, Late
      <4> QED
        BY <1>7, <1>8, <1>10, <2>1, <2>2
    <3>2. New(i - (l + 1)) = New(j - (l + 1)) /\ i - (l + 1) \in 0 .. D - 1 /\ j - (l + 1) \in 0 .. D - 1
      <4> HIDE DEF Old, Fresh, Late
      <4> QED
        BY <1>7, <1>8, <1>10, <2>2, <3>1
    <3>3. i - (l + 1) = j - (l + 1)
      BY <1>4, <3>2
    <3> QED
      BY <3>3
  <2>3. CASE ~Fresh(i)
    <3> DEFINE a(k) == IF Old(k) THEN k ELSE k - D
    <3>1. ~Fresh(j)
      <4> HIDE DEF Old, Fresh, Late
      <4> QED
        BY <1>7, <1>8, <1>10, <2>1, <2>3
    <3>2. a(i) \in 0 .. n - 1 /\ a(j) \in 0 .. n - 1 /\ q[i] = o[a(i)] /\ q[j] = o[a(j)]
      <4> HIDE DEF Old, Fresh, Late
      <4> QED
        BY <1>7, <1>8, <2>3, <3>1
    <3>3. a(i) = a(j)
      <4> HIDE DEF a
      <4> QED
        BY <1>5, <1>10, <3>2
    <3>4. (Old(i) \/ Late(i)) /\ (Old(j) \/ Late(j))
      <4> HIDE DEF Old, Fresh, Late
      <4> QED
        BY <1>7, <2>3, <3>1
    <3> QED
      BY <1>1, <3>3, <3>4
  <2> QED
    BY <2>2, <2>3
<1> DEFINE Next(k) == IF k + 1 = m THEN 0 ELSE k + 1
<1>11. CASE g = 0
  <2>1. D = 0 /\ m = n
    BY <1>1, <1>11
  <2>2. \A k \in 0 .. n - 1 : q[k] = o[k]
    <3> HIDE DEF D, q, r, m
    <3> TAKE k \in 0 .. n - 1
    <3>1. k <= l \/ (k > l /\ k + D = k)
      BY <2>1
    <3> QED
      BY <1>2, <3>1
  <2>3. q = o
    <3>1. o \in [0 .. n - 1 -> 0 .. n - 1]
      BY DEF InTurn
    <3> HIDE DEF D, q, r, m
    <3>2. q \in [0 .. n - 1 -> 0 .. n - 1]
      BY <1>9, <2>1
    <3>3. q = [k \in 0 .. n - 1 |-> q[k]] /\ o = [k \in 0 .. n - 1 |-> o[k]]
      BY <3>1, <3>2
    <3>4. [k \in 0 .. n - 1 |-> q[k]] = [k \in 0 .. n - 1 |-> o[k]]
      BY <2>2
    <3> QED
      BY <3>3, <3>4
  <2>4. r = blk
    <3>1. r = [b \in 0 .. m - 1 |-> r[b]]
      BY DEF Grown
    <3>2. \A b \in 0 .. m - 1 : b \in 0 .. n - 1 => r[b] = blk[b]
      BY <1>11 DEF Grown
    <3>3. blk = [b \in 0 .. n - 1 |-> blk[b]]
      BY DEF InTurn
    <3> HIDE DEF r, m, D
    <3>4. r = [b \in 0 .. n - 1 |-> r[b]] /\ \A b \in 0 .. n - 1 : r[b] = blk[b]
      BY <2>1, <3>1, <3>2
    <3> QED
      BY <3>3, <3>4
  <2> HIDE DEF r, q, m
  <2>5. InTurn(r, m, q)
    BY <2>1, <2>3, <2>4
  <2> QED
    BY <2>5 DEF r, q, m
<1>12. CASE g > 0
  <2>1. r \in [0 .. m - 1 -> Block(m)]
    BY <1>12, GrownBlocks
  <2>2. ASSUME NEW b \in n .. m - 1
        PROVE  r[b].next = IF (b + 1 - n) % Batch = 0 THEN IF b < n + Batch THEN blk[o[l]].next ELSE b + 1 - 2 * Batch ELSE b + 1
    <3>1. b \in 0 .. m - 1 /\ b \notin 0 .. n - 1
      <4> HIDE DEF D, r, q
      <4> QED
        BY <1>1
    <3> QED
      BY <3>1 DEF Grown
  <2>3. r[o[l]].next = New(0)
    <3>1. New(0) = n + (g - 1) * Batch
      BY <1>1, NewBlocksDiffer
    <3>2. o[l] \in 0 .. n - 1 /\ o[l] \in 0 .. m - 1 /\ blk[o[l]] \in Block(n)
      <4>1. o[l] \in 0 .. n - 1 /\ blk[o[l]] \in Block(n)
        BY DEF InTurn
      <4> HIDE DEF D, r, q, New
      <4> QED
        BY <1>1, <4>1
    <3> DEFINE x == n + (g - 1) * Batch
    <3>3. r[o[l]] = [blk[o[l]] EXCEPT !.next = x]
      BY <1>12, <3>2 DEF Grown
    <3> HIDE DEF x, r, New
    <3>4. r[o[l]].next = x
      BY <3>2, <3>3 DEF Block
    <3> QED
      BY <3>1, <3>4 DEF x
  <2>4. ASSUME NEW k \in 0 .. m - 1, Old(k) PROVE r[q[k]].next = q[Next(k)]
    <3>1. k \in 0 .. n - 1 /\ k <= l /\ q[k] = o[k]
      <4> HIDE DEF r, q, m, D, New
      <4> QED
        BY <1>7, <1>8, <2>4
    <3>2. CASE k < l
      <4> HIDE DEF D, r, q, New
      <4>1. k + 1 # n /\ k + 1 \in 0 .. n - 1 /\ k + 1 <= l /\ k # l /\ Next(k) = k + 1
        BY <1>1, <3>1, <3>2
      <4> HIDE DEF m, Next
      <4>2. q[k + 1] = o[k + 1] /\ r[o[k]] = blk[o[k]] /\ blk[o[k]].next = o[k + 1]
        BY <1>2, <1>6, <3>1, <4>1
      <4> QED
        BY <3>1, <4>1, <4>2
    <3>3. CASE k = l
      <4> HIDE DEF D, r, q, New
      <4>1. 0 \in 0 .. D - 1 /\ Next(k) = l + (0 + 1)
        BY <1>1, <1>12, <3>1, <3>3
      <4> HIDE DEF m, Next
      <4>2. q[l + (0 + 1)] = New(0)
        BY <1>3, <4>1
      <4> QED
        BY <2>3, <3>1, <3>3, <4>1, <4>2
    <3> QED
      BY <3>1, <3>2, <3>3
  <2>5. ASSUME NEW k \in 0 .. m - 1, Fresh(k) PROVE r[q[k]].next = q[Next(k)]
    <3> DEFINE j == k - (l + 1)
               b == New(j)
               ends == (b + 1 - n) % Batch = 0
    <3>1. j \in 0 .. D - 1 /\ k = l + (j + 1) /\ q[k] = b /\ b \in n .. m - 1
      <4> HIDE DEF r, q, m, D, New
      <4> QED
        BY <1>7, <1>8, <2>5
    <3>2. /\ j + 1 < D /\ ends => ~(b < n + Batch) /\ New(j + 1) = b + 1 - 2 * Batch
          /\ ~ends => j + 1 < D /\ New(j + 1) = b + 1
          /\ j + 1 = D => b < n + Batch
      <4>1. j \in 0 .. g * Batch - 1
        BY <3>1
      <4> HIDE DEF j
      <4> QED
        BY <1>1, <4>1, NewBlocks
    <3>3. r[b].next = IF ends THEN IF b < n + Batch THEN blk[o[l]].next ELSE b + 1 - 2 * Batch ELSE b + 1
      <4> HIDE DEF r, q, m, D, New
      <4> QED
        BY <2>2, <3>1
    <3>4. CASE j + 1 < D
      <4>1. r[b].next = New(j + 1)
        <5> HIDE DEF r, q, m, D, New, b, j, ends
        <5> QED
          BY <3>2, <3>3, <3>4
      <4> HIDE DEF D, r, q, New, b, j
      <4>2. j + 1 \in 0 .. D - 1 /\ Next(k) = l + ((j + 1) + 1)
        BY <1>1, <3>1, <3>4
      <4> HIDE DEF m, Next
      <4>3. q[l + ((j + 1) + 1)] = New(j + 1)
        BY <1>3, <4>2
      <4> QED
        BY <3>1, <4>1, <4>2, <4>3
    <3>5. CASE j + 1 = D
      <4>1. r[b].next = blk[o[l]].next
        <5> HIDE DEF r, q, m, D, New, b, j, ends
        <5>1. ends
          BY <1>1, <3>1, <3>2, <3>5
        <5> QED
          BY <3>2, <3>3, <3>5, <5>1
      <4>2. blk[o[l]].next = o[IF l + 1 = n THEN 0 ELSE l + 1]
        BY <1>6
      <4> HIDE DEF D, r, q, New, b, j
      <4>3. /\ l + 1 = n => Next(k) = 0 /\ 0 \in 0 .. n - 1 /\ 0 <= l
            /\ l + 1 # n => Next(k) = (l + 1) + D /\ l + 1 \in 0 .. n - 1 /\ l + 1 > l
        BY <1>1, <3>1, <3>5
      <4> HIDE DEF m, Next
      <4> QED
        BY <1>2, <3>1, <4>1, <4>2, <4>3
    <3>6. j + 1 < D \/ j + 1 = D
      <4> HIDE DEF D, j
      <4> QED
        BY <1>1, <3>1
    <3> QED
      BY <3>4, <3>5, <3>6
  <2>6. ASSUME NEW k \in 0 .. m - 1, Late(k) PROVE r[q[k]].next = q[Next(k)]
    <3> DEFINE j == k - D
    <3>1. j \in 0 .. n - 1 /\ k = j + D /\ q[k] = o[j] /\ j > l
      <4> HIDE DEF r, q, m, D, New
      <4> QED
        BY <1>7, <1>8, <2>6
    <3> HIDE DEF D, r, q, New, j
    <3>2. j # l /\ (j + 1 = n => Next(k) = 0 /\ 0 \in 0 .. n - 1 /\ 0 <= l)
          /\ (j + 1 # n => Next(k) = (j + 1) + D /\ j + 1 \in 0 .. n - 1 /\ j + 1 > l)
      BY <1>1, <3>1
    <3> HIDE DEF m, Next
    <3>3. r[o[j]] = blk[o[j]] /\ blk[o[j]].next = o[IF j + 1 = n THEN 0 ELSE j + 1]
      BY <1>2, <1>6, <3>1, <3>2
    <3> QED
      BY <1>2, <3>1, <3>2, <3>3
  <2> HIDE DEF r, q, New, D
  <2>7. m \in Nat \ {0}
    BY <1>1
  <2> HIDE DEF m, Old, Fresh, Late
  <2>8. InTurn(r, m, q)
    BY <1>7, <1>9, <1>10, <2>1, <2>4, <2>5, <2>6, <2>7 DEF InTurn
  <2> QED
    BY <2>8 DEF r, m, q, D
<1> QED
  BY <1>11, <1>12

-----------------------------------------------------------------------------
(* The sending buffer is a queue *)

\* There are n blocks in the order o, l packets in the first of them, c of which have been read.
Holds(n, o, c, l) ==
    /\ InTurn(blocks, n, o) /\ l \in 0 .. n - 1 /\ c \in 0 .. l
    /\ at = [first |-> o[0], curr |-> o[c], last |-> o[l]]
    /\ adding \in Nat /\ count = l - adding /\ nextMsg \in Nat

SendInv == \E n, o, c, l : Holds(n, o, c, l)

LEMMA HoldsIs ==
    ASSUME NEW n, NEW o, NEW c, NEW l, Holds(n, o, c, l)
    PROVE  /\ InTurn(blocks, n, o) /\ at = [first |-> o[0], curr |-> o[c], last |-> o[l]]
           /\ l \in 0 .. n - 1 /\ c \in 0 .. l /\ n \in Nat /\ n > 0 /\ l \in Nat /\ c \in Nat /\ c \in 0 .. n - 1
           /\ adding \in Nat /\ count = l - adding /\ nextMsg \in Nat
<1>1. n \in Nat \ {0} /\ l \in 0 .. n - 1 /\ c \in 0 .. l
  BY DEF Holds, InTurn
<1>2. n \in Nat /\ n > 0 /\ l \in Nat /\ c \in Nat /\ c \in 0 .. n - 1
  BY <1>1
<1> QED
  BY <1>1, <1>2 DEF Holds

\* What the queue is then.
LEMMA QueueIs ==
    ASSUME NEW n, NEW o, NEW c, NEW l, Holds(n, o, c, l)
    PROVE  /\ SndBuffer!m_iSize = n /\ n \in Nat /\ n > 0
           /\ \A k \in 0 .. n - 1 : SndBuffer!Distance(o[k]) = k
           /\ SndBuffer!Distance(at.curr) = c /\ SndBuffer!Distance(at.last) = l
           /\ SndBuffer!Queued = QueueOf(blocks, o, l)
<1>1. InTurn(blocks, n, o) /\ at.first = o[0] /\ at.curr = o[c] /\ at.last = o[l] /\ l \in 0 .. n - 1 /\ c \in 0 .. l
  BY DEF Holds
<1>2. n \in Nat /\ n > 0 /\ DOMAIN blocks = 0 .. n - 1 /\ c \in 0 .. n - 1 /\ l \in Nat
  BY <1>1 DEF InTurn
<1>3. SndBuffer!m_iSize = n
  BY <1>2, BlocksAre DEF SndBuffer!m_iSize
<1>4. ASSUME NEW k \in 0 .. n - 1 PROVE SndBuffer!Distance(o[k]) = k
  <2>1. SndBuffer!Distance(o[k]) = HowFar(blocks, o[0], n, o[k])
    BY <1>1, <1>3 DEF SndBuffer!Distance, HowFar
  <2> QED
    BY <1>1, <2>1, FarIs
<1>5. SndBuffer!Distance(at.curr) = c /\ SndBuffer!Distance(at.last) = l
  BY <1>1, <1>2, <1>4
<1>6. ASSUME NEW k \in 1 .. l PROVE SndBuffer!After(blocks, at.first, k - 1) = o[k - 1]
  <2>1. k - 1 \in Nat /\ 0 + (k - 1) <= n - 1 /\ 0 + (k - 1) = k - 1 /\ 0 \in 0 .. n - 1
    BY <1>1, <1>2
  <2> QED
    BY <1>1, <2>1, WalkIs
<1>7. SndBuffer!Queued = QueueOf(blocks, o, l)
  BY <1>5, <1>6 DEF SndBuffer!Queued, QueueOf
<1> QED
  BY <1>2, <1>3, <1>4, <1>5, <1>7

LEMMA QueueWillBe ==
    ASSUME NEW n, NEW o, NEW c, NEW l, Holds(n, o, c, l)'
    PROVE  /\ SndBuffer!Distance(at.curr)' = c
           /\ SndBuffer!Queued' = QueueOf(blocks', o, l)
<1>1. InTurn(blocks', n, o) /\ at'.first = o[0] /\ at'.curr = o[c] /\ at'.last = o[l] /\ l \in 0 .. n - 1 /\ c \in 0 .. l
  BY DEF Holds
<1>2. n \in Nat /\ n > 0 /\ DOMAIN blocks' = 0 .. n - 1 /\ c \in 0 .. n - 1 /\ l \in Nat
  BY <1>1 DEF InTurn
<1>3. SndBuffer!m_iSize' = n
  BY <1>2, BlocksAre DEF SndBuffer!m_iSize
<1>4. SndBuffer!Distance(at.curr)' = HowFar(blocks', o[0], n, o[c])
      /\ SndBuffer!Distance(at.last)' = HowFar(blocks', o[0], n, o[l])
  BY <1>1, <1>3 DEF SndBuffer!Distance, HowFar
<1>5. SndBuffer!Distance(at.curr)' = c /\ SndBuffer!Distance(at.last)' = l
  BY <1>1, <1>2, <1>4, FarIs
<1>6. ASSUME NEW k \in 1 .. l PROVE SndBuffer!After(blocks', at'.first, k - 1) = o[k - 1]
  <2>1. k - 1 \in Nat /\ 0 + (k - 1) <= n - 1 /\ 0 + (k - 1) = k - 1 /\ 0 \in 0 .. n - 1
    BY <1>1, <1>2
  <2> QED
    BY <1>1, <2>1, WalkIs
<1>7. SndBuffer!Queued' = QueueOf(blocks', o, l)
  BY <1>5, <1>6 DEF SndBuffer!Queued, QueueOf
<1> QED
  BY <1>5, <1>7

LEMMA SendBegins == ASSUME SndBuffer!SndBufferInit PROVE SendInv /\ SndBuffer!Queue!QueueInit
<1> DEFINE o == [k \in 0 .. Batch - 1 |-> k]
<1>1. Batch \in Nat /\ Batch > 0 /\ Batch \in Nat \ {0}
  BY SndBufferAssumption DEF Batch
<1>2. blocks = [b \in 0 .. Batch - 1 |-> [next |-> (b + 1) % Batch, pkt |-> SndBuffer!NoPacket]]
  BY DEF SndBuffer!SndBufferInit, Batch
<1>3. \A b \in 0 .. Batch - 1 : (b + 1) % Batch = (IF b + 1 = Batch THEN 0 ELSE b + 1)
  <2> TAKE b \in 0 .. Batch - 1
  <2>1. b + 1 \in 0 .. 2 * Batch - 1
    BY <1>1
  <2>2. (b + 1) % Batch = Slot(Batch, b + 1)
    BY <1>1, <2>1, SlotIs
  <2> QED
    BY <1>1, <2>2 DEF Slot
<1>4. SndBuffer!NoPacket \in Pkts
  BY DEF SndBuffer!NoPacket, Pkts
<1>5. \A b \in 0 .. Batch - 1 : blocks[b] \in Block(Batch) /\ blocks[b].next = (IF b + 1 = Batch THEN 0 ELSE b + 1)
  <2> TAKE b \in 0 .. Batch - 1
  <2>1. (IF b + 1 = Batch THEN 0 ELSE b + 1) \in 0 .. Batch - 1
    BY <1>1
  <2>2. blocks[b] = [next |-> (IF b + 1 = Batch THEN 0 ELSE b + 1), pkt |-> SndBuffer!NoPacket]
    BY <1>2, <1>3
  <2> QED
    BY <1>4, <2>1, <2>2, BlockIs
<1>6. blocks \in [0 .. Batch - 1 -> Block(Batch)]
  BY <1>2, <1>5
<1>7. InTurn(blocks, Batch, o)
  <2>1. o \in [0 .. Batch - 1 -> 0 .. Batch - 1] /\ \A i, j \in 0 .. Batch - 1 : o[i] = o[j] => i = j
    OBVIOUS
  <2>2. \A k \in 0 .. Batch - 1 : o[k] = k /\ o[IF k + 1 = Batch THEN 0 ELSE k + 1] = IF k + 1 = Batch THEN 0 ELSE k + 1
    BY <1>1
  <2> HIDE DEF o
  <2> QED
    BY <1>1, <1>5, <1>6, <2>1, <2>2 DEF InTurn
<1>8. Holds(Batch, o, 0, 0)
  <2>1. o[0] = 0 /\ 0 \in 0 .. Batch - 1 /\ 0 \in 0 .. 0
    BY <1>1
  <2> HIDE DEF o
  <2> QED
    BY <1>7, <2>1 DEF Holds, SndBuffer!SndBufferInit
<1> HIDE DEF o
<1>9. SndBuffer!Queued = QueueOf(blocks, o, 0) /\ SndBuffer!Distance(at.curr) = 0
  BY <1>8, QueueIs
<1>10. QueueOf(blocks, o, 0) = <<>>
  BY DEF QueueOf
<1>11. adding = 0 /\ nextMsg = 1 /\ read = SndBuffer!Queue!NoPacket
  BY DEF SndBuffer!SndBufferInit, SndBuffer!NoPacket, SndBuffer!Queue!NoPacket
<1> QED
  BY <1>8, <1>9, <1>10, <1>11 DEF SendInv, SndBuffer!Queue!QueueInit

\* The number of the next message, as the queue has it.
Shown == IF adding > 0 THEN SndBuffer!NextMsgNo(nextMsg) ELSE nextMsg
QueueVars == <<SndBuffer!Queued, SndBuffer!Distance(at.curr), Shown, read>>
QueueMoves == SndBuffer!Queue!QueueNext \/ UNCHANGED QueueVars

LEMMA CountKeeps == ASSUME SendInv, SndBuffer!addBufferDone PROVE SendInv' /\ QueueMoves
<1>1. PICK n, o, c, l : Holds(n, o, c, l)
  BY DEF SendInv
<1>2. /\ adding > 0 /\ adding' = 0 /\ count' = count + adding /\ nextMsg' = SndBuffer!NextMsgNo(nextMsg)
      /\ UNCHANGED <<blocks, at, read>>
  BY DEF SndBuffer!addBufferDone
<1>3. nextMsg' \in Nat
  BY <1>1, <1>2 DEF Holds, SndBuffer!NextMsgNo
<1>4. l \in Nat /\ count = l - adding /\ adding \in Nat
  BY <1>1, HoldsIs
<1>5. count' = l - adding' /\ adding' \in Nat
  BY <1>2, <1>4
<1>6. Holds(n, o, c, l)'
  BY <1>1, <1>2, <1>3, <1>5 DEF Holds
<1>7. UNCHANGED QueueVars
  <2>1. SndBuffer!Queued' = SndBuffer!Queued /\ SndBuffer!Distance(at.curr)' = SndBuffer!Distance(at.curr)
    BY <1>1, <1>2, <1>6, QueueIs, QueueWillBe
  <2>2. Shown' = Shown
    BY <1>2 DEF Shown
  <2> QED
    BY <1>2, <2>1, <2>2 DEF QueueVars
<1> QED
  BY <1>6, <1>7 DEF SendInv, QueueMoves

LEMMA ReadKeeps == ASSUME SendInv, SndBuffer!readData PROVE SendInv' /\ QueueMoves
<1>1. PICK n, o, c, l : Holds(n, o, c, l)
  BY DEF SendInv
<1>2. UNCHANGED <<blocks, count, nextMsg, adding>>
  BY DEF SndBuffer!readData
<1>3. /\ InTurn(blocks, n, o) /\ at = [first |-> o[0], curr |-> o[c], last |-> o[l]]
      /\ l \in 0 .. n - 1 /\ c \in 0 .. l /\ n \in Nat /\ n > 0 /\ l \in Nat /\ c \in Nat /\ c \in 0 .. n - 1
  BY <1>1, HoldsIs
<1>4. at.curr = at.last <=> c = l
  BY <1>3 DEF InTurn
<1> DEFINE q == QueueOf(blocks, o, l)
<1>5. SndBuffer!Queued = q /\ SndBuffer!Distance(at.curr) = c
  BY <1>1, QueueIs
<1>6. q \in Seq(Pkts) /\ Len(q) = l
  BY <1>3, QueueIsSeq
<1>7. CASE c = l
  <2>1. at' = at /\ read' = SndBuffer!NoPacket
    BY <1>4, <1>7 DEF SndBuffer!readData
  <2>2. Holds(n, o, c, l)'
    BY <1>1, <1>2, <2>1 DEF Holds
  <2>3. SndBuffer!Queued' = q /\ SndBuffer!Distance(at.curr)' = c
    BY <1>2, <2>2, QueueWillBe
  <2>4. Shown' = Shown
    BY <1>2 DEF Shown
  <2>5. SndBuffer!Queue!ReadNext
    <3> HIDE DEF q
    <3>1. ~(c < Len(q))
      BY <1>3, <1>6, <1>7
    <3> QED
      BY <1>5, <2>1, <2>3, <2>4, <3>1 DEF SndBuffer!Queue!ReadNext, SndBuffer!NoPacket, SndBuffer!Queue!NoPacket, Shown
  <2> QED
    BY <2>2, <2>5 DEF SendInv, QueueMoves, SndBuffer!Queue!QueueNext
<1>8. CASE c # l
  <2>1. c + 1 \in 0 .. l /\ c + 1 # n /\ c + 1 \in 1 .. l /\ (c + 1) - 1 = c /\ c < l
    BY <1>3, <1>8
  <2>2. at' = [first |-> o[0], curr |-> o[c + 1], last |-> o[l]] /\ read' = blocks[o[c]].pkt
    <3>1. at' = [at EXCEPT !.curr = blocks[at.curr].next] /\ read' = blocks[at.curr].pkt
      BY <1>4, <1>8 DEF SndBuffer!readData
    <3>2. blocks[o[c]].next = o[c + 1]
      BY <1>3, <2>1 DEF InTurn
    <3> QED
      BY <1>3, <3>1, <3>2
  <2>3. Holds(n, o, c + 1, l)'
    BY <1>1, <1>2, <2>1, <2>2 DEF Holds
  <2>4. SndBuffer!Queued' = q /\ SndBuffer!Distance(at.curr)' = c + 1
    BY <1>2, <2>3, QueueWillBe
  <2>5. Shown' = Shown
    BY <1>2 DEF Shown
  <2>6. q[c + 1] = blocks[o[c]].pkt
    BY <2>1 DEF QueueOf
  <2>7. SndBuffer!Queue!ReadNext
    <3> HIDE DEF q
    <3>1. c < Len(q)
      BY <1>6, <2>1
    <3> QED
      BY <1>5, <2>2, <2>4, <2>5, <2>6, <3>1 DEF SndBuffer!Queue!ReadNext, Shown
  <2> QED
    BY <2>3, <2>7 DEF SendInv, QueueMoves, SndBuffer!Queue!QueueNext
<1> QED
  BY <1>7, <1>8

LEMMA ReadAgainKeeps ==
    ASSUME SendInv, NEW d \in 0 .. SndBufPackets, SndBuffer!readDataAt(d) PROVE SendInv' /\ QueueMoves
<1>1. PICK n, o, c, l : Holds(n, o, c, l)
  BY DEF SendInv
<1>2. UNCHANGED <<blocks, at, count, nextMsg, adding>> /\ d < SndBuffer!Distance(at.curr)
      /\ read' = blocks[SndBuffer!After(blocks, at.first, d)].pkt
  BY DEF SndBuffer!readDataAt
<1>3. /\ InTurn(blocks, n, o) /\ at.first = o[0] /\ l \in 0 .. n - 1 /\ c \in 0 .. l /\ n \in Nat /\ n > 0
  BY <1>1, HoldsIs
<1> DEFINE q == QueueOf(blocks, o, l)
<1>4. SndBuffer!Queued = q /\ SndBuffer!Distance(at.curr) = c
  BY <1>1, QueueIs
<1>5. d \in Nat /\ 0 \in 0 .. n - 1 /\ 0 + d <= n - 1 /\ 0 + d = d /\ d + 1 \in 1 .. c /\ d + 1 \in 1 .. l /\ (d + 1) - 1 = d
  BY <1>2, <1>3, <1>4, SndBufferAssumption
<1>6. SndBuffer!After(blocks, at.first, d) = o[d]
  BY <1>3, <1>5, WalkIs
<1>7. q[d + 1] = blocks[o[d]].pkt
  BY <1>5 DEF QueueOf
<1>8. Holds(n, o, c, l)'
  BY <1>1, <1>2 DEF Holds
<1>9. SndBuffer!Queued' = q /\ SndBuffer!Distance(at.curr)' = c
  BY <1>2, <1>8, QueueWillBe
<1>10. Shown' = Shown
  BY <1>2 DEF Shown
<1>11. read' = q[d + 1]
  BY <1>2, <1>6, <1>7
<1> HIDE DEF q
<1>12. SndBuffer!Queue!ReadAgain
  BY <1>4, <1>5, <1>9, <1>10, <1>11 DEF SndBuffer!Queue!ReadAgain, Shown
<1> QED
  BY <1>8, <1>12 DEF SendInv, QueueMoves, SndBuffer!Queue!QueueNext

\* Releasing packets turns the order.
Turned(n, o, d) == [k \in 0 .. n - 1 |-> o[IF k + d < n THEN k + d ELSE k + d - n]]

LEMMA TurnedIs ==
    ASSUME NEW blk, NEW n, NEW o, InTurn(blk, n, o), NEW d \in 0 .. n - 1
    PROVE  InTurn(blk, n, Turned(n, o, d)) /\ \A k \in 0 .. n - 1 : k + d < n => Turned(n, o, d)[k] = o[k + d]
<1> DEFINE t == Turned(n, o, d)
           w(k) == IF k + d < n THEN k + d ELSE k + d - n
<1>1. n \in Nat /\ n > 0 /\ d \in Nat
  BY DEF InTurn
<1>2. /\ o \in [0 .. n - 1 -> 0 .. n - 1] /\ \A i, j \in 0 .. n - 1 : o[i] = o[j] => i = j
      /\ \A k \in 0 .. n - 1 : blk[o[k]].next = o[IF k + 1 = n THEN 0 ELSE k + 1]
  BY DEF InTurn
<1>3. \A k \in 0 .. n - 1 : t[k] = o[w(k)] /\ w(k) \in 0 .. n - 1 /\ (k + d < n => w(k) = k + d)
  BY <1>1 DEF Turned
<1>4. \A i, j \in 0 .. n - 1 : w(i) = w(j) => i = j
  BY <1>1
<1>5. \A k \in 0 .. n - 1 : /\ (IF k + 1 = n THEN 0 ELSE k + 1) \in 0 .. n - 1
                            /\ w(IF k + 1 = n THEN 0 ELSE k + 1) = IF w(k) + 1 = n THEN 0 ELSE w(k) + 1
  BY <1>1
<1>6. t \in [0 .. n - 1 -> 0 .. n - 1]
  <2>1. t = [k \in 0 .. n - 1 |-> t[k]]
    BY DEF Turned
  <2> HIDE DEF t, w
  <2>2. \A k \in 0 .. n - 1 : t[k] \in 0 .. n - 1
    BY <1>2, <1>3
  <2> QED
    BY <2>1, <2>2
<1> HIDE DEF t, w
<1>7. ASSUME NEW i \in 0 .. n - 1, NEW j \in 0 .. n - 1, t[i] = t[j] PROVE i = j
  <2>1. o[w(i)] = o[w(j)] /\ w(i) \in 0 .. n - 1 /\ w(j) \in 0 .. n - 1
    BY <1>3, <1>7
  <2>2. w(i) = w(j)
    BY <1>2, <2>1
  <2> QED
    BY <1>4, <2>2
<1>8. \A k \in 0 .. n - 1 : blk[t[k]].next = t[IF k + 1 = n THEN 0 ELSE k + 1]
  <2> TAKE k \in 0 .. n - 1
  <2> DEFINE s == IF k + 1 = n THEN 0 ELSE k + 1
             z == IF w(k) + 1 = n THEN 0 ELSE w(k) + 1
  <2>1. s \in 0 .. n - 1 /\ w(s) = z
    BY <1>5
  <2>2. blk[o[w(k)]].next = o[z]
    BY <1>2, <1>3
  <2>3. t[s] = o[w(s)] /\ t[k] = o[w(k)]
    <3> HIDE DEF s
    <3> QED
      BY <1>3, <2>1
  <2>4. blk[t[k]].next = t[s]
    <3> HIDE DEF s, z
    <3> QED
      BY <2>1, <2>2, <2>3
  <2> QED
    BY <2>4
<1>9. InTurn(blk, n, t)
  <2>1. n \in Nat \ {0} /\ blk \in [0 .. n - 1 -> Block(n)]
    BY DEF InTurn
  <2> QED
    BY <1>6, <1>7, <1>8, <2>1 DEF InTurn
<1> QED
  BY <1>3, <1>9 DEF t

\* What the order says depends on the links only.
LEMMA SameLinks ==
    ASSUME NEW blk, NEW n, NEW o, InTurn(blk, n, o), NEW new,
           new \in [0 .. n - 1 -> Block(n)], \A b \in 0 .. n - 1 : new[b].next = blk[b].next
    PROVE  InTurn(new, n, o)
  BY DEF InTurn

LEMMA ReleaseKeeps ==
    ASSUME SendInv, NEW d \in 1 .. SndBufPackets, SndBuffer!ackData(d) PROVE SendInv' /\ QueueMoves
<1>1. PICK n, o, c, l : Holds(n, o, c, l)
  BY DEF SendInv
<1>2. /\ UNCHANGED <<nextMsg, adding, read>> /\ d <= SndBuffer!Distance(at.curr) /\ count' = count - d
      /\ at' = [at EXCEPT !.first = SndBuffer!After(blocks, at.first, d)]
      /\ blocks' = [b \in DOMAIN blocks |->
                       IF SndBuffer!Distance(b) < d THEN [blocks[b] EXCEPT !.pkt = SndBuffer!NoPacket] ELSE blocks[b]]
  BY DEF SndBuffer!ackData
<1>3. /\ InTurn(blocks, n, o) /\ at = [first |-> o[0], curr |-> o[c], last |-> o[l]]
      /\ l \in 0 .. n - 1 /\ c \in 0 .. l /\ n \in Nat /\ n > 0 /\ l \in Nat /\ c \in Nat
      /\ adding \in Nat /\ count = l - adding /\ nextMsg \in Nat
  BY <1>1, HoldsIs
<1> DEFINE q == QueueOf(blocks, o, l)
           t == Turned(n, o, d)
<1>4. SndBuffer!Queued = q /\ SndBuffer!Distance(at.curr) = c /\ \A k \in 0 .. n - 1 : SndBuffer!Distance(o[k]) = k
  BY <1>1, QueueIs
<1>5. /\ d \in Nat /\ 0 \in 0 .. n - 1 /\ 0 + d <= n - 1 /\ 0 + d = d /\ d \in 1 .. c /\ d \in 0 .. n - 1
      /\ c - d \in 0 .. l - d /\ l - d \in 0 .. n - 1 /\ 0 + d < n /\ (c - d) + d < n /\ (l - d) + d < n
      /\ (c - d) + d = c /\ (l - d) + d = l /\ c - d \in 0 .. n - 1 /\ l - d \in Nat
  BY <1>2, <1>3, <1>4, SndBufferAssumption
<1>6. SndBuffer!After(blocks, at.first, d) = o[d]
  BY <1>3, <1>5, WalkIs
<1>7. InTurn(blocks, n, t) /\ \A k \in 0 .. n - 1 : k + d < n => t[k] = o[k + d]
  BY <1>3, <1>5, TurnedIs
<1>8. DOMAIN blocks = 0 .. n - 1 /\ \A b \in 0 .. n - 1 : blocks[b] \in Block(n)
  BY <1>3 DEF InTurn
<1>9. SndBuffer!NoPacket \in Pkts
  BY DEF SndBuffer!NoPacket, Pkts
<1>10. ASSUME NEW b \in 0 .. n - 1
       PROVE  /\ blocks'[b] \in Block(n) /\ blocks'[b].next = blocks[b].next
              /\ ~(SndBuffer!Distance(b) < d) => blocks'[b] = blocks[b]
  <2>1. blocks'[b] = IF SndBuffer!Distance(b) < d THEN [blocks[b] EXCEPT !.pkt = SndBuffer!NoPacket] ELSE blocks[b]
    BY <1>2, <1>8
  <2>2. /\ [blocks[b] EXCEPT !.pkt = SndBuffer!NoPacket] \in Block(n)
        /\ [blocks[b] EXCEPT !.pkt = SndBuffer!NoPacket].next = blocks[b].next
    BY <1>8, <1>9 DEF Block
  <2> QED
    BY <1>8, <2>1, <2>2
<1>11. blocks' \in [0 .. n - 1 -> Block(n)]
  <2>1. blocks' = [b \in 0 .. n - 1 |-> blocks'[b]]
    BY <1>2, <1>8
  <2>2. \A b \in 0 .. n - 1 : blocks'[b] \in Block(n)
    BY <1>10
  <2> QED
    BY <2>1, <2>2
<1>12. InTurn(blocks', n, t)
  <2>1. \A b \in 0 .. n - 1 : blocks'[b].next = blocks[b].next
    BY <1>10
  <2> HIDE DEF t
  <2> QED
    BY <1>7, <1>11, <2>1, SameLinks
<1> HIDE DEF t
<1>13. t[0] = o[d] /\ t[c - d] = o[c] /\ t[l - d] = o[l]
  BY <1>5, <1>7
<1>14. at' = [first |-> t[0], curr |-> t[c - d], last |-> t[l - d]]
  BY <1>2, <1>3, <1>6, <1>13
<1>15. count' = (l - d) - adding'
  BY <1>2, <1>3, <1>5
<1>16. Holds(n, t, c - d, l - d)'
  BY <1>2, <1>3, <1>5, <1>12, <1>14, <1>15 DEF Holds
<1>17. SndBuffer!Queued' = QueueOf(blocks', t, l - d) /\ SndBuffer!Distance(at.curr)' = c - d
  BY <1>16, QueueWillBe
<1>18. QueueOf(blocks', t, l - d) = SubSeq(q, d + 1, Len(q))
  <2>1. q \in Seq(Pkts) /\ Len(q) = l
    BY <1>3, QueueIsSeq
  <2>2. ASSUME NEW k \in 1 .. l - d PROVE blocks'[t[k - 1]].pkt = q[k + d]
    <3>1. k - 1 \in 0 .. n - 1 /\ (k - 1) + d < n /\ (k - 1) + d \in 0 .. n - 1 /\ ~((k - 1) + d < d)
          /\ k + d \in 1 .. l /\ (k + d) - 1 = (k - 1) + d
      BY <1>3, <1>5
    <3> DEFINE j == (k - 1) + d
    <3>2. t[k - 1] = o[j] /\ j \in 0 .. n - 1 /\ ~(j < d)
      BY <1>7, <3>1
    <3>3. q[k + d] = blocks[o[j]].pkt
      BY <3>1 DEF QueueOf
    <3> HIDE DEF j, q
    <3>4. o[j] \in 0 .. n - 1 /\ SndBuffer!Distance(o[j]) = j
      BY <1>3, <1>4, <3>2 DEF InTurn
    <3>5. blocks'[o[j]] = blocks[o[j]]
      BY <1>10, <3>2, <3>4
    <3> QED
      BY <3>2, <3>3, <3>5
  <2> HIDE DEF q
  <2>3. SubSeq(q, d + 1, Len(q)) = [k \in 1 .. l - d |-> q[k + d]]
    BY <1>3, <1>5, <2>1
  <2> QED
    BY <2>2, <2>3 DEF QueueOf
<1>19. Shown' = Shown
  BY <1>2 DEF Shown
<1> HIDE DEF q
<1>20. SndBuffer!Queue!Release
  BY <1>2, <1>4, <1>5, <1>17, <1>18, <1>19 DEF SndBuffer!Queue!Release, Shown
<1> QED
  BY <1>16, <1>20 DEF SendInv, QueueMoves, SndBuffer!Queue!QueueNext

\* There is a least number of increases that suffices.
LEMMA Suffices ==
    ASSUME NEW n, NEW o, NEW c, NEW l, Holds(n, o, c, l), adding = 0,
           NEW size \in 1 .. MsgPackets, count + size <= SndBufPackets
    PROVE  SndBuffer!Increases(size) \in Nat /\ l + size < n + SndBuffer!Increases(size) * Batch
<1>1. /\ SndBuffer!m_iSize = n /\ n \in Nat /\ n > 0 /\ count = l /\ l \in Nat /\ size \in Nat
      /\ Batch \in Nat /\ Batch > 0 /\ SndBufPackets \in Nat
  <2>1. SndBuffer!m_iSize = n /\ n \in Nat /\ n > 0
    BY QueueIs
  <2>2. l \in 0 .. n - 1 /\ count = l - adding
    BY DEF Holds
  <2>3. l \in Nat /\ count = l
    BY <2>1, <2>2
  <2>4. size \in Nat /\ Batch \in Nat /\ Batch > 0 /\ SndBufPackets \in Nat
    BY SndBufferAssumption DEF Batch
  <2> QED
    BY <2>1, <2>3, <2>4
<1> DEFINE Room(g) == size + count < n + g * Batch
           E == {g \in 0 .. SndBufPackets : Room(g)}
<1>2. \A g \in 0 .. SndBufPackets : g * Batch \in Nat /\ g \in Nat
  BY <1>1, TimesGrows
<1>3. SndBufPackets \in E
  <2>1. SndBufPackets <= SndBufPackets * Batch /\ SndBufPackets * Batch \in Nat
    <3>1. SndBufPackets * Batch \in Nat /\ 1 * SndBufPackets <= Batch * SndBufPackets /\ 1 * SndBufPackets = SndBufPackets
          /\ Batch * SndBufPackets = SndBufPackets * Batch
      BY <1>1, TimesGrows
    <3> QED
      BY <3>1
  <2> DEFINE x == SndBufPackets * Batch
  <2>2. x \in Nat /\ SndBufPackets <= x
    BY <2>1
  <2> HIDE DEF x
  <2>3. size + count < n + x /\ SndBufPackets \in 0 .. SndBufPackets
    BY <1>1, <2>2
  <2> QED
    BY <2>3 DEF x
<1>4. E \subseteq Nat /\ E # {}
  BY <1>2, <1>3
<1> HIDE DEF E
<1>5. PICK least \in E : \A e \in E : least <= e
  BY <1>4, LeastOf
<1> USE DEF E
<1>6. least \in 0 .. SndBufPackets /\ Room(least) /\ \A h \in 0 .. least - 1 : size + count >= n + h * Batch
  <2>1. least \in 0 .. SndBufPackets /\ Room(least) /\ least \in Nat
    BY <1>2, <1>5
  <2>2. ASSUME NEW h \in 0 .. least - 1 PROVE size + count >= n + h * Batch
    <3>1. h \in 0 .. SndBufPackets /\ h \in Nat /\ h < least
      BY <1>1, <2>1
    <3>2. ~Room(h)
      <4> SUFFICES ASSUME Room(h) PROVE FALSE
        OBVIOUS
      <4>1. h \in E
        BY <3>1
      <4>2. least <= h
        BY <1>5, <4>1
      <4> QED
        BY <2>1, <3>1, <4>2
    <3> DEFINE x == h * Batch
    <3>3. x \in Nat /\ ~(size + count < n + x)
      BY <1>2, <3>1, <3>2
    <3> HIDE DEF x
    <3>4. size + count >= n + x
      BY <1>1, <3>3
    <3> QED
      BY <3>4 DEF x
  <2> QED
    BY <2>1, <2>2
<1> DEFINE Fits(g) == size + count < n + g * Batch /\ \A h \in 0 .. g - 1 : size + count >= n + h * Batch
<1>7. SndBuffer!Increases(size) = CHOOSE g \in 0 .. SndBufPackets : Fits(g)
  BY <1>1 DEF SndBuffer!Increases, Batch
<1>8. Fits(least)
  BY <1>6
<1> HIDE DEF Fits
<1>9. SndBuffer!Increases(size) \in 0 .. SndBufPackets /\ Fits(SndBuffer!Increases(size))
  BY <1>6, <1>7, <1>8
<1> DEFINE g == SndBuffer!Increases(size)
<1>10. g \in 0 .. SndBufPackets /\ size + count < n + g * Batch
  BY <1>9 DEF Fits
<1> HIDE DEF g
<1>11. g \in Nat /\ g * Batch \in Nat
  BY <1>1, <1>2, <1>10
<1> DEFINE x == g * Batch
<1>12. x \in Nat /\ size + count < n + x
  BY <1>10, <1>11
<1> HIDE DEF x
<1>13. l + size < n + x
  BY <1>1, <1>12
<1> QED
  BY <1>11, <1>13 DEF x, g

\* The same ring, as increase makes it.
Increased(blk, s, D, top, g) ==
    LET end(b) == (b + 1 - s) % FirstBlocks = 0
        after(b) == IF b < s + FirstBlocks THEN blk[top].next ELSE b + 1 - 2 * FirstBlocks
    IN  [b \in 0 .. s + g * FirstBlocks - 1 |->
            IF b \in D
            THEN IF b = top /\ g > 0
                 THEN [blk[b] EXCEPT !.next = s + (g - 1) * FirstBlocks] ELSE blk[b]
            ELSE [next |-> IF end(b) THEN after(b) ELSE b + 1, pkt |-> SndBuffer!NoPacket]]

LEMMA IncreasedIs ==
    ASSUME NEW n, NEW o, NEW c, NEW l, Holds(n, o, c, l), NEW g \in Nat
    PROVE  SndBuffer!Increased(g) = Grown(blocks, n, o[l], g)
<1> DEFINE top == o[l]
           F(b) == IF b \in 0 .. n - 1
                   THEN IF b = top /\ g > 0 THEN [blocks[b] EXCEPT !.next = n + (g - 1) * Batch] ELSE blocks[b]
                   ELSE [next |-> IF (b + 1 - n) % Batch = 0 THEN IF b < n + Batch THEN blocks[top].next ELSE b + 1 - 2 * Batch
                                  ELSE b + 1,
                         pkt |-> SndBuffer!NoPacket]
<1>1. SndBuffer!m_iSize = n /\ DOMAIN blocks = 0 .. n - 1 /\ at.last = o[l] /\ n \in Nat /\ Batch \in Nat
  BY QueueIs, SndBufferAssumption DEF Holds, InTurn, Batch
<1>2. SndBuffer!Increased(g) = Increased(blocks, SndBuffer!m_iSize, DOMAIN blocks, at.last, g)
  BY Zenon DEF SndBuffer!Increased, Increased, SndBuffer!NoPacket
<1>3. SndBuffer!Increased(g) = Increased(blocks, n, 0 .. n - 1, top, g)
  BY <1>1, <1>2
<1>4. Increased(blocks, n, 0 .. n - 1, top, g) = [b \in 0 .. n + g * Batch - 1 |-> F(b)]
  BY Zenon DEF Increased, Batch
<1>5. 0 .. n + g * Batch - 1 = 0 .. (n + g * Batch) - 1
  <2>1. g * Batch \in Nat
    BY <1>1, TimesGrows
  <2> DEFINE x == g * Batch
  <2> HIDE DEF x
  <2>2. 0 .. n + x - 1 = 0 .. (n + x) - 1
    BY <1>1, <2>1 DEF x
  <2> QED
    BY <2>2 DEF x
<1>6. Grown(blocks, n, top, g) = [b \in 0 .. (n + g * Batch) - 1 |-> F(b)]
  BY Zenon DEF Grown
<1> HIDE DEF F, top
<1>7. SndBuffer!Increased(g) = Grown(blocks, n, top, g)
  BY <1>3, <1>4, <1>5, <1>6
<1> QED
  BY <1>7 DEF top

\* A message is put into l .. of a ring that has room for it.
LEMMA MessageIs ==
    ASSUME NEW msg \in Nat, NEW size \in Nat
    PROVE  /\ SndBuffer!Packets(msg, size) \in [1 .. size -> Pkts]
           /\ SndBuffer!Queue!Packets(msg, size) = SndBuffer!Packets(msg, size)
  BY DEF SndBuffer!Queue!Packets, SndBuffer!Packets, Pkts

\* The z packets ps in the places from l on.
Filled(blk, m, top, z, ps) ==
    [b \in 0 .. m - 1 |->
        LET place == {k \in 1 .. z : SndBuffer!After(blk, top, k - 1) = b}
        IN  IF place = {} THEN blk[b] ELSE [blk[b] EXCEPT !.pkt = ps[CHOOSE k \in place : TRUE]]]

FilledRight(blk, m, o, l, z, ps) ==
    /\ InTurn(Filled(blk, m, o[l], z, ps), m, o)
    /\ \A i \in 0 .. m - 1 : i < l => Filled(blk, m, o[l], z, ps)[o[i]].pkt = blk[o[i]].pkt
    /\ \A k \in 1 .. z : Filled(blk, m, o[l], z, ps)[o[l + (k - 1)]].pkt = ps[k]

LEMMA FilledIs ==
    ASSUME NEW blk, NEW m, NEW o, InTurn(blk, m, o), NEW l \in 0 .. m - 1,
           NEW z \in Nat, NEW ps \in [1 .. z -> Pkts], l + z < m
    PROVE  FilledRight(blk, m, o, l, z, ps)
<1> DEFINE f == Filled(blk, m, o[l], z, ps)
           place(b) == {k \in 1 .. z : SndBuffer!After(blk, o[l], k - 1) = b}
<1>1. m \in Nat /\ m > 0 /\ z \in Nat /\ l + z < m /\ l \in Nat /\ \A k \in 1 .. z : ps[k] \in Pkts
  BY DEF InTurn
<1>2. /\ o \in [0 .. m - 1 -> 0 .. m - 1] /\ \A i, j \in 0 .. m - 1 : o[i] = o[j] => i = j
      /\ blk \in [0 .. m - 1 -> Block(m)]
  BY DEF InTurn
<1>3. ASSUME NEW k \in 1 .. z PROVE SndBuffer!After(blk, o[l], k - 1) = o[l + (k - 1)] /\ l + (k - 1) \in 0 .. m - 1
  <2>1. k - 1 \in Nat /\ l + (k - 1) <= m - 1 /\ l + (k - 1) \in 0 .. m - 1
    BY <1>1
  <2> QED
    BY <2>1, WalkIs
<1>4. ASSUME NEW b \in 0 .. m - 1
      PROVE  f[b] = IF place(b) = {} THEN blk[b] ELSE [blk[b] EXCEPT !.pkt = ps[CHOOSE k \in place(b) : TRUE]]
  BY DEF Filled
<1>5. ASSUME NEW b \in 0 .. m - 1
      PROVE  f[b] \in Block(m) /\ f[b].next = blk[b].next /\ (place(b) = {} => f[b] = blk[b])
             /\ \A k \in 1 .. z : place(b) = {k} => f[b].pkt = ps[k]
  <2>1. blk[b] \in Block(m)
    BY <1>2
  <2>2. CASE place(b) = {}
    <3>1. f[b] = blk[b]
      BY <1>4, <2>2
    <3> HIDE DEF f, place
    <3> QED
      BY <2>1, <2>2, <3>1
  <2>3. CASE place(b) # {}
    <3> DEFINE p == CHOOSE k \in place(b) : TRUE
    <3>1. f[b] = [blk[b] EXCEPT !.pkt = ps[p]]
      BY <1>4, <2>3
    <3>2. p \in place(b)
      <4> HIDE DEF place
      <4> QED
        BY <2>3
    <3>3. p \in 1 .. z
      BY <3>2
    <3>4. ps[p] \in Pkts
      <4> HIDE DEF p
      <4> QED
        BY <1>1, <3>3
    <3>5. \A k \in 1 .. z : place(b) = {k} => p = k
      <4> HIDE DEF p, place
      <4> QED
        BY <3>2
    <3> HIDE DEF f, p, place
    <3> QED
      BY <2>1, <2>3, <3>1, <3>4, <3>5 DEF Block
  <2> QED
    BY <2>2, <2>3
<1>6. InTurn(f, m, o)
  <2>1. f = [b \in 0 .. m - 1 |-> f[b]]
    BY DEF Filled
  <2> HIDE DEF f, place
  <2>2. f \in [0 .. m - 1 -> Block(m)]
    BY <1>5, <2>1
  <2>3. \A b \in 0 .. m - 1 : f[b].next = blk[b].next
    BY <1>5
  <2> QED
    BY <2>2, <2>3, SameLinks
<1>7. ASSUME NEW i \in 0 .. m - 1, i < l PROVE f[o[i]].pkt = blk[o[i]].pkt
  <2>1. o[i] \in 0 .. m - 1
    BY <1>2
  <2>2. place(o[i]) = {}
    <3> SUFFICES ASSUME NEW k \in place(o[i]) PROVE FALSE
      BY Zenon
    <3>1. k \in 1 .. z /\ SndBuffer!After(blk, o[l], k - 1) = o[i]
      OBVIOUS
    <3> HIDE DEF place, f
    <3>2. o[l + (k - 1)] = o[i] /\ l + (k - 1) \in 0 .. m - 1
      BY <1>3, <3>1
    <3>3. l + (k - 1) = i
      BY <1>2, <3>2
    <3> QED
      BY <1>1, <1>7, <3>1, <3>3
  <2> HIDE DEF place, f
  <2> QED
    BY <1>5, <2>1, <2>2
<1>8. ASSUME NEW k \in 1 .. z PROVE f[o[l + (k - 1)]].pkt = ps[k]
  <2> DEFINE b == o[l + (k - 1)]
  <2>1. b \in 0 .. m - 1
    <3>1. l + (k - 1) \in 0 .. m - 1
      BY <1>3
    <3> QED
      BY <1>2, <3>1
  <2>2. \A j \in 1 .. z : SndBuffer!After(blk, o[l], j - 1) = b <=> j = k
    <3> TAKE j \in 1 .. z
    <3>1. SndBuffer!After(blk, o[l], j - 1) = o[l + (j - 1)] /\ l + (j - 1) \in 0 .. m - 1 /\ l + (k - 1) \in 0 .. m - 1
      BY <1>3
    <3>2. o[l + (j - 1)] = o[l + (k - 1)] <=> l + (j - 1) = l + (k - 1)
      BY <1>2, <3>1
    <3>3. l + (j - 1) = l + (k - 1) <=> j = k
      BY <1>1
    <3> QED
      BY <3>1, <3>2, <3>3
  <2>3. place(b) = {k}
    <3> HIDE DEF b
    <3> QED
      BY <2>2
  <2> HIDE DEF place, f, b
  <2>4. f[b].pkt = ps[k]
    BY <1>5, <2>1, <2>3
  <2> QED
    BY <2>4 DEF b
<1> QED
  BY <1>6, <1>7, <1>8 DEF FilledRight

LEMMA AddKeeps ==
    ASSUME SendInv, NEW size \in 1 .. MsgPackets, SndBuffer!addBuffer(size) PROVE SendInv' /\ QueueMoves
<1>1. PICK n, o, c, l : Holds(n, o, c, l)
  BY DEF SendInv
<1>0. PICK g : g = SndBuffer!Increases(size)
  OBVIOUS
<1> DEFINE m == n + g * Batch
           q == GrownOrder(n, o, l, g)
           large == Grown(blocks, n, o[l], g)
           ps == SndBuffer!Packets(nextMsg, size)
           z == l + size
           F(b) == LET place == {k \in 1 .. size : SndBuffer!After(large, o[l], k - 1) = b}
                   IN  IF place = {} THEN large[b] ELSE [large[b] EXCEPT !.pkt = ps[CHOOSE k \in place : TRUE]]
<1>2. /\ InTurn(blocks, n, o) /\ at = [first |-> o[0], curr |-> o[c], last |-> o[l]]
      /\ l \in 0 .. n - 1 /\ c \in 0 .. l /\ n \in Nat /\ n > 0 /\ l \in Nat /\ c \in Nat
      /\ count = l - adding /\ nextMsg \in Nat /\ size \in Nat /\ size > 0
  <2>1. size \in Nat /\ size > 0
    BY SndBufferAssumption
  <2> QED
    BY <1>1, <2>1, HoldsIs
<1>3. /\ adding = 0 /\ count + size <= SndBufPackets /\ adding' = size /\ UNCHANGED <<count, nextMsg, read>>
      /\ at' = [at EXCEPT !.last = SndBuffer!After(SndBuffer!Increased(g), at.last, size)]
  BY <1>0 DEF SndBuffer!addBuffer
<1>4. g \in Nat /\ z < m
  BY <1>0, <1>1, <1>3, Suffices
<1>5. SndBuffer!Increased(g) = large /\ at.last = o[l]
  BY <1>1, <1>2, <1>4, IncreasedIs
<1>6. InTurn(large, m, q)
  BY <1>2, <1>4, GrownInTurn
<1>7. /\ m \in Nat /\ DOMAIN large = 0 .. m - 1 /\ q \in [0 .. m - 1 -> 0 .. m - 1]
      /\ \A i \in 0 .. m - 1 : large[i] \in Block(m)
  BY <1>6 DEF InTurn
<1>8. \A k \in 0 .. n - 1 : k <= l => k \in 0 .. m - 1 /\ q[k] = o[k] /\ large[o[k]].pkt = blocks[o[k]].pkt
  BY <1>2, <1>4, GrownAt
<1>9. blocks' = Filled(large, m, o[l], size, ps)
  <2>1. blocks' = [b \in DOMAIN SndBuffer!Increased(g) |->
                     LET place == {k \in 1 .. size : SndBuffer!After(SndBuffer!Increased(g), at.last, k - 1) = b}
                     IN  IF place = {} THEN SndBuffer!Increased(g)[b]
                         ELSE [SndBuffer!Increased(g)[b] EXCEPT !.pkt = ps[CHOOSE k \in place : TRUE]]]
    BY <1>0, Zenon DEF SndBuffer!addBuffer
  <2>2. blocks' = [b \in DOMAIN large |-> F(b)]
    <3> HIDE DEF large, ps
    <3> QED
      BY <1>5, <2>1, Zenon DEF F
  <2>3. blocks' = [b \in 0 .. m - 1 |-> F(b)]
    <3> HIDE DEF F, large, m
    <3> QED
      BY <1>7, <2>2
  <2> HIDE DEF large, ps, m
  <2>4. Filled(large, m, o[l], size, ps) = [b \in 0 .. m - 1 |-> F(b)]
    BY Zenon DEF Filled, F
  <2> QED
    BY <2>3, <2>4
<1>10. ps \in [1 .. size -> Pkts] /\ SndBuffer!Queue!Packets(nextMsg, size) = ps
  BY <1>2, MessageIs
<1> HIDE DEF m, q, large, ps, F
<1>11. /\ l \in 0 .. m - 1 /\ z \in 0 .. m - 1 /\ z \in Nat /\ l + size <= m - 1 /\ c \in 0 .. z
       /\ z - size = l /\ 0 \in 0 .. n - 1 /\ c \in 0 .. n - 1 /\ 0 <= l /\ c <= l /\ l <= l
       /\ \A k \in 1 .. l : k - 1 \in 0 .. n - 1 /\ k - 1 <= l /\ k - 1 < l
       /\ \A k \in 1 .. z : k <= l \/ (k - l \in 1 .. size /\ l + ((k - l) - 1) = k - 1)
  BY <1>2, <1>4, <1>7
<1> HIDE DEF z
<1>12. q[0] = o[0] /\ q[c] = o[c] /\ q[l] = o[l] /\ \A k \in 1 .. l : q[k - 1] = o[k - 1] /\ k - 1 \in 0 .. m - 1
  BY <1>8, <1>2, <1>11
<1>13. /\ InTurn(blocks', m, q)
       /\ \A i \in 0 .. m - 1 : i < l => blocks'[q[i]].pkt = large[q[i]].pkt
       /\ \A k \in 1 .. size : blocks'[q[l + (k - 1)]].pkt = ps[k]
  <2>1. FilledRight(large, m, q, l, size, ps)
    <3>1. l + size < m
      BY <1>4 DEF z
    <3> QED
      BY <1>2, <1>6, <1>10, <1>11, <3>1, FilledIs
  <2> QED
    BY <1>9, <1>12, <2>1 DEF FilledRight
<1>14. SndBuffer!After(large, o[l], size) = q[z]
  <2>1. SndBuffer!After(large, q[l], size) = q[l + size]
    BY <1>2, <1>6, <1>11, WalkIs
  <2> QED
    BY <1>12, <2>1 DEF z
<1>15. at' = [first |-> q[0], curr |-> q[c], last |-> q[z]]
  BY <1>2, <1>3, <1>5, <1>12, <1>14
<1>16. count' = z - adding' /\ adding' \in Nat /\ nextMsg' \in Nat
  BY <1>2, <1>3, <1>11
<1>17. Holds(m, q, c, z)'
  BY <1>11, <1>13, <1>15, <1>16 DEF Holds
<1>18. /\ SndBuffer!Queued = QueueOf(blocks, o, l) /\ SndBuffer!Distance(at.curr) = c
       /\ SndBuffer!Queued' = QueueOf(blocks', q, z) /\ SndBuffer!Distance(at.curr)' = c
  BY <1>1, <1>17, QueueIs, QueueWillBe
<1> DEFINE old == QueueOf(blocks, o, l)
<1>19. /\ \A k \in 1 .. l : blocks'[q[k - 1]].pkt = old[k]
       /\ \A k \in 1 .. z : ~(k <= l) => blocks'[q[k - 1]].pkt = ps[k - l]
  <2>1. ASSUME NEW k \in 1 .. l PROVE blocks'[q[k - 1]].pkt = old[k]
    <3>1. old[k] = blocks[o[k - 1]].pkt
      BY DEF QueueOf
    <3>2. blocks'[q[k - 1]].pkt = large[q[k - 1]].pkt
      BY <1>11, <1>12, <1>13
    <3>3. large[o[k - 1]].pkt = blocks[o[k - 1]].pkt
      BY <1>8, <1>11
    <3> QED
      BY <1>12, <3>1, <3>2, <3>3
  <2>2. ASSUME NEW k \in 1 .. z, ~(k <= l) PROVE blocks'[q[k - 1]].pkt = ps[k - l]
    <3> DEFINE j == k - l
    <3>1. j \in 1 .. size /\ l + (j - 1) = k - 1
      BY <1>11, <2>2
    <3> HIDE DEF j
    <3> QED
      BY <1>13, <3>1 DEF j
  <2> QED
    BY <2>1, <2>2
<1>20. QueueOf(blocks', q, z) = old \o ps
  <2> DEFINE r == QueueOf(blocks', q, z)
  <2>1. old \in Seq(Pkts) /\ Len(old) = l
    BY <1>2, QueueIsSeq
  <2>2. ps \in Seq(Pkts) /\ Len(ps) = size
    BY <1>2, <1>10, IsASeq
  <2>3. r \in Seq(Pkts) /\ Len(r) = z
    BY <1>11, <1>13, QueueIsSeq
  <2>4. \A k \in 1 .. z : r[k] = blocks'[q[k - 1]].pkt
    BY DEF QueueOf
  <2> HIDE DEF r, old
  <2>5. \A k \in 1 .. l : r[k] = old[k]
    <3>1. \A k \in 1 .. l : k \in 1 .. z
      BY <1>2 DEF z
    <3> QED
      BY <1>19, <2>4, <3>1
  <2>6. \A k \in 1 .. size : r[l + k] = ps[k]
    <3> TAKE k \in 1 .. size
    <3>1. l + k \in 1 .. z /\ ~(l + k <= l) /\ (l + k) - l = k
      BY <1>2 DEF z
    <3> DEFINE j == l + k
    <3> HIDE DEF j
    <3>2. j \in 1 .. z /\ ~(j <= l) /\ j - l = k
      BY <3>1 DEF j
    <3>3. r[j] = blocks'[q[j - 1]].pkt /\ blocks'[q[j - 1]].pkt = ps[j - l]
      BY <1>19, <2>4, <3>2
    <3> QED
      BY <3>2, <3>3 DEF j
  <2>7. Len(r) = Len(old) + Len(ps)
    BY <2>1, <2>2, <2>3 DEF z
  <2>8. \A k \in 1 .. Len(old) : r[k] = old[k]
    BY <2>1, <2>5
  <2>9. \A k \in 1 .. Len(ps) : r[Len(old) + k] = ps[k]
    BY <2>1, <2>2, <2>6
  <2>10. old \o ps = r
    BY <2>1, <2>2, <2>3, <2>7, <2>8, <2>9, GoesOn
  <2> QED
    BY <2>10 DEF r
<1>21. Shown = nextMsg /\ Shown' = SndBuffer!NextMsgNo(nextMsg)
  BY <1>2, <1>3 DEF Shown, SndBuffer!NextMsgNo
<1>22. SndBuffer!NextMsgNo(nextMsg) = SndBuffer!Queue!NextMsgNo(nextMsg)
  BY DEF SndBuffer!NextMsgNo, SndBuffer!Queue!NextMsgNo
<1> HIDE DEF old
<1>23. /\ SndBuffer!Queued' = SndBuffer!Queued \o ps /\ Shown' = SndBuffer!Queue!NextMsgNo(Shown)
       /\ SndBuffer!Queue!Packets(Shown, size) = ps /\ read' = read
       /\ SndBuffer!Distance(at.curr)' = SndBuffer!Distance(at.curr)
  BY <1>3, <1>10, <1>18, <1>20, <1>21, <1>22 DEF old
<1>24. SndBuffer!Queue!Add(size)
  BY <1>23 DEF SndBuffer!Queue!Add, Shown
<1>25. QueueMoves
  BY <1>24 DEF QueueMoves, SndBuffer!Queue!QueueNext
<1> QED
  BY <1>17, <1>25 DEF SendInv

-----------------------------------------------------------------------------
\* The three threads that share the buffer, and whatever else the port does.
LEMMA SendKeeps == ASSUME SendInv, [PartsNext]_partsVars PROVE SendInv' /\ QueueMoves
<1>1. CASE UNCHANGED sndBufVars
  <2>1. UNCHANGED <<blocks, at, count, nextMsg, adding, read>>
    BY <1>1 DEF sndBufVars
  <2>2. SendInv'
    BY <2>1 DEF SendInv, Holds
  <2>3. UNCHANGED QueueVars
    <3>1. PICK n, o, c, l : Holds(n, o, c, l)
      BY DEF SendInv
    <3>2. Holds(n, o, c, l)'
      BY <2>1, <3>1 DEF Holds
    <3>3. SndBuffer!Queued' = SndBuffer!Queued /\ SndBuffer!Distance(at.curr)' = SndBuffer!Distance(at.curr)
      BY <2>1, <3>1, <3>2, QueueIs, QueueWillBe
    <3>4. Shown' = Shown
      BY <2>1 DEF Shown
    <3> QED
      BY <2>1, <3>3, <3>4 DEF QueueVars
  <2> QED
    BY <2>2, <2>3 DEF QueueMoves
<1>2. CASE SndBuffer!SndBufferNext
  <2>1. ASSUME NEW size \in 1 .. MsgPackets, SndBuffer!addBuffer(size) PROVE SendInv' /\ QueueMoves
    BY <2>1, AddKeeps
  <2>2. CASE SndBuffer!addBufferDone
    BY <2>2, CountKeeps
  <2>3. CASE SndBuffer!readData
    BY <2>3, ReadKeeps
  <2>4. ASSUME NEW offset \in 0 .. SndBufPackets, SndBuffer!readDataAt(offset) PROVE SendInv' /\ QueueMoves
    BY <2>4, ReadAgainKeeps
  <2>5. ASSUME NEW offset \in 1 .. SndBufPackets, SndBuffer!ackData(offset) PROVE SendInv' /\ QueueMoves
    BY <2>5, ReleaseKeeps
  <2> QED
    BY <1>2, <2>1, <2>2, <2>3, <2>4, <2>5 DEF SndBuffer!SndBufferNext
<1> QED
  BY <1>1, <1>2, SndBufferMoves DEF sndBufVars, SndBuffer!sndBufVars

\* However the three threads take turns, and however often the ring grows around the packets in
\* use, it is the queue of UdtSendQueue: for every first size of the ring, every limit on its
\* packets and every length of messages.
THEOREM SndBufferCorrect == PartsSpec => SndBufferIsQueue
<1>1. PartsInit => SendInv /\ SndBuffer!Queue!QueueInit /\ (Shown = nextMsg)
  BY SendBegins DEF PartsInit, Shown, SndBuffer!SndBufferInit
<1>2. SendInv /\ [PartsNext]_partsVars => SendInv' /\ [SndBuffer!Queue!QueueNext]_QueueVars
  BY SendKeeps DEF QueueMoves
<1>3. PartsInit => SendInv
  BY <1>1
<1>4. SendInv /\ [PartsNext]_partsVars => SendInv'
  BY <1>2
<1> QED
  BY <1>1, <1>2, <1>3, <1>4, PTL
     DEF PartsSpec, SndBufferIsQueue, SndBuffer!SndBufferIsQueue, SndBuffer!Queue!QueueSpec, QueueVars, Shown

-----------------------------------------------------------------------------
(* Congestion control, options and cache together *)

\* The congestion control, the options and the cache of paths keep their limits: the window and the
\* period are within bounds and a loss reported twice slows down once; what two ends have agreed on
\* fits into their packets and buffers; an address leads to what was last stored for it, until the
\* oldest item is dropped for one of another index.
THEOREM LimitsCorrect == PartsSpec => []LimitsHold
<1>1. CCInv /\ OptionsInv /\ CacheInv => LimitsHold
  BY CCLimits, OptionsLimits, CacheLimits DEF LimitsHold
<1> QED
  BY <1>1, CCInvariance, OptionsInvariance, CacheInvariance, PTL
=============================================================================
