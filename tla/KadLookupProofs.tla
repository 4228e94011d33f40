--------------------------- MODULE KadLookupProofs ---------------------------
(***************************************************************************)
(* Proofs about KadLookup, for any number of contacts, ids and lookups and *)
(* any ALPHA, BUCKET_SIZE and STALE.                                       *)
(***************************************************************************)
EXTENDS KadLookup, FiniteSetTheorems, WellFoundedInduction, TLAPS

-----------------------------------------------------------------------------
(* The n lowest elements of a finite set *)

StrictTotalOn(R, S) ==
    /\ \A a \in S : <<a, a>> \notin R
    /\ \A a, b, c \in S : <<a, b>> \in R /\ <<b, c>> \in R => <<a, c>> \in R
    /\ \A a, b \in S : a = b \/ <<a, b>> \in R \/ <<b, a>> \in R

\* A function into the naturals is least somewhere.
LEMMA ArgMin ==
    ASSUME NEW T, T # {}, NEW f \in [T -> Nat]
    PROVE  \E m \in T : \A t \in T : f[m] <= f[t]
<1> DEFINE D == {f[t] : t \in T}
<1>1. D \subseteq Nat /\ D # {}
  OBVIOUS
<1>2. PICK x \in D : \A y \in D : <<y, x>> \notin OpToRel(<, Nat)
  BY <1>1, WFMin, NatLessThanWellFounded
<1>3. PICK m \in T : x = f[m]
  BY <1>2
<1>4. ASSUME NEW t \in T PROVE f[m] <= f[t]
  <2>1. f[t] \in D /\ f[t] \in Nat /\ f[m] \in Nat
    OBVIOUS
  <2>2. <<f[t], x>> \notin OpToRel(<, Nat)
    BY <1>2, <2>1
  <2>3. ~(f[t] < f[m])
    BY <1>3, <2>1, <2>2 DEF OpToRel
  <2> QED
    BY <2>1, <2>3
<1> QED
  BY <1>4

\* A bounded function into the naturals is greatest somewhere.
LEMMA ArgMax ==
    ASSUME NEW T, T # {}, NEW f \in [T -> Nat], NEW n \in Nat, \A t \in T : f[t] <= n
    PROVE  \E m \in T : \A t \in T : f[t] <= f[m]
<1> DEFINE g == [t \in T |-> n - f[t]]
<1>1. g \in [T -> Nat]
  OBVIOUS
<1> HIDE DEF g
<1>2. PICK m \in T : \A t \in T : g[m] <= g[t]
  BY <1>1, ArgMin
<1>3. \A t \in T : f[t] <= f[m]
  BY <1>2 DEF g
<1> QED
  BY <1>3

Rank(R, S) == [c \in S |-> Cardinality({d \in S : <<d, c>> \in R})]

\* The rank of an element, by which Lowest cuts, grows along the order.
LEMMA RankGrows ==
    ASSUME NEW S, IsFiniteSet(S), NEW R, StrictTotalOn(R, S)
    PROVE  /\ Rank(R, S) \in [S -> Nat]
           /\ \A c \in S : Rank(R, S)[c] <= Cardinality(S)
           /\ \A a, b \in S : <<a, b>> \in R => Rank(R, S)[a] < Rank(R, S)[b]
<1> DEFINE Below(c) == {d \in S : <<d, c>> \in R}
<1>1. ASSUME NEW c \in S
      PROVE  /\ IsFiniteSet(Below(c)) /\ Cardinality(Below(c)) \in Nat
             /\ Cardinality(Below(c)) <= Cardinality(S)
  BY FS_Subset, FS_CardinalityType
<1>2. ASSUME NEW a \in S, NEW b \in S, <<a, b>> \in R
      PROVE  Cardinality(Below(a)) < Cardinality(Below(b))
  <2>1. Below(a) \in SUBSET Below(b)
    BY <1>2 DEF StrictTotalOn
  <2>2. Below(a) # Below(b)
    BY <1>2 DEF StrictTotalOn
  <2>3. /\ Cardinality(Below(a)) <= Cardinality(Below(b))
        /\ Cardinality(Below(a)) # Cardinality(Below(b))
    BY <1>1, <2>1, <2>2, FS_Subset
  <2> QED
    BY <1>1, <2>3
<1> QED
  BY <1>1, <1>2 DEF Rank

\* Lowest(S, R, n) is part of S and has at most n elements.
LEMMA LowestBound ==
    ASSUME NEW S, IsFiniteSet(S), NEW R, StrictTotalOn(R, S), NEW n \in Nat
    PROVE  /\ Lowest(S, R, n) \subseteq S
           /\ IsFiniteSet(Lowest(S, R, n))
           /\ Cardinality(Lowest(S, R, n)) <= n
<1> DEFINE T == Lowest(S, R, n)
           f == Rank(R, S)
<1>1. T \subseteq S /\ IsFiniteSet(T) /\ \A c \in T : f[c] < n
  BY FS_Subset DEF Lowest, Rank
<1>2. /\ f \in [S -> Nat]
      /\ \A c \in S : f[c] <= Cardinality(S)
      /\ \A a, b \in S : <<a, b>> \in R => f[a] < f[b]
  BY RankGrows
<1>3. \A c \in S : f[c] = Cardinality({d \in S : <<d, c>> \in R})
  BY DEF Rank
<1>4. Cardinality(S) \in Nat /\ Cardinality(T) \in Nat
  BY <1>1, FS_CardinalityType
<1> HIDE DEF T, f
<1>5. CASE T = {}
  BY <1>5, FS_EmptySet DEF T
<1>6. CASE T # {}
  <2> DEFINE g == [t \in T |-> f[t]]
  <2>1. g \in [T -> Nat] /\ \A t \in T : g[t] = f[t] /\ g[t] <= Cardinality(S)
    BY <1>1, <1>2
  <2> HIDE DEF g
  <2>2. PICK m \in T : \A t \in T : g[t] <= g[m]
    BY <1>4, <1>6, <2>1, ArgMax
  <2> DEFINE Below == {d \in S : <<d, m>> \in R}
  <2>3. T \ {m} \in SUBSET Below
    <3> SUFFICES ASSUME NEW t \in T, t # m, <<t, m>> \notin R PROVE FALSE
      BY <1>1
    <3>1. <<m, t>> \in R
      BY <1>1 DEF StrictTotalOn
    <3> QED
      BY <1>1, <1>2, <2>1, <2>2, <3>1
  <2>4. IsFiniteSet(Below)
    BY FS_Subset
  <2> HIDE DEF Below
  <2>5. Cardinality(T \ {m}) <= Cardinality(Below)
    BY <2>3, <2>4, FS_Subset
  <2>6. Cardinality(T \ {m}) = Cardinality(T) - 1
    BY <1>1, FS_RemoveElement
  <2>7. Cardinality(Below) < n /\ Cardinality(Below) \in Nat
    BY <1>1, <1>2, <1>3, <2>4, FS_CardinalityType DEF Below
  <2>8. Cardinality(T) <= n
    BY <1>4, <2>5, <2>6, <2>7
  <2> QED
    BY <1>1, <2>8 DEF T
<1> QED
  BY <1>5, <1>6

\* A non-empty finite set has a lowest element, which every n > 0 selects.
LEMMA LowestNonEmpty ==
    ASSUME NEW S, IsFiniteSet(S), S # {}, NEW R, StrictTotalOn(R, S), NEW n \in Nat \ {0}
    PROVE  Lowest(S, R, n) # {}
<1> DEFINE f == Rank(R, S)
<1>1. /\ f \in [S -> Nat]
      /\ \A a, b \in S : <<a, b>> \in R => f[a] < f[b]
  BY RankGrows
<1>2. \A c \in S : f[c] = Cardinality({d \in S : <<d, c>> \in R})
  BY DEF Rank
<1> HIDE DEF f
<1>3. PICK m \in S : \A t \in S : f[m] <= f[t]
  BY <1>1, ArgMin
<1>4. {d \in S : <<d, m>> \in R} = {}
  BY <1>1, <1>3
<1>5. Cardinality({d \in S : <<d, m>> \in R}) = 0
  BY <1>4, FS_EmptySet
<1>6. m \in Lowest(S, R, n)
  BY <1>5 DEF Lowest
<1> QED
  BY <1>6
\* An element that was left out saw n others selected, each of them lower.
LEMMA LowestFull ==
    ASSUME NEW S, IsFiniteSet(S), NEW R, StrictTotalOn(R, S), NEW n \in Nat,
           NEW c \in S, c \notin Lowest(S, R, n)
    PROVE  /\ Cardinality(Lowest(S, R, n)) = n
           /\ \A d \in Lowest(S, R, n) : <<d, c>> \in R
<1> DEFINE T == Lowest(S, R, n)
           f == Rank(R, S)
           X == S \ T
<1>1. /\ f \in [S -> Nat]
      /\ \A a, b \in S : <<a, b>> \in R => f[a] < f[b]
  BY RankGrows
<1>2. T \subseteq S /\ \A a \in S : a \in T <=> f[a] < n
  BY DEF Lowest, Rank
<1>3. IsFiniteSet(T) /\ Cardinality(T) <= n /\ Cardinality(T) \in Nat
  BY LowestBound, FS_CardinalityType
<1>4. \A a \in S : f[a] = Cardinality({d \in S : <<d, a>> \in R})
  BY DEF Rank
<1>5. c \in X
  OBVIOUS
<1> HIDE DEF f, T
<1> DEFINE g == [x \in X |-> f[x]]
<1>6. g \in [X -> Nat] /\ \A x \in X : g[x] = f[x]
  BY <1>1
<1> HIDE DEF g
<1>7. PICK m \in X : \A x \in X : g[m] <= g[x]
  BY <1>5, <1>6, ArgMin
<1> DEFINE Below == {d \in S : <<d, m>> \in R}
<1>8. Below \in SUBSET T
  <2> SUFFICES ASSUME NEW d \in S, <<d, m>> \in R, d \notin T PROVE FALSE
    OBVIOUS
  <2> QED
    BY <1>1, <1>6, <1>7
<1>9. IsFiniteSet(Below)
  BY FS_Subset
<1>10. Cardinality(Below) = f[m] /\ f[m] \in Nat /\ ~(f[m] < n)
  BY <1>1, <1>2, <1>4
<1> HIDE DEF Below
<1>11. Cardinality(Below) <= Cardinality(T)
  BY <1>3, <1>8, FS_Subset
<1>12. Cardinality(T) = n
  BY <1>3, <1>10, <1>11
<1>13. \A d \in T : <<d, c>> \in R
  <2> SUFFICES ASSUME NEW d \in T, <<d, c>> \notin R PROVE FALSE
    OBVIOUS
  <2>1. d # c /\ d \in S
    BY <1>2, <1>5
  <2>2. <<c, d>> \in R
    BY <2>1 DEF StrictTotalOn
  <2> QED
    BY <1>1, <1>2, <1>5, <2>1, <2>2
<1> QED
  BY <1>12, <1>13 DEF T

-----------------------------------------------------------------------------
(* The operators of the lookup *)

LEMMA CloserTotal ==
    ASSUME NEW o \in Lookup, NEW S \in SUBSET Contact, OnePerId(S)
    PROVE  StrictTotalOn(CloserOn(o, S), S)
<1>1. \A c \in S : IdOf[c] \in Id /\ Distance[o][IdOf[c]] \in Nat
  BY ContactAssumption, DistanceAssumption
<1>2. \A a, b \in S : a # b => Distance[o][IdOf[a]] # Distance[o][IdOf[b]]
  BY <1>1, DistanceAssumption DEF OnePerId
<1>3. \A a, b \in S : <<a, b>> \in CloserOn(o, S) <=> Distance[o][IdOf[a]] < Distance[o][IdOf[b]]
  BY DEF CloserOn, Closer
<1> QED
  BY <1>1, <1>2, <1>3 DEF StrictTotalOn

LEMMA SendOrderTotal ==
    ASSUME NEW o \in Lookup, NEW fail \in [Contact -> Nat],
           NEW S \in SUBSET Contact, OnePerId(S)
    PROVE  StrictTotalOn(SendOrder(o, fail, S), S)
<1>1. \A c \in S : fail[c] \in Nat /\ IdOf[c] \in Id /\ Distance[o][IdOf[c]] \in Nat
  BY ContactAssumption, DistanceAssumption
<1>2. \A a, b \in S : a # b => Distance[o][IdOf[a]] # Distance[o][IdOf[b]]
  BY <1>1, DistanceAssumption DEF OnePerId
<1>3. \A a, b \in S : <<a, b>> \in SendOrder(o, fail, S) <=>
           \/ fail[a] < fail[b]
           \/ fail[a] = fail[b] /\ Distance[o][IdOf[a]] < Distance[o][IdOf[b]]
  BY DEF SendOrder, Closer
<1> QED
  BY <1>1, <1>2, <1>3 DEF StrictTotalOn

\* Send(qty) chooses at most qty contacts, none of them blocked or stale, and
\* at least one if there is any to choose.
LEMMA ToSendChooses ==
    ASSUME NEW o \in Lookup, NEW fail \in [Contact -> Nat], NEW qty \in Nat,
           NEW list \in SUBSET Contact, NEW block \in SUBSET Contact, OnePerId(list)
    PROVE  LET sent == ToSend(o, list, block, fail, qty) IN
           /\ sent \subseteq Sendable(list, block, fail)
           /\ IsFiniteSet(sent)
           /\ Cardinality(sent) <= qty
           /\ qty > 0 /\ sent = {} => Sendable(list, block, fail) = {}
<1> DEFINE S == Sendable(list, block, fail)
           R == SendOrder(o, fail, S)
<1>1. S \in SUBSET Contact /\ OnePerId(S) /\ IsFiniteSet(S)
  BY ContactAssumption, FS_Subset DEF Sendable, OnePerId
<1>2. StrictTotalOn(R, S)
  BY <1>1, SendOrderTotal
<1>3. ToSend(o, list, block, fail, qty) = Lowest(S, R, qty)
  BY DEF ToSend
<1> HIDE DEF S, R
<1>4. /\ Lowest(S, R, qty) \subseteq S
      /\ IsFiniteSet(Lowest(S, R, qty))
      /\ Cardinality(Lowest(S, R, qty)) <= qty
  BY <1>1, <1>2, LowestBound
<1>5. qty > 0 /\ S # {} => Lowest(S, R, qty) # {}
  BY <1>1, <1>2, LowestNonEmpty
<1> QED
  BY <1>3, <1>4, <1>5 DEF S

\* A list that contacts were inserted in holds known ones, BUCKET_SIZE at most.
LEMMA InsertCuts ==
    ASSUME NEW o \in Lookup, NEW list \in SUBSET Contact, NEW news \in SUBSET Contact,
           OnePerId(list \cup news)
    PROVE  /\ Insert(o, list, news) \subseteq list \cup news
           /\ Cardinality(Insert(o, list, news)) <= BUCKET_SIZE
           /\ \A c \in list \ Insert(o, list, news) :
                 /\ Cardinality(Insert(o, list, news)) = BUCKET_SIZE
                 /\ \A d \in Insert(o, list, news) : Closer(o, d, c)
<1> DEFINE S == list \cup news
<1>1. StrictTotalOn(CloserOn(o, S), S)
  BY CloserTotal
<1>2. IsFiniteSet(S)
  BY ContactAssumption, FS_Subset
<1>3. Insert(o, list, news) = Lowest(S, CloserOn(o, S), BUCKET_SIZE) /\ BUCKET_SIZE \in Nat
  BY LimitAssumption DEF Insert
<1>4. ASSUME NEW c \in S, c \notin Insert(o, list, news)
      PROVE  /\ Cardinality(Insert(o, list, news)) = BUCKET_SIZE
             /\ \A d \in Insert(o, list, news) : Closer(o, d, c)
  <2> HIDE DEF S
  <2>0. c \notin Lowest(S, CloserOn(o, S), BUCKET_SIZE)
    BY <1>3, <1>4
  <2>1. /\ Cardinality(Lowest(S, CloserOn(o, S), BUCKET_SIZE)) = BUCKET_SIZE
        /\ \A d \in Lowest(S, CloserOn(o, S), BUCKET_SIZE) : <<d, c>> \in CloserOn(o, S)
    BY <1>1, <1>2, <1>3, <2>0, LowestFull
  <2>2. \A a, b : <<a, b>> \in CloserOn(o, S) => Closer(o, a, b)
    BY DEF CloserOn
  <2> QED
    BY <1>3, <2>1, <2>2
<1> QED
  BY <1>1, <1>2, <1>3, <1>4, LowestBound

\* Send(): the requests added are counted, and no other lookup is touched.
SendOutcome(o, sent, block, pending, ops) ==
    /\ mBlock' \in [Lookup -> SUBSET Contact]
    /\ mPendingQty' \in [Lookup -> Nat]
    /\ mOps' \subseteq Lookup \X Contact
    /\ mBlock'[o] = block \cup sent
    /\ Asked(o, mOps') = Asked(o, ops) \cup sent
    /\ mPendingQty'[o] = Cardinality(Asked(o, mOps'))
    /\ mPendingQty'[o] = pending + Cardinality(sent)
    /\ \A p \in Lookup \ {o} : /\ mBlock'[p] = mBlock[p]
                               /\ mPendingQty'[p] = mPendingQty[p]
                               /\ Asked(p, mOps') = Asked(p, ops)

LEMMA SendCounts ==
    ASSUME TypeOK, NEW o \in Lookup, NEW sent \in SUBSET Contact, NEW block \in SUBSET Contact,
           NEW ops \in SUBSET (Lookup \X Contact), NEW pending \in Nat,
           pending = Cardinality(Asked(o, ops)),
           Asked(o, ops) \cap sent = {},
           Send(o, sent, block, pending, ops)
    PROVE  SendOutcome(o, sent, block, pending, ops)
<1>1. IsFiniteSet(sent) /\ Cardinality(sent) \in Nat
  BY ContactAssumption, FS_Subset, FS_CardinalityType
<1>2. IsFiniteSet(Asked(o, ops))
  BY ContactAssumption, FS_Subset DEF Asked
<1>3. Asked(o, mOps') = Asked(o, ops) \cup sent
  BY DEF Send, Asked
<1>4. Cardinality(Asked(o, ops) \cup sent) = pending + Cardinality(sent)
  <2>1. Cardinality(Asked(o, ops) \cap sent) = 0
    BY FS_EmptySet
  <2>2. Cardinality(Asked(o, ops) \cup sent)
          = Cardinality(Asked(o, ops)) + Cardinality(sent) - Cardinality(Asked(o, ops) \cap sent)
    BY <1>1, <1>2, FS_Union
  <2> QED
    BY <1>1, <2>1, <2>2
<1>5. mPendingQty'[o] = pending + Cardinality(sent)
  BY DEF Send, TypeOK
<1>6. \A p \in Lookup \ {o} : Asked(p, mOps') = Asked(p, ops)
  BY DEF Send, Asked
<1>7. /\ mBlock' \in [Lookup -> SUBSET Contact]
      /\ mPendingQty' \in [Lookup -> Nat]
      /\ mOps' \subseteq Lookup \X Contact
      /\ mBlock'[o] = block \cup sent
  BY <1>1 DEF Send, TypeOK
<1>8. \A p \in Lookup \ {o} : mBlock'[p] = mBlock[p] /\ mPendingQty'[p] = mPendingQty[p]
  BY DEF Send, TypeOK
<1> QED
  BY <1>3, <1>4, <1>5, <1>6, <1>7, <1>8 DEF SendOutcome

\* A request that ends is no longer counted.
LEMMA OneRequestLess ==
    ASSUME TypeOK, NEW o \in Lookup, NEW c \in Contact, <<o, c>> \in mOps,
           mPendingQty[o] = Cardinality(Asked(o, mOps))
    PROVE  LET ops == mOps \ {<<o, c>>} IN
           /\ ops \in SUBSET (Lookup \X Contact)
           /\ Asked(o, ops) = Asked(o, mOps) \ {c}
           /\ c \in Asked(o, mOps)
           /\ mPendingQty[o] - 1 = Cardinality(Asked(o, ops))
           /\ mPendingQty[o] - 1 \in Nat
           /\ \A p \in Lookup \ {o} : Asked(p, ops) = Asked(p, mOps)
<1> DEFINE ops == mOps \ {<<o, c>>}
<1>1. Asked(o, ops) = Asked(o, mOps) \ {c} /\ c \in Asked(o, mOps)
  BY DEF Asked
<1>2. IsFiniteSet(Asked(o, mOps)) /\ IsFiniteSet(Asked(o, ops))
  BY ContactAssumption, FS_Subset DEF Asked
<1>3. Cardinality(Asked(o, ops)) = mPendingQty[o] - 1
  BY <1>1, <1>2, FS_RemoveElement
<1>4. Cardinality(Asked(o, ops)) \in Nat
  BY <1>2, FS_CardinalityType
<1>5. ops \in SUBSET (Lookup \X Contact) /\ \A p \in Lookup \ {o} : Asked(p, ops) = Asked(p, mOps)
  BY DEF TypeOK, Asked
<1> QED
  BY <1>1, <1>3, <1>4, <1>5
-----------------------------------------------------------------------------
(* The inductive invariant *)

\* What holds of each lookup.  Beyond the properties of KadLookup: a contact
\* that answered stays blocked, and a lookup that was not started is blank.
LookupInv(o) ==
    /\ mPendingQty[o] = Cardinality(Asked(o, mOps)) /\ mPendingQty[o] <= ALPHA
    /\ Asked(o, mOps) \cup answered[o] \subseteq mBlock[o]
    /\ Asked(o, mOps) \cap answered[o] = {}
    /\ mBlock[o] \cap mList[o] \subseteq Asked(o, mOps) \cup answered[o]
    /\ OnePerId(mList[o] \cup mBlock[o])
    /\ Cardinality(mList[o]) <= BUCKET_SIZE
    /\ completed[o] > 0 => completed[o] = 1 /\ Asked(o, mOps) = {}
    /\ o \notin started => mBlock[o] = {} /\ completed[o] = 0

IInv == TypeOK /\ \A o \in Lookup : LookupInv(o)

\* A step of another lookup leaves this one alone.
Untouched(p) ==
    /\ mList'[p] = mList[p] /\ mBlock'[p] = mBlock[p] /\ mPendingQty'[p] = mPendingQty[p]
    /\ Asked(p, mOps') = Asked(p, mOps) /\ answered'[p] = answered[p]
    /\ completed'[p] = completed[p] /\ (p \in started' <=> p \in started)

LEMMA OthersKeep ==
    ASSUME NEW p \in Lookup, LookupInv(p), Untouched(p)
    PROVE  LookupInv(p)'
  BY DEF Untouched, LookupInv, Asked, OnePerId

LEMMA InitIInv == Init => IInv
<1> SUFFICES ASSUME Init PROVE IInv
  OBVIOUS
<1>1. TypeOK
  BY DEF Init, TypeOK
<1>2. ASSUME NEW o \in Lookup PROVE LookupInv(o)
  <2>1. Asked(o, mOps) = {} /\ Cardinality({}) = 0
    BY FS_EmptySet DEF Init, Asked
  <2> QED
    BY <2>1, LimitAssumption DEF Init, LookupInv, OnePerId
<1> QED
  BY <1>1, <1>2 DEF IInv

LEMMA FindStep ==
    ASSUME IInv, NEW o \in Lookup, Find(o)
    PROVE  IInv' /\ \A p \in Lookup \ {o} : Untouched(p)
<1>1. TypeOK /\ LookupInv(o) /\ o \notin started
  BY DEF IInv, Find
<1>2. PICK closest \in SUBSET Contact :
          /\ OnePerId(closest) /\ Cardinality(closest) <= BUCKET_SIZE
          /\ mList' = [mList EXCEPT ![o] = closest]
          /\ Send(o, ToSend(o, closest, {}, mFailQty, ALPHA), {}, 0, mOps)
  BY DEF Find
<1> DEFINE sent == ToSend(o, closest, {}, mFailQty, ALPHA)
<1>3. /\ sent \in SUBSET closest
      /\ Cardinality(sent) <= ALPHA /\ Cardinality(sent) \in Nat
  <2>1. mFailQty \in [Contact -> Nat] /\ ALPHA \in Nat
    BY <1>1, LimitAssumption DEF TypeOK
  <2> QED
    BY <1>2, <2>1, ToSendChooses, FS_CardinalityType DEF Sendable
<1>4. Asked(o, mOps) = {} /\ Cardinality({}) = 0 /\ completed[o] = 0 /\ answered[o] = {}
  BY <1>1, FS_EmptySet DEF LookupInv
<1> HIDE DEF sent
<1>5. SendOutcome(o, sent, {}, 0, mOps)
  <2>1. /\ sent \in SUBSET Contact /\ mOps \in SUBSET (Lookup \X Contact)
        /\ Send(o, sent, {}, 0, mOps)
    BY <1>1, <1>2, <1>3 DEF TypeOK, sent
  <2> QED
    BY <1>1, <1>4, <2>1, SendCounts
<1>6. TypeOK'
  BY <1>1, <1>2, <1>5 DEF Find, TypeOK, SendOutcome
<1>7. LookupInv(o)'
  <2>1. mList'[o] = closest /\ completed'[o] = 0 /\ answered'[o] = {} /\ o \in started'
    BY <1>1, <1>2, <1>4 DEF Find, TypeOK
  <2>2. OnePerId(mList'[o] \cup mBlock'[o])
    BY <1>2, <1>3, <1>5, <2>1 DEF OnePerId, SendOutcome
  <2> QED
    BY <1>2, <1>3, <1>4, <1>5, <2>1, <2>2 DEF LookupInv, SendOutcome
<1>8. ASSUME NEW p \in Lookup, p # o PROVE LookupInv(p)' /\ Untouched(p)
  <2>1. LookupInv(p)
    BY DEF IInv
  <2>2. /\ mList'[p] = mList[p] /\ answered'[p] = answered[p] /\ completed'[p] = completed[p]
        /\ p \in started' <=> p \in started
    BY <1>1, <1>2, <1>8 DEF Find, TypeOK
  <2>3. Untouched(p)
    BY <1>5, <1>8, <2>2 DEF Untouched, SendOutcome
  <2> QED
    BY <2>1, <2>3, OthersKeep
<1> QED
  BY <1>6, <1>7, <1>8 DEF IInv

LEMMA TimeoutStep ==
    ASSUME IInv, NEW o \in Lookup, NEW c \in Contact, Timeout(o, c)
    PROVE  IInv' /\ \A p \in Lookup \ {o} : Untouched(p)
<1> DEFINE ops   == mOps \ {<<o, c>>}
           fail  == Fail(c)
           list  == ListAfterTimeout(o, c, fail)
           block == BlockAfterTimeout(o, c, fail)
           sent  == ToSend(o, list, block, fail, 1)
           pending == mPendingQty[o] - 1
<1>1. TypeOK /\ LookupInv(o) /\ <<o, c>> \in mOps
  BY DEF IInv, Timeout
<1>2. /\ ops \in SUBSET (Lookup \X Contact)
      /\ Asked(o, ops) = Asked(o, mOps) \ {c}
      /\ c \in Asked(o, mOps)
      /\ pending = Cardinality(Asked(o, ops))
      /\ pending \in Nat
      /\ \A p \in Lookup \ {o} : Asked(p, ops) = Asked(p, mOps)
  BY <1>1, OneRequestLess DEF LookupInv
<1>3. c \in mBlock[o] /\ o \in started
  BY <1>1, <1>2 DEF LookupInv
<1>4. /\ mList' = [mList EXCEPT ![o] = list]
      /\ Send(o, sent, block, pending, ops)
      /\ Complete(o, sent = {} /\ pending = 0)
      /\ mFailQty' = fail
      /\ UNCHANGED <<started, answered>>
  BY <1>3 DEF Timeout
<1>5. fail \in [Contact -> Nat]
  BY <1>1 DEF TypeOK, Fail
<1>6. /\ list \in SUBSET mList[o] /\ block \in SUBSET mBlock[o]
      /\ mBlock[o] \ {c} \subseteq block
      /\ c \in list => c \notin block
      /\ list \in SUBSET Contact /\ block \in SUBSET Contact
  BY <1>1 DEF ListAfterTimeout, BlockAfterTimeout, TypeOK
<1> HIDE DEF list, block, fail, ops
<1>7. OnePerId(list \cup block) /\ OnePerId(list)
  BY <1>1, <1>6 DEF LookupInv, OnePerId
<1>8. /\ sent \in SUBSET (list \ block)
      /\ Cardinality(sent) <= 1 /\ Cardinality(sent) \in Nat
  BY <1>5, <1>6, <1>7, ToSendChooses, FS_CardinalityType DEF Sendable
<1> HIDE DEF sent
<1>9. Asked(o, ops) \cap sent = {} /\ Asked(o, ops) \subseteq block
  BY <1>1, <1>2, <1>6, <1>8 DEF LookupInv
<1>10. SendOutcome(o, sent, block, pending, ops)
  <2>1. sent \in SUBSET Contact
    BY <1>6, <1>8
  <2> HIDE DEF pending
  <2> QED
    BY <1>1, <1>2, <1>4, <1>6, <1>9, <2>1, SendCounts
<1>11. TypeOK'
  <2>1. completed' \in [Lookup -> Nat]
    BY <1>1, <1>4 DEF TypeOK, Complete
  <2> QED
    BY <1>1, <1>4, <1>5, <1>6, <1>10, <2>1 DEF TypeOK, SendOutcome
<1>12. LookupInv(o)'
  <2>1. mList'[o] = list /\ answered'[o] = answered[o] /\ o \in started'
    BY <1>1, <1>3, <1>4 DEF TypeOK
  <2>2. Cardinality(list) <= BUCKET_SIZE
    <3>1. IsFiniteSet(mList[o])
      BY <1>1, ContactAssumption, FS_Subset DEF TypeOK
    <3> QED
      BY <1>1, <1>6, <3>1, FS_Subset, FS_CardinalityType, LimitAssumption DEF LookupInv
  <2>3. OnePerId(mList'[o] \cup mBlock'[o])
    BY <1>7, <1>8, <1>10, <2>1 DEF OnePerId, SendOutcome
  <2>4. completed[o] = 0
    BY <1>1, <1>2 DEF LookupInv, TypeOK
  <2>5. completed'[o] > 0 => completed'[o] = 1 /\ Asked(o, mOps') = {}
    <3>1. completed'[o] > 0 => completed'[o] = 1 /\ sent = {} /\ pending = 0
      BY <1>1, <1>4, <2>4 DEF Complete, TypeOK
    <3>2. IsFiniteSet(Asked(o, ops))
      BY ContactAssumption, FS_Subset DEF Asked
    <3> QED
      BY <1>2, <1>10, <3>1, <3>2, FS_EmptySet DEF SendOutcome
  <2>6. mPendingQty'[o] <= ALPHA
    BY <1>1, <1>2, <1>8, <1>10, LimitAssumption DEF LookupInv, TypeOK, SendOutcome
  <2>7. /\ Asked(o, mOps') \cup answered'[o] \subseteq mBlock'[o]
        /\ Asked(o, mOps') \cap answered'[o] = {}
        /\ mBlock'[o] \cap mList'[o] \subseteq Asked(o, mOps') \cup answered'[o]
    BY <1>1, <1>2, <1>6, <1>8, <1>10, <2>1 DEF LookupInv, SendOutcome
  <2> QED
    BY <1>10, <2>1, <2>2, <2>3, <2>5, <2>6, <2>7 DEF LookupInv, SendOutcome
<1>13. ASSUME NEW p \in Lookup, p # o PROVE LookupInv(p)' /\ Untouched(p)
  <2>1. LookupInv(p)
    BY DEF IInv
  <2>2. /\ mList'[p] = mList[p] /\ answered'[p] = answered[p] /\ completed'[p] = completed[p]
        /\ p \in started' <=> p \in started
    BY <1>1, <1>4, <1>13 DEF Complete, TypeOK
  <2>3. Untouched(p)
    BY <1>2, <1>10, <1>13, <2>2 DEF Untouched, SendOutcome
  <2> QED
    BY <2>1, <2>3, OthersKeep
<1> QED
  BY <1>11, <1>12, <1>13 DEF IInv

LEMMA RespondStep ==
    ASSUME IInv, NEW o \in Lookup, NEW c \in Contact, NEW found \in SUBSET Contact,
           OnePerId(found), Respond(o, c, found)
    PROVE  IInv' /\ \A p \in Lookup \ {o} : Untouched(p)
<1> DEFINE ops     == mOps \ {<<o, c>>}
           fail    == [mFailQty EXCEPT ![c] = 0]
           pending == mPendingQty[o] - 1
           list    == Insert(o, mList[o], Unknown(o, found))
           news    == list \ mList[o]
           sent    == IF news = {} THEN {}
                      ELSE ToSend(o, list, mBlock[o], fail, ALPHA - pending)
<1>1. TypeOK /\ LookupInv(o) /\ <<o, c>> \in mOps
  BY DEF IInv, Respond
<1>2. /\ ops \in SUBSET (Lookup \X Contact)
      /\ Asked(o, ops) = Asked(o, mOps) \ {c}
      /\ c \in Asked(o, mOps)
      /\ pending = Cardinality(Asked(o, ops))
      /\ pending \in Nat
      /\ \A p \in Lookup \ {o} : Asked(p, ops) = Asked(p, mOps)
  BY <1>1, OneRequestLess DEF LookupInv
<1>3. c \in mBlock[o] /\ o \in started
  BY <1>1, <1>2 DEF LookupInv
<1>4. /\ mList' = [mList EXCEPT ![o] = list]
      /\ Send(o, sent, mBlock[o], pending, ops)
      /\ Complete(o, NothingLeft(news, pending))
      /\ answered' = [answered EXCEPT ![o] = @ \cup {c}]
      /\ mFailQty' = fail
      /\ UNCHANGED started
  BY <1>3 DEF Respond
<1>5. fail \in [Contact -> Nat]
  BY <1>1 DEF TypeOK
<1>6. /\ Unknown(o, found) \in SUBSET Contact
      /\ OnePerId(mList[o] \cup Unknown(o, found) \cup mBlock[o])
      /\ Unknown(o, found) \cap mBlock[o] = {}
      /\ mList[o] \in SUBSET Contact /\ mBlock[o] \in SUBSET Contact
  <2>1. OnePerId(mList[o] \cup mBlock[o])
    BY <1>1 DEF LookupInv
  <2> QED
    BY <1>1, <2>1 DEF Unknown, OnePerId, TypeOK
<1>7. /\ list \subseteq mList[o] \cup Unknown(o, found)
      /\ Cardinality(list) <= BUCKET_SIZE
  <2>1. OnePerId(mList[o] \cup Unknown(o, found))
    BY <1>6 DEF OnePerId
  <2> QED
    BY <1>6, <2>1, InsertCuts
<1> HIDE DEF list, fail, ops
<1>8. list \in SUBSET Contact /\ OnePerId(list \cup mBlock[o]) /\ OnePerId(list)
  BY <1>6, <1>7 DEF OnePerId
<1>9. /\ sent \in SUBSET (list \ mBlock[o])
      /\ Cardinality(sent) <= ALPHA - pending /\ Cardinality(sent) \in Nat
      /\ news = {} => sent = {}
  <2>1. ALPHA - pending \in Nat /\ ALPHA - pending > 0
    BY <1>1, <1>2, LimitAssumption DEF LookupInv, TypeOK
  <2>2. CASE news = {}
    BY <2>1, <2>2, FS_EmptySet
  <2>3. CASE news # {}
    <3> DEFINE S == ToSend(o, list, mBlock[o], fail, ALPHA - pending)
               qty == ALPHA - pending
    <3>1. qty \in Nat
      BY <2>1
    <3> HIDE DEF qty
    <3>2. LET T == ToSend(o, list, mBlock[o], fail, qty) IN
          T \subseteq Sendable(list, mBlock[o], fail) /\ IsFiniteSet(T) /\ Cardinality(T) <= qty
      BY <1>5, <1>6, <1>8, <3>1, ToSendChooses
    <3> QED
      BY <2>3, <3>2, FS_CardinalityType DEF qty, Sendable
  <2> QED
    BY <2>2, <2>3
<1> HIDE DEF sent
<1>10. Asked(o, ops) \cap sent = {} /\ Asked(o, ops) \subseteq mBlock[o]
  BY <1>1, <1>2, <1>9 DEF LookupInv
<1>11. SendOutcome(o, sent, mBlock[o], pending, ops)
  <2>1. sent \in SUBSET Contact
    BY <1>8, <1>9
  <2> HIDE DEF pending
  <2> QED
    BY <1>1, <1>2, <1>4, <1>6, <1>10, <2>1, SendCounts
<1>12. TypeOK'
  <2>1. completed' \in [Lookup -> Nat]
    BY <1>1, <1>4 DEF TypeOK, Complete
  <2> QED
    BY <1>1, <1>4, <1>5, <1>8, <1>11, <2>1 DEF TypeOK, SendOutcome
<1>13. LookupInv(o)'
  <2>1. mList'[o] = list /\ answered'[o] = answered[o] \cup {c} /\ o \in started'
    BY <1>1, <1>3, <1>4 DEF TypeOK
  <2>2. OnePerId(mList'[o] \cup mBlock'[o])
    BY <1>8, <1>9, <1>11, <2>1 DEF OnePerId, SendOutcome
  <2>3. completed[o] = 0
    BY <1>1, <1>2 DEF LookupInv, TypeOK
  <2>4. completed'[o] > 0 => completed'[o] = 1 /\ Asked(o, mOps') = {}
    <3>1. completed'[o] > 0 => completed'[o] = 1 /\ news = {} /\ pending = 0
      BY <1>1, <1>4, <2>3 DEF Complete, NothingLeft, TypeOK
    <3>2. IsFiniteSet(Asked(o, ops))
      BY ContactAssumption, FS_Subset DEF Asked
    <3> QED
      BY <1>2, <1>9, <1>11, <3>1, <3>2, FS_EmptySet DEF SendOutcome
  <2>5. mPendingQty'[o] <= ALPHA
    BY <1>1, <1>2, <1>9, <1>11, LimitAssumption DEF LookupInv, TypeOK, SendOutcome
  <2>6. /\ Asked(o, mOps') \cup answered'[o] \subseteq mBlock'[o]
        /\ Asked(o, mOps') \cap answered'[o] = {}
        /\ mBlock'[o] \cap mList'[o] \subseteq Asked(o, mOps') \cup answered'[o]
    BY <1>1, <1>2, <1>3, <1>6, <1>7, <1>9, <1>11, <2>1 DEF LookupInv, SendOutcome
  <2> QED
    BY <1>7, <1>11, <2>1, <2>2, <2>4, <2>5, <2>6 DEF LookupInv, SendOutcome
<1>14. ASSUME NEW p \in Lookup, p # o PROVE LookupInv(p)' /\ Untouched(p)
  <2>1. LookupInv(p)
    BY DEF IInv
  <2>2. /\ mList'[p] = mList[p] /\ answered'[p] = answered[p] /\ completed'[p] = completed[p]
        /\ p \in started' <=> p \in started
    BY <1>1, <1>4, <1>14 DEF Complete, TypeOK
  <2>3. Untouched(p)
    BY <1>2, <1>11, <1>14, <2>2 DEF Untouched, SendOutcome
  <2> QED
    BY <2>1, <2>3, OthersKeep
<1> QED
  BY <1>12, <1>13, <1>14 DEF IInv

LEMMA ReturnStep ==
    ASSUME IInv, NEW c \in Contact, Return(c)
    PROVE  IInv' /\ \A p \in Lookup : Untouched(p)
<1>1. TypeOK'
  BY DEF IInv, TypeOK, Return
<1>2. ASSUME NEW p \in Lookup PROVE LookupInv(p)' /\ Untouched(p)
  <2>1. LookupInv(p)
    BY DEF IInv
  <2>2. Untouched(p)
    BY DEF Untouched, Return
  <2> QED
    BY <2>1, <2>2, OthersKeep
<1> QED
  BY <1>1, <1>2 DEF IInv

LEMMA StutterStep ==
    ASSUME IInv, UNCHANGED vars
    PROVE  IInv' /\ \A p \in Lookup : Untouched(p)
<1>1. TypeOK'
  BY DEF IInv, TypeOK, vars
<1>2. ASSUME NEW p \in Lookup PROVE LookupInv(p)' /\ Untouched(p)
  <2>1. LookupInv(p)
    BY DEF IInv
  <2>2. Untouched(p)
    BY DEF Untouched, vars
  <2> QED
    BY <2>1, <2>2, OthersKeep
<1> QED
  BY <1>1, <1>2 DEF IInv

LEMMA NextKeepsIInv == IInv /\ [Next]_vars => IInv'
<1> SUFFICES ASSUME IInv, [Next]_vars PROVE IInv'
  OBVIOUS
<1>1. ASSUME NEW o \in Lookup, Find(o) PROVE IInv'
  BY <1>1, FindStep
<1>2. ASSUME NEW o \in Lookup, NEW c \in Contact, Timeout(o, c) PROVE IInv'
  BY <1>2, TimeoutStep
<1>3. ASSUME NEW o \in Lookup, NEW c \in Contact,
             NEW found \in {S \in SUBSET Contact : OnePerId(S)}, Respond(o, c, found)
      PROVE  IInv'
  BY <1>3, RespondStep
<1>4. ASSUME NEW c \in Contact, Return(c) PROVE IInv'
  BY <1>4, ReturnStep
<1>5. CASE UNCHANGED vars
  BY <1>5, StutterStep
<1> QED
  BY <1>1, <1>2, <1>3, <1>4, <1>5 DEF Next

\* The inductive invariant holds of every state of every behaviour.
THEOREM Invariance == Spec => []IInv
  BY InitIInv, NextKeepsIInv, PTL DEF Spec

-----------------------------------------------------------------------------
(* The invariants *)

\* The state of the lookups keeps its types.
THEOREM TypeCorrect == Spec => []TypeOK
<1>1. IInv => TypeOK
  BY DEF IInv
<1> QED
  BY <1>1, Invariance, PTL

\* mPendingQty counts the requests of each lookup, ALPHA at most.
THEOREM PendingCorrect == Spec => []PendingMatchesRequests
<1>1. IInv => PendingMatchesRequests
  BY DEF IInv, LookupInv, PendingMatchesRequests
<1> QED
  BY <1>1, Invariance, PTL

\* "Wrong pending" never happens and no contact of a list is in limbo.
THEOREM BlockedCorrect == Spec => []BlockedIsAccounted
<1>1. IInv => BlockedIsAccounted
  BY DEF IInv, LookupInv, BlockedIsAccounted
<1> QED
  BY <1>1, Invariance, PTL

\* A lookup never deals with two contacts of one id.
THEOREM IdsCorrect == Spec => []OneContactPerId
<1>1. IInv => OneContactPerId
  BY DEF IInv, LookupInv, OneContactPerId
<1> QED
  BY <1>1, Invariance, PTL

\* The handler of a lookup is called at most once, after its last request.
THEOREM CompletionCorrect == Spec => []CompletesOnce
<1>1. IInv => CompletesOnce
  BY DEF IInv, LookupInv, CompletesOnce
<1> QED
  BY <1>1, Invariance, PTL

-----------------------------------------------------------------------------
(* The action properties *)

\* Every step is one of this lookup or leaves it alone.
LEMMA OwnSteps ==
    ASSUME IInv, [Next]_vars, NEW o \in Lookup
    PROVE  \/ Find(o)
           \/ \E c \in Contact : Timeout(o, c)
           \/ \E c \in Contact, found \in SUBSET Contact : OnePerId(found) /\ Respond(o, c, found)
           \/ Untouched(o)
<1>1. ASSUME NEW p \in Lookup, Find(p), p # o PROVE Untouched(o)
  BY <1>1, FindStep
<1>2. ASSUME NEW p \in Lookup, NEW c \in Contact, Timeout(p, c), p # o PROVE Untouched(o)
  BY <1>2, TimeoutStep
<1>3. ASSUME NEW p \in Lookup, NEW c \in Contact, NEW found \in SUBSET Contact,
             OnePerId(found), Respond(p, c, found), p # o
      PROVE  Untouched(o)
  BY <1>3, RespondStep
<1>4. ASSUME NEW c \in Contact, Return(c) PROVE Untouched(o)
  BY <1>4, ReturnStep
<1>5. CASE UNCHANGED vars
  BY <1>5, StutterStep
<1> QED
  BY <1>1, <1>2, <1>3, <1>4, <1>5 DEF Next

\* What one step may change of the history of a lookup.
LEMMA HistoryGrows ==
    ASSUME IInv, [Next]_vars, NEW o \in Lookup
    PROVE  /\ answered[o] \subseteq answered'[o]
           /\ completed[o] > 0 => completed'[o] > 0 /\ mList'[o] = mList[o]
<1>1. TypeOK /\ LookupInv(o)
  BY DEF IInv
<1>2. CASE Find(o)
  BY <1>1, <1>2 DEF Find, LookupInv, TypeOK
<1>3. ASSUME NEW c \in Contact, Timeout(o, c) PROVE answered'[o] = answered[o] /\ ~(completed[o] > 0)
  BY <1>1, <1>3 DEF Timeout, LookupInv, Asked
<1>4. ASSUME NEW c \in Contact, NEW found \in SUBSET Contact, Respond(o, c, found)
      PROVE  answered[o] \subseteq answered'[o] /\ ~(completed[o] > 0)
  BY <1>1, <1>4 DEF Respond, LookupInv, Asked, TypeOK
<1>5. CASE Untouched(o)
  BY <1>5 DEF Untouched
<1> QED
  BY <1>2, <1>3, <1>4, <1>5, OwnSteps

\* A lookup asks nobody again who answered it, and a completed one is over.
THEOREM NoSecondQuestionCorrect == Spec => NoSecondQuestion
<1> DEFINE A(o) == /\ Asked(o, mOps') \cap answered[o] = {}
                   /\ completed[o] > 0 => mList'[o] = mList[o] /\ Asked(o, mOps') = {}
<1>1. ASSUME IInv, [Next]_vars, NEW o \in Lookup PROVE A(o)
  <2>1. LookupInv(o)'
    BY <1>1, NextKeepsIInv DEF IInv
  <2>2. /\ Asked(o, mOps') \cap answered'[o] = {}
        /\ completed'[o] > 0 => Asked(o, mOps') = {}
    BY <2>1 DEF LookupInv, Asked
  <2> QED
    BY <1>1, <2>2, HistoryGrows
<1>2. IInv /\ [Next]_vars => [\A o \in Lookup : A(o)]_vars
  BY <1>1
<1> QED
  BY <1>2, Invariance, PTL DEF Spec, NoSecondQuestion

\* A contact is lost from a list only to staleness or to BUCKET_SIZE closer ones.
THEOREM OnlyDisplacedOrStaleCorrect == Spec => OnlyDisplacedOrStale
<1> DEFINE A(o) == \A c \in mList[o] \ mList'[o] :
                     \/ mFailQty'[c] >= STALE
                     \/ /\ Cardinality(mList'[o]) = BUCKET_SIZE
                        /\ \A d \in mList'[o] : Closer(o, d, c)
<1>1. ASSUME IInv, [Next]_vars, NEW o \in started PROVE A(o)
  <2>0. TypeOK /\ o \in Lookup /\ LookupInv(o)
    BY <1>1 DEF IInv, TypeOK
  <2>1. ~Find(o)
    BY DEF Find
  <2>2. ASSUME NEW e \in Contact, Timeout(o, e) PROVE A(o)
    BY <2>0, <2>2 DEF Timeout, ListAfterTimeout, IsStale, TypeOK
  <2>3. ASSUME NEW e \in Contact, NEW found \in SUBSET Contact, OnePerId(found), Respond(o, e, found)
        PROVE  A(o)
    <3> DEFINE list == Insert(o, mList[o], Unknown(o, found))
    <3>1. mList'[o] = mList[o] \/ mList'[o] = list
      BY <2>0, <2>3 DEF Respond, TypeOK
    <3>2. /\ mList[o] \in SUBSET Contact /\ Unknown(o, found) \in SUBSET Contact
          /\ OnePerId(mList[o] \cup Unknown(o, found))
      BY <2>0, <2>3 DEF LookupInv, Unknown, OnePerId, TypeOK
    <3>3. \A c \in mList[o] \ list : /\ Cardinality(list) = BUCKET_SIZE
                                     /\ \A d \in list : Closer(o, d, c)
      BY <2>0, <3>2, InsertCuts
    <3> HIDE DEF list
    <3> QED
      BY <3>1, <3>3
  <2>4. CASE Untouched(o)
    BY <2>4 DEF Untouched
  <2> HIDE DEF A
  <2> QED
    BY <1>1, <2>0, <2>1, <2>2, <2>3, <2>4, OwnSteps
<1>2. IInv /\ [Next]_vars => [\A o \in started : A(o)]_vars
  BY <1>1
<1> QED
  BY <1>2, Invariance, PTL DEF Spec, OnlyDisplacedOrStale

\* A lookup that ends without its handler had nobody left to ask.
THEOREM SilentOnlyWhenExhaustedCorrect == Spec => SilentOnlyWhenExhausted
<1> DEFINE A(o) == /\ mPendingQty'[o] = 0 /\ completed'[o] = 0
                   /\ o \notin started \/ mPendingQty[o] > 0
                   => Sendable(mList'[o], mBlock'[o], mFailQty') = {}
<1>1. ASSUME IInv, [Next]_vars, NEW o \in started' PROVE A(o)
  <2> DEFINE Silent == mPendingQty'[o] = 0 /\ completed'[o] = 0
  <2>0. TypeOK /\ TypeOK' /\ o \in Lookup /\ LookupInv(o)
    BY <1>1, NextKeepsIInv DEF IInv, TypeOK
  <2>1. ASSUME Find(o), Silent PROVE A(o)
    <3>1. PICK closest \in SUBSET Contact :
              /\ OnePerId(closest)
              /\ mList' = [mList EXCEPT ![o] = closest]
              /\ Send(o, ToSend(o, closest, {}, mFailQty, ALPHA), {}, 0, mOps)
      BY <2>1 DEF Find
    <3> DEFINE sent == ToSend(o, closest, {}, mFailQty, ALPHA)
    <3>2. /\ sent \subseteq Sendable(closest, {}, mFailQty)
          /\ IsFiniteSet(sent)
          /\ sent = {} => Sendable(closest, {}, mFailQty) = {}
      <4>1. mFailQty \in [Contact -> Nat] /\ ALPHA \in Nat /\ ALPHA > 0
        BY <2>0, LimitAssumption DEF TypeOK
      <4> QED
        BY <2>0, <3>1, <4>1, ToSendChooses
    <3> HIDE DEF sent
    <3>3. /\ mPendingQty'[o] = 0 + Cardinality(sent) /\ mBlock'[o] = {} \cup sent
          /\ mList'[o] = closest /\ mFailQty' = mFailQty
      BY <2>0, <2>1, <3>1 DEF Send, Find, TypeOK, sent
    <3>4. Cardinality(sent) \in Nat
      BY <3>2, FS_CardinalityType
    <3>5. sent = {}
      BY <2>1, <3>2, <3>3, <3>4, FS_EmptySet
    <3> QED
      BY <3>2, <3>3, <3>5
  <2>2. ASSUME NEW c \in Contact, Timeout(o, c), Silent PROVE FALSE
    <3> DEFINE ops   == mOps \ {<<o, c>>}
               list  == ListAfterTimeout(o, c, Fail(c))
               block == BlockAfterTimeout(o, c, Fail(c))
               sent  == ToSend(o, list, block, Fail(c), 1)
    <3>1. c \in mBlock[o] /\ completed[o] = 0 /\ mPendingQty[o] \in Nat
      BY <2>0, <2>2 DEF Timeout, LookupInv, Asked, TypeOK
    <3>2. /\ Send(o, sent, block, mPendingQty[o] - 1, ops)
          /\ Complete(o, sent = {} /\ mPendingQty[o] - 1 = 0)
      BY <2>2, <3>1 DEF Timeout
    <3>3. IsFiniteSet(sent)
      <4>1. list \in SUBSET Contact
        BY <2>0 DEF ListAfterTimeout, TypeOK
      <4>2. sent \in SUBSET Contact
        BY <4>1 DEF ToSend, Lowest, Sendable
      <4> QED
        BY <4>2, ContactAssumption, FS_Subset
    <3> HIDE DEF sent
    <3>4. mPendingQty'[o] = mPendingQty[o] - 1 + Cardinality(sent) /\ Cardinality(sent) \in Nat
      BY <2>0, <3>1, <3>2, <3>3, FS_CardinalityType DEF Send, TypeOK
    <3>5. mPendingQty[o] > 0
      <4>1. LET f == mOps \ {<<o, c>>} IN mPendingQty[o] - 1 \in Nat
        BY <2>0, <2>2, OneRequestLess DEF LookupInv, Timeout
      <4> QED
        BY <3>1, <4>1
    <3>6. mPendingQty[o] - 1 = 0 /\ Cardinality(sent) = 0
      BY <2>2, <3>1, <3>4, <3>5
    <3>7. sent = {}
      BY <3>3, <3>6, FS_EmptySet
    <3> QED
      BY <2>0, <2>2, <3>1, <3>2, <3>6, <3>7 DEF Complete, TypeOK
  <2>3. ASSUME NEW c \in Contact, NEW found \in SUBSET Contact, OnePerId(found),
               Respond(o, c, found), Silent
        PROVE  A(o)
    <3> DEFINE ops     == mOps \ {<<o, c>>}
               fail    == [mFailQty EXCEPT ![c] = 0]
               pending == mPendingQty[o] - 1
               list    == Insert(o, mList[o], Unknown(o, found))
               news    == list \ mList[o]
               sent    == IF news = {} THEN {}
                          ELSE ToSend(o, list, mBlock[o], fail, ALPHA - pending)
    <3>1. c \in mBlock[o] /\ completed[o] = 0 /\ pending \in Nat /\ pending < ALPHA
      <4>1. c \in mBlock[o] /\ completed[o] = 0 /\ <<o, c>> \in mOps
        BY <2>0, <2>3 DEF Respond, LookupInv, Asked, TypeOK
      <4>2. LET f == mOps \ {<<o, c>>} IN mPendingQty[o] - 1 \in Nat
        BY <2>0, <4>1, OneRequestLess DEF LookupInv
      <4> QED
        BY <2>0, <4>1, <4>2, LimitAssumption DEF LookupInv, TypeOK
    <3>2. /\ mList' = [mList EXCEPT ![o] = list]
          /\ Send(o, sent, mBlock[o], pending, ops)
          /\ Complete(o, NothingLeft(news, pending))
          /\ mFailQty' = fail
      BY <2>3, <3>1 DEF Respond
    <3>3. /\ list \in SUBSET Contact /\ OnePerId(list) /\ mBlock[o] \in SUBSET Contact
          /\ fail \in [Contact -> Nat]
      <4>1. /\ mList[o] \in SUBSET Contact /\ Unknown(o, found) \in SUBSET Contact
            /\ OnePerId(mList[o] \cup Unknown(o, found))
        BY <2>0, <2>3 DEF LookupInv, Unknown, OnePerId, TypeOK
      <4>2. list \subseteq mList[o] \cup Unknown(o, found)
        BY <2>0, <4>1, InsertCuts
      <4> HIDE DEF list
      <4> QED
        BY <2>0, <4>1, <4>2 DEF OnePerId, TypeOK
    <3> HIDE DEF list, fail
    <3>4. /\ IsFiniteSet(sent)
          /\ news # {} /\ sent = {} => Sendable(list, mBlock[o], fail) = {}
      <4> DEFINE qty == ALPHA - pending
      <4>1. qty \in Nat /\ qty > 0
        BY <3>1, LimitAssumption
      <4> HIDE DEF qty
      <4>2. LET T == ToSend(o, list, mBlock[o], fail, qty) IN
            IsFiniteSet(T) /\ (T = {} => Sendable(list, mBlock[o], fail) = {})
        BY <2>0, <3>3, <4>1, ToSendChooses
      <4> QED
        BY <4>2, FS_EmptySet DEF qty
    <3> HIDE DEF sent
    <3>5. /\ mPendingQty'[o] = pending + Cardinality(sent) /\ Cardinality(sent) \in Nat
          /\ mBlock'[o] = mBlock[o] \cup sent /\ mList'[o] = list
      BY <2>0, <3>2, <3>4, FS_CardinalityType DEF Send, TypeOK
    <3>6. pending = 0 /\ sent = {}
      <4>0. mPendingQty'[o] = 0
        BY <2>3
      <4> HIDE DEF pending
      <4>1. pending = 0 /\ Cardinality(sent) = 0
        BY <4>0, <3>1, <3>5
      <4> QED
        BY <3>4, <4>1, FS_EmptySet
    <3>7. news # {}
      BY <2>0, <2>3, <3>1, <3>2, <3>6 DEF Complete, NothingLeft, TypeOK
    <3> QED
      BY <3>2, <3>4, <3>5, <3>6, <3>7
  <2>4. CASE Untouched(o)
    BY <2>0, <2>4 DEF Untouched, TypeOK
  <2>5. ~Silent => A(o)
    OBVIOUS
  <2> HIDE DEF A, Silent
  <2> QED
    BY <1>1, <2>0, <2>1, <2>2, <2>3, <2>4, <2>5, OwnSteps
<1>2. IInv /\ [Next]_vars => [\A o \in started' : A(o)]_vars
  BY <1>1
<1> QED
  BY <1>2, Invariance, PTL DEF Spec, SilentOnlyWhenExhausted

-----------------------------------------------------------------------------
(* How far mFailQty overshoots STALE *)

Askers(c, ops) == {o \in Lookup : <<o, c>> \in ops}

LEMMA AskersBound ==
    ASSUME NEW c \in Contact, NEW ops
    PROVE  /\ IsFiniteSet(Askers(c, ops))
           /\ Cardinality(Askers(c, ops)) \in Nat
           /\ Cardinality(Lookup) \in Nat
           /\ Cardinality(Askers(c, ops)) <= Cardinality(Lookup)
  BY LookupAssumption, FS_Subset, FS_CardinalityType DEF Askers

FailInv(c) ==
    mFailQty[c] + Cardinality(Askers(c, mOps)) <= STALE - 1 + Cardinality(Lookup)

\* Only contacts that are not stale are sent to, and only as many requests are
\* in flight to one as there are lookups.
LEMMA SendKeepsFailInv ==
    ASSUME TypeOK, NEW c \in Contact, NEW o \in Lookup, NEW sent, NEW ops \in SUBSET mOps,
           mFailQty'[c] \in Nat,
           mOps' = ops \cup ({o} \X sent),
           c \in sent => mFailQty'[c] < STALE,
           c \notin sent => mFailQty'[c] + Cardinality(Askers(c, ops))
                              <= STALE - 1 + Cardinality(Lookup)
    PROVE  FailInv(c)'
<1>1. /\ Cardinality(Askers(c, mOps')) \in Nat /\ Cardinality(Lookup) \in Nat
      /\ Cardinality(Askers(c, mOps')) <= Cardinality(Lookup)
  BY AskersBound
<1>2. CASE c \in sent
  <2>1. mFailQty'[c] + Cardinality(Askers(c, mOps')) <= STALE - 1 + Cardinality(Lookup)
    BY <1>1, <1>2, LimitAssumption
  <2> QED
    BY <2>1 DEF FailInv, Askers
<1>3. CASE c \notin sent
  <2>1. Askers(c, mOps') = Askers(c, ops)
    BY <1>3 DEF Askers
  <2>2. mFailQty'[c] + Cardinality(Askers(c, mOps')) <= STALE - 1 + Cardinality(Lookup)
    BY <1>3, <2>1
  <2> QED
    BY <2>2 DEF FailInv, Askers
<1> QED
  BY <1>2, <1>3

\* A contact's failures and the requests in flight to it are bounded together.
THEOREM FailBoundCorrect == Spec => []FailBound
<1>1. Init => \A c \in Contact : FailInv(c)
  <2> SUFFICES ASSUME Init, NEW c \in Contact PROVE FailInv(c)
    OBVIOUS
  <2>1. mFailQty[c] = 0
    BY DEF Init
  <2> QED
    BY <2>1, AskersBound, LimitAssumption DEF FailInv
<1>2. ASSUME IInv, [Next]_vars, NEW c \in Contact, FailInv(c) PROVE FailInv(c)'
  <2>0. TypeOK /\ TypeOK' /\ mFailQty[c] \in Nat /\ mFailQty'[c] \in Nat
    BY <1>2, NextKeepsIInv DEF IInv, TypeOK
  <2>1. ASSUME NEW o \in Lookup, Find(o) PROVE FailInv(c)'
    <3>1. PICK closest :
            Send(o, ToSend(o, closest, {}, mFailQty, ALPHA), {}, 0, mOps) /\ mFailQty' = mFailQty
      BY <2>1 DEF Find
    <3> DEFINE sent == ToSend(o, closest, {}, mFailQty, ALPHA)
    <3>2. c \in sent => mFailQty'[c] < STALE
      BY <2>0, <3>1, LimitAssumption DEF ToSend, Lowest, Sendable, IsStale
    <3>3. mFailQty'[c] + Cardinality(Askers(c, mOps)) <= STALE - 1 + Cardinality(Lookup)
      BY <1>2, <3>1 DEF FailInv
    <3>4. mOps' = mOps \cup ({o} \X sent)
      BY <3>1 DEF Send
    <3> HIDE DEF sent
    <3> QED
      BY <2>0, <3>2, <3>3, <3>4, SendKeepsFailInv
  <2>2. ASSUME NEW o \in Lookup, NEW e \in Contact, Timeout(o, e) PROVE FailInv(c)'
    <3> DEFINE ops   == mOps \ {<<o, e>>}
               list  == ListAfterTimeout(o, e, Fail(e))
               block == BlockAfterTimeout(o, e, Fail(e))
               sent  == ToSend(o, list, block, Fail(e), 1)
    <3>1. /\ Send(o, sent, block, mPendingQty[o] - 1, ops) /\ mFailQty' = Fail(e)
          /\ <<o, e>> \in mOps
      BY <1>2, <2>2 DEF Timeout, IInv, LookupInv, Asked
    <3>2. c \in sent => mFailQty'[c] < STALE
      BY <2>0, <3>1, LimitAssumption DEF ToSend, Lowest, Sendable, IsStale
    <3>3. mOps' = ops \cup ({o} \X sent)
      BY <3>1 DEF Send
    <3> HIDE DEF sent
    <3>4. mFailQty'[c] + Cardinality(Askers(c, ops)) <= STALE - 1 + Cardinality(Lookup)
      <4>1. CASE c = e
        <5>1. Askers(c, ops) = Askers(c, mOps) \ {o} /\ o \in Askers(c, mOps)
          BY <3>1, <4>1 DEF Askers
        <5>2. Cardinality(Askers(c, ops)) = Cardinality(Askers(c, mOps)) - 1
          BY <5>1, AskersBound, FS_RemoveElement
        <5>3. mFailQty'[c] = mFailQty[c] + 1
          BY <2>0, <3>1, <4>1 DEF Fail, TypeOK
        <5> QED
          BY <1>2, <2>0, <5>2, <5>3, AskersBound, LimitAssumption DEF FailInv
      <4>2. CASE c # e
        <5>1. Askers(c, ops) = Askers(c, mOps) /\ mFailQty'[c] = mFailQty[c]
          BY <2>0, <3>1, <4>2 DEF Askers, Fail, TypeOK
        <5> QED
          BY <1>2, <5>1 DEF FailInv
      <4> QED
        BY <4>1, <4>2
    <3> QED
      BY <2>0, <3>2, <3>3, <3>4, SendKeepsFailInv
  <2>3. ASSUME NEW o \in Lookup, NEW e \in Contact, NEW found \in SUBSET Contact, Respond(o, e, found)
        PROVE  FailInv(c)'
    <3> DEFINE ops     == mOps \ {<<o, e>>}
               fail    == [mFailQty EXCEPT ![e] = 0]
               pending == mPendingQty[o] - 1
               list    == Insert(o, mList[o], Unknown(o, found))
               news    == list \ mList[o]
               sent    == IF news = {} THEN {}
                          ELSE ToSend(o, list, mBlock[o], fail, ALPHA - pending)
    <3>1. Send(o, sent, mBlock[o], pending, ops) /\ mFailQty' = fail
      BY <1>2, <2>3 DEF Respond, IInv, LookupInv, Asked
    <3>2. c \in sent => mFailQty'[c] < STALE
      BY <2>0, <3>1, LimitAssumption DEF ToSend, Lowest, Sendable, IsStale
    <3>3. mOps' = ops \cup ({o} \X sent)
      BY <3>1 DEF Send
    <3> HIDE DEF sent
    <3>4. mFailQty'[c] + Cardinality(Askers(c, ops)) <= STALE - 1 + Cardinality(Lookup)
      <4>1. CASE c = e
        <5>1. mFailQty'[c] = 0
          BY <2>0, <3>1, <4>1 DEF TypeOK
        <5> QED
          BY <5>1, AskersBound, LimitAssumption
      <4>2. CASE c # e
        <5>1. Askers(c, ops) = Askers(c, mOps) /\ mFailQty'[c] = mFailQty[c]
          BY <2>0, <3>1, <4>2 DEF Askers, TypeOK
        <5> QED
          BY <1>2, <5>1 DEF FailInv
      <4> QED
        BY <4>1, <4>2
    <3> QED
      BY <2>0, <3>2, <3>3, <3>4, SendKeepsFailInv
  <2>4. ASSUME NEW e \in Contact, Return(e) PROVE FailInv(c)'
    <3>1. mFailQty'[c] <= mFailQty[c] /\ mOps' = mOps
      BY <2>0, <2>4 DEF Return, TypeOK
    <3>2. mFailQty'[c] + Cardinality(Askers(c, mOps)) <= STALE - 1 + Cardinality(Lookup)
      BY <1>2, <2>0, <3>1, AskersBound, LimitAssumption DEF FailInv
    <3> QED
      BY <3>1, <3>2 DEF FailInv, Askers
  <2>5. CASE UNCHANGED vars
    BY <1>2, <2>5 DEF FailInv, Askers, vars
  <2> QED
    BY <1>2, <2>1, <2>2, <2>3, <2>4, <2>5 DEF Next
<1>3. IInv /\ (\A c \in Contact : FailInv(c)) /\ [Next]_vars => (\A c \in Contact : FailInv(c))'
  BY <1>2
<1>4. (\A c \in Contact : FailInv(c)) => FailBound
  BY DEF FailInv, FailBound, Askers
<1> QED
  BY <1>1, <1>3, <1>4, Invariance, PTL DEF Spec
=============================================================================
