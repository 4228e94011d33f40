---------------------------- MODULE KadTableProofs ----------------------------
(***************************************************************************)
(* The routing table stays sound whatever is added, noted and removed:     *)
(* every distance leads to one bucket, and each node stands where it is    *)
(* looked for, once, in lists that keep their sizes and their order.       *)
(***************************************************************************)
EXTENDS MCKadTable, FiniteSetTheorems, TLAPS

-----------------------------------------------------------------------------
(* Parts of lists *)

\* The index in s of each place of Sublist(s, I): every index of I once, in order.
IsIndex(f, I) ==
    /\ f \in [1 .. Cardinality(I) -> I]
    /\ \A i \in I : \E k \in 1 .. Cardinality(I) : f[k] = i
    /\ \A k, l \in 1 .. Cardinality(I) : k < l => f[k] < f[l]

LEMMA SublistIs ==
    ASSUME NEW n \in Nat, NEW s, NEW I \in SUBSET (1 .. n)
    PROVE  /\ IsFiniteSet(I) /\ Cardinality(I) \in Nat /\ Cardinality(I) <= n
           /\ \E f : IsIndex(f, I) /\ Sublist(s, I) = [k \in 1 .. Cardinality(I) |-> s[f[k]]]
<1> DEFINE c == Cardinality(I)
           Rank(i) == Cardinality({j \in I : j <= i})
           g == [i \in I |-> Rank(i)]
           f == [k \in 1 .. c |-> CHOOSE i \in I : Rank(i) = k]
<1>0. \A i \in I : i \in Int
  OBVIOUS
<1>1. IsFiniteSet(I) /\ c \in Nat /\ c <= n
  <2>1. IsFiniteSet(1 .. n) /\ Cardinality(1 .. n) = n
    BY FS_Interval
  <2>2. IsFiniteSet(I) /\ c <= Cardinality(1 .. n)
    BY <2>1, FS_Subset
  <2> QED
    BY <2>1, <2>2, FS_CardinalityType
<1>2. ASSUME NEW i \in I PROVE Rank(i) \in 1 .. c /\ IsFiniteSet({j \in I : j <= i})
  <2>1. {j \in I : j <= i} \in SUBSET I /\ i \in {j \in I : j <= i}
    OBVIOUS
  <2>2. IsFiniteSet({j \in I : j <= i}) /\ Rank(i) <= c
    BY <1>1, <2>1, FS_Subset
  <2>3. Rank(i) \in Nat /\ Rank(i) # 0
    BY <2>1, <2>2, FS_CardinalityType, FS_EmptySet
  <2> QED
    BY <1>1, <2>2, <2>3
<1>3. ASSUME NEW i \in I, NEW j \in I, i < j PROVE Rank(i) < Rank(j)
  <2> DEFINE S == {k \in I : k <= i}
             T == {k \in I : k <= j}
  <2>1. S \in SUBSET T /\ S # T
    <3>1. j \in T /\ j \notin S
      BY <1>3
    <3>2. \A k \in S : k <= j
      BY <1>3
    <3> QED
      BY <3>1, <3>2
  <2>2. IsFiniteSet(T) /\ Cardinality(S) \in Nat /\ Cardinality(T) \in Nat
    BY <1>2
  <2>3. Cardinality(S) <= Cardinality(T) /\ Cardinality(S) # Cardinality(T)
    BY <2>1, <2>2, FS_Subset
  <2> QED
    BY <2>2, <2>3
<1> HIDE DEF Rank
<1>4. \A i, j \in I : Rank(i) = Rank(j) => i = j
  <2> SUFFICES ASSUME NEW i \in I, NEW j \in I, Rank(i) = Rank(j) PROVE i = j
    OBVIOUS
  <2>1. Rank(i) \in 1 .. c
    BY <1>2
  <2>2. ~(i < j) /\ ~(j < i)
    BY <1>3, <2>1
  <2> QED
    BY <2>2
<1>5. \A k \in 1 .. c : \E i \in I : Rank(i) = k
  <2>1. g \in Injection(I, 1 .. c)
    BY <1>2, <1>4 DEF Injection, IsInjective
  <2>2. IsFiniteSet(1 .. c) /\ Cardinality(1 .. c) = c
    BY <1>1, FS_Interval
  <2> HIDE DEF g
  <2>3. g \in Surjection(I, 1 .. c)
    BY <2>1, <2>2, FS_Injection DEF c
  <2> QED
    BY <2>3 DEF Surjection, g
<1>6. \A k \in 1 .. c : f[k] \in I /\ Rank(f[k]) = k
  BY <1>5
<1>7. IsIndex(f, I)
  <2>1. f \in [1 .. c -> I]
    BY <1>6
  <2> HIDE DEF f
  <2>2. ASSUME NEW i \in I PROVE \E k \in 1 .. c : f[k] = i
    <3>1. Rank(i) \in 1 .. c
      BY <1>2
    <3>2. f[Rank(i)] \in I /\ Rank(f[Rank(i)]) = Rank(i)
      BY <1>6, <3>1
    <3> QED
      BY <1>4, <3>1, <3>2
  <2>3. ASSUME NEW k \in 1 .. c, NEW l \in 1 .. c, k < l PROVE f[k] < f[l]
    <3>1. f[k] \in I /\ f[l] \in I /\ Rank(f[k]) = k /\ Rank(f[l]) = l
      BY <1>6
    <3>2. f[k] \in Int /\ f[l] \in Int
      BY <1>0, <3>1
    <3>3. ASSUME f[l] < f[k] PROVE FALSE
      <4>1. Rank(f[l]) < Rank(f[k])
        BY <1>3, <3>1, <3>3
      <4> QED
        BY <1>1, <2>3, <3>1, <4>1
    <3>4. f[k] # f[l]
      BY <1>1, <2>3, <3>1
    <3> QED
      BY <3>2, <3>3, <3>4
  <2> QED
    BY <2>1, <2>2, <2>3 DEF IsIndex
<1>8. Sublist(s, I) = [k \in 1 .. c |-> s[f[k]]]
  BY DEF Sublist, Rank
<1> QED
  BY <1>1, <1>7, <1>8

-----------------------------------------------------------------------------
(* Lists of entries *)

List == Seq(EntryType)
Distinct(s) == \A i, j \in DOMAIN s : s[i].id = s[j].id => i = j

\* r has no two nodes in another order than s, but for id, which may have come to the back.
KeepsTo(s, r, id) == \A x, y : x # id /\ Before(r, y, x) => Before(s, y, x)

LEMMA IsASeq == ASSUME NEW S, NEW n \in Nat, NEW q \in [1 .. n -> S] PROVE q \in Seq(S) /\ Len(q) = n
  OBVIOUS

LEMMA PartIs ==
    ASSUME NEW s \in List, NEW I \in SUBSET DOMAIN s, NEW r, r = Sublist(s, I)
    PROVE  /\ r \in List /\ Len(r) = Cardinality(I) /\ Len(r) <= Len(s) /\ IsFiniteSet(I)
           /\ Held(r) = {s[i].id : i \in I}
           /\ Distinct(s) => Distinct(r)
           /\ \A x, y : Before(r, y, x) => Before(s, y, x)
<1> DEFINE c == Cardinality(I)
<1>1. Len(s) \in Nat /\ DOMAIN s = 1 .. Len(s) /\ \A i \in DOMAIN s : s[i] \in EntryType
  BY DEF List
<1>2. IsFiniteSet(I) /\ c \in Nat /\ c <= Len(s) /\ \E f : IsIndex(f, I) /\ Sublist(s, I) = [k \in 1 .. c |-> s[f[k]]]
  BY <1>1, SublistIs
<1>3. PICK f : IsIndex(f, I) /\ r = [k \in 1 .. c |-> s[f[k]]]
  BY <1>2
<1> HIDE DEF c
<1>4. /\ \A k \in 1 .. c : f[k] \in I /\ f[k] \in DOMAIN s
      /\ \A i \in I : \E k \in 1 .. c : f[k] = i
      /\ \A k, l \in 1 .. c : k < l => f[k] < f[l]
  BY <1>3 DEF IsIndex, c
<1>5. r \in List /\ Len(r) = c /\ DOMAIN r = 1 .. c /\ \A k \in 1 .. c : r[k] = s[f[k]]
  <2>1. r \in [1 .. c -> EntryType]
    BY <1>1, <1>3, <1>4
  <2> QED
    BY <1>2, <1>3, <2>1, IsASeq DEF List
<1>6. Held(r) = {s[i].id : i \in I}
  BY <1>4, <1>5 DEF Held
<1>7. Distinct(s) => Distinct(r)
  <2> SUFFICES ASSUME Distinct(s), NEW k \in 1 .. c, NEW l \in 1 .. c, r[k].id = r[l].id PROVE k = l
    BY <1>5 DEF Distinct
  <2>1. f[k] = f[l]
    BY <1>4, <1>5 DEF Distinct
  <2>2. f[k] \in Int /\ f[l] \in Int /\ k \in Int /\ l \in Int
    BY <1>1, <1>4
  <2> QED
    BY <1>4, <2>1, <2>2
<1>8. ASSUME NEW x, NEW y, Before(r, y, x) PROVE Before(s, y, x)
  <2>1. PICK k \in 1 .. c, l \in 1 .. c : k < l /\ r[k].id = y /\ r[l].id = x
    BY <1>5, <1>8 DEF Before
  <2> QED
    BY <1>4, <1>5, <2>1 DEF Before
<1> QED
  BY <1>2, <1>5, <1>6, <1>7, <1>8 DEF c

\* Another list behind a list.
LEMMA ConcatIs ==
    ASSUME NEW a \in List, NEW b \in List, NEW r, r = a \o b
    PROVE  /\ r \in List /\ Len(r) = Len(a) + Len(b) /\ Held(r) = Held(a) \cup Held(b)
           /\ \A k \in 1 .. Len(r) : IF k <= Len(a) THEN r[k] = a[k] ELSE k - Len(a) \in DOMAIN b /\ r[k] = b[k - Len(a)]
           /\ Distinct(a) /\ Distinct(b) /\ Held(a) \cap Held(b) = {} => Distinct(r)
<1>1. Len(a) \in Nat /\ Len(b) \in Nat /\ DOMAIN a = 1 .. Len(a) /\ DOMAIN b = 1 .. Len(b)
  BY DEF List
<1>2. r \in List /\ Len(r) = Len(a) + Len(b) /\ DOMAIN r = 1 .. Len(r)
  BY DEF List
<1>3. ASSUME NEW k \in 1 .. Len(r)
      PROVE  IF k <= Len(a) THEN r[k] = a[k] /\ k \in DOMAIN a ELSE k - Len(a) \in DOMAIN b /\ r[k] = b[k - Len(a)]
  BY <1>1, <1>2 DEF List
<1>4. \A k \in DOMAIN a : k \in 1 .. Len(r) /\ r[k] = a[k]
  BY <1>1, <1>2, <1>3
<1>5. \A k \in DOMAIN b : k + Len(a) \in 1 .. Len(r) /\ r[k + Len(a)] = b[k]
  <2> TAKE k \in DOMAIN b
  <2>1. k + Len(a) \in 1 .. Len(r) /\ ~(k + Len(a) <= Len(a)) /\ (k + Len(a)) - Len(a) = k
    BY <1>1, <1>2
  <2> QED
    BY <1>3, <2>1
<1>6. Held(r) = Held(a) \cup Held(b)
  <2>1. \A k \in DOMAIN r : r[k].id \in Held(a) \cup Held(b)
    <3> TAKE k \in DOMAIN r
    <3>1. CASE k <= Len(a)
      BY <1>2, <1>3, <3>1 DEF Held
    <3>2. CASE ~(k <= Len(a))
      BY <1>2, <1>3, <3>2 DEF Held
    <3> QED
      BY <3>1, <3>2
  <2>2. \A k \in DOMAIN a : a[k].id \in Held(r)
    BY <1>2, <1>4 DEF Held
  <2>3. \A k \in DOMAIN b : b[k].id \in Held(r)
    BY <1>2, <1>5 DEF Held
  <2>4. \A x \in Held(r) : x \in Held(a) \cup Held(b)
    BY <2>1 DEF Held
  <2>5. \A x \in Held(a) \cup Held(b) : x \in Held(r)
    BY <2>2, <2>3 DEF Held
  <2> QED
    BY <2>4, <2>5
<1>7. ASSUME Distinct(a), Distinct(b), Held(a) \cap Held(b) = {},
             NEW k \in DOMAIN r, NEW l \in DOMAIN r, r[k].id = r[l].id
      PROVE  k = l
  <2>1. CASE k <= Len(a) /\ l <= Len(a)
    BY <1>2, <1>3, <1>7, <2>1 DEF Distinct
  <2>2. CASE ~(k <= Len(a)) /\ ~(l <= Len(a))
    <3>1. k - Len(a) = l - Len(a)
      BY <1>2, <1>3, <1>7, <2>2 DEF Distinct
    <3> QED
      BY <1>1, <1>2, <3>1
  <2>3. CASE k <= Len(a) /\ ~(l <= Len(a))
    <3>1. k \in DOMAIN a /\ r[k] = a[k]
      BY <1>2, <1>3, <2>3
    <3>2. l - Len(a) \in DOMAIN b /\ r[l] = b[l - Len(a)]
      BY <1>2, <1>3, <2>3
    <3>3. r[k].id \in Held(a) /\ r[l].id \in Held(b)
      BY <3>1, <3>2 DEF Held
    <3> QED
      BY <1>7, <3>3
  <2>4. CASE ~(k <= Len(a)) /\ l <= Len(a)
    <3>1. l \in DOMAIN a /\ r[l] = a[l]
      BY <1>2, <1>3, <2>4
    <3>2. k - Len(a) \in DOMAIN b /\ r[k] = b[k - Len(a)]
      BY <1>2, <1>3, <2>4
    <3>3. r[l].id \in Held(a) /\ r[k].id \in Held(b)
      BY <3>1, <3>2 DEF Held
    <3> QED
      BY <1>7, <3>3
  <2> QED
    BY <2>1, <2>2, <2>3, <2>4
<1> QED
  BY <1>2, <1>3, <1>6, <1>7 DEF Distinct

\* PushBack of a node that was found in the list.
ToBack(s, id) == Without(s, id) \o Entry(s, id)

LEMMA ToBackIs ==
    ASSUME NEW s \in List, NEW id, NEW r, r = ToBack(s, id)
    PROVE  /\ r \in List /\ Len(r) = Len(s) /\ Held(r) = Held(s)
           /\ Distinct(s) => Distinct(r)
           /\ KeepsTo(s, r, id)
<1> DEFINE I == {i \in DOMAIN s : s[i].id # id}
           J == {i \in DOMAIN s : s[i].id = id}
           a == Without(s, id)
           b == Entry(s, id)
<1>1. /\ a \in List /\ Len(a) = Cardinality(I) /\ IsFiniteSet(I) /\ Held(a) = {s[i].id : i \in I}
      /\ Distinct(s) => Distinct(a)
      /\ \A x, y : Before(a, y, x) => Before(s, y, x)
  <2>1. I \in SUBSET DOMAIN s /\ a = Sublist(s, I)
    BY DEF Without
  <2> HIDE DEF a, I
  <2> QED
    BY <2>1, PartIs
<1>2. /\ b \in List /\ Len(b) = Cardinality(J) /\ IsFiniteSet(J) /\ Held(b) = {s[i].id : i \in J}
      /\ Distinct(s) => Distinct(b)
  <2>1. J \in SUBSET DOMAIN s /\ b = Sublist(s, J)
    BY DEF Entry
  <2> HIDE DEF b, J
  <2> QED
    BY <2>1, PartIs
<1>3. r = a \o b
  BY DEF ToBack
<1> HIDE DEF a, b
<1>4. /\ r \in List /\ Len(r) = Len(a) + Len(b) /\ Held(r) = Held(a) \cup Held(b)
      /\ \A k \in 1 .. Len(r) : IF k <= Len(a) THEN r[k] = a[k] ELSE k - Len(a) \in DOMAIN b /\ r[k] = b[k - Len(a)]
      /\ Distinct(a) /\ Distinct(b) /\ Held(a) \cap Held(b) = {} => Distinct(r)
  BY <1>1, <1>2, <1>3, ConcatIs
<1>5. Len(r) = Len(s)
  <2>1. I \cup J = 1 .. Len(s) /\ I \cap J = {} /\ Len(s) \in Nat
    BY DEF List
  <2> HIDE DEF I, J
  <2>2. Cardinality(1 .. Len(s)) = Len(s)
    <3> DEFINE n == Len(s)
    <3>1. 1 \in Int /\ n \in Int /\ n \in Nat
      BY <2>1
    <3> HIDE DEF n
    <3>2. Cardinality(1 .. n) = IF 1 > n THEN 0 ELSE n - 1 + 1
      BY <3>1, FS_Interval
    <3>3. Cardinality(1 .. n) = n
      BY <3>1, <3>2
    <3> QED
      BY <3>3 DEF n
  <2>3. Cardinality(I \cup J) = Cardinality(I) + Cardinality(J) - Cardinality(I \cap J)
    BY <1>1, <1>2, FS_Union
  <2>4. Cardinality(I) \in Nat /\ Cardinality(J) \in Nat /\ Cardinality(I \cap J) = 0
    BY <1>1, <1>2, <2>1, FS_CardinalityType, FS_EmptySet
  <2> DEFINE x == Cardinality(I)
             y == Cardinality(J)
             z == Len(s)
  <2>5. x \in Nat /\ y \in Nat /\ z = x + y - 0
    BY <2>1, <2>2, <2>3, <2>4
  <2>6. Len(r) = x + y
    BY <1>1, <1>2, <1>4
  <2> HIDE DEF x, y, z
  <2>7. Len(r) = z
    BY <2>5, <2>6
  <2> QED
    BY <2>7 DEF z
<1>6. Held(r) = Held(s) /\ Held(a) \cap Held(b) = {} /\ \A x \in Held(b) : x = id
  <2>1. \A x \in Held(a) : x # id /\ x \in Held(s)
    BY <1>1 DEF Held
  <2>2. \A x \in Held(b) : x = id /\ x \in Held(s)
    BY <1>2 DEF Held
  <2>3. ASSUME NEW i \in DOMAIN s PROVE s[i].id \in Held(a) \cup Held(b)
    BY <1>1, <1>2
  <2>4. \A x \in Held(s) : x \in Held(a) \cup Held(b)
    BY <2>3 DEF Held
  <2>5. Held(s) = Held(a) \cup Held(b)
    BY <2>1, <2>2, <2>4
  <2> QED
    BY <1>4, <2>1, <2>2, <2>5
<1>7. KeepsTo(s, r, id)
  <2> SUFFICES ASSUME NEW x, NEW y, x # id, Before(r, y, x) PROVE Before(s, y, x)
    BY DEF KeepsTo
  <2>1. PICK k \in 1 .. Len(r), l \in 1 .. Len(r) : k < l /\ r[k].id = y /\ r[l].id = x
    BY <1>4 DEF Before, List
  <2>2. l <= Len(a)
    <3>1. CASE ~(l <= Len(a))
      <4>1. x \in Held(b)
        BY <1>4, <2>1, <3>1 DEF Held
      <4> QED
        BY <1>6, <4>1
    <3> QED
      BY <3>1
  <2>3. Len(a) \in Nat /\ DOMAIN a = 1 .. Len(a) /\ Len(r) \in Nat
    BY <1>1, <1>4 DEF List
  <2>4. k \in 1 .. Len(a) /\ l \in 1 .. Len(a) /\ k <= Len(a)
    BY <2>1, <2>2, <2>3
  <2>5. r[k] = a[k] /\ r[l] = a[l]
    BY <1>4, <2>1, <2>2, <2>4
  <2>6. Before(a, y, x)
    BY <2>1, <2>3, <2>4, <2>5 DEF Before
  <2> QED
    BY <1>1, <2>6
<1> QED
  BY <1>1, <1>2, <1>4, <1>5, <1>6, <1>7

\* PushBack of a new node.
LEMMA PutLastIs ==
    ASSUME NEW s \in List, NEW id \in Ids, id \notin Held(s), NEW r, r = Append(s, Contact(id))
    PROVE  /\ r \in List /\ Len(r) = Len(s) + 1 /\ Held(r) = Held(s) \cup {id}
           /\ Distinct(s) => Distinct(r)
           /\ KeepsTo(s, r, id)
<1>1. Contact(id) \in EntryType /\ Contact(id).id = id
  BY SizesAssumption DEF Contact, EntryType
<1>2. /\ r \in List /\ Len(s) \in Nat /\ DOMAIN s = 1 .. Len(s) /\ Len(r) = Len(s) + 1 /\ DOMAIN r = 1 .. Len(s) + 1
      /\ r[Len(s) + 1] = Contact(id) /\ \A k \in 1 .. Len(s) : r[k] = s[k]
  BY <1>1 DEF List
<1>3. \A k \in DOMAIN r : k = Len(s) + 1 \/ k \in DOMAIN s
  BY <1>2
<1>4. Held(r) = Held(s) \cup {id}
  BY <1>1, <1>2, <1>3 DEF Held
<1>5. \A k \in DOMAIN s : r[k].id = s[k].id /\ r[k].id # id
  BY <1>2 DEF Held
<1>6. Distinct(s) => Distinct(r)
  BY <1>1, <1>2, <1>3, <1>5 DEF Distinct
<1>7. KeepsTo(s, r, id)
  <2> SUFFICES ASSUME NEW x, NEW y, x # id, Before(r, y, x) PROVE Before(s, y, x)
    BY DEF KeepsTo
  <2>1. PICK k \in DOMAIN r, l \in DOMAIN r : k < l /\ r[k].id = y /\ r[l].id = x
    BY DEF Before
  <2>2. l \in DOMAIN s
    BY <1>1, <1>2, <1>3, <2>1
  <2>3. k \in DOMAIN s
    BY <1>2, <2>1, <2>2
  <2> QED
    BY <1>5, <2>1, <2>2, <2>3 DEF Before
<1> QED
  BY <1>2, <1>4, <1>6, <1>7

\* PopFront.
LEMMA TailIs ==
    ASSUME NEW s \in List, s # <<>>, NEW r, r = Tail(s)
    PROVE  /\ r \in List /\ Len(r) = Len(s) - 1 /\ Len(s) \in Nat \ {0} /\ Held(r) \subseteq Held(s)
           /\ Distinct(s) => Distinct(r)
           /\ \A x, y : Before(r, y, x) => Before(s, y, x)
<1>1. /\ r \in List /\ Len(s) \in Nat \ {0} /\ DOMAIN s = 1 .. Len(s) /\ Len(r) = Len(s) - 1 /\ DOMAIN r = 1 .. Len(s) - 1
      /\ \A k \in 1 .. Len(s) - 1 : r[k] = s[k + 1]
  BY DEF List
<1>2. \A k \in DOMAIN r : k + 1 \in DOMAIN s /\ r[k].id = s[k + 1].id /\ k \in Int
  BY <1>1
<1>3. Held(r) \subseteq Held(s)
  BY <1>2 DEF Held
<1>4. Distinct(s) => Distinct(r)
  <2> SUFFICES ASSUME Distinct(s), NEW k \in DOMAIN r, NEW l \in DOMAIN r, r[k].id = r[l].id PROVE k = l
    BY DEF Distinct
  <2>1. k + 1 = l + 1
    BY <1>2 DEF Distinct
  <2> QED
    BY <1>2, <2>1
<1>5. ASSUME NEW x, NEW y, Before(r, y, x) PROVE Before(s, y, x)
  <2>1. PICK k \in DOMAIN r, l \in DOMAIN r : k < l /\ r[k].id = y /\ r[l].id = x
    BY <1>5 DEF Before
  <2>2. k + 1 < l + 1
    BY <1>2, <2>1
  <2> QED
    BY <1>2, <2>1, <2>2 DEF Before
<1> QED
  BY <1>1, <1>3, <1>4, <1>5

-----------------------------------------------------------------------------
(* Paths *)

Path == {p \in Seq(Bit) : Len(p) < ID_BITS}

\* The distance d is in the space p is the path of.
Agrees(p, d) == \A i \in 1 .. Len(p) : p[i] = d[i]

\* Every set of natural numbers has a least one.
LEMMA LeastExists ==
    ASSUME NEW S \in SUBSET Nat, S # {}
    PROVE  \E k \in S : \A j \in S : k <= j
<1>1. PICK k \in S : \A j \in S : ~(<<j, k>> \in OpToRel(<, Nat))
  BY WFMin, NatLessThanWellFounded
<1>2. \A j \in S : j \in Nat /\ k \in Nat
  OBVIOUS
<1>3. \A j \in S : ~(j < k)
  BY <1>1, <1>2 DEF OpToRel
<1> QED
  BY <1>2, <1>3

LEMMA PathIs ==
    ASSUME NEW p \in Path
    PROVE  /\ Len(p) \in Nat /\ Len(p) < ID_BITS /\ ID_BITS \in Nat \ {0} /\ DOMAIN p = 1 .. Len(p)
           /\ p \in [1 .. Len(p) -> Bit] /\ \A i \in 1 .. Len(p) : p[i] \in Bit /\ i \in 1 .. ID_BITS
  BY IdBitsAssumption DEF Path

LEMMA SamePath ==
    ASSUME NEW p \in Path, NEW q \in Path, Len(p) = Len(q), \A i \in 1 .. Len(p) : p[i] = q[i]
    PROVE  p = q
  BY DEF Path

LEMMA DistIs == ASSUME NEW id PROVE Dist(id) \in KadId
  BY DEF Dist, Xor, KadId, Bit

LEMMA PrefixIs ==
    ASSUME NEW d \in KadId, NEW m \in Nat, m <= ID_BITS
    PROVE  /\ Prefix(d, m) \in Seq(Bit) /\ Len(Prefix(d, m)) = m
           /\ \A i \in 1 .. m : Prefix(d, m)[i] = d[i]
           /\ m < ID_BITS => Prefix(d, m) \in Path
<1>1. d \in Seq(Bit) /\ Len(d) = ID_BITS
  BY IdBitsAssumption DEF KadId
<1>2. /\ Prefix(d, m) \in Seq(Bit) /\ Len(Prefix(d, m)) = m
      /\ \A i \in 1 .. m : Prefix(d, m)[i] = d[i]
  BY <1>1 DEF Prefix
<1> QED
  BY <1>2 DEF Path

LEMMA PrefixAgrees ==
    ASSUME NEW p \in Path, NEW d \in KadId
    PROVE  (Prefix(d, Len(p)) = p) <=> Agrees(p, d)
<1> DEFINE r == Prefix(d, Len(p))
<1>1. Len(p) \in Nat /\ Len(p) < ID_BITS /\ Len(p) <= ID_BITS
  BY PathIs, IdBitsAssumption
<1>2. r \in Path /\ Len(r) = Len(p) /\ \A i \in 1 .. Len(p) : r[i] = d[i]
  BY <1>1, PrefixIs
<1> HIDE DEF r
<1>3. ASSUME r = p PROVE Agrees(p, d)
  BY <1>2, <1>3 DEF Agrees
<1>4. ASSUME Agrees(p, d) PROVE r = p
  BY <1>2, <1>4, SamePath DEF Agrees
<1> QED
  BY <1>3, <1>4 DEF r

LEMMA UnderIs == ASSUME NEW p \in Path, NEW id PROVE Under(p, id) <=> Agrees(p, Dist(id))
  BY DistIs, PrefixAgrees DEF Under

\* There are distances in every space.
LEMMA SomeAgrees == ASSUME NEW p \in Path PROVE \E d \in KadId : Agrees(p, d)
<1> DEFINE d == [i \in 1 .. ID_BITS |-> IF i <= Len(p) THEN p[i] ELSE 0]
<1>1. d \in KadId
  <2>1. \A i \in 1 .. ID_BITS : (i <= Len(p) => p[i] \in Bit) /\ 0 \in Bit
    BY PathIs DEF Bit
  <2> QED
    BY <2>1 DEF KadId
<1>2. Agrees(p, d)
  BY PathIs DEF Agrees
<1> QED
  BY <1>1, <1>2

-----------------------------------------------------------------------------
(* Trees *)

\* Every distance is in one of the spaces.
Divides(D) ==
    /\ D \subseteq Path
    /\ \A d \in KadId : \E p \in D : Agrees(p, d)
    /\ \A d \in KadId, p, q \in D : Agrees(p, d) /\ Agrees(q, d) => p = q

\* The inner nodes of the tree.
SpacesOf(D) == UNION {{Prefix(p, n) : n \in 0 .. (Len(p) - 1)} : p \in D}

Tree(D) ==
    /\ Divides(D)
    /\ IsFiniteSet(D) /\ IsFiniteSet(SpacesOf(D)) /\ Cardinality(SpacesOf(D)) = Cardinality(D) - 1

\* What the bucket p is replaced by when it is split down to the depth n on the way to d.
Halves(p, d, n) == {Sibling(Prefix(d, m)) : m \in (Len(p) + 1) .. n} \cup {Prefix(d, n)}

LEMMA SiblingIs ==
    ASSUME NEW d \in KadId, NEW m \in Nat \ {0}, m < ID_BITS, NEW q, q = Sibling(Prefix(d, m))
    PROVE  /\ q \in Path /\ Len(q) = m /\ q[m] # d[m] /\ q # Prefix(d, m)
           /\ \A i \in 1 .. (m - 1) : q[i] = d[i]
           /\ \A e \in KadId : Agrees(q, e) <=> e[m] # d[m] /\ \A i \in 1 .. (m - 1) : e[i] = d[i]
<1> DEFINE r == Prefix(d, m)
<1>0. m \in Nat /\ m <= ID_BITS /\ ID_BITS \in Nat \ {0}
  BY IdBitsAssumption
<1>1. r \in Path /\ Len(r) = m /\ \A i \in 1 .. m : r[i] = d[i]
  BY <1>0, PrefixIs
<1>2. q = [r EXCEPT ![Len(r)] = 1 - @]
  BY DEF Sibling
<1> HIDE DEF r
<1>3. d[m] \in Bit /\ \A e \in KadId : e[m] \in Bit
  BY <1>0 DEF KadId
<1>4. r \in [1 .. m -> Bit] /\ m \in 1 .. m
  BY <1>0, <1>1, PathIs
<1>5. /\ q \in [1 .. m -> Bit] /\ q[m] = 1 - d[m]
      /\ \A i \in 1 .. (m - 1) : q[i] = d[i]
  <2>1. q = [i \in 1 .. m |-> IF i = m THEN 1 - r[m] ELSE r[i]]
    BY <1>1, <1>2, <1>4
  <2>2. 1 - r[m] \in Bit /\ r[m] = d[m]
    BY <1>1, <1>3, <1>4 DEF Bit
  <2>3. \A i \in 1 .. (m - 1) : i \in 1 .. m /\ i # m
    BY <1>0
  <2> QED
    BY <1>1, <1>4, <2>1, <2>2, <2>3
<1>6. q \in Path /\ Len(q) = m
  <2>1. q \in Seq(Bit) /\ Len(q) = m
    BY <1>0, <1>5, IsASeq
  <2> QED
    BY <2>1 DEF Path
<1>7. q[m] # d[m]
  BY <1>3, <1>5 DEF Bit
<1>8. q # r
  BY <1>1, <1>4, <1>7
<1>9. ASSUME NEW e \in KadId PROVE Agrees(q, e) <=> e[m] # d[m] /\ \A i \in 1 .. (m - 1) : e[i] = d[i]
  <2>1. \A i \in 1 .. m : i = m \/ i \in 1 .. (m - 1)
    BY <1>0
  <2>2. q[m] = e[m] <=> e[m] # d[m]
    BY <1>3, <1>5 DEF Bit
  <2>3. \A i \in 1 .. (m - 1) : i \in 1 .. m
    BY <1>0
  <2> QED
    BY <1>4, <1>5, <1>6, <2>1, <2>2, <2>3 DEF Agrees
<1> QED
  BY <1>5, <1>6, <1>7, <1>8, <1>9 DEF r

LEMMA HalvesAre ==
    ASSUME NEW p \in Path, NEW d \in KadId, Agrees(p, d), NEW n \in Nat, Len(p) < n, n < ID_BITS
    PROVE  /\ Halves(p, d, n) \subseteq Path
           /\ \A q \in Halves(p, d, n) : Len(q) > Len(p) /\ \A e : Agrees(q, e) => Agrees(p, e)
           /\ \A e \in KadId : Agrees(p, e) => \E q \in Halves(p, d, n) : Agrees(q, e)
           /\ \A e \in KadId, q, r \in Halves(p, d, n) : Agrees(q, e) /\ Agrees(r, e) => q = r
<1> DEFINE L == Len(p)
           H == Halves(p, d, n)
           last == Prefix(d, n)
           S(m) == Sibling(Prefix(d, m))
<1>1. L \in Nat /\ ID_BITS \in Nat /\ L < n /\ n < ID_BITS /\ \A i \in 1 .. L : p[i] = d[i]
  BY PathIs DEF Agrees
<1>2. last \in Path /\ Len(last) = n /\ \A i \in 1 .. n : last[i] = d[i]
  BY <1>1, PrefixIs
<1>3. ASSUME NEW m \in (L + 1) .. n
      PROVE  /\ S(m) \in Path /\ Len(S(m)) = m
             /\ \A i \in 1 .. (m - 1) : S(m)[i] = d[i]
             /\ \A e \in KadId : Agrees(S(m), e) <=> e[m] # d[m] /\ \A i \in 1 .. (m - 1) : e[i] = d[i]
  <2>1. m \in Nat \ {0} /\ m < ID_BITS
    BY <1>1
  <2> QED
    BY <2>1, SiblingIs
<1>4. H = {S(m) : m \in (L + 1) .. n} \cup {last}
  BY DEF Halves
<1>5. \A q \in H : q = last \/ \E m \in (L + 1) .. n : q = S(m)
  BY <1>4
<1>6. last \in H /\ \A m \in (L + 1) .. n : S(m) \in H
  BY <1>4
<1> HIDE DEF L, H, S, last
<1>7. ASSUME NEW q \in H PROVE q \in Path /\ Len(q) > L /\ \A e : Agrees(q, e) => Agrees(p, e)
  <2>1. \E m \in (L + 1) .. n : Len(q) = m /\ q \in Path /\ \A i \in 1 .. (m - 1) : q[i] = d[i]
    <3>1. CASE q = last
      <4>1. n \in (L + 1) .. n /\ \A i \in 1 .. (n - 1) : i \in 1 .. n
        BY <1>1
      <4> QED
        BY <1>2, <3>1, <4>1
    <3>2. CASE q # last
      BY <1>3, <1>5, <3>2
    <3> QED
      BY <3>1, <3>2
  <2>2. PICK m \in (L + 1) .. n : Len(q) = m /\ q \in Path /\ \A i \in 1 .. (m - 1) : q[i] = d[i]
    BY <2>1
  <2>3. m \in Int /\ m > L /\ \A i \in 1 .. L : i \in 1 .. (m - 1) /\ i \in 1 .. m
    BY <1>1
  <2>4. \A i \in 1 .. L : q[i] = p[i]
    BY <1>1, <2>2, <2>3
  <2>5. ASSUME NEW e, Agrees(q, e) PROVE Agrees(p, e)
    BY <2>2, <2>3, <2>4, <2>5 DEF Agrees, L
  <2> QED
    BY <2>2, <2>3, <2>5
<1>8. ASSUME NEW e \in KadId, Agrees(p, e) PROVE \E q \in H : Agrees(q, e)
  <2> DEFINE T == {i \in 1 .. n : e[i] # d[i]}
  <2>1. CASE T = {}
    <3>1. Agrees(last, e)
      BY <1>2, <2>1 DEF Agrees
    <3> QED
      BY <1>6, <3>1
  <2>2. CASE T # {}
    <3>1. T \in SUBSET Nat
      BY <1>1
    <3>2. PICK m \in T : \A j \in T : m <= j
      BY <2>2, <3>1, LeastExists
    <3>3. m \in 1 .. n /\ e[m] # d[m]
      BY <3>2
    <3>4. \A i \in 1 .. L : e[i] = d[i]
      BY <1>1, <1>8 DEF Agrees, L
    <3>5. m \in (L + 1) .. n
      BY <1>1, <3>3, <3>4
    <3>6. \A i \in 1 .. (m - 1) : e[i] = d[i]
      <4> TAKE i \in 1 .. (m - 1)
      <4>1. i \in 1 .. n /\ ~(m <= i)
        BY <1>1, <3>3
      <4> QED
        BY <3>2, <4>1
    <3>7. Agrees(S(m), e)
      BY <1>3, <3>3, <3>5, <3>6
    <3> QED
      BY <1>6, <3>5, <3>7
  <2> QED
    BY <2>1, <2>2
<1>9. ASSUME NEW e \in KadId, NEW q \in H, NEW r \in H, Agrees(q, e), Agrees(r, e) PROVE q = r
  <2>1. ASSUME Agrees(last, e), NEW m \in (L + 1) .. n, Agrees(S(m), e) PROVE FALSE
    <3>1. m \in 1 .. n
      BY <1>1
    <3>2. last[m] = d[m] /\ last[m] = e[m]
      BY <1>2, <2>1, <3>1 DEF Agrees
    <3>3. e[m] # d[m]
      BY <1>3, <2>1
    <3> QED
      BY <3>2, <3>3
  <2>2. ASSUME NEW m \in (L + 1) .. n, NEW k \in (L + 1) .. n, Agrees(S(m), e), Agrees(S(k), e), m < k PROVE FALSE
    <3>1. m \in 1 .. (k - 1)
      BY <1>1, <2>2
    <3>2. e[m] = d[m]
      BY <1>3, <2>2, <3>1
    <3>3. e[m] # d[m]
      BY <1>3, <2>2
    <3> QED
      BY <3>2, <3>3
  <2>3. CASE q = last
    BY <1>5, <1>9, <2>1, <2>3
  <2>4. CASE r = last
    BY <1>5, <1>9, <2>1, <2>4
  <2>5. CASE q # last /\ r # last
    <3>1. PICK m \in (L + 1) .. n : q = S(m)
      BY <1>5, <2>5
    <3>2. PICK k \in (L + 1) .. n : r = S(k)
      BY <1>5, <2>5
    <3>3. ~(m < k) /\ ~(k < m)
      BY <1>9, <2>2, <3>1, <3>2
    <3>4. m = k
      BY <1>1, <3>3
    <3> QED
      BY <3>1, <3>2, <3>4
  <2> QED
    BY <2>3, <2>4, <2>5
<1> QED
  BY <1>7, <1>8, <1>9 DEF H, L

\* Each inner node is on the way to a distance.
LEMMA SpacesAre ==
    ASSUME NEW D, D \subseteq Path, NEW x
    PROVE  x \in SpacesOf(D) <=> \E q \in D : \E m \in 0 .. (Len(q) - 1) : x = Prefix(q, m)
  BY DEF SpacesOf

\* The start of a path, and of one that starts like d.
LEMMA StartIs ==
    ASSUME NEW q \in Path, NEW m \in 0 .. (Len(q) - 1), NEW x, x = Prefix(q, m)
    PROVE  /\ x \in Path /\ Len(x) = m /\ \A i \in 1 .. m : x[i] = q[i]
           /\ \A d \in KadId : (\A i \in 1 .. m : q[i] = d[i]) => x = Prefix(d, m)
<1>1. q \in Seq(Bit) /\ Len(q) \in Nat /\ Len(q) < ID_BITS /\ ID_BITS \in Nat /\ m \in Nat /\ m < Len(q)
  BY IdBitsAssumption DEF Path
<1>2. x \in Seq(Bit) /\ Len(x) = m /\ \A i \in 1 .. m : x[i] = q[i]
  BY <1>1 DEF Prefix
<1>3. x \in Path
  BY <1>1, <1>2 DEF Path
<1>4. ASSUME NEW d \in KadId, \A i \in 1 .. m : q[i] = d[i] PROVE x = Prefix(d, m)
  <2> DEFINE y == Prefix(d, m)
  <2>0. m <= ID_BITS /\ m < ID_BITS
    BY <1>1
  <2>1. y \in Path /\ Len(y) = m /\ \A i \in 1 .. m : y[i] = d[i]
    BY <1>1, <2>0, PrefixIs
  <2> HIDE DEF y
  <2>2. x = y
    BY <1>2, <1>3, <1>4, <2>1, SamePath
  <2> QED
    BY <2>2 DEF y
<1> QED
  BY <1>2, <1>3, <1>4

\* A bucket that is split is replaced by one more bucket than there are new inner nodes.
LEMMA HalvesCount ==
    ASSUME NEW p \in Path, NEW d \in KadId, Agrees(p, d), NEW n \in Nat, Len(p) < n, n < ID_BITS
    PROVE  /\ IsFiniteSet(Halves(p, d, n)) /\ Cardinality(Halves(p, d, n)) = n - Len(p) + 1
           /\ IsFiniteSet({Prefix(d, m) : m \in Len(p) .. (n - 1)})
           /\ Cardinality({Prefix(d, m) : m \in Len(p) .. (n - 1)}) = n - Len(p)
<1> DEFINE L == Len(p)
           H == Halves(p, d, n)
           last == Prefix(d, n)
           S(m) == Sibling(Prefix(d, m))
           A(m) == Prefix(d, m)
           W == {A(m) : m \in L .. (n - 1)}
           k == n - L
           f == [i \in 1 .. (k + 1) |-> IF i = k + 1 THEN last ELSE S(L + i)]
           g == [i \in 1 .. k |-> A(L + i - 1)]
<1>1. L \in Nat /\ ID_BITS \in Nat /\ L < n /\ n < ID_BITS /\ k \in Nat \ {0} /\ k + 1 \in Nat
  BY PathIs
<1>2. last \in Path /\ Len(last) = n
  BY <1>1, PrefixIs
<1>3. ASSUME NEW m \in (L + 1) .. n PROVE Len(S(m)) = m /\ S(n) # last
  <2>1. m \in Nat \ {0} /\ m < ID_BITS /\ n \in Nat \ {0}
    BY <1>1
  <2> QED
    BY <1>1, <2>1, SiblingIs
<1>4. \A m \in L .. (n - 1) : Len(A(m)) = m
  <2> TAKE m \in L .. (n - 1)
  <2>1. m \in Nat /\ m <= ID_BITS
    BY <1>1
  <2> QED
    BY <2>1, PrefixIs
<1>5. H = {S(m) : m \in (L + 1) .. n} \cup {last}
  BY DEF Halves
<1> HIDE DEF L, H, S, A, last
<1>6. \A i \in 1 .. (k + 1) : i # k + 1 => L + i \in (L + 1) .. n
  BY <1>1
<1>7. \A i \in 1 .. (k + 1) : f[i] \in H
  BY <1>5, <1>6
<1>8. \A m \in (L + 1) .. n : m - L \in 1 .. (k + 1) /\ m - L # k + 1 /\ L + (m - L) = m
  BY <1>1
<1>9. \A q \in H : \E i \in 1 .. (k + 1) : f[i] = q
  <2> TAKE q \in H
  <2>1. CASE q = last
    <3>1. k + 1 \in 1 .. (k + 1)
      BY <1>1
    <3> QED
      BY <2>1, <3>1
  <2>2. CASE q # last
    <3>1. PICK m \in (L + 1) .. n : q = S(m)
      BY <1>5, <2>2
    <3>2. m - L \in 1 .. (k + 1) /\ f[m - L] = S(m)
      BY <1>8
    <3> QED
      BY <3>1, <3>2
  <2> QED
    BY <2>1, <2>2
<1>10. ASSUME NEW i \in 1 .. (k + 1), NEW j \in 1 .. (k + 1), f[i] = f[j] PROVE i = j
  <2>1. ASSUME NEW a \in 1 .. (k + 1), a # k + 1, f[a] = last PROVE FALSE
    <3>1. L + a \in (L + 1) .. n /\ f[a] = S(L + a)
      BY <1>6, <2>1
    <3>2. L + a = n
      BY <1>2, <1>3, <2>1, <3>1
    <3> QED
      BY <1>3, <2>1, <3>1, <3>2
  <2>2. CASE i # k + 1 /\ j # k + 1
    <3>1. L + i = L + j
      <4>1. L + i \in (L + 1) .. n /\ L + j \in (L + 1) .. n /\ S(L + i) = S(L + j)
        BY <1>6, <1>10, <2>2
      <4> QED
        BY <1>3, <4>1
    <3> QED
      BY <1>1, <3>1
  <2> QED
    BY <1>10, <2>1, <2>2
<1>11. IsFiniteSet(H) /\ Cardinality(H) = k + 1
  <2> HIDE DEF f
  <2>1. f \in [1 .. (k + 1) -> H]
    BY <1>7 DEF f
  <2>2. f \in Bijection(1 .. (k + 1), H)
    BY <1>9, <1>10, <2>1 DEF Bijection, Injection, Surjection, IsInjective
  <2> HIDE DEF k
  <2>3. ExistsBijection(1 .. (k + 1), H)
    BY <2>2 DEF ExistsBijection
  <2> QED
    BY <1>1, <2>3, FS_CountingElements, FS_NatBijection
<1>12. \A i \in 1 .. k : L + i - 1 \in L .. (n - 1)
  BY <1>1
<1>13. \A m \in L .. (n - 1) : m - L + 1 \in 1 .. k /\ L + (m - L + 1) - 1 = m
  BY <1>1
<1>14. IsFiniteSet(W) /\ Cardinality(W) = k
  <2>1. g \in [1 .. k -> W]
    BY <1>12
  <2>2. ASSUME NEW x \in W PROVE \E i \in 1 .. k : g[i] = x
    <3>1. PICK m \in L .. (n - 1) : x = A(m)
      OBVIOUS
    <3>2. g[m - L + 1] = A(L + (m - L + 1) - 1) /\ m - L + 1 \in 1 .. k
      BY <1>13
    <3> QED
      BY <1>13, <3>1, <3>2
  <2>3. ASSUME NEW i \in 1 .. k, NEW j \in 1 .. k, g[i] = g[j] PROVE i = j
    <3>1. L + i - 1 = L + j - 1
      BY <1>4, <1>12, <2>3
    <3> QED
      BY <1>1, <3>1
  <2> HIDE DEF g, W
  <2>4. g \in Bijection(1 .. k, W)
    BY <2>1, <2>2, <2>3 DEF Bijection, Injection, Surjection, IsInjective
  <2> HIDE DEF k
  <2>5. ExistsBijection(1 .. k, W)
    BY <2>4 DEF ExistsBijection
  <2> QED
    BY <1>1, <2>5, FS_CountingElements, FS_NatBijection
<1> QED
  BY <1>1, <1>11, <1>14 DEF H, W, L, A

LEMMA GrownTree ==
    ASSUME NEW D, Tree(D), NEW p \in D, NEW d \in KadId, Agrees(p, d), NEW n \in Nat, Len(p) < n, n < ID_BITS
    PROVE  /\ Tree((D \ {p}) \cup Halves(p, d, n))
           /\ Halves(p, d, n) \cap D = {}
<1> DEFINE L == Len(p)
           H == Halves(p, d, n)
           C == D \ {p}
           E == C \cup H
           W == {Prefix(d, m) : m \in L .. (n - 1)}
<1>1. p \in Path /\ D \subseteq Path /\ C \subseteq Path /\ L \in Nat /\ ID_BITS \in Nat /\ L < n /\ n < ID_BITS
  BY PathIs DEF Tree, Divides
<1>2. /\ H \subseteq Path
      /\ \A q \in H : Len(q) > L /\ \A e : Agrees(q, e) => Agrees(p, e)
      /\ \A e \in KadId : Agrees(p, e) => \E q \in H : Agrees(q, e)
      /\ \A e \in KadId, q, r \in H : Agrees(q, e) /\ Agrees(r, e) => q = r
  BY <1>1, HalvesAre
<1>3. /\ IsFiniteSet(H) /\ Cardinality(H) = n - L + 1
      /\ IsFiniteSet(W) /\ Cardinality(W) = n - L
  BY <1>1, HalvesCount
<1>4. \A i \in 1 .. L : p[i] = d[i]
  BY DEF Agrees
<1>5. /\ \A e \in KadId : \E q \in D : Agrees(q, e)
      /\ \A e \in KadId, q, r \in D : Agrees(q, e) /\ Agrees(r, e) => q = r
      /\ IsFiniteSet(D) /\ IsFiniteSet(SpacesOf(D)) /\ Cardinality(SpacesOf(D)) = Cardinality(D) - 1
  BY DEF Tree, Divides
<1>6. H \cap D = {}
  <2> SUFFICES ASSUME NEW q \in H, q \in D PROVE FALSE
    OBVIOUS
  <2>1. PICK e \in KadId : Agrees(q, e)
    BY <1>1, SomeAgrees
  <2>2. q = p
    BY <1>2, <1>5, <2>1
  <2>3. Len(q) > L /\ Len(q) = L
    BY <1>2, <2>2
  <2> QED
    BY <1>1, <2>3
<1>7. \A q \in H : \A m \in 0 .. (Len(q) - 1) : m \in 0 .. (n - 1) /\ Prefix(q, m) = Prefix(d, m)
  <2> SUFFICES ASSUME NEW q \in H, NEW m \in 0 .. (Len(q) - 1)
               PROVE  m \in 0 .. (n - 1) /\ Prefix(q, m) = Prefix(d, m)
    OBVIOUS
  <2>1. \E k \in (L + 1) .. n : Len(q) = k /\ \A i \in 1 .. (k - 1) : q[i] = d[i]
    <3>1. CASE q = Prefix(d, n)
      <4>1. Len(q) = n /\ \A i \in 1 .. n : q[i] = d[i]
        BY <1>1, <3>1, PrefixIs
      <4>2. n \in (L + 1) .. n /\ \A i \in 1 .. (n - 1) : i \in 1 .. n
        BY <1>1
      <4> QED
        BY <4>1, <4>2
    <3>2. CASE q # Prefix(d, n)
      <4>1. PICK k \in (L + 1) .. n : q = Sibling(Prefix(d, k))
        BY <3>2 DEF Halves
      <4>2. k \in Nat \ {0} /\ k < ID_BITS
        BY <1>1
      <4>3. Len(q) = k /\ \A i \in 1 .. (k - 1) : q[i] = d[i]
        BY <4>1, <4>2, SiblingIs
      <4> QED
        BY <4>3
    <3> QED
      BY <3>1, <3>2
  <2>2. PICK k \in (L + 1) .. n : Len(q) = k /\ \A i \in 1 .. (k - 1) : q[i] = d[i]
    BY <2>1
  <2>3. m \in 0 .. (n - 1) /\ \A i \in 1 .. m : i \in 1 .. (k - 1)
    BY <1>1, <2>2
  <2>4. q \in Path /\ \A i \in 1 .. m : q[i] = d[i]
    BY <1>2, <2>2, <2>3
  <2> QED
    BY <2>3, <2>4, StartIs
<1>8. \A m \in 0 .. (n - 1) : Prefix(d, m) \in SpacesOf(E)
  <2> TAKE m \in 0 .. (n - 1)
  <2> DEFINE q == Prefix(d, n)
  <2>1. q \in H
    BY DEF Halves
  <2>2. q \in Path /\ Len(q) = n
    BY <1>1, PrefixIs
  <2>3. Prefix(q, m) = Prefix(d, m)
    BY <1>7, <2>1, <2>2
  <2> HIDE DEF q
  <2>4. q \in E /\ m \in 0 .. (Len(q) - 1)
    BY <2>1, <2>2
  <2> QED
    BY <2>3, <2>4 DEF SpacesOf
<1>9. \A m \in 0 .. (L - 1) : Prefix(p, m) = Prefix(d, m) /\ m \in 0 .. (n - 1)
  <2> TAKE m \in 0 .. (L - 1)
  <2>1. m \in 0 .. (n - 1) /\ \A i \in 1 .. m : i \in 1 .. L
    BY <1>1
  <2>2. \A i \in 1 .. m : p[i] = d[i]
    BY <1>4, <2>1
  <2> QED
    BY <1>1, <2>1, <2>2, StartIs
<1> HIDE DEF L, H, W
<1>10. SpacesOf(E) = SpacesOf(D) \cup W
  <2>1. ASSUME NEW x \in SpacesOf(E) PROVE x \in SpacesOf(D) \cup W
    <3>1. PICK q \in E : \E m \in 0 .. (Len(q) - 1) : x = Prefix(q, m)
      BY <2>1 DEF SpacesOf
    <3>2. CASE q \in C
      BY <3>1, <3>2 DEF SpacesOf
    <3>3. CASE q \in H
      <4>1. PICK m \in 0 .. (n - 1) : x = Prefix(d, m)
        BY <1>7, <3>1, <3>3
      <4>2. CASE m < L
        <5>1. m \in 0 .. (L - 1)
          BY <1>1, <4>2
        <5>2. x = Prefix(p, m)
          BY <1>9, <4>1, <5>1
        <5> QED
          BY <5>1, <5>2 DEF SpacesOf, L
      <4>3. CASE ~(m < L)
        <5>1. m \in L .. (n - 1)
          BY <1>1, <4>3
        <5> QED
          BY <4>1, <5>1 DEF W
      <4> QED
        BY <4>2, <4>3
    <3> QED
      BY <3>1, <3>2, <3>3
  <2>2. ASSUME NEW x \in W PROVE x \in SpacesOf(E)
    <3>1. PICK m \in L .. (n - 1) : x = Prefix(d, m)
      BY DEF W
    <3>2. m \in 0 .. (n - 1)
      BY <1>1
    <3> QED
      BY <1>8, <3>1, <3>2
  <2>3. ASSUME NEW x \in SpacesOf(D) PROVE x \in SpacesOf(E)
    <3>1. PICK q \in D : \E m \in 0 .. (Len(q) - 1) : x = Prefix(q, m)
      BY <2>3 DEF SpacesOf
    <3>2. CASE q = p
      BY <1>8, <1>9, <3>1, <3>2 DEF L
    <3>3. CASE q # p
      <4>1. q \in E
        BY <3>3
      <4> QED
        BY <3>1, <4>1 DEF SpacesOf
    <3> QED
      BY <3>2, <3>3
  <2> QED
    BY <2>1, <2>2, <2>3
<1>11. SpacesOf(D) \cap W = {}
  <2> SUFFICES ASSUME NEW x \in SpacesOf(D), x \in W PROVE FALSE
    OBVIOUS
  <2>1. PICK q \in D : \E m \in 0 .. (Len(q) - 1) : x = Prefix(q, m)
    BY DEF SpacesOf
  <2>2. PICK m \in 0 .. (Len(q) - 1) : x = Prefix(q, m)
    BY <2>1
  <2>3. PICK k \in L .. (n - 1) : x = Prefix(d, k)
    BY DEF W
  <2>4. q \in Path /\ Len(q) \in Nat
    BY <1>1, PathIs
  <2>5. Len(x) = m /\ \A i \in 1 .. m : x[i] = q[i]
    BY <2>2, <2>4, StartIs
  <2>6. Len(x) = k /\ \A i \in 1 .. k : x[i] = d[i]
    <3>1. k \in Nat /\ k <= ID_BITS
      BY <1>1
    <3> QED
      BY <2>3, <3>1, PrefixIs
  <2>7. L <= m /\ m < Len(q) /\ \A i \in 1 .. L : i \in 1 .. m /\ i \in 1 .. Len(q)
    BY <1>1, <2>4, <2>5, <2>6
  <2>8. PICK e \in KadId : Agrees(q, e)
    BY <2>4, SomeAgrees
  <2>9. \A i \in 1 .. L : q[i] = p[i]
    BY <1>4, <2>5, <2>6, <2>7
  <2>10. Agrees(p, e)
    BY <2>7, <2>8, <2>9 DEF Agrees, L
  <2>11. q = p
    BY <1>5, <2>8, <2>10
  <2> QED
    BY <1>1, <2>7, <2>11 DEF L
<1>12. Divides(E)
  <2>1. E \subseteq Path
    BY <1>1, <1>2
  <2>2. ASSUME NEW e \in KadId PROVE \E q \in E : Agrees(q, e)
    BY <1>2, <1>5
  <2>3. ASSUME NEW e \in KadId, NEW q \in E, NEW r \in E, Agrees(q, e), Agrees(r, e) PROVE q = r
    <3>1. ASSUME NEW a \in C, NEW b \in H, Agrees(a, e), Agrees(b, e) PROVE FALSE
      BY <1>2, <1>5, <3>1
    <3> QED
      BY <1>2, <1>5, <2>3, <3>1
  <2> QED
    BY <2>1, <2>2, <2>3 DEF Divides
<1>13. IsFiniteSet(E) /\ Cardinality(E) = Cardinality(D) + (n - L)
  <2>1. IsFiniteSet(C) /\ Cardinality(C) = Cardinality(D) - 1
    BY <1>5, FS_RemoveElement
  <2>2. C \cap H = {}
    BY <1>6
  <2>3. Cardinality(C \cap H) = 0
    BY <2>2, FS_EmptySet
  <2>4. IsFiniteSet(E) /\ Cardinality(E) = Cardinality(C) + Cardinality(H) - Cardinality(C \cap H)
    BY <1>3, <2>1, FS_Union
  <2>5. Cardinality(D) \in Nat
    BY <1>5, FS_CardinalityType
  <2> HIDE DEF C, E
  <2> QED
    BY <1>1, <1>3, <2>1, <2>3, <2>4, <2>5
<1>14. IsFiniteSet(SpacesOf(E)) /\ Cardinality(SpacesOf(E)) = Cardinality(D) - 1 + (n - L)
  <2> DEFINE S == SpacesOf(D)
  <2>1. IsFiniteSet(S \cup W) /\ Cardinality(S \cup W) = Cardinality(S) + Cardinality(W) - Cardinality(S \cap W)
    BY <1>3, <1>5, FS_Union
  <2>2. Cardinality(S \cap W) = 0
    BY <1>11, FS_EmptySet
  <2>3. Cardinality(D) \in Nat
    BY <1>5, FS_CardinalityType
  <2>4. Cardinality(S) = Cardinality(D) - 1
    BY <1>5
  <2> HIDE DEF S, E
  <2>5. IsFiniteSet(S \cup W) /\ Cardinality(S \cup W) = Cardinality(D) - 1 + (n - L)
    BY <1>1, <1>3, <2>1, <2>2, <2>3, <2>4
  <2> QED
    BY <1>10, <2>5 DEF S
<1>15. Tree(E)
  <2>1. Cardinality(D) \in Nat
    BY <1>5, FS_CardinalityType
  <2> HIDE DEF E
  <2>2. Cardinality(SpacesOf(E)) = Cardinality(E) - 1
    BY <1>1, <1>13, <1>14, <2>1
  <2> QED
    BY <1>12, <1>13, <1>14, <2>2 DEF Tree
<1> QED
  BY <1>6, <1>15 DEF H

-----------------------------------------------------------------------------
(* Buckets *)

\* What is true of the bucket p.
Good(p, b) ==
    /\ b \in [contacts : List, cache : List]
    /\ Len(b.contacts) <= BUCKET_SIZE /\ Len(b.cache) <= CACHE_SIZE
    /\ Distinct(b.contacts) /\ Distinct(b.cache)
    /\ \A x \in Held(b.contacts) \cup Held(b.cache) : Under(p, x)
    /\ b.cache # <<>> => ~MaySplit(p)

\* And if nodes are not removed.
Behind(b) ==
    /\ Held(b.contacts) \cap Held(b.cache) = {}
    /\ b.cache # <<>> => Len(b.contacts) = BUCKET_SIZE

\* What c holds was in b, in that order, but for id.
Comes(b, c, id) ==
    /\ Held(c.contacts) \subseteq Held(b.contacts) \cup {id}
    /\ Held(c.cache) \subseteq Held(b.cache) \cup {id}
    /\ KeepsTo(b.contacts, c.contacts, id)
    /\ KeepsTo(b.cache, c.cache, id)

Sound(t) == Tree(DOMAIN t) /\ \A p \in DOMAIN t : Good(p, t[p])

LEMMA ComesTwice ==
    ASSUME NEW a, NEW b, NEW c, NEW id, Comes(a, b, id), Comes(b, c, id)
    PROVE  Comes(a, c, id)
<1>1. KeepsTo(a.contacts, c.contacts, id) /\ KeepsTo(a.cache, c.cache, id)
  BY DEF Comes, KeepsTo
<1> QED
  BY <1>1 DEF Comes

LEMMA ComesSame == ASSUME NEW b, NEW id PROVE Comes(b, b, id)
  BY DEF Comes, KeepsTo

LEMMA SizesAre ==
    /\ BUCKET_SIZE \in Nat \ {0} /\ CACHE_SIZE \in Nat \ {0} /\ STALE \in Nat \ {0}
  BY SizesAssumption

LEMMA EmptyIs == <<>> \in List /\ Len(<<>>) = 0 /\ Held(<<>>) = {} /\ Distinct(<<>>) /\ \A x, y : ~Before(<<>>, x, y)
  BY DEF List, Held, Distinct, Before

LEMMA TakeIs ==
    ASSUME NEW s \in List, NEW n \in Nat, Len(s) <= n
    PROVE  Take(s, n) = s /\ SubSeq(s, n + 1, Len(s)) = <<>>
<1>1. Len(s) \in Nat
  BY DEF List
<1>2. (IF Len(s) < n THEN Len(s) ELSE n) = Len(s)
  BY <1>1
<1>3. SubSeq(s, 1, Len(s)) = s
  BY DEF List
<1>4. SubSeq(s, n + 1, Len(s)) = <<>>
  <2> DEFINE r == SubSeq(s, n + 1, Len(s))
  <2>1. s \in Seq(EntryType) /\ n + 1 \in Nat
    BY DEF List
  <2>2. r \in Seq(EntryType) /\ Len(r) = 0
    BY <1>1, <2>1
  <2> HIDE DEF r
  <2>3. r = <<>>
    BY <2>2
  <2> QED
    BY <2>3 DEF r
<1> QED
  BY <1>2, <1>3, <1>4 DEF Take

LEMMA TakeNone == ASSUME NEW k \in Nat PROVE Take(<<>>, k) = <<>>
<1>1. <<>> \in List /\ Len(<<>>) <= k
  BY DEF List
<1> QED
  BY <1>1, TakeIs

\* The half of a bucket without a cache.
LEMMA ShareIs ==
    ASSUME NEW p, NEW b, Good(p, b), b.cache = <<>>, NEW q \in Path, NEW c, c = Share(q, b)
    PROVE  /\ Good(q, c) /\ Behind(c) /\ \A id : Comes(b, c, id)
           /\ Held(c.contacts) = {x \in Held(b.contacts) : Under(q, x)}
           /\ c.cache = <<>>
<1> DEFINE s == b.contacts
           I == {i \in DOMAIN s : Under(q, s[i].id)}
           r == Sublist(s, I)
<1>1. s \in List /\ Len(s) <= BUCKET_SIZE /\ Distinct(s) /\ Len(s) \in Nat
  BY DEF Good, List
<1>2. s \o b.cache = s
  BY <1>1 DEF List
<1>3. I \in SUBSET DOMAIN s
  OBVIOUS
<1>4. c = [contacts |-> Take(r, BUCKET_SIZE), cache |-> Take(SubSeq(r, BUCKET_SIZE + 1, Len(r)), CACHE_SIZE)]
  BY <1>2 DEF Share
<1> HIDE DEF I, r
<1>5. r = Sublist(s, I)
  BY DEF r
<1>6. /\ r \in List /\ Len(r) <= Len(s) /\ Len(r) \in Nat
      /\ Held(r) = {s[i].id : i \in I}
      /\ Distinct(r)
      /\ \A x, y : Before(r, y, x) => Before(s, y, x)
  <2>1. /\ r \in List /\ Len(r) <= Len(s)
        /\ Held(r) = {s[i].id : i \in I}
        /\ Distinct(s) => Distinct(r)
        /\ \A x, y : Before(r, y, x) => Before(s, y, x)
    BY <1>1, <1>3, <1>5, PartIs
  <2> QED
    BY <1>1, <2>1 DEF List
<1>7. Len(r) <= BUCKET_SIZE
  BY <1>1, <1>6, SizesAre
<1>8. c.contacts = r /\ c.cache = <<>> /\ c \in [contacts : List, cache : List]
  <2>1. BUCKET_SIZE \in Nat /\ CACHE_SIZE \in Nat
    BY SizesAre
  <2>2. Take(r, BUCKET_SIZE) = r /\ SubSeq(r, BUCKET_SIZE + 1, Len(r)) = <<>>
    BY <1>6, <1>7, <2>1, TakeIs
  <2>3. Take(SubSeq(r, BUCKET_SIZE + 1, Len(r)), CACHE_SIZE) = <<>>
    BY <2>1, <2>2, TakeNone
  <2> QED
    BY <1>4, <1>6, <2>2, <2>3, EmptyIs
<1>9. Held(r) = {x \in Held(s) : Under(q, x)}
  BY <1>6 DEF Held, I
<1>10. Good(q, c)
  BY <1>6, <1>7, <1>8, <1>9, EmptyIs, SizesAre DEF Good
<1>11. Behind(c)
  BY <1>8, EmptyIs DEF Behind
<1>12. ASSUME NEW id PROVE Comes(b, c, id)
  BY <1>6, <1>8, <1>9, EmptyIs DEF Comes, KeepsTo
<1> QED
  BY <1>8, <1>9, <1>10, <1>11, <1>12

-----------------------------------------------------------------------------
(* AddNode splits *)

\* AddNode goes on at the depth n of the way to id.
GoesOn(p, b, id, n) ==
    Splits(Prefix(Dist(id), n), (IF n = Len(p) THEN b ELSE Share(Prefix(Dist(id), n), b)).contacts, id)

LEMMA StopIs ==
    ASSUME NEW p \in Path, NEW b, NEW id, NEW n, n = Stop(p, b, id)
    PROVE  /\ n \in Nat /\ Len(p) <= n /\ n < ID_BITS
           /\ ~GoesOn(p, b, id, n)
           /\ n # Len(p) => GoesOn(p, b, id, Len(p))
<1> DEFINE S == {k \in Len(p) .. ID_BITS : ~GoesOn(p, b, id, k)}
           Is(k) == ~GoesOn(p, b, id, k) /\ \A m \in Len(p) .. (k - 1) : GoesOn(p, b, id, m)
<1>1. Len(p) \in Nat /\ ID_BITS \in Nat \ {0} /\ Len(p) < ID_BITS
  BY PathIs, IdBitsAssumption
<1>2. ID_BITS - 1 \in Nat /\ ID_BITS - 1 <= ID_BITS /\ ID_BITS - 1 \in Len(p) .. ID_BITS
  BY <1>1
<1>3. ~GoesOn(p, b, id, ID_BITS - 1)
  <2> DEFINE q == Prefix(Dist(id), ID_BITS - 1)
  <2>1. Len(q) = ID_BITS - 1
    BY <1>2, DistIs, PrefixIs
  <2> HIDE DEF q
  <2>2. ~MaySplit(q)
    BY <1>1, <2>1 DEF MaySplit
  <2> QED
    BY <2>2 DEF GoesOn, Splits, IsSplittable, q
<1> HIDE DEF Is
<1>4. \E k \in Len(p) .. ID_BITS : Is(k)
  <2>1. S \in SUBSET Nat /\ S # {}
    BY <1>1, <1>2, <1>3
  <2>2. PICK k \in S : \A j \in S : k <= j
    BY <2>1, LeastExists
  <2>3. k \in Len(p) .. ID_BITS /\ ~GoesOn(p, b, id, k)
    BY <2>2
  <2>4. \A m \in Len(p) .. (k - 1) : m \in Len(p) .. ID_BITS /\ ~(k <= m)
    BY <1>1, <2>3
  <2>5. \A m \in Len(p) .. (k - 1) : GoesOn(p, b, id, m)
    BY <2>2, <2>4
  <2> QED
    BY <2>3, <2>5 DEF Is
<1>5. n = CHOOSE k \in Len(p) .. ID_BITS : Is(k)
  BY DEF Stop, Is, GoesOn
<1>6. n \in Len(p) .. ID_BITS /\ Is(n)
  BY <1>4, <1>5
<1>7. n \in Nat /\ Len(p) <= n /\ n <= ID_BITS
  BY <1>1, <1>6
<1>8. n # ID_BITS
  <2>1. ASSUME n = ID_BITS PROVE FALSE
    <3>1. ID_BITS - 1 \in Len(p) .. (n - 1)
      BY <1>1, <2>1
    <3> QED
      BY <1>3, <1>6, <3>1 DEF Is
  <2> QED
    BY <2>1
<1>9. ASSUME n # Len(p) PROVE GoesOn(p, b, id, Len(p))
  <2>1. Len(p) \in Len(p) .. (n - 1)
    BY <1>1, <1>7, <1>9
  <2> QED
    BY <1>6, <2>1 DEF Is
<1> QED
  BY <1>1, <1>6, <1>7, <1>8, <1>9 DEF Is

LEMMA LeafIs ==
    ASSUME NEW t, Divides(DOMAIN t), NEW id
    PROVE  /\ Leaf(t, id) \in DOMAIN t /\ Under(Leaf(t, id), id) /\ Agrees(Leaf(t, id), Dist(id))
           /\ \A p \in DOMAIN t : Under(p, id) => p = Leaf(t, id)
<1>1. \A p \in DOMAIN t : p \in Path /\ (Under(p, id) <=> Agrees(p, Dist(id)))
  BY UnderIs DEF Divides
<1>2. \E p \in DOMAIN t : Under(p, id)
  BY <1>1, DistIs DEF Divides
<1>3. Leaf(t, id) \in DOMAIN t /\ Under(Leaf(t, id), id)
  BY <1>2 DEF Leaf
<1>4. ASSUME NEW p \in DOMAIN t, Under(p, id) PROVE p = Leaf(t, id)
  BY <1>1, <1>3, <1>4, DistIs DEF Divides
<1> QED
  BY <1>1, <1>3, <1>4

ContactsOf(t) == UNION {Held(t[p].contacts) : p \in DOMAIN t}

LEMMA GrownIs ==
    ASSUME NEW t, Sound(t), NEW id, NEW g, g = Grown(t, id), NEW q, q = Leaf(g, id)
    PROVE  /\ Sound(g)
           /\ (\A p \in DOMAIN t : Behind(t[p])) => \A p \in DOMAIN g : Behind(g[p])
           /\ ContactsOf(t) \subseteq ContactsOf(g)
           /\ \A r \in DOMAIN g : \E p \in DOMAIN t : \A x : Comes(t[p], g[r], x)
           /\ q \in DOMAIN g /\ Under(q, id)
           /\ id \notin Held(g[q].contacts) /\ Len(g[q].contacts) >= BUCKET_SIZE => ~MaySplit(q)
<1> DEFINE p == Leaf(t, id)
           b == t[p]
           n == Stop(p, b, id)
           d == Dist(id)
           H == Halves(p, d, n)
<1>1. Divides(DOMAIN t) /\ Tree(DOMAIN t) /\ DOMAIN t \subseteq Path /\ d \in KadId
  BY DistIs DEF Sound, Tree, Divides
<1>2. p \in DOMAIN t /\ p \in Path /\ Under(p, id) /\ Agrees(p, d) /\ Good(p, b)
  BY <1>1, LeafIs DEF Sound
<1> HIDE DEF p, d
<1>3. /\ n \in Nat /\ Len(p) <= n /\ n < ID_BITS
      /\ ~GoesOn(p, b, id, n)
      /\ n # Len(p) => GoesOn(p, b, id, Len(p))
  BY <1>2, StopIs
<1> HIDE DEF b, n
<1>4. Len(p) \in Nat /\ ID_BITS \in Nat /\ Prefix(d, Len(p)) = p
  BY <1>1, <1>2, PathIs, PrefixAgrees
<1>5. g = IF n = Len(p) THEN t
          ELSE [r \in (DOMAIN t \ {p}) \cup H |-> IF r \in H THEN Share(r, b) ELSE t[r]]
  <2> DEFINE way == {Prefix(d, m) : m \in (Len(p) + 1) .. n}
             new == {Sibling(r) : r \in way} \cup (way \cap {Prefix(d, n)})
  <2>1. g = IF n = Len(p) THEN t ELSE [r \in (DOMAIN t \ {p}) \cup new |-> IF r \in new THEN Share(r, b) ELSE t[r]]
    BY DEF Grown, p, b, n, d
  <2>2. ASSUME n # Len(p) PROVE new = H
    <3>1. n \in (Len(p) + 1) .. n
      BY <1>3, <1>4, <2>2
    <3>2. Prefix(d, n) \in way
      BY <3>1
    <3>3. way \cap {Prefix(d, n)} = {Prefix(d, n)}
      BY <3>2
    <3>4. {Sibling(r) : r \in way} = {Sibling(Prefix(d, m)) : m \in (Len(p) + 1) .. n}
      OBVIOUS
    <3> QED
      BY <3>3, <3>4 DEF Halves
  <2> QED
    BY <2>1, <2>2
<1>6. CASE n = Len(p)
  <2>1. g = t /\ q = p
    BY <1>5, <1>6 DEF p
  <2>2. ~Splits(p, b.contacts, id)
    BY <1>3, <1>4, <1>6 DEF GoesOn, d
  <2>3. id \notin Held(b.contacts) /\ Len(b.contacts) >= BUCKET_SIZE => ~MaySplit(p)
    BY <2>2 DEF Splits, IsSplittable
  <2>4. \A r \in DOMAIN g : \E s \in DOMAIN t : \A x : Comes(t[s], g[r], x)
    BY <2>1, ComesSame
  <2> QED
    BY <1>2, <2>1, <2>3, <2>4 DEF b
<1>7. CASE n # Len(p)
  <2> DEFINE E == (DOMAIN t \ {p}) \cup H
             last == Prefix(d, n)
  <2>1. /\ DOMAIN g = E
        /\ \A r \in H : g[r] = Share(r, b)
        /\ \A r \in E : r \notin H => g[r] = t[r] /\ r \in DOMAIN t
    BY <1>5, <1>7
  <2>2. Len(p) < n
    BY <1>3, <1>4, <1>7
  <2>3. Tree(E) /\ H \cap DOMAIN t = {}
    BY <1>1, <1>2, <1>3, <2>2, GrownTree
  <2>4. /\ H \subseteq Path
        /\ \A e \in KadId : Agrees(p, e) => \E r \in H : Agrees(r, e)
    BY <1>1, <1>2, <1>3, <2>2, HalvesAre
  <2>5. last \in H /\ last \in E
    BY DEF Halves
  <2>6. last \in Path /\ Len(last) = n
    <3>1. n <= ID_BITS
      BY <1>3, <1>4
    <3> QED
      BY <1>1, <1>3, <3>1, PrefixIs
  <2> HIDE DEF last, E, H
  <2>7. Under(last, id)
    BY <2>6 DEF Under, last, d
  <2>8. q = last
    BY <2>1, <2>3, <2>5, <2>7, LeafIs DEF Tree
  <2>9. b.cache = <<>>
    <3>1. Splits(p, b.contacts, id)
      BY <1>3, <1>4, <1>7 DEF GoesOn, d
    <3>2. MaySplit(p)
      BY <3>1 DEF Splits, IsSplittable
    <3> QED
      BY <1>2, <3>2 DEF Good
  <2>10. ASSUME NEW r \in H
         PROVE  /\ Good(r, g[r]) /\ Behind(g[r]) /\ \A x : Comes(b, g[r], x)
                /\ Held(g[r].contacts) = {x \in Held(b.contacts) : Under(r, x)}
    BY <1>2, <2>1, <2>4, <2>9, ShareIs
  <2>11. Sound(g)
    <3>1. ASSUME NEW r \in E PROVE Good(r, g[r])
      BY <2>1, <2>10, <3>1 DEF Sound
    <3> QED
      BY <2>1, <2>3, <3>1 DEF Sound
  <2>12. ASSUME \A r \in DOMAIN t : Behind(t[r]), NEW r \in DOMAIN g PROVE Behind(g[r])
    BY <2>1, <2>10, <2>12
  <2>13. ASSUME NEW r \in DOMAIN g PROVE \E s \in DOMAIN t : \A x : Comes(t[s], g[r], x)
    <3>1. CASE r \in H
      BY <1>2, <2>10, <3>1 DEF b
    <3>2. CASE r \notin H
      BY <2>1, <3>2, ComesSame
    <3> QED
      BY <3>1, <3>2
  <2>14. ASSUME NEW x \in ContactsOf(t) PROVE x \in ContactsOf(g)
    <3>1. PICK r \in DOMAIN t : x \in Held(t[r].contacts)
      BY <2>14 DEF ContactsOf
    <3>2. CASE r # p
      <4>1. r \in DOMAIN g /\ g[r] = t[r]
        <5>1. r \in E /\ r \notin H
          BY <2>3, <3>2 DEF E
        <5> QED
          BY <2>1, <5>1
      <4> QED
        BY <3>1, <4>1 DEF ContactsOf
    <3>3. CASE r = p
      <4>1. x \in Held(b.contacts) /\ Under(p, x)
        BY <1>2, <3>1, <3>3 DEF Good, b
      <4>2. Agrees(p, Dist(x)) /\ Dist(x) \in KadId
        BY <1>2, <4>1, UnderIs, DistIs
      <4>3. PICK s \in H : Agrees(s, Dist(x))
        BY <2>4, <4>2
      <4>4. Under(s, x)
        BY <2>4, <4>3, UnderIs
      <4>5. x \in Held(g[s].contacts)
        BY <2>10, <4>1, <4>4
      <4>6. s \in DOMAIN g
        BY <2>1 DEF E
      <4> QED
        BY <4>5, <4>6 DEF ContactsOf
    <3> QED
      BY <3>2, <3>3
  <2>15. id \notin Held(g[q].contacts) /\ Len(g[q].contacts) >= BUCKET_SIZE => ~MaySplit(q)
    <3>1. g[q] = Share(q, b)
      BY <2>1, <2>5, <2>8
    <3>2. ~Splits(q, Share(q, b).contacts, id)
      BY <1>3, <1>7, <2>8 DEF GoesOn, last, d
    <3> QED
      BY <3>1, <3>2 DEF Splits, IsSplittable
  <2> QED
    BY <2>1, <2>5, <2>7, <2>8, <2>11, <2>12, <2>13, <2>14, <2>15
<1> QED
  BY <1>6, <1>7

-----------------------------------------------------------------------------
(* What is done to a bucket *)

LEMMA PutIs ==
    ASSUME NEW p, NEW b, Good(p, b), NEW id \in Ids, Under(p, id),
           id \notin Held(b.contacts) /\ Len(b.contacts) >= BUCKET_SIZE => ~MaySplit(p),
           NEW c, c = Put(b, id)
    PROVE  /\ Good(p, c) /\ Comes(b, c, id) /\ Held(b.contacts) \subseteq Held(c.contacts)
           /\ Behind(b) => Behind(c)
<1> DEFINE s == b.contacts
           u == b.cache
<1>1. /\ b \in [contacts : List, cache : List] /\ s \in List /\ u \in List
      /\ Len(s) <= BUCKET_SIZE /\ Len(u) <= CACHE_SIZE /\ Distinct(s) /\ Distinct(u)
      /\ \A x \in Held(s) \cup Held(u) : Under(p, x)
      /\ u # <<>> => ~MaySplit(p)
  BY DEF Good
<1>2. Len(s) \in Nat /\ Len(u) \in Nat /\ BUCKET_SIZE \in Nat \ {0} /\ CACHE_SIZE \in Nat \ {0}
  BY <1>1, SizesAre DEF List
<1>3. \A l : KeepsTo(l, l, id)
  BY DEF KeepsTo
<1>4. CASE id \in Held(s)
  <2> DEFINE r == Without(s, id) \o Entry(s, id)
  <2>1. c = [b EXCEPT !.contacts = r]
    BY <1>4 DEF Put
  <2>2. r \in List /\ Len(r) = Len(s) /\ Held(r) = Held(s) /\ Distinct(r) /\ KeepsTo(s, r, id)
    <3>1. s \in List /\ Distinct(s) /\ r = ToBack(s, id)
      BY <1>1 DEF ToBack
    <3> HIDE DEF s, r
    <3> QED
      BY <3>1, ToBackIs
  <2> HIDE DEF r
  <2>3. c.contacts = r /\ c.cache = u /\ c \in [contacts : List, cache : List]
    BY <1>1, <2>1, <2>2
  <2> QED
    BY <1>1, <1>3, <2>2, <2>3 DEF Good, Behind, Comes
<1>5. CASE id \notin Held(s) /\ Len(s) < BUCKET_SIZE
  <2> DEFINE r == Append(s, Contact(id))
  <2>1. c = [b EXCEPT !.contacts = r]
    BY <1>5 DEF Put
  <2>2. r \in List /\ Len(r) = Len(s) + 1 /\ Held(r) = Held(s) \cup {id} /\ Distinct(r) /\ KeepsTo(s, r, id)
    <3>1. s \in List /\ Distinct(s) /\ id \notin Held(s) /\ r = Append(s, Contact(id))
      BY <1>1, <1>5
    <3> HIDE DEF s, r
    <3> QED
      BY <3>1, PutLastIs
  <2> HIDE DEF r
  <2>3. c.contacts = r /\ c.cache = u /\ c \in [contacts : List, cache : List]
    BY <1>1, <2>1, <2>2
  <2>4. Len(r) <= BUCKET_SIZE
    BY <1>2, <1>5, <2>2
  <2>5. Good(p, c) /\ Comes(b, c, id)
    BY <1>1, <1>3, <2>2, <2>3, <2>4 DEF Good, Comes
  <2>6. ASSUME Behind(b) PROVE Behind(c)
    <3>1. Len(s) # BUCKET_SIZE
      BY <1>2, <1>5
    <3>2. u = <<>>
      BY <2>6, <3>1 DEF Behind
    <3> QED
      BY <2>3, <3>2, EmptyIs DEF Behind
  <2> QED
    BY <2>2, <2>3, <2>5, <2>6
<1>6. CASE id \notin Held(s) /\ ~(Len(s) < BUCKET_SIZE)
  <2> DEFINE v == IF Len(u) < CACHE_SIZE THEN u ELSE Tail(u)
             r == IF id \in Held(u) THEN Without(u, id) \o Entry(u, id) ELSE Append(v, Contact(id))
  <2>1. c = [b EXCEPT !.cache = r]
    BY <1>6 DEF Put
  <2>2. Len(s) = BUCKET_SIZE /\ ~MaySplit(p)
    BY <1>1, <1>2, <1>6
  <2>3. /\ v \in List /\ Len(v) <= CACHE_SIZE - 1 /\ Len(v) \in Nat /\ Held(v) \subseteq Held(u) /\ Distinct(v)
        /\ \A x, y : Before(v, y, x) => Before(u, y, x)
    <3>1. CASE Len(u) < CACHE_SIZE
      BY <1>1, <1>2, <3>1
    <3>2. CASE ~(Len(u) < CACHE_SIZE)
      <4> DEFINE w == Tail(u)
      <4>1. u # <<>> /\ Len(u) = CACHE_SIZE
        BY <1>1, <1>2, <3>2
      <4>2. /\ w \in List /\ Len(w) = Len(u) - 1 /\ Held(w) \subseteq Held(u) /\ Distinct(w)
            /\ \A x, y : Before(w, y, x) => Before(u, y, x)
        BY <1>1, <4>1, TailIs
      <4>3. v = w
        BY <3>2
      <4> HIDE DEF w, v
      <4>4. Len(w) \in Nat /\ Len(w) <= CACHE_SIZE - 1
        BY <1>2, <4>1, <4>2 DEF List
      <4> QED
        BY <4>2, <4>3, <4>4
    <3> QED
      BY <3>1, <3>2
  <2>4. /\ r \in List /\ Len(r) <= CACHE_SIZE /\ Held(r) \subseteq Held(u) \cup {id} /\ Distinct(r)
        /\ KeepsTo(u, r, id)
    <3>1. CASE id \in Held(u)
      <4> DEFINE w == Without(u, id) \o Entry(u, id)
      <4>1. w \in List /\ Len(w) = Len(u) /\ Held(w) = Held(u) /\ Distinct(w) /\ KeepsTo(u, w, id)
        <5>1. u \in List /\ Distinct(u) /\ w = ToBack(u, id)
          BY <1>1 DEF ToBack
        <5> HIDE DEF u, w
        <5> QED
          BY <5>1, ToBackIs
      <4>2. r = w
        BY <3>1
      <4> HIDE DEF w, r, v
      <4> QED
        BY <1>1, <4>1, <4>2
    <3>2. CASE id \notin Held(u)
      <4> DEFINE w == Append(v, Contact(id))
      <4>0. r = w
        BY <3>2
      <4> HIDE DEF v, r
      <4>1. id \notin Held(v)
        BY <2>3, <3>2
      <4>2. w \in List /\ Len(w) = Len(v) + 1 /\ Held(w) = Held(v) \cup {id} /\ Distinct(w) /\ KeepsTo(v, w, id)
        BY <2>3, <4>1, PutLastIs
      <4> HIDE DEF w
      <4>3. Len(w) <= CACHE_SIZE
        BY <1>2, <2>3, <4>2
      <4>4. KeepsTo(u, w, id)
        BY <2>3, <4>2 DEF KeepsTo
      <4> QED
        BY <2>3, <4>0, <4>2, <4>3, <4>4
    <3> QED
      BY <3>1, <3>2
  <2> HIDE DEF r, v
  <2>5. c.contacts = s /\ c.cache = r /\ c \in [contacts : List, cache : List]
    BY <1>1, <2>1, <2>4
  <2>6. Good(p, c) /\ Comes(b, c, id)
    BY <1>1, <1>3, <2>2, <2>4, <2>5 DEF Good, Comes
  <2>7. ASSUME Behind(b) PROVE Behind(c)
    BY <1>6, <2>2, <2>4, <2>5, <2>7 DEF Behind
  <2> QED
    BY <2>5, <2>6, <2>7
<1> QED
  BY <1>4, <1>5, <1>6

LEMMA WithoutIs ==
    ASSUME NEW s \in List, NEW id, NEW r, r = Without(s, id)
    PROVE  /\ r \in List /\ Len(r) <= Len(s) /\ Held(r) \subseteq Held(s)
           /\ Distinct(s) => Distinct(r)
           /\ \A x, y : Before(r, y, x) => Before(s, y, x)
<1> DEFINE I == {i \in DOMAIN s : s[i].id # id}
<1>1. I \in SUBSET DOMAIN s /\ r = Sublist(s, I)
  BY DEF Without
<1> HIDE DEF I
<1>2. /\ r \in List /\ Len(r) <= Len(s) /\ Held(r) = {s[i].id : i \in I}
      /\ Distinct(s) => Distinct(r)
      /\ \A x, y : Before(r, y, x) => Before(s, y, x)
  BY <1>1, PartIs
<1>3. Held(r) \subseteq Held(s)
  BY <1>1, <1>2 DEF Held
<1> QED
  BY <1>2, <1>3

LEMMA DropIs ==
    ASSUME NEW p, NEW b, Good(p, b), NEW id, NEW c, c = Drop(b, id)
    PROVE  Good(p, c) /\ \A x : Comes(b, c, x)
<1> DEFINE s == b.contacts
           u == b.cache
           v == Without(s, id)
           w == Without(u, id)
<1>1. /\ b \in [contacts : List, cache : List] /\ s \in List /\ u \in List
      /\ Len(s) <= BUCKET_SIZE /\ Len(u) <= CACHE_SIZE /\ Distinct(s) /\ Distinct(u)
      /\ \A x \in Held(s) \cup Held(u) : Under(p, x)
      /\ u # <<>> => ~MaySplit(p)
  BY DEF Good
<1>2. Len(s) \in Nat /\ Len(u) \in Nat /\ BUCKET_SIZE \in Nat \ {0} /\ CACHE_SIZE \in Nat \ {0}
  BY <1>1, SizesAre DEF List
<1>3. /\ v \in List /\ Len(v) <= Len(s) /\ Held(v) \subseteq Held(s) /\ Distinct(v) /\ \A x : KeepsTo(s, v, x)
      /\ w \in List /\ Len(w) <= Len(u) /\ Held(w) \subseteq Held(u) /\ Distinct(w) /\ \A x : KeepsTo(u, w, x)
  BY <1>1, WithoutIs DEF KeepsTo
<1>4. \A l, x : KeepsTo(l, l, x)
  BY DEF KeepsTo
<1>5. c = IF id \in Held(s) THEN [b EXCEPT !.contacts = v] ELSE [b EXCEPT !.cache = w]
  BY DEF Drop
<1> HIDE DEF v, w
<1>6. Len(v) <= BUCKET_SIZE /\ Len(w) <= CACHE_SIZE /\ (w # <<>> => u # <<>>)
  <2>1. Len(v) \in Nat /\ Len(w) \in Nat
    BY <1>3 DEF List
  <2>2. ASSUME u = <<>> PROVE w = <<>>
    <3>1. Len(u) = 0
      BY <2>2
    <3>2. Len(w) = 0
      BY <1>3, <2>1, <3>1
    <3> QED
      BY <1>3, <3>2 DEF List
  <2> QED
    BY <1>1, <1>2, <1>3, <2>1, <2>2
<1>7. CASE id \in Held(s)
  <2>1. c.contacts = v /\ c.cache = u /\ c \in [contacts : List, cache : List]
    BY <1>1, <1>3, <1>5, <1>7
  <2> QED
    BY <1>1, <1>3, <1>4, <1>6, <2>1 DEF Good, Comes
<1>8. CASE id \notin Held(s)
  <2>1. c.contacts = s /\ c.cache = w /\ c \in [contacts : List, cache : List]
    BY <1>1, <1>3, <1>5, <1>8
  <2> QED
    BY <1>1, <1>3, <1>4, <1>6, <2>1 DEF Good, Comes
<1> QED
  BY <1>7, <1>8

\* r names the same nodes as s, at the same places.
Like(s, r) == r \in List /\ Len(r) = Len(s) /\ \A i \in DOMAIN s : r[i].id = s[i].id

LEMMA LikeIs ==
    ASSUME NEW s \in List, NEW r, Like(s, r)
    PROVE  /\ Held(r) = Held(s) /\ (Distinct(s) => Distinct(r))
           /\ \A x, y : Before(r, y, x) => Before(s, y, x)
<1>1. DOMAIN r = DOMAIN s /\ \A i \in DOMAIN s : r[i].id = s[i].id
  BY DEF Like, List
<1>2. Held(r) = Held(s)
  BY <1>1 DEF Held
<1>3. Distinct(s) => Distinct(r)
  BY <1>1 DEF Distinct
<1>4. \A x, y : Before(r, y, x) => Before(s, y, x)
  BY <1>1 DEF Before
<1> QED
  BY <1>2, <1>3, <1>4

\* Failures are counted and forgiven: nothing else changes.
LEMMA LikeBucketIs ==
    ASSUME NEW p, NEW b, Good(p, b), NEW c, c \in [contacts : List, cache : List],
           Like(b.contacts, c.contacts), Like(b.cache, c.cache)
    PROVE  /\ Good(p, c) /\ Held(c.contacts) = Held(b.contacts) /\ \A x : Comes(b, c, x)
           /\ Behind(b) => Behind(c)
<1>1. b.contacts \in List /\ b.cache \in List
  BY DEF Good
<1>2. /\ Held(c.contacts) = Held(b.contacts) /\ (Distinct(b.contacts) => Distinct(c.contacts))
      /\ \A x, y : Before(c.contacts, y, x) => Before(b.contacts, y, x)
  BY <1>1, LikeIs
<1>3. /\ Held(c.cache) = Held(b.cache) /\ (Distinct(b.cache) => Distinct(c.cache))
      /\ \A x, y : Before(c.cache, y, x) => Before(b.cache, y, x)
  BY <1>1, LikeIs
<1>4. Len(c.contacts) = Len(b.contacts) /\ Len(c.cache) = Len(b.cache)
  BY DEF Like
<1>5. c.cache # <<>> => b.cache # <<>>
  <2>1. ASSUME b.cache = <<>> PROVE c.cache = <<>>
    <3>1. Len(c.cache) = 0 /\ c.cache \in List
      BY <1>4, <2>1
    <3> QED
      BY <3>1 DEF List
  <2> QED
    BY <2>1
<1>6. Good(p, c)
  BY <1>2, <1>3, <1>4, <1>5 DEF Good
<1>7. \A x : Comes(b, c, x)
  BY <1>2, <1>3 DEF Comes, KeepsTo
<1>8. Behind(b) => Behind(c)
  BY <1>2, <1>3, <1>4, <1>5 DEF Behind
<1> QED
  BY <1>2, <1>6, <1>7, <1>8

LEMMA RevivedIs == ASSUME NEW s \in List, NEW id \in Ids PROVE Like(s, Revived(s, id))
<1>1. Len(s) \in Nat /\ DOMAIN s = 1 .. Len(s) /\ \A i \in DOMAIN s : s[i] \in EntryType
  BY DEF List
<1>2. Contact(id) \in EntryType /\ Contact(id).id = id
  BY SizesAssumption DEF Contact, EntryType
<1> DEFINE r == Revived(s, id)
<1>3. r \in [1 .. Len(s) -> EntryType] /\ \A i \in DOMAIN s : r[i].id = s[i].id
  BY <1>1, <1>2 DEF Revived
<1> HIDE DEF r
<1>4. r \in Seq(EntryType) /\ Len(r) = Len(s)
  BY <1>1, <1>3, IsASeq
<1>5. Like(s, r)
  BY <1>3, <1>4 DEF Like, List
<1> QED
  BY <1>5 DEF r

LEMMA CountedIs == ASSUME NEW s \in List, NEW i \in DOMAIN s, NEW n \in 0 .. STALE PROVE Like(s, Counted(s, i, n))
<1>1. Len(s) \in Nat /\ DOMAIN s = 1 .. Len(s) /\ \A j \in DOMAIN s : s[j] \in EntryType
  BY DEF List
<1> DEFINE r == Counted(s, i, n)
           e == [s[i] EXCEPT !.fail = n]
<1>2. e \in EntryType /\ e.id = s[i].id
  BY <1>1 DEF EntryType
<1>3. r = [s EXCEPT ![i] = e]
  BY DEF Counted
<1> HIDE DEF e, r
<1>4. r \in Seq(EntryType) /\ Len(r) = Len(s) /\ \A j \in DOMAIN s : r[j] = IF j = i THEN e ELSE s[j]
  BY <1>1, <1>2, <1>3 DEF List
<1>5. Like(s, r)
  BY <1>2, <1>4 DEF Like, List
<1> QED
  BY <1>5 DEF r

-----------------------------------------------------------------------------
(* What a sound table promises *)

LEMMA CountIs == ASSUME NEW s \in List, Distinct(s) PROVE Cardinality(Held(s)) = Len(s)
<1>1. Len(s) \in Nat /\ DOMAIN s = 1 .. Len(s)
  BY DEF List
<1> DEFINE f == [i \in 1 .. Len(s) |-> s[i].id]
<1>2. f \in [1 .. Len(s) -> Held(s)]
  BY <1>1 DEF Held
<1>3. \A x \in Held(s) : \E i \in 1 .. Len(s) : f[i] = x
  BY <1>1 DEF Held
<1>4. \A i, j \in 1 .. Len(s) : f[i] = f[j] => i = j
  BY <1>1 DEF Distinct
<1> HIDE DEF f
<1>5. f \in Bijection(1 .. Len(s), Held(s))
  BY <1>2, <1>3, <1>4 DEF Bijection, Injection, Surjection, IsInjective
<1>6. ExistsBijection(1 .. Len(s), Held(s))
  BY <1>5 DEF ExistsBijection
<1> QED
  BY <1>1, <1>6, FS_CountingElements

LEMMA HeldIn == ASSUME NEW s \in List PROVE Held(s) \subseteq Ids
<1>1. \A i \in DOMAIN s : s[i] \in EntryType
  BY DEF List
<1>2. \A i \in DOMAIN s : s[i].id \in Ids
  BY <1>1 DEF EntryType
<1> QED
  BY <1>2 DEF Held

\* An id is in one bucket at most.
LEMMA OneBucket ==
    ASSUME NEW t, Sound(t), NEW p \in DOMAIN t, NEW q \in DOMAIN t, NEW x, Under(p, x), Under(q, x)
    PROVE  p = q
  BY UnderIs, DistIs DEF Sound, Tree, Divides

LEMMA SoundIs == ASSUME Sound(table) PROVE RtTypeOK /\ TableIsSound
<1>1. RtTypeOK
  BY DEF RtTypeOK, Sound, Tree, Divides, Path, Good, List
<1>2. ContactsArePlaced
  BY DEF ContactsArePlaced, Entries, Sound, Good
<1>3. ASSUME NEW d \in KadId PROVE Cardinality({p \in DOMAIN table : Prefix(d, Len(p)) = p}) = 1
  <2> DEFINE S == {p \in DOMAIN table : Prefix(d, Len(p)) = p}
  <2>1. \A p \in DOMAIN table : Prefix(d, Len(p)) = p <=> Agrees(p, d)
    BY PrefixAgrees DEF Sound, Tree, Divides
  <2>2. PICK p \in DOMAIN table : Agrees(p, d)
    BY DEF Sound, Tree, Divides
  <2>3. \A q \in DOMAIN table : Agrees(q, d) => q = p
    BY <2>2 DEF Sound, Tree, Divides
  <2>4. S = {p}
    BY <2>1, <2>2, <2>3
  <2> QED
    BY <2>4, FS_Singleton
<1>4. Spaces = SpacesOf(DOMAIN table)
  BY DEF Spaces, SpacesOf
<1>5. SpaceIsPartitioned
  BY <1>3, <1>4 DEF SpaceIsPartitioned, Sound, Tree
<1> QED
  BY <1>1, <1>2, <1>5 DEF TableIsSound

AllBehind(t) == \A p \in DOMAIN t : Behind(t[p])

LEMMA BehindIs == ASSUME Sound(table), AllBehind(table) PROVE OneEntryPerId /\ CacheBehindFull
<1>1. CacheBehindFull
  BY DEF CacheBehindFull, AllBehind, Behind, Sound, Good
<1>2. ASSUME NEW p \in DOMAIN table
      PROVE  Cardinality(Held(table[p].contacts \o table[p].cache)) = Len(table[p].contacts \o table[p].cache)
  <2> DEFINE a == table[p].contacts
             b == table[p].cache
             r == a \o b
  <2>1. a \in List /\ b \in List /\ Distinct(a) /\ Distinct(b) /\ Held(a) \cap Held(b) = {}
    BY DEF Sound, Good, AllBehind, Behind
  <2>2. r = a \o b
    OBVIOUS
  <2> HIDE DEF a, b, r
  <2>3. r \in List /\ Distinct(r)
    BY <2>1, <2>2, ConcatIs
  <2>4. Cardinality(Held(r)) = Len(r)
    BY <2>3, CountIs
  <2> QED
    BY <2>4 DEF r, a, b
<1>3. ASSUME NEW p \in DOMAIN table, NEW q \in DOMAIN table \ {p} PROVE Entries(p) \cap Entries(q) = {}
  <2>1. ASSUME NEW x \in Entries(p), x \in Entries(q) PROVE FALSE
    <3>1. Under(p, x) /\ Under(q, x)
      BY <2>1 DEF Entries, Sound, Good
    <3> QED
      BY <3>1, OneBucket
  <2> QED
    BY <2>1
<1> QED
  BY <1>1, <1>2, <1>3 DEF OneEntryPerId

\* Nodes change places only for the one that is added.
LEMMA OrderIs ==
    ASSUME NEW t, Sound(t), NEW u, NEW id, \A r \in DOMAIN u : \E p \in DOMAIN t : Comes(t[p], u[r], id),
           NEW p \in DOMAIN t, NEW r \in DOMAIN u
    PROVE  Moved(t[p].contacts, u[r].contacts) \cup Moved(t[p].cache, u[r].cache) \subseteq {id}
<1>1. PICK q \in DOMAIN t : Comes(t[q], u[r], id)
  OBVIOUS
<1>2. \A s, x, y : Before(s, x, y) => x \in Held(s) /\ y \in Held(s)
  BY DEF Before, Held
<1>3. \A s \in List : Distinct(s) => \A x, y : ~(Before(s, x, y) /\ Before(s, y, x))
  <2> SUFFICES ASSUME NEW s \in List, Distinct(s), NEW x, NEW y, Before(s, x, y), Before(s, y, x) PROVE FALSE
    OBVIOUS
  <2>0. Len(s) \in Nat /\ DOMAIN s = 1 .. Len(s)
    BY DEF List
  <2>1. PICK i \in DOMAIN s, j \in DOMAIN s : i < j /\ s[i].id = x /\ s[j].id = y
    BY DEF Before
  <2>2. PICK k \in DOMAIN s, l \in DOMAIN s : k < l /\ s[k].id = y /\ s[l].id = x
    BY DEF Before
  <2>3. i = l /\ j = k
    BY <2>1, <2>2 DEF Distinct
  <2> QED
    BY <2>0, <2>1, <2>2, <2>3
<1>4. Good(p, t[p]) /\ Good(q, t[q])
  BY DEF Sound
<1>5. ASSUME NEW x \in Moved(t[p].contacts, u[r].contacts), x # id PROVE FALSE
  <2>1. PICK y : x \in Held(t[p].contacts) /\ Before(t[p].contacts, x, y) /\ Before(u[r].contacts, y, x)
    BY <1>5 DEF Moved
  <2>2. Before(t[q].contacts, y, x)
    BY <1>1, <1>5, <2>1 DEF Comes, KeepsTo
  <2>3. Under(p, x) /\ Under(q, x)
    BY <1>2, <1>4, <2>1, <2>2 DEF Good
  <2>4. p = q
    BY <2>3, OneBucket
  <2> QED
    BY <1>3, <1>4, <2>1, <2>2, <2>4 DEF Good
<1>6. ASSUME NEW x \in Moved(t[p].cache, u[r].cache), x # id PROVE FALSE
  <2>1. PICK y : x \in Held(t[p].cache) /\ Before(t[p].cache, x, y) /\ Before(u[r].cache, y, x)
    BY <1>6 DEF Moved
  <2>2. Before(t[q].cache, y, x)
    BY <1>1, <1>6, <2>1 DEF Comes, KeepsTo
  <2>3. Under(p, x) /\ Under(q, x)
    BY <1>2, <1>4, <2>1, <2>2 DEF Good
  <2>4. p = q
    BY <2>3, OneBucket
  <2> QED
    BY <1>3, <1>4, <2>1, <2>2, <2>4 DEF Good
<1> QED
  BY <1>5, <1>6

-----------------------------------------------------------------------------
(* Steps *)

\* What each step keeps: a table that is sound, with full buckets before a cache, and every contact.
Keeps(t, u) ==
    /\ Sound(u)
    /\ AllBehind(t) => AllBehind(u)
    /\ ContactsOf(t) \subseteq ContactsOf(u)

LEMMA BucketStep ==
    ASSUME NEW t, Sound(t), NEW q \in DOMAIN t, NEW c, Good(q, c), NEW u, u = [t EXCEPT ![q] = c], NEW id, Comes(t[q], c, id)
    PROVE  /\ Sound(u) /\ \A r \in DOMAIN u : r \in DOMAIN t /\ Comes(t[r], u[r], id)
           /\ Held(t[q].contacts) \subseteq Held(c.contacts) => ContactsOf(t) \subseteq ContactsOf(u)
           /\ (Behind(t[q]) => Behind(c)) => (AllBehind(t) => AllBehind(u))
<1>1. DOMAIN u = DOMAIN t /\ u[q] = c /\ \A r \in DOMAIN t : r # q => u[r] = t[r]
  OBVIOUS
<1>2. Sound(u)
  BY <1>1 DEF Sound
<1>3. \A r \in DOMAIN u : Comes(t[r], u[r], id)
  BY <1>1, ComesSame
<1>4. ASSUME Held(t[q].contacts) \subseteq Held(c.contacts) PROVE ContactsOf(t) \subseteq ContactsOf(u)
  <2>1. \A r \in DOMAIN t : Held(t[r].contacts) \subseteq Held(u[r].contacts)
    BY <1>1, <1>4
  <2> QED
    BY <1>1, <2>1 DEF ContactsOf
<1>5. ASSUME Behind(t[q]) => Behind(c), AllBehind(t) PROVE AllBehind(u)
  BY <1>1, <1>5 DEF AllBehind
<1> QED
  BY <1>1, <1>2, <1>3, <1>4, <1>5

\* A node is added, and what is in its bucket may be touched after that.
LEMMA Added ==
    ASSUME NEW t, Sound(t), NEW id \in Ids, NEW g, g = Grown(t, id), NEW q, q = Leaf(g, id),
           NEW b, b = Put(g[q], id), NEW c,
           c = b \/ c = [contacts |-> Revived(b.contacts, id), cache |-> Revived(b.cache, id)],
           NEW u, u = [g EXCEPT ![q] = c]
    PROVE  Keeps(t, u) /\ \A r \in DOMAIN u : \E p \in DOMAIN t : Comes(t[p], u[r], id)
<1>1. /\ Sound(g)
      /\ AllBehind(t) => AllBehind(g)
      /\ ContactsOf(t) \subseteq ContactsOf(g)
      /\ \A r \in DOMAIN g : \E p \in DOMAIN t : \A x : Comes(t[p], g[r], x)
      /\ q \in DOMAIN g /\ Under(q, id)
      /\ id \notin Held(g[q].contacts) /\ Len(g[q].contacts) >= BUCKET_SIZE => ~MaySplit(q)
  BY GrownIs DEF AllBehind
<1> DEFINE a == g[q]
<1>2. Good(q, a)
  BY <1>1 DEF Sound
<1>3. /\ Good(q, b) /\ Comes(a, b, id) /\ Held(a.contacts) \subseteq Held(b.contacts)
      /\ Behind(a) => Behind(b)
  <2> HIDE DEF a
  <2>1. id \notin Held(a.contacts) /\ Len(a.contacts) >= BUCKET_SIZE => ~MaySplit(q)
    BY <1>1 DEF a
  <2>2. b = Put(a, id)
    BY DEF a
  <2> QED
    BY <1>1, <1>2, <2>1, <2>2, PutIs
<1>4. /\ Good(q, c) /\ Comes(b, c, id) /\ Held(c.contacts) = Held(b.contacts)
      /\ Behind(b) => Behind(c)
  <2>1. CASE c = b
    BY <1>3, <2>1, ComesSame
  <2>2. CASE c # b
    <3>1. b.contacts \in List /\ b.cache \in List
      BY <1>3 DEF Good
    <3>2. c.contacts = Revived(b.contacts, id) /\ c.cache = Revived(b.cache, id)
      BY <2>2
    <3>3. Like(b.contacts, c.contacts) /\ Like(b.cache, c.cache)
      BY <3>1, <3>2, RevivedIs
    <3>4. c \in [contacts : List, cache : List]
      BY <2>2, <3>2, <3>3 DEF Like
    <3> QED
      BY <1>3, <3>3, <3>4, LikeBucketIs
  <2> QED
    BY <2>1, <2>2
<1>5. Comes(a, c, id) /\ Held(a.contacts) \subseteq Held(c.contacts) /\ (Behind(a) => Behind(c))
  BY <1>3, <1>4, ComesTwice
<1>6. /\ Sound(u) /\ \A r \in DOMAIN u : r \in DOMAIN g /\ Comes(g[r], u[r], id)
      /\ ContactsOf(g) \subseteq ContactsOf(u)
      /\ AllBehind(g) => AllBehind(u)
  BY <1>1, <1>4, <1>5, BucketStep
<1>7. ASSUME NEW r \in DOMAIN u PROVE \E p \in DOMAIN t : Comes(t[p], u[r], id)
  BY <1>1, <1>6, ComesTwice
<1> QED
  BY <1>1, <1>6, <1>7 DEF Keeps

LEMMA AddNodeKeeps ==
    ASSUME Sound(table), NEW id \in Ids, AddNode(id)
    PROVE  Keeps(table, table') /\ \A r \in DOMAIN table' : \E p \in DOMAIN table : Comes(table[p], table'[r], id)
<1> DEFINE g == Grown(table, id)
           q == Leaf(g, id)
           b == Put(g[q], id)
<1>1. table' = [g EXCEPT ![q] = b]
  BY DEF AddNode
<1> HIDE DEF b
<1>2. b = Put(g[q], id)
  BY DEF b
<1> HIDE DEF q, g
<1>3. g = Grown(table, id) /\ q = Leaf(g, id)
  BY DEF g, q
<1> QED
  BY <1>1, <1>2, <1>3, Added

LEMMA ReceiveKeeps ==
    ASSUME Sound(table), NEW id \in Ids, Receive(id)
    PROVE  Keeps(table, table')
<1> DEFINE g == Grown(table, id)
           q == Leaf(g, id)
           b == Put(g[q], id)
           c == [contacts |-> Revived(b.contacts, id), cache |-> Revived(b.cache, id)]
<1>1. table' = [g EXCEPT ![q] = c]
  BY DEF Receive
<1> HIDE DEF c
<1>2. c = [contacts |-> Revived(b.contacts, id), cache |-> Revived(b.cache, id)]
  BY DEF c
<1> HIDE DEF b
<1>3. b = Put(g[q], id)
  BY DEF b
<1> HIDE DEF q, g
<1>4. g = Grown(table, id) /\ q = Leaf(g, id)
  BY DEF g, q
<1> QED
  BY <1>1, <1>2, <1>3, <1>4, Added

LEMMA RemoveKeeps ==
    ASSUME Sound(table), NEW id, RemoveNode(id)
    PROVE  Sound(table') /\ \A r \in DOMAIN table' : \E p \in DOMAIN table : \A x : Comes(table[p], table'[r], x)
<1> DEFINE q == Leaf(table, id)
           c == Drop(table[q], id)
<1>1. table' = [table EXCEPT ![q] = c]
  BY DEF RemoveNode
<1>2. q \in DOMAIN table
  BY LeafIs DEF Sound, Tree
<1>3. Good(q, c) /\ \A x : Comes(table[q], c, x)
  BY <1>2, DropIs DEF Sound
<1> HIDE DEF q, c
<1>4. Sound(table') /\ \A x : \A r \in DOMAIN table' : r \in DOMAIN table /\ Comes(table[r], table'[r], x)
  BY <1>1, <1>2, <1>3, BucketStep
<1> QED
  BY <1>4

LEMMA NoteKeeps == ASSUME Sound(table), Note PROVE Keeps(table, table')
<1>1. PICK q \in DOMAIN table, list \in {"contacts", "cache"} :
          \E i \in DOMAIN table[q][list] : NoteFailure(q, list, i) \/ NoteAlive(q, list, i)
  BY DEF Note
<1>2. PICK i \in DOMAIN table[q][list] : NoteFailure(q, list, i) \/ NoteAlive(q, list, i)
  BY <1>1
<1> DEFINE b == table[q]
           s == b[list]
<1>3. Good(q, b) /\ b \in [contacts : List, cache : List] /\ s \in List
  BY DEF Sound, Good
<1>4. s[i] \in EntryType
  BY <1>3 DEF List
<1>5. \E n \in 0 .. STALE : table' = [table EXCEPT ![q][list] = Counted(@, i, n)]
  <2>1. 0 \in 0 .. STALE
    BY SizesAre
  <2>2. CASE NoteAlive(q, list, i)
    BY <2>1, <2>2 DEF NoteAlive
  <2>3. CASE NoteFailure(q, list, i)
    <3>1. s[i].fail < STALE /\ s[i].fail \in 0 .. STALE
      BY <1>4, <2>3 DEF NoteFailure, EntryType
    <3>2. s[i].fail + 1 \in 0 .. STALE
      BY <3>1, SizesAre
    <3>3. table' = [table EXCEPT ![q][list] = Counted(@, i, s[i].fail + 1)]
      BY <2>3 DEF NoteFailure
    <3> QED
      BY <3>2, <3>3
  <2> QED
    BY <1>2, <2>2, <2>3
<1>6. PICK n \in 0 .. STALE : table' = [table EXCEPT ![q][list] = Counted(@, i, n)]
  BY <1>5
<1> DEFINE c == [b EXCEPT ![list] = Counted(s, i, n)]
<1>7. table' = [table EXCEPT ![q] = c]
  BY <1>6
<1>8. Like(s, Counted(s, i, n)) /\ Counted(s, i, n) \in List
  BY <1>3, CountedIs DEF Like
<1>9. \A l \in List : Like(l, l)
  BY DEF Like
<1>10. c \in [contacts : List, cache : List] /\ Like(b.contacts, c.contacts) /\ Like(b.cache, c.cache)
  <2> DEFINE k == Counted(s, i, n)
  <2>1. k \in List /\ Like(s, k)
    BY <1>8
  <2> HIDE DEF k
  <2>2. CASE list = "contacts"
    <3>1. c = [b EXCEPT !.contacts = k] /\ s = b.contacts
      BY <2>2 DEF k
    <3> HIDE DEF c, s
    <3> QED
      BY <1>3, <1>9, <2>1, <3>1
  <2>3. CASE list = "cache"
    <3>1. c = [b EXCEPT !.cache = k] /\ s = b.cache
      BY <2>3 DEF k
    <3> HIDE DEF c, s
    <3> QED
      BY <1>3, <1>9, <2>1, <3>1
  <2> QED
    BY <2>2, <2>3
<1> HIDE DEF c
<1>11. /\ Good(q, c) /\ Held(c.contacts) = Held(b.contacts) /\ \A x : Comes(b, c, x)
       /\ Behind(b) => Behind(c)
  BY <1>3, <1>10, LikeBucketIs
<1> QED
  BY <1>7, <1>11, BucketStep DEF Keeps

LEMMA SoundAtFirst == ASSUME RtInit PROVE Sound(table) /\ AllBehind(table)
<1>1. DOMAIN table = {<<>>} /\ table[<<>>] = [contacts |-> <<>>, cache |-> <<>>]
  BY DEF RtInit
<1>2. <<>> \in Path /\ Len(<<>>) = 0
  BY IdBitsAssumption DEF Path
<1>3. Divides({<<>>})
  BY <1>2 DEF Divides, Agrees
<1>4. SpacesOf({<<>>}) = {}
  <2>1. \A n \in 0 .. (Len(<<>>) - 1) : FALSE
    BY <1>2
  <2> QED
    BY <2>1 DEF SpacesOf
<1>5. Tree({<<>>})
  <2>1. IsFiniteSet({}) /\ Cardinality({}) = 0
    BY FS_EmptySet
  <2>2. IsFiniteSet({<<>>}) /\ Cardinality({<<>>}) = 1
    BY FS_Singleton
  <2> QED
    BY <1>3, <1>4, <2>1, <2>2 DEF Tree
<1> DEFINE b == [contacts |-> <<>>, cache |-> <<>>]
<1>6. b \in [contacts : List, cache : List] /\ b.contacts = <<>> /\ b.cache = <<>>
  BY EmptyIs
<1> HIDE DEF b
<1>7. Good(<<>>, b) /\ Behind(b)
  BY <1>6, EmptyIs, SizesAre DEF Good, Behind
<1> QED
  BY <1>1, <1>5, <1>7 DEF Sound, AllBehind, b

-----------------------------------------------------------------------------
(* Theorems *)

\* The table of KadRtNode.h by itself: whatever is added and removed, every distance leads to one
\* bucket, and each node is in the bucket where AddNode and RemoveNode look for it.
THEOREM RtCorrect == RtSpec => [](RtTypeOK /\ TableIsSound)
<1>1. RtInit => Sound(table)
  BY SoundAtFirst
<1>2. Sound(table) /\ [RtNext]_table => Sound(table)'
  <2> SUFFICES ASSUME Sound(table), [RtNext]_table PROVE Sound(table')
    OBVIOUS
  <2>1. ASSUME NEW id \in Ids, AddNode(id) PROVE Sound(table')
    BY <2>1, AddNodeKeeps DEF Keeps
  <2>2. ASSUME NEW id \in Ids, RemoveNode(id) PROVE Sound(table')
    BY <2>2, RemoveKeeps
  <2>3. CASE UNCHANGED table
    BY <2>3
  <2> QED
    BY <2>1, <2>2, <2>3 DEF RtNext
<1>3. Sound(table) => RtTypeOK /\ TableIsSound
  BY SoundIs
<1> QED
  BY <1>1, <1>2, <1>3, PTL DEF RtSpec

\* In KadOpMgr, where contacts fail and answer but are never removed, each node is held once, a cache
\* stands behind full contacts only, and no contact is forgotten before it is stale.
THEOREM NodeCorrect == NodeSpec => [](RtTypeOK /\ TableIsSound /\ OneEntryPerId /\ CacheBehindFull) /\ NoLiveContactForgotten
<1> DEFINE I == Sound(table) /\ AllBehind(table)
<1>1. RtInit => I
  BY SoundAtFirst
<1>2. I /\ [NodeNext]_table => I' /\ Contacts \subseteq Contacts'
  <2> SUFFICES ASSUME Sound(table), AllBehind(table), [NodeNext]_table
               PROVE  Sound(table') /\ AllBehind(table') /\ ContactsOf(table) \subseteq ContactsOf(table')
    BY DEF Contacts, ContactsOf
  <2>1. ASSUME NEW id \in Ids, AddNode(id) PROVE Keeps(table, table')
    BY <2>1, AddNodeKeeps
  <2>2. ASSUME Note PROVE Keeps(table, table')
    BY <2>2, NoteKeeps
  <2>3. CASE UNCHANGED table
    BY <2>3
  <2> QED
    BY <2>1, <2>2, <2>3 DEF NodeNext, Keeps
<1>3. I => RtTypeOK /\ TableIsSound /\ OneEntryPerId /\ CacheBehindFull
  BY SoundIs, BehindIs
<1>4. I /\ [NodeNext]_table => [LiveContacts \subseteq Contacts']_table
  BY <1>2 DEF LiveContacts
<1> HIDE DEF I
<1> QED
  BY <1>1, <1>2, <1>3, <1>4, PTL DEF NodeSpec, NoLiveContactForgotten

\* The delay of Join starts at the response timeout.
Delays == IsFiniteSet(Ids) /\ TIMEOUT_RESPONSE <= DELAY_MAX

LEMMA JoinStep ==
    ASSUME Delays, NEW ids \in SUBSET Ids, Sound(table), AllBehind(table), JoinTypeOK, JoinNextOver(ids)
    PROVE  Keeps(table, table') /\ JoinTypeOK'
<1>1. Keeps(table, table)
  BY DEF Keeps
<1>2. Cardinality(Ids) \in Nat /\ CountContacts \in 0 .. Cardinality(Ids)
  <2>1. \A p \in DOMAIN table : table[p].contacts \in List
    BY DEF Sound, Good
  <2>2. Contacts \in SUBSET Ids
    BY <2>1, HeldIn DEF Contacts
  <2>3. IsFiniteSet(Contacts) /\ Cardinality(Contacts) <= Cardinality(Ids)
    BY <2>2, FS_Subset DEF Delays
  <2>4. Cardinality(Contacts) \in Nat /\ Cardinality(Ids) \in Nat
    BY <2>3, FS_CardinalityType DEF Delays
  <2> QED
    BY <2>3, <2>4 DEF CountContacts
<1>3. ID_BITS \in Nat \ {0} /\ TIMEOUT_RESPONSE \in Nat \ {0} /\ DELAY_MAX \in Nat
  BY IdBitsAssumption, DelayAssumption
<1>4. CASE JoinStart
  BY <1>1, <1>2, <1>4 DEF JoinStart, JoinTypeOK, refreshVars
<1>5. CASE JoinPing
  BY <1>1, <1>5 DEF JoinPing, JoinTypeOK, refreshVars
<1>6. CASE JoinWake
  <2>1. delay' \in TIMEOUT_RESPONSE .. DELAY_MAX
    BY <1>3, <1>6 DEF JoinWake, JoinTypeOK, Backoff
  <2> QED
    BY <1>1, <1>2, <1>6, <2>1 DEF JoinWake, JoinTypeOK, Recount, refreshVars
<1>7. CASE JoinFind
  BY <1>1, <1>7 DEF JoinFind, JoinTypeOK, refreshVars
<1>8. CASE JoinFindComplete
  BY <1>1, <1>3, <1>8 DEF JoinFindComplete, JoinTypeOK, joinVars
<1>9. CASE RefreshStep
  <2>1. \A i, rnd : rnd \in KadId => Target(i, rnd) \in KadId
    BY DEF Target, KadId, Bit
  <2>2. PICK rnd \in KadId : searched' = searched \cup {Target(level, rnd)}
    BY <1>9 DEF RefreshStep
  <2>3. searched' \subseteq KadId
    BY <2>1, <2>2 DEF JoinTypeOK
  <2>4. level' \in 0 .. ID_BITS
    BY <1>3, <1>9 DEF RefreshStep
  <2> QED
    BY <1>1, <1>9, <2>3, <2>4 DEF RefreshStep, JoinTypeOK, joinVars
<1>10. CASE RefreshAgain
  BY <1>1, <1>3, <1>10 DEF RefreshAgain, JoinTypeOK, joinVars
<1>11. ASSUME NEW id \in ids, Receive(id) PROVE Keeps(table, table') /\ JoinTypeOK'
  <2>1. Keeps(table, table')
    BY <1>11, ReceiveKeeps
  <2>2. UNCHANGED <<joinVars, self, refreshVars>>
    BY <1>11 DEF Receive
  <2> QED
    BY <2>1, <2>2 DEF JoinTypeOK, joinVars, refreshVars
<1>12. ASSUME NEW id \in ids, Learn(id) PROVE Keeps(table, table') /\ JoinTypeOK'
  <2>1. Keeps(table, table')
    BY <1>12, AddNodeKeeps DEF Learn
  <2>2. UNCHANGED <<joinVars, self, refreshVars>>
    BY <1>12 DEF Learn
  <2> QED
    BY <2>1, <2>2 DEF JoinTypeOK, joinVars, refreshVars
<1>13. CASE LookupNote
  <2>1. Keeps(table, table')
    BY <1>13, NoteKeeps DEF LookupNote
  <2>2. UNCHANGED <<joinVars, self, refreshVars>>
    BY <1>13 DEF LookupNote
  <2> QED
    BY <2>1, <2>2 DEF JoinTypeOK, joinVars, refreshVars
<1> QED
  BY <1>4, <1>5, <1>6, <1>7, <1>8, <1>9, <1>10, <1>11, <1>12, <1>13 DEF JoinNextOver

LEMMA JoinAtFirst == ASSUME Delays, JoinInit PROVE Sound(table) /\ AllBehind(table) /\ JoinTypeOK
<1>1. RtInit
  BY DEF JoinInit, RtInit
<1>2. JoinTypeOK
  <2>1. Cardinality(Ids) \in Nat
    BY FS_CardinalityType DEF Delays
  <2> QED
    BY <2>1, IdBitsAssumption, DelayAssumption DEF JoinInit, JoinTypeOK, Delays
<1> QED
  BY <1>1, <1>2, SoundAtFirst

\* The table of a node that joins: Join's thread, the listener and the refresh meet at it.
THEOREM JoinCorrect ==
    ASSUME Delays
    PROVE  JoinSpec => [](JoinTypeOK /\ RtTypeOK /\ TableIsSound /\ OneEntryPerId /\ CacheBehindFull)
<1> DEFINE I == Sound(table) /\ AllBehind(table) /\ JoinTypeOK
<1>1. JoinInit => I
  BY JoinAtFirst
<1>2. I /\ [JoinNext]_tableVars => I'
  <2> SUFFICES ASSUME I, [JoinNext]_tableVars PROVE Sound(table') /\ AllBehind(table') /\ JoinTypeOK'
    OBVIOUS
  <2>1. CASE JoinNext
    <3>1. Keeps(table, table') /\ JoinTypeOK'
      BY <2>1, JoinStep DEF JoinNext
    <3> QED
      BY <3>1 DEF Keeps
  <2>2. CASE UNCHANGED tableVars
    BY <2>2 DEF tableVars, JoinTypeOK
  <2> QED
    BY <2>1, <2>2
<1>3. I => JoinTypeOK /\ RtTypeOK /\ TableIsSound /\ OneEntryPerId /\ CacheBehindFull
  BY SoundIs, BehindIs
<1> HIDE DEF I
<1> QED
  BY <1>1, <1>2, <1>3, PTL DEF JoinSpec

\* The three uses of the table together, as they are run.
TableInv ==
    /\ part \in {"class", "node", "join"} /\ JoinTypeOK /\ Sound(table)
    /\ part # "class" => AllBehind(table)

LEMMA TableStep ==
    ASSUME Delays, JoinIds \subseteq Ids, TableInv, [TableNext]_<<tableVars, part>>
    PROVE  /\ TableInv'
           /\ part # "class" => Contacts \subseteq Contacts'
           /\ part = "class" => KeepsOrder \/ UNCHANGED table
<1> USE DEF TableInv
<1> SUFFICES /\ part' = part /\ JoinTypeOK' /\ Sound(table')
             /\ part # "class" => AllBehind(table') /\ ContactsOf(table) \subseteq ContactsOf(table')
             /\ part = "class" => KeepsOrder \/ UNCHANGED table
  BY DEF Contacts, ContactsOf
<1>1. CASE part = "class" /\ RtNext /\ UNCHANGED <<part, joinVars, self, refreshVars>>
  <2>1. JoinTypeOK'
    BY <1>1 DEF JoinTypeOK, joinVars, refreshVars
  <2>2. ASSUME NEW id \in Ids, AddNode(id) PROVE Sound(table') /\ KeepsOrder
    <3>1. Sound(table') /\ \A r \in DOMAIN table' : \E p \in DOMAIN table : Comes(table[p], table'[r], id)
      BY <2>2, AddNodeKeeps DEF Keeps
    <3>2. id \in {x \in Ids : AddNode(x)}
      BY <2>2
    <3>3. \A p \in DOMAIN table, r \in DOMAIN table' :
              Moved(table[p].contacts, table'[r].contacts) \cup Moved(table[p].cache, table'[r].cache) \subseteq {id}
      BY <3>1, OrderIs
    <3> QED
      BY <3>1, <3>2, <3>3 DEF KeepsOrder
  <2>3. ASSUME NEW id \in Ids, RemoveNode(id) PROVE Sound(table') /\ KeepsOrder
    <3>1. Sound(table') /\ \A r \in DOMAIN table' : \E p \in DOMAIN table : \A x : Comes(table[p], table'[r], x)
      BY <2>3, RemoveKeeps
    <3>2. ASSUME NEW z, NEW p \in DOMAIN table, NEW r \in DOMAIN table'
          PROVE  Moved(table[p].contacts, table'[r].contacts) \cup Moved(table[p].cache, table'[r].cache) \subseteq {z}
      <4>1. \A q \in DOMAIN table' : \E o \in DOMAIN table : Comes(table[o], table'[q], z)
        BY <3>1
      <4> QED
        BY <4>1, OrderIs
    <3>3. ASSUME NEW p \in DOMAIN table, NEW r \in DOMAIN table'
          PROVE  Moved(table[p].contacts, table'[r].contacts) \cup Moved(table[p].cache, table'[r].cache) = {}
      <4> DEFINE M == Moved(table[p].contacts, table'[r].contacts) \cup Moved(table[p].cache, table'[r].cache)
      <4>1. M \subseteq {0} /\ M \subseteq {1}
        BY <3>2
      <4> HIDE DEF M
      <4>2. M = {}
        BY <4>1
      <4> QED
        BY <4>2 DEF M
    <3> QED
      BY <3>1, <3>3 DEF KeepsOrder
  <2> QED
    BY <1>1, <2>1, <2>2, <2>3 DEF RtNext
<1>2. CASE part = "node" /\ NodeNext /\ UNCHANGED <<part, joinVars, self, refreshVars>>
  <2>1. JoinTypeOK'
    BY <1>2 DEF JoinTypeOK, joinVars, refreshVars
  <2>2. Keeps(table, table')
    BY <1>2, AddNodeKeeps, NoteKeeps DEF NodeNext
  <2> QED
    BY <1>2, <2>1, <2>2 DEF Keeps
<1>3. CASE part = "join" /\ JoinNextOver(JoinIds) /\ UNCHANGED part
  <2>1. Keeps(table, table') /\ JoinTypeOK'
    BY <1>3, JoinStep
  <2> QED
    BY <1>3, <2>1 DEF Keeps
<1>4. CASE UNCHANGED <<tableVars, part>>
  BY <1>4 DEF tableVars, JoinTypeOK
<1> QED
  BY <1>1, <1>2, <1>3, <1>4 DEF TableNext

THEOREM TableInvariant == ASSUME Delays, JoinIds \subseteq Ids PROVE TableSpec => []TableInv
<1>1. TableInit => TableInv
  BY JoinAtFirst DEF TableInit, TableInv
<1>2. TableInv /\ [TableNext]_<<tableVars, part>> => TableInv'
  BY TableStep
<1> QED
  BY <1>1, <1>2, PTL DEF TableSpec

\* In all three, the buckets divide the space and hold every node where it is looked for; without
\* RemoveNode each node is held once, and a cache is behind full contacts that cannot be split.
THEOREM TableCorrect == ASSUME Delays, JoinIds \subseteq Ids PROVE TableSpec => []TableIsSoundAlways
<1>1. TableInv => TableIsSoundAlways
  BY SoundIs, BehindIs DEF TableInv, TableIsSoundAlways
<1> QED
  BY <1>1, TableInvariant, PTL

\* Only the node that is added changes its place in a list, and without RemoveNode no contact is
\* lost before it is stale.
THEOREM TableKeepsNodes == ASSUME Delays, JoinIds \subseteq Ids PROVE TableSpec => NodesAreKept
<1>1. TableInv /\ [TableNext]_<<tableVars, part>> => [part = "class" => KeepsOrder]_<<table, part>>
  <2> SUFFICES ASSUME TableInv, [TableNext]_<<tableVars, part>> PROVE (part = "class" => KeepsOrder) \/ UNCHANGED <<table, part>>
    OBVIOUS
  <2>1. part = "class" => KeepsOrder \/ UNCHANGED table
    BY TableStep
  <2>2. part' = part
    BY DEF TableNext
  <2> QED
    BY <2>1, <2>2
<1>2. TableInv /\ [TableNext]_<<tableVars, part>> => [part # "class" => LiveContacts \subseteq Contacts']_<<table, part>>
  <2>1. LiveContacts \subseteq Contacts
    BY DEF LiveContacts
  <2>2. TableInv /\ [TableNext]_<<tableVars, part>> => (part # "class" => Contacts \subseteq Contacts')
    BY TableStep
  <2> QED
    BY <2>1, <2>2
<1> QED
  BY <1>1, <1>2, TableInvariant, PTL DEF TableSpec, NodesAreKept
=============================================================================
