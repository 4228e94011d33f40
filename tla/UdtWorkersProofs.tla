-------------------------- MODULE UdtWorkersProofs --------------------------
(***************************************************************************)
(* The heap of the sending thread, the list and the hash of the receiving  *)
(* one, for any sockets, any bounds and any number of buckets: proofs for  *)
(* UdtSndQueue and UdtRcvQueue as MCUdtWorkers composes them.              *)
(***************************************************************************)
EXTENDS MCUdtWorkers, Sequences, FiniteSetTheorems, WellFoundedInduction, TLAPS

-----------------------------------------------------------------------------
(* Loops *)

\* What holds at first and from each turn to the next holds at every turn.
LEMMA EveryTurn ==
    ASSUME NEW G, NEW n \in Nat, NEW f, f[0] \in G, \A k \in 1 .. n : f[k - 1] \in G => f[k] \in G
    PROVE  \A k \in 0 .. n : f[k] \in G
<1> DEFINE B == {k \in 0 .. n : f[k] \notin G}
<1>1. SUFFICES ASSUME B # {} PROVE FALSE
  OBVIOUS
<1>2. B \subseteq Nat
  OBVIOUS
<1>3. PICK k \in B : \A j \in B : <<j, k>> \notin OpToRel(<, Nat)
  BY <1>1, <1>2, WFMin, NatLessThanWellFounded
<1>4. k \in 0 .. n /\ f[k] \notin G /\ k \in Nat
  OBVIOUS
<1>5. k # 0 /\ k \in 1 .. n /\ k - 1 \in 0 .. n /\ k - 1 \in Nat /\ k - 1 < k
  BY <1>4
<1>6. f[k - 1] \notin G
  BY <1>4, <1>5
<1>7. k - 1 \in B
  BY <1>5, <1>6
<1>8. <<k - 1, k>> \in OpToRel(<, Nat)
  BY <1>4, <1>5 DEF OpToRel
<1> QED
  BY <1>3, <1>7, <1>8

\* f is the course of a loop of n turns that begins with x.
Course(f, x, g, n) == f = [k \in 0 .. n |-> IF k = 0 THEN x ELSE g[f[k - 1]]]

\* Every such loop has a course.
LEMMA CourseExists ==
    ASSUME NEW G, NEW g \in [G -> G], NEW x \in G, NEW n \in Nat
    PROVE  \E f \in [0 .. n -> G] : Course(f, x, g, n)
<1> DEFINE B == {m \in 0 .. n : ~ \E f \in [0 .. m -> G] : Course(f, x, g, m)}
<1>1. SUFFICES ASSUME B # {} PROVE FALSE
  OBVIOUS
<1>2. B \subseteq Nat
  OBVIOUS
<1>3. PICK m \in B : \A j \in B : <<j, m>> \notin OpToRel(<, Nat)
  BY <1>1, <1>2, WFMin, NatLessThanWellFounded
<1>4. m \in 0 .. n /\ m \in Nat /\ ~ \E f \in [0 .. m -> G] : Course(f, x, g, m)
  OBVIOUS
<1>5. m # 0
  <2>1. SUFFICES ASSUME m = 0 PROVE FALSE
    OBVIOUS
  <2> DEFINE f == [k \in 0 .. 0 |-> x]
  <2>2. f \in [0 .. 0 -> G] /\ f = [k \in 0 .. 0 |-> IF k = 0 THEN x ELSE g[f[k - 1]]]
    OBVIOUS
  <2>3. f \in [0 .. 0 -> G] /\ Course(f, x, g, 0)
    BY <2>2 DEF Course
  <2> QED
    BY <1>4, <2>1, <2>3
<1>6. m - 1 \in Nat /\ m - 1 \in 0 .. n /\ m - 1 < m
  BY <1>4, <1>5
<1>7. <<m - 1, m>> \in OpToRel(<, Nat)
  BY <1>4, <1>6 DEF OpToRel
<1>8. m - 1 \notin B
  BY <1>3, <1>7
<1>9. PICK f \in [0 .. m - 1 -> G] : Course(f, x, g, m - 1)
  BY <1>6, <1>8
<1> DEFINE h == [k \in 0 .. m |-> IF k = m THEN g[f[m - 1]] ELSE f[k]]
<1>10. f \in [0 .. m - 1 -> G]
  BY <1>9
<1>11. g[f[m - 1]] \in G
  BY <1>6, <1>10
<1>12. h \in [0 .. m -> G]
  <2>1. ASSUME NEW k \in 0 .. m PROVE h[k] \in G
    BY <1>4, <1>6, <1>10, <1>11, <2>1
  <2> QED
    BY <2>1
<1>13. f = [k \in 0 .. m - 1 |-> IF k = 0 THEN x ELSE g[f[k - 1]]]
  BY <1>9 DEF Course
<1>14. ASSUME NEW k \in 0 .. m PROVE h[k] = IF k = 0 THEN x ELSE g[h[k - 1]]
  <2>1. CASE k = m
    <3>1. k # 0 /\ k - 1 \in 0 .. m /\ k - 1 # m /\ h[k - 1] = f[m - 1] /\ h[k] = g[f[m - 1]]
      BY <1>4, <1>5, <2>1
    <3> QED
      BY <3>1
  <2>2. CASE k # m
    <3>1. k \in 0 .. m - 1 /\ h[k] = f[k] /\ (k # 0 => k - 1 \in 0 .. m /\ k - 1 # m)
      BY <1>4, <2>2
    <3>2. k # 0 => h[k - 1] = f[k - 1]
      BY <3>1
    <3>3. f[k] = IF k = 0 THEN x ELSE g[f[k - 1]]
      BY <1>13, <3>1
    <3> QED
      BY <3>1, <3>2, <3>3
  <2> QED
    BY <2>1, <2>2
<1>15. h = [k \in 0 .. m |-> IF k = 0 THEN x ELSE g[h[k - 1]]]
  BY <1>14
<1>16. Course(h, x, g, m)
  BY <1>15 DEF Course
<1> QED
  BY <1>4, <1>12, <1>16
-----------------------------------------------------------------------------
(* The heap of the sending thread *)

\* The nodes of a list know their places, and only those on it have one.
PlacesKnown(L) ==
    /\ L = [heap |-> L.heap, ts |-> L.ts, loc |-> L.loc]
    /\ L.heap \in Seq(Senders) /\ L.loc \in [Senders -> Int]
    /\ \A i \in 1 .. Len(L.heap) : L.loc[L.heap[i]] = i - 1
    /\ \A u \in Senders : L.loc[u] >= 0 => L.loc[u] < Len(L.heap) /\ L.heap[L.loc[u] + 1] = u

\* The same sockets are on both lists.
SameSockets(L, M) ==
    /\ M.ts = L.ts /\ Len(M.heap) = Len(L.heap)
    /\ \A u \in Senders : M.loc[u] >= 0 <=> L.loc[u] >= 0

\* Two entries that are exchanged keep the places known.
LEMMA SwapKeeps ==
    ASSUME NEW L, PlacesKnown(L), NEW i \in 0 .. Len(L.heap) - 1, NEW j \in 0 .. Len(L.heap) - 1, i # j
    PROVE  PlacesKnown(SndQueue!Swap(L, i, j)) /\ SameSockets(L, SndQueue!Swap(L, i, j))
<1> DEFINE a == L.heap[i + 1]
           b == L.heap[j + 1]
           M == SndQueue!Swap(L, i, j)
<1>1. /\ L.heap \in Seq(Senders) /\ L.loc \in [Senders -> Int] /\ Len(L.heap) \in Nat
      /\ \A k \in 1 .. Len(L.heap) : L.loc[L.heap[k]] = k - 1 /\ L.heap[k] \in Senders
      /\ \A u \in Senders : L.loc[u] >= 0 => L.loc[u] < Len(L.heap) /\ L.heap[L.loc[u] + 1] = u
  BY DEF PlacesKnown
<1>2. i + 1 \in 1 .. Len(L.heap) /\ j + 1 \in 1 .. Len(L.heap) /\ i + 1 # j + 1 /\ i \in Int /\ j \in Int
      /\ i >= 0 /\ j >= 0 /\ i < Len(L.heap) /\ j < Len(L.heap)
  BY <1>1
<1>3. a \in Senders /\ b \in Senders /\ L.loc[a] = i /\ L.loc[b] = j /\ a # b
  BY <1>1, <1>2
<1>4. M = [heap |-> [L.heap EXCEPT ![i + 1] = b, ![j + 1] = a], ts |-> L.ts, loc |-> [L.loc EXCEPT ![b] = i, ![a] = j]]
  BY DEF SndQueue!Swap, SndQueue!Node
<1> HIDE DEF a, b, M
<1>5. /\ M = [heap |-> M.heap, ts |-> M.ts, loc |-> M.loc] /\ M.ts = L.ts
      /\ M.heap = [L.heap EXCEPT ![i + 1] = b, ![j + 1] = a]
      /\ M.loc = [L.loc EXCEPT ![b] = i, ![a] = j]
  BY <1>4
<1>6. M.heap \in Seq(Senders) /\ Len(M.heap) = Len(L.heap)
  <2>1. [L.heap EXCEPT ![i + 1] = b] \in Seq(Senders) /\ Len([L.heap EXCEPT ![i + 1] = b]) = Len(L.heap)
    BY <1>1, <1>2, <1>3
  <2> QED
    BY <1>1, <1>2, <1>3, <1>5, <2>1
<1>7. M.heap[i + 1] = b /\ M.heap[j + 1] = a /\ \A k \in 1 .. Len(L.heap) : k # i + 1 /\ k # j + 1 => M.heap[k] = L.heap[k]
  <2>1. DOMAIN L.heap = 1 .. Len(L.heap)
    BY <1>1
  <2> QED
    BY <1>2, <1>5, <2>1
<1>8. M.loc \in [Senders -> Int] /\ M.loc[a] = j /\ M.loc[b] = i /\ \A u \in Senders : u # a /\ u # b => M.loc[u] = L.loc[u]
  BY <1>1, <1>2, <1>3, <1>5
<1>9. ASSUME NEW k \in 1 .. Len(M.heap) PROVE M.loc[M.heap[k]] = k - 1
  <2>1. CASE k = i + 1
    BY <1>2, <1>7, <1>8, <2>1
  <2>2. CASE k = j + 1
    BY <1>2, <1>7, <1>8, <2>2
  <2>3. CASE k # i + 1 /\ k # j + 1
    <3>1. k \in 1 .. Len(L.heap) /\ M.heap[k] = L.heap[k] /\ L.heap[k] \in Senders /\ L.loc[L.heap[k]] = k - 1
      BY <1>1, <1>6, <1>7, <2>3
    <3>2. k - 1 # i /\ k - 1 # j
      BY <1>2, <2>3, <3>1
    <3>3. L.heap[k] # a /\ L.heap[k] # b
      BY <1>3, <3>1, <3>2
    <3> QED
      BY <1>8, <3>1, <3>3
  <2> QED
    BY <2>1, <2>2, <2>3
<1>10. ASSUME NEW u \in Senders
       PROVE  /\ M.loc[u] >= 0 <=> L.loc[u] >= 0
              /\ M.loc[u] >= 0 => M.loc[u] < Len(M.heap) /\ M.heap[M.loc[u] + 1] = u
  <2>1. CASE u = a
    <3>1. M.loc[u] = j /\ L.loc[u] = i /\ M.heap[j + 1] = u
      BY <1>3, <1>7, <1>8, <2>1
    <3> QED
      BY <1>2, <1>6, <3>1
  <2>2. CASE u = b
    <3>1. M.loc[u] = i /\ L.loc[u] = j /\ M.heap[i + 1] = u
      BY <1>3, <1>7, <1>8, <2>2
    <3> QED
      BY <1>2, <1>6, <3>1
  <2>3. CASE u # a /\ u # b
    <3>1. M.loc[u] = L.loc[u]
      BY <1>8, <2>3
    <3>2. ASSUME L.loc[u] >= 0 PROVE L.loc[u] < Len(L.heap) /\ M.heap[L.loc[u] + 1] = u
      <4>1. L.loc[u] < Len(L.heap) /\ L.heap[L.loc[u] + 1] = u /\ L.loc[u] \in Int
        BY <1>1, <3>2
      <4>2. L.loc[u] + 1 \in 1 .. Len(L.heap)
        <5>1. Len(L.heap) \in Nat
          BY <1>1
        <5> QED
          BY <3>2, <4>1, <5>1
      <4>3. L.loc[u] + 1 # i + 1 /\ L.loc[u] + 1 # j + 1
        BY <2>3, <4>1 DEF a, b
      <4> QED
        BY <1>7, <4>1, <4>2, <4>3
    <3> QED
      BY <1>6, <3>1, <3>2
  <2> QED
    BY <2>1, <2>2, <2>3
<1> QED
  BY <1>5, <1>6, <1>8, <1>9, <1>10 DEF PlacesKnown, SameSockets, M

\* What a loop of insert_ or remove_ may have made of the list L: the same sockets, in other places.
Sifted(L) ==
    {s \in [list : [heap : Seq(Senders), ts : {L.ts}, loc : [Senders -> Int]], at : Nat] :
        PlacesKnown(s.list) /\ SameSockets(L, s.list)}

LEMMA UpKeeps ==
    ASSUME NEW L, PlacesKnown(L), NEW s \in Sifted(L), s.at < Len(L.heap)
    PROVE  SndQueue!Up(s) \in Sifted(L) /\ SndQueue!Up(s).at < Len(L.heap)
<1> DEFINE p == (s.at - 1) \div 2
<1>1. PlacesKnown(s.list) /\ SameSockets(L, s.list) /\ s.at \in Nat /\ Len(L.heap) \in Nat /\ Len(s.list.heap) = Len(L.heap)
  BY DEF Sifted, SameSockets, PlacesKnown
<1>2. CASE ~(s.at # 0 /\ SndQueue!TimeAt(s.list, p) > SndQueue!TimeAt(s.list, s.at))
  BY <1>2 DEF SndQueue!Up
<1>3. CASE s.at # 0 /\ SndQueue!TimeAt(s.list, p) > SndQueue!TimeAt(s.list, s.at)
  <2> DEFINE M == SndQueue!Swap(s.list, p, s.at)
  <2>1. SndQueue!Up(s) = [list |-> M, at |-> p]
    BY <1>3 DEF SndQueue!Up
  <2>2. p \in 0 .. Len(L.heap) - 1 /\ s.at \in 0 .. Len(L.heap) - 1 /\ p # s.at
    BY <1>1, <1>3
  <2>3. PlacesKnown(M) /\ SameSockets(s.list, M)
    BY <1>1, <2>2, SwapKeeps
  <2> HIDE DEF M, p
  <2>4. SameSockets(L, M)
    BY <1>1, <2>3 DEF SameSockets
  <2>5. M \in [heap : Seq(Senders), ts : {L.ts}, loc : [Senders -> Int]]
    <3>1. M = [heap |-> M.heap, ts |-> M.ts, loc |-> M.loc] /\ M.heap \in Seq(Senders) /\ M.loc \in [Senders -> Int]
      BY <2>3 DEF PlacesKnown
    <3>2. M.ts \in {L.ts}
      BY <2>4 DEF SameSockets
    <3> QED
      BY <3>1, <3>2
  <2>6. p \in Nat /\ p < Len(L.heap)
    BY <1>1, <2>2
  <2> QED
    BY <2>1, <2>3, <2>4, <2>5, <2>6 DEF Sifted
<1> QED
  BY <1>2, <1>3

LEMMA DownKeeps ==
    ASSUME NEW L, PlacesKnown(L), NEW s \in Sifted(L)
    PROVE  SndQueue!Down(s) \in Sifted(L)
<1> DEFINE l == 2 * s.at + 1
           p == IF l + 1 <= SndQueue!Last(s.list) /\ SndQueue!TimeAt(s.list, l) > SndQueue!TimeAt(s.list, l + 1) THEN l + 1 ELSE l
<1>1. PlacesKnown(s.list) /\ SameSockets(L, s.list) /\ s.at \in Nat /\ Len(L.heap) \in Nat /\ Len(s.list.heap) = Len(L.heap)
  BY DEF Sifted, SameSockets, PlacesKnown
<1>2. CASE ~(l <= SndQueue!Last(s.list) /\ SndQueue!TimeAt(s.list, s.at) > SndQueue!TimeAt(s.list, p))
  BY <1>2 DEF SndQueue!Down
<1>3. CASE l <= SndQueue!Last(s.list) /\ SndQueue!TimeAt(s.list, s.at) > SndQueue!TimeAt(s.list, p)
  <2> DEFINE M == SndQueue!Swap(s.list, s.at, p)
  <2>1. SndQueue!Down(s) = [list |-> M, at |-> p]
    BY <1>3 DEF SndQueue!Down
  <2>2. SndQueue!Last(s.list) = Len(L.heap) - 1 /\ l \in Nat /\ s.at < l /\ (p = l \/ (p = l + 1 /\ l + 1 <= SndQueue!Last(s.list)))
    BY <1>1 DEF SndQueue!Last
  <2> HIDE DEF l
  <2>3. p \in 0 .. Len(L.heap) - 1 /\ s.at \in 0 .. Len(L.heap) - 1 /\ p # s.at /\ p \in Nat
    BY <1>1, <1>3, <2>2
  <2> HIDE DEF p
  <2>4. PlacesKnown(M) /\ SameSockets(s.list, M)
    BY <1>1, <2>3, SwapKeeps
  <2> HIDE DEF M
  <2>5. SameSockets(L, M)
    BY <1>1, <2>4 DEF SameSockets
  <2>6. M \in [heap : Seq(Senders), ts : {L.ts}, loc : [Senders -> Int]]
    <3>1. M = [heap |-> M.heap, ts |-> M.ts, loc |-> M.loc] /\ M.heap \in Seq(Senders) /\ M.loc \in [Senders -> Int]
      BY <2>4 DEF PlacesKnown
    <3>2. M.ts \in {L.ts}
      BY <2>5 DEF SameSockets
    <3> QED
      BY <3>1, <3>2
  <2> QED
    BY <2>1, <2>3, <2>4, <2>5, <2>6 DEF Sifted
<1> QED
  BY <1>2, <1>3

LEMMA SiftDownKeeps ==
    ASSUME NEW L, PlacesKnown(L), NEW q \in Nat
    PROVE  PlacesKnown(SndQueue!SiftDown(L, q)) /\ SameSockets(L, SndQueue!SiftDown(L, q))
<1> DEFINE G == Sifted(L)
           x == [list |-> L, at |-> q]
           n == Len(L.heap)
           run == CHOOSE f : f = [k \in 0 .. n |-> IF k = 0 THEN x ELSE SndQueue!Down(f[k - 1])]
<1>1. n \in Nat /\ x \in G
  BY DEF PlacesKnown, SameSockets, Sifted
<1>2. \A s \in G : SndQueue!Down(s) \in G
  BY DownKeeps
<1>3. SndQueue!SiftDown(L, q) = run[n].list
  BY Zenon DEF SndQueue!SiftDown
<1> HIDE DEF G, n, x
<1>4. run = [k \in 0 .. n |-> IF k = 0 THEN x ELSE SndQueue!Down(run[k - 1])]
  <2> DEFINE g == [s \in G |-> SndQueue!Down(s)]
  <2>1. g \in [G -> G]
    BY <1>2
  <2>2. \A s \in G : g[s] = SndQueue!Down(s)
    OBVIOUS
  <2> HIDE DEF g
  <2>3. PICK f \in [0 .. n -> G] : Course(f, x, g, n)
    BY <1>1, <2>1, CourseExists
  <2>4. ASSUME NEW k \in 0 .. n, k # 0 PROVE g[f[k - 1]] = SndQueue!Down(f[k - 1])
    <3>1. k - 1 \in 0 .. n
      BY <1>1, <2>4
    <3> QED
      BY <2>2, <3>1
  <2>5. f = [k \in 0 .. n |-> IF k = 0 THEN x ELSE SndQueue!Down(f[k - 1])]
    BY <2>3, <2>4 DEF Course
  <2> QED
    BY <2>5, Zenon
<1> HIDE DEF run
<1>5. run[0] \in G
  BY <1>1, <1>4
<1>6. \A k \in 1 .. n : run[k - 1] \in G => run[k] \in G
  BY <1>1, <1>2, <1>4
<1>7. run[n] \in G
  <2>1. \A k \in 0 .. n : run[k] \in G
    BY <1>1, <1>5, <1>6, EveryTurn
  <2> QED
    BY <1>1, <2>1
<1> QED
  BY <1>3, <1>7 DEF G, Sifted

LEMMA SiftUpKeeps ==
    ASSUME NEW L, PlacesKnown(L), NEW q \in Nat, q < Len(L.heap)
    PROVE  PlacesKnown(SndQueue!SiftUp(L, q)) /\ SameSockets(L, SndQueue!SiftUp(L, q))
<1> DEFINE G == {s \in Sifted(L) : s.at < Len(L.heap)}
           x == [list |-> L, at |-> q]
           run == CHOOSE f : f = [k \in 0 .. q |-> IF k = 0 THEN x ELSE SndQueue!Up(f[k - 1])]
<1>1. x \in G
  BY DEF PlacesKnown, SameSockets, Sifted
<1>2. \A s \in G : SndQueue!Up(s) \in G
  BY UpKeeps
<1>3. SndQueue!SiftUp(L, q) = run[q].list
  BY Zenon DEF SndQueue!SiftUp
<1> HIDE DEF G, x
<1>4. run = [k \in 0 .. q |-> IF k = 0 THEN x ELSE SndQueue!Up(run[k - 1])]
  <2> DEFINE g == [s \in G |-> SndQueue!Up(s)]
  <2>1. g \in [G -> G]
    BY <1>2
  <2>2. \A s \in G : g[s] = SndQueue!Up(s)
    OBVIOUS
  <2> HIDE DEF g
  <2>3. PICK f \in [0 .. q -> G] : Course(f, x, g, q)
    BY <1>1, <2>1, CourseExists
  <2>4. ASSUME NEW k \in 0 .. q, k # 0 PROVE g[f[k - 1]] = SndQueue!Up(f[k - 1])
    <3>1. k - 1 \in 0 .. q
      BY <2>4
    <3> QED
      BY <2>2, <3>1
  <2>5. f = [k \in 0 .. q |-> IF k = 0 THEN x ELSE SndQueue!Up(f[k - 1])]
    BY <2>3, <2>4 DEF Course
  <2> QED
    BY <2>5, Zenon
<1> HIDE DEF run
<1>5. run[0] \in G
  BY <1>1, <1>4
<1>6. \A k \in 1 .. q : run[k - 1] \in G => run[k] \in G
  BY <1>2, <1>4
<1>7. run[q] \in G
  <2>1. \A k \in 0 .. q : run[k] \in G
    BY <1>5, <1>6, EveryTurn
  <2> QED
    BY <2>1
<1> QED
  BY <1>3, <1>7 DEF G, Sifted

LEMMA InsertKeeps ==
    ASSUME NEW L, PlacesKnown(L), NEW ts, NEW u \in Senders
    PROVE  /\ PlacesKnown(SndQueue!insert_(L, ts, u))
           /\ \A v \in Senders : SndQueue!insert_(L, ts, u).loc[v] >= 0 <=> L.loc[v] >= 0 \/ v = u
<1> DEFINE n == Len(L.heap)
           M == [heap |-> Append(L.heap, u), ts |-> [L.ts EXCEPT ![u] = ts], loc |-> [L.loc EXCEPT ![u] = n]]
<1>1. /\ L.heap \in Seq(Senders) /\ L.loc \in [Senders -> Int] /\ n \in Nat
      /\ \A k \in 1 .. n : L.loc[L.heap[k]] = k - 1 /\ L.heap[k] \in Senders
      /\ \A v \in Senders : L.loc[v] >= 0 => L.loc[v] < n /\ L.heap[L.loc[v] + 1] = v
  BY DEF PlacesKnown
<1>2. CASE L.loc[u] >= 0
  BY <1>2 DEF SndQueue!insert_
<1>3. CASE ~(L.loc[u] >= 0)
  <2>1. SndQueue!insert_(L, ts, u) = SndQueue!SiftUp(M, n)
    BY <1>3 DEF SndQueue!insert_
  <2>2. /\ M = [heap |-> M.heap, ts |-> M.ts, loc |-> M.loc]
        /\ M.heap = Append(L.heap, u) /\ M.loc = [L.loc EXCEPT ![u] = n]
    OBVIOUS
  <2> HIDE DEF n, M
  <2>3. /\ M.heap \in Seq(Senders) /\ Len(M.heap) = n + 1 /\ M.heap[n + 1] = u
        /\ \A k \in 1 .. n : M.heap[k] = L.heap[k]
    BY <1>1, <2>2 DEF n
  <2>4. M.loc \in [Senders -> Int] /\ M.loc[u] = n /\ \A v \in Senders : v # u => M.loc[v] = L.loc[v]
    BY <1>1, <2>2
  <2>5. ASSUME NEW k \in 1 .. Len(M.heap) PROVE M.loc[M.heap[k]] = k - 1
    <3>1. CASE k = n + 1
      BY <1>1, <2>3, <2>4, <3>1
    <3>2. CASE k # n + 1
      <4>1. k \in 1 .. n
        BY <1>1, <2>3, <3>2
      <4>2. L.loc[L.heap[k]] = k - 1 /\ L.heap[k] \in Senders /\ k - 1 >= 0
        BY <1>1, <4>1
      <4>3. M.heap[k] = L.heap[k] /\ L.heap[k] # u
        BY <1>3, <2>3, <4>1, <4>2
      <4> QED
        BY <2>4, <4>2, <4>3
    <3> QED
      BY <3>1, <3>2
  <2>6. ASSUME NEW v \in Senders
        PROVE  M.loc[v] >= 0 => M.loc[v] < Len(M.heap) /\ M.heap[M.loc[v] + 1] = v
    <3>1. CASE v = u
      BY <1>1, <2>3, <2>4, <3>1
    <3>2. CASE v # u
      <4>1. M.loc[v] = L.loc[v] /\ L.loc[v] \in Int
        BY <1>1, <2>4, <3>2
      <4>2. ASSUME L.loc[v] >= 0 PROVE L.loc[v] < n + 1 /\ M.heap[L.loc[v] + 1] = v
        <5>1. L.loc[v] < n /\ L.heap[L.loc[v] + 1] = v
          BY <1>1, <4>2
        <5>2. L.loc[v] + 1 \in 1 .. n
          BY <1>1, <4>1, <4>2, <5>1
        <5>3. M.heap[L.loc[v] + 1] = L.heap[L.loc[v] + 1] /\ L.loc[v] < n + 1
          <6>1. \A k \in 1 .. n : M.heap[k] = L.heap[k]
            BY <2>3
          <6>2. n \in Nat
            BY <1>1
          <6> QED
            BY <4>1, <5>1, <5>2, <6>1, <6>2
        <5> QED
          BY <5>1, <5>3
      <4> QED
        BY <2>3, <4>1, <4>2
    <3> QED
      BY <3>1, <3>2
  <2>7. PlacesKnown(M)
    BY <2>2, <2>3, <2>4, <2>5, <2>6 DEF PlacesKnown
  <2>8. n < Len(M.heap)
    BY <1>1, <2>3
  <2>9. PlacesKnown(SndQueue!SiftUp(M, n)) /\ SameSockets(M, SndQueue!SiftUp(M, n))
    BY <1>1, <2>7, <2>8, SiftUpKeeps
  <2> QED
    BY <1>1, <2>1, <2>4, <2>9 DEF SameSockets
<1> QED
  BY <1>2, <1>3

LEMMA RemoveKeeps ==
    ASSUME NEW L, PlacesKnown(L), NEW u \in Senders
    PROVE  /\ PlacesKnown(SndQueue!remove_(L, u))
           /\ \A v \in Senders : SndQueue!remove_(L, u).loc[v] >= 0 <=> L.loc[v] >= 0 /\ v # u
<1> DEFINE n == Len(L.heap)
           q == L.loc[u]
           moved == L.heap[n]
           M == [heap |-> SubSeq([L.heap EXCEPT ![q + 1] = moved], 1, n - 1), ts |-> L.ts,
                 loc |-> [L.loc EXCEPT ![moved] = q, ![u] = -1]]
<1>1. /\ L.heap \in Seq(Senders) /\ L.loc \in [Senders -> Int] /\ n \in Nat /\ q \in Int
      /\ \A k \in 1 .. n : L.loc[L.heap[k]] = k - 1 /\ L.heap[k] \in Senders
      /\ \A v \in Senders : L.loc[v] >= 0 => L.loc[v] < n /\ L.heap[L.loc[v] + 1] = v
  BY DEF PlacesKnown
<1>2. CASE q < 0
  BY <1>1, <1>2 DEF SndQueue!remove_
<1>3. CASE ~(q < 0)
  <2>1. SndQueue!remove_(L, u) = SndQueue!SiftDown(M, q)
    <3>1. n - 1 + 1 = n
      BY <1>1
    <3> QED
      BY <1>3, <3>1 DEF SndQueue!remove_, SndQueue!Last, SndQueue!Node
  <2>2. /\ M = [heap |-> M.heap, ts |-> M.ts, loc |-> M.loc]
        /\ M.heap = SubSeq([L.heap EXCEPT ![q + 1] = moved], 1, n - 1)
        /\ M.loc = [L.loc EXCEPT ![moved] = q, ![u] = -1]
    OBVIOUS
  <2> HIDE DEF M
  <2>3. q \in Nat /\ q < n /\ L.heap[q + 1] = u /\ n \in 1 .. n /\ q + 1 \in 1 .. n
    BY <1>1, <1>3
  <2>4. moved \in Senders /\ L.loc[moved] = n - 1
    BY <1>1, <2>3
  <2>5. /\ M.heap \in Seq(Senders) /\ Len(M.heap) = n - 1
        /\ \A k \in 1 .. n - 1 : M.heap[k] = IF k = q + 1 THEN moved ELSE L.heap[k]
    <3> DEFINE h == [L.heap EXCEPT ![q + 1] = moved]
    <3>1. h \in Seq(Senders) /\ Len(h) = n /\ \A k \in 1 .. n : h[k] = IF k = q + 1 THEN moved ELSE L.heap[k]
      BY <1>1, <2>3, <2>4
    <3>2. M.heap = SubSeq(h, 1, n - 1)
      BY <2>2
    <3> HIDE DEF h
    <3>3. n - 1 \in 0 .. n /\ n - 1 \in Nat
      BY <2>3, <1>1
    <3>4. M.heap \in Seq(Senders) /\ Len(M.heap) = n - 1 /\ \A k \in 1 .. n - 1 : M.heap[k] = h[k]
      BY <1>1, <3>1, <3>2, <3>3
    <3>5. \A k \in 1 .. n - 1 : k \in 1 .. n
      BY <1>1
    <3> QED
      BY <3>1, <3>4, <3>5
  <2>6. /\ M.loc \in [Senders -> Int] /\ M.loc[u] = -1 /\ (u # moved => M.loc[moved] = q)
        /\ \A v \in Senders : v # u /\ v # moved => M.loc[v] = L.loc[v]
    BY <1>1, <2>2, <2>4
  <2> HIDE DEF n, q, moved
  <2>7. ASSUME NEW k \in 1 .. Len(M.heap) PROVE M.loc[M.heap[k]] = k - 1
    <3>0. k \in 1 .. n - 1 /\ k \in 1 .. n
      BY <1>1, <2>5
    <3>1. CASE k = q + 1
      <4>1. M.heap[k] = moved
        BY <2>5, <3>0, <3>1
      <4>2. L.heap[k] = u /\ L.loc[u] = q
        BY <2>3, <3>1 DEF q
      <4>3. moved # u
        BY <1>1, <2>3, <2>4, <3>0, <3>1, <4>2
      <4> QED
        BY <2>3, <2>6, <3>1, <4>1, <4>3
    <3>2. CASE k # q + 1
      <4>1. M.heap[k] = L.heap[k]
        BY <2>5, <3>0, <3>2
      <4>2. L.loc[L.heap[k]] = k - 1 /\ L.heap[k] \in Senders
        BY <1>1, <3>0
      <4>3. L.heap[k] # u /\ L.heap[k] # moved
        <5>1. k - 1 # q /\ k - 1 # n - 1
          BY <1>1, <2>3, <3>0, <3>2
        <5> QED
          BY <2>4, <4>2, <5>1 DEF q
      <4> QED
        BY <2>6, <4>1, <4>2, <4>3
    <3> QED
      BY <3>1, <3>2
  <2>8. ASSUME NEW v \in Senders
        PROVE  /\ M.loc[v] >= 0 => M.loc[v] < Len(M.heap) /\ M.heap[M.loc[v] + 1] = v
               /\ M.loc[v] >= 0 <=> L.loc[v] >= 0 /\ v # u
    <3>1. CASE v = u
      BY <2>6, <3>1
    <3>2. CASE v # u /\ v = moved
      <4>1. M.loc[v] = q /\ L.loc[v] = n - 1
        BY <2>4, <2>6, <3>2
      <4>2. q # n - 1
        <5>1. q = n - 1 => L.heap[n] = u
          BY <1>1, <2>3
        <5> QED
          BY <3>2, <5>1 DEF moved
      <4>3. q + 1 \in 1 .. n - 1 /\ q < n - 1
        BY <1>1, <2>3, <4>2
      <4>4. M.heap[q + 1] = moved
        BY <2>5, <4>3
      <4> QED
        BY <1>1, <2>3, <2>5, <3>2, <4>1, <4>3, <4>4
    <3>3. CASE v # u /\ v # moved
      <4>1. M.loc[v] = L.loc[v] /\ L.loc[v] \in Int
        BY <1>1, <2>6, <3>3
      <4>2. ASSUME L.loc[v] >= 0 PROVE L.loc[v] < n - 1 /\ M.heap[L.loc[v] + 1] = v
        <5>1. L.loc[v] < n /\ L.heap[L.loc[v] + 1] = v
          BY <1>1, <4>2
        <5>2. L.loc[v] # n - 1
          <6>1. L.loc[v] = n - 1 => L.heap[n] = v
            BY <1>1, <5>1
          <6> QED
            BY <3>3, <6>1 DEF moved
        <5>3. L.loc[v] + 1 \in 1 .. n - 1 /\ L.loc[v] < n - 1
          BY <1>1, <4>1, <4>2, <5>1, <5>2
        <5>4. L.loc[v] + 1 # q + 1
          <6>1. L.loc[v] + 1 = q + 1 => L.heap[q + 1] = v
            BY <5>1
          <6> QED
            BY <2>3, <3>3, <6>1
        <5> QED
          BY <2>5, <5>1, <5>3, <5>4
      <4> QED
        BY <2>5, <3>3, <4>1, <4>2
    <3> QED
      BY <3>1, <3>2, <3>3
  <2>9. PlacesKnown(M)
    BY <2>2, <2>5, <2>6, <2>7, <2>8 DEF PlacesKnown
  <2>10. PlacesKnown(SndQueue!SiftDown(M, q)) /\ SameSockets(M, SndQueue!SiftDown(M, q))
    BY <2>3, <2>9, SiftDownKeeps
  <2> QED
    BY <2>1, <2>8, <2>10 DEF SameSockets
<1> QED
  BY <1>2, <1>3

LEMMA UpdateKeeps ==
    ASSUME NEW L, PlacesKnown(L), NEW u \in Senders, NEW reschedule
    PROVE  /\ PlacesKnown(SndQueue!update(L, u, reschedule))
           /\ \A v \in Senders : SndQueue!update(L, u, reschedule).loc[v] >= 0 <=> L.loc[v] >= 0 \/ v = u
<1>1. CASE L.loc[u] >= 0 /\ ~reschedule
  BY <1>1 DEF SndQueue!update
<1>2. CASE ~(L.loc[u] >= 0 /\ ~reschedule) /\ L.loc[u] = 0
  <2> DEFINE M == [L EXCEPT !.ts[u] = 1]
  <2>1. SndQueue!update(L, u, reschedule) = M
    BY <1>2 DEF SndQueue!update
  <2>2. L = [heap |-> L.heap, ts |-> L.ts, loc |-> L.loc]
    BY DEF PlacesKnown
  <2>3. M = [heap |-> M.heap, ts |-> M.ts, loc |-> M.loc] /\ M.heap = L.heap /\ M.loc = L.loc
    BY <2>2
  <2> HIDE DEF M
  <2> QED
    BY <1>2, <2>1, <2>3 DEF PlacesKnown
<1>3. CASE ~(L.loc[u] >= 0 /\ ~reschedule) /\ L.loc[u] # 0
  <2> DEFINE R == SndQueue!remove_(L, u)
  <2>1. SndQueue!update(L, u, reschedule) = SndQueue!insert_(R, 1, u)
    BY <1>3 DEF SndQueue!update
  <2>2. PlacesKnown(R) /\ \A v \in Senders : R.loc[v] >= 0 <=> L.loc[v] >= 0 /\ v # u
    BY RemoveKeeps
  <2> HIDE DEF R
  <2>3. /\ PlacesKnown(SndQueue!insert_(R, 1, u))
        /\ \A v \in Senders : SndQueue!insert_(R, 1, u).loc[v] >= 0 <=> R.loc[v] >= 0 \/ v = u
    BY <2>2, InsertKeeps
  <2> QED
    BY <2>1, <2>2, <2>3
<1> QED
  BY <1>1, <1>2, <1>3

Fields == {"left", "data", "flight", "losses", "todo", "closed"}

\* The sending thread: the places are known and nobody is forgotten.
SendingInv ==
    /\ PlacesKnown(list)
    /\ DOMAIN socket = Senders /\ \A u \in Senders : DOMAIN socket[u] = Fields
    /\ SndQueue!NobodyIsForgotten

LEMMA SendingAtFirst == SndQueue!SndQueueInit => SendingInv
<1> SUFFICES ASSUME SndQueue!SndQueueInit PROVE SendingInv
  OBVIOUS
<1>1. /\ list.heap = <<>> /\ list.loc = [u \in Senders |-> -1]
      /\ list = [heap |-> list.heap, ts |-> list.ts, loc |-> list.loc]
  BY DEF SndQueue!SndQueueInit, SndQueue!EmptyList
<1>2. PlacesKnown(list)
  <2>1. <<>> \in Seq(Senders) /\ Len(<<>>) = 0
    OBVIOUS
  <2>2. \A i \in 1 .. 0 : FALSE
    OBVIOUS
  <2>3. [u \in Senders |-> -1] \in [Senders -> Int] /\ \A u \in Senders : ~([v \in Senders |-> -1][u] >= 0)
    OBVIOUS
  <2> QED
    BY <1>1, <2>1, <2>2, <2>3 DEF PlacesKnown
<1>3. DOMAIN socket = Senders /\ \A u \in Senders : DOMAIN socket[u] = Fields /\ socket[u].data = 0
  BY DEF SndQueue!SndQueueInit, Fields
<1>4. sender = "top" /\ \A u \in Senders : ~(socket[u].data > 0)
  <2>1. sender = "top"
    BY DEF SndQueue!SndQueueInit
  <2>2. ASSUME NEW u \in Senders PROVE ~(socket[u].data > 0)
    <3>1. socket[u].data = 0
      BY <1>3
    <3> QED
      BY <3>1
  <2> QED
    BY <2>1, <2>2
<1>5. SndQueue!NobodyIsForgotten
  BY <1>4 DEF SndQueue!NobodyIsForgotten
<1> QED
  BY <1>2, <1>3, <1>5 DEF SendingInv

\* What one socket does alone: nobody is forgotten when a thread is about to update its list.
LEMMA SocketStepKeeps ==
    ASSUME SendingInv, NEW u \in Senders, NEW r, DOMAIN r = Fields, r.todo # "",
           socket' = [socket EXCEPT ![u] = r], UNCHANGED <<list, now, sender, signalled>>
    PROVE  SendingInv'
<1>1. /\ DOMAIN socket' = Senders /\ socket'[u] = r
      /\ \A v \in Senders : v # u => socket'[v] = socket[v]
  BY DEF SendingInv
<1>2. PlacesKnown(list)'
  BY DEF SendingInv, PlacesKnown
<1>3. \A v \in Senders : DOMAIN socket'[v] = Fields
  BY <1>1 DEF SendingInv
<1>4. SndQueue!NobodyIsForgotten'
  BY <1>1 DEF SendingInv, SndQueue!NobodyIsForgotten, SndQueue!OnHeap
<1> QED
  BY <1>1, <1>2, <1>3, <1>4 DEF SendingInv

\* A list that keeps the sockets of the others, after which one is on it, or need not be.
LEMMA ListStepKeeps ==
    ASSUME SendingInv, NEW u \in Senders, NEW r, DOMAIN r = Fields,
           socket' = [socket EXCEPT ![u] = r], PlacesKnown(list)',
           \A v \in Senders : v # u => (list'.loc[v] >= 0 <=> list.loc[v] >= 0),
           r.data > 0 /\ r.flight < MaxWindow /\ ~r.closed => list'.loc[u] >= 0 \/ r.todo # "",
           sender' = "wait" => list'.heap = <<>> \/ signalled'
    PROVE  SendingInv'
<1>1. /\ DOMAIN socket' = Senders /\ socket'[u] = r
      /\ \A v \in Senders : v # u => socket'[v] = socket[v]
  BY DEF SendingInv
<1>3. \A v \in Senders : DOMAIN socket'[v] = Fields
  BY <1>1 DEF SendingInv
<1>4. SndQueue!NobodyIsForgotten'
  BY <1>1 DEF SendingInv, SndQueue!NobodyIsForgotten, SndQueue!OnHeap
<1> QED
  BY <1>1, <1>3, <1>4 DEF SendingInv

\* The worker's steps that leave the list and the sockets alone.
LEMMA WorkerStepKeeps ==
    ASSUME SendingInv, UNCHANGED <<list, now, socket>>, sender' = "wait" => list'.heap = <<>> \/ signalled'
    PROVE  SendingInv'
  BY DEF SendingInv, PlacesKnown, SndQueue!NobodyIsForgotten, SndQueue!OnHeap

\* The first entry leaves the heap, and comes back for a later time when it has sent a packet.
LEMMA PopKeeps ==
    ASSUME SendingInv, SndQueue!pop
    PROVE  SendingInv'
<1>1. sender' = "top" /\ signalled' = signalled
  BY DEF SndQueue!pop
<1>2. CASE list.heap = <<>>
  <2>1. UNCHANGED <<list, now, socket>>
    BY <1>2 DEF SndQueue!pop
  <2> QED
    BY <1>1, <2>1, WorkerStepKeeps
<1>3. CASE list.heap # <<>>
  <2> DEFINE u == SndQueue!Node(list, 0)
             sends == socket[u].data > 0 /\ socket[u].flight < MaxWindow
  <2>1. u \in Senders
    BY <1>3 DEF SendingInv, PlacesKnown, SndQueue!Node
  <2>2. CASE ~sends \/ socket[u].closed
    <3>1. list' = SndQueue!remove_(list, u) /\ socket' = socket
      BY <1>3, <2>2 DEF SndQueue!pop
    <3> HIDE DEF u
    <3>2. PlacesKnown(list') /\ \A v \in Senders : list'.loc[v] >= 0 <=> list.loc[v] >= 0 /\ v # u
      BY <2>1, <3>1, RemoveKeeps DEF SendingInv
    <3>3. SndQueue!NobodyIsForgotten'
      BY <1>1, <2>2, <3>1, <3>2 DEF SendingInv, SndQueue!NobodyIsForgotten, SndQueue!OnHeap
    <3> QED
      BY <3>1, <3>2, <3>3 DEF SendingInv, PlacesKnown
  <2>3. CASE ~(~sends \/ socket[u].closed)
    <3> DEFINE r == [socket[u] EXCEPT !.data = @ - 1, !.flight = @ + 1]
    <3>1. /\ \E ts \in now' + 1 .. MaxTime \cup {MaxTime} : list' = SndQueue!insert_(SndQueue!remove_(list, u), ts, u)
          /\ socket' = [socket EXCEPT ![u] = r]
      BY <1>3, <2>3 DEF SndQueue!pop
    <3>2. PICK ts : list' = SndQueue!insert_(SndQueue!remove_(list, u), ts, u)
      BY <3>1
    <3>3. DOMAIN r = Fields
      BY <2>1 DEF SendingInv
    <3> HIDE DEF u, r
    <3> DEFINE R == SndQueue!remove_(list, u)
    <3>4. PlacesKnown(R) /\ \A v \in Senders : R.loc[v] >= 0 <=> list.loc[v] >= 0 /\ v # u
      BY <2>1, RemoveKeeps DEF SendingInv
    <3>5. list' = SndQueue!insert_(R, ts, u)
      BY <3>2
    <3> HIDE DEF R
    <3>6. PlacesKnown(list') /\ \A v \in Senders : list'.loc[v] >= 0 <=> R.loc[v] >= 0 \/ v = u
      BY <2>1, <3>4, <3>5, InsertKeeps
    <3>7. /\ PlacesKnown(list)' /\ list'.loc[u] >= 0
          /\ \A v \in Senders : v # u => (list'.loc[v] >= 0 <=> list.loc[v] >= 0)
      BY <2>1, <3>4, <3>6 DEF PlacesKnown
    <3>8. sender' # "wait"
      BY <1>1
    <3> QED
      BY <2>1, <3>1, <3>3, <3>7, <3>8, ListStepKeeps
  <2> QED
    BY <2>2, <2>3
<1> QED
  BY <1>2, <1>3

LEMMA SendingStep ==
    ASSUME SendingInv, SndQueue!SndQueueNext
    PROVE  SendingInv'
<1>1. ASSUME NEW u \in Senders, SndQueue!addBuffer(u) PROVE SendingInv'
  <2> DEFINE r == [socket[u] EXCEPT !.left = @ - 1, !.data = @ + 1, !.todo = "send"]
  <2>1. socket' = [socket EXCEPT ![u] = r] /\ UNCHANGED <<list, now, sender, signalled>>
    BY <1>1 DEF SndQueue!addBuffer
  <2>2. DOMAIN r = Fields /\ r.todo # ""
    BY DEF SendingInv, Fields
  <2> QED
    BY <2>1, <2>2, SocketStepKeeps
<1>2. ASSUME NEW u \in Senders, SndQueue!Acknowledged(u) PROVE SendingInv'
  <2> DEFINE r == [socket[u] EXCEPT !.flight = 0, !.todo = "ack"]
  <2>1. socket' = [socket EXCEPT ![u] = r] /\ UNCHANGED <<list, now, sender, signalled>>
    BY <1>2 DEF SndQueue!Acknowledged, SendingInv
  <2>2. DOMAIN r = Fields /\ r.todo # ""
    BY DEF SendingInv, Fields
  <2> QED
    BY <2>1, <2>2, SocketStepKeeps
<1>3. ASSUME NEW u \in Senders, SndQueue!Lost(u) PROVE SendingInv'
  <2> DEFINE r == [socket[u] EXCEPT !.data = @ + socket[u].flight, !.flight = 0, !.losses = @ + 1, !.todo = "loss"]
  <2>1. socket' = [socket EXCEPT ![u] = r] /\ UNCHANGED <<list, now, sender, signalled>>
    BY <1>3 DEF SndQueue!Lost
  <2>2. DOMAIN r = Fields /\ r.todo # ""
    BY DEF SendingInv, Fields
  <2> QED
    BY <2>1, <2>2, SocketStepKeeps
<1>4. ASSUME NEW u \in Senders, SndQueue!Update(u) PROVE SendingInv'
  <2> DEFINE r == [socket[u] EXCEPT !.todo = ""]
             L == SndQueue!update(list, u, socket[u].todo = "loss")
  <2>1. socket' = [socket EXCEPT ![u] = r] /\ sender' = sender /\ SndQueue!Changed(L)
    BY <1>4 DEF SndQueue!Update, SendingInv
  <2>2. DOMAIN r = Fields
    BY DEF SendingInv
  <2> HIDE DEF r
  <2>3. PlacesKnown(L) /\ \A v \in Senders : L.loc[v] >= 0 <=> list.loc[v] >= 0 \/ v = u
    BY UpdateKeeps DEF SendingInv
  <2> HIDE DEF L
  <2>4. list' = L /\ (sender' = "wait" => list'.heap = <<>> \/ signalled')
    BY <2>1 DEF SndQueue!Changed, SendingInv, SndQueue!NobodyIsForgotten
  <2>5. PlacesKnown(list)'
    BY <2>3, <2>4 DEF PlacesKnown
  <2> QED
    BY <2>1, <2>2, <2>3, <2>4, <2>5, ListStepKeeps
<1>5. ASSUME NEW u \in Senders, SndQueue!close(u) PROVE SendingInv'
  <2> DEFINE r == [socket[u] EXCEPT !.closed = TRUE]
             L == SndQueue!remove_(list, u)
  <2>1. socket' = [socket EXCEPT ![u] = r] /\ sender' = sender /\ SndQueue!Changed(L)
    BY <1>5 DEF SndQueue!close, SendingInv
  <2>2. DOMAIN r = Fields /\ r.closed
    BY DEF SendingInv, Fields
  <2> HIDE DEF r
  <2>3. PlacesKnown(L) /\ \A v \in Senders : L.loc[v] >= 0 <=> list.loc[v] >= 0 /\ v # u
    BY RemoveKeeps DEF SendingInv
  <2> HIDE DEF L
  <2>4. list' = L /\ (sender' = "wait" => list'.heap = <<>> \/ signalled')
    BY <2>1 DEF SndQueue!Changed, SendingInv, SndQueue!NobodyIsForgotten
  <2>5. PlacesKnown(list)'
    BY <2>3, <2>4 DEF PlacesKnown
  <2> QED
    BY <2>1, <2>2, <2>3, <2>4, <2>5, ListStepKeeps
<1>6. ASSUME SndQueue!getNextProcTime PROVE SendingInv'
  BY <1>6, WorkerStepKeeps DEF SndQueue!getNextProcTime
<1>7. ASSUME SndQueue!Park PROVE SendingInv'
  BY <1>7, WorkerStepKeeps DEF SndQueue!Park
<1>8. ASSUME SndQueue!WakeUp PROVE SendingInv'
  BY <1>8, WorkerStepKeeps DEF SndQueue!WakeUp
<1>9. ASSUME SndQueue!NotYet PROVE SendingInv'
  BY <1>9, WorkerStepKeeps DEF SndQueue!NotYet
<1> QED
  BY <1>1, <1>2, <1>3, <1>4, <1>5, <1>6, <1>7, <1>8, <1>9, PopKeeps DEF SndQueue!SndQueueNext

-----------------------------------------------------------------------------
(* Sequences *)

Member(u, s) == \E i \in 1 .. Len(s) : s[i] = u
Distinct(s) == \A i \in 1 .. Len(s) : \A j \in 1 .. Len(s) : s[i] = s[j] => i = j

\* RemoveAt takes one entry out and keeps the order of the others.
LEMMA RemoveAtIs ==
    ASSUME NEW S, NEW s \in Seq(S), NEW i \in 1 .. Len(s)
    PROVE  /\ RcvQueue!RemoveAt(s, i) \in Seq(S)
           /\ Len(RcvQueue!RemoveAt(s, i)) = Len(s) - 1
           /\ \A k \in 1 .. Len(s) - 1 : RcvQueue!RemoveAt(s, i)[k] = s[IF k < i THEN k ELSE k + 1]
<1> DEFINE a == SubSeq(s, 1, i - 1)
           b == SubSeq(s, i + 1, Len(s))
<1>1. Len(s) \in Nat /\ i \in Nat /\ i >= 1 /\ i <= Len(s)
  OBVIOUS
<1>2. a \in Seq(S) /\ Len(a) = i - 1 /\ \A k \in 1 .. i - 1 : a[k] = s[k]
  BY <1>1
<1>3. b \in Seq(S) /\ Len(b) = Len(s) - i /\ \A k \in 1 .. Len(s) - i : b[k] = s[i + k]
  BY <1>1
<1>4. RcvQueue!RemoveAt(s, i) = a \o b
  BY DEF RcvQueue!RemoveAt
<1> HIDE DEF a, b
<1>5. a \o b \in Seq(S) /\ Len(a \o b) = Len(s) - 1
  <2>1. a \o b \in Seq(S) /\ Len(a \o b) = Len(a) + Len(b)
    <3>1. a \in Seq(S) /\ b \in Seq(S)
      BY <1>2, <1>3
    <3> QED
      BY <3>1
  <2>2. Len(a) + Len(b) = Len(s) - 1
    BY <1>1, <1>2, <1>3
  <2> QED
    BY <2>1, <2>2
<1>6. ASSUME NEW k \in 1 .. Len(s) - 1 PROVE (a \o b)[k] = s[IF k < i THEN k ELSE k + 1]
  <2>1. CASE k < i
    <3>1. k \in 1 .. Len(a) /\ k \in 1 .. i - 1
      BY <1>1, <1>2, <2>1
    <3> QED
      BY <1>2, <1>3, <2>1, <3>1
  <2>2. CASE ~(k < i)
    <3>1. k \in Len(a) + 1 .. Len(a) + Len(b) /\ k - Len(a) \in 1 .. Len(s) - i /\ i + (k - Len(a)) = k + 1
      BY <1>1, <1>2, <1>3, <2>2
    <3>2. (a \o b)[k] = b[k - Len(a)]
      BY <1>2, <1>3, <3>1
    <3> QED
      BY <1>3, <2>2, <3>1, <3>2
  <2> QED
    BY <2>1, <2>2
<1> QED
  BY <1>4, <1>5, <1>6

\* Whoever is in the rest was in the sequence, at another place than i; and all the others are.
LEMMA RemoveAtKeeps ==
    ASSUME NEW S, NEW s \in Seq(S), NEW i \in 1 .. Len(s)
    PROVE  LET r == RcvQueue!RemoveAt(s, i)
           IN  /\ \A k \in 1 .. Len(r) : \E j \in 1 .. Len(s) : j # i /\ r[k] = s[j]
               /\ \A j \in 1 .. Len(s) : j # i => \E k \in 1 .. Len(r) : r[k] = s[j]
<1> DEFINE r == RcvQueue!RemoveAt(s, i)
<1>1. Len(s) \in Nat /\ i \in Nat /\ i >= 1 /\ i <= Len(s)
  OBVIOUS
<1>2. Len(r) = Len(s) - 1 /\ \A k \in 1 .. Len(s) - 1 : r[k] = s[IF k < i THEN k ELSE k + 1]
  BY RemoveAtIs
<1> HIDE DEF r
<1>3. ASSUME NEW k \in 1 .. Len(r) PROVE \E j \in 1 .. Len(s) : j # i /\ r[k] = s[j]
  <2>1. k \in 1 .. Len(s) - 1 /\ r[k] = s[IF k < i THEN k ELSE k + 1]
    BY <1>2
  <2>2. CASE k < i
    <3>1. k \in 1 .. Len(s) /\ k # i /\ r[k] = s[k]
      BY <1>1, <2>1, <2>2
    <3> QED
      BY <3>1
  <2>3. CASE ~(k < i)
    <3>1. k + 1 \in 1 .. Len(s) /\ k + 1 # i /\ r[k] = s[k + 1]
      BY <1>1, <2>1, <2>3
    <3> QED
      BY <3>1
  <2> QED
    BY <2>2, <2>3
<1>4. ASSUME NEW j \in 1 .. Len(s), j # i PROVE \E k \in 1 .. Len(r) : r[k] = s[j]
  <2>1. CASE j < i
    <3>1. j \in 1 .. Len(r)
      BY <1>1, <1>2, <2>1
    <3>2. r[j] = s[j]
      BY <1>2, <2>1, <3>1
    <3> QED
      BY <3>1, <3>2
  <2>2. CASE ~(j < i)
    <3>1. j - 1 \in 1 .. Len(r) /\ ~(j - 1 < i) /\ j - 1 + 1 = j
      BY <1>1, <1>2, <1>4, <2>2
    <3>2. r[j - 1] = s[j]
      BY <1>2, <3>1
    <3> QED
      BY <3>1, <3>2
  <2> QED
    BY <2>1, <2>2
<1> QED
  BY <1>3, <1>4 DEF r

\* What a function tells apart in a sequence, it tells apart in the rest.
LEMMA RemoveAtDistinct ==
    ASSUME NEW S, NEW s \in Seq(S), NEW i \in 1 .. Len(s), NEW f,
           \A k \in 1 .. Len(s) : \A j \in 1 .. Len(s) : f[s[k]] = f[s[j]] => k = j
    PROVE  LET r == RcvQueue!RemoveAt(s, i)
           IN  \A k \in 1 .. Len(r) : \A j \in 1 .. Len(r) : f[r[k]] = f[r[j]] => k = j
<1> DEFINE r == RcvQueue!RemoveAt(s, i)
           at(k) == IF k < i THEN k ELSE k + 1
<1>1. Len(s) \in Nat /\ i \in Nat /\ i >= 1 /\ i <= Len(s)
  OBVIOUS
<1>2. Len(r) = Len(s) - 1 /\ \A k \in 1 .. Len(s) - 1 : r[k] = s[at(k)]
  BY RemoveAtIs
<1> HIDE DEF r
<1>3. SUFFICES ASSUME NEW k \in 1 .. Len(r), NEW j \in 1 .. Len(r), f[r[k]] = f[r[j]] PROVE k = j
  BY DEF r
<1>4. at(k) \in 1 .. Len(s) /\ at(j) \in 1 .. Len(s) /\ (at(k) = at(j) => k = j)
  BY <1>1, <1>2
<1>5. r[k] = s[at(k)] /\ r[j] = s[at(j)]
  BY <1>2
<1> HIDE DEF at
<1> QED
  BY <1>3, <1>4, <1>5

\* RemoveFirst takes one entry of e out, if there is one.
LEMMA RemoveFirstKeeps ==
    ASSUME NEW S, NEW s \in Seq(S), NEW e
    PROVE  LET r == RcvQueue!RemoveFirst(s, e)
           IN  /\ r \in Seq(S)
               /\ \A v : Member(v, r) => Member(v, s)
               /\ \A v : Member(v, s) /\ v # e => Member(v, r)
               /\ Distinct(s) => Distinct(r) /\ ~Member(e, r)
<1> DEFINE r == RcvQueue!RemoveFirst(s, e)
<1>1. CASE ~ \E i \in 1 .. Len(s) : s[i] = e
  <2>1. r = s
    BY <1>1 DEF RcvQueue!RemoveFirst
  <2> HIDE DEF r
  <2> QED
    BY <1>1, <2>1 DEF r, Member
<1>2. CASE \E i \in 1 .. Len(s) : s[i] = e
  <2> DEFINE I == {i \in 1 .. Len(s) : s[i] = e}
             m == CHOOSE x \in I : \A y \in I : x =< y
  <2>1. r = RcvQueue!RemoveAt(s, m)
    BY <1>2 DEF RcvQueue!RemoveFirst, RcvQueue!SelectInSeq, RcvQueue!Min
  <2>2. m \in I
    <3>1. I \in SUBSET Nat /\ I # {}
      BY <1>2
    <3>2. PICK k \in I : \A j \in I : ~(<<j, k>> \in OpToRel(<, Nat))
      BY <3>1, WFMin, NatLessThanWellFounded
    <3>3. \A j \in I : j \in Nat /\ k \in Nat /\ ~(j < k)
      BY <3>1, <3>2 DEF OpToRel
    <3>4. \A y \in I : k =< y
      BY <3>3
    <3> QED
      BY <3>4
  <2> HIDE DEF m
  <2>3. m \in 1 .. Len(s) /\ s[m] = e
    BY <2>2
  <2> HIDE DEF I, r
  <2>4. r \in Seq(S) /\ Len(r) = Len(s) - 1
    BY <2>1, <2>3, RemoveAtIs
  <2>5. /\ \A k \in 1 .. Len(r) : \E j \in 1 .. Len(s) : j # m /\ r[k] = s[j]
        /\ \A j \in 1 .. Len(s) : j # m => \E k \in 1 .. Len(r) : r[k] = s[j]
    BY <2>1, <2>3, RemoveAtKeeps
  <2>6. \A v : Member(v, r) => Member(v, s)
    BY <2>5 DEF Member
  <2>7. \A v : Member(v, s) /\ v # e => Member(v, r)
    BY <2>3, <2>5 DEF Member
  <2>8. ASSUME Distinct(s) PROVE Distinct(r) /\ ~Member(e, r)
    <3>1. ~Member(e, r)
      BY <2>3, <2>5, <2>8 DEF Member, Distinct
    <3> DEFINE f == [v \in S |-> v]
    <3>2. \A k \in 1 .. Len(s) : s[k] \in S
      OBVIOUS
    <3>3. \A k \in 1 .. Len(s) : \A j \in 1 .. Len(s) : f[s[k]] = f[s[j]] => k = j
      BY <2>8, <3>2 DEF Distinct
    <3>4. \A v \in S : f[v] = v
      OBVIOUS
    <3> HIDE DEF f
    <3>5. \A k \in 1 .. Len(r) : \A j \in 1 .. Len(r) : f[r[k]] = f[r[j]] => k = j
      BY <2>1, <2>3, <3>3, RemoveAtDistinct
    <3>6. \A k \in 1 .. Len(r) : r[k] \in S
      BY <2>4
    <3>7. Distinct(r)
      BY <3>4, <3>5, <3>6 DEF Distinct
    <3> QED
      BY <3>1, <3>7
  <2> QED
    BY <2>4, <2>6, <2>7, <2>8 DEF r
<1> QED
  BY <1>1, <1>2

LEMMA AppendKeeps ==
    ASSUME NEW S, NEW s \in Seq(S), NEW e \in S
    PROVE  /\ Append(s, e) \in Seq(S)
           /\ \A v : Member(v, Append(s, e)) <=> Member(v, s) \/ v = e
           /\ Distinct(s) /\ ~Member(e, s) => Distinct(Append(s, e))
<1> DEFINE r == Append(s, e)
           n == Len(s)
<1>1. /\ r \in Seq(S) /\ n \in Nat /\ Len(r) = n + 1 /\ r[n + 1] = e /\ \A k \in 1 .. n : r[k] = s[k]
  OBVIOUS
<1>2. 1 .. n + 1 = 1 .. n \cup {n + 1} /\ n + 1 \in 1 .. n + 1
  BY <1>1
<1> HIDE DEF r, n
<1>3. \A v : Member(v, r) <=> Member(v, s) \/ v = e
  <2>1. \A k \in 1 .. n : k \in 1 .. n + 1
    BY <1>2
  <2>2. ASSUME NEW v, Member(v, s) \/ v = e PROVE Member(v, r)
    BY <1>1, <1>2, <2>1, <2>2 DEF Member, n
  <2>3. ASSUME NEW v, Member(v, r) PROVE Member(v, s) \/ v = e
    <3>1. PICK k \in 1 .. n + 1 : r[k] = v
      BY <1>1, <2>3 DEF Member
    <3>2. CASE k \in 1 .. n
      BY <1>1, <3>1, <3>2 DEF Member, n
    <3>3. CASE k = n + 1
      BY <1>1, <3>1, <3>3
    <3> QED
      BY <1>2, <3>2, <3>3
  <2> QED
    BY <2>2, <2>3
<1>4. ASSUME Distinct(s), ~Member(e, s), NEW i \in 1 .. n + 1, NEW j \in 1 .. n + 1, r[i] = r[j] PROVE i = j
  <2>1. CASE i \in 1 .. n /\ j \in 1 .. n
    BY <1>1, <1>4, <2>1 DEF Distinct, n
  <2>2. CASE i = n + 1 /\ j \in 1 .. n
    BY <1>1, <1>4, <2>2 DEF Member, n
  <2>3. CASE i \in 1 .. n /\ j = n + 1
    BY <1>1, <1>4, <2>3 DEF Member, n
  <2>4. CASE i = n + 1 /\ j = n + 1
    BY <2>4
  <2> QED
    BY <1>2, <2>1, <2>2, <2>3, <2>4
<1>5. Distinct(s) /\ ~Member(e, s) => Distinct(r)
  BY <1>1, <1>4 DEF Distinct
<1> QED
  BY <1>1, <1>3, <1>5 DEF r

LEMMA PrependKeeps ==
    ASSUME NEW S, NEW s \in Seq(S), NEW e \in S
    PROVE  /\ <<e>> \o s \in Seq(S)
           /\ \A v : Member(v, <<e>> \o s) <=> Member(v, s) \/ v = e
           /\ Distinct(s) /\ ~Member(e, s) => Distinct(<<e>> \o s)
<1> DEFINE r == <<e>> \o s
           n == Len(s)
<1>1. /\ r \in Seq(S) /\ n \in Nat /\ Len(r) = n + 1 /\ r[1] = e /\ \A k \in 1 .. n : r[k + 1] = s[k]
  OBVIOUS
<1>2. /\ 1 \in 1 .. n + 1 /\ \A k \in 1 .. n : k + 1 \in 1 .. n + 1
      /\ \A i \in 1 .. n + 1 : i = 1 \/ (i - 1 \in 1 .. n /\ i = i - 1 + 1)
  BY <1>1
<1> HIDE DEF r, n
<1>3. ASSUME NEW i \in 1 .. n + 1, i # 1 PROVE i - 1 \in 1 .. n /\ r[i] = s[i - 1]
  <2>1. i - 1 \in 1 .. n /\ i = i - 1 + 1
    BY <1>2, <1>3
  <2>2. r[i - 1 + 1] = s[i - 1]
    BY <1>1, <2>1
  <2> QED
    BY <2>1, <2>2
<1>4. \A v : Member(v, r) <=> Member(v, s) \/ v = e
  <2>1. ASSUME NEW v, Member(v, s) PROVE Member(v, r)
    <3>1. PICK k \in 1 .. n : s[k] = v
      BY <2>1 DEF Member, n
    <3>2. r[k + 1] = v /\ k + 1 \in 1 .. n + 1
      BY <1>1, <1>2, <3>1
    <3> QED
      BY <1>1, <3>2 DEF Member
  <2>2. Member(e, r)
    BY <1>1, <1>2 DEF Member
  <2>3. ASSUME NEW v, Member(v, r), v # e PROVE Member(v, s)
    <3>1. PICK k \in 1 .. n + 1 : r[k] = v
      BY <1>1, <2>3 DEF Member
    <3>2. k # 1
      BY <1>1, <2>3, <3>1
    <3> QED
      BY <1>3, <3>1, <3>2 DEF Member, n
  <2> QED
    BY <2>1, <2>2, <2>3
<1>5. ASSUME Distinct(s), ~Member(e, s), NEW i \in 1 .. n + 1, NEW j \in 1 .. n + 1, r[i] = r[j] PROVE i = j
  <2>1. CASE i # 1 /\ j # 1
    <3>1. i - 1 = j - 1
      BY <1>3, <1>5, <2>1 DEF Distinct, n
    <3> QED
      BY <1>1, <3>1
  <2>2. CASE i = 1 /\ j # 1
    BY <1>1, <1>3, <1>5, <2>2 DEF Member, n
  <2>3. CASE i # 1 /\ j = 1
    BY <1>1, <1>3, <1>5, <2>3 DEF Member, n
  <2>4. CASE i = 1 /\ j = 1
    BY <2>4
  <2> QED
    BY <2>1, <2>2, <2>3, <2>4
<1>6. Distinct(s) /\ ~Member(e, s) => Distinct(r)
  BY <1>1, <1>5 DEF Distinct
<1> QED
  BY <1>1, <1>4, <1>6 DEF r

LEMMA TailKeeps ==
    ASSUME NEW S, NEW s \in Seq(S), s # <<>>, Distinct(s)
    PROVE  /\ Head(s) \in S /\ Tail(s) \in Seq(S) /\ Distinct(Tail(s)) /\ ~Member(Head(s), Tail(s))
           /\ \A v : Member(v, s) <=> Member(v, Tail(s)) \/ v = Head(s)
<1> DEFINE r == Tail(s)
           n == Len(s)
<1>1. /\ n \in Nat /\ n >= 1 /\ Head(s) = s[1] /\ Head(s) \in S /\ r \in Seq(S) /\ Len(r) = n - 1
      /\ \A k \in 1 .. n - 1 : r[k] = s[k + 1]
  OBVIOUS
<1>2. \A k \in 1 .. n - 1 : k + 1 \in 1 .. n /\ k + 1 # 1
  BY <1>1
<1>3. 1 \in 1 .. n /\ \A i \in 1 .. n : i = 1 \/ (i - 1 \in 1 .. n - 1 /\ i = i - 1 + 1)
  BY <1>1
<1> HIDE DEF r, n
<1>4. ASSUME NEW i \in 1 .. n, i # 1 PROVE i - 1 \in 1 .. n - 1 /\ s[i] = r[i - 1]
  <2>1. i - 1 \in 1 .. n - 1 /\ i = i - 1 + 1
    BY <1>3, <1>4
  <2>2. r[i - 1] = s[i - 1 + 1]
    BY <1>1, <2>1
  <2> QED
    BY <2>1, <2>2
<1>5. \A v : Member(v, s) <=> Member(v, r) \/ v = Head(s)
  BY <1>1, <1>2, <1>3, <1>4 DEF Member, n
<1>6. ~Member(Head(s), r)
  BY <1>1, <1>2, <1>3 DEF Member, Distinct, n
<1>7. ASSUME NEW i \in 1 .. n - 1, NEW j \in 1 .. n - 1, r[i] = r[j] PROVE i = j
  <2>1. i + 1 = j + 1
    BY <1>1, <1>2, <1>7 DEF Distinct, n
  <2> QED
    BY <1>1, <2>1
<1>8. Distinct(r)
  BY <1>1, <1>7 DEF Distinct
<1> QED
  BY <1>1, <1>5, <1>6, <1>8 DEF r

-----------------------------------------------------------------------------
(* The list and the hash of the receiving thread *)

Entry == [u : Receivers, old : BOOLEAN]
OnTheList(u, s) == \E i \in 1 .. Len(s) : s[i].u = u

\* A list of entries, no two of one socket.
IsList(s) ==
    /\ s \in Seq(Entry)
    /\ \A i \in 1 .. Len(s) : \A j \in 1 .. Len(s) : s[i].u = s[j].u => i = j

LEMMA ListInsertKeeps ==
    ASSUME NEW s, IsList(s), NEW u \in Receivers, ~OnTheList(u, s)
    PROVE  /\ IsList(RcvQueue!ListInsert(s, u))
           /\ \A v : OnTheList(v, RcvQueue!ListInsert(s, u)) <=> OnTheList(v, s) \/ v = u
<1> DEFINE e == [u |-> u, old |-> FALSE]
           r == Append(s, e)
           n == Len(s)
<1>0. RcvQueue!ListInsert(s, u) = r
  BY DEF RcvQueue!ListInsert
<1>1. s \in Seq(Entry) /\ e \in Entry /\ e.u = u
  BY DEF IsList, Entry
<1> HIDE DEF e
<1>2. /\ r \in Seq(Entry) /\ n \in Nat /\ Len(r) = n + 1 /\ r[n + 1] = e /\ \A k \in 1 .. n : r[k] = s[k]
  BY <1>1
<1>3. 1 .. n + 1 = 1 .. n \cup {n + 1} /\ n + 1 \in 1 .. n + 1
  BY <1>2
<1> HIDE DEF r, n
<1>4. \A v : OnTheList(v, r) <=> OnTheList(v, s) \/ v = u
  BY <1>1, <1>2, <1>3 DEF OnTheList, n
<1>5. ASSUME NEW i \in 1 .. n + 1, NEW j \in 1 .. n + 1, r[i].u = r[j].u PROVE i = j
  <2>1. CASE i \in 1 .. n /\ j \in 1 .. n
    BY <1>2, <1>5, <2>1 DEF IsList, n
  <2>2. CASE i = n + 1 /\ j \in 1 .. n
    BY <1>1, <1>2, <1>5, <2>2 DEF OnTheList, n
  <2>3. CASE i \in 1 .. n /\ j = n + 1
    BY <1>1, <1>2, <1>5, <2>3 DEF OnTheList, n
  <2>4. CASE i = n + 1 /\ j = n + 1
    BY <2>4
  <2> QED
    BY <1>3, <2>1, <2>2, <2>3, <2>4
<1> QED
  BY <1>0, <1>2, <1>4, <1>5 DEF IsList

LEMMA ListRemoveKeeps ==
    ASSUME NEW s, IsList(s), NEW u \in Receivers, OnTheList(u, s)
    PROVE  /\ IsList(RcvQueue!ListRemove(s, u))
           /\ \A v : OnTheList(v, RcvQueue!ListRemove(s, u)) <=> OnTheList(v, s) /\ v # u
<1> DEFINE m == CHOOSE i \in DOMAIN s : s[i].u = u
           r == RcvQueue!RemoveAt(s, m)
<1>0. RcvQueue!ListRemove(s, u) = r
  BY DEF RcvQueue!ListRemove
<1>1. s \in Seq(Entry) /\ DOMAIN s = 1 .. Len(s)
  BY DEF IsList
<1>2. m \in 1 .. Len(s) /\ s[m].u = u
  BY <1>1 DEF OnTheList
<1> HIDE DEF m
<1>3. r \in Seq(Entry)
  BY <1>1, <1>2, RemoveAtIs
<1>4. /\ \A k \in 1 .. Len(r) : \E j \in 1 .. Len(s) : j # m /\ r[k] = s[j]
      /\ \A j \in 1 .. Len(s) : j # m => \E k \in 1 .. Len(r) : r[k] = s[j]
  BY <1>1, <1>2, RemoveAtKeeps
<1> DEFINE f == [e \in Entry |-> e.u]
<1>5. \A e \in Entry : f[e] = e.u
  OBVIOUS
<1> HIDE DEF f
<1>6. \A k \in 1 .. Len(s) : s[k] \in Entry
  BY <1>1
<1>7. \A k \in 1 .. Len(s) : \A j \in 1 .. Len(s) : f[s[k]] = f[s[j]] => k = j
  BY <1>5, <1>6 DEF IsList
<1>8. \A k \in 1 .. Len(r) : \A j \in 1 .. Len(r) : f[r[k]] = f[r[j]] => k = j
  BY <1>1, <1>2, <1>7, RemoveAtDistinct
<1> HIDE DEF r
<1>9. \A k \in 1 .. Len(r) : r[k] \in Entry
  BY <1>3
<1>10. IsList(r)
  BY <1>3, <1>5, <1>8, <1>9 DEF IsList
<1>11. ASSUME NEW v PROVE OnTheList(v, r) <=> OnTheList(v, s) /\ v # u
  <2>1. ASSUME OnTheList(v, r) PROVE OnTheList(v, s) /\ v # u
    <3>1. PICK j \in 1 .. Len(s) : j # m /\ s[j].u = v
      BY <1>4, <2>1 DEF OnTheList
    <3>2. v # u
      BY <1>2, <3>1 DEF IsList
    <3> QED
      BY <3>1, <3>2 DEF OnTheList
  <2>2. ASSUME OnTheList(v, s), v # u PROVE OnTheList(v, r)
    BY <1>2, <1>4, <2>2 DEF OnTheList
  <2> QED
    BY <2>1, <2>2
<1> QED
  BY <1>0, <1>10, <1>11

LEMMA ListUpdateKeeps ==
    ASSUME NEW s, IsList(s), NEW u \in Receivers
    PROVE  /\ IsList(RcvQueue!update(s, u))
           /\ \A v : OnTheList(v, RcvQueue!update(s, u)) <=> OnTheList(v, s)
<1>1. (\E i \in DOMAIN s : s[i].u = u) <=> OnTheList(u, s)
  BY DEF IsList, OnTheList
<1>2. CASE ~OnTheList(u, s)
  BY <1>1, <1>2 DEF RcvQueue!update
<1>3. CASE OnTheList(u, s)
  <2> DEFINE r == RcvQueue!ListRemove(s, u)
  <2>1. RcvQueue!update(s, u) = RcvQueue!ListInsert(r, u)
    BY <1>1, <1>3 DEF RcvQueue!update
  <2>2. IsList(r) /\ \A v : OnTheList(v, r) <=> OnTheList(v, s) /\ v # u
    BY <1>3, ListRemoveKeeps
  <2> HIDE DEF r
  <2>3. /\ IsList(RcvQueue!ListInsert(r, u))
        /\ \A v : OnTheList(v, RcvQueue!ListInsert(r, u)) <=> OnTheList(v, r) \/ v = u
    BY <2>2, ListInsertKeeps
  <2> QED
    BY <1>3, <2>1, <2>2, <2>3
<1> QED
  BY <1>2, <1>3

\* As many entries as sockets.
LEMMA ListCounts ==
    ASSUME NEW s, IsList(s)
    PROVE  Len(s) = Cardinality({s[i].u : i \in DOMAIN s})
<1> DEFINE n == Len(s)
           T == {s[i].u : i \in DOMAIN s}
           f == [i \in 1 .. n |-> s[i].u]
<1>1. n \in Nat /\ DOMAIN s = 1 .. n
  BY DEF IsList
<1>2. f \in Bijection(1 .. n, T)
  <2>1. f \in [1 .. n -> T]
    BY <1>1
  <2>2. \A i \in 1 .. n : \A j \in 1 .. n : f[i] = f[j] => i = j
    BY DEF IsList
  <2>3. \A t \in T : \E i \in 1 .. n : f[i] = t
    BY <1>1
  <2> QED
    BY <2>1, <2>2, <2>3, Zenon DEF Bijection, Injection, Surjection, IsInjective
<1> HIDE DEF n
<1>3. IsFiniteSet(1 .. n) /\ Cardinality(1 .. n) = n
  <2>1. n \in Int /\ 1 \in Int
    BY <1>1
  <2>2. IsFiniteSet(1 .. n) /\ Cardinality(1 .. n) = IF 1 > n THEN 0 ELSE n - 1 + 1
    BY <2>1, FS_Interval
  <2> QED
    BY <1>1, <2>2
<1>4. ExistsBijection(1 .. n, T)
  BY <1>2 DEF ExistsBijection
<1> HIDE DEF T
<1>5. Cardinality(T) = Cardinality(1 .. n)
  BY <1>3, <1>4, FS_Bijection
<1> QED
  BY <1>3, <1>5 DEF T, n

Udt == [phase : {"new", "connecting", "expired", "connected", "closed"}, async : BOOLEAN, onList : BOOLEAN]

Held ==
    /\ udt \in [Receivers -> Udt]
    /\ newEntry \in Seq(Receivers) /\ Distinct(newEntry)
    /\ IsList(rcvUList)
    /\ bucket \in [0 .. HashSize - 1 -> Seq(Receivers)]
    /\ \A b \in 0 .. HashSize - 1 : Distinct(bucket[b])
    /\ requests \in Seq(Receivers) /\ DOMAIN stored = Receivers

Hashed(u, f) == Member(u, f[u % HashSize])

\* What the queue knows of a socket: it is in the list and in the hash, or handed over, or neither,
\* and m_bOnList says so; only a socket that was connected is; and of a new one nothing is known.
Together(u) ==
    /\ OnTheList(u, rcvUList) <=> Hashed(u, bucket)
    /\ OnTheList(u, rcvUList) \/ Member(u, newEntry) <=> udt[u].onList
    /\ ~(OnTheList(u, rcvUList) /\ Member(u, newEntry))
    /\ udt[u].onList => udt[u].phase \in {"connected", "closed"}
    /\ udt[u].phase = "new" => stored[u] = <<>> /\ ~Member(u, requests) /\ storing.id # u

ReceivingInv == Held /\ \A u \in Receivers : Together(u)

LEMMA BucketIs ==
    ASSUME NEW u \in Receivers
    PROVE  u % HashSize \in 0 .. HashSize - 1 /\ u \in Nat /\ u # 0
  BY WorkersAssumption

LEMMA LookupIs ==
    ASSUME Held, NEW u \in Receivers
    PROVE  RcvQueue!lookup(u) <=> Hashed(u, bucket)
<1>1. bucket[u % HashSize] \in Seq(Receivers)
  BY BucketIs DEF Held
<1> QED
  BY <1>1 DEF RcvQueue!lookup, RcvQueue!Hash, RcvQueue!Range, Hashed, Member

LEMMA RetrieveIs ==
    ASSUME Held, NEW u \in Receivers
    PROVE  RcvQueue!retrieve(u) <=> Member(u, requests)
  BY DEF RcvQueue!retrieve, RcvQueue!Range, Member, Held

LEMMA HashInsertKeeps ==
    ASSUME Held, NEW u \in Receivers, ~Hashed(u, bucket), RcvQueue!HashInsert(u)
    PROVE  /\ bucket' \in [0 .. HashSize - 1 -> Seq(Receivers)]
           /\ \A b \in 0 .. HashSize - 1 : Distinct(bucket'[b])
           /\ \A v \in Receivers : Hashed(v, bucket') <=> Hashed(v, bucket) \/ v = u
<1> DEFINE h == u % HashSize
           s == bucket[h]
           r == <<u>> \o s
<1>1. h \in 0 .. HashSize - 1
  BY BucketIs
<1>2. s \in Seq(Receivers) /\ Distinct(s) /\ ~Member(u, s)
  BY <1>1 DEF Held, Hashed
<1>3. bucket' = [bucket EXCEPT ![h] = r]
  BY DEF RcvQueue!HashInsert, RcvQueue!Hash
<1> HIDE DEF s
<1>4. r \in Seq(Receivers) /\ Distinct(r) /\ \A v : Member(v, r) <=> Member(v, s) \/ v = u
  BY <1>2, PrependKeeps
<1> HIDE DEF r, h
<1>5. bucket'[h] = r /\ \A b \in 0 .. HashSize - 1 : b # h => bucket'[b] = bucket[b]
  BY <1>1, <1>3 DEF Held
<1>6. bucket' \in [0 .. HashSize - 1 -> Seq(Receivers)]
  BY <1>1, <1>3, <1>4 DEF Held
<1>7. \A b \in 0 .. HashSize - 1 : Distinct(bucket'[b])
  BY <1>4, <1>5 DEF Held
<1>8. ASSUME NEW v \in Receivers PROVE Hashed(v, bucket') <=> Hashed(v, bucket) \/ v = u
  <2>1. CASE v % HashSize = h
    BY <1>4, <1>5, <2>1 DEF Hashed, s
  <2>2. CASE v % HashSize # h
    <3>1. v # u /\ v % HashSize \in 0 .. HashSize - 1
      BY <2>2, BucketIs DEF h
    <3> QED
      BY <1>5, <2>2, <3>1 DEF Hashed
  <2> QED
    BY <2>1, <2>2
<1> QED
  BY <1>6, <1>7, <1>8

LEMMA HashRemoveKeeps ==
    ASSUME Held, NEW u \in Receivers, RcvQueue!HashRemove(u)
    PROVE  /\ bucket' \in [0 .. HashSize - 1 -> Seq(Receivers)]
           /\ \A b \in 0 .. HashSize - 1 : Distinct(bucket'[b])
           /\ \A v \in Receivers : Hashed(v, bucket') <=> Hashed(v, bucket) /\ v # u
<1> DEFINE h == u % HashSize
           s == bucket[h]
           r == RcvQueue!RemoveFirst(s, u)
<1>1. h \in 0 .. HashSize - 1
  BY BucketIs
<1>2. s \in Seq(Receivers) /\ Distinct(s)
  BY <1>1 DEF Held
<1>3. bucket' = [bucket EXCEPT ![h] = r]
  BY DEF RcvQueue!HashRemove, RcvQueue!Hash
<1> HIDE DEF s
<1>4. r \in Seq(Receivers) /\ Distinct(r) /\ \A v : Member(v, r) <=> Member(v, s) /\ v # u
  BY <1>2, RemoveFirstKeeps
<1> HIDE DEF r, h
<1>5. bucket'[h] = r /\ \A b \in 0 .. HashSize - 1 : b # h => bucket'[b] = bucket[b]
  BY <1>1, <1>3 DEF Held
<1>6. bucket' \in [0 .. HashSize - 1 -> Seq(Receivers)]
  BY <1>1, <1>3, <1>4 DEF Held
<1>7. \A b \in 0 .. HashSize - 1 : Distinct(bucket'[b])
  BY <1>4, <1>5 DEF Held
<1>8. ASSUME NEW v \in Receivers PROVE Hashed(v, bucket') <=> Hashed(v, bucket) /\ v # u
  <2>1. CASE v % HashSize = h
    BY <1>4, <1>5, <2>1 DEF Hashed, s
  <2>2. CASE v % HashSize # h
    <3>1. v # u /\ v % HashSize \in 0 .. HashSize - 1
      BY <2>2, BucketIs DEF h
    <3> QED
      BY <1>5, <2>2, <3>1 DEF Hashed
  <2> QED
    BY <2>1, <2>2
<1> QED
  BY <1>6, <1>7, <1>8

LEMMA ReceivingAtFirst == RcvQueue!RcvQueueInit => ReceivingInv
<1> SUFFICES ASSUME RcvQueue!RcvQueueInit PROVE ReceivingInv
  OBVIOUS
<1>1. Len(<<>>) = 0 /\ <<>> \in Seq(Receivers) /\ <<>> \in Seq(Entry) /\ 1 .. 0 = {}
  OBVIOUS
<1>2. Distinct(<<>>) /\ IsList(<<>>) /\ \A u : ~Member(u, <<>>) /\ ~OnTheList(u, <<>>)
  BY <1>1 DEF Distinct, IsList, Member, OnTheList
<1>3. /\ newEntry = <<>> /\ rcvUList = <<>> /\ requests = <<>> /\ DOMAIN stored = Receivers
      /\ bucket = [b \in 0 .. HashSize - 1 |-> <<>>]
      /\ udt \in [Receivers -> Udt] /\ storing.id = 0
      /\ \A u \in Receivers : stored[u] = <<>> /\ ~udt[u].onList
  BY DEF RcvQueue!RcvQueueInit, RcvQueue!Nothing, Udt
<1>4. Held
  <2>1. /\ bucket \in [0 .. HashSize - 1 -> Seq(Receivers)]
        /\ \A b \in 0 .. HashSize - 1 : Distinct(bucket[b])
    BY <1>1, <1>2, <1>3
  <2> QED
    BY <1>1, <1>2, <1>3, <2>1 DEF Held
<1>5. ASSUME NEW u \in Receivers PROVE Together(u)
  <2>1. bucket[u % HashSize] = <<>> /\ u # 0
    BY <1>3, BucketIs
  <2> QED
    BY <1>2, <1>3, <2>1 DEF Together, Hashed
<1> QED
  BY <1>4, <1>5 DEF ReceivingInv

\* A step that changes nothing of the list, the hash and the sockets handed over.
LEMMA QuietStepKeeps ==
    ASSUME ReceivingInv, UNCHANGED <<newEntry, rcvUList, bucket>>, udt' \in [Receivers -> Udt],
           requests' \in Seq(Receivers), DOMAIN stored' = Receivers,
           \A v \in Receivers : udt'[v].onList = udt[v].onList,
           \A v \in Receivers : udt[v].onList => udt'[v].phase \in {"connected", "closed"},
           \A v \in Receivers : udt'[v].phase = "new" =>
               /\ udt[v].phase = "new" /\ stored'[v] = stored[v]
               /\ (Member(v, requests') => Member(v, requests)) /\ (storing'.id = v => storing.id = v)
    PROVE  ReceivingInv'
<1>1. Held'
  BY DEF ReceivingInv, Held
<1>2. ASSUME NEW v \in Receivers PROVE Together(v)'
  <2>1. Together(v)
    BY DEF ReceivingInv
  <2>2. rcvUList' = rcvUList /\ bucket' = bucket /\ newEntry' = newEntry
    OBVIOUS
  <2> QED
    BY <2>1, <2>2 DEF Together
<1> QED
  BY <1>1, <1>2 DEF ReceivingInv

\* A socket that is connected is handed over.
LEMMA ConnectedKeeps ==
    ASSUME ReceivingInv, NEW u \in Receivers, udt[u].phase = "connecting", RcvQueue!Connected(u),
           stored' = [stored EXCEPT ![u] = <<>>], UNCHANGED <<rcvUList, bucket, storing>>
    PROVE  ReceivingInv'
<1> DEFINE e == [udt[u] EXCEPT !.phase = "connected", !.onList = TRUE]
<1>1. Held /\ \A v \in Receivers : Together(v)
  BY DEF ReceivingInv
<1>2. udt' = [udt EXCEPT ![u] = e] /\ newEntry' = Append(newEntry, u) /\ requests' = RcvQueue!RemoveFirst(requests, u)
  BY <1>1 DEF RcvQueue!Connected, RcvQueue!RequestRemove, RcvQueue!setNewEntry, Held
<1>3. udt[u] \in Udt
  BY <1>1 DEF Held
<1>4. e \in Udt /\ e.phase = "connected" /\ e.onList = TRUE
  BY <1>3 DEF Udt
<1> HIDE DEF e
<1>5. udt' \in [Receivers -> Udt] /\ udt'[u] = e /\ \A v \in Receivers : v # u => udt'[v] = udt[v]
  BY <1>1, <1>2, <1>4 DEF Held
<1>6. ~udt[u].onList
  BY <1>1 DEF Together
<1>7. ~Member(u, newEntry) /\ ~OnTheList(u, rcvUList)
  BY <1>1, <1>6 DEF Together
<1>8. /\ newEntry' \in Seq(Receivers) /\ Distinct(newEntry')
      /\ \A v : Member(v, newEntry') <=> Member(v, newEntry) \/ v = u
  BY <1>1, <1>2, <1>7, AppendKeeps DEF Held
<1>9. requests' \in Seq(Receivers) /\ \A v : Member(v, requests') => Member(v, requests)
  BY <1>1, <1>2, RemoveFirstKeeps DEF Held
<1>10. DOMAIN stored' = Receivers /\ \A v \in Receivers : v # u => stored'[v] = stored[v]
  BY <1>1 DEF Held
<1>11. Held'
  BY <1>1, <1>5, <1>8, <1>9, <1>10 DEF Held
<1>12. ASSUME NEW v \in Receivers PROVE Together(v)'
  <2>1. Together(v) /\ rcvUList' = rcvUList /\ bucket' = bucket /\ storing' = storing
    BY <1>1
  <2>2. CASE v = u
    BY <1>4, <1>5, <1>7, <1>8, <2>1, <2>2 DEF Together
  <2>3. CASE v # u
    BY <1>5, <1>8, <1>9, <1>10, <2>1, <2>3 DEF Together
  <2> QED
    BY <2>2, <2>3
<1> QED
  BY <1>11, <1>12 DEF ReceivingInv

LEMMA registerConnectorKeeps ==
    ASSUME ReceivingInv, NEW u \in Receivers, NEW async \in BOOLEAN, RcvQueue!registerConnector(u, async)
    PROVE  ReceivingInv'
<1> DEFINE e == [udt[u] EXCEPT !.phase = "connecting", !.async = async]
<1>1. Held /\ \A v \in Receivers : Together(v)
  BY DEF ReceivingInv
<1>2. /\ udt' = [udt EXCEPT ![u] = e] /\ udt[u].phase = "new" /\ requests' = Append(requests, u)
      /\ UNCHANGED <<newEntry, rcvUList, bucket, stored, storing>>
  BY <1>1 DEF RcvQueue!registerConnector, Held
<1>3. udt[u] \in Udt
  BY <1>1 DEF Held
<1>4. e \in Udt /\ e.phase = "connecting" /\ e.onList = udt[u].onList
  BY <1>3 DEF Udt
<1> HIDE DEF e
<1>5. udt' \in [Receivers -> Udt] /\ udt'[u] = e /\ \A v \in Receivers : v # u => udt'[v] = udt[v]
  BY <1>1, <1>2, <1>4 DEF Held
<1>6. ~udt[u].onList
  BY <1>1, <1>2 DEF Together
<1>7. requests' \in Seq(Receivers) /\ \A v : Member(v, requests') <=> Member(v, requests) \/ v = u
  BY <1>1, <1>2, AppendKeeps DEF Held
<1>8. DOMAIN stored' = Receivers
  BY <1>1, <1>2 DEF Held
<1>9. ASSUME NEW v \in Receivers
      PROVE  /\ udt'[v].onList = udt[v].onList
             /\ udt[v].onList => udt'[v].phase \in {"connected", "closed"}
             /\ udt'[v].phase = "new" =>
                  /\ udt[v].phase = "new" /\ stored'[v] = stored[v]
                  /\ (Member(v, requests') => Member(v, requests)) /\ (storing'.id = v => storing.id = v)
  <2>1. CASE v = u
    BY <1>4, <1>5, <1>6, <2>1
  <2>2. CASE v # u
    <3>1. Together(v) /\ udt'[v] = udt[v]
      BY <1>1, <1>5, <2>2
    <3> QED
      BY <1>2, <1>7, <2>2, <3>1 DEF Together
  <2> QED
    BY <2>1, <2>2
<1> QED
  BY <1>2, <1>5, <1>7, <1>8, <1>9, QuietStepKeeps

LEMMA recvfromKeeps ==
    ASSUME ReceivingInv, NEW u \in Receivers, RcvQueue!recvfrom(u)
    PROVE  ReceivingInv'
<1>1. Held /\ (\A v \in Receivers : Together(v)) /\ UNCHANGED <<rcvUList, bucket, storing>>
  BY DEF ReceivingInv, RcvQueue!recvfrom
<1>2. CASE stored[u] = <<>>
  <2>1. UNCHANGED <<udt, requests, newEntry, stored>>
    BY <1>2 DEF RcvQueue!recvfrom
  <2> QED
    BY <1>1, <2>1 DEF ReceivingInv, Held, Together
<1>3. CASE stored[u] # <<>> /\ Head(stored[u]) = "answer" /\ udt[u].phase = "connecting"
  <2>1. RcvQueue!Connected(u) /\ stored' = [stored EXCEPT ![u] = <<>>]
    BY <1>3 DEF RcvQueue!recvfrom
  <2> QED
    BY <1>1, <1>3, <2>1, ConnectedKeeps
<1>4. CASE stored[u] # <<>> /\ ~(Head(stored[u]) = "answer" /\ udt[u].phase = "connecting")
  <2>1. stored' = [stored EXCEPT ![u] = Tail(stored[u])] /\ UNCHANGED <<udt, requests, newEntry>>
    BY <1>1, <1>4 DEF RcvQueue!recvfrom, Held
  <2>2. DOMAIN stored' = Receivers /\ \A v \in Receivers : v # u => stored'[v] = stored[v]
    BY <1>1, <2>1 DEF Held
  <2>3. udt[u].phase # "new"
    BY <1>1, <1>4 DEF Together
  <2>4. udt' \in [Receivers -> Udt] /\ requests' \in Seq(Receivers)
    BY <1>1, <2>1 DEF Held
  <2>5. ASSUME NEW v \in Receivers
        PROVE  /\ udt'[v].onList = udt[v].onList
               /\ udt[v].onList => udt'[v].phase \in {"connected", "closed"}
               /\ udt'[v].phase = "new" =>
                    /\ udt[v].phase = "new" /\ stored'[v] = stored[v]
                    /\ (Member(v, requests') => Member(v, requests)) /\ (storing'.id = v => storing.id = v)
    <3>1. Together(v)
      BY <1>1
    <3> QED
      BY <1>1, <2>1, <2>2, <2>3, <3>1 DEF Together
  <2> QED
    BY <1>1, <2>1, <2>2, <2>4, <2>5, QuietStepKeeps
<1> QED
  BY <1>2, <1>3, <1>4

LEMMA EndsKeeps ==
    ASSUME ReceivingInv, NEW u \in Receivers, RcvQueue!Ends(u)
    PROVE  ReceivingInv'
<1> DEFINE e == [udt[u] EXCEPT !.phase = "closed"]
<1>1. Held /\ (\A v \in Receivers : Together(v)) /\ UNCHANGED <<newEntry, rcvUList, bucket, storing>>
  BY DEF ReceivingInv, RcvQueue!Ends
<1>2. udt' = [udt EXCEPT ![u] = e] /\ requests' = RcvQueue!RemoveFirst(requests, u)
  BY DEF RcvQueue!Ends, RcvQueue!RequestRemove
<1>3. udt[u] \in Udt
  BY <1>1 DEF Held
<1>4. e \in Udt /\ e.phase = "closed" /\ e.onList = udt[u].onList
  BY <1>3 DEF Udt
<1> HIDE DEF e
<1>5. udt' \in [Receivers -> Udt] /\ udt'[u] = e /\ \A v \in Receivers : v # u => udt'[v] = udt[v]
  BY <1>1, <1>2, <1>4 DEF Held
<1>6. requests' \in Seq(Receivers) /\ \A v : Member(v, requests') => Member(v, requests)
  BY <1>1, <1>2, RemoveFirstKeeps DEF Held
<1>7. stored' = stored \/ stored' = [stored EXCEPT ![u] = <<>>]
  BY DEF RcvQueue!Ends
<1>8. DOMAIN stored' = Receivers /\ \A v \in Receivers : v # u => stored'[v] = stored[v]
  BY <1>1, <1>7 DEF Held
<1>9. ASSUME NEW v \in Receivers
      PROVE  /\ udt'[v].onList = udt[v].onList
             /\ udt[v].onList => udt'[v].phase \in {"connected", "closed"}
             /\ udt'[v].phase = "new" =>
                  /\ udt[v].phase = "new" /\ stored'[v] = stored[v]
                  /\ (Member(v, requests') => Member(v, requests)) /\ (storing'.id = v => storing.id = v)
  <2>1. CASE v = u
    BY <1>4, <1>5, <2>1
  <2>2. CASE v # u
    <3>1. Together(v) /\ udt'[v] = udt[v] /\ stored'[v] = stored[v]
      BY <1>1, <1>5, <1>8, <2>2
    <3> QED
      BY <1>1, <1>6, <3>1 DEF Together
  <2> QED
    BY <2>1, <2>2
<1> QED
  BY <1>1, <1>5, <1>6, <1>8, <1>9, QuietStepKeeps

\* updateConnStatus, whose socket is neither in the list nor on its way there.
LEMMA updateConnStatusKeeps ==
    ASSUME ReceivingInv, NEW u \in Receivers, RcvQueue!updateConnStatus(u)
    PROVE  ReceivingInv'
<1> DEFINE e == [udt[u] EXCEPT !.phase = "expired"]
<1>1. /\ Held /\ (\A v \in Receivers : Together(v)) /\ udt[u].phase = "connecting"
      /\ UNCHANGED <<newEntry, rcvUList, bucket, requests, stored, storing>>
  BY DEF ReceivingInv, RcvQueue!updateConnStatus
<1>2. udt' = [udt EXCEPT ![u] = e]
  BY DEF RcvQueue!updateConnStatus
<1>3. udt[u] \in Udt
  BY <1>1 DEF Held
<1>4. e \in Udt /\ e.phase = "expired" /\ e.onList = udt[u].onList
  BY <1>3 DEF Udt
<1> HIDE DEF e
<1>5. udt' \in [Receivers -> Udt] /\ udt'[u] = e /\ \A v \in Receivers : v # u => udt'[v] = udt[v]
  BY <1>1, <1>2, <1>4 DEF Held
<1>6. ~udt[u].onList
  BY <1>1 DEF Together
<1>7. requests' \in Seq(Receivers) /\ DOMAIN stored' = Receivers
  BY <1>1 DEF Held
<1>9. ASSUME NEW v \in Receivers
      PROVE  /\ udt'[v].onList = udt[v].onList
             /\ udt[v].onList => udt'[v].phase \in {"connected", "closed"}
             /\ udt'[v].phase = "new" =>
                  /\ udt[v].phase = "new" /\ stored'[v] = stored[v]
                  /\ (Member(v, requests') => Member(v, requests)) /\ (storing'.id = v => storing.id = v)
  <2>1. CASE v = u
    BY <1>4, <1>5, <1>6, <2>1
  <2>2. CASE v # u
    <3>1. Together(v) /\ udt'[v] = udt[v] /\ requests' = requests /\ stored' = stored /\ storing' = storing
      BY <1>1, <1>5, <2>2
    <3> QED
      BY <3>1 DEF Together
  <2> QED
    BY <2>1, <2>2
<1> QED
  BY <1>1, <1>5, <1>7, <1>9, QuietStepKeeps

LEMMA WaitEndsKeeps ==
    ASSUME ReceivingInv, NEW u \in Receivers, RcvQueue!WaitEnds(u)
    PROVE  ReceivingInv'
<1>1. UNCHANGED <<udt, newEntry, rcvUList, bucket, requests, stored, storing>>
  BY DEF RcvQueue!WaitEnds
<1> QED
  BY <1>1 DEF ReceivingInv, Held, Together

\* What is handed over is put at the end of the list and into the hash: it was in neither.
LEMMA getNewEntryKeeps ==
    ASSUME ReceivingInv, RcvQueue!getNewEntry
    PROVE  ReceivingInv'
<1> DEFINE u == Head(newEntry)
<1>1. Held /\ (\A v \in Receivers : Together(v)) /\ UNCHANGED <<udt, requests, stored, storing>>
  BY DEF ReceivingInv, RcvQueue!getNewEntry
<1>2. /\ newEntry # <<>> /\ rcvUList' = RcvQueue!ListInsert(rcvUList, u) /\ RcvQueue!HashInsert(u)
      /\ newEntry' = Tail(newEntry)
  BY DEF RcvQueue!getNewEntry, RcvQueue!ifNewEntry
<1>3. /\ u \in Receivers /\ newEntry' \in Seq(Receivers) /\ Distinct(newEntry') /\ ~Member(u, newEntry')
      /\ \A v : Member(v, newEntry) <=> Member(v, newEntry') \/ v = u
  BY <1>1, <1>2, TailKeeps DEF Held
<1> HIDE DEF u
<1>4. ~OnTheList(u, rcvUList) /\ ~Hashed(u, bucket)
  BY <1>1, <1>3 DEF Together
<1>5. IsList(rcvUList') /\ \A v : OnTheList(v, rcvUList') <=> OnTheList(v, rcvUList) \/ v = u
  BY <1>1, <1>2, <1>3, <1>4, ListInsertKeeps DEF Held
<1>6. /\ bucket' \in [0 .. HashSize - 1 -> Seq(Receivers)]
      /\ \A b \in 0 .. HashSize - 1 : Distinct(bucket'[b])
      /\ \A v \in Receivers : Hashed(v, bucket') <=> Hashed(v, bucket) \/ v = u
  BY <1>1, <1>2, <1>3, <1>4, HashInsertKeeps
<1>7. Held'
  BY <1>1, <1>3, <1>5, <1>6 DEF Held
<1>8. ASSUME NEW v \in Receivers PROVE Together(v)'
  <2>1. Together(v) /\ udt' = udt /\ requests' = requests /\ stored' = stored /\ storing' = storing
    BY <1>1
  <2>2. CASE v = u
    BY <1>3, <1>5, <1>6, <2>1, <2>2 DEF Together
  <2>3. CASE v # u
    BY <1>3, <1>5, <1>6, <2>1, <2>3 DEF Together
  <2> QED
    BY <2>2, <2>3
<1> QED
  BY <1>7, <1>8 DEF ReceivingInv

\* The list in another order.
LEMMA ReorderKeeps ==
    ASSUME ReceivingInv, UNCHANGED <<udt, newEntry, bucket, requests, stored, storing>>,
           IsList(rcvUList'), \A v : OnTheList(v, rcvUList') <=> OnTheList(v, rcvUList)
    PROVE  ReceivingInv'
<1>1. Held'
  BY DEF ReceivingInv, Held
<1>2. ASSUME NEW v \in Receivers PROVE Together(v)'
  <2>1. Together(v)
    BY DEF ReceivingInv
  <2> QED
    BY <2>1 DEF Together
<1> QED
  BY <1>1, <1>2 DEF ReceivingInv

LEMMA DeliverKeeps ==
    ASSUME ReceivingInv, NEW u \in Receivers, RcvQueue!Deliver(u)
    PROVE  ReceivingInv'
<1>1. rcvUList' = RcvQueue!update(rcvUList, u) /\ UNCHANGED <<udt, newEntry, bucket, requests, stored, storing>>
  BY DEF RcvQueue!Deliver
<1>2. IsList(rcvUList') /\ \A v : OnTheList(v, rcvUList') <=> OnTheList(v, rcvUList)
  BY <1>1, ListUpdateKeeps DEF ReceivingInv, Held
<1> QED
  BY <1>1, <1>2, ReorderKeeps

LEMMA StampsGetOldKeeps ==
    ASSUME ReceivingInv, NEW k \in DOMAIN rcvUList, RcvQueue!StampsGetOld(k)
    PROVE  ReceivingInv'
<1>1. /\ rcvUList' = [i \in DOMAIN rcvUList |-> [rcvUList[i] EXCEPT !.old = rcvUList[i].old \/ i <= k]]
      /\ UNCHANGED <<udt, newEntry, bucket, requests, stored, storing>>
  BY DEF RcvQueue!StampsGetOld
<1>2. IsList(rcvUList) /\ rcvUList \in Seq(Entry) /\ DOMAIN rcvUList = 1 .. Len(rcvUList) /\ Len(rcvUList) \in Nat
  BY DEF ReceivingInv, Held, IsList
<1>3. ASSUME NEW i \in 1 .. Len(rcvUList)
      PROVE  [rcvUList[i] EXCEPT !.old = rcvUList[i].old \/ i <= k] \in Entry
             /\ [rcvUList[i] EXCEPT !.old = rcvUList[i].old \/ i <= k].u = rcvUList[i].u
  <2>1. rcvUList[i] \in Entry
    BY <1>2
  <2>2. (rcvUList[i].old \/ i <= k) \in BOOLEAN
    OBVIOUS
  <2> QED
    BY <2>1, <2>2 DEF Entry
<1>4. /\ rcvUList' \in Seq(Entry) /\ Len(rcvUList') = Len(rcvUList)
      /\ \A i \in 1 .. Len(rcvUList) : rcvUList'[i].u = rcvUList[i].u
  <2>1. rcvUList' \in [1 .. Len(rcvUList) -> Entry]
    BY <1>1, <1>2, <1>3
  <2>2. rcvUList' \in Seq(Entry) /\ Len(rcvUList') = Len(rcvUList)
    BY <1>2, <2>1
  <2> QED
    BY <1>1, <1>2, <1>3, <2>2
<1>5. IsList(rcvUList') /\ \A v : OnTheList(v, rcvUList') <=> OnTheList(v, rcvUList)
  BY <1>2, <1>4 DEF IsList, OnTheList
<1> QED
  BY <1>1, <1>5, ReorderKeeps

LEMMA AnswerKeeps ==
    ASSUME ReceivingInv, NEW u \in Receivers, NEW p, RcvQueue!Answer(u, p)
    PROVE  ReceivingInv'
<1>1. Held /\ (\A v \in Receivers : Together(v)) /\ UNCHANGED <<rcvUList, bucket>>
  BY DEF ReceivingInv, RcvQueue!Answer
<1>2. CASE udt[u].async
  <2>1. udt[u].phase = "connecting" /\ RcvQueue!Connected(u) /\ stored' = [stored EXCEPT ![u] = <<>>] /\ storing' = storing
    BY <1>2 DEF RcvQueue!Answer
  <2> QED
    BY <1>1, <2>1, ConnectedKeeps
<1>3. CASE ~udt[u].async
  <2>1. storing'.id = u /\ UNCHANGED <<udt, requests, newEntry, stored>>
    BY <1>3 DEF RcvQueue!Answer
  <2>2. udt[u].phase # "new"
    <3>1. Member(u, requests)
      BY <1>1, RetrieveIs DEF RcvQueue!Answer
    <3> QED
      BY <1>1, <3>1 DEF Together
  <2>3. udt' \in [Receivers -> Udt] /\ requests' \in Seq(Receivers) /\ DOMAIN stored' = Receivers
    BY <1>1, <2>1 DEF Held
  <2>4. ASSUME NEW v \in Receivers
        PROVE  /\ udt'[v].onList = udt[v].onList
               /\ udt[v].onList => udt'[v].phase \in {"connected", "closed"}
               /\ udt'[v].phase = "new" =>
                    /\ udt[v].phase = "new" /\ stored'[v] = stored[v]
                    /\ (Member(v, requests') => Member(v, requests)) /\ (storing'.id = v => storing.id = v)
    <3>1. Together(v)
      BY <1>1
    <3> QED
      BY <2>1, <2>2, <3>1 DEF Together
  <2> QED
    BY <1>1, <2>1, <2>3, <2>4, QuietStepKeeps
<1> QED
  BY <1>2, <1>3

LEMMA storePktKeeps ==
    ASSUME ReceivingInv, RcvQueue!storePkt
    PROVE  ReceivingInv'
<1> DEFINE u == storing.id
<1>1. /\ Held /\ (\A v \in Receivers : Together(v)) /\ UNCHANGED <<udt, newEntry, rcvUList, bucket, requests>>
      /\ storing'.id = 0
  BY DEF ReceivingInv, RcvQueue!storePkt, RcvQueue!Nothing
<1>2. stored' = stored \/ stored' = [stored EXCEPT ![u] = Append(stored[u], storing.packet)]
  BY DEF RcvQueue!storePkt
<1>3. DOMAIN stored' = Receivers /\ \A v \in Receivers : v # u => stored'[v] = stored[v]
  BY <1>1, <1>2 DEF Held
<1>4. udt' \in [Receivers -> Udt] /\ requests' \in Seq(Receivers)
  BY <1>1 DEF Held
<1>5. ASSUME NEW v \in Receivers
      PROVE  /\ udt'[v].onList = udt[v].onList
             /\ udt[v].onList => udt'[v].phase \in {"connected", "closed"}
             /\ udt'[v].phase = "new" =>
                  /\ udt[v].phase = "new" /\ stored'[v] = stored[v]
                  /\ (Member(v, requests') => Member(v, requests)) /\ (storing'.id = v => storing.id = v)
  <2>1. Together(v) /\ v # 0
    BY <1>1, BucketIs
  <2> QED
    BY <1>1, <1>3, <2>1 DEF Together
<1> QED
  BY <1>1, <1>3, <1>4, <1>5, QuietStepKeeps

\* A dead socket leaves the list and the hash at once, and m_bOnList is cleared.
LEMMA TimerCheckKeeps ==
    ASSUME ReceivingInv, RcvQueue!TimerCheck
    PROVE  ReceivingInv'
<1> DEFINE u == Head(rcvUList).u
<1>1. /\ Held /\ (\A v \in Receivers : Together(v)) /\ UNCHANGED <<newEntry, requests, stored, storing>>
      /\ rcvUList # <<>>
  BY DEF ReceivingInv, RcvQueue!TimerCheck
<1>2. u \in Receivers /\ OnTheList(u, rcvUList)
  <2>1. rcvUList \in Seq(Entry)
    BY <1>1 DEF Held, IsList
  <2>2. Head(rcvUList) = rcvUList[1] /\ 1 \in 1 .. Len(rcvUList) /\ rcvUList[1] \in Entry
    BY <1>1, <2>1
  <2> QED
    BY <2>2 DEF OnTheList, Entry
<1>3. CASE RcvQueue!Alive(u)
  <2>1. rcvUList' = RcvQueue!update(rcvUList, u) /\ UNCHANGED <<bucket, udt>>
    BY <1>3 DEF RcvQueue!TimerCheck
  <2> HIDE DEF u
  <2>2. IsList(rcvUList') /\ \A v : OnTheList(v, rcvUList') <=> OnTheList(v, rcvUList)
    BY <1>1, <1>2, <2>1, ListUpdateKeeps DEF Held
  <2> QED
    BY <1>1, <2>1, <2>2, ReorderKeeps
<1>4. CASE ~RcvQueue!Alive(u)
  <2> DEFINE e == [udt[u] EXCEPT !.onList = FALSE]
  <2>1. /\ RcvQueue!HashRemove(u) /\ rcvUList' = RcvQueue!ListRemove(rcvUList, u)
        /\ udt' = [udt EXCEPT ![u] = e]
    BY <1>4 DEF RcvQueue!TimerCheck
  <2>2. udt[u] \in Udt
    BY <1>1, <1>2 DEF Held
  <2>3. e \in Udt /\ e.onList = FALSE /\ e.phase = udt[u].phase
    BY <2>2 DEF Udt
  <2> HIDE DEF u, e
  <2>4. udt' \in [Receivers -> Udt] /\ udt'[u] = e /\ \A v \in Receivers : v # u => udt'[v] = udt[v]
    BY <1>1, <1>2, <2>1, <2>3 DEF Held
  <2>5. IsList(rcvUList') /\ \A v : OnTheList(v, rcvUList') <=> OnTheList(v, rcvUList) /\ v # u
    BY <1>1, <1>2, <2>1, ListRemoveKeeps DEF Held
  <2>6. /\ bucket' \in [0 .. HashSize - 1 -> Seq(Receivers)]
        /\ \A b \in 0 .. HashSize - 1 : Distinct(bucket'[b])
        /\ \A v \in Receivers : Hashed(v, bucket') <=> Hashed(v, bucket) /\ v # u
    BY <1>1, <1>2, <2>1, HashRemoveKeeps
  <2>7. Held'
    BY <1>1, <2>4, <2>5, <2>6 DEF Held
  <2>8. ASSUME NEW v \in Receivers PROVE Together(v)'
    <3>1. Together(v) /\ newEntry' = newEntry /\ requests' = requests /\ stored' = stored /\ storing' = storing
      BY <1>1
    <3>2. CASE v = u
      BY <1>2, <2>3, <2>4, <2>5, <2>6, <3>1, <3>2 DEF Together
    <3>3. CASE v # u
      BY <2>4, <2>5, <2>6, <3>1, <3>3 DEF Together
    <3> QED
      BY <3>2, <3>3
  <2> QED
    BY <2>7, <2>8 DEF ReceivingInv
<1> QED
  BY <1>3, <1>4

LEMMA ReceivingStep ==
    ASSUME ReceivingInv, RcvQueue!RcvQueueNext
    PROVE  ReceivingInv'
  BY registerConnectorKeeps, recvfromKeeps, EndsKeeps, updateConnStatusKeeps, WaitEndsKeeps, getNewEntryKeeps,
     DeliverKeeps, StampsGetOldKeeps, AnswerKeeps, storePktKeeps, TimerCheckKeeps
  DEF RcvQueue!RcvQueueNext

LEMMA ReceivingMeans ==
    ASSUME ReceivingInv
    PROVE  RcvQueue!ListedIsKept
<1>1. Held /\ IsList(rcvUList) /\ newEntry \in Seq(Receivers)
  BY DEF ReceivingInv, Held
<1>2. Len(rcvUList) = Cardinality(RcvQueue!Listed)
  BY <1>1, ListCounts DEF RcvQueue!Listed
<1>3. DOMAIN rcvUList = 1 .. Len(rcvUList) /\ DOMAIN newEntry = 1 .. Len(newEntry)
  BY <1>1 DEF IsList
<1>4. ASSUME NEW u \in Receivers
      PROVE  /\ u \in RcvQueue!Listed <=> RcvQueue!lookup(u)
             /\ (u \in RcvQueue!Listed \/ u \in RcvQueue!Range(newEntry)) <=> udt[u].onList
             /\ ~(u \in RcvQueue!Listed /\ u \in RcvQueue!Range(newEntry))
             /\ udt[u].phase = "new" => stored[u] = <<>>
  <2>1. Together(u) /\ (RcvQueue!lookup(u) <=> Hashed(u, bucket))
    BY <1>1, LookupIs DEF ReceivingInv
  <2>2. u \in RcvQueue!Listed <=> OnTheList(u, rcvUList)
    BY <1>3 DEF RcvQueue!Listed, OnTheList
  <2>3. u \in RcvQueue!Range(newEntry) <=> Member(u, newEntry)
    BY <1>3 DEF RcvQueue!Range, Member
  <2> QED
    BY <2>1, <2>2, <2>3 DEF Together
<1> QED
  <2>1. RcvQueue!Cardinality(RcvQueue!Listed) = Cardinality(RcvQueue!Listed)
    BY Zenon DEF RcvQueue!Cardinality, Cardinality
  <2> QED
    BY <1>2, <1>4, <2>1 DEF RcvQueue!ListedIsKept

-----------------------------------------------------------------------------
(* The two threads *)

\* No socket that could send is forgotten by the sending thread and no wake-up is lost, however
\* sendmsg, the acknowledgements, the losses and close interleave with pop; and the list, the hash
\* and m_bOnList of the receiving thread agree, for any sockets and any number of buckets.
THEOREM ListsCorrect == WorkersSpec => []ListsAreKept
<1> DEFINE Inv == SendingInv /\ ReceivingInv
<1>1. WorkersInit => Inv
  BY SendingAtFirst, ReceivingAtFirst DEF WorkersInit
<1>2. Inv /\ [WorkersNext]_<<part, sendingVars, receivingVars, sleepingVars>> => Inv'
  <2> SUFFICES ASSUME Inv, [WorkersNext]_<<part, sendingVars, receivingVars, sleepingVars>> PROVE Inv'
    OBVIOUS
  <2>1. ASSUME UNCHANGED sendingVars PROVE SendingInv'
    BY <2>1 DEF SendingInv, PlacesKnown, SndQueue!NobodyIsForgotten, SndQueue!OnHeap, sendingVars
  <2>2. ASSUME UNCHANGED receivingVars PROVE ReceivingInv'
    BY <2>2 DEF ReceivingInv, Held, Together, receivingVars
  <2>3. CASE SndQueue!SndQueueNext /\ UNCHANGED <<part, receivingVars, sleepingVars>>
    BY <2>2, <2>3, SendingStep
  <2>4. CASE RcvQueue!RcvQueueNext /\ UNCHANGED <<part, sendingVars, sleepingVars>>
    BY <2>1, <2>4, ReceivingStep
  <2>5. CASE UNCHANGED sendingVars /\ UNCHANGED receivingVars
    BY <2>1, <2>2, <2>5
  <2> QED
    BY <2>3, <2>4, <2>5 DEF WorkersNext
<1>3. Inv => ListsAreKept
  BY ReceivingMeans DEF SendingInv, ListsAreKept
<1> QED
  BY <1>1, <1>2, <1>3, PTL DEF WorkersSpec
=============================================================================
