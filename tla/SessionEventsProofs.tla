------------------------- MODULE SessionEventsProofs -------------------------
(***************************************************************************)
(* Proofs about SessionEvents for every set of connections and producers,  *)
(* every size of an event and every cap.  The sum of bytes is reasoned     *)
(* about through its partial sums; that they exist and are unique is an    *)
(* induction, done with the least element of a set of counterexamples.     *)
(***************************************************************************)
EXTENDS SessionEvents, SessionProofs, WellFoundedInduction

-----------------------------------------------------------------------------
(***************************************************************************)
(* The bytes of a queue.                                                   *)
(***************************************************************************)
\* A non-empty set of numbers has a least one.
LEMMA LeastNumber ==
  ASSUME NEW S, S \subseteq Nat, S # {}
  PROVE  \E n \in S : \A m \in S : n <= m
<1> DEFINE Less == OpToRel(<, Nat)
<1>1. IsWellFoundedOn(Less, Nat)
  BY NatLessThanWellFounded
<1>2. \A x, y \in Nat : x < y => <<x, y>> \in Less
  BY DEF OpToRel
<1> HIDE DEF Less
<1>3. PICK n \in S : \A m \in S : ~(<<m, n>> \in Less)
  BY <1>1, WFMin, Zenon
<1>4. \A m \in S : ~(m < n)
  BY <1>2, <1>3
<1> QED BY <1>4

\* f holds the partial sums of the sizes in q.
IsSum(f, q) ==
    f = [i \in 0 .. Len(q) |-> IF i = 0 THEN 0 ELSE f[i - 1] + EventSize[q[i]]]

\* The same, index by index.
LEMMA SumPointwise ==
  ASSUME NEW q \in Seq(Events), NEW f, IsSum(f, q)
  PROVE  f[0] = 0 /\ \A i \in 1 .. Len(q) : f[i] = f[i - 1] + EventSize[q[i]]
  BY DEF IsSum

\* And back: a function with these values at its indices is the sum.
LEMMA SumFromPoints ==
  ASSUME NEW q \in Seq(Events), NEW n \in Nat, Len(q) = n,
         NEW f \in [0 .. n -> Int], f[0] = 0,
         \A i \in 1 .. n : f[i] = f[i - 1] + EventSize[q[i]]
  PROVE  IsSum(f, q)
  BY DEF IsSum

\* Partial sums are numbers.
LEMMA SumType ==
  ASSUME NEW q \in Seq(Events), NEW f, IsSum(f, q)
  PROVE  f \in [0 .. Len(q) -> Nat]
<1> DEFINE Bad == {i \in 0 .. Len(q) : f[i] \notin Nat}
<1>0. Bad \subseteq Nat
  OBVIOUS
<1>1. ASSUME Bad # {} PROVE FALSE
  <2>1. PICK m \in Bad : \A j \in Bad : m <= j
    BY <1>0, <1>1, LeastNumber, Zenon
  <2>2. m # 0
    BY <2>1, SumPointwise
  <2>3. m - 1 \in 0 .. Len(q) /\ m - 1 \notin Bad
    BY <2>1, <2>2
  <2>4. EventSize[q[m]] \in Nat
    BY <2>1, <2>2, EventsAssumption
  <2>5. f[m] = f[m - 1] + EventSize[q[m]]
    BY <2>1, <2>2, SumPointwise
  <2> QED BY <2>1, <2>3, <2>4, <2>5
<1>2. \A i \in 0 .. Len(q) : f[i] \in Nat
  BY <1>1
<1> HIDE DEF Bad
<1> QED BY <1>2 DEF IsSum

\* There are no two partial sums of a queue.
LEMMA SumUnique ==
  ASSUME NEW q \in Seq(Events), NEW f, NEW g, IsSum(f, q), IsSum(g, q)
  PROVE  f = g
<1> DEFINE Bad == {i \in 0 .. Len(q) : f[i] # g[i]}
<1>0. Bad \subseteq Nat
  OBVIOUS
<1>1. ASSUME Bad # {} PROVE FALSE
  <2>1. PICK m \in Bad : \A j \in Bad : m <= j
    BY <1>0, <1>1, LeastNumber, Zenon
  <2>2. m # 0
    BY <2>1, SumPointwise
  <2>3. m - 1 \in 0 .. Len(q) /\ m - 1 \notin Bad
    BY <2>1, <2>2
  <2>4. f[m] = f[m - 1] + EventSize[q[m]] /\ g[m] = g[m - 1] + EventSize[q[m]]
    BY <2>1, <2>2, SumPointwise
  <2> QED BY <2>1, <2>3, <2>4
<1>2. \A i \in 0 .. Len(q) : f[i] = g[i]
  BY <1>1
<1> HIDE DEF Bad
<1>3. f \in [0 .. Len(q) -> Nat] /\ g \in [0 .. Len(q) -> Nat]
  BY SumType
<1> QED BY <1>2, <1>3

\* The partial sums of a queue that one event is appended to.
LEMMA SumAppend ==
  ASSUME NEW q \in Seq(Events), NEW e \in Events, NEW f, IsSum(f, q)
  PROVE  IsSum([i \in 0 .. Len(q) + 1 |->
                  IF i = Len(q) + 1 THEN f[Len(q)] + EventSize[e] ELSE f[i]],
               Append(q, e))
<1> DEFINE g == [i \in 0 .. Len(q) + 1 |->
                   IF i = Len(q) + 1 THEN f[Len(q)] + EventSize[e] ELSE f[i]]
           r == Append(q, e)
<1>1. /\ r \in Seq(Events) /\ Len(r) = Len(q) + 1 /\ Len(q) \in Nat
      /\ r[Len(q) + 1] = e
      /\ \A i \in 1 .. Len(q) : r[i] = q[i]
  OBVIOUS
<1>2. f \in [0 .. Len(q) -> Nat] /\ EventSize[e] \in Nat
  BY SumType, EventsAssumption
<1>3. g \in [0 .. Len(q) + 1 -> Int] /\ Len(q) + 1 \in Nat
  BY <1>1, <1>2
<1>4. g[0] = 0
  BY <1>1, SumPointwise
<1>5. \A i \in 1 .. Len(q) + 1 : g[i] = g[i - 1] + EventSize[r[i]]
  <2> TAKE i \in 1 .. Len(q) + 1
  <2>1. CASE i = Len(q) + 1
    BY <1>1, <2>1
  <2>2. CASE i # Len(q) + 1
    <3>1. i \in 1 .. Len(q) /\ i - 1 \in 0 .. Len(q)
      BY <1>1, <2>2
    <3>2. g[i] = f[i] /\ g[i - 1] = f[i - 1]
      BY <1>1, <2>2, <3>1
    <3> QED BY <1>1, <3>1, <3>2, SumPointwise
  <2> QED BY <2>1, <2>2
<1> HIDE DEF g, r
<1>6. IsSum(g, r)
  BY <1>1, <1>3, <1>4, <1>5, SumFromPoints
<1> QED BY <1>6 DEF g, r

\* The partial sums of a front part.
LEMMA SumFront ==
  ASSUME NEW q \in Seq(Events), NEW k \in 0 .. Len(q), NEW f, IsSum(f, q)
  PROVE  IsSum([i \in 0 .. k |-> f[i]], SubSeq(q, 1, k))
<1> DEFINE g == [i \in 0 .. k |-> f[i]]
           r == SubSeq(q, 1, k)
<1>1. r \in Seq(Events) /\ Len(r) = k /\ \A i \in 1 .. k : r[i] = q[i]
  OBVIOUS
<1>2. g \in [0 .. k -> Int] /\ k \in Nat
  BY SumType
<1>3. g[0] = 0 /\ \A i \in 1 .. k : g[i] = g[i - 1] + EventSize[r[i]]
  BY <1>1, SumPointwise
<1> HIDE DEF g, r
<1>4. IsSum(g, r)
  BY <1>1, <1>2, <1>3, SumFromPoints
<1> QED BY <1>4 DEF g, r

\* The partial sums of a queue whose k oldest events are dropped.
LEMMA SumRest ==
  ASSUME NEW q \in Seq(Events), NEW k \in 0 .. Len(q), NEW f, IsSum(f, q)
  PROVE  IsSum([i \in 0 .. Len(q) - k |-> f[i + k] - f[k]], SubSeq(q, k + 1, Len(q)))
<1> DEFINE g == [i \in 0 .. Len(q) - k |-> f[i + k] - f[k]]
           r == SubSeq(q, k + 1, Len(q))
<1>0. Len(q) - k \in Nat
  OBVIOUS
<1>1. /\ r \in Seq(Events) /\ Len(r) = Len(q) - k
      /\ \A i \in 1 .. Len(q) - k : r[i] = q[i + k]
  OBVIOUS
<1>2. f \in [0 .. Len(q) -> Nat]
  BY SumType
<1>3. g[0] = 0
  BY <1>2
<1>4. \A i \in 1 .. Len(q) - k : g[i] = g[i - 1] + EventSize[r[i]]
  <2> TAKE i \in 1 .. Len(q) - k
  <2>1. f[i + k] = f[i + k - 1] + EventSize[q[i + k]]
    BY SumPointwise
  <2>2. f[i + k] \in Nat /\ f[i + k - 1] \in Nat /\ f[k] \in Nat
    BY <1>2
  <2>4. r[i] \in Events /\ r[i] = q[i + k]
    BY <1>1
  <2>5. EventSize[r[i]] \in Nat
    BY <2>4, EventsAssumption
  <2>3. g[i] = f[i + k] - f[k] /\ g[i - 1] = f[i + k - 1] - f[k]
    OBVIOUS
  <2> HIDE DEF g, r
  <2> QED BY <2>1, <2>2, <2>3, <2>4, <2>5
<1>5. g \in [0 .. Len(q) - k -> Int]
  BY <1>2
<1> HIDE DEF g, r
<1>6. IsSum(g, r)
  BY <1>0, <1>1, <1>3, <1>4, <1>5, SumFromPoints
<1> QED BY <1>6 DEF g, r

\* Every queue has partial sums: a shortest one without would be one event
\* longer than one with.
LEMMA SumExists ==
  ASSUME NEW q \in Seq(Events)
  PROVE  \E f : IsSum(f, q)
<1> DEFINE Bad == {n \in Nat : \E r \in Seq(Events) : Len(r) = n /\ ~\E f : IsSum(f, r)}
<1>1. ASSUME Bad # {} PROVE FALSE
  <2>1. PICK n \in Bad : \A j \in Bad : n <= j
    BY <1>1, LeastNumber
  <2>2. PICK r \in Seq(Events) : Len(r) = n /\ ~\E f : IsSum(f, r)
    BY <2>1
  <2>3. CASE n = 0
    <3> DEFINE z == [i \in 0 .. 0 |-> 0]
    <3>1. /\ z \in [0 .. 0 -> Int] /\ z[0] = 0
          /\ \A i \in 1 .. 0 : z[i] = z[i - 1] + EventSize[r[i]]
      OBVIOUS
    <3> HIDE DEF z
    <3>2. Len(r) = 0 /\ 0 \in Nat
      BY <2>2, <2>3
    <3>3. IsSum(z, r)
      BY <2>2, <3>1, <3>2, SumFromPoints
    <3> QED BY <2>2, <3>3
  <2>4. CASE n # 0
    <3> DEFINE s == SubSeq(r, 1, n - 1)
    <3>1. s \in Seq(Events) /\ Len(s) = n - 1 /\ n - 1 \in Nat
      BY <2>2, <2>4
    <3>2. r = Append(s, r[n]) /\ r[n] \in Events
      BY <2>2, <2>4
    <3> HIDE DEF s
    <3>3. n - 1 \notin Bad
      BY <2>1, <3>1
    <3>4. PICK f : IsSum(f, s)
      BY <3>1, <3>3
    <3>5. \E g : IsSum(g, r)
      BY <3>1, <3>2, <3>4, SumAppend
    <3> QED BY <2>2, <3>5
  <2> QED BY <2>3, <2>4
<1> QED BY <1>1

\* BytesOf is the last partial sum.
LEMMA BytesAreLast ==
  ASSUME NEW q \in Seq(Events), NEW f, IsSum(f, q)
  PROVE  BytesOf(q) = f[Len(q)] /\ BytesOf(q) \in Nat
<1> DEFINE g == CHOOSE g : IsSum(g, q)
<1>1. IsSum(g, q)
  OBVIOUS
<1>2. BytesOf(q) = g[Len(q)]
  BY DEF BytesOf, IsSum
<1> HIDE DEF g
<1>3. f = g
  BY <1>1, SumUnique
<1>4. f \in [0 .. Len(q) -> Nat]
  BY SumType
<1> QED BY <1>2, <1>3, <1>4

\* What BytesOf gives for the queues that send_json and take_event_queue make.
LEMMA BytesRules ==
  /\ BytesOf(<<>>) = 0
  /\ \A q \in Seq(Events) : BytesOf(q) \in Nat
  /\ \A q \in Seq(Events), e \in Events :
        BytesOf(Append(q, e)) = BytesOf(q) + EventSize[e]
  /\ \A q \in Seq(Events) : \A k \in 0 .. Len(q) :
        BytesOf(SubSeq(q, k + 1, Len(q))) = BytesOf(q) - BytesOf(SubSeq(q, 1, k))
<1>1. BytesOf(<<>>) = 0
  <2> DEFINE q == <<>>
  <2>1. q \in Seq(Events) /\ Len(q) = 0
    OBVIOUS
  <2> HIDE DEF q
  <2>2. PICK f : IsSum(f, q)
    BY <2>1, SumExists
  <2>3. f[0] = 0
    BY <2>1, <2>2, SumPointwise
  <2>4. BytesOf(q) = 0
    BY <2>1, <2>2, <2>3, BytesAreLast
  <2> QED BY <2>4 DEF q
<1>2. ASSUME NEW q \in Seq(Events) PROVE BytesOf(q) \in Nat
  BY SumExists, BytesAreLast
<1>3. ASSUME NEW q \in Seq(Events), NEW e \in Events
      PROVE  BytesOf(Append(q, e)) = BytesOf(q) + EventSize[e]
  <2>1. PICK f : IsSum(f, q)
    BY SumExists
  <2> DEFINE g == [i \in 0 .. Len(q) + 1 |->
                     IF i = Len(q) + 1 THEN f[Len(q)] + EventSize[e] ELSE f[i]]
  <2>2. IsSum(g, Append(q, e))
    BY <2>1, SumAppend
  <2>3. g[Len(q) + 1] = f[Len(q)] + EventSize[e]
    OBVIOUS
  <2> HIDE DEF g
  <2>4. Append(q, e) \in Seq(Events) /\ Len(Append(q, e)) = Len(q) + 1
    OBVIOUS
  <2>5. BytesOf(Append(q, e)) = g[Len(q) + 1]
    BY <2>2, <2>4, BytesAreLast
  <2>6. BytesOf(q) = f[Len(q)]
    BY <2>1, BytesAreLast
  <2> QED BY <2>3, <2>5, <2>6
<1>4. ASSUME NEW q \in Seq(Events), NEW k \in 0 .. Len(q)
      PROVE  BytesOf(SubSeq(q, k + 1, Len(q))) = BytesOf(q) - BytesOf(SubSeq(q, 1, k))
  <2>1. PICK f : IsSum(f, q)
    BY SumExists
  <2> DEFINE g == [i \in 0 .. k |-> f[i]]
             h == [i \in 0 .. Len(q) - k |-> f[i + k] - f[k]]
             a == SubSeq(q, 1, k)
             b == SubSeq(q, k + 1, Len(q))
  <2>2. IsSum(g, a) /\ IsSum(h, b)
    BY <2>1, SumFront, SumRest
  <2>3. /\ a \in Seq(Events) /\ Len(a) = k
        /\ b \in Seq(Events) /\ Len(b) = Len(q) - k
    OBVIOUS
  <2>4. g[k] = f[k] /\ h[Len(q) - k] = f[Len(q)] - f[k]
    OBVIOUS
  <2> HIDE DEF g, h, a, b
  <2>5. BytesOf(a) = f[k] /\ BytesOf(b) = f[Len(q)] - f[k]
    BY <2>2, <2>3, <2>4, BytesAreLast
  <2>6. BytesOf(q) = f[Len(q)]
    BY <2>1, BytesAreLast
  <2> QED BY <2>5, <2>6 DEF a, b
<1> QED BY <1>1, <1>2, <1>3, <1>4

-----------------------------------------------------------------------------
(***************************************************************************)
(* What a sequence holds after the operations of the model.                *)
(***************************************************************************)
\* One event more at the back.
LEMMA ItemsAppend ==
  ASSUME NEW q \in Seq(Events), NEW x \in Events
  PROVE  /\ Append(q, x) \in Seq(Events)
         /\ ItemsOf(Append(q, x)) = ItemsOf(q) \cup {x}
         /\ Once(q) /\ x \notin ItemsOf(q) => Once(Append(q, x))
<1> DEFINE r == Append(q, x)
<1>1. /\ r \in Seq(Events) /\ Len(q) \in Nat
      /\ DOMAIN r = 1 .. Len(q) + 1 /\ DOMAIN q = 1 .. Len(q)
      /\ r[Len(q) + 1] = x
      /\ \A i \in 1 .. Len(q) : r[i] = q[i]
  OBVIOUS
<1> HIDE DEF r
<1>2. \A i \in 1 .. Len(q) + 1 : i \in 1 .. Len(q) \/ i = Len(q) + 1
  BY <1>1
<1>3. 1 .. Len(q) \subseteq 1 .. Len(q) + 1 /\ Len(q) + 1 \in 1 .. Len(q) + 1
  BY <1>1
<1>4. ItemsOf(r) = ItemsOf(q) \cup {x}
  BY <1>1, <1>2, <1>3 DEF ItemsOf
<1>5. ASSUME Once(q), x \notin ItemsOf(q) PROVE Once(r)
  BY <1>1, <1>2, <1>5 DEF ItemsOf, Once
<1> QED BY <1>1, <1>4, <1>5 DEF r

\* Two sequences one after the other.
LEMMA ItemsConcat ==
  ASSUME NEW q \in Seq(Events), NEW u \in Seq(Events)
  PROVE  /\ q \o u \in Seq(Events)
         /\ ItemsOf(q \o u) = ItemsOf(q) \cup ItemsOf(u)
         /\ Once(q) /\ Once(u) /\ ItemsOf(q) \cap ItemsOf(u) = {} => Once(q \o u)
<1> DEFINE r == q \o u
<1>1. /\ r \in Seq(Events) /\ Len(q) \in Nat /\ Len(u) \in Nat
      /\ DOMAIN r = 1 .. Len(q) + Len(u)
      /\ DOMAIN q = 1 .. Len(q) /\ DOMAIN u = 1 .. Len(u)
      /\ \A i \in 1 .. Len(q) : r[i] = q[i]
      /\ \A i \in 1 .. Len(u) : r[Len(q) + i] = u[i]
  OBVIOUS
<1> HIDE DEF r
<1>2. \A i \in DOMAIN r : \/ i \in DOMAIN q
                          \/ /\ i - Len(q) \in DOMAIN u
                             /\ i = Len(q) + (i - Len(q))
  BY <1>1
<1>3. DOMAIN q \subseteq DOMAIN r /\ \A i \in DOMAIN u : Len(q) + i \in DOMAIN r
  BY <1>1
<1>4. \A i \in DOMAIN r : r[i] \in ItemsOf(q) \cup ItemsOf(u)
  BY <1>1, <1>2 DEF ItemsOf
<1>5. ItemsOf(r) = ItemsOf(q) \cup ItemsOf(u)
  BY <1>1, <1>3, <1>4 DEF ItemsOf
<1>7. \A i \in DOMAIN r \ DOMAIN q : r[i] \in ItemsOf(u)
  BY <1>1, <1>2 DEF ItemsOf
<1>8. \A i \in DOMAIN q : r[i] \in ItemsOf(q)
  BY <1>1 DEF ItemsOf
<1>6. ASSUME Once(q), Once(u), ItemsOf(q) \cap ItemsOf(u) = {} PROVE Once(r)
  <2> SUFFICES ASSUME NEW i \in DOMAIN r, NEW j \in DOMAIN r, r[i] = r[j]
               PROVE  i = j
    BY DEF Once
  <2>1. CASE i \in DOMAIN q /\ j \in DOMAIN q
    BY <1>1, <1>6, <2>1 DEF Once
  <2>2. CASE i \in DOMAIN q /\ j \notin DOMAIN q
    BY <1>6, <1>7, <1>8, <2>2
  <2>3. CASE i \notin DOMAIN q /\ j \in DOMAIN q
    BY <1>6, <1>7, <1>8, <2>3
  <2>4. CASE i \notin DOMAIN q /\ j \notin DOMAIN q
    <3>1. u[i - Len(q)] = u[j - Len(q)]
      BY <1>1, <1>2, <2>4
    <3>2. i - Len(q) = j - Len(q)
      BY <1>2, <1>6, <2>4, <3>1 DEF Once
    <3> QED BY <1>1, <3>2
  <2> QED BY <2>1, <2>2, <2>3, <2>4
<1> QED BY <1>1, <1>5, <1>6 DEF r

\* A queue without its k oldest events.
LEMMA ItemsSplit ==
  ASSUME NEW q \in Seq(Events), NEW k \in 0 .. Len(q)
  PROVE  /\ SubSeq(q, 1, k) \in Seq(Events)
         /\ SubSeq(q, k + 1, Len(q)) \in Seq(Events)
         /\ Len(SubSeq(q, k + 1, Len(q))) = Len(q) - k
         /\ ItemsOf(q) = ItemsOf(SubSeq(q, 1, k)) \cup ItemsOf(SubSeq(q, k + 1, Len(q)))
         /\ Once(q) => Once(SubSeq(q, k + 1, Len(q)))
<1> DEFINE a == SubSeq(q, 1, k)
           b == SubSeq(q, k + 1, Len(q))
<1>1. /\ a \in Seq(Events) /\ b \in Seq(Events)
      /\ Len(q) \in Nat /\ k \in Nat /\ Len(b) = Len(q) - k
      /\ DOMAIN q = 1 .. Len(q) /\ DOMAIN a = 1 .. k /\ DOMAIN b = 1 .. Len(q) - k
      /\ \A i \in 1 .. k : a[i] = q[i]
      /\ \A i \in 1 .. Len(q) - k : b[i] = q[k + i]
  OBVIOUS
<1> HIDE DEF a, b
<1>2. \A i \in DOMAIN q : \/ i \in DOMAIN a
                          \/ i - k \in DOMAIN b /\ i = k + (i - k)
  BY <1>1
<1>3. DOMAIN a \subseteq DOMAIN q /\ \A i \in DOMAIN b : k + i \in DOMAIN q
  BY <1>1
<1>4. \A i \in DOMAIN q : q[i] \in ItemsOf(a) \cup ItemsOf(b)
  BY <1>1, <1>2 DEF ItemsOf
<1>5. ItemsOf(q) = ItemsOf(a) \cup ItemsOf(b)
  <2>1. ItemsOf(q) \subseteq ItemsOf(a) \cup ItemsOf(b)
    BY <1>4 DEF ItemsOf
  <2>2. \A i \in DOMAIN a : a[i] = q[i] /\ i \in DOMAIN q
    BY <1>1, <1>3
  <2>3. \A i \in DOMAIN b : b[i] = q[k + i] /\ k + i \in DOMAIN q
    BY <1>1, <1>3
  <2>4. ItemsOf(a) \subseteq ItemsOf(q)
    BY <2>2 DEF ItemsOf
  <2>5. ItemsOf(b) \subseteq ItemsOf(q)
    BY <2>3 DEF ItemsOf
  <2> QED BY <2>1, <2>4, <2>5
<1>6. ASSUME Once(q) PROVE Once(b)
  <2> SUFFICES ASSUME NEW i \in DOMAIN b, NEW j \in DOMAIN b, b[i] = b[j]
               PROVE  i = j
    BY DEF Once
  <2>1. q[k + i] = q[k + j] /\ k + i \in DOMAIN q /\ k + j \in DOMAIN q
    BY <1>1, <1>3
  <2>2. k + i = k + j
    BY <1>6, <2>1 DEF Once
  <2> QED BY <1>1, <2>2
<1> QED BY <1>1, <1>5, <1>6 DEF a, b

\* A channel whose first message is taken.
LEMMA ItemsTail ==
  ASSUME NEW q \in Seq(Events), q # <<>>
  PROVE  /\ Tail(q) \in Seq(Events)
         /\ Head(q) \in Events /\ Head(q) \in ItemsOf(q)
         /\ ItemsOf(Tail(q)) \subseteq ItemsOf(q)
         /\ Once(q) => Once(Tail(q)) /\ Head(q) \notin ItemsOf(Tail(q))
<1> DEFINE b == Tail(q)
<1>1. /\ b \in Seq(Events) /\ Len(q) \in Nat /\ Len(q) >= 1
      /\ DOMAIN q = 1 .. Len(q) /\ DOMAIN b = 1 .. Len(q) - 1
      /\ \A i \in 1 .. Len(q) - 1 : b[i] = q[i + 1]
      /\ Head(q) = q[1] /\ q[1] \in Events
  OBVIOUS
<1> HIDE DEF b
<1>2. 1 \in DOMAIN q /\ \A i \in DOMAIN b : i + 1 \in DOMAIN q /\ i + 1 # 1
  BY <1>1
<1>3. Head(q) \in ItemsOf(q) /\ ItemsOf(b) \subseteq ItemsOf(q)
  BY <1>1, <1>2 DEF ItemsOf
<1>4. ASSUME Once(q) PROVE Once(b)
  BY <1>1, <1>2, <1>4 DEF Once
<1>5. ASSUME Once(q) PROVE Head(q) \notin ItemsOf(b)
  BY <1>1, <1>2, <1>5 DEF Once, ItemsOf
<1> QED BY <1>1, <1>3, <1>4, <1>5 DEF b

\* An empty sequence.
LEMMA ItemsEmpty == <<>> \in Seq(Events) /\ ItemsOf(<<>>) = {} /\ Once(<<>>)
  BY DEF ItemsOf, Once

\* A sequence of events holds events.
LEMMA ItemsTyped ==
  ASSUME NEW q \in Seq(Events)
  PROVE  ItemsOf(q) \subseteq Events
  BY DEF ItemsOf

-----------------------------------------------------------------------------
(***************************************************************************)
(* The inductive invariant and its steps.                                  *)
(***************************************************************************)
\* The life of the session and the way of its events together.
PathInv == SessionInv /\ EventsInv /\ QueuedEventAccounted /\ DeliveredOnce

\* A started event is recorded with a session and a branch.
LEMMA RecordOf ==
  ASSUME EventsTypeOK, NEW e \in 1 .. Len(by)
  PROVE  by[e] \in [sess : Sessions, queued : BOOLEAN] /\ by[e].sess \in Sessions
<1> DEFINE R == [sess : Sessions, queued : BOOLEAN]
<1>1. by \in Seq(R)
  BY DEF EventsTypeOK
<1> HIDE DEF R
<1>2. by[e] \in R
  BY <1>1
<1> QED BY <1>2 DEF R

\* A connection keeps the session it resolved to, a session stays created, and
\* its channel stays one of its own connections'.
LEMMA LifeKeepsSessions ==
  ASSUME SessionInv, SenderServes, [Next]_vars
  PROVE  /\ SenderServes'
         /\ \A c \in Conns : sess[c] # NoSession => sess'[c] = sess[c]
         /\ \A s \in Sessions : Created(s) => Created(s)'
<1> USE ConnsAssumption DEF Sessions
<1>0. /\ sess \in [Conns -> Conns \cup {NoSession}] /\ sender \in [Conns -> Conns]
      /\ \A c \in Conns : pc[c] = "upgrading" => sess[c] = NoSession
      /\ \A c \in Conns : pc[c] = "bumped" => sess[c] # NoSession
  BY DEF SessionInv, TypeOK, SessionOfConn
<1>1. CASE UNCHANGED <<sess, sender>>
  BY <1>1 DEF SenderServes, Created
<1>2. ASSUME NEW c \in Conns, ResolveNew(c)
      PROVE  /\ SenderServes'
             /\ \A d \in Conns : sess[d] # NoSession => sess'[d] = sess[d]
             /\ \A s \in Conns : Created(s) => Created(s)'
  <2>1. /\ sess[c] = NoSession /\ sess' = [sess EXCEPT ![c] = c]
        /\ sender' = [sender EXCEPT ![c] = c]
    BY <1>0, <1>2 DEF ResolveNew
  <2> QED BY <1>0, <2>1 DEF SenderServes, Created
<1>3. ASSUME NEW c \in Conns, ResolveTake(c)
      PROVE  /\ SenderServes'
             /\ \A d \in Conns : sess[d] # NoSession => sess'[d] = sess[d]
             /\ \A s \in Conns : Created(s) => Created(s)'
  <2>1. /\ sess[c] = NoSession /\ sess' = [sess EXCEPT ![c] = want[c]]
        /\ sender' = sender
    BY <1>0, <1>3 DEF ResolveTake, sessVars
  <2>2. want[c] \in Conns /\ Created(want[c])
    BY <1>3 DEF ResolveTake, SessionInv, TypeOK, MapsAgree
  <2> QED BY <1>0, <2>1, <2>2 DEF SenderServes, Created
<1>4. ASSUME NEW c \in Conns, ResolveSwap(c)
      PROVE  /\ SenderServes'
             /\ \A d \in Conns : sess[d] # NoSession => sess'[d] = sess[d]
             /\ \A s \in Conns : Created(s) => Created(s)'
  <2>1. /\ sess' = sess /\ sess[c] \in Conns
        /\ sender' = [sender EXCEPT ![sess[c]] = c]
    BY <1>0, <1>4 DEF ResolveSwap
  <2> QED BY <1>0, <2>1 DEF SenderServes, Created
<1>5. CASE Next /\ ~\E c \in Conns : ResolveNew(c) \/ ResolveTake(c) \/ ResolveSwap(c)
  <2>1. UNCHANGED <<sess, sender>>
    BY <1>5 DEF Next, Upgrade, Resolve, ResolveBump, ResolveJoin, Greet, LeaveLoop,
                Close, CloseFinal, CloseMark, CloseUnlist, CloseClear, CloseCount,
                CloseList, CloseSpawn, UpdateSession, Expire, connVars, sessVars
  <2> QED BY <1>1, <2>1
<1>6. CASE UNCHANGED vars
  BY <1>1, <1>6 DEF vars, connVars, sessVars
<1> QED BY <1>2, <1>3, <1>4, <1>5, <1>6

\* A step of the session's life leaves every event where it is.
LEMMA LifePath ==
  ASSUME PathInv, [Next]_vars, UNCHANGED eventVars
  PROVE  EventsInv' /\ QueuedEventAccounted' /\ DeliveredOnce'
<1>1. /\ SenderServes'
      /\ \A c \in Conns : sess[c] # NoSession => sess'[c] = sess[c]
      /\ \A s \in Sessions : Created(s) => Created(s)'
  BY LifeKeepsSessions DEF PathInv, EventsInv
<1> USE DEF eventVars
<1>2. EventsTypeOK' /\ QueueWithinCaps' /\ QueueIsFresh' /\ ReceivedIsEmitted'
  BY DEF PathInv, EventsInv, EventsTypeOK, QueueWithinCaps, QueueIsFresh, ReceivedIsEmitted
<1>3. SendingIsFresh'
  <2>1. \A p \in Producers : \A m \in sending[p] : m.sess \in Sessions
    BY DEF PathInv, EventsInv, EventsTypeOK, Sending
  <2> QED BY <1>1, <2>1 DEF PathInv, EventsInv, SendingIsFresh
<1>4. ChannelIsFresh'
  <2>1. ASSUME NEW c \in Conns, NEW e \in ItemsOf(channel[c])
        PROVE  sess'[c] = sess[c]
    <3>1. channel[c] \in Seq(Events) /\ emitted \in Nat /\ Len(by) = emitted
      BY EventsAssumption DEF PathInv, EventsInv, EventsTypeOK
    <3>3. e <= emitted /\ by[e] = [sess |-> sess[c], queued |-> FALSE]
      BY DEF PathInv, EventsInv, ChannelIsFresh
    <3>5. e \in Events
      BY <3>1, ItemsTyped
    <3>4. e \in 1 .. Len(by)
      BY <3>1, <3>3, <3>5 DEF Events
    <3>2. by[e] \in [sess : Sessions, queued : BOOLEAN]
      BY <3>4, RecordOf DEF PathInv, EventsInv
    <3>6. sess[c] \in Sessions
      BY <3>2, <3>3
    <3> QED BY <1>1, <3>6, ConnsAssumption DEF Sessions
  <2> QED BY <2>1 DEF PathInv, EventsInv, ChannelIsFresh
<1>5. QueuedEventAccounted' /\ DeliveredOnce'
  BY DEF PathInv, QueuedEventAccounted, DeliveredOnce
<1> QED BY <1>1, <1>2, <1>3, <1>4, <1>5 DEF EventsInv

\* What the invariant says of one producer that has an event in its hands.
LEMMA SendingOne ==
  ASSUME PathInv, NEW p \in Producers, NEW m \in sending[p]
  PROVE  /\ m \in Sending /\ m.ev \in Events /\ m.ev <= emitted /\ m.sess \in Sessions
         /\ m.sawPaused \in BOOLEAN
         /\ by[m.ev].sess = m.sess /\ by[m.ev].queued = m.sawPaused
         /\ by[m.ev] = [sess |-> m.sess, queued |-> m.sawPaused]
         /\ sess[sender[m.sess]] = m.sess /\ sender[m.sess] \in Conns
         /\ \A o \in Producers : \A n \in sending[o] : n.ev = m.ev => o = p /\ n = m
         /\ \A s \in Sessions : m.ev \notin ItemsOf(queue[s]) /\ m.ev \notin ItemsOf(received[s])
         /\ \A c \in Conns : m.ev \notin ItemsOf(channel[c])
<1>1. /\ m \in Sending /\ m.ev \in Events /\ m.sess \in Sessions /\ m.sawPaused \in BOOLEAN
      /\ \A n \in sending[p] : n = m
  BY DEF PathInv, EventsInv, EventsTypeOK, Sending
<1>2. /\ m.ev <= emitted /\ Created(m.sess)
      /\ by[m.ev] = [sess |-> m.sess, queued |-> m.sawPaused]
      /\ \A o \in Producers : \A n \in sending[o] : n.ev = m.ev => o = p
      /\ \A s \in Sessions : m.ev \notin ItemsOf(queue[s]) /\ m.ev \notin ItemsOf(received[s])
      /\ \A c \in Conns : m.ev \notin ItemsOf(channel[c])
  BY DEF PathInv, EventsInv, SendingIsFresh
<1>3. sess[sender[m.sess]] = m.sess /\ sender[m.sess] \in Conns
  BY <1>1, <1>2 DEF PathInv, SessionInv, TypeOK, EventsInv, SenderServes
<1> QED BY <1>1, <1>2, <1>3

\* send_json loads paused: the new event is in the producer's hands only.
LEMMA LoadPausedPath ==
  ASSUME PathInv, NEW p \in Producers, NEW s \in Sessions, LoadPaused(p, s)
  PROVE  EventsInv' /\ QueuedEventAccounted' /\ DeliveredOnce'
<1> DEFINE m == [ev |-> emitted + 1, sess |-> s, sawPaused |-> paused[s]]
           w == [sess |-> s, queued |-> paused[s]]
<1>1. /\ sending \in [Producers -> SUBSET Sending] /\ emitted \in Nat
      /\ paused[s] \in BOOLEAN /\ emitted + 1 \in Events
      /\ by \in Seq([sess : Sessions, queued : BOOLEAN]) /\ Len(by) = emitted
  BY EventsAssumption
  DEF PathInv, SessionInv, TypeOK, EventsInv, EventsTypeOK, LoadPaused, Events
<1>2. m \in Sending /\ m.ev = emitted + 1 /\ m.sess = s /\ m.sawPaused = paused[s]
  BY <1>1 DEF Sending
<1>3. w \in [sess : Sessions, queued : BOOLEAN] /\ w.sess = s /\ w.queued = paused[s]
  BY <1>1
<1> HIDE DEF m, w
<1>4. /\ by' = Append(by, w) /\ sending' = [sending EXCEPT ![p] = {m}]
      /\ emitted' = emitted + 1 /\ emitted < MaxEvents
      /\ sending[p] = {} /\ Created(s)
      /\ UNCHANGED <<vars, queue, queueBytes, channel, received, evicted>>
  BY DEF LoadPaused, m, w
<1>5. /\ by' \in Seq([sess : Sessions, queued : BOOLEAN]) /\ Len(by') = emitted + 1
      /\ by'[emitted + 1] = w /\ DOMAIN by = 1 .. emitted /\ DOMAIN by' = 1 .. emitted + 1
      /\ \A x \in 1 .. emitted : by'[x] = by[x]
  BY <1>1, <1>3, <1>4
<1>6. /\ sending' \in [Producers -> SUBSET Sending] /\ sending'[p] = {m}
      /\ \A o \in Producers \ {p} : sending'[o] = sending[o]
  BY <1>1, <1>2, <1>4
<1>7. EventsTypeOK'
  BY <1>1, <1>4, <1>5, <1>6, EventsAssumption DEF PathInv, EventsInv, EventsTypeOK
<1>8. QueueWithinCaps' /\ SenderServes' /\ sess' = sess /\ \A x \in Sessions : Created(x) => Created(x)'
  BY <1>4 DEF PathInv, EventsInv, QueueWithinCaps, SenderServes, vars, connVars, sessVars, Created
<1>9. /\ \A x \in Sessions : \A e \in ItemsOf(queue[x]) \cup ItemsOf(received[x]) :
            e \in 1 .. emitted /\ e # emitted + 1
      /\ \A c \in Conns : \A e \in ItemsOf(channel[c]) : e \in 1 .. emitted /\ e # emitted + 1
  <2>1. /\ \A x \in Sessions : ItemsOf(queue[x]) \subseteq Events /\ ItemsOf(received[x]) \subseteq Events
        /\ \A c \in Conns : ItemsOf(channel[c]) \subseteq Events
    BY ItemsTyped DEF PathInv, EventsInv, EventsTypeOK
  <2>2. /\ \A x \in Sessions : \A e \in ItemsOf(queue[x]) : e <= emitted
        /\ \A x \in Sessions : \A e \in ItemsOf(received[x]) : e <= emitted
        /\ \A c \in Conns : \A e \in ItemsOf(channel[c]) : e <= emitted
    BY DEF PathInv, EventsInv, QueueIsFresh, ChannelIsFresh, ReceivedIsEmitted
  <2>3. \A e \in Events : e <= emitted => e \in 1 .. emitted /\ e # emitted + 1
    BY <1>1 DEF Events
  <2> QED BY <2>1, <2>2, <2>3
<1>10. SendingIsFresh'
  <2>1. ASSUME NEW o \in Producers \ {p}, NEW n \in sending[o]
        PROVE  n.ev \in 1 .. emitted /\ n.ev # emitted + 1
    <3>1. n.ev \in Events /\ n.ev <= emitted
      BY SendingOne
    <3> QED BY <1>1, <3>1 DEF Events
  <2>2. by'[m.ev] = [sess |-> m.sess, queued |-> m.sawPaused]
    BY <1>2, <1>5 DEF w
  <2> SUFFICES ASSUME NEW o \in Producers, NEW n \in sending'[o]
               PROVE  /\ n.ev <= emitted' /\ Created(n.sess)'
                      /\ by'[n.ev] = [sess |-> n.sess, queued |-> n.sawPaused]
                      /\ \A r \in Producers : \A l \in sending'[r] : l.ev = n.ev => r = o
                      /\ \A x \in Sessions :
                            n.ev \notin ItemsOf(queue'[x]) \cup ItemsOf(received'[x])
                      /\ \A c \in Conns : n.ev \notin ItemsOf(channel'[c])
    BY DEF SendingIsFresh
  <2>3. CASE o = p
    <3>1. n = m
      BY <1>6, <2>3
    <3> QED BY <1>1, <1>2, <1>4, <1>6, <1>8, <1>9, <2>1, <2>2, <2>3, <3>1
  <2>4. CASE o # p
    <3>1. n \in sending[o] /\ by'[n.ev] = by[n.ev]
      BY <1>5, <1>6, <2>1, <2>4
    <3>2. n.ev <= emitted' /\ Created(n.sess)'
      <4>1. n.ev \in 1 .. emitted /\ n.sess \in Sessions
        BY <2>1, <2>4, <3>1, SendingOne
      <4>2. Created(n.sess)
        BY <3>1 DEF PathInv, EventsInv, SendingIsFresh
      <4> QED BY <1>1, <1>4, <1>8, <4>1, <4>2
    <3> QED BY <1>2, <1>4, <1>6, <2>1, <2>4, <3>1, <3>2, SendingOne
  <2> QED BY <2>3, <2>4
<1>11. QueueIsFresh'
  BY <1>1, <1>4, <1>5, <1>9 DEF PathInv, EventsInv, QueueIsFresh
<1>12. ChannelIsFresh'
  BY <1>1, <1>4, <1>5, <1>8, <1>9 DEF PathInv, EventsInv, ChannelIsFresh
<1>13. ReceivedIsEmitted'
  BY <1>1, <1>4, <1>9 DEF ReceivedIsEmitted
<1>14. QueuedEventAccounted'
  <2> SUFFICES ASSUME NEW e \in DOMAIN by', by'[e].queued
               PROVE  \/ e \in evicted'
                      \/ \E o \in Producers : \E n \in sending'[o] : n.ev = e
                      \/ e \in ItemsOf(queue'[by'[e].sess])
                      \/ e \in ItemsOf(received'[by'[e].sess])
    BY DEF QueuedEventAccounted
  <2>1. CASE e = emitted + 1
    BY <1>2, <1>6, <2>1
  <2>2. CASE e # emitted + 1
    <3>1. e \in DOMAIN by /\ by'[e] = by[e]
      BY <1>1, <1>5, <2>2
    <3>2. \/ e \in evicted
          \/ \E o \in Producers : \E n \in sending[o] : n.ev = e
          \/ e \in ItemsOf(queue[by[e].sess])
          \/ e \in ItemsOf(received[by[e].sess])
      BY <3>1 DEF PathInv, QueuedEventAccounted
    <3>3. \A o \in Producers : sending[o] \subseteq sending'[o]
      BY <1>4, <1>6
    <3> QED BY <1>4, <3>1, <3>2, <3>3
  <2> QED BY <2>1, <2>2
<1>15. DeliveredOnce'
  BY <1>4, <1>5, <1>9 DEF PathInv, DeliveredOnce
<1> QED BY <1>7, <1>8, <1>10, <1>11, <1>12, <1>13, <1>14, <1>15 DEF EventsInv

\* The numbers the queue's lock decides: how many events go.
LEMMA VictimsRule ==
  ASSUME PathInv, NEW s \in Sessions, NEW e \in Events
  PROVE  /\ Victims(s, e) \in 0 .. Len(queue[s])
         /\ \/ /\ Len(queue[s]) - Victims(s, e) < MaxQueue
               /\ queueBytes[s] - BytesOf(SubSeq(queue[s], 1, Victims(s, e)))
                     + EventSize[e] <= MaxBytes
            \/ Victims(s, e) = Len(queue[s])
<1> DEFINE n == Len(queue[s])
           Fits(k) == \/ /\ n - k < MaxQueue
                         /\ queueBytes[s] - BytesOf(SubSeq(queue[s], 1, k))
                              + EventSize[e] <= MaxBytes
                      \/ k = n
           Choices == {k \in 0 .. n : Fits(k)}
<1>1. n \in Nat
  BY DEF PathInv, EventsInv, EventsTypeOK
<1>2. Choices \subseteq Nat /\ n \in Choices
  <2>1. n \in 0 .. n /\ 0 .. n \subseteq Nat
    BY <1>1
  <2> HIDE DEF n
  <2> QED BY <2>1, Zenon
<1>3. PICK k \in Choices : \A j \in Choices : k <= j
  BY <1>2, LeastNumber, Zenon
<1>4. \A j \in 0 .. k - 1 : j \notin Choices
  BY <1>1, <1>3
<1>5. \A j \in 0 .. k - 1 : ~(/\ n - j < MaxQueue
                              /\ queueBytes[s] - BytesOf(SubSeq(queue[s], 1, j))
                                   + EventSize[e] <= MaxBytes)
  BY <1>1, <1>3, <1>4
<1>6. k \in 0 .. n /\ Fits(k)
  BY <1>3
<1> QED BY <1>5, <1>6 DEF Victims

\* What the events still being sent say after one producer is done.
LEMMA SentOne ==
  ASSUME PathInv, NEW p \in Producers, NEW m \in sending[p],
         sending' = [sending EXCEPT ![p] = {}], UNCHANGED <<vars, emitted, by>>
  PROVE  /\ sending' \in [Producers -> SUBSET Sending]
         /\ \A o \in Producers : \A n, l \in sending'[o] : n = l
         /\ \A o \in Producers : sending'[o] \subseteq sending[o]
         /\ \A o \in Producers : \A n \in sending'[o] : o # p /\ n.ev # m.ev
         /\ \A o \in Producers : \A n \in sending[o] : n \in sending'[o] \/ n.ev = m.ev
         /\ SenderServes' /\ sess' = sess
         /\ \A s \in Sessions : Created(s) => Created(s)'
<1>1. /\ sending \in [Producers -> SUBSET Sending]
      /\ \A o \in Producers : \A n, l \in sending[o] : n = l
  BY DEF PathInv, EventsInv, EventsTypeOK
<1>2. \A o \in Producers : sending'[o] = IF o = p THEN {} ELSE sending[o]
  BY <1>1
<1>3. ASSUME NEW o \in Producers, NEW n \in sending'[o]
      PROVE  o # p /\ n \in sending[o] /\ n.ev # m.ev
  <2>1. o # p /\ n \in sending[o]
    BY <1>2
  <2>2. n.ev = m.ev => o = p
    BY <2>1, SendingOne
  <2> QED BY <2>1, <2>2
<1>4. /\ SenderServes' /\ sess' = sess
      /\ \A s \in Sessions : Created(s) => Created(s)'
  BY DEF PathInv, EventsInv, SenderServes, vars, connVars, sessVars, Created
<1>5. \A o \in Producers : \A n \in sending[o] : n \in sending'[o] \/ n.ev = m.ev
  BY <1>1, <1>2
<1>6. sending' \in [Producers -> SUBSET Sending]
  BY <1>1
<1> QED BY <1>1, <1>2, <1>3, <1>4, <1>5, <1>6

\* The events that stay in their producers' hands, if what the queues, channels
\* and sockets get new is the event that was sent.
LEMMA SendingStaysFresh ==
  ASSUME PathInv, NEW p \in Producers, NEW m \in sending[p],
         sending' = [sending EXCEPT ![p] = {}], UNCHANGED <<vars, emitted, by>>,
         \A s \in Sessions : ItemsOf(queue'[s]) \subseteq ItemsOf(queue[s]) \cup {m.ev},
         \A s \in Sessions : received'[s] = received[s],
         \A c \in Conns : ItemsOf(channel'[c]) \subseteq ItemsOf(channel[c]) \cup {m.ev}
  PROVE  SendingIsFresh'
<1> SUFFICES ASSUME NEW o \in Producers, NEW n \in sending'[o]
             PROVE  /\ n.ev <= emitted' /\ Created(n.sess)'
                    /\ by'[n.ev] = [sess |-> n.sess, queued |-> n.sawPaused]
                    /\ \A r \in Producers : \A l \in sending'[r] : l.ev = n.ev => r = o
                    /\ \A x \in Sessions :
                          n.ev \notin ItemsOf(queue'[x]) \cup ItemsOf(received'[x])
                    /\ \A c \in Conns : n.ev \notin ItemsOf(channel'[c])
  BY DEF SendingIsFresh
<1>1. /\ n \in sending[o] /\ n.ev # m.ev
      /\ \A r \in Producers : sending'[r] \subseteq sending[r]
  <2>1. /\ \A r \in Producers : sending'[r] \subseteq sending[r]
        /\ \A r \in Producers : \A l \in sending'[r] : r # p /\ l.ev # m.ev
    BY SentOne
  <2> QED BY <2>1
<1>2. /\ n.ev <= emitted /\ Created(n.sess) /\ n.sess \in Sessions
      /\ by[n.ev] = [sess |-> n.sess, queued |-> n.sawPaused]
      /\ \A r \in Producers : \A l \in sending[r] : l.ev = n.ev => r = o
      /\ \A x \in Sessions : n.ev \notin ItemsOf(queue[x]) /\ n.ev \notin ItemsOf(received[x])
      /\ \A c \in Conns : n.ev \notin ItemsOf(channel[c])
  BY <1>1, SendingOne DEF PathInv, EventsInv, SendingIsFresh
<1>3. Created(n.sess)'
  BY <1>2, SentOne
<1> QED BY <1>1, <1>2, <1>3

\* send_json under the queue's lock: the event is in the queue and nowhere
\* else, what made room is dropped, and the caps are met.
LEMMA PushQueuePath ==
  ASSUME PathInv, NEW p \in Producers, PushQueue(p)
  PROVE  EventsInv' /\ QueuedEventAccounted' /\ DeliveredOnce'
<1>1. PICK m \in sending[p] :
        LET s == m.sess
            k == Victims(s, m.ev)
        IN  /\ m.sawPaused
            /\ sending' = [sending EXCEPT ![p] = {}]
            /\ IF MaxQueue = 0 \/ EventSize[m.ev] > MaxBytes
                 THEN /\ evicted' = evicted \cup {m.ev}
                      /\ UNCHANGED <<queue, queueBytes>>
                 ELSE /\ queue' = [queue EXCEPT ![s] =
                                      Append(SubSeq(@, k + 1, Len(@)), m.ev)]
                      /\ queueBytes' = [queueBytes EXCEPT ![s] =
                             @ - BytesOf(SubSeq(queue[s], 1, k)) + EventSize[m.ev]]
                      /\ evicted' = evicted \cup ItemsOf(SubSeq(queue[s], 1, k))
            /\ UNCHANGED <<vars, emitted, by, channel, received>>
  BY DEF PushQueue
<1> DEFINE s == m.sess
           k == Victims(s, m.ev)
           q == queue[s]
           front == SubSeq(q, 1, k)
           rest == SubSeq(q, k + 1, Len(q))
<1>2. /\ m \in Sending /\ m.ev \in Events /\ m.ev <= emitted /\ s \in Sessions
      /\ by[m.ev] = [sess |-> s, queued |-> TRUE]
      /\ by[m.ev].sess = s
      /\ m.ev \notin ItemsOf(q) /\ m.ev \notin ItemsOf(received[s])
  BY <1>1, SendingOne
<1>3. /\ sending' \in [Producers -> SUBSET Sending]
      /\ \A o \in Producers : \A n, l \in sending'[o] : n = l
      /\ \A o \in Producers : \A n \in sending[o] : n \in sending'[o] \/ n.ev = m.ev
      /\ SenderServes' /\ sess' = sess
  BY <1>1, SentOne
<1>4. UNCHANGED <<vars, emitted, by, channel, received>>
  BY <1>1
<1>5. /\ emitted \in 0 .. MaxEvents /\ q \in Seq(Events)
      /\ queue \in [Sessions -> Seq(Events)] /\ queueBytes \in [Sessions -> Nat]
      /\ by \in Seq([sess : Sessions, queued : BOOLEAN]) /\ Len(by) = emitted
      /\ channel \in [Conns -> Seq(Events)] /\ received \in [Sessions -> Seq(Events)]
      /\ evicted \subseteq Events
  BY <1>2 DEF PathInv, EventsInv, EventsTypeOK
<1>6. ReceivedIsEmitted' /\ DeliveredOnce' /\ ChannelIsFresh'
  BY <1>3, <1>4 DEF PathInv, EventsInv, ReceivedIsEmitted, DeliveredOnce, ChannelIsFresh
<1>7. CASE MaxQueue = 0 \/ EventSize[m.ev] > MaxBytes
  <2>1. evicted' = evicted \cup {m.ev} /\ UNCHANGED <<queue, queueBytes>>
    BY <1>1, <1>7
  <2>2. EventsTypeOK'
    BY <1>2, <1>3, <1>4, <1>5, <2>1 DEF EventsTypeOK
  <2>3. QueueWithinCaps' /\ QueueIsFresh'
    BY <1>4, <2>1 DEF PathInv, EventsInv, QueueWithinCaps, QueueIsFresh
  <2>4. SendingIsFresh'
    BY <1>1, <1>4, <2>1, SendingStaysFresh
  <2>5. QueuedEventAccounted'
    BY <1>3, <1>4, <2>1 DEF PathInv, QueuedEventAccounted
  <2> QED BY <1>3, <1>6, <2>2, <2>3, <2>4, <2>5 DEF EventsInv
<1>8. CASE ~(MaxQueue = 0 \/ EventSize[m.ev] > MaxBytes)
  <2>1. /\ queue' = [queue EXCEPT ![s] = Append(rest, m.ev)]
        /\ queueBytes' = [queueBytes EXCEPT ![s] = @ - BytesOf(front) + EventSize[m.ev]]
        /\ evicted' = evicted \cup ItemsOf(front)
    BY <1>1, <1>8
  <2>2. /\ k \in 0 .. Len(q)
        /\ \/ /\ Len(q) - k < MaxQueue
              /\ queueBytes[s] - BytesOf(front) + EventSize[m.ev] <= MaxBytes
           \/ k = Len(q)
    BY <1>2, VictimsRule
  <2> HIDE DEF k
  <2>3. /\ front \in Seq(Events) /\ rest \in Seq(Events) /\ Len(rest) = Len(q) - k
        /\ ItemsOf(q) = ItemsOf(front) \cup ItemsOf(rest)
        /\ Once(q) => Once(rest)
    BY <1>5, <2>2, ItemsSplit
  <2>4. /\ BytesOf(rest) = BytesOf(q) - BytesOf(front)
        /\ BytesOf(rest) \in Nat /\ BytesOf(q) \in Nat /\ BytesOf(front) \in Nat
        /\ BytesOf(Append(rest, m.ev)) = BytesOf(rest) + EventSize[m.ev]
    <3>1. BytesOf(rest) = BytesOf(q) - BytesOf(front)
      BY <1>5, <2>2, BytesRules
    <3> HIDE DEF front, rest, q
    <3> QED BY <1>2, <1>5, <2>3, <3>1, BytesRules
  <2>5. EventSize[m.ev] \in Nat /\ EventSize[m.ev] <= MaxBytes /\ MaxQueue \in Nat \ {0}
        /\ MaxBytes \in Nat
    BY <1>2, <1>8, EventsAssumption
  <2>6. queueBytes[s] = BytesOf(q) /\ Len(q) \in Nat
    BY <1>2, <1>5 DEF PathInv, EventsInv, QueueWithinCaps
  <2>7. k = Len(q) => BytesOf(rest) = 0
    <3> SUFFICES ASSUME k = Len(q) PROVE BytesOf(rest) = 0
      OBVIOUS
    <3>1. rest = <<>>
      BY <1>5, <2>6
    <3> QED BY <3>1, BytesRules
  <2> HIDE DEF front, rest, q
  <2>8. /\ Append(rest, m.ev) \in Seq(Events)
        /\ Len(Append(rest, m.ev)) = Len(q) - k + 1
        /\ ItemsOf(Append(rest, m.ev)) = ItemsOf(rest) \cup {m.ev}
        /\ Once(rest) /\ m.ev \notin ItemsOf(rest) => Once(Append(rest, m.ev))
    <3>1. Len(Append(rest, m.ev)) = Len(rest) + 1
      BY <1>2, <2>3
    <3> QED BY <1>2, <2>3, <3>1, ItemsAppend
  <2>9. /\ queue' \in [Sessions -> Seq(Events)] /\ queue'[s] = Append(rest, m.ev)
        /\ \A x \in Sessions \ {s} : queue'[x] = queue[x]
    BY <1>2, <1>5, <2>1, <2>8
  <2>10. /\ queueBytes'[s] = BytesOf(rest) + EventSize[m.ev]
         /\ queueBytes' \in [Sessions -> Nat]
         /\ \A x \in Sessions \ {s} : queueBytes'[x] = queueBytes[x]
    <3>1. queueBytes[s] - BytesOf(front) + EventSize[m.ev] = BytesOf(rest) + EventSize[m.ev]
      BY <2>4, <2>5, <2>6
    <3>2. BytesOf(rest) + EventSize[m.ev] \in Nat
      BY <2>4, <2>5
    <3> QED BY <1>2, <1>5, <2>1, <3>1, <3>2
  <2>11. EventsTypeOK'
    <3>1. evicted' \subseteq Events
      BY <1>5, <2>1, <2>3, ItemsTyped
    <3> QED BY <1>3, <1>4, <1>5, <2>9, <2>10, <3>1 DEF EventsTypeOK
  <2>12. QueueWithinCaps'
    <3>1. Len(queue'[s]) <= MaxQueue
      BY <2>2, <2>5, <2>6, <2>8, <2>9
    <3>2. queueBytes'[s] <= MaxBytes
      BY <2>2, <2>4, <2>5, <2>6, <2>7, <2>10
    <3>3. queueBytes'[s] = BytesOf(queue'[s])
      BY <2>4, <2>9, <2>10
    <3> QED BY <2>9, <2>10, <3>1, <3>2, <3>3 DEF PathInv, EventsInv, QueueWithinCaps
  <2>13. SendingIsFresh'
    <3>1. \A x \in Sessions : ItemsOf(queue'[x]) \subseteq ItemsOf(queue[x]) \cup {m.ev}
      BY <2>3, <2>8, <2>9 DEF q
    <3> QED BY <1>1, <1>4, <3>1, SendingStaysFresh
  <2>14. QueueIsFresh'
    <3>1. /\ Once(q)
          /\ \A e \in ItemsOf(q) : /\ e <= emitted
                                   /\ by[e] = [sess |-> s, queued |-> TRUE]
                                   /\ e \notin ItemsOf(received[s])
      BY <1>2 DEF PathInv, EventsInv, QueueIsFresh, q
    <3>2. Once(queue'[s])
      BY <1>2, <2>3, <2>8, <2>9, <3>1
    <3>3. \A e \in ItemsOf(queue'[s]) : /\ e <= emitted'
                                        /\ by'[e] = [sess |-> s, queued |-> TRUE]
                                        /\ e \notin ItemsOf(received'[s])
      BY <1>2, <1>4, <2>3, <2>8, <2>9, <3>1
    <3> HIDE DEF s
    <3> QED BY <1>4, <2>9, <3>2, <3>3 DEF PathInv, EventsInv, QueueIsFresh
  <2>15. QueuedEventAccounted'
    <3> SUFFICES ASSUME NEW e \in DOMAIN by, by[e].queued
                 PROVE  \/ e \in evicted'
                        \/ \E o \in Producers : \E n \in sending'[o] : n.ev = e
                        \/ e \in ItemsOf(queue'[by[e].sess])
                        \/ e \in ItemsOf(received[by[e].sess])
      BY <1>4 DEF QueuedEventAccounted
    <3>1. \/ e \in evicted
          \/ \E o \in Producers : \E n \in sending[o] : n.ev = e
          \/ e \in ItemsOf(queue[by[e].sess])
          \/ e \in ItemsOf(received[by[e].sess])
      BY DEF PathInv, QueuedEventAccounted
    <3>2. CASE e \in ItemsOf(queue[by[e].sess])
      <4>0. e \in 1 .. Len(by)
        BY <1>5
      <4>1. by[e].sess \in Sessions
        BY <4>0, RecordOf DEF PathInv, EventsInv
      <4>2. CASE by[e].sess = s
        BY <2>1, <2>3, <2>8, <2>9, <3>2, <4>2 DEF q
      <4>3. CASE by[e].sess # s
        BY <2>9, <3>2, <4>1, <4>3
      <4> QED BY <4>2, <4>3
    <3>3. CASE \E o \in Producers : \E n \in sending[o] : n.ev = e
      <4>1. CASE e = m.ev
        BY <1>2, <2>8, <2>9, <4>1
      <4>2. CASE e # m.ev
        BY <1>3, <3>3, <4>2
      <4> QED BY <4>1, <4>2
    <3> QED BY <2>1, <3>1, <3>2, <3>3
  <2> QED BY <1>3, <1>6, <2>11, <2>12, <2>13, <2>14, <2>15 DEF EventsInv
<1> QED BY <1>7, <1>8

\* send_json without paused: the event goes to the session's channel or nowhere.
LEMMA TrySendPath ==
  ASSUME PathInv, NEW p \in Producers, TrySend(p)
  PROVE  EventsInv' /\ QueuedEventAccounted' /\ DeliveredOnce'
<1>1. PICK m \in sending[p] :
        LET c == sender[m.sess]
        IN  /\ ~m.sawPaused
            /\ sending' = [sending EXCEPT ![p] = {}]
            /\ channel' = IF pc[c] # "gone" /\ Len(channel[c]) < ChannelCap
                            THEN [channel EXCEPT ![c] = Append(@, m.ev)]
                            ELSE channel
            /\ UNCHANGED <<vars, emitted, by, queue, queueBytes, received, evicted>>
  BY DEF TrySend
<1> DEFINE c == sender[m.sess]
<1>2. /\ m.ev \in Events /\ m.ev <= emitted /\ c \in Conns
      /\ by[m.ev] = [sess |-> sess[c], queued |-> FALSE] /\ by[m.ev].queued = FALSE
      /\ sess[c] \in Sessions /\ m.ev \notin ItemsOf(received[sess[c]])
      /\ \A d \in Conns : m.ev \notin ItemsOf(channel[d])
  BY <1>1, SendingOne
<1>3. /\ sending' \in [Producers -> SUBSET Sending]
      /\ \A o \in Producers : \A n, l \in sending'[o] : n = l
      /\ \A o \in Producers : \A n \in sending[o] : n \in sending'[o] \/ n.ev = m.ev
      /\ SenderServes' /\ sess' = sess
  BY <1>1, SentOne
<1>4. UNCHANGED <<vars, emitted, by, queue, queueBytes, received, evicted>>
  BY <1>1
<1>5. channel \in [Conns -> Seq(Events)] /\ channel[c] \in Seq(Events)
  BY <1>2 DEF PathInv, EventsInv, EventsTypeOK
<1>6. /\ Append(channel[c], m.ev) \in Seq(Events)
      /\ ItemsOf(Append(channel[c], m.ev)) = ItemsOf(channel[c]) \cup {m.ev}
      /\ Once(channel[c]) /\ m.ev \notin ItemsOf(channel[c]) => Once(Append(channel[c], m.ev))
  BY <1>2, <1>5, ItemsAppend
<1>7. \/ channel' = channel
      \/ channel' = [channel EXCEPT ![c] = Append(channel[c], m.ev)]
  BY <1>1
<1> HIDE DEF c
<1>8. /\ channel' \in [Conns -> Seq(Events)]
      /\ \A d \in Conns \ {c} : channel'[d] = channel[d]
      /\ channel'[c] \in {channel[c], Append(channel[c], m.ev)}
  BY <1>2, <1>5, <1>6, <1>7
<1>9. \A d \in Conns : ItemsOf(channel'[d]) \subseteq ItemsOf(channel[d]) \cup {m.ev}
  BY <1>6, <1>8
<1>10. EventsTypeOK'
  BY <1>3, <1>4, <1>8 DEF PathInv, EventsInv, EventsTypeOK
<1>11. QueueWithinCaps' /\ QueueIsFresh' /\ ReceivedIsEmitted' /\ DeliveredOnce'
  BY <1>4 DEF PathInv, EventsInv, QueueWithinCaps, QueueIsFresh, ReceivedIsEmitted,
              DeliveredOnce
<1>12. SendingIsFresh'
  BY <1>1, <1>4, <1>9, SendingStaysFresh
<1>13. ChannelIsFresh'
  <2>1. \A d \in Conns : Once(channel'[d])
    BY <1>2, <1>6, <1>8 DEF PathInv, EventsInv, ChannelIsFresh
  <2>2. ASSUME NEW d \in Conns, NEW e \in ItemsOf(channel'[d])
        PROVE  /\ e <= emitted /\ by[e] = [sess |-> sess[d], queued |-> FALSE]
               /\ e \notin ItemsOf(received[sess[d]])
               /\ \A x \in Conns \ {d} : e \notin ItemsOf(channel'[x])
    <3>1. CASE e \in ItemsOf(channel[d])
      <4>1. e # m.ev
        BY <1>2, <3>1
      <4>2. /\ e <= emitted /\ by[e] = [sess |-> sess[d], queued |-> FALSE]
            /\ e \notin ItemsOf(received[sess[d]])
            /\ \A x \in Conns \ {d} : e \notin ItemsOf(channel[x])
        BY <3>1 DEF PathInv, EventsInv, ChannelIsFresh
      <4> QED BY <1>9, <4>1, <4>2
    <3>2. CASE e \notin ItemsOf(channel[d])
      <4>1. e = m.ev /\ d = c
        BY <1>8, <1>9, <2>2, <3>2
      <4> QED BY <1>2, <1>8, <4>1
    <3> QED BY <3>1, <3>2
  <2> QED BY <1>3, <1>4, <2>1, <2>2 DEF ChannelIsFresh
<1>14. QueuedEventAccounted'
  BY <1>2, <1>3, <1>4 DEF PathInv, QueuedEventAccounted
<1> QED BY <1>3, <1>10, <1>11, <1>12, <1>13, <1>14 DEF EventsInv

\* The socket task forwards the first message of its channel.
LEMMA ForwardPath ==
  ASSUME PathInv, NEW c \in Conns, Forward(c)
  PROVE  EventsInv' /\ QueuedEventAccounted' /\ DeliveredOnce'
<1> DEFINE q == channel[c]
           x == Head(q)
           s == sess[c]
<1>1. /\ received' = [received EXCEPT ![s] = Append(@, x)]
      /\ channel' = [channel EXCEPT ![c] = Tail(q)]
      /\ q # <<>> /\ pc[c] = "open"
      /\ UNCHANGED <<vars, emitted, sending, by, queue, queueBytes, evicted>>
  BY DEF Forward
<1>2. /\ channel \in [Conns -> Seq(Events)] /\ q \in Seq(Events)
      /\ received \in [Sessions -> Seq(Events)]
  BY DEF PathInv, EventsInv, EventsTypeOK
<1>3. s \in Sessions
  BY <1>1 DEF PathInv, SessionInv, TypeOK, SessionOfConn
<1>4. /\ Tail(q) \in Seq(Events) /\ x \in Events /\ x \in ItemsOf(q)
      /\ ItemsOf(Tail(q)) \subseteq ItemsOf(q)
      /\ Once(q) => Once(Tail(q)) /\ x \notin ItemsOf(Tail(q))
  BY <1>1, <1>2, ItemsTail
<1> HIDE DEF x, q, s
<1>5. /\ Once(q) /\ x <= emitted /\ by[x] = [sess |-> s, queued |-> FALSE]
      /\ x \notin ItemsOf(received[s])
      /\ \A d \in Conns \ {c} : x \notin ItemsOf(channel[d])
  BY <1>4 DEF PathInv, EventsInv, ChannelIsFresh, q, s
<1>6. /\ Append(received[s], x) \in Seq(Events)
      /\ ItemsOf(Append(received[s], x)) = ItemsOf(received[s]) \cup {x}
      /\ Once(received[s]) => Once(Append(received[s], x))
  BY <1>2, <1>3, <1>4, <1>5, ItemsAppend
<1>7. /\ received' \in [Sessions -> Seq(Events)]
      /\ received'[s] = Append(received[s], x)
      /\ \A y \in Sessions \ {s} : received'[y] = received[y]
  BY <1>1, <1>2, <1>3, <1>6
<1>8. /\ channel' \in [Conns -> Seq(Events)] /\ channel'[c] = Tail(q)
      /\ \A d \in Conns \ {c} : channel'[d] = channel[d]
  BY <1>1, <1>2, <1>4
<1>9. /\ \A d \in Conns : ItemsOf(channel'[d]) \subseteq ItemsOf(channel[d])
      /\ \A d \in Conns : x \notin ItemsOf(channel'[d])
  BY <1>4, <1>5, <1>8 DEF q
<1>10. /\ \A y \in Sessions : ItemsOf(received'[y]) \subseteq ItemsOf(received[y]) \cup {x}
       /\ \A y \in Sessions : ItemsOf(received[y]) \subseteq ItemsOf(received'[y])
       /\ \A y \in Sessions \ {s} : x \notin ItemsOf(received'[y]) \/ x \in ItemsOf(received[y])
  BY <1>6, <1>7
<1>11. sess' = sess /\ SenderServes' /\ QueueWithinCaps'
       /\ \A y \in Sessions : Created(y) => Created(y)'
  BY <1>1 DEF PathInv, EventsInv, SenderServes, QueueWithinCaps, vars, connVars, sessVars,
              Created
<1>12. EventsTypeOK'
  BY <1>1, <1>7, <1>8 DEF PathInv, EventsInv, EventsTypeOK
<1>13. SendingIsFresh'
  <2> SUFFICES ASSUME NEW o \in Producers, NEW n \in sending[o]
               PROVE  /\ n.ev <= emitted /\ Created(n.sess)'
                      /\ by[n.ev] = [sess |-> n.sess, queued |-> n.sawPaused]
                      /\ \A r \in Producers : \A l \in sending[r] : l.ev = n.ev => r = o
                      /\ \A y \in Sessions :
                            n.ev \notin ItemsOf(queue'[y]) \cup ItemsOf(received'[y])
                      /\ \A d \in Conns : n.ev \notin ItemsOf(channel'[d])
    BY <1>1 DEF SendingIsFresh
  <2>1. /\ n.ev <= emitted /\ n.sess \in Sessions
        /\ by[n.ev] = [sess |-> n.sess, queued |-> n.sawPaused]
        /\ \A r \in Producers : \A l \in sending[r] : l.ev = n.ev => r = o
        /\ \A y \in Sessions : n.ev \notin ItemsOf(queue[y]) /\ n.ev \notin ItemsOf(received[y])
        /\ \A d \in Conns : n.ev \notin ItemsOf(channel[d])
    BY SendingOne
  <2>2. Created(n.sess)
    BY DEF PathInv, EventsInv, SendingIsFresh
  <2>3. n.ev # x
    BY <1>4, <2>1 DEF q
  <2> QED BY <1>1, <1>9, <1>10, <1>11, <2>1, <2>2, <2>3
<1>14. QueueIsFresh'
  <2>1. \A y \in Sessions : x \notin ItemsOf(queue[y])
    <3> SUFFICES ASSUME NEW y \in Sessions, x \in ItemsOf(queue[y]) PROVE FALSE
      OBVIOUS
    <3>1. by[x] = [sess |-> y, queued |-> TRUE]
      BY DEF PathInv, EventsInv, QueueIsFresh
    <3>2. by[x].queued = TRUE /\ by[x].queued = FALSE
      BY <1>5, <3>1
    <3> QED BY <3>2
  <2> QED BY <1>1, <1>10, <2>1 DEF PathInv, EventsInv, QueueIsFresh
<1>15. ChannelIsFresh'
  <2> SUFFICES ASSUME NEW d \in Conns
               PROVE  /\ Once(channel'[d])
                      /\ \A e \in ItemsOf(channel'[d]) :
                            /\ e <= emitted
                            /\ by[e] = [sess |-> sess[d], queued |-> FALSE]
                            /\ e \notin ItemsOf(received'[sess[d]])
                            /\ \A y \in Conns \ {d} : e \notin ItemsOf(channel'[y])
    BY <1>1, <1>11 DEF ChannelIsFresh
  <2>1. Once(channel'[d])
    BY <1>4, <1>5, <1>8 DEF PathInv, EventsInv, ChannelIsFresh
  <2>2. ASSUME NEW e \in ItemsOf(channel'[d])
        PROVE  /\ e <= emitted
               /\ by[e] = [sess |-> sess[d], queued |-> FALSE]
               /\ e \notin ItemsOf(received'[sess[d]])
               /\ \A y \in Conns \ {d} : e \notin ItemsOf(channel'[y])
    <3>1. e \in ItemsOf(channel[d]) /\ e # x
      BY <1>9
    <3>2. /\ e <= emitted /\ by[e] = [sess |-> sess[d], queued |-> FALSE]
          /\ e \notin ItemsOf(received[sess[d]])
          /\ \A y \in Conns \ {d} : e \notin ItemsOf(channel[y])
      BY <3>1 DEF PathInv, EventsInv, ChannelIsFresh
    <3>3. e \in 1 .. Len(by)
      <4>1. emitted \in 0 .. MaxEvents /\ Len(by) = emitted /\ channel[d] \in Seq(Events)
        BY DEF PathInv, EventsInv, EventsTypeOK
      <4>2. e \in Events
        BY <3>1, <4>1, ItemsTyped
      <4> QED BY <3>2, <4>1, <4>2, EventsAssumption DEF Events
    <3>4. sess[d] \in Sessions
      BY <3>2, <3>3, RecordOf DEF PathInv, EventsInv
    <3> QED BY <1>9, <1>10, <3>1, <3>2, <3>4
  <2> QED BY <2>1, <2>2
<1>16. ReceivedIsEmitted'
  BY <1>1, <1>5, <1>10 DEF PathInv, EventsInv, ReceivedIsEmitted
<1>17. QueuedEventAccounted'
  <2>1. ASSUME NEW e \in DOMAIN by PROVE by[e].sess \in Sessions
    <3>1. e \in 1 .. Len(by)
      BY DEF PathInv, EventsInv, EventsTypeOK
    <3> QED BY <3>1, RecordOf DEF PathInv, EventsInv
  <2> QED BY <1>1, <1>10, <2>1 DEF PathInv, QueuedEventAccounted
<1>18. DeliveredOnce'
  <2>1. by[x].sess = s
    BY <1>5
  <2>2. \A y \in Sessions : Once(received[y]) /\ \A e \in ItemsOf(received[y]) : by[e].sess = y
    BY DEF PathInv, DeliveredOnce
  <2>3. Once(received'[s]) /\ \A e \in ItemsOf(received'[s]) : by[e].sess = s
    BY <1>3, <1>6, <1>7, <2>1, <2>2
  <2> QED BY <1>1, <1>7, <2>2, <2>3 DEF DeliveredOnce
<1> QED BY <1>11, <1>12, <1>13, <1>14, <1>15, <1>16, <1>17, <1>18 DEF EventsInv

\* A resumed connection writes the whole queue to its socket and empties it.
LEMMA GreetReplayingPath ==
  ASSUME PathInv, NEW c \in Conns, GreetReplaying(c)
  PROVE  EventsInv' /\ QueuedEventAccounted' /\ DeliveredOnce'
<1>0. Greet(c)
  BY DEF GreetReplaying
<1>1. CASE ~resumed[c]
  <2>1. UNCHANGED eventVars
    BY <1>1 DEF GreetReplaying, eventVars
  <2>2. Next
    BY <1>0 DEF Next
  <2> QED BY <2>1, <2>2, LifePath
<1>2. CASE resumed[c]
  <2> DEFINE s == sess[c]
             q == queue[s]
             all == received[s] \o q
  <2>1. /\ received' = [received EXCEPT ![s] = all]
        /\ queue' = [queue EXCEPT ![s] = <<>>]
        /\ queueBytes' = [queueBytes EXCEPT ![s] = 0]
        /\ UNCHANGED <<emitted, sending, by, channel, evicted>>
    BY <1>2 DEF GreetReplaying
  <2>2. sess' = sess /\ sender' = sender
    BY <1>0 DEF Greet, sessVars
  <2>3. s \in Sessions
    BY <1>0 DEF Greet, PathInv, SessionInv, TypeOK, SessionOfConn
  <2>4. /\ queue \in [Sessions -> Seq(Events)] /\ queueBytes \in [Sessions -> Nat]
        /\ received \in [Sessions -> Seq(Events)]
        /\ received[s] \in Seq(Events) /\ q \in Seq(Events)
    BY <2>3 DEF PathInv, EventsInv, EventsTypeOK
  <2>5. /\ Once(q)
        /\ \A e \in ItemsOf(q) : /\ e <= emitted
                                 /\ by[e] = [sess |-> s, queued |-> TRUE]
                                 /\ e \notin ItemsOf(received[s])
    BY <2>3 DEF PathInv, EventsInv, QueueIsFresh
  <2>6. /\ all \in Seq(Events)
        /\ ItemsOf(all) = ItemsOf(received[s]) \cup ItemsOf(q)
        /\ Once(received[s]) /\ Once(q) /\ ItemsOf(received[s]) \cap ItemsOf(q) = {} => Once(all)
    BY <2>4, ItemsConcat
  <2> HIDE DEF all, q, s
  <2>7. /\ received' \in [Sessions -> Seq(Events)] /\ received'[s] = all
        /\ \A y \in Sessions \ {s} : received'[y] = received[y]
    BY <2>1, <2>3, <2>4, <2>6
  <2>8. /\ queue' \in [Sessions -> Seq(Events)] /\ queue'[s] = <<>>
        /\ \A y \in Sessions \ {s} : queue'[y] = queue[y]
    BY <2>1, <2>3, <2>4, ItemsEmpty
  <2>9. /\ queueBytes' \in [Sessions -> Nat] /\ queueBytes'[s] = 0
        /\ \A y \in Sessions \ {s} : queueBytes'[y] = queueBytes[y]
    BY <2>1, <2>3, <2>4
  <2>10. SenderServes' /\ \A y \in Sessions : Created(y) => Created(y)'
    BY <2>2 DEF PathInv, EventsInv, SenderServes, Created
  <2>11. EventsTypeOK'
    BY <2>1, <2>7, <2>8, <2>9 DEF PathInv, EventsInv, EventsTypeOK
  <2>12. QueueWithinCaps'
    <3>1. /\ Len(queue'[s]) <= MaxQueue /\ queueBytes'[s] <= MaxBytes
          /\ queueBytes'[s] = BytesOf(queue'[s])
      BY <2>8, <2>9, BytesRules, EventsAssumption
    <3> QED BY <2>8, <2>9, <3>1 DEF PathInv, EventsInv, QueueWithinCaps
  <2>13. ItemsOf(queue'[s]) = {} /\ Once(queue'[s])
    BY <2>8, ItemsEmpty
  <2>14. SendingIsFresh'
    <3> SUFFICES ASSUME NEW o \in Producers, NEW n \in sending[o]
                 PROVE  /\ n.ev <= emitted /\ Created(n.sess)'
                        /\ by[n.ev] = [sess |-> n.sess, queued |-> n.sawPaused]
                        /\ \A r \in Producers : \A l \in sending[r] : l.ev = n.ev => r = o
                        /\ \A y \in Sessions :
                              n.ev \notin ItemsOf(queue'[y]) \cup ItemsOf(received'[y])
                        /\ \A d \in Conns : n.ev \notin ItemsOf(channel'[d])
      BY <2>1 DEF SendingIsFresh
    <3>1. /\ n.ev <= emitted /\ n.sess \in Sessions
          /\ by[n.ev] = [sess |-> n.sess, queued |-> n.sawPaused]
          /\ \A r \in Producers : \A l \in sending[r] : l.ev = n.ev => r = o
          /\ \A y \in Sessions : n.ev \notin ItemsOf(queue[y]) /\ n.ev \notin ItemsOf(received[y])
          /\ \A d \in Conns : n.ev \notin ItemsOf(channel[d])
      BY SendingOne
    <3>2. Created(n.sess)
      BY DEF PathInv, EventsInv, SendingIsFresh
    <3>3. n.ev \notin ItemsOf(received'[s])
      BY <2>3, <2>6, <2>7, <3>1 DEF q
    <3> QED BY <2>1, <2>7, <2>8, <2>10, <2>13, <3>1, <3>2, <3>3
  <2>15. QueueIsFresh'
    BY <2>1, <2>7, <2>8, <2>13 DEF PathInv, EventsInv, QueueIsFresh
  <2>16. ChannelIsFresh'
    <3>1. ASSUME NEW d \in Conns, NEW e \in ItemsOf(channel[d])
          PROVE  e \notin ItemsOf(received'[sess[d]])
      <4>1. /\ by[e] = [sess |-> sess[d], queued |-> FALSE] /\ e <= emitted
            /\ e \notin ItemsOf(received[sess[d]])
        BY DEF PathInv, EventsInv, ChannelIsFresh
      <4>2. e \notin ItemsOf(q)
        <5> SUFFICES ASSUME e \in ItemsOf(q) PROVE FALSE
          OBVIOUS
        <5>1. by[e].queued = TRUE /\ by[e].queued = FALSE
          BY <2>5, <4>1
        <5> QED BY <5>1
      <4>3. CASE sess[d] = s
        BY <2>6, <2>7, <4>1, <4>2, <4>3
      <4>4. CASE sess[d] # s
        <5>1. emitted \in 0 .. MaxEvents /\ Len(by) = emitted /\ channel[d] \in Seq(Events)
          BY DEF PathInv, EventsInv, EventsTypeOK
        <5>2. e \in Events
          BY <5>1, ItemsTyped
        <5>3. e \in 1 .. Len(by)
          BY <4>1, <5>1, <5>2, EventsAssumption DEF Events
        <5>4. sess[d] \in Sessions
          BY <4>1, <5>3, RecordOf DEF PathInv, EventsInv
        <5> QED BY <2>7, <4>1, <4>4, <5>4
      <4> QED BY <4>3, <4>4
    <3> QED BY <2>1, <2>2, <3>1 DEF PathInv, EventsInv, ChannelIsFresh
  <2>17. ReceivedIsEmitted'
    BY <2>1, <2>5, <2>6, <2>7 DEF PathInv, EventsInv, ReceivedIsEmitted
  <2>18. QueuedEventAccounted'
    <3>1. ASSUME NEW e \in DOMAIN by PROVE by[e].sess \in Sessions
      <4>1. e \in 1 .. Len(by)
        BY DEF PathInv, EventsInv, EventsTypeOK
      <4> QED BY <4>1, RecordOf DEF PathInv, EventsInv
    <3>2. /\ \A y \in Sessions : ItemsOf(received[y]) \subseteq ItemsOf(received'[y])
          /\ \A y \in Sessions : ItemsOf(queue[y]) \subseteq
                                    ItemsOf(queue'[y]) \cup ItemsOf(received'[y])
      BY <2>6, <2>7, <2>8 DEF q
    <3> QED BY <2>1, <3>1, <3>2 DEF PathInv, QueuedEventAccounted
  <2>19. DeliveredOnce'
    <3>1. \A y \in Sessions : Once(received[y]) /\ \A e \in ItemsOf(received[y]) : by[e].sess = y
      BY DEF PathInv, DeliveredOnce
    <3>2. \A e \in ItemsOf(q) : by[e].sess = s
      BY <2>5
    <3>3. Once(all)
      BY <2>3, <2>5, <2>6, <3>1
    <3>4. Once(received'[s]) /\ \A e \in ItemsOf(received'[s]) : by[e].sess = s
      BY <2>3, <2>6, <2>7, <3>1, <3>2, <3>3
    <3> QED BY <2>1, <2>7, <3>1, <3>4 DEF DeliveredOnce
  <2> QED BY <2>10, <2>11, <2>12, <2>14, <2>15, <2>16, <2>17, <2>18, <2>19 DEF EventsInv
<1> QED BY <1>1, <1>2

\* Seen without its events, a step is a step of the session's life or none.
LEMMA EventsStepIsLife == [EventsNext]_allVars => [Next]_vars
<1> SUFFICES ASSUME [EventsNext]_allVars PROVE [Next]_vars
  OBVIOUS
<1>1. CASE UNCHANGED allVars
  BY <1>1 DEF allVars
<1>2. CASE LifeStep
  BY <1>2 DEF LifeStep, Next
<1>3. ASSUME NEW c \in Conns, GreetReplaying(c) PROVE [Next]_vars
  BY <1>3 DEF GreetReplaying, Next
<1>4. ASSUME NEW c \in Conns, Forward(c) PROVE [Next]_vars
  BY <1>4 DEF Forward
<1>5. ASSUME NEW p \in Producers, NEW s \in Sessions, LoadPaused(p, s) PROVE [Next]_vars
  BY <1>5 DEF LoadPaused
<1>6. ASSUME NEW p \in Producers, PushQueue(p) \/ TrySend(p) PROVE [Next]_vars
  BY <1>6 DEF PushQueue, TrySend
<1> QED BY <1>1, <1>2, <1>3, <1>4, <1>5, <1>6 DEF EventsNext

\* Before the first connection there are no events.
LEMMA PathInitially == EventsInit => PathInv
<1> SUFFICES ASSUME EventsInit PROVE PathInv
  OBVIOUS
<1> USE DEF EventsInit
<1>1. SessionInv
  BY InitInv
<1>2. EventsTypeOK
  BY EventsAssumption DEF EventsTypeOK
<1>3. \A s \in Sessions : queue[s] = <<>> /\ received[s] = <<>> /\ queueBytes[s] = 0
  OBVIOUS
<1>4. \A c \in Conns : channel[c] = <<>> /\ sess[c] = NoSession
  BY DEF Init
<1>5. QueueWithinCaps
  BY <1>3, BytesRules, EventsAssumption DEF QueueWithinCaps
<1>6. SenderServes
  BY <1>4, ConnsAssumption DEF SenderServes, Created, Sessions
<1>7. SendingIsFresh /\ QueueIsFresh /\ ChannelIsFresh /\ ReceivedIsEmitted
  BY <1>3, <1>4, ItemsEmpty DEF SendingIsFresh, QueueIsFresh, ChannelIsFresh, ReceivedIsEmitted
<1>8. QueuedEventAccounted /\ DeliveredOnce
  BY <1>3, ItemsEmpty DEF QueuedEventAccounted, DeliveredOnce
<1> QED BY <1>1, <1>2, <1>5, <1>6, <1>7, <1>8 DEF PathInv, EventsInv

\* Every step keeps the invariant.
LEMMA PathStep == PathInv /\ [EventsNext]_allVars => PathInv'
<1> SUFFICES ASSUME PathInv, [EventsNext]_allVars PROVE PathInv'
  OBVIOUS
<1>1. SessionInv'
  BY EventsStepIsLife, StepInv DEF PathInv
<1>2. CASE UNCHANGED allVars
  BY <1>2, EventsStepIsLife, LifePath, <1>1 DEF allVars, PathInv
<1>3. CASE LifeStep
  <2>1. UNCHANGED eventVars
    BY <1>3 DEF LifeStep
  <2> QED BY <1>1, <2>1, EventsStepIsLife, LifePath DEF PathInv
<1>4. ASSUME NEW c \in Conns, GreetReplaying(c) \/ Forward(c) PROVE PathInv'
  BY <1>1, <1>4, GreetReplayingPath, ForwardPath DEF PathInv
<1>5. ASSUME NEW p \in Producers, NEW s \in Sessions, LoadPaused(p, s) PROVE PathInv'
  BY <1>1, <1>5, LoadPausedPath DEF PathInv
<1>6. ASSUME NEW p \in Producers, PushQueue(p) \/ TrySend(p) PROVE PathInv'
  BY <1>1, <1>6, PushQueuePath, TrySendPath DEF PathInv
<1> QED BY <1>2, <1>3, <1>4, <1>5, <1>6 DEF EventsNext

\* PathInv holds of every behaviour.
THEOREM PathInvariant == EventsSpec => []PathInv
  BY PathInitially, PathStep, PTL DEF EventsSpec

\* The queue of a paused session keeps its count cap and its byte cap, and the
\* counter beside it (session.rs:131-196) is the number of bytes it holds,
\* whatever the sizes of the events.
THEOREM QueueIsBounded == EventsSpec => []EventsInv
<1>1. PathInv => EventsInv
  BY DEF PathInv
<1> QED BY <1>1, PathInvariant, PTL

\* No race of pausing, resuming and expiring loses an event that send_json took
\* the queue branch for.
THEOREM QueuedNotLost == EventsSpec => []QueuedEventAccounted
<1>1. PathInv => QueuedEventAccounted
  BY DEF PathInv
<1> QED BY <1>1, PathInvariant, PTL

\* No event reaches a client twice, over all the connections of its session,
\* and none reaches another session's client.
THEOREM NothingTwice == EventsSpec => []DeliveredOnce
<1>1. PathInv => DeliveredOnce
  BY DEF PathInv
<1> QED BY <1>1, PathInvariant, PTL

\* The session with its events implements the session alone, so what is proved
\* of Session holds of it.
THEOREM EventsImplementSession == EventsSpec => Spec
<1>1. EventsInit => Init
  BY DEF EventsInit
<1> QED BY <1>1, EventsStepIsLife, PTL DEF EventsSpec, Spec
=============================================================================
