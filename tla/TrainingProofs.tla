--------------------------- MODULE TrainingProofs ---------------------------
(***************************************************************************)
(* Proofs about Calibrator, Training and the training phase of Scoring:    *)
(* the isotonic blocks against the min-max formula, the leaves of the      *)
(* trees, the balancing and the split of the samples, and then             *)
(* TrainingIsSound by an inductive invariant.                              *)
(***************************************************************************)
EXTENDS ScoringProperties, ListLemmas, SequenceTheorems
-----------------------------------------------------------------------------
(* Rates.  T[k] are the totals of the first k groups, and the rate from i  *)
(* to j is that of the groups after the i-th up to the j-th.               *)

\* The rate from i to j is at most that from k to l.
NotAbove(T, i, j, k, l) ==
  (T[j].won - T[i].won) * (T[l].weight - T[k].weight)
    <= (T[l].won - T[k].won) * (T[j].weight - T[i].weight)

Totalled(T, n) ==
  /\ \A k \in 0 .. n : T[k].won \in Int /\ T[k].weight \in Int
  /\ \A j, k \in 0 .. n : j < k => T[j].weight < T[k].weight

\* What is at most a fraction that is at most a third is at most the third.
LEMMA Between3 ==
  ASSUME NEW a \in Int, NEW b \in Int, NEW c \in Int, NEW d \in Int, NEW e \in Int, NEW f \in Int,
         0 <= b, 0 < d, 0 <= f, a * d <= c * b, c * f <= e * d
  PROVE  a * f <= e * b
  <1>1. (a * d) * f <= (c * b) * f
    BY Z3
  <1>2. (c * f) * b <= (e * d) * b
    BY Z3
  <1>3. (a * f) * d <= (e * b) * d
    BY <1>1, <1>2
  <1> DEFINE x == a * f
             y == e * b
  <1>4. x \in Int /\ y \in Int
    OBVIOUS
  <1> HIDE DEF x, y
  <1>5. x * d <= y * d
    BY <1>3 DEF x, y
  <1>6. x <= y
    BY <1>4, <1>5, Z3
  <1> QED BY <1>6 DEF x, y

\* The order of rates is transitive.
LEMMA RatesOrder ==
  ASSUME NEW n \in Nat, NEW T, Totalled(T, n),
         NEW i \in 0 .. n, NEW j \in 0 .. n, NEW k \in 0 .. n, NEW l \in 0 .. n,
         NEW p \in 0 .. n, NEW q \in 0 .. n, i < j, k < l, p < q,
         NotAbove(T, i, j, k, l), NotAbove(T, k, l, p, q)
  PROVE  NotAbove(T, i, j, p, q)
  <1> DEFINE a == T[j].won - T[i].won
             b == T[j].weight - T[i].weight
             c == T[l].won - T[k].won
             d == T[l].weight - T[k].weight
             e == T[q].won - T[p].won
             f == T[q].weight - T[p].weight
  <1>1. /\ a \in Int /\ b \in Int /\ c \in Int /\ d \in Int /\ e \in Int /\ f \in Int
        /\ 0 < b /\ 0 < d /\ 0 < f
    BY DEF Totalled
  <1>2. a * d <= c * b /\ c * f <= e * d
    BY DEF NotAbove
  <1> HIDE DEF a, b, c, d, e, f
  <1>3. 0 <= b /\ 0 < d /\ 0 <= f
    BY <1>1
  <1>4. a * f <= e * b
    BY ONLY <1>1, <1>2, <1>3, Between3
  <1> QED BY <1>4 DEF NotAbove, a, b, c, d, e, f

\* Of two neighbours, one is at most the other just if it is at most both together, and
\* just if both together are at most the other.
LEMMA Neighbours ==
  ASSUME NEW n \in Nat, NEW T, Totalled(T, n), NEW i \in 0 .. n, NEW j \in 0 .. n, NEW k \in 0 .. n
  PROVE  /\ NotAbove(T, j, k, i, j) <=> NotAbove(T, j, k, i, k)
         /\ NotAbove(T, j, k, i, j) <=> NotAbove(T, i, k, i, j)
         /\ NotAbove(T, i, j, j, k) <=> NotAbove(T, i, j, i, k)
         /\ NotAbove(T, i, j, j, k) <=> NotAbove(T, i, k, j, k)
  <1> DEFINE a == T[i].won
             b == T[j].won
             c == T[k].won
             x == T[i].weight
             y == T[j].weight
             z == T[k].weight
  <1>1. a \in Int /\ b \in Int /\ c \in Int /\ x \in Int /\ y \in Int /\ z \in Int
    BY DEF Totalled
  <1> HIDE DEF a, b, c, x, y, z
  <1>2. /\ (c - b) * (y - x) <= (b - a) * (z - y) <=> (c - b) * (z - x) <= (c - a) * (z - y)
        /\ (c - b) * (y - x) <= (b - a) * (z - y) <=> (c - a) * (y - x) <= (b - a) * (z - x)
        /\ (b - a) * (z - y) <= (c - b) * (y - x) <=> (b - a) * (z - x) <= (c - a) * (y - x)
        /\ (b - a) * (z - y) <= (c - b) * (y - x) <=> (c - a) * (z - y) <= (c - b) * (z - x)
    BY <1>1
  <1> QED BY <1>2 DEF NotAbove, a, b, c, x, y, z

\* What is at most each of two neighbours is at most both together.
LEMMA BothAbove ==
  ASSUME NEW n \in Nat, NEW T, Totalled(T, n), NEW i \in 0 .. n, NEW j \in 0 .. n, NEW k \in 0 .. n,
         NEW p \in 0 .. n, NEW q \in 0 .. n,
         NotAbove(T, p, q, i, j), NotAbove(T, p, q, j, k)
  PROVE  NotAbove(T, p, q, i, k)
  <1> DEFINE a == T[i].won
             b == T[j].won
             c == T[k].won
             x == T[i].weight
             y == T[j].weight
             z == T[k].weight
             u == T[q].won - T[p].won
             v == T[q].weight - T[p].weight
  <1>1. /\ a \in Int /\ b \in Int /\ c \in Int /\ x \in Int /\ y \in Int /\ z \in Int
        /\ u \in Int /\ v \in Int
    BY DEF Totalled
  <1>2. u * (y - x) <= (b - a) * v /\ u * (z - y) <= (c - b) * v
    BY DEF NotAbove
  <1> HIDE DEF a, b, c, x, y, z, u, v
  <1>3. u * (z - x) <= (c - a) * v
    BY <1>1, <1>2
  <1> QED BY <1>3 DEF NotAbove, a, b, c, x, y, z, u, v
\* Wherever the groups from i to k are parted, the later ones are at most the earlier.
Falls(T, i, k) == \A j \in i + 1 .. k - 1 : NotAbove(T, j, k, i, j)

\* Falling stretches of which the later is at most the earlier make one.
LEMMA FallsOn ==
  ASSUME NEW n \in Nat, NEW T, Totalled(T, n), NEW i \in 0 .. n, NEW m \in 0 .. n, NEW k \in 0 .. n,
         i < m, m < k, Falls(T, i, m), Falls(T, m, k), NotAbove(T, m, k, i, m)
  PROVE  Falls(T, i, k)
  <1> SUFFICES ASSUME NEW j \in i + 1 .. k - 1 PROVE NotAbove(T, j, k, i, j)
    BY DEF Falls
  <1>0. j \in 0 .. n /\ i < j /\ j < k
    OBVIOUS
  <1>1. CASE j = m
    BY <1>1
  <1>2. CASE j < m
    <2>1. NotAbove(T, j, m, i, j)
      <3>1. j \in i + 1 .. m - 1
        BY <1>2
      <3> QED BY <3>1 DEF Falls
    <2>2. NotAbove(T, i, m, i, j)
      BY <1>0, <2>1, Neighbours
    <2>3. NotAbove(T, i, k, i, m)
      BY Neighbours
    <2>4. i < k
      OBVIOUS
    <2>5. NotAbove(T, i, k, i, j)
      BY <1>0, <2>2, <2>3, <2>4, RatesOrder
    <2> QED BY <1>0, <2>5, Neighbours
  <1>3. CASE m < j
    <2>1. NotAbove(T, j, k, m, j)
      <3>1. j \in m + 1 .. k - 1
        BY <1>3
      <3> QED BY <3>1 DEF Falls
    <2>2. NotAbove(T, j, k, m, k)
      BY <1>0, <2>1, Neighbours
    <2>3. NotAbove(T, m, k, i, k)
      BY Neighbours
    <2>4. i < k
      OBVIOUS
    <2>5. NotAbove(T, j, k, i, k)
      BY <1>0, <2>2, <2>3, <2>4, RatesOrder
    <2> QED BY <1>0, <2>5, Neighbours
  <1> QED BY <1>0, <1>1, <1>2, <1>3

\* Every rate is at most itself.
LEMMA NotAboveItself ==
  ASSUME NEW n \in Nat, NEW T, Totalled(T, n), NEW i \in 0 .. n, NEW k \in 0 .. n
  PROVE  NotAbove(T, i, k, i, k)
  <1> DEFINE a == T[k].won - T[i].won
             b == T[k].weight - T[i].weight
  <1>1. a \in Int /\ b \in Int
    BY DEF Totalled
  <1> HIDE DEF a, b
  <1>2. a * b \in Int
    BY <1>1
  <1>3. a * b <= a * b
    BY <1>2
  <1> QED BY <1>3 DEF NotAbove, a, b

\* e are the ends of m stretches of the first k groups.
Cuts(e, m, k) ==
  /\ e \in [0 .. m -> 0 .. k] /\ e[0] = 0 /\ e[m] = k
  /\ \A b \in 1 .. m : e[b - 1] < e[b]

\* The stretches fall, and the later ones are not below the earlier.
IsStack(e, m, T) ==
  /\ \A b \in 1 .. m : Falls(T, e[b - 1], e[b])
  /\ \A b \in 1 .. m - 1 : NotAbove(T, e[b - 1], e[b], e[b], e[b + 1])

\* The end of a stretch is below no rate up to it from anywhere.
LEMMA StackFromBelow ==
  ASSUME NEW k \in Nat, NEW T, Totalled(T, k), NEW m \in Nat, NEW e, Cuts(e, m, k), IsStack(e, m, T),
         NEW b \in 1 .. m, NEW s \in 0 .. k, s < e[b]
  PROVE  NotAbove(T, s, e[b], e[b - 1], e[b])
  <1> DEFINE Fine(c) == \A i \in 0 .. k : i < e[c] => NotAbove(T, i, e[c], e[c - 1], e[c])
             Bad == {c \in Nat : c \in 1 .. m /\ ~Fine(c)}
  <1>1. Bad = {}
    <2> SUFFICES ASSUME Bad # {} PROVE FALSE
      OBVIOUS
    <2>1. PICK c \in Bad : \A d \in Bad : c <= d
      <3> Bad \in SUBSET Nat
        OBVIOUS
      <3> HIDE DEF Bad
      <3> QED BY LeastNat
    <2>2. c \in 1 .. m /\ c - 1 \in 0 .. m /\ c - 1 \notin Bad
      BY <2>1
    <2>3. e[c] \in 0 .. k /\ e[c - 1] \in 0 .. k /\ e[c - 1] < e[c] /\ Falls(T, e[c - 1], e[c])
      BY <2>2 DEF Cuts, IsStack
    <2>4. Fine(c)
      <3> SUFFICES ASSUME NEW i \in 0 .. k, i < e[c] PROVE NotAbove(T, i, e[c], e[c - 1], e[c])
        OBVIOUS
      <3>1. CASE i = e[c - 1]
        BY <2>3, <3>1, NotAboveItself
      <3>2. CASE e[c - 1] < i
        <4>1. NotAbove(T, i, e[c], e[c - 1], i)
          <5>1. i \in e[c - 1] + 1 .. e[c] - 1
            BY <2>3, <3>2
          <5> QED BY <2>3, <5>1 DEF Falls
        <4> QED BY <2>3, <4>1, Neighbours
      <3>3. CASE i < e[c - 1]
        <4>1. c - 1 \in 1 .. m
          <5>1. c - 1 # 0
            BY <3>3 DEF Cuts
          <5> QED BY <2>2, <5>1
        <4>2. Fine(c - 1)
          BY <2>2, <4>1
        <4>3. NotAbove(T, i, e[c - 1], e[c - 1 - 1], e[c - 1])
          BY <3>3, <4>2
        <4>4. NotAbove(T, e[c - 1 - 1], e[c - 1], e[c - 1], e[c - 1 + 1])
          <5>1. c - 1 \in 1 .. m - 1
            BY <2>2, <4>1
          <5> QED BY <5>1 DEF IsStack
        <4>5. e[c - 1 - 1] \in 0 .. k /\ e[c - 1 - 1] < e[c - 1] /\ c - 1 + 1 = c
          <5>1. c - 1 - 1 \in 0 .. m
            BY <4>1
          <5> QED BY <2>2, <4>1, <5>1 DEF Cuts
        <4> DEFINE x == e[c - 1 - 1]
                   y == e[c - 1]
                   z == e[c]
        <4>6. /\ NotAbove(T, i, y, x, y) /\ NotAbove(T, x, y, y, z)
              /\ x \in 0 .. k /\ y \in 0 .. k /\ z \in 0 .. k /\ x < y /\ y < z /\ i < y
          BY <2>3, <3>3, <4>3, <4>4, <4>5
        <4> HIDE DEF x, y, z
        <4>7. NotAbove(T, i, y, y, z)
          BY <4>6, RatesOrder
        <4>8. NotAbove(T, i, z, y, z)
          BY <4>6, <4>7, Neighbours
        <4> QED BY <4>8 DEF y, z
      <3> QED BY <2>3, <3>1, <3>2, <3>3
    <2> QED BY <2>1, <2>4
  <1>2. Fine(b)
    <2> HIDE DEF Fine
    <2> QED BY <1>1
  <1> QED BY <1>2
\* Of two stretches the later is not below the earlier.
LEMMA StackRises ==
  ASSUME NEW k \in Nat, NEW T, Totalled(T, k), NEW m \in Nat, NEW e, Cuts(e, m, k), IsStack(e, m, T),
         NEW b \in 1 .. m, NEW d \in 1 .. m, b <= d
  PROVE  NotAbove(T, e[b - 1], e[b], e[d - 1], e[d])
  <1> DEFINE Fine(c) == NotAbove(T, e[b - 1], e[b], e[c - 1], e[c])
             Bad == {c \in Nat : c \in b .. m /\ ~Fine(c)}
  <1>0. \A c \in 1 .. m : e[c] \in 0 .. k /\ e[c - 1] \in 0 .. k /\ e[c - 1] < e[c]
    <2> SUFFICES ASSUME NEW c \in 1 .. m PROVE e[c] \in 0 .. k /\ e[c - 1] \in 0 .. k /\ e[c - 1] < e[c]
      OBVIOUS
    <2>1. c \in 0 .. m /\ c - 1 \in 0 .. m
      OBVIOUS
    <2> QED BY <2>1 DEF Cuts
  <1>1. Bad = {}
    <2> SUFFICES ASSUME Bad # {} PROVE FALSE
      OBVIOUS
    <2>1. PICK c \in Bad : \A i \in Bad : c <= i
      <3> Bad \in SUBSET Nat
        OBVIOUS
      <3> HIDE DEF Bad
      <3> QED BY LeastNat
    <2>2. c \in b .. m /\ c \in 1 .. m /\ c - 1 \notin Bad
      BY <2>1
    <2>3. Fine(c)
      <3>1. CASE c = b
        BY <1>0, <3>1, NotAboveItself
      <3>2. CASE c # b
        <4>1. c - 1 \in b .. m /\ c - 1 \in 1 .. m /\ c - 1 \in 1 .. m - 1 /\ c - 1 + 1 = c
          BY <2>2, <3>2
        <4>2. Fine(c - 1)
          BY <2>2, <4>1
        <4> DEFINE x == e[c - 1 - 1]
                   y == e[c - 1]
                   z == e[c]
                   p == e[b - 1]
                   q == e[b]
        <4>3. NotAbove(T, x, y, y, z)
          BY <4>1 DEF IsStack
        <4>4. /\ x \in 0 .. k /\ y \in 0 .. k /\ z \in 0 .. k /\ x < y /\ y < z
              /\ p \in 0 .. k /\ q \in 0 .. k /\ p < q
          BY <1>0, <2>2, <4>1
        <4>5. NotAbove(T, p, q, x, y)
          BY <4>2
        <4> HIDE DEF x, y, z, p, q
        <4>6. NotAbove(T, p, q, y, z)
          BY <4>3, <4>4, <4>5, RatesOrder
        <4> QED BY <4>6 DEF y, z, p, q
      <3> QED BY <3>1, <3>2
    <2> HIDE DEF Fine
    <2> QED BY <2>1, <2>3
  <1>2. Fine(d)
    <2> HIDE DEF Fine
    <2> QED BY <1>1
  <1> QED BY <1>2

\* A stretch is above no rate from its start, however far.
LEMMA StackToAbove ==
  ASSUME NEW k \in Nat, NEW T, Totalled(T, k), NEW m \in Nat, NEW e, Cuts(e, m, k), IsStack(e, m, T),
         NEW b \in 1 .. m, NEW d \in b .. m, NEW t \in 0 .. k, e[d - 1] < t, t <= e[d]
  PROVE  NotAbove(T, e[b - 1], e[b], e[b - 1], t)
  <1> DEFINE p == e[b - 1]
             q == e[b]
             Fine(c) == \A i \in 0 .. k : e[c - 1] < i /\ i <= e[c] => NotAbove(T, p, q, p, i)
             Bad == {c \in Nat : c \in b .. m /\ ~Fine(c)}
  <1>0. \A c \in 1 .. m : e[c] \in 0 .. k /\ e[c - 1] \in 0 .. k /\ e[c - 1] < e[c]
    <2> SUFFICES ASSUME NEW c \in 1 .. m PROVE e[c] \in 0 .. k /\ e[c - 1] \in 0 .. k /\ e[c - 1] < e[c]
      OBVIOUS
    <2>1. c \in 0 .. m /\ c - 1 \in 0 .. m
      OBVIOUS
    <2> QED BY <2>1 DEF Cuts
  <1>a. p \in 0 .. k /\ q \in 0 .. k /\ p < q
    BY <1>0
  <1>1. Bad = {}
    <2> SUFFICES ASSUME Bad # {} PROVE FALSE
      OBVIOUS
    <2>1. PICK c \in Bad : \A i \in Bad : c <= i
      <3> Bad \in SUBSET Nat
        OBVIOUS
      <3> HIDE DEF Bad
      <3> QED BY LeastNat
    <2>2. c \in b .. m /\ c \in 1 .. m /\ c - 1 \notin Bad
      BY <2>1
    <2>3. Fine(c)
      <3> SUFFICES ASSUME NEW i \in 0 .. k, e[c - 1] < i, i <= e[c] PROVE NotAbove(T, p, q, p, i)
        OBVIOUS
      <3> DEFINE x == e[c - 1]
                 y == e[c]
      <3>0. x \in 0 .. k /\ y \in 0 .. k /\ x < i /\ i <= y /\ x < y
        BY <1>0, <2>2
      \* Within a stretch, what comes first is not below the whole.
      <3>1. NotAbove(T, x, y, x, i)
        <4>1. CASE i = y
          BY <3>0, <4>1, NotAboveItself
        <4>2. CASE i # y
          <5>1. i \in x + 1 .. y - 1
            BY <3>0, <4>2
          <5>2. Falls(T, x, y)
            BY <2>2 DEF IsStack
          <5> HIDE DEF x, y
          <5>3. NotAbove(T, i, y, x, i)
            BY <5>1, <5>2 DEF Falls
          <5> QED BY <3>0, <5>3, Neighbours
        <4> QED BY <4>1, <4>2
      <3>2. CASE c = b
        BY <3>1, <3>2
      <3>3. CASE c # b
        <4>1. c - 1 \in b .. m /\ c - 1 \in 1 .. m
          BY <2>2, <3>3
        <4>2. Fine(c - 1)
          BY <2>2, <4>1
        <4>3. x \in 0 .. k /\ e[c - 1 - 1] < x /\ x <= e[c - 1]
          BY <1>0, <4>1
        <4>4. NotAbove(T, p, q, p, x)
          <5> HIDE DEF p, q
          <5> QED BY <4>2, <4>3
        <4>5. NotAbove(T, p, q, x, y)
          BY <2>2, StackRises
        <4> HIDE DEF p, q, x, y
        <4>6. NotAbove(T, p, q, x, i)
          BY <1>a, <3>0, <3>1, <4>5, RatesOrder
        <4> QED BY <1>a, <3>0, <4>4, <4>6, BothAbove
      <3> HIDE DEF p, q
      <3> QED BY <3>2, <3>3
    <2> HIDE DEF Fine
    <2> QED BY <2>1, <2>3
  <1>2. Fine(d)
    <2> HIDE DEF Fine
    <2> QED BY <1>1
  <1> HIDE DEF p, q
  <1>3. NotAbove(T, p, q, p, t)
    BY <1>2
  <1> QED BY <1>3 DEF p, q
-----------------------------------------------------------------------------
(* Joining blocks.                                                         *)

Blocks == [top : Int, weight : Int, won : Int]

IsJoined(f, bs, a, n) == f = [k \in a .. n |-> IF k = n THEN bs[n] ELSE Joined(bs[k], f[k + 1])]

\* The recursion is well founded.
LEMMA JoinedExists ==
  ASSUME NEW bs, NEW n \in Nat, NEW a \in 1 .. n
  PROVE  \E f : IsJoined(f, bs, a, n)
  <1> DEFINE Bad == {d \in Nat : d < n /\ ~ \E f : IsJoined(f, bs, n - d, n)}
  <1>1. Bad = {}
    <2> SUFFICES ASSUME Bad # {} PROVE FALSE
      OBVIOUS
    <2>1. PICK d \in Bad : \A i \in Bad : d <= i
      <3> Bad \in SUBSET Nat
        OBVIOUS
      <3> HIDE DEF Bad
      <3> QED BY LeastNat
    <2>2. CASE d = 0
      <3>1. n - d = n
        BY <2>2
      <3>2. IsJoined([k \in n .. n |-> bs[n]], bs, n, n)
        BY DEF IsJoined
      <3> QED BY <2>1, <3>1, <3>2
    <2>3. CASE d # 0
      <3>1. d - 1 \in Nat /\ d - 1 \notin Bad /\ d - 1 < n /\ n - (d - 1) = (n - d) + 1 /\ n - d \in 1 .. n
            /\ d \in Nat /\ d < n
        BY <2>1, <2>3
      <3>2. PICK f : IsJoined(f, bs, (n - d) + 1, n)
        BY <3>1
      <3> DEFINE c == n - d
                 step(k) == Joined(bs[k], f[k + 1])
                 g == [k \in c .. n |-> IF k = n THEN bs[n] ELSE step(k)]
      <3>3. c \in 1 .. n /\ c < n
        BY <3>1, <2>3
      <3>4. \A k \in c + 1 .. n : f[k] = IF k = n THEN bs[n] ELSE step(k)
        BY <3>2 DEF IsJoined
      <3> HIDE DEF c
      <3>5. \A k \in c + 1 .. n : g[k] = f[k]
        <4>1. \A k \in c + 1 .. n : k \in c .. n
          BY <3>3
        <4> HIDE DEF step
        <4> QED BY <3>4, <4>1
      <3>6. \A k \in c .. n : k # n => k + 1 \in c + 1 .. n /\ g[k + 1] = f[k + 1]
        <4>1. \A k \in c .. n : k # n => k + 1 \in c + 1 .. n
          BY <3>3
        <4> HIDE DEF g
        <4> QED BY <3>5, <4>1
      <3>7. \A k \in c .. n : (IF k = n THEN bs[n] ELSE step(k))
                            = (IF k = n THEN bs[n] ELSE Joined(bs[k], g[k + 1]))
        <4> HIDE DEF g
        <4> QED BY <3>6
      <3>8. IsJoined(g, bs, c, n)
        <4>1. g = [k \in c .. n |-> IF k = n THEN bs[n] ELSE step(k)]
          OBVIOUS
        <4> HIDE DEF g, step
        <4> QED BY <3>7, <4>1 DEF IsJoined
      <3> HIDE DEF g
      <3>9. \E x : IsJoined(x, bs, n - d, n)
        BY <3>8 DEF c
      <3> QED BY <2>1, <3>9
    <2> QED BY <2>2, <2>3
  <1>2. n - a \in Nat /\ n - a < n /\ n - (n - a) = a
    OBVIOUS
  <1>3. \E f : IsJoined(f, bs, n - (n - a), n)
    BY <1>1, <1>2
  <1> QED BY <1>2, <1>3

\* Blocks are joined from the last as long as the one before is above them.
LEMMA SettledIs ==
  ASSUME NEW bs \in Seq(Blocks), NEW n \in Nat \ {0}, Len(bs) = n
  PROVE  \E f : \E kept \in 1 .. n :
           /\ IsJoined(f, bs, 1, n)
           /\ kept = 1 \/ AtMost(bs[kept - 1], f[kept])
           /\ \A k \in 1 .. n : kept < k => ~AtMost(bs[k - 1], f[k])
           /\ Settled(bs) = Append(SubSeq(bs, 1, kept - 1), f[kept])
  <1> DEFINE Takes(f) == f = [k \in 1 .. n |-> IF k = n THEN bs[n] ELSE Joined(bs[k], f[k + 1])]
             joined == CHOOSE f : Takes(f)
             Stops(f) == {k \in 1 .. n : k = 1 \/ AtMost(bs[k - 1], f[k])}
             kept == Max(Stops(joined))
  <1>1. Settled(bs) = Append(SubSeq(bs, 1, kept - 1), joined[kept])
    BY DEF Settled
  <1>2. \A f : Takes(f) <=> IsJoined(f, bs, 1, n)
    BY DEF IsJoined
  <1>3. \E f : Takes(f)
    <2> HIDE DEF Takes
    <2>1. 1 \in 1 .. n
      OBVIOUS
    <2> QED BY <1>2, <2>1, JoinedExists
  <1>4. Takes(joined)
    <2> HIDE DEF Takes
    <2> QED BY <1>3
  <1> HIDE DEF joined, Takes
  <1>5. Stops(joined) \in SUBSET Nat /\ IsFiniteSet(Stops(joined)) /\ 1 \in Stops(joined)
    <2>1. Stops(joined) \subseteq 1 .. n
      OBVIOUS
    <2>2. IsFiniteSet(1 .. n)
      BY FS_Interval
    <2> QED BY <2>1, <2>2, FS_Subset
  <1>6. kept \in Stops(joined) /\ \A k \in Stops(joined) : k <= kept
    <2> HIDE DEF Stops
    <2> QED BY <1>5, MaxIsGreatest
  <1> HIDE DEF kept
  <1>7. /\ kept \in 1 .. n /\ (kept = 1 \/ AtMost(bs[kept - 1], joined[kept]))
        /\ \A k \in 1 .. n : kept < k => ~AtMost(bs[k - 1], joined[k])
    BY <1>6
  <1> QED BY <1>1, <1>2, <1>4, <1>7
\* Block x is of the groups G after the i-th up to the j-th.
IsPart(x, T, G, i, j) ==
  /\ x \in Blocks /\ x.top = G[j].top
  /\ x.won = T[j].won - T[i].won /\ x.weight = T[j].weight - T[i].weight

\* The blocks are those of falling stretches, none below the one before.
Stacked(bs, e, T, G, k) ==
  /\ bs \in Seq(Blocks)
  /\ Cuts(e, Len(bs), k)
  /\ IsStack(e, Len(bs), T)
  /\ \A b \in 1 .. Len(bs) : IsPart(bs[b], T, G, e[b - 1], e[b])

\* Two parts joined are one.
LEMMA JoinedIsPart ==
  ASSUME NEW T, NEW G, NEW i, NEW j, NEW k, NEW x, NEW y,
         T[i].won \in Int, T[i].weight \in Int, T[j].won \in Int, T[j].weight \in Int,
         T[k].won \in Int, T[k].weight \in Int, IsPart(x, T, G, i, j), IsPart(y, T, G, j, k)
  PROVE  IsPart(Joined(x, y), T, G, i, k)
  <1>1. /\ x \in Blocks /\ x.won = T[j].won - T[i].won /\ x.weight = T[j].weight - T[i].weight
        /\ y \in Blocks /\ y.won = T[k].won - T[j].won /\ y.weight = T[k].weight - T[j].weight
        /\ y.top = G[k].top
    BY DEF IsPart
  <1> DEFINE z == Joined(x, y)
  <1>2. z = [top |-> y.top, weight |-> x.weight + y.weight, won |-> x.won + y.won]
    BY DEF Joined
  <1>3. x.weight + y.weight \in Int /\ x.won + y.won \in Int /\ y.top \in Int
    BY <1>1 DEF Blocks
  <1>4. z \in Blocks /\ z.top = y.top /\ z.weight = x.weight + y.weight /\ z.won = x.won + y.won
    BY <1>2, <1>3 DEF Blocks
  <1> HIDE DEF z
  <1>5. z.won = T[k].won - T[i].won /\ z.weight = T[k].weight - T[i].weight
    BY <1>1, <1>4
  <1>6. IsPart(z, T, G, i, k)
    BY <1>1, <1>4, <1>5 DEF IsPart
  <1> QED BY <1>6 DEF z

\* The order of blocks is that of the rates of their stretches.
LEMMA PartsCompare ==
  ASSUME NEW T, NEW G, NEW i, NEW j, NEW k, NEW l, NEW x, NEW y,
         IsPart(x, T, G, i, j), IsPart(y, T, G, k, l)
  PROVE  /\ AtMost(x, y) <=> NotAbove(T, i, j, k, l)
         /\ ~AtMost(x, y) => NotAbove(T, k, l, i, j)
  <1>1. /\ x.won = T[j].won - T[i].won /\ x.weight = T[j].weight - T[i].weight
        /\ y.won = T[l].won - T[k].won /\ y.weight = T[l].weight - T[k].weight
        /\ x.won \in Int /\ x.weight \in Int /\ y.won \in Int /\ y.weight \in Int
    BY DEF IsPart, Blocks
  <1>2. AtMost(x, y) <=> x.won * y.weight <= y.won * x.weight
    BY DEF AtMost
  <1>3. NotAbove(T, i, j, k, l) <=> x.won * y.weight <= y.won * x.weight
    BY <1>1 DEF NotAbove
  <1>4. NotAbove(T, k, l, i, j) <=> y.won * x.weight <= x.won * y.weight
    BY <1>1 DEF NotAbove
  <1>5. x.won * y.weight \in Int /\ y.won * x.weight \in Int
    BY <1>1
  <1>6. ~(x.won * y.weight <= y.won * x.weight) => y.won * x.weight <= x.won * y.weight
    BY <1>5
  <1> QED BY <1>2, <1>3, <1>4, <1>6
\* A stack of which the last two blocks may be out of order.
Pushed(bs, e, T, G, k) ==
  /\ bs \in Seq(Blocks)
  /\ Len(bs) \in Nat \ {0}
  /\ Cuts(e, Len(bs), k)
  /\ \A b \in 1 .. Len(bs) : IsPart(bs[b], T, G, e[b - 1], e[b]) /\ Falls(T, e[b - 1], e[b])
  /\ \A b \in 1 .. Len(bs) - 2 : NotAbove(T, e[b - 1], e[b], e[b], e[b + 1])

\* One more group is a block of its own.
LEMMA PushOne ==
  ASSUME NEW k \in Nat \ {0}, NEW T, NEW G, NEW bs, NEW e, Stacked(bs, e, T, G, k - 1),
         IsPart(G[k], T, G, k - 1, k)
  PROVE  \E f : Pushed(Append(bs, G[k]), f, T, G, k)
  <1> DEFINE m == Len(bs)
             n == m + 1
             c == Append(bs, G[k])
             f == [i \in 0 .. n |-> IF i < n THEN e[i] ELSE k]
  <1>1. /\ bs \in Seq(Blocks) /\ e \in [0 .. m -> 0 .. k - 1] /\ e[0] = 0 /\ e[m] = k - 1
        /\ \A b \in 1 .. m : e[b - 1] < e[b] /\ Falls(T, e[b - 1], e[b]) /\ IsPart(bs[b], T, G, e[b - 1], e[b])
        /\ \A b \in 1 .. m - 1 : NotAbove(T, e[b - 1], e[b], e[b], e[b + 1])
    BY DEF Stacked, Cuts, IsStack
  <1>2. m \in Nat /\ n \in Nat \ {0} /\ G[k] \in Blocks /\ k - 1 \in Nat
    BY <1>1, LenProperties DEF IsPart
  <1>3. c \in Seq(Blocks) /\ Len(c) = n /\ c[n] = G[k] /\ \A b \in 1 .. m : c[b] = bs[b]
    BY <1>1, <1>2, AppendProperties
  <1> HIDE DEF c, m
  <1>4. f \in [0 .. n -> 0 .. k] /\ f[n] = k /\ \A i \in 0 .. m : f[i] = e[i]
    <2>1. \A i \in 0 .. n : i < n => e[i] \in 0 .. k
      <3>1. \A i \in 0 .. n : i < n => i \in 0 .. m
        BY <1>2
      <3>2. \A i \in 0 .. m : e[i] \in 0 .. k - 1
        BY <1>1
      <3> QED BY <1>2, <3>1, <3>2
    <2>2. k \in 0 .. k
      BY <1>2
    <2>3. \A i \in 0 .. m : i \in 0 .. n /\ i < n
      BY <1>2
    <2> QED BY <1>2, <2>1, <2>2, <2>3
  <1> HIDE DEF f
  <1>5. \A b \in 1 .. m : b \in 0 .. m /\ b - 1 \in 0 .. m
    BY <1>2
  <1>6. n - 1 = m /\ m \in 0 .. m /\ 0 \in 0 .. m /\ \A b \in 1 .. n : b # n => b \in 1 .. m
    BY <1>2
  <1>7. f[n - 1] = k - 1 /\ f[0] = 0
    BY <1>1, <1>4, <1>6
  <1>8. ASSUME NEW b \in 1 .. n
        PROVE  f[b - 1] < f[b] /\ IsPart(c[b], T, G, f[b - 1], f[b]) /\ Falls(T, f[b - 1], f[b])
    <2>1. CASE b = n
      <3>1. Falls(T, k - 1, k)
        <4>1. k - 1 + 1 .. k - 1 = {}
          BY <1>2
        <4> QED BY <4>1 DEF Falls
      <3> QED BY <1>2, <1>3, <1>4, <1>7, <2>1, <3>1
    <2>2. CASE b # n
      <3>1. b \in 1 .. m /\ f[b] = e[b] /\ f[b - 1] = e[b - 1]
        BY <1>4, <1>5, <1>6, <2>2
      <3> QED BY <1>1, <1>3, <3>1
    <2> QED BY <2>1, <2>2
  <1>9. ASSUME NEW b \in 1 .. n - 2 PROVE NotAbove(T, f[b - 1], f[b], f[b], f[b + 1])
    <2>1. b \in 1 .. m - 1 /\ b - 1 \in 0 .. m /\ b \in 0 .. m /\ b + 1 \in 0 .. m
      BY <1>2
    <2> QED BY <1>1, <1>4, <2>1
  <1>10. Cuts(f, n, k)
    BY <1>4, <1>7, <1>8 DEF Cuts
  <1> HIDE DEF n
  <1>11. Pushed(c, f, T, G, k)
    BY <1>2, <1>3, <1>8, <1>9, <1>10 DEF Pushed
  <1> QED BY <1>11 DEF c

\* What is joined from the block that is kept on is the part of their stretches.
LEMMA JoinedFall ==
  ASSUME NEW k \in Nat, NEW T, NEW G, Totalled(T, k), NEW bs, NEW e, Pushed(bs, e, T, G, k),
         NEW n, n = Len(bs), NEW f, IsJoined(f, bs, 1, n), NEW kept \in 1 .. n,
         \A j \in 1 .. n : kept < j => ~AtMost(bs[j - 1], f[j])
  PROVE  IsPart(f[kept], T, G, e[kept - 1], k) /\ Falls(T, e[kept - 1], k)
  <1> DEFINE Fine(j) == IsPart(f[j], T, G, e[j - 1], k) /\ Falls(T, e[j - 1], k)
             Bad == {d \in Nat : d <= n - kept /\ ~Fine(n - d)}
  <1>1. /\ n \in Nat \ {0} /\ e \in [0 .. n -> 0 .. k] /\ e[n] = k
        /\ \A b \in 1 .. n : e[b - 1] < e[b] /\ IsPart(bs[b], T, G, e[b - 1], e[b]) /\ Falls(T, e[b - 1], e[b])
    BY DEF Pushed, Cuts
  <1>2. \A j \in 1 .. n : f[j] = IF j = n THEN bs[n] ELSE Joined(bs[j], f[j + 1])
    BY DEF IsJoined
  <1>3. Bad = {}
    <2> SUFFICES ASSUME Bad # {} PROVE FALSE
      OBVIOUS
    <2>1. PICK d \in Bad : \A i \in Bad : d <= i
      <3> Bad \in SUBSET Nat
        OBVIOUS
      <3> HIDE DEF Bad
      <3> QED BY LeastNat
    <2> DEFINE j == n - d
    <2>2. d \in Nat /\ d <= n - kept /\ j \in kept .. n /\ j \in 1 .. n /\ (d # 0 => d - 1 \notin Bad)
      <3> HIDE DEF Fine
      <3>1. d \in Nat /\ d <= n - kept /\ d - 1 \in Int
        BY <2>1
      <3>2. d # 0 => d - 1 \notin Bad
        <4> HIDE DEF Bad
        <4> QED BY <2>1, <3>1
      <3> QED BY <1>1, <3>1, <3>2
    <2>3. Fine(j)
      <3>1. CASE d = 0
        <4>1. j = n
          BY <1>1, <3>1
        <4> HIDE DEF j
        <4> QED BY <1>1, <1>2, <2>2, <4>1
      <3>2. CASE d # 0
        <4>1. d - 1 \in Nat /\ d - 1 <= n - kept /\ n - (d - 1) = j + 1 /\ j + 1 \in 1 .. n
              /\ kept < j + 1 /\ j # n /\ (j + 1) - 1 = j
          <5> HIDE DEF Bad
          <5> QED BY <1>1, <2>2, <3>2
        <4>2. Fine(j + 1)
          <5>1. Fine(n - (d - 1))
            <6> HIDE DEF Fine
            <6> QED BY <2>2, <3>2, <4>1
          <5> HIDE DEF j, Fine
          <5> QED BY <4>1, <5>1
        <4> HIDE DEF j
        <4> DEFINE x == e[j - 1]
                   y == e[j]
        <4>3. /\ IsPart(bs[j], T, G, x, y) /\ Falls(T, x, y) /\ x < y
              /\ IsPart(f[j + 1], T, G, y, k) /\ Falls(T, y, k)
          BY <1>1, <2>2, <4>1, <4>2
        <4>4. x \in 0 .. k /\ y \in 0 .. k /\ y < k
          <5>1. j - 1 \in 0 .. n /\ j \in 0 .. n
            BY <1>1, <2>2
          <5>2. x \in 0 .. k /\ y \in 0 .. k
            BY <1>1, <5>1
          <5>3. e[j] < e[j + 1] /\ e[j + 1] \in 0 .. k
            <6>1. j + 1 \in 0 .. n
              BY <1>1, <4>1
            <6>2. e[(j + 1) - 1] < e[j + 1]
              BY <1>1, <4>1
            <6> QED BY <1>1, <4>1, <6>1, <6>2
          <5> QED BY <5>2, <5>3
        <4>5. ~AtMost(bs[j], f[j + 1])
          <5>1. ~AtMost(bs[(j + 1) - 1], f[j + 1])
            BY <4>1
          <5> QED BY <4>1, <5>1
        <4>6. f[j] = Joined(bs[j], f[j + 1])
          BY <1>2, <2>2, <4>1
        <4> HIDE DEF x, y
        <4>7. NotAbove(T, y, k, x, y)
          BY <4>3, <4>5, PartsCompare
        <4>8. k \in 0 .. k
          OBVIOUS
        <4>9. Falls(T, x, k)
          BY <4>3, <4>4, <4>7, <4>8, FallsOn
        <4>10. IsPart(f[j], T, G, x, k)
          <5>1. /\ T[x].won \in Int /\ T[x].weight \in Int /\ T[y].won \in Int /\ T[y].weight \in Int
                /\ T[k].won \in Int /\ T[k].weight \in Int
            BY <4>4, <4>8 DEF Totalled
          <5> QED BY <4>3, <4>6, <5>1, JoinedIsPart
        <4> QED BY <4>9, <4>10 DEF x
      <3> QED BY <3>1, <3>2
    <2> HIDE DEF Fine
    <2> QED BY <2>1, <2>3
  <1>4. n - kept \in Nat /\ n - (n - kept) = kept /\ n - kept <= n - kept
    BY <1>1
  <1>5. Fine(n - (n - kept))
    <2> HIDE DEF Fine
    <2> QED BY <1>3, <1>4
  <1>6. Fine(kept)
    <2> HIDE DEF Fine
    <2> QED BY <1>4, <1>5
  <1> QED BY <1>6
\* Settling puts the last blocks in order.
LEMMA SettledStacks ==
  ASSUME NEW k \in Nat, NEW T, NEW G, Totalled(T, k), NEW bs, NEW e, Pushed(bs, e, T, G, k)
  PROVE  \E h : Stacked(Settled(bs), h, T, G, k)
  <1> DEFINE n == Len(bs)
  <1>1. /\ bs \in Seq(Blocks) /\ n \in Nat \ {0} /\ e \in [0 .. n -> 0 .. k] /\ e[0] = 0
        /\ \A b \in 1 .. n : e[b - 1] < e[b] /\ IsPart(bs[b], T, G, e[b - 1], e[b]) /\ Falls(T, e[b - 1], e[b])
        /\ \A b \in 1 .. n - 2 : NotAbove(T, e[b - 1], e[b], e[b], e[b + 1])
        /\ e[n] = k
    BY DEF Pushed, Cuts
  <1>2. PICK f : \E kept \in 1 .. n :
           /\ IsJoined(f, bs, 1, n)
           /\ kept = 1 \/ AtMost(bs[kept - 1], f[kept])
           /\ \A j \in 1 .. n : kept < j => ~AtMost(bs[j - 1], f[j])
           /\ Settled(bs) = Append(SubSeq(bs, 1, kept - 1), f[kept])
    <2> HIDE DEF n
    <2> QED BY <1>1, SettledIs DEF n
  <1>3. PICK kept \in 1 .. n :
           /\ IsJoined(f, bs, 1, n)
           /\ kept = 1 \/ AtMost(bs[kept - 1], f[kept])
           /\ \A j \in 1 .. n : kept < j => ~AtMost(bs[j - 1], f[j])
           /\ Settled(bs) = Append(SubSeq(bs, 1, kept - 1), f[kept])
    BY <1>2
  <1>4. IsPart(f[kept], T, G, e[kept - 1], k) /\ Falls(T, e[kept - 1], k)
    BY <1>3, JoinedFall
  <1> DEFINE a == kept - 1
             front == SubSeq(bs, 1, a)
             rs == Append(front, f[kept])
             h == [i \in 0 .. kept |-> IF i < kept THEN e[i] ELSE k]
  <1>5. a \in Nat /\ a < n /\ kept \in Nat \ {0} /\ kept <= n /\ kept - 1 = a /\ n \in Nat
    BY <1>1
  <1> HIDE DEF a, n
  <1>6. front \in Seq(Blocks) /\ Len(front) = a /\ \A i \in 1 .. a : front[i] = bs[i]
    <2>1. \A i \in 1 .. n : bs[i] \in Blocks
      BY <1>1, ElementOfSeq DEF n
    <2>2. 1 \in Int /\ a \in Int /\ (\A i \in 1 .. a : i \in 1 .. n) /\ a - 1 + 1 = a
      BY <1>1, <1>5
    <2>3. /\ SubSeq(bs, 1, a) \in Seq(Blocks)
          /\ Len(SubSeq(bs, 1, a)) = IF 1 <= a THEN a - 1 + 1 ELSE 0
          /\ \A i \in 1 .. a - 1 + 1 : SubSeq(bs, 1, a)[i] = bs[1 + i - 1]
      <3>1. \A i \in 1 .. a : bs[i] \in Blocks
        BY <2>1, <2>2
      <3> QED BY <2>2, <3>1, SubSeqProperties
    <2>4. \A i \in 1 .. a : 1 + i - 1 = i
      BY <2>2
    <2>5. ~(1 <= a) => a = 0
      BY <1>5
    <2> QED BY <2>2, <2>3, <2>4, <2>5
  <1>7. f[kept] \in Blocks
    BY <1>4 DEF IsPart
  <1>8. rs \in Seq(Blocks) /\ Len(rs) = kept /\ rs[kept] = f[kept] /\ \A i \in 1 .. a : rs[i] = bs[i]
    <2>1. /\ rs \in Seq(Blocks) /\ Len(rs) = Len(front) + 1 /\ rs[Len(front) + 1] = f[kept]
          /\ \A i \in 1 .. Len(front) : rs[i] = front[i]
      <3> HIDE DEF front
      <3> QED BY <1>6, <1>7, AppendProperties
    <2>2. a + 1 = kept
      BY <1>5
    <2> HIDE DEF rs, front
    <2> QED BY <1>6, <2>1, <2>2
  <1>9. Settled(bs) = rs
    BY <1>3 DEF a
  <1> HIDE DEF rs, front
  <1>10. h \in [0 .. kept -> 0 .. k] /\ h[kept] = k /\ h[0] = 0 /\ \A i \in 0 .. a : h[i] = e[i]
    <2>1. \A i \in 0 .. a : i \in 0 .. n /\ i \in 0 .. kept /\ i < kept
      BY <1>5
    <2>2. \A i \in 0 .. kept : i < kept => i \in 0 .. a
      BY <1>5
    <2>3. 0 \in 0 .. a /\ kept \in 0 .. kept /\ k \in 0 .. k
      BY <1>5
    <2>4. \A i \in 0 .. kept : i < kept => e[i] \in 0 .. k
      BY <1>1, <2>1, <2>2
    <2>5. h \in [0 .. kept -> 0 .. k] /\ h[kept] = k
      BY <1>5, <2>3, <2>4
    <2>6. \A i \in 0 .. a : h[i] = e[i]
      BY <2>1
    <2> QED BY <1>1, <2>3, <2>5, <2>6
  <1> HIDE DEF h
  <1>11. ASSUME NEW b \in 1 .. kept
         PROVE  h[b - 1] < h[b] /\ IsPart(rs[b], T, G, h[b - 1], h[b]) /\ Falls(T, h[b - 1], h[b])
    <2>1. CASE b = kept
      <3>1. h[b - 1] = e[a] /\ h[b] = k /\ a \in 0 .. n /\ a \in 0 .. a
        BY <1>5, <1>10, <2>1
      <3>2. e[a] < k
        <4>1. e[a] \in 0 .. k /\ e[kept] \in 0 .. k /\ e[kept - 1] < e[kept]
          BY <1>1, <1>5, <3>1
        <4> QED BY <1>5, <4>1
      <3> QED BY <1>4, <1>5, <1>8, <2>1, <3>1, <3>2
    <2>2. CASE b # kept
      <3>1. b \in 1 .. a /\ b \in 0 .. a /\ b - 1 \in 0 .. a /\ b \in 1 .. n
        BY <1>5, <2>2
      <3>2. h[b] = e[b] /\ h[b - 1] = e[b - 1] /\ rs[b] = bs[b]
        BY <1>8, <1>10, <3>1
      <3> QED BY <1>1, <3>1, <3>2
    <2> QED BY <2>1, <2>2
  <1>12. ASSUME NEW b \in 1 .. kept - 1 PROVE NotAbove(T, h[b - 1], h[b], h[b], h[b + 1])
    <2>1. b \in 1 .. a /\ b \in 0 .. a /\ b - 1 \in 0 .. a /\ h[b] = e[b] /\ h[b - 1] = e[b - 1]
      BY <1>5, <1>10
    <2>2. CASE b = a
      <3>1. b + 1 = kept /\ h[b + 1] = k /\ kept # 1 /\ b \in 1 .. n
        BY <1>5, <1>10, <2>1, <2>2
      <3>2. AtMost(bs[b], f[kept])
        BY <1>3, <1>5, <2>2, <3>1
      <3>3. IsPart(bs[b], T, G, e[b - 1], e[b]) /\ IsPart(f[kept], T, G, e[b], k)
        BY <1>1, <1>4, <1>5, <2>2, <3>1
      <3>4. NotAbove(T, e[b - 1], e[b], e[b], k)
        BY <3>2, <3>3, PartsCompare
      <3> QED BY <2>1, <3>1, <3>4
    <2>3. CASE b # a
      <3>1. b + 1 \in 0 .. a /\ b \in 1 .. n - 2
        BY <1>5, <2>1, <2>3
      <3>2. h[b + 1] = e[b + 1]
        BY <1>10, <3>1
      <3> QED BY <1>1, <2>1, <3>1, <3>2
    <2> QED BY <2>2, <2>3
  <1>13. Cuts(h, kept, k) /\ IsStack(h, kept, T)
    BY <1>10, <1>11, <1>12 DEF Cuts, IsStack
  <1>14. Stacked(rs, h, T, G, k)
    BY <1>8, <1>11, <1>13 DEF Stacked
  <1> QED BY <1>9, <1>14
\* Settling leaves blocks.
LEMMA SettledType ==
  ASSUME NEW bs \in Seq(Blocks), bs # <<>>
  PROVE  Settled(bs) \in Seq(Blocks)
  <1> DEFINE n == Len(bs)
  <1>1. n \in Nat \ {0}
    BY EmptySeq, LenProperties
  <1>2. \A i \in 1 .. n : bs[i] \in Blocks
    BY ElementOfSeq
  <1>3. PICK f : \E kept \in 1 .. n :
           IsJoined(f, bs, 1, n) /\ Settled(bs) = Append(SubSeq(bs, 1, kept - 1), f[kept])
    <2> HIDE DEF n
    <2> QED BY <1>1, SettledIs DEF n
  <1>4. PICK kept \in 1 .. n :
           IsJoined(f, bs, 1, n) /\ Settled(bs) = Append(SubSeq(bs, 1, kept - 1), f[kept])
    BY <1>3
  <1> DEFINE Bad == {d \in Nat : d < n /\ f[n - d] \notin Blocks}
  <1> HIDE DEF n
  <1>5. \A j \in 1 .. n : f[j] = IF j = n THEN bs[n] ELSE Joined(bs[j], f[j + 1])
    BY <1>4 DEF IsJoined
  <1>6. \A x, y \in Blocks : Joined(x, y) \in Blocks
    BY DEF Joined, Blocks
  <1>7. Bad = {}
    <2> SUFFICES ASSUME Bad # {} PROVE FALSE
      OBVIOUS
    <2>1. PICK d \in Bad : \A i \in Bad : d <= i
      <3> Bad \in SUBSET Nat
        OBVIOUS
      <3> HIDE DEF Bad
      <3> QED BY LeastNat
    <2>2. d \in Nat /\ d < n /\ n - d \in 1 .. n
      BY <1>1, <2>1
    <2>3. f[n - d] \in Blocks
      <3>1. CASE d = 0
        <4>1. n - d = n /\ n \in 1 .. n
          BY <1>1, <3>1
        <4> QED BY <1>2, <1>5, <4>1
      <3>2. CASE d # 0
        <4>1. d - 1 \in Nat /\ d - 1 < n /\ d - 1 \notin Bad /\ n - (d - 1) = (n - d) + 1 /\ n - d # n
          BY <1>1, <2>1, <2>2, <3>2
        <4>2. f[(n - d) + 1] \in Blocks
          BY <4>1
        <4>3. f[n - d] = Joined(bs[n - d], f[(n - d) + 1])
          BY <1>5, <2>2, <4>1
        <4> QED BY <1>2, <1>6, <2>2, <4>2, <4>3
      <3> QED BY <3>1, <3>2
    <2> QED BY <2>1, <2>3
  <1>8. f[kept] \in Blocks
    <2>1. n - kept \in Nat /\ n - kept < n /\ n - (n - kept) = kept
      BY <1>1
    <2> QED BY <1>7, <2>1
  <1>9. SubSeq(bs, 1, kept - 1) \in Seq(Blocks)
    <2>1. 1 \in Int /\ kept - 1 \in Int /\ \A i \in 1 .. kept - 1 : i \in 1 .. n
      BY <1>1
    <2>2. \A i \in 1 .. kept - 1 : bs[i] \in Blocks
      BY <1>2, <2>1
    <2> QED BY <2>1, <2>2, SubSeqProperties
  <1>10. Append(SubSeq(bs, 1, kept - 1), f[kept]) \in Seq(Blocks)
    BY <1>8, <1>9, AppendProperties
  <1> QED BY <1>4, <1>10

\* n groups, the tops ascending, none without a sample.
AreGroups(G, n) ==
  /\ n \in Nat /\ G \in [1 .. n -> Blocks]
  /\ \A k \in 1 .. n : 0 < G[k].weight
  /\ \A j, k \in 1 .. n : j < k => G[j].top < G[k].top

\* What Totals adds up.
LEMMA TotalsAre ==
  ASSUME NEW n, NEW G, AreGroups(G, n)
  PROVE  LET T == Totals(G)
         IN  Totalled(T, n) /\ \A k \in 1 .. n : IsPart(G[k], T, G, k - 1, k)
  <1> DEFINE Takes(f) == f = [k \in 0 .. n |->
                                IF k = 0 THEN [won |-> 0, weight |-> 0]
                                ELSE [won    |-> f[k - 1].won + G[k].won,
                                      weight |-> f[k - 1].weight + G[k].weight]]
             T == CHOOSE f : Takes(f)
             S == [won : Int, weight : Int]
             base == [won |-> 0, weight |-> 0]
             step == [p \in S \X (1 .. n) |-> [won    |-> p[1].won + G[p[2]].won,
                                               weight |-> p[1].weight + G[p[2]].weight]]
  <1>1. n \in Nat /\ \A k \in 1 .. n : G[k] \in Blocks /\ 0 < G[k].weight
    BY DEF AreGroups
  <1>2. Cardinality(DOMAIN G) = n
    <2>1. DOMAIN G = 1 .. n
      BY DEF AreGroups
    <2>2. Cardinality(1 .. n) = n
      BY <1>1, FS_Interval
    <2> QED BY <2>1, <2>2
  <1>3. Totals(G) = T
    BY <1>2 DEF Totals
  <1>4. base \in S /\ step \in [S \X (1 .. n) -> S]
    <2>1. ASSUME NEW p \in S \X (1 .. n)
          PROVE  [won |-> p[1].won + G[p[2]].won, weight |-> p[1].weight + G[p[2]].weight] \in S
      <3>1. p[1] \in S /\ p[2] \in 1 .. n
        OBVIOUS
      <3>2. G[p[2]].won \in Int /\ G[p[2]].weight \in Int
        BY <1>1, <3>1 DEF Blocks
      <3> QED BY <3>1, <3>2
    <2> QED BY <2>1
  <1>5. PICK f \in [0 .. n -> S] : GoesOn(f, base, step, n)
    <2> HIDE DEF S, base, step
    <2> QED BY <1>1, <1>4, RecursionExists
  <1>6. Takes(f)
    <2>1. f = [k \in 0 .. n |-> IF k = 0 THEN base ELSE step[<<f[k - 1], k>>]]
      BY <1>5 DEF GoesOn
    <2>2. ASSUME NEW k \in 0 .. n, k # 0
          PROVE  step[<<f[k - 1], k>>] = [won    |-> f[k - 1].won + G[k].won,
                                          weight |-> f[k - 1].weight + G[k].weight]
      <3>1. k - 1 \in 0 .. n /\ k \in 1 .. n
        BY <1>1, <2>2
      <3>2. f[k - 1] \in S
        BY <3>1
      <3> QED BY <3>1, <3>2
    <2> HIDE DEF step, base
    <2>3. f = [k \in 0 .. n |->
                 IF k = 0 THEN base
                 ELSE [won |-> f[k - 1].won + G[k].won, weight |-> f[k - 1].weight + G[k].weight]]
      BY <2>1, <2>2
    <2> QED BY <2>3 DEF base
  <1>7. Takes(T)
    <2> HIDE DEF Takes
    <2> QED BY <1>6
  <1>8. \A k \in 0 .. n : T[k] = IF k = 0 THEN [won |-> 0, weight |-> 0]
                                 ELSE [won    |-> T[k - 1].won + G[k].won,
                                       weight |-> T[k - 1].weight + G[k].weight]
    <2> HIDE DEF T
    <2> QED BY <1>7
  <1> HIDE DEF T, Takes, S, base, step
  <1>9. \A k \in 1 .. n : /\ k \in 0 .. n /\ k - 1 \in 0 .. n
                          /\ T[k].won = T[k - 1].won + G[k].won
                          /\ T[k].weight = T[k - 1].weight + G[k].weight
    <2> SUFFICES ASSUME NEW k \in 1 .. n
                 PROVE  /\ k \in 0 .. n /\ k - 1 \in 0 .. n
                        /\ T[k].won = T[k - 1].won + G[k].won
                        /\ T[k].weight = T[k - 1].weight + G[k].weight
      OBVIOUS
    <2>1. k \in 0 .. n /\ k # 0 /\ k - 1 \in 0 .. n
      BY <1>1
    <2>2. T[k] = [won |-> T[k - 1].won + G[k].won, weight |-> T[k - 1].weight + G[k].weight]
      BY <1>8, <2>1
    <2> QED BY <2>1, <2>2
  <1>10. T[0].won = 0 /\ T[0].weight = 0
    <2>1. 0 \in 0 .. n
      BY <1>1
    <2>2. T[0] = [won |-> 0, weight |-> 0]
      BY <1>8, <2>1
    <2> QED BY <2>2
  <1> DEFINE Fine(k) == /\ T[k].won \in Int /\ T[k].weight \in Int
                        /\ \A j \in 0 .. n : j < k => T[j].weight < T[k].weight
             Bad == {k \in Nat : k <= n /\ ~Fine(k)}
  <1>11. Bad = {}
    <2> SUFFICES ASSUME Bad # {} PROVE FALSE
      OBVIOUS
    <2>1. PICK k \in Bad : \A i \in Bad : k <= i
      <3> Bad \in SUBSET Nat
        OBVIOUS
      <3> HIDE DEF Bad
      <3> QED BY LeastNat
    <2>2. k \in Nat /\ k <= n
      BY <2>1
    <2>3. Fine(k)
      <3>1. CASE k = 0
        BY <1>10, <3>1
      <3>2. CASE k # 0
        <4>1. k - 1 \in Nat /\ k - 1 <= n /\ k - 1 \notin Bad /\ k \in 1 .. n
          <5> HIDE DEF Fine
          <5> QED BY <1>1, <2>1, <2>2, <3>2
        <4>2. Fine(k - 1)
          <5> HIDE DEF Fine
          <5> QED BY <4>1
        <4>3. G[k].won \in Int /\ G[k].weight \in Int /\ 0 < G[k].weight
          BY <1>1, <4>1 DEF Blocks
        <4>4. T[k].won \in Int /\ T[k].weight \in Int /\ T[k - 1].weight < T[k].weight
          BY <1>9, <4>1, <4>2, <4>3
        <4>5. ASSUME NEW j \in 0 .. n, j < k PROVE T[j].weight < T[k].weight
          <5>1. CASE j = k - 1
            BY <4>4, <5>1
          <5>2. CASE j # k - 1
            <6>1. j < k - 1 /\ j \in Nat /\ j <= n
              BY <2>2, <4>5, <5>2
            <6>2. T[j].weight < T[k - 1].weight
              BY <4>2, <6>1
            <6>3. T[j].weight \in Int
              <7>1. j \notin Bad
                <8> HIDE DEF Fine
                <8> QED BY <2>1, <2>2, <4>5, <6>1
              <7>2. Fine(j)
                <8> HIDE DEF Fine
                <8> QED BY <6>1, <7>1
              <7> QED BY <7>2
            <6> QED BY <4>2, <4>4, <6>2, <6>3
          <5> QED BY <5>1, <5>2
        <4> QED BY <4>4, <4>5
      <3> QED BY <3>1, <3>2
    <2> HIDE DEF Fine
    <2> QED BY <2>1, <2>3
  <1>12. \A k \in 0 .. n : Fine(k)
    <2>1. \A k \in 0 .. n : k \in Nat /\ k <= n
      BY <1>1
    <2> HIDE DEF Fine
    <2> QED BY <1>11, <2>1
  <1>13. Totalled(T, n)
    BY <1>12 DEF Totalled
  <1>14. ASSUME NEW k \in 1 .. n PROVE IsPart(G[k], T, G, k - 1, k)
    <2>1. G[k].won \in Int /\ G[k].weight \in Int /\ G[k] \in Blocks
      BY <1>1 DEF Blocks
    <2>2. T[k - 1].won \in Int /\ T[k - 1].weight \in Int
      BY <1>9, <1>12
    <2> QED BY <1>9, <2>1, <2>2 DEF IsPart
  <1> QED BY <1>3, <1>13, <1>14

\* One block after another: f[k] are the blocks of the first k groups.
IsFit(f, G, n) == f = [k \in 0 .. n |-> IF k = 0 THEN <<>> ELSE Settled(Append(f[k - 1], G[k]))]

\* The blocks are stacked after every group.
LEMMA FitStacks ==
  ASSUME NEW n, NEW G, AreGroups(G, n), NEW f, IsFit(f, G, n)
  PROVE  \E e : Stacked(f[n], e, Totals(G), G, n)
  <1> DEFINE T == Totals(G)
             Fine(k) == \E e : Stacked(f[k], e, T, G, k)
             Bad == {k \in Nat : k <= n /\ ~Fine(k)}
  <1>1. Totalled(T, n) /\ \A k \in 1 .. n : IsPart(G[k], T, G, k - 1, k)
    BY TotalsAre
  <1> HIDE DEF T
  <1>2. n \in Nat
    BY DEF AreGroups
  <1>3. \A k \in 0 .. n : f[k] = IF k = 0 THEN <<>> ELSE Settled(Append(f[k - 1], G[k]))
    BY DEF IsFit
  <1>4. Bad = {}
    <2> SUFFICES ASSUME Bad # {} PROVE FALSE
      OBVIOUS
    <2>1. PICK k \in Bad : \A i \in Bad : k <= i
      <3> Bad \in SUBSET Nat
        OBVIOUS
      <3> HIDE DEF Bad
      <3> QED BY LeastNat
    <2>2. k \in Nat /\ k <= n /\ k \in 0 .. n
      BY <1>2, <2>1
    <2>3. Fine(k)
      <3>1. CASE k = 0
        <4>1. f[k] = <<>>
          BY <1>3, <2>2, <3>1
        <4> DEFINE e == [i \in 0 .. 0 |-> 0]
                   bs == <<>>
        <4>2. bs \in Seq(Blocks) /\ Len(bs) = 0
          OBVIOUS
        <4>3. e \in [0 .. 0 -> 0 .. 0] /\ e[0] = 0
          OBVIOUS
        <4> HIDE DEF e, bs
        <4>4. Cuts(e, 0, 0) /\ IsStack(e, 0, T)
          BY <4>3 DEF Cuts, IsStack
        <4>5. Stacked(bs, e, T, G, 0)
          BY <4>2, <4>4 DEF Stacked
        <4> QED BY <3>1, <4>1, <4>5 DEF bs
      <3>2. CASE k # 0
        <4>1. k - 1 \in Nat /\ k - 1 <= n /\ k - 1 \notin Bad /\ k \in 1 .. n /\ k \in Nat \ {0}
          <5> HIDE DEF Fine
          <5> QED BY <1>2, <2>1, <2>2, <3>2
        <4>2. PICK e : Stacked(f[k - 1], e, T, G, k - 1)
          <5>1. Fine(k - 1)
            <6> HIDE DEF Fine
            <6> QED BY <4>1
          <5> QED BY <5>1
        <4>3. IsPart(G[k], T, G, k - 1, k)
          BY <1>1, <4>1
        <4>4. PICK h : Pushed(Append(f[k - 1], G[k]), h, T, G, k)
          BY <4>1, <4>2, <4>3, PushOne
        <4>5. Totalled(T, k)
          <5>1. \A i \in 0 .. k : i \in 0 .. n
            BY <1>2, <2>2
          <5> QED BY <1>1, <5>1 DEF Totalled
        <4>6. \E x : Stacked(Settled(Append(f[k - 1], G[k])), x, T, G, k)
          BY <2>2, <4>4, <4>5, SettledStacks
        <4>7. f[k] = Settled(Append(f[k - 1], G[k]))
          BY <1>3, <2>2, <3>2
        <4> QED BY <4>6, <4>7
      <3> QED BY <3>1, <3>2
    <2> HIDE DEF Fine
    <2> QED BY <2>1, <2>3
  <1>5. Fine(n)
    <2>1. n \in Nat /\ n <= n
      BY <1>2
    <2> HIDE DEF Fine
    <2> QED BY <1>4, <2>1
  <1> QED BY <1>5 DEF T

\* Such a fit exists.
LEMMA FitExists ==
  ASSUME NEW n, NEW G, AreGroups(G, n)
  PROVE  \E f : IsFit(f, G, n)
  <1> DEFINE S == Seq(Blocks)
             step == [p \in S \X (1 .. n) |-> Settled(Append(p[1], G[p[2]]))]
  <1>1. n \in Nat /\ \A k \in 1 .. n : G[k] \in Blocks
    BY DEF AreGroups
  <1>2. <<>> \in S
    BY EmptySeq
  <1>3. step \in [S \X (1 .. n) -> S]
    <2>1. ASSUME NEW p \in S \X (1 .. n) PROVE Settled(Append(p[1], G[p[2]])) \in S
      <3> DEFINE x == p[1]
                 g == G[p[2]]
      <3>1. x \in Seq(Blocks) /\ g \in Blocks
        BY <1>1
      <3> HIDE DEF x, g
      <3>2. Append(x, g) \in Seq(Blocks) /\ Len(Append(x, g)) = Len(x) + 1 /\ Len(x) \in Nat
        BY <3>1, AppendProperties, LenProperties
      <3>3. Append(x, g) # <<>>
        BY <3>2, EmptySeq
      <3>4. Settled(Append(x, g)) \in S
        BY <3>2, <3>3, SettledType
      <3> QED BY <3>4 DEF x, g
    <2> HIDE DEF S
    <2> QED BY <2>1
  <1>4. PICK f \in [0 .. n -> S] : GoesOn(f, <<>>, step, n)
    <2> HIDE DEF S, step
    <2> QED BY <1>1, <1>2, <1>3, RecursionExists
  <1>5. f = [k \in 0 .. n |-> IF k = 0 THEN <<>> ELSE step[<<f[k - 1], k>>]]
    BY <1>4 DEF GoesOn
  <1>6. ASSUME NEW k \in 0 .. n, k # 0 PROVE step[<<f[k - 1], k>>] = Settled(Append(f[k - 1], G[k]))
    <2>1. k - 1 \in 0 .. n /\ k \in 1 .. n
      BY <1>1, <1>6
    <2>2. <<f[k - 1], k>> \in S \X (1 .. n)
      <3> HIDE DEF S, step
      <3> QED BY <1>4, <2>1
    <2> QED BY <2>2
  <1> HIDE DEF step, S
  <1>7. IsFit(f, G, n)
    BY <1>5, <1>6 DEF IsFit
  <1> QED BY <1>7

\* The isotonic fit is a stack over the groups of its samples.
LEMMA IsotonicStacks ==
  ASSUME NEW raw, NEW beta, NEW n, NEW G, G = Grouped(raw, beta), AreGroups(G, n)
  PROVE  \/ Isotonic(raw, beta) = <<>>
         \/ \E e : Stacked(Isotonic(raw, beta), e, Totals(G), G, n)
  <1> DEFINE Takes(f) == f = [k \in 0 .. n |->
                                IF k = 0 THEN <<>> ELSE Settled(Append(f[k - 1], G[k]))]
             blocks == CHOOSE f : Takes(f)
  <1>1. Cardinality(DOMAIN G) = n
    <2>1. DOMAIN G = 1 .. n /\ n \in Nat
      BY DEF AreGroups
    <2>2. Cardinality(1 .. n) = n
      BY <2>1, FS_Interval
    <2> QED BY <2>1, <2>2
  <1>2. Isotonic(raw, beta) = IF Len(raw) < IsotonicMinSamples THEN <<>> ELSE blocks[n]
    <2> DEFINE Fit(H, k) ==
                 (CHOOSE f : f = [i \in 0 .. k |->
                                    IF i = 0 THEN <<>> ELSE Settled(Append(f[i - 1], H[i]))])[k]
    <2>1. Isotonic(raw, beta)
            = IF Len(raw) < IsotonicMinSamples THEN <<>>
              ELSE Fit(Grouped(raw, beta), Cardinality(DOMAIN Grouped(raw, beta)))
      BY Zenon DEF Isotonic
    <2> HIDE DEF Fit
    <2>2. Isotonic(raw, beta) = IF Len(raw) < IsotonicMinSamples THEN <<>> ELSE Fit(G, n)
      BY <1>1, <2>1
    <2> QED BY <2>2 DEF Fit
  <1>3. \A f : Takes(f) <=> IsFit(f, G, n)
    BY DEF IsFit
  <1>4. Takes(blocks)
    <2>1. \E f : Takes(f)
      <3> HIDE DEF Takes
      <3> QED BY <1>3, FitExists
    <2> HIDE DEF Takes
    <2> QED BY <2>1
  <1> HIDE DEF blocks, Takes
  <1>5. \E e : Stacked(blocks[n], e, Totals(G), G, n)
    BY <1>3, <1>4, FitStacks
  <1> QED BY <1>2, <1>5
\* Every group after the start of a stretch is in that stretch or in a later one.
LEMMA StretchOf ==
  ASSUME NEW k \in Nat, NEW m \in Nat, NEW e, Cuts(e, m, k),
         NEW b \in 1 .. m, NEW t \in 1 .. k, e[b - 1] < t
  PROVE  \E d \in b .. m : e[d - 1] < t /\ t <= e[d]
  <1> DEFINE After == {d \in Nat : d \in b .. m /\ t <= e[d]}
  <1>1. m \in After
    BY DEF Cuts
  <1>2. PICK d \in After : \A c \in After : d <= c
    <2> After \in SUBSET Nat /\ After # {}
      BY <1>1
    <2> HIDE DEF After
    <2> QED BY LeastNat
  <1>3. d \in b .. m /\ d \in Nat /\ t <= e[d]
    BY <1>2
  <1>4. e[d - 1] < t
    <2>1. CASE d = b
      BY <2>1
    <2>2. CASE d # b
      <3>1. d - 1 \in b .. m /\ d - 1 \in Nat /\ d - 1 \in 0 .. m /\ ~(d <= d - 1)
        BY <1>3, <2>2
      <3>2. ~(t <= e[d - 1])
        BY <1>2, <3>1
      <3>3. e[d - 1] \in 0 .. k
        BY <3>1 DEF Cuts
      <3> QED BY <3>2, <3>3
    <2> QED BY <2>1, <2>2
  <1> QED BY <1>3, <1>4

\* Pooled rates are those of the stretch.
LEMMA PooledCompare ==
  ASSUME NEW T, NEW G, NEW n \in Nat, Totalled(T, n), NEW i, NEW j, NEW x, IsPart(x, T, G, i, j),
         NEW s \in 1 .. n, NEW t \in 1 .. n
  PROVE  /\ NotAbove(T, s - 1, t, i, j) => AtMost(Pooled(T, s, t), x)
         /\ NotAbove(T, i, j, s - 1, t) => AtMost(x, Pooled(T, s, t))
  <1> DEFINE y == Pooled(T, s, t)
  <1>1. y = [won |-> T[t].won - T[s - 1].won, weight |-> T[t].weight - T[s - 1].weight]
    BY DEF Pooled
  <1>2. y.won = T[t].won - T[s - 1].won /\ y.weight = T[t].weight - T[s - 1].weight
    BY <1>1
  <1> HIDE DEF y
  <1>3. x.won = T[j].won - T[i].won /\ x.weight = T[j].weight - T[i].weight
    BY DEF IsPart
  <1>4. NotAbove(T, s - 1, t, i, j) => AtMost(y, x)
    BY <1>2, <1>3 DEF NotAbove, AtMost
  <1>5. NotAbove(T, i, j, s - 1, t) => AtMost(x, y)
    BY <1>2, <1>3 DEF NotAbove, AtMost
  <1> QED BY <1>4, <1>5 DEF y

\* The blocks of a stack are the isotonic regression.
LEMMA StackIsRegression ==
  ASSUME NEW n, NEW G, AreGroups(G, n), NEW bs, NEW e, Stacked(bs, e, Totals(G), G, n)
  PROVE  IsRegression(bs, G)
  <1> DEFINE T == Totals(G)
             m == Len(bs)
  <1>1. n \in Nat /\ DOMAIN G = 1 .. n /\ Len(G) = n
    BY DEF AreGroups
  <1>2. Totalled(T, n)
    BY TotalsAre
  <1>3. /\ bs \in Seq(Blocks) /\ Cuts(e, m, n) /\ IsStack(e, m, T)
        /\ \A b \in 1 .. m : IsPart(bs[b], T, G, e[b - 1], e[b])
    BY DEF Stacked
  <1>4. m \in Nat /\ DOMAIN bs = 1 .. m
    BY <1>3, LenProperties
  <1> HIDE DEF T, m
  <1>5. ASSUME NEW i \in 1 .. n
        PROVE  \E b \in 1 .. m :
                 /\ G[i].top <= bs[b].top
                 /\ b > 1 => bs[b - 1].top < G[i].top
                 /\ \A s \in 1 .. i : \E t \in i .. n : AtMost(Pooled(T, s, t), bs[b])
                 /\ \E s \in 1 .. i : \A t \in i .. n : AtMost(bs[b], Pooled(T, s, t))
    <2>1. PICK b \in 1 .. m : e[b - 1] < i /\ i <= e[b]
      <3>1. 1 \in 1 .. m /\ e[1 - 1] < i
        BY <1>1, <1>3, <1>4 DEF Cuts
      <3>2. \E d \in 1 .. m : e[d - 1] < i /\ i <= e[d]
        BY <1>1, <1>3, <1>4, <3>1, StretchOf
      <3> QED BY <3>2
    <2>2. e[b] \in 1 .. n /\ e[b - 1] \in 0 .. n /\ e[b - 1] < e[b] /\ e[b] \in i .. n
      <3>1. b \in 0 .. m /\ b - 1 \in 0 .. m
        BY <1>4
      <3>2. e[b] \in 0 .. n /\ e[b - 1] \in 0 .. n
        BY <1>3, <3>1 DEF Cuts
      <3> QED BY <1>1, <2>1, <3>2
    <2>3. IsPart(bs[b], T, G, e[b - 1], e[b])
      BY <1>3
    <2>4. G[i].top <= bs[b].top
      <3>1. bs[b].top = G[e[b]].top
        BY <2>3 DEF IsPart
      <3>2. G[i].top \in Int
        BY <1>1 DEF AreGroups, Blocks
      <3>3. i < e[b] => G[i].top < G[e[b]].top
        BY <2>2 DEF AreGroups
      <3>4. i = e[b] \/ i < e[b]
        BY <2>1, <2>2, <1>1
      <3>5. G[e[b]].top \in Int
        BY <2>2, <1>1 DEF AreGroups, Blocks
      <3> QED BY <3>1, <3>2, <3>3, <3>4, <3>5
    <2>5. ASSUME b > 1 PROVE bs[b - 1].top < G[i].top
      <3>1. b - 1 \in 1 .. m
        BY <1>4, <2>5
      <3>2. bs[b - 1].top = G[e[b - 1]].top
        BY <1>3, <3>1 DEF IsPart
      <3>3. e[b - 1] \in 1 .. n
        <4>1. e[(b - 1) - 1] < e[b - 1] /\ e[(b - 1) - 1] \in 0 .. n
          <5>1. (b - 1) - 1 \in 0 .. m
            BY <1>4, <3>1
          <5> QED BY <1>3, <3>1, <5>1 DEF Cuts
        <4> QED BY <1>1, <2>2, <4>1
      <3> QED BY <2>1, <3>2, <3>3 DEF AreGroups
    <2>6. ASSUME NEW s \in 1 .. i PROVE \E t \in i .. n : AtMost(Pooled(T, s, t), bs[b])
      <3>1. s - 1 \in 0 .. n /\ s - 1 < e[b] /\ s \in 1 .. n
        BY <1>1, <2>1, <2>2
      <3>2. NotAbove(T, s - 1, e[b], e[b - 1], e[b])
        BY <1>1, <1>2, <1>3, <1>4, <3>1, StackFromBelow
      <3>3. AtMost(Pooled(T, s, e[b]), bs[b])
        BY <1>1, <1>2, <2>2, <2>3, <3>1, <3>2, PooledCompare
      <3> QED BY <2>2, <3>3
    <2>7. \E s \in 1 .. i : \A t \in i .. n : AtMost(bs[b], Pooled(T, s, t))
      <3> DEFINE s == e[b - 1] + 1
      <3>1. s \in 1 .. i /\ s \in 1 .. n /\ s - 1 = e[b - 1]
        BY <1>1, <2>1, <2>2
      <3> HIDE DEF s
      <3>2. ASSUME NEW t \in i .. n PROVE AtMost(bs[b], Pooled(T, s, t))
        <4>1. t \in 1 .. n /\ t \in 0 .. n /\ e[b - 1] < t
          BY <1>1, <2>1, <2>2
        <4>2. PICK d \in b .. m : e[d - 1] < t /\ t <= e[d]
          BY <1>1, <1>3, <1>4, <4>1, StretchOf
        <4>3. NotAbove(T, e[b - 1], e[b], e[b - 1], t)
          BY <1>1, <1>2, <1>3, <1>4, <4>1, <4>2, StackToAbove
        <4> QED BY <1>1, <1>2, <2>3, <3>1, <4>1, <4>3, PooledCompare
      <3> QED BY <3>1, <3>2
    <2> QED BY <2>4, <2>5, <2>6, <2>7
  <1> QED BY <1>1, <1>4, <1>5 DEF IsRegression, T, m
-----------------------------------------------------------------------------
(* Ascending lists a set of numbers in its order.                          *)

\* How many numbers of the set are less.
Rank(S, x) == Cardinality({y \in S : y < x})

\* The numbers of S, in their order.
Enumerates(t, S) ==
  /\ Cardinality(S) \in Nat
  /\ t \in [1 .. Cardinality(S) -> S]
  /\ \A i, j \in 1 .. Cardinality(S) : i < j => t[i] < t[j]
  /\ \A x \in S : \E i \in 1 .. Cardinality(S) : t[i] = x

\* Before the k-th number of a list in ascending order are k - 1.
LEMMA RankInOrder ==
  ASSUME NEW S \in SUBSET Int, NEW t, Enumerates(t, S), NEW k \in 1 .. Cardinality(S)
  PROVE  Rank(S, t[k]) = k - 1
  <1> DEFINE n == Cardinality(S)
             m == k - 1
             B == {y \in S : y < t[k]}
             g == [i \in 1 .. m |-> t[i]]
  <1>1. /\ n \in Nat /\ t \in [1 .. n -> S] /\ \A i, j \in 1 .. n : i < j => t[i] < t[j]
        /\ \A x \in S : \E i \in 1 .. n : t[i] = x
    BY DEF Enumerates
  <1>2. m \in Nat /\ m < k /\ \A i \in 1 .. m : i \in 1 .. n /\ i < k
    BY <1>1
  <1>3. g \in [1 .. m -> B]
    <2> SUFFICES ASSUME NEW i \in 1 .. m PROVE t[i] \in B
      BY Zenon
    <2> QED BY <1>1, <1>2
  <1>4. ASSUME NEW i \in 1 .. m, NEW j \in 1 .. m, i # j PROVE g[i] # g[j]
    <2>1. i \in 1 .. n /\ j \in 1 .. n /\ t[i] \in Int /\ t[j] \in Int /\ g[i] = t[i] /\ g[j] = t[j]
      BY <1>1, <1>2
    <2>2. i < j \/ j < i
      BY <1>4
    <2> QED BY <1>1, <2>1, <2>2
  <1>5. ASSUME NEW y \in B PROVE \E i \in 1 .. m : g[i] = y
    <2>1. PICK i \in 1 .. n : t[i] = y
      BY <1>1
    <2>2. t[i] < t[k] /\ t[i] \in Int /\ t[k] \in Int
      BY <1>1, <2>1
    <2>3. ~(k < i) /\ i # k
      BY <1>1, <2>2
    <2>4. i \in 1 .. m
      BY <1>1, <2>3
    <2> QED BY <2>1, <2>4
  <1>6. ExistsBijection(1 .. m, B)
    <2> HIDE DEF B, g
    <2>1. g \in Bijection(1 .. m, B)
      BY <1>3, <1>4, <1>5 DEF Bijection, Injection, Surjection, IsInjective
    <2> QED BY <2>1 DEF ExistsBijection
  <1>7. IsFiniteSet(1 .. m) /\ Cardinality(1 .. m) = m
    BY <1>2, FS_Interval
  <1>8. Cardinality(B) = m
    <2> HIDE DEF B, m
    <2> QED BY <1>6, <1>7, FS_Bijection
  <1> QED BY <1>8 DEF Rank

\* Ascending is that list.
LEMMA AscendingEnumerates ==
  ASSUME NEW S \in SUBSET Int, IsFiniteSet(S)
  PROVE  Enumerates(Ascending(S), S)
  <1> DEFINE n == Cardinality(S)
             t == Sorted(S, <)
  <1>1. Enumerates(t, S)
    BY AscendingOrder DEF Enumerates
  <1> HIDE DEF t
  <1>2. n \in Nat /\ t \in [1 .. n -> S] /\ \A x \in S : \E i \in 1 .. n : t[i] = x
    BY <1>1 DEF Enumerates
  <1>3. Ascending(S) = [k \in 1 .. n |-> CHOOSE x \in S : Rank(S, x) = k - 1]
    BY DEF Ascending, Rank
  <1>4. ASSUME NEW k \in 1 .. n PROVE (CHOOSE x \in S : Rank(S, x) = k - 1) = t[k]
    <2>1. t[k] \in S /\ Rank(S, t[k]) = k - 1
      BY <1>1, <1>2, RankInOrder
    <2>2. ASSUME NEW x \in S, Rank(S, x) = k - 1 PROVE x = t[k]
      <3>1. PICK i \in 1 .. n : t[i] = x
        BY <1>2
      <3>2. Rank(S, t[i]) = i - 1
        BY <1>1, RankInOrder
      <3>3. i = k
        BY <1>2, <2>2, <3>1, <3>2
      <3> QED BY <3>1, <3>3
    <2> QED BY <2>1, <2>2
  <1>5. Ascending(S) = t
    BY <1>2, <1>3, <1>4
  <1> QED BY <1>1, <1>5
-----------------------------------------------------------------------------
(* The groups of a list of samples.                                        *)

\* A probability and a result; the rest of a sample does not matter here.
IsSampled(raw) ==
  \A i \in DOMAIN raw : raw[i].base \in Int

\* Grouped is a list of groups in ascending order, none without a sample.
LEMMA GroupedAre ==
  ASSUME NEW A, NEW raw \in Seq(A), IsSampled(raw), NEW beta, beta.turn \in Int
  PROVE  \E n : AreGroups(Grouped(raw, beta), n)
  <1> DEFINE X(i) == Calibrated(beta, raw[i].base)
             D == DOMAIN raw
             xs == {X(i) : i \in D}
             t == Ascending(xs)
             n == Cardinality(xs)
             Of(x) == {i \in D : X(i) = x}
             Won(x) == {i \in Of(x) : raw[i].won}
             G == Grouped(raw, beta)
  <1>1. IsFiniteSet(D)
    <2>1. Len(raw) \in Nat /\ D = 1 .. Len(raw)
      BY LenProperties
    <2> QED BY <2>1, FS_Interval
  <1>2. xs \in SUBSET Int
    <2>1. \A i \in D : X(i) \in Int
      <3> SUFFICES ASSUME NEW i \in D PROVE X(i) \in Int
        OBVIOUS
      <3> DEFINE b == raw[i].base
      <3>1. b \in Int /\ beta.turn \in Int
        BY DEF IsSampled
      <3> HIDE DEF b
      <3>2. Max({b - beta.turn, beta.turn - b}) \in Int
        <4>1. b - beta.turn \in Int /\ beta.turn - b \in Int
          BY <3>1
        <4> QED BY <4>1, MaxOfTwo
      <3> QED BY <3>2 DEF b, Calibrated
    <2> HIDE DEF X, D
    <2> QED BY <2>1
  <1>3. IsFiniteSet(xs)
    <2> DEFINE f == [i \in D |-> X(i)]
    <2>1. f \in Surjection(D, xs)
      <3> HIDE DEF X, D
      <3> QED BY DEF Surjection
    <2> HIDE DEF f, xs, D
    <2> QED BY <1>1, <2>1, FS_Surjection
  <1>4. n \in Nat /\ t \in [1 .. n -> xs] /\ \A i, j \in 1 .. n : i < j => t[i] < t[j]
    <2> HIDE DEF xs
    <2> QED BY <1>2, <1>3, AscendingEnumerates DEF Enumerates
  <1>5. G = [k \in DOMAIN t |-> [top |-> t[k], weight |-> Cardinality(Of(t[k])),
                                 won |-> Cardinality(Won(t[k]))]]
    BY DEF Grouped
  <1>6. ASSUME NEW x \in xs
        PROVE  Cardinality(Of(x)) \in Nat \ {0} /\ Cardinality(Won(x)) \in Nat
    <2>1. Of(x) \in SUBSET D /\ Won(x) \in SUBSET D
      OBVIOUS
    <2>2. Of(x) # {}
      <3>1. PICK i \in D : x = X(i)
        OBVIOUS
      <3> QED BY <3>1
    <2> HIDE DEF Of, Won, D
    <2>3. IsFiniteSet(Of(x)) /\ IsFiniteSet(Won(x))
      BY <1>1, <2>1, FS_Subset
    <2> QED BY <2>2, <2>3, FS_CardinalityType, FS_EmptySet
  <1> HIDE DEF xs, t, Of, Won, n
  <1>7. DOMAIN G = 1 .. n
    BY <1>4, <1>5
  <1>8. ASSUME NEW k \in 1 .. n
        PROVE  G[k] \in Blocks /\ 0 < G[k].weight /\ G[k].top = t[k]
    <2>1. t[k] \in xs /\ t[k] \in Int /\ k \in DOMAIN t
      BY <1>2, <1>4
    <2>2. G[k] = [top |-> t[k], weight |-> Cardinality(Of(t[k])), won |-> Cardinality(Won(t[k]))]
      BY <1>5, <2>1
    <2> DEFINE w == Cardinality(Of(t[k]))
               v == Cardinality(Won(t[k]))
               x == t[k]
    <2>3. w \in Nat \ {0} /\ v \in Nat /\ x \in Int
      BY <1>6, <2>1
    <2> HIDE DEF w, v, x, G
    <2>4. G[k] = [top |-> x, weight |-> w, won |-> v]
      BY <2>2 DEF w, v, x
    <2> QED BY <2>3, <2>4 DEF Blocks, x
  <1>9. G \in [1 .. n -> Blocks]
    <2>1. G = [k \in DOMAIN G |-> G[k]]
      BY <1>5
    <2> HIDE DEF G
    <2> QED BY <1>7, <1>8, <2>1
  <1> HIDE DEF G
  <1>10. AreGroups(G, n)
    BY <1>2, <1>4, <1>8, <1>9 DEF AreGroups
  <1> QED BY <1>10 DEF G

(***************************************************************************)
(* The blocks of the isotonic fit are the isotonic regression of the       *)
(* samples it was given, whatever the samples and the beta map.            *)
(* IsotonicCalibrator::fit pools from the end; the regression is stated by *)
(* its min-max formula.                                                    *)
(***************************************************************************)
THEOREM IsotonicIsRegression ==
  ASSUME NEW A, NEW raw \in Seq(A), IsSampled(raw), NEW beta, beta.turn \in Int,
         Isotonic(raw, beta) # <<>>
  PROVE  IsRegression(Isotonic(raw, beta), Grouped(raw, beta))
  <1> DEFINE G == Grouped(raw, beta)
  <1>1. PICK n : AreGroups(G, n)
    BY GroupedAre
  <1>2. \E e : Stacked(Isotonic(raw, beta), e, Totals(G), G, n)
    BY <1>1, IsotonicStacks
  <1> HIDE DEF G
  <1>3. IsRegression(Isotonic(raw, beta), G)
    BY <1>1, <1>2, StackIsRegression
  <1> QED BY <1>3 DEF G
-----------------------------------------------------------------------------
(* The leaves of the boosted trees.                                        *)

\* Both sides of a split hold enough of the samples that were split.
LEMMA SidesAreFunded ==
  ASSUME NEW raw, NEW indices, IsFiniteSet(indices), NEW split \in Splits(raw, indices)
  PROVE  LET left == LeftOf(raw, indices, split)
         IN  /\ left \in SUBSET indices
             /\ Cardinality(left) >= MinLeaf
             /\ Cardinality(indices \ left) >= MinLeaf
  <1> DEFINE left == LeftOf(raw, indices, split)
  <1>1. left \in SUBSET indices
    BY DEF LeftOf
  <1>2. Cardinality(left) >= MinLeaf /\ Cardinality(indices) - Cardinality(left) >= MinLeaf
    BY DEF Splits
  <1> HIDE DEF left
  <1>3. indices \cap left = left
    BY <1>1
  <1>4. Cardinality(indices \ left) = Cardinality(indices) - Cardinality(left)
    BY <1>3, FS_Difference
  <1> QED BY <1>1, <1>2, <1>4 DEF left

\* The leaves of one side of a tree.
LeavesOf(raw, side, split) ==
  IF split = NoSplit THEN {side}
  ELSE {LeftOf(raw, side, split), side \ LeftOf(raw, side, split)}

\* Whether it was split or not.
LEMMA SideLeavesAreFunded ==
  ASSUME NEW raw, NEW side, IsFiniteSet(side), Cardinality(side) >= MinLeaf,
         NEW split \in Splits(raw, side) \union {NoSplit},
         NEW leaf \in LeavesOf(raw, side, split)
  PROVE  Cardinality(leaf) >= MinLeaf
  <1>1. CASE split = NoSplit
    BY <1>1 DEF LeavesOf
  <1>2. CASE split # NoSplit
    <2>1. split \in Splits(raw, side)
      BY <1>2
    <2>2. leaf = LeftOf(raw, side, split) \/ leaf = side \ LeftOf(raw, side, split)
      BY <1>2 DEF LeavesOf
    <2> QED BY <2>1, <2>2, SidesAreFunded
  <1> QED BY <1>1, <1>2

\* Every leaf of a boosted tree over the fitted samples is funded.
LEMMA TreesAreFunded ==
  ASSUME NEW indices, IsFiniteSet(indices), NEW tree \in BoostedTrees(fit, indices)
  PROVE  IsFunded(tree, indices)
  <1>1. PICK root \in Splits(fit, indices) :
          tree \in LET left == LeftOf(fit, indices, root)
                   IN  {[root |-> root, left |-> l, right |-> r] :
                          l \in Splits(fit, left) \union {NoSplit},
                          r \in Splits(fit, indices \ left) \union {NoSplit}}
    BY DEF BoostedTrees
  <1> DEFINE left == LeftOf(fit, indices, root)
             right == indices \ left
  <1>2. /\ tree.root = root
        /\ tree.left \in Splits(fit, left) \union {NoSplit}
        /\ tree.right \in Splits(fit, right) \union {NoSplit}
    <2>1. PICK l \in Splits(fit, left) \union {NoSplit}, r \in Splits(fit, right) \union {NoSplit} :
            tree = [root |-> root, left |-> l, right |-> r]
      BY <1>1
    <2> HIDE DEF left, right
    <2> QED BY <2>1
  <1>3. /\ left \in SUBSET indices /\ Cardinality(left) >= MinLeaf /\ Cardinality(right) >= MinLeaf
    BY SidesAreFunded
  <1> HIDE DEF left
  <1>4. IsFiniteSet(left) /\ IsFiniteSet(right)
    BY <1>3, FS_Subset, FS_Difference
  <1> HIDE DEF right
  <1>5. \A leaf \in LeavesOf(fit, left, tree.left) \union LeavesOf(fit, right, tree.right) :
          Cardinality(leaf) >= MinLeaf
    BY <1>2, <1>3, <1>4, SideLeavesAreFunded
  <1> QED BY <1>2, <1>5 DEF IsFunded, LeavesOf, left, right

\* So is every leaf of the trees of a fit.
LEMMA EnsemblesAreFunded ==
  ASSUME NEW A, fit \in Seq(A), NEW trees \in TreeEnsembles(fit), NEW k \in DOMAIN trees
  PROVE  IsFunded(trees[k], TrainIndices(fit))
  <1> DEFINE indices == TrainIndices(fit)
  <1>1. IsFiniteSet(indices)
    <2>1. DOMAIN fit = 1 .. Len(fit) /\ Len(fit) \in Nat
      BY LenProperties
    <2>2. IsFiniteSet(DOMAIN fit)
      BY <2>1, FS_Interval
    <2>3. indices \in SUBSET (DOMAIN fit)
      BY DEF TrainIndices
    <2> HIDE DEF indices
    <2> QED BY <2>2, <2>3, FS_Subset
  <1>2. \/ trees = <<>>
        \/ \E n \in 0 .. TreeCount : trees \in [1 .. n -> BoostedTrees(fit, indices)]
    BY DEF TreeEnsembles
  <1> HIDE DEF indices
  <1>3. trees # <<>>
    BY EmptySeq
  <1>4. trees[k] \in BoostedTrees(fit, indices)
    BY <1>2, <1>3
  <1> QED BY <1>1, <1>4, TreesAreFunded DEF indices
-----------------------------------------------------------------------------
(* Samples drawn from others.                                              *)

\* What a quotient is.
LEMMA Quotient ==
  ASSUME NEW a \in Nat, NEW d \in Nat \ {0}
  PROVE  /\ a \div d \in Nat
         /\ d * (a \div d) <= a /\ a < d * (a \div d) + d
  OBVIOUS

\* q are some of the elements of raw, h their positions, none twice.
Draws(h, q, raw) ==
  /\ h \in [1 .. Len(q) -> 1 .. Len(raw)]
  /\ \A i \in 1 .. Len(q) : q[i] = raw[h[i]]
  /\ \A i, j \in 1 .. Len(q) : i # j => h[i] # h[j]

\* Where a number grows by at least the divisor, the quotient grows.
LEMMA QuotientGrows ==
  ASSUME NEW a \in Nat, NEW b \in Nat, NEW d \in Nat \ {0}, a + d <= b
  PROVE  a \div d < b \div d
  <1> DEFINE x == a \div d
             y == b \div d
  <1>1. x \in Nat /\ y \in Nat /\ d * x <= a /\ b < d * y + d
    BY Quotient
  <1> HIDE DEF x, y
  <1>2. d * x < d * y
    BY <1>1
  <1>3. ~(y <= x)
    <2> SUFFICES ASSUME y <= x PROVE FALSE
      OBVIOUS
    <2>1. d * y <= d * x
      BY <1>1, Z3
    <2>2. d * y \in Int /\ d * x \in Int
      BY <1>1
    <2> QED BY <1>2, <2>1, <2>2
  <1>4. x < y
    BY <1>1, <1>3
  <1> QED BY <1>4 DEF x, y
\* The positions of EvenlySampled are positions, and each is beyond the one before.
LEMMA EvenPlaces ==
  ASSUME NEW last \in Nat, NEW denom \in Nat \ {0}, denom <= last,
         NEW P, P = [k \in 1 .. denom + 1 |-> ((k - 1) * last + denom \div 2) \div denom + 1]
  PROVE  /\ P \in [1 .. denom + 1 -> 1 .. last + 1]
         /\ \A i, j \in 1 .. denom + 1 : i # j => P[i] # P[j]
  <1> DEFINE half == denom \div 2
             N(k) == (k - 1) * last + half
  <1>1. half \in Nat /\ half < denom
    <2>1. half \in Nat /\ 2 * half <= denom
      BY Quotient
    <2> HIDE DEF half
    <2> QED BY <2>1
  <1>2. P = [k \in 1 .. denom + 1 |-> N(k) \div denom + 1]
    OBVIOUS
  <1> HIDE DEF half
  <1>3. ASSUME NEW k \in 1 .. denom + 1 PROVE N(k) \in Nat /\ N(k) <= denom * last + half
    <2> DEFINE i == k - 1
    <2>1. i \in Nat /\ i <= denom
      OBVIOUS
    <2> HIDE DEF i
    <2>2. i * last <= denom * last /\ 0 <= i * last
      BY <2>1, Z3
    <2>3. i * last \in Int /\ denom * last \in Int
      BY <2>1
    <2> QED BY <1>1, <2>2, <2>3 DEF i
  <1>4. ASSUME NEW i \in 1 .. denom + 1, NEW j \in 1 .. denom + 1, i < j PROVE N(i) + denom <= N(j)
    <2> DEFINE a == i - 1
               b == j - 1
    <2>1. a \in Nat /\ b \in Nat /\ a + 1 <= b
      BY <1>4
    <2> HIDE DEF a, b
    <2>2. (a + 1) * last <= b * last
      BY <2>1, Z3
    <2>3. (a + 1) * last = a * last + last
      BY <2>1, Z3
    <2>4. a * last \in Int /\ b * last \in Int
      BY <2>1
    <2>5. a * last + half + denom <= b * last + half
      BY <1>1, <2>2, <2>3, <2>4
    <2> QED BY <2>5 DEF a, b
  <1> HIDE DEF N
  <1>5. ASSUME NEW k \in 1 .. denom + 1 PROVE N(k) \div denom \in Nat /\ N(k) \div denom <= last
    <2> DEFINE q == N(k) \div denom
    <2>1. q \in Nat /\ denom * q <= N(k)
      BY <1>3, Quotient
    <2>2. N(k) \in Nat /\ N(k) <= denom * last + half
      BY <1>3
    <2> HIDE DEF q
    <2>3. ~(last + 1 <= q)
      <3> SUFFICES ASSUME last + 1 <= q PROVE FALSE
        OBVIOUS
      <3>1. denom * (last + 1) <= denom * q
        BY <2>1, Z3
      <3>2. denom * (last + 1) = denom * last + denom
        BY Z3
      <3>3. denom * last \in Int /\ denom * q \in Int
        BY <2>1
      <3> DEFINE u == denom * last
                 v == denom * q
                 w == N(k)
      <3>4. u \in Int /\ v \in Int /\ w \in Nat /\ v <= w /\ w <= u + half /\ u + denom <= v
        BY <2>1, <2>2, <3>1, <3>2, <3>3
      <3> HIDE DEF u, v, w
      <3> QED BY <1>1, <3>4
    <2> QED BY <2>1, <2>3 DEF q
  <1>6. P \in [1 .. denom + 1 -> 1 .. last + 1]
    <2>1. \A k \in 1 .. denom + 1 : N(k) \div denom + 1 \in 1 .. last + 1
      BY <1>5
    <2> QED BY <1>2, <2>1
  <1>7. ASSUME NEW i \in 1 .. denom + 1, NEW j \in 1 .. denom + 1, i < j PROVE P[i] < P[j]
    <2>1. N(i) \in Nat /\ N(j) \in Nat /\ N(i) + denom <= N(j)
      BY <1>3, <1>4, <1>7
    <2>2. N(i) \div denom < N(j) \div denom
      BY <2>1, QuotientGrows
    <2>3. P[i] = N(i) \div denom + 1 /\ P[j] = N(j) \div denom + 1
      BY <1>2
    <2>4. N(i) \div denom \in Nat /\ N(j) \div denom \in Nat
      BY <1>5
    <2> QED BY <2>2, <2>3, <2>4
  <1>8. ASSUME NEW i \in 1 .. denom + 1, NEW j \in 1 .. denom + 1, i # j PROVE P[i] # P[j]
    <2>1. P[i] \in Int /\ P[j] \in Int
      BY <1>6
    <2>2. i < j \/ j < i
      BY <1>8
    <2>3. P[i] < P[j] \/ P[j] < P[i]
      BY <1>7, <2>2
    <2> DEFINE x == P[i]
               y == P[j]
    <2>4. x \in Int /\ y \in Int /\ (x < y \/ y < x)
      BY <2>1, <2>3
    <2> HIDE DEF x, y
    <2>5. x # y
      BY <2>4
    <2> QED BY <2>5 DEF x, y
  <1> QED BY <1>6, <1>8

\* EvenlySampled draws at most as many as it should, and one at least.
LEMMA EvenlySampledDraws ==
  ASSUME NEW A, NEW items \in Seq(A), NEW take \in Nat
  PROVE  LET q == EvenlySampled(items, take)
         IN  /\ q \in Seq(A) /\ Len(q) <= take
             /\ take # 0 /\ items # <<>> => Len(q) # 0
             /\ \E h : Draws(h, q, items)
  <1> DEFINE q == EvenlySampled(items, take)
             n == Len(items)
  <1>1. n \in Nat /\ DOMAIN items = 1 .. n /\ items \in [1 .. n -> A]
    BY LenProperties
  <1>2. CASE take = 0 \/ items = <<>>
    <2>1. q = <<>>
      BY <1>2 DEF EvenlySampled
    <2>2. <<>> \in Seq(A) /\ Len(<<>>) = 0
      OBVIOUS
    <2>3. Draws([i \in 1 .. 0 |-> 0], <<>>, items)
      BY DEF Draws
    <2> QED BY <1>2, <2>1, <2>2, <2>3
  <1>3. CASE take # 0 /\ items # <<>> /\ take >= n
    <2>1. q = items
      BY <1>3 DEF EvenlySampled
    <2>2. n # 0
      BY <1>3, EmptySeq
    <2>3. Draws([i \in 1 .. n |-> i], items, items)
      BY <1>1 DEF Draws
    <2> QED BY <1>1, <1>3, <2>1, <2>2, <2>3
  <1>4. CASE take # 0 /\ items # <<>> /\ take < n /\ take = 1
    <2> DEFINE p == n \div 2 + 1
    <2>1. q = <<items[p]>>
      BY <1>1, <1>4 DEF EvenlySampled
    <2>2. p \in 1 .. n
      <3>1. n \div 2 \in Nat /\ 2 * (n \div 2) <= n
        BY <1>1, Quotient
      <3> HIDE DEF n
      <3> QED BY <1>1, <1>4, <3>1
    <2> HIDE DEF p
    <2>3. <<items[p]>> \in Seq(A) /\ Len(<<items[p]>>) = 1 /\ <<items[p]>>[1] = items[p]
      BY <1>1, <2>2
    <2>4. Draws([i \in 1 .. 1 |-> p], <<items[p]>>, items)
      BY <2>2, <2>3 DEF Draws
    <2> HIDE DEF q, n
    <2>5. q \in Seq(A) /\ Len(q) = 1
      BY <2>1, <2>3
    <2>6. \E h : Draws(h, q, items)
      BY <2>1, <2>4
    <2>7. Len(q) <= take /\ Len(q) # 0
      BY <1>4, <2>5
    <2>8. q \in Seq(A) /\ Len(q) <= take /\ Len(q) # 0 /\ \E h : Draws(h, q, items)
      BY <2>5, <2>6, <2>7
    <2> QED BY ONLY <2>8 DEF q
  <1>5. CASE take # 0 /\ items # <<>> /\ take < n /\ take # 1
    <2> DEFINE last == n - 1
               denom == take - 1
               P == [k \in 1 .. denom + 1 |-> ((k - 1) * last + denom \div 2) \div denom + 1]
    <2>1. q = [k \in 1 .. take |-> items[((k - 1) * last + denom \div 2) \div denom + 1]]
      BY <1>1, <1>5 DEF EvenlySampled
    <2>2. last \in Nat /\ denom \in Nat \ {0} /\ denom <= last /\ denom + 1 = take /\ last + 1 = n
      BY <1>1, <1>5
    <2>3. q = [k \in 1 .. take |-> items[P[k]]]
      BY <2>1, <2>2
    <2> HIDE DEF last, denom
    <2>4. P \in [1 .. denom + 1 -> 1 .. last + 1] /\ \A i, j \in 1 .. denom + 1 : i # j => P[i] # P[j]
      BY <2>2, EvenPlaces
    <2> HIDE DEF P, q
    <2>5. P \in [1 .. take -> 1 .. n] /\ \A i, j \in 1 .. take : i # j => P[i] # P[j]
      BY <2>2, <2>4
    <2>6. q \in Seq(A) /\ Len(q) = take
      BY <1>1, <2>3, <2>5
    <2>7. Draws(P, q, items)
      BY <1>1, <2>3, <2>5, <2>6 DEF Draws
    <2> QED BY <1>5, <2>6, <2>7 DEF q
  <1> HIDE DEF q
  <1>6. q \in Seq(A) /\ Len(q) <= take /\ (take # 0 /\ items # <<>> => Len(q) # 0) /\ \E h : Draws(h, q, items)
    BY <1>1, <1>2, <1>3, <1>4, <1>5 DEF q
  <1> QED BY <1>6 DEF q
\* The elements drawn are elements, and distinct if all are.
LEMMA DrawnAreElements ==
  ASSUME NEW A, NEW B, NEW q \in Seq(A), NEW raw \in Seq(B), NEW h, Draws(h, q, raw)
  PROVE  /\ Elements(q) \subseteq Elements(raw)
         /\ Distinct(raw) => Distinct(q)
         /\ q \in Seq(B)
  <1> DEFINE n == Len(q)
             l == Len(raw)
  <1>1. /\ n \in Nat /\ DOMAIN q = 1 .. n /\ q \in [1 .. n -> A]
        /\ l \in Nat /\ DOMAIN raw = 1 .. l /\ raw \in [1 .. l -> B]
    BY LenProperties
  <1>2. /\ h \in [1 .. n -> 1 .. l] /\ \A i \in 1 .. n : q[i] = raw[h[i]]
        /\ \A i, j \in 1 .. n : i # j => h[i] # h[j]
    BY DEF Draws
  <1> HIDE DEF n, l
  <1>3. Elements(q) \subseteq Elements(raw)
    BY <1>1, <1>2 DEF Elements
  <1>4. Distinct(raw) => Distinct(q)
    BY <1>1, <1>2 DEF Distinct
  <1>5. q \in Seq(B)
    <2>1. q \in [1 .. n -> B]
      BY <1>1, <1>2
    <2> QED BY <1>1, <2>1
  <1> QED BY <1>3, <1>4, <1>5

\* What is drawn from what is drawn.
LEMMA DrawnTwice ==
  ASSUME NEW p, NEW q, NEW raw, Len(p) \in Nat, Len(q) \in Nat, Len(raw) \in Nat,
         NEW g, Draws(g, p, q), NEW h, Draws(h, q, raw)
  PROVE  \E f : Draws(f, p, raw)
  <1> DEFINE f == [i \in 1 .. Len(p) |-> h[g[i]]]
  <1>1. f \in [1 .. Len(p) -> 1 .. Len(raw)]
    BY DEF Draws
  <1>2. \A i \in 1 .. Len(p) : p[i] = raw[f[i]]
    BY DEF Draws
  <1>3. \A i, j \in 1 .. Len(p) : i # j => f[i] # f[j]
    BY DEF Draws
  <1> HIDE DEF f
  <1> QED BY <1>1, <1>2, <1>3 DEF Draws

\* The positions of a market's samples.
PlacesOf(q, m) == {i \in 1 .. Len(q) : q[i].market = m}

\* As many as are drawn of a market at most.
LEMMA DrawnOfMarket ==
  ASSUME NEW q, NEW raw, Len(q) \in Nat, Len(raw) \in Nat, NEW h, Draws(h, q, raw), NEW m
  PROVE  /\ Cardinality(PlacesOf(q, m)) \in Nat /\ Cardinality(PlacesOf(raw, m)) \in Nat
         /\ Cardinality(PlacesOf(q, m)) <= Cardinality(PlacesOf(raw, m))
  <1> DEFINE f == [i \in PlacesOf(q, m) |-> h[i]]
  <1>1. f \in [PlacesOf(q, m) -> PlacesOf(raw, m)]
    BY DEF Draws, PlacesOf
  <1>2. \A i, j \in PlacesOf(q, m) : f[i] = f[j] => i = j
    BY DEF Draws, PlacesOf
  <1>3. IsFiniteSet(PlacesOf(raw, m)) /\ IsFiniteSet(PlacesOf(q, m))
    <2>1. PlacesOf(raw, m) \in SUBSET (1 .. Len(raw)) /\ PlacesOf(q, m) \in SUBSET (1 .. Len(q))
      BY DEF PlacesOf
    <2>2. IsFiniteSet(1 .. Len(raw)) /\ IsFiniteSet(1 .. Len(q))
      BY FS_Interval
    <2> QED BY <2>1, <2>2, FS_Subset
  <1>4. f \in Injection(PlacesOf(q, m), PlacesOf(raw, m))
    <2> HIDE DEF f
    <2> QED BY <1>1, <1>2 DEF Injection, IsInjective
  <1> HIDE DEF f
  <1> QED BY <1>3, <1>4, FS_Injection, FS_CardinalityType

\* The samples of one market.
LEMMA OfMarketIs ==
  ASSUME NEW A, NEW raw \in Seq(A), NEW m
  PROVE  LET q == OfMarket(raw, m)
         IN  /\ q \in Seq(A)
             /\ \A i \in 1 .. Len(q) : q[i].market = m
             /\ \E h : Draws(h, q, raw)
             /\ Len(q) = Cardinality(PlacesOf(raw, m))
  <1> DEFINE n == Len(raw)
             K == PlacesOf(raw, m)
             Takes(f) == f = [k \in 0 .. n |->
                                IF k = 0 THEN <<>>
                                ELSE IF raw[k].market = m THEN Append(f[k - 1], raw[k]) ELSE f[k - 1]]
             kept == CHOOSE f : Takes(f)
             q == OfMarket(raw, m)
  <1>1. q = kept[n]
    BY DEF OfMarket, Filter
  <1>2. n \in Nat
    BY LenProperties
  <1> HIDE DEF q, n
  <1>3. ASSUME NEW f PROVE Takes(f) <=> IsFilter(f, raw, K, n)
    <2>1. \A k \in 0 .. n :
            (IF k = 0 THEN <<>> ELSE IF raw[k].market = m THEN Append(f[k - 1], raw[k]) ELSE f[k - 1])
            = (IF k = 0 THEN <<>> ELSE IF k \in K THEN Append(f[k - 1], raw[k]) ELSE f[k - 1])
      BY <1>2 DEF PlacesOf, n
    <2> QED BY <2>1 DEF IsFilter
  <1> HIDE DEF K
  <1>4. Takes(kept)
    <2>1. \E f : IsFilter(f, raw, K, n)
      BY <1>2, FilterExists
    <2> HIDE DEF Takes
    <2>2. \E f : Takes(f)
      BY <1>3, <2>1
    <2> QED BY <2>2
  <1> HIDE DEF kept, Takes
  <1>5. IsFilter(kept, raw, K, n)
    BY <1>3, <1>4
  <1>6. q \in Seq(A) /\ \E h : Picks(h, q, raw, K, n)
    BY <1>1, <1>5, FilterPicks DEF n
  <1>7. PICK h : Picks(h, q, raw, K, n)
    BY <1>6
  <1> DEFINE l == Len(q)
  <1>8. /\ h \in [1 .. l -> 1 .. n] /\ \A i \in 1 .. l : h[i] \in K /\ q[i] = raw[h[i]]
        /\ \A i, j \in 1 .. l : i < j => h[i] < h[j]
        /\ \A x \in 1 .. n : x \in K => \E i \in 1 .. l : h[i] = x
    BY <1>7 DEF Picks
  <1>9. l \in Nat
    BY <1>6, LenProperties
  <1> HIDE DEF l
  <1>10. \A i, j \in 1 .. l : i # j => h[i] # h[j]
    <2> SUFFICES ASSUME NEW i \in 1 .. l, NEW j \in 1 .. l, i # j PROVE h[i] # h[j]
      OBVIOUS
    <2>1. h[i] \in Int /\ h[j] \in Int /\ (i < j \/ j < i)
      BY <1>8, <1>9
    <2> QED BY <1>8, <2>1
  <1>11. K \in SUBSET (1 .. n) /\ \A x \in K : raw[x].market = m
    BY DEF K, PlacesOf, n
  <1>12. ExistsBijection(1 .. l, K)
    <2>1. h \in [1 .. l -> K]
      BY <1>8
    <2>2. h \in Bijection(1 .. l, K)
      BY <1>8, <1>10, <1>11, <2>1 DEF Bijection, Injection, Surjection, IsInjective
    <2> QED BY <2>2 DEF ExistsBijection
  <1>13. l = Cardinality(K)
    <2>1. IsFiniteSet(1 .. l) /\ Cardinality(1 .. l) = l
      BY <1>9, FS_Interval
    <2> QED BY <1>12, <2>1, FS_Bijection
  <1>14. Draws(h, q, raw)
    BY <1>8, <1>10 DEF Draws, l, n
  <1>15. \A i \in 1 .. l : q[i].market = m
    BY <1>8, <1>11
  <1>16. q \in Seq(A) /\ (\A i \in 1 .. Len(q) : q[i].market = m) /\ (\E x : Draws(x, q, raw))
         /\ Len(q) = Cardinality(PlacesOf(raw, m))
    BY <1>6, <1>13, <1>14, <1>15 DEF K, l
  <1> QED BY ONLY <1>16 DEF q
\* Rows of s places: every place of n rows has its number.
LEMMA RowMajor ==
  ASSUME NEW n \in Nat, NEW s \in Nat \ {0}, NEW k \in 1 .. n, NEW j \in 1 .. s
  PROVE  (k - 1) * s + j \in 1 .. n * s
  <1> DEFINE i == k - 1
             u == i * s
             v == n * s
  <1>1. i \in Nat /\ i + 1 <= n
    OBVIOUS
  <1> HIDE DEF i
  <1>2. (i + 1) * s <= n * s /\ (i + 1) * s = i * s + s
    BY <1>1, Z3
  <1>3. 0 <= i * s /\ i * s \in Int /\ n * s \in Int
    BY <1>1, Z3
  <1>4. u \in Int /\ v \in Int /\ u + s <= v /\ 0 <= u
    BY <1>2, <1>3
  <1> HIDE DEF u, v
  <1>5. u + j \in 1 .. v
    BY <1>4
  <1> QED BY <1>5 DEF u, v, i

\* No number is that of two places.
LEMMA RowMajorOnce ==
  ASSUME NEW s \in Nat \ {0}, NEW k \in Nat, NEW l \in Nat, NEW i \in 1 .. s, NEW j \in 1 .. s,
         (k - 1) * s + i = (l - 1) * s + j
  PROVE  k = l /\ i = j
  <1> DEFINE a == k - 1
             b == l - 1
  <1>1. a \in Int /\ b \in Int /\ a * s + i = b * s + j
    OBVIOUS
  <1>2. a < b => a * s + s <= b * s
    <2> HIDE DEF a, b
    <2> SUFFICES ASSUME a < b PROVE a * s + s <= b * s
      OBVIOUS
    <2>1. (a + 1) * s <= b * s /\ (a + 1) * s = a * s + s
      BY <1>1, Z3
    <2> QED BY <2>1
  <1>3. b < a => b * s + s <= a * s
    <2> HIDE DEF a, b
    <2> SUFFICES ASSUME b < a PROVE b * s + s <= a * s
      OBVIOUS
    <2>1. (b + 1) * s <= a * s /\ (b + 1) * s = b * s + s
      BY <1>1, Z3
    <2> QED BY <2>1
  <1> DEFINE u == a * s
             v == b * s
  <1>4. u \in Int /\ v \in Int /\ u + i = v + j /\ (a < b => u + s <= v) /\ (b < a => v + s <= u)
    BY <1>1, <1>2, <1>3
  <1>5. a = b => u = v
    OBVIOUS
  <1> HIDE DEF u, v
  <1>6. a = b /\ i = j
    <2> HIDE DEF a, b
    <2>1. ~(a < b) /\ ~(b < a)
      BY <1>4
    <2> QED BY <1>1, <1>4, <1>5, <2>1
  <1> QED BY <1>6

\* The first n numbers are n.
LEMMA FirstNumbers ==
  ASSUME NEW n \in Nat
  PROVE  IsFiniteSet(1 .. n) /\ Cardinality(1 .. n) = n
  BY FS_Interval

\* The lists together are no longer than as many of the longest.
LEMMA LocatedLength ==
  ASSUME NEW n \in Nat, NEW L, NEW s \in Nat \ {0}, \A k \in 1 .. n : Len(L[k]) \in Nat /\ Len(L[k]) <= s,
         NEW q, Len(q) \in Nat, NEW at, Locates(at, q, L, n)
  PROVE  Len(q) <= n * s
  <1> DEFINE f == [i \in 1 .. Len(q) |-> (at[i][1] - 1) * s + at[i][2]]
  <1>1. ASSUME NEW i \in 1 .. Len(q)
        PROVE  at[i] = <<at[i][1], at[i][2]>> /\ at[i][1] \in 1 .. n /\ at[i][2] \in 1 .. s
    <2>1. at[i] \in Places(L, n)
      BY DEF Locates
    <2>2. PICK k \in 1 .. n : at[i] \in {k} \X (1 .. Len(L[k]))
      BY <2>1 DEF Places
    <2>3. Len(L[k]) \in Nat /\ Len(L[k]) <= s
      OBVIOUS
    <2> QED BY <2>2, <2>3
  <1>2. f \in [1 .. Len(q) -> 1 .. n * s]
    <2>1. \A i \in 1 .. Len(q) : (at[i][1] - 1) * s + at[i][2] \in 1 .. n * s
      BY <1>1, RowMajor
    <2> QED BY <2>1, Zenon
  <1>3. ASSUME NEW i \in 1 .. Len(q), NEW j \in 1 .. Len(q), f[i] = f[j] PROVE i = j
    <2>1. (at[i][1] - 1) * s + at[i][2] = (at[j][1] - 1) * s + at[j][2]
      BY <1>3
    <2>2. at[i][1] = at[j][1] /\ at[i][2] = at[j][2]
      <3>1. /\ at[i][1] \in Nat /\ at[j][1] \in Nat /\ at[i][2] \in 1 .. s /\ at[j][2] \in 1 .. s
        BY <1>1
      <3> DEFINE k == at[i][1]
                 l == at[j][1]
                 x == at[i][2]
                 y == at[j][2]
      <3>2. (k - 1) * s + x = (l - 1) * s + y /\ k \in Nat /\ l \in Nat /\ x \in 1 .. s /\ y \in 1 .. s
        BY <2>1, <3>1
      <3> HIDE DEF k, l, x, y
      <3>3. k = l /\ x = y
        BY <3>2, RowMajorOnce
      <3> QED BY <3>3 DEF k, l, x, y
    <2>3. at[i] = at[j]
      BY <1>1, <2>2
    <2> QED BY <2>3 DEF Locates
  <1>4. f \in Injection(1 .. Len(q), 1 .. n * s)
    <2> HIDE DEF f
    <2> QED BY <1>2, <1>3 DEF Injection, IsInjective
  <1> HIDE DEF f
  <1> DEFINE m == n * s
  <1>5. m \in Nat
    <2>1. 0 <= n * s /\ n * s \in Int
      BY Z3
    <2> QED BY <2>1
  <1> HIDE DEF m
  <1>6. IsFiniteSet(1 .. m) /\ Cardinality(1 .. m) = m /\ Cardinality(1 .. Len(q)) = Len(q)
    <2>1. IsFiniteSet(1 .. m) /\ Cardinality(1 .. m) = m
      BY <1>5, FirstNumbers
    <2>2. Cardinality(1 .. Len(q)) = Len(q)
      BY FirstNumbers
    <2> QED BY <2>1, <2>2
  <1>7. f \in Injection(1 .. Len(q), 1 .. m)
    BY <1>4 DEF m
  <1>8. Len(q) <= m
    BY <1>6, <1>7, FS_Injection
  <1> QED BY <1>8 DEF m
-----------------------------------------------------------------------------
(* Market by market.                                                       *)

HasMarkets(raw) == \A i \in 1 .. Len(raw) : raw[i].market \in Int

\* The markets in their order.
LEMMA MarketsInOrder ==
  ASSUME NEW A, NEW raw \in Seq(A), HasMarkets(raw)
  PROVE  /\ MarketsOf(raw) \in SUBSET Int /\ IsFiniteSet(MarketsOf(raw))
         /\ Enumerates(Ascending(MarketsOf(raw)), MarketsOf(raw))
  <1> DEFINE M == MarketsOf(raw)
             n == Len(raw)
             f == [i \in 1 .. n |-> raw[i].market]
  <1>1. n \in Nat /\ DOMAIN raw = 1 .. n
    BY LenProperties
  <1> HIDE DEF n
  <1>2. M = {raw[i].market : i \in 1 .. n}
    BY <1>1 DEF MarketsOf
  <1>3. M \in SUBSET Int
    BY <1>2 DEF HasMarkets, n
  <1>4. f \in Surjection(1 .. n, M)
    BY <1>2 DEF Surjection
  <1> HIDE DEF f, M
  <1>5. IsFiniteSet(M)
    BY <1>1, <1>4, FirstNumbers, FS_Surjection
  <1>6. Enumerates(Ascending(M), M)
    BY <1>3, <1>5, AscendingEnumerates
  <1> QED BY <1>3, <1>5, <1>6 DEF M

\* q are samples of market m, as many as its share at most.
Shares(q, A, raw, m, share) ==
  /\ q \in Seq(A) /\ Len(q) \in 1 .. share
  /\ \E h : Draws(h, q, raw)
  /\ \A i \in 1 .. Len(q) : q[i].market = m

\* What is sampled of one market.
LEMMA ShareOfMarket ==
  ASSUME NEW A, NEW raw \in Seq(A), NEW m \in MarketsOf(raw), NEW share \in Nat \ {0}
  PROVE  Shares(EvenlySampled(OfMarket(raw, m), share), A, raw, m, share)
  <1> DEFINE p == OfMarket(raw, m)
             q == EvenlySampled(p, share)
  <1>1. /\ p \in Seq(A) /\ \A i \in 1 .. Len(p) : p[i].market = m
        /\ \E h : Draws(h, p, raw)
        /\ Len(p) = Cardinality(PlacesOf(raw, m))
    BY OfMarketIs
  <1>2. PlacesOf(raw, m) # {} /\ IsFiniteSet(PlacesOf(raw, m))
    <2>1. Len(raw) \in Nat /\ DOMAIN raw = 1 .. Len(raw)
      BY LenProperties
    <2>2. PlacesOf(raw, m) # {}
      BY <2>1 DEF MarketsOf, PlacesOf
    <2>3. PlacesOf(raw, m) \in SUBSET (1 .. Len(raw))
      BY DEF PlacesOf
    <2>4. IsFiniteSet(1 .. Len(raw))
      BY <2>1, FirstNumbers
    <2> QED BY <2>2, <2>3, <2>4, FS_Subset
  <1> HIDE DEF p
  <1>3. p # <<>>
    <2>1. Len(p) # 0
      BY <1>1, <1>2, FS_EmptySet
    <2> QED BY <2>1, EmptySeq
  <1>4. q \in Seq(A) /\ Len(q) <= share /\ Len(q) # 0 /\ \E h : Draws(h, q, p)
    BY <1>1, <1>3, EvenlySampledDraws
  <1> HIDE DEF q
  <1>5. Len(q) \in Nat /\ Len(p) \in Nat /\ Len(raw) \in Nat
    BY <1>1, <1>4, LenProperties
  <1>6. PICK g : Draws(g, q, p)
    BY <1>4
  <1>7. \A i \in 1 .. Len(q) : q[i].market = m
    <2> SUFFICES ASSUME NEW i \in 1 .. Len(q) PROVE q[i].market = m
      OBVIOUS
    <2>1. g[i] \in 1 .. Len(p) /\ q[i] = p[g[i]]
      BY <1>6 DEF Draws
    <2>2. p[g[i]].market = m
      BY <1>1, <2>1
    <2> QED BY <2>1, <2>2
  <1>8. \E h : Draws(h, q, raw)
    BY <1>1, <1>5, <1>6, DrawnTwice
  <1>9. Len(q) \in 1 .. share
    BY <1>4, <1>5
  <1>10. Shares(q, A, raw, m, share)
    BY <1>4, <1>7, <1>8, <1>9 DEF Shares
  <1> QED BY <1>10 DEF q, p

\* L are samples of the markets of raw, those of the k-th of them in L[k].
ByMarket(L, A, raw, order, n, share) ==
  /\ L \in [1 .. n -> Seq(A)]
  /\ \A k \in 1 .. n : /\ Len(L[k]) \in 1 .. share
                       /\ \E h : Draws(h, L[k], raw)
                       /\ \A i \in 1 .. Len(L[k]) : L[k][i].market = order[k]

\* One after the other they are drawn from raw.
LEMMA DrawnByMarket ==
  ASSUME NEW A, NEW raw \in Seq(A), NEW n \in Nat, NEW order, NEW share \in Nat \ {0},
         \A j, k \in 1 .. n : j # k => order[j] # order[k],
         NEW L, ByMarket(L, A, raw, order, n, share), NEW C, NEW at, Locates(at, C, L, n)
  PROVE  /\ \E h : Draws(h, C, raw)
         /\ \A i \in 1 .. Len(C) : at[i][1] \in 1 .. n /\ C[i].market = order[at[i][1]]
         /\ \A i \in 1 .. Len(C) : at[i] = <<at[i][1], at[i][2]>> /\ at[i][2] \in 1 .. share
  <1> DEFINE G == [k \in 1 .. n |-> CHOOSE g : Draws(g, L[k], raw)]
             h == [i \in 1 .. Len(C) |-> G[at[i][1]][at[i][2]]]
  <1>1. ASSUME NEW i \in 1 .. Len(C)
        PROVE  /\ at[i] = <<at[i][1], at[i][2]>> /\ at[i][1] \in 1 .. n
               /\ at[i][2] \in 1 .. Len(L[at[i][1]]) /\ C[i] = L[at[i][1]][at[i][2]]
    <2>1. at[i] \in Places(L, n) /\ C[i] = L[at[i][1]][at[i][2]]
      BY DEF Locates
    <2>2. PICK k \in 1 .. n : at[i] \in {k} \X (1 .. Len(L[k]))
      BY <2>1 DEF Places
    <2> QED BY <2>1, <2>2
  <1>2. \A k \in 1 .. n : Len(L[k]) \in 1 .. share /\ \A i \in 1 .. Len(L[k]) : L[k][i].market = order[k]
    BY DEF ByMarket
  <1>3. ASSUME NEW k \in 1 .. n PROVE Draws(G[k], L[k], raw)
    <2>1. \E g : Draws(g, L[k], raw)
      BY DEF ByMarket
    <2>2. G[k] = CHOOSE g : Draws(g, L[k], raw)
      OBVIOUS
    <2> HIDE DEF G
    <2> QED BY <2>1, <2>2
  <1> HIDE DEF G
  <1>4. ASSUME NEW i \in 1 .. Len(C)
        PROVE  /\ h[i] \in 1 .. Len(raw) /\ C[i] = raw[h[i]]
               /\ C[i].market = order[at[i][1]] /\ at[i][2] \in 1 .. share
    <2> DEFINE k == at[i][1]
               j == at[i][2]
    <2>1. k \in 1 .. n /\ j \in 1 .. Len(L[k]) /\ C[i] = L[k][j] /\ h[i] = G[k][j]
      BY <1>1
    <2> HIDE DEF k, j, h
    <2>2. G[k][j] \in 1 .. Len(raw) /\ L[k][j] = raw[G[k][j]]
      BY <1>3, <2>1 DEF Draws
    <2>3. L[k][j].market = order[k] /\ j \in 1 .. share
      BY <1>2, <2>1
    <2> QED BY <2>1, <2>2, <2>3 DEF k, j
  <1>5. ASSUME NEW i \in 1 .. Len(C), NEW j \in 1 .. Len(C), i # j PROVE h[i] # h[j]
    <2> DEFINE k == at[i][1]
               l == at[j][1]
               x == at[i][2]
               y == at[j][2]
    <2>1. /\ k \in 1 .. n /\ l \in 1 .. n /\ x \in 1 .. Len(L[k]) /\ y \in 1 .. Len(L[l])
          /\ at[i] = <<k, x>> /\ at[j] = <<l, y>> /\ h[i] = G[k][x] /\ h[j] = G[l][y]
      BY <1>1
    <2>2. at[i] # at[j]
      BY <1>5 DEF Locates
    <2>3. /\ C[i] = raw[h[i]] /\ C[j] = raw[h[j]]
          /\ C[i].market = order[k] /\ C[j].market = order[l]
      BY <1>4
    <2> HIDE DEF k, l, x, y, h
    <2>4. CASE k = l
      <3>1. x # y
        BY <2>1, <2>2, <2>4
      <3>2. G[k][x] # G[k][y]
        BY <1>3, <2>1, <2>4, <3>1 DEF Draws
      <3> QED BY <2>1, <2>4, <3>2
    <2>5. CASE k # l
      BY <2>1, <2>3, <2>5
    <2> QED BY <2>4, <2>5
  <1>6. h \in [1 .. Len(C) -> 1 .. Len(raw)]
    BY <1>4
  <1> HIDE DEF h
  <1>7. Draws(h, C, raw)
    BY <1>4, <1>5, <1>6 DEF Draws
  <1> QED BY <1>1, <1>4, <1>7
\* C are samples of every market, at most share of each.
Selects(C, A, raw, share) ==
  /\ C \in Seq(A)
  /\ \E h : Draws(h, C, raw)
  /\ MarketsOf(C) = MarketsOf(raw)
  /\ \A m : Cardinality(PlacesOf(C, m)) \in Nat /\ Cardinality(PlacesOf(C, m)) <= share
  /\ Cardinality(MarketsOf(raw)) \in Nat /\ Len(C) <= Cardinality(MarketsOf(raw)) * share

\* Such are what is sampled of all markets, one after the other.
LEMMA SelectedIs ==
  ASSUME NEW A, NEW raw \in Seq(A), HasMarkets(raw), NEW share \in Nat \ {0},
         NEW order, order = Ascending(MarketsOf(raw)),
         NEW C, C = Concat([k \in DOMAIN order |-> EvenlySampled(OfMarket(raw, order[k]), share)])
  PROVE  Selects(C, A, raw, share)
  <1> DEFINE M == MarketsOf(raw)
             n == Cardinality(M)
             L == [k \in 1 .. n |-> EvenlySampled(OfMarket(raw, order[k]), share)]
  <1>1. /\ n \in Nat /\ order \in [1 .. n -> M]
        /\ \A i, j \in 1 .. n : i < j => order[i] < order[j]
        /\ \A m \in M : \E i \in 1 .. n : order[i] = m
        /\ M \in SUBSET Int
    BY MarketsInOrder DEF Enumerates
  <1>2. C = Concat(L)
    BY <1>1
  <1> HIDE DEF n
  <1>3. \A j, k \in 1 .. n : j # k => order[j] # order[k]
    <2> SUFFICES ASSUME NEW j \in 1 .. n, NEW k \in 1 .. n, j # k PROVE order[j] # order[k]
      OBVIOUS
    <2>1. order[j] \in Int /\ order[k] \in Int /\ (j < k \/ k < j)
      BY <1>1
    <2> QED BY <1>1, <2>1
  <1>4. ASSUME NEW k \in 1 .. n
        PROVE  /\ L[k] \in Seq(A) /\ Len(L[k]) \in 1 .. share
               /\ \E h : Draws(h, L[k], raw)
               /\ \A i \in 1 .. Len(L[k]) : L[k][i].market = order[k]
    <2>1. order[k] \in MarketsOf(raw)
      BY <1>1
    <2> DEFINE m == order[k]
               l == L[k]
    <2>2. l = EvenlySampled(OfMarket(raw, m), share) /\ m \in MarketsOf(raw)
      BY <2>1
    <2> HIDE DEF l, m
    <2>3. Shares(l, A, raw, m, share)
      BY <2>2, ShareOfMarket
    <2> QED BY <2>3 DEF Shares, l, m
  <1>5. L \in [1 .. n -> Seq(A)]
    <2>1. L = [k \in 1 .. n |-> L[k]]
      OBVIOUS
    <2> HIDE DEF L
    <2> QED BY <1>4, <2>1
  <1> HIDE DEF L, M
  <1>6. ByMarket(L, A, raw, order, n, share)
    BY <1>4, <1>5 DEF ByMarket
  <1>7. C \in Seq(A) /\ \E at : Locates(at, C, L, n)
    <2>1. n \in Nat
      BY <1>1
    <2>2. Concat(L) \in Seq(A) /\ \E at : Locates(at, Concat(L), L, n)
      BY ONLY <1>5, <2>1, ConcatLocates
    <2> QED BY ONLY <1>2, <2>2
  <1>8. PICK at : Locates(at, C, L, n)
    BY <1>7
  <1>9. /\ \E h : Draws(h, C, raw)
        /\ \A i \in 1 .. Len(C) : at[i][1] \in 1 .. n /\ C[i].market = order[at[i][1]]
        /\ \A i \in 1 .. Len(C) : at[i] = <<at[i][1], at[i][2]>> /\ at[i][2] \in 1 .. share
    <2>1. n \in Nat /\ raw \in Seq(A) /\ share \in Nat \ {0}
      BY <1>1
    <2> QED BY ONLY <1>3, <1>6, <1>8, <2>1, DrawnByMarket
  <1>10. Len(C) \in Nat /\ DOMAIN C = 1 .. Len(C)
    BY <1>7, LenProperties
  <1>11. MarketsOf(C) = M
    <2>1. ASSUME NEW m \in MarketsOf(C) PROVE m \in M
      <3>1. PICK i \in 1 .. Len(C) : m = C[i].market
        BY <1>10 DEF MarketsOf
      <3> QED BY <1>1, <1>9, <3>1
    <2>2. ASSUME NEW m \in M PROVE m \in MarketsOf(C)
      <3>1. PICK k \in 1 .. n : order[k] = m
        BY <1>1
      <3>2. <<k, 1>> \in Places(L, n)
        <4>1. 1 \in 1 .. Len(L[k])
          BY <1>4
        <4> QED BY <4>1 DEF Places
      <3>3. PICK i \in 1 .. Len(C) : at[i] = <<k, 1>>
        BY <1>8, <3>2 DEF Locates
      <3>4. at[i][1] = k
        BY <3>3
      <3>5. C[i].market = m
        BY <1>9, <3>1, <3>4
      <3> QED BY <1>10, <3>5 DEF MarketsOf
    <2> QED BY <2>1, <2>2
  <1>12. ASSUME NEW m PROVE Cardinality(PlacesOf(C, m)) \in Nat /\ Cardinality(PlacesOf(C, m)) <= share
    <2> DEFINE f == [i \in PlacesOf(C, m) |-> at[i][2]]
    <2>1. f \in [PlacesOf(C, m) -> 1 .. share]
      BY <1>9 DEF PlacesOf
    <2>2. ASSUME NEW i \in PlacesOf(C, m), NEW j \in PlacesOf(C, m), f[i] = f[j] PROVE i = j
      <3>1. i \in 1 .. Len(C) /\ j \in 1 .. Len(C) /\ C[i].market = m /\ C[j].market = m
        BY DEF PlacesOf
      <3>2. at[i][2] = at[j][2]
        BY <2>2
      <3>3. order[at[i][1]] = order[at[j][1]] /\ at[i][1] \in 1 .. n /\ at[j][1] \in 1 .. n
        BY <1>9, <3>1
      <3>4. at[i][1] = at[j][1]
        BY <1>3, <3>3
      <3>5. at[i] = at[j]
        BY <1>9, <3>1, <3>2, <3>4
      <3> QED BY <1>8, <3>1, <3>5 DEF Locates
    <2> HIDE DEF f
    <2>3. f \in Injection(PlacesOf(C, m), 1 .. share)
      BY <2>1, <2>2 DEF Injection, IsInjective
    <2>4. IsFiniteSet(1 .. share) /\ Cardinality(1 .. share) = share
      BY FirstNumbers
    <2> QED BY <2>3, <2>4, FS_Injection, FS_CardinalityType
  <1>13. Len(C) <= n * share
    <2>1. \A k \in 1 .. n : Len(L[k]) \in Nat /\ Len(L[k]) <= share
      BY <1>4
    <2> QED BY <1>1, <1>8, <1>10, <2>1, LocatedLength
  <1> QED BY <1>1, <1>7, <1>9, <1>11, <1>12, <1>13 DEF Selects, n, M
\* The share of a market keeps within both limits, and is never nothing.
LEMMA PerMarketCapIs ==
  ASSUME NEW raw, NEW limit \in Nat, MaxPerMarket \in Nat, Cardinality(MarketsOf(raw)) \in Nat \ {0}
  PROVE  LET share == PerMarketCap(raw, limit)
             groups == Cardinality(MarketsOf(raw))
         IN  /\ share \in Nat \ {0}
             /\ groups <= limit => groups * share <= limit
             /\ MaxPerMarket # 0 => share <= MaxPerMarket
  <1> DEFINE share == PerMarketCap(raw, limit)
             g == Cardinality(MarketsOf(raw))
             q == limit \div g
             most == Max({q, 1})
  <1>1. share = IF limit < g THEN 1
                ELSE IF MaxPerMarket = 0 THEN most ELSE Min({MaxPerMarket, most})
    BY DEF PerMarketCap
  <1>2. g \in Nat \ {0}
    OBVIOUS
  <1> HIDE DEF g, share
  <1>3. q \in Nat /\ g * q <= limit /\ limit < g * q + g
    BY <1>2, Quotient
  <1> HIDE DEF q
  <1>4. most \in {q, 1} /\ q <= most /\ 1 <= most
    <2>1. q \in Int /\ 1 \in Int
      BY <1>3
    <2> QED BY ONLY <2>1, MaxOfTwo
  <1> HIDE DEF most
  <1>5. CASE limit < g
    <2>1. share = 1
      BY <1>1, <1>5
    <2> QED BY <1>2, <1>5, <2>1 DEF g, share
  <1>6. CASE ~(limit < g)
    <2>1. q # 0
      <3> SUFFICES ASSUME q = 0 PROVE FALSE
        OBVIOUS
      <3>1. g * q = 0
        BY <1>2
      <3> QED BY <1>2, <1>3, <1>6, <3>1
    <2>2. most = q
      BY <1>3, <1>4, <2>1
    <2>3. share \in Nat \ {0} /\ share <= q /\ (MaxPerMarket # 0 => share <= MaxPerMarket)
      <3>1. CASE MaxPerMarket = 0
        BY <1>1, <1>3, <1>6, <2>1, <2>2, <3>1
      <3>2. CASE MaxPerMarket # 0
        <4>1. share = Min({MaxPerMarket, q})
          BY <1>1, <1>6, <2>2, <3>2
        <4>2. share \in {MaxPerMarket, q} /\ share <= MaxPerMarket /\ share <= q
          <5>1. MaxPerMarket \in Int /\ q \in Int
            BY <1>3
          <5> QED BY ONLY <4>1, <5>1, MinOfTwo
        <4> QED BY <1>3, <2>1, <3>2, <4>2
      <3> QED BY <3>1, <3>2
    <2>4. g * share <= limit
      <3>1. g * share <= g * q
        BY <1>2, <1>3, <2>3, Z3
      <3>2. g * share \in Int /\ g * q \in Int
        BY <1>2, <1>3, <2>3
      <3> QED BY <1>3, <3>1, <3>2
    <2> QED BY <2>3, <2>4 DEF g, share
  <1> QED BY <1>5, <1>6

\* The samples of a market that are drawn are within what its share allows.
LEMMA CapKept ==
  ASSUME NEW A, NEW q \in Seq(A), NEW cap \in Nat,
         \A m : Cardinality(PlacesOf(q, m)) \in Nat /\ Cardinality(PlacesOf(q, m)) <= cap
  PROVE  \A m : Len(OfMarket(q, m)) <= cap
  <1> TAKE m
  <1>1. Len(OfMarket(q, m)) = Cardinality(PlacesOf(q, m))
    BY OfMarketIs
  <1> QED BY <1>1

(***************************************************************************)
(* Balancing keeps the limit on all samples and the one on each market,    *)
(* takes no sample twice, and loses no market that there was room for.     *)
(* market_balanced_meta_samples, extend_evenly_sampled, per_market_cap.    *)
(***************************************************************************)
THEOREM BalancedIsBalanced ==
  ASSUME NEW A, NEW raw \in Seq(A), HasMarkets(raw), NEW limit \in Nat, MaxPerMarket \in Nat
  PROVE  /\ Balanced(raw, limit) \in Seq(A)
         /\ \E h : Draws(h, Balanced(raw, limit), raw)
         /\ IsBalanced(Balanced(raw, limit), raw, limit)
  <1> DEFINE B == Balanced(raw, limit)
             order == Ascending(MarketsOf(raw))
             share == PerMarketCap(raw, limit)
             C == Concat([k \in DOMAIN order |-> EvenlySampled(OfMarket(raw, order[k]), share)])
             groups == Cardinality(MarketsOf(raw))
             n == Len(raw)
             Good(q) == /\ q \in Seq(A) /\ \E h : Draws(h, q, raw)
                        /\ Len(q) <= limit
                        /\ groups <= limit => MarketsOf(q) = MarketsOf(raw)
                        /\ MaxPerMarket # 0 =>
                             \A m \in MarketsOf(q) : Len(OfMarket(q, m)) <= MaxPerMarket
  <1>1. n \in Nat /\ DOMAIN raw = 1 .. n /\ (n = 0 => raw = <<>>)
    BY LenProperties, EmptySeq
  <1>2. ASSUME Good(B) PROVE B \in Seq(A) /\ (\E h : Draws(h, B, raw)) /\ IsBalanced(B, raw, limit)
    <2> HIDE DEF B
    <2>1. B \in Seq(A) /\ \E h : Draws(h, B, raw)
      BY <1>2
    <2>2. Elements(B) \subseteq Elements(raw) /\ (Distinct(raw) => Distinct(B))
      BY <2>1, DrawnAreElements
    <2> QED BY <1>2, <2>1, <2>2 DEF IsBalanced
  <1>3. B = IF raw = <<>> \/ limit = 0 THEN <<>>
            ELSE IF n <= limit /\ MaxPerMarket = 0 THEN raw
            ELSE IF Len(C) <= limit THEN C
            ELSE EvenlySampled(C, limit)
    BY DEF Balanced
  <1> HIDE DEF B, C, order, share
  <1>4. groups \in Nat /\ (groups = 0 => MarketsOf(raw) = {}) /\ IsFiniteSet(MarketsOf(raw))
    BY MarketsInOrder, FS_CardinalityType, FS_EmptySet
  <1>5. ASSUME raw = <<>> \/ limit = 0 PROVE Good(B)
    <2> DEFINE none == <<>>
    <2>1. B = none
      BY <1>3, <1>5
    <2>2. none \in Seq(A) /\ Len(none) = 0 /\ DOMAIN none = {}
      OBVIOUS
    <2> HIDE DEF none
    <2>3. MarketsOf(none) = {}
      BY <2>2 DEF MarketsOf
    <2>4. Draws([i \in 1 .. 0 |-> 0], none, raw)
      BY <2>2 DEF Draws
    <2>5. groups <= limit => MarketsOf(raw) = {}
      <3>1. CASE raw = <<>>
        <4>1. n = 0 /\ DOMAIN raw = {}
          BY <3>1
        <4> QED BY <4>1 DEF MarketsOf
      <3>2. CASE limit = 0
        BY <1>4, <3>2
      <3> QED BY <1>5, <3>1, <3>2
    <2> HIDE DEF groups
    <2>6. Good(none)
      BY <2>2, <2>3, <2>4, <2>5
    <2> HIDE DEF Good
    <2> QED BY <2>1, <2>6
  <1>6. ASSUME ~(raw = <<>> \/ limit = 0) /\ n <= limit /\ MaxPerMarket = 0 PROVE Good(B)
    <2>1. B = raw
      BY <1>3, <1>6
    <2>2. Draws([i \in 1 .. n |-> i], raw, raw)
      BY <1>1 DEF Draws
    <2> HIDE DEF groups
    <2>3. Good(raw)
      BY <1>6, <2>2
    <2> HIDE DEF Good
    <2> QED BY <2>1, <2>3
  <1>7. ASSUME ~(raw = <<>> \/ limit = 0) /\ ~(n <= limit /\ MaxPerMarket = 0) PROVE Good(B)
    <2>1. groups \in Nat \ {0}
      <3>1. 1 \in DOMAIN raw
        BY <1>1, <1>7
      <3>2. MarketsOf(raw) # {}
        BY <3>1 DEF MarketsOf
      <3> QED BY <1>4, <3>2, FS_EmptySet
    <2>2. /\ share \in Nat \ {0}
          /\ groups <= limit => groups * share <= limit
          /\ MaxPerMarket # 0 => share <= MaxPerMarket
      BY <2>1, PerMarketCapIs DEF share
    <2>3. /\ C \in Seq(A)
          /\ \E h : Draws(h, C, raw)
          /\ MarketsOf(C) = MarketsOf(raw)
          /\ \A m : Cardinality(PlacesOf(C, m)) \in Nat /\ Cardinality(PlacesOf(C, m)) <= share
          /\ Len(C) <= groups * share
      <3>1. order = Ascending(MarketsOf(raw))
        BY DEF order
      <3>2. C = Concat([k \in DOMAIN order |-> EvenlySampled(OfMarket(raw, order[k]), share)])
        BY DEF C
      <3>3. Selects(C, A, raw, share)
        BY <2>2, <3>1, <3>2, SelectedIs
      <3> QED BY <3>3 DEF Selects
    <2> HIDE DEF groups
    <2>4. Len(C) \in Nat /\ Len(raw) \in Nat
      BY <2>3, LenProperties
    <2>5. ASSUME NEW q \in Seq(A), \A m : Cardinality(PlacesOf(q, m)) \in Nat /\ Cardinality(PlacesOf(q, m)) <= share,
                 MaxPerMarket # 0, NEW m
          PROVE  Len(OfMarket(q, m)) <= MaxPerMarket
      <3>1. share \in Nat /\ share <= MaxPerMarket
        BY <2>2, <2>5
      <3>2. Len(OfMarket(q, m)) <= share
        BY <2>5, <3>1, CapKept
      <3>3. Len(OfMarket(q, m)) \in Nat
        BY OfMarketIs, LenProperties
      <3> QED BY <3>1, <3>2, <3>3
    <2>6. CASE Len(C) <= limit
      <3>1. B = C
        BY <1>3, <1>7, <2>6
      <3>2. Good(C)
        BY <2>3, <2>5, <2>6
      <3> HIDE DEF Good
      <3> QED BY <3>1, <3>2
    <2>7. CASE ~(Len(C) <= limit)
      <3> DEFINE q == EvenlySampled(C, limit)
      <3>1. B = q
        BY <1>3, <1>7, <2>7
      <3>2. q \in Seq(A) /\ Len(q) <= limit /\ \E h : Draws(h, q, C)
        BY <2>3, EvenlySampledDraws
      <3> HIDE DEF q
      <3>3. Len(q) \in Nat
        BY <3>2, LenProperties
      <3>4. PICK h : Draws(h, q, C)
        BY <3>2
      <3>5. \E f : Draws(f, q, raw)
        BY <2>3, <2>4, <3>3, <3>4, DrawnTwice
      <3>6. ~(groups <= limit)
        <4> SUFFICES ASSUME groups <= limit PROVE FALSE
          OBVIOUS
        <4> DEFINE u == groups * share
        <4>1. u <= limit /\ Len(C) <= u /\ u \in Int
          BY <2>1, <2>2, <2>3
        <4> HIDE DEF u
        <4> QED BY <2>4, <2>7, <4>1
      <3>7. \A m : Cardinality(PlacesOf(q, m)) \in Nat /\ Cardinality(PlacesOf(q, m)) <= share
        <4> TAKE m
        <4>1. /\ Cardinality(PlacesOf(q, m)) \in Nat /\ Cardinality(PlacesOf(C, m)) \in Nat
              /\ Cardinality(PlacesOf(q, m)) <= Cardinality(PlacesOf(C, m))
          BY <2>4, <3>3, <3>4, DrawnOfMarket
        <4>2. Cardinality(PlacesOf(C, m)) <= share
          BY <2>3
        <4> QED BY <2>2, <4>1, <4>2
      <3>8. MaxPerMarket # 0 => \A m \in MarketsOf(q) : Len(OfMarket(q, m)) <= MaxPerMarket
        BY <2>5, <3>2, <3>7
      <3>9. Good(q)
        BY <3>2, <3>5, <3>6, <3>8
      <3> HIDE DEF Good
      <3> QED BY <3>1, <3>9
    <2> QED BY <2>6, <2>7
  <1>8. Good(B)
    <2> HIDE DEF Good
    <2> QED BY <1>5, <1>6, <1>7
  <1> QED BY <1>2, <1>8 DEF B
-----------------------------------------------------------------------------
(* The split.                                                              *)

\* The samples of some of the markets.
LEMMA OfMarketsType ==
  ASSUME NEW A, NEW raw \in Seq(A), NEW markets \in SUBSET Int, IsFiniteSet(markets)
  PROVE  OfMarkets(raw, markets) \in Seq({s \in A : s.market \in markets})
  <1> DEFINE B == {s \in A : s.market \in markets}
             order == Ascending(markets)
             n == Cardinality(markets)
             L == [k \in 1 .. n |-> OfMarket(raw, order[k])]
  <1>1. n \in Nat /\ order \in [1 .. n -> markets]
    BY AscendingEnumerates DEF Enumerates
  <1>2. OfMarkets(raw, markets) = Concat(L)
    <2>1. OfMarkets(raw, markets) = Concat([k \in DOMAIN order |-> OfMarket(raw, order[k])])
      BY Zenon DEF OfMarkets
    <2>2. DOMAIN order = 1 .. n
      BY <1>1
    <2> HIDE DEF order, n
    <2> QED BY <2>1, <2>2
  <1> HIDE DEF order, n
  <1>3. ASSUME NEW k \in 1 .. n PROVE L[k] \in Seq(B)
    <2> DEFINE m == order[k]
               q == OfMarket(raw, m)
    <2>1. m \in markets /\ L[k] = q
      BY <1>1
    <2>2. q \in Seq(A) /\ \A i \in 1 .. Len(q) : q[i].market = m
      BY OfMarketIs
    <2> HIDE DEF m, q, L
    <2>3. Len(q) \in Nat /\ q \in [1 .. Len(q) -> A]
      BY <2>2, LenProperties
    <2>4. q \in [1 .. Len(q) -> B]
      BY <2>1, <2>2, <2>3
    <2>5. q \in Seq(B)
      <3> HIDE DEF B
      <3> QED BY <2>3, <2>4
    <2> QED BY <2>1, <2>5
  <1>4. L \in [1 .. n -> Seq(B)]
    <2>1. L = [k \in 1 .. n |-> L[k]]
      OBVIOUS
    <2> HIDE DEF L, B
    <2> QED BY <1>3, <2>1
  <1> HIDE DEF L, B
  <1>5. Concat(L) \in Seq(B)
    BY <1>1, <1>4, ConcatLocates
  <1> QED BY <1>2, <1>5 DEF B

\* How samples are divided into those fitted and those held out.
Divides(split, A) ==
  /\ split.fit \in Seq(A) /\ split.validation \in Seq(A)
  /\ \A m \in MarketsOf(split.fit), n \in MarketsOf(split.validation) : m < n

\* A subset's sequences.
LEMMA MarketsWithin ==
  ASSUME NEW A, NEW markets, NEW q \in Seq({s \in A : s.market \in markets})
  PROVE  q \in Seq(A) /\ MarketsOf(q) \subseteq markets
  <1> DEFINE B == {s \in A : s.market \in markets}
  <1>1. Len(q) \in Nat /\ DOMAIN q = 1 .. Len(q) /\ q \in [1 .. Len(q) -> B]
    BY LenProperties
  <1>2. q \in [1 .. Len(q) -> A]
    BY <1>1
  <1>3. MarketsOf(q) \subseteq markets
    BY <1>1 DEF MarketsOf
  <1> QED BY <1>1, <1>2, <1>3

\* The markets held out come after those that are fitted.
LEMMA SplitDivides ==
  ASSUME NEW A, NEW raw \in Seq(A), HasMarkets(raw)
  PROVE  Divides(SplitByMarket(raw), A)
  <1> DEFINE M == MarketsOf(raw)
             order == Ascending(M)
             n == Len(order)
             part == (8 * n + 5) \div 10
             least == Min({part, n - 1})
             cut == Max({1, least})
             early == {order[i] : i \in 1 .. cut}
             late == M \ early
             S == SplitByMarket(raw)
  <1>1. M \in SUBSET Int /\ IsFiniteSet(M) /\ Enumerates(order, M)
    BY MarketsInOrder
  <1>2. S = IF n < 2 THEN [fit |-> raw, validation |-> <<>>]
            ELSE [fit |-> OfMarkets(raw, early), validation |-> OfMarkets(raw, late)]
    BY DEF SplitByMarket
  <1>3. /\ n \in Nat /\ order \in [1 .. n -> M]
        /\ \A i, j \in 1 .. n : i < j => order[i] < order[j]
        /\ \A m \in M : \E i \in 1 .. n : order[i] = m
    <2>1. order \in [1 .. Cardinality(M) -> M] /\ Cardinality(M) \in Nat
      BY <1>1 DEF Enumerates
    <2>2. n = Cardinality(M)
      <3> HIDE DEF order, M
      <3> QED BY <2>1
    <2> HIDE DEF n, order, M
    <2> QED BY <1>1, <2>1, <2>2 DEF Enumerates
  <1> HIDE DEF M, order, n, S
  <1>4. CASE n < 2
    <2>1. S.fit = raw /\ S.validation = <<>>
      BY <1>2, <1>4
    <2>2. <<>> \in Seq(A) /\ MarketsOf(<<>>) = {}
      BY DEF MarketsOf
    <2>3. S.fit \in Seq(A) /\ S.validation \in Seq(A) /\ MarketsOf(S.validation) = {}
      BY <2>1, <2>2
    <2> QED BY <2>3 DEF Divides, S
  <1>5. CASE ~(n < 2)
    <2>1. cut \in 1 .. n
      <3>1. part \in Nat
        <4>1. 8 * n + 5 \in Nat /\ 10 \in Nat \ {0}
          BY <1>3
        <4> QED BY <4>1, Quotient
      <3> HIDE DEF part
      <3>2. least \in Int /\ least <= n - 1
        <4>1. part \in Int /\ n - 1 \in Int
          BY <1>3, <3>1
        <4>2. least \in {part, n - 1} /\ least <= n - 1
          BY ONLY <4>1, MinOfTwo
        <4> QED BY <4>1, <4>2
      <3> HIDE DEF least
      <3>3. cut \in {1, least} /\ 1 <= cut
        <4>1. 1 \in Int /\ least \in Int
          BY <3>2
        <4> QED BY ONLY <4>1, MaxOfTwo
      <3> HIDE DEF cut
      <3> QED BY <1>3, <1>5, <3>2, <3>3
    <2> HIDE DEF cut
    <2>2. early \in SUBSET Int /\ late \in SUBSET Int /\ IsFiniteSet(late)
      <3>1. early \in SUBSET M
        BY <1>3, <2>1
      <3>2. late \in SUBSET M
        OBVIOUS
      <3> HIDE DEF early, late
      <3> QED BY <1>1, <3>1, <3>2, FS_Subset
    <2>3. IsFiniteSet(early)
      <3>1. early \in SUBSET M
        BY <1>3, <2>1
      <3> HIDE DEF early
      <3> QED BY <1>1, <3>1, FS_Subset
    <2>4. ASSUME NEW m \in early, NEW v \in late PROVE m < v
      <3>1. PICK i \in 1 .. cut : m = order[i]
        OBVIOUS
      <3>2. PICK j \in 1 .. n : v = order[j]
        BY <1>3
      <3>3. ~(j \in 1 .. cut)
        BY <3>2
      <3>4. i \in 1 .. n /\ i < j
        BY <1>3, <2>1, <3>3
      <3> QED BY <1>3, <3>1, <3>2, <3>4
    <2>5. S.fit = OfMarkets(raw, early) /\ S.validation = OfMarkets(raw, late)
      BY <1>2, <1>5
    <2> HIDE DEF early, late
    <2>6. S.fit \in Seq({s \in A : s.market \in early})
      BY <2>2, <2>3, <2>5, OfMarketsType
    <2>7. S.validation \in Seq({s \in A : s.market \in late})
      BY <2>2, <2>5, OfMarketsType
    <2>8. S.fit \in Seq(A) /\ MarketsOf(S.fit) \subseteq early
      BY <2>6, MarketsWithin
    <2>9. S.validation \in Seq(A) /\ MarketsOf(S.validation) \subseteq late
      BY <2>7, MarketsWithin
    <2>10. Divides(S, A)
      BY <2>4, <2>8, <2>9 DEF Divides
    <2> QED BY <2>10 DEF S
  <1> QED BY <1>4, <1>5
-----------------------------------------------------------------------------
(* What the training phase holds.                                          *)

Quotes == [at : Int, mid : Int, side : BOOLEAN, base : Int]
Samples == [market : Int, features : Int \X Int, base : Int, won : BOOLEAN]

\* A sequence read at positions in their order.
LEMMA ReadInOrder ==
  ASSUME NEW A, NEW s \in Seq(A), NEW P, P \subseteq DOMAIN s
  PROVE  LET t == Ascending(P)
         IN  \E n \in Nat : DOMAIN t = 1 .. n /\ \A k \in 1 .. n : t[k] \in DOMAIN s /\ s[t[k]] \in A
  <1> DEFINE t == Ascending(P)
             n == Cardinality(P)
  <1>1. Len(s) \in Nat /\ DOMAIN s = 1 .. Len(s) /\ s \in [1 .. Len(s) -> A]
    BY LenProperties
  <1>2. IsFiniteSet(P) /\ P \in SUBSET Int
    <2>1. IsFiniteSet(1 .. Len(s))
      BY <1>1, FirstNumbers
    <2> QED BY <1>1, <2>1, FS_Subset
  <1>3. n \in Nat /\ t \in [1 .. n -> P]
    BY <1>2, AscendingEnumerates DEF Enumerates
  <1> HIDE DEF t, n
  <1>4. DOMAIN t = 1 .. n /\ \A k \in 1 .. n : t[k] \in DOMAIN s /\ s[t[k]] \in A
    BY <1>1, <1>3
  <1>5. \E x \in Nat : DOMAIN t = 1 .. x /\ \A k \in 1 .. x : t[k] \in DOMAIN s /\ s[t[k]] \in A
    BY <1>3, <1>4
  <1> QED BY <1>5 DEF t

\* The events that are replayed are events of the tape.
LEMMA ReplayedType ==
  ASSUME NEW tape \in Seq(Quotes)
  PROVE  SampleReplayEvents(tape) \in Seq(Quotes)
  <1> DEFINE n == Len(tape)
             Bucket(i) == (tape[i].at - tape[1].at) \div SampleSecs
             closed == {i \in 2 .. n - 2 : Bucket(i) # Bucket(i + 1)}
             New(i) == tape[i].at # tape[Max(closed \union {1})].at
             inner  == closed \union {i \in {n - 1} : New(i)}
             Newer(i) == tape[i].at # tape[Max(inner \union {1})].at
             all    == inner \union {i \in {n} : Newer(i)}
             P      == all \union {1}
             kept   == Ascending(P)
             R      == SampleReplayEvents(tape)
  <1>1. R = IF SampleSecs = 0 \/ n <= 2 THEN tape ELSE [k \in DOMAIN kept |-> tape[kept[k]]]
    BY DEF SampleReplayEvents
  <1>2. n \in Nat /\ DOMAIN tape = 1 .. n
    BY LenProperties
  <1>3. CASE SampleSecs = 0 \/ n <= 2
    BY <1>1, <1>3
  <1>4. CASE ~(SampleSecs = 0 \/ n <= 2)
    <2>1. closed \subseteq 1 .. n
      <3> HIDE DEF Bucket, n
      <3> QED BY <1>2, <1>4
    <2>2. P \subseteq DOMAIN tape
      <3>1. \A i \in inner : i \in closed \/ i = n - 1
        OBVIOUS
      <3>2. \A i \in P : i \in inner \/ i = n \/ i = 1
        OBVIOUS
      <3>3. n - 1 \in 1 .. n /\ n \in 1 .. n /\ 1 \in 1 .. n
        <4> HIDE DEF n
        <4> QED BY <1>2, <1>4
      <3> HIDE DEF closed, n, New, Newer, inner, P
      <3> QED BY <1>2, <2>1, <3>1, <3>2, <3>3
    <2> HIDE DEF P, n, closed, New, inner, Newer, all
    <2>3. PICK m \in Nat :
            DOMAIN kept = 1 .. m /\ \A k \in 1 .. m : kept[k] \in DOMAIN tape /\ tape[kept[k]] \in Quotes
      BY <2>2, ReadInOrder
    <2> HIDE DEF kept, R
    <2>4. R = [k \in 1 .. m |-> tape[kept[k]]]
      BY <1>1, <1>4, <2>3
    <2>5. R \in [1 .. m -> Quotes]
      BY <2>3, <2>4
    <2>6. R \in Seq(Quotes)
      BY <2>3, <2>5
    <2> QED BY <2>6 DEF R
  <1> QED BY <1>3, <1>4

\* A market brings samples.
LEMMA MarketSamplesType ==
  ASSUME NEW m \in Int, NEW tape \in Seq(Quotes), NEW resolved \in BOOLEAN
  PROVE  MarketSamples(m, tape, resolved) \in Seq(Samples)
  <1> DEFINE run == SampleReplayEvents(tape)
             P == SamplePoints(run)
             points == Ascending(P)
             Of(e) == [market |-> m, features |-> <<e.mid, e.at>>, base |-> e.base,
                       won |-> e.side = resolved]
             R == MarketSamples(m, tape, resolved)
  <1>1. run \in Seq(Quotes)
    BY ReplayedType
  <1>2. R = [k \in DOMAIN points |-> Of(run[points[k]])]
    BY DEF MarketSamples
  <1>3. P \subseteq DOMAIN run
    BY DEF SamplePoints
  <1> HIDE DEF run, P, R
  <1>4. PICK n \in Nat :
          DOMAIN points = 1 .. n /\ \A k \in 1 .. n : points[k] \in DOMAIN run /\ run[points[k]] \in Quotes
    BY <1>1, <1>3, ReadInOrder
  <1>5. ASSUME NEW e \in Quotes PROVE Of(e) \in Samples
    BY DEF Quotes, Samples
  <1> HIDE DEF points, Of
  <1>6. R = [k \in 1 .. n |-> Of(run[points[k]])]
    BY <1>2, <1>4
  <1>7. R \in [1 .. n -> Samples]
    BY <1>4, <1>5, <1>6
  <1>8. R \in Seq(Samples)
    BY <1>4, <1>7
  <1> QED BY <1>8 DEF R

\* What is left after filtering are samples.
LEMMA FilteredType ==
  ASSUME NEW A, NEW raw \in Seq(A)
  PROVE  Filtered(raw) \in Seq(A)
  <1> DEFINE n == Len(raw)
             Wanted(s) == /\ s.base >= MinBaseP
                        /\ s.features[2] >= LeastSecs
                        /\ MidDistance(s) >= MinMidDistance
             K == {k \in 1 .. n : Wanted(raw[k])}
             Takes(f) == f = [k \in 0 .. n |->
                                IF k = 0 THEN <<>>
                                ELSE IF Wanted(raw[k]) THEN Append(f[k - 1], raw[k]) ELSE f[k - 1]]
             kept == CHOOSE f : Takes(f)
             q == Filtered(raw)
  <1>1. q = kept[n]
    BY DEF Filtered, Filter
  <1>2. n \in Nat
    BY LenProperties
  <1> HIDE DEF q, n, Wanted
  <1>3. ASSUME NEW f PROVE Takes(f) <=> IsFilter(f, raw, K, n)
    <2>1. \A k \in 0 .. n :
            (IF k = 0 THEN <<>> ELSE IF Wanted(raw[k]) THEN Append(f[k - 1], raw[k]) ELSE f[k - 1])
            = (IF k = 0 THEN <<>> ELSE IF k \in K THEN Append(f[k - 1], raw[k]) ELSE f[k - 1])
      BY <1>2
    <2> QED BY <2>1 DEF IsFilter
  <1> HIDE DEF K
  <1>4. Takes(kept)
    <2>1. \E f : IsFilter(f, raw, K, n)
      BY <1>2, FilterExists
    <2> HIDE DEF Takes
    <2>2. \E f : Takes(f)
      BY <1>3, <2>1
    <2> QED BY <2>2
  <1> HIDE DEF kept, Takes
  <1>5. IsFilter(kept, raw, K, n)
    BY <1>3, <1>4
  <1>6. q \in Seq(A)
    BY <1>1, <1>5, FilterPicks DEF n
  <1> QED BY <1>6 DEF q
\* What is drawn is of the markets it is drawn from.
LEMMA DrawnMarkets ==
  ASSUME NEW A, NEW q \in Seq(A), NEW raw \in Seq(A), NEW h, Draws(h, q, raw)
  PROVE  MarketsOf(q) \subseteq MarketsOf(raw)
  <1>1. /\ DOMAIN q = 1 .. Len(q) /\ DOMAIN raw = 1 .. Len(raw)
    BY LenProperties
  <1>2. \A i \in 1 .. Len(q) : h[i] \in 1 .. Len(raw) /\ q[i] = raw[h[i]]
    BY DEF Draws
  <1> QED BY <1>1, <1>2 DEF MarketsOf

\* Samples have markets and probabilities.
LEMMA SamplesHave ==
  ASSUME NEW raw \in Seq(Samples)
  PROVE  HasMarkets(raw) /\ IsSampled(raw)
  <1>1. DOMAIN raw = 1 .. Len(raw) /\ \A i \in 1 .. Len(raw) : raw[i] \in Samples
    BY LenProperties
  <1>2. \A s \in Samples : s.market \in Int /\ s.base \in Int
    BY DEF Samples
  <1> QED BY <1>1, <1>2 DEF HasMarkets, IsSampled

\* What is fitted and what is held out of samples is balanced, and held out.
LEMMA FitIsHeldOut ==
  ASSUME NEW raw \in Seq(Samples), MaxPerMarket \in Nat, MaxFitSamples \in Nat,
         MaxValidationSamples \in Nat
  PROVE  /\ FitSamples(raw) \in Seq(Samples)
         /\ IsBalanced(FitSamples(raw), SplitByMarket(raw).fit, MaxFitSamples)
         /\ IsBalanced(ValidationSamples(raw), SplitByMarket(raw).validation, MaxValidationSamples)
         /\ \A m \in MarketsOf(FitSamples(raw)), n \in MarketsOf(ValidationSamples(raw)) : m < n
  <1> DEFINE f == SplitByMarket(raw).fit
             v == SplitByMarket(raw).validation
             p == Balanced(f, MaxFitSamples)
             q == Balanced(v, MaxValidationSamples)
  <1>1. p = FitSamples(raw) /\ q = ValidationSamples(raw)
    BY DEF FitSamples, ValidationSamples
  <1>2. /\ f \in Seq(Samples) /\ v \in Seq(Samples)
        /\ \A m \in MarketsOf(f), n \in MarketsOf(v) : m < n
    BY SamplesHave, SplitDivides DEF Divides
  <1> HIDE DEF f, v
  <1>3. HasMarkets(f) /\ HasMarkets(v)
    BY <1>2, SamplesHave
  <1>4. p \in Seq(Samples) /\ (\E h : Draws(h, p, f)) /\ IsBalanced(p, f, MaxFitSamples)
    BY <1>2, <1>3, BalancedIsBalanced
  <1>5. q \in Seq(Samples) /\ (\E h : Draws(h, q, v)) /\ IsBalanced(q, v, MaxValidationSamples)
    BY <1>2, <1>3, BalancedIsBalanced
  <1> HIDE DEF p, q
  <1>6. MarketsOf(p) \subseteq MarketsOf(f) /\ MarketsOf(q) \subseteq MarketsOf(v)
    BY <1>2, <1>4, <1>5, DrawnMarkets
  <1>7. \A m \in MarketsOf(p), n \in MarketsOf(q) : m < n
    BY <1>2, <1>6
  <1>8. /\ p \in Seq(Samples) /\ IsBalanced(p, f, MaxFitSamples)
        /\ IsBalanced(q, v, MaxValidationSamples)
        /\ \A m \in MarketsOf(p), n \in MarketsOf(q) : m < n
    BY <1>4, <1>5, <1>7
  <1> QED BY <1>1, <1>8 DEF f, v

\* A calibrator that comes from a fit has the blocks and the trees of one.
IsFitted(calibrator, f) ==
  /\ calibrator.isotonic # <<>> =>
       /\ calibrator.isotonic = Isotonic(f, calibrator.beta)
       /\ calibrator.beta.turn \in Int
  /\ calibrator.trees = <<>> \/ calibrator.trees \in TreeEnsembles(f)

\* Every calibrator of FitBatch is such a one.
LEMMA FitBatchFits ==
  ASSUME NEW f, NEW epochs, NEW calibrator \in FitBatch(f, epochs)
  PROVE  IsFitted(calibrator, f)
  <1>1. CASE f = <<>> \/ epochs = 0
    <2>1. calibrator = Untrained
      BY <1>1 DEF FitBatch
    <2>2. calibrator.isotonic = <<>> /\ calibrator.trees = <<>>
      BY <2>1 DEF Untrained
    <2> QED BY <2>2 DEF IsFitted
  <1>2. CASE ~(f = <<>> \/ epochs = 0)
    <2>1. PICK beta \in Betas(f), trees \in TreeEnsembles(f) :
            calibrator = [beta |-> beta, isotonic |-> Isotonic(f, beta), trees |-> trees,
                          updates |-> epochs * Len(f)]
      <3> DEFINE ensembles == TreeEnsembles(f)
                 Fitted(beta) == {[beta |-> beta, isotonic |-> Isotonic(f, beta), trees |-> trees,
                                   updates |-> epochs * Len(f)] : trees \in ensembles}
      <3>1. calibrator \in UNION {Fitted(beta) : beta \in Betas(f)}
        BY <1>2 DEF FitBatch
      <3>2. PICK beta \in Betas(f) : calibrator \in Fitted(beta)
        BY <3>1
      <3> QED BY <3>2
    <2>2. /\ calibrator.beta = beta /\ calibrator.isotonic = Isotonic(f, beta)
          /\ calibrator.trees = trees
      BY <2>1
    <2>3. beta.turn \in Int
      <3>1. CASE beta = NoBeta
        BY <3>1 DEF NoBeta
      <3>2. CASE beta \in [enabled: {TRUE}, dips: BOOLEAN, turn: Turns]
        <4>1. beta.turn \in 0 .. 100
          BY <3>2, TurnsAssumption
        <4> QED BY <4>1
      <3> QED BY <3>1, <3>2 DEF Betas
    <2> QED BY <2>2, <2>3 DEF IsFitted
  <1> QED BY <1>1, <1>2

\* During the training phase the samples fitted and held out are those chosen from what was
\* collected, and the best calibrator was fitted to them and judged by the others.
TrainingInv ==
  /\ market \in Int
  /\ samples \in Seq(Samples)
  /\ phase = "collect" => best = NoBest
  /\ phase = "fit" =>
       /\ fit = FitSamples(Usable)
       /\ validation = ValidationSamples(Usable)
       /\ best # NoBest => validation # <<>> /\ IsFitted(best.calibrator, fit)

\* It says of a fit what TrainingIsSound does.
LEMMA TrainingInvSuffices ==
  ASSUME TrainingInv
  PROVE  TrainingIsSound
  <1> SUFFICES ASSUME phase = "fit"
               PROVE  /\ ValidationIsHeldOut
                      /\ IsBalanced(fit, SplitByMarket(Usable).fit, MaxFitSamples)
                      /\ IsBalanced(validation, SplitByMarket(Usable).validation, MaxValidationSamples)
                      /\ best # NoBest =>
                           /\ validation # <<>>
                           /\ best.calibrator.isotonic # <<>> =>
                                IsRegression(best.calibrator.isotonic, Grouped(fit, best.calibrator.beta))
                           /\ \A k \in DOMAIN best.calibrator.trees :
                                IsFunded(best.calibrator.trees[k], TrainIndices(fit))
    BY DEF TrainingIsSound
  <1> DEFINE raw == Usable
             c == best.calibrator
  <1>1. /\ fit = FitSamples(raw) /\ validation = ValidationSamples(raw)
        /\ best # NoBest => validation # <<>> /\ IsFitted(c, fit)
    BY DEF TrainingInv
  <1>2. raw \in Seq(Samples)
    BY FilteredType DEF TrainingInv, Usable
  <1>3. MaxPerMarket \in Nat /\ MaxFitSamples \in Nat /\ MaxValidationSamples \in Nat
    BY TrainingAssumptions
  <1> HIDE DEF raw
  <1>4. /\ fit \in Seq(Samples)
        /\ IsBalanced(fit, SplitByMarket(raw).fit, MaxFitSamples)
        /\ IsBalanced(validation, SplitByMarket(raw).validation, MaxValidationSamples)
        /\ \A m \in MarketsOf(fit), n \in MarketsOf(validation) : m < n
    BY <1>1, <1>2, <1>3, FitIsHeldOut
  <1> HIDE DEF c
  <1>5. ASSUME best # NoBest, c.isotonic # <<>>
        PROVE  IsRegression(c.isotonic, Grouped(fit, c.beta))
    <2>1. c.isotonic = Isotonic(fit, c.beta) /\ c.beta.turn \in Int
      BY <1>1, <1>5 DEF IsFitted
    <2>2. IsSampled(fit)
      BY <1>4, SamplesHave
    <2> QED BY <1>4, <1>5, <2>1, <2>2, IsotonicIsRegression
  <1>6. ASSUME best # NoBest, NEW k \in DOMAIN c.trees
        PROVE  IsFunded(c.trees[k], TrainIndices(fit))
    <2> DEFINE trees == c.trees
    <2>1. trees # <<>>
      BY EmptySeq
    <2>2. trees \in TreeEnsembles(fit)
      BY <1>1, <1>6, <2>1 DEF IsFitted
    <2> HIDE DEF trees
    <2>3. k \in DOMAIN trees
      BY DEF trees
    <2>4. IsFunded(trees[k], TrainIndices(fit))
      BY <1>4, <2>2, <2>3, EnsemblesAreFunded
    <2> QED BY <2>4 DEF trees
  <1>7. ValidationIsHeldOut
    BY <1>4 DEF ValidationIsHeldOut
  <1>8. best # NoBest => validation # <<>>
    BY <1>1
  <1> QED BY <1>4, <1>5, <1>6, <1>7, <1>8 DEF raw, c

\* Outside of the training phase nothing is kept.
LEMMA DeployTrains ==
  ASSUME NEW snapshot, Deploy(snapshot)
  PROVE  TrainingInv'
  <1>1. phase' = "score" /\ market' = 1 /\ samples' = <<>>
    BY DEF Deploy
  <1>2. <<>> \in Seq(Samples)
    OBVIOUS
  <1> QED BY <1>1, <1>2 DEF TrainingInv

\* It holds at first.
LEMMA FirstTrains == Init => TrainingInv
  <1> SUFFICES ASSUME Init PROVE TrainingInv
    OBVIOUS
  <1>1. market = 1 /\ samples = <<>> /\ phase \in {"collect", "score"} /\ best = NoBest
    BY DEF Init
  <1>2. <<>> \in Seq(Samples)
    OBVIOUS
  <1> QED BY <1>1, <1>2 DEF TrainingInv

\* A step that leaves the training alone, or has left it behind.
LEMMA TrainingStays ==
  ASSUME TrainingInv, phase' = phase \/ phase' \in {"score", "done"}, market' \in Int, UNCHANGED training
  PROVE  TrainingInv'
  <1>1. /\ samples' = samples /\ fit' = fit /\ validation' = validation /\ best' = best
    BY DEF training
  <1>2. Usable' = Usable
    BY <1>1 DEF Usable
  <1>3. NoBest' = NoBest
    BY DEF NoBest
  <1>4. samples' \in Seq(Samples)
    BY <1>1 DEF TrainingInv
  <1>5. CASE phase' = phase
    BY <1>1, <1>2, <1>3, <1>4, <1>5 DEF TrainingInv
  <1>6. CASE phase' \in {"score", "done"}
    BY <1>4, <1>6 DEF TrainingInv
  <1> QED BY <1>5, <1>6

\* Every step keeps it.
LEMMA StepTrains == TrainingInv /\ [Next]_vars => TrainingInv'
  <1> SUFFICES ASSUME TrainingInv, [Next]_vars PROVE TrainingInv'
    OBVIOUS
  <1>1. /\ market \in Int /\ samples \in Seq(Samples) /\ market + 1 \in Int
        /\ phase = "collect" => best = NoBest
    BY DEF TrainingInv
  <1>2. CASE Collect
    <2>1. PICK tape \in Tapes, resolved \in BOOLEAN :
            samples' = samples \o MarketSamples(market, tape, resolved)
      BY <1>2 DEF Collect
    <2>2. tape \in Seq(Quotes)
      BY ScoringAssumptions DEF Quotes
    <2> DEFINE more == MarketSamples(market, tape, resolved)
    <2>3. more \in Seq(Samples)
      BY <1>1, <2>2, MarketSamplesType
    <2> HIDE DEF more
    <2>4. samples' \in Seq(Samples)
      BY <1>1, <2>1, <2>3, ConcatProperties DEF more
    <2>5. phase' = "collect" /\ best' = NoBest' /\ market' = market + 1
      BY <1>1, <1>2 DEF Collect, NoBest
    <2> QED BY <1>1, <2>4, <2>5 DEF TrainingInv
  <1>3. CASE CollectFails
    BY <1>1, <1>3, TrainingStays DEF CollectFails
  <1>4. CASE TooFewSamples
    BY <1>4, DeployTrains DEF TooFewSamples
  <1>5. CASE StartFit
    <2>1. /\ phase = "collect" /\ phase' = "fit" /\ fit' = FitSamples(Usable)
          /\ validation' = ValidationSamples(Usable)
          /\ market' = market /\ samples' = samples /\ best' = best
      BY <1>5 DEF StartFit
    <2>2. Usable' = Usable /\ NoBest' = NoBest
      BY <2>1 DEF Usable, NoBest
    <2>3. best' = NoBest'
      BY <1>1, <2>1, <2>2
    <2> QED BY <1>1, <2>1, <2>2, <2>3 DEF TrainingInv
  <1>6. CASE TryCandidate
    <2>1. /\ phase = "fit" /\ phase' = "fit" /\ fit' = fit /\ validation' = validation
          /\ market' = market /\ samples' = samples
      BY <1>6 DEF TryCandidate
    <2>2. Usable' = Usable /\ NoBest' = NoBest
      BY <2>1 DEF Usable, NoBest
    <2>3. fit = FitSamples(Usable) /\ validation = ValidationSamples(Usable)
      BY <2>1 DEF TrainingInv
    <2>4. best' # NoBest => validation # <<>> /\ IsFitted(best'.calibrator, fit)
      <3>1. CASE best' = best
        BY <2>1, <3>1 DEF TrainingInv
      <3>2. CASE best' # best
        <4>1. PICK calibrator \in FitBatch(fit, Candidates[candidate + 1]), loss \in 1 .. Losses :
                /\ MayImprove(calibrator, validation)
                /\ best' = [calibrator |-> calibrator, loss |-> loss]
          BY <1>6, <3>2 DEF TryCandidate
        <4>2. validation # <<>>
          BY <4>1 DEF MayImprove
        <4>3. IsFitted(calibrator, fit)
          BY <4>1, FitBatchFits
        <4>4. best'.calibrator = calibrator
          BY <4>1
        <4> QED BY <4>2, <4>3, <4>4
      <3> QED BY <3>1, <3>2
    <2> QED BY <1>1, <2>1, <2>2, <2>3, <2>4 DEF TrainingInv
  <1>7. CASE Select
    BY <1>7, DeployTrains DEF Select
  <1>8. CASE Evaluate
    BY <1>1, <1>8, TrainingStays DEF Evaluate
  <1>9. CASE RecordResult
    BY <1>1, <1>9, TrainingStays DEF RecordResult
  <1>10. CASE LeaveResult
    BY <1>1, <1>10, TrainingStays DEF LeaveResult
  <1>11. CASE Finish
    BY <1>1, <1>11, TrainingStays DEF Finish
  <1>12. CASE UNCHANGED vars
    BY <1>1, <1>12, TrainingStays DEF vars
  <1>13. CASE Done
    BY <1>12, <1>13 DEF Done
  <1> QED BY <1>2, <1>3, <1>4, <1>5, <1>6, <1>7, <1>8, <1>9, <1>10, <1>11, <1>12, <1>13 DEF Next

(***************************************************************************)
(* Whatever the training markets bring and however large the limits are,   *)
(* the calibrator that wins is fitted to balanced samples of the earlier   *)
(* markets and judged by those of the later; its blocks are the isotonic   *)
(* regression of what it was fitted to, and no leaf of its trees rests on  *)
(* fewer samples than MinLeaf.  train_validated_meta_calibrator, fit_batch.*)
(***************************************************************************)
THEOREM TrainingSound == Spec => []TrainingIsSound
  <1>1. TrainingInv => TrainingIsSound
    BY TrainingInvSuffices
  <1> QED BY <1>1, FirstTrains, StepTrains, PTL DEF Spec
=============================================================================
