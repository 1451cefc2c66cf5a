------------------------- MODULE WalkForwardProofs --------------------------
(***************************************************************************)
(* Proofs about the walk-forward driver and prep-cache, for every number   *)
(* of markets, command line, width of the pool and order in which tapes    *)
(* arrive, fail and are killed.                                            *)
(***************************************************************************)
EXTENDS WalkForwardProperties, ListLemmas

-----------------------------------------------------------------------------
(* The fold plan.                                                          *)

\* The recursive function of Windows, over the first n windows.
StartsOf(start, sizes, n) ==
  start = [k \in 1 .. n |-> IF k = 1 THEN 0 ELSE start[k - 1] + sizes[k - 1]]

\* For any sizes there is a function of the starts.
LEMMA StartsExist ==
  ASSUME NEW sizes, NEW n \in Nat
  PROVE  \E start : StartsOf(start, sizes, n)
  <1> DEFINE Bad == {k \in Nat : ~ \E f : StartsOf(f, sizes, k)}
  <1>1. Bad = {}
    <2> SUFFICES ASSUME Bad # {} PROVE FALSE
      OBVIOUS
    <2>1. PICK m \in Bad : \A k \in Bad : m <= k
      <3> Bad \in SUBSET Nat
        OBVIOUS
      <3> HIDE DEF Bad
      <3> QED BY LeastNat
    <2>2. CASE m = 0
      <3>1. StartsOf([k \in 1 .. 0 |-> 0], sizes, 0)
        BY DEF StartsOf
      <3> QED BY <2>1, <2>2, <3>1
    <2>3. CASE m # 0
      <3>1. m - 1 \in Nat /\ m - 1 \notin Bad
        BY <2>1, <2>3
      <3>2. PICK f : StartsOf(f, sizes, m - 1)
        BY <3>1
      <3> DEFINE step(k) == f[k - 1] + sizes[k - 1]
                 g == [k \in 1 .. m |-> IF k = 1 THEN 0 ELSE step(k)]
      <3>3. \A k \in 1 .. m - 1 : f[k] = IF k = 1 THEN 0 ELSE step(k)
        BY <3>2 DEF StartsOf
      <3>4. \A k \in 1 .. m - 1 : g[k] = f[k]
        <4> HIDE DEF step
        <4> QED BY <3>1, <3>3
      <3>5. \A k \in 1 .. m : k # 1 => k - 1 \in 1 .. m - 1 /\ g[k - 1] = f[k - 1]
        <4>1. \A k \in 1 .. m : k # 1 => k - 1 \in 1 .. m - 1
          BY <3>1
        <4> HIDE DEF g
        <4> QED BY <3>4, <4>1
      <3>6. \A k \in 1 .. m : (IF k = 1 THEN 0 ELSE step(k))
                            = (IF k = 1 THEN 0 ELSE g[k - 1] + sizes[k - 1])
        <4> HIDE DEF g
        <4> QED BY <3>5
      <3>7. StartsOf(g, sizes, m)
        <4>1. g = [k \in 1 .. m |-> IF k = 1 THEN 0 ELSE step(k)]
          OBVIOUS
        <4> HIDE DEF g, step
        <4> QED BY <3>6, <4>1 DEF StartsOf
      <3> QED BY <2>1, <3>7
    <2> QED BY <2>1, <2>2, <2>3
  <1> QED BY <1>1

\* Each fold starts where the one before ended.
LEMMA StartStep ==
  ASSUME NEW start, NEW sizes, NEW n \in Nat, StartsOf(start, sizes, n), NEW k \in 1 .. n
  PROVE  start[k] = IF k = 1 THEN 0 ELSE start[k - 1] + sizes[k - 1]
  BY DEF StartsOf

\* Windows follow one another.
LEMMA StartsFollow ==
  ASSUME NEW n \in Nat, NEW sizes \in [1 .. n -> Nat], NEW start, StartsOf(start, sizes, n)
  PROVE  /\ \A k \in 1 .. n : start[k] \in Nat
         /\ \A k, l \in 1 .. n : k < l => start[k] + sizes[k] <= start[l]
  <1>1. \A k \in 1 .. n : start[k] \in Nat
    <2> DEFINE Bad == {k \in 1 .. n : start[k] \notin Nat}
    <2> SUFFICES ASSUME Bad # {} PROVE FALSE
      OBVIOUS
    <2>1. PICK m \in Bad : \A k \in Bad : m <= k
      <3> Bad \in SUBSET Nat
        OBVIOUS
      <3> HIDE DEF Bad
      <3> QED BY LeastNat
    <2>2. m \in 1 .. n /\ start[m] = IF m = 1 THEN 0 ELSE start[m - 1] + sizes[m - 1]
      <3>1. m \in 1 .. n
        BY <2>1
      <3> HIDE DEF Bad
      <3> QED BY <3>1, StartStep
    <2>3. m # 1 => m - 1 \in 1 .. n /\ m - 1 \notin Bad
      BY <2>1, <2>2
    <2> QED BY <2>1, <2>2, <2>3
  <1>2. ASSUME NEW k \in 1 .. n
        PROVE  \A l \in 1 .. n : k < l => start[k] + sizes[k] <= start[l]
    <2> DEFINE Bad == {l \in 1 .. n : k < l /\ ~(start[k] + sizes[k] <= start[l])}
    <2> SUFFICES ASSUME Bad # {} PROVE FALSE
      OBVIOUS
    <2>1. PICK m \in Bad : \A l \in Bad : m <= l
      <3> Bad \in SUBSET Nat
        OBVIOUS
      <3> HIDE DEF Bad
      <3> QED BY LeastNat
    <2>2. m \in 1 .. n /\ m # 1 /\ m - 1 \in 1 .. n /\ m - 1 \notin Bad /\ k < m
      BY <2>1
    <2>3. start[m] = start[m - 1] + sizes[m - 1]
      <3> HIDE DEF Bad
      <3>1. m \in 1 .. n /\ m # 1
        BY <2>2
      <3>2. start[m] = IF m = 1 THEN 0 ELSE start[m - 1] + sizes[m - 1]
        BY <3>1, StartStep
      <3> QED BY <3>1, <3>2
    <2>4. start[k] \in Nat /\ start[m] \in Nat /\ start[m - 1] \in Nat /\ sizes[m - 1] \in Nat /\ sizes[k] \in Nat
      BY <1>1, <2>2
    <2>5. m - 1 = k \/ k < m - 1
      BY <2>2
    <2> QED BY <2>1, <2>2, <2>3, <2>4, <2>5
  <1> QED BY <1>1, <1>2

\* Products of naturals.
LEMMA NatMul == \A a, b \in Nat : a * b \in Nat
  OBVIOUS

\* One factor more.
LEMMA MulStep == \A a, b \in Int : (a + 1) * b = a * b + b /\ a * b \in Int
  OBVIOUS

\* Products grow.
LEMMA MulBound == \A a, b, c \in Nat : a <= b => a * c <= b * c
  OBVIOUS

\* What the quotient and the remainder are.
LEMMA DivModFacts ==
  ASSUME NEW a \in Nat, NEW b \in Nat \ {0}
  PROVE  /\ a \div b \in Nat /\ a % b \in 0 .. b - 1
         /\ a = b * (a \div b) + (a % b)
  <1>1. a \div b \in Nat
    OBVIOUS
  <1>2. a % b \in 0 .. b - 1
    OBVIOUS
  <1>3. a = b * (a \div b) + (a % b)
    OBVIOUS
  <1> QED BY <1>1, <1>2, <1>3

\* A number of windows given: the first ones are one market longer, and
\* together they hold all markets.
LEMMA FoldsStart ==
  ASSUME NEW total \in Nat, NEW folds \in Nat \ {0}, NEW start, NEW sizes,
         sizes = [k \in 1 .. folds |-> total \div folds + (IF k <= total % folds THEN 1 ELSE 0)],
         StartsOf(start, sizes, folds)
  PROVE  \A k \in 1 .. folds : start[k] <= total
  <1> DEFINE q == total \div folds
             r == total % folds
             Left(k) == (k - 1) * q + Lesser(k - 1, r)
             Bad == {k \in 1 .. folds : start[k] # Left(k)}
  <1>1. q \in Nat /\ r \in 0 .. folds - 1 /\ total = folds * q + r
    BY DivModFacts
  <1> HIDE DEF q, r
  <1>2. \A k \in 1 .. folds : sizes[k] = q + (IF k <= r THEN 1 ELSE 0)
    BY DEF q, r
  <1>3. Bad = {}
    <2> SUFFICES ASSUME Bad # {} PROVE FALSE
      OBVIOUS
    <2>1. PICK m \in Bad : \A k \in Bad : m <= k
      <3> Bad \in SUBSET Nat
        OBVIOUS
      <3> HIDE DEF Bad
      <3> QED BY LeastNat
    <2>2. m \in 1 .. folds /\ start[m] = IF m = 1 THEN 0 ELSE start[m - 1] + sizes[m - 1]
      BY <2>1, StartStep
    <2>3. CASE m = 1
      <3>1. Left(1) = 0
        BY <1>1 DEF Lesser
      <3> QED BY <2>1, <2>2, <2>3, <3>1
    <2>4. CASE m # 1
      <3>1. m - 1 \in 1 .. folds /\ m - 1 \notin Bad /\ m - 1 \in Nat /\ m - 2 \in Nat
        BY <2>1, <2>2, <2>4
      <3>2. start[m - 1] = (m - 2) * q + Lesser(m - 2, r)
        BY <3>1
      <3>3. start[m] = (m - 2) * q + Lesser(m - 2, r) + q + (IF m - 1 <= r THEN 1 ELSE 0)
        <4>1. (m - 2) * q \in Int /\ Lesser(m - 2, r) \in Int
          BY <1>1, <3>1 DEF Lesser
        <4> QED BY <1>1, <1>2, <2>2, <2>4, <3>1, <3>2, <4>1
      <3>4. (m - 1) * q = (m - 2) * q + q /\ (m - 2) * q \in Int
        <4>1. m - 2 \in Int /\ q \in Int /\ (m - 2) + 1 = m - 1
          BY <1>1, <3>1
        <4> QED BY <4>1, MulStep
      <3>5. Lesser(m - 1, r) = Lesser(m - 2, r) + (IF m - 1 <= r THEN 1 ELSE 0)
        BY <1>1, <3>1 DEF Lesser
      <3>6. start[m] = (m - 1) * q + Lesser(m - 1, r)
        <4>1. Lesser(m - 2, r) \in Int
          BY <1>1, <3>1 DEF Lesser
        <4> QED BY <1>1, <3>3, <3>4, <3>5, <4>1
      <3> QED BY <2>1, <3>6
    <2> QED BY <2>3, <2>4
  <1>4. ASSUME NEW k \in 1 .. folds
        PROVE  start[k] <= total
    <2>1. start[k] = (k - 1) * q + Lesser(k - 1, r)
      BY <1>3
    <2>2. (k - 1) * q <= folds * q /\ (k - 1) * q \in Nat /\ folds * q \in Nat
      <3>1. k - 1 \in Nat /\ folds \in Nat /\ k - 1 <= folds
        OBVIOUS
      <3> QED BY <1>1, <3>1, MulBound, NatMul
    <2>3. Lesser(k - 1, r) <= r /\ Lesser(k - 1, r) \in Int
      BY <1>1 DEF Lesser
    <2> DEFINE x == (k - 1) * q
               y == folds * q
               z == Lesser(k - 1, r)
    <2>4. start[k] = x + z /\ x <= y /\ x \in Nat /\ y \in Nat /\ z <= r /\ z \in Int /\ total = y + r
      BY <1>1, <2>1, <2>2, <2>3
    <2> HIDE DEF x, y, z
    <2> QED BY <1>1, <2>4
  <1> QED BY <1>4

\* A size of the windows given: only the last one may be shorter, and none
\* starts past the last market.
LEMMA SizesStart ==
  ASSUME NEW total \in Nat, total > 0, NEW size \in Nat \ {0}, NEW start, NEW sizes, NEW n,
         n = (total + size - 1) \div size,
         sizes = [k \in 1 .. n |-> Lesser(size, total - (k - 1) * size)]
  PROVE  /\ n \in Nat /\ sizes \in [1 .. n -> Nat]
         /\ StartsOf(start, sizes, n) => \A k \in 1 .. n : start[k] <= total
  <1>1. n \in Nat /\ size * n <= total + size - 1
    <2>1. total + size - 1 \in Nat
      OBVIOUS
    <2>2. n \in Nat /\ total + size - 1 = size * n + ((total + size - 1) % size)
      BY <2>1, DivModFacts
    <2>3. (total + size - 1) % size \in 0 .. size - 1 /\ size * n \in Nat
      BY <2>1, <2>2, DivModFacts, NatMul
    <2> DEFINE x == size * n
               y == (total + size - 1) % size
    <2>4. total + size - 1 = x + y /\ y \in Nat /\ x \in Nat
      BY <2>2, <2>3
    <2> HIDE DEF x, y
    <2>5. x <= total + size - 1
      BY <2>4
    <2> QED BY <2>2, <2>5 DEF x
  <1>2. ASSUME NEW k \in 1 .. n
        PROVE  (k - 1) * size \in Nat /\ (k - 1) * size < total
    <2>1. k * size <= n * size /\ k * size \in Nat /\ n * size = size * n /\ n * size \in Nat
      <3>1. k \in Nat /\ n \in Nat /\ k <= n /\ size \in Nat
        BY <1>1
      <3>2. k * size <= n * size
        BY <3>1, MulBound
      <3>3. k * size \in Nat /\ n * size \in Nat
        BY <3>1, NatMul
      <3>4. n * size = size * n
        BY <3>1
      <3> QED BY <3>2, <3>3, <3>4
    <2>2. k * size = (k - 1) * size + size /\ (k - 1) * size \in Int
      <3>1. k - 1 \in Int /\ size \in Int /\ (k - 1) + 1 = k
        BY <1>1
      <3> QED BY <3>1, MulStep
    <2>3. (k - 1) * size \in Nat
      BY <1>1, NatMul
    <2> DEFINE x == k * size
               y == n * size
               z == (k - 1) * size
    <2>4. x <= y /\ y <= total + size - 1 /\ x = z + size /\ x \in Nat /\ y \in Nat /\ z \in Nat
      BY <1>1, <2>1, <2>2, <2>3
    <2> HIDE DEF x, y, z
    <2>5. z < total
      BY <2>4
    <2> QED BY <2>3, <2>5 DEF z
  <1>3. \A k \in 1 .. n : sizes[k] = Lesser(size, total - (k - 1) * size)
    OBVIOUS
  <1>4. \A k \in 1 .. n : Lesser(size, total - (k - 1) * size) \in Nat
    BY <1>2 DEF Lesser
  <1>5. sizes \in [1 .. n -> Nat]
    BY <1>4
  <1>6. ASSUME StartsOf(start, sizes, n)
        PROVE  \A k \in 1 .. n : start[k] = (k - 1) * size
    <2>0. StartsOf(start, sizes, n)
      BY <1>6
    <2> DEFINE Bad == {k \in 1 .. n : start[k] # (k - 1) * size}
    <2> SUFFICES ASSUME Bad # {} PROVE FALSE
      OBVIOUS
    <2>1. PICK m \in Bad : \A k \in Bad : m <= k
      <3> Bad \in SUBSET Nat
        BY <1>1
      <3> HIDE DEF Bad
      <3> QED BY LeastNat
    <2>2. m \in 1 .. n /\ start[m] = IF m = 1 THEN 0 ELSE start[m - 1] + sizes[m - 1]
      <3>1. m \in 1 .. n
        BY <2>1
      <3>2. n \in Nat
        BY <1>1
      <3> HIDE DEF Bad
      <3> QED BY ONLY <2>0, <3>1, <3>2, StartStep
    <2>3. CASE m = 1
      <3>1. (m - 1) * size = 0
        BY <2>3
      <3> QED BY <2>1, <2>2, <2>3, <3>1
    <2>4. CASE m # 1
      <3>1. m - 1 \in 1 .. n /\ m - 1 \notin Bad /\ m - 2 \in Nat
        BY <1>1, <2>1, <2>2, <2>4
      <3>2. start[m - 1] = (m - 2) * size
        BY <3>1
      <3>3. (m - 1) * size = (m - 2) * size + size /\ (m - 2) * size \in Int
        <4>1. m - 2 \in Int /\ size \in Int /\ (m - 2) + 1 = m - 1
          BY <3>1
        <4> QED BY <4>1, MulStep
      <3>4. (m - 1) * size < total /\ (m - 1) * size \in Nat
        BY <1>2, <2>2
      <3>5. sizes[m - 1] = Lesser(size, total - (m - 2) * size)
        BY <1>3, <3>1
      <3> DEFINE x == (m - 1) * size
                 z == (m - 2) * size
      <3>6. x = z + size /\ x < total /\ x \in Nat /\ z \in Int /\ sizes[m - 1] = Lesser(size, total - z)
        BY <3>3, <3>4, <3>5
      <3>7. start[m] = z + sizes[m - 1]
        BY <2>2, <2>4, <3>2
      <3> HIDE DEF x, z
      <3>8. start[m] = x
        BY <3>6, <3>7 DEF Lesser
      <3> QED BY <2>1, <3>8 DEF x
    <2> QED BY <2>3, <2>4
  <1> QED BY <1>1, <1>2, <1>5, <1>6

WindowSet == [trainEnd : 0 .. NumMarkets, testStart : 0 .. NumMarkets, testEnd : 0 .. NumMarkets]

\* Windows in a row, each trained on markets more than the purge before it.
InARow(ws, purge) ==
  /\ ws \in Seq(WindowSet)
  /\ \A k \in 1 .. Len(ws) : ws[k].trainEnd = TrainEnd(ws[k].testStart, purge)
  /\ \A k, l \in 1 .. Len(ws) : k < l =>
       ws[k].testEnd <= ws[l].testStart /\ ws[k].testStart <= ws[l].testStart

\* What the starts make of the windows.
LEMMA WindowsOf ==
  ASSUME NumMarkets \in Nat, NEW purge \in Nat, NEW n \in Nat, NEW sizes \in [1 .. n -> Nat],
         NEW start, StartsOf(start, sizes, n), \A k \in 1 .. n : start[k] <= NumMarkets, NEW ws,
         ws = [k \in 1 .. n |-> [trainEnd |-> TrainEnd(start[k], purge), testStart |-> start[k],
                                 testEnd |-> Lesser(start[k] + sizes[k], NumMarkets)]]
  PROVE  InARow(ws, purge)
  <1>1. /\ \A k \in 1 .. n : start[k] \in Nat
        /\ \A k, l \in 1 .. n : k < l => start[k] + sizes[k] <= start[l]
    BY StartsFollow
  <1>2. ASSUME NEW k \in 1 .. n
        PROVE  /\ ws[k] \in WindowSet /\ ws[k].testStart = start[k]
               /\ ws[k].trainEnd = TrainEnd(start[k], purge) /\ ws[k].testEnd <= start[k] + sizes[k]
    <2>1. ws[k] = [trainEnd |-> TrainEnd(start[k], purge), testStart |-> start[k],
                   testEnd |-> Lesser(start[k] + sizes[k], NumMarkets)]
      OBVIOUS
    <2>2. start[k] \in 0 .. NumMarkets /\ sizes[k] \in Nat
      BY <1>1
    <2>3. TrainEnd(start[k], purge) \in 0 .. NumMarkets
      BY <2>2 DEF TrainEnd
    <2>4. /\ Lesser(start[k] + sizes[k], NumMarkets) \in 0 .. NumMarkets
          /\ Lesser(start[k] + sizes[k], NumMarkets) <= start[k] + sizes[k]
      BY <2>2 DEF Lesser
    <2> QED BY <2>1, <2>2, <2>3, <2>4 DEF WindowSet
  <1>3. ws \in Seq(WindowSet) /\ Len(ws) = n
    BY <1>2
  <1>4. ASSUME NEW k \in 1 .. n, NEW l \in 1 .. n, k < l
        PROVE  ws[k].testEnd <= ws[l].testStart /\ ws[k].testStart <= ws[l].testStart
    <2>1. start[k] + sizes[k] <= start[l] /\ start[k] \in Nat /\ start[l] \in Nat /\ sizes[k] \in Nat
      BY <1>1, <1>4
    <2>2. ws[k] \in WindowSet /\ ws[k].testEnd \in Int
      BY <1>2 DEF WindowSet
    <2> QED BY <1>2, <2>1, <2>2
  <1> QED BY <1>2, <1>3, <1>4 DEF InARow
\* Some of the windows in a row are windows in a row.
LEMMA SomeInARow ==
  ASSUME NEW ws, NEW purge, InARow(ws, purge), NEW r \in Seq(WindowSet), NEW K, NEW h,
         Picks(h, r, ws, K, Len(ws))
  PROVE  InARow(r, purge)
  <1>1. /\ ws \in Seq(WindowSet)
        /\ \A k \in 1 .. Len(ws) : ws[k].trainEnd = TrainEnd(ws[k].testStart, purge)
        /\ \A k, l \in 1 .. Len(ws) : k < l =>
             ws[k].testEnd <= ws[l].testStart /\ ws[k].testStart <= ws[l].testStart
    BY DEF InARow
  <1>2. /\ \A i \in 1 .. Len(r) : h[i] \in 1 .. Len(ws) /\ r[i] = ws[h[i]]
        /\ \A i, j \in 1 .. Len(r) : i < j => h[i] < h[j]
    BY DEF Picks
  <1>3. ASSUME NEW i \in 1 .. Len(r)
        PROVE  r[i].trainEnd = TrainEnd(r[i].testStart, purge)
    BY <1>1, <1>2
  <1>4. ASSUME NEW i \in 1 .. Len(r), NEW j \in 1 .. Len(r), i < j
        PROVE  r[i].testEnd <= r[j].testStart /\ r[i].testStart <= r[j].testStart
    BY <1>1, <1>2, <1>4
  <1> QED BY <1>3, <1>4 DEF InARow

\* The windows of a command line that is not refused.
LEMMA WindowsInARow ==
  ASSUME WalkForwardAssumptions, NEW o \in Options, NumMarkets > 0, UsesFolds(o),
         ~Misconfigured(NumMarkets, o)
  PROVE  InARow(Windows(NumMarkets, o), o.purge)
  <1>1. /\ NumMarkets \in Nat \ {0} /\ o.purge \in Nat
        /\ o.folds # Unset => o.folds \in Nat \ {0}
        /\ o.folds = Unset => o.size \in Nat \ {0}
    BY DEF WalkForwardAssumptions, Misconfigured, UsesFolds
  <1> DEFINE total == NumMarkets
             sizes == Sizes(total, o)
  <1>2. /\ Len(sizes) \in Nat /\ sizes \in [1 .. Len(sizes) -> Nat]
        /\ \A start : StartsOf(start, sizes, Len(sizes)) => \A k \in 1 .. Len(sizes) : start[k] <= total
    <2>1. CASE o.folds # Unset
      <3> DEFINE n == o.folds
                 q == total \div n
                 r == total % n
      <3>1. n \in Nat \ {0} /\ q \in Nat
        BY <1>1, <2>1, DivModFacts
      <3>2. sizes = [k \in 1 .. n |-> q + (IF k <= r THEN 1 ELSE 0)]
        BY <2>1 DEF Sizes
      <3>3. Len(sizes) = n /\ sizes \in [1 .. n -> Nat]
        <4> HIDE DEF q, r, n, sizes
        <4> QED BY <3>1, <3>2
      <3>4. ASSUME NEW start, StartsOf(start, sizes, n)
            PROVE  \A k \in 1 .. n : start[k] <= total
        <4>1. total \in Nat /\ StartsOf(start, sizes, n)
          BY <1>1, <3>4
        <4> HIDE DEF sizes, n, total
        <4> QED BY ONLY <3>1, <3>2, <4>1, FoldsStart DEF q, r
      <3> HIDE DEF sizes, n, total
      <3> QED BY <3>1, <3>3, <3>4
    <2>2. CASE o.folds = Unset
      <3> DEFINE size == o.size
                 n == (total + size - 1) \div size
      <3>1. size \in Nat \ {0} /\ total \in Nat /\ total > 0
        BY <1>1, <2>2
      <3>2. sizes = [k \in 1 .. n |-> Lesser(size, total - (k - 1) * size)]
        BY <2>2 DEF Sizes
      <3>3. /\ n \in Nat /\ sizes \in [1 .. n -> Nat]
            /\ \A start : StartsOf(start, sizes, n) => \A k \in 1 .. n : start[k] <= total
        <4>1. n = (total + size - 1) \div size
          OBVIOUS
        <4> HIDE DEF sizes, n, total, size
        <4> QED BY ONLY <3>1, <3>2, <4>1, SizesStart
      <3> HIDE DEF sizes, n, total, size
      <3>4. Len(sizes) = n
        BY <3>2, <3>3
      <3> QED BY <3>3, <3>4
    <2> QED BY <2>1, <2>2
  <1> DEFINE n == Len(sizes)
             st == CHOOSE start : StartsOf(start, sizes, n)
             ws == [k \in 1 .. n |-> [trainEnd |-> TrainEnd(st[k], o.purge), testStart |-> st[k],
                                      testEnd |-> Lesser(st[k] + sizes[k], NumMarkets)]]
  <1>3. Windows(NumMarkets, o) = ws
    BY DEF Windows, StartsOf
  <1>4. StartsOf(st, sizes, n)
    <2>1. \E start : StartsOf(start, sizes, n)
      <3> HIDE DEF sizes
      <3> QED BY <1>2, StartsExist
    <2> HIDE DEF sizes, n
    <2> QED BY <2>1
  <1>5. \A k \in 1 .. n : st[k] <= NumMarkets
    <2> HIDE DEF sizes, st
    <2> QED BY <1>2, <1>4
  <1>6. n \in Nat /\ sizes \in [1 .. n -> Nat] /\ ws = [k \in 1 .. n |-> [trainEnd |-> TrainEnd(st[k], o.purge), testStart |-> st[k],
                                      testEnd |-> Lesser(st[k] + sizes[k], NumMarkets)]]
    BY <1>2
  <1> HIDE DEF ws, st, sizes, n
  <1>7. InARow(ws, o.purge)
    BY ONLY <1>1, <1>4, <1>5, <1>6, WindowsOf
  <1> QED BY <1>3, <1>7

\* The plan of a command line that is not refused.
LEMMA PlanFacts ==
  ASSUME WalkForwardAssumptions, NEW o \in Options, ~Refused(NumMarkets, o)
  PROVE  InARow(Plan(NumMarkets, o), o.purge) /\ Len(Plan(NumMarkets, o)) >= 1
  <1>1. NumMarkets \in Nat /\ o.purge \in Nat
    BY DEF WalkForwardAssumptions
  <1>2. CASE NumMarkets > 0 /\ UsesFolds(o)
    <2>1. Plan(NumMarkets, o) = Kept(NumMarkets, o) /\ Kept(NumMarkets, o) # <<>>
      BY <1>2 DEF Plan, Refused
    <2> DEFINE ws == Windows(NumMarkets, o)
               K == {k \in 1 .. Len(ws) : ws[k].trainEnd >= o.minTrain}
               Takes(f) == f = [k \in 0 .. Len(ws) |->
                             IF k = 0 THEN <<>>
                             ELSE IF ws[k].trainEnd >= o.minTrain THEN Append(f[k - 1], ws[k]) ELSE f[k - 1]]
               kept == CHOOSE f : Takes(f)
    <2>2. InARow(ws, o.purge) /\ ws \in Seq(WindowSet)
      BY <1>2, WindowsInARow DEF Refused, InARow
    <2>3. Kept(NumMarkets, o) = kept[Len(ws)]
      BY DEF Kept, Filter
    <2> HIDE DEF ws
    <2>4. ASSUME NEW f
          PROVE  Takes(f) <=> IsFilter(f, ws, K, Len(ws))
      <3>1. \A k \in 0 .. Len(ws) :
              (IF k = 0 THEN <<>> ELSE IF ws[k].trainEnd >= o.minTrain THEN Append(f[k - 1], ws[k]) ELSE f[k - 1])
              = (IF k = 0 THEN <<>> ELSE IF k \in K THEN Append(f[k - 1], ws[k]) ELSE f[k - 1])
        BY <2>2
      <3> QED BY <3>1 DEF IsFilter
    <2>5. Len(ws) \in Nat
      BY <2>2
    <2>6. \E f : Takes(f)
      <3>1. \E f : IsFilter(f, ws, K, Len(ws))
        <4> HIDE DEF K
        <4> QED BY <2>5, FilterExists
      <3> HIDE DEF Takes, K
      <3> QED BY <2>4, <3>1
    <2>7. Takes(kept)
      <3> HIDE DEF Takes
      <3> QED BY <2>6
    <2> HIDE DEF kept, Takes, K
    <2>8. IsFilter(kept, ws, K, Len(ws))
      BY <2>4, <2>7
    <2> DEFINE r == kept[Len(ws)]
    <2>9. r \in Seq(WindowSet) /\ \E h : Picks(h, r, ws, K, Len(ws))
      BY <2>2, <2>8, FilterPicks
    <2> HIDE DEF r
    <2>10. InARow(r, o.purge)
      BY <2>2, <2>9, SomeInARow
    <2>11. r # <<>> => Len(r) >= 1
      BY <2>9
    <2> QED BY <2>1, <2>3, <2>10, <2>11 DEF r
  <1>3. CASE ~(NumMarkets > 0 /\ UsesFolds(o))
    <2> DEFINE w == [trainEnd |-> 0, testStart |-> 0, testEnd |-> NumMarkets]
    <2>1. Plan(NumMarkets, o) = <<w>>
      BY <1>3 DEF Plan
    <2>2. w \in WindowSet /\ w.trainEnd = TrainEnd(w.testStart, o.purge)
      BY <1>1 DEF WindowSet, TrainEnd
    <2> HIDE DEF w
    <2> QED BY <2>1, <2>2 DEF InARow
  <1> QED BY <1>2, <1>3
\* plans holds the plan of the command line in force.
LEMMA PlanNow ==
  ASSUME WalkForwardAssumptions, opt \in Options
  PROVE  /\ plan \in Seq(WindowSet)
         /\ ~Refused(NumMarkets, opt) => InARow(plan, opt.purge) /\ Len(plan) >= 1
  <1>1. CASE Refused(NumMarkets, opt)
    <2>1. plan = <<>>
      BY <1>1 DEF plan, plans
    <2> QED BY <1>1, <2>1
  <1>2. CASE ~Refused(NumMarkets, opt)
    <2>1. plan = Plan(NumMarkets, opt)
      BY <1>2 DEF plan, plans
    <2>2. InARow(Plan(NumMarkets, opt), opt.purge) /\ Len(Plan(NumMarkets, opt)) >= 1
      BY <1>2, PlanFacts
    <2> QED BY <2>1, <2>2 DEF InARow
  <1> QED BY <1>1, <1>2

-----------------------------------------------------------------------------
(* The inductive invariant, in parts.                                      *)

Phases == Pooled \union Ended \union
  {"preload", "train", "fit", "portfolio", "create samples", "fill samples",
   "create snapshot", "fill snapshot"}
Writing == {"create", "fill", "rename"}
Steps == {"get", "write"} \union Writing

\* A run of folds, and one that has a window.
Folded == opt.program = "walk" /\ ~opt.portfolio
InFold == Folded /\ phase \in {"train", "collect", "fit", "oos", "replay"}

\* Which program is in which phase; a run of folds has a plan.
ProgramInv ==
  /\ opt \in Options /\ phase \in Phases /\ process \in 1 .. MaxProcesses
  /\ phase = "prep" => opt.program = "prep"
  /\ phase \notin Ended \union {"preload", "prep"} => opt.program = "walk"
  /\ phase \in {"train", "oos", "replay"} => ~opt.portfolio
  /\ phase \in {"portfolio", "create samples", "fill samples", "create snapshot", "fill snapshot"}
       => opt.portfolio
  /\ fold \in 1 .. Len(plan) + 1
  /\ InFold => ~Refused(NumMarkets, opt) /\ fold <= Len(plan)
  /\ Folded /\ phase = "done" => ~Refused(NumMarkets, opt) /\ fold = Len(plan) + 1

\* A market of a stream is in one place of it; only whole tapes come in.
PoolTypes ==
  /\ todo \in Seq(Markets) /\ ended \in Seq([market : Markets, whole : {TRUE}])
  /\ busy \subseteq [market : Markets, step : Steps]

OneHome ==
  /\ \A i, k \in DOMAIN todo : i # k => todo[i] # todo[k]
  /\ \A i, k \in DOMAIN ended : i # k => ended[i].market # ended[k].market
  /\ \A j, k \in busy : j # k => j.market # k.market
  /\ \A i \in DOMAIN todo, k \in DOMAIN ended : todo[i] # ended[k].market
  /\ \A i \in DOMAIN todo, j \in busy : todo[i] # j.market
  /\ \A i \in DOMAIN ended, j \in busy : ended[i].market # j.market

\* Jobs are in flight in a pool only, within its width; one of them writes.
Room ==
  /\ phase \notin Pooled => busy = {}
  /\ Cardinality(busy) <= (IF Fetches = 0 THEN 1 ELSE Fetches)
  /\ \A j, k \in busy : j.step \in Writing /\ k.step \in Writing => j = k

\* What the steps of the jobs have done to the files; a file of the cache
\* is whole or not there.
FileInv ==
  /\ mirror \in [Markets -> FileStates] /\ temporary \in [Markets -> FileStates]
  /\ cached \in [Markets -> {Absent, Whole}]
  /\ \A j \in busy :
       /\ phase = "prep" => j.step \in {"get", "write"}
       /\ phase # "prep" => j.step # "write"
       /\ j.step = "write" => mirror[j.market] # Absent
       /\ j.step = "rename" => temporary[j.market] = Whole
  /\ phase = "prep" \/ (phase = "done" /\ opt.program = "prep") =>
       \A i \in DOMAIN ended : mirror[ended[i].market] # Absent
  /\ phase = "done" /\ opt.program = "prep" => warned = {}

MemoryTypes ==
  /\ warned \in SUBSET Markets /\ learned \in SUBSET Markets
  /\ loadedUntil \in 0 .. NumMarkets
  /\ samples \in Seq(Markets)
  /\ results \in Seq([market : Markets, learned : SUBSET Markets])
  /\ samplesFile \in [state : FileStates, of : Seq(Markets)]
  /\ snapshotFile \in [state : FileStates, of : SUBSET Markets]

\* The samples of a run of folds are of the markets loaded so far, none of
\* which is past the training stretch of the window.
SampleInv ==
  /\ Folded => /\ \A i, j \in DOMAIN samples : i < j => samples[i] < samples[j]
               /\ \A i \in DOMAIN samples : samples[i] <= loadedUntil
  /\ Folded /\ phase = "preload" => loadedUntil = 0
  /\ InFold => loadedUntil <= Window.trainEnd
  /\ InFold /\ phase = "collect" => Streamed \subseteq loadedUntil + 1 .. Window.trainEnd
  /\ phase \in {"oos", "replay"} => learned \subseteq 1 .. Window.trainEnd

Tests(w) == w.testStart + 1 .. w.testEnd
Tested == {results[i].market : i \in DOMAIN results}
Before(k) == UNION {Tests(plan[i]) : i \in 1 .. k - 1}

\* The markets of the windows so far have a result or a warning, and those of
\* the window being replayed one of the two or a place in its stream.
AccountInv ==
  /\ Folded =>
       /\ \A i \in DOMAIN results : \A m \in results[i].learned : m + opt.purge < results[i].market
       /\ \A i, j \in DOMAIN results : i < j =>
            /\ results[i].market # results[j].market
            /\ Close[results[i].market] <= Close[results[j].market]
       /\ Tested \cap warned = {}
  /\ Folded /\ phase = "preload" => results = <<>> /\ warned = {} /\ fold = 1
  /\ (InFold /\ phase # "replay") \/ (Folded /\ phase = "done") => Tested \union warned = Before(fold)
  /\ phase = "replay" =>
       /\ Tested \subseteq Before(fold) /\ Streamed \subseteq Tests(Window)
       /\ Tested \union warned \union Streamed = Before(fold) \union Tests(Window)
       /\ (Tested \union warned) \cap Streamed = {}

PoolInv == PoolTypes /\ OneHome
WalkInv == ProgramInv /\ PoolInv /\ Room /\ FileInv /\ MemoryTypes /\ SampleInv /\ AccountInv
-----------------------------------------------------------------------------
(* How a stream moves on.                                                  *)

BeginsStored ==
  /\ todo # <<>> /\ todo' = Tail(todo)
  /\ ended' = Append(ended, Tape(Head(todo), TRUE)) /\ busy' = busy

Begins ==
  /\ todo # <<>> /\ todo' = Tail(todo)
  /\ busy' = busy \union {Job(Head(todo), "get")} /\ ended' = ended

\* What a move leaves alone, and what it does with the jobs of the stream.
LEMMA KindsOfMove ==
  ASSUME WalkInv, JobMoves
  PROVE  /\ UNCHANGED <<opt, phase, memory, samplesFile, snapshotFile, process>> /\ phase \in Pooled
         /\ \/ (BeginsStored \/ Begins) /\ warned' = warned
            \/ \E j \in busy : ((\E s \in Steps : Advance(j, s)) \/ Through(j)) /\ warned' = warned
            \/ \E j \in busy : Dropped(j) /\ warned' = IF phase \in {"prep", "replay"}
                                                       THEN warned \union {j.market} ELSE warned
  <1> USE DEF memory, disk, Steps, Writing
  <1>0. busy # {} => phase \in Pooled
    BY DEF WalkInv, Room
  <1>1. ASSUME NEW whole \in BOOLEAN, TakeStored(whole)
        PROVE  BeginsStored
    <2>1. todo # <<>> /\ Head(todo) \in Markets
      BY <1>1 DEF TakeStored, Taken, WalkInv, PoolInv, PoolTypes
    <2>2. cached[Head(todo)] \in {Absent, Whole}
      BY <2>1 DEF WalkInv, FileInv
    <2>3. whole = TRUE
      BY <1>1, <2>2 DEF TakeStored
    <2> QED BY <1>1, <2>3 DEF TakeStored, Taken, BeginsStored
  <1>2. ASSUME Take
        PROVE  Begins
    BY <1>2 DEF Take, Taken, Begins
  <1>3. ASSUME NEW j \in busy, Load(j) \/ CreateTmp(j) \/ FillTmp(j) \/ RenameTmp(j) \/ SaveFails(j)
        PROVE  ((\E s \in Steps : Advance(j, s)) \/ Through(j)) /\ warned' = warned
    BY <1>3 DEF Load, CreateTmp, FillTmp, RenameTmp, SaveFails
  <1>4. ASSUME NEW j \in busy, CreateFile(j) \/ \E flushed \in BOOLEAN : WriteFile(j, flushed)
        PROVE  ((\E s \in Steps : Advance(j, s)) \/ Through(j)) /\ warned' = warned
    BY <1>4 DEF CreateFile, WriteFile
  <1>5. ASSUME NEW j \in busy, LoadFails(j) \/ DownloadFails(j)
        PROVE  Dropped(j) /\ warned' = IF phase \in {"prep", "replay"} THEN warned \union {j.market} ELSE warned
    BY <1>5 DEF LoadFails, DownloadFails
  <1>6. UNCHANGED <<opt, phase, memory, samplesFile, snapshotFile, process>> /\ phase \in Pooled
    <2>1. ASSUME NEW whole \in BOOLEAN, TakeStored(whole)
          PROVE  UNCHANGED <<opt, phase, warned, memory, samplesFile, snapshotFile, process>> /\ phase \in Pooled
      BY <2>1 DEF TakeStored, Taken, CanMove
    <2>2. ASSUME Take
          PROVE  UNCHANGED <<opt, phase, warned, memory, samplesFile, snapshotFile, process>> /\ phase \in Pooled
      BY <2>2 DEF Take, Taken, CanMove
    <2>3. ASSUME NEW j \in busy, Load(j) \/ LoadFails(j) \/ CreateTmp(j) \/ FillTmp(j) \/ RenameTmp(j)
          PROVE  UNCHANGED <<opt, phase, memory, samplesFile, snapshotFile, process>> /\ phase \in Pooled
      BY <1>0, <2>3 DEF Load, LoadFails, CreateTmp, FillTmp, RenameTmp
    <2>4. ASSUME NEW j \in busy, SaveFails(j) \/ CreateFile(j) \/ DownloadFails(j)
          PROVE  UNCHANGED <<opt, phase, memory, samplesFile, snapshotFile, process>> /\ phase \in Pooled
      BY <1>0, <2>4 DEF SaveFails, CreateFile, DownloadFails
    <2>5. ASSUME NEW j \in busy, NEW flushed \in BOOLEAN, WriteFile(j, flushed)
          PROVE  UNCHANGED <<opt, phase, memory, samplesFile, snapshotFile, process>> /\ phase \in Pooled
      BY <1>0, <2>5 DEF WriteFile
    <2> QED BY <2>1, <2>2, <2>3, <2>4, <2>5 DEF JobMoves
  <1>7. (\E whole \in BOOLEAN : TakeStored(whole)) \/ Take => warned' = warned
    BY DEF TakeStored, Take, Taken
  <1> QED BY <1>1, <1>2, <1>3, <1>4, <1>5, <1>6, <1>7 DEF JobMoves
InStream(x) ==
  \/ \E i \in DOMAIN todo : todo[i] = x
  \/ \E j \in busy : j.market = x
  \/ \E i \in DOMAIN ended : ended[i].market = x

\* A market is in the stream where it is queued, in flight or done.
LEMMA StreamedIs == \A x : x \in Streamed <=> InStream(x)
  BY DEF Streamed, ToSet, Came, InStream

\* The same of the next state.
LEMMA StreamedIsNext == \A x : x \in Streamed' <=> InStream(x)'
  BY DEF Streamed, ToSet, Came, InStream

\* The first job of the stream is taken off it.
LEMMA HeadAndTail ==
  ASSUME PoolInv, todo # <<>>, todo' = Tail(todo)
  PROVE  /\ todo' \in Seq(Markets) /\ Head(todo) \in Markets /\ Head(todo) = todo[1]
         /\ \A i \in DOMAIN todo' : todo'[i] = todo[i + 1] /\ i + 1 \in DOMAIN todo /\ i + 1 # 1
         /\ 1 \in DOMAIN todo
         /\ \A i \in DOMAIN todo : i # 1 => i - 1 \in DOMAIN todo' /\ todo'[i - 1] = todo[i]
  <1>1. todo \in Seq(Markets)
    BY DEF PoolInv, PoolTypes
  <1>2. /\ todo' \in Seq(Markets) /\ Len(todo') = Len(todo) - 1 /\ Len(todo) >= 1
        /\ Head(todo) = todo[1]
    BY <1>1
  <1>3. \A i \in 1 .. Len(todo) - 1 : todo'[i] = todo[i + 1]
    BY <1>1
  <1>4. Head(todo) \in Markets /\ 1 \in DOMAIN todo
    BY <1>1, <1>2
  <1>5. ASSUME NEW i \in DOMAIN todo'
        PROVE  todo'[i] = todo[i + 1] /\ i + 1 \in DOMAIN todo /\ i + 1 # 1
    BY <1>1, <1>2, <1>3
  <1>6. ASSUME NEW i \in DOMAIN todo, i # 1
        PROVE  i - 1 \in DOMAIN todo' /\ todo'[i - 1] = todo[i]
    <2>1. i \in 1 .. Len(todo) /\ i - 1 \in 1 .. Len(todo) - 1
      BY <1>1, <1>6
    <2>2. todo'[i - 1] = todo[(i - 1) + 1]
      BY <1>3, <2>1
    <2> QED BY <1>2, <2>1, <2>2
  <1> QED BY <1>2, <1>4, <1>5, <1>6

\* Pushing on a vector keeps what was there.
LEMMA AppendFacts ==
  ASSUME NEW T, NEW s \in Seq(T), NEW t \in T
  PROVE  /\ Append(s, t) \in Seq(T) /\ Len(s) \in Nat /\ Len(s) + 1 \notin DOMAIN s
         /\ DOMAIN Append(s, t) = DOMAIN s \union {Len(s) + 1}
         /\ \A i \in DOMAIN s : Append(s, t)[i] = s[i]
         /\ Append(s, t)[Len(s) + 1] = t
  <1>1. Append(s, t) \in Seq(T) /\ Len(s) \in Nat /\ Len(s) + 1 \notin DOMAIN s
    OBVIOUS
  <1>2. Len(Append(s, t)) = Len(s) + 1 /\ Append(s, t)[Len(s) + 1] = t
    OBVIOUS
  <1>3. DOMAIN Append(s, t) = 1 .. Len(s) + 1 /\ DOMAIN s = 1 .. Len(s)
    BY <1>1, <1>2
  <1>4. 1 .. Len(s) + 1 = (1 .. Len(s)) \union {Len(s) + 1}
    BY <1>1
  <1>5. \A i \in DOMAIN s : Append(s, t)[i] = s[i]
    OBVIOUS
  <1> QED BY <1>1, <1>2, <1>3, <1>4, <1>5

\* A tape more has come in.
LEMMA OneMoreTape ==
  ASSUME PoolInv, NEW m \in Markets, ended' = Append(ended, Tape(m, TRUE))
  PROVE  /\ ended' \in Seq([market : Markets, whole : {TRUE}])
         /\ DOMAIN ended' = DOMAIN ended \union {Len(ended) + 1} /\ Len(ended) + 1 \notin DOMAIN ended
         /\ \A i \in DOMAIN ended : ended'[i] = ended[i]
         /\ ended'[Len(ended) + 1].market = m
  <1> DEFINE t == Tape(m, TRUE)
             T == [market : Markets, whole : {TRUE}]
  <1>1. ended \in Seq(T)
    BY DEF PoolInv, PoolTypes
  <1>2. t \in T /\ t.market = m
    BY DEF Tape
  <1>3. ended' = Append(ended, t)
    OBVIOUS
  <1> HIDE DEF t, T
  <1>4. /\ Append(ended, t) \in Seq(T) /\ Len(ended) + 1 \notin DOMAIN ended
        /\ DOMAIN Append(ended, t) = DOMAIN ended \union {Len(ended) + 1}
        /\ \A i \in DOMAIN ended : Append(ended, t)[i] = ended[i]
        /\ Append(ended, t)[Len(ended) + 1] = t
    BY ONLY <1>1, <1>2, AppendFacts
  <1> QED BY <1>2, <1>3, <1>4 DEF T

\* Every move keeps each market in one place, and only a job dropped takes
\* its market off the stream.
LEMMA BeginsKeepsHomes ==
  ASSUME PoolInv, BeginsStored \/ Begins
  PROVE  PoolInv' /\ Streamed' = Streamed
  <1>0. /\ todo' \in Seq(Markets) /\ Head(todo) \in Markets /\ Head(todo) = todo[1]
        /\ \A i \in DOMAIN todo' : todo'[i] = todo[i + 1] /\ i + 1 \in DOMAIN todo /\ i + 1 # 1
        /\ 1 \in DOMAIN todo
        /\ \A i \in DOMAIN todo : i # 1 => i - 1 \in DOMAIN todo' /\ todo'[i - 1] = todo[i]
        /\ \A i, k \in DOMAIN todo' : i # k => i + 1 # k + 1
    <2>1. todo # <<>> /\ todo' = Tail(todo)
      BY DEF BeginsStored, Begins
    <2>2. todo' \in Seq(Markets)
      BY <2>1, HeadAndTail
    <2> QED BY <2>1, <2>2, HeadAndTail
  <1>1. CASE BeginsStored
    <2>1. /\ ended' \in Seq([market : Markets, whole : {TRUE}])
          /\ DOMAIN ended' = DOMAIN ended \union {Len(ended) + 1} /\ Len(ended) + 1 \notin DOMAIN ended
          /\ \A i \in DOMAIN ended : ended'[i] = ended[i]
          /\ ended'[Len(ended) + 1].market = Head(todo)
      <3>1. ended' = Append(ended, Tape(Head(todo), TRUE)) /\ Head(todo) \in Markets
        BY <1>0, <1>1 DEF BeginsStored
      <3> QED BY <3>1, OneMoreTape
    <2>2. busy' = busy
      BY <1>1 DEF BeginsStored
    <2> DEFINE n == Len(ended) + 1
    <2>3. /\ DOMAIN ended' = DOMAIN ended \union {n} /\ n \notin DOMAIN ended
          /\ ended'[n].market = todo[1]
      BY <1>0, <2>1
    <2> HIDE DEF n
    <2>4. PoolTypes'
      BY <1>0, <2>1, <2>2 DEF PoolInv, PoolTypes
    <2>5. OneHome'
      BY <1>0, <2>1, <2>2, <2>3 DEF PoolInv, OneHome
    <2>6. \A x : InStream(x) <=> InStream(x)'
      BY <1>0, <2>1, <2>2, <2>3 DEF InStream
    <2> QED BY <2>4, <2>5, <2>6, StreamedIs, StreamedIsNext DEF PoolInv
  <1>2. CASE Begins
    <2> DEFINE j == Job(Head(todo), "get")
    <2>1. busy' = busy \union {j} /\ ended' = ended
      BY <1>2 DEF Begins
    <2>2. j.market = todo[1] /\ j \in [market : Markets, step : Steps]
      BY <1>0 DEF Job, Steps
    <2> HIDE DEF j
    <2>4. PoolTypes'
      BY <1>0, <2>1, <2>2 DEF PoolInv, PoolTypes
    <2>5. OneHome'
      BY <1>0, <2>1, <2>2 DEF PoolInv, OneHome
    <2>6. \A x : InStream(x) <=> InStream(x)'
      BY <1>0, <2>1, <2>2 DEF InStream
    <2> QED BY <2>4, <2>5, <2>6, StreamedIs, StreamedIsNext DEF PoolInv
  <1> QED BY <1>1, <1>2

\* A task that moves on stays in flight.
LEMMA AdvanceKeepsHomes ==
  ASSUME PoolInv, NEW j \in busy, NEW s \in Steps, Advance(j, s)
  PROVE  PoolInv' /\ Streamed' = Streamed
  <1> DEFINE k == Job(j.market, s)
  <1>1. busy' = (busy \ {j}) \union {k} /\ todo' = todo /\ ended' = ended
    BY DEF Advance
  <1>2. k.market = j.market /\ k \in [market : Markets, step : Steps]
    BY DEF Job, PoolInv, PoolTypes
  <1> HIDE DEF k
  <1>3. PoolTypes'
    BY <1>1, <1>2 DEF PoolInv, PoolTypes
  <1>4. OneHome'
    BY <1>1, <1>2 DEF PoolInv, OneHome
  <1>5. \A x : InStream(x) <=> InStream(x)'
    BY <1>1, <1>2 DEF InStream
  <1> QED BY <1>3, <1>4, <1>5, StreamedIs, StreamedIsNext DEF PoolInv

\* A task that is through is done.
LEMMA ThroughKeepsHomes ==
  ASSUME PoolInv, NEW j \in busy, Through(j)
  PROVE  PoolInv' /\ Streamed' = Streamed
  <1>0. busy' = busy \ {j} /\ todo' = todo /\ ended' = Append(ended, Tape(j.market, TRUE)) /\ j.market \in Markets
    BY DEF Through, PoolInv, PoolTypes
  <1>1. /\ ended' \in Seq([market : Markets, whole : {TRUE}])
        /\ DOMAIN ended' = DOMAIN ended \union {Len(ended) + 1} /\ Len(ended) + 1 \notin DOMAIN ended
        /\ \A i \in DOMAIN ended : ended'[i] = ended[i]
        /\ ended'[Len(ended) + 1].market = j.market
    BY <1>0, OneMoreTape
  <1> DEFINE n == Len(ended) + 1
  <1>2. /\ DOMAIN ended' = DOMAIN ended \union {n} /\ n \notin DOMAIN ended
        /\ \A i \in DOMAIN ended : ended'[i] = ended[i]
        /\ ended'[n].market = j.market
    BY <1>1
  <1> HIDE DEF n
  <1>3. PoolTypes'
    BY <1>0, <1>1 DEF PoolInv, PoolTypes
  <1>4. OneHome'
    <2>1. \A i, k \in DOMAIN todo' : i # k => todo'[i] # todo'[k]
      BY <1>0 DEF PoolInv, OneHome
    <2>2. \A i, k \in DOMAIN ended' : i # k => ended'[i].market # ended'[k].market
      BY <1>1, <1>2 DEF PoolInv, OneHome
    <2>3. /\ \A i, k \in busy' : i # k => i.market # k.market
          /\ \A i \in DOMAIN todo', k \in busy' : todo'[i] # k.market
      BY <1>0 DEF PoolInv, OneHome
    <2>4. ASSUME NEW i \in DOMAIN todo', NEW k \in DOMAIN ended'
          PROVE  todo'[i] # ended'[k].market
      <3>1. i \in DOMAIN todo /\ todo'[i] = todo[i] /\ todo[i] # j.market
        BY <1>0 DEF PoolInv, OneHome
      <3>2. k = n \/ (k \in DOMAIN ended /\ ended'[k] = ended[k])
        BY <1>2
      <3>3. k \in DOMAIN ended => todo[i] # ended[k].market
        BY <3>1 DEF PoolInv, OneHome
      <3> QED BY <1>2, <3>1, <3>2, <3>3
    <2>5. ASSUME NEW i \in DOMAIN ended', NEW k \in busy'
          PROVE  ended'[i].market # k.market
      <3>1. k \in busy /\ k.market # j.market
        BY <1>0 DEF PoolInv, OneHome
      <3>2. i = n \/ (i \in DOMAIN ended /\ ended'[i] = ended[i])
        BY <1>2
      <3>3. i \in DOMAIN ended => ended[i].market # k.market
        BY <3>1 DEF PoolInv, OneHome
      <3> QED BY <1>2, <3>1, <3>2, <3>3
    <2> QED BY <2>1, <2>2, <2>3, <2>4, <2>5 DEF OneHome
  <1>5. \A x : InStream(x) <=> InStream(x)'
    BY <1>0, <1>1, <1>2 DEF InStream
  <1> QED BY <1>3, <1>4, <1>5, StreamedIs, StreamedIsNext DEF PoolInv

\* A task that is dropped leaves the stream.
LEMMA DroppedLeaves ==
  ASSUME PoolInv, NEW j \in busy, Dropped(j)
  PROVE  PoolInv' /\ Streamed' = Streamed \ {j.market} /\ j.market \in Streamed /\ j.market \in Markets
  <1>1. busy' = busy \ {j} /\ todo' = todo /\ ended' = ended
    BY DEF Dropped
  <1>3. PoolTypes' /\ j.market \in Markets
    BY <1>1 DEF PoolInv, PoolTypes
  <1>4. OneHome'
    BY <1>1 DEF PoolInv, OneHome
  <1>5. \A x : InStream(x)' <=> InStream(x) /\ x # j.market
    BY <1>1 DEF InStream, PoolInv, OneHome
  <1>6. InStream(j.market)
    BY DEF InStream
  <1> QED BY <1>3, <1>4, <1>5, <1>6, StreamedIs, StreamedIsNext DEF PoolInv

\* A new stream holds the markets it was asked for, all of them to be begun.
LEMMA StreamStarts ==
  ASSUME NEW jobs \in Seq(Markets), \A i, k \in DOMAIN jobs : i # k => jobs[i] # jobs[k],
         NEW next, Stream(jobs, next)
  PROVE  /\ PoolInv' /\ busy' = {} /\ ended' = <<>> /\ phase' = next
         /\ Streamed' = {jobs[i] : i \in DOMAIN jobs}
  <1>1. todo' = jobs /\ busy' = {} /\ ended' = <<>> /\ phase' = next
    BY DEF Stream
  <1>2. PoolTypes' /\ OneHome'
    BY <1>1 DEF PoolTypes, OneHome
  <1>3. \A x : InStream(x)' <=> \E i \in DOMAIN jobs : jobs[i] = x
    BY <1>1 DEF InStream
  <1> QED BY <1>1, <1>2, <1>3, StreamedIsNext DEF PoolInv

\* A window of markets becomes a stream.
LEMMA JobsStart ==
  ASSUME NumMarkets \in Nat, NEW first \in Nat, NEW last \in 0 .. NumMarkets,
         NEW next, Stream(Jobs(first, last), next)
  PROVE  PoolInv' /\ busy' = {} /\ ended' = <<>> /\ phase' = next /\ Streamed' = first + 1 .. last
  <1> DEFINE jobs == Jobs(first, last)
  <1>1. jobs = [i \in 1 .. last - first |-> first + i]
    BY DEF Jobs
  <1>2. \A i \in 1 .. last - first : first + i \in Markets
    BY DEF Markets
  <1>3. jobs \in Seq(Markets) /\ DOMAIN jobs = 1 .. last - first
    <2>1. CASE last >= first
      BY <1>1, <1>2, <2>1
    <2>2. CASE last < first
      <3>1. 1 .. last - first = {}
        BY <2>2
      <3>2. jobs = <<>>
        BY <1>1, <3>1
      <3> QED BY <3>1, <3>2
    <2> QED BY <2>1, <2>2
  <1>4. \A i, k \in DOMAIN jobs : i # k => jobs[i] # jobs[k]
    BY <1>1, <1>3
  <1>5. {jobs[i] : i \in DOMAIN jobs} = first + 1 .. last
    <2>1. \A x \in first + 1 .. last : x - first \in 1 .. last - first /\ jobs[x - first] = x
      BY <1>1
    <2>2. \A i \in 1 .. last - first : jobs[i] \in first + 1 .. last
      BY <1>1
    <2> HIDE DEF jobs
    <2> QED BY <1>3, <2>1, <2>2
  <1>6. Stream(jobs, next)
    OBVIOUS
  <1> HIDE DEF jobs
  <1> QED BY <1>3, <1>4, <1>5, <1>6, StreamStarts

\* An ascending list of the targets lists each once.
LEMMA ListedTargets ==
  ASSUME NumMarkets \in Nat, NEW targets \in SUBSET Markets, NEW n \in Nat,
         NEW jobs \in [1 .. n -> targets], \A i, j \in 1 .. n : i < j => jobs[i] < jobs[j],
         \A x \in targets : \E i \in 1 .. n : jobs[i] = x
  PROVE  /\ jobs \in Seq(Markets) /\ \A i, k \in DOMAIN jobs : i # k => jobs[i] # jobs[k]
         /\ {jobs[i] : i \in DOMAIN jobs} = targets
  <1>1. \A i \in 1 .. n : jobs[i] \in Markets /\ jobs[i] \in Int
    <2>1. Markets \subseteq Int
      BY ONLY NumMarkets \in Nat DEF Markets
    <2> QED BY ONLY <2>1, jobs \in [1 .. n -> targets], targets \in SUBSET Markets
  <1>2. jobs \in Seq(Markets) /\ DOMAIN jobs = 1 .. n
    <2>1. jobs \in [1 .. n -> Markets]
      BY <1>1
    <2> QED BY <2>1
  <1>3. \A i, k \in DOMAIN jobs : i # k => jobs[i] # jobs[k]
    BY <1>1, <1>2
  <1> QED BY <1>2, <1>3

\* A set of targets becomes a stream.
LEMMA TargetsStart ==
  ASSUME NumMarkets \in Nat, NEW targets \in SUBSET Markets, NEW next, Stream(Sorted(targets, <), next)
  PROVE  PoolInv' /\ busy' = {} /\ ended' = <<>> /\ phase' = next /\ Streamed' = targets
  <1> DEFINE jobs == Sorted(targets, <)
             n == Cardinality(targets)
  <1>1. IsFiniteSet(targets) /\ targets \in SUBSET Int
    <2>1. IsFiniteSet(Markets) /\ Markets \in SUBSET Int
      BY ONLY NumMarkets \in Nat, FS_Interval DEF Markets
    <2> QED BY ONLY <2>1, targets \in SUBSET Markets, FS_Subset
  <1>2. /\ n \in Nat /\ jobs \in [1 .. n -> targets]
        /\ \A i, j \in 1 .. n : i < j => jobs[i] < jobs[j]
        /\ \A x \in targets : \E i \in 1 .. n : jobs[i] = x
    BY <1>1, AscendingOrder
  <1>3. Stream(jobs, next)
    OBVIOUS
  <1> HIDE DEF jobs, n
  <1>4. /\ jobs \in Seq(Markets) /\ \A i, k \in DOMAIN jobs : i # k => jobs[i] # jobs[k]
        /\ {jobs[i] : i \in DOMAIN jobs} = targets
    BY ONLY NumMarkets \in Nat, targets \in SUBSET Markets, <1>2, ListedTargets
  <1> QED BY ONLY <1>3, <1>4, StreamStarts
-----------------------------------------------------------------------------
(* Every step keeps each part of the invariant.                            *)

\* The plan is that of the command line.
LEMMA SamePlan == opt' = opt => plan' = plan /\ (fold' = fold => Window' = Window)
  BY DEF plan, plans, Window

\* An action of the program that is not a move of a job.
Turns ==
  \/ \E targets \in SUBSET Markets : ListTargets(targets)
  \/ CountErrors \/ SpotFails \/ StartFolds
  \/ RefusePortfolio \/ StartPortfolio \/ ReuseSamples \/ CollectForPortfolio
  \/ TrainFold \/ Collected \/ FitFold \/ EvaluatedFold \/ FinishFold
  \/ \E selected \in BOOLEAN : FitPortfolio(selected)
  \/ CreateSamplesFile \/ CreateSnapshotFile
  \/ \E flushed \in BOOLEAN : FillSamplesFile(flushed) \/ FillSnapshotFile(flushed)
  \/ WriteFails \/ RunPortfolio

\* The steps, by who takes them.
LEMMA NextTurns == Next <=> Turns \/ JobMoves \/ Killed \/ Restart \/ Terminated
  BY DEF Next, Work, Turns

\* Every step keeps the program counter, the fold and the options in agreement.
LEMMA ProgramKept ==
  ASSUME WalkForwardAssumptions, WalkInv, Next
  PROVE  ProgramInv'
  <1> USE DEF Pooled, Ended, Phases, memory, disk, pool
  <1>0. /\ opt \in Options /\ phase \in Phases /\ process \in 1 .. MaxProcesses
        /\ phase = "prep" => opt.program = "prep"
        /\ phase \notin Ended \union {"preload", "prep"} => opt.program = "walk"
        /\ phase \in {"train", "oos", "replay"} => ~opt.portfolio
        /\ phase \in {"portfolio", "create samples", "fill samples", "create snapshot", "fill snapshot"}
             => opt.portfolio
        /\ fold \in 1 .. Len(plan) + 1
        /\ InFold => ~Refused(NumMarkets, opt) /\ fold <= Len(plan)
        /\ Folded /\ phase = "done" => ~Refused(NumMarkets, opt) /\ fold = Len(plan) + 1
    BY DEF WalkInv, ProgramInv
  <1>1. Len(plan) \in Nat /\ (~Refused(NumMarkets, opt) => Len(plan) >= 1)
    <2>1. opt \in Options
      BY <1>0
    <2> QED BY <2>1, PlanNow
  <1>2. ASSUME opt' = opt, process' = process, fold' = fold, phase' \in Phases,
               \/ phase' = phase \/ phase' \in {"error", "killed"}
               \/ phase' = "prep" /\ opt.program = "prep"
               \/ phase' \in {"train", "collect", "fit", "oos", "replay"} /\ InFold
               \/ phase' = "train" /\ Folded /\ ~Refused(NumMarkets, opt) /\ fold <= Len(plan)
               \/ phase' = "done" /\ ~Folded
               \/ /\ phase' \in {"collect", "fit", "portfolio", "create samples", "fill samples",
                                 "create snapshot", "fill snapshot"}
                  /\ opt.portfolio /\ opt.program = "walk"
        PROVE  ProgramInv'
    <2>1. plan' = plan
      BY <1>2, SamePlan
    <2>2. Folded' = Folded
      BY <1>2 DEF Folded
    <2>3. opt' \in Options /\ phase' \in Phases /\ process' \in 1 .. MaxProcesses /\ fold' \in 1 .. Len(plan') + 1
      BY <1>0, <1>2, <2>1
    <2>4. phase' = "prep" => opt'.program = "prep"
      BY <1>0, <1>2
    <2>5. phase' \notin Ended \union {"preload", "prep"} => opt'.program = "walk"
      BY <1>0, <1>2 DEF InFold, Folded
    <2>6. phase' \in {"train", "oos", "replay"} => ~opt'.portfolio
      BY <1>0, <1>2 DEF InFold, Folded
    <2>7. phase' \in {"portfolio", "create samples", "fill samples", "create snapshot", "fill snapshot"}
            => opt'.portfolio
      BY <1>0, <1>2
    <2>8. InFold' => ~Refused(NumMarkets, opt') /\ fold' <= Len(plan')
      <3>1. InFold' => InFold \/ (~Refused(NumMarkets, opt) /\ fold <= Len(plan))
        BY <1>2, <2>2 DEF InFold, Folded
      <3> QED BY <1>0, <1>2, <2>1, <3>1
    <2>9. Folded' /\ phase' = "done" => ~Refused(NumMarkets, opt') /\ fold' = Len(plan') + 1
      BY <1>0, <1>2, <2>1, <2>2
    <2> QED BY <2>3, <2>4, <2>5, <2>6, <2>7, <2>8, <2>9 DEF ProgramInv
  <1>3. CASE JobMoves
    BY <1>0, <1>2, <1>3, KindsOfMove
  <1>4. ASSUME NEW targets \in SUBSET Markets, ListTargets(targets)
        PROVE  ProgramInv'
    BY <1>2, <1>4 DEF ListTargets, Stream
  <1>5. CASE CountErrors
    BY <1>0, <1>2, <1>5 DEF CountErrors, Folded
  <1>6. CASE SpotFails \/ RefusePortfolio \/ WriteFails
    BY <1>0, <1>2, <1>6 DEF SpotFails, RefusePortfolio, WriteFails
  <1>7. CASE StartFolds
    <2>1. Folded
      BY <1>7 DEF StartFolds, Folded
    <2>2. fold = 1
      BY <1>7 , <2>1 DEF StartFolds, WalkInv, AccountInv
    <2> QED BY <1>0, <1>1, <1>2, <1>7, <2>1, <2>2 DEF StartFolds
  <1>8. CASE StartPortfolio \/ ReuseSamples \/ CollectForPortfolio
    BY <1>0, <1>2, <1>8 DEF StartPortfolio, ReuseSamples, CollectForPortfolio, Preloaded, Stream
  <1>9. CASE TrainFold
    <2>1. InFold
      BY <1>0, <1>9 DEF TrainFold, InFold, Folded
    <2> QED BY <1>0, <1>2, <1>9, <2>1 DEF TrainFold, Stream
  <1>10. CASE Collected
    <2>1. InFold \/ (opt.portfolio /\ opt.program = "walk")
      BY <1>0, <1>10 DEF Collected, InFold, Folded
    <2>2. opt' = opt /\ process' = process /\ fold' = fold
      BY <1>10 DEF Collected
    <2>3. phase' = "fit" \/ (phase' = "create samples" /\ opt.portfolio)
      BY <1>10 DEF Collected
    <2>4. ~opt.portfolio => InFold
      BY <2>1 DEF InFold, Folded
    <2>5. opt.program = "walk"
      BY <2>1 DEF InFold, Folded
    <2> QED BY <1>2, <2>2, <2>3, <2>4, <2>5
  <1>11. CASE FitFold \/ EvaluatedFold
    <2>1. InFold
      BY <1>0, <1>11 DEF FitFold, EvaluatedFold, InFold, Folded
    <2>2. opt' = opt /\ process' = process /\ fold' = fold /\ phase' \in {"oos", "replay"}
      BY <1>11 DEF FitFold, EvaluatedFold, Stream
    <2> QED BY <1>2, <2>1, <2>2
  <1>12. CASE FinishFold
    <2>1. InFold
      BY <1>0, <1>12 DEF FinishFold, InFold, Folded
    <2>2. ~Refused(NumMarkets, opt) /\ fold <= Len(plan) /\ Folded
      BY <1>0, <2>1 DEF InFold
    <2>3. /\ opt' = opt /\ process' = process /\ fold' = fold + 1
          /\ phase' = IF fold = Len(plan) THEN "done" ELSE "train"
      BY <1>12 DEF FinishFold
    <2>4. plan' = plan
      BY <2>3, SamePlan
    <2>5. fold' \in 1 .. Len(plan') + 1 /\ (fold # Len(plan) => fold' <= Len(plan'))
      <3>1. Len(plan) \in Nat
        BY <1>1
      <3>2. fold \in 1 .. Len(plan) + 1
        BY <1>0
      <3>3. fold <= Len(plan)
        BY <2>2
      <3> QED BY ONLY <2>3, <2>4, <3>1, <3>2, <3>3
    <2>6. opt.program = "walk" /\ ~opt.portfolio
      BY <2>2 DEF Folded
    <2> QED BY <1>0, <2>2, <2>3, <2>4, <2>5, <2>6 DEF ProgramInv, InFold, Folded
  <1>13. ASSUME NEW b \in BOOLEAN, FitPortfolio(b) \/ FillSamplesFile(b) \/ FillSnapshotFile(b)
        PROVE  ProgramInv'
    BY <1>0, <1>2, <1>13 DEF FitPortfolio, FillSamplesFile, FillSnapshotFile
  <1>14. CASE CreateSamplesFile \/ CreateSnapshotFile
    BY <1>0, <1>2, <1>14 DEF CreateSamplesFile, CreateSnapshotFile
  <1>15. CASE RunPortfolio
    BY <1>0, <1>2, <1>15 DEF RunPortfolio, Folded
  <1>16. CASE Killed
    <2>1. opt' = opt /\ process' = process /\ fold' = 1 /\ phase' = "killed"
      BY <1>16 DEF Killed, Forget
    <2>2. plan' = plan
      BY <2>1, SamePlan
    <2>3. fold' \in 1 .. Len(plan') + 1
      <3>1. Len(plan) \in Nat
        BY <1>1
      <3> QED BY ONLY <2>1, <2>2, <3>1
    <2> QED BY <1>0, <2>1, <2>3 DEF ProgramInv, InFold
  <1>17. CASE Restart
    <2>1. opt' \in Options /\ process' = process + 1 /\ process < MaxProcesses /\ fold' = 1 /\ phase' = "preload"
      BY <1>17 DEF Restart, Forget
    <2>2. Len(plan') \in Nat
      <3>1. plans[opt'] \in Seq(WindowSet)
        <4>1. CASE Refused(NumMarkets, opt')
          <5>1. plans[opt'] = <<>>
            BY <2>1, <4>1 DEF plans
          <5> QED BY <5>1
        <4>2. CASE ~Refused(NumMarkets, opt')
          <5>1. plans[opt'] = Plan(NumMarkets, opt')
            BY <2>1, <4>2 DEF plans
          <5>2. InARow(Plan(NumMarkets, opt'), opt'.purge)
            BY <2>1, <4>2, PlanFacts
          <5> QED BY <5>1, <5>2 DEF InARow
        <4> QED BY <4>1, <4>2
      <3> QED BY <3>1 DEF plan
    <2>3. MaxProcesses \in Nat
      BY DEF WalkForwardAssumptions
    <2>4. process' \in 1 .. MaxProcesses
      <3>1. process \in 1 .. MaxProcesses
        BY <1>0
      <3> QED BY ONLY <2>1, <2>3, <3>1
    <2>5. fold' \in 1 .. Len(plan') + 1
      BY ONLY <2>1, <2>2
    <2> QED BY <2>1, <2>4, <2>5 DEF ProgramInv, InFold
  <1>18. CASE Terminated
    <2>1. opt' = opt /\ process' = process /\ fold' = fold /\ phase' = phase
      BY <1>18 DEF Terminated, vars
    <2> QED BY <1>0, <1>2, <2>1
  <1> QED BY <1>3, <1>4, <1>5, <1>6, <1>7, <1>8, <1>9, <1>10, <1>11, <1>12, <1>13, <1>14, <1>15,
             <1>16, <1>17, <1>18, NextTurns DEF Turns
\* The window of a run of folds.
LEMMA WindowNow ==
  ASSUME WalkForwardAssumptions, WalkInv, InFold
  PROVE  /\ Window \in WindowSet /\ Window.trainEnd = TrainEnd(Window.testStart, opt.purge)
         /\ InARow(plan, opt.purge) /\ fold \in 1 .. Len(plan) /\ Len(plan) \in Nat /\ plan[fold] = Window
  <1>1. /\ opt \in Options /\ fold \in 1 .. Len(plan) + 1
        /\ ~Refused(NumMarkets, opt) /\ fold <= Len(plan)
    BY DEF WalkInv, ProgramInv
  <1>2. plan \in Seq(WindowSet) /\ InARow(plan, opt.purge)
    <2>1. opt \in Options
      BY <1>1
    <2> QED BY <1>1, <2>1, PlanNow
  <1>3. Len(plan) \in Nat
    BY <1>2
  <1>4. fold \in 1 .. Len(plan)
    <2>1. fold \in 1 .. Len(plan) + 1 /\ fold <= Len(plan)
      BY <1>1
    <2> QED BY ONLY <1>3, <2>1
  <1> QED BY <1>2, <1>3, <1>4 DEF Window, InARow

\* Outside the moves of jobs a stream is started afresh, or left as it is
\* with nothing in flight.
LEMMA PoolTurns ==
  ASSUME WalkForwardAssumptions, WalkInv, Turns \/ Killed \/ Restart \/ Terminated
  PROVE  /\ PoolInv'
         /\ UNCHANGED <<pool, phase>> \/ (busy' = {} /\ (ended' = ended \/ ended' = <<>>))
  <1> USE DEF Pooled, Ended
  <1>0. NumMarkets \in Nat
    BY DEF WalkForwardAssumptions
  <1>1. ASSUME UNCHANGED pool
        PROVE  PoolInv' /\ Streamed' = Streamed
    BY <1>1 DEF WalkInv, PoolInv, PoolTypes, OneHome, pool, Streamed, Came
  <1>2. phase \notin Pooled => busy = {}
    BY DEF WalkInv, Room
  <1>3. ASSUME UNCHANGED pool, phase \notin Pooled \/ Drained
        PROVE  PoolInv' /\ busy' = {} /\ ended' = ended
    BY <1>1, <1>2, <1>3 DEF Drained, pool
  <1>4. ASSUME NEW targets \in SUBSET Markets, ListTargets(targets)
        PROVE  PoolInv' /\ busy' = {} /\ ended' = <<>>
    <2>1. Stream(Sorted(targets, <), "prep")
      BY <1>4 DEF ListTargets
    <2> QED BY ONLY <1>0, <2>1, TargetsStart
  <1>5. CASE CountErrors
    BY <1>3, <1>5 DEF CountErrors
  <1>6. CASE SpotFails \/ RefusePortfolio \/ WriteFails \/ StartFolds
    BY <1>3, <1>6 DEF SpotFails, RefusePortfolio, WriteFails, StartFolds, Preloaded
  <1>7. CASE StartPortfolio \/ ReuseSamples
    BY <1>3, <1>7 DEF StartPortfolio, ReuseSamples, Preloaded
  <1>8. CASE CollectForPortfolio
    <2>1. Stream(Jobs(0, opt.minTrain), "collect") /\ opt.minTrain > 0 /\ ~(opt.minTrain >= NumMarkets)
      BY <1>8 DEF CollectForPortfolio, Trains, RefusesPortfolio
    <2>2. opt.minTrain \in Nat
      BY DEF WalkForwardAssumptions, WalkInv, ProgramInv
    <2>3. opt.minTrain \in 0 .. NumMarkets
      BY <1>0, <2>1, <2>2
    <2> QED BY <1>0, <2>1, <2>3, JobsStart
  <1>9. ASSUME InFold
        PROVE  Window.trainEnd \in 0 .. NumMarkets /\ Window.testStart \in Nat /\ Window.testEnd \in 0 .. NumMarkets
    BY <1>0, <1>9, WindowNow DEF WindowSet
  <1>10. CASE TrainFold
    <2>1. InFold
      BY <1>10 DEF TrainFold, InFold, Folded, WalkInv, ProgramInv
    <2>2. CASE Stream(Jobs(loadedUntil, Window.trainEnd), "collect")
      <3>1. loadedUntil \in Nat
        BY <1>0 DEF WalkInv, MemoryTypes
      <3> QED BY <1>0, <1>9, <2>1, <2>2, <3>1, JobsStart
    <2>3. CASE UNCHANGED pool
      BY <1>3, <1>10, <2>3 DEF TrainFold
    <2> QED BY <1>10, <2>2, <2>3 DEF TrainFold
  <1>11. CASE Collected \/ FinishFold
    BY <1>3, <1>11 DEF Collected, FinishFold
  <1>12. CASE FitFold \/ EvaluatedFold
    <2>1. InFold
      BY <1>12 DEF FitFold, EvaluatedFold, InFold, Folded, WalkInv, ProgramInv
    <2>2. PICK next : Stream(WindowJobs, next)
      BY <1>12 DEF FitFold, EvaluatedFold
    <2>3. Stream(Jobs(Window.testStart, Window.testEnd), next)
      BY <2>2 DEF WindowJobs
    <2> QED BY <1>0, <1>9, <2>1, <2>3, JobsStart
  <1>13. ASSUME NEW b \in BOOLEAN, FitPortfolio(b) \/ FillSamplesFile(b) \/ FillSnapshotFile(b)
         PROVE  PoolInv' /\ busy' = {} /\ ended' = ended
    BY <1>3, <1>13 DEF FitPortfolio, FillSamplesFile, FillSnapshotFile
  <1>14. CASE CreateSamplesFile \/ CreateSnapshotFile \/ RunPortfolio
    BY <1>3, <1>14 DEF CreateSamplesFile, CreateSnapshotFile, RunPortfolio
  <1>15. CASE Killed \/ Restart
    <2>1. todo' = <<>> /\ busy' = {} /\ ended' = <<>>
      BY <1>15 DEF Killed, Restart, Forget
    <2> QED BY <2>1 DEF PoolInv, PoolTypes, OneHome
  <1>16. CASE Terminated
    BY <1>1, <1>16 DEF Terminated, vars
  <1> QED BY <1>4, <1>5, <1>6, <1>7, <1>8, <1>10, <1>11, <1>12, <1>13, <1>14, <1>15, <1>16 DEF Turns

\* Every step keeps each market at one place of the stream.
LEMMA PoolKept ==
  ASSUME WalkForwardAssumptions, WalkInv, Next
  PROVE  PoolInv'
  <1>1. PoolInv
    BY DEF WalkInv
  <1>2. CASE JobMoves
    <2>1. CASE BeginsStored \/ Begins
      BY <1>1, <2>1, BeginsKeepsHomes
    <2>2. ASSUME NEW j \in busy, (\E s \in Steps : Advance(j, s)) \/ Through(j) \/ Dropped(j)
          PROVE  PoolInv'
      BY <1>1, <2>2, AdvanceKeepsHomes, ThroughKeepsHomes, DroppedLeaves
    <2> QED BY <1>2, <2>1, <2>2, KindsOfMove
  <1> QED BY <1>2, PoolTurns, NextTurns

\* Nothing in flight, and nothing is amiss with it.
LEMMA NoneInFlight ==
  ASSUME WalkForwardAssumptions, busy' = {}
  PROVE  Room'
  <1>1. Cardinality(busy') = 0
    BY FS_EmptySet
  <1>2. 0 <= (IF Fetches = 0 THEN 1 ELSE Fetches)
    BY DEF WalkForwardAssumptions
  <1> QED BY <1>1, <1>2 DEF Room
\* What is counted once by f.
LEMMA CountOnce ==
  ASSUME NEW S, NEW T, IsFiniteSet(T), NEW f \in [S -> T],
         \A a, b \in S : a # b => f[a] # f[b], \A t \in T : \E a \in S : f[a] = t
  PROVE  IsFiniteSet(S) /\ Cardinality(S) = Cardinality(T) /\ Cardinality(T) \in Nat
  <1>1. f \in Injection(S, T) /\ f \in Surjection(S, T)
    BY DEF Injection, IsInjective, Surjection
  <1> QED BY <1>1, FS_Injection, FS_CardinalityType

\* What is in flight can be counted by its markets.
LEMMA FlightIsFinite ==
  ASSUME NumMarkets \in Nat, PoolInv
  PROVE  /\ IsFiniteSet(busy) /\ Cardinality(busy) \in Nat
         /\ Cardinality(busy) = Cardinality({j.market : j \in busy})
  <1> DEFINE T == {j.market : j \in busy}
             f == [j \in busy |-> j.market]
  <1>1. IsFiniteSet(Markets)
    BY ONLY NumMarkets \in Nat, FS_Interval DEF Markets
  <1>2. T \in SUBSET Markets
    BY DEF PoolInv, PoolTypes
  <1>3. IsFiniteSet(T)
    BY <1>1, <1>2, FS_Subset
  <1>4. \A a, b \in busy : a # b => f[a] # f[b]
    BY DEF PoolInv, OneHome
  <1>5. f \in [busy -> T] /\ \A t \in T : \E a \in busy : f[a] = t
    OBVIOUS
  <1> HIDE DEF f, T
  <1>6. IsFiniteSet(busy) /\ Cardinality(busy) = Cardinality(T) /\ Cardinality(T) \in Nat
    BY ONLY <1>3, <1>4, <1>5, CountOnce
  <1> QED BY <1>6 DEF T

\* Every step keeps the flight within the pool.
LEMMA RoomKept ==
  ASSUME WalkForwardAssumptions, WalkInv, Next
  PROVE  Room'
  <1> DEFINE bound == IF Fetches = 0 THEN 1 ELSE Fetches
  <1>0. /\ Cardinality(busy) <= bound /\ bound \in Nat
        /\ \A j, k \in busy : j.step \in Writing /\ k.step \in Writing => j = k
    BY DEF WalkInv, Room, WalkForwardAssumptions
  <1>1. IsFiniteSet(busy) /\ Cardinality(busy) \in Nat
    BY FlightIsFinite DEF WalkInv, WalkForwardAssumptions
  <1>2. CASE Turns \/ Killed \/ Restart \/ Terminated
    <2>1. CASE busy' = {}
      BY <2>1, NoneInFlight
    <2>2. CASE UNCHANGED <<pool, phase>>
      BY <2>2 DEF WalkInv, Room, pool
    <2> QED BY <1>2, <2>1, <2>2, PoolTurns
  <1>3. CASE JobMoves
    <2>1. phase' = phase /\ phase \in Pooled
      BY <1>3, KindsOfMove
    <2>2. ASSUME Cardinality(busy') <= bound,
                 \A j, k \in busy' : j.step \in Writing /\ k.step \in Writing => j = k
          PROVE  Room'
      BY <2>1, <2>2 DEF Room
    <2>3. ASSUME NEW j \in busy, Through(j) \/ Dropped(j)
          PROVE  Room'
      <3>1. busy' = busy \ {j}
        BY <2>3 DEF Through, Dropped
      <3>2. Cardinality(busy') <= Cardinality(busy) /\ Cardinality(busy') \in Nat
        <4>1. busy' \in SUBSET busy
          BY <3>1
        <4> QED BY <1>1, <4>1, FS_Subset, FS_CardinalityType
      <3>3. Cardinality(busy') <= bound
        BY <1>0, <1>1, <3>2
      <3> QED BY <1>0, <2>2, <3>1, <3>3
    <2>4. ASSUME NEW j \in busy, NEW s \in Steps, Advance(j, s),
                 s \notin Writing \/ ~Saving \/ j.step \in Writing
          PROVE  Room'
      <3> DEFINE k == Job(j.market, s)
                 rest == busy \ {j}
      <3>1. busy' = rest \union {k} /\ k.step = s
        BY <2>4 DEF Advance, Job
      <3> HIDE DEF k
      <3>2. IsFiniteSet(rest) /\ Cardinality(rest) = Cardinality(busy) - 1
        BY <1>1, FS_RemoveElement
      <3>3. Cardinality(busy') <= Cardinality(rest) + 1
        <4>1. Cardinality(rest) \in Nat
          BY <3>2, FS_CardinalityType
        <4> HIDE DEF rest
        <4>2. Cardinality(busy') = IF k \in rest THEN Cardinality(rest) ELSE Cardinality(rest) + 1
          BY <3>1, <3>2, FS_AddElement
        <4> QED BY <4>1, <4>2
      <3>4. Cardinality(busy') <= bound
        <4>1. Cardinality(busy') \in Nat
          BY <3>1, <3>2, FS_AddElement, FS_CardinalityType
        <4> QED BY <1>0, <1>1, <3>2, <3>3, <4>1
      <3>5. \A i \in rest : i.step \in Writing => s \notin Writing
        <4>1. CASE j.step \in Writing
          BY <1>0, <4>1
        <4>2. CASE ~Saving
          BY <4>2 DEF Saving, Writing
        <4> QED BY <2>4, <4>1, <4>2
      <3>6. \A i, l \in busy' : i.step \in Writing /\ l.step \in Writing => i = l
        BY <1>0, <3>1, <3>5
      <3> QED BY <2>2, <3>4, <3>6
    <2>5. CASE BeginsStored
      BY <1>0, <2>2, <2>5 DEF BeginsStored
    <2>6. CASE Take
      <3> DEFINE k == Job(Head(todo), "get")
      <3>1. busy' = busy \union {k} /\ k.step \notin Writing /\ Cardinality(busy) < Width
        BY <2>6 DEF Take, Taken, Job, Writing
      <3> HIDE DEF k
      <3>2. Width <= bound /\ Width \in Nat
        BY DEF Width, WalkForwardAssumptions
      <3>3. Cardinality(busy') = IF k \in busy THEN Cardinality(busy) ELSE Cardinality(busy) + 1
        BY <1>1, <3>1, FS_AddElement
      <3>4. Cardinality(busy') <= bound
        BY <1>0, <1>1, <3>1, <3>2, <3>3
      <3>5. \A i, l \in busy' : i.step \in Writing /\ l.step \in Writing => i = l
        BY <1>0, <3>1
      <3> QED BY <2>2, <3>4, <3>5
    <2>7. ASSUME NEW whole \in BOOLEAN, TakeStored(whole)
          PROVE  Room'
      BY <1>0, <2>2, <2>7 DEF TakeStored
    <2>8. ASSUME NEW j \in busy, Load(j)
          PROVE  Room'
      BY <2>3, <2>4, <2>8 DEF Load, CanMove, Steps, Writing
    <2>9. ASSUME NEW j \in busy, CreateTmp(j) \/ FillTmp(j)
          PROVE  Room'
      BY <2>4, <2>9 DEF CreateTmp, FillTmp, Steps, Writing
    <2>10. ASSUME NEW j \in busy, CreateFile(j)
           PROVE  Room'
      BY <2>4, <2>10 DEF CreateFile, Steps, Writing
    <2>11. ASSUME NEW j \in busy, RenameTmp(j) \/ SaveFails(j) \/ LoadFails(j) \/ DownloadFails(j)
           PROVE  Room'
      BY <2>3, <2>11 DEF RenameTmp, SaveFails, LoadFails, DownloadFails
    <2>12. ASSUME NEW j \in busy, NEW flushed \in BOOLEAN, WriteFile(j, flushed)
           PROVE  Room'
      BY <2>3, <2>12 DEF WriteFile
    <2> QED BY <1>3, <2>6, <2>7, <2>8, <2>9, <2>10, <2>11, <2>12 DEF JobMoves
  <1> QED BY <1>2, <1>3, NextTurns
\* What FileInv says of the jobs, and of the tapes prep-cache brought.
JobsOnFile ==
  \A j \in busy :
    /\ phase = "prep" => j.step \in {"get", "write"}
    /\ phase # "prep" => j.step # "write"
    /\ j.step = "write" => mirror[j.market] # Absent
    /\ j.step = "rename" => temporary[j.market] = Whole

CameOnFile == \A i \in DOMAIN ended : mirror[ended[i].market] # Absent

\* A move of a task keeps the files in step with where the tasks are.
LEMMA FilesOfMoves ==
  ASSUME WalkForwardAssumptions, WalkInv, JobMoves
  PROVE  FileInv'
  <1> USE DEF Steps, Writing
  <1>0. /\ mirror \in [Markets -> FileStates] /\ temporary \in [Markets -> FileStates]
        /\ cached \in [Markets -> {Absent, Whole}] /\ JobsOnFile /\ (phase = "prep" => CameOnFile)
    BY DEF WalkInv, FileInv, JobsOnFile, CameOnFile
  <1>1. phase' = phase /\ opt' = opt /\ phase # "done"
    BY KindsOfMove DEF Pooled
  <1>2. ASSUME mirror' \in [Markets -> FileStates], temporary' \in [Markets -> FileStates],
               cached' \in [Markets -> {Absent, Whole}], JobsOnFile', phase = "prep" => CameOnFile'
        PROVE  FileInv'
    BY <1>1, <1>2 DEF FileInv, JobsOnFile, CameOnFile
  <1>3. /\ \A j \in busy : j.market \in Markets
        /\ \A j, k \in busy : j # k => j.market # k.market
        /\ \A i \in DOMAIN ended : ended[i].market \in Markets
    <2>1. \A j \in busy : j.market \in Markets
      BY DEF WalkInv, PoolInv, PoolTypes
    <2>2. \A j, k \in busy : j # k => j.market # k.market
      BY DEF WalkInv, PoolInv, OneHome
    <2>3. ended \in Seq([market : Markets, whole : {TRUE}])
      BY DEF WalkInv, PoolInv, PoolTypes
    <2>4. \A i \in DOMAIN ended : ended[i] \in [market : Markets, whole : {TRUE}]
      <3> DEFINE T == [market : Markets, whole : {TRUE}]
      <3>1. ended \in Seq(T)
        BY <2>3
      <3> HIDE DEF T
      <3>2. \A i \in DOMAIN ended : ended[i] \in T
        BY ONLY <3>1
      <3> QED BY <3>2 DEF T
    <2> QED BY <2>1, <2>2, <2>4
  <1>4. {Absent, Part, Whole} = FileStates /\ Absent # Part /\ Absent # Whole
    BY DEF FileStates, Absent, Part, Whole
  <1>5. ASSUME NEW j \in busy, Through(j),
               \A i \in busy' : mirror'[i.market] = mirror[i.market] /\ temporary'[i.market] = temporary[i.market]
        PROVE  JobsOnFile'
    BY <1>0, <1>1, <1>5 DEF Through, JobsOnFile
  <1>6. ASSUME NEW j \in busy, Through(j), phase = "prep", mirror'[j.market] # Absent,
               \A i \in DOMAIN ended : mirror'[ended[i].market] # Absent
        PROVE  CameOnFile'
    <2>1. /\ DOMAIN ended' = DOMAIN ended \union {Len(ended) + 1}
          /\ \A i \in DOMAIN ended : ended'[i] = ended[i]
          /\ ended'[Len(ended) + 1].market = j.market
      <3>1. ended' = Append(ended, Tape(j.market, TRUE)) /\ j.market \in Markets /\ PoolInv
        BY <1>3, <1>6 DEF Through, WalkInv
      <3> QED BY ONLY <3>1, OneMoreTape
    <2> QED BY <1>6, <2>1 DEF CameOnFile
  <1>7. ASSUME NEW j \in busy, NEW s \in Steps, Advance(j, s),
               \A i \in busy \ {j} : mirror'[i.market] = mirror[i.market] /\ temporary'[i.market] = temporary[i.market],
               phase = "prep" => s \in {"get", "write"}, phase # "prep" => s # "write",
               s = "write" => mirror'[j.market] # Absent, s = "rename" => temporary'[j.market] = Whole
        PROVE  JobsOnFile'
    <2> DEFINE k == Job(j.market, s)
    <2>1. busy' = (busy \ {j}) \union {k} /\ k.market = j.market /\ k.step = s
      BY <1>7 DEF Advance, Job
    <2> HIDE DEF k
    <2> QED BY <1>0, <1>1, <1>7, <2>1 DEF JobsOnFile
  <1>8. ASSUME NEW whole \in BOOLEAN, TakeStored(whole)
        PROVE  FileInv'
    <2>1. UNCHANGED <<mirror, cached, temporary, busy>>
      BY <1>8 DEF TakeStored, Taken, disk
    <2>2. JobsOnFile'
      BY <1>0, <1>1, <2>1 DEF JobsOnFile
    <2>3. phase = "prep" => CameOnFile'
      <3>1. ASSUME phase = "prep"
            PROVE  CameOnFile'
        <4>1. mirror[Head(todo)] # Absent /\ whole = TRUE /\ ended' = Append(ended, Tape(Head(todo), whole)) /\ todo # <<>>
          BY <1>8, <3>1 DEF TakeStored, Taken
        <4>2. Head(todo) \in Markets
          BY <4>1 DEF WalkInv, PoolInv, PoolTypes
        <4>3. /\ DOMAIN ended' = DOMAIN ended \union {Len(ended) + 1}
              /\ \A i \in DOMAIN ended : ended'[i] = ended[i]
              /\ ended'[Len(ended) + 1].market = Head(todo)
          <5>1. ended' = Append(ended, Tape(Head(todo), TRUE)) /\ Head(todo) \in Markets /\ PoolInv
            BY <4>1, <4>2 DEF WalkInv
          <5> QED BY ONLY <5>1, OneMoreTape
        <4> QED BY <1>0, <2>1, <3>1, <4>1, <4>3 DEF CameOnFile
      <3> QED BY <3>1
    <2> QED BY <1>0, <1>2, <2>1, <2>2, <2>3
  <1>9. CASE Take
    <2> DEFINE k == Job(Head(todo), "get")
    <2>1. UNCHANGED <<mirror, cached, temporary, ended>> /\ busy' = busy \union {k} /\ k.step = "get"
      BY <1>9 DEF Take, Taken, disk, Job
    <2> HIDE DEF k
    <2>2. JobsOnFile' /\ (phase = "prep" => CameOnFile')
      BY <1>0, <1>1, <2>1 DEF JobsOnFile, CameOnFile
    <2> QED BY <1>0, <1>2, <2>1, <2>2
  <1>10. ASSUME NEW j \in busy, Load(j)
         PROVE  FileInv'
    <2>1. UNCHANGED <<mirror, cached, temporary>> /\ phase # "prep" /\ (Advance(j, "create") \/ Through(j))
      BY <1>10 DEF Load, disk
    <2> QED BY <1>0, <1>2, <1>5, <1>7, <2>1
  <1>11. ASSUME NEW j \in busy, LoadFails(j) \/ DownloadFails(j)
         PROVE  FileInv'
    <2>1. UNCHANGED <<mirror, cached, temporary, ended>> /\ busy' = busy \ {j}
      BY <1>11 DEF LoadFails, DownloadFails, Dropped, disk
    <2>2. JobsOnFile' /\ (phase = "prep" => CameOnFile')
      BY <1>0, <1>1, <2>1 DEF JobsOnFile, CameOnFile
    <2> QED BY <1>0, <1>2, <2>1, <2>2
  <1>12. ASSUME NEW j \in busy, CreateTmp(j) \/ FillTmp(j)
         PROVE  FileInv'
    <2>1. phase # "prep"
      BY <1>0, <1>12 DEF JobsOnFile, CreateTmp, FillTmp
    <2>2. UNCHANGED <<mirror, cached>>
      BY <1>12 DEF CreateTmp, FillTmp
    <2>3. /\ temporary' \in [Markets -> FileStates]
          /\ \A i \in busy \ {j} : temporary'[i.market] = temporary[i.market]
          /\ FillTmp(j) => temporary'[j.market] = Whole
      BY <1>0, <1>3, <1>4, <1>12 DEF CreateTmp, FillTmp
    <2>4. PICK s \in Steps : Advance(j, s) /\ s # "write" /\ (s = "rename" => FillTmp(j))
      BY <1>12 DEF CreateTmp, FillTmp
    <2>5. JobsOnFile'
      BY <1>7, <2>1, <2>2, <2>3, <2>4
    <2> QED BY <1>0, <1>2, <2>1, <2>2, <2>3, <2>5
  <1>13. ASSUME NEW j \in busy, RenameTmp(j)
         PROVE  FileInv'
    <2>1. phase # "prep" /\ temporary[j.market] = Whole
      BY <1>0, <1>13 DEF JobsOnFile, RenameTmp
    <2>2. UNCHANGED mirror /\ Through(j)
      BY <1>13 DEF RenameTmp
    <2>3. /\ cached' = [cached EXCEPT ![j.market] = Whole]
          /\ temporary' = [temporary EXCEPT ![j.market] = Absent]
      BY <1>13, <2>1 DEF RenameTmp
    <2>4. cached' \in [Markets -> {Absent, Whole}] /\ temporary' \in [Markets -> FileStates]
      BY <1>0, <1>4, <2>3
    <2>5. \A i \in busy' : temporary'[i.market] = temporary[i.market]
      BY <1>0, <1>3, <2>2, <2>3 DEF Through
    <2>6. JobsOnFile'
      BY <1>5, <2>2, <2>5
    <2> QED BY <1>0, <1>2, <2>1, <2>2, <2>4, <2>6
  <1>14. ASSUME NEW j \in busy, SaveFails(j)
         PROVE  FileInv'
    <2>1. UNCHANGED <<mirror, cached, temporary>> /\ phase # "prep" /\ Through(j)
      BY <1>0, <1>14 DEF JobsOnFile, SaveFails, disk
    <2> QED BY <1>0, <1>2, <1>5, <2>1
  <1>15. ASSUME NEW j \in busy, CreateFile(j)
         PROVE  FileInv'
    <2>1. /\ UNCHANGED <<cached, temporary, ended>> /\ phase = "prep" /\ Advance(j, "write")
          /\ mirror' = [mirror EXCEPT ![j.market] = Part]
      BY <1>15 DEF CreateFile, Advance
    <2>2. /\ mirror' \in [Markets -> FileStates] /\ mirror'[j.market] # Absent
          /\ \A i \in busy \ {j} : mirror'[i.market] = mirror[i.market]
          /\ \A m \in Markets : mirror[m] # Absent => mirror'[m] # Absent
      BY <1>0, <1>3, <1>4, <2>1
    <2>3. JobsOnFile'
      BY <1>7, <2>1, <2>2
    <2>4. CameOnFile'
      BY <1>0, <1>3, <2>1, <2>2 DEF CameOnFile
    <2> QED BY <1>0, <1>2, <2>1, <2>2, <2>3, <2>4
  <1>16. ASSUME NEW j \in busy, NEW flushed \in BOOLEAN, WriteFile(j, flushed)
         PROVE  FileInv'
    <2>1. /\ UNCHANGED <<cached, temporary>> /\ phase = "prep" /\ Through(j) /\ mirror[j.market] # Absent
          /\ \/ mirror' = [mirror EXCEPT ![j.market] = Whole]
             \/ mirror' = [mirror EXCEPT ![j.market] = mirror[j.market]]
      BY <1>0, <1>16 DEF WriteFile, JobsOnFile
    <2>2. /\ mirror' \in [Markets -> FileStates] /\ mirror'[j.market] # Absent
          /\ \A i \in busy \ {j} : mirror'[i.market] = mirror[i.market]
          /\ \A m \in Markets : mirror[m] # Absent => mirror'[m] # Absent
      BY <1>0, <1>3, <1>4, <2>1
    <2>3. JobsOnFile'
      BY <1>5, <2>1, <2>2 DEF Through
    <2>4. \A i \in DOMAIN ended : mirror'[ended[i].market] # Absent
      BY <1>0, <1>3, <2>1, <2>2 DEF CameOnFile
    <2>5. CameOnFile'
      BY <1>6, <2>1, <2>2, <2>4
    <2> QED BY <1>0, <1>2, <2>1, <2>2, <2>3, <2>5
  <1> QED BY <1>8, <1>9, <1>10, <1>11, <1>12, <1>13, <1>14, <1>15, <1>16 DEF JobMoves
\* So does every step.
LEMMA FilesKept ==
  ASSUME WalkForwardAssumptions, WalkInv, Next
  PROVE  FileInv'
  <1>1. CASE JobMoves
    BY <1>1, FilesOfMoves
  <1>2. CASE Turns \/ Killed \/ Restart \/ Terminated
    <2> USE DEF memory, disk
    <2>0. /\ mirror \in [Markets -> FileStates] /\ temporary \in [Markets -> FileStates]
          /\ cached \in [Markets -> {Absent, Whole}] /\ JobsOnFile
          /\ phase = "prep" \/ (phase = "done" /\ opt.program = "prep") => CameOnFile
          /\ phase = "done" /\ opt.program = "prep" => warned = {}
      BY DEF WalkInv, FileInv, JobsOnFile, CameOnFile
    <2>1. UNCHANGED <<mirror, temporary, cached>>
      <3>1. Turns => UNCHANGED <<mirror, temporary, cached>>
        BY DEF Turns, ListTargets, CountErrors, SpotFails, StartFolds, RefusePortfolio, StartPortfolio,
               ReuseSamples, CollectForPortfolio, TrainFold, Collected, FitFold, EvaluatedFold, FinishFold,
               FitPortfolio, CreateSamplesFile, CreateSnapshotFile, FillSamplesFile, FillSnapshotFile,
               WriteFails, RunPortfolio
      <3>2. Killed \/ Restart \/ Terminated => UNCHANGED <<mirror, temporary, cached>>
        BY DEF Killed, Restart, Terminated, vars
      <3> QED BY <1>2, <3>1, <3>2
    <2>3. JobsOnFile'
      <3>1. UNCHANGED <<pool, phase>> \/ busy' = {}
        BY <1>2, PoolTurns
      <3> QED BY <2>0, <2>1, <3>1 DEF JobsOnFile, pool
    <2>4. ASSUME ~Terminated
          PROVE  /\ phase' = "prep" \/ (phase' = "done" /\ opt'.program = "prep") => CameOnFile'
                 /\ phase' = "done" /\ opt'.program = "prep" => warned' = {}
      <3>1. /\ phase = "prep" => opt.program = "prep"
            /\ phase \notin Ended \union {"preload", "prep"} => opt.program = "walk"
        BY DEF WalkInv, ProgramInv
      <3>2. ASSUME NEW targets \in SUBSET Markets, ListTargets(targets)
            PROVE  ended' = <<>> /\ phase' = "prep"
        BY <3>2 DEF ListTargets, Stream
      <3>3. CASE CountErrors
        BY <2>0, <2>1, <3>3 DEF CountErrors, CameOnFile, pool
      <3>4. ASSUME Turns, ~CountErrors, ~ \E targets \in SUBSET Markets : ListTargets(targets)
            PROVE  phase' # "prep" /\ (phase' = "done" => opt'.program = "walk")
        <4>1. CASE FinishFold \/ RunPortfolio
          BY <3>1, <4>1 DEF FinishFold, RunPortfolio, Ended
        <4>2. CASE ~(FinishFold \/ RunPortfolio)
          BY <3>4, <4>2 DEF Turns, SpotFails, StartFolds, RefusePortfolio, StartPortfolio,
                 ReuseSamples, CollectForPortfolio, TrainFold, Collected, FitFold, EvaluatedFold, Stream,
                 FitPortfolio, CreateSamplesFile, CreateSnapshotFile, FillSamplesFile, FillSnapshotFile,
                 WriteFails
        <4> QED BY <4>1, <4>2
      <3>5. CASE Killed \/ Restart
        BY <3>5 DEF Killed, Restart
      <3>6. ended' = <<>> => CameOnFile'
        BY DEF CameOnFile
      <3> QED BY <1>2, <2>4, <3>2, <3>3, <3>4, <3>5, <3>6
    <2>5. CASE Terminated
      <3>1. UNCHANGED <<phase, pool, opt, warned>>
        BY <2>5 DEF Terminated, vars
      <3> QED BY <2>0, <2>1, <3>1 DEF FileInv, JobsOnFile, CameOnFile, pool
    <2> QED BY <2>0, <2>1, <2>3, <2>4, <2>5 DEF FileInv, JobsOnFile, CameOnFile
  <1> QED BY <1>1, <1>2, NextTurns
\* The markets that came in, in their order.
LEMMA CameInOrder ==
  ASSUME NumMarkets \in Nat, PoolInv
  PROVE  LET n == Cardinality(Came)
             s == Sorted(Came, <)
         IN  /\ n \in Nat /\ s \in [1 .. n -> Came] /\ Came \in SUBSET Markets
             /\ \A i, j \in 1 .. n : i < j => s[i] < s[j]
  <1>1. IsFiniteSet(Markets) /\ Markets \in SUBSET Int
    BY ONLY NumMarkets \in Nat, FS_Interval DEF Markets
  <1>2. Came \in SUBSET Markets
    <2>1. ended \in Seq([market : Markets, whole : {TRUE}])
      BY DEF PoolInv, PoolTypes
    <2> DEFINE T == [market : Markets, whole : {TRUE}]
    <2>2. ended \in Seq(T)
      BY <2>1
    <2> HIDE DEF T
    <2>3. \A i \in DOMAIN ended : ended[i] \in T
      BY ONLY <2>2
    <2> QED BY <2>3 DEF T, Came
  <1>3. IsFiniteSet(Came) /\ Came \in SUBSET Int
    BY ONLY <1>1, <1>2, FS_Subset
  <1> QED BY ONLY <1>2, <1>3, AscendingOrder

\* What came can be listed in order.
LEMMA CameListed ==
  ASSUME NumMarkets \in Nat, PoolInv
  PROVE  Sorted(Came, <) \in Seq(Markets)
  <1> DEFINE n == Cardinality(Came)
             s == Sorted(Came, <)
  <1>1. n \in Nat /\ s \in [1 .. n -> Came] /\ Came \in SUBSET Markets
    BY CameInOrder
  <1> HIDE DEF n, s
  <1>2. s \in [1 .. n -> Markets] /\ n \in Nat
    BY ONLY <1>1
  <1>3. s \in Seq(Markets)
    BY ONLY <1>2
  <1> QED BY <1>3 DEF s

\* The results of a window, one for each tape, by the closes of the markets.
LEMMA ByCloseFacts ==
  ASSUME WalkForwardAssumptions, PoolInv
  PROVE  /\ ByClose \in Seq(Markets) /\ DOMAIN ByClose = 1 .. Len(ended)
         /\ \A i, j \in DOMAIN ByClose : i < j => ByClose[i] # ByClose[j] /\ Close[ByClose[i]] <= Close[ByClose[j]]
         /\ {ByClose[i] : i \in DOMAIN ByClose} = Came
  <1> DEFINE n == Len(ended)
             D == DOMAIN ended
             close(i) == Close[ended[i].market]
             Precedes(i, j) == close(i) < close(j) \/ (close(i) = close(j) /\ i < j)
             R == {p \in D \X D : Precedes(p[1], p[2])}
             Ordered(s) == s \in [1 .. Cardinality(D) -> D] /\ \A i, j \in DOMAIN s : i < j => Precedes(s[i], s[j])
             order == CHOOSE s : Ordered(s)
  <1>1. n \in Nat /\ D = 1 .. n /\ \A i \in D : ended[i].market \in Markets
    <2>1. ended \in Seq([market : Markets, whole : {TRUE}])
      BY DEF PoolInv, PoolTypes
    <2> DEFINE T == [market : Markets, whole : {TRUE}]
    <2>2. ended \in Seq(T)
      BY <2>1
    <2> HIDE DEF T
    <2>3. n \in Nat /\ D = 1 .. n /\ \A i \in DOMAIN ended : ended[i] \in T
      BY ONLY <2>2
    <2> QED BY <2>3 DEF T
  <1>2. \A i, k \in D : i # k => ended[i].market # ended[k].market
    BY DEF PoolInv, OneHome
  <1>3. \A i \in D : close(i) \in Int
    BY <1>1 DEF WalkForwardAssumptions, Markets
  <1>4. ByClose = [k \in DOMAIN order |-> ended[order[k]].market]
    BY DEF ByClose, Sorted
  <1>5. IsFiniteSet(D) /\ Cardinality(D) = n
    <2>1. IsFiniteSet(1 .. n) /\ Cardinality(1 .. n) = IF 1 > n THEN 0 ELSE n - 1 + 1
      BY <1>1, FS_Interval
    <2>2. Cardinality(1 .. n) = n
      <3> HIDE DEF n
      <3> QED BY <1>1, <2>1
    <2> QED BY <1>1, <2>1, <2>2
  <1> HIDE DEF n, D, close
  <1>6. D \in SUBSET Int
    BY <1>1
  <1>7. \A i, j \in D : Precedes(i, j) <=> <<i, j>> \in R
    OBVIOUS
  <1>8. StrictOrder(R, D)
    <2>1. \A a, b \in D : a # b => Precedes(a, b) \/ Precedes(b, a)
      BY <1>3, <1>6
    <2>2. \A a \in D : ~Precedes(a, a)
      BY <1>3, <1>6
    <2>3. \A a, b, c \in D : Precedes(a, b) /\ Precedes(b, c) => Precedes(a, c)
      BY <1>3, <1>6
    <2> HIDE DEF R, Precedes
    <2> QED BY <1>7, <2>1, <2>2, <2>3 DEF StrictOrder
  <1>9. \A s : Ordered(s) <=> ListsInOrder(s, D, R)
    <2> HIDE DEF R, Precedes
    <2> QED BY <1>7 DEF ListsInOrder
  <1> HIDE DEF R, Ordered
  <1>10. Ordered(order)
    <2>1. \E s : ListsInOrder(s, D, R)
      BY ONLY <1>5, <1>8, SortedExists
    <2> QED BY <1>9, <2>1
  <1>11. ListsInOrder(order, D, R)
    BY <1>9, <1>10
  <1>12. /\ order \in [1 .. n -> D]
         /\ \A i, j \in 1 .. n : i < j => Precedes(order[i], order[j])
    BY <1>5, <1>10 DEF Ordered
  <1>13. /\ \A x \in D : \E i \in 1 .. n : order[i] = x
         /\ \A i, j \in 1 .. n : i # j => order[i] # order[j]
    <2> HIDE DEF order
    <2>1. /\ \A x \in D : \E i \in 1 .. Cardinality(D) : order[i] = x
          /\ \A i, j \in 1 .. Cardinality(D) : i # j => order[i] # order[j]
      BY ONLY <1>5, <1>8, <1>11, ListedOnce
    <2> QED BY ONLY <1>5, <2>1
  <1> HIDE DEF order
  <1>14. /\ DOMAIN ByClose = 1 .. n
         /\ \A i \in 1 .. n : ByClose[i] = ended[order[i]].market /\ order[i] \in D
    BY <1>4, <1>12
  <1>15. ByClose \in Seq(Markets)
    <2>1. \A i \in 1 .. n : ended[order[i]].market \in Markets
      BY <1>1, <1>14
    <2>2. ByClose = [k \in 1 .. n |-> ended[order[k]].market]
      BY <1>4, <1>12
    <2>3. ByClose \in [1 .. n -> Markets]
      BY ONLY <2>1, <2>2
    <2> QED BY ONLY <1>1, <2>3
  <1>16. ASSUME NEW i \in 1 .. n, NEW j \in 1 .. n, i < j
         PROVE  ByClose[i] # ByClose[j] /\ Close[ByClose[i]] <= Close[ByClose[j]]
    <2>1. order[i] \in D /\ order[j] \in D /\ order[i] # order[j] /\ Precedes(order[i], order[j])
      BY <1>1, <1>12, <1>13, <1>16
    <2>2. close(order[i]) <= close(order[j])
      BY <1>3, <2>1
    <2>3. Close[ByClose[i]] = close(order[i]) /\ Close[ByClose[j]] = close(order[j])
      BY <1>14 DEF close
    <2>4. ByClose[i] # ByClose[j]
      BY <1>2, <1>14, <2>1
    <2> QED BY <2>2, <2>3, <2>4
  <1>17. {ByClose[i] : i \in DOMAIN ByClose} = Came
    <2>1. Came = {ended[i].market : i \in D}
      BY DEF Came, D
    <2> QED BY <1>13, <1>14, <2>1
  <1> QED BY <1>14, <1>15, <1>16, <1>17 DEF n
\* Every step keeps the types of the memory.
LEMMA MemoryKept ==
  ASSUME WalkForwardAssumptions, WalkInv, Next
  PROVE  MemoryTypes'
  <1> USE DEF memory, disk
  <1> DEFINE ResultType == [market : Markets, learned : SUBSET Markets]
  <1>0. NumMarkets \in Nat /\ PoolInv
    BY DEF WalkForwardAssumptions, WalkInv
  <1>1. /\ warned \in SUBSET Markets /\ learned \in SUBSET Markets
        /\ loadedUntil \in 0 .. NumMarkets
        /\ samples \in Seq(Markets)
        /\ results \in Seq(ResultType)
        /\ samplesFile \in [state : FileStates, of : Seq(Markets)]
        /\ snapshotFile \in [state : FileStates, of : SUBSET Markets]
    BY DEF WalkInv, MemoryTypes
  <1> HIDE DEF ResultType
  <1>2. ASSUME warned' \in SUBSET Markets, learned' \in SUBSET Markets, loadedUntil' \in 0 .. NumMarkets,
               samples' \in Seq(Markets), results' \in Seq(ResultType),
               samplesFile' \in [state : FileStates, of : Seq(Markets)],
               snapshotFile' \in [state : FileStates, of : SUBSET Markets]
        PROVE  MemoryTypes'
    BY <1>2 DEF MemoryTypes, ResultType
  <1>3. CASE JobMoves
    <2>1. \A j \in busy : j.market \in Markets
      BY <1>0 DEF PoolInv, PoolTypes
    <2>2. UNCHANGED <<memory, samplesFile, snapshotFile>>
      BY <1>3, KindsOfMove
    <2>3. warned' \in SUBSET Markets
      <3>1. warned' = warned \/ \E j \in busy : warned' = warned \union {j.market}
        <4>1. ASSUME NEW j \in busy, warned' = IF phase \in {"prep", "replay"} THEN warned \union {j.market} ELSE warned
              PROVE  warned' = warned \/ warned' = warned \union {j.market}
          BY <4>1
        <4> QED BY <1>3, <4>1, KindsOfMove
      <3> QED BY <1>1, <2>1, <3>1
    <2> QED BY <1>1, <1>2, <2>2, <2>3
  <1>4. ASSUME NEW targets \in SUBSET Markets, ListTargets(targets)
        PROVE  MemoryTypes'
    BY <1>1, <1>2, <1>4 DEF ListTargets
  <1>5. CASE CountErrors \/ SpotFails \/ StartFolds \/ RefusePortfolio \/ CollectForPortfolio \/ TrainFold
             \/ EvaluatedFold \/ WriteFails
    BY <1>1, <1>2, <1>5 DEF CountErrors, SpotFails, StartFolds, RefusePortfolio, CollectForPortfolio, TrainFold,
                            EvaluatedFold, WriteFails
  <1>6. CASE StartPortfolio
    <2>1. learned' \in SUBSET Markets
      BY <1>1, <1>6 DEF StartPortfolio
    <2> QED BY <1>1, <1>2, <1>6, <2>1 DEF StartPortfolio
  <1>7. CASE ReuseSamples
    <2>1. samples' \in Seq(Markets)
      BY <1>1, <1>7 DEF ReuseSamples
    <2> QED BY <1>1, <1>2, <1>7, <2>1 DEF ReuseSamples
  <1>8. CASE Collected
    <2>1. samples' = samples \o Sorted(Came, <) /\ Sorted(Came, <) \in Seq(Markets)
      <3>1. Sorted(Came, <) \in Seq(Markets)
        BY <1>0, CameListed
      <3> QED BY <1>8, <3>1 DEF Collected
    <2> DEFINE came == Sorted(Came, <)
    <2>2. samples' = samples \o came /\ came \in Seq(Markets)
      BY <2>1
    <2> HIDE DEF came
    <2>3. samples' \in Seq(Markets)
      BY <1>1, <2>2
    <2>4. loadedUntil' \in 0 .. NumMarkets
      <3>1. CASE opt.portfolio
        BY <1>1, <1>8, <3>1 DEF Collected, LoadedAfter
      <3>2. CASE ~opt.portfolio
        <4>1. InFold
          BY <1>8, <3>2 DEF Collected, InFold, Folded, WalkInv, ProgramInv, Pooled, Ended
        <4>2. Window \in WindowSet
          BY <4>1, WindowNow
        <4> QED BY <1>8, <3>2, <4>2 DEF Collected, LoadedAfter, WindowSet
      <3> QED BY <3>1, <3>2
    <2>5. UNCHANGED <<warned, learned, results, samplesFile, snapshotFile>>
      BY <1>8 DEF Collected
    <2> QED BY <1>1, <1>2, <2>3, <2>4, <2>5
  <1>9. \A i \in DOMAIN samples : samples[i] \in Markets
    BY <1>1
  <1>10. CASE FitFold
    <2>1. learned' \in SUBSET Markets
      BY <1>9, <1>10 DEF FitFold, ToSet
    <2> QED BY <1>1, <1>2, <1>10, <2>1 DEF FitFold
  <1>11. CASE FinishFold
    <2> DEFINE got == [i \in DOMAIN ByClose |-> Result(ByClose[i])]
    <2>1. ByClose \in Seq(Markets)
      BY <1>0, ByCloseFacts
    <2>2. results' = results \o got
      BY <1>11 DEF FinishFold
    <2>3. \A i \in DOMAIN ByClose : Result(ByClose[i]) \in ResultType
      BY <1>1, <2>1 DEF Result, ResultType
    <2>4. Len(ByClose) \in Nat /\ DOMAIN ByClose = 1 .. Len(ByClose)
      BY <2>1
    <2>5. got \in Seq(ResultType)
      <3>1. got \in [1 .. Len(ByClose) -> ResultType]
        BY <2>3, <2>4
      <3> HIDE DEF got
      <3> QED BY <2>4, <3>1
    <2> HIDE DEF got
    <2>6. results' \in Seq(ResultType)
      BY <1>1, <2>2, <2>5
    <2> QED BY <1>1, <1>2, <1>11, <2>6 DEF FinishFold
  <1>12. ASSUME NEW selected \in BOOLEAN, FitPortfolio(selected)
         PROVE  MemoryTypes'
    <2>1. learned' \in SUBSET Markets
      <3>1. CASE selected
        <4> DEFINE n == Len(samples)
                   at == SplitAt(n)
        <4>1. n \in Nat /\ n > 1
          <5>1. samples \in Seq(Markets) /\ Len(samples) > 1
            BY <1>1, <1>12, <3>1 DEF FitPortfolio
          <5> QED BY ONLY <5>1
        <4>2. at \in 1 .. n
          <5> HIDE DEF n
          <5> QED BY <4>1 DEF SplitAt
        <4>3. learned' = ToSet(SubSeq(samples, 1, at))
          BY <1>12, <3>1 DEF FitPortfolio
        <4> HIDE DEF at
        <4> DEFINE head == SubSeq(samples, 1, at)
        <4>4. head \in Seq(Markets)
          <5>1. samples \in Seq(Markets) /\ at \in 1 .. Len(samples)
            BY <1>1, <4>2
          <5> QED BY ONLY <5>1
        <4>5. learned' = ToSet(head)
          BY <4>3
        <4> HIDE DEF head
        <4>6. \A i \in DOMAIN head : head[i] \in Markets
          BY ONLY <4>4
        <4> QED BY ONLY <4>5, <4>6 DEF ToSet
      <3>2. CASE ~selected
        BY <1>12, <3>2 DEF FitPortfolio
      <3> QED BY <3>1, <3>2
    <2> QED BY <1>1, <1>2, <1>12, <2>1 DEF FitPortfolio
  <1>13. CASE CreateSamplesFile \/ CreateSnapshotFile
    <2>1. [state |-> Part, of |-> <<>>] \in [state : FileStates, of : Seq(Markets)]
      BY DEF FileStates
    <2>2. [state |-> Part, of |-> {}] \in [state : FileStates, of : SUBSET Markets]
      BY DEF FileStates
    <2> QED BY <1>1, <1>2, <1>13, <2>1, <2>2 DEF CreateSamplesFile, CreateSnapshotFile
  <1>14. ASSUME NEW flushed \in BOOLEAN, FillSamplesFile(flushed) \/ FillSnapshotFile(flushed)
         PROVE  MemoryTypes'
    <2>1. [state |-> Whole, of |-> samples] \in [state : FileStates, of : Seq(Markets)]
      BY <1>1 DEF FileStates
    <2>2. [state |-> Whole, of |-> learned] \in [state : FileStates, of : SUBSET Markets]
      BY <1>1 DEF FileStates
    <2> QED BY <1>1, <1>2, <1>14, <2>1, <2>2 DEF FillSamplesFile, FillSnapshotFile
  <1>15. CASE RunPortfolio
    <2> DEFINE jobs == Jobs(opt.minTrain, NumMarkets)
               got == [i \in DOMAIN jobs |-> Result(opt.minTrain + i)]
    <2>1. opt.minTrain \in Nat
      BY DEF WalkForwardAssumptions, WalkInv, ProgramInv
    <2>2. DOMAIN jobs = 1 .. NumMarkets - opt.minTrain
      BY DEF Jobs
    <2>3. \A i \in 1 .. NumMarkets - opt.minTrain : opt.minTrain + i \in Markets
      <3> DEFINE least == opt.minTrain
      <3>1. least \in Nat /\ NumMarkets \in Nat
        BY <1>0, <2>1
      <3> HIDE DEF least
      <3>2. \A i \in 1 .. NumMarkets - least : least + i \in 1 .. NumMarkets
        BY ONLY <3>1
      <3> QED BY <3>2 DEF least, Markets
    <2>4. \A i \in 1 .. NumMarkets - opt.minTrain : Result(opt.minTrain + i) \in ResultType
      BY <1>1, <2>3 DEF Result, ResultType
    <2>5. got \in [1 .. NumMarkets - opt.minTrain -> ResultType] /\ results' = got
      BY <1>15, <2>2, <2>4 DEF RunPortfolio
    <2> HIDE DEF got
    <2>6. results' \in Seq(ResultType)
      <3>1. CASE NumMarkets >= opt.minTrain
        BY <1>0, <2>1, <2>5, <3>1
      <3>2. CASE NumMarkets < opt.minTrain
        <4>1. 1 .. NumMarkets - opt.minTrain = 1 .. 0
          BY <1>0, <2>1, <3>2
        <4>2. results' \in [1 .. 0 -> ResultType]
          BY ONLY <2>5, <4>1
        <4> QED BY ONLY <4>2
      <3> QED BY <1>0, <2>1, <3>1, <3>2
    <2> QED BY <1>1, <1>2, <1>15, <2>6 DEF RunPortfolio
  <1>16. CASE Killed \/ Restart
    <2>1. UNCHANGED <<samplesFile, snapshotFile>>
      BY <1>16 DEF Killed, Restart
    <2>2. warned' = {} /\ learned' = {} /\ loadedUntil' = 0 /\ samples' = <<>> /\ results' = <<>>
      BY <1>16 DEF Killed, Restart, Forget
    <2>3. 0 \in 0 .. NumMarkets
      BY <1>0
    <2> QED BY <1>1, <1>2, <2>1, <2>2, <2>3
  <1>17. CASE Terminated
    BY <1>1, <1>2, <1>17 DEF Terminated, vars
  <1> QED BY <1>3, <1>4, <1>5, <1>6, <1>7, <1>8, <1>10, <1>11, <1>12, <1>13, <1>14, <1>15, <1>16, <1>17,
             NextTurns DEF Turns
\* A move keeps the stream, or takes a market off it that gets a warning.
LEMMA StreamMoves ==
  ASSUME WalkInv, JobMoves
  PROVE  \/ Streamed' = Streamed /\ warned' = warned
         \/ \E m \in Streamed : /\ Streamed' = Streamed \ {m}
                                /\ warned' = IF phase \in {"prep", "replay"} THEN warned \union {m} ELSE warned
  <1>1. PoolInv
    BY DEF WalkInv
  <1>2. CASE (BeginsStored \/ Begins) /\ warned' = warned
    BY <1>1, <1>2, BeginsKeepsHomes
  <1>3. ASSUME NEW j \in busy, (\E s \in Steps : Advance(j, s)) \/ Through(j), warned' = warned
        PROVE  Streamed' = Streamed
    BY <1>1, <1>3, AdvanceKeepsHomes, ThroughKeepsHomes
  <1>4. ASSUME NEW j \in busy, Dropped(j)
        PROVE  Streamed' = Streamed \ {j.market} /\ j.market \in Streamed
    BY <1>1, <1>4, DroppedLeaves
  <1> QED BY <1>2, <1>3, <1>4, KindsOfMove

\* A later test window lets training end later.
LEMMA TrainEndGrows ==
  ASSUME NEW a \in Nat, NEW b \in Nat, a <= b, NEW p \in Nat
  PROVE  TrainEnd(a, p) <= TrainEnd(b, p) /\ TrainEnd(a, p) \in Nat
  BY DEF TrainEnd

\* Any window of a run of folds.
LEMMA WindowAt ==
  ASSUME WalkForwardAssumptions, opt \in Options, ~Refused(NumMarkets, opt), NEW k \in 1 .. Len(plan)
  PROVE  /\ plan[k].trainEnd \in 0 .. NumMarkets /\ plan[k].testStart \in 0 .. NumMarkets
         /\ plan[k].testEnd \in 0 .. NumMarkets /\ plan[k].trainEnd = TrainEnd(plan[k].testStart, opt.purge)
         /\ opt.purge \in Nat
         /\ \A l \in 1 .. Len(plan) : k < l =>
              /\ plan[k].testEnd <= plan[l].testStart /\ plan[k].testStart <= plan[l].testStart
              /\ plan[k].trainEnd <= plan[l].trainEnd
  <1>0. NumMarkets \in Nat /\ opt.purge \in Nat
    BY DEF WalkForwardAssumptions
  <1>1. InARow(plan, opt.purge)
    BY PlanNow
  <1>2. \A l \in 1 .. Len(plan) : plan[l] \in WindowSet
    <2>1. plan \in Seq(WindowSet)
      BY <1>1 DEF InARow
    <2> QED BY ONLY <2>1
  <1>3. \A l \in 1 .. Len(plan) :
          /\ plan[l].trainEnd \in 0 .. NumMarkets /\ plan[l].testStart \in 0 .. NumMarkets
          /\ plan[l].testEnd \in 0 .. NumMarkets
    BY <1>2 DEF WindowSet
  <1>4. \A l \in 1 .. Len(plan) : plan[l].trainEnd = TrainEnd(plan[l].testStart, opt.purge)
    BY <1>1 DEF InARow
  <1>5. ASSUME NEW l \in 1 .. Len(plan), k < l
        PROVE  /\ plan[k].testEnd <= plan[l].testStart /\ plan[k].testStart <= plan[l].testStart
               /\ plan[k].trainEnd <= plan[l].trainEnd
    <2>1. plan[k].testEnd <= plan[l].testStart /\ plan[k].testStart <= plan[l].testStart
      BY <1>1, <1>5 DEF InARow
    <2>2. plan[k].testStart \in Nat /\ plan[l].testStart \in Nat
      BY <1>0, <1>3
    <2>3. plan[k].trainEnd <= plan[l].trainEnd
      <3> DEFINE a == plan[k].testStart
                 b == plan[l].testStart
      <3>1. a \in Nat /\ b \in Nat /\ a <= b /\ opt.purge \in Nat
        BY <1>0, <2>1, <2>2
      <3>2. plan[k].trainEnd = TrainEnd(a, opt.purge) /\ plan[l].trainEnd = TrainEnd(b, opt.purge)
        BY <1>4
      <3> HIDE DEF a, b
      <3>3. TrainEnd(a, opt.purge) <= TrainEnd(b, opt.purge)
        BY ONLY <3>1, TrainEndGrows
      <3> QED BY <3>2, <3>3
    <2> QED BY <2>1, <2>3
  <1> QED BY <1>0, <1>3, <1>4, <1>5

\* Samples of later markets are added to those there are.
LEMMA SamplesAdded ==
  ASSUME NumMarkets \in Nat, PoolInv, NEW s \in Seq(Markets), NEW least \in Nat, NEW last \in Nat, least <= last,
         \A i, j \in DOMAIN s : i < j => s[i] < s[j], \A i \in DOMAIN s : s[i] <= least,
         Came \subseteq least + 1 .. last
  PROVE  LET t == s \o Sorted(Came, <)
         IN  /\ \A i, j \in DOMAIN t : i < j => t[i] < t[j]
             /\ \A i \in DOMAIN t : t[i] <= last
  <1> DEFINE n == Cardinality(Came)
             c == Sorted(Came, <)
             t == s \o c
  <1>1. n \in Nat /\ c \in [1 .. n -> Came] /\ Came \in SUBSET Markets /\ \A i, j \in 1 .. n : i < j => c[i] < c[j]
    BY CameInOrder
  <1> HIDE DEF n, c
  <1>2. c \in Seq(Markets) /\ Len(c) = n
    <2>1. c \in [1 .. n -> Markets] /\ n \in Nat
      BY ONLY <1>1
    <2> QED BY ONLY <2>1
  <1>3. Markets \subseteq Int
    BY ONLY NumMarkets \in Nat DEF Markets
  <1>4. \A i \in 1 .. n : c[i] \in least + 1 .. last /\ c[i] \in Int
    <2>1. \A i \in 1 .. n : c[i] \in Came
      BY ONLY <1>1
    <2> QED BY <1>1, <1>3, <2>1
  <1>5. Len(s) \in Nat /\ DOMAIN s = 1 .. Len(s) /\ \A i \in 1 .. Len(s) : s[i] \in Int
    <2>1. s \in Seq(Markets)
      OBVIOUS
    <2>2. Len(s) \in Nat /\ DOMAIN s = 1 .. Len(s) /\ \A i \in 1 .. Len(s) : s[i] \in Markets
      BY ONLY <2>1
    <2> QED BY ONLY <1>3, <2>2
  <1>6. DOMAIN t = 1 .. Len(s) + n
    <2>1. s \in Seq(Markets)
      OBVIOUS
    <2>2. Len(t) = Len(s) + Len(c) /\ t \in Seq(Markets)
      BY ONLY <1>2, <2>1
    <2> HIDE DEF t
    <2>3. DOMAIN t = 1 .. Len(t)
      BY ONLY <2>2
    <2> QED BY <1>2, <2>2, <2>3
  <1>7. \A i \in 1 .. Len(s) : t[i] = s[i]
    BY <1>2, <1>5
  <1>8. \A i \in 1 .. Len(s) + n : i > Len(s) => t[i] = c[i - Len(s)] /\ i - Len(s) \in 1 .. n
    BY <1>1, <1>2, <1>5
  <1> HIDE DEF t
  <1>9. ASSUME NEW i \in DOMAIN t
        PROVE  t[i] <= last /\ t[i] \in Int /\ (i <= Len(s) => t[i] <= least)
    <2>1. CASE i <= Len(s)
      <3>1. i \in 1 .. Len(s)
        BY <1>5, <1>6, <2>1
      <3>2. t[i] = s[i] /\ s[i] <= least /\ s[i] \in Int
        BY <1>5, <1>7, <3>1
      <3> QED BY <3>2
    <2>2. CASE i > Len(s)
      <3>1. t[i] = c[i - Len(s)] /\ i - Len(s) \in 1 .. n
        BY <1>6, <1>8, <2>2
      <3>2. t[i] \in least + 1 .. last
        BY <1>4, <3>1
      <3> QED BY <1>5, <1>6, <2>2, <3>2
    <2> QED BY <1>1, <1>5, <1>6, <2>1, <2>2
  <1>10. ASSUME NEW i \in DOMAIN t, NEW j \in DOMAIN t, i < j
         PROVE  t[i] < t[j]
    <2>0. i \in Int /\ j \in Int /\ i >= 1 /\ j >= 1
      BY <1>1, <1>5, <1>6
    <2>1. CASE j <= Len(s)
      <3>1. i \in 1 .. Len(s) /\ j \in 1 .. Len(s)
        BY <1>5, <1>10, <2>0, <2>1
      <3> QED BY <1>5, <1>7, <1>10, <3>1
    <2>2. CASE i <= Len(s) /\ j > Len(s)
      <3>1. t[i] <= least /\ t[i] \in Int
        BY <1>9, <2>2
      <3>2. t[j] = c[j - Len(s)] /\ j - Len(s) \in 1 .. n
        BY <1>6, <1>8, <2>2
      <3>3. t[j] \in least + 1 .. last
        BY <1>4, <3>2
      <3> QED BY <3>1, <3>3
    <2>3. CASE i > Len(s) /\ j > Len(s)
      <3>1. /\ t[i] = c[i - Len(s)] /\ i - Len(s) \in 1 .. n
            /\ t[j] = c[j - Len(s)] /\ j - Len(s) \in 1 .. n
        BY <1>6, <1>8, <2>3
      <3>2. i - Len(s) < j - Len(s)
        BY <1>5, <1>10, <2>0
      <3> QED BY <1>1, <3>1, <3>2
    <2> QED BY <1>5, <1>10, <2>0, <2>1, <2>2, <2>3
  <1> QED BY <1>9, <1>10 DEF t, c
\* Every step keeps the samples before the purge of their fold.
LEMMA SamplesKept ==
  ASSUME WalkForwardAssumptions, WalkInv, Next
  PROVE  SampleInv'
  <1> USE DEF memory, disk, pool
  <1> DEFINE Ascends == \A i, j \in DOMAIN samples : i < j => samples[i] < samples[j]
             Loaded == \A i \in DOMAIN samples : samples[i] <= loadedUntil
  <1>0. /\ Folded => Ascends /\ Loaded
        /\ Folded /\ phase = "preload" => loadedUntil = 0
        /\ InFold => loadedUntil <= Window.trainEnd
        /\ InFold /\ phase = "collect" => Streamed \subseteq loadedUntil + 1 .. Window.trainEnd
        /\ phase \in {"oos", "replay"} => learned \subseteq 1 .. Window.trainEnd
    BY DEF WalkInv, SampleInv
  <1>1. /\ opt \in Options /\ NumMarkets \in Nat /\ PoolInv /\ loadedUntil \in 0 .. NumMarkets
        /\ samples \in Seq(Markets) /\ phase \in Phases
        /\ InFold => ~Refused(NumMarkets, opt) /\ fold <= Len(plan)
        /\ phase = "prep" => opt.program = "prep"
        /\ phase \notin Ended \union {"preload", "prep"} => opt.program = "walk"
        /\ phase \in {"train", "oos", "replay"} => ~opt.portfolio
        /\ phase \in {"portfolio", "create samples", "fill samples", "create snapshot", "fill snapshot"}
             => opt.portfolio
    BY DEF WalkInv, ProgramInv, MemoryTypes, WalkForwardAssumptions
  <1>1a. NumMarkets \in Nat /\ loadedUntil \in Nat /\ loadedUntil <= NumMarkets
    <2>1. NumMarkets \in Nat /\ loadedUntil \in 0 .. NumMarkets
      BY <1>1
    <2> QED BY ONLY <2>1
  <1>1b. \A i \in DOMAIN samples : samples[i] \in Markets
    <2>1. samples \in Seq(Markets)
      BY <1>1
    <2> QED BY ONLY <2>1
  <1>1c. InFold => Window.trainEnd \in Nat /\ loadedUntil <= Window.trainEnd
    <2>1. InFold => Window \in WindowSet
      BY WindowNow
    <2>2. InFold => Window.trainEnd \in 0 .. NumMarkets
      BY <2>1 DEF WindowSet
    <2> QED BY <1>0, <1>1a, <2>2
  <1>2. ASSUME opt' = opt
        PROVE  Folded' = Folded
    BY <1>2 DEF Folded
  <1>3. ASSUME UNCHANGED <<opt, fold, samples, loadedUntil>>,
               phase' \notin {"preload", "collect", "oos", "replay"}, InFold' => InFold
        PROVE  SampleInv'
    BY <1>0, <1>2, <1>3, SamePlan DEF SampleInv, Folded, InFold
  <1>4. CASE JobMoves
    <2>1. UNCHANGED <<opt, phase, fold, loadedUntil, samples, learned>>
      BY <1>4, KindsOfMove
    <2>2. Streamed' \subseteq Streamed
      BY <1>4, StreamMoves
    <2>3. Window' = Window
      BY <2>1, SamePlan
    <2> QED BY <1>0, <2>1, <2>2, <2>3 DEF SampleInv, Folded, InFold
  <1>5. ASSUME NEW targets \in SUBSET Markets, ListTargets(targets)
        PROVE  SampleInv'
    <2>1. phase' = "prep" /\ UNCHANGED <<opt, fold, samples, loadedUntil>>
      BY <1>5 DEF ListTargets, Stream
    <2>2. ~InFold'
      BY <2>1 DEF InFold
    <2> QED BY <1>3, <2>1, <2>2
  <1>6. CASE CountErrors \/ SpotFails \/ RefusePortfolio \/ WriteFails \/ RunPortfolio
    <2>1. phase' \in {"done", "error"} /\ UNCHANGED <<opt, fold, samples, loadedUntil>>
      BY <1>6 DEF CountErrors, SpotFails, RefusePortfolio, WriteFails, RunPortfolio
    <2>2. ~InFold'
      BY <2>1 DEF InFold
    <2> QED BY <1>3, <2>1, <2>2
  <1>7. CASE StartFolds
    <2>1. /\ phase = "preload" /\ Folded /\ UNCHANGED <<opt, fold, samples, loadedUntil>>
          /\ phase' = IF Refused(NumMarkets, opt) THEN "error" ELSE "train"
      BY <1>7 DEF StartFolds, Folded
    <2>2. loadedUntil = 0 /\ fold = 1
      BY <1>0, <2>1 DEF WalkInv, AccountInv
    <2>3. CASE Refused(NumMarkets, opt)
      BY <1>3, <2>1, <2>3 DEF InFold
    <2>4. CASE ~Refused(NumMarkets, opt)
      <3>1. Len(plan) \in Nat /\ Len(plan) >= 1
        <4>1. plan \in Seq(WindowSet) /\ Len(plan) >= 1
          BY <1>1, <2>4, PlanNow
        <4> QED BY ONLY <4>1
      <3>2. fold \in 1 .. Len(plan)
        BY <2>2, <3>1
      <3>3. plan[fold].trainEnd \in 0 .. NumMarkets
        BY <1>1, <2>4, <3>2, WindowAt
      <3>4. loadedUntil <= Window.trainEnd
        BY <1>1a, <2>2, <3>3 DEF Window
      <3>5. Window' = Window
        BY <2>1, SamePlan
      <3> QED BY <1>0, <2>1, <2>4, <3>4, <3>5 DEF SampleInv, Folded, InFold
    <2> QED BY <2>3, <2>4
  <1>8. ASSUME opt' = opt, ~Folded, phase' \notin {"oos", "replay"}
        PROVE  SampleInv'
    BY <1>2, <1>8 DEF SampleInv, InFold
  <1>9. CASE StartPortfolio \/ ReuseSamples \/ CollectForPortfolio
    BY <1>8, <1>9 DEF StartPortfolio, ReuseSamples, CollectForPortfolio, Preloaded, Stream, Folded
  <1>10. CASE TrainFold
    <2>1. InFold /\ Folded
      BY <1>1, <1>10 DEF TrainFold, InFold, Folded, Ended
    <2>2. UNCHANGED <<opt, fold, samples, loadedUntil, learned>>
      BY <1>10 DEF TrainFold
    <2>3. CASE phase' = "fit"
      BY <1>3, <2>1, <2>2, <2>3
    <2>4. CASE Stream(Jobs(loadedUntil, Window.trainEnd), "collect")
      <3>1. Window.trainEnd \in 0 .. NumMarkets
        BY <2>1, WindowNow DEF WindowSet
      <3>2. loadedUntil \in Nat
        BY <1>1a
      <3>3. phase' = "collect" /\ Streamed' = loadedUntil + 1 .. Window.trainEnd
        BY <1>1, <2>4, <3>1, <3>2, JobsStart
      <3>4. Window' = Window
        BY <2>2, SamePlan
      <3> QED BY <1>0, <2>1, <2>2, <3>3, <3>4 DEF SampleInv, Folded, InFold
    <2> QED BY <1>10, <2>3, <2>4 DEF TrainFold
  <1>11. CASE Collected
    <2>1. CASE opt.portfolio
      BY <1>8, <1>11, <2>1 DEF Collected, Folded
    <2>2. CASE ~opt.portfolio
      <3>1. InFold /\ Folded
        BY <1>1, <1>11, <2>2 DEF Collected, InFold, Folded, Ended
      <3>2. /\ UNCHANGED <<opt, fold, learned>> /\ phase' = "fit"
            /\ samples' = samples \o Sorted(Came, <) /\ loadedUntil' = Window.trainEnd
        BY <1>11, <2>2 DEF Collected, LoadedAfter
      <3> DEFINE last == Window.trainEnd
      <3>3. last \in Nat /\ loadedUntil \in Nat /\ loadedUntil <= last
        BY <1>1a, <1>1c, <3>1
      <3>4. Came \subseteq loadedUntil + 1 .. last
        BY <1>0, <1>11, <3>1 DEF Streamed, Collected
      <3>5. Ascends /\ Loaded
        BY <1>0, <3>1
      <3>6. LET t == samples \o Sorted(Came, <)
            IN  /\ \A i, j \in DOMAIN t : i < j => t[i] < t[j]
                /\ \A i \in DOMAIN t : t[i] <= last
        <4> HIDE DEF last
        <4> QED BY <1>1, <3>3, <3>4, <3>5, SamplesAdded
      <3>7. /\ \A i, j \in DOMAIN samples' : i < j => samples'[i] < samples'[j]
            /\ \A i \in DOMAIN samples' : samples'[i] <= loadedUntil'
        BY <3>2, <3>6
      <3>8. Window' = Window
        BY <3>2, SamePlan
      <3>9. loadedUntil' <= Window'.trainEnd
        <4>1. loadedUntil' = last /\ Window'.trainEnd = last
          BY <3>2, <3>8
        <4>2. last \in Nat
          BY <3>3
        <4> QED BY ONLY <4>1, <4>2
      <3> QED BY <3>2, <3>7, <3>9 DEF SampleInv
    <2> QED BY <2>1, <2>2
  <1>12. CASE FitFold
    <2>1. InFold /\ Folded
      BY <1>1, <1>12 DEF FitFold, InFold, Folded, Ended
    <2>2. /\ UNCHANGED <<opt, fold, samples, loadedUntil>> /\ phase' \in {"oos", "replay"}
          /\ learned' = IF FoldTrains THEN ToSet(samples) ELSE {}
      BY <1>12 DEF FitFold, Stream
    <2>3. Window.trainEnd \in Nat
      BY <2>1, WindowNow DEF WindowSet
    <2>4. \A i \in DOMAIN samples : samples[i] \in 1 .. Window.trainEnd
      <3>2. \A i \in DOMAIN samples : samples[i] <= loadedUntil
        BY <1>0, <2>1
      <3>3. loadedUntil <= Window.trainEnd
        BY <1>1c, <2>1
      <3> QED BY ONLY <1>1a, <1>1b, <2>3, <3>2, <3>3 DEF Markets
    <2>5. learned' \subseteq 1 .. Window.trainEnd
      BY <2>2, <2>4 DEF ToSet
    <2>6. Window' = Window
      BY <2>2, SamePlan
    <2> QED BY <1>0, <2>1, <2>2, <2>5, <2>6 DEF SampleInv, Folded, InFold
  <1>13. CASE EvaluatedFold
    <2>1. InFold /\ Folded
      BY <1>1, <1>13 DEF EvaluatedFold, InFold, Folded, Ended
    <2>2. UNCHANGED <<opt, fold, samples, loadedUntil, learned>> /\ phase' = "replay" /\ phase = "oos"
      BY <1>13 DEF EvaluatedFold, Stream
    <2>3. Window' = Window
      BY <2>2, SamePlan
    <2> QED BY <1>0, <2>1, <2>2, <2>3 DEF SampleInv, Folded, InFold
  <1>14. CASE FinishFold
    <2>1. InFold /\ Folded
      BY <1>1, <1>14 DEF FinishFold, InFold, Folded, Ended
    <2>2. /\ UNCHANGED <<opt, samples, loadedUntil, learned>> /\ fold' = fold + 1
          /\ phase' = IF fold = Len(plan) THEN "done" ELSE "train"
      BY <1>14 DEF FinishFold
    <2>3. plan' = plan
      BY <2>2, SamePlan
    <2>4. fold # Len(plan) => loadedUntil <= Window'.trainEnd
      <3>1. ASSUME fold # Len(plan)
            PROVE  loadedUntil <= plan[fold + 1].trainEnd
        <4>1. fold \in 1 .. Len(plan) /\ Len(plan) \in Nat /\ plan[fold] = Window
          BY <2>1, WindowNow
        <4>2. fold + 1 \in 1 .. Len(plan) /\ fold < fold + 1
          BY <3>1, <4>1
        <4>3. /\ plan[fold].trainEnd \in 0 .. NumMarkets
              /\ \A l \in 1 .. Len(plan) : fold < l => plan[fold].trainEnd <= plan[l].trainEnd
          BY <1>1, <2>1, <4>1, WindowAt
        <4>4. plan[fold + 1].trainEnd \in 0 .. NumMarkets
          BY <1>1, <2>1, <4>2, WindowAt
        <4>5. plan[fold].trainEnd <= plan[fold + 1].trainEnd
          BY <4>2, <4>3
        <4>6. loadedUntil <= plan[fold].trainEnd
          BY <1>1c, <2>1, <4>1
        <4>7. plan[fold].trainEnd \in Nat /\ plan[fold + 1].trainEnd \in Nat
          BY <1>1a, <4>3, <4>4
        <4> QED BY ONLY <1>1a, <4>5, <4>6, <4>7
      <3> QED BY <2>2, <2>3, <3>1 DEF Window
    <2> QED BY <1>0, <2>1, <2>2, <2>4 DEF SampleInv, Folded, InFold
  <1>15. ASSUME NEW b \in BOOLEAN, FitPortfolio(b) \/ FillSamplesFile(b) \/ FillSnapshotFile(b)
         PROVE  SampleInv'
    BY <1>1, <1>8, <1>15 DEF FitPortfolio, FillSamplesFile, FillSnapshotFile, Folded
  <1>16. CASE CreateSamplesFile \/ CreateSnapshotFile
    BY <1>1, <1>8, <1>16 DEF CreateSamplesFile, CreateSnapshotFile, Folded
  <1>17. CASE Killed \/ Restart
    <2>1. phase' \in {"killed", "preload"} /\ loadedUntil' = 0 /\ samples' = <<>>
      BY <1>17 DEF Killed, Restart, Forget
    <2> QED BY <2>1 DEF SampleInv, InFold
  <1>18. CASE Terminated
    <2>1. UNCHANGED <<opt, fold, phase, samples, loadedUntil, learned, pool>>
      BY <1>18 DEF Terminated, vars
    <2>2. Streamed' = Streamed /\ Window' = Window
      BY <2>1, SamePlan DEF Streamed, Came
    <2> QED BY <1>0, <2>1, <2>2 DEF SampleInv, Folded, InFold
  <1> QED BY <1>4, <1>5, <1>6, <1>7, <1>9, <1>10, <1>11, <1>12, <1>13, <1>14, <1>15, <1>16, <1>17, <1>18,
             NextTurns DEF Turns
\* What a concatenation consists of.
LEMMA ConcatFacts ==
  ASSUME NEW T, NEW s \in Seq(T), NEW t \in Seq(T)
  PROVE  /\ \A i \in DOMAIN (s \o t) :
              \/ i \in DOMAIN s /\ (s \o t)[i] = s[i] /\ i <= Len(s)
              \/ i - Len(s) \in DOMAIN t /\ (s \o t)[i] = t[i - Len(s)] /\ i > Len(s)
         /\ \A i \in DOMAIN s : i \in DOMAIN (s \o t) /\ (s \o t)[i] = s[i]
         /\ \A i \in DOMAIN t : i + Len(s) \in DOMAIN (s \o t) /\ (s \o t)[i + Len(s)] = t[i]
         /\ Len(s) \in Nat /\ DOMAIN (s \o t) \subseteq Nat
  <1> DEFINE r == s \o t
  <1>1. /\ Len(s) \in Nat /\ Len(t) \in Nat /\ DOMAIN s = 1 .. Len(s) /\ DOMAIN t = 1 .. Len(t)
        /\ r \in Seq(T) /\ Len(r) = Len(s) + Len(t)
    OBVIOUS
  <1>2. DOMAIN r = 1 .. Len(s) + Len(t)
    BY <1>1
  <1>3. \A i \in 1 .. Len(s) : r[i] = s[i]
    OBVIOUS
  <1>4. \A i \in 1 .. Len(s) + Len(t) : i > Len(s) => r[i] = t[i - Len(s)]
    BY <1>1
  <1> HIDE DEF r
  <1>5. ASSUME NEW i \in DOMAIN r
        PROVE  \/ i \in DOMAIN s /\ r[i] = s[i] /\ i <= Len(s)
               \/ i - Len(s) \in DOMAIN t /\ r[i] = t[i - Len(s)] /\ i > Len(s)
    BY <1>1, <1>2, <1>3, <1>4
  <1>6. ASSUME NEW i \in DOMAIN s
        PROVE  i \in DOMAIN r /\ r[i] = s[i]
    BY <1>1, <1>2, <1>3
  <1>7. ASSUME NEW i \in DOMAIN t
        PROVE  i + Len(s) \in DOMAIN r /\ r[i + Len(s)] = t[i]
    <2>1. i \in Nat /\ i + Len(s) \in 1 .. Len(s) + Len(t) /\ i + Len(s) > Len(s) /\ (i + Len(s)) - Len(s) = i
      BY <1>1
    <2> QED BY <1>2, <1>4, <2>1
  <1> QED BY <1>1, <1>2, <1>5, <1>6, <1>7 DEF r

\* The markets before a window are none of its own.
LEMMA BeforeWindow ==
  ASSUME WalkForwardAssumptions, WalkInv, InFold
  PROVE  /\ \A m \in Before(fold), n \in Tests(Window) : m \in Nat /\ n \in Nat /\ m < n
         /\ Before(fold + 1) = Before(fold) \union Tests(Window)
         /\ Tests(Window) \subseteq Markets
  <1>0. NumMarkets \in Nat
    BY DEF WalkForwardAssumptions
  <1>1. fold \in 1 .. Len(plan) /\ Len(plan) \in Nat /\ plan[fold] = Window /\ InARow(plan, opt.purge)
    BY WindowNow
  <1>2. \A k \in 1 .. Len(plan) : plan[k].testStart \in Nat /\ plan[k].testEnd \in Nat /\ plan[k].testEnd <= NumMarkets
    <2>1. plan \in Seq(WindowSet)
      BY <1>1 DEF InARow
    <2>2. \A k \in 1 .. Len(plan) : plan[k] \in WindowSet
      BY ONLY <2>1
    <2> QED BY <1>0, <2>2 DEF WindowSet
  <1>3. ASSUME NEW m \in Before(fold), NEW n \in Tests(Window)
        PROVE  m \in Nat /\ n \in Nat /\ m < n
    <2>1. PICK i \in 1 .. fold - 1 : m \in Tests(plan[i])
      BY DEF Before
    <2>2. i \in 1 .. Len(plan) /\ i < fold
      BY <1>1
    <2>3. plan[i].testEnd <= Window.testStart
      BY <1>1, <2>2 DEF InARow
    <2>4. m \in plan[i].testStart + 1 .. plan[i].testEnd /\ n \in Window.testStart + 1 .. Window.testEnd
      BY <2>1 DEF Tests
    <2>5. plan[i].testStart \in Nat /\ plan[i].testEnd \in Nat /\ Window.testStart \in Nat /\ Window.testEnd \in Nat
      BY <1>1, <1>2, <2>2
    <2> QED BY ONLY <2>3, <2>4, <2>5
  <1>4. Before(fold + 1) = Before(fold) \union Tests(Window)
    <2>1. 1 .. (fold + 1) - 1 = (1 .. fold - 1) \union {fold}
      BY <1>1
    <2> QED BY <1>1, <2>1 DEF Before
  <1>5. Tests(Window) \subseteq Markets
    <2>1. Window.testStart \in Nat /\ Window.testEnd \in Nat /\ Window.testEnd <= NumMarkets
      BY <1>1, <1>2
    <2> QED BY ONLY <1>0, <2>1 DEF Tests, Markets
  <1> QED BY <1>3, <1>4, <1>5

\* What the end of a window adds to the results.
LEMMA WindowFinished ==
  ASSUME WalkForwardAssumptions, WalkInv, FinishFold
  PROVE  /\ \A i \in DOMAIN results' : \A m \in results'[i].learned : m + opt.purge < results'[i].market
         /\ \A i, j \in DOMAIN results' : i < j =>
              /\ results'[i].market # results'[j].market
              /\ Close[results'[i].market] <= Close[results'[j].market]
         /\ Tested' = Tested \union Came
         /\ Tested' \cap warned = {}
         /\ Tested' \union warned = Before(fold + 1)
  <1> DEFINE RT == [market : Markets, learned : SUBSET Markets]
             got == [i \in DOMAIN ByClose |-> Result(ByClose[i])]
  <1>0. /\ NumMarkets \in Nat /\ PoolInv /\ Close \in [Markets -> Markets]
        /\ \A m, n \in Markets : m <= n => Close[m] <= Close[n]
    BY DEF WalkForwardAssumptions, WalkInv
  <1>1. phase = "replay" /\ Drained /\ results' = results \o got
    BY DEF FinishFold
  <1>2. InFold /\ Folded
    BY <1>1 DEF WalkInv, ProgramInv, InFold, Folded, Ended
  <1>3. /\ \A i \in DOMAIN results : \A m \in results[i].learned : m + opt.purge < results[i].market
        /\ \A i, j \in DOMAIN results : i < j =>
             /\ results[i].market # results[j].market
             /\ Close[results[i].market] <= Close[results[j].market]
        /\ Tested \cap warned = {}
        /\ Tested \subseteq Before(fold) /\ Streamed \subseteq Tests(Window)
        /\ Tested \union warned \union Streamed = Before(fold) \union Tests(Window)
        /\ (Tested \union warned) \cap Streamed = {}
        /\ learned \subseteq 1 .. Window.trainEnd
    BY <1>1, <1>2 DEF WalkInv, AccountInv, SampleInv
  <1>4. Streamed = Came
    BY <1>1 DEF Drained, Streamed, ToSet
  <1>5. /\ ByClose \in Seq(Markets) /\ DOMAIN ByClose = 1 .. Len(ended)
        /\ \A i, j \in DOMAIN ByClose : i < j => ByClose[i] # ByClose[j] /\ Close[ByClose[i]] <= Close[ByClose[j]]
        /\ {ByClose[i] : i \in DOMAIN ByClose} = Came
    BY <1>0, ByCloseFacts
  <1>6. results \in Seq(RT) /\ learned \in SUBSET Markets
    BY DEF WalkInv, MemoryTypes
  <1>7. got \in Seq(RT) /\ DOMAIN got = DOMAIN ByClose
    <2>1. Len(ByClose) \in Nat /\ DOMAIN ByClose = 1 .. Len(ByClose) /\ \A i \in DOMAIN ByClose : ByClose[i] \in Markets
      <3>1. ByClose \in Seq(Markets)
        BY <1>5
      <3> QED BY ONLY <3>1
    <2>2. \A i \in DOMAIN ByClose : Result(ByClose[i]) \in RT
      BY <1>6, <2>1 DEF Result
    <2>3. got \in [1 .. Len(ByClose) -> RT]
      BY <2>1, <2>2
    <2> HIDE DEF got, RT
    <2> QED BY <2>1, <2>3
  <1>8. \A i \in DOMAIN got : got[i].market = ByClose[i] /\ got[i].learned = learned
    BY <1>7 DEF Result
  <1> HIDE DEF got
  <1>9. /\ \A i \in DOMAIN results' :
             \/ i \in DOMAIN results /\ results'[i] = results[i] /\ i <= Len(results)
             \/ i - Len(results) \in DOMAIN got /\ results'[i] = got[i - Len(results)] /\ i > Len(results)
        /\ \A i \in DOMAIN results : i \in DOMAIN results' /\ results'[i] = results[i]
        /\ \A i \in DOMAIN got : i + Len(results) \in DOMAIN results' /\ results'[i + Len(results)] = got[i]
        /\ Len(results) \in Nat /\ DOMAIN results' \subseteq Nat
    <2> HIDE DEF RT
    <2>1. /\ \A i \in DOMAIN (results \o got) :
             \/ i \in DOMAIN results /\ (results \o got)[i] = results[i] /\ i <= Len(results)
             \/ i - Len(results) \in DOMAIN got /\ (results \o got)[i] = got[i - Len(results)] /\ i > Len(results)
          /\ \A i \in DOMAIN results : i \in DOMAIN (results \o got) /\ (results \o got)[i] = results[i]
          /\ \A i \in DOMAIN got : i + Len(results) \in DOMAIN (results \o got) /\ (results \o got)[i + Len(results)] = got[i]
          /\ Len(results) \in Nat /\ DOMAIN (results \o got) \subseteq Nat
      BY ONLY <1>6, <1>7, ConcatFacts
    <2> QED BY <1>1, <2>1
  <1>10. /\ \A m \in Before(fold), n \in Tests(Window) : m \in Nat /\ n \in Nat /\ m < n
         /\ Before(fold + 1) = Before(fold) \union Tests(Window)
         /\ Tests(Window) \subseteq Markets
    BY <1>2, BeforeWindow
  <1>11. \A i \in DOMAIN got : got[i].market \in Came /\ got[i].market \in Tests(Window)
    BY <1>3, <1>4, <1>5, <1>7, <1>8
  <1>12. \A i \in DOMAIN results : results[i].market \in Before(fold) /\ results[i].market \in Markets
    <2>1. \A i \in DOMAIN results : results[i] \in RT
      <3> HIDE DEF RT
      <3> QED BY ONLY <1>6
    <2> QED BY <1>3, <2>1 DEF Tested
  <1>13. \A i \in DOMAIN got : \A m \in got[i].learned : m + opt.purge < got[i].market
    <2>1. /\ Window.trainEnd = TrainEnd(Window.testStart, opt.purge)
          /\ Window.testStart \in 0 .. NumMarkets /\ Window.testEnd \in 0 .. NumMarkets
      BY <1>2, WindowNow DEF WindowSet
    <2>2. Window.testStart \in Nat /\ Window.testEnd \in Nat /\ opt.purge \in Nat
      <3>1. opt.purge \in Nat
        BY DEF WalkForwardAssumptions, WalkInv, ProgramInv
      <3> QED BY <1>0, <2>1, <3>1
    <2>3. ASSUME NEW n \in Tests(Window), NEW m \in 1 .. Window.trainEnd
          PROVE  m + opt.purge < n
      <3> DEFINE a == Window.testStart
                 p == opt.purge
      <3>1. n \in a + 1 .. Window.testEnd /\ m \in 1 .. TrainEnd(a, p) /\ a \in Nat /\ p \in Nat /\ Window.testEnd \in Nat
        BY <2>1, <2>2 DEF Tests
      <3> HIDE DEF a, p
      <3>2. m + p < n
        BY ONLY <3>1 DEF TrainEnd
      <3> QED BY <3>2 DEF p
    <2> QED BY <1>3, <1>8, <1>11, <2>3
  <1>14. ASSUME NEW i \in DOMAIN results', NEW j \in DOMAIN results', i < j
         PROVE  /\ results'[i].market # results'[j].market
                /\ Close[results'[i].market] <= Close[results'[j].market]
    <2>0. i \in Nat /\ j \in Nat /\ Len(results) \in Nat
      BY <1>9
    <2>1. CASE j \in DOMAIN results /\ results'[j] = results[j] /\ j <= Len(results)
      <3>1. i \in DOMAIN results /\ results'[i] = results[i]
        BY <1>9, <1>14, <2>0, <2>1
      <3> QED BY <1>3, <1>14, <2>1, <3>1
    <2>2. CASE j - Len(results) \in DOMAIN got /\ results'[j] = got[j - Len(results)] /\ j > Len(results)
      <3> DEFINE l == j - Len(results)
      <3>1. CASE i \in DOMAIN results /\ results'[i] = results[i]
        <4>1. results'[i].market \in Before(fold) /\ results'[i].market \in Markets
          BY <1>12, <3>1
        <4>2. results'[j].market \in Tests(Window)
          BY <1>11, <2>2
        <4>3. /\ results'[i].market < results'[j].market /\ results'[j].market \in Markets
              /\ results'[i].market \in Nat /\ results'[j].market \in Nat
          BY <1>10, <4>1, <4>2
        <4>4. results'[i].market <= results'[j].market /\ results'[i].market # results'[j].market
          BY ONLY <4>3
        <4> QED BY <1>0, <4>1, <4>3, <4>4
      <3>2. CASE i - Len(results) \in DOMAIN got /\ results'[i] = got[i - Len(results)]
        <4> DEFINE k == i - Len(results)
        <4>1. k < l
          BY ONLY <1>14, <2>0
        <4>2. k \in DOMAIN ByClose /\ l \in DOMAIN ByClose
          BY <1>7, <2>2, <3>2
        <4>3. results'[i].market = ByClose[k] /\ results'[j].market = ByClose[l]
          BY <1>8, <2>2, <3>2
        <4> HIDE DEF k, l
        <4> QED BY <1>5, <4>1, <4>2, <4>3
      <3> QED BY <1>9, <3>1, <3>2
    <2> QED BY <1>9, <2>1, <2>2
  <1>15. ASSUME NEW i \in DOMAIN results'
         PROVE  \A m \in results'[i].learned : m + opt.purge < results'[i].market
    <2>1. CASE i \in DOMAIN results /\ results'[i] = results[i]
      BY <1>3, <2>1
    <2>2. CASE i - Len(results) \in DOMAIN got /\ results'[i] = got[i - Len(results)]
      BY <1>13, <2>2
    <2> QED BY <1>9, <2>1, <2>2
  <1>16. Tested' = Tested \union Came
    <2>1. ASSUME NEW x \in Tested'
          PROVE  x \in Tested \union Came
      <3>1. PICK i \in DOMAIN results' : x = results'[i].market
        BY DEF Tested
      <3>2. CASE i \in DOMAIN results /\ results'[i] = results[i]
        BY <3>1, <3>2 DEF Tested
      <3>3. CASE i - Len(results) \in DOMAIN got /\ results'[i] = got[i - Len(results)]
        BY <1>11, <3>1, <3>3
      <3> QED BY <1>9, <3>2, <3>3
    <2>2. ASSUME NEW x \in Tested
          PROVE  x \in Tested'
      BY <1>9 DEF Tested
    <2>3. ASSUME NEW x \in Came
          PROVE  x \in Tested'
      <3>1. PICK i \in DOMAIN got : x = got[i].market
        BY <1>5, <1>7, <1>8
      <3> QED BY <1>9, <3>1 DEF Tested
    <2> QED BY <2>1, <2>2, <2>3
  <1>17. Tested' \cap warned = {}
    BY <1>3, <1>4, <1>16
  <1>18. Tested' \union warned = Before(fold + 1)
    BY <1>3, <1>4, <1>10, <1>16
  <1> QED BY <1>14, <1>15, <1>16, <1>17, <1>18
\* Every step keeps the results and the warnings those of the folds evaluated.
LEMMA AccountKept ==
  ASSUME WalkForwardAssumptions, WalkInv, Next
  PROVE  AccountInv'
  <1> USE DEF memory, disk, pool
  <1> DEFINE NoPeek == \A i \in DOMAIN results : \A m \in results[i].learned : m + opt.purge < results[i].market
             InOrder == \A i, j \in DOMAIN results : i < j =>
                          /\ results[i].market # results[j].market
                          /\ Close[results[i].market] <= Close[results[j].market]
             Settled == (InFold /\ phase # "replay") \/ (Folded /\ phase = "done")
  <1>0. /\ Folded => NoPeek /\ InOrder /\ Tested \cap warned = {}
        /\ Folded /\ phase = "preload" => results = <<>> /\ warned = {} /\ fold = 1
        /\ Settled => Tested \union warned = Before(fold)
        /\ phase = "replay" =>
             /\ Tested \subseteq Before(fold) /\ Streamed \subseteq Tests(Window)
             /\ Tested \union warned \union Streamed = Before(fold) \union Tests(Window)
             /\ (Tested \union warned) \cap Streamed = {}
    BY DEF WalkInv, AccountInv
  <1>1. /\ phase \in Phases
        /\ phase = "prep" => opt.program = "prep"
        /\ phase \notin Ended \union {"preload", "prep"} => opt.program = "walk"
        /\ phase \in {"train", "oos", "replay"} => ~opt.portfolio
        /\ phase \in {"portfolio", "create samples", "fill samples", "create snapshot", "fill snapshot"}
             => opt.portfolio
    BY DEF WalkInv, ProgramInv
  <1>2. ASSUME opt' = opt
        PROVE  Folded' = Folded
    BY <1>2 DEF Folded
  <1>3. ASSUME UNCHANGED <<opt, fold>>
        PROVE  Before(fold)' = Before(fold)
    BY <1>3, SamePlan DEF Before
  <1>4. ASSUME UNCHANGED <<opt, fold, results, warned>>, phase' \notin {"preload", "replay"}, Settled' => Settled
        PROVE  AccountInv'
    <2>1. Folded' = Folded /\ Before(fold)' = Before(fold) /\ Tested' = Tested
      BY <1>2, <1>3, <1>4 DEF Tested
    <2>2. Folded' => (NoPeek /\ InOrder /\ Tested \cap warned = {})'
      BY <1>0, <1>4, <2>1
    <2>3. Settled' => (Tested \union warned)' = Before(fold)'
      BY <1>0, <1>4, <2>1
    <2> QED BY <1>4, <2>2, <2>3 DEF AccountInv
  <1>5. CASE JobMoves
    <2>1. UNCHANGED <<opt, phase, fold, results>>
      BY <1>5, KindsOfMove
    <2>2. Folded' = Folded /\ Before(fold)' = Before(fold) /\ Tested' = Tested /\ Window' = Window
      BY <1>2, <1>3, <2>1, SamePlan DEF Tested
    <2>3. InFold' = InFold
      BY <2>1, <2>2 DEF InFold
    <2>4. Folded' => (NoPeek /\ InOrder)'
      BY <1>0, <2>1, <2>2
    <2>5. CASE phase = "replay"
      <3>1. \/ Streamed' = Streamed /\ warned' = warned
            \/ \E m \in Streamed : Streamed' = Streamed \ {m} /\ warned' = warned \union {m}
        BY <1>5, <2>5, StreamMoves
      <3>2. /\ Tested' \subseteq Before(fold)' /\ Streamed' \subseteq Tests(Window')
            /\ Tested' \union warned' \union Streamed' = Before(fold)' \union Tests(Window')
            /\ (Tested' \union warned') \cap Streamed' = {}
        BY <1>0, <2>2, <2>5, <3>1
      <3>3. Folded
        BY <1>1, <2>5 DEF Folded, Ended
      <3>4. (Tested \cap warned)' = {}
        BY <1>0, <2>2, <2>5, <3>1, <3>3
      <3> QED BY <2>1, <2>4, <2>5, <3>2, <3>4 DEF AccountInv
    <2>6. CASE phase = "prep"
      BY <1>1, <2>1, <2>2, <2>3, <2>6 DEF AccountInv, Folded, InFold
    <2>7. CASE phase \notin {"prep", "replay"}
      <3>1. warned' = warned
        BY <1>5, <2>7, StreamMoves
      <3>2. phase # "preload"
        BY <1>5, KindsOfMove DEF Pooled
      <3> QED BY <1>4, <2>1, <2>2, <2>3, <2>7, <3>1, <3>2
    <2> QED BY <2>5, <2>6, <2>7
  <1>6. ASSUME opt' = opt, ~Folded, phase' # "replay"
        PROVE  AccountInv'
    BY <1>2, <1>6 DEF AccountInv, InFold
  <1>7. ASSUME NEW targets \in SUBSET Markets, ListTargets(targets)
        PROVE  AccountInv'
    BY <1>6, <1>7 DEF ListTargets, Stream, Folded
  <1>8. CASE CountErrors
    BY <1>1, <1>6, <1>8 DEF CountErrors, Folded
  <1>9. CASE SpotFails \/ RefusePortfolio \/ WriteFails
    <2>1. UNCHANGED <<opt, fold, results, warned>> /\ phase' = "error"
      BY <1>9 DEF SpotFails, RefusePortfolio, WriteFails
    <2> QED BY <1>4, <2>1 DEF InFold
  <1>10. CASE StartFolds
    <2>1. /\ UNCHANGED <<opt, fold, results, warned>> /\ Folded /\ phase = "preload"
          /\ phase' \in {"error", "train"}
      BY <1>10 DEF StartFolds, Folded
    <2>2. results = <<>> /\ warned = {} /\ fold = 1
      BY <1>0, <2>1
    <2>3. Tested \union warned = {} /\ Before(fold) = {}
      BY <2>2 DEF Tested, Before
    <2>4. Folded' = Folded /\ Before(fold)' = Before(fold) /\ Tested' = Tested
      BY <1>2, <1>3, <2>1 DEF Tested
    <2>5. Folded' => (NoPeek /\ InOrder /\ Tested \cap warned = {})'
      BY <1>0, <2>1, <2>4
    <2> QED BY <2>1, <2>3, <2>4, <2>5 DEF AccountInv
  <1>11. CASE StartPortfolio \/ ReuseSamples \/ CollectForPortfolio
    BY <1>6, <1>11 DEF StartPortfolio, ReuseSamples, CollectForPortfolio, Preloaded, Stream, Folded
  <1>12. ASSUME phase \in {"train", "collect", "fit", "oos", "replay"}, ~opt.portfolio
         PROVE  InFold /\ Folded
    BY <1>1, <1>12 DEF InFold, Folded, Ended
  <1>13. CASE TrainFold
    <2>1. UNCHANGED <<opt, fold, results, warned>> /\ phase' \in {"fit", "collect"} /\ phase = "train"
      BY <1>13 DEF TrainFold, Stream
    <2>2. InFold
      BY <1>1, <1>12, <2>1
    <2> QED BY <1>4, <2>1, <2>2
  <1>14. CASE Collected
    <2>1. CASE opt.portfolio
      BY <1>6, <1>14, <2>1 DEF Collected, Folded
    <2>2. CASE ~opt.portfolio
      <3>1. UNCHANGED <<opt, fold, results, warned>> /\ phase' = "fit" /\ phase = "collect"
        BY <1>14, <2>2 DEF Collected
      <3>2. InFold
        BY <1>12, <2>2, <3>1
      <3> QED BY <1>4, <3>1, <3>2
    <2> QED BY <2>1, <2>2
  <1>15. CASE FitFold \/ EvaluatedFold
    <2>1. /\ UNCHANGED <<opt, fold, results, warned>> /\ phase \in {"fit", "oos"} /\ phase' \in {"oos", "replay"}
          /\ ~opt.portfolio /\ \E next : Stream(WindowJobs, next)
      BY <1>1, <1>15 DEF FitFold, EvaluatedFold, Stream
    <2>2. InFold /\ Folded /\ phase # "replay"
      BY <1>12, <2>1
    <2>3. CASE phase' = "oos"
      BY <1>4, <2>1, <2>2, <2>3
    <2>4. CASE phase' = "replay"
      <3>1. Streamed' = Window.testStart + 1 .. Window.testEnd
        <4>1. PICK next : Stream(WindowJobs, next)
          BY <2>1
        <4>2. Window \in WindowSet /\ NumMarkets \in Nat
          BY <2>2, WindowNow DEF WalkForwardAssumptions
        <4>3. Window.testStart \in Nat /\ Window.testEnd \in 0 .. NumMarkets
          BY <4>2 DEF WindowSet
        <4>4. Stream(Jobs(Window.testStart, Window.testEnd), next)
          BY <4>1 DEF WindowJobs
        <4> QED BY ONLY <4>2, <4>3, <4>4, JobsStart
      <3>2. Folded' = Folded /\ Before(fold)' = Before(fold) /\ Tested' = Tested /\ Window' = Window
        BY <1>2, <1>3, <2>1, SamePlan DEF Tested
      <3>3. Streamed' = Tests(Window)
        BY <3>1 DEF Tests
      <3>4. Tested \union warned = Before(fold)
        BY <1>0, <2>2
      <3>5. Before(fold) \cap Tests(Window) = {}
        <4>1. \A m \in Before(fold), n \in Tests(Window) : m \in Nat /\ n \in Nat /\ m < n
          BY <2>2, BeforeWindow
        <4>2. \A m \in Before(fold), n \in Tests(Window) : m # n
          BY ONLY <4>1
        <4> QED BY <4>2
      <3>6. /\ Tested' \subseteq Before(fold)' /\ Streamed' \subseteq Tests(Window')
            /\ Tested' \union warned' \union Streamed' = Before(fold)' \union Tests(Window')
            /\ (Tested' \union warned') \cap Streamed' = {}
        BY <2>1, <3>2, <3>3, <3>4, <3>5
      <3>7. Folded' => (NoPeek /\ InOrder /\ Tested \cap warned = {})'
        BY <1>0, <2>1, <3>2
      <3> QED BY <2>4, <3>6, <3>7 DEF AccountInv
    <2> QED BY <2>1, <2>3, <2>4
  <1>16. CASE FinishFold
    <2>1. /\ UNCHANGED <<opt, warned>> /\ fold' = fold + 1 /\ phase' \in {"done", "train"}
      BY <1>16 DEF FinishFold
    <2>2. /\ \A i \in DOMAIN results' : \A m \in results'[i].learned : m + opt.purge < results'[i].market
          /\ \A i, j \in DOMAIN results' : i < j =>
               /\ results'[i].market # results'[j].market
               /\ Close[results'[i].market] <= Close[results'[j].market]
          /\ Tested' \cap warned = {}
          /\ Tested' \union warned = Before(fold + 1)
      BY <1>16, WindowFinished
    <2>3. plan' = plan
      BY <2>1, SamePlan
    <2>4. Before(fold)' = Before(fold + 1)
      BY <2>1, <2>3 DEF Before
    <2> QED BY <2>1, <2>2, <2>4 DEF AccountInv
  <1>17. ASSUME NEW b \in BOOLEAN, FitPortfolio(b) \/ FillSamplesFile(b) \/ FillSnapshotFile(b)
         PROVE  AccountInv'
    BY <1>1, <1>6, <1>17 DEF FitPortfolio, FillSamplesFile, FillSnapshotFile, Folded
  <1>18. CASE CreateSamplesFile \/ CreateSnapshotFile \/ RunPortfolio
    BY <1>1, <1>6, <1>18 DEF CreateSamplesFile, CreateSnapshotFile, RunPortfolio, Folded
  <1>19. CASE Killed \/ Restart
    <2>1. results' = <<>> /\ warned' = {} /\ fold' = 1 /\ phase' \in {"killed", "preload"}
      BY <1>19 DEF Killed, Restart, Forget
    <2>2. Tested' = {}
      BY <2>1 DEF Tested
    <2> QED BY <2>1, <2>2 DEF AccountInv, InFold
  <1>20. CASE Terminated
    <2>1. UNCHANGED <<opt, fold, phase, results, warned, pool>>
      BY <1>20 DEF Terminated, vars
    <2>2. Streamed' = Streamed /\ Window' = Window /\ Tested' = Tested /\ Before(fold)' = Before(fold) /\ Folded' = Folded
      BY <1>2, <1>3, <2>1, SamePlan DEF Streamed, Came, Tested
    <2>3. InFold' = InFold
      BY <2>1, <2>2 DEF InFold
    <2> QED BY <1>0, <2>1, <2>2, <2>3 DEF AccountInv
  <1> QED BY <1>5, <1>7, <1>8, <1>9, <1>10, <1>11, <1>13, <1>14, <1>15, <1>16, <1>17, <1>18, <1>19, <1>20,
             NextTurns DEF Turns
-----------------------------------------------------------------------------
(* The invariant holds, and with it the properties of states.              *)

\* The inductive invariant of the driver: the phases belong to the program,
\* every market of a stream is in one place, only whole tapes come in, the
\* samples end before the window, and the markets of the windows so far are
\* all accounted for.
THEOREM WalkInvHolds ==
  ASSUME WalkForwardAssumptions
  PROVE  Spec => []WalkInv
  <1>0. /\ NumMarkets \in Nat /\ Mirrors \subseteq [Markets -> FileStates] /\ MaxProcesses \in Nat \ {0}
        /\ Fetches \in Nat
    BY DEF WalkForwardAssumptions
  <1>1. Init => WalkInv
    <2> SUFFICES ASSUME Init PROVE WalkInv
      OBVIOUS
    <2> USE DEF Init
    <2>1. ProgramInv
      <3>1. Len(plan) \in Nat
        <4>1. plan \in Seq(WindowSet)
          BY PlanNow
        <4> QED BY ONLY <4>1
      <3>2. fold \in 1 .. Len(plan) + 1 /\ process \in 1 .. MaxProcesses
        BY <1>0, <3>1
      <3> QED BY <3>2 DEF ProgramInv, Phases, InFold, Ended
    <2>2. PoolInv
      BY DEF PoolInv, PoolTypes, OneHome
    <2>3. Room
      BY <1>0, FS_EmptySet DEF Room
    <2>4. FileInv
      <3>1. cached \in [Markets -> {Absent, Whole}] /\ temporary \in [Markets -> FileStates]
        BY DEF FileStates
      <3>2. mirror \in [Markets -> FileStates]
        BY <1>0
      <3> QED BY <3>1, <3>2 DEF FileInv
    <2>5. MemoryTypes
      BY <1>0 DEF MemoryTypes, FileStates
    <2>6. SampleInv
      BY DEF SampleInv, InFold
    <2>7. AccountInv
      BY DEF AccountInv, InFold, Tested
    <2> QED BY <2>1, <2>2, <2>3, <2>4, <2>5, <2>6, <2>7 DEF WalkInv
  <1>2. WalkInv /\ [Next]_vars => WalkInv'
    <2> SUFFICES ASSUME WalkInv, [Next]_vars PROVE WalkInv'
      OBVIOUS
    <2>1. CASE Next
      BY <2>1, ProgramKept, PoolKept, RoomKept, FilesKept, MemoryKept, SamplesKept, AccountKept DEF WalkInv
    <2>2. CASE UNCHANGED vars
      <3> USE <2>2 DEF vars, pool, memory, disk
      <3>1. plan' = plan /\ Window' = Window /\ Folded' = Folded /\ InFold' = InFold
        BY SamePlan DEF Folded, InFold
      <3>2. ProgramInv'
        BY <3>1 DEF WalkInv, ProgramInv
      <3>3. PoolInv' /\ Room' /\ FileInv' /\ MemoryTypes'
        BY DEF WalkInv, PoolInv, PoolTypes, OneHome, Room, FileInv, MemoryTypes
      <3>4. Streamed' = Streamed /\ Tested' = Tested /\ Before(fold)' = Before(fold)
        BY <3>1 DEF Streamed, Came, Tested, Before
      <3>5. SampleInv' /\ AccountInv'
        BY <3>1, <3>4 DEF WalkInv, SampleInv, AccountInv
      <3> QED BY <3>2, <3>3, <3>5 DEF WalkInv
    <2> QED BY <2>1, <2>2
  <1> QED BY <1>1, <1>2, PTL DEF Spec

\* A list that names each element of a set once is as long as the set.
LEMMA ListCount ==
  ASSUME NEW n \in Nat, NEW T, IsFiniteSet(T), NEW f \in [1 .. n -> T],
         \A a, b \in 1 .. n : a # b => f[a] # f[b], \A t \in T : \E a \in 1 .. n : f[a] = t
  PROVE  n = Cardinality(T)
  <1>1. Cardinality(1 .. n) = Cardinality(T)
    BY CountOnce
  <1>2. Cardinality(1 .. n) = IF 1 > n THEN 0 ELSE n - 1 + 1
    BY FS_Interval
  <1> QED BY <1>1, <1>2

\* The stream is as long as it holds markets.
LEMMA StreamCount ==
  ASSUME WalkForwardAssumptions, PoolInv
  PROVE  Len(todo) + Cardinality(busy) + Len(ended) = Cardinality(Streamed)
  <1> DEFINE A == ToSet(todo)
             B == {j.market : j \in busy}
             f == [i \in 1 .. Len(ended) |-> ended[i].market]
  <1>0. NumMarkets \in Nat
    BY DEF WalkForwardAssumptions
  <1>1. IsFiniteSet(Markets)
    BY ONLY <1>0, FS_Interval DEF Markets
  <1>2. todo \in Seq(Markets) /\ Len(todo) \in Nat /\ DOMAIN todo = 1 .. Len(todo)
    BY DEF PoolInv, PoolTypes
  <1>3. A \in SUBSET Markets
    <2>1. \A i \in DOMAIN todo : todo[i] \in Markets
      BY <1>2
    <2> QED BY <2>1 DEF ToSet
  <1>4. B \in SUBSET Markets
    BY DEF PoolInv, PoolTypes
  <1>5. Came \in SUBSET Markets
    BY <1>0, CameInOrder
  <1>6. IsFiniteSet(A) /\ IsFiniteSet(B) /\ IsFiniteSet(Came)
    <2> HIDE DEF A, B
    <2> QED BY <1>1, <1>3, <1>4, <1>5, FS_Subset
  <1>7. Len(todo) = Cardinality(A)
    <2>1. todo \in [1 .. Len(todo) -> A]
      BY <1>2 DEF ToSet
    <2>2. \A a, b \in 1 .. Len(todo) : a # b => todo[a] # todo[b]
      BY <1>2 DEF PoolInv, OneHome
    <2>3. \A t \in A : \E a \in 1 .. Len(todo) : todo[a] = t
      BY <1>2 DEF ToSet
    <2> HIDE DEF A
    <2> QED BY ONLY <1>2, <1>6, <2>1, <2>2, <2>3, ListCount
  <1>8. Cardinality(busy) = Cardinality(B)
    BY <1>0, FlightIsFinite
  <1>9. Len(ended) \in Nat /\ DOMAIN ended = 1 .. Len(ended)
    <2>1. ended \in Seq([market : Markets, whole : {TRUE}])
      BY DEF PoolInv, PoolTypes
    <2> DEFINE T == [market : Markets, whole : {TRUE}]
    <2>2. ended \in Seq(T)
      BY <2>1
    <2> HIDE DEF T
    <2> QED BY ONLY <2>2
  <1>10. Len(ended) = Cardinality(Came)
    <2>1. f \in [1 .. Len(ended) -> Came]
      BY <1>9 DEF Came
    <2>2. \A a, b \in 1 .. Len(ended) : a # b => f[a] # f[b]
      BY <1>9 DEF PoolInv, OneHome
    <2>3. \A t \in Came : \E a \in 1 .. Len(ended) : f[a] = t
      BY <1>9 DEF Came
    <2> HIDE DEF f
    <2> QED BY ONLY <1>6, <1>9, <2>1, <2>2, <2>3, ListCount
  <1>11. A \cap B = {} /\ (A \union B) \cap Came = {}
    BY DEF PoolInv, OneHome, Came, ToSet
  <1>12. Streamed = (A \union B) \union Came
    BY DEF Streamed
  <1> HIDE DEF A, B, f
  <1>13. IsFiniteSet(A \union B) /\ Cardinality(A \union B) = Cardinality(A) + Cardinality(B) - Cardinality(A \cap B)
    BY <1>6, FS_Union
  <1>14. Cardinality(Streamed) = Cardinality(A \union B) + Cardinality(Came) - Cardinality((A \union B) \cap Came)
    BY <1>6, <1>12, <1>13, FS_Union
  <1>15. Cardinality(A) \in Nat /\ Cardinality(B) \in Nat /\ Cardinality(Came) \in Nat /\ Cardinality({}) = 0
    BY <1>6, FS_CardinalityType, FS_EmptySet
  <1>16. Cardinality(A \cap B) = 0 /\ Cardinality((A \union B) \cap Came) = 0
    BY <1>11, <1>15
  <1> QED BY ONLY <1>7, <1>8, <1>10, <1>13, <1>14, <1>15, <1>16

\* The types follow from the inductive invariant.
LEMMA TypesFollow ==
  ASSUME WalkForwardAssumptions, WalkInv
  PROVE  TypeOK
  <1> USE DEF WalkInv
  <1>1. /\ opt \in Options /\ process \in 1 .. MaxProcesses /\ fold \in 1 .. Len(plan) + 1
        /\ phase \in Pooled \union Ended \union
             {"preload", "train", "fit", "portfolio", "create samples", "fill samples",
              "create snapshot", "fill snapshot"}
    BY DEF ProgramInv, Phases
  <1>2. todo \in Seq(Markets) /\ ended \in Seq([market : Markets, whole : BOOLEAN])
    <2> DEFINE T == [market : Markets, whole : {TRUE}]
               U == [market : Markets, whole : BOOLEAN]
    <2>1. ended \in Seq(T) /\ T \subseteq U
      BY DEF PoolInv, PoolTypes
    <2> HIDE DEF T, U
    <2>2. ended \in Seq(U)
      BY ONLY <2>1
    <2> QED BY <2>2 DEF U, PoolInv, PoolTypes
  <1>3. busy \subseteq [market : Markets, step : {"get", "write", "create", "fill", "rename"}]
    BY DEF PoolInv, PoolTypes, Steps, Writing
  <1>4. Len(todo) + Cardinality(busy) + Len(ended) = Cardinality(Streamed)
    BY StreamCount
  <1>5. Cardinality(busy) <= (IF Fetches = 0 THEN 1 ELSE Fetches)
    BY DEF Room
  <1>6. Cardinality({j \in busy : j.step \in {"create", "fill", "rename"}}) <= 1
    <2> DEFINE W == {j \in busy : j.step \in {"create", "fill", "rename"}}
    <2>1. W = {} \/ \E j : W = {j}
      BY DEF Room, Writing
    <2> HIDE DEF W
    <2>2. Cardinality(W) = 0 \/ Cardinality(W) = 1
      BY <2>1, FS_EmptySet, FS_Singleton
    <2> QED BY <2>2 DEF W
  <1>7. /\ {warned, learned} \subseteq SUBSET Markets /\ loadedUntil \in 0 .. NumMarkets
        /\ samples \in Seq(Markets) /\ results \in Seq([market : Markets, learned : SUBSET Markets])
        /\ samplesFile \in [state : FileStates, of : Seq(Markets)]
        /\ snapshotFile \in [state : FileStates, of : SUBSET Markets]
    BY DEF MemoryTypes
  <1>8. {mirror, cached, temporary} \subseteq [Markets -> FileStates]
    BY DEF FileInv, FileStates
  <1> QED BY <1>1, <1>2, <1>3, <1>4, <1>5, <1>6, <1>7, <1>8 DEF TypeOK

\* The account of a finished run follows from the inductive invariant.
LEMMA AccountsFollow ==
  ASSUME WalkForwardAssumptions, WalkInv
  PROVE  ResultsAccounted
  <1> SUFFICES ASSUME opt.program = "walk", ~opt.portfolio, phase = "done"
               PROVE  LET tested == {results[i].market : i \in DOMAIN results}
                          windows == UNION {plan[k].testStart + 1 .. plan[k].testEnd : k \in DOMAIN plan}
                      IN  /\ tested \union warned = windows
                          /\ Len(results) + Cardinality(warned) = Cardinality(windows)
                          /\ \A i, j \in DOMAIN results : i < j => Close[results[i].market] <= Close[results[j].market]
    BY DEF ResultsAccounted
  <1> DEFINE windows == UNION {plan[k].testStart + 1 .. plan[k].testEnd : k \in DOMAIN plan}
  <1>1. Folded /\ ~InFold
    BY DEF Folded, InFold
  <1>2. /\ Tested \union warned = Before(fold) /\ Tested \cap warned = {}
        /\ \A i, j \in DOMAIN results : i < j =>
             /\ results[i].market # results[j].market
             /\ Close[results[i].market] <= Close[results[j].market]
    BY <1>1 DEF WalkInv, AccountInv
  <1>3. fold = Len(plan) + 1
    BY <1>1 DEF WalkInv, ProgramInv
  <1>4. Len(plan) \in Nat /\ DOMAIN plan = 1 .. Len(plan)
    <2>1. plan \in Seq(WindowSet)
      BY PlanNow DEF WalkInv, ProgramInv
    <2> QED BY ONLY <2>1
  <1>5. Before(fold) = windows
    <2>1. 1 .. fold - 1 = DOMAIN plan
      BY <1>3, <1>4
    <2> QED BY <2>1 DEF Before, Tests
  <1>6. warned \in SUBSET Markets /\ Len(results) \in Nat /\ DOMAIN results = 1 .. Len(results)
        /\ \A i \in 1 .. Len(results) : results[i].market \in Markets
    <2> DEFINE RT == [market : Markets, learned : SUBSET Markets]
    <2>1. results \in Seq(RT) /\ warned \in SUBSET Markets
      BY DEF WalkInv, MemoryTypes
    <2> HIDE DEF RT
    <2>2. Len(results) \in Nat /\ DOMAIN results = 1 .. Len(results) /\ \A i \in 1 .. Len(results) : results[i] \in RT
      BY ONLY <2>1
    <2> QED BY <2>1, <2>2 DEF RT
  <1>7. IsFiniteSet(Markets)
    <2>1. NumMarkets \in Nat
      BY DEF WalkForwardAssumptions
    <2> QED BY ONLY <2>1, FS_Interval DEF Markets
  <1>8. Tested \in SUBSET Markets
    BY <1>6 DEF Tested
  <1>9. IsFiniteSet(Tested) /\ IsFiniteSet(warned) /\ Cardinality(Tested) \in Nat /\ Cardinality(warned) \in Nat
    BY <1>6, <1>7, <1>8, FS_Subset, FS_CardinalityType
  <1>10. Len(results) = Cardinality(Tested)
    <2> DEFINE n == Len(results)
               f == [i \in 1 .. n |-> results[i].market]
    <2>1. n \in Nat /\ f \in [1 .. n -> Tested]
      BY <1>6 DEF Tested
    <2>2. \A a, b \in 1 .. n : a # b => f[a] # f[b]
      <3>1. ASSUME NEW a \in 1 .. n, NEW b \in 1 .. n, a # b
            PROVE  results[a].market # results[b].market
        <4>1. a < b \/ b < a
          BY ONLY <1>6, <3>1
        <4> QED BY <1>2, <1>6, <4>1
      <3> QED BY <3>1
    <2>3. \A t \in Tested : \E a \in 1 .. n : f[a] = t
      BY <1>6 DEF Tested
    <2> HIDE DEF f, n
    <2>4. n = Cardinality(Tested)
      BY ONLY <1>9, <2>1, <2>2, <2>3, ListCount
    <2> QED BY <2>4 DEF n
  <1>11. Cardinality(Tested \union warned) = Cardinality(Tested) + Cardinality(warned) - Cardinality(Tested \cap warned)
    BY <1>9, FS_Union
  <1>12. Cardinality({}) = 0
    BY FS_EmptySet
  <1>13. Len(results) + Cardinality(warned) = Cardinality(windows)
    <2> HIDE DEF windows
    <2>1. Cardinality(Tested \cap warned) = 0
      BY <1>2, <1>12
    <2>2. Cardinality(Tested \union warned) = Len(results) + Cardinality(warned)
      BY ONLY <1>9, <1>10, <1>11, <2>1
    <2> QED BY <1>2, <1>5, <2>2
  <1>14. Tested \union warned = windows
    BY <1>2, <1>5
  <1> QED BY <1>2, <1>13, <1>14 DEF Tested

\* The invariant gives each of the properties of states.
LEMMA PropertiesFollow ==
  ASSUME WalkForwardAssumptions
  PROVE  WalkInv => TypeOK /\ NoPeeking /\ ResultsAccounted /\ TapesAreWhole /\ PrepKeepsItsWord
  <1> SUFFICES ASSUME WalkInv
               PROVE  TypeOK /\ NoPeeking /\ ResultsAccounted /\ TapesAreWhole /\ PrepKeepsItsWord
    OBVIOUS
  <1>1. NoPeeking
    BY DEF WalkInv, SampleInv, AccountInv, NoPeeking, Increasing, Folded
  <1>2. TapesAreWhole
    <2> DEFINE T == [market : Markets, whole : {TRUE}]
    <2>1. ended \in Seq(T)
      BY DEF WalkInv, PoolInv, PoolTypes
    <2> HIDE DEF T
    <2>2. \A i \in DOMAIN ended : ended[i] \in T
      BY ONLY <2>1
    <2> QED BY <2>2 DEF TapesAreWhole, T
  <1>3. PrepKeepsItsWord
    BY DEF WalkInv, FileInv, PrepKeepsItsWord, Came
  <1> QED BY <1>1, <1>2, <1>3, TypesFollow, AccountsFollow
\* Type correctness: a market of a stream is in one place of it, no more
\* tapes than configured are in flight, and one of them at most is being
\* written to the cache.
THEOREM WalkForwardTypes ==
  ASSUME WalkForwardAssumptions
  PROVE  Spec => []TypeOK
  <1>1. WalkInv => TypeOK
    BY PropertiesFollow
  <1> QED BY <1>1, WalkInvHolds, PTL

\* A market is tested by a model that learned only from markets more than
\* purge_markets before it (run_walkforward), whatever arrived first.
THEOREM NobodyPeeks ==
  ASSUME WalkForwardAssumptions
  PROVE  Spec => []NoPeeking
  <1>1. WalkInv => NoPeeking
    BY PropertiesFollow
  <1> QED BY <1>1, WalkInvHolds, PTL

\* A run of folds that ends has one result or one warning for every market
\* of its windows, in the order of the closes.
THEOREM NoResultIsLost ==
  ASSUME WalkForwardAssumptions
  PROVE  Spec => []ResultsAccounted
  <1>1. WalkInv => ResultsAccounted
    BY PropertiesFollow
  <1> QED BY <1>1, WalkInvHolds, PTL

\* No tape that a killed process left cut off is trained on or replayed.
THEOREM OnlyWholeTapes ==
  ASSUME WalkForwardAssumptions
  PROVE  Spec => []TapesAreWhole
  <1>1. WalkInv => TapesAreWhole
    BY PropertiesFollow
  <1> QED BY <1>1, WalkInvHolds, PTL

\* When prep-cache reports success every file it listed is there.
THEOREM PrepIsHonest ==
  ASSUME WalkForwardAssumptions
  PROVE  Spec => []PrepKeepsItsWord
  <1>1. WalkInv => PrepKeepsItsWord
    BY PropertiesFollow
  <1> QED BY <1>1, WalkInvHolds, PTL
-----------------------------------------------------------------------------
(* The driver implements Evaluation.                                       *)

\* The plan that Evaluation speaks of is the driver's.
LEMMA SamePlans == Promise!plans = plans
  BY DEF Promise!plans, plans, Promise!Refused, Refused, Promise!Misconfigured, Misconfigured,
         Promise!UsesFolds, UsesFolds, Promise!Kept, Kept, Promise!Filter, Filter, Promise!Windows, Windows,
         Promise!Sizes, Sizes, Promise!TrainEnd, TrainEnd, Promise!Lesser, Lesser, Promise!Plan, Plan,
         Promise!Unset, Unset
\* A listing by close is one of the orders Evaluation allows.
LEMMA OrdersOf ==
  ASSUME NEW S, NEW s \in [1 .. Cardinality(S) -> S], \A i, j \in 1 .. Cardinality(S) : i # j => s[i] # s[j],
         \A i, j \in 1 .. Cardinality(S) : i < j => Close[s[i]] <= Close[s[j]]
  PROVE  s \in Promise!Orders(S)
  <1>1. s \in Promise!SetToSeqs(S)
    BY DEF Promise!SetToSeqs, Promise!Cardinality, Cardinality
  <1>2. DOMAIN s = 1 .. Cardinality(S)
    OBVIOUS
  <1> QED BY <1>1, <1>2 DEF Promise!Orders
\* The steps that no reader of the results sees.
LEMMA InnerSteps ==
  ASSUME WalkInv,
         \/ JobMoves \/ \E targets \in SUBSET Markets : ListTargets(targets)
         \/ StartPortfolio \/ ReuseSamples \/ CollectForPortfolio
         \/ TrainFold \/ Collected \/ FitFold \/ EvaluatedFold
         \/ \E selected \in BOOLEAN : FitPortfolio(selected)
         \/ CreateSamplesFile \/ CreateSnapshotFile
         \/ \E flushed \in BOOLEAN : FillSamplesFile(flushed) \/ FillSnapshotFile(flushed)
         \/ Terminated
  PROVE  UNCHANGED Promise!evaluation
  <1>0. SUFFICES UNCHANGED <<opt, fold, results>> /\ (phase' \in Ended <=> phase \in Ended)
    BY DEF Promise!evaluation
  <1> USE DEF memory, Ended, Pooled
  <1>1. CASE JobMoves
    <2>1. UNCHANGED <<opt, phase, memory>>
      BY <1>1, KindsOfMove
    <2> QED BY <2>1
  <1>2. ASSUME NEW targets \in SUBSET Markets, ListTargets(targets)
        PROVE  UNCHANGED <<opt, fold, results>> /\ (phase' \in Ended <=> phase \in Ended)
    BY <1>2 DEF ListTargets, Stream
  <1>3. CASE StartPortfolio \/ ReuseSamples
    BY <1>3 DEF StartPortfolio, ReuseSamples, Preloaded
  <1>4. CASE CollectForPortfolio
    BY <1>4 DEF CollectForPortfolio, Preloaded, Stream
  <1>5. CASE TrainFold
    BY <1>5 DEF TrainFold, Stream
  <1>6. CASE Collected
    BY <1>6 DEF Collected
  <1>7. CASE FitFold \/ EvaluatedFold
    BY <1>7 DEF FitFold, EvaluatedFold, Stream
  <1>8. ASSUME NEW selected \in BOOLEAN, FitPortfolio(selected)
        PROVE  UNCHANGED <<opt, fold, results>> /\ (phase' \in Ended <=> phase \in Ended)
    BY <1>8 DEF FitPortfolio
  <1>9. CASE CreateSamplesFile \/ CreateSnapshotFile
    BY <1>9 DEF CreateSamplesFile, CreateSnapshotFile
  <1>10. ASSUME NEW flushed \in BOOLEAN, FillSamplesFile(flushed) \/ FillSnapshotFile(flushed)
         PROVE  UNCHANGED <<opt, fold, results>> /\ (phase' \in Ended <=> phase \in Ended)
    BY <1>10 DEF FillSamplesFile, FillSnapshotFile
  <1>11. CASE Terminated
    BY <1>11 DEF Terminated, vars
  <1> QED BY <1>1, <1>2, <1>3, <1>4, <1>5, <1>6, <1>7, <1>8, <1>9, <1>10, <1>11

\* An error ends the process with the results it has; so does the end of
\* prep-cache.
LEMMA Stops ==
  ASSUME CountErrors \/ SpotFails \/ RefusePortfolio \/ WriteFails
  PROVE  Promise!Stop
  <1>1. UNCHANGED <<opt, fold, results>> /\ phase \notin Ended /\ phase' \in Ended
    BY DEF CountErrors, SpotFails, RefusePortfolio, Preloaded, WriteFails, memory, Ended
  <1> QED BY <1>1 DEF Promise!Stop

\* Beginning with the folds is no step of the evaluation, or its end if there
\* are none.
LEMMA FoldsBegin ==
  ASSUME StartFolds
  PROVE  Promise!Stop \/ UNCHANGED Promise!evaluation
  <1>1. UNCHANGED <<opt, fold, results>> /\ phase \notin Ended /\ phase' \in {"error", "train"}
    BY DEF StartFolds, memory, Ended
  <1>2. CASE phase' = "error"
    BY <1>1, <1>2 DEF Promise!Stop, Ended
  <1>3. CASE phase' = "train"
    <2>1. phase' \notin Ended
      BY <1>3 DEF Ended
    <2> QED BY <1>1, <2>1 DEF Promise!evaluation
  <1> QED BY <1>1, <1>2, <1>3

\* A kill loses the results; the next process starts over.
LEMMA Vanishes ==
  ASSUME Killed
  PROVE  Promise!Vanish
  <1>1. phase \notin Ended /\ phase' \in Ended /\ opt' = opt /\ fold' = 1 /\ results' = <<>>
    BY DEF Killed, Forget, Ended
  <1> QED BY <1>1 DEF Promise!Vanish

\* A restart begins the evaluation again.
LEMMA StartsAgain ==
  ASSUME Restart
  PROVE  Promise!Again
  <1>1. phase \in Ended /\ phase' \notin Ended /\ opt' \in Options /\ fold' = 1 /\ results' = <<>>
    BY DEF Restart, Forget, Ended
  <1> QED BY <1>1 DEF Promise!Again

\* Among them no result of a portfolio is missing.
LEMMA PortfolioTested ==
  ASSUME WalkForwardAssumptions, WalkInv, RunPortfolio
  PROVE  Promise!TestPortfolio
  <1> DEFINE s == [i \in 1 .. NumMarkets - opt.minTrain |-> opt.minTrain + i]
  <1>1. phase = "portfolio" /\ phase' = "done" /\ opt' = opt /\ fold' = fold
        /\ results' = [i \in DOMAIN Jobs(opt.minTrain, NumMarkets) |-> Result(opt.minTrain + i)]
    BY DEF RunPortfolio
  <1>2. opt.portfolio /\ learned \in SUBSET Markets
    BY <1>1 DEF WalkInv, ProgramInv, MemoryTypes
  <1>3. results' = Promise!Stamped(s, learned)
    <2>1. DOMAIN Jobs(opt.minTrain, NumMarkets) = 1 .. NumMarkets - opt.minTrain
      BY DEF Jobs
    <2>2. DOMAIN s = 1 .. NumMarkets - opt.minTrain
      OBVIOUS
    <2>3. \A i \in DOMAIN s : s[i] = opt.minTrain + i
      OBVIOUS
    <2> HIDE DEF s
    <2>4. results' = [i \in DOMAIN s |-> [market |-> s[i], learned |-> learned]]
      BY <1>1, <2>1, <2>2, <2>3 DEF Result
    <2> QED BY <2>4 DEF Promise!Stamped
  <1>4. phase \notin Ended /\ phase' \in Ended
    BY <1>1 DEF Ended
  <1>5. Promise!Markets = Markets
    BY DEF Promise!Markets, Markets
  <1> QED BY <1>1, <1>2, <1>3, <1>4, <1>5 DEF Promise!TestPortfolio

\* The end of a fold tests its window, all at once to whoever sees results only.
LEMMA WindowTested ==
  ASSUME WalkForwardAssumptions, WalkInv, FinishFold
  PROVE  Promise!TestWindow
  <1> DEFINE RT == [market : Markets, learned : SUBSET Markets]
             T == [market : Markets, whole : {TRUE}]
  <1>1. /\ phase = "replay" /\ Drained /\ opt' = opt /\ fold' = fold + 1
        /\ results' = results \o [i \in DOMAIN ByClose |-> Result(ByClose[i])]
        /\ phase' = IF fold = Len(plan) THEN "done" ELSE "train"
    BY DEF FinishFold
  <1>2. PoolInv /\ NumMarkets \in Nat /\ ~opt.portfolio /\ InFold /\ fold <= Len(plan)
        /\ fold \in 1 .. Len(plan) + 1 /\ opt \in Options
    BY <1>1 DEF WalkInv, ProgramInv, InFold, Folded, Ended, WalkForwardAssumptions
  <1>3. Streamed \subseteq Tests(Window) /\ learned \subseteq 1 .. Window.trainEnd
    BY <1>1 DEF WalkInv, AccountInv, SampleInv
  <1>4. Streamed = Came
    BY <1>1 DEF Drained, Streamed, ToSet
  <1>5. Len(plan) \in Nat /\ DOMAIN plan = 1 .. Len(plan) /\ fold \in DOMAIN plan
    <2>1. plan \in Seq(WindowSet)
      BY <1>2, PlanNow
    <2>2. Len(plan) \in Nat /\ DOMAIN plan = 1 .. Len(plan)
      BY ONLY <2>1
    <2> QED BY <1>2, <2>2
  <1>6. phase \notin Ended /\ (phase' \in Ended <=> fold = Len(plan))
    BY <1>1 DEF Ended
  <1>7. /\ ByClose \in Seq(Markets) /\ DOMAIN ByClose = 1 .. Len(ended)
        /\ \A i, j \in DOMAIN ByClose : i < j => ByClose[i] # ByClose[j] /\ Close[ByClose[i]] <= Close[ByClose[j]]
        /\ {ByClose[i] : i \in DOMAIN ByClose} = Came
    BY <1>2, ByCloseFacts
  <1>8. Len(ended) = Cardinality(Came) /\ Len(ended) \in Nat
    <2>1. Len(todo) + Cardinality(busy) + Len(ended) = Cardinality(Came)
      BY <1>2, <1>4, StreamCount
    <2>2. Len(todo) = 0 /\ Cardinality(busy) = 0
      BY <1>1, FS_EmptySet DEF Drained
    <2>3. ended \in Seq(T)
      BY <1>2 DEF PoolInv, PoolTypes
    <2> HIDE DEF T
    <2>4. Len(ended) \in Nat
      BY ONLY <2>3
    <2> QED BY ONLY <2>1, <2>2, <2>4
  <1>9. ByClose \in Promise!Orders(Came)
    <2> DEFINE s == ByClose
               n == Cardinality(Came)
    <2>1. s \in Seq(Markets) /\ DOMAIN s = 1 .. n /\ n \in Nat
      BY <1>7, <1>8
    <2>2. \A i \in 1 .. n : s[i] \in Came
      BY <1>7, <2>1
    <2>3. \A i, j \in 1 .. n : i < j => s[i] # s[j] /\ Close[s[i]] <= Close[s[j]]
      BY <1>7, <2>1
    <2> HIDE DEF s, n
    <2>4. s \in [1 .. n -> Came]
      BY ONLY <2>1, <2>2
    <2>5. \A i, j \in 1 .. n : i # j => s[i] # s[j]
      <3>1. ASSUME NEW i \in 1 .. n, NEW j \in 1 .. n, i # j
            PROVE  s[i] # s[j]
        <4>1. i < j \/ j < i
          BY ONLY <2>1, <3>1
        <4> QED BY <2>3, <4>1
      <3> QED BY <3>1
    <2> QED BY ONLY <2>3, <2>4, <2>5, OrdersOf DEF s, n
  <1>10. [i \in DOMAIN ByClose |-> Result(ByClose[i])] = Promise!Stamped(ByClose, learned)
    BY DEF Promise!Stamped, Result
  <1>11. Came \in SUBSET (Window.testStart + 1 .. Window.testEnd) /\ learned \in SUBSET (1 .. Window.trainEnd)
    BY <1>3, <1>4 DEF Tests
  <1>12. Promise!plans[opt] = plan /\ Promise!plans[opt][fold] = Window
    BY SamePlans DEF plan, Window
  <1>13. results' = results \o Promise!Stamped(ByClose, learned)
    BY <1>1, <1>10
  <1> HIDE DEF Drained
  <1>14. \E got \in SUBSET (Window.testStart + 1 .. Window.testEnd), some \in SUBSET (1 .. Window.trainEnd) :
           \E s \in Promise!Orders(got) : results' = results \o Promise!Stamped(s, some)
    BY ONLY <1>9, <1>11, <1>13
  <1>15. (phase' \in Ended) = (fold = Len(plan))
    BY ONLY <1>6
  <1> QED BY ONLY <1>1, <1>2, <1>5, <1>6, <1>12, <1>14, <1>15 DEF Promise!TestWindow

\* Whoever sees the results only sees an evaluation (Evaluation): windows
\* tested one after the other, each at once and by a model that has learned
\* nothing past its stretch, however the tapes came in, whatever failed, and
\* whichever process was killed over the files of another.
THEOREM DriverEvaluates ==
  ASSUME WalkForwardAssumptions
  PROVE  Spec => EvaluationSpec
  <1>1. Init => Promise!EvaluationInit
    BY DEF Init, Promise!EvaluationInit, Ended
  <1>2. WalkInv /\ [Next]_vars => [Promise!EvaluationNext]_(Promise!evaluation)
    <2> SUFFICES ASSUME WalkInv, [Next]_vars
                 PROVE  [Promise!EvaluationNext]_(Promise!evaluation)
      OBVIOUS
    <2>1. CASE UNCHANGED vars
      BY <2>1 DEF vars, memory, Promise!evaluation
    <2>2. CASE FinishFold
      BY <2>2, WindowTested DEF Promise!EvaluationNext
    <2>3. CASE RunPortfolio
      BY <2>3, PortfolioTested DEF Promise!EvaluationNext
    <2>4. CASE CountErrors \/ SpotFails \/ RefusePortfolio \/ WriteFails
      BY <2>4, Stops DEF Promise!EvaluationNext
    <2>5. CASE StartFolds
      BY <2>5, FoldsBegin DEF Promise!EvaluationNext
    <2>6. CASE Killed
      BY <2>6, Vanishes DEF Promise!EvaluationNext
    <2>7. CASE Restart
      BY <2>7, StartsAgain DEF Promise!EvaluationNext
    <2>8. ASSUME \/ JobMoves \/ \E targets \in SUBSET Markets : ListTargets(targets)
                 \/ StartPortfolio \/ ReuseSamples \/ CollectForPortfolio
                 \/ TrainFold \/ Collected \/ FitFold \/ EvaluatedFold
                 \/ \E selected \in BOOLEAN : FitPortfolio(selected)
                 \/ CreateSamplesFile \/ CreateSnapshotFile
                 \/ \E flushed \in BOOLEAN : FillSamplesFile(flushed) \/ FillSnapshotFile(flushed)
                 \/ Terminated
          PROVE  UNCHANGED Promise!evaluation
      BY <2>8, InnerSteps
    <2> QED BY <2>1, <2>2, <2>3, <2>4, <2>5, <2>6, <2>7, <2>8, NextTurns DEF Turns
  <1>3. Promise!EvaluationInit /\ [][Promise!EvaluationNext]_(Promise!evaluation) => EvaluationSpec
    BY PTL DEF EvaluationSpec, Promise!EvaluationSpec
  <1> QED BY <1>1, <1>2, <1>3, WalkInvHolds, PTL DEF Spec
=============================================================================
