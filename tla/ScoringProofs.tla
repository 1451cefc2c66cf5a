--------------------------- MODULE ScoringProofs ----------------------------
(***************************************************************************)
(* Proofs about Scoring for every value of its constants: rings hold the   *)
(* last entries pushed on them however often they wrap or are cleared; so  *)
(* a score reads the last events and nothing of the future, and a market   *)
(* leaves in the model what Portfolio takes it to leave.                   *)
(***************************************************************************)
EXTENDS ScoringProperties, FiniteSetTheorems, SequenceTheorems, ListLemmas
-----------------------------------------------------------------------------
(* Rings.                                                                  *)

\* A ring of cap places; until it is full its entries start at the first.
RingOf(r, cap) ==
  /\ r.buf = [i \in 0 .. cap - 1 |-> r.buf[i]]
  /\ r.head \in 0 .. cap - 1 /\ r.len \in 0 .. cap
  /\ r.len < cap => r.head = r.len

\* A place at most one round ahead.
LEMMA Wrap ==
  ASSUME NEW cap \in Nat \ {0}, NEW a \in 0 .. 2 * cap - 1
  PROVE  a % cap = IF a < cap THEN a ELSE a - cap
  <1>1. CASE a < cap
    BY <1>1
  <1>2. CASE a >= cap
    <2>1. a - cap \in 0 .. cap - 1 /\ a = cap + (a - cap)
      BY <1>2
    <2>2. a = 1 * cap + (a - cap)
      BY <2>1
    <2> QED BY <1>2, <2>1, <2>2
  <1> QED BY <1>1, <1>2

\* The capacity is the number of places.
LEMMA CapIs ==
  ASSUME NEW cap \in Nat \ {0}, NEW r, RingOf(r, cap)
  PROVE  Cap(r) = cap
  <1>1. DOMAIN r.buf = 0 .. cap - 1
    BY DEF RingOf
  <1>2. Cardinality(0 .. cap - 1) = cap
    BY FS_Interval
  <1> QED BY <1>1, <1>2 DEF Cap

\* Where the entries of a ring are.
LEMMA EntryIs ==
  ASSUME NEW cap \in Nat \ {0}, NEW r, RingOf(r, cap), NEW i \in 0 .. r.len - 1
  PROVE  /\ Entry(r, i) = r.buf[IF r.len < cap THEN i
                                ELSE IF r.head + i < cap THEN r.head + i ELSE r.head + i - cap]
  <1>1. Cap(r) = cap
    BY CapIs
  <1>2. r.head \in 0 .. cap - 1 /\ r.len \in 0 .. cap /\ (r.len < cap => r.head = r.len)
    BY DEF RingOf
  <1> DEFINE a == r.head + cap - r.len + i
  <1>3. a \in 0 .. 2 * cap - 1
    BY <1>2
  <1>4. a % cap = IF a < cap THEN a ELSE a - cap
    BY <1>3, Wrap
  <1>5. Entry(r, i) = r.buf[a % cap]
    BY <1>1 DEF Entry
  <1>6. (IF a < cap THEN a ELSE a - cap) = IF r.len < cap THEN i
                                ELSE IF r.head + i < cap THEN r.head + i ELSE r.head + i - cap
    BY <1>2
  <1> QED BY <1>4, <1>5, <1>6

\* A push takes the place of the oldest entry, once the ring is full.
LEMMA PushIs ==
  ASSUME NEW cap \in Nat \ {0}, NEW r, RingOf(r, cap), NEW x
  PROVE  LET q == PushRing(r, x)
         IN  /\ RingOf(q, cap)
             /\ q.len = IF r.len < cap THEN r.len + 1 ELSE cap
             /\ Entry(q, q.len - 1) = x
             /\ \A i \in 0 .. q.len - 2 : Entry(q, i) = Entry(r, i + (r.len + 1 - q.len))
  <1> DEFINE q == PushRing(r, x)
  <1>1. r.head \in 0 .. cap - 1 /\ r.len \in 0 .. cap /\ (r.len < cap => r.head = r.len)
    BY DEF RingOf
  <1>2. Cap(r) = cap
    BY CapIs
  <1>3. q.len = IF r.len < cap THEN r.len + 1 ELSE cap
    <2>1. q.len = Min({r.len + 1, cap})
      BY <1>2 DEF PushRing
    <2>2. Min({r.len + 1, cap}) \in {r.len + 1, cap} /\ Min({r.len + 1, cap}) <= r.len + 1
          /\ Min({r.len + 1, cap}) <= cap
      <3>1. r.len + 1 \in Int /\ cap \in Int
        BY <1>1
      <3> QED BY <3>1, MinOfTwo
    <2> QED BY <1>1, <2>1, <2>2
  <1>4. q.head = IF r.head + 1 < cap THEN r.head + 1 ELSE 0
    <2>1. q.head = (r.head + 1) % cap
      BY <1>2 DEF PushRing
    <2>2. r.head + 1 \in 0 .. 2 * cap - 1
      BY <1>1
    <2> QED BY <1>1, <2>1, <2>2, Wrap
  <1>5. q.buf = [r.buf EXCEPT ![r.head] = x]
    BY DEF PushRing
  <1> HIDE DEF q
  <1>6. /\ q.buf = [i \in 0 .. cap - 1 |-> q.buf[i]]
        /\ \A i \in 0 .. cap - 1 : q.buf[i] = IF i = r.head THEN x ELSE r.buf[i]
    BY <1>1, <1>5 DEF RingOf
  <1>7. RingOf(q, cap)
    <2>1. q.head \in 0 .. cap - 1 /\ q.len \in 0 .. cap /\ (q.len < cap => q.head = q.len)
      BY <1>1, <1>3, <1>4
    <2>2. q.buf = [i \in 0 .. cap - 1 |-> q.buf[i]]
      BY <1>6
    <2> QED BY <2>1, <2>2 DEF RingOf
  <1>8. Entry(q, q.len - 1) = x
    <2>1. q.len - 1 \in 0 .. q.len - 1
      BY <1>1, <1>3
    <2>2. Entry(q, q.len - 1) = q.buf[IF q.len < cap THEN q.len - 1
             ELSE IF q.head + (q.len - 1) < cap THEN q.head + (q.len - 1) ELSE q.head + (q.len - 1) - cap]
      BY <1>7, <2>1, EntryIs
    <2>3. (IF q.len < cap THEN q.len - 1
             ELSE IF q.head + (q.len - 1) < cap THEN q.head + (q.len - 1) ELSE q.head + (q.len - 1) - cap)
          = r.head
      BY <1>1, <1>3, <1>4
    <2> QED BY <1>1, <1>6, <2>2, <2>3
  <1>9. ASSUME NEW i \in 0 .. q.len - 2
        PROVE  Entry(q, i) = Entry(r, i + (r.len + 1 - q.len))
    <2> DEFINE k == i + (r.len + 1 - q.len)
               a == IF q.len < cap THEN i
                    ELSE IF q.head + i < cap THEN q.head + i ELSE q.head + i - cap
               b == IF r.len < cap THEN k
                    ELSE IF r.head + k < cap THEN r.head + k ELSE r.head + k - cap
    <2>1. i \in 0 .. q.len - 1 /\ k \in 0 .. r.len - 1
      BY <1>1, <1>3
    <2>2. Entry(q, i) = q.buf[a]
      BY <1>7, <2>1, EntryIs
    <2>3. Entry(r, k) = r.buf[b]
      <3> HIDE DEF k
      <3> QED BY <2>1, EntryIs
    <2>4. a = b /\ a \in 0 .. cap - 1 /\ a # r.head
      BY <1>1, <1>3, <1>4
    <2> HIDE DEF a, b
    <2> QED BY <1>6, <2>2, <2>3, <2>4
  <1> QED BY <1>3, <1>7, <1>8, <1>9 DEF q

\* A cleared ring is one, and so is a new one.
LEMMA EmptyRings ==
  ASSUME NEW cap \in Nat \ {0}
  PROVE  /\ RingOf(NewRing(cap), cap) /\ NewRing(cap).len = 0
         /\ \A r : RingOf(r, cap) => RingOf(ClearRing(r), cap) /\ ClearRing(r).len = 0
  <1>1. RingOf(NewRing(cap), cap) /\ NewRing(cap).len = 0
    BY DEF RingOf, NewRing
  <1>2. ASSUME NEW r, RingOf(r, cap) PROVE RingOf(ClearRing(r), cap) /\ ClearRing(r).len = 0
    BY <1>2 DEF RingOf, ClearRing
  <1> QED BY <1>1, <1>2

\* A ring holds the last of what was pushed on it, in that order.
RingHolds(r, cap, s) ==
  /\ RingOf(r, cap)
  /\ r.len = IF Len(s) < cap THEN Len(s) ELSE cap
  /\ \A i \in 0 .. r.len - 1 : Entry(r, i) = s[Len(s) - r.len + 1 + i]

\* Where an entry goes when one more is pushed.
LEMMA Shift ==
  ASSUME NEW n \in Nat, NEW cap \in Nat \ {0}, NEW l, l = (IF n < cap THEN n ELSE cap),
         NEW m \in Nat, m = (IF l < cap THEN l + 1 ELSE cap), NEW i \in 0 .. m - 2
  PROVE  /\ i + (l + 1 - m) \in 0 .. l - 1
         /\ n - l + 1 + (i + (l + 1 - m)) \in 1 .. n
         /\ n - l + 1 + (i + (l + 1 - m)) = n + 1 - m + 1 + i
  <1>1. CASE n < cap
    <2>1. l = n /\ m = n + 1
      BY <1>1
    <2> QED BY <2>1
  <1>2. CASE ~(n < cap)
    <2>1. l = cap /\ m = cap
      BY <1>2
    <2> QED BY <1>2, <2>1
  <1> QED BY <1>1, <1>2

\* It still does when one more is pushed.
LEMMA PushHolds ==
  ASSUME NEW cap \in Nat \ {0}, NEW S, NEW s \in Seq(S), NEW x \in S, NEW r, RingHolds(r, cap, s)
  PROVE  RingHolds(PushRing(r, x), cap, Append(s, x))
  <1> DEFINE q == PushRing(r, x)
             t == Append(s, x)
  <1>1. Len(s) \in Nat /\ Len(t) = Len(s) + 1 /\ t[Len(s) + 1] = x
        /\ \A i \in 1 .. Len(s) : t[i] = s[i]
    OBVIOUS
  <1>2. RingOf(r, cap) /\ r.len = (IF Len(s) < cap THEN Len(s) ELSE cap)
        /\ \A i \in 0 .. r.len - 1 : Entry(r, i) = s[Len(s) - r.len + 1 + i]
    BY DEF RingHolds
  <1>3. /\ RingOf(q, cap)
        /\ q.len = IF r.len < cap THEN r.len + 1 ELSE cap
        /\ Entry(q, q.len - 1) = x
        /\ \A i \in 0 .. q.len - 2 : Entry(q, i) = Entry(r, i + (r.len + 1 - q.len))
    BY <1>2, PushIs
  <1> HIDE DEF q, t
  <1>4. q.len = (IF Len(t) < cap THEN Len(t) ELSE cap) /\ q.len \in Nat /\ q.len <= Len(t)
    BY <1>1, <1>2, <1>3
  <1>5. ASSUME NEW i \in 0 .. q.len - 1 PROVE Entry(q, i) = t[Len(t) - q.len + 1 + i]
    <2>1. CASE i = q.len - 1
      <3>1. Len(t) - q.len + 1 + i = Len(s) + 1
        BY <1>1, <1>4, <2>1
      <3> QED BY <1>1, <1>3, <2>1, <3>1
    <2>2. CASE i # q.len - 1
      <3> DEFINE k == i + (r.len + 1 - q.len)
                 j == Len(s) - r.len + 1 + k
      <3>1. i \in 0 .. q.len - 2
        BY <1>4, <2>2
      <3>2. k \in 0 .. r.len - 1 /\ j \in 1 .. Len(s) /\ j = Len(t) - q.len + 1 + i
        <4>1. /\ Len(s) \in Nat /\ r.len = (IF Len(s) < cap THEN Len(s) ELSE cap)
              /\ q.len = (IF r.len < cap THEN r.len + 1 ELSE cap) /\ Len(t) = Len(s) + 1
          BY <1>1, <1>2, <1>3
        <4>2. q.len \in Nat
          BY <1>4
        <4>3. i \in 0 .. q.len - 2
          BY <3>1
        <4>4. /\ i + (r.len + 1 - q.len) \in 0 .. r.len - 1
              /\ Len(s) - r.len + 1 + (i + (r.len + 1 - q.len)) \in 1 .. Len(s)
              /\ Len(s) - r.len + 1 + (i + (r.len + 1 - q.len)) = Len(s) + 1 - q.len + 1 + i
          <5> DEFINE l == r.len
                     m == q.len
                     n == Len(s)
          <5> HIDE DEF l, m, n
          <5>1. /\ n \in Nat /\ l = (IF n < cap THEN n ELSE cap)
                /\ m = (IF l < cap THEN l + 1 ELSE cap) /\ m \in Nat /\ i \in 0 .. m - 2
            BY ONLY <4>1, <4>2, <4>3 DEF l, m, n
          <5>2. /\ i + (l + 1 - m) \in 0 .. l - 1
                /\ n - l + 1 + (i + (l + 1 - m)) \in 1 .. n
                /\ n - l + 1 + (i + (l + 1 - m)) = n + 1 - m + 1 + i
            BY ONLY <5>1, cap \in Nat \ {0}, Shift
          <5> QED BY ONLY <5>2 DEF l, m, n
        <4>5. Len(t) \in Int /\ r.len \in Int /\ i \in Int
          BY ONLY <4>1, <4>2, <4>3, cap \in Nat \ {0}
        <4>6. Len(t) - q.len + 1 + i = Len(s) + 1 - q.len + 1 + i
          BY ONLY <4>1, <4>2, <4>5
        <4> QED BY ONLY <4>4, <4>6
      <3>3. Entry(q, i) = Entry(r, k)
        BY <1>3, <3>1
      <3> HIDE DEF k
      <3>4. Entry(r, k) = s[j]
        BY <1>2, <3>2
      <3> HIDE DEF j
      <3> QED BY <1>1, <3>2, <3>3, <3>4
    <2> QED BY <2>1, <2>2
  <1> QED BY <1>3, <1>4, <1>5 DEF RingHolds, q, t

\* A new or a cleared ring holds nothing.
LEMMA EmptyHolds ==
  ASSUME NEW cap \in Nat \ {0}, NEW s, s = <<>>
  PROVE  RingHolds(NewRing(cap), cap, s) /\ \A r : RingOf(r, cap) => RingHolds(ClearRing(r), cap, s)
  <1>1. Len(s) = 0
    OBVIOUS
  <1> QED BY <1>1, EmptyRings DEF RingHolds
-----------------------------------------------------------------------------
(* The parts of a model.                                                   *)

\* A model has these parts, whatever is in them.
Shaped(m) ==
  DOMAIN m = {"mids", "dirs", "imbalance", "low", "high", "markov", "skew", "tod", "range",
              "close", "ranges", "lastAt", "pending", "calibrator"}

\* What Keep makes of them.
LEMMA KeepIs ==
  ASSUME NEW m, Shaped(m), NEW e
  PROVE  LET k == Keep(m, e)
         IN  /\ Shaped(k)
             /\ k.mids = PushRing(m.mids, e) /\ k.dirs = PushRing(m.dirs, e)
             /\ k.imbalance = PushRing(m.imbalance, e)
             /\ k.low = Lower(m.low, e) /\ k.high = Higher(m.high, e)
             /\ k.range = OnEvent(m.range, e) /\ k.lastAt = e.at
             /\ k.markov = m.markov /\ k.skew = m.skew /\ k.tod = m.tod /\ k.ranges = m.ranges
             /\ k.pending = m.pending /\ k.calibrator = m.calibrator
  BY DEF Keep, Shaped

\* What evaluate makes of them.
LEMMA EvaluatedIs ==
  ASSUME NEW m, Shaped(m), NEW e
  PROVE  LET k == Evaluated(m, e)
         IN  /\ Shaped(k)
             /\ k.mids = PushRing(m.mids, e) /\ k.dirs = PushRing(m.dirs, e)
             /\ k.imbalance = PushRing(m.imbalance, e)
             /\ k.low = Lower(m.low, e) /\ k.high = Higher(m.high, e)
             /\ k.range = OnEvent(m.range, e) /\ k.lastAt = e.at
             /\ k.markov = Observe(m.markov, e)
             /\ k.skew = m.skew /\ k.tod = m.tod /\ k.ranges = m.ranges
             /\ k.pending = e.market /\ k.calibrator = m.calibrator
  <1> DEFINE h == Keep(m, e)
  <1>1. Evaluated(m, e) = [h EXCEPT !.markov = Observe(m.markov, e), !.pending = e.market]
    BY DEF Evaluated
  <1>2. /\ Shaped(h)
        /\ h.mids = PushRing(m.mids, e) /\ h.dirs = PushRing(m.dirs, e)
        /\ h.imbalance = PushRing(m.imbalance, e)
        /\ h.low = Lower(m.low, e) /\ h.high = Higher(m.high, e)
        /\ h.range = OnEvent(m.range, e) /\ h.lastAt = e.at
        /\ h.skew = m.skew /\ h.tod = m.tod /\ h.ranges = m.ranges
        /\ h.calibrator = m.calibrator
    BY KeepIs
  <1> HIDE DEF h
  <1> QED BY <1>1, <1>2 DEF Shaped

\* What the result of a market makes of them: of m, k.
IsResult(k, m, mid, predicted, resolved) ==
  LET b == BucketIdx(mid)
      h == HourBucket(m.lastAt)
  IN  /\ Shaped(k)
      /\ k.mids = ClearRing(m.mids) /\ k.dirs = ClearRing(m.dirs)
      /\ k.imbalance = ClearRing(m.imbalance)
      /\ k.low = NoEvent /\ k.high = NoEvent /\ k.markov = FreshMarkov
      /\ k.range = NoRange /\ k.pending = 0 /\ k.lastAt = m.lastAt
      /\ k.skew = [m.skew EXCEPT ![b] = Recorded(m.skew[b], predicted, resolved)]
      /\ k.tod = [m.tod EXCEPT ![h] = Recorded(m.tod[h], predicted, resolved)]
      /\ m.range = NoRange => k.ranges = m.ranges
      /\ m.range # NoRange =>
           \E width : k.ranges = PushRing(m.ranges, [market |-> m.range.market, range |-> width])
      /\ k.calibrator = IF m.pending = 0 THEN m.calibrator ELSE Append(m.calibrator, m.pending)

\* Recording a result clears the rings and goes on with the tables.
LEMMA ResultIs ==
  ASSUME NEW m, Shaped(m), NEW mid, NEW predicted, NEW resolved
  PROVE  IsResult(MarketResult(m, mid, predicted, resolved), m, mid, predicted, resolved)
  <1> DEFINE b == BucketIdx(mid)
             h == HourBucket(m.lastAt)
             t == [m EXCEPT !.skew[b] = Recorded(@, predicted, resolved),
                            !.tod[h] = Recorded(@, predicted, resolved)]
             f == Finalize(t, mid)
             c == IF m.pending = 0 THEN f ELSE [f EXCEPT !.calibrator = Append(@, m.pending)]
  <1>1. MarketResult(m, mid, predicted, resolved) = ResetMarketRollingState(c)
    BY DEF MarketResult
  <1>2. /\ Shaped(t)
        /\ t.skew = [m.skew EXCEPT ![b] = Recorded(m.skew[b], predicted, resolved)]
        /\ t.tod = [m.tod EXCEPT ![h] = Recorded(m.tod[h], predicted, resolved)]
        /\ t.mids = m.mids /\ t.dirs = m.dirs /\ t.imbalance = m.imbalance
        /\ t.range = m.range /\ t.ranges = m.ranges /\ t.lastAt = m.lastAt
        /\ t.calibrator = m.calibrator
    BY DEF Shaped
  <1> HIDE DEF t
  <1>3. /\ Shaped(f) /\ f.skew = t.skew /\ f.tod = t.tod
        /\ f.mids = t.mids /\ f.dirs = t.dirs /\ f.imbalance = t.imbalance
        /\ f.lastAt = t.lastAt /\ f.calibrator = t.calibrator /\ f.range = NoRange
        /\ t.range = NoRange => f.ranges = t.ranges
        /\ t.range # NoRange =>
             \E width : f.ranges = PushRing(t.ranges, [market |-> t.range.market, range |-> width])
    <2>1. CASE t.range = NoRange
      BY <1>2, <2>1 DEF Finalize
    <2>2. CASE t.range # NoRange
      <3> DEFINE width == IF t.ranges.len = 0 THEN t.range.high - t.range.low
                         ELSE Max({t.range.high - t.range.low, Gap(mid, t.close)})
      <3>1. f = [t EXCEPT !.range = NoRange, !.close = mid,
                          !.ranges = PushRing(@, [market |-> t.range.market, range |-> width])]
        BY <2>2 DEF Finalize
      <3> HIDE DEF width, f
      <3> QED BY <1>2, <2>2, <3>1 DEF Shaped
    <2> QED BY <2>1, <2>2
  <1> HIDE DEF f
  <1>4. /\ Shaped(c) /\ c.skew = f.skew /\ c.tod = f.tod
        /\ c.mids = f.mids /\ c.dirs = f.dirs /\ c.imbalance = f.imbalance
        /\ c.lastAt = f.lastAt /\ c.range = f.range /\ c.ranges = f.ranges
        /\ c.calibrator = IF m.pending = 0 THEN f.calibrator ELSE Append(f.calibrator, m.pending)
    BY <1>3 DEF Shaped
  <1> HIDE DEF c
  <1> DEFINE k == ResetMarketRollingState(c)
  <1>5. /\ Shaped(k) /\ k.skew = c.skew /\ k.tod = c.tod
        /\ k.mids = ClearRing(c.mids) /\ k.dirs = ClearRing(c.dirs)
        /\ k.imbalance = ClearRing(c.imbalance)
        /\ k.low = NoEvent /\ k.high = NoEvent /\ k.markov = FreshMarkov
        /\ k.lastAt = c.lastAt /\ k.range = c.range /\ k.ranges = c.ranges /\ k.pending = 0
        /\ k.calibrator = c.calibrator
    BY <1>4 DEF Shaped, ResetMarketRollingState
  <1> HIDE DEF k
  <1>6. /\ k.skew = [m.skew EXCEPT ![b] = Recorded(m.skew[b], predicted, resolved)]
        /\ k.tod = [m.tod EXCEPT ![h] = Recorded(m.tod[h], predicted, resolved)]
    BY ONLY <1>2, <1>3, <1>4, <1>5
  <1>7. /\ k.mids = ClearRing(m.mids) /\ k.dirs = ClearRing(m.dirs)
        /\ k.imbalance = ClearRing(m.imbalance) /\ k.range = NoRange /\ k.lastAt = m.lastAt
        /\ k.calibrator = IF m.pending = 0 THEN m.calibrator
                          ELSE Append(m.calibrator, m.pending)
    BY ONLY <1>2, <1>3, <1>4, <1>5
  <1>8. /\ m.range = NoRange => k.ranges = m.ranges
        /\ m.range # NoRange =>
             \E width : k.ranges = PushRing(m.ranges, [market |-> m.range.market, range |-> width])
    <2>1. k.ranges = f.ranges /\ t.range = m.range /\ t.ranges = m.ranges
      BY ONLY <1>2, <1>4, <1>5
    <2>2. CASE m.range = NoRange
      BY ONLY <1>3, <2>1, <2>2
    <2>3. CASE m.range # NoRange
      <3>1. PICK width : f.ranges = PushRing(t.ranges, [market |-> t.range.market, range |-> width])
        BY ONLY <1>3, <2>1, <2>3
      <3>2. k.ranges = PushRing(m.ranges, [market |-> m.range.market, range |-> width])
        BY ONLY <2>1, <3>1
      <3> QED BY ONLY <2>3, <3>2
    <2> QED BY ONLY <2>2, <2>3
  <1>9. MarketResult(m, mid, predicted, resolved) = k
    BY <1>1 DEF k
  <1>10. IsResult(k, m, mid, predicted, resolved)
    BY ONLY <1>5, <1>6, <1>7, <1>8 DEF IsResult
  <1> QED BY ONLY <1>9, <1>10

\* The parts of a new model, with a snapshot or without.
LEMMA NewIs ==
  ASSUME NEW snapshot
  PROVE  LET k == [NewScores EXCEPT !.calibrator = snapshot]
         IN  /\ Shaped(k) /\ Shaped(NewScores) /\ k.calibrator = snapshot
             /\ k.mids = NewScores.mids /\ k.dirs = NewScores.dirs
             /\ k.imbalance = NewScores.imbalance /\ k.low = NewScores.low
             /\ k.high = NewScores.high /\ k.markov = NewScores.markov
             /\ k.skew = NewScores.skew /\ k.tod = NewScores.tod
             /\ k.range = NewScores.range /\ k.ranges = NewScores.ranges
             /\ k.lastAt = NewScores.lastAt /\ k.pending = NewScores.pending
  <1>1. Shaped(NewScores)
    BY DEF Shaped, NewScores
  <1> QED BY <1>1 DEF Shaped
-----------------------------------------------------------------------------
(* What a model keeps of the events since the last recorded result.        *)

Events == [market : 1 .. TestMarkets, nth : Nat, at : Int, mid : 0 .. 100, side : BOOLEAN]

\* What of an event matters here.
LEMMA EventIs ==
  ASSUME NEW e \in Events
  PROVE  /\ e.market \in Int /\ e.market >= 1 /\ e.market <= TestMarkets /\ e.at \in Int
         /\ e.mid \in Int /\ 0 <= e.mid /\ e.mid <= 100
         /\ e.side \in BOOLEAN /\ e # NoEvent
  <1>1. e.market \in 1 .. TestMarkets /\ e.at \in Int /\ e.mid \in 0 .. 100 /\ e.side \in BOOLEAN
    BY DEF Events
  <1>2. NoEvent.market = 0
    BY DEF NoEvent
  <1>3. TestMarkets \in Nat
    BY ScoringAssumptions
  <1> QED BY <1>1, <1>2, <1>3

\* Where the side a was followed by the side b.
Moves(s, a, b) == {i \in 2 .. Len(s) : s[i - 1].side = a /\ s[i].side = b}

LastOf(s) == IF s = <<>> THEN NoEvent ELSE s[Len(s)]

\* x is the lowest, y the highest event of s.
AreExtremes(x, y, s) ==
  IF s = <<>> THEN x = NoEvent /\ y = NoEvent
  ELSE /\ \E i \in 1 .. Len(s) : x = s[i] /\ \A j \in 1 .. Len(s) : s[i].mid <= s[j].mid
       /\ \E i \in 1 .. Len(s) : y = s[i] /\ \A j \in 1 .. Len(s) : s[j].mid <= s[i].mid

Counts(markov, s) ==
  /\ DOMAIN markov.moves = BOOLEAN
  /\ \A a \in BOOLEAN : DOMAIN markov.moves[a] = BOOLEAN
  /\ \A a, b \in BOOLEAN : markov.moves[a][b] = Cardinality(Moves(s, a, b))
  /\ markov.last = LastOf(s)

Remembers(m, s) ==
  /\ RingHolds(m.mids, MidsCap, s)
  /\ RingHolds(m.dirs, DirCap, s)
  /\ RingHolds(m.imbalance, ImbalanceCap, s)
  /\ AreExtremes(m.low, m.high, s)
  /\ Counts(m.markov, s)

\* One more event, lower or higher or neither.
LEMMA ExtremesHold ==
  ASSUME NEW s \in Seq(Events), NEW e \in Events, NEW x, NEW y, AreExtremes(x, y, s)
  PROVE  AreExtremes(Lower(x, e), Higher(y, e), Append(s, e))
  <1> DEFINE t == Append(s, e)
             n == Len(s)
  <1>1. /\ n \in Nat /\ Len(t) = n + 1 /\ t # <<>> /\ t[n + 1] = e
        /\ \A i \in 1 .. n : t[i] = s[i] /\ s[i] \in Events
    BY AppendProperties
  <1>2. \A i \in 1 .. n : s[i].mid \in Int /\ s[i] # NoEvent
    BY <1>1, EventIs
  <1>3. e.mid \in Int
    BY EventIs
  <1>4. n + 1 \in 1 .. n + 1 /\ \A i \in 1 .. n : i \in 1 .. n + 1
    BY <1>1
  <1>5. \A i \in 1 .. n + 1 : i \in 1 .. n \/ i = n + 1
    BY <1>1
  <1>6. CASE s = <<>>
    <2>1. Lower(x, e) = e /\ Higher(y, e) = e /\ n = 0
      BY <1>6 DEF AreExtremes, Lower, Higher
    <2> HIDE DEF t
    <2>2. AreExtremes(e, e, t)
      <3>1. \A j \in 1 .. n + 1 : t[j] = e
        BY <1>1, <2>1
      <3> QED BY <1>1, <1>3, <1>4, <3>1 DEF AreExtremes
    <2> QED BY <2>1, <2>2 DEF t
  <1>7. CASE s # <<>>
    <2>1. PICK i \in 1 .. n : x = s[i] /\ \A j \in 1 .. n : s[i].mid <= s[j].mid
      BY <1>7 DEF AreExtremes
    <2>2. PICK k \in 1 .. n : y = s[k] /\ \A j \in 1 .. n : s[j].mid <= s[k].mid
      BY <1>7 DEF AreExtremes
    <2>3. \E l \in 1 .. n + 1 : Lower(x, e) = t[l] /\ \A j \in 1 .. n + 1 : t[l].mid <= t[j].mid
      <3> HIDE DEF t, n
      <3>1. CASE e.mid < x.mid
        <4>1. Lower(x, e) = e
          BY <3>1 DEF Lower
        <4>2. \A j \in 1 .. n : e.mid <= s[j].mid
          BY <1>2, <1>3, <2>1, <3>1
        <4>3. \A j \in 1 .. n + 1 : e.mid <= t[j].mid
          BY <1>1, <1>3, <1>5, <4>2
        <4> QED BY <1>1, <1>4, <4>1, <4>3
      <3>2. CASE ~(e.mid < x.mid)
        <4>1. Lower(x, e) = t[i]
          BY <1>1, <1>2, <2>1, <3>2 DEF Lower
        <4>2. \A j \in 1 .. n + 1 : t[i].mid <= t[j].mid
          BY <1>1, <1>2, <1>3, <1>5, <2>1, <3>2
        <4> QED BY <1>4, <4>1, <4>2
      <3> QED BY <3>1, <3>2
    <2>4. \E l \in 1 .. n + 1 : Higher(y, e) = t[l] /\ \A j \in 1 .. n + 1 : t[j].mid <= t[l].mid
      <3> HIDE DEF t, n
      <3>1. CASE e.mid > y.mid
        <4>1. Higher(y, e) = e
          BY <3>1 DEF Higher
        <4>2. \A j \in 1 .. n + 1 : t[j].mid <= e.mid
          BY <1>1, <1>2, <1>3, <1>5, <2>2, <3>1
        <4> QED BY <1>1, <1>4, <4>1, <4>2
      <3>2. CASE ~(e.mid > y.mid)
        <4>1. Higher(y, e) = t[k]
          BY <1>1, <1>2, <2>2, <3>2 DEF Higher
        <4>2. \A j \in 1 .. n + 1 : t[j].mid <= t[k].mid
          BY <1>1, <1>2, <1>3, <1>5, <2>2, <3>2
        <4> QED BY <1>4, <4>1, <4>2
      <3> QED BY <3>1, <3>2
    <2> HIDE DEF t
    <2>5. AreExtremes(Lower(x, e), Higher(y, e), t)
      <3> HIDE DEF n
      <3> QED BY <1>1, <2>3, <2>4 DEF AreExtremes
    <2> QED BY <2>5 DEF t
  <1> QED BY <1>6, <1>7

\* There are finitely many moves.
LEMMA MovesAreFinite ==
  ASSUME NEW S, NEW s \in Seq(S), NEW a, NEW b
  PROVE  IsFiniteSet(Moves(s, a, b)) /\ Cardinality(Moves(s, a, b)) \in Nat
  <1>1. IsFiniteSet(2 .. Len(s))
    BY FS_Interval
  <1>2. Moves(s, a, b) \in SUBSET (2 .. Len(s))
    BY DEF Moves
  <1> QED BY <1>1, <1>2, FS_Subset, FS_CardinalityType

\* One more move, once there is an event to move from.
LEMMA CountsHold ==
  ASSUME NEW s \in Seq(Events), NEW e \in Events, NEW markov, Counts(markov, s)
  PROVE  Counts(Observe(markov, e), Append(s, e))
  <1> DEFINE t == Append(s, e)
             n == Len(s)
             q == Observe(markov, e)
  <1>1. /\ n \in Nat /\ Len(t) = n + 1 /\ t # <<>> /\ t[n + 1] = e
        /\ \A i \in 1 .. n : t[i] = s[i] /\ s[i] \in Events
    BY AppendProperties
  <1>2. e.side \in BOOLEAN /\ \A i \in 1 .. n : s[i].side \in BOOLEAN /\ s[i] # NoEvent
    BY <1>1, EventIs
  <1>3. q.last = LastOf(t)
    BY <1>1 DEF Observe, LastOf
  <1>4. CASE s = <<>>
    <2>1. q.moves = markov.moves /\ n = 0
      BY <1>4 DEF Observe, Counts, LastOf
    <2>2. \A a, b : Moves(t, a, b) = {} /\ Moves(s, a, b) = {}
      <3> HIDE DEF t
      <3> QED BY <1>1, <2>1 DEF Moves
    <2> HIDE DEF q, t
    <2>3. Counts(q, t)
      BY <1>3, <2>1, <2>2 DEF Counts
    <2> QED BY <2>3 DEF q, t
  <1>5. CASE s # <<>>
    <2>1. n \in 1 .. n /\ markov.last = s[n] /\ markov.last # NoEvent
      <3>1. n # 0
        BY <1>5, EmptySeq
      <3> QED BY <1>1, <1>2, <1>5, <3>1 DEF Counts, LastOf
    <2> DEFINE c == s[n].side
    <2>2. c \in BOOLEAN
      BY <1>2, <2>1
    <2>3. q.moves = [markov.moves EXCEPT ![c][e.side] = @ + 1]
      BY <2>1 DEF Observe
    <2> HIDE DEF q, t
    <2>4. ASSUME NEW a \in BOOLEAN, NEW b \in BOOLEAN
          PROVE  Moves(t, a, b) = IF a = c /\ b = e.side THEN Moves(s, a, b) \cup {n + 1}
                                  ELSE Moves(s, a, b)
      <3>1. \A i \in 2 .. n : t[i] = s[i] /\ t[i - 1] = s[i - 1]
        BY <1>1
      <3>2. t[n + 1].side = e.side /\ t[n].side = c
        BY <1>1, <2>1
      <3>3. \A i : i \in 2 .. n + 1 <=> i \in 2 .. n \/ i = n + 1
        BY <1>1, <2>1
      <3>4. n + 1 - 1 = n
        BY <1>1
      <3> HIDE DEF c
      <3>5. \A i : i \in Moves(t, a, b) <=> \/ i \in Moves(s, a, b)
                                           \/ (i = n + 1 /\ a = c /\ b = e.side)
        <4>1. \A i : i \in Moves(t, a, b) <=> i \in 2 .. n + 1 /\ t[i - 1].side = a /\ t[i].side = b
          BY <1>1 DEF Moves
        <4>2. \A i : i \in Moves(s, a, b) <=> i \in 2 .. n /\ s[i - 1].side = a /\ s[i].side = b
          BY DEF Moves
        <4> HIDE DEF n
        <4> SUFFICES ASSUME NEW i
                     PROVE  i \in Moves(t, a, b) <=> \/ i \in Moves(s, a, b)
                                                    \/ (i = n + 1 /\ a = c /\ b = e.side)
          OBVIOUS
        <4>3. CASE i \in 2 .. n
          <5>1. i # n + 1
            BY <1>1, <4>3
          <5> QED BY <3>1, <3>3, <4>1, <4>2, <4>3, <5>1
        <4>4. CASE i = n + 1
          <5>1. i \notin 2 .. n /\ i \in 2 .. n + 1 /\ i - 1 = n
            BY <1>1, <3>3, <3>4, <4>4
          <5> QED BY <3>2, <4>1, <4>2, <4>4, <5>1
        <4>5. CASE i \notin 2 .. n /\ i # n + 1
          BY <3>3, <4>1, <4>2, <4>5
        <4> QED BY <4>3, <4>4, <4>5
      <3> HIDE DEF n
      <3> QED BY <3>5
    <2>5. \A a, b \in BOOLEAN : n + 1 \notin Moves(s, a, b)
      BY <1>1 DEF Moves
    <2>6. \A a, b \in BOOLEAN : Cardinality(Moves(t, a, b))
            = IF a = c /\ b = e.side THEN Cardinality(Moves(s, a, b)) + 1
              ELSE Cardinality(Moves(s, a, b))
      <3> SUFFICES ASSUME NEW a \in BOOLEAN, NEW b \in BOOLEAN
                   PROVE  Cardinality(Moves(t, a, b))
                            = IF a = c /\ b = e.side THEN Cardinality(Moves(s, a, b)) + 1
                              ELSE Cardinality(Moves(s, a, b))
        OBVIOUS
      <3>1. IsFiniteSet(Moves(s, a, b)) /\ n + 1 \notin Moves(s, a, b)
        BY <2>5, MovesAreFinite
      <3>2. Cardinality(Moves(s, a, b) \cup {n + 1}) = Cardinality(Moves(s, a, b)) + 1
        BY <3>1, FS_AddElement
      <3> HIDE DEF c, n
      <3> QED BY <2>4, <3>2
    <2>7. /\ DOMAIN markov.moves = BOOLEAN
          /\ \A a \in BOOLEAN : DOMAIN markov.moves[a] = BOOLEAN
          /\ \A a, b \in BOOLEAN : markov.moves[a][b] = Cardinality(Moves(s, a, b))
      BY DEF Counts
    <2> DEFINE w == markov.moves
    <2> HIDE DEF c, w
    <2>8. /\ DOMAIN w = BOOLEAN /\ \A a \in BOOLEAN : DOMAIN w[a] = BOOLEAN
          /\ \A a, b \in BOOLEAN : w[a][b] = Cardinality(Moves(s, a, b))
          /\ q.moves = [w EXCEPT ![c] = [w[c] EXCEPT ![e.side] = w[c][e.side] + 1]]
      BY <2>2, <2>3, <2>7 DEF w
    <2>9. /\ DOMAIN q.moves = BOOLEAN /\ \A a \in BOOLEAN : DOMAIN q.moves[a] = BOOLEAN
          /\ \A a, b \in BOOLEAN : q.moves[a][b] = IF a = c /\ b = e.side THEN w[a][b] + 1 ELSE w[a][b]
      BY <1>2, <2>2, <2>8
    <2>10. Counts(q, t)
      BY <1>3, <2>6, <2>8, <2>9 DEF Counts
    <2> QED BY <2>10 DEF q, t
  <1> QED BY <1>4, <1>5

\* An event is evaluated.
LEMMA EvaluatedRemembers ==
  ASSUME NEW m, Shaped(m), NEW s \in Seq(Events), NEW e \in Events, Remembers(m, s)
  PROVE  Remembers(Evaluated(m, e), Append(s, e))
  <1> DEFINE k == Evaluated(m, e)
  <1>1. /\ k.mids = PushRing(m.mids, e) /\ k.dirs = PushRing(m.dirs, e)
        /\ k.imbalance = PushRing(m.imbalance, e)
        /\ k.low = Lower(m.low, e) /\ k.high = Higher(m.high, e)
        /\ k.markov = Observe(m.markov, e)
    BY EvaluatedIs
  <1> HIDE DEF k
  <1>2. {MidsCap, DirCap, ImbalanceCap} \subseteq Nat \ {0}
    BY ScoresAssumptions
  <1>3. /\ RingHolds(m.mids, MidsCap, s) /\ RingHolds(m.dirs, DirCap, s)
        /\ RingHolds(m.imbalance, ImbalanceCap, s)
        /\ AreExtremes(m.low, m.high, s) /\ Counts(m.markov, s)
    BY DEF Remembers
  <1>4. RingHolds(k.mids, MidsCap, Append(s, e))
    BY <1>1, <1>2, <1>3, PushHolds
  <1>5. RingHolds(k.dirs, DirCap, Append(s, e))
    BY <1>1, <1>2, <1>3, PushHolds
  <1>6. RingHolds(k.imbalance, ImbalanceCap, Append(s, e))
    BY <1>1, <1>2, <1>3, PushHolds
  <1>7. AreExtremes(k.low, k.high, Append(s, e))
    BY <1>1, <1>3, ExtremesHold
  <1>8. Counts(k.markov, Append(s, e))
    BY <1>1, <1>3, CountsHold
  <1> QED BY <1>4, <1>5, <1>6, <1>7, <1>8 DEF Remembers, k

\* Before the first event.
LEMMA NothingCounted ==
  ASSUME NEW s, s = <<>>
  PROVE  Counts(FreshMarkov, s) /\ AreExtremes(NoEvent, NoEvent, s)
  <1>1. Len(s) = 0
    OBVIOUS
  <1>2. \A a, b : Moves(s, a, b) = {}
    BY <1>1 DEF Moves
  <1>3. Cardinality({}) = 0
    BY FS_EmptySet
  <1>4. AreExtremes(NoEvent, NoEvent, s)
    BY DEF AreExtremes
  <1>5. FreshMarkov.last = LastOf(s)
    BY DEF FreshMarkov, LastOf
  <1>6. FreshMarkov.moves = [a \in BOOLEAN |-> [b \in BOOLEAN |-> 0]]
    BY DEF FreshMarkov
  <1>7. \A a, b \in BOOLEAN : Cardinality(Moves(s, a, b)) = 0
    BY <1>2, <1>3
  <1> QED BY <1>4, <1>5, <1>6, <1>7 DEF Counts

\* A result is recorded.
LEMMA ResultForgets ==
  ASSUME NEW m, Shaped(m), NEW s, Remembers(m, s), NEW mid, NEW predicted, NEW resolved,
         NEW t, t = <<>>
  PROVE  Remembers(MarketResult(m, mid, predicted, resolved), t)
  <1> DEFINE k == MarketResult(m, mid, predicted, resolved)
  <1>0. IsResult(k, m, mid, predicted, resolved)
    BY ResultIs
  <1> HIDE DEF k
  <1>1. /\ k.mids = ClearRing(m.mids) /\ k.dirs = ClearRing(m.dirs)
        /\ k.imbalance = ClearRing(m.imbalance)
        /\ k.low = NoEvent /\ k.high = NoEvent /\ k.markov = FreshMarkov
    BY <1>0 DEF IsResult
  <1>2. {MidsCap, DirCap, ImbalanceCap} \subseteq Nat \ {0}
    BY ScoresAssumptions
  <1>3. RingOf(m.mids, MidsCap) /\ RingOf(m.dirs, DirCap) /\ RingOf(m.imbalance, ImbalanceCap)
    BY DEF Remembers, RingHolds
  <1>4. RingHolds(k.mids, MidsCap, t) /\ RingHolds(k.dirs, DirCap, t)
        /\ RingHolds(k.imbalance, ImbalanceCap, t)
    BY <1>1, <1>2, <1>3, EmptyHolds
  <1> QED BY <1>1, <1>4, NothingCounted DEF Remembers, k

\* A new model.
LEMMA NewRemembers ==
  ASSUME NEW m, NEW t, t = <<>>, m.mids = NewScores.mids, m.dirs = NewScores.dirs,
         m.imbalance = NewScores.imbalance, m.low = NewScores.low, m.high = NewScores.high,
         m.markov = NewScores.markov
  PROVE  Remembers(m, t)
  <1>1. /\ m.mids = NewRing(MidsCap) /\ m.dirs = NewRing(DirCap)
        /\ m.imbalance = NewRing(ImbalanceCap)
        /\ m.low = NoEvent /\ m.high = NoEvent /\ m.markov = FreshMarkov
    BY DEF NewScores
  <1>2. {MidsCap, DirCap, ImbalanceCap} \subseteq Nat \ {0}
    BY ScoresAssumptions
  <1>3. RingHolds(m.mids, MidsCap, t) /\ RingHolds(m.dirs, DirCap, t)
        /\ RingHolds(m.imbalance, ImbalanceCap, t)
    BY <1>1, <1>2, EmptyHolds
  <1> QED BY <1>1, <1>3, NothingCounted DEF Remembers
-----------------------------------------------------------------------------
(* What an evaluation reads of what was kept.                              *)

\* The last of the events: all of them, or as many as asked for.
LEMMA SuffixIs ==
  ASSUME seen \in Seq(Events), NEW n \in Nat \ {0}, NEW k, k = IF Len(seen) < n THEN Len(seen) ELSE n
  PROVE  /\ Suffix(n) \in Seq(Events) /\ Len(Suffix(n)) = k
         /\ k \in Nat /\ Len(seen) \in Nat /\ k <= Len(seen)
         /\ \A i \in 1 .. k : Suffix(n)[i] = seen[Len(seen) - k + i]
  <1> DEFINE l == Len(seen)
             m == Max({1, l - n + 1})
  <1>1. l \in Nat /\ \A i \in 1 .. l : seen[i] \in Events
    BY LenProperties, ElementOfSeq
  <1>2. m = l - k + 1 /\ k \in Nat /\ k <= l
    <2>1. 1 \in Int /\ l - n + 1 \in Int
      BY <1>1
    <2> DEFINE b == l - n + 1
    <2>2. m \in {1, b} /\ 1 <= m /\ b <= m
      <3>1. b \in Int /\ m = Max({1, b})
        BY <2>1
      <3> HIDE DEF b, m
      <3> QED BY <2>1, <3>1, MaxOfTwo
    <2> HIDE DEF m
    <2> QED BY <1>1, <2>2
  <1>3. Suffix(n) = SubSeq(seen, m, l)
    BY DEF Suffix
  <1> HIDE DEF m, l
  <1>4. m \in Int /\ l \in Int /\ (m <= l => l - m + 1 = k) /\ (~(m <= l) => k = 0) /\ l - m + 1 = k
        /\ \A i \in m .. l : i \in 1 .. l
    BY <1>1, <1>2
  <1>5. /\ SubSeq(seen, m, l) \in Seq(Events)
        /\ Len(SubSeq(seen, m, l)) = IF m <= l THEN l - m + 1 ELSE 0
        /\ \A i \in 1 .. l - m + 1 : SubSeq(seen, m, l)[i] = seen[m + i - 1]
    BY <1>1, <1>4, SubSeqProperties
  <1>6. Len(Suffix(n)) = k
    BY <1>3, <1>4, <1>5
  <1>7. \A i \in 1 .. k : Suffix(n)[i] = seen[l - k + i]
    <2>1. \A i \in 1 .. k : m + i - 1 = l - k + i
      BY <1>1, <1>2
    <2> QED BY <1>3, <1>4, <1>5, <2>1
  <1> QED BY <1>1, <1>2, <1>3, <1>5, <1>6, <1>7 DEF l

\* What the means, deviations and flips go through.
LEMMA LastNIs ==
  ASSUME seen \in Seq(Events), NEW cap \in Nat \ {0}, NEW r, RingHolds(r, cap, seen),
         NEW n \in Nat \ {0}
  PROVE  LastN(r, n) = Suffix(Min({n, cap}))
  <1> DEFINE l == Len(seen)
             c == Min({n, cap})
             k == IF l < c THEN l ELSE c
             j == Min({n, r.len})
  <1>1. l \in Nat
    BY LenProperties
  <1>2. c \in {n, cap} /\ c <= n /\ c <= cap
    BY MinOfTwo
  <1>3. r.len = (IF l < cap THEN l ELSE cap) /\ \A i \in 0 .. r.len - 1 : Entry(r, i) = seen[l - r.len + 1 + i]
    BY DEF RingHolds
  <1>4. r.len \in Nat
    BY <1>1, <1>3
  <1>5. j \in {n, r.len} /\ j <= n /\ j <= r.len
    <2>1. n \in Int /\ r.len \in Int
      BY <1>4
    <2> QED BY <2>1, MinOfTwo
  <1>6. LastN(r, n) = [i \in 1 .. j |-> Entry(r, r.len - j + i - 1)]
    BY DEF LastN
  <1> HIDE DEF l, c, j
  <1>7. j = k /\ c \in Nat \ {0} /\ k \in Nat /\ k <= r.len /\ r.len <= l
    BY <1>1, <1>2, <1>3, <1>4, <1>5
  <1>8. /\ Suffix(c) \in Seq(Events) /\ Len(Suffix(c)) = k
        /\ \A i \in 1 .. k : Suffix(c)[i] = seen[l - k + i]
    <2> HIDE DEF k
    <2>1. k = IF Len(seen) < c THEN Len(seen) ELSE c
      BY DEF k, l
    <2> QED BY <1>7, <2>1, SuffixIs DEF l
  <1> HIDE DEF k
  <1>9. \A i \in 1 .. k : Entry(r, r.len - k + i - 1) = seen[l - k + i]
    <2> SUFFICES ASSUME NEW i \in 1 .. k PROVE Entry(r, r.len - k + i - 1) = seen[l - k + i]
      OBVIOUS
    <2>1. r.len - k + i - 1 \in 0 .. r.len - 1 /\ l - r.len + 1 + (r.len - k + i - 1) = l - k + i
      BY <1>1, <1>4, <1>7
    <2> QED BY <1>3, <2>1
  <1>10. Suffix(c) = [i \in 1 .. k |-> Suffix(c)[i]]
    BY <1>8, LenProperties
  <1>11. [i \in 1 .. k |-> Entry(r, r.len - k + i - 1)] = [i \in 1 .. k |-> Suffix(c)[i]]
    BY <1>8, <1>9
  <1> QED BY <1>6, <1>7, <1>10, <1>11 DEF c

\* All of them.
LEMMA LiveIs ==
  ASSUME seen \in Seq(Events), NEW cap \in Nat \ {0}, NEW r, RingHolds(r, cap, seen)
  PROVE  Live(r) = Suffix(cap)
  <1>1. Len(seen) \in Nat /\ r.len = (IF Len(seen) < cap THEN Len(seen) ELSE cap)
    BY LenProperties DEF RingHolds
  <1>2. r.len \in Nat /\ r.len <= cap
    BY <1>1
  <1>3. \A a \in Int : Min({a, a}) = a
    BY MinOfTwo
  <1>4. Min({cap, r.len}) = r.len
    <2>1. cap \in Int /\ r.len \in Int
      BY <1>2
    <2>2. Min({cap, r.len}) \in {cap, r.len} /\ Min({cap, r.len}) <= cap /\ Min({cap, r.len}) <= r.len
      BY <2>1, MinOfTwo
    <2> QED BY <1>2, <2>1, <2>2
  <1>5. LastN(r, r.len) = LastN(r, cap)
    <2>1. Min({r.len, r.len}) = Min({cap, r.len})
      BY <1>2, <1>3, <1>4
    <2> QED BY <2>1 DEF LastN
  <1>6. LastN(r, cap) = Suffix(Min({cap, cap}))
    BY LastNIs
  <1> QED BY <1>3, <1>5, <1>6 DEF Live

\* The newest entry and the oldest one.
LEMMA EndsAre ==
  ASSUME seen \in Seq(Events), seen # <<>>, NEW cap \in Nat \ {0}, NEW r, RingHolds(r, cap, seen)
  PROVE  /\ Newest(r) = seen[Len(seen)] /\ Oldest(r) = Suffix(cap)[1] /\ Entry(r, 0) = Suffix(cap)[1]
  <1> DEFINE l == Len(seen)
             n == r.len
  <1>1. l \in Nat /\ l # 0
    BY EmptySeq, LenProperties
  <1>2. /\ RingOf(r, cap) /\ n = IF l < cap THEN l ELSE cap
        /\ \A i \in 0 .. n - 1 : Entry(r, i) = seen[l - n + 1 + i]
    BY DEF RingHolds
  <1>3. r.head \in 0 .. cap - 1 /\ (n < cap => r.head = n) /\ Cap(r) = cap
    BY <1>2, CapIs DEF RingOf
  <1>4. n \in Nat /\ n # 0 /\ n <= l /\ n <= cap
    BY <1>1, <1>2
  <1>5. Suffix(cap)[1] = seen[l - n + 1]
    <2>1. \A i \in 1 .. n : Suffix(cap)[i] = seen[l - n + i]
      BY <1>2, SuffixIs
    <2>2. 1 \in 1 .. n
      BY <1>4
    <2> QED BY <2>1, <2>2
  <1>6. Entry(r, 0) = seen[l - n + 1]
    <2>1. 0 \in 0 .. n - 1 /\ l - n + 1 + 0 = l - n + 1
      BY <1>1, <1>4
    <2> HIDE DEF l, n
    <2> QED BY <1>2, <2>1
  <1>7. Entry(r, n - 1) = seen[l]
    <2>1. n - 1 \in 0 .. n - 1 /\ l - n + 1 + (n - 1) = l
      BY <1>1, <1>4
    <2> HIDE DEF l, n
    <2> QED BY <1>2, <2>1
  <1>8. Newest(r) = Entry(r, n - 1)
    <2>1. r.head + cap - 1 = r.head + cap - n + (n - 1)
      BY <1>3, <1>4
    <2> QED BY <1>3, <1>4, <2>1 DEF Newest, Entry
  <1>9. Oldest(r) = Entry(r, 0)
    <2>1. r.head + cap - n + 0 \in 0 .. 2 * cap - 1
      BY <1>3, <1>4
    <2> DEFINE a == r.head + cap - n + 0
    <2>2. a % cap = IF a < cap THEN a ELSE a - cap
      <3> HIDE DEF a
      <3> QED BY <2>1, Wrap DEF a
    <2>3. (r.head + cap - n + 0) % cap = IF n < cap THEN 0 ELSE r.head
      BY <1>3, <1>4, <2>2
    <2> QED BY <1>3, <1>4, <2>3 DEF Oldest, Entry
  <1> QED BY <1>5, <1>6, <1>7, <1>8, <1>9

\* A momentum compares with an entry of the ring that is old enough, if there is one.
LEMMA FoundIsPast ==
  ASSUME seen \in Seq(Events), NEW cap \in Nat \ {0}, NEW r, RingHolds(r, cap, seen), NEW target
  PROVE  IsPastEntry(ValueAtOrBefore(r, target), cap, target)
  <1> DEFINE l == Len(seen)
             n == r.len
             found == {i \in 0 .. n - 1 : Entry(r, i).at <= target}
             old == {e \in Elements(Suffix(cap)) : e.at <= target}
  <1>1. n = (IF l < cap THEN l ELSE cap) /\ \A i \in 0 .. n - 1 : Entry(r, i) = seen[l - n + 1 + i]
    BY DEF RingHolds
  <1>2. /\ Suffix(cap) \in Seq(Events) /\ Len(Suffix(cap)) = n /\ n \in Nat /\ l \in Nat /\ n <= l
        /\ \A i \in 1 .. n : Suffix(cap)[i] = seen[l - n + i]
    BY <1>1, SuffixIs
  <1>3. DOMAIN Suffix(cap) = 1 .. n
    BY <1>2, LenProperties
  <1>4. \A i \in 0 .. n - 1 : i + 1 \in 1 .. n /\ l - n + 1 + i = l - n + (i + 1)
    BY <1>2
  <1>5. \A i \in 1 .. n : i - 1 \in 0 .. n - 1 /\ i - 1 + 1 = i
    BY <1>2
  <1> HIDE DEF l, n
  <1>6. \A i \in 0 .. n - 1 : Entry(r, i) = Suffix(cap)[i + 1]
    BY <1>1, <1>2, <1>4
  <1>7. \A i \in 0 .. n - 1 : Entry(r, i) \in Elements(Suffix(cap))
    BY <1>3, <1>4, <1>6 DEF Elements
  <1>8. \A e \in Elements(Suffix(cap)) : \E i \in 0 .. n - 1 : e = Entry(r, i)
    BY <1>3, <1>5, <1>6 DEF Elements
  <1>9. ValueAtOrBefore(r, target) = IF found = {} THEN NoEvent ELSE Entry(r, Min(found))
    BY DEF ValueAtOrBefore, n
  <1>10. found = {} <=> old = {}
    BY <1>7, <1>8
  <1>11. CASE found = {}
    BY <1>9, <1>10, <1>11 DEF IsPastEntry
  <1>12. CASE found # {}
    <2>1. found \in SUBSET Nat
      BY <1>2
    <2>2. Min(found) \in found
      BY <1>12, <2>1, MinIsLeast
    <2>3. Entry(r, Min(found)) \in old
      BY <1>7, <2>2
    <2> HIDE DEF found, old
    <2>4. ValueAtOrBefore(r, target) \in old /\ old # {}
      BY <1>9, <1>12, <2>3
    <2> QED BY <2>4 DEF IsPastEntry, old
  <1> QED BY <1>11, <1>12
\* The nearest price at or before a time is of a tick at or before it.
LEMMA PriceIsPast ==
  ASSUME NEW ts \in Int
  PROVE  \A i \in PriceAtOrBefore(ts) : i \in History /\ Ticks[i] \in Int /\ Ticks[i] <= ts
  <1>1. Ticks \in Seq(Int)
    BY TicksAssumption
  <1>2. /\ History = 1 .. Len(Ticks) /\ Len(Ticks) \in Nat
        /\ \A i \in History : Ticks[i] \in Int
    BY <1>1, LenProperties, ElementOfSeq DEF History
  <1> DEFINE found == {i \in History : Ticks[i] < ts}
  <1>3. PriceAtOrBefore(ts) = IF At(ts) # {} THEN At(ts) ELSE Latest(found)
    BY DEF PriceAtOrBefore
  <1>4. \A i \in At(ts) : i \in History /\ Ticks[i] = ts
    BY DEF At
  <1>5. \A i \in Latest(found) : i \in found
    <2>1. CASE found = {}
      BY <2>1 DEF Latest
    <2>2. CASE found # {}
      <3>1. found \in SUBSET Nat /\ found \in SUBSET (1 .. Len(Ticks))
        BY <1>2
      <3>2. IsFiniteSet(1 .. Len(Ticks))
        BY <1>2, FS_Interval
      <3>3. IsFiniteSet(found)
        BY <3>1, <3>2, FS_Subset
      <3> HIDE DEF found
      <3>4. Max(found) \in found
        BY <2>2, <3>1, <3>3, MaxIsGreatest
      <3> QED BY <2>2, <3>4 DEF Latest
    <2> QED BY <2>1, <2>2
  <1>6. \A i \in found : i \in History /\ Ticks[i] < ts
    OBVIOUS
  <1> HIDE DEF found
  <1>7. SUFFICES ASSUME NEW i \in PriceAtOrBefore(ts) PROVE i \in History /\ Ticks[i] \in Int /\ Ticks[i] <= ts
    OBVIOUS
  <1>8. CASE At(ts) # {}
    BY <1>2, <1>3, <1>4, <1>7, <1>8
  <1>9. CASE At(ts) = {}
    <2>1. i \in History /\ Ticks[i] < ts
      BY <1>3, <1>5, <1>6, <1>7, <1>9
    <2> QED BY <1>2, <2>1
  <1> QED BY <1>8, <1>9

\* A return over a time that has passed, the flow and the path of the price read no tick
\* of the future.
LEMMA SpotIsPast ==
  ASSUME NEW ts \in Int
  PROVE  \A i \in SpotReads(ts).past : Ticks[i] <= ts
  <1> DEFINE Past(S) == \A i \in S : Ticks[i] <= ts
  <1>1. \A s \in Int : s <= ts => Past(PriceAtOrBefore(s))
    <2> SUFFICES ASSUME NEW s \in Int, s <= ts, NEW i \in PriceAtOrBefore(s) PROVE Ticks[i] <= ts
      OBVIOUS
    <2>1. Ticks[i] \in Int /\ Ticks[i] <= s
      BY PriceIsPast
    <2> QED BY <2>1
  <1>2. \A start : Past(InRange(start, ts))
    BY DEF InRange
  <1>3. \A w \in {5, 10, 15, 30} : Past(SignedFlow(ts, w))
    BY <1>2 DEF SignedFlow
  <1>4. \A w \in Nat : Past(TrailingReturn(ts, w))
    <2> SUFFICES ASSUME NEW w \in Nat PROVE Past(TrailingReturn(ts, w))
      OBVIOUS
    <2>1. ts - w \in Int /\ ts - w <= ts
      OBVIOUS
    <2>2. Past(PriceAtOrBefore(ts)) /\ Past(PriceAtOrBefore(ts - w))
      BY <1>1, <2>1
    <2>3. \A i \in TrailingReturn(ts, w) : i \in PriceAtOrBefore(ts) \/ i \in PriceAtOrBefore(ts - w)
      BY DEF TrailingReturn, Return
    <2> QED BY <2>2, <2>3
  <1>5. Past(ReturnsAndAccel(ts))
    BY <1>4 DEF ReturnsAndAccel
  <1>6. Past(ReversalFeatures(ts))
    <2> HIDE DEF Past
    <2>1. \A S, T : Past(S) /\ Past(T) => Past(S \union T)
      BY DEF Past
    <2> DEFINE flows == UNION {SignedFlow(ts, window) : window \in {5, 10, 15, 30}}
    <2>2. Past(flows)
      BY <1>3 DEF Past
    <2>3. ReversalFeatures(ts) = flows \union ReturnsAndAccel(ts)
      BY DEF ReversalFeatures
    <2> HIDE DEF flows
    <2> QED BY <1>5, <2>1, <2>2, <2>3
  <1>7. Past(UNION Path(ts))
    <2> SUFFICES ASSUME NEW i \in UNION Path(ts) PROVE Ticks[i] <= ts
      OBVIOUS
    <2>1. PICK P \in Path(ts) : i \in P
      OBVIOUS
    <2>2. PICK k \in 0 .. WindowSecs \div StepSecs : P = PriceAtOrBefore(ts - WindowSecs + StepSecs * k)
      BY <2>1 DEF Path
    <2>3. k \in 0 .. 36 /\ ts - WindowSecs + StepSecs * k = ts - 180 + 5 * k
      BY <2>2 DEF WindowSecs, StepSecs
    <2> DEFINE s == ts - 180 + 5 * k
    <2>4. s \in Int /\ s <= ts
      BY <2>3
    <2>5. i \in PriceAtOrBefore(s)
      BY <2>1, <2>2, <2>3
    <2> HIDE DEF s
    <2> QED BY <1>1, <2>4, <2>5
  <1>8. Past(RegimePath(ts)) /\ Past(WhipsawPath(ts))
    BY <1>7 DEF RegimePath, WhipsawPath
  <1>9. Past(BtcRegimePath(ts))
    <2>1. Past(PriceAtOrBefore(ts))
      BY <1>1
    <2>2. \A secs : Past(TradeVolatility(ts, secs))
      BY <1>2 DEF TradeVolatility
    <2> QED BY <2>1, <2>2 DEF BtcRegimePath
  <1>10. SpotReads(ts).past = ReversalFeatures(ts) \union RegimePath(ts) \union WhipsawPath(ts)
                                \union BtcRegimePath(ts)
    BY DEF SpotReads
  <1> QED BY <1>6, <1>8, <1>9, <1>10

\* The side that is left was kept as often as it is said to be.
LEMMA PersistenceIs ==
  ASSUME NEW f \in Seq(Events), NEW e \in Events, seen = Append(f, e), NEW markov, Counts(markov, f),
         out.confidence.persistence = Persistence(markov, e)
  PROVE  PersistenceIsCounted
  <1> DEFINE n == Len(seen)
             q == Observe(markov, e)
  <1>1. /\ Len(f) \in Nat /\ n = Len(f) + 1 /\ seen[n] = e /\ seen \in Seq(Events)
        /\ \A i \in 1 .. Len(f) : seen[i] = f[i] /\ f[i] \in Events
    BY AppendProperties, LenProperties, ElementOfSeq
  <1>2. Counts(q, seen)
    BY CountsHold
  <1>3. markov.last = LastOf(f)
    BY DEF Counts
  <1> HIDE DEF n, q
  <1>4. CASE f = <<>>
    <2>1. n = 1 /\ markov.last = NoEvent
      BY <1>1, <1>3, <1>4 DEF LastOf
    <2>2. out.confidence.persistence = <<1, 2>>
      BY <2>1 DEF Persistence
    <2> QED BY <2>1, <2>2 DEF PersistenceIsCounted, n
  <1>5. CASE f # <<>>
    <2>1. Len(f) # 0
      BY <1>5, EmptySeq
    <2>2. n - 1 \in 1 .. Len(f) /\ n - 1 = Len(f) /\ n # 1 /\ n \in Nat
      BY <1>1, <2>1
    <2>3. markov.last = seen[n - 1] /\ markov.last \in Events /\ markov.last # NoEvent
      <3>1. markov.last = f[Len(f)]
        BY <1>3, <1>5 DEF LastOf
      <3>2. markov.last = seen[n - 1] /\ markov.last \in Events
        BY <1>1, <2>2, <3>1
      <3> QED BY <3>2, EventIs
    <2> DEFINE c == seen[n - 1].side
    <2>4. c \in BOOLEAN
      BY <2>3, EventIs
    <2>5. out.confidence.persistence = <<q.moves[c][c], q.moves[c][FALSE] + q.moves[c][TRUE]>>
      BY <2>3 DEF Persistence, q
    <2> HIDE DEF c
    <2>6. q.moves[c][c] = Cardinality(Moves(seen, c, c))
          /\ q.moves[c][FALSE] = Cardinality(Moves(seen, c, FALSE))
          /\ q.moves[c][TRUE] = Cardinality(Moves(seen, c, TRUE))
      BY <1>2, <2>4 DEF Counts
    <2> DEFINE from == {i \in 2 .. n : seen[i - 1].side = c}
    <2>7. {i \in from : seen[i].side = seen[i - 1].side} = Moves(seen, c, c)
      BY DEF Moves, n
    <2>8. from = Moves(seen, c, FALSE) \cup Moves(seen, c, TRUE)
      <3>1. \A i \in 2 .. n : seen[i].side \in BOOLEAN
        <4> SUFFICES ASSUME NEW i \in 2 .. n PROVE seen[i].side \in BOOLEAN
          OBVIOUS
        <4>1. i \in 1 .. Len(seen)
          BY <2>2 DEF n
        <4>2. seen[i] \in Events
          BY <1>1, <4>1, ElementOfSeq
        <4> QED BY <4>2, EventIs
      <3> QED BY <3>1 DEF Moves, n
    <2>9. Cardinality(from) = Cardinality(Moves(seen, c, FALSE)) + Cardinality(Moves(seen, c, TRUE))
      <3>1. Moves(seen, c, FALSE) \cap Moves(seen, c, TRUE) = {}
        BY DEF Moves
      <3>2. /\ IsFiniteSet(Moves(seen, c, FALSE)) /\ Cardinality(Moves(seen, c, FALSE)) \in Nat
            /\ IsFiniteSet(Moves(seen, c, TRUE)) /\ Cardinality(Moves(seen, c, TRUE)) \in Nat
        BY <1>1, MovesAreFinite
      <3>3. Cardinality({}) = 0
        BY FS_EmptySet
      <3>4. Cardinality(Moves(seen, c, FALSE) \cup Moves(seen, c, TRUE))
              = Cardinality(Moves(seen, c, FALSE)) + Cardinality(Moves(seen, c, TRUE))
                  - Cardinality(Moves(seen, c, FALSE) \cap Moves(seen, c, TRUE))
        BY <3>2, FS_Union
      <3> DEFINE x == Cardinality(Moves(seen, c, FALSE))
                 y == Cardinality(Moves(seen, c, TRUE))
      <3>5. Cardinality(Moves(seen, c, FALSE) \cap Moves(seen, c, TRUE)) = 0
        BY <3>1, <3>3
      <3>6. x \in Nat /\ y \in Nat /\ Cardinality(Moves(seen, c, FALSE) \cup Moves(seen, c, TRUE)) = x + y - 0
        BY <3>2, <3>4, <3>5
      <3> HIDE DEF from, x, y
      <3>7. Cardinality(from) = x + y
        BY <2>8, <3>6
      <3> QED BY <3>7 DEF x, y
    <2>10. out.confidence.persistence
             = <<Cardinality({i \in from : seen[i].side = seen[i - 1].side}), Cardinality(from)>>
      <3> HIDE DEF from
      <3>1. {i \in from : seen[i].side = seen[i - 1].side} = Moves(seen, c, c)
        BY <2>7
      <3> QED BY <2>5, <2>6, <2>9, <3>1
    <2> QED BY <2>2, <2>10 DEF PersistenceIsCounted, n, c
  <1> QED BY <1>4, <1>5

\* The parts of what is computed for an event, of the state k in which it is scored.
IsOutput(o, k, m, e, spot) ==
  /\ o.direction.momentum = [w \in {10, 30, 60, 120, 300} |-> ValueAtOrBefore(k.mids, e.at - w)]
  /\ o.direction.deltas = [w \in {5, 15} |-> ValueAtOrBefore(k.imbalance, e.at - w)]
  /\ o.sequence.short = LastN(k.dirs, ShortRun)
  /\ o.sequence.long = LastN(k.dirs, LongRun)
  /\ o.sequence.flips = Flips(LastN(k.dirs, LongRun))
  /\ o.sequence.newest = Newest(k.dirs)
  /\ o.sequence.oldest \in {Entry(k.dirs, 0), Oldest(k.dirs)}
  /\ o.confidence.stability = LastN(k.dirs, StabilityWindow)
  /\ o.confidence.persistence = Persistence(m.markov, e)
  /\ o.risk.whipsaw = Flips(Live(k.dirs))
  /\ o.extremes = <<k.low, k.high>>
  /\ o.spot = spot

\* An evaluation is one of its parts.
LEMMA OutputIs ==
  ASSUME NEW m, NEW e, NEW spot
  PROVE  IsOutput(Output(m, e, spot), Keep(m, e), m, e, spot)
  <1> DEFINE o == Output(m, e, spot)
             k == Keep(m, e)
  <1>1. /\ o.direction = DirectionReads(k, e) /\ o.sequence = SequenceReads(k.dirs)
        /\ o.extremes = <<k.low, k.high>> /\ o.spot = spot
        /\ o.confidence.stability = LastN(k.dirs, StabilityWindow)
        /\ o.confidence.persistence = Persistence(m.markov, e)
        /\ o.risk.whipsaw = Flips(Live(k.dirs))
    BY DEF Output, ConfidenceReads, RiskReads
  <1> HIDE DEF o, k
  <1>2. /\ o.direction.momentum = Momentum(k.mids, e)
        /\ o.direction.deltas = ImbalanceDeltas(k.imbalance, e)
    BY <1>1 DEF DirectionReads
  <1>3. /\ o.sequence.short = LastN(k.dirs, ShortRun)
        /\ o.sequence.long = LastN(k.dirs, LongRun)
        /\ o.sequence.flips = Flips(LastN(k.dirs, LongRun))
        /\ o.sequence.newest = Newest(k.dirs)
        /\ o.sequence.oldest \in {Entry(k.dirs, 0), Oldest(k.dirs)}
    BY <1>1 DEF SequenceReads
  <1>4. IsOutput(o, k, m, e, spot)
    BY <1>1, <1>2, <1>3 DEF IsOutput, Momentum, ImbalanceDeltas
  <1> QED BY <1>4 DEF o, k

\* The extremes are those of the events.
LEMMA ExtremesAre ==
  ASSUME seen \in Seq(Events), seen # <<>>, NEW x, NEW y, AreExtremes(x, y, seen),
         out.extremes = <<x, y>>
  PROVE  ExtremesAreSeen
  <1> DEFINE mids == {e.mid : e \in Elements(seen)}
             n == Len(seen)
  <1>1. n \in Nat /\ DOMAIN seen = 1 .. n /\ \A i \in 1 .. n : seen[i] \in Events
    BY LenProperties, ElementOfSeq
  <1>2. \A i \in 1 .. n : seen[i].mid \in Int /\ 0 <= seen[i].mid /\ seen[i].mid <= 100
    BY <1>1, EventIs
  <1>3. /\ \A i \in 1 .. n : seen[i].mid \in mids
        /\ \A v \in mids : \E i \in 1 .. n : v = seen[i].mid
    BY <1>1 DEF Elements
  <1>4. PICK i \in 1 .. n : x = seen[i] /\ \A j \in 1 .. n : seen[i].mid <= seen[j].mid
    BY DEF AreExtremes
  <1>5. PICK k \in 1 .. n : y = seen[k] /\ \A j \in 1 .. n : seen[j].mid <= seen[k].mid
    BY DEF AreExtremes
  <1> HIDE DEF mids, n
  <1>6. mids \in SUBSET Nat /\ (\A v \in mids : v <= 100) /\ mids # {}
    <2>1. ASSUME NEW v \in mids PROVE v \in Nat /\ v <= 100
      <3>1. PICK j \in 1 .. n : v = seen[j].mid
        BY <1>3
      <3> QED BY <1>2, <3>1
    <2>2. seen[i].mid \in mids
      BY <1>3, <1>4
    <2> QED BY <2>1, <2>2
  <1>7. IsFiniteSet(mids)
    <2>1. 100 \in Nat
      OBVIOUS
    <2> QED BY <1>6, <2>1, FS_BoundedSetOfNaturals
  <1>8. Min(mids) \in mids /\ \A v \in mids : Min(mids) <= v
    BY <1>6, MinIsLeast
  <1>9. Max(mids) \in mids /\ \A v \in mids : v <= Max(mids)
    BY <1>6, <1>7, MaxIsGreatest
  <1>10. x.mid = Min(mids)
    <2>1. x.mid \in mids /\ \A v \in mids : x.mid <= v
      BY <1>3, <1>4
    <2>2. x.mid <= Min(mids) /\ Min(mids) <= x.mid /\ x.mid \in Nat /\ Min(mids) \in Nat
      BY <1>6, <1>8, <2>1
    <2> QED BY <2>2
  <1>11. y.mid = Max(mids)
    <2>1. y.mid \in mids /\ \A v \in mids : v <= y.mid
      BY <1>3, <1>5
    <2>2. y.mid <= Max(mids) /\ Max(mids) <= y.mid /\ y.mid \in Nat /\ Max(mids) \in Nat
      BY <1>6, <1>9, <2>1
    <2> QED BY <2>2
  <1>12. out.extremes[1].mid = x.mid /\ out.extremes[2].mid = y.mid
    OBVIOUS
  <1> QED BY <1>10, <1>11, <1>12 DEF ExtremesAreSeen, mids

\* An event that was scored with a model that remembers those before it reads its past.
LEMMA OutputReadsPast ==
  ASSUME NEW m, Shaped(m), NEW f \in Seq(Events), NEW e \in Events, Remembers(m, f),
         seen = Append(f, e), out = Output(m, e, SpotReads(e.at))
  PROVE  ScoresReadTheirPast
  <1> DEFINE k == Keep(m, e)
  <1>1. IsOutput(out, k, m, e, SpotReads(e.at))
    BY OutputIs
  <1>2. seen \in Seq(Events) /\ seen # <<>> /\ Len(seen) = Len(f) + 1 /\ seen[Len(seen)] = e
    BY AppendProperties
  <1>3. Now = e
    BY <1>2 DEF Now, Last
  <1>4. /\ k.mids = PushRing(m.mids, e) /\ k.dirs = PushRing(m.dirs, e)
        /\ k.imbalance = PushRing(m.imbalance, e)
        /\ k.low = Lower(m.low, e) /\ k.high = Higher(m.high, e)
    BY KeepIs
  <1> HIDE DEF k
  <1>5. /\ MidsCap \in Nat \ {0} /\ DirCap \in Nat \ {0} /\ ImbalanceCap \in Nat \ {0}
        /\ ShortRun \in Nat \ {0} /\ LongRun \in Nat \ {0} /\ StabilityWindow \in Nat \ {0}
    BY ScoresAssumptions
  <1>6. /\ RingHolds(m.mids, MidsCap, f) /\ RingHolds(m.dirs, DirCap, f)
        /\ RingHolds(m.imbalance, ImbalanceCap, f) /\ AreExtremes(m.low, m.high, f)
        /\ Counts(m.markov, f)
    BY DEF Remembers
  <1>7. RingHolds(k.mids, MidsCap, seen)
    BY <1>4, <1>5, <1>6, PushHolds
  <1>8. RingHolds(k.dirs, DirCap, seen)
    BY <1>4, <1>5, <1>6, PushHolds
  <1>9. RingHolds(k.imbalance, ImbalanceCap, seen)
    BY <1>4, <1>5, <1>6, PushHolds
  <1>10. AreExtremes(k.low, k.high, seen)
    BY <1>4, <1>6, ExtremesHold
  <1>11. MomentumIsPast
    <2>1. /\ DOMAIN out.direction.momentum = {10, 30, 60, 120, 300}
          /\ \A w \in {10, 30, 60, 120, 300} :
               out.direction.momentum[w] = ValueAtOrBefore(k.mids, e.at - w)
          /\ DOMAIN out.direction.deltas = {5, 15}
          /\ \A w \in {5, 15} : out.direction.deltas[w] = ValueAtOrBefore(k.imbalance, e.at - w)
      BY <1>1 DEF IsOutput
    <2>2. \A target : IsPastEntry(ValueAtOrBefore(k.mids, target), MidsCap, target)
      BY <1>2, <1>5, <1>7, FoundIsPast
    <2>3. \A target : IsPastEntry(ValueAtOrBefore(k.imbalance, target), ImbalanceCap, target)
      BY <1>2, <1>5, <1>9, FoundIsPast
    <2> QED BY <1>3, <2>1, <2>2, <2>3 DEF MomentumIsPast
  <1>12. SequenceIsRecent
    <2>1. \A n \in Nat \ {0} : LastN(k.dirs, n) = Kept(n)
      BY <1>2, <1>5, <1>8, LastNIs DEF Kept
    <2>2. Live(k.dirs) = Kept(DirCap)
      <3>1. DirCap \in Int
        BY <1>5
      <3>2. Min({DirCap, DirCap}) = DirCap
        BY <3>1, MinOfTwo
      <3> QED BY <1>2, <1>5, <1>8, <3>2, LiveIs DEF Kept
    <2>3. Newest(k.dirs) = e /\ Oldest(k.dirs) = Suffix(DirCap)[1] /\ Entry(k.dirs, 0) = Suffix(DirCap)[1]
      BY <1>2, <1>5, <1>8, EndsAre
    <2>4. Kept(DirCap) = Suffix(DirCap)
      BY <1>2, <1>5, <1>8, <2>2, LiveIs
    <2> QED BY <1>1, <1>3, <1>5, <2>1, <2>2, <2>3, <2>4 DEF SequenceIsRecent, IsOutput
  <1>13. ExtremesAreSeen
    <2>1. out.extremes = <<k.low, k.high>>
      BY <1>1 DEF IsOutput
    <2> QED BY <1>2, <1>10, <2>1, ExtremesAre
  <1>14. PersistenceIsCounted
    <2>1. out.confidence.persistence = Persistence(m.markov, e)
      BY <1>1 DEF IsOutput
    <2> QED BY <1>6, <2>1, PersistenceIs
  <1>15. \A i \in out.spot.past : Ticks[i] <= Now.at
    <2>1. out.spot = SpotReads(e.at) /\ e.at \in Int
      BY <1>1, EventIs DEF IsOutput
    <2>2. \A i \in SpotReads(e.at).past : Ticks[i] <= e.at
      BY <2>1, SpotIsPast
    <2> QED BY <1>3, <2>1, <2>2
  <1> QED BY <1>11, <1>12, <1>13, <1>14, <1>15 DEF ScoresReadTheirPast
-----------------------------------------------------------------------------
(* What a model carries over from the markets whose results are recorded.  *)

\* Of n predictions, of which ws tells which came true: how many, and how many true,
\* are in each bucket, by ks.
Tallied(table, B, ks, ws, n) ==
  /\ DOMAIN table = B
  /\ \A b \in B : /\ table[b].taken = Cardinality({i \in 1 .. n : ks[i] = b})
                  /\ table[b].wins = Cardinality({i \in 1 .. n : ks[i] = b /\ ws[i]})

\* ls and vs go on from ks and ws with bucket b, prediction p and result r.
GoOn(ls, vs, ks, ws, n, b, p, r) ==
  /\ \A i \in 1 .. n : ls[i] = ks[i] /\ vs[i] = ws[i]
  /\ ls[n + 1] = b /\ vs[n + 1] = (p = r)

\* One more prediction is counted in its bucket.
LEMMA TallyOne ==
  ASSUME NEW B, NEW n \in Nat, NEW table, NEW ks, NEW ws, Tallied(table, B, ks, ws, n),
         NEW b \in B, NEW p, NEW r, NEW ls, NEW vs, GoOn(ls, vs, ks, ws, n, b, p, r),
         NEW t, t = [table EXCEPT ![b] = Recorded(table[b], p, r)]
  PROVE  Tallied(t, B, ls, vs, n + 1)
  <1>0. /\ \A i \in 1 .. n : ls[i] = ks[i] /\ vs[i] = ws[i]
        /\ ls[n + 1] = b /\ vs[n + 1] = (p = r)
    BY DEF GoOn
  <1> DEFINE Taken(c) == {i \in 1 .. n : ks[i] = c}
             Wins(c) == {i \in 1 .. n : ks[i] = c /\ ws[i]}
             Taken1(c) == {i \in 1 .. n + 1 : ls[i] = c}
             Wins1(c) == {i \in 1 .. n + 1 : ls[i] = c /\ vs[i]}
  <1>1. /\ DOMAIN table = B
        /\ \A c \in B : table[c].taken = Cardinality(Taken(c)) /\ table[c].wins = Cardinality(Wins(c))
    BY DEF Tallied
  <1>2. DOMAIN t = B /\ \A c \in B : t[c] = IF c = b THEN Recorded(table[b], p, r) ELSE table[c]
    BY <1>1
  <1>3. \A i : i \in 1 .. n + 1 <=> i \in 1 .. n \/ i = n + 1
    OBVIOUS
  <1>4. n + 1 \notin 1 .. n
    OBVIOUS
  <1>5. \A c : /\ IsFiniteSet(Taken(c)) /\ Cardinality(Taken(c)) \in Nat
               /\ IsFiniteSet(Wins(c)) /\ Cardinality(Wins(c)) \in Nat
    <2>1. IsFiniteSet(1 .. n)
      BY FS_Interval
    <2>2. \A c : Taken(c) \in SUBSET (1 .. n) /\ Wins(c) \in SUBSET (1 .. n)
      OBVIOUS
    <2> HIDE DEF Taken, Wins
    <2> QED BY <2>1, <2>2, FS_Subset, FS_CardinalityType
  <1>6. ASSUME NEW c \in B, c # b PROVE Taken1(c) = Taken(c) /\ Wins1(c) = Wins(c)
    BY <1>0, <1>3, <1>4, <1>6
  <1>7. Taken1(b) = Taken(b) \cup {n + 1}
    BY <1>0, <1>3
  <1>8. CASE p = r
    <2>1. Wins1(b) = Wins(b) \cup {n + 1}
      BY <1>0, <1>3, <1>8
    <2>2. n + 1 \notin Taken(b) /\ n + 1 \notin Wins(b)
      BY <1>4
    <2>3. Recorded(table[b], p, r) = [taken |-> table[b].taken + 1, wins |-> table[b].wins + 1]
      BY <1>8 DEF Recorded
    <2> HIDE DEF Taken, Wins, Taken1, Wins1
    <2>4. /\ Cardinality(Taken1(b)) = Cardinality(Taken(b)) + 1
          /\ Cardinality(Wins1(b)) = Cardinality(Wins(b)) + 1
      <3>1. Cardinality(Taken1(b)) = Cardinality(Taken(b)) + 1
        BY <1>5, <1>7, <2>2, FS_AddElement
      <3>2. Cardinality(Wins1(b)) = Cardinality(Wins(b)) + 1
        BY <1>5, <2>1, <2>2, FS_AddElement
      <3> QED BY <3>1, <3>2
    <2>5. \A c \in B : t[c].taken = Cardinality(Taken1(c)) /\ t[c].wins = Cardinality(Wins1(c))
      BY <1>1, <1>2, <1>6, <2>3, <2>4
    <2> QED BY <1>2, <2>5 DEF Tallied, Taken1, Wins1
  <1>9. CASE p # r
    <2>1. Wins1(b) = Wins(b)
      BY <1>0, <1>3, <1>4, <1>9
    <2>2. n + 1 \notin Taken(b)
      BY <1>4
    <2>3. Recorded(table[b], p, r) = [taken |-> table[b].taken + 1, wins |-> table[b].wins + 0]
      BY <1>9 DEF Recorded
    <2>4. table[b].wins + 0 = table[b].wins
      <3> HIDE DEF Taken, Wins
      <3> QED BY <1>1, <1>5
    <2> HIDE DEF Taken, Wins, Taken1, Wins1
    <2>5. Cardinality(Taken1(b)) = Cardinality(Taken(b)) + 1
      BY <1>5, <1>7, <2>2, FS_AddElement
    <2>6. \A c \in B : t[c].taken = Cardinality(Taken1(c)) /\ t[c].wins = Cardinality(Wins1(c))
      BY <1>1, <1>2, <1>6, <2>1, <2>3, <2>4, <2>5
    <2> QED BY <1>2, <2>6 DEF Tallied, Taken1, Wins1
  <1> QED BY <1>8, <1>9

\* Every mid and every time has its bucket.
LEMMA BucketsExist ==
  /\ \A mid \in Int : 0 <= mid /\ mid <= 100 => BucketIdx(mid) \in Skews
  /\ \A ts \in Int : HourBucket(ts) \in Hours
  <1>1. ASSUME NEW mid \in Int, 0 <= mid, mid <= 100 PROVE BucketIdx(mid) \in Skews
    <2> DEFINE d == mid \div 10
               c == Min({d, 9})
               b == Max({0, c})
    <2>1. d \in Int /\ 0 <= d
      BY <1>1
    <2>2. BucketIdx(mid) = b
      BY DEF BucketIdx
    <2>3. c \in Int /\ c >= 0 /\ c <= 9
      <3> HIDE DEF d
      <3>1. 9 \in Int /\ d \in Int
        BY <2>1
      <3>2. c \in {d, 9} /\ c <= d /\ c <= 9
        BY <3>1, MinOfTwo
      <3> HIDE DEF c
      <3> QED BY <2>1, <3>2
    <2> HIDE DEF c
    <2>4. b \in {0, c} /\ 0 <= b /\ c <= b
      <3>1. 0 \in Int /\ c \in Int
        BY <2>3
      <3> QED BY <3>1, MaxOfTwo
    <2> HIDE DEF b
    <2> QED BY <2>2, <2>3, <2>4 DEF Skews
  <1>2. ASSUME NEW ts \in Int PROVE HourBucket(ts) \in Hours
    <2>1. CASE ts <= 0
      BY <2>1 DEF HourBucket, Hours
    <2>2. CASE ~(ts <= 0)
      <3> DEFINE q == ts % 86400
      <3>1. q \in Int /\ 0 <= q /\ q < 86400
        OBVIOUS
      <3>2. HourBucket(ts) = q \div 3600
        BY <2>2 DEF HourBucket
      <3> HIDE DEF q
      <3>3. q \div 3600 \in 0 .. 23
        BY <3>1
      <3> QED BY <3>2, <3>3 DEF Hours
    <2> QED BY <2>1, <2>2
  <1> QED BY <1>1, <1>2
Results == [event : Events, resolved : BOOLEAN]

\* What waits for the result of the last event: features, range and time.
Waits(m, s) ==
  /\ DOMAIN m.range = {"market", "low", "high"}
  /\ IF s = <<>> THEN m.pending = 0 /\ m.range = NoRange
     ELSE /\ m.pending = s[Len(s)].market /\ m.range.market = s[Len(s)].market
          /\ m.lastAt = s[Len(s)].at

\* One range for every result, of its market, as many as the ring holds.
Ranges(m, rs) ==
  \E S : \E q \in Seq(S) :
    /\ RingHolds(m.ranges, VolatilityWindow, q)
    /\ Len(q) = Len(rs)
    /\ \A i \in 1 .. Len(rs) : q[i].market = rs[i].event.market

\* One label for every result after those of the snapshot.
Labels(m, rs) ==
  /\ m.calibrator \in Seq(Int)
  /\ Len(rs) <= Len(m.calibrator)
  /\ \A i \in 1 .. Len(rs) :
       m.calibrator[Len(m.calibrator) - Len(rs) + i] = rs[i].event.market

SkewKeys(rs) == [i \in 1 .. Len(rs) |-> BucketIdx(rs[i].event.mid)]
TodKeys(rs)  == [i \in 1 .. Len(rs) |-> HourBucket(rs[i].event.at)]
CameTrue(rs) == [i \in 1 .. Len(rs) |-> rs[i].event.side = rs[i].resolved]

\* Every result once in either table.
Tables(m, rs) ==
  /\ Tallied(m.skew, Skews, SkewKeys(rs), CameTrue(rs), Len(rs))
  /\ Tallied(m.tod, Hours, TodKeys(rs), CameTrue(rs), Len(rs))

Carries(m, s, rs) == Waits(m, s) /\ Ranges(m, rs) /\ Labels(m, rs) /\ Tables(m, rs)

\* An event leaves all that but what waits.
LEMMA EvaluatedCarries ==
  ASSUME NEW m, Shaped(m), NEW s \in Seq(Events), NEW e \in Events, NEW rs, Carries(m, s, rs)
  PROVE  Carries(Evaluated(m, e), Append(s, e), rs)
  <1> DEFINE k == Evaluated(m, e)
             t == Append(s, e)
  <1>1. /\ k.range = OnEvent(m.range, e) /\ k.lastAt = e.at /\ k.skew = m.skew /\ k.tod = m.tod
        /\ k.ranges = m.ranges /\ k.pending = e.market /\ k.calibrator = m.calibrator
    BY EvaluatedIs
  <1>2. t # <<>> /\ t[Len(t)] = e
    BY AppendProperties
  <1> HIDE DEF k, t
  <1>3. DOMAIN m.range = {"market", "low", "high"}
    BY DEF Carries, Waits
  <1>4. DOMAIN k.range = {"market", "low", "high"} /\ k.range.market = e.market
    BY <1>1, <1>3 DEF OnEvent
  <1>5. Waits(k, t)
    BY <1>1, <1>2, <1>4 DEF Waits
  <1>6. Ranges(k, rs) /\ Labels(k, rs) /\ Tables(k, rs)
    BY <1>1 DEF Carries, Ranges, Labels, Tables
  <1> QED BY <1>5, <1>6 DEF Carries, k, t

\* A result adds to the tables.
LEMMA TablesGrow ==
  ASSUME NEW m, NEW rs \in Seq(Results), Tables(m, rs), NEW e \in Events, NEW resolved \in BOOLEAN,
         m.lastAt = e.at, NEW k, IsResult(k, m, e.mid, e.side, resolved)
  PROVE  Tables(k, Append(rs, [event |-> e, resolved |-> resolved]))
  <1> DEFINE x == [event |-> e, resolved |-> resolved]
             us == Append(rs, x)
             n == Len(rs)
             b == BucketIdx(e.mid)
             h == HourBucket(e.at)
  <1>1. x \in Results /\ x.event = e /\ x.resolved = resolved
    BY DEF Results
  <1> HIDE DEF x
  <1>2. /\ n \in Nat /\ Len(us) = n + 1 /\ us[n + 1] = x /\ \A i \in 1 .. n : us[i] = rs[i]
    BY <1>1, AppendProperties, LenProperties
  <1> HIDE DEF us, n
  <1>3. b \in Skews /\ h \in Hours
    BY EventIs, BucketsExist
  <1>4. /\ k.skew = [m.skew EXCEPT ![b] = Recorded(m.skew[b], e.side, resolved)]
        /\ k.tod = [m.tod EXCEPT ![h] = Recorded(m.tod[h], e.side, resolved)]
    BY DEF IsResult
  <1> HIDE DEF b, h
  <1>5. n + 1 \in 1 .. n + 1 /\ \A i \in 1 .. n : i \in 1 .. n + 1
    BY <1>2
  <1>6. \A i \in 1 .. n : CameTrue(us)[i] = CameTrue(rs)[i]
    BY <1>2, <1>5 DEF CameTrue, n
  <1>7. CameTrue(us)[n + 1] = (e.side = resolved)
    BY <1>1, <1>2, <1>5 DEF CameTrue
  <1>8. \A i \in 1 .. n : SkewKeys(us)[i] = SkewKeys(rs)[i] /\ TodKeys(us)[i] = TodKeys(rs)[i]
    BY <1>2, <1>5 DEF SkewKeys, TodKeys, n
  <1>9. SkewKeys(us)[n + 1] = b /\ TodKeys(us)[n + 1] = h
    BY <1>1, <1>2, <1>5 DEF SkewKeys, TodKeys, b, h
  <1>10. Tallied(m.skew, Skews, SkewKeys(rs), CameTrue(rs), n) /\ Tallied(m.tod, Hours, TodKeys(rs), CameTrue(rs), n)
    BY DEF Tables, n
  <1>11. Tallied(k.skew, Skews, SkewKeys(us), CameTrue(us), n + 1)
    <2>1. GoOn(SkewKeys(us), CameTrue(us), SkewKeys(rs), CameTrue(rs), n, b, e.side, resolved)
      BY <1>6, <1>7, <1>8, <1>9 DEF GoOn
    <2>2. k.skew = [m.skew EXCEPT ![b] = Recorded(m.skew[b], e.side, resolved)]
      BY <1>4
    <2>3. Tallied(m.skew, Skews, SkewKeys(rs), CameTrue(rs), n) /\ b \in Skews /\ n \in Nat
      BY <1>2, <1>3, <1>10
    <2> QED BY ONLY <2>1, <2>2, <2>3, TallyOne
  <1>12. Tallied(k.tod, Hours, TodKeys(us), CameTrue(us), n + 1)
    <2>1. GoOn(TodKeys(us), CameTrue(us), TodKeys(rs), CameTrue(rs), n, h, e.side, resolved)
      BY <1>6, <1>7, <1>8, <1>9 DEF GoOn
    <2>2. k.tod = [m.tod EXCEPT ![h] = Recorded(m.tod[h], e.side, resolved)]
      BY <1>4
    <2>3. Tallied(m.tod, Hours, TodKeys(rs), CameTrue(rs), n) /\ h \in Hours /\ n \in Nat
      BY <1>2, <1>3, <1>10
    <2> QED BY ONLY <2>1, <2>2, <2>3, TallyOne
  <1> QED BY <1>2, <1>11, <1>12 DEF Tables, us, x

\* A result adds its range.
LEMMA RangesGrow ==
  ASSUME NEW m, NEW rs \in Seq(Results), Ranges(m, rs), NEW e, NEW x \in Results, x.event = e,
         m.range # NoRange, m.range.market = e.market,
         NEW k, NEW mid, NEW predicted, NEW resolved, IsResult(k, m, mid, predicted, resolved)
  PROVE  Ranges(k, Append(rs, x))
  <1> DEFINE us == Append(rs, x)
             n == Len(rs)
  <1>1. n \in Nat /\ Len(us) = n + 1 /\ us[n + 1] = x /\ \A i \in 1 .. n : us[i] = rs[i]
    BY AppendProperties, LenProperties
  <1> HIDE DEF us, n
  <1>2. PICK S : \E q \in Seq(S) : /\ RingHolds(m.ranges, VolatilityWindow, q) /\ Len(q) = n
                                   /\ \A i \in 1 .. n : q[i].market = rs[i].event.market
    BY DEF Ranges, n
  <1>3. PICK q \in Seq(S) : /\ RingHolds(m.ranges, VolatilityWindow, q) /\ Len(q) = n
                            /\ \A i \in 1 .. n : q[i].market = rs[i].event.market
    BY <1>2
  <1>4. PICK width : k.ranges = PushRing(m.ranges, [market |-> m.range.market, range |-> width])
    BY DEF IsResult
  <1> DEFINE y == [market |-> m.range.market, range |-> width]
             T == S \cup {y}
             p == Append(q, y)
  <1>5. y.market = e.market
    OBVIOUS
  <1>6. k.ranges = PushRing(m.ranges, y)
    BY <1>4
  <1> HIDE DEF y
  <1>7. q \in Seq(T) /\ y \in T
    BY SeqMonotonic
  <1> HIDE DEF T
  <1>8. p \in Seq(T) /\ Len(p) = n + 1 /\ p[n + 1] = y /\ \A i \in 1 .. n : p[i] = q[i]
    BY <1>3, <1>7, AppendProperties
  <1>9. VolatilityWindow \in Nat \ {0}
    BY ScoresAssumptions
  <1>10. RingHolds(k.ranges, VolatilityWindow, p)
    BY <1>3, <1>6, <1>7, <1>9, PushHolds
  <1> HIDE DEF p
  <1>11. \A i \in 1 .. n + 1 : i \in 1 .. n \/ i = n + 1
    BY <1>1
  <1>12. \A i \in 1 .. n + 1 : p[i].market = us[i].event.market
    BY <1>1, <1>3, <1>5, <1>8, <1>11
  <1>13. Ranges(k, us)
    <2>1. Len(p) = Len(us) /\ \A i \in 1 .. Len(us) : p[i].market = us[i].event.market
      BY <1>1, <1>8, <1>12
    <2>2. \E z \in Seq(T) : /\ RingHolds(k.ranges, VolatilityWindow, z) /\ Len(z) = Len(us)
                            /\ \A i \in 1 .. Len(us) : z[i].market = us[i].event.market
      BY <1>8, <1>10, <2>1
    <2> QED BY <2>2 DEF Ranges
  <1> QED BY <1>13 DEF us

\* A result adds its label.
LEMMA LabelsGrow ==
  ASSUME NEW m, NEW rs \in Seq(Results), Labels(m, rs), NEW e \in Events, NEW x \in Results, x.event = e,
         m.pending = e.market,
         NEW k, NEW mid, NEW predicted, NEW resolved, IsResult(k, m, mid, predicted, resolved)
  PROVE  Labels(k, Append(rs, x))
  <1> DEFINE us == Append(rs, x)
             n == Len(rs)
             c == m.calibrator
             l == Len(c)
  <1>1. n \in Nat /\ Len(us) = n + 1 /\ us[n + 1] = x /\ \A i \in 1 .. n : us[i] = rs[i]
    BY AppendProperties, LenProperties
  <1>2. e.market \in Int /\ e.market # 0
    BY EventIs
  <1>3. k.calibrator = Append(c, e.market)
    BY <1>2 DEF IsResult
  <1>4. c \in Seq(Int) /\ n <= l /\ \A i \in 1 .. n : c[l - n + i] = rs[i].event.market
    BY DEF Labels
  <1> HIDE DEF c
  <1>5. /\ k.calibrator \in Seq(Int) /\ Len(k.calibrator) = l + 1 /\ k.calibrator[l + 1] = e.market
        /\ l \in Nat /\ \A i \in 1 .. l : k.calibrator[i] = c[i]
    BY <1>2, <1>3, <1>4, AppendProperties, LenProperties
  <1> HIDE DEF us, n, l
  <1>6. ASSUME NEW i \in 1 .. n + 1 PROVE k.calibrator[l + 1 - (n + 1) + i] = us[i].event.market
    <2>1. CASE i = n + 1
      <3>1. l + 1 - (n + 1) + i = l + 1
        BY <1>1, <1>5, <2>1
      <3> QED BY <1>1, <1>5, <2>1, <3>1
    <2>2. CASE i # n + 1
      <3>1. i \in 1 .. n /\ l + 1 - (n + 1) + i = l - n + i /\ l - n + i \in 1 .. l
        <4>1. n \in Nat /\ l \in Nat /\ n <= l
          BY <1>1, <1>4, <1>5
        <4> QED BY ONLY <2>2, <4>1, i \in 1 .. n + 1
      <3>2. k.calibrator[l - n + i] = c[l - n + i]
        BY <1>5, <3>1
      <3> QED BY <1>1, <1>4, <3>1, <3>2
    <2> QED BY <2>1, <2>2
  <1>7. Labels(k, us)
    <2>1. Len(us) <= Len(k.calibrator)
      BY <1>1, <1>4, <1>5
    <2> QED BY <1>1, <1>5, <1>6, <2>1 DEF Labels
  <1> QED BY <1>7 DEF us

\* A result is recorded.
LEMMA ResultCarries ==
  ASSUME NEW m, Shaped(m), NEW s \in Seq(Events), s # <<>>, NEW rs \in Seq(Results), Carries(m, s, rs),
         NEW e, e = s[Len(s)], NEW resolved \in BOOLEAN, NEW t, t = <<>>
  PROVE  Carries(MarketResult(m, e.mid, e.side, resolved), t,
                 Append(rs, [event |-> e, resolved |-> resolved]))
  <1> DEFINE k == MarketResult(m, e.mid, e.side, resolved)
             x == [event |-> e, resolved |-> resolved]
  <1>1. IsResult(k, m, e.mid, e.side, resolved)
    BY ResultIs
  <1> HIDE DEF k
  <1>2. e \in Events
    <2>1. Len(s) \in Nat /\ Len(s) # 0
      BY EmptySeq, LenProperties
    <2>2. Len(s) \in 1 .. Len(s)
      BY <2>1
    <2> QED BY <2>2, ElementOfSeq
  <1>3. x \in Results /\ x.event = e
    BY <1>2 DEF Results
  <1>4. m.pending = e.market /\ m.range.market = e.market /\ m.lastAt = e.at
    BY DEF Carries, Waits
  <1>5. m.range # NoRange
    <2>1. e.market # 0
      BY <1>2, EventIs
    <2> QED BY <1>4, <2>1 DEF NoRange
  <1>6. Ranges(m, rs) /\ Labels(m, rs) /\ Tables(m, rs)
    BY DEF Carries
  <1>7. Waits(k, t)
    BY <1>1 DEF Waits, IsResult, NoRange
  <1>8. Tables(k, Append(rs, x))
    BY <1>1, <1>2, <1>4, <1>6, TablesGrow
  <1> HIDE DEF x
  <1>9. Ranges(k, Append(rs, x))
    BY <1>1, <1>3, <1>4, <1>5, <1>6, RangesGrow
  <1>10. Labels(k, Append(rs, x))
    BY <1>1, <1>2, <1>3, <1>4, <1>6, LabelsGrow
  <1> QED BY <1>7, <1>8, <1>9, <1>10 DEF Carries, k, x

\* Nothing is carried into a new model but its snapshot.
LEMMA NewCarries ==
  ASSUME NEW m, NEW s, s = <<>>, m.skew = NewScores.skew, m.tod = NewScores.tod,
         m.range = NewScores.range, m.ranges = NewScores.ranges, m.pending = NewScores.pending,
         m.calibrator \in Seq(Int)
  PROVE  Carries(m, s, s)
  <1>1. /\ m.skew = [b \in Skews |-> Untaken] /\ m.tod = [h \in Hours |-> Untaken]
        /\ m.range = NoRange /\ m.ranges = NewRing(VolatilityWindow) /\ m.pending = 0
    BY DEF NewScores
  <1>2. Len(s) = 0 /\ s \in Seq({})
    OBVIOUS
  <1>3. Waits(m, s)
    BY <1>1 DEF Waits, NoRange
  <1>4. Ranges(m, s)
    <2>1. VolatilityWindow \in Nat \ {0}
      BY ScoresAssumptions
    <2>2. RingHolds(m.ranges, VolatilityWindow, s)
      BY <1>1, <2>1, EmptyHolds
    <2>3. \A i \in 1 .. Len(s) : s[i].market = s[i].event.market
      BY <1>2
    <2> QED BY <1>2, <2>2, <2>3 DEF Ranges
  <1>5. Labels(m, s)
    <2>1. Len(m.calibrator) \in Nat
      BY LenProperties
    <2> QED BY <1>2, <2>1 DEF Labels
  <1>6. Tables(m, s)
    <2>1. \A P : {i \in 1 .. 0 : i \in P} = {}
      OBVIOUS
    <2>2. 1 .. Len(s) = {}
      BY <1>2
    <2>3. Cardinality({}) = 0
      BY FS_EmptySet
    <2> DEFINE ks == SkewKeys(s)
               hs == TodKeys(s)
               ws == CameTrue(s)
    <2>4. /\ \A b : {i \in 1 .. Len(s) : ks[i] = b} = {} /\ {i \in 1 .. Len(s) : ks[i] = b /\ ws[i]} = {}
          /\ \A b : {i \in 1 .. Len(s) : hs[i] = b} = {} /\ {i \in 1 .. Len(s) : hs[i] = b /\ ws[i]} = {}
      <3> HIDE DEF ks, hs, ws
      <3> QED BY <2>2
    <2>5. Untaken.taken = 0 /\ Untaken.wins = 0
      BY DEF Untaken
    <2> HIDE DEF ks, hs, ws
    <2>6. Tallied(m.skew, Skews, ks, ws, Len(s)) /\ Tallied(m.tod, Hours, hs, ws, Len(s))
      BY <1>1, <2>3, <2>4, <2>5 DEF Tallied
    <2> QED BY <2>6 DEF Tables, ks, hs, ws
  <1> QED BY <1>3, <1>4, <1>5, <1>6 DEF Carries
-----------------------------------------------------------------------------
(* What Portfolio takes the model to be.                                   *)

\* One more recorded result, or one more event.
Onward(v, i, rs, ss) ==
  IF i <= Len(rs)
  THEN Portfolio!RecordMarketResult(Portfolio!Evaluate(v, rs[i].event.market), rs[i].event.market)
  ELSE Portfolio!Evaluate(v, ss[i - Len(rs)].market)

IsView(f, rs, ss, base, n) ==
  f = [i \in 0 .. n |-> IF i = 0 THEN base ELSE Onward(f[i - 1], i, rs, ss)]

\* The recursion is well founded.
LEMMA ViewExists ==
  ASSUME NEW rs, NEW ss, NEW base, NEW n \in Nat
  PROVE  \E f : IsView(f, rs, ss, base, n)
  <1> DEFINE Bad == {k \in Nat : ~ \E f : IsView(f, rs, ss, base, k)}
  <1>1. Bad = {}
    <2> SUFFICES ASSUME Bad # {} PROVE FALSE
      OBVIOUS
    <2>1. PICK m \in Bad : \A k \in Bad : m <= k
      <3> Bad \in SUBSET Nat
        OBVIOUS
      <3> HIDE DEF Bad
      <3> QED BY LeastNat
    <2>2. CASE m = 0
      <3>1. IsView([k \in 0 .. 0 |-> base], rs, ss, base, 0)
        BY DEF IsView
      <3> QED BY <2>1, <2>2, <3>1
    <2>3. CASE m # 0
      <3>1. m - 1 \in Nat /\ m - 1 \notin Bad
        BY <2>1, <2>3
      <3>2. PICK f : IsView(f, rs, ss, base, m - 1)
        BY <3>1
      <3> DEFINE step(k) == Onward(f[k - 1], k, rs, ss)
                 g == [k \in 0 .. m |-> IF k = 0 THEN base ELSE step(k)]
      <3>3. \A k \in 0 .. m - 1 : f[k] = IF k = 0 THEN base ELSE step(k)
        BY <3>2 DEF IsView
      <3>4. \A k \in 0 .. m - 1 : g[k] = f[k]
        <4> HIDE DEF step
        <4> QED BY <3>1, <3>3
      <3>5. \A k \in 0 .. m : k # 0 => k - 1 \in 0 .. m - 1 /\ g[k - 1] = f[k - 1]
        <4>1. \A k \in 0 .. m : k # 0 => k - 1 \in 0 .. m - 1
          BY <3>1
        <4> HIDE DEF g
        <4> QED BY <3>4, <4>1
      <3>6. \A k \in 0 .. m : (IF k = 0 THEN base ELSE step(k))
                            = (IF k = 0 THEN base ELSE Onward(g[k - 1], k, rs, ss))
        <4> HIDE DEF g
        <4> QED BY <3>5
      <3>7. IsView(g, rs, ss, base, m)
        <4>1. g = [k \in 0 .. m |-> IF k = 0 THEN base ELSE step(k)]
          OBVIOUS
        <4> HIDE DEF g, step
        <4> QED BY <3>6, <4>1 DEF IsView
      <3> QED BY <2>1, <3>7
    <2> QED BY <2>1, <2>2, <2>3
  <1> QED BY <1>1

SnapshotOf == SubSeq(ms.calibrator, 1, Len(ms.calibrator) - Len(results))

\* The view is what the recursion ends with.
LEMMA ViewIs ==
  ASSUME Len(results) + Len(seen) \in Nat
  PROVE  \E f : /\ IsView(f, results, seen, Portfolio!LoadSnapshot(Portfolio!NewModel, SnapshotOf),
                          Len(results) + Len(seen))
                /\ View = f[Len(results) + Len(seen)]
  <1> DEFINE base == Portfolio!LoadSnapshot(Portfolio!NewModel, SnapshotOf)
             l == Len(results) + Len(seen)
             Takes(f) == f = [i \in 0 .. l |->
                                IF i = 0 THEN base
                                ELSE IF i <= Len(results)
                                     THEN Portfolio!RecordMarketResult(
                                            Portfolio!Evaluate(f[i - 1], results[i].event.market),
                                            results[i].event.market)
                                     ELSE Portfolio!Evaluate(f[i - 1], seen[i - Len(results)].market)]
             view == CHOOSE f : Takes(f)
  <1>1. View = view[l]
    BY DEF View, SnapshotOf
  <1>2. \A f : Takes(f) <=> IsView(f, results, seen, base, l)
    BY DEF IsView, Onward
  <1>3. \E f : Takes(f)
    <2> HIDE DEF Takes, base, l
    <2>1. l \in Nat
      BY DEF l
    <2> QED BY <1>2, <2>1, ViewExists
  <1>4. Takes(view)
    <2> HIDE DEF Takes
    <2> QED BY <1>3
  <1> HIDE DEF view, Takes
  <1> QED BY <1>1, <1>2, <1>4

\* What it holds of the first a results, and of the first b events after them.
Between(v, a, rs, snapshot) ==
  /\ v.outcomes \in Seq(Int) /\ Len(v.outcomes) = a
  /\ v.calibrator \in Seq(Int) /\ Len(v.calibrator) = Len(snapshot) + a
  /\ \A k \in 1 .. Len(snapshot) : v.calibrator[k] = snapshot[k]
  /\ \A k \in 1 .. a : v.calibrator[Len(snapshot) + k] = rs[k].event.market
  /\ v.ranges \in Seq(Int) /\ Len(v.ranges) = IF a < VolatilityWindow THEN a ELSE VolatilityWindow
  /\ \A k \in 1 .. Len(v.ranges) : v.ranges[k] = rs[a - Len(v.ranges) + k].event.market

Within(v, b, ss) ==
  /\ DOMAIN v = {"rolling", "pending", "ranging", "ranges", "outcomes", "calibrator"}
  /\ v.rolling = {ss[k].market : k \in 1 .. b}
  /\ v.pending = IF b = 0 THEN 0 ELSE ss[b].market
  /\ v.ranging = IF b = 0 THEN 0 ELSE ss[b].market

\* It begins with the snapshot.
LEMMA FirstView ==
  ASSUME NEW snapshot \in Seq(Int), NEW v, v = Portfolio!LoadSnapshot(Portfolio!NewModel, snapshot),
         NEW rs, NEW ss
  PROVE  Between(v, 0, rs, snapshot) /\ Within(v, 0, ss)
  <1>1. /\ DOMAIN v = {"rolling", "pending", "ranging", "ranges", "outcomes", "calibrator"}
        /\ v.rolling = {} /\ v.pending = 0 /\ v.ranging = 0 /\ v.ranges = <<>> /\ v.outcomes = <<>>
        /\ v.calibrator = snapshot
    BY DEF Portfolio!LoadSnapshot, Portfolio!NewModel, Portfolio!NoMarket
  <1>2. Within(v, 0, ss)
    BY <1>1 DEF Within
  <1>3. Len(<<>>) = 0 /\ <<>> \in Seq(Int) /\ Len(snapshot) \in Nat
    BY LenProperties
  <1>4. VolatilityWindow \in Nat \ {0}
    BY ScoresAssumptions
  <1>5. Between(v, 0, rs, snapshot)
    BY <1>1, <1>3, <1>4 DEF Between
  <1> QED BY <1>2, <1>5

\* An event belongs to its market.
LEMMA ViewEvaluates ==
  ASSUME NEW v, NEW a, NEW rs, NEW snapshot, Between(v, a, rs, snapshot),
         NEW b \in Nat, NEW ss, Within(v, b, ss), NEW w, w = Portfolio!Evaluate(v, ss[b + 1].market)
  PROVE  Between(w, a, rs, snapshot) /\ Within(w, b + 1, ss)
  <1> DEFINE m == ss[b + 1].market
  <1>1. DOMAIN v = {"rolling", "pending", "ranging", "ranges", "outcomes", "calibrator"}
        /\ v.rolling = {ss[k].market : k \in 1 .. b}
    BY DEF Within
  <1>2. /\ DOMAIN w = DOMAIN v /\ w.rolling = v.rolling \union {m} /\ w.pending = m /\ w.ranging = m
        /\ w.ranges = v.ranges /\ w.outcomes = v.outcomes /\ w.calibrator = v.calibrator
    BY <1>1 DEF Portfolio!Evaluate
  <1>3. w.rolling = {ss[k].market : k \in 1 .. b + 1}
    <2>1. \A k : k \in 1 .. b + 1 <=> k \in 1 .. b \/ k = b + 1
      OBVIOUS
    <2> QED BY <1>1, <1>2, <2>1
  <1>4. Within(w, b + 1, ss)
    BY <1>1, <1>2, <1>3 DEF Within
  <1>5. Between(w, a, rs, snapshot)
    BY <1>2 DEF Between
  <1> QED BY <1>4, <1>5

\* A result belongs to its market, and leaves a range and a label of it.
LEMMA ViewRecords ==
  ASSUME NEW a \in Nat, NEW rs, NEW snapshot \in Seq(Int), NEW v, Between(v, a, rs, snapshot), NEW ss,
         Within(v, 0, ss), NEW m \in Int, m = rs[a + 1].event.market, m # 0, NEW w,
         w = Portfolio!RecordMarketResult(Portfolio!Evaluate(v, m), m)
  PROVE  Between(w, a + 1, rs, snapshot) /\ Within(w, 0, ss)
  <1> DEFINE u == Portfolio!Evaluate(v, m)
             x == [rolling    |-> u.rolling,
                   pending    |-> u.pending,
                   ranging    |-> 0,
                   ranges     |-> IF u.ranging = 0 THEN u.ranges ELSE Portfolio!Push(u.ranges, u.ranging),
                   outcomes   |-> Append(u.outcomes, m),
                   calibrator |-> IF u.pending = 0 THEN u.calibrator ELSE Append(u.calibrator, u.pending)]
  <1>1. DOMAIN v = {"rolling", "pending", "ranging", "ranges", "outcomes", "calibrator"}
    BY DEF Within
  <1>2. /\ u.pending = m /\ u.ranging = m
        /\ u.ranges = v.ranges /\ u.outcomes = v.outcomes /\ u.calibrator = v.calibrator
    BY <1>1 DEF Portfolio!Evaluate
  <1>3. w = [x EXCEPT !.rolling = {}, !.pending = 0]
    BY DEF Portfolio!RecordMarketResult, Portfolio!ResetRolling, Portfolio!NoMarket
  <1> HIDE DEF u
  <1>4. /\ DOMAIN x = {"rolling", "pending", "ranging", "ranges", "outcomes", "calibrator"}
        /\ x.ranging = 0 /\ x.ranges = Portfolio!Push(v.ranges, m)
        /\ x.outcomes = Append(v.outcomes, m) /\ x.calibrator = Append(v.calibrator, m)
    BY <1>2
  <1> HIDE DEF x
  <1>5. /\ DOMAIN w = {"rolling", "pending", "ranging", "ranges", "outcomes", "calibrator"}
        /\ w.rolling = {} /\ w.pending = 0 /\ w.ranging = 0 /\ w.ranges = Portfolio!Push(v.ranges, m)
        /\ w.outcomes = Append(v.outcomes, m) /\ w.calibrator = Append(v.calibrator, m)
    BY <1>3, <1>4
  <1>6. Within(w, 0, ss)
    <2>1. {ss[k].market : k \in 1 .. 0} = {}
      OBVIOUS
    <2> QED BY ONLY <1>5, <2>1 DEF Within
  <1>7. /\ w.outcomes \in Seq(Int) /\ Len(w.outcomes) = a + 1
    <2>1. v.outcomes \in Seq(Int) /\ Len(v.outcomes) = a /\ w.outcomes = Append(v.outcomes, m)
      BY <1>5 DEF Between
    <2> QED BY ONLY <2>1, m \in Int, AppendProperties
  <1> DEFINE n == Len(snapshot)
             c == v.calibrator
  <1>8. /\ n \in Nat /\ c \in Seq(Int) /\ Len(c) = n + a
        /\ \A k \in 1 .. n : c[k] = snapshot[k]
        /\ \A k \in 1 .. a : c[n + k] = rs[k].event.market
    BY LenProperties DEF Between
  <1> HIDE DEF n, c
  <1>9. /\ w.calibrator \in Seq(Int) /\ Len(w.calibrator) = n + a + 1
        /\ \A k \in 1 .. n + a : w.calibrator[k] = c[k]
        /\ w.calibrator[n + a + 1] = m
    <2>1. w.calibrator = Append(c, m)
      BY <1>5 DEF c
    <2> QED BY <1>8, <2>1, AppendProperties
  <1>10. \A k \in 1 .. n : w.calibrator[k] = snapshot[k]
    <2>1. \A k \in 1 .. n : k \in 1 .. n + a
      BY <1>8
    <2> QED BY <1>8, <1>9, <2>1
  <1>11. ASSUME NEW k \in 1 .. a + 1 PROVE w.calibrator[n + k] = rs[k].event.market
    <2>1. CASE k = a + 1
      <3>1. n + k = n + a + 1
        BY <1>8, <2>1
      <3> QED BY <1>9, <2>1, <3>1
    <2>2. CASE k # a + 1
      <3>1. k \in 1 .. a /\ n + k \in 1 .. n + a
        BY <1>8, <2>2
      <3> QED BY <1>8, <1>9, <3>1
    <2> QED BY <2>1, <2>2
  <1> DEFINE r == v.ranges
             l == Len(r)
             q == w.ranges
             W == VolatilityWindow
  <1>12. /\ r \in Seq(Int) /\ l \in Nat /\ l = IF a < W THEN a ELSE W
         /\ \A k \in 1 .. l : r[k] = rs[a - l + k].event.market
    BY LenProperties DEF Between
  <1>13. W \in Nat \ {0}
    BY ScoresAssumptions
  <1>14. q = IF l < W THEN Append(r, m) ELSE Append(Tail(r), m)
    BY <1>5 DEF Portfolio!Push
  <1> HIDE DEF r, q, W, l
  <1>15. /\ q \in Seq(Int) /\ Len(q) = IF a + 1 < W THEN a + 1 ELSE W
         /\ \A k \in 1 .. Len(q) : q[k] = rs[a + 1 - Len(q) + k].event.market
    <2>1. CASE a < W
      <3>1. l = a /\ q = Append(r, m) /\ Len(r) = a
        BY <1>12, <1>14, <2>1 DEF l
      <3>2. q \in Seq(Int) /\ Len(q) = a + 1 /\ q[a + 1] = m /\ \A k \in 1 .. a : q[k] = r[k]
        BY <1>12, <3>1, AppendProperties
      <3>3. \A k \in 1 .. a : a - l + k = k
        BY <3>1
      <3>4. \A k \in 1 .. a : q[k] = rs[k].event.market
        <4> SUFFICES ASSUME NEW k \in 1 .. a PROVE q[k] = rs[k].event.market
          OBVIOUS
        <4>1. r[k] = rs[a - l + k].event.market /\ a - l + k = k
          BY <1>12, <3>1, <3>3
        <4> QED BY <3>2, <4>1
      <3>5. \A k \in 1 .. a + 1 : k \in 1 .. a \/ k = a + 1
        OBVIOUS
      <3>6. \A k \in 1 .. a + 1 : q[k] = rs[k].event.market
        BY <3>2, <3>4, <3>5
      <3>7. \A k \in 1 .. a + 1 : a + 1 - (a + 1) + k = k
        OBVIOUS
      <3>8. a + 1 = IF a + 1 < W THEN a + 1 ELSE W
        BY <1>13, <2>1
      <3>9. \A k \in 1 .. Len(q) : q[k] = rs[a + 1 - Len(q) + k].event.market
        BY <3>2, <3>6, <3>7
      <3> QED BY <3>2, <3>8, <3>9
    <2>2. CASE ~(a < W)
      <3>1. l = W /\ q = Append(Tail(r), m) /\ r # <<>> /\ Len(r) = W
        <4>1. l = W
          BY <1>12, <2>2
        <4>2. Len(r) # 0
          BY <1>13, <4>1 DEF l
        <4> QED BY <1>12, <1>13, <1>14, <4>1, <4>2, EmptySeq DEF l
      <3>2. Tail(r) \in Seq(Int) /\ Len(Tail(r)) = W - 1 /\ \A k \in 1 .. W - 1 : Tail(r)[k] = r[k + 1]
        BY <1>12, <3>1, HeadTailProperties
      <3>3. q \in Seq(Int) /\ Len(q) = W /\ q[W] = m /\ \A k \in 1 .. W - 1 : q[k] = r[k + 1]
        <4>1. /\ q \in Seq(Int) /\ Len(q) = W - 1 + 1 /\ q[W - 1 + 1] = m
              /\ \A k \in 1 .. W - 1 : q[k] = Tail(r)[k]
          BY <3>1, <3>2, AppendProperties
        <4>2. W - 1 + 1 = W
          BY <1>13
        <4> QED BY <3>2, <4>1, <4>2
      <3>4. ASSUME NEW k \in 1 .. W PROVE q[k] = rs[a + 1 - W + k].event.market
        <4>1. CASE k = W
          <5>1. a + 1 - W + k = a + 1
            BY <1>13, <4>1
          <5> QED BY <3>3, <4>1, <5>1
        <4>2. CASE k # W
          <5>1. k \in 1 .. W - 1 /\ k + 1 \in 1 .. l /\ a - l + (k + 1) = a + 1 - W + k
            BY <1>13, <3>1, <4>2
          <5>2. q[k] = r[k + 1] /\ r[k + 1] = rs[a - l + (k + 1)].event.market
            BY <1>12, <3>3, <5>1
          <5> QED BY <5>1, <5>2
        <4> QED BY <4>1, <4>2
      <3>5. W = IF a + 1 < W THEN a + 1 ELSE W
        BY <1>13, <2>2
      <3> QED BY <3>3, <3>4, <3>5
    <2> QED BY <2>1, <2>2
  <1>16. Between(w, a + 1, rs, snapshot)
    <2>1. n + a + 1 = Len(snapshot) + (a + 1)
      BY <1>8 DEF n
    <2>2. Len(w.calibrator) = Len(snapshot) + (a + 1)
      BY <1>9, <2>1
    <2>3. /\ w.ranges \in Seq(Int)
          /\ Len(w.ranges) = IF a + 1 < VolatilityWindow THEN a + 1 ELSE VolatilityWindow
          /\ \A k \in 1 .. Len(w.ranges) : w.ranges[k] = rs[a + 1 - Len(w.ranges) + k].event.market
      BY <1>15 DEF q, W
    <2>4. \A k \in 1 .. Len(snapshot) : w.calibrator[k] = snapshot[k]
      BY <1>10 DEF n
    <2>5. \A k \in 1 .. a + 1 : w.calibrator[Len(snapshot) + k] = rs[k].event.market
      BY <1>11 DEF n
    <2> DEFINE d == a + 1
    <2>6. d = a + 1 /\ Len(w.ranges) \in Nat
      BY <2>3, LenProperties
    <2> HIDE DEF d
    <2>7. /\ Len(w.outcomes) = d /\ Len(w.calibrator) = Len(snapshot) + d
          /\ Len(w.ranges) = IF d < VolatilityWindow THEN d ELSE VolatilityWindow
          /\ \A k \in 1 .. d : w.calibrator[Len(snapshot) + k] = rs[k].event.market
      BY <1>7, <2>2, <2>3, <2>5, <2>6
    <2>8. ASSUME NEW k \in 1 .. Len(w.ranges) PROVE w.ranges[k] = rs[d - Len(w.ranges) + k].event.market
      <3>1. w.ranges[k] = rs[a + 1 - Len(w.ranges) + k].event.market
        BY <2>3
      <3>2. a + 1 - Len(w.ranges) + k = d - Len(w.ranges) + k
        BY <2>6
      <3> QED BY ONLY <3>1, <3>2, Zenon
    <2>9. Between(w, d, rs, snapshot)
      BY ONLY <1>7, <1>9, <2>3, <2>4, <2>7, <2>8 DEF Between
    <2> QED BY <2>9 DEF d
  <1> QED BY <1>6, <1>16
\* Of every result and of every event, in their order.
LEMMA ViewHolds ==
  ASSUME results \in Seq(Results), seen \in Seq(Events), SnapshotOf \in Seq(Int)
  PROVE  Between(View, Len(results), results, SnapshotOf) /\ Within(View, Len(seen), seen)
  <1> DEFINE n == Len(results)
             l == Len(seen)
             base == Portfolio!LoadSnapshot(Portfolio!NewModel, SnapshotOf)
  <1>1. n \in Nat /\ l \in Nat /\ n + l \in Nat
    BY LenProperties
  <1>2. PICK f : IsView(f, results, seen, base, n + l) /\ View = f[n + l]
    BY <1>1, ViewIs
  <1>3. \A i \in 0 .. n + l : f[i] = IF i = 0 THEN base ELSE Onward(f[i - 1], i, results, seen)
    BY <1>2 DEF IsView
  <1>4. \A i \in 1 .. n : results[i].event.market \in Int /\ results[i].event.market # 0
    <2> SUFFICES ASSUME NEW i \in 1 .. n
                 PROVE  results[i].event.market \in Int /\ results[i].event.market # 0
      OBVIOUS
    <2>1. results[i] \in Results
      BY ElementOfSeq
    <2>2. results[i].event \in Events
      BY <2>1 DEF Results
    <2> QED BY <2>2, EventIs
  <1>5. Between(base, 0, results, SnapshotOf) /\ Within(base, 0, seen)
    BY FirstView
  <1> HIDE DEF n, l, base
  <1> DEFINE Right(i) == IF i <= n THEN Between(f[i], i, results, SnapshotOf) /\ Within(f[i], 0, seen)
                         ELSE Between(f[i], n, results, SnapshotOf) /\ Within(f[i], i - n, seen)
             Bad == {i \in Nat : i <= n + l /\ ~Right(i)}
  <1>6. Bad = {}
    <2> SUFFICES ASSUME Bad # {} PROVE FALSE
      OBVIOUS
    <2>1. PICK m \in Bad : \A k \in Bad : m <= k
      <3> Bad \in SUBSET Nat
        OBVIOUS
      <3> HIDE DEF Bad
      <3> QED BY LeastNat
    <2>2. m \in Nat /\ m <= n + l /\ ~Right(m) /\ m \in 0 .. n + l
      BY <1>1, <2>1
    <2>3. CASE m = 0
      <3>1. f[0] = base /\ 0 <= n
        BY <1>1, <1>3, <2>2, <2>3
      <3> QED BY <1>5, <2>2, <2>3, <3>1
    <2>4. CASE m # 0
      <3>1. m - 1 \in Nat /\ m - 1 \notin Bad /\ m - 1 <= n + l
        BY <1>1, <2>1, <2>2, <2>4
      <3>2. Right(m - 1)
        BY <3>1
      <3>3. f[m] = Onward(f[m - 1], m, results, seen)
        BY <1>3, <2>2, <2>4
      <3>4. CASE m <= n
        <4>1. m - 1 <= n /\ m \in 1 .. n /\ m - 1 + 1 = m
          BY <1>1, <2>2, <2>4, <3>4
        <4>2. Between(f[m - 1], m - 1, results, SnapshotOf) /\ Within(f[m - 1], 0, seen)
          BY <3>2, <4>1
        <4> DEFINE x == results[m].event.market
        <4>3. x \in Int /\ x # 0 /\ x = results[m - 1 + 1].event.market
          BY <1>4, <4>1
        <4>4. f[m] = Portfolio!RecordMarketResult(Portfolio!Evaluate(f[m - 1], x), x)
          BY <3>3, <3>4 DEF Onward, n
        <4> HIDE DEF x, Right
        <4>5. Between(f[m], m - 1 + 1, results, SnapshotOf) /\ Within(f[m], 0, seen)
          BY ONLY <3>1, <4>2, <4>3, <4>4, SnapshotOf \in Seq(Int), ViewRecords
        <4>6. Right(m)
          BY <3>4, <4>1, <4>5 DEF Right
        <4> QED BY <2>2, <4>6
      <3>5. CASE ~(m <= n)
        <4> DEFINE b == m - 1 - n
        <4>1. b \in Nat /\ b + 1 = m - n
          BY <1>1, <2>2, <3>5
        <4>2. Between(f[m - 1], n, results, SnapshotOf) /\ Within(f[m - 1], b, seen)
          <5>1. CASE m - 1 <= n
            <6>1. m - 1 = n /\ b = 0
              BY <1>1, <2>2, <3>5, <5>1
            <6> QED BY <3>2, <5>1, <6>1
          <5>2. CASE ~(m - 1 <= n)
            BY <3>2, <5>2
          <5> QED BY <5>1, <5>2
        <4>3. f[m] = Portfolio!Evaluate(f[m - 1], seen[b + 1].market)
          <5>1. f[m] = Portfolio!Evaluate(f[m - 1], seen[m - n].market)
            BY <3>3, <3>5 DEF Onward, n
          <5> HIDE DEF b
          <5> QED BY <4>1, <5>1
        <4> HIDE DEF b, Right
        <4>4. Between(f[m], n, results, SnapshotOf) /\ Within(f[m], b + 1, seen)
          BY ONLY <4>1, <4>2, <4>3, ViewEvaluates
        <4>5. Right(m)
          BY <3>5, <4>1, <4>4 DEF Right
        <4> QED BY <2>2, <4>5
      <3> QED BY <3>4, <3>5
    <2> QED BY <2>3, <2>4
  <1>7. Right(n + l)
    <2> HIDE DEF Right
    <2> QED BY <1>1, <1>6
  <1>8. Between(View, n, results, SnapshotOf) /\ Within(View, l, seen)
    <2>1. CASE l = 0
      <3>1. n + l = n /\ n <= n
        BY <1>1, <2>1
      <3> QED BY <1>2, <1>7, <2>1, <3>1
    <2>2. CASE l # 0
      <3>1. ~(n + l <= n) /\ (n + l) - n = l
        BY <1>1, <2>2
      <3>2. Between(f[n + l], n, results, SnapshotOf) /\ Within(f[n + l], (n + l) - n, seen)
        BY <1>7, <3>1
      <3> QED BY <1>2, <3>1, <3>2
    <2> QED BY <2>1, <2>2
  <1> QED BY <1>8 DEF n, l

\* The labels are those of the view.
LEMMA LabelsAgree ==
  ASSUME results \in Seq(Results), Labels(ms, results)
  PROVE  /\ SnapshotOf \in Seq(Int)
         /\ \A v : Between(v, Len(results), results, SnapshotOf) => ms.calibrator = v.calibrator
  <1> DEFINE n == Len(results)
             c == ms.calibrator
             l == Len(c)
             s == SnapshotOf
  <1>1. /\ n \in Nat /\ l \in Nat /\ n <= l /\ c \in Seq(Int)
        /\ \A i \in 1 .. n : c[l - n + i] = results[i].event.market
    BY LenProperties DEF Labels
  <1>2. s = SubSeq(c, 1, l - n)
    BY DEF SnapshotOf
  <1> HIDE DEF c, s
  <1>3. \A i \in 1 .. l : c[i] \in Int
    BY <1>1, ElementOfSeq
  <1> HIDE DEF n, l
  <1>4. 1 \in Int /\ l - n \in Int /\ (\A i \in 1 .. l - n : i \in 1 .. l) /\ l - n - 1 + 1 = l - n
    BY <1>1
  <1>5. /\ SubSeq(c, 1, l - n) \in Seq(Int)
        /\ Len(SubSeq(c, 1, l - n)) = IF 1 <= l - n THEN l - n - 1 + 1 ELSE 0
        /\ \A i \in 1 .. l - n - 1 + 1 : SubSeq(c, 1, l - n)[i] = c[1 + i - 1]
    BY <1>3, <1>4, SubSeqProperties
  <1>6. s \in Seq(Int) /\ Len(s) = l - n /\ \A i \in 1 .. l - n : s[i] = c[i]
    <2>1. \A i \in 1 .. l - n : 1 + i - 1 = i
      BY <1>4
    <2>2. ~(1 <= l - n) => l - n = 0
      BY <1>1
    <2> QED BY <1>2, <1>4, <1>5, <2>1, <2>2
  <1>7. ASSUME NEW v, Between(v, n, results, s) PROVE c = v.calibrator
    <2> DEFINE d == v.calibrator
    <2>1. /\ d \in Seq(Int) /\ Len(d) = Len(s) + n
          /\ \A k \in 1 .. Len(s) : d[k] = s[k]
          /\ \A k \in 1 .. n : d[Len(s) + k] = results[k].event.market
      BY <1>7 DEF Between
    <2> HIDE DEF d
    <2>2. Len(d) = l
      BY <1>1, <1>6, <2>1
    <2>3. ASSUME NEW i \in 1 .. l PROVE c[i] = d[i]
      <3>1. CASE i <= l - n
        <4>1. i \in 1 .. l - n
          BY <1>1, <3>1
        <4> QED BY <1>6, <2>1, <4>1
      <3>2. CASE ~(i <= l - n)
        <4> DEFINE k == i - (l - n)
        <4>1. k \in 1 .. n /\ l - n + k = i
          BY <1>1, <3>2
        <4> HIDE DEF k
        <4>2. d[l - n + k] = results[k].event.market /\ c[l - n + k] = results[k].event.market
          BY <1>1, <1>6, <2>1, <4>1
        <4> QED BY <4>1, <4>2
      <3> QED BY <3>1, <3>2
    <2>4. c = d
      BY <1>1, <2>1, <2>2, <2>3, SeqEqual DEF l
    <2> QED BY <2>4 DEF d
  <1> QED BY <1>6, <1>7 DEF n, c, s

\* The ranges are of the markets of the view.
LEMMA RangesAgree ==
  ASSUME results \in Seq(Results), Ranges(ms, results), NEW v, NEW s, Between(v, Len(results), results, s)
  PROVE  [i \in DOMAIN Live(ms.ranges) |-> Live(ms.ranges)[i].market] = v.ranges
  <1> DEFINE n == Len(results)
             r == ms.ranges
             W == VolatilityWindow
             k == r.len
             x == v.ranges
  <1>1. n \in Nat
    BY LenProperties
  <1>2. PICK S : \E q \in Seq(S) : /\ RingHolds(r, W, q) /\ Len(q) = n
                                   /\ \A i \in 1 .. n : q[i].market = results[i].event.market
    BY DEF Ranges
  <1>3. PICK q \in Seq(S) : /\ RingHolds(r, W, q) /\ Len(q) = n
                            /\ \A i \in 1 .. n : q[i].market = results[i].event.market
    BY <1>2
  <1>4. k = (IF n < W THEN n ELSE W) /\ \A i \in 0 .. k - 1 : Entry(r, i) = q[n - k + 1 + i]
    BY <1>3 DEF RingHolds
  <1>5. W \in Nat \ {0}
    BY ScoresAssumptions
  <1>6. k \in Nat /\ k <= n
    BY <1>1, <1>4, <1>5
  <1>7. Live(r) = [i \in 1 .. k |-> Entry(r, k - k + i - 1)]
    <2>1. k \in Int
      BY <1>6
    <2> DEFINE j == Min({k, k})
    <2>2. j = k
      BY <2>1, MinOfTwo
    <2>3. Live(r) = [i \in 1 .. j |-> Entry(r, k - j + i - 1)]
      BY DEF Live, LastN
    <2> HIDE DEF j
    <2> QED BY <2>2, <2>3
  <1>8. /\ x \in Seq(Int) /\ Len(x) = IF n < W THEN n ELSE W
        /\ \A i \in 1 .. Len(x) : x[i] = results[n - Len(x) + i].event.market
    BY DEF Between
  <1> HIDE DEF n, r, W, x, k
  <1>9. Len(x) = k
    BY <1>4, <1>8
  <1>10. ASSUME NEW i \in 1 .. k PROVE Entry(r, k - k + i - 1).market = x[i]
    <2>1. k - k + i - 1 = i - 1 /\ i - 1 \in 0 .. k - 1 /\ n - k + 1 + (i - 1) = n - k + i /\ n - k + i \in 1 .. n
      BY <1>1, <1>6
    <2>2. Entry(r, i - 1) = q[n - k + i]
      BY <1>4, <2>1
    <2>3. x[i] = results[n - k + i].event.market
      BY <1>8, <1>9
    <2> QED BY <1>3, <2>1, <2>2, <2>3
  <1>11. x = [i \in 1 .. k |-> x[i]]
    BY <1>8, <1>9, LenProperties
  <1>12. [i \in DOMAIN Live(r) |-> Live(r)[i].market] = [i \in 1 .. k |-> Entry(r, k - k + i - 1).market]
    BY <1>7
  <1>13. [i \in 1 .. k |-> Entry(r, k - k + i - 1).market] = [i \in 1 .. k |-> x[i]]
    BY <1>10
  <1> QED BY <1>11, <1>12, <1>13 DEF r, x

\* The rings, extremes and moves are of events of this market and of those whose result
\* was not recorded.
LEMMA RollingAre ==
  ASSUME seen \in Seq(Events), Remembers(ms, seen)
  PROVE  RollingMarkets \subseteq {seen[k].market : k \in 1 .. Len(seen)}
  <1>1. /\ MidsCap \in Nat \ {0} /\ DirCap \in Nat \ {0} /\ ImbalanceCap \in Nat \ {0}
    BY ScoresAssumptions
  <1>2. \A cap \in Nat \ {0} : Elements(Suffix(cap)) \subseteq {seen[k] : k \in 1 .. Len(seen)}
    <2> SUFFICES ASSUME NEW cap \in Nat \ {0}, NEW e \in Elements(Suffix(cap))
                 PROVE  e \in {seen[k] : k \in 1 .. Len(seen)}
      OBVIOUS
    <2> DEFINE l == Len(seen)
               n == IF l < cap THEN l ELSE cap
    <2>1. /\ Suffix(cap) \in Seq(Events) /\ Len(Suffix(cap)) = n /\ n \in Nat /\ l \in Nat /\ n <= l
          /\ \A i \in 1 .. n : Suffix(cap)[i] = seen[l - n + i]
      BY SuffixIs
    <2>2. DOMAIN Suffix(cap) = 1 .. n
      BY <2>1, LenProperties
    <2> HIDE DEF n, l
    <2>3. PICK i \in 1 .. n : e = Suffix(cap)[i]
      BY <2>2 DEF Elements
    <2>4. l - n + i \in 1 .. l
      BY <2>1
    <2> QED BY <2>1, <2>3, <2>4 DEF l
  <1>3. /\ Elements(Live(ms.mids)) \subseteq {seen[k] : k \in 1 .. Len(seen)}
        /\ Elements(Live(ms.dirs)) \subseteq {seen[k] : k \in 1 .. Len(seen)}
        /\ Elements(Live(ms.imbalance)) \subseteq {seen[k] : k \in 1 .. Len(seen)}
    <2>1. RingHolds(ms.mids, MidsCap, seen) /\ RingHolds(ms.dirs, DirCap, seen)
          /\ RingHolds(ms.imbalance, ImbalanceCap, seen)
      BY DEF Remembers
    <2>2. Live(ms.mids) = Suffix(MidsCap)
      BY <1>1, <2>1, LiveIs
    <2>3. Live(ms.dirs) = Suffix(DirCap)
      BY <1>1, <2>1, LiveIs
    <2>4. Live(ms.imbalance) = Suffix(ImbalanceCap)
      BY <1>1, <2>1, LiveIs
    <2> QED BY <1>1, <1>2, <2>2, <2>3, <2>4
  <1>4. \A e \in {ms.low, ms.high, ms.markov.last} : e = NoEvent \/ e \in {seen[k] : k \in 1 .. Len(seen)}
    <2>1. AreExtremes(ms.low, ms.high, seen) /\ ms.markov.last = LastOf(seen)
      BY DEF Remembers, Counts
    <2>2. ms.low = NoEvent \/ \E i \in 1 .. Len(seen) : ms.low = seen[i]
      BY <2>1 DEF AreExtremes
    <2>3. ms.high = NoEvent \/ \E i \in 1 .. Len(seen) : ms.high = seen[i]
      BY <2>1 DEF AreExtremes
    <2>4. ms.markov.last = NoEvent \/ \E i \in 1 .. Len(seen) : ms.markov.last = seen[i]
      <3>1. CASE seen = <<>>
        BY <2>1, <3>1 DEF LastOf
      <3>2. CASE seen # <<>>
        <4>1. Len(seen) \in Nat /\ Len(seen) # 0
          BY <3>2, EmptySeq, LenProperties
        <4>2. Len(seen) \in 1 .. Len(seen)
          BY <4>1
        <4> QED BY <2>1, <3>2, <4>2 DEF LastOf
      <3> QED BY <3>1, <3>2
    <2> QED BY <2>2, <2>3, <2>4
  <1>5. NoEvent.market = 0
    BY DEF NoEvent
  <1> DEFINE all == Elements(Live(ms.mids)) \union Elements(Live(ms.dirs))
                      \union Elements(Live(ms.imbalance)) \union {ms.low, ms.high, ms.markov.last}
  <1>6. RollingMarkets = {e.market : e \in all} \ {0}
    BY DEF RollingMarkets
  <1>7. \A e \in all : e = NoEvent \/ e \in {seen[k] : k \in 1 .. Len(seen)}
    BY <1>3, <1>4
  <1> HIDE DEF all
  <1> SUFFICES ASSUME NEW m \in RollingMarkets PROVE m \in {seen[k].market : k \in 1 .. Len(seen)}
    OBVIOUS
  <1>8. m # 0 /\ \E e \in all : m = e.market
    BY <1>6
  <1>9. PICK e \in all : m = e.market
    BY <1>8
  <1>10. e # NoEvent
    BY <1>5, <1>8, <1>9
  <1>11. PICK k \in 1 .. Len(seen) : e = seen[k]
    BY <1>7, <1>10
  <1> QED BY <1>9, <1>11
\* The results of one bucket.
OfBucket(ks, b) == {i \in DOMAIN results : ks[i] = b}

\* What a table holds is what was recorded of its buckets.
LEMMA TableHolds ==
  ASSUME results \in Seq(Results), NEW table, NEW B, NEW ks, NEW b \in B,
         Tallied(table, B, ks, CameTrue(results), Len(results))
  PROVE  Holds(table[b], OfBucket(ks, b))
  <1> DEFINE n == Len(results)
             found == OfBucket(ks, b)
  <1>1. DOMAIN results = 1 .. n
    BY LenProperties
  <1>2. /\ table[b].taken = Cardinality({i \in 1 .. n : ks[i] = b})
        /\ table[b].wins = Cardinality({i \in 1 .. n : ks[i] = b /\ CameTrue(results)[i]})
    BY DEF Tallied
  <1>3. {i \in 1 .. n : ks[i] = b} = found
    BY <1>1 DEF OfBucket
  <1>4. {i \in 1 .. n : ks[i] = b /\ CameTrue(results)[i]}
          = {i \in found : results[i].event.side = results[i].resolved}
    <2>1. \A i \in 1 .. n : CameTrue(results)[i] = (results[i].event.side = results[i].resolved)
      BY DEF CameTrue
    <2>2. \A i \in 1 .. n : CameTrue(results)[i] <=> results[i].event.side = results[i].resolved
      BY <2>1
    <2> QED BY <1>1, <2>2 DEF OfBucket
  <1> QED BY <1>2, <1>3, <1>4 DEF Holds

\* A model that remembers and carries what it should is the one the portfolio sees.
LEMMA CarriedIsSeen ==
  ASSUME seen \in Seq(Events), results \in Seq(Results), Remembers(ms, seen), Carries(ms, seen, results)
  PROVE  CarriesWhatPortfolioSees
  <1> DEFINE n == Len(results)
             l == Len(seen)
  <1>1. Waits(ms, seen) /\ Ranges(ms, results) /\ Labels(ms, results) /\ Tables(ms, results)
    BY DEF Carries
  <1>2. SnapshotOf \in Seq(Int)
    BY <1>1, LabelsAgree
  <1>3. Between(View, n, results, SnapshotOf) /\ Within(View, l, seen)
    BY <1>2, ViewHolds
  <1>4. RollingMarkets \subseteq View.rolling
    BY <1>3, RollingAre DEF Within
  <1>5. ms.pending = View.pending /\ ms.range.market = View.ranging
    <2>1. /\ View.pending = IF l = 0 THEN 0 ELSE seen[l].market
          /\ View.ranging = IF l = 0 THEN 0 ELSE seen[l].market
      BY <1>3 DEF Within
    <2>2. l = 0 <=> seen = <<>>
      BY EmptySeq, LenProperties
    <2>3. CASE seen = <<>>
      BY <1>1, <2>1, <2>2, <2>3 DEF Waits, NoRange
    <2>4. CASE seen # <<>>
      BY <1>1, <2>1, <2>2, <2>4 DEF Waits
    <2> QED BY <2>3, <2>4
  <1>6. [i \in DOMAIN Live(ms.ranges) |-> Live(ms.ranges)[i].market] = View.ranges
    BY <1>1, <1>3, RangesAgree
  <1>7. ms.calibrator = View.calibrator
    BY <1>1, <1>3, LabelsAgree
  <1>8. Len(View.outcomes) = Len(results)
    BY <1>3 DEF Between
  <1>9. \A b \in Skews :
          Holds(ms.skew[b], {i \in DOMAIN results : BucketIdx(results[i].event.mid) = b})
    <2> SUFFICES ASSUME NEW b \in Skews
                 PROVE  Holds(ms.skew[b], {i \in DOMAIN results : BucketIdx(results[i].event.mid) = b})
      OBVIOUS
    <2>1. Holds(ms.skew[b], OfBucket(SkewKeys(results), b))
      <3> DEFINE table == ms.skew
                 ks == SkewKeys(results)
      <3>1. Tallied(table, Skews, ks, CameTrue(results), Len(results))
        BY <1>1 DEF Tables
      <3> HIDE DEF table, ks
      <3>2. Holds(table[b], OfBucket(ks, b))
        BY <3>1, TableHolds
      <3> QED BY <3>2 DEF table, ks
    <2>2. DOMAIN results = 1 .. n
      BY LenProperties
    <2>3. OfBucket(SkewKeys(results), b)
            = {i \in DOMAIN results : BucketIdx(results[i].event.mid) = b}
      BY <2>2 DEF SkewKeys, OfBucket
    <2> QED BY <2>1, <2>3
  <1>10. \A h \in Hours :
           Holds(ms.tod[h], {i \in DOMAIN results : HourBucket(results[i].event.at) = h})
    <2> SUFFICES ASSUME NEW h \in Hours
                 PROVE  Holds(ms.tod[h], {i \in DOMAIN results : HourBucket(results[i].event.at) = h})
      OBVIOUS
    <2>1. Holds(ms.tod[h], OfBucket(TodKeys(results), h))
      <3> DEFINE table == ms.tod
                 ks == TodKeys(results)
      <3>1. Tallied(table, Hours, ks, CameTrue(results), Len(results))
        BY <1>1 DEF Tables
      <3> HIDE DEF table, ks
      <3>2. Holds(table[h], OfBucket(ks, h))
        BY <3>1, TableHolds
      <3> QED BY <3>2 DEF table, ks
    <2>2. DOMAIN results = 1 .. n
      BY LenProperties
    <2>3. OfBucket(TodKeys(results), h)
            = {i \in DOMAIN results : HourBucket(results[i].event.at) = h}
      BY <2>2 DEF TodKeys, OfBucket
    <2> QED BY <2>1, <2>3
  <1> QED BY <1>4, <1>5, <1>6, <1>7, <1>8, <1>9, <1>10 DEF CarriesWhatPortfolioSees
-----------------------------------------------------------------------------
(***************************************************************************)
(* The inductive invariant.  The model remembers the events since the last *)
(* recorded result, carries what was recorded, and the last evaluation was *)
(* made by a model that remembered all events but the last.                *)
(***************************************************************************)

\* What evaluation out can be of the events so far.
WasOutput(o, s) ==
  \E m : \E f \in Seq(Events) : \E e \in Events :
    Shaped(m) /\ Remembers(m, f) /\ s = Append(f, e) /\ o = Output(m, e, SpotReads(e.at))

Sound ==
  /\ market \in Nat \ {0}
  /\ Shaped(ms)
  /\ seen \in Seq(Events)
  /\ results \in Seq(Results)
  /\ Remembers(ms, seen)
  /\ Carries(ms, seen, results)
  /\ phase \in {"collect", "fit"} => seen = <<>> /\ results = <<>> /\ out = NoOutput
  /\ out # NoOutput => WasOutput(out, seen)

\* A new model has nothing to remember and carries its snapshot.
LEMMA NewIsSound ==
  ASSUME NEW snapshot \in Seq(Int), NEW t, t = <<>>
  PROVE  LET k == [NewScores EXCEPT !.calibrator = snapshot]
         IN  Shaped(k) /\ Remembers(k, t) /\ Carries(k, t, t)
  <1> DEFINE k == [NewScores EXCEPT !.calibrator = snapshot]
  <1>1. /\ Shaped(k) /\ Shaped(NewScores) /\ k.calibrator = snapshot
        /\ k.mids = NewScores.mids /\ k.dirs = NewScores.dirs
        /\ k.imbalance = NewScores.imbalance /\ k.low = NewScores.low
        /\ k.high = NewScores.high /\ k.markov = NewScores.markov
        /\ k.skew = NewScores.skew /\ k.tod = NewScores.tod
        /\ k.range = NewScores.range /\ k.ranges = NewScores.ranges
        /\ k.lastAt = NewScores.lastAt /\ k.pending = NewScores.pending
    BY NewIs
  <1> HIDE DEF k
  <1>2. k.calibrator \in Seq(Int)
    BY <1>1
  <1>3. Remembers(k, t)
    BY <1>1, NewRemembers
  <1>4. Carries(k, t, t)
    BY <1>1, <1>2, NewCarries
  <1> QED BY <1>1, <1>3, <1>4 DEF k

\* The model a process starts with, before any snapshot.
LEMMA FirstIsSound == Init => Sound
  <1> SUFFICES ASSUME Init PROVE Sound
    OBVIOUS
  <1>1. /\ market = 1 /\ ms = NewScores /\ out = NoOutput /\ seen = <<>> /\ results = <<>>
    BY DEF Init
  <1>2. <<>> \in Seq(Events) /\ <<>> \in Seq(Results) /\ <<>> \in Seq(Int)
    BY EmptySeq
  <1>3. Shaped(NewScores)
    BY NewIs
  <1>4. NewScores.calibrator \in Seq(Int)
    BY <1>2 DEF NewScores
  <1>5. Remembers(ms, seen)
    BY <1>1, NewRemembers
  <1>6. Carries(ms, seen, results)
    <2>1. Carries(NewScores, seen, seen)
      BY <1>1, <1>4, NewCarries
    <2> QED BY <1>1, <2>1
  <1> QED BY <1>1, <1>2, <1>3, <1>5, <1>6 DEF Sound

\* The event that is evaluated is one.
LEMMA EventExists ==
  ASSUME Sound, market <= TestMarkets, NEW offset \in Offsets, NEW book \in Books
  PROVE  /\ Event(offset, book) \in Events
         /\ SpotAt[Event(offset, book).at] = SpotReads(Event(offset, book).at)
  <1>1. market \in 1 .. TestMarkets
    BY ScoringAssumptions DEF Sound
  <1>2. Opening[market] \in Int /\ offset \in Int /\ book \in [mid : 0 .. 100, side : BOOLEAN]
    BY <1>1, ScoringAssumptions
  <1>3. Cardinality(Here) + 1 \in Nat
    <2>1. seen \in Seq(Events)
      BY DEF Sound
    <2>2. Here \subseteq 1 .. Len(seen) /\ Len(seen) \in Nat
      BY <2>1, LenProperties DEF Here
    <2>3. IsFiniteSet(1 .. Len(seen))
      BY <2>2, FS_Interval
    <2>4. Cardinality(Here) \in Nat
      BY <2>2, <2>3, FS_Subset, FS_CardinalityType
    <2> QED BY <2>4
  <1>4. Event(offset, book) \in Events
    BY <1>1, <1>2, <1>3 DEF Event, Events
  <1>5. Event(offset, book).at = Opening[market] + offset
    BY DEF Event
  <1>6. Opening[market] + offset \in {Opening[m] + o : m \in 1 .. TestMarkets, o \in Offsets}
    BY <1>1
  <1> QED BY <1>4, <1>5, <1>6 DEF SpotAt
\* An evaluation adds its event to what the model remembers.
LEMMA EvaluateIsSound == Sound /\ Evaluate => Sound'
  <1> SUFFICES ASSUME Sound, Evaluate PROVE Sound'
    OBVIOUS
  <1>1. PICK offset \in Offsets, book \in Books :
          /\ ms' = Evaluated(ms, Event(offset, book))
          /\ out' = Output(ms, Event(offset, book), SpotAt[Event(offset, book).at])
          /\ seen' = Append(seen, Event(offset, book))
    BY DEF Evaluate
  <1> DEFINE e == Event(offset, book)
  <1>2. phase = "score" /\ market <= TestMarkets /\ UNCHANGED <<phase, market, results>>
    BY DEF Evaluate, training
  <1>3. e \in Events /\ SpotAt[e.at] = SpotReads(e.at)
    BY <1>2, EventExists
  <1>4. /\ market \in Nat \ {0} /\ Shaped(ms) /\ seen \in Seq(Events) /\ results \in Seq(Results)
        /\ Remembers(ms, seen) /\ Carries(ms, seen, results)
    BY DEF Sound
  <1>5. ms' = Evaluated(ms, e) /\ out' = Output(ms, e, SpotReads(e.at)) /\ seen' = Append(seen, e)
    BY <1>1, <1>3
  <1> HIDE DEF e
  <1>6. seen' \in Seq(Events)
    BY <1>3, <1>4, <1>5, AppendProperties
  <1>7. Shaped(ms')
    <2>1. Shaped(Evaluated(ms, e))
      BY <1>4, EvaluatedIs
    <2> QED BY <1>5, <2>1
  <1>8. Remembers(ms', seen')
    <2>1. Remembers(Evaluated(ms, e), Append(seen, e))
      BY <1>3, <1>4, EvaluatedRemembers
    <2> QED BY <1>5, <2>1
  <1>9. Carries(ms', seen', results')
    <2>1. Carries(Evaluated(ms, e), Append(seen, e), results)
      BY <1>3, <1>4, EvaluatedCarries
    <2> QED BY <1>2, <1>5, <2>1
  <1>10. WasOutput(out', seen')
    BY <1>3, <1>4, <1>5 DEF WasOutput
  <1>11. phase' \notin {"collect", "fit"}
    BY <1>2
  <1> QED BY <1>2, <1>4, <1>6, <1>7, <1>8, <1>9, <1>10, <1>11 DEF Sound

\* A recorded result starts a new memory, and is carried.
LEMMA RecordIsSound == Sound /\ RecordResult => Sound'
  <1> SUFFICES ASSUME Sound, RecordResult PROVE Sound'
    OBVIOUS
  <1> DEFINE e == Last(seen)
  <1>1. PICK resolved \in BOOLEAN :
          /\ ms' = MarketResult(ms, e.mid, e.side, resolved)
          /\ results' = Append(results, [event |-> e, resolved |-> resolved])
    BY DEF RecordResult
  <1>2. /\ phase = "score" /\ phase' = phase /\ Here # {} /\ out' = NoOutput /\ seen' = <<>>
        /\ market' = market + 1
    BY DEF RecordResult
  <1>3. /\ market \in Nat \ {0} /\ Shaped(ms) /\ seen \in Seq(Events) /\ results \in Seq(Results)
        /\ Remembers(ms, seen) /\ Carries(ms, seen, results)
    BY DEF Sound
  <1>4. e = seen[Len(seen)]
    BY DEF Last
  <1>5. seen # <<>> /\ e \in Events
    <2>1. PICK i : i \in DOMAIN seen
      BY <1>2 DEF Here
    <2>2. DOMAIN seen = 1 .. Len(seen) /\ Len(seen) \in Nat
      BY <1>3, LenProperties
    <2>3. Len(seen) \in 1 .. Len(seen)
      BY <2>1, <2>2
    <2>4. seen[Len(seen)] \in Events
      BY <1>3, <2>3, ElementOfSeq
    <2>5. Len(seen) # 0
      BY <2>3, <2>2
    <2> QED BY <1>3, <1>4, <2>4, <2>5, EmptySeq
  <1> DEFINE x == [event |-> e, resolved |-> resolved]
  <1> HIDE DEF e
  <1>6. x \in Results
    BY <1>5 DEF Results
  <1>7. IsResult(MarketResult(ms, e.mid, e.side, resolved), ms, e.mid, e.side, resolved)
    BY <1>3, ResultIs
  <1>8. Shaped(ms')
    BY <1>1, <1>7 DEF IsResult
  <1>9. seen' \in Seq(Events)
    BY <1>2, EmptySeq
  <1>10. results' \in Seq(Results)
    <2> HIDE DEF x
    <2> QED BY <1>1, <1>3, <1>6, AppendProperties DEF x
  <1>11. Remembers(ms', seen')
    <2>1. \A t : t = <<>> => Remembers(MarketResult(ms, e.mid, e.side, resolved), t)
      BY <1>3, ResultForgets
    <2> QED BY <1>1, <1>2, <2>1
  <1>12. Carries(ms', seen', results')
    <2>1. \A t : t = <<>> => Carries(MarketResult(ms, e.mid, e.side, resolved), t, Append(results, x))
      BY <1>3, <1>4, <1>5, ResultCarries
    <2> QED BY <1>1, <1>2, <2>1
  <1>13. phase' \notin {"collect", "fit"} /\ market' \in Nat \ {0}
    BY <1>2, <1>3
  <1> QED BY <1>2, <1>8, <1>9, <1>10, <1>11, <1>12, <1>13 DEF Sound

\* The model of the test markets has its snapshot and nothing else.
LEMMA DeployIsSound ==
  ASSUME NEW snapshot \in Seq(Int)
  PROVE  Sound /\ phase \in {"collect", "fit"} /\ Deploy(snapshot) => Sound'
  <1> SUFFICES ASSUME Sound, phase \in {"collect", "fit"}, Deploy(snapshot) PROVE Sound'
    OBVIOUS
  <1>1. seen = <<>> /\ results = <<>> /\ out = NoOutput /\ seen \in Seq(Events) /\ results \in Seq(Results)
    BY DEF Sound
  <1>2. /\ phase' = "score" /\ market' = 1 /\ ms' = [NewScores EXCEPT !.calibrator = snapshot]
        /\ out' = out /\ seen' = seen /\ results' = results
    BY DEF Deploy
  <1>3. \A t : t = <<>> => /\ Shaped([NewScores EXCEPT !.calibrator = snapshot])
                           /\ Remembers([NewScores EXCEPT !.calibrator = snapshot], t)
                           /\ Carries([NewScores EXCEPT !.calibrator = snapshot], t, t)
    BY NewIsSound
  <1>4. Shaped(ms') /\ Remembers(ms', seen') /\ Carries(ms', seen', results')
    <2>1. Shaped(ms') /\ Remembers(ms', seen) /\ Carries(ms', seen, seen) /\ seen = results
      BY <1>1, <1>2, <1>3
    <2> QED BY <1>2, <2>1
  <1> QED BY <1>1, <1>2, <1>4 DEF Sound
\* What is not scoring leaves the model and its history alone.
LEMMA StaysSound ==
  ASSUME Sound, UNCHANGED scoring, market' \in Nat \ {0},
         phase' \in {"collect", "fit"} => phase \in {"collect", "fit"}
  PROVE  Sound'
  <1>1. ms' = ms /\ out' = out /\ seen' = seen /\ results' = results
    BY DEF scoring
  <1>2. /\ Shaped(ms) /\ seen \in Seq(Events) /\ results \in Seq(Results)
        /\ Remembers(ms, seen) /\ Carries(ms, seen, results)
        /\ phase \in {"collect", "fit"} => seen = <<>> /\ results = <<>> /\ out = NoOutput
        /\ out # NoOutput => WasOutput(out, seen)
    BY DEF Sound
  <1>3. /\ Shaped(ms') /\ seen' \in Seq(Events) /\ results' \in Seq(Results)
        /\ Remembers(ms', seen') /\ Carries(ms', seen', results')
        /\ phase' \in {"collect", "fit"} => seen' = <<>> /\ results' = <<>> /\ out' = NoOutput
        /\ out' # NoOutput => WasOutput(out', seen')
    BY <1>1, <1>2
  <1> QED BY <1>3 DEF Sound

\* Every step keeps the model sound.
LEMMA StepIsSound == Sound /\ [Next]_vars => Sound'
  <1> SUFFICES ASSUME Sound, [Next]_vars PROVE Sound'
    OBVIOUS
  <1>1. market \in Nat \ {0} /\ market + 1 \in Nat \ {0}
    BY DEF Sound
  <1>2. <<>> \in Seq(Int) /\ Snapshot \in Seq(Int)
    BY DEF Snapshot
  <1>3. CASE Collect
    BY <1>1, <1>3, StaysSound DEF Collect
  <1>4. CASE CollectFails
    BY <1>1, <1>4, StaysSound DEF CollectFails
  <1>5. CASE TooFewSamples
    BY <1>2, <1>5, DeployIsSound DEF TooFewSamples
  <1>6. CASE StartFit
    BY <1>1, <1>6, StaysSound DEF StartFit
  <1>7. CASE TryCandidate
    BY <1>1, <1>7, StaysSound DEF TryCandidate
  <1>8. CASE Select
    <2>1. (IF best = NoBest THEN <<>> ELSE Snapshot) \in Seq(Int)
      BY <1>2
    <2> QED BY <1>8, <2>1, DeployIsSound DEF Select
  <1>9. CASE Evaluate
    BY <1>9, EvaluateIsSound
  <1>10. CASE RecordResult
    BY <1>10, RecordIsSound
  <1>11. CASE LeaveResult
    BY <1>1, <1>11, StaysSound DEF LeaveResult
  <1>12. CASE Finish
    BY <1>1, <1>12, StaysSound DEF Finish
  <1>13. CASE UNCHANGED vars
    BY <1>1, <1>13, StaysSound DEF vars, scoring
  <1>14. CASE Done
    BY <1>13, <1>14 DEF Done
  <1> QED BY <1>3, <1>4, <1>5, <1>6, <1>7, <1>8, <1>9, <1>10, <1>11, <1>12, <1>13, <1>14 DEF Next

(***************************************************************************)
(* In every reachable state the model remembers the events since the last  *)
(* recorded result and carries every recorded one.                         *)
(***************************************************************************)
THEOREM ModelIsSound == Spec => []Sound
  <1> QED BY FirstIsSound, StepIsSound, PTL DEF Spec

(***************************************************************************)
(* A score reads the last events of its window and none of the future,     *)
(* whatever the capacities of the rings, the events and the ticks.         *)
(* ModelState::evaluate, Ring, TimedRing, SpotHistory.                     *)
(***************************************************************************)
THEOREM ScoresAreOfThePast == Spec => []ScoresReadTheirPast
  <1>1. Sound => ScoresReadTheirPast
    <2> SUFFICES ASSUME Sound PROVE ScoresReadTheirPast
      OBVIOUS
    <2>1. CASE out = NoOutput
      BY <2>1 DEF ScoresReadTheirPast
    <2>2. CASE out # NoOutput
      <3>1. WasOutput(out, seen)
        BY <2>2 DEF Sound
      <3> QED BY <3>1, OutputReadsPast DEF WasOutput
    <2> QED BY <2>1, <2>2
  <1> QED BY <1>1, ModelIsSound, PTL

(***************************************************************************)
(* What the detailed model carries from one market to the next is what the *)
(* portfolio replay is modelled to carry, for any number of markets.       *)
(* record_market_result, reset_market_rolling_state.                       *)
(***************************************************************************)
THEOREM ModelCarries == Spec => []CarriesWhatPortfolioSees
  <1>1. Sound => CarriesWhatPortfolioSees
    BY CarriedIsSeen DEF Sound
  <1> QED BY <1>1, ModelIsSound, PTL
=============================================================================
