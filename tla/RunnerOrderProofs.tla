------------------------- MODULE RunnerOrderProofs --------------------------
(***************************************************************************)
(* Proofs about the orders of a run, for every value of the constants:     *)
(* where each order is while it is open, what it was filled for and at     *)
(* which price, when, what the report counts and what is laid out, and that *)
(* no scan of a list misses an order that swap_remove moved.               *)
(***************************************************************************)
EXTENDS RunnerProofs, ListLemmas

-----------------------------------------------------------------------------
(* Lists without their element at k.                                       *)

\* No two entries of a list are of the same order.
Distinct(s) == \A i, j \in DOMAIN s : s[i].id = s[j].id => i = j

\* t is s without s[k].
Drops(t, s, k) ==
  /\ Len(t) = Len(s) - 1
  /\ Distinct(t)
  /\ ToSet(t) = ToSet(s) \ {s[k]}

\* Whatever moves, as long as every element but the one at k comes from one place.
LEMMA DropsIf ==
  ASSUME NEW S, NEW s \in Seq(S), NEW k \in 1 .. Len(s), Distinct(s),
         NEW t \in Seq(S), Len(t) = Len(s) - 1,
         NEW from \in [1 .. Len(s) - 1 -> (1 .. Len(s)) \ {k}],
         \A i, j \in 1 .. Len(s) - 1 : from[i] = from[j] => i = j,
         \A i \in (1 .. Len(s)) \ {k} : \E j \in 1 .. Len(s) - 1 : from[j] = i,
         \A j \in 1 .. Len(s) - 1 : t[j] = s[from[j]]
  PROVE  Drops(t, s, k)
  <1>1. DOMAIN s = 1 .. Len(s) /\ DOMAIN t = 1 .. Len(s) - 1
    OBVIOUS
  <1>2. Distinct(t)
    <2> SUFFICES ASSUME NEW i \in DOMAIN t, NEW j \in DOMAIN t, t[i].id = t[j].id PROVE i = j
        BY DEF Distinct
    <2>1. /\ from[i] \in DOMAIN s /\ from[j] \in DOMAIN s
          /\ s[from[i]].id = s[from[j]].id
      BY <1>1
    <2>2. from[i] = from[j]
      BY <2>1 DEF Distinct
    <2> QED BY <1>1, <2>2
  <1>3. ASSUME NEW j \in 1 .. Len(s) - 1 PROVE t[j] \in ToSet(s) \ {s[k]}
    <2>1. from[j] \in 1 .. Len(s) /\ from[j] # k /\ t[j] = s[from[j]]
      OBVIOUS
    <2>2. s[from[j]] # s[k]
      BY <1>1, <2>1 DEF Distinct
    <2> QED BY <1>1, <2>1, <2>2 DEF ToSet
  <1>4. ASSUME NEW i \in 1 .. Len(s), s[i] # s[k] PROVE s[i] \in ToSet(t)
    <2>1. PICK j \in 1 .. Len(s) - 1 : from[j] = i
      BY <1>4
    <2> QED BY <1>1, <2>1 DEF ToSet
  <1>5. ToSet(t) = ToSet(s) \ {s[k]}
    <2>1. \A x \in ToSet(t) : x \in ToSet(s) \ {s[k]}
      BY <1>1, <1>3 DEF ToSet
    <2>2. \A x \in ToSet(s) \ {s[k]} : x \in ToSet(t)
      BY <1>1, <1>4 DEF ToSet
    <2> QED BY <2>1, <2>2
  <1> QED BY <1>2, <1>5 DEF Drops

\* Both ways the code takes an order out of a list.
LEMMA DropsOrder ==
  ASSUME NEW S, NEW s \in Seq(S), NEW k \in 1 .. Len(s), Distinct(s)
  PROVE  Drops(SwapRemove(s, k), s, k) /\ Drops(Removed(s, k), s, k)
  <1> DEFINE n == Len(s)
             last == [j \in 1 .. n - 1 |-> IF j = k THEN n ELSE j]
             next == [j \in 1 .. n - 1 |-> IF j < k THEN j ELSE j + 1]
  <1>1. n \in Nat /\ k \in 1 .. n
    OBVIOUS
  <1>2. /\ SwapRemove(s, k) \in Seq(S) /\ Len(SwapRemove(s, k)) = n - 1
        /\ Removed(s, k) \in Seq(S) /\ Len(Removed(s, k)) = n - 1
    <2>1. SwapRemove(s, k) \in Seq(S) /\ Removed(s, k) \in Seq(S) /\ Len(SwapRemove(s, k)) = n - 1
      BY DropType
    <2>2. Len(Removed(s, k)) = n - 1
      BY <2>1 DEF Removed
    <2> QED BY <2>1, <2>2
  <1>3. /\ \A j \in 1 .. n - 1 : SwapRemove(s, k)[j] = s[last[j]]
        /\ \A j \in 1 .. n - 1 : Removed(s, k)[j] = s[next[j]]
    BY <1>1 DEF SwapRemove, Removed
  <1>4. /\ last \in [1 .. n - 1 -> (1 .. n) \ {k}]
        /\ \A i, j \in 1 .. n - 1 : last[i] = last[j] => i = j
    BY <1>1
  <1>5. \A i \in (1 .. n) \ {k} : \E j \in 1 .. n - 1 : last[j] = i
    <2> SUFFICES ASSUME NEW i \in (1 .. n) \ {k} PROVE \E j \in 1 .. n - 1 : last[j] = i
        OBVIOUS
    <2>1. CASE i = n
      <3>1. k \in 1 .. n - 1 /\ last[k] = i
        BY <1>1, <2>1
      <3> QED BY <3>1
    <2>2. CASE i # n
      <3>1. i \in 1 .. n - 1 /\ last[i] = i
        BY <1>1, <2>2
      <3> QED BY <3>1
    <2> QED BY <2>1, <2>2
  <1>6. /\ next \in [1 .. n - 1 -> (1 .. n) \ {k}]
        /\ \A i, j \in 1 .. n - 1 : next[i] = next[j] => i = j
    BY <1>1
  <1>7. \A i \in (1 .. n) \ {k} : \E j \in 1 .. n - 1 : next[j] = i
    <2> SUFFICES ASSUME NEW i \in (1 .. n) \ {k} PROVE \E j \in 1 .. n - 1 : next[j] = i
        OBVIOUS
    <2>1. CASE i < k
      <3>1. i \in 1 .. n - 1 /\ next[i] = i
        BY <1>1, <2>1
      <3> QED BY <3>1
    <2>2. CASE i > k
      <3>1. i - 1 \in 1 .. n - 1 /\ next[i - 1] = i
        BY <1>1, <2>2
      <3> QED BY <3>1
    <2> QED BY <1>1, <2>1, <2>2
  <1> HIDE DEF last, next
  <1>8. Drops(SwapRemove(s, k), s, k)
    BY <1>1, <1>2, <1>3, <1>4, <1>5, DropsIf
  <1>9. Drops(Removed(s, k), s, k)
    BY <1>1, <1>2, <1>3, <1>6, <1>7, DropsIf
  <1> QED BY <1>8, <1>9
\* An order that joins a list at its end.
LEMMA AppendsOrder ==
  ASSUME NEW S, NEW s \in Seq(S), Distinct(s), NEW x \in S, \A y \in ToSet(s) : y.id # x.id
  PROVE  /\ Append(s, x) \in Seq(S) /\ Len(Append(s, x)) = Len(s) + 1
         /\ Distinct(Append(s, x)) /\ ToSet(Append(s, x)) = ToSet(s) \union {x}
  <1> DEFINE t == Append(s, x)
             n == Len(s)
  <1>1. /\ t \in Seq(S) /\ Len(t) = n + 1 /\ n \in Nat /\ t[n + 1] = x
        /\ \A i \in 1 .. n : t[i] = s[i]
        /\ DOMAIN s = 1 .. n /\ DOMAIN t = 1 .. n + 1
    OBVIOUS
  <1> HIDE DEF t, n
  <1>2. \A i \in 1 .. n : s[i] \in ToSet(s) /\ s[i].id # x.id
    BY <1>1 DEF ToSet
  <1>3. \A i \in 1 .. n + 1 : i \in 1 .. n \/ i = n + 1
    BY <1>1
  <1>4. Distinct(t)
    <2> SUFFICES ASSUME NEW i \in DOMAIN t, NEW j \in DOMAIN t, t[i].id = t[j].id PROVE i = j
        BY DEF Distinct
    <2>1. CASE i \in 1 .. n /\ j \in 1 .. n
      BY <1>1, <2>1 DEF Distinct
    <2>2. CASE i = n + 1 \/ j = n + 1
      BY <1>1, <1>2, <1>3, <2>2
    <2> QED BY <1>1, <1>3, <2>1, <2>2
  <1>5. ToSet(t) = ToSet(s) \union {x}
    <2>1. ASSUME NEW i \in DOMAIN t PROVE t[i] \in ToSet(s) \union {x}
      BY <1>1, <1>2, <1>3
    <2>2. ASSUME NEW i \in DOMAIN s PROVE s[i] \in ToSet(t)
      <3>1. i \in DOMAIN t /\ t[i] = s[i]
        BY <1>1
      <3> QED BY <3>1 DEF ToSet
    <2>3. x \in ToSet(t)
      <3>1. n + 1 \in DOMAIN t
        BY <1>1
      <3> QED BY <1>1, <3>1 DEF ToSet
    <2>4. \A y \in ToSet(t) : y \in ToSet(s) \union {x}
      BY <2>1 DEF ToSet
    <2>5. \A y \in ToSet(s) : y \in ToSet(t)
      BY <2>2 DEF ToSet
    <2> QED BY <2>3, <2>4, <2>5
  <1> QED BY <1>1, <1>4, <1>5 DEF t, n

\* An order that stays where it is and changes.
LEMMA ReplacesOrder ==
  ASSUME NEW S, NEW s \in Seq(S), Distinct(s), NEW k \in 1 .. Len(s), NEW x \in S, x.id = s[k].id
  PROVE  LET t == [s EXCEPT ![k] = x]
         IN  /\ t \in Seq(S) /\ Len(t) = Len(s) /\ Distinct(t)
             /\ ToSet(t) = (ToSet(s) \ {s[k]}) \union {x}
  <1> DEFINE t == [s EXCEPT ![k] = x]
  <1>1. /\ t \in Seq(S) /\ Len(t) = Len(s) /\ DOMAIN t = DOMAIN s /\ t[k] = x /\ k \in DOMAIN s
        /\ \A i \in DOMAIN s : i # k => t[i] = s[i]
    OBVIOUS
  <1> HIDE DEF t
  <1>2. \A i \in DOMAIN s : t[i].id = s[i].id
    BY <1>1
  <1>3. Distinct(t)
    BY <1>1, <1>2 DEF Distinct
  <1>4. \A i \in DOMAIN s : i # k => s[i] # s[k]
    BY <1>1 DEF Distinct
  <1>5. ToSet(t) = (ToSet(s) \ {s[k]}) \union {x}
    <2>1. \A y \in ToSet(t) : y \in (ToSet(s) \ {s[k]}) \union {x}
      <3> SUFFICES ASSUME NEW i \in DOMAIN t PROVE t[i] \in (ToSet(s) \ {s[k]}) \union {x}
          BY DEF ToSet
      <3> QED BY <1>1, <1>4 DEF ToSet
    <2>2. \A y \in ToSet(s) : y # s[k] => y \in ToSet(t)
      <3> SUFFICES ASSUME NEW i \in DOMAIN s, s[i] # s[k] PROVE s[i] \in ToSet(t)
          BY DEF ToSet
      <3>1. t[i] = s[i] /\ i \in DOMAIN t
        BY <1>1
      <3> QED BY <3>1 DEF ToSet
    <2>3. x \in ToSet(t)
      BY <1>1 DEF ToSet
    <2> QED BY <2>1, <2>2, <2>3
  <1> QED BY <1>1, <1>3, <1>5 DEF t
-----------------------------------------------------------------------------
(* Where the orders are.                                                   *)

\* What a resting order o of list b shows of its entry e in the blotter.
RestsAs(o, e, b) ==
  /\ e.fate = "open" /\ b = ListOf(e.req.side) /\ o.side = e.req.side
  /\ e.req.limit # NoLimit /\ o.limit_yes = LimitToYesTerms(e.req.side, e.req.limit)
  /\ o.shares = e.req.shares - e.filled

\* What a pending taker order shows of its entry.
WaitsAs(p, e) ==
  e.fate = "open" /\ e.req = p.req /\ e.filled = 0 /\ p.execute_after = e.ts + TakerLatency

\* An order is filled for no more than it asked for, within its limit.
EntryOK(e) == e.filled <= e.req.shares /\ RespectsLimit(e.req.side, e.paid, e.filled, e.req.limit)

AtHome(id) ==
  \/ \E b \in Lists : \E o \in ToSet(resting[b]) : o.id = id
  \/ \E p \in ToSet(pending_takers) : p.id = id

HomesInv ==
  /\ \A b \in Lists :
       /\ Distinct(resting[b])
       /\ \A o \in ToSet(resting[b]) : o.id \in DOMAIN blotter /\ RestsAs(o, blotter[o.id], b)
  /\ Distinct(pending_takers)
  /\ \A p \in ToSet(pending_takers) : p.id \in DOMAIN blotter /\ WaitsAs(p, blotter[p.id])
  /\ \A b \in Lists : \A o \in ToSet(resting[b]), p \in ToSet(pending_takers) : o.id # p.id
  /\ \A id \in DOMAIN blotter :
       EntryOK(blotter[id]) /\ (blotter[id].fate = "open" => AtHome(id))
  /\ Len(resting["bid"]) + Len(resting["ask"]) + Len(pending_takers) <= Len(blotter)
  /\ Len(blotter) <= MaxOrders

\* No order is of a later event, nor of this one before the strategy is asked.
TimesInv ==
  \A id \in DOMAIN blotter :
    /\ blotter[id].event <= events_processed
    /\ phase \in {"trades", "cross"} => blotter[id].event < events_processed

\* A scan has found nothing where it has been.
ScanInv ==
  /\ phase \in {"trades", "cross"} =>
       \A j \in 1 .. scan - 1 : j <= Len(resting[book]) => ~Hit(j)
  /\ phase = "takers" =>
       \A j \in 1 .. scan - 1 : j <= Len(pending_takers) => ~Due(pending_takers[j])

CountsInv == CountersReconcile /\ (phase # "resolved" => counters["cancelled_eom"] = 0)
\* The types of the queues and the blotter.
LEMMA ListTypes ==
  ASSUME TypeOK
  PROVE  /\ \A b \in Lists : resting[b] \in Seq(RestingOrders) /\ Len(resting[b]) \in Nat
         /\ resting \in [Lists -> Seq(RestingOrders)] /\ book \in Lists
         /\ pending_takers \in Seq(PendingOrders) /\ Len(pending_takers) \in Nat
         /\ blotter \in Seq(BlotterEntry) /\ DOMAIN blotter = 1 .. Len(blotter) /\ Len(blotter) \in Nat
         /\ \A id \in DOMAIN blotter : blotter[id] \in BlotterEntry
  <1>1. /\ resting \in [Lists -> Seq(RestingOrders)] /\ pending_takers \in Seq(PendingOrders)
        /\ blotter \in Seq(BlotterEntry) /\ book \in Lists
    BY DEF TypeOK
  <1>2. \A b \in Lists : resting[b] \in Seq(RestingOrders)
    BY <1>1
  <1> QED BY <1>1, <1>2

\* What is at a place of a sequence is one of its elements.
LEMMA MemberOf ==
  ASSUME NEW S, NEW s \in Seq(S), NEW k \in 1 .. Len(s)
  PROVE  s[k] \in ToSet(s) /\ s[k] \in S /\ k \in DOMAIN s
  BY DEF ToSet

\* An order rests once.
LEMMA OneEntry ==
  ASSUME HomesInv, NEW b \in Lists, NEW c \in Lists,
         NEW x \in ToSet(resting[b]), NEW y \in ToSet(resting[c]), x.id = y.id
  PROVE  b = c /\ x = y
  <1>1. b = c
    BY DEF HomesInv, RestsAs
  <1> QED BY <1>1 DEF HomesInv, Distinct, ToSet

\* An order waits at one place of the taker queue only.
LEMMA OneWaiting ==
  ASSUME HomesInv, NEW x \in ToSet(pending_takers), NEW y \in ToSet(pending_takers), x.id = y.id
  PROVE  x = y
  BY DEF HomesInv, Distinct, ToSet

\* A sum shrinks with its terms.
LEMMA SumShrinks ==
  ASSUME NEW a \in Int, NEW b \in Int, NEW c \in Int, NEW n \in Int, a + b + c <= n,
         NEW x \in Int, NEW y \in Int, NEW z \in Int, x <= a, y <= b, z <= c
  PROVE  x + y + z <= n
  OBVIOUS

\* A sum grows with one of its terms.
LEMMA SumGrows ==
  ASSUME NEW a \in Int, NEW b \in Int, NEW c \in Int, NEW n \in Int, a + b + c <= n
  PROVE  (a + 1) + b + c <= n + 1 /\ a + (b + 1) + c <= n + 1 /\ a + b + (c + 1) <= n + 1
  OBVIOUS

\* A step that touches no order keeps their homes.
LEMMA QuietHomes ==
  ASSUME HomesInv, UNCHANGED <<resting, pending_takers, blotter>> PROVE HomesInv'
  BY DEF HomesInv, AtHome

\* Entering what became of order id.
LEMMA EnteredAt ==
  ASSUME TypeOK, NEW id \in DOMAIN blotter, NEW e, blotter' = [blotter EXCEPT ![id] = e]
  PROVE  /\ DOMAIN blotter' = DOMAIN blotter /\ blotter'[id] = e /\ Len(blotter') = Len(blotter)
         /\ \A other \in DOMAIN blotter : other # id => blotter'[other] = blotter[other]
  <1>1. blotter \in Seq(BlotterEntry)
    BY ListTypes
  <1> QED BY <1>1

\* An order leaves its list, closed.
LEMMA LeavesList ==
  ASSUME TypeOK, HomesInv, NEW b \in Lists, NEW k \in 1 .. Len(resting[b]), NEW t, NEW e,
         Drops(t, resting[b], k), resting' = [resting EXCEPT ![b] = t],
         pending_takers' = pending_takers,
         blotter' = [blotter EXCEPT ![resting[b][k].id] = e], e.fate # "open", EntryOK(e)
  PROVE  HomesInv'
  <1> DEFINE o == resting[b][k]
  <1>1. o \in ToSet(resting[b]) /\ o.id \in DOMAIN blotter
    <2>1. o \in ToSet(resting[b])
      BY ListTypes, MemberOf
    <2> QED BY <2>1 DEF HomesInv
  <1>2. /\ DOMAIN blotter' = DOMAIN blotter /\ blotter'[o.id] = e /\ Len(blotter') = Len(blotter)
        /\ \A id \in DOMAIN blotter : id # o.id => blotter'[id] = blotter[id]
    BY <1>1, EnteredAt
  <1>3. /\ resting'[b] = t /\ ToSet(t) = ToSet(resting[b]) \ {o}
        /\ Distinct(t) /\ Len(t) = Len(resting[b]) - 1
        /\ \A c \in Lists : c # b => resting'[c] = resting[c]
    BY ListTypes DEF Drops
  <1> HIDE DEF o
  <1>4. ASSUME NEW c \in Lists, NEW x \in ToSet(resting'[c])
        PROVE  x \in ToSet(resting[c]) /\ x.id # o.id
    <2>1. x \in ToSet(resting[c]) /\ x # o
      <3>1. CASE c = b
        BY <1>3, <1>4, <3>1
      <3>2. CASE c # b
        <4>1. x \in ToSet(resting[c])
          BY <1>3, <1>4, <3>2
        <4> QED BY <1>1, <3>2, <4>1, OneEntry
      <3> QED BY <3>1, <3>2
    <2> QED BY <1>1, <2>1, OneEntry
  <1>5. ASSUME NEW c \in Lists, NEW x \in ToSet(resting[c]), x.id # o.id
        PROVE  x \in ToSet(resting'[c])
    BY <1>3, <1>5
  <1>6. \A p \in ToSet(pending_takers) : p.id # o.id
    BY <1>1 DEF HomesInv
  <1>7. \A c \in Lists : Distinct(resting'[c])
    BY <1>3 DEF HomesInv
  <1>8. \A c \in Lists : \A x \in ToSet(resting'[c]) :
          x.id \in DOMAIN blotter' /\ RestsAs(x, blotter'[x.id], c)
    BY <1>2, <1>4 DEF HomesInv
  <1>9. \A p \in ToSet(pending_takers') : p.id \in DOMAIN blotter' /\ WaitsAs(p, blotter'[p.id])
    BY <1>2, <1>6 DEF HomesInv
  <1>10. \A c \in Lists : \A x \in ToSet(resting'[c]), p \in ToSet(pending_takers') : x.id # p.id
    BY <1>4 DEF HomesInv
  <1>11. ASSUME NEW id \in DOMAIN blotter'
         PROVE  EntryOK(blotter'[id]) /\ (blotter'[id].fate = "open" => AtHome(id)')
    <2>1. CASE id = o.id
      BY <1>2, <2>1
    <2>2. CASE id # o.id
      <3>1. blotter'[id] = blotter[id] /\ id \in DOMAIN blotter
        BY <1>2, <2>2
      <3>2. AtHome(id) => AtHome(id)'
        BY <1>5, <2>2 DEF AtHome
      <3> QED BY <3>1, <3>2 DEF HomesInv
    <2> QED BY <2>1, <2>2
  <1>12. Len(resting'["bid"]) + Len(resting'["ask"]) + Len(pending_takers') <= Len(blotter')
    <2>1. /\ Len(resting'["bid"]) <= Len(resting["bid"]) /\ Len(resting'["bid"]) \in Int
          /\ Len(resting'["ask"]) <= Len(resting["ask"]) /\ Len(resting'["ask"]) \in Int
      BY <1>3, ListTypes DEF Lists
    <2>2. /\ Len(resting["bid"]) \in Nat /\ Len(resting["ask"]) \in Nat
          /\ Len(pending_takers) \in Nat /\ Len(blotter) \in Nat
      BY ListTypes DEF Lists
    <2>3. Len(resting["bid"]) + Len(resting["ask"]) + Len(pending_takers) <= Len(blotter)
      BY DEF HomesInv
    <2>4. Len(blotter') = Len(blotter) /\ pending_takers' = pending_takers
      BY <1>2
    <2>5. /\ Len(resting["bid"]) \in Int /\ Len(resting["ask"]) \in Int
          /\ Len(pending_takers) \in Int /\ Len(blotter) \in Int
          /\ Len(pending_takers) <= Len(pending_takers)
      BY <2>2
    <2> QED BY <2>1, <2>3, <2>4, <2>5, SumShrinks
  <1>13. Len(blotter') <= MaxOrders
    BY <1>2 DEF HomesInv
  <1> QED BY <1>7, <1>8, <1>9, <1>10, <1>11, <1>12, <1>13 DEF HomesInv
\* A pending order leaves the queue, closed.
LEMMA LeavesQueue ==
  ASSUME TypeOK, HomesInv, NEW k \in 1 .. Len(pending_takers), NEW t, NEW e,
         Drops(t, pending_takers, k), pending_takers' = t, resting' = resting,
         blotter' = [blotter EXCEPT ![pending_takers[k].id] = e], e.fate # "open", EntryOK(e)
  PROVE  HomesInv'
  <1> DEFINE o == pending_takers[k]
  <1>1. o \in ToSet(pending_takers) /\ o.id \in DOMAIN blotter
    <2>1. o \in ToSet(pending_takers)
      BY ListTypes, MemberOf
    <2> QED BY <2>1 DEF HomesInv
  <1>2. /\ DOMAIN blotter' = DOMAIN blotter /\ blotter'[o.id] = e /\ Len(blotter') = Len(blotter)
        /\ \A id \in DOMAIN blotter : id # o.id => blotter'[id] = blotter[id]
    BY <1>1, EnteredAt
  <1>3. /\ ToSet(pending_takers') = ToSet(pending_takers) \ {o}
        /\ Distinct(pending_takers') /\ Len(pending_takers') = Len(pending_takers) - 1
    BY DEF Drops
  <1> HIDE DEF o
  <1>4. \A x \in ToSet(pending_takers') : x \in ToSet(pending_takers) /\ x.id # o.id
    BY <1>1, <1>3, OneWaiting
  <1>5. \A c \in Lists : \A x \in ToSet(resting[c]) : x.id # o.id
    BY <1>1 DEF HomesInv
  <1>6. \A x \in ToSet(pending_takers) : x.id # o.id => x \in ToSet(pending_takers')
    BY <1>3
  <1>7. \A c \in Lists : Distinct(resting'[c])
    BY DEF HomesInv
  <1>8. \A c \in Lists : \A x \in ToSet(resting'[c]) :
          x.id \in DOMAIN blotter' /\ RestsAs(x, blotter'[x.id], c)
    BY <1>2, <1>5 DEF HomesInv
  <1>9. \A p \in ToSet(pending_takers') : p.id \in DOMAIN blotter' /\ WaitsAs(p, blotter'[p.id])
    BY <1>2, <1>4 DEF HomesInv
  <1>10. \A c \in Lists : \A x \in ToSet(resting'[c]), p \in ToSet(pending_takers') : x.id # p.id
    BY <1>4 DEF HomesInv
  <1>11. ASSUME NEW id \in DOMAIN blotter'
         PROVE  EntryOK(blotter'[id]) /\ (blotter'[id].fate = "open" => AtHome(id)')
    <2>1. CASE id = o.id
      BY <1>2, <2>1
    <2>2. CASE id # o.id
      <3>1. blotter'[id] = blotter[id] /\ id \in DOMAIN blotter
        BY <1>2, <2>2
      <3>2. AtHome(id) => AtHome(id)'
        BY <1>6, <2>2 DEF AtHome
      <3> QED BY <3>1, <3>2 DEF HomesInv
    <2> QED BY <2>1, <2>2
  <1>12. Len(resting'["bid"]) + Len(resting'["ask"]) + Len(pending_takers') <= Len(blotter')
    <2>1. /\ Len(resting["bid"]) \in Nat /\ Len(resting["ask"]) \in Nat
          /\ Len(pending_takers) \in Nat /\ Len(blotter) \in Nat
      BY ListTypes DEF Lists
    <2>2. Len(resting["bid"]) + Len(resting["ask"]) + Len(pending_takers) <= Len(blotter)
      BY DEF HomesInv
    <2>3. Len(blotter') = Len(blotter) /\ Len(pending_takers') = Len(pending_takers) - 1
      BY <1>2, <1>3
    <2>4. Len(pending_takers') \in Int /\ Len(pending_takers') <= Len(pending_takers)
      BY <2>1, <2>3
    <2>5. /\ Len(resting["bid"]) \in Int /\ Len(resting["ask"]) \in Int
          /\ Len(pending_takers) \in Int /\ Len(blotter) \in Int
          /\ Len(resting["bid"]) <= Len(resting["bid"]) /\ Len(resting["ask"]) <= Len(resting["ask"])
      BY <2>1
    <2>6. resting'["bid"] = resting["bid"] /\ resting'["ask"] = resting["ask"] /\ pending_takers' = t
      OBVIOUS
    <2>7. Len(resting["bid"]) + Len(resting["ask"]) + Len(t) <= Len(blotter)
      BY <2>2, <2>4, <2>5, <2>6, SumShrinks
    <2> QED BY <2>3, <2>6, <2>7
  <1>13. Len(blotter') <= MaxOrders
    BY <1>2 DEF HomesInv
  <1> QED BY <1>7, <1>8, <1>9, <1>10, <1>11, <1>12, <1>13, <1>3 DEF HomesInv

\* An order is filled in part and stays where it is.
LEMMA StaysInList ==
  ASSUME TypeOK, HomesInv, NEW b \in Lists, NEW k \in 1 .. Len(resting[b]), NEW x \in RestingOrders,
         NEW e, x.id = resting[b][k].id, resting' = [resting EXCEPT ![b] = [resting[b] EXCEPT ![k] = x]],
         pending_takers' = pending_takers,
         blotter' = [blotter EXCEPT ![resting[b][k].id] = e], RestsAs(x, e, b), EntryOK(e)
  PROVE  HomesInv'
  <1> DEFINE o == resting[b][k]
             t == [resting[b] EXCEPT ![k] = x]
  <1>1. o \in ToSet(resting[b]) /\ o.id \in DOMAIN blotter
    <2>1. o \in ToSet(resting[b])
      BY ListTypes, MemberOf
    <2> QED BY <2>1 DEF HomesInv
  <1>2. /\ DOMAIN blotter' = DOMAIN blotter /\ blotter'[o.id] = e /\ Len(blotter') = Len(blotter)
        /\ \A id \in DOMAIN blotter : id # o.id => blotter'[id] = blotter[id]
    BY <1>1, EnteredAt
  <1>3. /\ resting'[b] = t /\ ToSet(t) = (ToSet(resting[b]) \ {o}) \union {x}
        /\ Distinct(t) /\ Len(t) = Len(resting[b])
        /\ \A c \in Lists : c # b => resting'[c] = resting[c]
    <2>1. Distinct(resting[b]) /\ resting[b] \in Seq(RestingOrders)
      BY ListTypes DEF HomesInv
    <2>2. ToSet(t) = (ToSet(resting[b]) \ {o}) \union {x} /\ Distinct(t) /\ Len(t) = Len(resting[b])
      BY <2>1, ReplacesOrder
    <2> HIDE DEF t
    <2>3. resting' = [resting EXCEPT ![b] = t]
      BY DEF t
    <2> QED BY <2>2, <2>3, ListTypes
  <1> HIDE DEF o, t
  <1>4. ASSUME NEW c \in Lists, NEW y \in ToSet(resting'[c])
        PROVE  (c = b /\ y = x) \/ (y \in ToSet(resting[c]) /\ y.id # o.id)
    <2>1. CASE c = b /\ y = x
      BY <2>1
    <2>2. CASE ~(c = b /\ y = x)
      <3>1. y \in ToSet(resting[c]) /\ (c = b => y # o)
        BY <1>3, <1>4, <2>2
      <3> QED BY <1>1, <3>1, OneEntry
    <2> QED BY <2>1, <2>2
  <1>5. ASSUME NEW c \in Lists, NEW y \in ToSet(resting[c])
        PROVE  \E z \in ToSet(resting'[c]) : z.id = y.id
    <2>1. CASE c = b /\ y = o
      BY <1>3, <2>1 DEF o
    <2>2. CASE ~(c = b /\ y = o)
      BY <1>3, <1>5, <2>2
    <2> QED BY <2>1, <2>2
  <1>6. x.id = o.id /\ \A p \in ToSet(pending_takers) : p.id # o.id
    BY <1>1 DEF HomesInv, o
  <1>7. \A c \in Lists : Distinct(resting'[c])
    BY <1>3 DEF HomesInv
  <1>8. ASSUME NEW c \in Lists, NEW y \in ToSet(resting'[c])
        PROVE  y.id \in DOMAIN blotter' /\ RestsAs(y, blotter'[y.id], c)
    BY <1>1, <1>2, <1>4, <1>6 DEF HomesInv
  <1>9. \A p \in ToSet(pending_takers') : p.id \in DOMAIN blotter' /\ WaitsAs(p, blotter'[p.id])
    BY <1>2, <1>6 DEF HomesInv
  <1>10. ASSUME NEW c \in Lists, NEW y \in ToSet(resting'[c]), NEW p \in ToSet(pending_takers')
         PROVE  y.id # p.id
    BY <1>4, <1>6 DEF HomesInv
  <1>11. ASSUME NEW id \in DOMAIN blotter'
         PROVE  EntryOK(blotter'[id]) /\ (blotter'[id].fate = "open" => AtHome(id)')
    <2>1. EntryOK(blotter'[id])
      BY <1>2 DEF HomesInv
    <2>2. blotter[id].fate = "open"  => AtHome(id)
      BY <1>2 DEF HomesInv
    <2>3. AtHome(id) => AtHome(id)'
      <3>1. CASE \E c \in Lists : \E y \in ToSet(resting[c]) : y.id = id
        <4>1. PICK c \in Lists : \E y \in ToSet(resting[c]) : y.id = id
          BY <3>1
        <4>2. \E z \in ToSet(resting'[c]) : z.id = id
          BY <1>5, <4>1
        <4> QED BY <4>2 DEF AtHome
      <3>2. CASE \E p \in ToSet(pending_takers) : p.id = id
        BY <3>2 DEF AtHome
      <3> QED BY <3>1, <3>2 DEF AtHome
    <2>4. id # o.id => blotter'[id] = blotter[id]
      BY <1>2
    <2>5. id = o.id => AtHome(id)
      BY <1>1 DEF AtHome
    <2> QED BY <2>1, <2>2, <2>3, <2>4, <2>5
  <1>12. Len(resting'["bid"]) + Len(resting'["ask"]) + Len(pending_takers') <= Len(blotter')
    <2>1. Len(resting'["bid"]) = Len(resting["bid"]) /\ Len(resting'["ask"]) = Len(resting["ask"])
      BY <1>3 DEF Lists
    <2>2. Len(resting["bid"]) + Len(resting["ask"]) + Len(pending_takers) <= Len(blotter)
      BY DEF HomesInv
    <2> QED BY <1>2, <2>1, <2>2
  <1>13. Len(blotter') <= MaxOrders
    BY <1>2 DEF HomesInv
  <1>14. Distinct(pending_takers')
    BY DEF HomesInv
  <1> QED BY <1>7, <1>8, <1>9, <1>10, <1>11, <1>12, <1>13, <1>14 DEF HomesInv
\* Entering a new order.
LEMMA EnteredLast ==
  ASSUME TypeOK, NEW e \in BlotterEntry, blotter' = Append(blotter, e)
  PROVE  /\ Len(blotter') = Len(blotter) + 1 /\ Len(blotter) \in Nat
         /\ DOMAIN blotter' = DOMAIN blotter \union {Len(blotter) + 1}
         /\ Len(blotter) + 1 \notin DOMAIN blotter
         /\ blotter'[Len(blotter) + 1] = e
         /\ \A id \in DOMAIN blotter : blotter'[id] = blotter[id]
  <1>1. blotter \in Seq(BlotterEntry)
    BY ListTypes
  <1> DEFINE n == Len(blotter)
  <1>2. /\ Len(blotter') = n + 1 /\ n \in Nat /\ DOMAIN blotter = 1 .. n /\ DOMAIN blotter' = 1 .. n + 1
        /\ blotter'[n + 1] = e /\ \A id \in 1 .. n : blotter'[id] = blotter[id]
    BY <1>1
  <1> HIDE DEF n
  <1> QED BY <1>2 DEF n

\* What is where it was, after a new order e was entered: all that is left
\* to show is where e went.
LEMMA OthersAtHome ==
  ASSUME TypeOK, HomesInv, Len(blotter) + 1 <= MaxOrders, NEW e \in BlotterEntry,
         blotter' = Append(blotter, e), EntryOK(e)
  PROVE  /\ \A b \in Lists : \A o \in ToSet(resting[b]) :
              /\ o.id \in DOMAIN blotter' /\ RestsAs(o, blotter'[o.id], b)
              /\ o.id # Len(blotter) + 1
         /\ \A p \in ToSet(pending_takers) :
              /\ p.id \in DOMAIN blotter' /\ WaitsAs(p, blotter'[p.id])
              /\ p.id # Len(blotter) + 1
         /\ \A id \in DOMAIN blotter' :
              /\ EntryOK(blotter'[id])
              /\ blotter'[id].fate = "open" => AtHome(id) \/ id = Len(blotter) + 1
         /\ Len(blotter') <= MaxOrders
  <1>1. /\ Len(blotter') = Len(blotter) + 1
        /\ DOMAIN blotter' = DOMAIN blotter \union {Len(blotter) + 1}
        /\ Len(blotter) + 1 \notin DOMAIN blotter
        /\ blotter'[Len(blotter) + 1] = e
        /\ \A id \in DOMAIN blotter : blotter'[id] = blotter[id]
    BY EnteredLast
  <1> QED BY <1>1 DEF HomesInv

\* A new order that was settled at once.
LEMMA NewClosed ==
  ASSUME TypeOK, HomesInv, Len(blotter) + 1 <= MaxOrders, NEW e \in BlotterEntry,
         blotter' = Append(blotter, e), EntryOK(e), e.fate # "open",
         UNCHANGED <<resting, pending_takers>>
  PROVE  HomesInv'
  <1>1. blotter'[Len(blotter) + 1] = e /\ Len(blotter') = Len(blotter) + 1
    BY EnteredLast
  <1>2. \A id : AtHome(id)' <=> AtHome(id)
    BY DEF AtHome
  <1>3. Len(resting["bid"]) + Len(resting["ask"]) + Len(pending_takers) <= Len(blotter) + 1
    BY ListTypes DEF HomesInv, Lists
  <1>4. \A b \in Lists : \A o \in ToSet(resting'[b]) :
          o.id \in DOMAIN blotter' /\ RestsAs(o, blotter'[o.id], b)
    BY OthersAtHome
  <1>5. \A p \in ToSet(pending_takers') : p.id \in DOMAIN blotter' /\ WaitsAs(p, blotter'[p.id])
    BY OthersAtHome
  <1>6. \A id \in DOMAIN blotter' :
          EntryOK(blotter'[id]) /\ (blotter'[id].fate = "open" => AtHome(id)')
    BY <1>1, <1>2, OthersAtHome
  <1>7. Len(blotter') <= MaxOrders
    BY <1>1
  <1>8. Len(resting'["bid"]) + Len(resting'["ask"]) + Len(pending_takers') <= Len(blotter')
    BY <1>1, <1>3
  <1> QED BY <1>4, <1>5, <1>6, <1>7, <1>8 DEF HomesInv

\* A new order that waits.
LEMMA NewWaiting ==
  ASSUME TypeOK, HomesInv, Len(blotter) + 1 <= MaxOrders, NEW e \in BlotterEntry,
         blotter' = Append(blotter, e), EntryOK(e), NEW x \in PendingOrders,
         x.id = Len(blotter) + 1, WaitsAs(x, e),
         pending_takers' = Append(pending_takers, x), resting' = resting
  PROVE  HomesInv'
  <1>1. /\ blotter'[Len(blotter) + 1] = e /\ Len(blotter') = Len(blotter) + 1
        /\ Len(blotter) + 1 \in DOMAIN blotter'
    BY EnteredLast
  <1>2. /\ Distinct(pending_takers') /\ ToSet(pending_takers') = ToSet(pending_takers) \union {x}
        /\ Len(pending_takers') = Len(pending_takers) + 1
    <2>1. \A y \in ToSet(pending_takers) : y.id # x.id
      BY OthersAtHome
    <2>2. Distinct(pending_takers) /\ pending_takers \in Seq(PendingOrders)
      BY ListTypes DEF HomesInv
    <2> QED BY <2>1, <2>2, AppendsOrder
  <1>3. \A id : AtHome(id) => AtHome(id)'
    BY <1>2 DEF AtHome
  <1>4. \A id : id = Len(blotter) + 1 => AtHome(id)'
    BY <1>2 DEF AtHome
  <1>5. \A b \in Lists : \A o \in ToSet(resting'[b]) :
          o.id \in DOMAIN blotter' /\ RestsAs(o, blotter'[o.id], b)
    BY OthersAtHome
  <1>6. \A p \in ToSet(pending_takers') : p.id \in DOMAIN blotter' /\ WaitsAs(p, blotter'[p.id])
    BY <1>1, <1>2, OthersAtHome
  <1>7. \A b \in Lists : \A o \in ToSet(resting'[b]), p \in ToSet(pending_takers') : o.id # p.id
    BY <1>2, OthersAtHome DEF HomesInv
  <1>8. \A id \in DOMAIN blotter' :
          EntryOK(blotter'[id]) /\ (blotter'[id].fate = "open" => AtHome(id)')
    BY <1>3, <1>4, OthersAtHome
  <1>9. Len(resting'["bid"]) + Len(resting'["ask"]) + Len(pending_takers') <= Len(blotter')
    <2>1. Len(resting["bid"]) + Len(resting["ask"]) + Len(pending_takers) <= Len(blotter)
      BY DEF HomesInv
    <2>2. /\ Len(resting["bid"]) \in Int /\ Len(resting["ask"]) \in Int
          /\ Len(pending_takers) \in Int /\ Len(blotter) \in Int
      BY ListTypes DEF Lists
    <2>3. Len(resting["bid"]) + Len(resting["ask"]) + (Len(pending_takers) + 1) <= Len(blotter) + 1
      BY <2>1, <2>2, SumGrows
    <2>4. resting'["bid"] = resting["bid"] /\ resting'["ask"] = resting["ask"]
      OBVIOUS
    <2> QED BY <1>1, <1>2, <2>3, <2>4
  <1>10. Len(blotter') <= MaxOrders /\ \A b \in Lists : Distinct(resting'[b])
    BY <1>1 DEF HomesInv
  <1> QED BY <1>2, <1>5, <1>6, <1>7, <1>8, <1>9, <1>10 DEF HomesInv

\* A new order that rests.
LEMMA NewResting ==
  ASSUME TypeOK, HomesInv, Len(blotter) + 1 <= MaxOrders, NEW e \in BlotterEntry,
         blotter' = Append(blotter, e), EntryOK(e), NEW b \in Lists, NEW x \in RestingOrders,
         x.id = Len(blotter) + 1, RestsAs(x, e, b),
         resting' = [resting EXCEPT ![b] = Append(resting[b], x)], pending_takers' = pending_takers
  PROVE  HomesInv'
  <1>1. /\ blotter'[Len(blotter) + 1] = e /\ Len(blotter') = Len(blotter) + 1
        /\ Len(blotter) + 1 \in DOMAIN blotter'
    BY EnteredLast
  <1> DEFINE t == Append(resting[b], x)
  <1>2. /\ Distinct(t) /\ ToSet(t) = ToSet(resting[b]) \union {x} /\ Len(t) = Len(resting[b]) + 1
    <2>1. \A y \in ToSet(resting[b]) : y.id # x.id
      BY OthersAtHome
    <2>2. Distinct(resting[b]) /\ resting[b] \in Seq(RestingOrders)
      BY ListTypes DEF HomesInv
    <2> QED BY <2>1, <2>2, AppendsOrder
  <1> HIDE DEF t
  <1>3. resting'[b] = t /\ \A c \in Lists : c # b => resting'[c] = resting[c]
    BY ListTypes DEF t
  <1>4. \A c \in Lists : \A y \in ToSet(resting'[c]) : y \in ToSet(resting[c]) \/ (c = b /\ y = x)
    BY <1>2, <1>3
  <1>5. /\ \A c \in Lists : \A y \in ToSet(resting[c]) : y \in ToSet(resting'[c])
        /\ x \in ToSet(resting'[b])
    BY <1>2, <1>3
  <1>6. \A id : AtHome(id) => AtHome(id)'
    BY <1>5 DEF AtHome
  <1>7. \A id : id = Len(blotter) + 1 => AtHome(id)'
    BY <1>5 DEF AtHome
  <1>8. \A c \in Lists : \A o \in ToSet(resting'[c]) :
          o.id \in DOMAIN blotter' /\ RestsAs(o, blotter'[o.id], c)
    BY <1>1, <1>4, OthersAtHome
  <1>9. \A p \in ToSet(pending_takers') : p.id \in DOMAIN blotter' /\ WaitsAs(p, blotter'[p.id])
    BY OthersAtHome
  <1>10. \A c \in Lists : \A o \in ToSet(resting'[c]), p \in ToSet(pending_takers') : o.id # p.id
    BY <1>4, OthersAtHome DEF HomesInv
  <1>11. \A id \in DOMAIN blotter' :
          EntryOK(blotter'[id]) /\ (blotter'[id].fate = "open" => AtHome(id)')
    BY <1>6, <1>7, OthersAtHome
  <1>12. Len(resting'["bid"]) + Len(resting'["ask"]) + Len(pending_takers') <= Len(blotter')
    <2>1. Len(resting["bid"]) + Len(resting["ask"]) + Len(pending_takers) <= Len(blotter)
      BY DEF HomesInv
    <2>2. /\ Len(resting["bid"]) \in Int /\ Len(resting["ask"]) \in Int
          /\ Len(pending_takers) \in Int /\ Len(blotter) \in Int
      BY ListTypes DEF Lists
    <2>3. CASE b = "bid"
      <3>1. Len(resting'["bid"]) = Len(resting["bid"]) + 1 /\ Len(resting'["ask"]) = Len(resting["ask"])
        BY <1>2, <1>3, <2>3 DEF Lists
      <3>2. (Len(resting["bid"]) + 1) + Len(resting["ask"]) + Len(pending_takers) <= Len(blotter) + 1
        BY <2>1, <2>2, SumGrows
      <3> QED BY <1>1, <3>1, <3>2
    <2>4. CASE b = "ask"
      <3>1. Len(resting'["ask"]) = Len(resting["ask"]) + 1 /\ Len(resting'["bid"]) = Len(resting["bid"])
        BY <1>2, <1>3, <2>4 DEF Lists
      <3>2. Len(resting["bid"]) + (Len(resting["ask"]) + 1) + Len(pending_takers) <= Len(blotter) + 1
        BY <2>1, <2>2, SumGrows
      <3> QED BY <1>1, <3>1, <3>2
    <2> QED BY <2>3, <2>4 DEF Lists
  <1>13. Len(blotter') <= MaxOrders /\ Distinct(pending_takers')
    BY <1>1 DEF HomesInv
  <1>14. \A c \in Lists : Distinct(resting'[c])
    BY <1>2, <1>3 DEF HomesInv
  <1> QED BY <1>8, <1>9, <1>10, <1>11, <1>12, <1>13, <1>14 DEF HomesInv
-----------------------------------------------------------------------------
(* What becomes of an order's entry.                                       *)

\* An entry that is closed, and nothing else.
LEMMA ClosedEntry ==
  ASSUME NEW e \in BlotterEntry, NEW fate \in Fates
  PROVE  LET c == [e EXCEPT !.fate = fate]
         IN  /\ c \in BlotterEntry /\ c.fate = fate
             /\ c.req = e.req /\ c.event = e.event /\ c.ts = e.ts /\ c.filled = e.filled
             /\ EntryOK(e) => EntryOK(c)
  BY DEF BlotterEntry, EntryOK

\* Fills at the limit add up to fills within the limit.
LEMMA FillsAddUp ==
  ASSUME NEW side, NEW paid \in Nat, NEW filled \in Nat, NEW limit \in Nat, NEW n \in Nat,
         NEW notional \in Nat,
         RespectsLimit(side, paid, filled, limit), RespectsLimit(side, notional, n, limit)
  PROVE  RespectsLimit(side, paid + notional, filled + n, limit)
  <1>1. limit * (filled + n) = limit * filled + limit * n
    OBVIOUS
  <1>2. limit * filled \in Nat /\ limit * n \in Nat
    BY ProductNat
  <1> DEFINE u == limit * filled
             v == limit * n
  <1>3. limit = NoLimit \/ (IsBuy(side) /\ paid <= u) \/ (~IsBuy(side) /\ paid >= u)
    BY DEF RespectsLimit
  <1>4. limit = NoLimit \/ (IsBuy(side) /\ notional <= v) \/ (~IsBuy(side) /\ notional >= v)
    BY DEF RespectsLimit
  <1>5. u \in Nat /\ v \in Nat /\ limit * (filled + n) = u + v
    BY <1>1, <1>2
  <1> HIDE DEF u, v
  <1>6. (IsBuy(side) /\ paid <= u /\ notional <= v => paid + notional <= u + v)
        /\ (~IsBuy(side) /\ paid >= u /\ notional >= v => paid + notional >= u + v)
    BY <1>5
  <1> QED BY <1>3, <1>4, <1>5, <1>6 DEF RespectsLimit

\* The entry of an order that filled n more, within what it asked for.
LEMMA FilledEntry ==
  ASSUME NEW e \in BlotterEntry, EntryOK(e), NEW n \in Nat, NEW notional \in Nat, NEW fate \in Fates,
         e.filled + n <= e.req.shares, RespectsLimit(e.req.side, notional, n, e.req.limit)
  PROVE  LET f == [req |-> e.req, event |-> e.event, ts |-> e.ts,
                   filled |-> e.filled + n, paid |-> e.paid + notional, fate |-> fate]
         IN  f \in BlotterEntry /\ EntryOK(f)
  <1>1. /\ e.req \in OrderReqs /\ e.event \in Nat /\ e.ts \in Nat /\ e.filled \in Nat /\ e.paid \in Nat
        /\ e.req.limit \in Nat
    BY RunnerAssumptions DEF BlotterEntry, OrderReqs
  <1>2. RespectsLimit(e.req.side, e.paid + notional, e.filled + n, e.req.limit)
    BY <1>1, FillsAddUp DEF EntryOK
  <1> QED BY <1>1, <1>2 DEF BlotterEntry, EntryOK

\* A maker order fills at its limit.
LEMMA MakerPrice ==
  ASSUME NEW o \in RestingOrders, NEW e \in BlotterEntry, NEW b, RestsAs(o, e, b), NEW n \in Nat
  PROVE  NativePrice(o) = e.req.limit /\ RespectsLimit(e.req.side, n * NativePrice(o), n, e.req.limit)
  <1>1. /\ Unit \in Nat /\ e.req.limit \in 0 .. Unit - 1 /\ o.side = e.req.side
        /\ o.limit_yes = LimitToYesTerms(e.req.side, e.req.limit)
    BY RunnerAssumptions DEF BlotterEntry, OrderReqs, RestsAs
  <1>2. NativePrice(o) = e.req.limit
    BY <1>1 DEF NativePrice, LimitToYesTerms
  <1>3. n * e.req.limit = e.req.limit * n /\ n * e.req.limit \in Nat
    BY <1>1, ProductNat
  <1> QED BY <1>2, <1>3 DEF RespectsLimit

\* The counters an order is rejected under.
RejectNames == {"no_cash", "no_liquidity", "no_inventory", "risk_gate"}

\* How a taker order was settled, and what was counted.
Settled(e, cs) ==
  \/ e.fate = "filled" /\ counters' = Bump(cs, "filled_taker")
  \/ e.fate = "rejected" /\ \E name \in RejectNames : counters' = Bump(cs, name)

\* A verdict that is not ok is a rejection with a counter.
LEMMA RejectNamed ==
  ASSUME NEW side, NEW n, NEW cost, Verdict(side, n, cost) # "ok"
  PROVE  Verdict(side, n, cost) \in RejectNames
  BY DEF Verdict, RejectNames

\* A taker order is filled within its limit or rejected, and closed.
LEMMA TakerEntry ==
  ASSUME TypeOK, NEW req \in OrderReqs, NEW cs, NEW bl \in Seq(BlotterEntry), NEW id \in DOMAIN bl,
         bl[id].req = req, bl[id].filled = 0, EntryOK(bl[id]), ApplyTaker(id, req, cs, bl)
  PROVE  \E e \in BlotterEntry :
           /\ blotter' = [bl EXCEPT ![id] = e] /\ EntryOK(e) /\ e.fate \in {"filled", "rejected"}
           /\ e.event = bl[id].event /\ Settled(e, cs)
  <1> DEFINE s        == Sweep(event, req)
             notional == Slip(req.side, s)
             verdict  == TakerVerdict(req, s, notional)
  <1>0. /\ event \in [ts : Nat, bids : [1 .. Depth -> Levels], asks : [1 .. Depth -> Levels]]
        /\ req.side \in Sides /\ bl[id] \in BlotterEntry
    BY DEF TypeOK, OrderReqs
  <1>1. SweepOK(req, s)
    BY <1>0, SweepType
  <1>2. s.filled \in Nat /\ notional \in Nat /\ s.filled <= req.shares
    <2> HIDE DEF s
    <2> QED BY <1>0, <1>1, SlipBounds DEF SweepOK
  <1> HIDE DEF s, notional
  <1>3. CASE verdict = "ok"
    <2> DEFINE f == [req |-> bl[id].req, event |-> bl[id].event, ts |-> bl[id].ts,
                     filled |-> bl[id].filled + s.filled, paid |-> bl[id].paid + notional,
                     fate |-> "filled"]
    <2>1. blotter' = [bl EXCEPT ![id] = f]
      BY <1>3 DEF ApplyTaker, s, notional, Filled
    <2>2. RespectsLimit(req.side, notional, s.filled, req.limit)
      BY <1>3 DEF TakerVerdict
    <2>3. bl[id].filled + s.filled <= bl[id].req.shares
      BY <1>2
    <2>4. f \in BlotterEntry /\ EntryOK(f)
      BY <1>0, <1>2, <2>2, <2>3, FilledEntry DEF Fates
    <2>5. counters' = Bump(cs, "filled_taker")
      BY <1>3 DEF ApplyTaker, s, notional
    <2>6. Settled(f, cs) /\ f.fate = "filled" /\ f.event = bl[id].event
      BY <2>5 DEF Settled
    <2> HIDE DEF f
    <2> QED BY <2>1, <2>4, <2>6
  <1>4. CASE verdict # "ok"
    <2> DEFINE c == [bl[id] EXCEPT !.fate = "rejected"]
    <2>1. blotter' = [bl EXCEPT ![id] = c]
      BY <1>4 DEF ApplyTaker, s, notional, Closed
    <2>2. "rejected" \in Fates
      BY DEF Fates
    <2>3. /\ c \in BlotterEntry /\ c.fate = "rejected" /\ EntryOK(c)
          /\ c.event = bl[id].event
      BY <1>0, <2>2, ClosedEntry
    <2>4. counters' = Bump(cs, verdict)
      BY <1>4 DEF ApplyTaker, Rejected, s, notional
    <2>5. verdict \in RejectNames
      <3> DEFINE cost == IF IsBuy(req.side) THEN Scale * notional + TakerFee * notional ELSE 0
      <3>1. verdict = "no_liquidity" \/ verdict = Verdict(req.side, s.filled, cost)
        BY DEF TakerVerdict
      <3> HIDE DEF cost, verdict
      <3>2. verdict = Verdict(req.side, s.filled, cost) => verdict \in RejectNames
        BY <1>4, RejectNamed
      <3> QED BY <3>1, <3>2 DEF RejectNames
    <2> HIDE DEF c, verdict
    <2>6. Settled(c, cs)
      BY <2>3, <2>4, <2>5 DEF Settled
    <2> QED BY <2>1, <2>3, <2>6
  <1> QED BY <1>3, <1>4
-----------------------------------------------------------------------------
(* Every action keeps the orders at home.                                  *)

\* The resting order the code looks at, and its entry.
LEMMA RestingEntry ==
  ASSUME TypeOK, HomesInv, NEW k \in 1 .. Len(resting[book])
  PROVE  LET o == resting[book][k]
         IN  /\ o \in RestingOrders /\ o \in ToSet(resting[book]) /\ o.id \in DOMAIN blotter
             /\ blotter[o.id] \in BlotterEntry /\ EntryOK(blotter[o.id])
             /\ RestsAs(o, blotter[o.id], book)
             /\ Drops(SwapRemove(resting[book], k), resting[book], k)
             /\ Drops(Removed(resting[book], k), resting[book], k)
  <1> DEFINE o == resting[book][k]
  <1>1. book \in Lists /\ resting[book] \in Seq(RestingOrders) /\ Distinct(resting[book])
    BY ListTypes DEF HomesInv
  <1>2. o \in RestingOrders /\ o \in ToSet(resting[book])
    BY <1>1, MemberOf
  <1>3. /\ Drops(SwapRemove(resting[book], k), resting[book], k)
        /\ Drops(Removed(resting[book], k), resting[book], k)
    BY <1>1, DropsOrder
  <1> HIDE DEF o
  <1>4. o.id \in DOMAIN blotter /\ RestsAs(o, blotter[o.id], book) /\ EntryOK(blotter[o.id])
    BY <1>1, <1>2 DEF HomesInv
  <1>5. blotter[o.id] \in BlotterEntry
    BY <1>4, ListTypes
  <1> QED BY <1>2, <1>3, <1>4, <1>5 DEF o

\* MakerFill keeps each order at its one home.
LEMMA MakerFillHomes ==
  ASSUME TypeOK, HomesInv, NEW k \in 1 .. Len(resting[book]), MakerFill(k)
  PROVE  HomesInv'
  <1> DEFINE s        == resting[book]
             o        == s[k]
             e        == blotter[o.id]
             n        == FillShares(k)
             notional == n * NativePrice(o)
             full     == n >= o.shares
             fate     == IF full THEN "filled" ELSE "open"
             f        == [req |-> e.req, event |-> e.event, ts |-> e.ts,
                          filled |-> e.filled + n, paid |-> e.paid + notional, fate |-> fate]
  <1>1. /\ o \in RestingOrders /\ o.id \in DOMAIN blotter /\ e \in BlotterEntry /\ EntryOK(e)
        /\ RestsAs(o, e, book) /\ Drops(SwapRemove(s, k), s, k) /\ book \in Lists
    BY RestingEntry, ListTypes
  <1>2. NextHit(k)
    BY DEF MakerFill
  <1>3. n \in Nat /\ n <= o.shares /\ notional \in Nat
    BY <1>2, HitType
  <1>4. /\ blotter' = [blotter EXCEPT ![o.id] = f]
        /\ resting' = [resting EXCEPT ![book] = AfterFill(s, k, n)]
        /\ pending_takers' = pending_takers
    BY DEF MakerFill, Filled
  <1>5. o.shares \in Nat \ {0} /\ e.filled \in Nat /\ e.req.shares \in Nat
    BY <1>1 DEF RestingOrders, BlotterEntry, OrderReqs
  <1> HIDE DEF n
  <1>6. f \in BlotterEntry /\ EntryOK(f)
    <2>1. e.filled + n <= e.req.shares
      BY <1>1, <1>3, <1>5 DEF RestsAs
    <2>2. RespectsLimit(e.req.side, notional, n, e.req.limit)
      BY <1>1, <1>3, MakerPrice
    <2>3. fate \in Fates
      BY DEF Fates
    <2> HIDE DEF e, notional, fate
    <2> QED BY <1>1, <1>3, <2>1, <2>2, <2>3, FilledEntry
  <1>7. CASE full
    <2>1. f.fate # "open"
      BY <1>7
    <2>2. AfterFill(s, k, n) = SwapRemove(s, k)
      BY <1>7 DEF AfterFill
    <2> HIDE DEF f
    <2> QED BY <1>1, <1>4, <1>6, <2>1, <2>2, LeavesList
  <1>8. CASE ~full
    <2> DEFINE x == [o EXCEPT !.shares = @ - n]
    <2>1. AfterFill(s, k, n) = [s EXCEPT ![k] = x]
      BY <1>8 DEF AfterFill
    <2>2. /\ x \in RestingOrders /\ x.id = o.id /\ x.side = o.side /\ x.limit_yes = o.limit_yes
          /\ x.shares = o.shares - n
      <3>1. o.shares - n \in Nat \ {0}
        BY <1>3, <1>5, <1>8
      <3> HIDE DEF o
      <3> QED BY <1>1, <3>1 DEF RestingOrders
    <2>3. f.req = e.req /\ f.filled = e.filled + n /\ f.fate = "open"
      BY <1>8
    <2> HIDE DEF f, x, e
    <2>4. RestsAs(x, f, book)
      <3>1. x.shares = f.req.shares - f.filled
        BY <1>1, <1>3, <1>5, <2>2, <2>3 DEF RestsAs
      <3> QED BY <1>1, <2>2, <2>3, <3>1 DEF RestsAs
    <2> QED BY <1>1, <1>4, <1>6, <2>1, <2>2, <2>4, StaysInList
  <1> QED BY <1>7, <1>8

\* A resting order is closed without another fill.
LEMMA ClosedHomes ==
  ASSUME TypeOK, HomesInv, NEW k \in 1 .. Len(resting[book]), NEW t, NEW fate \in Fates,
         Drops(t, resting[book], k), resting' = [resting EXCEPT ![book] = t],
         pending_takers' = pending_takers, fate # "open",
         blotter' = Closed(blotter, resting[book][k].id, fate)
  PROVE  HomesInv'
  <1> DEFINE o == resting[book][k]
             e == blotter[o.id]
             c == [e EXCEPT !.fate = fate]
  <1>1. o.id \in DOMAIN blotter /\ e \in BlotterEntry /\ EntryOK(e) /\ book \in Lists
    BY RestingEntry, ListTypes
  <1>2. c.fate # "open" /\ EntryOK(c)
    BY <1>1, ClosedEntry
  <1>3. blotter' = [blotter EXCEPT ![o.id] = c]
    BY DEF Closed
  <1> HIDE DEF c
  <1> QED BY <1>1, <1>2, <1>3, LeavesList

\* MakerReject keeps each order at its one home.
LEMMA MakerRejectHomes ==
  ASSUME TypeOK, HomesInv, NEW k \in 1 .. Len(resting[book]), MakerReject(k)
  PROVE  HomesInv'
  <1>1. /\ resting' = [resting EXCEPT ![book] = SwapRemove(resting[book], k)]
        /\ pending_takers' = pending_takers
        /\ blotter' = Closed(blotter, resting[book][k].id, "rejected")
    BY DEF MakerReject
  <1>2. Drops(SwapRemove(resting[book], k), resting[book], k) /\ "rejected" \in Fates
    BY RestingEntry DEF Fates
  <1> QED BY <1>1, <1>2, ClosedHomes

\* BreakerCancel keeps each order at its one home.
LEMMA BreakerCancelHomes ==
  ASSUME TypeOK, HomesInv, NEW k \in 1 .. Len(resting[book]), BreakerCancel(k)
  PROVE  HomesInv'
  <1>1. /\ resting' = [resting EXCEPT ![book] = Removed(resting[book], k)]
        /\ pending_takers' = pending_takers
        /\ blotter' = Closed(blotter, resting[book][k].id, "cancelled")
    BY DEF BreakerCancel
  <1>2. Drops(Removed(resting[book], k), resting[book], k) /\ "cancelled" \in Fates
    BY RestingEntry DEF Fates
  <1> QED BY <1>1, <1>2, ClosedHomes

\* ExecutePending keeps each order at its one home.
LEMMA ExecutePendingHomes ==
  ASSUME TypeOK, HomesInv, NEW k \in 1 .. Len(pending_takers), ExecutePending(k)
  PROVE  HomesInv'
  <1> DEFINE p == pending_takers[k]
  <1>1. p \in PendingOrders /\ p \in ToSet(pending_takers) /\ pending_takers \in Seq(PendingOrders)
    BY ListTypes, MemberOf
  <1>2. /\ p.id \in DOMAIN blotter /\ blotter[p.id].req = p.req /\ blotter[p.id].filled = 0
        /\ EntryOK(blotter[p.id])
    BY <1>1 DEF HomesInv, WaitsAs
  <1>3. p.req \in OrderReqs /\ blotter \in Seq(BlotterEntry)
    BY <1>1, ListTypes DEF PendingOrders
  <1>4. /\ ApplyTaker(p.id, p.req, counters, blotter)
        /\ pending_takers' = SwapRemove(pending_takers, k) /\ resting' = resting
    BY DEF ExecutePending
  <1>5. PICK e \in BlotterEntry :
          blotter' = [blotter EXCEPT ![p.id] = e] /\ EntryOK(e) /\ e.fate \in {"filled", "rejected"}
    <2> HIDE DEF p
    <2> QED BY <1>2, <1>3, <1>4, TakerEntry
  <1>6. Drops(SwapRemove(pending_takers, k), pending_takers, k)
    BY <1>1, DropsOrder DEF HomesInv
  <1> QED BY <1>4, <1>5, <1>6, LeavesQueue
\* The last element of a sequence, replaced.
LEMMA AppendReplaced ==
  ASSUME NEW S, NEW s \in Seq(S), NEW x \in S, NEW y \in S
  PROVE  [Append(s, x) EXCEPT ![Len(s) + 1] = y] = Append(s, y)
  <1> DEFINE n == Len(s)
             a == Append(s, x)
             t == [a EXCEPT ![n + 1] = y]
             u == Append(s, y)
  <1>1. n \in Nat /\ a \in Seq(S) /\ Len(a) = n + 1 /\ u \in Seq(S) /\ Len(u) = n + 1
    OBVIOUS
  <1>2. \A i \in 1 .. n : a[i] = s[i] /\ u[i] = s[i]
    OBVIOUS
  <1>3. u[n + 1] = y
    OBVIOUS
  <1> HIDE DEF a, u, n
  <1>4. a \in [1 .. n + 1 -> S] /\ u \in [1 .. n + 1 -> S]
    BY <1>1
  <1>5. t \in [1 .. n + 1 -> S] /\ t[n + 1] = y /\ \A i \in 1 .. n : t[i] = a[i]
    BY <1>1, <1>4
  <1>6. \A i \in 1 .. n + 1 : i \in 1 .. n \/ i = n + 1
    BY <1>1
  <1> HIDE DEF t
  <1>7. \A i \in 1 .. n + 1 : t[i] = u[i]
    BY <1>2, <1>3, <1>5, <1>6
  <1>8. t = u
    <2> DEFINE D == 1 .. n + 1
    <2>1. t \in [D -> S] /\ u \in [D -> S] /\ \A i \in D : t[i] = u[i]
      BY <1>4, <1>5, <1>7
    <2> HIDE DEF D
    <2> QED BY <2>1
  <1> QED BY <1>8 DEF t, u, n, a

\* Submit keeps each order at its one home.
LEMMA SubmitHomes ==
  ASSUME TypeOK, TypeOK', HomesInv, NEW req \in Requests, Submit(req)
  PROVE  HomesInv'
  <1> DEFINE id    == Len(blotter) + 1
             cs    == Bump(counters, "submitted")
             entry == [req |-> req, event |-> events_processed, ts |-> event.ts,
                       filled |-> 0, paid |-> 0, fate |-> "open"]
             bl    == Append(blotter, entry)
  <1>1. /\ req \in OrderReqs /\ blotter \in Seq(BlotterEntry) /\ id \in Nat
        /\ req.side \in Sides /\ req.limit \in Nat /\ req.shares \in Nat \ {0}
    BY RunnerAssumptions, ListTypes DEF OrderReqs
  <1>2. entry \in BlotterEntry /\ bl \in Seq(BlotterEntry) /\ EntryOK(entry)
    <2>1. bl \in Seq(BlotterEntry)
      BY NewEntryType
    <2>2. entry = bl[id] /\ id \in DOMAIN bl
      BY <1>1
    <2>3. entry \in BlotterEntry
      BY <2>1, <2>2
    <2>4. EntryOK(entry)
      BY <1>1 DEF EntryOK, RespectsLimit
    <2> QED BY <2>1, <2>3, <2>4
  <1>3. id <= MaxOrders
    BY DEF Submit
  <1>4. \A e \in BlotterEntry : [bl EXCEPT ![id] = e] = Append(blotter, e)
    BY <1>1, <1>2, AppendReplaced
  <1>5. id \in DOMAIN bl /\ bl[id] = entry
    BY <1>1
  <1>6. /\ entry.req = req /\ entry.filled = 0 /\ entry.fate = "open" /\ entry.ts = event.ts
    OBVIOUS
  <1>7. \/ SubmitTaker(id, req, cs, bl) /\ UNCHANGED resting
        \/ req.limit # NoLimit /\ RestMaker(id, req, cs, bl)
    BY DEF Submit
  <1> HIDE DEF bl, entry, cs
  <1>8. CASE ApplyTaker(id, req, cs, bl) /\ UNCHANGED <<resting, pending_takers>>
    <2>1. PICK e \in BlotterEntry :
            blotter' = [bl EXCEPT ![id] = e] /\ EntryOK(e) /\ e.fate \in {"filled", "rejected"}
      <3> HIDE DEF id
      <3> QED BY <1>1, <1>2, <1>5, <1>6, <1>8, TakerEntry
    <2>2. blotter' = Append(blotter, e)
      BY <1>4, <2>1
    <2> QED BY <1>3, <1>8, <2>1, <2>2, NewClosed
  <1>9. CASE /\ blotter' = bl /\ resting' = resting
             /\ pending_takers' = Append(pending_takers,
                  [id |-> id, execute_after |-> event.ts + TakerLatency, req |-> req])
    <2> DEFINE x == [id |-> id, execute_after |-> event.ts + TakerLatency, req |-> req]
    <2>1. x \in PendingOrders
      <3>1. event.ts \in Nat /\ TakerLatency \in Nat
        BY RunnerAssumptions DEF TypeOK
      <3> QED BY <1>1, <3>1 DEF PendingOrders
    <2>2. WaitsAs(x, entry) /\ x.id = id
      BY <1>6 DEF WaitsAs
    <2> HIDE DEF x
    <2>3. pending_takers' = Append(pending_takers, x) /\ blotter' = Append(blotter, entry)
      BY <1>9 DEF x, bl
    <2> QED BY <1>2, <1>3, <1>9, <2>1, <2>2, <2>3, NewWaiting
  <1>10. CASE req.limit # NoLimit /\ RestMaker(id, req, cs, bl)
    <2> DEFINE x == [id |-> id, side |-> req.side, limit_yes |-> LimitToYesTerms(req.side, req.limit),
                     shares |-> req.shares, submit_ts |-> event.ts]
               c == [entry EXCEPT !.fate = "rejected"]
               b == ListOf(req.side)
    <2>1. CASE blotter' = Closed(bl, id, "rejected") /\ UNCHANGED <<resting, pending_takers>>
      <3>1. "rejected" \in Fates
        BY DEF Fates
      <3>2. c \in BlotterEntry /\ c.fate = "rejected" /\ EntryOK(c)
        BY <1>2, <3>1, ClosedEntry
      <3>3. blotter' = [bl EXCEPT ![id] = c]
        BY <1>5, <2>1 DEF Closed
      <3> HIDE DEF c
      <3>4. blotter' = Append(blotter, c)
        BY <1>4, <3>2, <3>3
      <3> QED BY <1>3, <2>1, <3>2, <3>4, NewClosed
    <2>2. CASE blotter' = bl /\ pending_takers' = pending_takers
               /\ resting' = [resting EXCEPT ![b] = Append(@, x)]
      <3>1. x \in RestingOrders /\ b \in Lists
        <4>1. event.ts \in Nat
          BY DEF TypeOK
        <4>2. LimitToYesTerms(req.side, req.limit) \in 1 .. Unit - 1
          <5>1. req.limit \in 1 .. Unit - 1 /\ Unit \in Nat
            BY <1>1, <1>10, RunnerAssumptions DEF OrderReqs, NoLimit
          <5> QED BY <5>1 DEF LimitToYesTerms
        <4> QED BY <1>1, <4>1, <4>2 DEF RestingOrders, ListOf, Lists
      <3>2. x.id = id /\ RestsAs(x, entry, b)
        BY <1>1, <1>6, <1>10 DEF RestsAs
      <3> HIDE DEF x, b
      <3>3. blotter' = Append(blotter, entry) /\ resting' = [resting EXCEPT ![b] = Append(resting[b], x)]
        BY <2>2 DEF bl
      <3> QED BY <1>2, <1>3, <2>2, <3>1, <3>2, <3>3, NewResting
    <2> QED BY <1>10, <2>1, <2>2 DEF RestMaker
  <1> QED BY <1>7, <1>8, <1>9, <1>10 DEF SubmitTaker
\* Resolution closes whatever was open.
LEMMA ResolveEntries ==
  ASSUME TypeOK, NEW winner \in Tokens, Resolve(winner)
  PROVE  /\ \A b \in Lists : resting'[b] = <<>>
         /\ pending_takers' = <<>>
         /\ DOMAIN blotter' = DOMAIN blotter /\ Len(blotter') = Len(blotter)
         /\ \A id \in DOMAIN blotter :
              IF blotter[id].fate # "open" THEN blotter'[id] = blotter[id]
              ELSE \E fate \in {"rejected", "cancelled"} :
                     blotter'[id] = [blotter[id] EXCEPT !.fate = fate]
  <1> DEFINE g(id) == IF blotter[id].fate # "open" THEN blotter[id]
                      ELSE [blotter[id] EXCEPT !.fate =
                             IF \E k \in DOMAIN pending_takers : pending_takers[k].id = id
                             THEN "rejected" ELSE "cancelled"]
  <1>1. blotter' = [id \in DOMAIN blotter |-> g(id)]
    BY DEF Resolve
  <1>2. \A id : IF blotter[id].fate # "open" THEN g(id) = blotter[id]
                ELSE \E fate \in {"rejected", "cancelled"} : g(id) = [blotter[id] EXCEPT !.fate = fate]
    OBVIOUS
  <1> HIDE DEF g
  <1>3. DOMAIN blotter = 1 .. Len(blotter) /\ Len(blotter) \in Nat
    BY ListTypes
  <1>4. DOMAIN blotter' = DOMAIN blotter /\ Len(blotter') = Len(blotter)
        /\ \A id \in DOMAIN blotter : blotter'[id] = g(id)
    BY <1>1, <1>3
  <1> QED BY <1>2, <1>4 DEF Resolve

\* Resolve keeps each order at its one home.
LEMMA ResolveHomes ==
  ASSUME TypeOK, HomesInv, NEW winner \in Tokens, Resolve(winner)
  PROVE  HomesInv'
  <1>1. /\ \A b \in Lists : resting'[b] = <<>>
        /\ pending_takers' = <<>>
        /\ DOMAIN blotter' = DOMAIN blotter /\ Len(blotter') = Len(blotter)
    BY ResolveEntries
  <1>2. \A b \in Lists : ToSet(resting'[b]) = {} /\ Distinct(resting'[b]) /\ Len(resting'[b]) = 0
    BY <1>1 DEF ToSet, Distinct
  <1>3. ToSet(pending_takers') = {} /\ Distinct(pending_takers') /\ Len(pending_takers') = 0
    BY <1>1 DEF ToSet, Distinct
  <1>4. ASSUME NEW id \in DOMAIN blotter'
        PROVE  EntryOK(blotter'[id]) /\ blotter'[id].fate # "open"
    <2>1. blotter[id] \in BlotterEntry /\ EntryOK(blotter[id])
      BY <1>1, ListTypes DEF HomesInv
    <2>2. CASE blotter[id].fate # "open"
      BY <1>1, <2>1, <2>2, ResolveEntries
    <2>3. CASE blotter[id].fate = "open"
      <3>1. PICK fate \in {"rejected", "cancelled"} : blotter'[id] = [blotter[id] EXCEPT !.fate = fate]
        BY <1>1, <2>3, ResolveEntries
      <3>2. fate \in Fates
        BY DEF Fates
      <3> QED BY <2>1, <3>1, <3>2, ClosedEntry
    <2> QED BY <2>2, <2>3
  <1>5. Len(resting'["bid"]) + Len(resting'["ask"]) + Len(pending_takers') <= Len(blotter')
    <2>1. Len(resting'["bid"]) = 0 /\ Len(resting'["ask"]) = 0 /\ Len(blotter) \in Nat
      BY <1>2, ListTypes DEF Lists
    <2> QED BY <1>1, <1>3, <2>1
  <1>6. Len(blotter') <= MaxOrders
    BY <1>1 DEF HomesInv
  <1> QED BY <1>2, <1>3, <1>4, <1>5, <1>6 DEF HomesInv

\* At the start there is no order.
LEMMA InitHomes == Init => HomesInv
  <1> SUFFICES ASSUME Init PROVE HomesInv
    OBVIOUS
  <1>1. (\A b \in Lists : resting[b] = <<>>) /\ pending_takers = <<>> /\ blotter = <<>>
    BY DEF Init
  <1>2. \A b \in Lists : ToSet(resting[b]) = {} /\ Distinct(resting[b]) /\ Len(resting[b]) = 0
    BY <1>1 DEF ToSet, Distinct
  <1>3. ToSet(pending_takers) = {} /\ Distinct(pending_takers) /\ Len(pending_takers) = 0
    BY <1>1 DEF ToSet, Distinct
  <1>4. Len(blotter) = 0 /\ DOMAIN blotter = {} /\ MaxOrders \in Nat
    BY <1>1, RunnerAssumptions
  <1>5. Len(resting["bid"]) + Len(resting["ask"]) + Len(pending_takers) <= Len(blotter)
    <2>1. Len(resting["bid"]) = 0 /\ Len(resting["ask"]) = 0
      BY <1>2 DEF Lists
    <2> QED BY <1>3, <1>4, <2>1
  <1>6. Len(blotter) <= MaxOrders
    BY <1>4
  <1> QED BY <1>2, <1>3, <1>4, <1>5, <1>6 DEF HomesInv

\* Every step keeps each order at its one home.
LEMMA NextHomes == TypeOK /\ TypeOK' /\ HomesInv /\ [Next]_vars => HomesInv'
  <1> SUFFICES ASSUME TypeOK, TypeOK', HomesInv, [Next]_vars PROVE HomesInv'
    OBVIOUS
  <1>1. ASSUME NEW ts \in OpenTs .. CloseTs, NEW snapshot \in Books, BeginEvent(ts, snapshot)
        PROVE  HomesInv'
    BY <1>1, QuietHomes DEF BeginEvent
  <1>2. ASSUME NEW k \in 1 .. Len(resting[book]), MakerFill(k) PROVE HomesInv'
    BY <1>2, MakerFillHomes
  <1>3. ASSUME NEW k \in 1 .. Len(resting[book]), MakerReject(k) PROVE HomesInv'
    BY <1>3, MakerRejectHomes
  <1>4. ASSUME NEW k \in 1 .. Len(resting[book]), BreakerCancel(k) PROVE HomesInv'
    BY <1>4, BreakerCancelHomes
  <1>5. CASE NextPrint \/ EndTrades \/ EndCross \/ EndTakers \/ EndBreaker
    BY <1>5, QuietHomes DEF NextPrint, EndTrades, EndCross, EndTakers, EndBreaker
  <1>6. ASSUME NEW k \in 1 .. Len(pending_takers), ExecutePending(k) PROVE HomesInv'
    BY <1>6, ExecutePendingHomes
  <1>7. ASSUME NEW req \in Requests, ModelGateReject(req) PROVE HomesInv'
    BY <1>7, QuietHomes DEF ModelGateReject
  <1>8. ASSUME NEW req \in Requests, Submit(req) PROVE HomesInv'
    BY <1>8, SubmitHomes
  <1>9. CASE EndEvent
    BY <1>9, QuietHomes DEF EndEvent
  <1>10. ASSUME NEW winner \in Tokens, Resolve(winner) PROVE HomesInv'
    BY <1>10, ResolveHomes
  <1>11. CASE UNCHANGED vars
    BY <1>11, QuietHomes DEF vars
  <1>12. CASE Terminated
    BY <1>11, <1>12 DEF Terminated
  <1> QED
    BY <1>1, <1>2, <1>3, <1>4, <1>5, <1>6, <1>7, <1>8, <1>9, <1>10, <1>11, <1>12 DEF Next

\* The homes of the orders, as an invariant of every run.
LEMMA HomesHold == Spec => [](TypeOK /\ HomesInv)
  BY InitHomes, NextHomes, TypeCorrect, PTL DEF Spec
\* The lists are no longer than the blotter.
LEMMA ListsAreShort ==
  ASSUME TypeOK, HomesInv, NEW b \in Lists
  PROVE  Len(resting[b]) <= MaxOrders
  <1>1. /\ Len(resting["bid"]) \in Nat /\ Len(resting["ask"]) \in Nat
        /\ Len(pending_takers) \in Nat /\ Len(blotter) \in Nat /\ MaxOrders \in Nat
    BY ListTypes, RunnerAssumptions DEF Lists
  <1>2. /\ Len(resting["bid"]) + Len(resting["ask"]) + Len(pending_takers) <= Len(blotter)
        /\ Len(blotter) <= MaxOrders
    BY DEF HomesInv
  <1>3. \A u, v, w, n, m \in Nat : u + v + w <= n /\ n <= m => u <= m /\ v <= m
    OBVIOUS
  <1>4. Len(resting["bid"]) <= MaxOrders /\ Len(resting["ask"]) <= MaxOrders
    BY <1>1, <1>2, <1>3
  <1> QED BY <1>4 DEF Lists

\* The homes of one order, counted.
LEMMA OneHome ==
  ASSUME TypeOK, HomesInv, NEW id \in DOMAIN blotter
  PROVE  LET rests == {h \in Lists \X (1 .. MaxOrders) :
                         h[2] <= Len(resting[h[1]]) /\ resting[h[1]][h[2]].id = id}
             waits == {k \in DOMAIN pending_takers : pending_takers[k].id = id}
         IN  /\ Cardinality(rests) + Cardinality(waits) = IF blotter[id].fate = "open" THEN 1 ELSE 0
             /\ \A h \in rests : h[1] = ListOf(blotter[id].req.side)
  <1> DEFINE rests == {h \in Lists \X (1 .. MaxOrders) :
                         h[2] <= Len(resting[h[1]]) /\ resting[h[1]][h[2]].id = id}
             waits == {k \in DOMAIN pending_takers : pending_takers[k].id = id}
  <1>0. \A b \in Lists : /\ resting[b] \in Seq(RestingOrders) /\ Len(resting[b]) \in Nat
                         /\ Len(resting[b]) <= MaxOrders
    BY ListTypes, ListsAreShort
  <1>1. ASSUME NEW h \in rests
        PROVE  /\ h[1] \in Lists /\ h[2] \in DOMAIN resting[h[1]] /\ h = <<h[1], h[2]>>
               /\ resting[h[1]][h[2]] \in ToSet(resting[h[1]]) /\ resting[h[1]][h[2]].id = id
    BY <1>0, MemberOf
  <1>2. ASSUME NEW h \in rests PROVE blotter[id].fate = "open" /\ h[1] = ListOf(blotter[id].req.side)
    BY <1>1 DEF HomesInv, RestsAs
  <1>3. ASSUME NEW h \in rests, NEW g \in rests PROVE h = g
    <2>1. h[1] = g[1]
      BY <1>2
    <2>2. h[2] = g[2]
      BY <1>1, <2>1 DEF HomesInv, Distinct
    <2> QED BY <1>1, <2>1, <2>2
  <1>4. ASSUME NEW k \in waits
        PROVE  pending_takers[k] \in ToSet(pending_takers) /\ blotter[id].fate = "open"
    <2>1. pending_takers[k] \in ToSet(pending_takers)
      BY DEF ToSet
    <2> QED BY <2>1 DEF HomesInv, WaitsAs
  <1>5. ASSUME NEW k \in waits, NEW j \in waits PROVE k = j
    BY DEF HomesInv, Distinct
  <1>6. rests = {} \/ waits = {}
    BY <1>1, <1>4 DEF HomesInv
  <1>7. ASSUME blotter[id].fate = "open" PROVE rests # {} \/ waits # {}
    <2>1. CASE \E b \in Lists : \E o \in ToSet(resting[b]) : o.id = id
      <3>1. PICK b \in Lists : \E o \in ToSet(resting[b]) : o.id = id
        BY <2>1
      <3>2. PICK k \in DOMAIN resting[b] : resting[b][k].id = id
        BY <3>1 DEF ToSet
      <3>3. k \in 1 .. MaxOrders /\ k <= Len(resting[b])
        <4>1. DOMAIN resting[b] = 1 .. Len(resting[b]) /\ MaxOrders \in Nat
          BY <1>0, RunnerAssumptions
        <4> QED BY <1>0, <4>1
      <3>4. <<b, k>> \in rests
        BY <3>2, <3>3
      <3> QED BY <3>4
    <2>2. CASE \E p \in ToSet(pending_takers) : p.id = id
      <3>1. PICK k \in DOMAIN pending_takers : pending_takers[k].id = id
        BY <2>2 DEF ToSet
      <3> QED BY <3>1
    <2> QED BY <1>7, <2>1, <2>2 DEF HomesInv, AtHome
  <1> HIDE DEF rests, waits
  <1>8. \A S : S = {} => Cardinality(S) = 0
    BY FS_EmptySet
  <1>9. \A S : (S # {} /\ \A x, y \in S : x = y) => Cardinality(S) = 1
    <2> SUFFICES ASSUME NEW S, S # {}, \A x, y \in S : x = y PROVE Cardinality(S) = 1
        OBVIOUS
    <2>1. PICK x : x \in S
      OBVIOUS
    <2>2. S = {x}
      BY <2>1
    <2> QED BY <2>2, FS_Singleton
  <1>10. (\A h, g \in rests : h = g) /\ (\A k, j \in waits : k = j)
    BY <1>3, <1>5
  <1>11. ASSUME blotter[id].fate = "open" PROVE Cardinality(rests) + Cardinality(waits) = 1
    <2>1. CASE rests = {} /\ waits # {}
      <3>1. Cardinality(rests) = 0 /\ Cardinality(waits) = 1
        BY <1>8, <1>9, <1>10, <2>1
      <3> QED BY <3>1
    <2>2. CASE rests # {} /\ waits = {}
      <3>1. Cardinality(rests) = 1 /\ Cardinality(waits) = 0
        BY <1>8, <1>9, <1>10, <2>2
      <3> QED BY <3>1
    <2> QED BY <1>6, <1>7, <1>11, <2>1, <2>2
  <1>12. ASSUME blotter[id].fate # "open" PROVE Cardinality(rests) + Cardinality(waits) = 0
    <2>1. rests = {} /\ waits = {}
      BY <1>2, <1>4, <1>12
    <2>2. Cardinality(rests) = 0 /\ Cardinality(waits) = 0
      BY <1>8, <2>1
    <2> QED BY <2>2
  <1>13. Cardinality(rests) + Cardinality(waits) = IF blotter[id].fate = "open" THEN 1 ELSE 0
    BY <1>11, <1>12
  <1>14. \A h \in rests : h[1] = ListOf(blotter[id].req.side)
    BY <1>2
  <1> QED BY <1>13, <1>14 DEF rests, waits

\* Whatever rests, waits, fills in part, is swapped into another's place,
\* refused, cancelled or dropped at the close, an open order is in exactly one
\* place and a closed one in none, and a resting one is in the list of its side.
THEOREM OrdersHaveOneHome == Spec => []OpenOrdersHaveOneHome
  <1>1. TypeOK /\ HomesInv => OpenOrdersHaveOneHome
    BY OneHome DEF OpenOrdersHaveOneHome
  <1> QED BY <1>1, HomesHold, PTL

\* What is left of a resting order after its partial fills is what the entry
\* of the order says, and no order fills for more than it asked for.
THEOREM ResidualsAreExact == Spec => []ResidualsExact
  <1>1. ASSUME TypeOK, HomesInv PROVE ResidualsExact
    <2>1. ASSUME NEW b \in Lists, NEW k \in DOMAIN resting[b]
          PROVE  resting[b][k].shares = blotter[resting[b][k].id].req.shares
                                          - blotter[resting[b][k].id].filled
      <3>1. resting[b][k] \in ToSet(resting[b])
        BY DEF ToSet
      <3> QED BY <1>1, <3>1 DEF HomesInv, RestsAs
    <2>2. \A id \in DOMAIN blotter : blotter[id].filled <= blotter[id].req.shares
      BY <1>1 DEF HomesInv, EntryOK
    <2> QED BY <2>1, <2>2 DEF ResidualsExact
  <1> QED BY <1>1, HomesHold, PTL

\* No order pays more, or is paid less, over its fills than its limit,
\* although takers slip and makers fill print by print.
THEOREM LimitsAreRespected == Spec => []LimitsRespected
  <1>1. HomesInv => LimitsRespected
    BY DEF HomesInv, EntryOK, LimitsRespected
  <1> QED BY <1>1, HomesHold, PTL
-----------------------------------------------------------------------------
(* When orders are filled.                                                 *)

\* What a step does to the history of the orders there already are, and of
\* a new one.
HistoryStep ==
  /\ DOMAIN blotter \subseteq DOMAIN blotter'
  /\ \A id \in DOMAIN blotter :
       /\ blotter'[id].event = blotter[id].event
       /\ \/ blotter'[id].filled = blotter[id].filled
          \/ /\ phase \in {"trades", "cross"}
             /\ counters'["filled_maker"] > counters["filled_maker"]
          \/ /\ counters'["filled_maker"] = counters["filled_maker"]
             /\ event.ts >= blotter[id].ts + TakerLatency
  /\ \A id \in DOMAIN blotter' \ DOMAIN blotter :
       blotter'[id].event = events_processed /\ phase = "orders"

\* A step that enters one change.
LEMMA OneChange ==
  ASSUME TypeOK, NEW id \in DOMAIN blotter, NEW e, blotter' = [blotter EXCEPT ![id] = e],
         e.event = blotter[id].event,
         \/ e.filled = blotter[id].filled
         \/ /\ phase \in {"trades", "cross"}
            /\ counters'["filled_maker"] > counters["filled_maker"]
         \/ /\ counters'["filled_maker"] = counters["filled_maker"]
            /\ event.ts >= blotter[id].ts + TakerLatency
  PROVE  HistoryStep
  <1>1. /\ DOMAIN blotter' = DOMAIN blotter /\ blotter'[id] = e
        /\ \A other \in DOMAIN blotter : other # id => blotter'[other] = blotter[other]
    BY EnteredAt
  <1> QED BY <1>1 DEF HistoryStep

\* A step that leaves the blotter alone fills nothing.
LEMMA NoChange ==
  ASSUME UNCHANGED blotter PROVE HistoryStep
  BY DEF HistoryStep

\* A taker order that is settled counts as no maker fill.
LEMMA TakerCounts ==
  ASSUME NEW id, NEW req, NEW cs \in [CounterNames -> Nat], NEW bl, ApplyTaker(id, req, cs, bl)
  PROVE  counters'["filled_maker"] = cs["filled_maker"]
  <1> DEFINE s        == Sweep(event, req)
             notional == Slip(req.side, s)
             verdict  == TakerVerdict(req, s, notional)
             cost     == IF IsBuy(req.side) THEN Scale * notional + TakerFee * notional ELSE 0
  <1>1. counters' = Bump(cs, "filled_taker") \/ (verdict # "ok" /\ counters' = Bump(cs, verdict))
    BY DEF ApplyTaker, Rejected
  <1>2. verdict = "no_liquidity" \/ verdict = Verdict(req.side, s.filled, cost)
    BY DEF TakerVerdict
  <1>3. verdict # "filled_maker"
    <2> HIDE DEF s, cost, verdict
    <2> QED BY <1>2 DEF Verdict
  <1> HIDE DEF verdict
  <1>4. \A name : name # "filled_maker" => Bump(cs, name)["filled_maker"] = cs["filled_maker"]
    BY DEF Bump, CounterNames
  <1> QED BY <1>1, <1>3, <1>4

\* MakerFill fills orders only as HistoryStep allows.
LEMMA MakerFillHistory ==
  ASSUME TypeOK, HomesInv, NEW k \in 1 .. Len(resting[book]), MakerFill(k)
  PROVE  HistoryStep
  <1> DEFINE o        == resting[book][k]
             e        == blotter[o.id]
             n        == FillShares(k)
             notional == n * NativePrice(o)
             f        == [req |-> e.req, event |-> e.event, ts |-> e.ts,
                          filled |-> e.filled + n, paid |-> e.paid + notional,
                          fate |-> IF n >= o.shares THEN "filled" ELSE "open"]
  <1>1. o.id \in DOMAIN blotter
    BY RestingEntry
  <1>2. blotter' = [blotter EXCEPT ![o.id] = f] /\ f.event = e.event
    BY DEF MakerFill, Filled
  <1>3. phase \in {"trades", "cross"} /\ counters' = Bump(counters, "filled_maker")
    BY DEF MakerFill
  <1>4. counters'["filled_maker"] > counters["filled_maker"]
    <2>1. counters \in [CounterNames -> Nat] /\ "filled_maker" \in CounterNames
      BY DEF TypeOK, CounterNames
    <2>2. counters'["filled_maker"] = counters["filled_maker"] + 1
      BY <1>3, <2>1 DEF Bump
    <2> QED BY <2>1, <2>2
  <1> HIDE DEF f, o
  <1> QED BY <1>1, <1>2, <1>3, <1>4, OneChange

\* Closing a resting order fills nothing of it.
LEMMA ClosedHistory ==
  ASSUME TypeOK, HomesInv, NEW k \in 1 .. Len(resting[book]), NEW fate \in Fates,
         blotter' = Closed(blotter, resting[book][k].id, fate)
  PROVE  HistoryStep
  <1> DEFINE o == resting[book][k]
             e == blotter[o.id]
             c == [e EXCEPT !.fate = fate]
  <1>1. o.id \in DOMAIN blotter /\ e \in BlotterEntry
    BY RestingEntry
  <1>2. c.event = e.event /\ c.filled = e.filled
    BY <1>1, ClosedEntry
  <1>3. blotter' = [blotter EXCEPT ![o.id] = c]
    BY DEF Closed
  <1> HIDE DEF c, o
  <1> QED BY <1>1, <1>2, <1>3, OneChange

\* ExecutePending fills orders only as HistoryStep allows.
LEMMA ExecutePendingHistory ==
  ASSUME TypeOK, HomesInv, NEW k \in 1 .. Len(pending_takers), ExecutePending(k)
  PROVE  HistoryStep
  <1> DEFINE p == pending_takers[k]
  <1>1. p \in PendingOrders /\ p \in ToSet(pending_takers)
    BY ListTypes, MemberOf
  <1>2. /\ p.id \in DOMAIN blotter /\ WaitsAs(p, blotter[p.id]) /\ EntryOK(blotter[p.id])
    BY <1>1 DEF HomesInv
  <1>3. p.req \in OrderReqs /\ blotter \in Seq(BlotterEntry) /\ counters \in [CounterNames -> Nat]
    BY <1>1, ListTypes DEF PendingOrders, TypeOK
  <1>4. ApplyTaker(p.id, p.req, counters, blotter) /\ Due(p)
    BY DEF ExecutePending
  <1>5. PICK e \in BlotterEntry : blotter' = [blotter EXCEPT ![p.id] = e] /\ e.event = blotter[p.id].event
    <2> HIDE DEF p
    <2>1. blotter[p.id].req = p.req /\ blotter[p.id].filled = 0
      BY <1>2 DEF WaitsAs
    <2> QED BY <1>2, <1>3, <1>4, <2>1, TakerEntry
  <1>6. counters'["filled_maker"] = counters["filled_maker"]
    BY <1>3, <1>4, TakerCounts
  <1>7. event.ts >= blotter[p.id].ts + TakerLatency
    <2>1. p.execute_after = blotter[p.id].ts + TakerLatency /\ p.execute_after <= event.ts
      BY <1>2, <1>4 DEF WaitsAs, Due
    <2>2. event.ts \in Nat /\ p.execute_after \in Nat
      BY <1>1 DEF TypeOK, PendingOrders
    <2> QED BY <2>1, <2>2
  <1> HIDE DEF p
  <1> QED BY <1>2, <1>5, <1>6, <1>7, OneChange

\* What submitting an order enters and counts.
SubmittedAs(e) ==
  LET cs == Bump(counters, "submitted")
  IN  /\ blotter' = Append(blotter, e) /\ e.event = events_processed
      /\ Settled(e, cs) \/ (e.fate = "open" /\ counters' = cs)

\* A submitted order enters the blotter under the next number.
LEMMA SubmitEntry ==
  ASSUME TypeOK, HomesInv, NEW req \in Requests, Submit(req)
  PROVE  \E e \in BlotterEntry : SubmittedAs(e)
  <1> DEFINE id    == Len(blotter) + 1
             cs    == Bump(counters, "submitted")
             entry == [req |-> req, event |-> events_processed, ts |-> event.ts,
                       filled |-> 0, paid |-> 0, fate |-> "open"]
             bl    == Append(blotter, entry)
  <1>1. /\ req \in OrderReqs /\ blotter \in Seq(BlotterEntry) /\ bl \in Seq(BlotterEntry) /\ id \in Nat
        /\ req.limit \in Nat /\ req.shares \in Nat
    BY RunnerAssumptions, ListTypes, NewEntryType DEF OrderReqs
  <1>2. id \in DOMAIN bl /\ bl[id] = entry /\ entry \in BlotterEntry
    <2>1. id \in DOMAIN bl /\ bl[id] = entry
      BY <1>1
    <2> HIDE DEF bl, entry, id
    <2> QED BY <1>1, <2>1
  <1>3. /\ entry.req = req /\ entry.filled = 0 /\ entry.event = events_processed
        /\ EntryOK(entry) /\ entry.fate = "open"
    BY <1>1 DEF EntryOK, RespectsLimit
  <1>4. \A e \in BlotterEntry : [bl EXCEPT ![id] = e] = Append(blotter, e)
    BY <1>1, <1>2, AppendReplaced
  <1>5. SubmitTaker(id, req, cs, bl) \/ RestMaker(id, req, cs, bl)
    BY DEF Submit
  <1> HIDE DEF bl, entry, cs
  <1>6. CASE blotter' = bl /\ counters' = cs
    <2>1. SubmittedAs(entry)
      BY <1>3, <1>6 DEF SubmittedAs, bl, cs
    <2> QED BY <1>2, <2>1
  <1>7. CASE blotter' = Closed(bl, id, "rejected") /\ counters' = Rejected(cs, "risk_gate")
    <2> DEFINE c == [entry EXCEPT !.fate = "rejected"]
    <2>1. "rejected" \in Fates
      BY DEF Fates
    <2>2. c \in BlotterEntry /\ c.event = events_processed /\ c.fate = "rejected"
      BY <1>2, <1>3, <2>1, ClosedEntry
    <2>3. blotter' = [bl EXCEPT ![id] = c]
      BY <1>2, <1>7 DEF Closed
    <2> HIDE DEF c
    <2>4. blotter' = Append(blotter, c)
      BY <1>4, <2>2, <2>3
    <2>5. Settled(c, cs)
      BY <1>7, <2>2 DEF Settled, Rejected, RejectNames
    <2>6. SubmittedAs(c)
      BY <2>2, <2>4, <2>5 DEF SubmittedAs, cs
    <2> QED BY <2>2, <2>6
  <1>8. CASE ApplyTaker(id, req, cs, bl)
    <2> HIDE DEF id
    <2>1. PICK e \in BlotterEntry : /\ blotter' = [bl EXCEPT ![id] = e] /\ e.event = bl[id].event
                                    /\ Settled(e, cs)
      BY <1>1, <1>2, <1>3, <1>8, TakerEntry
    <2>2. blotter' = Append(blotter, e)
      BY <1>4, <2>1
    <2>3. SubmittedAs(e)
      BY <1>2, <1>3, <2>1, <2>2 DEF SubmittedAs, cs
    <2> QED BY <2>3
  <1> QED BY <1>5, <1>6, <1>7, <1>8 DEF SubmitTaker, RestMaker

\* Submit fills orders only as HistoryStep allows.
LEMMA SubmitHistory ==
  ASSUME TypeOK, HomesInv, NEW req \in Requests, Submit(req)
  PROVE  HistoryStep
  <1>1. PICK e \in BlotterEntry : blotter' = Append(blotter, e) /\ e.event = events_processed
    BY SubmitEntry DEF SubmittedAs
  <1>2. phase = "orders"
    BY DEF Submit
  <1> QED BY <1>1, <1>2, EnteredLast DEF HistoryStep

\* Resolve fills orders only as HistoryStep allows.
LEMMA ResolveHistory ==
  ASSUME TypeOK, NEW winner \in Tokens, Resolve(winner)
  PROVE  HistoryStep
  <1>1. ASSUME NEW id \in DOMAIN blotter
        PROVE  blotter'[id].event = blotter[id].event /\ blotter'[id].filled = blotter[id].filled
    <2>1. blotter[id] \in BlotterEntry
      BY ListTypes
    <2>2. CASE blotter[id].fate # "open"
      BY <2>2, ResolveEntries
    <2>3. CASE blotter[id].fate = "open"
      <3>1. PICK fate \in {"rejected", "cancelled"} : blotter'[id] = [blotter[id] EXCEPT !.fate = fate]
        BY <2>3, ResolveEntries
      <3>2. fate \in Fates
        BY DEF Fates
      <3> QED BY <2>1, <3>1, <3>2, ClosedEntry
    <2> QED BY <2>2, <2>3
  <1> QED BY <1>1, ResolveEntries DEF HistoryStep

\* Every step fills orders only as HistoryStep allows.
LEMMA NextHistory == TypeOK /\ HomesInv /\ [Next]_vars => HistoryStep
  <1> SUFFICES ASSUME TypeOK, HomesInv, [Next]_vars PROVE HistoryStep
    OBVIOUS
  <1>1. ASSUME NEW ts \in OpenTs .. CloseTs, NEW snapshot \in Books, BeginEvent(ts, snapshot)
        PROVE  HistoryStep
    BY <1>1, NoChange DEF BeginEvent
  <1>2. ASSUME NEW k \in 1 .. Len(resting[book]), MakerFill(k) PROVE HistoryStep
    BY <1>2, MakerFillHistory
  <1>3. ASSUME NEW k \in 1 .. Len(resting[book]), MakerReject(k) \/ BreakerCancel(k) PROVE HistoryStep
    <2>1. "rejected" \in Fates /\ "cancelled" \in Fates
      BY DEF Fates
    <2> QED BY <1>3, <2>1, ClosedHistory DEF MakerReject, BreakerCancel
  <1>4. CASE NextPrint \/ EndTrades \/ EndCross \/ EndTakers \/ EndBreaker \/ EndEvent
    BY <1>4, NoChange DEF NextPrint, EndTrades, EndCross, EndTakers, EndBreaker, EndEvent
  <1>5. ASSUME NEW k \in 1 .. Len(pending_takers), ExecutePending(k) PROVE HistoryStep
    BY <1>5, ExecutePendingHistory
  <1>6. ASSUME NEW req \in Requests, ModelGateReject(req) PROVE HistoryStep
    BY <1>6, NoChange DEF ModelGateReject
  <1>7. ASSUME NEW req \in Requests, Submit(req) PROVE HistoryStep
    BY <1>7, SubmitHistory
  <1>8. ASSUME NEW winner \in Tokens, Resolve(winner) PROVE HistoryStep
    BY <1>8, ResolveHistory
  <1>9. CASE UNCHANGED vars
    BY <1>9, NoChange DEF vars
  <1>10. CASE Terminated
    BY <1>9, <1>10 DEF Terminated
  <1> QED BY <1>1, <1>2, <1>3, <1>4, <1>5, <1>6, <1>7, <1>8, <1>9, <1>10 DEF Next

\* A pass through the event loop matches before it asks the strategy.
LEMMA ClockStep ==
  ASSUME TypeOK, [Next]_vars
  PROVE  /\ events_processed' \in {events_processed, events_processed + 1}
         /\ phase' \in {"trades", "cross"} =>
              phase \in {"trades", "cross"} \/ events_processed' = events_processed + 1
         /\ phase = "orders" => events_processed' = events_processed /\ phase' \notin {"trades", "cross"}
  <1>1. ASSUME NEW ts \in OpenTs .. CloseTs, NEW snapshot \in Books, BeginEvent(ts, snapshot)
        PROVE  events_processed' = events_processed + 1 /\ phase = "idle"
    BY <1>1 DEF BeginEvent
  <1>2. CASE \E k \in 1 .. Len(resting[book]) : MakerFill(k) \/ MakerReject(k) \/ BreakerCancel(k)
    BY <1>2 DEF MakerFill, MakerReject, BreakerCancel, input
  <1>3. CASE NextPrint \/ EndTrades \/ EndCross \/ EndTakers \/ EndBreaker \/ EndEvent
    BY <1>3 DEF NextPrint, EndTrades, EndCross, EndTakers, EndBreaker, EndEvent, Stage, input
  <1>4. CASE \E k \in 1 .. Len(pending_takers) : ExecutePending(k)
    BY <1>4 DEF ExecutePending, input
  <1>5. CASE \E req \in Requests : ModelGateReject(req) \/ Submit(req)
    BY <1>5 DEF ModelGateReject, Submit, control, input
  <1>6. CASE \E winner \in Tokens : Resolve(winner)
    BY <1>6 DEF Resolve, Stage, input
  <1>7. CASE UNCHANGED vars \/ Terminated
    BY <1>7 DEF vars, Terminated, control, input
  <1> QED BY <1>1, <1>2, <1>3, <1>4, <1>5, <1>6, <1>7 DEF Next

\* Every step keeps the orders met by the matcher older than the event.
LEMMA TimesStep ==
  ASSUME TypeOK, TimesInv, HomesInv, [Next]_vars PROVE TimesInv'
  <1>1. events_processed \in Nat
    BY DEF TypeOK
  <1>2. /\ events_processed' \in {events_processed, events_processed + 1}
        /\ phase' \in {"trades", "cross"} =>
             phase \in {"trades", "cross"} \/ events_processed' = events_processed + 1
        /\ phase = "orders" => events_processed' = events_processed /\ phase' \notin {"trades", "cross"}
    BY ClockStep
  <1>3. SUFFICES ASSUME NEW id \in DOMAIN blotter'
                 PROVE  /\ blotter'[id].event <= events_processed'
                        /\ phase' \in {"trades", "cross"} => blotter'[id].event < events_processed'
    BY DEF TimesInv
  <1>4. CASE id \in DOMAIN blotter
    <2>1. blotter'[id].event = blotter[id].event /\ blotter[id].event \in Nat
      <3>1. blotter[id] \in BlotterEntry
        BY <1>4, ListTypes
      <3> QED BY <1>4, <3>1, NextHistory DEF HistoryStep, BlotterEntry
    <2>2. /\ blotter[id].event <= events_processed
          /\ phase \in {"trades", "cross"} => blotter[id].event < events_processed
      BY <1>4 DEF TimesInv
    <2> QED BY <1>1, <1>2, <2>1, <2>2
  <1>5. CASE id \notin DOMAIN blotter
    <2>1. blotter'[id].event = events_processed /\ phase = "orders"
      BY <1>3, <1>5, NextHistory DEF HistoryStep
    <2> QED BY <1>1, <1>2, <2>1
  <1> QED BY <1>4, <1>5

\* A maker order fills in a later event than the one it was quoted on, and a
\* taker order once its latency has passed, whatever the two queues did.
THEOREM NoLookingAhead == Spec => NoLookAhead
  <1> DEFINE Body == \A id \in DOMAIN blotter :
                       blotter'[id].filled > blotter[id].filled =>
                         IF counters'["filled_maker"] > counters["filled_maker"]
                         THEN blotter[id].event < events_processed
                         ELSE event.ts >= blotter[id].ts + TakerLatency
  <1>1. Init => TimesInv
    BY DEF Init, TimesInv
  <1>2. TypeOK /\ HomesInv /\ TimesInv /\ [Next]_vars => TimesInv'
    BY TimesStep
  <1>3. TypeOK /\ HomesInv /\ TimesInv /\ [Next]_vars => [Body]_vars
    <2> SUFFICES ASSUME TypeOK, HomesInv, TimesInv, [Next]_vars,
                        NEW id \in DOMAIN blotter, blotter'[id].filled > blotter[id].filled
                 PROVE  IF counters'["filled_maker"] > counters["filled_maker"]
                        THEN blotter[id].event < events_processed
                        ELSE event.ts >= blotter[id].ts + TakerLatency
      OBVIOUS
    <2>1. blotter[id].filled \in Nat /\ counters["filled_maker"] \in Nat
      <3>1. blotter[id] \in BlotterEntry /\ counters \in [CounterNames -> Nat]
        BY ListTypes DEF TypeOK
      <3> QED BY <3>1 DEF BlotterEntry, CounterNames
    <2>2. \/ /\ phase \in {"trades", "cross"}
             /\ counters'["filled_maker"] > counters["filled_maker"]
          \/ /\ counters'["filled_maker"] = counters["filled_maker"]
             /\ event.ts >= blotter[id].ts + TakerLatency
      BY <2>1, NextHistory DEF HistoryStep
    <2> QED BY <2>1, <2>2 DEF TimesInv
  <1> QED BY <1>1, <1>2, <1>3, HomesHold, PTL DEF Spec, NoLookAhead
-----------------------------------------------------------------------------
(* No scan misses an order.                                                *)

\* swap_remove leaves what is before the removed element.
LEMMA BeforeRemoved ==
  ASSUME NEW S, NEW s \in Seq(S), NEW k \in 1 .. Len(s), NEW j \in 1 .. k - 1
  PROVE  SwapRemove(s, k)[j] = s[j] /\ j <= Len(s)
  <1>1. Len(s) \in Nat /\ j \in 1 .. Len(s) - 1 /\ j # k /\ j <= Len(s)
    OBVIOUS
  <1> QED BY <1>1 DEF SwapRemove

\* What has been scanned, up to the order at k.
LEMMA Scanned ==
  ASSUME TypeOK, ScanInv, phase \in {"trades", "cross"}, NEW k \in 1 .. Len(resting[book]),
         NextHit(k), NEW j \in 1 .. k - 1
  PROVE  ~Hit(j)
  <1>1. scan \in Nat /\ Len(resting[book]) \in Nat
    BY ListTypes DEF TypeOK
  <1>2. CASE j < scan
    <2>1. j \in 1 .. scan - 1 /\ j <= Len(resting[book])
      BY <1>1, <1>2
    <2> QED BY <2>1 DEF ScanInv
  <1>3. CASE j >= scan
    <2>1. j \in scan .. k - 1
      BY <1>1, <1>3
    <2> QED BY <2>1 DEF NextHit
  <1> QED BY <1>1, <1>2, <1>3

\* An order is taken out at k and the scan stays there.
LEMMA RemovedScan ==
  ASSUME TypeOK, ScanInv, phase \in {"trades", "cross"}, NEW k \in 1 .. Len(resting[book]),
         NextHit(k), resting' = [resting EXCEPT ![book] = SwapRemove(resting[book], k)],
         scan' = k, remaining' \in Nat, remaining' <= remaining,
         UNCHANGED <<phase, book, event, trades, trade_cursor>>
  PROVE  ScanInv'
  <1>1. resting[book] \in Seq(RestingOrders) /\ book \in Lists /\ remaining \in Nat
    BY ListTypes DEF TypeOK
  <1>2. resting'[book'] = SwapRemove(resting[book], k)
    <2>1. resting \in [Lists -> Seq(RestingOrders)]
      BY ListTypes
    <2> QED BY <1>1, <2>1
  <1>3. ASSUME NEW j \in 1 .. k - 1 PROVE ~Hit(j)'
    <2>1. ~Hit(j)
      BY Scanned
    <2>2. resting'[book'][j] = resting[book][j]
      BY <1>1, <1>2, BeforeRemoved
    <2>3. remaining' > 0 => remaining > 0
      BY <1>1
    <2> QED BY <2>1, <2>2, <2>3 DEF Hit
  <1> QED BY <1>3 DEF ScanInv

\* MakerFill keeps what the scan has passed.
LEMMA MakerFillScan ==
  ASSUME TypeOK, TypeOK', ScanInv, NEW k \in 1 .. Len(resting[book]), MakerFill(k)
  PROVE  ScanInv'
  <1> DEFINE s == resting[book]
             o == s[k]
             n == FillShares(k)
  <1>1. /\ phase \in {"trades", "cross"} /\ NextHit(k) /\ scan' = ScanAfter(k, n >= o.shares)
        /\ resting' = [resting EXCEPT ![book] = AfterFill(s, k, n)]
        /\ remaining' = IF phase = "trades" THEN remaining - n ELSE remaining
        /\ UNCHANGED <<phase, book, event, trades, trade_cursor>>
    BY DEF MakerFill, input
  <1>2. n \in Nat /\ remaining \in Nat /\ remaining' \in Nat /\ o.shares \in Nat
    BY <1>1, HitType DEF TypeOK, RestingOrders
  <1>3. CASE n >= o.shares
    <2>1. scan' = k /\ resting' = [resting EXCEPT ![book] = SwapRemove(s, k)]
      BY <1>1, <1>3 DEF ScanAfter, AfterFill
    <2>2. remaining' <= remaining
      BY <1>1, <1>2
    <2> QED BY <1>1, <1>2, <2>1, <2>2, RemovedScan
  <1>4. CASE ~(n >= o.shares)
    <2>1. phase = "trades" /\ n = remaining
      BY <1>1, <1>2, <1>4 DEF FillShares, Least
    <2>2. remaining' = 0 /\ phase' = "trades"
      BY <1>1, <1>2, <2>1
    <2>3. \A j : ~Hit(j)'
      BY <2>2 DEF Hit
    <2> QED BY <2>2, <2>3 DEF ScanInv
  <1> QED BY <1>3, <1>4

\* MakerReject keeps what the scan has passed.
LEMMA MakerRejectScan ==
  ASSUME TypeOK, ScanInv, NEW k \in 1 .. Len(resting[book]), MakerReject(k)
  PROVE  ScanInv'
  <1>1. /\ phase \in {"trades", "cross"} /\ NextHit(k) /\ scan' = k
        /\ resting' = [resting EXCEPT ![book] = SwapRemove(resting[book], k)]
        /\ UNCHANGED <<phase, book, event, trades, trade_cursor, remaining>>
    BY DEF MakerReject, input, ScanAfter
  <1>2. remaining' \in Nat /\ remaining' <= remaining
    BY <1>1 DEF TypeOK
  <1> QED BY <1>1, <1>2, RemovedScan

\* ExecutePending keeps what the scan has passed.
LEMMA ExecutePendingScan ==
  ASSUME TypeOK, ScanInv, NEW k \in 1 .. Len(pending_takers), ExecutePending(k)
  PROVE  ScanInv'
  <1>1. /\ phase = "takers" /\ scan' = k /\ k \in scan .. Len(pending_takers)
        /\ \A j \in scan .. k - 1 : ~Due(pending_takers[j])
        /\ pending_takers' = SwapRemove(pending_takers, k)
        /\ UNCHANGED <<phase, event>>
    BY DEF ExecutePending, input, ScanAfter
  <1>2. pending_takers \in Seq(PendingOrders) /\ Len(pending_takers) \in Nat /\ scan \in Nat
    BY ListTypes DEF TypeOK
  <1>3. ASSUME NEW j \in 1 .. k - 1 PROVE ~Due(pending_takers[j])
    <2>1. CASE j < scan
      <3>1. j \in 1 .. scan - 1 /\ j <= Len(pending_takers)
        BY <1>2, <2>1
      <3> QED BY <1>1, <3>1 DEF ScanInv
    <2>2. CASE j >= scan
      <3>1. j \in scan .. k - 1
        BY <1>2, <2>2
      <3> QED BY <1>1, <3>1
    <2> QED BY <1>2, <2>1, <2>2
  <1>4. ASSUME NEW j \in 1 .. k - 1 PROVE ~Due(pending_takers[j])'
    <2>1. pending_takers'[j] = pending_takers[j]
      BY <1>1, <1>2, BeforeRemoved
    <2>2. ~Due(pending_takers[j])
      BY <1>3
    <2> QED BY <1>1, <2>1, <2>2 DEF Due
  <1> QED BY <1>1, <1>4 DEF ScanInv

\* A scan that starts has found nothing yet.
LEMMA FreshScan ==
  ASSUME scan' = 1 PROVE ScanInv'
  <1>1. 1 .. scan' - 1 = {}
    OBVIOUS
  <1> QED BY <1>1 DEF ScanInv

\* Every step keeps what a scan has passed.
LEMMA NextScan == TypeOK /\ TypeOK' /\ ScanInv /\ [Next]_vars => ScanInv'
  <1> SUFFICES ASSUME TypeOK, TypeOK', ScanInv, [Next]_vars PROVE ScanInv'
    OBVIOUS
  <1>1. CASE \E ts \in OpenTs .. CloseTs, snapshot \in Books : BeginEvent(ts, snapshot)
    BY <1>1, FreshScan DEF BeginEvent, StartTrades, Stage
  <1>2. ASSUME NEW k \in 1 .. Len(resting[book]), MakerFill(k) PROVE ScanInv'
    BY <1>2, MakerFillScan
  <1>3. ASSUME NEW k \in 1 .. Len(resting[book]), MakerReject(k) PROVE ScanInv'
    BY <1>3, MakerRejectScan
  <1>4. CASE \E k \in 1 .. Len(resting[book]) : BreakerCancel(k)
    BY <1>4 DEF BreakerCancel, ScanInv
  <1>5. CASE NextPrint \/ EndTrades \/ EndCross \/ EndTakers \/ EndBreaker \/ EndEvent
    BY <1>5, FreshScan DEF NextPrint, EndTrades, EndCross, EndTakers, EndBreaker, EndEvent, Stage
  <1>6. ASSUME NEW k \in 1 .. Len(pending_takers), ExecutePending(k) PROVE ScanInv'
    BY <1>6, ExecutePendingScan
  <1>7. CASE \E req \in Requests : ModelGateReject(req) \/ Submit(req)
    BY <1>7 DEF ModelGateReject, Submit, control, ScanInv
  <1>8. CASE \E winner \in Tokens : Resolve(winner)
    BY <1>8, FreshScan DEF Resolve, Stage
  <1>9. CASE UNCHANGED vars
    BY <1>9 DEF vars, control, input, ScanInv, Hit, Due
  <1>10. CASE Terminated
    BY <1>9, <1>10 DEF Terminated
  <1> QED BY <1>1, <1>2, <1>3, <1>4, <1>5, <1>6, <1>7, <1>8, <1>9, <1>10 DEF Next

\* What SweepsComplete says of one step.
SweptStep ==
  /\ (Leaving("trades") \/ trade_cursor' # trade_cursor) => \A k \in DOMAIN resting[book] : ~Hit(k)
  /\ Leaving("cross") => \A k \in DOMAIN resting[book] : ~Hit(k)
  /\ Leaving("takers") =>
       \A k \in DOMAIN pending_takers : pending_takers[k].execute_after > event.ts

\* A scan that is over has seen the whole list.
LEMMA ScanSawAll ==
  ASSUME TypeOK, ScanInv, phase \in {"trades", "cross"}, ScanOver
  PROVE  \A k \in DOMAIN resting[book] : ~Hit(k)
  <1> SUFFICES ASSUME NEW k \in DOMAIN resting[book] PROVE ~Hit(k)
    OBVIOUS
  <1>1. /\ resting[book] \in Seq(RestingOrders) /\ Len(resting[book]) \in Nat /\ scan \in Nat
    BY ListTypes DEF TypeOK
  <1>2. k \in 1 .. Len(resting[book])
    BY <1>1
  <1>3. CASE k < scan
    <2>1. k \in 1 .. scan - 1 /\ k <= Len(resting[book])
      BY <1>1, <1>2, <1>3
    <2> QED BY <2>1 DEF ScanInv
  <1>4. CASE k >= scan
    <2>1. k \in scan .. Len(resting[book])
      BY <1>1, <1>2, <1>4
    <2> QED BY <2>1 DEF ScanOver
  <1> QED BY <1>1, <1>2, <1>3, <1>4

\* When the taker scan ends, whatever is left is not due.
LEMMA EndTakersSwept ==
  ASSUME TypeOK, ScanInv, EndTakers
  PROVE  \A k \in DOMAIN pending_takers : pending_takers[k].execute_after > event.ts
  <1> SUFFICES ASSUME NEW k \in DOMAIN pending_takers PROVE pending_takers[k].execute_after > event.ts
    OBVIOUS
  <1>1. /\ pending_takers \in Seq(PendingOrders) /\ Len(pending_takers) \in Nat /\ scan \in Nat
        /\ phase = "takers" /\ NoneDue /\ event.ts \in Nat
    BY ListTypes DEF TypeOK, EndTakers
  <1>2. k \in 1 .. Len(pending_takers) /\ pending_takers[k] \in PendingOrders
    BY <1>1
  <1>3. ~Due(pending_takers[k])
    <2>1. CASE k < scan
      <3>1. k \in 1 .. scan - 1 /\ k <= Len(pending_takers)
        BY <1>1, <1>2, <2>1
      <3> QED BY <1>1, <3>1 DEF ScanInv
    <2>2. CASE k >= scan
      <3>1. k \in scan .. Len(pending_takers)
        BY <1>1, <1>2, <2>2
      <3> QED BY <1>1, <3>1 DEF NoneDue
    <2> QED BY <1>1, <1>2, <2>1, <2>2
  <1> QED BY <1>1, <1>2, <1>3 DEF Due, PendingOrders

\* No stage is left with an order it had to act on.
LEMMA NextSwept ==
  ASSUME TypeOK, ScanInv, [Next]_vars PROVE SweptStep
  <1>1. CASE \E ts \in OpenTs .. CloseTs, snapshot \in Books : BeginEvent(ts, snapshot)
    BY <1>1 DEF BeginEvent, SweptStep, Leaving
  <1>2. CASE \E k \in 1 .. Len(resting[book]) : MakerFill(k) \/ MakerReject(k) \/ BreakerCancel(k)
    BY <1>2 DEF MakerFill, MakerReject, BreakerCancel, SweptStep, Leaving
  <1>3. CASE NextPrint \/ EndTrades \/ EndCross
    <2>1. \A k \in DOMAIN resting[book] : ~Hit(k)
      BY <1>3, ScanSawAll DEF NextPrint, EndTrades, EndCross
    <2>2. ~Leaving("takers")
      BY <1>3 DEF NextPrint, EndTrades, EndCross, Leaving
    <2> QED BY <2>1, <2>2 DEF SweptStep
  <1>4. CASE EndTakers
    <2>1. phase = "takers" /\ trade_cursor' = trade_cursor
      BY <1>4 DEF EndTakers
    <2> QED BY <1>4, <2>1, EndTakersSwept DEF SweptStep, Leaving
  <1>5. CASE \E k \in 1 .. Len(pending_takers) : ExecutePending(k)
    BY <1>5 DEF ExecutePending, SweptStep, Leaving
  <1>6. CASE EndBreaker \/ EndEvent \/ \E winner \in Tokens : Resolve(winner)
    BY <1>6 DEF EndBreaker, EndEvent, Resolve, SweptStep, Leaving
  <1>7. CASE \E req \in Requests : ModelGateReject(req) \/ Submit(req)
    BY <1>7 DEF ModelGateReject, Submit, control, SweptStep, Leaving
  <1>8. CASE UNCHANGED vars \/ Terminated
    BY <1>8 DEF Terminated, vars, control, SweptStep, Leaving
  <1> QED BY <1>1, <1>2, <1>3, <1>4, <1>5, <1>6, <1>7, <1>8 DEF Next

\* When the code leaves a print, a list or the pending takers, nothing it
\* should have filled or executed is still there, wherever swap_remove put it.
THEOREM NothingIsMissed == Spec => SweepsComplete
  <1>1. Init => ScanInv
    BY DEF Init, ScanInv
  <1>2. TypeOK /\ ScanInv /\ [Next]_vars => [SweptStep]_vars
    BY NextSwept
  <1> QED BY <1>1, <1>2, NextScan, TypeCorrect, PTL DEF Spec, SweepsComplete, SweptStep
-----------------------------------------------------------------------------
(* What the report counts.                                                 *)

\* The orders of a fate.
Fated(f) == {id \in DOMAIN blotter : blotter[id].fate = f}

\* A step that gives one more order the fate g, and takes none from a closed one.
Tallied(g) ==
  \A f \in Fates \ {"open"} :
    Cardinality(Fated(f)') = Cardinality(Fated(f)) + (IF f = g THEN 1 ELSE 0)

\* The counters of an unresolved run of n orders, r rejected and d filled.
Reconciles(cs, n, r, d) ==
  /\ cs["submitted"] = n
  /\ r = cs["no_cash"] + cs["no_liquidity"] + cs["no_inventory"] + cs["risk_gate"]
  /\ cs["filled_taker"] + cs["filled_maker"] >= d
  /\ cs["cancelled_eom"] = 0

\* The orders of a fate can be counted.
LEMMA FatedFinite ==
  ASSUME TypeOK, NEW f
  PROVE  IsFiniteSet(Fated(f)) /\ Cardinality(Fated(f)) \in Nat
  <1>1. IsFiniteSet(DOMAIN blotter)
    BY ListTypes, FS_Interval
  <1>2. Fated(f) \in SUBSET (DOMAIN blotter)
    BY DEF Fated
  <1>3. IsFiniteSet(Fated(f))
    BY <1>1, <1>2, FS_Subset
  <1> QED BY <1>3, FS_CardinalityType

\* An open order gets a fate, or stays open.
LEMMA FateTallied ==
  ASSUME TypeOK, NEW id \in DOMAIN blotter, blotter[id].fate = "open", NEW e,
         blotter' = [blotter EXCEPT ![id] = e]
  PROVE  Tallied(e.fate) /\ Len(blotter') = Len(blotter)
  <1>1. /\ DOMAIN blotter' = DOMAIN blotter /\ blotter'[id] = e /\ Len(blotter') = Len(blotter)
        /\ \A other \in DOMAIN blotter : other # id => blotter'[other] = blotter[other]
    BY EnteredAt
  <1>2. ASSUME NEW f \in Fates \ {"open"}
        PROVE  Cardinality(Fated(f)') = Cardinality(Fated(f)) + (IF f = e.fate THEN 1 ELSE 0)
    <2>1. IsFiniteSet(Fated(f)) /\ Cardinality(Fated(f)) \in Nat /\ id \notin Fated(f)
      BY FatedFinite DEF Fated
    <2>2. Fated(f)' = IF f = e.fate THEN Fated(f) \cup {id} ELSE Fated(f)
      BY <1>1 DEF Fated
    <2>3. Cardinality(Fated(f) \cup {id}) = Cardinality(Fated(f)) + 1
      BY <2>1, FS_AddElement
    <2> QED BY <2>1, <2>2, <2>3
  <1> QED BY <1>1, <1>2 DEF Tallied

\* A new order has a fate, or is open.
LEMMA NewTallied ==
  ASSUME TypeOK, NEW e \in BlotterEntry, blotter' = Append(blotter, e)
  PROVE  Tallied(e.fate) /\ Len(blotter') = Len(blotter) + 1
  <1> DEFINE id == Len(blotter) + 1
  <1>1. /\ DOMAIN blotter' = DOMAIN blotter \union {id} /\ id \notin DOMAIN blotter
        /\ blotter'[id] = e /\ Len(blotter') = Len(blotter) + 1
        /\ \A other \in DOMAIN blotter : blotter'[other] = blotter[other]
    BY EnteredLast
  <1> HIDE DEF id
  <1>2. ASSUME NEW f \in Fates \ {"open"}
        PROVE  Cardinality(Fated(f)') = Cardinality(Fated(f)) + (IF f = e.fate THEN 1 ELSE 0)
    <2>1. IsFiniteSet(Fated(f)) /\ Cardinality(Fated(f)) \in Nat /\ id \notin Fated(f)
      BY <1>1, FatedFinite DEF Fated
    <2>2. Fated(f)' = IF f = e.fate THEN Fated(f) \cup {id} ELSE Fated(f)
      BY <1>1 DEF Fated
    <2>3. Cardinality(Fated(f) \cup {id}) = Cardinality(Fated(f)) + 1
      BY <2>1, FS_AddElement
    <2> QED BY <2>1, <2>2, <2>3
  <1> QED BY <1>1, <1>2 DEF Tallied

\* Bump adds one to one counter.
LEMMA BumpValues ==
  ASSUME NEW cs \in [CounterNames -> Nat], NEW name \in CounterNames
  PROVE  \A c \in CounterNames : Bump(cs, name)[c] = cs[c] + (IF c = name THEN 1 ELSE 0)
  BY DEF Bump

\* Each kind of count keeps the counters reconciled.
LEMMA BumpReconciles ==
  ASSUME NEW cs \in [CounterNames -> Nat], NEW n \in Nat, NEW r \in Nat, NEW d \in Nat,
         Reconciles(cs, n, r, d)
  PROVE  /\ \A name \in RejectNames : Reconciles(Bump(cs, name), n, r + 1, d)
         /\ \A name \in {"filled_taker", "filled_maker"} :
              Reconciles(Bump(cs, name), n, r, d + 1) /\ Reconciles(Bump(cs, name), n, r, d)
         /\ Reconciles(Bump(cs, "submitted"), n + 1, r, d)
         /\ Reconciles(Bump(cs, "model_gate"), n, r, d)
  <1>1. \A c \in CounterNames : cs[c] \in Nat
    OBVIOUS
  <1>2. /\ cs["submitted"] \in Nat /\ cs["no_cash"] \in Nat /\ cs["no_liquidity"] \in Nat
        /\ cs["no_inventory"] \in Nat /\ cs["risk_gate"] \in Nat /\ cs["filled_taker"] \in Nat
        /\ cs["filled_maker"] \in Nat /\ cs["cancelled_eom"] \in Nat
    BY <1>1 DEF CounterNames
  <1>3. ASSUME NEW name \in CounterNames
        PROVE  LET b(c) == Bump(cs, name)[c]
                   u(c) == cs[c] + (IF c = name THEN 1 ELSE 0)
               IN  /\ b("submitted") = u("submitted") /\ b("no_cash") = u("no_cash")
                   /\ b("no_liquidity") = u("no_liquidity") /\ b("no_inventory") = u("no_inventory")
                   /\ b("risk_gate") = u("risk_gate") /\ b("filled_taker") = u("filled_taker")
                   /\ b("filled_maker") = u("filled_maker") /\ b("cancelled_eom") = u("cancelled_eom")
    <2>1. \A c \in CounterNames : Bump(cs, name)[c] = cs[c] + (IF c = name THEN 1 ELSE 0)
      BY BumpValues
    <2> QED BY <2>1 DEF CounterNames
  <1>4. ASSUME NEW name \in RejectNames PROVE Reconciles(Bump(cs, name), n, r + 1, d)
    <2>1. name \in CounterNames
      BY DEF RejectNames, CounterNames
    <2> QED BY <1>2, <1>3, <2>1 DEF Reconciles, RejectNames
  <1>5. ASSUME NEW name \in {"filled_taker", "filled_maker"}
        PROVE  Reconciles(Bump(cs, name), n, r, d + 1) /\ Reconciles(Bump(cs, name), n, r, d)
    <2>1. name \in CounterNames
      BY DEF CounterNames
    <2> QED BY <1>2, <1>3, <2>1 DEF Reconciles
  <1>6. Reconciles(Bump(cs, "submitted"), n + 1, r, d)
    <2>1. "submitted" \in CounterNames
      BY DEF CounterNames
    <2> QED BY <1>2, <1>3, <2>1 DEF Reconciles
  <1>7. Reconciles(Bump(cs, "model_gate"), n, r, d)
    <2>1. "model_gate" \in CounterNames
      BY DEF CounterNames
    <2> QED BY <1>2, <1>3, <2>1 DEF Reconciles
  <1> QED BY <1>4, <1>5, <1>6, <1>7

\* The counters as they are.
Reconciled ==
  Reconciles(counters, Len(blotter), Cardinality(Fated("rejected")), Cardinality(Fated("filled")))

\* The invariant before and after the resolution.
LEMMA CountsAre ==
  ASSUME TypeOK
  PROVE  /\ Reconciled => CountsInv
         /\ CountsInv /\ phase # "resolved" => Reconciled
  <1>1. /\ Cardinality(Fated("rejected")) \in Nat /\ Cardinality(Fated("filled")) \in Nat
        /\ Cardinality(Fated("cancelled")) \in Nat
    BY FatedFinite
  <1>2. CountersReconcile <=>
          /\ counters["submitted"] = Len(blotter)
          /\ Cardinality(Fated("rejected")) = counters["no_cash"] + counters["no_liquidity"]
                                              + counters["no_inventory"] + counters["risk_gate"]
          /\ Cardinality(Fated("cancelled")) >= counters["cancelled_eom"]
          /\ counters["filled_taker"] + counters["filled_maker"] >= Cardinality(Fated("filled"))
    BY DEF CountersReconcile, Fated
  <1>3. Reconciled => CountsInv
    <2> SUFFICES ASSUME Reconciled PROVE CountsInv
      OBVIOUS
    <2>1. Cardinality(Fated("cancelled")) >= counters["cancelled_eom"]
      BY <1>1 DEF Reconciled, Reconciles
    <2> QED BY <1>2, <2>1 DEF Reconciled, Reconciles, CountsInv
  <1>4. CountsInv /\ phase # "resolved" => Reconciled
    BY <1>2 DEF Reconciled, Reconciles, CountsInv
  <1> QED BY <1>3, <1>4
\* What a step counts for the fate g of one order.
LEMMA CountsAddUp ==
  ASSUME TypeOK, Reconciled, NEW g \in Fates, Tallied(g), Len(blotter') = Len(blotter),
         \/ g = "filled" /\ \E name \in {"filled_taker", "filled_maker"} : counters' = Bump(counters, name)
         \/ g = "open" /\ counters' = Bump(counters, "filled_maker")
         \/ g = "rejected" /\ \E name \in RejectNames : counters' = Bump(counters, name)
         \/ g = "cancelled" /\ counters' = counters
  PROVE  Reconciled'
  <1> DEFINE n == Len(blotter)
             r == Cardinality(Fated("rejected"))
             d == Cardinality(Fated("filled"))
  <1>1. counters \in [CounterNames -> Nat] /\ n \in Nat /\ r \in Nat /\ d \in Nat
    BY ListTypes, FatedFinite DEF TypeOK
  <1>2. /\ Cardinality(Fated("rejected")') = r + (IF "rejected" = g THEN 1 ELSE 0)
        /\ Cardinality(Fated("filled")') = d + (IF "filled" = g THEN 1 ELSE 0)
    BY DEF Tallied, Fates
  <1>3. Reconciles(counters, n, r, d)
    BY DEF Reconciled
  <1>4. SUFFICES Reconciles(counters', n, Cardinality(Fated("rejected")'), Cardinality(Fated("filled")'))
    BY DEF Reconciled
  <1> HIDE DEF n, r, d
  <1>5. CASE g = "filled"
    <2>1. Cardinality(Fated("rejected")') = r /\ Cardinality(Fated("filled")') = d + 1
      BY <1>1, <1>2, <1>5
    <2> QED BY <1>1, <1>3, <1>5, <2>1, BumpReconciles
  <1>6. CASE g = "open"
    <2>1. Cardinality(Fated("rejected")') = r /\ Cardinality(Fated("filled")') = d
      BY <1>1, <1>2, <1>6
    <2> QED BY <1>1, <1>3, <1>6, <2>1, BumpReconciles
  <1>7. CASE g = "rejected"
    <2>1. Cardinality(Fated("rejected")') = r + 1 /\ Cardinality(Fated("filled")') = d
      BY <1>1, <1>2, <1>7
    <2> QED BY <1>1, <1>3, <1>7, <2>1, BumpReconciles
  <1>8. CASE g = "cancelled"
    <2>1. Cardinality(Fated("rejected")') = r /\ Cardinality(Fated("filled")') = d
      BY <1>1, <1>2, <1>8
    <2> QED BY <1>3, <1>8, <2>1
  <1> QED BY <1>5, <1>6, <1>7, <1>8 DEF Fates

\* MakerFill keeps the counts.
LEMMA MakerFillCounts ==
  ASSUME TypeOK, HomesInv, Reconciled, NEW k \in 1 .. Len(resting[book]), MakerFill(k)
  PROVE  Reconciled'
  <1> DEFINE o        == resting[book][k]
             e        == blotter[o.id]
             n        == FillShares(k)
             notional == n * NativePrice(o)
             fate     == IF n >= o.shares THEN "filled" ELSE "open"
             f        == [req |-> e.req, event |-> e.event, ts |-> e.ts,
                          filled |-> e.filled + n, paid |-> e.paid + notional, fate |-> fate]
  <1>1. o.id \in DOMAIN blotter /\ blotter[o.id].fate = "open"
    BY RestingEntry DEF RestsAs
  <1>2. blotter' = [blotter EXCEPT ![o.id] = f] /\ f.fate = fate
    BY DEF MakerFill, Filled
  <1>3. counters' = Bump(counters, "filled_maker")
    BY DEF MakerFill
  <1>4. fate \in {"filled", "open"} /\ fate \in Fates
    BY DEF Fates
  <1> HIDE DEF f, o, fate
  <1>5. Tallied(fate) /\ Len(blotter') = Len(blotter)
    BY <1>1, <1>2, FateTallied
  <1> QED BY <1>3, <1>4, <1>5, CountsAddUp

\* An order that is rejected or cancelled is counted as that.
LEMMA ClosedCounts ==
  ASSUME TypeOK, HomesInv, Reconciled, NEW k \in 1 .. Len(resting[book]), NEW fate \in Fates,
         blotter' = Closed(blotter, resting[book][k].id, fate),
         \/ fate = "rejected" /\ \E name \in RejectNames : counters' = Bump(counters, name)
         \/ fate = "cancelled" /\ counters' = counters
  PROVE  Reconciled'
  <1> DEFINE o == resting[book][k]
             e == blotter[o.id]
             c == [e EXCEPT !.fate = fate]
  <1>1. o.id \in DOMAIN blotter /\ e \in BlotterEntry /\ e.fate = "open"
    BY RestingEntry DEF RestsAs
  <1>2. c.fate = fate
    BY <1>1, ClosedEntry
  <1>3. blotter' = [blotter EXCEPT ![o.id] = c]
    BY DEF Closed
  <1> HIDE DEF c, o
  <1>4. Tallied(fate) /\ Len(blotter') = Len(blotter)
    BY <1>1, <1>2, <1>3, FateTallied
  <1> QED BY <1>4, CountsAddUp

\* MakerReject keeps the counts.
LEMMA MakerRejectCounts ==
  ASSUME TypeOK, HomesInv, Reconciled, NEW k \in 1 .. Len(resting[book]),
         MakerReject(k) \/ BreakerCancel(k)
  PROVE  Reconciled'
  <1>1. "rejected" \in Fates /\ "cancelled" \in Fates
    BY DEF Fates
  <1>2. CASE MakerReject(k)
    <2> DEFINE o       == resting[book][k]
               n       == FillShares(k)
               cost    == Scale * (n * NativePrice(o))
               verdict == Verdict(o.side, n, cost)
    <2>1. /\ verdict # "ok" /\ counters' = Bump(counters, verdict)
          /\ blotter' = Closed(blotter, o.id, "rejected")
      BY <1>2 DEF MakerReject, Rejected
    <2>2. verdict \in RejectNames
      <3> HIDE DEF o, n, cost
      <3> QED BY <2>1, RejectNamed
    <2> HIDE DEF verdict
    <2> QED BY <1>1, <2>1, <2>2, ClosedCounts
  <1>3. CASE BreakerCancel(k)
    <2>1. blotter' = Closed(blotter, resting[book][k].id, "cancelled") /\ counters' = counters
      BY <1>3 DEF BreakerCancel
    <2> QED BY <1>1, <2>1, ClosedCounts
  <1> QED BY <1>2, <1>3

\* ExecutePending keeps the counts.
LEMMA ExecutePendingCounts ==
  ASSUME TypeOK, HomesInv, Reconciled, NEW k \in 1 .. Len(pending_takers), ExecutePending(k)
  PROVE  Reconciled'
  <1> DEFINE p == pending_takers[k]
  <1>1. p \in PendingOrders /\ p \in ToSet(pending_takers)
    BY ListTypes, MemberOf
  <1>2. /\ p.id \in DOMAIN blotter /\ WaitsAs(p, blotter[p.id]) /\ EntryOK(blotter[p.id])
    BY <1>1 DEF HomesInv
  <1>3. p.req \in OrderReqs /\ blotter \in Seq(BlotterEntry)
    BY <1>1, ListTypes DEF PendingOrders
  <1>4. ApplyTaker(p.id, p.req, counters, blotter)
    BY DEF ExecutePending
  <1> HIDE DEF p
  <1>5. blotter[p.id].req = p.req /\ blotter[p.id].filled = 0 /\ blotter[p.id].fate = "open"
    BY <1>2 DEF WaitsAs
  <1>6. PICK e \in BlotterEntry : blotter' = [blotter EXCEPT ![p.id] = e] /\ Settled(e, counters)
    BY <1>2, <1>3, <1>4, <1>5, TakerEntry
  <1>7. Tallied(e.fate) /\ Len(blotter') = Len(blotter)
    BY <1>2, <1>5, <1>6, FateTallied
  <1>8. e.fate \in Fates
    BY DEF BlotterEntry
  <1> QED BY <1>6, <1>7, <1>8, CountsAddUp DEF Settled

\* Submit keeps the counts.
LEMMA SubmitCounts ==
  ASSUME TypeOK, HomesInv, Reconciled, NEW req \in Requests, Submit(req)
  PROVE  Reconciled'
  <1> DEFINE n  == Len(blotter)
             r  == Cardinality(Fated("rejected"))
             d  == Cardinality(Fated("filled"))
             cs == Bump(counters, "submitted")
  <1>1. PICK e \in BlotterEntry : SubmittedAs(e)
    BY SubmitEntry
  <1>2. blotter' = Append(blotter, e) /\ (Settled(e, cs) \/ (e.fate = "open" /\ counters' = cs))
    BY <1>1 DEF SubmittedAs
  <1>3. Tallied(e.fate) /\ Len(blotter') = n + 1
    BY <1>2, NewTallied
  <1>4. counters \in [CounterNames -> Nat] /\ n \in Nat /\ r \in Nat /\ d \in Nat
    BY ListTypes, FatedFinite DEF TypeOK
  <1>5. cs \in [CounterNames -> Nat]
    BY <1>4, BumpType DEF CounterNames
  <1>6. Reconciles(cs, n + 1, r, d)
    <2> HIDE DEF n, r, d
    <2>1. Reconciles(counters, n, r, d)
      BY DEF Reconciled, n, r, d
    <2> QED BY <1>4, <2>1, BumpReconciles
  <1>7. /\ Cardinality(Fated("rejected")') = r + (IF "rejected" = e.fate THEN 1 ELSE 0)
        /\ Cardinality(Fated("filled")') = d + (IF "filled" = e.fate THEN 1 ELSE 0)
    BY <1>3 DEF Tallied, Fates
  <1>8. SUFFICES Reconciles(counters', n + 1, Cardinality(Fated("rejected")'), Cardinality(Fated("filled")'))
    BY <1>3 DEF Reconciled
  <1>9. n + 1 \in Nat
    BY <1>4
  <1> HIDE DEF n, r, d, cs
  <1>10. CASE e.fate = "open" /\ counters' = cs
    <2>1. Cardinality(Fated("rejected")') = r /\ Cardinality(Fated("filled")') = d
      BY <1>4, <1>7, <1>10
    <2> QED BY <1>6, <1>10, <2>1
  <1>11. CASE e.fate = "filled" /\ counters' = Bump(cs, "filled_taker")
    <2>1. Cardinality(Fated("rejected")') = r /\ Cardinality(Fated("filled")') = d + 1
      BY <1>4, <1>7, <1>11
    <2> QED BY <1>4, <1>5, <1>6, <1>9, <1>11, <2>1, BumpReconciles
  <1>12. CASE e.fate = "rejected" /\ \E name \in RejectNames : counters' = Bump(cs, name)
    <2>1. Cardinality(Fated("rejected")') = r + 1 /\ Cardinality(Fated("filled")') = d
      BY <1>4, <1>7, <1>12
    <2> QED BY <1>4, <1>5, <1>6, <1>9, <1>12, <2>1, BumpReconciles
  <1> QED BY <1>2, <1>10, <1>11, <1>12 DEF Settled
\* The orders in a list.
Ids(s) == {s[k].id : k \in DOMAIN s}

\* There are as many of them as the list is long.
LEMMA IdsCount ==
  ASSUME NEW S, NEW s \in Seq(S), Distinct(s)
  PROVE  IsFiniteSet(Ids(s)) /\ Cardinality(Ids(s)) = Len(s)
  <1> DEFINE n == Len(s)
             f == [k \in 1 .. n |-> s[k].id]
  <1>1. n \in Nat /\ DOMAIN s = 1 .. n
    OBVIOUS
  <1>2. IsFiniteSet(1 .. n) /\ Cardinality(1 .. n) = n
    BY <1>1, FS_Interval
  <1>3. f \in Bijection(1 .. n, Ids(s))
    <2>1. f \in [1 .. n -> Ids(s)]
      BY <1>1 DEF Ids
    <2>2. \A a, b \in 1 .. n : f[a] = f[b] => a = b
      BY <1>1 DEF Distinct
    <2>3. \A t \in Ids(s) : \E k \in 1 .. n : f[k] = t
      BY <1>1 DEF Ids
    <2> HIDE DEF f
    <2>4. f \in Injection(1 .. n, Ids(s))
      BY <2>1, <2>2, Zenon DEF Injection, IsInjective
    <2>5. f \in Surjection(1 .. n, Ids(s))
      BY <2>1, <2>3, Zenon DEF Surjection
    <2> QED BY <2>4, <2>5, Zenon DEF Bijection
  <1> HIDE DEF n, f
  <1>4. ExistsBijection(1 .. n, Ids(s))
    BY <1>3, Zenon DEF ExistsBijection
  <1>5. IsFiniteSet(Ids(s)) /\ Cardinality(Ids(s)) = Cardinality(1 .. n)
    BY <1>2, <1>4, FS_Bijection
  <1> QED BY <1>2, <1>5 DEF n

\* Two disjoint finite sets, counted.
LEMMA DisjointCount ==
  ASSUME NEW S, NEW T, IsFiniteSet(S), IsFiniteSet(T), S \cap T = {}
  PROVE  IsFiniteSet(S \cup T) /\ Cardinality(S \cup T) = Cardinality(S) + Cardinality(T)
  <1>1. /\ IsFiniteSet(S \cup T)
        /\ Cardinality(S \cup T) = Cardinality(S) + Cardinality(T) - Cardinality(S \cap T)
    BY FS_Union
  <1>2. Cardinality(S \cap T) = 0
    BY FS_EmptySet
  <1>3. Cardinality(S) \in Nat /\ Cardinality(T) \in Nat
    BY FS_CardinalityType
  <1> QED BY <1>1, <1>2, <1>3

\* The orders that are where they are when the run is resolved, and what
\* becomes of them.
LEMMA ResolveFates ==
  ASSUME TypeOK, HomesInv, NEW winner \in Tokens, Resolve(winner)
  PROVE  LET waits == Ids(pending_takers)
             rests == Ids(resting["bid"]) \cup Ids(resting["ask"])
         IN  /\ waits \cap Fated("rejected") = {}
             /\ Fated("rejected")' = Fated("rejected") \cup waits
             /\ Fated("filled")' = Fated("filled")
             /\ rests \subseteq Fated("cancelled")'
             /\ Ids(resting["bid"]) \cap Ids(resting["ask"]) = {}
  <1> DEFINE waits == Ids(pending_takers)
             waiting(id) == \E k \in DOMAIN pending_takers : pending_takers[k].id = id
             fate(id) == IF waiting(id) THEN "rejected" ELSE "cancelled"
             g(id) == IF blotter[id].fate # "open" THEN blotter[id]
                      ELSE [blotter[id] EXCEPT !.fate = fate(id)]
  <1>1. blotter' = [id \in DOMAIN blotter |-> g(id)]
    BY DEF Resolve
  <1>2. \A id : waiting(id) <=> id \in waits
    BY DEF Ids
  <1> HIDE DEF waiting
  <1>3. \A id : fate(id) = IF id \in waits THEN "rejected" ELSE "cancelled"
    BY <1>2
  <1> HIDE DEF waits, fate
  <1>4. ASSUME NEW id \in DOMAIN blotter
        PROVE  blotter'[id].fate = IF blotter[id].fate # "open" THEN blotter[id].fate ELSE fate(id)
    <2>1. blotter[id] \in BlotterEntry /\ fate(id) \in Fates
      BY <1>3, ListTypes DEF Fates
    <2>2. [blotter[id] EXCEPT !.fate = fate(id)].fate = fate(id)
      BY <2>1, ClosedEntry
    <2> QED BY <1>1, <2>2
  <1>5. DOMAIN blotter' = DOMAIN blotter
    BY <1>1
  <1>6. ASSUME NEW id \in waits PROVE id \in DOMAIN blotter /\ blotter[id].fate = "open"
    <2>1. PICK p \in ToSet(pending_takers) : p.id = id
      BY <1>6 DEF waits, Ids, ToSet
    <2> QED BY <2>1 DEF HomesInv, WaitsAs
  <1>7. ASSUME NEW b \in Lists, NEW id \in Ids(resting[b])
        PROVE  /\ id \in DOMAIN blotter /\ blotter[id].fate = "open"
               /\ b = ListOf(blotter[id].req.side) /\ id \notin waits
    <2>1. PICK o \in ToSet(resting[b]) : o.id = id
      BY <1>7 DEF Ids, ToSet
    <2>2. id \notin waits
      <3>1. \A p \in ToSet(pending_takers) : p.id # id
        BY <2>1 DEF HomesInv
      <3> QED BY <3>1 DEF waits, Ids, ToSet
    <2> QED BY <2>1, <2>2 DEF HomesInv, RestsAs
  <1> HIDE DEF g
  <1>8. waits \cap Fated("rejected") = {}
    BY <1>6 DEF Fated
  <1>9. Fated("rejected")' = Fated("rejected") \cup waits
    <2>1. \A id \in DOMAIN blotter : blotter'[id].fate = "rejected" <=> id \in Fated("rejected") \cup waits
      BY <1>3, <1>4, <1>6 DEF Fated
    <2>2. Fated("rejected") \cup waits \subseteq DOMAIN blotter
      BY <1>6 DEF Fated
    <2> QED BY <1>5, <2>1, <2>2 DEF Fated
  <1>10. Fated("filled")' = Fated("filled")
    <2>1. \A id \in DOMAIN blotter : blotter'[id].fate = "filled" <=> blotter[id].fate = "filled"
      BY <1>3, <1>4
    <2> QED BY <1>5, <2>1 DEF Fated
  <1>11. \A b \in Lists : Ids(resting[b]) \subseteq Fated("cancelled")'
    BY <1>3, <1>4, <1>5, <1>7 DEF Fated
  <1>12. Ids(resting["bid"]) \cup Ids(resting["ask"]) \subseteq Fated("cancelled")'
    BY <1>11 DEF Lists
  <1>13. Ids(resting["bid"]) \cap Ids(resting["ask"]) = {}
    <2>1. "bid" \in Lists /\ "ask" \in Lists
      BY DEF Lists
    <2> QED BY <1>7, <2>1
  <1> QED BY <1>8, <1>9, <1>10, <1>12, <1>13 DEF waits

\* The cancelled orders can be counted.
LEMMA CancelledFinite ==
  TypeOK => IsFiniteSet(Fated("cancelled")) /\ Cardinality(Fated("cancelled")) \in Nat
  BY FatedFinite

\* The same of the next state.
LEMMA CancelledFiniteNext ==
  TypeOK' => (IsFiniteSet(Fated("cancelled")) /\ Cardinality(Fated("cancelled")) \in Nat)'
  BY CancelledFinite, PTL

\* Resolve keeps the counts.
LEMMA ResolveCounts ==
  ASSUME TypeOK, TypeOK', HomesInv, Reconciled, NEW winner \in Tokens, Resolve(winner)
  PROVE  CountsInv'
  <1> DEFINE w == Len(pending_takers)
             x == Len(resting["bid"])
             y == Len(resting["ask"])
             r == Cardinality(Fated("rejected"))
             d == Cardinality(Fated("filled"))
             rests == Ids(resting["bid"]) \cup Ids(resting["ask"])
  <1>1. /\ w \in Nat /\ x \in Nat /\ y \in Nat /\ counters \in [CounterNames -> Nat]
        /\ IsFiniteSet(Ids(pending_takers)) /\ Cardinality(Ids(pending_takers)) = w
        /\ IsFiniteSet(Ids(resting["bid"])) /\ Cardinality(Ids(resting["bid"])) = x
        /\ IsFiniteSet(Ids(resting["ask"])) /\ Cardinality(Ids(resting["ask"])) = y
    <2>1. /\ pending_takers \in Seq(PendingOrders) /\ resting["bid"] \in Seq(RestingOrders)
          /\ resting["ask"] \in Seq(RestingOrders) /\ counters \in [CounterNames -> Nat]
      BY ListTypes DEF Lists, TypeOK
    <2>2. Distinct(pending_takers) /\ Distinct(resting["bid"]) /\ Distinct(resting["ask"])
      BY DEF HomesInv, Lists
    <2> QED BY <2>1, <2>2, IdsCount
  <1>2. /\ Ids(pending_takers) \cap Fated("rejected") = {}
        /\ Fated("rejected")' = Fated("rejected") \cup Ids(pending_takers)
        /\ Fated("filled")' = Fated("filled")
        /\ rests \subseteq Fated("cancelled")'
        /\ Ids(resting["bid"]) \cap Ids(resting["ask"]) = {}
    BY ResolveFates
  <1>3. Cardinality(Fated("rejected")') = r + w /\ r \in Nat /\ d \in Nat
    <2>1. IsFiniteSet(Fated("rejected")) /\ r \in Nat /\ d \in Nat
      BY FatedFinite
    <2> QED BY <1>1, <1>2, <2>1, DisjointCount
  <1>4. Cardinality(Fated("cancelled")') >= x + y
    <2>1. IsFiniteSet(rests) /\ Cardinality(rests) = x + y
      BY <1>1, <1>2, DisjointCount
    <2>2. IsFiniteSet(Fated("cancelled")') /\ Cardinality(Fated("cancelled")') \in Nat
      BY CancelledFiniteNext
    <2> HIDE DEF rests
    <2>3. Cardinality(rests) <= Cardinality(Fated("cancelled")')
      BY <1>2, <2>2, FS_Subset
    <2> QED BY <1>1, <2>1, <2>2, <2>3
  <1>5. /\ counters'["submitted"] = counters["submitted"]
        /\ counters'["no_cash"] = counters["no_cash"]
        /\ counters'["no_liquidity"] = counters["no_liquidity"] + w
        /\ counters'["no_inventory"] = counters["no_inventory"]
        /\ counters'["risk_gate"] = counters["risk_gate"]
        /\ counters'["filled_taker"] = counters["filled_taker"]
        /\ counters'["filled_maker"] = counters["filled_maker"]
        /\ counters'["cancelled_eom"] = x + y
    <2> DEFINE u == [counters EXCEPT !["no_liquidity"] = @ + w]
    <2>1. counters' = [u EXCEPT !["cancelled_eom"] = x + y]
      BY DEF Resolve
    <2> HIDE DEF x, y, w
    <2>2. DOMAIN counters = CounterNames /\ DOMAIN u = CounterNames
      BY <1>1
    <2>3. \A c \in CounterNames : u[c] = IF c = "no_liquidity" THEN counters[c] + w ELSE counters[c]
      BY <2>2
    <2> HIDE DEF u
    <2>4. \A c \in CounterNames : counters'[c] = IF c = "cancelled_eom" THEN x + y ELSE u[c]
      BY <2>1, <2>2
    <2> QED BY <2>3, <2>4 DEF CounterNames
  <1>6. Len(blotter') = Len(blotter) /\ phase' = "resolved"
    BY ResolveEntries DEF Resolve, Stage
  <1>7. Reconciles(counters, Len(blotter), r, d)
    BY DEF Reconciled
  <1> HIDE DEF r, d, x, y, w
  <1>8. counters'["submitted"] = Len(blotter')
    BY <1>5, <1>6, <1>7 DEF Reconciles
  <1>9. Cardinality(Fated("rejected")') = counters'["no_cash"] + counters'["no_liquidity"]
                                          + counters'["no_inventory"] + counters'["risk_gate"]
    <2>1. /\ counters["no_cash"] \in Nat /\ counters["no_liquidity"] \in Nat
          /\ counters["no_inventory"] \in Nat /\ counters["risk_gate"] \in Nat
      BY <1>1 DEF CounterNames
    <2>2. r = counters["no_cash"] + counters["no_liquidity"] + counters["no_inventory"]
              + counters["risk_gate"]
      BY <1>7 DEF Reconciles
    <2> QED BY <1>1, <1>3, <1>5, <2>1, <2>2
  <1>10. counters'["filled_taker"] + counters'["filled_maker"] >= Cardinality(Fated("filled")')
    BY <1>2, <1>5, <1>7 DEF Reconciles, d
  <1>11. Cardinality(Fated("cancelled")') >= counters'["cancelled_eom"]
    BY <1>4, <1>5
  <1>12. CountersReconcile'
    BY <1>8, <1>9, <1>10, <1>11 DEF CountersReconcile, Fated
  <1> QED BY <1>6, <1>12 DEF CountsInv
\* A step that closes no order keeps the counts.
LEMMA QuietCounts ==
  ASSUME Reconciled, UNCHANGED <<counters, blotter>> PROVE Reconciled'
  BY DEF Reconciled, Reconciles, Fated

\* A request turned away by the model gate is no order and keeps the counts.
LEMMA ModelGateCounts ==
  ASSUME TypeOK, Reconciled, NEW req \in Requests, ModelGateReject(req)
  PROVE  Reconciled'
  <1> DEFINE n == Len(blotter)
             r == Cardinality(Fated("rejected"))
             d == Cardinality(Fated("filled"))
  <1>1. counters \in [CounterNames -> Nat] /\ n \in Nat /\ r \in Nat /\ d \in Nat
    BY ListTypes, FatedFinite DEF TypeOK
  <1>2. counters' = Bump(counters, "model_gate") /\ blotter' = blotter
    BY DEF ModelGateReject
  <1>3. Reconciles(counters, n, r, d)
    BY DEF Reconciled
  <1>4. Reconciles(counters', n, r, d)
    <2> HIDE DEF n, r, d
    <2> QED BY <1>1, <1>2, <1>3, BumpReconciles
  <1>5. Len(blotter') = n /\ Fated("rejected")' = Fated("rejected") /\ Fated("filled")' = Fated("filled")
    BY <1>2 DEF Fated
  <1> QED BY <1>4, <1>5 DEF Reconciled

\* At the start nothing is counted.
LEMMA InitCounts == Init => CountsInv
  <1> SUFFICES ASSUME Init PROVE CountsInv
    OBVIOUS
  <1>1. blotter = <<>> /\ counters = [c \in CounterNames |-> 0]
    BY DEF Init
  <1>2. \A f : Fated(f) = {}
    BY <1>1 DEF Fated
  <1>3. \A f : Cardinality(Fated(f)) = 0
    BY <1>2, FS_EmptySet
  <1>4. Reconciled
    BY <1>1, <1>3 DEF Reconciled, Reconciles, CounterNames
  <1> QED BY <1>4, CountsAre, InitType

\* Counts that reconcile after a step give the invariant.
LEMMA CountsAreNext == TypeOK' /\ Reconciled' => CountsInv'
  <1>1. TypeOK /\ Reconciled => CountsInv
    BY CountsAre
  <1> QED BY <1>1, PTL

\* Every step keeps the counts.
LEMMA NextCounts == TypeOK /\ TypeOK' /\ HomesInv /\ CountsInv /\ [Next]_vars => CountsInv'
  <1> SUFFICES ASSUME TypeOK, TypeOK', HomesInv, CountsInv, [Next]_vars PROVE CountsInv'
    OBVIOUS
  <1>0. ASSUME Reconciled' PROVE CountsInv'
    BY <1>0, CountsAreNext
  <1>1. CASE UNCHANGED vars
    BY <1>1 DEF vars, control, CountsInv, CountersReconcile
  <1>2. CASE Next /\ phase = "resolved"
    <2>1. Terminated
      BY <1>2 DEF Next, BeginEvent, MakerFill, MakerReject, BreakerCancel, NextPrint, EndTrades,
         EndCross, ExecutePending, EndTakers, EndBreaker, ModelGateReject, Submit, EndEvent, Resolve
    <2> QED BY <1>1, <2>1 DEF Terminated
  <1>3. CASE Next /\ phase # "resolved"
    <2>1. Reconciled
      BY <1>3, CountsAre
    <2>2. CASE \E ts \in OpenTs .. CloseTs, snapshot \in Books : BeginEvent(ts, snapshot)
      BY <1>0, <2>1, <2>2, QuietCounts DEF BeginEvent
    <2>3. ASSUME NEW k \in 1 .. Len(resting[book]), MakerFill(k) PROVE CountsInv'
      BY <1>0, <2>1, <2>3, MakerFillCounts
    <2>4. ASSUME NEW k \in 1 .. Len(resting[book]), MakerReject(k) \/ BreakerCancel(k) PROVE CountsInv'
      BY <1>0, <2>1, <2>4, MakerRejectCounts
    <2>5. CASE NextPrint \/ EndTrades \/ EndCross \/ EndTakers \/ EndBreaker \/ EndEvent
      BY <1>0, <2>1, <2>5, QuietCounts
         DEF NextPrint, EndTrades, EndCross, EndTakers, EndBreaker, EndEvent
    <2>6. ASSUME NEW k \in 1 .. Len(pending_takers), ExecutePending(k) PROVE CountsInv'
      BY <1>0, <2>1, <2>6, ExecutePendingCounts
    <2>7. ASSUME NEW req \in Requests, ModelGateReject(req) PROVE CountsInv'
      BY <1>0, <2>1, <2>7, ModelGateCounts
    <2>8. ASSUME NEW req \in Requests, Submit(req) PROVE CountsInv'
      BY <1>0, <2>1, <2>8, SubmitCounts
    <2>9. ASSUME NEW winner \in Tokens, Resolve(winner) PROVE CountsInv'
      BY <2>1, <2>9, ResolveCounts
    <2>10. CASE Terminated
      BY <1>3, <2>10 DEF Terminated
    <2> QED BY <1>3, <2>2, <2>3, <2>4, <2>5, <2>6, <2>7, <2>8, <2>9, <2>10 DEF Next
  <1> QED BY <1>1, <1>2, <1>3

\* The report's counters account for every order once, whatever became of it
\* and whichever of the paths that reject an order it took.
THEOREM CountersAddUp == Spec => []CountersReconcile
  <1>1. TypeOK /\ TypeOK' /\ HomesInv /\ CountsInv /\ [Next]_vars => CountsInv'
    BY NextCounts
  <1>2. CountsInv => CountersReconcile
    BY DEF CountsInv
  <1> QED BY <1>1, <1>2, InitCounts, HomesHold, PTL DEF Spec
-----------------------------------------------------------------------------
(* What the rolling window of outlays adds up to.                          *)

Weights(win) == [i \in DOMAIN win |-> win[i].usdc]

\* The entries of the rolling window and their weights.
LEMMA OutlayTypes ==
  ASSUME NEW win \in Seq(Outlays)
  PROVE  /\ Len(win) \in Nat /\ DOMAIN win = 1 .. Len(win) /\ IsFiniteSet(DOMAIN win)
         /\ \A i \in DOMAIN win : win[i] \in Outlays /\ win[i].usdc \in Nat
         /\ \A i \in DOMAIN win : Weights(win)[i] = win[i].usdc /\ Weights(win)[i] \in Nat
  <1>1. Len(win) \in Nat /\ DOMAIN win = 1 .. Len(win)
    OBVIOUS
  <1>2. \A i \in DOMAIN win : win[i] \in Outlays
    OBVIOUS
  <1>3. \A i \in DOMAIN win : win[i].usdc \in Nat
    BY <1>2 DEF Outlays
  <1>4. IsFiniteSet(DOMAIN win)
    BY <1>1, FS_Interval
  <1> QED BY <1>1, <1>2, <1>3, <1>4 DEF Weights

\* daily_exposure_usdc is a sum over the window.
LEMMA WindowSum ==
  ASSUME NEW p, p.window \in Seq(Outlays)
  PROVE  \E it : /\ IsFold(it, SUBSET DOMAIN p.window, Weights(p.window))
                 /\ DailyExposure(p) = it[DOMAIN p.window]
  <1> DEFINE win == p.window
             D == DOMAIN win
             Sums(it) == it = [s \in SUBSET D |->
                IF s = {} THEN 0
                ELSE win[CHOOSE x \in s : TRUE].usdc + it[s \ {CHOOSE x \in s : TRUE}]]
  <1>0. IsFiniteSet(D) /\ \A i \in D : Weights(win)[i] = win[i].usdc
    BY OutlayTypes
  <1>1. DailyExposure(p) = (CHOOSE it : Sums(it))[D]
    BY DEF DailyExposure, FoldSeq, FoldFunction, FoldFunctionOnSet, MapThenFoldSet
  <1> HIDE DEF win, D
  <1>2. ASSUME NEW it PROVE Sums(it) <=> IsFold(it, SUBSET D, Weights(win))
    <2>1. ASSUME NEW s \in SUBSET D, s # {} PROVE FirstOf(s) \in D
      BY <2>1 DEF FirstOf
    <2>2. \A s \in SUBSET D : s # {} => Weights(win)[FirstOf(s)] = win[CHOOSE x \in s : TRUE].usdc
      BY <1>0, <2>1 DEF FirstOf
    <2> QED BY <2>2 DEF IsFold, FirstOf
  <1>3. \E it : Sums(it)
    <2>1. \E it : IsFold(it, SUBSET D, Weights(win))
      BY <1>0, FoldExists
    <2> HIDE DEF Sums
    <2> QED BY <1>2, <2>1
  <1> DEFINE sums == CHOOSE it : Sums(it)
  <1>4. Sums(sums)
    <2> HIDE DEF Sums
    <2> QED BY <1>3
  <1> HIDE DEF Sums, sums
  <1>5. IsFold(sums, SUBSET D, Weights(win))
    BY <1>2, <1>4
  <1> QED BY <1>1, <1>5 DEF win, D, sums

\* record_outlay pushes an outlay on the window.
LEMMA WindowAdds ==
  ASSUME NEW p, NEW q, NEW e \in Outlays, p.window \in Seq(Outlays), q.window = Append(p.window, e)
  PROVE  /\ q.window \in Seq(Outlays)
         /\ DailyExposure(p) \in Nat /\ DailyExposure(q) = DailyExposure(p) + e.usdc
  <1> DEFINE u == p.window
             v == q.window
             n == Len(u)
             h == [i \in 1 .. n |-> i]
  <1>1. /\ v \in Seq(Outlays) /\ n \in Nat /\ DOMAIN u = 1 .. n /\ DOMAIN v = 1 .. n + 1
        /\ v[n + 1] = e /\ \A i \in 1 .. n : v[i] = u[i]
    OBVIOUS
  <1>2. PICK it : IsFold(it, SUBSET DOMAIN u, Weights(u)) /\ DailyExposure(p) = it[DOMAIN u]
    BY WindowSum
  <1>3. PICK jt : IsFold(jt, SUBSET DOMAIN v, Weights(v)) /\ DailyExposure(q) = jt[DOMAIN v]
    BY <1>1, WindowSum
  <1>4. /\ IsFiniteSet(DOMAIN u) /\ \A i \in DOMAIN u : Weights(u)[i] = u[i].usdc /\ Weights(u)[i] \in Nat
        /\ IsFiniteSet(DOMAIN v) /\ \A i \in DOMAIN v : Weights(v)[i] = v[i].usdc /\ Weights(v)[i] \in Nat
    BY <1>1, OutlayTypes
  <1> HIDE DEF u, v, n
  <1>5. SumsUp(it, DOMAIN u, Weights(u)) /\ \A s \in SUBSET DOMAIN u : it[s] \in Nat
    BY ONLY <1>2, <1>4, AnyFirst, PartSums
  <1>6. SumsUp(jt, DOMAIN v, Weights(v))
    BY ONLY <1>3, <1>4, AnyFirst
  <1>7. /\ h \in [DOMAIN u -> DOMAIN v] /\ \A i, k \in DOMAIN u : i # k => h[i] # h[k]
        /\ \A i \in DOMAIN u : Weights(u)[i] = Weights(v)[h[i]] /\ h[i] = i
    <2>1. \A i \in 1 .. n : i \in 1 .. n + 1
      BY <1>1
    <2> QED BY <1>1, <1>4, <2>1
  <1>8. ImageOf(h, DOMAIN u) = 1 .. n
    BY <1>1, <1>7 DEF ImageOf
  <1> HIDE DEF h
  <1>9. it[DOMAIN u] = jt[1 .. n]
    <2>1. Embeds(h, DOMAIN u, Weights(u), DOMAIN v, Weights(v))
      BY <1>7 DEF Embeds
    <2> QED BY ONLY <1>4, <1>5, <1>6, <1>8, <2>1, SameSum
  <1>10. jt[1 .. n + 1] = Weights(v)[n + 1] + jt[(1 .. n + 1) \ {n + 1}]
    <2>1. n + 1 \in 1 .. n + 1 /\ DOMAIN v \in SUBSET DOMAIN v
      BY <1>1
    <2> QED BY <1>1, <1>6, <2>1 DEF SumsUp
  <1>11. (1 .. n + 1) \ {n + 1} = 1 .. n
    BY <1>1
  <1>12. Weights(v)[n + 1] = e.usdc /\ n + 1 \in 1 .. n + 1
    <2>1. n + 1 \in 1 .. n + 1
      BY <1>1
    <2> QED BY <1>1, <1>4, <2>1
  <1>13. DailyExposure(p) \in Nat /\ e.usdc \in Nat
    <2>1. DOMAIN u \in SUBSET DOMAIN u
      OBVIOUS
    <2> QED BY <1>2, <1>5, <2>1 DEF Outlays
  <1>14. DailyExposure(q) = e.usdc + DailyExposure(p)
    BY ONLY <1>1, <1>2, <1>3, <1>9, <1>10, <1>11, <1>12
  <1>15. DailyExposure(q) = DailyExposure(p) + e.usdc
    BY ONLY <1>13, <1>14
  <1> QED BY <1>1, <1>13, <1>15 DEF v

\* rolling_window.retain only takes outlays off the sum.
LEMMA WindowForgets ==
  ASSUME NEW p, NEW q, NEW cutoff, p.window \in Seq(Outlays), q.window = Retain(p.window, cutoff)
  PROVE  q.window \in Seq(Outlays) /\ DailyExposure(q) <= DailyExposure(p)
  <1> DEFINE u == q.window
             v == p.window
             K == {k \in 1 .. Len(v) : v[k].ts >= cutoff}
             Takes(f) == f = [k \in 0 .. Len(v) |->
                           IF k = 0 THEN <<>>
                           ELSE IF v[k].ts >= cutoff THEN Append(f[k - 1], v[k]) ELSE f[k - 1]]
             kept == CHOOSE f : Takes(f)
  <1>1. u = kept[Len(v)]
    BY DEF Retain, Filter
  <1>2. v \in Seq(Outlays) /\ Len(v) \in Nat /\ DOMAIN v = 1 .. Len(v)
    OBVIOUS
  <1> HIDE DEF u, v
  <1>3. ASSUME NEW f
        PROVE  Takes(f) <=> IsFilter(f, v, K, Len(v))
    <2>1. \A k \in 0 .. Len(v) :
            (IF k = 0 THEN <<>> ELSE IF v[k].ts >= cutoff THEN Append(f[k - 1], v[k]) ELSE f[k - 1])
            = (IF k = 0 THEN <<>> ELSE IF k \in K THEN Append(f[k - 1], v[k]) ELSE f[k - 1])
      BY <1>2
    <2> QED BY <2>1 DEF IsFilter
  <1>4. \E f : Takes(f)
    <2>1. \E f : IsFilter(f, v, K, Len(v))
      <3> HIDE DEF K
      <3> QED BY <1>2, FilterExists
    <2> HIDE DEF Takes, K
    <2> QED BY <1>3, <2>1
  <1>5. Takes(kept)
    <2> HIDE DEF Takes
    <2> QED BY <1>4
  <1> HIDE DEF kept, Takes, K
  <1>6. IsFilter(kept, v, K, Len(v))
    BY <1>3, <1>5
  <1>7. u \in Seq(Outlays) /\ \E h : Picks(h, u, v, K, Len(v))
    BY <1>1, <1>2, <1>6, FilterPicks
  <1>8. PICK h : Picks(h, u, v, K, Len(v))
    BY <1>7
  <1>9. PICK it : IsFold(it, SUBSET DOMAIN u, Weights(u)) /\ DailyExposure(q) = it[DOMAIN u]
    BY <1>7, WindowSum DEF u
  <1>10. PICK jt : IsFold(jt, SUBSET DOMAIN v, Weights(v)) /\ DailyExposure(p) = jt[DOMAIN v]
    BY <1>2, WindowSum DEF v
  <1>11. /\ Len(u) \in Nat /\ DOMAIN u = 1 .. Len(u)
         /\ IsFiniteSet(DOMAIN u) /\ \A i \in DOMAIN u : Weights(u)[i] = u[i].usdc /\ Weights(u)[i] \in Nat
         /\ IsFiniteSet(DOMAIN v) /\ \A i \in DOMAIN v : Weights(v)[i] = v[i].usdc /\ Weights(v)[i] \in Nat
    BY <1>2, <1>7, OutlayTypes
  <1>12. SumsUp(it, DOMAIN u, Weights(u))
    BY ONLY <1>9, <1>11, AnyFirst
  <1>13. SumsUp(jt, DOMAIN v, Weights(v)) /\ \A s \in SUBSET DOMAIN v : jt[s] <= jt[DOMAIN v]
    BY ONLY <1>10, <1>11, AnyFirst, PartIsLess
  <1>14. /\ h \in [DOMAIN u -> DOMAIN v] /\ \A i, k \in DOMAIN u : i < k => h[i] < h[k]
         /\ \A i \in DOMAIN u : u[i] = v[h[i]] /\ h[i] \in DOMAIN v
    BY <1>2, <1>8, <1>11 DEF Picks
  <1>15. /\ \A i \in DOMAIN u : Weights(u)[i] = Weights(v)[h[i]]
         /\ \A i, k \in DOMAIN u : i # k => h[i] # h[k]
    <2>1. \A i \in DOMAIN u : Weights(u)[i] = Weights(v)[h[i]]
      BY <1>11, <1>14
    <2>2. ASSUME NEW i \in DOMAIN u, NEW k \in DOMAIN u, i # k PROVE h[i] # h[k]
      <3>1. i \in Nat /\ k \in Nat
        BY <1>11
      <3>2. h[i] \in Nat /\ h[k] \in Nat
        BY <1>2, <1>14
      <3>3. i < k \/ k < i
        BY <2>2, <3>1
      <3>4. h[i] < h[k] \/ h[k] < h[i]
        BY <1>14, <3>3
      <3> QED BY <3>2, <3>4
    <2> QED BY <2>1, <2>2
  <1>16. it[DOMAIN u] = jt[ImageOf(h, DOMAIN u)]
    <2>1. Embeds(h, DOMAIN u, Weights(u), DOMAIN v, Weights(v))
      BY <1>14, <1>15 DEF Embeds
    <2> QED BY ONLY <1>11, <1>12, <1>13, <2>1, SameSum
  <1>17. ImageOf(h, DOMAIN u) \in SUBSET DOMAIN v
    BY <1>14 DEF ImageOf
  <1> QED BY <1>7, <1>9, <1>10, <1>13, <1>16, <1>17 DEF u
-----------------------------------------------------------------------------
(* The caps on what is laid out.                                           *)

\* The caps, with what they rest on: outlays have types, and a fill in the
\* trades stage has a print.
CapsInv ==
  /\ portfolio.window \in Seq(Outlays)
  /\ ExposureCapped
  /\ remaining > 0 => trade_cursor > 0

\* A purchase of usdc that the gate was asked about at cost or more.
Opens(ts, usdc, cost) ==
  /\ usdc <= cost /\ CanOpen(portfolio, MarketId, cost)
  /\ portfolio' = RecordOutlay(portfolio, MarketId, ts, usdc)

\* The three ways a step may leave the portfolio.
PortfolioMoves ==
  \/ portfolio' = portfolio
  \/ \E equity \in Int : portfolio' = Mark(portfolio, equity)
  \/ \E ts \in Nat, usdc \in Nat, cost \in Nat : Opens(ts, usdc, cost)

\* The daily exposure depends on the window only.
LEMMA SameWindow ==
  ASSUME NEW p, NEW q, q.window = p.window
  PROVE  DailyExposure(q) = DailyExposure(p)
  BY DEF DailyExposure

\* mark leaves the window alone.
LEMMA MarkWindow ==
  ASSUME NEW p, Shaped(p), NEW equity \in Int
  PROVE  Mark(p, equity).window = p.window
  <1> DEFINE q == [p EXCEPT !.peak = IF equity > @ THEN equity ELSE @]
  <1>1. q = [peak |-> IF equity > p.peak THEN equity ELSE p.peak, window |-> p.window,
             outlay |-> p.outlay, halt |-> p.halt]
    BY DEF Shaped
  <1>2. q.window = p.window /\ Halt(q, "max_drawdown").window = p.window
    BY <1>1 DEF Halt
  <1>3. Mark(p, equity) \in {q, Halt(q, "max_drawdown")}
    BY DEF Mark
  <1> QED BY <1>2, <1>3

\* record_outlay adds the outlay and may forget older ones: the sum grows by
\* the outlay at most.
LEMMA OutlayWindow ==
  ASSUME NEW p, Shaped(p), p.window \in Seq(Outlays), NEW m \in Markets, NEW ts \in Nat, NEW usdc \in Nat
  PROVE  LET r == RecordOutlay(p, m, ts, usdc)
         IN  /\ r.window \in Seq(Outlays)
             /\ DailyExposure(p) \in Nat /\ DailyExposure(r) <= DailyExposure(p) + usdc
  <1> DEFINE e == [ts |-> ts, usdc |-> usdc]
             pushed == [window |-> Append(p.window, e)]
             w == Retain(Append(p.window, e), ts - Day)
             o == [p.outlay EXCEPT ![m] = @ + usdc]
             q == [peak |-> p.peak, window |-> w, outlay |-> o, halt |-> p.halt]
             r == RecordOutlay(p, m, ts, usdc)
  <1>1. e \in Outlays /\ e.usdc = usdc
    BY DEF Outlays
  <1>2. pushed.window = Append(p.window, e) /\ q.window = Retain(pushed.window, ts - Day)
    OBVIOUS
  <1>3. r \in {q, Halt(q, "max_daily_exposure")}
    BY DEF RecordOutlay
  <1>4. Halt(q, "max_daily_exposure").window = q.window
    BY DEF Halt
  <1> HIDE DEF e, pushed, q, w, o, r
  <1>5. /\ pushed.window \in Seq(Outlays)
        /\ DailyExposure(p) \in Nat /\ DailyExposure(pushed) = DailyExposure(p) + usdc
    BY <1>1, <1>2, WindowAdds
  <1>6. q.window \in Seq(Outlays) /\ DailyExposure(q) <= DailyExposure(pushed)
    BY <1>2, <1>5, WindowForgets
  <1>7. r.window = q.window
    BY <1>3, <1>4
  <1>8. DailyExposure(r) = DailyExposure(q)
    BY <1>7, SameWindow
  <1> QED BY <1>5, <1>6, <1>7, <1>8 DEF r

\* Each of the three ways keeps the caps.
LEMMA CapsKept ==
  ASSUME TypeOK, CapsInv, PortfolioMoves
  PROVE  portfolio'.window \in Seq(Outlays) /\ ExposureCapped'
  <1>0. /\ Shaped(portfolio) /\ portfolio.window \in Seq(Outlays) /\ MarketId \in Markets
        /\ portfolio.outlay \in [Markets -> Nat]
        /\ portfolio.outlay[MarketId] <= MaxPerMarketExposure /\ DailyExposure(portfolio) <= MaxDailyExposure
        /\ MaxPerMarketExposure \in Nat /\ MaxDailyExposure \in Nat
    BY RunnerAssumptions, RiskLimits DEF TypeOK, Shaped, CapsInv, ExposureCapped, MarketExposure
  <1>1. CASE portfolio' = portfolio
    BY <1>1 DEF CapsInv, ExposureCapped, MarketExposure
  <1>2. ASSUME NEW equity \in Int, portfolio' = Mark(portfolio, equity)
        PROVE  portfolio'.window \in Seq(Outlays) /\ ExposureCapped'
    <2>1. portfolio'.window = portfolio.window /\ portfolio'.outlay = portfolio.outlay
      BY <1>0, <1>2, MarkWindow, MarkKeeps
    <2> QED BY <1>0, <2>1, SameWindow DEF ExposureCapped, MarketExposure
  <1>3. ASSUME NEW ts \in Nat, NEW usdc \in Nat, NEW cost \in Nat, Opens(ts, usdc, cost)
        PROVE  portfolio'.window \in Seq(Outlays) /\ ExposureCapped'
    <2>1. portfolio' = RecordOutlay(portfolio, MarketId, ts, usdc) /\ usdc <= cost
      BY <1>3 DEF Opens
    <2>2. DailyExposure(portfolio) + cost <= MaxDailyExposure
          /\ portfolio.outlay[MarketId] + cost <= MaxPerMarketExposure
      BY <1>3 DEF Opens, CanOpen, MarketExposure
    <2>3. /\ portfolio'.window \in Seq(Outlays)
          /\ DailyExposure(portfolio) \in Nat /\ DailyExposure(portfolio)' <= DailyExposure(portfolio) + usdc
      <3>1. DailyExposure(portfolio)' = DailyExposure(RecordOutlay(portfolio, MarketId, ts, usdc))
        BY <2>1
      <3> QED BY <1>0, <2>1, <3>1, OutlayWindow
    <2>4. portfolio'.outlay[MarketId] = portfolio.outlay[MarketId] + usdc
      <3>1. portfolio'.outlay = [portfolio.outlay EXCEPT ![MarketId] = @ + usdc]
        BY <1>0, <2>1, RecordOutlayKeeps
      <3> QED BY <1>0, <3>1
    <2>5. DailyExposure(portfolio)' \in Nat
      <3> DEFINE q == portfolio'
                 e == [ts |-> 0, usdc |-> 0]
      <3>1. q.window \in Seq(Outlays) /\ e \in Outlays
        BY <2>3 DEF Outlays
      <3> HIDE DEF q, e
      <3>2. [window |-> Append(q.window, e)].window = Append(q.window, e)
        OBVIOUS
      <3>3. DailyExposure(q) \in Nat
        BY <3>1, <3>2, WindowAdds
      <3> QED BY <3>3 DEF q
    <2>6. portfolio.outlay[MarketId] \in Nat
      BY <1>0
    <2>7. /\ portfolio'.outlay[MarketId] <= MaxPerMarketExposure
          /\ DailyExposure(portfolio)' <= MaxDailyExposure
      BY ONLY <1>0, <1>3, <2>1, <2>2, <2>3, <2>4, <2>5, <2>6
    <2> QED BY <2>3, <2>7 DEF ExposureCapped, MarketExposure
  <1> QED BY <1>1, <1>2, <1>3 DEF PortfolioMoves

\* A trade that passed the gate keeps the caps.
LEMMA TradeMoves ==
  ASSUME TypeOK, NEW side \in Sides, NEW n \in Nat, NEW ts \in Nat, NEW notional \in Nat, NEW charge,
         NEW cost \in Nat, Trade(side, n, ts, notional, charge),
         IsBuy(side) => CanOpen(portfolio, MarketId, cost) /\ Scale * notional <= cost
  PROVE  PortfolioMoves
  <1> DEFINE value == Scale * notional
  <1>1. value \in Nat
    BY ProductNat, RunnerAssumptions
  <1>2. CASE IsBuy(side)
    <2>1. portfolio' = RecordOutlay(portfolio, MarketId, ts, value)
      BY <1>2 DEF Trade
    <2>2. Opens(ts, value, cost)
      BY <1>2, <2>1 DEF Opens
    <2> HIDE DEF value
    <2> QED BY <1>1, <2>2 DEF PortfolioMoves
  <1>3. CASE ~IsBuy(side)
    BY <1>3 DEF Trade, PortfolioMoves
  <1> QED BY <1>2, <1>3

\* A maker fill moves the portfolio within the caps.
LEMMA MakerFillMoves ==
  ASSUME TypeOK, CapsInv, NEW k \in 1 .. Len(resting[book]), MakerFill(k)
  PROVE  PortfolioMoves
  <1> DEFINE o        == resting[book][k]
             n        == FillShares(k)
             notional == n * NativePrice(o)
             charge   == 0 - MakerRebate * notional
             cost     == Scale * notional
  <1>0. /\ phase \in {"trades", "cross"} /\ NextHit(k)
        /\ Verdict(o.side, n, cost) = "ok" /\ Trade(o.side, n, FillTs, notional, charge)
    BY DEF MakerFill
  <1>1. o \in RestingOrders /\ n \in Nat /\ notional \in Nat
    BY <1>0, HitType
  <1>2. o.side \in Sides
    BY <1>1 DEF RestingOrders
  <1>3. cost \in Nat
    BY <1>1, ProductNat, RunnerAssumptions
  <1>4. FillTs \in Nat
    <2>1. CASE phase = "trades"
      <3>1. remaining > 0
        BY <1>0, <2>1 DEF NextHit, Hit
      <3>2. trade_cursor \in 0 .. Len(trades) /\ trades \in Seq(Prints)
        BY DEF TypeOK
      <3>3. trade_cursor > 0
        BY <3>1 DEF CapsInv
      <3>4. trades[trade_cursor] \in Prints
        BY ONLY <3>2, <3>3
      <3> QED BY <2>1, <3>4 DEF FillTs, Prints
    <2>2. CASE phase # "trades"
      <3>1. event.ts \in Nat
        BY DEF TypeOK
      <3> QED BY <2>2, <3>1 DEF FillTs
    <2> QED BY <2>1, <2>2
  <1>5. IsBuy(o.side) => CanOpen(portfolio, MarketId, cost) /\ Scale * notional <= cost
    <2> HIDE DEF o, n, notional
    <2> QED BY <1>0, <1>1, <1>2, <1>3, VerdictOK
  <1> HIDE DEF o, n, notional, charge, cost
  <1> QED BY <1>0, <1>1, <1>2, <1>3, <1>4, <1>5, TradeMoves

\* A taker fill moves the portfolio within the caps.
LEMMA ApplyTakerMoves ==
  ASSUME TypeOK, NEW id, NEW req \in OrderReqs, NEW cs, NEW bl, ApplyTaker(id, req, cs, bl)
  PROVE  PortfolioMoves
  <1> DEFINE s        == Sweep(event, req)
             notional == Slip(req.side, s)
             n        == s.filled
             verdict  == TakerVerdict(req, s, notional)
             fee      == TakerFee * notional
             value    == Scale * notional
             asked    == IF IsBuy(req.side) THEN value + fee ELSE 0
  <1>0. /\ event \in [ts : Nat, bids : [1 .. Depth -> Levels], asks : [1 .. Depth -> Levels]]
        /\ TakerFee \in Nat /\ Scale \in Nat /\ req.side \in Sides
    <2>1. TakerFee \in Nat /\ Scale \in Nat
      BY RunnerAssumptions
    <2> QED BY <2>1 DEF TypeOK, OrderReqs
  <1>1. SweepOK(req, s)
    BY <1>0, SweepType
  <1> HIDE DEF s
  <1>2. n \in Nat /\ notional \in Nat
    BY <1>0, <1>1, SlipBounds DEF SweepOK
  <1> HIDE DEF notional
  <1>3. fee \in Nat /\ value \in Nat
    BY <1>0, <1>2, ProductNat
  <1>4. CASE verdict = "ok"
    <2>1. Trade(req.side, n, event.ts, notional, fee)
      BY <1>4 DEF ApplyTaker, s, notional
    <2>2. Verdict(req.side, n, asked) = "ok"
      BY <1>4 DEF TakerVerdict
    <2>3. asked \in Nat /\ event.ts \in Nat
      BY <1>0, <1>3
    <2>4. IsBuy(req.side) => value <= asked
      BY <1>3
    <2> HIDE DEF asked, n
    <2>5. IsBuy(req.side) => CanOpen(portfolio, MarketId, asked)
      BY <1>0, <1>2, <2>2, <2>3, VerdictOK
    <2> HIDE DEF fee
    <2> QED BY <1>0, <1>2, <2>1, <2>3, <2>4, <2>5, TradeMoves
  <1>5. CASE verdict # "ok"
    BY <1>5 DEF ApplyTaker, s, notional, account, PortfolioMoves
  <1> QED BY <1>4, <1>5

\* Every step leaves the portfolio in one of the three ways.
LEMMA NextMoves == TypeOK /\ CapsInv /\ [Next]_vars => PortfolioMoves
  <1> SUFFICES ASSUME TypeOK, CapsInv, [Next]_vars PROVE PortfolioMoves
    OBVIOUS
  <1>1. ASSUME NEW ts \in OpenTs .. CloseTs, NEW snapshot \in Books, BeginEvent(ts, snapshot)
        PROVE  PortfolioMoves
    BY <1>1 DEF BeginEvent, account, PortfolioMoves
  <1>2. ASSUME NEW k \in 1 .. Len(resting[book]), MakerFill(k)
        PROVE  PortfolioMoves
    BY <1>2, MakerFillMoves
  <1>3. ASSUME NEW k \in 1 .. Len(resting[book]), MakerReject(k) \/ BreakerCancel(k)
        PROVE  PortfolioMoves
    BY <1>3 DEF MakerReject, BreakerCancel, account, PortfolioMoves
  <1>4. CASE NextPrint \/ EndTrades \/ EndCross \/ EndTakers \/ EndBreaker
    BY <1>4 DEF NextPrint, EndTrades, EndCross, EndTakers, EndBreaker, account, PortfolioMoves
  <1>5. ASSUME NEW k \in 1 .. Len(pending_takers), ExecutePending(k)
        PROVE  PortfolioMoves
    <2>1. pending_takers[k].req \in OrderReqs
      <3>1. pending_takers \in Seq(PendingOrders)
        BY DEF TypeOK
      <3>2. pending_takers[k] \in PendingOrders
        BY <3>1
      <3> QED BY <3>2 DEF PendingOrders
    <2>2. ApplyTaker(pending_takers[k].id, pending_takers[k].req, counters, blotter)
      BY <1>5 DEF ExecutePending
    <2> QED BY <2>1, <2>2, ApplyTakerMoves
  <1>6. ASSUME NEW req \in Requests, ModelGateReject(req)
        PROVE  PortfolioMoves
    BY <1>6 DEF ModelGateReject, account, PortfolioMoves
  <1>7. ASSUME NEW req \in Requests, Submit(req)
        PROVE  PortfolioMoves
    <2>1. req \in OrderReqs
      BY RunnerAssumptions
    <2>2. (\E id, cs, bl : ApplyTaker(id, req, cs, bl)) \/ UNCHANGED account
      BY <1>7 DEF Submit, SubmitTaker, RestMaker
    <2>3. UNCHANGED account => PortfolioMoves
      BY DEF account, PortfolioMoves
    <2> QED BY <2>1, <2>2, <2>3, ApplyTakerMoves
  <1>8. CASE EndEvent
    BY <1>8, MarkToMarketType DEF EndEvent, PortfolioMoves
  <1>9. ASSUME NEW winner \in Tokens, Resolve(winner)
        PROVE  PortfolioMoves
    BY <1>9, EndEquityType DEF Resolve, PortfolioMoves
  <1>10. CASE UNCHANGED vars
    BY <1>10 DEF vars, account, PortfolioMoves
  <1> QED BY <1>1, <1>2, <1>3, <1>4, <1>5, <1>6, <1>7, <1>8, <1>9, <1>10 DEF Next, Terminated

\* Shares of a print are left only once a print was read.
LEMMA CursorKept ==
  ASSUME TypeOK, remaining > 0 => trade_cursor > 0, [Next]_vars
  PROVE  remaining' > 0 => trade_cursor' > 0
  <1>0. remaining \in Nat /\ trade_cursor \in Nat
    BY DEF TypeOK
  <1>1. ASSUME NEW k \in 1 .. Len(resting[book]), MakerFill(k)
        PROVE  remaining' > 0 => trade_cursor' > 0
    <2>1. FillShares(k) \in Nat
      BY <1>1, HitType DEF MakerFill
    <2>2. remaining' \in {remaining, remaining - FillShares(k)} /\ trade_cursor' = trade_cursor
      BY <1>1 DEF MakerFill
    <2> HIDE DEF FillShares
    <2> QED BY <1>0, <2>1, <2>2
  <1>2. CASE NextPrint
    BY <1>0, <1>2 DEF NextPrint
  <1>3. CASE UNCHANGED <<remaining, trade_cursor>>
    BY <1>3
  <1>4. CASE remaining' = 0
    BY <1>4
  <1>5. \/ \E k \in 1 .. Len(resting[book]) : MakerFill(k)
        \/ NextPrint \/ UNCHANGED <<remaining, trade_cursor>> \/ remaining' = 0
    BY DEF Next, vars, control, Terminated, BeginEvent, StartTrades, Stage, MakerReject, BreakerCancel,
           EndTrades, EndCross, ExecutePending, EndTakers, EndBreaker, ModelGateReject, Submit, EndEvent,
           Resolve
  <1> QED BY <1>1, <1>2, <1>3, <1>4, <1>5

\* Nothing is laid out at the start.
LEMMA InitCaps == Init => CapsInv
  <1> SUFFICES ASSUME Init PROVE CapsInv
    OBVIOUS
  <1>1. portfolio = Mark(NewPortfolio(StartingCash), StartingCash) /\ remaining = 0
    BY DEF Init
  <1>2. StartingCash \in Nat /\ MarketId \in Markets /\ MaxDailyExposure \in Nat /\ MaxPerMarketExposure \in Nat
    BY RiskLimits, RunnerAssumptions
  <1>3. Shaped(NewPortfolio(StartingCash))
    BY <1>2 DEF Shaped, NewPortfolio, HaltReasons
  <1>4. portfolio.window = <<>> /\ portfolio.outlay = [m \in Markets |-> 0]
    BY <1>1, <1>2, <1>3, MarkWindow, MarkKeeps DEF NewPortfolio
  <1>5. portfolio.window \in Seq(Outlays)
    BY <1>4
  <1>6. DailyExposure(portfolio) = 0
    <2>1. PICK it : /\ IsFold(it, SUBSET DOMAIN portfolio.window, Weights(portfolio.window))
                    /\ DailyExposure(portfolio) = it[DOMAIN portfolio.window]
      BY <1>5, WindowSum
    <2>2. DOMAIN portfolio.window = {}
      BY <1>4
    <2> QED BY <2>1, <2>2 DEF IsFold
  <1> QED BY <1>1, <1>2, <1>4, <1>5, <1>6 DEF CapsInv, ExposureCapped, MarketExposure

\* What a run lays out on its market and in any day stays within the caps,
\* although resting orders reserve nothing and the rolling window is pruned
\* only when something is recorded.
THEOREM ExposureIsCapped == Spec => []ExposureCapped
  <1>1. TypeOK /\ CapsInv /\ [Next]_vars => CapsInv'
    <2> SUFFICES ASSUME TypeOK, CapsInv, [Next]_vars PROVE CapsInv'
      OBVIOUS
    <2>1. portfolio'.window \in Seq(Outlays) /\ ExposureCapped'
      BY NextMoves, CapsKept
    <2>2. remaining' > 0 => trade_cursor' > 0
      BY CursorKept DEF CapsInv
    <2> QED BY <2>1, <2>2 DEF CapsInv
  <1>2. CapsInv => ExposureCapped
    BY DEF CapsInv
  <1> QED BY <1>1, <1>2, InitCaps, TypeCorrect, PTL DEF Spec
=============================================================================
