---------------------------- MODULE RunnerProofs ----------------------------
(***************************************************************************)
(* Proofs about Runner for every value of its constants: the types, the    *)
(* account it implements and what follows from that.                       *)
(***************************************************************************)
EXTENDS RunnerProperties, TLAPS

USE DEF Tokens, Lists, Sides, BidSides, AskSides, Depth, NoLimit
-----------------------------------------------------------------------------
(* Arithmetic the provers need spelled out.                                *)

\* A product of natural numbers is a natural number.
LEMMA ProductNat == \A a, b \in Nat : a * b \in Nat
  OBVIOUS

\* Multiplication by a natural number is monotone.
LEMMA ProductMonotone == \A a, b, c \in Nat : a <= b => a * c <= b * c
  <1> SUFFICES ASSUME NEW a \in Nat, NEW b \in Nat, NEW c \in Nat, a <= b
               PROVE  a * c <= b * c
      OBVIOUS
  <1>1. b - a \in Nat /\ (b - a) * c \in Nat
    BY ProductNat, b - a \in Nat
  <1>2. b * c = a * c + (b - a) * c
    OBVIOUS
  <1>3. a * c \in Nat /\ b * c \in Nat
    BY ProductNat
  <1> QED BY <1>1, <1>2, <1>3
-----------------------------------------------------------------------------
(* The portfolio's methods keep its type; a halt is for good.              *)

\* What TypeOK says of the portfolio, without the type of its window.
Shaped(p) ==
  /\ p = [peak |-> p.peak, window |-> p.window, outlay |-> p.outlay, halt |-> p.halt]
  /\ p.peak \in Nat
  /\ p.halt \in HaltReasons
  /\ p.outlay \in [Markets -> Nat]

\* mark() keeps the outlay and the first reason to halt.
LEMMA MarkKeeps ==
  ASSUME NEW p, Shaped(p), NEW equity \in Int
  PROVE  /\ Shaped(Mark(p, equity))
         /\ Mark(p, equity).outlay = p.outlay
         /\ p.halt # "none" => Mark(p, equity).halt = p.halt
  <1> DEFINE q == [p EXCEPT !.peak = IF equity > @ THEN equity ELSE @]
  <1>1. /\ q = [peak |-> IF equity > p.peak THEN equity ELSE p.peak, window |-> p.window,
                outlay |-> p.outlay, halt |-> p.halt]
        /\ Shaped(q)
    BY DEF Shaped
  <1>2. Halt(q, "max_drawdown") \in
          {q, [peak |-> q.peak, window |-> q.window, outlay |-> q.outlay, halt |-> "max_drawdown"]}
    BY <1>1 DEF Halt
  <1>3. Shaped(Halt(q, "max_drawdown")) /\ Halt(q, "max_drawdown").outlay = p.outlay
    BY <1>1, <1>2 DEF Shaped, HaltReasons
  <1>4. p.halt # "none" => Halt(q, "max_drawdown").halt = p.halt
    BY <1>1 DEF Halt
  <1>5. Mark(p, equity) = IF DrawnDown(q.peak, equity) THEN Halt(q, "max_drawdown") ELSE q
    BY DEF Mark
  <1> QED BY <1>1, <1>3, <1>4, <1>5

\* record_outlay() adds the outlay to its market and keeps the rest.
LEMMA RecordOutlayKeeps ==
  ASSUME NEW p, Shaped(p), NEW m \in Markets, NEW ts, NEW usdc \in Nat
  PROVE  /\ Shaped(RecordOutlay(p, m, ts, usdc))
         /\ RecordOutlay(p, m, ts, usdc).outlay = [p.outlay EXCEPT ![m] = @ + usdc]
         /\ p.halt # "none" => RecordOutlay(p, m, ts, usdc).halt = p.halt
  <1> DEFINE w == Retain(Append(p.window, [ts |-> ts, usdc |-> usdc]), ts - Day)
             o == [p.outlay EXCEPT ![m] = @ + usdc]
             q == [peak |-> p.peak, window |-> w, outlay |-> o, halt |-> p.halt]
  <1>1. o \in [Markets -> Nat]
    BY DEF Shaped
  <1>2. RecordOutlay(p, m, ts, usdc) =
          IF DailyExposure(q) >= MaxDailyExposure THEN Halt(q, "max_daily_exposure") ELSE q
    BY DEF RecordOutlay
  <1> HIDE DEF w, o
  <1>3. Shaped(q) /\ q.outlay = o /\ q.halt = p.halt
    BY <1>1 DEF Shaped
  <1>4. /\ Shaped(Halt(q, "max_daily_exposure"))
        /\ Halt(q, "max_daily_exposure").outlay = q.outlay
        /\ q.halt # "none" => Halt(q, "max_daily_exposure").halt = q.halt
    BY <1>3 DEF Halt, Shaped, HaltReasons
  <1> HIDE DEF q
  <1>5. /\ Shaped(RecordOutlay(p, m, ts, usdc))
        /\ RecordOutlay(p, m, ts, usdc).outlay = o
        /\ p.halt # "none" => RecordOutlay(p, m, ts, usdc).halt = p.halt
    BY <1>2, <1>3, <1>4
  <1> QED BY <1>5 DEF o
-----------------------------------------------------------------------------
(* Lists of orders and the blotter.                                        *)

\* Dropping an element of a sequence, either way, leaves a sequence.
LEMMA DropType ==
  ASSUME NEW S, NEW s \in Seq(S), NEW k \in 1 .. Len(s)
  PROVE  /\ SwapRemove(s, k) \in Seq(S)
         /\ Removed(s, k) \in Seq(S)
         /\ Len(SwapRemove(s, k)) = Len(s) - 1
  BY DEF SwapRemove, Removed

\* What a fill leaves of a list is a list of resting orders.
LEMMA AfterFillType ==
  ASSUME NEW s \in Seq(RestingOrders), NEW k \in 1 .. Len(s), NEW n \in Nat
  PROVE  AfterFill(s, k, n) \in Seq(RestingOrders)
  <1>1. CASE n >= s[k].shares
    BY <1>1, DropType DEF AfterFill
  <1>2. CASE ~(n >= s[k].shares)
    <2>1. s[k] \in RestingOrders
      OBVIOUS
    <2>2. s[k].shares - n \in Nat \ {0}
      <3>1. s[k].shares \in Nat
        BY <2>1 DEF RestingOrders
      <3> QED BY <1>2, <3>1
    <2>3. [s[k] EXCEPT !.shares = @ - n] \in RestingOrders
      BY <2>1, <2>2 DEF RestingOrders
    <2> QED BY <1>2, <2>3 DEF AfterFill
  <1> QED BY <1>1, <1>2

\* Entering what became of an order leaves a blotter.
LEMMA BlotterType ==
  ASSUME NEW bl \in Seq(BlotterEntry), NEW id \in Nat, NEW n \in Nat, NEW paid \in Nat,
         NEW fate \in Fates
  PROVE  /\ Filled(bl, id, n, paid, fate) \in Seq(BlotterEntry)
         /\ Closed(bl, id, fate) \in Seq(BlotterEntry)
         /\ Len(Filled(bl, id, n, paid, fate)) = Len(bl)
         /\ Len(Closed(bl, id, fate)) = Len(bl)
  <1> DEFINE e == bl[id]
             f == [req |-> e.req, event |-> e.event, ts |-> e.ts,
                   filled |-> e.filled + n, paid |-> e.paid + paid, fate |-> fate]
             c == [e EXCEPT !.fate = fate]
  <1>1. CASE id \in DOMAIN bl
    <2>0. e \in BlotterEntry
      BY <1>1
    <2>1. f \in BlotterEntry /\ c \in BlotterEntry
      <3> HIDE DEF e
      <3>1. f \in BlotterEntry
        BY <2>0 DEF BlotterEntry
      <3>2. c \in BlotterEntry
        BY <2>0 DEF BlotterEntry
      <3> QED BY <3>1, <3>2
    <2> HIDE DEF f, c
    <2>2. /\ [bl EXCEPT ![id] = f] \in Seq(BlotterEntry)
          /\ [bl EXCEPT ![id] = c] \in Seq(BlotterEntry)
          /\ Len([bl EXCEPT ![id] = f]) = Len(bl)
          /\ Len([bl EXCEPT ![id] = c]) = Len(bl)
      BY <1>1, <2>1
    <2> QED BY <2>2 DEF Filled, Closed, f, c
  <1>2. CASE id \notin DOMAIN bl
    <2> HIDE DEF f, c
    <2>1. [bl EXCEPT ![id] = f] = bl /\ [bl EXCEPT ![id] = c] = bl
      BY <1>2
    <2> QED BY <2>1 DEF Filled, Closed, f, c
  <1> QED BY <1>1, <1>2

\* Counting an event leaves counters.
LEMMA BumpType ==
  ASSUME NEW cs \in [CounterNames -> Nat], NEW name \in CounterNames
  PROVE  Bump(cs, name) \in [CounterNames -> Nat]
  BY DEF Bump
-----------------------------------------------------------------------------
(* Prices, sweeps and slippage.                                            *)

\* The sides a taker trades against are levels.
LEMMA NativeLevelType ==
  ASSUME NEW ev, ev \in [ts : Nat, bids : [1 .. Depth -> Levels], asks : [1 .. Depth -> Levels]],
         NEW side \in Sides, NEW k \in 1 .. Depth
  PROVE  NativeLevel(ev, side, k) \in Levels
  <1>1. Unit \in Nat
    BY RunnerAssumptions
  <1>2. ev.bids[k] \in Levels /\ ev.asks[k] \in Levels
    OBVIOUS
  <1>3. \A lvl \in Levels : [lvl EXCEPT !.price = Unit - @] \in Levels
    BY <1>1 DEF Levels
  <1> QED BY <1>2, <1>3 DEF NativeLevel

\* A sweep: at most the shares asked for, each at a price below 1 USDC.
SweepOK(req, s) ==
  /\ s.filled \in Nat /\ s.notional \in Nat
  /\ s.filled <= req.shares
  /\ s.notional >= s.filled
  /\ s.notional <= (Unit - 1) * s.filled

\* One more level keeps a sweep a sweep.
LEMMA TakeLevelKeeps ==
  ASSUME NEW ev, ev \in [ts : Nat, bids : [1 .. Depth -> Levels], asks : [1 .. Depth -> Levels]],
         NEW req \in OrderReqs, NEW k \in 1 .. Depth, NEW acc, SweepOK(req, acc)
  PROVE  SweepOK(req, TakeLevel(ev, req, k, acc))
  <1> DEFINE lvl == NativeLevel(ev, req.side, k)
             n   == Least(req.shares - acc.filled, lvl.size)
  <1>0. Unit \in Nat /\ Unit >= 2 /\ req.side \in Sides /\ req.shares \in Nat
    BY RunnerAssumptions DEF OrderReqs
  <1>1. lvl \in Levels
    BY <1>0, NativeLevelType
  <1> HIDE DEF lvl
  <1>2. n \in Nat /\ acc.filled + n <= req.shares
    BY <1>0, <1>1 DEF Levels, Least, SweepOK
  <1>3. lvl.price \in 0 .. Unit
    BY <1>1 DEF Levels
  <1> HIDE DEF n
  <1>4. CASE lvl.price \in 1 .. Unit - 1
    <2>1. n * 1 <= n * lvl.price /\ n * lvl.price <= n * (Unit - 1) /\ n * lvl.price \in Nat
      <3>1. lvl.price \in Nat /\ Unit - 1 \in Nat /\ 1 <= lvl.price /\ lvl.price <= Unit - 1
        BY <1>0, <1>4
      <3>2. 1 * n <= lvl.price * n /\ lvl.price * n <= (Unit - 1) * n /\ lvl.price * n \in Nat
        BY <3>1, <1>2, ProductMonotone, ProductNat
      <3> QED BY <3>1, <3>2, <1>2
    <2>2. (Unit - 1) * (acc.filled + n) = (Unit - 1) * acc.filled + n * (Unit - 1)
      BY <1>0, <1>2 DEF SweepOK
    <2>3. SweepOK(req, [filled |-> acc.filled + n, notional |-> acc.notional + n * lvl.price])
      BY <1>2, <2>1, <2>2, <1>0 DEF SweepOK
    <2> QED BY <2>3 DEF TakeLevel, lvl, n
  <1>5. CASE lvl.price \notin 1 .. Unit - 1
    BY <1>5 DEF TakeLevel, lvl
  <1> QED BY <1>4, <1>5

\* What a sweep of the book brings.
LEMMA SweepType ==
  ASSUME NEW ev, ev \in [ts : Nat, bids : [1 .. Depth -> Levels], asks : [1 .. Depth -> Levels]],
         NEW req \in OrderReqs
  PROVE  SweepOK(req, Sweep(ev, req))
  <1> DEFINE s0 == [filled |-> 0, notional |-> 0]
             s1 == TakeLevel(ev, req, 1, s0)
             s2 == TakeLevel(ev, req, 2, s1)
             s3 == TakeLevel(ev, req, 3, s2)
             s4 == TakeLevel(ev, req, 4, s3)
             s5 == TakeLevel(ev, req, 5, s4)
  <1>0. SweepOK(req, s0)
    BY RunnerAssumptions DEF SweepOK, OrderReqs
  <1>1. Sweep(ev, req) = s5
    BY DEF Sweep
  <1> HIDE DEF s0
  <1>2. SweepOK(req, s1)
    BY <1>0, TakeLevelKeeps
  <1> HIDE DEF s1
  <1>3. SweepOK(req, s2)
    BY <1>2, TakeLevelKeeps
  <1> HIDE DEF s2
  <1>4. SweepOK(req, s3)
    BY <1>3, TakeLevelKeeps
  <1> HIDE DEF s3
  <1>5. SweepOK(req, s4)
    BY <1>4, TakeLevelKeeps
  <1> HIDE DEF s4
  <1>6. SweepOK(req, s5)
    BY <1>5, TakeLevelKeeps
  <1> QED BY <1>1, <1>6

\* Slippage keeps every share's price inside (0, 1).
LEMMA SlipBounds ==
  ASSUME NEW req \in OrderReqs, NEW s, SweepOK(req, s), NEW side \in Sides
  PROVE  /\ Slip(side, s) \in Nat
         /\ s.filled <= Slip(side, s)
         /\ Slip(side, s) <= (Unit - 1) * s.filled
  <1>0. Unit \in Nat /\ Unit >= 2 /\ BaseSlip \in Nat
    BY RunnerAssumptions
  <1> DEFINE cap == (Unit - 1) * s.filled
  <1>1. /\ s.filled \in Nat /\ s.notional \in Nat /\ s.filled <= s.notional
        /\ s.notional <= cap /\ cap \in Nat
    BY <1>0, ProductNat DEF SweepOK
  <1>2. PICK ticks \in Nat :
          Slip(side, s) = IF IsBuy(side) THEN Least(s.notional + ticks * s.filled, cap)
                          ELSE Greatest(s.notional - ticks * s.filled, s.filled)
    <2> DEFINE near(band) == s.notional <= band * s.filled \/ s.notional >= (Unit - band) * s.filled
               t == BaseSlip + (IF near(NarrowBand) THEN 2 ELSE IF near(WideBand) THEN 1 ELSE 0)
    <2>1. Slip(side, s) = IF IsBuy(side) THEN Least(s.notional + t * s.filled, cap)
                          ELSE Greatest(s.notional - t * s.filled, s.filled)
      BY DEF Slip
    <2> HIDE DEF near
    <2>2. t \in Nat
      BY <1>0
    <2> HIDE DEF t, cap
    <2> QED BY <2>1, <2>2
  <1> DEFINE slip == ticks * s.filled
  <1>3. slip \in Nat
    BY <1>1, ProductNat
  <1> HIDE DEF slip, cap
  <1>4. CASE IsBuy(side)
    <2>1. Slip(side, s) = Least(s.notional + slip, cap)
      BY <1>2, <1>4 DEF slip
    <2> QED BY <1>1, <1>3, <2>1 DEF Least, cap
  <1>5. CASE ~IsBuy(side)
    <2>1. Slip(side, s) = Greatest(s.notional - slip, s.filled)
      BY <1>2, <1>5 DEF slip
    <2> QED BY <1>1, <1>3, <2>1 DEF Greatest, cap
  <1> QED BY <1>4, <1>5

\* The price of a resting order, in the terms of its own token.
LEMMA NativePriceType ==
  ASSUME NEW o \in RestingOrders
  PROVE  NativePrice(o) \in 1 .. Unit - 1
  BY RunnerAssumptions DEF NativePrice, LimitToYesTerms, RestingOrders, Token

\* Shares at a price below 1 USDC each.
LEMMA NotionalBounds ==
  ASSUME NEW n \in Nat, NEW price \in 1 .. Unit - 1
  PROVE  n * price \in Nat /\ n <= n * price /\ n * price <= (Unit - 1) * n
  <1>1. Unit - 1 \in Nat /\ price \in Nat /\ 1 <= price /\ price <= Unit - 1
    BY RunnerAssumptions
  <1>2. 1 * n <= price * n /\ price * n <= (Unit - 1) * n /\ price * n \in Nat
    BY <1>1, ProductMonotone, ProductNat
  <1> QED BY <1>1, <1>2
-----------------------------------------------------------------------------
(* Gates and trades.                                                       *)

\* What passed the gates.
LEMMA VerdictOK ==
  ASSUME TypeOK, NEW side \in Sides, NEW n \in Nat, NEW cost \in Nat,
         Verdict(side, n, cost) = "ok"
  PROVE  /\ IsBuy(side) => CanOpen(portfolio, MarketId, cost) /\ cost <= cash
         /\ ~IsBuy(side) => n <= shares[Token(side)]
  <1>1. cash \in Nat /\ shares \in [Tokens -> Nat] /\ Token(side) \in Tokens
    BY DEF TypeOK, Token
  <1>2. ~(IsBuy(side) /\ ~CanOpen(portfolio, MarketId, cost))
    BY DEF Verdict
  <1>3. ~(IsBuy(side) /\ CanOpen(portfolio, MarketId, cost) /\ cost > cash)
    BY DEF Verdict
  <1>4. ~(~IsBuy(side) /\ n > shares[Token(side)])
    BY DEF Verdict
  <1> QED BY <1>1, <1>2, <1>3, <1>4

\* A verdict is "ok" or the name of a counter.
LEMMA VerdictType ==
  ASSUME NEW side, NEW n, NEW cost, Verdict(side, n, cost) # "ok"
  PROVE  Verdict(side, n, cost) \in CounterNames
  BY DEF Verdict, CounterNames

\* A trade that passed the gates keeps the account's types.
LEMMA TradeType ==
  ASSUME TypeOK, NEW side \in Sides, NEW n \in Nat, NEW ts, NEW notional \in Nat,
         NEW charge \in Int, Trade(side, n, ts, notional, charge),
         IsBuy(side) => Scale * notional + charge <= cash,
         ~IsBuy(side) => n <= shares[Token(side)] /\ charge <= Scale * notional
  PROVE  /\ shares' \in [Tokens -> Nat]
         /\ cash' \in Nat
         /\ Shaped(portfolio)'
  <1>0. /\ Scale * notional \in Nat /\ cash \in Nat /\ shares \in [Tokens -> Nat]
        /\ Token(side) \in Tokens
    <2>1. Scale \in Nat
      BY RunnerAssumptions
    <2> QED BY <2>1, ProductNat DEF TypeOK, Token
  <1> DEFINE value == Scale * notional
  <1>1. shares' \in [Tokens -> Nat]
    BY <1>0 DEF Trade
  <1>2. cash' \in Nat
    <2>1. cash' = cash - charge + (IF IsBuy(side) THEN 0 - value ELSE value)
      BY DEF Trade
    <2>2. value \in Nat /\ cash \in Nat
      BY <1>0
    <2>3. IsBuy(side) => value + charge <= cash
      OBVIOUS
    <2>4. ~IsBuy(side) => charge <= value
      OBVIOUS
    <2> HIDE DEF value
    <2> QED BY <2>1, <2>2, <2>3, <2>4
  <1>3. Shaped(portfolio)'
    <2>1. Shaped(portfolio)
      BY DEF TypeOK, Shaped
    <2>2. Shaped(RecordOutlay(portfolio, MarketId, ts, value))
      BY <1>0, <2>1, RecordOutlayKeeps, RunnerAssumptions
    <2>3. portfolio' \in {portfolio, RecordOutlay(portfolio, MarketId, ts, value)}
      BY DEF Trade
    <2> QED BY <2>1, <2>2, <2>3 DEF Shaped
  <1> QED BY <1>1, <1>2, <1>3
-----------------------------------------------------------------------------
(* Every action keeps the types.                                           *)

\* The initial state has the types.
LEMMA InitType == Init => TypeOK
  <1> SUFFICES ASSUME Init PROVE TypeOK
    OBVIOUS
  <1>1. /\ StartingCash \in Nat /\ OpenTs \in Nat /\ Unit \in Nat /\ Tapes \subseteq Seq(Prints)
    BY RunnerAssumptions
  <1>2. Shaped(portfolio)
    <2>1. Shaped(NewPortfolio(StartingCash))
      BY <1>1 DEF Shaped, NewPortfolio, HaltReasons
    <2> QED BY <1>1, <2>1, MarkKeeps DEF Init
  <1>3. NoLevels \in [1 .. Depth -> Levels]
    BY <1>1 DEF NoLevels, Levels
  <1>4. /\ resting \in [Lists -> Seq(RestingOrders)]
        /\ pending_takers \in Seq(PendingOrders)
        /\ blotter \in Seq(BlotterEntry)
        /\ counters \in [CounterNames -> Nat]
        /\ shares \in [Tokens -> Nat]
    BY DEF Init
  <1>5. event \in [ts : Nat, bids : [1 .. Depth -> Levels], asks : [1 .. Depth -> Levels]]
    BY <1>1, <1>3 DEF Init
  <1>6. trades \in Seq(Prints) /\ trade_cursor \in 0 .. Len(trades)
    BY <1>1 DEF Init
  <1> QED BY <1>1, <1>2, <1>4, <1>5, <1>6 DEF Init, TypeOK, Shaped, Phases

\* BeginEvent keeps the types.
LEMMA BeginEventType ==
  ASSUME TypeOK, NEW ts \in OpenTs .. CloseTs, NEW snapshot \in Books, BeginEvent(ts, snapshot)
  PROVE  TypeOK'
  <1>1. event' \in [ts : Nat, bids : [1 .. Depth -> Levels], asks : [1 .. Depth -> Levels]]
    BY RunnerAssumptions DEF BeginEvent, Snapshots
  <1>2. phase' \in Phases /\ book' \in Lists /\ scan' \in Nat /\ remaining' \in Nat
    BY DEF BeginEvent, StartTrades, Stage, Phases
  <1>3. events_processed' \in Nat
    <2>1. events_processed \in Nat
      BY DEF TypeOK
    <2> QED BY <2>1 DEF BeginEvent
  <1>4. UNCHANGED <<trades, trade_cursor, resting, pending_takers, account, counters,
                    end_equity, blotter>>
    BY DEF BeginEvent
  <1> QED BY <1>1, <1>2, <1>3, <1>4 DEF TypeOK, account

\* Leaving a stage of the event loop keeps the types.
LEMMA StageType ==
  ASSUME TypeOK, EndTrades \/ EndCross \/ EndTakers \/ EndBreaker
  PROVE  TypeOK'
  <1>1. phase' \in Phases /\ book' \in Lists /\ scan' \in Nat /\ remaining' \in Nat
    BY DEF EndTrades, EndCross, EndTakers, EndBreaker, Stage, Phases
  <1>2. UNCHANGED <<input, trade_cursor, resting, pending_takers, account, counters, end_equity,
                    blotter>>
    BY DEF EndTrades, EndCross, EndTakers, EndBreaker
  <1> QED BY <1>1, <1>2 DEF TypeOK, input, account

\* NextPrint keeps the types.
LEMMA NextPrintType ==
  ASSUME TypeOK, NextPrint
  PROVE  TypeOK'
  <1>1. trade_cursor' \in 0 .. Len(trades) /\ remaining' \in Nat
    <2>0. trades \in Seq(Prints) /\ trade_cursor \in 0 .. Len(trades)
      BY DEF TypeOK
    <2>1. trade_cursor + 1 \in 1 .. Len(trades)
      BY <2>0 DEF NextPrint, PrintDue
    <2>2. trades[trade_cursor + 1] \in Prints
      BY <2>0, <2>1
    <2>3. trades[trade_cursor + 1].size \in Nat
      BY <2>2 DEF Prints
    <2> QED BY <2>1, <2>3 DEF NextPrint
  <1> QED BY <1>1 DEF TypeOK, NextPrint, input, account

\* The order a scan has stopped at, its fill and what it comes to.
LEMMA HitType ==
  ASSUME TypeOK, NEW k \in 1 .. Len(resting[book]), NextHit(k)
  PROVE  /\ resting[book] \in Seq(RestingOrders)
         /\ resting[book][k] \in RestingOrders
         /\ FillShares(k) \in Nat
         /\ k \in Nat
         /\ FillShares(k) <= resting[book][k].shares
         /\ phase = "trades" => FillShares(k) <= remaining
         /\ FillShares(k) * NativePrice(resting[book][k]) \in Nat
  <1>1. book \in Lists /\ resting \in [Lists -> Seq(RestingOrders)] /\ remaining \in Nat
    BY DEF TypeOK
  <1>2. resting[book] \in Seq(RestingOrders) /\ resting[book][k] \in RestingOrders
    BY <1>1
  <1>3. resting[book][k].shares \in Nat
    BY <1>2 DEF RestingOrders
  <1>4. /\ FillShares(k) \in Nat
        /\ FillShares(k) <= resting[book][k].shares
        /\ phase = "trades" => FillShares(k) <= remaining
    BY <1>1, <1>3 DEF FillShares, Least
  <1>5. FillShares(k) * NativePrice(resting[book][k]) \in Nat
    BY <1>2, <1>4, NativePriceType, NotionalBounds
  <1> QED BY <1>2, <1>4, <1>5

\* MakerFill keeps the types.
LEMMA MakerFillType ==
  ASSUME TypeOK, NEW k \in 1 .. Len(resting[book]), MakerFill(k)
  PROVE  TypeOK'
  <1> DEFINE o        == resting[book][k]
             n        == FillShares(k)
             notional == n * NativePrice(o)
  <1>0. /\ Scale \in Nat /\ MakerRebate \in Nat
        /\ cash \in Nat /\ scan \in Nat /\ remaining \in Nat /\ total_rebates \in Nat
        /\ counters \in [CounterNames -> Nat] /\ blotter \in Seq(BlotterEntry)
        /\ book \in Lists /\ resting \in [Lists -> Seq(RestingOrders)]
    BY RunnerAssumptions DEF TypeOK
  <1>1. /\ k \in Nat /\ o \in RestingOrders /\ n \in Nat /\ notional \in Nat
        /\ resting[book] \in Seq(RestingOrders)
        /\ phase = "trades" => n <= remaining
    BY HitType DEF MakerFill
  <1>2. o.side \in Sides /\ o.id \in Nat
    BY <1>1 DEF RestingOrders
  <1>3. MakerRebate * notional \in Nat /\ Scale * notional \in Nat
    BY <1>0, <1>1, ProductNat
  <1>4. /\ Verdict(o.side, n, Scale * notional) = "ok"
        /\ Trade(o.side, n, FillTs, notional, 0 - MakerRebate * notional)
    BY DEF MakerFill
  <1>5. /\ shares' \in [Tokens -> Nat]
        /\ cash' \in Nat
        /\ Shaped(portfolio)'
    <2> DEFINE charge == 0 - MakerRebate * notional
    <2>1. /\ IsBuy(o.side) => Scale * notional <= cash
          /\ ~IsBuy(o.side) => n <= shares[Token(o.side)]
      BY <1>1, <1>2, <1>3, <1>4, VerdictOK
    <2>2. /\ charge \in Int /\ Scale * notional + charge <= Scale * notional
          /\ charge <= Scale * notional
      BY <1>3
    <2>3. IsBuy(o.side) => Scale * notional + charge <= cash
      BY <1>0, <1>3, <2>1, <2>2
    <2> HIDE DEF charge, n, o, notional
    <2> QED BY <1>1, <1>2, <1>4, <2>1, <2>2, <2>3, TradeType DEF charge
  <1>6. resting' \in [Lists -> Seq(RestingOrders)]
    <2>1. AfterFill(resting[book], k, n) \in Seq(RestingOrders)
      BY <1>1, AfterFillType
    <2> QED BY <1>0, <2>1 DEF MakerFill
  <1>7. counters' \in [CounterNames -> Nat]
    BY <1>0, BumpType DEF MakerFill, CounterNames
  <1>8. blotter' \in Seq(BlotterEntry)
    <2> DEFINE fate == IF n >= o.shares THEN "filled" ELSE "open"
    <2>1. blotter' = Filled(blotter, o.id, n, notional, fate) /\ fate \in Fates
      BY DEF MakerFill, Fates
    <2> HIDE DEF fate, n, o, notional
    <2> QED BY <1>0, <1>1, <1>2, <2>1, BlotterType
  <1>9. scan' \in Nat /\ remaining' \in Nat /\ total_rebates' \in Nat
    <2>1. scan' \in Nat
      BY <1>1 DEF MakerFill, ScanAfter
    <2>2. remaining' \in Nat
      <3>1. CASE phase = "trades"
        <4>1. remaining' = remaining - n
          BY <3>1 DEF MakerFill
        <4>2. remaining - n \in Nat
          <5> HIDE DEF n
          <5> QED BY <1>0, <1>1, <3>1
        <4> QED BY <4>1, <4>2, Zenon
      <3>2. CASE phase # "trades"
        <4>1. remaining' = remaining
          BY <3>2 DEF MakerFill
        <4> QED BY <1>0, <4>1, Zenon
      <3> QED BY <3>1, <3>2, Zenon
    <2>3. total_rebates' \in Nat
      <3> DEFINE rebate == MakerRebate * notional
      <3>1. total_rebates' = total_rebates + rebate
        BY DEF MakerFill
      <3>2. total_rebates \in Nat /\ rebate \in Nat
        BY <1>0, <1>3
      <3> HIDE DEF rebate
      <3> QED BY <3>1, <3>2
    <2> QED BY <2>1, <2>2, <2>3, Zenon
  <1>10. UNCHANGED <<phase, book, input, trade_cursor, pending_takers, end_equity>>
    BY DEF MakerFill
  <1> HIDE DEF o, n, notional
  <1> QED BY <1>5, <1>6, <1>7, <1>8, <1>9, <1>10 DEF TypeOK, Shaped, input

\* MakerReject keeps the types.
LEMMA MakerRejectType ==
  ASSUME TypeOK, NEW k \in 1 .. Len(resting[book]), MakerReject(k)
  PROVE  TypeOK'
  <1> DEFINE o       == resting[book][k]
             verdict == Verdict(o.side, FillShares(k), Scale * (FillShares(k) * NativePrice(o)))
  <1>0. /\ counters \in [CounterNames -> Nat] /\ blotter \in Seq(BlotterEntry)
        /\ book \in Lists /\ resting \in [Lists -> Seq(RestingOrders)]
    BY DEF TypeOK
  <1>1. k \in Nat /\ o \in RestingOrders /\ resting[book] \in Seq(RestingOrders)
    BY HitType DEF MakerReject
  <1>2. o.id \in Nat
    BY <1>1 DEF RestingOrders
  <1>3. counters' \in [CounterNames -> Nat]
    <2>1. counters' = Bump(counters, verdict) /\ verdict # "ok"
      BY DEF MakerReject, Rejected
    <2>2. verdict \in CounterNames
      BY <2>1, VerdictType
    <2> QED BY <1>0, <2>1, <2>2, BumpType
  <1>4. resting' \in [Lists -> Seq(RestingOrders)]
    <2>1. SwapRemove(resting[book], k) \in Seq(RestingOrders)
      BY <1>1, DropType
    <2> QED BY <1>0, <2>1 DEF MakerReject
  <1>5. blotter' \in Seq(BlotterEntry)
    <2>1. blotter' = Closed(blotter, o.id, "rejected") /\ "rejected" \in Fates
      BY DEF MakerReject, Fates
    <2> QED BY <1>0, <1>2, <2>1, BlotterType, 0 \in Nat
  <1>6. scan' \in Nat
    BY <1>1 DEF MakerReject, ScanAfter
  <1>7. UNCHANGED <<phase, book, remaining, input, trade_cursor, pending_takers, account,
                    end_equity>>
    BY DEF MakerReject
  <1> QED BY <1>3, <1>4, <1>5, <1>6, <1>7 DEF TypeOK, input, account

\* A taker order that executes, or is rejected, keeps the types.
LEMMA ApplyTakerType ==
  ASSUME TypeOK, NEW id \in Nat, NEW req \in OrderReqs, NEW cs \in [CounterNames -> Nat],
         NEW bl \in Seq(BlotterEntry), ApplyTaker(id, req, cs, bl)
  PROVE  /\ shares' \in [Tokens -> Nat] /\ cash' \in Nat /\ Shaped(portfolio)'
         /\ total_rebates' \in Nat
         /\ counters' \in [CounterNames -> Nat]
         /\ blotter' \in Seq(BlotterEntry)
         /\ Len(blotter') = Len(bl)
  <1> DEFINE s        == Sweep(event, req)
             notional == Slip(req.side, s)
             verdict  == TakerVerdict(req, s, notional)
             fee      == TakerFee * notional
             value    == Scale * notional
  <1>0. /\ cash \in Nat /\ total_rebates \in Nat /\ shares \in [Tokens -> Nat]
        /\ event \in [ts : Nat, bids : [1 .. Depth -> Levels], asks : [1 .. Depth -> Levels]]
        /\ TakerFee \in Nat /\ TakerFee <= Scale /\ Scale \in Nat /\ req.side \in Sides
    BY RunnerAssumptions DEF TypeOK, OrderReqs
  <1>1. SweepOK(req, s)
    BY <1>0, SweepType
  <1>2. s.filled \in Nat /\ notional \in Nat
    <2> HIDE DEF s
    <2> QED BY <1>0, <1>1, SlipBounds DEF SweepOK
  <1> HIDE DEF s, notional
  <1>3. fee \in Nat /\ value \in Nat /\ fee <= value
    BY <1>0, <1>2, ProductNat, ProductMonotone
  <1>4. Shaped(portfolio)
    BY DEF TypeOK, Shaped
  <1>5. CASE verdict = "ok"
    <2>1. /\ Trade(req.side, s.filled, event.ts, notional, fee)
          /\ counters' = Bump(cs, "filled_taker")
          /\ blotter' = Filled(bl, id, s.filled, notional, "filled")
          /\ total_rebates' = total_rebates
      BY <1>5 DEF ApplyTaker, s, notional
    <2>2. Verdict(req.side, s.filled, IF IsBuy(req.side) THEN value + fee ELSE 0) = "ok"
      BY <1>5 DEF TakerVerdict
    <2>3. /\ IsBuy(req.side) => value + fee <= cash
          /\ ~IsBuy(req.side) => s.filled <= shares[Token(req.side)] /\ fee <= value
      <3>1. (IF IsBuy(req.side) THEN value + fee ELSE 0) \in Nat
        BY <1>3
      <3> HIDE DEF value, fee
      <3> QED BY <1>0, <1>2, <1>3, <2>2, <3>1, VerdictOK
    <2>4. shares' \in [Tokens -> Nat] /\ cash' \in Nat /\ Shaped(portfolio)'
      <3>1. fee \in Int
        BY <1>3
      <3> HIDE DEF fee
      <3> QED BY <1>0, <1>2, <2>1, <2>3, <3>1, TradeType
    <2>5. counters' \in [CounterNames -> Nat]
      BY <2>1, BumpType DEF CounterNames
    <2>6. blotter' \in Seq(BlotterEntry) /\ Len(blotter') = Len(bl)
      BY <1>2, <2>1, BlotterType DEF Fates
    <2> QED BY <1>0, <2>1, <2>4, <2>5, <2>6
  <1>6. CASE verdict # "ok"
    <2>1. /\ counters' = Bump(cs, verdict)
          /\ blotter' = Closed(bl, id, "rejected")
          /\ UNCHANGED account
      BY <1>6 DEF ApplyTaker, s, notional, Rejected
    <2>2. verdict \in CounterNames
      <3>1. verdict = "no_liquidity" \/ verdict = Verdict(req.side, s.filled, IF IsBuy(req.side) THEN value + fee ELSE 0)
        BY DEF TakerVerdict
      <3> QED BY <1>6, <3>1, VerdictType DEF CounterNames
    <2>3. counters' \in [CounterNames -> Nat]
      <3> HIDE DEF verdict
      <3> QED BY <2>1, <2>2, BumpType
    <2>4. blotter' \in Seq(BlotterEntry) /\ Len(blotter') = Len(bl)
      BY <2>1, BlotterType, 0 \in Nat DEF Fates
    <2> QED BY <1>0, <1>4, <2>1, <2>3, <2>4 DEF account, Shaped
  <1> QED BY <1>5, <1>6

\* ExecutePending keeps the types.
LEMMA ExecutePendingType ==
  ASSUME TypeOK, NEW k \in 1 .. Len(pending_takers), ExecutePending(k)
  PROVE  TypeOK'
  <1>0. /\ pending_takers \in Seq(PendingOrders) /\ blotter \in Seq(BlotterEntry)
        /\ counters \in [CounterNames -> Nat]
    BY DEF TypeOK
  <1>1. pending_takers[k] \in PendingOrders /\ k \in Nat
    BY <1>0
  <1>2. pending_takers[k].id \in Nat /\ pending_takers[k].req \in OrderReqs
    BY <1>1 DEF PendingOrders
  <1>3. ApplyTaker(pending_takers[k].id, pending_takers[k].req, counters, blotter)
    BY DEF ExecutePending
  <1>4. /\ shares' \in [Tokens -> Nat] /\ cash' \in Nat /\ Shaped(portfolio)'
        /\ total_rebates' \in Nat
        /\ counters' \in [CounterNames -> Nat]
        /\ blotter' \in Seq(BlotterEntry)
    BY <1>0, <1>2, <1>3, ApplyTakerType
  <1>5. pending_takers' \in Seq(PendingOrders) /\ scan' \in Nat
    BY <1>0, <1>1, DropType DEF ExecutePending, ScanAfter
  <1>6. UNCHANGED <<phase, book, remaining, input, trade_cursor, resting, end_equity>>
    BY DEF ExecutePending
  <1> QED BY <1>4, <1>5, <1>6 DEF TypeOK, Shaped, input

\* BreakerCancel keeps the types.
LEMMA BreakerCancelType ==
  ASSUME TypeOK, NEW k \in 1 .. Len(resting[book]), BreakerCancel(k)
  PROVE  TypeOK'
  <1>0. /\ book \in Lists /\ resting \in [Lists -> Seq(RestingOrders)]
        /\ blotter \in Seq(BlotterEntry)
    BY DEF TypeOK
  <1>1. /\ resting[book] \in Seq(RestingOrders) /\ resting[book][k] \in RestingOrders /\ k \in Nat
    BY <1>0
  <1>2. resting[book][k].id \in Nat
    BY <1>1 DEF RestingOrders
  <1>3. resting' \in [Lists -> Seq(RestingOrders)]
    <2>1. Removed(resting[book], k) \in Seq(RestingOrders)
      BY <1>1, DropType
    <2> QED BY <1>0, <2>1 DEF BreakerCancel
  <1>4. blotter' \in Seq(BlotterEntry)
    <2>1. blotter' = Closed(blotter, resting[book][k].id, "cancelled") /\ "cancelled" \in Fates
      BY DEF BreakerCancel, Fates
    <2> QED BY <1>0, <1>2, <2>1, BlotterType, 0 \in Nat
  <1>5. scan' \in Nat
    BY <1>1 DEF BreakerCancel
  <1>6. UNCHANGED <<phase, book, remaining, input, trade_cursor, pending_takers, account, counters,
                    end_equity>>
    BY DEF BreakerCancel
  <1> QED BY <1>3, <1>4, <1>5, <1>6 DEF TypeOK, input, account

\* ModelGateReject keeps the types.
LEMMA ModelGateRejectType ==
  ASSUME TypeOK, NEW req \in Requests, ModelGateReject(req)
  PROVE  TypeOK'
  <1>1. counters \in [CounterNames -> Nat]
    BY DEF TypeOK
  <1>2. counters' \in [CounterNames -> Nat]
    BY <1>1, BumpType DEF ModelGateReject, CounterNames
  <1>3. UNCHANGED <<control, input, trade_cursor, resting, pending_takers, account, end_equity,
                    blotter>>
    BY DEF ModelGateReject
  <1> QED BY <1>2, <1>3 DEF TypeOK, control, input, account

\* The blotter with a new entry for a submitted order.
LEMMA NewEntryType ==
  ASSUME TypeOK, NEW req \in Requests
  PROVE  LET entry == [req |-> req, event |-> events_processed, ts |-> event.ts,
                       filled |-> 0, paid |-> 0, fate |-> "open"]
         IN  Append(blotter, entry) \in Seq(BlotterEntry)
  <1>1. req \in OrderReqs
    BY RunnerAssumptions
  <1>2. /\ event \in [ts : Nat, bids : [1 .. Depth -> Levels], asks : [1 .. Depth -> Levels]]
        /\ events_processed \in Nat /\ blotter \in Seq(BlotterEntry)
    BY DEF TypeOK
  <1>3. event.ts \in Nat
    BY <1>2
  <1>4. [req |-> req, event |-> events_processed, ts |-> event.ts,
         filled |-> 0, paid |-> 0, fate |-> "open"] \in BlotterEntry
    BY <1>1, <1>2, <1>3 DEF BlotterEntry, Fates
  <1> QED BY <1>2, <1>4

\* A submitted taker order keeps the types.
LEMMA SubmitTakerType ==
  ASSUME TypeOK, NEW id \in Nat, NEW req \in OrderReqs, NEW cs \in [CounterNames -> Nat],
         NEW bl \in Seq(BlotterEntry), SubmitTaker(id, req, cs, bl)
  PROVE  /\ shares' \in [Tokens -> Nat] /\ cash' \in Nat /\ Shaped(portfolio)'
         /\ total_rebates' \in Nat
         /\ counters' \in [CounterNames -> Nat]
         /\ blotter' \in Seq(BlotterEntry)
         /\ pending_takers' \in Seq(PendingOrders)
  <1>0. /\ cash \in Nat /\ total_rebates \in Nat /\ shares \in [Tokens -> Nat]
        /\ pending_takers \in Seq(PendingOrders)
        /\ event \in [ts : Nat, bids : [1 .. Depth -> Levels], asks : [1 .. Depth -> Levels]]
    BY DEF TypeOK
  <1>1. Shaped(portfolio)
    BY DEF TypeOK, Shaped
  <1>2. CASE ApplyTaker(id, req, cs, bl) /\ UNCHANGED pending_takers
    BY <1>0, <1>2, ApplyTakerType
  <1>3. CASE /\ pending_takers' = Append(pending_takers,
                  [id |-> id, execute_after |-> event.ts + TakerLatency, req |-> req])
             /\ counters' = cs
             /\ blotter' = bl
             /\ UNCHANGED account
    <2>1. event.ts + TakerLatency \in Nat
      BY <1>0, RunnerAssumptions
    <2>2. [id |-> id, execute_after |-> event.ts + TakerLatency, req |-> req] \in PendingOrders
      BY <2>1 DEF PendingOrders
    <2>3. pending_takers' \in Seq(PendingOrders)
      BY <1>0, <1>3, <2>2
    <2> QED BY <1>0, <1>1, <1>3, <2>3 DEF account, Shaped
  <1> QED BY <1>2, <1>3 DEF SubmitTaker

\* A submitted maker order keeps the types.
LEMMA RestMakerType ==
  ASSUME TypeOK, NEW id \in Nat, NEW req \in OrderReqs, NEW cs \in [CounterNames -> Nat],
         NEW bl \in Seq(BlotterEntry), req.limit # NoLimit, RestMaker(id, req, cs, bl)
  PROVE  /\ resting' \in [Lists -> Seq(RestingOrders)]
         /\ counters' \in [CounterNames -> Nat]
         /\ blotter' \in Seq(BlotterEntry)
         /\ UNCHANGED <<account, pending_takers>>
  <1> DEFINE order == [id |-> id, side |-> req.side,
                       limit_yes |-> LimitToYesTerms(req.side, req.limit),
                       shares |-> req.shares, submit_ts |-> event.ts]
  <1>0. /\ resting \in [Lists -> Seq(RestingOrders)]
        /\ event \in [ts : Nat, bids : [1 .. Depth -> Levels], asks : [1 .. Depth -> Levels]]
    BY DEF TypeOK
  <1>1. UNCHANGED <<account, pending_takers>>
    BY DEF RestMaker
  <1>2. CASE /\ counters' = Rejected(cs, "risk_gate")
             /\ blotter' = Closed(bl, id, "rejected")
             /\ UNCHANGED resting
    <2>1. counters' \in [CounterNames -> Nat]
      BY <1>2, BumpType DEF Rejected, CounterNames
    <2>2. blotter' \in Seq(BlotterEntry)
      BY <1>2, BlotterType, 0 \in Nat DEF Fates
    <2> QED BY <1>0, <1>1, <1>2, <2>1, <2>2
  <1>3. CASE /\ resting' = [resting EXCEPT ![ListOf(req.side)] = Append(@, order)]
             /\ counters' = cs
             /\ blotter' = bl
    <2>1. req.side \in Sides /\ req.shares \in Nat \ {0} /\ req.limit \in 1 .. Unit - 1
      BY DEF OrderReqs
    <2>2. LimitToYesTerms(req.side, req.limit) \in 1 .. Unit - 1 /\ ListOf(req.side) \in Lists
      BY <2>1, RunnerAssumptions DEF LimitToYesTerms, ListOf
    <2>3. order \in RestingOrders
      <3>1. event.ts \in Nat
        BY <1>0
      <3> QED BY <2>1, <2>2, <3>1 DEF RestingOrders
    <2>4. resting' \in [Lists -> Seq(RestingOrders)]
      <3> HIDE DEF order
      <3> QED BY <1>0, <1>3, <2>2, <2>3
    <2> QED BY <1>1, <1>3, <2>4
  <1> QED BY <1>2, <1>3 DEF RestMaker

\* Submit keeps the types.
LEMMA SubmitType ==
  ASSUME TypeOK, NEW req \in Requests, Submit(req)
  PROVE  TypeOK'
  <1> DEFINE id == Len(blotter) + 1
             cs == Bump(counters, "submitted")
             bl == Append(blotter, [req |-> req, event |-> events_processed, ts |-> event.ts,
                                    filled |-> 0, paid |-> 0, fate |-> "open"])
  <1>1. id \in Nat /\ cs \in [CounterNames -> Nat] /\ bl \in Seq(BlotterEntry)
    <2>1. blotter \in Seq(BlotterEntry) /\ counters \in [CounterNames -> Nat]
      BY DEF TypeOK
    <2>2. bl \in Seq(BlotterEntry)
      BY NewEntryType
    <2>3. cs \in [CounterNames -> Nat]
      BY <2>1, BumpType DEF CounterNames
    <2> QED BY <2>1, <2>2, <2>3
  <1>2. req \in OrderReqs
    BY RunnerAssumptions
  <1>3. /\ UNCHANGED <<control, input, trade_cursor, end_equity>>
        /\ \/ SubmitTaker(id, req, cs, bl) /\ UNCHANGED resting
           \/ req.limit # NoLimit /\ RestMaker(id, req, cs, bl)
    BY DEF Submit
  <1> HIDE DEF id, cs, bl
  <1>4. CASE SubmitTaker(id, req, cs, bl) /\ UNCHANGED resting
    <2>1. /\ shares' \in [Tokens -> Nat] /\ cash' \in Nat /\ Shaped(portfolio)'
          /\ total_rebates' \in Nat
          /\ counters' \in [CounterNames -> Nat]
          /\ blotter' \in Seq(BlotterEntry)
          /\ pending_takers' \in Seq(PendingOrders)
      BY <1>1, <1>2, <1>4, SubmitTakerType
    <2> QED BY <1>3, <1>4, <2>1 DEF TypeOK, Shaped, control, input
  <1>5. CASE req.limit # NoLimit /\ RestMaker(id, req, cs, bl)
    <2>1. /\ resting' \in [Lists -> Seq(RestingOrders)]
          /\ counters' \in [CounterNames -> Nat]
          /\ blotter' \in Seq(BlotterEntry)
          /\ UNCHANGED <<account, pending_takers>>
      BY <1>1, <1>2, <1>5, RestMakerType
    <2> QED BY <1>3, <2>1 DEF TypeOK, control, input, account
  <1> QED BY <1>3, <1>4, <1>5

\* The equity at the current mid is a number.
LEMMA MarkToMarketType == TypeOK => MarkToMarket \in Int
  <1> SUFFICES ASSUME TypeOK PROVE MarkToMarket \in Int
    OBVIOUS
  <1>1. /\ event \in [ts : Nat, bids : [1 .. Depth -> Levels], asks : [1 .. Depth -> Levels]]
        /\ cash \in Nat /\ shares["Yes"] \in Nat /\ shares["No"] \in Nat
    BY DEF TypeOK
  <1>2. Unit \in Nat /\ Scale \in Nat
    BY RunnerAssumptions
  <1>3. event.bids[1] \in Levels /\ event.asks[1] \in Levels
    BY <1>1
  <1>4. BestBid(event) \in Int /\ BestAsk(event) \in Int
    BY <1>2, <1>3 DEF BestBid, BestAsk, Levels
  <1>5. Mid2(event) \in Int
    BY <1>4 DEF Mid2, Greatest
  <1>6. Scale \div 2 \in Int
    BY <1>2
  <1>7. \A a, b \in Int : a * b \in Int
    OBVIOUS
  <1>8. /\ shares["Yes"] * Mid2(event) \in Int
        /\ shares["No"] * (2 * Unit - Mid2(event)) \in Int
    BY <1>1, <1>2, <1>5, <1>7
  <1> QED BY <1>1, <1>6, <1>7, <1>8 DEF MarkToMarket

\* EndEvent keeps the types.
LEMMA EndEventType ==
  ASSUME TypeOK, EndEvent
  PROVE  TypeOK'
  <1>1. phase' \in Phases /\ book' \in Lists /\ scan' \in Nat /\ remaining' \in Nat
    BY DEF EndEvent, Stage, Phases
  <1>2. Shaped(portfolio)'
    <2>1. Shaped(portfolio) /\ MarkToMarket \in Int
      BY MarkToMarketType DEF TypeOK, Shaped
    <2>2. Shaped(Mark(portfolio, MarkToMarket))
      BY <2>1, MarkKeeps
    <2>3. portfolio' = Mark(portfolio, MarkToMarket)
      BY DEF EndEvent
    <2> QED BY <2>2, <2>3 DEF Shaped
  <1>3. UNCHANGED <<input, trade_cursor, resting, pending_takers, cash, shares, total_rebates,
                    counters, end_equity, blotter>>
    BY DEF EndEvent
  <1> QED BY <1>1, <1>2, <1>3 DEF TypeOK, Shaped, input

\* What a run is worth once a token has won.
LEMMA EndEquityType ==
  ASSUME TypeOK, NEW winner \in Tokens
  PROVE  cash + Scale * Unit * shares[winner] \in Nat
  <1>1. cash \in Nat /\ shares[winner] \in Nat
    BY DEF TypeOK
  <1>2. Scale * Unit \in Nat
    BY ProductNat, RunnerAssumptions
  <1>3. Scale * Unit * shares[winner] \in Nat
    BY <1>1, <1>2, ProductNat
  <1> QED BY <1>1, <1>3

\* Resolve keeps the types.
LEMMA ResolveType ==
  ASSUME TypeOK, NEW winner \in Tokens, Resolve(winner)
  PROVE  TypeOK'
  <1>0. /\ resting \in [Lists -> Seq(RestingOrders)] /\ pending_takers \in Seq(PendingOrders)
        /\ blotter \in Seq(BlotterEntry) /\ counters \in [CounterNames -> Nat]
    BY DEF TypeOK
  <1>1. phase' \in Phases /\ book' \in Lists /\ scan' \in Nat /\ remaining' \in Nat
    BY DEF Resolve, Stage, Phases
  <1>2. end_equity' \in Nat
    BY EndEquityType DEF Resolve
  <1>3. Shaped(portfolio)'
    <2>1. Shaped(portfolio) /\ end_equity' \in Int
      BY <1>2 DEF TypeOK, Shaped
    <2>2. Shaped(Mark(portfolio, end_equity'))
      BY <2>1, MarkKeeps
    <2>3. portfolio' = Mark(portfolio, end_equity')
      BY DEF Resolve
    <2> QED BY <2>2, <2>3 DEF Shaped
  <1>4. counters' \in [CounterNames -> Nat]
    <2>1. Len(pending_takers) \in Nat /\ Len(resting["bid"]) \in Nat /\ Len(resting["ask"]) \in Nat
      BY <1>0
    <2> DEFINE unserved == [counters EXCEPT !["no_liquidity"] = @ + Len(pending_takers)]
    <2>2. unserved \in [CounterNames -> Nat]
      <3>1. counters["no_liquidity"] + Len(pending_takers) \in Nat
        BY <1>0, <2>1 DEF CounterNames
      <3> QED BY <1>0, <3>1
    <2>3. counters' = [unserved EXCEPT !["cancelled_eom"] = Len(resting["bid"]) + Len(resting["ask"])]
      BY DEF Resolve
    <2>4. Len(resting["bid"]) + Len(resting["ask"]) \in Nat
      <3>1. \A a, b \in Nat : a + b \in Nat
        OBVIOUS
      <3> QED BY <2>1, <3>1, Zenon
    <2> HIDE DEF unserved
    <2> QED BY <2>2, <2>3, <2>4
  <1>5. blotter' \in Seq(BlotterEntry)
    <2> DEFINE fate(id) == IF \E k \in DOMAIN pending_takers : pending_takers[k].id = id
                           THEN "rejected" ELSE "cancelled"
               closed(id) == IF blotter[id].fate # "open" THEN blotter[id]
                             ELSE [blotter[id] EXCEPT !.fate = fate(id)]
    <2>1. blotter' = [id \in DOMAIN blotter |-> closed(id)]
      BY DEF Resolve
    <2>2. ASSUME NEW id \in DOMAIN blotter
          PROVE  closed(id) \in BlotterEntry
      <3>1. blotter[id] \in BlotterEntry
        BY <1>0
      <3>2. fate(id) \in Fates
        BY DEF Fates
      <3> HIDE DEF fate
      <3>3. [blotter[id] EXCEPT !.fate = fate(id)] \in BlotterEntry
        BY <3>1, <3>2 DEF BlotterEntry
      <3> QED BY <3>1, <3>3
    <2> HIDE DEF closed
    <2>3. DOMAIN blotter = 1 .. Len(blotter) /\ Len(blotter) \in Nat
      BY <1>0
    <2>4. blotter' \in [1 .. Len(blotter) -> BlotterEntry]
      BY <2>1, <2>2, <2>3
    <2> QED BY <2>3, <2>4
  <1>6. resting' \in [Lists -> Seq(RestingOrders)] /\ pending_takers' \in Seq(PendingOrders)
    BY DEF Resolve
  <1>7. UNCHANGED <<input, trade_cursor, cash, shares, total_rebates>>
    BY DEF Resolve
  <1> QED BY <1>1, <1>2, <1>3, <1>4, <1>5, <1>6, <1>7 DEF TypeOK, Shaped, input

\* Every step keeps the types.
LEMMA NextType == TypeOK /\ [Next]_vars => TypeOK'
  <1> SUFFICES ASSUME TypeOK, [Next]_vars PROVE TypeOK'
    OBVIOUS
  <1>1. ASSUME NEW ts \in OpenTs .. CloseTs, NEW snapshot \in Books, BeginEvent(ts, snapshot)
        PROVE  TypeOK'
    BY <1>1, BeginEventType
  <1>2. ASSUME NEW k \in 1 .. Len(resting[book]), MakerFill(k)
        PROVE  TypeOK'
    BY <1>2, MakerFillType
  <1>3. ASSUME NEW k \in 1 .. Len(resting[book]), MakerReject(k)
        PROVE  TypeOK'
    BY <1>3, MakerRejectType
  <1>4. ASSUME NEW k \in 1 .. Len(resting[book]), BreakerCancel(k)
        PROVE  TypeOK'
    BY <1>4, BreakerCancelType
  <1>5. CASE NextPrint
    BY <1>5, NextPrintType
  <1>6. CASE EndTrades \/ EndCross \/ EndTakers \/ EndBreaker
    BY <1>6, StageType
  <1>7. ASSUME NEW k \in 1 .. Len(pending_takers), ExecutePending(k)
        PROVE  TypeOK'
    BY <1>7, ExecutePendingType
  <1>8. ASSUME NEW req \in Requests, ModelGateReject(req)
        PROVE  TypeOK'
    BY <1>8, ModelGateRejectType
  <1>9. ASSUME NEW req \in Requests, Submit(req)
        PROVE  TypeOK'
    BY <1>9, SubmitType
  <1>10. CASE EndEvent
    BY <1>10, EndEventType
  <1>11. ASSUME NEW winner \in Tokens, Resolve(winner)
         PROVE  TypeOK'
    BY <1>11, ResolveType
  <1>12. CASE UNCHANGED vars
    BY <1>12 DEF TypeOK, vars, control, input, account
  <1>13. CASE Terminated
    BY <1>12, <1>13 DEF Terminated
  <1> QED
    BY <1>1, <1>2, <1>3, <1>4, <1>5, <1>6, <1>7, <1>8, <1>9, <1>10, <1>11, <1>12, <1>13 DEF Next

\* A run never borrows, never sells what it does not hold, and every
\* variable keeps its type, whatever the books, tapes and requests.
THEOREM TypeCorrect == Spec => []TypeOK
  BY InitType, NextType, PTL DEF Spec
-----------------------------------------------------------------------------
(* The account a run implements.                                           *)

\* What a halted portfolio may still do in a step.
HaltHolds ==
  portfolio.halt # "none" =>
    /\ portfolio'.halt = portfolio.halt
    /\ \A t \in Tokens : shares'[t] <= shares[t]

\* A step of the account, and of a portfolio once halted.
AccountStep == [Account!Next]_(Account!vars) /\ HaltHolds

\* Steps that leave cash, shares and portfolio alone do not touch the account.
LEMMA StutterStep ==
  ASSUME TypeOK, phase # "resolved", phase' # "resolved", UNCHANGED <<cash, shares, portfolio>>
  PROVE  AccountStep
  <1>1. shares \in [Tokens -> Nat]
    BY DEF TypeOK
  <1>2. UNCHANGED Account!vars
    BY DEF Account!vars
  <1>3. HaltHolds
    BY <1>1 DEF HaltHolds
  <1> QED BY <1>2, <1>3 DEF AccountStep

\* The portfolio of a trade: only a buy changes it, by its outlay.
LEMMA TradePortfolio ==
  ASSUME TypeOK, NEW side \in Sides, NEW n \in Nat, NEW ts, NEW notional \in Nat, NEW charge,
         Trade(side, n, ts, notional, charge)
  PROVE  /\ ~IsBuy(side) => portfolio' = portfolio
         /\ IsBuy(side) => portfolio'.outlay[MarketId]
                             = portfolio.outlay[MarketId] + Scale * notional
  <1>1. Scale * notional \in Nat /\ MarketId \in Markets
    BY ProductNat, RunnerAssumptions
  <1>2. Shaped(portfolio)
    BY DEF TypeOK, Shaped
  <1>3. RecordOutlay(portfolio, MarketId, ts, Scale * notional).outlay
          = [portfolio.outlay EXCEPT ![MarketId] = @ + Scale * notional]
    BY <1>1, <1>2, RecordOutlayKeeps
  <1>4. [portfolio.outlay EXCEPT ![MarketId] = @ + Scale * notional][MarketId]
          = portfolio.outlay[MarketId] + Scale * notional
    BY <1>1, <1>2 DEF Shaped
  <1>5. ~IsBuy(side) => portfolio' = portfolio
    BY DEF Trade
  <1>6. IsBuy(side) => portfolio' = RecordOutlay(portfolio, MarketId, ts, Scale * notional)
    BY DEF Trade
  <1> QED BY <1>3, <1>4, <1>5, <1>6

\* A purchase that passed the gates is a Buy of the account.
LEMMA BuyStep ==
  ASSUME TypeOK, TypeOK', phase # "resolved", phase' = phase,
         NEW side \in Sides, IsBuy(side), NEW n \in Nat \ {0}, NEW ts, NEW notional \in Nat,
         NEW charge \in Int, NEW cost \in Nat,
         Trade(side, n, ts, notional, charge),
         CanOpen(portfolio, MarketId, cost), Scale * notional <= cost,
         notional <= (Unit - 1) * n,
         charge <= TakerFee * notional, charge >= 0 - MakerRebate * notional
  PROVE  AccountStep
  <1> DEFINE t     == Token(side)
             value == Scale * notional
             out   == portfolio.outlay[MarketId]
  <1>1. /\ t \in Tokens /\ shares \in [Tokens -> Nat] /\ shares' \in [Tokens -> Nat]
        /\ cash \in Nat /\ cash' \in Nat /\ portfolio.outlay \in [Markets -> Nat]
    BY DEF TypeOK, Token
  <1>2. /\ Scale \in Nat /\ Scale > 0 /\ Unit \in Nat /\ Unit >= 2 /\ MarketId \in Markets
        /\ TakerFee \in Nat /\ MakerRebate \in Nat
        /\ MaxClip \in Nat /\ MaxPerMarketExposure \in Nat /\ MaxDailyExposure \in Nat
    BY RunnerAssumptions, RiskLimits
  <1>3. value \in Nat /\ out \in Nat
    BY <1>1, <1>2, ProductNat
  <1>4. /\ shares' = [shares EXCEPT ![t] = shares[t] + n]
        /\ shares'[t] = shares[t] + n
        /\ cash' = cash - charge + (0 - value)
    BY <1>1 DEF Trade
  <1>5. portfolio'.outlay[MarketId] = out + value
    BY TradePortfolio
  <1>6. portfolio.halt = "none" /\ cost <= MaxClip /\ out + cost <= MaxPerMarketExposure
    BY DEF CanOpen, MarketExposure
  <1>7. value < Scale * Unit * n
    <2>1. (Unit - 1) * n = Unit * n - n /\ Unit * n \in Nat
      BY <1>2, ProductNat
    <2>2. notional + 1 <= Unit * n
      BY <1>2, <2>1
    <2>3. (notional + 1) * Scale <= (Unit * n) * Scale
      BY <1>2, <2>1, <2>2, ProductMonotone
    <2>4. (notional + 1) * Scale = Scale * notional + Scale
      BY <1>2
    <2>5. (Unit * n) * Scale = Scale * Unit * n
      BY <1>2
    <2> QED BY <1>2, <1>3, <2>3, <2>4, <2>5
  <1>8. Account!ChargeOK(charge, value)
    <2> DEFINE fee == TakerFee * notional
               rebate == MakerRebate * notional
    <2>1. fee \in Nat /\ rebate \in Nat /\ charge <= fee /\ charge >= 0 - rebate
      BY <1>2, ProductNat
    <2>2. \A a, b \in Int, c \in Nat : a <= b => c * a <= c * b
      OBVIOUS
    <2> HIDE DEF fee, rebate
    <2>3. Scale * charge <= Scale * fee /\ Scale * charge >= Scale * (0 - rebate)
      BY <1>2, <2>1, <2>2
    <2>4. Scale * fee = TakerFee * value
      BY <1>2 DEF fee
    <2>5. Scale * (0 - rebate) = 0 - MakerRebate * value
      BY <1>2 DEF rebate
    <2> QED BY <2>3, <2>4, <2>5 DEF Account!ChargeOK
  <1> HIDE DEF t, value, out
  <1>9. Account!Buy(t)
    <2>1. portfolio'.outlay[MarketId] - portfolio.outlay[MarketId] = value
      BY <1>3, <1>5 DEF out
    <2>2. (cash - cash') - value = charge
      BY <1>1, <1>3, <1>4
    <2>3. Account!Moves(t) /\ shares'[t] > shares[t]
      <3>1. Account!Moves(t)
        BY <1>4, Zenon DEF Account!Moves
      <3>2. shares'[t] > shares[t]
        BY <1>1, <1>4
      <3> QED BY <3>1, <3>2
    <2>4. /\ value >= 0 /\ value <= MaxClip /\ portfolio'.outlay[MarketId] <= MaxPerMarketExposure
      BY <1>2, <1>3, <1>5, <1>6 DEF value
    <2>5. value < Scale * Unit * (shares'[t] - shares[t])
      <3>1. shares'[t] - shares[t] = n
        BY <1>1, <1>4
      <3> QED BY <1>7, <3>1
    <2> QED BY <1>1, <1>6, <1>8, <2>1, <2>2, <2>3, <2>4, <2>5 DEF Account!Buy
  <1>10. HaltHolds
    BY <1>6 DEF HaltHolds
  <1> QED BY <1>1, <1>9, <1>10 DEF AccountStep, Account!Next

\* A sale that passed the gates is a Sell of the account.
LEMMA SellStep ==
  ASSUME TypeOK, TypeOK', phase # "resolved", phase' = phase,
         NEW side \in Sides, ~IsBuy(side), NEW n \in Nat \ {0}, NEW ts, NEW notional \in Nat,
         NEW charge \in Int, Trade(side, n, ts, notional, charge), charge <= Scale * notional
  PROVE  AccountStep
  <1> DEFINE t     == Token(side)
             value == Scale * notional
  <1>1. /\ t \in Tokens /\ shares \in [Tokens -> Nat] /\ shares' \in [Tokens -> Nat]
        /\ cash \in Nat /\ cash' \in Nat
    BY DEF TypeOK, Token
  <1>2. value \in Nat
    BY ProductNat, RunnerAssumptions
  <1>3. /\ shares' = [shares EXCEPT ![t] = shares[t] - n]
        /\ shares'[t] = shares[t] - n
        /\ cash' = cash - charge + value
    BY <1>1 DEF Trade
  <1>4. portfolio' = portfolio
    BY TradePortfolio
  <1> HIDE DEF t
  <1>5. Account!Sell(t)
    <2>1. Account!Moves(t)
      BY <1>3, Zenon DEF Account!Moves
    <2>2. shares'[t] < shares[t] /\ shares'[t] >= 0
      BY <1>1, <1>3
    <2>3. cash' >= cash
      <3> HIDE DEF value
      <3>1. charge <= value
        BY DEF value
      <3> QED BY <1>1, <1>2, <1>3, <3>1
    <2> QED BY <1>4, <2>1, <2>2, <2>3 DEF Account!Sell
  <1>6. HaltHolds
    <2>1. \A u \in Tokens : shares'[u] <= shares[u]
      BY <1>1, <1>3
    <2> QED BY <1>4, <2>1 DEF HaltHolds
  <1> QED BY <1>1, <1>5, <1>6 DEF AccountStep, Account!Next

\* MakerFill is a step of the account or changes nothing of it.
LEMMA MakerFillStep ==
  ASSUME TypeOK, TypeOK', NEW k \in 1 .. Len(resting[book]), MakerFill(k)
  PROVE  AccountStep
  <1> DEFINE o        == resting[book][k]
             n        == FillShares(k)
             notional == n * NativePrice(o)
             charge   == 0 - MakerRebate * notional
             cost     == Scale * notional
  <1>0. /\ phase \in {"trades", "cross"} /\ phase' = phase /\ NextHit(k)
        /\ Verdict(o.side, n, cost) = "ok" /\ Trade(o.side, n, FillTs, notional, charge)
    BY DEF MakerFill
  <1>1. o \in RestingOrders /\ n \in Nat /\ notional \in Nat
    BY <1>0, HitType
  <1>2. o.side \in Sides /\ NativePrice(o) \in 1 .. Unit - 1 /\ o.shares \in Nat \ {0}
    BY <1>1, NativePriceType DEF RestingOrders
  <1>3. n # 0
    <2>1. Hit(k)
      BY <1>0 DEF NextHit
    <2>2. remaining \in Nat
      BY DEF TypeOK
    <2>3. phase = "trades" => remaining > 0
      BY <1>0, <2>1 DEF Hit
    <2> QED BY <1>2, <2>2, <2>3 DEF FillShares, Least
  <1>4. notional <= (Unit - 1) * n
    BY <1>1, <1>2, NotionalBounds
  <1>5. /\ MakerRebate * notional \in Nat /\ TakerFee * notional \in Nat /\ cost \in Nat
    BY <1>1, ProductNat, RunnerAssumptions
  <1>6. /\ charge \in Int /\ charge <= TakerFee * notional /\ charge >= 0 - MakerRebate * notional
        /\ charge <= cost
    BY <1>5
  <1>7. phase # "resolved"
    BY <1>0
  <1> HIDE DEF o, n, notional, charge
  <1>8. CASE IsBuy(o.side)
    <2>1. CanOpen(portfolio, MarketId, cost)
      BY <1>0, <1>1, <1>2, <1>5, <1>8, VerdictOK
    <2>2. Scale * notional <= cost
      BY <1>5
    <2> HIDE DEF cost
    <2> QED BY <1>0, <1>1, <1>2, <1>3, <1>4, <1>5, <1>6, <1>7, <1>8, <2>1, <2>2, BuyStep
  <1>9. CASE ~IsBuy(o.side)
    BY <1>0, <1>1, <1>2, <1>3, <1>6, <1>7, <1>9, SellStep
  <1> QED BY <1>8, <1>9

\* A taker order trades as the account allows or not at all.
LEMMA ApplyTakerStep ==
  ASSUME TypeOK, TypeOK', phase # "resolved", phase' = phase,
         NEW id, NEW req \in OrderReqs, NEW cs, NEW bl, ApplyTaker(id, req, cs, bl)
  PROVE  AccountStep
  <1> DEFINE s        == Sweep(event, req)
             notional == Slip(req.side, s)
             n        == s.filled
             verdict  == TakerVerdict(req, s, notional)
             fee      == TakerFee * notional
             value    == Scale * notional
             cost     == IF IsBuy(req.side) THEN value + fee ELSE 0
  <1>0. /\ event \in [ts : Nat, bids : [1 .. Depth -> Levels], asks : [1 .. Depth -> Levels]]
        /\ TakerFee \in Nat /\ TakerFee <= Scale /\ Scale \in Nat /\ MakerRebate \in Nat
        /\ req.side \in Sides
    BY RunnerAssumptions DEF TypeOK, OrderReqs
  <1>1. SweepOK(req, s)
    BY <1>0, SweepType
  <1> HIDE DEF s
  <1>2. n \in Nat /\ notional \in Nat /\ notional <= (Unit - 1) * n
    BY <1>0, <1>1, SlipBounds DEF SweepOK
  <1> HIDE DEF notional
  <1>3. fee \in Nat /\ value \in Nat /\ fee <= value /\ MakerRebate * notional \in Nat
    BY <1>0, <1>2, ProductNat, ProductMonotone
  <1>4. CASE verdict = "ok"
    <2>1. Trade(req.side, n, event.ts, notional, fee)
      BY <1>4 DEF ApplyTaker, s, notional
    <2>2. n # 0 /\ Verdict(req.side, n, cost) = "ok"
      BY <1>4 DEF TakerVerdict
    <2>3. cost \in Nat
      BY <1>3
    <2>4. CASE IsBuy(req.side)
      <3>1. value <= cost
        BY <1>3, <2>4
      <3>2. CanOpen(portfolio, MarketId, cost)
        <4> HIDE DEF cost, n
        <4> QED BY <1>0, <1>2, <2>2, <2>3, <2>4, VerdictOK
      <3>3. fee \in Int /\ fee >= 0 - MakerRebate * notional /\ fee <= fee
        BY <1>3
      <3> HIDE DEF cost, n
      <3> QED BY <1>0, <1>2, <2>1, <2>2, <2>3, <2>4, <3>1, <3>2, <3>3, BuyStep
    <2>5. CASE ~IsBuy(req.side)
      <3>1. fee \in Int /\ n \in Nat \ {0}
        BY <1>2, <1>3, <2>2
      <3> HIDE DEF cost, n
      <3> QED BY <1>0, <1>2, <1>3, <2>1, <2>5, <3>1, SellStep
    <2> QED BY <2>4, <2>5
  <1>5. CASE verdict # "ok"
    <2>1. UNCHANGED account
      BY <1>5 DEF ApplyTaker, s, notional
    <2> QED BY <2>1, StutterStep DEF account
  <1> QED BY <1>4, <1>5

\* Submit is a step of the account or changes nothing of it.
LEMMA SubmitStep ==
  ASSUME TypeOK, TypeOK', NEW req \in Requests, Submit(req)
  PROVE  AccountStep
  <1> DEFINE id == Len(blotter) + 1
             cs == Bump(counters, "submitted")
             bl == Append(blotter, [req |-> req, event |-> events_processed, ts |-> event.ts,
                                    filled |-> 0, paid |-> 0, fate |-> "open"])
  <1>1. req \in OrderReqs
    BY RunnerAssumptions
  <1>2. phase # "resolved" /\ phase' = phase
    BY DEF Submit, control
  <1>3. SubmitTaker(id, req, cs, bl) \/ RestMaker(id, req, cs, bl)
    BY DEF Submit
  <1> HIDE DEF id, cs, bl
  <1>4. ApplyTaker(id, req, cs, bl) \/ UNCHANGED account
    BY <1>3 DEF SubmitTaker, RestMaker
  <1>5. CASE ApplyTaker(id, req, cs, bl)
    BY <1>1, <1>2, <1>5, ApplyTakerStep
  <1>6. CASE UNCHANGED account
    BY <1>2, <1>6, StutterStep DEF account
  <1> QED BY <1>4, <1>5, <1>6

\* ExecutePending is a step of the account or changes nothing of it.
LEMMA ExecutePendingStep ==
  ASSUME TypeOK, TypeOK', NEW k \in 1 .. Len(pending_takers), ExecutePending(k)
  PROVE  AccountStep
  <1>1. pending_takers[k].req \in OrderReqs
    <2>1. pending_takers \in Seq(PendingOrders)
      BY DEF TypeOK
    <2>2. pending_takers[k] \in PendingOrders
      BY <2>1
    <2> QED BY <2>2 DEF PendingOrders
  <1>2. /\ phase # "resolved" /\ phase' = phase
        /\ ApplyTaker(pending_takers[k].id, pending_takers[k].req, counters, blotter)
    BY DEF ExecutePending
  <1> QED BY <1>1, <1>2, ApplyTakerStep

\* EndEvent is a step of the account or changes nothing of it.
LEMMA EndEventStep ==
  ASSUME TypeOK, EndEvent
  PROVE  AccountStep
  <1>1. /\ phase # "resolved" /\ phase' # "resolved"
        /\ portfolio' = Mark(portfolio, MarkToMarket)
        /\ UNCHANGED <<cash, shares>>
    BY DEF EndEvent, Stage
  <1>2. /\ portfolio'.outlay = portfolio.outlay
        /\ portfolio.halt # "none" => portfolio'.halt = portfolio.halt
    <2>1. Shaped(portfolio)
      BY DEF TypeOK, Shaped
    <2> QED BY <1>1, <2>1, MarkToMarketType, MarkKeeps
  <1>3. Account!HaltForGood \/ UNCHANGED Account!vars
    BY <1>1, <1>2 DEF Account!HaltForGood, Account!vars
  <1>4. HaltHolds
    <2>1. shares \in [Tokens -> Nat]
      BY DEF TypeOK
    <2> QED BY <1>1, <1>2, <2>1 DEF HaltHolds
  <1> QED BY <1>3, <1>4 DEF AccountStep, Account!Next

\* Resolve is a step of the account or changes nothing of it.
LEMMA ResolveStep ==
  ASSUME TypeOK, NEW winner \in Tokens, Resolve(winner)
  PROVE  AccountStep
  <1>1. /\ phase # "resolved" /\ phase' = "resolved"
        /\ end_equity' = cash + Scale * Unit * shares[winner]
        /\ portfolio' = Mark(portfolio, end_equity')
        /\ UNCHANGED <<cash, shares>>
    BY DEF Resolve, Stage
  <1>2. /\ portfolio'.outlay = portfolio.outlay
        /\ portfolio.halt # "none" => portfolio'.halt = portfolio.halt
    <2>1. Shaped(portfolio)
      BY DEF TypeOK, Shaped
    <2>2. end_equity' \in Int
      BY <1>1, EndEquityType
    <2> QED BY <1>1, <2>1, <2>2, MarkKeeps
  <1>3. Account!Settle(winner)
    BY <1>1, <1>2 DEF Account!Settle
  <1>4. HaltHolds
    <2>1. shares \in [Tokens -> Nat]
      BY DEF TypeOK
    <2> QED BY <1>1, <1>2, <2>1 DEF HaltHolds
  <1> QED BY <1>3, <1>4 DEF AccountStep, Account!Next

\* Every step of a run is a step of the account, or none.
LEMMA NextStep == TypeOK /\ TypeOK' /\ [Next]_vars => AccountStep
  <1> SUFFICES ASSUME TypeOK, TypeOK', [Next]_vars PROVE AccountStep
    OBVIOUS
  <1>1. ASSUME NEW ts \in OpenTs .. CloseTs, NEW snapshot \in Books, BeginEvent(ts, snapshot)
        PROVE  AccountStep
    BY <1>1, StutterStep DEF BeginEvent, StartTrades, Stage, account
  <1>2. ASSUME NEW k \in 1 .. Len(resting[book]), MakerFill(k)
        PROVE  AccountStep
    BY <1>2, MakerFillStep
  <1>3. ASSUME NEW k \in 1 .. Len(resting[book]), MakerReject(k) \/ BreakerCancel(k)
        PROVE  AccountStep
    BY <1>3, StutterStep DEF MakerReject, BreakerCancel, account
  <1>4. CASE NextPrint
    BY <1>4, StutterStep DEF NextPrint, account
  <1>5. CASE EndTrades \/ EndCross \/ EndTakers \/ EndBreaker
    BY <1>5, StutterStep DEF EndTrades, EndCross, EndTakers, EndBreaker, Stage, account
  <1>6. ASSUME NEW k \in 1 .. Len(pending_takers), ExecutePending(k)
        PROVE  AccountStep
    BY <1>6, ExecutePendingStep
  <1>7. ASSUME NEW req \in Requests, ModelGateReject(req)
        PROVE  AccountStep
    BY <1>7, StutterStep DEF ModelGateReject, control, account
  <1>8. ASSUME NEW req \in Requests, Submit(req)
        PROVE  AccountStep
    BY <1>8, SubmitStep
  <1>9. CASE EndEvent
    BY <1>9, EndEventStep
  <1>10. ASSUME NEW winner \in Tokens, Resolve(winner)
         PROVE  AccountStep
    BY <1>10, ResolveStep
  <1>11. CASE UNCHANGED vars
    <2>1. UNCHANGED Account!vars
      BY <1>11 DEF vars, control, account, Account!vars
    <2>2. shares \in [Tokens -> Nat] /\ UNCHANGED <<shares, portfolio>>
      BY <1>11 DEF TypeOK, vars, account
    <2>3. HaltHolds
      BY <2>2 DEF HaltHolds
    <2> QED BY <2>1, <2>3 DEF AccountStep
  <1>12. CASE Terminated
    BY <1>11, <1>12 DEF Terminated
  <1> QED
    BY <1>1, <1>2, <1>3, <1>4, <1>5, <1>6, <1>7, <1>8, <1>9, <1>10, <1>11, <1>12 DEF Next

\* A run starts as an account does.
LEMMA InitAccount == Init => Account!Init
  <1> SUFFICES ASSUME Init PROVE Account!Init
    OBVIOUS
  <1>1. /\ phase # "resolved" /\ cash = StartingCash /\ shares = [t \in Tokens |-> 0]
        /\ portfolio = Mark(NewPortfolio(StartingCash), StartingCash)
    BY DEF Init
  <1>2. StartingCash \in Nat /\ MaxDrawdownPct \in 1 .. 100 /\ MarketId \in Markets
    BY RiskLimits, RunnerAssumptions
  <1>3. portfolio.outlay[MarketId] = 0
    <2>1. Shaped(NewPortfolio(StartingCash))
      BY <1>2 DEF Shaped, NewPortfolio, HaltReasons
    <2>2. portfolio.outlay = NewPortfolio(StartingCash).outlay
      BY <1>1, <1>2, <2>1, MarkKeeps
    <2> QED BY <1>2, <2>2 DEF NewPortfolio
  <1>4. portfolio.halt = "none"
    <2>1. ~DrawnDown(StartingCash, StartingCash)
      <3>1. StartingCash > 0 => MaxDrawdownPct * StartingCash > 0
        BY <1>2
      <3> QED BY <1>2, <3>1 DEF DrawnDown
    <2> QED BY <1>1, <1>2, <2>1 DEF Mark, NewPortfolio
  <1> QED BY <1>1, <1>3, <1>4 DEF Account!Init

\* Whatever the books, tapes, requests and limits, the fills, gates, breaker
\* and settlement of a run are the account's: paid for in full, never sold
\* short, within the clip and market caps, none bought once halted, and
\* settled once.
THEOREM ImplementsAccount == Spec => AccountSpec
  <1>1. TypeOK /\ TypeOK' /\ [Next]_vars => [Account!Next]_(Account!vars)
    BY NextStep DEF AccountStep
  <1> QED BY <1>1, TypeCorrect, InitAccount, PTL DEF Spec, AccountSpec, Account!Spec

\* A halt is for good, and nothing is bought after it, whichever queue the
\* order waited in when the portfolio halted.
THEOREM HaltIsFinal == Spec => HaltStopsBuying
  <1>1. TypeOK /\ TypeOK' /\ [Next]_vars => [HaltHolds]_vars
    BY NextStep DEF AccountStep
  <1> QED BY <1>1, TypeCorrect, PTL DEF Spec, HaltStopsBuying, HaltHolds
\* What is charged adds up: a lot that costs no more than its share of the
\* outlay keeps the loss within the outlay's share.
LEMMA LossAddsUp ==
  ASSUME NEW scale \in Nat, NEW rate \in Nat, NEW start \in Nat,
         NEW b \in Nat, NEW bn \in Nat, NEW o \in Nat, NEW on \in Nat,
         scale * (start - b) <= (scale + rate) * o,
         scale * ((b - bn) - (on - o)) <= rate * (on - o)
  PROVE  scale * (start - bn) <= (scale + rate) * on
  <1>1. scale * (start - bn) = scale * (start - b) + scale * ((b - bn) - (on - o)) + scale * (on - o)
    OBVIOUS
  <1>2. (scale + rate) * on = (scale + rate) * o + scale * (on - o) + rate * (on - o)
    OBVIOUS
  <1> DEFINE p == scale * (start - b)
             q == scale * ((b - bn) - (on - o))
             r == scale * (on - o)
             u == (scale + rate) * o
             v == rate * (on - o)
  <1>3. p \in Int /\ q \in Int /\ r \in Int /\ u \in Int /\ v \in Int
    OBVIOUS
  <1>4. p <= u /\ q <= v
    OBVIOUS
  <1>5. scale * (start - bn) = p + q + r /\ (scale + rate) * on = u + r + v
    BY <1>1, <1>2
  <1> HIDE DEF p, q, r, u, v
  <1> QED BY <1>3, <1>4, <1>5

\* A run that loses nothing more keeps its bound.
LEMMA LossNoMore ==
  ASSUME NEW scale \in Nat, NEW start \in Nat, NEW b \in Nat, NEW bn \in Nat, NEW u \in Int,
         bn >= b, scale * (start - b) <= u
  PROVE  scale * (start - bn) <= u
  <1>1. scale * (start - bn) = scale * (start - b) - scale * (bn - b)
    OBVIOUS
  <1>2. scale * (bn - b) \in Nat
    BY ProductNat, bn - b \in Nat
  <1>3. scale * (start - b) \in Int
    OBVIOUS
  <1> QED BY <1>1, <1>2, <1>3

\* A step of the account loses no more than what it lays out and the fee.
LEMMA LossStep ==
  ASSUME TypeOK, TypeOK', LossWithinExposure, [Account!Next]_(Account!vars)
  PROVE  LossWithinExposure'
  <1> DEFINE bal == IF phase = "resolved" THEN end_equity ELSE cash
             out == portfolio.outlay[MarketId]
             bound(b, o) == /\ Scale * (StartingCash - b) <= (Scale + TakerFee) * o
                            /\ o <= MaxPerMarketExposure
  <1>1. bal \in Nat /\ bal' \in Nat
    BY DEF TypeOK
  <1>2. out \in Nat /\ out' \in Nat
    <2>1. MarketId \in Markets
      BY RunnerAssumptions
    <2>2. portfolio.outlay \in [Markets -> Nat] /\ portfolio'.outlay \in [Markets -> Nat]
      BY DEF TypeOK
    <2> QED BY <2>1, <2>2
  <1>3. Scale \in Nat /\ TakerFee \in Nat /\ StartingCash \in Nat /\ Unit \in Nat
    BY RunnerAssumptions
  <1>4. bound(bal, out)
    BY DEF LossWithinExposure, Account!LossBounded
  <1>5. SUFFICES bound(bal', out')
    BY DEF LossWithinExposure, Account!LossBounded
  <1>6. ASSUME bal' >= bal, out' = out PROVE bound(bal', out')
    <2> HIDE DEF bal, out
    <2>1. (Scale + TakerFee) * out \in Int
      BY <1>2, <1>3
    <2> QED BY <1>1, <1>3, <1>4, <1>6, <2>1, LossNoMore
  <1>7. ASSUME NEW t \in Tokens, Account!Buy(t) PROVE bound(bal', out')
    <2>1. /\ Scale * ((bal - bal') - (out' - out)) <= TakerFee * (out' - out)
          /\ out' <= MaxPerMarketExposure
      BY <1>7 DEF Account!Buy, Account!ChargeOK
    <2> HIDE DEF bal, out
    <2> QED BY <1>1, <1>2, <1>3, <1>4, <2>1, LossAddsUp
  <1>8. ASSUME NEW t \in Tokens, Account!Sell(t) PROVE bound(bal', out')
    BY <1>6, <1>8 DEF Account!Sell
  <1>9. ASSUME NEW t \in Tokens, Account!Settle(t) PROVE bound(bal', out')
    <2>1. bal' = bal + Scale * Unit * shares[t] /\ out' = out
      BY <1>9 DEF Account!Settle
    <2>2. Scale * Unit * shares[t] \in Nat
      BY <1>3, ProductNat DEF TypeOK
    <2> HIDE DEF bal, out, bound
    <2> QED BY <1>1, <1>6, <2>1, <2>2
  <1>10. CASE Account!HaltForGood
    BY <1>1, <1>6, <1>10 DEF Account!HaltForGood
  <1>11. CASE UNCHANGED Account!vars
    BY <1>1, <1>6, <1>11 DEF Account!vars
  <1> QED BY <1>7, <1>8, <1>9, <1>10, <1>11 DEF Account!Next

\* No market costs more than its exposure cap and the fee on it.
THEOREM LossIsBounded == Spec => []LossWithinExposure
  <1>1. Init => LossWithinExposure
    <2> SUFFICES ASSUME Init PROVE LossWithinExposure
      OBVIOUS
    <2>1. Account!Init
      BY InitAccount
    <2>2. phase # "resolved" /\ cash = StartingCash
      BY DEF Init
    <2>3. /\ StartingCash \in Nat /\ Scale \in Nat /\ TakerFee \in Nat
          /\ MaxPerMarketExposure \in Nat
      BY RiskLimits, RunnerAssumptions
    <2>4. portfolio.outlay[MarketId] = 0
      BY <2>1 DEF Account!Init
    <2> QED BY <2>2, <2>3, <2>4 DEF LossWithinExposure, Account!LossBounded
  <1>2. TypeOK /\ TypeOK' /\ [Next]_vars /\ LossWithinExposure => LossWithinExposure'
    BY NextStep, LossStep DEF AccountStep
  <1> QED BY <1>1, <1>2, TypeCorrect, PTL DEF Spec
=============================================================================
