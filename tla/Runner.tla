------------------------------- MODULE Runner -------------------------------
(***************************************************************************)
(* run_backtest: one market replayed against one strategy, with its maker  *)
(* and taker matcher.  The code is one sequential loop over events; phase, *)
(* book and scan are its program counter, so that every fill is a step.    *)
(*                                                                         *)
(* Prices are ticks, Unit ticks make 1 USDC, shares are whole, and money   *)
(* is counted in units of 1/Scale of a tick-share, so that fees, rebates   *)
(* and half-tick mids stay integers.  The event stream and the strategy    *)
(* are the environment: any book of Books may come next, and any requests  *)
(* may be answered to it.  blotter is a history variable: it only records  *)
(* what became of each order, and no action reads it.                      *)
(***************************************************************************)
EXTENDS Risk, FiniteSets

CONSTANTS
  MarketId,          \* the market replayed
  StartingCash,      \* starting_cash_usdc
  Unit,              \* ticks in 1 USDC: what a winning share pays
  Scale,             \* money units in one tick-share (even)
  TakerFee,          \* money units charged per tick-share a taker trades
  MakerRebate,       \* money units credited per tick-share a maker trades
  BaseSlip,          \* ticks of taker_slippage_bps, per share
  NarrowBand,        \* within NarrowBand of 0 or 1 a taker slips two ticks more,
  WideBand,          \* within WideBand one tick more
  TakerLatency,      \* taker_latency_ms, in time units
  MaxImbalance,      \* max_inventory_imbalance_shares
  EnforceModelGate,  \* enforce_model_gate
  OpenTs, CloseTs,   \* the market's window
  Books,             \* book snapshots an event may carry
  Tapes,             \* trade tapes a run may be given
  Requests,          \* what a strategy may ask for
  MaxEvents, MaxOrders, MaxGateRejects  \* bounds on the environment

Tokens   == {"Yes", "No"}
BidSides == {"BuyYes", "SellNo"}    \* rest as bids for YES
AskSides == {"SellYes", "BuyNo"}    \* rest as asks for YES
Sides    == BidSides \cup AskSides
Lists    == {"bid", "ask"}          \* resting_buy_yes_sell_no, resting_sell_yes_buy_no
Depth    == 5                       \* TAPE_DEPTH

IsBuy(side)  == side \in {"BuyYes", "BuyNo"}
Token(side)  == IF side \in {"BuyYes", "SellYes"} THEN "Yes" ELSE "No"
Other(t)     == IF t = "Yes" THEN "No" ELSE "Yes"
ListOf(side) == IF side \in BidSides THEN "bid" ELSE "ask"

Least(a, b)    == IF a <= b THEN a ELSE b
Greatest(a, b) == IF a >= b THEN a ELSE b

Levels     == [price : 0 .. Unit, size : Nat]
Snapshots  == [bids : [1 .. Depth -> Levels], asks : [1 .. Depth -> Levels]]
Prints     == [ts : Nat, price : 0 .. Unit, size : Nat, aggressor_buy : BOOLEAN]
NoLimit    == 0    \* limit_price = None: a taker order
OrderReqs  == [side : Sides, shares : Nat \ {0}, max_depth : 1 .. Depth,
               limit : 0 .. Unit - 1, gated : BOOLEAN]

ASSUME RunnerAssumptions ==
  /\ MarketId \in Markets
  /\ StartingCash \in Nat
  /\ Unit \in Nat /\ Unit >= 2
  /\ Scale \in Nat \ {0} /\ Scale % 2 = 0
  /\ TakerFee \in 0 .. Scale
  /\ MakerRebate \in 0 .. Scale
  /\ BaseSlip \in Nat /\ NarrowBand \in Nat /\ WideBand \in Nat
  /\ TakerLatency \in Nat
  /\ MaxImbalance \in Nat
  /\ EnforceModelGate \in BOOLEAN
  /\ OpenTs \in Nat /\ CloseTs \in Nat /\ OpenTs <= CloseTs
  /\ Books \subseteq Snapshots
  /\ Tapes \subseteq Seq(Prints)
  /\ Requests \subseteq OrderReqs
  /\ MaxEvents \in Nat /\ MaxOrders \in Nat /\ MaxGateRejects \in Nat

VARIABLES
  phase,             \* where in the event loop the run is
  book,              \* which resting list is being scanned
  scan,              \* index of the scan (i in the code's while loops)
  remaining,         \* shares of the current print not yet matched
  event,             \* the event being replayed: its time and its book
  events_processed,
  trades,            \* the trade tape
  trade_cursor,      \* prints consumed; one cursor serves both lists
  resting,           \* the two resting lists
  pending_takers,
  cash, shares,      \* cash, yes_shares and no_shares
  portfolio,
  counters,
  total_rebates,
  end_equity,        \* cash plus settlement, once resolved
  blotter            \* history: what became of each submitted order

account == <<cash, shares, portfolio, total_rebates>>
control == <<phase, book, scan, remaining>>
input   == <<event, events_processed, trades>>
vars    == <<control, input, trade_cursor, resting, pending_takers, account,
             counters, end_equity, blotter>>
-----------------------------------------------------------------------------
(* The book, the tape and prices.                                          *)

BestBid(ev) == ev.bids[1].price
BestAsk(ev) == ev.asks[1].price

\* Twice the mid: the mean of the two quotes, or the only one there is.
Mid2(ev) == IF BestBid(ev) > 0 /\ BestAsk(ev) > 0
            THEN BestBid(ev) + BestAsk(ev)
            ELSE 2 * Greatest(BestBid(ev), BestAsk(ev))

MarkToMarket ==
  cash + (Scale \div 2) * (shares["Yes"] * Mid2(event) + shares["No"] * (2 * Unit - Mid2(event)))

\* A NO price seen from the YES book, and back.
LimitToYesTerms(side, limit) == IF Token(side) = "Yes" THEN limit ELSE Unit - limit
NativePrice(o)               == LimitToYesTerms(o.side, o.limit_yes)

\* The sides a taker trades against, in its own terms.
NativeLevel(ev, side, k) ==
  CASE side = "BuyYes"  -> ev.asks[k]
    [] side = "SellYes" -> ev.bids[k]
    [] side = "BuyNo"   -> [ev.bids[k] EXCEPT !.price = Unit - @]
    [] side = "SellNo"  -> [ev.asks[k] EXCEPT !.price = Unit - @]

\* notional / n respects the limit.
RespectsLimit(side, notional, n, limit) ==
  \/ limit = NoLimit
  \/ IsBuy(side) /\ notional <= limit * n
  \/ ~IsBuy(side) /\ notional >= limit * n

\* One level of depth_weighted_fill: taken if the sweep may use it.
TakeLevel(ev, req, k, acc) ==
  LET lvl == NativeLevel(ev, req.side, k)
      n   == Least(req.shares - acc.filled, lvl.size)
  IN  IF /\ k <= req.max_depth
         /\ lvl.price \in 1 .. Unit - 1
         /\ RespectsLimit(req.side, lvl.price, 1, req.limit)
      THEN [filled |-> acc.filled + n, notional |-> acc.notional + n * lvl.price]
      ELSE acc

\* The loop over the TAPE_DEPTH levels, unrolled.
Sweep(ev, req) ==
  LET s1 == TakeLevel(ev, req, 1, [filled |-> 0, notional |-> 0])
      s2 == TakeLevel(ev, req, 2, s1)
      s3 == TakeLevel(ev, req, 3, s2)
      s4 == TakeLevel(ev, req, 4, s3)
  IN  TakeLevel(ev, req, 5, s4)

\* Slippage moves the swept notional against the taker, inside (0, 1).
Slip(side, s) ==
  LET near(band) == s.notional <= band * s.filled \/ s.notional >= (Unit - band) * s.filled
      ticks      == BaseSlip + (IF near(NarrowBand) THEN 2 ELSE IF near(WideBand) THEN 1 ELSE 0)
  IN  IF IsBuy(side)
      THEN Least(s.notional + ticks * s.filled, (Unit - 1) * s.filled)
      ELSE Greatest(s.notional - ticks * s.filled, s.filled)
-----------------------------------------------------------------------------
(* The gates every fill passes, and what a fill does to the account.       *)

\* Faulty variant: a sale is not checked against what is held.
UnbackedVerdict(side, n, cost) ==
  CASE IsBuy(side) /\ ~CanOpen(portfolio, MarketId, cost) -> "risk_gate"
    [] IsBuy(side) /\ CanOpen(portfolio, MarketId, cost) /\ cost > cash -> "no_cash"
    [] OTHER -> "ok"

Verdict(side, n, cost) ==
  CASE IsBuy(side) /\ ~CanOpen(portfolio, MarketId, cost) -> "risk_gate"
    [] IsBuy(side) /\ CanOpen(portfolio, MarketId, cost) /\ cost > cash -> "no_cash"
    [] ~IsBuy(side) /\ n > shares[Token(side)] -> "no_inventory"
    [] OTHER -> "ok"

Bump(cs, name) == [cs EXCEPT ![name] = @ + 1]

\* Faulty variant: what the risk gate refuses is not counted.
QuietlyRejected(cs, verdict) == IF verdict = "risk_gate" THEN cs ELSE Bump(cs, verdict)

\* Every rejection is counted under its reason.
Rejected(cs, verdict) == Bump(cs, verdict)

\* Faulty variant: only YES buys are recorded as outlay.
YesOnlyTrade(side, n, ts, notional, charge) ==
  /\ shares' = [shares EXCEPT ![Token(side)] = IF IsBuy(side) THEN @ + n ELSE @ - n]
  /\ cash' = cash - charge + (IF IsBuy(side) THEN 0 - Scale * notional ELSE Scale * notional)
  /\ portfolio' = IF side = "BuyYes"
                  THEN RecordOutlay(portfolio, MarketId, ts, Scale * notional)
                  ELSE portfolio

\* Faulty variant: a sale frees the outlay of what it sold.
NettingTrade(side, n, ts, notional, charge) ==
  /\ shares' = [shares EXCEPT ![Token(side)] = IF IsBuy(side) THEN @ + n ELSE @ - n]
  /\ cash' = cash - charge + (IF IsBuy(side) THEN 0 - Scale * notional ELSE Scale * notional)
  /\ portfolio' = IF IsBuy(side)
                  THEN RecordOutlay(portfolio, MarketId, ts, Scale * notional)
                  ELSE [portfolio EXCEPT !.outlay[MarketId] = Greatest(0, @ - Scale * notional)]

\* n shares change hands for notional tick-shares; charge is the fee, or
\* less the rebate.
Trade(side, n, ts, notional, charge) ==
  /\ shares' = [shares EXCEPT ![Token(side)] = IF IsBuy(side) THEN @ + n ELSE @ - n]
  /\ cash' = cash - charge + (IF IsBuy(side) THEN 0 - Scale * notional ELSE Scale * notional)
  /\ portfolio' = IF IsBuy(side)
                  THEN RecordOutlay(portfolio, MarketId, ts, Scale * notional)
                  ELSE portfolio

\* The blotter after order id traded n more shares for notional, or closed.
Filled(bl, id, n, notional, fate) ==
  LET e == bl[id]
  IN  [bl EXCEPT ![id] = [req |-> e.req, event |-> e.event, ts |-> e.ts,
                          filled |-> e.filled + n, paid |-> e.paid + notional, fate |-> fate]]
Closed(bl, id, fate) == [bl EXCEPT ![id] = [bl[id] EXCEPT !.fate = fate]]
-----------------------------------------------------------------------------
(* Control: the stages of one pass through the event loop.                 *)

Stage(p, b) == phase' = p /\ book' = b /\ scan' = 1 /\ remaining' = 0

\* A list is offered the prints only if it is not empty when its turn comes.
StartTrades ==
  IF resting["bid"] # <<>> THEN Stage("trades", "bid")
  ELSE IF resting["ask"] # <<>> THEN Stage("trades", "ask")
  ELSE Stage("cross", "bid")

\* A new event inside [market_open, market_close]; earlier ones are skipped,
\* a later one ends the run (Resolve).
BeginEvent(ts, snapshot) ==
  /\ phase = "idle"
  /\ events_processed < MaxEvents
  /\ ts \in OpenTs .. CloseTs /\ ts >= event.ts
  /\ event' = [ts |-> ts, bids |-> snapshot.bids, asks |-> snapshot.asks]
  /\ events_processed' = events_processed + 1
  /\ StartTrades
  /\ UNCHANGED <<trades, trade_cursor, resting, pending_takers, account, counters,
                 end_equity, blotter>>
-----------------------------------------------------------------------------
(* check_trade_driven_resting_fills and check_resting_fills.               *)

\* The print trades through the order, after it was submitted.
PrintFills(t, o) ==
  /\ t.ts > o.submit_ts
  /\ \/ o.side \in BidSides /\ ~t.aggressor_buy /\ t.price <= o.limit_yes
     \/ o.side \in AskSides /\ t.aggressor_buy /\ t.price >= o.limit_yes

\* The book strictly crosses past the order's limit.
Crossed(ev, o) ==
  \/ o.side \in BidSides /\ BestAsk(ev) > 0 /\ BestAsk(ev) < o.limit_yes
  \/ o.side \in AskSides /\ BestBid(ev) > 0 /\ BestBid(ev) > o.limit_yes

\* The order at k of the scanned list is hit by what this stage looks at.
Hit(k) ==
  \/ phase = "trades" /\ remaining > 0 /\ PrintFills(trades[trade_cursor], resting[book][k])
  \/ phase = "cross" /\ Crossed(event, resting[book][k])

\* k is where the scan stops next.
NextHit(k) ==
  /\ k \in scan .. Len(resting[book])
  /\ Hit(k)
  /\ \A j \in scan .. k - 1 : ~Hit(j)

ScanOver == \A k \in scan .. Len(resting[book]) : ~Hit(k)

\* Faulty variant: the last element is dropped instead of the one at k.
PopLast(s, k) == [j \in 1 .. Len(s) - 1 |-> s[j]]

\* Vec::swap_remove: the last element takes the place of the removed one.
SwapRemove(s, k) == [j \in 1 .. Len(s) - 1 |-> IF j = k THEN s[Len(s)] ELSE s[j]]

FillShares(k) ==
  IF phase = "trades" THEN Least(remaining, resting[book][k].shares) ELSE resting[book][k].shares

\* Faulty variant: a partial fill leaves the order whole.
WholeAfterFill(s, k, n) == IF n >= s[k].shares THEN SwapRemove(s, k) ELSE s

\* The list after the order at k filled n shares: gone, or smaller.
AfterFill(s, k, n) ==
  IF n >= s[k].shares THEN SwapRemove(s, k) ELSE [s EXCEPT ![k] = [s[k] EXCEPT !.shares = @ - n]]

\* Faulty variant: the scan moves on over the order swapped into k.
ScanOnward(k, removed) == k + 1

\* The scan looks at k again if another order was swapped into it.
ScanAfter(k, removed) == IF removed THEN k ELSE k + 1

FillTs == IF phase = "trades" THEN trades[trade_cursor].ts ELSE event.ts

\* The order at k fills, at its limit; a partial fill stays and the scan
\* moves on, a full one is swap-removed and k is looked at again.
MakerFill(k) ==
  LET o        == resting[book][k]
      n        == FillShares(k)
      notional == n * NativePrice(o)
      full     == n >= o.shares
  IN  /\ phase \in {"trades", "cross"} /\ NextHit(k)
      /\ Verdict(o.side, n, Scale * notional) = "ok"
      /\ Trade(o.side, n, FillTs, notional, 0 - MakerRebate * notional)
      /\ total_rebates' = total_rebates + MakerRebate * notional
      /\ counters' = Bump(counters, "filled_maker")
      /\ resting' = [resting EXCEPT ![book] = AfterFill(resting[book], k, n)]
      /\ scan' = ScanAfter(k, full)
      /\ remaining' = IF phase = "trades" THEN remaining - n ELSE remaining
      /\ blotter' = Filled(blotter, o.id, n, notional, IF full THEN "filled" ELSE "open")
      /\ UNCHANGED <<phase, book, input, trade_cursor, pending_takers, end_equity>>

\* A gate refuses the fill: the order is dropped.
MakerReject(k) ==
  LET o       == resting[book][k]
      n       == FillShares(k)
      verdict == Verdict(o.side, n, Scale * (n * NativePrice(o)))
  IN  /\ phase \in {"trades", "cross"} /\ NextHit(k)
      /\ verdict # "ok"
      /\ counters' = Rejected(counters, verdict)
      /\ resting' = [resting EXCEPT ![book] = SwapRemove(resting[book], k)]
      /\ scan' = ScanAfter(k, TRUE)
      /\ blotter' = Closed(blotter, o.id, "rejected")
      /\ UNCHANGED <<phase, book, remaining, input, trade_cursor, pending_takers, account,
                     end_equity>>

PrintDue == trade_cursor < Len(trades) /\ trades[trade_cursor + 1].ts <= event.ts

\* The print is used up or no order takes more of it: read the next one.
NextPrint ==
  /\ phase = "trades" /\ ScanOver /\ PrintDue
  /\ trade_cursor' = trade_cursor + 1
  /\ remaining' = trades[trade_cursor + 1].size
  /\ scan' = 1
  /\ UNCHANGED <<phase, book, input, resting, pending_takers, account, counters, end_equity,
                 blotter>>

EndTrades ==
  /\ phase = "trades" /\ ScanOver /\ ~PrintDue
  /\ IF book = "bid" /\ resting["ask"] # <<>> THEN Stage("trades", "ask") ELSE Stage("cross", "bid")
  /\ UNCHANGED <<input, trade_cursor, resting, pending_takers, account, counters, end_equity,
                 blotter>>

EndCross ==
  /\ phase = "cross" /\ ScanOver
  /\ IF book = "bid" THEN Stage("cross", "ask") ELSE Stage("takers", "bid")
  /\ UNCHANGED <<input, trade_cursor, resting, pending_takers, account, counters, end_equity,
                 blotter>>
-----------------------------------------------------------------------------
(* Taker orders.                                                           *)

\* Faulty variant: the limit is tested before slippage.
RawTakerVerdict(req, s, notional) ==
  IF s.filled = 0 \/ ~RespectsLimit(req.side, s.notional, s.filled, req.limit)
  THEN "no_liquidity"
  ELSE Verdict(req.side, s.filled, IF IsBuy(req.side) THEN Scale * notional + TakerFee * notional ELSE 0)

\* What a sweep s that comes to notional meets: no liquidity within the
\* limit, a gate, or nothing.  Buys must afford the fee too.
TakerVerdict(req, s, notional) ==
  IF s.filled = 0 \/ ~RespectsLimit(req.side, notional, s.filled, req.limit)
  THEN "no_liquidity"
  ELSE Verdict(req.side, s.filled, IF IsBuy(req.side) THEN Scale * notional + TakerFee * notional ELSE 0)

\* apply_taker_order: order id sweeps the book of the current event, or is
\* rejected.  cs and bl are the counters and the blotter so far.
ApplyTaker(id, req, cs, bl) ==
  LET s        == Sweep(event, req)
      notional == Slip(req.side, s)
      verdict  == TakerVerdict(req, s, notional)
  IN  \/ /\ verdict = "ok"
         /\ Trade(req.side, s.filled, event.ts, notional, TakerFee * notional)
         /\ counters' = Bump(cs, "filled_taker")
         /\ blotter' = Filled(bl, id, s.filled, notional, "filled")
         /\ UNCHANGED total_rebates
      \/ /\ verdict # "ok"
         /\ counters' = Rejected(cs, verdict)
         /\ blotter' = Closed(bl, id, "rejected")
         /\ UNCHANGED account

\* Faulty variant: an order is due at the next event, whatever its latency.
DueNextEvent(order) == TRUE

Due(order) == order.execute_after <= event.ts

\* process_pending_takers: the first due order from scan on is swap-removed
\* and executed against the current book.
ExecutePending(k) ==
  /\ phase = "takers"
  /\ k \in scan .. Len(pending_takers)
  /\ Due(pending_takers[k]) /\ \A j \in scan .. k - 1 : ~Due(pending_takers[j])
  /\ ApplyTaker(pending_takers[k].id, pending_takers[k].req, counters, blotter)
  /\ pending_takers' = SwapRemove(pending_takers, k)
  /\ scan' = ScanAfter(k, TRUE)
  /\ UNCHANGED <<phase, book, remaining, input, trade_cursor, resting, end_equity>>

\* Faulty variant: the loop goes on until nothing is pending.
NoneDueUntilDrained == pending_takers = <<>>

NoneDue == \A k \in scan .. Len(pending_takers) : ~Due(pending_takers[k])

EndTakers ==
  /\ phase = "takers" /\ NoneDue
  /\ Stage("breaker", "bid")
  /\ UNCHANGED <<input, trade_cursor, resting, pending_takers, account, counters, end_equity,
                 blotter>>
-----------------------------------------------------------------------------
(* The inventory breaker: retain() drops the buys of the heavy token from  *)
(* both lists and keeps the order of the rest.                             *)

HeavyToken(t)  == shares[t] - shares[Other(t)] > MaxImbalance
AddsToHeavy(o) == IsBuy(o.side) /\ HeavyToken(Token(o.side))

Removed(s, k) == [j \in 1 .. Len(s) - 1 |-> IF j < k THEN s[j] ELSE s[j + 1]]

BreakerCancel(k) ==
  /\ phase = "breaker"
  /\ k \in scan .. Len(resting[book]) /\ AddsToHeavy(resting[book][k])
  /\ \A j \in scan .. k - 1 : ~AddsToHeavy(resting[book][j])
  /\ resting' = [resting EXCEPT ![book] = Removed(resting[book], k)]
  /\ scan' = k
  /\ blotter' = Closed(blotter, resting[book][k].id, "cancelled")
  /\ UNCHANGED <<phase, book, remaining, input, trade_cursor, pending_takers, account, counters,
                 end_equity>>

EndBreaker ==
  /\ phase = "breaker"
  /\ \A k \in scan .. Len(resting[book]) : ~AddsToHeavy(resting[book][k])
  /\ IF book = "bid" THEN Stage("breaker", "ask") ELSE Stage("orders", "bid")
  /\ UNCHANGED <<input, trade_cursor, resting, pending_takers, account, counters, end_equity,
                 blotter>>
-----------------------------------------------------------------------------
(* The strategy's orders for the event.                                    *)

\* A request is turned away by the model gate (confidence, risk or edge);
\* the scores are the model's, so any gated request may be.
ModelGateReject(req) ==
  /\ phase = "orders"
  /\ EnforceModelGate /\ req.gated
  /\ counters.model_gate < MaxGateRejects
  /\ counters' = Bump(counters, "model_gate")
  /\ UNCHANGED <<control, input, trade_cursor, resting, pending_takers, account, end_equity,
                 blotter>>

\* submit_taker_order: at once, or after the latency.
SubmitTaker(id, req, cs, bl) ==
  \/ /\ TakerLatency = 0
     /\ ApplyTaker(id, req, cs, bl)
     /\ UNCHANGED pending_takers
  \/ /\ TakerLatency > 0
     /\ pending_takers' = Append(pending_takers,
          [id |-> id, execute_after |-> event.ts + TakerLatency, req |-> req])
     /\ counters' = cs
     /\ blotter' = bl
     /\ UNCHANGED account

\* A limit at or through the opposite quote is a taker order.
Immediate(req) ==
  LET limit_yes == LimitToYesTerms(req.side, req.limit)
  IN  IF req.side \in BidSides
      THEN BestAsk(event) > 0 /\ limit_yes >= BestAsk(event)
      ELSE BestBid(event) > 0 /\ limit_yes <= BestBid(event)

\* A buy that may not be opened is refused; any other maker order rests.
\* Nothing is reserved for it.
RestMaker(id, req, cs, bl) ==
  LET refused == /\ IsBuy(req.side)
                 /\ ~CanOpen(portfolio, MarketId, Scale * (req.shares * req.limit))
      order   == [id |-> id, side |-> req.side, limit_yes |-> LimitToYesTerms(req.side, req.limit),
                  shares |-> req.shares, submit_ts |-> event.ts]
  IN  /\ \/ /\ refused
            /\ counters' = Rejected(cs, "risk_gate")
            /\ blotter' = Closed(bl, id, "rejected")
            /\ UNCHANGED resting
         \/ /\ ~refused
            /\ resting' = [resting EXCEPT ![ListOf(req.side)] = Append(@, order)]
            /\ counters' = cs
            /\ blotter' = bl
      /\ UNCHANGED <<account, pending_takers>>

Submit(req) ==
  LET id    == Len(blotter) + 1
      cs    == Bump(counters, "submitted")
      entry == [req |-> req, event |-> events_processed, ts |-> event.ts,
                filled |-> 0, paid |-> 0, fate |-> "open"]
      bl    == Append(blotter, entry)
  IN  /\ phase = "orders"
      /\ id <= MaxOrders
      /\ \/ /\ req.limit = NoLimit \/ Immediate(req)
            /\ SubmitTaker(id, req, cs, bl)
            /\ UNCHANGED resting
         \/ /\ req.limit # NoLimit /\ ~Immediate(req)
            /\ RestMaker(id, req, cs, bl)
      /\ UNCHANGED <<control, input, trade_cursor, end_equity>>

\* The event ends: the portfolio is marked to the current mid, once.
EndEvent ==
  /\ phase = "orders"
  /\ Stage("idle", "bid")
  /\ portfolio' = Mark(portfolio, MarkToMarket)
  /\ UNCHANGED <<input, trade_cursor, resting, pending_takers, cash, shares, total_rebates,
                 counters, end_equity, blotter>>

\* The stream ends or passes the close: what still rests or waits is
\* dropped, and the winning token pays 1 USDC a share.
Resolve(winner) ==
  /\ phase = "idle"
  /\ Stage("resolved", "bid")
  /\ end_equity' = cash + Scale * Unit * shares[winner]
  /\ portfolio' = Mark(portfolio, end_equity')
  /\ LET unserved == [counters EXCEPT !["no_liquidity"] = @ + Len(pending_takers)]
     IN  counters' = [unserved EXCEPT !["cancelled_eom"] = Len(resting["bid"]) + Len(resting["ask"])]
  /\ blotter' = [id \in DOMAIN blotter |->
                   IF blotter[id].fate # "open" THEN blotter[id]
                   ELSE [blotter[id] EXCEPT !.fate =
                          IF \E k \in DOMAIN pending_takers : pending_takers[k].id = id
                          THEN "rejected" ELSE "cancelled"]]
  /\ resting' = [b \in Lists |-> <<>>]
  /\ pending_takers' = <<>>
  /\ UNCHANGED <<input, trade_cursor, cash, shares, total_rebates>>
-----------------------------------------------------------------------------
CounterNames == {"submitted", "filled_taker", "filled_maker", "no_cash", "no_liquidity",
                 "no_inventory", "risk_gate", "model_gate", "cancelled_eom"}

NoLevels == [k \in 1 .. Depth |-> [price |-> 0, size |-> 0]]

Init ==
  /\ phase = "idle" /\ book = "bid" /\ scan = 1 /\ remaining = 0
  /\ event = [ts |-> OpenTs, bids |-> NoLevels, asks |-> NoLevels]
  /\ events_processed = 0
  /\ trades \in Tapes
  /\ trade_cursor = 0
  /\ resting = [b \in Lists |-> <<>>]
  /\ pending_takers = <<>>
  /\ cash = StartingCash
  /\ shares = [t \in Tokens |-> 0]
  /\ portfolio = Mark(NewPortfolio(StartingCash), StartingCash)
  /\ counters = [c \in CounterNames |-> 0]
  /\ total_rebates = 0
  /\ end_equity = 0
  /\ blotter = <<>>

Terminated == phase = "resolved" /\ UNCHANGED vars

Next ==
  \/ \E ts \in OpenTs .. CloseTs, snapshot \in Books : BeginEvent(ts, snapshot)
  \/ \E k \in 1 .. Len(resting[book]) : MakerFill(k) \/ MakerReject(k) \/ BreakerCancel(k)
  \/ NextPrint \/ EndTrades \/ EndCross
  \/ \E k \in 1 .. Len(pending_takers) : ExecutePending(k)
  \/ EndTakers \/ EndBreaker
  \/ \E req \in Requests : ModelGateReject(req) \/ Submit(req)
  \/ EndEvent
  \/ \E winner \in Tokens : Resolve(winner)
  \/ Terminated

Spec == Init /\ [][Next]_vars

\* The loop is one thread that always takes its next step; the strategy
\* answers an event with finitely many requests.
FairSpec == Spec /\ WF_vars(Next)
=============================================================================
