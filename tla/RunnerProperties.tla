-------------------------- MODULE RunnerProperties --------------------------
(***************************************************************************)
(* What a run of the matcher must keep, and the account it implements.     *)
(***************************************************************************)
EXTENDS Runner

Fates == {"open", "filled", "rejected", "cancelled"}

RestingOrders == [id : Nat, side : Sides, limit_yes : 1 .. Unit - 1, shares : Nat \ {0},
                  submit_ts : Nat]
PendingOrders == [id : Nat, execute_after : Nat, req : OrderReqs]
BlotterEntry  == [req : OrderReqs, event : Nat, ts : Nat, filled : Nat, paid : Nat, fate : Fates]
Phases == {"idle", "trades", "cross", "takers", "breaker", "orders", "resolved"}

\* Every variable has its type.  cash and the two share counts are natural
\* numbers: a run never borrows and never sells what it does not hold,
\* although resting orders reserve neither cash nor inventory and are only
\* gated again when they fill.
TypeOK ==
  /\ phase \in Phases
  /\ book \in Lists
  /\ scan \in Nat
  /\ remaining \in Nat
  /\ event \in [ts : Nat, bids : [1 .. Depth -> Levels], asks : [1 .. Depth -> Levels]]
  /\ events_processed \in Nat
  /\ trades \in Seq(Prints)
  /\ trade_cursor \in 0 .. Len(trades)
  /\ resting \in [Lists -> Seq(RestingOrders)]
  /\ pending_takers \in Seq(PendingOrders)
  /\ cash \in Nat
  /\ shares \in [Tokens -> Nat]
  /\ portfolio.peak \in Nat
  /\ portfolio.halt \in HaltReasons
  /\ portfolio.outlay \in [Markets -> Nat]
  /\ portfolio = [peak |-> portfolio.peak, window |-> portfolio.window,
                  outlay |-> portfolio.outlay, halt |-> portfolio.halt]
  /\ counters \in [CounterNames -> Nat]
  /\ total_rebates \in Nat
  /\ end_equity \in Nat
  /\ blotter \in Seq(BlotterEntry)

\* What has been laid out on the market and in the last day stays within
\* its caps, although the gate was asked about many orders at once.
ExposureCapped ==
  /\ MarketExposure(portfolio, MarketId) <= MaxPerMarketExposure
  /\ DailyExposure(portfolio) <= MaxDailyExposure

\* An open order is in exactly one place: at one index of the list of its
\* side, or of the pending takers.  swap_remove in the middle of a scan
\* neither loses an order nor keeps a closed one.
OpenOrdersHaveOneHome ==
  \A id \in DOMAIN blotter :
    LET rests == {h \in Lists \X (1 .. MaxOrders) :
                    h[2] <= Len(resting[h[1]]) /\ resting[h[1]][h[2]].id = id}
        waits == {k \in DOMAIN pending_takers : pending_takers[k].id = id}
    IN  /\ Cardinality(rests) + Cardinality(waits) = IF blotter[id].fate = "open" THEN 1 ELSE 0
        /\ \A h \in rests : h[1] = ListOf(blotter[id].req.side)

\* A resting order is for what its partial fills left of the request, and
\* no order is ever filled beyond it.
ResidualsExact ==
  /\ \A b \in Lists : \A k \in DOMAIN resting[b] :
       LET o == resting[b][k]
       IN  o.shares = blotter[o.id].req.shares - blotter[o.id].filled
  /\ \A id \in DOMAIN blotter : blotter[id].filled <= blotter[id].req.shares

\* No order trades, over all its fills, at a price worse than its limit,
\* slippage included.
LimitsRespected ==
  \A id \in DOMAIN blotter :
    LET e == blotter[id]
    IN  e.filled > 0 => RespectsLimit(e.req.side, e.paid, e.filled, e.req.limit)

\* The report's counters account for every order once: each submitted order
\* still rests or waits, was rejected, was filled or was cancelled, and only
\* the breaker's cancellations appear in no counter.
CountersReconcile ==
  LET fated(f) == Cardinality({id \in DOMAIN blotter : blotter[id].fate = f})
  IN  /\ counters["submitted"] = Len(blotter)
      /\ fated("rejected") = counters["no_cash"] + counters["no_liquidity"]
                             + counters["no_inventory"] + counters["risk_gate"]
      /\ fated("cancelled") >= counters["cancelled_eom"]
      /\ counters["filled_taker"] + counters["filled_maker"] >= fated("filled")

\* The stage of the event loop is over.
Leaving(p) == phase = p /\ (phase' # p \/ book' # book)

\* When the code leaves a print or a list it has matched everything it
\* could: with shares of the print left, or the book past a limit, no order
\* of the list is still there, wherever swap_remove moved it.
SweepsComplete ==
  [][ /\ (Leaving("trades") \/ trade_cursor' # trade_cursor) => \A k \in DOMAIN resting[book] : ~Hit(k)
      /\ Leaving("cross") => \A k \in DOMAIN resting[book] : ~Hit(k)
      /\ Leaving("takers") =>
           \A k \in DOMAIN pending_takers : pending_takers[k].execute_after > event.ts ]_vars

\* No order is filled in the event that submitted it except as a taker with
\* no latency: a maker order never sees the book or the prints it was
\* quoted on, and a taker waits its latency out, marketable limit orders
\* included.
NoLookAhead ==
  [][ \A id \in DOMAIN blotter :
        blotter'[id].filled > blotter[id].filled =>
          IF counters'["filled_maker"] > counters["filled_maker"]
          THEN blotter[id].event < events_processed
          ELSE event.ts >= blotter[id].ts + TakerLatency ]_vars

\* A halted portfolio buys nothing more: not from a list, not from the
\* pending takers that were accepted before the halt, not from the strategy.
HaltStopsBuying ==
  [][ portfolio.halt # "none" =>
        /\ portfolio'.halt = portfolio.halt
        /\ \A t \in Tokens : shares'[t] <= shares[t] ]_vars

\* Every run ends: each scan makes progress, whatever fills and gates do to
\* the list under it.
RunEnds == <>(phase = "resolved")

\* A resting order is filled by every print that trades through it with
\* volume to spare for all orders of the run: a print consumed in an event
\* leaves no such order untouched when the book check begins.  The comment
\* on the direction-grouped lists and the trade-print fill test say so; with
\* one cursor for two lists it does not hold.
PrintsReachBothLists ==
  phase = "cross" =>
    \A b \in Lists : \A k \in DOMAIN resting[b] : \A n \in 1 .. trade_cursor :
      PrintFills(trades[n], resting[b][k]) => blotter[resting[b][k].id].filled > 0

\* Once the imbalance exceeds its maximum, no resting buy of the heavy token
\* fills: it "cancel[s] resting orders on the heavy side ... after a maker
\* fill".  The code cancels only after all fills of the event.
NoMakerBuyPastImbalance ==
  [][ \A t \in Tokens :
        HeavyToken(t) /\ counters'["filled_maker"] > counters["filled_maker"] =>
          shares'[t] <= shares[t] ]_vars

\* Nothing is bought while the equity, at the current mid, is the maximal
\* drawdown or more below its peak: "halt new buys when equity drops this
\* fraction below peak", marked "at minimum once per fill".  The code marks
\* once per event, after all its fills.
NoBuyInDrawdown ==
  [][ phase # "resolved" /\ DrawnDown(portfolio.peak, MarkToMarket) =>
        \A t \in Tokens : shares'[t] <= shares[t] ]_vars

\* The run implements the account: the refinement mapping.
Account == INSTANCE Ledger WITH
  Start <- StartingCash, Payout <- Scale * Unit, FeeRate <- TakerFee, RebateRate <- MakerRebate,
  ClipCap <- MaxClip, MarketCap <- MaxPerMarketExposure,
  balance  <- IF phase = "resolved" THEN end_equity ELSE cash,
  position <- shares,
  outlay   <- portfolio.outlay[MarketId],
  halted   <- portfolio.halt # "none",
  settled  <- phase = "resolved"

AccountSpec == Account!Spec

\* A market never costs more than its exposure cap and the taker fee on it,
\* whatever was bought, sold and settled: what the portfolio replay relies
\* on when it hands the equity of one market to the next.
LossWithinExposure == Account!LossBounded
=============================================================================
