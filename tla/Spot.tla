-------------------------------- MODULE Spot --------------------------------
(***************************************************************************)
(* SpotHistory and what is computed from it.  A price, return or score is  *)
(* modelled by the ticks it is computed from, a set of positions in the    *)
(* history; no tick stands for None and for the neutral value that         *)
(* replaces it.  The history is that of whole days and so holds ticks of   *)
(* the future of every event.  Times are seconds.                          *)
(***************************************************************************)
EXTENDS Integers, Sequences, FiniteSetsExt

CONSTANT Ticks  \* samples, the times of the trades

ASSUME TicksAssumption ==
  /\ Ticks \in Seq(Int)
  /\ \A i \in 1 .. Len(Ticks) - 1 : Ticks[i] <= Ticks[i + 1]

History == DOMAIN Ticks

\* Of several ticks of one time binary_search_by_key may return any.
At(ts) == {i \in History : Ticks[i] = ts}

\* The nearest of them, if there is one.
Latest(found)   == IF found = {} THEN {} ELSE {Max(found)}
Earliest(found) == IF found = {} THEN {} ELSE {Min(found)}

\* price_at_or_before, price_at_or_after.
PriceAtOrBefore(ts) ==
  IF At(ts) # {} THEN At(ts) ELSE Latest({i \in History : Ticks[i] < ts})
PriceAtOrAfter(ts) ==
  IF At(ts) # {} THEN At(ts) ELSE Earliest({i \in History : Ticks[i] > ts})

\* A return needs both of its ends.
Return(start, end) == IF start = {} \/ end = {} THEN {} ELSE start \union end

\* simple_return, trailing_return.
SimpleReturn(ts, lookback)   == Return(PriceAtOrAfter(ts - lookback), PriceAtOrBefore(ts))
TrailingReturn(ts, lookback) == Return(PriceAtOrBefore(ts - lookback), PriceAtOrBefore(ts))

\* range.
InRange(start, end) == {i \in History : start <= Ticks[i] /\ Ticks[i] <= end}

\* signed_flow_and_adverse, spot_returns_and_accel.
SignedFlow(ts, window) == InRange(ts - window, ts)
ReturnsAndAccel(ts) == UNION {TrailingReturn(ts, lookback) : lookback \in {5, 15, 30}}

\* The reversal score of BonereaperV2.
ReversalFeatures(ts) ==
  (UNION {SignedFlow(ts, window) : window \in {5, 10, 15, 30}}) \union ReturnsAndAccel(ts)
-----------------------------------------------------------------------------
(* Momentum over several windows, each a simple return.                    *)

FastWindows  == {10, 30, 60, 120, 300}
BroadWindows == {600, 900, 1800, 3600}
UltraWindows == {3600, 7200, 14400}

WeightedReturn(ts, windows) == UNION {SimpleReturn(ts, w) : w \in windows}

\* spot_score_stack.
ScoreStack(ts) == WeightedReturn(ts, FastWindows \union BroadWindows \union UltraWindows)

\* spot_momentum_stack.
MomentumStack(ts) == WeightedReturn(ts, FastWindows \union BroadWindows)
-----------------------------------------------------------------------------
(* The path of the price over the last three minutes.                      *)

WindowSecs == 180
StepSecs   == 5

\* What a step of the path reads, steps before the first tick left out.
Path(ts) ==
  LET steps == {ts - WindowSecs + StepSecs * k : k \in 0 .. WindowSecs \div StepSecs}
  IN  {PriceAtOrBefore(s) : s \in {s \in steps : PriceAtOrBefore(s) # {}}}
PathLength(ts) ==
  Cardinality({k \in 0 .. WindowSecs \div StepSecs :
                 PriceAtOrBefore(ts - WindowSecs + StepSecs * k) # {}})

\* The simple returns behind the reversal flag.
ReversalReturns(ts) == WeightedReturn(ts, {30, 120, 180})

\* spot_regime_features: efficiency, flips and volatility of the path; a path that
\* never moves is neutral, too.
RegimePath(ts) ==
  IF PathLength(ts) < 8 \/ Cardinality(Path(ts)) < 2 THEN {} ELSE UNION Path(ts)
RegimeReturns(ts) == IF RegimePath(ts) = {} THEN {} ELSE ReversalReturns(ts)

\* WhipsawRiskSnapshot::from_history asks for twelve trades, too.
WhipsawPath(ts) ==
  IF Cardinality(InRange(ts - WindowSecs, ts)) < 12 THEN {} ELSE RegimePath(ts)

\* BtcRegimeSnapshot: the volatility of the trades themselves.
TradeVolatility(ts, secs) ==
  LET trades == InRange(ts - secs, ts) IN IF Cardinality(trades) < 3 THEN {} ELSE trades
BtcRegimePath(ts) ==
  PriceAtOrBefore(ts) \union TradeVolatility(ts, 300) \union TradeVolatility(ts, 900)
BtcRegimeReturns(ts) == WeightedReturn(ts, {30, 60, 120, 180})

\* regime: unknown without either.
BtcRegimeKnown(ts) == TradeVolatility(ts, 300) # {} /\ SimpleReturn(ts, 180) # {}
-----------------------------------------------------------------------------
\* What an event reads of the history through ends at or before it, and what it reads
\* through simple returns.
SpotReads(ts) ==
  [past    |-> ReversalFeatures(ts) \union RegimePath(ts) \union WhipsawPath(ts)
                 \union BtcRegimePath(ts),
   returns |-> ScoreStack(ts) \union MomentumStack(ts) \union RegimeReturns(ts)
                 \union (IF BtcRegimeKnown(ts) THEN BtcRegimeReturns(ts) ELSE {})]
=============================================================================
