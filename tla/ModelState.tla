----------------------------- MODULE ModelState -----------------------------
(***************************************************************************)
(* ModelState of pm-model as far as it outlives an event: which markets    *)
(* each part of it has learned from.  The scores themselves are not        *)
(* modelled.  A market is its number in the order of the replay, from 1;   *)
(* the training markets of a snapshot, which precede them all, are 0.      *)
(***************************************************************************)
EXTENDS Integers, Sequences

CONSTANT VolatilityWindow  \* VOLATILITY_WINDOW_MARKETS

ASSUME VolatilityWindowAssumption == VolatilityWindow \in Nat \ {0}

NoMarket == 0
Snapshot == <<0>>

(***************************************************************************)
(* rolling     the markets whose events are in market_mid_min and _max,    *)
(*             dir_markov, recent_mids, recent_dir and top3_imbalance; the *)
(*             last three forget after 16 to 64 events, the others never   *)
(* pending     the market of pending_meta_features                         *)
(* ranging     vol_state.current_market_id                                 *)
(* ranges      vol_state.recent_ranges, by market, oldest first            *)
(* outcomes    what skew_table and tod_table have recorded                 *)
(* calibrator  what meta_calibrator has learned from                       *)
(***************************************************************************)
NewModel ==
  [rolling |-> {}, pending |-> NoMarket, ranging |-> NoMarket,
   ranges |-> <<>>, outcomes |-> <<>>, calibrator |-> <<>>]

LoadSnapshot(ms, snapshot) == [ms EXCEPT !.calibrator = snapshot]

\* evaluate, over the events of market m in its window.
Evaluate(ms, m) ==
  [ms EXCEPT !.rolling = @ \union {m}, !.pending = m, !.ranging = m]

\* Faulty variant: a ring that never forgets.
Grow(ring, x) == Append(ring, x)

\* Ring::push, oldest first.
Push(ring, x) ==
  IF Len(ring) < VolatilityWindow THEN Append(ring, x) ELSE Append(Tail(ring), x)

\* Faulty variant: only the features waiting for a label are dropped.
DropPending(ms) == [ms EXCEPT !.pending = NoMarket]

\* reset_market_rolling_state.
ResetRolling(ms) == [ms EXCEPT !.rolling = {}, !.pending = NoMarket]

\* finalize_market and the labelling of what waits for one come before the reset.
RecordMarketResult(ms, m) ==
  ResetRolling(
    [rolling    |-> ms.rolling,
     pending    |-> ms.pending,
     ranging    |-> NoMarket,
     ranges     |-> IF ms.ranging = NoMarket THEN ms.ranges ELSE Push(ms.ranges, ms.ranging),
     outcomes   |-> Append(ms.outcomes, m),
     calibrator |-> IF ms.pending = NoMarket THEN ms.calibrator
                    ELSE Append(ms.calibrator, ms.pending)])
=============================================================================
