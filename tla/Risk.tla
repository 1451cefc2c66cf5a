-------------------------------- MODULE Risk --------------------------------
(***************************************************************************)
(* PortfolioState of pm-risk: peak equity, the rolling outlay window, the  *)
(* per-market outlay and the sticky halt.  The state of one portfolio is   *)
(* the record p; every method of the type is an operator from a portfolio  *)
(* to a portfolio or to a truth value.  Money is an integer; time is an    *)
(* integer in the unit of the constant Day.                                *)
(***************************************************************************)
EXTENDS Lists, SequencesExt

CONSTANTS
  Markets,               \* market ids
  MaxDrawdownPct,        \* max_drawdown_pct, in percent
  MaxDailyExposure,      \* max_daily_exposure_usdc
  MaxClip,               \* max_clip_usdc
  MaxPerMarketExposure,  \* max_per_market_exposure_usdc
  Day                    \* 86_400 * 1_000_000_000 ns

ASSUME RiskLimits ==
  /\ MaxDrawdownPct \in 1..100
  /\ MaxDailyExposure \in Nat
  /\ MaxClip \in Nat
  /\ MaxPerMarketExposure \in Nat
  /\ Day \in Nat \ {0}

HaltReasons == {"none", "max_drawdown", "max_daily_exposure"}

Outlays == [ts : Nat, usdc : Nat]

Portfolios == [peak   : Nat,
               window : Seq(Outlays),
               outlay : [Markets -> Nat],
               halt   : HaltReasons]

\* get_or_insert: the first reason to halt is kept for good.
Halt(p, reason) == IF p.halt = "none" THEN [p EXCEPT !.halt = reason] ELSE p

NewPortfolio(equity) ==
  [peak |-> equity, window |-> <<>>, outlay |-> [m \in Markets |-> 0], halt |-> "none"]

\* dd >= max_drawdown_pct, where dd = 1 - equity / peak (0 without a peak).
DrawnDown(peak, equity) ==
  peak > 0 /\ 100 * (peak - equity) >= MaxDrawdownPct * peak

Mark(p, equity) ==
  LET q == [p EXCEPT !.peak = IF equity > @ THEN equity ELSE @]
  IN  IF DrawnDown(q.peak, equity) THEN Halt(q, "max_drawdown") ELSE q

\* rolling_window.retain: entries at the cutoff are kept.
Retain(window, cutoff) == Filter(window, LAMBDA e : e.ts >= cutoff)

DailyExposure(p) == FoldSeq(LAMBDA e, sum : e.usdc + sum, 0, p.window)

MarketExposure(p, m) == p.outlay[m]

RecordOutlay(p, m, ts, usdc) ==
  LET q == [peak   |-> p.peak,
            window |-> Retain(Append(p.window, [ts |-> ts, usdc |-> usdc]), ts - Day),
            outlay |-> [p.outlay EXCEPT ![m] = @ + usdc],
            halt   |-> p.halt]
  IN  IF DailyExposure(q) >= MaxDailyExposure THEN Halt(q, "max_daily_exposure") ELSE q

\* Faulty variant: what is already out does not count.
CanOpenFresh(p, m, usdc) ==
  p.halt = "none" /\ usdc <= MaxClip /\ usdc <= MaxDailyExposure /\ usdc <= MaxPerMarketExposure

\* Faulty variant: a halted portfolio is not turned away.
CanOpenHalted(p, m, usdc) ==
  /\ usdc <= MaxClip
  /\ DailyExposure(p) + usdc <= MaxDailyExposure
  /\ MarketExposure(p, m) + usdc <= MaxPerMarketExposure

CanOpen(p, m, usdc) ==
  /\ p.halt = "none"
  /\ usdc <= MaxClip
  /\ DailyExposure(p) + usdc <= MaxDailyExposure
  /\ MarketExposure(p, m) + usdc <= MaxPerMarketExposure
=============================================================================
