------------------------------- MODULE Scores -------------------------------
(***************************************************************************)
(* ModelState of pm-model in full: what evaluate keeps of the events, what *)
(* the scores of an event are computed from, and what the result of a      *)
(* market leaves behind.  The arithmetic of a score is not modelled, only  *)
(* the events, counts and outcomes it reads, so a score is a record of     *)
(* those.  An event says on which side its direction score will be.        *)
(* ModelState is the same component as the portfolio replay sees it.       *)
(***************************************************************************)
EXTENDS Spot, Rings

CONSTANTS
  MidsCap,           \* recent_mids_cap
  DirCap,            \* recent_dir_cap
  ImbalanceCap,      \* imbalance_cap
  ShortRun, LongRun, \* the 3 and the 8 of sequence_features
  StabilityWindow,   \* stability_window
  VolatilityWindow   \* VOLATILITY_WINDOW_MARKETS

ASSUME ScoresAssumptions ==
  {MidsCap, DirCap, ImbalanceCap, ShortRun, LongRun, StabilityWindow, VolatilityWindow}
    \subseteq Nat \ {0}

Skews == 0 .. 9
Hours == 0 .. 23
Untaken == [taken |-> 0, wins |-> 0]

\* A market in the range state, or none.
NoRange == [market |-> 0, low |-> 0, high |-> 0]

FreshMarkov == [last |-> NoEvent, moves |-> [from \in BOOLEAN |-> [to \in BOOLEAN |-> 0]]]

NewScores ==
  [mids       |-> NewRing(MidsCap),
   dirs       |-> NewRing(DirCap),
   imbalance  |-> NewRing(ImbalanceCap),
   low        |-> NoEvent,
   high       |-> NoEvent,
   markov     |-> FreshMarkov,
   skew       |-> [b \in Skews |-> Untaken],
   tod        |-> [h \in Hours |-> Untaken],
   range      |-> NoRange,
   close      |-> 0,
   ranges     |-> NewRing(VolatilityWindow),
   lastAt     |-> 0,
   pending    |-> 0,
   calibrator |-> <<>>]
-----------------------------------------------------------------------------
(* The tables.                                                             *)

\* bucket_idx, of a mid in percent.
BucketIdx(mid) == Max({0, Min({mid \div 10, 9})})

\* hour_bucket.
HourBucket(ts) == IF ts <= 0 THEN 0 ELSE (ts % 86400) \div 3600

\* SkewWinRateTable::record, TimeOfDayTable::record: yes_wins counts the predictions
\* that came true, of either side.
Recorded(bucket, predicted, resolved) ==
  [taken |-> bucket.taken + 1,
   wins  |-> bucket.wins + IF predicted = resolved THEN 1 ELSE 0]

\* expected_side_win_rate, of either table, as a fraction.
SideWinRate(bucket, predicted) ==
  IF bucket.taken = 0 THEN <<1, 2>>
  ELSE <<IF predicted THEN bucket.wins ELSE bucket.taken - bucket.wins, bucket.taken>>

\* DirectionMarkov::observe.
Observe(markov, e) ==
  [last  |-> e,
   moves |-> IF markov.last = NoEvent THEN markov.moves
             ELSE [markov.moves EXCEPT ![markov.last.side][e.side] = @ + 1]]

\* What it returns: how often the side it left was kept.
Persistence(markov, e) ==
  LET from == markov.last.side
      after == Observe(markov, e).moves
  IN  IF markov.last = NoEvent THEN <<1, 2>>
      ELSE <<after[from][from], after[from][FALSE] + after[from][TRUE]>>
-----------------------------------------------------------------------------
(* What the scores of event e read.                                        *)

\* sign_flips_last_n; a direction score of exactly zero is left out.
Flips(events) ==
  Cardinality({i \in 2 .. Len(events) : events[i].side # events[i - 1].side})

\* mid_momentum_features, top3_imbalance_deltas.
Momentum(mids, e)    == [w \in {10, 30, 60, 120, 300} |-> ValueAtOrBefore(mids, e.at - w)]
ImbalanceDeltas(r, e) == [w \in {5, 15} |-> ValueAtOrBefore(r, e.at - w)]

\* direction_score; the direction score of e itself adds the deltas.
DirectionReads(ms, e) ==
  [momentum |-> Momentum(ms.mids, e), book |-> e, deltas |-> ImbalanceDeltas(ms.imbalance, e)]

\* sequence_features: the slope of eight begins at the oldest of all.
SequenceReads(dirs) ==
  [short |-> LastN(dirs, ShortRun), long |-> LastN(dirs, LongRun),
   flips |-> Flips(LastN(dirs, LongRun)),
   newest |-> Newest(dirs),
   oldest |-> IF dirs.len >= LongRun THEN Entry(dirs, 0) ELSE Oldest(dirs)]

\* confidence_score.
ConfidenceReads(dirs, persistence, hour, ranges) ==
  [stability |-> LastN(dirs, StabilityWindow), persistence |-> persistence,
   hour |-> hour, volatility |-> Live(ranges)]

\* risk_score_with_btc_weights.
RiskReads(dirs, imbalance, e, skew, hour, ranges, persistence) ==
  [whipsaw |-> Flips(Live(dirs)), turn |-> ImbalanceDeltas(imbalance, e), depth |-> e,
   skew |-> skew, hour |-> hour, volatility |-> Live(ranges), persistence |-> persistence]

Lower(x, y)  == IF x = NoEvent \/ y.mid < x.mid THEN y ELSE x
Higher(x, y) == IF x = NoEvent \/ y.mid > x.mid THEN y ELSE x

\* VolatilityState::on_event.
OnEvent(range, e) ==
  IF range.market # e.market THEN [market |-> e.market, low |-> e.mid, high |-> e.mid]
  ELSE [range EXCEPT !.low = Min({@, e.mid}), !.high = Max({@, e.mid})]

\* The state in which e is scored: it is already in the rings.
Keep(ms, e) ==
  [ms EXCEPT !.lastAt = e.at, !.range = OnEvent(@, e),
             !.mids = PushRing(@, e), !.low = Lower(@, e), !.high = Higher(@, e),
             !.imbalance = PushRing(@, e), !.dirs = PushRing(@, e)]

\* evaluate_detailed_with_market_context: the state it leaves...
Evaluated(ms, e) ==
  [Keep(ms, e) EXCEPT !.markov = Observe(ms.markov, e), !.pending = e.market]

\* ...and what the output and the MetaFeatures of e are computed from.
Output(ms, e, spot) ==
  LET kept == Keep(ms, e)
      hour == SideWinRate(ms.tod[HourBucket(e.at)], e.side)
      stay == Persistence(ms.markov, e)
  IN  [direction  |-> DirectionReads(kept, e),
       sequence   |-> SequenceReads(kept.dirs),
       confidence |-> ConfidenceReads(kept.dirs, stay, hour, ms.ranges),
       risk       |-> RiskReads(kept.dirs, kept.imbalance, e,
                                SideWinRate(ms.skew[BucketIdx(e.mid)], e.side), hour,
                                ms.ranges, stay),
       extremes   |-> <<kept.low, kept.high>>,
       spot       |-> spot,
       calibrator |-> ms.calibrator]
-----------------------------------------------------------------------------
(* The end of a market.                                                    *)

Gap(x, y) == IF x >= y THEN x - y ELSE y - x

\* VolatilityState::finalize_market: the true range, against the close before; there is
\* one once a range has been pushed.
Finalize(ms, mid) ==
  LET span == ms.range.high - ms.range.low
      true == IF ms.ranges.len = 0 THEN span ELSE Max({span, Gap(mid, ms.close)})
  IN  IF ms.range = NoRange THEN ms
      ELSE [ms EXCEPT !.range = NoRange, !.close = mid,
                      !.ranges = PushRing(@, [market |-> ms.range.market, range |-> true])]

\* reset_market_rolling_state.
ResetMarketRollingState(ms) ==
  [ms EXCEPT !.mids = ClearRing(@), !.dirs = ClearRing(@), !.imbalance = ClearRing(@),
             !.markov = FreshMarkov, !.low = NoEvent, !.high = NoEvent, !.pending = 0]

\* Faulty variant: the market is cleared before what waits for a label gets it.
ForgetFirst(ms, mid, predicted, resolved) ==
  Finalize(ResetMarketRollingState(
             [ms EXCEPT !.skew[BucketIdx(mid)] = Recorded(@, predicted, resolved),
                        !.tod[HourBucket(ms.lastAt)] = Recorded(@, predicted, resolved)]),
           mid)

\* record_market_result; record_with_base_probability learns from the pending features.
MarketResult(ms, mid, predicted, resolved) ==
  LET tabled == [ms EXCEPT
                   !.skew[BucketIdx(mid)] = Recorded(@, predicted, resolved),
                   !.tod[HourBucket(ms.lastAt)] = Recorded(@, predicted, resolved)]
      final  == Finalize(tabled, mid)
  IN  ResetMarketRollingState(
        IF ms.pending = 0 THEN final
        ELSE [final EXCEPT !.calibrator = Append(@, ms.pending)])
=============================================================================
