------------------------- MODULE ScoringProperties --------------------------
(***************************************************************************)
(* What a score may be computed from, what a market leaves in the model,   *)
(* and what a trained calibrator rests on.                                 *)
(***************************************************************************)
EXTENDS Scoring

Suffix(n) == SubSeq(seen, Max({1, Len(seen) - n + 1}), Len(seen))
Elements(s) == {s[i] : i \in DOMAIN s}
Now == Last(seen)

\* The value found is of the ring and old enough, and missing only if none is.
IsPastEntry(found, cap, target) ==
  LET old == {e \in Elements(Suffix(cap)) : e.at <= target}
  IN  IF old = {} THEN found = NoEvent ELSE found \in old

MomentumIsPast ==
  /\ \A w \in DOMAIN out.direction.momentum :
       IsPastEntry(out.direction.momentum[w], MidsCap, Now.at - w)
  /\ \A w \in DOMAIN out.direction.deltas :
       IsPastEntry(out.direction.deltas[w], ImbalanceCap, Now.at - w)

Kept(n) == Suffix(Min({n, DirCap}))

SequenceIsRecent ==
  /\ out.sequence.short = Kept(ShortRun)
  /\ out.sequence.long = Kept(LongRun)
  /\ out.sequence.newest = Now
  /\ out.sequence.oldest = Kept(DirCap)[1]
  /\ out.sequence.flips = Flips(Kept(LongRun))
  /\ out.confidence.stability = Kept(StabilityWindow)
  /\ out.risk.whipsaw = Flips(Kept(DirCap))

ExtremesAreSeen ==
  LET mids == {e.mid : e \in Elements(seen)}
  IN  <<out.extremes[1].mid, out.extremes[2].mid>> = <<Min(mids), Max(mids)>>

\* Of the moves from the side before the last, how many kept it.
PersistenceIsCounted ==
  LET n == Len(seen)
      from == {i \in 2 .. n : seen[i - 1].side = seen[n - 1].side}
  IN  out.confidence.persistence =
        IF n = 1 THEN <<1, 2>>
        ELSE <<Cardinality({i \in from : seen[i].side = seen[i - 1].side}), Cardinality(from)>>

(***************************************************************************)
(* The scores of an event are computed from the last events since the last *)
(* recorded result, in their order and as many as the windows hold, however*)
(* often the rings have wrapped around or been cleared; a momentum compares*)
(* with an event old enough; and a path, flow or trailing return reads no  *)
(* tick of the future.  ModelState::evaluate, Ring and TimedRing,          *)
(* SpotHistory.                                                            *)
(***************************************************************************)
ScoresReadTheirPast ==
  out # NoOutput =>
    /\ MomentumIsPast
    /\ SequenceIsRecent
    /\ ExtremesAreSeen
    /\ PersistenceIsCounted
    /\ \A i \in out.spot.past : Ticks[i] <= Now.at
-----------------------------------------------------------------------------
Portfolio == INSTANCE ModelState

\* The model as the portfolio replay sees it: what it would be after these events and
\* results.
View ==
  LET n == Len(results)
      snapshot == SubSeq(ms.calibrator, 1, Len(ms.calibrator) - n)
      After(was, m) == Portfolio!RecordMarketResult(Portfolio!Evaluate(was, m), m)
      view[i \in 0 .. n + Len(seen)] ==
        IF i = 0 THEN Portfolio!LoadSnapshot(Portfolio!NewModel, snapshot)
        ELSE IF i <= n THEN After(view[i - 1], results[i].event.market)
        ELSE Portfolio!Evaluate(view[i - 1], seen[i - n].market)
  IN  view[n + Len(seen)]

RollingMarkets ==
  {e.market : e \in Elements(Live(ms.mids)) \union Elements(Live(ms.dirs))
                      \union Elements(Live(ms.imbalance))
                      \union {ms.low, ms.high, ms.markov.last}} \ {0}

\* The recorded results a bucket should hold.
Holds(bucket, found) ==
  /\ bucket.taken = Cardinality(found)
  /\ bucket.wins = Cardinality({i \in found : results[i].event.side = results[i].resolved})

(***************************************************************************)
(* Whatever happens within the markets, the model carries over from one to *)
(* the next what the portfolio replay is modelled to carry over and no     *)
(* more: every recorded result once in each table, its range and its label,*)
(* and of the rings only markets whose result was not recorded.            *)
(* record_market_result and reset_market_rolling_state.                    *)
(***************************************************************************)
CarriesWhatPortfolioSees ==
  /\ RollingMarkets \subseteq View.rolling
  /\ ms.pending = View.pending
  /\ ms.range.market = View.ranging
  /\ [i \in DOMAIN Live(ms.ranges) |-> Live(ms.ranges)[i].market] = View.ranges
  /\ ms.calibrator = View.calibrator
  /\ Len(View.outcomes) = Len(results)
  /\ \A b \in Skews :
       Holds(ms.skew[b], {i \in DOMAIN results : BucketIdx(results[i].event.mid) = b})
  /\ \A h \in Hours :
       Holds(ms.tod[h], {i \in DOMAIN results : HourBucket(results[i].event.at) = h})
-----------------------------------------------------------------------------
\* No market is on both sides, and those held out come later.
ValidationIsHeldOut ==
  \A m \in MarketsOf(fit), n \in MarketsOf(validation) : m < n

Distinct(s) == \A i, j \in DOMAIN s : s[i] = s[j] => i = j

\* Within the limits, no sample twice, and no market without one.
IsBalanced(chosen, raw, limit) ==
  /\ Len(chosen) <= limit
  /\ Distinct(raw) => Distinct(chosen)
  /\ Elements(chosen) \subseteq Elements(raw)
  /\ Cardinality(MarketsOf(raw)) <= limit => MarketsOf(chosen) = MarketsOf(raw)
  /\ MaxPerMarket # 0 =>
       \A m \in MarketsOf(chosen) : Len(OfMarket(chosen, m)) <= MaxPerMarket

\* The isotonic regression by its min-max formula: the rate of a group is the largest, over
\* the groups before it, of the smallest pooled rate from there to a group after it.
Totals(groups) ==
  LET n == Cardinality(DOMAIN groups)
      total[k \in 0 .. n] ==
        IF k = 0 THEN [won |-> 0, weight |-> 0]
        ELSE [won    |-> total[k - 1].won + groups[k].won,
              weight |-> total[k - 1].weight + groups[k].weight]
  IN  total
Pooled(total, s, t) ==
  [won |-> total[t].won - total[s - 1].won, weight |-> total[t].weight - total[s - 1].weight]
IsRegression(blocks, groups) ==
  LET total == Totals(groups)
  IN  \A i \in DOMAIN groups :
        \E b \in DOMAIN blocks :
          /\ groups[i].top <= blocks[b].top
          /\ b > 1 => blocks[b - 1].top < groups[i].top
          /\ \A s \in 1 .. i : \E t \in i .. Len(groups) : AtMost(Pooled(total, s, t), blocks[b])
          /\ \E s \in 1 .. i : \A t \in i .. Len(groups) : AtMost(blocks[b], Pooled(total, s, t))

\* A leaf of a split rests on enough of the samples the trees are trained on.
IsFunded(tree, indices) ==
  LET left == LeftOf(fit, indices, tree.root)
      Leaves(side, split) == IF split = NoSplit THEN {side}
                             ELSE {LeftOf(fit, side, split), side \ LeftOf(fit, side, split)}
  IN  \A leaf \in Leaves(left, tree.left) \union Leaves(indices \ left, tree.right) :
        Cardinality(leaf) >= MinLeaf

(***************************************************************************)
(* A calibrator is chosen by markets it was not fitted to and that come    *)
(* after those it was fitted to, both sides balanced within their limits;  *)
(* one that passed is never judged by nothing; its blocks are the isotonic *)
(* regression of the fitted samples and every leaf of its trees rests on   *)
(* enough of them.  train_validated_meta_calibrator, fit_batch.            *)
(***************************************************************************)
TrainingIsSound ==
  phase = "fit" =>
    /\ ValidationIsHeldOut
    /\ IsBalanced(fit, SplitByMarket(Usable).fit, MaxFitSamples)
    /\ IsBalanced(validation, SplitByMarket(Usable).validation, MaxValidationSamples)
    /\ best # NoBest =>
         /\ validation # <<>>
         /\ best.calibrator.isotonic # <<>> =>
              IsRegression(best.calibrator.isotonic, Grouped(fit, best.calibrator.beta))
         /\ \A k \in DOMAIN best.calibrator.trees :
              IsFunded(best.calibrator.trees[k], TrainIndices(fit))
-----------------------------------------------------------------------------
(***************************************************************************)
(* A simple return is one over the window that ends at its time, as        *)
(* simple_return says of itself: it reads no tick after the event.         *)
(***************************************************************************)
ReturnsAreTrailing == out # NoOutput => \A i \in out.spot.returns : Ticks[i] <= Now.at
=============================================================================
