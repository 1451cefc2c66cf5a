------------------------------ MODULE Training ------------------------------
(***************************************************************************)
(* The samples a calibrator is trained on: which events of a market are    *)
(* replayed and which of those become samples, which samples are dropped,  *)
(* which are fitted and which are held out.  Probabilities and mids are in *)
(* percent, times in seconds.                                              *)
(***************************************************************************)
EXTENDS Calibrator, Lists

CONSTANTS
  SampleSecs,           \* replay_sample_ms
  MinBaseP,             \* meta_train_min_base_p
  LeastSecs,            \* since when early_market_penalty is at most its maximum
  MinMidDistance,       \* meta_train_min_mid_distance
  MaxFitSamples,        \* meta_max_fit_samples
  MaxValidationSamples, \* meta_max_validation_samples
  MaxPerMarket,         \* meta_max_samples_per_market
  Primary, Presets      \* epochs of the configured candidate and of the others

ASSUME TrainingAssumptions ==
  /\ {SampleSecs, MinBaseP, LeastSecs, MinMidDistance, MaxFitSamples,
      MaxValidationSamples, MaxPerMarket, Primary} \subseteq Nat
  /\ Presets \in Seq(Nat)

\* sample_replay_events: the first event, the last of every bucket between, the last;
\* the last two only if their time is new.
SampleReplayEvents(tape) ==
  LET n == Len(tape)
      Bucket(i) == (tape[i].at - tape[1].at) \div SampleSecs
      closed == {i \in 2 .. n - 2 : Bucket(i) # Bucket(i + 1)}
      inner  == closed \union {i \in {n - 1} : tape[i].at # tape[Max(closed \union {1})].at}
      all    == inner \union {i \in {n} : tape[i].at # tape[Max(inner \union {1})].at}
  IN  IF SampleSecs = 0 \/ n <= 2 THEN tape
      ELSE LET kept == Ascending(all \union {1})
           IN  [k \in DOMAIN kept |-> tape[kept[k]]]

\* The canonical sample points of a run: the first event of every 15 seconds, and the
\* last.
SamplePoints(run) ==
  {i \in DOMAIN run : \/ i = 1
                      \/ i = Len(run)
                      \/ run[i].at \div 15 # run[i - 1].at \div 15}

\* The samples of market m, labelled with its result; times since it opened.
MarketSamples(m, tape, resolved) ==
  LET run == SampleReplayEvents(tape)
      points == Ascending(SamplePoints(run))
  IN  [k \in DOMAIN points |->
         LET e == run[points[k]]
         IN  [market |-> m, features |-> <<e.mid, e.at>>, base |-> e.base,
              won |-> e.side = resolved]]
-----------------------------------------------------------------------------
MidDistance(sample)  == 2 * Max({sample.features[1] - 50, 50 - sample.features[1]})

\* filter_meta_samples_for_training.  early_market_penalty falls with the time since the
\* market opened, so that a bound on it is a least time.
Filtered(samples) ==
  Filter(samples, LAMBDA s : /\ s.base >= MinBaseP
                             /\ s.features[2] >= LeastSecs
                             /\ MidDistance(s) >= MinMidDistance)

MarketsOf(samples) == {samples[i].market : i \in DOMAIN samples}

\* group_meta_samples_by_market.
OfMarket(samples, m) == Filter(samples, LAMBDA s : s.market = m)
OfMarkets(samples, markets) ==
  LET order == Ascending(markets)
  IN  Concat([k \in DOMAIN order |-> OfMarket(samples, order[k])])

\* Faulty variant: the samples are cut, not the markets.
SplitSamples(samples) ==
  LET cut == Max({1, Min({(8 * Len(samples) + 5) \div 10, Len(samples) - 1})})
  IN  [fit |-> SubSeq(samples, 1, cut), validation |-> SubSeq(samples, cut + 1, Len(samples))]

\* split_meta_samples_by_market: four fifths of the markets, rounded, but not all.
SplitByMarket(samples) ==
  LET order == Ascending(MarketsOf(samples))
      n == Len(order)
      cut == Max({1, Min({(8 * n + 5) \div 10, n - 1})})
      early == {order[i] : i \in 1 .. cut}
  IN  IF n < 2 THEN [fit |-> samples, validation |-> <<>>]
      ELSE [fit |-> OfMarkets(samples, early),
            validation |-> OfMarkets(samples, MarketsOf(samples) \ early)]

\* extend_evenly_sampled.
EvenlySampled(items, take) ==
  LET last == Len(items) - 1
      denom == take - 1
  IN  IF take = 0 \/ items = <<>> THEN <<>>
      ELSE IF take >= Len(items) THEN items
      ELSE IF take = 1 THEN <<items[Len(items) \div 2 + 1]>>
      ELSE [k \in 1 .. take |-> items[((k - 1) * last + denom \div 2) \div denom + 1]]

\* per_market_cap; no limit is configured by 0.
PerMarketCap(samples, limit) ==
  LET groups == Cardinality(MarketsOf(samples))
      share == Max({limit \div groups, 1})
  IN  IF limit < groups THEN 1
      ELSE IF MaxPerMarket = 0 THEN share ELSE Min({MaxPerMarket, share})

\* market_balanced_meta_samples.
Balanced(samples, limit) ==
  LET order == Ascending(MarketsOf(samples))
      share == PerMarketCap(samples, limit)
      selected == Concat([k \in DOMAIN order |-> EvenlySampled(OfMarket(samples, order[k]), share)])
  IN  IF samples = <<>> \/ limit = 0 THEN <<>>
      ELSE IF Len(samples) <= limit /\ MaxPerMarket = 0 THEN samples
      ELSE IF Len(selected) <= limit THEN selected
      ELSE EvenlySampled(selected, limit)

FitSamples(samples) == Balanced(SplitByMarket(samples).fit, MaxFitSamples)
ValidationSamples(samples) == Balanced(SplitByMarket(samples).validation, MaxValidationSamples)

\* meta_training_candidates, every configuration once.
Candidates == <<Primary>> \o Filter(Presets, LAMBDA epochs : epochs # Primary)

\* evaluate_meta_calibration: a calibrator can only do better than its base where there
\* is something to judge it by and it changes anything.
MayImprove(calibrator, validation) == validation # <<>> /\ ~Passive(calibrator)
=============================================================================
