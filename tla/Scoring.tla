------------------------------ MODULE Scoring -------------------------------
(***************************************************************************)
(* One model from its training to its last market: samples are collected   *)
(* from the training markets, the candidates are fitted and judged, the    *)
(* winner is loaded into the model that then scores the events of the test *)
(* markets.  Its result is recorded at the end of a market unless the      *)
(* calibrator is frozen; a model that was not trained learns from every    *)
(* market.                                                                 *)
(***************************************************************************)
EXTENDS Scores, Training

CONSTANTS
  TrainMarkets, TestMarkets,  \* bound: how many of each
  Opening,                    \* when a test market opens, by its number
  Tapes,                      \* what a training market may bring, from its opening on
  Offsets,                    \* when an event may come after the opening
  Books,                      \* the mid of an event and the side it speaks for
  Losses                      \* bound: how many losses are told apart

ASSUME ScoringAssumptions ==
  /\ TestMarkets \in Nat
  /\ Opening \in [1 .. TestMarkets -> Int]
  /\ Offsets \subseteq Int
  /\ Books \subseteq [mid : 0 .. 100, side : BOOLEAN]
  /\ Tapes \subseteq Seq([at : Int, mid : Int, side : BOOLEAN, base : Int])

VARIABLES
  phase,       \* "collect", "fit", "score" or "done"
  market,      \* the market that is replayed
  samples,     \* training_samples
  fit,         \* fit_samples
  validation,  \* validation_samples
  candidate,   \* how many candidates have been judged
  best,        \* the best of those that passed, with its loss
  records,     \* the result of a market is recorded
  ms,          \* the ModelState
  out,         \* the last evaluation
  seen,        \* history: the events since the last recorded result
  results      \* history: what was recorded, and of which market

training == <<samples, fit, validation, candidate, best>>
scoring  == <<ms, out, seen, results>>
vars     == <<phase, market, training, records, scoring>>

NoBest   == [calibrator |-> Untrained, loss |-> 0]
NoOutput == <<>>
\* A snapshot from the training markets, as ModelState stands for it.
Snapshot == <<0>>

\* train_validated_meta_calibrator looks at these only.
Usable == Filtered(samples)
-----------------------------------------------------------------------------
(* Training.                                                               *)

\* collect_training_samples_for_market: a model of its own for every market.
Collect ==
  /\ phase = "collect"
  /\ market <= TrainMarkets
  /\ \E tape \in Tapes, resolved \in BOOLEAN :
       samples' = samples \o MarketSamples(market, tape, resolved)
  /\ market' = market + 1
  /\ UNCHANGED <<phase, fit, validation, candidate, best, records, scoring>>

\* A market whose tape cannot be loaded brings nothing.
CollectFails ==
  /\ phase = "collect"
  /\ market <= TrainMarkets
  /\ market' = market + 1
  /\ UNCHANGED <<phase, training, records, scoring>>

\* The model of the test markets starts with the snapshot and nothing else.
Deploy(snapshot) ==
  /\ phase' = "score"
  /\ market' = 1
  /\ samples' = <<>>
  /\ fit' = <<>>
  /\ validation' = <<>>
  /\ candidate' = 0
  /\ best' = NoBest
  /\ ms' = [NewScores EXCEPT !.calibrator = snapshot]
  /\ UNCHANGED <<records, out, seen, results>>

TooFewSamples ==
  /\ phase = "collect"
  /\ market > TrainMarkets
  /\ Len(Usable) < 2
  /\ Deploy(<<>>)

StartFit ==
  /\ phase = "collect"
  /\ market > TrainMarkets
  /\ Len(Usable) >= 2
  /\ phase' = "fit"
  /\ fit' = FitSamples(Usable)
  /\ validation' = ValidationSamples(Usable)
  /\ UNCHANGED <<market, samples, candidate, best, records, scoring>>

\* It does not pass, or not by more than the best so far; the first of equals stays.
Better(loss) == best = NoBest \/ loss < best.loss

TryCandidate ==
  /\ phase = "fit"
  /\ candidate < Len(Candidates)
  /\ candidate' = candidate + 1
  /\ \/ UNCHANGED best
     \/ \E calibrator \in FitBatch(fit, Candidates[candidate + 1]), loss \in 1 .. Losses :
          /\ MayImprove(calibrator, validation)
          /\ Better(loss)
          /\ best' = [calibrator |-> calibrator, loss |-> loss]
  /\ UNCHANGED <<phase, market, samples, fit, validation, records, scoring>>

\* Without a winner the snapshot is that of an untrained calibrator.
Select ==
  /\ phase = "fit"
  /\ candidate = Len(Candidates)
  /\ Deploy(IF best = NoBest THEN <<>> ELSE Snapshot)
-----------------------------------------------------------------------------
(* Scoring.                                                                *)

Here == {i \in DOMAIN seen : seen[i].market = market}

\* The history as any event may find it.
SpotAt == [ts \in {Opening[m] + offset : m \in 1 .. TestMarkets, offset \in Offsets} |->
             SpotReads(ts)]

\* What an event of this market would be; it comes after those before it.
Event(offset, book) ==
  [market |-> market, nth |-> Cardinality(Here) + 1, at |-> Opening[market] + offset,
   mid |-> book.mid, side |-> book.side]

Evaluate ==
  /\ phase = "score"
  /\ market <= TestMarkets
  /\ \E offset \in Offsets, book \in Books :
       LET e == Event(offset, book)
       IN  /\ \A i \in Here : seen[i].at < e.at
           /\ ms' = Evaluated(ms, e)
           /\ out' = Output(ms, e, SpotAt[e.at])
           /\ seen' = Append(seen, e)
  /\ UNCHANGED <<phase, market, training, records, results>>

\* The last mid and the last prediction; a market without an event has neither.
RecordResult ==
  /\ phase = "score"
  /\ market <= TestMarkets
  /\ records
  /\ Here # {}
  /\ \E resolved \in BOOLEAN :
       LET e == Last(seen)
       IN  /\ ms' = MarketResult(ms, e.mid, e.side, resolved)
           /\ results' = Append(results, [event |-> e, resolved |-> resolved])
  /\ out' = NoOutput
  /\ seen' = <<>>
  /\ market' = market + 1
  /\ UNCHANGED <<phase, training, records>>

\* update_model_state_on_resolution is not set, or nothing was evaluated.
LeaveResult ==
  /\ phase = "score"
  /\ market <= TestMarkets
  /\ ~records \/ Here = {}
  /\ market' = market + 1
  /\ UNCHANGED <<phase, training, records, scoring>>

Finish ==
  /\ phase = "score"
  /\ market > TestMarkets
  /\ phase' = "done"
  /\ UNCHANGED <<market, training, records, scoring>>
-----------------------------------------------------------------------------
\* A frozen calibrator comes from training; a strategy with a model of its own records
\* all the same.
Init ==
  /\ \/ phase = "collect" /\ records \in BOOLEAN
     \/ phase = "score" /\ records = TRUE
  /\ market = 1
  /\ samples = <<>>
  /\ fit = <<>>
  /\ validation = <<>>
  /\ candidate = 0
  /\ best = NoBest
  /\ ms = NewScores
  /\ out = NoOutput
  /\ seen = <<>>
  /\ results = <<>>

Done == phase = "done" /\ UNCHANGED vars

Next ==
  \/ Collect \/ CollectFails \/ TooFewSamples \/ StartFit \/ TryCandidate \/ Select
  \/ Evaluate \/ RecordResult \/ LeaveResult \/ Finish
  \/ Done

Spec == Init /\ [][Next]_vars
=============================================================================
