----------------------------- MODULE Portfolio ------------------------------
(***************************************************************************)
(* run_portfolio: one market after the other, every strategy in its turn,  *)
(* each with the equity its last market left it; the results so far are    *)
(* written to two files every few markets and at the end.  A market run is *)
(* one step, bounded by what Runner guarantees of it.  A process may be    *)
(* killed at any step and started again over the files it left.            *)
(***************************************************************************)
EXTENDS ModelState, SequencesExt, FiniteSetsExt

CONSTANTS
  NumMarkets,          \* markets of the replay
  Kinds,               \* for every strategy, "reactive" or "other"
  Frozen,              \* meta_calibrator_snapshot is given
  StartingCash,        \* starting_cash_usdc
  ClipPct,             \* clip_fraction_of_equity, in percent
  MinClip,             \* 0.50 USD
  SoftPct, HardPct,    \* clip_drawdown_soft_pct and _hard_pct, in percent
  MinMultiplierPct,    \* clip_drawdown_min_multiplier, in percent
  MaxExposure,         \* max_per_market_exposure_usdc
  ExposurePct,         \* max_per_market_exposure_frac, in percent
  FeePct,              \* taker_fee_bps, in percent
  CheckpointEvery,     \* portfolio_checkpoint_every_markets
  Profits,             \* what a market may bring
  MaxProcesses         \* bound: how often the replay is started

ASSUME PortfolioAssumptions ==
  /\ NumMarkets \in Nat
  /\ Kinds \in Seq({"reactive", "other"})
  /\ Frozen \in BOOLEAN
  /\ {StartingCash, ClipPct, MinClip, SoftPct, HardPct, MaxExposure, ExposurePct,
      FeePct, CheckpointEvery} \subseteq Nat
  /\ MinMultiplierPct \in 0 .. 100
  /\ Profits \subseteq Int
  /\ MaxProcesses \in Nat \ {0}

VARIABLES
  phase,       \* "load", "run", "write", "done" or "stopped"
  market,      \* idx + 1
  active,      \* the market has events in its window
  per,         \* per_strategy: the runs on this market, in turn
  captured,    \* captured_meta_sample_for_market
  equity,      \* equity_by_strategy
  peak,        \* peak_equity_by_strategy
  model,       \* shared_model_states
  skew,        \* shared_skew_tables
  results,
  samples,     \* oos_meta_samples, by market, with the markets they draw on
  todo,        \* files still to be written in this checkpoint
  stage,       \* "create", "fill" or "rename" the temporary file
  disk,
  process      \* how often the replay was started

memory == <<market, active, per, captured, equity, peak, model, skew, results, samples>>
files  == <<todo, stage, disk>>
vars   == <<phase, memory, files, process>>

Strategies == DOMAIN Kinds
Reactive(k) == Kinds[k] = "reactive"
Turn == Len(per) + 1

\* Faulty variant: the summary goes first.
SummaryFirst == <<"summary", "markets">>

Outputs == <<"markets", "summary">>
Names == {"markets", "summary", "markets.tmp", "summary.tmp"}
Absent == [process |-> 0, markets |-> 0, whole |-> TRUE]
-----------------------------------------------------------------------------
(* Sizing.                                                                 *)

\* compounded_clip, in hundredths.
CompoundedClip(bankroll) ==
  LET raw == bankroll * ClipPct
      cap == bankroll * 10
  IN  IF 100 * MinClip >= cap THEN Min({raw, cap})
      ELSE IF raw = 0 THEN 0 ELSE Max({100 * MinClip, Min({raw, cap})})

\* drawdown_clip_multiplier > 0; 1 - drawdown / peak >= 0 throughout.
ClipsOpen(bankroll, top) ==
  \/ SoftPct >= HardPct
  \/ 100 * (top - bankroll) < HardPct * top
  \/ top = 0
  \/ MinMultiplierPct > 0

\* per_market_exposure_cap, in hundredths.
ExposureCap(bankroll) == Min({100 * MaxExposure, bankroll * ExposurePct})

\* Faulty variant: every market starts from the configured cash.
FlatBankroll(k) == StartingCash

\* equity_by_strategy[k] is the starting cash of the market.
Bankroll(k) == equity[k]

\* What run_backtest may end with: no less than the exposure cap and the fee
\* on it allow, and what it started with when there was nothing to trade or
\* no clip to trade with.
Ends(k) ==
  LET bankroll == Bankroll(k)
      trades   == active /\ ClipsOpen(bankroll, peak[k]) /\ CompoundedClip(bankroll) > 0
      ends     == {bankroll + p : p \in Profits}
  IN  IF ~trades THEN {bankroll}
      ELSE {e \in ends : e >= 0 /\ 10000 * (bankroll - e) <= (100 + FeePct) * ExposureCap(bankroll)}

\* Faulty variant: the peak is the last equity.
LastPeak(k, end) == end

NewPeak(k, end) == Max({peak[k], end})
-----------------------------------------------------------------------------
(* What a market run does to the model.                                    *)

\* Faulty variant: the runner gets the shared model of every strategy.
SharedWithAll(k) == TRUE

\* RunnerConfig.shared_model_state is Some.
SharedWithRunner(k) == ~Reactive(k)

\* The strategy's shared model after the run: ReactiveDirectional evaluates
\* and records on it itself, for the others the runner does.
Learned(ms, k) ==
  LET seen == IF Reactive(k) \/ SharedWithRunner(k) THEN Evaluate(ms, market) ELSE ms
      own  == IF Reactive(k) THEN RecordMarketResult(seen, market) ELSE seen
  IN  IF SharedWithRunner(k) /\ ~Frozen THEN RecordMarketResult(own, market) ELSE own

\* The markets whose events the run's training samples draw on: those of the
\* model the runner evaluates, its own for ReactiveDirectional.
Sources(k) ==
  Evaluate(IF SharedWithRunner(k) THEN model[k] ELSE NewModel, market).rolling

ModelWithSnapshot == IF Frozen THEN LoadSnapshot(NewModel, Snapshot) ELSE NewModel
-----------------------------------------------------------------------------
(* The loop over the markets.                                              *)

Init ==
  /\ phase = "load" /\ market = 1 /\ active = FALSE /\ per = <<>> /\ captured = FALSE
  /\ equity = [k \in Strategies |-> StartingCash]
  /\ peak = [k \in Strategies |-> StartingCash]
  /\ model = [k \in Strategies |-> ModelWithSnapshot]
  /\ skew = [k \in Strategies |-> <<>>]
  /\ results = <<>> /\ samples = <<>>
  /\ todo = <<>> /\ stage = "create"
  /\ disk = [f \in Names |-> Absent]
  /\ process = 1

\* load_replay_events_for_market fails: the market is skipped.
LoadFails ==
  /\ phase = "load" /\ market <= NumMarkets
  /\ market' = market + 1
  /\ UNCHANGED <<phase, active, per, captured, equity, peak, model, skew, results, samples,
                 files, process>>

LoadMarket(some) ==
  /\ phase = "load" /\ market <= NumMarkets
  /\ phase' = "run"
  /\ active' = some
  /\ captured' = FALSE
  /\ UNCHANGED <<market, per, equity, peak, model, skew, results, samples, files, process>>

RunStrategy(end) ==
  LET k == Turn
  IN  /\ phase = "run" /\ k \in Strategies
      /\ end \in Ends(k)
      /\ per' = Append(per, [start |-> Bankroll(k), end |-> end])
      /\ equity' = [equity EXCEPT ![k] = end]
      /\ peak' = [peak EXCEPT ![k] = NewPeak(k, end)]
      /\ IF active
         THEN /\ model' = [model EXCEPT ![k] = Learned(model[k], k)]
              /\ skew' = IF Reactive(k) THEN [skew EXCEPT ![k] = Append(@, market)] ELSE skew
              /\ samples' = IF captured THEN samples
                            ELSE Append(samples, [market |-> market, sources |-> Sources(k)])
              /\ captured' = TRUE
         ELSE UNCHANGED <<model, skew, samples, captured>>
      /\ UNCHANGED <<phase, market, active, results, files, process>>

CheckpointDue == CheckpointEvery > 0 /\ Len(results') % CheckpointEvery = 0

CloseMarket ==
  /\ phase = "run" /\ Turn \notin Strategies
  /\ results' = Append(results, [market |-> market, per |-> per])
  /\ per' = <<>>
  /\ IF CheckpointDue THEN phase' = "write" /\ todo' = Outputs /\ UNCHANGED market
     ELSE phase' = "load" /\ market' = market + 1 /\ UNCHANGED todo
  /\ UNCHANGED <<active, captured, equity, peak, model, skew, samples, stage, disk, process>>

\* Faulty variant: nothing is written when the last checkpoint has it all.
FinishUnlessWritten ==
  /\ phase = "load" /\ market > NumMarkets
  /\ phase' = "write"
  /\ todo' = IF CheckpointEvery > 0 /\ Len(results) % CheckpointEvery = 0 THEN <<>> ELSE Outputs
  /\ UNCHANGED <<memory, stage, disk, process>>

\* run_portfolio returns, and the results are written once more.
Finish ==
  /\ phase = "load" /\ market > NumMarkets
  /\ phase' = "write"
  /\ todo' = Outputs
  /\ UNCHANGED <<memory, stage, disk, process>>
-----------------------------------------------------------------------------
(* write_market_results_jsonl_atomic, then write_summary_json_atomic.      *)

\* Faulty variant: the file is written in place.
TmpInPlace(f) == f

TmpOf(f) == IF f = "markets" THEN "markets.tmp" ELSE "summary.tmp"

Contents(whole) == [process |-> process, markets |-> Len(results), whole |-> whole]

CreateTmp ==
  /\ phase = "write" /\ todo # <<>> /\ stage = "create"
  /\ disk' = [disk EXCEPT ![TmpOf(Head(todo))] = Contents(FALSE)]
  /\ stage' = "fill"
  /\ UNCHANGED <<phase, memory, todo, process>>

FillTmp ==
  /\ phase = "write" /\ stage = "fill"
  /\ disk' = [disk EXCEPT ![TmpOf(Head(todo))] = Contents(TRUE)]
  /\ stage' = "rename"
  /\ UNCHANGED <<phase, memory, todo, process>>

Rename ==
  LET f == Head(todo)
  IN  /\ phase = "write" /\ stage = "rename"
      /\ disk' = [disk EXCEPT ![TmpOf(f)] = Absent, ![f] = disk[TmpOf(f)]]
      /\ todo' = Tail(todo)
      /\ stage' = "create"
      /\ UNCHANGED <<phase, memory, process>>

Written ==
  /\ phase = "write" /\ todo = <<>>
  /\ IF market > NumMarkets THEN phase' = "done" /\ UNCHANGED market
     ELSE phase' = "load" /\ market' = market + 1
  /\ UNCHANGED <<active, per, captured, equity, peak, model, skew, results, samples, files, process>>

\* Faulty variant: an error has the file written anew.
RetryWrite ==
  /\ phase = "write" /\ todo # <<>>
  /\ stage' = "create"
  /\ UNCHANGED <<phase, memory, todo, disk, process>>

\* An error on the way to a file ends the process.
WriteFails ==
  /\ phase = "write" /\ todo # <<>>
  /\ phase' = "stopped"
  /\ UNCHANGED <<memory, files, process>>

Killed ==
  /\ phase \notin {"done", "stopped"}
  /\ phase' = "stopped"
  /\ UNCHANGED <<memory, files, process>>

\* A new process knows nothing of the one before, but finds its files.
Restart ==
  /\ phase \in {"done", "stopped"} /\ process < MaxProcesses
  /\ phase' = "load" /\ market' = 1 /\ active' = FALSE /\ per' = <<>> /\ captured' = FALSE
  /\ equity' = [k \in Strategies |-> StartingCash]
  /\ peak' = [k \in Strategies |-> StartingCash]
  /\ model' = [k \in Strategies |-> ModelWithSnapshot]
  /\ skew' = [k \in Strategies |-> <<>>]
  /\ results' = <<>> /\ samples' = <<>>
  /\ todo' = <<>> /\ stage' = "create"
  /\ process' = process + 1
  /\ UNCHANGED disk

Terminated ==
  /\ phase \in {"done", "stopped"} /\ process = MaxProcesses
  /\ UNCHANGED vars

Work ==
  \/ LoadFails
  \/ \E some \in BOOLEAN : LoadMarket(some)
  \/ \E p \in Profits \union {0} : Turn \in Strategies /\ RunStrategy(Bankroll(Turn) + p)
  \/ CloseMarket
  \/ Finish
  \/ CreateTmp \/ FillTmp \/ Rename \/ Written

Next == Work \/ WriteFails \/ Killed \/ Restart \/ Terminated

Spec == Init /\ [][Next]_vars
FairSpec == Spec /\ WF_vars(Work)
=============================================================================
