# A TLA+ model of polymarket-backtest

`polymarket-backtest` replays recorded order books of binary prediction markets
against trading strategies, scores the strategies with an online model and
reports what they would have earned. A backtest is worth as much as its
accounting and its matcher: an order that fills twice, sees the future, escapes
a cap or is lost in a queue changes every number of the report and fails no
test. This directory models those parts in TLA+, checks them with TLC on small
instances and proves the central results with TLAPS for all of them.

## The system

| Component | Source | State it keeps | Operations |
|---|---|---|---|
| Market runner | `crates/pm-app/src/runner.rs` | cash, YES/NO shares, two resting lists, pending takers, trade cursor, portfolio, counters, fills | one pass per replay event: trade-print fills, book-cross fills, pending takers, inventory breaker, strategy orders, mark; resolution |
| Portfolio risk state | `crates/pm-risk/src/lib.rs` | peak equity, rolling outlay window, outlay per market, sticky halt | `new`, `mark`, `record_outlay`, `can_open_position` |
| Walk-forward driver | `crates/pm-app/src/walkforward.rs` | fold plan, results | fold plan, training, markets in parallel or as one portfolio, aggregation |
| Portfolio replay | `walkforward.rs` `run_portfolio` | equity and peak per strategy, results so far, out-of-sample samples | one market after another with compounding, checkpoints |
| Replay and spot caches | `walkforward.rs` | files, in-memory map | read, load, write temporary, rename |
| Meta-calibrator training | `walkforward.rs`, `pm-model` | samples, snapshot, fitted blocks and trees | collect, cache, filter, split, balance, fit, validate, select |
| Download preparation | `crates/pm-app/src/prep_cache.rs` | files | concurrent downloads with skip-existing |
| Scoring model | `crates/pm-model/src/lib.rs` | rings of recent mids, directions and imbalances, extremes, Markov counts, win-rate tables, ranges, calibrator | evaluate an event, record a result, reset |
| Strategies | `crates/pm-strategy/src/` | per-market shots, ladders, stacks, cooldowns, gate counters | answer an event with order requests |
| Loaders and types | `crates/pm-telonex-loader`, `crates/pm-types` | none | decode tapes, trades, spot |
| Command line, discovery, summaries | `pm-app/src/{main,discovery,result_summary}.rs` | none | wiring, HTTP, reports |

How they interact. The walk-forward driver builds the folds, trains a
calibrator on each fold's training markets, and calls the runner once per
market and strategy, either through a bounded pool of tasks (`run_markets`) or
strictly in order, handing the equity of one market to the next
(`run_portfolio`). The runner calls the strategy and the model once per event
and owns the only copy of cash, inventory and orders; it asks the risk state
before every buy and tells it after every buy. Caches are files shared by all
tasks and by earlier processes. The model is a value owned by one market run, or
shared under a mutex by the runner and by a strategy that scores for itself; what
it carries from one market to the next is decided by who records the result. A
strategy sees the book, the signals computed from the spot and trade tapes, and
the inventory its filled requests have become; of a request it sees nothing
until then.

What is hard, and what makes each part correct:

* **Runner.** One thread, but many small steps whose order decides the result:
  scans by index over vectors from which the scan removes (`swap_remove`), one
  cursor for two scans, orders accepted against a state that has changed when
  they fill, nothing reserved for them in between. Correct means: the account
  never borrows, never sells short, never breaks a cap and stays halted once
  halted; an order is in one queue until it is closed, fills never beyond its
  size nor worse than its limit, never in the event that saw it come; every
  order is accounted for in the report; a run ends.
* **Risk state.** Caps are tested against a prospective amount and charged with
  the actual one, at another time.
* **Strategies.** They are told of fills only by their inventory, late, in part or
  never, and keep books of their own on what they asked for. Eight lanes run in
  one call, follow different signals and read what the lanes before them left.
  Correct means: lanes do not turn against each other, a hedge is of what it
  hedges and within its budget, what is to happen once happens once, the
  directional lanes together stay within one load of their cap.
* **Scoring model.** Rings with a head and a length, searched by time, cleared
  between markets; tables and a calibrator that must not be. Correct means: a
  score is computed from the last events and from no future tick; a market
  leaves behind its result and nothing else.
* **Training.** Samples of one market are near copies of each other. Correct means:
  a calibrator is judged on later markets than it was fitted to, balanced
  selections lose no market and repeat no sample, a leaf or a block rests on
  the samples the algorithm says it does.
* **Walk-forward driver and portfolio.** Training and test windows must not
  overlap within the purge; equity carries over without being lost or counted
  twice; checkpoints survive a crash at any point.
* **Caches and downloads.** Several tasks, and processes that were killed,
  share files under fixed names.

`PROJECT.json` lists the hazards line by line with the property that covers
each, and those no property covers yet.

## Modules

| Module | What it is |
|---|---|
| `Risk` | `PortfolioState` as operators on a record |
| `Runner` | `run_backtest` and its matcher: the state machine |
| `RunnerProperties` | type invariant, invariants, action and liveness properties, the refinement mapping |
| `Ledger` | the abstract account a run implements |
| `MCRunner` and `MCRunner_*.cfg` | instances for TLC |
| `ModelState` | what a scoring model keeps from one market to the next, as operators on a record |
| `Portfolio` | `run_portfolio`: the loop over markets, compounding, checkpoints, crashes |
| `PortfolioProperties` | its type invariant, invariants and liveness property |
| `MCPortfolio` and `MCPortfolio_*.cfg` | instances for TLC |
| `Lists` | `Filter`, `Concat` and `Sorted`: what `retain`, loops that filter or append, and sorts come to, in a form the prover can unfold |
| `ListLemmas` | lemmas about lists, places in them, sums, maxima, folds and recursive functions |
| `RunnerProofs` | types of `Runner` and its refinement of `Ledger`, checked by TLAPS |
| `RunnerOrderProofs` | the life of orders in `Runner`: homes, residuals, times, scans, counters, caps |
| `PortfolioProofs` | theorems about `Portfolio` |
| `StrategiesProofs` | theorems about `Strategies` and `BonereaperV2` |
| `WalkForwardProofs` | theorems about `FoldPlan` and `WalkForward`, and its refinement of `Evaluation` |
| `ScoringProofs` | theorems about `Rings`, `Scores`, `Spot` and `Scoring` |
| `TrainingProofs` | theorems about `Calibrator`, `Training` and the training phase of `Scoring` |
| `Session` | what a strategy sees of a market: events, signals, inventory; fills late, in part or never |
| `Strategies` | the eleven strategies with little state, one action each |
| `BonereaperV2` | the twelfth: eight lanes, one action each, run in order within one event |
| `StrategiesProperties`, `MCStrategies`, `MCStrategies_market.cfg` | their composition over a market, its properties and instance |
| `FoldPlan` | `build_fold_plan` as operators |
| `Evaluation` | the abstract specification of a walk-forward evaluation |
| `WalkForward` | the processes: prep-cache, folds, training, the pool of loads, the caches, crashes and restarts |
| `WalkForwardProperties`, `MCWalkForward`, `MCWalkForward_fleet.cfg` | properties, the refinement mapping, the instance |
| `Spot` | the lookups, windows and paths over the spot history, by the ticks they read |
| `Rings` | `Ring` and `TimedRing` with their head, length and places |
| `Scores` | `ModelState` in full, and what each score is computed from |
| `Calibrator` | `fit_batch`: the beta map, the isotonic regression, the boosted trees |
| `Training` | which events become samples and which samples are fitted or held out |
| `Scoring` | one model from its training to its last market: the state machine over the five above |
| `ScoringProperties`, `MCScoring`, `MCScoring_*.cfg` | its properties, reference definitions and instances |

### Runner and the code

`phase`, `book` and `scan` are the program counter of the event loop
(`runner.rs:563-841`), so that every fill, rejection and cancellation is a step
of its own and the properties see the states in between:

| Phase | Code | Actions |
|---|---|---|
| `idle` | `for (idx, event)`, 563-579 | `BeginEvent`, `Resolve` |
| `trades` | `check_trade_driven_resting_fills`, per list | `NextPrint`, `MakerFill`, `MakerReject`, `EndTrades` |
| `cross` | `check_resting_fills`, per list | `MakerFill`, `MakerReject`, `EndCross` |
| `takers` | `process_pending_takers` | `ExecutePending`, `EndTakers` |
| `breaker` | inventory circuit-breaker, 661-675 | `BreakerCancel`, `EndBreaker` |
| `orders` | model gate, `submit_maker_order`, `submit_taker_order`, mark | `ModelGateReject`, `Submit`, `EndEvent` |
| `resolved` | after the loop, 1066-1117 | `Terminated` |

`scan` is the `i` of the `while i < len` loops: after a `swap_remove` it stays,
because another order now stands there. `resting["bid"]` is
`resting_buy_yes_sell_no`, `resting["ask"]` is `resting_sell_yes_buy_no`.
`MakerFill` and `Trade` are what `apply_maker_fill` and the inlined copy in
`check_resting_fills` do; the two copies are the same function of the fill
price, and differ only in the time stamp (`FillTs`). `ApplyTaker` is
`apply_taker_order` with `depth_weighted_fill` (`Sweep`, its loop over the five
levels of the tape unrolled) and the slippage (`Slip`).

Numbers. A price is a number of ticks, `Unit` ticks make 1 USDC; money counts
in 1/`Scale` of a tick-share so that fees, rebates and half-tick mids are
integers. The code computes in `f64`, and rounding is not modelled. Slippage in
basis points is `BaseSlip` ticks per share (the code multiplies by a rate), plus
the two thin-price bands of the code (`NarrowBand`, `WideBand` with two and one
extra ticks); the clamps 0.001 and 0.999 become one tick off the ends. With
these clamps `orders_rejected_bad_price` cannot be counted, in the code as in
the model, so the branch is left out.

Environment. Any book of `Books` may come at any time from the last event to
the close; any request of `Requests` may be made in any event; the model gate
may turn away any request that carries a tag it looks at, since it decides on
scores that are floating-point functions of the whole history. `Resolve` may
follow any event: the stream may end early, and either token may win.

`blotter` is a history variable, one entry per submitted order. No action
reads it to decide anything; it lets the properties relate an order's request,
its fills and its end.

### Portfolio, ModelState and the code

| Phase | Code | Actions |
|---|---|---|
| `load` | head of `for (idx, m)`, `walkforward.rs:3805-3847` | `LoadMarket`, `LoadFails`, `Finish` |
| `run` | `for &strat`, 3848-3946, and what follows it, 3948-3995 | `RunStrategy`, `CloseMarket` |
| `write` | `write_portfolio_checkpoint`, 4054-4069, and the last two writes of `main.rs`, 2531-2536 | `CreateTmp`, `FillTmp`, `Rename`, `Written`, `WriteFails` |
| `done`, `stopped` | the process has ended | `Restart`, `Terminated` |

A strategy's run on a market, the whole of `Runner`, is one step here. It may
end with any equity that `LossWithinExposure` leaves open: what `Runner` is
proved to guarantee is what `Portfolio` assumes, with the exposure cap that
`per_market_exposure_cap` derives from the equity. With a clip of zero
`can_open_position` refuses every buy, and without an event in the window
nothing is traded: the market then ends as it began. The sizing is kept as the
code computes it, in hundredths: the clip from equity, the drawdown multiplier
(only whether it is zero), the cap. Every market has a portfolio of its
own, so the runner's own drawdown halt never spans markets; the multiplier is
the only brake that does.

`ModelState` keeps of each part of the scoring model which markets it was
computed from: for the rolling statistics a set, for what is recorded at
resolution a sequence, for the window of ranges the last ones. This is
enough to ask who has learned what, and when. The model of ReactiveDirectional
is evaluated and recorded by the strategy, that of the others by the runner
(`SharedWithRunner`, `Learned`).

A file is one record: the process that wrote it, the number of markets in it,
and whether it is whole. `rename` is atomic; creating and filling are not.
Several processes follow one another over the same files, with whatever
temporary files the last one left. The directories and the two paths are given
and distinct.

### Session, Strategies, BonereaperV2 and the code

`Session` stands for the runner and the signal functions. `Arrive` brings an
event: time passes, a part of what is open is filled (`Fill`, by halves, so that
late, partial and no fills occur on either token), the book changes, and the
signals take any value of `Signals` (`Score`). What a signal function computes
is an input: strategies compare it with thresholds, and a signal stands for what the
thresholds tell apart (its sign, whether it is strong, whether the model
trusts it). Prices are whole ticks, mids and skews doubled, shares whole.

Each strategy of `Strategies` is one action, one call of `on_event`. `memory`
holds the union of their fields. The order of the early returns and of the
assignments is that of the code, which is why some remember a shot they did
not take (`SpotMomentumFollower`, `ReactiveDirectional`), and why the branch of
`LiteLoads` for a favoured NO is absent: the lane demands a probability of YES
above its minimum.

`BonereaperV2` runs one event in nine steps, `turn` naming the next: `Begin`
(quotes, window, skew trackers; `bonereaper_v2.rs:1518-1569`), `Participate`
(1571), `HedgeBase` (1638), `EarlyProbe` (1705), `MidLadder` (1734),
`LateConfirm` (1774), `HighSkewLoad` (1897), `LateFavourite` (2019),
`ConvexTail` (2301). A gate on the strategy's own state or on the book is exact
and a conjunct of what the lane wants; a gate on the tapes, the model or the range
the market has traded in may refuse at any check, so a lane that wants to ask may
always stay quiet (`Quiet`). Which gate refuses first shows only in the gate
counters of the report, which nothing reads back and which are not modelled. The
amount of a load after its multipliers is any of `Clips`.
`calm` is a history variable: by token, the last event whose mid was not past the
threshold on its side, or the first quoted event if there was none.

### FoldPlan, WalkForward, Evaluation and the code

| Phase | Code | Actions |
|---|---|---|
| `preload` | head of `run_walkforward`, `walkforward.rs:1968-2008`; `run_prep_cache`, `prep_cache.rs:29-150` | `SpotFails`, `StartFolds`, `RefusePortfolio`, `StartPortfolio`, `ReuseSamples`, `CollectForPortfolio`, `ListTargets` |
| `prep` | `download_targets`, `prep_cache.rs:165-236` | `TakeStored`, `Take`, `CreateFile`, `WriteFile`, `DownloadFails`, `CountErrors` |
| `collect`, `oos`, `replay` | `collect_training_samples`, 3026; `run_markets`, 3184; `load_replay_events_for_market`, 1354 | `TakeStored`, `Take`, `Load`, `LoadFails`, `CreateTmp`, `FillTmp`, `RenameTmp`, `SaveFails`, then `Collected`, `EvaluatedFold`, `FinishFold` |
| `train`, `fit` | the loop over folds, 2129-2180; the portfolio's training, 2017-2078 | `TrainFold`, `FitFold`, `FitPortfolio` |
| `create`/`fill` `samples`/`snapshot` | `write_meta_training_samples`, 2322; `write_meta_snapshot`, 2351 | `CreateSamplesFile`, `FillSamplesFile`, `CreateSnapshotFile`, `FillSnapshotFile`, `WriteFails` |
| `portfolio` | `run_portfolio`, here one step; see `Portfolio` | `RunPortfolio` |
| `done`, `error`, `killed` | the process has ended | `Restart`, `Terminated` |

`todo`, `busy` and `ended` are a `buffer_unordered`: jobs not begun, in flight
(never more than `Fetches`) and through, in the order they came in. The program awaits
in few places, and writing the replay cache is not one: between `CreateTmp` and
`RenameTmp` of a job no other job of the process moves (`Saving`), but a kill may
come anywhere (`Killed`). A file is absent, cut or whole. `BufWriter`s and
`flush().await.ok()` may drop the last error, so a successful write may leave
a cut file (`flushed`). The next process runs with any of the command lines
over whatever the last one left.

`Evaluation` is what this promises to whoever reads the results: windows are tested one
after the other, each in one step, sorted by close, by a model that learned
nothing past its training stretch. `EvaluationSpec` says that `WalkForward`
implements it under `config <- opt, window <- fold, tested <- results`: loads,
training and files are stutters.

### Rings, Scores, Training, Scoring and the code

A score is not computed: `Output` is a record of the events, counts and outcomes it
reads. That is what can silently be wrong in code whose results are only numbers. Rings
are kept as the code keeps them, a buffer of places with a head and a length, so
that wrap-around and `clear` are modelled and not assumed; `ValueAtOrBefore`
walks them as the code does. The tables count, the chain counts, the range keeps the market it belongs
to. `Spot` keeps of each price function which ticks it reads (`price_at_or_before` by
a search, returns over windows, the 5-second path of the regime, the volatility
by trades).

`Scoring` runs training markets (`Collect`, `CollectFails`), the choice of a calibrator
(`StartFit`, `TryCandidate`, `Select`, or `TooFewSamples`), and test markets (`Evaluate`,
`RecordResult` or `LeaveResult`). `Calibrator` fits the isotonic blocks
exactly, before they are shrunk, with fractions for rates and a stack for `pop`ping.
The beta map before it is kept up to the order of what it returns: the identity, or
`a ln p + b ln(1 - p)` with coefficients of any signs, which rises, falls, or dips or
peaks once, at any of `Turns` and as steep on either side. Trees are any
that the thresholds and the minimal leaf allow, since gains are floating
point; the validation loss of a candidate is any, unless the candidate cannot
differ from its base (`MayImprove`). `Training` keeps the bucketing of
replayed events, the cuts, the even sampling and the caps with their
integer rounding. The early-market penalty falls with time, so its bound is
the time `LeastSecs`.

`ModelState`, which `Portfolio` uses, and `Scores` are two views of one component; the property
`CarriesWhatPortfolioSees` relates them in every state.

## What TLC checks

| Run | Distinct states | Question |
|---|---|---|
| `runner_makers` | 1.27 million | Do resting orders survive the scans, the caps and the books? `TypeOK`, `ExposureCapped`, `OpenOrdersHaveOneHome`, `ResidualsExact`, `CountersReconcile`, `SweepsComplete`, and that the run implements the account (`AccountSpec`) |
| `runner_takers` | 98 thousand | Do delayed takers, slippage, the model gate and the halt keep `LimitsRespected`, `NoLookAhead`, `HaltStopsBuying`, and does a market cost no more than its exposure cap (`LossWithinExposure`); does every run end (`RunEnds`)? |
| `runner_prints` | violated | `PrintsReachBothLists`: a print consumed by one list is lost for the other |
| `runner_imbalance` | violated | `NoMakerBuyPastImbalance`: the breaker looks once per event |
| `runner_drawdown` | violated | `NoBuyInDrawdown`: the portfolio is marked once per event |
| `portfolio_replay` | 225 thousand | Do equity, peaks and models carry over exactly (`EquityChains`, `LearnsOnceInOrder`, `SamplesAreOwn`), is the drawdown over all markets bounded (`DrawdownStops`), are the files whole and in step whenever a process dies (`NamedFilesAreWhole`, `SummaryIsBacked`, `DoneIsWritten`), and does every process end (`EveryRunEnds`)? |
| `portfolio_frozen` | violated | `FrozenStaysFrozen`: ReactiveDirectional learns from the markets a frozen snapshot is evaluated on |
| `portfolio_rolling` | violated | `SamplesAreOwn` under a frozen snapshot: nothing resets the rolling state between markets |
| `strategies` | 1.89 million | Do the lanes keep to one direction (`OneDirection`, `OneLadder`), does the tail stay within the budget of what it hedges (`TailIsFunded`), do the three directional lanes together pass the cap of the overlay by less than one load, though each tests it on what was asked before and the base it is a fraction of grows elsewhere (`OneLoadPastTheCap`), do the two sets of books agree (`FavouriteAccounts`, `TypeOK` with the caps of the lanes), is a load preceded by a skew sustained since the last event without it or since the first (`LoadsAreSustained`), are shots taken once (`OneShotsCommit`) and hedges opposed to the entry (`HedgeOpposesEntry`)? |
| `fleet` | 202 thousand | Does no test peek past its purge (`NoPeeking`), is every market of a fold run accounted for, in order (`ResultsAccounted`), is every tape replayed whole whatever was killed before (`TapesAreWhole`), is a successful download complete (`PrepKeepsItsWord`), is the pool within its limit (`TypeOK`), does the fleet implement `Evaluation` (`EvaluationSpec`), and does every process end (`RunsEnd`)? |
| `scoring` | 138 thousand | Is a score computed from the right events and no future path (`ScoresReadTheirPast`), does the model carry over exactly what `Portfolio` takes it to (`CarriesWhatPortfolioSees`), is a calibrator fitted and judged on separate, balanced samples, and are its blocks the isotonic regression (`TrainingIsSound`)? |
| `scoring_returns` | violated | `ReturnsAreTrailing`: the start of a simple return is the first price after the window began, which after a gap of the feed is a price of the future |

The violated ones state what comments, tests and names of the repository say
and the code does not do; the findings in `PROJECT.json` quote them.

Bounds. `MaxEvents`, `MaxOrders` and `MaxGateRejects` bound the environment,
nothing else. Three events are the shortest history in which an order is
accepted in one, filled partially or queued in the next, and closed in a third;
three orders are the fewest with which a `swap_remove` in the middle of a list
moves an order over a place the scan has not looked at. Times are `0 .. 2`;
`Day = 1` in `runner_makers` makes outlays drop out of the rolling window
during the run. The tape has three prints: one too large for any one order, one
for the other list and one too small. Books are those between which resting
orders on both lists are crossed, with two levels, so that a taker sweeps one
and a part of the next, and one book without bids. The caps are chosen so that
each gate refuses something and the daily cap, the market cap, the cash and the
drawdown halt are all reached; in `runner_takers` cash is never the tightest of
them, in `runner_makers` it is.

`portfolio_replay` has three markets, so that the volatility window (two here,
three in the code) is full before the last, a failed load can stand between two
traded markets, and a checkpoint after two is followed by a market it does not
have; two strategies, one of each kind of `SharedWithRunner`; two processes, so
that one writes over what another left. `Profits` holds a gain, the largest
loss the cap allows at the start, and two between: equities reach the soft and the hard
drawdown, and a clip below the minimum. `MinClip` is 1 where the code has 0.50,
which scales the money.

`strategies` has markets of three events in a window of three seconds, gaps of
one and two, so that a skew is sustained for two seconds or interrupted, every
phase of BonereaperV2 (early, middle, late) is met and lanes that wait for each
other (favourite, then tail) both fire; fills of none or all between
events. The books are a strong and an extreme favourite of YES and an extreme
one of NO: a market that turns, which is what the lanes must survive. Each lane
may fire at most twice, which is where caps and cooldowns bite. One hedged pair costs
more than half of the most the base may cost, so that the base is paid in two parts at two
events, and a load of the late favourite is about as large as the first part: the cap of
the overlay is closed after one load and opened again by the second part.

`fleet` has four markets, two of which close together, so that two folds train on
different stretches and a sort by close has a tie; two tapes in flight, so that one
overtakes another; two processes, with any of nine command lines each (both
forms of prep-cache, folds by number and by size with and without purge, one
that is refused, portfolios that train, reuse or refuse to).

`scoring` has rings of two and three places, which wrap within a market of four
events and are cleared and filled again in the next; three training markets, the
fewest with two to fit and one to validate, of five and six events, which
cap, stride, leaf and block limits of the configuration cut differently; beta maps
that turn at either end or among the base probabilities of the samples; a
tape of ticks with a burst, a tie and a gap of two minutes. That isotonic blocks
merge, trees split twice, caps refuse and rings wrap was confirmed by asking TLC for
states in which they do.

Fairness. `RunEnds` is checked under `WF_vars(Next)`: the run is one thread
that takes its next step whenever it has one, and a strategy answers an event
with finitely many requests. Nothing is assumed of which step it takes:
in particular not that a scan moves on rather than fill again, nor that the
stream ends before `MaxEvents`. `EveryRunEnds` is checked under `WF_vars(Work)`,
the loop of a process that is not stopped; nothing is assumed of write errors,
kills and restarts, which the environment does or does not do. `RunsEnd` of the
fleet is checked under `WF_vars(Work)` too: the runtime polls a stream that can
move, and requests and downloads are assumed to answer, with an error if need
be. It is stated for `Fetches > 0`: with a parallelism of zero the code waits for
ever (`walkforward.rs:3305`).

## What is proved

All theorems are of the form `Spec => ...` for every value of the constants that
satisfies the named assumptions of the modules: any number of events, orders, prints,
strategies, markets, folds, processes and tasks. The assumptions are those
of the code's types and of a usable configuration; TLC evaluates them in the runs. What
`WalkForwardProofs` needs of them is bundled as `WalkForwardAssumptions`. Every
safety invariant and every action property of the passing runs is a theorem.

**Runner: account** (`RunnerProofs`, from `RiskLimits` and `RunnerAssumptions`).

* `TypeCorrect`: `TypeOK`. The type invariant says that cash and
  both share counts are natural numbers, which is the safety of the account: a
  resting order reserves nothing, so what keeps cash from going below zero is
  that every fill asks again, in the state it fills in. The proof needs
  the shape of the portfolio record (`Shaped`), that sweeps and slippage keep a
  notional between `filled` and `(Unit - 1) * filled` (`SweepType`, `SlipBounds`),
  and one lemma per action. `TypeOK` is inductive.
* `ImplementsAccount`: `AccountSpec`. Under the mapping of
  `RunnerProperties`, every step of the runner is a buy, a sale, a halt or
  the settlement of `Ledger`, or changes nothing of the account.
* `HaltIsFinal`: `HaltStopsBuying`.
* `LossIsBounded`: a market never costs more
  than its exposure cap and the taker fee on it, in any order of buying,
  selling and settling. It is proved of the account (`LossNoMore`, `LossStep`:
  charge and fee grow with the exposure, everything else only adds cash) and holds of
  the runner by the refinement. `Portfolio` rests on it.

**Runner: orders** (`RunnerOrderProofs`).

* `OrdersHaveOneHome`, `ResidualsAreExact`, `LimitsAreRespected` follow from one
  inductive invariant, `HomesInv`: entries at different places have different
  numbers, an entry's number is in the blotter, open and on the list of its side, what
  it has left is what its fills left, what was paid respects the limit, and every
  open order stands somewhere. The cardinalities of
  `OpenOrdersHaveOneHome` are not inductive themselves, which is why places are compared. The
  lemma `DropsOrder` says what `swap_remove` and `remove` leave on a list.
* `NoLookingAhead`: an action property, from `TimesInv` (in the stages of
  the matcher every order is older than the event) and a description of
  what one step may do to any order (`HistoryStep`).
* `NothingIsMissed`: `SweepsComplete`, from `ScanInv`: no order at a place the
  scan has passed is one it had to act on. It is kept because a scan that acts
  stays where it is, and `swap_remove` brings to that place one it has not seen.
* `CountersAddUp`: `CountersReconcile`, from `CountsInv`, which adds that nothing is
  counted as cancelled at the end of the market before it. The resolution cancels what
  is open and counts it by the lengths of three queues; that these are no more than the
  orders they cancel is the part of `HomesInv` on their sum.
* `ExposureIsCapped`: `ExposureCapped`, from `CapsInv`. The cap on the day is a sum
  over the rolling window; `record_outlay` adds one outlay and forgets from the front, and
  `WindowAdds` and `WindowForgets` say what that does to a sum. The gate is asked with
  fee and before rebate, so what is charged is never more than what was asked.

**Portfolio** (`PortfolioProofs`; `MaxProcesses` is positive).

* `PortfolioTypes`, with the length of the window of ranges.
* `EquityIsCompounded`: equity and peak agree with the history of each strategy, read off
  the results (`MoneyInv`); a step leaves a history, extends it by a run, or a
  restart begins it anew (`HistoryStep`).
* `HardDrawdownStops`: by `DrawdownInv` and that the largest loss grows with the
  equity a market is sized by: past the hard drawdown the clip is zero, and before it one
  market costs no more than its cap and fee.
* `ModelsLearnOnce`, `SamplesOfTheirMarket`: from `LearnInv`, by which the parts of a model
  agree on what they learned and are empty of other markets between runs.
  `SamplesAreOwn` is proved for models that may learn. Under a frozen snapshot it is
  false, which is the finding of `portfolio_rolling`; what does hold there is
  `RunnerKeepsSnapshots`: the runner records nothing.
* `NamedFilesStayWhole`, `SummariesAreBacked`, `DoneMeansWritten`: from `DiskInv`, which ties
  the place in the writing of a checkpoint to the two named and the two temporary files,
  for any number of processes killed anywhere.

**Strategies** (`StrategiesProofs`; composite scores are numbers, stakes are not negative, the clips and the terms of the tail
are finite, non-empty sets). The invariant `IInv` is the types of session and books, and per
property the part of a lane's books that makes it inductive, because the requests
of one call are asked in nine steps: `SideInv`, `LadderInv`, `LiteInv`, `KindInv`, `TailInv`,
`FavouriteInv`, `SkewInv`, `ShotInv`. For each lane it is first proved what it does
(`LateConfirmDoes` and so on: it stays quiet, or its request is recorded), then
that each part survives it. Proved are `StrategyTypes`, `OneDirectionHolds`, `OneLadderHolds`,
`TailIsAlwaysFunded` (division rounds down in the direction that spends less),
`FavouriteBooksAgree`, `OverlayIsPassedOnce`, `HedgesOppose`, and the action properties
`SustainIsServed` and `ShotsAreFiredOnce`. `OneLoadPastTheCap` is inductive as it stands: a
lane that asks has seen the cap not reached by all that was asked before, by whichever
lane, asks for at most `LargestLoad` (`LoadIsBounded`), and the hedged base only grows.

**Walk-forward driver** (`WalkForwardProofs`; `MaxProcesses` is positive, options are Boolean where
the code's are).

* The fold plan: folds cut the markets in consecutive windows of at least the
  minimal size, each with a training stretch that ends the purge before it
  (`WindowsInARow`, `PlanFacts`). The starts of the folds are a recursive function, and what
  holds of all of them is proved by a minimal counterexample.
* `WalkInvHolds`: the inductive invariant `WalkInv` is `ProgramInv` (phase, fold, options
  and plan agree), `PoolInv` (a market of the stream is at one place: queued, in
  flight, or ended), `Room` (the flight is within the pool), `FileInv` (a file of the cache
  under its name is whole, and what a task is at is what its files are), `MemoryTypes`, `SampleInv` (samples
  are in order, from the training stretches so far, and models learned from them) and `AccountInv`
  (results and warnings are those of the folds evaluated so far).
* `WalkForwardTypes`, `NobodyPeeks`, `NoResultIsLost`, `OnlyWholeTapes` and `PrepIsHonest` follow from it.
* `DriverEvaluates`: `EvaluationSpec`. A fold that ends and the portfolio's handing over are tests of
  `Evaluation`, errors and kills stop it, restarts begin it again, and loads, files, training
  and the whole of `prep-cache` are stutters.

**Scoring model** (`ScoringProofs`; ring capacities and windows are positive, the times of
the ticks are integers and never go back: `ScoresAssumptions`, `TicksAssumption`, `ScoringAssumptions`).

* Rings: `RingHolds` says that a ring of a capacity holds the last entries of a sequence: its
  entries, counted from the head and around the end of the buffer, are the end of the
  sequence. `PushHolds` and `EmptyHolds` keep it through wrapping and clearing; `LastNIs`, `LiveIs`,
  `EndsAre` and `FoundIsPast` say what each read of a ring returns in terms of the sequence.
* `ModelIsSound`: the inductive invariant `Sound`. The model `Remembers` the events since the
  last recorded result (rings, extremes and the counts of the chain), and `Carries` every recorded
  one (tables counted by bucket, ranges and labels by market, what waits for a result); and the last
  evaluation was made by a model that remembered all events but the last. The two properties are not inductive
  themselves: they compare an output, or a second model, with a history, and do not
  say that the rings agree with it. Per action, `EvaluateIsSound`, `RecordIsSound`, `DeployIsSound`.
* `ScoresAreOfThePast`: `ScoresReadTheirPast`, with the searches over the ticks by `PriceIsPast`
  and `SpotIsPast`.
* `ModelCarries`: `CarriesWhatPortfolioSees`. The model of the portfolio is rebuilt
  from the history by a recursive function over results and events; `ViewHolds` says what it is
  after each, by a minimal counterexample.

**Training** (`TrainingProofs`; `TrainingAssumptions`, and tapes are of quotes).

* `IsotonicIsRegression`. The code pools the last block with the one before it as long as
  that one's rate is above its own. With `T[k]` the totals of the first `k` groups, a block is a stretch
  of groups, and `NotAbove` compares the rates of two stretches without dividing. A stretch
  `Falls` if the rate of no proper end of it is above that of what comes before, and the blocks
  are always `Stacked`: stretches that fall, none below the one before.
  Pushing a group and settling keeps this (`PushOne`, `JoinedFall`, `SettledStacks`), and from
  a stack both halves of the min-max formula follow: no rate that ends with a stretch is above it
  (`StackFromBelow`), none that starts with it is below (`StackToAbove`).
* `BalancedIsBalanced`. `Draws` says that a list is of some places of another, none twice. `EvenlySampled`
  draws, since neighbouring quotients differ by at least one (`EvenPlaces`); `Concat` has every
  place of its lists once (`ConcatLocates`); what all markets contribute is at most their number times
  the share, which is why the last cut never loses a market there was room for.
* `SplitDivides`: the markets are cut, not the samples, and those held out are later.
* `TrainingSound`: `TrainingIsSound`, from `TrainingInv`: during a fit the samples on both sides are those
  chosen from the collected ones, and the best calibrator came from `FitBatch` of the one side and was
  judged by a side that is not empty. The property itself does not say where the
  calibrator came from and is not inductive.

Induction. The library's induction theorems cannot be used (they take an operator), so
where a fact is about all prefixes, all folds or all elements of a finite set, a number at
which it fails first is taken (`LeastNat`) and refuted. `SelectSeq` and `SortSeq` have no
definition the prover unfolds; `Lists` defines what the models take from them.

Only model-checked:

* `RunEnds`, `EveryRunEnds` and `RunsEnd`: liveness is beyond the prover.
* The properties of the runs that are violated, of course, and that all actions can happen.

## Not modelled, and why

* The reporting of the runner (equity curve, decision log, fill annotations,
  post-fill paths): nothing reads it back.
* Of the portfolio: the figures of the summary (`aggregate` and the
  meta-calibration report), and replays without `clip_fraction_of_equity`, whose
  clips do not depend on equity. `run_backtest` fails only when it cannot
  open a decision log or an equity curve, which this configuration does not ask
  for, so the branch for a failed strategy is left out.
* The arithmetic of scores, signals, losses and gradients: floating-point functions of
  the history. Modelled is what they read and what is done with them; the
  runner and the strategies must be right whatever they answer.
* In `Runner`, which requests a strategy makes: any. In `Session`, how the
  runner fills them: late, in part or not at all. The two are not composed, since their
  product is out of TLC's reach; each assumes less of the other than holds.
* The sizing of loads in `BonereaperV2` beyond its caps (tapers, Kelly, fragile prices):
  any of `Clips`.
* The gate counters of `BonereaperV2`: a report. They do not add up to the checks
  (a whipsaw refusal of the high-skew lane bumps two, `bonereaper_v2.rs:1913-1917`).
* The shrinking of isotonic blocks towards the mean: what `TrainingIsSound` says of a
  regression it says of the blocks before it.
* Two processes at once over the same cache, which would share a temporary
  name: nothing in the program starts them, and `fleet` runs them one after the
  other.
* The figures aggregated from the results, the calibration report, and the
  cache of the spot history beyond its failure.
* Loaders, argument parsing, discovery, summaries, analysis scripts: I/O, parsing
  and formatting.
* `orders_submitted` counts after the request passed the gate; the statistic of
  requested notional, which treats the limit of a NO order as a price of YES
  (`runner.rs:1503`, `1535`), is reporting and left out.

Read with the model in hand, some facts of the code are worth knowing though no
run states them: the header of `runner.rs` (6-9) says a resting order fills
when the book touches its limit while `check_resting_fills` wants a strict
cross, as its own comment says; every market run has a portfolio of its
own, so the rolling daily cap is a cap per market. Further:

* `SkewWinRateTable` and `TimeOfDayTable` count in `yes_wins` the predictions
  that came true, of either side, and read it back as the rate at which YES wins
  (`pm-model/src/lib.rs:1958-1990`, 664-688).
* `value_at_or_before` walks from the oldest entry and returns the first that
  is old enough, so over a long ring it compares with the oldest event
  (`pm-model/src/lib.rs:388`).
* The isotonic regression shrinks its blocks towards the mean after they were pooled,
  which may undo their order; a prediction takes the block below
  (`pm-model/src/lib.rs:1364-1384`).
* The comment on BonereaperV2's overlay cap promises that the fraction of the hedged base
  is not passed (`bonereaper_v2.rs:324-325, 936-938`). It is tested before a load and not with it,
  so one load may pass it, which `OneLoadPastTheCap` states.
* In portfolio mode no purge is applied between training and test, and the
  samples file is reused whatever markets its samples are of
  (`walkforward.rs:2009-2078`, 2291-2312).
* A file that `prep-cache --skip-existing` finds is taken for complete; a cut one is
  refused when it is read (`TapesAreWhole`), and only a run without the
  option replaces it.

## Plan

Done: `Runner`, `Risk`, `Ledger`; `Portfolio` and `ModelState`; the strategies over a
`Session`; `FoldPlan`, the pool, the caches and the processes of `WalkForward` against
`Evaluation`; lookups, rings, scores, training and calibration in `Scoring`. Proofs of every
safety and action property of the passing runs and of both refinements.

Left, in this order:

1. The aggregates of `run_markets` as folds over results, and the calibration
   report.
