----------------------- MODULE WalkForwardProperties ------------------------
(***************************************************************************)
(* What the processes around the market runs are checked for.              *)
(***************************************************************************)
EXTENDS WalkForward

Increasing(s) == \A i, j \in DOMAIN s : i < j => s[i] < s[j]

Streamed ==
  ToSet(todo) \union {j.market : j \in busy} \union Came

\* Type correctness.  A market of a stream is in one place of it, no more
\* than the configured number of tapes are in flight, and only one is written
\* to the cache at a time.
TypeOK ==
  /\ opt \in Options
  /\ phase \in Pooled \union Ended \union
       {"preload", "train", "fit", "portfolio", "create samples", "fill samples",
        "create snapshot", "fill snapshot"}
  /\ todo \in Seq(Markets) /\ ended \in Seq([market : Markets, whole : BOOLEAN])
  /\ busy \subseteq [market : Markets, step : {"get", "write", "create", "fill", "rename"}]
  /\ Len(todo) + Cardinality(busy) + Len(ended) = Cardinality(Streamed)
  /\ Cardinality(busy) <= (IF Fetches = 0 THEN 1 ELSE Fetches)
  /\ Cardinality({j \in busy : j.step \in {"create", "fill", "rename"}}) <= 1
  /\ {warned, learned} \subseteq SUBSET Markets
  /\ fold \in 1 .. Len(plan) + 1 /\ loadedUntil \in 0 .. NumMarkets
  /\ samples \in Seq(Markets)
  /\ results \in Seq([market : Markets, learned : SUBSET Markets])
  /\ {mirror, cached, temporary} \subseteq [Markets -> FileStates]
  /\ samplesFile \in [state : FileStates, of : Seq(Markets)]
  /\ snapshotFile \in [state : FileStates, of : SUBSET Markets]
  /\ process \in 1 .. MaxProcesses

\* Whatever the folds and the failures, a market is tested with a model that
\* learned only from markets more than purge_markets before it, although the
\* training samples grow from fold to fold (run_walkforward); and the samples
\* of a market enter the training set once, in the order of the markets.
NoPeeking ==
  opt.program = "walk" /\ ~opt.portfolio =>
    /\ \A i \in DOMAIN results : \A m \in results[i].learned : m + opt.purge < results[i].market
    /\ Increasing(samples)

\* A fold run that ends has, for every market of its windows, either one
\* result or a warning, and its results are in the order of the closes
\* (aggregate folds them into one equity curve): buffer_unordered, rayon and
\* the sort lose and repeat nothing.
ResultsAccounted ==
  opt.program = "walk" /\ ~opt.portfolio /\ phase = "done" =>
    LET tested == {results[i].market : i \in DOMAIN results}
        windows == UNION {plan[k].testStart + 1 .. plan[k].testEnd : k \in DOMAIN plan}
    IN  /\ tested \union warned = windows
        /\ Len(results) + Cardinality(warned) = Cardinality(windows)
        /\ \A i, j \in DOMAIN results : i < j => Close[results[i].market] <= Close[results[j].market]

\* Every tape trained on or replayed is whole, whatever a killed process left
\* in the mirror or was writing to the cache of replay events: a cut mirror
\* file is refused, and only a complete cache file gets its name.
TapesAreWhole ==
  phase # "prep" => \A i \in DOMAIN ended : ended[i].whole

\* When prep-cache reports success no download of the run had failed and
\* every file it listed is there, skipped or fetched.  (Whole it need not be:
\* neither a file that --skip-existing let stand nor one whose flush failed
\* is looked at again.)
PrepKeepsItsWord ==
  opt.program = "prep" /\ phase = "done" =>
    warned = {} /\ \A m \in Came : mirror[m] # Absent

\* Every process ends, in results or an error, unless its pool has no room
\* at all.
RunsEnd == Fetches > 0 => (phase = "preload" ~> phase \in Ended)

Promise ==
  INSTANCE Evaluation WITH
    config <- opt, window <- fold, tested <- results, over <- phase \in Ended

\* To whoever reads the results, a process is a sequence of tests, each done
\* at once with a model that knows nothing past its training stretch.
EvaluationSpec == Promise!EvaluationSpec
=============================================================================
