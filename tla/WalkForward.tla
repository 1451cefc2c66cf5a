---------------------------- MODULE WalkForward -----------------------------
(***************************************************************************)
(* The processes around the market runs: prep-cache mirrors the tapes, and *)
(* run_walkforward trains on markets and tests on later ones, a bounded    *)
(* number of tapes in flight at a time.  They meet in the files they leave *)
(* behind: the mirror, the cache of replay events, the training samples    *)
(* and the snapshot.  A process may be killed at any step; the next one is *)
(* started over its files, with whatever options.                          *)
(***************************************************************************)
EXTENDS FoldPlan, FiniteSets, SequencesExt

CONSTANTS
  NumMarkets,   \* markets, in the order they close
  Close,        \* market_close_ts, as a rank
  Options,      \* command lines
  Mirrors,      \* what the mirror may hold at first
  Fetches,      \* max_concurrent_fetches, max_concurrent
  MaxProcesses  \* bound: how often a process is started

Markets == 1 .. NumMarkets
Absent == "absent"
Part == "part"
Whole == "whole"
FileStates == {Absent, Part, Whole}

ASSUME WalkForwardAssumptions ==
  /\ NumMarkets \in Nat
  /\ Close \in [Markets -> Markets]
  /\ \A m, n \in Markets : m <= n => Close[m] <= Close[n]
  /\ Mirrors \subseteq [Markets -> FileStates]
  /\ Fetches \in Nat
  /\ MaxProcesses \in Nat \ {0}
  /\ \A o \in Options :
       /\ DOMAIN o = {"program", "skipExisting", "portfolio", "folds", "size", "purge", "minTrain",
                      "meta", "snapshotIn", "snapshotOut", "forbid", "samplesCache", "eventCache"}
       /\ o.program \in {"prep", "walk"}
       /\ {o.skipExisting, o.portfolio, o.meta, o.snapshotIn, o.snapshotOut, o.forbid,
           o.samplesCache, o.eventCache} \subseteq BOOLEAN
       /\ {o.purge, o.minTrain} \subseteq Nat
       /\ {o.folds, o.size} \subseteq Nat \union {Unset}

VARIABLES
  opt,          \* the options of the process
  phase,
  fold,         \* fold_idx + 1
  todo,         \* jobs of the stream not yet begun
  busy,         \* jobs in flight, each with its step
  ended,        \* tapes in the order they came in
  warned,       \* tapes of tested markets that failed to load, or downloads that failed
  loadedUntil,  \* training_loaded_until
  samples,      \* training_samples, by the market they are of
  learned,      \* the markets of meta_snapshot, none for None and for the default
  results,
  mirror, cached, temporary,    \* by market: its parquet file, .jsonl and .tmp
  samplesFile, snapshotFile,    \* with the markets they are of
  process       \* how often a process was started

pool   == <<todo, busy, ended>>
memory == <<fold, loadedUntil, samples, learned, results>>
disk   == <<mirror, cached, temporary, samplesFile, snapshotFile>>
vars   == <<opt, phase, pool, warned, memory, disk, process>>

plans == [o \in Options |-> IF Refused(NumMarkets, o) THEN <<>> ELSE Plan(NumMarkets, o)]
plan == plans[opt]
Window == plan[fold]
Pooled == {"prep", "collect", "oos", "replay"}
Ended == {"done", "error", "killed"}
-----------------------------------------------------------------------------
(* buffer_unordered over the markets first + 1 .. last.                    *)

Jobs(first, last) == [i \in 1 .. last - first |-> first + i]

Stream(jobs, next) ==
  /\ phase' = next
  /\ todo' = jobs /\ busy' = {} /\ ended' = <<>>

\* Faulty variant: the stream is asked again before it is full.
OneMore == Fetches + 1

\* Training takes one tape at a time at least; the others take none for 0.
Width == IF phase \in {"collect", "oos"} /\ Fetches = 0 THEN 1 ELSE Fetches

\* write_replay_event_cache awaits nothing: no other job moves until it is through.
Saving == \E j \in busy : j.step \in {"create", "fill", "rename"}

CanMove == phase \in Pooled /\ ~Saving

\* Faulty variant: the tapes in flight when the stream is exhausted are lost.
Exhausted == phase \in Pooled /\ todo = <<>>

Drained == phase \in Pooled /\ todo = <<>> /\ busy = {}

Job(m, step) == [market |-> m, step |-> step]
Tape(m, whole) == [market |-> m, whole |-> whole]

Taken ==
  /\ CanMove /\ todo # <<>> /\ Cardinality(busy) < Width
  /\ todo' = Tail(todo)
  /\ UNCHANGED <<opt, phase, warned, memory, disk, process>>

\* The job is through before it first waits: with the cached tape, or
\* because the file is there already.  A line cut off in the middle does not
\* parse; a file cut between two lines does.
TakeStored(whole) ==
  LET m == Head(todo)
  IN  /\ Taken
      /\ IF phase = "prep" THEN opt.skipExisting /\ mirror[m] # Absent /\ whole
         ELSE opt.eventCache /\ cached[m] # Absent /\ whole = (cached[m] = Whole)
      /\ ended' = Append(ended, Tape(m, whole))
      /\ UNCHANGED busy

Take ==
  LET m == Head(todo)
  IN  /\ Taken
      /\ IF phase = "prep" THEN ~(opt.skipExisting /\ mirror[m] # Absent)
         ELSE ~(opt.eventCache /\ cached[m] = Whole)
      /\ busy' = busy \union {Job(m, "get")}
      /\ UNCHANGED ended

Advance(j, step) == busy' = (busy \ {j}) \union {Job(j.market, step)} /\ UNCHANGED <<todo, ended>>

Through(j) ==
  busy' = busy \ {j} /\ ended' = Append(ended, Tape(j.market, TRUE)) /\ UNCHANGED todo

\* Faulty variant: a job that fails goes to the end of the stream.
Retried(j) == busy' = busy \ {j} /\ todo' = Append(todo, j.market) /\ UNCHANGED ended

Dropped(j) == busy' = busy \ {j} /\ UNCHANGED <<todo, ended>>
-----------------------------------------------------------------------------
(* load_replay_events_for_market.                                          *)

Load(j) ==
  /\ CanMove /\ phase # "prep" /\ j.step = "get"
  /\ mirror[j.market] = Whole
  /\ IF opt.eventCache THEN Advance(j, "create") ELSE Through(j)
  /\ UNCHANGED <<opt, phase, warned, memory, disk, process>>

\* Not found, not readable, or cut off: the market is left out.
LoadFails(j) ==
  /\ CanMove /\ phase # "prep" /\ j.step = "get"
  /\ Dropped(j)
  /\ warned' = IF phase = "replay" THEN warned \union {j.market} ELSE warned
  /\ UNCHANGED <<opt, phase, memory, disk, process>>

CreateTmp(j) ==
  /\ j.step = "create"
  /\ temporary' = [temporary EXCEPT ![j.market] = Part]
  /\ Advance(j, "fill")
  /\ UNCHANGED <<opt, phase, warned, memory, mirror, cached, samplesFile, snapshotFile, process>>

\* Faulty variant: the events are written to the cache file itself.
FillInPlace(j) ==
  /\ j.step = "fill"
  /\ cached' = [cached EXCEPT ![j.market] = Part]
  /\ Advance(j, "rename")
  /\ UNCHANGED <<opt, phase, warned, memory, mirror, temporary, samplesFile, snapshotFile, process>>

FillTmp(j) ==
  /\ j.step = "fill"
  /\ temporary' = [temporary EXCEPT ![j.market] = Whole]
  /\ Advance(j, "rename")
  /\ UNCHANGED <<opt, phase, warned, memory, mirror, cached, samplesFile, snapshotFile, process>>

RenameTmp(j) ==
  /\ j.step = "rename"
  /\ cached' = [cached EXCEPT ![j.market] = temporary[j.market]]
  /\ temporary' = [temporary EXCEPT ![j.market] = Absent]
  /\ Through(j)
  /\ UNCHANGED <<opt, phase, warned, memory, mirror, samplesFile, snapshotFile, process>>

\* Only a warning: the tape is in memory.
SaveFails(j) ==
  /\ j.step \in {"create", "fill", "rename"}
  /\ Through(j)
  /\ UNCHANGED <<opt, phase, warned, memory, disk, process>>
-----------------------------------------------------------------------------
(* prep-cache.                                                             *)

\* A listing that fails or finds nothing leaves its target out.
ListTargets(targets) ==
  /\ phase = "preload" /\ opt.program = "prep"
  /\ Stream(Sorted(targets, <), "prep")
  /\ UNCHANGED <<opt, warned, memory, disk, process>>

CreateFile(j) ==
  /\ CanMove /\ phase = "prep" /\ j.step = "get"
  /\ mirror' = [mirror EXCEPT ![j.market] = Part]
  /\ Advance(j, "write")
  /\ UNCHANGED <<opt, phase, warned, memory, cached, temporary, samplesFile, snapshotFile, process>>

\* flush().await.ok(): whether the end of the file was written is not asked.
WriteFile(j, flushed) ==
  /\ CanMove /\ phase = "prep" /\ j.step = "write"
  /\ mirror' = [mirror EXCEPT ![j.market] = IF flushed THEN Whole ELSE @]
  /\ Through(j)
  /\ UNCHANGED <<opt, phase, warned, memory, cached, temporary, samplesFile, snapshotFile, process>>

\* What was written of the file stays.
DownloadFails(j) ==
  /\ CanMove /\ phase = "prep"
  /\ Dropped(j)
  /\ warned' = warned \union {j.market}
  /\ UNCHANGED <<opt, phase, memory, disk, process>>

\* Faulty variant: the errors are counted and printed only.
PrintErrors ==
  /\ phase = "prep" /\ Drained
  /\ phase' = "done"
  /\ UNCHANGED <<opt, pool, warned, memory, disk, process>>

CountErrors ==
  /\ phase = "prep" /\ Drained
  /\ phase' = IF warned = {} THEN "done" ELSE "error"
  /\ UNCHANGED <<opt, pool, warned, memory, disk, process>>
-----------------------------------------------------------------------------
(* run_walkforward, up to the first market.                                *)

SpotFails ==
  /\ phase = "preload" /\ opt.program = "walk"
  /\ phase' = "error"
  /\ UNCHANGED <<opt, pool, warned, memory, disk, process>>

StartFolds ==
  /\ phase = "preload" /\ opt.program = "walk" /\ ~opt.portfolio
  /\ phase' = IF Refused(NumMarkets, opt) THEN "error" ELSE "train"
  /\ UNCHANGED <<opt, pool, warned, memory, disk, process>>

\* meta_calibrator_snapshot_in
Given == opt.meta /\ opt.snapshotIn

Trains == opt.meta /\ ~opt.snapshotIn /\ opt.minTrain > 0

RefusesPortfolio ==
  \/ UsesFolds(opt)
  \/ Given /\ snapshotFile.state # Whole
  \/ opt.minTrain > 0 /\ opt.minTrain >= NumMarkets
  \/ Trains /\ opt.forbid

\* The file is taken whatever markets its samples are of.
Reuses == opt.samplesCache /\ samplesFile.state = Whole

Preloaded == phase = "preload" /\ opt.program = "walk" /\ opt.portfolio

RefusePortfolio ==
  /\ Preloaded /\ RefusesPortfolio
  /\ phase' = "error"
  /\ UNCHANGED <<opt, pool, warned, memory, disk, process>>

StartPortfolio ==
  /\ Preloaded /\ ~RefusesPortfolio /\ ~Trains
  /\ phase' = "portfolio"
  /\ learned' = IF Given THEN snapshotFile.of ELSE {}
  /\ UNCHANGED <<opt, pool, warned, fold, loadedUntil, samples, results, disk, process>>

ReuseSamples ==
  /\ Preloaded /\ ~RefusesPortfolio /\ Trains /\ Reuses
  /\ phase' = "fit"
  /\ samples' = samplesFile.of
  /\ UNCHANGED <<opt, pool, warned, fold, loadedUntil, learned, results, disk, process>>

CollectForPortfolio ==
  /\ Preloaded /\ ~RefusesPortfolio /\ Trains /\ ~Reuses
  /\ Stream(Jobs(0, opt.minTrain), "collect")
  /\ UNCHANGED <<opt, warned, memory, disk, process>>
-----------------------------------------------------------------------------
(* The folds.                                                              *)

\* The window has a model of its own.
FoldTrains == opt.meta /\ UsesFolds(opt) /\ Window.trainEnd > 0

TrainFold ==
  /\ phase = "train"
  /\ IF FoldTrains /\ Window.trainEnd > loadedUntil
     THEN Stream(Jobs(loadedUntil, Window.trainEnd), "collect")
     ELSE phase' = "fit" /\ UNCHANGED pool
  /\ UNCHANGED <<opt, warned, memory, disk, process>>

LoadedAfter == IF opt.portfolio THEN loadedUntil ELSE Window.trainEnd

Came == {ended[i].market : i \in DOMAIN ended}

\* Sorted by index, whatever came in first.
Collected ==
  /\ phase = "collect" /\ Drained
  /\ samples' = samples \o Sorted(Came, <)
  /\ loadedUntil' = LoadedAfter
  /\ phase' = IF opt.portfolio /\ opt.samplesCache THEN "create samples" ELSE "fit"
  /\ UNCHANGED <<opt, pool, warned, fold, learned, results, disk, process>>

WindowJobs == Jobs(Window.testStart, Window.testEnd)

FitFold ==
  /\ phase = "fit" /\ ~opt.portfolio
  /\ learned' = IF FoldTrains THEN ToSet(samples) ELSE {}
  /\ Stream(WindowJobs, IF learned' = {} THEN "replay" ELSE "oos")
  /\ UNCHANGED <<opt, warned, fold, loadedUntil, samples, results, disk, process>>

\* The samples of the tested markets only go into the report.
EvaluatedFold ==
  /\ phase = "oos" /\ Drained
  /\ Stream(WindowJobs, "replay")
  /\ UNCHANGED <<opt, warned, memory, disk, process>>

\* Faulty variant: the results stay in the order the tapes came in.
AsTheyCame == [i \in DOMAIN ended |-> ended[i].market]

\* A stable sort: markets with one close stay in the order they came in.
ByClose ==
  LET close(i) == Close[ended[i].market]
      order == Sorted(DOMAIN ended, LAMBDA i, j : close(i) < close(j) \/ (close(i) = close(j) /\ i < j))
  IN  [k \in DOMAIN order |-> ended[order[k]].market]

Result(m) == [market |-> m, learned |-> learned]

FinishFold ==
  /\ phase = "replay" /\ Drained
  /\ results' = results \o LET order == ByClose IN [i \in DOMAIN order |-> Result(order[i])]
  /\ fold' = fold + 1
  /\ phase' = IF fold = Len(plan) THEN "done" ELSE "train"
  /\ UNCHANGED <<opt, pool, warned, loadedUntil, samples, learned, disk, process>>
-----------------------------------------------------------------------------
(* The portfolio: its samples, its snapshot, and what Portfolio models.    *)

SplitAt(n) == LET at == (8 * n + 5) \div 10 IN IF at < 1 THEN 1 ELSE IF at > n - 1 THEN n - 1 ELSE at

\* A candidate is selected on the last markets after learning from the first;
\* otherwise the snapshot is the default one.
FitPortfolio(selected) ==
  /\ phase = "fit" /\ opt.portfolio
  /\ selected => Len(samples) > 1
  /\ learned' = IF selected THEN ToSet(SubSeq(samples, 1, SplitAt(Len(samples)))) ELSE {}
  /\ phase' = IF samples # <<>> /\ opt.snapshotOut THEN "create snapshot" ELSE "portfolio"
  /\ UNCHANGED <<opt, pool, warned, fold, loadedUntil, samples, results, disk, process>>

CreateSamplesFile ==
  /\ phase = "create samples" /\ phase' = "fill samples"
  /\ samplesFile' = [state |-> Part, of |-> <<>>]
  /\ UNCHANGED <<opt, pool, warned, memory, mirror, cached, temporary, snapshotFile, process>>

\* The BufWriter is dropped, not flushed: its last error goes unheard.
FillSamplesFile(flushed) ==
  /\ phase = "fill samples" /\ phase' = "fit"
  /\ samplesFile' = IF flushed THEN [state |-> Whole, of |-> samples] ELSE samplesFile
  /\ UNCHANGED <<opt, pool, warned, memory, mirror, cached, temporary, snapshotFile, process>>

CreateSnapshotFile ==
  /\ phase = "create snapshot" /\ phase' = "fill snapshot"
  /\ snapshotFile' = [state |-> Part, of |-> {}]
  /\ UNCHANGED <<opt, pool, warned, memory, mirror, cached, temporary, samplesFile, process>>

FillSnapshotFile(flushed) ==
  /\ phase = "fill snapshot" /\ phase' = "portfolio"
  /\ snapshotFile' = IF flushed THEN [state |-> Whole, of |-> learned] ELSE snapshotFile
  /\ UNCHANGED <<opt, pool, warned, memory, mirror, cached, temporary, samplesFile, process>>

\* These two files are not optional.
WriteFails ==
  /\ phase \in {"create samples", "fill samples", "create snapshot", "fill snapshot"}
  /\ phase' = "error"
  /\ UNCHANGED <<opt, pool, warned, memory, disk, process>>

\* run_portfolio; which of the markets load is left to Portfolio.
RunPortfolio ==
  /\ phase = "portfolio"
  /\ results' = [i \in DOMAIN Jobs(opt.minTrain, NumMarkets) |-> Result(opt.minTrain + i)]
  /\ phase' = "done"
  /\ UNCHANGED <<opt, pool, warned, fold, loadedUntil, samples, learned, disk, process>>
-----------------------------------------------------------------------------
Init ==
  /\ opt \in Options /\ phase = "preload" /\ fold = 1
  /\ todo = <<>> /\ busy = {} /\ ended = <<>> /\ warned = {}
  /\ loadedUntil = 0 /\ samples = <<>> /\ learned = {} /\ results = <<>>
  /\ mirror \in Mirrors
  /\ cached = [m \in Markets |-> Absent]
  /\ temporary = [m \in Markets |-> Absent]
  /\ samplesFile = [state |-> Absent, of |-> <<>>]
  /\ snapshotFile = [state |-> Absent, of |-> {}]
  /\ process = 1

Forget ==
  /\ fold' = 1 /\ loadedUntil' = 0 /\ samples' = <<>> /\ learned' = {} /\ results' = <<>>
  /\ todo' = <<>> /\ busy' = {} /\ ended' = <<>> /\ warned' = {}

Killed ==
  /\ phase \notin Ended
  /\ phase' = "killed" /\ Forget
  /\ UNCHANGED <<opt, disk, process>>

Restart ==
  /\ phase \in Ended /\ process < MaxProcesses
  /\ opt' \in Options /\ phase' = "preload" /\ Forget
  /\ process' = process + 1
  /\ UNCHANGED disk

Terminated == phase \in Ended /\ process = MaxProcesses /\ UNCHANGED vars

JobMoves ==
  \/ \E whole \in BOOLEAN : TakeStored(whole)
  \/ Take
  \/ \E j \in busy : Load(j) \/ LoadFails(j) \/ CreateTmp(j) \/ FillTmp(j) \/ RenameTmp(j)
  \/ \E j \in busy : SaveFails(j) \/ CreateFile(j) \/ DownloadFails(j)
  \/ \E j \in busy, flushed \in BOOLEAN : WriteFile(j, flushed)

Work ==
  \/ \E targets \in SUBSET Markets : ListTargets(targets)
  \/ JobMoves \/ CountErrors
  \/ SpotFails \/ StartFolds
  \/ RefusePortfolio \/ StartPortfolio \/ ReuseSamples \/ CollectForPortfolio
  \/ TrainFold \/ Collected \/ FitFold \/ EvaluatedFold \/ FinishFold
  \/ \E selected \in BOOLEAN : FitPortfolio(selected)
  \/ CreateSamplesFile \/ CreateSnapshotFile
  \/ \E flushed \in BOOLEAN : FillSamplesFile(flushed) \/ FillSnapshotFile(flushed)
  \/ WriteFails \/ RunPortfolio

Next == Work \/ Killed \/ Restart \/ Terminated

Spec == Init /\ [][Next]_vars
FairSpec == Spec /\ WF_vars(Work)
=============================================================================
