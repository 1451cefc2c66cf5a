------------------------ MODULE PortfolioProperties -------------------------
(***************************************************************************)
(* What the replay of a portfolio keeps, and what its files show.          *)
(***************************************************************************)
EXTENDS Portfolio

Runs    == [start : Nat, end : Nat]
Models  == [rolling : SUBSET (1 .. NumMarkets), pending : 0 .. NumMarkets, ranging : 0 .. NumMarkets,
            ranges : Seq(1 .. NumMarkets), outcomes : Seq(1 .. NumMarkets),
            calibrator : Seq(0 .. NumMarkets)]
Results == [market : 1 .. NumMarkets, per : Seq(Runs)]
Samples == [market : 1 .. NumMarkets, sources : SUBSET (1 .. NumMarkets)]
Files   == [process : 0 .. MaxProcesses, markets : 0 .. NumMarkets, whole : BOOLEAN]

\* Every variable has its type; the volatility window keeps its capacity.
TypeOK ==
  /\ phase \in {"load", "run", "write", "done", "stopped"}
  /\ market \in 1 .. NumMarkets + 1
  /\ active \in BOOLEAN /\ captured \in BOOLEAN
  /\ per \in Seq(Runs)
  /\ equity \in [Strategies -> Nat] /\ peak \in [Strategies -> Nat]
  /\ model \in [Strategies -> Models]
  /\ \A k \in Strategies : Len(model[k].ranges) <= VolatilityWindow
  /\ skew \in [Strategies -> Seq(1 .. NumMarkets)]
  /\ results \in Seq(Results)
  /\ samples \in Seq(Samples)
  /\ todo \in {<<>>, Outputs, Tail(Outputs)}
  /\ stage \in {"create", "fill", "rename"}
  /\ disk \in [Names -> Files]
  /\ process \in 1 .. MaxProcesses

\* The runs of strategy k in this process, this market's included.
History(k) ==
  [i \in 1 .. Len(results) |-> results[i].per[k]] \o (IF k < Turn THEN <<per[k]>> ELSE <<>>)

\* The markets strategy k has been run on.
Traded(k) ==
  {results[i].market : i \in DOMAIN results} \union (IF k < Turn THEN {market} ELSE {})

HistoricPeak(k) ==
  LET h == History(k) IN Max({StartingCash} \union {h[i].end : i \in DOMAIN h})

\* Equity compounds without a gap: a strategy starts each market with what
\* its last market left it, however many markets in between failed to load,
\* and never with what another strategy made.
EquityChains ==
  \A k \in Strategies :
    LET h == History(k)
    IN  /\ \A i \in DOMAIN h : h[i].start = IF i = 1 THEN StartingCash ELSE h[i - 1].end
        /\ equity[k] = IF h = <<>> THEN StartingCash ELSE h[Len(h)].end

\* With a hard stop, no strategy ends more than one market's worst loss
\* beyond the hard drawdown below the best equity it ever had: "drawdown
\* where clips scale to zero".
DrawdownStops ==
  SoftPct < HardPct /\ MinMultiplierPct = 0 =>
    \A k \in Strategies :
      LET top == HistoricPeak(k)
      IN  10000 * (top - equity[k]) <= 100 * HardPct * top + (100 + FeePct) * ExposureCap(top)

Increasing(s) == \A i, j \in DOMAIN s : i < j => s[i] < s[j]

\* A model learns each resolved market once, in order, and only one
\* it has been run on: its tables, its calibrator and its window of ranges agree on
\* which, for ReactiveDirectional as for the strategies the runner scores.
LearnsOnceInOrder ==
  ~Frozen =>
    \A k \in Strategies :
      LET ms == model[k]
          n  == Len(ms.outcomes)
      IN  /\ Increasing(ms.outcomes)
          /\ ToSet(ms.outcomes) \subseteq Traded(k)
          /\ ms.calibrator = ms.outcomes
          /\ ms.ranges = SubSeq(ms.outcomes, Max({1, n - VolatilityWindow + 1}), n)
          /\ Reactive(k) => skew[k] = ms.outcomes

\* The features of a market's out-of-sample prediction are drawn from that
\* market's events, as in training, where every market is replayed on a model
\* of its own.  With a frozen snapshot they are not: what resets the rolling
\* state is the recording that is then disabled.
SamplesAreOwn ==
  \A i \in DOMAIN samples : samples[i].sources = {samples[i].market}

\* With a frozen snapshot no model learns from the markets it is evaluated
\* on: recording results is "disable[d] for frozen snapshot evaluation".  The
\* flag is the runner's; ReactiveDirectional records on its model itself.
FrozenStaysFrozen ==
  Frozen => \A k \in Strategies : model[k].outcomes = <<>> /\ model[k].calibrator = Snapshot

\* A file under its own name is always whole, whenever its writer dies.
NamedFilesAreWhole == disk["markets"].whole /\ disk["summary"].whole

\* A summary never speaks of markets that are not in the markets file beside
\* it, unless that file is a later process's; and within a process it is at
\* most one checkpoint behind.
SummaryIsBacked ==
  LET m == disk["markets"]
      s == disk["summary"]
  IN  /\ m.process >= s.process
      /\ m.process = s.process => s.markets <= m.markets /\ m.markets <= s.markets + CheckpointEvery

\* A process that ends in good order leaves all its results.
DoneIsWritten ==
  phase = "done" => \A f \in {"markets", "summary"} : disk[f] = Contents(TRUE)

\* Every process that is not killed comes to its end, however many markets
\* fail to load.
EveryRunEnds == phase = "load" ~> phase \in {"done", "stopped"}
=============================================================================
