----------------------------- MODULE Calibrator -----------------------------
(***************************************************************************)
(* How OnlineMetaCalibrator is fitted to a batch of samples: a beta map of *)
(* the base probability, the isotonic blocks over it and the boosted trees *)
(* over the features.  Losses, gradients and weights are not modelled: the *)
(* fit is any of those the guards leave.  The isotonic fit is exact, its   *)
(* rates fractions.                                                        *)
(*   A sample is [market, features, base, won], its probability in percent.*)
(***************************************************************************)
EXTENDS Integers, SequencesExt, FiniteSetsExt

CONSTANTS
  BetaMinSamples,      \* BETA_CALIBRATOR_MIN_SAMPLES
  IsotonicMinSamples,  \* ISOTONIC_MIN_SAMPLES
  MinUpdates,          \* META_CALIBRATOR_MIN_UPDATES
  TreeCount,           \* META_TREE_COUNT
  MinLeaf,             \* META_TREE_MIN_LEAF
  MaxTreeSamples,      \* META_TREE_MAX_TRAIN_SAMPLES
  Turns                \* bound: where a beta map may turn, 0 if it never does

ASSUME CalibratorAssumptions ==
  {BetaMinSamples, IsotonicMinSamples, MinUpdates, TreeCount, MinLeaf, MaxTreeSamples}
    \subseteq Nat \ {0}

ASSUME TurnsAssumption == Turns \subseteq 0 .. 100

\* The numbers of a set, the least first.
Ascending(xs) ==
  [k \in 1 .. Cardinality(xs) |-> CHOOSE x \in xs : Cardinality({y \in xs : y < x}) = k - 1]

NoBeta == [enabled |-> FALSE, dips |-> TRUE, turn |-> 0]

\* BetaCalibrator::fit: the identity, or a map whose coefficients are of any signs.
Betas(samples) ==
  {NoBeta} \union
    IF Len(samples) < BetaMinSamples THEN {}
    ELSE [enabled: {TRUE}, dips: BOOLEAN, turn: Turns]

\* BetaCalibrator::predict, up to the order of what it returns: a * ln(p) + b * ln(1 - p)
\* rises or falls when a and b differ in sign (a dip or a peak at 0 here), and has one
\* dip or one peak when they agree, taken to be as steep on either side.
Calibrated(beta, base) ==
  LET away == Max({base - beta.turn, beta.turn - base})
  IN  IF beta.dips THEN away ELSE 100 - away
-----------------------------------------------------------------------------
(* IsotonicCalibrator::fit.                                                *)

\* The samples by their calibrated probability, ties together.
Grouped(samples, beta) ==
  LET X(i) == Calibrated(beta, samples[i].base)
      xs == Ascending({X(i) : i \in DOMAIN samples})
      Of(x) == {i \in DOMAIN samples : X(i) = x}
  IN  [k \in DOMAIN xs |->
         [top |-> xs[k], weight |-> Cardinality(Of(xs[k])),
          won |-> Cardinality({i \in Of(xs[k]) : samples[i].won})]]

\* The rate of the one is at most that of the other.
AtMost(left, right) == left.won * right.weight <= right.won * left.weight

Joined(left, right) ==
  [top |-> right.top, weight |-> left.weight + right.weight, won |-> left.won + right.won]

\* The last block is joined with those before it until it is above the one that is left.
Settled(blocks) ==
  LET n == Len(blocks)
      joined[k \in 1 .. n] == IF k = n THEN blocks[n] ELSE Joined(blocks[k], joined[k + 1])
      kept == Max({k \in 1 .. n : k = 1 \/ AtMost(blocks[k - 1], joined[k])})
  IN  Append(SubSeq(blocks, 1, kept - 1), joined[kept])

Isotonic(samples, beta) ==
  LET groups == Grouped(samples, beta)
      n == Cardinality(DOMAIN groups)
      blocks[k \in 0 .. n] == IF k = 0 THEN <<>> ELSE Settled(Append(blocks[k - 1], groups[k]))
  IN  IF Len(samples) < IsotonicMinSamples THEN <<>> ELSE blocks[n]
-----------------------------------------------------------------------------
(* TreeEnsemble::fit.  A set of samples is the set of their positions.     *)

\* Every stride-th sample.
TrainIndices(samples) ==
  LET stride == (Len(samples) + MaxTreeSamples - 1) \div MaxTreeSamples
  IN  {i \in DOMAIN samples : (i - 1) % stride = 0}

Quantiles == {2, 5, 10, 20, 35, 50, 65, 80, 90, 95, 98}

\* candidate_thresholds, doubled: halfway between neighbouring values.
Thresholds(samples, indices, feature) ==
  LET values == Ascending({samples[i].features[feature] : i \in indices})
      n == Len(values)
      Place(q) == ((n - 2) * q + 50) \div 100 + 1
  IN  IF n < 2 THEN {} ELSE {values[Place(q)] + values[Place(q) + 1] : q \in Quantiles}

LeftOf(samples, indices, split) ==
  {i \in indices : 2 * samples[i].features[split.feature] <= split.threshold}

\* best_split: one with a gain among these, or none.
Splits(samples, indices) ==
  LET all == UNION {{[feature |-> f, threshold |-> t] : t \in Thresholds(samples, indices, f)} :
                    f \in {1, 2}}
      Left(s) == Cardinality(LeftOf(samples, indices, s))
  IN  IF Cardinality(indices) < 2 * MinLeaf THEN {}
      ELSE {s \in all : Left(s) >= MinLeaf /\ Cardinality(indices) - Left(s) >= MinLeaf}

\* A side that is not split takes the leaf of the root for both of its own.
NoSplit == [feature |-> 0, threshold |-> 0]

\* fit_boosted_tree.
BoostedTrees(samples, indices) ==
  UNION {LET left == LeftOf(samples, indices, root)
         IN  {[root |-> root, left |-> l, right |-> r] :
                l \in Splits(samples, left) \union {NoSplit},
                r \in Splits(samples, indices \ left) \union {NoSplit}} :
         root \in Splits(samples, indices)}

\* Trees are added until one gains nothing.
TreeEnsembles(samples) ==
  LET indices == TrainIndices(samples)
  IN  IF Cardinality(indices) < 4 * MinLeaf THEN {<<>>}
      ELSE UNION {[1 .. n -> BoostedTrees(samples, indices)] : n \in 0 .. TreeCount}
-----------------------------------------------------------------------------
Untrained == [beta |-> NoBeta, isotonic |-> <<>>, trees |-> <<>>, updates |-> 0]

\* fit_batch, into a calibrator of its own.
FitBatch(samples, epochs) ==
  IF samples = <<>> \/ epochs = 0 THEN {Untrained}
  ELSE LET ensembles == TreeEnsembles(samples)
           Fitted(beta) ==
             LET isotonic == Isotonic(samples, beta)
             IN  {[beta |-> beta, isotonic |-> isotonic, trees |-> trees,
                   updates |-> epochs * Len(samples)] : trees \in ensembles}
       IN  UNION {Fitted(beta) : beta \in Betas(samples)}

\* predict_side_win_probability: the calibrator returns what it was given.
Passive(calibrator) ==
  /\ calibrator.updates < MinUpdates
  /\ ~calibrator.beta.enabled
  /\ calibrator.isotonic = <<>>
  /\ calibrator.trees = <<>>
=============================================================================
