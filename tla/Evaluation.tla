----------------------------- MODULE Evaluation -----------------------------
(***************************************************************************)
(* What a walk-forward evaluation promises, abstractly: windows of markets *)
(* are tested one after the other, in one step each, by a model that has   *)
(* learned nothing past the end of the stretch its window is trained on.   *)
(***************************************************************************)
EXTENDS FoldPlan, FiniteSets, SequencesExt

CONSTANTS
  NumMarkets,   \* markets, in the order they close
  Close,        \* for every market, its close; several may share one
  Options       \* configurations a process may be started with, see WalkForward

Markets == 1 .. NumMarkets

plans == [o \in Options |-> IF Refused(NumMarkets, o) THEN <<>> ELSE Plan(NumMarkets, o)]

VARIABLES
  config,     \* the configuration of the process
  window,     \* the next window of its plan
  tested,     \* the results, with what the model had learned from
  over

evaluation == <<config, window, tested, over>>

Orders(S) == {s \in SetToSeqs(S) : \A i, j \in DOMAIN s : i < j => Close[s[i]] <= Close[s[j]]}

Stamped(s, learned) == [i \in DOMAIN s |-> [market |-> s[i], learned |-> learned]]

EvaluationInit ==
  config \in Options /\ window = 1 /\ tested = <<>> /\ over = FALSE

\* Some markets of the next window, in the order they close.
TestWindow ==
  /\ ~over /\ ~config.portfolio
  /\ window \in DOMAIN plans[config]
  /\ window' = window + 1
  /\ over' = (window = Len(plans[config]))
  /\ LET w == plans[config][window]
     IN  \E got \in SUBSET (w.testStart + 1 .. w.testEnd), learned \in SUBSET (1 .. w.trainEnd) :
           \E s \in Orders(got) : tested' = tested \o Stamped(s, learned)
  /\ UNCHANGED config

\* One portfolio over all that follows the training markets; what it has
\* learned from may come out of a file.
TestPortfolio ==
  /\ ~over /\ config.portfolio
  /\ over' = TRUE
  /\ \E learned \in SUBSET Markets :
       tested' = Stamped([i \in 1 .. NumMarkets - config.minTrain |-> config.minTrain + i], learned)
  /\ UNCHANGED <<config, window>>

\* An error leaves the results so far, a kill nothing.
Stop == ~over /\ over' = TRUE /\ UNCHANGED <<config, window, tested>>

Vanish ==
  /\ ~over /\ over' = TRUE
  /\ window' = 1 /\ tested' = <<>>
  /\ UNCHANGED config

Again == over /\ config' \in Options /\ window' = 1 /\ tested' = <<>> /\ over' = FALSE

EvaluationNext == TestWindow \/ TestPortfolio \/ Stop \/ Vanish \/ Again

EvaluationSpec == EvaluationInit /\ [][EvaluationNext]_evaluation
=============================================================================
