--------------------------- MODULE MCWalkForward ----------------------------
(***************************************************************************)
(* A few markets and command lines for model-checking WalkForward.         *)
(***************************************************************************)
EXTENDS WalkForwardProperties

\* The last two markets close together.
Closes == [m \in Markets |-> IF m < NumMarkets THEN m ELSE m - 1]

Walk ==
  [program |-> "walk", skipExisting |-> FALSE, portfolio |-> FALSE, folds |-> Unset, size |-> Unset,
   purge |-> 0, minTrain |-> 0, meta |-> TRUE, snapshotIn |-> FALSE, snapshotOut |-> FALSE,
   forbid |-> FALSE, samplesCache |-> FALSE, eventCache |-> FALSE]

PrepLines ==
  {[Walk EXCEPT !.program = "prep"], [Walk EXCEPT !.program = "prep", !.skipExisting = TRUE]}

FoldLines ==
  {[Walk EXCEPT !.folds = 2, !.purge = 1, !.minTrain = 1, !.eventCache = TRUE],
   [Walk EXCEPT !.size = 1, !.purge = 1],
   [Walk EXCEPT !.folds = 3, !.meta = FALSE],
   [Walk EXCEPT !.folds = 2, !.size = 1]}

PortfolioLines ==
  {[Walk EXCEPT !.portfolio = TRUE, !.minTrain = 2, !.snapshotOut = TRUE, !.samplesCache = TRUE],
   [Walk EXCEPT !.portfolio = TRUE, !.minTrain = 1, !.snapshotIn = TRUE],
   [Walk EXCEPT !.portfolio = TRUE, !.minTrain = 1, !.forbid = TRUE]}

CommandLines == PrepLines \union FoldLines \union PortfolioLines

\* All but the last market are in the mirror.
Beginnings == {[m \in Markets |-> IF m < NumMarkets THEN Whole ELSE Absent]}
=============================================================================
