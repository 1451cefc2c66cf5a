------------------------------ MODULE FoldPlan ------------------------------
(***************************************************************************)
(* build_fold_plan: how a list of markets, in the order they close, is cut *)
(* into test windows and the stretch of markets before each that its model *)
(* may be trained on.  Bounds are counts of markets: a window holds the    *)
(* markets from testStart + 1 to testEnd.                                  *)
(***************************************************************************)
EXTENDS Lists

\* None, for walk_forward_folds and fold_size.
Unset == -1

Lesser(a, b) == IF a < b THEN a ELSE b

\* Faulty variant: the markets next to the window are trained on.
Unpurged(start, purge) == start

\* test_start.saturating_sub(purge_markets)
TrainEnd(start, purge) == IF start > purge THEN start - purge ELSE 0

UsesFolds(o) == o.folds # Unset \/ o.size # Unset

\* The sizes of all windows, kept or not.
Sizes(total, o) ==
  IF o.folds # Unset
  THEN [k \in 1 .. o.folds |->
          total \div o.folds + (IF k <= total % o.folds THEN 1 ELSE 0)]
  ELSE [k \in 1 .. (total + o.size - 1) \div o.size |->
          Lesser(o.size, total - (k - 1) * o.size)]

Windows(total, o) ==
  LET sizes == Sizes(total, o)
      start[k \in 1 .. Len(sizes)] == IF k = 1 THEN 0 ELSE start[k - 1] + sizes[k - 1]
  IN  [k \in 1 .. Len(sizes) |->
         [trainEnd  |-> TrainEnd(start[k], o.purge),
          testStart |-> start[k],
          testEnd   |-> Lesser(start[k] + sizes[k], total)]]

Kept(total, o) == Filter(Windows(total, o), LAMBDA w : w.trainEnd >= o.minTrain)

Misconfigured(total, o) ==
  \/ o.folds # Unset /\ o.size # Unset
  \/ total > 0 /\ o.folds # Unset /\ o.folds \notin 1 .. total
  \/ total > 0 /\ o.size = 0

\* An error, when it refuses.
Refused(total, o) ==
  \/ Misconfigured(total, o)
  \/ total > 0 /\ UsesFolds(o) /\ Kept(total, o) = <<>>

Plan(total, o) ==
  IF total > 0 /\ UsesFolds(o) THEN Kept(total, o)
  ELSE <<[trainEnd |-> 0, testStart |-> 0, testEnd |-> total]>>
=============================================================================
