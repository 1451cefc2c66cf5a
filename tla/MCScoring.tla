----------------------------- MODULE MCScoring ------------------------------
(***************************************************************************)
(* Three training markets of five events or six, and two test markets of   *)
(* up to four.  The ticks come one by one, in a burst, at the same time,   *)
(* and not at all for two minutes.                                         *)
(***************************************************************************)
EXTENDS ScoringProperties

\* The history begins before the markets open and has a gap in the second.
MCTicks ==
  [i \in 1 .. 14 |-> 3420 + 12 * i] \o <<3600, 3607, 3607, 3612, 3625>> \o <<7203, 7330, 7390>>
MCOpening == <<3590, 7195>>
MCOffsets == {0, 17, 29, 40}
MCBooks == {[mid |-> 36, side |-> FALSE], [mid |-> 72, side |-> TRUE]}

Quote(at, mid, side, base) == [at |-> at, mid |-> mid, side |-> side, base |-> base]

\* Samples of the second early minute are late enough for the filter.
MCTapes ==
  {<<Quote(2, 40, FALSE, 60), Quote(31, 70, TRUE, 58), Quote(33, 74, TRUE, 62),
     Quote(50, 84, TRUE, 80), Quote(66, 84, TRUE, 66), Quote(81, 84, TRUE, 74)>>,
   <<Quote(29, 70, TRUE, 70), Quote(31, 70, TRUE, 80), Quote(50, 28, FALSE, 60),
     Quote(66, 28, FALSE, 76), Quote(81, 70, TRUE, 64)>>}
MCPresets == <<2, 1>>
=============================================================================
