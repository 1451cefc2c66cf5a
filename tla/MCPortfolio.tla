---------------------------- MODULE MCPortfolio -----------------------------
(***************************************************************************)
(* Small replays for model-checking Portfolio.                             *)
(***************************************************************************)
EXTENDS PortfolioProperties

OtherAndReactive == <<"other", "reactive">>

\* From 40, a loss of 8 is the largest the exposure cap and the fee allow.
FallAndRise == {0 - 8, 0 - 6, 0 - 5, 9}
=============================================================================
