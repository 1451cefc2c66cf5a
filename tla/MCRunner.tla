------------------------------ MODULE MCRunner ------------------------------
(***************************************************************************)
(* Small books, tapes and strategies for model-checking Runner.            *)
(***************************************************************************)
EXTENDS RunnerProperties

Lvl(price, size) == [price |-> price, size |-> size]
None             == Lvl(0, 0)
Bk(b1, b2, a1, a2) == [bids |-> <<b1, b2, None, None, None>>, asks |-> <<a1, a2, None, None, None>>]

\* YES at 4/5 (two levels to sweep), fallen to 1/3, and risen to 7/9.
Quiet == Bk(Lvl(4, 2), None, Lvl(5, 1), Lvl(6, 3))
Low   == Bk(Lvl(1, 2), None, Lvl(3, 3), None)
High  == Bk(Lvl(7, 1), Lvl(6, 2), Lvl(9, 2), None)
\* The bids are gone.
OneSided == Bk(None, None, Lvl(3, 1), None)

Tick(ts, price, size, buy) == [ts |-> ts, price |-> price, size |-> size, aggressor_buy |-> buy]

Req(side, n, limit, gated) ==
  [side |-> side, shares |-> n, max_depth |-> 2, limit |-> limit, gated |-> gated]

MakerBooks    == {Quiet, Low, High}
MakerTapes    == {<<>>, <<Tick(1, 3, 3, FALSE), Tick(1, 7, 1, TRUE), Tick(2, 4, 1, FALSE)>>}
MakerRequests == {Req("BuyYes", 2, 4, TRUE), Req("BuyNo", 2, 4, TRUE),
                  Req("SellYes", 1, 6, TRUE), Req("BuyYes", 1, NoLimit, TRUE)}

\* Prints with more volume than all orders of a run ask for.
QuoteRequests == {Req("BuyYes", 2, 4, TRUE), Req("BuyNo", 2, 4, TRUE)}
DeepTapes     == {<<Tick(1, 3, 9, FALSE), Tick(2, 7, 9, TRUE)>>, <<Tick(1, 7, 9, TRUE)>>}

TakerBooks    == {Quiet, High, OneSided}
TakerTapes    == {<<Tick(1, 3, 1, FALSE)>>}
TakerRequests == {Req("BuyYes", 2, NoLimit, TRUE), Req("BuyNo", 1, 7, FALSE),
                  Req("SellYes", 1, 4, FALSE), Req("SellNo", 1, NoLimit, FALSE)}
=============================================================================
