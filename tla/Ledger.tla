------------------------------- MODULE Ledger -------------------------------
(***************************************************************************)
(* What a market run promises of its account, with no word of books,       *)
(* orders or queues: a cash account in the two tokens of one market that   *)
(* never borrows, never sells short, never lays out more than its caps,    *)
(* opens nothing once halted, and is settled once.                         *)
(***************************************************************************)
EXTENDS Integers

CONSTANTS Tokens, Start, Payout, Scale, FeeRate, RebateRate, ClipCap, MarketCap

VARIABLES
  balance,   \* cash
  position,  \* shares held of each token
  outlay,    \* dollars laid out on the market so far
  halted,    \* no buy may be opened any more
  settled

vars == <<balance, position, outlay, halted, settled>>

Init ==
  /\ balance = Start
  /\ position = [t \in Tokens |-> 0]
  /\ outlay = 0
  /\ halted = FALSE
  /\ settled = FALSE

Moves(t) == position' = [position EXCEPT ![t] = position'[t]]

\* What a fill of the given notional may cost beyond it: a fee, or less a rebate.
ChargeOK(charge, notional) ==
  /\ Scale * charge <= FeeRate * notional
  /\ Scale * charge >= 0 - RebateRate * notional

\* More of token t, paid for in full, each share for less than it may pay out.
Buy(t) ==
  LET spent == outlay' - outlay
  IN  /\ ~settled /\ ~halted
      /\ Moves(t) /\ position'[t] > position[t]
      /\ spent >= 0 /\ spent <= ClipCap /\ outlay' <= MarketCap
      /\ spent < Payout * (position'[t] - position[t])
      /\ ChargeOK((balance - balance') - spent, spent)
      /\ balance' >= 0
      /\ settled' = settled

\* Less of token t, never below nothing; selling costs nothing net.
Sell(t) ==
  /\ ~settled
  /\ Moves(t) /\ position'[t] < position[t] /\ position'[t] >= 0
  /\ balance' >= balance
  /\ UNCHANGED <<outlay, halted, settled>>

\* The account stops opening positions for good.
HaltForGood == ~halted /\ halted' /\ UNCHANGED <<balance, position, outlay, settled>>

\* One token wins and pays; what the run ends with may still halt it.
Settle(t) ==
  /\ ~settled /\ settled'
  /\ balance' = balance + Payout * position[t]
  /\ (halted => halted')
  /\ UNCHANGED <<position, outlay>>

Next ==
  \/ \E t \in Tokens : Buy(t) \/ Sell(t) \/ Settle(t)
  \/ HaltForGood

Spec == Init /\ [][Next]_vars

\* A run never loses more than it laid out and the fee on it, and lays out
\* no more than the market's cap: whatever is bought may expire worthless.
LossBounded ==
  /\ Scale * (Start - balance) <= (Scale + FeeRate) * outlay
  /\ outlay <= MarketCap
=============================================================================
