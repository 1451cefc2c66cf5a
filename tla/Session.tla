------------------------------ MODULE Session ------------------------------
(***************************************************************************)
(* What a strategy sees of a market: the book of the current event, the    *)
(* seconds since the betting window opened, the signals derived from the   *)
(* tapes, and the inventory its earlier requests have been filled into.    *)
(* The runner (module Runner) fills requests late, in part or not at all;  *)
(* here it is reduced to exactly that, so that a strategy can never take   *)
(* a request for a fill.  Every strategy only buys.                        *)
(* Prices are in cents-like units of 1 / Unit dollar, amounts in the same  *)
(* unit, shares are whole.                                                 *)
(***************************************************************************)
EXTENDS Integers, Sequences, FiniteSets, FiniteSetsExt

CONSTANTS
  Unit,         \* one dollar, in price units
  Window,       \* length of the betting window, in the model's seconds
  Books,        \* the two-sided quotes an event may carry
  Signals,      \* the signals an event may come with
  Gaps,         \* bound: the seconds from one event to the next
  Halves,       \* bound: the halves of a request filled between two events
  MaxEvents     \* bound: events of a market

ASSUME SessionAssumption ==
  /\ Unit \in Nat \ {0, 1} /\ Window \in Nat /\ MaxEvents \in Nat /\ Gaps \subseteq Nat
  /\ Signals # {} /\ Halves \subseteq 0..2
  /\ \A s \in Signals : s.composite \in Int /\ s.stake \in Nat
  /\ \A b \in Books : b.bid \in 0..(Unit - 1) /\ b.ask \in 0..Unit

VARIABLES
  clock,        \* seconds since the window opened, at the current event
  book,         \* quotes of the current event, 0 when there is none
  sig,          \* signals of the current event
  held,         \* shares of each token
  open,         \* shares requested and not filled
  sent,         \* history: the tags and tokens of all requests
  events_seen,
  turn          \* who moves: the market, or the strategy at a lane

session == <<clock, book, sig, held, open, sent, events_seen, turn>>

-----------------------------------------------------------------------------
Tokens   == {"Yes", "No"}
Other(t) == IF t = "Yes" THEN "No" ELSE "Yes"

\* Twice the mid, as the loader derives it, and its signed distance from one half.
Mid2  == IF book.bid > 0 /\ book.ask > 0 THEN book.bid + book.ask
         ELSE 2 * Max({book.bid, book.ask})
Skew2 == Mid2 - Unit
Abs(x)  == IF x < 0 THEN -x ELSE x
Sign(x) == IF x < 0 THEN -1 ELSE 1

\* By how many shares a token leads the other.
Delta(t) == held[t] - held[Other(t)]

\* The token the book, or a signal, points to.
Towards(x) == IF x > 0 THEN "Yes" ELSE "No"

Quoted   == book.bid > 0 /\ book.ask > 0
InWindow == clock \in 0..Window
ToClose  == Window - clock

\* What a taker pays for a token, the NO book being the YES book reversed;
\* a NO price is never taken to be under the least price of the strategy.
BuyPx(t, least) == IF t = "Yes" THEN book.ask ELSE Max({Unit - book.bid, least})
SellPx(t)       == IF t = "Yes" THEN book.bid ELSE Max({Unit - book.ask, 0})

\* The shares an amount buys: two percent are kept back and the rest is
\* rounded down.
SharesCapped(usdc, px) == IF usdc <= 0 \/ px <= 0 THEN 0 ELSE (98 * usdc) \div (100 * px)

-----------------------------------------------------------------------------
\* A request, or a set of requests, made only under a condition.
Only(condition, requests) == IF condition THEN requests ELSE {}

Request(tag, token, shares) == [tag |-> tag, token |-> token, shares |-> shares]

\* Hands a set of requests to the runner.
Send(requests) ==
  /\ open' = [t \in Tokens |->
               open[t] + MapThenSumSet(LAMBDA r : r.shares, {r \in requests : r.token = t})]
  /\ sent' = sent \cup {[tag |-> r.tag, token |-> r.token] : r \in requests}

SessionInit ==
  /\ clock = -1
  /\ book = [bid |-> 0, ask |-> 0]
  /\ sig = CHOOSE s \in Signals : TRUE
  /\ held = [t \in Tokens |-> 0]
  /\ open = [t \in Tokens |-> 0]
  /\ sent = {}
  /\ events_seen = 0
  /\ turn = "market"

\* The runner fills none, half or all of what is open on each token.
Fill ==
  \E halves \in [Tokens -> Halves] :
    LET filled(t) == (open[t] * halves[t] + 1) \div 2
    IN  /\ held' = [t \in Tokens |-> held[t] + filled(t)]
        /\ open' = [t \in Tokens |-> open[t] - filled(t)]

\* The next event: at the same time or later, before the window, in it or past it.
\* The signal functions on the tapes so far: any verdict.
Score == sig' \in Signals

Arrive(first) ==
  /\ turn = "market"
  /\ events_seen < MaxEvents
  /\ Fill
  /\ \E gap \in Gaps : clock' = clock + gap
  /\ book' \in Books
  /\ Score
  /\ events_seen' = events_seen + 1
  /\ turn' = first
  /\ UNCHANGED sent

\* The tape ends: whatever is open is dropped.
Done ==
  /\ turn = "market"
  /\ events_seen = MaxEvents
  /\ UNCHANGED session
=============================================================================
