----------------------------- MODULE Strategies -----------------------------
(***************************************************************************)
(* The state machines of the strategies other than BonereaperV2: what each *)
(* remembers from one event to the next, and what it requests.  An action  *)
(* is one call of on_event; a call that ends in an early return still      *)
(* happens, and keeps what it had assigned before the return.              *)
(***************************************************************************)
EXTENDS Session

CONSTANTS
  Config,       \* the tunables of all strategies, see Configs
  Kinds         \* the strategies a session may run

VARIABLES
  kind,         \* the strategy of this session
  memory        \* its own state

strategy == <<kind, memory>>

\* The fields of the strategies' configurations that steer their control flow.
MakerConfigs ==
  [maxPairCost: Nat, maxDelta: Nat, repairDelta: Nat, refresh: Nat, maxOrders: Nat,
   clipShares: Nat \ {0}, minPx: Nat, maxPx: Nat, stopBefore: Nat, start: Nat]
TakerConfigs ==
  [clip: Nat, lateSecs: Nat, confirm2: Nat, maxClips: Nat, minAskCheap: Nat, maxAskCheap: Nat,
   extreme2: Nat, minIn: Nat, maxAsk: Nat, early: Nat, lateFav: Nat, reversal: Nat, reload: Nat]
Configs == [maker: MakerConfigs, taker: TakerConfigs]

ASSUME ConfigAssumption == Config \in Configs

M == Config.maker
T == Config.taker

\* An instant long before any event, where the code has i64::MIN / 2 or zero.
LongAgo == -1000

NewMemory ==
  [fired |-> FALSE, convex |-> FALSE, hedged |-> FALSE, entrySign |-> 0, clips |-> 0,
   lastLoad |-> LongAgo, prediction |-> 0,
   emitted |-> [t \in Tokens |-> 0], last |-> [t \in Tokens |-> LongAgo],
   lastPx |-> [t \in Tokens |-> 0]]

\* An early return before anything was assigned.
Hold == UNCHANGED <<memory, open, sent>>

Refuse(assigned) == memory' = assigned /\ UNCHANGED <<open, sent>>

-----------------------------------------------------------------------------
(* Makers: a quote one tick inside the ask of each token. *)

QuotePx(t, least)   == BuyPx(t, least) - 1
PairCheap(least)    == QuotePx("Yes", least) + QuotePx("No", least) <= M.maxPairCost
InBand(t, least)    == QuotePx(t, least) \in M.minPx..M.maxPx
Paced(t)            == clock - memory.last[t] >= M.refresh
Uncrossed           == Quoted /\ book.bid < book.ask

Emitted(legs) ==
  [memory EXCEPT !.emitted = [t \in Tokens |-> @[t] + (IF t \in legs THEN 1 ELSE 0)],
                 !.last    = [t \in Tokens |-> IF t \in legs THEN clock ELSE @[t]]]

Rungs(tag, legs) == {Request(tag, t, M.clipShares) : t \in legs}

PairedMmLegs ==
  {t \in Tokens : /\ Uncrossed /\ book.ask < Unit
                  /\ PairCheap(M.minPx)
                  /\ Delta(t) < M.maxDelta
                  /\ memory.emitted[t] < M.maxOrders
                  /\ Paced(t)
                  /\ InBand(t, M.minPx)}

PairedMm ==
  /\ kind = "paired_mm"
  /\ Send(Rungs("pmm_rung", PairedMmLegs))
  /\ memory' = Emitted(PairedMmLegs)

\* Quotes again only where the touch has moved; nothing it quoted before is
\* taken back.
DeltaNeutralLegs ==
  {t \in Tokens : /\ Uncrossed /\ InWindow /\ ToClose > M.stopBefore
                  /\ PairCheap(M.minPx)
                  /\ Delta(t) < M.maxDelta
                  /\ Paced(t)
                  /\ memory.lastPx[t] # QuotePx(t, M.minPx)
                  /\ InBand(t, M.minPx)}

DeltaNeutralMm ==
  /\ kind = "delta_neutral_mm"
  /\ Send(Rungs("dnmm", DeltaNeutralLegs))
  /\ memory' = [memory EXCEPT
       !.last   = [t \in Tokens |-> IF t \in DeltaNeutralLegs THEN clock ELSE @[t]],
       !.lastPx = [t \in Tokens |-> IF t \in DeltaNeutralLegs THEN QuotePx(t, M.minPx) ELSE @[t]]]

\* Once one token leads by repairDelta, only the other one is quoted.
RecyclerLegs ==
  {t \in Tokens : /\ Uncrossed /\ book.ask < Unit
                  /\ clock \in M.start..Window /\ ToClose > M.stopBefore
                  /\ PairCheap(0)
                  /\ Delta(t) < M.maxDelta
                  /\ Delta(t) < M.repairDelta
                  /\ memory.emitted[t] < M.maxOrders
                  /\ Paced(t)
                  /\ InBand(t, 0)}

UnlawfulRecycler ==
  /\ kind = "unlawful_recycler"
  /\ Send(Rungs("ur", RecyclerLegs))
  /\ memory' = Emitted(RecyclerLegs)

-----------------------------------------------------------------------------
(* Takers that act once, or a few times, in a market. *)

\* Faulty variant: a shot is not spent.
Unspent == memory

Spent == [memory EXCEPT !.fired = TRUE]

\* Requests shares unless the amount buys none; then nothing is remembered.
TakeOrHold(tag, t, shares, assigned) ==
  IF shares > 0 THEN Send({Request(tag, t, shares)}) /\ memory' = assigned ELSE Hold

BuyYesAtOpen ==
  /\ kind = "buy_yes_at_open"
  /\ IF memory.fired \/ book.ask = 0
     THEN Hold
     ELSE TakeOrHold("buy_yes_at_open", "Yes", M.clipShares, Spent)

\* The price is tested after the shot is spent: one bad book forfeits it.
SpotMomentumFollower ==
  /\ kind = "spot_momentum_follower"
  /\ IF memory.fired \/ ~Quoted \/ clock \notin T.minIn..Window \/ sig.spot = 0
     THEN Hold
     ELSE LET t      == Towards(sig.spot)
              shares == SharesCapped(T.clip, BuyPx(t, 0))
          IN  IF BuyPx(t, 0) <= T.maxAsk
              THEN Send({Request("smf_directional", t, n) : n \in {shares} \ {0}}) /\ memory' = Spent
              ELSE Refuse(Spent)

\* Sized by Kelly between three tenths of the clip and all of it: any amount
\* of sig.stake, or the least one.
LateBigBet ==
  /\ kind = "late_big_bet"
  /\ LET t  == Towards(sig.p)
         px == BuyPx(t, 0)
     IN  IF \/ memory.fired \/ ~Quoted \/ ~InWindow \/ ToClose > T.lateSecs
            \/ sig.conf = 0 \/ sig.p = 0 \/ px > T.maxAsk
         THEN Hold
         ELSE TakeOrHold("lbb_late_load", t, Max({sig.stake, (3 * T.clip) \div 10}) \div px,
                         Spent)

LateConfirmation ==
  /\ kind = "late_confirmation"
  /\ LET t == Towards(Skew2)
     IN  IF \/ ~Quoted \/ memory.clips >= T.maxClips \/ ~InWindow \/ ToClose > T.lateSecs
            \/ clock - memory.lastLoad < T.reload
            \/ Abs(Skew2) < T.confirm2 \/ sig.spot = 0 \/ Towards(sig.spot) # t
         THEN Hold
         ELSE TakeOrHold("lconf", t, SharesCapped(T.clip, BuyPx(t, 1)),
                         [memory EXCEPT !.clips = @ + 1, !.lastLoad = clock])

LateConvexTail ==
  /\ kind = "late_convex_tail"
  /\ LET t == Other(Towards(Skew2))
     IN  IF \/ memory.fired \/ ~Quoted \/ ~InWindow \/ ToClose > T.lateSecs
            \/ Abs(Skew2) < T.extreme2
            \/ BuyPx(t, 1) \notin T.minAskCheap..T.maxAskCheap
         THEN Hold
         ELSE TakeOrHold("lctail", t, SharesCapped(T.clip, BuyPx(t, 1)),
                         Spent)

-----------------------------------------------------------------------------
(* ReactiveDirectional: a pair of probes early, then loads on the side of    *)
(* the model.  The time of a load is kept before its stake is known to be    *)
(* worth an order.  (The cap on the cost of the pair lies above twice the    *)
(* clip of a probe.)                                                         *)

ReactiveDirectional ==
  /\ kind = "reactive_directional"
  /\ LET seen  == [memory EXCEPT !.prediction = Sign(sig.composite)]
         t     == Towards(Sign(sig.composite))
         pair  == {Request("rd_early_pair", u, T.clip \div BuyPx(u, 1)) :
                     u \in {v \in Tokens : T.clip \div BuyPx(v, 1) > 0}}
         loads == {Request("rd_dominant_load", t, n) : n \in {sig.stake \div BuyPx(t, 1)} \ {0}}
     IN  IF ~InWindow \/ ~Quoted
         THEN Refuse(seen)
         ELSE IF clock <= T.early
         THEN IF memory.fired
              THEN Refuse(seen)
              ELSE Send(IF Cardinality(pair) = 2 THEN pair ELSE {})
                   /\ memory' = [seen EXCEPT !.fired = TRUE]
         ELSE IF sig.regime = "Whipsaw" \/ sig.conf = 0 \/ clock - memory.lastLoad < T.reload
         THEN Refuse(seen)
         ELSE Send(loads) /\ memory' = [seen EXCEPT !.lastLoad = clock]

-----------------------------------------------------------------------------
(* BonereaperLite: four lanes, each with its own gate, in one call. *)

\* The sign of a weak signal counts at the entry, zero as positive.
LitePairs == ~memory.fired /\ clock <= T.early

\* p is a probability of YES, and the lane asks for more than the least one:
\* the branch for a favoured NO is never taken.
LiteLoads ==
  /\ ToClose <= T.lateFav
  /\ sig.p = 1 /\ sig.conf = 2 /\ sig.regime # "Whipsaw"
  /\ clock - memory.lastLoad > T.reload

LiteTail ==
  {t \in Tokens : /\ ~memory.convex
                  /\ Abs(Skew2) >= T.extreme2
                  /\ t = Other(Towards(Skew2))
                  /\ BuyPx(t, 1) \in T.minAskCheap..T.maxAskCheap}

\* Faulty variant: a signal that still favours the entry is hedged as well.
LiteHedgesAnyway ==
  /\ memory.fired \/ LitePairs
  /\ ToClose <= T.reversal /\ Abs(sig.composite) = 2 /\ sig.conf > 0

\* The pair may have been sent by this very call.
LiteHedges ==
  LET entry == IF LitePairs THEN Sign(sig.composite) ELSE memory.entrySign
  IN  /\ ~memory.hedged
      /\ memory.fired \/ LitePairs
      /\ ToClose <= T.reversal
      /\ Sign(sig.composite) # entry
      /\ Abs(sig.composite) = 2 /\ sig.conf > 0

\* Requests of no shares are made all the same; the runner refuses them.
LiteRequests ==
  LET sized(tag, t) == Request(tag, t, SharesCapped(T.clip, BuyPx(t, 1)))
      hedge         == Towards(sig.composite)
  IN  Only(LitePairs, {sized("br_paired", t) : t \in Tokens})
      \cup Only(LiteLoads /\ book.ask <= T.maxAsk, {sized("br_late_fav", "Yes")})
      \cup {sized("br_convex", t) : t \in LiteTail}
      \cup Only(LiteHedges /\ BuyPx(hedge, 1) <= T.maxAsk, {sized("br_reversal_hedge", hedge)})

BonereaperLite ==
  /\ kind = "bonereaper_lite"
  /\ IF ~Quoted \/ ~InWindow
     THEN Hold
     ELSE /\ Send(LiteRequests)
          /\ memory' = [memory EXCEPT
               !.fired     = @ \/ LitePairs,
               !.entrySign = IF LitePairs THEN Sign(sig.composite) ELSE @,
               !.lastLoad  = IF LiteLoads THEN clock ELSE @,
               !.convex    = @ \/ LiteTail # {},
               !.hedged    = @ \/ LiteHedges]

Noop == kind = "noop" /\ Hold

-----------------------------------------------------------------------------
\* One event, handed to the strategy the session was started with.
OnEvent ==
  /\ turn = "strategy"
  /\ \/ BuyYesAtOpen \/ Noop
     \/ PairedMm \/ DeltaNeutralMm \/ UnlawfulRecycler
     \/ SpotMomentumFollower \/ LateBigBet \/ LateConfirmation \/ LateConvexTail
     \/ ReactiveDirectional \/ BonereaperLite
  /\ turn' = "market"
  /\ UNCHANGED <<clock, book, sig, held, events_seen, kind>>

StrategiesInit == kind \in Kinds /\ memory = NewMemory
=============================================================================
