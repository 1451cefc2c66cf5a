-------------------------- MODULE StrategiesProofs --------------------------
(***************************************************************************)
(* Proofs about the strategies, for every configuration, tape of books and *)
(* signals, and pattern of fills: what they request, and the books they    *)
(* keep about it.                                                          *)
(***************************************************************************)
EXTENDS StrategiesProperties, ListLemmas

-----------------------------------------------------------------------------
(* The inductive invariant, by concern.                                    *)

Memories ==
  [fired: BOOLEAN, convex: BOOLEAN, hedged: BOOLEAN, entrySign: Int, clips: Nat, lastLoad: Int,
   prediction: Int, emitted: [Tokens -> Nat], last: [Tokens -> Int], lastPx: [Tokens -> Int]]

SessionTypes ==
  /\ clock \in Int /\ clock >= -1 /\ events_seen \in 0..MaxEvents
  /\ book \in Books \cup {[bid |-> 0, ask |-> 0]} /\ sig \in Signals
  /\ held \in [Tokens -> Nat] /\ open \in [Tokens -> Nat]
  /\ \A r \in sent : r.token \in Tokens
  /\ kind \in Kinds /\ memory \in Memories

BrTypes ==
  /\ participation \in [emitted: [Tokens -> 0..P.maxOrders], last: [Tokens -> Int]]
  /\ base_notional \in Nat
  /\ probe \in [early: BOOLEAN, side: AnyToken, mid2: Int, rungs: 0..BrConfig.probe.maxRungs]
  /\ late \in [fires: 0..L.maxFires, last: Int]
  /\ directional \in [side: AnyToken, shares: Nat, notional: Nat]
  /\ skew_load \in [clips: 0..S.maxClips, last: Int]
  /\ skew_first \in [Tokens -> Int] /\ calm \in [Tokens -> Int]
  /\ favourite \in [side: AnyToken, clips: 0..F.maxClips, last: Int, shares: Nat, notional: Nat,
                    peak: Nat, side_shares: Nat, side_notional: Nat]
  /\ tail \in [clips: 0..C.maxClips, last: Int, skew2: Int, notional: Nat]

TypeInv == SessionTypes /\ BrTypes

LoadTags   == {"br2_late_confirm", "br2_high_skew_load", "br2_late_favourite_load"}
LadderTags == {"br2_early_dir", "br2_mid_ladder"}
LiteTags   == {"br_paired", "br_late_fav", "br_convex", "br_reversal_hedge"}

\* Each strategy asks under its own tags, and BonereaperV2's state moves in
\* its own sessions only.
KindInv ==
  /\ kind # "bonereaper_v2" =>
       BrInit /\ \A r \in sent : r.tag \notin LoadTags \cup LadderTags \cup {"br2_convex_tail"}
  /\ kind # "bonereaper_lite" => \A r \in sent : r.tag \notin LiteTags

\* The side is that of every load, of some load once it is set, and against
\* every tail; without it nothing has been requested.
SideInv ==
  /\ \A r \in sent : r.tag \in LoadTags => r.token = directional.side
  /\ directional.side # NoToken => \E r \in sent : r.tag \in LoadTags
  /\ \A r \in sent : r.tag = "br2_convex_tail" =>
       directional.side # NoToken /\ r.token = Other(directional.side)
  /\ directional.side = NoToken => directional.notional = 0

\* A probe comes before the first rung or not at all, time having passed it.
LadderInv ==
  /\ \A r \in sent : r.tag \in LadderTags => r.token = probe.side
  /\ probe.side # NoToken => probe.early \/ clock > BrConfig.probe.earlyEnd

FavouriteInv ==
  /\ FavouriteAccounts
  /\ favourite.clips > 0 => favourite.side \in Tokens
  /\ favourite.clips = 0 =>
       /\ favourite.side = NoToken /\ favourite.peak = 0
       /\ favourite.shares = 0 /\ favourite.notional = 0

\* What the directional lanes have requested can only win what it costs less
\* than a dollar a share.
TailInv ==
  /\ directional.notional <= directional.shares * Unit
  /\ TailIsFunded

\* A tracker that runs has run since after the last calm event, and none runs
\* before the first event.
SkewInv ==
  \A t \in Tokens : /\ calm[t] <= clock
                    /\ skew_first[t] # Never => calm[t] # Never /\ calm[t] <= skew_first[t]

LiteInv ==
  /\ kind = "bonereaper_lite" => memory.entrySign \in {-1, 0, 1}
  /\ memory.fired /\ kind = "bonereaper_lite" =>
       /\ memory.entrySign # 0
       /\ \A t \in Tokens : \E r \in sent : r.tag = "br_paired" /\ r.token = t
  /\ \A r \in sent : r.tag = "br_reversal_hedge" =>
       memory.fired /\ memory.hedged /\ r.token = Other(Towards(memory.entrySign))

ShotInv == kind \in OneShots /\ sent # {} => memory.fired
-----------------------------------------------------------------------------
(* Amounts.                                                                *)

\* Integer division rounds down.
LEMMA DivBounds ==
  ASSUME NEW a \in Nat, NEW b \in Nat, b > 0
  PROVE  a \div b \in Nat /\ b * (a \div b) <= a
  OBVIOUS

\* Multiplication is monotone.
LEMMA MulMono ==
  ASSUME NEW a \in Int, NEW b \in Int, NEW c \in Nat, a <= b
  PROVE  a * c \in Int /\ b * c \in Int /\ a * c <= b * c
  OBVIOUS

\* The shares an amount buys are worth no more than the amount.
LEMMA SharesAreBought ==
  ASSUME NEW usdc \in Int, NEW px \in Int
  PROVE  /\ SharesCapped(usdc, px) \in Nat
         /\ SharesCapped(usdc, px) > 0 => usdc > 0 /\ SharesCapped(usdc, px) * px <= usdc
  <1>1. CASE usdc <= 0 \/ px <= 0
    BY <1>1 DEF SharesCapped
  <1>2. CASE usdc > 0 /\ px > 0
    <2>1. SharesCapped(usdc, px) = (98 * usdc) \div (100 * px)
      BY <1>2 DEF SharesCapped
    <2>2. 98 * usdc \in Nat /\ 100 * px \in Nat /\ 100 * px > 0
      BY <1>2
    <2> DEFINE n == (98 * usdc) \div (100 * px)
    <2>3. n \in Nat /\ (100 * px) * n <= 98 * usdc
      BY <2>2, DivBounds
    <2> HIDE DEF n
    <2>4. n * px \in Int /\ (100 * px) * n = 100 * (n * px)
      BY <2>3
    <2>5. n * px <= usdc
      BY <2>3, <2>4, <1>2
    <2> QED BY <2>1, <2>3, <2>5, <1>2 DEF n
  <1> QED BY <1>1, <1>2

\* A book the model offers, or the one before the first event.
BookOk == book \in Books \cup {[bid |-> 0, ask |-> 0]}

\* The prices of a book.
LEMMA BookTypes ==
  BookOk => /\ book.bid \in 0..(Unit - 1) /\ book.ask \in 0..Unit
            /\ Unit \in Nat \ {0, 1}
  BY SessionAssumption DEF BookOk

\* What a token costs lies between nothing and one dollar.
LEMMA PricesAreBounded ==
  ASSUME BookOk, NEW t, NEW least \in {0, 1}
  PROVE  /\ BuyPx(t, least) \in 0..Unit
         /\ Quoted => BuyPx(t, least) > 0
  <1>1. /\ book.bid \in 0..(Unit - 1) /\ book.ask \in 0..Unit
        /\ Unit \in Nat \ {0, 1}
    BY BookTypes
  <1>2. Max({Unit - book.bid, least}) \in {Unit - book.bid, least} /\ Unit - book.bid <= Max({Unit - book.bid, least})
    <2>1. Unit - book.bid \in Int /\ least \in Int
      BY <1>1
    <2> QED BY <2>1, MaxOfTwo
  <1> QED BY <1>1, <1>2 DEF BuyPx, Quoted
-----------------------------------------------------------------------------
(* Requests.                                                               *)

\* What a strategy asks for under certain tags, or nothing.
Asked(R, tags) ==
  /\ IsFiniteSet(R)
  /\ \A r \in R : r.tag \in tags /\ r.token \in Tokens /\ r.shares \in Nat
Asks(tags) == UNCHANGED <<open, sent>> \/ \E R : Asked(R, tags) /\ Send(R)

\* A subset of two is finite.
LEMMA FiniteTwo ==
  ASSUME NEW a, NEW b, NEW R, R \subseteq {a, b}
  PROVE  IsFiniteSet(R)
  <1>1. IsFiniteSet({a})
    BY FS_Singleton
  <1>2. {a, b} = {a} \cup {b} /\ IsFiniteSet({b})
    BY FS_Singleton
  <1>3. IsFiniteSet({a, b})
    BY <1>1, <1>2, FS_Union
  <1> QED BY <1>3, FS_Subset

\* A request for each of some tokens.
LEMMA RequestsPerToken ==
  ASSUME NEW tag, NEW legs \in SUBSET Tokens, NEW n \in [Tokens -> Nat], NEW tags, tag \in tags
  PROVE  Asked({Request(tag, t, n[t]) : t \in legs}, tags)
  <1> DEFINE R == {Request(tag, t, n[t]) : t \in legs}
  <1>1. R \subseteq {Request(tag, "Yes", n["Yes"]), Request(tag, "No", n["No"])}
    BY DEF Tokens
  <1>2. IsFiniteSet(R)
    BY <1>1, FiniteTwo
  <1>3. ASSUME NEW r \in R PROVE r.tag \in tags /\ r.token \in Tokens /\ r.shares \in Nat
    BY DEF Request
  <1> QED BY <1>2, <1>3 DEF Asked

\* A single request is a proper set of requests.
LEMMA OneRequest ==
  ASSUME NEW tag, NEW t \in Tokens, NEW n \in Nat, NEW tags, tag \in tags
  PROVE  Asked({Request(tag, t, n)}, tags)
  <1>1. IsFiniteSet({Request(tag, t, n)})
    BY FS_Singleton
  <1>2. \A r \in {Request(tag, t, n)} : r.tag \in tags /\ r.token \in Tokens /\ r.shares \in Nat
    BY DEF Request
  <1> QED BY <1>1, <1>2 DEF Asked

\* So is none.
LEMMA NoRequest ==
  ASSUME NEW tags PROVE Asked({}, tags)
  BY FS_EmptySet DEF Asked

\* Two proper sets of requests make one.
LEMMA RequestsTogether ==
  ASSUME NEW R, NEW Q, NEW tags, Asked(R, tags), Asked(Q, tags)
  PROVE  Asked(R \cup Q, tags)
  BY FS_Union DEF Asked

\* A set that is asked for under a condition.
LEMMA RequestsOnly ==
  ASSUME NEW R, NEW c \in BOOLEAN, NEW tags, c => Asked(R, tags)
  PROVE  Asked(Only(c, R), tags)
  BY NoRequest DEF Only

\* The sum of the shares of finitely many requests is a natural number.
LEMMA SharesAddUp ==
  ASSUME NEW R, IsFiniteSet(R), \A r \in R : r.shares \in Nat
  PROVE  MapThenSumSet(LAMBDA r : r.shares, R) \in Nat
  <1> DEFINE w == [r \in R |-> r.shares]
             Sums(it) == it = [s \in SUBSET R |->
                IF s = {} THEN 0 ELSE (CHOOSE x \in s : TRUE).shares + it[s \ {CHOOSE x \in s : TRUE}]]
  <1>1. ASSUME NEW it PROVE Sums(it) <=> IsFold(it, SUBSET R, w)
    <2>1. ASSUME NEW s \in SUBSET R, s # {} PROVE FirstOf(s) \in R
      BY <2>1 DEF FirstOf
    <2>2. \A s \in SUBSET R : s # {} => w[FirstOf(s)] = (CHOOSE x \in s : TRUE).shares
      BY <2>1 DEF FirstOf
    <2> HIDE DEF w
    <2> QED BY <2>2 DEF IsFold, FirstOf
  <1>2. \E it : Sums(it)
    <2>1. \E it : IsFold(it, SUBSET R, w)
      BY FoldExists
    <2> HIDE DEF Sums, w
    <2> QED BY <1>1, <2>1
  <1>3. MapThenSumSet(LAMBDA r : r.shares, R) = (CHOOSE it : Sums(it))[R]
    BY DEF MapThenSumSet, MapThenFoldSet
  <1>4. Sums(CHOOSE it : Sums(it))
    <2> HIDE DEF Sums
    <2> QED BY <1>2
  <1>5. IsFold(CHOOSE it : Sums(it), SUBSET R, w)
    <2> HIDE DEF Sums, w
    <2> QED BY <1>1, <1>4
  <1>6. \A x \in R : w[x] \in Nat
    OBVIOUS
  <1>7. (CHOOSE it : Sums(it))[R] \in Nat
    <2> HIDE DEF Sums, w
    <2> QED BY <1>5, <1>6, FoldIsNat
  <1> QED BY <1>3, <1>7

\* What asking leaves: tokens, amounts, and nothing under other tags.
LEMMA AskingTypes ==
  ASSUME NEW tags, Asks(tags), open \in [Tokens -> Nat], \A r \in sent : r.token \in Tokens
  PROVE  /\ open' \in [Tokens -> Nat]
         /\ \A r \in sent' : r.token \in Tokens
  <1>1. CASE UNCHANGED <<open, sent>>
    BY <1>1
  <1>2. CASE \E R : Asked(R, tags) /\ Send(R)
    <2>1. PICK R : Asked(R, tags) /\ Send(R)
      BY <1>2
    <2>2. ASSUME NEW t \in Tokens
          PROVE  MapThenSumSet(LAMBDA r : r.shares, {r \in R : r.token = t}) \in Nat
      <3>1. IsFiniteSet({r \in R : r.token = t})
        BY <2>1, FS_Subset DEF Asked
      <3>2. \A r \in {r \in R : r.token = t} : r.shares \in Nat
        BY <2>1 DEF Asked
      <3> QED BY <3>1, <3>2, SharesAddUp
    <2>3. open' \in [Tokens -> Nat]
      <3>1. \A t \in Tokens : open[t] + MapThenSumSet(LAMBDA r : r.shares, {r \in R : r.token = t}) \in Nat
        <4> TAKE t \in Tokens
        <4>1. open[t] \in Nat
          OBVIOUS
        <4> DEFINE n == MapThenSumSet(LAMBDA r : r.shares, {r \in R : r.token = t})
        <4>2. n \in Nat
          BY <2>2
        <4> HIDE DEF n
        <4>3. open[t] + n \in Nat
          BY <4>1, <4>2
        <4> QED BY <4>3 DEF n
      <3>2. open' = [t \in Tokens |->
                       open[t] + MapThenSumSet(LAMBDA r : r.shares, {r \in R : r.token = t})]
        BY <2>1 DEF Send
      <3> QED BY <3>1, <3>2, Zenon
    <2>4. \A r \in sent' : r.token \in Tokens
      <3>1. sent' = sent \cup {[tag |-> r.tag, token |-> r.token] : r \in R}
        BY <2>1 DEF Send
      <3> QED BY <2>1, <3>1 DEF Asked
    <2> QED BY <2>3, <2>4
  <1> QED BY <1>1, <1>2 DEF Asks

\* A call that asks under some tags adds requests under no other.
LEMMA AskingTags ==
  ASSUME NEW tags, Asks(tags)
  PROVE  /\ sent \subseteq sent'
         /\ \A r \in sent' : r \in sent \/ r.tag \in tags
  <1>1. CASE UNCHANGED <<open, sent>>
    BY <1>1
  <1>2. CASE \E R : Asked(R, tags) /\ Send(R)
    <2>1. PICK R : Asked(R, tags) /\ Send(R)
      BY <1>2
    <2>2. sent' = sent \cup {[tag |-> r.tag, token |-> r.token] : r \in R}
      BY <2>1 DEF Send
    <2>3. \A r \in R : r.tag \in tags
      BY <2>1 DEF Asked
    <2> QED BY <2>2, <2>3
  <1> QED BY <1>1, <1>2 DEF Asks
-----------------------------------------------------------------------------
(* The strategies of one lane: what each asks for and remembers.           *)

OtherTags ==
  {"pmm_rung", "dnmm", "ur", "buy_yes_at_open", "smf_directional", "lbb_late_load", "lconf",
   "lctail", "rd_early_pair", "rd_dominant_load"}

\* The clips of the strategies are numbers of shares.
LEMMA Tunables ==
  /\ M.clipShares \in Nat /\ T.clip \in Nat
  BY ConfigAssumption DEF Configs, MakerConfigs, TakerConfigs, M, T

\* What the types of a session say of an event.
LEMMA SessionFacts ==
  ASSUME SessionTypes
  PROVE  /\ BookOk /\ clock \in Int /\ memory \in Memories
         /\ sig.composite \in Int /\ sig.stake \in Nat
  BY SessionAssumption DEF SessionTypes, BookOk

\* The rungs of a ladder are requests.
LEMMA RungsAreAsked ==
  ASSUME NEW tag \in OtherTags, NEW legs \in SUBSET Tokens, Send(Rungs(tag, legs))
  PROVE  Asks(OtherTags)
  <1> DEFINE n == [t \in Tokens |-> M.clipShares]
  <1>1. n \in [Tokens -> Nat]
    BY Tunables
  <1>2. Rungs(tag, legs) = {Request(tag, t, n[t]) : t \in legs}
    BY DEF Rungs
  <1>3. Asked(Rungs(tag, legs), OtherTags)
    <2> HIDE DEF n
    <2> QED BY <1>1, <1>2, RequestsPerToken
  <1> QED BY <1>3 DEF Asks

\* What the ladder strategies remember after a call.
LEMMA EmittedIsMemory ==
  ASSUME SessionTypes, NEW legs \in SUBSET Tokens PROVE Emitted(legs) \in Memories
  <1>1. memory \in Memories /\ clock \in Int
    BY SessionFacts
  <1>2. [t \in Tokens |-> memory.emitted[t] + (IF t \in legs THEN 1 ELSE 0)] \in [Tokens -> Nat]
    BY <1>1 DEF Memories
  <1>3. [t \in Tokens |-> IF t \in legs THEN clock ELSE memory.last[t]] \in [Tokens -> Int]
    BY <1>1 DEF Memories
  <1> QED BY <1>1, <1>2, <1>3 DEF Emitted, Memories

\* PairedMm keeps a proper memory and asks under its own tags.
LEMMA PairedMmAsks ==
  ASSUME SessionTypes, PairedMm PROVE memory' \in Memories /\ Asks(OtherTags)
  <1>1. PairedMmLegs \in SUBSET Tokens
    BY DEF PairedMmLegs
  <1>2. memory' \in Memories
    BY <1>1, EmittedIsMemory DEF PairedMm
  <1>3. Asks(OtherTags)
    <2>1. "pmm_rung" \in OtherTags
      BY DEF OtherTags
    <2> QED BY <1>1, <2>1, RungsAreAsked DEF PairedMm
  <1> QED BY <1>2, <1>3

\* UnlawfulRecycler keeps a proper memory and asks under its own tags.
LEMMA UnlawfulRecyclerAsks ==
  ASSUME SessionTypes, UnlawfulRecycler PROVE memory' \in Memories /\ Asks(OtherTags)
  <1>1. RecyclerLegs \in SUBSET Tokens
    BY DEF RecyclerLegs
  <1>2. memory' \in Memories
    BY <1>1, EmittedIsMemory DEF UnlawfulRecycler
  <1>3. Asks(OtherTags)
    <2>1. "ur" \in OtherTags
      BY DEF OtherTags
    <2> QED BY <1>1, <2>1, RungsAreAsked DEF UnlawfulRecycler
  <1> QED BY <1>2, <1>3

\* DeltaNeutralMm keeps a proper memory and asks under its own tags.
LEMMA DeltaNeutralMmAsks ==
  ASSUME SessionTypes, DeltaNeutralMm PROVE memory' \in Memories /\ Asks(OtherTags)
  <1>1. DeltaNeutralLegs \in SUBSET Tokens
    BY DEF DeltaNeutralLegs
  <1>2. memory' \in Memories
    <2>1. memory \in Memories /\ clock \in Int
      BY SessionFacts
    <2>2. \A t \in Tokens : QuotePx(t, M.minPx) \in Int
      <3>1. book.bid \in Int /\ book.ask \in Int /\ Unit \in Int /\ M.minPx \in Int
        BY SessionFacts, BookTypes, ConfigAssumption DEF Configs, MakerConfigs, M
      <3>2. Max({Unit - book.bid, M.minPx}) \in {Unit - book.bid, M.minPx}
        <4>1. Unit - book.bid \in Int
          BY <3>1
        <4> QED BY <3>1, <4>1, MaxOfTwo
      <3> QED BY <3>1, <3>2 DEF QuotePx, BuyPx
    <2>3. [t \in Tokens |-> IF t \in DeltaNeutralLegs THEN clock ELSE memory.last[t]] \in [Tokens -> Int]
      BY <2>1 DEF Memories
    <2>4. [t \in Tokens |-> IF t \in DeltaNeutralLegs THEN QuotePx(t, M.minPx) ELSE memory.lastPx[t]]
            \in [Tokens -> Int]
      BY <2>1, <2>2 DEF Memories
    <2> QED BY <2>1, <2>3, <2>4 DEF DeltaNeutralMm, Memories
  <1>3. Asks(OtherTags)
    <2>1. "dnmm" \in OtherTags
      BY DEF OtherTags
    <2> QED BY <1>1, <2>1, RungsAreAsked DEF DeltaNeutralMm
  <1> QED BY <1>2, <1>3

\* Taking on one token or holding still.
LEMMA TakingAsks ==
  ASSUME NEW tag \in OtherTags, NEW t \in Tokens, NEW n \in Nat, NEW kept,
         TakeOrHold(tag, t, n, kept)
  PROVE  Asks(OtherTags) /\ memory' \in {memory, kept}
  <1>1. Asked({Request(tag, t, n)}, OtherTags)
    BY OneRequest
  <1> QED BY <1>1 DEF TakeOrHold, Hold, Asks

\* What a strategy that has fired remembers.
LEMMA SpentIsMemory ==
  ASSUME SessionTypes PROVE Spent \in Memories /\ Spent.fired
  BY SessionFacts DEF Spent, Memories

\* BuyYesAtOpen keeps a proper memory and asks under its own tags.
LEMMA BuyYesAtOpenAsks ==
  ASSUME SessionTypes, BuyYesAtOpen PROVE memory' \in Memories /\ Asks(OtherTags)
  <1>1. memory \in Memories /\ Spent \in Memories
    BY SessionFacts, SpentIsMemory
  <1>2. CASE Hold
    BY <1>1, <1>2 DEF Hold, Asks
  <1>3. CASE TakeOrHold("buy_yes_at_open", "Yes", M.clipShares, Spent)
    <2>1. "buy_yes_at_open" \in OtherTags /\ "Yes" \in Tokens
      BY DEF OtherTags, Tokens
    <2> QED BY <1>1, <1>3, <2>1, Tunables, TakingAsks
  <1> QED BY <1>2, <1>3 DEF BuyYesAtOpen

\* A direction points to a token.
LEMMA TowardsToken == \A x : Towards(x) \in Tokens
  BY DEF Towards, Tokens

\* There are two tokens.
LEMMA OtherToken ==
  \A t \in Tokens : Other(t) \in Tokens /\ Other(t) # t /\ Other(Other(t)) = t
                    /\ Tokens = {t, Other(t)}
  BY DEF Other, Tokens

\* One clip's worth of shares.
LEMMA ClipShares ==
  ASSUME SessionTypes, NEW t, NEW least \in {0, 1}
  PROVE  SharesCapped(T.clip, BuyPx(t, least)) \in Nat
  <1>1. BuyPx(t, least) \in Int /\ T.clip \in Int
    BY SessionFacts, PricesAreBounded, Tunables, BookTypes
  <1> QED BY <1>1, SharesAreBought

\* SpotMomentumFollower keeps a proper memory and asks under its own tags.
LEMMA SpotMomentumFollowerAsks ==
  ASSUME SessionTypes, SpotMomentumFollower PROVE memory' \in Memories /\ Asks(OtherTags)
  <1>1. memory \in Memories /\ Spent \in Memories
    BY SessionFacts, SpentIsMemory
  <1> DEFINE t == Towards(sig.spot)
             n == SharesCapped(T.clip, BuyPx(t, 0))
             R == {Request("smf_directional", t, k) : k \in {n} \ {0}}
  <1>2. CASE Hold
    BY <1>1, <1>2 DEF Hold, Asks
  <1>3. CASE Send(R) /\ memory' = Spent
    <2>1. "smf_directional" \in OtherTags /\ t \in Tokens /\ n \in Nat
      BY TowardsToken, ClipShares DEF OtherTags
    <2>2. R = {} \/ R = {Request("smf_directional", t, n)}
      OBVIOUS
    <2>3. Asked(R, OtherTags)
      <3> HIDE DEF R, n, t
      <3> QED BY <2>1, <2>2, OneRequest, NoRequest
    <2> HIDE DEF R
    <2> QED BY <1>1, <1>3, <2>3 DEF Asks
  <1>4. CASE Refuse(Spent)
    BY <1>1, <1>4 DEF Refuse, Asks
  <1> QED BY <1>2, <1>3, <1>4 DEF SpotMomentumFollower
\* A quoted book has prices to buy at.
LEMMA QuotedPrice ==
  ASSUME SessionTypes, Quoted, NEW t, NEW least \in {0, 1}
  PROVE  BuyPx(t, least) \in Nat /\ BuyPx(t, least) > 0
  BY SessionFacts, PricesAreBounded, BookTypes

\* LateBigBet keeps a proper memory and asks under its own tags.
LEMMA LateBigBetAsks ==
  ASSUME SessionTypes, LateBigBet PROVE memory' \in Memories /\ Asks(OtherTags)
  <1>1. memory \in Memories /\ Spent \in Memories
    BY SessionFacts, SpentIsMemory
  <1> DEFINE t == Towards(sig.p)
             n == Max({sig.stake, (3 * T.clip) \div 10}) \div BuyPx(t, 0)
  <1>2. CASE Hold
    BY <1>1, <1>2 DEF Hold, Asks
  <1>3. CASE Quoted /\ TakeOrHold("lbb_late_load", t, n, Spent)
    <2>1. "lbb_late_load" \in OtherTags /\ t \in Tokens
      BY TowardsToken DEF OtherTags
    <2>2. n \in Nat
      <3>1. sig.stake \in Nat /\ (3 * T.clip) \div 10 \in Nat
        BY SessionFacts, Tunables
      <3>2. Max({sig.stake, (3 * T.clip) \div 10}) \in Nat
        <4> DEFINE a == sig.stake
                   b == (3 * T.clip) \div 10
        <4>1. a \in Int /\ b \in Int /\ a \in Nat /\ b \in Nat
          BY <3>1
        <4>2. Max({a, b}) \in {a, b}
          <5> HIDE DEF a, b
          <5> QED BY <4>1, MaxOfTwo
        <4> HIDE DEF a, b
        <4>3. Max({a, b}) \in Nat
          BY <4>1, <4>2
        <4> QED BY <4>3 DEF a, b
      <3>3. BuyPx(t, 0) \in Nat /\ BuyPx(t, 0) > 0
        BY <1>3, QuotedPrice
      <3> HIDE DEF t
      <3> QED BY <3>2, <3>3, DivBounds
    <2> HIDE DEF n, t
    <2> QED BY <1>1, <1>3, <2>1, <2>2, TakingAsks
  <1> QED BY <1>2, <1>3 DEF LateBigBet

\* LateConfirmation keeps a proper memory and asks under its own tags.
LEMMA LateConfirmationAsks ==
  ASSUME SessionTypes, LateConfirmation PROVE memory' \in Memories /\ Asks(OtherTags)
  <1> DEFINE t == Towards(Skew2)
             n == SharesCapped(T.clip, BuyPx(t, 1))
             kept == [memory EXCEPT !.clips = @ + 1, !.lastLoad = clock]
  <1>1. memory \in Memories /\ kept \in Memories
    <2>1. memory \in Memories /\ clock \in Int
      BY SessionFacts
    <2>2. memory.clips + 1 \in Nat
      BY <2>1 DEF Memories
    <2>3. kept = [memory EXCEPT !.clips = memory.clips + 1, !.lastLoad = clock]
      BY <2>1 DEF Memories
    <2> HIDE DEF kept
    <2> QED BY <2>1, <2>2, <2>3 DEF Memories
  <1>2. CASE Hold
    BY <1>1, <1>2 DEF Hold, Asks
  <1>3. CASE TakeOrHold("lconf", t, n, kept)
    <2>1. "lconf" \in OtherTags /\ t \in Tokens /\ n \in Nat
      BY TowardsToken, ClipShares DEF OtherTags
    <2> HIDE DEF n, t, kept
    <2> QED BY <1>1, <1>3, <2>1, TakingAsks
  <1> QED BY <1>2, <1>3 DEF LateConfirmation

\* LateConvexTail keeps a proper memory and asks under its own tags.
LEMMA LateConvexTailAsks ==
  ASSUME SessionTypes, LateConvexTail PROVE memory' \in Memories /\ Asks(OtherTags)
  <1>1. memory \in Memories /\ Spent \in Memories
    BY SessionFacts, SpentIsMemory
  <1> DEFINE t == Other(Towards(Skew2))
             n == SharesCapped(T.clip, BuyPx(t, 1))
  <1>2. CASE Hold
    BY <1>1, <1>2 DEF Hold, Asks
  <1>3. CASE TakeOrHold("lctail", t, n, Spent)
    <2>1. "lctail" \in OtherTags /\ t \in Tokens /\ n \in Nat
      BY TowardsToken, OtherToken, ClipShares DEF OtherTags
    <2> HIDE DEF n, t
    <2> QED BY <1>1, <1>3, <2>1, TakingAsks
  <1> QED BY <1>2, <1>3 DEF LateConvexTail

\* A direction is one of two.
LEMMA SignIsOne == \A x \in Int : Sign(x) \in {-1, 1}
  BY DEF Sign

\* ReactiveDirectional keeps a proper memory and asks under its own tags.
LEMMA ReactiveDirectionalAsks ==
  ASSUME SessionTypes, ReactiveDirectional PROVE memory' \in Memories /\ Asks(OtherTags)
  <1> DEFINE seen  == [memory EXCEPT !.prediction = Sign(sig.composite)]
             t     == Towards(Sign(sig.composite))
             legs  == {v \in Tokens : T.clip \div BuyPx(v, 1) > 0}
             pair  == {Request("rd_early_pair", u, T.clip \div BuyPx(u, 1)) : u \in legs}
             n     == sig.stake \div BuyPx(t, 1)
             loads == {Request("rd_dominant_load", t, k) : k \in {n} \ {0}}
             asked == IF Cardinality(pair) = 2 THEN pair ELSE {}
  <1>1. memory \in Memories /\ clock \in Int
    BY SessionFacts
  <1>2. /\ seen \in Memories
        /\ [seen EXCEPT !.fired = TRUE] \in Memories /\ [seen EXCEPT !.lastLoad = clock] \in Memories
    <2>1. Sign(sig.composite) \in Int
      BY SessionFacts, SignIsOne
    <2> QED BY <1>1, <2>1 DEF Memories
  <1>3. CASE Refuse(seen)
    BY <1>2, <1>3 DEF Refuse, Asks
  <1>4. CASE Quoted /\ Send(asked) /\ memory' = [seen EXCEPT !.fired = TRUE]
    <2> DEFINE f == [u \in Tokens |-> T.clip \div BuyPx(u, 1)]
    <2>1. f \in [Tokens -> Nat]
      <3> SUFFICES ASSUME NEW u \in Tokens PROVE T.clip \div BuyPx(u, 1) \in Nat
        OBVIOUS
      <3>1. BuyPx(u, 1) \in Nat /\ BuyPx(u, 1) > 0 /\ T.clip \in Nat
        BY <1>4, QuotedPrice, Tunables
      <3> QED BY <3>1, DivBounds
    <2>2. legs \in SUBSET Tokens /\ "rd_early_pair" \in OtherTags
      BY DEF OtherTags
    <2>3. pair = {Request("rd_early_pair", u, f[u]) : u \in legs}
      BY <2>2
    <2>4. Asked(pair, OtherTags)
      <3> HIDE DEF pair, legs, f
      <3> QED BY <2>1, <2>2, <2>3, RequestsPerToken
    <2>5. Asked(asked, OtherTags)
      <3> HIDE DEF pair
      <3> QED BY <2>4, NoRequest
    <2> HIDE DEF asked, seen
    <2> QED BY <1>2, <1>4, <2>5 DEF Asks
  <1>5. CASE Quoted /\ Send(loads) /\ memory' = [seen EXCEPT !.lastLoad = clock]
    <2>1. "rd_dominant_load" \in OtherTags /\ t \in Tokens
      BY TowardsToken DEF OtherTags
    <2>2. n \in Nat
      <3>1. BuyPx(t, 1) \in Nat /\ BuyPx(t, 1) > 0 /\ sig.stake \in Nat
        BY <1>5, QuotedPrice, SessionFacts
      <3> HIDE DEF t
      <3> QED BY <3>1, DivBounds
    <2>3. loads = {} \/ loads = {Request("rd_dominant_load", t, n)}
      OBVIOUS
    <2>4. Asked(loads, OtherTags)
      <3> HIDE DEF loads, n, t
      <3> QED BY <2>1, <2>2, <2>3, OneRequest, NoRequest
    <2> HIDE DEF loads, seen
    <2> QED BY <1>2, <1>5, <2>4 DEF Asks
  <1> HIDE DEF seen, asked, loads
  <1>6. Refuse(seen) \/ (Quoted /\ Send(asked) /\ memory' = [seen EXCEPT !.fired = TRUE])
        \/ (Quoted /\ Send(loads) /\ memory' = [seen EXCEPT !.lastLoad = clock])
    BY DEF ReactiveDirectional, seen, asked, loads
  <1> QED BY <1>3, <1>4, <1>5, <1>6
-----------------------------------------------------------------------------
(* BonereaperLite.                                                         *)

\* The guards of the lanes of BonereaperLite.
LEMMA LiteGuards ==
  ASSUME SessionTypes
  PROVE  /\ LitePairs \in BOOLEAN /\ LiteLoads \in BOOLEAN /\ LiteHedges \in BOOLEAN
         /\ LiteTail \in SUBSET Tokens
         /\ memory.fired \in BOOLEAN /\ memory.convex \in BOOLEAN /\ memory.hedged \in BOOLEAN
  <1>1. memory \in Memories
    BY SessionFacts
  <1>2. memory.fired \in BOOLEAN /\ memory.convex \in BOOLEAN /\ memory.hedged \in BOOLEAN
    BY <1>1 DEF Memories
  <1>3. LiteTail \in SUBSET Tokens
    BY DEF LiteTail
  <1>4. LitePairs \in BOOLEAN
    BY DEF LitePairs
  <1>5. LiteLoads \in BOOLEAN
    BY DEF LiteLoads
  <1>6. LiteHedges \in BOOLEAN
    BY DEF LiteHedges
  <1> QED BY <1>2, <1>3, <1>4, <1>5, <1>6

\* The requests of BonereaperLite are proper requests.
LEMMA LiteIsAsked ==
  ASSUME SessionTypes PROVE Asked(LiteRequests, LiteTags)
  <1> DEFINE n == [t \in Tokens |-> SharesCapped(T.clip, BuyPx(t, 1))]
             sized(tag, t) == Request(tag, t, SharesCapped(T.clip, BuyPx(t, 1)))
             hedge == Towards(sig.composite)
             A == {sized("br_paired", t) : t \in Tokens}
             B == {sized("br_late_fav", "Yes")}
             D == {sized("br_convex", t) : t \in LiteTail}
             E == {sized("br_reversal_hedge", hedge)}
             a == LitePairs
             b == LiteLoads /\ book.ask <= T.maxAsk
             e == LiteHedges /\ BuyPx(hedge, 1) <= T.maxAsk
  <1>1. n \in [Tokens -> Nat]
    BY ClipShares
  <1>2. hedge \in Tokens /\ "Yes" \in Tokens
    BY TowardsToken DEF Tokens
  <1>3. /\ "br_paired" \in LiteTags /\ "br_late_fav" \in LiteTags
        /\ "br_convex" \in LiteTags /\ "br_reversal_hedge" \in LiteTags
    BY DEF LiteTags
  <1>4. Asked(A, LiteTags)
    <2>1. A = {Request("br_paired", t, n[t]) : t \in Tokens}
      OBVIOUS
    <2> HIDE DEF A, n
    <2> QED BY <1>1, <1>3, <2>1, RequestsPerToken
  <1>5. Asked(B, LiteTags)
    <2>1. B = {Request("br_late_fav", "Yes", n["Yes"])} /\ n["Yes"] \in Nat
      BY <1>1, <1>2
    <2> HIDE DEF B, n
    <2> QED BY <1>2, <1>3, <2>1, OneRequest
  <1>6. Asked(D, LiteTags)
    <2>1. LiteTail \in SUBSET Tokens
      BY LiteGuards
    <2>2. D = {Request("br_convex", t, n[t]) : t \in LiteTail}
      BY <2>1
    <2> HIDE DEF D, n
    <2> QED BY <1>1, <1>3, <2>1, <2>2, RequestsPerToken
  <1>7. Asked(E, LiteTags)
    <2>1. E = {Request("br_reversal_hedge", hedge, n[hedge])} /\ n[hedge] \in Nat
      BY <1>1, <1>2
    <2> HIDE DEF E, n, hedge
    <2> QED BY <1>2, <1>3, <2>1, OneRequest
  <1>8. LiteRequests = Only(a, A) \cup Only(b, B) \cup D \cup Only(e, E)
    BY DEF LiteRequests
  <1>9. a \in BOOLEAN /\ b \in BOOLEAN /\ e \in BOOLEAN
    BY LiteGuards
  <1> HIDE DEF n, sized, hedge, A, B, D, E, a, b, e
  <1>10. Asked(Only(a, A), LiteTags) /\ Asked(Only(b, B), LiteTags) /\ Asked(Only(e, E), LiteTags)
    BY <1>4, <1>5, <1>7, <1>9, RequestsOnly
  <1>11. Asked(Only(a, A) \cup Only(b, B), LiteTags)
    BY <1>10, RequestsTogether
  <1>12. Asked((Only(a, A) \cup Only(b, B)) \cup D, LiteTags)
    BY <1>11, <1>6, RequestsTogether
  <1>13. Asked(((Only(a, A) \cup Only(b, B)) \cup D) \cup Only(e, E), LiteTags)
    BY <1>10, <1>12, RequestsTogether
  <1> QED BY <1>8, <1>13

\* What one call of BonereaperLite leaves in its memory.
LEMMA LiteRemembers ==
  ASSUME SessionTypes, BonereaperLite, Send(LiteRequests), ~Hold
  PROVE  /\ memory' \in Memories
         /\ memory'.fired = (memory.fired \/ LitePairs)
         /\ memory'.entrySign = IF LitePairs THEN Sign(sig.composite) ELSE memory.entrySign
         /\ memory'.hedged = (memory.hedged \/ LiteHedges)
  <1> DEFINE a == memory.fired \/ LitePairs
             b == IF LitePairs THEN Sign(sig.composite) ELSE memory.entrySign
             l == IF LiteLoads THEN clock ELSE memory.lastLoad
             c == memory.convex \/ LiteTail # {}
             h == memory.hedged \/ LiteHedges
  <1>1. memory \in Memories /\ clock \in Int /\ Sign(sig.composite) \in Int
    BY SessionFacts, SignIsOne
  <1>2. memory.entrySign \in Int /\ memory.lastLoad \in Int
    BY <1>1 DEF Memories
  <1>3. a \in BOOLEAN /\ b \in Int /\ l \in Int /\ c \in BOOLEAN /\ h \in BOOLEAN
    BY <1>1, <1>2, LiteGuards
  <1>4. memory' = [memory EXCEPT !.fired = a, !.entrySign = b, !.lastLoad = l, !.convex = c, !.hedged = h]
    BY DEF BonereaperLite
  <1> HIDE DEF a, b, l, c, h
  <1>5. /\ memory' \in Memories
        /\ memory'.fired = a /\ memory'.entrySign = b /\ memory'.hedged = h
    BY <1>1, <1>3, <1>4 DEF Memories
  <1> QED BY <1>5 DEF a, b, h

\* BonereaperLite keeps a proper memory and asks under its own tags.
LEMMA BonereaperLiteAsks ==
  ASSUME SessionTypes, BonereaperLite PROVE memory' \in Memories /\ Asks(LiteTags)
  <1>1. CASE Hold
    BY <1>1, SessionFacts DEF Hold, Asks
  <1>2. CASE ~Hold
    <2>1. Send(LiteRequests)
      BY <1>2 DEF BonereaperLite
    <2> QED BY <1>2, <2>1, LiteRemembers, LiteIsAsked DEF Asks
  <1> QED BY <1>1, <1>2
-----------------------------------------------------------------------------
(* Steps of the session.                                                   *)

\* One event: the strategy of the session asks under its own tags.
LEMMA EventAsks ==
  ASSUME SessionTypes, OnEvent
  PROVE  /\ memory' \in Memories /\ kind # "bonereaper_v2"
         /\ IF kind = "bonereaper_lite" THEN BonereaperLite /\ Asks(LiteTags) ELSE Asks(OtherTags)
  <1>1. CASE BuyYesAtOpen
    BY <1>1, BuyYesAtOpenAsks DEF BuyYesAtOpen
  <1>2. CASE Noop
    BY <1>2, SessionFacts DEF Noop, Hold, Asks
  <1>3. CASE PairedMm
    BY <1>3, PairedMmAsks DEF PairedMm
  <1>4. CASE DeltaNeutralMm
    BY <1>4, DeltaNeutralMmAsks DEF DeltaNeutralMm
  <1>5. CASE UnlawfulRecycler
    BY <1>5, UnlawfulRecyclerAsks DEF UnlawfulRecycler
  <1>6. CASE SpotMomentumFollower
    BY <1>6, SpotMomentumFollowerAsks DEF SpotMomentumFollower
  <1>7. CASE LateBigBet
    BY <1>7, LateBigBetAsks DEF LateBigBet
  <1>8. CASE LateConfirmation
    BY <1>8, LateConfirmationAsks DEF LateConfirmation
  <1>9. CASE LateConvexTail
    BY <1>9, LateConvexTailAsks DEF LateConvexTail
  <1>10. CASE ReactiveDirectional
    BY <1>10, ReactiveDirectionalAsks DEF ReactiveDirectional
  <1>11. CASE BonereaperLite
    BY <1>11, BonereaperLiteAsks DEF BonereaperLite
  <1> QED BY <1>1, <1>2, <1>3, <1>4, <1>5, <1>6, <1>7, <1>8, <1>9, <1>10, <1>11 DEF OnEvent

\* No more is filled than is open.
LEMMA HalvesFill ==
  ASSUME NEW n \in Nat, NEW h \in 0..2
  PROVE  (n * h + 1) \div 2 \in 0..n
  <1>1. CASE h = 0
    BY <1>1
  <1>2. CASE h = 1
    BY <1>2
  <1>3. CASE h = 2
    BY <1>3
  <1> QED BY <1>1, <1>2, <1>3

\* Fills move shares from what is open to what is held.
LEMMA FillMoves ==
  ASSUME SessionTypes, Fill
  PROVE  /\ held' \in [Tokens -> Nat] /\ open' \in [Tokens -> Nat]
         /\ \A t \in Tokens : open'[t] <= open[t] /\ held[t] <= held'[t]
  <1>1. held \in [Tokens -> Nat] /\ open \in [Tokens -> Nat]
    BY DEF SessionTypes
  <1>2. PICK halves \in [Tokens -> Halves] :
          /\ held' = [t \in Tokens |-> held[t] + ((open[t] * halves[t] + 1) \div 2)]
          /\ open' = [t \in Tokens |-> open[t] - ((open[t] * halves[t] + 1) \div 2)]
    BY DEF Fill
  <1>3. ASSUME NEW t \in Tokens
        PROVE  (open[t] * halves[t] + 1) \div 2 \in 0..open[t]
    <2>1. open[t] \in Nat /\ halves[t] \in 0..2
      BY <1>1, <1>2, SessionAssumption
    <2> QED BY <2>1, HalvesFill
  <1>4. ASSUME NEW t \in Tokens
        PROVE  /\ held'[t] \in Nat /\ open'[t] \in Nat
               /\ open'[t] <= open[t] /\ held[t] <= held'[t]
    <2> DEFINE n == (open[t] * halves[t] + 1) \div 2
    <2>1. n \in 0..open[t] /\ open[t] \in Nat /\ held[t] \in Nat
      BY <1>1, <1>3
    <2>2. held'[t] = held[t] + n /\ open'[t] = open[t] - n
      BY <1>2
    <2> HIDE DEF n
    <2> QED BY <2>1, <2>2
  <1>5. held' = [t \in Tokens |-> held'[t]] /\ open' = [t \in Tokens |-> open'[t]]
    BY <1>2
  <1> QED BY <1>4, <1>5

\* An event, with the fills before it, keeps the types of the session.
LEMMA ArriveTypes ==
  ASSUME SessionTypes, NEW first, Arrive(first), UNCHANGED strategy
  PROVE  SessionTypes'
  <1>1. /\ held' \in [Tokens -> Nat] /\ open' \in [Tokens -> Nat]
    BY FillMoves DEF Arrive
  <1>2. clock' \in Int /\ clock' >= -1
    <2>1. PICK gap \in Gaps : clock' = clock + gap
      BY DEF Arrive
    <2> QED BY <2>1, SessionAssumption DEF SessionTypes
  <1>3. /\ events_seen' \in 0..MaxEvents
        /\ book' \in Books \cup {[bid |-> 0, ask |-> 0]} /\ sig' \in Signals
    BY SessionAssumption DEF SessionTypes, Arrive, Score
  <1>4. /\ \A r \in sent' : r.token \in Tokens
        /\ kind' \in Kinds /\ memory' \in Memories
    BY DEF SessionTypes, Arrive, strategy
  <1> QED BY <1>1, <1>2, <1>3, <1>4 DEF SessionTypes

\* Everything the market moves stays while a strategy asks.
Steady == UNCHANGED <<clock, book, sig, held, events_seen, kind>>

\* A call that only asks keeps the types of the session.
LEMMA AskingSession ==
  ASSUME SessionTypes, NEW tags, Asks(tags), Steady, memory' \in Memories
  PROVE  SessionTypes'
  <1>1. open' \in [Tokens -> Nat] /\ \A r \in sent' : r.token \in Tokens
    BY AskingTypes DEF SessionTypes
  <1> QED BY <1>1 DEF SessionTypes, Steady

\* So does every call of a strategy with little state.
LEMMA EventSession ==
  ASSUME SessionTypes, OnEvent PROVE SessionTypes'
  <1>1. memory' \in Memories /\ (Asks(LiteTags) \/ Asks(OtherTags))
    BY EventAsks
  <1>2. Steady
    BY DEF OnEvent, Steady
  <1> QED BY <1>1, <1>2, AskingSession
-----------------------------------------------------------------------------
(* BonereaperV2: prices, amounts and gates.                                *)

\* The tunables of BonereaperV2 that are counted with.
LEMMA BrTunables ==
  /\ P.clip \in Nat /\ P.maxOrders \in Nat
  /\ H.clip \in Nat /\ H.maxNotional \in Nat /\ H.overlayPct \in Nat
  /\ BrConfig.probe.earlyClip \in Nat /\ BrConfig.probe.rungClip \in Nat
  /\ BrConfig.probe.maxRungs \in Nat /\ BrConfig.probe.earlyEnd \in Nat
  /\ L.maxFires \in Nat /\ L.pairedClip \in Nat
  /\ S.maxClips \in Nat /\ S.sustain \in Nat
  /\ F.maxClips \in Nat /\ F.depth \in Nat
  /\ C.maxClips \in Nat /\ C.clip \in Nat /\ C.terms \in SUBSET TailTerms
  <1>1. /\ P \in ParticipationConfigs /\ H \in BaseConfigs /\ BrConfig.probe \in ProbeConfigs
        /\ L \in LateConfigs /\ S \in SkewConfigs /\ F \in FavouriteConfigs /\ C \in TailConfigs
    BY BrAssumption DEF BrConfigs, P, H, L, S, F, C
  <1>2. P.clip \in Nat /\ P.maxOrders \in Nat
    BY <1>1 DEF ParticipationConfigs
  <1>3. H.clip \in Nat /\ H.maxNotional \in Nat /\ H.overlayPct \in Nat
    BY <1>1 DEF BaseConfigs
  <1>4. /\ BrConfig.probe.earlyClip \in Nat /\ BrConfig.probe.rungClip \in Nat
        /\ BrConfig.probe.maxRungs \in Nat /\ BrConfig.probe.earlyEnd \in Nat
    BY <1>1 DEF ProbeConfigs
  <1>5. L.maxFires \in Nat /\ L.pairedClip \in Nat
    BY <1>1 DEF LateConfigs
  <1>6. S.maxClips \in Nat /\ S.sustain \in Nat
    BY <1>1 DEF SkewConfigs
  <1>7. F.maxClips \in Nat /\ F.depth \in Nat
    BY <1>1 DEF FavouriteConfigs
  <1>8. C.maxClips \in Nat /\ C.clip \in Nat /\ C.terms \in SUBSET TailTerms
    BY <1>1 DEF TailConfigs
  <1> QED BY <1>2, <1>3, <1>4, <1>5, <1>6, <1>7, <1>8

\* The price to buy a token at.
LEMMA PxBounds ==
  ASSUME SessionTypes, NEW t
  PROVE  /\ Px(t) \in Nat /\ Px(t) \in Int /\ Px(t) <= Unit /\ Unit \in Nat
         /\ BidPx(t) \in Int
  BY SessionFacts, PricesAreBounded, BookTypes DEF Px, BidPx

\* The mid and the skew are numbers, doubled.
LEMMA MidIsInt ==
  ASSUME SessionTypes PROVE Mid2 \in Int /\ Skew2 \in Int /\ Abs(Skew2) \in Nat
  <1>1. book.bid \in Int /\ book.ask \in Int /\ Unit \in Int
    BY SessionFacts, BookTypes
  <1>2. Max({book.bid, book.ask}) \in Int
    BY <1>1, MaxOfTwo
  <1>3. Mid2 \in Int
    BY <1>1, <1>2 DEF Mid2
  <1> QED BY <1>1, <1>3 DEF Skew2, Abs

\* Shares bought for an amount cost no more than it.
LEMMA AmountShares ==
  ASSUME SessionTypes, NEW usdc \in Int, NEW t
  PROVE  /\ SharesCapped(usdc, Px(t)) \in Nat
         /\ SharesCapped(usdc, Px(t)) > 0 => usdc > 0 /\ SharesCapped(usdc, Px(t)) * Px(t) <= usdc
  BY PxBounds, SharesAreBought

\* No load is worth more than the largest.
LEMMA LoadsAreBounded ==
  /\ LargestLoad \in Nat /\ Max({F.depth, 1}) \in Nat /\ Max({F.depth, 1}) >= 1
  /\ \A clip \in Clips, levels \in Nat :
       levels <= Max({F.depth, 1}) => clip * levels \in Nat /\ clip * levels <= LargestLoad
  /\ \A clip \in Clips : clip \in Nat /\ clip <= LargestLoad
  <1> DEFINE top  == Max(Clips)
             most == Max({F.depth, 1})
  <1>1. top \in Nat /\ \A clip \in Clips : clip \in Nat /\ clip <= top
    <2>1. Clips \in SUBSET Nat /\ IsFiniteSet(Clips) /\ Clips # {}
      BY BrAssumption
    <2> QED BY <2>1, MaxIsGreatest
  <1>2. most \in Nat /\ most >= 1
    <2>1. F.depth \in Nat /\ F.depth \in Int /\ 1 \in Int
      BY BrTunables
    <2>2. most \in {F.depth, 1} /\ 1 <= most
      <3> HIDE DEF most
      <3> QED BY <2>1, MaxOfTwo DEF most
    <2> HIDE DEF most
    <2> QED BY <2>1, <2>2
  <1>3. LargestLoad = top * most
    BY DEF LargestLoad
  <1> HIDE DEF top, most
  <1>4. ASSUME NEW clip \in Clips, NEW levels \in Nat, levels <= most
        PROVE  clip * levels \in Nat /\ clip * levels <= top * most
    <2>1. clip \in Nat /\ clip <= top
      BY <1>1
    <2>2. clip * levels <= top * levels /\ clip * levels \in Nat /\ top * levels \in Int
      BY <1>1, <2>1, MulMono
    <2>3. levels * top <= most * top
      BY <1>1, <1>2, <1>4, MulMono
    <2>4. levels * top = top * levels /\ most * top = top * most /\ top * most \in Int
      BY <1>1, <1>2
    <2> QED BY <2>2, <2>3, <2>4
  <1>5. ASSUME NEW clip \in Clips PROVE clip \in Nat /\ clip <= top * most
    <2>1. clip * 1 <= top * most
      BY <1>2, <1>4
    <2> QED BY <1>1, <2>1
  <1>6. top * most \in Nat
    BY <1>1, <1>2
  <1> QED BY <1>2, <1>3, <1>4, <1>5, <1>6 DEF most
-----------------------------------------------------------------------------
(* BonereaperV2: what the directional lanes do.                            *)

Br2Tags ==
  LoadTags \cup LadderTags \cup
  {"br2_participation", "br2_participation_hedged_base", "br2_paired_tail", "br2_convex_tail"}

\* A load of n shares of t under a tag, allowed by the side of the market and
\* by the cap of the overlay, and no larger than the largest.
Backs(tag, t, n) ==
  /\ t \in Tokens /\ n \in Nat /\ directional.side \in {NoToken, t}
  /\ DirectionalOverlayAllowed /\ n * Px(t) <= LargestLoad
  /\ RecordDirectional(t, n)
  /\ \E r \in sent' : r.tag = tag /\ r.token = t
  /\ \A r \in sent' : r \in sent \/ (r.tag = tag /\ r.token = t) \/ r.tag = "br2_paired_tail"
  /\ Asks({tag, "br2_paired_tail"})

\* A lane that stays quiet.
Refuses == UNCHANGED <<open, sent, directional>>

\* A load that is sent and recorded backs one side.
LEMMA SendingBacks ==
  ASSUME NEW tag, NEW t \in Tokens, NEW n \in Nat, NEW extra, Asked(extra, {"br2_paired_tail"}),
         Send({Request(tag, t, n)} \cup extra), RecordDirectional(t, n), DirectionalSideAllowed(t),
         DirectionalOverlayAllowed, n * Px(t) <= LargestLoad
  PROVE  Backs(tag, t, n)
  <1> DEFINE R == {Request(tag, t, n)} \cup extra
  <1>1. Asked({Request(tag, t, n)}, {tag, "br2_paired_tail"}) /\ Asked(extra, {tag, "br2_paired_tail"})
    BY OneRequest DEF Asked
  <1>2. Asked(R, {tag, "br2_paired_tail"})
    BY <1>1, RequestsTogether
  <1>3. Asks({tag, "br2_paired_tail"})
    <2> HIDE DEF R
    <2> QED BY <1>2 DEF Asks, R
  <1>4. sent' = sent \cup {[tag |-> r.tag, token |-> r.token] : r \in R}
    BY DEF Send
  <1>5. Request(tag, t, n) \in R /\ Request(tag, t, n).tag = tag /\ Request(tag, t, n).token = t
    BY DEF Request
  <1>6. \A r \in R : (r.tag = tag /\ r.token = t) \/ r.tag = "br2_paired_tail"
    BY DEF Request, Asked
  <1> HIDE DEF R
  <1>7. \E r \in sent' : r.tag = tag /\ r.token = t
    <2>1. [tag |-> tag, token |-> t] \in sent'
      BY <1>4, <1>5
    <2> QED BY <2>1
  <1>8. \A r \in sent' : r \in sent \/ (r.tag = tag /\ r.token = t) \/ r.tag = "br2_paired_tail"
    BY <1>4, <1>6
  <1> QED BY <1>3, <1>7, <1>8 DEF Backs, DirectionalSideAllowed

\* The tail paired with a load is a proper request.
LEMMA PairedTailIsAsked ==
  ASSUME SessionTypes PROVE Asked(PairedTail, {"br2_paired_tail"})
  <1> DEFINE t == Other(Target)
             n == SharesCapped(L.pairedClip, Px(t))
             c == /\ L.pairedClip > 0 /\ Px(t) \in C.minAsk..C.maxAsk /\ ToClose >= C.minToClose
                  /\ n > 0
  <1>1. t \in Tokens /\ n \in Nat /\ c \in BOOLEAN
    <2>1. L.pairedClip \in Int
      BY BrTunables
    <2> QED BY <2>1, TowardsToken, OtherToken, AmountShares DEF Target
  <1>2. PairedTail = Only(c, {Request("br2_paired_tail", t, n)})
    BY DEF PairedTail
  <1> HIDE DEF t, n, c
  <1>3. Asked({Request("br2_paired_tail", t, n)}, {"br2_paired_tail"})
    BY <1>1, OneRequest
  <1> QED BY <1>1, <1>2, <1>3, RequestsOnly

\* The shares a clip buys at some levels are worth no more than the largest load.
LEMMA LevelsAreBounded ==
  ASSUME SessionTypes, NEW clip \in Clips, NEW levels \in Nat, levels <= Max({F.depth, 1}), NEW t,
         SharesCapped(clip * levels, Px(t)) > 0
  PROVE  /\ SharesCapped(clip * levels, Px(t)) \in Nat
         /\ SharesCapped(clip * levels, Px(t)) * Px(t) <= LargestLoad
  <1> DEFINE amount == clip * levels
             n == SharesCapped(amount, Px(t))
  <1>1. amount \in Int /\ amount <= LargestLoad /\ LargestLoad \in Nat
    BY LoadsAreBounded
  <1> HIDE DEF amount
  <1>2. n \in Nat /\ n * Px(t) <= amount
    BY <1>1, AmountShares DEF amount
  <1>3. Px(t) \in Nat
    BY PxBounds
  <1> HIDE DEF n
  <1>4. n * Px(t) \in Int
    BY <1>2, <1>3
  <1>5. n \in Nat /\ n * Px(t) <= LargestLoad
    BY <1>1, <1>2, <1>4
  <1> QED BY <1>5 DEF n, amount

\* So are those that one clip buys.
LEMMA LoadIsBounded ==
  ASSUME SessionTypes, NEW clip \in Clips, NEW t, SharesCapped(clip, Px(t)) > 0
  PROVE  /\ SharesCapped(clip, Px(t)) \in Nat
         /\ SharesCapped(clip, Px(t)) * Px(t) <= LargestLoad
  <1>1. clip * 1 = clip /\ 1 <= Max({F.depth, 1}) /\ Max({F.depth, 1}) \in Nat
    BY LoadsAreBounded
  <1>2. SharesCapped(clip * 1, Px(t)) > 0
    BY <1>1
  <1>3. /\ SharesCapped(clip * 1, Px(t)) \in Nat
        /\ SharesCapped(clip * 1, Px(t)) * Px(t) <= LargestLoad
    BY <1>1, <1>2, LevelsAreBounded
  <1> QED BY <1>1, <1>3

\* Lane 3 stays quiet, or fires and records it.
LEMMA LateConfirmDoes ==
  ASSUME SessionTypes, LateConfirm
  PROVE  \/ Refuses /\ UNCHANGED late
         \/ /\ late.fires < L.maxFires
            /\ late' = [fires |-> late.fires + 1, last |-> clock]
            /\ \E n \in Nat : Backs("br2_late_confirm", Target, n)
  <1> DEFINE Fires(clip, n) ==
               /\ LateOpen /\ LatePasses(n)
               /\ Send({Request("br2_late_confirm", Target, n)} \cup PairedTail)
               /\ late' = [fires |-> late.fires + 1, last |-> clock]
               /\ RecordDirectional(Target, n)
  <1>1. CASE \E clip \in Clips : Fires(clip, SharesCapped(clip, Px(Target)))
    <2>1. PICK clip \in Clips : Fires(clip, SharesCapped(clip, Px(Target)))
      BY <1>1
    <2> DEFINE n == SharesCapped(clip, Px(Target))
    <2>2. /\ n > 0 /\ DirectionalSideAllowed(Target)
          /\ late.fires < L.maxFires /\ DirectionalOverlayAllowed
      BY <2>1 DEF LateOpen, LatePasses
    <2>3. n \in Nat /\ Target \in Tokens /\ n * Px(Target) <= LargestLoad
      BY <2>2, LoadIsBounded, TowardsToken DEF Target
    <2>4. /\ Send({Request("br2_late_confirm", Target, n)} \cup PairedTail)
          /\ late' = [fires |-> late.fires + 1, last |-> clock]
          /\ RecordDirectional(Target, n)
      BY <2>1
    <2> HIDE DEF n
    <2>5. Backs("br2_late_confirm", Target, n)
      BY <2>2, <2>3, <2>4, PairedTailIsAsked, SendingBacks
    <2> QED BY <2>2, <2>3, <2>4, <2>5
  <1>2. CASE Quiet /\ UNCHANGED <<late, directional>>
    BY <1>2 DEF Quiet, Refuses
  <1> QED BY <1>1, <1>2 DEF LateConfirm

\* Lane 4 stays quiet, or loads a sustained skew and records it.
LEMMA HighSkewLoadDoes ==
  ASSUME SessionTypes, HighSkewLoad
  PROVE  \/ Refuses /\ UNCHANGED skew_load
         \/ /\ skew_load.clips < S.maxClips
            /\ skew_load' = [clips |-> skew_load.clips + 1, last |-> clock]
            /\ Sustained(S.sustain)
            /\ \E n \in Nat : Backs("br2_high_skew_load", Favoured, n)
  <1> DEFINE Loads(clip, n) ==
               /\ SkewOpen /\ SkewPasses(n)
               /\ Send({Request("br2_high_skew_load", Favoured, n)})
               /\ skew_load' = [clips |-> skew_load.clips + 1, last |-> clock]
               /\ RecordDirectional(Favoured, n)
  <1>1. CASE \E clip \in Clips : Loads(clip, SharesCapped(clip, Px(Favoured)))
    <2>1. PICK clip \in Clips : Loads(clip, SharesCapped(clip, Px(Favoured)))
      BY <1>1
    <2> DEFINE n == SharesCapped(clip, Px(Favoured))
    <2>2. /\ n > 0 /\ DirectionalSideAllowed(Favoured) /\ Sustained(S.sustain)
          /\ skew_load.clips < S.maxClips /\ DirectionalOverlayAllowed
      BY <2>1 DEF SkewOpen, SkewPasses
    <2>3. n \in Nat /\ Favoured \in Tokens /\ n * Px(Favoured) <= LargestLoad
      BY <2>2, LoadIsBounded, TowardsToken DEF Favoured
    <2>4. /\ Send({Request("br2_high_skew_load", Favoured, n)} \cup {})
          /\ skew_load' = [clips |-> skew_load.clips + 1, last |-> clock]
          /\ RecordDirectional(Favoured, n)
      <3>1. \A X : X \cup {} = X
        OBVIOUS
      <3> QED BY <2>1, <3>1
    <2> HIDE DEF n
    <2>5. Backs("br2_high_skew_load", Favoured, n)
      BY <2>2, <2>3, <2>4, NoRequest, SendingBacks
    <2> QED BY <2>2, <2>3, <2>4, <2>5
  <1>2. CASE Quiet /\ UNCHANGED <<skew_load, directional>>
    BY <1>2 DEF Quiet, Refuses
  <1> QED BY <1>1, <1>2 DEF HighSkewLoad

\* A sweep takes at least one clip, no more than are left and no more than its
\* depth.
LEMMA LevelsAreLeft ==
  ASSUME SessionTypes, favourite.clips \in 0..F.maxClips, favourite.clips < F.maxClips,
         NEW t, NEW fragile
  PROVE  /\ FavouriteLevels(Px(t), fragile) \in 1..(F.maxClips - favourite.clips)
         /\ FavouriteLevels(Px(t), fragile) <= Max({F.depth, 1})
  <1> DEFINE px == Px(t)
             dearer(percent) == 100 * px >= percent * Unit
             dear == {percent \in {75, 80, 90} : dearer(percent)}
             levels == LadderLevels(px)
             high == {levels} \cup {n \in {1, 2, 3} : dearer(IF n = 1 THEN 99 ELSE IF n = 2 THEN 97 ELSE 95)}
             left == F.maxClips - favourite.clips
             all == {HighCertMaxLevels(px, levels), Max({F.depth, 1}), left} \cup (IF fragile THEN {1} ELSE {})
  <1>1. F.depth \in Int /\ left \in Nat /\ left >= 1
    BY BrTunables
  <1>2. Cardinality(dear) \in Nat
    <2>1. {75, 80, 90} = {75, 80} \cup {90} /\ IsFiniteSet({75, 80}) /\ IsFiniteSet({90})
      BY FS_Singleton, FiniteTwo
    <2>2. IsFiniteSet({75, 80, 90})
      <3>1. IsFiniteSet({75, 80} \cup {90})
        BY <2>1, FS_Union
      <3> QED BY <2>1, <3>1
    <2>3. dear \in SUBSET {75, 80, 90}
      OBVIOUS
    <2>4. IsFiniteSet(dear)
      BY <2>2, <2>3, FS_Subset
    <2> QED BY <2>4, FS_CardinalityType
  <1>3. levels \in Nat /\ levels >= 1
    <2> HIDE DEF px
    <2>1. levels = 5 \/ levels = 1 + Cardinality(dear)
      BY DEF LadderLevels
    <2> HIDE DEF levels, dear
    <2> QED BY <2>1, <1>2
  <1>4. HighCertMaxLevels(px, levels) \in Nat /\ HighCertMaxLevels(px, levels) >= 1
    <2>1. HighCertMaxLevels(px, levels) = Min(high)
      BY DEF HighCertMaxLevels
    <2>2. high \in SUBSET (Nat \ {0}) /\ high # {}
      <3> HIDE DEF levels, dear, dearer
      <3> QED BY <1>3
    <2>3. Min(high) \in high
      <3> HIDE DEF high
      <3> QED BY <2>2, MinIsLeast
    <2>4. Min(high) \in Nat /\ Min(high) >= 1
      <3> DEFINE least == Min(high)
      <3>1. least \in high
        BY <2>3
      <3> HIDE DEF high, least
      <3>2. least \in Nat /\ least >= 1
        BY <2>2, <3>1
      <3> QED BY <3>2 DEF least
    <2> HIDE DEF levels, high
    <2> QED BY <2>1, <2>4
  <1>5. Max({F.depth, 1}) \in Nat /\ Max({F.depth, 1}) >= 1
    <2>1. F.depth \in Nat
      BY BrTunables
    <2>2. 1 <= Max({F.depth, 1}) /\ Max({F.depth, 1}) \in {F.depth, 1}
      BY <1>1, MaxOfTwo
    <2> QED BY <2>1, <2>2
  <1>6. all \in SUBSET Nat /\ all # {} /\ left \in all /\ \A n \in all : n >= 1
    <2> HIDE DEF levels, left, px
    <2> QED BY <1>1, <1>4, <1>5
  <1>7. Min(all) \in all /\ Min(all) <= left /\ Min(all) <= Max({F.depth, 1})
    <2>1. Max({F.depth, 1}) \in all
      OBVIOUS
    <2> HIDE DEF all, left
    <2> QED BY <1>6, <2>1, MinIsLeast
  <1>8. FavouriteLevels(px, fragile) = Min(all)
    BY DEF FavouriteLevels
  <1>9. Min(all) \in 1..left
    <2> DEFINE least == Min(all)
    <2>1. least \in all /\ least <= left
      BY <1>7
    <2> HIDE DEF all, left, least
    <2>2. least \in 1..left
      BY <1>1, <1>6, <2>1
    <2> QED BY <2>2 DEF least
  <1>10. FavouriteLevels(px, fragile) \in 1..left /\ FavouriteLevels(px, fragile) <= Max({F.depth, 1})
    <2> HIDE DEF all, left, px
    <2> QED BY <1>7, <1>8, <1>9
  <1> QED BY <1>10

\* Lane 5 stays quiet, or loads the favourite and records it in both of its
\* books.
LEMMA LateFavouriteDoes ==
  ASSUME SessionTypes, favourite.clips \in 0..F.maxClips, LateFavourite
  PROVE  \/ Refuses /\ UNCHANGED favourite
         \/ \E levels \in 1..(F.maxClips - favourite.clips), n \in Nat :
              RecordFavourite(levels, n) /\ Backs("br2_late_favourite_load", Favoured, n)
  <1> DEFINE Loads(threshold2, levels, n) ==
               /\ FavouriteOpen /\ FavouritePasses(threshold2, n)
               /\ Send({Request("br2_late_favourite_load", Favoured, n)})
               /\ RecordFavourite(levels, n)
               /\ RecordDirectional(Favoured, n)
             Levels(fragile) == FavouriteLevels(Px(Favoured), fragile)
  <1>1. CASE \E clip \in Clips, fragile \in BOOLEAN, threshold2 \in FavouriteThresholds :
               Loads(threshold2, Levels(fragile), SharesCapped(clip * Levels(fragile), Px(Favoured)))
    <2>1. PICK clip \in Clips, fragile \in BOOLEAN, threshold2 \in FavouriteThresholds :
             Loads(threshold2, Levels(fragile), SharesCapped(clip * Levels(fragile), Px(Favoured)))
      BY <1>1
    <2> DEFINE levels == Levels(fragile)
               n      == SharesCapped(clip * levels, Px(Favoured))
    <2>2. /\ n > 0 /\ DirectionalSideAllowed(Favoured)
          /\ favourite.clips < F.maxClips /\ DirectionalOverlayAllowed
      BY <2>1 DEF FavouriteOpen, FavouritePasses
    <2>3. levels \in 1..(F.maxClips - favourite.clips) /\ levels <= Max({F.depth, 1})
      BY <2>2, LevelsAreLeft
    <2>4. n \in Nat /\ Favoured \in Tokens /\ n * Px(Favoured) <= LargestLoad
      <3>1. levels \in Nat
        <4> HIDE DEF levels
        <4> QED BY <2>3, BrTunables
      <3> HIDE DEF levels
      <3> QED BY <2>2, <2>3, <3>1, LevelsAreBounded, TowardsToken DEF Favoured
    <2>5. /\ Send({Request("br2_late_favourite_load", Favoured, n)} \cup {})
          /\ RecordFavourite(levels, n) /\ RecordDirectional(Favoured, n)
      <3>1. \A X : X \cup {} = X
        OBVIOUS
      <3> QED BY <2>1, <3>1
    <2> HIDE DEF n, levels
    <2>6. Backs("br2_late_favourite_load", Favoured, n)
      BY <2>2, <2>4, <2>5, NoRequest, SendingBacks
    <2> QED BY <2>3, <2>4, <2>5, <2>6
  <1>2. CASE Quiet /\ UNCHANGED <<favourite, directional>>
    BY <1>2 DEF Quiet, Refuses
  <1> QED BY <1>1, <1>2 DEF LateFavourite
-----------------------------------------------------------------------------
(* BonereaperV2: types.                                                    *)

\* What a load leaves of the directional books.
LEMMA BacksTypes ==
  ASSUME SessionTypes, BrTypes, NEW tag, NEW t, NEW n, Backs(tag, t, n)
  PROVE  /\ directional' \in [side: AnyToken, shares: Nat, notional: Nat]
         /\ directional'.side = t /\ t \in Tokens
         /\ directional'.shares = directional.shares + n
         /\ directional'.notional = directional.notional + n * Px(t)
         /\ n \in Nat /\ Px(t) \in Nat /\ Px(t) <= Unit /\ Unit \in Nat /\ n * Px(t) \in Nat
  <1>1. n \in Nat /\ Px(t) \in Nat /\ Px(t) <= Unit /\ Unit \in Nat
    BY PxBounds DEF Backs
  <1> DEFINE k == n * Px(t)
  <1>2. k \in Nat
    BY <1>1
  <1>3. directional.shares \in Nat /\ directional.notional \in Nat /\ t \in Tokens
    BY DEF BrTypes, Backs
  <1>4. directional' = [side |-> t, shares |-> directional.shares + n, notional |-> directional.notional + k]
    BY DEF Backs, RecordDirectional
  <1> HIDE DEF k
  <1>5. directional.shares + n \in Nat /\ directional.notional + k \in Nat
    BY <1>1, <1>2, <1>3
  <1>6. /\ directional' \in [side: AnyToken, shares: Nat, notional: Nat]
        /\ directional'.side = t /\ directional'.shares = directional.shares + n
        /\ directional'.notional = directional.notional + k
    BY <1>3, <1>4, <1>5 DEF AnyToken
  <1> QED BY <1>1, <1>2, <1>3, <1>6 DEF k

\* Begin keeps the types of BonereaperV2 and asks under its own tags.
LEMMA BeginTypes ==
  ASSUME SessionTypes, BrTypes, Begin PROVE BrTypes' /\ Asks(Br2Tags)
  <1>1. \A t \in Tokens : Track(t) \in Int
    BY SessionFacts DEF Track, Never, BrTypes
  <1>2. skew_first' \in [Tokens -> Int] /\ calm' \in [Tokens -> Int]
    <2>1. CASE ~Quoted \/ ~InWindow
      BY <2>1 DEF Begin, BrTypes
    <2>2. CASE ~(~Quoted \/ ~InWindow)
      <3>1. /\ skew_first' = [t \in Tokens |-> Track(t)]
            /\ calm' = [t \in Tokens |-> IF Skewed(t) /\ calm[t] # Never THEN calm[t] ELSE clock]
        BY <2>2 DEF Begin
      <3>2. \A t \in Tokens : (IF Skewed(t) /\ calm[t] # Never THEN calm[t] ELSE clock) \in Int
        BY SessionFacts DEF BrTypes
      <3> QED BY <1>1, <3>1, <3>2
    <2> QED BY <2>1, <2>2
  <1>3. UNCHANGED <<open, sent, participation, base_notional, probe, late, directional, skew_load,
                 favourite, tail>>
    BY DEF Begin
  <1>4. BrTypes'
    BY <1>2, <1>3 DEF BrTypes
  <1> QED BY <1>3, <1>4 DEF Asks

\* Participate keeps the types of BonereaperV2 and asks under its own tags.
LEMMA ParticipateTypes ==
  ASSUME SessionTypes, BrTypes, Participate PROVE BrTypes' /\ Asks({"br2_participation"})
  <1> DEFINE n == [t \in Tokens |-> SharesCapped(P.clip, BidPx(t))]
             emitted == [t \in Tokens |-> participation.emitted[t] + (IF t \in ParticipationLegs THEN 1 ELSE 0)]
             last == [t \in Tokens |-> IF t \in ParticipationLegs THEN clock ELSE participation.last[t]]
             R == {Request("br2_participation", t, SharesCapped(P.clip, BidPx(t))) : t \in ParticipationLegs}
  <1>0. ParticipationLegs \in SUBSET Tokens
    BY DEF ParticipationLegs
  <1>1. n \in [Tokens -> Nat]
    <2> SUFFICES ASSUME NEW t \in Tokens PROVE SharesCapped(P.clip, BidPx(t)) \in Nat
      OBVIOUS
    <2>1. P.clip \in Int /\ BidPx(t) \in Int
      BY BrTunables, PxBounds
    <2> QED BY <2>1, SharesAreBought
  <1>2. emitted \in [Tokens -> 0..P.maxOrders]
    <2> SUFFICES ASSUME NEW t \in Tokens
                 PROVE  participation.emitted[t] + (IF t \in ParticipationLegs THEN 1 ELSE 0) \in 0..P.maxOrders
      OBVIOUS
    <2>1. participation.emitted[t] \in 0..P.maxOrders /\ P.maxOrders \in Nat
      BY BrTunables DEF BrTypes
    <2>2. t \in ParticipationLegs => participation.emitted[t] < P.maxOrders
      BY DEF ParticipationLegs
    <2> QED BY <2>1, <2>2
  <1>3. last \in [Tokens -> Int]
    BY SessionFacts DEF BrTypes
  <1>4. R = {Request("br2_participation", t, n[t]) : t \in ParticipationLegs}
    BY <1>0
  <1>5. Asked(R, {"br2_participation"})
    <2> HIDE DEF R, n
    <2> QED BY <1>0, <1>1, <1>4, RequestsPerToken
  <1>6. Send(R) /\ participation' = [emitted |-> emitted, last |-> last]
    BY DEF Participate
  <1>7. UNCHANGED <<base_notional, probe, late, directional, skew_load, skew_first, favourite, tail,
                 calm>>
    BY DEF Participate
  <1> HIDE DEF n, emitted, last, R
  <1>8. participation' \in [emitted: [Tokens -> 0..P.maxOrders], last: [Tokens -> Int]]
    BY <1>2, <1>3, <1>6
  <1>9. BrTypes'
    BY <1>7, <1>8 DEF BrTypes
  <1> QED BY <1>5, <1>6, <1>9 DEF Asks
\* What the tokens of a base order cost together.
LEMMA PricesAddUp ==
  ASSUME SessionTypes, NEW legs \in SUBSET Tokens
  PROVE  MapThenSumSet(Px, legs) \in Nat
  <1> DEFINE w == [t \in legs |-> Px(t)]
             Sums(it) == it = [s \in SUBSET legs |->
                IF s = {} THEN 0 ELSE Px(CHOOSE x \in s : TRUE) + it[s \ {CHOOSE x \in s : TRUE}]]
  <1>0. IsFiniteSet(legs)
    BY FiniteTwo DEF Tokens
  <1>1. ASSUME NEW it PROVE Sums(it) <=> IsFold(it, SUBSET legs, w)
    <2>1. ASSUME NEW s \in SUBSET legs, s # {} PROVE FirstOf(s) \in legs
      BY <2>1 DEF FirstOf
    <2>2. \A s \in SUBSET legs : s # {} => w[FirstOf(s)] = Px(CHOOSE x \in s : TRUE)
      BY <2>1 DEF FirstOf
    <2> HIDE DEF w
    <2> QED BY <2>2 DEF IsFold, FirstOf
  <1>2. \E it : Sums(it)
    <2>1. \E it : IsFold(it, SUBSET legs, w)
      BY <1>0, FoldExists
    <2> HIDE DEF Sums, w
    <2> QED BY <1>1, <2>1
  <1>3. MapThenSumSet(Px, legs) = (CHOOSE it : Sums(it))[legs]
    BY DEF MapThenSumSet, MapThenFoldSet
  <1>4. Sums(CHOOSE it : Sums(it))
    <2> HIDE DEF Sums
    <2> QED BY <1>2
  <1>5. IsFold(CHOOSE it : Sums(it), SUBSET legs, w)
    <2> HIDE DEF Sums, w
    <2> QED BY <1>1, <1>4
  <1>6. \A x \in legs : w[x] \in Nat
    BY PxBounds
  <1>7. (CHOOSE it : Sums(it))[legs] \in Nat
    <2> HIDE DEF Sums, w
    <2> QED BY <1>0, <1>5, <1>6, FoldIsNat
  <1> QED BY <1>3, <1>7

\* The base to hedge is a number of shares.
LEMMA BaseSharesAreNat ==
  ASSUME SessionTypes, BrTypes PROVE BaseShares \in Nat
  <1> DEFINE amount == Min({H.clip, H.maxNotional - base_notional})
             px == Max({Px("Yes"), Px("No")})
  <1>1. BaseShares = 0 \/ BaseShares = SharesCapped(amount, px)
    BY DEF BaseShares
  <1>2. amount \in Int
    <2>1. H.clip \in Int /\ H.maxNotional - base_notional \in Int
      BY BrTunables DEF BrTypes
    <2>2. amount \in {H.clip, H.maxNotional - base_notional}
      BY <2>1, MinOfTwo
    <2> HIDE DEF amount
    <2> QED BY <2>1, <2>2
  <1>3. px \in Int
    <2>1. Px("Yes") \in Int /\ Px("No") \in Int
      BY PxBounds
    <2>2. px \in {Px("Yes"), Px("No")}
      BY <2>1, MaxOfTwo
    <2> HIDE DEF px
    <2> QED BY <2>1, <2>2
  <1> HIDE DEF amount, px
  <1> QED BY <1>1, <1>2, <1>3, SharesAreBought

\* HedgeBase keeps the types of BonereaperV2 and asks under its own tags, and
\* what it has requested grows.
LEMMA HedgeBaseTypes ==
  ASSUME SessionTypes, BrTypes, HedgeBase
  PROVE  BrTypes' /\ Asks({"br2_participation_hedged_base"}) /\ base_notional <= base_notional'
  <1> DEFINE tag == "br2_participation_hedged_base"
             n == [t \in Tokens |-> BaseShares]
             R == {Request(tag, t, BaseShares) : t \in BaseLegs}
             cost == MapThenSumSet(Px, BaseLegs)
  <1>1. BaseLegs \in SUBSET Tokens
    BY DEF BaseLegs
  <1>2. BaseShares \in Nat
    BY BaseSharesAreNat
  <1>3. CASE BaseShares > 0
    <2>1. Send(R) /\ base_notional' = base_notional + BaseShares * cost
      BY <1>3 DEF HedgeBase
    <2>2. n \in [Tokens -> Nat] /\ R = {Request(tag, t, n[t]) : t \in BaseLegs}
      BY <1>1, <1>2
    <2>3. Asked(R, {tag})
      <3> HIDE DEF R, n
      <3> QED BY <1>1, <2>2, RequestsPerToken
    <2>4. base_notional' \in Nat /\ base_notional <= base_notional'
      <3>1. cost \in Nat
        BY <1>1, PricesAddUp
      <3> HIDE DEF cost
      <3>2. BaseShares * cost \in Nat
        BY <3>1, <1>2
      <3> QED BY <2>1, <3>2 DEF BrTypes
    <2> HIDE DEF R
    <2> QED BY <2>1, <2>3, <2>4 DEF Asks, BrTypes, HedgeBase
  <1>4. CASE ~(BaseShares > 0)
    BY <1>4 DEF HedgeBase, Quiet, Asks, BrTypes
  <1> QED BY <1>3, <1>4

\* The token the model favours is one of the two.
LEMMA TargetToken == Target \in Tokens /\ Target # NoToken
  BY TowardsToken DEF Target, Tokens, NoToken

\* EarlyProbe keeps the types of BonereaperV2 and asks under its own tags.
LEMMA EarlyProbeTypes ==
  ASSUME SessionTypes, BrTypes, EarlyProbe PROVE BrTypes' /\ Asks({"br2_early_dir"})
  <1>1. ProbeShares \in Nat
    <2>1. BrConfig.probe.earlyClip \in Int
      BY BrTunables
    <2> QED BY <2>1, AmountShares DEF ProbeShares
  <1>2. CASE ProbeShares > 0
    <2>1. /\ Send({Request("br2_early_dir", Target, ProbeShares)})
          /\ probe' = [probe EXCEPT !.early = TRUE, !.side = Target, !.mid2 = Mid2]
      BY <1>2 DEF EarlyProbe
    <2>2. Asked({Request("br2_early_dir", Target, ProbeShares)}, {"br2_early_dir"})
      BY <1>1, TargetToken, OneRequest
    <2>3. probe' \in [early: BOOLEAN, side: AnyToken, mid2: Int, rungs: 0..BrConfig.probe.maxRungs]
      <3>1. Mid2 \in Int /\ Target \in AnyToken
        BY MidIsInt, TargetToken DEF AnyToken
      <3> QED BY <2>1, <3>1 DEF BrTypes
    <2> QED BY <2>1, <2>2, <2>3 DEF Asks, BrTypes, EarlyProbe
  <1>3. CASE ~(ProbeShares > 0)
    BY <1>3 DEF EarlyProbe, Quiet, Asks, BrTypes
  <1> QED BY <1>2, <1>3

\* MidLadder keeps the types of BonereaperV2 and asks under its own tags.
LEMMA MidLadderTypes ==
  ASSUME SessionTypes, BrTypes, MidLadder PROVE BrTypes' /\ Asks({"br2_mid_ladder"})
  <1>1. RungShares \in Nat
    <2>1. BrConfig.probe.rungClip \in Int
      BY BrTunables
    <2> QED BY <2>1, AmountShares DEF RungShares
  <1>2. CASE RungShares > 0
    <2>1. /\ Send({Request("br2_mid_ladder", Target, RungShares)})
          /\ probe' = [probe EXCEPT !.side = Target, !.mid2 = Mid2, !.rungs = @ + 1]
      BY <1>2 DEF MidLadder
    <2>2. Asked({Request("br2_mid_ladder", Target, RungShares)}, {"br2_mid_ladder"})
      BY <1>1, TargetToken, OneRequest
    <2>3. probe' \in [early: BOOLEAN, side: AnyToken, mid2: Int, rungs: 0..BrConfig.probe.maxRungs]
      <3>1. Mid2 \in Int /\ Target \in AnyToken
        BY MidIsInt, TargetToken DEF AnyToken
      <3>2. probe.rungs + 1 \in 0..BrConfig.probe.maxRungs
        <4>1. probe.rungs < BrConfig.probe.maxRungs
          BY <1>2 DEF RungShares
        <4> QED BY <4>1, BrTunables DEF BrTypes
      <3>3. probe' = [probe EXCEPT !.side = Target, !.mid2 = Mid2, !.rungs = probe.rungs + 1]
        BY <2>1
      <3> QED BY <3>1, <3>2, <3>3 DEF BrTypes
    <2> QED BY <2>1, <2>2, <2>3 DEF Asks, BrTypes, MidLadder
  <1>3. CASE ~(RungShares > 0)
    BY <1>3 DEF MidLadder, Quiet, Asks, BrTypes
  <1> QED BY <1>2, <1>3
\* LateConfirm keeps the types of BonereaperV2 and asks under its own tags.
LEMMA LateConfirmTypes ==
  ASSUME SessionTypes, BrTypes, LateConfirm
  PROVE  BrTypes' /\ Asks({"br2_late_confirm", "br2_paired_tail"})
  <1>1. UNCHANGED <<participation, base_notional, probe, skew_load, skew_first, favourite, tail, calm>>
    BY DEF LateConfirm
  <1>2. CASE Refuses /\ UNCHANGED late
    BY <1>1, <1>2 DEF Refuses, Asks, BrTypes
  <1>3. CASE /\ late.fires < L.maxFires
             /\ late' = [fires |-> late.fires + 1, last |-> clock]
             /\ \E n \in Nat : Backs("br2_late_confirm", Target, n)
    <2>1. PICK n \in Nat : Backs("br2_late_confirm", Target, n)
      BY <1>3
    <2>2. directional' \in [side: AnyToken, shares: Nat, notional: Nat]
      BY <2>1, BacksTypes
    <2>3. late' \in [fires: 0..L.maxFires, last: Int]
      <3>1. late.fires + 1 \in 0..L.maxFires /\ clock \in Int
        BY <1>3, SessionFacts, BrTunables DEF BrTypes
      <3> QED BY <1>3, <3>1
    <2> QED BY <1>1, <2>1, <2>2, <2>3 DEF Backs, BrTypes
  <1> QED BY <1>2, <1>3, LateConfirmDoes

\* HighSkewLoad keeps the types of BonereaperV2 and asks under its own tags.
LEMMA HighSkewLoadTypes ==
  ASSUME SessionTypes, BrTypes, HighSkewLoad
  PROVE  BrTypes' /\ Asks({"br2_high_skew_load", "br2_paired_tail"})
  <1>1. UNCHANGED <<participation, base_notional, probe, late, skew_first, favourite, tail, calm>>
    BY DEF HighSkewLoad
  <1>2. CASE Refuses /\ UNCHANGED skew_load
    BY <1>1, <1>2 DEF Refuses, Asks, BrTypes
  <1>3. CASE /\ skew_load.clips < S.maxClips
             /\ skew_load' = [clips |-> skew_load.clips + 1, last |-> clock]
             /\ \E n \in Nat : Backs("br2_high_skew_load", Favoured, n)
    <2>1. PICK n \in Nat : Backs("br2_high_skew_load", Favoured, n)
      BY <1>3
    <2>2. directional' \in [side: AnyToken, shares: Nat, notional: Nat]
      BY <2>1, BacksTypes
    <2>3. skew_load' \in [clips: 0..S.maxClips, last: Int]
      <3>1. skew_load.clips + 1 \in 0..S.maxClips /\ clock \in Int
        BY <1>3, SessionFacts, BrTunables DEF BrTypes
      <3> QED BY <1>3, <3>1
    <2> QED BY <1>1, <2>1, <2>2, <2>3 DEF Backs, BrTypes
  <1> QED BY <1>2, <1>3, HighSkewLoadDoes

\* What a load leaves of the favourite's books.
LEMMA RecordFavouriteTypes ==
  ASSUME SessionTypes, BrTypes, NEW levels \in 1..(F.maxClips - favourite.clips), NEW n \in Nat,
         RecordFavourite(levels, n)
  PROVE  /\ favourite' \in [side: AnyToken, clips: 0..F.maxClips, last: Int, shares: Nat,
                            notional: Nat, peak: Nat, side_shares: Nat, side_notional: Nat]
         /\ favourite'.side = Favoured /\ Favoured \in Tokens
         /\ favourite'.clips = favourite.clips + levels
         /\ favourite'.shares = favourite.shares + n
         /\ favourite'.notional = favourite.notional + n * Px(Favoured)
         /\ favourite'.peak >= Px(Favoured)
         /\ SameFavourite => favourite'.peak >= favourite.peak
         /\ favourite'.side_shares = (IF SameFavourite THEN favourite.side_shares ELSE 0) + n
         /\ favourite'.side_notional = (IF SameFavourite THEN favourite.side_notional ELSE 0) + n * Px(Favoured)
  <1> DEFINE px == Px(Favoured)
             best == PeakEntry(px)
             ss == (IF SameFavourite THEN favourite.side_shares ELSE 0) + n
             sn == (IF SameFavourite THEN favourite.side_notional ELSE 0) + n * px
  <1>1. px \in Nat /\ Favoured \in Tokens /\ clock \in Int /\ F.maxClips \in Nat
    BY PxBounds, TowardsToken, SessionFacts, BrTunables DEF Favoured
  <1>2. /\ favourite.clips \in 0..F.maxClips /\ favourite.shares \in Nat
        /\ favourite.notional \in Nat /\ favourite.peak \in Nat
        /\ favourite.side_shares \in Nat /\ favourite.side_notional \in Nat
    BY DEF BrTypes
  <1>3. best \in Nat /\ best >= px /\ (SameFavourite => best >= favourite.peak)
    <2> DEFINE before == IF SameFavourite THEN favourite.peak ELSE 0
    <2>1. before \in Nat /\ before \in Int /\ px \in Int
      BY <1>1, <1>2
    <2>2. best = Max({before, px})
      BY DEF PeakEntry
    <2>3. best \in {before, px} /\ before <= best /\ px <= best
      <3> HIDE DEF before, px, best
      <3> QED BY <2>1, <2>2, MaxOfTwo
    <2>4. SameFavourite => before = favourite.peak
      OBVIOUS
    <2> HIDE DEF before, px, best
    <2> QED BY <1>1, <2>1, <2>3, <2>4
  <1>4. n * px \in Nat
    <2> HIDE DEF px
    <2> QED BY <1>1
  <1>5. ss \in Nat /\ sn \in Nat
    BY <1>2, <1>4
  <1>6. favourite.clips + levels \in 0..F.maxClips
    BY <1>1, <1>2
  <1>7. favourite.shares + n \in Nat /\ favourite.notional + n * px \in Nat
    BY <1>2, <1>4
  <1>8. favourite' = [side |-> Favoured, clips |-> favourite.clips + levels, last |-> clock,
                      shares |-> favourite.shares + n, notional |-> favourite.notional + n * px,
                      peak |-> best, side_shares |-> ss, side_notional |-> sn]
    BY DEF RecordFavourite
  <1> DEFINE fn == favourite.notional + n * px
  <1>9. fn \in Nat /\ favourite' = [side |-> Favoured, clips |-> favourite.clips + levels, last |-> clock,
                      shares |-> favourite.shares + n, notional |-> fn,
                      peak |-> best, side_shares |-> ss, side_notional |-> sn]
    BY <1>7, <1>8
  <1> HIDE DEF px, best, ss, sn, fn
  <1>10. /\ favourite' \in [side: AnyToken, clips: 0..F.maxClips, last: Int, shares: Nat,
                            notional: Nat, peak: Nat, side_shares: Nat, side_notional: Nat]
         /\ favourite'.side = Favoured /\ favourite'.clips = favourite.clips + levels
         /\ favourite'.shares = favourite.shares + n /\ favourite'.notional = fn
         /\ favourite'.peak = best /\ favourite'.side_shares = ss /\ favourite'.side_notional = sn
    BY <1>1, <1>3, <1>5, <1>6, <1>7, <1>9 DEF AnyToken
  <1> QED BY <1>1, <1>3, <1>10 DEF px, ss, sn, fn

\* LateFavourite keeps the types of BonereaperV2 and asks under its own tags.
LEMMA LateFavouriteTypes ==
  ASSUME SessionTypes, BrTypes, LateFavourite
  PROVE  BrTypes' /\ Asks({"br2_late_favourite_load", "br2_paired_tail"})
  <1>1. favourite.clips \in 0..F.maxClips
    BY DEF BrTypes
  <1>2. UNCHANGED <<participation, base_notional, probe, late, skew_load, skew_first, tail, calm>>
    BY DEF LateFavourite
  <1>3. CASE Refuses /\ UNCHANGED favourite
    BY <1>2, <1>3 DEF Refuses, Asks, BrTypes
  <1>4. CASE \E levels \in 1..(F.maxClips - favourite.clips), n \in Nat :
               RecordFavourite(levels, n) /\ Backs("br2_late_favourite_load", Favoured, n)
    <2>1. PICK levels \in 1..(F.maxClips - favourite.clips), n \in Nat :
             RecordFavourite(levels, n) /\ Backs("br2_late_favourite_load", Favoured, n)
      BY <1>4
    <2>2. directional' \in [side: AnyToken, shares: Nat, notional: Nat]
      BY <2>1, BacksTypes
    <2>3. favourite' \in [side: AnyToken, clips: 0..F.maxClips, last: Int, shares: Nat,
                          notional: Nat, peak: Nat, side_shares: Nat, side_notional: Nat]
      BY <2>1, RecordFavouriteTypes
    <2> QED BY <1>2, <2>1, <2>2, <2>3 DEF Backs, BrTypes
  <1> QED BY <1>1, <1>3, <1>4, LateFavouriteDoes
-----------------------------------------------------------------------------
(* BonereaperV2: the convex tail and what funds it.                        *)

\* And can be undone.
LEMMA MulCancel ==
  ASSUME NEW a \in Int, NEW b \in Int, NEW c \in Nat, c > 0, a * c <= b * c
  PROVE  a <= b
  OBVIOUS

\* Division of an integer rounds down.
LEMMA DivInt ==
  ASSUME NEW a \in Int, NEW b \in Nat, b > 0
  PROVE  a \div b \in Int /\ (a \div b) * b <= a
  OBVIOUS

\* A share of a budget that is cut to the shares that count.
LEMMA CutBudget ==
  ASSUME NEW pct \in Nat, NEW n \in Nat, NEW all \in Nat, all > 0, NEW cut \in Nat, cut <= all,
         NEW spent \in Int, spent * (100 * all) <= (pct * cut) * n
  PROVE  100 * spent <= pct * n
  <1> DEFINE z == pct * n
             y == 100 * spent
  <1>1. z \in Nat /\ y \in Int
    OBVIOUS
  <1>2. (pct * cut) * n = cut * z /\ spent * (100 * all) = y * all
    OBVIOUS
  <1> HIDE DEF z, y
  <1>3. cut * z <= all * z /\ all * z = z * all
    BY <1>1, MulMono
  <1>4. y * all <= z * all
    <2>1. y * all \in Int /\ cut * z \in Int /\ z * all \in Int
      BY <1>1
    <2> QED BY <1>2, <1>3, <2>1
  <1>5. y <= z
    BY <1>1, <1>4, MulCancel
  <1> QED BY <1>5 DEF z, y

\* The shares that the tail insures are at most those loaded.
LEMMA EffectiveIsLess ==
  ASSUME SessionTypes, BrTypes, SideInv, TailWanted
  PROVE  /\ directional.side \in Tokens
         /\ EffectiveShares \in Nat /\ EffectiveShares <= directional.shares
         /\ directional.shares \in Nat /\ directional.shares > 0
         /\ directional.notional \in Nat /\ directional.notional > 0
  <1> DEFINE t == directional.side
  <1>1. directional.shares \in Nat /\ directional.notional \in Nat
    BY DEF BrTypes
  <1>2. EffectiveShares > 0 /\ directional.notional > 0
    BY DEF TailWanted
  <1>3. t \in Tokens /\ held[t] \in Int
    BY <1>2 DEF SideInv, BrTypes, SessionTypes, AnyToken
  <1>4. EffectiveShares = Min({held[t], directional.shares}) /\ directional.shares \in Int
    BY <1>1 DEF EffectiveShares
  <1> HIDE DEF t
  <1>5. EffectiveShares \in {held[t], directional.shares} /\ EffectiveShares <= directional.shares
    BY <1>3, <1>4, MinOfTwo
  <1> QED BY <1>1, <1>2, <1>3, <1>5 DEF t

\* A tail's clip is no more than what is left of its budget, both ways of
\* counting it.
LEMMA ClipIsFunded ==
  ASSUME SessionTypes, BrTypes, SideInv, TailWanted, NEW terms \in C.terms
  PROVE  /\ TailClip(terms) \in Int
         /\ TailClip(terms) > 0 =>
              /\ 100 * (tail.notional + TailClip(terms)) <= terms.spendPct * directional.notional
              /\ directional.notional <= directional.shares * Unit =>
                   100 * (tail.notional + TailClip(terms))
                     <= terms.upsidePct * (directional.shares * Unit - directional.notional)
  <1> DEFINE e == EffectiveShares
             all == directional.shares
             n == directional.notional
             up == all * Unit - n
             a == (terms.spendPct * e) * n
             b == (terms.upsidePct * e) * up
             q == Min({a, b}) \div (100 * all)
             px == Px(TailToken)
             covered == (((e * n) * terms.coveragePct) * px) \div ((100 * Unit) * all)
             wanted == IF terms.coveragePct > 0 THEN Max({0, covered - tail.notional}) ELSE C.clip
  <1>1. e \in Nat /\ e <= all /\ all \in Nat /\ all > 0 /\ n \in Nat /\ n > 0
    BY EffectiveIsLess
  <1>2. terms.spendPct \in Nat /\ terms.upsidePct \in Nat /\ terms.coveragePct \in Nat
    <2>1. terms \in TailTerms
      BY BrTunables
    <2> QED BY <2>1 DEF TailTerms
  <1>3. Unit \in Nat /\ Unit > 0 /\ px \in Nat /\ tail.notional \in Nat /\ C.clip \in Int
    BY SessionAssumption, PxBounds, BrTunables DEF BrTypes
  <1>4. up \in Int
    <2> HIDE DEF all, n
    <2> QED BY <1>1, <1>3
  <1>5. a \in Int /\ b \in Int /\ 100 * all \in Nat /\ 100 * all > 0
    <2> HIDE DEF e, all, n, up
    <2>1. terms.spendPct * e \in Nat /\ terms.upsidePct * e \in Nat
      BY <1>1, <1>2
    <2> QED BY <1>1, <1>4, <2>1
  <1>6. Min({a, b}) \in Int /\ Min({a, b}) <= a /\ Min({a, b}) <= b
    <2> DEFINE m == Min({a, b})
    <2>1. m \in {a, b} /\ m <= a /\ m <= b
      <3> HIDE DEF a, b
      <3> QED BY <1>5, MinOfTwo
    <2> HIDE DEF a, b, m
    <2>2. m \in Int /\ m <= a /\ m <= b
      BY <1>5, <2>1
    <2> QED BY <2>2 DEF m
  <1>7. q \in Int /\ q * (100 * all) <= a /\ q * (100 * all) <= b
    <2> DEFINE m == Min({a, b})
    <2>1. m \in Int /\ m <= a /\ m <= b
      BY <1>6
    <2>2. q = m \div (100 * all)
      OBVIOUS
    <2> HIDE DEF m, a, b, all, q
    <2>3. m \div (100 * all) \in Int /\ (m \div (100 * all)) * (100 * all) <= m
      BY <1>5, <2>1, DivInt
    <2>4. q \in Int /\ q * (100 * all) <= m
      BY <2>2, <2>3
    <2>5. q * (100 * all) \in Int
      BY <1>5, <2>4
    <2> QED BY <1>5, <2>1, <2>4, <2>5
  <1>8. TailBudget(terms) = q - tail.notional
    BY DEF TailBudget
  <1>9. wanted \in Int
    <2>1. covered \in Int
      <3> DEFINE d == (100 * Unit) * all
                 w == ((e * n) * terms.coveragePct) * px
      <3>1. d \in Nat /\ d > 0
        <4> HIDE DEF all
        <4> QED BY <1>1, <1>3
      <3>2. w \in Int
        <4> HIDE DEF e, n, px
        <4>1. (e * n) * terms.coveragePct \in Nat
          BY <1>1, <1>2
        <4> QED BY <1>3, <4>1
      <3> HIDE DEF d, w
      <3>3. w \div d \in Int
        BY <3>1, <3>2, DivInt
      <3> QED BY <3>3 DEF d, w
    <2> DEFINE m == Max({0, covered - tail.notional})
    <2>2. covered - tail.notional \in Int /\ 0 \in Int
      <3> HIDE DEF covered
      <3> QED BY <2>1, <1>3
    <2>3. m \in {0, covered - tail.notional}
      <3> HIDE DEF covered
      <3> QED BY <2>2, MaxOfTwo
    <2> HIDE DEF m, covered
    <2>4. m \in Int
      BY <2>2, <2>3
    <2> QED BY <1>3, <2>4 DEF m
  <1>10. TailClip(terms) = IF q - tail.notional <= 0 THEN 0 ELSE Min({wanted, q - tail.notional})
    BY <1>8 DEF TailClip
  <1>11. TailClip(terms) \in Int /\ (TailClip(terms) > 0 => TailClip(terms) <= q - tail.notional)
    <2> DEFINE left == q - tail.notional
               m == Min({wanted, left})
    <2>1. left \in Int
      <3> HIDE DEF q
      <3> QED BY <1>7, <1>3
    <2>2. TailClip(terms) = IF left <= 0 THEN 0 ELSE m
      BY <1>10
    <2>3. m \in {wanted, left} /\ m <= left
      <3> HIDE DEF wanted, left
      <3> QED BY <1>9, <2>1, MinOfTwo
    <2> HIDE DEF m, left, wanted
    <2>4. TailClip(terms) \in Int /\ (TailClip(terms) > 0 => TailClip(terms) <= left)
      BY <1>9, <2>1, <2>2, <2>3
    <2> QED BY <2>4 DEF left
  <1> DEFINE spent == tail.notional + TailClip(terms)
  <1>12. ASSUME TailClip(terms) > 0
         PROVE  /\ spent \in Int /\ spent * (100 * all) <= a /\ spent * (100 * all) <= b
    <2>1. spent \in Int /\ spent <= q
      <3> HIDE DEF q
      <3> QED BY <1>3, <1>7, <1>11, <1>12
    <2> HIDE DEF spent, q, all, a, b
    <2>2. spent * (100 * all) <= q * (100 * all) /\ spent * (100 * all) \in Int /\ q * (100 * all) \in Int
      BY <1>5, <1>7, <2>1, MulMono
    <2> QED BY <1>5, <1>7, <2>1, <2>2
  <1>13. ASSUME TailClip(terms) > 0 PROVE 100 * spent <= terms.spendPct * n
    <2>1. spent \in Int /\ spent * (100 * all) <= (terms.spendPct * e) * n
      BY <1>12, <1>13
    <2> HIDE DEF spent, all, e, n
    <2> QED BY <1>1, <1>2, <2>1, CutBudget
  <1>14. ASSUME TailClip(terms) > 0, n <= all * Unit PROVE 100 * spent <= terms.upsidePct * up
    <2>1. spent \in Int /\ spent * (100 * all) <= (terms.upsidePct * e) * up
      BY <1>12, <1>14
    <2>2. up \in Nat
      <3>1. all * Unit \in Int
        BY <1>1, <1>3
      <3> HIDE DEF all, n
      <3> QED BY <1>1, <1>14, <3>1
    <2> HIDE DEF spent, all, e, up
    <2> QED BY <1>1, <1>2, <2>1, <2>2, CutBudget
  <1> QED BY <1>11, <1>13, <1>14
\* What the lane does: nothing, or one request against the side of the market.
LEMMA ConvexTailDoes ==
  ASSUME SessionTypes, BrTypes, SideInv, ConvexTail
  PROVE  \/ UNCHANGED <<open, sent, tail>>
         \/ \E terms \in C.terms, n \in Nat :
              /\ directional.side \in Tokens /\ tail.clips < C.maxClips
              /\ TailClip(terms) \in Int /\ TailClip(terms) > 0 /\ TailWanted
              /\ n * Px(TailToken) <= TailClip(terms)
              /\ Send({Request("br2_convex_tail", TailToken, n)})
              /\ tail' = [clips |-> tail.clips + 1, last |-> clock, skew2 |-> Abs(Skew2),
                          notional |-> tail.notional + n * Px(TailToken)]
  <1> DEFINE Insures(terms, n) ==
               /\ TailWanted /\ n > 0
               /\ Send({Request("br2_convex_tail", TailToken, n)})
               /\ tail' = [clips |-> tail.clips + 1, last |-> clock, skew2 |-> Abs(Skew2),
                           notional |-> tail.notional + n * Px(TailToken)]
  <1>1. CASE \E terms \in C.terms : Insures(terms, SharesCapped(TailClip(terms), Px(TailToken)))
    <2>1. PICK terms \in C.terms : Insures(terms, SharesCapped(TailClip(terms), Px(TailToken)))
      BY <1>1
    <2> DEFINE n == SharesCapped(TailClip(terms), Px(TailToken))
    <2>2. TailClip(terms) \in Int
      BY <2>1, ClipIsFunded
    <2>3. n \in Nat /\ TailClip(terms) > 0 /\ n * Px(TailToken) <= TailClip(terms)
      BY <2>1, <2>2, AmountShares
    <2>4. directional.side \in Tokens /\ tail.clips < C.maxClips
      BY <2>1, EffectiveIsLess DEF TailWanted
    <2>5. Insures(terms, n)
      BY <2>1
    <2> HIDE DEF n
    <2> QED BY <2>2, <2>3, <2>4, <2>5
  <1>2. CASE Quiet /\ UNCHANGED tail
    BY <1>2 DEF Quiet
  <1> QED BY <1>1, <1>2 DEF ConvexTail

\* ConvexTail keeps the types of BonereaperV2 and asks under its own tags.
LEMMA ConvexTailTypes ==
  ASSUME SessionTypes, BrTypes, SideInv, ConvexTail
  PROVE  BrTypes' /\ Asks({"br2_convex_tail"})
  <1>1. UNCHANGED <<participation, base_notional, probe, late, directional, skew_load, skew_first,
                 favourite, calm>>
    BY DEF ConvexTail
  <1>2. CASE UNCHANGED <<open, sent, tail>>
    BY <1>1, <1>2 DEF Asks, BrTypes
  <1>3. CASE \E terms \in C.terms, n \in Nat :
              /\ directional.side \in Tokens /\ tail.clips < C.maxClips
              /\ TailClip(terms) \in Int /\ TailClip(terms) > 0 /\ TailWanted
              /\ n * Px(TailToken) <= TailClip(terms)
              /\ Send({Request("br2_convex_tail", TailToken, n)})
              /\ tail' = [clips |-> tail.clips + 1, last |-> clock, skew2 |-> Abs(Skew2),
                          notional |-> tail.notional + n * Px(TailToken)]
    <2>1. PICK terms \in C.terms, n \in Nat :
              /\ directional.side \in Tokens /\ tail.clips < C.maxClips
              /\ Send({Request("br2_convex_tail", TailToken, n)})
              /\ tail' = [clips |-> tail.clips + 1, last |-> clock, skew2 |-> Abs(Skew2),
                          notional |-> tail.notional + n * Px(TailToken)]
      BY <1>3
    <2>2. TailToken \in Tokens
      BY <2>1, OtherToken DEF TailToken
    <2>3. Asked({Request("br2_convex_tail", TailToken, n)}, {"br2_convex_tail"})
      BY <2>2, OneRequest
    <2> DEFINE k == tail.notional + n * Px(TailToken)
               y == Abs(Skew2)
    <2>4. k \in Nat /\ y \in Int /\ clock \in Int /\ tail.clips + 1 \in 0..C.maxClips
      <3>1. n * Px(TailToken) \in Nat
        BY PxBounds
      <3>2. tail.notional \in Nat /\ tail.clips \in 0..C.maxClips
        BY DEF BrTypes
      <3> QED BY <2>1, <3>1, <3>2, MidIsInt, SessionFacts, BrTunables
    <2>5. tail' = [clips |-> tail.clips + 1, last |-> clock, skew2 |-> y, notional |-> k]
      BY <2>1
    <2> HIDE DEF k, y
    <2>6. tail' \in [clips: 0..C.maxClips, last: Int, skew2: Int, notional: Nat]
      BY <2>4, <2>5
    <2> QED BY <1>1, <2>1, <2>3, <2>6 DEF Asks, BrTypes
  <1> QED BY <1>2, <1>3, ConvexTailDoes
-----------------------------------------------------------------------------
(* What asking under other tags leaves alone.                              *)

\* A call of BonereaperV2 asks nothing in the name of BonereaperLite.
LEMMA KindFrame ==
  ASSUME KindInv, kind = "bonereaper_v2", kind' = kind, NEW tags, Asks(tags), tags \cap LiteTags = {}
  PROVE  KindInv'
  BY AskingTags DEF KindInv

\* A lane that neither loads nor insures keeps the direction.
LEMMA SideFrame ==
  ASSUME SideInv, directional' = directional, NEW tags, Asks(tags),
         tags \cap LoadTags = {}, "br2_convex_tail" \notin tags
  PROVE  SideInv'
  <1>1. /\ sent \subseteq sent'
        /\ \A r \in sent' : r \in sent \/ r.tag \in tags
    BY AskingTags
  <1>2. \A r \in sent' : r.tag \in LoadTags \/ r.tag = "br2_convex_tail" => r \in sent
    BY <1>1
  <1> QED BY <1>1, <1>2 DEF SideInv

\* A lane off the ladder keeps the ladder.
LEMMA LadderFrame ==
  ASSUME LadderInv, probe' = probe, clock \in Int, clock' \in Int, clock' >= clock,
         NEW tags, Asks(tags), tags \cap LadderTags = {}
  PROVE  LadderInv'
  <1>1. \A r \in sent' : r \in sent \/ r.tag \in tags
    BY AskingTags
  <1>2. \A r \in sent' : r.tag \in LadderTags => r \in sent
    BY <1>1
  <1>3. BrConfig.probe.earlyEnd \in Nat
    BY BrTunables
  <1> QED BY <1>2, <1>3 DEF LadderInv

\* A call that is not BonereaperLite's keeps its hedges.
LEMMA LiteFrame ==
  ASSUME LiteInv, UNCHANGED <<memory, kind>>, NEW tags, Asks(tags), tags \cap LiteTags = {}
  PROVE  LiteInv'
  <1>1. /\ sent \subseteq sent'
        /\ \A r \in sent' : r \in sent \/ r.tag \in tags
    BY AskingTags
  <1>2. \A r \in sent' : r.tag = "br_reversal_hedge" => r \in sent
    BY <1>1 DEF LiteTags
  <1> QED BY <1>1, <1>2 DEF LiteInv

-----------------------------------------------------------------------------
(* The side of the directional lanes, and their books.                     *)

\* A load keeps to the side, or chooses it.
LEMMA BacksSide ==
  ASSUME SessionTypes, BrTypes, SideInv, NEW tag \in LoadTags, NEW t, NEW n, Backs(tag, t, n)
  PROVE  SideInv'
  <1>1. /\ directional'.side = t /\ t \in Tokens /\ directional.side \in {NoToken, t}
        /\ t # NoToken
    BY BacksTypes DEF Backs, Tokens, NoToken
  <1>2. \A r \in sent : r.token \in Tokens
    BY DEF SessionTypes
  <1>3. \A r \in sent' : r.tag \in LoadTags => r.token = t
    <2> SUFFICES ASSUME NEW r \in sent', r.tag \in LoadTags PROVE r.token = t
      OBVIOUS
    <2>1. CASE r \in sent
      <3>1. r.token = directional.side /\ r.token \in Tokens
        BY <1>2, <2>1 DEF SideInv
      <3> QED BY <1>1, <3>1 DEF NoToken, Tokens
    <2>2. CASE r \notin sent
      BY <2>2 DEF Backs, LoadTags
    <2> QED BY <2>1, <2>2
  <1>4. \E r \in sent' : r.tag \in LoadTags
    BY DEF Backs
  <1>5. \A r \in sent' : r.tag = "br2_convex_tail" => r.token = Other(t)
    <2> SUFFICES ASSUME NEW r \in sent', r.tag = "br2_convex_tail" PROVE r.token = Other(t)
      OBVIOUS
    <2>1. r \in sent
      BY DEF Backs, LoadTags
    <2>2. directional.side # NoToken /\ r.token = Other(directional.side)
      BY <2>1 DEF SideInv
    <2> QED BY <1>1, <2>2
  <1> QED BY <1>1, <1>3, <1>4, <1>5 DEF SideInv

\* No terms are more generous than the most generous.
LEMMA TailTerm ==
  /\ Max({t.spendPct : t \in C.terms}) \in Nat
  /\ Max({t.upsidePct : t \in C.terms}) \in Nat
  /\ \A t \in C.terms : /\ t.spendPct \in Nat /\ t.upsidePct \in Nat
                        /\ t.spendPct <= Max({u.spendPct : u \in C.terms})
                        /\ t.upsidePct <= Max({u.upsidePct : u \in C.terms})
  <1> DEFINE A == {t.spendPct : t \in C.terms}
             B == {t.upsidePct : t \in C.terms}
  <1>1. IsFiniteSet(C.terms) /\ C.terms # {}
    BY BrAssumption DEF C
  <1>2. \A t \in C.terms : t.spendPct \in Nat /\ t.upsidePct \in Nat
    BY BrTunables DEF TailTerms
  <1>3. IsFiniteSet(A) /\ IsFiniteSet(B)
    <2>1. IsFiniteSet(A)
      <3> DEFINE f == [t \in C.terms |-> t.spendPct]
      <3>1. f \in [C.terms -> A] /\ A = {f[t] : t \in C.terms}
        OBVIOUS
      <3>2. \A x \in A : \E t \in C.terms : f[t] = x
        OBVIOUS
      <3>3. f \in Surjection(C.terms, A)
        <4> HIDE DEF f, A
        <4> QED BY <3>1, <3>2, Zenon DEF Surjection
      <3> HIDE DEF f, A
      <3> QED BY <1>1, <3>3, FS_Surjection
    <2>2. IsFiniteSet(B)
      <3> DEFINE f == [t \in C.terms |-> t.upsidePct]
      <3>1. f \in [C.terms -> B] /\ B = {f[t] : t \in C.terms}
        OBVIOUS
      <3>2. \A x \in B : \E t \in C.terms : f[t] = x
        OBVIOUS
      <3>3. f \in Surjection(C.terms, B)
        <4> HIDE DEF f, B
        <4> QED BY <3>1, <3>2, Zenon DEF Surjection
      <3> HIDE DEF f, B
      <3> QED BY <1>1, <3>3, FS_Surjection
    <2> QED BY <2>1, <2>2
  <1>4. A \in SUBSET Nat /\ A # {} /\ B \in SUBSET Nat /\ B # {}
    BY <1>1, <1>2
  <1>5. \A t \in C.terms : t.spendPct \in A /\ t.upsidePct \in B
    OBVIOUS
  <1>6. /\ Max(A) \in A /\ \A x \in A : x <= Max(A)
        /\ Max(B) \in B /\ \A x \in B : x <= Max(B)
    <2> HIDE DEF A, B
    <2> QED BY <1>3, <1>4, MaxIsGreatest
  <1>7. Max(A) \in Nat /\ Max(B) \in Nat
    <2> HIDE DEF A, B
    <2> QED BY <1>4, <1>6
  <1> HIDE DEF A, B
  <1>8. \A t \in C.terms : t.spendPct <= Max(A) /\ t.upsidePct <= Max(B)
    BY <1>5, <1>6
  <1> QED BY <1>2, <1>7, <1>8 DEF A, B

\* A load raises what the tail is measured by.
LEMMA BacksTail ==
  ASSUME SessionTypes, BrTypes, TailInv, tail' = tail, NEW tag, NEW t, NEW n, Backs(tag, t, n)
  PROVE  TailInv'
  <1> DEFINE x == Max({u.spendPct : u \in C.terms})
             y == Max({u.upsidePct : u \in C.terms})
             k == n * Px(t)
             spent == tail.notional
             all == directional.shares
             cost == directional.notional
  <1>1. x \in Nat /\ y \in Nat
    BY TailTerm
  <1>2. spent \in Nat /\ all \in Nat /\ cost \in Nat
    BY DEF BrTypes
  <1>3. /\ n \in Nat /\ k \in Nat /\ Unit \in Nat /\ Px(t) \in Nat /\ Px(t) <= Unit
        /\ directional'.shares = all + n /\ directional'.notional = cost + k
    BY BacksTypes
  <1>4. cost <= all * Unit /\ 100 * spent <= x * cost /\ 100 * spent <= y * (all * Unit - cost)
    BY DEF TailInv, TailIsFunded
  <1>5. tail'.notional = spent
    OBVIOUS
  <1> HIDE DEF x, y, spent, all, cost
  <1>6. k <= n * Unit /\ n * Unit \in Nat /\ all * Unit \in Nat /\ (all + n) * Unit = all * Unit + n * Unit
    <2>1. Px(t) * n <= Unit * n
      BY <1>3, MulMono
    <2> QED BY <1>2, <1>3, <2>1
  <1> HIDE DEF k
  <1>7. cost + k <= (all + n) * Unit
    BY <1>2, <1>3, <1>4, <1>6
  <1>8. 100 * spent <= x * (cost + k)
    <2>1. cost * x <= (cost + k) * x
      BY <1>1, <1>2, <1>3, MulMono
    <2> QED BY <1>1, <1>2, <1>3, <1>4, <2>1
  <1>9. 100 * spent <= y * ((all + n) * Unit - (cost + k))
    <2> DEFINE u == all * Unit - cost
               v == (all + n) * Unit - (cost + k)
    <2>1. u \in Int /\ v \in Int /\ u <= v
      BY <1>2, <1>3, <1>6
    <2> HIDE DEF u, v
    <2>2. u * y <= v * y
      BY <1>1, <2>1, MulMono
    <2>3. 100 * spent <= y * u
      BY <1>4 DEF u
    <2>4. 100 * spent <= y * v
      BY <1>1, <1>2, <2>1, <2>2, <2>3
    <2> QED BY <2>4 DEF v
  <1> QED BY <1>3, <1>5, <1>7, <1>8, <1>9 DEF TailInv, TailIsFunded, x, y
\* Lane 6 spends no more than the terms allow of what is loaded now.
LEMMA ConvexTailFunds ==
  ASSUME SessionTypes, BrTypes, SideInv, TailInv, ConvexTail
  PROVE  TailInv'
  <1>1. directional' = directional
    BY DEF ConvexTail
  <1>2. CASE UNCHANGED <<open, sent, tail>>
    BY <1>1, <1>2 DEF TailInv, TailIsFunded
  <1>3. CASE \E terms \in C.terms, n \in Nat :
              /\ directional.side \in Tokens /\ tail.clips < C.maxClips
              /\ TailClip(terms) \in Int /\ TailClip(terms) > 0 /\ TailWanted
              /\ n * Px(TailToken) <= TailClip(terms)
              /\ Send({Request("br2_convex_tail", TailToken, n)})
              /\ tail' = [clips |-> tail.clips + 1, last |-> clock, skew2 |-> Abs(Skew2),
                          notional |-> tail.notional + n * Px(TailToken)]
    <2>1. PICK terms \in C.terms, n \in Nat :
              /\ TailClip(terms) \in Int /\ TailClip(terms) > 0 /\ TailWanted
              /\ n * Px(TailToken) <= TailClip(terms)
              /\ tail' = [clips |-> tail.clips + 1, last |-> clock, skew2 |-> Abs(Skew2),
                          notional |-> tail.notional + n * Px(TailToken)]
      BY <1>3
    <2> DEFINE x == Max({u.spendPct : u \in C.terms})
               y == Max({u.upsidePct : u \in C.terms})
               clip == TailClip(terms)
               all == directional.shares
               cost == directional.notional
               up == all * Unit - cost
               spent == tail.notional + n * Px(TailToken)
    <2>2. cost <= all * Unit
      BY DEF TailInv
    <2>3. /\ 100 * (tail.notional + clip) <= terms.spendPct * cost
          /\ 100 * (tail.notional + clip) <= terms.upsidePct * up
      BY <2>1, <2>2, ClipIsFunded
    <2>4. /\ x \in Nat /\ y \in Nat /\ terms.spendPct \in Nat /\ terms.upsidePct \in Nat
          /\ terms.spendPct <= x /\ terms.upsidePct <= y
      BY TailTerm
    <2>5. cost \in Nat /\ up \in Nat
      <3>1. cost \in Nat /\ all \in Nat /\ Unit \in Nat
        BY SessionAssumption DEF BrTypes
      <3>2. all * Unit \in Nat
        BY <3>1
      <3> HIDE DEF all, cost
      <3> QED BY <2>2, <3>1, <3>2
    <2>6. /\ spent \in Nat /\ clip \in Int /\ tail.notional \in Nat
          /\ spent <= tail.notional + clip
      <3>1. tail.notional \in Nat /\ n * Px(TailToken) \in Nat
        BY PxBounds DEF BrTypes
      <3> HIDE DEF clip
      <3> QED BY <2>1, <3>1 DEF clip
    <2>7. tail'.notional = spent
      BY <2>1
    <2> HIDE DEF x, y, clip, cost, up, spent
    <2>8. terms.spendPct * cost <= x * cost /\ terms.upsidePct * up <= y * up
      BY <2>4, <2>5, MulMono
    <2>9. /\ terms.spendPct * cost \in Int /\ x * cost \in Int
          /\ terms.upsidePct * up \in Int /\ y * up \in Int
      BY <2>4, <2>5
    <2>10. 100 * spent <= x * cost /\ 100 * spent <= y * up
      BY <2>3, <2>6, <2>8, <2>9
    <2> QED BY <1>1, <2>2, <2>7, <2>10 DEF TailInv, TailIsFunded, x, y, cost, up
  <1> QED BY <1>2, <1>3, ConvexTailDoes

\* Lane 6 buys against the loaded side.
LEMMA ConvexTailSide ==
  ASSUME SessionTypes, BrTypes, SideInv, ConvexTail
  PROVE  SideInv'
  <1>1. directional' = directional
    BY DEF ConvexTail
  <1>2. CASE UNCHANGED <<open, sent, tail>>
    BY <1>1, <1>2 DEF SideInv
  <1>3. CASE \E terms \in C.terms, n \in Nat :
              /\ directional.side \in Tokens /\ tail.clips < C.maxClips
              /\ TailClip(terms) \in Int /\ TailClip(terms) > 0 /\ TailWanted
              /\ n * Px(TailToken) <= TailClip(terms)
              /\ Send({Request("br2_convex_tail", TailToken, n)})
              /\ tail' = [clips |-> tail.clips + 1, last |-> clock, skew2 |-> Abs(Skew2),
                          notional |-> tail.notional + n * Px(TailToken)]
    <2>1. PICK n : directional.side \in Tokens /\ Send({Request("br2_convex_tail", TailToken, n)})
      BY <1>3
    <2> DEFINE R == {Request("br2_convex_tail", TailToken, n)}
    <2>2. sent' = sent \cup {[tag |-> r.tag, token |-> r.token] : r \in R}
      BY <2>1 DEF Send
    <2>3. \A r \in R : r.tag = "br2_convex_tail" /\ r.token = TailToken
      BY DEF Request
    <2> HIDE DEF R
    <2>4. \A r \in sent' : r \in sent \/ (r.tag = "br2_convex_tail" /\ r.token = Other(directional.side))
      BY <2>2, <2>3 DEF TailToken
    <2>5. sent \subseteq sent' /\ directional.side # NoToken
      BY <2>1, <2>2 DEF NoToken, Tokens
    <2>6. \A r \in sent' : r.tag \in LoadTags => r \in sent
      BY <2>4 DEF LoadTags
    <2> QED BY <1>1, <2>4, <2>5, <2>6 DEF SideInv
  <1> QED BY <1>2, <1>3, ConvexTailDoes

-----------------------------------------------------------------------------
(* The probe and the ladder.                                               *)

\* A rung is of the token that the ladder then stands on.
LEMMA LadderRequest ==
  ASSUME SessionTypes, LadderInv, NEW tag \in LadderTags, NEW n, Send({Request(tag, Target, n)}),
         probe'.side = Target, probe.side \in {NoToken, Target}
  PROVE  \A r \in sent' : r.tag \in LadderTags => r.token = probe'.side
  <1> DEFINE R == {Request(tag, Target, n)}
  <1>1. sent' = sent \cup {[tag |-> r.tag, token |-> r.token] : r \in R}
    BY DEF Send
  <1>2. \A r \in R : r.token = Target
    BY DEF Request
  <1> HIDE DEF R
  <1>3. \A r \in sent' : r \in sent \/ r.token = Target
    BY <1>1, <1>2
  <1>4. \A r \in sent : r.tag \in LadderTags => r.token = Target
    <2> SUFFICES ASSUME NEW r \in sent, r.tag \in LadderTags PROVE r.token = Target
      OBVIOUS
    <2>1. r.token = probe.side /\ r.token \in Tokens
      BY DEF LadderInv, SessionTypes
    <2> QED BY <2>1 DEF Tokens, NoToken
  <1> QED BY <1>3, <1>4

\* Time has not passed the probe, so that no rung was sent before it.
LEMMA EarlyProbeLadder ==
  ASSUME SessionTypes, BrTypes, LadderInv, EarlyProbe, Steady PROVE LadderInv'
  <1>1. CASE ProbeShares > 0
    <2>1. /\ Send({Request("br2_early_dir", Target, ProbeShares)})
          /\ probe' = [probe EXCEPT !.early = TRUE, !.side = Target, !.mid2 = Mid2]
      BY <1>1 DEF EarlyProbe
    <2>2. probe'.side = Target /\ probe'.early
      BY <2>1 DEF BrTypes
    <2>3. ~probe.early /\ clock <= BrConfig.probe.earlyEnd
      BY <1>1 DEF ProbeShares
    <2>4. probe.side = NoToken
      BY <2>3, SessionFacts, BrTunables DEF LadderInv
    <2>5. \A r \in sent' : r.tag \in LadderTags => r.token = probe'.side
      <3>1. "br2_early_dir" \in LadderTags
        BY DEF LadderTags
      <3> QED BY <2>1, <2>2, <2>4, <3>1, LadderRequest
    <2> QED BY <2>2, <2>5 DEF LadderInv
  <1>2. CASE ~(ProbeShares > 0)
    BY <1>2 DEF EarlyProbe, Quiet, LadderInv, Steady
  <1> QED BY <1>1, <1>2

\* The mid ladder keeps to the token of its rungs.
LEMMA MidLadderLadder ==
  ASSUME SessionTypes, BrTypes, LadderInv, MidLadder, Steady PROVE LadderInv'
  <1>1. CASE RungShares > 0
    <2>1. /\ Send({Request("br2_mid_ladder", Target, RungShares)})
          /\ probe' = [probe EXCEPT !.side = Target, !.mid2 = Mid2, !.rungs = @ + 1]
      BY <1>1 DEF MidLadder
    <2>2. probe'.side = Target
      BY <2>1 DEF BrTypes
    <2>3. clock > BrConfig.probe.earlyEnd /\ probe.side \in {NoToken, Target}
      BY <1>1 DEF RungShares
    <2>4. \A r \in sent' : r.tag \in LadderTags => r.token = probe'.side
      <3>1. "br2_mid_ladder" \in LadderTags
        BY DEF LadderTags
      <3> QED BY <2>1, <2>2, <2>3, <3>1, LadderRequest
    <2> QED BY <2>3, <2>4 DEF LadderInv, Steady
  <1>2. CASE ~(RungShares > 0)
    BY <1>2 DEF MidLadder, Quiet, LadderInv, Steady
  <1> QED BY <1>1, <1>2
-----------------------------------------------------------------------------
(* The books of the late favourite.                                        *)

\* Another lane's load leaves them within the directional ones.
LEMMA BacksFavourite ==
  ASSUME SessionTypes, BrTypes, FavouriteInv, favourite' = favourite,
         NEW tag, NEW t, NEW n, Backs(tag, t, n)
  PROVE  FavouriteInv'
  <1> DEFINE k == n * Px(t)
  <1>1. /\ directional'.side = t /\ n \in Nat /\ k \in Nat
        /\ directional'.shares = directional.shares + n
        /\ directional'.notional = directional.notional + k
    BY BacksTypes
  <1>2. directional.side \in {NoToken, t}
    BY DEF Backs
  <1>3. /\ favourite.shares \in Nat /\ favourite.notional \in Nat
        /\ directional.shares \in Nat /\ directional.notional \in Nat
    BY DEF BrTypes
  <1> HIDE DEF k
  <1>4. favourite.shares <= directional'.shares /\ favourite.notional <= directional'.notional
    BY <1>1, <1>3 DEF FavouriteInv, FavouriteAccounts
  <1>5. favourite.clips > 0 => favourite.side = directional'.side
    <2> SUFFICES ASSUME favourite.clips > 0 PROVE favourite.side = t
      BY <1>1
    <2>1. favourite.side = directional.side /\ favourite.side \in Tokens
      BY DEF FavouriteInv, FavouriteAccounts
    <2> QED BY <1>2, <2>1 DEF Tokens, NoToken
  <1> QED BY <1>4, <1>5 DEF FavouriteInv, FavouriteAccounts

\* A clip is added to all of them: the side is the same, or it is the first.
LEMMA ClipIsBooked ==
  ASSUME SessionTypes, BrTypes, FavouriteInv,
         NEW levels \in 1..(F.maxClips - favourite.clips), NEW n \in Nat,
         RecordFavourite(levels, n), Backs("br2_late_favourite_load", Favoured, n)
  PROVE  FavouriteInv'
  <1> DEFINE px == Px(Favoured)
             k == n * px
             fs == favourite.shares
             fn == favourite.notional
             peak == favourite.peak
  <1>1. /\ directional'.side = Favoured /\ k \in Nat /\ px \in Nat /\ Favoured \in Tokens
        /\ directional'.shares = directional.shares + n
        /\ directional'.notional = directional.notional + k
    BY BacksTypes
  <1>2. directional.side \in {NoToken, Favoured}
    BY DEF Backs
  <1>3. /\ favourite'.side = Favoured
        /\ favourite'.clips = favourite.clips + levels
        /\ favourite'.shares = fs + n /\ favourite'.notional = fn + k
        /\ favourite'.peak \in Nat /\ favourite'.peak >= px
        /\ SameFavourite => favourite'.peak >= peak
        /\ favourite'.side_shares = (IF SameFavourite THEN favourite.side_shares ELSE 0) + n
        /\ favourite'.side_notional = (IF SameFavourite THEN favourite.side_notional ELSE 0) + k
    BY RecordFavouriteTypes
  <1>4. /\ fs \in Nat /\ fn \in Nat /\ peak \in Nat /\ favourite.clips \in Nat
        /\ directional.shares \in Nat /\ directional.notional \in Nat
        /\ favourite.side_shares = fs /\ favourite.side_notional = fn
        /\ fs <= directional.shares /\ fn <= directional.notional /\ fn <= peak * fs
    BY BrTunables DEF BrTypes, FavouriteInv, FavouriteAccounts
  <1> HIDE DEF k, px, fs, fn, peak
  <1>5. CASE favourite.clips > 0
    <2>1. SameFavourite
      <3>1. favourite.side = directional.side /\ favourite.side \in Tokens
        BY <1>5 DEF FavouriteInv, FavouriteAccounts
      <3> QED BY <1>2, <3>1 DEF SameFavourite, Tokens, NoToken
    <2>2. favourite'.side_shares = fs + n /\ favourite'.side_notional = fn + k /\ favourite'.peak >= peak
      BY <1>3, <1>4, <2>1
    <2>3. fn + k <= favourite'.peak * (fs + n)
      <3> DEFINE best == favourite'.peak
      <3>1. best \in Nat /\ best >= peak /\ best >= px
        BY <1>3, <2>2
      <3> HIDE DEF best
      <3>2. peak * fs <= best * fs /\ px * n <= best * n
        BY <1>1, <1>4, <3>1, MulMono
      <3>3. best * (fs + n) = best * fs + best * n /\ k = px * n
        BY <1>1, <1>4, <3>1 DEF k
      <3>4. /\ peak * fs \in Int /\ best * fs \in Int /\ px * n \in Int /\ best * n \in Int
        BY <1>1, <1>4, <3>1
      <3>5. fn + k <= best * (fs + n)
        BY <1>4, <3>2, <3>3, <3>4
      <3> QED BY <3>5 DEF best
    <2>4. FavouriteAccounts'
      BY <1>1, <1>3, <1>4, <2>2, <2>3 DEF FavouriteAccounts
    <2> QED BY <1>1, <1>3, <1>4, <2>4 DEF FavouriteInv
  <1>6. CASE ~(favourite.clips > 0)
    <2>1. favourite.side = NoToken /\ peak = 0 /\ fs = 0 /\ fn = 0
      BY <1>4, <1>6 DEF FavouriteInv, peak, fs, fn
    <2>2. ~SameFavourite
      BY <1>1, <2>1 DEF SameFavourite, Tokens, NoToken
    <2>3. favourite'.side_shares = n /\ favourite'.side_notional = k
      BY <1>1, <1>3, <2>2
    <2>4. k <= favourite'.peak * n
      <3> DEFINE best == favourite'.peak
      <3>1. best \in Nat /\ best >= px
        BY <1>3
      <3> HIDE DEF best
      <3>2. px * n <= best * n /\ k = px * n
        BY <1>1, <3>1, MulMono DEF k
      <3>3. k <= best * n
        BY <3>2
      <3> QED BY <3>3 DEF best
    <2>5. FavouriteAccounts'
      BY <1>1, <1>3, <1>4, <2>1, <2>3, <2>4 DEF FavouriteAccounts
    <2> QED BY <1>1, <1>3, <1>4, <2>5 DEF FavouriteInv
  <1> QED BY <1>5, <1>6

-----------------------------------------------------------------------------
(* The trackers of the skew.                                               *)

\* The trackers of the skew begin, or begin again, with the events.
LEMMA BeginSkew ==
  ASSUME SessionTypes, BrTypes, SkewInv, Begin, Steady PROVE SkewInv'
  <1>1. CASE ~Quoted \/ ~InWindow
    BY <1>1 DEF Begin, SkewInv, Steady
  <1>2. CASE ~(~Quoted \/ ~InWindow)
    <2>1. /\ skew_first' = [t \in Tokens |-> Track(t)]
          /\ calm' = [t \in Tokens |-> IF Skewed(t) /\ calm[t] # Never THEN calm[t] ELSE clock]
          /\ clock' = clock
      BY <1>2 DEF Begin, Steady
    <2> SUFFICES ASSUME NEW t \in Tokens
                 PROVE  /\ calm'[t] <= clock
                        /\ (skew_first'[t] # Never => calm'[t] # Never /\ calm'[t] <= skew_first'[t])
      BY <2>1 DEF SkewInv
    <2>2. /\ skew_first'[t] = Track(t) /\ calm'[t] = IF Skewed(t) /\ calm[t] # Never THEN calm[t] ELSE clock
      BY <2>1
    <2>3. /\ clock \in Int /\ clock # Never /\ calm[t] \in Int /\ skew_first[t] \in Int
          /\ calm[t] <= clock /\ (skew_first[t] # Never => calm[t] # Never /\ calm[t] <= skew_first[t])
      BY SessionFacts DEF SessionTypes, SkewInv, BrTypes, Never
    <2>4. CASE Skewed(t) /\ calm[t] # Never
      BY <2>2, <2>3, <2>4 DEF Track
    <2>5. CASE ~(Skewed(t) /\ calm[t] # Never)
      BY <2>2, <2>3, <2>5 DEF Track
    <2> QED BY <2>4, <2>5
  <1> QED BY <1>1, <1>2
-----------------------------------------------------------------------------
(* The cap of the overlay.                                                 *)

\* The numbers of the cap.
LEMMA OverlayNumbers ==
  ASSUME BrTypes
  PROVE  /\ LargestLoad \in Nat /\ H.overlayPct \in Nat
         /\ base_notional \in Nat /\ directional.notional \in Nat
         /\ H.overlayPct * base_notional \in Nat
  <1>1. LargestLoad \in Nat /\ H.overlayPct \in Nat
    BY LoadsAreBounded, BrTunables
  <1>2. base_notional \in Nat /\ directional.notional \in Nat
    BY DEF BrTypes
  <1> QED BY <1>1, <1>2

\* A load starts under the cap and is no larger than the largest.
LEMMA BacksOverlay ==
  ASSUME SessionTypes, BrTypes, base_notional' = base_notional, NEW tag, NEW t, NEW n, Backs(tag, t, n)
  PROVE  OneLoadPastTheCap'
  <1> DEFINE k == n * Px(t)
             cap == H.overlayPct * base_notional
             cost == directional.notional
  <1>1. directional'.notional = cost + k /\ k \in Nat
    BY BacksTypes
  <1>2. LargestLoad \in Nat /\ cap \in Nat /\ cost \in Nat
    BY OverlayNumbers
  <1>3. k <= LargestLoad /\ (H.enabled => 100 * cost < cap)
    BY DEF Backs, DirectionalOverlayAllowed
  <1> HIDE DEF k, cap, cost
  <1>4. H.enabled => 100 * (cost + k) < cap + 100 * LargestLoad
    BY <1>1, <1>2, <1>3
  <1>5. H.enabled => 100 * directional'.notional < H.overlayPct * base_notional' + 100 * LargestLoad
    BY <1>1, <1>4 DEF cap
  <1> QED BY <1>5 DEF OneLoadPastTheCap

\* The base can only grow, and the cap with it.
LEMMA HedgeBaseOverlay ==
  ASSUME SessionTypes, BrTypes, OneLoadPastTheCap, HedgeBase
  PROVE  OneLoadPastTheCap'
  <1> DEFINE cap == H.overlayPct * base_notional
             raised == H.overlayPct * base_notional'
  <1>1. directional' = directional
    BY DEF HedgeBase
  <1>2. /\ LargestLoad \in Nat /\ cap \in Nat
        /\ H.overlayPct \in Nat /\ base_notional \in Nat /\ directional.notional \in Nat
    BY OverlayNumbers
  <1>3. raised \in Nat /\ cap <= raised
    <2>1. base_notional' \in Nat /\ base_notional <= base_notional'
      BY HedgeBaseTypes DEF BrTypes
    <2>2. base_notional * H.overlayPct <= base_notional' * H.overlayPct
      BY <1>2, <2>1, MulMono
    <2> QED BY <1>2, <2>1, <2>2
  <1> HIDE DEF cap, raised
  <1>4. H.enabled /\ directional'.notional > 0 => 100 * directional'.notional < raised + 100 * LargestLoad
    <2>1. H.enabled /\ directional.notional > 0 => 100 * directional.notional < cap + 100 * LargestLoad
      BY DEF OneLoadPastTheCap, cap
    <2> QED BY <1>1, <1>2, <1>3, <2>1
  <1> QED BY <1>4 DEF OneLoadPastTheCap, raised

-----------------------------------------------------------------------------
(* BonereaperLite's entry and its hedge; the one-shot strategies.          *)

\* A reversed sign points to the other token.
LEMMA HedgeToken ==
  ASSUME NEW c \in Int, Abs(c) = 2, NEW entry \in {-1, 1}, Sign(c) # entry
  PROVE  Towards(c) = Other(Towards(entry))
  BY DEF Abs, Sign, Towards, Other

\* BonereaperLite hedges once, away from its entry.
LEMMA LiteHolds ==
  ASSUME SessionTypes, LiteInv, BonereaperLite, kind' = kind PROVE LiteInv'
  <1>1. CASE Hold
    BY <1>1 DEF Hold, LiteInv
  <1>2. CASE ~Hold
    <2>1. Send(LiteRequests)
      BY <1>2 DEF BonereaperLite
    <2>2. /\ memory'.fired = (memory.fired \/ LitePairs)
          /\ memory'.entrySign = IF LitePairs THEN Sign(sig.composite) ELSE memory.entrySign
          /\ memory'.hedged = (memory.hedged \/ LiteHedges)
      BY <1>2, <2>1, LiteRemembers
    <2>3. sent' = sent \cup {[tag |-> r.tag, token |-> r.token] : r \in LiteRequests}
      BY <2>1 DEF Send
    <2>4. sig.composite \in Int /\ Sign(sig.composite) \in {-1, 1} /\ kind = "bonereaper_lite"
      BY SessionFacts, SignIsOne DEF BonereaperLite
    <2>5. LitePairs \in BOOLEAN /\ LiteHedges \in BOOLEAN /\ memory.fired \in BOOLEAN /\ memory.hedged \in BOOLEAN
      BY LiteGuards
    <2>6. LitePairs => ~memory.fired
      BY DEF LitePairs
    <2>7. memory'.entrySign \in {-1, 0, 1} /\ (memory'.fired => memory'.entrySign # 0)
      BY <2>2, <2>4, <2>5 DEF LiteInv
    <2>8. ASSUME NEW r \in LiteRequests, r.tag = "br_reversal_hedge"
          PROVE  LiteHedges /\ r.token = Towards(sig.composite)
      BY <2>8 DEF LiteRequests, Only, Request
    <2>9. ASSUME LitePairs, NEW t \in Tokens
          PROVE  \E r \in LiteRequests : r.tag = "br_paired" /\ r.token = t
      <3> DEFINE q == Request("br_paired", t, SharesCapped(T.clip, BuyPx(t, 1)))
      <3>1. q \in LiteRequests
        BY <2>9 DEF LiteRequests, Only
      <3>2. q.tag = "br_paired" /\ q.token = t
        BY DEF Request
      <3> QED BY <3>1, <3>2
    <2>10. ASSUME memory'.fired, NEW t \in Tokens
           PROVE  \E r \in sent' : r.tag = "br_paired" /\ r.token = t
      <3>1. CASE memory.fired
        <4>1. \E r \in sent : r.tag = "br_paired" /\ r.token = t
          BY <2>4, <3>1 DEF LiteInv
        <4> QED BY <2>3, <4>1
      <3>2. CASE LitePairs
        <4>1. PICK q \in LiteRequests : q.tag = "br_paired" /\ q.token = t
          BY <2>9, <3>2
        <4>2. [tag |-> q.tag, token |-> q.token] \in sent'
          BY <2>3, <4>1
        <4> QED BY <4>1, <4>2
      <3> QED BY <2>2, <2>5, <2>10, <3>1, <3>2
    <2>11. ASSUME NEW r \in sent', r.tag = "br_reversal_hedge"
           PROVE  memory'.fired /\ memory'.hedged /\ r.token = Other(Towards(memory'.entrySign))
      <3>1. CASE r \in sent
        <4>1. memory.fired /\ memory.hedged /\ r.token = Other(Towards(memory.entrySign))
          BY <2>11, <3>1 DEF LiteInv
        <4> QED BY <2>2, <2>6, <4>1
      <3>2. CASE r \notin sent
        <4>1. PICK q \in LiteRequests : r = [tag |-> q.tag, token |-> q.token]
          BY <2>3, <3>2
        <4>2. LiteHedges /\ r.token = Towards(sig.composite)
          BY <2>8, <2>11, <4>1
        <4>3. /\ memory.fired \/ LitePairs
              /\ Abs(sig.composite) = 2
              /\ Sign(sig.composite) # IF LitePairs THEN Sign(sig.composite) ELSE memory.entrySign
          BY <4>2 DEF LiteHedges
        <4>4. memory'.fired /\ memory'.hedged /\ Sign(sig.composite) # memory'.entrySign
          BY <2>2, <4>2, <4>3
        <4>5. memory'.entrySign \in {-1, 1}
          BY <2>7, <4>4
        <4> QED BY <2>4, <4>2, <4>3, <4>4, <4>5, HedgeToken
      <3> QED BY <3>1, <3>2
    <2> QED BY <2>7, <2>10, <2>11 DEF LiteInv
  <1> QED BY <1>1, <1>2

\* A strategy of another kind leaves the entry sign and the hedge alone.
LEMMA OtherKindsHoldLite ==
  ASSUME SessionTypes, LiteInv, KindInv, OnEvent, kind # "bonereaper_lite" PROVE LiteInv'
  <1>1. Asks(OtherTags) /\ kind' = kind
    BY EventAsks DEF OnEvent
  <1>2. \A r \in sent' : r \in sent \/ r.tag \in OtherTags
    BY <1>1, AskingTags
  <1>3. \A r \in sent' : r.tag # "br_reversal_hedge"
    BY <1>2 DEF KindInv, LiteTags, OtherTags
  <1> QED BY <1>1, <1>3 DEF LiteInv
\* A one-shot strategy that has asked holds; when it asks, it is spent.
LEMMA ShotsHold ==
  ASSUME SessionTypes, ShotInv, OnEvent, kind \in OneShots
  PROVE  /\ ShotInv'
         /\ sent # {} => UNCHANGED <<open, sent>>
  <1>1. memory \in Memories /\ Spent.fired
    BY SessionFacts, SpentIsMemory
  <1>2. kind' = kind
    BY DEF OnEvent
  <1>3. BuyYesAtOpen \/ SpotMomentumFollower \/ LateBigBet \/ LateConvexTail
    BY DEF OneShots, OnEvent, Noop, PairedMm, DeltaNeutralMm, UnlawfulRecycler, LateConfirmation,
           ReactiveDirectional, BonereaperLite
  <1>4. CASE memory.fired
    <2>1. Hold
      BY <1>3, <1>4 DEF BuyYesAtOpen, SpotMomentumFollower, LateBigBet, LateConvexTail
    <2> QED BY <1>2, <1>4, <2>1 DEF Hold, ShotInv
  <1>5. CASE ~memory.fired
    <2>1. sent = {}
      BY <1>5 DEF ShotInv
    <2>2. Hold \/ memory' = Spent
      BY <1>3 DEF BuyYesAtOpen, SpotMomentumFollower, LateBigBet, LateConvexTail, TakeOrHold, Refuse
    <2> QED BY <1>1, <2>1, <2>2 DEF Hold, ShotInv
  <1> QED BY <1>1, <1>4, <1>5 DEF Memories

-----------------------------------------------------------------------------
(* The invariant.                                                          *)

IInv ==
  /\ TypeInv /\ KindInv
  /\ SideInv /\ LadderInv /\ FavouriteInv /\ TailInv /\ SkewInv /\ OneLoadPastTheCap
  /\ LiteInv /\ ShotInv

\* The types hold at the start.
LEMMA InitTypes == Init => TypeInv
  <1> SUFFICES ASSUME Init PROVE TypeInv
    OBVIOUS
  <1>1. SessionInit /\ kind \in Kinds /\ memory = NewMemory /\ BrInit
    BY DEF Init, StrategiesInit
  <1>2. SessionTypes
    <2>1. memory \in Memories
      BY <1>1 DEF NewMemory, Memories, LongAgo
    <2>2. sig \in Signals /\ 0 \in 0..MaxEvents
      BY <1>1, SessionAssumption DEF SessionInit
    <2> QED BY <1>1, <2>1, <2>2 DEF SessionInit, SessionTypes
  <1>3. BrTypes
    <2>1. /\ P.maxOrders \in Nat /\ BrConfig.probe.maxRungs \in Nat /\ L.maxFires \in Nat
          /\ S.maxClips \in Nat /\ F.maxClips \in Nat /\ C.maxClips \in Nat
      BY BrTunables
    <2>2. /\ participation \in [emitted: [Tokens -> 0..P.maxOrders], last: [Tokens -> Int]]
          /\ base_notional \in Nat
          /\ skew_first \in [Tokens -> Int] /\ calm \in [Tokens -> Int]
      BY <1>1, <2>1 DEF BrInit, Never
    <2>3. /\ probe \in [early: BOOLEAN, side: AnyToken, mid2: Int, rungs: 0..BrConfig.probe.maxRungs]
          /\ late \in [fires: 0..L.maxFires, last: Int]
          /\ directional \in [side: AnyToken, shares: Nat, notional: Nat]
          /\ skew_load \in [clips: 0..S.maxClips, last: Int]
      BY <1>1, <2>1 DEF BrInit, Never, AnyToken
    <2>4. /\ favourite \in [side: AnyToken, clips: 0..F.maxClips, last: Int, shares: Nat, notional: Nat,
                            peak: Nat, side_shares: Nat, side_notional: Nat]
          /\ tail \in [clips: 0..C.maxClips, last: Int, skew2: Int, notional: Nat]
      BY <1>1, <2>1 DEF BrInit, Never, AnyToken
    <2> QED BY <2>2, <2>3, <2>4 DEF BrTypes
  <1> QED BY <1>2, <1>3 DEF TypeInv

\* The inductive invariant holds at the start.
LEMMA InitHolds == Init => IInv
  <1> SUFFICES ASSUME Init PROVE IInv
    OBVIOUS
  <1>1. TypeInv
    BY InitTypes
  <1>2. SessionInit /\ memory = NewMemory /\ BrInit /\ sent = {} /\ clock = -1
    BY DEF Init, StrategiesInit, SessionInit
  <1>3. KindInv /\ LiteInv /\ ShotInv
    BY <1>2 DEF KindInv, LiteInv, ShotInv, NewMemory
  <1>4. directional.side = NoToken /\ directional.shares = 0 /\ directional.notional = 0
    BY <1>2 DEF BrInit
  <1>5. SideInv
    BY <1>2, <1>4 DEF SideInv
  <1>6. LadderInv
    BY <1>2 DEF LadderInv, BrInit
  <1>7. /\ favourite.clips = 0 /\ favourite.side = NoToken /\ favourite.shares = 0
        /\ favourite.notional = 0 /\ favourite.peak = 0
        /\ favourite.side_shares = 0 /\ favourite.side_notional = 0
    BY <1>2 DEF BrInit
  <1>8. FavouriteInv
    BY <1>4, <1>7 DEF FavouriteInv, FavouriteAccounts
  <1>9. tail.notional = 0
    BY <1>2 DEF BrInit
  <1>10. TailInv
    <2>1. Unit \in Nat
      BY SessionAssumption
    <2> DEFINE x == Max({u.spendPct : u \in C.terms})
               y == Max({u.upsidePct : u \in C.terms})
    <2>2. x \in Nat /\ y \in Nat
      BY TailTerm
    <2> HIDE DEF x, y
    <2>3. 100 * 0 <= x * 0 /\ 100 * 0 <= y * (0 * Unit - 0) /\ 0 <= 0 * Unit
      BY <2>1, <2>2
    <2> QED BY <1>4, <1>9, <2>3 DEF TailInv, TailIsFunded, x, y
  <1>11. SkewInv
    BY <1>2 DEF SkewInv, BrInit, Never
  <1>12. OneLoadPastTheCap
    BY <1>4 DEF OneLoadPastTheCap
  <1> QED BY <1>1, <1>3, <1>5, <1>6, <1>8, <1>10, <1>11, <1>12 DEF IInv
\* The market moves the clock, the book and the fills.
LEMMA MarketHolds ==
  ASSUME IInv, Arrive("strategy"), UNCHANGED <<strategy, br>> PROVE IInv'
  <1>0. SessionTypes /\ BrTypes
    BY DEF IInv, TypeInv
  <1>1. SessionTypes'
    BY <1>0, ArriveTypes
  <1>2. /\ UNCHANGED <<participation, base_notional, probe, late, directional, skew_load, skew_first,
                       favourite, tail, calm>>
        /\ UNCHANGED <<kind, memory, sent>>
    BY DEF br, strategy, Arrive
  <1>3. BrTypes'
    BY <1>0, <1>2 DEF BrTypes
  <1>4. clock \in Int /\ clock' \in Int /\ clock <= clock'
    <2>1. PICK gap \in Gaps : clock' = clock + gap
      BY DEF Arrive
    <2> QED BY <1>0, <2>1, SessionAssumption DEF SessionTypes
  <1>5. KindInv'
    BY <1>2 DEF IInv, KindInv, BrInit
  <1>6. SideInv'
    BY <1>2 DEF IInv, SideInv
  <1>7. LadderInv'
    <2>1. BrConfig.probe.earlyEnd \in Nat
      BY BrTunables
    <2> QED BY <1>2, <1>4, <2>1 DEF IInv, LadderInv
  <1>8. FavouriteInv'
    BY <1>2 DEF IInv, FavouriteInv, FavouriteAccounts
  <1>9. TailInv'
    BY <1>2 DEF IInv, TailInv, TailIsFunded
  <1>10. SkewInv'
    <2> SUFFICES ASSUME NEW t \in Tokens
                 PROVE  /\ calm'[t] <= clock'
                        /\ (skew_first'[t] # Never => calm'[t] # Never /\ calm'[t] <= skew_first'[t])
      BY DEF SkewInv
    <2>1. /\ calm[t] \in Int /\ calm[t] <= clock
          /\ (skew_first[t] # Never => calm[t] # Never /\ calm[t] <= skew_first[t])
      BY <1>0 DEF BrTypes, IInv, SkewInv
    <2> QED BY <1>2, <1>4, <2>1
  <1>11. OneLoadPastTheCap'
    BY <1>2 DEF IInv, OneLoadPastTheCap
  <1>12. LiteInv' /\ ShotInv'
    BY <1>2 DEF IInv, LiteInv, ShotInv
  <1> QED BY <1>1, <1>3, <1>5, <1>6, <1>7, <1>8, <1>9, <1>10, <1>11, <1>12 DEF IInv, TypeInv

\* A strategy other than BonereaperV2 is handed an event.
LEMMA EventHolds ==
  ASSUME IInv, OnEvent, UNCHANGED br PROVE IInv'
  <1>0. SessionTypes /\ BrTypes /\ KindInv /\ SideInv /\ LadderInv /\ LiteInv /\ ShotInv
    BY DEF IInv, TypeInv
  <1>1. SessionTypes'
    BY <1>0, EventSession
  <1>2. /\ UNCHANGED <<participation, base_notional, probe, late, directional, skew_load, skew_first,
                       favourite, tail, calm>>
        /\ UNCHANGED <<clock, kind>>
    BY DEF br, OnEvent
  <1>3. BrTypes'
    BY <1>0, <1>2 DEF BrTypes
  <1>4. PICK tags : /\ Asks(tags)
                    /\ IF kind = "bonereaper_lite" THEN tags = LiteTags ELSE tags = OtherTags
    BY <1>0, EventAsks
  <1>5. /\ tags \cap LoadTags = {} /\ tags \cap LadderTags = {} /\ "br2_convex_tail" \notin tags
        /\ kind # "bonereaper_lite" => tags \cap LiteTags = {}
    BY <1>4 DEF LiteTags, OtherTags, LoadTags, LadderTags
  <1>6. KindInv'
    <2>1. kind # "bonereaper_v2" /\ BrInit /\ BrInit'
      BY <1>0, <1>2, EventAsks DEF KindInv, BrInit
    <2>2. \A r \in sent' : r \in sent \/ r.tag \in tags
      BY <1>4, AskingTags
    <2>3. \A r \in sent' : r.tag \notin LoadTags \cup LadderTags \cup {"br2_convex_tail"}
      BY <1>0, <1>5, <2>1, <2>2 DEF KindInv
    <2>4. kind # "bonereaper_lite" => \A r \in sent' : r.tag \notin LiteTags
      BY <1>0, <1>5, <2>2 DEF KindInv
    <2> QED BY <1>2, <2>1, <2>3, <2>4 DEF KindInv
  <1>7. SideInv'
    BY <1>0, <1>2, <1>4, <1>5, SideFrame
  <1>8. LadderInv'
    <2>1. clock \in Int /\ clock' = clock /\ clock' >= clock
      BY <1>0, <1>2, SessionFacts
    <2> QED BY <1>0, <1>2, <1>4, <1>5, <2>1, LadderFrame
  <1>9. FavouriteInv' /\ TailInv' /\ SkewInv' /\ OneLoadPastTheCap'
    <2>1. FavouriteInv'
      BY <1>2 DEF IInv, FavouriteInv, FavouriteAccounts
    <2>2. TailInv'
      BY <1>2 DEF IInv, TailInv, TailIsFunded
    <2>3. SkewInv' /\ OneLoadPastTheCap'
      BY <1>2 DEF IInv, SkewInv, OneLoadPastTheCap
    <2> QED BY <2>1, <2>2, <2>3
  <1>10. LiteInv'
    <2>1. CASE kind = "bonereaper_lite"
      <3>1. BonereaperLite
        BY <1>0, <2>1, EventAsks
      <3> QED BY <1>0, <1>2, <3>1, LiteHolds
    <2>2. CASE kind # "bonereaper_lite"
      BY <1>0, <2>2, OtherKindsHoldLite
    <2> QED BY <2>1, <2>2
  <1>11. ShotInv'
    <2>1. CASE kind \in OneShots
      BY <1>0, <2>1, ShotsHold
    <2>2. CASE kind \notin OneShots
      BY <1>2, <2>2 DEF ShotInv
    <2> QED BY <2>1, <2>2
  <1> QED BY <1>1, <1>3, <1>6, <1>7, <1>8, <1>9, <1>10, <1>11 DEF IInv, TypeInv

-----------------------------------------------------------------------------
(* The steps of BonereaperV2.  A step that touches the books of no lane    *)
(* but its own leaves the rest of the invariant as it was.                 *)

V2Step == /\ SessionTypes /\ BrTypes /\ KindInv /\ SideInv /\ LadderInv /\ FavouriteInv
          /\ TailInv /\ SkewInv /\ OneLoadPastTheCap /\ LiteInv /\ ShotInv
          /\ kind = "bonereaper_v2" /\ Steady /\ UNCHANGED memory

\* The parts that only look at the kind, the memory and the clock.
LEMMA V2Shared ==
  ASSUME V2Step, NEW tags \in SUBSET Br2Tags, Asks(tags)
  PROVE  SessionTypes' /\ KindInv' /\ LiteInv' /\ ShotInv'
  <1>1. tags \cap LiteTags = {}
    BY DEF Br2Tags, LoadTags, LadderTags, LiteTags
  <1>2. memory' \in Memories /\ kind' = kind /\ kind \notin OneShots
    BY SessionFacts DEF V2Step, Steady, OneShots
  <1>3. SessionTypes'
    BY <1>2, AskingSession DEF V2Step
  <1>4. KindInv'
    BY <1>1, <1>2, KindFrame DEF V2Step
  <1>5. LiteInv'
    BY <1>1, <1>2, LiteFrame DEF V2Step
  <1>6. ShotInv'
    BY <1>2 DEF ShotInv
  <1> QED BY <1>3, <1>4, <1>5, <1>6

\* SideFrame for a step of BonereaperV2.
LEMMA V2Side ==
  ASSUME V2Step, directional' = directional, NEW tags, Asks(tags),
         tags \cap LoadTags = {}, "br2_convex_tail" \notin tags
  PROVE  SideInv'
  BY SideFrame DEF V2Step

\* LadderFrame for a step of BonereaperV2.
LEMMA V2Ladder ==
  ASSUME V2Step, probe' = probe, NEW tags, Asks(tags), tags \cap LadderTags = {}
  PROVE  LadderInv'
  <1>1. clock \in Int /\ clock' = clock /\ clock' >= clock
    BY SessionFacts DEF V2Step, Steady
  <1> QED BY <1>1, LadderFrame DEF V2Step

\* What a step that leaves books alone keeps of them.
LEMMA V2Books ==
  ASSUME V2Step
  PROVE  /\ UNCHANGED <<favourite, directional>> => FavouriteInv'
         /\ UNCHANGED <<tail, directional>> => TailInv'
         /\ UNCHANGED <<skew_first, calm>> => SkewInv'
         /\ UNCHANGED <<base_notional, directional>> => OneLoadPastTheCap'
  <1>1. UNCHANGED <<favourite, directional>> => FavouriteInv'
    BY DEF V2Step, FavouriteInv, FavouriteAccounts
  <1>2. UNCHANGED <<tail, directional>> => TailInv'
    BY DEF V2Step, TailInv, TailIsFunded
  <1>3. UNCHANGED <<skew_first, calm>> => SkewInv'
    BY DEF V2Step, SkewInv, Steady
  <1>4. UNCHANGED <<base_notional, directional>> => OneLoadPastTheCap'
    BY DEF V2Step, OneLoadPastTheCap
  <1> QED BY <1>1, <1>2, <1>3, <1>4
\* Every part of the invariant but those of the books a lane keeps.
LEMMA V2Rest ==
  ASSUME V2Step, NEW tags \in SUBSET Br2Tags, Asks(tags), BrTypes',
         SideInv', LadderInv', FavouriteInv', TailInv', SkewInv', OneLoadPastTheCap'
  PROVE  IInv'
  <1>1. SessionTypes' /\ KindInv' /\ LiteInv' /\ ShotInv'
    BY V2Shared
  <1> QED BY <1>1 DEF IInv, TypeInv

\* Begin keeps the inductive invariant.
LEMMA BeginHolds ==
  ASSUME V2Step, Begin PROVE IInv'
  <1>0. SessionTypes /\ BrTypes /\ SkewInv /\ Steady
    BY DEF V2Step
  <1>1. BrTypes'
    BY <1>0, BeginTypes
  <1>2. UNCHANGED <<directional, probe, favourite, tail, base_notional, open, sent>>
    BY DEF Begin
  <1>3. Asks({}) /\ {} \in SUBSET Br2Tags
    BY <1>2 DEF Asks
  <1>4. SkewInv'
    BY <1>0, BeginSkew
  <1>5. SideInv' /\ LadderInv'
    BY <1>2, <1>3, V2Side, V2Ladder
  <1>6. FavouriteInv' /\ TailInv' /\ OneLoadPastTheCap'
    BY <1>2, V2Books
  <1> QED BY <1>1, <1>3, <1>4, <1>5, <1>6, V2Rest

\* Participate keeps the inductive invariant.
LEMMA ParticipateHolds ==
  ASSUME V2Step, Participate PROVE IInv'
  <1>0. SessionTypes /\ BrTypes
    BY DEF V2Step
  <1>1. BrTypes' /\ Asks({"br2_participation"})
    BY <1>0, ParticipateTypes
  <1>2. UNCHANGED <<directional, probe, favourite, tail, base_notional, skew_first, calm>>
    BY DEF Participate
  <1>3. /\ {"br2_participation"} \in SUBSET Br2Tags /\ {"br2_participation"} \cap LoadTags = {}
        /\ {"br2_participation"} \cap LadderTags = {} /\ "br2_convex_tail" \notin {"br2_participation"}
    BY DEF Br2Tags, LoadTags, LadderTags
  <1>4. SideInv' /\ LadderInv'
    BY <1>1, <1>2, <1>3, V2Side, V2Ladder
  <1>5. FavouriteInv' /\ TailInv' /\ SkewInv' /\ OneLoadPastTheCap'
    BY <1>2, V2Books
  <1> QED BY <1>1, <1>3, <1>4, <1>5, V2Rest

\* HedgeBase keeps the inductive invariant.
LEMMA HedgeBaseHolds ==
  ASSUME V2Step, HedgeBase PROVE IInv'
  <1> DEFINE tags == {"br2_participation_hedged_base"}
  <1>0. SessionTypes /\ BrTypes /\ OneLoadPastTheCap
    BY DEF V2Step
  <1>1. BrTypes' /\ Asks(tags)
    BY <1>0, HedgeBaseTypes
  <1>2. UNCHANGED <<directional, probe, favourite, tail, skew_first, calm>>
    BY DEF HedgeBase
  <1>3. /\ tags \in SUBSET Br2Tags /\ tags \cap LoadTags = {}
        /\ tags \cap LadderTags = {} /\ "br2_convex_tail" \notin tags
    BY DEF Br2Tags, LoadTags, LadderTags
  <1> HIDE DEF tags
  <1>4. SideInv' /\ LadderInv'
    BY <1>1, <1>2, <1>3, V2Side, V2Ladder
  <1>5. FavouriteInv' /\ TailInv' /\ SkewInv' /\ OneLoadPastTheCap'
    BY <1>0, <1>2, V2Books, HedgeBaseOverlay
  <1> QED BY <1>1, <1>3, <1>4, <1>5, V2Rest

\* EarlyProbe keeps the inductive invariant.
LEMMA EarlyProbeHolds ==
  ASSUME V2Step, EarlyProbe PROVE IInv'
  <1> DEFINE tags == {"br2_early_dir"}
  <1>0. SessionTypes /\ BrTypes /\ LadderInv /\ Steady
    BY DEF V2Step
  <1>1. BrTypes' /\ Asks(tags)
    BY <1>0, EarlyProbeTypes
  <1>2. UNCHANGED <<directional, favourite, tail, base_notional, skew_first, calm>>
    BY DEF EarlyProbe
  <1>3. tags \in SUBSET Br2Tags /\ tags \cap LoadTags = {} /\ "br2_convex_tail" \notin tags
    BY DEF Br2Tags, LoadTags, LadderTags
  <1> HIDE DEF tags
  <1>4. SideInv' /\ LadderInv'
    BY <1>0, <1>1, <1>2, <1>3, V2Side, EarlyProbeLadder
  <1>5. FavouriteInv' /\ TailInv' /\ SkewInv' /\ OneLoadPastTheCap'
    BY <1>2, V2Books
  <1> QED BY <1>1, <1>3, <1>4, <1>5, V2Rest

\* MidLadder keeps the inductive invariant.
LEMMA MidLadderHolds ==
  ASSUME V2Step, MidLadder PROVE IInv'
  <1> DEFINE tags == {"br2_mid_ladder"}
  <1>0. SessionTypes /\ BrTypes /\ LadderInv /\ Steady
    BY DEF V2Step
  <1>1. BrTypes' /\ Asks(tags)
    BY <1>0, MidLadderTypes
  <1>2. UNCHANGED <<directional, favourite, tail, base_notional, skew_first, calm>>
    BY DEF MidLadder
  <1>3. tags \in SUBSET Br2Tags /\ tags \cap LoadTags = {} /\ "br2_convex_tail" \notin tags
    BY DEF Br2Tags, LoadTags, LadderTags
  <1> HIDE DEF tags
  <1>4. SideInv' /\ LadderInv'
    BY <1>0, <1>1, <1>2, <1>3, V2Side, MidLadderLadder
  <1>5. FavouriteInv' /\ TailInv' /\ SkewInv' /\ OneLoadPastTheCap'
    BY <1>2, V2Books
  <1> QED BY <1>1, <1>3, <1>4, <1>5, V2Rest

\* A load keeps one side, leaves the tail as well funded as it was, and passes
\* the cap of the overlay by less than itself.
LEMMA V2Backs ==
  ASSUME V2Step, UNCHANGED <<tail, base_notional>>, NEW tag \in LoadTags, NEW t, NEW n, Backs(tag, t, n)
  PROVE  SideInv' /\ TailInv' /\ OneLoadPastTheCap'
  <1>1. SessionTypes /\ BrTypes /\ SideInv /\ TailInv
    BY DEF V2Step
  <1> QED BY <1>1, BacksSide, BacksTail, BacksOverlay

\* A quiet lane requests nothing and moves no directional book.
LEMMA V2Refuses ==
  ASSUME V2Step, UNCHANGED <<tail, base_notional>>, Refuses
  PROVE  SideInv' /\ TailInv' /\ OneLoadPastTheCap' /\ (favourite' = favourite => FavouriteInv')
  <1>1. UNCHANGED <<open, sent, directional>>
    BY DEF Refuses
  <1>2. Asks({})
    BY <1>1 DEF Asks
  <1>3. SideInv'
    BY <1>1, <1>2, V2Side
  <1> QED BY <1>1, <1>3, V2Books

\* LateConfirm keeps the inductive invariant.
LEMMA LateConfirmHolds ==
  ASSUME V2Step, LateConfirm PROVE IInv'
  <1> DEFINE tags == {"br2_late_confirm", "br2_paired_tail"}
  <1>0. SessionTypes /\ BrTypes /\ FavouriteInv
    BY DEF V2Step
  <1>1. BrTypes' /\ Asks(tags)
    BY <1>0, LateConfirmTypes
  <1>2. UNCHANGED <<probe, favourite, tail, base_notional, skew_load, skew_first, calm>>
    BY DEF LateConfirm
  <1>3. tags \in SUBSET Br2Tags /\ tags \cap LadderTags = {} /\ "br2_late_confirm" \in LoadTags
    BY DEF Br2Tags, LoadTags, LadderTags
  <1> HIDE DEF tags
  <1>4. LadderInv' /\ SkewInv'
    BY <1>1, <1>2, <1>3, V2Ladder, V2Books
  <1>5. SideInv' /\ TailInv' /\ FavouriteInv' /\ OneLoadPastTheCap'
    <2>1. CASE Refuses
      BY <1>2, <2>1, V2Refuses
    <2>2. CASE \E n \in Nat : Backs("br2_late_confirm", Target, n)
      <3>1. PICK n \in Nat : Backs("br2_late_confirm", Target, n)
        BY <2>2
      <3> QED BY <1>0, <1>2, <1>3, <3>1, V2Backs, BacksFavourite
    <2> QED BY <1>0, <2>1, <2>2, LateConfirmDoes
  <1> QED BY <1>1, <1>3, <1>4, <1>5, V2Rest

\* HighSkewLoad keeps the inductive invariant.
LEMMA HighSkewLoadHolds ==
  ASSUME V2Step, HighSkewLoad PROVE IInv'
  <1> DEFINE tags == {"br2_high_skew_load", "br2_paired_tail"}
  <1>0. SessionTypes /\ BrTypes /\ FavouriteInv
    BY DEF V2Step
  <1>1. BrTypes' /\ Asks(tags)
    BY <1>0, HighSkewLoadTypes
  <1>2. UNCHANGED <<probe, favourite, tail, base_notional, late, skew_first, calm>>
    BY DEF HighSkewLoad
  <1>3. tags \in SUBSET Br2Tags /\ tags \cap LadderTags = {} /\ "br2_high_skew_load" \in LoadTags
    BY DEF Br2Tags, LoadTags, LadderTags
  <1> HIDE DEF tags
  <1>4. LadderInv' /\ SkewInv'
    BY <1>1, <1>2, <1>3, V2Ladder, V2Books
  <1>5. SideInv' /\ TailInv' /\ FavouriteInv' /\ OneLoadPastTheCap'
    <2>1. CASE Refuses
      BY <1>2, <2>1, V2Refuses
    <2>2. CASE \E n \in Nat : Backs("br2_high_skew_load", Favoured, n)
      <3>1. PICK n \in Nat : Backs("br2_high_skew_load", Favoured, n)
        BY <2>2
      <3> QED BY <1>0, <1>2, <1>3, <3>1, V2Backs, BacksFavourite
    <2> QED BY <1>0, <2>1, <2>2, HighSkewLoadDoes
  <1> QED BY <1>1, <1>3, <1>4, <1>5, V2Rest

\* LateFavourite keeps the inductive invariant.
LEMMA LateFavouriteHolds ==
  ASSUME V2Step, LateFavourite PROVE IInv'
  <1> DEFINE tags == {"br2_late_favourite_load", "br2_paired_tail"}
  <1>0. SessionTypes /\ BrTypes /\ FavouriteInv /\ favourite.clips \in 0..F.maxClips
    BY DEF V2Step, BrTypes
  <1>1. BrTypes' /\ Asks(tags)
    BY <1>0, LateFavouriteTypes
  <1>2. UNCHANGED <<probe, tail, base_notional, late, skew_load, skew_first, calm>>
    BY DEF LateFavourite
  <1>3. tags \in SUBSET Br2Tags /\ tags \cap LadderTags = {} /\ "br2_late_favourite_load" \in LoadTags
    BY DEF Br2Tags, LoadTags, LadderTags
  <1> HIDE DEF tags
  <1>4. LadderInv' /\ SkewInv'
    BY <1>1, <1>2, <1>3, V2Ladder, V2Books
  <1>5. SideInv' /\ TailInv' /\ FavouriteInv' /\ OneLoadPastTheCap'
    <2>1. CASE Refuses /\ UNCHANGED favourite
      BY <1>2, <2>1, V2Refuses
    <2>2. CASE \E levels \in 1..(F.maxClips - favourite.clips), n \in Nat :
                 RecordFavourite(levels, n) /\ Backs("br2_late_favourite_load", Favoured, n)
      <3>1. PICK levels \in 1..(F.maxClips - favourite.clips), n \in Nat :
                 RecordFavourite(levels, n) /\ Backs("br2_late_favourite_load", Favoured, n)
        BY <2>2
      <3> QED BY <1>0, <1>2, <1>3, <3>1, V2Backs, ClipIsBooked
    <2> QED BY <1>0, <2>1, <2>2, LateFavouriteDoes
  <1> QED BY <1>1, <1>3, <1>4, <1>5, V2Rest

\* ConvexTail keeps the inductive invariant.
LEMMA ConvexTailHolds ==
  ASSUME V2Step, ConvexTail PROVE IInv'
  <1> DEFINE tags == {"br2_convex_tail"}
  <1>0. SessionTypes /\ BrTypes /\ SideInv /\ TailInv
    BY DEF V2Step
  <1>1. BrTypes' /\ Asks(tags)
    BY <1>0, ConvexTailTypes
  <1>2. UNCHANGED <<directional, probe, favourite, base_notional, skew_first, calm>>
    BY DEF ConvexTail
  <1>3. tags \in SUBSET Br2Tags /\ tags \cap LadderTags = {}
    BY DEF Br2Tags, LoadTags, LadderTags
  <1> HIDE DEF tags
  <1>4. SideInv' /\ TailInv'
    BY <1>0, ConvexTailSide, ConvexTailFunds
  <1>5. LadderInv' /\ FavouriteInv' /\ SkewInv' /\ OneLoadPastTheCap'
    BY <1>1, <1>2, <1>3, V2Ladder, V2Books
  <1> QED BY <1>1, <1>3, <1>4, <1>5, V2Rest

-----------------------------------------------------------------------------
(* The theorems.                                                           *)

\* What every step of BonereaperV2 starts from.
LEMMA V2StepFacts ==
  ASSUME IInv, RunBonereaperV2 PROVE V2Step
  <1>1. UNCHANGED <<clock, book, sig, held, events_seen>> /\ UNCHANGED <<kind, memory>>
    BY DEF RunBonereaperV2, BonereaperV2Step, strategy
  <1> QED BY <1>1 DEF IInv, TypeInv, V2Step, Steady, RunBonereaperV2

\* Every step keeps the inductive invariant.
LEMMA NextHolds == IInv /\ [Next]_vars => IInv'
  <1> SUFFICES ASSUME IInv, [Next]_vars PROVE IInv'
    OBVIOUS
  <1>1. CASE Arrive("strategy") /\ UNCHANGED <<strategy, br>>
    BY <1>1, MarketHolds
  <1>2. CASE (Done /\ UNCHANGED <<strategy, br>>) \/ UNCHANGED vars
    <2>1. UNCHANGED <<turn, clock, book, sig, held, open, sent, events_seen>> /\ UNCHANGED <<strategy, br>>
      BY <1>2 DEF Done, vars, session
    <2>2. UNCHANGED <<participation, base_notional, probe, late, directional, skew_load, skew_first,
                       favourite, tail, calm>> /\ UNCHANGED <<kind, memory>>
      BY <2>1 DEF br, strategy
    <2>3. TypeInv' /\ KindInv'
      BY <2>1, <2>2 DEF IInv, TypeInv, SessionTypes, BrTypes, KindInv, BrInit
    <2>4. SideInv' /\ LadderInv' /\ LiteInv' /\ ShotInv'
      BY <2>1, <2>2 DEF IInv, SideInv, LadderInv, LiteInv, ShotInv
    <2>5. FavouriteInv' /\ TailInv' /\ SkewInv' /\ OneLoadPastTheCap'
      BY <2>1, <2>2 DEF IInv, FavouriteInv, FavouriteAccounts, TailInv, TailIsFunded, SkewInv,
                        OneLoadPastTheCap
    <2> QED BY <2>3, <2>4, <2>5 DEF IInv
  <1>3. CASE OnEvent /\ UNCHANGED br
    BY <1>3, EventHolds
  <1>4. CASE RunBonereaperV2
    <2>1. V2Step
      BY <1>4, V2StepFacts
    <2> QED BY <1>4, <2>1, BeginHolds, ParticipateHolds, HedgeBaseHolds, EarlyProbeHolds,
               MidLadderHolds, LateConfirmHolds, HighSkewLoadHolds, LateFavouriteHolds,
               ConvexTailHolds DEF RunBonereaperV2, BonereaperV2Step
  <1> QED BY <1>1, <1>2, <1>3, <1>4 DEF Next

\* In every market, whatever strategy runs it, the invariant holds.
LEMMA InvariantHolds == Spec => []IInv
  BY InitHolds, NextHolds, PTL DEF Spec
\* Amounts never turn negative, no clip count passes the cap of its lane, and
\* sides are tokens, in every market and for every strategy.
THEOREM StrategyTypes == Spec => []TypeOK
  <1>1. IInv => TypeOK
    <2> SUFFICES ASSUME IInv PROVE TypeOK
      OBVIOUS
    <2>1. SessionTypes /\ BrTypes
      BY DEF IInv, TypeInv
    <2>2. participation.emitted \in [Tokens -> 0..P.maxOrders] /\ base_notional \in Nat
      BY <2>1 DEF BrTypes
    <2>3. /\ probe.side \in AnyToken /\ probe.rungs \in 0..BrConfig.probe.maxRungs
          /\ late.fires \in 0..L.maxFires
          /\ directional \in [side: AnyToken, shares: Nat, notional: Nat]
          /\ skew_load.clips \in 0..S.maxClips
      BY <2>1 DEF BrTypes
    <2>4. /\ favourite.side \in AnyToken /\ favourite.clips \in 0..F.maxClips
          /\ tail.clips \in 0..C.maxClips /\ tail.notional \in Nat
      BY <2>1 DEF BrTypes
    <2> QED BY <2>1, <2>2, <2>3, <2>4 DEF TypeOK, SessionTypes
  <1> QED BY <1>1, InvariantHolds, PTL

\* The three directional lanes of BonereaperV2 share one side per market, and
\* every convex tail is bought against it: the side is set by the first load
\* of any of them and tested by each before its own (directional_side_allowed).
THEOREM OneDirectionHolds == Spec => []OneDirection
  <1>1. IInv => OneDirection
    <2> SUFFICES ASSUME IInv PROVE OneDirection
      OBVIOUS
    <2> DEFINE loaded == TokensOf({"br2_late_confirm", "br2_high_skew_load", "br2_late_favourite_load"})
               tails  == TokensOf({"br2_convex_tail"})
    <2>1. SideInv /\ directional.side \in AnyToken
      BY DEF IInv, TypeInv, BrTypes
    <2>2. loaded = {r.token : r \in {q \in sent : q.tag \in LoadTags}}
      BY DEF TokensOf, LoadTags
    <2>3. loaded \subseteq {directional.side}
      BY <2>1, <2>2 DEF SideInv
    <2>4. ASSUME NEW t \in tails
          PROVE  t \in {Other(u) : u \in loaded}
      <3>1. PICK r \in sent : r.tag = "br2_convex_tail" /\ t = r.token
        BY <2>4 DEF TokensOf
      <3>2. directional.side # NoToken /\ t = Other(directional.side)
        BY <2>1, <3>1 DEF SideInv
      <3>3. directional.side \in loaded
        BY <2>1, <2>2, <3>2 DEF SideInv
      <3> QED BY <3>2, <3>3
    <2> QED BY <2>3, <2>4 DEF OneDirection
  <1> QED BY <1>1, InvariantHolds, PTL

\* The probe and the rungs of the ladder back one token of the market: a rung
\* is tested against the side of the probe, and no probe follows a rung (lanes
\* 1 and 2).
THEOREM OneLadderHolds == Spec => []OneLadder
  <1>1. IInv => OneLadder
    <2> SUFFICES ASSUME IInv PROVE OneLadder
      OBVIOUS
    <2> DEFINE tokens == TokensOf({"br2_early_dir", "br2_mid_ladder"})
    <2>1. LadderInv
      BY DEF IInv
    <2>2. tokens \subseteq {probe.side}
      BY <2>1 DEF LadderInv, LadderTags, TokensOf
    <2>3. IsFiniteSet({probe.side}) /\ Cardinality({probe.side}) = 1
      BY FS_Singleton
    <2>4. IsFiniteSet(tokens) /\ Cardinality(tokens) <= 1
      <3> HIDE DEF tokens
      <3> QED BY <2>2, <2>3, FS_Subset
    <2> QED BY <2>4 DEF OneLadder
  <1> QED BY <1>1, InvariantHolds, PTL

\* All convex tails of a market together cost no more than the fractions of
\* the favourite's cost and of its upside that the most generous terms allow,
\* however much of the favourite is filled and whatever integer division cuts
\* off on the way (lane 6).
THEOREM TailIsAlwaysFunded == Spec => []TailIsFunded
  <1>1. IInv => TailIsFunded
    BY DEF IInv, TailInv
  <1> QED BY <1>1, InvariantHolds, PTL

\* The late favourite's totals and the figures of its side agree, they are
\* part of the directional exposure, and its peak is above its average entry
\* price: no other lane can turn the side under it (lane 5).
THEOREM FavouriteBooksAgree == Spec => []FavouriteAccounts
  <1>1. IInv => FavouriteAccounts
    BY DEF IInv, FavouriteInv
  <1> QED BY <1>1, InvariantHolds, PTL

\* The directional lanes together pass the cap on the overlay by less than one
\* load, however many of them load in one call and whatever the hedged base does
\* in between: each tests the cap on all that was requested before it
\* (directional_overlay_allowed), and the base only grows.
THEOREM OverlayIsPassedOnce == Spec => []OneLoadPastTheCap
  <1>1. IInv => OneLoadPastTheCap
    BY DEF IInv
  <1> QED BY <1>1, InvariantHolds, PTL

\* BonereaperLite hedges at most one token, the one its entry did not favour,
\* and only a market both tokens of which it has bought.
THEOREM HedgesOppose == Spec => []HedgeOpposesEntry
  <1>1. IInv => HedgeOpposesEntry
    <2> SUFFICES ASSUME IInv PROVE HedgeOpposesEntry
      OBVIOUS
    <2> DEFINE hedges == TokensOf({"br_reversal_hedge"})
               paired == TokensOf({"br_paired"})
               token  == Other(Towards(memory.entrySign))
    <2>1. LiteInv /\ KindInv /\ SessionTypes
      BY DEF IInv, TypeInv
    <2> SUFFICES ASSUME hedges # {}
                 PROVE  memory.fired /\ memory.hedged /\ hedges = {token} /\ paired = Tokens
      BY DEF HedgeOpposesEntry
    <2>2. PICK q \in sent : q.tag = "br_reversal_hedge"
      BY DEF TokensOf
    <2>3. kind = "bonereaper_lite"
      BY <2>1, <2>2 DEF KindInv, LiteTags
    <2>4. memory.fired /\ memory.hedged /\ q.token = token
      BY <2>1, <2>2 DEF LiteInv
    <2>5. hedges = {token}
      <3>1. \A t \in hedges : t = token
        BY <2>1 DEF TokensOf, LiteInv
      <3>2. token \in hedges
        BY <2>2, <2>4 DEF TokensOf
      <3> QED BY <3>1, <3>2
    <2>6. paired = Tokens
      <3>1. \A t \in Tokens : t \in paired
        BY <2>1, <2>3, <2>4 DEF LiteInv, TokensOf
      <3>2. \A t \in paired : t \in Tokens
        BY <2>1 DEF SessionTypes, TokensOf
      <3> QED BY <3>1, <3>2
    <2> QED BY <2>4, <2>5, <2>6
  <1> QED BY <1>1, InvariantHolds, PTL

\* A high-skew load is made only after its token's tracker has run for the
\* sustain time, and a tracker has run since after the last event with quotes
\* whose mid was not past the threshold: it is reset by each such event.
THEOREM SustainIsServed == Spec => LoadsAreSustained
  <1> DEFINE A == skew_load'.clips > skew_load.clips =>
                    /\ skew_first[directional'.side] # Never
                    /\ clock - calm[directional'.side] >= S.sustain
  <1>1. IInv /\ [Next]_vars => [A]_vars
    <2> SUFFICES ASSUME IInv, Next, skew_load'.clips > skew_load.clips
                 PROVE  /\ skew_first[directional'.side] # Never
                        /\ clock - calm[directional'.side] >= S.sustain
      OBVIOUS
    <2>1. SessionTypes /\ BrTypes /\ SkewInv
      BY DEF IInv, TypeInv
    <2>2. skew_load.clips \in Nat /\ S.sustain \in Nat
      <3>1. S.maxClips \in Nat /\ S.sustain \in Nat
        BY BrTunables
      <3> QED BY <2>1, <3>1 DEF BrTypes
    <2>3. skew_load' # skew_load
      BY <2>2
    <2>4. HighSkewLoad
      BY <2>3 DEF Next, br, RunBonereaperV2, BonereaperV2Step, Begin, Participate, HedgeBase,
                  EarlyProbe, MidLadder, LateConfirm, LateFavourite, ConvexTail
    <2>5. Sustained(S.sustain) /\ \E n \in Nat : Backs("br2_high_skew_load", Favoured, n)
      BY <2>1, <2>3, <2>4, HighSkewLoadDoes
    <2>6. directional'.side = Favoured /\ Favoured \in Tokens
      BY <2>1, <2>5, BacksTypes
    <2>7. /\ skew_first[Favoured] # Never /\ clock - skew_first[Favoured] >= S.sustain
          /\ calm[Favoured] <= skew_first[Favoured]
          /\ calm[Favoured] \in Int /\ skew_first[Favoured] \in Int /\ clock \in Int
      BY <2>1, <2>5, <2>6 DEF Sustained, SkewInv, BrTypes, SessionTypes
    <2>8. clock - calm[Favoured] >= S.sustain
      BY <2>2, <2>7
    <2> QED BY <2>6, <2>7, <2>8
  <1>2. Spec => [][A]_vars
    BY <1>1, InvariantHolds, PTL DEF Spec
  <1> QED BY <1>2 DEF LoadsAreSustained

\* A one-shot strategy asks once in a market: once it has asked, what is open
\* only shrinks, for a later call holds and the runner only fills.
THEOREM ShotsAreFiredOnce == Spec => OneShotsCommit
  <1> DEFINE A == sent # {} /\ kind \in OneShots => \A t \in Tokens : open'[t] <= open[t]
  <1>1. IInv /\ [Next]_vars => [A]_vars
    <2> SUFFICES ASSUME IInv, Next, sent # {}, kind \in OneShots, NEW t \in Tokens
                 PROVE  open'[t] <= open[t]
      OBVIOUS
    <2>1. SessionTypes /\ ShotInv /\ open[t] \in Nat
      BY DEF IInv, TypeInv, SessionTypes
    <2>2. CASE Arrive("strategy")
      <3>1. Fill
        BY <2>2 DEF Arrive
      <3> QED BY <2>1, <3>1, FillMoves
    <2>3. CASE Done
      BY <2>1, <2>3 DEF Done, session
    <2>4. CASE OnEvent
      <3>1. open' = open
        BY <2>1, <2>4, ShotsHold
      <3> QED BY <2>1, <3>1
    <2>5. CASE RunBonereaperV2
      BY <2>5 DEF RunBonereaperV2, OneShots
    <2> QED BY <2>2, <2>3, <2>4, <2>5 DEF Next
  <1>2. Spec => [][A]_vars
    BY <1>1, InvariantHolds, PTL DEF Spec
  <1> QED BY <1>2 DEF OneShotsCommit
=============================================================================
