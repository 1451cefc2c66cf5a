---------------------------- MODULE BonereaperV2 ----------------------------
(***************************************************************************)
(* BonereaperV2: one call of on_event runs eight lanes in a fixed order;   *)
(* each may add requests and reads what the lanes before it, in this call  *)
(* and earlier ones, have left.  What it leaves is about requests: the     *)
(* strategy learns of fills only from the inventory it is shown.           *)
(*                                                                         *)
(* Gates that depend on the tapes and the model alone (whipsaw, realized   *)
(* volatility, model support, ...) may refuse at any event, and the size   *)
(* multipliers of a load are any; gates on the strategy's own state and on *)
(* the book are exact.  Whatever refuses first, the lane leaves everything *)
(* as it was, so the order of a lane's gates does not matter here: it only *)
(* shows in the gate counters of the report, which are not modelled.       *)
(***************************************************************************)
EXTENDS Session

CONSTANTS
  BrConfig,     \* the tunables, see BrConfigs
  Clips         \* bound: the amounts a load may be worth after its multipliers

\* The fields of the configuration, by lane; prices and amounts in price
\* units, skews doubled, fractions in percent.
ParticipationConfigs ==
  [clip: Nat, start: Nat, stopBefore: Nat, maxPairCost: Nat, minPx: Nat, maxPx: Nat,
   maxDelta: Nat, repairDelta: Nat, refresh: Nat, maxOrders: Nat]
BaseConfigs ==
  [enabled: BOOLEAN, maxIn: Nat, maxPairCost: Nat, minorityPct: Nat, clip: Nat,
   maxNotional: Nat, overlayPct: Nat]
ProbeConfigs ==
  [earlyEnd: Nat, midEnd: Nat, earlyClip: Nat, rungClip: Nat, minStep2: Nat, maxRungs: Nat]
LateConfigs == [maxFires: Nat, refresh: Nat, minSkew2: Nat, pairedClip: Nat]
SkewConfigs == [threshold2: Nat \ {0}, maxAsk: Nat, maxClips: Nat, refresh: Nat, sustain: Nat]
FavouriteConfigs ==
  [start: Nat, threshold2: Nat, minAsk: Nat, highCertAsk: Nat, maxAsk: Nat, maxClips: Nat,
   refresh: Nat, sustain: Nat, depth: Nat, maxPullback: Nat, maxDrawdown: Nat]
\* What the regime and the reversal score make of the coverage and the budget.
TailTerms == [coveragePct: 0..100, spendPct: Nat, upsidePct: Nat]
TailConfigs ==
  [extreme2: Nat, minStep2: Nat, maxClips: Nat, refresh: Nat, minAsk: Nat, maxAsk: Nat,
   minToClose: Nat, minEdge: Nat, clip: Nat, terms: SUBSET TailTerms]
BrConfigs ==
  [participation: ParticipationConfigs, base: BaseConfigs, probe: ProbeConfigs,
   late: LateConfigs, skew: SkewConfigs, favourite: FavouriteConfigs, tail: TailConfigs]

\* A score and a regime choose among finitely many clips and terms, and always some.
ASSUME BrAssumption ==
  /\ BrConfig \in BrConfigs
  /\ Clips \subseteq Nat /\ IsFiniteSet(Clips) /\ Clips # {}
  /\ IsFiniteSet(BrConfig.tail.terms) /\ BrConfig.tail.terms # {}

P == BrConfig.participation
H == BrConfig.base
L == BrConfig.late
S == BrConfig.skew
F == BrConfig.favourite
C == BrConfig.tail

VARIABLES
  participation,  \* orders emitted and time of the last one, by token
  base_notional,  \* amount requested by the hedged base
  probe,          \* early probe sent, and the ladder's token, mid and rungs
  late,           \* fires and time of the last one
  directional,    \* token, shares and amount requested by the directional lanes
  skew_load,      \* clips and time of the last one
  skew_first,     \* by token: since when the mid has been past the threshold
  favourite,      \* the late favourite lane's clips, time, totals and entry prices
  tail,           \* clips, time, skew and amount of the convex tail
  calm            \* history: by token, the last event whose mid was not past it,
                  \* or the first event if there was none

br == <<participation, base_notional, probe, late, directional, skew_load, skew_first,
        favourite, tail, calm>>

Never == -1000
NoToken == "None"

BrInit ==
  /\ participation = [emitted |-> [t \in Tokens |-> 0], last |-> [t \in Tokens |-> Never]]
  /\ base_notional = 0
  /\ probe = [early |-> FALSE, side |-> NoToken, mid2 |-> 0, rungs |-> 0]
  /\ late = [fires |-> 0, last |-> Never]
  /\ directional = [side |-> NoToken, shares |-> 0, notional |-> 0]
  /\ skew_load = [clips |-> 0, last |-> Never]
  /\ skew_first = [t \in Tokens |-> Never]
  /\ favourite = [side |-> NoToken, clips |-> 0, last |-> Never, shares |-> 0, notional |-> 0,
                  peak |-> 0, side_shares |-> 0, side_notional |-> 0]
  /\ tail = [clips |-> 0, last |-> Never, skew2 |-> 0, notional |-> 0]
  /\ calm = [t \in Tokens |-> Never]

-----------------------------------------------------------------------------
(* The call: trackers first, then the lanes. *)

Px(t) == BuyPx(t, 1)

\* Skewed towards t by at least the threshold of the high-skew lane.
Skewed(t) == IF t = "Yes" THEN Skew2 >= S.threshold2 ELSE -Skew2 >= S.threshold2

\* Faulty variant: a tracker is never reset.
TrackForever(t) == IF Skewed(t) /\ skew_first[t] = Never THEN clock ELSE skew_first[t]

\* A tracker keeps the first event of a run of skewed ones; events without
\* quotes or outside the window do not interrupt it.
Track(t) ==
  IF ~Skewed(t) THEN Never
  ELSE IF skew_first[t] = Never THEN clock ELSE skew_first[t]

Begin ==
  /\ turn = "strategy"
  /\ IF ~Quoted \/ ~InWindow
     THEN turn' = "market" /\ UNCHANGED <<skew_first, calm>>
     ELSE /\ turn' = "participation"
          /\ skew_first' = [t \in Tokens |-> Track(t)]
          /\ calm' = [t \in Tokens |-> IF Skewed(t) /\ calm[t] # Never THEN calm[t] ELSE clock]
  /\ UNCHANGED <<open, sent, participation, base_notional, probe, late, directional, skew_load,
                 favourite, tail>>

\* A lane is left without a request.
Quiet == UNCHANGED <<open, sent>>

\* Lane 0: paired maker bids, only the lagging token once the other leads.
BidPx(t) == (IF t = "Yes" THEN book.ask ELSE Unit - book.bid) - 1

ParticipationLegs ==
  {t \in Tokens :
     /\ P.clip > 0 /\ clock >= P.start /\ ToClose > P.stopBefore
     /\ book.bid < book.ask /\ book.ask < Unit /\ BidPx("Yes") > 0 /\ BidPx("No") > 0
     /\ BidPx("Yes") + BidPx("No") <= P.maxPairCost
     /\ Delta(t) < P.maxDelta /\ Delta(t) < P.repairDelta
     /\ participation.emitted[t] < P.maxOrders
     /\ clock - participation.last[t] >= P.refresh
     /\ BidPx(t) \in P.minPx..P.maxPx
     /\ SharesCapped(P.clip, BidPx(t)) > 0}

Participate ==
  /\ turn = "participation" /\ turn' = "base"
  /\ Send({Request("br2_participation", t, SharesCapped(P.clip, BidPx(t))) : t \in ParticipationLegs})
  /\ participation' =
       [emitted |-> [t \in Tokens |-> participation.emitted[t] + (IF t \in ParticipationLegs THEN 1 ELSE 0)],
        last    |-> [t \in Tokens |-> IF t \in ParticipationLegs THEN clock ELSE participation.last[t]]]
  /\ UNCHANGED <<base_notional, probe, late, directional, skew_load, skew_first, favourite, tail,
                 calm>>

\* Lane 0b: the same number of shares of both tokens, or only of the one
\* whose holding is worth less than a fraction of the other's.
Starved(t) == 100 * held[t] * Px(t) < H.minorityPct * held[Other(t)] * Px(Other(t))

BaseLegs == LET starved == {t \in Tokens : Starved(t)}
            IN  IF Cardinality(starved) = 1 THEN starved ELSE Tokens

BaseShares ==
  IF /\ H.enabled /\ clock <= H.maxIn /\ base_notional < H.maxNotional
     /\ Px("Yes") + Px("No") < H.maxPairCost
  THEN SharesCapped(Min({H.clip, H.maxNotional - base_notional}), Max({Px("Yes"), Px("No")}))
  ELSE 0

HedgeBase ==
  /\ turn = "base" /\ turn' = "early"
  /\ IF BaseShares > 0
     THEN /\ Send({Request("br2_participation_hedged_base", t, BaseShares) : t \in BaseLegs})
          /\ base_notional' = base_notional + BaseShares * MapThenSumSet(Px, BaseLegs)
     ELSE Quiet /\ UNCHANGED base_notional
  /\ UNCHANGED <<participation, probe, late, directional, skew_load, skew_first, favourite, tail,
                 calm>>

\* Lanes 1 and 2: a probe, then rungs while the mid moves its way.
Strong == Abs(sig.composite) = 2
Target == Towards(sig.composite)

ProbeShares ==
  LET g == BrConfig.probe
  IN  IF ~probe.early /\ clock <= g.earlyEnd /\ Strong THEN SharesCapped(g.earlyClip, Px(Target)) ELSE 0

EarlyProbe ==
  /\ turn = "early" /\ turn' = "ladder"
  /\ IF ProbeShares > 0
     THEN /\ Send({Request("br2_early_dir", Target, ProbeShares)})
          /\ probe' = [probe EXCEPT !.early = TRUE, !.side = Target, !.mid2 = Mid2]
     ELSE Quiet /\ UNCHANGED probe
  /\ UNCHANGED <<participation, base_notional, late, directional, skew_load, skew_first, favourite,
                 tail, calm>>

\* Faulty variant: a rung does not look at the side of the ladder.
RungSharesEitherWay ==
  IF /\ clock > BrConfig.probe.earlyEnd /\ clock <= BrConfig.probe.midEnd
     /\ probe.rungs < BrConfig.probe.maxRungs /\ Strong
  THEN SharesCapped(BrConfig.probe.rungClip, Px(Target)) ELSE 0

RungShares ==
  LET g     == BrConfig.probe
      moved == (IF Target = "Yes" THEN Mid2 - probe.mid2 ELSE probe.mid2 - Mid2) >= g.minStep2
  IN  IF /\ clock > g.earlyEnd /\ clock <= g.midEnd /\ probe.rungs < g.maxRungs /\ Strong
         /\ probe.side = NoToken \/ (probe.side = Target /\ moved)
      THEN SharesCapped(g.rungClip, Px(Target)) ELSE 0

MidLadder ==
  /\ turn = "ladder" /\ turn' = "late"
  /\ IF RungShares > 0
     THEN /\ Send({Request("br2_mid_ladder", Target, RungShares)})
          /\ probe' = [probe EXCEPT !.side = Target, !.mid2 = Mid2, !.rungs = @ + 1]
     ELSE Quiet /\ UNCHANGED probe
  /\ UNCHANGED <<participation, base_notional, late, directional, skew_load, skew_first, favourite,
                 tail, calm>>

-----------------------------------------------------------------------------
(* The directional lanes.  A lane is open or not, and then all its gates    *)
(* must pass; one on the data may always refuse, so it may stay quiet.     *)

\* Faulty variant: every lane follows its own signal.
AnySideAllowed(t) == TRUE

DirectionalSideAllowed(t) == directional.side \in {NoToken, t}

RecordDirectional(t, shares) ==
  directional' = [side     |-> t,
                  shares   |-> directional.shares + shares,
                  notional |-> directional.notional + shares * Px(t)]

\* Faulty variant: only one of the lanes is held to the cap.
FavouriteOverlayAllowed ==
  H.enabled => 100 * favourite.notional < H.overlayPct * base_notional

\* Compares what has been requested so far, without the request to come.
DirectionalOverlayAllowed ==
  H.enabled => 100 * directional.notional < H.overlayPct * base_notional

\* Lane 3: fires with the composite signal, and may add a cheap bet on the
\* other token, outside the tail lane's budget.
LateOpen ==
  /\ clock > BrConfig.probe.midEnd /\ late.fires < L.maxFires /\ Strong
  /\ clock - late.last > L.refresh
  /\ DirectionalOverlayAllowed

SideSkew2(t) == IF t = "Yes" THEN Skew2 ELSE -Skew2

\* The data gates: whipsaw, low_vol, market_range, model, recent_regime.
LatePasses(shares) ==
  /\ DirectionalSideAllowed(Target)
  /\ SideSkew2(Target) >= Max({0, L.minSkew2})
  /\ shares > 0

PairedTail ==
  LET t == Other(Target) IN
  Only(/\ L.pairedClip > 0 /\ Px(t) \in C.minAsk..C.maxAsk /\ ToClose >= C.minToClose
       /\ SharesCapped(L.pairedClip, Px(t)) > 0,
       {Request("br2_paired_tail", t, SharesCapped(L.pairedClip, Px(t)))})

LateConfirm ==
  /\ turn = "late" /\ turn' = "skew"
  /\ \/ \E clip \in Clips :
          LET shares == SharesCapped(clip, Px(Target))
          IN  /\ LateOpen /\ LatePasses(shares)
              /\ Send({Request("br2_late_confirm", Target, shares)} \cup PairedTail)
              /\ late' = [fires |-> late.fires + 1, last |-> clock]
              /\ RecordDirectional(Target, shares)
     \/ Quiet /\ UNCHANGED <<late, directional>>
  /\ UNCHANGED <<participation, base_notional, probe, skew_load, skew_first, favourite, tail, calm>>

\* Lanes 4 and 5 follow the book.
Favoured == Towards(Skew2)
Sustained(seconds) == skew_first[Favoured] # Never /\ clock - skew_first[Favoured] >= seconds
SpotAligned == sig.spot # 0 /\ Towards(sig.spot) = Favoured

SkewOpen ==
  /\ clock >= F.start /\ skew_load.clips < S.maxClips
  /\ clock - skew_load.last > S.refresh
  /\ DirectionalOverlayAllowed

\* The data gates: regime, whipsaw, low_vol, model, recent_regime.
SkewPasses(shares) ==
  /\ Abs(Skew2) >= S.threshold2 /\ Sustained(S.sustain)
  /\ SpotAligned
  /\ DirectionalSideAllowed(Favoured)
  /\ Px(Favoured) <= S.maxAsk
  /\ shares > 0

HighSkewLoad ==
  /\ turn = "skew" /\ turn' = "favourite"
  /\ \/ \E clip \in Clips :
          LET shares == SharesCapped(clip, Px(Favoured))
          IN  /\ SkewOpen /\ SkewPasses(shares)
              /\ Send({Request("br2_high_skew_load", Favoured, shares)})
              /\ skew_load' = [clips |-> skew_load.clips + 1, last |-> clock]
              /\ RecordDirectional(Favoured, shares)
     \/ Quiet /\ UNCHANGED <<skew_load, directional>>
  /\ UNCHANGED <<participation, base_notional, probe, late, skew_first, favourite, tail, calm>>

\* Lane 5: up to its depth in clips at once, more of them the dearer the
\* favourite and the nearer the close, fewer again when it is all but certain.
LadderLevels(px) ==
  LET dearer(percent) == 100 * px >= percent * Unit
  IN  IF dearer(90) /\ 5 * ToClose <= 2 * Window THEN 5
      ELSE 1 + Cardinality({percent \in {75, 80, 90} : dearer(percent)})

HighCertMaxLevels(px, levels) ==
  LET dearer(percent) == 100 * px >= percent * Unit
  IN  Min({levels} \cup {n \in {1, 2, 3} : dearer(IF n = 1 THEN 99 ELSE IF n = 2 THEN 97 ELSE 95)})

\* The model may relax the threshold of the skew to that of lane 4, and a
\* thin edge on a dear favourite leaves one level.
FavouriteThresholds == {F.threshold2, Min({F.threshold2, S.threshold2})}

\* Faulty variant: a sweep may exceed the clips that are left.
FavouriteLevelsUncapped(px, fragile) ==
  Min({HighCertMaxLevels(px, LadderLevels(px)), Max({F.depth, 1})}
      \cup (IF fragile THEN {1} ELSE {}))

FavouriteLevels(px, fragile) ==
  Min({HighCertMaxLevels(px, LadderLevels(px)), Max({F.depth, 1}), F.maxClips - favourite.clips}
      \cup (IF fragile THEN {1} ELSE {}))

SameFavourite == favourite.side = Favoured
EntryPullback == IF F.maxPullback < Unit /\ SameFavourite THEN favourite.peak - Px(Favoured) ELSE 0
UnderAverage  == /\ F.maxDrawdown < Unit /\ SameFavourite
                 /\ favourite.side_notional - favourite.side_shares * Px(Favoured)
                      > F.maxDrawdown * favourite.side_shares

FavouriteOpen ==
  /\ clock >= F.start /\ favourite.clips < F.maxClips
  /\ clock - favourite.last > F.refresh
  /\ DirectionalOverlayAllowed

\* The data gates: whipsaw, reversal_pressure, path_efficiency, low_vol,
\* market_range, adverse_momentum, model_direction, model, recent_regime.
FavouritePasses(threshold2, shares) ==
  /\ Abs(Skew2) >= threshold2
  /\ DirectionalSideAllowed(Favoured)
  /\ F.sustain > 0 => Sustained(F.sustain)
  /\ Px(Favoured) \in F.minAsk..F.maxAsk
  /\ EntryPullback <= F.maxPullback /\ ~UnderAverage
  /\ \/ Px(Favoured) >= F.highCertAsk
     \/ SpotAligned
     \/ sig.composite # 0 /\ Target = Favoured
  /\ shares > 0

\* Faulty variant: the last entry price is taken for the best one.
LastEntry(px) == px

PeakEntry(px) == Max({IF SameFavourite THEN favourite.peak ELSE 0, px})

\* The entry prices are those of the current side, the totals of all sides.
RecordFavourite(levels, shares) ==
  LET px   == Px(Favoured)
      kept(x) == IF SameFavourite THEN x ELSE 0
  IN  favourite' = [side |-> Favoured, clips |-> favourite.clips + levels, last |-> clock,
                    shares |-> favourite.shares + shares,
                    notional |-> favourite.notional + shares * px,
                    peak |-> PeakEntry(px),
                    side_shares |-> kept(favourite.side_shares) + shares,
                    side_notional |-> kept(favourite.side_notional) + shares * px]

LateFavourite ==
  /\ turn = "favourite" /\ turn' = "tail"
  /\ \/ \E clip \in Clips, fragile \in BOOLEAN, threshold2 \in FavouriteThresholds :
          LET levels == FavouriteLevels(Px(Favoured), fragile)
              shares == SharesCapped(clip * levels, Px(Favoured))
          IN  /\ FavouriteOpen /\ FavouritePasses(threshold2, shares)
              /\ Send({Request("br2_late_favourite_load", Favoured, shares)})
              /\ RecordFavourite(levels, shares)
              /\ RecordDirectional(Favoured, shares)
     \/ Quiet /\ UNCHANGED <<favourite, directional>>
  /\ UNCHANGED <<participation, base_notional, probe, late, skew_load, skew_first, tail, calm>>

-----------------------------------------------------------------------------
(* Lane 6: buys the other token cheaply once the favourite is extreme, out  *)
(* of a budget that the directional requests define.                        *)

TailToken == Other(directional.side)

\* Faulty variant: whatever is held backs the tail.
HeldShares == held[directional.side]

\* No more favourite shares count than were both requested and are held,
\* whichever lane the held ones came from.
EffectiveShares == Min({held[directional.side], directional.shares})

\* The data gate: observed_range.
TailWanted ==
  /\ tail.clips < C.maxClips /\ clock - tail.last > C.refresh
  /\ Abs(Skew2) >= C.extreme2
  /\ tail.clips = 0 \/ Abs(Skew2) - tail.skew2 >= C.minStep2
  /\ directional.notional > 0 /\ ToClose >= C.minToClose
  /\ EffectiveShares > 0
  /\ Px(TailToken) \in C.minAsk..C.maxAsk
  /\ \/ C.minEdge = 0
     \/ SellPx(directional.side) * directional.shares - directional.notional
          >= C.minEdge * directional.shares

\* Fractions of what the favourite cost and of what it can still win.
TailBudget(terms) ==
  Min({terms.spendPct * EffectiveShares * directional.notional,
       terms.upsidePct * EffectiveShares * (directional.shares * Unit - directional.notional)})
    \div (100 * directional.shares) - tail.notional

\* Aims at covering a fraction of the favourite's loss, or at a fixed clip.
TailClip(terms) ==
  LET covered == (EffectiveShares * directional.notional * terms.coveragePct * Px(TailToken))
                   \div (100 * Unit * directional.shares)
      wanted  == IF terms.coveragePct > 0 THEN Max({0, covered - tail.notional}) ELSE C.clip
  IN  IF TailBudget(terms) <= 0 THEN 0 ELSE Min({wanted, TailBudget(terms)})

ConvexTail ==
  /\ turn = "tail" /\ turn' = "market"
  /\ \/ \E terms \in C.terms :
          LET shares == SharesCapped(TailClip(terms), Px(TailToken))
          IN  /\ TailWanted /\ shares > 0
              /\ Send({Request("br2_convex_tail", TailToken, shares)})
              /\ tail' = [clips |-> tail.clips + 1, last |-> clock, skew2 |-> Abs(Skew2),
                          notional |-> tail.notional + shares * Px(TailToken)]
     \/ Quiet /\ UNCHANGED tail
  /\ UNCHANGED <<participation, base_notional, probe, late, directional, skew_load, skew_first,
                 favourite, calm>>

-----------------------------------------------------------------------------
BonereaperV2Step ==
  /\ \/ Begin \/ Participate \/ HedgeBase \/ EarlyProbe \/ MidLadder
     \/ LateConfirm \/ HighSkewLoad \/ LateFavourite \/ ConvexTail
  /\ UNCHANGED <<clock, book, sig, held, events_seen>>
=============================================================================
