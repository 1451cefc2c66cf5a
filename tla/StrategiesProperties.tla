------------------------ MODULE StrategiesProperties ------------------------
(***************************************************************************)
(* A market run by one strategy, and what the strategies promise about     *)
(* their own requests however late and partly the runner fills them.       *)
(***************************************************************************)
EXTENDS Strategies, BonereaperV2

vars == <<session, strategy, br>>

Init == SessionInit /\ StrategiesInit /\ BrInit

RunBonereaperV2 == kind = "bonereaper_v2" /\ BonereaperV2Step /\ UNCHANGED strategy

Next == \/ (Arrive("strategy") \/ Done) /\ UNCHANGED <<strategy, br>>
        \/ OnEvent /\ UNCHANGED br
        \/ RunBonereaperV2

Spec == Init /\ [][Next]_vars

-----------------------------------------------------------------------------
AnyToken == Tokens \cup {NoToken}

\* Shapes and ranges; amounts never turn negative and no clip count passes
\* the cap of its lane.
TypeOK ==
  /\ clock \in Int /\ events_seen \in 0..MaxEvents
  /\ book \in Books \cup {[bid |-> 0, ask |-> 0]} /\ sig \in Signals
  /\ held \in [Tokens -> Nat] /\ open \in [Tokens -> Nat]
  /\ \A r \in sent : r.token \in Tokens
  /\ kind \in Kinds
  /\ participation.emitted \in [Tokens -> 0..P.maxOrders]
  /\ base_notional \in Nat
  /\ probe.side \in AnyToken /\ probe.rungs \in 0..BrConfig.probe.maxRungs
  /\ late.fires \in 0..L.maxFires
  /\ directional \in [side: AnyToken, shares: Nat, notional: Nat]
  /\ skew_load.clips \in 0..S.maxClips
  /\ favourite.side \in AnyToken /\ favourite.clips \in 0..F.maxClips
  /\ tail.clips \in 0..C.maxClips /\ tail.notional \in Nat

TokensOf(tags) == {r.token : r \in {q \in sent : q.tag \in tags}}

\* The three directional lanes never load both tokens of one market, though
\* they follow different signals, and the convex tail is bought against them
\* only (bonereaper_v2.rs, directional_side_allowed and lane 6).
OneDirection ==
  LET loaded == TokensOf({"br2_late_confirm", "br2_high_skew_load", "br2_late_favourite_load"})
      tails  == TokensOf({"br2_convex_tail"})
  IN  /\ loaded \subseteq {directional.side}
      /\ tails \subseteq {Other(t) : t \in loaded}

\* The probe and the rungs of the ladder never back both tokens either.
OneLadder == Cardinality(TokensOf({"br2_early_dir", "br2_mid_ladder"})) <= 1

\* All convex tails of a market together cost no more than the fraction of
\* the favourite's cost and of its upside that the most generous terms allow,
\* whatever was filled in between (bonereaper_v2.rs, lane 6).
TailIsFunded ==
  LET spendPct  == Max({t.spendPct : t \in C.terms})
      upsidePct == Max({t.upsidePct : t \in C.terms})
  IN  /\ 100 * tail.notional <= spendPct * directional.notional
      /\ 100 * tail.notional <= upsidePct * (directional.shares * Unit - directional.notional)

\* A high-skew load is made only after the mid has been past the threshold on
\* that token's side for the sustain time: since the last quoted event that was
\* not, or since the first one if there was none.
LoadsAreSustained ==
  [][skew_load'.clips > skew_load.clips =>
       /\ skew_first[directional'.side] # Never
       /\ clock - calm[directional'.side] >= S.sustain]_vars

\* The late favourite's two sets of books agree: with one side per market the
\* figures of the side are the totals, they are part of the directional
\* exposure, and the remembered peak is at or above the average entry price.
FavouriteAccounts ==
  /\ favourite.side_shares = favourite.shares /\ favourite.side_notional = favourite.notional
  /\ favourite.shares <= directional.shares /\ favourite.notional <= directional.notional
  /\ favourite.notional <= favourite.peak * favourite.shares
  /\ favourite.clips > 0 => favourite.side = directional.side

\* The three directional lanes of one call, and those of later calls, all test
\* the cap of the overlay on what was requested before them, while the hedged
\* base they are measured by grows at other events: together they pass it by
\* less than one load (bonereaper_v2.rs, directional_overlay_allowed).
LargestLoad == Max(Clips) * Max({F.depth, 1})

OneLoadPastTheCap ==
  H.enabled /\ directional.notional > 0 =>
    100 * directional.notional < H.overlayPct * base_notional + 100 * LargestLoad

\* The one-shot strategies ask once in a market: after a request, no later
\* event and nothing the runner did with it makes them ask again
\* (LateConvexTail::fired and its like).
OneShots == {"buy_yes_at_open", "spot_momentum_follower", "late_big_bet", "late_convex_tail"}

OneShotsCommit ==
  [][sent # {} /\ kind \in OneShots => \A t \in Tokens : open'[t] <= open[t]]_vars

\* BonereaperLite hedges at most one token, the one its entry did not favour,
\* and only a market it has entered.
HedgeOpposesEntry ==
  LET hedges == TokensOf({"br_reversal_hedge"})
  IN  hedges # {} => /\ memory.fired /\ memory.hedged
                     /\ hedges = {Other(Towards(memory.entrySign))}
                     /\ TokensOf({"br_paired"}) = Tokens
=============================================================================
