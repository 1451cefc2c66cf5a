---------------------------- MODULE MCStrategies ----------------------------
EXTENDS StrategiesProperties

Quote(b, a) == [bid |-> b, ask |-> a]

\* In twentieths: a strong and an extreme favourite on either side, a market
\* near one half, and a book without bids.
BooksDef == {Quote(17, 18), Quote(18, 19), Quote(2, 3)}

Signal(c, s, p, conf, r, n) ==
  [composite |-> c, spot |-> s, p |-> p, conf |-> conf, regime |-> r, stake |-> n]
SignalsDef == {Signal(2, 1, 1, 2, "Trend", 60), Signal(-2, -1, -1, 1, "Trend", 1),
               Signal(-1, 1, 0, 0, "Whipsaw", 60)}

MakerDef == [maxPairCost |-> 19, maxDelta |-> 4, repairDelta |-> 2, refresh |-> 1, maxOrders |-> 2,
             clipShares |-> 2, minPx |-> 1, maxPx |-> 19, stopBefore |-> 0, start |-> 0]
TakerDef == [clip |-> 60, lateSecs |-> 2, confirm2 |-> 7, maxClips |-> 2, minAskCheap |-> 1,
             maxAskCheap |-> 4, extreme2 |-> 12, minIn |-> 1, maxAsk |-> 18, early |-> 1,
             lateFav |-> 2, reversal |-> 2, reload |-> 1]
ConfigDef == [maker |-> MakerDef, taker |-> TakerDef]

BrConfigDef ==
  [participation |-> [clip |-> 30, start |-> 0, stopBefore |-> 2, maxPairCost |-> 19, minPx |-> 2,
                      maxPx |-> 18, maxDelta |-> 4, repairDelta |-> 2, refresh |-> 1, maxOrders |-> 1],
   base  |-> [enabled |-> TRUE, maxIn |-> 1, maxPairCost |-> 22, minorityPct |-> 20, clip |-> 100,
              maxNotional |-> 150, overlayPct |-> 100],
   probe |-> [earlyEnd |-> 0, midEnd |-> 1, earlyClip |-> 40, rungClip |-> 40, minStep2 |-> 2,
              maxRungs |-> 1],
   late  |-> [maxFires |-> 1, refresh |-> 0, minSkew2 |-> 3, pairedClip |-> 10],
   skew  |-> [threshold2 |-> 8, maxAsk |-> 19, maxClips |-> 2, refresh |-> 0, sustain |-> 2],
   favourite |-> [start |-> 0, threshold2 |-> 9, minAsk |-> 12, highCertAsk |-> 18, maxAsk |-> 19,
                  maxClips |-> 2, refresh |-> 0, sustain |-> 0, depth |-> 2, maxPullback |-> 2,
                  maxDrawdown |-> 2],
   tail  |-> [extreme2 |-> 12, minStep2 |-> 1, maxClips |-> 2, refresh |-> 0, minAsk |-> 1,
              maxAsk |-> 4, minToClose |-> 0, minEdge |-> 0, clip |-> 10,
              terms |-> {[coveragePct |-> 0, spendPct |-> 20, upsidePct |-> 50],
                         [coveragePct |-> 60, spendPct |-> 30, upsidePct |-> 60]}]]
=============================================================================
