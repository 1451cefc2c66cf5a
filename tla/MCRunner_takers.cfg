\* Taker orders that wait out a latency of one time unit, marketable limit
\* orders among them, with fees, slippage, a tight drawdown limit, the model
\* gate on and cash for little.
CONSTANTS
  Markets = {m1}
  MarketId = m1
  MaxDrawdownPct = 20
  MaxDailyExposure = 1700
  MaxClip = 1400
  MaxPerMarketExposure = 1800
  Day = 10
  StartingCash = 1500
  Unit = 10
  Scale = 100
  TakerFee = 2
  MakerRebate = 1
  BaseSlip = 1
  NarrowBand = 1
  WideBand = 3
  TakerLatency = 1
  MaxImbalance = 1
  EnforceModelGate = TRUE
  OpenTs = 0
  CloseTs = 2
  Books <- TakerBooks
  Tapes <- TakerTapes
  Requests <- TakerRequests
  MaxEvents = 3
  MaxOrders = 2
  MaxGateRejects = 1
SPECIFICATION FairSpec
INVARIANTS LimitsRespected LossWithinExposure
PROPERTIES NoLookAhead HaltStopsBuying RunEnds
