\* A resting buy fills at a mid that has already breached the drawdown limit.
CONSTANTS
  Markets = {m1}
  MarketId = m1
  MaxDrawdownPct = 20
  MaxDailyExposure = 1600
  MaxClip = 1000
  MaxPerMarketExposure = 2400
  Day = 10
  StartingCash = 1900
  Unit = 10
  Scale = 100
  TakerFee = 2
  MakerRebate = 1
  BaseSlip = 0
  NarrowBand = 1
  WideBand = 2
  TakerLatency = 0
  MaxImbalance = 1
  EnforceModelGate = FALSE
  OpenTs = 0
  CloseTs = 2
  Books <- MakerBooks
  Tapes <- MakerTapes
  Requests <- MakerRequests
  MaxEvents = 3
  MaxOrders = 3
  MaxGateRejects = 0
SPECIFICATION Spec
PROPERTY NoBuyInDrawdown
