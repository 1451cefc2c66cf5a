\* Resting orders on both lists against book moves and prints; takers have
\* no latency and the breaker is armed.
CONSTANTS
  Markets = {m1}
  MarketId = m1
  MaxDrawdownPct = 40
  MaxDailyExposure = 1600
  MaxClip = 1000
  MaxPerMarketExposure = 2400
  Day = 1
  StartingCash = 1900
  Unit = 10
  Scale = 100
  TakerFee = 2
  MakerRebate = 1
  BaseSlip = 0
  NarrowBand = 1
  WideBand = 2
  TakerLatency = 0
  MaxImbalance = 1
  EnforceModelGate = FALSE
  OpenTs = 0
  CloseTs = 2
  Books <- MakerBooks
  Tapes <- MakerTapes
  Requests <- MakerRequests
  MaxEvents = 3
  MaxOrders = 3
  MaxGateRejects = 0
SPECIFICATION Spec
INVARIANTS TypeOK ExposureCapped OpenOrdersHaveOneHome ResidualsExact CountersReconcile
PROPERTIES SweepsComplete AccountSpec
