\* A frozen snapshot and ReactiveDirectional.
CONSTANTS
  VolatilityWindow = 2
  NumMarkets = 3
  Kinds <- OtherAndReactive
  Frozen = TRUE
  StartingCash = 40
  ClipPct = 5
  MinClip = 1
  SoftPct = 10
  HardPct = 20
  MinMultiplierPct = 0
  MaxExposure = 9
  ExposurePct = 20
  FeePct = 2
  CheckpointEvery = 0
  Profits <- FallAndRise
  MaxProcesses = 1
SPECIFICATION Spec
INVARIANT FrozenStaysFrozen
