CONSTANTS
  Ticks <- MCTicks
  MidsCap = 3
  DirCap = 3
  ImbalanceCap = 2
  ShortRun = 1
  LongRun = 2
  StabilityWindow = 2
  VolatilityWindow = 1
  BetaMinSamples = 5
  IsotonicMinSamples = 3
  MinUpdates = 4
  TreeCount = 1
  MinLeaf = 2
  MaxTreeSamples = 8
  Turns = {0, 66}
  SampleSecs = 10
  MinBaseP = 55
  LeastSecs = 24
  MinMidDistance = 20
  MaxFitSamples = 8
  MaxValidationSamples = 2
  MaxPerMarket = 4
  Primary = 1
  Presets <- MCPresets
  TrainMarkets = 3
  TestMarkets = 2
  Opening <- MCOpening
  Tapes <- MCTapes
  Offsets <- MCOffsets
  Books <- MCBooks
  Losses = 2
SPECIFICATION Spec
INVARIANT ReturnsAreTrailing
