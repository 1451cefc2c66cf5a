\* Two strategies compound over three markets, any of which may fail to load
\* or be empty, with a checkpoint after two; the process may be killed at any
\* step, or fail to write, and is started a second time over its files.
CONSTANTS
  VolatilityWindow = 2
  NumMarkets = 3
  Kinds <- OtherAndReactive
  Frozen = FALSE
  StartingCash = 40
  ClipPct = 5
  MinClip = 1
  SoftPct = 10
  HardPct = 20
  MinMultiplierPct = 0
  MaxExposure = 9
  ExposurePct = 20
  FeePct = 2
  CheckpointEvery = 2
  Profits <- FallAndRise
  MaxProcesses = 2
SPECIFICATION FairSpec
INVARIANTS
  TypeOK EquityChains DrawdownStops LearnsOnceInOrder SamplesAreOwn
  NamedFilesAreWhole SummaryIsBacked DoneIsWritten
PROPERTY EveryRunEnds
