SPECIFICATION Spec
CONSTANTS
  Unit = 20
  Window = 3
  MaxEvents = 3
  Halves = {0, 2}
  Gaps = {1, 2}
  Books <- BooksDef
  Signals <- SignalsDef
  Config <- ConfigDef
  BrConfig <- BrConfigDef
  Clips = {60}
  Kinds = {"bonereaper_v2", "bonereaper_lite", "reactive_directional", "late_convex_tail", "late_confirmation", "late_big_bet", "spot_momentum_follower", "buy_yes_at_open", "unlawful_recycler", "delta_neutral_mm", "paired_mm", "noop"}
INVARIANTS TypeOK OneDirection OneLadder TailIsFunded FavouriteAccounts OneLoadPastTheCap HedgeOpposesEntry
PROPERTIES LoadsAreSustained OneShotsCommit
