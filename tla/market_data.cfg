SPECIFICATION Spec
CONSTANTS
  Timeframes <- MCTimeframes
  Width <- MCWidth
  MaxHistory = 2
  Threshold = 1
  Quotes <- MCQuotes
  NoTick = NoTick
  NoBar = NoBar
  MaxTime = 6
  MaxTicks = 4
CHECK_DEADLOCK FALSE
INVARIANTS TypeOK CandlesReplayTheTicks BarsIncrease TimeframesAgree GuardSeesAnyFreshTick
PROPERTIES ImplementsGuard
