SPECIFICATION Spec
CONSTANTS
  Calls = {c1}
  NoCall = NoCall
  Cancels = {x1}
  NoRequest = NoRequest
  NoTarget = NoTarget
  Accounts <- MCAccounts
  Keys <- MCKeys
  Strategies <- MCStrategies
  Symbols <- MCSymbols
  Spellings <- MCSpellings
  UpperOf <- MCUpperOf
  Requests <- LiveRequests
  Brokers <- LiveBrokers
  Audited <- NoBrokers
  Kind <- LiveKind
  Configs <- LooseOnly
  DefaultLimits <- Loose
  KillScopes <- GlobalScope
  MktPrice = 1
  NotionalCap = 4
  PaperPrice = 2
  InitialCash = 3
  TrialSymbol = "X"
  MaxUpdates = 2
CHECK_DEADLOCK FALSE
PROPERTIES TerminalIsImmutable
