SPECIFICATION FairSpec
CONSTANTS
  Calls = {c1, c2}
  NoCall = NoCall
  Cancels = {}
  NoRequest = NoRequest
  NoTarget = NoTarget
  Accounts <- MCAccounts
  Keys <- MCKeys
  Strategies <- MCStrategies
  Symbols <- MCSymbols
  Spellings <- MCSpellings
  UpperOf <- MCUpperOf
  Requests <- LiveRequests
  Brokers <- LiveBrokers
  Audited <- LiveBrokers
  Kind <- LiveKind
  Configs <- LooseOnly
  DefaultLimits <- Loose
  KillScopes <- GlobalScope
  MktPrice = 1
  NotionalCap = 4
  PaperPrice = 2
  InitialCash = 3
  TrialSymbol = "X"
  MaxUpdates = 1
CHECK_DEADLOCK FALSE
PROPERTIES ImplementsFairGateway
