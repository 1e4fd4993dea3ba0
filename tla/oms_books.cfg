SPECIFICATION Spec
CONSTANTS
  Calls = {c1, c2, c3}
  NoCall = NoCall
  Cancels = {}
  NoRequest = NoRequest
  NoTarget = NoTarget
  Accounts <- MCAccounts
  Keys <- MCKeys
  Strategies <- MCStrategies
  Symbols <- MCSymbols
  Spellings <- MCSpellings
  UpperOf <- MCUpperOf
  Requests <- BookRequests
  Brokers <- BookBrokers
  Audited <- PaperAndBinance
  Kind <- BookKind
  Configs <- TwoCaps
  DefaultLimits <- Loose
  KillScopes <- NoScopes
  MktPrice = 1
  NotionalCap = 4
  PaperPrice = 2
  InitialCash = 5
  TrialSymbol = "X"
  MaxUpdates = 2
SYMMETRY Symmetry
CHECK_DEADLOCK FALSE
INVARIANTS OpenCap PositionsFollowOrders BooksAgree
