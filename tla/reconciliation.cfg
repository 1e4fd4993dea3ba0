SPECIFICATION Spec
CONSTANTS
  Accounts = {a1, a2}
  Symbols = {X}
  NoAccount = NoAccount
  Simulated = {binance, angel}
  TrialAccount = a1
  TrialSymbol = X
  Polled = {a1, a2}
  Orders <- SmallOrders
  LiveSizes <- SmallSizes
  MaxFills = 2
  Queries = {q}
SYMMETRY Symmetry
INVARIANTS TypeOK PairedBooksAgree UnsyncedRowsFollowFills
PROPERTY HaltsHaveACause
