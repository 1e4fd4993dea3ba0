SPECIFICATION Spec
CONSTANTS
  Sockets = {s1, s2}
  Topics = {"X"}
  Casts = {b1}
  InApp = app
  HttpChannels = {h1}
  Severities = {"CRITICAL"}
  LogCapacity = 2
  Calls = {c1, c2, c3}
  StrategyIds = {"i1", "i2"}
  Threads = 1
  Alerts = {"n1"}
  Skew = 1
  Horizon = 8
  Terminals = {t1, t2}
  OwnTerminal = t1
  Files <- SmallFiles
  Uploads = {"u1", "u2"}
  Strategies = {g1}
  Settings <- SmallSettings
  Tickers = {"X"}
  Closes = {10, 20}
  MaxBars = 4
  Cash = {0, 15, 100}
  Commission = 1
  MaxCandles = 5
  MaxWindows = 1
  UserIds = {"u1", "u2"}
  Boxes = {"m"}
  Spellings = {"m", "M"}
  Roles = {"ADMIN", "TRADER"}
  Managers = {"ADMIN"}
  Keys = {k1}
  Brokers = {"paper"}
  AccessLife = 0
  RefreshLife = 1
  LastDay = 2
INVARIANTS
  ServicesTypeOK
  DirectoriesAgree
  SteadyListenersServed
  AlertsReachEveryChannel
  TasksAreAwaited
  GuardStopsReplays
  SignalsFollowTheBars
  BacktestAddsUp
  AccountsKeepTheirLogins
PROPERTIES
  CallsAnswered
  UploadsRepeatable
