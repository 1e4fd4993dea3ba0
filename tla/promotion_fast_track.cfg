SPECIFICATION Spec
CONSTANTS
  s1 = s1
  s2 = s2
  p1 = p1
  p2 = p2
  Strategies <- MCStrategies
  PaperSessions <- MCPaperSessions
  Symbols = {"AAPL"}
  MinDays = 1
  MinTrades = 1
  NoSession = NoSession
SYMMETRY MCSymmetry
INVARIANT
  NoFastTrack
