SPECIFICATION FairSpec
CONSTANTS
  s1 = s1
  paper = paper
  kite = kite
  r1 = r1
  r2 = r2
  Strategies <- MCStrategies
  Brokers <- MCBrokers
  Paper = paper
  Requests <- MCRequests
  Tiers = {"TIER_1_STARTER", "TIER_3_FULL"}
  NoRequest = NoRequest
  NoSession = NoSession
  MaxBrokerCalls = 1
INVARIANTS
  TypeOK
  OneActivePerStrategy
  OpenedWhenCleared
  SessionsCertified
PROPERTIES
  HaltedForever
  RequestsAnswered
