CONSTANTS
  Purchase = {p1, p2}
  Token = {t1}
  Item <- MCItem
  User <- MCPairUser
  Role <- MCRole
  Rows <- MCPairRows
  InitialStock <- MCPairStock
  StockRequest <- MCPairRequest
  Unlimited = Unlimited
  Term = 1
  SweepLimit = 1
  MaxClock = 2
  MaxDecisions = 0
  MaxFailures = 1
  MaxCharges = 1
SPECIFICATION FairShelfSpec
CHECK_DEADLOCK FALSE
INVARIANTS
  SlotsConserved
PROPERTIES
  SweepReachesEveryone
