CONSTANTS
  Purchase = {1, 2}
  Token = {t1}
  Item <- MCItem
  User <- MCUser
  Role <- MCRole
  Rows <- MCRows
  InitialStock <- MCStock
  StockRequest <- MCNone
  Unlimited = Unlimited
  Term = 1
  SweepLimit = 1
  MaxClock = 1
  MaxDecisions = 0
  MaxFailures = 0
  MaxCharges = 1
  Patrol = {patrol}
  Scheduler = Scheduler
  Startup = Startup
  Free = Free
  Uncertain = Uncertain
  Dead = Dead
  None = None
  SlowStart = FALSE
  MaxCrashes = 1
  MaxOutside = 0
SPECIFICATION DeliverySpec
CHECK_DEADLOCK FALSE
INVARIANTS
  OneHandOnTheRole
  UnknownAdditionStaysLocked
PROPERTY RevocationIsSound
