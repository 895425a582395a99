CONSTANTS
  Purchase = {1}
  Token = {t1}
  Item <- MCItem
  User <- MCUser
  Role <- MCRole
  Rows <- MCTimed
  InitialStock <- MCStock
  StockRequest <- MCNone
  Unlimited = Unlimited
  Term = 1
  SweepLimit = 1
  MaxClock = 1
  MaxDecisions = 1
  MaxFailures = 0
  MaxCharges = 2
  Patrol = {patrol}
  Scheduler = Scheduler
  Startup = Startup
  Free = Free
  Uncertain = Uncertain
  Dead = Dead
  None = None
  SlowStart = FALSE
  MaxCrashes = 0
  MaxOutside = 1
SPECIFICATION FairDeliverySpec
CHECK_DEADLOCK FALSE
PROPERTIES
  Spec
  UncertaintyIsResolved
