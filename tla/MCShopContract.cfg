CONSTANTS
  Purchase = {p1}
  Token = {t1, t2}
  Item <- MCItem
  User <- MCUser
  Role <- MCRole
  Rows <- MCAllRows
  InitialStock <- MCStock
  StockRequest <- MCStockRequest
  Unlimited = Unlimited
  Term = 1
  SweepLimit = 1
  MaxClock = 2
  MaxDecisions = 2
  MaxFailures = 2
  MaxCharges = 2
SPECIFICATION Spec
CHECK_DEADLOCK FALSE
INVARIANTS
  RefundExcludesDelivery
  ProvenWorkIsInOneQueue
  NoEffectLeadsSomewhere
  ContractInvariant
PROPERTIES
  NoServiceAfterEvidence
