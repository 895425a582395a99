CONSTANTS
  Bots = 2
  MaxAttempts = 2
  MaxTries = 1
  Term = 1
  Keep = 1
  MaxClock = 0
  MaxAcks = 0
  MaxDrafts = 1
  MaxFollowUps = 0
  MaxMoves = 1
  MaxLapses = 1
  Parts = {"screens"}
SPECIFICATION ConfessionSpec
CHECK_DEADLOCK FALSE
INVARIANTS
  StaleScreenIsRepaired
