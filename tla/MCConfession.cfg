CONSTANTS
  Bots = 2
  MaxAttempts = 3
  MaxTries = 1
  Term = 1
  Keep = 1
  MaxClock = 1
  MaxAcks = 2
  MaxDrafts = 1
  MaxFollowUps = 1
  MaxMoves = 1
  MaxLapses = 1
  Parts = {"acks", "replies", "answers", "followUps"}
SPECIFICATION FairConfessionSpec
CHECK_DEADLOCK FALSE
INVARIANTS
  NothingRepeatedSilently
  NoTimeoutOverAnAnswer
PROPERTIES
  EndStands
  EffectsComeToRest
