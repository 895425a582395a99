CONSTANTS
  Account <- MCAccount
  Kind <- MCKind
  Treasury = "treasury"
  Minor <- MCMinor
  Freezable = {"ann"}
  Key <- MCKey
  Request <- MCRequest
  ApprovalThreshold = 2
  MaxAmount = 4
  Channel <- MCChannel
  OtherNotice <- MCOther
  Limit = 2
  MaxAttempts = 2
  MaxRows = 3
  MaxDisturbed = 1
  Employee = {"ann", "bob"}
  Role = {"knight", "guard"}
  Salary = {2}
  Period = {1, 2}
  MaxEdits = 3
  MaxCrashes = 1
  MaxBoosts = 5
  Author <- MCAuthor
  Month <- MCMonth
  Reward = 1
  MonthlyLimit = 1
  MaxStops = 2
  MaxFreezes = 2
  Parts = {"notices", "salaries", "boosts"}
SPECIFICATION FairTreasurySpec
CHECK_DEADLOCK FALSE
INVARIANTS
  BooksSound
  LostOnlyWithTheDigest
  PaidAsApproved
  BoostsPaidRight
PROPERTIES
  BankSpec
  MonthsInOrder
  PaidInOrder
  WorkerCatchesUp
