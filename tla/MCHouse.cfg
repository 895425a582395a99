SPECIFICATION HouseSpec
CONSTANTS
  ann = ann  bob = bob
  Parts = {"opening", "games"}
  calm = calm  payday = payday  first = first  second = second
  nothing = nothing
  Plan = {calm, payday}
  NoPlan = nothing
  Operator = {ann, bob}
  Call = {first, second}
  NoCall = nothing
  MaxEvents = 3
  Gambler = {ann, bob}
  Offers <- MCOffers
  Reels <- MCReels
  Throws <- MCThrows
  CashOuts = {150, 10000}
  Goods = {"omamori", "hoken", "higo"}
  Wallets <- MCWallets
  Streaks <- MCStreaks
  HouseChips = 300000
  MaxRounds = 2
  MaxCharms = 1
  MaxBreaks = 1
INVARIANTS
  OpeningRecordsAgree
  SoloBooks
  WinsAreCovered
PROPERTIES
  DestroyedOnlyWithArchive
  ManualReviewStands
  LossWithinTerms
CHECK_DEADLOCK FALSE
