SPECIFICATION MCLiveSpec
CONSTANTS
  ann = ann  bob = bob  derby = derby  wheel = wheel  duel = duel
  yes = yes  no = no
  Player = {ann, bob}
  Session = {derby}
  Roulette = {}
  Pvp = {}
  Board = {derby}
  House = house  Jackpot = jackpot  Quarantine = quarantine
  Wallet <- MCWallets
  HouseChips = 7
  LimitBps = 5000
  LastDay = 1
  Bets = {2}
  SoloBets = {}
  MaxGames = 1
  Odds <- MCOdds
  SoloOdds = 2
  CutBps = 2500
  Creator <- MCCreator
  Option = {yes, no}
  BoardFee = 1
  Moderated = {bob}
  MaxTrouble = 3
INVARIANT BoardHoldsItsPot
PROPERTY BoardsMoveOn
CHECK_DEADLOCK FALSE
