SPECIFICATION MCSpec
CONSTANTS
  ann = ann  bob = bob  derby = derby  wheel = wheel  duel = duel
  yes = yes  no = no
  Player = {ann, bob}
  Session = {wheel, duel}
  Roulette = {wheel}
  Pvp = {duel}
  Board = {}
  House = house  Jackpot = jackpot  Quarantine = quarantine
  Wallet <- MCWallets
  HouseChips = 7
  LimitBps = 5000
  LastDay = 2
  Bets = {2}
  SoloBets = {3}
  MaxGames = 1
  Odds <- MCOdds
  SoloOdds = 2
  CutBps = 2500
  Creator <- NoBoards
  Option = {}
  BoardFee = 0
  Moderated = {}
  MaxTrouble = 2
INVARIANTS MoneyIsWhole HouseCanPay LossWithinTheDay OneTableEach
PROPERTY AutoOpeningIsClean
CHECK_DEADLOCK FALSE
SYMMETRY Swap
