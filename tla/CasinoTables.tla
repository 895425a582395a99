---------------------------- MODULE CasinoTables ----------------------------
(***************************************************************************)
(* Games that live in the process: solo games, the roulette table and the  *)
(* player-against-player table, apps/bot/src/casino.  Their stakes, their  *)
(* exposure and their house reservation are rows; who sits where, the bets *)
(* of the table and the phase of the game are memory.                      *)
(*                                                                         *)
(* A handler runs without a pause between its awaits, so the part of it    *)
(* that moves money is one step.  A refused bet changes nothing.  When a   *)
(* group fails because the casino was closed in the meantime the refund    *)
(* fails as well, and the table stays as it is until the next start.       *)
(***************************************************************************)
EXTENDS DailyRisk

CONSTANTS
  Roulette, Pvp,   \* sessions of the two kinds of table
  Bets, SoloBets,  \* amounts bet at tables and in solo games
  Odds,            \* type of a roulette bet |-> payout multiplier
  SoloOdds,        \* highest payout multiplier of a solo game
  CutBps,          \* share of a PvP pot that goes to the jackpot
  MaxGames         \* bound: solo games played

ASSUME CasinoTablesAssumption ==
  /\ Roulette \subseteq Session /\ Pvp \subseteq Session
  /\ Roulette \intersect Pvp = {}
  /\ {"solo", "none"} \intersect Session = {}
  /\ Bets \union SoloBets \subseteq Nat \ {0}
  /\ \A t \in DOMAIN Odds : Odds[t] \in Nat \ {0}
  /\ SoloOdds \in Nat \ {0}
  /\ CutBps \in 0 .. 10000
  /\ MaxGames \in Nat

VARIABLES
  status,   \* casino_status
  up,       \* the process serves interactions
  seat,     \* held: player |-> a session, "solo" or "none"
  solo,     \* player |-> bet of the running solo game, 0 without one
  games,    \* how many solo games have started
  phase,    \* table |-> "none", "open", "spinning", "stuck", "over"
  bets      \* roulette table |-> player |-> [type, amount]

tableVars == <<seat, solo, games, phase, bets>>
moneyVars == <<vault, reserved, frozen, stats>>

NoBet == [type |-> "none", amount |-> 0]

Serving == up /\ status = "open"

MaySitAnywhere(u, k) == TRUE      \* mutant: one player at two tables

\* One table at a time; the same table may be entered again.
MaySit(u, k) == seat[u] \in {"none", k}

Leave(us) == [u \in Player |-> IF u \in us THEN "none" ELSE seat[u]]

Seated(s) == {u \in Player : seat[u] = s}

InPlay(s) == {u \in Player : vault.book[s][u] > 0}

-----------------------------------------------------------------------------
(* Solo games: the worst loss is the bet, the worst debt of the house is   *)
(* what it pays beyond the bet.                                            *)

SoloDebt(n) == n * (SoloOdds - 1)

StartGame(u, n) ==
  /\ Serving
  /\ games < MaxGames
  /\ seat[u] = "none"
  /\ Prospective(u, n)
  /\ CanFund(vault, u, n)
  /\ CanResize(u, SoloDebt(n))
  /\ seat' = [seat EXCEPT ![u] = "solo"]
  /\ solo' = [solo EXCEPT ![u] = n]
  /\ games' = games + 1
  /\ risk' = StartSolo(u, n)
  /\ vault' = Fund(vault, u, n)
  /\ reserved' = [reserved EXCEPT ![u] = SoloDebt(n)]
  /\ UNCHANGED <<frozen, stats, today, status, up, phase, bets>>

SoloOver(u) ==
  /\ seat' = Leave({u})
  /\ solo' = [solo EXCEPT ![u] = 0]
  /\ reserved' = ReleaseOne(u)
  /\ UNCHANGED <<frozen, today, status, up, games, phase, bets>>

\* The bet was funded, but nothing keeps the player from spending the chips at
\* a board meanwhile: then the charge throws (AbandonGame).
FinishGame(u, payout) ==
  /\ Serving
  /\ solo[u] > 0
  /\ vault.chips[u] >= solo[u]
  /\ vault' = Transfer(Transfer(vault, u, House, solo[u]), House, u, payout)
  /\ vault'.chips[House] >= 0
  /\ stats' = [stats EXCEPT ![u] = @ + payout - solo[u]]
  /\ risk' = SettleSolo(u, payout - solo[u])
  /\ SoloOver(u)

\* The group is refused or the handler throws: no money has moved, the seat
\* and the reservation are given back by the finally blocks.
AbandonGame(u) ==
  /\ up
  /\ solo[u] > 0
  /\ risk' = [risk EXCEPT !.start[u] = NoStart]
  /\ UNCHANGED <<vault, stats>>
  /\ SoloOver(u)

-----------------------------------------------------------------------------
(* Roulette.  A second bet of the same player replaces the first.          *)

\* What the house may lose on a bet, beyond the bet itself.
BetDebt(b) == b.amount * (IF b.amount > 0 THEN Odds[b.type] - 1 ELSE 0)

TableDebt(bs) == SumFunction([u \in Player |-> BetDebt(bs[u])])

OpenTable(s) ==
  /\ Serving
  /\ phase[s] = "none"
  /\ phase' = [phase EXCEPT ![s] = "open"]
  /\ UNCHANGED <<moneyVars, today, risk, status, up, seat, solo, games,
                 bets>>

WithBet(s, u, t, n) == [bets[s] EXCEPT ![u] = [type |-> t, amount |-> n]]

AcceptRouletteBet(s, u, t, n) ==
  LET back == RefundOne(vault, s, u)
      next == WithBet(s, u, t, n)
  IN /\ Serving
     /\ phase[s] = "open"
     /\ MaySit(u, s)
     /\ MayExpose(s, u, n, "replace")
     /\ CanResize(s, TableDebt(next))
     /\ CanFund(back, u, n)
     /\ seat' = [seat EXCEPT ![u] = s]
     /\ risk' = Expose(s, {u}, n, "replace")
     /\ reserved' = [reserved EXCEPT ![s] = TableDebt(next)]
     /\ vault' = Hold(back, s, u, n)
     /\ bets' = [bets EXCEPT ![s] = next]
     /\ UNCHANGED <<frozen, stats, today, status, up, solo, games, phase>>

NobodyBets == [u \in Player |-> NoBet]

\* A table that is over, or stuck, does not look at its bets again.
ForgetBets(s) ==
  bets' = [x \in Roulette |-> IF x = s THEN NobodyBets ELSE bets[x]]

Bettors(s) == {u \in Player : bets[s][u].amount > 0}

\* Betting ends; a table without bets is over.
CloseBetting(s) ==
  /\ up
  /\ s \in Roulette /\ phase[s] = "open"
  /\ phase' = [phase EXCEPT
                 ![s] = IF Bettors(s) = {} THEN "over" ELSE "spinning"]
  /\ UNCHANGED <<moneyVars, today, risk, status, up, seat, solo, games,
                 bets>>

PayoutOf(b, hit) ==
  IF b.amount > 0 /\ b.type \in hit THEN b.amount * Odds[b.type] ELSE 0

RouletteNet(s, hit) ==
  [u \in Player |-> PayoutOf(bets[s][u], hit) - bets[s][u].amount]

\* The stakes go back, then every bet is charged and paid; with the bets of
\* the memory, not the rows of the book.
Spun(v, s, hit) == Pay(Refund(v, s), House, RouletteNet(s, hit))

SettleRoulette(s, hit) ==
  LET net == RouletteNet(s, hit)
  IN /\ Serving
     /\ s \in Roulette /\ phase[s] = "spinning"
     /\ vault' = Spun(vault, s, hit)
     /\ vault'.chips[House] >= 0
     /\ stats' = [u \in Player |-> stats[u] + net[u]]
     /\ risk' = SettleExposures(s, Bettors(s), net)
     /\ reserved' = ReleaseOne(s)
     /\ phase' = [phase EXCEPT ![s] = "over"]
     /\ seat' = Leave(Seated(s))
     /\ ForgetBets(s)
     /\ UNCHANGED <<frozen, today, status, up, solo, games>>

\* voidRouletteTable, voidPvpTable: stakes, exposures, reservation and seats
\* go back together when the game could not be settled.
VoidTable(s) ==
  /\ vault' = Refund(vault, s)
  /\ risk' = ReleaseScope(s)
  /\ reserved' = ReleaseOne(s)
  /\ seat' = Leave(Seated(s))
  /\ phase' = [phase EXCEPT ![s] = "over"]
  /\ ForgetBets(s)
  /\ UNCHANGED <<frozen, stats, today, status, up, solo, games>>

\* The casino was closed, so the settlement throws and so does the refund; or
\* Discord refuses the card of a spinning wheel, which nothing catches before
\* the seats are let go.  Who still has an exposure keeps his seat.
GetStuck(s) ==
  /\ up
  /\ s \in Pvp => status # "open"
  /\ phase[s] = (IF s \in Roulette THEN "spinning" ELSE "open")
  /\ InPlay(s) # {}
  /\ phase' = [phase EXCEPT ![s] = "stuck"]
  /\ UNCHANGED <<moneyVars, today, risk, status, up, seat, solo, games>>
  /\ ForgetBets(s)

\* The reservation of a table that has been stuck for a day is released.
SweepStale(s) ==
  /\ up
  /\ phase[s] = "stuck" /\ reserved[s] > 0
  /\ reserved' = ReleaseOne(s)
  /\ UNCHANGED <<vault, frozen, stats, today, risk, status, up, tableVars>>

-----------------------------------------------------------------------------
(* Tables of players against each other.                                   *)

CollectStakes(s, us, n) ==
  /\ Serving
  /\ s \in Pvp
  /\ phase[s] \in {"none", "open"}
  /\ \A u \in us : MaySit(u, s)
  /\ \A u \in us : MayExpose(s, u, n, "add")
  /\ \A u \in us : CanFund(vault, u, n)
  /\ vault' = HoldAll(vault, s, us, n)
  /\ risk' = Expose(s, us, n, "add")
  /\ seat' = [u \in Player |-> IF u \in us THEN s ELSE seat[u]]
  /\ phase' = [phase EXCEPT ![s] = "open"]
  /\ UNCHANGED <<reserved, frozen, stats, today, status, up, solo, games, bets>>

\* The pot less the cut, shared; what does not divide goes to the first.
Shares(pot, winners, first) ==
  LET cut  == (pot * CutBps) \div 10000
      rest == pot - cut
      n    == Cardinality(winners)
  IN IF winners = {} THEN [h \in {Jackpot} |-> pot]
     ELSE [h \in winners \union {Jackpot} |->
             CASE h = Jackpot -> cut
               [] h = first   -> rest - (n - 1) * (rest \div n)
               [] OTHER       -> rest \div n]

SettlePvp(s, winners, first) ==
  LET pay == Shares(Staked(vault, s), winners, first)
  IN /\ Serving
     /\ s \in Pvp /\ phase[s] = "open"
     /\ winners \subseteq InPlay(s)
     /\ winners # {} => first \in winners
     /\ SettlePays(vault, s, pay)
     /\ vault' = Settle(vault, s, pay)
     /\ stats' = StatsAfter(vault, s, pay)
     /\ risk' = SettleExposures(s, InPlay(s),
                                [u \in Player |-> NetOf(vault, s, pay, u)])
     /\ phase' = [phase EXCEPT ![s] = "over"]
     /\ seat' = Leave(Seated(s))
     /\ UNCHANGED <<reserved, frozen, today, status, up, solo, games, bets>>

\* A draw, a withdrawal, or a handler that failed after the stakes were taken.
CancelTable(s) ==
  /\ Serving
  /\ \/ s \in Pvp /\ phase[s] = "open"
     \/ s \in Roulette /\ phase[s] = "spinning"
  /\ VoidTable(s)

-----------------------------------------------------------------------------
(* Free chips leave the casino when their owner is at no table.            *)

RedeemFree(u) ==
  /\ Serving
  /\ seat[u] = "none" /\ u \notin frozen
  /\ vault.chips[u] > 0
  /\ vault' = RedeemAll(vault, u)
  /\ UNCHANGED <<reserved, frozen, stats, today, risk, status, up, tableVars>>

\* The operator moves n chips of the house to a department: never chips that
\* a running game may need.
SettleHouse(n) ==
  /\ Serving
  /\ n =< Available
  /\ vault' = [vault EXCEPT !.chips[House] = @ - n, !.pool = @ - n]
  /\ UNCHANGED <<reserved, frozen, stats, today, risk, status, up, tableVars>>

-----------------------------------------------------------------------------
NobodySits == [u \in Player |-> "none"]

TablesInit(houseChips) ==
  /\ ChipsInit(houseChips)
  /\ DailyRiskInit
  /\ status = "open" /\ up = TRUE
  /\ seat = NobodySits
  /\ solo = [u \in Player |-> 0] /\ games = 0
  /\ phase = [s \in Roulette \union Pvp |-> "none"]
  /\ bets = [s \in Roulette |-> NobodyBets]

TableStep ==
  \/ \E u \in Player, n \in SoloBets : StartGame(u, n)
  \/ \E u \in Player : \E p \in {m \in 0 .. solo[u] * SoloOdds :
                                   m \in {0, solo[u], solo[u] * SoloOdds}} :
       FinishGame(u, p)
  \/ \E u \in Player : AbandonGame(u) \/ RedeemFree(u)
  \/ \E s \in Roulette : OpenTable(s) \/ CloseBetting(s) \/ SweepStale(s)
  \/ \E s \in Roulette, u \in Player, t \in DOMAIN Odds, n \in Bets :
       AcceptRouletteBet(s, u, t, n)
  \/ \E s \in Roulette, hit \in SUBSET DOMAIN Odds : SettleRoulette(s, hit)
  \/ \E s \in Pvp, us \in (SUBSET Player) \ {{}}, n \in Bets :
       CollectStakes(s, us, n)
  \/ \E s \in Pvp, w \in SUBSET Player, u \in Player : SettlePvp(s, w, u)
  \/ \E s \in Roulette \union Pvp : CancelTable(s) \/ GetStuck(s)

=============================================================================
