----------------------------- MODULE SoloGames -----------------------------
(***************************************************************************)
(* The games one gambler plays against the house: slots, chohan, crash,    *)
(* poker, holdem, blackjack and chinchiro (apps/bot/src/casino, and        *)
(* liability.ts, service.ts, items.ts and free-spins.ts of                 *)
(* packages/core/src/casino).                                              *)
(*                                                                         *)
(* A round reserves what it may cost the house, plays across many awaits,  *)
(* and is settled in one transaction.  Meanwhile other rounds settle, the  *)
(* gambler buys and puts on charms, and the process may die.               *)
(*                                                                         *)
(* Factors are per cents.  The code multiplies floats: payments agree with *)
(* the integers used here, a reservation may be one Ld higher at the       *)
(* factors 1.10 and 1.35.                                                  *)
(***************************************************************************)
EXTENDS Integers, FiniteSets, FiniteSetsExt, Functions

CONSTANTS
  Gambler,
  Offers,       \* the games played and the bets placed: <<game, bet>>
  Reels,        \* results of the reels that may turn up
  Throws,       \* results of the dice that may turn up
  CashOuts,     \* factors at which a crash may be left
  Goods,        \* charms on sale
  Wallets,      \* Land of each gambler at the beginning
  Streaks,      \* wins in a row at the beginning
  HouseChips,         \* chips of the house at the beginning
  MaxRounds,    \* bound: rounds opened
  MaxCharms,    \* bound: charms bought
  MaxBreaks     \* bound: rounds broken off and restarts

Games == {"slots", "chohan", "crash", "poker", "holdem", "blackjack", "chinchiro"}

Normal == {"bat", "ghost", "fire", "sword", "crown", "mammon"}
Symbols == Normal \union {"moon", "soul"}

Hands == {"pinzoro", "zorome", "shigoro", "me", "menashi", "hifumi"}

ASSUME SoloAssumption ==
  /\ IsFiniteSet(Gambler)
  /\ \A o \in Offers : o[1] \in Games /\ o[2] \in Nat \ {0}
  /\ Reels \subseteq [1..3 -> Symbols]
  /\ Throws \subseteq [type : Hands, value : 0..6]
  /\ CashOuts \subseteq 150..10000
  /\ Goods \subseteq {"omamori", "hoken", "higo"}
  /\ Wallets \in [Gambler -> Nat] /\ Streaks \in [Gambler -> Nat]
  /\ HouseChips \in Nat

VARIABLES
  pocket,    \* gambler |-> [land, chips, held]: Land, free chips, escrow
  house, jackpot, relief,
  claims,    \* the holder of the jackpots that free spins have won
  streak, record,   \* casino_stats: wins in a row, earned minus lost
  shelf, worn,      \* casino_items, casino_active_effects
  round,     \* gambler |-> the round in memory and its reservation
  spins,     \* casino_pending_free_spins that are not settled
  opened, bought, broken,
  spent,     \* history: what a gambler paid for charms
  late       \* history: a charm was put on under a running round

soloVars == <<pocket, house, jackpot, relief, claims, streak, record, shelf,
              worn, round, spins, opened, bought, broken, spent, late>>

NoRound == [no |-> 0, game |-> "none", bet |-> 0, staked |-> 0,
            step |-> "idle", reserved |-> 0, double |-> FALSE]

Smaller(a, b) == IF a < b THEN a ELSE b
Larger(a, b) == IF a > b THEN a ELSE b

Cash(u) == pocket[u].land + pocket[u].chips

\* ensureFreeChips: the exact shortage comes from the Land.
Filled(p, n) == [p EXCEPT !.land = @ - Larger(0, n - p.chips),
                          !.chips = Larger(@, n)]

\* n is paid, or held as escrow.
Paid(p, n) == [Filled(p, n) EXCEPT !.chips = @ - n]
Escrowed(p, n) == [Paid(p, n) EXCEPT !.held = n]

-----------------------------------------------------------------------------
(* What the games pay, stake included.                                     *)

Triple == [bat |-> 2, ghost |-> 3, fire |-> 5, sword |-> 10, crown |-> 25,
           mammon |-> 100, moon |-> 15]
Double == [bat |-> 1, ghost |-> 1, fire |-> 2, sword |-> 3, crown |-> 5,
           mammon |-> 10]

\* evaluate: a soul voids the line, moons stand for one other symbol.
SpinFactor(reels) ==
  LET seen == Range(reels)
      ordinary == seen \intersect Normal
      twin == {s \in ordinary : Cardinality({i \in 1..3 : reels[i] = s}) = 2}
      alike == Cardinality(seen) = 1
      wild == "moon" \in seen /\ Cardinality(ordinary) = 1
  IN CASE "soul" \in seen -> 0
       [] "soul" \notin seen /\ alike -> Triple[reels[1]]
       [] "soul" \notin seen /\ ~alike /\ wild ->
            Triple[CHOOSE s \in ordinary : TRUE]
       [] {"soul", "moon"} \intersect seen = {} /\ ~alike /\ twin # {} ->
            Double[CHOOSE s \in twin : TRUE]
       [] OTHER -> 0

WinsFreeSpin(reels) == Range(reels) = {"soul"}
WinsJackpot(reels) == Range(reels) = {"mammon"}

JackpotCut(bet) == Larger(1, bet \div 100)

\* Hands of three dice: [type, value].
HandRank(h) ==
  CASE h.type = "pinzoro" -> 1000
    [] h.type = "zorome" -> 800 + h.value
    [] h.type = "shigoro" -> 700
    [] h.type = "me" -> 100 + h.value
    [] h.type = "menashi" -> 0
    [] h.type = "hifumi" -> -100

WinFactor(h) ==
  CASE h.type = "pinzoro" -> 5
    [] h.type = "zorome" -> 3
    [] h.type = "shigoro" -> 2
    [] OTHER -> 1

LossFactorAsWon(h) == WinFactor(h)    \* mutant: losses are not capped

LossFactor(h) ==
  IF h.type \in {"pinzoro", "zorome", "shigoro"} THEN 2 ELSE 1

\* chinchiroCompare: positive is the gambler's gain, a tie is the house's.
Versus(p, d) ==
  CASE p.type = "hifumi" /\ d.type = "hifumi" -> 0
    [] p.type = "hifumi" /\ d.type # "hifumi" -> -2
    [] p.type # "hifumi" /\ d.type = "hifumi" -> 2
    [] OTHER -> IF HandRank(p) > HandRank(d) THEN WinFactor(p)
                ELSE IF HandRank(p) < HandRank(d) THEN -LossFactor(d) ELSE -1

ChinchiroPay(bet, m) ==
  IF m > 0 THEN bet + (bet * m * 85) \div 100 ELSE IF m = 0 THEN bet ELSE 0

ChohanPays(r) == {0, (r.bet * 194) \div 100}
CrashPays(r) == {0} \union {(r.bet * c) \div 100 : c \in CashOuts}
PokerFactors == {0, 2, 3, 4, 5, 7, 10, 26, 51, 251}
PokerPays(r) == {r.bet * f : f \in PokerFactors}
HoldemPays(r) == {0, r.staked, 2 * r.staked}

\* A natural pays 3:2, and is found before a hand can be doubled.
BlackjackPays(r) ==
  {0, r.staked, 2 * r.staked}
    \union (IF r.staked = r.bet THEN {(5 * r.bet) \div 2} ELSE {})

\* The payments a round that is not slots or chinchiro may come to.
Results(r) ==
  CASE r.game = "chohan" -> ChohanPays(r)
    [] r.game = "crash" -> CrashPays(r)
    [] r.game = "poker" -> PokerPays(r)
    [] r.game = "holdem" -> HoldemPays(r)
    [] r.game = "blackjack" -> BlackjackPays(r)
    [] OTHER -> {}

Chained(game) == game \notin {"chohan", "crash"}

-----------------------------------------------------------------------------
(* Bonuses and deductions of a settlement.                                 *)

ChainTiers == {<<0, 100>>, <<2, 105>>, <<3, 110>>, <<5, 120>>, <<7, 135>>,
               <<10, 150>>, <<15, 175>>, <<20, 200>>}

\* The factor of the n-th win in a row.
ChainFactor(n) == Max({t[2] : t \in {t \in ChainTiers : t[1] =< n}})

\* As a float 1.2 - 1 is a little less than 0.2.
ChainBonus(pay, n) ==
  IF ChainFactor(n) = 120 THEN (pay * 20 - 1) \div 100
  ELSE (pay * (ChainFactor(n) - 100)) \div 100

\* The weight of luck, in per cents of the gain, by the chips then held.
FukuRate(chips) ==
  CASE chips =< 100000 -> 0
    [] chips > 100000 /\ chips =< 500000 -> 5
    [] chips > 500000 /\ chips =< 1000000 -> 10
    [] chips > 1000000 /\ chips =< 3000000 -> 20
    [] OTHER -> 30

CharmCap == [omamori |-> 3000, hoken |-> 2000, higo |-> 10000]
CharmPrice == [omamori |-> 4000, hoken |-> 3000, higo |-> 12000]

\* consumeAmulets: what a payment becomes, and the charm that is used up.
Charmed(charms, bet, raw) ==
  CASE raw > bet /\ "omamori" \in charms ->
         [pay |-> raw + Smaller(((raw - bet) * 5) \div 100, CharmCap.omamori),
          used |-> {"omamori"}]
    [] raw < bet /\ "higo" \in charms ->
         [pay |-> Smaller(bet, CharmCap.higo), used |-> {"higo"}]
    [] raw < bet /\ "hoken" \in charms /\ "higo" \notin charms ->
         [pay |-> Smaller(bet \div 2, CharmCap.hoken), used |-> {"hoken"}]
    [] OTHER -> [pay |-> raw, used |-> {}]

\* settleSolo: the stake comes from "chips" of the gambler, or was held.
Settled(u, bet, raw, chained, cut, chips) ==
  LET c == Charmed(worn[u], bet, raw)
      left == house + bet - c.pay
      bonus == IF chained /\ c.pay > bet
               THEN Smaller(ChainBonus(c.pay, streak[u] + 1), left) ELSE 0
      tax == IF c.pay > bet
             THEN ((c.pay - bet + bonus) * FukuRate(chips + c.pay + bonus))
                    \div 100
             ELSE 0
      toPot == IF left - bonus >= cut THEN cut ELSE 0
      net == c.pay + bonus - tax - bet
  IN [possible |-> chips >= 0 /\ left >= 0,
      used    |-> c.used,
      chips   |-> chips + bet + net,
      house   |-> left - bonus - toPot,
      jackpot |-> jackpot + toPot + tax \div 2,
      relief  |-> relief + (tax + 1) \div 2,
      net     |-> net,
      streak  |-> IF net > 0 THEN streak[u] + 1
                  ELSE IF net < 0 THEN 0 ELSE streak[u]]

-----------------------------------------------------------------------------
(* What a round may cost the house, and the gambler.                       *)

WinBonusCap(u) == IF "omamori" \in worn[u] THEN CharmCap.omamori ELSE 0

GrossWithoutChain(u, pay, chained) == pay + WinBonusCap(u)  \* mutant

\* The largest payment with its chain bonus, rounded up.
Gross(u, pay, chained) ==
  IF chained
  THEN ((pay + WinBonusCap(u)) * ChainFactor(streak[u] + 1) + 99) \div 100
  ELSE pay + WinBonusCap(u)

NoDoubleLiability(u, bet) ==
  Larger(0, Gross(u, (5 * bet) \div 2, TRUE) - bet)

Liability(u, game, bet) ==
  LET costs(pay, back) == Larger(0, Gross(u, pay, Chained(game)) - back)
  IN CASE game = "slots" ->
            costs(100 * bet, bet - JackpotCut(bet))
              + 100 * bet + WinBonusCap(u)
       [] game = "chohan" -> costs((bet * 194) \div 100, bet)
       [] game = "crash" -> costs(100 * bet, bet)
       [] game = "poker" -> costs(251 * bet, bet)
       [] game = "holdem" -> costs(10 * bet, 5 * bet)
       [] game = "blackjack" -> costs(4 * bet, 2 * bet)
       [] game = "chinchiro" -> costs(ChinchiroPay(bet, 5), bet)

MaxPlayerLoss(game, bet) ==
  CASE game = "holdem" -> 5 * bet
    [] game \in {"blackjack", "chinchiro"} -> 2 * bet
    [] OTHER -> bet

Reserved(us) == SumFunction([u \in us |-> round[u].reserved])

Free == Larger(0, house - Reserved(Gambler))

PreholdOnce(bet) == bet          \* mutant: only the bet is held
Prehold(bet) == 2 * bet

-----------------------------------------------------------------------------
(* A round.                                                                *)

Charms == UNCHANGED <<shelf, bought, spent>>
Till == UNCHANGED <<house, jackpot, relief, claims>>

\* The free spins of the gambler that can be paid before the next slots.
Payable(s) == s.pay =< Free

\* validateBet: seat, table limit, automatic deposit.
OpenRound(u, game, bet) ==
  /\ round[u] = NoRound
  /\ opened < MaxRounds
  /\ game = "slots" => \A s \in spins : s.who = u => ~Payable(s)
  /\ Liability(u, game, bet) =< Free
  /\ Cash(u) >= bet
  /\ pocket' = [pocket EXCEPT ![u] = Filled(@, bet)]
  /\ round' = [round EXCEPT ![u] =
                 [no |-> opened + 1, game |-> game, bet |-> bet, staked |-> bet,
                  step |-> "checked", reserved |-> 0, double |-> FALSE]]
  /\ opened' = opened + 1
  /\ UNCHANGED <<streak, record, worn, spins, broken, late>> /\ Charms /\ Till

\* The reservation a round gets now, 0 if the house cannot afford it.
Affordable(u) ==
  LET r == round[u]
      full == Liability(u, r.game, r.bet)
  IN IF full =< Free THEN full
     ELSE IF r.game = "blackjack" /\ NoDoubleLiability(u, r.bet) =< Free
          THEN NoDoubleLiability(u, r.bet) ELSE 0

\* The reservation is made; chinchiro also holds twice the bet.
BeginRound(u) ==
  LET r == round[u]
      held == IF r.game = "chinchiro" THEN Prehold(r.bet) ELSE 0
  IN /\ r.step = "checked"
     /\ \/ /\ Affordable(u) > 0 /\ Cash(u) >= held
           /\ round' = [round EXCEPT ![u] = [r EXCEPT
                 !.step = "playing", !.reserved = Affordable(u),
                 !.double = (Affordable(u) = Liability(u, r.game, r.bet))]]
           /\ pocket' = IF held = 0 THEN pocket
                        ELSE [pocket EXCEPT ![u] = Escrowed(@, held)]
        \/ /\ Affordable(u) = 0 \/ Cash(u) < held
           /\ round' = [round EXCEPT ![u] = NoRound]
           /\ UNCHANGED pocket
     /\ UNCHANGED <<streak, record, worn, spins, opened, broken, late>>
     /\ Charms /\ Till

\* The gambler raises: doubles in blackjack, or calls in holdem.
Raise(u) ==
  LET r == round[u]
      most == IF r.game = "holdem" THEN 5 * r.bet ELSE 2 * r.bet
  IN /\ r.step = "playing"
     /\ r.game = "holdem" \/ (r.game = "blackjack" /\ r.double)
     /\ r.staked < most
     /\ pocket[u].chips >= r.staked + r.bet
     /\ round' = [round EXCEPT ![u].staked = @ + r.bet]
     /\ UNCHANGED <<pocket, streak, record, worn, spins, opened, broken, late>>
     /\ Charms /\ Till

\* The settlement o of a round, "extra" more to the house from the escrow.
Book(u, o, extra, back) ==
  /\ pocket' = [pocket EXCEPT ![u].chips = o.chips + back, ![u].held = 0]
  /\ house' = o.house + extra
  /\ jackpot' = o.jackpot
  /\ relief' = o.relief
  /\ streak' = [streak EXCEPT ![u] = o.streak]
  /\ record' = [record EXCEPT ![u] = @ + o.net - extra]
  /\ worn' = [worn EXCEPT ![u] = @ \ o.used]
  /\ round' = [round EXCEPT ![u] = NoRound]

\* Any game but slots and chinchiro.
FinishRound(u) ==
  LET r == round[u]
  IN /\ r.step = "playing"
     /\ \E raw \in Results(r) :
          LET o == Settled(u, r.staked, raw, Chained(r.game), 0,
                           pocket[u].chips - r.staked)
          IN o.possible /\ Book(u, o, 0, 0)
     /\ UNCHANGED <<claims, spins, opened, broken, late>> /\ Charms

\* settleChinchiroRound: the stake comes from the escrow, a double loss takes
\* all of it, the rest goes back.
FinishChinchiro(u) ==
  LET r == round[u]
  IN /\ r.step = "playing" /\ r.game = "chinchiro"
     /\ \E p, d \in Throws :
          LET m == Versus(p, d)
              o == Settled(u, r.bet, ChinchiroPay(r.bet, m), TRUE, 0,
                           pocket[u].chips)
              extra == Larger(0, -m * r.bet - r.bet)
          IN o.possible /\ Book(u, o, extra, 2 * r.bet - r.bet - extra)
     /\ UNCHANGED <<claims, spins, opened, broken, late>> /\ Charms

\* A round is broken off: an error of Discord, the time limit of chohan, a
\* settlement that throws.  The escrow goes back.
BreakOff(u) ==
  /\ round[u].step = "playing"
  /\ broken < MaxBreaks
  /\ broken' = broken + 1
  /\ round' = [round EXCEPT ![u] = NoRound]
  /\ pocket' = [pocket EXCEPT ![u].chips = @ + pocket[u].held, ![u].held = 0]
  /\ UNCHANGED <<streak, record, worn, spins, opened, late>> /\ Charms /\ Till

-----------------------------------------------------------------------------
(* Slots.                                                                  *)

\* spinPaid: the stake, the payment, the cut, the jackpot and the free spin
\* with its result, its charm and its claim are one transaction.
SpinPaid(u) ==
  LET r == round[u]
  IN /\ r.step = "playing" /\ r.game = "slots"
     /\ \E reels, next \in Reels :
          LET o == Settled(u, r.bet, r.bet * SpinFactor(reels), TRUE,
                           JackpotCut(r.bet), pocket[u].chips - r.bet)
              won == IF WinsJackpot(reels) THEN o.jackpot \div 2 ELSE 0
              free == Charmed(worn[u] \ o.used, r.bet,
                              r.bet * SpinFactor(next))
              claim == IF WinsJackpot(next) THEN o.jackpot \div 2 ELSE 0
              again == WinsFreeSpin(reels)
          IN /\ o.possible
             /\ next = reels \/ again
             /\ pocket' = [pocket EXCEPT ![u].chips = o.chips + won]
             /\ house' = o.house
             /\ relief' = o.relief
             /\ jackpot' = o.jackpot - won - (IF again THEN claim ELSE 0)
             /\ claims' = claims + (IF again THEN claim ELSE 0)
             /\ streak' = [streak EXCEPT ![u] = o.streak]
             /\ record' = [record EXCEPT ![u] = @ + o.net + won]
             /\ worn' = [worn EXCEPT
                           ![u] = @ \ (o.used \union
                                        (IF again THEN free.used ELSE {}))]
             /\ spins' = IF again
                         THEN spins \union {[no |-> r.no,
                                              who |-> u, pay |-> free.pay,
                                              claim |-> claim]}
                         ELSE spins
     /\ round' = [round EXCEPT ![u].step = "spun"]
     /\ UNCHANGED <<opened, broken, late>> /\ Charms

\* resolveFreeSpin: pay all of it, or leave the right as it is.
PaySpin(s) ==
  /\ spins' = spins \ {s}
  /\ pocket' = [pocket EXCEPT ![s.who].chips = @ + s.pay + s.claim]
  /\ house' = house - s.pay
  /\ claims' = claims - s.claim
  /\ record' = [record EXCEPT ![s.who] = @ + s.pay + s.claim]
  /\ UNCHANGED <<jackpot, relief, streak, worn, opened, broken, late>>

\* The reels stop: the free spin just won is paid under the round's own
\* reservation, which is then released.
EndSpin(u) ==
  /\ round[u].step = "spun"
  /\ \/ \E s \in spins :
          /\ s.who = u /\ s.no = round[u].no
          /\ s.pay =< house - Reserved(Gambler \ {u})
          /\ PaySpin(s) /\ UNCHANGED round
     \/ /\ round' = [round EXCEPT ![u] = NoRound]
        /\ \A s \in spins :
             s.who = u /\ s.no = round[u].no =>
               s.pay > house - Reserved(Gambler \ {u})
        /\ UNCHANGED <<pocket, streak, record, worn, spins, opened, broken,
                       late>> /\ Till
  /\ Charms

\* A right that was left over is paid before the next slots or at start-up.
ResumeSpin(u) ==
  /\ round[u] = NoRound
  /\ \E s \in spins : s.who = u /\ Payable(s) /\ PaySpin(s)
  /\ UNCHANGED round /\ Charms

-----------------------------------------------------------------------------
(* The charm shop, and restarts.                                           *)

\* buyConsumable: no seat is asked for.
BuyCharm(u, c) ==
  /\ bought < MaxCharms
  /\ Cash(u) >= CharmPrice[c]
  /\ pocket' = [pocket EXCEPT ![u] = Paid(@, CharmPrice[c])]
  /\ house' = house + CharmPrice[c]
  /\ shelf' = [shelf EXCEPT ![u][c] = @ + 1]
  /\ bought' = bought + 1
  /\ spent' = [spent EXCEPT ![u] = @ + CharmPrice[c]]
  /\ UNCHANGED <<jackpot, relief, claims, streak, record, worn, round, spins,
                 opened, broken, late>>

PutOn(u, c) ==
  /\ shelf[u][c] > 0 /\ c \notin worn[u]
  /\ shelf' = [shelf EXCEPT ![u][c] = @ - 1]
  /\ worn' = [worn EXCEPT ![u] = @ \union {c}]
  /\ late' = (late \/ (c = "omamori" /\ round[u].step = "playing"))
  /\ UNCHANGED <<pocket, streak, record, round, spins, opened, bought, broken,
                 spent>> /\ Till

\* Rounds and reservations are lost; the recovery returns the escrow and turns
\* free chips into Land.
RestartGames ==
  /\ broken < MaxBreaks
  /\ \E u \in Gambler : round[u] # NoRound
  /\ broken' = broken + 1
  /\ round' = [u \in Gambler |-> NoRound]
  /\ pocket' = [u \in Gambler |-> [land |-> Cash(u) + pocket[u].held,
                                   chips |-> 0, held |-> 0]]
  /\ UNCHANGED <<streak, record, worn, spins, opened, late>> /\ Charms /\ Till

-----------------------------------------------------------------------------
SoloInit ==
  /\ pocket = [u \in Gambler |-> [land |-> Wallets[u], chips |-> 0, held |-> 0]]
  /\ house = HouseChips /\ jackpot = HouseChips \div 10 /\ relief = 0 /\ claims = 0
  /\ streak = Streaks
  /\ record = [u \in Gambler |-> 0]
  /\ shelf = [u \in Gambler |-> [c \in Goods |-> 0]]
  /\ worn = [u \in Gambler |-> {}]
  /\ round = [u \in Gambler |-> NoRound]
  /\ spins = {}
  /\ opened = 0 /\ bought = 0 /\ broken = 0
  /\ spent = [u \in Gambler |-> 0]
  /\ late = FALSE

SoloNext ==
  \/ \E u \in Gambler :
       \/ \E o \in Offers : OpenRound(u, o[1], o[2])
       \/ BeginRound(u) \/ Raise(u) \/ FinishRound(u) \/ FinishChinchiro(u)
       \/ BreakOff(u) \/ SpinPaid(u) \/ EndSpin(u) \/ ResumeSpin(u)
       \/ \E c \in Goods : BuyCharm(u, c) \/ PutOn(u, c)
  \/ RestartGames

SoloSpec == SoloInit /\ [][SoloNext]_soloVars

-----------------------------------------------------------------------------
(* Properties.                                                             *)

\* Every payment has a source: Ld in pockets, escrow, house, jackpot, relief
\* fund and claims add up to what was there.  The claims' holder is worth the
\* jackpots of the rights still open, and the record of a gambler, which five
\* code paths write, is what his rounds did to his money.
SoloBooks ==
  /\ SumFunction([u \in Gambler |-> Cash(u) + pocket[u].held])
       + house + jackpot + relief + claims
       = SumFunction(Wallets) + HouseChips + HouseChips \div 10
  /\ claims = SumFunction([s \in spins |-> s.claim])
  /\ \A u \in Gambler :
       record[u] = Cash(u) + pocket[u].held + spent[u] - Wallets[u]

\* What the house still has to find for round u if it ends as badly as it can.
Exposure(u) ==
  LET r == round[u]
      cost(bet, pay) ==
        LET p == Charmed(worn[u], bet, pay).pay
        IN p - bet + (IF Chained(r.game) /\ p > bet
                      THEN ChainBonus(p, streak[u] + 1) ELSE 0)
      raise == IF r.game = "holdem" THEN {r.bet * i : i \in 1..5}
               ELSE IF r.game = "blackjack" /\ r.double
                    THEN {r.bet, 2 * r.bet} ELSE {r.bet}
      ends == IF r.game = "chinchiro"
              THEN {cost(r.bet, ChinchiroPay(r.bet, 5))}
              ELSE UNION {{cost(s, pay) : pay \in Results([r EXCEPT !.staked = s])} :
                            s \in raise}
  IN CASE r.step = "playing" /\ r.game = "slots" ->
            cost(r.bet, 100 * r.bet) + JackpotCut(r.bet)
              + Charmed(worn[u], r.bet, 100 * r.bet).pay
       [] r.step = "playing" /\ r.game # "slots" -> Max(ends \union {0})
       [] r.step = "spun" ->
            SumFunction([s \in {s \in spins : s.who = u /\ s.no = r.no} |-> s.pay])
       [] OTHER -> 0

\* However the rounds under way end, and in whatever order, the house can pay
\* all of them in full, chain bonuses included: no win is cut and no settlement
\* throws for lack of chips.  A charm put on after the reservation is the one
\* exception the code leaves open.
WinsAreCovered ==
  late \/ SumFunction([u \in Gambler |-> Exposure(u)]) =< house

\* No step takes more from a gambler than the screen announced for the round
\* under way; outside rounds only charms cost anything.
LossWithinTerms ==
  [][\A u \in Gambler :
       LET lost == Cash(u) + pocket[u].held - (Cash(u) + pocket[u].held)'
       IN spent'[u] = spent[u] =>
            lost =< (IF round[u].step = "playing"
                     THEN MaxPlayerLoss(round[u].game, round[u].bet) ELSE 0)
    ]_soloVars
=============================================================================
