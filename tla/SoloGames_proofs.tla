-------------------------- MODULE SoloGames_proofs --------------------------
(***************************************************************************)
(* The games against the house, for every set of gamblers, bets, results   *)
(* and charms, and for any number of rounds.                               *)
(*                                                                         *)
(* First the arithmetic of a settlement: what is paid comes from somewhere *)
(* (SettledMoney), the gambler loses no more than the stake (SettledNet),  *)
(* and the house pays no more than what the formula of the reservation     *)
(* gives (SettledCost).  Then the types, the rounds, the books, the terms  *)
(* and the cover of the rounds under way.                                  *)
(***************************************************************************)
EXTENDS SoloGames, Sums_proofs

-----------------------------------------------------------------------------
(* Arithmetic.                                                             *)

ChainFactors == {100, 105, 110, 120, 135, 150, 175, 200}

LEMMA MaxIs ==
  ASSUME NEW S \in SUBSET Int, NEW m \in S, \A x \in S : x =< m
  PROVE  Max(S) = m
<1>1. Max(S) \in S /\ \A y \in S : Max(S) >= y
  <2>1. \E x \in S : \A y \in S : x >= y
    OBVIOUS
  <2> QED
    BY <2>1 DEF Max
<1>2. Max(S) \in Int /\ Max(S) >= m /\ Max(S) =< m
  BY <1>1
<1> QED
  BY <1>2

LEMMA ChainFactorType ==
  ASSUME NEW n \in Nat
  PROVE  ChainFactor(n) \in ChainFactors
<1> DEFINE T == {t \in ChainTiers : t[1] =< n}
           S == {t[2] : t \in T}
<1>1. \A x : x \in S <=> \/ x = 100 /\ 0 =< n
                         \/ x = 105 /\ 2 =< n
                         \/ x = 110 /\ 3 =< n
                         \/ x = 120 /\ 5 =< n
                         \/ x = 135 /\ 7 =< n
                         \/ x = 150 /\ 10 =< n
                         \/ x = 175 /\ 15 =< n
                         \/ x = 200 /\ 20 =< n
  <2> SUFFICES ASSUME NEW x
               PROVE  (\E t \in ChainTiers : t[1] =< n /\ x = t[2])
                        <=> \/ x = 100 /\ 0 =< n
                            \/ x = 105 /\ 2 =< n
                            \/ x = 110 /\ 3 =< n
                            \/ x = 120 /\ 5 =< n
                            \/ x = 135 /\ 7 =< n
                            \/ x = 150 /\ 10 =< n
                            \/ x = 175 /\ 15 =< n
                            \/ x = 200 /\ 20 =< n
    OBVIOUS
  <2> QED
    BY DEF ChainTiers
<1>2. ChainFactor(n) = Max(S)
  BY DEF ChainFactor
<1> HIDE DEF S
<1>3. S \in SUBSET Int
  BY <1>1
<1>4. \E m \in ChainFactors : m \in S /\ \A x \in S : x =< m
  <2>1. CASE n < 2
    BY <1>1, <2>1 DEF ChainFactors
  <2>2. CASE 2 =< n /\ n < 3
    BY <1>1, <2>2 DEF ChainFactors
  <2>3. CASE 3 =< n /\ n < 5
    BY <1>1, <2>3 DEF ChainFactors
  <2>4. CASE 5 =< n /\ n < 7
    BY <1>1, <2>4 DEF ChainFactors
  <2>5. CASE 7 =< n /\ n < 10
    BY <1>1, <2>5 DEF ChainFactors
  <2>6. CASE 10 =< n /\ n < 15
    BY <1>1, <2>6 DEF ChainFactors
  <2>7. CASE 15 =< n /\ n < 20
    BY <1>1, <2>7 DEF ChainFactors
  <2>8. CASE 20 =< n
    BY <1>1, <2>8 DEF ChainFactors
  <2> QED
    BY <2>1, <2>2, <2>3, <2>4, <2>5, <2>6, <2>7, <2>8
<1> QED
  BY <1>2, <1>3, <1>4, MaxIs

\* A payment with its chain bonus is not more than the reservation counts.
LEMMA ChainBonusBound ==
  ASSUME NEW n \in Nat, NEW pay \in Nat, pay > 0
  PROVE  /\ ChainBonus(pay, n) \in Nat
         /\ pay + ChainBonus(pay, n) =< (pay * ChainFactor(n) + 99) \div 100
<1> DEFINE f == ChainFactor(n)
<1>1. f \in ChainFactors
  BY ChainFactorType
<1>2. ChainBonus(pay, n) = IF f = 120 THEN (pay * 20 - 1) \div 100
                           ELSE (pay * (f - 100)) \div 100
  BY DEF ChainBonus
<1> HIDE DEF f
<1>3. CASE f = 100
  BY <1>2, <1>3 DEF f
<1>4. CASE f = 105
  BY <1>2, <1>4 DEF f
<1>5. CASE f = 110
  BY <1>2, <1>5 DEF f
<1>6. CASE f = 120
  BY <1>2, <1>6 DEF f
<1>7. CASE f = 135
  BY <1>2, <1>7 DEF f
<1>8. CASE f = 150
  BY <1>2, <1>8 DEF f
<1>9. CASE f = 175
  BY <1>2, <1>9 DEF f
<1>10. CASE f = 200
  BY <1>2, <1>10 DEF f
<1> QED
  BY <1>1, <1>3, <1>4, <1>5, <1>6, <1>7, <1>8, <1>9, <1>10 DEF ChainFactors

\* A larger payment makes the reservation larger by at least as much.
LEMMA ChainGrows ==
  ASSUME NEW n \in Nat, NEW p \in Nat, NEW q \in Nat, p =< q
  PROVE  /\ (p * ChainFactor(n) + 99) \div 100 \in Nat
         /\ (p * ChainFactor(n) + 99) \div 100 >= p
         /\ (q * ChainFactor(n) + 99) \div 100
              >= (p * ChainFactor(n) + 99) \div 100 + (q - p)
<1> DEFINE f == ChainFactor(n)
<1>1. f \in ChainFactors
  BY ChainFactorType
<1> SUFFICES /\ (p * f + 99) \div 100 \in Nat
             /\ (p * f + 99) \div 100 >= p
             /\ (q * f + 99) \div 100 >= (p * f + 99) \div 100 + (q - p)
  OBVIOUS
<1> HIDE DEF f
<1>2. CASE f = 100
  BY <1>2
<1>3. CASE f = 105
  BY <1>3
<1>4. CASE f = 110
  BY <1>4
<1>5. CASE f = 120
  BY <1>5
<1>6. CASE f = 135
  BY <1>6
<1>7. CASE f = 150
  BY <1>7
<1>8. CASE f = 175
  BY <1>8
<1>9. CASE f = 200
  BY <1>9
<1> QED
  BY <1>1, <1>2, <1>3, <1>4, <1>5, <1>6, <1>7, <1>8, <1>9 DEF ChainFactors

LEMMA FukuRateType ==
  ASSUME NEW chips \in Int
  PROVE  FukuRate(chips) \in {0, 5, 10, 20, 30}
BY DEF FukuRate

\* Luck takes a part of the gain.
LEMMA LuckBound ==
  ASSUME NEW gain \in Nat, NEW chips \in Int
  PROVE  (gain * FukuRate(chips)) \div 100 \in 0 .. gain
<1> DEFINE f == FukuRate(chips)
<1>1. f \in {0, 5, 10, 20, 30}
  BY FukuRateType
<1> HIDE DEF f
<1>2. (gain * f) \div 100 \in 0 .. gain
  <2>1. CASE f = 0
    BY <2>1
  <2>2. CASE f = 5
    BY <2>2
  <2>3. CASE f = 10
    BY <2>3
  <2>4. CASE f = 20
    BY <2>4
  <2>5. CASE f = 30
    BY <2>5
  <2> QED
    BY <1>1, <2>1, <2>2, <2>3, <2>4, <2>5
<1> QED
  BY <1>2 DEF f

\* What a lucky charm adds at most.
Luck(charms) == IF "omamori" \in charms THEN CharmCap.omamori ELSE 0

\* A charm adds to a win, and makes up for a loss up to the bet.
LEMMA CharmedFacts ==
  ASSUME NEW charms, NEW bet \in Nat, NEW raw \in Nat
  PROVE  LET c == Charmed(charms, bet, raw)
         IN /\ c.pay \in Nat /\ c.used \subseteq charms
            /\ raw > bet => c.pay >= raw /\ c.pay =< raw + Luck(charms)
            /\ raw =< bet => c.pay =< bet
            /\ Luck(charms) \in Nat
<1> DEFINE c == Charmed(charms, bet, raw)
<1>1. Luck(charms) \in Nat
  BY DEF Luck, CharmCap
<1>2. CASE raw > bet /\ "omamori" \in charms
  <2>1. c = [pay |-> raw + Smaller(((raw - bet) * 5) \div 100, 3000), used |-> {"omamori"}]
    BY <1>2 DEF Charmed, CharmCap
  <2>2. ((raw - bet) * 5) \div 100 \in Nat
    BY <1>2
  <2>3. /\ Smaller(((raw - bet) * 5) \div 100, 3000) \in Nat
        /\ Smaller(((raw - bet) * 5) \div 100, 3000) =< 3000
    BY <2>2 DEF Smaller
  <2> QED
    BY <1>1, <1>2, <2>1, <2>3 DEF Luck, CharmCap
<1>3. CASE raw < bet /\ "higo" \in charms
  <2>1. c = [pay |-> Smaller(bet, 10000), used |-> {"higo"}]
    BY <1>3 DEF Charmed, CharmCap
  <2> QED
    BY <1>1, <1>3, <2>1 DEF Smaller
<1>4. CASE raw < bet /\ "hoken" \in charms /\ "higo" \notin charms
  <2>1. c = [pay |-> Smaller(bet \div 2, 2000), used |-> {"hoken"}]
    BY <1>4 DEF Charmed, CharmCap
  <2> QED
    BY <1>1, <1>4, <2>1 DEF Smaller
<1>5. CASE ~(raw > bet /\ "omamori" \in charms) /\ ~(raw < bet /\ "higo" \in charms)
           /\ ~(raw < bet /\ "hoken" \in charms /\ "higo" \notin charms)
  <2>1. c = [pay |-> raw, used |-> {}]
    BY <1>5 DEF Charmed
  <2> QED
    BY <1>1, <2>1
<1> QED
  BY <1>2, <1>3, <1>4, <1>5

\* What the money of a settlement needs of a state.
Tills ==
  /\ house \in Int /\ jackpot \in Nat /\ relief \in Int
  /\ streak \in [Gambler -> Nat] /\ worn \in [Gambler -> SUBSET Goods]

\* The payment with its charm and its chain bonus, of which the house may have
\* to cut the bonus.
Payout(u, bet, raw, chained) ==
  LET p == Charmed(worn[u], bet, raw).pay
  IN p + (IF chained /\ p > bet THEN ChainBonus(p, streak[u] + 1) ELSE 0)

\* What settling a bet does: everything paid comes from somewhere, the gambler
\* loses the bet at most, and the house pays the payout and the cut at most.
SettledRight(u, bet, raw, chained, cut, chips, o) ==
  /\ o.chips = chips + bet + o.net
  /\ o.house + o.jackpot + o.relief + o.net = house + jackpot + relief
  /\ o.net \in Int /\ o.net >= -bet
  /\ o.house \in Int /\ o.relief \in Int /\ o.relief >= relief
  /\ o.jackpot \in Nat /\ o.jackpot >= jackpot
  /\ o.streak \in Nat
  /\ o.used \subseteq worn[u]
  /\ o.house >= 0
  /\ o.house >= house + bet - cut - Payout(u, bet, raw, chained)

LEMMA SettledFacts ==
  ASSUME Tills, NEW u \in Gambler, NEW bet \in Nat, NEW raw \in Nat,
         NEW chained \in BOOLEAN, NEW cut \in Nat, NEW chips \in Int,
         NEW o, o = Settled(u, bet, raw, chained, cut, chips), o.possible
  PROVE  SettledRight(u, bet, raw, chained, cut, chips, o)
<1> DEFINE c == Charmed(worn[u], bet, raw)
           chain == ChainBonus(c.pay, streak[u] + 1)
           left == house + bet - c.pay
           bonus == IF chained /\ c.pay > bet THEN Smaller(chain, left) ELSE 0
           gain == c.pay - bet + bonus
           tax == IF c.pay > bet
                  THEN (gain * FukuRate(chips + c.pay + bonus)) \div 100 ELSE 0
           toPot == IF left - bonus >= cut THEN cut ELSE 0
           net == c.pay + bonus - tax - bet
<1>1. /\ o.possible <=> chips >= 0 /\ left >= 0
      /\ o.used = c.used
      /\ o.chips = chips + bet + net
      /\ o.house = left - bonus - toPot
      /\ o.jackpot = jackpot + toPot + tax \div 2
      /\ o.relief = relief + (tax + 1) \div 2
      /\ o.net = net
      /\ o.streak = IF net > 0 THEN streak[u] + 1 ELSE IF net < 0 THEN 0 ELSE streak[u]
  BY DEF Settled
<1>2. c.pay \in Nat /\ c.used \subseteq worn[u]
  BY CharmedFacts
<1>3. Payout(u, bet, raw, chained)
        = c.pay + (IF chained /\ c.pay > bet THEN chain ELSE 0)
  BY DEF Payout
<1>4. streak[u] \in Nat /\ house \in Int /\ jackpot \in Nat /\ relief \in Int
  BY DEF Tills
<1>5. c.pay > bet => chain \in Nat
  <2>1. \A n \in Nat, p \in Nat : p > 0 => ChainBonus(p, n) \in Nat
    BY ChainBonusBound
  <2>2. streak[u] + 1 \in Nat
    BY <1>4
  <2> HIDE DEF c
  <2>3. c.pay \in Nat /\ (c.pay > bet => c.pay > 0)
    BY <1>2
  <2> QED
    BY <2>1, <2>2, <2>3
<1> DEFINE pay == c.pay
           most == Payout(u, bet, raw, chained)
<1> HIDE DEF c, chain
<1>6. left \in Int /\ left >= 0 /\ pay \in Nat
  BY <1>1, <1>2, <1>4
<1> HIDE DEF pay, most
<1>7. /\ bonus \in Nat /\ bonus =< left
      /\ most >= pay + bonus
      /\ most \in Int
  BY <1>2, <1>3, <1>5, <1>6 DEF Smaller, most, pay
<1>8. tax \in Nat /\ (pay > bet => tax =< pay - bet + bonus) /\ (pay =< bet => tax = 0)
  <2>1. CASE pay > bet
    <3>1. gain \in Nat /\ chips + c.pay + bonus \in Int
      BY <1>2, <1>7, <2>1 DEF pay
    <3>2. (gain * FukuRate(chips + c.pay + bonus)) \div 100 \in 0 .. gain
      BY <3>1, LuckBound
    <3>3. tax = (gain * FukuRate(chips + c.pay + bonus)) \div 100
      BY <2>1 DEF pay
    <3>4. gain = pay - bet + bonus
      BY DEF pay
    <3> HIDE DEF tax, gain, bonus
    <3>5. tax \in 0 .. gain
      BY <3>2, <3>3
    <3> QED
      BY <1>6, <2>1, <3>1, <3>4, <3>5
  <2>2. CASE pay =< bet
    BY <1>6, <2>2 DEF pay
  <2> QED
    BY <1>6, <2>1, <2>2
<1>9. toPot \in Nat /\ toPot =< cut /\ (toPot > 0 => toPot =< left - bonus)
  BY <1>6, <1>7
<1>10. left = house + bet - pay /\ net = pay + bonus - tax - bet
  BY DEF pay
<1> HIDE DEF left, bonus, tax, toPot, net
<1>11. net \in Int /\ net >= -bet
  BY <1>6, <1>7, <1>8, <1>10
<1>12. tax \div 2 \in Nat /\ (tax + 1) \div 2 \in Nat /\ tax \div 2 + (tax + 1) \div 2 = tax
  BY <1>8
<1>13. o.house >= 0 /\ o.house >= house + bet - cut - most
  BY <1>1, <1>4, <1>6, <1>7, <1>9, <1>10
<1>14. o.house + o.jackpot + o.relief + o.net = house + jackpot + relief
  BY <1>1, <1>4, <1>6, <1>7, <1>8, <1>9, <1>10, <1>11, <1>12
<1>15. /\ o.house \in Int /\ o.relief \in Int /\ o.relief >= relief
       /\ o.jackpot \in Nat /\ o.jackpot >= jackpot
  <2>1. o.relief \in Int /\ o.relief >= relief
    <3> DEFINE half == (tax + 1) \div 2
    <3>1. half \in Nat /\ o.relief = relief + half
      BY <1>1, <1>12
    <3> HIDE DEF half
    <3> QED
      BY <1>4, <3>1
  <2>2. o.jackpot \in Nat /\ o.jackpot >= jackpot
    <3> DEFINE half == tax \div 2
    <3>1. half \in Nat /\ o.jackpot = jackpot + toPot + half
      BY <1>1, <1>12
    <3> HIDE DEF half
    <3> QED
      BY <1>4, <1>9, <3>1
  <2>3. o.house \in Int
    BY <1>1, <1>6, <1>7, <1>9
  <2> QED
    BY <2>1, <2>2, <2>3
<1>16. o.streak \in Nat
  BY <1>1, <1>4, <1>11
<1> QED
  BY <1>1, <1>2, <1>11, <1>13, <1>14, <1>15, <1>16 DEF SettledRight, most

-----------------------------------------------------------------------------
(* Results of the games.                                                   *)

LEMMA SpinFactorType ==
  ASSUME NEW reels \in Reels
  PROVE  SpinFactor(reels) \in 0 .. 100
<1> DEFINE seen == Range(reels)
           ordinary == seen \intersect Normal
           twin == {s \in ordinary : Cardinality({i \in 1..3 : reels[i] = s}) = 2}
<1>1. reels \in [1..3 -> Symbols] /\ reels[1] \in seen
  BY SoloAssumption DEF Range
<1>2. \A s \in Symbols \ {"soul"} : Triple[s] \in 0 .. 100
  BY DEF Triple, Symbols, Normal
<1>3. \A s \in Normal : Double[s] \in 0 .. 100
  BY DEF Double, Normal
<1> DEFINE alike == Cardinality(seen) = 1
           wild == "moon" \in seen /\ Cardinality(ordinary) = 1
<1>4. CASE "soul" \in seen
  BY <1>4 DEF SpinFactor
<1>5. CASE "soul" \notin seen /\ alike
  <2>1. SpinFactor(reels) = Triple[reels[1]]
    BY <1>5 DEF SpinFactor
  <2> QED
    BY <1>1, <1>2, <1>5, <2>1
<1>6. CASE "soul" \notin seen /\ ~alike /\ wild
  <2>1. SpinFactor(reels) = Triple[CHOOSE s \in ordinary : TRUE]
    BY <1>6 DEF SpinFactor
  <2>2. ordinary # {}
    BY <1>6, FS_EmptySet
  <2>3. (CHOOSE s \in ordinary : TRUE) \in ordinary
    BY <2>2
  <2>4. ordinary \subseteq Symbols \ {"soul"}
    BY DEF Normal, Symbols
  <2> QED
    BY <1>2, <2>1, <2>3, <2>4
<1>7. CASE {"soul", "moon"} \intersect seen = {} /\ ~alike /\ twin # {}
  <2>1. SpinFactor(reels) = Double[CHOOSE s \in twin : TRUE]
    BY <1>7 DEF SpinFactor
  <2>2. (CHOOSE s \in twin : TRUE) \in twin
    BY <1>7
  <2>3. twin \subseteq Normal
    OBVIOUS
  <2> QED
    BY <1>3, <2>1, <2>2, <2>3
<1>8. CASE "soul" \notin seen /\ ~alike /\ ~wild
           /\ ~({"soul", "moon"} \intersect seen = {} /\ twin # {})
  <2>1. SpinFactor(reels) = 0
    BY <1>8 DEF SpinFactor
  <2> QED
    BY <2>1
<1> HIDE DEF alike, wild, twin
<1> QED
  BY <1>4, <1>5, <1>6, <1>7, <1>8

LEMMA SpinPays ==
  ASSUME NEW reels \in Reels, NEW bet \in Nat
  PROVE  bet * SpinFactor(reels) \in 0 .. 100 * bet
<1> DEFINE f == SpinFactor(reels)
<1>1. f \in 0 .. 100
  BY SpinFactorType
<1> HIDE DEF f
<1>2. bet * f \in Nat /\ bet * f =< bet * 100
  BY <1>1
<1> QED
  BY <1>2 DEF f

Differences == {-2, -1, 0, 1, 2, 3, 5}

LEMMA VersusType ==
  ASSUME NEW p \in Throws, NEW d \in Throws
  PROVE  Versus(p, d) \in Differences
<1>1. WinFactor(p) \in {1, 2, 3, 5} /\ LossFactor(d) \in {1, 2}
  BY DEF WinFactor, LossFactor
<1>2. Versus(p, d) \in {0, -2, 2, WinFactor(p), -LossFactor(d), -1}
  BY DEF Versus
<1> QED
  BY <1>1, <1>2 DEF Differences

LEMMA ChinchiroPays ==
  ASSUME NEW bet \in Nat, NEW m \in Differences
  PROVE  /\ ChinchiroPay(bet, m) \in Nat
         /\ ChinchiroPay(bet, m) =< ChinchiroPay(bet, 5)
         /\ ChinchiroPay(bet, 5) >= bet
<1>1. ChinchiroPay(bet, 5) = bet + (bet * 5 * 85) \div 100
  BY DEF ChinchiroPay
<1>2. CASE m \in {-2, -1, 0}
  BY <1>1, <1>2 DEF ChinchiroPay
<1>3. CASE m = 1
  BY <1>1, <1>3 DEF ChinchiroPay
<1>4. CASE m = 2
  BY <1>1, <1>4 DEF ChinchiroPay
<1>5. CASE m = 3
  BY <1>1, <1>5 DEF ChinchiroPay
<1>6. CASE m = 5
  BY <1>1, <1>6 DEF ChinchiroPay
<1> QED
  BY <1>2, <1>3, <1>4, <1>5, <1>6 DEF Differences

\* What a game pays at most.
LEMMA ResultBounds ==
  ASSUME NEW r, r.bet \in Nat, r.staked \in Nat, NEW raw \in Results(r)
  PROVE  /\ raw \in Nat
         /\ \/ r.game = "chohan" /\ raw =< (r.bet * 194) \div 100
            \/ r.game = "crash" /\ raw =< 100 * r.bet
            \/ r.game = "poker" /\ raw =< 251 * r.bet
            \/ r.game = "holdem" /\ raw =< 2 * r.staked
            \/ r.game = "blackjack" /\ raw =< 2 * r.staked
            \/ r.game = "blackjack" /\ r.staked = r.bet /\ raw =< (5 * r.bet) \div 2
<1> DEFINE bet == r.bet
           staked == r.staked
<1>1. bet \in Nat /\ staked \in Nat
  OBVIOUS
<1>2. CASE r.game = "chohan"
  <2>1. raw \in {0, (bet * 194) \div 100}
    BY <1>2 DEF Results, ChohanPays
  <2> HIDE DEF bet
  <2>2. (bet * 194) \div 100 \in Nat
    BY <1>1
  <2>3. raw \in Nat /\ raw =< (bet * 194) \div 100
    BY <2>1, <2>2
  <2> QED
    BY <1>2, <2>3 DEF bet
<1>3. CASE r.game = "crash"
  <2>1. raw = 0 \/ \E c \in CashOuts : raw = (bet * c) \div 100
    BY <1>3 DEF Results, CrashPays
  <2> HIDE DEF bet
  <2>2. ASSUME NEW c \in CashOuts
        PROVE  (bet * c) \div 100 \in Nat /\ (bet * c) \div 100 =< 100 * bet
    <3>1. c \in 150 .. 10000
      BY SoloAssumption
    <3>2. bet * c \in Nat /\ bet * c =< bet * 10000
      BY <1>1, <3>1
    <3> DEFINE n == bet * c
    <3>3. n \in Nat /\ n =< bet * 10000
      BY <3>2
    <3> HIDE DEF n
    <3>4. n \div 100 \in Nat /\ n \div 100 =< 100 * bet
      BY <1>1, <3>3
    <3> QED
      BY <3>4 DEF n
  <2>3. raw \in Nat /\ raw =< 100 * bet
    BY <1>1, <2>1, <2>2
  <2> QED
    BY <1>3, <2>3 DEF bet
<1>4. CASE r.game = "poker"
  <2>1. \E f \in PokerFactors : raw = bet * f
    BY <1>4 DEF Results, PokerPays
  <2> HIDE DEF bet
  <2>2. raw \in Nat /\ raw =< 251 * bet
    BY <1>1, <2>1 DEF PokerFactors
  <2> QED
    BY <1>4, <2>2 DEF bet
<1>5. CASE r.game = "holdem"
  <2>1. raw \in {0, staked, 2 * staked}
    BY <1>5 DEF Results, HoldemPays
  <2> QED
    BY <1>1, <1>5, <2>1
<1>6. CASE r.game = "blackjack"
  <2>1. raw \in {0, staked, 2 * staked} \/ (staked = bet /\ raw = (5 * bet) \div 2)
    BY <1>6 DEF Results, BlackjackPays
  <2>2. CASE raw \in {0, staked, 2 * staked}
    BY <1>1, <1>6, <2>2
  <2>3. CASE staked = bet /\ raw = (5 * bet) \div 2
    <3> HIDE DEF bet, staked
    <3>1. (5 * bet) \div 2 \in Nat
      BY <1>1
    <3> QED
      BY <1>6, <2>3, <3>1 DEF bet, staked
  <2> QED
    BY <2>1, <2>2, <2>3
<1>7. r.game \in {"chohan", "crash", "poker", "holdem", "blackjack"}
  BY DEF Results
<1> QED
  BY <1>2, <1>3, <1>4, <1>5, <1>6, <1>7

-----------------------------------------------------------------------------
(* Types and rounds.                                                       *)

Pockets == [land : Nat, chips : Nat, held : Nat]

RoundRecords == [no : Nat, game : Games \union {"none"}, bet : Nat,
                 staked : Nat, step : {"idle", "checked", "playing", "spun"},
                 reserved : Nat, double : BOOLEAN]

Rights == [no : Nat, who : Gambler, pay : Nat, claim : Nat]

\* No pocket and no till goes below zero.
SoloTyped ==
  /\ pocket \in [Gambler -> Pockets]
  /\ house \in Nat /\ jackpot \in Nat /\ relief \in Nat /\ claims \in Int
  /\ streak \in [Gambler -> Nat] /\ record \in [Gambler -> Int]
  /\ shelf \in [Gambler -> [Goods -> Nat]] /\ worn \in [Gambler -> SUBSET Goods]
  /\ round \in [Gambler -> RoundRecords]
  /\ spins \subseteq Rights /\ IsFiniteSet(spins)
  /\ opened \in Nat /\ bought \in Nat /\ broken \in Nat
  /\ spent \in [Gambler -> Nat]
  /\ late \in BOOLEAN

\* What a round may have at stake by now.
Stakes(r) ==
  CASE r.game = "holdem" -> {r.bet, 2 * r.bet, 3 * r.bet, 4 * r.bet, 5 * r.bet}
    [] r.game = "blackjack" /\ r.double -> {r.bet, 2 * r.bet}
    [] OTHER -> {r.bet}

\* A round and the escrow of its gambler.
RoundSound(u) ==
  LET r == round[u]
  IN /\ r.step = "idle" => r = NoRound
     /\ r.step # "idle" => /\ r.game \in Games /\ r.bet > 0
                           /\ r.no > 0 /\ r.no =< opened
                           /\ r.staked \in Stakes(r)
     /\ r.step = "checked" => r.staked = r.bet /\ r.reserved = 0 /\ ~r.double
     /\ r.step = "playing" /\ ~r.double => r.game = "blackjack"
     /\ r.step = "spun" => r.game = "slots"
     /\ pocket[u].held = IF r.step = "playing" /\ r.game = "chinchiro"
                         THEN 2 * r.bet ELSE 0

\* A right to a free spin carries the number of the round that won it.
RightsSound ==
  /\ \A u \in Gambler : \A v \in Gambler :
       u # v /\ round[u].step # "idle" => round[u].no # round[v].no
  /\ \A s \in spins : s.no > 0 /\ s.no =< opened
  /\ \A s \in spins : \A u \in Gambler :
       s.no = round[u].no => round[u].step = "spun" /\ s.who = u
  /\ \A s \in spins : \A t \in spins : s.no = t.no => s = t

RoundsSound == \A u \in Gambler : RoundSound(u)

Sound == SoloTyped /\ RoundsSound /\ RightsSound

NoRoundIsSound == NoRound \in RoundRecords /\ NoRound.step = "idle"

LEMMA NoRoundType == NoRoundIsSound
BY DEF NoRound, RoundRecords, NoRoundIsSound

\* The automatic deposit moves the shortage and no more.
LEMMA FilledFacts ==
  ASSUME NEW p \in Pockets, NEW n \in Nat, p.land + p.chips >= n
  PROVE  LET q == Filled(p, n)
         IN /\ q \in Pockets
            /\ q.chips >= n /\ q.land + q.chips = p.land + p.chips
            /\ q.held = p.held
<1>1. PICK land \in Nat, chips \in Nat, held \in Nat :
        p = [land |-> land, chips |-> chips, held |-> held]
  BY DEF Pockets
<1> DEFINE k == Larger(0, n - chips)
           more == Larger(chips, n)
<1>2. Filled(p, n) = [land |-> land - k, chips |-> more, held |-> held]
  <2>1. p.chips = chips
    BY <1>1
  <2> HIDE DEF more
  <2>2. Filled(p, n) = [p EXCEPT !.land = @ - k, !.chips = Larger(@, n)]
    BY <2>1 DEF Filled
  <2>3. Larger(p.chips, n) = more
    BY <2>1 DEF more
  <2> HIDE DEF k
  <2> QED
    BY <1>1, <2>2, <2>3
<1>3. k \in Nat /\ k =< land /\ more = chips + k /\ more >= n
  BY <1>1 DEF Larger
<1> HIDE DEF k, more
<1> QED
  BY <1>1, <1>2, <1>3 DEF Pockets

LEMMA PaidFacts ==
  ASSUME NEW p \in Pockets, NEW n \in Nat, p.land + p.chips >= n
  PROVE  LET q == Paid(p, n)
         IN /\ q \in Pockets /\ q.held = p.held
            /\ q.land + q.chips + n = p.land + p.chips
            /\ Escrowed(p, n) \in Pockets /\ Escrowed(p, n).held = n
            /\ Escrowed(p, n).land + Escrowed(p, n).chips + n = p.land + p.chips
<1> DEFINE f == Filled(p, n)
           k == f.chips - n
<1>1. /\ f \in Pockets /\ f.chips >= n /\ f.held = p.held
      /\ f.land + f.chips = p.land + p.chips
  BY FilledFacts
<1>2. Paid(p, n) = [f EXCEPT !.chips = k]
  BY DEF Paid
<1>3. Escrowed(p, n) = [Paid(p, n) EXCEPT !.held = n]
  BY DEF Escrowed
<1> HIDE DEF f
<1>4. k \in Nat /\ f.land \in Nat /\ f.chips \in Nat /\ k + n = f.chips
  BY <1>1 DEF Pockets
<1> HIDE DEF k
<1>5. /\ Paid(p, n) \in Pockets /\ Paid(p, n).held = f.held
      /\ Paid(p, n).land = f.land /\ Paid(p, n).chips = k
  BY <1>1, <1>2, <1>4 DEF Pockets
<1>6. /\ Escrowed(p, n) \in Pockets /\ Escrowed(p, n).held = n
      /\ Escrowed(p, n).land = f.land /\ Escrowed(p, n).chips = k
  BY <1>3, <1>5 DEF Pockets
<1> QED
  BY <1>1, <1>4, <1>5, <1>6

-----------------------------------------------------------------------------
(* What one step of a gambler does.                                        *)

Own(u) == Cash(u) + pocket[u].held

\* The other gamblers keep what they have.
Only(u) ==
  \A v \in Gambler \ {u} :
    /\ pocket'[v] = pocket[v] /\ round'[v] = round[v]
    /\ streak'[v] = streak[v] /\ worn'[v] = worn[v]
    /\ record'[v] = record[v] /\ spent'[v] = spent[v]

\* The gambler gains d, from the tills and on the record.
Moved(u, d) ==
  /\ Own(u)' = Own(u) + d
  /\ house' + jackpot' + relief' + claims' = house + jackpot + relief + claims - d
  /\ record'[u] = record[u] + d + spent'[u] - spent[u]

\* What the step may take at most.
Terms(u) ==
  IF round[u].step = "playing" THEN MaxPlayerLoss(round[u].game, round[u].bet)
  ELSE 0

WithinTerms(u, d) == spent'[u] = spent[u] => -d =< Terms(u)

\* The number of the round of u stays, goes, or is the next one.
Numbered(u) ==
  \/ round'[u] = NoRound /\ opened' = opened
  \/ /\ opened' = opened /\ round[u].step # "idle"
     /\ round'[u].no = round[u].no /\ round'[u].step # "idle"
     /\ round[u].step = "spun" => round'[u].step = "spun"
  \/ /\ opened' = opened + 1 /\ round'[u].no = opened + 1
     /\ round'[u].step = "checked"

\* A step of one gambler that keeps types and rounds, moves money from
\* somewhere and takes no more than the terms.
Stepped(u) ==
  /\ SoloTyped' /\ Only(u) /\ RoundSound(u)' /\ Numbered(u)
  /\ \E d \in Int : Moved(u, d) /\ WithinTerms(u, d)

LEMMA TypedRound ==
  ASSUME Sound, NEW u \in Gambler
  PROVE  /\ round[u] \in RoundRecords /\ pocket[u] \in Pockets /\ RoundSound(u)
         /\ Own(u) \in Nat /\ Cash(u) \in Nat
         /\ Own(u) = pocket[u].land + pocket[u].chips + pocket[u].held
         /\ pocket[u].land \in Nat /\ pocket[u].chips \in Nat
         /\ pocket[u].held \in Nat
<1>1. round[u] \in RoundRecords /\ pocket[u] \in Pockets /\ RoundSound(u)
  BY DEF Sound, SoloTyped, RoundsSound
<1>2. pocket[u].land \in Nat /\ pocket[u].chips \in Nat /\ pocket[u].held \in Nat
  BY <1>1 DEF Pockets
<1> QED
  BY <1>1, <1>2 DEF Own, Cash

\* The loss a game announces covers every stake its rounds can reach.
LEMMA StakesWithinLoss ==
  ASSUME NEW r \in RoundRecords, r.game \in Games, NEW k \in Stakes(r)
  PROVE  k \in Nat /\ k >= r.bet /\ k =< MaxPlayerLoss(r.game, r.bet)
<1>1. r.bet \in Nat
  BY DEF RoundRecords
<1> QED
  BY <1>1 DEF Stakes, MaxPlayerLoss, Games

LEMMA OpenRoundStep ==
  ASSUME Sound, NEW u \in Gambler, NEW o \in Offers, OpenRound(u, o[1], o[2])
  PROVE  Stepped(u)
<1> DEFINE game == o[1]
           bet == o[2]
           new == [no |-> opened + 1, game |-> game, bet |-> bet, staked |-> bet,
                   step |-> "checked", reserved |-> 0, double |-> FALSE]
           p == Filled(pocket[u], bet)
<1>1. game \in Games /\ bet \in Nat \ {0}
  BY SoloAssumption
<1>2. /\ round[u] = NoRound /\ Cash(u) >= bet
      /\ pocket' = [pocket EXCEPT ![u] = p]
      /\ round' = [round EXCEPT ![u] = new]
      /\ opened' = opened + 1
      /\ UNCHANGED <<streak, record, worn, spins, broken, late, shelf, bought,
                     spent, house, jackpot, relief, claims>>
  BY DEF OpenRound, Charms, Till
<1>3. /\ new.no = opened + 1 /\ new.game = game /\ new.bet = bet
      /\ new.staked = bet /\ new.step = "checked" /\ new.reserved = 0
      /\ new.double = FALSE
  OBVIOUS
<1>4. opened \in Nat
  BY DEF Sound, SoloTyped
<1> HIDE DEF game, bet
<1>5. new \in RoundRecords
  BY <1>1, <1>4 DEF RoundRecords
<1> HIDE DEF new
<1>6. /\ p \in Pockets /\ p.land + p.chips + p.held = Own(u)
      /\ p.held = pocket[u].held
  <2>1. pocket[u].land + pocket[u].chips >= bet
    BY <1>2 DEF Cash
  <2>2. p \in Pockets /\ p.held = pocket[u].held
        /\ p.land + p.chips = pocket[u].land + pocket[u].chips
    BY <1>1, <2>1, TypedRound, FilledFacts
  <2> QED
    BY <2>2, TypedRound
<1> HIDE DEF p
<1>7. SoloTyped'
  BY <1>2, <1>4, <1>5, <1>6 DEF Sound, SoloTyped
<1>8. pocket'[u] = p /\ round'[u] = new /\ Only(u)
  BY <1>2 DEF Sound, SoloTyped, Only
<1>9. RoundSound(u)'
  <2>1. pocket[u].held = 0
    BY <1>2, TypedRound DEF RoundSound, NoRound
  <2> QED
    BY <1>1, <1>2, <1>3, <1>4, <1>6, <1>8, <2>1 DEF RoundSound, Stakes
<1>10. Numbered(u)
  BY <1>2, <1>3, <1>8 DEF Numbered
<1>11. Moved(u, 0) /\ WithinTerms(u, 0)
  <2>1. Own(u)' = Own(u)
    BY <1>6, <1>8 DEF Own, Cash
  <2>2. Terms(u) = 0
    BY <1>2 DEF Terms, NoRound
  <2> QED
    BY <1>2, <2>1, <2>2, TypedRound DEF Moved, WithinTerms, Sound, SoloTyped
<1> QED
  BY <1>7, <1>8, <1>9, <1>10, <1>11 DEF Stepped

\* The largest payments and costs are numbers, and grow with the payment.
LEMMA GrossFacts ==
  ASSUME SoloTyped, NEW u \in Gambler, NEW chained \in BOOLEAN,
         NEW p \in Nat, NEW q \in Nat, p =< q
  PROVE  /\ Gross(u, p, chained) \in Nat /\ Gross(u, p, chained) >= p
         /\ Gross(u, q, chained) >= Gross(u, p, chained) + (q - p)
         /\ Gross(u, q, chained) \in Nat
<1> DEFINE k == WinBonusCap(u)
           n == streak[u] + 1
<1>1. k \in Nat /\ n \in Nat
  BY DEF WinBonusCap, CharmCap, SoloTyped
<1>2. CASE chained
  <2>1. /\ Gross(u, p, chained) = ((p + k) * ChainFactor(n) + 99) \div 100
        /\ Gross(u, q, chained) = ((q + k) * ChainFactor(n) + 99) \div 100
    BY <1>2 DEF Gross
  <2> HIDE DEF k, n
  <2> DEFINE a == p + k
             b == q + k
  <2>2. a \in Nat /\ b \in Nat /\ a =< b /\ b - a = q - p /\ a >= p
    BY <1>1
  <2> HIDE DEF a, b
  <2>3. /\ (a * ChainFactor(n) + 99) \div 100 \in Nat
        /\ (a * ChainFactor(n) + 99) \div 100 >= a
        /\ (b * ChainFactor(n) + 99) \div 100
             >= (a * ChainFactor(n) + 99) \div 100 + (b - a)
    BY <1>1, <2>2, ChainGrows
  <2>5. (b * ChainFactor(n) + 99) \div 100 \in Nat
    BY <1>1, <2>2, ChainGrows
  <2>4. /\ Gross(u, p, chained) = (a * ChainFactor(n) + 99) \div 100
        /\ Gross(u, q, chained) = (b * ChainFactor(n) + 99) \div 100
    BY <2>1 DEF a, b
  <2> QED
    BY <2>2, <2>3, <2>4, <2>5
<1>3. CASE ~chained
  BY <1>1, <1>3 DEF Gross
<1> QED
  BY <1>2, <1>3

LEMMA CostFacts ==
  ASSUME SoloTyped, NEW u \in Gambler, NEW chained \in BOOLEAN,
         NEW p \in Nat, NEW back \in Nat
  PROVE  Larger(0, Gross(u, p, chained) - back) \in Nat
<1>1. Gross(u, p, chained) \in Nat
  BY GrossFacts
<1> QED
  BY <1>1 DEF Larger

LEMMA CutFacts ==
  ASSUME NEW bet \in Nat \ {0}
  PROVE  JackpotCut(bet) \in 1 .. bet
BY DEF JackpotCut, Larger

\* The formula of each game.
LEMMA LiabilityFormula ==
  ASSUME NEW u, NEW bet
  PROVE  /\ Liability(u, "slots", bet)
              = Larger(0, Gross(u, 100 * bet, TRUE) - (bet - JackpotCut(bet)))
                  + 100 * bet + WinBonusCap(u)
         /\ Liability(u, "chohan", bet)
              = Larger(0, Gross(u, (bet * 194) \div 100, FALSE) - bet)
         /\ Liability(u, "crash", bet)
              = Larger(0, Gross(u, 100 * bet, FALSE) - bet)
         /\ Liability(u, "poker", bet)
              = Larger(0, Gross(u, 251 * bet, TRUE) - bet)
         /\ Liability(u, "holdem", bet)
              = Larger(0, Gross(u, 10 * bet, TRUE) - 5 * bet)
         /\ Liability(u, "blackjack", bet)
              = Larger(0, Gross(u, 4 * bet, TRUE) - 2 * bet)
         /\ Liability(u, "chinchiro", bet)
              = Larger(0, Gross(u, ChinchiroPay(bet, 5), TRUE) - bet)
BY DEF Liability, Chained

LEMMA LiabilityType ==
  ASSUME SoloTyped, NEW u \in Gambler, NEW game \in Games, NEW bet \in Nat \ {0}
  PROVE  Liability(u, game, bet) \in Nat
<1>1. /\ 100 * bet \in Nat /\ (bet * 194) \div 100 \in Nat /\ 251 * bet \in Nat
      /\ 10 * bet \in Nat /\ 4 * bet \in Nat /\ 5 * bet \in Nat /\ 2 * bet \in Nat
      /\ (5 * bet) \div 2 \in Nat
  OBVIOUS
<1>2. bet - JackpotCut(bet) \in Nat /\ WinBonusCap(u) \in Nat
  BY CutFacts DEF WinBonusCap, CharmCap
<1>3. ChinchiroPay(bet, 5) \in Nat
  BY ChinchiroPays DEF Differences
<1>4. CASE game = "slots"
  <2> DEFINE c == Larger(0, Gross(u, 100 * bet, TRUE) - (bet - JackpotCut(bet)))
  <2>1. c \in Nat
    BY <1>1, <1>2, CostFacts
  <2>2. Liability(u, game, bet) = c + 100 * bet + WinBonusCap(u)
    BY <1>4 DEF Liability, Chained
  <2> HIDE DEF c
  <2> QED
    BY <1>1, <1>2, <2>1, <2>2
<1>5. CASE game = "chohan"
  <2>1. Larger(0, Gross(u, (bet * 194) \div 100, FALSE) - bet) \in Nat
    BY <1>1, <1>2, <1>3, CostFacts
  <2>2. Liability(u, game, bet)
          = Larger(0, Gross(u, (bet * 194) \div 100, FALSE) - bet)
    BY <1>5 DEF Liability, Chained
  <2> QED
    BY <1>1, <1>2, <2>1, <2>2
<1>6. CASE game = "crash"
  <2>1. Larger(0, Gross(u, 100 * bet, FALSE) - bet) \in Nat
    BY <1>1, <1>2, <1>3, CostFacts
  <2>2. Liability(u, game, bet)
          = Larger(0, Gross(u, 100 * bet, FALSE) - bet)
    BY <1>6 DEF Liability, Chained
  <2> QED
    BY <1>1, <1>2, <2>1, <2>2
<1>7. CASE game = "poker"
  <2>1. Larger(0, Gross(u, 251 * bet, TRUE) - bet) \in Nat
    BY ZenonT(40), <1>1, <1>2, <1>3, CostFacts
  <2>2. Liability(u, game, bet)
          = Larger(0, Gross(u, 251 * bet, TRUE) - bet)
    BY <1>7 DEF Liability, Chained
  <2> QED
    BY <1>1, <1>2, <2>1, <2>2
<1>8. CASE game = "holdem"
  <2>1. Larger(0, Gross(u, 10 * bet, TRUE) - 5 * bet) \in Nat
    BY <1>1, <1>2, <1>3, CostFacts
  <2>2. Liability(u, game, bet)
          = Larger(0, Gross(u, 10 * bet, TRUE) - 5 * bet)
    BY <1>8 DEF Liability, Chained
  <2> QED
    BY <1>1, <1>2, <2>1, <2>2
<1>9. CASE game = "blackjack"
  <2>1. Larger(0, Gross(u, 4 * bet, TRUE) - 2 * bet) \in Nat
    BY <1>1, <1>2, <1>3, CostFacts
  <2>2. Liability(u, game, bet)
          = Larger(0, Gross(u, 4 * bet, TRUE) - 2 * bet)
    BY <1>9 DEF Liability, Chained
  <2> QED
    BY <1>1, <1>2, <2>1, <2>2
<1>10. CASE game = "chinchiro"
  <2>1. Larger(0, Gross(u, ChinchiroPay(bet, 5), TRUE) - bet) \in Nat
    BY <1>1, <1>2, <1>3, CostFacts
  <2>2. Liability(u, game, bet)
          = Larger(0, Gross(u, ChinchiroPay(bet, 5), TRUE) - bet)
    BY <1>10 DEF Liability, Chained
  <2> QED
    BY <1>1, <1>2, <2>1, <2>2
<1> QED
  BY <1>4, <1>5, <1>6, <1>7, <1>8, <1>9, <1>10 DEF Games

LEMMA NoDoubleType ==
  ASSUME SoloTyped, NEW u \in Gambler, NEW bet \in Nat \ {0}
  PROVE  NoDoubleLiability(u, bet) \in Nat
<1>1. (5 * bet) \div 2 \in Nat
  OBVIOUS
<1> QED
  BY <1>1, CostFacts DEF NoDoubleLiability

\* What the reservations take.
LEMMA ReservedType ==
  ASSUME SoloTyped, NEW us \in SUBSET Gambler
  PROVE  /\ Reserved(us) \in Nat
         /\ Reserved(us) = SumFunctionOnSet([v \in Gambler |-> round[v].reserved], us)
<1> DEFINE f == [v \in us |-> round[v].reserved]
           g == [v \in Gambler |-> round[v].reserved]
<1>1. IsFiniteSet(us)
  BY SoloAssumption, FS_Subset
<1>2. \A v \in us : f[v] = g[v] /\ f[v] \in Nat
  BY DEF SoloTyped, RoundRecords
<1>3. Reserved(us) = SumFunctionOnSet(f, us)
  BY DEF Reserved, SumFunction
<1> HIDE DEF f, g
<1>4. SumFunctionOnSet(f, us) = SumFunctionOnSet(g, us)
  BY <1>1, <1>2, SumEqual
<1>5. SumFunctionOnSet(f, us) \in Nat
  BY <1>1, <1>2, SumNat
<1> QED
  BY <1>3, <1>4, <1>5 DEF g

LEMMA FreeType ==
  ASSUME SoloTyped
  PROVE  /\ Free \in Nat /\ Reserved(Gambler) \in Nat
         /\ Free > 0 => Free = house - Reserved(Gambler)
<1>1. Reserved(Gambler) \in Nat
  BY ReservedType
<1>2. house \in Nat
  BY DEF SoloTyped
<1> QED
  BY <1>1, <1>2 DEF Free, Larger

LEMMA AffordableFacts ==
  ASSUME Sound, NEW u \in Gambler, round[u].step = "checked"
  PROVE  /\ Affordable(u) \in Nat /\ Affordable(u) =< Free
         /\ Affordable(u) > 0 =>
              \/ Affordable(u) = Liability(u, round[u].game, round[u].bet)
              \/ /\ round[u].game = "blackjack"
                 /\ Affordable(u) = NoDoubleLiability(u, round[u].bet)
<1>1. round[u].game \in Games /\ round[u].bet \in Nat \ {0}
  BY TypedRound DEF RoundSound, RoundRecords
<1>2. /\ Liability(u, round[u].game, round[u].bet) \in Nat
      /\ NoDoubleLiability(u, round[u].bet) \in Nat
  BY <1>1, LiabilityType, NoDoubleType DEF Sound
<1>3. Free \in Nat
  BY FreeType DEF Sound
<1> QED
  BY <1>2, <1>3 DEF Affordable

LEMMA BeginRoundStep ==
  ASSUME Sound, NEW u \in Gambler, BeginRound(u)
  PROVE  Stepped(u)
<1> DEFINE r == round[u]
           a == Affordable(u)
           double == (a = Liability(u, r.game, r.bet))
           held == IF r.game = "chinchiro" THEN Prehold(r.bet) ELSE 0
           new == [r EXCEPT !.step = "playing", !.reserved = a, !.double = double]
           p == IF held = 0 THEN pocket[u] ELSE Escrowed(pocket[u], held)
<1>1. /\ r.step = "checked" /\ r \in RoundRecords /\ RoundSound(u)
      /\ r.game \in Games /\ r.bet \in Nat /\ r.bet > 0 /\ r.staked = r.bet
      /\ r.no > 0 /\ r.no =< opened /\ pocket[u].held = 0 /\ ~r.double
      /\ pocket[u] \in Pockets
  BY TypedRound DEF BeginRound, RoundSound, RoundRecords
<1>0. /\ Own(u) = pocket[u].land + pocket[u].chips
      /\ pocket[u].land \in Nat /\ pocket[u].chips \in Nat
  BY <1>1, TypedRound
<1>2. UNCHANGED <<streak, record, worn, spins, opened, broken, late, shelf,
                  bought, spent, house, jackpot, relief, claims>>
  BY DEF BeginRound, Charms, Till
<1>3. Terms(u) = 0
  BY <1>1 DEF Terms
<1>4. CASE a > 0 /\ Cash(u) >= held /\ round' = [round EXCEPT ![u] = new]
           /\ pocket' = [pocket EXCEPT ![u] = p]
  <2>1. held \in Nat
        /\ held = IF r.game = "chinchiro" THEN 2 * r.bet ELSE 0
    BY <1>1 DEF Prehold
  <2>2. a \in Nat /\ double \in BOOLEAN
    BY <1>1, AffordableFacts
  <2>3. ~double => r.game = "blackjack"
    BY <1>1, <1>4, AffordableFacts
  <2> HIDE DEF a, double, held
  <2>4. /\ new \in RoundRecords
        /\ new.no = r.no /\ new.game = r.game /\ new.bet = r.bet
        /\ new.staked = r.staked /\ new.step = "playing" /\ new.reserved = a
        /\ new.double = double
    <3> HIDE DEF r
    <3> QED
      BY <1>1, <2>2 DEF RoundRecords
  <2>5. /\ p \in Pockets /\ p.held = held
        /\ p.land + p.chips + p.held = Own(u)
    <3>1. CASE held = 0
      BY <1>0, <1>1, <3>1
    <3>2. CASE held # 0
      <4>1. pocket[u].land + pocket[u].chips >= held
        BY <1>4 DEF Cash
      <4>2. /\ Escrowed(pocket[u], held) \in Pockets
            /\ Escrowed(pocket[u], held).held = held
            /\ Escrowed(pocket[u], held).land + Escrowed(pocket[u], held).chips
                 + held = pocket[u].land + pocket[u].chips
        BY <1>1, <2>1, <4>1, PaidFacts
      <4> QED
        BY <1>0, <3>2, <4>2
    <3> QED
      BY <3>1, <3>2
  <2> HIDE DEF new, p
  <2>6. SoloTyped'
    BY <1>2, <1>4, <2>4, <2>5 DEF Sound, SoloTyped
  <2>7. pocket'[u] = p /\ round'[u] = new /\ Only(u)
    BY <1>2, <1>4 DEF Sound, SoloTyped, Only
  <2>8. RoundSound(u)'
    BY <1>1, <1>2, <2>1, <2>3, <2>4, <2>5, <2>7 DEF RoundSound, Stakes
  <2>9. Numbered(u)
    BY <1>1, <1>2, <2>4, <2>7 DEF Numbered
  <2>10. Moved(u, 0) /\ WithinTerms(u, 0)
    <3>1. Own(u)' = Own(u)
      BY <2>5, <2>7 DEF Own, Cash
    <3> QED
      BY <1>2, <1>3, <3>1, TypedRound DEF Moved, WithinTerms, Sound, SoloTyped
  <2> QED
    BY <2>6, <2>7, <2>8, <2>9, <2>10 DEF Stepped
<1>5. CASE round' = [round EXCEPT ![u] = NoRound] /\ UNCHANGED pocket
  <2>1. NoRound \in RoundRecords /\ NoRound.step = "idle"
    BY NoRoundType DEF NoRoundIsSound
  <2>2. SoloTyped'
    BY <1>2, <1>5, <2>1 DEF Sound, SoloTyped
  <2>3. pocket'[u] = pocket[u] /\ round'[u] = NoRound /\ Only(u)
    BY <1>2, <1>5 DEF Sound, SoloTyped, Only
  <2>4. RoundSound(u)'
    BY <1>1, <2>1, <2>3 DEF RoundSound
  <2>5. Numbered(u)
    BY <1>2, <2>3 DEF Numbered
  <2>6. Moved(u, 0) /\ WithinTerms(u, 0)
    <3>1. Own(u)' = Own(u)
      BY <2>3 DEF Own, Cash
    <3> QED
      BY <1>2, <1>3, <3>1, TypedRound DEF Moved, WithinTerms, Sound, SoloTyped
  <2> QED
    BY <2>2, <2>3, <2>4, <2>5, <2>6 DEF Stepped
<1>6. \/ /\ a > 0 /\ Cash(u) >= held /\ round' = [round EXCEPT ![u] = new]
         /\ pocket' = [pocket EXCEPT ![u] = p]
      \/ round' = [round EXCEPT ![u] = NoRound] /\ UNCHANGED pocket
  <2>1. pocket = [pocket EXCEPT ![u] = pocket[u]]
    BY DEF Sound, SoloTyped
  <2> QED
    BY <2>1 DEF BeginRound
<1> QED
  BY <1>4, <1>5, <1>6

LEMMA RaiseStep ==
  ASSUME Sound, NEW u \in Gambler, Raise(u)
  PROVE  Stepped(u)
<1> DEFINE r == round[u]
           new == [r EXCEPT !.staked = r.staked + r.bet]
<1>1. /\ r.step = "playing" /\ r \in RoundRecords /\ RoundSound(u)
      /\ r.bet \in Nat /\ r.staked \in Nat
      /\ r.game = "holdem" \/ (r.game = "blackjack" /\ r.double)
      /\ r.staked < (IF r.game = "holdem" THEN 5 * r.bet ELSE 2 * r.bet)
      /\ r.staked \in Stakes(r)
  BY TypedRound DEF Raise, RoundSound, RoundRecords
<1>2. /\ UNCHANGED <<pocket, streak, record, worn, spins, opened, broken, late,
                     shelf, bought, spent, house, jackpot, relief, claims>>
      /\ round' = [round EXCEPT ![u] = new]
  BY DEF Raise, Charms, Till
<1>3. new \in RoundRecords
  <2>1. r.staked + r.bet \in Nat
    BY <1>1
  <2> QED
    BY <1>1, <2>1 DEF RoundRecords
<1>4. /\ new.no = r.no /\ new.game = r.game /\ new.bet = r.bet
      /\ new.staked = r.staked + r.bet /\ new.step = r.step
      /\ new.reserved = r.reserved /\ new.double = r.double
  BY <1>1 DEF RoundRecords
<1> HIDE DEF new
<1>5. SoloTyped'
  BY <1>2, <1>3 DEF Sound, SoloTyped
<1>6. pocket'[u] = pocket[u] /\ round'[u] = new /\ Only(u)
  BY <1>2 DEF Sound, SoloTyped, Only
<1>7. RoundSound(u)'
  <2>1. r.staked + r.bet \in Stakes(r)
    BY <1>1 DEF Stakes
  <2>2. Stakes(new) = Stakes(r)
    BY <1>4 DEF Stakes
  <2> QED
    BY <1>1, <1>2, <1>4, <1>6, <2>1, <2>2 DEF RoundSound
<1>8. Numbered(u)
  BY <1>1, <1>2, <1>4, <1>6 DEF Numbered
<1>9. Moved(u, 0) /\ WithinTerms(u, 0)
  <2>1. Own(u)' = Own(u)
    BY <1>2 DEF Own, Cash
  <2>2. Terms(u) >= 0
    BY <1>1 DEF Terms, MaxPlayerLoss
  <2> QED
    BY <1>2, <2>1, <2>2, TypedRound DEF Moved, WithinTerms, Sound, SoloTyped
<1> QED
  BY <1>5, <1>6, <1>7, <1>8, <1>9 DEF Stepped

\* A round that goes, its gambler gaining d and losing the escrow.
LEMMA RoundEnds ==
  ASSUME Sound, NEW u \in Gambler, round' = [round EXCEPT ![u] = NoRound],
         opened' = opened, pocket'[u].held = 0
  PROVE  RoundSound(u)' /\ Numbered(u)
<1>1. NoRound \in RoundRecords /\ NoRound.step = "idle"
  BY NoRoundType DEF NoRoundIsSound
<1>2. round'[u] = NoRound
  BY DEF Sound, SoloTyped
<1> QED
  BY <1>1, <1>2 DEF RoundSound, Numbered

LEMMA BreakOffStep ==
  ASSUME Sound, NEW u \in Gambler, BreakOff(u)
  PROVE  Stepped(u)
<1> DEFINE p == [pocket[u] EXCEPT !.chips = pocket[u].chips + pocket[u].held,
                                  !.held = 0]
<1>1. /\ round[u].step = "playing"
      /\ broken' = broken + 1
      /\ round' = [round EXCEPT ![u] = NoRound]
      /\ UNCHANGED <<streak, record, worn, spins, opened, late, shelf,
                     bought, spent, house, jackpot, relief, claims>>
  BY DEF BreakOff, Charms, Till
<1>2. /\ p \in Pockets /\ p.held = 0 /\ p.land = pocket[u].land
      /\ p.chips = pocket[u].chips + pocket[u].held
  <2> DEFINE x == pocket[u]
             n == pocket[u].chips + pocket[u].held
  <2>1. x \in Pockets /\ n \in Nat
    BY TypedRound
  <2> HIDE DEF x, n
  <2>2. /\ [x EXCEPT !.chips = n, !.held = 0] \in Pockets
        /\ [x EXCEPT !.chips = n, !.held = 0].held = 0
        /\ [x EXCEPT !.chips = n, !.held = 0].land = x.land
        /\ [x EXCEPT !.chips = n, !.held = 0].chips = n
    BY <2>1 DEF Pockets
  <2> QED
    BY <2>2 DEF x, n
<1>3. pocket' = [pocket EXCEPT ![u] = p]
  <2>1. pocket' = [pocket EXCEPT ![u].chips = @ + pocket[u].held, ![u].held = 0]
    BY DEF BreakOff
  <2> QED
    BY <2>1 DEF Sound, SoloTyped
<1> HIDE DEF p
<1>4. SoloTyped'
  <2>1. NoRound \in RoundRecords
    BY NoRoundType DEF NoRoundIsSound
  <2> QED
    BY <1>1, <1>2, <1>3, <2>1 DEF Sound, SoloTyped
<1>5. pocket'[u] = p /\ Only(u)
  BY <1>1, <1>3 DEF Sound, SoloTyped, Only
<1>6. RoundSound(u)' /\ Numbered(u)
  BY <1>1, <1>2, <1>5, RoundEnds
<1>7. Moved(u, 0) /\ WithinTerms(u, 0)
  <2>1. Own(u)' = Own(u)
    BY <1>2, <1>5, TypedRound DEF Own, Cash
  <2>2. Terms(u) >= 0
    BY <1>1, TypedRound DEF Terms, MaxPlayerLoss, RoundRecords
  <2> QED
    BY <1>1, <2>1, <2>2, TypedRound DEF Moved, WithinTerms, Sound, SoloTyped
<1> QED
  BY <1>4, <1>5, <1>6, <1>7 DEF Stepped

\* A round is settled: the stake was with the gambler or in escrow, "extra" of
\* the escrow goes to the house and "back" returns.
LEMMA BookStep ==
  ASSUME Sound, NEW u \in Gambler, round[u].step = "playing",
         NEW bet \in Nat, NEW raw \in Nat, NEW chained \in BOOLEAN,
         NEW chips \in Nat, NEW extra \in Nat, NEW back \in Nat, NEW o,
         SettledRight(u, bet, raw, chained, 0, chips, o),
         pocket[u].chips + pocket[u].held = chips + bet + back + extra,
         bet + extra =< Terms(u), Terms(u) \in Nat,
         Book(u, o, extra, back), Charms,
         UNCHANGED <<claims, spins, opened, broken, late>>
  PROVE  Stepped(u)
<1> DEFINE p == [pocket[u] EXCEPT !.chips = o.chips + back, !.held = 0]
<1>1. /\ o.chips = chips + bet + o.net /\ o.net \in Int /\ o.net >= -bet
      /\ o.house + o.jackpot + o.relief + o.net = house + jackpot + relief
      /\ o.house \in Int /\ o.house >= 0
      /\ o.relief \in Int /\ o.relief >= relief
      /\ o.jackpot \in Nat /\ o.streak \in Nat /\ o.used \subseteq worn[u]
  BY DEF SettledRight
<1>2. /\ house' = o.house + extra /\ jackpot' = o.jackpot /\ relief' = o.relief
      /\ streak' = [streak EXCEPT ![u] = o.streak]
      /\ record' = [record EXCEPT ![u] = @ + o.net - extra]
      /\ worn' = [worn EXCEPT ![u] = @ \ o.used]
      /\ round' = [round EXCEPT ![u] = NoRound]
      /\ UNCHANGED <<shelf, bought, spent>>
  BY DEF Book, Charms
<1>3. pocket' = [pocket EXCEPT ![u] = p]
  <2>1. pocket' = [pocket EXCEPT ![u].chips = o.chips + back, ![u].held = 0]
    BY DEF Book
  <2> QED
    BY <2>1 DEF Sound, SoloTyped
<1>4. o.chips + back \in Nat /\ o.chips \in Nat
  BY <1>1
<1>5. /\ p \in Pockets /\ p.held = 0 /\ p.land = pocket[u].land
      /\ p.chips = o.chips + back
  <2> DEFINE x == pocket[u]
             n == o.chips + back
  <2>1. x \in Pockets /\ n \in Nat
    BY <1>4, TypedRound
  <2> HIDE DEF x, n
  <2>2. /\ [x EXCEPT !.chips = n, !.held = 0] \in Pockets
        /\ [x EXCEPT !.chips = n, !.held = 0].held = 0
        /\ [x EXCEPT !.chips = n, !.held = 0].land = x.land
        /\ [x EXCEPT !.chips = n, !.held = 0].chips = n
    BY <2>1 DEF Pockets
  <2> QED
    BY <2>2 DEF x, n
<1> HIDE DEF p
<1>6. SoloTyped'
  <2>1. NoRound \in RoundRecords
    BY NoRoundType DEF NoRoundIsSound
  <2>2. /\ pocket' \in [Gambler -> Pockets] /\ round' \in [Gambler -> RoundRecords]
        /\ shelf' \in [Gambler -> [Goods -> Nat]]
        /\ spins' \subseteq Rights /\ IsFiniteSet(spins')
        /\ opened' \in Nat /\ bought' \in Nat /\ broken' \in Nat
        /\ spent' \in [Gambler -> Nat] /\ late' \in BOOLEAN /\ claims' \in Int
    BY <1>2, <1>3, <1>5, <2>1 DEF Sound, SoloTyped
  <2>3. house' \in Nat /\ jackpot' \in Nat /\ relief' \in Nat
    BY <1>1, <1>2 DEF Sound, SoloTyped
  <2>4. record' \in [Gambler -> Int]
    <3>1. record \in [Gambler -> Int]
      BY DEF Sound, SoloTyped
    <3>2. record[u] + o.net - extra \in Int
      BY <1>1, <3>1
    <3> QED
      BY <1>2, <3>1, <3>2
  <2>5. streak' \in [Gambler -> Nat] /\ worn' \in [Gambler -> SUBSET Goods]
    BY <1>1, <1>2 DEF Sound, SoloTyped
  <2> QED
    BY <2>2, <2>3, <2>4, <2>5 DEF SoloTyped
<1>7. pocket'[u] = p /\ Only(u) /\ record'[u] = record[u] + o.net - extra
      /\ spent'[u] = spent[u]
  BY <1>2, <1>3 DEF Sound, SoloTyped, Only
<1>8. RoundSound(u)' /\ Numbered(u)
  BY <1>2, <1>5, <1>7, RoundEnds
<1>9. Moved(u, o.net - extra) /\ WithinTerms(u, o.net - extra)
  <2>1. Own(u)' = p.land + p.chips + p.held
    BY <1>7 DEF Own, Cash
  <2>2. Own(u) = pocket[u].land + chips + bet + back + extra
        /\ pocket[u].land \in Nat
    BY TypedRound
  <2>3. Own(u)' = Own(u) + (o.net - extra)
    BY <1>1, <1>4, <1>5, <2>1, <2>2
  <2>4. house' + jackpot' + relief' + claims'
          = house + jackpot + relief + claims - (o.net - extra)
    BY <1>1, <1>2 DEF Sound, SoloTyped
  <2>5. record'[u] = record[u] + (o.net - extra) + spent'[u] - spent[u]
    BY <1>1, <1>7 DEF Sound, SoloTyped
  <2>6. -(o.net - extra) =< Terms(u)
    BY <1>1
  <2> QED
    BY <2>3, <2>4, <2>5, <2>6 DEF Moved, WithinTerms
<1> QED
  <2>1. o.net - extra \in Int
    BY <1>1
  <2> QED
    BY <1>6, <1>7, <1>8, <1>9, <2>1 DEF Stepped

LEMMA SoundTills == ASSUME Sound PROVE Tills
BY DEF Sound, SoloTyped, Tills

\* A settlement that is possible is right.
LEMMA SettledPossible ==
  ASSUME Sound, NEW u \in Gambler, NEW bet \in Nat, NEW raw \in Nat,
         NEW chained \in BOOLEAN, NEW cut \in Nat, NEW chips \in Int,
         Settled(u, bet, raw, chained, cut, chips).possible
  PROVE  /\ SettledRight(u, bet, raw, chained, cut, chips,
                         Settled(u, bet, raw, chained, cut, chips))
         /\ chips \in Nat
<1>1. Tills
  BY SoundTills
<1>2. Settled(u, bet, raw, chained, cut, chips).possible => chips >= 0
  BY DEF Settled
<1> QED
  BY <1>1, <1>2, SettledFacts

LEMMA FinishRoundStep ==
  ASSUME Sound, NEW u \in Gambler, FinishRound(u)
  PROVE  Stepped(u)
<1> DEFINE r == round[u]
           chips == pocket[u].chips - r.staked
<1>1. /\ r.step = "playing" /\ r \in RoundRecords /\ r.game \in Games
      /\ r.bet \in Nat /\ r.staked \in Stakes(r) /\ RoundSound(u)
  BY TypedRound DEF FinishRound, RoundSound, RoundRecords
<1>2. PICK raw \in Results(r) :
        LET o == Settled(u, r.staked, raw, Chained(r.game), 0, chips)
        IN o.possible /\ Book(u, o, 0, 0)
  BY DEF FinishRound
<1>3. UNCHANGED <<claims, spins, opened, broken, late>> /\ Charms
  BY DEF FinishRound
<1>4. Terms(u) = MaxPlayerLoss(r.game, r.bet) /\ r.staked =< Terms(u)
      /\ r.staked \in Nat /\ Terms(u) \in Nat
  BY <1>1, StakesWithinLoss DEF Terms, MaxPlayerLoss
<1>5. raw \in Nat /\ Chained(r.game) \in BOOLEAN /\ r.game # "chinchiro"
  BY <1>1, <1>4, ResultBounds DEF Chained
<1>6. chips \in Int /\ pocket[u].chips \in Nat /\ pocket[u].held = 0
  BY <1>1, <1>4, <1>5, TypedRound DEF RoundSound
<1> DEFINE o == Settled(u, r.staked, raw, Chained(r.game), 0, chips)
<1>7. /\ SettledRight(u, r.staked, raw, Chained(r.game), 0, chips, o)
      /\ chips \in Nat
  BY <1>2, <1>4, <1>5, <1>6, SettledPossible
<1>8. pocket[u].chips + pocket[u].held = chips + r.staked + 0 + 0
  BY <1>4, <1>6
<1>9. Book(u, o, 0, 0)
  BY <1>2
<1>10. r.staked + 0 =< Terms(u)
  BY <1>4
<1> HIDE DEF r, chips, o
<1> QED
  BY <1>1, <1>3, <1>4, <1>5, <1>7, <1>8, <1>9, <1>10, BookStep DEF r

LEMMA FinishChinchiroStep ==
  ASSUME Sound, NEW u \in Gambler, FinishChinchiro(u)
  PROVE  Stepped(u)
<1> DEFINE r == round[u]
           chips == pocket[u].chips
           bet == r.bet
<1>1. /\ r.step = "playing" /\ r \in RoundRecords /\ r.game = "chinchiro"
      /\ bet \in Nat /\ RoundSound(u)
      /\ UNCHANGED <<claims, spins, opened, broken, late>> /\ Charms
  BY TypedRound DEF FinishChinchiro, RoundSound, RoundRecords
<1>2. PICK p \in Throws, d \in Throws :
        LET m == Versus(p, d)
            o == Settled(u, r.bet, ChinchiroPay(r.bet, m), TRUE, 0, pocket[u].chips)
            extra == Larger(0, -m * r.bet - r.bet)
        IN o.possible /\ Book(u, o, extra, 2 * r.bet - r.bet - extra)
  BY DEF FinishChinchiro
<1> DEFINE m == Versus(p, d)
           raw == ChinchiroPay(bet, m)
           extra == Larger(0, -m * bet - bet)
           back == 2 * bet - bet - extra
           o == Settled(u, bet, raw, TRUE, 0, chips)
<1>3. o.possible /\ Book(u, o, extra, back)
  BY <1>2
<1>4. m \in Differences
  BY VersusType
<1>5. pocket[u].held = 2 * bet /\ chips \in Nat
  BY <1>1, TypedRound DEF RoundSound
<1>6. Terms(u) = 2 * bet
  BY <1>1 DEF Terms, MaxPlayerLoss
<1> HIDE DEF m, bet
<1>7. raw \in Nat
  BY <1>1, <1>4, ChinchiroPays
<1>8. extra \in Nat /\ extra =< bet /\ back \in Nat /\ back + extra = bet
  <2>1. CASE m \in {-1, 0, 1, 2, 3, 5}
    BY <1>1, <2>1 DEF Larger
  <2>2. CASE m = -2
    BY <1>1, <2>2 DEF Larger
  <2> QED
    BY <1>4, <2>1, <2>2 DEF Differences
<1> HIDE DEF raw, extra, back
<1>9. SettledRight(u, bet, raw, TRUE, 0, chips, o)
  <2>1. Settled(u, bet, raw, TRUE, 0, chips).possible
    BY <1>3
  <2>2. chips \in Int /\ TRUE \in BOOLEAN
    BY <1>5
  <2> HIDE DEF chips
  <2>3. SettledRight(u, bet, raw, TRUE, 0, chips,
                     Settled(u, bet, raw, TRUE, 0, chips))
    BY <1>1, <1>7, <2>1, <2>2, SettledPossible
  <2> QED
    BY <2>3
<1> HIDE DEF o
<1>10. /\ pocket[u].chips + pocket[u].held = chips + bet + back + extra
       /\ bet + extra =< Terms(u) /\ Terms(u) \in Nat
  BY <1>1, <1>5, <1>6, <1>8
<1> QED
  BY <1>1, <1>3, <1>5, <1>7, <1>8, <1>9, <1>10, BookStep

LEMMA CharmedNat ==
  ASSUME NEW charms, NEW bet \in Nat, NEW raw \in Nat
  PROVE  /\ Charmed(charms, bet, raw).pay \in Nat
         /\ Charmed(charms, bet, raw).used \subseteq charms
BY CharmedFacts

\* What a spin did, named.
SpinDone(u, reels, next, o, won, free, claimed, new) ==
  /\ o.possible
  /\ won \in Nat /\ claimed \in Nat /\ won + claimed =< o.jackpot
  /\ free \in Nat
  /\ pocket' = [pocket EXCEPT ![u].chips = o.chips + won]
  /\ house' = o.house /\ relief' = o.relief
  /\ jackpot' = o.jackpot - won - claimed /\ claims' = claims + claimed
  /\ streak' = [streak EXCEPT ![u] = o.streak]
  /\ record' = [record EXCEPT ![u] = @ + o.net + won]
  /\ worn' \in [Gambler -> SUBSET Goods]
  /\ \A v \in Gambler \ {u} : worn'[v] = worn[v]
  /\ new = [no |-> round[u].no, who |-> u, pay |-> free, claim |-> claimed]
  /\ \/ /\ spins' = spins \union {new} /\ WinsFreeSpin(reels)
        /\ free = Charmed(worn[u] \ o.used, round[u].bet,
                          round[u].bet * SpinFactor(next)).pay
     \/ spins' = spins /\ claimed = 0

SpinOutcome(u, reels) ==
  Settled(u, round[u].bet, round[u].bet * SpinFactor(reels), TRUE,
          JackpotCut(round[u].bet), pocket[u].chips - round[u].bet)

LEMMA SpinPaidFacts ==
  ASSUME Sound, NEW u \in Gambler, SpinPaid(u)
  PROVE  /\ round[u].step = "playing" /\ round[u].game = "slots"
         /\ round' = [round EXCEPT ![u].step = "spun"]
         /\ UNCHANGED <<opened, broken, late, shelf, bought, spent>>
         /\ \E reels, next \in Reels : \E won, free, claimed, new :
              /\ SpinDone(u, reels, next, SpinOutcome(u, reels), won, free, claimed, new)
              /\ SettledRight(u, round[u].bet, round[u].bet * SpinFactor(reels), TRUE,
                              JackpotCut(round[u].bet),
                              pocket[u].chips - round[u].bet, SpinOutcome(u, reels))
<1> DEFINE r == round[u]
<1>1. /\ r.step = "playing" /\ r.game = "slots"
      /\ round' = [round EXCEPT ![u].step = "spun"]
      /\ UNCHANGED <<opened, broken, late, shelf, bought, spent>>
  BY DEF SpinPaid, Charms
<1>2. PICK reels \in Reels, next \in Reels :
        LET o == SpinOutcome(u, reels)
            won == IF WinsJackpot(reels) THEN o.jackpot \div 2 ELSE 0
            free == Charmed(worn[u] \ o.used, r.bet, r.bet * SpinFactor(next))
            claim == IF WinsJackpot(next) THEN o.jackpot \div 2 ELSE 0
            again == WinsFreeSpin(reels)
        IN /\ o.possible
           /\ pocket' = [pocket EXCEPT ![u].chips = o.chips + won]
           /\ house' = o.house
           /\ relief' = o.relief
           /\ jackpot' = o.jackpot - won - (IF again THEN claim ELSE 0)
           /\ claims' = claims + (IF again THEN claim ELSE 0)
           /\ streak' = [streak EXCEPT ![u] = o.streak]
           /\ record' = [record EXCEPT ![u] = @ + o.net + won]
           /\ worn' = [worn EXCEPT
                         ![u] = @ \ (o.used \union
                                      (IF again THEN free.used ELSE {}))]
           /\ spins' = IF again
                       THEN spins \union {[no |-> r.no, who |-> u,
                                            pay |-> free.pay, claim |-> claim]}
                       ELSE spins
  BY ZenonT(40) DEF SpinPaid, SpinOutcome
<1> DEFINE o == SpinOutcome(u, reels)
           won == IF WinsJackpot(reels) THEN o.jackpot \div 2 ELSE 0
           f == Charmed(worn[u] \ o.used, r.bet, r.bet * SpinFactor(next))
           free == f.pay
           claim == IF WinsJackpot(next) THEN o.jackpot \div 2 ELSE 0
           again == WinsFreeSpin(reels)
           claimed == IF again THEN claim ELSE 0
           new == [no |-> r.no, who |-> u, pay |-> free, claim |-> claimed]
<1>3. r.bet \in Nat \ {0} /\ r \in RoundRecords /\ pocket[u].chips \in Nat
  BY <1>1, TypedRound DEF RoundSound, RoundRecords
<1>4. SettledRight(u, r.bet, r.bet * SpinFactor(reels), TRUE, JackpotCut(r.bet),
                   pocket[u].chips - r.bet, o)
  <2> DEFINE raw == r.bet * SpinFactor(reels)
             cut == JackpotCut(r.bet)
             chips == pocket[u].chips - r.bet
             bet == r.bet
  <2>1. bet \in Nat /\ raw \in Nat /\ cut \in Nat /\ chips \in Int /\ TRUE \in BOOLEAN
    BY <1>3, SpinPays, CutFacts
  <2>2. o = Settled(u, bet, raw, TRUE, cut, chips)
    BY DEF SpinOutcome
  <2>3. o.possible
    BY <1>2
  <2> HIDE DEF raw, cut, chips, bet, o
  <2>4. SettledRight(u, bet, raw, TRUE, cut, chips,
                     Settled(u, bet, raw, TRUE, cut, chips))
    BY <2>1, <2>2, <2>3, SettledPossible
  <2>5. SettledRight(u, bet, raw, TRUE, cut, chips, o)
    BY <2>2, <2>4
  <2> QED
    BY <2>5 DEF raw, cut, chips, bet
<1>5. o.jackpot \in Nat /\ o.used \subseteq worn[u]
  BY <1>4 DEF SettledRight
<1>6. free \in Nat /\ f.used \subseteq worn[u]
  <2>1. r.bet * SpinFactor(next) \in Nat
    BY <1>3, SpinPays
  <2>2. free \in Nat /\ f.used \subseteq worn[u] \ o.used
    <3> DEFINE raw == r.bet * SpinFactor(next)
               bet == r.bet
               charms == worn[u] \ o.used
    <3>1. bet \in Nat /\ raw \in Nat
      BY <1>3, <2>1
    <3> HIDE DEF raw, bet, charms
    <3>2. /\ Charmed(charms, bet, raw).pay \in Nat
          /\ Charmed(charms, bet, raw).used \subseteq charms
      BY <3>1, CharmedNat
    <3> QED
      BY <3>2 DEF raw, bet, charms
  <2> QED
    BY <2>2
<1> HIDE DEF o, f
<1>7. won \in Nat /\ claimed \in Nat /\ won + claimed =< o.jackpot
  BY <1>5
<1>8. worn' = [worn EXCEPT ![u] = @ \ (o.used \union (IF again THEN f.used ELSE {}))]
  BY <1>2 DEF o, f
<1>9. worn' \in [Gambler -> SUBSET Goods] /\ \A v \in Gambler \ {u} : worn'[v] = worn[v]
  BY <1>8 DEF Sound, SoloTyped
<1>10. again => new = [no |-> r.no, who |-> u, pay |-> free, claim |-> claim]
  OBVIOUS
<1>11. \/ spins' = spins \union {new} /\ again
       \/ spins' = spins /\ claimed = 0
  <2>1. spins' = IF again THEN spins \union {[no |-> r.no, who |-> u,
                                            pay |-> free, claim |-> claim]}
                       ELSE spins
    BY <1>2 DEF o, f
  <2> QED
    BY <1>10, <2>1
<1>12. SpinDone(u, reels, next, o, won, free, claimed, new)
  <2>1. /\ o.possible
        /\ pocket' = [pocket EXCEPT ![u].chips = o.chips + won]
        /\ house' = o.house
        /\ relief' = o.relief
        /\ jackpot' = o.jackpot - won - claimed
        /\ claims' = claims + claimed
        /\ streak' = [streak EXCEPT ![u] = o.streak]
        /\ record' = [record EXCEPT ![u] = @ + o.net + won]
    BY <1>2 DEF o
  <2>2. free = Charmed(worn[u] \ o.used, r.bet, r.bet * SpinFactor(next)).pay
    BY DEF f
  <2> HIDE DEF won, claimed, free, claim
  <2> QED
    BY <1>6, <1>7, <1>9, <1>11, <2>1, <2>2 DEF SpinDone
<1> HIDE DEF won, free, claimed, new
<1> QED
  BY <1>1, <1>4, <1>12 DEF o

LEMMA SpinPaidStep ==
  ASSUME Sound, NEW u \in Gambler, SpinPaid(u)
  PROVE  Stepped(u)
<1> DEFINE r == round[u]
           cut == JackpotCut(r.bet)
           gone == [r EXCEPT !.step = "spun"]
<1>1. /\ r.step = "playing" /\ r.game = "slots"
      /\ round' = [round EXCEPT ![u].step = "spun"]
      /\ UNCHANGED <<opened, broken, late, shelf, bought, spent>>
  BY SpinPaidFacts
<1>2. PICK reels \in Reels, next \in Reels : \E won, free, claimed, new :
        /\ SpinDone(u, reels, next, SpinOutcome(u, reels), won, free, claimed, new)
        /\ SettledRight(u, r.bet, r.bet * SpinFactor(reels), TRUE, cut,
                        pocket[u].chips - r.bet, SpinOutcome(u, reels))
  BY SpinPaidFacts
<1> DEFINE o == SpinOutcome(u, reels)
<1>3. PICK won, free, claimed, new :
        /\ SpinDone(u, reels, next, o, won, free, claimed, new)
        /\ SettledRight(u, r.bet, r.bet * SpinFactor(reels), TRUE, cut,
                        pocket[u].chips - r.bet, o)
  BY <1>2
<1> HIDE DEF o
<1>4. /\ r \in RoundRecords /\ r.bet \in Nat /\ RoundSound(u)
      /\ pocket[u] \in Pockets /\ pocket[u].chips \in Nat
      /\ pocket[u].land \in Nat /\ pocket[u].held = 0
      /\ Own(u) = pocket[u].land + pocket[u].chips
  BY <1>1, TypedRound DEF RoundSound, RoundRecords
<1> DEFINE chips == pocket[u].chips - r.bet
<1>5. /\ o.chips = chips + r.bet + o.net /\ o.net \in Int /\ o.net >= -r.bet
      /\ o.house + o.jackpot + o.relief + o.net = house + jackpot + relief
      /\ o.house \in Int /\ o.house >= 0
      /\ o.relief \in Int /\ o.relief >= relief
      /\ o.jackpot \in Nat /\ o.streak \in Nat
  BY <1>3 DEF SettledRight
<1>6. o.chips = pocket[u].chips + o.net /\ o.chips \in Nat
  <2>1. o.chips = pocket[u].chips + o.net
    BY <1>4, <1>5
  <2>2. pocket[u].chips - r.bet >= 0
    <3>1. o.possible
      BY <1>3 DEF SpinDone
    <3> QED
      BY <3>1 DEF o, SpinOutcome, Settled
  <2> QED
    BY <1>4, <1>5, <2>1, <2>2
<1>7. /\ won \in Nat /\ claimed \in Nat /\ won + claimed =< o.jackpot /\ free \in Nat
      /\ pocket' = [pocket EXCEPT ![u].chips = o.chips + won]
      /\ house' = o.house /\ relief' = o.relief
      /\ jackpot' = o.jackpot - won - claimed /\ claims' = claims + claimed
      /\ streak' = [streak EXCEPT ![u] = o.streak]
      /\ record' = [record EXCEPT ![u] = @ + o.net + won]
      /\ worn' \in [Gambler -> SUBSET Goods]
      /\ \A v \in Gambler \ {u} : worn'[v] = worn[v]
      /\ new = [no |-> r.no, who |-> u, pay |-> free, claim |-> claimed]
      /\ spins' = spins \union {new} \/ spins' = spins
  BY <1>3 DEF SpinDone
<1> DEFINE p == [pocket[u] EXCEPT !.chips = o.chips + won]
<1>8. pocket' = [pocket EXCEPT ![u] = p] /\ round' = [round EXCEPT ![u] = gone]
  BY <1>1, <1>7 DEF Sound, SoloTyped
<1>9. /\ p \in Pockets /\ p.land = pocket[u].land /\ p.held = pocket[u].held
      /\ p.chips = o.chips + won
  <2> DEFINE x == pocket[u]
             n == o.chips + won
  <2>1. x \in Pockets /\ n \in Nat
    BY <1>4, <1>6, <1>7
  <2> HIDE DEF x, n
  <2>2. /\ [x EXCEPT !.chips = n] \in Pockets
        /\ [x EXCEPT !.chips = n].held = x.held
        /\ [x EXCEPT !.chips = n].land = x.land
        /\ [x EXCEPT !.chips = n].chips = n
    BY <2>1 DEF Pockets
  <2> QED
    BY <2>2 DEF x, n
<1>10. /\ gone \in RoundRecords
       /\ gone.no = r.no /\ gone.game = r.game /\ gone.bet = r.bet
       /\ gone.staked = r.staked /\ gone.step = "spun"
       /\ gone.reserved = r.reserved /\ gone.double = r.double
  <2> HIDE DEF r
  <2> QED
    BY <1>4 DEF RoundRecords
<1> HIDE DEF p, gone
<1>11. SoloTyped'
  <2>1. /\ pocket' \in [Gambler -> Pockets] /\ round' \in [Gambler -> RoundRecords]
        /\ shelf' \in [Gambler -> [Goods -> Nat]]
        /\ opened' \in Nat /\ bought' \in Nat /\ broken' \in Nat
        /\ spent' \in [Gambler -> Nat] /\ late' \in BOOLEAN
    BY <1>1, <1>8, <1>9, <1>10 DEF Sound, SoloTyped
  <2>2. house' \in Nat /\ jackpot' \in Nat /\ relief' \in Nat /\ claims' \in Int
    <3>1. house' \in Nat
      BY <1>5, <1>7
    <3>2. relief' \in Nat
      BY <1>5, <1>7 DEF Sound, SoloTyped
    <3>3. jackpot' \in Nat /\ claims' \in Int
      BY <1>5, <1>7 DEF Sound, SoloTyped
    <3> QED
      BY <3>1, <3>2, <3>3
  <2>3. record' \in [Gambler -> Int]
    <3>1. record \in [Gambler -> Int]
      BY DEF Sound, SoloTyped
    <3>2. record[u] + o.net + won \in Int
      BY <1>5, <1>7, <3>1
    <3> QED
      BY <1>7, <3>1, <3>2
  <2>4. streak' \in [Gambler -> Nat] /\ worn' \in [Gambler -> SUBSET Goods]
    BY <1>5, <1>7 DEF Sound, SoloTyped
  <2>5. spins' \subseteq Rights /\ IsFiniteSet(spins')
    <3>1. spins \subseteq Rights /\ IsFiniteSet(spins)
      BY DEF Sound, SoloTyped
    <3>2. new \in Rights
      BY <1>4, <1>7 DEF Rights, RoundRecords
    <3> QED
      BY <1>7, <3>1, <3>2, FS_AddElement
  <2> QED
    BY <2>1, <2>2, <2>3, <2>4, <2>5 DEF SoloTyped
<1>12. /\ pocket'[u] = p /\ round'[u] = gone /\ Only(u)
       /\ record'[u] = record[u] + o.net + won /\ spent'[u] = spent[u]
  BY <1>1, <1>7, <1>8 DEF Sound, SoloTyped, Only
<1>13. RoundSound(u)'
  BY <1>1, <1>4, <1>9, <1>10, <1>12 DEF RoundSound, Stakes
<1>14. Numbered(u)
  BY <1>1, <1>10, <1>12 DEF Numbered
<1>15. Moved(u, o.net + won) /\ WithinTerms(u, o.net + won)
  <2>1. Own(u)' = p.land + p.chips + p.held
    BY <1>12 DEF Own, Cash
  <2>2. Own(u)' = Own(u) + (o.net + won)
    BY <1>4, <1>5, <1>6, <1>7, <1>9, <2>1
  <2>3. house' + jackpot' + relief' + claims'
          = house + jackpot + relief + claims - (o.net + won)
    BY <1>5, <1>7 DEF Sound, SoloTyped
  <2>4. record'[u] = record[u] + (o.net + won) + spent'[u] - spent[u]
    BY <1>5, <1>7, <1>12 DEF Sound, SoloTyped
  <2>5. Terms(u) = r.bet
    BY <1>1 DEF Terms, MaxPlayerLoss
  <2>6. -(o.net + won) =< Terms(u)
    BY <1>4, <1>5, <1>7, <2>5
  <2> QED
    BY <2>2, <2>3, <2>4, <2>6 DEF Moved, WithinTerms
<1> QED
  <2>1. o.net + won \in Int
    BY <1>5, <1>7
  <2> QED
    BY <1>11, <1>12, <1>13, <1>14, <1>15, <2>1 DEF Stepped

\* A right is paid in full.
LEMMA PaySpinFacts ==
  ASSUME Sound, NEW u \in Gambler, NEW s \in spins, s.who = u, s.pay =< house,
         PaySpin(s), Charms
  PROVE  /\ pocket' \in [Gambler -> Pockets]
         /\ pocket'[u].held = pocket[u].held
         /\ house' \in Nat /\ jackpot' \in Nat /\ relief' \in Nat /\ claims' \in Int
         /\ streak' \in [Gambler -> Nat] /\ record' \in [Gambler -> Int]
         /\ shelf' \in [Gambler -> [Goods -> Nat]]
         /\ worn' \in [Gambler -> SUBSET Goods]
         /\ spins' \subseteq Rights /\ IsFiniteSet(spins')
         /\ opened' \in Nat /\ bought' \in Nat /\ broken' \in Nat
         /\ spent' \in [Gambler -> Nat] /\ late' \in BOOLEAN
         /\ opened' = opened
         /\ \A v \in Gambler \ {u} :
              /\ pocket'[v] = pocket[v] /\ streak'[v] = streak[v]
              /\ worn'[v] = worn[v] /\ record'[v] = record[v]
              /\ spent'[v] = spent[v]
         /\ \E d \in Nat : Moved(u, d)
<1> DEFINE gain == s.pay + s.claim
           p == [pocket[u] EXCEPT !.chips = pocket[u].chips + gain]
<1>1. /\ pocket' = [pocket EXCEPT ![u].chips = @ + s.pay + s.claim]
      /\ house' = house - s.pay /\ claims' = claims - s.claim
      /\ record' = [record EXCEPT ![u] = @ + s.pay + s.claim]
      /\ spins' = spins \ {s}
      /\ UNCHANGED <<jackpot, relief, streak, worn, opened, broken, late,
                     shelf, bought, spent>>
  BY DEF PaySpin, Charms
<1>2. s.pay \in Nat /\ s.claim \in Nat /\ gain \in Nat
  BY DEF Sound, SoloTyped, Rights
<1>3. /\ pocket[u] \in Pockets /\ pocket[u].chips \in Nat
      /\ pocket[u].land \in Nat /\ pocket[u].held \in Nat
      /\ Own(u) = pocket[u].land + pocket[u].chips + pocket[u].held
  BY TypedRound
<1>4. pocket' = [pocket EXCEPT ![u] = p]
  <2>1. pocket[u].chips + s.pay + s.claim = pocket[u].chips + gain
    BY <1>2, <1>3
  <2>2. pocket' = [pocket EXCEPT ![u] =
                     [pocket[u] EXCEPT !.chips = pocket[u].chips + s.pay + s.claim]]
    BY <1>1 DEF Sound, SoloTyped
  <2> HIDE DEF gain
  <2> QED
    BY <2>1, <2>2
<1>5. /\ p \in Pockets /\ p.land = pocket[u].land /\ p.held = pocket[u].held
      /\ p.chips = pocket[u].chips + gain
  <2> DEFINE x == pocket[u]
             n == pocket[u].chips + gain
  <2>1. x \in Pockets /\ n \in Nat
    BY <1>2, <1>3
  <2> HIDE DEF x, n
  <2>2. /\ [x EXCEPT !.chips = n] \in Pockets
        /\ [x EXCEPT !.chips = n].held = x.held
        /\ [x EXCEPT !.chips = n].land = x.land
        /\ [x EXCEPT !.chips = n].chips = n
    BY <2>1 DEF Pockets
  <2> QED
    BY <2>2 DEF x, n
<1> HIDE DEF p
<1>6. pocket'[u] = p /\ record'[u] = record[u] + s.pay + s.claim
  BY <1>1, <1>4 DEF Sound, SoloTyped
<1>7. /\ house' \in Nat /\ claims' \in Int
      /\ spins' \subseteq Rights /\ IsFiniteSet(spins')
  <2>1. house' \in Nat /\ claims' \in Int
    BY <1>1, <1>2 DEF Sound, SoloTyped
  <2> QED
    BY <1>1, <2>1, FS_RemoveElement DEF Sound, SoloTyped
<1>8. record' \in [Gambler -> Int]
  <2>1. record \in [Gambler -> Int]
    BY DEF Sound, SoloTyped
  <2>2. record[u] + s.pay + s.claim \in Int
    BY <1>2, <2>1
  <2> QED
    BY <1>1, <2>1, <2>2
<1>9. Moved(u, gain)
  <2>1. Own(u)' = p.land + p.chips + p.held
    BY <1>6 DEF Own, Cash
  <2>2. Own(u)' = Own(u) + gain
    BY <1>2, <1>3, <1>5, <2>1
  <2>3. house' + jackpot' + relief' + claims'
          = house + jackpot + relief + claims - gain
    BY <1>1, <1>2 DEF Sound, SoloTyped
  <2>4. record'[u] = record[u] + gain + spent'[u] - spent[u]
    BY <1>1, <1>2, <1>6 DEF Sound, SoloTyped
  <2> QED
    BY <2>2, <2>3, <2>4 DEF Moved
<1>10. \A v \in Gambler \ {u} :
         /\ pocket'[v] = pocket[v] /\ streak'[v] = streak[v]
         /\ worn'[v] = worn[v] /\ record'[v] = record[v] /\ spent'[v] = spent[v]
  BY <1>1 DEF Sound, SoloTyped
<1>12. pocket' \in [Gambler -> Pockets]
  BY <1>4, <1>5 DEF Sound, SoloTyped
<1>11. /\ jackpot' \in Nat /\ relief' \in Nat
       /\ streak' \in [Gambler -> Nat] /\ shelf' \in [Gambler -> [Goods -> Nat]]
       /\ worn' \in [Gambler -> SUBSET Goods]
       /\ opened' \in Nat /\ bought' \in Nat /\ broken' \in Nat
       /\ spent' \in [Gambler -> Nat] /\ late' \in BOOLEAN
  BY <1>1 DEF Sound, SoloTyped
<1> HIDE DEF gain
<1> QED
  BY <1>1, <1>2, <1>5, <1>6, <1>7, <1>8, <1>9, <1>10, <1>11, <1>12

LEMMA TermsType ==
  ASSUME Sound, NEW u \in Gambler
  PROVE  Terms(u) \in Nat
<1>1. round[u] \in RoundRecords /\ RoundSound(u)
  BY TypedRound
<1> QED
  BY <1>1 DEF Terms, MaxPlayerLoss, RoundRecords

LEMMA EndSpinPays ==
  ASSUME Sound, NEW u \in Gambler, NEW s \in spins,
         s.pay =< house - Reserved(Gambler \ {u})
  PROVE  s.pay =< house
<1>1. Reserved(Gambler \ {u}) \in Nat
  BY ReservedType DEF Sound
<1> QED
  BY <1>1 DEF Sound, SoloTyped, Rights

LEMMA EndSpinStep ==
  ASSUME Sound, NEW u \in Gambler, EndSpin(u)
  PROVE  Stepped(u)
<1>1. round[u].step = "spun" /\ Charms /\ RoundSound(u)
  BY TypedRound DEF EndSpin
<1>2. CASE \E s \in spins : /\ s.who = u /\ s.no = round[u].no
                            /\ s.pay =< house - Reserved(Gambler \ {u})
                            /\ PaySpin(s) /\ UNCHANGED round
  <2>1. PICK s \in spins : /\ s.who = u
                           /\ s.pay =< house - Reserved(Gambler \ {u})
                           /\ PaySpin(s) /\ round' = round
    BY <1>2
  <2>2. s.pay =< house
    BY <2>1, EndSpinPays
  <2>3. SoloTyped'
    BY <1>1, <2>1, <2>2, PaySpinFacts DEF SoloTyped, Sound
  <2>4. Only(u)
    BY <1>1, <2>1, <2>2, PaySpinFacts DEF Only
  <2>5. pocket'[u].held = pocket[u].held /\ opened' = opened
    BY <1>1, <2>1, <2>2, PaySpinFacts
  <2>6. RoundSound(u)'
    BY <1>1, <2>1, <2>5 DEF RoundSound
  <2>7. Numbered(u)
    BY <1>1, <2>1, <2>5 DEF Numbered
  <2>8. PICK d \in Nat : Moved(u, d)
    BY <1>1, <2>1, <2>2, PaySpinFacts
  <2>9. WithinTerms(u, d)
    BY TermsType DEF WithinTerms
  <2> QED
    BY <2>3, <2>4, <2>6, <2>7, <2>8, <2>9 DEF Stepped
<1>3. CASE /\ round' = [round EXCEPT ![u] = NoRound]
           /\ UNCHANGED <<pocket, streak, record, worn, spins, opened, broken,
                          late>> /\ Till
  <2>1. NoRound \in RoundRecords /\ NoRound.step = "idle"
    BY NoRoundType DEF NoRoundIsSound
  <2>2. /\ round' = [round EXCEPT ![u] = NoRound]
        /\ UNCHANGED <<pocket, streak, record, worn, spins, opened, broken, late,
                       house, jackpot, relief, claims, shelf, bought, spent>>
    BY <1>1, <1>3 DEF Till, Charms
  <2>3. SoloTyped'
    BY <2>1, <2>2 DEF Sound, SoloTyped
  <2>4. Only(u)
    BY <2>2 DEF Only, Sound, SoloTyped
  <2>5. pocket'[u].held = 0
    BY <1>1, <2>2 DEF RoundSound
  <2>6. RoundSound(u)' /\ Numbered(u)
    BY <2>2, <2>5, RoundEnds
  <2>7. Moved(u, 0) /\ WithinTerms(u, 0)
    <3>1. Own(u)' = Own(u)
      BY <2>2 DEF Own, Cash
    <3> QED
      BY <2>2, <3>1, TypedRound, TermsType DEF Moved, WithinTerms, Sound, SoloTyped
  <2> QED
    BY <2>3, <2>4, <2>6, <2>7 DEF Stepped
<1> QED
  BY <1>2, <1>3 DEF EndSpin

LEMMA ResumeSpinStep ==
  ASSUME Sound, NEW u \in Gambler, ResumeSpin(u)
  PROVE  Stepped(u)
<1>1. round[u] = NoRound /\ Charms /\ RoundSound(u) /\ round' = round
  BY TypedRound DEF ResumeSpin
<1>2. PICK s \in spins : s.who = u /\ Payable(s) /\ PaySpin(s)
  BY DEF ResumeSpin
<1>3. s.pay =< house
  <2>1. Reserved(Gambler) \in Nat /\ house \in Nat /\ s.pay =< Free
    BY <1>2, FreeType DEF Payable, Sound, SoloTyped
  <2> QED
    BY <2>1 DEF Free, Larger, Sound, SoloTyped, Rights
<1>4. SoloTyped'
  BY <1>1, <1>2, <1>3, PaySpinFacts DEF SoloTyped, Sound
<1>5. Only(u)
  BY <1>1, <1>2, <1>3, PaySpinFacts DEF Only
<1>6. pocket'[u].held = pocket[u].held /\ opened' = opened
  BY <1>1, <1>2, <1>3, PaySpinFacts
<1>7. RoundSound(u)'
  BY <1>1, <1>6 DEF RoundSound
<1>8. Numbered(u)
  BY <1>1, <1>6 DEF Numbered
<1>9. PICK d \in Nat : Moved(u, d)
  BY <1>1, <1>2, <1>3, PaySpinFacts
<1>10. WithinTerms(u, d)
  BY TermsType DEF WithinTerms
<1> QED
  BY <1>4, <1>5, <1>7, <1>8, <1>9, <1>10 DEF Stepped

LEMMA BuyCharmStep ==
  ASSUME Sound, NEW u \in Gambler, NEW c \in Goods, BuyCharm(u, c)
  PROVE  Stepped(u)
<1> DEFINE price == CharmPrice[c]
           p == Paid(pocket[u], price)
<1>1. price \in Nat \ {0}
  BY SoloAssumption DEF CharmPrice
<1>2. /\ pocket' = [pocket EXCEPT ![u] = p]
      /\ house' = house + price
      /\ shelf' = [shelf EXCEPT ![u][c] = @ + 1]
      /\ bought' = bought + 1
      /\ spent' = [spent EXCEPT ![u] = @ + price]
      /\ UNCHANGED <<jackpot, relief, claims, streak, record, worn, round, spins,
                     opened, broken, late>>
      /\ Cash(u) >= price
  BY DEF BuyCharm
<1> HIDE DEF price
<1>3. /\ p \in Pockets /\ p.held = pocket[u].held
      /\ p.land + p.chips + price = pocket[u].land + pocket[u].chips
  <2>1. pocket[u].land + pocket[u].chips >= price /\ pocket[u] \in Pockets
    BY <1>2, TypedRound DEF Cash
  <2> QED
    BY <1>1, <2>1, PaidFacts
<1> HIDE DEF p
<1>4. SoloTyped'
  <2>1. /\ pocket' \in [Gambler -> Pockets]
        /\ house' \in Nat /\ bought' \in Nat
    BY <1>1, <1>2, <1>3 DEF Sound, SoloTyped
  <2>2. shelf' \in [Gambler -> [Goods -> Nat]]
    BY <1>2 DEF Sound, SoloTyped
  <2>3. spent' \in [Gambler -> Nat]
    <3>1. spent \in [Gambler -> Nat] /\ spent[u] + price \in Nat
      BY <1>1 DEF Sound, SoloTyped
    <3> QED
      BY <1>2, <3>1
  <2> QED
    BY <1>2, <2>1, <2>2, <2>3 DEF Sound, SoloTyped
<1>5. pocket'[u] = p /\ Only(u) /\ spent'[u] = spent[u] + price /\ spent[u] \in Nat
  BY <1>2 DEF Sound, SoloTyped, Only
<1>6. RoundSound(u) /\ RoundSound(u)' /\ Numbered(u)
  <2>1. RoundSound(u)
    BY TypedRound
  <2> QED
    BY <1>2, <1>3, <1>5, <2>1 DEF RoundSound, Numbered
<1>7. Moved(u, -price) /\ WithinTerms(u, -price)
  <2>1. Own(u)' = p.land + p.chips + p.held
    BY <1>5 DEF Own, Cash
  <2>2. Own(u)' = Own(u) + (-price)
    <3>1. /\ Own(u) = pocket[u].land + pocket[u].chips + pocket[u].held
          /\ pocket[u].land \in Nat /\ pocket[u].chips \in Nat
          /\ pocket[u].held \in Nat
      BY TypedRound
    <3>2. p.land \in Nat /\ p.chips \in Nat /\ p.held \in Nat
      BY <1>3 DEF Pockets
    <3> QED
      BY <1>1, <1>3, <2>1, <3>1, <3>2
  <2>3. house' + jackpot' + relief' + claims'
          = house + jackpot + relief + claims - (-price)
    BY <1>1, <1>2 DEF Sound, SoloTyped
  <2>4. record'[u] = record[u] + (-price) + spent'[u] - spent[u]
    BY <1>1, <1>2, <1>5 DEF Sound, SoloTyped
  <2>5. spent'[u] # spent[u]
    BY <1>1, <1>5
  <2> QED
    BY <2>2, <2>3, <2>4, <2>5 DEF Moved, WithinTerms
<1> QED
  <2>1. -price \in Int
    BY <1>1
  <2> QED
    BY <1>4, <1>5, <1>6, <1>7, <2>1 DEF Stepped

LEMMA PutOnStep ==
  ASSUME Sound, NEW u \in Gambler, NEW c \in Goods, PutOn(u, c)
  PROVE  Stepped(u)
<1>1. /\ shelf[u][c] > 0
      /\ shelf' = [shelf EXCEPT ![u][c] = @ - 1]
      /\ worn' = [worn EXCEPT ![u] = @ \union {c}]
      /\ late' \in BOOLEAN
      /\ UNCHANGED <<pocket, streak, record, round, spins, opened, bought, broken,
                     spent, house, jackpot, relief, claims>>
  BY DEF PutOn, Till
<1>2. SoloTyped'
  <2>1. shelf' \in [Gambler -> [Goods -> Nat]]
    <3>1. shelf[u][c] \in Nat /\ shelf[u][c] - 1 \in Nat
      BY <1>1 DEF Sound, SoloTyped
    <3> QED
      BY <1>1, <3>1 DEF Sound, SoloTyped
  <2> QED
    BY <1>1, <2>1 DEF Sound, SoloTyped
<1>3. Only(u)
  BY <1>1 DEF Sound, SoloTyped, Only
<1>4. RoundSound(u)' /\ Numbered(u)
  <2>1. RoundSound(u)
    BY TypedRound
  <2> QED
    BY <1>1, <2>1 DEF RoundSound, Numbered
<1>5. Moved(u, 0) /\ WithinTerms(u, 0)
  <2>1. Own(u)' = Own(u)
    BY <1>1 DEF Own, Cash
  <2> QED
    BY <1>1, <2>1, TypedRound, TermsType DEF Moved, WithinTerms, Sound, SoloTyped
<1> QED
  BY <1>2, <1>3, <1>4, <1>5 DEF Stepped

\* After a restart nothing is under way, and nobody has lost anything.
LEMMA RestartGamesStep ==
  ASSUME Sound, RestartGames
  PROVE  /\ SoloTyped' /\ RoundsSound' /\ RightsSound'
         /\ \A u \in Gambler : Own(u)' = Own(u)
         /\ UNCHANGED <<record, spent, spins, house, jackpot, relief, claims, late>>
         /\ \A u \in Gambler : round'[u] = NoRound
<1>1. /\ round' = [u \in Gambler |-> NoRound]
      /\ pocket' = [u \in Gambler |-> [land |-> Cash(u) + pocket[u].held,
                                       chips |-> 0, held |-> 0]]
      /\ broken' = broken + 1
      /\ UNCHANGED <<streak, record, worn, spins, opened, late, shelf, bought,
                     spent, house, jackpot, relief, claims>>
  BY DEF RestartGames, Charms, Till
<1>2. /\ NoRound \in RoundRecords /\ NoRound.step = "idle" /\ NoRound.no = 0
  BY NoRoundType DEF NoRoundIsSound, NoRound
<1>3. \A u \in Gambler : Cash(u) + pocket[u].held \in Nat
                         /\ Own(u) = Cash(u) + pocket[u].held
  BY TypedRound DEF Own
<1>4. pocket' \in [Gambler -> Pockets]
  BY <1>1, <1>3 DEF Pockets
<1>5. SoloTyped'
  BY <1>1, <1>2, <1>4 DEF Sound, SoloTyped
<1>6. \A u \in Gambler : round'[u] = NoRound
  BY <1>1
<1>7. \A u \in Gambler : /\ pocket'[u].land = Cash(u) + pocket[u].held
                         /\ pocket'[u].chips = 0 /\ pocket'[u].held = 0
  BY <1>1
<1>8. \A u \in Gambler : Own(u)' = Own(u)
  BY <1>3, <1>7 DEF Own, Cash
<1>9. RoundsSound'
  BY <1>2, <1>6, <1>7 DEF RoundsSound, RoundSound
<1>10. RightsSound'
  BY <1>1, <1>2, <1>6 DEF Sound, RightsSound
<1> QED
  BY <1>1, <1>5, <1>6, <1>8, <1>9, <1>10

\* The numbers stay apart.
LEMMA NumbersStep ==
  ASSUME Sound, NEW u \in Gambler, Stepped(u)
  PROVE  \A v \in Gambler : \A w \in Gambler :
           v # w /\ round'[v].step # "idle" => round'[v].no # round'[w].no
<1>1. \A v \in Gambler : /\ round[v].step = "idle" => round[v] = NoRound
                         /\ round[v].step # "idle" =>
                              round[v].no > 0 /\ round[v].no =< opened
                         /\ round[v].no \in Nat
  BY DEF Sound, RoundsSound, RoundSound, SoloTyped, RoundRecords
<1>2. NoRound.step = "idle" /\ NoRound.no = 0 /\ opened \in Nat
  BY DEF NoRound, Sound, SoloTyped
<1>3. \A v \in Gambler : round[v].no =< opened
  BY <1>1, <1>2
<1>4. \A v \in Gambler \ {u} : round'[v] = round[v]
  BY DEF Stepped, Only
<1>5. \A v \in Gambler : \A w \in Gambler :
        v # w /\ round[v].step # "idle" => round[v].no # round[w].no
  BY DEF Sound, RightsSound
<1>6. CASE round'[u] = NoRound
  BY <1>1, <1>2, <1>4, <1>5, <1>6
<1>7. CASE round[u].step # "idle" /\ round'[u].no = round[u].no
  BY <1>1, <1>2, <1>4, <1>5, <1>7
<1>8. CASE round'[u].no = opened + 1
  <2>1. \A v \in Gambler \ {u} : round'[v].no # round'[u].no
    BY <1>1, <1>2, <1>3, <1>4, <1>8
  <2> QED
    BY <1>4, <1>5, <2>1
<1> QED
  BY <1>6, <1>7, <1>8 DEF Stepped, Numbered

LEMMA OldRights ==
  ASSUME Sound, NEW u \in Gambler, Stepped(u), NEW s \in spins
  PROVE  /\ s.no > 0 /\ s.no =< opened'
         /\ \A v \in Gambler : s.no = round'[v].no => round'[v].step = "spun" /\ s.who = v
<1>1. /\ s.no > 0 /\ s.no =< opened /\ s.no \in Nat /\ opened \in Nat
      /\ \A v \in Gambler : s.no = round[v].no => round[v].step = "spun" /\ s.who = v
  BY DEF Sound, RightsSound, SoloTyped, Rights
<1>2. NoRound.no = 0
  BY DEF NoRound
<1>3. \A v \in Gambler \ {u} : round'[v] = round[v]
  BY DEF Stepped, Only
<1>4. s.no = round'[u].no => round'[u].step = "spun" /\ s.who = u
  BY <1>1, <1>2 DEF Stepped, Numbered
<1>5. s.no =< opened'
  BY <1>1 DEF Stepped, Numbered
<1> QED
  BY <1>1, <1>3, <1>4, <1>5

\* Rights are only paid, or won by the spin whose number they carry.
LEMMA RightsStep ==
  ASSUME Sound, NEW u \in Gambler, Stepped(u),
         \/ spins' \subseteq spins
         \/ /\ round[u].step = "playing" /\ round'[u].step = "spun"
            /\ round'[u].no = round[u].no
            /\ \E new : /\ spins' \subseteq spins \union {new}
                        /\ new.no = round[u].no /\ new.who = u
  PROVE  RightsSound'
<1>1. \A v \in Gambler : \A w \in Gambler :
        v # w /\ round'[v].step # "idle" => round'[v].no # round'[w].no
  BY NumbersStep
<1>2. \A s \in spins : \A t \in spins : s.no = t.no => s = t
  BY DEF Sound, RightsSound
<1>3. CASE spins' \subseteq spins
  <2>1. \A s \in spins' : s.no > 0 /\ s.no =< opened'
    BY <1>3, OldRights
  <2>2. \A s \in spins' : \A v \in Gambler :
          s.no = round'[v].no => round'[v].step = "spun" /\ s.who = v
    BY <1>3, OldRights
  <2>3. \A s \in spins' : \A t \in spins' : s.no = t.no => s = t
    BY <1>2, <1>3
  <2> QED
    BY <1>1, <2>1, <2>2, <2>3 DEF RightsSound
<1>4. ASSUME round[u].step = "playing", round'[u].step = "spun",
             round'[u].no = round[u].no, NEW new,
             spins' \subseteq spins \union {new}, new.no = round[u].no, new.who = u
      PROVE  RightsSound'
  <2>1. new.no > 0 /\ new.no =< opened'
    <3>1. round[u].no > 0 /\ round[u].no =< opened /\ opened \in Nat /\ round[u].no \in Nat
      BY <1>4, TypedRound DEF RoundSound, Sound, SoloTyped, RoundRecords
    <3> QED
      BY <1>4, <3>1 DEF Stepped, Numbered, NoRound
  <2>2. \A v \in Gambler : new.no = round'[v].no => round'[v].step = "spun" /\ new.who = v
    BY <1>1, <1>4
  <2>3. \A s \in spins : s.no # new.no
    BY <1>4 DEF Sound, RightsSound
  <2>4. \A s \in spins' : s.no > 0 /\ s.no =< opened'
    BY <1>4, <2>1, OldRights
  <2>5. \A s \in spins' : \A v \in Gambler :
          s.no = round'[v].no => round'[v].step = "spun" /\ s.who = v
    BY <1>4, <2>2, OldRights
  <2>6. \A s \in spins' : \A t \in spins' : s.no = t.no => s = t
    BY <1>2, <1>4, <2>3
  <2> QED
    BY <1>1, <2>4, <2>5, <2>6 DEF RightsSound
<1> QED
  BY <1>3, <1>4

\* What the actions of a gambler do to the rights.
RightsMove(u) ==
  \/ spins' = spins /\ claims' = claims
  \/ \E s \in spins : spins' = spins \ {s} /\ claims' = claims - s.claim
  \/ /\ round[u].step = "playing" /\ round'[u].step = "spun"
     /\ round'[u].no = round[u].no
     /\ \E new \in Rights : /\ spins' = spins \union {new}
                            /\ new.no = round[u].no /\ new.who = u
                            /\ claims' = claims + new.claim

LEMMA SpinPaidRights ==
  ASSUME Sound, NEW u \in Gambler, SpinPaid(u)
  PROVE  RightsMove(u)
<1>1. /\ round[u].step = "playing" /\ round' = [round EXCEPT ![u].step = "spun"]
      /\ round[u] \in RoundRecords
  BY SpinPaidFacts, TypedRound
<1>2. round'[u].step = "spun" /\ round'[u].no = round[u].no
  BY <1>1 DEF Sound, SoloTyped, RoundRecords
<1>3. PICK reels \in Reels, next \in Reels : \E won, free, claimed, new :
        SpinDone(u, reels, next, SpinOutcome(u, reels), won, free, claimed, new)
  BY SpinPaidFacts
<1>4. PICK won, free, claimed, new :
        SpinDone(u, reels, next, SpinOutcome(u, reels), won, free, claimed, new)
  BY <1>3
<1>5. /\ claimed \in Nat /\ free \in Nat /\ claims' = claims + claimed
      /\ new = [no |-> round[u].no, who |-> u, pay |-> free, claim |-> claimed]
      /\ \/ spins' = spins \union {new}
         \/ spins' = spins /\ claimed = 0
  BY <1>4 DEF SpinDone
<1>6. new \in Rights /\ new.no = round[u].no /\ new.who = u /\ new.claim = claimed
  BY <1>1, <1>5 DEF Rights, RoundRecords
<1>7. CASE spins' = spins \union {new}
  BY <1>1, <1>2, <1>5, <1>6, <1>7 DEF RightsMove
<1>8. CASE spins' = spins /\ claimed = 0
  BY <1>5, <1>8 DEF RightsMove, Sound, SoloTyped
<1> QED
  BY <1>5, <1>7, <1>8

\* The actions of one gambler.
Deed(u) ==
  \/ \E o \in Offers : OpenRound(u, o[1], o[2])
  \/ BeginRound(u) \/ Raise(u) \/ FinishRound(u) \/ FinishChinchiro(u)
  \/ BreakOff(u) \/ SpinPaid(u) \/ EndSpin(u) \/ ResumeSpin(u)
  \/ \E c \in Goods : BuyCharm(u, c) \/ PutOn(u, c)

LEMMA DeedStep ==
  ASSUME Sound, NEW u \in Gambler, Deed(u)
  PROVE  Stepped(u)
BY OpenRoundStep, BeginRoundStep, RaiseStep, FinishRoundStep,
   FinishChinchiroStep, BreakOffStep, SpinPaidStep, EndSpinStep, ResumeSpinStep,
   BuyCharmStep, PutOnStep DEF Deed

LEMMA DeedRights ==
  ASSUME Sound, NEW u \in Gambler, Deed(u)
  PROVE  RightsMove(u)
<1>1. CASE \/ \E o \in Offers : OpenRound(u, o[1], o[2])
           \/ BeginRound(u) \/ Raise(u) \/ BreakOff(u)
  BY <1>1 DEF OpenRound, BeginRound, Raise, BreakOff, Till, RightsMove
<1>2. CASE FinishRound(u) \/ FinishChinchiro(u)
  BY <1>2 DEF FinishRound, FinishChinchiro, RightsMove
<1>3. CASE EndSpin(u) \/ ResumeSpin(u)
  BY <1>3 DEF EndSpin, ResumeSpin, PaySpin, Till, RightsMove
<1>4. CASE \E c \in Goods : BuyCharm(u, c) \/ PutOn(u, c)
  BY <1>4 DEF BuyCharm, PutOn, Till, RightsMove
<1> QED
  BY <1>1, <1>2, <1>3, <1>4, SpinPaidRights DEF Deed

LEMMA SoundStep ==
  ASSUME Sound, [SoloNext]_soloVars
  PROVE  Sound'
<1>1. ASSUME NEW u \in Gambler, Deed(u)
      PROVE  Sound'
  <2>1. Stepped(u) /\ RightsMove(u)
    BY <1>1, DeedStep, DeedRights
  <2>2. RightsSound'
    BY <2>1, RightsStep DEF RightsMove
  <2>3. RoundsSound'
    <3>1. ASSUME NEW v \in Gambler \ {u}
          PROVE  RoundSound(v)'
      <4>1. RoundSound(v) /\ round[v] \in RoundRecords /\ opened \in Nat
        BY TypedRound DEF Sound, SoloTyped
      <4>2. round'[v] = round[v] /\ pocket'[v] = pocket[v]
            /\ opened' \in Nat /\ opened' >= opened
        BY <2>1, <4>1 DEF Stepped, Only, Numbered
      <4> QED
        BY <4>1, <4>2 DEF RoundSound, RoundRecords
    <3> QED
      BY <2>1, <3>1 DEF RoundsSound, Stepped
  <2> QED
    BY <2>1, <2>2, <2>3 DEF Sound, Stepped
<1>2. CASE RestartGames
  BY <1>2, RestartGamesStep DEF Sound
<1>3. CASE UNCHANGED soloVars
  <2>1. /\ UNCHANGED <<pocket, house, jackpot, relief, claims, streak, record, shelf>>
        /\ UNCHANGED <<worn, round, spins, opened, bought, broken, spent, late>>
    BY <1>3 DEF soloVars
  <2>2. SoloTyped'
    BY <2>1 DEF Sound, SoloTyped
  <2>3. RoundsSound'
    BY <2>1 DEF Sound, RoundsSound, RoundSound
  <2>4. RightsSound'
    BY <2>1 DEF Sound, RightsSound
  <2> QED
    BY <2>2, <2>3, <2>4 DEF Sound
<1> QED
  BY <1>1, <1>2, <1>3 DEF SoloNext, Deed

LEMMA SoundInit ==
  ASSUME SoloInit
  PROVE  Sound
<1>1. /\ NoRound \in RoundRecords /\ NoRound.step = "idle" /\ NoRound.no = 0
  BY NoRoundType DEF NoRoundIsSound, NoRound
<1>2. HouseChips \div 10 \in Nat
  BY SoloAssumption
<1>3. pocket \in [Gambler -> Pockets]
  BY SoloAssumption DEF SoloInit, Pockets
<1>4. SoloTyped
  <2>1. IsFiniteSet(spins) /\ spins \subseteq Rights
    BY FS_EmptySet DEF SoloInit
  <2>2. /\ house \in Nat /\ jackpot \in Nat /\ relief \in Nat /\ claims \in Int
        /\ opened \in Nat /\ bought \in Nat /\ broken \in Nat
    BY <1>2, SoloAssumption DEF SoloInit
  <2>3. /\ streak \in [Gambler -> Nat] /\ record \in [Gambler -> Int]
        /\ shelf \in [Gambler -> [Goods -> Nat]]
        /\ worn \in [Gambler -> SUBSET Goods]
    BY SoloAssumption DEF SoloInit
  <2>4. /\ round \in [Gambler -> RoundRecords] /\ spent \in [Gambler -> Nat]
        /\ late \in BOOLEAN
    BY <1>1 DEF SoloInit
  <2> QED
    BY <1>3, <2>1, <2>2, <2>3, <2>4 DEF SoloTyped
<1>5. RoundsSound
  BY <1>1 DEF SoloInit, RoundsSound, RoundSound
<1>6. RightsSound
  BY <1>1 DEF SoloInit, RightsSound
<1> QED
  BY <1>4, <1>5, <1>6 DEF Sound

\* In every reachable state no pocket and no till is below zero, a round is
\* what its game allows, and a right belongs to one round.
THEOREM SoloIsSound == SoloSpec => []Sound
<1>1. SoloInit => Sound
  BY SoundInit
<1>2. Sound /\ [SoloNext]_soloVars => Sound'
  BY SoundStep
<1> QED
  BY <1>1, <1>2, PTL DEF SoloSpec

-----------------------------------------------------------------------------
(* The books.                                                              *)

AllOwned == SumFunctionOnSet([u \in Gambler |-> Own(u)], Gambler)
AllClaims == SumFunctionOnSet([s \in spins |-> s.claim], spins)
Granted == SumFunctionOnSet(Wallets, Gambler) + HouseChips + HouseChips \div 10

BooksRight ==
  /\ AllOwned + house + jackpot + relief + claims = Granted
  /\ claims = AllClaims
  /\ \A u \in Gambler : record[u] = Own(u) + spent[u] - Wallets[u]

LEMMA SoloBooksIs ==
  ASSUME Sound
  PROVE  SoloBooks <=> BooksRight
<1>1. SumFunction(Wallets) = SumFunctionOnSet(Wallets, Gambler)
  BY SoloAssumption DEF SumFunction
<1>2. SumFunction([u \in Gambler |-> Cash(u) + pocket[u].held]) = AllOwned
  BY DEF SumFunction, AllOwned, Own
<1>3. SumFunction([s \in spins |-> s.claim]) = AllClaims
  BY DEF SumFunction, AllClaims
<1> QED
  BY <1>1, <1>2, <1>3 DEF SoloBooks, BooksRight, Granted, Own

LEMMA OwnedMoves ==
  ASSUME Sound, Sound', NEW u \in Gambler, Only(u), NEW d \in Int, Own(u)' = Own(u) + d
  PROVE  /\ AllOwned \in Int
         /\ AllOwned' = AllOwned + d
         /\ \A v \in Gambler \ {u} : Own(v)' = Own(v)
<1> DEFINE f == [v \in Gambler |-> Own(v)]
           g == [v \in Gambler |-> Own(v)']
<1>1. \A v \in Gambler \ {u} : Own(v)' = Own(v)
  BY DEF Only, Own, Cash
<1>2. \A v \in Gambler : Own(v) \in Int /\ Own(v)' \in Int
  <2>1. \A v \in Gambler : Own(v) \in Int
    BY TypedRound
  <2> QED
    BY <1>1, <2>1
<1>3. \A v \in Gambler : f[v] = Own(v) /\ g[v] = Own(v)' /\ f[v] \in Int /\ g[v] \in Int
  BY <1>2
<1>4. AllOwned = SumFunctionOnSet(f, Gambler) /\ AllOwned' = SumFunctionOnSet(g, Gambler)
  BY DEF AllOwned
<1>5. IsFiniteSet(Gambler)
  BY SoloAssumption
<1> HIDE DEF f, g
<1>6. SumFunctionOnSet(g, Gambler) = SumFunctionOnSet(f, Gambler) - f[u] + g[u]
  BY <1>1, <1>3, <1>5, SumUpdate
<1>7. SumFunctionOnSet(f, Gambler) \in Int
  BY <1>3, <1>5, SumInt
<1> QED
  BY <1>1, <1>3, <1>4, <1>6, <1>7

LEMMA ClaimsMove ==
  ASSUME Sound, NEW u \in Gambler, RightsMove(u), claims = AllClaims
  PROVE  claims' = AllClaims'
<1> DEFINE f == [s \in spins |-> s.claim]
           g == [s \in spins' |-> s.claim]
<1>1. /\ IsFiniteSet(spins) /\ \A s \in Rights : s.claim \in Int
      /\ spins \subseteq Rights
  BY DEF Sound, SoloTyped, Rights
<1>2. AllClaims = SumFunctionOnSet(f, spins) /\ AllClaims' = SumFunctionOnSet(g, spins')
  BY DEF AllClaims
<1>3. (\A s \in spins : f[s] = s.claim) /\ (\A s \in spins' : g[s] = s.claim)
  OBVIOUS
<1>4. AllClaims \in Int
  BY <1>1, <1>2, SumInt
<1>5. CASE spins' = spins /\ claims' = claims
  BY <1>5 DEF AllClaims
<1> HIDE DEF f, g
<1>6. ASSUME NEW s \in spins, spins' = spins \ {s}, claims' = claims - s.claim
      PROVE  claims' = AllClaims'
  <2>1. SumFunctionOnSet(f, spins) = f[s] + SumFunctionOnSet(f, spins \ {s})
    BY <1>1, <1>3, SumRemove
  <2>2. IsFiniteSet(spins \ {s})
    BY <1>1, FS_RemoveElement
  <2>3. SumFunctionOnSet(g, spins') = SumFunctionOnSet(f, spins \ {s})
    BY <1>3, <1>6, <2>2, SumEqual
  <2>4. f[s] \in Int /\ SumFunctionOnSet(f, spins \ {s}) \in Int
    BY <1>1, <1>3, <2>2, SumInt
  <2> QED
    BY <1>2, <1>3, <1>6, <2>1, <2>3, <2>4
<1>7. ASSUME NEW new \in Rights, round[u].step = "playing",
             spins' = spins \union {new}, new.no = round[u].no,
             claims' = claims + new.claim
      PROVE  claims' = AllClaims'
  <2>1. new \notin spins
    BY <1>7 DEF Sound, RightsSound
  <2>2. \A s \in spins \union {new} : g[s] = s.claim /\ g[s] \in Int
    BY <1>1, <1>3, <1>7
  <2>3. SumFunctionOnSet(g, spins \union {new}) = g[new] + SumFunctionOnSet(g, spins)
    BY <1>1, <2>1, <2>2, SumAdd
  <2>4. SumFunctionOnSet(g, spins) = SumFunctionOnSet(f, spins)
    BY <1>1, <1>3, <2>2, SumEqual
  <2>5. new.claim \in Int /\ g[new] = new.claim
    BY <1>1, <2>2
  <2> QED
    BY <1>2, <1>4, <1>7, <2>3, <2>4, <2>5
<1> QED
  BY <1>5, <1>6, <1>7 DEF RightsMove

LEMMA SoloBooksInit ==
  ASSUME SoloInit
  PROVE  SoloBooks
<1>1. Sound
  BY SoundInit
<1>2. /\ \A u \in Gambler : Wallets[u] \in Nat
      /\ HouseChips \in Nat /\ HouseChips \div 10 \in Nat
      /\ Wallets \in [Gambler -> Nat]
  BY SoloAssumption
<1>3. \A u \in Gambler : Own(u) = Wallets[u]
  BY <1>2 DEF SoloInit, Own, Cash
<1>4. AllOwned = SumFunctionOnSet(Wallets, Gambler) /\ AllOwned \in Int
  <2>1. [u \in Gambler |-> Own(u)] = Wallets
    BY <1>2, <1>3
  <2>2. SumFunctionOnSet(Wallets, Gambler) \in Int
    BY <1>2, SoloAssumption, SumInt
  <2> QED
    BY <2>1, <2>2 DEF AllOwned
<1>5. AllClaims = 0
  BY SumEmpty DEF AllClaims, SoloInit
<1>6. AllOwned + house + jackpot + relief + claims = Granted
  BY <1>2, <1>4 DEF SoloInit, Granted
<1>7. claims = AllClaims
  BY <1>5 DEF SoloInit
<1>8. \A u \in Gambler : record[u] = Own(u) + spent[u] - Wallets[u]
  BY <1>2, <1>3 DEF SoloInit
<1> QED
  BY <1>1, <1>6, <1>7, <1>8, SoloBooksIs DEF BooksRight

LEMMA BooksRightStep ==
  ASSUME Sound, BooksRight, [SoloNext]_soloVars, Sound'
  PROVE  BooksRight'
<1>0. /\ AllOwned + house + jackpot + relief + claims = Granted
      /\ claims = AllClaims
      /\ \A u \in Gambler : record[u] = Own(u) + spent[u] - Wallets[u]
  BY DEF BooksRight
<1>9. Granted' = Granted
  BY DEF Granted
<1>1. ASSUME NEW u \in Gambler, Deed(u)
      PROVE  BooksRight'
  <2>1. Stepped(u) /\ RightsMove(u)
    BY <1>1, DeedStep, DeedRights
  <2>2. PICK d \in Int : Moved(u, d)
    BY <2>1 DEF Stepped
  <2>3. Only(u) /\ Own(u)' = Own(u) + d
    BY <2>1, <2>2 DEF Stepped, Moved
  <2>4. /\ AllOwned \in Int /\ AllOwned' = AllOwned + d
        /\ \A v \in Gambler \ {u} : Own(v)' = Own(v)
    BY <2>3, OwnedMoves
  <2>5. AllOwned' + house' + jackpot' + relief' + claims' = Granted
    <3>1. house' + jackpot' + relief' + claims' = house + jackpot + relief + claims - d
      BY <2>2 DEF Moved
    <3>2. /\ house' \in Int /\ jackpot' \in Int /\ relief' \in Int /\ claims' \in Int
          /\ house \in Int /\ jackpot \in Int /\ relief \in Int /\ claims \in Int
      BY DEF Sound, SoloTyped
    <3>3. AllOwned + house + jackpot + relief + claims = Granted
      BY <1>0
    <3>4. d \in Int /\ AllOwned \in Int /\ AllOwned' = AllOwned + d
      BY <2>2, <2>4
    <3> DEFINE rest == house + jackpot + relief + claims
               next == house' + jackpot' + relief' + claims'
    <3>5. rest \in Int /\ next \in Int
      BY <3>2
    <3>8. next = rest - d
      <4>1. \A a \in Int, b \in Int, c \in Int, e \in Int, x \in Int :
              a + b + c + e - x = (a + b + c + e) - x
        OBVIOUS
      <4>2. house + jackpot + relief + claims - d
              = (house + jackpot + relief + claims) - d
        BY <3>2, <3>4, <4>1
      <4> QED
        BY <3>1, <4>2
    <3>9. AllOwned + rest = Granted
      BY <3>2, <3>3, <3>4
    <3>6. AllOwned' + next = AllOwned' + house' + jackpot' + relief' + claims'
      BY <3>2, <3>4
    <3> HIDE DEF rest, next
    <3>7. AllOwned' + next = Granted
      BY <3>4, <3>5, <3>8, <3>9
    <3> QED
      BY <3>6, <3>7
  <2>6. claims' = AllClaims'
    BY <1>0, <2>1, ClaimsMove
  <2>7. ASSUME NEW v \in Gambler
        PROVE  record'[v] = Own(v)' + spent'[v] - Wallets[v]
    <3>1. CASE v = u
      <4>1. record[u] \in Int /\ spent[u] \in Int /\ Wallets[u] \in Int
        <5>1. record \in [Gambler -> Int] /\ spent \in [Gambler -> Nat]
          BY DEF Sound, SoloTyped
        <5>2. Wallets \in [Gambler -> Nat]
          BY SoloAssumption
        <5> QED
          BY <5>1, <5>2
      <4>6. spent'[u] \in Int
        BY DEF Sound, SoloTyped
      <4>5. Own(u) \in Int
        BY TypedRound
      <4>2. record'[u] = record[u] + d + spent'[u] - spent[u]
        BY <2>2 DEF Moved
      <4>3. record[u] = Own(u) + spent[u] - Wallets[u]
        BY <1>0
      <4> QED
        BY <2>2, <2>3, <3>1, <4>1, <4>2, <4>3, <4>5, <4>6
    <3>2. CASE v # u
      <4>1. record'[v] = record[v] /\ spent'[v] = spent[v] /\ Own(v)' = Own(v)
        BY <2>3, <2>4, <3>2 DEF Only
      <4> QED
        BY <1>0, <4>1
    <3> QED
      BY <3>1, <3>2
  <2> QED
    BY <1>9, <2>5, <2>6, <2>7 DEF BooksRight
<1>2. CASE RestartGames
  <2>1. /\ \A u \in Gambler : Own(u)' = Own(u)
        /\ UNCHANGED <<record, spent, spins, house, jackpot, relief, claims>>
    BY <1>2, RestartGamesStep
  <2>2. AllOwned' = AllOwned
    BY <2>1 DEF AllOwned
  <2>3. AllClaims' = AllClaims
    BY <2>1 DEF AllClaims
  <2> QED
    BY <1>0, <1>9, <2>1, <2>2, <2>3 DEF BooksRight
<1>3. CASE UNCHANGED soloVars
  <2>1. UNCHANGED <<pocket, house, jackpot, relief, claims, record, spins, spent>>
    BY <1>3 DEF soloVars
  <2>2. \A u \in Gambler : Own(u)' = Own(u)
    BY <2>1 DEF Own, Cash
  <2>3. AllOwned' = AllOwned
    BY <2>2 DEF AllOwned
  <2>4. AllClaims' = AllClaims
    BY <2>1 DEF AllClaims
  <2> QED
    BY <1>0, <1>9, <2>1, <2>2, <2>3, <2>4 DEF BooksRight
<1> QED
  BY <1>1, <1>2, <1>3 DEF SoloNext, Deed

\* The books of the games against the house, for any number of rounds: every
\* payment has a source, the claims' holder is worth the jackpots of the open
\* rights, and the record of a gambler is what his rounds did to his money.
THEOREM SoloBooksAdd == SoloSpec => []SoloBooks
<1>1. SoloInit => BooksRight
  BY SoloBooksInit, SoundInit, SoloBooksIs
<1>2. Sound /\ BooksRight /\ [SoloNext]_soloVars /\ Sound' => BooksRight'
  BY BooksRightStep
<1>3. Sound /\ BooksRight => SoloBooks
  BY SoloBooksIs
<1> QED
  BY <1>1, <1>2, <1>3, SoloIsSound, PTL DEF SoloSpec

-----------------------------------------------------------------------------
(* The terms.                                                              *)

LEMMA WithinTermsStep ==
  ASSUME Sound, [SoloNext]_soloVars, NEW u \in Gambler, spent'[u] = spent[u]
  PROVE  Own(u) - Own(u)' =< Terms(u)
<1>1. Terms(u) \in Nat /\ Own(u) \in Nat
  BY TermsType, TypedRound
<1>2. ASSUME NEW v \in Gambler, Deed(v)
      PROVE  Own(u) - Own(u)' =< Terms(u)
  <2>1. Stepped(v)
    BY <1>2, DeedStep
  <2>2. CASE v = u
    <3>1. PICK d \in Int : Moved(u, d) /\ WithinTerms(u, d)
      BY <2>1, <2>2 DEF Stepped
    <3> QED
      BY <1>1, <3>1 DEF Moved, WithinTerms
  <2>3. CASE v # u
    <3>1. Own(u)' = Own(u)
      BY <2>1, <2>3 DEF Stepped, Only, Own, Cash
    <3> QED
      BY <1>1, <3>1
  <2> QED
    BY <2>2, <2>3
<1>3. CASE RestartGames
  BY <1>1, <1>3, RestartGamesStep
<1>4. CASE UNCHANGED soloVars
  <2>1. Own(u)' = Own(u)
    BY <1>4 DEF soloVars, Own, Cash
  <2> QED
    BY <1>1, <2>1
<1> QED
  BY <1>2, <1>3, <1>4 DEF SoloNext, Deed

LEMMA OwnNext ==
  ASSUME Sound, [SoloNext]_soloVars, NEW u \in Gambler
  PROVE  Own(u) \in Nat /\ Own(u)' \in Int
<1>1. /\ Own(u)' = pocket'[u].land + pocket'[u].chips + pocket'[u].held
      /\ Sound'
  BY SoundStep DEF Own, Cash
<1>2. pocket'[u] \in Pockets
  BY <1>1 DEF Sound, SoloTyped
<1>3. Own(u)' \in Int
  BY <1>1, <1>2 DEF Pockets
<1> QED
  BY <1>3, TypedRound

\* No step takes more from a gambler than was announced.
THEOREM LossIsWithinTerms == SoloSpec => LossWithinTerms
<1> DEFINE A == \A u \in Gambler :
             LET lost == Cash(u) + pocket[u].held - (Cash(u) + pocket[u].held)'
             IN spent'[u] = spent[u] =>
                  lost =< (IF round[u].step = "playing"
                           THEN MaxPlayerLoss(round[u].game, round[u].bet) ELSE 0)
<1>1. ASSUME Sound, [SoloNext]_soloVars
      PROVE  A
  <2> SUFFICES ASSUME NEW u \in Gambler, spent'[u] = spent[u]
               PROVE  Cash(u) + pocket[u].held - (Cash(u) + pocket[u].held)'
                        =< (IF round[u].step = "playing"
                            THEN MaxPlayerLoss(round[u].game, round[u].bet) ELSE 0)
    OBVIOUS
  <2>1. Own(u) - Own(u)' =< Terms(u)
    BY <1>1, WithinTermsStep
  <2>2. Own(u) = Cash(u) + pocket[u].held /\ Cash(u) \in Int /\ pocket[u].held \in Int
    BY <1>1, TypedRound DEF Own
  <2>3. Own(u)' = (Cash(u) + pocket[u].held)' /\ Own(u)' \in Int
    <3>1. Own(u) \in Nat /\ Own(u)' \in Int
      BY <1>1, OwnNext
    <3> QED
      BY <3>1 DEF Own
  <2> QED
    BY <2>1, <2>2, <2>3 DEF Terms
<1> HIDE DEF A
<1>2. Sound /\ [SoloNext]_soloVars => [A]_soloVars
  BY <1>1
<1>3. SoloSpec => [][A]_soloVars
  BY <1>2, SoloIsSound, PTL DEF SoloSpec
<1> QED
  BY <1>3 DEF LossWithinTerms, A

-----------------------------------------------------------------------------
(* The cover of the rounds under way.                                      *)

\* A payment costs the house no more than the formula with that payment.
LEMMA PayoutBound ==
  ASSUME Sound, NEW u \in Gambler, NEW bet \in Nat, NEW raw \in Nat,
         NEW chained \in BOOLEAN
  PROVE  /\ Payout(u, bet, raw, chained) \in Nat
         /\ Payout(u, bet, raw, chained) - bet
              =< Larger(0, Gross(u, raw, chained) - bet)
<1> DEFINE p == Charmed(worn[u], bet, raw).pay
           n == streak[u] + 1
           cap == WinBonusCap(u)
<1>1. n \in Nat
  BY DEF Sound, SoloTyped
<1>2. cap = Luck(worn[u]) /\ cap \in Nat
  BY DEF WinBonusCap, Luck, CharmCap
<1>3. /\ p \in Nat
      /\ raw > bet => p >= raw /\ p =< raw + cap
      /\ raw =< bet => p =< bet
  BY <1>2, CharmedFacts
<1>4. Payout(u, bet, raw, chained)
        = p + (IF chained /\ p > bet THEN ChainBonus(p, n) ELSE 0)
  BY DEF Payout
<1>5. Gross(u, raw, chained) \in Nat /\ Gross(u, raw, chained) >= raw
  BY GrossFacts DEF Sound
<1>6. Gross(u, raw, chained) = IF chained
                               THEN ((raw + cap) * ChainFactor(n) + 99) \div 100
                               ELSE raw + cap
  BY DEF Gross
<1> HIDE DEF p, n, cap
<1>7. CASE p =< bet
  BY <1>3, <1>4, <1>5, <1>7 DEF Larger
<1>8. CASE p > bet /\ ~chained
  BY <1>2, <1>3, <1>4, <1>6, <1>8 DEF Larger
<1>9. CASE p > bet /\ chained
  <2> DEFINE most == raw + cap
  <2>1. p > 0 /\ p =< most /\ most \in Nat
    BY <1>2, <1>3, <1>9
  <2>2. Gross(u, raw, chained) = (most * ChainFactor(n) + 99) \div 100
    BY <1>6, <1>9
  <2> HIDE DEF most
  <2>3. /\ ChainBonus(p, n) \in Nat
        /\ p + ChainBonus(p, n) =< (p * ChainFactor(n) + 99) \div 100
    BY <1>1, <1>3, <2>1, ChainBonusBound
  <2>4. /\ (p * ChainFactor(n) + 99) \div 100 \in Nat
        /\ (most * ChainFactor(n) + 99) \div 100
             >= (p * ChainFactor(n) + 99) \div 100 + (most - p)
    BY <1>1, <1>3, <2>1, ChainGrows
  <2> DEFINE x == (p * ChainFactor(n) + 99) \div 100
             y == (most * ChainFactor(n) + 99) \div 100
  <2>5. x \in Nat /\ y >= x + (most - p) /\ p + ChainBonus(p, n) =< x
        /\ Gross(u, raw, chained) = y
    BY <2>2, <2>3, <2>4
  <2>6. Payout(u, bet, raw, chained) = p + ChainBonus(p, n)
    BY <1>4, <1>9
  <2> DEFINE more == ChainBonus(p, n)
             paid == Payout(u, bet, raw, chained)
             gross == Gross(u, raw, chained)
  <2>7. /\ x \in Nat /\ y >= x + (most - p) /\ p + more =< x /\ gross = y
        /\ paid = p + more /\ more \in Nat /\ gross \in Nat /\ p \in Nat
        /\ p =< most /\ most \in Nat
    BY <1>3, <1>5, <2>1, <2>3, <2>5, <2>6
  <2> HIDE DEF x, y, more, paid, gross
  <2>8. paid \in Nat /\ paid =< gross
    BY <2>7
  <2>9. paid - bet =< Larger(0, gross - bet)
    BY <2>7, <2>8 DEF Larger
  <2> QED
    BY <2>8, <2>9 DEF paid, gross
<1> QED
  BY <1>3, <1>7, <1>8, <1>9

\* The reservation of a round under way, by its formula.
ReservedRight(u) ==
  LET r == round[u]
  IN r.step = "playing" =>
       r.reserved = IF r.double THEN Liability(u, r.game, r.bet)
                    ELSE NoDoubleLiability(u, r.bet)

\* A cost that the formula with a payment, less a part of the stake, bounds.
LEMMA CostWithin ==
  ASSUME Sound, NEW u \in Gambler, NEW chained \in BOOLEAN,
         NEW bet \in Nat, NEW raw \in Nat, NEW top \in Nat, NEW back \in Nat,
         raw =< top, back - bet =< top - raw, back =< top
  PROVE  Payout(u, bet, raw, chained) - bet
           =< Larger(0, Gross(u, top, chained) - back)
<1>1. /\ Payout(u, bet, raw, chained) \in Nat
      /\ Payout(u, bet, raw, chained) - bet
           =< Larger(0, Gross(u, raw, chained) - bet)
  BY PayoutBound
<1>2. /\ Gross(u, raw, chained) \in Nat
      /\ Gross(u, top, chained) >= Gross(u, raw, chained) + (top - raw)
      /\ Gross(u, top, chained) \in Nat /\ Gross(u, top, chained) >= top
  <2>1. /\ Gross(u, raw, chained) \in Nat
        /\ Gross(u, top, chained) >= Gross(u, raw, chained) + (top - raw)
    BY GrossFacts DEF Sound
  <2>2. Gross(u, top, chained) \in Nat /\ Gross(u, top, chained) >= top
    BY GrossFacts DEF Sound
  <2> QED
    BY <2>1, <2>2
<1> QED
  BY <1>1, <1>2 DEF Larger

\* Whatever a round other than slots pays, the reservation is enough for it.
LEMMA CostCovered ==
  ASSUME Sound, NEW u \in Gambler, round[u].step = "playing", ReservedRight(u),
         NEW k \in Stakes(round[u]), NEW r, r.game = round[u].game,
         r.bet = round[u].bet, r.staked = k, NEW raw \in Results(r)
  PROVE  Payout(u, k, raw, Chained(round[u].game)) - k =< round[u].reserved
<1> DEFINE bet == round[u].bet
           game == round[u].game
           double == round[u].double
           res == round[u].reserved
<1>1. /\ bet \in Nat \ {0} /\ game \in Games /\ double \in BOOLEAN /\ res \in Nat
      /\ ~double => game = "blackjack"
      /\ res = IF double THEN Liability(u, game, bet) ELSE NoDoubleLiability(u, bet)
  BY TypedRound DEF RoundSound, RoundRecords, ReservedRight
<1>2. k \in Nat /\ k >= bet
  BY <1>1, TypedRound, StakesWithinLoss
<1>3. /\ raw \in Nat
      /\ \/ game = "chohan" /\ raw =< (bet * 194) \div 100
         \/ game = "crash" /\ raw =< 100 * bet
         \/ game = "poker" /\ raw =< 251 * bet
         \/ game = "holdem" /\ raw =< 2 * k
         \/ game = "blackjack" /\ raw =< 2 * k
         \/ game = "blackjack" /\ k = bet /\ raw =< (5 * bet) \div 2
  BY <1>1, <1>2, ResultBounds
<1>4. /\ game = "holdem" => k =< 5 * bet
      /\ game = "blackjack" => k = bet \/ (k = 2 * bet /\ double)
      /\ game \notin {"holdem", "blackjack"} => k = bet
  BY <1>1 DEF Stakes
<1> HIDE DEF bet, game, double, res
<1>5. CASE game = "chohan"
  <2> DEFINE top == (bet * 194) \div 100
  <2>1. top \in Nat /\ raw =< top /\ bet =< top
    BY <1>1, <1>3, <1>5
  <2>2. res = Larger(0, Gross(u, top, FALSE) - bet) /\ Chained(game) = FALSE
    <3>1. Liability(u, game, bet) = Larger(0, Gross(u, top, FALSE) - bet)
      BY <1>5 DEF Liability, Chained
    <3>2. Chained(game) = FALSE
      BY <1>5 DEF Chained
    <3>3. res = Liability(u, game, bet)
      BY <1>1, <1>5
    <3> QED
      BY <3>1, <3>2, <3>3
  <2> HIDE DEF top
  <2>3. k = bet /\ bet - k =< top - raw
    BY <1>1, <1>3, <1>4, <1>5, <2>1
  <2>4. Payout(u, k, raw, FALSE) - k =< Larger(0, Gross(u, top, FALSE) - bet)
    BY <1>1, <1>2, <1>3, <2>1, <2>3, CostWithin
  <2> QED
    BY <2>2, <2>4 DEF game, res
<1>6. CASE game = "crash"
  <2> DEFINE top == 100 * bet
  <2>1. top \in Nat /\ raw =< top /\ bet =< top
    BY <1>1, <1>3, <1>6
  <2>2. res = Larger(0, Gross(u, top, FALSE) - bet) /\ Chained(game) = FALSE
    <3>1. Liability(u, game, bet) = Larger(0, Gross(u, top, FALSE) - bet)
      BY <1>6 DEF Liability, Chained
    <3>2. Chained(game) = FALSE
      BY <1>6 DEF Chained
    <3>3. res = Liability(u, game, bet)
      BY <1>1, <1>6
    <3> QED
      BY <3>1, <3>2, <3>3
  <2> HIDE DEF top
  <2>3. k = bet /\ bet - k =< top - raw
    BY <1>1, <1>3, <1>4, <1>6, <2>1
  <2>4. Payout(u, k, raw, FALSE) - k =< Larger(0, Gross(u, top, FALSE) - bet)
    BY <1>1, <1>2, <1>3, <2>1, <2>3, CostWithin
  <2> QED
    BY <2>2, <2>4 DEF game, res
<1>7. CASE game = "poker"
  <2> DEFINE top == 251 * bet
  <2>1. top \in Nat /\ raw =< top /\ bet =< top
    BY <1>1, <1>3, <1>7
  <2>2. res = Larger(0, Gross(u, top, TRUE) - bet) /\ Chained(game) = TRUE
    <3>1. Liability(u, game, bet) = Larger(0, Gross(u, top, TRUE) - bet)
      BY <1>7 DEF Liability, Chained
    <3>2. Chained(game) = TRUE
      BY <1>7 DEF Chained
    <3>3. res = Liability(u, game, bet)
      BY <1>1, <1>7
    <3> QED
      BY <3>1, <3>2, <3>3
  <2> HIDE DEF top
  <2>3. k = bet /\ bet - k =< top - raw
    BY <1>1, <1>3, <1>4, <1>7, <2>1
  <2>4. Payout(u, k, raw, TRUE) - k =< Larger(0, Gross(u, top, TRUE) - bet)
    BY <1>1, <1>2, <1>3, <2>1, <2>3, CostWithin
  <2> QED
    BY <2>2, <2>4 DEF game, res
<1>8. CASE game = "holdem"
  <2> DEFINE top == 10 * bet
             back == 5 * bet
  <2>1. /\ top \in Nat /\ raw =< top /\ back =< top /\ back \in Nat
        /\ back - k =< top - raw
    BY <1>1, <1>2, <1>3, <1>4, <1>8
  <2>2. res = Larger(0, Gross(u, top, TRUE) - back) /\ Chained(game) = TRUE
    <3>1. Liability(u, game, bet) = Larger(0, Gross(u, top, TRUE) - back)
      BY <1>8 DEF Liability, Chained
    <3>2. Chained(game) = TRUE
      BY <1>8 DEF Chained
    <3>3. res = Liability(u, game, bet)
      BY <1>1, <1>8
    <3> QED
      BY <3>1, <3>2, <3>3
  <2> HIDE DEF top, back
  <2>3. Payout(u, k, raw, TRUE) - k =< Larger(0, Gross(u, top, TRUE) - back)
    BY <1>2, <1>3, <2>1, CostWithin
  <2> QED
    BY <2>2, <2>3 DEF game, res
<1>9. CASE game = "blackjack" /\ double
  <2> DEFINE top == 4 * bet
             back == 2 * bet
  <2>1. /\ top \in Nat /\ raw =< top /\ back =< top /\ back \in Nat
        /\ back - k =< top - raw
    BY <1>1, <1>2, <1>3, <1>4, <1>9
  <2>2. res = Larger(0, Gross(u, top, TRUE) - back) /\ Chained(game) = TRUE
    <3>1. Liability(u, game, bet) = Larger(0, Gross(u, top, TRUE) - back)
      BY <1>9 DEF Liability, Chained
    <3>2. Chained(game) = TRUE
      BY <1>9 DEF Chained
    <3>3. res = Liability(u, game, bet)
      BY <1>1, <1>9
    <3> QED
      BY <3>1, <3>2, <3>3
  <2> HIDE DEF top, back
  <2>3. Payout(u, k, raw, TRUE) - k =< Larger(0, Gross(u, top, TRUE) - back)
    BY <1>2, <1>3, <2>1, CostWithin
  <2> QED
    BY <2>2, <2>3 DEF game, res
<1>10. CASE game = "blackjack" /\ ~double
  <2> DEFINE top == (5 * bet) \div 2
  <2>1. /\ top \in Nat /\ raw =< top /\ bet =< top /\ k = bet
        /\ bet - k =< top - raw
    BY <1>1, <1>2, <1>3, <1>4, <1>10
  <2>2. res = Larger(0, Gross(u, top, TRUE) - bet) /\ Chained(game) = TRUE
    BY <1>1, <1>10 DEF Chained, NoDoubleLiability
  <2> HIDE DEF top
  <2>3. Payout(u, k, raw, TRUE) - k =< Larger(0, Gross(u, top, TRUE) - bet)
    BY <1>1, <1>2, <1>3, <2>1, CostWithin
  <2> QED
    BY <2>2, <2>3 DEF game, res
<1> QED
  BY <1>1, <1>3, <1>5, <1>6, <1>7, <1>8, <1>9, <1>10

\* A bounded set of integers has its maximum within the bound.
LEMMA MaxBound ==
  ASSUME NEW S \in SUBSET Int, S # {}, NEW b \in Int, \A x \in S : x =< b
  PROVE  Max(S) \in S /\ Max(S) =< b
<1> DEFINE T == {b - x : x \in S}
           R == OpToRel(<, Nat)
<1>1. T \subseteq Nat /\ T # {}
  <2>1. \A x \in S : b - x \in Nat
    OBVIOUS
  <2> QED
    BY <2>1
<1>2. IsWellFoundedOn(R, Nat)
  BY NatLessThanWellFounded
<1>3. \E t \in T : \A y \in T : <<y, t>> \notin R
  <2> HIDE DEF T, R
  <2> QED
    BY <1>1, <1>2, WFMin
<1>4. PICK t \in T : \A y \in T : <<y, t>> \notin R
  BY <1>3
<1>5. \A y \in T : t =< y
  <2>1. \A x, y \in Nat : x < y => <<x, y>> \in R
    BY DEF OpToRel
  <2> HIDE DEF R, T
  <2>2. ASSUME NEW y \in T, y < t
        PROVE  FALSE
    <3>1. y \in Nat /\ t \in Nat
      BY <1>1, <1>4
    <3>2. <<y, t>> \in R
      BY <2>1, <2>2, <3>1
    <3> QED
      BY <1>4, <3>2
  <2> QED
    BY <1>1, <1>4, <2>2
<1>6. PICK m \in S : t = b - m
  BY <1>4
<1>7. \A x \in S : m >= x
  <2> SUFFICES ASSUME NEW x \in S PROVE m >= x
    OBVIOUS
  <2>1. t =< b - x
    BY <1>5
  <2> QED
    BY <1>6, <2>1
<1>8. Max(S) \in S /\ \A y \in S : Max(S) >= y
  BY <1>7 DEF Max
<1> QED
  BY <1>8

\* The cost of an end of the round, as Exposure counts it.
Cost(u, bet, pay) ==
  LET p == Charmed(worn[u], bet, pay).pay
  IN p - bet + (IF Chained(round[u].game) /\ p > bet
                THEN ChainBonus(p, streak[u] + 1) ELSE 0)

Raises(r) ==
  IF r.game = "holdem" THEN {r.bet * i : i \in 1..5}
  ELSE IF r.game = "blackjack" /\ r.double THEN {r.bet, 2 * r.bet} ELSE {r.bet}

Ends(u) ==
  IF round[u].game = "chinchiro"
  THEN {Cost(u, round[u].bet, ChinchiroPay(round[u].bet, 5))}
  ELSE UNION {{Cost(u, s, pay) : pay \in Results([round[u] EXCEPT !.staked = s])} :
                s \in Raises(round[u])}

LEMMA CostIs ==
  ASSUME Sound, NEW u \in Gambler, NEW bet \in Nat, NEW pay \in Nat
  PROVE  /\ Cost(u, bet, pay) = Payout(u, bet, pay, Chained(round[u].game)) - bet
         /\ Cost(u, bet, pay) \in Int
<1> DEFINE p == Charmed(worn[u], bet, pay).pay
           c == Chained(round[u].game)
           b == IF c /\ p > bet THEN ChainBonus(p, streak[u] + 1) ELSE 0
<1>1. p \in Nat /\ streak[u] + 1 \in Nat /\ c \in BOOLEAN
  <2>1. p \in Nat
    BY CharmedNat
  <2>2. streak[u] \in Nat
    BY DEF Sound, SoloTyped
  <2> QED
    BY <2>1, <2>2 DEF Chained
<1>2. Cost(u, bet, pay) = p - bet + b /\ Payout(u, bet, pay, c) = p + b
  BY DEF Cost, Payout
<1> HIDE DEF p, c
<1>3. b \in Nat
  <2>1. CASE c /\ p > bet
    <3>1. p > 0
      BY <1>1, <2>1
    <3> QED
      BY <1>1, <2>1, <3>1, ChainBonusBound
  <2> QED
    BY <2>1
<1> HIDE DEF b
<1>4. Cost(u, bet, pay) = Payout(u, bet, pay, c) - bet /\ Cost(u, bet, pay) \in Int
  BY <1>1, <1>2, <1>3
<1> QED
  BY <1>4 DEF c

LEMMA RaisesAreStakes ==
  ASSUME NEW r, r.bet \in Nat, NEW k \in Raises(r)
  PROVE  k \in Stakes(r)
<1>1. CASE r.game = "holdem"
  <2>1. PICK i \in 1..5 : k = r.bet * i
    BY <1>1 DEF Raises
  <2>2. i = 1 \/ i = 2 \/ i = 3 \/ i = 4 \/ i = 5
    OBVIOUS
  <2> QED
    BY <1>1, <2>1, <2>2 DEF Stakes
<1>2. CASE r.game # "holdem"
  BY <1>2 DEF Raises, Stakes
<1> QED
  BY <1>1, <1>2

\* A round of chinchiro, and a spin with the free spin it may win.
LEMMA ChinchiroCovered ==
  ASSUME Sound, NEW u \in Gambler, round[u].step = "playing",
         round[u].game = "chinchiro", ReservedRight(u), NEW m \in Differences
  PROVE  Payout(u, round[u].bet, ChinchiroPay(round[u].bet, m), TRUE) - round[u].bet
           =< round[u].reserved
<1> DEFINE bet == round[u].bet
           raw == ChinchiroPay(bet, m)
           top == ChinchiroPay(bet, 5)
<1>1. /\ bet \in Nat \ {0}
      /\ round[u].reserved = Liability(u, "chinchiro", bet)
  BY TypedRound DEF RoundSound, RoundRecords, ReservedRight
<1>2. Liability(u, "chinchiro", bet) = Larger(0, Gross(u, top, TRUE) - bet)
  BY DEF Liability, Chained
<1> HIDE DEF bet
<1>3. raw \in Nat /\ top \in Nat /\ raw =< top /\ bet =< top
  <2>1. raw \in Nat /\ raw =< top /\ top >= bet
    BY <1>1, ChinchiroPays
  <2>2. top \in Nat
    BY <1>1, ChinchiroPays DEF Differences
  <2> QED
    BY <2>1, <2>2
<1> HIDE DEF raw, top
<1>4. Payout(u, bet, raw, TRUE) - bet =< Larger(0, Gross(u, top, TRUE) - bet)
  <2>1. bet - bet =< top - raw
    BY <1>1, <1>3
  <2> QED
    BY <1>1, <1>3, <2>1, CostWithin
<1> QED
  BY <1>1, <1>2, <1>4 DEF raw, bet

LEMMA SlotsCovered ==
  ASSUME Sound, NEW u \in Gambler, round[u].step = "playing",
         round[u].game = "slots", ReservedRight(u), NEW raw \in 0 .. 100 * round[u].bet,
         NEW free \in 0 .. (100 * round[u].bet + WinBonusCap(u))
  PROVE  Payout(u, round[u].bet, raw, TRUE) - round[u].bet
           + JackpotCut(round[u].bet) + free =< round[u].reserved
<1> DEFINE bet == round[u].bet
           cut == JackpotCut(bet)
           top == 100 * bet
           cap == WinBonusCap(u)
           back == bet - cut
<1>1. /\ bet \in Nat \ {0}
      /\ round[u].reserved = Liability(u, "slots", bet)
  BY TypedRound DEF RoundSound, RoundRecords, ReservedRight
<1>2. Liability(u, "slots", bet) = Larger(0, Gross(u, top, TRUE) - back) + top + cap
  BY DEF Liability, Chained
<1>3. cut \in 1 .. bet /\ cap \in Nat
  BY <1>1, CutFacts DEF WinBonusCap, CharmCap
<1>4. raw \in Nat /\ raw =< top /\ free \in Nat /\ free =< top + cap
      /\ top \in Nat /\ bet =< top
  BY <1>1, <1>3
<1> DEFINE paid == Payout(u, bet, raw, TRUE)
           gross == Gross(u, top, TRUE)
<1> HIDE DEF bet, cut, top, cap
<1>5. paid - bet =< Larger(0, gross - bet) /\ paid \in Nat
  <2>1. bet - bet =< top - raw /\ bet \in Nat
    BY <1>1, <1>4
  <2>2. paid - bet =< Larger(0, gross - bet)
    BY <1>4, <2>1, CostWithin
  <2>3. paid \in Nat
    BY <1>1, <1>4, PayoutBound
  <2> QED
    BY <2>2, <2>3
<1>6. gross \in Nat /\ gross >= top
  <2>1. top =< top /\ TRUE \in BOOLEAN /\ SoloTyped
    BY <1>4 DEF Sound
  <2> QED
    BY <1>4, <2>1, GrossFacts
<1> HIDE DEF paid, gross
<1>7. paid - bet + cut + free =< Larger(0, gross - back) + top + cap
  <2>1. Larger(0, gross - bet) = gross - bet
    BY <1>1, <1>4, <1>6 DEF Larger
  <2>2. Larger(0, gross - back) = gross - bet + cut
    BY <1>1, <1>3, <1>4, <1>6 DEF Larger
  <2>3. paid - bet =< gross - bet
    BY <1>5, <2>1
  <2> QED
    BY <1>1, <1>3, <1>4, <1>5, <1>6, <2>2, <2>3
<1> QED
  BY <1>1, <1>2, <1>7 DEF bet, cut, top, cap, paid, gross

\* What is put by for a round: its reservation while it is played, the free
\* spin just won while the reels turn, nothing otherwise.
Backed(u, n) ==
  LET r == round[u]
  IN /\ n =< r.reserved
     /\ r.step = "playing" => n = r.reserved
     /\ r.step = "spun" => \A s \in spins : s.no = r.no => s.pay =< n

Put(put) ==
  /\ put \in [Gambler -> Nat]
  /\ SumFunctionOnSet(put, Gambler) =< house
  /\ \A u \in Gambler : Backed(u, put[u]) /\ ReservedRight(u)

\* The house holds something for every round.
Covered == late \/ \E put : Put(put)

LEMMA NoRoundBacked ==
  ASSUME Sound, NEW u \in Gambler, round[u].step \in {"idle", "checked"}, NEW n \in Nat,
         Backed(u, n)
  PROVE  n = 0
<1>1. round[u].reserved = 0
  BY TypedRound DEF RoundSound, NoRound
<1> QED
  BY <1>1 DEF Backed

LEMMA ExposureCovered ==
  ASSUME Sound, NEW u \in Gambler, NEW n \in Nat, Backed(u, n), ReservedRight(u)
  PROVE  Exposure(u) \in Int /\ Exposure(u) =< n
<1> DEFINE r == round[u]
<1>1. r \in RoundRecords /\ RoundSound(u) /\ r.bet \in Nat /\ r.reserved \in Nat
  BY TypedRound DEF RoundRecords
<1>2. CASE r.step = "playing" /\ r.game = "slots"
  <2> DEFINE bet == r.bet
             top == 100 * bet
             cut == JackpotCut(bet)
             free == Charmed(worn[u], bet, top).pay
  <2>1. bet \in Nat \ {0}
    BY <1>1, <1>2 DEF RoundSound
  <2>2. Exposure(u) = Cost(u, bet, top) + cut + free
    BY <1>2 DEF Exposure, Cost
  <2>3. cut \in 1 .. bet /\ top \in Nat /\ top > bet
    BY <2>1, CutFacts
  <2>4. free \in Nat /\ free =< top + WinBonusCap(u) /\ WinBonusCap(u) \in Nat
    <3>1. /\ free \in Nat /\ free =< top + Luck(worn[u]) /\ Luck(worn[u]) \in Nat
      <4> HIDE DEF bet, top
      <4> QED
        BY <2>1, <2>3, CharmedFacts
    <3>2. Luck(worn[u]) = WinBonusCap(u)
      BY DEF Luck, WinBonusCap
    <3> QED
      BY <3>1, <3>2
  <2>5. /\ Cost(u, bet, top) = Payout(u, bet, top, TRUE) - bet
        /\ Cost(u, bet, top) \in Int
    <3>1. Chained(r.game) = TRUE
      BY <1>2 DEF Chained
    <3>2. /\ Cost(u, bet, top) = Payout(u, bet, top, Chained(r.game)) - bet
          /\ Cost(u, bet, top) \in Int
      <4> HIDE DEF bet, top
      <4> QED
        BY <2>1, <2>3, CostIs
    <3> QED
      BY <3>1, <3>2
  <2>6. Payout(u, bet, top, TRUE) - bet + cut + free =< r.reserved
    <3>1. /\ top \in 0 .. 100 * round[u].bet
          /\ free \in 0 .. (100 * round[u].bet + WinBonusCap(u))
      BY <2>3, <2>4
    <3> HIDE DEF top, free
    <3> QED
      BY <1>2, <3>1, SlotsCovered
  <2>7. n = r.reserved
    BY <1>2 DEF Backed
  <2> DEFINE cost == Cost(u, bet, top)
             net == Payout(u, bet, top, TRUE) - bet
  <2>8. /\ cost = net /\ cost \in Int /\ net + cut + free =< r.reserved
        /\ Exposure(u) = cost + cut + free /\ cut \in Int /\ free \in Int
    <3>1. cost = net /\ cost \in Int
      BY <2>5
    <3>2. Exposure(u) = cost + cut + free
      BY <2>2
    <3>3. cut \in Int
      BY <2>1, <2>3
    <3>4. free \in Int
      BY <2>4
    <3>5. net + cut + free =< r.reserved
      BY <2>6
    <3> QED
      BY <3>1, <3>2, <3>3, <3>4, <3>5
  <2> HIDE DEF bet, top, cut, free, cost, net
  <2> QED
    BY <1>1, <2>7, <2>8
<1>3. CASE r.step = "playing" /\ r.game # "slots"
  <2>1. Exposure(u) = Max(Ends(u) \union {0})
    BY <1>3 DEF Exposure, Ends, Cost, Raises
  <2>2. n = r.reserved
    BY <1>3 DEF Backed
  <2>3. ASSUME NEW c \in Ends(u)
        PROVE  c \in Int /\ c =< n
    <3>1. CASE r.game = "chinchiro"
      <4> DEFINE bet == r.bet
                 top == ChinchiroPay(bet, 5)
      <4>1. c = Cost(u, bet, top)
        BY <2>3, <3>1 DEF Ends
      <4>2. top \in Nat
        BY <1>1, ChinchiroPays DEF Differences
      <4>3. Cost(u, bet, top) = Payout(u, bet, top, TRUE) - bet
            /\ Cost(u, bet, top) \in Int
        <5>1. Chained(r.game) = TRUE
          BY <3>1 DEF Chained
        <5>2. Cost(u, bet, top) = Payout(u, bet, top, Chained(r.game)) - bet
              /\ Cost(u, bet, top) \in Int
          <6> HIDE DEF bet, top
          <6> QED
            BY <1>1, <4>2, CostIs DEF bet
        <5> QED
          BY <5>1, <5>2
      <4>4. Payout(u, bet, top, TRUE) - bet =< r.reserved
        BY <1>3, <3>1, ChinchiroCovered DEF Differences
      <4> QED
        BY <2>2, <4>1, <4>3, <4>4
    <3>2. CASE r.game # "chinchiro"
      <4>9. PICK k \in Raises(r) : \E pay \in Results([r EXCEPT !.staked = k]) :
              c = Cost(u, k, pay)
        BY <2>3, <3>2 DEF Ends
      <4>1. PICK pay \in Results([r EXCEPT !.staked = k]) : c = Cost(u, k, pay)
        BY <4>9
      <4>2. k \in Stakes(r)
        BY <1>1, RaisesAreStakes
      <4>3. k \in Nat
        BY <1>1, <1>3, <4>2, StakesWithinLoss DEF RoundSound
      <4> DEFINE q == [r EXCEPT !.staked = k]
      <4>4. q.game = r.game /\ q.bet = r.bet /\ q.staked = k
        BY <1>1 DEF RoundRecords
      <4>5. pay \in Results(q)
        BY <4>1
      <4> HIDE DEF q
      <4>6. pay \in Nat
        BY <1>1, <4>3, <4>4, <4>5, ResultBounds
      <4>7. Payout(u, k, pay, Chained(r.game)) - k =< r.reserved
        BY <1>3, <4>2, <4>4, <4>5, CostCovered
      <4>8. Cost(u, k, pay) = Payout(u, k, pay, Chained(r.game)) - k
            /\ Cost(u, k, pay) \in Int
        BY <4>3, <4>6, CostIs
      <4> QED
        BY <2>2, <4>1, <4>7, <4>8
    <3> QED
      BY <3>1, <3>2
  <2> DEFINE S == Ends(u) \union {0}
  <2>4. S \in SUBSET Int /\ S # {} /\ n \in Int /\ \A c \in S : c =< n
    BY <2>3
  <2> HIDE DEF S
  <2>5. Max(S) \in S /\ Max(S) =< n
    BY <2>4, MaxBound
  <2> QED
    BY <2>1, <2>4, <2>5 DEF S
<1>4. CASE r.step = "spun"
  <2> DEFINE S == {s \in spins : s.who = u /\ s.no = r.no}
             f == [s \in S |-> s.pay]
  <2>1. Exposure(u) = SumFunctionOnSet(f, S)
    BY <1>4 DEF Exposure, SumFunction
  <2>2. /\ IsFiniteSet(S)
        /\ \A s \in S : f[s] = s.pay /\ f[s] \in Int /\ s.pay =< n
        /\ \A s, t \in S : s = t
    <3>1. IsFiniteSet(S)
      BY FS_Subset DEF Sound, SoloTyped
    <3>2. \A s \in S : f[s] = s.pay /\ f[s] \in Int
      BY DEF Sound, SoloTyped, Rights
    <3>3. \A s \in S : s.pay =< n
      BY <1>4 DEF Backed
    <3>4. \A s, t \in S : s = t
      BY DEF Sound, RightsSound
    <3> QED
      BY <3>1, <3>2, <3>3, <3>4
  <2> HIDE DEF S, f
  <2>3. CASE S = {}
    BY <2>1, <2>3, SumEmpty
  <2>4. ASSUME NEW s \in S
        PROVE  Exposure(u) \in Int /\ Exposure(u) =< n
    <3>1. \A t \in S \ {s} : f[t] = 0
      BY <2>2
    <3>2. SumFunctionOnSet(f, S) = f[s]
      BY <2>2, <3>1, SumSingle
    <3> QED
      BY <2>1, <2>2, <3>2
  <2> QED
    BY <2>3, <2>4
<1>5. CASE r.step \notin {"playing", "spun"}
  <2>1. Exposure(u) = 0
    BY <1>5 DEF Exposure
  <2> QED
    BY <2>1
<1> QED
  BY <1>2, <1>3, <1>4, <1>5

\* What is held for the rounds is enough for all of them at once.
LEMMA CoverIsEnough ==
  ASSUME Sound, Covered
  PROVE  WinsAreCovered
<1> SUFFICES ASSUME NEW put, Put(put)
             PROVE  SumFunction([u \in Gambler |-> Exposure(u)]) =< house
  BY DEF Covered, WinsAreCovered
<1> DEFINE f == [u \in Gambler |-> Exposure(u)]
<1>1. put \in [Gambler -> Nat] /\ SumFunctionOnSet(put, Gambler) =< house
      /\ \A u \in Gambler : Backed(u, put[u]) /\ ReservedRight(u)
  BY DEF Put
<1>2. \A u \in Gambler : f[u] \in Int /\ put[u] \in Int /\ f[u] =< put[u]
  <2> SUFFICES ASSUME NEW u \in Gambler
               PROVE  f[u] \in Int /\ put[u] \in Int /\ f[u] =< put[u]
    OBVIOUS
  <2>1. put[u] \in Nat /\ Backed(u, put[u]) /\ ReservedRight(u)
    BY <1>1
  <2>2. Exposure(u) \in Int /\ Exposure(u) =< put[u]
    BY <2>1, ExposureCovered
  <2> QED
    BY <2>1, <2>2
<1>3. IsFiniteSet(Gambler) /\ SumFunction(f) = SumFunctionOnSet(f, Gambler)
  BY SoloAssumption DEF SumFunction
<1> HIDE DEF f
<1>4. SumFunctionOnSet(f, Gambler) =< SumFunctionOnSet(put, Gambler)
  BY <1>2, <1>3, SumLeq
<1>5. SumFunctionOnSet(f, Gambler) \in Int /\ SumFunctionOnSet(put, Gambler) \in Int
  BY <1>2, <1>3, SumInt
<1>6. house \in Int
  BY DEF Sound, SoloTyped
<1>7. SumFunction(f) =< house
  BY <1>1, <1>3, <1>4, <1>5, <1>6
<1> QED
  BY <1>7 DEF f

\* What a reservation is computed from stays the same.
SameTerms(u) ==
  /\ round'[u].game = round[u].game /\ round'[u].bet = round[u].bet
  /\ streak'[u] = streak[u]
  /\ "omamori" \in worn'[u] <=> "omamori" \in worn[u]

LEMMA LiabilityNow ==
  ASSUME NEW u \in Gambler, SameTerms(u)
  PROVE  /\ Liability(u, round[u].game, round[u].bet)'
              = Liability(u, round[u].game, round[u].bet)
         /\ NoDoubleLiability(u, round[u].bet)' = NoDoubleLiability(u, round[u].bet)
<1>1. WinBonusCap(u)' = WinBonusCap(u)
  BY DEF SameTerms, WinBonusCap
<1>2. Liability(u, round[u].game, round[u].bet)'
        = Liability(u, round[u].game, round[u].bet)
  BY <1>1 DEF SameTerms, Liability, Gross
<1>3. NoDoubleLiability(u, round[u].bet)' = NoDoubleLiability(u, round[u].bet)
  BY <1>1 DEF SameTerms, NoDoubleLiability, Gross
<1> QED
  BY <1>2, <1>3

LEMMA ReservedKept ==
  ASSUME NEW u \in Gambler, SameTerms(u), ReservedRight(u), 
         round'[u].step = "playing" => round[u].step = "playing",
         round'[u].reserved = round[u].reserved, round'[u].double = round[u].double
  PROVE  ReservedRight(u)'
BY LiabilityNow DEF ReservedRight

\* The others' rounds stay backed.
LEMMA OthersBacked ==
  ASSUME Sound, Sound', NEW u \in Gambler, Stepped(u), RightsMove(u),
         NEW v \in Gambler \ {u}, NEW n \in Nat, Backed(v, n), ReservedRight(v)
  PROVE  Backed(v, n)' /\ ReservedRight(v)'
<1>1. /\ round'[v] = round[v] /\ streak'[v] = streak[v] /\ worn'[v] = worn[v]
  BY DEF Stepped, Only
<1>2. ReservedRight(v)'
  BY <1>1, ReservedKept DEF SameTerms
<1>3. ASSUME NEW s \in spins', round[v].step = "spun", s.no = round[v].no
      PROVE  s \in spins
  <2>1. s.who = v
    BY <1>1, <1>3 DEF Sound, RightsSound
  <2> QED
    BY <2>1 DEF RightsMove
<1>4. Backed(v, n)'
  BY <1>1, <1>3 DEF Backed
<1> QED
  BY <1>2, <1>4

\* A step after which k is put by for the round of u, out of what the house
\* then has.
LEMMA PutPlaced ==
  ASSUME Sound, Sound', NEW u \in Gambler, Stepped(u), RightsMove(u),
         NEW put, Put(put), NEW k \in Nat,
         SumFunctionOnSet(put, Gambler) - put[u] + k =< house',
         Backed(u, k)', ReservedRight(u)'
  PROVE  Covered'
<1> DEFINE new == [put EXCEPT ![u] = k]
<1>1. /\ put \in [Gambler -> Nat]
      /\ \A v \in Gambler : Backed(v, put[v]) /\ ReservedRight(v)
  BY DEF Put
<1>2. /\ new \in [Gambler -> Nat] /\ new[u] = k
      /\ \A v \in Gambler \ {u} : new[v] = put[v]
  BY <1>1
<1> HIDE DEF new
<1>3. SumFunctionOnSet(new, Gambler) =< house'
  <2>1. IsFiniteSet(Gambler)
    BY SoloAssumption
  <2>2. \A v \in Gambler : put[v] \in Int /\ new[v] \in Int
    BY <1>1, <1>2
  <2>3. SumFunctionOnSet(new, Gambler) = SumFunctionOnSet(put, Gambler) - put[u] + new[u]
    BY <1>2, <2>1, <2>2, SumUpdate
  <2> QED
    BY <1>2, <2>3
<1>4. ASSUME NEW v \in Gambler
      PROVE  Backed(v, new[v])' /\ ReservedRight(v)'
  <2>1. CASE v = u
    BY <1>2, <2>1
  <2>2. CASE v # u
    <3> DEFINE n == put[v]
    <3>1. n \in Nat /\ Backed(v, n) /\ ReservedRight(v) /\ new[v] = n
      BY <1>1, <1>2, <2>2
    <3> HIDE DEF n
    <3>2. Backed(v, n)' /\ ReservedRight(v)'
      BY <2>2, <3>1, OthersBacked
    <3> QED
      BY <3>1, <3>2
  <2> QED
    BY <2>1, <2>2
<1>5. Put(new)'
  BY <1>2, <1>3, <1>4 DEF Put
<1> QED
  BY <1>5 DEF Covered

\* What a covered state says of one gambler.
LEMMA PutFacts ==
  ASSUME Sound, NEW put, Put(put), NEW u \in Gambler
  PROVE  /\ put[u] \in Nat /\ Backed(u, put[u]) /\ ReservedRight(u)
         /\ put[u] =< round[u].reserved /\ round[u].reserved \in Nat
         /\ house \in Nat /\ SumFunctionOnSet(put, Gambler) =< house
BY TypedRound DEF Put, Backed, RoundRecords, Sound, SoloTyped

LEMMA PutSum ==
  ASSUME Sound, NEW put, Put(put)
  PROVE  SumFunctionOnSet(put, Gambler) \in Int
<1>1. \A v \in Gambler : put[v] \in Int
  BY PutFacts
<1> QED
  BY <1>1, SoloAssumption, SumInt

\* The same, by what changes.
LEMMA PutMoves ==
  ASSUME Sound, Sound', NEW u \in Gambler, Stepped(u), RightsMove(u),
         NEW put, Put(put), NEW k \in Nat,
         k - put[u] =< house' - house,
         Backed(u, k)', ReservedRight(u)'
  PROVE  Covered'
<1>1. SumFunctionOnSet(put, Gambler) - put[u] + k =< house'
  <2>1. /\ put[u] \in Nat /\ house \in Nat
        /\ SumFunctionOnSet(put, Gambler) =< house
    BY PutFacts
  <2>2. SumFunctionOnSet(put, Gambler) \in Int
    BY PutSum
  <2>3. house' \in Nat
    BY DEF Sound, SoloTyped
  <2> QED
    BY <2>1, <2>2, <2>3
<1> QED
  BY <1>1, PutPlaced

LEMMA GoneBacked ==
  ASSUME Sound, NEW u \in Gambler, round'[u] = NoRound
  PROVE  Backed(u, 0)' /\ ReservedRight(u)'
<1>1. NoRound.reserved = 0 /\ NoRound.step = "idle"
  BY DEF NoRound
<1> QED
  BY <1>1 DEF Backed, ReservedRight

\* What is put by is at most what is reserved.
LEMMA PutWithinReserved ==
  ASSUME Sound, NEW put, Put(put)
  PROVE  /\ SumFunctionOnSet(put, Gambler) =< Reserved(Gambler)
         /\ SumFunctionOnSet(put, Gambler) \in Int /\ Reserved(Gambler) \in Nat
<1> DEFINE f == [v \in Gambler |-> round[v].reserved]
<1>1. /\ Reserved(Gambler) \in Nat
      /\ Reserved(Gambler) = SumFunctionOnSet(f, Gambler)
  BY ReservedType DEF Sound
<1>2. \A v \in Gambler : put[v] \in Int /\ f[v] \in Int /\ put[v] =< f[v]
  BY PutFacts
<1>3. IsFiniteSet(Gambler)
  BY SoloAssumption
<1> HIDE DEF f
<1>4. SumFunctionOnSet(put, Gambler) =< SumFunctionOnSet(f, Gambler)
  BY <1>2, <1>3, SumLeq
<1>5. SumFunctionOnSet(put, Gambler) \in Int
  BY <1>2, <1>3, SumInt
<1> QED
  BY <1>1, <1>4, <1>5

LEMMA OpenRoundCover ==
  ASSUME Sound, Sound', NEW put, Put(put), NEW u \in Gambler,
         NEW o \in Offers, OpenRound(u, o[1], o[2])
  PROVE  Covered'
<1>1. Stepped(u) /\ RightsMove(u)
  BY DeedStep, DeedRights DEF Deed
<1>2. /\ round[u] = NoRound /\ house' = house
      /\ round'[u].step = "checked" /\ round'[u].reserved = 0
  BY DEF OpenRound, Till, Sound, SoloTyped
<1>3. put[u] = 0 /\ house \in Nat
  BY <1>2, PutFacts, NoRoundBacked DEF NoRound
<1>4. Backed(u, 0)' /\ ReservedRight(u)'
  BY <1>2 DEF Backed, ReservedRight
<1>5. 0 - put[u] =< house' - house
  BY <1>2, <1>3
<1> QED
  BY <1>1, <1>4, <1>5, PutMoves

\* A reservation is made of what is free.
LEMMA BeginRoundCover ==
  ASSUME Sound, Sound', NEW put, Put(put), NEW u \in Gambler, BeginRound(u)
  PROVE  Covered'
<1> DEFINE r == round[u]
           a == Affordable(u)
           double == (a = Liability(u, r.game, r.bet))
           new == [r EXCEPT !.step = "playing", !.reserved = a, !.double = double]
<1>1. Stepped(u) /\ RightsMove(u)
  BY DeedStep, DeedRights DEF Deed
<1>2. /\ r.step = "checked" /\ r \in RoundRecords
      /\ UNCHANGED <<streak, worn, house, spins>>
  BY TypedRound DEF BeginRound, Till
<1>3. put[u] = 0 /\ house \in Nat
  BY <1>2, PutFacts, NoRoundBacked
<1>4. CASE a > 0 /\ round' = [round EXCEPT ![u] = new]
  <2>1. /\ a \in Nat /\ a =< Free
        /\ \/ double
           \/ a = NoDoubleLiability(u, r.bet)
    BY <1>2, <1>4, AffordableFacts
  <2>2. SumFunctionOnSet(put, Gambler) =< house - a
        /\ SumFunctionOnSet(put, Gambler) \in Int
    <3>1. /\ SumFunctionOnSet(put, Gambler) =< Reserved(Gambler)
          /\ SumFunctionOnSet(put, Gambler) \in Int /\ Reserved(Gambler) \in Nat
      BY PutWithinReserved
    <3>2. Free = house - Reserved(Gambler)
      BY <1>4, <2>1, FreeType DEF Sound
    <3> HIDE DEF a
    <3> QED
      BY <1>3, <2>1, <3>1, <3>2
  <2>3. /\ round'[u].step = "playing" /\ round'[u].reserved = a
        /\ round'[u].game = r.game /\ round'[u].bet = r.bet
        /\ round'[u].double = double
    <3>1. round'[u] = new
      BY <1>4 DEF Sound, SoloTyped
    <3> HIDE DEF a, double
    <3> QED
      BY <1>2, <3>1 DEF RoundRecords
  <2>4. SameTerms(u)
    BY <1>2, <2>3 DEF SameTerms
  <2>5. ReservedRight(u)'
    <3>1. /\ Liability(u, round[u].game, round[u].bet)'
               = Liability(u, round[u].game, round[u].bet)
          /\ NoDoubleLiability(u, round[u].bet)' = NoDoubleLiability(u, round[u].bet)
      BY <2>4, LiabilityNow
    <3> HIDE DEF a
    <3> QED
      BY <2>1, <2>3, <3>1 DEF ReservedRight
  <2> HIDE DEF a
  <2>6. ASSUME NEW k \in Nat, k = a
        PROVE  Covered'
    <3>1. Backed(u, k)'
      <4>1. k =< k
        OBVIOUS
      <4> QED
        BY <2>3, <2>6, <4>1 DEF Backed
    <3>2. SumFunctionOnSet(put, Gambler) - put[u] + k =< house'
      BY <1>2, <1>3, <2>1, <2>2, <2>6
    <3> QED
      BY <1>1, <2>5, <3>1, <3>2, PutPlaced
  <2> QED
    BY <2>1, <2>6
<1>5. CASE round' = [round EXCEPT ![u] = NoRound]
  <2>1. round'[u] = NoRound
    BY <1>5 DEF Sound, SoloTyped
  <2>2. 0 - put[u] =< house' - house
    BY <1>2, <1>3
  <2> QED
    BY <1>1, <2>1, <2>2, GoneBacked, PutMoves
<1>6. \/ a > 0 /\ round' = [round EXCEPT ![u] = new]
      \/ round' = [round EXCEPT ![u] = NoRound]
  BY DEF BeginRound
<1> QED
  BY <1>4, <1>5, <1>6

\* A step after which the round of u stands as it did.
LEMMA RoundStands ==
  ASSUME Sound, Sound', NEW put, Put(put), NEW u \in Gambler, Stepped(u), RightsMove(u),
         ReservedRight(u)',
         round'[u].step = round[u].step, round'[u].no = round[u].no,
         round'[u].reserved = round[u].reserved,
         spins' \subseteq spins, house' >= house
  PROVE  Covered'
<1> SUFFICES ASSUME NEW k \in Nat, k = put[u]
             PROVE  Covered'
  BY PutFacts
<1>1. Backed(u, k) /\ k =< round[u].reserved /\ house \in Nat
  BY PutFacts
<1>2. Backed(u, k)'
  BY <1>1 DEF Backed
<1>3. k - put[u] =< house' - house
  <2>1. house' \in Nat
    BY DEF Sound, SoloTyped
  <2> QED
    BY <1>1, <2>1
<1> QED
  BY <1>2, <1>3, PutMoves

LEMMA RaiseCover ==
  ASSUME Sound, Sound', NEW put, Put(put), NEW u \in Gambler, Raise(u)
  PROVE  Covered'
<1>1. Stepped(u) /\ RightsMove(u)
  BY DeedStep, DeedRights DEF Deed
<1>2. /\ round' = [round EXCEPT ![u].staked = @ + round[u].bet]
      /\ round[u] \in RoundRecords /\ house \in Nat
      /\ UNCHANGED <<streak, worn, spins, house>>
  BY TypedRound, PutFacts DEF Raise, Till
<1>3. /\ round'[u].step = round[u].step /\ round'[u].no = round[u].no
      /\ round'[u].reserved = round[u].reserved
      /\ round'[u].game = round[u].game /\ round'[u].bet = round[u].bet
      /\ round'[u].double = round[u].double
  BY <1>2 DEF Sound, SoloTyped, RoundRecords
<1>4. SameTerms(u)
  BY <1>2, <1>3 DEF SameTerms
<1>5. ReservedRight(u)'
  BY <1>3, <1>4, PutFacts, ReservedKept
<1>6. house' >= house
  BY <1>2
<1> QED
  BY <1>1, <1>2, <1>3, <1>5, <1>6, RoundStands

LEMMA BuyCharmCover ==
  ASSUME Sound, Sound', NEW put, Put(put), NEW u \in Gambler, NEW c \in Goods,
         BuyCharm(u, c)
  PROVE  Covered'
<1>1. Stepped(u) /\ RightsMove(u)
  BY DeedStep, DeedRights DEF Deed
<1>2. /\ UNCHANGED <<streak, worn, round, spins>>
      /\ house' = house + CharmPrice[c] /\ CharmPrice[c] \in Nat /\ house \in Nat
  BY SoloAssumption, PutFacts DEF BuyCharm, CharmPrice
<1>3. ReservedRight(u)'
  BY <1>2, PutFacts, ReservedKept DEF SameTerms
<1>4. house' >= house
  BY <1>2
<1> QED
  BY <1>1, <1>2, <1>3, <1>4, RoundStands

\* An omamori put on under a running round is the exception.
LEMMA PutOnCover ==
  ASSUME Sound, Sound', NEW put, Put(put), NEW u \in Gambler, NEW c \in Goods,
         PutOn(u, c)
  PROVE  Covered'
<1>1. Stepped(u) /\ RightsMove(u)
  BY DeedStep, DeedRights DEF Deed
<1>2. /\ UNCHANGED <<streak, round, spins, house>> /\ house \in Nat
      /\ worn' = [worn EXCEPT ![u] = @ \union {c}]
      /\ late' = (late \/ (c = "omamori" /\ round[u].step = "playing"))
  BY PutFacts DEF PutOn, Till
<1>3. CASE c = "omamori" /\ round[u].step = "playing"
  BY <1>2, <1>3 DEF Covered
<1>4. CASE ~(c = "omamori" /\ round[u].step = "playing")
  <2>1. ReservedRight(u)'
    <3>1. CASE round[u].step # "playing"
      BY <1>2, <3>1 DEF ReservedRight
    <3>2. CASE c # "omamori"
      <4>1. worn'[u] = worn[u] \union {c}
        BY <1>2 DEF Sound, SoloTyped
      <4>2. SameTerms(u)
        BY <1>2, <3>2, <4>1 DEF SameTerms
      <4> QED
        BY <1>2, <4>2, PutFacts, ReservedKept
    <3> QED
      BY <1>4, <3>1, <3>2
  <2>2. house' >= house
    BY <1>2
  <2> QED
    BY <1>1, <1>2, <2>1, <2>2, RoundStands
<1> QED
  BY <1>3, <1>4

\* A round that is over needs nothing any more: at most its reservation, or the
\* free spin kept for it, has left the house.
LEMMA RoundOver ==
  ASSUME Sound, Sound', NEW put, Put(put), NEW u \in Gambler, Stepped(u), RightsMove(u),
         round'[u] = NoRound, house - house' =< put[u]
  PROVE  Covered'
<1>1. put[u] \in Nat /\ house \in Nat /\ house' \in Nat
  BY PutFacts DEF Sound, SoloTyped
<1>2. 0 - put[u] =< house' - house
  BY <1>1
<1> QED
  BY <1>2, GoneBacked, PutMoves

LEMMA BreakOffCover ==
  ASSUME Sound, Sound', NEW put, Put(put), NEW u \in Gambler, BreakOff(u)
  PROVE  Covered'
<1>1. Stepped(u) /\ RightsMove(u)
  BY DeedStep, DeedRights DEF Deed
<1>2. round'[u] = NoRound /\ house' = house
  BY DEF BreakOff, Till, Sound, SoloTyped
<1>3. house - house' =< put[u]
  BY <1>2, PutFacts
<1> QED
  BY <1>1, <1>2, <1>3, RoundOver

LEMMA FinishRoundCover ==
  ASSUME Sound, Sound', NEW put, Put(put), NEW u \in Gambler, FinishRound(u)
  PROVE  Covered'
<1> DEFINE r == round[u]
           k == r.staked
           chips == pocket[u].chips - k
           chained == Chained(r.game)
<1>1. Stepped(u) /\ RightsMove(u)
  BY DeedStep, DeedRights DEF Deed
<1>2. /\ r.step = "playing" /\ r \in RoundRecords /\ r.game \in Games
      /\ r.bet \in Nat /\ k \in Stakes(r) /\ k \in Nat
  BY TypedRound DEF FinishRound, RoundSound, RoundRecords
<1>3. PICK raw \in Results(r) :
        LET o == Settled(u, k, raw, chained, 0, chips)
        IN o.possible /\ Book(u, o, 0, 0)
  BY DEF FinishRound
<1> DEFINE o == Settled(u, k, raw, chained, 0, chips)
<1>4. raw \in Nat /\ chained \in BOOLEAN /\ chips \in Int
  BY <1>2, ResultBounds, TypedRound DEF Chained
<1>5. o.possible /\ Book(u, o, 0, 0)
  BY <1>3
<1>6. Payout(u, k, raw, chained) - k =< r.reserved
  BY <1>2, PutFacts, CostCovered
<1>7. Payout(u, k, raw, chained) \in Nat
  BY <1>2, <1>4, PayoutBound
<1>8. round'[u] = NoRound /\ house' = o.house + 0
  BY <1>5 DEF Book, Sound, SoloTyped
<1>9. put[u] = r.reserved /\ put[u] \in Nat /\ house \in Nat
  BY <1>2, PutFacts DEF Backed
<1> HIDE DEF k, chips, chained, o
<1>10. SettledRight(u, k, raw, chained, 0, chips, o)
  BY <1>2, <1>4, <1>5, SettledPossible DEF o
<1>11. o.house \in Int /\ o.house >= house + k - 0 - Payout(u, k, raw, chained)
  BY <1>10 DEF SettledRight
<1> DEFINE paid == Payout(u, k, raw, chained)
<1> HIDE DEF paid, r
<1>12. house - house' =< put[u]
  BY <1>2, <1>6, <1>7, <1>8, <1>9, <1>11 DEF paid
<1> QED
  BY <1>1, <1>8, <1>12, RoundOver

LEMMA FinishChinchiroCover ==
  ASSUME Sound, Sound', NEW put, Put(put), NEW u \in Gambler, FinishChinchiro(u)
  PROVE  Covered'
<1> DEFINE r == round[u]
           bet == r.bet
           chips == pocket[u].chips
<1>1. Stepped(u) /\ RightsMove(u)
  BY DeedStep, DeedRights DEF Deed
<1>2. r.step = "playing" /\ r.game = "chinchiro" /\ bet \in Nat /\ chips \in Int
  BY TypedRound DEF FinishChinchiro, RoundRecords
<1>3. PICK p \in Throws, d \in Throws :
        LET m == Versus(p, d)
            o == Settled(u, bet, ChinchiroPay(bet, m), TRUE, 0, chips)
            extra == Larger(0, -m * bet - bet)
        IN o.possible /\ Book(u, o, extra, 2 * bet - bet - extra)
  BY DEF FinishChinchiro
<1> DEFINE m == Versus(p, d)
           raw == ChinchiroPay(bet, m)
           extra == Larger(0, -m * bet - bet)
           o == Settled(u, bet, raw, TRUE, 0, chips)
<1>4. m \in Differences
  BY VersusType
<1>5. raw \in Nat
  BY <1>2, <1>4, ChinchiroPays
<1>6. o.possible /\ Book(u, o, extra, 2 * bet - bet - extra)
  BY <1>3
<1>7. Payout(u, bet, raw, TRUE) - bet =< r.reserved
  BY <1>2, <1>4, PutFacts, ChinchiroCovered
<1>8. round'[u] = NoRound /\ house' = o.house + extra
  BY <1>6 DEF Book, Sound, SoloTyped
<1>9. put[u] = r.reserved /\ put[u] \in Nat /\ house \in Nat
  BY <1>2, PutFacts DEF Backed
<1>10. extra \in Nat
  <2> HIDE DEF m, bet
  <2>1. m \in Int
    BY <1>4 DEF Differences
  <2>2. -m * bet - bet \in Int
    BY <1>2, <2>1
  <2> QED
    BY <2>2 DEF Larger
<1> HIDE DEF m, bet, raw, extra, chips, o
<1>11. Payout(u, bet, raw, TRUE) \in Nat
  <2>1. TRUE \in BOOLEAN
    OBVIOUS
  <2> QED
    BY <1>2, <1>5, <2>1, PayoutBound
<1>12. SettledRight(u, bet, raw, TRUE, 0, chips, o)
  <2>1. TRUE \in BOOLEAN /\ 0 \in Nat
    OBVIOUS
  <2>2. Settled(u, bet, raw, TRUE, 0, chips).possible
    BY <1>6 DEF o
  <2>3. SettledRight(u, bet, raw, TRUE, 0, chips,
                     Settled(u, bet, raw, TRUE, 0, chips))
    BY <1>2, <1>5, <2>1, <2>2, SettledPossible
  <2> QED
    BY <2>3 DEF o
<1>13. o.house \in Int /\ o.house >= house + bet - 0 - Payout(u, bet, raw, TRUE)
  BY <1>12 DEF SettledRight
<1> DEFINE paid == Payout(u, bet, raw, TRUE)
<1>14. /\ paid - bet =< r.reserved /\ paid \in Nat
       /\ o.house >= house + bet - 0 - paid
  BY <1>7, <1>11, <1>13
<1> HIDE DEF paid
<1>15. house - house' =< put[u]
  BY <1>2, <1>8, <1>9, <1>10, <1>13, <1>14
<1> QED
  BY <1>1, <1>8, <1>15, RoundOver

LEMMA EndSpinCover ==
  ASSUME Sound, Sound', NEW put, Put(put), NEW u \in Gambler, EndSpin(u)
  PROVE  Covered'
<1>1. Stepped(u) /\ RightsMove(u)
  BY DeedStep, DeedRights DEF Deed
<1>2. /\ round[u].step = "spun" /\ put[u] \in Nat /\ house \in Nat
      /\ Backed(u, put[u])
  BY PutFacts DEF EndSpin
<1>3. CASE \E s \in spins : /\ s.who = u /\ s.no = round[u].no
                            /\ PaySpin(s) /\ UNCHANGED round
  <2>1. PICK s \in spins : /\ s.no = round[u].no
                           /\ PaySpin(s) /\ UNCHANGED round
    BY <1>3
  <2>2. s.pay =< put[u] /\ s.pay \in Nat
    BY <1>2, <2>1 DEF Backed, Sound, SoloTyped, Rights
  <2>3. house' = house - s.pay /\ spins' = spins \ {s}
    BY <2>1 DEF PaySpin
  <2>4. \A t \in spins' : t.no # round'[u].no
    BY <2>1, <2>3 DEF Sound, RightsSound
  <2>5. Backed(u, 0)'
    <3>1. round'[u] = round[u] /\ 0 =< round[u].reserved
      BY <2>1, PutFacts
    <3> QED
      BY <1>2, <2>4, <3>1 DEF Backed
  <2>6. ReservedRight(u)'
    BY <1>2, <2>1 DEF ReservedRight
  <2>7. 0 - put[u] =< house' - house
    BY <1>2, <2>2, <2>3
  <2> QED
    BY <1>1, <2>5, <2>6, <2>7, PutMoves
<1>4. CASE round' = [round EXCEPT ![u] = NoRound] /\ Till
  <2>1. round'[u] = NoRound /\ house' = house
    BY <1>4 DEF Till, Sound, SoloTyped
  <2>2. house - house' =< put[u]
    BY <1>2, <2>1
  <2> QED
    BY <1>1, <2>1, <2>2, RoundOver
<1> QED
  BY <1>3, <1>4 DEF EndSpin

\* A right left over is paid out of what no round has reserved.
LEMMA ResumeSpinCover ==
  ASSUME Sound, Sound', NEW put, Put(put), NEW u \in Gambler, ResumeSpin(u)
  PROVE  Covered'
<1>1. Stepped(u) /\ RightsMove(u)
  BY DeedStep, DeedRights DEF Deed
<1>2. PICK s \in spins : Payable(s) /\ PaySpin(s)
  BY DEF ResumeSpin
<1>3. /\ round[u] = NoRound /\ round' = round /\ NoRound.step = "idle"
      /\ house' = house - s.pay /\ s.pay \in Nat /\ s.pay =< Free
  BY <1>2, NoRoundType
     DEF ResumeSpin, PaySpin, Payable, NoRoundIsSound, Sound, SoloTyped, Rights
<1>4. put[u] = 0 /\ house \in Nat
  BY <1>3, PutFacts, NoRoundBacked
<1>5. CASE s.pay = 0
  <2>1. 0 - put[u] =< house' - house
    BY <1>3, <1>4, <1>5
  <2> QED
    BY <1>1, <1>3, <2>1, GoneBacked, PutMoves
<1>6. CASE s.pay > 0
  <2>1. /\ Free > 0 => Free = house - Reserved(Gambler)
        /\ Free \in Nat /\ Reserved(Gambler) \in Nat
    BY FreeType DEF Sound
  <2>2. /\ SumFunctionOnSet(put, Gambler) =< Reserved(Gambler)
        /\ SumFunctionOnSet(put, Gambler) \in Int
    BY PutWithinReserved
  <2>3. SumFunctionOnSet(put, Gambler) - put[u] + 0 =< house'
    BY <1>3, <1>4, <1>6, <2>1, <2>2
  <2> QED
    BY <1>1, <1>3, <2>3, GoneBacked, PutPlaced
<1> QED
  BY <1>3, <1>5, <1>6

\* The spin is paid and the free spin it won is kept by.
LEMMA SpinPaidCover ==
  ASSUME Sound, Sound', NEW put, Put(put), NEW u \in Gambler, SpinPaid(u)
  PROVE  Covered'
<1> DEFINE r == round[u]
           bet == r.bet
           cut == JackpotCut(bet)
           cap == WinBonusCap(u)
           top == 100 * bet
<1>1. Stepped(u) /\ RightsMove(u)
  BY DeedStep, DeedRights DEF Deed
<1>2. /\ r.step = "playing" /\ r.game = "slots" /\ r \in RoundRecords
      /\ round' = [round EXCEPT ![u].step = "spun"] /\ bet \in Nat \ {0}
  <2>1. /\ r.step = "playing" /\ r.game = "slots"
        /\ round' = [round EXCEPT ![u].step = "spun"]
    BY SpinPaidFacts
  <2>2. r \in RoundRecords /\ RoundSound(u)
    BY TypedRound
  <2> QED
    BY <2>1, <2>2 DEF RoundSound, RoundRecords
<1>3. /\ round'[u].step = "spun" /\ round'[u].no = r.no
      /\ round'[u].reserved = r.reserved
  BY <1>2 DEF Sound, SoloTyped, RoundRecords
<1>4. put[u] = r.reserved /\ put[u] \in Nat /\ house \in Nat /\ ReservedRight(u)
  BY <1>2, PutFacts DEF Backed
<1>5. PICK reels \in Reels, next \in Reels : \E won, free, claimed, new :
        /\ SpinDone(u, reels, next, SpinOutcome(u, reels), won, free, claimed, new)
        /\ SettledRight(u, bet, bet * SpinFactor(reels), TRUE, cut,
                        pocket[u].chips - bet, SpinOutcome(u, reels))
  BY SpinPaidFacts
<1> DEFINE o == SpinOutcome(u, reels)
           raw == bet * SpinFactor(reels)
           more == bet * SpinFactor(next)
<1>6. PICK won, free, claimed, new :
        /\ SpinDone(u, reels, next, o, won, free, claimed, new)
        /\ SettledRight(u, bet, raw, TRUE, cut, pocket[u].chips - bet, o)
  BY <1>5
<1>7. raw \in 0 .. top /\ more \in 0 .. top
  BY <1>2, SpinPays
<1> DEFINE paid == Payout(u, bet, raw, TRUE)
<1>8. /\ o.house \in Int /\ o.house >= house + bet - cut - paid
      /\ house' = o.house /\ free \in Nat
      /\ new.pay = free
      /\ \/ spins' = spins \union {new} /\ free = Charmed(worn[u] \ o.used, bet, more).pay
         \/ spins' = spins
  BY <1>6 DEF SettledRight, SpinDone
<1>9. paid \in Nat
  <2>1. TRUE \in BOOLEAN /\ raw \in Nat /\ bet \in Nat
    BY <1>2, <1>7
  <2> HIDE DEF raw, bet
  <2> QED
    BY <2>1, PayoutBound
<1>10. cut \in Nat /\ cap \in Nat
  BY <1>2, CutFacts DEF WinBonusCap, CharmCap
<1>11. ASSUME NEW k \in 0 .. (top + cap),
              \A s \in spins' : s.no = r.no => s.pay =< k
       PROVE  Covered'
  <2>1. paid - bet + cut + k =< r.reserved
    <3>1. raw \in 0 .. 100 * round[u].bet
          /\ k \in 0 .. (100 * round[u].bet + WinBonusCap(u))
      BY <1>7
    <3> HIDE DEF raw
    <3> QED
      BY <1>2, <1>4, <3>1, SlotsCovered
  <2>2. k \in Nat
    BY <1>2, <1>10
  <2>3. k =< r.reserved
    <3>1. /\ r.reserved = Larger(0, Gross(u, top, TRUE) - (bet - cut)) + top + cap
          /\ Gross(u, top, TRUE) \in Nat
      <4>1. r.reserved = Liability(u, "slots", bet)
        BY <1>2, <1>4, TypedRound DEF ReservedRight, RoundSound
      <4>2. Gross(u, top, TRUE) \in Nat
        <5>1. TRUE \in BOOLEAN /\ top \in Nat /\ top =< top /\ SoloTyped
          BY <1>2 DEF Sound
        <5> HIDE DEF top
        <5> QED
          BY <5>1, GrossFacts
      <4>3. Liability(u, "slots", bet)
              = Larger(0, Gross(u, top, TRUE) - (bet - cut)) + top + cap
        BY DEF Liability, Chained
      <4> QED
        BY <4>1, <4>2, <4>3
    <3> DEFINE gross == Gross(u, top, TRUE)
    <3>2. /\ top \in Nat /\ bet \in Nat /\ gross \in Nat /\ k =< top + cap
          /\ r.reserved = Larger(0, gross - (bet - cut)) + top + cap
      <4>1. top \in Nat /\ bet \in Nat /\ k =< top + cap
        BY <1>2, <1>10
      <4> QED
        BY <3>1, <4>1
    <3> HIDE DEF gross, top, cut, cap, r, bet
    <3>3. Larger(0, gross - (bet - cut)) \in Nat
      BY <1>10, <3>2 DEF Larger
    <3> QED
      BY <1>10, <2>2, <3>2, <3>3
  <2>4. Backed(u, k)' /\ ReservedRight(u)'
    BY <1>3, <1>11, <2>3 DEF Backed, ReservedRight
  <2> HIDE DEF r, bet, cut, cap, top, o, raw, paid
  <2>5. k - put[u] =< house' - house
    BY <1>2, <1>4, <1>8, <1>9, <1>10, <2>1, <2>2
  <2> QED
    BY <1>1, <2>2, <2>4, <2>5, PutMoves
<1>12. \A s \in spins : s.no # r.no
  BY <1>2 DEF Sound, RightsSound
<1>13. CASE spins' = spins
  <2>1. 0 \in 0 .. (top + cap)
    BY <1>2, <1>10
  <2> QED
    BY <1>11, <1>12, <1>13, <2>1
<1>14. CASE /\ spins' = spins \union {new}
            /\ free = Charmed(worn[u] \ o.used, bet, more).pay
  <2> DEFINE charms == worn[u] \ o.used
  <2>1. /\ more > bet => free =< more + Luck(charms)
        /\ more =< bet => free =< bet
        /\ Luck(charms) \in Nat
    <3>1. bet \in Nat /\ more \in Nat /\ free = Charmed(charms, bet, more).pay
      BY <1>2, <1>7, <1>14
    <3> HIDE DEF bet, more, charms
    <3> QED
      BY <3>1, CharmedFacts
  <2>2. Luck(charms) =< cap
    BY DEF Luck, WinBonusCap, CharmCap
  <2>3. free \in 0 .. (top + cap)
    <3>1. more \in Nat /\ more =< top /\ bet =< top /\ top \in Nat /\ bet \in Nat
      BY <1>2, <1>7
    <3>2. free \in Nat
      BY <1>8
    <3> DEFINE luck == Luck(charms)
    <3> HIDE DEF bet, more, top, cap, luck
    <3>3. /\ more > bet => free =< more + luck
          /\ more =< bet => free =< bet
          /\ luck \in Nat /\ luck =< cap
      BY <2>1, <2>2 DEF luck
    <3> QED
      BY <1>10, <3>1, <3>2, <3>3
  <2> QED
    BY <1>8, <1>11, <1>12, <1>14, <2>3
<1> QED
  BY <1>8, <1>13, <1>14

LEMMA DeedCover ==
  ASSUME Sound, Sound', Covered, NEW u \in Gambler, Deed(u)
  PROVE  Covered'
<1>1. Stepped(u)
  BY DeedStep
<1>2. ASSUME NEW put, Put(put)
      PROVE  Covered'
  BY <1>2, OpenRoundCover, BeginRoundCover, RaiseCover, FinishRoundCover,
     FinishChinchiroCover, BreakOffCover, SpinPaidCover, EndSpinCover,
     ResumeSpinCover, BuyCharmCover, PutOnCover DEF Deed
<1>3. CASE late
  <2>1. late'
    <3>1. CASE \/ \E o \in Offers : OpenRound(u, o[1], o[2])
               \/ BeginRound(u) \/ Raise(u) \/ BreakOff(u)
               \/ FinishRound(u) \/ FinishChinchiro(u)
      BY <1>3, <3>1 DEF OpenRound, BeginRound, Raise, BreakOff, FinishRound,
                        FinishChinchiro
    <3>2. CASE SpinPaid(u)
      BY <1>3, <3>2, SpinPaidFacts
    <3>3. CASE EndSpin(u) \/ ResumeSpin(u)
      BY <1>3, <3>3 DEF EndSpin, ResumeSpin, PaySpin
    <3>4. CASE \E c \in Goods : BuyCharm(u, c) \/ PutOn(u, c)
      BY <1>3, <3>4 DEF BuyCharm, PutOn
    <3> QED
      BY <3>1, <3>2, <3>3, <3>4 DEF Deed
  <2> QED
    BY <2>1 DEF Covered
<1> QED
  BY <1>2, <1>3 DEF Covered

\* Nothing is put by when no round is under way.
LEMMA NothingPutBy ==
  ASSUME Sound, \A u \in Gambler : round[u] = NoRound
  PROVE  Put([u \in Gambler |-> 0])
<1> DEFINE none == [u \in Gambler |-> 0]
<1>1. NoRound.reserved = 0 /\ NoRound.step = "idle"
  BY DEF NoRound
<1>2. none \in [Gambler -> Nat] /\ \A u \in Gambler : none[u] = 0
  OBVIOUS
<1> HIDE DEF none
<1>3. SumFunctionOnSet(none, Gambler) = 0
  BY <1>2, SoloAssumption, SumZero
<1>4. SumFunctionOnSet(none, Gambler) =< house
  BY <1>3 DEF Sound, SoloTyped
<1>5. \A u \in Gambler : Backed(u, none[u]) /\ ReservedRight(u)
  BY <1>1, <1>2 DEF Backed, ReservedRight
<1>6. Put(none)
  BY <1>2, <1>4, <1>5 DEF Put
<1> QED
  BY <1>6 DEF none

LEMMA NothingIsLeft ==
  ASSUME Sound', \A u \in Gambler : round'[u] = NoRound
  PROVE  Covered'
<1> DEFINE none == [u \in Gambler |-> 0]
<1>1. NoRound.reserved = 0 /\ NoRound.step = "idle"
  BY DEF NoRound
<1>2. none \in [Gambler -> Nat] /\ \A u \in Gambler : none[u] = 0
  OBVIOUS
<1> HIDE DEF none
<1>3. SumFunctionOnSet(none, Gambler) = 0
  BY <1>2, SoloAssumption, SumZero
<1>4. SumFunctionOnSet(none, Gambler) =< house'
  BY <1>3 DEF Sound, SoloTyped
<1>5. \A u \in Gambler : Backed(u, none[u])' /\ ReservedRight(u)'
  BY <1>1, <1>2 DEF Backed, ReservedRight
<1>6. Put(none)'
  BY <1>2, <1>4, <1>5 DEF Put
<1> QED
  BY <1>6 DEF Covered

LEMMA CoveredStep ==
  ASSUME Sound, Sound', Covered, [SoloNext]_soloVars
  PROVE  Covered'
<1>1. ASSUME NEW u \in Gambler, Deed(u)
      PROVE  Covered'
  BY <1>1, DeedCover
<1>2. CASE RestartGames
  <2>1. \A u \in Gambler : round'[u] = NoRound
    BY <1>2, RestartGamesStep
  <2> QED
    BY <2>1, NothingIsLeft
<1>3. CASE UNCHANGED soloVars
  <2>1. UNCHANGED <<house, streak, worn, round, spins, late>>
    BY <1>3 DEF soloVars
  <2>2. \A u \in Gambler : \A n \in Nat : Backed(u, n) => Backed(u, n)'
    BY <2>1 DEF Backed
  <2>3. ASSUME NEW u \in Gambler, ReservedRight(u)
        PROVE  ReservedRight(u)'
    BY <2>1, <2>3, ReservedKept DEF SameTerms
  <2>4. ASSUME NEW put, Put(put)
        PROVE  Put(put)'
    BY <2>1, <2>2, <2>3, <2>4 DEF Put
  <2> QED
    BY <2>1, <2>4 DEF Covered
<1> QED
  BY <1>1, <1>2, <1>3 DEF SoloNext, Deed

\* However the rounds under way end, and in whatever order, the house can pay
\* them all in full, unless an omamori was put on under a running round: for any
\* number of gamblers, any bets and any results.
THEOREM CoverHolds == SoloSpec => []WinsAreCovered
<1>1. SoloInit => Covered
  <2> SUFFICES ASSUME SoloInit PROVE Covered
    OBVIOUS
  <2>1. Sound /\ \A u \in Gambler : round[u] = NoRound
    BY SoundInit DEF SoloInit
  <2>2. \E put : Put(put)
    BY <2>1, NothingPutBy
  <2> QED
    BY <2>2 DEF Covered
<1>2. Sound /\ Covered /\ [SoloNext]_soloVars /\ Sound' => Covered'
  BY CoveredStep
<1>3. Sound /\ Covered => WinsAreCovered
  BY CoverIsEnough
<1> QED
  BY <1>1, <1>2, <1>3, SoloIsSound, PTL DEF SoloSpec

=============================================================================
