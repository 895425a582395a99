-------------------------------- MODULE Chips --------------------------------
(***************************************************************************)
(* Money of the casino, packages/core/src/casino: free chips of players,   *)
(* the house and the jackpot, escrow holders of the tables and boards with *)
(* their book of stakes (casino_escrow), the Land that backs the chips     *)
(* (the pool account), and the house reservations.                         *)
(*                                                                         *)
(* One business group is one database transaction, so the operators below  *)
(* map a vault to the vault after one call, and an action applies the      *)
(* calls of a whole group.  A group that throws leaves the vault alone.    *)
(***************************************************************************)
EXTENDS Integers, FiniteSets, Functions

CONSTANTS
  Player,      \* Discord users
  Session,     \* tables and boards; a session is also the name of its holder
  House, Jackpot, Quarantine,   \* holders that are not players
  Wallet       \* Land of each player at the beginning

ASSUME ChipsAssumption ==
  /\ IsFiniteSet(Player) /\ IsFiniteSet(Session)
  /\ Player \intersect Session = {}
  /\ {House, Jackpot, Quarantine} \intersect (Player \union Session) = {}
  /\ House # Jackpot /\ House # Quarantine /\ Jackpot # Quarantine
  /\ Wallet \in [Player -> Nat]

VARIABLES
  vault,      \* [chips, land, pool, book]: balances, backing and stakes
  reserved,   \* casino_reservations: reservation key |-> amount
  frozen,     \* players whose Land account is frozen
  stats       \* player |-> lifetime net result (casino_stats)

Holder == Player \union Session \union {House, Jackpot, Quarantine}

Outstanding(v) == SumFunction(v.chips)

Staked(v, s) == SumFunction(v.book[s])

HasRows(v, s) == \E u \in Player : v.book[s][u] > 0

Matches(v, s) == v.chips[s] = Staked(v, s)

\* What a player owns outside the tables: ordinary Land and free chips.
Holdings(v, u) == v.land[u] + v.chips[u]

At(f, h) == IF h \in DOMAIN f THEN f[h] ELSE 0

One(u, n) == [w \in Player |-> IF w = u THEN n ELSE 0]

\* Holder from pays; a negative share is paid to it.
Pay(v, from, pay) ==
  [v EXCEPT !.chips = [h \in Holder |-> IF h = from
                                        THEN v.chips[h] - SumFunction(pay)
                                        ELSE v.chips[h] + At(pay, h)]]

Transfer(v, from, to, n) == Pay(v, from, [h \in {to} |-> n])

ExchangeUnbacked(v, paid) ==      \* mutant: the Land does not reach the pool
  [v EXCEPT !.land = [u \in Player |-> v.land[u] - paid[u]],
            !.chips = [h \in Holder |-> v.chips[h] + At(paid, h)]]

\* Players pay Land into the pool for chips, at one to one; a negative amount
\* is redeemed.
Exchange(v, paid) ==
  [v EXCEPT !.land = [u \in Player |-> v.land[u] - paid[u]],
            !.pool = v.pool + SumFunction(paid),
            !.chips = [h \in Holder |-> v.chips[h] + At(paid, h)]]

RedeemAll(v, u) == Exchange(v, One(u, -v.chips[u]))

\* The spendable wallet: chips first, the missing part from ordinary Land.
CanFund(v, u, n) ==
  /\ Holdings(v, u) >= n
  /\ v.chips[u] < n => u \notin frozen

Lack(v, u, n) == IF v.chips[u] >= n THEN 0 ELSE n - v.chips[u]

Fund(v, u, n) == Exchange(v, One(u, Lack(v, u, n)))

\* Stakes go from the players to the holder of s and into its book; negative
\* ones go back.
Collect(v, s, stake) ==
  [v EXCEPT !.chips = [h \in Holder |-> IF h = s
                                        THEN v.chips[h] + SumFunction(stake)
                                        ELSE v.chips[h] - At(stake, h)],
            !.book[s] = [u \in Player |-> v.book[s][u] + stake[u]]]

Hold(v, s, u, n) == Collect(Fund(v, u, n), s, One(u, n))

HoldAll(v, s, us, n) ==
  Collect(Exchange(v, [u \in Player |-> IF u \in us THEN Lack(v, u, n) ELSE 0]),
          s, [u \in Player |-> IF u \in us THEN n ELSE 0])

RefundOne(v, s, u) == Collect(v, s, One(u, -v.book[s][u]))

Refund(v, s) == Collect(v, s, [u \in Player |-> -v.book[s][u]])

\* Escrow.settle pays out the whole balance of the holder or throws.
SettlePays(v, s, pay) == SumFunction(pay) = v.chips[s]

Settle(v, s, pay) ==
  [Pay(v, s, pay) EXCEPT !.book[s] = [u \in Player |-> 0]]

\* The result that reaches the statistics and the daily limit of a player.
NetOf(v, s, pay, u) ==
  At(pay, u) - v.book[s][u]

StatsAfterAll(v, s, pay) ==      \* mutant: the stake is not subtracted
  [u \in Player |-> stats[u] + At(pay, u)]

StatsAfter(v, s, pay) ==
  [u \in Player |-> stats[u] + NetOf(v, s, pay, u)]

-----------------------------------------------------------------------------
TotalReserved == SumFunction(reserved)

\* Chips of the house that no running game may need.
Available == vault.chips[House] - TotalReserved

\* Change the reservation of k to n; the caller's own amount counts as free.
CanResizeByOthers(k, n) == n =< vault.chips[House]     \* mutant: ignores others
CanResize(k, n) == n =< Available + reserved[k]

ReleaseOne(k) == [reserved EXCEPT ![k] = 0]

NothingReserved == [k \in Player \union Session |-> 0]

ChipsInit(houseChips) ==
  /\ vault = [chips |-> [h \in Holder |-> IF h = House THEN houseChips ELSE 0],
              land  |-> Wallet,
              pool  |-> houseChips,
              book  |-> [s \in Session |-> [u \in Player |-> 0]]]
  /\ reserved = NothingReserved
  /\ frozen = {}
  /\ stats = [u \in Player |-> 0]

\* CasinoIntegrity.  A: holders are never negative.  B: the pool backs every
\* chip.  C: each escrow holder holds exactly its rows.  D follows from A, B
\* and C here: the model has no second copy of the totals.
CheckA == \A h \in Holder : vault.chips[h] >= 0
CheckB == vault.pool = Outstanding(vault)
CheckC == \A s \in Session : Matches(vault, s)
Precheck == CheckA /\ CheckB
FullCheck == Precheck /\ CheckC

=============================================================================
