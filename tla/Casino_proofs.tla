---------------------------- MODULE Casino_proofs ----------------------------
(***************************************************************************)
(* The casino for every set of players, tables, boards, bets and odds.     *)
(*                                                                         *)
(* First what each operator on a vault keeps: Exchange keeps the backing   *)
(* and what a player is worth, Pay moves chips and loses none, Collect     *)
(* moves chips together with their rows.  Then one invariant for each      *)
(* concern, each proved inductive from those before it: the types, the     *)
(* tables, the solvency, the money, the boards, the daily limit and the    *)
(* recovery.                                                               *)
(***************************************************************************)
EXTENDS CasinoRecovery, Sums_proofs

Table == Roulette \union Pvp

-----------------------------------------------------------------------------
(* Vaults.                                                                 *)

Vaults == [chips : [Holder -> Int], land : [Player -> Int], pool : Int,
           book : [Session -> [Player -> Nat]]]

\* Chips that are nobody's free chips.
Parked(v) == SumFunctionOnSet(v.chips, Session \union {Quarantine})

AllStaked(v) == SumFunction([s \in Session |-> Staked(v, s)])

Backing(v) == v.pool - Outstanding(v)
Excess(v) == Parked(v) - AllStaked(v)

RowsOf(v, u) == SumFunction([s \in Session |-> v.book[s][u]])
Worth(v, u) == Holdings(v, u) + RowsOf(v, u)

LEMMA HolderFinite ==
  /\ IsFiniteSet(Holder) /\ IsFiniteSet(Player) /\ IsFiniteSet(Session)
  /\ IsFiniteSet(Session \union {Quarantine})
<1>1. IsFiniteSet(Player) /\ IsFiniteSet(Session)
  BY ChipsAssumption
<1>2. IsFiniteSet({House, Jackpot, Quarantine})
  <2>1. {House, Jackpot, Quarantine} = ({House} \union {Jackpot}) \union {Quarantine}
    OBVIOUS
  <2>2. IsFiniteSet({House} \union {Jackpot})
    BY FS_Singleton, FS_Union
  <2>3. IsFiniteSet(({House} \union {Jackpot}) \union {Quarantine})
    BY <2>2, FS_Singleton, FS_Union
  <2> QED
    BY <2>1, <2>3
<1>3. IsFiniteSet(Player \union Session)
  BY <1>1, FS_Union
<1>4. IsFiniteSet(Holder)
  BY <1>2, <1>3, FS_Union DEF Holder
<1> QED
  BY <1>1, <1>4, FS_Singleton, FS_Union

\* A sum over a function that is written out.
LEMMA SumOf ==
  ASSUME NEW f, NEW S, DOMAIN f = S
  PROVE  SumFunction(f) = SumFunctionOnSet(f, S)
BY DEF SumFunction

LEMMA VaultFacts ==
  ASSUME NEW v \in Vaults
  PROVE  /\ \A h \in Holder : v.chips[h] \in Int
         /\ \A u \in Player : v.land[u] \in Int
         /\ v.pool \in Int
         /\ \A s \in Session, u \in Player : v.book[s][u] \in Nat
         /\ DOMAIN v.chips = Holder
         /\ \A s \in Session : DOMAIN v.book[s] = Player
BY DEF Vaults

LEMMA VaultSums ==
  ASSUME NEW v \in Vaults
  PROVE  /\ Outstanding(v) = SumFunctionOnSet(v.chips, Holder)
         /\ Outstanding(v) \in Int
         /\ \A s \in Session : /\ Staked(v, s) = SumFunctionOnSet(v.book[s], Player)
                               /\ Staked(v, s) \in Nat
         /\ Parked(v) \in Int
         /\ AllStaked(v) \in Int
         /\ \A u \in Player : RowsOf(v, u) \in Nat
         /\ Backing(v) \in Int /\ Excess(v) \in Int
         /\ \A u \in Player : Worth(v, u) \in Int
<1>1. /\ Outstanding(v) = SumFunctionOnSet(v.chips, Holder)
      /\ Outstanding(v) \in Int
  BY VaultFacts, HolderFinite, SumInt DEF Outstanding, SumFunction
<1>2. ASSUME NEW s \in Session
      PROVE  /\ Staked(v, s) = SumFunctionOnSet(v.book[s], Player)
             /\ Staked(v, s) \in Nat
  BY VaultFacts, HolderFinite, SumNat DEF Staked, SumFunction
<1>3. Parked(v) \in Int
  <2>1. Session \union {Quarantine} \subseteq Holder
    BY DEF Holder
  <2> QED
    BY <2>1, VaultFacts, HolderFinite, SumInt DEF Parked
<1>4. AllStaked(v) \in Int
  <2> DEFINE f == [s \in Session |-> Staked(v, s)]
  <2>1. \A s \in Session : f[s] \in Int
    BY <1>2
  <2>2. DOMAIN f = Session
    OBVIOUS
  <2> HIDE DEF f
  <2>3. SumFunction(f) \in Int
    BY <2>1, <2>2, HolderFinite, SumInt DEF SumFunction
  <2> QED
    BY <2>3 DEF AllStaked, f
<1>5. ASSUME NEW u \in Player PROVE RowsOf(v, u) \in Nat
  <2> DEFINE f == [s \in Session |-> v.book[s][u]]
  <2>1. \A s \in Session : f[s] \in Nat
    BY VaultFacts
  <2>2. DOMAIN f = Session
    OBVIOUS
  <2> HIDE DEF f
  <2>3. SumFunction(f) \in Nat
    BY <2>1, <2>2, HolderFinite, SumNat DEF SumFunction
  <2> QED
    BY <2>3 DEF RowsOf, f
<1>6. Backing(v) \in Int /\ Excess(v) \in Int
  BY <1>1, <1>3, <1>4, VaultFacts DEF Backing, Excess
<1>7. \A u \in Player : Worth(v, u) \in Int
  <2> SUFFICES ASSUME NEW u \in Player PROVE Worth(v, u) \in Int
    OBVIOUS
  <2>1. u \in Holder
    BY DEF Holder
  <2> QED
    BY <1>5, <2>1, VaultFacts DEF Worth, Holdings
<1> QED
  BY <1>1, <1>2, <1>3, <1>4, <1>5, <1>6, <1>7

\* Amounts for some holders, as amounts for all of them.
LEMMA AtSum ==
  ASSUME NEW D, D \subseteq Holder, NEW f \in [D -> Int]
  PROVE  /\ SumFunction(f) \in Int
         /\ \A h \in Holder : At(f, h) \in Int
         /\ SumFunctionOnSet([h \in Holder |-> At(f, h)], Holder) = SumFunction(f)
<1>1. IsFiniteSet(D)
  BY HolderFinite, FS_Subset
<1>2. SumFunction(f) = SumFunctionOnSet(f, D) /\ SumFunction(f) \in Int
  BY <1>1, SumInt DEF SumFunction
<1>3. \A h \in Holder : At(f, h) \in Int
  BY DEF At
<1> DEFINE g == [h \in Holder |-> At(f, h)]
<1>4. \A h \in D : g[h] = f[h]
  BY DEF At
<1>5. \A h \in Holder \ D : g[h] = 0
  BY DEF At
<1>6. \A h \in D : g[h] \in Int
  BY <1>4
<1> HIDE DEF g
<1>7. SumFunctionOnSet(g, Holder) = SumFunctionOnSet(g, D)
  BY <1>5, <1>6, HolderFinite, SumSupport
<1>8. SumFunctionOnSet(g, D) = SumFunctionOnSet(f, D)
  BY <1>1, <1>4, SumEqual
<1> QED
  BY <1>2, <1>3, <1>7, <1>8 DEF g

LEMMA OneSum ==
  ASSUME NEW u \in Player, NEW n \in Int
  PROVE  /\ One(u, n) \in [Player -> Int]
         /\ One(u, n)[u] = n
         /\ \A w \in Player \ {u} : One(u, n)[w] = 0
         /\ SumFunction(One(u, n)) = n
<1>1. /\ One(u, n) \in [Player -> Int]
      /\ One(u, n)[u] = n
      /\ \A w \in Player \ {u} : One(u, n)[w] = 0
  BY DEF One
<1>2. SumFunction(One(u, n)) = SumFunctionOnSet(One(u, n), Player)
  BY <1>1 DEF SumFunction
<1> QED
  BY <1>1, <1>2, HolderFinite, SumSingle

-----------------------------------------------------------------------------
(* The operators on a vault.                                               *)

LEMMA Names ==
  /\ Player \subseteq Holder /\ Session \subseteq Holder
  /\ House \in Holder /\ Jackpot \in Holder /\ Quarantine \in Holder
  /\ Player \intersect Session = {}
  /\ House \notin Player \union Session /\ Jackpot \notin Player \union Session
  /\ Quarantine \notin Player \union Session
  /\ House # Jackpot /\ House # Quarantine /\ Jackpot # Quarantine
BY ChipsAssumption DEF Holder

\* Exchange touches Land, pool and the free chips of players.
LEMMA ExchangeFacts ==
  ASSUME NEW v \in Vaults, NEW paid \in [Player -> Int], NEW w,
         w = Exchange(v, paid)
  PROVE  /\ w \in Vaults
         /\ w.book = v.book
         /\ \A u \in Player : /\ w.chips[u] = v.chips[u] + paid[u]
                              /\ w.land[u] = v.land[u] - paid[u]
         /\ \A h \in Holder \ Player : w.chips[h] = v.chips[h]
         /\ Backing(w) = Backing(v)
         /\ Excess(w) = Excess(v)
         /\ \A u \in Player : Worth(w, u) = Worth(v, u)
<1>1. /\ \A h \in Holder : v.chips[h] \in Int
      /\ \A u \in Player : v.land[u] \in Int
      /\ v.pool \in Int
  BY VaultFacts
<1>2. /\ SumFunction(paid) \in Int
      /\ \A h \in Holder : At(paid, h) \in Int
      /\ SumFunctionOnSet([h \in Holder |-> At(paid, h)], Holder) = SumFunction(paid)
  BY Names, AtSum
<1>3. /\ w.chips = [h \in Holder |-> v.chips[h] + At(paid, h)]
      /\ w.land = [u \in Player |-> v.land[u] - paid[u]]
      /\ w.pool = v.pool + SumFunction(paid)
      /\ w.book = v.book
  BY DEF Exchange, Vaults
<1>4. w = [chips |-> w.chips, land |-> w.land, pool |-> w.pool, book |-> w.book]
  BY DEF Exchange, Vaults
<1>5. w \in Vaults
  <2>1. w.chips \in [Holder -> Int] /\ w.land \in [Player -> Int] /\ w.pool \in Int
    BY <1>1, <1>2, <1>3
  <2>2. w.book \in [Session -> [Player -> Nat]]
    BY <1>3 DEF Vaults
  <2> QED
    BY <1>4, <2>1, <2>2 DEF Vaults
<1>6. \A u \in Player : /\ w.chips[u] = v.chips[u] + paid[u]
                        /\ w.land[u] = v.land[u] - paid[u]
  BY <1>3, Names DEF At
<1>7. \A h \in Holder \ Player : w.chips[h] = v.chips[h]
  BY <1>1, <1>3 DEF At
<1>8. Backing(w) = Backing(v)
  <2> DEFINE a == [h \in Holder |-> At(paid, h)]
  <2>1. \A h \in Holder : /\ v.chips[h] \in Int /\ a[h] \in Int
                          /\ w.chips[h] = v.chips[h] + a[h]
    BY <1>1, <1>2, <1>3
  <2>2. SumFunctionOnSet(a, Holder) = SumFunction(paid)
    BY <1>2
  <2> HIDE DEF a
  <2>3. SumFunctionOnSet(w.chips, Holder)
          = SumFunctionOnSet(v.chips, Holder) + SumFunctionOnSet(a, Holder)
    BY <2>1, HolderFinite, SumPlus
  <2>4. Outstanding(w) = Outstanding(v) + SumFunction(paid)
    BY <1>5, <2>2, <2>3, VaultSums
  <2>5. Outstanding(v) \in Int
    BY VaultSums
  <2> QED
    BY <1>1, <1>2, <1>3, <2>4, <2>5 DEF Backing
<1>9. Excess(w) = Excess(v)
  <2>1. \A h \in Session \union {Quarantine} : w.chips[h] = v.chips[h]
    BY <1>7, Names
  <2>2. Parked(w) = Parked(v)
    BY <2>1, HolderFinite, SumEqual DEF Parked
  <2>3. AllStaked(w) = AllStaked(v)
    BY <1>3 DEF AllStaked, Staked
  <2> QED
    BY <2>2, <2>3 DEF Excess
<1>10. \A u \in Player : Worth(w, u) = Worth(v, u)
  <2> SUFFICES ASSUME NEW u \in Player PROVE Worth(w, u) = Worth(v, u)
    OBVIOUS
  <2>1. RowsOf(w, u) = RowsOf(v, u)
    BY <1>3 DEF RowsOf
  <2>2. Holdings(w, u) = Holdings(v, u)
    BY <1>1, <1>6, Names DEF Holdings
  <2> QED
    BY <2>1, <2>2 DEF Worth
<1> QED
  BY <1>3, <1>5, <1>6, <1>7, <1>8, <1>9, <1>10

\* Pay touches chips only, and loses none.
LEMMA PayFacts ==
  ASSUME NEW v \in Vaults, NEW from \in Holder,
         NEW D, D \subseteq Holder, from \notin D, NEW pay \in [D -> Int],
         NEW w, w = Pay(v, from, pay)
  PROVE  /\ w \in Vaults
         /\ w.book = v.book /\ w.land = v.land /\ w.pool = v.pool
         /\ w.chips[from] = v.chips[from] - SumFunction(pay)
         /\ \A h \in D : w.chips[h] = v.chips[h] + pay[h]
         /\ \A h \in Holder \ (D \union {from}) : w.chips[h] = v.chips[h]
         /\ Backing(w) = Backing(v)
         /\ SumFunction(pay) \in Int
<1>1. /\ \A h \in Holder : v.chips[h] \in Int
      /\ v.pool \in Int
  BY VaultFacts
<1>2. /\ SumFunction(pay) \in Int
      /\ \A h \in Holder : At(pay, h) \in Int
      /\ SumFunctionOnSet([h \in Holder |-> At(pay, h)], Holder) = SumFunction(pay)
  BY AtSum
<1>3. /\ w.chips = [h \in Holder |-> IF h = from
                                     THEN v.chips[h] - SumFunction(pay)
                                     ELSE v.chips[h] + At(pay, h)]
      /\ w.book = v.book /\ w.land = v.land /\ w.pool = v.pool
  BY DEF Pay, Vaults
<1>4. w = [chips |-> w.chips, land |-> w.land, pool |-> w.pool, book |-> w.book]
  BY DEF Pay, Vaults
<1>5. w \in Vaults
  <2>1. w.chips \in [Holder -> Int]
    BY <1>1, <1>2, <1>3
  <2>2. /\ w.book \in [Session -> [Player -> Nat]]
        /\ w.land \in [Player -> Int] /\ w.pool \in Int
    BY <1>3 DEF Vaults
  <2> QED
    BY <1>4, <2>1, <2>2 DEF Vaults
<1>6. w.chips[from] = v.chips[from] - SumFunction(pay)
  BY <1>3
<1>7. \A h \in D : w.chips[h] = v.chips[h] + pay[h]
  BY <1>3 DEF At
<1>8. \A h \in Holder \ (D \union {from}) : w.chips[h] = v.chips[h]
  BY <1>1, <1>3 DEF At
<1>9. Backing(w) = Backing(v)
  <2> DEFINE a == [h \in Holder |-> At(pay, h)]
             b == [h \in Holder |-> v.chips[h] + a[h]]
  <2>1. \A h \in Holder : /\ v.chips[h] \in Int /\ a[h] \in Int
                          /\ b[h] = v.chips[h] + a[h]
    BY <1>1, <1>2
  <2>2. SumFunctionOnSet(a, Holder) = SumFunction(pay) /\ a[from] = 0
    BY <1>2 DEF At
  <2>3. \A h \in Holder \ {from} : w.chips[h] = b[h]
    BY <1>3
  <2> HIDE DEF a, b
  <2>4. SumFunctionOnSet(b, Holder)
          = SumFunctionOnSet(v.chips, Holder) + SumFunctionOnSet(a, Holder)
    BY <2>1, HolderFinite, SumPlus
  <2>5. \A h \in Holder : b[h] \in Int /\ w.chips[h] \in Int
    BY <1>5, <2>1, VaultFacts
  <2>6. SumFunctionOnSet(w.chips, Holder)
          = SumFunctionOnSet(b, Holder) - b[from] + w.chips[from]
    BY <2>3, <2>5, HolderFinite, SumUpdate
  <2>7. Outstanding(v) \in Int /\ b[from] = v.chips[from]
    BY <2>1, <2>2, VaultSums
  <2>8. Outstanding(w) = Outstanding(v)
    <3>1. /\ Outstanding(w) = SumFunctionOnSet(w.chips, Holder)
          /\ Outstanding(v) = SumFunctionOnSet(v.chips, Holder)
      BY <1>5, VaultSums
    <3>2. v.chips[from] \in Int
      BY <1>1
    <3> QED
      BY <1>2, <1>6, <2>2, <2>4, <2>6, <2>7, <3>1, <3>2
  <2> QED
    BY <1>3, <2>8 DEF Backing
<1> QED
  BY <1>2, <1>3, <1>5, <1>6, <1>7, <1>8, <1>9

\* Payments among players, house and jackpot.
LEMMA PayAround ==
  ASSUME NEW v \in Vaults, NEW from \in Player \union {House, Jackpot},
         NEW D, D \subseteq Player \union {House, Jackpot}, from \notin D,
         NEW pay \in [D -> Int], NEW w, w = Pay(v, from, pay)
  PROVE  Excess(w) = Excess(v)
<1>1. /\ w.book = v.book
      /\ \A h \in Holder \ (D \union {from}) : w.chips[h] = v.chips[h]
  <2>1. from \in Holder /\ D \subseteq Holder
    BY Names
  <2> QED
    BY <2>1, PayFacts
<1>2. \A h \in Session \union {Quarantine} : w.chips[h] = v.chips[h]
  BY <1>1, Names
<1>3. Parked(w) = Parked(v)
  BY <1>2, HolderFinite, SumEqual DEF Parked
<1>4. AllStaked(w) = AllStaked(v)
  BY <1>1 DEF AllStaked, Staked
<1> QED
  BY <1>3, <1>4 DEF Excess

\* What a payment does to a player.
LEMMA PayWorth ==
  ASSUME NEW v \in Vaults, NEW from \in Holder,
         NEW D, D \subseteq Holder, from \notin D, NEW pay \in [D -> Int],
         NEW w, w = Pay(v, from, pay), NEW u \in Player
  PROVE  Worth(w, u) = Worth(v, u) + IF u = from THEN -SumFunction(pay)
                                     ELSE At(pay, u)
<1>1. /\ w.book = v.book /\ w.land = v.land
      /\ w.chips[from] = v.chips[from] - SumFunction(pay)
      /\ \A h \in D : w.chips[h] = v.chips[h] + pay[h]
      /\ \A h \in Holder \ (D \union {from}) : w.chips[h] = v.chips[h]
      /\ SumFunction(pay) \in Int
  BY PayFacts
<1>2. u \in Holder /\ v.chips[u] \in Int /\ v.land[u] \in Int
  BY Names, VaultFacts
<1>3. RowsOf(w, u) = RowsOf(v, u)
  BY <1>1 DEF RowsOf
<1>4. RowsOf(v, u) \in Nat
  BY VaultSums
<1>5. At(pay, u) \in Int
  BY <1>2, AtSum
<1>6. w.chips[u] = v.chips[u] + IF u = from THEN -SumFunction(pay) ELSE At(pay, u)
  <2>1. CASE u = from
    BY <1>1, <1>2, <2>1
  <2>2. CASE u \in D
    BY <1>1, <2>2 DEF At
  <2>3. CASE u \notin D \union {from}
    BY <1>1, <1>2, <2>3 DEF At
  <2> QED
    BY <2>1, <2>2, <2>3
<1> QED
  BY <1>1, <1>2, <1>3, <1>4, <1>5, <1>6 DEF Worth, Holdings

\* What Transfer does.
Moved(v, from, to, n, w) ==
  /\ w \in Vaults
  /\ w.book = v.book /\ w.land = v.land /\ w.pool = v.pool
  /\ w.chips[from] = v.chips[from] - n
  /\ w.chips[to] = v.chips[to] + n
  /\ \A h \in Holder \ {from, to} : w.chips[h] = v.chips[h]
  /\ Backing(w) = Backing(v)
  /\ {from, to} \subseteq Player \union {House, Jackpot} => Excess(w) = Excess(v)
  /\ {from, to} \subseteq Session \union {Quarantine} => Excess(w) = Excess(v)
  /\ \A u \in Player :
       Worth(w, u) = Worth(v, u) + CASE u = from -> -n
                                     [] u = to   -> n
                                     [] OTHER    -> 0

LEMMA TransferFacts ==
  ASSUME NEW v \in Vaults, NEW from \in Holder, NEW to \in Holder, from # to,
         NEW n \in Int
  PROVE  Moved(v, from, to, n, Transfer(v, from, to, n))
<1> DEFINE w == Transfer(v, from, to, n)
<1> SUFFICES Moved(v, from, to, n, w)
  OBVIOUS
<1> DEFINE pay == [h \in {to} |-> n]
<1>1. pay \in [{to} -> Int] /\ w = Pay(v, from, pay)
  BY DEF Transfer
<1> HIDE DEF w
<1>2. pay[to] = n /\ SumFunction(pay) = n
  <2>1. SumFunctionOnSet(pay, {to}) = pay[to]
    BY FS_Singleton, SumSingle
  <2> QED
    BY <2>1 DEF SumFunction
<1>3. \A h \in Holder : At(pay, h) = IF h = to THEN n ELSE 0
  BY DEF At
<1> HIDE DEF pay
<1>4. /\ w \in Vaults
      /\ w.book = v.book /\ w.land = v.land /\ w.pool = v.pool
      /\ w.chips[from] = v.chips[from] - n
      /\ w.chips[to] = v.chips[to] + n
      /\ \A h \in Holder \ {from, to} : w.chips[h] = v.chips[h]
      /\ Backing(w) = Backing(v)
  <2>1. {to} \subseteq Holder /\ from \notin {to}
    OBVIOUS
  <2> QED
    BY <1>1, <1>2, <2>1, PayFacts
<1>5. ASSUME {from, to} \subseteq Player \union {House, Jackpot}
      PROVE  Excess(w) = Excess(v)
  BY <1>1, <1>5, PayAround
<1>6. ASSUME {from, to} \subseteq Session \union {Quarantine}
      PROVE  Excess(w) = Excess(v)
  <2> DEFINE S == Session \union {Quarantine}
             b == [h \in S |-> IF h = from THEN v.chips[h] - n ELSE v.chips[h]]
  <2>1. S \subseteq Holder /\ IsFiniteSet(S)
    BY Names, HolderFinite
  <2>2. \A h \in S : v.chips[h] \in Int /\ w.chips[h] \in Int /\ b[h] \in Int
    BY <1>4, <2>1, VaultFacts
  <2>3. \A h \in S \ {from} : b[h] = v.chips[h]
    OBVIOUS
  <2>4. \A h \in S \ {to} : w.chips[h] = b[h]
    BY <1>4, <2>1
  <2>5. b[from] = v.chips[from] - n /\ b[to] = v.chips[to]
    BY <1>6
  <2>6. from \in S /\ to \in S
    BY <1>6
  <2> HIDE DEF b, S
  <2>7. SumFunctionOnSet(b, S) = SumFunctionOnSet(v.chips, S) - v.chips[from] + b[from]
    BY <2>1, <2>2, <2>3, <2>6, SumUpdate
  <2>8. SumFunctionOnSet(w.chips, S) = SumFunctionOnSet(b, S) - b[to] + w.chips[to]
    BY <2>1, <2>2, <2>4, <2>6, SumUpdate
  <2>9. Parked(v) \in Int /\ Parked(v) = SumFunctionOnSet(v.chips, S)
        /\ Parked(w) = SumFunctionOnSet(w.chips, S)
    BY VaultSums DEF Parked, S
  <2>10. v.chips[from] \in Int /\ v.chips[to] \in Int
    BY <2>2, <2>6
  <2>11. Parked(w) = Parked(v)
    BY <1>4, <2>5, <2>7, <2>8, <2>9, <2>10
  <2>12. AllStaked(w) = AllStaked(v)
    BY <1>4 DEF AllStaked, Staked
  <2> QED
    BY <2>11, <2>12 DEF Excess
<1>7. ASSUME NEW u \in Player
      PROVE  Worth(w, u) = Worth(v, u) + CASE u = from -> -n
                                           [] u = to   -> n
                                           [] OTHER    -> 0
  <2> DEFINE D == {to}
  <2>1. D \subseteq Holder /\ from \notin D /\ u \in Holder
    BY Names
  <2>2. Worth(w, u) = Worth(v, u) + IF u = from THEN -SumFunction(pay)
                                    ELSE At(pay, u)
    <3>1. pay \in [D -> Int]
      BY <1>1
    <3> HIDE DEF D
    <3> QED
      BY <1>1, <2>1, <3>1, PayWorth
  <2> QED
    BY <1>2, <1>3, <2>1, <2>2
<1> QED
  BY <1>4, <1>5, <1>6, <1>7 DEF Moved

\* The rows of one session change, and nothing else.
WithRows(v, s, row) == [v EXCEPT !.book[s] = row]

LEMMA RowsChange ==
  ASSUME NEW v \in Vaults, NEW s \in Session, NEW row \in [Player -> Nat],
         NEW w, w = WithRows(v, s, row)
  PROVE  /\ w \in Vaults
         /\ w.chips = v.chips /\ w.land = v.land /\ w.pool = v.pool
         /\ w.book[s] = row
         /\ \A x \in Session \ {s} : w.book[x] = v.book[x]
         /\ \A x \in Session \ {s} : Staked(w, x) = Staked(v, x)
         /\ Staked(w, s) = SumFunction(row)
         /\ AllStaked(w) = AllStaked(v) - Staked(v, s) + SumFunction(row)
         /\ \A u \in Player : RowsOf(w, u) = RowsOf(v, u) - v.book[s][u] + row[u]
         /\ Backing(w) = Backing(v)
         /\ Parked(w) = Parked(v)
<1>1. /\ w \in Vaults
      /\ w.chips = v.chips /\ w.land = v.land /\ w.pool = v.pool
      /\ w.book = [v.book EXCEPT ![s] = row]
  <2>1. w = [v EXCEPT !.book = [v.book EXCEPT ![s] = row]]
    BY DEF WithRows, Vaults
  <2>2. [v.book EXCEPT ![s] = row] \in [Session -> [Player -> Nat]]
    BY DEF Vaults
  <2> QED
    BY <2>1, <2>2 DEF Vaults
<1>2. w.book[s] = row /\ \A x \in Session \ {s} : w.book[x] = v.book[x]
  BY <1>1, VaultFacts DEF Vaults
<1>3. /\ \A x \in Session \ {s} : Staked(w, x) = Staked(v, x)
      /\ Staked(w, s) = SumFunction(row)
  BY <1>2 DEF Staked
<1>4. AllStaked(w) = AllStaked(v) - Staked(v, s) + SumFunction(row)
  <2> DEFINE f == [x \in Session |-> Staked(v, x)]
             g == [x \in Session |-> Staked(w, x)]
  <2>1. \A x \in Session : f[x] \in Int /\ g[x] \in Int
    BY <1>1, VaultSums
  <2>2. \A x \in Session \ {s} : g[x] = f[x]
    BY <1>3
  <2>3. /\ AllStaked(v) = SumFunctionOnSet(f, Session)
        /\ AllStaked(w) = SumFunctionOnSet(g, Session)
    BY DEF AllStaked, SumFunction
  <2>4. f[s] = Staked(v, s) /\ g[s] = SumFunction(row)
    BY <1>3
  <2> HIDE DEF f, g
  <2> QED
    BY <2>1, <2>2, <2>3, <2>4, HolderFinite, SumUpdate
<1>5. ASSUME NEW u \in Player
      PROVE  RowsOf(w, u) = RowsOf(v, u) - v.book[s][u] + row[u]
  <2> DEFINE f == [x \in Session |-> v.book[x][u]]
             g == [x \in Session |-> w.book[x][u]]
  <2>1. \A x \in Session : f[x] \in Int /\ g[x] \in Int
    BY <1>1, VaultFacts
  <2>2. \A x \in Session \ {s} : g[x] = f[x]
    BY <1>2
  <2>3. /\ RowsOf(v, u) = SumFunctionOnSet(f, Session)
        /\ RowsOf(w, u) = SumFunctionOnSet(g, Session)
    BY DEF RowsOf, SumFunction
  <2>4. f[s] = v.book[s][u] /\ g[s] = row[u]
    BY <1>2
  <2> HIDE DEF f, g
  <2> QED
    BY <2>1, <2>2, <2>3, <2>4, HolderFinite, SumUpdate
<1>6. Backing(w) = Backing(v) /\ Parked(w) = Parked(v)
  BY <1>1 DEF Backing, Parked, Outstanding
<1> QED
  BY <1>1, <1>2, <1>3, <1>4, <1>5, <1>6

\* A payment by a session to players and the jackpot leaves fewer chips parked.
LEMMA PayParked ==
  ASSUME NEW v \in Vaults, NEW s \in Session,
         NEW D, D \subseteq Player \union {Jackpot}, NEW pay \in [D -> Int],
         NEW w, w = Pay(v, s, pay)
  PROVE  Parked(w) = Parked(v) - SumFunction(pay)
<1> DEFINE S == Session \union {Quarantine}
<1>1. S \subseteq Holder /\ IsFiniteSet(S) /\ s \in S /\ s \in Holder
  BY Names, HolderFinite
<1>2. D \subseteq Holder /\ s \notin D
  BY Names
<1>3. /\ w \in Vaults
      /\ w.chips[s] = v.chips[s] - SumFunction(pay)
      /\ \A h \in Holder \ (D \union {s}) : w.chips[h] = v.chips[h]
      /\ SumFunction(pay) \in Int
  BY <1>1, <1>2, PayFacts
<1>4. \A h \in S \ {s} : w.chips[h] = v.chips[h]
  BY <1>1, <1>3, Names
<1>5. \A h \in S : v.chips[h] \in Int /\ w.chips[h] \in Int
  BY <1>1, <1>3, VaultFacts
<1> HIDE DEF S
<1>6. SumFunctionOnSet(w.chips, S) = SumFunctionOnSet(v.chips, S) - v.chips[s] + w.chips[s]
  BY <1>1, <1>4, <1>5, SumUpdate
<1>7. SumFunctionOnSet(v.chips, S) \in Int /\ v.chips[s] \in Int
  BY <1>1, <1>5, SumInt
<1> QED
  BY <1>3, <1>6, <1>7 DEF Parked, S

\* Collect moves chips together with their rows.
LEMMA CollectFacts ==
  ASSUME NEW v \in Vaults, NEW s \in Session, NEW stake \in [Player -> Int],
         \A u \in Player : v.book[s][u] + stake[u] >= 0,
         NEW w, w = Collect(v, s, stake)
  PROVE  /\ w \in Vaults
         /\ w.land = v.land /\ w.pool = v.pool
         /\ w.chips[s] = v.chips[s] + SumFunction(stake)
         /\ \A u \in Player : w.chips[u] = v.chips[u] - stake[u]
         /\ \A h \in Holder \ (Player \union {s}) : w.chips[h] = v.chips[h]
         /\ \A u \in Player : w.book[s][u] = v.book[s][u] + stake[u]
         /\ \A x \in Session \ {s} : w.book[x] = v.book[x]
         /\ \A x \in Session \ {s} : Staked(w, x) = Staked(v, x)
         /\ Staked(w, s) = Staked(v, s) + SumFunction(stake)
         /\ SumFunction(stake) \in Int
         /\ Backing(w) = Backing(v)
         /\ Excess(w) = Excess(v)
         /\ \A u \in Player : Worth(w, u) = Worth(v, u)
<1> DEFINE neg == [u \in Player |-> -stake[u]]
           row == [u \in Player |-> v.book[s][u] + stake[u]]
           z   == Pay(v, s, neg)
<1>1. \A u \in Player : v.book[s][u] \in Nat /\ stake[u] \in Int
  BY VaultFacts
<1>2. row \in [Player -> Nat] /\ neg \in [Player -> Int]
  BY <1>1
<1>3. \A u \in Player : neg[u] = -stake[u] /\ row[u] = v.book[s][u] + stake[u]
  OBVIOUS
<1>4. SumFunction(stake) \in Int /\ SumFunction(neg) = -SumFunction(stake)
  <2>1. /\ SumFunction(stake) = SumFunctionOnSet(stake, Player)
        /\ SumFunction(neg) = SumFunctionOnSet(neg, Player)
    BY <1>2 DEF SumFunction
  <2> HIDE DEF neg
  <2> QED
    BY <1>1, <1>3, <2>1, HolderFinite, SumMinus, SumInt
<1>5. SumFunction(row) = Staked(v, s) + SumFunction(stake)
  <2>1. /\ SumFunction(stake) = SumFunctionOnSet(stake, Player)
        /\ SumFunction(row) = SumFunctionOnSet(row, Player)
        /\ Staked(v, s) = SumFunctionOnSet(v.book[s], Player)
    BY VaultFacts DEF SumFunction, Staked
  <2> HIDE DEF row
  <2> QED
    BY <1>1, <1>3, <2>1, HolderFinite, SumPlus
<1>6. w = WithRows(z, s, row)
  <2>1. \A h \in Holder : (IF h = s THEN v.chips[h] + SumFunction(stake)
                                    ELSE v.chips[h] - At(stake, h))
                        = (IF h = s THEN v.chips[h] - SumFunction(neg)
                                    ELSE v.chips[h] + At(neg, h))
    <3> SUFFICES ASSUME NEW h \in Holder
                 PROVE  (IF h = s THEN v.chips[h] + SumFunction(stake)
                                    ELSE v.chips[h] - At(stake, h))
                        = (IF h = s THEN v.chips[h] - SumFunction(neg)
                                    ELSE v.chips[h] + At(neg, h))
      OBVIOUS
    <3>1. v.chips[h] \in Int
      BY VaultFacts
    <3>2. At(stake, h) \in Int /\ At(neg, h) = -At(stake, h)
      BY <1>1 DEF At
    <3> HIDE DEF neg
    <3> QED
      BY <1>4, <3>1, <3>2
  <2> DEFINE c1 == [h \in Holder |-> IF h = s THEN v.chips[h] + SumFunction(stake)
                                     ELSE v.chips[h] - At(stake, h)]
             c2 == [h \in Holder |-> IF h = s THEN v.chips[h] - SumFunction(neg)
                                     ELSE v.chips[h] + At(neg, h)]
  <2>2. c1 = c2
    BY <2>1
  <2>3. z = [v EXCEPT !.chips = c2]
    BY DEF Pay
  <2>4. w = [v EXCEPT !.chips = c1, !.book[s] = row]
    BY DEF Collect
  <2> HIDE DEF c1, c2, row, z, neg
  <2> QED
    BY <2>2, <2>3, <2>4 DEF WithRows, Vaults
<1>7. Player \subseteq Holder /\ s \in Holder /\ s \notin Player
  BY Names
<1> HIDE DEF row, neg
<1>8. /\ z \in Vaults
      /\ z.book = v.book /\ z.land = v.land /\ z.pool = v.pool
      /\ z.chips[s] = v.chips[s] + SumFunction(stake)
      /\ \A u \in Player : z.chips[u] = v.chips[u] - stake[u]
      /\ \A h \in Holder \ (Player \union {s}) : z.chips[h] = v.chips[h]
      /\ Backing(z) = Backing(v)
  <2>1. /\ z \in Vaults
        /\ z.book = v.book /\ z.land = v.land /\ z.pool = v.pool
        /\ z.chips[s] = v.chips[s] - SumFunction(neg)
        /\ \A u \in Player : z.chips[u] = v.chips[u] + neg[u]
        /\ \A h \in Holder \ (Player \union {s}) : z.chips[h] = v.chips[h]
        /\ Backing(z) = Backing(v)
    BY <1>2, <1>7, PayFacts
  <2>2. v.chips[s] \in Int /\ \A u \in Player : v.chips[u] \in Int
    BY <1>7, VaultFacts
  <2> HIDE DEF z
  <2> QED
    BY <1>1, <1>3, <1>4, <2>1, <2>2
<1>9. Parked(z) = Parked(v) + SumFunction(stake)
  <2>1. Parked(z) = Parked(v) - SumFunction(neg)
    BY <1>2, PayParked
  <2>2. Parked(v) \in Int
    BY VaultSums
  <2> HIDE DEF z
  <2> QED
    BY <1>4, <2>1, <2>2
<1>10. \A u \in Player : Worth(z, u) = Worth(v, u) - stake[u]
  <2> SUFFICES ASSUME NEW u \in Player PROVE Worth(z, u) = Worth(v, u) - stake[u]
    OBVIOUS
  <2>1. Worth(z, u) = Worth(v, u) + IF u = s THEN -SumFunction(neg) ELSE At(neg, u)
    BY <1>2, <1>7, PayWorth
  <2>2. At(neg, u) = -stake[u]
    BY <1>2, <1>3 DEF At
  <2>3. Worth(v, u) \in Int
    BY VaultSums
  <2> HIDE DEF z
  <2> QED
    BY <1>1, <1>7, <2>1, <2>2, <2>3
<1> HIDE DEF z
<1>11. /\ w \in Vaults
       /\ w.chips = z.chips /\ w.land = z.land /\ w.pool = z.pool
       /\ w.book[s] = row
       /\ \A x \in Session \ {s} : w.book[x] = z.book[x]
       /\ \A x \in Session \ {s} : Staked(w, x) = Staked(z, x)
       /\ Staked(w, s) = SumFunction(row)
       /\ AllStaked(w) = AllStaked(z) - Staked(z, s) + SumFunction(row)
       /\ \A u \in Player : RowsOf(w, u) = RowsOf(z, u) - z.book[s][u] + row[u]
       /\ Backing(w) = Backing(z)
       /\ Parked(w) = Parked(z)
  BY <1>2, <1>6, <1>8, RowsChange
<1>12. Excess(w) = Excess(v)
  <2>1. AllStaked(z) = AllStaked(v) /\ Staked(z, s) = Staked(v, s)
    BY <1>8 DEF AllStaked, Staked
  <2>2. /\ AllStaked(v) \in Int /\ Staked(v, s) \in Int /\ Parked(v) \in Int
    BY VaultSums
  <2>3. AllStaked(w) = AllStaked(v) + SumFunction(stake)
    BY <1>4, <1>5, <1>11, <2>1, <2>2
  <2>4. Parked(w) = Parked(v) + SumFunction(stake)
    BY <1>9, <1>11
  <2> QED
    BY <1>4, <2>2, <2>3, <2>4 DEF Excess
<1>13. \A u \in Player : Worth(w, u) = Worth(v, u)
  <2> SUFFICES ASSUME NEW u \in Player PROVE Worth(w, u) = Worth(v, u)
    OBVIOUS
  <2>1. Holdings(w, u) = Holdings(z, u)
    BY <1>11 DEF Holdings
  <2>2. RowsOf(w, u) = RowsOf(z, u) + stake[u]
    <3>1. RowsOf(w, u) = RowsOf(z, u) - z.book[s][u] + row[u]
      BY <1>11
    <3>2. z.book[s][u] = v.book[s][u] /\ row[u] = v.book[s][u] + stake[u]
      BY <1>3, <1>8
    <3>3. RowsOf(z, u) \in Int
      BY <1>8, VaultSums
    <3> QED
      BY <1>1, <3>1, <3>2, <3>3
  <2>3. Worth(z, u) = Worth(v, u) - stake[u]
    BY <1>10
  <2>4. Worth(v, u) \in Int /\ RowsOf(z, u) \in Int /\ Worth(z, u) \in Int
    BY <1>8, VaultSums
  <2>5. Holdings(z, u) \in Int
    BY <1>7, <1>8, VaultFacts DEF Holdings
  <2> QED
    BY <1>1, <2>1, <2>2, <2>3, <2>4, <2>5 DEF Worth
<1>14. Staked(w, s) = Staked(v, s) + SumFunction(stake)
  BY <1>5, <1>11
<1>15. \A x \in Session \ {s} : w.book[x] = v.book[x] /\ Staked(w, x) = Staked(v, x)
  BY <1>8, <1>11 DEF Staked
<1>16. \A u \in Player : w.book[s][u] = v.book[s][u] + stake[u]
  BY <1>3, <1>11
<1> QED
  BY <1>4, <1>8, <1>11, <1>12, <1>13, <1>14, <1>15, <1>16

\* Settle pays and clears the rows; it keeps the books when it pays what the
\* rows say.
\* The vault w after Escrow.settle; D are those who are paid.
SettledBy(v, s, D, pay, w) ==
  /\ w \in Vaults
  /\ w.land = v.land /\ w.pool = v.pool
  /\ w.chips[s] = v.chips[s] - SumFunction(pay) /\ Staked(w, s) = 0
  /\ \A h \in D : w.chips[h] = v.chips[h] + pay[h]
  /\ \A h \in Holder \ (D \union {s}) : w.chips[h] = v.chips[h]
  /\ \A u \in Player : w.book[s][u] = 0
  /\ \A x \in Session \ {s} : w.book[x] = v.book[x]
  /\ \A x \in Session \ {s} : Staked(w, x) = Staked(v, x)
  /\ Backing(w) = Backing(v)
  /\ SumFunction(pay) \in Int
  /\ Excess(w) = Excess(v) - SumFunction(pay) + Staked(v, s)
  /\ \A u \in Player : Worth(w, u) = Worth(v, u) + NetOf(v, s, pay, u)

LEMMA SettleFacts ==
  ASSUME NEW v \in Vaults, NEW s \in Session,
         NEW D, D \subseteq Player \union {Jackpot}, NEW pay \in [D -> Int]
  PROVE  SettledBy(v, s, D, pay, Settle(v, s, pay))
<1> DEFINE row == [u \in Player |-> 0]
           z   == Pay(v, s, pay)
           w   == Settle(v, s, pay)
<1>1. s \in Holder /\ D \subseteq Holder /\ s \notin D /\ Player \subseteq Holder
      /\ s \notin Player
  BY Names
<1>2. /\ z \in Vaults
      /\ z.book = v.book /\ z.land = v.land /\ z.pool = v.pool
      /\ z.chips[s] = v.chips[s] - SumFunction(pay)
      /\ \A h \in D : z.chips[h] = v.chips[h] + pay[h]
      /\ \A h \in Holder \ (D \union {s}) : z.chips[h] = v.chips[h]
      /\ Backing(z) = Backing(v)
      /\ SumFunction(pay) \in Int
  BY <1>1, PayFacts
<1>3. Parked(z) = Parked(v) - SumFunction(pay)
  BY PayParked
<1>4. \A u \in Player : Worth(z, u) = Worth(v, u) + At(pay, u)
  <2> SUFFICES ASSUME NEW u \in Player PROVE Worth(z, u) = Worth(v, u) + At(pay, u)
    OBVIOUS
  <2>1. Worth(z, u) = Worth(v, u) + IF u = s THEN -SumFunction(pay) ELSE At(pay, u)
    BY <1>1, PayWorth
  <2> HIDE DEF z
  <2> QED
    BY <1>1, <2>1
<1>5. row \in [Player -> Nat] /\ SumFunction(row) = 0
  BY HolderFinite, SumZero DEF SumFunction
<1>6. w = WithRows(z, s, row)
  BY DEF Settle, WithRows
<1> HIDE DEF row, z, w
<1>7. /\ w \in Vaults
      /\ w.chips = z.chips /\ w.land = z.land /\ w.pool = z.pool
      /\ w.book[s] = row
      /\ \A x \in Session \ {s} : w.book[x] = z.book[x]
      /\ \A x \in Session \ {s} : Staked(w, x) = Staked(z, x)
      /\ Staked(w, s) = SumFunction(row)
      /\ AllStaked(w) = AllStaked(z) - Staked(z, s) + SumFunction(row)
      /\ \A u \in Player : RowsOf(w, u) = RowsOf(z, u) - z.book[s][u] + row[u]
      /\ Backing(w) = Backing(z)
      /\ Parked(w) = Parked(z)
  BY <1>2, <1>5, <1>6, RowsChange
<1>8. v.chips[s] \in Int /\ Staked(v, s) \in Int
  BY <1>1, VaultFacts, VaultSums
<1>9. Excess(w) = Excess(v) - SumFunction(pay) + Staked(v, s)
  <2>1. AllStaked(z) = AllStaked(v) /\ Staked(z, s) = Staked(v, s)
    BY <1>2 DEF AllStaked, Staked
  <2>2. /\ AllStaked(v) \in Int /\ Parked(v) \in Int
    BY VaultSums
  <2> QED
    BY <1>2, <1>3, <1>5, <1>7, <1>8, <2>1, <2>2 DEF Excess
<1>10. \A u \in Player : Worth(w, u) = Worth(v, u) + NetOf(v, s, pay, u)
  <2> SUFFICES ASSUME NEW u \in Player
               PROVE  Worth(w, u) = Worth(v, u) + NetOf(v, s, pay, u)
    OBVIOUS
  <2>1. Holdings(w, u) = Holdings(z, u) /\ Holdings(z, u) \in Int
    BY <1>1, <1>2, <1>7, VaultFacts DEF Holdings
  <2>2. RowsOf(w, u) = RowsOf(z, u) - v.book[s][u]
    <3>1. row[u] = 0
      BY DEF row
    <3>2. RowsOf(z, u) \in Int /\ v.book[s][u] \in Int
      BY <1>2, VaultSums, VaultFacts
    <3> QED
      BY <1>2, <1>7, <3>1, <3>2
  <2>3. RowsOf(z, u) \in Int /\ v.book[s][u] \in Int /\ Worth(v, u) \in Int
    BY <1>2, VaultSums, VaultFacts
  <2>4. At(pay, u) \in Int
    BY <1>1, AtSum
  <2>5. Worth(z, u) = Worth(v, u) + At(pay, u)
    BY <1>4
  <2> QED
    BY <2>1, <2>2, <2>3, <2>4, <2>5 DEF Worth, NetOf
<1>11. \A x \in Session \ {s} : w.book[x] = v.book[x] /\ Staked(w, x) = Staked(v, x)
  BY <1>2, <1>7 DEF Staked
<1>12. /\ w.chips[s] = v.chips[s] - SumFunction(pay)
       /\ Staked(w, s) = 0
       /\ \A u \in Player : w.book[s][u] = 0
  BY <1>2, <1>5, <1>7, <1>8 DEF row
<1>13. SettledBy(v, s, D, pay, w)
  BY <1>2, <1>7, <1>9, <1>10, <1>11, <1>12 DEF SettledBy
<1> QED
  BY <1>13 DEF w

EachCanFund(v, us, n) == \A u \in us : CanFund(v, u, n)

\* What HoldAll does: players fund what they lack and stake n each.
HeldBy(v, s, us, n, w) ==
  /\ w \in Vaults
  /\ \A u \in us : w.book[s][u] = v.book[s][u] + n
  /\ \A u \in Player \ us : w.book[s][u] = v.book[s][u]
  /\ \A x \in Session \ {s} : w.book[x] = v.book[x]
  /\ \A x \in Session \ {s} : Staked(w, x) = Staked(v, x)
  /\ \A h \in Holder \ (Player \union {s}) : w.chips[h] = v.chips[h]
  /\ w.chips[s] - Staked(w, s) = v.chips[s] - Staked(v, s)
  /\ \A u \in Player : v.chips[u] >= 0 /\ v.land[u] >= 0
                         => w.chips[u] >= 0 /\ w.land[u] >= 0
  /\ Backing(w) = Backing(v)
  /\ Excess(w) = Excess(v)
  /\ \A u \in Player : Worth(w, u) = Worth(v, u)

LEMMA HoldAllFacts ==
  ASSUME NEW v \in Vaults, NEW s \in Session, NEW us \in SUBSET Player,
         NEW n \in Nat, EachCanFund(v, us, n)
  PROVE  HeldBy(v, s, us, n, HoldAll(v, s, us, n))
<1> DEFINE w == HoldAll(v, s, us, n)
<1> SUFFICES HeldBy(v, s, us, n, w)
  OBVIOUS
<1> DEFINE paid  == [u \in Player |-> IF u \in us THEN Lack(v, u, n) ELSE 0]
           stake == [u \in Player |-> IF u \in us THEN n ELSE 0]
           z     == Exchange(v, paid)
<1>1. \A u \in Player : v.chips[u] \in Int /\ v.land[u] \in Int
  BY VaultFacts, Names
<1>2. paid \in [Player -> Int] /\ stake \in [Player -> Nat] /\ stake \in [Player -> Int]
  BY <1>1 DEF Lack
<1>3. /\ \A u \in us : paid[u] = Lack(v, u, n) /\ stake[u] = n
      /\ \A u \in Player \ us : paid[u] = 0 /\ stake[u] = 0
  OBVIOUS
<1>4. w = Collect(z, s, stake)
  BY DEF HoldAll
<1> HIDE DEF paid, stake, w
<1>5. /\ z \in Vaults
      /\ z.book = v.book
      /\ \A u \in Player : /\ z.chips[u] = v.chips[u] + paid[u]
                           /\ z.land[u] = v.land[u] - paid[u]
      /\ \A h \in Holder \ Player : z.chips[h] = v.chips[h]
      /\ Backing(z) = Backing(v)
      /\ Excess(z) = Excess(v)
      /\ \A u \in Player : Worth(z, u) = Worth(v, u)
  BY <1>2, ExchangeFacts
<1> HIDE DEF z
<1>6. \A u \in Player : z.book[s][u] + stake[u] >= 0
  BY <1>2, <1>5, VaultFacts
<1>7. /\ w \in Vaults
      /\ w.land = z.land
      /\ w.chips[s] = z.chips[s] + SumFunction(stake)
      /\ \A u \in Player : w.chips[u] = z.chips[u] - stake[u]
      /\ \A h \in Holder \ (Player \union {s}) : w.chips[h] = z.chips[h]
      /\ \A u \in Player : w.book[s][u] = z.book[s][u] + stake[u]
      /\ \A x \in Session \ {s} : w.book[x] = z.book[x]
      /\ \A x \in Session \ {s} : Staked(w, x) = Staked(z, x)
      /\ Staked(w, s) = Staked(z, s) + SumFunction(stake)
      /\ SumFunction(stake) \in Int
      /\ Backing(w) = Backing(z)
      /\ Excess(w) = Excess(z)
      /\ \A u \in Player : Worth(w, u) = Worth(z, u)
  BY <1>2, <1>4, <1>5, <1>6, CollectFacts
<1>8. \A u \in Player : v.chips[u] >= 0 /\ v.land[u] >= 0
                           => w.chips[u] >= 0 /\ w.land[u] >= 0
  <2> SUFFICES ASSUME NEW u \in Player, v.chips[u] >= 0, v.land[u] >= 0
               PROVE  w.chips[u] >= 0 /\ w.land[u] >= 0
    OBVIOUS
  <2>1. CASE u \notin us
    BY <1>1, <1>3, <1>5, <1>7, <2>1
  <2>2. CASE u \in us
    <3>1. v.land[u] + v.chips[u] >= n
      BY <2>2 DEF EachCanFund, CanFund, Holdings
    <3>2. /\ w.chips[u] = (v.chips[u] + Lack(v, u, n)) - n
          /\ w.land[u] = v.land[u] - Lack(v, u, n)
      BY <1>3, <1>5, <1>7, <2>2
    <3> QED
      BY <1>1, <3>1, <3>2 DEF Lack
  <2> QED
    BY <2>1, <2>2
<1>9. SumFunction(stake) \in Nat
  BY <1>2, HolderFinite, SumNat DEF SumFunction
<1>10. Staked(z, s) = Staked(v, s) /\ \A x \in Session : Staked(z, x) = Staked(v, x)
  BY <1>5 DEF Staked
<1>11. s \in Holder \ Player
  BY Names
<1>12. v.chips[s] \in Int /\ Staked(v, s) \in Int
  BY <1>11, VaultFacts, VaultSums
<1>13. w.chips[s] - Staked(w, s) = v.chips[s] - Staked(v, s)
  BY <1>5, <1>7, <1>9, <1>10, <1>11, <1>12
<1>14. /\ \A u \in us : w.book[s][u] = v.book[s][u] + n
       /\ \A u \in Player \ us : w.book[s][u] = v.book[s][u]
  <2>1. \A u \in Player : v.book[s][u] \in Nat
    BY VaultFacts
  <2> QED
    BY <1>3, <1>5, <1>7, <2>1
<1> QED
  BY <1>5, <1>7, <1>8, <1>10, <1>13, <1>14 DEF HeldBy

LEMMA HoldIsHoldAll ==
  ASSUME NEW v, NEW s, NEW u \in Player, NEW n
  PROVE  Hold(v, s, u, n) = HoldAll(v, s, {u}, n)
<1>1. [p \in Player |-> IF p \in {u} THEN Lack(v, p, n) ELSE 0]
        = [p \in Player |-> IF p = u THEN Lack(v, u, n) ELSE 0]
  OBVIOUS
<1>2. [p \in Player |-> IF p \in {u} THEN n ELSE 0]
        = [p \in Player |-> IF p = u THEN n ELSE 0]
  OBVIOUS
<1> QED
  BY <1>1, <1>2 DEF Hold, HoldAll, Fund, One

\* Every stake of a session goes back.
LEMMA RefundFacts ==
  ASSUME NEW v \in Vaults, NEW s \in Session, NEW w, w = Refund(v, s)
  PROVE  /\ w \in Vaults
         /\ w.land = v.land
         /\ \A u \in Player : w.book[s][u] = 0
         /\ \A u \in Player : w.chips[u] = v.chips[u] + v.book[s][u]
         /\ \A x \in Session \ {s} : w.book[x] = v.book[x]
         /\ \A x \in Session \ {s} : Staked(w, x) = Staked(v, x)
         /\ \A h \in Holder \ (Player \union {s}) : w.chips[h] = v.chips[h]
         /\ w.chips[s] = v.chips[s] - Staked(v, s)
         /\ Staked(w, s) = 0
         /\ Backing(w) = Backing(v)
         /\ Excess(w) = Excess(v)
         /\ \A u \in Player : Worth(w, u) = Worth(v, u)
<1> DEFINE stake == [u \in Player |-> -v.book[s][u]]
<1>1. \A u \in Player : v.book[s][u] \in Nat /\ v.chips[u] \in Int
  BY VaultFacts, Names
<1>2. \A u \in Player : stake[u] = -v.book[s][u]
  OBVIOUS
<1>3. stake \in [Player -> Int]
  BY <1>1
<1>4. w = Collect(v, s, stake)
  BY DEF Refund
<1> HIDE DEF stake
<1>5. SumFunction(stake) = -Staked(v, s)
  <2>1. /\ SumFunction(stake) = SumFunctionOnSet(stake, Player)
        /\ Staked(v, s) = SumFunctionOnSet(v.book[s], Player)
    BY <1>3, VaultSums DEF SumFunction
  <2>2. \A u \in Player : v.book[s][u] \in Int /\ stake[u] = -v.book[s][u]
    BY <1>1, <1>2
  <2> QED
    BY <2>1, <2>2, HolderFinite, SumMinus
<1>6. \A u \in Player : v.book[s][u] + stake[u] >= 0
  BY <1>1, <1>2
<1>7. /\ w \in Vaults
      /\ w.land = v.land
      /\ w.chips[s] = v.chips[s] + SumFunction(stake)
      /\ \A u \in Player : w.chips[u] = v.chips[u] - stake[u]
      /\ \A h \in Holder \ (Player \union {s}) : w.chips[h] = v.chips[h]
      /\ \A u \in Player : w.book[s][u] = v.book[s][u] + stake[u]
      /\ \A x \in Session \ {s} : w.book[x] = v.book[x]
      /\ \A x \in Session \ {s} : Staked(w, x) = Staked(v, x)
      /\ Staked(w, s) = Staked(v, s) + SumFunction(stake)
      /\ Backing(w) = Backing(v)
      /\ Excess(w) = Excess(v)
      /\ \A u \in Player : Worth(w, u) = Worth(v, u)
  BY <1>3, <1>4, <1>6, CollectFacts
<1>8. v.chips[s] \in Int /\ Staked(v, s) \in Int
  BY Names, VaultFacts, VaultSums
<1>9. w.chips[s] = v.chips[s] - Staked(v, s) /\ Staked(w, s) = 0
  BY <1>5, <1>7, <1>8
<1>10. \A u \in Player : w.book[s][u] = 0 /\ w.chips[u] = v.chips[u] + v.book[s][u]
  BY <1>1, <1>2, <1>7
<1> QED
  BY <1>7, <1>9, <1>10

\* The stake of one player goes back.
LEMMA RefundOneFacts ==
  ASSUME NEW v \in Vaults, NEW s \in Session, NEW u \in Player,
         NEW w, w = RefundOne(v, s, u)
  PROVE  /\ w \in Vaults
         /\ w.land = v.land
         /\ w.book[s][u] = 0
         /\ \A p \in Player \ {u} : w.book[s][p] = v.book[s][p]
         /\ w.chips[u] = v.chips[u] + v.book[s][u]
         /\ \A p \in Player \ {u} : w.chips[p] = v.chips[p]
         /\ \A x \in Session \ {s} : w.book[x] = v.book[x]
         /\ \A x \in Session \ {s} : Staked(w, x) = Staked(v, x)
         /\ \A h \in Holder \ (Player \union {s}) : w.chips[h] = v.chips[h]
         /\ w.chips[s] - Staked(w, s) = v.chips[s] - Staked(v, s)
         /\ Staked(w, s) >= 0
         /\ Backing(w) = Backing(v)
         /\ Excess(w) = Excess(v)
         /\ \A p \in Player : Worth(w, p) = Worth(v, p)
<1> DEFINE n == -v.book[s][u]
           stake == One(u, n)
<1>1. \A p \in Player : v.book[s][p] \in Nat /\ v.chips[p] \in Int
  BY VaultFacts, Names
<1>2. n \in Int
  BY <1>1
<1>3. /\ stake \in [Player -> Int]
      /\ stake[u] = -v.book[s][u]
      /\ \A p \in Player \ {u} : stake[p] = 0
      /\ SumFunction(stake) = -v.book[s][u]
  BY <1>2, OneSum
<1>4. w = Collect(v, s, stake)
  BY DEF RefundOne
<1> HIDE DEF stake, n
<1>6. \A p \in Player : v.book[s][p] + stake[p] >= 0
  BY <1>1, <1>3
<1>7. /\ w \in Vaults
      /\ w.land = v.land
      /\ w.chips[s] = v.chips[s] + SumFunction(stake)
      /\ \A p \in Player : w.chips[p] = v.chips[p] - stake[p]
      /\ \A h \in Holder \ (Player \union {s}) : w.chips[h] = v.chips[h]
      /\ \A p \in Player : w.book[s][p] = v.book[s][p] + stake[p]
      /\ \A x \in Session \ {s} : w.book[x] = v.book[x]
      /\ \A x \in Session \ {s} : Staked(w, x) = Staked(v, x)
      /\ Staked(w, s) = Staked(v, s) + SumFunction(stake)
      /\ SumFunction(stake) \in Int
      /\ Backing(w) = Backing(v)
      /\ Excess(w) = Excess(v)
      /\ \A p \in Player : Worth(w, p) = Worth(v, p)
  BY <1>3, <1>4, <1>6, CollectFacts
<1>8. v.chips[s] \in Int /\ Staked(v, s) \in Int /\ Staked(w, s) \in Nat
  BY <1>7, Names, VaultFacts, VaultSums
<1>9. w.chips[s] - Staked(w, s) = v.chips[s] - Staked(v, s) /\ Staked(w, s) >= 0
  BY <1>7, <1>8
<1>10. w.book[s][u] = 0 /\ w.chips[u] = v.chips[u] + v.book[s][u]
  BY <1>1, <1>3, <1>7
<1>11. \A p \in Player \ {u} : w.book[s][p] = v.book[s][p] /\ w.chips[p] = v.chips[p]
  <2> SUFFICES ASSUME NEW p \in Player \ {u}
               PROVE  w.book[s][p] = v.book[s][p] /\ w.chips[p] = v.chips[p]
    OBVIOUS
  <2>1. v.book[s][p] \in Nat /\ v.chips[p] \in Int /\ stake[p] = 0
    BY <1>1, <1>3
  <2>2. w.book[s][p] = v.book[s][p] + stake[p] /\ w.chips[p] = v.chips[p] - stake[p]
    BY <1>7
  <2> QED
    BY <2>1, <2>2
<1> QED
  BY <1>7, <1>9, <1>10, <1>11

\* An accepted bet: the earlier stake goes back, the new one is held.
LEMMA RebetFacts ==
  ASSUME NEW v \in Vaults, NEW s \in Session, NEW u \in Player, NEW n \in Nat,
         CanFund(RefundOne(v, s, u), u, n),
         NEW w, w = Hold(RefundOne(v, s, u), s, u, n)
  PROVE  /\ w \in Vaults
         /\ w.book[s][u] = n
         /\ \A p \in Player \ {u} : w.book[s][p] = v.book[s][p]
         /\ \A x \in Session \ {s} : w.book[x] = v.book[x]
         /\ \A x \in Session \ {s} : Staked(w, x) = Staked(v, x)
         /\ \A h \in Holder \ (Player \union {s}) : w.chips[h] = v.chips[h]
         /\ w.chips[s] - Staked(w, s) = v.chips[s] - Staked(v, s)
         /\ \A p \in Player : v.chips[p] >= 0 /\ v.land[p] >= 0
                                => w.chips[p] >= 0 /\ w.land[p] >= 0
         /\ Backing(w) = Backing(v)
         /\ Excess(w) = Excess(v)
         /\ \A p \in Player : Worth(w, p) = Worth(v, p)
<1> DEFINE z == RefundOne(v, s, u)
           us == {u}
<1>1. CanFund(z, u, n) /\ w = HoldAll(z, s, us, n)
  BY HoldIsHoldAll
<1>2. /\ z \in Vaults
      /\ z.land = v.land
      /\ z.book[s][u] = 0
      /\ \A p \in Player \ {u} : z.book[s][p] = v.book[s][p]
      /\ z.chips[u] = v.chips[u] + v.book[s][u]
      /\ \A p \in Player \ {u} : z.chips[p] = v.chips[p]
      /\ \A x \in Session \ {s} : z.book[x] = v.book[x]
      /\ \A x \in Session \ {s} : Staked(z, x) = Staked(v, x)
      /\ \A h \in Holder \ (Player \union {s}) : z.chips[h] = v.chips[h]
      /\ z.chips[s] - Staked(z, s) = v.chips[s] - Staked(v, s)
      /\ Backing(z) = Backing(v)
      /\ Excess(z) = Excess(v)
      /\ \A p \in Player : Worth(z, p) = Worth(v, p)
  BY RefundOneFacts
<1> HIDE DEF z
<1>3. z \in Vaults /\ us \in SUBSET Player /\ EachCanFund(z, us, n)
  BY <1>1, <1>2 DEF EachCanFund
<1> HIDE DEF us
<1>4. HeldBy(z, s, us, n, HoldAll(z, s, us, n))
  BY <1>3, HoldAllFacts
<1>5. HeldBy(z, s, us, n, w)
  BY <1>1, <1>4
<1>6. /\ w \in Vaults
      /\ \A p \in us : w.book[s][p] = z.book[s][p] + n
      /\ \A p \in Player \ us : w.book[s][p] = z.book[s][p]
      /\ \A x \in Session \ {s} : w.book[x] = z.book[x]
      /\ \A x \in Session \ {s} : Staked(w, x) = Staked(z, x)
      /\ \A h \in Holder \ (Player \union {s}) : w.chips[h] = z.chips[h]
      /\ w.chips[s] - Staked(w, s) = z.chips[s] - Staked(z, s)
      /\ \A p \in Player : z.chips[p] >= 0 /\ z.land[p] >= 0
                             => w.chips[p] >= 0 /\ w.land[p] >= 0
      /\ Backing(w) = Backing(z)
      /\ Excess(w) = Excess(z)
      /\ \A p \in Player : Worth(w, p) = Worth(z, p)
  BY <1>5 DEF HeldBy
<1>7. \A p \in Player : v.chips[p] >= 0 /\ v.land[p] >= 0
                          => w.chips[p] >= 0 /\ w.land[p] >= 0
  <2>1. \A p \in Player : v.chips[p] \in Int /\ v.book[s][p] \in Nat
    BY Names, VaultFacts
  <2>2. \A p \in Player : v.chips[p] >= 0 /\ v.land[p] >= 0
                            => z.chips[p] >= 0 /\ z.land[p] >= 0
    BY <1>2, <2>1
  <2> QED
    BY <1>6, <2>2
<1>8. w.book[s][u] = n /\ \A p \in Player \ {u} : w.book[s][p] = v.book[s][p]
  BY <1>2, <1>6 DEF us
<1> QED
  BY <1>2, <1>6, <1>7, <1>8

\* One player exchanges n of Land; with n negative, he redeems.
LEMMA ExchangeOneFacts ==
  ASSUME NEW v \in Vaults, NEW u \in Player, NEW n \in Int,
         NEW w, w = Exchange(v, One(u, n))
  PROVE  /\ w \in Vaults
         /\ w.book = v.book
         /\ w.chips[u] = v.chips[u] + n /\ w.land[u] = v.land[u] - n
         /\ \A p \in Player \ {u} : w.chips[p] = v.chips[p] /\ w.land[p] = v.land[p]
         /\ \A h \in Holder \ Player : w.chips[h] = v.chips[h]
         /\ Backing(w) = Backing(v)
         /\ Excess(w) = Excess(v)
         /\ \A p \in Player : Worth(w, p) = Worth(v, p)
<1>1. /\ One(u, n) \in [Player -> Int]
      /\ One(u, n)[u] = n
      /\ \A p \in Player \ {u} : One(u, n)[p] = 0
  BY OneSum
<1>2. /\ w \in Vaults
      /\ w.book = v.book
      /\ \A p \in Player : /\ w.chips[p] = v.chips[p] + One(u, n)[p]
                           /\ w.land[p] = v.land[p] - One(u, n)[p]
      /\ \A h \in Holder \ Player : w.chips[h] = v.chips[h]
      /\ Backing(w) = Backing(v)
      /\ Excess(w) = Excess(v)
      /\ \A p \in Player : Worth(w, p) = Worth(v, p)
  BY <1>1, ExchangeFacts
<1>3. \A p \in Player : v.chips[p] \in Int /\ v.land[p] \in Int
  BY Names, VaultFacts
<1>4. \A p \in Player \ {u} : w.chips[p] = v.chips[p] /\ w.land[p] = v.land[p]
  BY <1>1, <1>2, <1>3
<1> QED
  BY <1>1, <1>2, <1>4

\* A player funds n.
LEMMA FundFacts ==
  ASSUME NEW v \in Vaults, NEW u \in Player, NEW n \in Nat, CanFund(v, u, n),
         NEW w, w = Fund(v, u, n)
  PROVE  /\ w \in Vaults
         /\ w.book = v.book
         /\ w.chips[u] >= n
         /\ \A p \in Player : v.chips[p] >= 0 /\ v.land[p] >= 0
                                => w.chips[p] >= 0 /\ w.land[p] >= 0
         /\ \A h \in Holder \ Player : w.chips[h] = v.chips[h]
         /\ Backing(w) = Backing(v)
         /\ Excess(w) = Excess(v)
         /\ \A p \in Player : Worth(w, p) = Worth(v, p)
<1>1. v.chips[u] \in Int /\ v.land[u] \in Int
  BY Names, VaultFacts
<1>2. Lack(v, u, n) \in Int /\ v.chips[u] + Lack(v, u, n) >= n
  BY <1>1 DEF Lack
<1>3. w = Exchange(v, One(u, Lack(v, u, n)))
  BY DEF Fund
<1>4. /\ w \in Vaults
      /\ w.book = v.book
      /\ w.chips[u] = v.chips[u] + Lack(v, u, n)
      /\ w.land[u] = v.land[u] - Lack(v, u, n)
      /\ \A p \in Player \ {u} : w.chips[p] = v.chips[p] /\ w.land[p] = v.land[p]
      /\ \A h \in Holder \ Player : w.chips[h] = v.chips[h]
      /\ Backing(w) = Backing(v)
      /\ Excess(w) = Excess(v)
      /\ \A p \in Player : Worth(w, p) = Worth(v, p)
  BY SMTT(30), <1>2, <1>3, ExchangeOneFacts
<1>5. v.chips[u] >= 0 /\ v.land[u] >= 0 => w.chips[u] >= 0 /\ w.land[u] >= 0
  BY <1>1, <1>4 DEF Lack, CanFund, Holdings
<1> QED
  BY <1>2, <1>4, <1>5

LEMMA RedeemAllFacts ==
  ASSUME NEW v \in Vaults, NEW u \in Player, NEW w, w = RedeemAll(v, u)
  PROVE  /\ w \in Vaults
         /\ w.book = v.book
         /\ w.chips[u] = 0 /\ w.land[u] = v.land[u] + v.chips[u]
         /\ \A p \in Player \ {u} : w.chips[p] = v.chips[p] /\ w.land[p] = v.land[p]
         /\ \A h \in Holder \ Player : w.chips[h] = v.chips[h]
         /\ Backing(w) = Backing(v)
         /\ Excess(w) = Excess(v)
         /\ \A p \in Player : Worth(w, p) = Worth(v, p)
<1> DEFINE n == -v.chips[u]
<1>1. v.chips[u] \in Int /\ v.land[u] \in Int
  BY Names, VaultFacts
<1>2. n \in Int /\ w = Exchange(v, One(u, n))
  BY <1>1 DEF RedeemAll
<1>3. v.chips[u] + n = 0 /\ v.land[u] - n = v.land[u] + v.chips[u]
  BY <1>1
<1> HIDE DEF n
<1> QED
  BY SMTT(30), <1>2, <1>3, ExchangeOneFacts

-----------------------------------------------------------------------------
(* Shares of a pot.                                                        *)

LEMMA Quotient ==
  ASSUME NEW a \in Nat, NEW n \in Nat \ {0}
  PROVE  a \div n \in Nat /\ n * (a \div n) =< a
OBVIOUS

LEMMA LeqTimes ==
  ASSUME NEW a \in Nat, NEW b \in Nat, NEW n \in Nat, a =< b
  PROVE  n * a =< n * b
OBVIOUS

LEMMA LeqCancel ==
  ASSUME NEW a \in Int, NEW b \in Int, NEW n \in Nat \ {0}, n * a =< n * b
  PROVE  a =< b
OBVIOUS

\* The share of the jackpot is a part of the pot.
LEMMA CutFits ==
  ASSUME NEW pot \in Nat
  PROVE  (pot * CutBps) \div 10000 \in 0 .. pot
<1>1. CutBps \in Nat /\ CutBps =< 10000
  BY CasinoTablesAssumption
<1>2. pot * CutBps \in Nat /\ pot * CutBps =< 10000 * pot
  <2>1. pot * CutBps =< pot * 10000
    BY <1>1, LeqTimes
  <2> QED
    BY <1>1, <2>1
<1> DEFINE c == (pot * CutBps) \div 10000
<1>3. c \in Nat /\ 10000 * c =< pot * CutBps
  BY <1>2, Quotient
<1> HIDE DEF c
<1>4. c =< pot
  <2>1. pot * CutBps \in Int
    BY <1>2
  <2> DEFINE x == pot * CutBps
  <2>2. x \in Int /\ x =< 10000 * pot /\ 10000 * c =< x
    BY <1>2, <1>3
  <2> HIDE DEF x
  <2> QED
    BY <1>3, <2>2
<1>5. c \in 0 .. pot
  BY <1>3, <1>4
<1> QED
  BY <1>5 DEF c

\* Portions of dist by weight, rounded down, fit into dist.
RoundedPortions(p, dist, k, total, W) ==
  \A u \in W : p[u] = (dist * k[u]) \div total

LEMMA PortionsFit ==
  ASSUME NEW W, IsFiniteSet(W), NEW k \in [W -> Nat], NEW total,
         total = SumFunctionOnSet(k, W), total # 0, NEW dist \in Nat,
         NEW lead \in W, NEW p, RoundedPortions(p, dist, k, total, W)
  PROVE  /\ \A u \in W : p[u] \in Nat
         /\ SumFunctionOnSet(p, W \ {lead}) =< dist
         /\ SumFunctionOnSet(p, W \ {lead}) \in Nat
<1> DEFINE V == W \ {lead}
<1>1. IsFiniteSet(V)
  BY FS_Subset
<1>2. total \in Nat \ {0}
  BY SumNat
<1>3. \A u \in W : /\ k[u] \in Nat /\ dist * k[u] \in Nat
                   /\ p[u] \in Nat /\ total * p[u] =< dist * k[u]
  <2> SUFFICES ASSUME NEW u \in W
               PROVE  /\ k[u] \in Nat /\ dist * k[u] \in Nat
                      /\ p[u] \in Nat /\ total * p[u] =< dist * k[u]
    OBVIOUS
  <2> DEFINE a == dist * k[u]
  <2>1. k[u] \in Nat /\ a \in Nat /\ p[u] = a \div total
    BY DEF RoundedPortions
  <2> HIDE DEF a
  <2>2. p[u] \in Nat /\ total * p[u] =< a
    BY <1>2, <2>1, Quotient
  <2> QED
    BY <2>1, <2>2 DEF a
<1> DEFINE x == [u \in V |-> total * p[u]]
           y == [u \in V |-> dist * k[u]]
           P == SumFunctionOnSet(p, V)
           K == SumFunctionOnSet(k, V)
<1>4. P \in Nat /\ K \in Nat
  <2>1. \A u \in V : p[u] \in Nat /\ k[u] \in Nat
    BY <1>3
  <2> QED
    BY <1>1, <2>1, SumNat
<1>5. SumFunctionOnSet(x, V) = total * P
  <2>1. \A u \in V : p[u] \in Int /\ x[u] = total * p[u]
    BY <1>3
  <2>2. total \in Int
    BY <1>2
  <2> HIDE DEF x, V
  <2> QED
    BY <1>1, <2>1, <2>2, SumTimes
<1>6. SumFunctionOnSet(y, V) = dist * K
  <2>1. \A u \in V : k[u] \in Int /\ y[u] = dist * k[u]
    BY <1>3
  <2> HIDE DEF y, V
  <2> QED
    BY <1>1, <2>1, SumTimes
<1>7. SumFunctionOnSet(x, V) =< SumFunctionOnSet(y, V)
  <2>1. \A u \in V : x[u] \in Int /\ y[u] \in Int /\ x[u] =< y[u]
    BY <1>2, <1>3
  <2> HIDE DEF x, y, V
  <2> QED
    BY <1>1, <2>1, SumLeq
<1>8. K =< total
  <2>1. total = k[lead] + K
    BY SumRemove
  <2> HIDE DEF K
  <2> QED
    BY <1>4, <2>1
<1> HIDE DEF P, K, V, x, y
<1>9. dist * K =< dist * total
  BY <1>2, <1>4, <1>8, LeqTimes
<1>10. total * P =< total * dist
  <2>1. total * P \in Int /\ dist * K \in Int /\ dist * total = total * dist
        /\ total * dist \in Int
    BY <1>2, <1>4
  <2> QED
    BY <1>5, <1>6, <1>7, <1>9, <2>1
<1>11. P =< dist
  BY <1>2, <1>4, <1>10, LeqCancel
<1> QED
  BY <1>3, <1>4, <1>11 DEF P, V

LEMMA SharesFacts ==
  ASSUME NEW pot \in Nat, NEW W \in SUBSET Player, NEW first,
         W # {} => first \in W
  PROVE  \E D \in SUBSET (Player \union {Jackpot}) :
           Shares(pot, W, first) \in [D -> Nat]
<1> DEFINE cut == (pot * CutBps) \div 10000
           rest == pot - cut
           n == Cardinality(W)
<1>1. cut \in Nat /\ rest \in Nat
  <2>1. cut \in 0 .. pot
    BY CutFits
  <2> HIDE DEF cut
  <2> QED
    BY <2>1
<1>2. CASE W = {}
  <2>1. Shares(pot, W, first) = [h \in {Jackpot} |-> pot]
    BY <1>2 DEF Shares
  <2>2. {Jackpot} \in SUBSET (Player \union {Jackpot})
    OBVIOUS
  <2> QED
    BY <2>1, <2>2
<1>3. CASE W # {}
  <2> DEFINE D == W \union {Jackpot}
             f == [h \in D |-> CASE h = Jackpot -> cut
                                 [] h = first   -> rest - (n - 1) * (rest \div n)
                                 [] OTHER       -> rest \div n]
  <2>1. Shares(pot, W, first) = f
    BY <1>3 DEF Shares
  <2>2. n \in Nat \ {0}
    BY <1>3, HolderFinite, FS_Subset, FS_CardinalityType, FS_EmptySet
  <2>3. first \in W /\ Jackpot \notin W
    BY <1>3, Names
  <2> HIDE DEF cut, rest, n
  <2> DEFINE q == rest \div n
  <2>4. q \in Nat /\ n * q =< rest
    BY <1>1, <2>2, Quotient
  <2> HIDE DEF q
  <2>5. rest - (n - 1) * q \in Nat
    <3>1. n * q \in Int /\ (n - 1) * q = n * q - q
      BY <2>2, <2>4
    <3> DEFINE z == n * q
    <3>2. z \in Int /\ (n - 1) * q = z - q /\ z =< rest
      BY <2>4, <3>1
    <3> HIDE DEF z
    <3> QED
      BY <1>1, <2>4, <3>2
  <2>6. f \in [D -> Nat]
    <3>1. \A h \in D : (CASE h = Jackpot -> cut
                          [] h = first   -> rest - (n - 1) * (rest \div n)
                          [] OTHER       -> rest \div n) \in Nat
      BY <1>1, <2>3, <2>4, <2>5 DEF q
    <3> QED
      BY <3>1
  <2>7. D \in SUBSET (Player \union {Jackpot})
    OBVIOUS
  <2> QED
    BY <2>1, <2>6, <2>7
<1> QED
  BY <1>2, <1>3

\* What a board pays is its pot, to the last chip, and nobody pays.
LEMMA BoardPayFacts ==
  ASSUME vault \in Vaults, NEW b \in Board, NEW o, NEW lead \in Winners(b, o)
  PROVE  /\ BoardPay(b, o, lead) \in [Winners(b, o) \union {Jackpot} -> Nat]
         /\ SumFunction(BoardPay(b, o, lead)) = Pot(b)
         /\ Winners(b, o) \union {Jackpot} \subseteq Player \union {Jackpot}
<1> DEFINE W == Winners(b, o)
           cut == (Pot(b) * CutBps) \div 10000
           dist == Pot(b) - cut
           p == [u \in W |-> Portion(b, o, u, dist)]
           q == [u \in W \ {lead} |-> Portion(b, o, u, dist)]
           rest == dist - SumFunction(q)
           pay == BoardPay(b, o, lead)
<1>1. b \in Session
  BY MarketAssumption
<1>2. Pot(b) \in Nat
  BY <1>1, VaultSums DEF Pot
<1>3. cut \in Nat /\ dist \in Nat /\ cut + dist = Pot(b)
  <2>1. cut \in 0 .. Pot(b)
    BY <1>2, CutFits
  <2> HIDE DEF cut
  <2> QED
    BY <1>2, <2>1
<1>4. W \subseteq Player /\ IsFiniteSet(W) /\ lead \in W
      /\ \A u \in W : vault.book[b][u] \in Nat \ {0}
  <2>1. W \subseteq Player
    BY DEF Winners, BoardBettors
  <2>2. \A u \in W : vault.book[b][u] \in Nat \ {0}
    BY <1>1, VaultFacts DEF Winners, BoardBettors
  <2> QED
    BY <2>1, <2>2, HolderFinite, FS_Subset
<1>5. pay = [h \in W \union {Jackpot} |->
               CASE h = Jackpot -> cut
                 [] h = lead    -> rest
                 [] OTHER       -> Portion(b, o, h, dist)]
  BY DEF BoardPay
<1>6. /\ \A u \in W : p[u] \in Nat
      /\ SumFunctionOnSet(p, W \ {lead}) =< dist
      /\ SumFunctionOnSet(p, W \ {lead}) \in Nat
  <2>1. CASE board[b].mode = "parimutuel"
    <3> DEFINE k == [u \in W |-> vault.book[b][u]]
               total == SumFunctionOnSet(vault.book[b], W)
    <3>1. k \in [W -> Nat]
      BY <1>4
    <3>2. total = SumFunctionOnSet(k, W)
      BY <1>4, SumEqual
    <3>3. RoundedPortions(p, dist, k, total, W)
      BY <2>1 DEF Portion, RoundedPortions
    <3>4. total # 0
      <4>1. total = vault.book[b][lead] + SumFunctionOnSet(vault.book[b], W \ {lead})
        BY <1>4, SumRemove
      <4>2. SumFunctionOnSet(vault.book[b], W \ {lead}) \in Nat
        BY <1>4, FS_Subset, SumNat
      <4> HIDE DEF W, total
      <4> QED
        BY <1>4, <4>1, <4>2
    <3>5. IsFiniteSet(W) /\ lead \in W /\ dist \in Nat
      BY <1>3, <1>4
    <3> HIDE DEF p, k, total, W, dist
    <3> QED
      BY <3>1, <3>2, <3>3, <3>4, <3>5, PortionsFit
  <2>2. CASE board[b].mode # "parimutuel"
    <3> DEFINE k == [u \in W |-> 1]
               total == Cardinality(W)
    <3>1. k \in [W -> Nat] /\ \A u \in W : k[u] = 1
      OBVIOUS
    <3>2. total = SumFunctionOnSet(k, W)
      BY <1>4, <3>1, SumOnes
    <3>3. RoundedPortions(p, dist, k, total, W)
      <4>1. \A u \in W : p[u] = dist \div total
        BY <2>2 DEF Portion
      <4>2. \A u \in W : dist * k[u] = dist
        <5> HIDE DEF k, dist
        <5> QED
          BY <1>3, <3>1
      <4> QED
        BY <4>1, <4>2 DEF RoundedPortions
    <3>4. total # 0
      BY <1>4, FS_EmptySet
    <3>5. IsFiniteSet(W) /\ lead \in W /\ dist \in Nat
      BY <1>3, <1>4
    <3> HIDE DEF p, k, total, W, dist
    <3> QED
      BY <3>1, <3>2, <3>3, <3>4, <3>5, PortionsFit
  <2> QED
    BY <2>1, <2>2
<1>7. SumFunction(q) = SumFunctionOnSet(p, W \ {lead})
  <2>1. \A u \in W \ {lead} : q[u] = p[u]
    OBVIOUS
  <2>2. SumFunction(q) = SumFunctionOnSet(q, W \ {lead})
    BY DEF SumFunction
  <2> HIDE DEF p, q, W
  <2> QED
    BY <1>4, <2>1, <2>2, FS_Subset, SumEqual
<1>8. rest \in Nat
  <2> HIDE DEF dist, q, p
  <2> QED
    BY <1>3, <1>6, <1>7
<1>9. Jackpot \notin W
  BY <1>4, Names
<1>10. /\ pay \in [W \union {Jackpot} -> Nat]
       /\ pay[Jackpot] = cut /\ pay[lead] = rest
       /\ \A u \in W \ {lead} : pay[u] = p[u]
  <2>1. \A u \in W : p[u] = Portion(b, o, u, dist)
    OBVIOUS
  <2> HIDE DEF p, cut, rest, dist, W, pay
  <2>2. \A h \in W \union {Jackpot} :
          (CASE h = Jackpot -> cut
             [] h = lead    -> rest
             [] OTHER       -> Portion(b, o, h, dist)) \in Nat
    BY <1>3, <1>4, <1>6, <1>8, <1>9, <2>1
  <2>3. pay \in [W \union {Jackpot} -> Nat]
    BY <1>5, <2>2
  <2>4. pay[Jackpot] = cut /\ pay[lead] = rest
    BY <1>4, <1>5, <1>9
  <2>5. \A u \in W \ {lead} : pay[u] = p[u]
    BY <1>5, <1>9, <2>1
  <2> QED
    BY <2>3, <2>4, <2>5
<1>11. SumFunction(pay) = Pot(b)
  <2> HIDE DEF pay, p, q, cut, rest, dist, W
  <2>1. SumFunction(pay) = SumFunctionOnSet(pay, W \union {Jackpot})
    BY <1>10 DEF SumFunction
  <2>2. SumFunctionOnSet(pay, W \union {Jackpot}) = pay[Jackpot] + SumFunctionOnSet(pay, W)
    <3>1. \A x \in W \union {Jackpot} : pay[x] \in Int
      BY <1>10
    <3> QED
      BY <1>4, <1>9, <3>1, SumAdd
  <2>3. SumFunctionOnSet(pay, W) = pay[lead] + SumFunctionOnSet(pay, W \ {lead})
    <3>1. \A x \in W : pay[x] \in Int
      BY <1>10
    <3> QED
      BY <1>4, <3>1, SumRemove
  <2>4. SumFunctionOnSet(pay, W \ {lead}) = SumFunctionOnSet(p, W \ {lead})
    BY <1>4, <1>10, FS_Subset, SumEqual
  <2>5. SumFunction(pay) = cut + (rest + SumFunctionOnSet(p, W \ {lead}))
    BY <1>10, <2>1, <2>2, <2>3, <2>4
  <2>6. rest + SumFunctionOnSet(p, W \ {lead}) = dist
    BY <1>3, <1>6, <1>7 DEF rest
  <2> QED
    BY <1>3, <2>5, <2>6
<1>12. W \union {Jackpot} \subseteq Player \union {Jackpot}
  BY <1>4
<1> QED
  BY <1>10, <1>11, <1>12

\* The wheel: stakes go back, the bets are charged and paid.
LEMMA SpunFacts ==
  ASSUME NEW v \in Vaults, NEW s \in Session, NEW net \in [Player -> Int],
         NEW w, w = Pay(Refund(v, s), House, net)
  PROVE  /\ w \in Vaults
         /\ w.land = v.land
         /\ \A u \in Player : w.book[s][u] = 0
         /\ \A u \in Player : w.chips[u] = (v.chips[u] + v.book[s][u]) + net[u]
         /\ w.chips[House] = v.chips[House] - SumFunction(net)
         /\ w.chips[s] = v.chips[s] - Staked(v, s)
         /\ Staked(w, s) = 0
         /\ \A h \in Holder \ (Player \union {s, House}) : w.chips[h] = v.chips[h]
         /\ \A x \in Session \ {s} : w.book[x] = v.book[x]
         /\ \A x \in Session \ {s} : Staked(w, x) = Staked(v, x)
         /\ SumFunction(net) \in Int
         /\ Backing(w) = Backing(v)
         /\ Excess(w) = Excess(v)
         /\ \A u \in Player : Worth(w, u) = Worth(v, u) + net[u]
<1> DEFINE z == Refund(v, s)
<1>1. /\ z \in Vaults
      /\ z.land = v.land
      /\ \A u \in Player : z.book[s][u] = 0
      /\ \A u \in Player : z.chips[u] = v.chips[u] + v.book[s][u]
      /\ \A x \in Session \ {s} : z.book[x] = v.book[x]
      /\ \A x \in Session \ {s} : Staked(z, x) = Staked(v, x)
      /\ \A h \in Holder \ (Player \union {s}) : z.chips[h] = v.chips[h]
      /\ z.chips[s] = v.chips[s] - Staked(v, s)
      /\ Staked(z, s) = 0
      /\ Backing(z) = Backing(v)
      /\ Excess(z) = Excess(v)
      /\ \A u \in Player : Worth(z, u) = Worth(v, u)
  BY RefundFacts
<1>2. w = Pay(z, House, net)
  OBVIOUS
<1> HIDE DEF z
<1>3. /\ House \in Holder /\ Player \subseteq Holder /\ House \notin Player
      /\ House \notin Session /\ s \in Holder /\ s \notin Player
  BY Names
<1>4. /\ w \in Vaults
      /\ w.book = z.book /\ w.land = z.land
      /\ w.chips[House] = z.chips[House] - SumFunction(net)
      /\ \A h \in Player : w.chips[h] = z.chips[h] + net[h]
      /\ \A h \in Holder \ (Player \union {House}) : w.chips[h] = z.chips[h]
      /\ Backing(w) = Backing(z)
      /\ SumFunction(net) \in Int
  BY <1>1, <1>2, <1>3, PayFacts
<1>5. Excess(w) = Excess(z)
  <2>1. House \in Player \union {House, Jackpot} /\ Player \subseteq Player \union {House, Jackpot}
    OBVIOUS
  <2> QED
    BY <1>1, <1>2, <1>3, <2>1, PayAround
<1>6. \A u \in Player : Worth(w, u) = Worth(z, u) + net[u]
  <2> SUFFICES ASSUME NEW u \in Player PROVE Worth(w, u) = Worth(z, u) + net[u]
    OBVIOUS
  <2>1. Worth(w, u) = Worth(z, u) + IF u = House THEN -SumFunction(net) ELSE At(net, u)
    BY <1>1, <1>2, <1>3, PayWorth
  <2> QED
    BY <1>3, <2>1 DEF At
<1>7. \A x \in Session : Staked(w, x) = Staked(z, x)
  BY <1>4 DEF Staked
<1>8. \A u \in Player : w.chips[u] = (v.chips[u] + v.book[s][u]) + net[u]
  BY <1>1, <1>4
<1>9. w.chips[s] = v.chips[s] - Staked(v, s)
  BY <1>1, <1>3, <1>4
<1>10. w.chips[House] = v.chips[House] - SumFunction(net)
  BY <1>1, <1>3, <1>4
<1>11. \A h \in Holder \ (Player \union {s, House}) : w.chips[h] = v.chips[h]
  BY <1>1, <1>4
<1>12. /\ \A x \in Session \ {s} : w.book[x] = v.book[x] /\ Staked(w, x) = Staked(v, x)
       /\ Staked(w, s) = 0 /\ \A u \in Player : w.book[s][u] = 0
  BY <1>1, <1>4, <1>7
<1>13. w.land = v.land /\ Backing(w) = Backing(v) /\ Excess(w) = Excess(v)
  BY <1>1, <1>4, <1>5
<1>14. \A u \in Player : Worth(w, u) = Worth(v, u) + net[u]
  BY <1>1, <1>6
<1> QED
  BY <1>4, <1>8, <1>9, <1>10, <1>11, <1>12, <1>13, <1>14

-----------------------------------------------------------------------------
(* Types.                                                                  *)

MoneyTyped ==
  /\ vault \in Vaults
  /\ reserved \in [Player \union Session -> Nat]
  /\ stats \in [Player -> Int]

Risks == [opening : [Day -> [Player -> Int]], net : [Day -> [Player -> Int]],
          max : [Session -> [Player -> Nat]], day : [Session -> [Player -> Day]],
          start : [Player -> [day : Day, max : Nat]]]

RiskTyped == today \in Day /\ risk \in Risks

BetRows == [type : DOMAIN Odds \union {"none"}, amount : Nat]

Wagers == {f \in [Player -> BetRows] :
             \A u \in Player : f[u].amount > 0 => f[u].type \in DOMAIN Odds}

TablesTyped ==
  /\ seat \in [Player -> Session \union {"solo", "none"}]
  /\ solo \in [Player -> Nat]
  /\ phase \in [Table -> {"none", "open", "spinning", "stuck", "over"}]
  /\ bets \in [Roulette -> Wagers]

BoardRows == [status : LiveStatuses \union {"none", "settled", "void"},
              mode : Modes, late : BOOLEAN, result : Option \union {NoPick},
              pick : [Player -> Option \union {NoPick}],
              approved : SUBSET Player]

RecoveryRows == [stage : {"off", "sweep", "redeem"},
                 todo : SUBSET (Session \union Player), mismatch : BOOLEAN,
                 refundFailed : BOOLEAN, redeemFailed : BOOLEAN, again : BOOLEAN]

RecoveryTyped ==
  /\ up \in BOOLEAN
  /\ board \in [Board -> BoardRows]
  /\ rec \in RecoveryRows
  /\ missing \in [Session -> [Player -> Nat]]

TypeOK == MoneyTyped /\ RiskTyped /\ TablesTyped /\ RecoveryTyped

LEMMA DayFacts == 1 \in Day /\ \A d \in Day : d \in Int
BY DailyRiskAssumption DEF Day

\* The parts of the risk after each of its operations.
LEMMA RiskFacts ==
  ASSUME NEW r \in Risks
  PROVE  /\ \A d \in Day, u \in Player : r.opening[d][u] \in Int /\ r.net[d][u] \in Int
         /\ \A s \in Session, u \in Player : r.max[s][u] \in Nat /\ r.day[s][u] \in Day
         /\ \A u \in Player : r.start[u].day \in Day /\ r.start[u].max \in Nat
BY DEF Risks

ExposedBy(s, us, n, mode, r) ==
  /\ r.opening = risk.opening /\ r.net = risk.net /\ r.start = risk.start
  /\ \A x \in Session \ {s} : r.max[x] = risk.max[x] /\ r.day[x] = risk.day[x]
  /\ \A u \in us : r.max[s][u] = NextMax(s, u, n, mode) /\ r.day[s][u] = today
  /\ \A u \in Player \ us :
       r.max[s][u] = risk.max[s][u] /\ r.day[s][u] = risk.day[s][u]

LEMMA ExposeFacts ==
  ASSUME RiskTyped, NEW s \in Session, NEW us \in SUBSET Player, NEW n \in Nat,
         NEW mode, NEW r, r = Expose(s, us, n, mode)
  PROVE  r \in Risks /\ ExposedBy(s, us, n, mode, r)
<1> DEFINE m == [u \in Player |-> IF u \in us THEN NextMax(s, u, n, mode)
                                  ELSE risk.max[s][u]]
           d == [u \in Player |-> IF u \in us THEN today ELSE risk.day[s][u]]
<1>1. /\ \A u \in Player : risk.max[s][u] \in Nat /\ risk.day[s][u] \in Day
      /\ today \in Day
  BY RiskFacts DEF RiskTyped
<1>2. m \in [Player -> Nat] /\ d \in [Player -> Day]
  BY <1>1 DEF NextMax
<1>3. r = [risk EXCEPT !.max = [risk.max EXCEPT ![s] = m],
                       !.day = [risk.day EXCEPT ![s] = d]]
  BY DEF Expose, RiskTyped, Risks
<1>4. /\ \A u \in us : m[u] = NextMax(s, u, n, mode) /\ d[u] = today
      /\ \A u \in Player \ us : m[u] = risk.max[s][u] /\ d[u] = risk.day[s][u]
  OBVIOUS
<1> HIDE DEF m, d
<1>5. /\ r.max = [risk.max EXCEPT ![s] = m] /\ r.day = [risk.day EXCEPT ![s] = d]
      /\ r.opening = risk.opening /\ r.net = risk.net /\ r.start = risk.start
  BY <1>3 DEF RiskTyped, Risks
<1>6. [risk.max EXCEPT ![s] = m] \in [Session -> [Player -> Nat]]
      /\ [risk.day EXCEPT ![s] = d] \in [Session -> [Player -> Day]]
  BY <1>2 DEF RiskTyped, Risks
<1>7. r \in Risks
  BY <1>3, <1>6 DEF RiskTyped, Risks
<1>8. /\ r.max[s] = m /\ r.day[s] = d
      /\ \A x \in Session \ {s} : r.max[x] = risk.max[x] /\ r.day[x] = risk.day[x]
  BY <1>5 DEF RiskTyped, Risks
<1> QED
  BY <1>4, <1>5, <1>7, <1>8 DEF ExposedBy

BookedBy(s, us, f, r) ==
  /\ r.opening = risk.opening /\ r.start = risk.start
  /\ \A x \in Session \ {s} : r.max[x] = risk.max[x] /\ r.day[x] = risk.day[x]
  /\ \A d \in Day, u \in Player :
       r.net[d][u] = risk.net[d][u]
                       + IF u \in us /\ risk.day[s][u] = d THEN f[u] ELSE 0

LEMMA SettleExposuresFacts ==
  ASSUME RiskTyped, NEW s \in Session, NEW us \in SUBSET Player,
         NEW f \in [Player -> Int], NEW r, r = SettleExposures(s, us, f)
  PROVE  r \in Risks /\ BookedBy(s, us, f, r)
<1> DEFINE m == [u \in Player |-> IF u \in us THEN 0 ELSE risk.max[s][u]]
           d == [u \in Player |-> IF u \in us THEN 1 ELSE risk.day[s][u]]
           net == [e \in Day |->
                     [u \in Player |->
                        risk.net[e][u] + IF u \in us /\ risk.day[s][u] = e
                                         THEN f[u] ELSE 0]]
<1>1. /\ \A u \in Player : risk.max[s][u] \in Nat /\ risk.day[s][u] \in Day
      /\ \A e \in Day, u \in Player : risk.net[e][u] \in Int
      /\ 1 \in Day
  BY RiskFacts, DayFacts DEF RiskTyped
<1>2. m \in [Player -> Nat] /\ d \in [Player -> Day]
  BY <1>1
<1>3. net \in [Day -> [Player -> Int]]
  BY <1>1
<1>4. r = [risk EXCEPT !.net = net,
                       !.max = [risk.max EXCEPT ![s] = m],
                       !.day = [risk.day EXCEPT ![s] = d]]
  BY DEF SettleExposures, RiskTyped, Risks
<1>5. \A e \in Day, u \in Player :
        net[e][u] = risk.net[e][u] + IF u \in us /\ risk.day[s][u] = e
                                     THEN f[u] ELSE 0
  OBVIOUS
<1> HIDE DEF m, d, net
<1>6. /\ r.max = [risk.max EXCEPT ![s] = m] /\ r.day = [risk.day EXCEPT ![s] = d]
      /\ r.opening = risk.opening /\ r.net = net /\ r.start = risk.start
  BY <1>4 DEF RiskTyped, Risks
<1>7. [risk.max EXCEPT ![s] = m] \in [Session -> [Player -> Nat]]
      /\ [risk.day EXCEPT ![s] = d] \in [Session -> [Player -> Day]]
  BY <1>2 DEF RiskTyped, Risks
<1>8. r \in Risks
  BY <1>3, <1>4, <1>7 DEF RiskTyped, Risks
<1>9. \A x \in Session \ {s} : r.max[x] = risk.max[x] /\ r.day[x] = risk.day[x]
  BY <1>6 DEF RiskTyped, Risks
<1> QED
  BY <1>5, <1>6, <1>8, <1>9 DEF BookedBy

LEMMA ReleaseScopeFacts ==
  ASSUME RiskTyped, NEW s \in Session, NEW r, r = ReleaseScope(s)
  PROVE  /\ r \in Risks
         /\ r.opening = risk.opening /\ r.net = risk.net /\ r.start = risk.start
         /\ \A x \in Session \ {s} : r.max[x] = risk.max[x] /\ r.day[x] = risk.day[x]
<1> DEFINE m == [u \in Player |-> 0]
           d == [u \in Player |-> 1]
<1>2. m \in [Player -> Nat] /\ d \in [Player -> Day]
  BY DayFacts
<1>3. r = [risk EXCEPT !.max = [risk.max EXCEPT ![s] = m],
                       !.day = [risk.day EXCEPT ![s] = d]]
  BY DEF ReleaseScope, RiskTyped, Risks
<1> HIDE DEF m, d
<1>5. /\ r.max = [risk.max EXCEPT ![s] = m] /\ r.day = [risk.day EXCEPT ![s] = d]
      /\ r.opening = risk.opening /\ r.net = risk.net /\ r.start = risk.start
  BY <1>3 DEF RiskTyped, Risks
<1>6. [risk.max EXCEPT ![s] = m] \in [Session -> [Player -> Nat]]
      /\ [risk.day EXCEPT ![s] = d] \in [Session -> [Player -> Day]]
  BY <1>2 DEF RiskTyped, Risks
<1>7. r \in Risks
  BY <1>3, <1>6 DEF RiskTyped, Risks
<1>8. \A x \in Session \ {s} : r.max[x] = risk.max[x] /\ r.day[x] = risk.day[x]
  BY <1>5 DEF RiskTyped, Risks
<1> QED
  BY <1>5, <1>7, <1>8

LEMMA NoStartTyped == NoStart \in [day : Day, max : Nat]
BY DayFacts DEF NoStart

\* A change of the game of one player.
StartedBy(u, g, r) ==
  /\ r.opening = risk.opening /\ r.net = risk.net
  /\ r.max = risk.max /\ r.day = risk.day
  /\ r.start[u] = g
  /\ \A p \in Player \ {u} : r.start[p] = risk.start[p]

LEMMA StartFacts ==
  ASSUME RiskTyped, NEW u \in Player, NEW g \in [day : Day, max : Nat],
         NEW r, r = [risk EXCEPT !.start[u] = g]
  PROVE  r \in Risks /\ StartedBy(u, g, r)
<1>1. r = [risk EXCEPT !.start = [risk.start EXCEPT ![u] = g]]
  BY DEF RiskTyped, Risks
<1>2. [risk.start EXCEPT ![u] = g] \in [Player -> [day : Day, max : Nat]]
  BY DEF RiskTyped, Risks
<1>3. r \in Risks
  BY <1>1, <1>2 DEF RiskTyped, Risks
<1>4. /\ r.opening = risk.opening /\ r.net = risk.net
      /\ r.max = risk.max /\ r.day = risk.day
      /\ r.start = [risk.start EXCEPT ![u] = g]
  BY <1>1 DEF RiskTyped, Risks
<1> QED
  BY <1>3, <1>4 DEF StartedBy, RiskTyped, Risks

LEMMA SettleSoloFacts ==
  ASSUME RiskTyped, NEW u \in Player, NEW n \in Int, NEW r, r = SettleSolo(u, n)
  PROVE  /\ r \in Risks
         /\ r.opening = risk.opening
         /\ r.max = risk.max /\ r.day = risk.day
         /\ \A p \in Player \ {u} : r.start[p] = risk.start[p]
         /\ \A d \in Day, p \in Player :
              r.net[d][p] = risk.net[d][p]
                              + IF p = u /\ d = risk.start[u].day THEN n ELSE 0
<1> DEFINE e   == risk.start[u].day
           net == [risk.net EXCEPT ![e] = [risk.net[e] EXCEPT ![u] = risk.net[e][u] + n]]
           st  == [risk.start EXCEPT ![u] = NoStart]
<1>1. e \in Day /\ \A d \in Day, p \in Player : risk.net[d][p] \in Int
  BY RiskFacts DEF RiskTyped
<1>2. r = [risk EXCEPT !.net = net, !.start = st]
  BY <1>1 DEF SettleSolo, RiskTyped, Risks
<1>3. st \in [Player -> [day : Day, max : Nat]]
  BY NoStartTyped DEF RiskTyped, Risks
<1>4. risk.net \in [Day -> [Player -> Int]]
  BY DEF RiskTyped, Risks
<1>5. \A d \in Day, p \in Player :
        net[d][p] = risk.net[d][p] + IF p = u /\ d = e THEN n ELSE 0
  <2> HIDE DEF e
  <2> QED
    BY <1>1, <1>4
<1>6. net \in [Day -> [Player -> Int]]
  <2> HIDE DEF e
  <2>1. [risk.net[e] EXCEPT ![u] = risk.net[e][u] + n] \in [Player -> Int]
    BY <1>1, <1>4
  <2> QED
    BY <1>1, <1>4, <2>1
<1> HIDE DEF net, st
<1>7. r \in Risks
  BY <1>2, <1>3, <1>6 DEF RiskTyped, Risks
<1>8. /\ r.opening = risk.opening /\ r.max = risk.max /\ r.day = risk.day
      /\ r.net = net /\ r.start = st
  BY <1>2 DEF RiskTyped, Risks
<1>9. \A p \in Player \ {u} : st[p] = risk.start[p]
  BY DEF st, RiskTyped, Risks
<1> QED
  BY <1>5, <1>7, <1>8, <1>9

-----------------------------------------------------------------------------
(* What the actions do to the vault.                                       *)

Kept(v, w) == w \in Vaults /\ Backing(w) = Backing(v) /\ Excess(w) = Excess(v)

SameWorth(v, w) == \A u \in Player : Worth(w, u) = Worth(v, u)

SameAt(v, w, x) ==
  w.book[x] = v.book[x] /\ Staked(w, x) = Staked(v, x) /\ w.chips[x] = v.chips[x]

NoDebtor(v) == \A u \in Player : v.chips[u] >= 0 /\ v.land[u] >= 0

LEMMA Amounts ==
  /\ \A n \in Bets : n \in Nat /\ n > 0
  /\ \A n \in SoloBets : n \in Nat /\ n > 0
  /\ SoloOdds \in Nat /\ SoloOdds - 1 \in Nat
  /\ \A t \in DOMAIN Odds : Odds[t] \in Nat /\ Odds[t] - 1 \in Nat
BY CasinoTablesAssumption

LEMMA SessionNames ==
  /\ Roulette \subseteq Session /\ Pvp \subseteq Session /\ Board \subseteq Session
  /\ Table \subseteq Session
  /\ Roulette \intersect Pvp = {} /\ Board \intersect Table = {}
  /\ "solo" \notin Session /\ "none" \notin Session
BY CasinoTablesAssumption, MarketAssumption DEF Table

LEMMA StartGameEffect ==
  ASSUME TypeOK, NEW u \in Player, NEW n \in SoloBets, StartGame(u, n)
  PROVE  /\ Kept(vault, vault') /\ SameWorth(vault, vault')
         /\ vault'.book = vault.book
         /\ \A h \in Holder \ Player : vault'.chips[h] = vault.chips[h]
         /\ NoDebtor(vault) => NoDebtor(vault')
<1>1. vault \in Vaults /\ n \in Nat /\ CanFund(vault, u, n) /\ vault' = Fund(vault, u, n)
  BY Amounts DEF TypeOK, MoneyTyped, StartGame
<1>2. /\ vault' \in Vaults
      /\ vault'.book = vault.book
      /\ vault'.chips[u] >= n
      /\ \A p \in Player : vault.chips[p] >= 0 /\ vault.land[p] >= 0
                             => vault'.chips[p] >= 0 /\ vault'.land[p] >= 0
      /\ \A h \in Holder \ Player : vault'.chips[h] = vault.chips[h]
      /\ Backing(vault') = Backing(vault)
      /\ Excess(vault') = Excess(vault)
      /\ \A p \in Player : Worth(vault', p) = Worth(vault, p)
  BY <1>1, FundFacts
<1> QED
  BY <1>2 DEF Kept, SameWorth, NoDebtor

LEMMA FinishGameEffect ==
  ASSUME TypeOK, NEW u \in Player, NEW payout \in Nat, FinishGame(u, payout)
  PROVE  /\ Kept(vault, vault')
         /\ vault'.book = vault.book
         /\ vault'.chips[House] = vault.chips[House] + solo[u] - payout
         /\ \A h \in Holder \ (Player \union {House}) : vault'.chips[h] = vault.chips[h]
         /\ Worth(vault', u) = Worth(vault, u) + payout - solo[u]
         /\ \A p \in Player \ {u} : Worth(vault', p) = Worth(vault, p)
         /\ NoDebtor(vault) => NoDebtor(vault')
<1> DEFINE n == solo[u]
           z == Transfer(vault, u, House, n)
<1>1. vault \in Vaults /\ n \in Nat /\ vault.chips[u] >= n
      /\ vault' = Transfer(z, House, u, payout)
  BY DEF TypeOK, MoneyTyped, TablesTyped, FinishGame
<1>2. /\ u \in Holder /\ House \in Holder /\ u # House /\ House # u
      /\ Player \subseteq Holder
      /\ {u, House} \subseteq Player \union {House, Jackpot}
      /\ {House, u} \subseteq Player \union {House, Jackpot}
  BY Names
<1>3. n \in Int /\ payout \in Int
  BY <1>1
<1>4. z = Transfer(vault, u, House, n)
  OBVIOUS
<1> HIDE DEF z, n
<1>5. Moved(vault, u, House, n, z)
  BY <1>1, <1>2, <1>3, <1>4, TransferFacts
<1>6. Moved(z, House, u, payout, vault')
  <2>1. z \in Vaults
    BY <1>5 DEF Moved
  <2> QED
    BY <1>1, <1>2, <1>3, <2>1, TransferFacts
<1>7. Kept(vault, vault')
  BY <1>2, <1>5, <1>6 DEF Kept, Moved
<1>8. \A h \in Holder : vault.chips[h] \in Int
  BY <1>1, VaultFacts
<1>9. \A h \in Holder \ (Player \union {House}) : vault'.chips[h] = vault.chips[h]
  BY <1>5, <1>6 DEF Moved
<1>10. vault'.chips[House] = vault.chips[House] + n - payout
  BY <1>2, <1>3, <1>5, <1>6, <1>8 DEF Moved
<1>11. Worth(vault', u) = Worth(vault, u) + payout - n
  <2>1. Worth(z, u) = Worth(vault, u) - n /\ Worth(vault', u) = Worth(z, u) + payout
    <3>1. Worth(z, u) = Worth(vault, u) + -n
      BY <1>2, <1>5 DEF Moved
    <3>2. Worth(vault, u) \in Int
      BY <1>1, VaultSums
    <3> QED
      BY <1>2, <1>3, <1>6, <3>1, <3>2 DEF Moved
  <2>2. Worth(vault, u) \in Int
    BY <1>1, VaultSums
  <2> QED
    BY <1>3, <2>1, <2>2
<1>12. \A p \in Player \ {u} : Worth(vault', p) = Worth(vault, p)
  <2> SUFFICES ASSUME NEW p \in Player \ {u} PROVE Worth(vault', p) = Worth(vault, p)
    OBVIOUS
  <2>1. p # House /\ p # u /\ Worth(vault, p) \in Int
    BY <1>1, Names, VaultSums
  <2>2. Worth(z, p) = Worth(vault, p) + 0 /\ Worth(vault', p) = Worth(z, p) + 0
    BY <1>5, <1>6, <2>1 DEF Moved
  <2> QED
    BY <2>1, <2>2
<1>13. NoDebtor(vault) => NoDebtor(vault')
  <2> SUFFICES ASSUME NoDebtor(vault), NEW p \in Player
               PROVE  vault'.chips[p] >= 0 /\ vault'.land[p] >= 0
    BY DEF NoDebtor
  <2>1. vault.chips[p] >= 0 /\ vault.land[p] >= 0 /\ p \in Holder /\ p # House
    BY Names DEF NoDebtor
  <2>2. CASE p = u
    BY <1>1, <1>3, <1>5, <1>6, <1>8, <2>1, <2>2 DEF Moved
  <2>3. CASE p # u
    BY <1>5, <1>6, <2>1, <2>3 DEF Moved
  <2> QED
    BY <2>2, <2>3
<1> QED
  BY <1>5, <1>6, <1>7, <1>9, <1>10, <1>11, <1>12, <1>13 DEF n, Moved

\* A bet at the wheel or on a board.
LEMMA RebetEffect ==
  ASSUME TypeOK, NEW s \in Session, NEW u \in Player, NEW n \in Bets,
         CanFund(RefundOne(vault, s, u), u, n),
         vault' = Hold(RefundOne(vault, s, u), s, u, n)
  PROVE  /\ Kept(vault, vault') /\ SameWorth(vault, vault')
         /\ vault'.book[s][u] = n
         /\ \A p \in Player \ {u} : vault'.book[s][p] = vault.book[s][p]
         /\ \A x \in Session \ {s} : SameAt(vault, vault', x)
         /\ vault'.chips[s] - Staked(vault', s) = vault.chips[s] - Staked(vault, s)
         /\ \A h \in Holder \ (Player \union {s}) : vault'.chips[h] = vault.chips[h]
         /\ NoDebtor(vault) => NoDebtor(vault')
<1>1. vault \in Vaults /\ n \in Nat
  BY Amounts DEF TypeOK, MoneyTyped
<1>2. /\ vault' \in Vaults
      /\ vault'.book[s][u] = n
      /\ \A p \in Player \ {u} : vault'.book[s][p] = vault.book[s][p]
      /\ \A x \in Session \ {s} : vault'.book[x] = vault.book[x]
      /\ \A x \in Session \ {s} : Staked(vault', x) = Staked(vault, x)
      /\ \A h \in Holder \ (Player \union {s}) : vault'.chips[h] = vault.chips[h]
      /\ vault'.chips[s] - Staked(vault', s) = vault.chips[s] - Staked(vault, s)
      /\ \A p \in Player : vault.chips[p] >= 0 /\ vault.land[p] >= 0
                             => vault'.chips[p] >= 0 /\ vault'.land[p] >= 0
      /\ Backing(vault') = Backing(vault)
      /\ Excess(vault') = Excess(vault)
      /\ \A p \in Player : Worth(vault', p) = Worth(vault, p)
  BY <1>1, RebetFacts
<1>3. \A x \in Session \ {s} : SameAt(vault, vault', x)
  BY <1>2, Names DEF SameAt
<1> QED
  BY <1>2, <1>3 DEF Kept, SameWorth, NoDebtor

LEMMA RefundEffect ==
  ASSUME TypeOK, NEW s \in Session, vault' = Refund(vault, s)
  PROVE  /\ Kept(vault, vault') /\ SameWorth(vault, vault')
         /\ \A u \in Player : vault'.book[s][u] = 0
         /\ Staked(vault', s) = 0
         /\ vault'.chips[s] = vault.chips[s] - Staked(vault, s)
         /\ \A x \in Session \ {s} : SameAt(vault, vault', x)
         /\ \A h \in Holder \ (Player \union {s}) : vault'.chips[h] = vault.chips[h]
         /\ NoDebtor(vault) => NoDebtor(vault')
<1>1. vault \in Vaults
  BY DEF TypeOK, MoneyTyped
<1>2. /\ vault' \in Vaults
      /\ vault'.land = vault.land
      /\ \A u \in Player : vault'.book[s][u] = 0
      /\ \A u \in Player : vault'.chips[u] = vault.chips[u] + vault.book[s][u]
      /\ \A x \in Session \ {s} : vault'.book[x] = vault.book[x]
      /\ \A x \in Session \ {s} : Staked(vault', x) = Staked(vault, x)
      /\ \A h \in Holder \ (Player \union {s}) : vault'.chips[h] = vault.chips[h]
      /\ vault'.chips[s] = vault.chips[s] - Staked(vault, s)
      /\ Staked(vault', s) = 0
      /\ Backing(vault') = Backing(vault)
      /\ Excess(vault') = Excess(vault)
      /\ \A u \in Player : Worth(vault', u) = Worth(vault, u)
  BY <1>1, RefundFacts
<1>3. \A x \in Session \ {s} : SameAt(vault, vault', x)
  BY <1>2, Names DEF SameAt
<1>4. NoDebtor(vault) => NoDebtor(vault')
  <2>1. \A u \in Player : vault.chips[u] \in Int /\ vault.book[s][u] \in Nat
    BY <1>1, Names, VaultFacts
  <2> QED
    BY <1>2, <2>1 DEF NoDebtor
<1> QED
  BY <1>2, <1>3, <1>4 DEF Kept, SameWorth

\* Free chips become Land.
LEMMA RedeemEffect ==
  ASSUME TypeOK, NEW u \in Player, vault' = RedeemAll(vault, u)
  PROVE  /\ Kept(vault, vault') /\ SameWorth(vault, vault')
         /\ vault'.book = vault.book
         /\ vault'.chips[u] = 0
         /\ \A h \in Holder \ {u} : vault'.chips[h] = vault.chips[h]
         /\ NoDebtor(vault) => NoDebtor(vault')
<1>1. vault \in Vaults
  BY DEF TypeOK, MoneyTyped
<1>2. /\ vault' \in Vaults
      /\ vault'.book = vault.book
      /\ vault'.chips[u] = 0 /\ vault'.land[u] = vault.land[u] + vault.chips[u]
      /\ \A p \in Player \ {u} : vault'.chips[p] = vault.chips[p] /\ vault'.land[p] = vault.land[p]
      /\ \A h \in Holder \ Player : vault'.chips[h] = vault.chips[h]
      /\ Backing(vault') = Backing(vault)
      /\ Excess(vault') = Excess(vault)
      /\ \A p \in Player : Worth(vault', p) = Worth(vault, p)
  BY <1>1, RedeemAllFacts
<1>3. NoDebtor(vault) => NoDebtor(vault')
  <2>1. vault.chips[u] \in Int /\ vault.land[u] \in Int
    BY <1>1, Names, VaultFacts
  <2> QED
    BY <1>2, <2>1 DEF NoDebtor
<1>4. \A h \in Holder \ {u} : vault'.chips[h] = vault.chips[h]
  BY <1>2
<1> QED
  BY <1>2, <1>3, <1>4 DEF Kept, SameWorth

\* What Escrow.settle does to the vault when it pays the whole holder out.
PaidOut(v, s, pay, w) ==
  /\ w \in Vaults /\ Backing(w) = Backing(v)
  /\ Matches(v, s) => Excess(w) = Excess(v)
  /\ \A u \in Player : /\ NetOf(v, s, pay, u) \in Int
                       /\ NetOf(v, s, pay, u) >= -v.book[s][u]
                       /\ Worth(w, u) = Worth(v, u) + NetOf(v, s, pay, u)
  /\ \A u \in Player : w.book[s][u] = 0
  /\ Staked(w, s) = 0
  /\ w.chips[s] = 0
  /\ \A x \in Session \ {s} : SameAt(v, w, x)
  /\ w.chips[House] = v.chips[House]
  /\ w.chips[Quarantine] = v.chips[Quarantine]
  /\ w.chips[Jackpot] >= v.chips[Jackpot]
  /\ NoDebtor(v) => NoDebtor(w)

LEMMA SettleEffect ==
  ASSUME TypeOK, NEW s \in Session, NEW D \in SUBSET (Player \union {Jackpot}),
         NEW pay \in [D -> Nat], SettlePays(vault, s, pay),
         vault' = Settle(vault, s, pay)
  PROVE  PaidOut(vault, s, pay, vault')
<1>1. vault \in Vaults /\ D \subseteq Player \union {Jackpot} /\ pay \in [D -> Int]
      /\ vault' = Settle(vault, s, pay)
  BY DEF TypeOK, MoneyTyped
<1>2. SettledBy(vault, s, D, pay, vault')
  BY <1>1, SettleFacts
<1>3. /\ vault' \in Vaults
      /\ vault'.land = vault.land /\ vault'.pool = vault.pool
      /\ vault'.chips[s] = vault.chips[s] - SumFunction(pay) /\ Staked(vault', s) = 0
      /\ \A h \in D : vault'.chips[h] = vault.chips[h] + pay[h]
      /\ \A h \in Holder \ (D \union {s}) : vault'.chips[h] = vault.chips[h]
      /\ \A u \in Player : vault'.book[s][u] = 0
      /\ \A x \in Session \ {s} : vault'.book[x] = vault.book[x]
      /\ \A x \in Session \ {s} : Staked(vault', x) = Staked(vault, x)
      /\ Backing(vault') = Backing(vault)
      /\ SumFunction(pay) \in Int
      /\ Excess(vault') = Excess(vault) - SumFunction(pay) + Staked(vault, s)
      /\ \A u \in Player : Worth(vault', u) = Worth(vault, u) + NetOf(vault, s, pay, u)
  BY <1>2 DEF SettledBy
<1>4. SumFunction(pay) = vault.chips[s] /\ vault.chips[s] \in Int
      /\ Excess(vault) \in Int /\ Staked(vault, s) \in Int
  BY <1>1, Names, VaultFacts, VaultSums DEF SettlePays
<1>5. vault'.chips[s] = 0 /\ (Matches(vault, s) => Excess(vault') = Excess(vault))
  BY <1>3, <1>4 DEF Matches
<1>6. \A u \in Player : /\ NetOf(vault, s, pay, u) \in Int
                        /\ NetOf(vault, s, pay, u) >= -vault.book[s][u]
  <2>1. \A u \in Player : At(pay, u) \in Nat /\ vault.book[s][u] \in Nat
    BY <1>1, VaultFacts DEF At
  <2> QED
    BY <2>1 DEF NetOf
<1>7. \A x \in Session \ {s} : SameAt(vault, vault', x)
  BY <1>1, <1>3, Names DEF SameAt
<1>8. /\ House \in Holder \ (D \union {s}) /\ Quarantine \in Holder \ (D \union {s})
      /\ Jackpot \in Holder \ {s} /\ Player \subseteq Holder \ {s}
  BY <1>1, Names
<1>9. \A h \in Holder \ {s} : vault'.chips[h] >= vault.chips[h]
  <2>1. \A h \in Holder : vault.chips[h] \in Int
    BY <1>1, VaultFacts
  <2>2. \A h \in D : pay[h] \in Nat
    OBVIOUS
  <2> QED
    BY <1>3, <2>1, <2>2
<1>10. NoDebtor(vault) => NoDebtor(vault')
  <2>1. \A u \in Player : vault.chips[u] \in Int /\ vault'.chips[u] \in Int
    BY <1>1, <1>3, Names, VaultFacts
  <2> QED
    BY <1>3, <1>8, <1>9, <2>1 DEF NoDebtor
<1> QED
  BY <1>3, <1>5, <1>6, <1>7, <1>8, <1>9, <1>10 DEF PaidOut

LEMMA CollectStakesEffect ==
  ASSUME TypeOK, NEW s \in Pvp, NEW us \in SUBSET Player, NEW n \in Bets,
         CollectStakes(s, us, n)
  PROVE  /\ Kept(vault, vault') /\ SameWorth(vault, vault')
         /\ \A u \in us : vault'.book[s][u] = vault.book[s][u] + n
         /\ \A u \in Player \ us : vault'.book[s][u] = vault.book[s][u]
         /\ \A x \in Session \ {s} : SameAt(vault, vault', x)
         /\ vault'.chips[s] - Staked(vault', s) = vault.chips[s] - Staked(vault, s)
         /\ \A h \in Holder \ (Player \union {s}) : vault'.chips[h] = vault.chips[h]
         /\ NoDebtor(vault) => NoDebtor(vault')
<1>1. /\ vault \in Vaults /\ n \in Nat /\ s \in Session
      /\ EachCanFund(vault, us, n)
      /\ vault' = HoldAll(vault, s, us, n)
  BY Amounts, SessionNames DEF TypeOK, MoneyTyped, CollectStakes, EachCanFund
<1>2. HeldBy(vault, s, us, n, vault')
  BY <1>1, HoldAllFacts
<1>3. \A x \in Session \ {s} : SameAt(vault, vault', x)
  BY <1>2, Names DEF SameAt, HeldBy
<1> QED
  BY <1>2, <1>3 DEF Kept, SameWorth, NoDebtor, HeldBy

\* Bets of the memory: what they may cost the house, and their result.
LEMMA WagerFacts ==
  ASSUME NEW f \in Wagers
  PROVE  /\ \A u \in Player : f[u].amount \in Nat /\ BetDebt(f[u]) \in Nat
         /\ TableDebt(f) \in Nat
         /\ TableDebt(f) = SumFunctionOnSet([u \in Player |-> BetDebt(f[u])], Player)
<1>1. \A u \in Player : /\ f[u].amount \in Nat
                        /\ f[u].amount > 0 => Odds[f[u].type] - 1 \in Nat
  BY Amounts DEF Wagers, BetRows
<1>2. \A u \in Player : BetDebt(f[u]) \in Nat
  <2> SUFFICES ASSUME NEW u \in Player PROVE BetDebt(f[u]) \in Nat
    OBVIOUS
  <2> DEFINE a == f[u].amount
             k == IF a > 0 THEN Odds[f[u].type] - 1 ELSE 0
  <2>1. a \in Nat /\ k \in Nat
    BY <1>1
  <2>2. BetDebt(f[u]) = a * k
    BY DEF BetDebt
  <2> HIDE DEF a, k
  <2> QED
    BY <2>1, <2>2
<1> DEFINE d == [u \in Player |-> BetDebt(f[u])]
<1>3. TableDebt(f) = SumFunctionOnSet(d, Player)
  BY DEF TableDebt, SumFunction
<1>4. \A u \in Player : d[u] \in Nat
  BY <1>2
<1> HIDE DEF d
<1>5. TableDebt(f) \in Nat
  BY <1>3, <1>4, HolderFinite, SumNat
<1> QED
  BY <1>1, <1>2, <1>3, <1>5 DEF d

LEMMA NobodyBetsTyped ==
  NobodyBets \in Wagers /\ TableDebt(NobodyBets) = 0
<1>1. NobodyBets \in Wagers /\ \A u \in Player : NobodyBets[u].amount = 0
  BY DEF NobodyBets, NoBet, Wagers, BetRows
<1> DEFINE d == [u \in Player |-> BetDebt(NobodyBets[u])]
<1>2. \A u \in Player : d[u] = 0
  BY <1>1 DEF BetDebt
<1>3. TableDebt(NobodyBets) = SumFunctionOnSet(d, Player)
  BY DEF TableDebt, SumFunction
<1> HIDE DEF d
<1> QED
  BY <1>1, <1>2, <1>3, HolderFinite, SumZero

LEMMA NetFacts ==
  ASSUME TypeOK, NEW s \in Roulette, NEW hit
  PROVE  /\ RouletteNet(s, hit) \in [Player -> Int]
         /\ \A u \in Player :
              /\ RouletteNet(s, hit)[u] >= -bets[s][u].amount
              /\ RouletteNet(s, hit)[u] =< BetDebt(bets[s][u])
              /\ bets[s][u].amount = 0 => RouletteNet(s, hit)[u] = 0
<1>1. bets[s] \in Wagers
  BY DEF TypeOK, TablesTyped
<1>2. \A u \in Player : /\ bets[s][u].amount \in Nat
                        /\ bets[s][u].amount > 0 => Odds[bets[s][u].type] \in Nat
  BY <1>1, Amounts DEF Wagers, BetRows
<1>3. ASSUME NEW u \in Player
      PROVE  /\ PayoutOf(bets[s][u], hit) \in Nat
             /\ PayoutOf(bets[s][u], hit) - bets[s][u].amount =< BetDebt(bets[s][u])
             /\ bets[s][u].amount = 0 => PayoutOf(bets[s][u], hit) = 0
  <2> DEFINE a == bets[s][u].amount
             k == Odds[bets[s][u].type]
             y == PayoutOf(bets[s][u], hit)
             d == BetDebt(bets[s][u])
  <2>1. a \in Nat /\ (a > 0 => k \in Nat)
    BY <1>2
  <2>2. y = 0 \/ (a > 0 /\ y = a * k)
    BY DEF PayoutOf
  <2>3. /\ a = 0 => d = a * 0
        /\ a > 0 => d = a * (k - 1)
    BY <2>1 DEF BetDebt
  <2>4. d \in Nat
    BY <1>1, WagerFacts
  <2>5. a = 0 => y = 0
    BY <2>1, <2>2
  <2> HIDE DEF a, k, y, d
  <2>6. a > 0 => a * (k - 1) = a * k - a
    BY <2>1
  <2>7. a > 0 => a * k \in Nat
    BY <2>1
  <2>8. y \in Nat
    BY <2>2, <2>7
  <2>9. y - a =< d
    <3>1. CASE y = 0
      BY <2>1, <2>4, <3>1
    <3>2. CASE a > 0 /\ y = a * k
      BY <2>3, <2>4, <2>6, <2>7, <3>2
    <3> QED
      BY <2>2, <3>1, <3>2
  <2> QED
    BY <2>5, <2>8, <2>9 DEF a, k, y, d
<1>4. \A u \in Player : RouletteNet(s, hit)[u] = PayoutOf(bets[s][u], hit) - bets[s][u].amount
  BY DEF RouletteNet
<1>5. RouletteNet(s, hit) \in [Player -> Int]
  <2>1. \A u \in Player : PayoutOf(bets[s][u], hit) - bets[s][u].amount \in Int
    BY <1>2, <1>3
  <2> QED
    BY <2>1 DEF RouletteNet
<1>6. \A u \in Player :
         /\ RouletteNet(s, hit)[u] >= -bets[s][u].amount
         /\ RouletteNet(s, hit)[u] =< BetDebt(bets[s][u])
         /\ bets[s][u].amount = 0 => RouletteNet(s, hit)[u] = 0
  <2> SUFFICES ASSUME NEW u \in Player
               PROVE  /\ RouletteNet(s, hit)[u] >= -bets[s][u].amount
                      /\ RouletteNet(s, hit)[u] =< BetDebt(bets[s][u])
                      /\ bets[s][u].amount = 0 => RouletteNet(s, hit)[u] = 0
    OBVIOUS
  <2>1. /\ PayoutOf(bets[s][u], hit) \in Nat
        /\ PayoutOf(bets[s][u], hit) - bets[s][u].amount =< BetDebt(bets[s][u])
        /\ bets[s][u].amount = 0 => PayoutOf(bets[s][u], hit) = 0
        /\ bets[s][u].amount \in Nat
    BY <1>2, <1>3
  <2> QED
    BY <1>4, <2>1
<1> QED
  BY <1>5, <1>6

LEMMA SpunEffect ==
  ASSUME TypeOK, NEW s \in Roulette, NEW hit, vault' = Spun(vault, s, hit)
  PROVE  /\ Kept(vault, vault')
         /\ \A u \in Player : Worth(vault', u) = Worth(vault, u) + RouletteNet(s, hit)[u]
         /\ \A u \in Player : vault'.book[s][u] = 0
         /\ Staked(vault', s) = 0
         /\ vault'.chips[s] = vault.chips[s] - Staked(vault, s)
         /\ \A x \in Session \ {s} : SameAt(vault, vault', x)
         /\ vault'.chips[House] = vault.chips[House] - SumFunction(RouletteNet(s, hit))
         /\ vault'.chips[Quarantine] = vault.chips[Quarantine]
         /\ vault'.chips[Jackpot] = vault.chips[Jackpot]
         /\ (\A u \in Player : vault.book[s][u] = bets[s][u].amount)
               /\ NoDebtor(vault) => NoDebtor(vault')
<1> DEFINE net == RouletteNet(s, hit)
<1>1. vault \in Vaults /\ s \in Session /\ vault' = Pay(Refund(vault, s), House, net)
  BY SessionNames DEF TypeOK, MoneyTyped, Spun
<1>2. /\ net \in [Player -> Int]
      /\ \A u \in Player : net[u] >= -bets[s][u].amount
  BY NetFacts
<1> HIDE DEF net
<1>3. /\ vault' \in Vaults
      /\ vault'.land = vault.land
      /\ \A u \in Player : vault'.book[s][u] = 0
      /\ \A u \in Player : vault'.chips[u] = (vault.chips[u] + vault.book[s][u]) + net[u]
      /\ vault'.chips[House] = vault.chips[House] - SumFunction(net)
      /\ vault'.chips[s] = vault.chips[s] - Staked(vault, s)
      /\ Staked(vault', s) = 0
      /\ \A h \in Holder \ (Player \union {s, House}) : vault'.chips[h] = vault.chips[h]
      /\ \A x \in Session \ {s} : vault'.book[x] = vault.book[x]
      /\ \A x \in Session \ {s} : Staked(vault', x) = Staked(vault, x)
      /\ SumFunction(net) \in Int
      /\ Backing(vault') = Backing(vault)
      /\ Excess(vault') = Excess(vault)
      /\ \A u \in Player : Worth(vault', u) = Worth(vault, u) + net[u]
  BY <1>1, <1>2, SpunFacts
<1>4. \A x \in Session \ {s} : SameAt(vault, vault', x)
  BY <1>1, <1>3, Names DEF SameAt
<1>5. /\ Quarantine \in Holder \ (Player \union {s, House})
      /\ Jackpot \in Holder \ (Player \union {s, House})
  BY <1>1, Names
<1>6. ASSUME \A u \in Player : vault.book[s][u] = bets[s][u].amount, NoDebtor(vault)
      PROVE  NoDebtor(vault')
  <2> SUFFICES ASSUME NEW u \in Player
               PROVE  vault'.chips[u] >= 0 /\ vault'.land[u] >= 0
    BY DEF NoDebtor
  <2>1. /\ vault.chips[u] \in Int /\ vault.book[s][u] \in Nat
        /\ vault.chips[u] >= 0 /\ vault.land[u] >= 0
    BY <1>1, <1>6, Names, VaultFacts DEF NoDebtor
  <2>2. net[u] \in Int /\ net[u] >= -vault.book[s][u]
    BY <1>2, <1>6
  <2> QED
    BY <1>3, <2>1, <2>2
<1> QED
  BY <1>3, <1>4, <1>5, <1>6 DEF Kept, net


LEMMA SettlePvpEffect ==
  ASSUME TypeOK, NEW s \in Pvp, NEW W \in SUBSET Player, NEW first \in Player,
         SettlePvp(s, W, first)
  PROVE  /\ PaidOut(vault, s, Shares(Staked(vault, s), W, first), vault')
         /\ s \in Session
<1> DEFINE pay == Shares(Staked(vault, s), W, first)
<1>1. /\ vault \in Vaults /\ s \in Session
      /\ SettlePays(vault, s, pay) /\ vault' = Settle(vault, s, pay)
      /\ W # {} => first \in W
  BY SessionNames DEF TypeOK, MoneyTyped, SettlePvp
<1>2. Staked(vault, s) \in Nat
  BY <1>1, VaultSums
<1>3. PICK D \in SUBSET (Player \union {Jackpot}) : pay \in [D -> Nat]
  BY <1>1, <1>2, SharesFacts
<1> HIDE DEF pay
<1>4. PaidOut(vault, s, pay, vault')
  BY <1>1, <1>3, SettleEffect
<1> QED
  BY <1>1, <1>4 DEF pay

\* The two ways a board ends: everyone is refunded, or the winners are paid.
LEMMA SettleBoardEffect ==
  ASSUME TypeOK, NEW b \in Board, NEW r, NEW lead, SettleBoard(b, r, lead)
  PROVE  /\ Matches(vault, b) /\ b \in Session
         /\ \/ vault' = Refund(vault, b) /\ stats' = stats
            \/ /\ PaidOut(vault, b, BoardPay(b, r.result, lead), vault')
               /\ stats' = StatsAfter(vault, b, BoardPay(b, r.result, lead))
<1>1. vault \in Vaults /\ b \in Session /\ Matches(vault, b)
  BY SessionNames DEF TypeOK, MoneyTyped, SettleBoard
<1>2. CASE Winners(b, r.result) = {}
  BY <1>1, <1>2 DEF SettleBoard
<1>3. CASE Winners(b, r.result) # {}
  <2> DEFINE pay == BoardPay(b, r.result, lead)
             D == Winners(b, r.result) \union {Jackpot}
  <2>1. /\ lead \in Winners(b, r.result) /\ vault' = Settle(vault, b, pay)
        /\ stats' = StatsAfter(vault, b, pay)
    BY <1>3 DEF SettleBoard
  <2>2. /\ pay \in [D -> Nat] /\ SumFunction(pay) = Pot(b)
        /\ D \subseteq Player \union {Jackpot}
    BY <1>1, <2>1, BoardPayFacts
  <2>3. SettlePays(vault, b, pay) /\ D \in SUBSET (Player \union {Jackpot})
    BY <1>1, <2>2 DEF SettlePays, Matches, Pot
  <2> HIDE DEF pay, D
  <2>4. PaidOut(vault, b, pay, vault')
    BY <1>1, <2>1, <2>2, <2>3, SettleEffect
  <2> QED
    BY <1>1, <2>1, <2>4 DEF pay
<1> QED
  BY <1>2, <1>3

LEMMA CreatorFacts ==
  ASSUME NEW b \in Board
  PROVE  Creator[b] \in Player /\ BoardFee \in Nat /\ b \in Session
BY MarketAssumption

\* The fee goes from the purse of the creator to the jackpot.
LEMMA CreateEffect ==
  ASSUME TypeOK, NEW b \in Board, NEW mode, Create(b, mode)
  PROVE  /\ Kept(vault, vault')
         /\ vault'.book = vault.book
         /\ Worth(vault', Creator[b]) = Worth(vault, Creator[b]) - BoardFee
         /\ \A p \in Player \ {Creator[b]} : Worth(vault', p) = Worth(vault, p)
         /\ \A h \in Holder \ (Player \union {Jackpot}) : vault'.chips[h] = vault.chips[h]
         /\ vault'.chips[Jackpot] = vault.chips[Jackpot] + BoardFee
         /\ NoDebtor(vault) => NoDebtor(vault')
<1> DEFINE u == Creator[b]
           n == BoardFee
           z == Fund(vault, u, n)
<1>1. vault \in Vaults /\ u \in Player /\ n \in Nat /\ CanFund(vault, u, n)
      /\ vault' = Transfer(z, u, Jackpot, n) /\ z = Fund(vault, u, n)
  BY CreatorFacts DEF TypeOK, MoneyTyped, Create
<1> HIDE DEF u, n, z
<1>2. /\ z \in Vaults
      /\ z.book = vault.book
      /\ z.chips[u] >= n
      /\ \A p \in Player : vault.chips[p] >= 0 /\ vault.land[p] >= 0
                             => z.chips[p] >= 0 /\ z.land[p] >= 0
      /\ \A h \in Holder \ Player : z.chips[h] = vault.chips[h]
      /\ Backing(z) = Backing(vault)
      /\ Excess(z) = Excess(vault)
      /\ \A p \in Player : Worth(z, p) = Worth(vault, p)
  BY <1>1, FundFacts
<1>3. /\ u \in Holder /\ Jackpot \in Holder /\ u # Jackpot /\ n \in Int
      /\ {u, Jackpot} \subseteq Player \union {House, Jackpot}
      /\ Player \subseteq Holder /\ Jackpot \in Holder \ Player
  BY <1>1, Names
<1>4. Moved(z, u, Jackpot, n, vault')
  BY <1>1, <1>2, <1>3, TransferFacts
<1>5. Kept(vault, vault') /\ vault'.book = vault.book
  BY <1>2, <1>3, <1>4 DEF Kept, Moved
<1>6. \A p \in Player : Worth(vault, p) \in Int
  BY <1>1, VaultSums
<1>7. Worth(vault', u) = Worth(vault, u) - n
  <2>1. Worth(vault', u) = Worth(z, u) + -n
    BY <1>1, <1>3, <1>4 DEF Moved
  <2> QED
    BY <1>1, <1>2, <1>6, <2>1
<1>8. \A p \in Player \ {u} : Worth(vault', p) = Worth(vault, p)
  <2> SUFFICES ASSUME NEW p \in Player \ {u} PROVE Worth(vault', p) = Worth(vault, p)
    OBVIOUS
  <2>1. p # u /\ p # Jackpot
    BY Names
  <2>2. Worth(vault', p) = Worth(z, p) + 0
    BY <1>4, <2>1 DEF Moved
  <2> QED
    BY <1>2, <1>6, <2>2
<1>9. \A h \in Holder \ (Player \union {Jackpot}) : vault'.chips[h] = vault.chips[h]
  BY <1>1, <1>2, <1>4 DEF Moved
<1>10. vault'.chips[Jackpot] = vault.chips[Jackpot] + n
  BY <1>2, <1>3, <1>4 DEF Moved
<1>11. NoDebtor(vault) => NoDebtor(vault')
  <2> SUFFICES ASSUME NoDebtor(vault), NEW p \in Player
               PROVE  vault'.chips[p] >= 0 /\ vault'.land[p] >= 0
    BY DEF NoDebtor
  <2>1. z.chips[p] >= 0 /\ z.land[p] >= 0 /\ z.chips[p] \in Int /\ p \in Holder
        /\ p # Jackpot
    BY <1>2, Names, VaultFacts DEF NoDebtor
  <2>2. vault'.land[p] = z.land[p]
    BY <1>4 DEF Moved
  <2>3. CASE p = u
    <3>1. vault'.chips[u] = z.chips[u] - n
      BY <1>4 DEF Moved
    <3> QED
      BY <1>1, <1>2, <2>1, <2>2, <2>3, <3>1
  <2>4. CASE p # u
    BY <1>4, <2>1, <2>2, <2>4 DEF Moved
  <2> QED
    BY <2>3, <2>4
<1> QED
  BY <1>5, <1>7, <1>8, <1>9, <1>10, <1>11 DEF u, n

LEMMA SettleHouseEffect ==
  ASSUME TypeOK, NEW n \in Bets, SettleHouse(n)
  PROVE  /\ Kept(vault, vault') /\ SameWorth(vault, vault')
         /\ vault'.book = vault.book
         /\ vault'.chips[House] = vault.chips[House] - n
         /\ \A h \in Holder \ {House} : vault'.chips[h] = vault.chips[h]
         /\ NoDebtor(vault) => NoDebtor(vault')
<1> DEFINE c == [vault.chips EXCEPT ![House] = vault.chips[House] - n]
<1>1. /\ vault \in Vaults /\ n \in Nat /\ House \in Holder
      /\ House \notin Player \union Session \union {Quarantine}
      /\ Session \union {Quarantine} \subseteq Holder /\ Player \subseteq Holder
  BY Amounts, Names DEF TypeOK, MoneyTyped
<1>2. /\ vault.chips \in [Holder -> Int] /\ vault.land \in [Player -> Int]
      /\ vault.pool \in Int
  BY <1>1 DEF Vaults
<1>3. /\ vault'.chips = c /\ vault'.pool = vault.pool - n
      /\ vault'.book = vault.book /\ vault'.land = vault.land
      /\ vault' \in Vaults
  <2>1. vault' = [vault EXCEPT !.chips = c, !.pool = vault.pool - n]
    BY DEF SettleHouse
  <2>2. c \in [Holder -> Int] /\ vault.pool - n \in Int
    BY <1>1, <1>2
  <2> HIDE DEF c
  <2> QED
    BY <1>1, <2>1, <2>2 DEF Vaults
<1>4. /\ c \in [Holder -> Int]
      /\ c[House] = vault.chips[House] - n
      /\ \A h \in Holder \ {House} : c[h] = vault.chips[h]
  BY <1>1, <1>2
<1>5. c = [vault.chips EXCEPT ![House] = vault.chips[House] - n]
  OBVIOUS
<1> HIDE DEF c
<1>6. Outstanding(vault') = Outstanding(vault) - n
  <2>1. Outstanding(vault) = SumFunctionOnSet(vault.chips, Holder)
        /\ Outstanding(vault') = SumFunctionOnSet(c, Holder)
    BY <1>1, <1>3, VaultSums
  <2>2. \A h \in Holder \ {House} : c[h] = vault.chips[h]
    BY <1>4
  <2>3. /\ \A h \in Holder : vault.chips[h] \in Int
        /\ \A h \in Holder : c[h] \in Int
    BY <1>2, <1>4
  <2>4. SumFunctionOnSet(c, Holder)
          = SumFunctionOnSet(vault.chips, Holder) - vault.chips[House] + c[House]
    BY <1>1, <2>2, <2>3, HolderFinite, SumUpdate
  <2>5. SumFunctionOnSet(vault.chips, Holder) \in Int /\ vault.chips[House] \in Int
    BY <1>1, <2>1, <2>3, VaultSums
  <2> QED
    BY <1>1, <1>4, <2>1, <2>4, <2>5
<1>7. Backing(vault') = Backing(vault)
  <2>1. Outstanding(vault) \in Int
    BY <1>1, VaultSums
  <2> QED
    BY <1>1, <1>2, <1>3, <1>6, <2>1 DEF Backing
<1>8. Excess(vault') = Excess(vault)
  <2>1. Parked(vault') = Parked(vault)
    <3>1. \A h \in Session \union {Quarantine} : c[h] = vault.chips[h]
      BY <1>1, <1>4
    <3>2. SumFunctionOnSet(c, Session \union {Quarantine})
            = SumFunctionOnSet(vault.chips, Session \union {Quarantine})
      BY <3>1, HolderFinite, SumEqual
    <3> QED
      BY <1>3, <3>2 DEF Parked
  <2>2. AllStaked(vault') = AllStaked(vault)
    BY <1>3 DEF AllStaked, Staked
  <2> QED
    BY <2>1, <2>2 DEF Excess
<1>9. \A u \in Player : vault'.chips[u] = vault.chips[u]
  BY <1>1, <1>3, <1>4
<1>10. SameWorth(vault, vault')
  BY <1>3, <1>9 DEF SameWorth, Worth, Holdings, RowsOf
<1>11. NoDebtor(vault) => NoDebtor(vault')
  BY <1>3, <1>9 DEF NoDebtor
<1> QED
  BY <1>3, <1>4, <1>7, <1>8, <1>10, <1>11 DEF Kept

\* A row removed by hand leaves its chips with the holder.
LEMMA RemoveRowEffect ==
  ASSUME TypeOK, NEW s \in Session, NEW u \in Player, RemoveRow(s, u)
  PROVE  /\ vault' \in Vaults /\ Backing(vault') = Backing(vault)
         /\ vault'.chips = vault.chips /\ vault'.land = vault.land
         /\ vault'.book[s][u] = 0
         /\ \A p \in Player \ {u} : vault'.book[s][p] = vault.book[s][p]
         /\ \A x \in Session \ {s} : SameAt(vault, vault', x)
         /\ Staked(vault', s) = Staked(vault, s) - vault.book[s][u]
         /\ Excess(vault') = Excess(vault) + vault.book[s][u]
         /\ Worth(vault', u) = Worth(vault, u) - vault.book[s][u]
         /\ \A p \in Player \ {u} : Worth(vault', p) = Worth(vault, p)
<1> DEFINE row == [vault.book[s] EXCEPT ![u] = 0]
<1>1. vault \in Vaults /\ vault.book[s] \in [Player -> Nat] /\ vault.book[s][u] \in Nat
  BY DEF TypeOK, MoneyTyped, Vaults
<1>2. row \in [Player -> Nat] /\ row[u] = 0
      /\ \A p \in Player \ {u} : row[p] = vault.book[s][p]
  BY <1>1
<1>3. vault' = WithRows(vault, s, row)
  <2>1. vault' = [vault EXCEPT !.book[s][u] = 0]
    BY DEF RemoveRow
  <2> QED
    BY <1>1, <2>1 DEF WithRows, Vaults
<1> HIDE DEF row
<1>4. /\ vault' \in Vaults
      /\ vault'.chips = vault.chips /\ vault'.land = vault.land
      /\ vault'.book[s] = row
      /\ \A x \in Session \ {s} : vault'.book[x] = vault.book[x]
      /\ \A x \in Session \ {s} : Staked(vault', x) = Staked(vault, x)
      /\ Staked(vault', s) = SumFunction(row)
      /\ AllStaked(vault') = AllStaked(vault) - Staked(vault, s) + SumFunction(row)
      /\ \A p \in Player : RowsOf(vault', p)
                             = RowsOf(vault, p) - vault.book[s][p] + row[p]
      /\ Backing(vault') = Backing(vault)
      /\ Parked(vault') = Parked(vault)
  BY <1>1, <1>2, <1>3, RowsChange
<1>5. SumFunction(row) = Staked(vault, s) - vault.book[s][u]
      /\ Staked(vault, s) \in Nat
  <2>1. SumFunction(row) = SumFunctionOnSet(row, Player)
    BY <1>2, SumOf
  <2>2. Staked(vault, s) = SumFunctionOnSet(vault.book[s], Player)
        /\ Staked(vault, s) \in Nat
    BY <1>1, VaultSums
  <2>3. /\ \A p \in Player : vault.book[s][p] \in Int
        /\ \A p \in Player : row[p] \in Int
    BY <1>1, <1>2
  <2>4. SumFunctionOnSet(row, Player)
          = SumFunctionOnSet(vault.book[s], Player) - vault.book[s][u] + row[u]
    BY <1>2, <2>3, HolderFinite, SumUpdate
  <2> QED
    BY <1>1, <1>2, <2>1, <2>2, <2>4
<1>6. Excess(vault') = Excess(vault) + vault.book[s][u]
  <2>1. AllStaked(vault) \in Int /\ Parked(vault) \in Int
    BY <1>1, VaultSums
  <2> QED
    BY <1>1, <1>4, <1>5, <2>1 DEF Excess
<1>7. \A p \in Player : Holdings(vault', p) = Holdings(vault, p)
                        /\ Holdings(vault, p) \in Int
  BY <1>1, <1>4, Names, VaultFacts DEF Holdings
<1>8. \A p \in Player : RowsOf(vault, p) \in Int /\ vault.book[s][p] \in Int
  BY <1>1, VaultSums, VaultFacts
<1>9. Worth(vault', u) = Worth(vault, u) - vault.book[s][u]
  BY <1>2, <1>4, <1>7, <1>8 DEF Worth
<1>10. \A p \in Player \ {u} : Worth(vault', p) = Worth(vault, p)
  BY <1>2, <1>4, <1>7, <1>8 DEF Worth
<1>11. \A x \in Session \ {s} : SameAt(vault, vault', x)
  BY <1>4 DEF SameAt
<1> QED
  BY <1>2, <1>4, <1>5, <1>6, <1>9, <1>10, <1>11

LEMMA SweepEffect ==
  ASSUME TypeOK, NEW s \in Session, vault' = Sweep(s)
  PROVE  /\ Kept(vault, vault') /\ SameWorth(vault, vault')
         /\ \A u \in Player : vault'.book[s][u] \in {0, vault.book[s][u]}
         /\ s \in LiveHolders => vault' = vault
         /\ s \in Tables => \/ ~HasRows(vault', s)
                            \/ HasRows(vault, s) /\ ~Matches(vault, s)
         /\ s \in Board \ LiveHolders => vault'.book = vault.book /\ vault'.chips[s] = 0
         /\ \/ vault' = vault
            \/ vault'.chips[s] = 0
         /\ \A x \in Session \ {s} : SameAt(vault, vault', x)
         /\ vault'.chips[House] = vault.chips[House]
         /\ vault'.chips[Jackpot] = vault.chips[Jackpot]
         /\ vault.chips[s] >= 0 => vault'.chips[Quarantine] >= vault.chips[Quarantine]
         /\ vault'.chips[s] - Staked(vault', s) \in
              {0, vault.chips[s] - Staked(vault, s), -Staked(vault, s)}
         /\ NoDebtor(vault) => NoDebtor(vault')
<1>1. vault \in Vaults /\ s \in Holder /\ s # House /\ s # Jackpot /\ s # Quarantine
      /\ s \notin Player /\ Quarantine \in Holder /\ Quarantine \notin Player
      /\ Quarantine # House /\ Quarantine # Jackpot
      /\ vault.chips[s] \in Int /\ vault.chips[Quarantine] \in Int
      /\ Staked(vault, s) \in Nat
      /\ \A u \in Player : vault.book[s][u] \in Nat
  BY Names, VaultFacts, VaultSums DEF TypeOK, MoneyTyped
<1>2. CASE vault' = vault /\ (s \in Tables => HasRows(vault, s) /\ ~Matches(vault, s))
           /\ ~(s \in Board \ LiveHolders)
  BY <1>1, <1>2 DEF Kept, SameWorth, SameAt
<1>3. CASE vault' = Refund(vault, s) /\ s \in Tables /\ s \notin LiveHolders
           /\ Matches(vault, s)
  <2>1. /\ Kept(vault, vault') /\ SameWorth(vault, vault')
        /\ \A u \in Player : vault'.book[s][u] = 0
        /\ Staked(vault', s) = 0
        /\ vault'.chips[s] = vault.chips[s] - Staked(vault, s)
        /\ \A x \in Session \ {s} : SameAt(vault, vault', x)
        /\ \A h \in Holder \ (Player \union {s}) : vault'.chips[h] = vault.chips[h]
        /\ NoDebtor(vault) => NoDebtor(vault')
    BY <1>3, RefundEffect
  <2>2. /\ House \in Holder \ (Player \union {s}) /\ Jackpot \in Holder \ (Player \union {s})
        /\ Quarantine \in Holder \ (Player \union {s})
    BY <1>1, Names
  <2>3. vault'.chips[s] = 0
    BY <1>1, <1>3, <2>1 DEF Matches
  <2>4. ~HasRows(vault', s)
    BY <2>1 DEF HasRows
  <2>5. s \notin Board \ LiveHolders
    BY <1>3 DEF Tables
  <2> QED
    BY <1>1, <1>3, <2>1, <2>2, <2>3, <2>4, <2>5
<1>4. CASE /\ vault' = Transfer(vault, s, Quarantine, vault.chips[s])
           /\ s \notin LiveHolders
           /\ s \in Tables => ~HasRows(vault, s)
  <2> DEFINE n == vault.chips[s]
  <2>1. n \in Int /\ Quarantine # s /\ s # Quarantine
    BY <1>1
  <2> HIDE DEF n
  <2>2. Moved(vault, s, Quarantine, n, vault')
    BY <1>1, <1>4, <2>1, TransferFacts DEF n
  <2>3. /\ vault'.chips[s] = 0 /\ vault'.book = vault.book /\ vault'.land = vault.land
        /\ vault'.chips[Quarantine] = vault.chips[Quarantine] + n
        /\ \A h \in Holder \ {s, Quarantine} : vault'.chips[h] = vault.chips[h]
    BY <1>1, <2>2 DEF Moved, n
  <2>4. Kept(vault, vault')
    BY <2>2 DEF Kept, Moved
  <2>5. SameWorth(vault, vault')
    <3> SUFFICES ASSUME NEW u \in Player PROVE Worth(vault', u) = Worth(vault, u)
      BY DEF SameWorth
    <3>1. Worth(vault', u) = Worth(vault, u) + 0 /\ Worth(vault, u) \in Int
      BY <1>1, <2>2, VaultSums DEF Moved
    <3> QED
      BY <3>1
  <2>6. \A x \in Session : Staked(vault', x) = Staked(vault, x)
    BY <2>3 DEF Staked
  <2>7. \A x \in Session \ {s} : SameAt(vault, vault', x)
    BY <1>1, <2>3, <2>6, Names DEF SameAt
  <2>8. NoDebtor(vault) => NoDebtor(vault')
    BY <1>1, <2>3, Names DEF NoDebtor
  <2>9. s \in Tables => ~HasRows(vault', s)
    BY <1>4, <2>3 DEF HasRows
  <2>10. vault.chips[s] >= 0 => vault'.chips[Quarantine] >= vault.chips[Quarantine]
    BY <1>1, <2>3 DEF n
  <2>11. /\ vault'.chips[House] = vault.chips[House]
         /\ vault'.chips[Jackpot] = vault.chips[Jackpot]
    BY <1>1, <2>3, Names
  <2>12. vault'.chips[s] - Staked(vault', s) = -Staked(vault, s)
    BY <1>1, <2>3, <2>6
  <2>13. \A u \in Player : vault'.book[s][u] = vault.book[s][u]
    BY <2>3
  <2> QED
    BY <1>1, <1>4, <2>3, <2>4, <2>5, <2>7, <2>8, <2>9, <2>10, <2>11, <2>12, <2>13
<1>5. s \in LiveHolders => s \in Board
  BY DEF LiveHolders
<1> QED
  BY <1>2, <1>3, <1>4, <1>5 DEF Sweep, Tables

-----------------------------------------------------------------------------
(* The steps, sorted by what they touch.                                   *)

\* A step of a table: nothing happens to boards and to the recovery.
Aside == Outside /\ UNCHANGED board

\* What a board writes down without moving money.
Noted(b, r) ==
  board[b].status \in LiveStatuses /\ r.status \in LiveStatuses /\ OnlyBoard(b, r)

BoardEnds(b, r, lead) ==
  board[b].status \in LiveStatuses /\ SettleBoard(b, r, lead)

LEMMA BoardRowFacts ==
  ASSUME TypeOK, NEW b \in Board
  PROVE  /\ board[b] \in BoardRows
         /\ board[b].pick \in [Player -> Option \union {NoPick}]
         /\ board[b].approved \subseteq Player
         /\ BoardBettors(b) \subseteq Player
BY DEF TypeOK, RecoveryTyped, BoardRows, BoardBettors

LEMMA MarketKinds ==
  ASSUME TypeOK, MarketStep
  PROVE  \/ \E b \in Board, mode \in Modes : Create(b, mode)
         \/ \E b \in Board, u \in Player, o \in Option, n \in Bets : Bet(b, u, o, n)
         \/ \E b \in Board, r \in BoardRows : Noted(b, r)
         \/ \E b \in Board, r \in BoardRows, lead \in Player : BoardEnds(b, r, lead)
         \/ \E b \in Board : AdminVoid(b)
<1> DEFINE Goal == \/ \E b \in Board, r \in BoardRows : Noted(b, r)
                   \/ \E b \in Board, r \in BoardRows, lead \in Player :
                        BoardEnds(b, r, lead)
<1>1. ASSUME NEW b \in Board, Deadline(b) PROVE Goal
  <2> DEFINE r == [board[b] EXCEPT !.late = TRUE]
  <2>1. r \in BoardRows /\ r.status \in LiveStatuses /\ board[b].status \in LiveStatuses
    BY <1>1, BoardRowFacts DEF Deadline, BoardRows, LiveStatuses
  <2>2. OnlyBoard(b, r)
    BY <1>1 DEF Deadline
  <2> QED
    BY <2>1, <2>2 DEF Noted
<1>2. ASSUME NEW b \in Board, Freeze(b) PROVE Goal
  <2> DEFINE r == [board[b] EXCEPT !.status = "frozen"]
  <2>1. r \in BoardRows /\ r.status \in LiveStatuses /\ board[b].status \in LiveStatuses
    BY <1>2, BoardRowFacts DEF Freeze, BoardRows, LiveStatuses
  <2>2. OnlyBoard(b, r)
    BY <1>2 DEF Freeze
  <2> QED
    BY <2>1, <2>2 DEF Noted
<1>3. ASSUME NEW b \in Board, Close(b) PROVE Goal
  <2> DEFINE r == [board[b] EXCEPT !.status = "closed"]
  <2>1. r \in BoardRows /\ r.status \in LiveStatuses /\ board[b].status \in LiveStatuses
    BY <1>3, BoardRowFacts DEF Close, BoardRows, LiveStatuses
  <2>2. OnlyBoard(b, r)
    BY <1>3 DEF Close
  <2> QED
    BY <2>1, <2>2 DEF Noted
<1>4. ASSUME NEW b \in Board, NEW o \in Option, Report(b, o) PROVE Goal
  <2> DEFINE r == [board[b] EXCEPT !.status = "reported", !.result = o]
  <2>1. r \in BoardRows /\ r.status \in LiveStatuses /\ board[b].status \in LiveStatuses
    BY <1>4, BoardRowFacts DEF Report, BoardRows, LiveStatuses
  <2>2. OnlyBoard(b, r)
    BY <1>4 DEF Report
  <2> QED
    BY <2>1, <2>2 DEF Noted
<1>5. ASSUME NEW b \in Board, NEW u \in Player, Dispute(b, u) PROVE Goal
  <2> DEFINE r == [board[b] EXCEPT !.status = "disputed", !.approved = @ \ {u}]
  <2>1. board[b] \in BoardRows /\ board[b].approved \ {u} \in SUBSET Player
    BY BoardRowFacts
  <2>2. r \in BoardRows /\ r.status \in LiveStatuses /\ board[b].status \in LiveStatuses
    BY <1>5, <2>1 DEF Dispute, BoardRows, LiveStatuses
  <2>3. OnlyBoard(b, r)
    BY <1>5 DEF Dispute
  <2> QED
    BY <2>2, <2>3 DEF Noted
<1>6. ASSUME NEW b \in Board, NEW u \in Player, NEW lead \in Player, Approve(b, u, lead)
      PROVE  Goal
  <2> DEFINE r == [board[b] EXCEPT !.approved = @ \union {u}]
  <2>1. board[b] \in BoardRows /\ board[b].approved \union {u} \in SUBSET Player
    BY BoardRowFacts
  <2>2. r \in BoardRows /\ r.status \in LiveStatuses /\ board[b].status \in LiveStatuses
    BY <1>6, <2>1 DEF Approve, BoardRows, LiveStatuses
  <2>3. SettleBoard(b, r, lead) \/ OnlyBoard(b, r)
    BY <1>6 DEF Approve
  <2> QED
    BY <2>2, <2>3 DEF Noted, BoardEnds
<1>7. ASSUME NEW b \in Board, NEW lead \in Player, FinalizeIfNoDispute(b, lead)
      PROVE  Goal
  <2>1. board[b] \in BoardRows /\ board[b].status \in LiveStatuses
    BY <1>7, BoardRowFacts DEF FinalizeIfNoDispute, LiveStatuses
  <2>2. BoardEnds(b, board[b], lead)
    BY <1>7, <2>1 DEF FinalizeIfNoDispute, BoardEnds
  <2> QED
    BY <2>1, <2>2
<1>8. ASSUME NEW b \in Board, NEW o \in Option, NEW lead \in Player, AdminResolve(b, o, lead)
      PROVE  Goal
  <2> DEFINE r == [board[b] EXCEPT !.status = "reported", !.result = o]
  <2>1. r \in BoardRows /\ r.status \in LiveStatuses /\ board[b].status \in LiveStatuses
    BY <1>8, BoardRowFacts DEF AdminResolve, BoardRows, LiveStatuses
  <2>2. SettleBoard(b, r, lead) \/ OnlyBoard(b, r)
    BY <1>8 DEF AdminResolve
  <2> QED
    BY <2>1, <2>2 DEF Noted, BoardEnds
<1> HIDE DEF Goal
<1>9. \/ \E b \in Board, mode \in Modes : Create(b, mode)
      \/ \E b \in Board, u \in Player, o \in Option, n \in Bets : Bet(b, u, o, n)
      \/ \E b \in Board : AdminVoid(b)
      \/ Goal
  BY <1>1, <1>2, <1>3, <1>4, <1>5, <1>6, <1>7, <1>8 DEF MarketStep
<1> QED
  BY <1>9 DEF Goal

\* Steps of the recovery and the panel that move no money and no table.
Quiet ==
  \/ Boot \/ Rerecover \/ RecoveryThrows \/ FinishRecovery
  \/ \E u \in Player : Moderate(u)
  \/ \E s \in Session : RefundFails(s)
  \/ Halt \/ Recheck \/ Reopen

LEMMA QuietFacts ==
  ASSUME Quiet
  PROVE  UNCHANGED <<vault, reserved, stats, today, risk, tableVars, board, missing>>
<1>1. ASSUME NEW u \in Player, Moderate(u)
      PROVE  UNCHANGED <<vault, reserved, stats, today, risk, tableVars, board, missing>>
  BY <1>1 DEF Moderate
<1>2. ASSUME NEW s \in Session, RefundFails(s)
      PROVE  UNCHANGED <<vault, reserved, stats, today, risk, tableVars, board, missing>>
  BY <1>2 DEF RefundFails, KeptByRecovery
<1>3. ASSUME Boot \/ Rerecover \/ RecoveryThrows \/ FinishRecovery
      PROVE  UNCHANGED <<vault, reserved, stats, today, risk, tableVars, board, missing>>
  BY <1>3 DEF Boot, Rerecover, RecoveryThrows, FinishRecovery, KeptByRecovery
<1>4. ASSUME Halt \/ Recheck \/ Reopen
      PROVE  UNCHANGED <<vault, reserved, stats, today, risk, tableVars, board, missing>>
  BY <1>4 DEF Halt, Recheck, Reopen, SetStatus, moneyVars
<1> QED
  BY <1>1, <1>2, <1>3, <1>4 DEF Quiet

\* The next-state relation, with the quiet steps and those of a board put
\* together.
Sorted ==
  \/ TableStep /\ Aside
  \/ Midnight /\ Outside /\ UNCHANGED <<status, up, tableVars, board>>
  \/ \E b \in Board, mode \in Modes : Create(b, mode) /\ Outside
  \/ \E b \in Board, u \in Player, o \in Option, n \in Bets :
       Bet(b, u, o, n) /\ Outside
  \/ \E b \in Board, r \in BoardRows : Noted(b, r) /\ Outside
  \/ \E b \in Board, r \in BoardRows, lead \in Player :
       BoardEnds(b, r, lead) /\ Outside
  \/ \E b \in Board : AdminVoid(b) /\ Outside
  \/ Crash
  \/ \E s \in Session, u \in Player : RemoveRow(s, u)
  \/ \E s \in Session : RecoverSession(s)
  \/ \E u \in Player : RedeemAtStart(u)
  \/ ReleaseReservations
  \/ \E n \in Bets : SettleHouseNow(n)
  \/ Quiet

LEMMA NextSorted ==
  ASSUME TypeOK, Next
  PROVE  Sorted
<1>1. CASE TableStep /\ Outside /\ UNCHANGED board
  BY <1>1 DEF Sorted, Aside
<1>2. CASE Midnight /\ Outside /\ UNCHANGED <<status, up, tableVars, board>>
  BY <1>2 DEF Sorted
<1>3. CASE MarketStep /\ Outside
  BY <1>3, MarketKinds DEF Sorted
<1>4. CASE RecoveryStep
  BY <1>4 DEF Sorted, RecoveryStep, Quiet
<1>5. CASE PanelStep
  BY <1>5 DEF Sorted, PanelStep, Quiet
<1> QED
  BY <1>1, <1>2, <1>3, <1>4, <1>5 DEF Next

\* Steps of a table keep the status of the casino.
LEMMA TableStatus ==
  ASSUME TableStep PROVE UNCHANGED <<status, up>>
<1>1. ASSUME NEW u, NEW n,
             StartGame(u, n) \/ FinishGame(u, n) \/ AbandonGame(u) \/ RedeemFree(u)
      PROVE  UNCHANGED <<status, up>>
  BY <1>1 DEF StartGame, FinishGame, AbandonGame, SoloOver, RedeemFree
<1>2. ASSUME NEW s, OpenTable(s) \/ CloseBetting(s) \/ SweepStale(s)
      PROVE  UNCHANGED <<status, up>>
  BY <1>2 DEF OpenTable, CloseBetting, SweepStale
<1>3. ASSUME NEW s, GetStuck(s) \/ CancelTable(s) PROVE UNCHANGED <<status, up>>
  BY <1>3 DEF GetStuck, CancelTable, VoidTable
<1>4. ASSUME NEW s, NEW u, NEW t, NEW n, AcceptRouletteBet(s, u, t, n)
      PROVE  UNCHANGED <<status, up>>
  BY <1>4 DEF AcceptRouletteBet
<1>5. ASSUME NEW s, NEW w, NEW u,
             SettleRoulette(s, w) \/ CollectStakes(s, w, u) \/ SettlePvp(s, w, u)
      PROVE  UNCHANGED <<status, up>>
  BY <1>5 DEF SettleRoulette, CollectStakes, SettlePvp
<1> QED
  BY <1>1, <1>2, <1>3, <1>4, <1>5 DEF TableStep

-----------------------------------------------------------------------------
(* Type correctness.                                                       *)

LEMMA TimesNat == \A a, b \in Nat : a * b \in Nat
OBVIOUS

LEMMA DebtTyped == \A n \in Nat : SoloDebt(n) \in Nat
BY Amounts, TimesNat DEF SoloDebt

\* Every step leaves a vault, and its pool moves with the chips.
LEMMA TableVault ==
  ASSUME TypeOK, TableStep
  PROVE  vault' \in Vaults /\ Backing(vault') = Backing(vault)
<1> DEFINE Goal == vault' \in Vaults /\ Backing(vault') = Backing(vault)
<1>0. vault \in Vaults
  BY DEF TypeOK, MoneyTyped
<1>1. ASSUME NEW u \in Player, NEW n \in SoloBets, StartGame(u, n) PROVE Goal
  BY <1>1, StartGameEffect DEF Kept
<1>2. ASSUME NEW u \in Player, NEW p \in Nat, FinishGame(u, p) PROVE Goal
  BY <1>2, FinishGameEffect DEF Kept
<1>3. ASSUME NEW u \in Player, AbandonGame(u) PROVE Goal
  BY <1>0, <1>3 DEF AbandonGame
<1>4. ASSUME NEW u \in Player, RedeemFree(u) PROVE Goal
  <2>1. vault' = RedeemAll(vault, u)
    BY <1>4 DEF RedeemFree
  <2> QED
    BY <2>1, RedeemEffect DEF Kept
<1>5. ASSUME NEW s \in Roulette, OpenTable(s) \/ CloseBetting(s) \/ SweepStale(s)
      PROVE  Goal
  BY <1>0, <1>5 DEF OpenTable, CloseBetting, SweepStale, moneyVars
<1>6. ASSUME NEW s \in Roulette, NEW u \in Player, NEW t \in DOMAIN Odds, NEW n \in Bets,
             AcceptRouletteBet(s, u, t, n)
      PROVE  Goal
  <2>1. /\ CanFund(RefundOne(vault, s, u), u, n) /\ s \in Session
        /\ vault' = Hold(RefundOne(vault, s, u), s, u, n)
    BY <1>6, SessionNames DEF AcceptRouletteBet
  <2> QED
    BY <2>1, RebetEffect DEF Kept
<1>7. ASSUME NEW s \in Roulette, NEW hit \in SUBSET DOMAIN Odds, SettleRoulette(s, hit)
      PROVE  Goal
  <2>1. vault' = Spun(vault, s, hit)
    BY <1>7 DEF SettleRoulette
  <2> QED
    BY <2>1, SpunEffect DEF Kept
<1>8. ASSUME NEW s \in Pvp, NEW us \in SUBSET Player, NEW n \in Bets,
             CollectStakes(s, us, n)
      PROVE  Goal
  BY <1>8, CollectStakesEffect DEF Kept
<1>9. ASSUME NEW s \in Pvp, NEW w \in SUBSET Player, NEW u \in Player, SettlePvp(s, w, u)
      PROVE  Goal
  BY <1>9, SettlePvpEffect DEF PaidOut
<1>10. ASSUME NEW s \in Table, CancelTable(s) PROVE Goal
  <2>1. vault' = Refund(vault, s) /\ s \in Session
    BY <1>10, SessionNames DEF CancelTable, VoidTable
  <2> QED
    BY <2>1, RefundEffect DEF Kept
<1>11. ASSUME NEW s \in Table, GetStuck(s) PROVE Goal
  BY <1>0, <1>11 DEF GetStuck, moneyVars
<1>12. \A u \in Player : 0 .. solo[u] * SoloOdds \subseteq Nat
  OBVIOUS
<1> HIDE DEF Goal
<1>13. Goal
  BY <1>1, <1>2, <1>3, <1>4, <1>5, <1>6, <1>7, <1>8, <1>9, <1>10, <1>11, <1>12
     DEF TableStep, Table
<1> QED
  BY <1>13 DEF Goal

LEMMA VaultStep ==
  ASSUME TypeOK, Next
  PROVE  vault' \in Vaults /\ Backing(vault') = Backing(vault)
<1> DEFINE Goal == vault' \in Vaults /\ Backing(vault') = Backing(vault)
<1>0. vault \in Vaults /\ Sorted
  BY NextSorted DEF TypeOK, MoneyTyped
<1>1. CASE TableStep
  BY <1>1, TableVault
<1>2. CASE Midnight
  BY <1>0, <1>2 DEF Midnight
<1>3. ASSUME NEW b \in Board, NEW mode, Create(b, mode) PROVE Goal
  BY <1>3, CreateEffect DEF Kept
<1>4. ASSUME NEW b \in Board, NEW u \in Player, NEW o, NEW n \in Bets, Bet(b, u, o, n)
      PROVE  Goal
  <2>1. /\ CanFund(RefundOne(vault, b, u), u, n) /\ b \in Session
        /\ vault' = Hold(RefundOne(vault, b, u), b, u, n)
    BY <1>4, SessionNames DEF Bet
  <2> QED
    BY <2>1, RebetEffect DEF Kept
<1>5. ASSUME NEW b \in Board, NEW r, Noted(b, r) PROVE Goal
  BY <1>0, <1>5 DEF Noted, OnlyBoard
<1>6. ASSUME NEW b \in Board, NEW r, NEW lead, BoardEnds(b, r, lead) PROVE Goal
  <2>1. \/ vault' = Refund(vault, b)
        \/ PaidOut(vault, b, BoardPay(b, r.result, lead), vault')
    BY <1>6, SettleBoardEffect DEF BoardEnds
  <2>2. b \in Session
    BY SessionNames
  <2> QED
    BY <2>1, <2>2, RefundEffect DEF PaidOut, Kept
<1>7. ASSUME NEW b \in Board, AdminVoid(b) PROVE Goal
  <2>1. vault' = Refund(vault, b) /\ b \in Session
    BY <1>7, SessionNames DEF AdminVoid
  <2> QED
    BY <2>1, RefundEffect DEF Kept
<1>8. CASE Crash \/ ReleaseReservations
  BY <1>0, <1>8 DEF Crash, ReleaseReservations
<1>9. ASSUME NEW s \in Session, NEW u \in Player, RemoveRow(s, u) PROVE Goal
  BY <1>9, RemoveRowEffect
<1>10. ASSUME NEW s \in Session, RecoverSession(s) PROVE Goal
  <2>1. vault' = Sweep(s)
    BY <1>10 DEF RecoverSession
  <2> QED
    BY <2>1, SweepEffect DEF Kept
<1>11. ASSUME NEW u \in Player, RedeemAtStart(u) PROVE Goal
  <2>1. vault' = vault \/ vault' = RedeemAll(vault, u)
    BY <1>11 DEF RedeemAtStart
  <2> QED
    BY <1>0, <2>1, RedeemEffect DEF Kept
<1>12. ASSUME NEW n \in Bets, SettleHouseNow(n) PROVE Goal
  BY <1>12, SettleHouseEffect DEF SettleHouseNow, Kept
<1>13. CASE Quiet
  BY <1>0, <1>13, QuietFacts
<1> HIDE DEF Goal
<1>14. Goal
  BY <1>0, <1>1, <1>2, <1>3, <1>4, <1>5, <1>6, <1>7, <1>8, <1>9, <1>10, <1>11, <1>12,
     <1>13 DEF Sorted, Goal
<1> QED
  BY <1>14 DEF Goal

\* The reservations and the statistics.
RowsTyped ==
  reserved \in [Player \union Session -> Nat] /\ stats \in [Player -> Int]

LEMMA ReserveTyped ==
  ASSUME TypeOK, NEW k \in Player \union Session, NEW n \in Nat
  PROVE  /\ [reserved EXCEPT ![k] = n] \in [Player \union Session -> Nat]
         /\ ReleaseOne(k) \in [Player \union Session -> Nat]
BY DEF TypeOK, MoneyTyped, ReleaseOne

LEMMA StatsTyped ==
  ASSUME TypeOK, NEW s, NEW pay, PaidOut(vault, s, pay, vault')
  PROVE  StatsAfter(vault, s, pay) \in [Player -> Int]
<1>1. \A u \in Player : NetOf(vault, s, pay, u) \in Int /\ stats[u] \in Int
  BY DEF PaidOut, TypeOK, MoneyTyped
<1> QED
  BY <1>1 DEF StatsAfter

LEMMA WithBetTyped ==
  ASSUME TypeOK, NEW s \in Roulette, NEW u \in Player, NEW t \in DOMAIN Odds,
         NEW n \in Nat
  PROVE  /\ WithBet(s, u, t, n) \in Wagers
         /\ [bets EXCEPT ![s] = WithBet(s, u, t, n)] \in [Roulette -> Wagers]
         /\ TableDebt(WithBet(s, u, t, n)) \in Nat
<1>1. bets[s] \in Wagers /\ bets \in [Roulette -> Wagers]
  BY DEF TypeOK, TablesTyped
<1>2. [type |-> t, amount |-> n] \in BetRows
  BY DEF BetRows
<1>3. WithBet(s, u, t, n) \in Wagers
  BY <1>1, <1>2 DEF WithBet, Wagers
<1> QED
  BY <1>1, <1>3, WagerFacts

LEMMA RowsStep ==
  ASSUME TypeOK, Next
  PROVE  RowsTyped'
<1>0. /\ reserved \in [Player \union Session -> Nat] /\ stats \in [Player -> Int]
      /\ Sorted /\ vault \in Vaults
  BY NextSorted DEF TypeOK, MoneyTyped
<1>1. ASSUME NEW u \in Player, NEW n \in SoloBets, StartGame(u, n) PROVE RowsTyped'
  <2>1. SoloDebt(n) \in Nat
    BY Amounts, DebtTyped
  <2> QED
    BY <1>0, <1>1, <2>1 DEF StartGame, RowsTyped
<1>2. ASSUME NEW u \in Player, NEW p \in Nat, FinishGame(u, p) PROVE RowsTyped'
  <2>1. solo[u] \in Nat /\ stats[u] \in Int
    BY <1>0 DEF TypeOK, TablesTyped
  <2>2. stats[u] + p - solo[u] \in Int
    BY <2>1
  <2> QED
    BY <1>0, <1>2, <2>2, ReserveTyped DEF FinishGame, SoloOver, RowsTyped
<1>3. ASSUME NEW u \in Player, AbandonGame(u) \/ RedeemFree(u) PROVE RowsTyped'
  BY <1>0, <1>3, ReserveTyped DEF AbandonGame, SoloOver, RedeemFree, RowsTyped
<1>4. ASSUME NEW s \in Roulette, OpenTable(s) \/ CloseBetting(s) \/ SweepStale(s)
      PROVE  RowsTyped'
  BY <1>0, <1>4, ReserveTyped, SessionNames
     DEF OpenTable, CloseBetting, SweepStale, moneyVars, RowsTyped
<1>5. ASSUME NEW s \in Roulette, NEW u \in Player, NEW t \in DOMAIN Odds, NEW n \in Bets,
             AcceptRouletteBet(s, u, t, n)
      PROVE  RowsTyped'
  <2>1. TableDebt(WithBet(s, u, t, n)) \in Nat /\ s \in Session
    BY Amounts, WithBetTyped, SessionNames
  <2> QED
    BY <1>0, <1>5, <2>1, ReserveTyped DEF AcceptRouletteBet, RowsTyped
<1>6. ASSUME NEW s \in Roulette, NEW hit \in SUBSET DOMAIN Odds, SettleRoulette(s, hit)
      PROVE  RowsTyped'
  <2> DEFINE net == RouletteNet(s, hit)
  <2>1. \A u \in Player : net[u] \in Int /\ stats[u] \in Int
    BY <1>0, NetFacts
  <2>2. reserved' = ReleaseOne(s) /\ stats' = [u \in Player |-> stats[u] + net[u]]
    BY <1>6 DEF SettleRoulette
  <2>3. s \in Player \union Session
    BY SessionNames
  <2>4. ReleaseOne(s) \in [Player \union Session -> Nat]
    BY <2>3, ReserveTyped
  <2> HIDE DEF net
  <2>5. stats' \in [Player -> Int]
    BY <2>1, <2>2
  <2> QED
    BY <2>2, <2>4, <2>5 DEF RowsTyped
<1>7. ASSUME NEW s \in Pvp, NEW us, NEW n, CollectStakes(s, us, n) PROVE RowsTyped'
  BY <1>0, <1>7 DEF CollectStakes, RowsTyped
<1>8. ASSUME NEW s \in Pvp, NEW w \in SUBSET Player, NEW u \in Player, SettlePvp(s, w, u)
      PROVE  RowsTyped'
  <2>1. /\ stats' = StatsAfter(vault, s, Shares(Staked(vault, s), w, u))
        /\ reserved' = reserved
    BY <1>8 DEF SettlePvp
  <2> QED
    BY <1>0, <1>8, <2>1, SettlePvpEffect, StatsTyped DEF RowsTyped
<1>9. ASSUME NEW s \in Table, CancelTable(s) \/ GetStuck(s) PROVE RowsTyped'
  BY <1>0, <1>9, ReserveTyped, SessionNames
     DEF CancelTable, VoidTable, GetStuck, moneyVars, RowsTyped
<1>10. CASE TableStep
  <2>1. \A u \in Player : 0 .. solo[u] * SoloOdds \subseteq Nat
    OBVIOUS
  <2> QED
    BY <1>1, <1>2, <1>3, <1>4, <1>5, <1>6, <1>7, <1>8, <1>9, <1>10, <2>1
       DEF TableStep, Table
<1>11. ASSUME NEW b \in Board, NEW r, NEW lead, BoardEnds(b, r, lead) PROVE RowsTyped'
  <2>1. reserved' = reserved
    BY <1>11 DEF BoardEnds, SettleBoard, BoardUnchanged
  <2> QED
    BY <1>0, <1>11, <2>1, SettleBoardEffect, StatsTyped DEF BoardEnds, RowsTyped
<1>12. ASSUME NEW b \in Board, NEW mode, Create(b, mode) PROVE RowsTyped'
  BY <1>0, <1>12 DEF Create, BoardUnchanged, RowsTyped
<1>13. ASSUME NEW b \in Board, NEW u, NEW o, NEW n, Bet(b, u, o, n) PROVE RowsTyped'
  BY <1>0, <1>13 DEF Bet, BoardUnchanged, RowsTyped
<1>14. ASSUME NEW b \in Board, NEW r, Noted(b, r) \/ AdminVoid(b) PROVE RowsTyped'
  BY <1>0, <1>14 DEF Noted, OnlyBoard, AdminVoid, BoardUnchanged, RowsTyped
<1>15. CASE Midnight \/ Crash
  BY <1>0, <1>15 DEF Midnight, Crash, RowsTyped
<1>16. ASSUME NEW s \in Session, NEW u, RemoveRow(s, u) PROVE RowsTyped'
  BY <1>0, <1>16 DEF RemoveRow, RowsTyped
<1>17. ASSUME NEW x, RecoverSession(x) \/ RedeemAtStart(x) PROVE RowsTyped'
  BY <1>0, <1>17 DEF RecoverSession, RedeemAtStart, KeptByRecovery, RowsTyped
<1>18. CASE ReleaseReservations
  BY <1>0, <1>18 DEF ReleaseReservations, NothingReserved, KeptByRecovery, RowsTyped
<1>19. ASSUME NEW n, SettleHouseNow(n) PROVE RowsTyped'
  BY <1>0, <1>19 DEF SettleHouseNow, SettleHouse, RowsTyped
<1>20. CASE Quiet
  BY <1>0, <1>20, QuietFacts DEF RowsTyped
<1> HIDE DEF RowsTyped
<1> QED
  BY <1>0, <1>10, <1>11, <1>12, <1>13, <1>14, <1>15, <1>16, <1>17, <1>18, <1>19, <1>20
     DEF Sorted

LEMMA RiskStep ==
  ASSUME TypeOK, Next
  PROVE  RiskTyped'
<1>0. /\ RiskTyped /\ today \in Day /\ risk \in Risks /\ Sorted /\ vault \in Vaults
      /\ Roulette \subseteq Session /\ Pvp \subseteq Session
  BY NextSorted, SessionNames DEF TypeOK, MoneyTyped, RiskTyped
<1>1. ASSUME NEW u \in Player, NEW n \in SoloBets, StartGame(u, n) PROVE RiskTyped'
  <2>1. [day |-> today, max |-> n] \in [day : Day, max : Nat]
    BY <1>0, Amounts
  <2>2. risk' = [risk EXCEPT !.start[u] = [day |-> today, max |-> n]] /\ today' = today
    BY <1>1 DEF StartGame, StartSolo
  <2>3. risk' \in Risks
    BY <1>0, <2>1, <2>2, StartFacts
  <2> QED
    BY <1>0, <2>2, <2>3 DEF RiskTyped
<1>2. ASSUME NEW u \in Player, NEW p \in Nat, FinishGame(u, p) PROVE RiskTyped'
  <2>1. risk' = SettleSolo(u, p - solo[u]) /\ today' = today
    BY <1>2 DEF FinishGame, SoloOver
  <2>2. p - solo[u] \in Int
    BY DEF TypeOK, TablesTyped
  <2>3. risk' \in Risks
    BY <1>0, <2>1, <2>2, SettleSoloFacts
  <2> QED
    BY <1>0, <2>1, <2>3 DEF RiskTyped
<1>3. ASSUME NEW u \in Player, AbandonGame(u) PROVE RiskTyped'
  <2>1. risk' = [risk EXCEPT !.start[u] = NoStart] /\ today' = today
    BY <1>3 DEF AbandonGame, SoloOver
  <2>2. risk' \in Risks
    BY <1>0, <2>1, StartFacts, NoStartTyped
  <2> QED
    BY <1>0, <2>1, <2>2 DEF RiskTyped
<1>4. ASSUME NEW u \in Player, RedeemFree(u) PROVE RiskTyped'
  BY <1>0, <1>4 DEF RedeemFree, RiskTyped
<1>5. ASSUME NEW s \in Table,
             \/ OpenTable(s) \/ CloseBetting(s) \/ SweepStale(s) \/ GetStuck(s)
      PROVE  RiskTyped'
  BY <1>0, <1>5 DEF OpenTable, CloseBetting, SweepStale, GetStuck, RiskTyped
<1>6. ASSUME NEW s \in Roulette, NEW u \in Player, NEW t \in DOMAIN Odds, NEW n \in Bets,
             AcceptRouletteBet(s, u, t, n)
      PROVE  RiskTyped'
  <2>1. risk' = Expose(s, {u}, n, "replace") /\ today' = today
    BY <1>6 DEF AcceptRouletteBet
  <2>2. {u} \in SUBSET Player /\ n \in Nat /\ s \in Session
    BY <1>0, Amounts
  <2>3. risk' \in Risks
    BY <1>0, <2>1, <2>2, ExposeFacts
  <2> QED
    BY <1>0, <2>1, <2>3 DEF RiskTyped
<1>7. ASSUME NEW s \in Roulette, NEW hit \in SUBSET DOMAIN Odds, SettleRoulette(s, hit)
      PROVE  RiskTyped'
  <2>1. risk' = SettleExposures(s, Bettors(s), RouletteNet(s, hit)) /\ today' = today
    BY <1>7 DEF SettleRoulette
  <2>2. Bettors(s) \in SUBSET Player /\ RouletteNet(s, hit) \in [Player -> Int]
        /\ s \in Session
    BY <1>0, NetFacts DEF Bettors
  <2>3. risk' \in Risks
    BY <1>0, <2>1, <2>2, SettleExposuresFacts
  <2> QED
    BY <1>0, <2>1, <2>3 DEF RiskTyped
<1>8. ASSUME NEW s \in Pvp, NEW us \in SUBSET Player, NEW n \in Bets,
             CollectStakes(s, us, n)
      PROVE  RiskTyped'
  <2>1. risk' = Expose(s, us, n, "add") /\ today' = today
    BY <1>8 DEF CollectStakes
  <2>2. n \in Nat /\ s \in Session
    BY <1>0, Amounts
  <2>3. risk' \in Risks
    BY <1>0, <2>1, <2>2, ExposeFacts
  <2> QED
    BY <1>0, <2>1, <2>3 DEF RiskTyped
<1>9. ASSUME NEW s \in Pvp, NEW w \in SUBSET Player, NEW u \in Player, SettlePvp(s, w, u)
      PROVE  RiskTyped'
  <2> DEFINE pay == Shares(Staked(vault, s), w, u)
             f == [p \in Player |-> NetOf(vault, s, pay, p)]
  <2>1. risk' = SettleExposures(s, InPlay(s), f) /\ today' = today
    BY <1>9 DEF SettlePvp
  <2>2. PaidOut(vault, s, pay, vault')
    BY <1>9, SettlePvpEffect
  <2>3. f \in [Player -> Int]
    <3> HIDE DEF pay
    <3> QED
      BY <2>2 DEF PaidOut
  <2>4. InPlay(s) \in SUBSET Player /\ s \in Session
    BY <1>0 DEF InPlay
  <2> HIDE DEF f
  <2>5. risk' \in Risks
    BY <1>0, <2>1, <2>3, <2>4, SettleExposuresFacts
  <2> QED
    BY <1>0, <2>1, <2>5 DEF RiskTyped
<1>10. ASSUME NEW s \in Table, CancelTable(s) PROVE RiskTyped'
  <2>1. risk' = ReleaseScope(s) /\ today' = today /\ s \in Session
    BY <1>10, SessionNames DEF CancelTable, VoidTable
  <2>2. risk' \in Risks
    BY <1>0, <2>1, ReleaseScopeFacts
  <2> QED
    BY <1>0, <2>1, <2>2 DEF RiskTyped
<1>11. CASE TableStep
  <2>1. \A u \in Player : 0 .. solo[u] * SoloOdds \subseteq Nat
    OBVIOUS
  <2> QED
    BY <1>1, <1>2, <1>3, <1>4, <1>5, <1>6, <1>7, <1>8, <1>9, <1>10, <1>11, <2>1
       DEF TableStep, Table
<1>12. CASE Midnight
  <2> DEFINE row == [u \in Player |-> Holdings(vault, u)]
             e == today + 1
  <2>1. /\ e \in Day /\ today' = e
        /\ risk' = [risk EXCEPT !.opening = [risk.opening EXCEPT ![e] = row]]
    BY <1>0, <1>12 DEF Midnight, Risks
  <2>2. row \in [Player -> Int]
    BY <1>0, Names, VaultFacts DEF Holdings
  <2> HIDE DEF row, e
  <2>3. [risk.opening EXCEPT ![e] = row] \in [Day -> [Player -> Int]]
    BY <1>0, <2>1, <2>2 DEF Risks
  <2> QED
    BY <1>0, <2>1, <2>3 DEF RiskTyped, Risks
<1>13. CASE Crash
  <2> DEFINE st == [u \in Player |-> NoStart]
  <2>1. risk' = [risk EXCEPT !.start = st] /\ today' = today
    BY <1>13 DEF Crash
  <2>2. st \in [Player -> [day : Day, max : Nat]]
    BY NoStartTyped
  <2> HIDE DEF st
  <2> QED
    BY <1>0, <2>1, <2>2 DEF RiskTyped, Risks
<1>14. ASSUME NEW b \in Board, NEW r, NEW lead, BoardEnds(b, r, lead) PROVE RiskTyped'
  BY <1>0, <1>14 DEF BoardEnds, SettleBoard, BoardUnchanged, RiskTyped
<1>15. ASSUME NEW b \in Board, NEW mode, Create(b, mode) PROVE RiskTyped'
  BY <1>0, <1>15 DEF Create, BoardUnchanged, RiskTyped
<1>16. ASSUME NEW b \in Board, NEW u, NEW o, NEW n, Bet(b, u, o, n) PROVE RiskTyped'
  BY <1>0, <1>16 DEF Bet, BoardUnchanged, RiskTyped
<1>17. ASSUME NEW b \in Board, NEW r, Noted(b, r) \/ AdminVoid(b) PROVE RiskTyped'
  BY <1>0, <1>17 DEF Noted, OnlyBoard, AdminVoid, BoardUnchanged, RiskTyped
<1>18. ASSUME NEW s, NEW u, RemoveRow(s, u) PROVE RiskTyped'
  BY <1>0, <1>18 DEF RemoveRow, RiskTyped
<1>19. ASSUME NEW x, RecoverSession(x) \/ RedeemAtStart(x) \/ ReleaseReservations
       PROVE  RiskTyped'
  BY <1>0, <1>19 DEF RecoverSession, RedeemAtStart, ReleaseReservations,
                     KeptByRecovery, RiskTyped
<1>20. ASSUME NEW n, SettleHouseNow(n) PROVE RiskTyped'
  BY <1>0, <1>20 DEF SettleHouseNow, SettleHouse, RiskTyped
<1>21. CASE Quiet
  BY <1>0, <1>21, QuietFacts DEF RiskTyped
<1> HIDE DEF RiskTyped
<1> QED
  BY <1>0, <1>11, <1>12, <1>13, <1>14, <1>15, <1>16, <1>17, <1>18, <1>19, <1>20, <1>21
     DEF Sorted

\* Only its own steps and a crash touch a table.
LEMMA TablesStill ==
  ASSUME Sorted
  PROVE  (TableStep /\ Aside) \/ Crash \/ UNCHANGED tableVars
<1>1. ASSUME NEW b, NEW r, NEW lead,
             \/ BoardEnds(b, r, lead) \/ Noted(b, r) \/ AdminVoid(b) \/ Create(b, r)
      PROVE  UNCHANGED tableVars
  BY <1>1 DEF BoardEnds, SettleBoard, Noted, OnlyBoard, AdminVoid, Create, BoardUnchanged
<1>2. ASSUME NEW b, NEW u, NEW o, NEW n, Bet(b, u, o, n) PROVE UNCHANGED tableVars
  BY <1>2 DEF Bet, BoardUnchanged
<1>3. ASSUME NEW s, NEW u, RemoveRow(s, u) PROVE UNCHANGED tableVars
  BY <1>3 DEF RemoveRow
<1>4. ASSUME NEW x, RecoverSession(x) \/ RedeemAtStart(x) \/ ReleaseReservations
      PROVE  UNCHANGED tableVars
  BY <1>4 DEF RecoverSession, RedeemAtStart, ReleaseReservations, KeptByRecovery
<1>5. ASSUME NEW n, SettleHouseNow(n) PROVE UNCHANGED tableVars
  BY <1>5 DEF SettleHouseNow, SettleHouse
<1>6. CASE Quiet
  BY <1>6, QuietFacts
<1>7. CASE Midnight /\ Outside /\ UNCHANGED <<status, up, tableVars, board>>
  BY <1>7
<1> QED
  BY <1>1, <1>2, <1>3, <1>4, <1>5, <1>6, <1>7 DEF Sorted

LEMMA TablesStep ==
  ASSUME TypeOK, Next
  PROVE  TablesTyped'
<1>0. /\ TablesTyped /\ Sorted
      /\ seat \in [Player -> Session \union {"solo", "none"}]
      /\ solo \in [Player -> Nat]
      /\ phase \in [Table -> {"none", "open", "spinning", "stuck", "over"}]
      /\ bets \in [Roulette -> Wagers]
      /\ Roulette \subseteq Session /\ Pvp \subseteq Session
      /\ Roulette \subseteq Table /\ Pvp \subseteq Table /\ Table \subseteq Session
  BY NextSorted, SessionNames DEF TypeOK, TablesTyped, Table
<1>1. \A us : Leave(us) \in [Player -> Session \union {"solo", "none"}]
  BY <1>0 DEF Leave
<1>2. ASSUME NEW s PROVE [x \in Roulette |-> IF x = s THEN NobodyBets ELSE bets[x]]
                           \in [Roulette -> Wagers]
  BY <1>0, NobodyBetsTyped
<1>3. \A s \in Table, p \in {"none", "open", "spinning", "stuck", "over"} :
        [phase EXCEPT ![s] = p] \in [Table -> {"none", "open", "spinning", "stuck", "over"}]
  BY <1>0
<1>4. ASSUME NEW u \in Player, NEW n \in SoloBets, StartGame(u, n) PROVE TablesTyped'
  BY <1>0, <1>4, Amounts DEF StartGame, TablesTyped
<1>5. ASSUME NEW u \in Player, SoloOver(u) PROVE TablesTyped'
  BY <1>0, <1>1, <1>5 DEF SoloOver, TablesTyped
<1>6. ASSUME NEW u \in Player, RedeemFree(u) PROVE TablesTyped'
  BY <1>0, <1>6 DEF RedeemFree, tableVars, TablesTyped
<1>7. ASSUME NEW s \in Table, OpenTable(s) PROVE TablesTyped'
  <2>1. phase' = [phase EXCEPT ![s] = "open"]
    BY <1>7 DEF OpenTable
  <2>2. phase' \in [Table -> {"none", "open", "spinning", "stuck", "over"}]
    BY <1>3, <2>1
  <2> QED
    BY <1>0, <1>7, <2>2 DEF OpenTable, TablesTyped
<1>8. ASSUME NEW s \in Table, CloseBetting(s) PROVE TablesTyped'
  <2>1. phase' = [phase EXCEPT ![s] = IF Bettors(s) = {} THEN "over" ELSE "spinning"]
    BY <1>8 DEF CloseBetting
  <2>2. phase' \in [Table -> {"none", "open", "spinning", "stuck", "over"}]
    BY <1>3, <2>1
  <2> QED
    BY <1>0, <1>8, <2>2 DEF CloseBetting, TablesTyped
<1>9. ASSUME NEW s \in Table, SweepStale(s) PROVE TablesTyped'
  BY <1>0, <1>9 DEF SweepStale, tableVars, TablesTyped
<1>10. ASSUME NEW s \in Roulette, NEW u \in Player, NEW t \in DOMAIN Odds, NEW n \in Bets,
              AcceptRouletteBet(s, u, t, n)
       PROVE  TablesTyped'
  <2>1. bets' = [bets EXCEPT ![s] = WithBet(s, u, t, n)] /\ n \in Nat
        /\ seat' = [seat EXCEPT ![u] = s]
    BY <1>10, Amounts DEF AcceptRouletteBet
  <2>2. bets' \in [Roulette -> Wagers]
    BY <2>1, WithBetTyped
  <2> QED
    BY <1>0, <1>10, <2>1, <2>2 DEF AcceptRouletteBet, TablesTyped
<1>11. ASSUME NEW s \in Roulette, NEW hit, SettleRoulette(s, hit) PROVE TablesTyped'
  <2>1. /\ phase' = [phase EXCEPT ![s] = "over"] /\ seat' = Leave(Seated(s))
        /\ bets' = [x \in Roulette |-> IF x = s THEN NobodyBets ELSE bets[x]]
        /\ solo' = solo
    BY <1>11 DEF SettleRoulette, ForgetBets
  <2>2. phase' \in [Table -> {"none", "open", "spinning", "stuck", "over"}]
    BY <1>0, <1>3, <2>1
  <2> QED
    BY <1>0, <1>1, <1>2, <2>1, <2>2 DEF TablesTyped
<1>12. ASSUME NEW s \in Pvp, NEW us \in SUBSET Player, NEW n, CollectStakes(s, us, n)
       PROVE  TablesTyped'
  <2>1. /\ phase' = [phase EXCEPT ![s] = "open"]
        /\ seat' = [u \in Player |-> IF u \in us THEN s ELSE seat[u]]
        /\ solo' = solo /\ bets' = bets
    BY <1>12 DEF CollectStakes
  <2>2. phase' \in [Table -> {"none", "open", "spinning", "stuck", "over"}]
    BY <1>0, <1>3, <2>1
  <2> QED
    BY <1>0, <2>1, <2>2 DEF TablesTyped
<1>13. ASSUME NEW s \in Pvp, NEW w, NEW u, SettlePvp(s, w, u) PROVE TablesTyped'
  <2>1. /\ phase' = [phase EXCEPT ![s] = "over"] /\ seat' = Leave(Seated(s))
        /\ solo' = solo /\ bets' = bets
    BY <1>13 DEF SettlePvp
  <2>2. phase' \in [Table -> {"none", "open", "spinning", "stuck", "over"}]
    BY <1>0, <1>3, <2>1
  <2> QED
    BY <1>0, <1>1, <2>1, <2>2 DEF TablesTyped
<1>14. ASSUME NEW s \in Table, CancelTable(s) PROVE TablesTyped'
  <2>1. /\ phase' = [phase EXCEPT ![s] = "over"] /\ seat' = Leave(Seated(s))
        /\ bets' = [x \in Roulette |-> IF x = s THEN NobodyBets ELSE bets[x]]
        /\ solo' = solo
    BY <1>14 DEF CancelTable, VoidTable, ForgetBets
  <2>2. phase' \in [Table -> {"none", "open", "spinning", "stuck", "over"}]
    BY <1>0, <1>3, <2>1
  <2> QED
    BY <1>0, <1>1, <1>2, <2>1, <2>2 DEF TablesTyped
<1>15. ASSUME NEW s \in Table, GetStuck(s) PROVE TablesTyped'
  <2>1. /\ phase' = [phase EXCEPT ![s] = "stuck"] /\ seat' = seat
        /\ bets' = [x \in Roulette |-> IF x = s THEN NobodyBets ELSE bets[x]]
        /\ solo' = solo
    BY <1>15 DEF GetStuck, ForgetBets
  <2>2. phase' \in [Table -> {"none", "open", "spinning", "stuck", "over"}]
    BY <1>0, <1>3, <2>1
  <2> QED
    BY <1>0, <1>2, <2>1, <2>2 DEF TablesTyped
<1>16. CASE TableStep
  <2>1. \A u \in Player : \A p : FinishGame(u, p) \/ AbandonGame(u) => SoloOver(u)
    BY DEF FinishGame, AbandonGame
  <2> QED
    BY <1>0, <1>4, <1>5, <1>6, <1>7, <1>8, <1>9, <1>10, <1>11, <1>12, <1>13, <1>14,
       <1>15, <1>16, <2>1 DEF TableStep, Table
<1>17. CASE Crash
  <2>1. /\ seat' = NobodySits /\ solo' = [u \in Player |-> 0]
        /\ phase' = [s \in Table |-> IF phase[s] = "none" THEN "none" ELSE "over"]
        /\ bets' = [s \in Roulette |-> NobodyBets]
    BY <1>0, <1>17 DEF Crash
  <2> QED
    BY <2>1, NobodyBetsTyped DEF NobodySits, TablesTyped
<1>18. CASE UNCHANGED tableVars
  BY <1>0, <1>18 DEF tableVars, TablesTyped
<1> QED
  BY <1>0, <1>16, <1>17, <1>18, TablesStill

LEMMA RowTyped ==
  ASSUME TypeOK, NEW b \in Board, NEW r \in BoardRows,
         board' = [board EXCEPT ![b] = r]
  PROVE  board' \in [Board -> BoardRows]
BY DEF TypeOK, RecoveryTyped

LEMMA RecoveryStepTyped ==
  ASSUME TypeOK, Next
  PROVE  RecoveryTyped'
<1>0. /\ RecoveryTyped /\ Sorted /\ vault \in Vaults
      /\ up \in BOOLEAN /\ board \in [Board -> BoardRows] /\ rec \in RecoveryRows
      /\ missing \in [Session -> [Player -> Nat]]
  BY NextSorted DEF TypeOK, MoneyTyped, RecoveryTyped
<1>1. NoRecovery \in RecoveryRows
  BY DEF NoRecovery, RecoveryRows
<1>2. CASE TableStep /\ Aside
  <2>1. up' = up
    BY <1>2, TableStatus
  <2> QED
    BY <1>0, <1>2, <2>1 DEF Aside, Outside, RecoveryTyped
<1>3. CASE Midnight /\ Outside /\ UNCHANGED <<status, up, tableVars, board>>
  BY <1>0, <1>3 DEF Outside, RecoveryTyped
<1>4. ASSUME Outside, up' = up, board' \in [Board -> BoardRows] PROVE RecoveryTyped'
  BY <1>0, <1>4 DEF Outside, RecoveryTyped
<1>5. ASSUME NEW b \in Board, NEW mode \in Modes, Create(b, mode), Outside
      PROVE  RecoveryTyped'
  <2> DEFINE r == [board[b] EXCEPT !.status = "open", !.mode = mode]
  <2>1. board[b] \in BoardRows
    BY <1>0
  <2>2. r \in BoardRows
    BY <2>1 DEF BoardRows, LiveStatuses
  <2>3. board' = [board EXCEPT ![b] = r] /\ up' = up
    BY <1>0, <1>5 DEF Create, BoardUnchanged
  <2> HIDE DEF r
  <2> QED
    BY <1>4, <1>5, <2>2, <2>3, RowTyped
<1>6. ASSUME NEW b \in Board, NEW u \in Player, NEW o \in Option, NEW n \in Bets,
             Bet(b, u, o, n), Outside
      PROVE  RecoveryTyped'
  <2> DEFINE pk == [board[b].pick EXCEPT ![u] = o]
             r  == [board[b] EXCEPT !.pick = pk]
  <2>1. pk \in [Player -> Option \union {NoPick}]
    BY <1>0, BoardRowFacts
  <2>2. board' = [board EXCEPT ![b] = r] /\ up' = up
    BY <1>0, <1>6 DEF Bet, BoardUnchanged, BoardRows
  <2>3. board[b] \in BoardRows
    BY <1>0
  <2> HIDE DEF pk
  <2>4. r \in BoardRows
    BY <2>1, <2>3 DEF BoardRows
  <2> HIDE DEF r
  <2> QED
    BY <1>4, <1>6, <2>2, <2>4, RowTyped
<1>7. ASSUME NEW b \in Board, NEW r \in BoardRows, Noted(b, r), Outside
      PROVE  RecoveryTyped'
  <2>1. board' = [board EXCEPT ![b] = r] /\ up' = up
    BY <1>7 DEF Noted, OnlyBoard, BoardUnchanged
  <2> QED
    BY <1>4, <1>7, <2>1, RowTyped
<1>8. ASSUME NEW b \in Board, NEW r \in BoardRows, NEW lead, BoardEnds(b, r, lead), Outside
      PROVE  RecoveryTyped'
  <2>1. PICK q \in {"void", "settled"} :
          board' = [board EXCEPT ![b] = [r EXCEPT !.status = q]]
    BY <1>8 DEF BoardEnds, SettleBoard
  <2>2. up' = up
    BY <1>8 DEF BoardEnds, SettleBoard, BoardUnchanged
  <2>3. [r EXCEPT !.status = q] \in BoardRows
    BY DEF BoardRows
  <2> QED
    BY <1>4, <1>8, <2>1, <2>2, <2>3, RowTyped
<1>9. ASSUME NEW b \in Board, AdminVoid(b), Outside PROVE RecoveryTyped'
  <2> DEFINE r == [board[b] EXCEPT !.status = "void"]
  <2>1. r \in BoardRows
    BY ZenonT(40), <1>0 DEF BoardRows
  <2>2. board' = [board EXCEPT ![b] = r] /\ up' = up
    BY <1>0, <1>9 DEF AdminVoid, BoardUnchanged
  <2> HIDE DEF r
  <2> QED
    BY <1>4, <1>9, <2>1, <2>2, RowTyped
<1>10. CASE Crash
  BY <1>0, <1>1, <1>10 DEF Crash, RecoveryTyped
<1>11. ASSUME NEW s \in Session, NEW u \in Player, RemoveRow(s, u) PROVE RecoveryTyped'
  <2> DEFINE n   == missing[s][u] + vault.book[s][u]
             row == [missing[s] EXCEPT ![u] = n]
  <2>1. missing' = [missing EXCEPT ![s] = row]
    BY <1>0, <1>11 DEF RemoveRow
  <2>2. n \in Nat
    BY <1>0, VaultFacts
  <2> HIDE DEF n
  <2>3. row \in [Player -> Nat]
    BY <1>0, <2>2
  <2> HIDE DEF row
  <2>4. missing' \in [Session -> [Player -> Nat]]
    BY <1>0, <2>1, <2>3
  <2>5. UNCHANGED <<up, board, rec>>
    BY <1>11 DEF RemoveRow
  <2> QED
    BY <1>0, <2>4, <2>5 DEF RecoveryTyped
<1>12. \A x : rec.todo \ {x} \in SUBSET (Session \union Player)
  BY <1>0 DEF RecoveryRows
<1>13. ASSUME NEW s \in Session, RecoverSession(s) PROVE RecoveryTyped'
  <2> DEFINE td == rec.todo \ {s}
             m  == \/ rec.mismatch
                   \/ (s \in Tables /\ HasRows(vault, s) /\ ~Matches(vault, s))
  <2>1. rec' = [rec EXCEPT !.todo = td, !.mismatch = m]
        /\ UNCHANGED <<up, board, missing>>
    BY <1>13 DEF RecoverSession, KeptByRecovery
  <2>2. td \in SUBSET (Session \union Player) /\ m \in BOOLEAN
    BY <1>0, <1>12 DEF RecoveryRows
  <2> HIDE DEF td, m
  <2> QED
    BY <1>0, <2>1, <2>2 DEF RecoveryRows, RecoveryTyped
<1>14. ASSUME NEW u \in Player, RedeemAtStart(u) PROVE RecoveryTyped'
  <2> DEFINE td == rec.todo \ {u}
             m  == rec.redeemFailed \/ (u \in frozen /\ vault.chips[u] > 0)
  <2>1. rec' = [rec EXCEPT !.todo = td, !.redeemFailed = m]
        /\ UNCHANGED <<up, board, missing>>
    BY <1>14 DEF RedeemAtStart, KeptByRecovery
  <2>2. td \in SUBSET (Session \union Player) /\ m \in BOOLEAN
    BY <1>0, <1>12 DEF RecoveryRows
  <2> HIDE DEF td, m
  <2> QED
    BY <1>0, <2>1, <2>2 DEF RecoveryRows, RecoveryTyped
<1>15. CASE ReleaseReservations
  <2>1. rec' = [rec EXCEPT !.stage = "redeem", !.todo = Player]
        /\ UNCHANGED <<up, board, missing>>
    BY <1>15 DEF ReleaseReservations, KeptByRecovery
  <2>2. Player \in SUBSET (Session \union Player)
    OBVIOUS
  <2> QED
    BY <1>0, <2>1, <2>2 DEF RecoveryRows, RecoveryTyped
<1>16. ASSUME NEW n, SettleHouseNow(n) PROVE RecoveryTyped'
  BY <1>0, <1>16 DEF SettleHouseNow, SettleHouse, RecoveryTyped
<1>17. CASE Quiet
  <2>1. UNCHANGED <<board, missing>>
    BY <1>17, QuietFacts
  <2>2. [NoRecovery EXCEPT !.stage = "sweep", !.todo = Session,
                           !.again = (status = "recovery_halt")] \in RecoveryRows
    <3>1. (status = "recovery_halt") \in BOOLEAN /\ Session \in SUBSET (Session \union Player)
      OBVIOUS
    <3> QED
      BY <3>1 DEF NoRecovery, RecoveryRows
  <2>3. CASE Boot \/ Rerecover
    <3>1. rec' = rec \/ BeginRecovery
      BY <2>3 DEF Boot, Rerecover
    <3>2. rec' \in RecoveryRows
      BY <1>0, <2>2, <3>1 DEF BeginRecovery
    <3>3. up' = TRUE \/ up' = FALSE \/ up' = up
      BY <2>3 DEF Boot, Rerecover
    <3> QED
      BY <1>0, <2>1, <3>2, <3>3 DEF RecoveryTyped
  <2>4. CASE RecoveryThrows \/ FinishRecovery
    BY <1>0, <1>1, <2>1, <2>4 DEF RecoveryThrows, FinishRecovery, RecoveryTyped
  <2>5. ASSUME NEW u \in Player, Moderate(u) PROVE RecoveryTyped'
    BY <1>0, <2>1, <2>5 DEF Moderate, RecoveryTyped
  <2>6. ASSUME NEW s \in Session, RefundFails(s) PROVE RecoveryTyped'
    <3>1. rec' = [rec EXCEPT !.todo = rec.todo \ {s}, !.refundFailed = TRUE] /\ up' = up
      BY <2>6 DEF RefundFails
    <3>2. rec' \in RecoveryRows
      BY <1>0, <1>12, <3>1 DEF RecoveryRows
    <3> QED
      BY <1>0, <2>1, <3>1, <3>2 DEF RecoveryTyped
  <2>7. CASE Halt \/ Recheck \/ Reopen
    BY <1>0, <2>1, <2>7 DEF Halt, Recheck, Reopen, SetStatus, RecoveryTyped
  <2> QED
    BY <1>17, <2>3, <2>4, <2>5, <2>6, <2>7 DEF Quiet
<1> HIDE DEF RecoveryTyped
<1> QED
  BY <1>0, <1>2, <1>3, <1>5, <1>6, <1>7, <1>8, <1>9, <1>10, <1>11, <1>13, <1>14, <1>15,
     <1>16, <1>17 DEF Sorted

LEMMA TypeInit ==
  ASSUME NEW n \in Nat, CasinoInit(n)
  PROVE  TypeOK
<1>1. MoneyTyped
  <2>1. \A s \in Session : [u \in Player |-> 0] \in [Player -> Nat]
    OBVIOUS
  <2>2. /\ [h \in Holder |-> IF h = House THEN n ELSE 0] \in [Holder -> Int]
        /\ Wallet \in [Player -> Int] /\ n \in Int
        /\ [s \in Session |-> [u \in Player |-> 0]] \in [Session -> [Player -> Nat]]
    BY ChipsAssumption
  <2>3. vault \in Vaults
    BY <2>2 DEF CasinoInit, TablesInit, ChipsInit, Vaults
  <2> QED
    BY <2>3 DEF CasinoInit, TablesInit, ChipsInit, NothingReserved, MoneyTyped
<1>2. RiskTyped
  <2>1. /\ [d \in Day |-> Wallet] \in [Day -> [Player -> Int]]
        /\ [d \in Day |-> [u \in Player |-> 0]] \in [Day -> [Player -> Int]]
        /\ [s \in Session |-> [u \in Player |-> 0]] \in [Session -> [Player -> Nat]]
        /\ [s \in Session |-> [u \in Player |-> 1]] \in [Session -> [Player -> Day]]
        /\ [u \in Player |-> NoStart] \in [Player -> [day : Day, max : Nat]]
    BY ChipsAssumption, DayFacts, NoStartTyped
  <2> QED
    BY <2>1, DayFacts DEF CasinoInit, TablesInit, DailyRiskInit, RiskTyped, Risks
<1>3. TablesTyped
  BY NobodyBetsTyped DEF CasinoInit, TablesInit, NobodySits, TablesTyped, Table
<1>4. RecoveryTyped
  <2>1. NewBoard \in BoardRows
    <3>1. [u \in Player |-> NoPick] \in [Player -> Option \union {NoPick}]
          /\ {} \in SUBSET Player
      OBVIOUS
    <3> QED
      BY <3>1 DEF NewBoard, BoardRows, Modes
  <2>2. NoRecovery \in RecoveryRows
    BY DEF NoRecovery, RecoveryRows
  <2> QED
    BY <2>1, <2>2 DEF CasinoInit, TablesInit, MarketInit, RecoveryTyped
<1> QED
  BY <1>1, <1>2, <1>3, <1>4 DEF TypeOK

LEMMA TypeStep ==
  ASSUME TypeOK, [Next]_vars
  PROVE  TypeOK'
<1>1. CASE Next
  <2>1. MoneyTyped'
    BY <1>1, VaultStep, RowsStep DEF MoneyTyped, RowsTyped
  <2> QED
    BY <1>1, <2>1, RiskStep, TablesStep, RecoveryStepTyped DEF TypeOK
<1>2. CASE UNCHANGED vars
  BY <1>2 DEF vars, TypeOK, MoneyTyped, RiskTyped, TablesTyped, RecoveryTyped
<1> QED
  BY <1>1, <1>2

\* Every state of the casino is well typed: vault, reservations, risk rows,
\* tables, boards and the recovery.
THEOREM CasinoTypeCorrect == Spec => []TypeOK
<1>1. (\E n \in Nat : CasinoInit(n)) => TypeOK
  BY TypeInit
<1> QED
  BY <1>1, TypeStep, PTL DEF Spec

-----------------------------------------------------------------------------
(* Tables: seats, stakes, bets and reservations agree.                     *)

\* A step that leaves table x alone.
StillAt(x) ==
  /\ SameAt(vault, vault', x)
  /\ phase'[x] = phase[x] /\ reserved'[x] = reserved[x]
  /\ x \in Roulette => bets'[x] = bets[x]

\* What can happen to table x.
TableMoves(x) ==
  \/ x \in Roulette /\ (OpenTable(x) \/ CloseBetting(x) \/ SweepStale(x))
  \/ \E u \in Player, t \in DOMAIN Odds, n \in Bets :
       x \in Roulette /\ AcceptRouletteBet(x, u, t, n)
  \/ \E hit \in SUBSET DOMAIN Odds : x \in Roulette /\ SettleRoulette(x, hit)
  \/ \E us \in (SUBSET Player) \ {{}}, n \in Bets : x \in Pvp /\ CollectStakes(x, us, n)
  \/ \E w \in SUBSET Player, u \in Player : x \in Pvp /\ SettlePvp(x, w, u)
  \/ CancelTable(x) \/ GetStuck(x)
  \/ Crash \/ ReleaseReservations
  \/ \E u \in Player : RemoveRow(x, u)
  \/ RecoverSession(x)

LEMMA SameVault ==
  ASSUME NEW v, NEW w, NEW x, w = v PROVE SameAt(v, w, x)
BY DEF SameAt

\* A vault with the same book and the same chips at the sessions.
LEMMA SameBook ==
  ASSUME NEW v, NEW w, NEW x \in Session, w.book = v.book, w.chips[x] = v.chips[x]
  PROVE  SameAt(v, w, x)
BY DEF SameAt, Staked

LEMMA TableStepAt ==
  ASSUME TypeOK, TableStep, NEW x \in Table
  PROVE  StillAt(x) \/ TableMoves(x)
<1>0. /\ vault \in Vaults /\ x \in Session /\ x \notin Player /\ x \in Holder
      /\ x # House /\ x \in Holder \ Player
      /\ reserved \in [Player \union Session -> Nat]
      /\ phase \in [Table -> {"none", "open", "spinning", "stuck", "over"}]
      /\ bets \in [Roulette -> Wagers]
      /\ Roulette \subseteq Session /\ Pvp \subseteq Session
      /\ Roulette \subseteq Table /\ Pvp \subseteq Table /\ Table \subseteq Session
  BY SessionNames, Names DEF TypeOK, MoneyTyped, TablesTyped, Table
<1>1. ASSUME NEW u \in Player, NEW n \in SoloBets, StartGame(u, n) PROVE StillAt(x)
  <2>1. SameAt(vault, vault', x)
    BY <1>0, <1>1, StartGameEffect, SameBook
  <2>2. phase' = phase /\ bets' = bets /\ reserved' = [reserved EXCEPT ![u] = SoloDebt(n)]
    BY <1>1 DEF StartGame
  <2> QED
    BY <1>0, <2>1, <2>2 DEF StillAt
<1>2. ASSUME NEW u \in Player, SoloOver(u), SameAt(vault, vault', x) PROVE StillAt(x)
  <2>1. phase' = phase /\ bets' = bets /\ reserved' = [reserved EXCEPT ![u] = 0]
    BY <1>2 DEF SoloOver, ReleaseOne
  <2> QED
    BY <1>0, <1>2, <2>1 DEF StillAt
<1>3. ASSUME NEW u \in Player, NEW p \in Nat, FinishGame(u, p) PROVE StillAt(x)
  <2>1. SameAt(vault, vault', x)
    BY <1>0, <1>3, FinishGameEffect, SameBook
  <2> QED
    BY <1>2, <1>3, <2>1 DEF FinishGame
<1>4. ASSUME NEW u \in Player, AbandonGame(u) PROVE StillAt(x)
  BY <1>2, <1>4, SameVault DEF AbandonGame
<1>5. ASSUME NEW u \in Player, RedeemFree(u) PROVE StillAt(x)
  <2>1. vault' = RedeemAll(vault, u) /\ UNCHANGED <<phase, bets, reserved>>
    BY <1>5 DEF RedeemFree, tableVars
  <2>2. SameAt(vault, vault', x)
    BY <1>0, <2>1, RedeemEffect, SameBook
  <2> QED
    BY <2>1, <2>2 DEF StillAt
<1>6. ASSUME NEW s \in Table, OpenTable(s) \/ CloseBetting(s) \/ GetStuck(s), s # x
      PROVE  StillAt(x)
  <2>1. UNCHANGED <<vault, reserved>>
    BY <1>6 DEF OpenTable, CloseBetting, GetStuck, moneyVars
  <2>2. x \in Roulette => bets'[x] = bets[x]
    BY <1>6 DEF OpenTable, CloseBetting, GetStuck, ForgetBets
  <2>3. phase'[x] = phase[x]
    BY <1>0, <1>6 DEF OpenTable, CloseBetting, GetStuck
  <2> QED
    BY <2>1, <2>2, <2>3, SameVault DEF StillAt
<1>7. ASSUME NEW s \in Table, SweepStale(s), s # x PROVE StillAt(x)
  BY <1>0, <1>7, SameVault DEF SweepStale, tableVars, ReleaseOne, StillAt
<1>8. ASSUME NEW s \in Roulette, NEW u \in Player, NEW t \in DOMAIN Odds, NEW n \in Bets,
             AcceptRouletteBet(s, u, t, n), s # x
      PROVE  StillAt(x)
  <2>1. /\ CanFund(RefundOne(vault, s, u), u, n) /\ s \in Session
        /\ vault' = Hold(RefundOne(vault, s, u), s, u, n)
    BY <1>0, <1>8 DEF AcceptRouletteBet
  <2>2. SameAt(vault, vault', x)
    BY <1>0, <1>8, <2>1, RebetEffect
  <2>3. /\ phase' = phase /\ bets' = [bets EXCEPT ![s] = WithBet(s, u, t, n)]
        /\ reserved' = [reserved EXCEPT ![s] = TableDebt(WithBet(s, u, t, n))]
    BY <1>8 DEF AcceptRouletteBet
  <2> QED
    BY <1>0, <1>8, <2>2, <2>3 DEF StillAt
<1>9. ASSUME NEW s \in Roulette, NEW hit, SettleRoulette(s, hit), s # x PROVE StillAt(x)
  <2>1. /\ vault' = Spun(vault, s, hit) /\ reserved' = [reserved EXCEPT ![s] = 0]
        /\ phase' = [phase EXCEPT ![s] = "over"]
        /\ x \in Roulette => bets'[x] = bets[x]
    BY <1>9 DEF SettleRoulette, ReleaseOne, ForgetBets
  <2>2. SameAt(vault, vault', x)
    BY <1>0, <1>9, <2>1, SpunEffect
  <2> QED
    BY <1>0, <1>9, <2>1, <2>2 DEF StillAt
<1>10. ASSUME NEW s \in Pvp, NEW us \in SUBSET Player, NEW n \in Bets,
              CollectStakes(s, us, n), s # x
       PROVE  StillAt(x)
  <2>1. SameAt(vault, vault', x)
    BY <1>0, <1>10, CollectStakesEffect
  <2>2. phase' = [phase EXCEPT ![s] = "open"] /\ UNCHANGED <<bets, reserved>>
    BY <1>10 DEF CollectStakes
  <2> QED
    BY <1>0, <1>10, <2>1, <2>2 DEF StillAt
<1>11. ASSUME NEW s \in Pvp, NEW w \in SUBSET Player, NEW u \in Player,
              SettlePvp(s, w, u), s # x
       PROVE  StillAt(x)
  <2>1. SameAt(vault, vault', x)
    BY <1>0, <1>11, SettlePvpEffect DEF PaidOut
  <2>2. phase' = [phase EXCEPT ![s] = "over"] /\ UNCHANGED <<bets, reserved>>
    BY <1>11 DEF SettlePvp
  <2> QED
    BY <1>0, <1>11, <2>1, <2>2 DEF StillAt
<1>12. ASSUME NEW s \in Table, CancelTable(s), s # x PROVE StillAt(x)
  <2>1. /\ vault' = Refund(vault, s) /\ reserved' = [reserved EXCEPT ![s] = 0]
        /\ phase' = [phase EXCEPT ![s] = "over"]
        /\ x \in Roulette => bets'[x] = bets[x]
    BY <1>12 DEF CancelTable, VoidTable, ReleaseOne, ForgetBets
  <2>2. SameAt(vault, vault', x)
    BY <1>0, <1>12, <2>1, RefundEffect
  <2> QED
    BY <1>0, <1>12, <2>1, <2>2 DEF StillAt
<1>13. \A u \in Player : 0 .. solo[u] * SoloOdds \subseteq Nat
  OBVIOUS
<1>14. CASE \/ \E u \in Player, n \in SoloBets : StartGame(u, n)
            \/ \E u \in Player : \E p \in 0 .. solo[u] * SoloOdds : FinishGame(u, p)
            \/ \E u \in Player : AbandonGame(u) \/ RedeemFree(u)
  BY <1>1, <1>3, <1>4, <1>5, <1>13, <1>14
<1>15. CASE \/ \E s \in Roulette : OpenTable(s) \/ CloseBetting(s) \/ SweepStale(s)
            \/ \E s \in Table : CancelTable(s) \/ GetStuck(s)
  BY <1>0, <1>6, <1>7, <1>12, <1>15 DEF TableMoves
<1>16. CASE \/ \E s \in Roulette, u \in Player, t \in DOMAIN Odds, n \in Bets :
                 AcceptRouletteBet(s, u, t, n)
            \/ \E s \in Roulette, hit \in SUBSET DOMAIN Odds : SettleRoulette(s, hit)
  BY <1>0, <1>8, <1>9, <1>16 DEF TableMoves
<1>17. CASE \/ \E s \in Pvp, us \in (SUBSET Player) \ {{}}, n \in Bets :
                 CollectStakes(s, us, n)
            \/ \E s \in Pvp, w \in SUBSET Player, u \in Player : SettlePvp(s, w, u)
  BY <1>0, <1>10, <1>11, <1>17 DEF TableMoves
<1> QED
  BY <1>14, <1>15, <1>16, <1>17 DEF TableStep, Table

LEMMA StepAt ==
  ASSUME TypeOK, Next, NEW x \in Table
  PROVE  StillAt(x) \/ TableMoves(x)
<1>0. /\ Sorted /\ vault \in Vaults /\ x \in Session /\ x \notin Board
      /\ x \in Holder \ Player /\ x # House /\ x # Jackpot
  BY NextSorted, SessionNames, Names DEF TypeOK, MoneyTyped
<1>1. ASSUME UNCHANGED <<reserved, tableVars>>, SameAt(vault, vault', x) PROVE StillAt(x)
  BY <1>1 DEF tableVars, StillAt
<1>2. CASE TableStep
  BY <1>2, TableStepAt
<1>3. CASE Midnight /\ Outside /\ UNCHANGED <<status, up, tableVars, board>>
  BY <1>1, <1>3, SameVault DEF Midnight
<1>4. ASSUME NEW b \in Board, NEW mode, Create(b, mode) PROVE StillAt(x)
  <2>1. SameAt(vault, vault', x)
    BY <1>0, <1>4, CreateEffect, SameBook
  <2> QED
    BY <1>1, <1>4, <2>1 DEF Create, BoardUnchanged
<1>5. ASSUME NEW b \in Board, NEW u \in Player, NEW o, NEW n \in Bets, Bet(b, u, o, n)
      PROVE  StillAt(x)
  <2>1. /\ CanFund(RefundOne(vault, b, u), u, n) /\ b \in Session
        /\ vault' = Hold(RefundOne(vault, b, u), b, u, n)
    BY <1>5, SessionNames DEF Bet
  <2>2. SameAt(vault, vault', x)
    BY <1>0, <2>1, RebetEffect
  <2> QED
    BY <1>1, <1>5, <2>2 DEF Bet, BoardUnchanged
<1>6. ASSUME NEW b \in Board, NEW r, Noted(b, r) PROVE StillAt(x)
  BY <1>1, <1>6, SameVault DEF Noted, OnlyBoard, BoardUnchanged
<1>7. ASSUME NEW b \in Board, NEW r, NEW lead, BoardEnds(b, r, lead) PROVE StillAt(x)
  <2>1. \/ vault' = Refund(vault, b)
        \/ PaidOut(vault, b, BoardPay(b, r.result, lead), vault')
    BY <1>7, SettleBoardEffect DEF BoardEnds
  <2>2. SameAt(vault, vault', x)
    BY <1>0, <2>1, RefundEffect, SessionNames DEF PaidOut
  <2> QED
    BY <1>1, <1>7, <2>2 DEF BoardEnds, SettleBoard, BoardUnchanged
<1>8. ASSUME NEW b \in Board, AdminVoid(b) PROVE StillAt(x)
  <2>1. vault' = Refund(vault, b) /\ b \in Session
    BY <1>8, SessionNames DEF AdminVoid
  <2>2. SameAt(vault, vault', x)
    BY <1>0, <2>1, RefundEffect
  <2> QED
    BY <1>1, <1>8, <2>2 DEF AdminVoid, BoardUnchanged
<1>9. ASSUME NEW s \in Session, NEW u \in Player, RemoveRow(s, u), s # x PROVE StillAt(x)
  <2>1. SameAt(vault, vault', x)
    BY <1>0, <1>9, RemoveRowEffect
  <2> QED
    BY <1>1, <1>9, <2>1 DEF RemoveRow
<1>10. ASSUME NEW s \in Session, RecoverSession(s), s # x PROVE StillAt(x)
  <2>1. vault' = Sweep(s)
    BY <1>10 DEF RecoverSession
  <2>2. SameAt(vault, vault', x)
    BY <1>0, <1>10, <2>1, SweepEffect
  <2> QED
    BY <1>1, <1>10, <2>2 DEF RecoverSession, KeptByRecovery
<1>11. ASSUME NEW u \in Player, RedeemAtStart(u) PROVE StillAt(x)
  <2>1. vault' = vault \/ vault' = RedeemAll(vault, u)
    BY <1>11 DEF RedeemAtStart
  <2>2. SameAt(vault, vault', x)
    BY <1>0, <2>1, RedeemEffect, SameBook, SameVault
  <2> QED
    BY <1>1, <1>11, <2>2 DEF RedeemAtStart, KeptByRecovery
<1>12. ASSUME NEW n \in Bets, SettleHouseNow(n) PROVE StillAt(x)
  <2>1. SettleHouse(n)
    BY <1>12 DEF SettleHouseNow
  <2>2. SameAt(vault, vault', x)
    BY <1>0, <2>1, SettleHouseEffect, SameBook
  <2> QED
    BY <1>1, <2>1, <2>2 DEF SettleHouse
<1>13. CASE Quiet
  BY <1>1, <1>13, QuietFacts, SameVault
<1>14. CASE Crash \/ ReleaseReservations
  BY <1>14 DEF TableMoves
<1>15. ASSUME NEW u \in Player, RemoveRow(x, u) PROVE TableMoves(x)
  BY <1>15 DEF TableMoves
<1>16. ASSUME RecoverSession(x) PROVE TableMoves(x)
  BY <1>16 DEF TableMoves
<1> QED
  BY <1>0, <1>2, <1>3, <1>4, <1>5, <1>6, <1>7, <1>8, <1>9, <1>10, <1>11, <1>12, <1>13,
     <1>14, <1>15, <1>16 DEF Sorted

\* A stopped casino, and one that waits for another recovery, runs no game;
\* the recovery works while nothing is served.
Idle ==
  /\ ~up \/ status = "recovery_halt"
       => /\ \A u \in Player : solo[u] = 0
          /\ \A s \in Table : phase[s] \in {"none", "over"}
  /\ rec.stage # "off" => ~up

\* The holder of a table that is not over holds the rows of its book.
RowsAgreeAt(s) ==
  /\ phase[s] = "none" => ~HasRows(vault, s)
  /\ phase[s] # "over" => Matches(vault, s)

RowsAgree == \A s \in Table : RowsAgreeAt(s)

\* While bets are taken or settled, the memory of the table, its rows and its
\* reservation say the same.
BetsAgreeAt(s) ==
  /\ phase[s] = "none" => reserved[s] = 0 /\ bets[s] = NobodyBets
  /\ phase[s] \in {"open", "spinning"}
       => /\ \A u \in Player : vault.book[s][u] = bets[s][u].amount
          /\ reserved[s] = TableDebt(bets[s])

BetsAgree == \A s \in Roulette : BetsAgreeAt(s)

LEMMA TablesNeedService ==
  ASSUME Idle, TableStep
  PROVE  up /\ status # "recovery_halt"
<1>1. Serving => up /\ status # "recovery_halt"
  BY DEF Serving
<1>2. ASSUME NEW u \in Player, NEW n, StartGame(u, n) \/ FinishGame(u, n) PROVE Serving
  BY <1>2 DEF StartGame, FinishGame
<1>3. ASSUME NEW u \in Player, AbandonGame(u) PROVE up /\ status # "recovery_halt"
  BY <1>3 DEF AbandonGame, Idle
<1>4. ASSUME NEW u \in Player, RedeemFree(u) PROVE Serving
  BY <1>4 DEF RedeemFree
<1>5. ASSUME NEW s \in Table, OpenTable(s) \/ CancelTable(s) PROVE Serving
  BY <1>5 DEF OpenTable, CancelTable
<1>6. ASSUME NEW s \in Table, CloseBetting(s) \/ SweepStale(s) \/ GetStuck(s)
      PROVE  up /\ status # "recovery_halt"
  BY <1>6 DEF CloseBetting, SweepStale, GetStuck, Idle
<1>7. ASSUME NEW s, NEW u, NEW t, NEW n, AcceptRouletteBet(s, u, t, n) PROVE Serving
  BY <1>7 DEF AcceptRouletteBet
<1>8. ASSUME NEW s, NEW w, NEW u,
             SettleRoulette(s, w) \/ CollectStakes(s, w, u) \/ SettlePvp(s, w, u)
      PROVE  Serving
  BY <1>8 DEF SettleRoulette, CollectStakes, SettlePvp
<1> QED
  BY <1>1, <1>2, <1>3, <1>4, <1>5, <1>6, <1>7, <1>8 DEF TableStep, Table

LEMMA MarketStatus ==
  ASSUME NEW b, NEW r, NEW x, NEW o, NEW n,
         \/ Create(b, r) \/ Bet(b, x, o, n) \/ Noted(b, r) \/ BoardEnds(b, r, x)
         \/ AdminVoid(b)
  PROVE  UNCHANGED <<status, up>>
BY DEF Create, Bet, Noted, OnlyBoard, BoardEnds, SettleBoard, AdminVoid, BoardUnchanged

LEMMA IdleStep ==
  ASSUME TypeOK, Idle, Next
  PROVE  Idle'
<1>0. Sorted /\ rec \in RecoveryRows /\ up \in BOOLEAN
  BY NextSorted DEF TypeOK, RecoveryTyped
<1>1. CASE TableStep /\ Aside
  <2>1. up' /\ status' # "recovery_halt" /\ rec' = rec
    BY <1>1, TablesNeedService, TableStatus DEF Aside, Outside
  <2> QED
    BY <1>1, <2>1, TablesNeedService DEF Idle
<1>2. CASE Crash
  <2>1. phase \in [Table -> {"none", "open", "spinning", "stuck", "over"}]
    BY DEF TypeOK, TablesTyped
  <2>2. /\ \A u \in Player : solo'[u] = 0
        /\ \A s \in Table : phase'[s] \in {"none", "over"}
        /\ rec'.stage = "off"
    BY <1>2, <2>1 DEF Crash, NoRecovery
  <2> QED
    BY <2>2 DEF Idle
<1>3. ASSUME UNCHANGED tableVars, UNCHANGED <<status, up>>,
             rec'.stage = rec.stage \/ rec.stage # "off"
      PROVE  Idle'
  BY <1>3 DEF tableVars, Idle
<1>4. CASE Quiet
  <2>0. UNCHANGED tableVars
    BY <1>4, QuietFacts
  <2>1. ASSUME \/ ~up \/ status = "recovery_halt" \/ rec.stage # "off",
               rec'.stage # "off" => ~up'
        PROVE  Idle'
    BY <2>0, <2>1 DEF tableVars, Idle
  <2>2. NoRecovery.stage = "off"
    BY DEF NoRecovery
  <2>3. CASE Boot
    <3>1. rec' = rec \/ up' = up
      BY <2>3 DEF Boot
    <3> QED
      BY <2>1, <2>3, <3>1 DEF Boot
  <2>4. CASE Rerecover
    BY <2>1, <2>4 DEF Rerecover
  <2>5. CASE RecoveryThrows \/ FinishRecovery
    BY <2>1, <2>2, <2>5 DEF RecoveryThrows, FinishRecovery
  <2>6. ASSUME NEW u \in Player, Moderate(u) PROVE Idle'
    BY <1>3, <2>0, <2>6 DEF Moderate
  <2>7. ASSUME NEW s \in Session, RefundFails(s) PROVE Idle'
    BY <1>3, <2>0, <2>7 DEF RefundFails
  <2>8. CASE Halt \/ Recheck \/ Reopen
    <3>1. up /\ up' = up /\ rec' = rec /\ status' # "recovery_halt"
      BY <2>8 DEF Halt, Recheck, Reopen, SetStatus
    <3> QED
      BY <2>0, <3>1 DEF tableVars, Idle
  <2> QED
    BY <1>4, <2>3, <2>4, <2>5, <2>6, <2>7, <2>8 DEF Quiet
<1>5. CASE Midnight /\ Outside /\ UNCHANGED <<status, up, tableVars, board>>
  BY <1>3, <1>5 DEF Outside
<1>6. ASSUME NEW b \in Board, NEW r, NEW x, NEW o, NEW n, Outside,
             \/ Create(b, r) \/ Bet(b, x, o, n) \/ Noted(b, r) \/ BoardEnds(b, r, x)
             \/ AdminVoid(b)
      PROVE  Idle'
  <2>1. UNCHANGED tableVars
    BY <1>6 DEF Create, Bet, Noted, OnlyBoard, BoardEnds, SettleBoard, AdminVoid,
                BoardUnchanged
  <2> QED
    BY <1>3, <1>6, <2>1, MarketStatus DEF Outside
<1>7. ASSUME NEW s, NEW u, RemoveRow(s, u) PROVE Idle'
  BY <1>3, <1>7 DEF RemoveRow
<1>8. ASSUME NEW x, RecoverSession(x) \/ RedeemAtStart(x) \/ ReleaseReservations PROVE Idle'
  <2>1. rec.stage # "off" /\ UNCHANGED tableVars /\ UNCHANGED <<status, up>>
    BY <1>8 DEF RecoverSession, RedeemAtStart, ReleaseReservations, KeptByRecovery
  <2> QED
    BY <1>3, <2>1
<1>9. ASSUME NEW n, SettleHouseNow(n) PROVE Idle'
  BY <1>3, <1>9 DEF SettleHouseNow, SettleHouse
<1> HIDE DEF Idle
<1> QED
  BY <1>0, <1>1, <1>2, <1>4, <1>5, <1>6, <1>7, <1>8, <1>9 DEF Sorted

LEMMA NoRowsNoStake ==
  ASSUME NEW v \in Vaults, NEW s \in Session
  PROVE  /\ ~HasRows(v, s) <=> \A u \in Player : v.book[s][u] = 0
         /\ ~HasRows(v, s) => Staked(v, s) = 0
<1>1. \A u \in Player : v.book[s][u] \in Nat
  BY VaultFacts
<1>2. Staked(v, s) = SumFunctionOnSet(v.book[s], Player)
  BY VaultSums
<1>3. (\A u \in Player : v.book[s][u] = 0) => Staked(v, s) = 0
  BY <1>2, HolderFinite, SumZero
<1> QED
  BY <1>1, <1>3 DEF HasRows

LEMMA SameAtFacts ==
  ASSUME NEW v, NEW w, NEW x, SameAt(v, w, x)
  PROVE  /\ HasRows(w, x) <=> HasRows(v, x)
         /\ Matches(w, x) <=> Matches(v, x)
         /\ w.book[x] = v.book[x] /\ w.chips[x] = v.chips[x]
BY DEF SameAt, HasRows, Matches

LEMMA RowsAgreeStep ==
  ASSUME TypeOK, Idle, RowsAgree, Next
  PROVE  RowsAgree'
<1> SUFFICES ASSUME NEW x \in Table PROVE RowsAgreeAt(x)'
  BY DEF RowsAgree
<1>0. /\ vault \in Vaults /\ vault' \in Vaults /\ x \in Session /\ x \in Holder
      /\ RowsAgreeAt(x)
      /\ phase \in [Table -> {"none", "open", "spinning", "stuck", "over"}]
      /\ vault.chips[x] \in Int /\ vault'.chips[x] \in Int
      /\ Staked(vault, x) \in Int /\ Staked(vault', x) \in Int
  BY VaultStep, SessionNames, Names, VaultFacts, VaultSums
     DEF RowsAgree, TypeOK, MoneyTyped, TablesTyped
<1>1. CASE StillAt(x)
  BY <1>0, <1>1, SameAtFacts DEF StillAt, RowsAgreeAt
<1>2. ASSUME phase'[x] = "over" PROVE RowsAgreeAt(x)'
  BY <1>2 DEF RowsAgreeAt
<1>3. CASE OpenTable(x) \/ CloseBetting(x) \/ GetStuck(x) \/ SweepStale(x)
  <2>1. vault' = vault
    BY <1>3 DEF OpenTable, CloseBetting, GetStuck, SweepStale, moneyVars
  <2>2. phase[x] # "over" /\ (phase'[x] = "none" => phase[x] = "none")
    BY <1>0, <1>3 DEF OpenTable, CloseBetting, GetStuck, SweepStale, tableVars
  <2> QED
    BY <1>0, <2>1, <2>2 DEF RowsAgreeAt
<1>4. ASSUME NEW u \in Player, NEW t \in DOMAIN Odds, NEW n \in Bets, x \in Roulette,
             AcceptRouletteBet(x, u, t, n)
      PROVE  RowsAgreeAt(x)'
  <2>1. /\ CanFund(RefundOne(vault, x, u), u, n)
        /\ vault' = Hold(RefundOne(vault, x, u), x, u, n)
        /\ phase' = phase /\ phase[x] = "open"
    BY <1>4 DEF AcceptRouletteBet
  <2>2. vault'.chips[x] - Staked(vault', x) = vault.chips[x] - Staked(vault, x)
    BY <1>0, <2>1, RebetEffect
  <2> QED
    BY <1>0, <2>1, <2>2 DEF RowsAgreeAt, Matches
<1>5. ASSUME NEW us \in SUBSET Player, NEW n \in Bets, x \in Pvp, CollectStakes(x, us, n)
      PROVE  RowsAgreeAt(x)'
  <2>1. phase[x] # "over" /\ phase'[x] = "open"
    BY <1>0, <1>5 DEF CollectStakes
  <2>2. vault'.chips[x] - Staked(vault', x) = vault.chips[x] - Staked(vault, x)
    BY <1>5, CollectStakesEffect
  <2> QED
    BY <1>0, <2>1, <2>2 DEF RowsAgreeAt, Matches
<1>6. ASSUME NEW w, NEW u,
             SettleRoulette(x, w) \/ SettlePvp(x, w, u) \/ CancelTable(x)
      PROVE  RowsAgreeAt(x)'
  <2>1. phase'[x] = "over"
    BY <1>0, <1>6 DEF SettleRoulette, SettlePvp, CancelTable, VoidTable
  <2> QED
    BY <1>2, <2>1
<1>7. CASE Crash
  <2>1. vault' = vault /\ phase'[x] = IF phase[x] = "none" THEN "none" ELSE "over"
    BY <1>0, <1>7 DEF Crash
  <2> QED
    BY <1>0, <2>1 DEF RowsAgreeAt
<1>8. CASE ReleaseReservations
  BY <1>0, <1>8 DEF ReleaseReservations, KeptByRecovery, tableVars, RowsAgreeAt
<1>9. ASSUME NEW u \in Player, RemoveRow(x, u) PROVE RowsAgreeAt(x)'
  <2>1. ~up /\ phase'[x] = phase[x] /\ HasRows(vault, x)
    BY <1>9, SessionNames DEF RemoveRow, tableVars, HasRows
  <2>2. phase[x] = "over"
    BY <1>0, <2>1 DEF Idle, RowsAgreeAt
  <2> QED
    BY <1>2, <2>1, <2>2
<1>10. CASE RecoverSession(x)
  <2>1. phase'[x] = phase[x] /\ phase[x] \in {"none", "over"} /\ vault' = Sweep(x)
    BY <1>0, <1>10 DEF RecoverSession, KeptByRecovery, tableVars, Idle
  <2>2. CASE phase[x] = "none"
    <3>1. /\ \A u \in Player : vault.book[x][u] = 0
          /\ vault.chips[x] = 0
      BY <1>0, <2>2, NoRowsNoStake DEF RowsAgreeAt, Matches
    <3>2. /\ \A u \in Player : vault'.book[x][u] \in {0, vault.book[x][u]}
          /\ vault' = vault \/ vault'.chips[x] = 0
      BY <1>0, <2>1, SweepEffect
    <3>3. ~HasRows(vault', x) /\ Staked(vault', x) = 0
      BY <1>0, <3>1, <3>2, NoRowsNoStake
    <3> QED
      BY <3>1, <3>2, <3>3 DEF RowsAgreeAt, Matches
  <2> QED
    BY <1>2, <2>1, <2>2
<1> QED
  BY <1>1, <1>3, <1>4, <1>5, <1>6, <1>7, <1>8, <1>9, <1>10, StepAt DEF TableMoves

LEMMA BetsAgreeStep ==
  ASSUME TypeOK, Idle, RowsAgree, BetsAgree, Next
  PROVE  BetsAgree'
<1> SUFFICES ASSUME NEW x \in Roulette PROVE BetsAgreeAt(x)'
  BY DEF BetsAgree
<1>0. /\ vault \in Vaults /\ vault' \in Vaults /\ x \in Session /\ x \in Table
      /\ x \notin Pvp
      /\ BetsAgreeAt(x) /\ RowsAgreeAt(x) /\ bets[x] \in Wagers
      /\ bets \in [Roulette -> Wagers]
      /\ phase \in [Table -> {"none", "open", "spinning", "stuck", "over"}]
      /\ reserved \in [Player \union Session -> Nat] /\ x \in Player \union Session
  BY VaultStep, SessionNames DEF RowsAgree, BetsAgree, TypeOK, MoneyTyped, TablesTyped, Table
<1>1. CASE StillAt(x)
  BY <1>1, <1>0, SameAtFacts DEF StillAt, BetsAgreeAt
<1>2. ASSUME phase'[x] \in {"over", "stuck"} PROVE BetsAgreeAt(x)'
  BY <1>2 DEF BetsAgreeAt
<1>3. CASE OpenTable(x)
  <2>1. /\ vault' = vault /\ reserved' = reserved /\ bets' = bets
        /\ phase[x] = "none" /\ phase'[x] = "open"
    BY <1>0, <1>3 DEF OpenTable, moneyVars
  <2>2. /\ \A u \in Player : vault.book[x][u] = 0
        /\ reserved[x] = 0 /\ bets[x] = NobodyBets
    BY <1>0, <2>1, NoRowsNoStake DEF RowsAgreeAt, BetsAgreeAt
  <2>3. \A u \in Player : NobodyBets[u].amount = 0
    BY DEF NobodyBets, NoBet
  <2> QED
    BY <2>1, <2>2, <2>3, NobodyBetsTyped DEF BetsAgreeAt
<1>4. CASE CloseBetting(x)
  <2>1. /\ vault' = vault /\ reserved' = reserved /\ bets' = bets
        /\ phase[x] = "open" /\ phase'[x] \in {"over", "spinning"}
    BY <1>0, <1>4 DEF CloseBetting, moneyVars
  <2> QED
    BY <1>0, <2>1 DEF BetsAgreeAt
<1>5. CASE SweepStale(x)
  <2>1. phase'[x] = "stuck"
    BY <1>5 DEF SweepStale, tableVars
  <2> QED
    BY <1>2, <2>1
<1>6. ASSUME NEW u \in Player, NEW t \in DOMAIN Odds, NEW n \in Bets,
             AcceptRouletteBet(x, u, t, n)
      PROVE  BetsAgreeAt(x)'
  <2> DEFINE next == WithBet(x, u, t, n)
  <2>1. /\ CanFund(RefundOne(vault, x, u), u, n)
        /\ vault' = Hold(RefundOne(vault, x, u), x, u, n)
        /\ phase'[x] = "open" /\ phase[x] = "open"
        /\ bets' = [bets EXCEPT ![x] = next]
        /\ reserved' = [reserved EXCEPT ![x] = TableDebt(next)]
    BY <1>6 DEF AcceptRouletteBet
  <2>2. /\ vault'.book[x][u] = n
        /\ \A p \in Player \ {u} : vault'.book[x][p] = vault.book[x][p]
    BY <1>0, <2>1, RebetEffect
  <2>3. next[u].amount = n /\ \A p \in Player \ {u} : next[p] = bets[x][p]
    BY <1>0 DEF WithBet, Wagers
  <2>4. \A p \in Player : vault.book[x][p] = bets[x][p].amount
    BY <1>0, <2>1 DEF BetsAgreeAt
  <2> HIDE DEF next
  <2>5. bets'[x] = next /\ reserved'[x] = TableDebt(next)
    BY <1>0, <2>1
  <2> QED
    BY <2>1, <2>2, <2>3, <2>4, <2>5 DEF BetsAgreeAt
<1>7. ASSUME NEW hit, SettleRoulette(x, hit) \/ CancelTable(x) PROVE BetsAgreeAt(x)'
  <2>1. phase'[x] = "over"
    BY <1>0, <1>7 DEF SettleRoulette, CancelTable, VoidTable
  <2> QED
    BY <1>2, <2>1
<1>8. CASE GetStuck(x)
  <2>1. phase'[x] = "stuck"
    BY <1>0, <1>8 DEF GetStuck
  <2> QED
    BY <1>2, <2>1
<1>9. CASE Crash
  <2>1. /\ reserved' = reserved /\ bets'[x] = NobodyBets
        /\ phase'[x] = IF phase[x] = "none" THEN "none" ELSE "over"
    BY <1>0, <1>9 DEF Crash
  <2> QED
    BY <1>0, <2>1 DEF BetsAgreeAt
<1>10. CASE ReleaseReservations
  <2>1. /\ UNCHANGED <<vault, phase, bets>> /\ reserved'[x] = 0
        /\ phase[x] \in {"none", "over"}
    BY <1>0, <1>10 DEF ReleaseReservations, NothingReserved, KeptByRecovery, tableVars, Idle
  <2> QED
    BY <1>0, <2>1 DEF BetsAgreeAt
<1>11. ASSUME NEW u \in Player, RemoveRow(x, u) PROVE BetsAgreeAt(x)'
  <2>1. UNCHANGED <<reserved, phase, bets>> /\ phase[x] \in {"none", "over"}
    BY <1>0, <1>11, SessionNames DEF RemoveRow, tableVars, Idle
  <2> QED
    BY <1>0, <2>1 DEF BetsAgreeAt
<1>12. CASE RecoverSession(x)
  <2>1. UNCHANGED <<reserved, phase, bets>> /\ phase[x] \in {"none", "over"}
    BY <1>0, <1>12 DEF RecoverSession, KeptByRecovery, tableVars, Idle
  <2> QED
    BY <1>0, <2>1 DEF BetsAgreeAt
<1> QED
  BY <1>0, <1>1, <1>3, <1>4, <1>5, <1>6, <1>7, <1>8, <1>9, <1>10, <1>11, <1>12, StepAt
     DEF TableMoves

-----------------------------------------------------------------------------
(* Players: their seats and their solo games.                              *)

SoloCovered ==
  \A u \in Player : solo[u] > 0 => reserved[u] = SoloDebt(solo[u])

\* What can happen to the game of player u.
GameMoves(u) ==
  \/ \E n \in SoloBets : StartGame(u, n)
  \/ \E p \in 0 .. solo[u] * SoloOdds : FinishGame(u, p)
  \/ AbandonGame(u)
  \/ Crash \/ ReleaseReservations

StillWith(u) == solo'[u] = solo[u] /\ reserved'[u] = reserved[u]

LEMMA StepWith ==
  ASSUME TypeOK, Next, NEW u \in Player
  PROVE  StillWith(u) \/ GameMoves(u)
<1>0. /\ Sorted /\ u \notin Session
      /\ reserved \in [Player \union Session -> Nat] /\ solo \in [Player -> Nat]
      /\ Roulette \subseteq Session /\ Pvp \subseteq Session /\ Table \subseteq Session
  BY NextSorted, SessionNames, Names DEF TypeOK, MoneyTyped, TablesTyped
<1>1. ASSUME NEW p \in Player, NEW n, p # u,
             StartGame(p, n) \/ FinishGame(p, n) \/ AbandonGame(p)
      PROVE  StillWith(u)
  BY <1>0, <1>1 DEF StartGame, FinishGame, AbandonGame, SoloOver, ReleaseOne, StillWith
<1>2. ASSUME NEW p, RedeemFree(p) PROVE StillWith(u)
  BY <1>2 DEF RedeemFree, tableVars, StillWith
<1>3. ASSUME NEW s \in Table,
             OpenTable(s) \/ CloseBetting(s) \/ SweepStale(s) \/ GetStuck(s)
      PROVE  StillWith(u)
  BY <1>0, <1>3 DEF OpenTable, CloseBetting, SweepStale, GetStuck, moneyVars, tableVars,
                    ReleaseOne, StillWith
<1>4. ASSUME NEW s \in Table, NEW p, NEW t, NEW n, AcceptRouletteBet(s, p, t, n)
      PROVE  StillWith(u)
  BY <1>0, <1>4 DEF AcceptRouletteBet, StillWith
<1>5. ASSUME NEW s \in Table, NEW w, NEW n,
             \/ SettleRoulette(s, w) \/ CollectStakes(s, w, n) \/ SettlePvp(s, w, n)
             \/ CancelTable(s)
      PROVE  StillWith(u)
  BY <1>0, <1>5 DEF SettleRoulette, CollectStakes, SettlePvp, CancelTable, VoidTable,
                    ReleaseOne, StillWith
<1>6. CASE TableStep
  <2>1. ASSUME NEW p \in Player, NEW n,
               \/ StartGame(p, n) /\ n \in SoloBets
               \/ FinishGame(p, n) /\ n \in 0 .. solo[p] * SoloOdds
               \/ AbandonGame(p)
        PROVE  StillWith(u) \/ GameMoves(u)
    BY <1>1, <2>1 DEF GameMoves
  <2> QED
    BY <1>2, <1>3, <1>4, <1>5, <1>6, <2>1 DEF TableStep, Table
<1>7. CASE Crash \/ ReleaseReservations
  BY <1>7 DEF GameMoves
<1>8. ASSUME UNCHANGED <<reserved, tableVars>> PROVE StillWith(u)
  BY <1>8 DEF tableVars, StillWith
<1>9. CASE Midnight /\ Outside /\ UNCHANGED <<status, up, tableVars, board>>
  BY <1>8, <1>9 DEF Midnight
<1>10. ASSUME NEW b, NEW r, NEW x, NEW o, NEW n,
              \/ Create(b, r) \/ Bet(b, x, o, n) \/ Noted(b, r) \/ BoardEnds(b, r, x)
              \/ AdminVoid(b)
       PROVE  StillWith(u)
  BY <1>8, <1>10 DEF Create, Bet, Noted, OnlyBoard, BoardEnds, SettleBoard, AdminVoid,
                     BoardUnchanged
<1>11. ASSUME NEW s, NEW p, RemoveRow(s, p) PROVE StillWith(u)
  BY <1>8, <1>11 DEF RemoveRow
<1>12. ASSUME NEW x, RecoverSession(x) \/ RedeemAtStart(x) PROVE StillWith(u)
  BY <1>8, <1>12 DEF RecoverSession, RedeemAtStart, KeptByRecovery
<1>13. ASSUME NEW n, SettleHouseNow(n) PROVE StillWith(u)
  BY <1>8, <1>13 DEF SettleHouseNow, SettleHouse
<1>14. CASE Quiet
  BY <1>8, <1>14, QuietFacts
<1> QED
  BY <1>0, <1>6, <1>7, <1>9, <1>10, <1>11, <1>12, <1>13, <1>14 DEF Sorted

LEMMA SoloCoveredStep ==
  ASSUME TypeOK, Idle, SoloCovered, Next
  PROVE  SoloCovered'
<1> SUFFICES ASSUME NEW u \in Player, solo'[u] > 0 PROVE reserved'[u] = SoloDebt(solo'[u])
  BY DEF SoloCovered, SoloDebt
<1>0. /\ reserved \in [Player \union Session -> Nat] /\ solo \in [Player -> Nat]
  BY DEF TypeOK, MoneyTyped, TablesTyped
<1>1. CASE StillWith(u)
  BY <1>1 DEF StillWith, SoloCovered
<1>2. ASSUME NEW n \in SoloBets, StartGame(u, n) PROVE reserved'[u] = SoloDebt(solo'[u])
  BY <1>0, <1>2 DEF StartGame
<1>3. ASSUME NEW p, FinishGame(u, p) \/ AbandonGame(u) PROVE FALSE
  BY <1>0, <1>3 DEF FinishGame, AbandonGame, SoloOver
<1>4. CASE Crash
  BY <1>4 DEF Crash
<1>5. CASE ReleaseReservations
  BY <1>5 DEF ReleaseReservations, KeptByRecovery, tableVars, Idle
<1> QED
  BY <1>1, <1>2, <1>3, <1>4, <1>5, StepWith DEF GameMoves

Active == {"open", "spinning", "stuck"}

\* A step that brings no row to a table moves nobody.
LEMMA SeatsStay ==
  ASSUME OneTableEach, seat' = seat,
         \A u \in Player : solo'[u] > 0 => solo[u] > 0,
         \A x \in Table, u \in Player :
           vault'.book[x][u] > 0 /\ phase'[x] \in Active
             => vault.book[x][u] > 0 /\ phase[x] \in Active
  PROVE  OneTableEach'
BY DEF OneTableEach, Active, Table

\* Without a step of its own a table gets no row.
LEMMA RowsOnlyByTables ==
  ASSUME TypeOK, Next, ~TableStep, NEW x \in Table, NEW u \in Player
  PROVE  vault'.book[x][u] \in {0, vault.book[x][u]}
<1>0. /\ vault \in Vaults /\ x \in Session /\ x \in Roulette \union Pvp
      /\ \A p \in Player : vault.book[x][p] \in Nat
  BY SessionNames, VaultFacts DEF TypeOK, MoneyTyped, Table
<1>1. CASE StillAt(x)
  BY <1>1 DEF StillAt, SameAt
<1>2. CASE Crash \/ ReleaseReservations
  BY <1>2 DEF Crash, ReleaseReservations
<1>3. ASSUME NEW p \in Player, RemoveRow(x, p)
      PROVE  vault'.book[x][u] \in {0, vault.book[x][u]}
  BY <1>0, <1>3, RemoveRowEffect
<1>4. CASE RecoverSession(x)
  <2>1. vault' = Sweep(x)
    BY <1>4 DEF RecoverSession
  <2>2. vault'.book[x][u] \in {0, vault.book[x][u]}
    BY <1>0, <2>1, SweepEffect
  <2> QED
    BY <2>2
<1>5. CASE \/ x \in Roulette /\ (OpenTable(x) \/ CloseBetting(x) \/ SweepStale(x))
           \/ \E p \in Player, t \in DOMAIN Odds, n \in Bets :
                x \in Roulette /\ AcceptRouletteBet(x, p, t, n)
           \/ \E hit \in SUBSET DOMAIN Odds : x \in Roulette /\ SettleRoulette(x, hit)
           \/ \E us \in (SUBSET Player) \ {{}}, n \in Bets :
                x \in Pvp /\ CollectStakes(x, us, n)
           \/ \E w \in SUBSET Player, p \in Player : x \in Pvp /\ SettlePvp(x, w, p)
           \/ CancelTable(x) \/ GetStuck(x)
  BY <1>0, <1>5 DEF TableStep
<1> QED
  BY <1>1, <1>2, <1>3, <1>4, <1>5, StepAt DEF TableMoves

LEMMA OneTableStep ==
  ASSUME TypeOK, RowsAgree, OneTableEach, Next
  PROVE  OneTableEach'
<1>0. /\ Sorted /\ vault \in Vaults
      /\ seat \in [Player -> Session \union {"solo", "none"}]
      /\ solo \in [Player -> Nat]
      /\ phase \in [Table -> {"none", "open", "spinning", "stuck", "over"}]
      /\ Roulette \subseteq Table /\ Pvp \subseteq Table /\ Table \subseteq Session
      /\ "solo" \notin Session /\ "none" \notin Session
  BY NextSorted, SessionNames DEF TypeOK, MoneyTyped, TablesTyped, Table
<1>1. \A u \in Player : solo[u] > 0 => seat[u] = "solo"
  BY DEF OneTableEach
<1>2. \A u \in Player, x \in Table :
        vault.book[x][u] > 0 /\ phase[x] \in Active => seat[u] = x
  BY DEF OneTableEach, Active, Table
<1>3. ASSUME \A u \in Player : solo'[u] > 0 => seat'[u] = "solo",
             \A u \in Player, x \in Table :
               vault'.book[x][u] > 0 /\ phase'[x] \in Active => seat'[u] = x
      PROVE  OneTableEach'
  BY <1>3 DEF OneTableEach, Active, Table
<1>4. ASSUME NEW u \in Player, NEW n \in SoloBets, StartGame(u, n) PROVE OneTableEach'
  <2>1. /\ vault'.book = vault.book /\ phase' = phase /\ seat[u] = "none"
        /\ seat' = [seat EXCEPT ![u] = "solo"] /\ solo' = [solo EXCEPT ![u] = n]
    BY <1>4, StartGameEffect DEF StartGame
  <2> QED
    BY <1>0, <1>1, <1>2, <1>3, <2>1
<1>5. ASSUME NEW u \in Player, SoloOver(u), solo[u] > 0, vault'.book = vault.book
      PROVE  OneTableEach'
  <2>1. /\ phase' = phase /\ solo' = [solo EXCEPT ![u] = 0] /\ seat[u] = "solo"
        /\ seat' = Leave({u})
    BY <1>1, <1>5 DEF SoloOver
  <2>2. seat'[u] = "none" /\ \A p \in Player \ {u} : seat'[p] = seat[p]
    BY <2>1 DEF Leave
  <2>3. solo'[u] = 0 /\ \A p \in Player \ {u} : solo'[p] = solo[p]
    BY <1>0, <2>1
  <2>4. ASSUME NEW p \in Player, solo'[p] > 0 PROVE seat'[p] = "solo"
    BY <1>1, <2>2, <2>3, <2>4
  <2>5. ASSUME NEW p \in Player, NEW x \in Table,
               vault'.book[x][p] > 0, phase'[x] \in Active
        PROVE  seat'[p] = x
    <3>1. seat[p] = x /\ x # "solo"
      BY <1>0, <1>2, <1>5, <2>1, <2>5
    <3> QED
      BY <2>1, <2>2, <3>1
  <2> QED
    BY <1>3, <2>4, <2>5
<1>6. ASSUME NEW u \in Player, NEW p \in Nat, FinishGame(u, p) \/ AbandonGame(u)
      PROVE  OneTableEach'
  <2>1. vault'.book = vault.book
    BY <1>6, FinishGameEffect DEF AbandonGame
  <2>2. SoloOver(u) /\ solo[u] > 0
    BY <1>6 DEF FinishGame, AbandonGame
  <2> QED
    BY <1>5, <2>1, <2>2
<1>7. ASSUME NEW u \in Player, RedeemFree(u) PROVE OneTableEach'
  <2>1. vault' = RedeemAll(vault, u) /\ UNCHANGED <<seat, solo, phase>>
    BY <1>7 DEF RedeemFree, tableVars
  <2>2. vault'.book = vault.book
    BY <2>1, RedeemEffect
  <2> QED
    BY <2>1, <2>2, SeatsStay
<1>8. ASSUME NEW s \in Roulette, OpenTable(s) PROVE OneTableEach'
  <2>1. /\ vault' = vault /\ UNCHANGED <<seat, solo>> /\ phase[s] = "none"
        /\ phase' = [phase EXCEPT ![s] = "open"]
    BY <1>8 DEF OpenTable, moneyVars
  <2>2. \A u \in Player : vault.book[s][u] = 0
    BY <1>0, <2>1, NoRowsNoStake DEF RowsAgree, RowsAgreeAt
  <2>3. \A x \in Table \ {s} : phase'[x] = phase[x]
    BY <1>0, <2>1
  <2> QED
    BY <2>1, <2>2, <2>3, SeatsStay
<1>9. ASSUME NEW s \in Table, CloseBetting(s) \/ SweepStale(s) \/ GetStuck(s)
      PROVE  OneTableEach'
  <2>1. vault' = vault /\ UNCHANGED <<seat, solo>>
    BY <1>9 DEF CloseBetting, SweepStale, GetStuck, moneyVars, tableVars
  <2>2. /\ phase[s] \in Active
        /\ \A x \in Table \ {s} : phase'[x] = phase[x]
    BY <1>0, <1>9 DEF CloseBetting, SweepStale, GetStuck, tableVars, Active
  <2> QED
    BY <2>1, <2>2, SeatsStay
<1>10. ASSUME NEW s \in Table, NEW us \in SUBSET Player,
              \A u \in us : seat[u] \in {"none", s},
              solo' = solo,
              seat' = [u \in Player |-> IF u \in us THEN s ELSE seat[u]],
              \A x \in Table \ {s} : phase'[x] = phase[x],
              phase[s] \in Active \/ \A u \in Player : vault.book[s][u] = 0,
              \A x \in Session \ {s} : SameAt(vault, vault', x),
              \A u \in Player \ us : vault'.book[s][u] = vault.book[s][u]
       PROVE  OneTableEach'
  <2>1. ASSUME NEW u \in Player, solo'[u] > 0 PROVE seat'[u] = "solo"
    BY <1>0, <1>1, <1>10, <2>1
  <2>2. ASSUME NEW u \in Player, NEW x \in Table, x # s,
               vault'.book[x][u] > 0, phase'[x] \in Active
        PROVE  seat'[u] = x
    <3>1. vault'.book[x] = vault.book[x] /\ phase'[x] = phase[x]
      BY <1>0, <1>10, <2>2 DEF SameAt
    <3>2. seat[u] = x /\ x # "none"
      BY <1>0, <1>2, <2>2, <3>1
    <3> QED
      BY <1>10, <2>2, <3>2
  <2>3. ASSUME NEW u \in Player, vault'.book[s][u] > 0 PROVE seat'[u] = s
    BY <1>0, <1>2, <1>10, <2>3
  <2> QED
    BY <1>3, <2>1, <2>2, <2>3
<1>11. ASSUME NEW s \in Roulette, NEW u \in Player, NEW t \in DOMAIN Odds, NEW n \in Bets,
              AcceptRouletteBet(s, u, t, n)
       PROVE  OneTableEach'
  <2>1. /\ CanFund(RefundOne(vault, s, u), u, n) /\ s \in Session
        /\ vault' = Hold(RefundOne(vault, s, u), s, u, n)
    BY <1>0, <1>11 DEF AcceptRouletteBet
  <2>2. /\ \A p \in Player \ {u} : vault'.book[s][p] = vault.book[s][p]
        /\ \A x \in Session \ {s} : SameAt(vault, vault', x)
    BY <2>1, RebetEffect
  <2>3. /\ seat[u] \in {"none", s} /\ UNCHANGED <<phase, solo>> /\ phase[s] = "open"
        /\ seat' = [seat EXCEPT ![u] = s]
    BY <1>11 DEF AcceptRouletteBet, MaySit
  <2> DEFINE us == {u}
  <2>4. seat' = [p \in Player |-> IF p \in us THEN s ELSE seat[p]]
    BY <1>0, <2>3
  <2>5. /\ s \in Table /\ phase[s] \in Active /\ \A p \in us : seat[p] \in {"none", s}
        /\ us \in SUBSET Player
        /\ \A p \in Player \ us : vault'.book[s][p] = vault.book[s][p]
    BY <1>0, <2>2, <2>3 DEF Active
  <2>6. \A x \in Table \ {s} : phase'[x] = phase[x]
    BY <2>3
  <2> HIDE DEF us
  <2> QED
    BY <1>10, <2>2, <2>3, <2>4, <2>5, <2>6
<1>12. ASSUME NEW s \in Pvp, NEW us \in SUBSET Player, NEW n \in Bets,
              CollectStakes(s, us, n)
       PROVE  OneTableEach'
  <2>1. /\ \A p \in Player \ us : vault'.book[s][p] = vault.book[s][p]
        /\ \A x \in Session \ {s} : SameAt(vault, vault', x)
    BY <1>12, CollectStakesEffect
  <2>2. /\ \A u \in us : seat[u] \in {"none", s}
        /\ solo' = solo
        /\ seat' = [u \in Player |-> IF u \in us THEN s ELSE seat[u]]
        /\ phase' = [phase EXCEPT ![s] = "open"]
        /\ phase[s] \in {"none", "open"}
    BY <1>12 DEF CollectStakes, MaySit
  <2>3. \A x \in Table \ {s} : phase'[x] = phase[x]
    BY <1>0, <2>2
  <2>4. phase[s] \in Active \/ \A u \in Player : vault.book[s][u] = 0
    BY <1>0, <2>2, NoRowsNoStake DEF Active, RowsAgree, RowsAgreeAt
  <2>5. s \in Table
    BY <1>0
  <2> QED
    BY <1>10, <2>1, <2>2, <2>3, <2>4, <2>5
<1>13. ASSUME NEW s \in Table, solo' = solo, seat' = Leave(Seated(s)),
              phase' = [phase EXCEPT ![s] = "over"],
              \A x \in Session \ {s} : SameAt(vault, vault', x)
       PROVE  OneTableEach'
  <2>1. \A u \in Player : seat[u] # s => seat'[u] = seat[u]
    BY <1>13 DEF Leave, Seated
  <2>2. ASSUME NEW u \in Player, solo'[u] > 0 PROVE seat'[u] = "solo"
    BY <1>0, <1>1, <1>13, <2>1, <2>2
  <2>3. ASSUME NEW u \in Player, NEW x \in Table,
               vault'.book[x][u] > 0, phase'[x] \in Active
        PROVE  seat'[u] = x
    <3>1. x # s /\ phase'[x] = phase[x]
      BY <1>0, <1>13, <2>3 DEF Active
    <3>2. vault'.book[x] = vault.book[x]
      BY <1>0, <1>13, <3>1 DEF SameAt
    <3> QED
      BY <1>2, <2>1, <2>3, <3>1, <3>2
  <2> QED
    BY <1>3, <2>2, <2>3
<1>14. ASSUME NEW s \in Roulette, NEW hit, SettleRoulette(s, hit) PROVE OneTableEach'
  <2>1. /\ vault' = Spun(vault, s, hit) /\ solo' = solo /\ seat' = Leave(Seated(s))
        /\ phase' = [phase EXCEPT ![s] = "over"] /\ s \in Table
    BY <1>0, <1>14 DEF SettleRoulette
  <2>2. \A x \in Session \ {s} : SameAt(vault, vault', x)
    BY <2>1, SpunEffect
  <2> QED
    BY <1>13, <2>1, <2>2
<1>15. ASSUME NEW s \in Pvp, NEW w \in SUBSET Player, NEW u \in Player, SettlePvp(s, w, u)
       PROVE  OneTableEach'
  <2>1. /\ solo' = solo /\ seat' = Leave(Seated(s))
        /\ phase' = [phase EXCEPT ![s] = "over"] /\ s \in Table
    BY <1>0, <1>15 DEF SettlePvp
  <2>2. \A x \in Session \ {s} : SameAt(vault, vault', x)
    BY <1>15, SettlePvpEffect DEF PaidOut
  <2> QED
    BY <1>13, <2>1, <2>2
<1>16. ASSUME NEW s \in Table, CancelTable(s) PROVE OneTableEach'
  <2>1. /\ vault' = Refund(vault, s) /\ solo' = solo /\ seat' = Leave(Seated(s))
        /\ phase' = [phase EXCEPT ![s] = "over"] /\ s \in Session
    BY <1>0, <1>16 DEF CancelTable, VoidTable
  <2>2. \A x \in Session \ {s} : SameAt(vault, vault', x)
    BY <2>1, RefundEffect
  <2> QED
    BY <1>13, <2>1, <2>2
<1>17. CASE TableStep
  <2>1. \A u \in Player : 0 .. solo[u] * SoloOdds \subseteq Nat
    OBVIOUS
  <2> QED
    BY <1>0, <1>4, <1>6, <1>7, <1>8, <1>9, <1>11, <1>12, <1>14, <1>15, <1>16, <1>17, <2>1
       DEF TableStep, Table
<1>18. CASE Crash
  <2>1. /\ \A u \in Player : solo'[u] = 0
        /\ \A x \in Table : phase'[x] \notin Active
    BY <1>0, <1>18 DEF Crash, Active
  <2> QED
    BY <1>3, <2>1
<1>19. CASE ~TableStep /\ UNCHANGED tableVars
  <2>1. UNCHANGED <<seat, solo, phase>>
    BY <1>19 DEF tableVars
  <2>2. \A x \in Table, u \in Player : vault'.book[x][u] > 0 => vault.book[x][u] > 0
    BY <1>19, RowsOnlyByTables
  <2> QED
    BY <2>1, <2>2, SeatsStay
<1> QED
  BY <1>0, <1>17, <1>18, <1>19, TablesStill

-----------------------------------------------------------------------------
(* The house can pay.                                                      *)

LEMMA ReservedSum ==
  ASSUME TypeOK
  PROVE  /\ TotalReserved \in Nat
         /\ \A k \in Player \union Session, n \in Nat :
              reserved' = [reserved EXCEPT ![k] = n]
                => TotalReserved' = TotalReserved - reserved[k] + n
         /\ \A k \in Player \union Session : reserved[k] \in Nat
<1> DEFINE K == Player \union Session
<1>1. IsFiniteSet(K) /\ reserved \in [K -> Nat]
  BY HolderFinite, FS_Union DEF TypeOK, MoneyTyped
<1>2. TotalReserved = SumFunctionOnSet(reserved, K)
  BY <1>1, SumOf DEF TotalReserved
<1>3. TotalReserved \in Nat
  BY <1>1, <1>2, SumNat
<1>4. ASSUME NEW k \in K, NEW n \in Nat, NEW f, f = [reserved EXCEPT ![k] = n]
      PROVE  SumFunction(f) = TotalReserved - reserved[k] + n
  <2>1. DOMAIN f = K /\ f[k] = n /\ \A x \in K \ {k} : f[x] = reserved[x]
    BY <1>1, <1>4
  <2>2. SumFunction(f) = SumFunctionOnSet(f, K)
    BY <2>1, SumOf
  <2>3. (\A x \in K : reserved[x] \in Int) /\ (\A x \in K : f[x] \in Int)
    BY <1>1, <1>4, <2>1
  <2> HIDE DEF K
  <2>4. SumFunctionOnSet(f, K) = SumFunctionOnSet(reserved, K) - reserved[k] + f[k]
    BY <1>1, <2>1, <2>3, SumUpdate
  <2> QED
    BY <1>2, <2>1, <2>2, <2>4
<1>5. ASSUME NEW k \in K, NEW n \in Nat, reserved' = [reserved EXCEPT ![k] = n]
      PROVE  TotalReserved' = TotalReserved - reserved[k] + n
  BY <1>4, <1>5 DEF TotalReserved
<1> QED
  BY <1>1, <1>3, <1>5

LEMMA NetWithinDebt ==
  ASSUME TypeOK, NEW s \in Roulette, NEW hit
  PROVE  /\ SumFunction(RouletteNet(s, hit)) =< TableDebt(bets[s])
         /\ SumFunction(RouletteNet(s, hit)) \in Int
         /\ TableDebt(bets[s]) \in Nat
<1> DEFINE net == RouletteNet(s, hit)
           d   == [u \in Player |-> BetDebt(bets[s][u])]
<1>1. /\ net \in [Player -> Int]
      /\ \A u \in Player : net[u] =< BetDebt(bets[s][u])
  BY NetFacts
<1>2. bets[s] \in Wagers
  BY DEF TypeOK, TablesTyped
<1>3. /\ \A u \in Player : BetDebt(bets[s][u]) \in Nat
      /\ TableDebt(bets[s]) \in Nat
      /\ TableDebt(bets[s]) = SumFunctionOnSet(d, Player)
  BY <1>2, WagerFacts
<1>4. \A u \in Player : d[u] = BetDebt(bets[s][u])
  OBVIOUS
<1> HIDE DEF net, d
<1>5. SumFunction(net) = SumFunctionOnSet(net, Player)
  BY <1>1, SumOf
<1>6. (\A u \in Player : net[u] \in Int) /\ (\A u \in Player : d[u] \in Int)
  BY <1>1, <1>3, <1>4
<1>7. SumFunctionOnSet(net, Player) =< SumFunctionOnSet(d, Player)
  BY <1>1, <1>4, <1>6, HolderFinite, SumLeq
<1>8. SumFunctionOnSet(net, Player) \in Int
  BY <1>6, HolderFinite, SumInt
<1> QED
  BY <1>3, <1>5, <1>7, <1>8 DEF net

LEMMA HouseStep ==
  ASSUME TypeOK, BetsAgree, SoloCovered, HouseCanPay, Next
  PROVE  HouseCanPay'
<1>0. /\ Sorted /\ vault \in Vaults /\ vault' \in Vaults
      /\ House \in Holder /\ House \notin Player \union Session /\ House # Jackpot
      /\ House # Quarantine
      /\ vault.chips[House] \in Int /\ vault'.chips[House] \in Int
      /\ TotalReserved \in Nat
      /\ \A k \in Player \union Session : reserved[k] \in Nat
      /\ TotalReserved =< vault.chips[House]
      /\ Roulette \subseteq Session /\ Pvp \subseteq Session /\ Table \subseteq Session
  BY NextSorted, Names, VaultStep, VaultFacts, ReservedSum, SessionNames
     DEF TypeOK, MoneyTyped, HouseCanPay
<1>1. ASSUME NEW k \in Player \union Session, NEW n \in Nat,
             reserved' = [reserved EXCEPT ![k] = n]
      PROVE  TotalReserved' = TotalReserved - reserved[k] + n
  BY <1>1, ReservedSum
<1>2. ASSUME reserved' = reserved, vault'.chips[House] = vault.chips[House]
      PROVE  HouseCanPay'
  BY <1>0, <1>2 DEF HouseCanPay, TotalReserved
<1>3. ASSUME NEW k \in Player \union Session, reserved' = ReleaseOne(k),
             vault'.chips[House] >= vault.chips[House] - reserved[k]
      PROVE  HouseCanPay'
  <2>1. reserved' = [reserved EXCEPT ![k] = 0]
    BY <1>3 DEF ReleaseOne
  <2>2. TotalReserved' = TotalReserved - reserved[k] + 0
    BY <1>1, <2>1
  <2> QED
    BY <1>0, <1>3, <2>2 DEF HouseCanPay
<1>4. ASSUME NEW k \in Player \union Session, NEW n \in Nat, CanResize(k, n),
             reserved' = [reserved EXCEPT ![k] = n],
             vault'.chips[House] = vault.chips[House]
      PROVE  HouseCanPay'
  <2>1. TotalReserved' = TotalReserved - reserved[k] + n
    BY <1>1, <1>4
  <2> QED
    BY <1>0, <1>4, <2>1 DEF CanResize, Available, HouseCanPay
<1>5. ASSUME NEW u \in Player, NEW n \in SoloBets, StartGame(u, n) PROVE HouseCanPay'
  <2>1. SoloDebt(n) \in Nat
    BY Amounts, DebtTyped
  <2>2. CanResize(u, SoloDebt(n)) /\ reserved' = [reserved EXCEPT ![u] = SoloDebt(n)]
    BY <1>5 DEF StartGame
  <2>3. vault'.chips[House] = vault.chips[House]
    BY <1>0, <1>5, StartGameEffect
  <2> QED
    BY <1>4, <2>1, <2>2, <2>3
<1>6. ASSUME NEW u \in Player, NEW p \in 0 .. solo[u] * SoloOdds, FinishGame(u, p)
      PROVE  HouseCanPay'
  <2> DEFINE a == solo[u]
             k == SoloOdds
  <2>1. a \in Nat /\ k \in Nat /\ solo[u] > 0 /\ p \in 0 .. a * k
    BY <1>6, Amounts DEF TypeOK, TablesTyped, FinishGame
  <2>2. reserved[u] = a * (k - 1)
    BY <2>1 DEF SoloCovered, SoloDebt
  <2>3. reserved' = ReleaseOne(u)
    BY <1>6 DEF FinishGame, SoloOver
  <2>4. vault'.chips[House] = vault.chips[House] + a - p
    BY <1>6, <2>1, FinishGameEffect
  <2> HIDE DEF a, k
  <2>5. a * (k - 1) = a * k - a /\ a * k \in Nat
    BY <2>1
  <2>6. vault'.chips[House] >= vault.chips[House] - reserved[u]
    BY <1>0, <2>1, <2>2, <2>4, <2>5
  <2> QED
    BY <1>3, <2>3, <2>6
<1>7. ASSUME NEW u \in Player, AbandonGame(u) PROVE HouseCanPay'
  BY <1>0, <1>3, <1>7 DEF AbandonGame, SoloOver
<1>8. ASSUME NEW u \in Player, RedeemFree(u) PROVE HouseCanPay'
  <2>1. vault' = RedeemAll(vault, u) /\ reserved' = reserved
    BY <1>8 DEF RedeemFree
  <2>2. vault'.chips[House] = vault.chips[House]
    BY <1>0, <2>1, RedeemEffect
  <2> QED
    BY <1>2, <2>1, <2>2
<1>9. ASSUME NEW s \in Table, OpenTable(s) \/ CloseBetting(s) \/ GetStuck(s)
      PROVE  HouseCanPay'
  BY <1>2, <1>9 DEF OpenTable, CloseBetting, GetStuck, moneyVars
<1>10. ASSUME NEW s \in Table, SweepStale(s) PROVE HouseCanPay'
  BY <1>0, <1>3, <1>10 DEF SweepStale
<1>11. ASSUME NEW s \in Roulette, NEW u \in Player, NEW t \in DOMAIN Odds, NEW n \in Bets,
              AcceptRouletteBet(s, u, t, n)
       PROVE  HouseCanPay'
  <2> DEFINE debt == TableDebt(WithBet(s, u, t, n))
  <2>1. debt \in Nat
    BY Amounts, WithBetTyped
  <2>2. /\ CanFund(RefundOne(vault, s, u), u, n) /\ s \in Session
        /\ vault' = Hold(RefundOne(vault, s, u), s, u, n)
        /\ CanResize(s, debt) /\ reserved' = [reserved EXCEPT ![s] = debt]
    BY <1>0, <1>11 DEF AcceptRouletteBet
  <2>3. House \in Holder \ (Player \union {s})
    BY <1>0
  <2>4. vault'.chips[House] = vault.chips[House]
    BY <2>2, <2>3, RebetEffect
  <2> HIDE DEF debt
  <2> QED
    BY <1>4, <2>1, <2>2, <2>4
<1>12. ASSUME NEW s \in Roulette, NEW hit, SettleRoulette(s, hit) PROVE HouseCanPay'
  <2>1. /\ vault' = Spun(vault, s, hit) /\ reserved' = ReleaseOne(s)
        /\ phase[s] = "spinning"
    BY <1>12 DEF SettleRoulette
  <2>2. vault'.chips[House] = vault.chips[House] - SumFunction(RouletteNet(s, hit))
    BY <2>1, SpunEffect
  <2>3. reserved[s] = TableDebt(bets[s])
    BY <2>1 DEF BetsAgree, BetsAgreeAt
  <2>4. /\ SumFunction(RouletteNet(s, hit)) =< TableDebt(bets[s])
        /\ SumFunction(RouletteNet(s, hit)) \in Int
    BY NetWithinDebt
  <2>5. vault'.chips[House] >= vault.chips[House] - reserved[s]
    BY <1>0, <2>2, <2>3, <2>4
  <2> QED
    BY <1>0, <1>3, <2>1, <2>5
<1>13. ASSUME NEW s \in Pvp, NEW us \in SUBSET Player, NEW n \in Bets,
              CollectStakes(s, us, n)
       PROVE  HouseCanPay'
  <2>1. House \in Holder \ (Player \union {s}) /\ reserved' = reserved
    BY <1>0, <1>13 DEF CollectStakes
  <2>2. vault'.chips[House] = vault.chips[House]
    BY <1>13, <2>1, CollectStakesEffect
  <2> QED
    BY <1>2, <2>1, <2>2
<1>14. ASSUME NEW s \in Pvp, NEW w \in SUBSET Player, NEW u \in Player, SettlePvp(s, w, u)
       PROVE  HouseCanPay'
  <2>1. vault'.chips[House] = vault.chips[House]
    BY <1>14, SettlePvpEffect DEF PaidOut
  <2> QED
    BY <1>2, <1>14, <2>1 DEF SettlePvp
<1>15. ASSUME NEW s \in Session, vault' = Refund(vault, s)
       PROVE  vault'.chips[House] = vault.chips[House]
  <2>1. House \in Holder \ (Player \union {s})
    BY <1>0
  <2> QED
    BY <1>15, <2>1, RefundEffect
<1>16. ASSUME NEW s \in Table, CancelTable(s) PROVE HouseCanPay'
  <2>1. vault' = Refund(vault, s) /\ s \in Session /\ reserved' = ReleaseOne(s)
    BY <1>0, <1>16 DEF CancelTable, VoidTable
  <2> QED
    BY <1>0, <1>3, <1>15, <2>1
<1>17. CASE TableStep
  BY <1>5, <1>6, <1>7, <1>8, <1>9, <1>10, <1>11, <1>12, <1>13, <1>14, <1>16, <1>17
     DEF TableStep, Table
<1>18. CASE Midnight \/ Crash
  BY <1>2, <1>18 DEF Midnight, Crash
<1>19. ASSUME NEW b \in Board, NEW mode, Create(b, mode) PROVE HouseCanPay'
  <2>1. House \in Holder \ (Player \union {Jackpot})
    BY <1>0
  <2>2. vault'.chips[House] = vault.chips[House]
    BY <1>19, <2>1, CreateEffect
  <2> QED
    BY <1>2, <1>19, <2>2 DEF Create, BoardUnchanged
<1>20. ASSUME NEW b \in Board, NEW u \in Player, NEW o, NEW n \in Bets, Bet(b, u, o, n)
       PROVE  HouseCanPay'
  <2>1. /\ CanFund(RefundOne(vault, b, u), u, n) /\ b \in Session
        /\ vault' = Hold(RefundOne(vault, b, u), b, u, n)
        /\ House \in Holder \ (Player \union {b})
    BY <1>0, <1>20, SessionNames DEF Bet
  <2>2. vault'.chips[House] = vault.chips[House]
    BY <2>1, RebetEffect
  <2> QED
    BY <1>2, <1>20, <2>2 DEF Bet, BoardUnchanged
<1>21. ASSUME NEW b \in Board, NEW r, Noted(b, r) PROVE HouseCanPay'
  BY <1>2, <1>21 DEF Noted, OnlyBoard, BoardUnchanged
<1>22. ASSUME NEW b \in Board, NEW r, NEW lead, BoardEnds(b, r, lead) PROVE HouseCanPay'
  <2>1. \/ vault' = Refund(vault, b)
        \/ PaidOut(vault, b, BoardPay(b, r.result, lead), vault')
    BY <1>22, SettleBoardEffect DEF BoardEnds
  <2>2. vault'.chips[House] = vault.chips[House]
    BY <1>15, <2>1, SessionNames DEF PaidOut
  <2> QED
    BY <1>2, <1>22, <2>2 DEF BoardEnds, SettleBoard, BoardUnchanged
<1>23. ASSUME NEW b \in Board, AdminVoid(b) PROVE HouseCanPay'
  BY <1>2, <1>15, <1>23, SessionNames DEF AdminVoid, BoardUnchanged
<1>24. ASSUME NEW s \in Session, NEW u \in Player, RemoveRow(s, u) PROVE HouseCanPay'
  <2>1. vault'.chips = vault.chips
    BY <1>24, RemoveRowEffect
  <2> QED
    BY <1>2, <1>24, <2>1 DEF RemoveRow
<1>25. ASSUME NEW s \in Session, RecoverSession(s) PROVE HouseCanPay'
  <2>1. vault' = Sweep(s) /\ reserved' = reserved
    BY <1>25 DEF RecoverSession
  <2> QED
    BY <1>2, <2>1, SweepEffect
<1>26. ASSUME NEW u \in Player, RedeemAtStart(u) PROVE HouseCanPay'
  <2>1. (vault' = vault \/ vault' = RedeemAll(vault, u)) /\ reserved' = reserved
    BY <1>26 DEF RedeemAtStart
  <2>2. vault'.chips[House] = vault.chips[House]
    BY <1>0, <2>1, RedeemEffect
  <2> QED
    BY <1>2, <2>1, <2>2
<1>27. CASE ReleaseReservations
  <2> DEFINE K == Player \union Session
  <2>1. /\ vault' = vault /\ DOMAIN NothingReserved = K /\ reserved' = NothingReserved
        /\ \A k \in K : NothingReserved[k] = 0
    BY <1>27 DEF ReleaseReservations, NothingReserved
  <2>2. SumFunction(NothingReserved) = SumFunctionOnSet(NothingReserved, K)
    BY <2>1, SumOf
  <2>3. IsFiniteSet(K)
    BY HolderFinite, FS_Union
  <2>4. SumFunctionOnSet(NothingReserved, K) = 0
    BY <2>1, <2>3, SumZero
  <2> HIDE DEF K
  <2> QED
    BY <1>0, <2>1, <2>2, <2>4 DEF HouseCanPay, TotalReserved
<1>28. ASSUME NEW n \in Bets, SettleHouseNow(n) PROVE HouseCanPay'
  <2>1. SettleHouse(n) /\ n \in Int /\ reserved' = reserved
    BY <1>28, Amounts DEF SettleHouseNow, SettleHouse
  <2>2. vault'.chips[House] = vault.chips[House] - n
    BY <2>1, SettleHouseEffect
  <2>3. n =< vault.chips[House] - TotalReserved
    BY <2>1 DEF SettleHouse, Available
  <2> QED
    BY <1>0, <2>1, <2>2, <2>3 DEF HouseCanPay, TotalReserved
<1>29. CASE Quiet
  BY <1>2, <1>29, QuietFacts
<1> QED
  BY <1>0, <1>17, <1>18, <1>19, <1>20, <1>21, <1>22, <1>23, <1>24, <1>25, <1>26, <1>27,
     <1>28, <1>29 DEF Sorted

TablesInv ==
  Idle /\ RowsAgree /\ BetsAgree /\ SoloCovered /\ OneTableEach /\ HouseCanPay

LEMMA TablesInvInit ==
  ASSUME NEW n \in Nat, CasinoInit(n), TypeOK
  PROVE  TablesInv
<1>0. /\ up = TRUE /\ status = "open" /\ rec = NoRecovery
      /\ reserved = NothingReserved
      /\ solo = [u \in Player |-> 0]
      /\ phase = [s \in Table |-> "none"]
      /\ bets = [s \in Roulette |-> NobodyBets]
      /\ vault = [chips |-> [h \in Holder |-> IF h = House THEN n ELSE 0],
                  land |-> Wallet, pool |-> n,
                  book |-> [s \in Session |-> [u \in Player |-> 0]]]
  BY DEF CasinoInit, TablesInit, ChipsInit, Table
<1>1. /\ \A s \in Session, u \in Player : vault.book[s][u] = 0
      /\ \A s \in Session : vault.chips[s] = 0
      /\ vault.chips[House] = n
      /\ vault \in Vaults /\ Table \subseteq Session /\ Roulette \subseteq Table
      /\ Pvp \subseteq Table
  BY <1>0, Names, SessionNames DEF TypeOK, MoneyTyped, Table
<1>2. \A s \in Session : ~HasRows(vault, s) /\ Matches(vault, s)
  BY <1>1, NoRowsNoStake DEF Matches
<1>3. Idle
  BY <1>0 DEF Idle, NoRecovery
<1>4. RowsAgree
  BY <1>1, <1>2 DEF RowsAgree, RowsAgreeAt
<1>5. BetsAgree
  <2>1. \A s \in Roulette : reserved[s] = 0 /\ bets[s] = NobodyBets /\ phase[s] = "none"
    BY <1>0, <1>1 DEF NothingReserved
  <2> QED
    BY <2>1 DEF BetsAgree, BetsAgreeAt
<1>6. SoloCovered
  BY <1>0 DEF SoloCovered
<1>7. OneTableEach
  BY <1>0, <1>1 DEF OneTableEach
<1>8. HouseCanPay
  <2> DEFINE K == Player \union Session
  <2>1. /\ DOMAIN NothingReserved = K
        /\ \A k \in K : NothingReserved[k] = 0
    BY DEF NothingReserved
  <2>2. SumFunction(NothingReserved) = SumFunctionOnSet(NothingReserved, K)
    BY <2>1, SumOf
  <2>3. IsFiniteSet(K)
    BY HolderFinite, FS_Union
  <2>4. SumFunctionOnSet(NothingReserved, K) = 0
    BY <2>1, <2>3, SumZero
  <2> HIDE DEF K
  <2> QED
    BY <1>0, <1>1, <2>2, <2>4 DEF HouseCanPay, TotalReserved
<1> QED
  BY <1>3, <1>4, <1>5, <1>6, <1>7, <1>8 DEF TablesInv

LEMMA TablesInvStep ==
  ASSUME TypeOK, TablesInv, [Next]_vars
  PROVE  TablesInv'
<1>1. CASE Next
  BY <1>1, IdleStep, RowsAgreeStep, BetsAgreeStep, SoloCoveredStep, OneTableStep, HouseStep
     DEF TablesInv
<1>2. CASE UNCHANGED vars
  BY <1>2 DEF vars, TablesInv, Idle, RowsAgree, RowsAgreeAt, BetsAgree, BetsAgreeAt,
              SoloCovered, OneTableEach, HouseCanPay, TotalReserved, HasRows, Matches, Staked
<1> QED
  BY <1>1, <1>2

\* The tables in every reachable state: memory, rows and reservations agree.
THEOREM CasinoTablesAgree == Spec => [](TypeOK /\ TablesInv)
<1>1. (\E n \in Nat : CasinoInit(n)) => TypeOK /\ TablesInv
  BY TypeInit, TablesInvInit
<1>2. TypeOK /\ TablesInv /\ [Next]_vars => TypeOK' /\ TablesInv'
  BY TypeStep, TablesInvStep
<1> QED
  BY <1>1, <1>2, PTL DEF Spec

\* Whoever has a stake at a running or stuck table, or a running solo game, is
\* seated there and nowhere else, whatever crashes, halts and refusals come
\* between the seats of the process and the rows of the database.
THEOREM CasinoOneTableEach == Spec => []OneTableEach
<1>1. TypeOK /\ TablesInv => OneTableEach
  BY DEF TablesInv
<1> QED
  BY <1>1, CasinoTablesAgree, PTL

\* The reservations of all running games together never exceed the chips of the
\* house: the odds of any number of games can be paid.
THEOREM CasinoHouseCanPay == Spec => []HouseCanPay
<1>1. TypeOK /\ TablesInv => HouseCanPay
  BY DEF TablesInv
<1> QED
  BY <1>1, CasinoTablesAgree, PTL

-----------------------------------------------------------------------------
(* Boards hold their pots.                                                 *)

LEMMA TablesLeaveBoards ==
  ASSUME TypeOK, TableStep, NEW x \in Board
  PROVE  SameAt(vault, vault', x)
<1>0. /\ vault \in Vaults /\ x \in Session /\ x \notin Table
      /\ x \in Holder \ Player /\ x \in Holder \ (Player \union {House})
      /\ Roulette \subseteq Session /\ Pvp \subseteq Session /\ Table \subseteq Session
      /\ Roulette \subseteq Table /\ Pvp \subseteq Table
  BY SessionNames, Names DEF TypeOK, MoneyTyped, Table
<1>1. ASSUME NEW u \in Player, NEW n \in SoloBets, StartGame(u, n)
      PROVE  SameAt(vault, vault', x)
  BY <1>0, <1>1, StartGameEffect, SameBook
<1>2. ASSUME NEW u \in Player, NEW p \in Nat, FinishGame(u, p)
      PROVE  SameAt(vault, vault', x)
  BY <1>0, <1>2, FinishGameEffect, SameBook
<1>3. ASSUME NEW u \in Player, AbandonGame(u) PROVE SameAt(vault, vault', x)
  BY <1>3, SameVault DEF AbandonGame
<1>4. ASSUME NEW u \in Player, RedeemFree(u) PROVE SameAt(vault, vault', x)
  <2>1. vault' = RedeemAll(vault, u)
    BY <1>4 DEF RedeemFree
  <2> QED
    BY <1>0, <2>1, RedeemEffect, SameBook
<1>5. ASSUME NEW s \in Table,
             OpenTable(s) \/ CloseBetting(s) \/ SweepStale(s) \/ GetStuck(s)
      PROVE  SameAt(vault, vault', x)
  BY <1>5, SameVault DEF OpenTable, CloseBetting, SweepStale, GetStuck, moneyVars
<1>6. ASSUME NEW s \in Roulette, NEW u \in Player, NEW t \in DOMAIN Odds, NEW n \in Bets,
             AcceptRouletteBet(s, u, t, n)
      PROVE  SameAt(vault, vault', x)
  <2>1. /\ CanFund(RefundOne(vault, s, u), u, n) /\ s \in Session /\ x # s
        /\ vault' = Hold(RefundOne(vault, s, u), s, u, n)
    BY <1>0, <1>6 DEF AcceptRouletteBet
  <2> QED
    BY <1>0, <2>1, RebetEffect
<1>7. ASSUME NEW s \in Roulette, NEW hit, SettleRoulette(s, hit)
      PROVE  SameAt(vault, vault', x)
  <2>1. vault' = Spun(vault, s, hit) /\ x # s
    BY <1>0, <1>7 DEF SettleRoulette
  <2> QED
    BY <1>0, <2>1, SpunEffect
<1>8. ASSUME NEW s \in Pvp, NEW us \in SUBSET Player, NEW n \in Bets,
             CollectStakes(s, us, n)
      PROVE  SameAt(vault, vault', x)
  BY <1>0, <1>8, CollectStakesEffect
<1>9. ASSUME NEW s \in Pvp, NEW w \in SUBSET Player, NEW u \in Player, SettlePvp(s, w, u)
      PROVE  SameAt(vault, vault', x)
  BY <1>0, <1>9, SettlePvpEffect DEF PaidOut
<1>10. ASSUME NEW s \in Table, CancelTable(s) PROVE SameAt(vault, vault', x)
  <2>1. vault' = Refund(vault, s) /\ s \in Session /\ x # s
    BY <1>0, <1>10 DEF CancelTable, VoidTable
  <2> QED
    BY <1>0, <2>1, RefundEffect
<1>11. \A u \in Player : 0 .. solo[u] * SoloOdds \subseteq Nat
  OBVIOUS
<1> QED
  BY <1>1, <1>2, <1>3, <1>4, <1>5, <1>6, <1>7, <1>8, <1>9, <1>10, <1>11
     DEF TableStep, Table

\* What can happen to board x.
BoardMoves(x) ==
  \/ \E mode \in Modes : Create(x, mode)
  \/ \E u \in Player, o \in Option, n \in Bets : Bet(x, u, o, n)
  \/ \E r \in BoardRows : Noted(x, r)
  \/ \E r \in BoardRows, lead \in Player : BoardEnds(x, r, lead)
  \/ AdminVoid(x)

QuietAt(x) ==
  SameAt(vault, vault', x) /\ board'[x] = board[x] /\ missing'[x] = missing[x]

LEMMA StepOn ==
  ASSUME TypeOK, Next, NEW x \in Board
  PROVE  \/ QuietAt(x)
         \/ BoardMoves(x) /\ missing' = missing
         \/ \E u \in Player : RemoveRow(x, u)
         \/ RecoverSession(x)
<1>0. /\ Sorted /\ vault \in Vaults /\ x \in Session /\ board \in [Board -> BoardRows]
      /\ missing \in [Session -> [Player -> Nat]]
      /\ Board \subseteq Session /\ x \in Holder \ Player
      /\ x \in Holder \ (Player \union {Jackpot}) /\ x # House
  BY NextSorted, SessionNames, Names DEF TypeOK, MoneyTyped, RecoveryTyped
<1>1. CASE TableStep /\ Aside
  BY <1>1, TablesLeaveBoards DEF Aside, Outside, QuietAt
<1>2. CASE Midnight /\ Outside /\ UNCHANGED <<status, up, tableVars, board>>
  BY <1>2, SameVault DEF Midnight, Outside, QuietAt
<1>3. ASSUME NEW b \in Board, b # x, Outside, NEW r,
             SameAt(vault, vault', x), board' = [board EXCEPT ![b] = r]
      PROVE  QuietAt(x)
  BY <1>0, <1>3 DEF Outside, QuietAt
<1>4. ASSUME NEW b \in Board, NEW mode \in Modes, Create(b, mode), Outside
      PROVE  QuietAt(x) \/ BoardMoves(x)
  <2>1. SameAt(vault, vault', x)
    BY <1>0, <1>4, CreateEffect, SameBook
  <2>2. board'[x] = board[x] \/ b = x
    BY <1>0, <1>4 DEF Create
  <2> QED
    BY <1>4, <2>1, <2>2 DEF BoardMoves, QuietAt, Outside
<1>5. ASSUME NEW b \in Board, NEW u \in Player, NEW o \in Option, NEW n \in Bets,
             Bet(b, u, o, n), Outside
      PROVE  QuietAt(x) \/ BoardMoves(x)
  <2>1. /\ CanFund(RefundOne(vault, b, u), u, n) /\ b \in Session
        /\ vault' = Hold(RefundOne(vault, b, u), b, u, n)
    BY <1>0, <1>5 DEF Bet
  <2>2. b # x => SameAt(vault, vault', x)
    BY <1>0, <2>1, RebetEffect
  <2>3. board'[x] = board[x] \/ b = x
    BY <1>0, <1>5 DEF Bet
  <2> QED
    BY <1>5, <2>2, <2>3 DEF BoardMoves, QuietAt, Outside
<1>6. ASSUME NEW b \in Board, NEW r \in BoardRows, Noted(b, r), Outside
      PROVE  QuietAt(x) \/ BoardMoves(x)
  <2>1. SameAt(vault, vault', x) /\ board' = [board EXCEPT ![b] = r]
    BY <1>6, SameVault DEF Noted, OnlyBoard
  <2> QED
    BY <1>3, <1>6, <2>1 DEF BoardMoves
<1>7. ASSUME NEW b \in Board, NEW r \in BoardRows, NEW lead \in Player,
             BoardEnds(b, r, lead), Outside
      PROVE  QuietAt(x) \/ BoardMoves(x)
  <2>1. \/ vault' = Refund(vault, b)
        \/ PaidOut(vault, b, BoardPay(b, r.result, lead), vault')
    BY <1>7, SettleBoardEffect DEF BoardEnds
  <2>2. b # x => SameAt(vault, vault', x)
    BY <1>0, <2>1, RefundEffect DEF PaidOut
  <2>3. PICK q : board' = [board EXCEPT ![b] = q]
    BY <1>7 DEF BoardEnds, SettleBoard
  <2> QED
    BY <1>3, <1>7, <2>2, <2>3 DEF BoardMoves
<1>8. ASSUME NEW b \in Board, AdminVoid(b), Outside PROVE QuietAt(x) \/ BoardMoves(x)
  <2>1. vault' = Refund(vault, b) /\ b \in Session
    BY <1>0, <1>8 DEF AdminVoid
  <2>2. b # x => SameAt(vault, vault', x)
    BY <1>0, <2>1, RefundEffect
  <2>3. board'[x] = board[x] \/ b = x
    BY <1>0, <1>8 DEF AdminVoid
  <2> QED
    BY <1>8, <2>2, <2>3 DEF BoardMoves, QuietAt, Outside
<1>9. CASE Crash \/ ReleaseReservations
  BY <1>9, SameVault DEF Crash, ReleaseReservations, KeptByRecovery, QuietAt
<1>10. ASSUME NEW s \in Session, NEW u \in Player, RemoveRow(s, u), s # x
       PROVE  QuietAt(x)
  <2>1. SameAt(vault, vault', x)
    BY <1>0, <1>10, RemoveRowEffect
  <2> QED
    BY <1>0, <1>10, <2>1 DEF RemoveRow, QuietAt
<1>11. ASSUME NEW s \in Session, RecoverSession(s), s # x PROVE QuietAt(x)
  <2>1. vault' = Sweep(s)
    BY <1>11 DEF RecoverSession
  <2>2. SameAt(vault, vault', x)
    BY <1>0, <1>11, <2>1, SweepEffect
  <2> QED
    BY <1>11, <2>2 DEF RecoverSession, KeptByRecovery, QuietAt
<1>12. ASSUME NEW u \in Player, RedeemAtStart(u) PROVE QuietAt(x)
  <2>1. vault' = vault \/ vault' = RedeemAll(vault, u)
    BY <1>12 DEF RedeemAtStart
  <2>2. x # u
    BY <1>0
  <2>3. SameAt(vault, vault', x)
    BY <1>0, <2>1, <2>2, RedeemEffect, SameBook, SameVault
  <2> QED
    BY <1>12, <2>3 DEF RedeemAtStart, KeptByRecovery, QuietAt
<1>13. ASSUME NEW n \in Bets, SettleHouseNow(n) PROVE QuietAt(x)
  <2>1. SettleHouse(n)
    BY <1>13 DEF SettleHouseNow
  <2>2. SameAt(vault, vault', x)
    BY <1>0, <2>1, SettleHouseEffect, SameBook
  <2> QED
    BY <1>13, <2>2 DEF SettleHouseNow, QuietAt
<1>14. CASE Quiet
  BY <1>14, QuietFacts, SameVault DEF QuietAt
<1>15. Outside => missing' = missing
  BY DEF Outside
<1> QED
  BY <1>0, <1>1, <1>2, <1>4, <1>5, <1>6, <1>7, <1>8, <1>9, <1>10, <1>11, <1>12, <1>13,
     <1>14, <1>15 DEF Sorted

PotAt(x) ==
  /\ IF board[x].status \in {"settled", "void"}
     THEN vault.chips[x] = 0 /\ ~HasRows(vault, x)
     ELSE vault.chips[x] = Pot(x) + Missing(x)
  /\ board[x].status = "none"
       => \A u \in Player : vault.book[x][u] = 0 /\ missing[x][u] = 0

BoardInv == \A x \in Board : PotAt(x)

LEMMA MissingFacts ==
  ASSUME TypeOK, NEW s \in Session
  PROVE  /\ Missing(s) \in Nat
         /\ Missing(s) = SumFunctionOnSet(missing[s], Player)
         /\ (\A u \in Player : missing[s][u] = 0) => Missing(s) = 0
<1>1. missing[s] \in [Player -> Nat]
  BY DEF TypeOK, RecoveryTyped
<1>2. Missing(s) = SumFunctionOnSet(missing[s], Player)
  BY <1>1, SumOf DEF Missing
<1>3. \A u \in Player : missing[s][u] \in Nat
  BY <1>1
<1>4. SumFunctionOnSet(missing[s], Player) \in Nat
  BY <1>3, HolderFinite, SumNat
<1>5. (\A u \in Player : missing[s][u] = 0) => SumFunctionOnSet(missing[s], Player) = 0
  BY HolderFinite, SumZero
<1> QED
  BY <1>2, <1>4, <1>5

LEMMA RemovedRow ==
  ASSUME TypeOK, NEW s \in Session, NEW u \in Player, RemoveRow(s, u)
  PROVE  /\ Missing(s)' = Missing(s) + vault.book[s][u]
         /\ \A x \in Session \ {s} : missing'[x] = missing[x]
         /\ missing'[s][u] = missing[s][u] + vault.book[s][u]
         /\ \A p \in Player \ {u} : missing'[s][p] = missing[s][p]
<1> DEFINE n == vault.book[s][u]
           f == [missing[s] EXCEPT ![u] = missing[s][u] + n]
<1>1. missing \in [Session -> [Player -> Nat]] /\ vault \in Vaults
  BY DEF TypeOK, RecoveryTyped, MoneyTyped
<1>2. n \in Nat
  BY <1>1, VaultFacts
<1>3. missing' = [missing EXCEPT ![s] = f]
  BY <1>1 DEF RemoveRow
<1> HIDE DEF n
<1>4. /\ f \in [Player -> Nat] /\ f[u] = missing[s][u] + n
      /\ \A p \in Player \ {u} : f[p] = missing[s][p]
      /\ missing[s][u] \in Nat
  BY <1>1, <1>2
<1> HIDE DEF f
<1>5. missing'[s] = f /\ \A x \in Session \ {s} : missing'[x] = missing[x]
  BY <1>1, <1>3
<1>6. Missing(s)' = SumFunctionOnSet(f, Player)
  <2>1. Missing(s)' = SumFunction(f)
    BY <1>5 DEF Missing
  <2> QED
    BY <1>4, <2>1, SumOf
<1>7. (\A p \in Player : missing[s][p] \in Int) /\ (\A p \in Player : f[p] \in Int)
  BY <1>1, <1>4
<1>8. SumFunctionOnSet(f, Player)
        = SumFunctionOnSet(missing[s], Player) - missing[s][u] + f[u]
  BY <1>4, <1>7, HolderFinite, SumUpdate
<1>9. Missing(s)' = Missing(s) + n
  BY <1>2, <1>4, <1>6, <1>8, MissingFacts
<1> QED
  BY <1>4, <1>5, <1>9 DEF n

LEMMA BoardStep ==
  ASSUME TypeOK, BoardInv, Next
  PROVE  BoardInv'
<1> SUFFICES ASSUME NEW x \in Board PROVE PotAt(x)'
  BY DEF BoardInv
<1>0. /\ vault \in Vaults /\ vault' \in Vaults /\ x \in Session /\ x \in Holder
      /\ PotAt(x) /\ board \in [Board -> BoardRows] /\ x \in Holder \ (Player \union {Jackpot})
      /\ vault.chips[x] \in Int /\ vault'.chips[x] \in Int
      /\ Staked(vault, x) \in Int /\ Staked(vault', x) \in Int /\ Missing(x) \in Int
      /\ \A u \in Player : vault.book[x][u] \in Nat
  BY VaultStep, SessionNames, Names, VaultFacts, VaultSums, MissingFacts
     DEF BoardInv, TypeOK, MoneyTyped, RecoveryTyped
<1>1. CASE QuietAt(x)
  <2>1. /\ vault'.book[x] = vault.book[x] /\ vault'.chips[x] = vault.chips[x]
        /\ HasRows(vault', x) <=> HasRows(vault, x)
        /\ Staked(vault', x) = Staked(vault, x)
        /\ board'[x] = board[x] /\ missing'[x] = missing[x]
    BY <1>1, SameAtFacts DEF QuietAt, SameAt
  <2> QED
    BY <1>0, <2>1 DEF PotAt, Pot, Missing
<1>2. ASSUME board'[x].status \notin {"settled", "void", "none"},
             board[x].status \notin {"settled", "void"}, missing' = missing,
             vault'.chips[x] - Staked(vault', x) = vault.chips[x] - Staked(vault, x)
      PROVE  PotAt(x)'
  BY <1>0, <1>2 DEF PotAt, Pot, Missing
<1>3. ASSUME board'[x].status \in {"settled", "void"}, vault'.chips[x] = 0,
             \A u \in Player : vault'.book[x][u] = 0
      PROVE  PotAt(x)'
  BY <1>3 DEF PotAt, HasRows
<1>4. ASSUME NEW mode \in Modes, Create(x, mode), missing' = missing PROVE PotAt(x)'
  <2>1. vault'.book = vault.book /\ vault'.chips[x] = vault.chips[x]
    BY <1>0, <1>4, CreateEffect
  <2>2. Staked(vault', x) = Staked(vault, x)
    BY <2>1 DEF Staked
  <2>3. board[x].status = "none" /\ board'[x].status = "open"
    BY <1>0, <1>4 DEF Create, BoardRows
  <2> QED
    BY <1>2, <1>4, <2>1, <2>2, <2>3
<1>5. ASSUME NEW u \in Player, NEW o \in Option, NEW n \in Bets, Bet(x, u, o, n),
             missing' = missing
      PROVE  PotAt(x)'
  <2>1. /\ CanFund(RefundOne(vault, x, u), u, n)
        /\ vault' = Hold(RefundOne(vault, x, u), x, u, n)
        /\ board[x].status = "open"
    BY <1>5 DEF Bet
  <2>2. vault'.chips[x] - Staked(vault', x) = vault.chips[x] - Staked(vault, x)
    BY <1>0, <2>1, RebetEffect
  <2>3. board'[x].status = "open"
    BY <1>0, <1>5, <2>1 DEF Bet, BoardRows
  <2> QED
    BY <1>2, <1>5, <2>1, <2>2, <2>3
<1>6. ASSUME NEW r \in BoardRows, Noted(x, r), missing' = missing PROVE PotAt(x)'
  <2>1. /\ vault' = vault /\ board'[x] = r
        /\ r.status \in LiveStatuses /\ board[x].status \in LiveStatuses
    BY <1>0, <1>6 DEF Noted, OnlyBoard
  <2> QED
    BY <1>2, <1>6, <2>1 DEF LiveStatuses
<1>7. ASSUME vault' = Refund(vault, x), Matches(vault, x)
      PROVE  vault'.chips[x] = 0 /\ \A u \in Player : vault'.book[x][u] = 0
  <2>1. vault'.chips[x] = vault.chips[x] - Staked(vault, x)
        /\ \A u \in Player : vault'.book[x][u] = 0
    BY <1>0, <1>7, RefundEffect
  <2> QED
    BY <1>0, <1>7, <2>1 DEF Matches
<1>8. ASSUME NEW r \in BoardRows, NEW lead \in Player, BoardEnds(x, r, lead)
      PROVE  PotAt(x)'
  <2>1. /\ \/ vault' = Refund(vault, x)
           \/ PaidOut(vault, x, BoardPay(x, r.result, lead), vault')
        /\ Matches(vault, x)
    BY <1>8, SettleBoardEffect DEF BoardEnds
  <2>2. vault'.chips[x] = 0 /\ \A u \in Player : vault'.book[x][u] = 0
    BY <1>7, <2>1 DEF PaidOut
  <2>3. board'[x].status \in {"settled", "void"}
    BY <1>0, <1>8 DEF BoardEnds, SettleBoard, BoardRows
  <2> QED
    BY <1>3, <2>2, <2>3
<1>9. CASE AdminVoid(x)
  <2>1. vault' = Refund(vault, x) /\ Matches(vault, x)
    BY <1>9 DEF AdminVoid
  <2>2. board'[x].status = "void"
    BY <1>0, <1>9 DEF AdminVoid, BoardRows
  <2> QED
    BY <1>3, <1>7, <2>1, <2>2
<1>10. ASSUME NEW u \in Player, RemoveRow(x, u) PROVE PotAt(x)'
  <2> DEFINE n == vault.book[x][u]
  <2>1. n \in Nat /\ n > 0 /\ board' = board
    BY <1>0, <1>10 DEF RemoveRow
  <2>2. vault'.chips = vault.chips /\ Staked(vault', x) = Staked(vault, x) - n
    BY <1>0, <1>10, RemoveRowEffect
  <2>3. Missing(x)' = Missing(x) + n
    BY <1>0, <1>10, RemovedRow
  <2>4. HasRows(vault, x)
    BY <2>1 DEF HasRows
  <2>5. board[x].status \notin {"settled", "void", "none"}
        /\ vault.chips[x] = Staked(vault, x) + Missing(x)
    BY <1>0, <2>1, <2>4 DEF PotAt, Pot
  <2> HIDE DEF n
  <2>6. vault'.chips[x] = Staked(vault', x) + Missing(x)'
    BY <1>0, <2>1, <2>2, <2>3, <2>5
  <2> QED
    BY <2>1, <2>5, <2>6 DEF PotAt, Pot
<1>11. CASE RecoverSession(x)
  <2>1. vault' = Sweep(x) /\ board' = board /\ missing' = missing
    BY <1>11 DEF RecoverSession, KeptByRecovery
  <2>2. CASE x \in LiveHolders
    <3>1. vault' = vault
      BY <2>1, <2>2 DEF Sweep
    <3> QED
      BY <1>1, <2>1, <3>1, SameVault DEF QuietAt
  <2>3. CASE x \notin LiveHolders
    <3>1. vault'.book = vault.book /\ vault'.chips[x] = 0
      BY <1>0, <2>1, <2>3, SweepEffect
    <3>2. Staked(vault', x) = Staked(vault, x) /\ (HasRows(vault', x) <=> HasRows(vault, x))
      BY <3>1 DEF Staked, HasRows
    <3>3. board[x].status \in {"none", "settled", "void"}
      BY <1>0, <2>3 DEF LiveHolders, BoardRows
    <3>4. CASE board[x].status = "none"
      <4>1. \A u \in Player : vault.book[x][u] = 0 /\ missing[x][u] = 0
        BY <1>0, <3>4 DEF PotAt
      <4>2. Staked(vault, x) = 0 /\ Missing(x) = 0
        BY <1>0, <4>1, NoRowsNoStake, MissingFacts
      <4> QED
        BY <2>1, <3>1, <3>2, <3>4, <4>1, <4>2 DEF PotAt, Pot, Missing
    <3>5. CASE board[x].status \in {"settled", "void"}
      BY <1>0, <2>1, <3>1, <3>2, <3>5 DEF PotAt
    <3> QED
      BY <3>3, <3>4, <3>5
  <2> QED
    BY <2>2, <2>3
<1> QED
  BY <1>1, <1>4, <1>5, <1>6, <1>8, <1>9, <1>10, <1>11, StepOn DEF BoardMoves

LEMMA BoardInit ==
  ASSUME NEW n \in Nat, CasinoInit(n), TypeOK
  PROVE  BoardInv
<1>1. ASSUME NEW x \in Board
      PROVE  /\ board[x].status = "none" /\ vault.chips[x] = 0 /\ x \in Session
             /\ \A u \in Player : vault.book[x][u] = 0 /\ missing[x][u] = 0
  BY SessionNames, Names DEF CasinoInit, TablesInit, ChipsInit, MarketInit, NewBoard
<1>2. ASSUME NEW x \in Board PROVE Pot(x) = 0 /\ Missing(x) = 0
  <2>1. vault \in Vaults
    BY DEF TypeOK, MoneyTyped
  <2> QED
    BY <1>1, <2>1, NoRowsNoStake, MissingFacts DEF Pot
<1> QED
  BY <1>1, <1>2 DEF BoardInv, PotAt

\* A board that is over holds nothing and owes nobody; any other holds what its
\* bettors staked, less only rows removed by hand: through crashes, recoveries
\* that sweep the dead holders, disputes and rulings.
THEOREM MarketBoardHoldsItsPot == Spec => []BoardHoldsItsPot
<1>1. (\E n \in Nat : CasinoInit(n)) => TypeOK /\ BoardInv
  BY TypeInit, BoardInit
<1>2. TypeOK /\ BoardInv /\ [Next]_vars => TypeOK' /\ BoardInv'
  <2>1. ASSUME BoardInv, UNCHANGED vars PROVE BoardInv'
    BY <2>1 DEF vars, BoardInv, PotAt, Pot, Missing, HasRows, Staked
  <2> QED
    BY <2>1, TypeStep, BoardStep
<1>3. BoardInv => BoardHoldsItsPot
  BY DEF BoardInv, PotAt, BoardHoldsItsPot
<1> QED
  BY <1>1, <1>2, <1>3, PTL DEF Spec

-----------------------------------------------------------------------------
(* The money.                                                              *)

\* Every stake whose row was removed by hand.
Lost == SumFunction([s \in Session |-> Missing(s)])

Accounted(u) ==
  Worth(vault, u) + MissingOf(u) + Fees(u) = Wallet[u] + stats[u]

MoneyInv ==
  /\ Backing(vault) = 0
  /\ Excess(vault) = Lost
  /\ \A u \in Player : Accounted(u)

\* A step that books with the statistics what the players win and lose.
Balanced ==
  /\ Kept(vault, vault')
  /\ \A u \in Player : Worth(vault', u) = Worth(vault, u) + (stats'[u] - stats[u])

LEMMA MoneyTypes ==
  ASSUME TypeOK
  PROVE  /\ vault \in Vaults
         /\ Backing(vault) \in Int /\ Excess(vault) \in Int /\ Lost \in Int
         /\ \A u \in Player : /\ Worth(vault, u) \in Int /\ MissingOf(u) \in Int
                              /\ Fees(u) \in Int /\ Wallet[u] \in Int
                              /\ stats[u] \in Int
<1>1. vault \in Vaults /\ stats \in [Player -> Int]
      /\ missing \in [Session -> [Player -> Nat]]
  BY DEF TypeOK, MoneyTyped, RecoveryTyped
<1> DEFINE l == [s \in Session |-> Missing(s)]
<1>2. Lost = SumFunctionOnSet(l, Session) /\ \A s \in Session : l[s] \in Int
  <2>1. DOMAIN l = Session /\ \A s \in Session : l[s] = Missing(s)
    OBVIOUS
  <2> QED
    BY <2>1, SumOf, MissingFacts DEF Lost
<1> HIDE DEF l
<1>3. Lost \in Int
  BY <1>2, HolderFinite, SumInt
<1>4. ASSUME NEW u \in Player PROVE MissingOf(u) \in Int /\ Fees(u) \in Int
  <2> DEFINE m == [s \in Session |-> missing[s][u]]
             mine == {x \in Board : Creator[x] = u /\ board[x].status # "none"}
  <2>1. DOMAIN m = Session /\ \A s \in Session : m[s] \in Int
    BY <1>1
  <2>2. MissingOf(u) = SumFunction(m)
    BY DEF MissingOf
  <2>3. mine \in SUBSET Session
    BY SessionNames
  <2>4. Fees(u) = BoardFee * Cardinality(mine)
    BY DEF Fees
  <2> HIDE DEF m, mine
  <2>5. Cardinality(mine) \in Nat
    BY <2>3, HolderFinite, FS_Subset, FS_CardinalityType
  <2>6. SumFunctionOnSet(m, Session) \in Int
    BY <2>1, HolderFinite, SumInt
  <2>7. MissingOf(u) \in Int
    BY <2>1, <2>2, <2>6, SumOf
  <2>8. BoardFee \in Nat
    BY MarketAssumption
  <2> QED
    BY <2>4, <2>5, <2>7, <2>8
<1>5. \A u \in Player : Wallet[u] \in Int
  BY ChipsAssumption
<1> QED
  BY <1>1, <1>3, <1>4, <1>5, VaultSums

LEMMA BalancedBy ==
  ASSUME TypeOK, Kept(vault, vault'), SameWorth(vault, vault'), stats' = stats
  PROVE  Balanced
BY MoneyTypes DEF Balanced, SameWorth

LEMMA StillBalanced ==
  ASSUME TypeOK, vault' = vault, stats' = stats
  PROVE  Balanced
BY MoneyTypes DEF Balanced, Kept

\* The statistics move by what Escrow.settle pays, less the stake.
LEMMA PaidBalanced ==
  ASSUME TypeOK, NEW s \in Session, NEW pay, Matches(vault, s),
         PaidOut(vault, s, pay, vault'), stats' = StatsAfter(vault, s, pay)
  PROVE  Balanced
<1>1. Kept(vault, vault')
  BY DEF PaidOut, Kept
<1>2. ASSUME NEW u \in Player
      PROVE  Worth(vault', u) = Worth(vault, u) + (stats'[u] - stats[u])
  <2>1. stats'[u] = stats[u] + NetOf(vault, s, pay, u)
    BY DEF StatsAfter
  <2>2. NetOf(vault, s, pay, u) \in Int
        /\ Worth(vault', u) = Worth(vault, u) + NetOf(vault, s, pay, u)
    BY DEF PaidOut
  <2> HIDE DEF NetOf, Worth
  <2> QED
    BY <2>1, <2>2, MoneyTypes
<1> QED
  BY <1>1, <1>2 DEF Balanced

LEMMA TableBalanced ==
  ASSUME TypeOK, RowsAgree, TableStep
  PROVE  Balanced
<1>1. ASSUME NEW u \in Player, NEW n \in SoloBets, StartGame(u, n) PROVE Balanced
  <2>1. stats' = stats
    BY <1>1 DEF StartGame
  <2> QED
    BY <1>1, <2>1, StartGameEffect, BalancedBy
<1>2. ASSUME NEW u \in Player, NEW p \in Nat, FinishGame(u, p) PROVE Balanced
  <2>1. /\ stats' = [stats EXCEPT ![u] = @ + p - solo[u]]
        /\ stats \in [Player -> Int] /\ solo[u] \in Nat
    BY <1>2 DEF FinishGame, TypeOK, MoneyTyped, TablesTyped
  <2>2. /\ stats'[u] - stats[u] = p - solo[u]
        /\ \A q \in Player \ {u} : stats'[q] = stats[q]
    BY <2>1
  <2>3. /\ Kept(vault, vault')
        /\ Worth(vault', u) = Worth(vault, u) + p - solo[u]
        /\ \A q \in Player \ {u} : Worth(vault', q) = Worth(vault, q)
    BY <1>2, FinishGameEffect
  <2> QED
    BY <2>1, <2>2, <2>3, MoneyTypes DEF Balanced
<1>3. ASSUME NEW u \in Player, AbandonGame(u) PROVE Balanced
  BY <1>3, StillBalanced DEF AbandonGame
<1>4. ASSUME NEW u \in Player, RedeemFree(u) PROVE Balanced
  <2>1. vault' = RedeemAll(vault, u) /\ stats' = stats
    BY <1>4 DEF RedeemFree
  <2> QED
    BY <2>1, RedeemEffect, BalancedBy
<1>5. ASSUME NEW s \in Table, OpenTable(s) \/ CloseBetting(s) \/ SweepStale(s) \/ GetStuck(s)
      PROVE  Balanced
  BY <1>5, StillBalanced DEF OpenTable, CloseBetting, SweepStale, GetStuck, moneyVars
<1>6. ASSUME NEW s \in Roulette, NEW u \in Player, NEW t \in DOMAIN Odds, NEW n \in Bets,
             AcceptRouletteBet(s, u, t, n)
      PROVE  Balanced
  <2>1. /\ CanFund(RefundOne(vault, s, u), u, n) /\ s \in Session /\ stats' = stats
        /\ vault' = Hold(RefundOne(vault, s, u), s, u, n)
    BY <1>6, SessionNames DEF AcceptRouletteBet
  <2> QED
    BY <2>1, RebetEffect, BalancedBy
<1>7. ASSUME NEW s \in Roulette, NEW hit, SettleRoulette(s, hit) PROVE Balanced
  <2> DEFINE net == RouletteNet(s, hit)
  <2>1. vault' = Spun(vault, s, hit) /\ stats' = [u \in Player |-> stats[u] + net[u]]
    BY <1>7 DEF SettleRoulette
  <2>2. Kept(vault, vault') /\ \A u \in Player : Worth(vault', u) = Worth(vault, u) + net[u]
    BY <2>1, SpunEffect
  <2>3. \A u \in Player : net[u] \in Int
    BY NetFacts
  <2> HIDE DEF net
  <2>4. \A u \in Player : stats'[u] = stats[u] + net[u]
    BY <2>1
  <2> QED
    BY <2>2, <2>3, <2>4, MoneyTypes DEF Balanced
<1>8. ASSUME NEW s \in Pvp, NEW us \in SUBSET Player, NEW n \in Bets,
             CollectStakes(s, us, n)
      PROVE  Balanced
  <2>1. stats' = stats
    BY <1>8 DEF CollectStakes
  <2> QED
    BY <1>8, <2>1, CollectStakesEffect, BalancedBy
<1>9. ASSUME NEW s \in Pvp, NEW w \in SUBSET Player, NEW u \in Player, SettlePvp(s, w, u)
      PROVE  Balanced
  <2> DEFINE pay == Shares(Staked(vault, s), w, u)
  <2>1. phase[s] = "open" /\ stats' = StatsAfter(vault, s, pay) /\ s \in Table
    BY <1>9 DEF SettlePvp, Table
  <2>2. Matches(vault, s)
    BY <2>1 DEF RowsAgree, RowsAgreeAt
  <2>3. PaidOut(vault, s, pay, vault') /\ s \in Session
    BY <1>9, SettlePvpEffect
  <2> HIDE DEF pay
  <2> QED
    BY <2>1, <2>2, <2>3, PaidBalanced
<1>10. ASSUME NEW s \in Table, CancelTable(s) PROVE Balanced
  <2>1. vault' = Refund(vault, s) /\ s \in Session /\ stats' = stats
    BY <1>10, SessionNames DEF CancelTable, VoidTable
  <2> QED
    BY <2>1, RefundEffect, BalancedBy
<1>11. \A u \in Player : 0 .. solo[u] * SoloOdds \subseteq Nat
  OBVIOUS
<1> QED
  BY <1>1, <1>2, <1>3, <1>4, <1>5, <1>6, <1>7, <1>8, <1>9, <1>10, <1>11
     DEF TableStep, Table

\* The boards for which an opening fee has been paid stay the same.
LEMMA FeesStay ==
  ASSUME \A x \in Board : (board'[x].status = "none") <=> (board[x].status = "none")
  PROVE  \A u \in Player : Fees(u)' = Fees(u)
<1> SUFFICES ASSUME NEW u \in Player PROVE Fees(u)' = Fees(u)
  OBVIOUS
<1>1. {x \in Board : Creator[x] = u /\ board'[x].status # "none"}
        = {x \in Board : Creator[x] = u /\ board[x].status # "none"}
  OBVIOUS
<1> QED
  BY <1>1 DEF Fees

LEMMA FeePaid ==
  ASSUME TypeOK, NEW b \in Board, NEW mode, Create(b, mode)
  PROVE  /\ Fees(Creator[b])' = Fees(Creator[b]) + BoardFee
         /\ \A u \in Player \ {Creator[b]} : Fees(u)' = Fees(u)
<1>1. /\ board[b].status = "none" /\ board'[b].status = "open"
      /\ \A x \in Board \ {b} : board'[x] = board[x]
  BY DEF Create, TypeOK, RecoveryTyped, BoardRows
<1> DEFINE C(u) == {x \in Board : Creator[x] = u /\ board[x].status # "none"}
           D(u) == {x \in Board : Creator[x] = u /\ board'[x].status # "none"}
<1>2. ASSUME NEW u \in Player \ {Creator[b]} PROVE Fees(u)' = Fees(u)
  <2>1. D(u) = C(u)
    BY <1>1
  <2> QED
    BY <2>1 DEF Fees
<1>3. Fees(Creator[b])' = Fees(Creator[b]) + BoardFee
  <2> DEFINE M == C(Creator[b])
             n == Cardinality(M)
  <2>1. D(Creator[b]) = M \union {b} /\ b \notin M /\ M \in SUBSET Session
    BY <1>1, SessionNames
  <2>2. /\ Fees(Creator[b])' = BoardFee * Cardinality(M \union {b})
        /\ Fees(Creator[b]) = BoardFee * n
    BY <2>1 DEF Fees
  <2> HIDE DEF C, D, M
  <2>3. IsFiniteSet(M)
    BY <2>1, HolderFinite, FS_Subset
  <2>4. Cardinality(M \union {b}) = n + 1 /\ n \in Nat
    BY <2>1, <2>3, FS_AddElement, FS_CardinalityType
  <2> HIDE DEF n
  <2>5. BoardFee \in Nat
    BY MarketAssumption
  <2>6. BoardFee * (n + 1) = BoardFee * n + BoardFee
    BY <2>4, <2>5
  <2> QED
    BY <2>2, <2>4, <2>6
<1> QED
  BY <1>2, <1>3

\* A step that books everything keeps the account of every player.
LEMMA BalancedKeeps ==
  ASSUME TypeOK, TypeOK', MoneyInv, Balanced, missing' = missing,
         \A u \in Player : Fees(u)' = Fees(u)
  PROVE  MoneyInv'
<1>1. Lost' = Lost /\ \A u \in Player : MissingOf(u)' = MissingOf(u)
  BY DEF Lost, Missing, MissingOf
<1>2. /\ Backing(vault)' = Backing(vault) /\ Excess(vault)' = Excess(vault)
      /\ \A u \in Player : Worth(vault, u)' = Worth(vault, u) + (stats'[u] - stats[u])
  BY DEF Balanced, Kept, Backing, Outstanding, Excess, Parked, AllStaked, Staked, Worth,
         Holdings, RowsOf
<1>3. ASSUME NEW u \in Player PROVE Accounted(u)'
  <2>1. /\ Worth(vault, u) \in Int /\ MissingOf(u) \in Int /\ Fees(u) \in Int
        /\ Wallet[u] \in Int /\ stats[u] \in Int /\ stats'[u] \in Int
    BY MoneyTypes DEF TypeOK, MoneyTyped
  <2>2. Worth(vault, u) + MissingOf(u) + Fees(u) = Wallet[u] + stats[u]
    BY DEF MoneyInv, Accounted
  <2>3. /\ Worth(vault, u)' = Worth(vault, u) + (stats'[u] - stats[u])
        /\ MissingOf(u)' = MissingOf(u) /\ Fees(u)' = Fees(u)
    BY <1>1, <1>2
  <2>4. Worth(vault, u)' + MissingOf(u)' + Fees(u)' = Wallet[u] + stats'[u]
    BY <2>1, <2>2, <2>3
  <2> QED
    BY <2>4 DEF Accounted
<1> QED
  BY <1>1, <1>2, <1>3 DEF MoneyInv

\* A row removed by hand is written down, and nobody's account changes.
LEMMA RemovedKeeps ==
  ASSUME TypeOK, MoneyInv, NEW s \in Session, NEW u \in Player, RemoveRow(s, u)
  PROVE  MoneyInv'
<1> DEFINE n == vault.book[s][u]
<1>1. /\ n \in Int /\ missing \in [Session -> [Player -> Nat]]
      /\ missing' = [missing EXCEPT ![s][u] = @ + n]
      /\ board' = board /\ stats' = stats
  BY VaultFacts DEF RemoveRow, TypeOK, MoneyTyped, RecoveryTyped
<1>2. /\ Backing(vault') = Backing(vault) /\ Excess(vault') = Excess(vault) + n
      /\ Worth(vault', u) = Worth(vault, u) - n
      /\ \A p \in Player \ {u} : Worth(vault', p) = Worth(vault, p)
  BY RemoveRowEffect
<1>3. /\ Missing(s)' = Missing(s) + n
      /\ \A x \in Session \ {s} : missing'[x] = missing[x]
      /\ missing'[s][u] = missing[s][u] + n
      /\ \A p \in Player \ {u} : missing'[s][p] = missing[s][p]
  BY RemovedRow
<1> HIDE DEF n
<1>4. Lost' = Lost + n
  <2> DEFINE l == [x \in Session |-> Missing(x)]
             k == [x \in Session |-> Missing(x)']
  <2>1. /\ DOMAIN l = Session /\ DOMAIN k = Session
        /\ \A x \in Session : l[x] = Missing(x) /\ l[x] \in Int
    BY MissingFacts
  <2>2. k[s] = l[s] + n /\ \A x \in Session \ {s} : k[x] = l[x]
    BY <1>3 DEF Missing
  <2>3. Lost' = SumFunction(k) /\ Lost = SumFunction(l)
    BY DEF Lost
  <2> HIDE DEF l, k
  <2>4. Lost' = SumFunctionOnSet(k, Session) /\ Lost = SumFunctionOnSet(l, Session)
    BY <2>1, <2>3, SumOf
  <2>5. \A x \in Session : l[x] \in Int /\ k[x] \in Int
    BY <1>1, <2>1, <2>2
  <2>6. SumFunctionOnSet(k, Session) = SumFunctionOnSet(l, Session) - l[s] + k[s]
    BY <2>2, <2>5, HolderFinite, SumUpdate
  <2>7. SumFunctionOnSet(l, Session) \in Int
    BY <2>5, HolderFinite, SumInt
  <2> QED
    BY <1>1, <2>2, <2>4, <2>5, <2>6, <2>7
<1>5. /\ MissingOf(u)' = MissingOf(u) + n
      /\ \A p \in Player \ {u} : MissingOf(p)' = MissingOf(p)
  <2> DEFINE l(p) == [x \in Session |-> missing[x][p]]
             k(p) == [x \in Session |-> missing'[x][p]]
  <2>1. \A p \in Player : /\ MissingOf(p) = SumFunctionOnSet(l(p), Session)
                          /\ MissingOf(p)' = SumFunctionOnSet(k(p), Session)
    BY DEF MissingOf, SumFunction
  <2>2. \A p \in Player \ {u} : k(p) = l(p)
    BY <1>3
  <2>3. /\ k(u)[s] = l(u)[s] + n /\ \A x \in Session \ {s} : k(u)[x] = l(u)[x]
        /\ \A x \in Session : l(u)[x] \in Int
    BY <1>1, <1>3
  <2> HIDE DEF l, k
  <2>4. \A x \in Session : k(u)[x] \in Int
    BY <1>1, <2>3
  <2>5. SumFunctionOnSet(k(u), Session)
          = SumFunctionOnSet(l(u), Session) - l(u)[s] + k(u)[s]
    BY <2>3, <2>4, HolderFinite, SumUpdate
  <2>6. SumFunctionOnSet(l(u), Session) \in Int
    BY <2>3, HolderFinite, SumInt
  <2> QED
    BY <1>1, <2>1, <2>2, <2>3, <2>5, <2>6
<1>6. \A p \in Player : Fees(p)' = Fees(p)
  BY <1>1 DEF Fees
<1>7. Backing(vault)' = 0 /\ Excess(vault)' = Lost'
  <2>1. Backing(vault)' = Backing(vault') /\ Excess(vault)' = Excess(vault')
    OBVIOUS
  <2> QED
    BY <1>1, <1>2, <1>4, <2>1, MoneyTypes DEF MoneyInv
<1>8. ASSUME NEW p \in Player PROVE Accounted(p)'
  <2>1. /\ Worth(vault, p) \in Int /\ MissingOf(p) \in Int /\ Fees(p) \in Int
        /\ Wallet[p] \in Int /\ stats[p] \in Int
    BY MoneyTypes
  <2>2. Worth(vault, p) + MissingOf(p) + Fees(p) = Wallet[p] + stats[p]
    BY DEF MoneyInv, Accounted
  <2>3. \/ Worth(vault, p)' = Worth(vault, p) /\ MissingOf(p)' = MissingOf(p)
        \/ Worth(vault, p)' = Worth(vault, p) - n /\ MissingOf(p)' = MissingOf(p) + n
    BY <1>2, <1>5
  <2>4. Worth(vault, p)' + MissingOf(p)' + Fees(p)' = Wallet[p] + stats'[p]
    BY <1>1, <1>6, <2>1, <2>2, <2>3
  <2> QED
    BY <2>4 DEF Accounted
<1> QED
  BY <1>7, <1>8 DEF MoneyInv

LEMMA CreateKeeps ==
  ASSUME TypeOK, MoneyInv, NEW b \in Board, NEW mode, Create(b, mode), Outside
  PROVE  MoneyInv'
<1>1. missing' = missing /\ stats' = stats
  BY DEF Create, Outside
<1>2. Lost' = Lost /\ \A p \in Player : MissingOf(p)' = MissingOf(p)
  BY <1>1 DEF Lost, Missing, MissingOf
<1>3. /\ Backing(vault') = Backing(vault) /\ Excess(vault') = Excess(vault)
      /\ Worth(vault', Creator[b]) = Worth(vault, Creator[b]) - BoardFee
      /\ \A p \in Player \ {Creator[b]} : Worth(vault', p) = Worth(vault, p)
  BY CreateEffect DEF Kept
<1>4. Backing(vault)' = 0 /\ Excess(vault)' = Lost'
  BY <1>2, <1>3 DEF MoneyInv
<1>5. ASSUME NEW p \in Player PROVE Accounted(p)'
  <2>1. /\ Worth(vault, p) \in Int /\ MissingOf(p) \in Int /\ Fees(p) \in Int
        /\ Wallet[p] \in Int /\ stats[p] \in Int /\ BoardFee \in Int
    BY MoneyTypes, CreatorFacts
  <2>2. Worth(vault, p) + MissingOf(p) + Fees(p) = Wallet[p] + stats[p]
    BY DEF MoneyInv, Accounted
  <2>3. \/ Worth(vault, p)' = Worth(vault, p) /\ Fees(p)' = Fees(p)
        \/ Worth(vault, p)' = Worth(vault, p) - BoardFee /\ Fees(p)' = Fees(p) + BoardFee
    BY <1>3, FeePaid
  <2>4. Worth(vault, p)' + MissingOf(p)' + Fees(p)' = Wallet[p] + stats'[p]
    BY <1>1, <1>2, <2>1, <2>2, <2>3
  <2> QED
    BY <2>4 DEF Accounted
<1> QED
  BY <1>4, <1>5 DEF MoneyInv

LEMMA MoneyStep ==
  ASSUME TypeOK, TypeOK', RowsAgree, MoneyInv, Next
  PROVE  MoneyInv'
<1>0. /\ Sorted /\ board \in [Board -> BoardRows] /\ Board \subseteq Session
      /\ \A b \in Board : board[b] \in BoardRows
  BY NextSorted, SessionNames DEF TypeOK, RecoveryTyped
<1>1. ASSUME Balanced, missing' = missing, board' = board PROVE MoneyInv'
  BY <1>1, BalancedKeeps, FeesStay
<1>2. ASSUME NEW b \in Board, NEW r, board[b].status # "none", r.status # "none",
             board' = [board EXCEPT ![b] = r], Balanced, missing' = missing
      PROVE  MoneyInv'
  <2>1. \A x \in Board : (board'[x].status = "none") <=> (board[x].status = "none")
    BY <1>0, <1>2
  <2> QED
    BY <1>2, <2>1, BalancedKeeps, FeesStay
<1>3. CASE TableStep /\ Aside
  BY <1>1, <1>3, TableBalanced DEF Aside, Outside
<1>4. CASE Midnight /\ Outside /\ UNCHANGED <<status, up, tableVars, board>>
  BY <1>1, <1>4, StillBalanced DEF Midnight, Outside
<1>5. ASSUME NEW b \in Board, NEW mode, Create(b, mode), Outside PROVE MoneyInv'
  BY <1>5, CreateKeeps
<1>6. ASSUME NEW b \in Board, NEW u \in Player, NEW o, NEW n \in Bets, Bet(b, u, o, n),
             Outside
      PROVE  MoneyInv'
  <2> DEFINE r == [board[b] EXCEPT !.pick[u] = o]
  <2>1. /\ CanFund(RefundOne(vault, b, u), u, n) /\ b \in Session
        /\ vault' = Hold(RefundOne(vault, b, u), b, u, n)
        /\ stats' = stats /\ board[b].status = "open"
        /\ board' = [board EXCEPT ![b] = r] /\ missing' = missing
    BY <1>0, <1>6 DEF Bet, Outside
  <2>2. r.status = "open"
    BY <1>0, <2>1 DEF BoardRows
  <2>3. Balanced
    BY <2>1, RebetEffect, BalancedBy
  <2> HIDE DEF r
  <2> QED
    BY <1>2, <2>1, <2>2, <2>3
<1>7. ASSUME NEW b \in Board, NEW r, Noted(b, r), Outside PROVE MoneyInv'
  <2>1. /\ vault' = vault /\ stats' = stats /\ missing' = missing
        /\ board' = [board EXCEPT ![b] = r]
        /\ board[b].status # "none" /\ r.status # "none"
    BY <1>7 DEF Noted, OnlyBoard, Outside, LiveStatuses
  <2> QED
    BY <1>2, <2>1, StillBalanced
<1>8. ASSUME NEW b \in Board, NEW r \in BoardRows, NEW lead, BoardEnds(b, r, lead), Outside
      PROVE  MoneyInv'
  <2> DEFINE pay == BoardPay(b, r.result, lead)
  <2>1. /\ Matches(vault, b) /\ b \in Session
        /\ \/ vault' = Refund(vault, b) /\ stats' = stats
           \/ PaidOut(vault, b, pay, vault') /\ stats' = StatsAfter(vault, b, pay)
    BY <1>8, SettleBoardEffect DEF BoardEnds
  <2> HIDE DEF pay
  <2>2. Balanced
    BY <2>1, RefundEffect, BalancedBy, PaidBalanced
  <2>3. PICK q : board' = [board EXCEPT ![b] = q] /\ q.status \in {"void", "settled"}
    <3>1. [r EXCEPT !.status = "void"].status = "void"
          /\ [r EXCEPT !.status = "settled"].status = "settled"
      BY DEF BoardRows
    <3> QED
      BY <1>8, <3>1 DEF BoardEnds, SettleBoard
  <2>4. board[b].status # "none" /\ missing' = missing
    BY <1>8 DEF BoardEnds, LiveStatuses, Outside
  <2> QED
    BY <1>2, <2>2, <2>3, <2>4
<1>9. ASSUME NEW b \in Board, AdminVoid(b), Outside PROVE MoneyInv'
  <2> DEFINE r == [board[b] EXCEPT !.status = "void"]
  <2>1. /\ vault' = Refund(vault, b) /\ stats' = stats /\ missing' = missing
        /\ board[b].status = "disputed" /\ b \in Session
        /\ board' = [board EXCEPT ![b] = r]
    BY <1>0, <1>9 DEF AdminVoid, Outside
  <2>2. r.status = "void"
    BY <1>0 DEF BoardRows
  <2>3. Balanced
    BY <2>1, RefundEffect, BalancedBy
  <2> HIDE DEF r
  <2> QED
    BY <1>2, <2>1, <2>2, <2>3
<1>10. CASE Crash \/ ReleaseReservations
  BY <1>1, <1>10, StillBalanced DEF Crash, ReleaseReservations, KeptByRecovery
<1>11. ASSUME NEW s \in Session, NEW u \in Player, RemoveRow(s, u) PROVE MoneyInv'
  BY <1>11, RemovedKeeps
<1>12. ASSUME NEW s \in Session, RecoverSession(s) PROVE MoneyInv'
  <2>1. vault' = Sweep(s) /\ stats' = stats /\ missing' = missing /\ board' = board
    BY <1>12 DEF RecoverSession, KeptByRecovery
  <2> QED
    BY <1>1, <2>1, SweepEffect, BalancedBy
<1>13. ASSUME NEW u \in Player, RedeemAtStart(u) PROVE MoneyInv'
  <2>1. /\ vault' = vault \/ vault' = RedeemAll(vault, u)
        /\ stats' = stats /\ missing' = missing /\ board' = board
    BY <1>13 DEF RedeemAtStart, KeptByRecovery
  <2> QED
    BY <1>1, <2>1, RedeemEffect, BalancedBy, StillBalanced
<1>14. ASSUME NEW n \in Bets, SettleHouseNow(n) PROVE MoneyInv'
  <2>1. SettleHouse(n) /\ stats' = stats /\ missing' = missing /\ board' = board
    BY <1>14 DEF SettleHouseNow, SettleHouse
  <2> QED
    BY <1>1, <2>1, SettleHouseEffect, BalancedBy
<1>15. CASE Quiet
  BY <1>1, <1>15, QuietFacts, StillBalanced
<1> QED
  BY <1>0, <1>3, <1>4, <1>5, <1>6, <1>7, <1>8, <1>9, <1>10, <1>11, <1>12, <1>13, <1>14,
     <1>15 DEF Sorted

LEMMA MoneyStart ==
  ASSUME NEW n \in Nat, CasinoInit(n), TypeOK
  PROVE  MoneyInv
<1>0. /\ vault \in Vaults /\ vault.pool = n /\ vault.land = Wallet
      /\ vault.chips = [h \in Holder |-> IF h = House THEN n ELSE 0]
      /\ vault.book = [s \in Session |-> [u \in Player |-> 0]]
      /\ stats = [u \in Player |-> 0]
      /\ board = [b \in Board |-> NewBoard]
      /\ missing = [s \in Session |-> [u \in Player |-> 0]]
  BY DEF CasinoInit, TablesInit, ChipsInit, MarketInit, TypeOK, MoneyTyped
<1>1. /\ House \in Holder /\ House \notin Player /\ House \notin Session \union {Quarantine}
      /\ Player \subseteq Holder /\ Session \union {Quarantine} \subseteq Holder
  BY ChipsAssumption DEF Holder
<1>2. /\ vault.chips[House] = n /\ \A h \in Holder \ {House} : vault.chips[h] = 0
      /\ \A s \in Session, u \in Player : vault.book[s][u] = 0 /\ missing[s][u] = 0
  BY <1>0, <1>1
<1>3. Backing(vault) = 0
  <2> DEFINE c == vault.chips
  <2>1. Outstanding(vault) = SumFunctionOnSet(c, Holder)
    BY <1>0, VaultSums
  <2>2. c[House] = n /\ \A h \in Holder \ {House} : c[h] = 0
    BY <1>2
  <2> HIDE DEF c
  <2>3. SumFunctionOnSet(c, Holder) = n
    BY <1>1, <2>2, HolderFinite, SumSingle
  <2> QED
    BY <1>0, <2>1, <2>3 DEF Backing
<1>4. Parked(vault) = 0
  <2> DEFINE c == vault.chips
             S == Session \union {Quarantine}
  <2>1. \A h \in S : c[h] = 0
    BY <1>1, <1>2
  <2>2. Parked(vault) = SumFunctionOnSet(c, S) /\ IsFiniteSet(S)
    BY HolderFinite DEF Parked
  <2> HIDE DEF c, S
  <2> QED
    BY <2>1, <2>2, SumZero
<1>5. AllStaked(vault) = 0 /\ Lost = 0
  <2> DEFINE a == [s \in Session |-> Staked(vault, s)]
             l == [s \in Session |-> Missing(s)]
  <2>1. \A s \in Session : Staked(vault, s) = 0 /\ Missing(s) = 0
    BY <1>0, <1>2, NoRowsNoStake, MissingFacts
  <2>2. /\ \A s \in Session : a[s] = 0 /\ l[s] = 0
        /\ DOMAIN a = Session /\ DOMAIN l = Session
        /\ AllStaked(vault) = SumFunction(a) /\ Lost = SumFunction(l)
    BY <2>1 DEF AllStaked, Lost
  <2> HIDE DEF a, l
  <2>3. AllStaked(vault) = SumFunctionOnSet(a, Session) /\ Lost = SumFunctionOnSet(l, Session)
    BY <2>2, SumOf
  <2> QED
    BY <2>2, <2>3, HolderFinite, SumZero
<1>6. ASSUME NEW u \in Player PROVE Accounted(u)
  <2> DEFINE r == [s \in Session |-> vault.book[s][u]]
             m == [s \in Session |-> missing[s][u]]
             mine == {x \in Board : Creator[x] = u /\ board[x].status # "none"}
  <2>1. /\ \A s \in Session : r[s] = 0 /\ m[s] = 0
        /\ DOMAIN r = Session /\ DOMAIN m = Session
        /\ RowsOf(vault, u) = SumFunction(r) /\ MissingOf(u) = SumFunction(m)
    BY <1>2 DEF RowsOf, MissingOf
  <2>2. mine = {} /\ Fees(u) = BoardFee * Cardinality(mine)
    BY <1>0 DEF NewBoard, Fees
  <2> HIDE DEF r, m, mine
  <2>3. RowsOf(vault, u) = SumFunctionOnSet(r, Session)
        /\ MissingOf(u) = SumFunctionOnSet(m, Session)
    BY <2>1, SumOf
  <2>4. RowsOf(vault, u) = 0 /\ MissingOf(u) = 0
    BY <2>1, <2>3, HolderFinite, SumZero
  <2>5. Fees(u) = 0
    BY <2>2, FS_EmptySet, MarketAssumption
  <2>6. vault.chips[u] = 0 /\ vault.land[u] = Wallet[u] /\ Wallet[u] \in Int /\ stats[u] = 0
    BY <1>0, <1>1, <1>2, ChipsAssumption
  <2> QED
    BY <2>4, <2>5, <2>6 DEF Accounted, Worth, Holdings
<1> QED
  BY <1>3, <1>4, <1>5, <1>6 DEF MoneyInv, Excess

LEMMA MoneyMeans ==
  ASSUME TypeOK, MoneyInv
  PROVE  MoneyIsWhole
<1>1. CheckB
  <2>1. vault.pool \in Int /\ Outstanding(vault) \in Int
    BY MoneyTypes, VaultFacts, VaultSums
  <2> QED
    BY <2>1 DEF MoneyInv, Backing, CheckB
<1>2. SumFunction([s \in Session |-> Staked(vault, s) + Missing(s)])
        = AllStaked(vault) + Lost
  <2> DEFINE a == [s \in Session |-> Staked(vault, s)]
             l == [s \in Session |-> Missing(s)]
             t == [s \in Session |-> Staked(vault, s) + Missing(s)]
  <2>1. /\ DOMAIN a = Session /\ DOMAIN l = Session /\ DOMAIN t = Session
        /\ \A s \in Session : a[s] \in Int /\ l[s] \in Int /\ t[s] = a[s] + l[s]
    BY MoneyTypes, VaultSums, MissingFacts
  <2>2. AllStaked(vault) = SumFunction(a) /\ Lost = SumFunction(l)
    BY DEF AllStaked, Lost
  <2> HIDE DEF a, l, t
  <2>3. /\ AllStaked(vault) = SumFunctionOnSet(a, Session)
        /\ Lost = SumFunctionOnSet(l, Session) /\ SumFunction(t) = SumFunctionOnSet(t, Session)
    BY <2>1, <2>2, SumOf
  <2>4. SumFunctionOnSet(t, Session)
          = SumFunctionOnSet(a, Session) + SumFunctionOnSet(l, Session)
    BY <2>1, HolderFinite, SumPlus
  <2>5. SumFunction(t) = AllStaked(vault) + Lost
    BY <2>3, <2>4
  <2> QED
    BY <2>5 DEF t
<1>3. Parked(vault) = AllStaked(vault) + Lost
  BY MoneyTypes, VaultSums DEF MoneyInv, Excess
<1>4. ChipsBacked
  BY <1>1, <1>2, <1>3 DEF ChipsBacked, Parked
<1>5. WealthAccounted
  <2> SUFFICES ASSUME NEW u \in Player
               PROVE  Holdings(vault, u) + StakesOf(u) + MissingOf(u) + Fees(u)
                        = Wallet[u] + stats[u]
    BY DEF WealthAccounted
  <2>1. RowsOf(vault, u) = StakesOf(u)
    BY DEF RowsOf, StakesOf
  <2> QED
    BY <2>1 DEF MoneyInv, Accounted, Worth
<1> QED
  BY <1>4, <1>5 DEF MoneyIsWhole

\* No chip and no Land is lost or invented: the pool backs every chip, the
\* chips of the holders are the rows of the book plus the rows removed by hand,
\* and what a player owns is what he brought plus the results booked for him;
\* whatever crashes, voids, settlements and recoveries come in whatever order.
THEOREM CasinoMoneyIsWhole == Spec => []MoneyIsWhole
<1>1. (\E n \in Nat : CasinoInit(n)) => TypeOK /\ TablesInv /\ MoneyInv
  BY TypeInit, TablesInvInit, MoneyStart
<1>2. TypeOK /\ TablesInv /\ MoneyInv /\ [Next]_vars => TypeOK' /\ TablesInv' /\ MoneyInv'
  <2>1. ASSUME MoneyInv, UNCHANGED vars PROVE MoneyInv'
    BY <2>1 DEF vars, MoneyInv, Accounted, Lost, Missing, MissingOf, Fees
  <2>2. TypeOK /\ TablesInv /\ [Next]_vars => TypeOK' /\ TablesInv'
    BY TypeStep, TablesInvStep
  <2>3. TablesInv => RowsAgree
    BY DEF TablesInv
  <2> QED
    BY <2>1, <2>2, <2>3, MoneyStep
<1>3. TypeOK /\ MoneyInv => MoneyIsWhole
  BY MoneyMeans
<1> QED
  BY <1>1, <1>2, <1>3, PTL DEF Spec

-----------------------------------------------------------------------------
(* No player is overdrawn.                                                 *)

LEMMA TableDebtors ==
  ASSUME TypeOK, BetsAgree, NoDebtor(vault), TableStep
  PROVE  NoDebtor(vault')
<1>1. ASSUME NEW u \in Player, NEW n \in SoloBets, StartGame(u, n) PROVE NoDebtor(vault')
  BY <1>1, StartGameEffect
<1>2. ASSUME NEW u \in Player, NEW p \in Nat, FinishGame(u, p) PROVE NoDebtor(vault')
  BY <1>2, FinishGameEffect
<1>3. ASSUME NEW u \in Player, AbandonGame(u) PROVE NoDebtor(vault')
  BY <1>3 DEF AbandonGame
<1>4. ASSUME NEW u \in Player, RedeemFree(u) PROVE NoDebtor(vault')
  <2>1. vault' = RedeemAll(vault, u)
    BY <1>4 DEF RedeemFree
  <2> QED
    BY <2>1, RedeemEffect
<1>5. ASSUME NEW s \in Table, OpenTable(s) \/ CloseBetting(s) \/ SweepStale(s) \/ GetStuck(s)
      PROVE  NoDebtor(vault')
  BY <1>5 DEF OpenTable, CloseBetting, SweepStale, GetStuck, moneyVars
<1>6. ASSUME NEW s \in Roulette, NEW u \in Player, NEW t \in DOMAIN Odds, NEW n \in Bets,
             AcceptRouletteBet(s, u, t, n)
      PROVE  NoDebtor(vault')
  <2>1. /\ CanFund(RefundOne(vault, s, u), u, n) /\ s \in Session
        /\ vault' = Hold(RefundOne(vault, s, u), s, u, n)
    BY <1>6, SessionNames DEF AcceptRouletteBet
  <2> QED
    BY <2>1, RebetEffect
<1>7. ASSUME NEW s \in Roulette, NEW hit, SettleRoulette(s, hit) PROVE NoDebtor(vault')
  <2>1. vault' = Spun(vault, s, hit) /\ phase[s] = "spinning"
    BY <1>7 DEF SettleRoulette
  <2>2. \A u \in Player : vault.book[s][u] = bets[s][u].amount
    BY <2>1 DEF BetsAgree, BetsAgreeAt
  <2> QED
    BY <2>1, <2>2, SpunEffect
<1>8. ASSUME NEW s \in Pvp, NEW us \in SUBSET Player, NEW n \in Bets,
             CollectStakes(s, us, n)
      PROVE  NoDebtor(vault')
  BY <1>8, CollectStakesEffect
<1>9. ASSUME NEW s \in Pvp, NEW w \in SUBSET Player, NEW u \in Player, SettlePvp(s, w, u)
      PROVE  NoDebtor(vault')
  BY <1>9, SettlePvpEffect DEF PaidOut
<1>10. ASSUME NEW s \in Table, CancelTable(s) PROVE NoDebtor(vault')
  <2>1. vault' = Refund(vault, s) /\ s \in Session
    BY <1>10, SessionNames DEF CancelTable, VoidTable
  <2> QED
    BY <2>1, RefundEffect
<1>11. \A u \in Player : 0 .. solo[u] * SoloOdds \subseteq Nat
  OBVIOUS
<1> QED
  BY <1>1, <1>2, <1>3, <1>4, <1>5, <1>6, <1>7, <1>8, <1>9, <1>10, <1>11
     DEF TableStep, Table

LEMMA DebtorStep ==
  ASSUME TypeOK, BetsAgree, NoDebtor(vault), Next
  PROVE  NoDebtor(vault')
<1>0. Sorted
  BY NextSorted
<1>1. CASE TableStep
  BY <1>1, TableDebtors
<1>2. CASE Midnight \/ Crash \/ ReleaseReservations
  BY <1>2 DEF Midnight, Crash, ReleaseReservations
<1>3. ASSUME NEW b \in Board, NEW mode, Create(b, mode) PROVE NoDebtor(vault')
  BY <1>3, CreateEffect
<1>4. ASSUME NEW b \in Board, NEW u \in Player, NEW o, NEW n \in Bets, Bet(b, u, o, n)
      PROVE  NoDebtor(vault')
  <2>1. /\ CanFund(RefundOne(vault, b, u), u, n) /\ b \in Session
        /\ vault' = Hold(RefundOne(vault, b, u), b, u, n)
    BY <1>4, SessionNames DEF Bet
  <2> QED
    BY <2>1, RebetEffect
<1>5. ASSUME NEW b \in Board, NEW r, Noted(b, r) PROVE NoDebtor(vault')
  BY <1>5 DEF Noted, OnlyBoard
<1>6. ASSUME NEW b \in Board, NEW r, NEW lead, BoardEnds(b, r, lead) PROVE NoDebtor(vault')
  <2>1. \/ vault' = Refund(vault, b)
        \/ PaidOut(vault, b, BoardPay(b, r.result, lead), vault')
    BY <1>6, SettleBoardEffect DEF BoardEnds
  <2>2. b \in Session
    BY SessionNames
  <2> QED
    BY <2>1, <2>2, RefundEffect DEF PaidOut
<1>7. ASSUME NEW b \in Board, AdminVoid(b) PROVE NoDebtor(vault')
  <2>1. vault' = Refund(vault, b) /\ b \in Session
    BY <1>7, SessionNames DEF AdminVoid
  <2> QED
    BY <2>1, RefundEffect
<1>8. ASSUME NEW s \in Session, NEW u \in Player, RemoveRow(s, u) PROVE NoDebtor(vault')
  BY <1>8, RemoveRowEffect DEF NoDebtor
<1>9. ASSUME NEW s \in Session, RecoverSession(s) PROVE NoDebtor(vault')
  <2>1. vault' = Sweep(s)
    BY <1>9 DEF RecoverSession
  <2> QED
    BY <2>1, SweepEffect
<1>10. ASSUME NEW u \in Player, RedeemAtStart(u) PROVE NoDebtor(vault')
  <2>1. vault' = vault \/ vault' = RedeemAll(vault, u)
    BY <1>10 DEF RedeemAtStart
  <2> QED
    BY <2>1, RedeemEffect
<1>11. ASSUME NEW n \in Bets, SettleHouseNow(n) PROVE NoDebtor(vault')
  BY <1>11, SettleHouseEffect DEF SettleHouseNow
<1>12. CASE Quiet
  BY <1>12, QuietFacts
<1> QED
  BY <1>0, <1>1, <1>2, <1>3, <1>4, <1>5, <1>6, <1>7, <1>8, <1>9, <1>10, <1>11, <1>12
     DEF Sorted

-----------------------------------------------------------------------------
(* The daily limit.                                                        *)

\* Loss n more on day d stays within the limit of player u.
Covered(u, d, n) == d =< today /\ risk.net[d][u] - n >= -Cap(u, d)

Live(s, u) == phase[s] \in {"open", "spinning"} /\ vault.book[s][u] > 0

StakeCovered(s, u) ==
  Live(s, u) => /\ vault.book[s][u] =< risk.max[s][u]
                /\ Covered(u, risk.day[s][u], risk.max[s][u])

GameCovered(u) ==
  solo[u] > 0 => /\ solo[u] = risk.start[u].max
                 /\ Covered(u, risk.start[u].day, solo[u])

DayCovered(u, d) ==
  /\ risk.opening[d][u] >= 0
  /\ risk.net[d][u] >= -Cap(u, d)
  /\ d > today => risk.net[d][u] = 0

\* Two losses at once would not be covered: but a player is at one table.
ExposedOf(u) ==
  /\ \A d \in Day : DayCovered(u, d)
  /\ \A s \in Table : StakeCovered(s, u)
  /\ GameCovered(u)

Exposed == NoDebtor(vault) /\ \A u \in Player : ExposedOf(u)

LEMMA CapFacts ==
  ASSUME NEW r \in Int, r >= 0
  PROVE  (r * LimitBps) \div 10000 \in Nat
<1>1. LimitBps \in Nat
  BY DailyRiskAssumption
<1>2. r * LimitBps \in Nat
  BY <1>1
<1> DEFINE n == r * LimitBps
<1> HIDE DEF n
<1>3. \A m \in Nat : m \div 10000 \in Nat
  OBVIOUS
<1> QED
  BY <1>2, <1>3

\* Nothing is booked: a stake or a game is the same, new and covered, or over.
SameStake(s, u) ==
  /\ Live(s, u)
  /\ vault'.book[s][u] = vault.book[s][u]
  /\ risk'.max[s][u] = risk.max[s][u] /\ risk'.day[s][u] = risk.day[s][u]

NewStake(s, u) ==
  /\ vault'.book[s][u] =< risk'.max[s][u]
  /\ risk'.day[s][u] = today
  /\ Prospective(u, risk'.max[s][u])

SameGame(u) == solo'[u] = solo[u] /\ risk'.start[u] = risk.start[u]

NewGame(u) ==
  /\ risk'.start[u] = [day |-> today, max |-> solo'[u]]
  /\ Prospective(u, solo'[u])

LEMMA NothingBooked ==
  ASSUME TypeOK, TypeOK', NEW u \in Player, ExposedOf(u), today' = today,
         risk'.opening = risk.opening,
         \A d \in Day : risk'.net[d][u] = risk.net[d][u],
         \A s \in Table : Live(s, u)' => SameStake(s, u) \/ NewStake(s, u),
         solo'[u] > 0 => SameGame(u) \/ NewGame(u)
  PROVE  ExposedOf(u)'
<1>1. \A d : Cap(u, d)' = Cap(u, d)
  BY DEF Cap
<1>2. \A d \in Day : \A n : Covered(u, d, n) => (d =< today' /\ risk'.net[d][u] - n >= -Cap(u, d)')
  BY <1>1 DEF Covered
<1>3. /\ \A n : Prospective(u, n) => Covered(u, today, n)
      /\ today \in Day /\ \A s \in Table : risk'.day[s][u] \in Day
      /\ risk'.start[u].day \in Day
  BY DayFacts, RiskFacts, SessionNames DEF Prospective, Covered, TypeOK, RiskTyped
<1>4. \A d \in Day : DayCovered(u, d)'
  BY <1>1 DEF ExposedOf, DayCovered
<1>5. ASSUME NEW s \in Table, Live(s, u)'
      PROVE  /\ vault'.book[s][u] =< risk'.max[s][u]
             /\ Covered(u, risk'.day[s][u], risk'.max[s][u])
  <2>1. CASE SameStake(s, u)
    <3>1. /\ vault.book[s][u] =< risk.max[s][u]
          /\ Covered(u, risk.day[s][u], risk.max[s][u])
      BY <2>1 DEF SameStake, ExposedOf, StakeCovered
    <3> QED
      BY <2>1, <3>1 DEF SameStake
  <2>2. CASE NewStake(s, u)
    BY <1>3, <2>2 DEF NewStake
  <2> QED
    BY <1>5, <2>1, <2>2
<1>6. ASSUME NEW s \in Table PROVE StakeCovered(s, u)'
  BY <1>2, <1>3, <1>5 DEF StakeCovered, Covered
<1>7. GameCovered(u)'
  <2>1. ASSUME solo'[u] > 0
        PROVE  solo'[u] = risk'.start[u].max /\ Covered(u, risk'.start[u].day, solo'[u])
    <3>1. CASE SameGame(u)
      BY <2>1, <3>1 DEF SameGame, ExposedOf, GameCovered
    <3>2. CASE NewGame(u)
      BY <1>3, <3>2 DEF NewGame
    <3> QED
      BY <2>1, <3>1, <3>2
  <2> QED
    BY <1>2, <1>3, <2>1 DEF GameCovered, Covered
<1> QED
  BY <1>4, <1>6, <1>7 DEF ExposedOf

\* A result is booked on the day the stake was accepted: no loss beyond what
\* was covered.
LEMMA ResultBooked ==
  ASSUME TypeOK, NEW u \in Player, ExposedOf(u), today' = today,
         risk'.opening = risk.opening,
         NEW e \in Day, NEW n \in Nat, NEW g \in Int, g >= -n, Covered(u, e, n),
         \A d \in Day : risk'.net[d][u] = risk.net[d][u] + (IF d = e THEN g ELSE 0),
         \A s \in Table : ~Live(s, u)', ~(solo'[u] > 0)
  PROVE  ExposedOf(u)'
<1>1. \A d : Cap(u, d)' = Cap(u, d)
  BY DEF Cap
<1>2. \A d \in Day : /\ risk.net[d][u] \in Int /\ risk.opening[d][u] \in Int
                     /\ risk.opening[d][u] >= 0
  BY RiskFacts DEF TypeOK, RiskTyped, ExposedOf, DayCovered
<1>3. \A d \in Day : Cap(u, d) \in Nat
  BY <1>2, CapFacts DEF Cap
<1>4. today \in Int /\ \A d \in Day : d \in Int
  BY DayFacts DEF TypeOK, RiskTyped
<1>5. ASSUME NEW d \in Day PROVE DayCovered(u, d)'
  <2>1. DayCovered(u, d)
    BY DEF ExposedOf
  <2>2. CASE d = e
    <3>1. d =< today /\ risk.net[d][u] - n >= -Cap(u, d)
      BY <2>2 DEF Covered
    <3>2. risk'.net[d][u] = risk.net[d][u] + g
      BY <2>2
    <3> HIDE DEF Cap
    <3>3. risk'.net[d][u] >= -Cap(u, d)
      BY <1>2, <1>3, <3>1, <3>2
    <3> QED
      BY <1>1, <1>4, <2>1, <3>1, <3>3 DEF DayCovered
  <2>3. CASE d # e
    <3>1. risk'.net[d][u] = risk.net[d][u]
      BY <1>2, <2>3
    <3> QED
      BY <1>1, <2>1, <3>1 DEF DayCovered
  <2> QED
    BY <2>2, <2>3
<1>6. \A s \in Table : StakeCovered(s, u)'
  BY DEF StakeCovered
<1>7. GameCovered(u)'
  BY DEF GameCovered
<1> QED
  BY <1>5, <1>6, <1>7 DEF ExposedOf

LEMMA DayPassed ==
  ASSUME TypeOK, TypeOK', NEW u \in Player, ExposedOf(u), NoDebtor(vault), Midnight,
         UNCHANGED <<solo, phase>>
  PROVE  ExposedOf(u)'
<1> DEFINE e == today + 1
           row == [p \in Player |-> Holdings(vault, p)]
<1>0. /\ today \in Day /\ e \in Day /\ \A d \in Day : d \in Int
      /\ vault' = vault /\ today' = e /\ row[u] >= 0 /\ row[u] \in Int
      /\ risk \in Risks /\ risk' = [risk EXCEPT !.opening[e] = row]
      /\ u \in Holder
  BY DayFacts, VaultFacts, Names
     DEF Midnight, TypeOK, RiskTyped, MoneyTyped, NoDebtor, Holdings
<1> HIDE DEF row
<1>1. /\ risk'.opening[e][u] = row[u]
      /\ \A d \in Day \ {e} : risk'.opening[d] = risk.opening[d]
      /\ risk'.net = risk.net /\ risk'.max = risk.max /\ risk'.day = risk.day
      /\ risk'.start = risk.start
  <2>1. risk' = [risk EXCEPT !.opening = [risk.opening EXCEPT ![e] = row]]
    BY <1>0 DEF Risks
  <2>2. risk'.opening = [risk.opening EXCEPT ![e] = row]
    BY <1>0, <2>1 DEF Risks
  <2> QED
    BY <1>0, <2>1, <2>2 DEF Risks
<1>2. \A d \in Day \ {e} : Cap(u, d)' = Cap(u, d)
  BY <1>1 DEF Cap
<1>3. \A d \in Day : \A n : Covered(u, d, n) => Covered(u, d, n)'
  BY <1>0, <1>1, <1>2 DEF Covered
<1>4. ASSUME NEW d \in Day PROVE DayCovered(u, d)'
  <2>1. DayCovered(u, d) /\ risk.net[d][u] \in Int
    BY <1>0, RiskFacts DEF ExposedOf
  <2>2. CASE d = e
    <3>1. risk.net[d][u] = 0
      BY <1>0, <2>1, <2>2 DEF DayCovered
    <3>2. Cap(u, d)' \in Nat
      BY <1>0, <1>1, <2>2, CapFacts DEF Cap
    <3> QED
      BY <1>0, <1>1, <2>2, <3>1, <3>2 DEF DayCovered
  <2>3. CASE d # e
    BY <1>0, <1>1, <1>2, <2>1, <2>3 DEF DayCovered
  <2> QED
    BY <2>2, <2>3
<1>5. ASSUME NEW s \in Table PROVE StakeCovered(s, u)'
  <2>1. StakeCovered(s, u) /\ risk.day[s][u] \in Day
    BY <1>0, RiskFacts, SessionNames DEF ExposedOf
  <2>2. Live(s, u)' <=> Live(s, u)
    BY <1>0 DEF Live
  <2> QED
    BY <1>0, <1>1, <1>3, <2>1, <2>2 DEF StakeCovered
<1>6. GameCovered(u)'
  <2>1. GameCovered(u) /\ risk.start[u].day \in Day
    BY <1>0, RiskFacts DEF ExposedOf
  <2> QED
    BY <1>1, <1>3, <2>1 DEF GameCovered
<1> QED
  BY <1>4, <1>5, <1>6 DEF ExposedOf

\* A player has one stake or one game at a time.
LEMMA OneStakeEach ==
  ASSUME OneTableEach, NEW s \in Table, NEW u \in Player, Live(s, u)
  PROVE  /\ ~(solo[u] > 0)
         /\ \A x \in Table \ {s} : ~Live(x, u)
BY CasinoTablesAssumption DEF OneTableEach, Live, Table

\* Nothing happens to the risk, and no stake is taken.
LEMMA RiskStill ==
  ASSUME TypeOK, TypeOK', NEW u \in Player, ExposedOf(u),
         UNCHANGED <<risk, today, solo>>,
         \A s \in Table : Live(s, u)' => Live(s, u) /\ vault'.book[s][u] = vault.book[s][u]
  PROVE  ExposedOf(u)'
<1>1. \A s \in Table : Live(s, u)' => SameStake(s, u)
  BY DEF SameStake
<1>2. SameGame(u)
  BY DEF SameGame
<1> QED
  BY <1>1, <1>2, NothingBooked

LEMMA SoloExposed ==
  ASSUME TypeOK, TypeOK', OneTableEach, NEW q \in Player, ExposedOf(q),
         NEW u \in Player,
         \/ \E n \in SoloBets : StartGame(u, n)
         \/ \E p \in Nat : FinishGame(u, p)
         \/ AbandonGame(u)
  PROVE  ExposedOf(q)'
<1>0. /\ RiskTyped /\ solo \in [Player -> Nat] /\ \A p \in Player : solo[p] \in Nat
      /\ phase' = phase /\ vault'.book = vault.book /\ today' = today
  BY StartGameEffect, FinishGameEffect
     DEF TypeOK, TablesTyped, StartGame, FinishGame, AbandonGame, SoloOver
<1>1. \A s \in Table : Live(s, q)' => Live(s, q)
  BY <1>0 DEF Live
<1>2. ASSUME risk'.max = risk.max, risk'.day = risk.day
      PROVE  \A s \in Table : Live(s, q)' => SameStake(s, q)
  BY <1>0, <1>1, <1>2 DEF SameStake
<1>3. ASSUME NEW n \in SoloBets, StartGame(u, n) PROVE ExposedOf(q)'
  <2> DEFINE g == [day |-> today, max |-> n]
  <2>1. g \in [day : Day, max : Nat]
    BY <1>0, Amounts DEF RiskTyped
  <2>2. risk' = [risk EXCEPT !.start[u] = g] /\ solo' = [solo EXCEPT ![u] = n]
        /\ Prospective(u, n)
    BY <1>3 DEF StartGame, StartSolo
  <2> HIDE DEF g
  <2>3. /\ risk'.opening = risk.opening /\ risk'.net = risk.net
        /\ risk'.max = risk.max /\ risk'.day = risk.day
        /\ risk'.start[u] = g
        /\ \A p \in Player \ {u} : risk'.start[p] = risk.start[p]
    <3>1. StartedBy(u, g, risk')
      BY <1>0, <2>1, <2>2, StartFacts
    <3> QED
      BY <3>1 DEF StartedBy
  <2>4. solo'[u] = n /\ \A p \in Player \ {u} : solo'[p] = solo[p]
    BY <1>0, <2>2
  <2>5. SameGame(q) \/ NewGame(q)
    BY <2>2, <2>3, <2>4 DEF SameGame, NewGame, g
  <2> QED
    BY <1>0, <1>2, <2>3, <2>5, NothingBooked
<1>4. CASE AbandonGame(u)
  <2>1. risk' = [risk EXCEPT !.start[u] = NoStart] /\ solo' = [solo EXCEPT ![u] = 0]
    BY <1>4 DEF AbandonGame, SoloOver
  <2>2. /\ risk'.opening = risk.opening /\ risk'.net = risk.net
        /\ risk'.max = risk.max /\ risk'.day = risk.day
        /\ \A p \in Player \ {u} : risk'.start[p] = risk.start[p]
    <3>1. StartedBy(u, NoStart, risk')
      BY <1>0, <2>1, StartFacts, NoStartTyped
    <3> QED
      BY <3>1 DEF StartedBy
  <2>3. solo'[q] > 0 => SameGame(q)
    BY <1>0, <2>1, <2>2 DEF SameGame
  <2> QED
    BY <1>0, <1>2, <2>2, <2>3, NothingBooked
<1>5. ASSUME NEW p \in Nat, FinishGame(u, p) PROVE ExposedOf(q)'
  <2> DEFINE n == solo[u]
             e == risk.start[u].day
             g == p - n
  <2>1. /\ n > 0 /\ n \in Nat /\ g \in Int /\ g >= -n /\ e \in Day
        /\ risk' = SettleSolo(u, g) /\ solo' = [solo EXCEPT ![u] = 0]
    BY <1>0, <1>5, RiskFacts DEF FinishGame, SoloOver, RiskTyped
  <2> HIDE DEF g
  <2>2. /\ risk'.opening = risk.opening
        /\ risk'.max = risk.max /\ risk'.day = risk.day
        /\ \A r \in Player \ {u} : risk'.start[r] = risk.start[r]
        /\ \A d \in Day, r \in Player :
             risk'.net[d][r] = risk.net[d][r] + IF r = u /\ d = e THEN g ELSE 0
    BY <1>0, <2>1, SettleSoloFacts
  <2>3. \A d \in Day : risk.net[d][q] \in Int
    BY <1>0, RiskFacts DEF RiskTyped
  <2>4. CASE q = u
    <3>1. Covered(q, e, n)
      BY <2>1, <2>4 DEF ExposedOf, GameCovered
    <3>2. \A d \in Day : risk'.net[d][q] = risk.net[d][q] + (IF d = e THEN g ELSE 0)
      BY <2>2, <2>4
    <3>3. \A s \in Table : ~Live(s, q)'
      BY <1>1, <2>1, <2>4, OneStakeEach
    <3>4. ~(solo'[q] > 0)
      BY <1>0, <2>1, <2>4
    <3> HIDE DEF n, e
    <3> QED
      BY <1>0, <2>1, <2>2, <3>1, <3>2, <3>3, <3>4, ResultBooked
  <2>5. CASE q # u
    <3>1. \A d \in Day : risk'.net[d][q] = risk.net[d][q]
      BY <2>2, <2>3, <2>5
    <3>2. SameGame(q)
      BY <1>0, <2>1, <2>2, <2>5 DEF SameGame
    <3> QED
      BY <1>0, <1>2, <2>2, <3>1, <3>2, NothingBooked
  <2> QED
    BY <2>4, <2>5
<1> QED
  BY <1>3, <1>4, <1>5

\* The stakes of the players in us at table s are settled by f.
LEMMA StakesSettled ==
  ASSUME TypeOK, TypeOK', OneTableEach, NEW q \in Player, ExposedOf(q),
         NEW s \in Table, NEW us \in SUBSET Player, NEW f \in [Player -> Int],
         \A u \in us : Live(s, u) /\ f[u] >= -vault.book[s][u],
         risk' = SettleExposures(s, us, f), today' = today, solo' = solo,
         phase' = [phase EXCEPT ![s] = "over"],
         \A x \in Session \ {s} : SameAt(vault, vault', x)
  PROVE  ExposedOf(q)'
<1>0. /\ RiskTyped /\ s \in Session /\ Table \subseteq Session
      /\ phase \in [Table -> {"none", "open", "spinning", "stuck", "over"}]
      /\ \A d \in Day : risk.net[d][q] \in Int
      /\ risk.day[s][q] \in Day /\ risk.max[s][q] \in Nat
  BY SessionNames, RiskFacts DEF TypeOK, RiskTyped, TablesTyped
<1>1. /\ risk'.opening = risk.opening /\ risk'.start = risk.start
      /\ \A x \in Session \ {s} : risk'.max[x] = risk.max[x] /\ risk'.day[x] = risk.day[x]
      /\ \A d \in Day, u \in Player :
           risk'.net[d][u] = risk.net[d][u]
                               + IF u \in us /\ risk.day[s][u] = d THEN f[u] ELSE 0
  <2>1. BookedBy(s, us, f, risk')
    BY <1>0, SettleExposuresFacts
  <2> QED
    BY <2>1 DEF BookedBy
<1>2. ~Live(s, q)'
  BY <1>0 DEF Live
<1>3. \A x \in Table \ {s} : Live(x, q)' => SameStake(x, q)
  BY <1>0, <1>1 DEF Live, SameStake, SameAt
<1>4. CASE q \in us
  <2>1. Live(s, q) /\ f[q] >= -vault.book[s][q] /\ f[q] \in Int
    BY <1>4
  <2>2. vault.book[s][q] =< risk.max[s][q] /\ Covered(q, risk.day[s][q], risk.max[s][q])
    BY <2>1 DEF ExposedOf, StakeCovered
  <2>3. vault.book[s][q] \in Nat
    BY <1>0, VaultFacts DEF TypeOK, MoneyTyped
  <2>4. f[q] >= -risk.max[s][q]
    BY <1>0, <2>1, <2>2, <2>3
  <2>5. \A d \in Day : risk'.net[d][q]
                         = risk.net[d][q] + (IF d = risk.day[s][q] THEN f[q] ELSE 0)
    BY <1>1, <1>4
  <2>6. ~(solo'[q] > 0) /\ \A x \in Table : ~Live(x, q)'
    BY <1>2, <1>3, <2>1, OneStakeEach DEF SameStake
  <2> QED
    BY <1>0, <1>1, <2>1, <2>2, <2>4, <2>5, <2>6, ResultBooked
<1>5. CASE q \notin us
  <2>1. \A d \in Day : risk'.net[d][q] = risk.net[d][q]
    BY <1>0, <1>1, <1>5
  <2>2. SameGame(q)
    BY <1>1 DEF SameGame
  <2> QED
    BY <1>1, <1>2, <1>3, <2>1, <2>2, NothingBooked
<1> QED
  BY <1>4, <1>5

\* A stake that is taken is covered on the day it is taken.
LEMMA StakesTaken ==
  ASSUME TypeOK, TypeOK', RowsAgree, NEW q \in Player, ExposedOf(q),
         \/ \E s \in Roulette, u \in Player, t \in DOMAIN Odds, n \in Bets :
              AcceptRouletteBet(s, u, t, n)
         \/ \E s \in Pvp, us \in SUBSET Player, n \in Bets : CollectStakes(s, us, n)
  PROVE  ExposedOf(q)'
<1>0. /\ RiskTyped /\ Table \subseteq Session /\ Roulette \subseteq Table /\ Pvp \subseteq Table
      /\ phase \in [Table -> {"none", "open", "spinning", "stuck", "over"}]
      /\ \A s \in Session : vault.book[s][q] \in Nat /\ risk.max[s][q] \in Nat
      /\ \A n \in Bets : n \in Nat
      /\ \A s \in Table : phase[s] = "none" => vault.book[s][q] = 0
  BY SessionNames, RiskFacts, VaultFacts, Amounts, NoRowsNoStake
     DEF TypeOK, RiskTyped, MoneyTyped, TablesTyped, Table, RowsAgree, RowsAgreeAt
<1>1. ASSUME NEW s \in Roulette, NEW u \in Player, NEW t \in DOMAIN Odds, NEW n \in Bets,
             AcceptRouletteBet(s, u, t, n)
      PROVE  ExposedOf(q)'
  <2>1. /\ CanFund(RefundOne(vault, s, u), u, n) /\ s \in Session
        /\ vault' = Hold(RefundOne(vault, s, u), s, u, n)
        /\ MayExpose(s, u, n, "replace")
        /\ risk' = Expose(s, {u}, n, "replace")
        /\ UNCHANGED <<today, phase, solo>>
    BY <1>0, <1>1 DEF AcceptRouletteBet
  <2>2. /\ vault'.book[s][u] = n
        /\ \A p \in Player \ {u} : vault'.book[s][p] = vault.book[s][p]
        /\ \A x \in Session \ {s} : SameAt(vault, vault', x)
    BY <2>1, RebetEffect
  <2>3. ExposedBy(s, {u}, n, "replace", risk')
    <3>1. {u} \in SUBSET Player
      OBVIOUS
    <3> QED
      BY <1>0, <2>1, <3>1, ExposeFacts
  <2>4. /\ risk'.opening = risk.opening /\ risk'.net = risk.net /\ risk'.start = risk.start
        /\ \A x \in Session \ {s} : risk'.max[x] = risk.max[x] /\ risk'.day[x] = risk.day[x]
        /\ risk'.max[s][u] = n /\ risk'.day[s][u] = today
        /\ \A p \in Player \ {u} :
             risk'.max[s][p] = risk.max[s][p] /\ risk'.day[s][p] = risk.day[s][p]
    BY <2>3 DEF ExposedBy, NextMax
  <2>5. Prospective(u, n)
    BY <2>1 DEF MayExpose, NextMax
  <2>6. NewStake(s, u)
    BY <1>0, <2>2, <2>4, <2>5 DEF NewStake
  <2>7. ASSUME NEW x \in Table, x # s \/ q # u, Live(x, q)' PROVE SameStake(x, q)
    <3>1. vault'.book[x][q] = vault.book[x][q]
      BY <1>0, <2>2, <2>7 DEF SameAt
    <3>2. risk'.max[x][q] = risk.max[x][q] /\ risk'.day[x][q] = risk.day[x][q]
      BY <1>0, <2>4, <2>7
    <3> QED
      BY <2>1, <2>7, <3>1, <3>2 DEF Live, SameStake
  <2>8. SameGame(q)
    BY <2>1, <2>4 DEF SameGame
  <2> QED
    BY <2>1, <2>4, <2>6, <2>7, <2>8, NothingBooked
<1>2. ASSUME NEW s \in Pvp, NEW us \in SUBSET Player, NEW n \in Bets,
             CollectStakes(s, us, n)
      PROVE  ExposedOf(q)'
  <2>1. /\ s \in Session /\ s \in Table /\ n \in Nat
        /\ phase[s] \in {"none", "open"} /\ phase' = [phase EXCEPT ![s] = "open"]
        /\ \A u \in us : MayExpose(s, u, n, "add")
        /\ risk' = Expose(s, us, n, "add")
        /\ UNCHANGED <<today, solo>>
    BY <1>0, <1>2 DEF CollectStakes
  <2>2. /\ \A u \in us : vault'.book[s][u] = vault.book[s][u] + n
        /\ \A u \in Player \ us : vault'.book[s][u] = vault.book[s][u]
        /\ \A x \in Session \ {s} : SameAt(vault, vault', x)
    BY <1>2, CollectStakesEffect
  <2>3. ExposedBy(s, us, n, "add", risk')
    BY <1>0, <2>1, ExposeFacts
  <2>4. /\ risk'.opening = risk.opening /\ risk'.net = risk.net /\ risk'.start = risk.start
        /\ \A x \in Session \ {s} : risk'.max[x] = risk.max[x] /\ risk'.day[x] = risk.day[x]
        /\ \A u \in us : risk'.max[s][u] = risk.max[s][u] + n /\ risk'.day[s][u] = today
        /\ \A p \in Player \ us :
             risk'.max[s][p] = risk.max[s][p] /\ risk'.day[s][p] = risk.day[s][p]
    BY <2>3 DEF ExposedBy, NextMax
  <2>5. ASSUME q \in us PROVE NewStake(s, q)
    <3>1. Prospective(q, risk'.max[s][q])
      BY <2>1, <2>4, <2>5 DEF MayExpose, NextMax
    <3>2. vault.book[s][q] =< risk.max[s][q]
      <4>1. CASE Live(s, q)
        BY <2>1, <4>1 DEF ExposedOf, StakeCovered
      <4>2. CASE ~Live(s, q)
        <5>1. vault.book[s][q] = 0
          BY <1>0, <2>1, <4>2 DEF Live
        <5> QED
          BY <1>0, <2>1, <5>1
      <4> QED
        BY <4>1, <4>2
    <3>3. vault'.book[s][q] =< risk'.max[s][q]
      BY <1>0, <2>1, <2>2, <2>4, <2>5, <3>2
    <3> QED
      BY <2>4, <2>5, <3>1, <3>3 DEF NewStake
  <2>6. ASSUME NEW x \in Table, x # s \/ q \notin us, Live(x, q)' PROVE SameStake(x, q)
    <3>1. vault'.book[x][q] = vault.book[x][q]
      BY <1>0, <2>2, <2>6 DEF SameAt
    <3>2. risk'.max[x][q] = risk.max[x][q] /\ risk'.day[x][q] = risk.day[x][q]
      BY <1>0, <2>4, <2>6
    <3>3. Live(x, q)
      BY <1>0, <2>1, <2>6, <3>1 DEF Live
    <3> QED
      BY <3>1, <3>2, <3>3 DEF SameStake
  <2>7. SameGame(q)
    BY <2>1, <2>4 DEF SameGame
  <2> QED
    BY <2>1, <2>4, <2>5, <2>6, <2>7, NothingBooked
<1> QED
  BY <1>1, <1>2

LEMMA TableExposed ==
  ASSUME TypeOK, TypeOK', RowsAgree, BetsAgree, OneTableEach, NEW q \in Player,
         ExposedOf(q), TableStep
  PROVE  ExposedOf(q)'
<1>0. /\ Table \subseteq Session /\ Roulette \subseteq Table /\ Pvp \subseteq Table
      /\ phase \in [Table -> {"none", "open", "spinning", "stuck", "over"}]
      /\ bets \in [Roulette -> Wagers]
      /\ \A s \in Session, u \in Player : vault.book[s][u] \in Nat
      /\ \A s \in Table : phase[s] = "none" => vault.book[s][q] = 0
  BY SessionNames, VaultFacts, NoRowsNoStake
     DEF TypeOK, MoneyTyped, TablesTyped, Table, RowsAgree, RowsAgreeAt
<1>1. ASSUME NEW u \in Player,
             \/ \E n \in SoloBets : StartGame(u, n)
             \/ \E p \in Nat : FinishGame(u, p)
             \/ AbandonGame(u)
      PROVE  ExposedOf(q)'
  BY <1>1, SoloExposed
<1>2. ASSUME NEW u \in Player, RedeemFree(u) PROVE ExposedOf(q)'
  <2>1. vault' = RedeemAll(vault, u) /\ UNCHANGED <<risk, today, solo, phase>>
    BY <1>2 DEF RedeemFree, tableVars
  <2>2. vault'.book = vault.book
    BY <2>1, RedeemEffect
  <2> QED
    BY <2>1, <2>2, RiskStill DEF Live
<1>3. ASSUME NEW s \in Table, OpenTable(s) \/ CloseBetting(s) \/ GetStuck(s) \/ SweepStale(s)
      PROVE  ExposedOf(q)'
  <2>1. /\ UNCHANGED <<risk, today, solo, vault>>
        /\ \/ phase' = phase
           \/ phase[s] = "none" /\ phase' = [phase EXCEPT ![s] = "open"]
           \/ phase[s] = "open" /\ phase' = [phase EXCEPT ![s] = "spinning"]
           \/ phase' = [phase EXCEPT ![s] = "over"]
           \/ phase' = [phase EXCEPT ![s] = "stuck"]
    BY <1>3 DEF OpenTable, CloseBetting, GetStuck, SweepStale, moneyVars, tableVars
  <2>2. ASSUME NEW x \in Table, Live(x, q)' PROVE Live(x, q)
    BY <1>0, <2>1, <2>2 DEF Live
  <2> QED
    BY <2>1, <2>2, RiskStill
<1>4. ASSUME NEW s \in Roulette, NEW hit, SettleRoulette(s, hit) PROVE ExposedOf(q)'
  <2> DEFINE net == RouletteNet(s, hit)
  <2>1. /\ phase[s] = "spinning" /\ phase' = [phase EXCEPT ![s] = "over"]
        /\ risk' = SettleExposures(s, Bettors(s), net)
        /\ vault' = Spun(vault, s, hit)
        /\ UNCHANGED <<today, solo>> /\ s \in Table
    BY <1>0, <1>4 DEF SettleRoulette
  <2>2. \A x \in Session \ {s} : SameAt(vault, vault', x)
    BY <2>1, SpunEffect
  <2>3. \A u \in Player : vault.book[s][u] = bets[s][u].amount
    BY <2>1 DEF BetsAgree, BetsAgreeAt
  <2>4. net \in [Player -> Int] /\ \A u \in Player : net[u] >= -bets[s][u].amount
    BY NetFacts
  <2>5. Bettors(s) \in SUBSET Player
        /\ \A u \in Bettors(s) : Live(s, u) /\ net[u] >= -vault.book[s][u]
    BY <2>1, <2>3, <2>4 DEF Bettors, Live
  <2> HIDE DEF net
  <2> QED
    BY <2>1, <2>2, <2>4, <2>5, StakesSettled
<1>5. ASSUME NEW s \in Pvp, NEW w \in SUBSET Player, NEW u \in Player, SettlePvp(s, w, u)
      PROVE  ExposedOf(q)'
  <2> DEFINE pay == Shares(Staked(vault, s), w, u)
             f == [p \in Player |-> NetOf(vault, s, pay, p)]
  <2>1. /\ phase[s] = "open" /\ phase' = [phase EXCEPT ![s] = "over"]
        /\ risk' = SettleExposures(s, InPlay(s), f)
        /\ UNCHANGED <<today, solo>> /\ s \in Table
    BY <1>0, <1>5 DEF SettlePvp
  <2>2. PaidOut(vault, s, pay, vault')
    BY <1>5, SettlePvpEffect
  <2>3. f \in [Player -> Int] /\ \A p \in Player : f[p] >= -vault.book[s][p]
    <3> HIDE DEF pay
    <3> QED
      BY <2>2 DEF PaidOut
  <2> HIDE DEF f, pay
  <2>4. \A x \in Session \ {s} : SameAt(vault, vault', x)
    BY <2>2 DEF PaidOut
  <2>5. InPlay(s) \in SUBSET Player
        /\ \A p \in InPlay(s) : Live(s, p) /\ f[p] >= -vault.book[s][p]
    BY <2>1, <2>3 DEF InPlay, Live
  <2> QED
    BY <2>1, <2>3, <2>4, <2>5, StakesSettled
<1>6. ASSUME NEW s \in Table, CancelTable(s) PROVE ExposedOf(q)'
  <2>1. /\ vault' = Refund(vault, s) /\ s \in Session /\ risk' = ReleaseScope(s)
        /\ phase' = [phase EXCEPT ![s] = "over"] /\ UNCHANGED <<today, solo>>
    BY <1>0, <1>6 DEF CancelTable, VoidTable
  <2>2. \A x \in Session \ {s} : SameAt(vault, vault', x)
    BY <2>1, RefundEffect
  <2>3. /\ risk'.opening = risk.opening /\ risk'.net = risk.net /\ risk'.start = risk.start
        /\ \A x \in Session \ {s} : risk'.max[x] = risk.max[x] /\ risk'.day[x] = risk.day[x]
    BY <2>1, ReleaseScopeFacts DEF TypeOK
  <2>4. ASSUME NEW x \in Table, Live(x, q)' PROVE SameStake(x, q)
    BY <1>0, <2>1, <2>2, <2>3, <2>4 DEF Live, SameStake, SameAt
  <2>5. SameGame(q)
    BY <2>1, <2>3 DEF SameGame
  <2> QED
    BY <2>1, <2>3, <2>4, <2>5, NothingBooked
<1>7. ASSUME \/ \E s \in Roulette, u \in Player, t \in DOMAIN Odds, n \in Bets :
                  AcceptRouletteBet(s, u, t, n)
             \/ \E s \in Pvp, us \in SUBSET Player, n \in Bets : CollectStakes(s, us, n)
      PROVE  ExposedOf(q)'
  BY <1>7, StakesTaken
<1>8. \A u \in Player : 0 .. solo[u] * SoloOdds \subseteq Nat
  OBVIOUS
<1> QED
  BY <1>1, <1>2, <1>3, <1>4, <1>5, <1>6, <1>7, <1>8 DEF TableStep, Table

LEMMA ExposedStep ==
  ASSUME TypeOK, TypeOK', Idle, RowsAgree, BetsAgree, OneTableEach, Exposed, Next
  PROVE  Exposed'
<1>1. Sorted /\ NoDebtor(vault')
  BY NextSorted, DebtorStep DEF Exposed
<1>2. NoDebtor(vault)'
  BY <1>1 DEF NoDebtor
<1> SUFFICES ASSUME NEW q \in Player PROVE ExposedOf(q)'
  BY <1>2 DEF Exposed
<1>3. ExposedOf(q) /\ NoDebtor(vault)
  BY DEF Exposed
<1>4. CASE TableStep
  BY <1>3, <1>4, TableExposed
<1>5. CASE Midnight /\ Outside /\ UNCHANGED <<status, up, tableVars, board>>
  BY <1>3, <1>5, DayPassed DEF tableVars
<1>6. CASE Crash
  <2>1. /\ UNCHANGED <<vault, today>>
        /\ risk' = [risk EXCEPT !.start = [u \in Player |-> NoStart]]
        /\ \A s \in Table : phase'[s] \in {"none", "over"}
        /\ solo'[q] = 0
    BY <1>6 DEF Crash, TypeOK, TablesTyped
  <2>2. /\ risk'.opening = risk.opening /\ risk'.net = risk.net
    BY <2>1 DEF TypeOK, RiskTyped, Risks
  <2>3. \A s \in Table : ~Live(s, q)'
    BY <2>1 DEF Live
  <2> QED
    BY <1>3, <2>1, <2>2, <2>3, NothingBooked
<1>7. ASSUME ~TableStep, UNCHANGED <<risk, today, solo, phase>> PROVE ExposedOf(q)'
  <2>1. ASSUME NEW s \in Table, Live(s, q)'
        PROVE  Live(s, q) /\ vault'.book[s][q] = vault.book[s][q]
    BY <1>7, <2>1, RowsOnlyByTables DEF Live
  <2> QED
    BY <1>3, <1>7, <2>1, RiskStill
<1>8. UNCHANGED <<risk, today, solo, phase>> \/ TableStep \/ Crash
        \/ (Midnight /\ Outside /\ UNCHANGED <<status, up, tableVars, board>>)
  <2> DEFINE Goal == UNCHANGED <<risk, today, solo, phase>>
  <2>1. ASSUME NEW b \in Board, NEW r, NEW lead, BoardEnds(b, r, lead) PROVE Goal
    BY <2>1 DEF BoardEnds, SettleBoard, BoardUnchanged, tableVars
  <2>2. ASSUME NEW b \in Board, NEW mode, Create(b, mode) PROVE Goal
    BY <2>2 DEF Create, BoardUnchanged, tableVars
  <2>3. ASSUME NEW b \in Board, NEW u, NEW o, NEW n, Bet(b, u, o, n) PROVE Goal
    BY <2>3 DEF Bet, BoardUnchanged, tableVars
  <2>4. ASSUME NEW b \in Board, NEW r, Noted(b, r) \/ AdminVoid(b) PROVE Goal
    BY <2>4 DEF Noted, OnlyBoard, AdminVoid, BoardUnchanged, tableVars
  <2>5. ASSUME NEW s, NEW u, RemoveRow(s, u) PROVE Goal
    BY <2>5 DEF RemoveRow, tableVars
  <2>6. ASSUME NEW x, RecoverSession(x) \/ RedeemAtStart(x) \/ ReleaseReservations
        PROVE  Goal
    BY <2>6 DEF RecoverSession, RedeemAtStart, ReleaseReservations, KeptByRecovery, tableVars
  <2>7. ASSUME NEW n, SettleHouseNow(n) PROVE Goal
    BY <2>7 DEF SettleHouseNow, SettleHouse, tableVars
  <2>8. Quiet => Goal
    BY QuietFacts DEF tableVars
  <2> HIDE DEF Goal
  <2>9. Goal \/ TableStep \/ Crash
          \/ (Midnight /\ Outside /\ UNCHANGED <<status, up, tableVars, board>>)
    BY <1>1, <2>1, <2>2, <2>3, <2>4, <2>5, <2>6, <2>7, <2>8 DEF Sorted
  <2> QED
    BY <2>9 DEF Goal
<1> QED
  BY <1>4, <1>5, <1>6, <1>7, <1>8

LEMMA ExposedStart ==
  ASSUME NEW n \in Nat, CasinoInit(n), TypeOK
  PROVE  Exposed
<1>1. /\ vault.land = Wallet /\ vault.chips = [h \in Holder |-> IF h = House THEN n ELSE 0]
      /\ today = 1 /\ solo = [u \in Player |-> 0] /\ phase = [s \in Table |-> "none"]
      /\ risk.opening = [d \in Day |-> Wallet]
      /\ risk.net = [d \in Day |-> [u \in Player |-> 0]]
  BY DEF CasinoInit, TablesInit, ChipsInit, DailyRiskInit, Table
<1>2. NoDebtor(vault)
  BY <1>1, Names, ChipsAssumption DEF NoDebtor
<1>3. ASSUME NEW u \in Player PROVE ExposedOf(u)
  <2>1. Wallet[u] \in Nat
    BY ChipsAssumption
  <2>2. ASSUME NEW d \in Day PROVE DayCovered(u, d)
    <3>1. risk.opening[d][u] = Wallet[u] /\ risk.net[d][u] = 0
      BY <1>1
    <3>2. Cap(u, d) \in Nat
      BY <2>1, <3>1, CapFacts DEF Cap
    <3> QED
      BY <2>1, <3>1, <3>2 DEF DayCovered
  <2>3. \A s \in Table : StakeCovered(s, u)
    BY <1>1 DEF StakeCovered, Live
  <2>4. GameCovered(u)
    BY <1>1 DEF GameCovered
  <2> QED
    BY <2>2, <2>3, <2>4 DEF ExposedOf
<1> QED
  BY <1>2, <1>3 DEF Exposed

\* Nobody loses more than the limit of the day on which his bets were accepted,
\* although games end after midnight, stakes are raised, games run beside each
\* other, and tables are voided or lost in a crash.
THEOREM CasinoLossWithinTheDay == Spec => []LossWithinTheDay
<1>1. (\E n \in Nat : CasinoInit(n)) => TypeOK /\ TablesInv /\ Exposed
  BY TypeInit, TablesInvInit, ExposedStart
<1>2. TypeOK /\ TablesInv /\ Exposed /\ [Next]_vars => TypeOK' /\ TablesInv' /\ Exposed'
  <2>1. ASSUME Exposed, UNCHANGED vars PROVE Exposed'
    BY <2>1 DEF vars, Exposed, NoDebtor, ExposedOf, DayCovered, StakeCovered, GameCovered,
                Live, Covered, Cap
  <2>2. TypeOK /\ TablesInv /\ [Next]_vars => TypeOK' /\ TablesInv'
    BY TypeStep, TablesInvStep
  <2>3. TablesInv => Idle /\ RowsAgree /\ BetsAgree /\ OneTableEach
    BY DEF TablesInv
  <2> QED
    BY <2>1, <2>2, <2>3, ExposedStep
<1>3. TypeOK /\ Exposed => LossWithinTheDay
  <2>1. TypeOK => 1 .. today \subseteq Day
    BY DailyRiskAssumption DEF TypeOK, RiskTyped, Day
  <2>2. Exposed => \A u \in Player, d \in Day : risk.net[d][u] >= -Cap(u, d)
    BY DEF Exposed, ExposedOf, DayCovered
  <2> QED
    BY <2>1, <2>2 DEF LossWithinTheDay
<1> QED
  BY <1>1, <1>2, <1>3, PTL DEF Spec

-----------------------------------------------------------------------------
(* The start-up recovery.                                                  *)

\* What the recovery has done with session s, and with player u.
Swept(s) ==
  /\ s \in Tables => ~HasRows(vault, s) \/ rec.mismatch \/ rec.refundFailed
  /\ s \in Board => s \in LiveHolders \/ vault.chips[s] = 0

Redeemed(u) == vault.chips[u] =< 0 \/ rec.redeemFailed

RecoveryInv ==
  /\ rec.stage = "sweep" => \A s \in Session \ rec.todo : Swept(s)
  /\ rec.stage = "redeem" => /\ \A s \in Session : Swept(s)
                             /\ \A u \in Player \ rec.todo : Redeemed(u)
                             /\ reserved = NothingReserved

\* Without the process nothing happens to a board but that its deadline passes.
LEMMA MarketNeedsService ==
  ASSUME MarketStep
  PROVE  Serving \/ \E b \in Board : Deadline(b)
<1>1. ASSUME NEW b, NEW u, NEW o, NEW n,
             \/ Create(b, o) \/ Freeze(b) \/ Close(b) \/ AdminVoid(b) \/ Bet(b, u, o, n)
             \/ Report(b, o) \/ Dispute(b, u) \/ Approve(b, u, o)
             \/ FinalizeIfNoDispute(b, u) \/ AdminResolve(b, o, u)
      PROVE  Serving
  BY <1>1 DEF Create, Freeze, Close, AdminVoid, Bet, Report, Dispute, Approve,
              FinalizeIfNoDispute, AdminResolve
<1> QED
  BY <1>1 DEF MarketStep

\* The recovery and the books stay as they are.
LEMMA RecoveryStays ==
  ASSUME RecoveryInv, UNCHANGED <<rec, vault, reserved>>, LiveHolders' = LiveHolders
  PROVE  RecoveryInv'
<1>1. ASSUME NEW s, Swept(s) PROVE Swept(s)'
  BY <1>1 DEF Swept, HasRows
<1>2. ASSUME NEW u, Redeemed(u) PROVE Redeemed(u)'
  BY <1>2 DEF Redeemed
<1> QED
  BY <1>1, <1>2 DEF RecoveryInv

LEMMA RecoverySteps ==
  ASSUME TypeOK, RecoveryInv, RecoveryStep, Idle
  PROVE  RecoveryInv'
<1>0. /\ vault \in Vaults /\ rec \in RecoveryRows /\ Board \subseteq Session
      /\ \A s \in Session, p \in Player : s # p
      /\ \A s \in Session : s \in Holder \ Player
      /\ Player \subseteq Holder
      /\ \A h \in Holder : vault.chips[h] \in Int
  BY SessionNames, Names, VaultFacts DEF TypeOK, MoneyTyped, RecoveryTyped
<1>1. ASSUME rec'.stage = "off" PROVE RecoveryInv'
  BY <1>1 DEF RecoveryInv
<1>2. CASE Crash \/ RecoveryThrows \/ FinishRecovery
  BY <1>1, <1>2 DEF Crash, RecoveryThrows, FinishRecovery, NoRecovery
<1>3. CASE BeginRecovery
  BY <1>3 DEF BeginRecovery, NoRecovery, RecoveryInv
<1>4. CASE Boot \/ Rerecover
  BY <1>1, <1>3, <1>4 DEF Boot, Rerecover
<1>5. ASSUME NEW u \in Player, Moderate(u) \/ \E s \in Session : RemoveRow(s, u)
      PROVE  RecoveryInv'
  BY <1>1, <1>5 DEF RemoveRow, Moderate, Idle
<1>6. CASE ReleaseReservations
  <2>1. /\ rec.stage = "sweep" /\ rec.todo = {} /\ reserved' = NothingReserved
        /\ rec'.stage = "redeem" /\ rec'.todo = Player
        /\ rec'.mismatch = rec.mismatch /\ rec'.refundFailed = rec.refundFailed
        /\ UNCHANGED <<vault, board>>
    BY <1>0, <1>6 DEF ReleaseReservations, KeptByRecovery, RecoveryRows
  <2>2. ASSUME NEW s \in Session PROVE Swept(s)'
    <3>1. Swept(s)
      BY <2>1 DEF RecoveryInv
    <3> QED
      BY <2>1, <3>1 DEF Swept, HasRows, LiveHolders
  <2> QED
    BY <2>1, <2>2 DEF RecoveryInv
<1>7. ASSUME NEW s \in Session, RecoverSession(s) PROVE RecoveryInv'
  <2>1. /\ rec.stage = "sweep" /\ vault' = Sweep(s) /\ board' = board
        /\ rec'.stage = "sweep" /\ rec'.todo = rec.todo \ {s}
        /\ rec'.mismatch = (rec.mismatch \/ (s \in Tables /\ HasRows(vault, s)
                                               /\ ~Matches(vault, s)))
        /\ rec'.refundFailed = rec.refundFailed
    BY <1>0, <1>7 DEF RecoverSession, KeptByRecovery, RecoveryRows
  <2>2. LiveHolders' = LiveHolders
    BY <2>1 DEF LiveHolders
  <2>3. /\ s \in LiveHolders => vault' = vault
        /\ s \in Tables => \/ ~HasRows(vault', s)
                           \/ HasRows(vault, s) /\ ~Matches(vault, s)
        /\ s \in Board \ LiveHolders => vault'.chips[s] = 0
        /\ \A x \in Session \ {s} : SameAt(vault, vault', x)
    BY <2>1, SweepEffect
  <2>4. Swept(s)'
    <3>1. s \in Tables => ~HasRows(vault', s) \/ rec'.mismatch
      BY <2>1, <2>3
    <3>2. s \in Board => s \in LiveHolders' \/ vault'.chips[s] = 0
      BY <2>2, <2>3
    <3> QED
      BY <3>1, <3>2 DEF Swept, HasRows
  <2>5. ASSUME NEW x \in Session \ rec.todo, x # s PROVE Swept(x)'
    <3>1. Swept(x) /\ SameAt(vault, vault', x)
      BY <2>1, <2>3, <2>5 DEF RecoveryInv
    <3>2. (HasRows(vault', x) <=> HasRows(vault, x)) /\ vault'.chips[x] = vault.chips[x]
      BY <3>1, SameAtFacts
    <3>3. x \in Tables => ~HasRows(vault', x) \/ rec'.mismatch \/ rec'.refundFailed
      BY <2>1, <3>1, <3>2 DEF Swept
    <3>4. x \in Board => x \in LiveHolders' \/ vault'.chips[x] = 0
      BY <2>2, <3>1, <3>2 DEF Swept
    <3> QED
      BY <3>3, <3>4 DEF Swept, HasRows
  <2> QED
    BY <2>1, <2>4, <2>5 DEF RecoveryInv
<1>8. ASSUME NEW s \in Session, RefundFails(s) PROVE RecoveryInv'
  <2>1. /\ rec.stage = "sweep" /\ UNCHANGED <<vault, board>> /\ s \in Tables
        /\ rec'.stage = "sweep" /\ rec'.todo = rec.todo \ {s}
        /\ rec'.mismatch = rec.mismatch /\ rec'.refundFailed = TRUE
    BY <1>0, <1>8 DEF RefundFails, KeptByRecovery, RecoveryRows
  <2>2. ASSUME NEW x \in Session \ rec'.todo PROVE Swept(x)'
    <3>1. x = s \/ Swept(x)
      BY <2>1 DEF RecoveryInv
    <3>2. x \in Board => x \in LiveHolders' \/ vault'.chips[x] = 0
      BY <2>1, <3>1 DEF Swept, LiveHolders, Tables
    <3> QED
      BY <2>1, <3>2 DEF Swept
  <2> QED
    BY <2>1, <2>2 DEF RecoveryInv
<1>9. ASSUME NEW u \in Player, RedeemAtStart(u) PROVE RecoveryInv'
  <2>1. /\ rec.stage = "redeem" /\ UNCHANGED <<board, reserved>>
        /\ vault' = IF u \in frozen THEN vault ELSE RedeemAll(vault, u)
        /\ rec'.stage = "redeem" /\ rec'.todo = rec.todo \ {u}
        /\ rec'.mismatch = rec.mismatch /\ rec'.refundFailed = rec.refundFailed
        /\ rec.redeemFailed \/ (u \in frozen /\ vault.chips[u] > 0) => rec'.redeemFailed
    BY <1>0, <1>9 DEF RedeemAtStart, KeptByRecovery, RecoveryRows
  <2>2. \/ u \in frozen /\ vault' = vault
        \/ /\ vault'.book = vault.book /\ vault'.chips[u] = 0
           /\ \A h \in Holder \ {u} : vault'.chips[h] = vault.chips[h]
    BY <2>1, RedeemEffect
  <2>3. ASSUME NEW s \in Session PROVE Swept(s)'
    <3>1. Swept(s)
      BY <2>1 DEF RecoveryInv
    <3>2. vault'.book = vault.book /\ vault'.chips[s] = vault.chips[s]
      BY <1>0, <2>2
    <3> QED
      BY <2>1, <3>1, <3>2 DEF Swept, HasRows, LiveHolders
  <2>4. ASSUME NEW p \in Player \ rec'.todo PROVE Redeemed(p)'
    <3>1. CASE p = u
      <4>1. CASE vault.chips[u] > 0
        BY <2>1, <2>2, <3>1, <4>1 DEF Redeemed
      <4>2. CASE ~(vault.chips[u] > 0)
        BY <1>0, <2>2, <3>1, <4>2 DEF Redeemed
      <4> QED
        BY <4>1, <4>2
    <3>2. CASE p # u
      <4>1. Redeemed(p)
        BY <2>1, <3>2 DEF RecoveryInv
      <4>2. vault'.chips[p] = vault.chips[p]
        BY <1>0, <2>2, <3>2
      <4> QED
        BY <2>1, <4>1, <4>2 DEF Redeemed
    <3> QED
      BY <3>1, <3>2
  <2>5. reserved' = NothingReserved
    BY <2>1 DEF RecoveryInv
  <2> QED
    BY <2>1, <2>3, <2>4, <2>5 DEF RecoveryInv
<1> QED
  BY <1>2, <1>4, <1>5, <1>6, <1>7, <1>8, <1>9 DEF RecoveryStep

LEMMA RecoveryInvStep ==
  ASSUME TypeOK, Idle, RecoveryInv, Next
  PROVE  RecoveryInv'
<1>1. ASSUME rec' = rec, up PROVE RecoveryInv'
  BY <1>1 DEF RecoveryInv, Idle
<1>2. CASE TableStep /\ Outside /\ UNCHANGED board
  BY <1>1, <1>2, TablesNeedService DEF Outside
<1>3. CASE Midnight /\ Outside /\ UNCHANGED <<status, up, tableVars, board>>
  BY <1>3, RecoveryStays DEF Midnight, Outside, LiveHolders
<1>4. ASSUME NEW b \in Board, Deadline(b), Outside PROVE RecoveryInv'
  <2>1. /\ board \in [Board -> BoardRows] /\ board[b].status = "open"
        /\ board' = [board EXCEPT ![b] = [board[b] EXCEPT !.late = TRUE]]
        /\ UNCHANGED <<vault, rec, reserved>>
    BY <1>4 DEF Deadline, OnlyBoard, BoardUnchanged, Outside, TypeOK, RecoveryTyped
  <2>2. \A x \in Board : board'[x].status = board[x].status
    BY <2>1 DEF BoardRows
  <2> QED
    BY <2>1, <2>2, RecoveryStays DEF LiveHolders
<1>5. CASE MarketStep /\ Outside
  BY <1>1, <1>4, <1>5, MarketNeedsService DEF Outside, Serving
<1>6. CASE RecoveryStep
  BY <1>6, RecoverySteps
<1>7. CASE PanelStep
  BY <1>1, <1>7 DEF PanelStep, Halt, Recheck, Reopen, SetStatus, SettleHouseNow, SettleHouse,
                    Serving
<1> QED
  BY <1>2, <1>3, <1>5, <1>6, <1>7 DEF Next

\* Only a recovery that has come to its end opens the casino by itself.
LEMMA OpenedByRecovery ==
  ASSUME Next, status = "startup_check", status' = "open"
  PROVE  FinishRecovery
<1>1. ~(TableStep /\ Outside /\ UNCHANGED board)
  BY TableStatus
<1>2. ~(Midnight /\ Outside /\ UNCHANGED <<status, up, tableVars, board>>)
  OBVIOUS
<1>3. ASSUME MarketStep PROVE FALSE
  <2>1. Serving \/ \E b \in Board : Deadline(b)
    BY <1>3, MarketNeedsService
  <2>2. ~Serving
    BY DEF Serving
  <2>3. ASSUME NEW b \in Board, Deadline(b) PROVE status' = status
    BY <2>3 DEF Deadline, OnlyBoard, BoardUnchanged
  <2> QED
    BY <2>1, <2>2, <2>3
<1>4. ASSUME RecoveryStep PROVE FinishRecovery
  <2>1. ASSUME NEW s, NEW u,
               \/ Crash \/ RemoveRow(s, u) \/ Moderate(u) \/ RedeemAtStart(u)
               \/ RecoverSession(s) \/ RefundFails(s) \/ ReleaseReservations
        PROVE  status' = status
    BY <2>1 DEF Crash, RemoveRow, Moderate, RedeemAtStart, RecoverSession, RefundFails,
                ReleaseReservations
  <2>2. ASSUME Boot \/ Rerecover \/ RecoveryThrows PROVE FALSE
    BY <2>2 DEF Boot, Rerecover, RecoveryThrows, BeginRecovery, HumanHeld
  <2> QED
    BY <1>4, <2>1, <2>2 DEF RecoveryStep
<1>5. ASSUME PanelStep PROVE FALSE
  <2>1. ASSUME NEW n, SettleHouseNow(n) PROVE FALSE
    BY <2>1 DEF SettleHouseNow, SettleHouse, Serving
  <2> QED
    BY <1>5, <2>1 DEF PanelStep, Halt, Recheck, Reopen, SetStatus
<1> QED
  BY <1>1, <1>2, <1>3, <1>4, <1>5 DEF Next

LEMMA OpensClean ==
  ASSUME TypeOK, RecoveryInv, FinishRecovery, status' = "open"
  PROVE  CleanSlate'
<1>0. /\ vault \in Vaults /\ Player \subseteq Holder /\ Session \subseteq Holder
      /\ \A h \in Holder : vault.chips[h] \in Int
  BY SessionNames, Names, VaultFacts DEF TypeOK, MoneyTyped
<1>1. /\ rec.stage = "redeem" /\ rec.todo = {} /\ Verdict = "open"
      /\ UNCHANGED <<vault, reserved, board>>
  BY DEF FinishRecovery, KeptByRecovery
<1>2. FullCheck /\ ~rec.mismatch /\ ~rec.redeemFailed /\ ~rec.refundFailed
  BY <1>1 DEF Verdict
<1>3. /\ \A s \in Session : Swept(s)
      /\ \A u \in Player : Redeemed(u)
      /\ reserved = NothingReserved
  BY <1>1 DEF RecoveryInv
<1>4. \A s \in Tables : ~HasRows(vault, s)
  BY <1>2, <1>3 DEF Swept, Tables
<1>5. ASSUME NEW s \in Session, vault.chips[s] > 0 PROVE s \in LiveHolders
  <2>1. CASE s \in Board
    BY <1>3, <1>5, <2>1 DEF Swept
  <2>2. CASE s \in Tables
    <3>1. Staked(vault, s) = 0
      BY <1>0, <1>4, <2>2, NoRowsNoStake
    <3>2. Matches(vault, s)
      BY <1>2 DEF FullCheck, CheckC
    <3> QED
      BY <1>5, <3>1, <3>2 DEF Matches
  <2> QED
    BY <2>1, <2>2 DEF Tables
<1>6. ASSUME NEW u \in Player PROVE vault.chips[u] = 0
  <2>1. vault.chips[u] =< 0
    BY <1>2, <1>3 DEF Redeemed
  <2>2. vault.chips[u] >= 0
    BY <1>0, <1>2 DEF FullCheck, Precheck, CheckA
  <2> QED
    BY <1>0, <2>1, <2>2
<1>7. CleanSlate
  BY <1>2, <1>3, <1>4, <1>5, <1>6 DEF CleanSlate
<1> QED
  BY <1>1, <1>7 DEF CleanSlate, LiveHolders, HasRows, FullCheck, Precheck, CheckA, CheckB,
                    CheckC, Matches, Staked, Outstanding

\* When the recovery opens the casino by itself, wherever it was interrupted and
\* begun again before, no stake of a dead table is left, every holder with chips
\* belongs to a living board, nothing is reserved, no player holds free chips
\* and all the books agree.
THEOREM CasinoAutoOpeningIsClean == Spec => AutoOpeningIsClean
<1>1. (\E n \in Nat : CasinoInit(n)) => TypeOK /\ TablesInv /\ RecoveryInv
  <2>1. ASSUME NEW n \in Nat, CasinoInit(n) PROVE RecoveryInv
    BY <2>1 DEF CasinoInit, NoRecovery, RecoveryInv
  <2> QED
    BY <2>1, TypeInit, TablesInvInit
<1>2. TypeOK /\ TablesInv /\ RecoveryInv /\ [Next]_vars
        => TypeOK' /\ TablesInv' /\ RecoveryInv'
  <2>1. ASSUME RecoveryInv, UNCHANGED vars PROVE RecoveryInv'
    BY <2>1, RecoveryStays DEF vars, LiveHolders
  <2>2. TypeOK /\ TablesInv /\ [Next]_vars => TypeOK' /\ TablesInv'
    BY TypeStep, TablesInvStep
  <2>3. TablesInv => Idle
    BY DEF TablesInv
  <2> QED
    BY <2>1, <2>2, <2>3, RecoveryInvStep
<1>3. TypeOK /\ RecoveryInv /\ [Next]_vars
        => [status = "startup_check" /\ status' = "open" => CleanSlate']_vars
  BY OpenedByRecovery, OpensClean
<1> QED
  BY <1>1, <1>2, <1>3, PTL DEF Spec, AutoOpeningIsClean

=============================================================================
