------------------------------ MODULE MCHouse ------------------------------
(***************************************************************************)
(* The parts of the casino that share nothing with its tables but the      *)
(* house: the formal opening, and the games against the house.  A          *)
(* behaviour follows one of them, the others stay at their beginning.      *)
(***************************************************************************)
EXTENDS CasinoOpening, SoloGames

CONSTANTS
  Parts,   \* the parts explored
  calm, payday, ann, bob, first, second, nothing

VARIABLE part

houseVars == <<openingVars, soloVars, part>>

\* Every game, and two of them too large to be played at once.
MCOffers == {<<"slots", 1000>>, <<"poker", 1000>>, <<"holdem", 5000>>,
             <<"blackjack", 2000>>, <<"chinchiro", 5000>>,
             <<"chohan", 30000>>, <<"crash", 1000>>}

\* The jackpot, the free spin, nothing, a wild triple, a pair.
MCReels == {<<"mammon", "mammon", "mammon">>, <<"soul", "soul", "soul">>,
            <<"bat", "ghost", "fire">>, <<"moon", "crown", "moon">>,
            <<"bat", "bat", "ghost">>}

MCThrows == {[type |-> "pinzoro", value |-> 0], [type |-> "me", value |-> 3],
             [type |-> "hifumi", value |-> 0]}

MCWallets == [u \in Gambler |-> 40000]

\* One gambler's next win is the fifth in a row.
MCStreaks == [u \in Gambler |-> IF u = ann THEN 4 ELSE 0]

\* The plans and the operators are alike, so one of each may come first.
HouseInit ==
  /\ OpeningInit /\ world = calm /\ operator = ann
  /\ SoloInit
  /\ part \in Parts

HouseNext ==
  /\ UNCHANGED part
  /\ \/ part = "opening" /\ OpeningNext /\ UNCHANGED soloVars
     \/ part = "games" /\ SoloNext /\ UNCHANGED openingVars

HouseSpec == HouseInit /\ [][HouseNext]_houseVars
=============================================================================
