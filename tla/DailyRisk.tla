------------------------------ MODULE DailyRisk ------------------------------
(***************************************************************************)
(* The daily loss limit, packages/core/src/casino/daily-risk.ts: a cap per *)
(* player and day taken from what the player owned when the day began, the *)
(* worst case of the running table or solo game checked against it before  *)
(* any money moves, and the real result booked on the day of acceptance.   *)
(*                                                                         *)
(* Operation keys and their replays are left out: a replay returns the     *)
(* stored answer and changes nothing.                                      *)
(***************************************************************************)
EXTENDS Chips

CONSTANTS
  LimitBps,     \* daily limit in basis points of the opening holdings
  LastDay       \* bound: days of the model

ASSUME DailyRiskAssumption ==
  /\ LimitBps \in 0 .. 10000
  /\ LastDay \in Nat \ {0}

VARIABLES
  today,
  risk    \* [opening, net: day and player |-> amount;
          \*  max, day: table and player |-> exposure; start: player |-> game]

Day == 1 .. LastDay

NoStart == [day |-> 1, max |-> 0]

Cap(u, d) == (risk.opening[d][u] * LimitBps) \div 10000

CoversTwice(u, n, previous) == n =< (Holdings(vault, u) + previous) \div 2

Prospective(u, n) == risk.net[today][u] - n >= -Cap(u, today)

\* authorizeExposure with "replace" or "add": the answer and the new row.
NextMax(s, u, n, mode) == IF mode = "add" THEN risk.max[s][u] + n ELSE n

MayExpose(s, u, n, mode) ==
  /\ risk.max[s][u] > 0 => risk.day[s][u] = today
  /\ CoversTwice(u, NextMax(s, u, n, mode), risk.max[s][u])
  /\ Prospective(u, NextMax(s, u, n, mode))

Expose(s, us, n, mode) ==
  [risk EXCEPT
     !.max[s] = [u \in Player |->
                   IF u \in us THEN NextMax(s, u, n, mode) ELSE @[u]],
     !.day[s] = [u \in Player |-> IF u \in us THEN today ELSE @[u]]]

\* Results of the players in us, given by f, on the day of acceptance.
SettleExposuresToday(s, us, f) ==      \* mutant: booked on the day of the end
  [risk EXCEPT
     !.net[today] = [u \in Player |-> IF u \in us THEN @[u] + f[u] ELSE @[u]],
     !.max[s] = [u \in Player |-> IF u \in us THEN 0 ELSE @[u]],
     !.day[s] = [u \in Player |-> IF u \in us THEN 1 ELSE @[u]]]

SettleExposures(s, us, f) ==
  [risk EXCEPT
     !.net = [d \in Day |->
                [u \in Player |->
                   @[d][u] + IF u \in us /\ risk.day[s][u] = d
                             THEN f[u] ELSE 0]],
     !.max[s] = [u \in Player |-> IF u \in us THEN 0 ELSE @[u]],
     !.day[s] = [u \in Player |-> IF u \in us THEN 1 ELSE @[u]]]

ReleaseScope(s) ==
  [risk EXCEPT !.max[s] = [u \in Player |-> 0],
               !.day[s] = [u \in Player |-> 1]]

StartSolo(u, n) == [risk EXCEPT !.start[u] = [day |-> today, max |-> n]]

\* The start row stays in the table; the model forgets it once it is settled.
SettleSolo(u, n) ==
  [risk EXCEPT !.net[risk.start[u].day][u] = @ + n, !.start[u] = NoStart]

DailyRiskInit ==
  /\ today = 1
  /\ risk = [opening |-> [d \in Day |-> Wallet],
             net     |-> [d \in Day |-> [u \in Player |-> 0]],
             max     |-> [s \in Session |-> [u \in Player |-> 0]],
             day     |-> [s \in Session |-> [u \in Player |-> 1]],
             start   |-> [u \in Player |-> NoStart]]

\* 05:00 or midnight passes.  The code rebuilds the opening holdings later
\* from the history of both ledgers; the value is the one at the boundary.
Midnight ==
  /\ today + 1 \in Day
  /\ today' = today + 1
  /\ risk' = [risk EXCEPT
                !.opening[today + 1] = [u \in Player |-> Holdings(vault, u)]]
  /\ UNCHANGED <<vault, reserved, frozen, stats>>

=============================================================================
