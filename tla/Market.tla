------------------------------- MODULE Market -------------------------------
(***************************************************************************)
(* The betting boards, packages/core/src/casino/market.ts: players bet on  *)
(* the options of a board, its creator reports the result, the bettors     *)
(* approve or dispute it, an administrator rules, the scheduler closes and *)
(* settles.  The stakes lie in the escrow holder of the board; the book of *)
(* a board is its own table (casino_market_bets) and survives a restart,   *)
(* so the start-up recovery must leave the holder of a live board alone.   *)
(***************************************************************************)
EXTENDS CasinoTables

CONSTANTS
  Board,       \* boards
  Creator,     \* board |-> the player who opens it
  Option,      \* options of a board
  BoardFee     \* opening fee, paid to the jackpot

ASSUME MarketAssumption ==
  /\ Board \subseteq Session
  /\ Board \intersect (Roulette \union Pvp) = {}
  /\ Creator \in [Board -> Player]
  /\ BoardFee \in Nat

VARIABLES
  board    \* board |-> [status, mode, late, pick, result, approved]

LiveStatuses == {"open", "closed", "reported", "disputed", "frozen"}

NoPick == "none"

Modes == {"parimutuel", "winner_take_all"}

NewBoard == [status |-> "none", mode |-> "parimutuel", late |-> FALSE,
             result |-> NoPick, pick |-> [u \in Player |-> NoPick],
             approved |-> {}]

BoardBettors(b) == {u \in Player : vault.book[b][u] > 0}

Pot(b) == Staked(vault, b)

Winners(b, o) == {u \in BoardBettors(b) : board[b].pick[u] = o}

BoardUnchanged == UNCHANGED <<reserved, frozen, today, risk, status, up,
                              tableVars>>

OnlyBoard(b, r) ==
  /\ board' = [board EXCEPT ![b] = r]
  /\ UNCHANGED <<vault, stats>>
  /\ BoardUnchanged

-----------------------------------------------------------------------------
Create(b, mode) ==
  LET u == Creator[b]
  IN /\ Serving
     /\ board[b].status = "none"
     /\ CanFund(vault, u, BoardFee)
     /\ vault' = Transfer(Fund(vault, u, BoardFee), u, Jackpot, BoardFee)
     /\ board' = [board EXCEPT ![b].status = "open", ![b].mode = mode]
     /\ UNCHANGED stats
     /\ BoardUnchanged

\* The deadline passes.  No bet is taken after it, tick or no tick.
Deadline(b) ==
  /\ board[b].status = "open" /\ ~board[b].late
  /\ OnlyBoard(b, [board[b] EXCEPT !.late = TRUE])

\* One stake for each player; a second bet replaces the first.
Bet(b, u, o, n) ==
  LET back == RefundOne(vault, b, u)
  IN /\ Serving
     /\ board[b].status = "open" /\ ~board[b].late
     /\ Pot(b) > 0 => Matches(vault, b)
     /\ CanFund(back, u, n)
     /\ vault' = Hold(back, b, u, n)
     /\ board' = [board EXCEPT ![b].pick[u] = o]
     /\ UNCHANGED stats
     /\ BoardUnchanged

\* The guard of the next bet finds that the holder and the bets differ.
Freeze(b) ==
  /\ Serving
  /\ board[b].status = "open" /\ ~board[b].late
  /\ Pot(b) > 0 /\ ~Matches(vault, b)
  /\ OnlyBoard(b, [board[b] EXCEPT !.status = "frozen"])

\* By hand at any time, by the tick of the scheduler once it is late.
Close(b) ==
  /\ Serving
  /\ board[b].status = "open"
  /\ OnlyBoard(b, [board[b] EXCEPT !.status = "closed"])

AutoClose(b) == board[b].late /\ Close(b)

Report(b, o) ==
  /\ Serving
  /\ board[b].status = "closed"
  /\ OnlyBoard(b, [board[b] EXCEPT !.status = "reported", !.result = o])

Dispute(b, u) ==
  /\ Serving
  /\ board[b].status = "reported"
  /\ u \in BoardBettors(b)
  /\ OnlyBoard(b, [board[b] EXCEPT !.status = "disputed",
                                   !.approved = @ \ {u}])

-----------------------------------------------------------------------------
(* Settling.  lead is the winner whose row decides who takes what does not *)
(* divide: the last one of a parimutuel board, the first one otherwise.    *)

Portion(b, o, u, dist) ==
  IF board[b].mode = "parimutuel"
  THEN (dist * vault.book[b][u])
         \div SumFunctionOnSet(vault.book[b], Winners(b, o))
  ELSE dist \div Cardinality(Winners(b, o))

BoardPay(b, o, lead) ==
  LET cut  == (Pot(b) * CutBps) \div 10000
      dist == Pot(b) - cut
      rest == dist - SumFunction([u \in Winners(b, o) \ {lead} |->
                                    Portion(b, o, u, dist)])
  IN [h \in Winners(b, o) \union {Jackpot} |->
        CASE h = Jackpot -> cut
          [] h = lead    -> rest
          [] OTHER       -> Portion(b, o, h, dist)]

\* With the fields of r, board b ends: winners are paid, or everyone is
\* refunded when nobody picked the result.
SettleBoard(b, r, lead) ==
  LET pay == BoardPay(b, r.result, lead)
  IN /\ Matches(vault, b)
     /\ IF Winners(b, r.result) = {}
        THEN /\ vault' = Refund(vault, b)
             /\ board' = [board EXCEPT ![b] = [r EXCEPT !.status = "void"]]
             /\ UNCHANGED stats
        ELSE /\ lead \in Winners(b, r.result)
             /\ vault' = Settle(vault, b, pay)
             /\ stats' = StatsAfter(vault, b, pay)
             /\ board' = [board EXCEPT ![b] = [r EXCEPT !.status = "settled"]]
     /\ BoardUnchanged

\* The vote is stored before the settlement, which may throw.
Approve(b, u, lead) ==
  LET r == [board[b] EXCEPT !.approved = @ \union {u}]
  IN /\ Serving
     /\ board[b].status = "reported"
     /\ u \in BoardBettors(b)
     /\ IF r.approved = BoardBettors(b) /\ Matches(vault, b)
        THEN SettleBoard(b, r, lead)
        ELSE OnlyBoard(b, r)

\* The scheduler, when nobody disputed in time.
FinalizeWhenApproved(b, lead) ==      \* mutant: waits for an approval
  /\ Serving
  /\ board[b].status = "reported" /\ board[b].approved # {}
  /\ SettleBoard(b, board[b], lead)

FinalizeIfNoDispute(b, lead) ==
  /\ Serving
  /\ board[b].status = "reported"
  /\ SettleBoard(b, board[b], lead)

\* The ruling is stored before the settlement, which may throw.
AdminResolve(b, o, lead) ==
  LET r == [board[b] EXCEPT !.status = "reported", !.result = o]
  IN /\ Serving
     /\ board[b].status = "disputed"
     /\ IF Matches(vault, b) THEN SettleBoard(b, r, lead) ELSE OnlyBoard(b, r)

AdminVoid(b) ==
  /\ Serving
  /\ board[b].status = "disputed"
  /\ Matches(vault, b)
  /\ vault' = Refund(vault, b)
  /\ board' = [board EXCEPT ![b].status = "void"]
  /\ UNCHANGED stats
  /\ BoardUnchanged

LiveHoldersNotFrozen ==      \* mutant: a frozen board is no owner
  {b \in Board : board[b].status \in LiveStatuses \ {"frozen"}}

\* What the boards declare to the start-up recovery.
LiveHolders == {b \in Board : board[b].status \in LiveStatuses}

-----------------------------------------------------------------------------
MarketInit == board = [b \in Board |-> NewBoard]

MarketStep ==
  \/ \E b \in Board, mode \in Modes : Create(b, mode)
  \/ \E b \in Board : Deadline(b) \/ Freeze(b) \/ Close(b) \/ AdminVoid(b)
  \/ \E b \in Board, u \in Player, o \in Option, n \in Bets : Bet(b, u, o, n)
  \/ \E b \in Board, o \in Option : Report(b, o)
  \/ \E b \in Board, u \in Player : Dispute(b, u)
  \/ \E b \in Board, u, lead \in Player : Approve(b, u, lead)
  \/ \E b \in Board, lead \in Player : FinalizeIfNoDispute(b, lead)
  \/ \E b \in Board, o \in Option, lead \in Player : AdminResolve(b, o, lead)

=============================================================================
