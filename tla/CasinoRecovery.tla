--------------------------- MODULE CasinoRecovery ---------------------------
(***************************************************************************)
(* Crashes, the start-up recovery and the ways the casino is closed and    *)
(* opened: packages/core/src/casino/recovery.ts and status.ts, and the     *)
(* casino panel of apps/bot/src/commands/admin-hub.ts.                     *)
(*                                                                         *)
(* A restart loses seats, running games and bets of the tables and keeps   *)
(* every row.  The recovery runs before the first interaction, one         *)
(* transaction for each session and each player, so a crash may fall       *)
(* between any two of its steps.                                           *)
(***************************************************************************)
EXTENDS Market

CONSTANTS
  Moderated,    \* players whose Land account the moderation may freeze
  MaxTrouble    \* bound: crashes, hand edits, freezes, halts, failures

VARIABLES
  rec,       \* the running recovery, see NoRecovery
  missing,   \* session |-> player |-> stakes whose row was removed by hand
  owed,      \* a recovery stopped in recovery_halt and none has passed since
  trouble    \* how many disturbances there have been

vars == <<vault, reserved, frozen, stats, today, risk, status, up, seat, solo,
          games, phase, bets, board, rec, missing, owed, trouble>>

\* stage: "off", "sweep", "redeem", "finish"; todo: sessions or players left.
NoRecovery == [stage |-> "off", todo |-> {}, mismatch |-> FALSE,
               refundFailed |-> FALSE, redeemFailed |-> FALSE, again |-> FALSE]

HumanHeld == {"manual_halt", "maintenance", "opening_reset"}

AnyTrouble == trouble < MaxTrouble /\ trouble' = trouble + 1

-----------------------------------------------------------------------------
Crash ==
  /\ up \/ rec.stage # "off"
  /\ AnyTrouble
  /\ up' = FALSE
  /\ rec' = NoRecovery
  /\ seat' = NobodySits
  /\ solo' = [u \in Player |-> 0]
  /\ phase' = [s \in DOMAIN phase |->
                 IF phase[s] = "none" THEN "none" ELSE "over"]
  /\ bets' = [s \in Roulette |-> NobodyBets]
  /\ risk' = [risk EXCEPT !.start = [u \in Player |-> NoStart]]
  /\ UNCHANGED <<vault, reserved, frozen, stats, today, status, games, board,
                 missing, owed>>

\* A row of the book is removed by hand: at a table while the bot is stopped,
\* at a board at any time.
RemoveRow(s, u) ==
  /\ rec.stage = "off"
  /\ up => s \in Board
  /\ AnyTrouble
  /\ vault.book[s][u] > 0
  /\ missing' = [missing EXCEPT ![s][u] = @ + vault.book[s][u]]
  /\ vault' = [vault EXCEPT !.book[s][u] = 0]
  /\ UNCHANGED <<reserved, frozen, stats, today, risk, status, up, tableVars,
                 board, rec, owed>>

\* The moderation freezes a Land account, or releases it.
Moderate(u) ==
  /\ up /\ u \in Moderated
  /\ AnyTrouble
  /\ frozen' = IF u \in frozen THEN frozen \ {u} ELSE frozen \union {u}
  /\ UNCHANGED <<vault, reserved, stats, today, risk, status, up, tableVars,
                 board, rec, missing, owed>>

-----------------------------------------------------------------------------
(* recoverCasino.                                                          *)

KeptByRecovery == UNCHANGED <<frozen, stats, today, risk, tableVars, board, missing>>

\* S1: status startup_check; the state it overwrites is remembered.
BeginRecovery ==
  /\ status' = "startup_check"
  /\ rec' = [NoRecovery EXCEPT !.stage = "sweep", !.todo = Session,
                               !.again = (status = "recovery_halt")]

\* The process starts.  A casino stopped by a human stays as it is; a failed
\* precheck stops it; an integrity halt waits for a human.
Boot ==
  /\ ~up /\ rec.stage = "off"
  /\ CASE status \in HumanHeld ->
            up' = TRUE /\ UNCHANGED <<status, rec>>
       [] status \notin HumanHeld /\ ~Precheck ->
            /\ up' = TRUE
            /\ status' = IF status = "recovery_halt" THEN "recovery_halt"
                         ELSE "integrity_halt"
            /\ UNCHANGED rec
       [] status = "integrity_halt" /\ Precheck ->
            up' = TRUE /\ UNCHANGED <<status, rec>>
       [] OTHER -> BeginRecovery /\ UNCHANGED up
  /\ UNCHANGED <<vault, reserved, owed, trouble>>
  /\ KeptByRecovery

\* "Run the recovery again", offered by the panel in recovery_halt only.
Rerecover ==
  /\ up /\ status = "recovery_halt"
  /\ Precheck
  /\ up' = FALSE
  /\ BeginRecovery
  /\ UNCHANGED <<vault, reserved, owed, trouble>>
  /\ KeptByRecovery

Tables == Session \ Board

\* S5 to S8 for one session: a mismatch is left alone, so is a live board; a
\* table is refunded; chips without a row go to the quarantine.
Sweep(s) ==
  IF s \in LiveHolders THEN vault
  ELSE IF s \in Tables /\ HasRows(vault, s)
       THEN IF Matches(vault, s) THEN Refund(vault, s) ELSE vault
       ELSE Transfer(vault, s, Quarantine, vault.chips[s])

RecoverSession(s) ==
  /\ rec.stage = "sweep"
  /\ s \in rec.todo
  /\ vault' = Sweep(s)
  /\ rec' = [rec EXCEPT
               !.todo = @ \ {s},
               !.mismatch = @ \/ (s \in Tables /\ HasRows(vault, s)
                                    /\ ~Matches(vault, s))]
  /\ UNCHANGED <<reserved, status, up, owed, trouble>>
  /\ KeptByRecovery

\* The refund of a session throws: its rows stay.
RefundFails(s) ==
  /\ rec.stage = "sweep"
  /\ s \in rec.todo
  /\ s \in Tables /\ HasRows(vault, s) /\ Matches(vault, s)
  /\ AnyTrouble
  /\ rec' = [rec EXCEPT !.todo = @ \ {s}, !.refundFailed = TRUE]
  /\ UNCHANGED <<vault, reserved, status, up, owed>>
  /\ KeptByRecovery

\* An owner cannot say which holders are alive, or anything else throws: what
\* is committed stays, and the casino waits for another recovery.
RecoveryThrows ==
  /\ rec.stage # "off"
  /\ AnyTrouble
  /\ status' = "recovery_halt"
  /\ owed' = TRUE
  /\ up' = TRUE
  /\ rec' = NoRecovery
  /\ UNCHANGED <<vault, reserved>>
  /\ KeptByRecovery

\* S9: no reservation outlives the process that made it.
ReleaseReservations ==
  /\ rec.stage = "sweep" /\ rec.todo = {}
  /\ reserved' = NothingReserved
  /\ rec' = [rec EXCEPT !.stage = "redeem", !.todo = Player]
  /\ UNCHANGED <<vault, status, up, owed, trouble>>
  /\ KeptByRecovery

\* S10: the free chips of every player become Land again.
RedeemAtStart(u) ==
  /\ rec.stage = "redeem"
  /\ u \in rec.todo
  /\ vault' = IF u \in frozen THEN vault ELSE RedeemAll(vault, u)
  /\ rec' = [rec EXCEPT
               !.todo = @ \ {u},
               !.redeemFailed = @ \/ (u \in frozen /\ vault.chips[u] > 0)]
  /\ UNCHANGED <<reserved, status, up, owed, trouble>>
  /\ KeptByRecovery

VerdictOfBooks ==      \* mutant: failed refunds are only reported
  IF FullCheck THEN "open" ELSE "integrity_halt"

\* S12.  Mismatches are no separate case of the verdict: the full check
\* finds them.
Verdict ==
  CASE rec.redeemFailed \/ rec.refundFailed -> "recovery_halt"
    [] ~FullCheck \/ rec.mismatch ->
         IF rec.again THEN "recovery_halt" ELSE "integrity_halt"
    [] OTHER -> "open"

FinishRecovery ==
  /\ rec.stage = "redeem" /\ rec.todo = {}
  /\ status' = Verdict
  /\ owed' = (Verdict = "recovery_halt" \/ (owed /\ Verdict # "open"))
  /\ up' = TRUE
  /\ rec' = NoRecovery
  /\ UNCHANGED <<vault, reserved, trouble>>
  /\ KeptByRecovery

-----------------------------------------------------------------------------
(* The panel.  Every button may be pressed on an old message.              *)

SetStatus(st) ==
  /\ status' = st
  /\ UNCHANGED <<moneyVars, today, risk, up, tableVars, board, rec, missing,
                 owed>>

Halt == up /\ AnyTrouble /\ SetStatus("manual_halt")

Recheck ==
  /\ up
  /\ \/ status = "integrity_halt" /\ FullCheck /\ SetStatus("open")
     \/ status = "open" /\ ~FullCheck /\ SetStatus("integrity_halt")
  /\ UNCHANGED trouble

Reopen ==
  /\ up
  /\ FullCheck
  /\ status \in {"manual_halt", "integrity_halt"}
  /\ UNCHANGED trouble
  /\ SetStatus("open")

SettleHouseNow(n) ==
  /\ AnyTrouble
  /\ SettleHouse(n)
  /\ UNCHANGED <<board, rec, missing, owed>>

-----------------------------------------------------------------------------
CasinoInit(houseChips) ==
  /\ TablesInit(houseChips)
  /\ MarketInit
  /\ rec = NoRecovery
  /\ missing = [s \in Session |-> [u \in Player |-> 0]]
  /\ owed = FALSE
  /\ trouble = 0

RecoveryStep ==
  \/ Crash \/ Boot \/ Rerecover
  \/ \E s \in Session, u \in Player : RemoveRow(s, u)
  \/ \E u \in Player : Moderate(u) \/ RedeemAtStart(u)
  \/ \E s \in Session : RecoverSession(s) \/ RefundFails(s)
  \/ ReleaseReservations \/ FinishRecovery \/ RecoveryThrows

PanelStep == Halt \/ Recheck \/ Reopen \/ \E n \in Bets : SettleHouseNow(n)

Outside == UNCHANGED <<rec, missing, owed, trouble>>

Next ==
  \/ TableStep /\ Outside /\ UNCHANGED board
  \/ Midnight /\ Outside /\ UNCHANGED <<status, up, tableVars, board>>
  \/ MarketStep /\ Outside
  \/ RecoveryStep
  \/ PanelStep

Spec ==
  /\ \E n \in Nat : CasinoInit(n)
  /\ [][Next]_vars

-----------------------------------------------------------------------------
(* The properties of the casino.                                           *)

Fees(u) ==
  BoardFee * Cardinality({x \in Board : /\ Creator[x] = u
                                        /\ board[x].status # "none"})

StakesOf(u) == SumFunction([s \in Session |-> vault.book[s][u]])
Missing(s) == SumFunction(missing[s])
MissingOf(u) == SumFunction([s \in Session |-> missing[s][u]])

\* The pool account backs every chip, at every moment, and the chips that lie
\* with tables, boards and the quarantine are the rows of the book plus the
\* rows removed by hand: escrow.ts, chip-flow.ts and recovery.ts lose no chip
\* and invent none, whatever is crashed, voided, settled or swept.
ChipsBacked ==
  /\ CheckB
  /\ SumFunctionOnSet(vault.chips, Session \union {Quarantine})
       = SumFunction([s \in Session |-> Staked(vault, s) + Missing(s)])

\* A player owns what he brought plus the results booked for him, less the fees
\* of his boards.  A stake refunded by the recovery and paid by a settlement
\* as well would break it, and so would one that got lost between the two.
WealthAccounted ==
  \A u \in Player :
    Holdings(vault, u) + StakesOf(u) + MissingOf(u) + Fees(u)
      = Wallet[u] + stats[u]

\* Both together: no chip and no Land is lost or invented.
MoneyIsWhole == ChipsBacked /\ WealthAccounted

\* No promise without cover: the reservations of all running games together
\* never exceed the chips of the house, also after the operator has moved
\* chips of the house away (reservations.ts, admin-hub.ts).
HouseCanPay == TotalReserved =< vault.chips[House]

\* The day a bet was accepted on never ends below its limit, although the game
\* may end after midnight and several games run at once (daily-risk.ts).
LossWithinTheDay ==
  \A u \in Player, d \in 1 .. today : risk.net[d][u] >= -Cap(u, d)

\* Who has a stake at a running or stuck table, or a running solo game, is
\* seated there and nowhere else: seats (memory) and stakes (rows) agree.
OneTableEach ==
  \A u \in Player :
    /\ solo[u] > 0 => seat[u] = "solo"
    /\ \A s \in Roulette \union Pvp :
         vault.book[s][u] > 0 /\ phase[s] \in {"open", "spinning", "stuck"}
           => seat[u] = s

CleanSlate ==
  /\ \A s \in Session : vault.chips[s] > 0 => s \in LiveHolders
  /\ \A s \in Tables : ~HasRows(vault, s)
  /\ reserved = NothingReserved
  /\ \A u \in Player : vault.chips[u] = 0
  /\ FullCheck

\* When the recovery opens the casino by itself, no stake of a dead table is
\* left, every escrow holder belongs to a living board, no reservation is
\* left, no player holds free chips and all the books agree (recovery.ts S12).
AutoOpeningIsClean ==
  [][status = "startup_check" /\ status' = "open" => CleanSlate']_vars

\* A board that is over owes nobody and holds nothing; the pot of any other
\* lies with the board, through crashes, recoveries and freezes: only a row
\* removed by hand makes it differ from the bets (market.ts, recovery.ts).
BoardHoldsItsPot ==
  \A x \in Board :
    IF board[x].status \in {"settled", "void"}
    THEN vault.chips[x] = 0 /\ ~HasRows(vault, x)
    ELSE vault.chips[x] = Pot(x) + Missing(x)

\* status.ts:215-216 says of recovery_halt that the only way out is a recovery
\* that reaches S12.  It does not hold (see the README).
OpenMeansRecovered == status = "open" => ~owed

=============================================================================
