--------------------------- MODULE CasinoOpening ---------------------------
(***************************************************************************)
(* The formal opening of the casino: opening-reset.ts, opening-execution.ts*)
(* and the columns of casino_status it owns.  One press of the operator    *)
(* climbs a ladder of transactions: take the casino, back up, remove the   *)
(* old voice channels on Discord, destroy the old data and fund the new    *)
(* casino in one transaction, open.  Only the step on Discord lets another *)
(* press in; the process may die between any two steps, and the next press *)
(* climbs on from the row the last one left.                               *)
(***************************************************************************)
EXTENDS Naturals, FiniteSets

CONSTANTS
  Plan,        \* what a plan hash can stand for: contents of the database
  NoPlan,      \* the hash while the status or the version forbid an opening
  Operator,    \* who may be the configured owner of the bot
  Call,        \* presses under way at one time
  NoCall,
  MaxEvents    \* bound: changes, halts, damages and crashes

ASSUME OpeningAssumption == NoPlan \notin Plan /\ NoCall \notin Call

VARIABLES
  casinoStatus,  \* casino_status: "open", "opening_reset", "manual_halt"
  owner,         \* its opening_execution_id and opening_actor_id, or NoOwner
  rows,          \* casino_opening_executions, one row a plan
  formal,        \* opening_v1 exists: the funds have moved
  bundles,       \* the backup of a plan: "none", "same" as the database,
                 \*   "older" than it, "damaged"
  world,         \* what the plan hash of the present database stands for
  ready,         \* no blocker but the status and the version
  operator,      \* the configured owner
  calls,         \* a press: where it stands and its row
  turn,          \* the call whose step it is; the program has one thread
  events

openingVars == <<casinoStatus, owner, rows, formal, bundles, world, ready,
                 operator, calls, turn, events>>
surroundings == <<world, ready, operator, events>>

Ladder == <<"planned", "opening_reset_acquired", "backup_started",
            "backup_verified", "external_started", "external_completed",
            "applying", "applied", "post_commit_pending", "completed">>

Rank(st) == IF \E i \in DOMAIN Ladder : Ladder[i] = st
            THEN CHOOSE i \in DOMAIN Ladder : Ladder[i] = st
            ELSE 0

\* A row that failed or waits for a review has reached nothing.
Reached(p, st) == Rank(rows[p].status) >= Rank(st)

NoOwner == [plan |-> NoPlan, actor |-> NoPlan]

NoRow == [status |-> "none", actor |-> NoPlan, stage |-> "none",
          manifest |-> FALSE, ext |-> FALSE, funds |-> FALSE]

Planned == [NoRow EXCEPT !.status = "planned", !.actor = operator]

Idle == [pc |-> "idle", plan |-> NoPlan]

CurrentPlan ==
  IF casinoStatus = "opening_reset" /\ ~formal THEN world ELSE NoPlan

Stale(p) == p # CurrentPlan \/ ~ready

InFlight == {p \in Plan : rows[p].funds /\ rows[p].status # "completed"}

-----------------------------------------------------------------------------
\* transition(): only the state the caller saw is left.
CasAlways(p, from, row) == rows' = [rows EXCEPT ![p] = row]      \* mutant
Cas(p, from, row) ==
  rows' = IF rows[p].status = from THEN [rows EXCEPT ![p] = row] ELSE rows

Advance(p, from, to) == Cas(p, from, [rows[p] EXCEPT !.status = to])

Fail(p, from, stage) ==
  Cas(p, from, [rows[p] EXCEPT !.status = "failed", !.stage = stage])

SendToReview(p, from) == Advance(p, from, "manual_review_required")

\* Whatever is written, the snapshot of the whole database is older than it.
Write ==
  bundles' = [p \in Plan |-> IF bundles[p] = "same" THEN "older" ELSE bundles[p]]

At(c, pc) == turn = c /\ calls[c].pc = pc

Go(c, pc) == calls' = [calls EXCEPT ![c].pc = pc] /\ UNCHANGED turn

Stop(c) == calls' = [calls EXCEPT ![c] = Idle] /\ turn' = NoCall

Enter(c, p, pc) ==
  /\ calls' = [calls EXCEPT ![c] = [pc |-> pc, plan |-> p]]
  /\ turn' = c

Mine(c) == calls[c].plan

RowOnly == UNCHANGED <<casinoStatus, owner, formal, surroundings>>

-----------------------------------------------------------------------------
\* R0, one transaction.  A press that is refused changes nothing.
Press(c) == turn = NoCall /\ calls[c] = Idle /\ InFlight = {}

\* After the commit only what follows it is taken up again.
ResumeAfterCommit(c) ==
  /\ turn = NoCall /\ calls[c] = Idle
  /\ \E p \in InFlight :
       /\ rows[p].actor = operator
       /\ rows[p].status # "manual_review_required"
       /\ rows[p].manifest
       /\ Enter(c, p, "finish")
  /\ UNCHANGED <<rows, bundles>> /\ RowOnly

\* The first press takes the open casino, the row of the plan and the binding.
MayTake(p) == rows[p].status = "none" \/ rows[p].actor = operator

WithRow(p) == IF rows[p].status = "none" THEN Planned ELSE rows[p]

BeginOpening(c) ==
  /\ Press(c)
  /\ casinoStatus = "open" /\ ~formal /\ ready
  /\ MayTake(world)
  /\ casinoStatus' = "opening_reset"
  /\ owner' = [plan |-> world, actor |-> operator]
  /\ rows' = [rows EXCEPT ![world] = WithRow(world)]
  /\ IF rows[world].status = "manual_review_required"
     THEN UNCHANGED <<calls, turn>>
     ELSE Enter(c, world, "taken")
  /\ Write
  /\ UNCHANGED <<formal, surroundings>>

\* Later presses go by the binding, never by the hash of the day.
Owned == casinoStatus = "opening_reset" /\ owner.actor = operator

ContinueOwnRow(c) ==
  /\ Press(c) /\ Owned
  /\ owner.plan = CurrentPlan
  /\ rows[owner.plan].status # "manual_review_required"
  /\ Enter(c, owner.plan, "taken")
  /\ UNCHANGED <<rows, bundles>> /\ RowOnly

\* A failed row tells by its stage whether Discord may have been touched.
BeforeExternal == {"planned", "opening_reset_acquired", "backup_started",
                   "backup_verified"}

PreExternalResumable(p) ==
  \/ rows[p].status \in BeforeExternal
  \/ /\ rows[p].status = "failed"
     /\ rows[p].stage \in BeforeExternal \union {"backup", "backup_reverify_resume"}

FailUnlessFailed(row) ==
  IF row.status = "failed" THEN row
  ELSE [row EXCEPT !.status = "failed", !.stage = row.status]

\* The data changed before Discord was touched: a new plan, a new row.
Replan(c) ==
  /\ Press(c) /\ Owned
  /\ owner.plan # CurrentPlan /\ PreExternalResumable(owner.plan)
  /\ ready /\ MayTake(world)
  /\ rows' = [rows EXCEPT ![owner.plan] = FailUnlessFailed(@),
                          ![world] = WithRow(world)]
  /\ owner' = [plan |-> world, actor |-> operator]
  /\ IF rows[world].status = "manual_review_required"
     THEN UNCHANGED <<calls, turn>>
     ELSE Enter(c, world, "taken")
  /\ Write
  /\ UNCHANGED <<casinoStatus, formal, surroundings>>

\* After it: a human decides.  The press ends, and so does the transaction.
StopForReview(c) ==
  /\ Press(c) /\ Owned
  /\ owner.plan # CurrentPlan /\ ~PreExternalResumable(owner.plan)
  /\ rows[owner.plan].status # "manual_review_required"
  /\ SendToReview(owner.plan, rows[owner.plan].status)
  /\ Write
  /\ UNCHANGED <<calls, turn>> /\ RowOnly

-----------------------------------------------------------------------------
\* A failed row is tried again from the start.
TakeRow(c) ==
  /\ At(c, "taken")
  /\ rows[Mine(c)].status \in {"planned", "failed"}
  /\ Advance(Mine(c), rows[Mine(c)].status, "opening_reset_acquired")
  /\ Write
  /\ UNCHANGED <<calls, turn>> /\ RowOnly

RefuseStale(c) ==
  \E st \in {"opening_reset_acquired", "backup_verified"} :
    /\ At(c, IF st = "backup_verified" THEN "verified" ELSE "taken")
    /\ rows[Mine(c)].status = st /\ Stale(Mine(c))
    /\ Fail(Mine(c), st, st)
    /\ Write /\ Stop(c) /\ RowOnly

BeginBackup(c) ==
  /\ At(c, "taken")
  /\ rows[Mine(c)].status \in {"opening_reset_acquired", "backup_started"}
  /\ rows[Mine(c)].status = "backup_started" \/ ~Stale(Mine(c))
  /\ Advance(Mine(c), "opening_reset_acquired", "backup_started")
  /\ IF rows[Mine(c)].status = "backup_started" THEN UNCHANGED bundles ELSE Write
  /\ Go(c, "backup") /\ RowOnly

\* A bundle that is there already is taken only if it is the database as it is.
BackUp(c) ==
  /\ At(c, "backup")
  /\ bundles[Mine(c)] \in {"none", "same"}
  /\ bundles' = [bundles EXCEPT ![Mine(c)] = "same"]
  /\ Go(c, "published") /\ UNCHANGED rows /\ RowOnly

\* A conflicting or damaged bundle, a full disk, a failed verification.
BackupFails(c) ==
  /\ At(c, "backup") \/ At(c, "published")
  /\ Fail(Mine(c), "backup_started", "backup")
  /\ Write /\ Stop(c) /\ RowOnly

RecordBackup(c) ==
  /\ At(c, "published")
  /\ Cas(Mine(c), "backup_started",
         [rows[Mine(c)] EXCEPT !.status = "backup_verified", !.manifest = TRUE])
  /\ Write /\ Go(c, "verified") /\ RowOnly

\* A press that did not back up itself reads the files again.
ResumeVerified(c) ==
  /\ At(c, "taken")
  /\ Reached(Mine(c), "backup_verified")
  /\ bundles[Mine(c)] # "damaged"
  /\ Go(c, "verified") /\ UNCHANGED <<rows, bundles>> /\ RowOnly

RejectBackup(c) ==
  /\ At(c, "taken")
  /\ Reached(Mine(c), "backup_verified")
  /\ bundles[Mine(c)] = "damaged"
  /\ IF rows[Mine(c)].status = "backup_verified"
     THEN Fail(Mine(c), "backup_verified", "backup_reverify_resume")
     ELSE SendToReview(Mine(c), rows[Mine(c)].status)
  /\ Write /\ Stop(c) /\ RowOnly

-----------------------------------------------------------------------------
\* The voice channels: the call waits for Discord, and others may run.
CallDiscord(c) ==
  /\ At(c, "verified")
  /\ rows[Mine(c)].status \in {"backup_verified", "external_started"}
  /\ rows[Mine(c)].status = "backup_verified" => ~Stale(Mine(c))
  /\ Advance(Mine(c), "backup_verified", "external_started")
  /\ Write
  /\ calls' = [calls EXCEPT ![c].pc = "outside"] /\ turn' = NoCall
  /\ RowOnly

Waiting(c) == turn = NoCall /\ calls[c].pc = "outside"

DiscordAnswers(c) ==
  /\ Waiting(c)
  /\ Cas(Mine(c), "external_started",
         [rows[Mine(c)] EXCEPT !.status = "external_completed", !.ext = TRUE])
  /\ Write
  /\ calls' = [calls EXCEPT ![c].pc = "answered"] /\ turn' = c
  /\ RowOnly

DiscordFails(c) ==
  /\ Waiting(c)
  /\ Fail(Mine(c), "external_started", "external")
  /\ calls' = [calls EXCEPT ![c] = Idle] /\ UNCHANGED turn
  /\ Write /\ RowOnly

StaleAfterDiscord(c) ==
  /\ At(c, "answered")
  /\ rows[Mine(c)].status = "external_completed" /\ Stale(Mine(c))
  /\ SendToReview(Mine(c), "external_completed")
  /\ Write /\ Stop(c) /\ RowOnly

\* The lost race is not told apart: the row as it is now decides what is next.
GoOn(c) ==
  /\ \/ /\ At(c, "answered")
        /\ rows[Mine(c)].status = "external_completed" => ~Stale(Mine(c))
     \/ /\ At(c, "verified")
        /\ rows[Mine(c)].status \in {"external_completed", "applying"}
  /\ Go(c, "destroy") /\ UNCHANGED <<rows, bundles>> /\ RowOnly

-----------------------------------------------------------------------------
BeginApplying(c) ==
  /\ At(c, "destroy")
  /\ rows[Mine(c)].status = "external_completed"
  /\ Advance(Mine(c), "external_completed", "applying")
  /\ Write /\ UNCHANGED <<calls, turn>> /\ RowOnly

BundleLost(c) ==
  /\ At(c, "destroy")
  /\ rows[Mine(c)].status = "applying" /\ bundles[Mine(c)] = "damaged"
  /\ SendToReview(Mine(c), "applying")
  /\ Write /\ Stop(c) /\ RowOnly

\* A stale plan, a failed postflight, a failing disk: all is rolled back.
RollBack(c) ==
  /\ At(c, "destroy")
  /\ rows[Mine(c)].status = "applying" /\ bundles[Mine(c)] # "damaged"
  /\ Fail(Mine(c), "applying", "applying")
  /\ Write /\ Stop(c) /\ RowOnly

CommitUnread(c) ==      \* mutant: the files are not read again before R6
  /\ At(c, "destroy")
  /\ rows[Mine(c)].status = "applying"
  /\ ~Stale(Mine(c))
  /\ Cas(Mine(c), "applying",
         [rows[Mine(c)] EXCEPT !.status = "applied", !.funds = TRUE])
  /\ formal' = TRUE
  /\ Write /\ Go(c, "finish")
  /\ UNCHANGED <<casinoStatus, owner, surroundings>>

Commit(c) ==
  /\ At(c, "destroy")
  /\ rows[Mine(c)].status = "applying" /\ bundles[Mine(c)] # "damaged"
  /\ ~Stale(Mine(c))
  /\ Cas(Mine(c), "applying",
         [rows[Mine(c)] EXCEPT !.status = "applied", !.funds = TRUE])
  /\ formal' = TRUE
  /\ Write /\ Go(c, "finish")
  /\ UNCHANGED <<casinoStatus, owner, surroundings>>

NothingToApply(c) ==
  /\ At(c, "destroy")
  /\ rows[Mine(c)].status \notin {"external_completed", "applying"}
  /\ Go(c, "finish") /\ UNCHANGED <<rows, bundles>> /\ RowOnly

-----------------------------------------------------------------------------
\* finishAfterCommit(): what a press does last, whatever row it has come to.
EndApplied(c) ==
  /\ At(c, "finish")
  /\ rows[Mine(c)].status # "completed"
  /\ Advance(Mine(c), "applied", "post_commit_pending")
  /\ Write /\ Go(c, "reopen") /\ RowOnly

AlreadyDone(c) ==
  /\ At(c, "finish")
  /\ rows[Mine(c)].status = "completed"
  /\ Stop(c) /\ UNCHANGED <<rows, bundles>> /\ RowOnly

OpenCasino(c) ==
  /\ At(c, "reopen")
  /\ casinoStatus \in {"open", "opening_reset"}
  /\ casinoStatus' = "open" /\ owner' = NoOwner
  /\ Write /\ Go(c, "complete")
  /\ UNCHANGED <<rows, formal, surroundings>>

CannotOpen(c) ==
  /\ At(c, "reopen")
  /\ casinoStatus = "manual_halt"
  /\ SendToReview(Mine(c), "post_commit_pending")
  /\ Write /\ Stop(c) /\ RowOnly

Complete(c) ==
  /\ At(c, "complete")
  /\ Advance(Mine(c), "post_commit_pending", "completed")
  /\ Write /\ Stop(c) /\ RowOnly

-----------------------------------------------------------------------------
Event == events < MaxEvents /\ events' = events + 1

\* Land moves, a check fails or passes again.
DataChanges ==
  /\ Event /\ turn = NoCall
  /\ world' \in Plan /\ ready' \in BOOLEAN
  /\ Write
  /\ UNCHANGED <<casinoStatus, owner, rows, formal, operator, calls, turn>>

\* The operator's panel.  Leaving opening_reset clears the binding.
SetCasinoStatusKeepingOwner(st) == casinoStatus' = st /\ UNCHANGED owner  \* mutant
SetCasinoStatus(st) == casinoStatus' = st /\ owner' = NoOwner

HaltByHand ==
  /\ Event /\ turn = NoCall
  /\ casinoStatus # "manual_halt"
  /\ SetCasinoStatus("manual_halt")
  /\ Write
  /\ UNCHANGED <<rows, formal, world, ready, operator, calls, turn>>

ReopenByHand ==
  /\ turn = NoCall
  /\ casinoStatus = "manual_halt"
  /\ SetCasinoStatus("open")
  /\ Write
  /\ UNCHANGED <<rows, formal, world, ready, operator, calls, turn, events>>

DamageBundle(p) ==
  /\ Event
  /\ bundles[p] \in {"same", "older"}
  /\ bundles' = [bundles EXCEPT ![p] = "damaged"]
  /\ UNCHANGED <<casinoStatus, owner, rows, formal, world, ready, operator,
                 calls, turn>>

\* The process dies; the configured owner may be another one afterwards.
ProcessDies ==
  /\ Event
  /\ calls' = [c \in Call |-> Idle] /\ turn' = NoCall
  /\ operator' \in Operator
  /\ UNCHANGED <<casinoStatus, owner, rows, formal, bundles, world, ready>>

OpeningInit ==
  /\ casinoStatus = "open" /\ owner = NoOwner
  /\ rows = [p \in Plan |-> NoRow]
  /\ formal = FALSE
  /\ bundles = [p \in Plan |-> "none"]
  /\ world \in Plan /\ ready = TRUE
  /\ operator \in Operator
  /\ calls = [c \in Call |-> Idle] /\ turn = NoCall
  /\ events = 0

OpeningNext ==
  \/ \E c \in Call :
       \/ ResumeAfterCommit(c) \/ BeginOpening(c) \/ ContinueOwnRow(c)
       \/ Replan(c) \/ StopForReview(c)
       \/ TakeRow(c) \/ RefuseStale(c) \/ BeginBackup(c) \/ BackUp(c)
       \/ BackupFails(c) \/ RecordBackup(c) \/ ResumeVerified(c)
       \/ RejectBackup(c) \/ CallDiscord(c) \/ DiscordAnswers(c)
       \/ DiscordFails(c) \/ StaleAfterDiscord(c) \/ GoOn(c)
       \/ BeginApplying(c) \/ BundleLost(c) \/ RollBack(c) \/ Commit(c)
       \/ NothingToApply(c) \/ EndApplied(c) \/ AlreadyDone(c)
       \/ OpenCasino(c) \/ CannotOpen(c) \/ Complete(c)
  \/ DataChanges \/ HaltByHand \/ ReopenByHand \/ ProcessDies
  \/ \E p \in Plan : DamageBundle(p)

OpeningSpec == OpeningInit /\ [][OpeningNext]_openingVars

-----------------------------------------------------------------------------
\* The formal opening happens at most once, and the rows tell whether it did: the
\* funds have moved exactly if one row says so, and that row is past the commit
\* or waits for a review.  A press whose row another one finished meanwhile, or
\* that resumes after a crash, neither repeats the commit nor hides it.
FundsAppliedOnce ==
  /\ Cardinality({p \in Plan : rows[p].funds}) = (IF formal THEN 1 ELSE 0)
  /\ \A p \in Plan :
       LET past == {"applied", "post_commit_pending", "completed"}
       IN IF rows[p].funds
          THEN rows[p].status \in past \union {"manual_review_required"}
          ELSE rows[p].status \notin past

\* An opening under way belongs to somebody, and only such an opening does:
\* the corruption apply() reports (status without binding, binding without row,
\* a verified row without manifest) never comes about by itself, whatever is
\* halted, replanned or interrupted.
OwnerKnown ==
  /\ casinoStatus = "opening_reset" <=> owner # NoOwner
  /\ owner # NoOwner => /\ rows[owner.plan].status # "none"
                        /\ rows[owner.plan].actor = owner.actor
  /\ \A p \in Plan :
       /\ Reached(p, "backup_verified") => rows[p].manifest
       /\ Reached(p, "external_completed") => rows[p].ext

\* Both together: what the rows, the binding and the casino's state say of one
\* opening agree at every moment.
OpeningRecordsAgree == FundsAppliedOnce /\ OwnerKnown

\* The old data is destroyed only while a backup of exactly this data, checked
\* on disk, is there, and while the casino is closed for the opening.
DestroyedOnlyWithArchive ==
  [][formal' # formal =>
       /\ casinoStatus = "opening_reset" /\ ready
       /\ bundles[world] \in {"same", "older"}
       /\ rows'[world].funds /\ rows[world].manifest]_openingVars

\* What was given to a human stays with the human: no press, no late answer of
\* Discord and no restart takes a row out of manual review.
ManualReviewStands ==
  [][\A p \in Plan : rows[p].status = "manual_review_required"
                       => rows'[p] = rows[p]]_openingVars

\* status.ts:376-384: the opening is R0 stop, R1 to R11, checks, COMMIT only if
\* they pass, then R14 open; nothing else opens the casino from opening_reset.
OpensAfterCommitOnly ==
  [][casinoStatus = "opening_reset" /\ casinoStatus' = "open"
       => formal]_openingVars
=============================================================================
