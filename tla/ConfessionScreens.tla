-------------------------- MODULE ConfessionScreens --------------------------
(***************************************************************************)
(* What the poster sees of a delivered reply.  A reply arrives neutral and *)
(* is then edited to show how the conversation stands; the edits are rows  *)
(* of confession_pending_renders that any bot converges, each try noted in *)
(* confession_render_attempts before Discord is touched.  An edit of a bot *)
(* taken for dead can land after the edits of the next one.                *)
(***************************************************************************)
EXTENDS Confession, SequencesExt

VARIABLES
  renders,    \* confession_pending_renders
  attempts,   \* confession_render_attempts, with what each was to show
  shown,      \* message |-> the attempt whose edit it shows, 0 for neutral
  unseen      \* messages edited by an attempt given up before and by a bot that then died

screenVars == <<renders, attempts, shown, unseen>>
vars == <<talkVars, screenVars>>

\* The view of the case as it stands now, from the row and never from the past.
DesiredRender ==
  CASE ~Open -> <<"ended", talk.side>>
    [] Open -> <<"waiting", talk.deadline>>

Unfinished(r) == renders[r].state \notin {"settled", "resolved"}
UnfinishedRenders == {r \in DOMAIN renders : Unfinished(r)}

NewRender(msg, kind) ==
  [msg |-> msg, kind |-> kind, state |-> "pending", gen |-> 0, owner |-> 0, tries |-> 0]

\* The reply just delivered is to be brought to its final form, or to be marked
\* as overtaken when its attempt was no longer the current one.
QueueFinalRender(c) ==
  LET msg == <<c.row, c.gen>> IN
  /\ renders' = Append(renders, NewRender(msg, IF Current(c) THEN "current" ELSE "superseded"))
  /\ shown' = [m \in DOMAIN shown \union {msg} |-> IF m = msg THEN 0 ELSE shown[m]]
  /\ UNCHANGED <<attempts, unseen>>

\* The claimed row, what it shall show and the attempt, before Discord is asked.
StartEdit(b, r) ==
  LET a == Len(attempts) + 1
      view == IF renders[r].kind = "superseded" THEN <<"superseded", 0>> ELSE DesiredRender
  IN /\ attempts' = Append(attempts,
          [render |-> r, gen |-> renders[r].gen + 1, owner |-> b, msg |-> renders[r].msg,
           view |-> view, progress |-> "sending"])
     /\ calls' = calls \union {Call("edit", a, 0, b)}

ClaimRender(b, r) ==
  /\ r \in DOMAIN renders /\ renders[r].state \in {"pending", "failed"}
  /\ renders' = [renders EXCEPT ![r].state = "rendering", ![r].owner = b,
                                ![r].gen = @ + 1, ![r].tries = @ + 1]
  /\ StartEdit(b, r)
  /\ UNCHANGED <<talk, rowVars, looks, due, ghosts, turn, moves, shown, unseen>>

ClaimRenderManualRetry(b, r) ==
  /\ Staffed /\ r \in DOMAIN renders /\ renders[r].state = "exhausted" /\ Move
  /\ renders' = [renders EXCEPT ![r].state = "rendering", ![r].owner = b, ![r].gen = @ + 1]
  /\ StartEdit(b, r)
  /\ UNCHANGED <<talk, rowVars, looks, due, ghosts, turn, shown, unseen>>

ResolveRender(r) ==
  /\ Staffed /\ r \in DOMAIN renders /\ renders[r].state \in {"exhausted", "failed"} /\ Move
  /\ renders' = [renders EXCEPT ![r].state = "resolved"]
  /\ UNCHANGED <<talk, rowVars, looks, due, calls, ghosts, turn, attempts, shown, unseen>>

\* Discord takes the edits of one bot to one message in the order it asked.
AnswerEdit(c) ==
  /\ c \in calls /\ c.at = "sending" /\ c.kind = "edit"
  /\ \A e \in calls : (e.kind = "edit" /\ e.bot = c.bot /\ e.row < c.row
                         /\ attempts[e.row].msg = attempts[c.row].msg) => e.at = "answered"
  /\ \E d \in Delivery :
       /\ Reply(c, d[1])
       /\ shown' = IF d[2] THEN [shown EXCEPT ![attempts[c.row].msg] = c.row] ELSE shown
  /\ UNCHANGED <<talk, rowVars, looks, due, ghosts, turn, moves, renders, attempts, unseen>>

\* mutant: a row being edited counts as waiting.
WaitingOrRendering(rows, msg) ==
  \E r \in DOMAIN rows : rows[r].msg = msg /\ rows[r].state \in {"pending", "failed", "rendering"}

\* A waiting row of the same message makes a repair unnecessary, unless nobody
\* knows when the edit to repair lands.
Waiting(rows, msg) ==
  \E r \in DOMAIN rows : rows[r].msg = msg /\ rows[r].state \in {"pending", "failed"}

\* The outcome of the edit: only the claim it was made for is settled by it; if
\* that is gone and Discord may have been touched, a repair is queued at once.
FinishRenderAttempt(c) ==
  /\ Answered(c, "edit")
  /\ calls' = calls \ {c}
  /\ LET a == attempts[c.row]
         r == renders[a.render]
         won == r.state = "rendering" /\ r.gen = a.gen /\ r.owner = c.bot
         next == IF c.out = "delivered" THEN "settled"
                 ELSE IF r.tries >= MaxTries THEN "exhausted" ELSE "failed"
     IN /\ renders' =
             CASE won -> [renders EXCEPT ![a.render].state = next]
               [] ~won /\ c.out # "failed" /\ ~Waiting(renders, a.msg) ->
                    Append(renders, NewRender(a.msg, "current"))
               [] OTHER -> renders
        /\ attempts' = [attempts EXCEPT ![c.row].progress =
                          IF @ = "sending" THEN "finished" ELSE @]
  /\ UNCHANGED <<talk, rowVars, looks, due, ghosts, turn, moves, shown, unseen>>

OrphanEdit(a) == a.progress = "sending" /\ ~Live(a.owner)

\* Rows a dead owner was converging wait again, and each of its open attempts
\* forces a repair behind everything else.
RecoverRenders ==
  LET waiting == [r \in DOMAIN renders |->
                    IF renders[r].state = "rendering" /\ ~Live(renders[r].owner)
                    THEN [renders[r] EXCEPT !.state = "pending"] ELSE renders[r]]
      lost == {a \in DOMAIN attempts : OrphanEdit(attempts[a])}
      order == SetToSeq(lost)
  IN /\ renders' = waiting \o [n \in DOMAIN order |-> NewRender(attempts[order[n]].msg, "current")]
     /\ attempts' = [a \in DOMAIN attempts |->
                       IF OrphanEdit(attempts[a])
                       THEN [attempts[a] EXCEPT !.progress = "unknown"] ELSE attempts[a]]
     /\ UNCHANGED <<shown, unseen>>

\* Edits on their way when the bot dies may land; one whose attempt was already
\* given up by another bot, and landed or lands unreported, nobody will repair.
CrashEditing(b, arriving) ==
  LET edits == {c \in arriving : c.kind = "edit"}
      msgs == {attempts[c.row].msg : c \in edits}
      blind == {c \in calls : /\ c.bot = b /\ c.kind = "edit"
                              /\ attempts[c.row].progress = "unknown"}
  IN /\ shown' \in [DOMAIN shown -> 0..Len(attempts)]
     /\ \A m \in DOMAIN shown :
          IF m \in msgs THEN \E c \in edits : attempts[c.row].msg = m /\ shown'[m] = c.row
                        ELSE shown'[m] = shown[m]
     /\ unseen' = unseen \union {attempts[c.row].msg : c \in blind}
     /\ UNCHANGED <<renders, attempts>>

-----------------------------------------------------------------------------
\* Steps of the two modules together, by who takes them.
Poster == (RecordSenderFollowUp \/ SenderClose) /\ UNCHANGED screenVars

StaffAtTheRow ==
  /\ \/ Claim
     \/ BindRecoveryThread(UnfinishedRenders # {})
     \/ StaffClose
     \/ SetInternalHold
     \/ SetStage
     \/ Reopen
     \/ CreateReplyDraft
     \/ \E d \in DOMAIN drafts : ResolveReplyDraft(d)
     \/ \E f \in DOMAIN followUps : ResolveFollowUp(f)
  /\ UNCHANGED screenVars

StaffSends(b) ==
  /\ \/ LookAtAck(b)
     \/ \E d \in DOMAIN drafts : ClaimReplyDraft(b, d) \/ ClaimReplyDraftManualRetry(b, d)
     \/ \E f \in DOMAIN followUps : ClaimFollowUpManualRetry(b, f)
  /\ UNCHANGED screenVars

StaffAtTheScreen(b) ==
  \E r \in DOMAIN renders : ClaimRenderManualRetry(b, r) \/ ResolveRender(r)

Acknowledge == (\E b \in looks : BeginAcknowledgement(b)) /\ UNCHANGED screenVars

CallGoesOn(c) ==
  \/ /\ \/ Answer(c)
        \/ SettleAcknowledgement(c)
        \/ FinishReplyDraft(c)
        \/ SettleFollowUpRelay(c)
     /\ UNCHANGED screenVars
  \/ FinalizeStaffReply(c) /\ QueueFinalRender(c)
  \/ AnswerEdit(c)
  \/ FinishRenderAttempt(c)

SweepDeadOwners == Sweep /\ RecoverRenders

Scheduler(b) ==
  \/ SweepDeadOwners
  \/ \E f \in DOMAIN followUps : ClaimFollowUpRelay(b, f) /\ UNCHANGED screenVars
  \/ \E r \in DOMAIN renders : ClaimRender(b, r)
  \/ (ReadDue(b) \/ AutoCloseExpired(b) \/ PurgeBodies) /\ UNCHANGED screenVars

Talking ==
  /\ \/ Acknowledge
     \/ \E c \in calls : CallGoesOn(c)
     \/ Running # {} /\ (Poster \/ StaffAtTheRow)
     \/ \E b \in Running : StaffSends(b) \/ StaffAtTheScreen(b) \/ Scheduler(b)
  /\ UNCHANGED <<botVars, clock>>

CrashBot(b) ==
  \E arriving \in SUBSET {c \in calls : c.bot = b /\ c.at = "sending"} :
    Crash(b, arriving) /\ CrashEditing(b, arriving)

\* Recovery at the start may fail; the scheduler's sweep is the next chance.
StartBot(b) ==
  \/ Start(b) /\ RecoverRenders
  \/ StartUnrecovered(b) /\ UNCHANGED screenVars

Living ==
  \E b \in Bot : \/ CrashBot(b)
                 \/ StartBot(b)
                 \/ (Heartbeat(b) \/ Lapse(b)) /\ UNCHANGED screenVars

Next ==
  \/ Talking
  \/ Living
  \/ Tick /\ UNCHANGED screenVars

ScreensInit ==
  /\ Init
  /\ renders = <<>> /\ attempts = <<>> /\ unseen = {}
  /\ shown = [m \in {} |-> 0]

Spec == ScreensInit /\ [][Next]_vars

-----------------------------------------------------------------------------
(* Properties *)

\* What StaleScreenIsRepaired asks of the bots: two that both hold their claims do not
\* edit one message at once.  One bot cannot, whatever becomes of it and of those
\* before it; two that overlap can, as each claims a row and not a message
\* (service.ts, claimRenderAttempt), and Discord takes their edits in any order.
OneEditorEach ==
  \A c \in calls' \ calls : (c.kind = "edit" /\ c.at = "sending") =>
    \A e \in calls : (/\ e.kind = "edit" /\ attempts[e.row].progress = "sending"
                      /\ attempts[e.row].msg = attempts'[c.row].msg) => e.bot = c.bot

\* When no edit of a message is left to make, the message shows what the latest
\* edit that landed was made to show, or nothing is wrong with it: an edit of a
\* bot taken for dead, landing late, is repaired.  Not if that bot then dies too
\* (unseen), and not if the staff gave the message up.
LastLanded(m) ==
  {a \in DOMAIN attempts : attempts[a].msg = m /\ attempts[a].progress = "finished"
                           /\ renders[attempts[a].render].state = "settled"
                           /\ renders[attempts[a].render].gen = attempts[a].gen}

StaleScreenIsRepaired ==
  \A m \in DOMAIN shown :
    (/\ m \notin unseen
     /\ \A r \in DOMAIN renders : renders[r].msg = m => renders[r].state = "settled"
     /\ \A c \in calls : c.kind = "edit" => attempts[c.row].msg # m)
    => \A a \in LastLanded(m) : shown[m] >= a \/ attempts[shown[m]].view = attempts[a].view

\* A text reaches its reader again only if, since it was sent, a member of the
\* staff who was told that it may have arrived asked for the repeat: neither
\* recovery nor a late answer repeats by itself what may have arrived (service.ts,
\* settleFollowUpRelay, finishReplyDraft, recoverOrphanedEffects).
NothingRepeatedSilently ==
  \A x, y \in landed :
    (x[1] = y[1] /\ x[2] = y[2] /\ x[3] < y[3])
    => \E z \in agreed : z[1] = x[1] /\ z[2] = x[2] /\ x[3] < z[3] /\ z[3] =< y[3]

\* An ended conversation stays as it ended, by whom it ended first, whatever
\* answers come late; and until it is reopened no acknowledgement and no reply is
\* begun (service.ts, finalizeStaffReply, claimReplyDraft, close).
EndStands ==
  [][~Open /\ talk'.status = "closed" =>
       /\ talk'.side = talk.side
       /\ \A c \in calls' \ calls : c.at = "sending" => c.kind \in {"followUp", "edit"}]_vars

\* The time-out ends only a conversation whose turn is the poster's: never one
\* the poster answered or the staff holds or reopened, however old the deadline
\* the scheduler carries.
NoTimeoutOverAnAnswer == talk.side = "timeout" => turn = "poster"

\* confession-base.ts:2056-2060, of the scheduler's relay: a text that may have
\* arrived is not sent once more without being asked ("勝手にもう一度送ると...
\* 二重に運営へ流れる").  The code does send it: a repeat somebody asked for that
\* definitely fails makes the row "failed", which forgets the sends before it.
NothingResentByTheScheduler ==
  \A x, y \in landed : (x[1] = y[1] /\ x[2] = y[2] /\ x[3] < y[3]) => y \in agreed
=============================================================================
