----------------------------- MODULE Confession -----------------------------
(***************************************************************************)
(* One anonymous conversation: packages/core/src/confession/service.ts as  *)
(* apps/bot/src/commands/confession-base.ts, confession-startup.ts and the *)
(* scheduler drive it.  Its row, the acknowledgements and replies sent to  *)
(* the poster, the follow-ups handed to the staff, and the bots that send  *)
(* them.  A send is claimed in the database, goes to Discord, and its      *)
(* answer is written back; a bot can die or be taken for dead in between.  *)
(***************************************************************************)
EXTENDS Integers, FiniteSets, Sequences

CONSTANTS
  Bots,          \* bound: starts of the bot, each under a name of its own: 1..Bots
  MaxAttempts,   \* automatic attempts to hand over a follow-up
  MaxTries,      \* automatic attempts of one edit
  Term,          \* time the poster has to answer
  Keep,          \* time a text is kept
  MaxClock, MaxAcks, MaxDrafts, MaxFollowUps,   \* bounds: time, rows
  MaxMoves,      \* bound: things done by hand beyond the first try
  MaxLapses      \* bound: leases lost by a bot that still runs

ASSUME ConfessionAssumption ==
  /\ {Bots, MaxAttempts, MaxTries} \subseteq Nat \ {0}
  /\ Term \in Nat \ {0} /\ Keep \in Nat \ {0}
  /\ {MaxClock, MaxAcks, MaxDrafts, MaxFollowUps, MaxMoves, MaxLapses} \subseteq Nat

Bot == 1..Bots
Outcome == {"delivered", "failed", "unknown"}
\* The other stages (handoff, court, emergency) behave as "active".
Stage == {"active", "awaiting_poster", "awaiting_staff", "internal_hold"}

VARIABLES
  talk,       \* the conversation's row; deadline 0 is NULL, panel: it has its controls
  acks,       \* confession_ack_attempts
  drafts,     \* confession_reply_drafts
  followUps,  \* confession_follow_ups
  looks,      \* the bots about to begin an acknowledgement
  due,        \* bot |-> the deadline it read as due, 0 for none
  calls,      \* sends to Discord whose answer is not yet written back
  bots,       \* bot |-> "new", "running", "dead"
  lease,      \* bot |-> its heartbeat is recent
  clock,
  landed,     \* what reached its reader, as <<kind, row, generation>>
  agreed,     \* the sends a member of the staff asked for knowing they may repeat
  turn,       \* whose turn it is, "poster" after a reply that waits
  moves, lapses

rowVars == <<acks, drafts, followUps>>
botVars == <<bots, lease, lapses>>
ghosts == <<landed, agreed>>
talkVars == <<talk, rowVars, looks, due, calls, botVars, clock, ghosts, turn, moves>>

Running == {b \in Bot : bots[b] = "running"}
Live(b) == lease[b]
Open == talk.status # "closed"
Staffed == talk.panel          \* the staff's buttons are on the panel in the thread

Ended(side) == [talk EXCEPT !.status = "closed", !.side = side, !.deadline = 0]

Call(kind, n, gen, b) ==
  [kind |-> kind, row |-> n, gen |-> gen, bot |-> b, at |-> "sending", out |-> ""]

Arrival(c) == <<c.kind, c.row, c.gen>>

Answered(c, kind) == c \in calls /\ c.at = "answered" /\ c.kind = kind

Move == moves < MaxMoves /\ moves' = moves + 1

Init ==
  /\ talk = [status |-> "open", stage |-> "active", thread |-> FALSE, panel |-> FALSE,
             acked |-> FALSE, deadline |-> 0, side |-> ""]
  /\ acks = <<>> /\ drafts = <<>> /\ followUps = <<>>
  /\ looks = {} /\ due = [b \in Bot |-> 0] /\ calls = {}
  /\ bots = [b \in Bot |-> IF b = 1 THEN "running" ELSE "new"]
  /\ lease = [b \in Bot |-> b = 1]
  /\ clock = 0 /\ landed = {} /\ agreed = {} /\ turn = "us"
  /\ moves = 0 /\ lapses = 0

\* What is still to be settled by the staff although the conversation may be
\* over; an unfinished edit counts too (Screens).
OpenFollowUps ==
  {n \in DOMAIN followUps : followUps[n].out \notin {"delivered", "resolved", "expired"}}
OpenDrafts ==
  {n \in DOMAIN drafts : drafts[n].body /\ drafts[n].out \in {"failed", "unknown"}}

-----------------------------------------------------------------------------
(* The conversation's row *)

\* A member of the staff takes the case: a thread was created, and the update
\* binds it only to a case that is still open and has none.
\* The panel may fail to be posted; nothing posts it later.
Claim ==
  /\ talk.status = "open" /\ ~talk.thread
  /\ \E posted \in BOOLEAN :
       talk' = [talk EXCEPT !.status = "claimed", !.stage = "active",
                            !.thread = TRUE, !.panel = posted]
  /\ UNCHANGED <<rowVars, looks, due, calls, ghosts, turn, moves>>

\* The poster ended it before: the thread is bound without opening the case,
\* if something is left to settle.
BindRecoveryThread(unfinished) ==
  /\ ~Open /\ ~talk.thread
  /\ OpenFollowUps # {} \/ OpenDrafts # {} \/ unfinished
  /\ \E posted \in BOOLEAN :
       talk' = [talk EXCEPT !.thread = TRUE, !.panel = posted]
  /\ UNCHANGED <<rowVars, looks, due, calls, ghosts, turn, moves>>

StaffClose ==
  /\ Staffed /\ Open
  /\ talk' = Ended("staff")
  /\ UNCHANGED <<rowVars, looks, due, calls, ghosts, turn, moves>>

\* mutant: the poster ends an ended case once more.
SenderCloseAgain ==
  /\ talk' = Ended("sender")
  /\ UNCHANGED <<rowVars, looks, due, calls, ghosts, turn, moves>>

SenderClose ==
  /\ Open
  /\ talk' = Ended("sender")
  /\ UNCHANGED <<rowVars, looks, due, calls, ghosts, turn, moves>>

SetInternalHold ==
  /\ Staffed /\ Open /\ Move
  /\ talk' = [talk EXCEPT !.stage = "internal_hold", !.deadline = 0]
  /\ turn' = "us"
  /\ UNCHANGED <<rowVars, looks, due, calls, ghosts>>

\* An administrator sets the stage by hand, whatever the status; the deadline stays.
SetStage ==
  /\ Staffed /\ Move
  /\ \E stage \in Stage : talk' = [talk EXCEPT !.stage = stage]
  /\ UNCHANGED <<rowVars, looks, due, calls, ghosts, turn>>

Reopen ==
  /\ Staffed /\ ~Open /\ Move
  /\ talk' = [talk EXCEPT !.status = "claimed", !.stage = "active", !.side = "", !.deadline = 0]
  /\ turn' = "us"
  /\ UNCHANGED <<rowVars, looks, due, calls, ghosts>>

\* The scheduler reads the cases whose deadline passed; other cases and their
\* messages are dealt with before it comes to this one.
ReadDue(b) ==
  /\ due[b] = 0
  /\ Open /\ talk.stage = "awaiting_poster"
  /\ talk.deadline # 0 /\ talk.deadline =< clock
  /\ due' = [due EXCEPT ![b] = talk.deadline]
  /\ UNCHANGED <<talk, rowVars, looks, calls, ghosts, turn, moves>>

\* mutant: whatever happened to the stage and the deadline since.
StillDueIfOpen(b) == Open

StillDue(b) == Open /\ talk.stage = "awaiting_poster" /\ talk.deadline = due[b]

AutoCloseExpired(b) ==
  /\ due[b] # 0
  /\ due' = [due EXCEPT ![b] = 0]
  /\ talk' = IF StillDue(b) THEN Ended("timeout") ELSE talk
  /\ UNCHANGED <<rowVars, looks, calls, ghosts, turn, moves>>

-----------------------------------------------------------------------------
(* Acknowledgements *)

\* The button looks at the last attempt, and asks for an agreement if what became
\* of it is unknown; then it waits for Discord before it begins.
LookAtAck(b) ==
  /\ Staffed
  /\ Len(acks) + Cardinality(looks) < MaxAcks
  /\ looks' = looks \union {b}
  /\ UNCHANGED <<talk, rowVars, due, calls, ghosts, turn, moves>>

\* One statement checks the case and the other attempts and inserts the row.
BeginAcknowledgement(b) ==
  /\ b \in looks
  /\ looks' = looks \ {b}
  /\ IF Open /\ ~talk.acked /\ \A n \in DOMAIN acks : acks[n].out # "sending"
     THEN LET n == Len(acks) + 1 IN
          /\ acks' = Append(acks, [out |-> "sending", owner |-> b])
          /\ calls' = calls \union {Call("ack", n, 1, b)}
     ELSE UNCHANGED <<acks, calls>>
  /\ UNCHANGED <<talk, drafts, followUps, due, ghosts, turn, moves>>

SettleAcknowledgement(c) ==
  /\ Answered(c, "ack")
  /\ calls' = calls \ {c}
  /\ IF acks[c.row].out = "sending"
     THEN /\ acks' = [acks EXCEPT ![c.row].out = c.out]
          /\ talk' = [talk EXCEPT !.acked = @ \/ c.out = "delivered"]
     ELSE UNCHANGED <<acks, talk>>
  /\ UNCHANGED <<drafts, followUps, looks, due, ghosts, turn, moves>>

-----------------------------------------------------------------------------
(* Replies *)

CreateReplyDraft ==
  /\ Staffed /\ Open /\ Len(drafts) < MaxDrafts
  /\ drafts' = Append(drafts,
       [out |-> "none", consumed |-> FALSE, body |-> TRUE, gen |-> 0, owner |-> 0,
        intent |-> "wait", until |-> clock + Keep])
  /\ UNCHANGED <<talk, acks, followUps, looks, due, calls, ghosts, turn, moves>>

\* The draft d of the bot b becomes a send of its next generation.
SendDraft(b, d, intent) ==
  /\ drafts' = [drafts EXCEPT ![d].out = "sending", ![d].consumed = TRUE,
                              ![d].gen = @ + 1, ![d].owner = b, ![d].intent = intent]
  /\ calls' = calls \union {Call("reply", d, drafts[d].gen + 1, b)}

ClaimReplyDraft(b, d) ==
  /\ d \in DOMAIN drafts
  /\ ~drafts[d].consumed /\ Open
  /\ \E intent \in {"wait", "close"} : SendDraft(b, d, intent)
  /\ UNCHANGED <<talk, acks, followUps, looks, due, ghosts, turn, moves>>

\* The same text once more, by someone who was told it may arrive twice.
ClaimReplyDraftManualRetry(b, d) ==
  /\ d \in OpenDrafts /\ Open /\ Staffed /\ Move
  /\ SendDraft(b, d, drafts[d].intent)
  /\ agreed' = agreed \union {<<"reply", d, drafts[d].gen + 1>>}
  /\ UNCHANGED <<talk, acks, followUps, looks, due, landed, turn>>

Current(c) == drafts[c.row].out = "sending" /\ drafts[c.row].gen = c.gen

FinishReplyDraft(c) ==
  /\ Answered(c, "reply") /\ c.out # "delivered"
  /\ calls' = calls \ {c}
  /\ drafts' = IF Current(c) THEN [drafts EXCEPT ![c.row].out = c.out] ELSE drafts
  /\ UNCHANGED <<talk, acks, followUps, looks, due, ghosts, turn, moves>>

\* Delivered: the row, the text and the conversation in one transaction, if the
\* attempt is still the current one; an ended conversation stays as it ended.
FinalizeStaffReply(c) ==
  /\ Answered(c, "reply") /\ c.out = "delivered"
  /\ calls' = calls \ {c}
  /\ IF Current(c)
     THEN LET waits == drafts[c.row].intent = "wait" IN
          /\ drafts' = [drafts EXCEPT ![c.row].out = "delivered", ![c.row].body = FALSE]
          /\ talk' = CASE ~Open -> talk
                       [] Open /\ ~waits -> Ended("staff")
                       [] Open /\ waits -> [talk EXCEPT !.stage = "awaiting_poster",
                                                        !.deadline = clock + Term]
          /\ turn' = IF Open /\ waits THEN "poster" ELSE turn
     ELSE UNCHANGED <<drafts, talk, turn>>
  /\ UNCHANGED <<acks, followUps, looks, due, ghosts, moves>>

ResolveReplyDraft(d) ==
  /\ Staffed /\ d \in DOMAIN drafts /\ drafts[d].out \in {"failed", "unknown"} /\ Move
  /\ drafts' = [drafts EXCEPT ![d].out = "resolved", ![d].body = FALSE]
  /\ UNCHANGED <<talk, acks, followUps, looks, due, calls, ghosts, turn>>

-----------------------------------------------------------------------------
(* Follow-ups *)

\* The poster writes: stored, and the deadline lifted, in one transaction.
RecordSenderFollowUp ==
  /\ Open /\ Len(followUps) < MaxFollowUps
  /\ talk' = [talk EXCEPT !.stage = "awaiting_staff", !.deadline = 0]
  /\ followUps' = Append(followUps,
       [out |-> "none", body |-> TRUE, gen |-> 0, owner |-> 0, attempts |-> 0,
        until |-> clock + Keep])
  /\ turn' = "us"
  /\ UNCHANGED <<acks, drafts, looks, due, calls, ghosts, moves>>

RelayFollowUp(b, f) ==
  /\ followUps' = [followUps EXCEPT ![f].out = "sending", ![f].gen = @ + 1,
                                    ![f].attempts = @ + 1, ![f].owner = b]
  /\ calls' = calls \union {Call("followUp", f, followUps[f].gen + 1, b)}

\* By the handler that stored it or by the scheduler, whichever is first.
ClaimFollowUpRelay(b, f) ==
  /\ f \in DOMAIN followUps /\ talk.thread
  /\ followUps[f].body /\ followUps[f].out \in {"none", "failed"}
  /\ followUps[f].attempts < MaxAttempts
  /\ RelayFollowUp(b, f)
  /\ UNCHANGED <<talk, acks, drafts, looks, due, ghosts, turn, moves>>

NeedsDecision(f) ==
  /\ followUps[f].body
  /\ \/ followUps[f].out = "unknown"
     \/ followUps[f].out = "failed" /\ followUps[f].attempts >= MaxAttempts

ClaimFollowUpManualRetry(b, f) ==
  /\ Staffed /\ f \in DOMAIN followUps /\ NeedsDecision(f) /\ Move
  /\ RelayFollowUp(b, f)
  /\ agreed' = agreed \union {<<"followUp", f, followUps[f].gen + 1>>}
  /\ UNCHANGED <<talk, acks, drafts, looks, due, landed, turn>>

SettleFollowUpRelay(c) ==
  /\ Answered(c, "followUp")
  /\ calls' = calls \ {c}
  /\ followUps' =
       IF followUps[c.row].out = "sending" /\ followUps[c.row].gen = c.gen
       THEN [followUps EXCEPT ![c.row].out = c.out, ![c.row].body = c.out # "delivered"]
       ELSE followUps
  /\ UNCHANGED <<talk, acks, drafts, looks, due, ghosts, turn, moves>>

ResolveFollowUp(f) ==
  /\ Staffed /\ f \in DOMAIN followUps /\ followUps[f].out \in {"failed", "unknown"} /\ Move
  /\ followUps' = [followUps EXCEPT ![f].out = "resolved", ![f].body = FALSE]
  /\ UNCHANGED <<talk, acks, drafts, looks, due, calls, ghosts, turn>>

-----------------------------------------------------------------------------
(* Discord, the bots and time *)

\* What a bot is told about a send, and whether it arrived: a refusal carries a
\* code; without a code the bot cannot tell.
Delivery ==
  {<<"delivered", TRUE>>, <<"unknown", TRUE>>, <<"unknown", FALSE>>, <<"failed", FALSE>>}

Reply(c, out) ==
  calls' = (calls \ {c}) \union {[c EXCEPT !.at = "answered", !.out = out]}

Answer(c) ==
  /\ c \in calls /\ c.at = "sending" /\ c.kind # "edit"
  /\ \E d \in Delivery :
       /\ Reply(c, d[1])
       /\ landed' = IF d[2] THEN landed \union {Arrival(c)} ELSE landed
  /\ UNCHANGED <<talk, rowVars, looks, due, agreed, turn, moves>>

\* Rows a dead owner left behind; what it may have sent is unknown.
Orphan(row) == row.out = "sending" /\ ~Live(row.owner)

\* mutant: what a dead owner was sending counts as not sent.
RecoveredAsFailed(rows) ==
  [n \in DOMAIN rows |-> IF Orphan(rows[n]) THEN [rows[n] EXCEPT !.out = "failed"] ELSE rows[n]]

Recovered(rows) ==
  [n \in DOMAIN rows |-> IF Orphan(rows[n]) THEN [rows[n] EXCEPT !.out = "unknown"] ELSE rows[n]]

RecoverRows ==
  /\ acks' = Recovered(acks)
  /\ drafts' = Recovered(drafts)
  /\ followUps' = Recovered(followUps)

\* mutant: recovery is left to the start.
SweepNothing == UNCHANGED <<talk, rowVars, looks, due, calls, ghosts, turn, moves>>

\* A minute of the scheduler.
Sweep ==
  /\ RecoverRows
  /\ UNCHANGED <<talk, looks, due, calls, ghosts, turn, moves>>

\* The heart beats on a timer of its own; late, it counts as dead.
Heartbeat(b) ==
  /\ bots[b] = "running" /\ ~lease[b]
  /\ lease' = [lease EXCEPT ![b] = TRUE]
  /\ UNCHANGED <<talk, rowVars, looks, due, calls, bots, lapses, clock, ghosts, turn, moves>>

Lapse(b) ==
  /\ lease[b]
  /\ \/ bots[b] = "dead" /\ UNCHANGED lapses
     \/ bots[b] = "running" /\ lapses < MaxLapses /\ lapses' = lapses + 1
  /\ lease' = [lease EXCEPT ![b] = FALSE]
  /\ UNCHANGED <<talk, rowVars, looks, due, calls, bots, clock, ghosts, turn, moves>>

\* What was on its way when the bot died may still arrive.  The last start lives.
Crash(b, arriving) ==
  /\ bots[b] = "running" /\ b < Bots
  /\ arriving \subseteq {c \in calls : c.bot = b /\ c.at = "sending"}
  /\ bots' = [bots EXCEPT ![b] = "dead"]
  /\ calls' = {c \in calls : c.bot # b}
  /\ looks' = looks \ {b}
  /\ due' = [due EXCEPT ![b] = 0]
  /\ landed' = landed \union {Arrival(c) : c \in {a \in arriving : a.kind # "edit"}}
  /\ UNCHANGED <<talk, rowVars, lease, lapses, clock, agreed, turn, moves>>

\* The next start, which may overlap with the last one.
Starting(b) ==
  /\ bots[b] = "new" /\ \A a \in Bot : a < b => bots[a] # "new"
  /\ bots' = [bots EXCEPT ![b] = "running"]
  /\ lease' = [lease EXCEPT ![b] = TRUE]
  /\ UNCHANGED <<talk, looks, due, calls, lapses, clock, ghosts, turn, moves>>

\* It beats and then recovers, both before it sends anything; the recovery may
\* fail, and the bot goes on.
Start(b) == Starting(b) /\ RecoverRows
StartUnrecovered(b) == Starting(b) /\ UNCHANGED rowVars

Tick ==
  /\ clock < MaxClock
  /\ clock' = clock + 1
  /\ UNCHANGED <<talk, rowVars, looks, due, calls, botVars, ghosts, turn, moves>>

\* Once a day, texts past their time go, unless they are being sent; a row that
\* lost its text before it was delivered is at its end.
TextKept(row) == row.body /\ (row.until > clock \/ row.out = "sending")

Purged(rows) ==
  [n \in DOMAIN rows |->
     [rows[n] EXCEPT !.body = TextKept(rows[n]),
                     !.out = IF ~TextKept(rows[n]) /\ @ \in {"none", "failed", "unknown"}
                             THEN "expired" ELSE @]]

PurgeBodies ==
  /\ drafts' = Purged(drafts)
  /\ followUps' = Purged(followUps)
  /\ UNCHANGED <<talk, acks, looks, due, calls, ghosts, turn, moves>>
=============================================================================
