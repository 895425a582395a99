------------------------- MODULE Confession_proofs -------------------------
(***************************************************************************)
(* Proofs about one anonymous conversation with its screens: no text       *)
(* reaches its reader again unless somebody asked for it, an ended         *)
(* conversation stays as it ended, the time-out ends no conversation the   *)
(* poster answered, and a screen an edit of a dead bot made stale is       *)
(* repaired; for any number of bots, rows, sends, attempts, edits, crashes *)
(* and lost leases.                                                        *)
(***************************************************************************)
EXTENDS ConfessionScreens, FiniteSetTheorems, SequenceTheorems, TLAPS

-----------------------------------------------------------------------------
(* Types *)

Talk ==
  [status: {"open", "claimed", "closed"}, stage: Stage, thread: BOOLEAN, panel: BOOLEAN,
   acked: BOOLEAN, deadline: Nat, side: {"", "staff", "sender", "timeout"}]

Ack == [out: Outcome \union {"sending"}, owner: Bot]

RowOut == Outcome \union {"none", "sending", "resolved", "expired"}

Draft ==
  [out: RowOut, consumed: BOOLEAN, body: BOOLEAN, gen: Nat, owner: Nat,
   intent: {"wait", "close"}, until: Int]

FollowUp ==
  [out: RowOut, body: BOOLEAN, gen: Nat, owner: Nat, attempts: Nat, until: Int]

SendKind == {"ack", "reply", "followUp"}

Send ==
  [kind: SendKind, row: Nat, gen: Nat, bot: Bot, at: {"sending"}, out: {""}]
  \union [kind: SendKind, row: Nat, gen: Nat, bot: Bot, at: {"answered"}, out: Outcome]

\* The sends under way; the edits of screens are not among them.
Sends == {c \in calls : c.kind # "edit"}

CallShape(c) ==
  c = [kind |-> c.kind, row |-> c.row, gen |-> c.gen, bot |-> c.bot, at |-> c.at, out |-> c.out]

RowTypes ==
  /\ acks \in Seq(Ack) /\ drafts \in Seq(Draft) /\ followUps \in Seq(FollowUp)

CallTypes ==
  /\ \A c \in calls : CallShape(c)
  /\ Sends \subseteq Send
  /\ landed \subseteq SendKind \X Nat \X Nat
  /\ agreed \subseteq SendKind \X Nat \X Nat

ConfessionTypes ==
  /\ talk \in Talk
  /\ RowTypes
  /\ CallTypes
  /\ looks \subseteq Bot /\ clock \in Nat

-----------------------------------------------------------------------------
(* The inductive invariants *)

\* An open conversation was ended by nobody, and whoever owes an answer by a
\* deadline, or let it pass, is the poster.
TurnIsKnown ==
  /\ Open => talk.side = ""
  /\ talk.deadline # 0 => turn = "poster"
  /\ NoTimeoutOverAnAnswer

\* What was begun, and of that what has arrived or still may.
Begun == landed \union {Arrival(c) : c \in Sends}
MayArrive == landed \union {Arrival(c) : c \in {s \in Sends : s.at = "sending"}}

\* Somebody asked for a repeat of x, with generation g or before.
Asked(x, g) ==
  \E z \in agreed : z[1] = x[1] /\ z[2] = x[2] /\ x[3] < z[3] /\ z[3] =< g

\* A row counts what was begun for it.
RowsKnown ==
  \A x \in Begun :
    /\ x[1] = "ack" => x[2] \in DOMAIN acks /\ x[3] = 1
    /\ x[1] = "reply" => x[2] \in DOMAIN drafts /\ x[3] \in 1..drafts[x[2]].gen
    /\ x[1] = "followUp" => x[2] \in DOMAIN followUps /\ x[3] \in 1..followUps[x[2]].gen

\* A row nobody claimed has sent nothing.
FirstTries ==
  /\ \A n \in DOMAIN drafts : ~drafts[n].consumed => drafts[n].gen = 0
  /\ \A n \in DOMAIN followUps : followUps[n].out = "none" => followUps[n].gen = 0

\* One send each; what has arrived is not under way and was not refused.
OneSendEach ==
  /\ \A c, d \in Sends : Arrival(c) = Arrival(d) => c = d
  /\ \A c \in Sends : Arrival(c) \in landed => c.at = "answered" /\ c.out # "failed"

\* Nothing is begun after what may have arrived, unless asked for.
RepeatsAsked ==
  \A x \in MayArrive, y \in Begun :
    (x[1] = y[1] /\ x[2] = y[2] /\ x[3] < y[3]) => Asked(x, y[3])

\* What the scheduler relays by itself was refused, and everything before it that
\* may have arrived was followed by a request.
FailedIsSafe ==
  \A x \in MayArrive :
    (x[1] = "followUp" /\ followUps[x[2]].out = "failed") => Asked(x, followUps[x[2]].gen)

SendsInv == RowsKnown /\ FirstTries /\ OneSendEach /\ RepeatsAsked /\ FailedIsSafe

ConfessionInv == ConfessionTypes /\ TurnIsKnown /\ SendsInv

-----------------------------------------------------------------------------
(* Rows *)

\* A row written in place: the others stay.
LEMMA RowWritten ==
  ASSUME NEW T, NEW rows \in Seq(T), NEW n \in DOMAIN rows, NEW row \in T
  PROVE  /\ [rows EXCEPT ![n] = row] \in Seq(T)
         /\ DOMAIN [rows EXCEPT ![n] = row] = DOMAIN rows
         /\ \A j \in DOMAIN rows : [rows EXCEPT ![n] = row][j] = IF j = n THEN row ELSE rows[j]
<1>1. DOMAIN rows = 1..Len(rows)
  OBVIOUS
<1>2. [rows EXCEPT ![n] = row] \in Seq(T)
  BY <1>1, ExceptSeq
<1> QED
  BY <1>1, <1>2

\* Rows written all at once.
LEMMA RowsWritten ==
  ASSUME NEW T, NEW rows \in Seq(T), NEW new, DOMAIN new = DOMAIN rows,
         new = [n \in DOMAIN rows |-> new[n]], \A n \in DOMAIN rows : new[n] \in T
  PROVE  new \in Seq(T)
<1>1. DOMAIN rows = 1..Len(rows) /\ Len(rows) \in Nat
  OBVIOUS
<1>2. new \in [1..Len(rows) -> T]
  BY <1>1
<1> QED
  BY <1>1, <1>2, SeqDef

\* A row written at the end.
LEMMA RowAdded ==
  ASSUME NEW T, NEW rows \in Seq(T), NEW row \in T
  PROVE  /\ Append(rows, row) \in Seq(T)
         /\ DOMAIN Append(rows, row) = DOMAIN rows \union {Len(rows) + 1}
         /\ \A j \in DOMAIN rows : Append(rows, row)[j] = rows[j]
         /\ Append(rows, row)[Len(rows) + 1] = row
         /\ Len(rows) + 1 \notin DOMAIN rows /\ Len(rows) + 1 \in Nat
<1>1. DOMAIN rows = 1..Len(rows) /\ Len(rows) \in Nat
  OBVIOUS
<1>2. /\ Append(rows, row) \in Seq(T) /\ Len(Append(rows, row)) = Len(rows) + 1
      /\ \A i \in 1..Len(rows) : Append(rows, row)[i] = rows[i]
      /\ Append(rows, row)[Len(rows) + 1] = row
  BY AppendProperties
<1>3. DOMAIN Append(rows, row) = 1..(Len(rows) + 1)
  BY <1>2
<1> QED
  BY <1>1, <1>2, <1>3
-----------------------------------------------------------------------------
(* What a step may do to the sends *)

\* Rows are added unsent, and keep their count and the way they came to be failed.
RowsKept ==
  /\ DOMAIN acks \subseteq DOMAIN acks'
  /\ \A n \in DOMAIN drafts :
       /\ n \in DOMAIN drafts' /\ drafts'[n].gen = drafts[n].gen
       /\ drafts[n].consumed => drafts'[n].consumed
  /\ \A n \in DOMAIN followUps :
       /\ n \in DOMAIN followUps' /\ followUps'[n].gen = followUps[n].gen
       /\ followUps'[n].out \in {"none", "failed"} => followUps'[n].out = followUps[n].out
  /\ \A n \in DOMAIN drafts' \ DOMAIN drafts : drafts'[n].gen = 0
  /\ \A n \in DOMAIN followUps' \ DOMAIN followUps : followUps'[n].gen = 0

\* No send begins.
SendsKept ==
  /\ agreed' = agreed
  /\ Begun' \subseteq Begun
  /\ MayArrive' \subseteq MayArrive
  /\ OneSendEach'

LEMMA MayArriveIsBegun == MayArrive \subseteq Begun
BY DEF MayArrive, Begun

LEMMA AskedStands ==
  ASSUME NEW x, NEW g, Asked(x, g), agreed \subseteq agreed'
  PROVE  Asked(x, g)'
BY DEF Asked

LEMMA QuietStep ==
  ASSUME SendsInv, RowsKept, SendsKept
  PROVE  SendsInv'
<1> USE DEF SendsInv
<1>1. RowsKnown'
  <2> SUFFICES ASSUME NEW x \in Begun'
               PROVE  /\ x[1] = "ack" => x[2] \in DOMAIN acks' /\ x[3] = 1
                      /\ x[1] = "reply" => x[2] \in DOMAIN drafts' /\ x[3] \in 1..drafts'[x[2]].gen
                      /\ x[1] = "followUp" => x[2] \in DOMAIN followUps' /\ x[3] \in 1..followUps'[x[2]].gen
    BY DEF RowsKnown
  <2>1. x \in Begun
    BY DEF SendsKept
  <2> QED
    BY <2>1 DEF RowsKnown, RowsKept
<1>2. FirstTries'
  <2>1. \A n \in DOMAIN drafts' : ~drafts'[n].consumed => drafts'[n].gen = 0
    <3> SUFFICES ASSUME NEW n \in DOMAIN drafts', ~drafts'[n].consumed
                 PROVE  drafts'[n].gen = 0
      OBVIOUS
    <3>1. CASE n \in DOMAIN drafts
      BY <3>1 DEF RowsKept, FirstTries
    <3>2. CASE n \notin DOMAIN drafts
      BY <3>2 DEF RowsKept
    <3> QED
      BY <3>1, <3>2
  <2>2. \A n \in DOMAIN followUps' : followUps'[n].out = "none" => followUps'[n].gen = 0
    <3> SUFFICES ASSUME NEW n \in DOMAIN followUps', followUps'[n].out = "none"
                 PROVE  followUps'[n].gen = 0
      OBVIOUS
    <3>1. CASE n \in DOMAIN followUps
      BY <3>1 DEF RowsKept, FirstTries
    <3>2. CASE n \notin DOMAIN followUps
      BY <3>2 DEF RowsKept
    <3> QED
      BY <3>1, <3>2
  <2> QED
    BY <2>1, <2>2 DEF FirstTries
<1>3. OneSendEach'
  BY DEF SendsKept
<1>4. RepeatsAsked'
  <2> SUFFICES ASSUME NEW x \in MayArrive', NEW y \in Begun',
                      x[1] = y[1], x[2] = y[2], x[3] < y[3]
               PROVE  Asked(x, y[3])'
    BY DEF RepeatsAsked
  <2>1. Asked(x, y[3])
    BY DEF SendsKept, RepeatsAsked
  <2> QED
    BY <2>1, AskedStands DEF SendsKept
<1>5. FailedIsSafe'
  <2> SUFFICES ASSUME NEW x \in MayArrive', x[1] = "followUp", followUps'[x[2]].out = "failed"
               PROVE  Asked(x, followUps[x[2]].gen)'
    BY DEF FailedIsSafe
  <2>1. x \in MayArrive /\ x \in Begun /\ x[2] \in DOMAIN followUps
    BY MayArriveIsBegun DEF SendsKept, RowsKnown
  <2>2. followUps[x[2]].out = "failed" /\ followUps'[x[2]].gen = followUps[x[2]].gen
    BY <2>1 DEF RowsKept
  <2>3. Asked(x, followUps[x[2]].gen)
    BY <2>1, <2>2 DEF FailedIsSafe
  <2>4. Asked(x, followUps'[x[2]].gen)
    BY <2>2, <2>3
  <2> DEFINE g == followUps'[x[2]].gen
  <2>5. agreed \subseteq agreed' /\ Asked(x, g)
    BY <2>4 DEF SendsKept
  <2> QED
    BY <2>5 DEF Asked
<1> QED
  BY <1>1, <1>2, <1>3, <1>4, <1>5

\* Sends end without an arrival.
LEMMA SendsEnd ==
  ASSUME OneSendEach, Sends' \subseteq Sends, landed' = landed, agreed' = agreed
  PROVE  SendsKept
<1>1. Begun' \subseteq Begun /\ MayArrive' \subseteq MayArrive
  BY DEF Begun, MayArrive, Arrival
<1>2. OneSendEach'
  BY DEF OneSendEach, Arrival
<1> QED
  BY <1>1, <1>2 DEF SendsKept

LEMMA BegunTyped ==
  ASSUME CallTypes
  PROVE  \A x \in Begun : x \in SendKind \X Nat \X Nat
<1>1. \A c \in Sends : c.kind \in SendKind /\ c.row \in Nat /\ c.gen \in Nat
  BY DEF CallTypes, Send
<1>2. \A c \in Sends : Arrival(c) \in SendKind \X Nat \X Nat
  BY <1>1 DEF Arrival
<1> QED
  BY <1>2 DEF Begun, CallTypes

\* A send begins: newer than all of its row, and asked for if any may have arrived.
LEMMA SendBegins ==
  ASSUME NEW k \in SendKind, NEW n \in Nat, NEW g \in Nat, NEW b \in Bot,
         CallTypes, OneSendEach, RepeatsAsked,
         calls' = calls \union {Call(k, n, g, b)}, landed' = landed, agreed \subseteq agreed',
         \A x \in Begun : (x[1] = k /\ x[2] = n) => x[3] < g,
         \A x \in MayArrive : (x[1] = k /\ x[2] = n) => Asked(x, g)'
  PROVE  /\ Begun' = Begun \union {<<k, n, g>>}
         /\ MayArrive' = MayArrive \union {<<k, n, g>>}
         /\ OneSendEach' /\ RepeatsAsked'
<1> DEFINE c == Call(k, n, g, b)
           new == <<k, n, g>>
<1>1. /\ c.kind = k /\ c.row = n /\ c.gen = g /\ c.at = "sending" /\ Arrival(c) = new
      /\ Sends' = Sends \union {c}
  <2>1. /\ c.kind = k /\ c.row = n /\ c.gen = g /\ c.at = "sending" /\ Arrival(c) = new
        /\ k # "edit"
    BY DEF Call, Arrival, SendKind
  <2>2. calls' = calls \union {c}
    OBVIOUS
  <2> HIDE DEF c
  <2> QED
    BY <2>1, <2>2 DEF Sends
<1>2. \A x \in Begun : x \in SendKind \X Nat \X Nat
  BY BegunTyped
<1>3. new \notin Begun
  BY <1>2
<1> HIDE DEF c
<1>4. Begun' = Begun \union {new} /\ MayArrive' = MayArrive \union {new}
  BY <1>1 DEF Begun, MayArrive, Arrival
<1>5. OneSendEach'
  <2>1. \A d \in Sends : Arrival(d) # Arrival(c)
    BY <1>1, <1>3 DEF Begun
  <2>2. Arrival(c) \notin landed
    BY <1>1, <1>3 DEF Begun
  <2> QED
    BY <1>1, <2>1, <2>2 DEF OneSendEach, Arrival
<1>6. RepeatsAsked'
  <2> SUFFICES ASSUME NEW x \in MayArrive', NEW y \in Begun',
                      x[1] = y[1], x[2] = y[2], x[3] < y[3]
               PROVE  Asked(x, y[3])'
    BY DEF RepeatsAsked
  <2> HIDE DEF new
  <2>n. new[1] = k /\ new[2] = n /\ new[3] = g
    BY DEF new
  <2>1. CASE x \in MayArrive /\ y \in Begun
    <3>1. Asked(x, y[3])
      BY <2>1 DEF RepeatsAsked
    <3> QED
      BY <3>1, AskedStands
  <2>2. CASE x \in MayArrive /\ y = new
    <3>1. Asked(x, g)' /\ y[3] = g
      BY <2>2, <2>n
    <3> QED
      BY <3>1 DEF Asked
  <2>3. CASE x = new /\ y \in Begun
    <3>1. y[3] < g /\ y[3] \in Nat
      BY <2>3, <2>n, <1>2
    <3> QED
      BY <3>1, <2>3, <2>n
  <2>4. CASE x = new /\ y = new
    BY <2>4, <2>n
  <2> QED
    BY <2>1, <2>2, <2>3, <2>4, <1>4
<1> QED
  BY <1>4, <1>5, <1>6
-----------------------------------------------------------------------------
(* The conversation's row *)

TalkInv == talk \in Talk /\ clock \in Nat /\ TurnIsKnown

\* Who ended it is not written again until it is reopened.
SideStands == (~Open /\ talk'.status = "closed") => talk'.side = talk.side

LEMMA TalkUntouched ==
  ASSUME TalkInv, talk' = talk, turn' = turn
  PROVE  talk' \in Talk /\ TurnIsKnown' /\ SideStands
BY DEF TalkInv, TurnIsKnown, SideStands, Open, NoTimeoutOverAnAnswer

LEMMA TalkEnds ==
  ASSUME TalkInv, NEW side \in {"staff", "sender", "timeout"}, Open,
         talk' = Ended(side), turn' = turn, side = "timeout" => turn = "poster"
  PROVE  talk' \in Talk /\ TurnIsKnown' /\ SideStands
<1>1. /\ talk' \in Talk /\ talk'.status = "closed" /\ talk'.side = side /\ talk'.deadline = 0
  BY DEF TalkInv, Talk, Ended
<1> QED
  BY <1>1 DEF TurnIsKnown, SideStands, Open, NoTimeoutOverAnAnswer

LEMMA TalkStep ==
  ASSUME TalkInv, Next
  PROVE  talk' \in Talk /\ TurnIsKnown' /\ SideStands
<1> DEFINE Kept == talk' \in Talk /\ TurnIsKnown' /\ SideStands
<1> SUFFICES Kept
  OBVIOUS
<1> USE DEF TalkInv
<1>1. ASSUME Claim PROVE Kept
  <2>1. PICK posted \in BOOLEAN :
          talk' = [talk EXCEPT !.status = "claimed", !.stage = "active",
                               !.thread = TRUE, !.panel = posted]
    BY <1>1 DEF Claim
  <2>2. /\ talk' \in Talk /\ talk'.side = talk.side /\ talk'.deadline = talk.deadline
        /\ talk'.status = "claimed" /\ talk.status = "open" /\ turn' = turn
    BY <1>1, <2>1 DEF Claim, Talk, Stage
  <2> QED
    BY <2>2 DEF TurnIsKnown, SideStands, Open, NoTimeoutOverAnAnswer
<1>2. ASSUME NEW u, BindRecoveryThread(u) PROVE Kept
  <2>1. PICK posted \in BOOLEAN : talk' = [talk EXCEPT !.thread = TRUE, !.panel = posted]
    BY <1>2 DEF BindRecoveryThread
  <2>2. /\ talk' \in Talk /\ talk'.side = talk.side /\ talk'.deadline = talk.deadline
        /\ talk'.status = talk.status /\ turn' = turn
    BY <1>2, <2>1 DEF BindRecoveryThread, Talk
  <2> QED
    BY <2>2 DEF TurnIsKnown, SideStands, Open, NoTimeoutOverAnAnswer
<1>3. ASSUME StaffClose \/ SenderClose PROVE Kept
  BY <1>3, TalkEnds DEF StaffClose, SenderClose
<1>4. ASSUME SetInternalHold PROVE Kept
  <2>1. /\ talk' \in Talk /\ talk'.side = talk.side /\ talk'.deadline = 0
        /\ talk'.status = talk.status /\ Open /\ turn' = "us"
    BY <1>4 DEF SetInternalHold, Talk, Stage
  <2> QED
    BY <2>1 DEF TurnIsKnown, SideStands, Open, NoTimeoutOverAnAnswer
<1>5. ASSUME SetStage PROVE Kept
  <2>1. PICK stage \in Stage : talk' = [talk EXCEPT !.stage = stage]
    BY <1>5 DEF SetStage
  <2>2. /\ talk' \in Talk /\ talk'.side = talk.side /\ talk'.deadline = talk.deadline
        /\ talk'.status = talk.status /\ turn' = turn
    BY <1>5, <2>1 DEF SetStage, Talk
  <2> QED
    BY <2>2 DEF TurnIsKnown, SideStands, Open, NoTimeoutOverAnAnswer
<1>6. ASSUME Reopen PROVE Kept
  <2>1. /\ talk' \in Talk /\ talk'.side = "" /\ talk'.deadline = 0
        /\ talk'.status = "claimed"
    BY <1>6 DEF Reopen, Talk, Stage
  <2> QED
    BY <2>1 DEF TurnIsKnown, SideStands, Open, NoTimeoutOverAnAnswer
<1>7. ASSUME NEW b, AutoCloseExpired(b) PROVE Kept
  <2>1. CASE StillDue(b)
    <3>1. Open /\ talk.deadline # 0 /\ talk' = Ended("timeout") /\ turn' = turn
      BY <1>7, <2>1 DEF AutoCloseExpired, StillDue
    <3>2. turn = "poster"
      BY <3>1 DEF TurnIsKnown
    <3> QED
      BY <3>1, <3>2, TalkEnds
  <2>2. CASE ~StillDue(b)
    BY <1>7, <2>2, TalkUntouched DEF AutoCloseExpired
  <2> QED
    BY <2>1, <2>2
<1>8. ASSUME NEW c, SettleAcknowledgement(c) PROVE Kept
  <2>1. CASE acks[c.row].out = "sending"
    <3>1. talk' = [talk EXCEPT !.acked = @ \/ c.out = "delivered"] /\ turn' = turn
      BY <1>8, <2>1 DEF SettleAcknowledgement
    <3>2. (talk.acked \/ c.out = "delivered") \in BOOLEAN
      OBVIOUS
    <3>3. /\ talk' \in Talk /\ talk'.side = talk.side /\ talk'.deadline = talk.deadline
          /\ talk'.status = talk.status
      BY <3>1, <3>2 DEF Talk
    <3> QED
      BY <3>1, <3>3 DEF TurnIsKnown, SideStands, Open, NoTimeoutOverAnAnswer
  <2>2. CASE acks[c.row].out # "sending"
    BY <1>8, <2>2, TalkUntouched DEF SettleAcknowledgement
  <2> QED
    BY <2>1, <2>2
<1>9. ASSUME NEW c, FinalizeStaffReply(c) PROVE Kept
  <2>1. CASE Current(c) /\ Open /\ drafts[c.row].intent = "wait"
    <3>1. /\ talk' = [talk EXCEPT !.stage = "awaiting_poster", !.deadline = clock + Term]
          /\ turn' = "poster"
      BY <1>9, <2>1 DEF FinalizeStaffReply
    <3>2. clock + Term \in Nat
      BY ConfessionAssumption
    <3>3. /\ talk' \in Talk /\ talk'.side = talk.side /\ talk'.status = talk.status
      BY <3>1, <3>2 DEF Talk, Stage
    <3> QED
      BY <2>1, <3>1, <3>3 DEF TurnIsKnown, SideStands, Open, NoTimeoutOverAnAnswer
  <2>2. CASE Current(c) /\ Open /\ drafts[c.row].intent # "wait"
    <3>1. talk' = Ended("staff") /\ turn' = turn
      BY <1>9, <2>2 DEF FinalizeStaffReply
    <3> QED
      BY <2>2, <3>1, TalkEnds
  <2>3. CASE ~Current(c) \/ ~Open
    <3>1. talk' = talk /\ turn' = turn
      BY <1>9, <2>3 DEF FinalizeStaffReply
    <3> QED
      BY <3>1, TalkUntouched
  <2> QED
    BY <2>1, <2>2, <2>3
<1>10. ASSUME RecordSenderFollowUp PROVE Kept
  <2>1. /\ talk' \in Talk /\ talk'.side = talk.side /\ talk'.deadline = 0
        /\ talk'.status = talk.status /\ Open /\ turn' = "us"
    BY <1>10 DEF RecordSenderFollowUp, Talk, Stage
  <2> QED
    BY <2>1 DEF TurnIsKnown, SideStands, Open, NoTimeoutOverAnAnswer
<1>11. CASE UNCHANGED <<talk, turn>>
  BY <1>11, TalkUntouched
<1> HIDE DEF Kept, TalkInv
<1>12. CASE Talking
  <2>1. CASE Acknowledge
    BY <2>1, <1>11 DEF Acknowledge, BeginAcknowledgement
  <2>2. ASSUME NEW c \in calls, CallGoesOn(c) PROVE Kept
    BY <2>2, <1>8, <1>9, <1>11 DEF CallGoesOn, Answer, FinishReplyDraft,
         SettleFollowUpRelay, AnswerEdit, FinishRenderAttempt
  <2>3. CASE Poster
    BY <2>3, <1>3, <1>10 DEF Poster
  <2>4. CASE StaffAtTheRow
    BY <2>4, <1>1, <1>2, <1>3, <1>4, <1>5, <1>6, <1>11
       DEF StaffAtTheRow, CreateReplyDraft, ResolveReplyDraft, ResolveFollowUp
  <2>5. ASSUME NEW b \in Running, StaffSends(b) PROVE Kept
    BY <2>5, <1>11 DEF StaffSends, LookAtAck, ClaimReplyDraft, ClaimReplyDraftManualRetry,
         ClaimFollowUpManualRetry
  <2>6. ASSUME NEW b \in Running, StaffAtTheScreen(b) PROVE Kept
    BY <2>6, <1>11 DEF StaffAtTheScreen, ClaimRenderManualRetry, ResolveRender
  <2>7. ASSUME NEW b \in Running, Scheduler(b) PROVE Kept
    BY <2>7, <1>7, <1>11 DEF Scheduler, SweepDeadOwners, Sweep, ClaimFollowUpRelay,
         ClaimRender, ReadDue, PurgeBodies
  <2> QED
    BY <1>12, <2>1, <2>2, <2>3, <2>4, <2>5, <2>6, <2>7 DEF Talking
<1>13. CASE Living
  BY <1>13, <1>11 DEF Living, CrashBot, Crash, StartBot, Start, StartUnrecovered, Starting,
       Heartbeat, Lapse
<1>14. CASE Tick
  BY <1>14, <1>11 DEF Tick
<1> QED
  BY <1>12, <1>13, <1>14 DEF Next
-----------------------------------------------------------------------------
(* Steps that write rows and begin nothing *)

LEMMA RowsUntouched ==
  ASSUME RowTypes, UNCHANGED rowVars
  PROVE  RowTypes' /\ RowsKept
BY DEF RowTypes, RowsKept, rowVars

LEMMA DraftWritten ==
  ASSUME RowTypes, NEW d \in DOMAIN drafts, NEW row \in Draft,
         drafts' = [drafts EXCEPT ![d] = row], UNCHANGED <<acks, followUps>>,
         row.gen = drafts[d].gen, drafts[d].consumed => row.consumed
  PROVE  RowTypes' /\ RowsKept
<1>1. /\ drafts' \in Seq(Draft) /\ DOMAIN drafts' = DOMAIN drafts
      /\ \A j \in DOMAIN drafts : drafts'[j] = IF j = d THEN row ELSE drafts[j]
  BY RowWritten DEF RowTypes
<1> QED
  BY <1>1 DEF RowTypes, RowsKept

LEMMA FollowUpWritten ==
  ASSUME RowTypes, NEW f \in DOMAIN followUps, NEW row \in FollowUp,
         followUps' = [followUps EXCEPT ![f] = row], UNCHANGED <<acks, drafts>>,
         row.gen = followUps[f].gen,
         row.out \in {"none", "failed"} => row.out = followUps[f].out
  PROVE  RowTypes' /\ RowsKept
<1>1. /\ followUps' \in Seq(FollowUp) /\ DOMAIN followUps' = DOMAIN followUps
      /\ \A j \in DOMAIN followUps : followUps'[j] = IF j = f THEN row ELSE followUps[j]
  BY RowWritten DEF RowTypes
<1> QED
  BY <1>1 DEF RowTypes, RowsKept

LEMMA RowIsTyped ==
  ASSUME RowTypes
  PROVE  /\ \A n \in DOMAIN acks : acks[n] \in Ack
         /\ \A n \in DOMAIN drafts : drafts[n] \in Draft
         /\ \A n \in DOMAIN followUps : followUps[n] \in FollowUp
         /\ DOMAIN acks \subseteq Nat /\ DOMAIN drafts \subseteq Nat /\ DOMAIN followUps \subseteq Nat
<1>1. \A n \in DOMAIN acks : acks[n] \in Ack /\ n \in Nat
  BY ElementOfSeq DEF RowTypes
<1>2. \A n \in DOMAIN drafts : drafts[n] \in Draft /\ n \in Nat
  BY ElementOfSeq DEF RowTypes
<1>3. \A n \in DOMAIN followUps : followUps[n] \in FollowUp /\ n \in Nat
  BY ElementOfSeq DEF RowTypes
<1> QED
  BY <1>1, <1>2, <1>3

LEMMA CreateReplyDraftRows ==
  ASSUME RowTypes, clock \in Nat, CreateReplyDraft
  PROVE  RowTypes' /\ RowsKept
<1> DEFINE row == [out |-> "none", consumed |-> FALSE, body |-> TRUE, gen |-> 0, owner |-> 0,
                   intent |-> "wait", until |-> clock + Keep]
<1>1. row \in Draft /\ row.gen = 0
  BY ConfessionAssumption DEF Draft, RowOut
<1>2. drafts' = Append(drafts, row) /\ UNCHANGED <<acks, followUps>>
  BY DEF CreateReplyDraft
<1> HIDE DEF row
<1>3. /\ drafts' \in Seq(Draft) /\ DOMAIN drafts' = DOMAIN drafts \union {Len(drafts) + 1}
      /\ \A j \in DOMAIN drafts : drafts'[j] = drafts[j]
      /\ drafts'[Len(drafts) + 1] = row
  BY <1>1, <1>2, RowAdded DEF RowTypes
<1> QED
  BY <1>1, <1>2, <1>3 DEF RowTypes, RowsKept

LEMMA RecordSenderFollowUpRows ==
  ASSUME RowTypes, clock \in Nat, RecordSenderFollowUp
  PROVE  RowTypes' /\ RowsKept
<1> DEFINE row == [out |-> "none", body |-> TRUE, gen |-> 0, owner |-> 0, attempts |-> 0,
                   until |-> clock + Keep]
<1>1. row \in FollowUp /\ row.gen = 0
  BY ConfessionAssumption DEF FollowUp, RowOut
<1>2. followUps' = Append(followUps, row) /\ UNCHANGED <<acks, drafts>>
  BY DEF RecordSenderFollowUp
<1> HIDE DEF row
<1>3. /\ followUps' \in Seq(FollowUp)
      /\ DOMAIN followUps' = DOMAIN followUps \union {Len(followUps) + 1}
      /\ \A j \in DOMAIN followUps : followUps'[j] = followUps[j]
      /\ followUps'[Len(followUps) + 1] = row
  BY <1>1, <1>2, RowAdded DEF RowTypes
<1> QED
  BY <1>1, <1>2, <1>3 DEF RowTypes, RowsKept

LEMMA ResolveRows ==
  ASSUME RowTypes, (\E d \in DOMAIN drafts : ResolveReplyDraft(d))
                   \/ (\E f \in DOMAIN followUps : ResolveFollowUp(f))
  PROVE  RowTypes' /\ RowsKept
<1>1. ASSUME NEW d \in DOMAIN drafts, ResolveReplyDraft(d) PROVE RowTypes' /\ RowsKept
  <2> DEFINE row == [drafts[d] EXCEPT !.out = "resolved", !.body = FALSE]
  <2>1. drafts[d] \in Draft
    BY RowIsTyped
  <2>2. row \in Draft /\ row.gen = drafts[d].gen /\ row.consumed = drafts[d].consumed
    BY <2>1 DEF Draft, RowOut
  <2>3. drafts' = [drafts EXCEPT ![d] = row] /\ UNCHANGED <<acks, followUps>>
    BY <1>1 DEF ResolveReplyDraft
  <2> HIDE DEF row
  <2> QED
    BY <2>2, <2>3, DraftWritten
<1>2. ASSUME NEW f \in DOMAIN followUps, ResolveFollowUp(f) PROVE RowTypes' /\ RowsKept
  <2> DEFINE row == [followUps[f] EXCEPT !.out = "resolved", !.body = FALSE]
  <2>1. followUps[f] \in FollowUp
    BY RowIsTyped
  <2>2. row \in FollowUp /\ row.gen = followUps[f].gen /\ row.out = "resolved"
    BY <2>1 DEF FollowUp, RowOut
  <2>3. followUps' = [followUps EXCEPT ![f] = row] /\ UNCHANGED <<acks, drafts>>
    BY <1>2 DEF ResolveFollowUp
  <2> HIDE DEF row
  <2> QED
    BY <2>2, <2>3, FollowUpWritten
<1> QED
  BY <1>1, <1>2

LEMMA RecoverKeepsRows ==
  ASSUME RowTypes, RecoverRows
  PROVE  RowTypes' /\ RowsKept
<1>1. /\ acks' = Recovered(acks) /\ drafts' = Recovered(drafts)
      /\ followUps' = Recovered(followUps)
  BY DEF RecoverRows
<1>2. /\ DOMAIN acks' = DOMAIN acks /\ acks' = [n \in DOMAIN acks |-> acks'[n]]
      /\ \A n \in DOMAIN acks : acks'[n] \in Ack
  BY <1>1, RowIsTyped DEF Recovered, Ack, Outcome
<1>3. /\ DOMAIN drafts' = DOMAIN drafts /\ drafts' = [n \in DOMAIN drafts |-> drafts'[n]]
      /\ \A n \in DOMAIN drafts :
           drafts'[n] \in Draft /\ drafts'[n].gen = drafts[n].gen
           /\ drafts'[n].consumed = drafts[n].consumed
  BY <1>1, RowIsTyped DEF Recovered, Draft, Outcome, RowOut
<1>4. /\ DOMAIN followUps' = DOMAIN followUps /\ followUps' = [n \in DOMAIN followUps |-> followUps'[n]]
      /\ \A n \in DOMAIN followUps :
           followUps'[n] \in FollowUp /\ followUps'[n].gen = followUps[n].gen
           /\ followUps'[n].out \in {followUps[n].out, "unknown"}
  BY <1>1, RowIsTyped DEF Recovered, FollowUp, Outcome, RowOut
<1>5. RowTypes'
  BY <1>2, <1>3, <1>4, RowsWritten DEF RowTypes
<1> QED
  BY <1>2, <1>3, <1>4, <1>5 DEF RowsKept

LEMMA PurgeKeepsRows ==
  ASSUME RowTypes, PurgeBodies
  PROVE  RowTypes' /\ RowsKept
<1>1. UNCHANGED acks /\ drafts' = Purged(drafts) /\ followUps' = Purged(followUps)
  BY DEF PurgeBodies
<1>2. \A row : TextKept(row) \in BOOLEAN
  BY DEF TextKept
<1>3. /\ DOMAIN drafts' = DOMAIN drafts /\ drafts' = [n \in DOMAIN drafts |-> drafts'[n]]
      /\ \A n \in DOMAIN drafts :
           drafts'[n] \in Draft /\ drafts'[n].gen = drafts[n].gen
           /\ drafts'[n].consumed = drafts[n].consumed
  BY <1>1, <1>2, RowIsTyped DEF Purged, Draft, Outcome, RowOut
<1>4. /\ DOMAIN followUps' = DOMAIN followUps /\ followUps' = [n \in DOMAIN followUps |-> followUps'[n]]
      /\ \A n \in DOMAIN followUps :
           followUps'[n] \in FollowUp /\ followUps'[n].gen = followUps[n].gen
           /\ followUps'[n].out \in {followUps[n].out, "expired"}
  BY <1>1, <1>2, RowIsTyped DEF Purged, FollowUp, Outcome, RowOut
<1>5. RowTypes'
  BY <1>1, <1>3, <1>4, RowsWritten DEF RowTypes
<1> QED
  BY <1>1, <1>3, <1>4, <1>5 DEF RowsKept
-----------------------------------------------------------------------------
(* Steps of the sends *)

\* What every step keeps.
Kept == RowTypes' /\ CallTypes' /\ SendsInv'

KeptInv == RowTypes /\ CallTypes /\ SendsInv

LEMMA SendIsTyped ==
  ASSUME CallTypes, NEW c \in Sends
  PROVE  /\ c \in calls /\ c.kind \in SendKind /\ c.row \in Nat /\ c.gen \in Nat /\ c.bot \in Bot
         /\ c.at \in {"sending", "answered"}
         /\ c.at = "sending" => c.out = ""
         /\ c.at = "answered" => c.out \in Outcome
BY DEF CallTypes, Send, Sends

LEMMA CallsUntouched ==
  ASSUME KeptInv, UNCHANGED <<calls, landed, agreed>>, RowTypes', RowsKept
  PROVE  Kept
<1>1. CallTypes' /\ Sends' \subseteq Sends
  BY DEF KeptInv, CallTypes, CallShape, Sends
<1>2. SendsKept
  BY <1>1, SendsEnd DEF KeptInv, SendsInv
<1> QED
  BY <1>1, <1>2, QuietStep DEF KeptInv, Kept

LEMMA CallEnds ==
  ASSUME KeptInv, NEW c \in calls, calls' = calls \ {c}, UNCHANGED <<landed, agreed>>,
         RowTypes', RowsKept
  PROVE  Kept
<1>1. CallTypes' /\ Sends' \subseteq Sends
  BY DEF KeptInv, CallTypes, CallShape, Sends
<1>2. SendsKept
  BY <1>1, SendsEnd DEF KeptInv, SendsInv
<1> QED
  BY <1>1, <1>2, QuietStep DEF KeptInv, Kept

LEMMA SettleAcknowledgementKeeps ==
  ASSUME KeptInv, NEW c \in calls, SettleAcknowledgement(c)
  PROVE  Kept
<1>1. c \in Sends /\ c.out \in Outcome /\ c.kind = "ack"
  BY SendIsTyped DEF SettleAcknowledgement, Answered, Sends, KeptInv
<1>2. c.row \in DOMAIN acks
  <2>1. Arrival(c) \in Begun /\ Arrival(c)[1] = "ack" /\ Arrival(c)[2] = c.row
    BY <1>1 DEF Begun, Arrival
  <2> QED
    BY <2>1 DEF KeptInv, SendsInv, RowsKnown
<1>3. acks' \in Seq(Ack) /\ DOMAIN acks' = DOMAIN acks
  <2>1. CASE acks[c.row].out = "sending"
    <3> DEFINE row == [acks[c.row] EXCEPT !.out = c.out]
    <3>1. acks[c.row] \in Ack
      BY <1>2, RowIsTyped DEF KeptInv
    <3>2. row \in Ack
      BY <1>1, <3>1 DEF Ack, Outcome
    <3>3. acks' = [acks EXCEPT ![c.row] = row]
      BY <2>1 DEF SettleAcknowledgement
    <3> HIDE DEF row
    <3> QED
      BY <1>2, <3>2, <3>3, RowWritten DEF KeptInv, RowTypes
  <2>2. CASE acks[c.row].out # "sending"
    BY <2>2 DEF SettleAcknowledgement, KeptInv, RowTypes
  <2> QED
    BY <2>1, <2>2
<1>4. UNCHANGED <<drafts, followUps>>
  BY DEF SettleAcknowledgement
<1>5. RowTypes' /\ RowsKept
  BY <1>3, <1>4 DEF KeptInv, RowTypes, RowsKept
<1> QED
  BY <1>5, CallEnds DEF SettleAcknowledgement, ghosts

LEMMA DraftOfSend ==
  ASSUME KeptInv, NEW c \in Sends, c.kind = "reply"
  PROVE  c.row \in DOMAIN drafts /\ drafts[c.row] \in Draft
<1>1. Arrival(c) \in Begun /\ Arrival(c)[1] = "reply" /\ Arrival(c)[2] = c.row
  BY DEF Begun, Arrival
<1> QED
  BY <1>1, RowIsTyped DEF KeptInv, SendsInv, RowsKnown

LEMMA FinishReplyDraftKeeps ==
  ASSUME KeptInv, NEW c \in calls, FinishReplyDraft(c)
  PROVE  Kept
<1>1. c \in Sends /\ c.out \in Outcome /\ c.kind = "reply"
  BY SendIsTyped DEF FinishReplyDraft, Answered, Sends, KeptInv
<1>2. c.row \in DOMAIN drafts /\ drafts[c.row] \in Draft
  BY <1>1, DraftOfSend
<1>3. RowTypes' /\ RowsKept
  <2>1. CASE Current(c)
    <3> DEFINE row == [drafts[c.row] EXCEPT !.out = c.out]
    <3>1. /\ row \in Draft /\ row.gen = drafts[c.row].gen
          /\ row.consumed = drafts[c.row].consumed
      BY <1>1, <1>2 DEF Draft, Outcome, RowOut
    <3>2. drafts' = [drafts EXCEPT ![c.row] = row] /\ UNCHANGED <<acks, followUps>>
      BY <2>1 DEF FinishReplyDraft
    <3> HIDE DEF row
    <3> QED
      BY <1>2, <3>1, <3>2, DraftWritten DEF KeptInv
  <2>2. CASE ~Current(c)
    BY <2>2, RowsUntouched DEF FinishReplyDraft, KeptInv, rowVars
  <2> QED
    BY <2>1, <2>2
<1> QED
  BY <1>3, CallEnds DEF FinishReplyDraft, ghosts

LEMMA FinalizeStaffReplyKeeps ==
  ASSUME KeptInv, NEW c \in calls, FinalizeStaffReply(c)
  PROVE  Kept
<1>1. c \in Sends /\ c.out \in Outcome /\ c.kind = "reply"
  BY SendIsTyped DEF FinalizeStaffReply, Answered, Sends, KeptInv
<1>2. c.row \in DOMAIN drafts /\ drafts[c.row] \in Draft
  BY <1>1, DraftOfSend
<1>3. RowTypes' /\ RowsKept
  <2>1. CASE Current(c)
    <3> DEFINE row == [drafts[c.row] EXCEPT !.out = "delivered", !.body = FALSE]
    <3>1. /\ row \in Draft /\ row.gen = drafts[c.row].gen
          /\ row.consumed = drafts[c.row].consumed
      BY <1>2 DEF Draft, Outcome, RowOut
    <3>2. drafts' = [drafts EXCEPT ![c.row] = row] /\ UNCHANGED <<acks, followUps>>
      BY <2>1 DEF FinalizeStaffReply
    <3> HIDE DEF row
    <3> QED
      BY <1>2, <3>1, <3>2, DraftWritten DEF KeptInv
  <2>2. CASE ~Current(c)
    BY <2>2, RowsUntouched DEF FinalizeStaffReply, KeptInv, rowVars
  <2> QED
    BY <2>1, <2>2
<1>4. calls' = calls \ {c} /\ UNCHANGED <<landed, agreed>>
  BY DEF FinalizeStaffReply, ghosts
<1> QED
  BY <1>3, <1>4, CallEnds

\* The only step after which a follow-up counts as failed: its current send was
\* refused, so what may have arrived of it is older, and was followed by a request.
LEMMA SettleFollowUpRelayKeeps ==
  ASSUME KeptInv, NEW c \in calls, SettleFollowUpRelay(c)
  PROVE  Kept
<1>1. /\ c \in Sends /\ c.out \in Outcome /\ c.kind = "followUp"
      /\ c.at = "answered" /\ c.gen \in Nat
  BY SendIsTyped DEF SettleFollowUpRelay, Answered, Sends, KeptInv
<1>2. Arrival(c) \in Begun /\ Arrival(c) = <<"followUp", c.row, c.gen>>
  BY <1>1 DEF Begun, Arrival
<1>3. c.row \in DOMAIN followUps /\ followUps[c.row] \in FollowUp
  BY <1>2, RowIsTyped DEF KeptInv, SendsInv, RowsKnown
<1>4. calls' = calls \ {c} /\ UNCHANGED <<landed, agreed, acks, drafts>>
  BY DEF SettleFollowUpRelay, ghosts
<1>5. CASE followUps[c.row].out = "sending" /\ followUps[c.row].gen = c.gen
  <2> DEFINE row == [followUps[c.row] EXCEPT !.out = c.out, !.body = c.out # "delivered"]
  <2>1. row \in FollowUp /\ row.gen = c.gen /\ row.out = c.out
    BY <1>1, <1>3, <1>5 DEF FollowUp, Outcome, RowOut
  <2>2. followUps' = [followUps EXCEPT ![c.row] = row]
    BY <1>5 DEF SettleFollowUpRelay
  <2> HIDE DEF row
  <2>3. /\ followUps' \in Seq(FollowUp) /\ DOMAIN followUps' = DOMAIN followUps
        /\ \A j \in DOMAIN followUps : followUps'[j] = IF j = c.row THEN row ELSE followUps[j]
    BY <1>3, <2>1, <2>2, RowWritten DEF KeptInv, RowTypes
  <2>4. CASE c.out # "failed"
    <3>1. RowTypes' /\ RowsKept
      BY <1>1, <1>3, <1>4, <1>5, <2>1, <2>2, <2>4, FollowUpWritten DEF KeptInv, Outcome
    <3> QED
      BY <1>4, <3>1, CallEnds
  <2>5. CASE c.out = "failed"
    <3>1. RowTypes'
      BY <1>4, <2>3 DEF KeptInv, RowTypes
    <3>2. CallTypes' /\ Sends' = Sends \ {c}
      BY <1>4 DEF KeptInv, CallTypes, CallShape, Sends
    <3>3. SendsKept
      BY <1>4, <3>2, SendsEnd DEF KeptInv, SendsInv
    <3>4. RowsKnown' /\ FirstTries'
      <4>1. \A n \in DOMAIN followUps' : followUps'[n].gen = followUps[n].gen
        BY <1>5, <2>1, <2>3
      <4>2. RowsKnown'
        <5> SUFFICES ASSUME NEW x \in Begun'
                     PROVE  /\ x[1] = "ack" => x[2] \in DOMAIN acks' /\ x[3] = 1
                            /\ x[1] = "reply" => x[2] \in DOMAIN drafts' /\ x[3] \in 1..drafts'[x[2]].gen
                            /\ x[1] = "followUp" => x[2] \in DOMAIN followUps' /\ x[3] \in 1..followUps'[x[2]].gen
          BY DEF RowsKnown
        <5>1. x \in Begun
          BY <3>3 DEF SendsKept
        <5> QED
          BY <1>4, <2>3, <4>1, <5>1 DEF KeptInv, SendsInv, RowsKnown
      <4>3. FirstTries'
        BY <1>4, <2>1, <2>3, <2>5, <4>1 DEF KeptInv, SendsInv, FirstTries
      <4> QED
        BY <4>2, <4>3
    <3>5. RepeatsAsked'
      BY <3>3, AskedStands DEF SendsKept, RepeatsAsked, KeptInv, SendsInv, Asked
    <3>6. FailedIsSafe'
      <4> SUFFICES ASSUME NEW x \in MayArrive', x[1] = "followUp", followUps'[x[2]].out = "failed"
                   PROVE  Asked(x, followUps[x[2]].gen)'
        BY DEF FailedIsSafe
      <4>1. x \in MayArrive /\ x \in Begun /\ x[2] \in DOMAIN followUps
            /\ x[3] \in 1..followUps[x[2]].gen
        BY <3>3, MayArriveIsBegun DEF SendsKept, KeptInv, SendsInv, RowsKnown
      <4> DEFINE g == followUps'[x[2]].gen
      <4>2. Asked(x, g)
        <5>1. CASE x[2] # c.row
          BY <2>3, <4>1, <5>1 DEF FailedIsSafe, KeptInv, SendsInv
        <5>2. CASE x[2] = c.row
          <6>1. g = c.gen /\ x[3] =< c.gen /\ x[3] \in Nat
            BY <1>1, <1>3, <1>5, <2>1, <2>3, <4>1, <5>2
          <6>2. x[3] # c.gen
            <7>1. SUFFICES ASSUME x[3] = c.gen PROVE FALSE
              OBVIOUS
            <7>2. x = Arrival(c)
              <8>1. x \in SendKind \X Nat \X Nat
                BY <4>1, BegunTyped DEF KeptInv
              <8> QED
                BY <1>2, <5>2, <7>1, <8>1
            <7>3. Arrival(c) \notin landed
              BY <1>1, <2>5 DEF KeptInv, SendsInv, OneSendEach
            <7>4. PICK s \in Sends' : Arrival(s) = Arrival(c)
              BY <1>4, <7>2, <7>3 DEF MayArrive, Arrival
            <7> QED
              BY <1>1, <3>2, <7>4 DEF KeptInv, SendsInv, OneSendEach
          <6>3. x[3] < c.gen
            BY <1>1, <6>1, <6>2
          <6>4. /\ x[1] = Arrival(c)[1] /\ x[2] = Arrival(c)[2] /\ Arrival(c)[3] = c.gen
            BY <1>2, <5>2
          <6>5. Asked(x, Arrival(c)[3])
            BY <1>2, <4>1, <6>3, <6>4 DEF RepeatsAsked, KeptInv, SendsInv
          <6> QED
            BY <6>1, <6>4, <6>5
        <5> QED
          BY <5>1, <5>2
      <4> QED
        BY <1>4, <4>2 DEF Asked
    <3> QED
      BY <3>1, <3>2, <3>3, <3>4, <3>5, <3>6 DEF Kept, SendsInv, SendsKept
  <2> QED
    BY <2>4, <2>5
<1>6. CASE ~(followUps[c.row].out = "sending" /\ followUps[c.row].gen = c.gen)
  <2>1. UNCHANGED rowVars
    BY <1>4, <1>6 DEF SettleFollowUpRelay, rowVars
  <2> QED
    BY <1>4, <2>1, RowsUntouched, CallEnds DEF KeptInv
<1> QED
  BY <1>5, <1>6
LEMMA AnsweredCall ==
  ASSUME NEW c, CallShape(c), NEW out,
         NEW e, e = [c EXCEPT !.at = "answered", !.out = out]
  PROVE  /\ e.kind = c.kind /\ e.row = c.row /\ e.gen = c.gen /\ e.bot = c.bot
         /\ e.at = "answered" /\ e.out = out /\ CallShape(e)
<1>1. c \in [kind: {c.kind}, row: {c.row}, gen: {c.gen}, bot: {c.bot}, at: {c.at}, out: {c.out}]
  BY DEF CallShape
<1>2. e \in [kind: {c.kind}, row: {c.row}, gen: {c.gen}, bot: {c.bot}, at: {"answered"}, out: {out}]
  BY <1>1
<1>3. /\ e.kind = c.kind /\ e.row = c.row /\ e.gen = c.gen /\ e.bot = c.bot
      /\ e.at = "answered" /\ e.out = out
  BY <1>2
<1>4. e = [kind |-> e.kind, row |-> e.row, gen |-> e.gen, bot |-> e.bot, at |-> e.at, out |-> e.out]
  BY <1>2
<1> QED
  BY <1>3, <1>4 DEF CallShape

\* An answer, or a crash: what arrives was on its way.
LEMMA AnswerKeeps ==
  ASSUME KeptInv, NEW c \in calls, Answer(c)
  PROVE  Kept
<1>1. PICK d \in Delivery :
        /\ calls' = (calls \ {c}) \union {[c EXCEPT !.at = "answered", !.out = d[1]]}
        /\ landed' = IF d[2] THEN landed \union {Arrival(c)} ELSE landed
  BY DEF Answer, Reply
<1>2. d[1] \in Outcome /\ (d[1] = "failed" => ~d[2])
  <2>1. \/ d = <<"delivered", TRUE>> \/ d = <<"unknown", TRUE>>
        \/ d = <<"unknown", FALSE>> \/ d = <<"failed", FALSE>>
    BY DEF Delivery
  <2>2. CASE d = <<"delivered", TRUE>>
    BY <2>2 DEF Outcome
  <2>3. CASE d = <<"unknown", TRUE>>
    BY <2>3 DEF Outcome
  <2>4. CASE d = <<"unknown", FALSE>>
    BY <2>4 DEF Outcome
  <2>5. CASE d = <<"failed", FALSE>>
    BY <2>5 DEF Outcome
  <2> QED
    BY <2>1, <2>2, <2>3, <2>4, <2>5
<1>3. c \in Sends /\ c.at = "sending" /\ UNCHANGED <<rowVars, agreed>>
  BY DEF Answer, Sends
<1> DEFINE e == [c EXCEPT !.at = "answered", !.out = d[1]]
<1>4. /\ e.kind = c.kind /\ e.row = c.row /\ e.gen = c.gen /\ e.bot = c.bot
      /\ e.at = "answered" /\ e.out = d[1] /\ CallShape(e)
  BY ZenonT(40), AnsweredCall DEF KeptInv, CallTypes
<1>5. e \in Send
  <2>1. c.kind \in SendKind /\ c.row \in Nat /\ c.gen \in Nat /\ c.bot \in Bot
    BY <1>3, SendIsTyped DEF KeptInv
  <2> HIDE DEF e
  <2> QED
    BY <1>2, <1>4, <2>1 DEF Send, CallShape
<1>6. calls' = (calls \ {c}) \union {e}
  BY <1>1
<1> HIDE DEF e
<1>7. Arrival(e) = Arrival(c) /\ Sends' = (Sends \ {c}) \union {e}
  BY <1>3, <1>4, <1>6 DEF Arrival, Sends
<1>8. Arrival(c) \in MayArrive /\ Arrival(c) \in Begun
  BY <1>3 DEF MayArrive, Begun, Arrival
<1>9. landed' \subseteq landed \union {Arrival(c)}
  BY <1>1
<1>10. CallTypes'
  <2>1. Arrival(c) \in SendKind \X Nat \X Nat
    BY <1>8, BegunTyped DEF KeptInv
  <2>2. \A s \in calls' : CallShape(s)
    BY <1>4, <1>6 DEF KeptInv, CallTypes
  <2> QED
    BY <1>3, <1>5, <1>7, <1>9, <2>1, <2>2 DEF KeptInv, CallTypes
<1>11. Begun' \subseteq Begun /\ MayArrive' \subseteq MayArrive
  BY <1>4, <1>7, <1>8, <1>9 DEF Begun, MayArrive, Arrival
<1>12. OneSendEach'
  <2>1. \A s, t \in Sends' : Arrival(s) = Arrival(t) => s = t
    BY <1>3, <1>7 DEF KeptInv, SendsInv, OneSendEach
  <2>2. \A s \in Sends \ {c} : Arrival(s) # Arrival(c)
    BY <1>3 DEF KeptInv, SendsInv, OneSendEach
  <2>3. Arrival(c) \notin landed
    BY <1>3 DEF KeptInv, SendsInv, OneSendEach
  <2>4. ASSUME NEW s \in Sends', Arrival(s) \in landed'
        PROVE  s.at = "answered" /\ s.out # "failed"
    <3>1. CASE s = e
      <4>1. Arrival(c) \in landed'
        BY <1>7, <2>4, <3>1
      <4>2. d[2]
        BY <1>1, <2>3, <4>1
      <4> QED
        BY <1>2, <1>4, <3>1, <4>2
    <3>2. CASE s \in Sends \ {c}
      BY <1>9, <2>2, <2>4, <3>2 DEF KeptInv, SendsInv, OneSendEach
    <3> QED
      BY <1>7, <3>1, <3>2
  <2> QED
    BY <2>1, <2>4 DEF OneSendEach, Arrival
<1>13. SendsKept
  BY <1>3, <1>11, <1>12 DEF SendsKept
<1>14. RowTypes' /\ RowsKept
  BY <1>3, RowsUntouched DEF KeptInv
<1> QED
  BY <1>10, <1>13, <1>14, QuietStep DEF KeptInv, Kept

LEMMA CrashKeeps ==
  ASSUME KeptInv, NEW b, NEW arriving, Crash(b, arriving)
  PROVE  Kept
<1> DEFINE arrivals == {Arrival(c) : c \in {a \in arriving : a.kind # "edit"}}
<1>1. /\ arriving \subseteq {c \in calls : c.bot = b /\ c.at = "sending"}
      /\ calls' = {c \in calls : c.bot # b}
      /\ landed' = landed \union arrivals
      /\ UNCHANGED <<rowVars, agreed>>
  BY DEF Crash
<1>2. \A x \in arrivals : \E c \in Sends : c.bot = b /\ c.at = "sending" /\ x = Arrival(c)
  BY <1>1 DEF Sends
<1> HIDE DEF arrivals
<1>3. Sends' = {c \in Sends : c.bot # b}
  BY <1>1 DEF Sends
<1>4. arrivals \subseteq MayArrive
  BY <1>2 DEF MayArrive
<1>5. arrivals \subseteq SendKind \X Nat \X Nat
  BY <1>4, MayArriveIsBegun, BegunTyped DEF KeptInv
<1>6. CallTypes'
  <2>1. \A s \in calls' : CallShape(s)
    BY <1>1 DEF KeptInv, CallTypes
  <2> QED
    BY <1>1, <1>3, <1>5, <2>1 DEF KeptInv, CallTypes
<1>7. Begun' \subseteq Begun /\ MayArrive' \subseteq MayArrive
  BY <1>1, <1>3, <1>4, MayArriveIsBegun DEF Begun, MayArrive, Arrival
<1>8. OneSendEach'
  <2>1. \A s, t \in Sends' : Arrival(s) = Arrival(t) => s = t
    BY <1>3 DEF KeptInv, SendsInv, OneSendEach
  <2>2. ASSUME NEW s \in Sends', Arrival(s) \in landed'
        PROVE  s.at = "answered" /\ s.out # "failed"
    <3>1. Arrival(s) \notin arrivals
      BY <1>2, <1>3 DEF KeptInv, SendsInv, OneSendEach
    <3> QED
      BY <1>1, <1>3, <2>2, <3>1 DEF KeptInv, SendsInv, OneSendEach
  <2> QED
    BY <2>1, <2>2 DEF OneSendEach, Arrival
<1>9. SendsKept
  BY <1>1, <1>7, <1>8 DEF SendsKept
<1>10. RowTypes' /\ RowsKept
  BY <1>1, RowsUntouched DEF KeptInv
<1> QED
  BY <1>6, <1>9, <1>10, QuietStep DEF KeptInv, Kept

\* The edits of the screens are not sends.
LEMMA EditsKeep ==
  ASSUME KeptInv, UNCHANGED <<rowVars, landed, agreed>>,
         Sends' = Sends, \A c \in calls' : CallShape(c)
  PROVE  Kept
<1>1. CallTypes'
  BY DEF KeptInv, CallTypes
<1>2. SendsKept
  BY SendsEnd DEF KeptInv, SendsInv
<1>3. RowTypes' /\ RowsKept
  BY RowsUntouched DEF KeptInv
<1> QED
  BY <1>1, <1>2, <1>3, QuietStep DEF KeptInv, Kept

LEMMA EditBegins ==
  ASSUME KeptInv, NEW b, NEW r, StartEdit(b, r), UNCHANGED <<rowVars, landed, agreed>>
  PROVE  Kept
<1> DEFINE c == Call("edit", Len(attempts) + 1, 0, b)
<1>1. c.kind = "edit" /\ CallShape(c)
  BY DEF Call, CallShape
<1>2. calls' = calls \union {c}
  BY DEF StartEdit
<1> HIDE DEF c
<1>3. Sends' = Sends /\ \A d \in calls' : CallShape(d)
  BY <1>1, <1>2 DEF Sends, KeptInv, CallTypes
<1> QED
  BY <1>3, EditsKeep

LEMMA EditEnds ==
  ASSUME KeptInv, NEW c \in calls, AnswerEdit(c) \/ FinishRenderAttempt(c)
  PROVE  Kept
<1>1. CASE AnswerEdit(c)
  <2>1. PICK d \in Delivery :
          calls' = (calls \ {c}) \union {[c EXCEPT !.at = "answered", !.out = d[1]]}
    BY <1>1 DEF AnswerEdit, Reply
  <2> DEFINE e == [c EXCEPT !.at = "answered", !.out = d[1]]
  <2>2. c.kind = "edit" /\ UNCHANGED <<rowVars, landed, agreed>>
    BY <1>1 DEF AnswerEdit, ghosts
  <2>3. e.kind = "edit" /\ CallShape(e)
    <3>1. CallShape(c)
      BY DEF KeptInv, CallTypes
    <3>4. /\ e.kind = c.kind /\ e.row = c.row /\ e.gen = c.gen /\ e.bot = c.bot
          /\ e.at = "answered" /\ e.out = d[1] /\ CallShape(e)
      BY ZenonT(40), <3>1, AnsweredCall
    <3> QED
      BY <2>2, <3>4
  <2>4. calls' = (calls \ {c}) \union {e}
    BY <2>1
  <2> HIDE DEF e
  <2>5. Sends' = Sends /\ \A s \in calls' : CallShape(s)
    BY <2>2, <2>3, <2>4 DEF Sends, KeptInv, CallTypes
  <2> QED
    BY <2>2, <2>5, EditsKeep
<1>2. CASE FinishRenderAttempt(c)
  <2>1. c.kind = "edit" /\ calls' = calls \ {c} /\ UNCHANGED <<rowVars, landed, agreed>>
    BY <1>2 DEF FinishRenderAttempt, Answered, ghosts
  <2>2. Sends' = Sends /\ \A s \in calls' : CallShape(s)
    BY <2>1 DEF Sends, KeptInv, CallTypes
  <2> QED
    BY <2>1, <2>2, EditsKeep
<1> QED
  BY <1>1, <1>2
-----------------------------------------------------------------------------
(* Steps that begin a send *)

LEMMA NewCallTyped ==
  ASSUME KeptInv, NEW k \in SendKind, NEW n \in Nat, NEW g \in Nat, NEW b \in Bot,
         calls' = calls \union {Call(k, n, g, b)}, landed' = landed,
         agreed' \subseteq agreed \union {<<k, n, g>>}
  PROVE  CallTypes'
<1> DEFINE c == Call(k, n, g, b)
<1>1. c \in Send /\ CallShape(c) /\ c.kind = k /\ k # "edit"
  BY DEF Call, Send, CallShape, SendKind
<1>2. calls' = calls \union {c}
  OBVIOUS
<1>3. <<k, n, g>> \in SendKind \X Nat \X Nat
  OBVIOUS
<1> HIDE DEF c
<1>4. Sends' = Sends \union {c}
  BY <1>1, <1>2 DEF Sends
<1> QED
  BY <1>1, <1>2, <1>3, <1>4 DEF KeptInv, CallTypes

LEMMA BeginAcknowledgementKeeps ==
  ASSUME KeptInv, NEW b \in Bot, BeginAcknowledgement(b)
  PROVE  Kept
<1>1. UNCHANGED <<drafts, followUps, landed, agreed>>
  BY DEF BeginAcknowledgement, ghosts
<1>2. CASE UNCHANGED <<acks, calls>>
  <2>1. RowTypes' /\ RowsKept
    BY <1>1, <1>2, RowsUntouched DEF KeptInv, rowVars
  <2> QED
    BY <1>1, <1>2, <2>1, CallsUntouched
<1>3. CASE ~UNCHANGED <<acks, calls>>
  <2> DEFINE n == Len(acks) + 1
             row == [out |-> "sending", owner |-> b]
  <2>1. acks' = Append(acks, row) /\ calls' = calls \union {Call("ack", n, 1, b)}
    BY <1>3 DEF BeginAcknowledgement
  <2>2. row \in Ack
    BY DEF Ack
  <2> HIDE DEF row
  <2>3. /\ acks' \in Seq(Ack) /\ DOMAIN acks' = DOMAIN acks \union {n}
        /\ n \notin DOMAIN acks /\ n \in Nat
    BY <2>1, <2>2, RowAdded DEF KeptInv, RowTypes
  <2> HIDE DEF n
  <2>4. \A x \in Begun : ~(x[1] = "ack" /\ x[2] = n)
    BY <2>3 DEF KeptInv, SendsInv, RowsKnown
  <2>5. \A x \in MayArrive : ~(x[1] = "ack" /\ x[2] = n)
    BY <2>4, MayArriveIsBegun
  <2>6. "ack" \in SendKind /\ 1 \in Nat
    BY DEF SendKind
  <2>7. /\ Begun' = Begun \union {<<"ack", n, 1>>}
        /\ MayArrive' = MayArrive \union {<<"ack", n, 1>>}
        /\ OneSendEach' /\ RepeatsAsked'
    BY <1>1, <2>1, <2>3, <2>4, <2>5, <2>6, SendBegins DEF KeptInv, SendsInv
  <2>8. CallTypes'
    BY <1>1, <2>1, <2>3, <2>6, NewCallTyped
  <2>9. RowTypes'
    BY <1>1, <2>3 DEF KeptInv, RowTypes
  <2>10. RowsKnown'
    BY <1>1, <2>3, <2>7 DEF KeptInv, SendsInv, RowsKnown
  <2>11. FirstTries'
    BY <1>1 DEF KeptInv, SendsInv, FirstTries
  <2>12. FailedIsSafe'
    BY <1>1, <2>7 DEF KeptInv, SendsInv, FailedIsSafe, Asked
  <2> QED
    BY <2>7, <2>8, <2>9, <2>10, <2>11, <2>12 DEF Kept, SendsInv
<1> QED
  BY <1>2, <1>3

LEMMA SendDraftKeeps ==
  ASSUME KeptInv, NEW b \in Bot, NEW d \in DOMAIN drafts, NEW intent \in {"wait", "close"},
         NEW g, g = drafts[d].gen + 1,
         SendDraft(b, d, intent), UNCHANGED <<acks, followUps, landed>>,
         agreed \subseteq agreed', agreed' \subseteq agreed \union {<<"reply", d, g>>},
         \A x \in MayArrive : (x[1] = "reply" /\ x[2] = d) => Asked(x, g)'
  PROVE  Kept
<1> DEFINE row == [drafts[d] EXCEPT !.out = "sending", !.consumed = TRUE, !.gen = @ + 1,
                                    !.owner = b, !.intent = intent]
<1>1. g = drafts[d].gen + 1
  OBVIOUS
<1>2. drafts[d] \in Draft /\ d \in Nat
  BY RowIsTyped DEF KeptInv
<1>3. g \in Nat /\ drafts[d].gen \in Nat
  BY <1>1, <1>2 DEF Draft
<1>4. row \in Draft /\ row.gen = g /\ row.consumed
  <2>1. b \in Nat
    BY ConfessionAssumption DEF Bot
  <2> QED
    BY <1>1, <1>2, <1>3, <2>1 DEF Draft, RowOut
<1>5. drafts' = [drafts EXCEPT ![d] = row] /\ calls' = calls \union {Call("reply", d, g, b)}
  BY <1>1 DEF SendDraft
<1> HIDE DEF row
<1>6. /\ drafts' \in Seq(Draft) /\ DOMAIN drafts' = DOMAIN drafts
      /\ \A j \in DOMAIN drafts : drafts'[j] = IF j = d THEN row ELSE drafts[j]
  BY <1>4, <1>5, RowWritten DEF KeptInv, RowTypes
<1>7. \A x \in Begun : (x[1] = "reply" /\ x[2] = d) => x[3] < g
  BY <1>1, <1>3 DEF KeptInv, SendsInv, RowsKnown
<1>8. \A x \in MayArrive : (x[1] = "reply" /\ x[2] = d) => Asked(x, g)'
  OBVIOUS
<1>9. "reply" \in SendKind
  BY DEF SendKind
<1>10. /\ Begun' = Begun \union {<<"reply", d, g>>}
       /\ MayArrive' = MayArrive \union {<<"reply", d, g>>}
       /\ OneSendEach' /\ RepeatsAsked'
  BY <1>2, <1>3, <1>5, <1>7, <1>8, <1>9, SendBegins DEF KeptInv, SendsInv
<1>11. CallTypes'
  BY <1>1, <1>2, <1>3, <1>5, <1>9, NewCallTyped
<1>12. RowTypes'
  BY <1>6 DEF KeptInv, RowTypes
<1>13. RowsKnown'
  <2> SUFFICES ASSUME NEW x \in Begun'
               PROVE  /\ x[1] = "ack" => x[2] \in DOMAIN acks' /\ x[3] = 1
                      /\ x[1] = "reply" => x[2] \in DOMAIN drafts' /\ x[3] \in 1..drafts'[x[2]].gen
                      /\ x[1] = "followUp" => x[2] \in DOMAIN followUps' /\ x[3] \in 1..followUps'[x[2]].gen
    BY DEF RowsKnown
  <2>1. CASE x \in Begun
    <3>1. /\ x[1] = "ack" => x[2] \in DOMAIN acks /\ x[3] = 1
          /\ x[1] = "reply" => x[2] \in DOMAIN drafts /\ x[3] \in 1..drafts[x[2]].gen
          /\ x[1] = "followUp" => x[2] \in DOMAIN followUps /\ x[3] \in 1..followUps[x[2]].gen
      BY <2>1 DEF KeptInv, SendsInv, RowsKnown
    <3>2. x[1] = "reply" => x[3] \in 1..drafts'[x[2]].gen
      BY SMTT(30), <1>1, <1>3, <1>4, <1>6, <3>1
    <3> QED
      BY <1>6, <3>1, <3>2
  <2>2. CASE x = <<"reply", d, g>>
    <3>1. drafts'[d].gen = g /\ g \in 1..g
      BY <1>1, <1>3, <1>4, <1>6
    <3> QED
      BY <1>6, <2>2, <3>1
  <2> QED
    BY <1>10, <2>1, <2>2
<1>14. FirstTries'
  BY <1>4, <1>6 DEF KeptInv, SendsInv, FirstTries
<1>15. FailedIsSafe'
  BY <1>10 DEF KeptInv, SendsInv, FailedIsSafe, Asked
<1> QED
  BY <1>10, <1>11, <1>12, <1>13, <1>14, <1>15 DEF Kept, SendsInv

LEMMA ClaimReplyDraftKeeps ==
  ASSUME KeptInv, NEW b \in Bot, NEW d \in DOMAIN drafts, ClaimReplyDraft(b, d)
  PROVE  Kept
<1>1. PICK intent \in {"wait", "close"} : SendDraft(b, d, intent)
  BY DEF ClaimReplyDraft
<1>2. drafts[d].gen = 0 /\ UNCHANGED <<acks, followUps, landed, agreed>>
  BY DEF ClaimReplyDraft, KeptInv, SendsInv, FirstTries, ghosts
<1>3. \A x \in Begun : ~(x[1] = "reply" /\ x[2] = d)
  BY <1>2 DEF KeptInv, SendsInv, RowsKnown
<1>4. \A x \in MayArrive : ~(x[1] = "reply" /\ x[2] = d)
  BY <1>3, MayArriveIsBegun
<1>5. PICK g : g = drafts[d].gen + 1
  OBVIOUS
<1> QED
  BY <1>1, <1>2, <1>4, <1>5, SendDraftKeeps

LEMMA ClaimReplyDraftManualRetryKeeps ==
  ASSUME KeptInv, NEW b \in Bot, NEW d \in DOMAIN drafts, ClaimReplyDraftManualRetry(b, d)
  PROVE  Kept
<1>1. PICK g : g = drafts[d].gen + 1
  OBVIOUS
<1>2. /\ SendDraft(b, d, drafts[d].intent) /\ UNCHANGED <<acks, followUps, landed>>
      /\ agreed' = agreed \union {<<"reply", d, g>>}
  BY <1>1 DEF ClaimReplyDraftManualRetry
<1>3. drafts[d].intent \in {"wait", "close"} /\ drafts[d].gen \in Nat
  BY RowIsTyped DEF KeptInv, Draft
<1>4. ASSUME NEW x \in MayArrive, x[1] = "reply", x[2] = d
      PROVE  Asked(x, g)'
  <2>1. x[3] \in 1..drafts[d].gen
    BY <1>4, MayArriveIsBegun DEF KeptInv, SendsInv, RowsKnown
  <2>2. x[3] < g /\ g =< g
    BY <1>1, <1>3, <2>1
  <2>3. <<"reply", d, g>> \in agreed'
    BY <1>2
  <2>4. \E z \in agreed' : z[1] = x[1] /\ z[2] = x[2] /\ x[3] < z[3] /\ z[3] =< g
    BY <1>4, <2>2, <2>3
  <2> QED
    BY <2>4 DEF Asked
<1> QED
  BY <1>1, <1>2, <1>3, <1>4, SendDraftKeeps
\* A follow-up is relayed: by the scheduler if nothing of it may have arrived
\* without a request since, by somebody who asks for the repeat otherwise.
LEMMA RelayKeeps ==
  ASSUME KeptInv, NEW b \in Bot, NEW f \in DOMAIN followUps, NEW g, g = followUps[f].gen + 1,
         RelayFollowUp(b, f), UNCHANGED <<acks, drafts, landed>>,
         agreed \subseteq agreed', agreed' \subseteq agreed \union {<<"followUp", f, g>>},
         \A x \in MayArrive : (x[1] = "followUp" /\ x[2] = f) => Asked(x, g)'
  PROVE  Kept
<1> DEFINE row == [followUps[f] EXCEPT !.out = "sending", !.gen = @ + 1, !.attempts = @ + 1,
                                       !.owner = b]
<1>1. g = followUps[f].gen + 1
  OBVIOUS
<1>2. followUps[f] \in FollowUp /\ f \in Nat
  BY RowIsTyped DEF KeptInv
<1>3. g \in Nat /\ followUps[f].gen \in Nat
  BY <1>1, <1>2 DEF FollowUp
<1>4. row \in FollowUp /\ row.gen = g /\ row.out = "sending"
  <2>1. b \in Nat
    BY ConfessionAssumption DEF Bot
  <2> QED
    <3> DEFINE tries == followUps[f].attempts + 1
    <3>1. tries \in Nat
      BY <1>2 DEF FollowUp
    <3>2. row = [followUps[f] EXCEPT !.out = "sending", !.gen = g, !.attempts = tries, !.owner = b]
      BY <1>1, <1>2 DEF FollowUp
    <3> HIDE DEF row, tries
    <3>3. row \in FollowUp
      BY <1>2, <1>3, <2>1, <3>1, <3>2 DEF FollowUp, RowOut
    <3>4. row.gen = g /\ row.out = "sending"
      BY <1>2, <3>2 DEF FollowUp
    <3> QED
      BY <3>3, <3>4
<1>5. followUps' = [followUps EXCEPT ![f] = row] /\ calls' = calls \union {Call("followUp", f, g, b)}
  BY <1>1 DEF RelayFollowUp
<1> HIDE DEF row
<1>6. /\ followUps' \in Seq(FollowUp) /\ DOMAIN followUps' = DOMAIN followUps
      /\ \A j \in DOMAIN followUps : followUps'[j] = IF j = f THEN row ELSE followUps[j]
  BY <1>4, <1>5, RowWritten DEF KeptInv, RowTypes
<1>7. \A x \in Begun : (x[1] = "followUp" /\ x[2] = f) => x[3] < g
  BY <1>1, <1>3 DEF KeptInv, SendsInv, RowsKnown
<1>8. "followUp" \in SendKind
  BY DEF SendKind
<1>9. /\ Begun' = Begun \union {<<"followUp", f, g>>}
      /\ MayArrive' = MayArrive \union {<<"followUp", f, g>>}
      /\ OneSendEach' /\ RepeatsAsked'
  BY <1>2, <1>3, <1>5, <1>7, <1>8, SendBegins DEF KeptInv, SendsInv
<1>10. CallTypes'
  BY <1>1, <1>2, <1>3, <1>5, <1>8, NewCallTyped
<1>11. RowTypes'
  BY <1>6 DEF KeptInv, RowTypes
<1>12. RowsKnown'
  <2> SUFFICES ASSUME NEW x \in Begun'
               PROVE  /\ x[1] = "ack" => x[2] \in DOMAIN acks' /\ x[3] = 1
                      /\ x[1] = "reply" => x[2] \in DOMAIN drafts' /\ x[3] \in 1..drafts'[x[2]].gen
                      /\ x[1] = "followUp" => x[2] \in DOMAIN followUps' /\ x[3] \in 1..followUps'[x[2]].gen
    BY DEF RowsKnown
  <2>1. CASE x \in Begun
    <3>1. /\ x[1] = "ack" => x[2] \in DOMAIN acks /\ x[3] = 1
          /\ x[1] = "reply" => x[2] \in DOMAIN drafts /\ x[3] \in 1..drafts[x[2]].gen
          /\ x[1] = "followUp" => x[2] \in DOMAIN followUps /\ x[3] \in 1..followUps[x[2]].gen
      BY <2>1 DEF KeptInv, SendsInv, RowsKnown
    <3>2. x[1] = "followUp" => x[3] \in 1..followUps'[x[2]].gen
      BY <1>1, <1>3, <1>4, <1>6, <3>1
    <3> QED
      BY <1>6, <3>1, <3>2
  <2>2. CASE x = <<"followUp", f, g>>
    <3>1. followUps'[f].gen = g /\ g \in 1..g
      BY <1>1, <1>3, <1>4, <1>6
    <3> QED
      BY <1>6, <2>2, <3>1
  <2> QED
    BY <1>9, <2>1, <2>2
<1>13. FirstTries'
  BY <1>4, <1>6 DEF KeptInv, SendsInv, FirstTries
<1>14. FailedIsSafe'
  <2> SUFFICES ASSUME NEW x \in MayArrive', x[1] = "followUp", followUps'[x[2]].out = "failed"
               PROVE  Asked(x, followUps[x[2]].gen)'
    BY DEF FailedIsSafe
  <2>1. x[2] # f
    BY <1>4, <1>6
  <2>2. x \in MayArrive
    BY <1>9, <2>1
  <2>3. x[2] \in DOMAIN followUps
    BY <2>2, MayArriveIsBegun DEF KeptInv, SendsInv, RowsKnown
  <2>4. followUps'[x[2]] = followUps[x[2]]
    BY <1>6, <2>1, <2>3
  <2>5. Asked(x, followUps[x[2]].gen)
    BY <2>2, <2>4 DEF KeptInv, SendsInv, FailedIsSafe
  <2> DEFINE h == followUps'[x[2]].gen
  <2>6. Asked(x, h)
    BY <2>4, <2>5
  <2> QED
    BY <2>6 DEF Asked
<1> QED
  BY <1>9, <1>10, <1>11, <1>12, <1>13, <1>14 DEF Kept, SendsInv

LEMMA ClaimFollowUpRelayKeeps ==
  ASSUME KeptInv, NEW b \in Bot, NEW f \in DOMAIN followUps, ClaimFollowUpRelay(b, f)
  PROVE  Kept
<1>1. PICK g : g = followUps[f].gen + 1
  OBVIOUS
<1>2. /\ RelayFollowUp(b, f) /\ UNCHANGED <<acks, drafts, landed, agreed>>
      /\ followUps[f].out \in {"none", "failed"}
  BY DEF ClaimFollowUpRelay, ghosts
<1>3. followUps[f].gen \in Nat
  BY RowIsTyped DEF KeptInv, FollowUp
<1>4. ASSUME NEW x \in MayArrive, x[1] = "followUp", x[2] = f
      PROVE  Asked(x, g)'
  <2>1. x \in Begun /\ x[3] \in 1..followUps[f].gen
    BY <1>4, MayArriveIsBegun DEF KeptInv, SendsInv, RowsKnown
  <2>2. followUps[f].out # "none"
    BY <1>3, <2>1 DEF KeptInv, SendsInv, FirstTries
  <2>3. Asked(x, followUps[f].gen)
    BY <1>2, <1>4, <2>2 DEF KeptInv, SendsInv, FailedIsSafe
  <2>4. PICK z \in agreed : z[1] = x[1] /\ z[2] = x[2] /\ x[3] < z[3] /\ z[3] =< followUps[f].gen
    BY <2>3 DEF Asked
  <2>5. z[3] \in Nat
    BY DEF KeptInv, CallTypes
  <2>6. z[3] =< g
    BY <1>1, <1>3, <2>4, <2>5
  <2> QED
    BY <1>2, <2>4, <2>6 DEF Asked
<1> QED
  BY <1>1, <1>2, <1>4, RelayKeeps

LEMMA ClaimFollowUpManualRetryKeeps ==
  ASSUME KeptInv, NEW b \in Bot, NEW f \in DOMAIN followUps, ClaimFollowUpManualRetry(b, f)
  PROVE  Kept
<1>1. PICK g : g = followUps[f].gen + 1
  OBVIOUS
<1>2. /\ RelayFollowUp(b, f) /\ UNCHANGED <<acks, drafts, landed>>
      /\ agreed' = agreed \union {<<"followUp", f, g>>}
  BY <1>1 DEF ClaimFollowUpManualRetry
<1>3. followUps[f].gen \in Nat
  BY RowIsTyped DEF KeptInv, FollowUp
<1>4. ASSUME NEW x \in MayArrive, x[1] = "followUp", x[2] = f
      PROVE  Asked(x, g)'
  <2>1. x[3] \in 1..followUps[f].gen
    BY <1>4, MayArriveIsBegun DEF KeptInv, SendsInv, RowsKnown
  <2>2. x[3] < g /\ g =< g
    BY <1>1, <1>3, <2>1
  <2>3. <<"followUp", f, g>> \in agreed'
    BY <1>2
  <2>4. \E z \in agreed' : z[1] = x[1] /\ z[2] = x[2] /\ x[3] < z[3] /\ z[3] =< g
    BY <1>4, <2>2, <2>3
  <2> QED
    BY <2>4 DEF Asked
<1> QED
  BY <1>1, <1>2, <1>4, RelayKeeps

-----------------------------------------------------------------------------
(* Every step *)

LEMMA RowStep ==
  ASSUME KeptInv, UNCHANGED <<calls, landed, agreed>>, RowTypes' /\ RowsKept
  PROVE  Kept
BY CallsUntouched

LEMMA NothingSent ==
  ASSUME KeptInv, UNCHANGED <<rowVars, calls, landed, agreed>>
  PROVE  Kept
BY RowsUntouched, CallsUntouched DEF KeptInv

LEMMA SendsStep ==
  ASSUME KeptInv, looks \subseteq Bot, clock \in Nat, Next
  PROVE  Kept
<1>1. KeptInv /\ RowTypes
  BY DEF KeptInv
<1>2. CASE Acknowledge
  BY <1>1, <1>2, BeginAcknowledgementKeeps DEF Acknowledge
<1>3. ASSUME NEW c \in calls, CallGoesOn(c) PROVE Kept
  BY <1>1, <1>3, AnswerKeeps, SettleAcknowledgementKeeps, FinishReplyDraftKeeps,
     SettleFollowUpRelayKeeps, FinalizeStaffReplyKeeps, EditEnds DEF CallGoesOn
<1>4. CASE Poster
  <2>1. CASE RecordSenderFollowUp
    <3>1. UNCHANGED <<calls, landed, agreed>>
      BY <2>1 DEF RecordSenderFollowUp, ghosts
    <3> QED
      BY <1>1, <2>1, <3>1, RecordSenderFollowUpRows, RowStep
  <2>2. CASE SenderClose
    BY <2>2, NothingSent DEF SenderClose, ghosts
  <2> QED
    BY <1>4, <2>1, <2>2 DEF Poster
<1>5. CASE StaffAtTheRow
  <2>1. CASE CreateReplyDraft
    <3>1. UNCHANGED <<calls, landed, agreed>>
      BY <2>1 DEF CreateReplyDraft, ghosts
    <3> QED
      BY <1>1, <2>1, <3>1, CreateReplyDraftRows, RowStep
  <2>2. CASE (\E d \in DOMAIN drafts : ResolveReplyDraft(d))
             \/ (\E f \in DOMAIN followUps : ResolveFollowUp(f))
    <3>1. UNCHANGED <<calls, landed, agreed>>
      BY <2>2 DEF ResolveReplyDraft, ResolveFollowUp, ghosts
    <3> QED
      BY <1>1, <2>2, <3>1, ResolveRows, RowStep
  <2>3. CASE Claim \/ BindRecoveryThread(UnfinishedRenders # {})
    BY <2>3, NothingSent DEF Claim, BindRecoveryThread, ghosts
  <2>4. CASE StaffClose \/ SetInternalHold \/ SetStage \/ Reopen
    BY <2>4, NothingSent DEF StaffClose, SetInternalHold, SetStage, Reopen, ghosts
  <2> QED
    BY <1>5, <2>1, <2>2, <2>3, <2>4 DEF StaffAtTheRow
<1>6. ASSUME NEW b \in Running, StaffSends(b) PROVE Kept
  <2>1. b \in Bot
    BY DEF Running
  <2>2. CASE LookAtAck(b)
    BY <2>2, NothingSent DEF LookAtAck, ghosts
  <2>3. CASE ~LookAtAck(b)
    BY <1>1, <1>6, <2>1, <2>3, ClaimReplyDraftKeeps, ClaimReplyDraftManualRetryKeeps,
       ClaimFollowUpManualRetryKeeps DEF StaffSends
  <2> QED
    BY <2>2, <2>3
<1>7. ASSUME NEW b \in Running, StaffAtTheScreen(b) PROVE Kept
  <2>1. PICK r \in DOMAIN renders : ClaimRenderManualRetry(b, r) \/ ResolveRender(r)
    BY <1>7 DEF StaffAtTheScreen
  <2>2. CASE ClaimRenderManualRetry(b, r)
    <3>1. StartEdit(b, r) /\ UNCHANGED <<rowVars, landed, agreed>>
      BY <2>2 DEF ClaimRenderManualRetry, ghosts
    <3> QED
      BY <3>1, EditBegins
  <2>3. CASE ResolveRender(r)
    BY <2>3, NothingSent DEF ResolveRender, ghosts
  <2> QED
    BY <2>1, <2>2, <2>3
<1>8. ASSUME NEW b \in Running, Scheduler(b) PROVE Kept
  <2>1. b \in Bot
    BY DEF Running
  <2>2. CASE SweepDeadOwners
    <3>1. RecoverRows /\ UNCHANGED <<calls, landed, agreed>>
      BY <2>2 DEF SweepDeadOwners, Sweep, ghosts
    <3> QED
      BY <1>1, <3>1, RecoverKeepsRows, RowStep
  <2>3. ASSUME NEW f \in DOMAIN followUps, ClaimFollowUpRelay(b, f) PROVE Kept
    BY <2>1, <2>3, ClaimFollowUpRelayKeeps
  <2>4. ASSUME NEW r \in DOMAIN renders, ClaimRender(b, r) PROVE Kept
    <3>1. StartEdit(b, r) /\ UNCHANGED <<rowVars, landed, agreed>>
      BY <2>4 DEF ClaimRender, ghosts
    <3> QED
      BY <3>1, EditBegins
  <2>5. CASE ReadDue(b) \/ AutoCloseExpired(b)
    BY <2>5, NothingSent DEF ReadDue, AutoCloseExpired, ghosts
  <2>6. CASE PurgeBodies
    <3>1. UNCHANGED <<calls, landed, agreed>>
      BY <2>6 DEF PurgeBodies, ghosts
    <3> QED
      BY <1>1, <2>6, <3>1, PurgeKeepsRows, RowStep
  <2> QED
    BY <1>8, <2>2, <2>3, <2>4, <2>5, <2>6 DEF Scheduler
<1>9. ASSUME NEW b \in Bot, CrashBot(b) PROVE Kept
  BY <1>9, CrashKeeps DEF CrashBot
<1>10. ASSUME NEW b \in Bot, StartBot(b) PROVE Kept
  <2>1. UNCHANGED <<calls, landed, agreed>>
    BY <1>10 DEF StartBot, Start, StartUnrecovered, Starting, ghosts
  <2>2. RecoverRows \/ UNCHANGED rowVars
    BY <1>10 DEF StartBot, Start, StartUnrecovered
  <2> QED
    BY <1>1, <2>1, <2>2, RecoverKeepsRows, RowStep, NothingSent
<1>11. ASSUME NEW b \in Bot, Heartbeat(b) \/ Lapse(b) PROVE Kept
  BY <1>11, NothingSent DEF Heartbeat, Lapse, ghosts
<1>12. CASE Tick
  BY <1>12, NothingSent DEF Tick, ghosts
<1>13. CASE Talking
  BY <1>2, <1>3, <1>4, <1>5, <1>6, <1>7, <1>8, <1>13 DEF Talking
<1>14. CASE Living
  BY <1>9, <1>10, <1>11, <1>14 DEF Living
<1> QED
  BY <1>12, <1>13, <1>14 DEF Next
-----------------------------------------------------------------------------
(* The theorems *)

LEMMA ConfessionStart ==
  ASSUME ScreensInit
  PROVE  ConfessionInv
<1>1. /\ talk = [status |-> "open", stage |-> "active", thread |-> FALSE, panel |-> FALSE,
                 acked |-> FALSE, deadline |-> 0, side |-> ""]
      /\ acks = <<>> /\ drafts = <<>> /\ followUps = <<>> /\ looks = {} /\ calls = {}
      /\ clock = 0 /\ landed = {} /\ agreed = {} /\ turn = "us"
  BY DEF ScreensInit, Init
<1>2. talk \in Talk
  BY <1>1 DEF Talk, Stage
<1>3. TurnIsKnown
  BY <1>1 DEF TurnIsKnown, Open, NoTimeoutOverAnAnswer
<1>4. RowTypes /\ DOMAIN drafts = {} /\ DOMAIN followUps = {}
  <2>1. RowTypes
    BY <1>1, EmptySeq DEF RowTypes
  <2>2. drafts \in Seq(Draft) /\ Len(drafts) = 0 /\ followUps \in Seq(FollowUp) /\ Len(followUps) = 0
    BY <1>1, EmptySeq
  <2>3. DOMAIN drafts = 1..0 /\ DOMAIN followUps = 1..0
    BY <2>2
  <2> QED
    BY <2>1, <2>3
<1>5. Sends = {} /\ CallTypes
  BY <1>1 DEF Sends, CallTypes
<1>6. Begun = {} /\ MayArrive = {}
  BY <1>1, <1>5 DEF Begun, MayArrive
<1>7. SendsInv
  BY <1>4, <1>5, <1>6 DEF SendsInv, RowsKnown, FirstTries, OneSendEach, RepeatsAsked, FailedIsSafe
<1> QED
  BY <1>1, <1>2, <1>3, <1>4, <1>5, <1>7 DEF ConfessionInv, ConfessionTypes

LEMMA LooksStep ==
  ASSUME looks \subseteq Bot, clock \in Nat, Next
  PROVE  looks' \subseteq Bot /\ clock' \in Nat
<1> DEFINE Fine == looks' \subseteq Bot /\ clock' \in Nat
<1> SUFFICES Fine
  OBVIOUS
<1>1. CASE looks' \subseteq looks /\ clock' = clock
  BY <1>1
<1>2. ASSUME NEW b \in Bot, LookAtAck(b), clock' = clock PROVE Fine
  BY <1>2 DEF LookAtAck
<1>3. CASE Tick
  BY <1>3 DEF Tick
<1> HIDE DEF Fine
<1>4. CASE Talking
  <2>0. clock' = clock
    BY <1>4 DEF Talking
  <2>1. CASE Acknowledge
    BY <2>0, <2>1, <1>1 DEF Acknowledge, BeginAcknowledgement
  <2>2. ASSUME NEW c \in calls, CallGoesOn(c) PROVE Fine
    BY <2>0, <2>2, <1>1 DEF CallGoesOn, Answer, SettleAcknowledgement, FinishReplyDraft,
         SettleFollowUpRelay, FinalizeStaffReply, AnswerEdit, FinishRenderAttempt
  <2>3. CASE Poster
    BY <2>0, <2>3, <1>1 DEF Poster, RecordSenderFollowUp, SenderClose
  <2>4. CASE StaffAtTheRow
    BY <2>0, <2>4, <1>1 DEF StaffAtTheRow, Claim, BindRecoveryThread, StaffClose,
         SetInternalHold, SetStage, Reopen, CreateReplyDraft, ResolveReplyDraft, ResolveFollowUp
  <2>5. ASSUME NEW b \in Running, StaffSends(b) PROVE Fine
    BY <2>0, <2>5, <1>1, <1>2 DEF StaffSends, ClaimReplyDraft, ClaimReplyDraftManualRetry,
         ClaimFollowUpManualRetry, Running
  <2>6. ASSUME NEW b \in Running, StaffAtTheScreen(b) PROVE Fine
    BY <2>0, <2>6, <1>1 DEF StaffAtTheScreen, ClaimRenderManualRetry, ResolveRender
  <2>7. ASSUME NEW b \in Running, Scheduler(b) PROVE Fine
    BY <2>0, <2>7, <1>1 DEF Scheduler, SweepDeadOwners, Sweep, ClaimFollowUpRelay,
         ClaimRender, ReadDue, AutoCloseExpired, PurgeBodies
  <2> QED
    BY <1>4, <2>1, <2>2, <2>3, <2>4, <2>5, <2>6, <2>7 DEF Talking
<1>5. CASE Living
  BY <1>5, <1>1 DEF Living, CrashBot, Crash, StartBot, Start, StartUnrecovered, Starting,
       Heartbeat, Lapse
<1> QED
  BY <1>3, <1>4, <1>5 DEF Next

LEMMA ConfessionStep ==
  ASSUME ConfessionInv, [Next]_vars
  PROVE  ConfessionInv'
<1>1. KeptInv /\ TalkInv
  BY DEF ConfessionInv, ConfessionTypes, KeptInv, TalkInv
<1>2. CASE Next
  <2>1. talk' \in Talk /\ TurnIsKnown'
    BY <1>1, <1>2, TalkStep
  <2>2. looks' \subseteq Bot /\ clock' \in Nat
    BY <1>2, LooksStep DEF ConfessionInv, ConfessionTypes
  <2>3. Kept
    BY <1>1, <1>2, SendsStep DEF ConfessionInv, ConfessionTypes
  <2> QED
    BY <2>1, <2>2, <2>3 DEF ConfessionInv, ConfessionTypes, Kept
<1>3. CASE UNCHANGED vars
  <2>1. UNCHANGED <<talk, turn, rowVars, calls, landed, agreed, looks, clock>>
    BY <1>3 DEF vars, talkVars, ghosts
  <2>2. talk' \in Talk /\ TurnIsKnown'
    BY <1>1, <2>1, TalkUntouched
  <2>3. Kept
    BY <1>1, <2>1, NothingSent
  <2> QED
    BY <2>1, <2>2, <2>3 DEF ConfessionInv, ConfessionTypes, Kept
<1> QED
  BY <1>2, <1>3

\* The rows, the sends and whose turn it is agree, whatever the staff, the poster,
\* the scheduler of every bot, Discord, crashes and lost leases do in between.
THEOREM ConfessionInvariant == Spec => []ConfessionInv
<1>1. ScreensInit => ConfessionInv
  BY ConfessionStart
<1>2. ConfessionInv /\ [Next]_vars => ConfessionInv'
  BY ConfessionStep
<1> QED
  BY <1>1, <1>2, PTL DEF Spec

\* No text reaches its reader a second time unless a member of the staff asked for
\* the repeat between the two sends (settleFollowUpRelay, recoverOrphanedEffects).
THEOREM RepeatsAreAsked == Spec => []NothingRepeatedSilently
<1>1. ConfessionInv => NothingRepeatedSilently
  <2> SUFFICES ASSUME ConfessionInv, NEW x \in landed, NEW y \in landed,
                      x[1] = y[1], x[2] = y[2], x[3] < y[3]
               PROVE  Asked(x, y[3])
    BY DEF NothingRepeatedSilently, Asked
  <2>1. x \in MayArrive /\ y \in Begun
    BY DEF MayArrive, Begun
  <2> QED
    BY <2>1 DEF ConfessionInv, SendsInv, RepeatsAsked
<1> QED
  BY <1>1, ConfessionInvariant, PTL

\* The deadline a bot carries ends only a conversation that still waits for the
\* poster under that very deadline (autoCloseExpiredAtomic).
THEOREM TimeoutIsThePosters == Spec => []NoTimeoutOverAnAnswer
<1>1. ConfessionInv => NoTimeoutOverAnAnswer
  BY DEF ConfessionInv, TurnIsKnown
<1> QED
  BY <1>1, ConfessionInvariant, PTL
\* After the end only follow-ups are still handed over, and screens edited.
OnlyLeftovers ==
  \A c \in calls' \ calls : c.at = "sending" => c.kind \in {"followUp", "edit"}

LEMMA NothingBeginsAfterTheEnd ==
  ASSUME KeptInv, ~Open, Next
  PROVE  OnlyLeftovers
<1>1. CASE calls' \subseteq calls
  BY <1>1 DEF OnlyLeftovers
<1>2. ASSUME NEW c \in calls, NEW out, Reply(c, out) PROVE OnlyLeftovers
  <2>1. CallShape(c)
    BY DEF KeptInv, CallTypes
  <2> DEFINE e == [c EXCEPT !.at = "answered", !.out = out]
  <2>2. /\ e.kind = c.kind /\ e.row = c.row /\ e.gen = c.gen /\ e.bot = c.bot
        /\ e.at = "answered" /\ e.out = out /\ CallShape(e)
    BY <2>1, AnsweredCall
  <2>3. calls' = (calls \ {c}) \union {e}
    BY <1>2 DEF Reply
  <2> HIDE DEF e
  <2> QED
    BY <2>2, <2>3 DEF OnlyLeftovers
<1>3. ASSUME NEW b, NEW r, StartEdit(b, r) PROVE OnlyLeftovers
  <2> DEFINE c == Call("edit", Len(attempts) + 1, 0, b)
  <2>1. calls' = calls \union {c} /\ c.kind = "edit"
    BY <1>3 DEF StartEdit, Call
  <2> HIDE DEF c
  <2> QED
    BY <2>1 DEF OnlyLeftovers
<1>4. ASSUME NEW b, NEW f, RelayFollowUp(b, f) PROVE OnlyLeftovers
  <2> DEFINE c == Call("followUp", f, followUps[f].gen + 1, b)
  <2>1. calls' = calls \union {c} /\ c.kind = "followUp"
    BY <1>4 DEF RelayFollowUp, Call
  <2> HIDE DEF c
  <2> QED
    BY <2>1 DEF OnlyLeftovers
<1> HIDE DEF OnlyLeftovers
<1>5. CASE Acknowledge
  <2>1. calls' = calls
    BY <1>5 DEF Acknowledge, BeginAcknowledgement
  <2> QED
    BY <1>1, <2>1
<1>6. ASSUME NEW c \in calls, CallGoesOn(c) PROVE OnlyLeftovers
  <2>1. CASE Answer(c) \/ AnswerEdit(c)
    <3>1. \E out : Reply(c, out)
      BY <2>1 DEF Answer, AnswerEdit
    <3> QED
      BY <1>2, <3>1
  <2>2. CASE ~(Answer(c) \/ AnswerEdit(c))
    <3>1. calls' = calls \ {c}
      BY <1>6, <2>2 DEF CallGoesOn, SettleAcknowledgement, FinishReplyDraft,
           SettleFollowUpRelay, FinalizeStaffReply, FinishRenderAttempt
    <3> QED
      BY <1>1, <3>1
  <2> QED
    BY <2>1, <2>2
<1>7. CASE Poster
  BY <1>1, <1>7 DEF Poster, RecordSenderFollowUp, SenderClose
<1>8. CASE StaffAtTheRow
  BY <1>1, <1>8 DEF StaffAtTheRow, Claim, BindRecoveryThread, StaffClose, SetInternalHold,
       SetStage, Reopen, CreateReplyDraft, ResolveReplyDraft, ResolveFollowUp
<1>9. ASSUME NEW b \in Running, StaffSends(b) PROVE OnlyLeftovers
  BY <1>1, <1>4, <1>9 DEF StaffSends, LookAtAck, ClaimReplyDraft, ClaimReplyDraftManualRetry,
       ClaimFollowUpManualRetry
<1>10. ASSUME NEW b \in Running, StaffAtTheScreen(b) PROVE OnlyLeftovers
  BY <1>1, <1>3, <1>10 DEF StaffAtTheScreen, ClaimRenderManualRetry, ResolveRender
<1>11. ASSUME NEW b \in Running, Scheduler(b) PROVE OnlyLeftovers
  BY <1>1, <1>3, <1>4, <1>11 DEF Scheduler, SweepDeadOwners, Sweep, ClaimFollowUpRelay,
       ClaimRender, ReadDue, AutoCloseExpired, PurgeBodies
<1>12. CASE Talking
  BY <1>5, <1>6, <1>7, <1>8, <1>9, <1>10, <1>11, <1>12 DEF Talking
<1>13. CASE Living
  BY <1>1, <1>13 DEF Living, CrashBot, Crash, StartBot, Start, StartUnrecovered, Starting,
       Heartbeat, Lapse
<1>14. CASE Tick
  BY <1>1, <1>14 DEF Tick
<1> QED
  BY <1>12, <1>13, <1>14 DEF Next

\* Late answers, dead deadlines and overlapping starts do not touch who ended a
\* conversation, and begin neither an acknowledgement nor a reply after its end.
THEOREM TheEndStands == Spec => EndStands
<1>1. ASSUME ConfessionInv, [Next]_vars
      PROVE  [~Open /\ talk'.status = "closed" =>
                 /\ talk'.side = talk.side
                 /\ \A c \in calls' \ calls : c.at = "sending" => c.kind \in {"followUp", "edit"}]_vars
  <2>1. KeptInv /\ TalkInv
    BY <1>1 DEF ConfessionInv, ConfessionTypes, KeptInv, TalkInv
  <2>2. CASE Next
    <3>1. SideStands
      BY <2>1, <2>2, TalkStep
    <3>2. ~Open => OnlyLeftovers
      BY <2>1, <2>2, NothingBeginsAfterTheEnd
    <3> QED
      BY <3>1, <3>2 DEF SideStands, OnlyLeftovers
  <2>3. CASE UNCHANGED vars
    BY <2>3
  <2> QED
    BY <1>1, <2>2, <2>3
<1> QED
  BY <1>1, ConfessionInvariant, PTL DEF Spec, EndStands

-----------------------------------------------------------------------------
(***************************************************************************)
(* A stale screen is repaired.  An edit that lands late finds its row      *)
(* claimed again, waiting, or settled by a later edit; the invariants say  *)
(* which, message by message.                                              *)
(***************************************************************************)

Msg == Nat \X Nat

RenderRow ==
  [msg: Msg, kind: {"current", "superseded"},
   state: {"pending", "rendering", "failed", "exhausted", "settled", "resolved"},
   gen: Nat, owner: Nat, tries: Nat]

View == {"superseded", "ended", "waiting"} \X (Nat \union {"", "staff", "sender", "timeout"})

Attempt ==
  [render: Nat, gen: Nat, owner: Nat, msg: Msg, view: View,
   progress: {"sending", "finished", "unknown"}]

Edits == {c \in calls : c.kind = "edit"}

\* The row an attempt was made for.
RowOf(a) == renders[attempts[a].render]

Sending(a) == attempts[a].progress = "sending"

ScreenTypes ==
  /\ renders \in Seq(RenderRow) /\ attempts \in Seq(Attempt)
  /\ \A r \in DOMAIN renders : renders[r].msg \in DOMAIN shown
  /\ \A a \in DOMAIN attempts :
       attempts[a].render \in DOMAIN renders /\ RowOf(a).msg = attempts[a].msg
  /\ \A c \in Edits : c.row \in DOMAIN attempts /\ c.at \in {"sending", "answered"}
  /\ \A m \in DOMAIN shown : shown[m] \in 0..Len(attempts)

\* A row stays with whoever claimed it until the edit is finished or given up, and
\* every claim is a generation of its own.
ClaimsHeld ==
  \A a \in DOMAIN attempts :
    /\ Sending(a) => /\ RowOf(a).state = "rendering" /\ RowOf(a).gen = attempts[a].gen
                     /\ RowOf(a).owner = attempts[a].owner
    /\ ~Sending(a) => ~(RowOf(a).state = "rendering" /\ RowOf(a).gen = attempts[a].gen)
    /\ attempts[a].gen =< RowOf(a).gen
    /\ \A b \in DOMAIN attempts :
         attempts[a].render = attempts[b].render /\ attempts[a].gen = attempts[b].gen => a = b

\* An edit under way is an attempt of the bot that sends it, one each.
EditsKnown ==
  /\ \A c \in Edits : attempts[c.row].owner = c.bot /\ attempts[c.row].progress # "finished"
  /\ \A c, d \in Edits : c.row = d.row => c = d

\* What a bot asks after an edit that Discord has not taken waits behind it.
InOrder ==
  \A c \in Edits : c.at = "sending" =>
    \A a \in DOMAIN attempts :
      /\ a > c.row /\ attempts[a].msg = attempts[c.row].msg /\ attempts[a].owner = c.bot
      => \E d \in Edits : d.row = a /\ d.at = "sending"

\* Nobody else began to edit the message while this bot held its claim.
OneHolder ==
  \A c \in Edits : Sending(c.row) =>
    \A a \in DOMAIN attempts :
      a > c.row /\ attempts[a].msg = attempts[c.row].msg => attempts[a].owner = c.bot

Held == ClaimsHeld /\ EditsKnown /\ InOrder /\ OneHolder

\* Edits that count: they settled their row, or Discord took them and they will.
Done(a) ==
  /\ attempts[a].progress = "finished"
  /\ RowOf(a).state = "settled" /\ RowOf(a).gen = attempts[a].gen
Nearly(a) ==
  /\ Sending(a)
  /\ \E c \in Edits : c.row = a /\ c.at = "answered" /\ c.out = "delivered"

Later(a) ==
  \E b \in DOMAIN attempts : b > a /\ attempts[b].msg = attempts[a].msg /\ Sending(b)

\* An edit given up by others landed, and its bot is about to ask for a repair.
Late(m) ==
  \E c \in Edits : /\ attempts[c.row].msg = m /\ attempts[c.row].progress = "unknown"
                   /\ c.at = "answered" /\ c.out # "failed"

OpenRow(m) ==
  \E r \in DOMAIN renders : renders[r].msg = m /\ renders[r].state \notin {"settled", "rendering"}

UpToDate(m) ==
  \A a \in DOMAIN attempts :
    attempts[a].msg = m /\ (Done(a) \/ Nearly(a)) => shown[m] >= a \/ Later(a)

Fine(m) == m \in unseen \/ Late(m) \/ OpenRow(m) \/ UpToDate(m)

Repaired == \A m \in DOMAIN shown : Fine(m)

ScreenInv == ScreenTypes /\ Held /\ Repaired

LEMMA ScreenRows ==
  ASSUME ScreenTypes
  PROVE  /\ DOMAIN renders = 1..Len(renders) /\ Len(renders) \in Nat
         /\ DOMAIN attempts = 1..Len(attempts) /\ Len(attempts) \in Nat
         /\ \A r \in DOMAIN renders : renders[r] \in RenderRow
         /\ \A a \in DOMAIN attempts : attempts[a] \in Attempt /\ a \in Nat
BY DEF ScreenTypes

\* Steps that have nothing to do with screens.
LEMMA CalmStep ==
  ASSUME ScreenInv, UNCHANGED screenVars, Edits' = Edits
  PROVE  ScreenInv'
<1> USE DEF ScreenInv, screenVars
<1>1. ScreenTypes'
  BY DEF ScreenTypes, RowOf
<1>2. Held'
  BY DEF Held, ClaimsHeld, EditsKnown, InOrder, OneHolder, RowOf, Sending
<1>3. Repaired'
  BY DEF Repaired, Fine, Late, OpenRow, UpToDate, Done, Nearly, Later, RowOf, Sending
<1> QED
  BY <1>1, <1>2, <1>3


\* A delivered reply: its message is there, and waits to be shown as it stands.
LEMMA QueueStep ==
  ASSUME ScreenInv, NEW c, c.row \in Nat, c.gen \in Nat, QueueFinalRender(c), Edits' = Edits
  PROVE  ScreenInv'
<1> DEFINE msg == <<c.row, c.gen>>
           row == NewRender(msg, IF Current(c) THEN "current" ELSE "superseded")
           n == Len(renders) + 1
<1>1. row \in RenderRow /\ row.msg = msg /\ row.state = "pending"
  BY DEF NewRender, RenderRow, Msg
<1>2. /\ renders' = Append(renders, row) /\ attempts' = attempts /\ unseen' = unseen
      /\ shown' = [m \in DOMAIN shown \union {msg} |-> IF m = msg THEN 0 ELSE shown[m]]
  BY DEF QueueFinalRender
<1> HIDE DEF row, msg
<1>3. /\ renders' \in Seq(RenderRow)
      /\ DOMAIN renders' = DOMAIN renders \union {n} /\ n \notin DOMAIN renders
      /\ renders'[n] = row
      /\ \A r \in DOMAIN renders : renders'[r] = renders[r]
  BY <1>1, <1>2, RowAdded DEF ScreenInv, ScreenTypes
<1> HIDE DEF n
<1>4. /\ DOMAIN shown' = DOMAIN shown \union {msg}
      /\ shown'[msg] = 0 /\ \A m \in DOMAIN shown : m # msg => shown'[m] = shown[m]
  BY <1>2
<1>5. \A a \in DOMAIN attempts : attempts[a].render \in DOMAIN renders /\ RowOf(a)' = RowOf(a)
  BY <1>2, <1>3 DEF ScreenInv, ScreenTypes, RowOf
<1>6. ScreenTypes'
  <2>1. \A r \in DOMAIN renders' : renders'[r].msg \in DOMAIN shown'
    BY <1>1, <1>3, <1>4 DEF ScreenInv, ScreenTypes
  <2>2. \A a \in DOMAIN attempts' :
          attempts'[a].render \in DOMAIN renders' /\ RowOf(a)'.msg = attempts'[a].msg
    BY <1>2, <1>3, <1>5 DEF ScreenInv, ScreenTypes
  <2>3. \A m \in DOMAIN shown' : shown'[m] \in 0..Len(attempts')
    BY <1>2, <1>4, ScreenRows DEF ScreenInv, ScreenTypes
  <2> QED
    BY <1>2, <1>3, <2>1, <2>2, <2>3 DEF ScreenInv, ScreenTypes
<1>7. Held'
  <2>1. ClaimsHeld'
    BY <1>2, <1>5 DEF ScreenInv, Held, ClaimsHeld, Sending
  <2> QED
    BY <1>2, <2>1 DEF ScreenInv, Held, EditsKnown, InOrder, OneHolder, Sending
<1>8. ASSUME NEW m \in DOMAIN shown' PROVE Fine(m)'
  <2>1. CASE m = msg
    BY <1>1, <1>3, <2>1 DEF Fine, OpenRow
  <2>2. CASE m # msg
    <3>1. Fine(m) /\ shown'[m] = shown[m]
      BY <1>4, <2>2 DEF ScreenInv, Repaired
    <3>2. OpenRow(m) => OpenRow(m)'
      BY <1>3 DEF OpenRow
    <3>3. Late(m) => Late(m)'
      BY <1>2 DEF Late
    <3>4. UpToDate(m) => UpToDate(m)'
      BY <1>2, <1>5, <3>1 DEF UpToDate, Done, Nearly, Later, Sending
    <3> QED
      BY <1>2, <3>1, <3>2, <3>3, <3>4 DEF Fine
  <2> QED
    BY <2>1, <2>2
<1> QED
  BY <1>6, <1>7, <1>8 DEF ScreenInv, Repaired

\* One more attempt at a row nobody holds.
Claims(b, r, row) ==
  /\ r \in DOMAIN renders /\ renders[r].state \in {"pending", "failed", "exhausted"}
  /\ row \in RenderRow /\ row.msg = renders[r].msg /\ row.state = "rendering"
  /\ row.gen = renders[r].gen + 1 /\ row.owner = b
  /\ renders' = [renders EXCEPT ![r] = row]
  /\ StartEdit(b, r)
  /\ UNCHANGED <<shown, unseen>>

LEMMA RowHeld ==
  ASSUME NEW x \in RenderRow, NEW b \in Nat
  PROVE  LET row == [x EXCEPT !.state = "rendering", !.owner = b, !.gen = @ + 1]
         IN /\ row \in RenderRow /\ row.msg = x.msg /\ row.state = "rendering"
            /\ row.gen = x.gen + 1 /\ row.owner = b /\ row.tries = x.tries
<1> DEFINE y == [x EXCEPT !.state = "rendering", !.owner = b]
           row == [y EXCEPT !.gen = @ + 1]
<1>1. /\ y \in RenderRow /\ y.msg = x.msg /\ y.state = "rendering"
      /\ y.gen = x.gen /\ y.owner = b /\ y.tries = x.tries
  BY DEF RenderRow
<1>3. row = [x EXCEPT !.state = "rendering", !.owner = b, !.gen = @ + 1]
  BY DEF RenderRow
<1> HIDE DEF y
<1>2. /\ row \in RenderRow /\ row.msg = x.msg /\ row.state = "rendering"
      /\ row.gen = x.gen + 1 /\ row.owner = b /\ row.tries = x.tries
  BY <1>1 DEF RenderRow
<1> HIDE DEF row
<1> QED
  BY <1>2, <1>3

LEMMA RowTried ==
  ASSUME NEW x \in RenderRow, NEW b \in Nat
  PROVE  LET row == [x EXCEPT !.state = "rendering", !.owner = b, !.gen = @ + 1, !.tries = @ + 1]
         IN /\ row \in RenderRow /\ row.msg = x.msg /\ row.state = "rendering"
            /\ row.gen = x.gen + 1 /\ row.owner = b
<1> DEFINE y == [x EXCEPT !.state = "rendering", !.owner = b, !.gen = @ + 1]
           row == [y EXCEPT !.tries = @ + 1]
<1>1. /\ y \in RenderRow /\ y.msg = x.msg /\ y.state = "rendering"
      /\ y.gen = x.gen + 1 /\ y.owner = b /\ y.tries = x.tries
  BY RowHeld
<1>3. row = [x EXCEPT !.state = "rendering", !.owner = b, !.gen = @ + 1, !.tries = @ + 1]
  BY RowHeld
<1> HIDE DEF y
<1>2. /\ row \in RenderRow /\ row.msg = x.msg /\ row.state = "rendering"
      /\ row.gen = x.gen + 1 /\ row.owner = b
  BY <1>1 DEF RenderRow
<1> HIDE DEF row
<1> QED
  BY <1>2, <1>3

LEMMA ClaimRenderClaims ==
  ASSUME ScreenTypes, NEW b \in Bot, NEW r, ClaimRender(b, r) \/ ClaimRenderManualRetry(b, r)
  PROVE  \E row : Claims(b, r, row)
<1>1. r \in DOMAIN renders /\ renders[r] \in RenderRow /\ b \in Nat
  BY SMTT(30), ScreenRows, ConfessionAssumption DEF ClaimRender, ClaimRenderManualRetry, Bot
<1>2. CASE ClaimRender(b, r)
  <2> DEFINE row == [renders[r] EXCEPT !.state = "rendering", !.owner = b, !.gen = @ + 1,
                                       !.tries = @ + 1]
  <2>1. /\ row \in RenderRow /\ row.msg = renders[r].msg /\ row.state = "rendering"
        /\ row.gen = renders[r].gen + 1 /\ row.owner = b
    BY <1>1, RowTried
  <2>2. renders' = [renders EXCEPT ![r] = row]
    BY <1>2 DEF ClaimRender
  <2> HIDE DEF row
  <2> QED
    BY <1>1, <1>2, <2>1, <2>2 DEF ClaimRender, Claims
<1>3. CASE ClaimRenderManualRetry(b, r)
  <2> DEFINE row == [renders[r] EXCEPT !.state = "rendering", !.owner = b, !.gen = @ + 1]
  <2>1. /\ row \in RenderRow /\ row.msg = renders[r].msg /\ row.state = "rendering"
        /\ row.gen = renders[r].gen + 1 /\ row.owner = b
    BY <1>1, RowHeld
  <2>2. renders' = [renders EXCEPT ![r] = row]
    BY <1>3 DEF ClaimRenderManualRetry
  <2> HIDE DEF row
  <2> QED
    BY <1>1, <1>3, <2>1, <2>2 DEF ClaimRenderManualRetry, Claims
<1> QED
  BY <1>2, <1>3

\* What a claim writes, told apart: the row, the attempt n, the edit c.
Claimed(b, r, row, n, c) ==
  /\ n \notin DOMAIN attempts /\ n \in Nat /\ \A a \in DOMAIN attempts : a < n
  /\ renders' \in Seq(RenderRow) /\ DOMAIN renders' = DOMAIN renders
  /\ \A j \in DOMAIN renders : renders'[j] = IF j = r THEN row ELSE renders[j]
  /\ attempts' \in Seq(Attempt) /\ DOMAIN attempts' = DOMAIN attempts \union {n}
  /\ n = Len(attempts) + 1 /\ Len(attempts') = n
  /\ \A a \in DOMAIN attempts : attempts'[a] = attempts[a]
  /\ attempts'[n].render = r /\ attempts'[n].gen = row.gen /\ attempts'[n].owner = b
  /\ attempts'[n].msg = row.msg /\ attempts'[n].progress = "sending"
  /\ Edits' = Edits \union {c} /\ c \in calls' /\ c \notin calls
  /\ c.kind = "edit" /\ c.row = n /\ c.bot = b /\ c.at = "sending"

LEMMA ClaimWrites ==
  ASSUME ScreenInv, talk \in Talk, NEW b \in Bot, NEW r, NEW row, Claims(b, r, row)
  PROVE  \E n, c : Claimed(b, r, row, n, c)
<1> DEFINE n == Len(attempts) + 1
           view == IF renders[r].kind = "superseded" THEN <<"superseded", 0>> ELSE DesiredRender
           new == [render |-> r, gen |-> renders[r].gen + 1, owner |-> b, msg |-> renders[r].msg,
                   view |-> view, progress |-> "sending"]
           c == Call("edit", n, 0, b)
<1>1. r \in DOMAIN renders /\ renders[r] \in RenderRow /\ r \in Nat /\ b \in Nat
  BY SMTT(30), ScreenRows, ConfessionAssumption DEF Claims, ScreenInv, Bot
<1>2. view \in View
  BY DEF DesiredRender, View, Talk, Open
<1> HIDE DEF view
<1>3. /\ new \in Attempt /\ new.render = r /\ new.gen = row.gen /\ new.owner = b
      /\ new.msg = row.msg /\ new.progress = "sending"
  BY <1>1, <1>2 DEF Attempt, RenderRow, Claims
<1>4. attempts' = Append(attempts, new) /\ calls' = calls \union {c}
  BY DEF Claims, StartEdit, view
<1>5. c.kind = "edit" /\ c.row = n /\ c.bot = b /\ c.at = "sending"
  BY DEF Call
<1> HIDE DEF new, c
<1>6. /\ attempts' \in Seq(Attempt) /\ DOMAIN attempts' = DOMAIN attempts \union {n}
      /\ \A a \in DOMAIN attempts : attempts'[a] = attempts[a]
      /\ attempts'[n] = new /\ n \notin DOMAIN attempts /\ n \in Nat
  BY <1>3, <1>4, RowAdded DEF ScreenInv, ScreenTypes
<1>7. Len(attempts') = n /\ \A a \in DOMAIN attempts : a < n
  BY <1>3, <1>4, AppendProperties, ScreenRows DEF ScreenInv, ScreenTypes
<1>8. /\ renders' \in Seq(RenderRow) /\ DOMAIN renders' = DOMAIN renders
      /\ \A j \in DOMAIN renders : renders'[j] = IF j = r THEN row ELSE renders[j]
  BY <1>1, RowWritten DEF ScreenInv, ScreenTypes, Claims
<1>9. c \notin calls
  BY <1>5, <1>6 DEF ScreenInv, ScreenTypes, Edits
<1>10. Edits' = Edits \union {c} /\ c \in calls'
  BY <1>4, <1>5 DEF Edits
<1>11. n = Len(attempts) + 1
  OBVIOUS
<1> HIDE DEF n
<1>12. Claimed(b, r, row, n, c)
  BY <1>3, <1>5, <1>6, <1>7, <1>8, <1>9, <1>10, <1>11 DEF Claimed
<1> QED
  BY <1>12


\* A claim: the row is nobody's, so no edit under way is of its attempts, and every
\* edit of the message that counts is about to be followed by this one.
LEMMA ClaimStep ==
  ASSUME ScreenInv, talk \in Talk, NEW b \in Bot, NEW r, NEW row, Claims(b, r, row), OneEditorEach
  PROVE  ScreenInv'
<1>0. PICK n, c : Claimed(b, r, row, n, c)
  BY ClaimWrites
<1>1. /\ n \notin DOMAIN attempts /\ n \in Nat /\ \A a \in DOMAIN attempts : a < n
      /\ renders' \in Seq(RenderRow) /\ DOMAIN renders' = DOMAIN renders
      /\ \A j \in DOMAIN renders : renders'[j] = IF j = r THEN row ELSE renders[j]
      /\ attempts' \in Seq(Attempt) /\ DOMAIN attempts' = DOMAIN attempts \union {n}
      /\ n = Len(attempts) + 1 /\ Len(attempts') = n
      /\ \A a \in DOMAIN attempts : attempts'[a] = attempts[a]
      /\ attempts'[n].render = r /\ attempts'[n].gen = row.gen /\ attempts'[n].owner = b
      /\ attempts'[n].msg = row.msg /\ attempts'[n].progress = "sending"
  BY <1>0 DEF Claimed
<1>2. /\ Edits' = Edits \union {c} /\ c \in calls' /\ c \notin calls
      /\ c.kind = "edit" /\ c.row = n /\ c.bot = b /\ c.at = "sending"
  BY <1>0 DEF Claimed
<1>3. /\ r \in DOMAIN renders /\ renders[r].state \in {"pending", "failed", "exhausted"}
      /\ row.msg = renders[r].msg /\ row.state = "rendering" /\ row.gen = renders[r].gen + 1
      /\ row.owner = b /\ UNCHANGED <<shown, unseen>>
  BY DEF Claims
<1>4. /\ \A a \in DOMAIN attempts : attempts[a] \in Attempt /\ a \in Nat
      /\ \A j \in DOMAIN renders : renders[j] \in RenderRow
  BY ScreenRows DEF ScreenInv
<1>5. /\ n \in DOMAIN attempts' /\ RowOf(n)' = row
      /\ \A a \in DOMAIN attempts :
           /\ attempts[a].render \in DOMAIN renders
           /\ RowOf(a)' = IF attempts[a].render = r THEN row ELSE RowOf(a)
  BY <1>1, <1>3 DEF ScreenInv, ScreenTypes, RowOf
<1>6. ScreenTypes'
  <2>1. \A j \in DOMAIN renders' : renders'[j].msg \in DOMAIN shown'
    BY <1>1, <1>3 DEF ScreenInv, ScreenTypes
  <2>2. ASSUME NEW a \in DOMAIN attempts'
        PROVE  attempts'[a].render \in DOMAIN renders' /\ RowOf(a)'.msg = attempts'[a].msg
    <3>1. CASE a = n
      BY <1>1, <1>3, <1>5, <3>1
    <3>2. CASE a \in DOMAIN attempts
      BY <1>1, <1>3, <1>5, <3>2 DEF ScreenInv, ScreenTypes, RowOf
    <3> QED
      BY <1>1, <2>2, <3>1, <3>2
  <2>3. \A e \in Edits' : e.row \in DOMAIN attempts' /\ e.at \in {"sending", "answered"}
    BY <1>1, <1>2 DEF ScreenInv, ScreenTypes
  <2>4. \A m \in DOMAIN shown' : shown'[m] \in 0..Len(attempts')
    BY <1>1, <1>3, ScreenRows DEF ScreenInv, ScreenTypes
  <2> QED
    BY <1>1, <2>1, <2>2, <2>3, <2>4 DEF ScreenTypes
<1>7. ClaimsHeld'
  <2> SUFFICES ASSUME NEW a \in DOMAIN attempts'
               PROVE  /\ Sending(a)' => /\ RowOf(a)'.state = "rendering"
                                        /\ RowOf(a)'.gen = attempts'[a].gen
                                        /\ RowOf(a)'.owner = attempts'[a].owner
                      /\ ~Sending(a)' => ~(RowOf(a)'.state = "rendering"
                                           /\ RowOf(a)'.gen = attempts'[a].gen)
                      /\ attempts'[a].gen =< RowOf(a)'.gen
                      /\ \A d \in DOMAIN attempts' :
                           attempts'[a].render = attempts'[d].render
                           /\ attempts'[a].gen = attempts'[d].gen => a = d
    BY DEF ClaimsHeld
  <2>1. row.gen \in Nat /\ \A d \in DOMAIN attempts : attempts[d].render = r => attempts[d].gen < row.gen
    BY <1>3, <1>4 DEF ScreenInv, Held, ClaimsHeld, RowOf, RenderRow, Attempt
  <2>2. CASE a = n
    BY <1>1, <1>3, <1>5, <2>1, <2>2 DEF Sending
  <2>3. CASE a \in DOMAIN attempts /\ attempts[a].render = r
    <3>1. ~Sending(a) /\ attempts[a].gen < row.gen /\ attempts[a].gen \in Nat
      BY <1>3, <1>4, <2>1, <2>3 DEF ScreenInv, Held, ClaimsHeld, RowOf, Attempt
    <3>2. \A d \in DOMAIN attempts :
            attempts[a].render = attempts[d].render /\ attempts[a].gen = attempts[d].gen => a = d
      BY <2>3 DEF ScreenInv, Held, ClaimsHeld
    <3> QED
      BY <1>1, <1>5, <2>1, <2>3, <3>1, <3>2 DEF Sending
  <2>4. CASE a \in DOMAIN attempts /\ attempts[a].render # r
    <3>1. RowOf(a)' = RowOf(a) /\ attempts'[a] = attempts[a] /\ Sending(a)' = Sending(a)
      BY <1>1, <1>5, <2>4 DEF Sending
    <3>2. \A d \in DOMAIN attempts' :
            attempts'[a].render = attempts'[d].render /\ attempts'[a].gen = attempts'[d].gen => a = d
      BY <1>1, <2>4 DEF ScreenInv, Held, ClaimsHeld
    <3> QED
      BY <2>4, <3>1, <3>2 DEF ScreenInv, Held, ClaimsHeld
  <2> QED
    BY <1>1, <2>2, <2>3, <2>4
<1>8. \A e \in Edits : e.row \in DOMAIN attempts /\ e.row # n /\ attempts'[e.row] = attempts[e.row]
  BY <1>1 DEF ScreenInv, ScreenTypes
<1>9. EditsKnown'
  <2>1. \A e \in Edits' : attempts'[e.row].owner = e.bot /\ attempts'[e.row].progress # "finished"
    BY <1>1, <1>2, <1>8 DEF ScreenInv, Held, EditsKnown
  <2>2. \A e, d \in Edits' : e.row = d.row => e = d
    BY <1>2, <1>8 DEF ScreenInv, Held, EditsKnown
  <2> QED
    BY <2>1, <2>2 DEF EditsKnown
<1>10. InOrder'
  <2> SUFFICES ASSUME NEW e \in Edits', e.at = "sending", NEW a \in DOMAIN attempts',
                      a > e.row, attempts'[a].msg = attempts'[e.row].msg,
                      attempts'[a].owner = e.bot
               PROVE  \E d \in Edits' : d.row = a /\ d.at = "sending"
    BY DEF InOrder
  <2>1. CASE a = n
    BY <1>2, <2>1
  <2>2. CASE a \in DOMAIN attempts /\ e \in Edits
    <3>1. attempts[a].msg = attempts[e.row].msg /\ attempts[a].owner = e.bot
      BY <1>1, <1>8, <2>2
    <3>2. \E d \in Edits : d.row = a /\ d.at = "sending"
      BY <2>2, <3>1 DEF ScreenInv, Held, InOrder
    <3> QED
      BY <1>2, <3>2
  <2>3. CASE a \in DOMAIN attempts /\ e = c
    BY <1>1, <1>2, <1>4, <2>3
  <2> QED
    BY <1>1, <1>2, <2>1, <2>2, <2>3
<1>11. OneHolder'
  <2> SUFFICES ASSUME NEW e \in Edits', Sending(e.row)', NEW a \in DOMAIN attempts',
                      a > e.row, attempts'[a].msg = attempts'[e.row].msg
               PROVE  attempts'[a].owner = e.bot
    BY DEF OneHolder
  <2>1. CASE a = n /\ e \in Edits
    <3>1. e \in calls /\ e.kind = "edit" /\ attempts[e.row].progress = "sending"
          /\ attempts[e.row].msg = attempts'[c.row].msg
      BY <1>2, <1>8, <2>1 DEF Edits, Sending
    <3>2. c \in calls' \ calls
      BY <1>2
    <3>3. e.bot = c.bot
      BY <1>2, <3>1, <3>2 DEF OneEditorEach
    <3> QED
      BY <1>1, <1>2, <2>1, <3>3
  <2>2. CASE a \in DOMAIN attempts /\ e \in Edits
    BY <1>1, <1>8, <2>2 DEF ScreenInv, Held, OneHolder, Sending
  <2>3. CASE e = c
    BY <1>1, <1>2, <1>4, <2>3
  <2> QED
    BY <1>1, <1>2, <2>1, <2>2, <2>3
<1>12. ASSUME NEW m \in DOMAIN shown' PROVE Fine(m)'
  <2>1. CASE m = row.msg
    <3> SUFFICES ASSUME NEW a \in DOMAIN attempts', attempts'[a].msg = m,
                        Done(a)' \/ Nearly(a)'
                 PROVE  Later(a)'
      BY DEF Fine, UpToDate
    <3>1. CASE a \in DOMAIN attempts
      BY <1>1, <1>5, <2>1, <3>1 DEF Later, Sending
    <3>2. CASE a = n
      <4>1. ~Done(a)'
        BY <1>1, <3>2 DEF Done
      <4>2. ~Nearly(a)'
        BY <1>2, <1>8, <3>2 DEF Nearly
      <4> QED
        BY <4>1, <4>2
    <3> QED
      BY <1>1, <3>1, <3>2
  <2>2. CASE m # row.msg
    <3>1. Fine(m) /\ UNCHANGED <<shown, unseen>>
      BY <1>3 DEF ScreenInv, Repaired
    <3>2. OpenRow(m) => OpenRow(m)'
      BY <1>1, <1>3, <2>2 DEF OpenRow
    <3>3. Late(m) => Late(m)'
      BY <1>2, <1>8 DEF Late
    <3>4. ASSUME UpToDate(m), NEW a \in DOMAIN attempts', attempts'[a].msg = m,
                 Done(a)' \/ Nearly(a)'
          PROVE  shown'[m] >= a \/ Later(a)'
      <4>1. a \in DOMAIN attempts /\ attempts'[a] = attempts[a] /\ a # n
        BY <1>1, <2>2, <3>4
      <4>2. RowOf(a)' = RowOf(a)
        BY <1>3, <1>5, <2>2, <3>4, <4>1 DEF ScreenInv, ScreenTypes, RowOf
      <4>3. Done(a)' => Done(a)
        BY <4>1, <4>2 DEF Done
      <4>4. Nearly(a)' => Nearly(a)
        BY <1>2, <4>1 DEF Nearly, Sending
      <4>5. Later(a) => Later(a)'
        BY <1>1, <4>1 DEF Later, Sending
      <4> QED
        BY <3>1, <3>4, <4>1, <4>3, <4>4, <4>5 DEF UpToDate
    <3> QED
      BY <3>1, <3>2, <3>3, <3>4 DEF Fine, UpToDate
  <2> QED
    BY <2>1, <2>2
<1> QED
  BY <1>6, <1>7, <1>9, <1>10, <1>11, <1>12 DEF ScreenInv, Held, Repaired


\* The staff give a row up: it stays an open one.
LEMMA ResolveStep ==
  ASSUME ScreenInv, NEW r \in DOMAIN renders, ResolveRender(r)
  PROVE  ScreenInv'
<1> DEFINE row == [renders[r] EXCEPT !.state = "resolved"]
<1>1. renders[r] \in RenderRow /\ renders[r].state \in {"exhausted", "failed"}
  BY ScreenRows DEF ResolveRender, ScreenInv
<1>2. /\ row \in RenderRow /\ row.msg = renders[r].msg /\ row.state = "resolved"
      /\ row.gen = renders[r].gen /\ row.owner = renders[r].owner
  BY <1>1 DEF RenderRow
<1>3. /\ renders' = [renders EXCEPT ![r] = row]
      /\ UNCHANGED <<calls, attempts, shown, unseen>>
  BY DEF ResolveRender
<1> HIDE DEF row
<1>4. /\ renders' \in Seq(RenderRow) /\ DOMAIN renders' = DOMAIN renders
      /\ \A j \in DOMAIN renders : renders'[j] = IF j = r THEN row ELSE renders[j]
  BY <1>2, <1>3, RowWritten DEF ScreenInv, ScreenTypes
<1>5. \A a \in DOMAIN attempts :
        /\ attempts[a].render \in DOMAIN renders
        /\ RowOf(a)' = IF attempts[a].render = r THEN row ELSE RowOf(a)
  BY <1>3, <1>4 DEF ScreenInv, ScreenTypes, RowOf
<1>6. ScreenTypes'
  BY <1>2, <1>3, <1>4, <1>5 DEF ScreenInv, ScreenTypes, RowOf, Edits
<1>7. Held'
  <2>1. ClaimsHeld'
    <3>1. \A a \in DOMAIN attempts : attempts[a].render = r => ~Sending(a)
      BY <1>1 DEF ScreenInv, Held, ClaimsHeld, RowOf
    <3>2. \A a \in DOMAIN attempts :
            /\ RowOf(a)'.gen = RowOf(a).gen /\ RowOf(a)'.owner = RowOf(a).owner
            /\ attempts[a].render # r => RowOf(a)'.state = RowOf(a).state
            /\ attempts[a].render = r => RowOf(a)'.state = "resolved"
      BY <1>2, <1>5 DEF RowOf
    <3>3. \A a \in DOMAIN attempts :
            /\ Sending(a)' = Sending(a) /\ attempts'[a] = attempts[a]
      BY <1>3 DEF Sending
    <3> QED
      BY <1>3, <3>1, <3>2, <3>3 DEF ScreenInv, Held, ClaimsHeld
  <2> QED
    BY <1>3, <2>1 DEF ScreenInv, Held, EditsKnown, InOrder, OneHolder, Sending, Edits
<1>8. ASSUME NEW m \in DOMAIN shown' PROVE Fine(m)'
  <2>1. Fine(m)
    BY <1>3 DEF ScreenInv, Repaired
  <2>2. OpenRow(m) => OpenRow(m)'
    BY <1>2, <1>4 DEF OpenRow
  <2>3. Late(m) => Late(m)'
    BY <1>3 DEF Late, Edits
  <2>4. \A a \in DOMAIN attempts : /\ Done(a)' => Done(a)
                                   /\ Nearly(a)' => Nearly(a)
                                   /\ Later(a) => Later(a)'
    BY <1>2, <1>3, <1>5 DEF Done, Nearly, Later, Sending, RowOf, Edits
  <2>5. UpToDate(m) => UpToDate(m)'
    BY <1>3, <2>4 DEF UpToDate
  <2> QED
    BY <1>3, <2>1, <2>2, <2>3, <2>5 DEF Fine
<1> QED
  BY <1>6, <1>7, <1>8 DEF ScreenInv, Repaired

\* No edit that counts is later than one that Discord takes while its bot holds the
\* claim: those behind it, all of the same bot, are not taken yet.
LEMMA NothingOvertakes ==
  ASSUME ScreenInv, NEW c \in Edits, c.at = "sending", Sending(c.row),
         NEW a \in DOMAIN attempts, a > c.row, attempts[a].msg = attempts[c.row].msg
  PROVE  \E d \in Edits : /\ d.row = a /\ d.at = "sending" /\ d.bot = c.bot
                          /\ attempts[a].progress # "finished"
                          /\ \A e \in Edits : e.row = a => e = d
<1>1. attempts[a].owner = c.bot
  BY DEF ScreenInv, Held, OneHolder
<1>2. PICK d \in Edits : d.row = a /\ d.at = "sending"
  BY <1>1 DEF ScreenInv, Held, InOrder
<1>3. attempts[a].progress # "finished" /\ d.bot = c.bot
  BY <1>1, <1>2 DEF ScreenInv, Held, EditsKnown
<1>4. \A e \in Edits : e.row = a => e = d
  BY <1>2 DEF ScreenInv, Held, EditsKnown
<1> QED
  BY <1>2, <1>3, <1>4

\* What Discord tells the bot does not contradict what it did.
LEMMA AnswerIsHonest ==
  ASSUME NEW d \in Delivery
  PROVE  (d[2] => d[1] # "failed") /\ (~d[2] => d[1] # "delivered")
<1>1. CASE d = <<"delivered", TRUE>>
  <2>1. d[1] = "delivered" /\ d[2]
    BY <1>1
  <2> QED
    BY <2>1
<1>2. CASE d = <<"unknown", TRUE>>
  <2>1. d[1] = "unknown"
    BY <1>2
  <2> QED
    BY <2>1
<1>3. CASE d = <<"unknown", FALSE>>
  <2>1. d[1] = "unknown"
    BY <1>3
  <2> QED
    BY <2>1
<1>4. CASE d = <<"failed", FALSE>>
  <2>1. d[1] = "failed" /\ ~d[2]
    BY <1>4
  <2> QED
    BY <2>1
<1> QED
  BY <1>1, <1>2, <1>3, <1>4 DEF Delivery

\* Discord's answer.
LEMMA AnswerEditStep ==
  ASSUME ScreenInv, NEW c \in calls, CallShape(c), AnswerEdit(c)
  PROVE  ScreenInv'
<1> DEFINE z == c.row
           msg == attempts[z].msg
<1>1. /\ c.kind = "edit" /\ c.at = "sending" /\ c \in Edits
      /\ UNCHANGED <<renders, attempts, unseen>>
      /\ \A e \in Edits : e.bot = c.bot /\ e.row < c.row /\ attempts[e.row].msg = msg
                          => e.at = "answered"
  BY DEF AnswerEdit, Edits
<1>2. PICK d \in Delivery :
        /\ calls' = (calls \ {c}) \union {[c EXCEPT !.at = "answered", !.out = d[1]]}
        /\ shown' = IF d[2] THEN [shown EXCEPT ![msg] = z] ELSE shown
  BY DEF AnswerEdit, Reply
<1> DEFINE e == [c EXCEPT !.at = "answered", !.out = d[1]]
<1>3. CallShape(c)
  OBVIOUS
<1>4. e.kind = "edit" /\ e.row = z /\ e.bot = c.bot /\ e.at = "answered" /\ e.out = d[1]
  <2>1. /\ e.kind = c.kind /\ e.row = c.row /\ e.gen = c.gen /\ e.bot = c.bot
        /\ e.at = "answered" /\ e.out = d[1] /\ CallShape(e)
    BY ZenonT(40), <1>3, AnsweredCall
  <2> HIDE DEF e
  <2> QED
    BY <1>1, <2>1
<1>14. calls' = (calls \ {c}) \union {e}
  BY <1>2
<1> HIDE DEF e
<1>5. Edits' = (Edits \ {c}) \union {e} /\ calls' = (calls \ {c}) \union {e}
  BY <1>1, <1>4, <1>14 DEF Edits
<1>6. (d[2] => d[1] # "failed") /\ (~d[2] => d[1] # "delivered")
  BY AnswerIsHonest
<1>7. /\ z \in DOMAIN attempts /\ z \in Nat /\ attempts[z] \in Attempt
      /\ msg \in DOMAIN shown /\ Len(attempts) \in Nat /\ z \in 0..Len(attempts)
  BY <1>1, ScreenRows DEF ScreenInv, ScreenTypes, RowOf
<1>8. /\ DOMAIN shown' = DOMAIN shown
      /\ \A m \in DOMAIN shown : shown'[m] = IF d[2] /\ m = msg THEN z ELSE shown[m]
  BY <1>2
<1> HIDE DEF z, msg
<1>9. ScreenTypes'
  <2>1. \A f \in Edits' : f.row \in DOMAIN attempts' /\ f.at \in {"sending", "answered"}
    BY <1>1, <1>4, <1>5, <1>7 DEF ScreenInv, ScreenTypes
  <2>2. \A m \in DOMAIN shown' : shown'[m] \in 0..Len(attempts')
    BY <1>1, <1>7, <1>8 DEF ScreenInv, ScreenTypes
  <2> QED
    BY <1>1, <1>8, <2>1, <2>2 DEF ScreenInv, ScreenTypes, RowOf
<1>10. Held'
  <2>1. ClaimsHeld'
    BY <1>1 DEF ScreenInv, Held, ClaimsHeld, RowOf, Sending
  <2>2. EditsKnown'
    BY <1>1, <1>4, <1>5 DEF ScreenInv, Held, EditsKnown, z
  <2>3. InOrder'
    <3> SUFFICES ASSUME NEW f \in Edits', f.at = "sending", NEW a \in DOMAIN attempts',
                        a > f.row, attempts'[a].msg = attempts'[f.row].msg,
                        attempts'[a].owner = f.bot
                 PROVE  \E g \in Edits' : g.row = a /\ g.at = "sending"
      BY DEF InOrder
    <3>1. f \in Edits /\ f # c
      BY <1>4, <1>5
    <3>2. PICK g \in Edits : g.row = a /\ g.at = "sending"
      BY <1>1, <3>1 DEF ScreenInv, Held, InOrder
    <3>3. CASE g = c
      <4>1. a = c.row /\ f.bot = c.bot /\ attempts[f.row].msg = msg
        BY <1>1, <3>2, <3>3 DEF ScreenInv, Held, EditsKnown, msg, z
      <4>2. f.row < c.row
        BY <4>1, <3>1, <1>1, ScreenRows DEF ScreenInv, ScreenTypes
      <4> QED
        BY <1>1, <3>1, <4>1, <4>2
    <3> QED
      BY <1>5, <3>2, <3>3
  <2>4. OneHolder'
    BY <1>1, <1>4, <1>5 DEF ScreenInv, Held, OneHolder, Sending, z
  <2> QED
    BY <2>1, <2>2, <2>3, <2>4 DEF Held
<1>11. ASSUME NEW m \in DOMAIN shown' PROVE Fine(m)'
  <2>1. Fine(m) /\ m \in DOMAIN shown
    BY <1>8 DEF ScreenInv, Repaired
  <2>2. OpenRow(m) => OpenRow(m)'
    BY <1>1 DEF OpenRow
  <2>3. Late(m) => Late(m)'
    BY <1>1, <1>5 DEF Late
  <2>4. \A a \in DOMAIN attempts : Done(a)' = Done(a) /\ Later(a)' = Later(a)
    BY <1>1 DEF Done, Later, RowOf, Sending
  <2>5. \A a \in DOMAIN attempts : a # z /\ Nearly(a)' => Nearly(a)
    BY <1>1, <1>4, <1>5 DEF Nearly, Sending
  <2>6. CASE shown'[m] = shown[m] /\ ~(m = msg /\ Nearly(z)')
    <3>1. ASSUME NEW a \in DOMAIN attempts, attempts[a].msg = m, Nearly(a)' PROVE Nearly(a)
      BY <2>5, <2>6, <3>1 DEF msg
    <3>2. UpToDate(m) => UpToDate(m)'
      BY <1>1, <2>4, <2>6, <3>1 DEF UpToDate
    <3> QED
      BY <1>1, <2>1, <2>2, <2>3, <3>2 DEF Fine
  <2>7. CASE m = msg /\ d[2] /\ attempts[z].progress = "unknown"
    <3>1. e \in Edits' /\ attempts'[e.row].msg = m /\ attempts'[e.row].progress = "unknown"
      BY <1>1, <1>4, <1>5, <2>7 DEF msg
    <3>2. e.at = "answered" /\ e.out # "failed"
      BY <1>4, <1>6, <2>7
    <3> QED
      BY <3>1, <3>2 DEF Fine, Late
  <2>8. CASE m = msg /\ d[2] /\ Sending(z)
    <3> SUFFICES ASSUME NEW a \in DOMAIN attempts, attempts[a].msg = m, Done(a)' \/ Nearly(a)'
                 PROVE  shown'[m] >= a
      BY <1>1 DEF Fine, UpToDate
    <3>1. shown'[m] = z /\ a \in Nat
      BY <1>8, <2>8, ScreenRows DEF ScreenInv
    <3>2. ASSUME a > z PROVE FALSE
      <4>1. PICK g \in Edits : /\ g.row = a /\ g.at = "sending" /\ attempts[a].progress # "finished"
                               /\ \A f \in Edits : f.row = a => f = g
        BY <1>1, <2>8, <3>2, NothingOvertakes DEF msg, z
      <4>2. ~Done(a)
        BY <4>1 DEF Done
      <4>3. ~Nearly(a)
        BY <4>1 DEF Nearly
      <4>4. a # z
        BY <1>7, <3>1, <3>2
      <4> QED
        BY <2>4, <2>5, <4>2, <4>3, <4>4
    <3> QED
      BY <1>7, <3>1, <3>2
  <2>9. CASE m = msg /\ ~d[2]
    <3>1. d[1] # "delivered"
      BY <1>6, <2>9
    <3>2. ASSUME Nearly(z)' PROVE FALSE
      <4>1. PICK f \in Edits' : f.row = z /\ f.at = "answered" /\ f.out = "delivered"
        BY <3>2 DEF Nearly
      <4>2. f \in Edits /\ f # c
        BY <1>4, <1>5, <3>1, <4>1
      <4> QED
        BY <1>1, <4>1, <4>2 DEF ScreenInv, Held, EditsKnown, z
    <3> QED
      BY <1>8, <2>1, <2>6, <2>9, <3>2
  <2>10. attempts[z].progress # "finished"
    BY <1>1 DEF ScreenInv, Held, EditsKnown, z
  <2>11. m # msg => shown'[m] = shown[m]
    BY <1>8, <2>1
  <2> QED
    BY <1>7, <2>6, <2>7, <2>8, <2>9, <2>10, <2>11 DEF Attempt, Sending
<1> QED
  BY <1>9, <1>10, <1>11 DEF ScreenInv, Repaired


\* The outcome of an edit whose bot still held the claim settles its row.
LEMMA WonStep ==
  ASSUME ScreenInv, NEW c \in calls, FinishRenderAttempt(c), Sending(c.row)
  PROVE  ScreenInv'
<1> DEFINE z == c.row
           r == attempts[z].render
           won == renders[r].state = "rendering" /\ renders[r].gen = attempts[z].gen
                  /\ renders[r].owner = c.bot
           next == IF c.out = "delivered" THEN "settled"
                   ELSE IF renders[r].tries >= MaxTries THEN "exhausted" ELSE "failed"
           row == [renders[r] EXCEPT !.state = next]
           new == [attempts[z] EXCEPT !.progress = "finished"]
<1>1. c \in Edits /\ c.at = "answered" /\ calls' = calls \ {c} /\ UNCHANGED <<shown, unseen>>
  BY DEF FinishRenderAttempt, Answered, Edits
<1>2. /\ z \in DOMAIN attempts /\ attempts[z] \in Attempt /\ attempts[z].owner = c.bot /\ z \in Nat
      /\ r \in DOMAIN renders /\ renders[r] \in RenderRow /\ renders[r].msg = attempts[z].msg
  BY <1>1, ScreenRows DEF ScreenInv, ScreenTypes, Held, EditsKnown, RowOf
<1>3. won
  BY <1>2 DEF ScreenInv, Held, ClaimsHeld, RowOf
<1>4. renders' = [renders EXCEPT ![r] = row] /\ attempts' = [attempts EXCEPT ![z] = new]
  <2>1. renders' = [renders EXCEPT ![r].state = next]
    BY <1>3 DEF FinishRenderAttempt
  <2>2. attempts' = [attempts EXCEPT ![z].progress = "finished"]
    BY DEF FinishRenderAttempt, Sending
  <2> QED
    BY <2>1, <2>2
<1>5. next \in {"settled", "exhausted", "failed"} /\ (next = "settled" => c.out = "delivered")
  OBVIOUS
<1> HIDE DEF next
<1>6. /\ row \in RenderRow /\ row.msg = attempts[z].msg /\ row.state = next
      /\ row.gen = attempts[z].gen /\ row.owner = renders[r].owner
  BY <1>2, <1>3, <1>5 DEF RenderRow
<1>7. /\ new \in Attempt /\ new.render = r /\ new.gen = attempts[z].gen
      /\ new.owner = attempts[z].owner /\ new.msg = attempts[z].msg /\ new.progress = "finished"
  BY <1>2 DEF Attempt
<1> HIDE DEF row, new
<1>8. /\ renders' \in Seq(RenderRow) /\ DOMAIN renders' = DOMAIN renders
      /\ \A j \in DOMAIN renders : renders'[j] = IF j = r THEN row ELSE renders[j]
  BY <1>2, <1>4, <1>6, RowWritten DEF ScreenInv, ScreenTypes
<1>9. /\ attempts' \in Seq(Attempt) /\ DOMAIN attempts' = DOMAIN attempts
      /\ \A a \in DOMAIN attempts : attempts'[a] = IF a = z THEN new ELSE attempts[a]
  BY <1>2, <1>4, <1>7, RowWritten DEF ScreenInv, ScreenTypes
<1>10. Edits' = Edits \ {c} /\ \A e \in Edits' : e.row \in DOMAIN attempts /\ e.row # z
  <2>1. Edits' = Edits \ {c}
    BY <1>1 DEF Edits
  <2> QED
    BY <1>1, <2>1 DEF ScreenInv, ScreenTypes, Held, EditsKnown
<1> HIDE DEF z
<1>11. \A a \in DOMAIN attempts :
         /\ attempts[a].render \in DOMAIN renders
         /\ attempts'[a].render = attempts[a].render /\ attempts'[a].gen = attempts[a].gen
         /\ attempts'[a].owner = attempts[a].owner /\ attempts'[a].msg = attempts[a].msg
         /\ Sending(a)' <=> (Sending(a) /\ a # z)
         /\ RowOf(a)'.gen = RowOf(a).gen /\ RowOf(a)'.owner = RowOf(a).owner
         /\ RowOf(a)'.msg = RowOf(a).msg
         /\ attempts[a].render # r => RowOf(a)' = RowOf(a)
         /\ attempts[a].render = r => RowOf(a)'.state = next
  <2> SUFFICES ASSUME NEW a \in DOMAIN attempts
               PROVE  /\ attempts[a].render \in DOMAIN renders
                      /\ attempts'[a].render = attempts[a].render
                      /\ attempts'[a].gen = attempts[a].gen
                      /\ attempts'[a].owner = attempts[a].owner
                      /\ attempts'[a].msg = attempts[a].msg
                      /\ Sending(a)' <=> (Sending(a) /\ a # z)
                      /\ RowOf(a)'.gen = RowOf(a).gen /\ RowOf(a)'.owner = RowOf(a).owner
                      /\ RowOf(a)'.msg = RowOf(a).msg
                      /\ attempts[a].render # r => RowOf(a)' = RowOf(a)
                      /\ attempts[a].render = r => RowOf(a)'.state = next
    OBVIOUS
  <2>1. /\ attempts'[a].render = attempts[a].render /\ attempts'[a].gen = attempts[a].gen
        /\ attempts'[a].owner = attempts[a].owner /\ attempts'[a].msg = attempts[a].msg
        /\ Sending(a)' <=> (Sending(a) /\ a # z)
    BY <1>7, <1>9 DEF Sending
  <2>2. attempts[a].render \in DOMAIN renders
    BY DEF ScreenInv, ScreenTypes
  <2>3. RowOf(a)' = IF attempts[a].render = r THEN row ELSE RowOf(a)
    BY <1>8, <2>1, <2>2 DEF RowOf
  <2>4. attempts[a].render = r => RowOf(a) = renders[r]
    BY DEF RowOf
  <2> QED
    BY <1>2, <1>3, <1>6, <2>1, <2>2, <2>3, <2>4
<1> DEFINE msg == attempts[z].msg
<1>12. ScreenTypes'
  <2>1. \A j \in DOMAIN renders' : renders'[j].msg \in DOMAIN shown'
    BY <1>1, <1>2, <1>6, <1>8 DEF ScreenInv, ScreenTypes
  <2>2. \A a \in DOMAIN attempts' :
          attempts'[a].render \in DOMAIN renders' /\ RowOf(a)'.msg = attempts'[a].msg
    BY <1>8, <1>9, <1>11 DEF ScreenInv, ScreenTypes
  <2>3. \A e \in Edits' : e.row \in DOMAIN attempts' /\ e.at \in {"sending", "answered"}
    BY <1>9, <1>10 DEF ScreenInv, ScreenTypes
  <2>4. Len(attempts') = Len(attempts)
    BY <1>9, ScreenRows DEF ScreenInv, ScreenTypes
  <2> QED
    BY <1>1, <1>8, <1>9, <2>1, <2>2, <2>3, <2>4 DEF ScreenInv, ScreenTypes
<1>13. \A a \in DOMAIN attempts :
         attempts[a].render = r /\ attempts[a].gen = attempts[z].gen => a = z
  BY <1>2 DEF ScreenInv, Held, ClaimsHeld
<1>14. Held'
  <2>1. ClaimsHeld'
    <3> SUFFICES ASSUME NEW a \in DOMAIN attempts
                 PROVE  /\ Sending(a)' => /\ RowOf(a)'.state = "rendering"
                                          /\ RowOf(a)'.gen = attempts'[a].gen
                                          /\ RowOf(a)'.owner = attempts'[a].owner
                        /\ ~Sending(a)' => ~(RowOf(a)'.state = "rendering"
                                             /\ RowOf(a)'.gen = attempts'[a].gen)
                        /\ attempts'[a].gen =< RowOf(a)'.gen
                        /\ \A d \in DOMAIN attempts' :
                             attempts'[a].render = attempts'[d].render
                             /\ attempts'[a].gen = attempts'[d].gen => a = d
      BY <1>9 DEF ClaimsHeld
    <3>1. \A d \in DOMAIN attempts' :
            attempts'[a].render = attempts'[d].render /\ attempts'[a].gen = attempts'[d].gen => a = d
      BY <1>9, <1>11 DEF ScreenInv, Held, ClaimsHeld
    <3>2. attempts'[a].gen =< RowOf(a)'.gen
      BY <1>11 DEF ScreenInv, Held, ClaimsHeld
    <3>3. CASE attempts[a].render = r
      <4>1. ~Sending(a)'
        <5>1. Sending(a) => renders[r].gen = attempts[a].gen
          BY <3>3 DEF ScreenInv, Held, ClaimsHeld, RowOf
        <5> QED
          BY <1>3, <1>11, <1>13, <3>3, <5>1
      <4> QED
        BY <1>5, <1>11, <3>1, <3>2, <3>3, <4>1
    <3>4. CASE attempts[a].render # r
      <4>1. a # z
        BY <3>4
      <4> QED
        BY <1>11, <3>1, <3>2, <3>4, <4>1 DEF ScreenInv, Held, ClaimsHeld
    <3> QED
      BY <3>3, <3>4
  <2>2. EditsKnown'
    BY <1>9, <1>10 DEF ScreenInv, Held, EditsKnown
  <2>3. InOrder'
    <3> SUFFICES ASSUME NEW e \in Edits', e.at = "sending", NEW a \in DOMAIN attempts,
                        a > e.row, attempts'[a].msg = attempts'[e.row].msg,
                        attempts'[a].owner = e.bot
                 PROVE  \E g \in Edits' : g.row = a /\ g.at = "sending"
      BY <1>9 DEF InOrder
    <3>1. attempts[a].msg = attempts[e.row].msg /\ attempts[a].owner = e.bot /\ e \in Edits
      BY <1>10, <1>11
    <3>2. PICK g \in Edits : g.row = a /\ g.at = "sending"
      BY <3>1 DEF ScreenInv, Held, InOrder
    <3> QED
      BY <1>1, <1>10, <3>2
  <2>4. OneHolder'
    BY <1>9, <1>10, <1>11 DEF ScreenInv, Held, OneHolder
  <2> QED
    BY <2>1, <2>2, <2>3, <2>4 DEF Held
<1>15. ASSUME NEW m \in DOMAIN shown' PROVE Fine(m)'
  <2>1. Fine(m) /\ m \in DOMAIN shown
    BY <1>1 DEF ScreenInv, Repaired
  <2>2. Late(m) => Late(m)'
    <3> SUFFICES ASSUME NEW e \in Edits, attempts[e.row].msg = m,
                        attempts[e.row].progress = "unknown",
                        e.at = "answered", e.out # "failed"
                 PROVE  Late(m)'
      BY DEF Late
    <3>1. e # c
      BY DEF Sending
    <3> QED
      BY <1>9, <1>10, <1>11, <3>1 DEF Late
  <2>3. OpenRow(m) => OpenRow(m)'
    BY <1>3, <1>8 DEF OpenRow
  <2>4. CASE m = msg /\ next # "settled"
    <3>1. r \in DOMAIN renders' /\ renders'[r] = row /\ row.state \notin {"settled", "rendering"}
      BY <1>2, <1>5, <1>6, <1>8, <2>4
    <3> QED
      BY <1>6, <2>4, <3>1 DEF Fine, OpenRow
  <2>5. ASSUME UpToDate(m), m # msg \/ next = "settled" PROVE UpToDate(m)'
    <3> SUFFICES ASSUME NEW a \in DOMAIN attempts, attempts[a].msg = m, Done(a)' \/ Nearly(a)'
                 PROVE  shown[m] >= a \/ Later(a)'
      BY <1>1, <1>9, <1>11 DEF UpToDate
    <3>1. shown[m] \in Nat /\ a \in Nat
      BY <2>1, ScreenRows DEF ScreenInv, ScreenTypes
    <3>2. m = msg => Nearly(z)
      BY <1>1, <1>5, <2>5 DEF Nearly, z
    <3>3. m = msg => shown[m] >= z \/ Later(z)
      BY <1>2, <2>5, <3>2 DEF UpToDate
    <3>4. Later(z) => Later(z)'
      BY <1>2, <1>9, <1>11 DEF Later
    <3>5. CASE a = z
      BY <3>3, <3>4, <3>5
    <3>6. CASE a # z
      <4>1. Nearly(a)' => Nearly(a)
        BY <1>10, <1>11 DEF Nearly
      <4>2. Done(a)' => Done(a)
        <5> SUFFICES ASSUME Done(a)' PROVE Done(a)
          OBVIOUS
        <5>1. attempts[a].progress = "finished" /\ RowOf(a).gen = attempts[a].gen
          BY <1>9, <1>11, <3>6 DEF Done
        <5>2. attempts[a].render # r
          <6>1. attempts[a].render = r => RowOf(a).gen = attempts[z].gen
            BY <1>3 DEF RowOf
          <6> QED
            BY <1>13, <3>6, <5>1, <6>1
        <5> QED
          BY <1>11, <5>1, <5>2 DEF Done
      <4>3. shown[m] >= a \/ Later(a)
        BY <2>5, <4>1, <4>2 DEF UpToDate
      <4>4. ASSUME Later(a) PROVE shown[m] >= a \/ Later(a)'
        <5>1. PICK d \in DOMAIN attempts : d > a /\ attempts[d].msg = m /\ Sending(d)
          BY <4>4 DEF Later
        <5>2. CASE d # z
          BY <1>9, <1>11, <5>1, <5>2 DEF Later
        <5>3. CASE d = z
          <6>1. m = msg /\ z > a
            BY <5>1, <5>3
          <6>2. CASE shown[m] >= z
            BY <1>2, <3>1, <6>1, <6>2
          <6>3. CASE Later(z)
            <7>1. PICK g \in DOMAIN attempts : g > z /\ attempts[g].msg = m /\ Sending(g)
              BY <6>1, <6>3 DEF Later
            <7>2. g > a /\ g # z
              BY <1>2, <3>1, <6>1, <7>1, ScreenRows DEF ScreenInv
            <7> QED
              BY <1>9, <1>11, <7>1, <7>2 DEF Later
          <6> QED
            BY <3>3, <6>1, <6>2, <6>3
        <5> QED
          BY <5>2, <5>3
      <4> QED
        BY <4>3, <4>4
    <3> QED
      BY <3>5, <3>6
  <2> QED
    BY <1>1, <2>1, <2>2, <2>3, <2>4, <2>5 DEF Fine
<1> QED
  BY <1>12, <1>14, <1>15 DEF ScreenInv, Repaired


\* An edit given up meanwhile: unless Discord refused it, a repair waits behind it.
LEMMA LostStep ==
  ASSUME ScreenInv, NEW c \in calls, FinishRenderAttempt(c), ~Sending(c.row)
  PROVE  ScreenInv'
<1> DEFINE z == c.row
           r == attempts[z].render
           msg == attempts[z].msg
           row == NewRender(msg, "current")
           n == Len(renders) + 1
<1>1. c \in Edits /\ c.at = "answered" /\ calls' = calls \ {c} /\ UNCHANGED <<shown, unseen>>
  BY DEF FinishRenderAttempt, Answered, Edits
<1>2. /\ z \in DOMAIN attempts /\ attempts[z] \in Attempt
      /\ r \in DOMAIN renders /\ renders[r].msg = msg /\ msg \in DOMAIN shown
  BY <1>1, ScreenRows DEF ScreenInv, ScreenTypes, RowOf
<1>3. ~(renders[r].state = "rendering" /\ renders[r].gen = attempts[z].gen)
  BY <1>2 DEF ScreenInv, Held, ClaimsHeld, RowOf
<1>4. \/ renders' = Append(renders, row)
      \/ renders' = renders /\ (c.out = "failed" \/ Waiting(renders, msg))
  BY <1>3 DEF FinishRenderAttempt
<1>5. attempts' = [attempts EXCEPT ![z].progress = @]
  BY DEF FinishRenderAttempt, Sending
<1>6. /\ row \in RenderRow /\ row.msg = msg /\ row.state = "pending"
  BY <1>2 DEF NewRender, RenderRow, Attempt
<1> HIDE DEF row
<1>7. /\ Append(renders, row) \in Seq(RenderRow)
      /\ DOMAIN Append(renders, row) = DOMAIN renders \union {n}
      /\ \A j \in DOMAIN renders : Append(renders, row)[j] = renders[j]
      /\ Append(renders, row)[n] = row
  BY <1>6, RowAdded DEF ScreenInv, ScreenTypes
<1>8. /\ attempts' = attempts
  <2>1. [attempts[z] EXCEPT !.progress = @] = attempts[z]
    BY <1>2 DEF Attempt
  <2>2. attempts' = [attempts EXCEPT ![z] = [attempts[z] EXCEPT !.progress = @]]
    BY <1>5
  <2>3. attempts' = [attempts EXCEPT ![z] = attempts[z]]
    BY <2>1, <2>2
  <2> QED
    BY <1>2, <2>3 DEF ScreenInv, ScreenTypes
<1>9. /\ renders' \in Seq(RenderRow) /\ DOMAIN renders \subseteq DOMAIN renders'
      /\ \A j \in DOMAIN renders : renders'[j] = renders[j]
      /\ \A j \in DOMAIN renders' \ DOMAIN renders : renders'[j].msg = msg
  BY <1>4, <1>6, <1>7 DEF ScreenInv, ScreenTypes
<1>10. ASSUME NEW m, m = msg, c.out # "failed" PROVE OpenRow(m)'
  <2>1. CASE renders' = Append(renders, row)
    <3>1. n \in DOMAIN renders' /\ renders'[n].msg = m /\ renders'[n].state = "pending"
      BY <1>6, <1>7, <1>10, <2>1
    <3> QED
      BY <3>1 DEF OpenRow
  <2>2. CASE renders' = renders /\ Waiting(renders, msg)
    BY <1>10, <2>2 DEF Waiting, OpenRow
  <2> QED
    BY <1>4, <1>10, <2>1, <2>2
<1> HIDE DEF n
<1>11. Edits' = Edits \ {c} /\ \A e \in Edits' : e.row \in DOMAIN attempts /\ e.row # z
  <2>1. Edits' = Edits \ {c}
    BY <1>1 DEF Edits
  <2> QED
    BY <1>1, <2>1 DEF ScreenInv, ScreenTypes, Held, EditsKnown
<1>12. \A a \in DOMAIN attempts : attempts[a].render \in DOMAIN renders /\ RowOf(a)' = RowOf(a)
  BY <1>8, <1>9 DEF ScreenInv, ScreenTypes, RowOf
<1>13. ScreenTypes'
  BY <1>1, <1>2, <1>8, <1>9, <1>11, <1>12 DEF ScreenInv, ScreenTypes
<1>14. Held'
  <2>1. ClaimsHeld'
    BY <1>8, <1>12 DEF ScreenInv, Held, ClaimsHeld, Sending
  <2>2. EditsKnown' /\ OneHolder'
    BY <1>8, <1>11 DEF ScreenInv, Held, EditsKnown, OneHolder, Sending
  <2>3. InOrder'
    <3> SUFFICES ASSUME NEW e \in Edits', e.at = "sending", NEW a \in DOMAIN attempts,
                        a > e.row, attempts[a].msg = attempts[e.row].msg,
                        attempts[a].owner = e.bot
                 PROVE  \E g \in Edits' : g.row = a /\ g.at = "sending"
      BY <1>8 DEF InOrder
    <3>1. PICK g \in Edits : g.row = a /\ g.at = "sending"
      BY <1>11 DEF ScreenInv, Held, InOrder
    <3> QED
      BY <1>1, <1>11, <3>1
  <2> QED
    BY <2>1, <2>2, <2>3 DEF Held
<1>15. ASSUME NEW m \in DOMAIN shown' PROVE Fine(m)'
  <2>1. Fine(m)
    BY <1>1 DEF ScreenInv, Repaired
  <2>2. OpenRow(m) => OpenRow(m)'
    BY <1>9 DEF OpenRow
  <2>3. Late(m) => Late(m)' \/ OpenRow(m)'
    <3> SUFFICES ASSUME NEW e \in Edits, attempts[e.row].msg = m,
                        attempts[e.row].progress = "unknown",
                        e.at = "answered", e.out # "failed"
                 PROVE  Late(m)' \/ OpenRow(m)'
      BY DEF Late
    <3>1. CASE e = c
      BY <1>10, <3>1
    <3>2. CASE e # c
      BY <1>8, <1>11, <3>2 DEF Late
    <3> QED
      BY <3>1, <3>2
  <2>4. UpToDate(m) => UpToDate(m)'
    BY <1>1, <1>8, <1>11, <1>12 DEF UpToDate, Done, Nearly, Later, Sending
  <2> QED
    BY <1>1, <2>1, <2>2, <2>3, <2>4 DEF Fine
<1> QED
  BY <1>13, <1>14, <1>15 DEF ScreenInv, Repaired

\* A bot dies.  What it had given up is marked as unseen; what it was sending under
\* a live claim may land, and nothing that counts was taken behind it.
LEMMA CrashStep ==
  ASSUME ScreenInv, NEW b \in Bot, CrashBot(b)
  PROVE  ScreenInv'
<1>1. PICK arriving \in SUBSET {c \in calls : c.bot = b /\ c.at = "sending"} :
        Crash(b, arriving) /\ CrashEditing(b, arriving)
  BY DEF CrashBot
<1> DEFINE edits == {c \in arriving : c.kind = "edit"}
           msgs == {attempts[c.row].msg : c \in edits}
           blind == {c \in calls : /\ c.bot = b /\ c.kind = "edit"
                                   /\ attempts[c.row].progress = "unknown"}
<1>2. /\ calls' = {c \in calls : c.bot # b} /\ UNCHANGED <<renders, attempts>>
      /\ shown' \in [DOMAIN shown -> 0..Len(attempts)]
      /\ \A m \in DOMAIN shown :
           IF m \in msgs THEN \E c \in edits : attempts[c.row].msg = m /\ shown'[m] = c.row
                         ELSE shown'[m] = shown[m]
      /\ unseen' = unseen \union {attempts[c.row].msg : c \in blind}
  BY <1>1 DEF Crash, CrashEditing
<1>3. Edits' = {c \in Edits : c.bot # b}
  BY <1>2 DEF Edits
<1>4. \A c \in edits : c \in Edits /\ c.bot = b /\ c.at = "sending"
  BY DEF Edits
<1>5. \A c \in Edits : c.bot = b /\ attempts[c.row].progress = "unknown"
                       => attempts[c.row].msg \in unseen'
  BY <1>2 DEF Edits
<1> HIDE DEF blind, edits, msgs
<1>6. DOMAIN shown' = DOMAIN shown /\ \A m \in DOMAIN shown : shown'[m] \in 0..Len(attempts)
  BY <1>2
<1>7. ScreenTypes'
  BY <1>2, <1>3, <1>6 DEF ScreenInv, ScreenTypes, RowOf
<1>8. Held'
  <2>1. ClaimsHeld'
    BY <1>2 DEF ScreenInv, Held, ClaimsHeld, RowOf, Sending
  <2>2. EditsKnown' /\ OneHolder'
    BY <1>2, <1>3 DEF ScreenInv, Held, EditsKnown, OneHolder, Sending
  <2>3. InOrder'
    <3> SUFFICES ASSUME NEW e \in Edits', e.at = "sending", NEW a \in DOMAIN attempts,
                        a > e.row, attempts[a].msg = attempts[e.row].msg,
                        attempts[a].owner = e.bot
                 PROVE  \E g \in Edits' : g.row = a /\ g.at = "sending"
      BY <1>2 DEF InOrder
    <3>1. PICK g \in Edits : g.row = a /\ g.at = "sending"
      BY <1>3 DEF ScreenInv, Held, InOrder
    <3>2. g.bot = e.bot
      BY <3>1 DEF ScreenInv, Held, EditsKnown
    <3> QED
      BY <1>3, <3>1, <3>2
  <2> QED
    BY <2>1, <2>2, <2>3 DEF Held
<1>9. ASSUME NEW m \in DOMAIN shown' PROVE Fine(m)'
  <2>1. Fine(m) /\ m \in DOMAIN shown /\ (m \in unseen => m \in unseen')
    BY <1>2, <1>6 DEF ScreenInv, Repaired
  <2>2. OpenRow(m) => OpenRow(m)'
    BY <1>2 DEF OpenRow
  <2>3. Late(m) => Late(m)' \/ m \in unseen'
    BY <1>2, <1>3, <1>5 DEF Late
  <2>4. \A a \in DOMAIN attempts :
          Done(a)' = Done(a) /\ (Nearly(a)' => Nearly(a)) /\ Later(a)' = Later(a)
    BY <1>2, <1>3 DEF Done, Nearly, Later, RowOf, Sending
  <2>5. CASE m \notin msgs
    <3>1. UpToDate(m) => UpToDate(m)'
      BY <1>2, <2>1, <2>4, <2>5 DEF UpToDate
    <3> QED
      BY <2>1, <2>2, <2>3, <3>1 DEF Fine
  <2>6. CASE m \in msgs
    <3>1. PICK c \in Edits : /\ c.bot = b /\ c.at = "sending" /\ attempts[c.row].msg = m
                             /\ shown'[m] = c.row
      BY <1>2, <1>4, <2>1, <2>6
    <3>2. CASE attempts[c.row].progress = "unknown"
      BY <1>5, <3>1, <3>2 DEF Fine
    <3>3. CASE Sending(c.row)
      <4> SUFFICES ASSUME NEW a \in DOMAIN attempts, attempts[a].msg = m, Done(a)' \/ Nearly(a)'
                   PROVE  shown'[m] >= a
        BY <1>2 DEF Fine, UpToDate
      <4>1. c.row \in Nat /\ a \in Nat
        BY ScreenRows DEF ScreenInv, ScreenTypes
      <4>2. ASSUME a > c.row PROVE FALSE
        <5>1. PICK g \in Edits : /\ g.row = a /\ g.bot = c.bot
                                 /\ attempts[a].progress # "finished"
                                 /\ \A f \in Edits : f.row = a => f = g
          BY <3>1, <3>3, <4>2, NothingOvertakes
        <5>2. ~Done(a)
          BY <5>1 DEF Done
        <5>3. ~Nearly(a)'
          BY <1>3, <3>1, <5>1 DEF Nearly
        <5> QED
          BY <2>4, <5>2, <5>3
      <4> QED
        BY <3>1, <4>1, <4>2
    <3>4. /\ c.row \in DOMAIN attempts /\ attempts[c.row].progress # "finished"
          /\ attempts[c.row] \in Attempt
      BY ScreenRows DEF ScreenInv, ScreenTypes, Held, EditsKnown
    <3> QED
      BY <3>2, <3>3, <3>4 DEF Attempt, Sending
  <2> QED
    BY <2>5, <2>6
<1> QED
  BY <1>7, <1>8, <1>9 DEF ScreenInv, Repaired


LEMMA SetInOrder ==
  ASSUME NEW S, IsFiniteSet(S)
  PROVE  Cardinality(S) \in Nat /\ SetToSeq(S) \in [1..Cardinality(S) -> S]
<1>1. Cardinality(S) \in Nat /\ ExistsBijection(1..Cardinality(S), S)
  BY FS_CardinalityType
<1>2. \E f \in [1..Cardinality(S) -> S] : IsInjective(f)
  BY <1>1 DEF ExistsBijection, Bijection, Injection
<1> QED
  BY <1>1, <1>2 DEF SetToSeq

\* Rows whose owner is taken for dead wait again, open attempts of his are given up,
\* and each has a repair behind it.
LEMMA RecoverWrites ==
  ASSUME ScreenTypes, RecoverRenders
  PROVE  /\ renders' \in Seq(RenderRow) /\ attempts' \in Seq(Attempt)
         /\ DOMAIN renders \subseteq DOMAIN renders'
         /\ \A r \in DOMAIN renders :
              LET left == renders[r].state = "rendering" /\ ~Live(renders[r].owner) IN
              /\ renders'[r].msg = renders[r].msg /\ renders'[r].gen = renders[r].gen
              /\ renders'[r].owner = renders[r].owner
              /\ left => renders'[r].state = "pending"
              /\ ~left => renders'[r] = renders[r]
         /\ \A r \in DOMAIN renders' \ DOMAIN renders : renders'[r].msg \in DOMAIN shown
         /\ DOMAIN attempts' = DOMAIN attempts
         /\ \A a \in DOMAIN attempts :
              /\ attempts'[a].render = attempts[a].render /\ attempts'[a].gen = attempts[a].gen
              /\ attempts'[a].owner = attempts[a].owner /\ attempts'[a].msg = attempts[a].msg
              /\ OrphanEdit(attempts[a]) => attempts'[a].progress = "unknown"
              /\ ~OrphanEdit(attempts[a]) => attempts'[a] = attempts[a]
<1> DEFINE waiting == [r \in DOMAIN renders |->
                         IF renders[r].state = "rendering" /\ ~Live(renders[r].owner)
                         THEN [renders[r] EXCEPT !.state = "pending"] ELSE renders[r]]
           lost == {a \in DOMAIN attempts : OrphanEdit(attempts[a])}
           order == SetToSeq(lost)
           tail == [n \in DOMAIN order |-> NewRender(attempts[order[n]].msg, "current")]
           given == [a \in DOMAIN attempts |->
                       IF OrphanEdit(attempts[a])
                       THEN [attempts[a] EXCEPT !.progress = "unknown"] ELSE attempts[a]]
<1>1. renders' = waiting \o tail /\ attempts' = given
  BY DEF RecoverRenders
<1>2. PICK k \in Nat : order \in [1..k -> lost]
  <2>1. IsFiniteSet(lost)
    <3>1. IsFiniteSet(1..Len(attempts)) /\ lost \in SUBSET (1..Len(attempts))
      BY ScreenRows, FS_Interval
    <3> QED
      BY <3>1, FS_Subset
  <2> HIDE DEF lost
  <2> QED
    BY <2>1, SetInOrder
<1>3. \A r \in DOMAIN renders :
        LET left == renders[r].state = "rendering" /\ ~Live(renders[r].owner) IN
        /\ waiting[r] \in RenderRow
        /\ waiting[r].msg = renders[r].msg /\ waiting[r].gen = renders[r].gen
        /\ waiting[r].owner = renders[r].owner
        /\ left => waiting[r].state = "pending"
        /\ ~left => waiting[r] = renders[r]
  BY ScreenRows DEF RenderRow
<1>4. DOMAIN waiting = DOMAIN renders /\ waiting = [r \in DOMAIN renders |-> waiting[r]]
  OBVIOUS
<1>5. \A a \in DOMAIN attempts :
        /\ given[a] \in Attempt
        /\ given[a].render = attempts[a].render /\ given[a].gen = attempts[a].gen
        /\ given[a].owner = attempts[a].owner /\ given[a].msg = attempts[a].msg
        /\ OrphanEdit(attempts[a]) => given[a].progress = "unknown"
        /\ ~OrphanEdit(attempts[a]) => given[a] = attempts[a]
  BY ScreenRows DEF Attempt
<1>6. DOMAIN given = DOMAIN attempts /\ given = [a \in DOMAIN attempts |-> given[a]]
  OBVIOUS
<1>7. /\ tail = [n \in 1..k |-> tail[n]]
      /\ \A n \in 1..k : tail[n] \in RenderRow /\ tail[n].msg \in DOMAIN shown
  <2>1. DOMAIN order = 1..k /\ \A n \in 1..k : order[n] \in DOMAIN attempts
    BY <1>2
  <2>2. \A a \in DOMAIN attempts :
          /\ NewRender(attempts[a].msg, "current") \in RenderRow
          /\ NewRender(attempts[a].msg, "current").msg = attempts[a].msg
    BY ScreenRows DEF NewRender, RenderRow, Attempt
  <2>3. \A a \in DOMAIN attempts : attempts[a].msg \in DOMAIN shown
    BY DEF ScreenTypes, RowOf
  <2> HIDE DEF order, lost
  <2>4. \A n \in 1..k : tail[n] = NewRender(attempts[order[n]].msg, "current")
    BY <2>1
  <2>5. tail = [n \in 1..k |-> tail[n]]
    BY <2>1
  <2> HIDE DEF tail
  <2> QED
    BY <2>1, <2>2, <2>3, <2>4, <2>5
<1> HIDE DEF waiting, tail, given
<1>8. waiting \in Seq(RenderRow)
  BY <1>3, <1>4, RowsWritten DEF ScreenTypes
<1>9. tail \in Seq(RenderRow) /\ Len(tail) = k
  <2>1. tail \in [1..k -> RenderRow]
    BY <1>7
  <2> QED
    BY <2>1, SeqDef
<1>10. attempts' \in Seq(Attempt)
  BY <1>1, <1>5, <1>6, RowsWritten DEF ScreenTypes
<1>11. /\ renders' \in Seq(RenderRow) /\ Len(renders') = Len(waiting) + k
       /\ \A r \in 1..(Len(waiting) + k) :
            renders'[r] = IF r <= Len(waiting) THEN waiting[r] ELSE tail[r - Len(waiting)]
  BY <1>1, <1>8, <1>9, ConcatProperties
<1>12. DOMAIN renders' = 1..(Len(waiting) + k) /\ DOMAIN renders = 1..Len(waiting)
       /\ Len(waiting) \in Nat
  BY <1>4, <1>8, <1>11
<1>13. \A r \in DOMAIN renders : r \in DOMAIN renders' /\ renders'[r] = waiting[r]
  BY <1>2, <1>11, <1>12
<1>14. ASSUME NEW r \in DOMAIN renders' \ DOMAIN renders PROVE renders'[r].msg \in DOMAIN shown
  <2>1. r - Len(waiting) \in 1..k /\ renders'[r] = tail[r - Len(waiting)]
    BY <1>2, <1>11, <1>12
  <2> QED
    BY <1>7, <2>1
<1> QED
  BY <1>1, <1>3, <1>5, <1>6, <1>10, <1>11, <1>13, <1>14


LEMMA RecoverStep ==
  ASSUME ScreenInv, RecoverRenders, Edits' = Edits
  PROVE  ScreenInv'
<1> DEFINE Left(r) == renders[r].state = "rendering" /\ ~Live(renders[r].owner)
<1>1. /\ renders' \in Seq(RenderRow) /\ attempts' \in Seq(Attempt)
      /\ DOMAIN renders \subseteq DOMAIN renders'
      /\ \A r \in DOMAIN renders' \ DOMAIN renders : renders'[r].msg \in DOMAIN shown
      /\ DOMAIN attempts' = DOMAIN attempts /\ UNCHANGED <<shown, unseen>>
  BY RecoverWrites DEF ScreenInv, RecoverRenders
<1>2. \A r \in DOMAIN renders :
        /\ renders'[r].msg = renders[r].msg /\ renders'[r].gen = renders[r].gen
        /\ renders'[r].owner = renders[r].owner
        /\ Left(r) => renders'[r].state = "pending"
        /\ ~Left(r) => renders'[r] = renders[r]
  BY RecoverWrites DEF ScreenInv
<1>3. \A a \in DOMAIN attempts :
        /\ attempts'[a].render = attempts[a].render /\ attempts'[a].gen = attempts[a].gen
        /\ attempts'[a].owner = attempts[a].owner /\ attempts'[a].msg = attempts[a].msg
        /\ OrphanEdit(attempts[a]) => attempts'[a].progress = "unknown"
        /\ ~OrphanEdit(attempts[a]) => attempts'[a] = attempts[a]
  BY RecoverWrites DEF ScreenInv
<1>4. \A a \in DOMAIN attempts :
        /\ attempts[a].render \in DOMAIN renders
        /\ Sending(a)' <=> (Sending(a) /\ Live(attempts[a].owner))
        /\ Sending(a) => (Live(attempts[a].owner) <=> ~Left(attempts[a].render))
  <2> SUFFICES ASSUME NEW a \in DOMAIN attempts
               PROVE  /\ attempts[a].render \in DOMAIN renders
                      /\ Sending(a)' <=> (Sending(a) /\ Live(attempts[a].owner))
                      /\ Sending(a) => (Live(attempts[a].owner) <=> ~Left(attempts[a].render))
    OBVIOUS
  <2>1. attempts[a].render \in DOMAIN renders
    BY DEF ScreenInv, ScreenTypes
  <2>2. Sending(a)' <=> (Sending(a) /\ Live(attempts[a].owner))
    <3>1. CASE OrphanEdit(attempts[a])
      BY <1>3, <3>1 DEF OrphanEdit, Sending
    <3>2. CASE ~OrphanEdit(attempts[a])
      BY <1>3, <3>2 DEF OrphanEdit, Sending
    <3> QED
      BY <3>1, <3>2
  <2>3. ASSUME Sending(a) PROVE (Live(attempts[a].owner) <=> ~Left(attempts[a].render))
    <3>1. /\ renders[attempts[a].render].state = "rendering"
          /\ renders[attempts[a].render].owner = attempts[a].owner
      BY <2>3 DEF ScreenInv, Held, ClaimsHeld, RowOf
    <3> QED
      BY <3>1 DEF Live
  <2> QED
    BY <2>1, <2>2, <2>3
<1> HIDE DEF Left
<1>5. ScreenTypes'
  <2>1. \A r \in DOMAIN renders' : renders'[r].msg \in DOMAIN shown'
    BY <1>1, <1>2 DEF ScreenInv, ScreenTypes
  <2>2. \A a \in DOMAIN attempts' :
          attempts'[a].render \in DOMAIN renders' /\ RowOf(a)'.msg = attempts'[a].msg
    <3> SUFFICES ASSUME NEW a \in DOMAIN attempts
                 PROVE  attempts'[a].render \in DOMAIN renders' /\ RowOf(a)'.msg = attempts'[a].msg
      BY <1>1
    <3>1. RowOf(a).msg = attempts[a].msg /\ attempts[a].render \in DOMAIN renders
      BY DEF ScreenInv, ScreenTypes
    <3>2. RowOf(a)' = renders'[attempts[a].render]
      BY <1>3 DEF RowOf
    <3> QED
      BY <1>1, <1>2, <1>3, <3>1, <3>2 DEF RowOf
  <2>3. Len(attempts') = Len(attempts)
    BY <1>1, ScreenRows DEF ScreenInv, ScreenTypes
  <2> QED
    BY <1>1, <2>1, <2>2, <2>3 DEF ScreenInv, ScreenTypes
<1>6. Held'
  <2>1. ClaimsHeld'
    <3> SUFFICES ASSUME NEW a \in DOMAIN attempts
                 PROVE  /\ Sending(a)' => /\ RowOf(a)'.state = "rendering"
                                          /\ RowOf(a)'.gen = attempts'[a].gen
                                          /\ RowOf(a)'.owner = attempts'[a].owner
                        /\ ~Sending(a)' => ~(RowOf(a)'.state = "rendering"
                                             /\ RowOf(a)'.gen = attempts'[a].gen)
                        /\ attempts'[a].gen =< RowOf(a)'.gen
                        /\ \A d \in DOMAIN attempts' :
                             attempts'[a].render = attempts'[d].render
                             /\ attempts'[a].gen = attempts'[d].gen => a = d
      BY <1>1 DEF ClaimsHeld
    <3>1. \A d \in DOMAIN attempts' :
            attempts'[a].render = attempts'[d].render /\ attempts'[a].gen = attempts'[d].gen => a = d
      BY <1>1, <1>3 DEF ScreenInv, Held, ClaimsHeld
    <3>2. /\ RowOf(a)'.gen = RowOf(a).gen /\ RowOf(a)'.owner = RowOf(a).owner
          /\ Left(attempts[a].render) => RowOf(a)'.state = "pending"
          /\ ~Left(attempts[a].render) => RowOf(a)' = RowOf(a)
      BY <1>2, <1>3, <1>4 DEF RowOf
    <3>3. attempts'[a].gen = attempts[a].gen /\ attempts'[a].owner = attempts[a].owner
      BY <1>3
    <3>4. CASE Sending(a)
      BY <1>4, <3>1, <3>2, <3>3, <3>4 DEF ScreenInv, Held, ClaimsHeld
    <3>5. CASE ~Sending(a)
      BY <1>4, <3>1, <3>2, <3>3, <3>5 DEF ScreenInv, Held, ClaimsHeld
    <3> QED
      BY <3>4, <3>5
  <2>2. \A c \in Edits : c.row \in DOMAIN attempts
    BY DEF ScreenInv, ScreenTypes
  <2>3. EditsKnown'
    <3>1. \A a \in DOMAIN attempts :
            attempts[a].progress # "finished" => attempts'[a].progress # "finished"
      BY <1>3
    <3> QED
      BY <1>3, <2>2, <3>1 DEF ScreenInv, Held, EditsKnown
  <2>4. InOrder'
    <3> SUFFICES ASSUME NEW e \in Edits, e.at = "sending", NEW a \in DOMAIN attempts,
                        a > e.row, attempts'[a].msg = attempts'[e.row].msg,
                        attempts'[a].owner = e.bot
                 PROVE  \E g \in Edits : g.row = a /\ g.at = "sending"
      BY <1>1 DEF InOrder
    <3>1. attempts[a].msg = attempts[e.row].msg /\ attempts[a].owner = e.bot
      BY <1>3, <2>2
    <3> QED
      BY <3>1 DEF ScreenInv, Held, InOrder
  <2>5. OneHolder'
    <3> SUFFICES ASSUME NEW e \in Edits, Sending(e.row)', NEW a \in DOMAIN attempts,
                        a > e.row, attempts'[a].msg = attempts'[e.row].msg
                 PROVE  attempts'[a].owner = e.bot
      BY <1>1 DEF OneHolder
    <3>1. attempts[a].msg = attempts[e.row].msg /\ Sending(e.row)
      BY <1>3, <1>4, <2>2
    <3> QED
      BY <1>3, <3>1 DEF ScreenInv, Held, OneHolder
  <2> QED
    BY <2>1, <2>3, <2>4, <2>5 DEF Held
<1>7. ASSUME NEW m \in DOMAIN shown' PROVE Fine(m)'
  <2>1. Fine(m)
    BY <1>1 DEF ScreenInv, Repaired
  <2>2. CASE \E r \in DOMAIN renders : renders[r].msg = m /\ Left(r)
    BY <1>1, <1>2, <2>2 DEF Fine, OpenRow
  <2>3. CASE \A r \in DOMAIN renders : renders[r].msg = m => ~Left(r)
    <3>1. OpenRow(m) => OpenRow(m)'
      BY <1>1, <1>2, <2>3 DEF OpenRow
    <3>2. \A a \in DOMAIN attempts : attempts[a].msg = m =>
            /\ ~Left(attempts[a].render) /\ RowOf(a)' = RowOf(a)
      BY <1>2, <1>3, <1>4, <2>3 DEF ScreenInv, ScreenTypes, RowOf
    <3>3. \A a \in DOMAIN attempts : attempts[a].msg = m =>
            attempts'[a] = attempts[a] /\ Sending(a)' = Sending(a)
      BY <1>3, <1>4, <3>2 DEF OrphanEdit, Sending
    <3>4. Late(m) => Late(m)'
      BY <3>3 DEF Late, ScreenInv, ScreenTypes
    <3>5. ASSUME UpToDate(m), NEW a \in DOMAIN attempts, attempts'[a].msg = m,
                 Done(a)' \/ Nearly(a)'
          PROVE  shown[m] >= a \/ Later(a)'
      <4>1. attempts[a].msg = m
        BY <1>3, <3>5
      <4>2. (Done(a)' => Done(a)) /\ (Nearly(a)' => Nearly(a))
        BY <3>2, <3>3, <4>1 DEF Done, Nearly
      <4>3. Later(a) => Later(a)'
        BY <1>1, <1>3, <3>3, <4>1 DEF Later
      <4> QED
        BY <3>5, <4>1, <4>2, <4>3 DEF UpToDate
    <3> QED
      BY <1>1, <2>1, <3>1, <3>4, <3>5 DEF Fine, UpToDate
  <2> QED
    BY <2>2, <2>3
<1> QED
  BY <1>5, <1>6, <1>7 DEF ScreenInv, Repaired


LEMMA ScreenStep ==
  ASSUME ConfessionInv, ScreenInv, Next, OneEditorEach
  PROVE  ScreenInv'
<1>1. talk \in Talk /\ CallTypes /\ \A c \in calls : CallShape(c)
  BY DEF ConfessionInv, ConfessionTypes, CallTypes
<1>2. ASSUME UNCHANGED screenVars, calls' = calls PROVE ScreenInv'
  BY <1>2, CalmStep DEF Edits
<1>3. ASSUME NEW c, c.kind # "edit", UNCHANGED screenVars, calls' = calls \ {c} PROVE ScreenInv'
  BY <1>3, CalmStep DEF Edits
<1>4. ASSUME NEW c, c.kind # "edit", UNCHANGED screenVars, calls' = calls \union {c} PROVE ScreenInv'
  BY <1>4, CalmStep DEF Edits
<1>5. \A k, n, g, b : Call(k, n, g, b).kind = k
  BY DEF Call
<1>6. CASE Acknowledge
  <2>1. UNCHANGED screenVars
    BY <1>6 DEF Acknowledge
  <2>2. calls' = calls \/ \E n, b : calls' = calls \union {Call("ack", n, 1, b)}
    BY <1>6 DEF Acknowledge, BeginAcknowledgement
  <2> QED
    BY <1>2, <1>4, <1>5, <2>1, <2>2
<1>7. ASSUME NEW c \in calls, CallGoesOn(c) PROVE ScreenInv'
  <2>1. CASE Answer(c) /\ UNCHANGED screenVars
    <3>1. PICK d \in Delivery :
            calls' = (calls \ {c}) \union {[c EXCEPT !.at = "answered", !.out = d[1]]}
      BY <2>1 DEF Answer, Reply
    <3> DEFINE e == [c EXCEPT !.at = "answered", !.out = d[1]]
    <3>2. CallShape(c) /\ c.kind # "edit"
      BY <1>1, <2>1 DEF Answer
    <3>3. /\ e.kind = c.kind /\ e.row = c.row /\ e.gen = c.gen /\ e.bot = c.bot
          /\ e.at = "answered" /\ e.out = d[1] /\ CallShape(e)
      BY <3>2, AnsweredCall
    <3>4. calls' = (calls \ {c}) \union {e}
      BY <3>1
    <3> HIDE DEF e
    <3>5. Edits' = Edits
      BY <3>2, <3>3, <3>4 DEF Edits
    <3> QED
      BY <2>1, <3>5, CalmStep
  <2>2. CASE (SettleAcknowledgement(c) \/ FinishReplyDraft(c) \/ SettleFollowUpRelay(c))
             /\ UNCHANGED screenVars
    <3>1. calls' = calls \ {c} /\ c.kind # "edit"
      BY <2>2 DEF SettleAcknowledgement, FinishReplyDraft, SettleFollowUpRelay, Answered
    <3> QED
      BY <1>3, <2>2, <3>1
  <2>3. CASE FinalizeStaffReply(c) /\ QueueFinalRender(c)
    <3>1. calls' = calls \ {c} /\ c.kind = "reply"
      BY <2>3 DEF FinalizeStaffReply, Answered
    <3>2. Edits' = Edits /\ c \in Sends
      BY <3>1 DEF Edits, Sends
    <3>3. c.row \in Nat /\ c.gen \in Nat
      BY <1>1, <3>2, SendIsTyped
    <3> QED
      BY <2>3, <3>2, <3>3, QueueStep
  <2>4. CASE AnswerEdit(c)
    BY <1>1, <2>4, AnswerEditStep
  <2>5. CASE FinishRenderAttempt(c)
    BY <2>5, WonStep, LostStep
  <2> QED
    BY <1>7, <2>1, <2>2, <2>3, <2>4, <2>5 DEF CallGoesOn
<1>8. CASE Poster
  <2>1. UNCHANGED screenVars /\ calls' = calls
    BY <1>8 DEF Poster, RecordSenderFollowUp, SenderClose
  <2> QED
    BY <1>2, <2>1
<1>9. CASE StaffAtTheRow
  <2>1. UNCHANGED screenVars /\ calls' = calls
    BY <1>9 DEF StaffAtTheRow, Claim, BindRecoveryThread, StaffClose, SetInternalHold, SetStage,
         Reopen, CreateReplyDraft, ResolveReplyDraft, ResolveFollowUp
  <2> QED
    BY <1>2, <2>1
<1>10. ASSUME NEW b \in Running, StaffSends(b) PROVE ScreenInv'
  <2>1. UNCHANGED screenVars
    BY <1>10 DEF StaffSends
  <2>2. \/ calls' = calls
        \/ \E d, g : calls' = calls \union {Call("reply", d, g, b)}
        \/ \E f, g : calls' = calls \union {Call("followUp", f, g, b)}
    BY <1>10 DEF StaffSends, LookAtAck, ClaimReplyDraft, ClaimReplyDraftManualRetry, SendDraft,
         ClaimFollowUpManualRetry, RelayFollowUp
  <2> QED
    BY <1>2, <1>4, <1>5, <2>1, <2>2
<1>11. ASSUME NEW b \in Bot, NEW r, ClaimRender(b, r) \/ ClaimRenderManualRetry(b, r)
       PROVE  ScreenInv'
  <2>1. ScreenTypes
    BY DEF ScreenInv
  <2>2. PICK row : Claims(b, r, row)
    BY <1>11, <2>1, ClaimRenderClaims
  <2> QED
    BY <1>1, <2>2, ClaimStep
<1>12. ASSUME NEW b \in Running, StaffAtTheScreen(b) PROVE ScreenInv'
  BY <1>11, <1>12, ResolveStep DEF StaffAtTheScreen, Running
<1>13. ASSUME RecoverRenders, calls' = calls PROVE ScreenInv'
  BY <1>13, RecoverStep DEF Edits
<1>14. ASSUME NEW b \in Running, Scheduler(b) PROVE ScreenInv'
  <2>1. CASE SweepDeadOwners
    BY <1>13, <2>1 DEF SweepDeadOwners, Sweep
  <2>2. ASSUME NEW f \in DOMAIN followUps, ClaimFollowUpRelay(b, f), UNCHANGED screenVars
        PROVE  ScreenInv'
    <3>1. calls' = calls \union {Call("followUp", f, followUps[f].gen + 1, b)}
      BY <2>2 DEF ClaimFollowUpRelay, RelayFollowUp
    <3> QED
      BY <1>4, <1>5, <2>2, <3>1
  <2>3. ASSUME NEW r \in DOMAIN renders, ClaimRender(b, r) PROVE ScreenInv'
    BY <1>11, <2>3 DEF Running
  <2>4. CASE (ReadDue(b) \/ AutoCloseExpired(b) \/ PurgeBodies) /\ UNCHANGED screenVars
    <3>1. calls' = calls
      BY <2>4 DEF ReadDue, AutoCloseExpired, PurgeBodies
    <3> QED
      BY <1>2, <2>4, <3>1
  <2> QED
    BY <1>14, <2>1, <2>2, <2>3, <2>4 DEF Scheduler
<1>15. CASE Talking
  BY <1>6, <1>7, <1>8, <1>9, <1>10, <1>12, <1>14, <1>15 DEF Talking
<1>16. CASE Living
  <2>1. ASSUME NEW b \in Bot, StartBot(b) PROVE ScreenInv'
    BY <1>2, <1>13, <2>1 DEF StartBot, Start, StartUnrecovered, Starting
  <2>2. ASSUME NEW b \in Bot, Heartbeat(b) \/ Lapse(b), UNCHANGED screenVars PROVE ScreenInv'
    BY <1>2, <2>2 DEF Heartbeat, Lapse
  <2> QED
    BY <1>16, <2>1, <2>2, CrashStep DEF Living
<1>17. CASE Tick /\ UNCHANGED screenVars
  BY <1>2, <1>17 DEF Tick
<1> QED
  BY <1>15, <1>16, <1>17 DEF Next

LEMMA ScreensStart ==
  ASSUME ScreensInit
  PROVE  ScreenInv
<1>1. renders = <<>> /\ attempts = <<>> /\ calls = {} /\ DOMAIN shown = {}
  BY DEF ScreensInit, Init
<1>2. renders \in Seq(RenderRow) /\ attempts \in Seq(Attempt)
  BY <1>1, EmptySeq
<1>3. DOMAIN renders = {} /\ DOMAIN attempts = {} /\ Edits = {}
  BY <1>1 DEF Edits
<1> QED
  BY <1>1, <1>2, <1>3 DEF ScreenInv, ScreenTypes, Held, ClaimsHeld, EditsKnown, InOrder, OneHolder,
       Repaired

\* Everything is settled and nothing on its way: the message shows its latest edit.
LEMMA RepairedMeansUpToDate ==
  ASSUME ScreenInv
  PROVE  StaleScreenIsRepaired
<1> SUFFICES ASSUME NEW m \in DOMAIN shown, m \notin unseen,
                    \A r \in DOMAIN renders : renders[r].msg = m => renders[r].state = "settled",
                    \A c \in calls : c.kind = "edit" => attempts[c.row].msg # m,
                    NEW a \in LastLanded(m)
             PROVE  shown[m] >= a
  BY DEF StaleScreenIsRepaired
<1>1. ~Late(m) /\ ~OpenRow(m)
  BY DEF Late, OpenRow, Edits
<1>2. UpToDate(m)
  BY <1>1 DEF ScreenInv, Repaired, Fine
<1>3. a \in DOMAIN attempts /\ attempts[a].msg = m /\ Done(a)
  BY DEF LastLanded, Done, RowOf
<1>4. ~Later(a)
  <2> SUFFICES ASSUME NEW b \in DOMAIN attempts, attempts[b].msg = m, Sending(b) PROVE FALSE
    BY <1>3 DEF Later
  <2>1. attempts[b].render \in DOMAIN renders /\ RowOf(b).msg = m /\ RowOf(b).state = "rendering"
    BY DEF ScreenInv, ScreenTypes, Held, ClaimsHeld
  <2> QED
    BY <2>1 DEF RowOf
<1> QED
  BY <1>2, <1>3, <1>4 DEF UpToDate

\* A late edit of a bot taken for dead is repaired by an edit behind it, whatever
\* crashes, lost leases, retries and refusals lie in between, as long as no two bots
\* that both hold their claims edit one message at once (finishRenderAttempt,
\* recoverOrphanedEffects, confession/service.ts).
THEOREM ScreenIsRepaired == Spec /\ [][OneEditorEach]_vars => []StaleScreenIsRepaired
<1>1. ScreensInit => ScreenInv
  BY ScreensStart
<1>2. ConfessionInv /\ ScreenInv /\ [Next]_vars /\ [OneEditorEach]_vars => ScreenInv'
  <2> SUFFICES ASSUME ConfessionInv, ScreenInv, [Next]_vars, [OneEditorEach]_vars
               PROVE  ScreenInv'
    OBVIOUS
  <2>1. CASE UNCHANGED vars
    <3>1. UNCHANGED screenVars /\ calls' = calls
      BY <2>1 DEF vars, screenVars, talkVars
    <3> QED
      BY <3>1, CalmStep DEF Edits
  <2>2. CASE Next /\ OneEditorEach
    BY <2>2, ScreenStep
  <2> QED
    BY <2>1, <2>2
<1>3. ScreenInv => StaleScreenIsRepaired
  BY RepairedMeansUpToDate
<1> QED
  BY <1>1, <1>2, <1>3, ConfessionInvariant, PTL DEF Spec


-----------------------------------------------------------------------------
(* One bot at a time *)

\* Edits are asked for by bots that run.
EditorsRun == \A c \in Edits : c.bot \in Running

\* A step asks for an edit only in the name of a bot that runs, and forgets those of
\* a bot that dies.
EditsByRunning ==
  /\ \A c \in Edits' : c.bot \in Running'
  /\ \A c \in calls' \ calls : c.kind = "edit" /\ c.at = "sending" => c.bot \in Running

LEMMA EditorsStep ==
  ASSUME \A c \in calls : CallShape(c), EditorsRun, Next
  PROVE  EditsByRunning
<1>1. ASSUME bots' = bots, Edits' \subseteq Edits PROVE EditsByRunning
  BY <1>1 DEF EditsByRunning, EditorsRun, Running, Edits
<1>2. ASSUME bots' = bots, calls' \subseteq calls PROVE EditsByRunning
  BY <1>1, <1>2 DEF Edits
<1>3. ASSUME bots' = bots, NEW c, c.kind # "edit", calls' = calls \union {c} PROVE EditsByRunning
  BY <1>1, <1>3 DEF Edits
<1>4. ASSUME bots' = bots, NEW b \in Running, NEW r, StartEdit(b, r) PROVE EditsByRunning
  <2> DEFINE c == Call("edit", Len(attempts) + 1, 0, b)
  <2>1. c.bot = b /\ calls' = calls \union {c}
    BY <1>4 DEF Call, StartEdit
  <2> HIDE DEF c
  <2> QED
    BY <1>4, <2>1 DEF EditsByRunning, EditorsRun, Edits, Running
<1>5. ASSUME bots' = bots, NEW c \in calls, NEW out, Reply(c, out) PROVE EditsByRunning
  <2> DEFINE e == [c EXCEPT !.at = "answered", !.out = out]
  <2>1. CallShape(c)
    OBVIOUS
  <2>2. /\ e.kind = c.kind /\ e.row = c.row /\ e.gen = c.gen /\ e.bot = c.bot
        /\ e.at = "answered" /\ e.out = out /\ CallShape(e)
    BY <2>1, AnsweredCall
  <2>3. calls' = (calls \ {c}) \union {e}
    BY <1>5 DEF Reply
  <2> HIDE DEF e
  <2> QED
    BY <1>5, <2>2, <2>3 DEF EditsByRunning, EditorsRun, Edits, Running
<1> HIDE DEF EditsByRunning
<1>6. \A k, n, g, b : Call(k, n, g, b).kind = k
  BY DEF Call
<1>7. ASSUME Talking PROVE EditsByRunning
  <2>0. bots' = bots
    BY <1>7 DEF Talking, botVars
  <2>1. CASE Acknowledge
    <3>1. calls' = calls \/ \E n, b : calls' = calls \union {Call("ack", n, 1, b)}
      BY <2>1 DEF Acknowledge, BeginAcknowledgement
    <3> QED
      BY <1>2, <1>3, <1>6, <2>0, <3>1
  <2>2. ASSUME NEW c \in calls, CallGoesOn(c) PROVE EditsByRunning
    <3>1. CASE Answer(c) \/ AnswerEdit(c)
      <4>1. \E out : Reply(c, out)
        BY <3>1 DEF Answer, AnswerEdit
      <4> QED
        BY <1>5, <2>0, <4>1
    <3>2. CASE ~(Answer(c) \/ AnswerEdit(c))
      <4>1. calls' = calls \ {c}
        BY <2>2, <3>2 DEF CallGoesOn, SettleAcknowledgement, FinishReplyDraft,
             SettleFollowUpRelay, FinalizeStaffReply, FinishRenderAttempt
      <4> QED
        BY <1>2, <2>0, <4>1
    <3> QED
      BY <3>1, <3>2
  <2>3. CASE Poster
    BY <1>2, <2>0, <2>3 DEF Poster, RecordSenderFollowUp, SenderClose
  <2>4. CASE StaffAtTheRow
    BY <1>2, <2>0, <2>4 DEF StaffAtTheRow, Claim, BindRecoveryThread, StaffClose, SetInternalHold,
       SetStage, Reopen, CreateReplyDraft, ResolveReplyDraft, ResolveFollowUp
  <2>5. ASSUME NEW b \in Running, StaffSends(b) PROVE EditsByRunning
    <3>1. \/ calls' = calls
          \/ \E d, g : calls' = calls \union {Call("reply", d, g, b)}
          \/ \E f, g : calls' = calls \union {Call("followUp", f, g, b)}
      BY <2>5 DEF StaffSends, LookAtAck, ClaimReplyDraft, ClaimReplyDraftManualRetry, SendDraft,
           ClaimFollowUpManualRetry, RelayFollowUp
    <3> QED
      BY <1>2, <1>3, <1>6, <2>0, <3>1
  <2>6. ASSUME NEW b \in Running, StaffAtTheScreen(b) PROVE EditsByRunning
    BY <1>2, <1>4, <2>0, <2>6 DEF StaffAtTheScreen, ClaimRenderManualRetry, ResolveRender
  <2>7. ASSUME NEW b \in Running, Scheduler(b) PROVE EditsByRunning
    <3>1. \/ calls' = calls
          \/ \E f, g : calls' = calls \union {Call("followUp", f, g, b)}
          \/ \E r : StartEdit(b, r)
      BY <2>7 DEF Scheduler, SweepDeadOwners, Sweep, ClaimFollowUpRelay, RelayFollowUp,
           ClaimRender, ReadDue, AutoCloseExpired, PurgeBodies
    <3> QED
      BY <1>2, <1>3, <1>4, <1>6, <2>0, <3>1
  <2> QED
    BY <1>7, <2>1, <2>2, <2>3, <2>4, <2>5, <2>6, <2>7 DEF Talking
<1>8. ASSUME NEW b \in Bot, CrashBot(b) PROVE EditsByRunning
  <2>1. calls' = {c \in calls : c.bot # b} /\ bots' = [bots EXCEPT ![b] = "dead"]
    BY <1>8 DEF CrashBot, Crash
  <2> QED
    BY <2>1 DEF EditsByRunning, EditorsRun, Edits, Running
<1>9. ASSUME NEW b \in Bot, StartBot(b) PROVE EditsByRunning
  <2>1. calls' = calls /\ bots' = [bots EXCEPT ![b] = "running"] /\ bots[b] = "new"
    BY <1>9 DEF StartBot, Start, StartUnrecovered, Starting
  <2>2. \A a \in Running : a \in Running'
    BY <2>1 DEF Running
  <2> QED
    BY <2>1, <2>2 DEF EditsByRunning, EditorsRun, Edits
<1>10. ASSUME NEW b \in Bot, Heartbeat(b) \/ Lapse(b) PROVE EditsByRunning
  BY <1>2, <1>10 DEF Heartbeat, Lapse
<1>11. CASE Tick
  BY <1>2, <1>11 DEF Tick, botVars
<1> QED
  BY <1>7, <1>8, <1>9, <1>10, <1>11 DEF Next, Living

\* A bot that runs alone never meets the edits of another: with starts that follow
\* each other, every stale screen is repaired, without a condition on the steps.
THEOREM LoneBotRepairs ==
  Spec /\ [](\A b, c \in Running : b = c) => []StaleScreenIsRepaired
<1> DEFINE Alone == \A b, c \in Running : b = c
<1>1. ScreensInit => EditorsRun
  BY DEF ScreensInit, Init, EditorsRun, Edits
<1>2. ConfessionInv /\ EditorsRun /\ [Next]_vars => EditorsRun'
  <2> SUFFICES ASSUME ConfessionInv, EditorsRun, [Next]_vars PROVE EditorsRun'
    OBVIOUS
  <2>1. CASE Next
    BY <2>1, EditorsStep DEF ConfessionInv, ConfessionTypes, CallTypes, EditsByRunning, EditorsRun
  <2>2. CASE UNCHANGED vars
    BY <2>2 DEF vars, talkVars, botVars, EditorsRun, Edits, Running
  <2> QED
    BY <2>1, <2>2
<1>3. ConfessionInv /\ EditorsRun /\ Alone /\ [Next]_vars => [OneEditorEach]_vars
  <2> SUFFICES ASSUME ConfessionInv, EditorsRun, Alone, Next PROVE OneEditorEach
    OBVIOUS
  <2>1. EditsByRunning
    BY EditorsStep DEF ConfessionInv, ConfessionTypes, CallTypes
  <2> QED
    BY <2>1 DEF OneEditorEach, EditsByRunning, EditorsRun, Edits
<1> HIDE DEF Alone
<1>4. Spec /\ []Alone => [][OneEditorEach]_vars
  BY <1>1, <1>2, <1>3, ConfessionInvariant, PTL DEF Spec
<1> QED
  BY <1>4, ScreenIsRepaired, PTL DEF Alone
=============================================================================
