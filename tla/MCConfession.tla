---------------------------- MODULE MCConfession ----------------------------
(***************************************************************************)
(* A small conversation for TLC, its fairness, and the properties that     *)
(* need them.  A behaviour follows one kind of send besides the            *)
(* conversation's own row: the kinds share the row, the bots and the       *)
(* recovery, never a row of their own.                                     *)
(***************************************************************************)
EXTENDS ConfessionScreens

CONSTANT Parts   \* the parts explored: "acks", "replies", "answers" (both ways),
                 \* "followUps", "screens"

VARIABLE part

confessionVars == <<vars, part>>

NoAcks == UNCHANGED <<acks, looks>>
NoDrafts == UNCHANGED drafts
NoFollowUps == UNCHANGED followUps
NoEdits == UNCHANGED attempts
NoRelay == \A f \in DOMAIN followUps' : followUps'[f].gen = 0
NoHold == talk'.stage # "internal_hold"
Timeless == UNCHANGED clock
Posted == talk'.thread => talk'.panel
SentOnce == \A d \in DOMAIN drafts : drafts[d].gen > 0 => drafts'[d].gen = drafts[d].gen
NoStageByHand == (moves' # moves /\ talk'.stage # talk.stage) => talk'.status # talk.status

\* The screens are followed for replies that wait and arrive, each sent once and
\* by the first start, in a conversation the poster may end and the staff reopen,
\* with three rows and three edits, one of them by the first start.  Starts may
\* overlap and edit after each other, and a bot loses its lease or dies, not both.
MaxEdits == 3
RepliesArriveAndWait ==
  /\ \A c \in calls' : c.kind = "reply" => c.bot = 1 /\ c.out \in {"", "delivered"}
  /\ \A d \in DOMAIN drafts' : drafts'[d].intent = "wait"
PosterEnds ==
  /\ talk'.side \in {"", "sender"} /\ Posted
  /\ (moves' # moves /\ talk' # talk) => ~Open
FewEdits ==
  /\ Len(attempts') =< MaxEdits /\ Len(renders') =< MaxEdits
  /\ Cardinality({a \in DOMAIN attempts' : attempts'[a].owner = 1}) =< 1
OneFault == lapses' = 0 \/ \A b \in Bot : bots'[b] # "dead"

Within(p) ==
  CASE p = "acks" -> OneFault /\ NoDrafts /\ NoFollowUps /\ NoHold /\ Timeless
    [] p = "replies" -> OneFault /\ NoAcks /\ NoFollowUps /\ NoEdits
    [] p = "answers" -> lapses' = 0 /\ NoAcks /\ NoEdits /\ NoRelay
    [] p = "followUps" -> OneFault /\ NoAcks /\ NoDrafts /\ NoStageByHand
    [] p = "screens" -> /\ NoAcks /\ NoFollowUps /\ NoStageByHand /\ Timeless
                        /\ RepliesArriveAndWait /\ PosterEnds /\ FewEdits
                        /\ OneEditorEach /\ OneFault /\ SentOnce

ConfessionInit == ScreensInit /\ part \in Parts

ConfessionNext == Next /\ Within(part) /\ UNCHANGED part

ConfessionSpec == ConfessionInit /\ [][ConfessionNext]_confessionVars

\* The scheduler runs every minute on every bot, the heart beats every thirty
\* seconds, Discord answers or times out, a dead bot's lease runs out.
Going(A) == A /\ UNCHANGED <<botVars, clock>> /\ Within(part) /\ UNCHANGED part
Beating(A) == A /\ UNCHANGED screenVars /\ Within(part) /\ UNCHANGED part

FairConfessionSpec ==
  /\ ConfessionSpec
  /\ WF_confessionVars(Going(\E c \in calls : CallGoesOn(c)))
  /\ WF_confessionVars(Going(Running # {} /\ SweepDeadOwners))
  /\ WF_confessionVars(Beating(\E b \in Bot : Heartbeat(b)))
  /\ WF_confessionVars(Beating(\E b \in Bot : bots[b] = "dead" /\ Lapse(b)))
  /\ WF_confessionVars(Going(\E b \in Running, f \in DOMAIN followUps :
                                ClaimFollowUpRelay(b, f) /\ UNCHANGED screenVars))
  /\ WF_confessionVars(Going(\E b \in Running, r \in DOMAIN renders : ClaimRender(b, r)))
  /\ WF_confessionVars(Running = {} /\ (\E b \in Bot : StartBot(b))
                       /\ Within(part) /\ UNCHANGED part)

-----------------------------------------------------------------------------
\* Nothing hangs: every send is settled although its bot died or the recovery of
\* its start failed, and a follow-up is handed over or comes to a person once
\* there is a thread (service.ts, recoverOrphanedEffects, "必ず回収される").
InFlight(rows, n) == n \in DOMAIN rows /\ rows[n].out = "sending"

ToDo(n) ==
  /\ n \in DOMAIN followUps /\ talk.thread
  /\ followUps[n].out \in {"none", "failed", "sending"} /\ ~NeedsDecision(n)

EffectsComeToRest ==
  /\ \A n \in 1..MaxAcks : [](InFlight(acks, n) => <>~InFlight(acks, n))
  /\ \A n \in 1..MaxDrafts : [](InFlight(drafts, n) => <>~InFlight(drafts, n))
  /\ part = "followUps" => \A n \in 1..MaxFollowUps : <>[]~ToDo(n)
=============================================================================
