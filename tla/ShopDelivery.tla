---------------------------- MODULE ShopDelivery ----------------------------
(***************************************************************************)
(* One Discord role of one buyer, and everybody in the bot who touches it: *)
(* the delivery workers (shop-delivery.ts), the patrol of timed roles      *)
(* (timed-access.ts), and the scheduler's claim recovery, lock recovery    *)
(* and revocation worker (scheduler-recovery.ts).                          *)
(*                                                                         *)
(* Between two awaits these handlers run synchronously, so one action is   *)
(* one such stretch with all its transactions.  Every change of the        *)
(* database is an action of ShopContract: this module refines it.          *)
(*                                                                         *)
(* Discord: a call may or may not take effect, whatever it answers, and    *)
(* does so before the next answered read; a read may fail; its answer may  *)
(* be old when the handler looks at it.                                    *)
(***************************************************************************)
EXTENDS ShopContract

CONSTANTS
  Patrol,              \* patrols that may be under way: the scheduler's, one per join
  Scheduler, Startup,  \* the minute tick and the start-up lock recovery
  Free, Uncertain,     \* the effect lock: no live row, a row in state uncertain,
  Dead,                \*   a held row whose owner died with an earlier process
  None,
  SlowStart,           \* the start-up recovery may last longer than to the first tick
  MaxCrashes, MaxOutside  \* bounds on restarts and on what people do on Discord

Worker == Purchase     \* withPurchaseLock: one delivery of a purchase at a time
Actor == Worker \cup Patrol \cup {Scheduler, Startup}

ASSUME DeliveryAssumption ==
  /\ Purchase \subseteq Nat         \* the patrol orders contracts by id
  /\ \A a, b \in Rows : a.user = b.user /\ a.target = b.target
  /\ \A a \in Rows : a.mode = "external" /\ a.prov /\ ~a.alt /\ a.target \in Role
  /\ Worker \cap Patrol = {}
  /\ {Scheduler, Startup} \cap (Worker \cup Patrol) = {} /\ Scheduler # Startup
  /\ {Free, Uncertain, Dead} \cap Actor = {}
  /\ Free # Uncertain /\ Free # Dead /\ Uncertain # Dead
  /\ None \notin Purchase \cup Token
  /\ SlowStart \in BOOLEAN

VARIABLES
  role,      \* Discord: the buyer has the role, lacks it, or left the server
  lock,      \* shop_external_effect_locks: who holds the live row of this resource
  task,      \* what every actor is doing, gone with the process
  tried,     \* shop_role_revocations.remove_attempted_at is set
  unseen,    \* history: the last call whose outcome no owner of the lock has seen
  taker,     \* history: the revocation whose removal was the last change of the role
  crashes, outside

world == <<role, unseen, taker>>
dvars == <<vars, world, lock, task, tried, crashes, outside>>

CallSteps == {"adding", "restoring", "removing", "undoing"}
\* Only lock holders are in these steps; the answers decide what is known of the role.
OwnReads == {"reading", "checking", "undone", "removed", "restored"}
OpenReads == {"probing", "observing", "inspecting", "approaching"}

Idle == [step |-> "idle", on |-> None, claim |-> None, mark |-> FALSE, reply |-> "none"]
Turn(a, step, mark, reply) ==
  task' = [task EXCEPT ![a] = [step |-> step, on |-> task[a].on, claim |-> task[a].claim,
                               mark |-> mark, reply |-> reply]]
Go(a, step) == Turn(a, step, task[a].mark, "none")
Stop(a) == task' = [task EXCEPT ![a] = Idle]
Begin(a, step, p, t) ==
  /\ task[a] = Idle
  /\ task' = [task EXCEPT ![a] = [step |-> step, on |-> p, claim |-> t,
                                  mark |-> FALSE, reply |-> "none"]]
At(a, step, replies) == task[a].step = step /\ task[a].reply \in replies

NoAnswer == {"failed", "gone"}       \* fetch rejects for a departed member, too
Ready == task[Startup] = Idle        \* awaitExternalEffectReady

DeliveryInit ==
  /\ Init
  /\ role = "off"
  /\ lock = Free
  /\ task = [a \in Actor |-> Idle]
  /\ tried = [p \in Purchase |-> FALSE]
  /\ unseen = "nothing" /\ taker = None
  /\ crashes = 0 /\ outside = 0

-----------------------------------------------------------------------------
(* Discord.                                                                *)

Goal(step) == IF step \in {"adding", "restoring"} THEN "on" ELSE "off"
AfterCallOfWorker(step) ==      \* mutant: every addition goes on as the worker's
  CASE Goal(step) = "on" -> "checking" [] step = "removing" -> "removed"
    [] step = "undoing" -> "undone"
AfterCall(step) ==
  CASE step = "adding" -> "checking" [] step = "restoring" -> "restored"
    [] step = "removing" -> "removed" [] step = "undoing" -> "undone"

MayChange(a) ==
  LET goal == Goal(task[a].step) IN
  \/ UNCHANGED <<role, taker>>
  \/ /\ role \notin {"gone", goal}
     /\ role' = goal
     /\ taker' = IF task[a].step = "removing" THEN task[a].on ELSE None

\* roles.add or roles.remove, and the reading that follows whatever it answered.
Call(a) ==
  /\ task[a].step \in CallSteps
  /\ MayChange(a)
  /\ unseen' = IF Goal(task[a].step) = "on" THEN "add" ELSE "remove"
  /\ Go(a, AfterCall(task[a].step))
  /\ UNCHANGED <<vars, lock, tried, crashes, outside>>

\* members.fetch: the reply waits until the handler runs again.
Answer(a, answer) ==
  /\ task[a].step \in OwnReads \cup OpenReads /\ task[a].reply = "none"
  /\ answer \in {role, "failed"}
  /\ Turn(a, task[a].step, task[a].mark, answer)
  /\ unseen' = IF answer \in {"on", "off"} /\ task[a].step \in OwnReads \cup {"inspecting"}
               THEN "nothing" ELSE unseen
  /\ UNCHANGED <<vars, role, taker, lock, tried, crashes, outside>>

\* Somebody takes the role off the buyer, who may also leave and come back.
Outside ==
  /\ outside < MaxOutside
  /\ \/ role = "on" /\ role' = "off"
     \/ role # "gone" /\ role' = "gone"
     \/ role = "gone" /\ role' = "off"
  /\ outside' = outside + 1 /\ taker' = None
  /\ UNCHANGED <<vars, lock, task, tried, unseen, crashes>>

-----------------------------------------------------------------------------
(* Turns of the purchase row that several handlers share.                  *)

LateFailure(p) ==
  IF dstate[p] = "delivered" THEN UNCHANGED vars ELSE MarkDeliveryFailed(p)

\* fail(): whoever closed the claim meanwhile, the failure is marked.
CloseClaim(p, t, s) ==
  IF attempt[p][t] \in LiveStates /\ (s = "uncertain" => attempt[p][t] = "in_flight")
  THEN FailDelivery(p, t, s)
  ELSE LateFailure(p)

Settleable(p, t) == attempt[p][t] \in LiveStates /\ Active(p) /\ dstate[p] # "delivered"

SettleAnyway(p, t) ==      \* mutant: the purchase is not looked at again
  /\ attempt' = [attempt EXCEPT ![p][t] = "settled"]
  /\ deliveredAt' = [deliveredAt EXCEPT ![p] = TRUE]
  /\ dstate' = [dstate EXCEPT ![p] = "delivered"]
  /\ UNCHANGED <<row, status, verified, effects, human, money, term, shelf>>

\* The role is there: settle the claim, or leave it to a human.
SettleOrFlag(p, t) ==
  IF Settleable(p, t) THEN SettleExternalDelivery(p, t)
  ELSE IF attempt[p][t] = "in_flight" THEN MarkExternalDeliveryUncertain(p, t)
  ELSE UNCHANGED vars

-----------------------------------------------------------------------------
(* deliverPurchaseUnlocked for kind add_role.                              *)

StartDelivery(p, t) ==
  /\ ClaimExternalDelivery(p, t)
  /\ Begin(p, "waiting", p, t)
  /\ UNCHANGED <<world, lock, tried, crashes, outside>>

TakeLockBlindly(p) ==      \* mutant: does not ask whether the resource is held
  /\ At(p, "waiting", {"none"}) /\ Ready
  /\ lock' = p /\ Go(p, "reading")
  /\ UNCHANGED <<vars, world, tried, crashes, outside>>
TakeLock(p) ==
  /\ At(p, "waiting", {"none"}) /\ Ready
  /\ IF lock = Free
     THEN lock' = p /\ Go(p, "reading") /\ UNCHANGED vars
     ELSE CloseClaim(p, task[p].claim, "released") /\ Stop(p) /\ UNCHANGED lock
  /\ UNCHANGED <<world, tried, crashes, outside>>

WorkerAdds(p) ==
  /\ At(p, "reading", {"off"})
  /\ Go(p, "adding")
  /\ UNCHANGED <<vars, world, lock, tried, crashes, outside>>

\* A settlement that the purchase no longer takes is rolled back with the lock's.
WorkerSettles(p) ==
  /\ At(p, "reading", {"on"}) \/ At(p, "checking", {"on"})
  /\ SettleOrFlag(p, task[p].claim)
  /\ lock' = IF Settleable(p, task[p].claim) THEN Free ELSE Uncertain
  /\ Stop(p)
  /\ UNCHANGED <<world, tried, crashes, outside>>

WorkerGivesUp(p) ==
  /\ At(p, "reading", NoAnswer) \/ At(p, "checking", {"off"})
  /\ CloseClaim(p, task[p].claim, "released")
  /\ lock' = Free
  /\ Stop(p)
  /\ UNCHANGED <<world, tried, crashes, outside>>

WorkerForgets(p) ==        \* mutant: no answer is taken for no effect
  /\ At(p, "checking", NoAnswer)
  /\ CloseClaim(p, task[p].claim, "released")
  /\ lock' = Free
  /\ Stop(p)
  /\ UNCHANGED <<world, tried, crashes, outside>>
WorkerLosesTrack(p) ==
  /\ At(p, "checking", NoAnswer)
  /\ CloseClaim(p, task[p].claim, "uncertain")
  /\ lock' = Uncertain
  /\ Stop(p)
  /\ UNCHANGED <<world, tried, crashes, outside>>

WorkerStep(p) ==
  \/ \E t \in Token : StartDelivery(p, t)
  \/ WorkerAdds(p) \/ WorkerSettles(p) \/ WorkerGivesUp(p) \/ WorkerLosesTrack(p)

-----------------------------------------------------------------------------
(* reconcileTimedAccessRoles.  mark: the patrol called roles.add itself.   *)

Granting == {p \in Purchase : GrantsRole(p, row[p].user, row[p].target)}

\* uniqueGrants keeps the contract with the greatest id to stand for all of them.
PatrolLists(a) ==
  /\ Ready
  /\ \E p \in Granting :
       /\ \A q \in Granting : q <= p
       /\ Begin(a, "probing", p, None)
  /\ UNCHANGED <<vars, world, lock, tried, crashes, outside>>

PatrolPasses(a) ==
  /\ \/ At(a, "probing", NoAnswer \cup {"on"})
     \/ At(a, "probing", {"off"}) /\ lock # Free
  /\ Stop(a)
  /\ UNCHANGED <<vars, world, lock, tried, crashes, outside>>

PatrolLocks(a) ==
  /\ At(a, "probing", {"off"}) /\ lock = Free
  /\ lock' = a
  /\ Go(a, "reading")
  /\ UNCHANGED <<vars, world, tried, crashes, outside>>

PatrolLetsGo(a) ==
  /\ \/ At(a, "reading", NoAnswer)
     \/ At(a, "reading", {"off"}) /\ Granting = {}
     \/ At(a, "undone", {"off"})
  /\ lock' = Free
  /\ Stop(a)
  /\ UNCHANGED <<vars, world, tried, crashes, outside>>

PatrolAdds(a) ==
  /\ At(a, "reading", {"off"}) /\ Granting # {}
  /\ Turn(a, "adding", TRUE, "none")
  /\ UNCHANGED <<vars, world, lock, tried, crashes, outside>>

PatrolSeesRole(a) == At(a, "reading", {"on"}) \/ At(a, "checking", {"on"})

PatrolConfirms(a) ==
  LET p == task[a].on IN
  /\ PatrolSeesRole(a) /\ Granting # {}
  /\ IF Active(p) THEN PatrolDelivered(p, task[a].mark) ELSE UNCHANGED vars
  /\ lock' = Free
  /\ Stop(a)
  /\ UNCHANGED <<world, tried, crashes, outside>>

PatrolUndoes(a) ==
  /\ PatrolSeesRole(a) /\ Granting = {}
  /\ Go(a, "undoing")
  /\ UNCHANGED <<vars, world, lock, tried, crashes, outside>>

\* The catch block.  lock: released if the role was seen missing after the
\* addition or if the patrol itself never called roles.add.
PatrolFails(a) ==
  /\ \/ At(a, "checking", NoAnswer \cup {"off"})
     \/ At(a, "undone", NoAnswer \cup {"on"})
  /\ LateFailure(task[a].on)
  /\ lock' = IF At(a, "checking", {"off"}) \/ ~task[a].mark THEN Free ELSE Uncertain
  /\ Stop(a)
  /\ UNCHANGED <<world, tried, crashes, outside>>

\* roles.remove rejects, with or without effect.
UndoFails(a) ==
  /\ task[a].step = "undoing"
  /\ MayChange(a) /\ unseen' = "remove"
  /\ LateFailure(task[a].on)
  /\ lock' = IF task[a].mark THEN Uncertain ELSE Free
  /\ Stop(a)
  /\ UNCHANGED <<tried, crashes, outside>>

PatrolStep(a) ==
  \/ PatrolLists(a) \/ PatrolPasses(a) \/ PatrolLocks(a) \/ PatrolLetsGo(a)
  \/ PatrolAdds(a) \/ PatrolConfirms(a) \/ PatrolUndoes(a)
  \/ PatrolFails(a) \/ UndoFails(a)

-----------------------------------------------------------------------------
(* convergeExternalDeliveries: no lock, and no look at who owns the claim. *)

ObserveClaim(p, t) ==
  /\ attempt[p][t] \in LiveStates
  /\ Begin(Scheduler, "observing", p, t)
  /\ UNCHANGED <<vars, world, lock, tried, crashes, outside>>

ConvergeClaim ==
  LET p == task[Scheduler].on
      t == task[Scheduler].claim
  IN
  /\ \/ At(Scheduler, "observing", {"on"}) /\ SettleOrFlag(p, t)
     \/ At(Scheduler, "observing", {"off"}) /\ attempt[p][t] \in LiveStates
        /\ ReleaseExternalDelivery(p, t)
     \/ At(Scheduler, "observing", {"off"}) /\ attempt[p][t] \notin LiveStates
        /\ UNCHANGED vars
     \/ At(Scheduler, "observing", NoAnswer) /\ UNCHANGED vars
  /\ Stop(Scheduler)
  /\ UNCHANGED <<world, lock, tried, crashes, outside>>

(* convergeExternalEffectLocks: while the bot runs, uncertain locks only.  *)

RecoverableAtStart(a) ==      \* mutant: nobody looks while the bot runs
  IF a = Startup THEN {Uncertain, Dead} ELSE {}
Recoverable(a) == IF a = Startup THEN {Uncertain, Dead} ELSE {Uncertain}

InspectLock ==
  /\ lock \in Recoverable(Scheduler)
  /\ Ready \/ SlowStart
  /\ Begin(Scheduler, "inspecting", None, None)
  /\ UNCHANGED <<vars, world, lock, tried, crashes, outside>>

RecoverLock(a) ==
  /\ At(a, "inspecting", NoAnswer \cup {"on", "off"})
  /\ lock' = IF task[a].reply \in {"on", "off"} /\ lock \in Recoverable(a) THEN Free ELSE lock
  /\ Stop(a)
  /\ UNCHANGED <<vars, world, tried, crashes, outside>>

-----------------------------------------------------------------------------
(* processShopRoleRevocations.  mark: the contract that still grants the   *)
(* role was proved delivered when the restoration was decided.             *)

Others(p) == {q \in Purchase \ {p} : Active(q)}
Entitlement(p) ==
  IF \E q \in Others(p) : Evidence(q) THEN "delivered"
  ELSE IF Others(p) # {} THEN "unsettled" ELSE "none"

RevocationAtOnce(p) ==
  /\ task[Scheduler] = Idle /\ Ready
  /\ ~tried[p] /\ Entitlement(p) = "delivered"
  /\ FinishRoleRevocation(p, "done")
  /\ UNCHANGED <<world, lock, task, tried, crashes, outside>>

ApproachRole(p) ==
  /\ revocation[p] = "pending" /\ Ready
  /\ tried[p] \/ Entitlement(p) = "none"
  /\ Begin(Scheduler, "approaching", p, None)
  /\ UNCHANGED <<vars, world, lock, tried, crashes, outside>>

RevokerDefers ==
  /\ \/ At(Scheduler, "approaching", {"failed"})
     \/ At(Scheduler, "approaching", {"on", "off"}) /\ lock # Free
  /\ Stop(Scheduler)
  /\ UNCHANGED <<vars, world, lock, tried, crashes, outside>>

MemberAbsent ==
  /\ At(Scheduler, "approaching", {"gone"})
  /\ FinishRoleRevocation(task[Scheduler].on, "done")
  /\ Stop(Scheduler)
  /\ UNCHANGED <<world, lock, tried, crashes, outside>>

\* The turn ends with the lock given back and, in these cases, the row done.
RevokerEnds(done) ==
  /\ IF done THEN FinishRoleRevocation(task[Scheduler].on, "done") ELSE UNCHANGED vars
  /\ lock' = Free
  /\ Stop(Scheduler)
  /\ UNCHANGED tried

RevokerRestores(e) ==
  /\ Turn(Scheduler, "restoring", e = "delivered", "none")
  /\ lock' = Scheduler
  /\ UNCHANGED <<vars, tried>>

RevokerRemovesUnmarked(p) ==      \* mutant: the attempt is not written before the call
  /\ Go(Scheduler, "removing")
  /\ lock' = Scheduler
  /\ UNCHANGED <<vars, tried>>
RevokerRemoves(p) ==
  /\ tried' = [tried EXCEPT ![p] = TRUE]
  /\ Go(Scheduler, "removing")
  /\ lock' = Scheduler
  /\ UNCHANGED vars

\* The lock is taken after the member was read, and the member is not read again.
RevokerDecides ==
  LET p == task[Scheduler].on
      on == task[Scheduler].reply = "on"
      e == Entitlement(p)
  IN
  /\ At(Scheduler, "approaching", {"on", "off"}) /\ lock = Free
  /\ \/ on /\ e # "none"              /\ RevokerEnds(e = "delivered")
     \/ on /\ e = "none"              /\ RevokerRemoves(p)
     \/ ~on /\ tried[p] /\ e # "none" /\ RevokerRestores(e)
     \/ ~on /\ (~tried[p] \/ e = "none") /\ RevokerEnds(TRUE)
  /\ UNCHANGED <<world, crashes, outside>>

RevokerChecks ==
  LET p == task[Scheduler].on
      e == Entitlement(p)
  IN
  /\ \/ At(Scheduler, "removed", {"on"})  /\ RevokerEnds(FALSE)
     \/ At(Scheduler, "removed", {"off"}) /\ e = "none" /\ RevokerEnds(TRUE)
     \/ At(Scheduler, "removed", {"off"}) /\ e # "none" /\ RevokerRestores(e)
     \/ At(Scheduler, "restored", {"off"}) /\ RevokerEnds(FALSE)
     \/ At(Scheduler, "restored", {"on"}) /\ RevokerEnds(task[Scheduler].mark)
  /\ UNCHANGED <<world, crashes, outside>>

RevokerAssumes ==      \* mutant: a removal without an answer is taken for done
  /\ At(Scheduler, "removed", NoAnswer)
  /\ RevokerEnds(TRUE)
  /\ UNCHANGED <<world, crashes, outside>>
RevokerLosesTrack ==
  /\ At(Scheduler, "removed", NoAnswer) \/ At(Scheduler, "restored", NoAnswer)
  /\ lock' = Uncertain
  /\ Stop(Scheduler)
  /\ UNCHANGED <<vars, world, tried, crashes, outside>>

SchedulerGoesOn ==
  \/ ConvergeClaim \/ RecoverLock(Scheduler)
  \/ RevokerDefers \/ MemberAbsent \/ RevokerDecides \/ RevokerChecks \/ RevokerLosesTrack

SchedulerStep ==
  \/ \E p \in Purchase, t \in Token : ObserveClaim(p, t)
  \/ InspectLock
  \/ \E p \in Purchase : RevocationAtOnce(p) \/ ApproachRole(p)
  \/ SchedulerGoesOn

-----------------------------------------------------------------------------
(* Restarts, and what changes the contracts without touching Discord.      *)

\* A call under way when the process dies may still arrive.  The new process starts
\* with the recovery of what the old one left, and everybody else waits for it.
CrashAndRestart ==
  /\ crashes < MaxCrashes
  /\ crashes' = crashes + 1
  /\ lock' = IF lock \in Actor THEN Dead ELSE lock
  /\ task' = [a \in Actor |-> IF a = Startup /\ lock # Free
                              THEN [Idle EXCEPT !.step = "inspecting"] ELSE Idle]
  /\ \/ UNCHANGED world
     \/ \E a \in Actor :
          /\ task[a].step \in CallSteps /\ MayChange(a)
          /\ unseen' = IF Goal(task[a].step) = "on" THEN "add" ELSE "remove"
  /\ UNCHANGED <<vars, tried, outside>>

\* Sales, screens and the sweep, which runs in the scheduler's tick.  Refund
\* retries, stock changes and the backfill do not concern a provable role.
ContractStep ==
  /\ \/ \E p \in Purchase :
          \/ BuyPurchase(p)
          \/ Extend(p)
          \/ task[p] = Idle /\ BeginDelivery(p)
          \/ \E d \in Decision, refund \in BOOLEAN : ResolveOperatorCase(p, d, refund)
     \/ Tick
     \/ task[Scheduler] = Idle /\ ExpireOverdue
  /\ UNCHANGED <<world, lock, task, tried, crashes, outside>>

HandlerStep ==
  \/ \E p \in Worker : WorkerStep(p)
  \/ \E a \in Patrol : PatrolStep(a)
  \/ SchedulerStep
  \/ RecoverLock(Startup)

\* Awaiting an open barrier takes no longer than the turns already due: a worker
\* that waits for nothing goes on before anything else happens.
Calm == \A p \in Worker : task[p].step = "waiting" => ~Ready

DeliveryNext ==
  \/ \E p \in Worker : TakeLock(p)
  \/ /\ Calm
     /\ \/ HandlerStep
        \/ \E a \in Actor : Call(a)
        \/ \E a \in Actor, answer \in {"on", "off", "gone", "failed"} : Answer(a, answer)
        \/ Outside
        \/ CrashAndRestart
        \/ ContractStep

DeliverySpec == DeliveryInit /\ [][DeliveryNext]_dvars

\* Discord ends every request, a handler goes on when it did, the tick comes every
\* minute, and a reading repeated for ever is answered at some time.
FairDeliverySpec ==
  /\ DeliverySpec
  /\ WF_dvars(\E p \in Worker : TakeLock(p))
  /\ \A a \in Actor :
       WF_dvars(Calm /\ (Call(a) \/ \E answer \in {role, "failed"} : Answer(a, answer)))
  /\ WF_dvars(Calm /\ SchedulerGoesOn)
  /\ SF_dvars(Calm /\ InspectLock)
  /\ SF_dvars(Calm /\ task[Scheduler].step = "inspecting" /\ Answer(Scheduler, role))

-----------------------------------------------------------------------------
(* Correctness.                                                            *)

Doing(steps, on, claim, mark) ==
  [step : steps, on : on, claim : claim, mark : mark,
   reply : {"none", "on", "off", "gone", "failed"}]

WorkerTasks(p) ==
  Doing({"waiting", "reading", "adding", "checking"}, {p}, Token, {FALSE})
PatrolTasks ==
  Doing({"probing", "reading", "adding", "checking", "undoing", "undone"},
        Purchase, {None}, BOOLEAN)
ClaimTasks == Doing({"observing"}, Purchase, Token, {FALSE})
LockTasks == Doing({"inspecting"}, {None}, {None}, {FALSE})
RevokerTasks ==
  Doing({"approaching", "removing", "removed", "restoring", "restored"},
        Purchase, {None}, BOOLEAN)

\* What each actor may be doing: the worker of a purchase with its own claim, the
\* scheduler with a claim, the lock or a revocation, one after the other.
TaskOf(a) ==
  {Idle} \cup IF a \in Worker THEN WorkerTasks(a)
              ELSE IF a \in Patrol THEN PatrolTasks
              ELSE IF a = Scheduler THEN ClaimTasks \cup LockTasks \cup RevokerTasks
              ELSE LockTasks

\* Every actor is at a step of its own handler, for a purchase and a claim that exist.
DeliveryTypeOK ==
  /\ role \in {"on", "off", "gone"}
  /\ lock \in Actor \cup {Free, Uncertain, Dead}
  /\ task = [a \in Actor |-> task[a]] /\ \A a \in Actor : task[a] \in TaskOf(a)
  /\ tried \in [Purchase -> BOOLEAN]
  /\ unseen \in {"nothing", "add", "remove"}
  /\ taker \in Purchase \cup {None}
  /\ crashes \in Nat /\ outside \in Nat

HoldsRole(a) == task[a].step \in CallSteps \cup OwnReads

\* Whoever calls roles.add or roles.remove, or decides on what it then saw, holds the
\* lock of the resource: no two handlers have a hand on one role at once, also not
\* the restored process and what is left of the old one (Task #214).
OneHandOnTheRole == \A a \in Actor : HoldsRole(a) => lock = a

\* An addition that nobody could verify keeps the lock live, through failed reads,
\* restarts and recovery, so that it is not thrown again over its own outcome.
UnknownAdditionStaysLocked == unseen = "add" => lock # Free

\* A revocation is closed only when the role is off the buyer, or when another
\* contract of the same role is running.  It can be overtaken: by a contract that is
\* paid back after the patrol served it, and by a member who leaves and comes back, for
\* whom a worker is still adding the role: an absent member's row is closed without a
\* look at the lock (scheduler-recovery.ts:674-676).  Both need more than the run's
\* bounds allow; RevocationEndsUnlessOvertaken of ShopDelivery_proofs names them.
RevocationEndsTheRight ==
  [][\A p \in Purchase :
       revocation[p] = "pending" /\ revocation'[p] = "done" => role # "on" \/ Others(p) # {}]_dvars

\* A revocation that itself took the role off is closed only when no other contract of
\* the role is running: if one appeared meanwhile, or before the restart, it first
\* gives the role back.
RevocationGivesBack ==
  [][\A p \in Purchase :
       /\ revocation[p] = "pending" /\ revocation'[p] = "done"
       /\ role = "off" /\ taker = p
       => Others(p) = {}]_dvars

\* Both together: a revocation is closed only over the role it was decided for.
RevocationIsSound == RevocationGivesBack /\ RevocationEndsTheRight

\* A lock left uncertain does not block the resource for ever while the bot runs,
\* unless the buyer has left: of a member who is not there the recovery learns
\* nothing and leaves the lock to people (scheduler-recovery.ts:534-535).
UncertaintyIsResolved ==
  lock = Uncertain ~> (lock # Uncertain \/ role = "gone")

-----------------------------------------------------------------------------
(* What comments and documents say and the code does not do.               *)

\* docs/shop-state-model.md: no proof of delivery is written while a claim is live.
NoEvidenceUnderAClaim == \A p \in Purchase : Live(p) => ~Evidence(p)

\* shop-delivery.ts: while the claim is held neither a refund nor an expiry passes.
ClaimCoversTheCall ==
  \A p \in Purchase : task[p].step \in CallSteps \cup OwnReads => Live(p)

\* timed-access.ts: the patrol takes a role off after making sure that no other
\* contract is running.
PatrolSparesOtherContracts ==
  [][\A a \in Patrol : PatrolUndoes(a) =>
       ~ \E q \in Purchase : Active(q) /\ Evidence(q) /\ expiresAt[q] = 0]_dvars

\* timed-access.ts: once a call was thrown and its outcome is unknown, the lock stays.
UnknownRemovalStaysLocked == unseen = "remove" => lock # Free
=============================================================================
