------------------------- MODULE ShopDelivery_proofs -------------------------
(***************************************************************************)
(* Proofs about ShopDelivery, for any number of contracts, claims, patrols *)
(* and restarts: every handler keeps to its own steps, only the holder of  *)
(* the lock has a hand on the role, and all handlers together implement    *)
(* ShopContract, so that its theorems hold of the running bot.  Then what  *)
(* the lock and the revocation worker know of the role.                    *)
(***************************************************************************)
EXTENDS ShopDelivery, ShopContract_proofs

\* The names of the actors and of the lock's states are told apart.
LEMMA Names ==
  /\ Scheduler \in Actor /\ Startup \in Actor /\ Scheduler # Startup
  /\ Scheduler \notin Worker /\ Scheduler \notin Patrol
  /\ Startup \notin Worker /\ Startup \notin Patrol
  /\ \A a \in Patrol : a \in Actor /\ a \notin Worker
  /\ \A p \in Worker : p \in Actor /\ p \in Purchase
  /\ Free \notin Actor /\ Uncertain \notin Actor /\ Dead \notin Actor
  /\ Free # Uncertain /\ Free # Dead /\ Uncertain # Dead
  /\ None \notin Purchase /\ None \notin Token
BY DeliveryAssumption DEF DeliveryAssumption, Actor, Worker

\* What an actor is doing, by its kind.
LEMMA Tasks ==
  /\ \A p \in Worker : TaskOf(p) = {Idle} \cup WorkerTasks(p)
  /\ \A a \in Patrol : TaskOf(a) = {Idle} \cup PatrolTasks
  /\ TaskOf(Scheduler) = {Idle} \cup (ClaimTasks \cup LockTasks \cup RevokerTasks)
  /\ TaskOf(Startup) = {Idle} \cup LockTasks
<1>1. \A p \in Worker : TaskOf(p) = {Idle} \cup WorkerTasks(p)
  BY DEF TaskOf
<1>2. \A a \in Patrol : TaskOf(a) = {Idle} \cup PatrolTasks
  BY Names DEF TaskOf
<1>3. TaskOf(Scheduler) = {Idle} \cup (ClaimTasks \cup LockTasks \cup RevokerTasks)
  BY Names DEF TaskOf
<1>4. TaskOf(Startup) = {Idle} \cup LockTasks
  BY Names DEF TaskOf
<1> QED
  BY <1>1, <1>2, <1>3, <1>4

TaskTyped == task = [a \in Actor |-> task[a]] /\ \A a \in Actor : task[a] \in TaskOf(a)

\* One actor that goes on within its handler leaves every task well typed.
LEMMA TaskChange ==
  ASSUME TaskTyped, NEW x \in Actor, NEW v \in TaskOf(x), task' = [task EXCEPT ![x] = v]
  PROVE  TaskTyped' /\ task'[x] = v /\ \A a \in Actor : a # x => task'[a] = task[a]
<1>1. task'[x] = v /\ \A a \in Actor : a # x => task'[a] = task[a]
  BY DEF TaskTyped
<1>2. \A a \in Actor : task'[a] \in TaskOf(a)
  BY <1>1 DEF TaskTyped
<1>3. task' = [a \in Actor |-> task'[a]]
  BY DEF TaskTyped
<1> QED
  BY <1>1, <1>2, <1>3 DEF TaskTyped

Hands == CallSteps \cup OwnReads

\* One actor moves, and touches no lock but its own, a free one or a dead one.
LEMMA OneActorMoves ==
  ASSUME DeliveryTypeOK, OneHandOnTheRole,
         NEW x \in Actor, NEW v \in TaskOf(x), task' = [task EXCEPT ![x] = v],
         lock' = lock \/ lock = x \/ lock \notin Actor,
         lock' \in Actor \cup {Free, Uncertain, Dead},
         v.step \in Hands => lock' = x,
         tried' \in [Purchase -> BOOLEAN],
         role' \in {"on", "off", "gone"}, unseen' \in {"nothing", "add", "remove"},
         taker' \in Purchase \cup {None}, UNCHANGED <<crashes, outside>>
  PROVE  DeliveryTypeOK' /\ OneHandOnTheRole'
<1>1. TaskTyped
  BY DEF DeliveryTypeOK, TaskTyped
<1>2. TaskTyped' /\ task'[x] = v /\ \A a \in Actor : a # x => task'[a] = task[a]
  BY <1>1, TaskChange
<1>3. DeliveryTypeOK'
  BY <1>2 DEF DeliveryTypeOK, TaskTyped
<1>4. ASSUME NEW a \in Actor, HoldsRole(a)' PROVE lock' = a
  <2>1. CASE a = x
    BY <1>2, <1>4, <2>1 DEF HoldsRole, Hands
  <2>2. CASE a # x
    <3>1. HoldsRole(a)
      BY <1>2, <1>4, <2>2 DEF HoldsRole
    <3>2. lock = a
      BY <3>1 DEF OneHandOnTheRole
    <3> QED
      BY <2>2, <3>2
  <2> QED
    BY <2>1, <2>2
<1> QED
  BY <1>3, <1>4 DEF OneHandOnTheRole

\* A turn of a worker keeps its task typed and its hand under its lock.
LEMMA WorkerMoves ==
  ASSUME DeliveryTypeOK, OneHandOnTheRole, NEW p \in Worker, WorkerStep(p) \/ TakeLock(p)
  PROVE  DeliveryTypeOK' /\ OneHandOnTheRole'
<1> USE DEF Hands, CallSteps, OwnReads
<1>1. TaskTyped /\ p \in Actor /\ task[p] \in {Idle} \cup WorkerTasks(p)
  BY Names, Tasks DEF DeliveryTypeOK, TaskTyped
<1>2. /\ role \in {"on", "off", "gone"} /\ tried \in [Purchase -> BOOLEAN]
      /\ unseen \in {"nothing", "add", "remove"} /\ taker \in Purchase \cup {None}
      /\ lock \in Actor \cup {Free, Uncertain, Dead}
  BY DEF DeliveryTypeOK
<1>3. Idle \in TaskOf(p)
  BY DEF TaskOf
<1>4. HoldsRole(p) => lock = p
  BY <1>1 DEF OneHandOnTheRole
<1>5. ASSUME NEW t \in Token, StartDelivery(p, t) PROVE DeliveryTypeOK' /\ OneHandOnTheRole'
  <2> DEFINE v == [step |-> "waiting", on |-> p, claim |-> t, mark |-> FALSE, reply |-> "none"]
  <2>1. task' = [task EXCEPT ![p] = v]
    BY <1>5 DEF StartDelivery, Begin
  <2>2. v \in TaskOf(p)
    BY Tasks DEF WorkerTasks, Doing
  <2> QED
    BY <1>1, <1>2, <1>5, <2>1, <2>2, OneActorMoves DEF StartDelivery, world
<1>6. CASE TakeLock(p)
  <2>1. CASE lock = Free
    <3> DEFINE v == [step |-> "reading", on |-> task[p].on, claim |-> task[p].claim,
                     mark |-> task[p].mark, reply |-> "none"]
    <3>1. task' = [task EXCEPT ![p] = v] /\ lock' = p
      BY <1>6, <2>1 DEF TakeLock, Go, Turn
    <3>2. task[p] \in WorkerTasks(p)
      BY <1>1, <1>6 DEF TakeLock, At, Idle
    <3>3. v \in TaskOf(p)
      BY <3>2, Tasks DEF WorkerTasks, Doing
    <3> QED
      BY <1>1, <1>2, <1>6, <2>1, <3>1, <3>3, Names, OneActorMoves DEF TakeLock, world
  <2>2. CASE lock # Free
    <3>1. task' = [task EXCEPT ![p] = Idle] /\ lock' = lock
      BY <1>6, <2>2 DEF TakeLock, Stop
    <3> QED
      BY <1>1, <1>2, <1>3, <1>6, <3>1, OneActorMoves DEF TakeLock, world, Idle
  <2> QED
    BY <2>1, <2>2
<1>7. CASE WorkerAdds(p)
  <2> DEFINE v == [step |-> "adding", on |-> task[p].on, claim |-> task[p].claim,
                   mark |-> task[p].mark, reply |-> "none"]
  <2>1. task' = [task EXCEPT ![p] = v] /\ lock' = lock
    BY <1>7 DEF WorkerAdds, Go, Turn
  <2>2. task[p] \in WorkerTasks(p) /\ HoldsRole(p)
    BY <1>1, <1>7 DEF WorkerAdds, At, Idle, HoldsRole
  <2>3. v \in TaskOf(p)
    BY <2>2, Tasks DEF WorkerTasks, Doing
  <2> QED
    BY <1>1, <1>2, <1>4, <1>7, <2>1, <2>2, <2>3, OneActorMoves DEF WorkerAdds, world
<1>8. CASE WorkerSettles(p) \/ WorkerGivesUp(p) \/ WorkerLosesTrack(p)
  <2>1. /\ task' = [task EXCEPT ![p] = Idle]
        /\ lock' \in {Free, Uncertain}
        /\ UNCHANGED <<world, tried, crashes, outside>>
    BY <1>8 DEF WorkerSettles, WorkerGivesUp, WorkerLosesTrack, Stop
  <2>2. lock = p
    BY <1>4, <1>8 DEF WorkerSettles, WorkerGivesUp, WorkerLosesTrack, At, HoldsRole
  <2> QED
    BY <1>1, <1>2, <1>3, <2>1, <2>2, OneActorMoves DEF world, Idle
<1> QED
  BY <1>5, <1>6, <1>7, <1>8 DEF WorkerStep

\* What a handler's call can do to Discord.
LEMMA CallTyped ==
  ASSUME DeliveryTypeOK, NEW a \in Actor, MayChange(a)
  PROVE  role' \in {"on", "off", "gone"} /\ taker' \in Purchase \cup {None}
<1>1. task[a] \in TaskOf(a)
  BY DEF DeliveryTypeOK
<1>2. task[a].on \in Purchase \cup {None}
  <2>1. CASE task[a] = Idle
    BY <2>1 DEF Idle
  <2>2. ASSUME NEW p \in Worker, task[a] \in WorkerTasks(p) PROVE task[a].on \in Purchase
    BY <2>2 DEF WorkerTasks, Doing, Worker
  <2>3. CASE task[a] \in PatrolTasks \cup ClaimTasks \cup RevokerTasks
    BY <2>3 DEF PatrolTasks, ClaimTasks, RevokerTasks, Doing
  <2>4. CASE task[a] \in LockTasks
    BY <2>4 DEF LockTasks, Doing
  <2> QED
    BY <1>1, <2>1, <2>2, <2>3, <2>4 DEF TaskOf
<1>3. CASE UNCHANGED <<role, taker>>
  BY <1>3 DEF DeliveryTypeOK
<1>4. CASE ~UNCHANGED <<role, taker>>
  <2>1. role' = Goal(task[a].step)
    BY <1>4 DEF MayChange
  <2>2. taker' = IF task[a].step = "removing" THEN task[a].on ELSE None
    BY <1>4 DEF MayChange
  <2> QED
    BY <1>2, <2>1, <2>2 DEF Goal
<1> QED
  BY <1>3, <1>4

\* A turn of a patrol.
LEMMA PatrolMoves ==
  ASSUME DeliveryTypeOK, OneHandOnTheRole, NEW a \in Patrol, PatrolStep(a)
  PROVE  DeliveryTypeOK' /\ OneHandOnTheRole'
<1> USE DEF Hands, CallSteps, OwnReads
<1>1. TaskTyped /\ a \in Actor /\ task[a] \in {Idle} \cup PatrolTasks
  BY Names, Tasks DEF DeliveryTypeOK, TaskTyped
<1>2. /\ role \in {"on", "off", "gone"} /\ tried \in [Purchase -> BOOLEAN]
      /\ unseen \in {"nothing", "add", "remove"} /\ taker \in Purchase \cup {None}
      /\ lock \in Actor \cup {Free, Uncertain, Dead}
  BY DEF DeliveryTypeOK
<1>3. Idle \in TaskOf(a)
  BY DEF TaskOf
<1>4. HoldsRole(a) => lock = a
  BY <1>1 DEF OneHandOnTheRole
<1>5. CASE PatrolLists(a)
  <2>1. PICK p \in Granting : Begin(a, "probing", p, None)
    BY <1>5 DEF PatrolLists
  <2> DEFINE v == [step |-> "probing", on |-> p, claim |-> None, mark |-> FALSE, reply |-> "none"]
  <2>2. v \in TaskOf(a)
    BY Tasks DEF PatrolTasks, Doing, Granting
  <2> QED
    BY <1>1, <1>2, <1>5, <2>1, <2>2, OneActorMoves DEF PatrolLists, Begin, world
<1>6. CASE PatrolPasses(a)
  BY <1>1, <1>2, <1>3, <1>6, OneActorMoves DEF PatrolPasses, Stop, Idle, world
<1>7. CASE PatrolLocks(a)
  <2> DEFINE v == [step |-> "reading", on |-> task[a].on, claim |-> task[a].claim,
                   mark |-> task[a].mark, reply |-> "none"]
  <2>1. task' = [task EXCEPT ![a] = v] /\ lock = Free /\ lock' = a
    BY <1>7 DEF PatrolLocks, Go, Turn
  <2>2. task[a] \in PatrolTasks
    BY <1>1, <1>7 DEF PatrolLocks, At, Idle
  <2>3. v \in TaskOf(a)
    BY <2>2, Tasks DEF PatrolTasks, Doing
  <2> QED
    BY <1>1, <1>2, <1>7, <2>1, <2>3, Names, OneActorMoves DEF PatrolLocks, world
<1>8. CASE PatrolAdds(a) \/ PatrolUndoes(a)
  <2>1. PICK s \in {"adding", "undoing"}, m \in BOOLEAN : Turn(a, s, m, "none")
    <3>1. CASE PatrolAdds(a)
      BY <3>1 DEF PatrolAdds
    <3>2. CASE PatrolUndoes(a)
      <4>1. task[a] \in PatrolTasks
        BY <1>1, <3>2 DEF PatrolUndoes, PatrolSeesRole, At, Idle
      <4>2. task[a].mark \in BOOLEAN
        BY <4>1 DEF PatrolTasks, Doing
      <4> QED
        BY <3>2, <4>2 DEF PatrolUndoes, Go
    <3> QED
      BY <1>8, <3>1, <3>2
  <2> DEFINE v == [step |-> s, on |-> task[a].on, claim |-> task[a].claim,
                   mark |-> m, reply |-> "none"]
  <2>5. task[a].step \in {"reading", "checking"} /\ lock' = lock
    BY <1>8 DEF PatrolAdds, PatrolUndoes, PatrolSeesRole, At
  <2>2. task[a] \in PatrolTasks /\ lock = a /\ lock' = lock
    BY <1>1, <1>4, <2>5 DEF Idle, HoldsRole
  <2>3. v \in TaskOf(a)
    BY <2>2, Tasks DEF PatrolTasks, Doing
  <2>4. task' = [task EXCEPT ![a] = v] /\ UNCHANGED <<world, tried, crashes, outside>>
    BY <1>8, <2>1 DEF PatrolAdds, PatrolUndoes, Turn
  <2> QED
    BY <1>1, <1>2, <2>2, <2>3, <2>4, OneActorMoves DEF world
<1>9. CASE PatrolLetsGo(a) \/ PatrolConfirms(a) \/ PatrolFails(a)
  <2>1. /\ task' = [task EXCEPT ![a] = Idle]
        /\ lock' \in {Free, Uncertain}
        /\ UNCHANGED <<world, tried, crashes, outside>>
    BY <1>9 DEF PatrolLetsGo, PatrolConfirms, PatrolFails, Stop
  <2>2. lock = a
    BY <1>4, <1>9 DEF PatrolLetsGo, PatrolConfirms, PatrolFails, PatrolSeesRole, At, HoldsRole
  <2> QED
    BY <1>1, <1>2, <1>3, <2>1, <2>2, OneActorMoves DEF world, Idle
<1>10. CASE UndoFails(a)
  <2>1. /\ task' = [task EXCEPT ![a] = Idle]
        /\ lock' \in {Free, Uncertain} /\ unseen' = "remove"
        /\ UNCHANGED <<tried, crashes, outside>>
    BY <1>10 DEF UndoFails, Stop
  <2>2. lock = a
    BY <1>4, <1>10 DEF UndoFails, HoldsRole
  <2>3. role' \in {"on", "off", "gone"} /\ taker' \in Purchase \cup {None}
    BY <1>1, <1>10, CallTyped DEF UndoFails
  <2> QED
    BY <1>1, <1>2, <1>3, <2>1, <2>2, <2>3, OneActorMoves DEF Idle
<1> QED
  BY <1>5, <1>6, <1>7, <1>8, <1>9, <1>10 DEF PatrolStep

\* Recovery gives back a lock that no living actor holds.
LEMMA RecoveryMoves ==
  ASSUME DeliveryTypeOK, OneHandOnTheRole, NEW a \in {Scheduler, Startup}, RecoverLock(a)
  PROVE  DeliveryTypeOK' /\ OneHandOnTheRole'
<1>1. a \in Actor /\ Idle \in TaskOf(a)
  BY Names DEF TaskOf
<1>2. task' = [task EXCEPT ![a] = Idle] /\ UNCHANGED <<world, tried, crashes, outside>>
  BY DEF RecoverLock, Stop
<1>3. lock' = lock \/ (lock \in {Uncertain, Dead} /\ lock' = Free)
  BY DEF RecoverLock, Recoverable
<1>4. lock' \in Actor \cup {Free, Uncertain, Dead} /\ (lock' = lock \/ lock \notin Actor)
  BY <1>3, Names DEF DeliveryTypeOK
<1>5. Idle.step \notin Hands
  BY DEF Idle, Hands, CallSteps, OwnReads
<1>6. /\ role' \in {"on", "off", "gone"} /\ tried' \in [Purchase -> BOOLEAN]
      /\ unseen' \in {"nothing", "add", "remove"} /\ taker' \in Purchase \cup {None}
  BY <1>2 DEF DeliveryTypeOK, world
<1> QED
  BY <1>1, <1>2, <1>4, <1>5, <1>6, OneActorMoves

\* The step tells which of its three jobs the scheduler is at.
LEMMA SchedulerJobs ==
  ASSUME DeliveryTypeOK
  PROVE  /\ task[Scheduler].step = "observing" => task[Scheduler] \in ClaimTasks
         /\ task[Scheduler].step \in {"approaching", "removed", "restored"} =>
              task[Scheduler] \in RevokerTasks
<1>1. task[Scheduler] \in {Idle} \cup (ClaimTasks \cup LockTasks \cup RevokerTasks)
  BY Names, Tasks DEF DeliveryTypeOK
<1>2. task[Scheduler] = Idle => task[Scheduler].step = "idle"
  BY DEF Idle
<1>3. task[Scheduler] \in LockTasks => task[Scheduler].step = "inspecting"
  BY DEF LockTasks, Doing
<1>4. task[Scheduler] \in ClaimTasks => task[Scheduler].step = "observing"
  BY DEF ClaimTasks, Doing
<1>5. task[Scheduler] \in RevokerTasks =>
        task[Scheduler].step \in {"approaching", "removing", "removed", "restoring", "restored"}
  BY DEF RevokerTasks, Doing
<1> QED
  BY <1>1, <1>2, <1>3, <1>4, <1>5

\* A turn of the scheduler's tick.
LEMMA SchedulerMoves ==
  ASSUME DeliveryTypeOK, OneHandOnTheRole, SchedulerStep
  PROVE  DeliveryTypeOK' /\ OneHandOnTheRole'
<1> DEFINE a == Scheduler
<1> USE DEF Hands, CallSteps, OwnReads
<1>1. TaskTyped /\ a \in Actor
      /\ task[a] \in {Idle} \cup (ClaimTasks \cup LockTasks \cup RevokerTasks)
  BY Names, Tasks DEF DeliveryTypeOK, TaskTyped
<1>2. /\ role \in {"on", "off", "gone"} /\ tried \in [Purchase -> BOOLEAN]
      /\ unseen \in {"nothing", "add", "remove"} /\ taker \in Purchase \cup {None}
      /\ lock \in Actor \cup {Free, Uncertain, Dead}
  BY DEF DeliveryTypeOK
<1>3. Idle \in TaskOf(a)
  BY DEF TaskOf
<1>4. HoldsRole(a) => lock = a
  BY <1>1 DEF OneHandOnTheRole
<1>5. ASSUME NEW p \in Purchase, NEW t \in Token, ObserveClaim(p, t)
      PROVE  DeliveryTypeOK' /\ OneHandOnTheRole'
  <2> DEFINE v == [step |-> "observing", on |-> p, claim |-> t, mark |-> FALSE, reply |-> "none"]
  <2>1. v \in TaskOf(a)
    BY Tasks DEF ClaimTasks, Doing
  <2> QED
    BY <1>1, <1>2, <1>5, <2>1, OneActorMoves DEF ObserveClaim, Begin, world
<1>6. CASE InspectLock
  <2> DEFINE v == [step |-> "inspecting", on |-> None, claim |-> None, mark |-> FALSE,
                   reply |-> "none"]
  <2>1. v \in TaskOf(a)
    BY Tasks DEF LockTasks, Doing
  <2> QED
    BY <1>1, <1>2, <1>6, <2>1, OneActorMoves DEF InspectLock, Begin, world
<1>7. ASSUME NEW p \in Purchase, ApproachRole(p)
      PROVE  DeliveryTypeOK' /\ OneHandOnTheRole'
  <2> DEFINE v == [step |-> "approaching", on |-> p, claim |-> None, mark |-> FALSE,
                   reply |-> "none"]
  <2>1. v \in TaskOf(a)
    BY Tasks DEF RevokerTasks, Doing
  <2> QED
    BY <1>1, <1>2, <1>7, <2>1, OneActorMoves DEF ApproachRole, Begin, world
<1>8. ASSUME NEW p \in Purchase, RevocationAtOnce(p)
      PROVE  DeliveryTypeOK' /\ OneHandOnTheRole'
  BY <1>8 DEF RevocationAtOnce, DeliveryTypeOK, OneHandOnTheRole, HoldsRole, world
<1>9. CASE ConvergeClaim \/ RevokerDefers \/ MemberAbsent
  <2>1. /\ task' = [task EXCEPT ![a] = Idle] /\ lock' = lock
        /\ UNCHANGED <<world, tried, crashes, outside>>
    BY <1>9 DEF ConvergeClaim, RevokerDefers, MemberAbsent, Stop
  <2> QED
    BY <1>1, <1>2, <1>3, <2>1, OneActorMoves DEF world, Idle
<1>10. CASE RecoverLock(Scheduler)
  BY <1>10, RecoveryMoves
<1>11. ASSUME lock \in {Free, Scheduler}, UNCHANGED <<world, crashes, outside>>,
              NEW d, RevokerEnds(d)
       PROVE  DeliveryTypeOK' /\ OneHandOnTheRole'
  BY <1>1, <1>2, <1>3, <1>11, Names, OneActorMoves DEF RevokerEnds, Stop, world, Idle
<1>12. ASSUME lock \in {Free, Scheduler}, UNCHANGED <<world, crashes, outside>>,
              task[a] \in RevokerTasks,
              \/ \E e : RevokerRestores(e)
              \/ RevokerRemoves(task[a].on)
       PROVE  DeliveryTypeOK' /\ OneHandOnTheRole'
  <2>1. PICK s \in {"restoring", "removing"}, m \in BOOLEAN : Turn(a, s, m, "none")
    <3>1. task[a].mark \in BOOLEAN
      BY <1>12 DEF RevokerTasks, Doing
    <3>2. CASE RevokerRemoves(task[a].on)
      BY <3>1, <3>2 DEF RevokerRemoves, Go
    <3>3. ASSUME NEW e, RevokerRestores(e)
          PROVE  Turn(a, "restoring", e = "delivered", "none") /\ (e = "delivered") \in BOOLEAN
      BY <3>3 DEF RevokerRestores
    <3> QED
      BY <1>12, <3>2, <3>3
  <2> DEFINE v == [step |-> s, on |-> task[a].on, claim |-> task[a].claim,
                   mark |-> m, reply |-> "none"]
  <2>2. v \in TaskOf(a) /\ task[a].on \in Purchase
    BY <1>12, Tasks DEF RevokerTasks, Doing
  <2>3. task' = [task EXCEPT ![a] = v]
    BY <2>1 DEF Turn
  <2>4. tried' \in [Purchase -> BOOLEAN] /\ lock' = Scheduler
    BY <1>2, <1>12, <2>2 DEF RevokerRemoves, RevokerRestores
  <2> QED
    BY <1>1, <1>2, <1>12, <2>2, <2>3, <2>4, Names, OneActorMoves DEF world
<1>13. CASE RevokerDecides
  <2>1. lock = Free /\ UNCHANGED <<world, crashes, outside>> /\ task[a] \in RevokerTasks
    BY <1>13, SchedulerJobs DEF RevokerDecides, At
  <2> QED
    BY <1>11, <1>12, <1>13, <2>1 DEF RevokerDecides
<1>14. CASE RevokerChecks
  <2>1. task[a] \in RevokerTasks /\ UNCHANGED <<world, crashes, outside>>
    BY <1>14, SchedulerJobs DEF RevokerChecks, At
  <2>2. lock = Scheduler
    BY <1>4, <1>14 DEF RevokerChecks, At, HoldsRole
  <2> QED
    BY <1>11, <1>12, <1>14, <2>1, <2>2 DEF RevokerChecks
<1>15. CASE RevokerLosesTrack
  <2>1. lock = a
    BY <1>4, <1>15 DEF RevokerLosesTrack, At, HoldsRole
  <2> QED
    BY <1>1, <1>2, <1>3, <1>15, <2>1, OneActorMoves DEF RevokerLosesTrack, Stop, world, Idle
<1> QED
  BY <1>5, <1>6, <1>7, <1>8, <1>9, <1>10, <1>13, <1>14, <1>15 DEF SchedulerStep, SchedulerGoesOn

\* A request or an answer leaves its handler the way the handler is.
LEMMA SameHandler ==
  ASSUME NEW a \in Actor, task[a] \in TaskOf(a),
         NEW s, NEW r \in {"none", "on", "off", "gone", "failed"},
         \/ task[a].step \in CallSteps /\ s = AfterCall(task[a].step)
         \/ task[a].step \in OwnReads \cup OpenReads /\ s = task[a].step
  PROVE  [step |-> s, on |-> task[a].on, claim |-> task[a].claim,
          mark |-> task[a].mark, reply |-> r] \in TaskOf(a)
<1> DEFINE v == [step |-> s, on |-> task[a].on, claim |-> task[a].claim,
                 mark |-> task[a].mark, reply |-> r]
<1> USE DEF CallSteps, OwnReads, OpenReads, AfterCall, Doing
<1>1. task[a] # Idle
  BY DEF Idle
<1>2. ASSUME NEW p \in Worker, task[a] \in WorkerTasks(p) PROVE v \in WorkerTasks(p)
  BY <1>2 DEF WorkerTasks
<1>3. CASE task[a] \in PatrolTasks /\ a \in Patrol
  <2>1. v \in PatrolTasks
    BY <1>3 DEF PatrolTasks
  <2> QED
    BY <1>3, <2>1, Tasks
<1>4. task[a] \in ClaimTasks => v \in ClaimTasks
  BY DEF ClaimTasks
<1>5. task[a] \in LockTasks => v \in LockTasks
  BY DEF LockTasks
<1>6. task[a] \in RevokerTasks => v \in RevokerTasks
  BY DEF RevokerTasks
<1> QED
  BY <1>1, <1>2, <1>3, <1>4, <1>5, <1>6, Tasks DEF TaskOf

\* What Discord and the people on it do.
LEMMA DiscordMoves ==
  ASSUME DeliveryTypeOK, OneHandOnTheRole,
         \/ \E a \in Actor : Call(a)
         \/ \E a \in Actor, answer \in {"on", "off", "gone", "failed"} : Answer(a, answer)
         \/ Outside
  PROVE  DeliveryTypeOK' /\ OneHandOnTheRole'
<1>1. /\ role \in {"on", "off", "gone"} /\ tried \in [Purchase -> BOOLEAN]
      /\ unseen \in {"nothing", "add", "remove"} /\ taker \in Purchase \cup {None}
      /\ lock \in Actor \cup {Free, Uncertain, Dead}
      /\ \A a \in Actor : task[a] \in TaskOf(a)
  BY DEF DeliveryTypeOK
<1>2. ASSUME NEW a \in Actor, Call(a) PROVE DeliveryTypeOK' /\ OneHandOnTheRole'
  <2> DEFINE v == [step |-> AfterCall(task[a].step), on |-> task[a].on,
                   claim |-> task[a].claim, mark |-> task[a].mark, reply |-> "none"]
  <2>1. task' = [task EXCEPT ![a] = v] /\ UNCHANGED <<lock, tried, crashes, outside>>
    BY <1>2 DEF Call, Go, Turn
  <2>2. v \in TaskOf(a)
    BY <1>1, <1>2, SameHandler DEF Call
  <2>3. lock = a
    BY <1>2 DEF Call, OneHandOnTheRole, HoldsRole
  <2>4. role' \in {"on", "off", "gone"} /\ taker' \in Purchase \cup {None}
    BY <1>2, CallTyped DEF Call
  <2>5. unseen' \in {"nothing", "add", "remove"}
    BY <1>2 DEF Call
  <2> QED
    BY <1>1, <2>1, <2>2, <2>3, <2>4, <2>5, OneActorMoves
<1>3. ASSUME NEW a \in Actor, NEW answer \in {"on", "off", "gone", "failed"},
             Answer(a, answer)
      PROVE  DeliveryTypeOK' /\ OneHandOnTheRole'
  <2> DEFINE v == [step |-> task[a].step, on |-> task[a].on,
                   claim |-> task[a].claim, mark |-> task[a].mark, reply |-> answer]
  <2>1. task' = [task EXCEPT ![a] = v]
        /\ UNCHANGED <<role, taker, lock, tried, crashes, outside>>
    BY <1>3 DEF Answer, Turn
  <2>2. v \in TaskOf(a)
    BY <1>1, <1>3, SameHandler DEF Answer
  <2>3. v.step \in Hands => lock' = a
    BY <2>1 DEF OneHandOnTheRole, HoldsRole, Hands
  <2>4. unseen' \in {"nothing", "add", "remove"}
    BY <1>1, <1>3 DEF Answer
  <2> QED
    BY <1>1, <2>1, <2>2, <2>3, <2>4, OneActorMoves
<1>4. CASE Outside
  <2>1. role' \in {"on", "off", "gone"} /\ outside' \in Nat
    BY <1>4 DEF Outside, DeliveryTypeOK
  <2> QED
    BY <1>4, <2>1 DEF Outside, DeliveryTypeOK, OneHandOnTheRole, HoldsRole
<1> QED
  BY <1>2, <1>3, <1>4

\* A restart leaves nobody with a hand on the role: what the old process held is dead.
LEMMA RestartMoves ==
  ASSUME DeliveryTypeOK, OneHandOnTheRole, CrashAndRestart
  PROVE  DeliveryTypeOK' /\ OneHandOnTheRole'
<1> DEFINE begun == [Idle EXCEPT !.step = "inspecting"]
<1>1. task' = [a \in Actor |-> IF a = Startup /\ lock # Free THEN begun ELSE Idle]
  BY DEF CrashAndRestart
<1>2. begun \in TaskOf(Startup)
  BY Tasks DEF LockTasks, Doing, Idle
<1>3. \A a \in Actor : task'[a] \in TaskOf(a) /\ task'[a].step \in {"idle", "inspecting"}
  <2>1. TAKE a \in Actor
  <2>2. CASE a = Startup /\ lock # Free
    BY <1>1, <1>2, <2>2 DEF Idle
  <2>3. CASE ~(a = Startup /\ lock # Free)
    BY <1>1, <2>3 DEF TaskOf, Idle
  <2> QED
    BY <2>2, <2>3
<1>4. OneHandOnTheRole'
  BY <1>3 DEF OneHandOnTheRole, HoldsRole, CallSteps, OwnReads
<1>5. role' \in {"on", "off", "gone"} /\ taker' \in Purchase \cup {None}
      /\ unseen' \in {"nothing", "add", "remove"}
  <2>1. CASE UNCHANGED world
    BY <2>1 DEF world, DeliveryTypeOK
  <2>2. ASSUME NEW a \in Actor, MayChange(a),
               unseen' = IF Goal(task[a].step) = "on" THEN "add" ELSE "remove"
        PROVE  /\ role' \in {"on", "off", "gone"} /\ taker' \in Purchase \cup {None}
               /\ unseen' \in {"nothing", "add", "remove"}
    BY <2>2, CallTyped
  <2> QED
    BY <2>1, <2>2 DEF CrashAndRestart
<1>6. /\ lock' \in Actor \cup {Free, Uncertain, Dead} /\ tried' \in [Purchase -> BOOLEAN]
      /\ crashes' \in Nat /\ outside' \in Nat
  BY DEF CrashAndRestart, DeliveryTypeOK
<1>7. task' = [a \in Actor |-> task'[a]]
  BY <1>1
<1> QED
  BY <1>3, <1>4, <1>5, <1>6, <1>7 DEF DeliveryTypeOK

\* Every step keeps the tasks typed and each hand under its lock.
LEMMA HandStep ==
  ASSUME DeliveryTypeOK, OneHandOnTheRole, [DeliveryNext]_dvars
  PROVE  DeliveryTypeOK' /\ OneHandOnTheRole'
<1>1. CASE UNCHANGED dvars
  BY <1>1 DEF dvars, world, DeliveryTypeOK, OneHandOnTheRole, HoldsRole
<1>2. CASE ContractStep
  BY <1>2 DEF ContractStep, world, DeliveryTypeOK, OneHandOnTheRole, HoldsRole
<1>3. CASE HandlerStep
  BY <1>3, WorkerMoves, PatrolMoves, SchedulerMoves, RecoveryMoves DEF HandlerStep
<1>4. CASE \E p \in Worker : TakeLock(p)
  BY <1>4, WorkerMoves
<1> QED
  BY <1>1, <1>2, <1>3, <1>4, DiscordMoves, RestartMoves DEF DeliveryNext

\* At the start nobody does anything.
LEMMA HandInit ==
  ASSUME DeliveryInit PROVE DeliveryTypeOK /\ OneHandOnTheRole
<1>1. \A a \in Actor : task[a] = Idle
  BY DEF DeliveryInit
<1>2. \A a \in Actor : ~HoldsRole(a)
  BY <1>1 DEF HoldsRole, Idle, CallSteps, OwnReads
<1>3. \A a \in Actor : task[a] \in TaskOf(a)
  BY <1>1 DEF TaskOf
<1>4. task = [a \in Actor |-> task[a]]
  BY DEF DeliveryInit
<1> QED
  BY <1>2, <1>3, <1>4 DEF DeliveryInit, DeliveryTypeOK, OneHandOnTheRole

LEMMA HandsKept == DeliverySpec => [](DeliveryTypeOK /\ OneHandOnTheRole)
<1>1. DeliveryInit => DeliveryTypeOK /\ OneHandOnTheRole
  BY HandInit
<1>2. (DeliveryTypeOK /\ OneHandOnTheRole) /\ [DeliveryNext]_dvars =>
        (DeliveryTypeOK /\ OneHandOnTheRole)'
  BY HandStep
<1> QED
  BY <1>1, <1>2, PTL DEF DeliverySpec

\* Every actor is always at a step of its own handler, with a purchase and a claim
\* that exist, whatever the others do and however often the bot restarts.
THEOREM DeliveryTypeCorrect == DeliverySpec => []DeliveryTypeOK
BY HandsKept, PTL

\* Mutual exclusion of the Discord calls: the handler that adds or removes the role,
\* or judges the outcome, holds the lock, through crashes and every recovery.
THEOREM OneHand == DeliverySpec => []OneHandOnTheRole
BY HandsKept, PTL

-----------------------------------------------------------------------------
(* The running bot implements the contract.                                *)

\* The shared turns are turns of the contract.
LEMMA SharedTurns ==
  ASSUME NEW p \in Purchase
  PROVE  /\ LateFailure(p) => [Next]_vars
         /\ \A t \in Token : SettleOrFlag(p, t) => [Next]_vars
         /\ \A t \in Token, s \in {"released", "uncertain"} : CloseClaim(p, t, s) => [Next]_vars
<1>1. LateFailure(p) => [Next]_vars
  BY DEF LateFailure, Next, PurchaseStep
<1>2. ASSUME NEW t \in Token, SettleOrFlag(p, t) PROVE [Next]_vars
  BY <1>2 DEF SettleOrFlag, Next, PurchaseStep
<1>3. ASSUME NEW t \in Token, NEW s \in {"released", "uncertain"}, CloseClaim(p, t, s)
      PROVE  [Next]_vars
  <2>1. CASE FailDelivery(p, t, s)
    BY <2>1 DEF Next, PurchaseStep
  <2> QED
    BY <1>1, <1>3, <2>1 DEF CloseClaim
<1> QED
  BY <1>1, <1>2, <1>3

LEMMA WorkerImplements ==
  ASSUME DeliveryTypeOK, NEW p \in Worker, WorkerStep(p) \/ TakeLock(p)
  PROVE  [Next]_vars
<1> DEFINE t == task[p].claim
<1>1. p \in Purchase /\ task[p] \in {Idle} \cup WorkerTasks(p)
  BY Names, Tasks DEF DeliveryTypeOK
<1>2. task[p] # Idle => t \in Token
  BY <1>1 DEF WorkerTasks, Doing
<1>3. ASSUME NEW u \in Token, StartDelivery(p, u) PROVE [Next]_vars
  BY <1>1, <1>3 DEF StartDelivery, Next, PurchaseStep
<1>4. CASE TakeLock(p)
  <2>1. t \in Token
    BY <1>2, <1>4 DEF TakeLock, At, Idle
  <2> QED
    BY <1>1, <1>4, <2>1, SharedTurns DEF TakeLock
<1>5. CASE WorkerAdds(p)
  BY <1>5 DEF WorkerAdds
<1>6. CASE WorkerSettles(p)
  <2>1. t \in Token
    BY <1>2, <1>6 DEF WorkerSettles, At, Idle
  <2> QED
    BY <1>1, <1>6, <2>1, SharedTurns DEF WorkerSettles
<1>7. CASE WorkerGivesUp(p) \/ WorkerLosesTrack(p)
  <2>1. t \in Token
    BY <1>2, <1>7 DEF WorkerGivesUp, WorkerLosesTrack, At, Idle
  <2> QED
    BY <1>1, <1>7, <2>1, SharedTurns DEF WorkerGivesUp, WorkerLosesTrack
<1> QED
  BY <1>3, <1>4, <1>5, <1>6, <1>7 DEF WorkerStep

LEMMA PatrolImplements ==
  ASSUME DeliveryTypeOK, NEW a \in Patrol, PatrolStep(a)
  PROVE  [Next]_vars
<1>1. task[a] \in {Idle} \cup PatrolTasks
  BY Names, Tasks DEF DeliveryTypeOK
<1>2. task[a] # Idle => task[a].on \in Purchase /\ task[a].mark \in BOOLEAN
  BY <1>1 DEF PatrolTasks, Doing
<1>3. CASE PatrolConfirms(a)
  <2>1. task[a].on \in Purchase /\ task[a].mark \in BOOLEAN
    BY <1>2, <1>3 DEF PatrolConfirms, PatrolSeesRole, At, Idle
  <2> QED
    BY <1>3, <2>1 DEF PatrolConfirms, Next, PurchaseStep
<1>4. CASE PatrolFails(a) \/ UndoFails(a)
  <2>1. task[a].on \in Purchase
    BY <1>2, <1>4 DEF PatrolFails, UndoFails, At, Idle
  <2> QED
    BY <1>4, <2>1, SharedTurns DEF PatrolFails, UndoFails
<1>5. CASE \/ PatrolLists(a) \/ PatrolPasses(a) \/ PatrolLocks(a) \/ PatrolLetsGo(a)
           \/ PatrolAdds(a) \/ PatrolUndoes(a)
  BY <1>5 DEF PatrolLists, PatrolPasses, PatrolLocks, PatrolLetsGo, PatrolAdds, PatrolUndoes
<1> QED
  BY <1>3, <1>4, <1>5 DEF PatrolStep

LEMMA SchedulerImplements ==
  ASSUME DeliveryTypeOK, SchedulerStep
  PROVE  [Next]_vars
<1> DEFINE a == Scheduler
<1>2. task[a].step = "observing" => task[a].on \in Purchase /\ task[a].claim \in Token
  BY SchedulerJobs DEF ClaimTasks, Doing
<1>3. task[a].step \in {"approaching", "removed", "restored"} => task[a].on \in Purchase
  BY SchedulerJobs DEF RevokerTasks, Doing
<1>4. CASE ConvergeClaim
  <2>1. task[a].on \in Purchase /\ task[a].claim \in Token
    BY <1>2, <1>4 DEF ConvergeClaim, At
  <2>2. ReleaseExternalDelivery(task[a].on, task[a].claim) => [Next]_vars
    BY <2>1 DEF Next, PurchaseStep
  <2> QED
    BY <1>4, <2>1, <2>2, SharedTurns DEF ConvergeClaim
<1>5. ASSUME NEW p \in Purchase, RevocationAtOnce(p) PROVE [Next]_vars
  BY <1>5 DEF RevocationAtOnce, Next, PurchaseStep
<1>6. \A p \in Purchase : FinishRoleRevocation(p, "done") => [Next]_vars
  BY DEF Next, PurchaseStep
<1>7. CASE MemberAbsent
  <2>1. task[a].on \in Purchase
    BY <1>3, <1>7 DEF MemberAbsent, At
  <2> QED
    BY <1>6, <1>7, <2>1 DEF MemberAbsent
<1>8. ASSUME task[a].on \in Purchase, NEW d, RevokerEnds(d) PROVE [Next]_vars
  BY <1>6, <1>8 DEF RevokerEnds
<1>9. CASE RevokerDecides
  <2>1. task[a].on \in Purchase
    BY <1>3, <1>9 DEF RevokerDecides, At
  <2> QED
    BY <1>8, <1>9, <2>1 DEF RevokerDecides, RevokerRemoves, RevokerRestores
<1>10. CASE RevokerChecks
  <2>1. task[a].on \in Purchase
    BY <1>3, <1>10 DEF RevokerChecks, At
  <2> QED
    BY <1>8, <1>10, <2>1 DEF RevokerChecks, RevokerRestores
<1>11. (\E p \in Purchase, t \in Token : ObserveClaim(p, t)) => UNCHANGED vars
  BY DEF ObserveClaim
<1>12. CASE \/ InspectLock \/ \E p \in Purchase : ApproachRole(p)
            \/ RecoverLock(a) \/ RevokerDefers \/ RevokerLosesTrack
  BY <1>12 DEF InspectLock, ApproachRole, RecoverLock, RevokerDefers, RevokerLosesTrack
<1> QED
  BY <1>4, <1>5, <1>7, <1>9, <1>10, <1>11, <1>12 DEF SchedulerStep, SchedulerGoesOn

LEMMA ContractStepImplements ==
  ASSUME ContractStep PROVE [Next]_vars
BY DEF ContractStep, Next, PurchaseStep

\* Every step of the bot and of Discord is a step of the contract or leaves it alone.
LEMMA StepImplements ==
  ASSUME DeliveryTypeOK, [DeliveryNext]_dvars PROVE [Next]_vars
<1>1. CASE UNCHANGED dvars
  BY <1>1 DEF dvars
<1>2. CASE \/ \E a \in Actor : Call(a)
           \/ \E a \in Actor, answer \in {"on", "off", "gone", "failed"} : Answer(a, answer)
           \/ Outside \/ CrashAndRestart \/ RecoverLock(Startup)
  BY <1>2 DEF Call, Answer, Outside, CrashAndRestart, RecoverLock
<1>3. CASE HandlerStep
  BY <1>2, <1>3, WorkerImplements, PatrolImplements, SchedulerImplements DEF HandlerStep
<1>4. CASE \E p \in Worker : TakeLock(p)
  BY <1>4, WorkerImplements
<1> QED
  BY <1>1, <1>2, <1>3, <1>4, ContractStepImplements DEF DeliveryNext

\* The workers, the patrols, the scheduler and every restart together implement the
\* contract: whatever they do to a purchase is a transaction the contract allows.
THEOREM DeliveryImplementsContract == DeliverySpec => Spec
<1>1. DeliveryInit => Init
  BY DEF DeliveryInit
<1>2. DeliveryTypeOK /\ [DeliveryNext]_dvars => [Next]_vars
  BY StepImplements
<1> QED
  BY <1>1, <1>2, DeliveryTypeCorrect, PTL DEF DeliverySpec, Spec

\* So the contract holds of the bot as it runs: for one, nobody is paid back whose
\* delivery is proved, in spite of crashes, lost answers and recovery.
THEOREM MoneyOrServiceInDelivery == DeliverySpec => []RefundExcludesDelivery
BY DeliveryImplementsContract, MoneyOrService, PTL

-----------------------------------------------------------------------------
(***************************************************************************)
(* An addition that nobody has verified keeps the lock of its role live,   *)
(* provided that the start-up recovery is over before the first tick.      *)
(* (Without that a tick can overtake the recovery.)                        *)
(*                                                                         *)
(* The argument: the lock is given back only on an answer, and the answer  *)
(* is younger than the last addition.  For the holder that is so because   *)
(* it read after its own call; for recovery because an uncertain or dead   *)
(* lock has no holder who could still call.                                *)
(***************************************************************************)

\* While the start-up recovery works, nobody else is past the barrier.
StartupAlone ==
  task[Startup] # Idle =>
    /\ lock \in {Uncertain, Dead}
    /\ \A a \in Actor : a # Startup => task[a].step \in {"idle", "waiting", "observing"}

\* What the tick's recovery looks at stays uncertain until it is done.
TickAlone == task[Scheduler].step = "inspecting" => lock = Uncertain

\* What recovery has read is what became of the last call.
AnswerIsFresh ==
  \A a \in {Scheduler, Startup} : At(a, "inspecting", {"on", "off"}) => unseen = "nothing"

\* A holder that has not seen the last addition is still waiting for an answer, or got none.
HolderKnows ==
  \A a \in Actor : lock = a /\ unseen = "add" =>
    task[a].step \in {"checking", "restored"} /\ task[a].reply \notin {"on", "off"}

\* A patrol remembers that it called roles.add.
PatrolRemembers == \A a \in Patrol : task[a].step \in {"adding", "checking"} => task[a].mark

Traced ==
  /\ UnknownAdditionStaysLocked /\ StartupAlone /\ TickAlone
  /\ AnswerIsFresh /\ HolderKnows /\ PatrolRemembers

\* Whoever is past the barrier is there after the start-up recovery.
LEMMA PastTheBarrier ==
  ASSUME Traced, NEW a \in Actor, a # Startup,
         task[a].step \notin {"idle", "waiting", "observing"}
  PROVE  Ready
BY DEF Traced, StartupAlone, Ready

\* A holder that reads an answer has seen its addition.
LEMMA HolderHasSeen ==
  ASSUME Traced, NEW a \in Actor, lock = a,
         task[a].step \notin {"checking", "restored"} \/ task[a].reply \in {"on", "off"}
  PROVE  unseen # "add"
BY DEF Traced, HolderKnows

Alone(x) == \A a \in Actor : a # x => task'[a] = task[a]

\* What a handler's turn does to the tasks.
LEMMA TurnMoves ==
  ASSUME DeliveryTypeOK, NEW x \in Actor
  PROVE  /\ Stop(x) => Alone(x) /\ task'[x] = Idle
         /\ \A s, m, r : Turn(x, s, m, r) =>
              /\ Alone(x) /\ task'[x].step = s /\ task'[x].mark = m /\ task'[x].reply = r
         /\ \A s, p, t : Begin(x, s, p, t) =>
              /\ Alone(x) /\ task[x] = Idle /\ task'[x].step = s /\ task'[x].reply = "none"
<1>1. \A v : task' = [task EXCEPT ![x] = v] => task'[x] = v /\ Alone(x)
  BY DEF DeliveryTypeOK, Alone
<1>2. Stop(x) => Alone(x) /\ task'[x] = Idle
  BY <1>1 DEF Stop
<1>3. ASSUME NEW s, NEW m, NEW r, Turn(x, s, m, r)
      PROVE  Alone(x) /\ task'[x].step = s /\ task'[x].mark = m /\ task'[x].reply = r
  BY <1>1, <1>3 DEF Turn
<1>4. ASSUME NEW s, NEW p, NEW t, Begin(x, s, p, t)
      PROVE  Alone(x) /\ task[x] = Idle /\ task'[x].step = s /\ task'[x].reply = "none"
  BY <1>1, <1>4 DEF Begin
<1> QED
  BY <1>2, <1>3, <1>4

LEMMA AddingMoves ==
  ASSUME DeliveryTypeOK, NEW x \in Actor, Turn(x, "adding", TRUE, "none")
  PROVE  /\ Alone(x)
         /\ task'[x].step = "adding" /\ task'[x].mark = TRUE /\ task'[x].reply = "none"
<1> DEFINE v == [step |-> "adding", on |-> task[x].on, claim |-> task[x].claim,
                mark |-> TRUE, reply |-> "none"]
<1>1. task' = [task EXCEPT ![x] = v]
  BY DEF Turn
<1> HIDE DEF v
<1>2. task'[x] = v /\ Alone(x)
  BY <1>1 DEF DeliveryTypeOK, Alone
<1>3. v.step = "adding" /\ v.mark = TRUE /\ v.reply = "none"
  BY DEF v
<1> QED
  BY <1>2, <1>3

\* A turn of a handler that calls nothing: it leaves the lock alone, takes a free one,
\* or closes its own, and frees it only if the last addition was seen.
LEMMA TurnKeepsTrace ==
  ASSUME DeliveryTypeOK, OneHandOnTheRole, Traced,
         NEW x \in Actor, x # Startup, Alone(x),
         unseen' = unseen,
         \/ lock' = lock /\ (lock = x => unseen # "add")
         \/ lock = Free /\ lock' = x
         \/ lock = x /\ unseen # "add" /\ lock' \in {x, Free, Uncertain}
         \/ lock = x /\ lock' = Uncertain,
         Ready \/ (task'[x].step \in {"idle", "waiting", "observing"} /\ lock' = lock),
         task'[x].step = "inspecting" => task'[x].reply = "none" /\ lock' = Uncertain,
         x \in Patrol /\ task'[x].step \in {"adding", "checking"} => task'[x].mark
  PROVE  Traced'
<1>1. \A a \in Actor : a # x => task'[a] = task[a]
  BY DEF Alone
<1>2. UnknownAdditionStaysLocked'
  BY Names DEF Traced, UnknownAdditionStaysLocked
<1>3. StartupAlone'
  BY <1>1, Names DEF Traced, StartupAlone, Ready
<1>4. TickAlone'
  <2>1. CASE x = Scheduler
    BY <1>1, <2>1 DEF TickAlone
  <2>2. CASE x # Scheduler
    BY <1>1, <2>2, Names DEF Traced, TickAlone
  <2> QED
    BY <2>1, <2>2
<1>5. AnswerIsFresh'
  <2>1. SUFFICES ASSUME NEW a \in {Scheduler, Startup}, At(a, "inspecting", {"on", "off"})'
                 PROVE  unseen = "nothing"
    BY DEF AnswerIsFresh
  <2>2. a # x
    BY <1>1, <2>1 DEF At
  <2> QED
    BY <1>1, <2>1, <2>2, Names DEF Traced, AnswerIsFresh, At
<1>6. HolderKnows'
  <2>1. SUFFICES ASSUME NEW a \in Actor, lock' = a, unseen = "add"
                 PROVE  task'[a].step \in {"checking", "restored"}
                        /\ task'[a].reply \notin {"on", "off"}
    BY DEF HolderKnows
  <2>2. lock = a /\ a # x
    BY <2>1, Names DEF Traced, UnknownAdditionStaysLocked
  <2> QED
    BY <1>1, <2>1, <2>2 DEF Traced, HolderKnows
<1>7. PatrolRemembers'
  <2>1. SUFFICES ASSUME NEW a \in Patrol, task'[a].step \in {"adding", "checking"}
                 PROVE  task'[a].mark
    BY DEF PatrolRemembers
  <2> QED
    BY <1>1, <2>1, Names DEF Traced, PatrolRemembers
<1> QED
  BY <1>2, <1>3, <1>4, <1>5, <1>6, <1>7 DEF Traced

LEMMA WorkerKeepsTrace ==
  ASSUME DeliveryTypeOK, OneHandOnTheRole, Traced,
         NEW p \in Worker, WorkerStep(p) \/ TakeLock(p)
  PROVE  Traced'
<1>1. p \in Actor /\ p # Startup /\ p \notin Patrol /\ Idle.step = "idle"
  BY Names DEF Idle
<1>2. HoldsRole(p) => lock = p /\ Ready
  BY <1>1, PastTheBarrier DEF OneHandOnTheRole, HoldsRole, CallSteps, OwnReads
<1>3. ASSUME NEW t \in Token, StartDelivery(p, t) PROVE Traced'
  <2>1. Alone(p) /\ task[p] = Idle /\ task'[p].step = "waiting"
    BY <1>1, <1>3, TurnMoves DEF StartDelivery
  <2>2. lock = p => unseen # "add"
    BY <1>1, <2>1, HolderHasSeen
  <2> QED
    BY <1>1, <1>3, <2>1, <2>2, TurnKeepsTrace DEF StartDelivery, world
<1>4. CASE TakeLock(p)
  <2>1. Ready /\ UNCHANGED unseen /\ task[p].step = "waiting"
    BY <1>4 DEF TakeLock, At, world
  <2>2. CASE lock = Free
    <3>1. lock' = p /\ Alone(p) /\ task'[p].step = "reading"
      BY <1>1, <1>4, <2>2, TurnMoves DEF TakeLock, Go
    <3> QED
      BY <1>1, <2>1, <2>2, <3>1, TurnKeepsTrace
  <2>3. CASE lock # Free
    <3>1. lock' = lock /\ Alone(p) /\ task'[p].step = "idle"
      BY <1>1, <1>4, <2>3, TurnMoves DEF TakeLock
    <3>2. lock = p => unseen # "add"
      BY <1>1, <2>1, HolderHasSeen
    <3> QED
      BY <1>1, <2>1, <3>1, <3>2, TurnKeepsTrace
  <2> QED
    BY <2>2, <2>3
<1>5. CASE WorkerAdds(p)
  <2>1. Alone(p) /\ task'[p].step = "adding" /\ lock' = lock /\ UNCHANGED unseen
    BY <1>1, <1>5, TurnMoves DEF WorkerAdds, Go, world
  <2>2. task[p].step = "reading"
    BY <1>5 DEF WorkerAdds, At
  <2>3. lock = p /\ Ready /\ unseen # "add"
    BY <1>1, <1>2, <2>2, HolderHasSeen DEF HoldsRole, OwnReads
  <2> QED
    BY <1>1, <2>1, <2>3, TurnKeepsTrace
<1>6. CASE WorkerSettles(p) \/ WorkerGivesUp(p)
  <2>1. /\ Alone(p) /\ task'[p].step = "idle" /\ UNCHANGED unseen
        /\ lock' \in {Free, Uncertain}
    BY <1>1, <1>6, TurnMoves DEF WorkerSettles, WorkerGivesUp, world
  <2>2. \/ task[p].step = "reading"
        \/ task[p].step = "checking" /\ task[p].reply \in {"on", "off"}
    BY <1>6 DEF WorkerSettles, WorkerGivesUp, At
  <2>3. lock = p /\ Ready /\ unseen # "add"
    BY <1>1, <1>2, <2>2, HolderHasSeen DEF HoldsRole, OwnReads
  <2> QED
    BY <1>1, <2>1, <2>3, TurnKeepsTrace
<1>7. CASE WorkerLosesTrack(p)
  <2>1. /\ Alone(p) /\ task'[p].step = "idle" /\ UNCHANGED unseen /\ lock' = Uncertain
    BY <1>1, <1>7, TurnMoves DEF WorkerLosesTrack, world
  <2>2. lock = p /\ Ready
    BY <1>2, <1>7 DEF WorkerLosesTrack, At, HoldsRole, OwnReads
  <2> QED
    BY <1>1, <2>1, <2>2, TurnKeepsTrace
<1> QED
  BY <1>3, <1>4, <1>5, <1>6, <1>7 DEF WorkerStep

\* A call, or a call that rejected at once: the caller holds the lock.
LEMMA CallKeepsTrace ==
  ASSUME DeliveryTypeOK, Traced,
         NEW x \in Actor, x # Startup, Alone(x), Ready, lock = x,
         \/ unseen' = "remove" /\ lock' \in {x, Free, Uncertain}
         \/ unseen' = "add" /\ lock' = x /\ task'[x].reply = "none"
            /\ task'[x].step \in {"checking", "restored"},
         task'[x].step # "inspecting",
         x \in Patrol /\ task'[x].step \in {"adding", "checking"} => task'[x].mark
  PROVE  Traced'
<1>1. \A a \in Actor : a # x => task'[a] = task[a]
  BY DEF Alone
<1>2. UnknownAdditionStaysLocked'
  BY Names DEF UnknownAdditionStaysLocked
<1>3. StartupAlone'
  BY <1>1, Names DEF StartupAlone, Ready
<1>4. task[Scheduler].step # "inspecting"
  BY Names DEF Traced, TickAlone
<1>5. task'[Scheduler].step # "inspecting" /\ task'[Startup].step # "inspecting"
  BY <1>1, <1>4, Names DEF Ready, Idle
<1>6. TickAlone' /\ AnswerIsFresh'
  BY <1>5 DEF TickAlone, AnswerIsFresh, At
<1>7. HolderKnows'
  BY Names DEF HolderKnows
<1>8. PatrolRemembers'
  <2>1. SUFFICES ASSUME NEW a \in Patrol, task'[a].step \in {"adding", "checking"}
                 PROVE  task'[a].mark
    BY DEF PatrolRemembers
  <2> QED
    BY <1>1, <2>1, Names DEF Traced, PatrolRemembers
<1> QED
  BY <1>2, <1>3, <1>6, <1>7, <1>8 DEF Traced

LEMMA PatrolKeepsTrace ==
  ASSUME DeliveryTypeOK, OneHandOnTheRole, Traced, NEW a \in Patrol, PatrolStep(a)
  PROVE  Traced'
<1>1. a \in Actor /\ a # Startup /\ Idle.step = "idle"
  BY Names DEF Idle
<1>2. HoldsRole(a) => lock = a /\ Ready
  BY <1>1, PastTheBarrier DEF OneHandOnTheRole, HoldsRole, CallSteps, OwnReads
<1>3. CASE PatrolLists(a)
  <2>1. Ready /\ UNCHANGED <<unseen, lock>>
    BY <1>3 DEF PatrolLists, world
  <2>2. Alone(a) /\ task[a] = Idle /\ task'[a].step = "probing"
    BY <1>1, <1>3, TurnMoves DEF PatrolLists
  <2>3. lock = a => unseen # "add"
    BY <1>1, <2>2, HolderHasSeen
  <2> QED
    BY <1>1, <2>1, <2>2, <2>3, TurnKeepsTrace
<1>4. CASE PatrolPasses(a)
  <2>1. Alone(a) /\ task'[a].step = "idle" /\ UNCHANGED <<unseen, lock>>
    BY <1>1, <1>4, TurnMoves DEF PatrolPasses, world
  <2>2. task[a].step = "probing"
    BY <1>4 DEF PatrolPasses, At
  <2>3. lock = a => unseen # "add"
    BY <1>1, <2>2, HolderHasSeen
  <2> QED
    BY <1>1, <2>1, <2>3, TurnKeepsTrace
<1>5. CASE PatrolLocks(a)
  <2>1. Alone(a) /\ task'[a].step = "reading" /\ lock = Free /\ lock' = a /\ UNCHANGED unseen
    BY <1>1, <1>5, TurnMoves DEF PatrolLocks, Go, world
  <2>2. Ready
    BY <1>1, <1>5, PastTheBarrier DEF PatrolLocks, At
  <2> QED
    BY <1>1, <2>1, <2>2, TurnKeepsTrace
<1>6. CASE PatrolAdds(a) \/ PatrolUndoes(a)
  <2>1. \/ task[a].step = "reading"
        \/ task[a].step = "checking" /\ task[a].reply \in {"on", "off"}
    BY <1>6 DEF PatrolAdds, PatrolUndoes, PatrolSeesRole, At
  <2>2. Alone(a) /\ UNCHANGED <<unseen, lock>>
        /\ \/ task'[a].step = "adding" /\ task'[a].mark = TRUE
           \/ task'[a].step = "undoing"
    <3>1. CASE PatrolAdds(a)
      <4>1. Turn(a, "adding", TRUE, "none") /\ UNCHANGED <<unseen, lock>>
        BY <3>1 DEF PatrolAdds, world
      <4> QED
        BY <1>1, <4>1, AddingMoves
    <3>2. CASE PatrolUndoes(a)
      <4>1. Turn(a, "undoing", task[a].mark, "none") /\ UNCHANGED <<unseen, lock>>
        BY <3>2 DEF PatrolUndoes, Go, world
      <4> QED
        BY <1>1, <4>1, TurnMoves
    <3> QED
      BY <1>6, <3>1, <3>2
  <2>3. lock = a /\ Ready /\ unseen # "add"
    BY <1>1, <1>2, <2>1, HolderHasSeen DEF HoldsRole, OwnReads
  <2> QED
    BY <1>1, <2>2, <2>3, TurnKeepsTrace
<1>7. CASE PatrolLetsGo(a) \/ PatrolConfirms(a)
  <2>1. \/ task[a].step \in {"reading", "undone"}
        \/ task[a].step = "checking" /\ task[a].reply \in {"on", "off"}
    BY <1>7 DEF PatrolLetsGo, PatrolConfirms, PatrolSeesRole, At
  <2>2. Alone(a) /\ task'[a].step = "idle" /\ UNCHANGED unseen /\ lock' = Free
    BY <1>1, <1>7, TurnMoves DEF PatrolLetsGo, PatrolConfirms, world
  <2>3. lock = a /\ Ready /\ unseen # "add"
    BY <1>1, <1>2, <2>1, HolderHasSeen DEF HoldsRole, OwnReads
  <2> QED
    BY <1>1, <2>2, <2>3, TurnKeepsTrace
<1>8. CASE PatrolFails(a)
  <2>1. Alone(a) /\ task'[a].step = "idle" /\ UNCHANGED unseen
    BY <1>1, <1>8, TurnMoves DEF PatrolFails, world
  <2>2. lock = a /\ Ready
    BY <1>2, <1>8 DEF PatrolFails, At, HoldsRole, OwnReads
  <2>3. lock' = Uncertain \/ (lock' = Free /\ unseen # "add")
    <3>1. CASE At(a, "checking", {"off"}) \/ task[a].step = "undone"
      <4>1. unseen # "add"
        BY <1>1, <2>2, <3>1, HolderHasSeen DEF At
      <4> QED
        BY <1>8, <4>1 DEF PatrolFails
    <3>2. CASE At(a, "checking", NoAnswer)
      <4>1. task[a].mark
        BY <3>2 DEF At, Traced, PatrolRemembers
      <4>2. ~At(a, "checking", {"off"})
        BY <3>2 DEF At, NoAnswer
      <4> QED
        BY <1>8, <4>1, <4>2 DEF PatrolFails
    <3> QED
      BY <1>8, <3>1, <3>2 DEF PatrolFails, At
  <2> QED
    BY <1>1, <2>1, <2>2, <2>3, TurnKeepsTrace
<1>9. CASE UndoFails(a)
  <2>1. Alone(a) /\ task'[a].step = "idle" /\ unseen' = "remove" /\ lock' \in {Free, Uncertain}
    BY <1>1, <1>9, TurnMoves DEF UndoFails
  <2>2. lock = a /\ Ready
    BY <1>2, <1>9 DEF UndoFails, HoldsRole, CallSteps
  <2> QED
    BY <1>1, <2>1, <2>2, CallKeepsTrace
<1> QED
  BY <1>3, <1>4, <1>5, <1>6, <1>7, <1>8, <1>9 DEF PatrolStep

LEMMA RecoveryKeepsTrace ==
  ASSUME DeliveryTypeOK, OneHandOnTheRole, Traced,
         NEW a \in {Scheduler, Startup}, RecoverLock(a)
  PROVE  Traced'
<1>1. a \in Actor /\ Idle.step = "idle"
  BY Names DEF Idle
<1>2. Alone(a) /\ task'[a] = Idle /\ unseen' = unseen /\ task[a].step = "inspecting"
  BY <1>1, TurnMoves DEF RecoverLock, At, world
<1>3. \A b \in Actor : b # a => task'[b] = task[b]
  BY <1>2 DEF Alone
<1>4. lock' = lock \/ (lock' = Free /\ unseen = "nothing")
  BY DEF RecoverLock, At, Traced, AnswerIsFresh
<1>5. a = Scheduler => task[Startup] = Idle
  BY <1>1, <1>2, PastTheBarrier, Names DEF Ready
<1>6. a = Startup => task[Scheduler].step # "inspecting"
  BY <1>2, Names DEF Traced, StartupAlone, Idle
<1>7. UnknownAdditionStaysLocked'
  BY <1>2, <1>4 DEF Traced, UnknownAdditionStaysLocked
<1>8. StartupAlone'
  BY <1>2, <1>3, <1>5, Names DEF StartupAlone
<1>9. TickAlone'
  BY <1>1, <1>2, <1>3, <1>6, Names DEF TickAlone
<1>10. AnswerIsFresh'
  <2>1. SUFFICES ASSUME NEW b \in {Scheduler, Startup}, At(b, "inspecting", {"on", "off"})'
                 PROVE  unseen = "nothing"
    BY <1>2 DEF AnswerIsFresh
  <2>2. b # a
    BY <1>1, <1>2, <2>1 DEF At
  <2> QED
    BY <1>3, <2>1, <2>2, Names DEF Traced, AnswerIsFresh, At
<1>11. HolderKnows'
  <2>1. SUFFICES ASSUME NEW b \in Actor, lock' = b, unseen = "add"
                 PROVE  task'[b].step \in {"checking", "restored"}
                        /\ task'[b].reply \notin {"on", "off"}
    BY <1>2 DEF HolderKnows
  <2>2. lock = b
    BY <1>4, <2>1
  <2>3. task[b].step \in {"checking", "restored"} /\ task[b].reply \notin {"on", "off"}
    BY <2>1, <2>2 DEF Traced, HolderKnows
  <2> QED
    BY <1>2, <1>3, <2>3
<1>12. PatrolRemembers'
  <2>1. SUFFICES ASSUME NEW b \in Patrol, task'[b].step \in {"adding", "checking"}
                 PROVE  task'[b].mark
    BY DEF PatrolRemembers
  <2> QED
    BY <1>3, <2>1, Names DEF Traced, PatrolRemembers
<1> QED
  BY <1>7, <1>8, <1>9, <1>10, <1>11, <1>12 DEF Traced

\* What is at Discord's side changes no turn.
LEMMA TraceUnchanged ==
  ASSUME Traced, UNCHANGED <<lock, task, unseen>>
  PROVE  Traced'
BY DEF Traced, UnknownAdditionStaysLocked, StartupAlone, TickAlone, AnswerIsFresh,
       HolderKnows, PatrolRemembers, At

LEMMA SchedulerKeepsTrace ==
  ASSUME ~SlowStart, DeliveryTypeOK, OneHandOnTheRole, Traced, SchedulerStep
  PROVE  Traced'
<1> DEFINE a == Scheduler
<1>1. a \in Actor /\ a # Startup /\ a \notin Patrol /\ Idle.step = "idle"
  BY Names DEF Idle
<1>2. HoldsRole(a) => lock = a /\ Ready
  BY <1>1, PastTheBarrier DEF OneHandOnTheRole, HoldsRole, CallSteps, OwnReads
<1>3. ASSUME NEW p \in Purchase, NEW t \in Token, ObserveClaim(p, t) PROVE Traced'
  <2>1. Alone(a) /\ task[a] = Idle /\ task'[a].step = "observing" /\ UNCHANGED <<unseen, lock>>
    BY <1>1, <1>3, TurnMoves DEF ObserveClaim, world
  <2>2. lock = a => unseen # "add"
    BY <1>1, <2>1, HolderHasSeen
  <2> QED
    BY <1>1, <2>1, <2>2, TurnKeepsTrace
<1>4. CASE InspectLock
  <2>1. /\ Alone(a) /\ task'[a].step = "inspecting" /\ task'[a].reply = "none"
        /\ UNCHANGED <<unseen, lock>> /\ Ready
    BY <1>1, <1>4, TurnMoves DEF InspectLock, world
  <2>2. lock = Uncertain
    BY <1>4, Names DEF InspectLock, Recoverable
  <2> QED
    BY <1>1, <2>1, <2>2, Names, TurnKeepsTrace
<1>5. ASSUME NEW p \in Purchase, ApproachRole(p) PROVE Traced'
  <2>1. /\ Alone(a) /\ task[a] = Idle /\ task'[a].step = "approaching"
        /\ UNCHANGED <<unseen, lock>> /\ Ready
    BY <1>1, <1>5, TurnMoves DEF ApproachRole, world
  <2>2. lock = a => unseen # "add"
    BY <1>1, <2>1, HolderHasSeen
  <2> QED
    BY <1>1, <2>1, <2>2, TurnKeepsTrace
<1>6. ASSUME NEW p \in Purchase, RevocationAtOnce(p) PROVE Traced'
  BY <1>6, TraceUnchanged DEF RevocationAtOnce, world
<1>7. CASE ConvergeClaim \/ RevokerDefers \/ MemberAbsent
  <2>1. Alone(a) /\ task'[a].step = "idle" /\ UNCHANGED <<unseen, lock>>
    BY <1>1, <1>7, TurnMoves DEF ConvergeClaim, RevokerDefers, MemberAbsent, world
  <2>2. task[a].step \in {"observing", "approaching"}
    BY <1>7 DEF ConvergeClaim, RevokerDefers, MemberAbsent, At
  <2>3. lock = a => unseen # "add"
    BY <1>1, <2>2, HolderHasSeen
  <2> QED
    BY <1>1, <2>1, <2>3, TurnKeepsTrace
<1>8. ASSUME NEW d, RevokerEnds(d) PROVE Alone(a) /\ task'[a].step = "idle" /\ lock' = Free
  BY <1>1, <1>8, TurnMoves DEF RevokerEnds
<1>9. ASSUME NEW e, RevokerRestores(e)
      PROVE  Alone(a) /\ task'[a].step = "restoring" /\ lock' = a
  BY <1>1, <1>9, TurnMoves DEF RevokerRestores
<1>10. CASE RevokerDecides
  <2>1. Ready /\ lock = Free /\ UNCHANGED unseen
    BY <1>1, <1>10, PastTheBarrier DEF RevokerDecides, At, world
  <2>2. \/ Alone(a) /\ task'[a].step = "idle" /\ lock' = Free
        \/ Alone(a) /\ task'[a].step \in {"restoring", "removing"} /\ lock' = a
    <3>1. ASSUME NEW p, RevokerRemoves(p)
          PROVE  Alone(a) /\ task'[a].step = "removing" /\ lock' = a
      BY <1>1, <3>1, TurnMoves DEF RevokerRemoves, Go
    <3> QED
      BY <1>8, <1>9, <1>10, <3>1 DEF RevokerDecides
  <2> QED
    BY <1>1, <2>1, <2>2, Names, TurnKeepsTrace
<1>11. CASE RevokerChecks
  <2>1. \/ Alone(a) /\ task'[a].step = "idle" /\ lock' = Free
        \/ Alone(a) /\ task'[a].step = "restoring" /\ lock' = a
    BY <1>8, <1>9, <1>11 DEF RevokerChecks
  <2>2. task[a].step \in {"removed", "restored"} /\ task[a].reply \in {"on", "off"}
        /\ UNCHANGED unseen
    BY <1>11 DEF RevokerChecks, At, world
  <2>3. lock = a /\ Ready /\ unseen # "add"
    BY <1>1, <1>2, <2>2, HolderHasSeen DEF HoldsRole, OwnReads
  <2> QED
    BY <1>1, <2>1, <2>2, <2>3, TurnKeepsTrace
<1>12. CASE RevokerLosesTrack
  <2>1. Alone(a) /\ task'[a].step = "idle" /\ UNCHANGED unseen /\ lock' = Uncertain
    BY <1>1, <1>12, TurnMoves DEF RevokerLosesTrack, world
  <2>2. lock = a /\ Ready
    BY <1>2, <1>12 DEF RevokerLosesTrack, At, HoldsRole, OwnReads
  <2> QED
    BY <1>1, <2>1, <2>2, TurnKeepsTrace
<1> QED
  BY <1>3, <1>4, <1>5, <1>6, <1>7, <1>10, <1>11, <1>12, RecoveryKeepsTrace
  DEF SchedulerStep, SchedulerGoesOn

LEMMA RequestKeepsTrace ==
  ASSUME DeliveryTypeOK, OneHandOnTheRole, Traced, NEW a \in Actor, Call(a)
  PROVE  Traced'
<1>1. task[a].step \in CallSteps /\ lock = a /\ lock' = lock
  BY DEF Call, OneHandOnTheRole, HoldsRole
<1>2. a # Startup
  <2>1. task[Startup] = Idle \/ task[Startup] \in LockTasks
    BY Names, Tasks DEF DeliveryTypeOK
  <2>2. Idle.step = "idle"
    BY DEF Idle
  <2>3. task[Startup] \in LockTasks => task[Startup].step = "inspecting"
    BY DEF LockTasks, Doing
  <2> QED
    BY <1>1, <2>1, <2>2, <2>3 DEF CallSteps
<1>3. Ready
  BY <1>1, <1>2, PastTheBarrier DEF CallSteps
<1>4. Alone(a) /\ task'[a].step = AfterCall(task[a].step) /\ task'[a].reply = "none"
      /\ task'[a].mark = task[a].mark
  BY TurnMoves DEF Call, Go
<1>5. \/ task[a].step = "adding" /\ task'[a].step = "checking" /\ unseen' = "add"
      \/ task[a].step = "restoring" /\ task'[a].step = "restored" /\ unseen' = "add"
      \/ task'[a].step \in {"removed", "undone"} /\ unseen' = "remove"
  BY <1>1, <1>4 DEF Call, CallSteps, AfterCall, Goal
<1>6. a \in Patrol /\ task'[a].step \in {"adding", "checking"} => task'[a].mark
  BY <1>4, <1>5 DEF Traced, PatrolRemembers
<1> QED
  BY <1>1, <1>2, <1>3, <1>4, <1>5, <1>6, CallKeepsTrace

LEMMA AnswerKeepsTrace ==
  ASSUME DeliveryTypeOK, OneHandOnTheRole, Traced, NEW a \in Actor,
         NEW answer \in {"on", "off", "gone", "failed"}, Answer(a, answer)
  PROVE  Traced'
<1>1. Alone(a) /\ task'[a].step = task[a].step /\ task'[a].reply = answer
      /\ task'[a].mark = task[a].mark /\ lock' = lock
  BY TurnMoves DEF Answer
<1>2. \A b \in Actor : b # a => task'[b] = task[b]
  BY <1>1 DEF Alone
<1>3. task[a] # Idle /\ task'[a] # Idle
  BY <1>1 DEF Answer, Idle, OwnReads, OpenReads
<1>4. \A b \in Actor : task'[b].step = task[b].step /\ (task'[b] = Idle <=> task[b] = Idle)
  BY <1>1, <1>2, <1>3
<1>5. unseen' \in {"nothing", unseen}
  BY DEF Answer
<1>6. UnknownAdditionStaysLocked'
  BY <1>1, <1>5 DEF Traced, UnknownAdditionStaysLocked
<1>7. StartupAlone' /\ TickAlone'
  BY <1>1, <1>4, Names DEF Traced, StartupAlone, TickAlone
<1>8. AnswerIsFresh'
  <2>1. SUFFICES ASSUME NEW b \in {Scheduler, Startup}, At(b, "inspecting", {"on", "off"})'
                 PROVE  unseen' = "nothing"
    BY DEF AnswerIsFresh
  <2>2. CASE b = a
    BY <1>1, <2>1, <2>2 DEF Answer, At
  <2>3. CASE b # a
    <3>1. At(b, "inspecting", {"on", "off"})
      BY <1>2, <2>1, <2>3, Names DEF At
    <3> QED
      BY <1>5, <3>1 DEF Traced, AnswerIsFresh
  <2> QED
    BY <2>2, <2>3
<1>9. HolderKnows'
  <2>1. SUFFICES ASSUME NEW b \in Actor, lock = b, unseen' = "add"
                 PROVE  task'[b].step \in {"checking", "restored"}
                        /\ task'[b].reply \notin {"on", "off"}
    BY <1>1 DEF HolderKnows
  <2>2. unseen = "add"
    BY <1>5, <2>1
  <2>3. task[b].step \in {"checking", "restored"} /\ task[b].reply \notin {"on", "off"}
    BY <2>1, <2>2 DEF Traced, HolderKnows
  <2>4. CASE b = a
    BY <1>1, <2>1, <2>3, <2>4 DEF Answer, OwnReads
  <2>5. CASE b # a
    BY <1>2, <2>3, <2>5
  <2> QED
    BY <2>4, <2>5
<1>10. PatrolRemembers'
  <2>1. SUFFICES ASSUME NEW b \in Patrol, task'[b].step \in {"adding", "checking"}
                 PROVE  task'[b].mark
    BY DEF PatrolRemembers
  <2> QED
    BY <1>1, <1>2, <2>1, Names DEF Traced, PatrolRemembers
<1> QED
  BY <1>6, <1>7, <1>8, <1>9, <1>10 DEF Traced

LEMMA RestartKeepsTrace ==
  ASSUME DeliveryTypeOK, OneHandOnTheRole, Traced, CrashAndRestart
  PROVE  Traced'
<1> DEFINE begun == [Idle EXCEPT !.step = "inspecting"]
<1>1. task' = [a \in Actor |-> IF a = Startup /\ lock # Free THEN begun ELSE Idle]
  BY DEF CrashAndRestart
<1>2. lock' = IF lock \in Actor THEN Dead ELSE lock
  BY DEF CrashAndRestart
<1>3. \A a \in Actor : a # Startup => task'[a].step = "idle"
  BY <1>1 DEF Idle
<1>4. task'[Startup].reply = "none" /\ (task'[Startup] # Idle => lock # Free)
  BY <1>1, Names DEF Idle
<1>5. lock' \in {Free, Uncertain, Dead} /\ (lock # Free => lock' # Free)
  BY <1>2, Names DEF DeliveryTypeOK
<1>6. UnknownAdditionStaysLocked'
  <2>1. CASE UNCHANGED world
    BY <1>5, <2>1 DEF world, Traced, UnknownAdditionStaysLocked
  <2>2. ASSUME NEW a \in Actor, task[a].step \in CallSteps PROVE lock' # Free
    BY <1>5, <2>2, Names DEF OneHandOnTheRole, HoldsRole
  <2> QED
    BY <2>1, <2>2 DEF CrashAndRestart, UnknownAdditionStaysLocked
<1>7. StartupAlone'
  BY <1>3, <1>4, <1>5 DEF StartupAlone
<1>8. TickAlone' /\ AnswerIsFresh'
  BY <1>3, <1>4, Names DEF TickAlone, AnswerIsFresh, At
<1>9. HolderKnows'
  BY <1>5, Names DEF HolderKnows
<1>10. PatrolRemembers'
  BY <1>3, Names DEF PatrolRemembers
<1> QED
  BY <1>6, <1>7, <1>8, <1>9, <1>10 DEF Traced

LEMMA TraceStep ==
  ASSUME ~SlowStart, DeliveryTypeOK, OneHandOnTheRole, Traced, [DeliveryNext]_dvars
  PROVE  Traced'
<1>1. CASE UNCHANGED dvars
  BY <1>1, TraceUnchanged DEF dvars, world
<1>2. CASE Outside \/ ContractStep
  BY <1>2, TraceUnchanged DEF Outside, ContractStep, world
<1>3. CASE HandlerStep
  BY <1>3, WorkerKeepsTrace, PatrolKeepsTrace, SchedulerKeepsTrace, RecoveryKeepsTrace
  DEF HandlerStep
<1>4. CASE \E p \in Worker : TakeLock(p)
  BY <1>4, WorkerKeepsTrace
<1> QED
  BY <1>1, <1>2, <1>3, <1>4, RequestKeepsTrace, AnswerKeepsTrace, RestartKeepsTrace
  DEF DeliveryNext

LEMMA TraceInit ==
  ASSUME DeliveryInit PROVE Traced
<1>1. /\ \A a \in Actor : task[a] = Idle
      /\ unseen = "nothing"
  BY DEF DeliveryInit
<1>2. \A a \in Actor : task[a].step = "idle"
  BY <1>1 DEF Idle
<1> QED
  BY <1>1, <1>2, Names
  DEF Traced, UnknownAdditionStaysLocked, StartupAlone, TickAlone, AnswerIsFresh,
      HolderKnows, PatrolRemembers, At

\* An addition whose outcome nobody has seen keeps the lock, through failed reads,
\* restarts and recovery, if the start-up recovery ends before the first tick.
THEOREM UnknownAdditionKeepsTheLock ==
  ASSUME ~SlowStart
  PROVE  DeliverySpec => []UnknownAdditionStaysLocked
<1>1. DeliveryInit => Traced
  BY TraceInit
<1>2. DeliveryTypeOK /\ OneHandOnTheRole /\ Traced /\ [DeliveryNext]_dvars => Traced'
  BY TraceStep
<1>3. Traced => UnknownAdditionStaysLocked
  BY DEF Traced
<1> QED
  BY <1>1, <1>2, <1>3, HandsKept, PTL DEF DeliverySpec

-----------------------------------------------------------------------------
(***************************************************************************)
(* A revocation is closed only over the role it was decided for.           *)
(*                                                                         *)
(* Two invariants carry it.  OwnRemoval follows the removal: who took the  *)
(* role off had written so before, and nothing read while the role was     *)
(* there or the member was away survives a removal.  Grounded follows the  *)
(* reading that the revocation worker makes before it takes the lock: if   *)
(* the role came back since, somebody is entitled to it, or the lock is    *)
(* not free.                                                               *)
(***************************************************************************)

\* What the handlers leave alone, and what they do to their own task.
LEMMA WorkerFrame ==
  ASSUME DeliveryTypeOK, NEW p \in Worker, WorkerStep(p) \/ TakeLock(p)
  PROVE  /\ UNCHANGED <<world, tried, outside, status, revocation>>
         /\ p \in Actor /\ Alone(p) /\ task'[p].reply = "none"
<1>1. p \in Actor
  BY Names
<1>2. UNCHANGED <<world, tried, outside>>
  BY DEF WorkerStep, StartDelivery, TakeLock, WorkerAdds, WorkerSettles, WorkerGivesUp,
     WorkerLosesTrack
<1>3. Alone(p) /\ task'[p].reply = "none"
  <2>1. Idle.reply = "none"
    BY DEF Idle
  <2> QED
    BY <1>1, <2>1, TurnMoves DEF WorkerStep, StartDelivery, TakeLock, WorkerAdds, WorkerSettles,
       WorkerGivesUp, WorkerLosesTrack, Go
<1>4. \A q, t, s : CloseClaim(q, t, s) => UNCHANGED <<status, revocation>>
  BY DEF CloseClaim, FailDelivery, LateFailure, MarkDeliveryFailed, vars, term
<1>5. \A q, t : SettleOrFlag(q, t) => UNCHANGED <<status, revocation>>
  BY DEF SettleOrFlag, SettleExternalDelivery, MarkExternalDeliveryUncertain, vars, term
<1>6. UNCHANGED <<status, revocation>>
  <2>1. \A t \in Token : StartDelivery(p, t) => UNCHANGED <<status, revocation>>
    BY DEF StartDelivery, ClaimExternalDelivery, term
  <2>2. UNCHANGED vars => UNCHANGED <<status, revocation>>
    BY DEF vars, term
  <2> QED
    BY <1>4, <1>5, <2>1, <2>2 DEF WorkerStep, TakeLock, WorkerAdds, WorkerSettles, WorkerGivesUp,
       WorkerLosesTrack
<1> QED
  BY <1>1, <1>2, <1>3, <1>6

LEMMA PatrolFrame ==
  ASSUME DeliveryTypeOK, NEW a \in Patrol, PatrolStep(a)
  PROVE  /\ UNCHANGED <<tried, outside, status, revocation>>
         /\ UNCHANGED world \/ UndoFails(a)
         /\ a \in Actor /\ Alone(a) /\ task'[a].reply = "none"
<1>1. a \in Actor
  BY Names
<1>2. UNCHANGED <<tried, outside>> /\ (UNCHANGED world \/ UndoFails(a))
  BY DEF PatrolStep, PatrolLists, PatrolPasses, PatrolLocks, PatrolLetsGo, PatrolAdds,
     PatrolConfirms, PatrolUndoes, PatrolFails, UndoFails
<1>3. Alone(a) /\ task'[a].reply = "none"
  <2>1. Idle.reply = "none"
    BY DEF Idle
  <2>2. PatrolLists(a) => Alone(a) /\ task'[a].reply = "none"
    BY <1>1, TurnMoves DEF PatrolLists
  <2>3. PatrolLocks(a) \/ PatrolUndoes(a) => Alone(a) /\ task'[a].reply = "none"
    BY <1>1, TurnMoves DEF PatrolLocks, PatrolUndoes, Go
  <2>5. CASE PatrolAdds(a)
    BY <1>1, <2>5, AddingMoves DEF PatrolAdds
  <2>4. PatrolPasses(a) \/ PatrolLetsGo(a) \/ PatrolConfirms(a) \/ PatrolFails(a) \/ UndoFails(a) =>
          Alone(a) /\ task'[a].reply = "none"
    BY <1>1, <2>1, TurnMoves DEF PatrolPasses, PatrolLetsGo, PatrolConfirms, PatrolFails, UndoFails
  <2> QED
    BY <2>2, <2>3, <2>4, <2>5 DEF PatrolStep
<1>4. \A q : LateFailure(q) => UNCHANGED <<status, revocation>>
  BY DEF LateFailure, MarkDeliveryFailed, vars, term
<1>5. \A q, m : PatrolDelivered(q, m) => UNCHANGED <<status, revocation>>
  BY DEF PatrolDelivered, term
<1>6. UNCHANGED <<status, revocation>>
  <2>1. UNCHANGED vars => UNCHANGED <<status, revocation>>
    BY DEF vars, term
  <2>2. PatrolConfirms(a) => UNCHANGED <<status, revocation>>
    BY <1>5, <2>1 DEF PatrolConfirms
  <2> QED
    BY <1>4, <2>1, <2>2 DEF PatrolStep, PatrolLists, PatrolPasses, PatrolLocks, PatrolLetsGo,
       PatrolAdds, PatrolUndoes, PatrolFails, UndoFails
<1> QED
  BY <1>1, <1>2, <1>3, <1>6

LEMMA SchedulerFrame ==
  ASSUME DeliveryTypeOK, SchedulerStep
  PROVE  /\ UNCHANGED <<world, outside, status>>
         /\ Alone(Scheduler)
         /\ task' = task \/ task'[Scheduler].reply = "none"
<1>1. Scheduler \in Actor /\ Idle.reply = "none"
  BY Names DEF Idle
<1>2. UNCHANGED <<world, outside>>
  BY DEF SchedulerStep, SchedulerGoesOn, ObserveClaim, InspectLock, RevocationAtOnce, ApproachRole,
     ConvergeClaim, RecoverLock, RevokerDefers, MemberAbsent, RevokerDecides, RevokerChecks,
     RevokerLosesTrack
<1>3. \A p : FinishRoleRevocation(p, "done") => UNCHANGED status
  BY DEF FinishRoleRevocation
<1>4. UNCHANGED vars => UNCHANGED status
  BY DEF vars
<1>5. UNCHANGED status
  <2>1. \A q, t : SettleOrFlag(q, t) => UNCHANGED status
    BY <1>4 DEF SettleOrFlag, SettleExternalDelivery, MarkExternalDeliveryUncertain
  <2>2. ConvergeClaim => UNCHANGED status
    BY <1>4, <2>1 DEF ConvergeClaim, ReleaseExternalDelivery
  <2>3. \A d : RevokerEnds(d) => UNCHANGED status
    BY <1>3, <1>4 DEF RevokerEnds
  <2>4. RevokerDecides \/ RevokerChecks => UNCHANGED status
    BY <1>4, <2>3 DEF RevokerDecides, RevokerChecks, RevokerRemoves, RevokerRestores
  <2> QED
    BY <1>3, <1>4, <2>2, <2>4 DEF SchedulerStep, SchedulerGoesOn, ObserveClaim, InspectLock,
       RevocationAtOnce, ApproachRole, RecoverLock, RevokerDefers, MemberAbsent, RevokerLosesTrack
<1>6. task' = task \/ (Alone(Scheduler) /\ task'[Scheduler].reply = "none")
  <2>1. \A d : RevokerEnds(d) => Alone(Scheduler) /\ task'[Scheduler].reply = "none"
    BY <1>1, TurnMoves DEF RevokerEnds
  <2>2. \A e : RevokerRestores(e) => Alone(Scheduler) /\ task'[Scheduler].reply = "none"
    BY <1>1, TurnMoves DEF RevokerRestores
  <2>3. \A p : RevokerRemoves(p) => Alone(Scheduler) /\ task'[Scheduler].reply = "none"
    BY <1>1, TurnMoves DEF RevokerRemoves, Go
  <2>4. RevokerDecides \/ RevokerChecks => Alone(Scheduler) /\ task'[Scheduler].reply = "none"
    BY <2>1, <2>2, <2>3 DEF RevokerDecides, RevokerChecks
  <2>5. \A p, t : ObserveClaim(p, t) => Alone(Scheduler) /\ task'[Scheduler].reply = "none"
    BY <1>1, TurnMoves DEF ObserveClaim
  <2>6. \A p : ApproachRole(p) => Alone(Scheduler) /\ task'[Scheduler].reply = "none"
    BY <1>1, TurnMoves DEF ApproachRole
  <2>7. InspectLock => Alone(Scheduler) /\ task'[Scheduler].reply = "none"
    BY <1>1, TurnMoves DEF InspectLock
  <2>8. Stop(Scheduler) => Alone(Scheduler) /\ task'[Scheduler].reply = "none"
    BY <1>1, TurnMoves
  <2> QED
    BY <2>4, <2>5, <2>6, <2>7, <2>8 DEF SchedulerStep, SchedulerGoesOn, RevocationAtOnce,
       ConvergeClaim, RecoverLock, RevokerDefers, MemberAbsent, RevokerLosesTrack
<1> QED
  BY <1>2, <1>5, <1>6 DEF Alone

\* The step alone tells who removes, and for which purchase.
LEMMA OnlyTheRevokerRemoves ==
  ASSUME DeliveryTypeOK, NEW a \in Actor, task[a].step = "removing"
  PROVE  a = Scheduler /\ task[a].on \in Purchase
<1>1. task[a] \in TaskOf(a) /\ task[a] # Idle
  BY DEF DeliveryTypeOK, Idle
<1>2. \A p \in Worker : task[a] \notin WorkerTasks(p)
  BY DEF WorkerTasks, Doing
<1>3. task[a] \notin PatrolTasks /\ task[a] \notin LockTasks /\ task[a] \notin ClaimTasks
  BY DEF PatrolTasks, LockTasks, ClaimTasks, Doing
<1>4. task[a] \in RevokerTasks => task[a].on \in Purchase
  BY DEF RevokerTasks, Doing
<1> QED
  BY <1>1, <1>2, <1>3, <1>4 DEF TaskOf

OwnRemoval ==
  /\ \A p \in Purchase : taker = p => tried[p]
  /\ taker # None => role = "off"
  /\ task[Scheduler].step = "removing" => tried[task[Scheduler].on]
  /\ /\ task[Scheduler].step \in {"approaching", "restored"}
     /\ task[Scheduler].reply \in {"on", "gone"}
     => taker = None

\* Nobody but the revocation worker says that a revocation took the role off.
LEMMA OthersTakeNothing ==
  ASSUME DeliveryTypeOK, OwnRemoval, task'[Scheduler] = task[Scheduler], UNCHANGED tried,
         UNCHANGED <<role, taker>> \/ taker' = None
  PROVE  OwnRemoval'
BY Names DEF OwnRemoval

LEMMA ChangeByOthers ==
  ASSUME NEW a \in Actor, MayChange(a), task[a].step # "removing"
  PROVE  UNCHANGED <<role, taker>> \/ taker' = None
BY DEF MayChange

LEMMA SchedulerKeepsRemoval ==
  ASSUME DeliveryTypeOK, OwnRemoval, SchedulerStep
  PROVE  OwnRemoval'
<1> DEFINE a == Scheduler
<1>1. a \in Actor /\ UNCHANGED world /\ (task' = task \/ task'[a].reply = "none")
  BY Names, SchedulerFrame
<1>2. CASE UNCHANGED <<task, tried>>
  BY <1>1, <1>2 DEF OwnRemoval, world
<1>3. CASE task'[a].step # "removing" /\ UNCHANGED tried
  BY <1>1, <1>3 DEF OwnRemoval, world
<1>4. ASSUME NEW p, RevokerRemoves(p), p = task[a].on, task[a] \in RevokerTasks PROVE OwnRemoval'
  <2>1. p \in Purchase
    BY <1>4 DEF RevokerTasks, Doing
  <2>2. task'[a].on = p /\ task'[a].reply = "none"
    BY <1>1, <1>4 DEF RevokerRemoves, Go, Turn, DeliveryTypeOK
  <2>3. tried' = [tried EXCEPT ![p] = TRUE]
    BY <1>4 DEF RevokerRemoves
  <2>4. tried'[p] /\ \A q \in Purchase : tried[q] => tried'[q]
    BY <2>1, <2>3 DEF DeliveryTypeOK
  <2> QED
    BY <1>1, <2>2, <2>4 DEF OwnRemoval, world
<1>5. \A d : RevokerEnds(d) => task'[a].step # "removing" /\ UNCHANGED tried
  BY <1>1, TurnMoves DEF RevokerEnds, Idle
<1>6. \A e : RevokerRestores(e) => task'[a].step # "removing" /\ UNCHANGED tried
  BY <1>1, TurnMoves DEF RevokerRestores
<1>7. CASE RevokerDecides
  <2>1. task[a] \in RevokerTasks
    BY <1>7, SchedulerJobs DEF RevokerDecides, At
  <2> QED
    BY <1>3, <1>4, <1>5, <1>6, <1>7, <2>1 DEF RevokerDecides
<1>8. CASE RevokerChecks
  BY <1>3, <1>5, <1>6, <1>8 DEF RevokerChecks
<1>9. \A p, t : ObserveClaim(p, t) => task'[a].step # "removing" /\ UNCHANGED tried
  BY <1>1, TurnMoves DEF ObserveClaim
<1>10. \A p : ApproachRole(p) => task'[a].step # "removing" /\ UNCHANGED tried
  BY <1>1, TurnMoves DEF ApproachRole
<1>11. InspectLock => task'[a].step # "removing" /\ UNCHANGED tried
  BY <1>1, TurnMoves DEF InspectLock
<1>12. \A p : RevocationAtOnce(p) => UNCHANGED <<task, tried>>
  BY DEF RevocationAtOnce
<1>13. ConvergeClaim \/ RecoverLock(a) \/ RevokerDefers \/ MemberAbsent \/ RevokerLosesTrack =>
         task'[a].step # "removing" /\ UNCHANGED tried
  BY <1>1, TurnMoves DEF ConvergeClaim, RecoverLock, RevokerDefers, MemberAbsent,
     RevokerLosesTrack, Idle
<1> QED
  BY <1>2, <1>3, <1>7, <1>8, <1>9, <1>10, <1>11, <1>12, <1>13 DEF SchedulerStep, SchedulerGoesOn

\* A removal by the revocation worker, while the process lives or dies.
LEMMA RemovalIsOwned ==
  ASSUME DeliveryTypeOK, OwnRemoval, NEW a \in Actor, MayChange(a), UNCHANGED tried,
         task'[Scheduler].step # "removing", task'[Scheduler].reply = "none"
  PROVE  OwnRemoval'
<1>1. CASE UNCHANGED <<role, taker>> \/ taker' = None
  BY <1>1, Names DEF OwnRemoval
<1>2. CASE task[a].step = "removing" /\ ~UNCHANGED <<role, taker>>
  <2>1. a = Scheduler /\ task[a].on \in Purchase
    BY <1>2, OnlyTheRevokerRemoves
  <2>2. role' = "off" /\ taker' = task[a].on
    BY <1>2 DEF MayChange, Goal
  <2> QED
    BY <1>2, <2>1, <2>2 DEF OwnRemoval
<1> QED
  BY <1>1, <1>2, ChangeByOthers

LEMMA RequestKeepsRemoval ==
  ASSUME DeliveryTypeOK, OwnRemoval, NEW a \in Actor, Call(a)
  PROVE  OwnRemoval'
<1>1. Alone(a) /\ task'[a].step = AfterCall(task[a].step) /\ task'[a].reply = "none"
  BY TurnMoves DEF Call, Go
<1>2. MayChange(a) /\ UNCHANGED tried
  BY DEF Call
<1>3. CASE a = Scheduler
  <2>1. task'[a].step # "removing"
    BY <1>1 DEF Call, CallSteps, AfterCall
  <2> QED
    BY <1>1, <1>2, <1>3, <2>1, RemovalIsOwned
<1>4. CASE a # Scheduler
  <2>1. task[a].step # "removing"
    BY <1>4, OnlyTheRevokerRemoves
  <2>2. task'[Scheduler] = task[Scheduler]
    BY <1>1, <1>4, Names DEF Alone
  <2> QED
    BY <1>2, <2>1, <2>2, ChangeByOthers, OthersTakeNothing
<1> QED
  BY <1>3, <1>4

LEMMA AnswerKeepsRemoval ==
  ASSUME DeliveryTypeOK, OwnRemoval, NEW a \in Actor,
         NEW answer \in {"on", "off", "gone", "failed"}, Answer(a, answer)
  PROVE  OwnRemoval'
<1>1. UNCHANGED <<role, taker, tried>> /\ answer \in {role, "failed"}
  BY DEF Answer
<1>2. /\ Alone(a) /\ task'[a].step = task[a].step /\ task'[a].reply = answer
      /\ task'[a].on = task[a].on
  <2>1. task'[a].on = task[a].on
    BY DEF Answer, Turn, DeliveryTypeOK
  <2> QED
    BY <2>1, TurnMoves DEF Answer
<1>3. CASE a # Scheduler
  <2>1. task'[Scheduler] = task[Scheduler]
    BY <1>2, <1>3, Names DEF Alone
  <2> QED
    BY <1>1, <2>1, OthersTakeNothing
<1>4. CASE a = Scheduler
  BY <1>1, <1>2, <1>4 DEF OwnRemoval
<1> QED
  BY <1>3, <1>4

LEMMA RemovalStep ==
  ASSUME DeliveryTypeOK, OwnRemoval, [DeliveryNext]_dvars
  PROVE  OwnRemoval'
<1>1. CASE UNCHANGED dvars
  BY <1>1 DEF dvars, world, OwnRemoval
<1>2. ASSUME NEW p \in Worker, WorkerStep(p) \/ TakeLock(p) PROVE OwnRemoval'
  <2>1. task'[Scheduler] = task[Scheduler] /\ UNCHANGED <<role, taker, tried>>
    BY <1>2, WorkerFrame, Names DEF Alone, world
  <2> QED
    BY <2>1, OthersTakeNothing
<1>3. ASSUME NEW a \in Patrol, PatrolStep(a) PROVE OwnRemoval'
  <2>1. task'[Scheduler] = task[Scheduler] /\ UNCHANGED tried
    BY <1>3, PatrolFrame, Names DEF Alone
  <2>2. UndoFails(a) => MayChange(a) /\ task[a].step # "removing"
    BY DEF UndoFails
  <2>3. UNCHANGED <<role, taker>> \/ taker' = None
    BY <1>3, <2>2, Names, PatrolFrame, ChangeByOthers DEF world
  <2> QED
    BY <2>1, <2>3, OthersTakeNothing
<1>4. CASE RecoverLock(Startup)
  <2>1. task'[Scheduler] = task[Scheduler] /\ UNCHANGED <<role, taker, tried>>
    BY <1>4, Names, TurnMoves DEF RecoverLock, Alone, world
  <2> QED
    BY <2>1, OthersTakeNothing
<1>5. CASE Outside
  BY <1>5, OthersTakeNothing DEF Outside
<1>6. CASE ContractStep
  BY <1>6, OthersTakeNothing DEF ContractStep, world
<1>7. CASE CrashAndRestart
  <2>1. task' = [a \in Actor |-> IF a = Startup /\ lock # Free
                                 THEN [Idle EXCEPT !.step = "inspecting"] ELSE Idle]
    BY <1>7 DEF CrashAndRestart
  <2>2. task'[Scheduler] = Idle /\ UNCHANGED tried
    BY <1>7, <2>1, Names DEF CrashAndRestart
  <2>3. task'[Scheduler].step # "removing" /\ task'[Scheduler].reply = "none"
    BY <2>2 DEF Idle
  <2>4. CASE UNCHANGED world
    BY <2>2, <2>3, <2>4 DEF OwnRemoval, world
  <2> QED
    BY <1>7, <2>2, <2>3, <2>4, RemovalIsOwned DEF CrashAndRestart
<1> QED
  BY <1>1, <1>2, <1>3, <1>4, <1>5, <1>6, <1>7, SchedulerKeepsRemoval, RequestKeepsRemoval,
     AnswerKeepsRemoval DEF DeliveryNext, HandlerStep

LEMMA RemovalInit ==
  ASSUME DeliveryInit PROVE OwnRemoval
<1>1. task[Scheduler] = Idle /\ taker = None
  BY Names DEF DeliveryInit
<1> QED
  BY <1>1, Names DEF OwnRemoval, Idle

\* Who closes a revocation, and with which task.
LEMMA WhoCloses ==
  ASSUME DeliveryTypeOK, [DeliveryNext]_dvars, NEW p \in Purchase,
         revocation[p] = "pending", revocation'[p] = "done"
  PROVE  \/ RevocationAtOnce(p)
         \/ p = task[Scheduler].on /\ (MemberAbsent \/ RevokerDecides \/ RevokerChecks)
<1>1. revocation' # revocation
  OBVIOUS
<1>2. ~UNCHANGED vars
  BY <1>1 DEF vars, term
<1>3. CASE SchedulerStep
  <2>1. \A q : FinishRoleRevocation(q, "done") => q = p
    BY DEF FinishRoleRevocation
  <2>2. \A q, t : ~SettleOrFlag(q, t) /\ ~ReleaseExternalDelivery(q, t)
    BY <1>1, <1>2 DEF SettleOrFlag, SettleExternalDelivery, MarkExternalDeliveryUncertain,
       ReleaseExternalDelivery, term
  <2>3. ~ConvergeClaim
    BY <1>2, <2>2 DEF ConvergeClaim
  <2>4. MemberAbsent => p = task[Scheduler].on
    BY <2>1 DEF MemberAbsent
  <2>5. \A d : RevokerEnds(d) => p = task[Scheduler].on
    BY <1>2, <2>1 DEF RevokerEnds
  <2>6. RevokerDecides \/ RevokerChecks => p = task[Scheduler].on
    BY <1>2, <2>5 DEF RevokerDecides, RevokerChecks, RevokerRemoves, RevokerRestores
  <2>7. \A q \in Purchase : RevocationAtOnce(q) => RevocationAtOnce(p)
    BY <2>1 DEF RevocationAtOnce
  <2> QED
    BY <1>2, <1>3, <2>3, <2>4, <2>6, <2>7 DEF SchedulerStep, SchedulerGoesOn, ObserveClaim,
       InspectLock, ApproachRole, RecoverLock, RevokerDefers, RevokerLosesTrack
<1>4. ~ContractStep
  <2>1. \A q \in Purchase : ~BuyPurchase(q) /\ ~Extend(q) /\ ~BeginDelivery(q)
    BY <1>1 DEF BuyPurchase, Extend, BeginDelivery, term
  <2>2. \A q \in Purchase, d \in Decision, refund \in BOOLEAN : ~ResolveOperatorCase(q, d, refund)
    BY <1>1 DEF ResolveOperatorCase, term
  <2>3. ~Tick
    BY <1>1 DEF Tick
  <2>4. ~ExpireOverdue
    BY DEF ExpireOverdue, RevocationDecision
  <2> QED
    BY <2>1, <2>2, <2>3, <2>4 DEF ContractStep
<1>5. ~HandlerStep \/ SchedulerStep
  BY <1>1, <1>2, WorkerFrame, PatrolFrame DEF HandlerStep, RecoverLock
<1>6. \A a \in Actor : ~Call(a) /\ \A answer : ~Answer(a, answer)
  BY <1>2 DEF Call, Answer
<1>7. ~Outside /\ ~CrashAndRestart
  BY <1>2 DEF Outside, CrashAndRestart
<1>8. ~UNCHANGED dvars
  BY <1>2 DEF dvars
<1>9. \A q \in Worker : ~TakeLock(q)
  BY <1>1, WorkerFrame
<1> QED
  BY <1>3, <1>4, <1>5, <1>6, <1>7, <1>8, <1>9 DEF DeliveryNext

GivesBack ==
  \A p \in Purchase :
    revocation[p] = "pending" /\ revocation'[p] = "done" /\ role = "off" /\ taker = p
    => Others(p) = {}

LEMMA ClosedAfterGivingBack ==
  ASSUME DeliveryTypeOK, OwnRemoval, [DeliveryNext]_dvars
  PROVE  GivesBack
<1> SUFFICES ASSUME NEW p \in Purchase, revocation[p] = "pending", revocation'[p] = "done",
                    role = "off", taker = p
             PROVE  Others(p) = {}
  BY DEF GivesBack
<1> DEFINE a == Scheduler
<1>1. tried[p] /\ taker # None
  BY Names DEF OwnRemoval
<1>2. ~RevocationAtOnce(p)
  BY <1>1 DEF RevocationAtOnce
<1>3. task[a].step \in {"approaching", "restored"} => task[a].reply \notin {"on", "gone"}
  BY <1>1 DEF OwnRemoval
<1>4. ~MemberAbsent
  BY <1>3 DEF MemberAbsent, At
<1>5. p = task[a].on /\ (RevokerDecides \/ RevokerChecks)
  BY <1>2, <1>4, WhoCloses
<1>6. Entitlement(p) = "none" => Others(p) = {}
  BY DEF Entitlement
<1>7. ~UNCHANGED vars
  BY DEF vars, term
<1>8. \A e : ~RevokerRestores(e) /\ ~RevokerRemoves(p) /\ ~RevokerEnds(FALSE)
  BY <1>7 DEF RevokerRestores, RevokerRemoves, RevokerEnds
<1>9. CASE RevokerDecides
  <2>1. task[a].step = "approaching" /\ task[a].reply # "on"
    BY <1>3, <1>9 DEF RevokerDecides, At
  <2> QED
    BY <1>1, <1>5, <1>6, <1>8, <1>9, <2>1 DEF RevokerDecides
<1>10. CASE RevokerChecks
  <2>1. ~At(a, "restored", {"on"})
    BY <1>3 DEF At
  <2> QED
    BY <1>5, <1>6, <1>8, <1>10, <2>1 DEF RevokerChecks
<1> QED
  BY <1>5, <1>9, <1>10

\* A revocation that took the role off itself is closed only when nobody else is
\* entitled to it, through restarts, lost answers and people who come and go.
THEOREM RoleIsGivenBack == DeliverySpec => RevocationGivesBack
<1>1. DeliveryInit => OwnRemoval
  BY RemovalInit
<1>2. DeliveryTypeOK /\ OwnRemoval /\ [DeliveryNext]_dvars => OwnRemoval'
  BY RemovalStep
<1>3. DeliveryTypeOK /\ OwnRemoval /\ [DeliveryNext]_dvars =>
        [\A p \in Purchase :
           /\ revocation[p] = "pending" /\ revocation'[p] = "done"
           /\ role = "off" /\ taker = p
           => Others(p) = {}]_dvars
  BY ClosedAfterGivingBack DEF GivesBack
<1> QED
  BY <1>1, <1>2, <1>3, DeliveryTypeCorrect, PTL DEF DeliverySpec, RevocationGivesBack

\* The exception of a contract that was paid back.
Refunded == \E q \in Purchase : status[q] = "refunded"

\* While the scheduler is at work no contract expires: an active one stays active,
\* or is paid back.
LEMMA NobodyExpires ==
  ASSUME TypeOK, DeliveryTypeOK, [DeliveryNext]_dvars, task[Scheduler] # Idle, NEW q \in Purchase
  PROVE  /\ Active(q) => Active(q)' \/ status'[q] = "refunded"
         /\ status[q] = "refunded" => status'[q] = "refunded"
<1>1. CASE UNCHANGED status
  BY <1>1 DEF Active
<1>2. CASE ContractStep
  <2>1. \A p \in Purchase : Extend(p) \/ BeginDelivery(p) => UNCHANGED status
    BY DEF Extend, BeginDelivery
  <2>2. Tick => UNCHANGED status
    BY DEF Tick
  <2>3. ASSUME NEW p \in Purchase, BuyPurchase(p)
        PROVE  status[p] = "none" /\ status' = [status EXCEPT ![p] = "active"]
    BY <2>3 DEF BuyPurchase
  <2>4. ASSUME NEW p \in Purchase, NEW d \in Decision, NEW refund \in BOOLEAN,
               ResolveOperatorCase(p, d, refund)
        PROVE  UNCHANGED status \/ status' = [status EXCEPT ![p] = "refunded"]
    BY <2>4 DEF ResolveOperatorCase, Decision, NoPayBack, PayBack
  <2> QED
    BY <1>1, <1>2, <2>1, <2>2, <2>3, <2>4 DEF ContractStep, TypeOK, Active
<1>3. UNCHANGED vars => UNCHANGED status
  BY DEF vars
<1>4. ~ContractStep => UNCHANGED status
  <2>1. HandlerStep => UNCHANGED status
    BY <1>3, WorkerFrame, PatrolFrame, SchedulerFrame DEF HandlerStep, RecoverLock
  <2>2. \A p \in Worker : TakeLock(p) => UNCHANGED status
    BY WorkerFrame
  <2> QED
    BY <1>3, <2>1, <2>2 DEF DeliveryNext, Call, Answer, Outside, CrashAndRestart, dvars
<1> QED
  BY <1>1, <1>2, <1>4

\* Some contract gives a right to the role, or one was paid back.
Ground == Refunded \/ \E q \in Purchase : Active(q)

\* A holder that may have put the role on the buyer itself: it gives the lock back
\* only over a running contract or over a role it saw missing.
MayHaveAdded(a) ==
  \/ a \in Worker /\ task[a].step \in {"adding", "checking"}
  \/ a \in Patrol /\ task[a].mark /\ task[a].step \in {"adding", "checking", "undoing", "undone"}

\* What the lock's state says of a role that came back unseen.
Founded ==
  lock \notin {Uncertain, Dead} /\ (\A a \in Actor : lock = a => ~MayHaveAdded(a)) => Ground

\* A holder that read that the role is missing still finds it missing.
MissingStays ==
  \A a \in Actor :
    task[a].step \in OwnReads /\ task[a].reply \in {"off", "gone"} => role # "on"

\* The mark of a restoration stands for a running contract whose delivery is proved.
MarkIsProved ==
  task[Scheduler].step \in {"restoring", "restored"} /\ task[Scheduler].mark =>
    \E q \in Purchase \ {task[Scheduler].on} : Active(q) /\ Evidence(q)

StaleReading ==
  task[Scheduler].step = "approaching" =>
    /\ task[Startup] = Idle
    /\ task[Scheduler].reply \in {"off", "gone"} /\ role = "on" => Founded
    /\ task[Scheduler].reply = "gone" =>
         outside > 0 /\ (role # "gone" => outside > 1)

Grounded ==
  /\ MissingStays /\ PatrolRemembers /\ MarkIsProved /\ StaleReading
  /\ role = "gone" => outside > 0

LEMMA CallerHolds ==
  ASSUME OneHandOnTheRole, NEW a \in Actor, task[a].step \in CallSteps \cup OwnReads
  PROVE  lock = a
BY DEF OneHandOnTheRole, HoldsRole

LEMMA MissingKept ==
  ASSUME DeliveryTypeOK, OneHandOnTheRole, MissingStays, NEW x \in Actor, Alone(x),
         \/ task'[x].reply = "none" /\ (role' # role => lock = x \/ role' # "on")
         \/ /\ role' = role /\ task'[x].reply \in {role, "failed"}
  PROVE  MissingStays'
<1> SUFFICES ASSUME NEW a \in Actor, task'[a].step \in OwnReads, task'[a].reply \in {"off", "gone"},
                    role' = "on"
             PROVE  FALSE
  BY DEF MissingStays
<1>1. CASE a = x
  BY <1>1
<1>2. CASE a # x
  <2>1. task[a].step \in OwnReads /\ task[a].reply \in {"off", "gone"}
    BY <1>2 DEF Alone
  <2>2. role # "on" /\ lock = a
    BY <2>1, CallerHolds DEF MissingStays
  <2> QED
    BY <1>2, <2>2
<1> QED
  BY <1>1, <1>2

\* The ground under the scheduler's feet stays while it works.
LEMMA GroundKept ==
  ASSUME TypeOK, DeliveryTypeOK, [DeliveryNext]_dvars, task[Scheduler] # Idle, Ground
  PROVE  Ground'
BY NobodyExpires DEF Ground, Refunded

LEMMA MarkKept ==
  ASSUME TypeOK, RefundExcludesDelivery', DeliveryTypeOK, [DeliveryNext]_dvars,
         MarkIsProved, task[Scheduler] # Idle, task'[Scheduler].on = task[Scheduler].on,
         task[Scheduler].step \in {"restoring", "restored"} /\ task[Scheduler].mark
  PROVE  \E q \in Purchase \ {task[Scheduler].on} : Active(q)' /\ Evidence(q)'
<1>1. PICK q \in Purchase \ {task[Scheduler].on} : Active(q) /\ Evidence(q)
  BY DEF MarkIsProved
<1>2. Evidence(q)'
  BY <1>1, StepImplements, ProofStays
<1>3. status'[q] # "refunded"
  BY <1>2 DEF RefundExcludesDelivery
<1> QED
  BY <1>1, <1>2, <1>3, NobodyExpires

\* The ways in which the founding of the role survives a turn of x.
LEMMA FoundedMoves ==
  ASSUME TypeOK, DeliveryTypeOK, [DeliveryNext]_dvars, task[Scheduler] # Idle,
         NEW x \in Actor, Alone(x)
  PROVE  /\ Founded /\ (lock = Free \/ (lock = x /\ ~MayHaveAdded(x))) => Founded'
         /\ Founded /\ lock' = lock /\ ~(lock = x /\ MayHaveAdded(x)) => Founded'
         /\ lock' \in {Uncertain, Dead} => Founded'
         /\ lock' = x /\ MayHaveAdded(x)' => Founded'
         /\ Ground => Founded'
<1>1. Ground => Founded'
  BY GroundKept DEF Founded
<1>2. Founded /\ (lock = Free \/ (lock = x /\ ~MayHaveAdded(x))) => Ground
  BY Names DEF Founded
<1>3. ASSUME Founded, lock' = lock, ~(lock = x /\ MayHaveAdded(x)) PROVE Founded'
  <2>1. CASE lock = x
    BY <1>1, <1>2, <1>3, <2>1
  <2>2. CASE lock # x
    <3>1. \A a \in Actor : lock = a => (MayHaveAdded(a)' <=> MayHaveAdded(a))
      BY <2>2 DEF Alone, MayHaveAdded
    <3> QED
      BY <1>1, <1>3, <3>1 DEF Founded
  <2> QED
    BY <2>1, <2>2
<1>4. lock' \in {Uncertain, Dead} => Founded'
  BY DEF Founded
<1>5. lock' = x /\ MayHaveAdded(x)' => Founded'
  BY DEF Founded
<1> QED
  BY <1>1, <1>2, <1>3, <1>4, <1>5

\* A turn or a call of a handler other than the scheduler's.
LEMMA OthersKeepGrounded ==
  ASSUME TypeOK, RefundExcludesDelivery', DeliveryTypeOK, OneHandOnTheRole, Grounded,
         [DeliveryNext]_dvars, NEW x \in Actor, x # Scheduler, Alone(x),
         outside' = outside, task'[x].reply = "none",
         role' # role => lock = x /\ role' # "gone" /\ role # "gone",
         x \in Patrol /\ task'[x].step \in {"adding", "checking"} => task'[x].mark,
         x = Startup /\ task[Startup] = Idle => task'[Startup] = Idle,
         task[Scheduler].step = "approaching" /\ task[Startup] = Idle
         /\ (role = "on" => Founded) /\ role' = "on" => Founded'
  PROVE  Grounded'
<1>1. task'[Scheduler] = task[Scheduler]
  BY Names DEF Alone
<1>2. MissingStays'
  BY MissingKept DEF Grounded
<1>3. PatrolRemembers'
  BY Names DEF Grounded, PatrolRemembers, Alone
<1>4. MarkIsProved'
  <2>1. SUFFICES ASSUME task[Scheduler].step \in {"restoring", "restored"}, task[Scheduler].mark
                 PROVE  \E q \in Purchase \ {task[Scheduler].on} : Active(q)' /\ Evidence(q)'
    BY <1>1 DEF MarkIsProved
  <2>2. task[Scheduler] # Idle
    BY <2>1 DEF Idle
  <2> QED
    BY <1>1, <2>1, <2>2, MarkKept DEF Grounded
<1>5. StaleReading'
  <2>1. SUFFICES ASSUME task[Scheduler].step = "approaching" PROVE StaleReading'
    BY <1>1 DEF StaleReading
  <2>2. task'[Startup] = Idle /\ task[Startup] = Idle
    BY <2>1, Names DEF Grounded, StaleReading, Alone
  <2>3. ASSUME task[Scheduler].reply \in {"off", "gone"}, role' = "on" PROVE Founded'
    BY <2>1, <2>2, <2>3 DEF Grounded, StaleReading
  <2>4. ASSUME task[Scheduler].reply = "gone"
        PROVE  outside > 0 /\ (role' # "gone" => outside > 1)
    BY <2>1, <2>4 DEF Grounded, StaleReading
  <2> QED
    BY <1>1, <2>1, <2>2, <2>3, <2>4 DEF StaleReading
<1>6. role' = "gone" => outside' > 0
  BY DEF Grounded
<1> QED
  BY <1>2, <1>3, <1>4, <1>5, <1>6 DEF Grounded

Premises == /\ TypeOK /\ RefundExcludesDelivery' /\ DeliveryTypeOK /\ OneHandOnTheRole /\ Grounded
            /\ [DeliveryNext]_dvars

LEMMA WorkerKeepsGrounded ==
  ASSUME Premises, NEW p \in Worker, WorkerStep(p) \/ TakeLock(p)
  PROVE  Grounded'
<1> USE DEF Premises
<1>1. /\ UNCHANGED <<world, outside>> /\ p \in Actor /\ p \in Purchase
      /\ Alone(p) /\ task'[p].reply = "none"
      /\ p # Scheduler /\ p # Startup /\ p \notin Patrol
  BY WorkerFrame, Names
<1>2. SUFFICES ASSUME task[Scheduler].step = "approaching", Founded, role = "on"
               PROVE  Founded'
  BY <1>1, OthersKeepGrounded DEF world
<1>3. task[Scheduler] # Idle
  BY <1>2 DEF Idle
<1>4. task[p].step \in {"reading", "checking"} => lock = p
  BY <1>1, CallerHolds DEF OwnReads
<1>5. task[p].step \notin {"adding", "checking"} => ~MayHaveAdded(p)
  BY <1>1 DEF MayHaveAdded
<1>6. task'[p].step = "adding" => MayHaveAdded(p)'
  BY DEF MayHaveAdded
<1> HIDE DEF Premises
<1>7. /\ lock = Free \/ (lock = p /\ ~MayHaveAdded(p)) => Founded'
      /\ lock' = lock /\ ~MayHaveAdded(p) => Founded'
      /\ lock' = Uncertain => Founded'
      /\ lock' = p /\ MayHaveAdded(p)' => Founded'
      /\ Ground => Founded'
  BY <1>1, <1>2, <1>3, FoundedMoves DEF Premises
<1>8. ASSUME NEW t \in Token, StartDelivery(p, t) PROVE Founded'
  <2>1. task[p].step = "idle" /\ lock' = lock
    BY <1>8 DEF StartDelivery, Begin, Idle
  <2> QED
    BY <1>5, <1>7, <2>1
<1>9. CASE TakeLock(p)
  <2>1. task[p].step = "waiting" /\ (lock = Free \/ lock' = lock)
    BY <1>9 DEF TakeLock, At
  <2> QED
    BY <1>5, <1>7, <2>1
<1>10. CASE WorkerAdds(p)
  <2>1. task[p].step = "reading" /\ lock' = lock /\ task'[p].step = "adding"
    BY <1>1, <1>10, TurnMoves DEF WorkerAdds, At, Go, Premises
  <2> QED
    BY <1>4, <1>6, <1>7, <2>1
<1>11. CASE WorkerSettles(p)
  <2>1. lock' = Uncertain \/ Settleable(p, task[p].claim)
    BY <1>11 DEF WorkerSettles
  <2>2. Settleable(p, task[p].claim) => Ground
    BY <1>1 DEF Settleable, Ground
  <2> QED
    BY <1>7, <2>1, <2>2
<1>12. CASE WorkerGivesUp(p)
  <2>1. ~At(p, "checking", {"off"})
    BY <1>1, <1>2 DEF At, Premises, Grounded, MissingStays, OwnReads
  <2>2. task[p].step = "reading"
    BY <1>12, <2>1 DEF WorkerGivesUp, At
  <2> QED
    BY <1>4, <1>5, <1>7, <2>2
<1>13. CASE WorkerLosesTrack(p)
  BY <1>7, <1>13 DEF WorkerLosesTrack
<1> QED
  BY <1>8, <1>9, <1>10, <1>11, <1>12, <1>13 DEF WorkerStep

LEMMA PatrolKeepsGrounded ==
  ASSUME Premises, NEW a \in Patrol, PatrolStep(a)
  PROVE  Grounded'
<1>1. /\ UNCHANGED outside /\ a \in Actor /\ Alone(a) /\ task'[a].reply = "none"
      /\ a # Scheduler /\ a # Startup /\ a \notin Worker
      /\ UNCHANGED world \/ UndoFails(a)
  BY PatrolFrame, Names DEF Premises
<1>2. task[a].step \in {"reading", "checking", "undoing", "undone"} => lock = a
  BY <1>1, CallerHolds DEF Premises, OwnReads, CallSteps
<1>3. UndoFails(a) => (role' # role => role # "gone" /\ role' = "off")
  BY DEF UndoFails, MayChange, Goal
<1>4. role' # role => lock = a /\ role' # "gone" /\ role # "gone"
  BY <1>1, <1>2, <1>3 DEF world, UndoFails
<1>5. task'[a].step \in {"adding", "checking"} => task'[a].mark
  <2>1. CASE PatrolAdds(a)
    BY <1>1, <2>1, TurnMoves DEF PatrolAdds, Premises
  <2>2. PatrolLists(a) => task'[a].step = "probing"
    BY <1>1, TurnMoves DEF PatrolLists, Premises
  <2>3. PatrolLocks(a) => task'[a].step = "reading"
    BY <1>1, TurnMoves DEF PatrolLocks, Premises, Go
  <2>4. PatrolUndoes(a) => task'[a].step = "undoing"
    BY <1>1, TurnMoves DEF PatrolUndoes, Premises, Go
  <2>5. PatrolPasses(a) \/ PatrolLetsGo(a) \/ PatrolConfirms(a) \/ PatrolFails(a) \/ UndoFails(a) =>
          task'[a].step = "idle"
    BY <1>1, TurnMoves DEF PatrolPasses, PatrolLetsGo, PatrolConfirms, PatrolFails, UndoFails,
       Premises, Idle
  <2> QED
    BY <2>1, <2>2, <2>3, <2>4, <2>5 DEF PatrolStep
<1>6. SUFFICES ASSUME task[Scheduler].step = "approaching", role = "on" => Founded, role' = "on"
               PROVE  Founded'
  BY <1>1, <1>4, <1>5, OthersKeepGrounded DEF Premises
<1>7. role = "on" /\ Founded
  BY <1>1, <1>3, <1>6 DEF world
<1>8. task[Scheduler] # Idle
  BY <1>6 DEF Idle
<1>9. /\ lock = Free \/ (lock = a /\ ~MayHaveAdded(a)) => Founded'
      /\ lock' = lock /\ ~MayHaveAdded(a) => Founded'
      /\ lock' = Uncertain => Founded'
      /\ lock' = a /\ MayHaveAdded(a)' => Founded'
      /\ Ground => Founded'
  BY <1>1, <1>7, <1>8, FoundedMoves DEF Premises
<1>10. task[a].step \notin {"adding", "checking", "undoing", "undone"} \/ ~task[a].mark =>
         ~MayHaveAdded(a)
  BY <1>1 DEF MayHaveAdded
<1>11. task[a].step = "checking" => task[a].mark
  BY DEF Premises, Grounded, PatrolRemembers
<1>12. task[a].step \in OwnReads => task[a].reply \notin {"off", "gone"}
  BY <1>1, <1>7 DEF Premises, Grounded, MissingStays
<1>13. Granting # {} => Ground
  BY DEF Granting, GrantsRole, Ground
<1>14. CASE PatrolLists(a) \/ PatrolPasses(a)
  <2>1. task[a].step \in {"idle", "probing"} /\ lock' = lock
    BY <1>14 DEF PatrolLists, PatrolPasses, Begin, Idle, At
  <2> QED
    BY <1>9, <1>10, <2>1
<1>15. CASE PatrolLocks(a)
  BY <1>9, <1>15 DEF PatrolLocks
<1>16. CASE PatrolLetsGo(a)
  <2>1. task[a].step = "reading"
    BY <1>12, <1>16 DEF PatrolLetsGo, At, OwnReads
  <2> QED
    BY <1>2, <1>9, <1>10, <2>1
<1>17. CASE PatrolAdds(a) \/ PatrolConfirms(a)
  BY <1>9, <1>13, <1>17 DEF PatrolAdds, PatrolConfirms
<1>18. CASE PatrolUndoes(a)
  <2>1. task[a].step \in {"reading", "checking"} /\ lock' = lock
    BY <1>18 DEF PatrolUndoes, PatrolSeesRole, At
  <2>2. task'[a].step = "undoing" /\ task'[a].mark = task[a].mark
    BY <1>1, <1>18, TurnMoves DEF PatrolUndoes, Premises, Go
  <2>3. task[a].mark => MayHaveAdded(a)'
    BY <2>2 DEF MayHaveAdded
  <2> QED
    BY <1>2, <1>9, <1>10, <2>1, <2>3
<1>19. CASE PatrolFails(a) \/ UndoFails(a)
  <2>1. task[a].step \in {"checking", "undone", "undoing"}
    BY <1>19 DEF PatrolFails, UndoFails, At
  <2>2. lock' = Uncertain \/ ~task[a].mark
    BY <1>12, <1>19 DEF PatrolFails, UndoFails, At, OwnReads
  <2> QED
    BY <1>2, <1>9, <1>10, <2>1, <2>2
<1> QED
  BY <1>14, <1>15, <1>16, <1>17, <1>18, <1>19 DEF PatrolStep

\* The turns of the tick after which it approaches a role or restores one.
LEMMA SchedulerGoesTo ==
  ASSUME DeliveryTypeOK, SchedulerStep
  PROVE  LET s == task'[Scheduler].step
             p == task[Scheduler].on IN
         \/ s \notin {"approaching", "restoring", "restored"}
         \/ s = "approaching" /\ Ready /\ task'[Scheduler].reply = "none"
         \/ s = "restoring" /\ RevokerRestores(Entitlement(p)) /\ task'[Scheduler].on = p
<1> DEFINE a == Scheduler
<1>1. a \in Actor /\ Idle.step = "idle"
  BY Names DEF Idle
<1>2. \A p, t : ObserveClaim(p, t) => task'[a].step = "observing"
  BY <1>1, TurnMoves DEF ObserveClaim
<1>3. InspectLock => task'[a].step = "inspecting"
  BY <1>1, TurnMoves DEF InspectLock
<1>4. \A p : RevocationAtOnce(p) => task'[a].step = "idle"
  BY <1>1 DEF RevocationAtOnce
<1>5. \A p : ApproachRole(p) => task'[a].step = "approaching" /\ Ready /\ task'[a].reply = "none"
  BY <1>1, TurnMoves DEF ApproachRole
<1>6. \A d : RevokerEnds(d) => task'[a].step = "idle"
  BY <1>1, TurnMoves DEF RevokerEnds
<1>7. \A p : RevokerRemoves(p) => task'[a].step = "removing"
  BY <1>1, TurnMoves DEF RevokerRemoves, Go
<1>8. \A e : RevokerRestores(e) => task'[a].step = "restoring" /\ task'[a].on = task[a].on
  BY <1>1, TurnMoves DEF RevokerRestores, Turn, DeliveryTypeOK
<1>9. ConvergeClaim \/ RecoverLock(a) \/ RevokerDefers \/ MemberAbsent \/ RevokerLosesTrack =>
        task'[a].step = "idle"
  BY <1>1, TurnMoves DEF ConvergeClaim, RecoverLock, RevokerDefers, MemberAbsent, RevokerLosesTrack
<1>10. RevokerDecides \/ RevokerChecks =>
         \/ task'[a].step \in {"idle", "removing"}
         \/ RevokerRestores(Entitlement(task[a].on))
  BY <1>6, <1>7 DEF RevokerDecides, RevokerChecks
<1> QED
  BY <1>2, <1>3, <1>4, <1>5, <1>8, <1>9, <1>10 DEF SchedulerStep, SchedulerGoesOn

LEMMA SchedulerKeepsGrounded ==
  ASSUME Premises, SchedulerStep
  PROVE  Grounded'
<1> DEFINE a == Scheduler
<1>1. /\ a \in Actor /\ Alone(a) /\ UNCHANGED <<role, outside>>
      /\ task' = task \/ task'[a].reply = "none"
  BY Names, SchedulerFrame DEF Premises, world
<1>2. MissingStays'
  <2>1. CASE task' = task
    BY <1>1, <2>1 DEF Premises, Grounded, MissingStays
  <2>2. CASE task'[a].reply = "none"
    BY <1>1, <2>2, MissingKept DEF Premises, Grounded
  <2> QED
    BY <1>1, <2>1, <2>2
<1>3. PatrolRemembers'
  BY <1>1, Names DEF Premises, Grounded, PatrolRemembers, Alone
<1>4. MarkIsProved'
  <2>1. SUFFICES ASSUME task'[a].step \in {"restoring", "restored"}, task'[a].mark
                 PROVE  \E q \in Purchase \ {task'[a].on} : Active(q)' /\ Evidence(q)'
    BY DEF MarkIsProved
  <2> DEFINE e == Entitlement(task[a].on)
  <2>2. RevokerRestores(e) /\ task'[a].on = task[a].on
    BY <2>1, SchedulerGoesTo DEF Premises
  <2> HIDE DEF e
  <2>3. task'[a].mark = (e = "delivered") /\ UNCHANGED vars
    BY <1>1, <2>2, TurnMoves DEF RevokerRestores, Premises
  <2>4. e = "delivered"
    BY <2>1, <2>3
  <2>5. PICK q \in Purchase \ {task[a].on} : Active(q) /\ Evidence(q)
    BY <2>4 DEF e, Entitlement, Others
  <2>6. Active(q)' /\ Evidence(q)'
    BY <2>3, <2>5 DEF vars, delivery, human, Active, Evidence, OperatorSaid
  <2> QED
    BY <2>2, <2>5, <2>6
<1>5. StaleReading'
  <2>1. SUFFICES ASSUME task'[a].step = "approaching" PROVE StaleReading'
    BY DEF StaleReading
  <2>2. Ready /\ task'[a].reply = "none"
    BY <2>1, SchedulerGoesTo DEF Premises
  <2>3. task'[Startup] = Idle
    BY <1>1, <2>2, Names DEF Ready, Alone
  <2> QED
    BY <2>2, <2>3 DEF StaleReading
<1>6. role' = "gone" => outside' > 0
  BY <1>1 DEF Premises, Grounded
<1> QED
  BY <1>2, <1>3, <1>4, <1>5, <1>6 DEF Grounded

\* A request of anybody but the scheduler adds or undoes.
LEMMA OthersAddOrUndo ==
  ASSUME DeliveryTypeOK, NEW a \in Actor, a # Scheduler, task[a].step \in CallSteps
  PROVE  /\ task[a].step \in {"adding", "undoing"} /\ a # Startup
         /\ a \in Worker => task[a].step = "adding"
         /\ a \in Worker \/ a \in Patrol
<1>1. task[a] \in TaskOf(a) /\ task[a] # Idle
  BY DEF DeliveryTypeOK, Idle, CallSteps
<1>2. task[a] \notin LockTasks
  BY DEF LockTasks, Doing, CallSteps
<1>3. CASE a \in Worker
  <2>1. task[a] \in WorkerTasks(a)
    BY <1>1, <1>3, Tasks
  <2> QED
    BY <1>3, <2>1, Names DEF WorkerTasks, Doing, CallSteps
<1>4. CASE a \in Patrol
  <2>1. task[a] \in PatrolTasks
    BY <1>1, <1>4, Tasks
  <2> QED
    BY <1>4, <2>1, Names DEF PatrolTasks, Doing, CallSteps
<1> QED
  BY <1>1, <1>2, <1>3, <1>4, Tasks DEF Actor

LEMMA RequestKeepsGrounded ==
  ASSUME Premises, NEW a \in Actor, Call(a)
  PROVE  Grounded'
<1>1. /\ Alone(a) /\ task'[a].step = AfterCall(task[a].step) /\ task'[a].reply = "none"
      /\ task'[a].mark = task[a].mark
  BY TurnMoves DEF Call, Go, Premises
<1>2. /\ task[a].step \in CallSteps /\ lock = a /\ lock' = lock /\ outside' = outside
  BY CallerHolds DEF Call, Premises
<1>3. role' # role => role # "gone" /\ role' = Goal(task[a].step) /\ role' # "gone"
  BY DEF Call, MayChange, Goal
<1>4. CASE a = Scheduler
  <2>1. /\ task[a].step \in {"restoring", "removing"}
        /\ task'[a].step \in {"restored", "removed"}
        /\ task'[a].step = "restored" => task[a].step = "restoring"
    <3>1. task[a].step \notin {"adding", "undoing"}
      <4>1. task[a] \in {Idle} \cup (ClaimTasks \cup LockTasks \cup RevokerTasks)
        BY <1>4, Names, Tasks DEF DeliveryTypeOK, Premises
      <4>2. task[a] = Idle => task[a].step = "idle"
        BY DEF Idle
      <4>3. task[a] \in ClaimTasks => task[a].step = "observing"
        BY DEF ClaimTasks, Doing
      <4>4. task[a] \in LockTasks => task[a].step = "inspecting"
        BY DEF LockTasks, Doing
      <4>5. task[a] \in RevokerTasks => task[a].step \notin {"adding", "undoing"}
        BY DEF RevokerTasks, Doing
      <4> QED
        BY <4>1, <4>2, <4>3, <4>4, <4>5
    <3> QED
      BY <1>1, <1>2, <3>1 DEF CallSteps, AfterCall
  <2>2. task'[a].on = task[a].on
    BY DEF Call, Go, Turn, Premises, DeliveryTypeOK
  <2>3. MissingStays'
    BY <1>1, <1>2, MissingKept DEF Premises, Grounded
  <2>4. PatrolRemembers'
    BY <1>1, <1>4, Names DEF Premises, Grounded, PatrolRemembers, Alone
  <2>5. MarkIsProved'
    <3>1. SUFFICES ASSUME task[a].step = "restoring", task[a].mark
                   PROVE  \E q \in Purchase \ {task[a].on} : Active(q)' /\ Evidence(q)'
      BY <1>1, <1>4, <2>1, <2>2 DEF MarkIsProved
    <3>2. task[a] # Idle
      BY <3>1 DEF Idle
    <3> QED
      BY <1>4, <2>2, <3>1, <3>2, MarkKept DEF Premises, Grounded
  <2>6. StaleReading'
    BY <1>4, <2>1 DEF StaleReading
  <2>7. role' = "gone" => outside' > 0
    BY <1>2, <1>3 DEF Premises, Grounded
  <2> QED
    BY <2>3, <2>4, <2>5, <2>6, <2>7 DEF Grounded
<1>5. CASE a # Scheduler
  <2>1. /\ task[a].step \in {"adding", "undoing"} /\ a # Startup
        /\ a \in Worker => task[a].step = "adding"
        /\ a \in Worker \/ a \in Patrol
    BY <1>2, <1>5, OthersAddOrUndo DEF Premises
  <2>2. /\ task[a].step = "adding" => task'[a].step = "checking"
        /\ task[a].step = "undoing" => task'[a].step = "undone" /\ Goal(task[a].step) = "off"
    BY <1>1 DEF AfterCall, Goal
  <2>3. a \in Patrol /\ task[a].step = "adding" => task[a].mark
    BY DEF Premises, Grounded, PatrolRemembers
  <2>4. a \in Patrol /\ task'[a].step \in {"adding", "checking"} => task'[a].mark
    BY <1>1, <2>1, <2>2, <2>3
  <2>5. SUFFICES ASSUME task[Scheduler].step = "approaching", role = "on" => Founded, role' = "on"
                 PROVE  Founded'
    BY <1>1, <1>2, <1>3, <1>5, <2>1, <2>4, OthersKeepGrounded DEF Premises
  <2>6. task[Scheduler] # Idle
    BY <2>5 DEF Idle
  <2>7. /\ lock' = a /\ MayHaveAdded(a)' => Founded'
        /\ Founded /\ lock = a /\ ~MayHaveAdded(a) => Founded'
    BY <1>1, <2>6, FoundedMoves DEF Premises
  <2>8. CASE task[a].step = "adding"
    <3>1. MayHaveAdded(a)'
      BY <1>1, <2>1, <2>2, <2>3, <2>8 DEF MayHaveAdded
    <3> QED
      BY <1>2, <2>7, <3>1
  <2>9. CASE task[a].step = "undoing"
    <3>1. Founded
      BY <1>3, <2>2, <2>5, <2>9
    <3>2. MayHaveAdded(a) => MayHaveAdded(a)'
      BY <1>1, <2>1, <2>2, <2>9 DEF MayHaveAdded
    <3> QED
      BY <1>2, <2>7, <3>1, <3>2
  <2> QED
    BY <2>1, <2>8, <2>9
<1> QED
  BY <1>4, <1>5

\* An answer changes nothing but what the handler that waits for it will see.
LEMMA AnswerKeepsGrounded ==
  ASSUME Premises, NEW a \in Actor, NEW answer \in {"on", "off", "gone", "failed"},
         Answer(a, answer)
  PROVE  Grounded'
<1>1. /\ Alone(a) /\ task'[a].step = task[a].step /\ task'[a].reply = answer
      /\ task'[a].mark = task[a].mark /\ answer \in {role, "failed"}
      /\ UNCHANGED <<lock, role, outside, status, vars>>
  BY TurnMoves DEF Answer, Premises, vars
<1>2. task'[a].on = task[a].on
  BY DEF Answer, Turn, Premises, DeliveryTypeOK
<1>3. \A b \in Actor :
        /\ task'[b].step = task[b].step /\ task'[b].mark = task[b].mark
        /\ task'[b].on = task[b].on
        /\ b # a => task'[b] = task[b]
  BY <1>1, <1>2 DEF Alone
<1>4. MissingStays'
  BY <1>1, MissingKept DEF Premises, Grounded
<1>5. PatrolRemembers'
  BY <1>3, Names DEF Premises, Grounded, PatrolRemembers
<1>6. MarkIsProved'
  <2>1. SUFFICES ASSUME task[Scheduler].step \in {"restoring", "restored"}, task[Scheduler].mark
                 PROVE  \E q \in Purchase \ {task[Scheduler].on} : Active(q)' /\ Evidence(q)'
    BY <1>3, Names DEF MarkIsProved
  <2>2. task[Scheduler] # Idle
    BY <2>1 DEF Idle
  <2> QED
    BY <1>3, <2>1, <2>2, Names, MarkKept DEF Premises, Grounded
<1>7. StaleReading'
  <2>1. SUFFICES ASSUME task[Scheduler].step = "approaching" PROVE StaleReading'
    BY <1>3, Names DEF StaleReading
  <2>2. a # Startup /\ task'[Startup] = Idle
    <3>1. task[Startup].step = "idle" /\ task[Startup] = Idle
      BY <2>1 DEF Premises, Grounded, StaleReading, Idle
    <3>2. a # Startup
      BY <3>1 DEF Answer, OwnReads, OpenReads
    <3> QED
      BY <1>3, <3>1, <3>2, Names
  <2>3. Founded => Founded'
    <3>1. Ground => Ground'
      BY <1>1 DEF Ground, Refunded, Active
    <3>2. \A b \in Actor : MayHaveAdded(b)' <=> MayHaveAdded(b)
      BY <1>3 DEF MayHaveAdded
    <3> QED
      BY <1>1, <3>1, <3>2 DEF Founded
  <2>4. /\ task[Scheduler].reply \in {"off", "gone"} /\ role = "on" => Founded
        /\ task[Scheduler].reply = "gone" => outside > 0 /\ (role # "gone" => outside > 1)
    BY <2>1 DEF Premises, Grounded, StaleReading
  <2>5. role = "gone" => outside > 0
    BY DEF Premises, Grounded
  <2>6. CASE a = Scheduler
    BY <1>1, <2>2, <2>5, <2>6 DEF StaleReading
  <2>7. CASE a # Scheduler
    BY <1>1, <1>3, <2>2, <2>3, <2>4, <2>7, Names DEF StaleReading
  <2> QED
    BY <2>6, <2>7
<1>8. role' = "gone" => outside' > 0
  BY <1>1 DEF Premises, Grounded
<1> QED
  BY <1>4, <1>5, <1>6, <1>7, <1>8 DEF Grounded

LEMMA StartupKeepsGrounded ==
  ASSUME Premises, RecoverLock(Startup)
  PROVE  Grounded'
<1>1. /\ Startup \in Actor /\ Startup # Scheduler /\ Startup \notin Patrol
      /\ task[Startup] # Idle /\ role' = role /\ outside' = outside
  BY Names DEF RecoverLock, At, Idle, world
<1>2. Alone(Startup) /\ task'[Startup].reply = "none"
  <2>1. Idle.reply = "none"
    BY DEF Idle
  <2> QED
    BY <1>1, <2>1, TurnMoves DEF RecoverLock, Premises
<1> QED
  BY <1>1, <1>2, OthersKeepGrounded DEF Premises

LEMMA OutsideKeepsGrounded ==
  ASSUME Premises, Outside
  PROVE  Grounded'
<1>1. /\ role' # "on" /\ outside' = outside + 1 /\ outside \in Nat
      /\ task' = task /\ UNCHANGED vars
  BY DEF Outside, Premises, DeliveryTypeOK
<1>2. MissingStays' /\ PatrolRemembers'
  BY <1>1 DEF Premises, Grounded, MissingStays, PatrolRemembers
<1>3. MarkIsProved'
  BY <1>1 DEF Premises, Grounded, MarkIsProved, vars, delivery, human, Active, Evidence,
     OperatorSaid
<1>4. StaleReading'
  BY <1>1 DEF Premises, Grounded, StaleReading
<1> QED
  BY <1>1, <1>2, <1>3, <1>4 DEF Grounded

\* Contracts change while the tick works: none expires under it.
LEMMA ContractsKeepGrounded ==
  ASSUME Premises, ContractStep
  PROVE  Grounded'
<1>1. UNCHANGED <<role, lock, task, outside>>
  BY DEF ContractStep, world
<1>2. MissingStays' /\ PatrolRemembers'
  BY <1>1 DEF Premises, Grounded, MissingStays, PatrolRemembers
<1>3. MarkIsProved'
  <2>1. SUFFICES ASSUME task[Scheduler].step \in {"restoring", "restored"}, task[Scheduler].mark
                 PROVE  \E q \in Purchase \ {task[Scheduler].on} : Active(q)' /\ Evidence(q)'
    BY <1>1 DEF MarkIsProved
  <2>2. task[Scheduler] # Idle
    BY <2>1 DEF Idle
  <2> QED
    BY <1>1, <2>1, <2>2, MarkKept DEF Premises, Grounded
<1>4. StaleReading'
  <2>1. SUFFICES ASSUME task[Scheduler].step = "approaching", Founded PROVE Founded'
    BY <1>1 DEF Premises, Grounded, StaleReading
  <2>2. Ground => Ground'
    <3>1. task[Scheduler] # Idle
      BY <2>1 DEF Idle
    <3> QED
      BY <3>1, GroundKept DEF Premises
  <2>3. \A b \in Actor : MayHaveAdded(b)' <=> MayHaveAdded(b)
    BY <1>1 DEF MayHaveAdded
  <2> QED
    BY <1>1, <2>1, <2>2, <2>3 DEF Founded
<1> QED
  BY <1>1, <1>2, <1>3, <1>4 DEF Premises, Grounded

LEMMA RestartKeepsGrounded ==
  ASSUME Premises, CrashAndRestart
  PROVE  Grounded'
<1> DEFINE begun == [Idle EXCEPT !.step = "inspecting"]
<1>1. task' = [a \in Actor |-> IF a = Startup /\ lock # Free THEN begun ELSE Idle]
  BY DEF CrashAndRestart
<1>2. \A a \in Actor : task'[a].step \in {"idle", "inspecting"}
  BY <1>1 DEF Idle
<1>3. MissingStays' /\ PatrolRemembers' /\ MarkIsProved' /\ StaleReading'
  BY <1>2, Names DEF MissingStays, PatrolRemembers, MarkIsProved, StaleReading, OwnReads
<1>4. role' = "gone" => role = "gone"
  BY DEF CrashAndRestart, world, MayChange, Goal
<1>5. outside' = outside
  BY DEF CrashAndRestart
<1> QED
  BY <1>3, <1>4, <1>5 DEF Premises, Grounded

LEMMA GroundedStep ==
  ASSUME Premises
  PROVE  Grounded'
<1>1. CASE UNCHANGED dvars
  <2>1. UNCHANGED <<vars, role, lock, task, outside>>
    BY <1>1 DEF dvars, world
  <2>2. MissingStays' /\ PatrolRemembers'
    BY <2>1 DEF Premises, Grounded, MissingStays, PatrolRemembers
  <2>3. MarkIsProved'
    BY <2>1 DEF Premises, Grounded, MarkIsProved, vars, delivery, human, Active, Evidence,
       OperatorSaid
  <2>4. Founded => Founded'
    BY <2>1 DEF Founded, Ground, Refunded, Active, MayHaveAdded, vars
  <2>5. StaleReading'
    BY <2>1, <2>4 DEF Premises, Grounded, StaleReading
  <2> QED
    BY <2>1, <2>2, <2>3, <2>5 DEF Premises, Grounded
<1>2. DeliveryNext => Grounded'
  BY WorkerKeepsGrounded, PatrolKeepsGrounded, SchedulerKeepsGrounded, StartupKeepsGrounded,
     RequestKeepsGrounded, AnswerKeepsGrounded, OutsideKeepsGrounded, ContractsKeepGrounded,
     RestartKeepsGrounded DEF DeliveryNext, HandlerStep
<1> QED
  BY <1>1, <1>2 DEF Premises

LEMMA GroundedInit ==
  ASSUME DeliveryInit PROVE Grounded
<1>1. role = "off" /\ \A a \in Actor : task[a].step = "idle"
  BY DEF DeliveryInit, Idle
<1> QED
  BY <1>1, Names DEF Grounded, MissingStays, PatrolRemembers, MarkIsProved, StaleReading, OwnReads

\* Where a revocation is closed over a role that the buyer has.
ClosedOver(p) ==
  \/ role # "on" \/ Others(p) # {} \/ Refunded
  \/ outside > 1 /\ lock # Free

LEMMA RightIsEnded ==
  ASSUME Premises, RevocationIsJustified, NEW p \in Purchase,
         revocation[p] = "pending", revocation'[p] = "done"
  PROVE  ClosedOver(p)
<1> DEFINE a == Scheduler
<1> SUFFICES ASSUME role = "on"
             PROVE  Others(p) # {} \/ Refunded \/ (outside > 1 /\ lock # Free)
  BY DEF ClosedOver
<1>1. Ground => Others(p) # {} \/ Refunded
  <2>1. ~Active(p)
    BY DEF RevocationIsJustified, Active
  <2> QED
    BY <2>1 DEF Ground, Others
<1>2. Founded /\ lock = Free => Ground
  BY Names DEF Founded
<1>3. Entitlement(p) # "none" => Others(p) # {}
  BY DEF Entitlement
<1>4. ~UNCHANGED vars
  BY DEF vars, term
<1>5. \A e : ~RevokerRestores(e) /\ ~RevokerRemoves(p) /\ ~RevokerEnds(FALSE)
  BY <1>4 DEF RevokerRestores, RevokerRemoves, RevokerEnds
<1>6. CASE RevocationAtOnce(p)
  BY <1>3, <1>6 DEF RevocationAtOnce
<1>7. CASE MemberAbsent
  <2>1. task[a].step = "approaching" /\ task[a].reply = "gone"
    BY <1>7 DEF MemberAbsent, At
  <2>2. Founded /\ outside > 1
    BY <2>1 DEF Premises, Grounded, StaleReading
  <2> QED
    BY <1>1, <1>2, <2>2
<1>8. CASE p = task[a].on /\ RevokerDecides
  <2>1. CASE task[a].reply = "on"
    BY <1>3, <1>5, <1>8, <2>1 DEF RevokerDecides
  <2>2. CASE task[a].reply # "on"
    <3>1. task[a].step = "approaching" /\ task[a].reply = "off" /\ lock = Free
      BY <1>8, <2>2 DEF RevokerDecides, At
    <3>2. Founded
      BY <3>1 DEF Premises, Grounded, StaleReading
    <3> QED
      BY <1>1, <1>2, <3>1, <3>2
  <2> QED
    BY <2>1, <2>2
<1>9. CASE p = task[a].on /\ RevokerChecks
  <2>1. ~At(a, "removed", {"off"})
    BY Names DEF At, Premises, Grounded, MissingStays, OwnReads
  <2>2. At(a, "restored", {"on"}) /\ RevokerEnds(task[a].mark)
    BY <1>5, <1>9, <2>1 DEF RevokerChecks
  <2>3. task[a].mark
    BY <1>4, <2>2 DEF RevokerEnds
  <2>4. PICK q \in Purchase \ {p} : Active(q)
    BY <1>9, <2>2, <2>3 DEF At, Premises, Grounded, MarkIsProved
  <2> QED
    BY <2>4 DEF Others
<1> QED
  BY <1>6, <1>7, <1>8, <1>9, WhoCloses DEF Premises

\* The facts that every state and every step of the delivery meets.
LEMMA GroundedAlways == DeliverySpec => [](Grounded /\ RevocationIsJustified)
<1>1. DeliveryInit => Grounded
  BY GroundedInit
<1>2. /\ TypeOK /\ RefundExcludesDelivery' /\ DeliveryTypeOK /\ OneHandOnTheRole /\ Grounded
      /\ [DeliveryNext]_dvars
      => Grounded'
  BY GroundedStep DEF Premises
<1> QED
  BY <1>1, <1>2, HandsKept, DeliveryImplementsContract, TypeCorrect, MoneyOrService,
     RevocationIsAlwaysJustified, PTL DEF DeliverySpec

\* A revocation closed while the buyer has the role is closed over another running
\* contract, unless a contract was paid back or a member who had left came back and
\* got the role from a handler that still holds the lock: the turn that finds the
\* member absent is the only one that closes without asking for it
\* (scheduler-recovery.ts:674-676).
THEOREM RevocationEndsUnlessOvertaken ==
  DeliverySpec =>
    [][\A p \in Purchase :
         revocation[p] = "pending" /\ revocation'[p] = "done" => ClosedOver(p)]_dvars
<1>1. /\ TypeOK /\ RefundExcludesDelivery' /\ DeliveryTypeOK /\ OneHandOnTheRole /\ Grounded
      /\ RevocationIsJustified /\ [DeliveryNext]_dvars
      => [\A p \in Purchase :
           revocation[p] = "pending" /\ revocation'[p] = "done" => ClosedOver(p)]_dvars
  BY RightIsEnded DEF Premises
<1> QED
  BY <1>1, GroundedAlways, HandsKept, DeliveryImplementsContract, TypeCorrect, MoneyOrService,
     PTL DEF DeliverySpec

\* As long as no contract is paid back and the buyer's membership or role changes at
\* most once by other hands, a revocation is closed only over the role it was decided
\* for, through restarts, lost answers and stale readings.
THEOREM RevocationSound ==
  DeliverySpec /\ [](~Refunded /\ outside <= 1) => RevocationIsSound
<1>1. ~Refunded /\ outside <= 1
      /\ [\A p \in Purchase :
            revocation[p] = "pending" /\ revocation'[p] = "done" => ClosedOver(p)]_dvars
      /\ DeliveryTypeOK
      => [\A p \in Purchase :
            revocation[p] = "pending" /\ revocation'[p] = "done" =>
              role # "on" \/ Others(p) # {}]_dvars
  BY DEF ClosedOver, DeliveryTypeOK
<1> QED
  BY <1>1, RevocationEndsUnlessOvertaken, RoleIsGivenBack, DeliveryTypeCorrect, PTL
  DEF RevocationIsSound, RevocationEndsTheRight
=============================================================================
