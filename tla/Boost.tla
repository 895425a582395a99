-------------------------------- MODULE Boost --------------------------------
(***************************************************************************)
(* The server boost reward, apps/bot/src/boost-reward.ts with the triggers *)
(* of packages/core/src/ledger/boost-guard.ts: a boost announced by        *)
(* Discord is paid once, the first MonthlyLimit of a month only, and the   *)
(* boosts of one user in the order they happened.  Messages are missed     *)
(* while the bot is down and found again by a scan of the channel's        *)
(* history; a payment may be refused and then blocks the later ones.       *)
(*                                                                         *)
(* A boost is numbered by its time on Discord.                             *)
(***************************************************************************)
EXTENDS Ledger

CONSTANTS
  MaxBoosts,     \* bound: boosts in a behaviour
  Author,        \* boost |-> the account of its author
  Month,         \* boost |-> the month it falls in
  Reward,        \* Land paid for one boost
  MonthlyLimit,  \* paid boosts of a user in a month
  MaxStops,      \* bound: stops of the bot
  MaxFreezes     \* bound: changes of an account's status

Boosts == 1..MaxBoosts

ASSUME BoostAssumption ==
  /\ MaxBoosts \in Nat /\ MonthlyLimit \in Nat
  /\ Author \in [Boosts -> Account \ {Treasury}]
  /\ DOMAIN Month = Boosts
  /\ Reward \in 1..MaxAmount
  /\ \A e \in Boosts : <<"boost", e>> \in Key

VARIABLES
  now,        \* boosts that happened on Discord: 1..now
  wire,       \* live messages on their way to the bot
  rewards,    \* boost_reward_events: boost |-> "none", "paid", "capped"
  pending,    \* boost_reward_pending
  startedAt,  \* start of the automation, 0 before it
  watermark,  \* from where the next scan reads
  phase,      \* "down", "starting", "recovering", "idle", "blocked"
  blocked,    \* memory: user |-> first unresolved boost, or 0
  queue,      \* memory: live boosts that wait
  found,      \* memory of the scan: boosts to work off
  deferred,   \* memory of the scan: put off to the next one
  failedUsers,\* memory of the scan: users with a refused boost
  scanAt,     \* memory of the scan: when it began
  stops, freezes

durable == <<rewards, pending, startedAt, watermark>>
memory == <<blocked, queue, found, deferred, failedUsers, scanAt>>
boostBounds == <<stops, freezes>>
boostVars ==
  <<ledgerVars, now, wire, durable, phase, memory, boostBounds>>

User == {Author[e] : e \in Boosts}

BoostKey(e) == <<"boost", e>>

BoostRequest(e) ==
  [key |-> BoostKey(e), from |-> Treasury, to |-> Author[e], amount |-> Reward,
   type |-> "reward_boost", approved |-> FALSE]

PaidCount(e) ==
  Cardinality({t \in transactions :
                 \E d \in Boosts : /\ t.key = BoostKey(d) /\ ~t.reversal
                                   /\ Author[d] = Author[e]
                                   /\ Month[d] = Month[e]})

OverLimitByOne(e) == PaidCount(e) > MonthlyLimit      \* mutant: off by one
OverLimit(e) == PaidCount(e) >= MonthlyLimit

EarliestOf(u, events) ==
  IF \E e \in events : Author[e] = u
  THEN Min({e \in events : Author[e] = u})
  ELSE 0

\* rememberPendingBoostEvent, for a boost since the start of the automation.
Counts(e) == startedAt # 0 /\ e >= startedAt

Remembered(e) ==
  IF Counts(e) /\ rewards[e] = "none" THEN pending \union {e} ELSE pending

\* refreshBlockedBoostUser, then isAfterBlocker.
Blocker(e) ==
  IF Counts(e) THEN EarliestOf(Author[e], Remembered(e)) ELSE blocked[Author[e]]

BlockedByEarlier(e) == Blocker(e) # 0 /\ Blocker(e) < e

\* The trigger on transactions: an earlier boost of the user is unresolved.
EarlierPending(e, unresolved) ==
  \E d \in unresolved : d < e /\ Author[d] = Author[e]

-----------------------------------------------------------------------------
\* applyBoostRewardEvent, one database transaction: handled before, over the
\* limit, paid, or refused by the ledger and rolled back to the pending row.
ApplyBoostRewardEvent(e, unresolved) ==
  \/ /\ rewards[e] # "none"
     /\ pending' = unresolved \ {e}
     /\ UNCHANGED <<ledgerVars, rewards>>
  \/ /\ rewards[e] = "none" /\ OverLimit(e)
     /\ rewards' = [rewards EXCEPT ![e] = "capped"]
     /\ pending' = unresolved \ {e}
     /\ UNCHANGED ledgerVars
  \/ /\ rewards[e] = "none" /\ ~OverLimit(e)
     /\ ~EarlierPending(e, unresolved)
     /\ OpenAndTransfer(BoostRequest(e))
     /\ rewards' = [rewards EXCEPT ![e] = "paid"]
     /\ pending' = unresolved \ {e}
  \/ /\ rewards[e] = "none" /\ ~OverLimit(e)
     /\ \/ EarlierPending(e, unresolved)
        \/ ~AcceptsWith(Opened(Author[e]), BoostRequest(e))
     /\ pending' = unresolved
     /\ UNCHANGED <<ledgerVars, rewards>>

\* processBoostRewardMessage: the very first boost may start the automation.
Process(e) ==
  /\ startedAt' = IF startedAt = 0 THEN e ELSE startedAt
  /\ watermark' = IF startedAt = 0 THEN e ELSE watermark
  /\ IF e < startedAt THEN UNCHANGED <<ledgerVars, rewards, pending>>
     ELSE ApplyBoostRewardEvent(e, IF rewards[e] = "none" THEN pending \union {e}
                                                          ELSE pending)

RefreshBlocked(e) ==
  blocked' = IF e < startedAt THEN blocked
             ELSE [blocked EXCEPT ![Author[e]] = EarliestOf(Author[e], pending')]

\* A boost on Discord: announced at once if the bot is there to hear it.
BoostHappens ==
  /\ now < MaxBoosts
  /\ now' = now + 1
  /\ wire' = IF phase = "down" THEN {} ELSE wire \union {now'}
  /\ UNCHANGED <<ledgerVars, durable, phase, memory, boostBounds>>

\* The barrier of the scan.  The variable recoveryState of the program is "idle"
\* until the scan begins.
PaysWhileReading == phase \in {"starting", "recovering", "idle"}   \* mutant: no barrier
PaysAtOnce == phase \in {"starting", "idle"}

\* handleBoostRewardMessage: paid now, or queued while the scan is running or
\* failed and behind an unresolved boost.
HandleBoostRewardMessage ==
  /\ wire # {}
  /\ LET e == Min(wire)
     IN /\ wire' = wire \ {e}
        /\ IF PaysAtOnce /\ ~BlockedByEarlier(e)
           THEN Process(e) /\ UNCHANGED queue
           ELSE /\ queue' = queue \union {e}
                /\ pending' = Remembered(e)
                /\ UNCHANGED <<ledgerVars, rewards, startedAt, watermark>>
        /\ RefreshBlocked(e)
  /\ UNCHANGED <<now, phase, found, deferred, failedUsers, scanAt, boostBounds>>

NoMemory ==
  /\ blocked' = [u \in User |-> 0]
  /\ queue' = {} /\ found' = {} /\ deferred' = {} /\ failedUsers' = {}
  /\ scanAt' = 0

Start ==
  /\ phase = "down"
  /\ phase' = "starting"
  /\ NoMemory
  /\ UNCHANGED <<ledgerVars, now, wire, durable, boostBounds>>

Stop ==
  /\ phase # "down" /\ stops < MaxStops
  /\ stops' = stops + 1
  /\ phase' = "down" /\ wire' = {}
  /\ NoMemory
  /\ UNCHANGED <<ledgerVars, now, durable, freezes>>

Restored == [u \in User |-> EarliestOf(u, pending)]

\* initializeBoostRewardRecovery.  Without the guild, the channel or the
\* permissions, or if Discord does not answer, the bot pays nothing.
InitializeFails ==
  /\ phase = "starting"
  /\ blocked' = Restored
  /\ phase' = "blocked"
  /\ UNCHANGED <<ledgerVars, now, wire, durable, queue, found, deferred,
                 failedUsers, scanAt, boostBounds>>

\* The first time nothing is read: what happened before is not paid.
FirstInitialize ==
  /\ phase = "starting" /\ startedAt = 0
  /\ startedAt' = now + 1 /\ watermark' = now + 1
  /\ blocked' = Restored
  /\ phase' = "recovering" /\ scanAt' = now
  /\ UNCHANGED <<ledgerVars, now, wire, rewards, pending, queue, found, deferred,
                 failedUsers, boostBounds>>

ReadHistory ==
  /\ phase = "starting" /\ startedAt # 0
  /\ blocked' = Restored
  /\ found' = {e \in 1..now : e >= startedAt /\ e >= watermark}
  /\ phase' = "recovering" /\ scanAt' = now
  /\ UNCHANGED <<ledgerVars, now, wire, durable, queue, deferred, failedUsers,
                 boostBounds>>

\* The loop takes the earliest of the history and of the queue.
Pool == found \union queue

RecoverOne ==
  /\ phase = "recovering" /\ Pool # {}
  /\ LET e == Min(Pool)
         u == Author[e]
     IN /\ found' = Pool \ {e} /\ queue' = {}
        /\ IF u \in failedUsers \/ BlockedByEarlier(e)
           THEN /\ deferred' = deferred \union {e}
                /\ pending' = Remembered(e)
                /\ UNCHANGED <<ledgerVars, rewards, startedAt, watermark,
                               failedUsers>>
           ELSE /\ Process(e)
                /\ failedUsers' = IF e \in pending' THEN failedUsers \union {u}
                                                   ELSE failedUsers
                /\ UNCHANGED deferred
        /\ RefreshBlocked(e)
  /\ UNCHANGED <<now, wire, phase, scanAt, boostBounds>>

NextWatermarkNow == scanAt      \* mutant: does not stay at an unresolved boost
NextWatermark ==
  LET unresolved == {blocked[u] : u \in User} \ {0}
  IN IF unresolved = {} THEN scanAt ELSE Min(unresolved)

FinishRecovery ==
  /\ phase = "recovering" /\ Pool = {}
  /\ queue' = deferred
  /\ deferred' = {} /\ failedUsers' = {}
  /\ watermark' = NextWatermark
  /\ phase' = "idle" /\ scanAt' = 0
  /\ UNCHANGED <<ledgerVars, now, wire, rewards, pending, startedAt, blocked,
                 found, boostBounds>>

\* The fetch or a write of the scan throws: nothing is paid until a restart.
RecoveryThrows ==
  /\ phase = "recovering"
  /\ phase' = "blocked"
  /\ found' = {} /\ deferred' = {} /\ failedUsers' = {} /\ scanAt' = 0
  /\ UNCHANGED <<ledgerVars, now, wire, durable, blocked, queue, boostBounds>>

\* The script an operator runs while the bot is stopped, oldest boost first.
ResolvePending(u) ==
  LET e == EarliestOf(u, pending)
  IN /\ phase = "down" /\ e # 0
     /\ ApplyBoostRewardEvent(e, pending)
     /\ UNCHANGED <<now, wire, startedAt, watermark, phase, memory, boostBounds>>

FreezeAuthor(a, s) ==
  /\ freezes < MaxFreezes
  /\ freezes' = freezes + 1
  /\ SetAccountStatus(a, s)
  /\ UNCHANGED <<now, wire, durable, phase, memory, stops>>

BoostInit ==
  /\ LedgerInit
  /\ now = 0 /\ wire = {}
  /\ rewards = [e \in Boosts |-> "none"] /\ pending = {}
  /\ startedAt = 0 /\ watermark = 0
  /\ phase = "down"
  /\ blocked = [u \in User |-> 0]
  /\ queue = {} /\ found = {} /\ deferred = {} /\ failedUsers = {} /\ scanAt = 0
  /\ stops = 0 /\ freezes = 0

BoostNext ==
  \/ BoostHappens \/ HandleBoostRewardMessage
  \/ Start \/ Stop
  \/ InitializeFails \/ FirstInitialize \/ ReadHistory
  \/ RecoverOne \/ FinishRecovery \/ RecoveryThrows
  \/ \E u \in User : ResolvePending(u)
  \/ \E a \in Freezable, s \in {"active", "frozen"} : FreezeAuthor(a, s)

BoostSpec == BoostInit /\ [][BoostNext]_boostVars

-----------------------------------------------------------------------------
\* The state is well formed.
BoostTypeOK ==
  /\ LedgerTypeOK
  /\ now \in 0..MaxBoosts /\ wire \subseteq 1..now
  /\ rewards \in [Boosts -> {"none", "paid", "capped"}]
  /\ pending \subseteq 1..now
  /\ startedAt \in Nat /\ watermark \in Nat
  /\ phase \in {"down", "starting", "recovering", "idle", "blocked"}
  /\ blocked \in [User -> {0} \union Boosts]
  /\ queue \union found \union deferred \subseteq 1..now
  /\ failedUsers \subseteq User /\ scanAt \in 0..now
  /\ stops \in 0..MaxStops /\ freezes \in 0..MaxFreezes

Paid(e) == \E t \in transactions : t.key = BoostKey(e)

\* Live messages, the scan, the operator's script and restarts all pay from
\* one record: the record says "paid" exactly when the Land was paid, and a
\* user never gets more than the limit of a month.
PaidOnceWithinLimit ==
  \A e \in Boosts :
    /\ rewards[e] = "paid" <=> Paid(e)
    /\ PaidCount(e) =< MonthlyLimit

\* No boost slips through: whatever is refused, put off, missed or interrupted,
\* a boost that counts and has no answer is within reach of the next scan.
NoBoostForgotten ==
  \A e \in 1..now :
    startedAt # 0 /\ e >= startedAt /\ rewards[e] = "none" => e >= watermark

\* Both together: every boost that counts is paid once, or still will be.
BoostsPaidRight == PaidOnceWithinLimit /\ NoBoostForgotten

\* From the beginning of the scan the boosts of a user are paid in the order they
\* happened: live messages, history, the queue and refused payments overtake no boost
\* that counts and has no answer (recoverBoostRewards and its barrier).  Before the
\* scan begins, and from the operator's script, they may: see below.
PaidInOrder ==
  [][\A d, e \in Boosts :
       /\ phase \in {"recovering", "idle"}
       /\ d < e /\ Author[d] = Author[e] /\ Counts(d)
       /\ rewards[e] = "none" /\ rewards'[e] = "paid"
       => rewards[d] # "none"]_boostVars

\* boost-reward.ts: "a barrier that keeps a boost arriving while the history is
\* read from being paid first", so that the first boosts of a month are paid.
FirstOfTheMonthArePaid ==
  \A d, e \in Boosts :
    /\ Author[d] = Author[e] /\ Month[d] = Month[e]
    /\ rewards[d] = "capped" /\ rewards[e] = "paid"
    => e < d
=============================================================================
