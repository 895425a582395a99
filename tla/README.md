# Verification of meigokujo

Meigokujo is the bot of one Discord community: an economy (a ledger in Land, an
official shop, a casino with chips) and the community's administration (entry,
evaluation, ranks, rooms, tickets, an anonymous confession box).  It is one Node
process over one SQLite database (better-sqlite3, synchronous) that talks to
Discord asynchronously.  Two things make it hard:

- **The database is transactional and Discord is not.**  Between "claim" and
  "settle" the process may die, Discord may have acted without answering, and
  another handler (a screen, a patrol, the minute scheduler) may run.
- **History is not uniform.**  Rows written before a fact was recorded
  (provenance, delivery state) live on, and "unknown" must become neither
  "delivered" nor "not delivered" by itself.

Every transaction is synchronous, so the atomic steps of the models are the
transactions and the synchronous stretches between two `await`s.

## Inventory

| Component | State | Operations | Interacts with | What is hard | What makes it correct |
|---|---|---|---|---|---|
| Shop contract (`packages/core/src/shop/service.ts`, `shop-refund.ts`) | purchases, external delivery attempts, operator resolutions, verified evidence, refund failures, stock restorations and settlements, role revocations | sale, extension, claim / settle / release / uncertain, in-database effect, manual completion, refund, operator decision, stock change, expiry | ledger, delivery worker, patrol, scheduler, case screens | every order of those operations; old rows; partial failure of a refund | money and service exclude each other; unknown stays unknown; work is in one queue; roles are taken only with proof |
| Delivery worker, patrol (`shop-delivery.ts`, `timed-access.ts`, `external-effect-barrier.ts`, `scheduler-recovery.ts`) | claim token, effect lock per (guild, user, role), answers of Discord | add and remove roles, recover claims and locks, revoke | shop contract, Discord | crash between claim and settle, lost answers, an operator deciding meanwhile, the same role under several contracts | no effect is thrown twice, no unobserved effect is called absent |
| Ledger (`ledger/service.ts`) | accounts, transactions, idempotency keys, reversals | transfer, reverse, freeze, verify | everything with money | repeats, reversals of reversals, limits | conservation, no negative balances, one transfer per key |
| Outbox (`outbox.ts`) | rows, the digest in memory | enqueue, post, retry | ledger, Discord | crash after posting, rows that cannot be sent | nothing lost but a digest, the worker catches up |
| Payroll (`payroll/service.ts`, `payday.ts`) | salary table, runs, panels | draft, approve, execute, retry, cancel | ledger, Discord roles | crash in the middle of a payday, stale panels | everybody is paid what was approved, once; the report is true |
| Boost reward (`boost-reward.ts`, `ledger/boost-guard.ts`) | boost events, pending ones, scan position, queues in memory | pay, scan, block, resolve | ledger, Discord's history | missed and reordered messages, refused payments | once each, in order, within the month's limit, none forgotten |
| Casino chips (`chip-tx.ts`, `exchange.ts`, `escrow.ts`, `reservations.ts`, `daily-risk.ts`) | chip accounts, backing pool, stakes, reservations, daily risk | deposit, redeem, hold, settle, refund, reserve | ledger, games | refusal in the middle of a group, several games at once, midnight | chips are backed, the house can pay, losses stay in the limit |
| Casino tables, market, recovery (`roulette.ts`, `pvp`, `market.ts`, `recovery.ts`, `status.ts`) | seats and phases in memory, boards, status of the casino | sit, bet, settle, void; bet, report, dispute, rule; halt, recover, reopen | chips, scheduler, panel | restart in the middle of a game or of the recovery | every stake ends exactly once |
| Casino opening (`opening-reset.ts`, `opening-execution.ts`) | executions, status, backup | acquire, back up, external step, commit, reopen, resume | whole casino, Discord | interrupted one-time operation, two presses | executed once, all or nothing |
| Games against the house (`apps/bot/src/casino`, `liability.ts`, `items.ts`, `free-spins.ts`) | rounds, charms, free spins, jackpots | open, play, settle, break off | chips | several rounds at once, charms put on meanwhile | the books agree, wins are covered |
| Confession (`confession/service.ts`, `confession-base.ts`, `confession-startup.ts`) | the case, acknowledgements, replies, follow-ups, edits, leases of the bots | claim, send, settle, time out, close, reopen, purge, repair | Discord, scheduler | two starts of the bot overlap, answers come late or never | nothing is sent twice unasked, an end stands, a stale screen is repaired |
| Entry, evaluation, ranks, nicknames, titles, rooms, tickets, activity, settings, dashboard | one table each | see PROJECT.json | Discord, ledger | mostly sequential | see PROJECT.json |

`PROJECT.json` lists every component with its sources, status and the reason
where one is left out, and the hazards of the code at their lines.

## Modules

| Module | Models |
|---|---|
| `ShopContract` | one row of `shop_purchases` and the tables hung on it, for any set of purchases, items, users, roles and claims |
| `ShopShelf` | the same with what administrators put up for sale, as a history variable; EXTENDS `ShopContract` |
| `ShopDelivery` | one Discord role of one buyer and every handler that touches it; EXTENDS and refines `ShopContract` |
| `Bank` | what the ledger promises: an abstract specification |
| `Ledger` | accounts, transactions, reversals; implements `Bank` |
| `Outbox`, `Payroll`, `Boost` | what is built on the ledger; each EXTENDS it and implements `Bank` too |
| `Chips`, `DailyRisk`, `CasinoTables`, `Market`, `CasinoRecovery` | the casino, each EXTENDS the one before |
| `CasinoOpening` | the ladder of the formal opening |
| `SoloGames` | seven games of gamblers against the house |
| `Confession`, `ConfessionScreens` | one conversation and the bots that carry it; the edits of its screen |
| `MCShopContract`, `MCShopShelf`, `MCShopDelivery`, `MCTreasury`, `MCCasino`, `MCHouse`, `MCConfession` | instances for TLC |
| `*_proofs` | theorems, see Proofs |

### ShopContract

One action is one transaction of the service, or one synchronous turn of the
bot that runs several with no `await` between them (`ClaimExternalDelivery` is
`beginDelivery` and `claimExternalDelivery`; `CompleteDeliveryWith` is begin
and completion of an `extend_deadline` delivery).  A refused call changes
nothing and is not a step.  Who calls is left open: a worker, a screen, the
patrol, the scheduler.

| Variable | Column or table |
|---|---|
| `row` | what never changes in a purchase: item, buyer, whether provenance was recorded, what the delivery snapshot says, how it was paid, whether it has a term, which role it proves (`roleGrantTarget`) |
| `status`, `dstate`, `deliveredAt`, `expiresAt` | the columns of `shop_purchases` |
| `attempt` | `shop_external_delivery_attempts`, state per token |
| `verified`, `decisions`, `failures` | `shop_verified_delivery_evidence`, `shop_operator_resolutions`, `shop_refund_failures` |
| `charges`, `repaid` | ledger transfers from the buyer; the key `shop:refund:<id>` |
| `effects` | how often the in-database effect (a longer evaluation deadline) ran |
| `stock`, `consumed`, `restoration`, `settlement` | item stock, provenance, `shop_purchase_stock_restorations`, `shop_stock_restoration_settlements` |
| `revocation` | `shop_role_revocations.status` |

The SQL predicates the code builds every list and guard from (`Evidence`,
`LegacyUnknown`, `Unresolved`, `SettlementPending`, ...) are operators of the
same shape, so that a property about a work list and a guard of a refund speak
of one definition, as in the code.

Abstractions, and why they are faithful:

- The confirmation tokens of screens (`quoteOperatorResolution`,
  `quoteRefundRetry`, `quoteStockChange`) have no variable: a screen whose facts
  changed is refused and leaves no trace, so a decision that goes through was
  made on the present facts.
- A ledger error is a nondeterministic outcome of a refund.
- `Offered` is what the case screen (`shokan.ts`) lets an operator choose; it is
  the only caller of `resolveOperatorCase`.
- An item keeps its kind and its term.  (The code reads them from the item when
  a contract is extended.)
- Initial states hold the purchases older than provenance or paid with an
  alternative resource; a new purchase starts with `BuyPurchase`.

`ShopShelf` adds nothing to what the contract does.  Its variable `supply` records what
`applyStockChange` was asked for (`StockChange`), less the number the item had before, so
that `SlotsConserved` can compare what was put up with what is on the shelf or `Taken`
(sold and not put back).  A slot an administrator counted into his number ("absorbed")
stays taken: his number is new supply.

Not in the module: the right bought for a re-evaluation (a service consumed by
its own flow), the idempotent repeat of a sale or of an extension, the legacy
compatibility branch of `listActiveTimedAccess`, replay suppression of the
one-time migration, the refusal of a buyer who already wears the role.

Two turns of the bot are actions of `ShopContract` because no `await`
divides them: `FailDelivery` (the worker's `fail()`: close the claim and
mark the failure) and `PatrolDelivered` (the patrol saw the role: mark the
delivery, and record the verified evidence if that is allowed).

### ShopDelivery

The handlers of `apps/bot/src` that add or remove one role, and everything they
share: the role itself, the effect lock of the resource, the claim.

| Actor | Handler |
|---|---|
| `Worker` (one per purchase) | `deliverPurchaseUnlocked`, kind `add_role`; `withPurchaseLock` lets one delivery of a purchase run at a time |
| `Patrol` | `reconcileTimedAccessRoles`, called by the scheduler and whenever a member joins |
| `Scheduler` | the minute tick: `convergeExternalDeliveries`, `convergeExternalEffectLocks`, `processShopRoleRevocations` |
| `Startup` | `convergeExternalEffectLocks` after a restart, whose end opens the barrier `awaitExternalEffectReady` |

| Variable | Code |
|---|---|
| `task` | what a handler holds in its local variables between two awaits: its step, its purchase, its claim, one flag (`attempted` of the patrol, the entitlement the revoker acted on) and the reply it is about to look at |
| `lock` | the live row of `shop_external_effect_locks`: its holder, `Uncertain`, `Dead` (held, by a process that no longer runs), or `Free` (no row, settled or released) |
| `tried` | `shop_role_revocations.remove_attempted_at` |
| `role` | Discord's state |
| `unseen`, `taker` | history variables the properties speak about; no action reads them |

An action is the synchronous stretch between two `await`s with every transaction
in it: `SettleOrFlag` with the lock's settlement is one transaction, the release
of the claim and the failure's record are in the turn that ends the handler.
Every change of the database is an action of `ShopContract` (or none), which the
run `delivery_live` checks without restarts and `DeliveryImplementsContract` proves
with them.

What is assumed of Discord, whose code is not here: `roles.add` and
`roles.remove` take effect or not, whatever they answer, and do so before the
next answered reading; a reading may fail, and its answer may be old by the
time the handler looks at it.  A call under way when the process dies may still
arrive, at the moment of the restart.

Abstractions, and why they are faithful:

- The revoker's first `members.fetch` may be served from the cache.  An answer
  that is old when it is looked at covers it.
- `Calm`: a worker that waits for an open barrier goes on before anything else.
  The barrier is a resolved promise, so nothing but other due turns comes between.
- The jobs of a tick run one after the other (`task[Scheduler]`); their order is
  left open, which allows more than the code does.
- `SlowStart` says whether a tick may start while the start-up recovery is still
  reading.  Nothing in the code excludes it (see the remarks); the runs and the
  theorem about the lock take it as FALSE.
- All rows of an instance are external deliveries of the same role by sales that
  recorded provenance (`DeliveryAssumption`).  Renaming, role creation and
  sub accounts use the same claim and the same lock, but refund automatically when
  they fail (`deliverOrRefund`); they are not modelled.
- A revocation without a provable role (`blocked`) is not reachable here:
  `RevocationIsJustified` excludes it for these rows.

### Ledger, Outbox, Payroll, Boost

`Bank` says what the program relies on: a payment is known by its key, moves
money once, is undone at most once by exactly what it moved, and nobody but the
treasury spends what it has not.  `Ledger` is the table: `transactions` with
keys, running balances and reversals, `balance` the cached column, `status` of
the accounts.  `BankSpec` instantiates `Bank` with `balance` and the movements read
off the rows; transaction types count by their direction (the registry).

`Outbox` adds the rows a transfer enqueues and the worker (`batch`, `sending`,
`digest` are its memory, lost at a restart).  `Payroll` pays one person at a time
and may die between two; the panels of the bot are kept with the plan they show,
since a press may come from an old one.  `Boost` numbers boosts by their time on
Discord; `wire` holds the messages under way, `durable` the tables with their
triggers, `memory` what a restart loses.

The run follows one of the three at a time (`part`): they share the ledger and
neither reads nor locks what another writes.

### Casino

`Chips` is a vault (chips per holder, Land, backing pool, book of stakes) with the
operations of one group; a group that throws is the absence of a step.  A loop over
players in one group (`holdAll`, `refund`, `settle`) is one function of all their
amounts: its transfers commute, and its guards are those of the first refusal.
`DailyRisk` adds the exposures checked before a bet and booked on the day of its
acceptance.  `CasinoTables` is what the process keeps in memory: seats, solo
games, the roulette table and a table of players against each other, whose
single games are one abstract game.  `Market` is the betting boards; the book of a
board is its own table and survives a restart.  `CasinoRecovery` has crashes, the
start-up recovery (one transaction for each session and player, so a crash may
fall between), rows removed by hand, frozen accounts and the panel.

Left out: operation keys and their replays, refund sagas, liability tables,
proportional and race tables (`chohan-multi`, `keiba`), boards of events.

`CasinoOpening` is `apply()` as a ladder of transactions.  The amounts are left
out: what matters is which data a plan, a backup and the destructive transaction
stand for.  `SoloGames` is settled round by round; random results are choices, and
factors are per cents.

### Confession

`Confession` keeps the case row, the acknowledgements, reply drafts and follow-ups
with their owner, generation and outcome, the calls to Discord under way and the
leases of the bots.  A call may arrive and be answered, arrive without an answer,
or fail; after a crash it may still arrive (`ghosts`).  `landed` and `agreed` are
history variables: which text arrived in which generation, and which repetition
somebody agreed to.  `ConfessionScreens` adds the edits that bring a delivered
reply to its final form.

Left out: emergencies, the court referral, assignees, blocks, the purge of the
body of the case, closing notices, who of the staff acts, the dialog that
records an agreement.

## Runs

| Run | Instance | Distinct states | Shows |
|---|---|---|---|
| `contract` | one purchase of each kind (new or old, external, in-database or manual, with or without term, provable role or not, alternative payment), two claims, stock 1 or unlimited, three stock requests | 92 433 | money and service exclude each other, work is in one queue, nobody is served twice |
| `sweep` | two users, one item with a term that starts with one or two slots and is limited to one and freed at any time, one place per sweep | 239 572 | no slot is lost or comes back twice while administrators change the stock; the sweep starves nobody |
| `delivery` | a timed and a permanent contract of one role, a patrol, one restart | 1 034 370 | mutual exclusion on the role, unverified additions keep the lock, revocations are sound |
| `delivery_live` | one timed contract, patrol, an operator's decision, an extension, one interference from outside, fairness | 134 398 | every step is a step of `ShopContract` or changes nothing there; an uncertain lock does not last |
| `treasury` | three accounts, two months of salaries, five boosts | 340 191 | the ledger under all its users implements `Bank`; salaries, boosts and notices are right, boosts and months in their order; the worker catches up |
| `casino` | two players, a roulette and a PvP table, solo games, two days, two disturbances | 1 757 302 | no chip is lost or invented, the house can pay, limits hold, the recovery opens only on clean books |
| `market` | a board of two players, three disturbances | 231 678 | the board holds its pot and moves on |
| `house` | the opening with two presses and three disturbances; two gamblers, two rounds of seven games | 559 188 | the opening commits once and only under a verified archive; the solo books agree |
| `opening_exit` | as `house`, opening only | violation | a finding, below |
| `confession` | two starts of the bot, three attempts, one of each kind of row | 233 883 | nothing is repeated silently, an end stands, sends come to rest |
| `confession_relay` | follow-ups only | violation | a finding, below |
| `confession_screens` | one reply, three edits | 439 756 | a stale screen is repaired |

Some properties join two statements that are broken by the same kind of fault:
`BooksSound` (`NoOverdraft`, `IntegrityHolds`), `PaidAsApproved`
(`NothingElseIsPaid`, `ReportIsTrue`), `BoostsPaidRight` (`PaidOnceWithinLimit`,
`NoBoostForgotten`), `MoneyIsWhole` (`ChipsBacked`, `WealthAccounted`),
`RevocationIsSound` (`RevocationGivesBack`, `RevocationEndsTheRight`),
`OpeningRecordsAgree` (`FundsAppliedOnce`, `OwnerKnown`).

Bounds of the contract.  `MaxClock = 2` with `Term = 1` lets a contract run out
before, during and after a delivery and be extended past the first end.  Two
tokens let a second claim follow a first one that was released or decided.  Two
decisions give "still unknown" followed by a verdict, and a verdict on a second
claim; two failures give a failed refund that fails again.  Two charges are a sale
and an extension.  In `sweep` the stock requests 1 and unlimited let a slot be sold while
the item is limited, refunded while it is not, and settled either way when it is limited
again, also with both slots owed at once.  Deadlock checking is off because all contracts may be over.

Bounds of the delivery.  Two contracts are what a handler that asks for "another
contract" needs: one that ends and one that goes on.  `MaxClock = 1` ends the timed
one, so that it is revoked while the other is delivered, waits or is being
delivered.  One token per purchase is enough for a claim to be released under a
worker that is about to call.  One restart falls at any point of any handler;
after it the start-up recovery, a new worker, the patrol and the revoker run
against what was left.  A second patrol does nothing that the first could not do
again, and the theorems cover any number.

Fairness.  `FairShelfSpec` asks weak fairness of `ExpireOverdue` only: `scheduler.ts`
calls `expireOverduePurchases` every minute.  Users, operators and Discord may
stay silent for ever.  `FairDeliverySpec` says that Discord ends every request,
with an answer or an error, that a handler goes on when it did, and that the
minute tick looks at an uncertain lock again and again (strong, since a worker or
the patrol may have it in between); and that a reading repeated for ever is
answered at some time.  Without the last one an uncertain lock does last: the code
releases it only on an answer.

Bounds of the treasury.  Keys are requested twice with different contents, one
amount needs an approval it lacks, one exceeds its payer's balance.  Two months
let one wait for the other; three boosts of one user in one month exceed its
limit of two.  One restart falls anywhere.

Bounds of the casino.  Two players fill a table; two days put midnight into a
game; `MaxTrouble` is two (a halt and a crash, or two crashes) and three for the
board, where an account may be frozen and a row removed as well.  The house owns
enough for one game and not for all of them at once.  The theorems need no bound.

Bounds of the confession.  Two starts overlap once; one lease lapses or one bot
dies in a part.  `MaxAttempts` is 3 in the run and 5 in the code: the third attempt
is the first that can follow an unknown one and a failed one.  The parts are explored
one kind of send at a time: kinds share the row, the bots and the recovery, and
never a row of their own.  In the part of the screens replies arrive and wait and
are sent once by the first start, which makes one edit at most, the poster ends and the
staff reopens, no stage is set by hand, two bots that both hold their claims do not edit
one message at once (`OneEditorEach`), and the edits of one bot to one message land in
order.  The theorems cover `Spec`, without these parts; only `OneEditorEach` remains in one.

Fairness elsewhere.  `FairTreasurySpec`: the interval fires, the loop goes on to the
next row, a request to Discord ends.  `BoardFairness`: a stopped process is started
and its recovery goes on, and the scheduler closes late boards and settles
reported ones.  `FairConfessionSpec`: calls end or time out, the heart beats and the
sweep runs every minute on some bot, a dead bot's lease runs out, a stopped bot is
started again.  Staff, posters, players and operators owe nothing.

What the findings show:

- `OpensAfterCommitOnly` (`opening_exit`): `apply()` adopts whatever row it finds after
  a lost transition.  A press whose answer from Discord comes after another press sent
  the row to manual review skips the destructive transaction, reaches
  `finishAfterCommit` (opening-reset.ts:692) and opens the casino without a commit.
- `NothingResentByTheScheduler` (`confession_relay`): the automatic relay asks for the
  outcome of the last attempt only.  Unknown (but arrived), then agreed and failed:
  the scheduler sends a third time by itself.  The comment above it
  (confession-base.ts:2056-2060) says that a text that may have arrived is never sent
  again by the program.  The proof of `NothingRepeatedSilently` brought it up: its
  stricter form held in a run with two attempts, and was not inductive.

Remarks without a run.  Each was met while modelling; the named definitions are in
the modules and do not hold.

- Shop.  `docs/shop-state-model.md` section 5 says that the queues exclude each other,
  but a failed delivery of an old purchase records a refund failure while the purchase
  is still an unresolved case (`NoWorkIsCountedTwice`).  An undelivered contract can be
  extended, and a refund pays back the price of the sale only
  (`RefundReturnsEveryCharge`).  "No effect, deliver again" followed by a delivery that
  works is an ordinary path to what section 6 calls impossible.
- Delivery.  The patrol marks a purchase delivered while a worker's claim is live
  (`NoEvidenceUnderAClaim`); claim recovery releases the claim of a worker that is about
  to call Discord (`ClaimCoversTheCall`); when the last timed contract ends under the
  patrol's hands it takes the role off although a permanent contract grants it
  (`PatrolSparesOtherContracts`); a removal of unknown outcome releases the lock
  (`UnknownRemovalStaysLocked`); with `SlowStart` an answer of the start-up recovery
  releases the lock of a later addition (`UnknownAdditionStaysLocked`).
- Outbox.  Rows of the digest are marked delivered in memory and lost at a restart;
  rows whose channel is unset fill the LIMIT and starve later rows.
- Ledger and payroll.  `reverse` of a one-way type is always refused; an employee who
  can never be paid blocks all later months (`ERR_OLDER_RUN_PENDING`).
- Boost.  A boost that arrives before the recovery of the start-up has begun is paid
  first, and the operator's script, which knows only the boosts in its table, may pay
  one before an older one that was missed; so the month's limit may go to the wrong
  ones (`FirstOfTheMonthArePaid`).  From the beginning of the scan on nothing is
  overtaken (`PaidInOrder`).
- Casino.  A table whose settlement and refund both fail because the casino was halted
  keeps its stakes until the next start, as does one stranded by an unguarded
  `editReply` (roulette.ts:531-541).  One throwing board ends the loop over the others
  (scheduler.ts:352-364).  A board whose escrow differs after betting closed has no way
  out, and a frozen one no way back.  `haltManually` overwrites `recovery_halt`
  (status.ts:228), so the casino reopens without another recovery
  (`OpenMeansRecovered`); a crash in `startup_check` forgets that it came from there.
  `releaseFromQuarantine` and `refundAllPending` have no caller.  A bet is accepted on
  a board with orphan chips when its pot is empty.
- Opening.  The stage of a failure is overwritten by "backup" on a retry, since the
  bundle exists, so a replan may run the external step again; a retry under the same
  plan hash after a published bundle practically never succeeds.
- Games.  A charm put on in the middle of a round makes the house pay beyond its
  reservation (common.ts:68-76); `WinsAreCovered` excepts just that (`late`).  Stake chips
  spent elsewhere in the middle of a round make the settlement throw, and the round is
  void.  Payments agree with integer per cents, but a tier of 1.2 pays one Ld less.
  `SpinPaid` and `EndSpin` allow interleavings the synchronous code excludes.
- Games of players against each other are not modelled one by one.  The invitation of
  poker-duel can be accepted or declined during one `deferUpdate`; join, leave and
  join again replays the collection key, so no money is taken and the settlement
  throws; late modal bets of `chohan-multi` and `keiba` strand a stake.
- Confession.  The state of the last acknowledgement is read before an await
  (confession-base.ts:1204-1237), so two clicks can repeat one; `claimReplyDraft` asks for
  neither text nor outcome, so a purged draft can be sent empty; if the panel cannot be
  posted after the claim, the thread is bound and nothing posts a panel later; two
  overlapping starts that both edit one message can leave the older view;
  `closeVoiceReceivedAtomic` and `applyStaffReplyWaiting` have no caller.

## Proofs

Checked by TLAPS for every value of the constants that satisfies the named
assumptions: finitely many purchases, accounts and roles, sane stock values, keys
and amounts of their types, names that differ.  The `Max` bounds are not restricted,
so nothing in these theorems rests on the size of a run.

`ShopContract_proofs`

- `TypeCorrect`: one step per action.  The stock stays a natural number because
  `Purchasable` refuses an empty shelf.
- `ContractHolds`: `ContractInvariant` is inductive together with `TypeOK`.  The
  safety properties alone are not: that a live claim excludes a manual completion
  rests on claims being of Discord deliveries only, and that a refunded purchase
  saw no effect rests on effects leaving proof.  `EffectsLeaveProof` adds just
  that.  The proof is by purchase (`Sound`): a step changes one purchase, for which
  there is one lemma per action, and leaves the others `Untouched`; the sweep is
  the one action that changes several.
- `MoneyOrService`, `RevocationIsAlwaysJustified`, `EffectAtMostOnce` follow at
  once; `WorkIsNeverLost` computes the set of queues in the four cases of a
  purchase; `NobodyIsServedTwice` is the action property, from the invariant.
- `EvidenceIsNeverLost`: what is proved delivered stays proved, for no transaction clears a
  proof (an action property).
- `NoEffectIsNeverLost`: a purchase whose delivery was found to have had no effect goes
  somewhere.  It needs to know that an old purchase, which is in no list of its own, was
  paid in Land (`LegacyNoEffectIsPaid`).
- `SlotsAreConserved`, of `ShopShelf`: the slots put up for an item (`supply`, a history
  variable that counts what administrators asked for) are on the shelf or `Taken`, through
  sales, refunds and every change of the stock.  A refund while the item has no limit
  leaves its slot taken; when the item is limited again, "add_restorations" raises the
  number by as many slots as leave `Taken` (`OwedSlotsReturn`) and "final_stock" by none
  (`NothingElseReturns`).  It is a sum over purchases that no case per purchase can
  show, and needs `SlotsReturnOnce` of the invariant: a deferred slot was consumed, and is
  settled once.

`ShopDelivery_proofs`, for any number of purchases, patrols and restarts

- `DeliveryTypeCorrect`: one lemma per kind of actor; `OneActorMoves` says that a
  step changes the task of one actor and leaves the others alone.
- `OneHand`: `OneHandOnTheRole` is inductive with the types.  An actor comes into a
  step that holds the role only by taking a free lock, and a lock that is not an
  actor's (uncertain, dead) has no holder to disturb.
- `DeliveryImplementsContract`: every step is a step of `ShopContract` or leaves its
  variables alone (the refinement mapping is the identity, as the module extends
  the contract).  The obligations are the guards: the handlers re-read what they
  were told before the await, and `SettleOrFlag`, `CloseClaim` and `PatrolConfirms`
  ask for what `SettleExternalDelivery`, `FailDelivery` and `PatrolDelivered` need.
  `MoneyOrServiceInDelivery` carries the money property over.
- `UnknownAdditionKeepsTheLock`: if a tick never runs beside the start-up recovery
  (`~SlowStart`; the property fails without it), an addition whose outcome no holder of
  the lock has seen keeps the lock.  The invariant `Traced` adds what the code relies on
  without saying so: start-up runs alone (`StartupAlone`), the lock a tick inspects
  stays uncertain until it is done (`TickAlone`), an inspection's answer is not older
  than the last unseen call (`AnswerIsFresh`), a holder that stands before a decision has
  seen the outcome (`HolderKnows`), and the patrol's flag says whether it called
  `roles.add` (`PatrolRemembers`).
- `RevocationSound`: a revocation is closed only over the role it was decided for.  Two
  invariants carry it.  `OwnRemoval` follows the removal: who took the role off had written
  so before, and no reading from before a removal survives it; `RoleIsGivenBack` follows.
  `Grounded` follows the reading the worker makes before it takes the lock: if the role
  came back since, somebody is entitled to it or the lock is not free.  The attempt to
  prove it without a condition found two windows, and
  `RevocationEndsUnlessOvertaken` names them: a purchase paid back after the patrol had
  served it, and a member who was away when the worker looked, for whom another handler was
  still adding the role: the row of an absent member is closed without a look at the lock
  (`scheduler-recovery.ts:674-676`).  The theorem therefore asks that nothing is paid
  back and that membership and role change once at most by other hands; both windows lie
  beyond the bounds of the run, where the property holds.

`Sums_proofs`.  The library states nothing of sums and products over finite sets that
can be cited here: its folds are recursive and its induction theorems take an operator.
The lemmas about `SumFunctionOnSet` go by well-foundedness of strict inclusion on the
subsets of a finite set, an instance that needs no operator parameter.

`Treasury_proofs`, the ledger first and then the services

- `LedgerInvariant`: `Books` says that cached balances are those computed from the rows
  (`BalancesComputed`), that they add up to nothing (`BalancesAddUp`), and that rows with
  one key are one payment and at most one reversal of it.  `LedgerBooksSound` and
  `LedgerImplementsBank` follow.  Both are proved for `LedgerStep`, any step of any
  service that goes through the ledger's calls, so that outbox, payroll and boosts
  inherit them: `OutboxKeepsBooks`, `OutboxImplementsBank` and the like.
- `NothingElseIsLost` from `NoticesInv`: a row out of the queue was posted, or its id is in
  the memory of the worker, which only a restart empties.
- `SalariesPaidAsApproved` from `PayrollInv`: every salary row is of a run that is approved
  or executed and has its amount (`SalariesAsPlanned`), and of the run under way everybody
  is still to pay, paid or noted as refused (`Underway`).  `MonthsArePaidInOrder` is the
  action property.
- `BoostsArePaidRight` from `BoostInv`: records and payments agree (`RecordsAgree`), every
  announced boost is recorded, waiting, pending or in front of the scan
  (`NoBoostForgotten`), blockers in memory are pending rows (`BlockersKnown`), and a scan
  takes over what lay in front of it (`ScanMissesNothing`).
- `BoostsAreInOrder`, an action property from the same invariant and one more: when the
  scan is over, an open boost is in the table or its message is on its way
  (`IdleMissesNothing`).  Messages, history and queue are worked off from the oldest, and
  the trigger of the ledger lets no payment pass a row of the table
  (`NothingOvertakesUnresolved`).

`CasinoOpening_proofs`

- `OpeningInvariant`: what a row at each rung says of the funds and of the archive
  (`SoundRows`, `Published`), one row is funded at most (`OneFunded`), a press under way has
  a row (`PressesHaveRows`) and a casino under a reset has an owner that exists
  (`BindingStands`).  Most steps are `Calm`; the commit is the one that is not.
- `RecordsAgreeAlways`, `ArchiveBeforeDestruction`, `ReviewIsForAHuman` follow, the last
  two as action properties.

`Confession_proofs`, over `Spec` of `ConfessionScreens`: any number of bots, rows and
attempts

- `ConfessionInvariant`: `SendsInv` compares what may have arrived with what the rows say
  was begun.  A generation that may have arrived is not beyond its row's (`RowsKnown`); the
  first try needs no consent (`FirstTries`); of one row and generation there is one send
  (`OneSendEach`); between two that may both arrive somebody agreed (`RepeatsAsked`); and
  what is noted as failed cannot arrive any more or was agreed to be repeated
  (`FailedIsSafe`).  Steps that begin nothing are quiet and share one lemma; settling a send
  as failed is the delicate one.
- `RepeatsAreAsked`, `TimeoutIsThePosters` and `TheEndStands` (an action property).
- `ScreenIsRepaired`: the property speaks of messages with no edit left to make, the
  invariant of all of them.  `Repaired` says that a message shows its latest edit
  (`UpToDate`), or a row of it waits (`OpenRow`), or a bot taken for dead is about to ask for
  the repair (`Late`), or nobody is left to know (`unseen`).  `Held` is what makes the
  steps keep it: a row stays with whoever claimed it until the edit is finished or given
  up and every claim is a generation of its own (`ClaimsHeld`), an edit belongs to one
  attempt (`EditsKnown`), what a bot asks after an edit Discord has not taken waits
  behind it (`InOrder`), and nobody else began to edit the message meanwhile
  (`OneHolder`).  `OneHolder` is where the condition enters: a bot claims a row and not a
  message, so two that overlap can edit one message through two rows, in the order
  Discord takes them, and both rows settle.  `OneEditorEach` forbids that and no more: an
  edit of a claim that was lost may still land at any time, and that is what is repaired.
  `LoneBotRepairs` derives it when one bot runs at a time, whatever crashes in between.

`Casino_proofs`, over `Spec` of `CasinoRecovery`: any number of players, tables, boards,
bets and days

- Operators first.  A group of calls is a function on the vault, so the argument about
  money is one about four operators: `Exchange` keeps `Backing` and what a player is
  worth, `Pay` moves chips and loses none, `Collect` moves a stake together with its
  row, `Settle` empties a holder and its rows.  Every action is one of a few effects
  (`PaidOut`, `HeldBy`, `Kept` and the like).
- Each concern then has an invariant of its own, inductive together with those before it.
- `CasinoTablesAgree`: a process that is down and a halted recovery run no game (`Idle`),
  the holder of a table that is not over holds its rows (`RowsAgree`), the memory of a
  wheel, its rows and its reservation say the same (`BetsAgree`), a solo game is reserved
  for (`SoloCovered`).  `CasinoOneTableEach` and `CasinoHouseCanPay` are parts of it and
  not inductive without the others.
- `CasinoMoneyIsWhole` (`MoneyInv`): a sum over the sessions, and one for each player,
  that no case per session can show.  It leans on the tables: a wheel pays by the bets it
  remembers, not by the rows of the book.
- `MarketBoardHoldsItsPot` (`BoardInv`): the recovery sweeps the holders of dead boards and
  leaves those of living ones alone.
- `CasinoLossWithinTheDay` (`Exposed`): a live stake is covered by the exposure of the day of
  its acceptance, which may be over (`StakeCovered`, `GameCovered`).  Two losses at once
  would not be covered: the proof needs `OneTableEach`, as the code needs the seats.
- `CasinoAutoOpeningIsClean` (`RecoveryInv`): how far the recovery has come says which
  sessions are swept, which players redeemed, and that nothing is reserved, unless it has
  noted a failure, and then it does not open.

`SoloGames_proofs`, over `SoloSpec`: any number of gamblers, rounds, bets, results of reels,
dice and cards, and free spins

- Operators first: a chain bonus never exceeds its factor rounded up (`ChainBonusBound`),
  the liability formula grows at least as fast as the payment (`ChainGrows`,
  `GrossFacts`), a settlement takes the bet at most and leaves the house what it had
  less the payout and the cut (`SettledFacts`).
- `SoloIsSound`: `Sound` is the types (no pocket and no till below zero: each draw is of
  what a guard has compared), the stakes and the escrow a round may have, and that a free
  spin carries the number of the one round that won it (`RightsSound`).  Every action of a
  gambler is `Stepped`: it moves one amount between his purse, the tills and his record,
  and no more than the terms of his round.
- `SoloBooksAdd` (sums over gamblers and over rights) and `LossIsWithinTerms` follow.
- `CoverHolds`: `WinsAreCovered` is not inductive.  `Covered` says that the house can put
  by, for each round under way, what that round may still need: its reservation while it
  is played, and while the reels turn the free spin just won (`Backed`).  What is put by is
  the witness of each step (`PutPlaced`), not a variable.  A reservation stands by its
  formula until the round is settled (`ReservedRight`), because only his own settlement
  changes a gambler's chain and only a charm put on in between his luck: the exception
  `late`.  `CostCovered` then compares the formula with every payment of every game,
  `SlotsCovered` with a spin, its cut and its free spin.

What stays with TLC.  Liveness and ENABLED are out of the prover's reach:
`SweepReachesEveryone`, `UncertaintyIsResolved`, `WorkerCatchesUp`, `BoardsMoveOn`,
`EffectsComeToRest`.  `OutboxTypeOK` is typed up to `batch`, which
`SelectSeq` (recursive in the library) computes.  Every other invariant and action property
of the passing runs is stated by a theorem.

## Plan

1. Done: shop, delivery, treasury, casino, opening, solo games, confession.
2. Next models: the games of players against each other one by one (`poker-duel`,
   `blackjack-table`, `chohan-multi`, `keiba`), the re-evaluation service of the shop,
   entry and its sessions, original roles and sub accounts (the same claim and
   lock as roles), rooms with their fees.

## Not modelled

Pictures and screens, statistics, evaluation, ranks and nicknames, titles, events,
activity tracking, settings, the dashboard, commands and deployment: rendering,
reports, parsers and single-row counters with no ordering or failure worth a state
space.  `PROJECT.json` gives the reason for each.
