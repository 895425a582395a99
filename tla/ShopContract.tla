---------------------------- MODULE ShopContract ----------------------------
(***************************************************************************)
(* The purchase contract of the official shop: what the transactions of    *)
(* packages/core/src/shop/service.ts do to one row of shop_purchases and   *)
(* to the tables hung on it (external delivery attempts, operator          *)
(* resolutions, verified evidence, refund failures, stock restorations and *)
(* their settlements, role revocations).                                   *)
(*                                                                         *)
(* The database is SQLite behind a synchronous driver, so one action is    *)
(* one transaction, or one synchronous turn of the bot that runs several   *)
(* of them with no await in between.  A call the code refuses changes      *)
(* nothing and is a step the action does not take.  Who calls, and what    *)
(* Discord answered, is left open: every order the callers can produce is  *)
(* a behaviour here.                                                       *)
(***************************************************************************)
EXTENDS Integers, Sequences, FiniteSets

CONSTANTS
  Purchase,      \* ids of shop_purchases rows
  Item,          \* ids of shop_items rows
  User,          \* Discord users
  Role,          \* Discord roles an item may grant
  Token,         \* attempt_token values of external delivery claims
  Rows,          \* the immutable part a row may have
  InitialStock,  \* stock values an item may start with
  StockRequest,  \* values an administrator may ask for in applyStockChange
  Unlimited,     \* shop_items.stock IS NULL
  Term,          \* duration of a timed item, in clock units
  SweepLimit,    \* LIMIT of one expireOverdue pass
  MaxClock, MaxDecisions, MaxFailures, MaxCharges  \* bounds on what never stops growing

NonRole == "non_role"          \* roleGrantTarget = proven_non_role
UnknownTarget == "unknown"     \* roleGrantTarget = legacy_unknown

RowType == [item : Item, user : User,
            prov : BOOLEAN,                                \* fulfillment provenance was recorded
            mode : {"external", "deadline", "manual"},     \* what the delivery snapshot says
            alt : BOOLEAN,                                 \* paid with an alternative resource
            timed : BOOLEAN,                               \* the item has a term
            target : Role \cup {NonRole, UnknownTarget}]

ASSUME ConstantsAssumption ==
  /\ Rows \subseteq RowType
  /\ IsFiniteSet(Purchase)
  /\ Unlimited \notin Nat
  /\ InitialStock \subseteq Nat \cup {Unlimited}
  /\ StockRequest \subseteq Nat \cup {Unlimited}
  /\ Term \in Nat \ {0}
  /\ SweepLimit \in Nat \ {0}
  /\ NonRole \notin Role /\ UnknownTarget \notin Role

VARIABLES
  row,          \* the immutable part of each purchase
  status,       \* shop_purchases.status, "none" before the row exists
  dstate,       \* shop_purchases.delivery_state
  deliveredAt,  \* delivered_at is set
  attempt,      \* shop_external_delivery_attempts: state per token
  verified,     \* a row in shop_verified_delivery_evidence
  decisions,    \* shop_operator_resolutions, oldest first
  failures,     \* number of rows in shop_refund_failures
  charges,      \* ledger transfers user -> treasury for this purchase
  repaid,       \* the ledger holds idempotency key shop:refund:<id>
  effects,      \* times the in-database delivery effect ran
  expiresAt,    \* expires_at, 0 for NULL
  clock,
  revocation,   \* shop_role_revocations.status
  stock,        \* shop_items.stock
  consumed,     \* provenance.stock_consumed
  restoration,  \* shop_purchase_stock_restorations, by its applied flag
  settlement    \* shop_stock_restoration_settlements.disposition

delivery == <<dstate, deliveredAt, attempt, verified, effects>>
human    == <<decisions>>
money    == <<charges, failures, repaid>>
term     == <<expiresAt, clock, revocation>>
shelf    == <<stock, consumed, restoration, settlement>>
vars     == <<row, status, delivery, human, money, term, shelf>>

Decision == {"delivered", "no_effect", "still_unknown"}
LiveStates == {"in_flight", "uncertain"}
AttemptState == LiveStates \cup {"none", "settled", "released"}

-----------------------------------------------------------------------------
(* The predicates every list, guard and screen is built from.              *)

Snapshot(p) == row[p].mode # "manual"
Active(p) == status[p] = "active"
Live(p) == \E t \in Token : attempt[p][t] \in LiveStates
OperatorSaid(p, d) == \E i \in DOMAIN decisions[p] : decisions[p][i] = d
OperatorDecided(p) == OperatorSaid(p, "delivered") \/ OperatorSaid(p, "no_effect")

Evidence(p) ==
  \/ deliveredAt[p]
  \/ row[p].prov /\ dstate[p] = "delivered"
  \/ OperatorSaid(p, "delivered")
  \/ verified[p]

\* Rows without provenance: what was sold, or how its delivery ended, is unknown.
LegacyUnknown(p) == Active(p) /\ ~row[p].prov /\ ~Evidence(p)

Unresolved(p) == Live(p) \/ (LegacyUnknown(p) /\ ~OperatorDecided(p))
SettlementPending(p) == Active(p) /\ ~Evidence(p) /\ failures[p] > 0
RefundRecovery(p) == SettlementPending(p) /\ ~Live(p) /\ ~row[p].alt
RefundHandoff(p) == SettlementPending(p) /\ ~Live(p) /\ row[p].alt
PendingManual(p) == Active(p) /\ ~Evidence(p) /\ row[p].prov /\ row[p].mode = "manual"

RetryEligibleBySnapshot(p) ==        \* mutant: trusts a readable delivery kind
  Active(p) /\ Snapshot(p) /\ failures[p] = 0 /\ ~Evidence(p)
\* deliveryRetryEligible: the conditions of autoRetryBaseSql.
RetryEligible(p) ==
  Active(p) /\ Snapshot(p) /\ failures[p] = 0 /\ ~LegacyUnknown(p) /\ ~Evidence(p)

UndeliveredAutoUnderClaim(p) ==      \* mutant: forgets the live claim
  RetryEligible(p) /\ dstate[p] # "delivered"
UndeliveredAuto(p) == RetryEligible(p) /\ ~Live(p) /\ dstate[p] # "delivered"

Queues(p) ==
  {q \in {"manual", "redeliver", "unresolved", "refund", "handoff"} :
     \/ q = "manual"     /\ PendingManual(p)
     \/ q = "redeliver"  /\ UndeliveredAuto(p)
     \/ q = "unresolved" /\ Unresolved(p)
     \/ q = "refund"     /\ RefundRecovery(p)
     \/ q = "handoff"    /\ RefundHandoff(p)}

ExpiryBlocked(p) == Live(p) \/ SettlementPending(p)
Due(p) == Active(p) /\ expiresAt[p] # 0 /\ expiresAt[p] <= clock

\* The refusals of refundWith, once no claim is live.  noEffect is the
\* authority an operator hands over inside the deciding transaction.
RefundAllowed(p, noEffect) ==
  /\ Active(p) /\ ~Evidence(p) /\ ~row[p].alt
  /\ row[p].prov \/ noEffect \/ OperatorSaid(p, "no_effect")

GrantsRole(q, user, role) ==
  /\ Active(q) /\ expiresAt[q] > clock
  /\ row[q].mode = "external" /\ row[q].user = user /\ row[q].target = role
AttributionUnique(p) ==
  {q \in Purchase : GrantsRole(q, row[p].user, row[p].target)} = {p}

-----------------------------------------------------------------------------
(* Rows that exist at the start were written before provenance was         *)
(* recorded, or while alternative payment was still accepted.              *)

Preexisting(p) == ~row[p].prov \/ row[p].alt

Init ==
  /\ row \in [Purchase -> Rows]
  /\ status = [p \in Purchase |-> IF Preexisting(p) THEN "active" ELSE "none"]
  /\ dstate \in [Purchase -> {"null", "pending", "delivered"}]
  /\ \A p \in Purchase : row[p].prov => dstate[p] = "null"
  /\ \A p \in Purchase : ~row[p].prov => dstate[p] # "null"
  /\ deliveredAt = [p \in Purchase |-> FALSE]
  /\ attempt = [p \in Purchase |-> [t \in Token |-> "none"]]
  /\ verified = [p \in Purchase |-> FALSE]
  /\ decisions = [p \in Purchase |-> <<>>]
  /\ failures = [p \in Purchase |-> 0]
  /\ charges = [p \in Purchase |-> IF Preexisting(p) /\ ~row[p].alt THEN 1 ELSE 0]
  /\ repaid = [p \in Purchase |-> FALSE]
  /\ effects = [p \in Purchase |-> 0]
  /\ expiresAt = [p \in Purchase |-> IF Preexisting(p) /\ row[p].timed THEN Term ELSE 0]
  /\ clock = 0
  /\ revocation = [p \in Purchase |-> "none"]
  /\ stock \in [Item -> InitialStock]
  /\ consumed = [p \in Purchase |-> FALSE]
  /\ restoration = [p \in Purchase |-> "none"]
  /\ settlement = [p \in Purchase |-> "none"]

-----------------------------------------------------------------------------
(* Selling.                                                                *)

PurchasableSoldOut(p) ==      \* mutant: forgets the stock
  row[p].timed =>
    \A q \in Purchase :
      ~(Active(q) /\ row[q].item = row[p].item /\ row[q].user = row[p].user)

Purchasable(p) ==
  /\ stock[row[p].item] # 0
  /\ row[p].timed =>
       \A q \in Purchase :
         ~(Active(q) /\ row[q].item = row[p].item /\ row[q].user = row[p].user)

\* purchaseInternal; an evaluation extension is delivered by the sale itself.
BuyPurchase(p) ==
  LET i == row[p].item
      atOnce == row[p].mode = "deadline"
  IN
  /\ status[p] = "none"
  /\ Purchasable(p)
  /\ status' = [status EXCEPT ![p] = "active"]
  /\ charges' = [charges EXCEPT ![p] = 1]
  /\ expiresAt' = [expiresAt EXCEPT ![p] = IF row[p].timed THEN clock + Term ELSE 0]
  /\ consumed' = [consumed EXCEPT ![p] = stock[i] # Unlimited]
  /\ stock' = IF stock[i] = Unlimited THEN stock ELSE [stock EXCEPT ![i] = stock[i] - 1]
  /\ IF atOnce
     THEN /\ dstate' = [dstate EXCEPT ![p] = "delivered"]
          /\ deliveredAt' = [deliveredAt EXCEPT ![p] = TRUE]
          /\ effects' = [effects EXCEPT ![p] = effects[p] + 1]
     ELSE UNCHANGED <<dstate, deliveredAt, effects>>
  /\ UNCHANGED <<row, attempt, verified, human, failures, repaid, clock, revocation,
                 restoration, settlement>>

\* extend: only add_role contracts with a term; nothing asks for a delivery.
Extend(p) ==
  LET from == IF expiresAt[p] > clock THEN expiresAt[p] ELSE clock IN
  /\ Active(p) /\ row[p].timed /\ row[p].mode = "external" /\ row[p].target \in Role
  /\ charges[p] < MaxCharges
  /\ charges' = [charges EXCEPT ![p] = charges[p] + 1]
  /\ expiresAt' = [expiresAt EXCEPT ![p] = from + Term]
  /\ UNCHANGED <<row, status, delivery, human, failures, repaid, clock, revocation, shelf>>

-----------------------------------------------------------------------------
(* Delivering.                                                             *)

DeliveryMayBeginOnceClosed(p) == ~Evidence(p) /\ dstate[p] # "delivered"  \* mutant
DeliveryMayBeginAgain(p) == Active(p)                                     \* mutant
DeliveryMayBeginByState(p) == Active(p) /\ dstate[p] # "delivered"        \* mutant
DeliveryMayBegin(p) == Active(p) /\ ~Evidence(p) /\ dstate[p] # "delivered"

\* beginDelivery alone: the claim was refused, or the bot died right after.
BeginDelivery(p) ==
  /\ Snapshot(p) /\ DeliveryMayBegin(p)
  /\ dstate' = [dstate EXCEPT ![p] = "pending"]
  /\ UNCHANGED <<row, status, deliveredAt, attempt, verified, effects, human, money, term, shelf>>

\* beginDelivery and claimExternalDelivery, one turn of deliverPurchaseUnlocked.
ClaimExternalDelivery(p, t) ==
  /\ row[p].mode = "external" /\ DeliveryMayBegin(p)
  /\ ~Live(p) /\ attempt[p][t] = "none"
  /\ dstate' = [dstate EXCEPT ![p] = "pending"]
  /\ attempt' = [attempt EXCEPT ![p][t] = "in_flight"]
  /\ UNCHANGED <<row, status, deliveredAt, verified, effects, human, money, term, shelf>>

\* settleExternalDelivery rolls its claim back unless the purchase completes with it.
SettleExternalDelivery(p, t) ==
  /\ attempt[p][t] \in LiveStates
  /\ Active(p) /\ dstate[p] # "delivered"
  /\ attempt' = [attempt EXCEPT ![p][t] = "settled"]
  /\ deliveredAt' = [deliveredAt EXCEPT ![p] = TRUE]
  /\ dstate' = [dstate EXCEPT ![p] = "delivered"]
  /\ UNCHANGED <<row, status, verified, effects, human, money, term, shelf>>

ReleaseExternalDelivery(p, t) ==
  /\ attempt[p][t] \in LiveStates
  /\ attempt' = [attempt EXCEPT ![p][t] = "released"]
  /\ UNCHANGED <<row, status, dstate, deliveredAt, verified, effects, human, money, term, shelf>>

MarkExternalDeliveryUncertain(p, t) ==
  /\ attempt[p][t] = "in_flight"
  /\ attempt' = [attempt EXCEPT ![p][t] = "uncertain"]
  /\ UNCHANGED <<row, status, dstate, deliveredAt, verified, effects, human, money, term, shelf>>

FailedUnlessDelivered(p) == IF dstate[p] = "delivered" THEN dstate[p] ELSE "failed"

\* markDeliveryFailed asks for no status: a late failure may reach a closed row.
MarkDeliveryFailed(p) ==
  /\ Snapshot(p) /\ status[p] # "none" /\ dstate[p] # "delivered"
  /\ dstate' = [dstate EXCEPT ![p] = FailedUnlessDelivered(p)]
  /\ UNCHANGED <<row, status, deliveredAt, attempt, verified, effects, human, money, term, shelf>>

\* The worker gives up: it closes its claim and marks the failure in one turn.
FailDelivery(p, t, s) ==
  /\ attempt[p][t] \in LiveStates /\ s \in {"released", "uncertain"}
  /\ s = "uncertain" => attempt[p][t] = "in_flight"
  /\ attempt' = [attempt EXCEPT ![p][t] = s]
  /\ dstate' = [dstate EXCEPT ![p] = FailedUnlessDelivered(p)]
  /\ UNCHANGED <<row, status, deliveredAt, verified, effects, human, money, term, shelf>>

\* A snapshot of kind extend_deadline: begin, then completeDeliveryWith runs the effect.
CompleteDeliveryWith(p) ==
  /\ row[p].mode = "deadline" /\ DeliveryMayBegin(p)
  /\ effects' = [effects EXCEPT ![p] = effects[p] + 1]
  /\ deliveredAt' = [deliveredAt EXCEPT ![p] = TRUE]
  /\ dstate' = [dstate EXCEPT ![p] = "delivered"]
  /\ UNCHANGED <<row, status, attempt, verified, human, money, term, shelf>>

CompleteManualDelivery(p) ==
  /\ Active(p) /\ row[p].prov /\ row[p].mode = "manual"
  /\ ~Evidence(p) /\ ~deliveredAt[p] /\ dstate[p] # "delivered"
  /\ deliveredAt' = [deliveredAt EXCEPT ![p] = TRUE]
  /\ dstate' = [dstate EXCEPT ![p] = "delivered"]
  /\ UNCHANGED <<row, status, attempt, verified, effects, human, money, term, shelf>>

\* What recordTimedAccessVerifiedDelivery asks for besides the observation.
AttributionProved(p) == row[p].target \in Role /\ ~Live(p) /\ AttributionUnique(p)

\* The turn in which the patrol of timed roles finds the role in place under a running
\* contract: markDeliverySucceeded, which asks for no claim, for the purchase that
\* stands for all contracts of that role; then, if the patrol added the role itself,
\* the evidence.  (A crash between the two is the turn without the evidence.)
PatrolDelivered(p, added) ==
  /\ row[p].mode = "external" /\ row[p].target \in Role /\ expiresAt[p] # 0
  /\ \E q \in Purchase : GrantsRole(q, row[p].user, row[p].target)
  /\ Active(p)
  /\ deliveredAt' = [deliveredAt EXCEPT ![p] = deliveredAt[p] \/ dstate[p] # "delivered"]
  /\ dstate' = [dstate EXCEPT ![p] = "delivered"]
  /\ verified' = [verified EXCEPT ![p] = verified[p] \/ (added /\ AttributionProved(p))]
  /\ UNCHANGED <<row, status, attempt, effects, human, money, term, shelf>>

-----------------------------------------------------------------------------
(* Paying back.                                                            *)

ClaimsClosedAs(p, s) ==
  [attempt EXCEPT ![p] =
     [t \in Token |-> IF attempt[p][t] \in LiveStates THEN s ELSE attempt[p][t]]]

\* restoreStockForRefund: the slot goes back at once if the item is finite now,
\* and is kept as a debt if it is sold without limit.
RestoreStock(p) ==
  LET i == row[p].item IN
  IF consumed[p] /\ restoration[p] = "none"
  THEN /\ restoration' =
            [restoration EXCEPT ![p] = IF stock[i] = Unlimited THEN "deferred" ELSE "applied"]
       /\ stock' = IF stock[i] = Unlimited THEN stock ELSE [stock EXCEPT ![i] = stock[i] + 1]
  ELSE UNCHANGED <<restoration, stock>>

\* What refundWith writes once it is allowed and the ledger accepted the transfer.
PayBack(p) ==
  /\ status' = [status EXCEPT ![p] = "refunded"]
  /\ dstate' = [dstate EXCEPT ![p] = "failed"]
  /\ repaid' = [repaid EXCEPT ![p] = TRUE]
  /\ RestoreStock(p)

NoPayBack == UNCHANGED <<status, repaid, restoration, stock>>

RecordRefundFailure(p) ==
  /\ failures[p] < MaxFailures
  /\ failures' = [failures EXCEPT ![p] = failures[p] + 1]

\* settleVerifiedFailure: release, failure and refund (or the recorded debt) in one
\* transaction.  If delivery is evident it throws and nothing of it remains.
SettleVerifiedFailure(p, t) ==
  /\ row[p].target \notin Role
  /\ attempt[p][t] \in LiveStates /\ ~Evidence(p)
  /\ attempt' = [attempt EXCEPT ![p][t] = "released"]
  /\ \/ /\ RefundAllowed(p, FALSE)
        /\ PayBack(p)
        /\ UNCHANGED failures
     \/ /\ RecordRefundFailure(p)       \* refused, or the ledger raised an error
        /\ dstate' = [dstate EXCEPT ![p] = FailedUnlessDelivered(p)]
        /\ NoPayBack
  /\ UNCHANGED <<row, deliveredAt, verified, effects, human, charges, term, consumed, settlement>>

\* retryRefund: refusals leave no trace, a ledger error is one more failure row.
RetryRefund(p) ==
  /\ RefundRecovery(p) /\ RefundAllowed(p, FALSE)
  /\ \/ PayBack(p) /\ UNCHANGED failures
     \/ RecordRefundFailure(p) /\ NoPayBack /\ UNCHANGED dstate
  /\ UNCHANGED <<row, deliveredAt, attempt, verified, effects, human, charges, term,
                 consumed, settlement>>

\* The buttons of the case screen: "no effect" only with a refund the shop can make,
\* or with a delivery that can be run again.
Offered(p, d, refund) ==
  /\ refund => d = "no_effect" /\ Active(p) /\ ~row[p].alt
  /\ d = "no_effect" /\ ~refund => RetryEligible(p)

\* resolveOperatorCase.  A screen whose facts changed is refused (its token no
\* longer matches), so a decision that is taken is one on the present facts.
ResolveOperatorCase(p, d, refund) ==
  /\ Unresolved(p) /\ Offered(p, d, refund)
  /\ Len(decisions[p]) < MaxDecisions
  /\ decisions' = [decisions EXCEPT ![p] = Append(decisions[p], d)]
  /\ CASE d = "delivered" ->
            /\ Active(p)
            /\ attempt' = ClaimsClosedAs(p, "settled")
            /\ NoPayBack /\ UNCHANGED dstate
       [] d = "no_effect" ->
            /\ attempt' = ClaimsClosedAs(p, "released")
            /\ IF refund
               THEN RefundAllowed(p, TRUE) /\ PayBack(p)
               ELSE dstate' = [dstate EXCEPT ![p] = FailedUnlessDelivered(p)] /\ NoPayBack
       [] d = "still_unknown" ->
            UNCHANGED attempt /\ NoPayBack /\ UNCHANGED dstate
  /\ UNCHANGED <<row, deliveredAt, verified, effects, charges, failures, term,
                 consumed, settlement>>

-----------------------------------------------------------------------------
(* The end of a term.                                                      *)

Tick ==
  /\ clock < MaxClock
  /\ clock' = clock + 1
  /\ UNCHANGED <<row, status, delivery, human, money, expiresAt, revocation, shelf>>

CandidatesWithBlocked == {p \in Purchase : Due(p)}      \* mutant: filtered after the LIMIT
Candidates == {p \in Purchase : Due(p) /\ ~ExpiryBlocked(p)}

RevocationWithoutEvidence(p) ==      \* mutant
  IF row[p].target \in Role THEN "pending" ELSE revocation[p]

\* decideRoleRevocation: only a proved target of a proved delivery is queued.
RevocationDecision(p) ==
  IF row[p].target \in Role /\ Evidence(p) THEN "pending" ELSE revocation[p]

\* expireOverdue: the rows that may not expire are left out before the LIMIT, then
\* each of the SweepLimit oldest goes through expireIfDue, which looks again, and
\* through decideRoleRevocation.
ExpireOverdue ==
  \E S \in SUBSET Candidates :
    LET expiring == {p \in S : Due(p) /\ ~ExpiryBlocked(p)} IN
    /\ S # {}
    /\ Cardinality(S) <= SweepLimit
    /\ Cardinality(S) < SweepLimit => S = Candidates
    /\ \A s \in S, c \in Candidates \ S : expiresAt[s] <= expiresAt[c]
    /\ status' = [p \in Purchase |-> IF p \in expiring THEN "expired" ELSE status[p]]
    /\ revocation' = [p \in Purchase |->
                        IF p \in expiring THEN RevocationDecision(p) ELSE revocation[p]]
    /\ UNCHANGED <<row, delivery, human, money, expiresAt, clock, shelf>>

\* backfillShopRoleRevocations, for expired rows the sweep queued nothing for.
BackfillRoleRevocation(p) ==
  /\ status[p] = "expired" /\ revocation[p] = "none"
  /\ row[p].target = NonRole
  /\ revocation' = [revocation EXCEPT ![p] = "done"]
  /\ UNCHANGED <<row, status, delivery, human, money, expiresAt, clock, shelf>>

\* The revocation worker ends a pending row: role gone, or blocked for a human.
FinishRoleRevocation(p, result) ==
  /\ revocation[p] = "pending"
  /\ revocation' = [revocation EXCEPT ![p] = result]
  /\ UNCHANGED <<row, status, delivery, human, money, expiresAt, clock, shelf>>

-----------------------------------------------------------------------------
(* The administrator's stock change.                                       *)

PendingRestorationsAll(i) ==        \* mutant: does not look for the settlement
  {p \in Purchase : row[p].item = i /\ restoration[p] = "deferred"}
PendingRestorations(i) ==
  {p \in Purchase : row[p].item = i /\ restoration[p] = "deferred" /\ settlement[p] = "none"}

StockMode == {"none", "final_stock", "add_restorations"}

ApplyStockChange(i, request, mode) ==
  LET owed == PendingRestorations(i)
      reconcile == request # Unlimited /\ owed # {}
  IN
  /\ reconcile <=> mode # "none"
  /\ stock' = [stock EXCEPT ![i] =
                 IF mode = "add_restorations" THEN request + Cardinality(owed) ELSE request]
  /\ settlement' = [p \in Purchase |->
                      IF mode # "none" /\ p \in owed
                      THEN IF mode = "add_restorations" THEN "applied" ELSE "absorbed"
                      ELSE settlement[p]]
  /\ UNCHANGED <<row, status, delivery, human, money, term, consumed, restoration>>

-----------------------------------------------------------------------------
PurchaseStep ==
  \/ \E p \in Purchase :
       \/ BuyPurchase(p)
       \/ Extend(p)
       \/ BeginDelivery(p)
       \/ \E t \in Token :
            \/ ClaimExternalDelivery(p, t)
            \/ SettleExternalDelivery(p, t)
            \/ ReleaseExternalDelivery(p, t)
            \/ MarkExternalDeliveryUncertain(p, t)
            \/ \E s \in {"released", "uncertain"} : FailDelivery(p, t, s)
            \/ SettleVerifiedFailure(p, t)
       \/ MarkDeliveryFailed(p)
       \/ CompleteDeliveryWith(p)
       \/ CompleteManualDelivery(p)
       \/ \E added \in BOOLEAN : PatrolDelivered(p, added)
       \/ RetryRefund(p)
       \/ \E d \in Decision, refund \in BOOLEAN : ResolveOperatorCase(p, d, refund)
       \/ BackfillRoleRevocation(p)
       \/ \E result \in {"done", "failed"} : FinishRoleRevocation(p, result)
  \/ Tick
  \/ ExpireOverdue

Next ==
  \/ PurchaseStep
  \/ \E i \in Item, request \in StockRequest, mode \in StockMode :
       ApplyStockChange(i, request, mode)

Spec == Init /\ [][Next]_vars

-----------------------------------------------------------------------------
(* Correctness.                                                            *)

\* Every table holds values of its columns' types.
TypeOK ==
  /\ row \in [Purchase -> Rows]
  /\ status \in [Purchase -> {"none", "active", "expired", "refunded"}]
  /\ dstate \in [Purchase -> {"null", "pending", "failed", "delivered"}]
  /\ deliveredAt \in [Purchase -> BOOLEAN]
  /\ attempt \in [Purchase -> [Token -> AttemptState]]
  /\ verified \in [Purchase -> BOOLEAN]
  /\ decisions \in [Purchase -> Seq(Decision)]
  /\ failures \in [Purchase -> Nat]
  /\ charges \in [Purchase -> Nat]
  /\ repaid \in [Purchase -> BOOLEAN]
  /\ effects \in [Purchase -> Nat]
  /\ expiresAt \in [Purchase -> Nat]
  /\ clock \in Nat
  /\ revocation \in [Purchase -> {"none", "pending", "done", "failed"}]
  /\ stock \in [Item -> Nat \cup {Unlimited}]
  /\ consumed \in [Purchase -> BOOLEAN]
  /\ restoration \in [Purchase -> {"none", "applied", "deferred"}]
  /\ settlement \in [Purchase -> {"none", "applied", "absorbed"}]

\* While a delivery may be under way on Discord (a live claim) there is one such
\* claim, and the contract is neither refunded nor expired:
\* uq_shop_external_delivery_open, and the contradiction
\* terminal_purchase_with_live_claim.
LiveClaimHoldsTheContract ==
  \A p \in Purchase : Live(p) =>
    /\ Active(p)
    /\ \A t, u \in Token : attempt[p][t] \in LiveStates /\ attempt[p][u] \in LiveStates => t = u

\* Money and service exclude each other: the ledger paid a purchase back exactly
\* when it is refunded, and a refunded purchase has no proof of delivery.
RefundExcludesDelivery ==
  \A p \in Purchase :
    /\ repaid[p] <=> status[p] = "refunded"
    /\ status[p] = "refunded" => ~Evidence(p)

\* Unknown is never turned into a refund by the program: a row without provenance
\* is paid back only after a human wrote that it had no effect.
UnknownIsNotRefunded ==
  \A p \in Purchase :
    status[p] = "refunded" /\ ~row[p].prov => OperatorSaid(p, "no_effect")

\* A purchase whose refund did not go through does not run out before either the
\* money or the service arrived (terminal_with_refund_failure_history_...).
NoDebtExpires ==
  \A p \in Purchase : status[p] = "expired" /\ failures[p] > 0 => Evidence(p)

\* A role is taken away only under a contract that is over, names the role and is
\* proved to have been delivered; in particular never under an active contract.
RevocationIsJustified ==
  \A p \in Purchase : revocation[p] \in {"pending", "failed"} =>
    status[p] = "expired" /\ row[p].target \in Role /\ Evidence(p)

\* Unfinished work of a purchase with provenance is in exactly one of the queues
\* the staff works from: never lost, never counted twice.
ProvenWorkIsInOneQueue ==
  \A p \in Purchase :
    Active(p) /\ row[p].prov /\ ~Evidence(p) => Cardinality(Queues(p)) = 1

\* A case an operator closed as "no effect" leads to the refund or to a second
\* delivery and does not vanish from every list (docs/shop-state-model.md section 4).
NoEffectLeadsSomewhere ==
  \A p \in Purchase :
    Active(p) /\ ~Evidence(p) /\ OperatorSaid(p, "no_effect") => Queues(p) # {}

\* The slot a sale took comes back exactly when the sale is refunded, and a slot
\* that went back at once is never settled again by an administrator.
SlotsReturnOnce ==
  \A p \in Purchase :
    /\ restoration[p] # "none" <=> status[p] = "refunded" /\ consumed[p]
    /\ settlement[p] # "none" => restoration[p] = "deferred"

\* The effect inside the database (a longer evaluation deadline) runs at most once
\* per purchase, and a purchase it ran for can never be paid back.
EffectRunsOnce ==
  \A p \in Purchase : effects[p] <= 1 /\ (effects[p] = 1 => status[p] # "refunded")

\* What the safety properties need besides each other to be kept by every step:
\* claims and debts are those of Discord deliveries, nothing is proved of what was
\* not sold, and the in-database effect leaves its proof behind.
EffectsLeaveProof ==
  \A p \in Purchase :
    /\ status[p] = "none" => ~Evidence(p)
    /\ Live(p) \/ failures[p] > 0 => row[p].mode = "external"
    /\ effects[p] <= 1
    /\ effects[p] = 1 => deliveredAt[p] /\ status[p] # "none"

\* The inductive invariant of the purchase contract: no transaction breaks it.
ContractInvariant ==
  /\ LiveClaimHoldsTheContract
  /\ RefundExcludesDelivery
  /\ UnknownIsNotRefunded
  /\ NoDebtExpires
  /\ RevocationIsJustified
  /\ SlotsReturnOnce
  /\ EffectsLeaveProof

\* Nobody who holds proof of delivery is served again: the effect inside the
\* database and a claim for Discord both start from a purchase without it.
NoServiceAfterEvidence ==
  [][\A p \in Purchase :
       (effects'[p] # effects[p] \/ (Live(p)' /\ ~Live(p))) => ~Evidence(p)]_vars

\* A contract that is over stays as it ended, and nothing is charged to it.
EndIsFinal ==
  [][\A p \in Purchase : status[p] \in {"expired", "refunded"} =>
       status'[p] = status[p] /\ charges'[p] = charges[p] /\ repaid'[p] = repaid[p]]_vars

\* A contract whose term is over and that nothing holds back leaves that condition,
\* however many older contracts the staff still has to settle (expireOverdue picks
\* its candidates before the LIMIT).
SweepReachesEveryone ==
  \A p \in Purchase : (Due(p) /\ ~ExpiryBlocked(p)) ~> (~Due(p) \/ ExpiryBlocked(p))

-----------------------------------------------------------------------------
(* What the documents say and the code does not do.                        *)

\* docs/shop-state-model.md section 5: the same purchase is not in two queues.
NoWorkIsCountedTwice == \A p \in Purchase : Cardinality(Queues(p)) <= 1

\* shop-refund.ts: what did not change was not paid for.
RefundReturnsEveryCharge == \A p \in Purchase : status[p] = "refunded" => charges[p] = 1
=============================================================================
