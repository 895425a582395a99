------------------------ MODULE ShopContract_proofs ------------------------
(***************************************************************************)
(* Proofs about ShopContract, for every set of purchases, items and claims *)
(* and without the bounds of the model checker's instances.  First the     *)
(* types, then the inductive invariant, by which money, service and proof  *)
(* of one purchase never contradict each other, then what follows from it. *)
(***************************************************************************)
EXTENDS ShopShelf, FiniteSetTheorems, TLAPS

\* The slots of an item whose refund is still owed are finitely many.
LEMMA OwedIsFinite ==
  ASSUME NEW i \in Item
  PROVE  Cardinality(PendingRestorations(i)) \in Nat
<1>1. PendingRestorations(i) \subseteq Purchase
  BY DEF PendingRestorations
<1>2. IsFiniteSet(PendingRestorations(i))
  BY <1>1, FS_Subset, ConstantsAssumption DEF ConstantsAssumption
<1> QED
  BY <1>2, FS_CardinalityType

\* The tables start with values of their columns' types.
LEMMA TypeInit == Init => TypeOK
<1> SUFFICES ASSUME Init PROVE TypeOK
  OBVIOUS
<1> USE ConstantsAssumption DEF Init, ConstantsAssumption
<1>1. \A p \in Purchase : row[p] \in RowType
  OBVIOUS
<1>2. dstate \in [Purchase -> {"null", "pending", "failed", "delivered"}]
  OBVIOUS
<1>3. attempt \in [Purchase -> [Token -> AttemptState]]
  BY DEF AttemptState
<1>4. decisions \in [Purchase -> Seq(Decision)]
  OBVIOUS
<1>5. charges \in [Purchase -> Nat] /\ expiresAt \in [Purchase -> Nat]
  OBVIOUS
<1>6. stock \in [Item -> Nat \cup {Unlimited}]
  OBVIOUS
<1>7. status \in [Purchase -> {"none", "active", "expired", "refunded"}]
  OBVIOUS
<1>8. /\ row \in [Purchase -> Rows] /\ failures \in [Purchase -> Nat]
      /\ effects \in [Purchase -> Nat] /\ clock \in Nat
      /\ deliveredAt \in [Purchase -> BOOLEAN] /\ verified \in [Purchase -> BOOLEAN]
      /\ repaid \in [Purchase -> BOOLEAN] /\ consumed \in [Purchase -> BOOLEAN]
      /\ revocation \in [Purchase -> {"none", "pending", "done", "failed"}]
      /\ restoration \in [Purchase -> {"none", "applied", "deferred"}]
      /\ settlement \in [Purchase -> {"none", "applied", "absorbed"}]
  OBVIOUS
<1> QED
  BY <1>2, <1>3, <1>4, <1>5, <1>6, <1>7, <1>8 DEF TypeOK

\* The immutable part of a purchase names an item that exists.
LEMMA RowIsTyped ==
  ASSUME TypeOK, NEW p \in Purchase
  PROVE  row[p] \in RowType /\ row[p].item \in Item
<1>1. row[p] \in RowType
  BY ConstantsAssumption DEF TypeOK, ConstantsAssumption
<1> QED
  BY <1>1 DEF RowType

\* Paying back and not paying back both keep the tables they touch well typed.
LEMMA PayBackTyped ==
  ASSUME TypeOK, NEW p \in Purchase,
         PayBack(p) \/ (NoPayBack /\ dstate' = [dstate EXCEPT ![p] = FailedUnlessDelivered(p)])
                    \/ (NoPayBack /\ UNCHANGED dstate)
  PROVE  /\ status' \in [Purchase -> {"none", "active", "expired", "refunded"}]
         /\ dstate' \in [Purchase -> {"null", "pending", "failed", "delivered"}]
         /\ repaid' \in [Purchase -> BOOLEAN]
         /\ restoration' \in [Purchase -> {"none", "applied", "deferred"}]
         /\ stock' \in [Item -> Nat \cup {Unlimited}]
<1>1. CASE PayBack(p)
  <2> DEFINE i == row[p].item
  <2>1. i \in Item
    BY RowIsTyped
  <2>2. stock[i] # Unlimited => stock[i] + 1 \in Nat
    BY <2>1 DEF TypeOK
  <2>3. stock' \in [Item -> Nat \cup {Unlimited}]
    BY <1>1, <2>1, <2>2 DEF TypeOK, PayBack, RestoreStock
  <2>4. restoration' \in [Purchase -> {"none", "applied", "deferred"}]
    BY <1>1 DEF TypeOK, PayBack, RestoreStock
  <2> QED
    BY <1>1, <2>3, <2>4 DEF TypeOK, PayBack
<1>2. CASE NoPayBack
  BY <1>2 DEF TypeOK, NoPayBack, PayBack, FailedUnlessDelivered
<1> QED
  BY <1>1, <1>2

\* Every transaction writes values of its columns' types.
LEMMA TypeStep == TypeOK /\ [Next]_vars => TypeOK'
<1> SUFFICES ASSUME TypeOK, [Next]_vars PROVE TypeOK'
  OBVIOUS
<1> USE ConstantsAssumption DEF TypeOK, ConstantsAssumption
<1>1. CASE UNCHANGED vars
  BY <1>1 DEF vars, delivery, human, money, term, shelf
<1>2. ASSUME NEW p \in Purchase, BuyPurchase(p) PROVE TypeOK'
  <2> DEFINE i == row[p].item
  <2>1. i \in Item /\ stock[i] # 0
    BY <1>2, RowIsTyped DEF BuyPurchase, Purchasable
  <2>2. stock[i] # Unlimited => stock[i] - 1 \in Nat
    BY <2>1
  <2>3. stock' \in [Item -> Nat \cup {Unlimited}]
    BY <1>2, <2>1, <2>2 DEF BuyPurchase
  <2>4. dstate' \in [Purchase -> {"null", "pending", "failed", "delivered"}]
        /\ deliveredAt' \in [Purchase -> BOOLEAN]
        /\ effects' \in [Purchase -> Nat]
    <3>1. CASE row[p].mode = "deadline"
      <4>1. /\ dstate' = [dstate EXCEPT ![p] = "delivered"]
            /\ deliveredAt' = [deliveredAt EXCEPT ![p] = TRUE]
            /\ effects' = [effects EXCEPT ![p] = effects[p] + 1]
        BY <1>2, <3>1 DEF BuyPurchase
      <4> QED
        BY <4>1
    <3>2. CASE row[p].mode # "deadline"
      BY <1>2, <3>2 DEF BuyPurchase
    <3> QED
      BY <3>1, <3>2
  <2>5. expiresAt' \in [Purchase -> Nat]
    BY <1>2 DEF BuyPurchase
  <2>6. /\ status' \in [Purchase -> {"none", "active", "expired", "refunded"}]
        /\ charges' \in [Purchase -> Nat]
        /\ consumed' \in [Purchase -> BOOLEAN]
    BY <1>2 DEF BuyPurchase
  <2>7. UNCHANGED <<row, attempt, verified, decisions, failures, repaid, clock, revocation,
                    restoration, settlement>>
    BY <1>2 DEF BuyPurchase, human
  <2> QED
    BY <2>3, <2>4, <2>5, <2>6, <2>7
<1>3. ASSUME NEW p \in Purchase, Extend(p) PROVE TypeOK'
  <2>1. UNCHANGED <<row, status, dstate, deliveredAt, attempt, verified, effects, decisions,
                    failures, repaid, clock, revocation, stock, consumed, restoration, settlement>>
    BY <1>3 DEF Extend, delivery, human, shelf
  <2>2. charges' \in [Purchase -> Nat]
    BY <1>3 DEF Extend
  <2>3. expiresAt[p] + Term \in Nat /\ clock + Term \in Nat
    OBVIOUS
  <2>4. expiresAt' \in [Purchase -> Nat]
    BY <1>3, <2>3 DEF Extend
  <2> QED
    BY <2>1, <2>2, <2>4
<1>4. ASSUME NEW p \in Purchase, BeginDelivery(p) PROVE TypeOK'
  BY <1>4 DEF BeginDelivery, human, money, term, shelf
<1>5. ASSUME NEW p \in Purchase, NEW t \in Token, ClaimExternalDelivery(p, t) PROVE TypeOK'
  BY <1>5 DEF ClaimExternalDelivery, AttemptState, LiveStates, human, money, term, shelf
<1>6. ASSUME NEW p \in Purchase, NEW t \in Token, SettleExternalDelivery(p, t) PROVE TypeOK'
  BY <1>6 DEF SettleExternalDelivery, AttemptState, LiveStates, human, money, term, shelf
<1>7. ASSUME NEW p \in Purchase, NEW t \in Token, ReleaseExternalDelivery(p, t) PROVE TypeOK'
  BY <1>7 DEF ReleaseExternalDelivery, AttemptState, LiveStates, human, money, term, shelf
<1>8. ASSUME NEW p \in Purchase, NEW t \in Token, MarkExternalDeliveryUncertain(p, t) PROVE TypeOK'
  BY <1>8 DEF MarkExternalDeliveryUncertain, AttemptState, LiveStates, human, money, term, shelf
<1>9. ASSUME NEW p \in Purchase, NEW t \in Token, SettleVerifiedFailure(p, t) PROVE TypeOK'
  <2>1. attempt' \in [Purchase -> [Token -> AttemptState]]
    BY <1>9 DEF SettleVerifiedFailure, AttemptState, LiveStates
  <2>2. failures' \in [Purchase -> Nat]
    <3>1. failures' = failures \/ RecordRefundFailure(p)
      BY <1>9 DEF SettleVerifiedFailure
    <3>2. [failures EXCEPT ![p] = failures[p] + 1] \in [Purchase -> Nat]
      OBVIOUS
    <3> QED
      BY <3>1, <3>2 DEF RecordRefundFailure
  <2>3. UNCHANGED <<row, deliveredAt, verified, effects, decisions, charges, expiresAt, clock,
                    revocation, consumed, settlement>>
    BY <1>9 DEF SettleVerifiedFailure, human, term
  <2>4. PayBack(p) \/ (NoPayBack /\ dstate' = [dstate EXCEPT ![p] = FailedUnlessDelivered(p)])
    BY <1>9 DEF SettleVerifiedFailure
  <2> HIDE DEF TypeOK
  <2>5. /\ status' \in [Purchase -> {"none", "active", "expired", "refunded"}]
        /\ dstate' \in [Purchase -> {"null", "pending", "failed", "delivered"}]
        /\ repaid' \in [Purchase -> BOOLEAN]
        /\ restoration' \in [Purchase -> {"none", "applied", "deferred"}]
        /\ stock' \in [Item -> Nat \cup {Unlimited}]
    BY <2>4, PayBackTyped
  <2> QED
    BY <2>1, <2>2, <2>3, <2>5 DEF TypeOK
<1>10. ASSUME NEW p \in Purchase, MarkDeliveryFailed(p) PROVE TypeOK'
  BY <1>10 DEF MarkDeliveryFailed, FailedUnlessDelivered, human, money, term, shelf
<1>11. ASSUME NEW p \in Purchase, CompleteDeliveryWith(p) PROVE TypeOK'
  BY SMTT(30), <1>11 DEF CompleteDeliveryWith, human, money, term, shelf
<1>12. ASSUME NEW p \in Purchase, CompleteManualDelivery(p) PROVE TypeOK'
  BY <1>12 DEF CompleteManualDelivery, human, money, term, shelf
<1>13. ASSUME NEW p \in Purchase, NEW added \in BOOLEAN, PatrolDelivered(p, added) PROVE TypeOK'
  BY <1>13 DEF PatrolDelivered, human, money, term, shelf
<1>21. ASSUME NEW p \in Purchase, NEW t \in Token, NEW s \in {"released", "uncertain"},
              FailDelivery(p, t, s)
       PROVE  TypeOK'
  BY <1>21 DEF FailDelivery, FailedUnlessDelivered, AttemptState, LiveStates, human, money, term, shelf
<1>14. ASSUME NEW p \in Purchase, RetryRefund(p) PROVE TypeOK'
  <2>1. failures' \in [Purchase -> Nat]
    BY SMTT(30), <1>14 DEF RetryRefund, RecordRefundFailure
  <2>2. UNCHANGED <<row, deliveredAt, attempt, verified, effects, decisions, charges, expiresAt,
                    clock, revocation, consumed, settlement>>
    BY <1>14 DEF RetryRefund, human, term
  <2>3. PayBack(p) \/ (NoPayBack /\ UNCHANGED dstate)
    BY <1>14 DEF RetryRefund
  <2> HIDE DEF TypeOK
  <2>4. /\ status' \in [Purchase -> {"none", "active", "expired", "refunded"}]
        /\ dstate' \in [Purchase -> {"null", "pending", "failed", "delivered"}]
        /\ repaid' \in [Purchase -> BOOLEAN]
        /\ restoration' \in [Purchase -> {"none", "applied", "deferred"}]
        /\ stock' \in [Item -> Nat \cup {Unlimited}]
    BY <2>3, PayBackTyped
  <2> QED
    BY <2>1, <2>2, <2>4 DEF TypeOK
<1>15. ASSUME NEW p \in Purchase, NEW d \in Decision, NEW refund \in BOOLEAN,
              ResolveOperatorCase(p, d, refund)
       PROVE  TypeOK'
  <2>1. decisions' \in [Purchase -> Seq(Decision)]
    BY <1>15 DEF ResolveOperatorCase
  <2>2. attempt' \in [Purchase -> [Token -> AttemptState]]
    <3>1. \/ attempt' = attempt
          \/ attempt' = ClaimsClosedAs(p, "settled")
          \/ attempt' = ClaimsClosedAs(p, "released")
      BY <1>15 DEF ResolveOperatorCase, Decision
    <3>2. ASSUME NEW s \in {"settled", "released"}
          PROVE  ClaimsClosedAs(p, s) \in [Purchase -> [Token -> AttemptState]]
      BY <3>2 DEF ClaimsClosedAs, AttemptState
    <3> QED
      BY <3>1, <3>2
  <2>3. UNCHANGED <<row, deliveredAt, verified, effects, charges, failures, expiresAt, clock,
                    revocation, consumed, settlement>>
    BY <1>15 DEF ResolveOperatorCase, term
  <2>4. \/ PayBack(p)
        \/ NoPayBack /\ dstate' = [dstate EXCEPT ![p] = FailedUnlessDelivered(p)]
        \/ NoPayBack /\ UNCHANGED dstate
    BY <1>15 DEF ResolveOperatorCase, Decision
  <2> HIDE DEF TypeOK
  <2>5. /\ status' \in [Purchase -> {"none", "active", "expired", "refunded"}]
        /\ dstate' \in [Purchase -> {"null", "pending", "failed", "delivered"}]
        /\ repaid' \in [Purchase -> BOOLEAN]
        /\ restoration' \in [Purchase -> {"none", "applied", "deferred"}]
        /\ stock' \in [Item -> Nat \cup {Unlimited}]
    BY <2>4, PayBackTyped
  <2> QED
    BY <2>1, <2>2, <2>3, <2>5 DEF TypeOK
<1>16. ASSUME NEW p \in Purchase, BackfillRoleRevocation(p) PROVE TypeOK'
  BY <1>16 DEF BackfillRoleRevocation, delivery, human, money, shelf
<1>17. ASSUME NEW p \in Purchase, NEW result \in {"done", "failed"}, FinishRoleRevocation(p, result)
       PROVE  TypeOK'
  BY <1>17 DEF FinishRoleRevocation, delivery, human, money, shelf
<1>18. CASE Tick
  BY <1>18 DEF Tick, delivery, human, money, shelf
<1>19. CASE ExpireOverdue
  BY <1>19 DEF ExpireOverdue, RevocationDecision, delivery, human, money, shelf
<1>20. ASSUME NEW i \in Item, NEW request \in StockRequest, NEW mode \in StockMode,
              ApplyStockChange(i, request, mode)
       PROVE  TypeOK'
  BY <1>20, OwedIsFinite DEF ApplyStockChange, StockMode, delivery, human, money, term
<1> HIDE DEF TypeOK
<1> QED
  BY <1>1, <1>2, <1>3, <1>4, <1>5, <1>6, <1>7, <1>8, <1>9, <1>10, <1>11, <1>12, <1>13, <1>14,
     <1>15, <1>16, <1>17, <1>18, <1>19, <1>20, <1>21 DEF Next, PurchaseStep

\* Every reachable state of the shop's tables is well typed.
THEOREM TypeCorrect == Spec => []TypeOK
BY TypeInit, TypeStep, PTL DEF Spec

-----------------------------------------------------------------------------
\* The inductive invariant, said of one purchase.
Sound(p) ==
  /\ Live(p) => Active(p) /\ row[p].mode = "external"
  /\ \A t, u \in Token : attempt[p][t] \in LiveStates /\ attempt[p][u] \in LiveStates => t = u
  /\ repaid[p] <=> status[p] = "refunded"
  /\ status[p] = "refunded" => ~Evidence(p)
  /\ status[p] = "refunded" /\ ~row[p].prov => OperatorSaid(p, "no_effect")
  /\ status[p] = "expired" /\ failures[p] > 0 => Evidence(p)
  /\ revocation[p] \in {"pending", "failed"} =>
       status[p] = "expired" /\ row[p].target \in Role /\ Evidence(p)
  /\ restoration[p] # "none" <=> status[p] = "refunded" /\ consumed[p]
  /\ settlement[p] # "none" => restoration[p] = "deferred"
  /\ status[p] = "none" => ~Evidence(p)
  /\ failures[p] > 0 => row[p].mode = "external"
  /\ effects[p] <= 1
  /\ effects[p] = 1 => deliveredAt[p] /\ status[p] # "none"

LEMMA SoundIsInvariant ==
  /\ ContractInvariant <=> \A p \in Purchase : Sound(p)
  /\ ContractInvariant' <=> \A p \in Purchase : Sound(p)'
BY DEF ContractInvariant, Sound, LiveClaimHoldsTheContract, RefundExcludesDelivery,
   UnknownIsNotRefunded, NoDebtExpires, RevocationIsJustified, SlotsReturnOnce, EffectsLeaveProof,
   Live

\* A step that leaves every column of a purchase alone.
Untouched(p) ==
  /\ row'[p] = row[p] /\ status'[p] = status[p] /\ dstate'[p] = dstate[p]
  /\ deliveredAt'[p] = deliveredAt[p] /\ attempt'[p] = attempt[p]
  /\ verified'[p] = verified[p] /\ decisions'[p] = decisions[p]
  /\ failures'[p] = failures[p] /\ repaid'[p] = repaid[p] /\ effects'[p] = effects[p]
  /\ revocation'[p] = revocation[p] /\ consumed'[p] = consumed[p]
  /\ restoration'[p] = restoration[p] /\ settlement'[p] = settlement[p]

LEMMA UntouchedStaysSound ==
  ASSUME NEW p \in Purchase, Sound(p), Untouched(p)
  PROVE  Sound(p)'
BY DEF Sound, Untouched, Live, Active, Evidence, OperatorSaid

LEMMA InitSound == Init => ContractInvariant
<1> SUFFICES ASSUME Init, NEW p \in Purchase PROVE Sound(p)
  BY SoundIsInvariant
<1>1. /\ ~Live(p) /\ ~OperatorSaid(p, "no_effect")
      /\ \A t \in Token : attempt[p][t] \notin LiveStates
  BY DEF Init, Live, LiveStates, OperatorSaid
<1>2. /\ status[p] \in {"active", "none"} /\ ~repaid[p] /\ failures[p] = 0 /\ effects[p] = 0
      /\ revocation[p] = "none" /\ restoration[p] = "none" /\ settlement[p] = "none"
  BY DEF Init
<1>3. ~Evidence(p)
  BY DEF Init, Evidence, OperatorSaid
<1> QED
  BY <1>1, <1>2, <1>3 DEF Sound

LEMMA BuyKeepsSound ==
  ASSUME TypeOK, NEW p \in Purchase, Sound(p), BuyPurchase(p)
  PROVE  Sound(p)'
<1> USE DEF BuyPurchase, human, TypeOK
<1>1. status[p] = "none" /\ status'[p] = "active"
  OBVIOUS
<1>2. ~Live(p)' /\ attempt' = attempt
  BY <1>1 DEF Sound, Live, Active
<1>3. repaid'[p] = FALSE /\ revocation'[p] = revocation[p] /\ failures'[p] = failures[p]
      /\ row' = row
  BY <1>1 DEF Sound
<1>4. effects'[p] <= 1 /\ (effects'[p] = 1 => deliveredAt'[p])
  BY <1>1 DEF Sound
<1>5. restoration'[p] = "none" /\ settlement'[p] = "none"
  BY <1>1 DEF Sound
<1> QED
  BY <1>1, <1>2, <1>3, <1>4, <1>5 DEF Sound

LEMMA ExtendKeepsSound ==
  ASSUME TypeOK, NEW p \in Purchase, Sound(p), Extend(p)
  PROVE  Sound(p)'
BY DEF Sound, Extend, delivery, human, shelf, Live, Active, Evidence, OperatorSaid

\* Evidence looks at the delivery state only for "delivered".
LEMMA EvidenceKept ==
  ASSUME NEW p \in Purchase, row' = row, deliveredAt' = deliveredAt, decisions' = decisions,
         verified' = verified, dstate'[p] = "delivered" <=> dstate[p] = "delivered"
  PROVE  Evidence(p)' <=> Evidence(p)
BY DEF Evidence, OperatorSaid

\* Closing a claim, or calling it uncertain, never makes a claim live.
LEMMA ClaimClosed ==
  ASSUME TypeOK, NEW p \in Purchase, NEW t \in Token, attempt[p][t] \in LiveStates,
         NEW s \in AttemptState, Sound(p), attempt' = [attempt EXCEPT ![p][t] = s]
  PROVE  /\ s \notin LiveStates => ~Live(p)'
         /\ Live(p)
         /\ \A u, v \in Token : attempt'[p][u] \in LiveStates /\ attempt'[p][v] \in LiveStates => u = v
         /\ \A u \in Token : attempt'[p][u] \in LiveStates => u = t
BY DEF TypeOK, Sound, Live

LEMMA BeginKeepsSound ==
  ASSUME TypeOK, NEW p \in Purchase, Sound(p), BeginDelivery(p)
  PROVE  Sound(p)'
<1> USE DEF BeginDelivery, human, money, term, shelf
<1>1. dstate'[p] = "pending" /\ dstate[p] # "delivered"
  BY DEF DeliveryMayBegin, TypeOK
<1>2. Evidence(p)' <=> Evidence(p)
  BY <1>1, EvidenceKept
<1> QED
  BY <1>2 DEF Sound, Live, Active, OperatorSaid

LEMMA ClaimKeepsSound ==
  ASSUME TypeOK, NEW p \in Purchase, NEW t \in Token, Sound(p), ClaimExternalDelivery(p, t)
  PROVE  Sound(p)'
<1> USE DEF ClaimExternalDelivery, human, money, term, shelf
<1>1. dstate'[p] = "pending" /\ dstate[p] # "delivered" /\ ~Evidence(p) /\ Active(p)
  BY DEF DeliveryMayBegin, TypeOK
<1>2. ~Evidence(p)'
  BY <1>1, EvidenceKept
<1>3. \A u \in Token : attempt'[p][u] \in LiveStates => u = t
  BY DEF TypeOK, Live
<1> QED
  BY <1>1, <1>2, <1>3 DEF Sound, Live, Active, OperatorSaid

LEMMA SettleKeepsSound ==
  ASSUME TypeOK, NEW p \in Purchase, NEW t \in Token, Sound(p), SettleExternalDelivery(p, t)
  PROVE  Sound(p)'
<1> USE DEF SettleExternalDelivery, human, money, term, shelf
<1>0. "settled" \in AttemptState /\ "settled" \notin LiveStates
  BY DEF AttemptState, LiveStates
<1>1. ~Live(p)' /\ \A u \in Token : attempt'[p][u] \notin LiveStates
  BY <1>0, ClaimClosed DEF Live
<1>2. deliveredAt'[p] /\ status'[p] = "active" /\ status[p] = "active"
  BY DEF Active, TypeOK
<1> QED
  BY <1>1, <1>2 DEF Sound

LEMMA ReleaseKeepsSound ==
  ASSUME TypeOK, NEW p \in Purchase, NEW t \in Token, Sound(p), ReleaseExternalDelivery(p, t)
  PROVE  Sound(p)'
<1> USE DEF ReleaseExternalDelivery, human, money, term, shelf
<1>0. "released" \in AttemptState /\ "released" \notin LiveStates
  BY DEF AttemptState, LiveStates
<1>1. ~Live(p)' /\ \A u \in Token : attempt'[p][u] \notin LiveStates
  BY <1>0, ClaimClosed DEF Live
<1>2. Evidence(p)' <=> Evidence(p)
  BY EvidenceKept
<1> QED
  BY <1>1, <1>2 DEF Sound, OperatorSaid

LEMMA UncertainKeepsSound ==
  ASSUME TypeOK, NEW p \in Purchase, NEW t \in Token, Sound(p), MarkExternalDeliveryUncertain(p, t)
  PROVE  Sound(p)'
<1> USE DEF MarkExternalDeliveryUncertain, human, money, term, shelf
<1>1. attempt[p][t] \in LiveStates
  BY DEF LiveStates
<1>2. Live(p) /\ \A u \in Token : attempt'[p][u] \in LiveStates => u = t
  BY <1>1, ClaimClosed DEF AttemptState, LiveStates
<1>3. Evidence(p)' <=> Evidence(p)
  BY EvidenceKept
<1> QED
  BY <1>2, <1>3 DEF Sound, OperatorSaid, Active

LEMMA GivingUpKeepsSound ==
  ASSUME TypeOK, NEW p \in Purchase, NEW t \in Token, NEW s \in {"released", "uncertain"},
         Sound(p), FailDelivery(p, t, s)
  PROVE  Sound(p)'
<1> USE DEF FailDelivery, human, money, term, shelf
<1>0. s \in AttemptState
  BY DEF AttemptState, LiveStates
<1>1. /\ Live(p)
      /\ \A u \in Token : attempt'[p][u] \in LiveStates => u = t
  BY <1>0, ClaimClosed
<1>2. Evidence(p)' <=> Evidence(p)
  BY EvidenceKept DEF FailedUnlessDelivered, TypeOK
<1> QED
  BY <1>1, <1>2 DEF Sound, OperatorSaid, Active

LEMMA FailureKeepsSound ==
  ASSUME TypeOK, NEW p \in Purchase, Sound(p), MarkDeliveryFailed(p)
  PROVE  Sound(p)'
<1> USE DEF MarkDeliveryFailed, FailedUnlessDelivered, human, money, term, shelf
<1>1. Evidence(p)' <=> Evidence(p)
  BY EvidenceKept DEF TypeOK
<1> QED
  BY <1>1 DEF Sound, OperatorSaid, Live, Active

LEMMA EffectKeepsSound ==
  ASSUME TypeOK, NEW p \in Purchase, Sound(p), CompleteDeliveryWith(p)
  PROVE  Sound(p)'
<1> USE DEF CompleteDeliveryWith, human, money, term, shelf
<1>1. status'[p] = "active" /\ status[p] = "active" /\ deliveredAt'[p] /\ ~Evidence(p)
  BY DEF DeliveryMayBegin, Active, TypeOK
<1>2. ~Live(p) /\ ~Live(p)'
  BY DEF Sound, Live
<1>3. effects[p] \in Nat /\ effects[p] <= 1 /\ effects[p] # 1
  BY <1>1 DEF Sound, Evidence, TypeOK
<1>4. effects'[p] = 1
  <2>1. effects'[p] = effects[p] + 1
    BY DEF TypeOK
  <2>2. effects[p] = 0
    BY <1>3
  <2> QED
    BY <2>1, <2>2
<1> QED
  BY <1>1, <1>2, <1>4 DEF Sound

LEMMA ManualKeepsSound ==
  ASSUME TypeOK, NEW p \in Purchase, Sound(p), CompleteManualDelivery(p)
  PROVE  Sound(p)'
<1> USE DEF CompleteManualDelivery, human, money, term, shelf
<1>1. status'[p] = "active" /\ status[p] = "active" /\ deliveredAt'[p]
  BY DEF Active, TypeOK
<1>2. ~Live(p) /\ ~Live(p)'
  BY DEF Sound, Live
<1> QED
  BY <1>1, <1>2 DEF Sound

LEMMA PatrolKeepsSound ==
  ASSUME TypeOK, NEW p \in Purchase, NEW added \in BOOLEAN, Sound(p), PatrolDelivered(p, added)
  PROVE  Sound(p)'
<1> USE DEF PatrolDelivered, human, money, term, shelf
<1>1. status'[p] = "active" /\ status[p] = "active" /\ deliveredAt[p] => deliveredAt'[p]
  BY DEF Active, TypeOK
<1>2. Live(p)' <=> Live(p)
  BY DEF Live
<1>3. effects'[p] = 1 => deliveredAt'[p]
  BY DEF Sound, TypeOK
<1> QED
  BY <1>1, <1>2, <1>3 DEF Sound, Active

\* A refund the code allows turns an open, unproved purchase into a refunded one.
LEMMA PayBackKeepsSound ==
  ASSUME TypeOK, NEW p \in Purchase, Sound(p), PayBack(p), Active(p), ~Evidence(p),
         ~Live(p)', \A t \in Token : attempt'[p][t] \notin LiveStates,
         row[p].prov \/ OperatorSaid(p, "no_effect")', ~OperatorSaid(p, "delivered")',
         UNCHANGED <<row, deliveredAt, verified, effects, failures, revocation, consumed, settlement>>
  PROVE  Sound(p)'
<1>1. status'[p] = "refunded" /\ repaid'[p] = TRUE /\ dstate'[p] = "failed"
  BY DEF PayBack, TypeOK
<1>2. ~Evidence(p)'
  BY <1>1 DEF Evidence
<1>3. restoration[p] = "none" /\ settlement[p] = "none"
  BY DEF Sound, Active, TypeOK
<1>4. restoration'[p] # "none" <=> consumed[p]
  BY <1>3 DEF PayBack, RestoreStock, TypeOK
<1>5. revocation[p] \notin {"pending", "failed"}
  BY DEF Sound, Active
<1>6. effects[p] # 1
  BY DEF Sound, Evidence
<1> QED
  BY <1>1, <1>2, <1>3, <1>4, <1>5, <1>6 DEF Sound

LEMMA VerifiedFailureKeepsSound ==
  ASSUME TypeOK, NEW p \in Purchase, NEW t \in Token, Sound(p), SettleVerifiedFailure(p, t)
  PROVE  Sound(p)'
<1>0. "released" \in AttemptState /\ "released" \notin LiveStates
  BY DEF AttemptState, LiveStates
<1>1. Live(p) /\ ~Live(p)' /\ \A u \in Token : attempt'[p][u] \notin LiveStates
  BY <1>0, ClaimClosed DEF SettleVerifiedFailure, Live
<1>2. UNCHANGED <<row, deliveredAt, verified, decisions, effects, revocation, consumed, settlement>>
  BY DEF SettleVerifiedFailure, human, term
<1>3. Active(p) /\ ~Evidence(p)
  BY <1>1 DEF Sound, SettleVerifiedFailure
<1>4. CASE RefundAllowed(p, FALSE) /\ PayBack(p) /\ UNCHANGED failures
  <2>1. row[p].prov \/ OperatorSaid(p, "no_effect")'
    BY <1>2, <1>4 DEF RefundAllowed, OperatorSaid
  <2>2. ~OperatorSaid(p, "delivered")'
    BY <1>2, <1>3 DEF Evidence, OperatorSaid
  <2> QED
    BY <1>1, <1>2, <1>3, <1>4, <2>1, <2>2, PayBackKeepsSound
<1>5. CASE /\ RecordRefundFailure(p) /\ NoPayBack
           /\ dstate' = [dstate EXCEPT ![p] = FailedUnlessDelivered(p)]
  <2>1. Evidence(p)' <=> Evidence(p)
    BY <1>2, <1>5, EvidenceKept DEF FailedUnlessDelivered, TypeOK
  <2>2. row[p].mode = "external"
    BY <1>1 DEF Sound
  <2>3. UNCHANGED <<status, repaid, restoration>>
    BY <1>5 DEF NoPayBack
  <2> QED
    BY <1>1, <1>2, <1>3, <2>1, <2>2, <2>3 DEF Sound, Active, OperatorSaid
<1> QED
  BY <1>4, <1>5 DEF SettleVerifiedFailure

LEMMA RetryKeepsSound ==
  ASSUME TypeOK, NEW p \in Purchase, Sound(p), RetryRefund(p)
  PROVE  Sound(p)'
<1>1. /\ Active(p) /\ ~Evidence(p) /\ ~Live(p) /\ failures[p] > 0
      /\ RefundAllowed(p, FALSE)
  BY DEF RetryRefund, RefundRecovery, SettlementPending
<1>2. UNCHANGED <<row, deliveredAt, attempt, verified, decisions, effects, revocation, consumed,
                  settlement>>
  BY DEF RetryRefund, human, term
<1>3. ~Live(p)' /\ \A t \in Token : attempt'[p][t] \notin LiveStates
  BY <1>1, <1>2 DEF Live
<1>4. CASE PayBack(p) /\ UNCHANGED failures
  <2>1. row[p].prov \/ OperatorSaid(p, "no_effect")'
    BY <1>1, <1>2 DEF RefundAllowed, OperatorSaid
  <2>2. ~OperatorSaid(p, "delivered")'
    BY <1>1, <1>2 DEF Evidence, OperatorSaid
  <2> QED
    BY <1>1, <1>2, <1>3, <1>4, <2>1, <2>2, PayBackKeepsSound
<1>5. CASE RecordRefundFailure(p) /\ NoPayBack /\ UNCHANGED dstate
  <2>1. Evidence(p)' <=> Evidence(p)
    BY <1>2, <1>5, EvidenceKept
  <2>2. UNCHANGED <<status, repaid, restoration>>
    BY <1>5 DEF NoPayBack
  <2>3. row[p].mode = "external"
    BY <1>1 DEF Sound
  <2> QED
    BY <1>1, <1>2, <1>3, <2>1, <2>2, <2>3 DEF Sound, Active, OperatorSaid
<1> QED
  BY <1>4, <1>5 DEF RetryRefund

\* What one more decision says, and what it leaves said.
LEMMA OneMoreDecision ==
  ASSUME TypeOK, NEW p \in Purchase, NEW d \in Decision, NEW e \in Decision,
         decisions' = [decisions EXCEPT ![p] = Append(decisions[p], d)]
  PROVE  OperatorSaid(p, e)' <=> (OperatorSaid(p, e) \/ d = e)
<1>1. decisions[p] \in Seq(Decision) /\ decisions'[p] = Append(decisions[p], d)
  BY DEF TypeOK
<1>2. /\ DOMAIN decisions'[p] = 1 .. Len(decisions[p]) + 1
      /\ DOMAIN decisions[p] = 1 .. Len(decisions[p])
      /\ Len(decisions[p]) \in Nat
  BY <1>1
<1>3. /\ \A i \in DOMAIN decisions[p] : decisions'[p][i] = decisions[p][i]
      /\ decisions'[p][Len(decisions[p]) + 1] = d
  BY <1>1, <1>2
<1> QED
  BY <1>2, <1>3 DEF OperatorSaid

LEMMA DecisionKeepsSound ==
  ASSUME TypeOK, NEW p \in Purchase, NEW d \in Decision, NEW refund \in BOOLEAN, Sound(p),
         ResolveOperatorCase(p, d, refund)
  PROVE  Sound(p)'
<1>1. Active(p)
  BY DEF ResolveOperatorCase, Unresolved, LegacyUnknown, Sound
<1>2. /\ decisions' = [decisions EXCEPT ![p] = Append(decisions[p], d)]
      /\ UNCHANGED <<row, deliveredAt, verified, effects, failures, revocation, consumed, settlement>>
  BY DEF ResolveOperatorCase, term
<1>3. \A e \in Decision : OperatorSaid(p, e)' <=> (OperatorSaid(p, e) \/ d = e)
  BY <1>2, OneMoreDecision
<1>4. d = "no_effect" => ~Evidence(p) /\ ~OperatorSaid(p, "delivered")
  BY DEF ResolveOperatorCase, Offered, RetryEligible, RefundAllowed, Evidence
<1>5. ASSUME NEW s \in {"settled", "released"}, attempt' = ClaimsClosedAs(p, s)
      PROVE  ~Live(p)' /\ \A t \in Token : attempt'[p][t] \notin LiveStates
  BY <1>5 DEF ClaimsClosedAs, Live, LiveStates, TypeOK
<1>6. CASE d = "delivered"
  <2>1. attempt' = ClaimsClosedAs(p, "settled") /\ NoPayBack /\ UNCHANGED dstate
    BY <1>6 DEF ResolveOperatorCase
  <2>2. ~Live(p)' /\ \A t \in Token : attempt'[p][t] \notin LiveStates
    BY <1>5, <2>1
  <2>3. status'[p] = "active" /\ UNCHANGED <<status, repaid, restoration>>
    BY <1>1, <2>1 DEF NoPayBack, Active
  <2> QED
    BY <1>1, <1>2, <2>2, <2>3 DEF Sound
<1>7. CASE d = "no_effect"
  <2>1. ~Live(p)' /\ \A t \in Token : attempt'[p][t] \notin LiveStates
    BY <1>5, <1>7 DEF ResolveOperatorCase
  <2>2. ~OperatorSaid(p, "delivered")' /\ OperatorSaid(p, "no_effect")'
    BY <1>3, <1>4, <1>7 DEF Decision
  <2>3. CASE PayBack(p)
    BY <1>1, <1>2, <1>4, <1>7, <2>1, <2>2, <2>3, PayBackKeepsSound
  <2>4. CASE dstate' = [dstate EXCEPT ![p] = FailedUnlessDelivered(p)] /\ NoPayBack
    <3>1. ~Evidence(p)'
      BY <1>2, <1>4, <1>7, <2>2, <2>4 DEF Evidence, FailedUnlessDelivered, TypeOK
    <3>2. status'[p] = "active" /\ UNCHANGED <<status, repaid, restoration>>
      BY <1>1, <2>4 DEF NoPayBack, Active
    <3> QED
      BY <1>1, <1>2, <2>1, <3>1, <3>2 DEF Sound
  <2> QED
    BY <1>7, <2>3, <2>4 DEF ResolveOperatorCase
<1>8. CASE d = "still_unknown"
  <2>1. UNCHANGED attempt /\ NoPayBack /\ UNCHANGED dstate
    BY <1>8 DEF ResolveOperatorCase
  <2>2. \A e \in {"delivered", "no_effect"} : OperatorSaid(p, e)' <=> OperatorSaid(p, e)
    BY <1>3, <1>8 DEF Decision
  <2>3. Evidence(p)' <=> Evidence(p)
    BY <1>2, <2>1, <2>2 DEF Evidence
  <2>4. status'[p] = "active" /\ UNCHANGED <<status, repaid, restoration>>
    BY <1>1, <2>1 DEF NoPayBack, Active
  <2> QED
    BY <1>1, <1>2, <2>1, <2>2, <2>3, <2>4 DEF Sound, Live, Active
<1> QED
  BY <1>6, <1>7, <1>8 DEF Decision

\* The sweep ends only contracts nothing holds back.
LEMMA SweepKeepsSound ==
  ASSUME TypeOK, NEW p \in Purchase, Sound(p), ExpireOverdue
  PROVE  Sound(p)'
<1>1. PICK S \in SUBSET Candidates :
        LET expiring == {q \in S : Due(q) /\ ~ExpiryBlocked(q)} IN
        /\ status' = [q \in Purchase |-> IF q \in expiring THEN "expired" ELSE status[q]]
        /\ revocation' = [q \in Purchase |->
                            IF q \in expiring THEN RevocationDecision(q) ELSE revocation[q]]
        /\ UNCHANGED <<row, delivery, human, money, expiresAt, clock, shelf>>
  BY DEF ExpireOverdue
<1>2. UNCHANGED <<row, dstate, deliveredAt, attempt, verified, effects, decisions, failures, repaid,
                  consumed, restoration, settlement>>
  BY <1>1 DEF delivery, human, money, shelf
<1>3. Evidence(p)' <=> Evidence(p)
  BY <1>2, EvidenceKept
<1>4. CASE p \in S /\ Due(p) /\ ~ExpiryBlocked(p)
  <2>1. /\ status'[p] = "expired" /\ revocation'[p] = RevocationDecision(p)
        /\ status[p] = "active"
    BY <1>1, <1>4 DEF Due, Active
  <2>2. ~Live(p) /\ ~(~Evidence(p) /\ failures[p] > 0)
    BY <1>4 DEF ExpiryBlocked, SettlementPending, Due
  <2>3. ~Live(p)'
    BY <1>2, <2>2 DEF Live
  <2>4. revocation'[p] \in {"pending", "failed"} => row[p].target \in Role /\ Evidence(p)
    BY <2>1 DEF RevocationDecision, Sound
  <2> QED
    BY <1>2, <1>3, <2>1, <2>2, <2>3, <2>4 DEF Sound
<1>5. CASE ~(p \in S /\ Due(p) /\ ~ExpiryBlocked(p))
  <2>1. status'[p] = status[p] /\ revocation'[p] = revocation[p]
    BY <1>1, <1>5
  <2> QED
    BY <1>2, <2>1, UntouchedStaysSound DEF Untouched
<1> QED
  BY <1>4, <1>5

LEMMA BackfillKeepsSound ==
  ASSUME TypeOK, NEW p \in Purchase, Sound(p), BackfillRoleRevocation(p)
  PROVE  Sound(p)'
<1>1. UNCHANGED <<row, status, delivery, human, money, shelf>> /\ revocation'[p] = "done"
  BY DEF BackfillRoleRevocation, TypeOK
<1> QED
  BY <1>1 DEF Sound, delivery, human, money, shelf, Live, Active, Evidence, OperatorSaid

LEMMA FinishKeepsSound ==
  ASSUME TypeOK, NEW p \in Purchase, NEW result \in {"done", "failed"}, Sound(p),
         FinishRoleRevocation(p, result)
  PROVE  Sound(p)'
<1>1. /\ UNCHANGED <<row, status, delivery, human, money, shelf>>
      /\ revocation[p] = "pending" /\ revocation'[p] = result
  BY DEF FinishRoleRevocation, TypeOK
<1> QED
  BY <1>1 DEF Sound, delivery, human, money, shelf, Live, Active, Evidence, OperatorSaid

\* The administrator settles only slots that are still owed.
LEMMA StockKeepsSound ==
  ASSUME TypeOK, NEW p \in Purchase, NEW i \in Item, NEW request \in StockRequest,
         NEW mode \in StockMode, Sound(p), ApplyStockChange(i, request, mode)
  PROVE  Sound(p)'
<1>1. UNCHANGED <<row, status, delivery, human, money, revocation, consumed, restoration>>
  BY DEF ApplyStockChange, term
<1>2. settlement'[p] = settlement[p] \/ restoration[p] = "deferred"
  BY DEF ApplyStockChange, PendingRestorations
<1> QED
  BY <1>1, <1>2 DEF Sound, delivery, human, money, Live, Active, Evidence, OperatorSaid

\* A refund, or a recorded failure, of one purchase leaves the others alone.
LEMMA OthersKept ==
  ASSUME TypeOK, NEW p \in Purchase, NEW q \in Purchase, q # p,
         \/ PayBack(p)
         \/ NoPayBack /\ dstate' = [dstate EXCEPT ![p] = FailedUnlessDelivered(p)]
         \/ NoPayBack /\ UNCHANGED dstate
  PROVE  /\ status'[q] = status[q] /\ dstate'[q] = dstate[q] /\ repaid'[q] = repaid[q]
         /\ restoration'[q] = restoration[q]
BY DEF PayBack, RestoreStock, NoPayBack, TypeOK

\* No transaction breaks the contract of any purchase.
LEMMA SoundStep ==
  ASSUME TypeOK, ContractInvariant, [Next]_vars
  PROVE  ContractInvariant'
<1> SUFFICES ASSUME NEW q \in Purchase PROVE Sound(q)'
  BY SoundIsInvariant
<1>0. Sound(q)
  BY SoundIsInvariant
<1>1. CASE UNCHANGED vars
  <2>1. Untouched(q)
    BY <1>1 DEF vars, delivery, human, money, term, shelf, Untouched
  <2> QED
    BY <1>0, <2>1, UntouchedStaysSound
<1>2. ASSUME NEW p \in Purchase, BuyPurchase(p)
     PROVE  Sound(q)'
  <2>1. CASE q = p
    BY <1>0, <1>2, <2>1, BuyKeepsSound
  <2>2. CASE q # p
    <3>1. Untouched(q)
      BY <1>2, <2>2 DEF BuyPurchase, TypeOK, Untouched,
         delivery, human, money, term, shelf
    <3> QED
      BY <1>0, <3>1, UntouchedStaysSound
  <2> QED
    BY <2>1, <2>2
<1>3. ASSUME NEW p \in Purchase, Extend(p)
     PROVE  Sound(q)'
  <2>1. CASE q = p
    BY <1>0, <1>3, <2>1, ExtendKeepsSound
  <2>2. CASE q # p
    <3>1. Untouched(q)
      BY <1>3, <2>2 DEF Extend, TypeOK, Untouched,
         delivery, human, money, term, shelf
    <3> QED
      BY <1>0, <3>1, UntouchedStaysSound
  <2> QED
    BY <2>1, <2>2
<1>4. ASSUME NEW p \in Purchase, BeginDelivery(p)
     PROVE  Sound(q)'
  <2>1. CASE q = p
    BY <1>0, <1>4, <2>1, BeginKeepsSound
  <2>2. CASE q # p
    <3>1. Untouched(q)
      BY <1>4, <2>2 DEF BeginDelivery, TypeOK, Untouched,
         delivery, human, money, term, shelf
    <3> QED
      BY <1>0, <3>1, UntouchedStaysSound
  <2> QED
    BY <2>1, <2>2
<1>5. ASSUME NEW p \in Purchase, NEW t \in Token, ClaimExternalDelivery(p, t)
     PROVE  Sound(q)'
  <2>1. CASE q = p
    BY <1>0, <1>5, <2>1, ClaimKeepsSound
  <2>2. CASE q # p
    <3>1. Untouched(q)
      BY <1>5, <2>2 DEF ClaimExternalDelivery, TypeOK, Untouched,
         delivery, human, money, term, shelf
    <3> QED
      BY <1>0, <3>1, UntouchedStaysSound
  <2> QED
    BY <2>1, <2>2
<1>6. ASSUME NEW p \in Purchase, NEW t \in Token, SettleExternalDelivery(p, t)
     PROVE  Sound(q)'
  <2>1. CASE q = p
    BY <1>0, <1>6, <2>1, SettleKeepsSound
  <2>2. CASE q # p
    <3>1. Untouched(q)
      BY <1>6, <2>2 DEF SettleExternalDelivery, TypeOK, Untouched,
         delivery, human, money, term, shelf
    <3> QED
      BY <1>0, <3>1, UntouchedStaysSound
  <2> QED
    BY <2>1, <2>2
<1>7. ASSUME NEW p \in Purchase, NEW t \in Token, ReleaseExternalDelivery(p, t)
     PROVE  Sound(q)'
  <2>1. CASE q = p
    BY <1>0, <1>7, <2>1, ReleaseKeepsSound
  <2>2. CASE q # p
    <3>1. Untouched(q)
      BY <1>7, <2>2 DEF ReleaseExternalDelivery, TypeOK, Untouched,
         delivery, human, money, term, shelf
    <3> QED
      BY <1>0, <3>1, UntouchedStaysSound
  <2> QED
    BY <2>1, <2>2
<1>8. ASSUME NEW p \in Purchase, NEW t \in Token, MarkExternalDeliveryUncertain(p, t)
     PROVE  Sound(q)'
  <2>1. CASE q = p
    BY <1>0, <1>8, <2>1, UncertainKeepsSound
  <2>2. CASE q # p
    <3>1. Untouched(q)
      BY <1>8, <2>2 DEF MarkExternalDeliveryUncertain, TypeOK, Untouched,
         delivery, human, money, term, shelf
    <3> QED
      BY <1>0, <3>1, UntouchedStaysSound
  <2> QED
    BY <2>1, <2>2
<1>9. ASSUME NEW p \in Purchase, NEW t \in Token, SettleVerifiedFailure(p, t)
     PROVE  Sound(q)'
  <2>1. CASE q = p
    BY <1>0, <1>9, <2>1, VerifiedFailureKeepsSound
  <2>2. CASE q # p
    <3>1. /\ attempt'[q] = attempt[q]
          /\ UNCHANGED <<row, deliveredAt, verified, effects, decisions, revocation, consumed, settlement>>
      BY <1>9, <2>2 DEF SettleVerifiedFailure, TypeOK, human, term
    <3>2. failures' = failures \/ RecordRefundFailure(p)
      BY <1>9 DEF SettleVerifiedFailure
    <3>3. failures'[q] = failures[q]
      BY <2>2, <3>2 DEF RecordRefundFailure, TypeOK
    <3>4. PayBack(p) \/ (NoPayBack /\ dstate' = [dstate EXCEPT ![p] = FailedUnlessDelivered(p)])
      BY <1>9 DEF SettleVerifiedFailure
    <3>5. Untouched(q)
      BY <2>2, <3>1, <3>3, <3>4, OthersKept DEF Untouched
    <3> QED
      BY <1>0, <3>5, UntouchedStaysSound
  <2> QED
    BY <2>1, <2>2
<1>10. ASSUME NEW p \in Purchase, MarkDeliveryFailed(p)
      PROVE  Sound(q)'
  <2>1. CASE q = p
    BY <1>0, <1>10, <2>1, FailureKeepsSound
  <2>2. CASE q # p
    <3>1. Untouched(q)
      BY <1>10, <2>2 DEF MarkDeliveryFailed, TypeOK, Untouched,
         delivery, human, money, term, shelf
    <3> QED
      BY <1>0, <3>1, UntouchedStaysSound
  <2> QED
    BY <2>1, <2>2
<1>11. ASSUME NEW p \in Purchase, CompleteDeliveryWith(p)
      PROVE  Sound(q)'
  <2>1. CASE q = p
    BY <1>0, <1>11, <2>1, EffectKeepsSound
  <2>2. CASE q # p
    <3>1. Untouched(q)
      BY <1>11, <2>2 DEF CompleteDeliveryWith, TypeOK, Untouched,
         delivery, human, money, term, shelf
    <3> QED
      BY <1>0, <3>1, UntouchedStaysSound
  <2> QED
    BY <2>1, <2>2
<1>12. ASSUME NEW p \in Purchase, CompleteManualDelivery(p)
      PROVE  Sound(q)'
  <2>1. CASE q = p
    BY <1>0, <1>12, <2>1, ManualKeepsSound
  <2>2. CASE q # p
    <3>1. Untouched(q)
      BY <1>12, <2>2 DEF CompleteManualDelivery, TypeOK, Untouched,
         delivery, human, money, term, shelf
    <3> QED
      BY <1>0, <3>1, UntouchedStaysSound
  <2> QED
    BY <2>1, <2>2
<1>13. ASSUME NEW p \in Purchase, NEW added \in BOOLEAN, PatrolDelivered(p, added)
      PROVE  Sound(q)'
  <2>1. CASE q = p
    BY <1>0, <1>13, <2>1, PatrolKeepsSound
  <2>2. CASE q # p
    <3>1. Untouched(q)
      BY <1>13, <2>2 DEF PatrolDelivered, TypeOK, Untouched,
         delivery, human, money, term, shelf
    <3> QED
      BY <1>0, <3>1, UntouchedStaysSound
  <2> QED
    BY <2>1, <2>2
<1>21. ASSUME NEW p \in Purchase, NEW t \in Token, NEW s \in {"released", "uncertain"},
              FailDelivery(p, t, s)
      PROVE  Sound(q)'
  <2>1. CASE q = p
    BY <1>0, <1>21, <2>1, GivingUpKeepsSound
  <2>2. CASE q # p
    <3>1. Untouched(q)
      BY <1>21, <2>2 DEF FailDelivery, TypeOK, Untouched,
         delivery, human, money, term, shelf
    <3> QED
      BY <1>0, <3>1, UntouchedStaysSound
  <2> QED
    BY <2>1, <2>2
<1>14. ASSUME NEW p \in Purchase, RetryRefund(p)
      PROVE  Sound(q)'
  <2>1. CASE q = p
    BY <1>0, <1>14, <2>1, RetryKeepsSound
  <2>2. CASE q # p
    <3>1. Untouched(q)
      BY <1>14, <2>2 DEF RetryRefund, PayBack, RestoreStock, NoPayBack, RecordRefundFailure, TypeOK, Untouched,
         delivery, human, money, term, shelf
    <3> QED
      BY <1>0, <3>1, UntouchedStaysSound
  <2> QED
    BY <2>1, <2>2
<1>15. ASSUME NEW p \in Purchase, NEW d \in Decision, NEW refund \in BOOLEAN,
              ResolveOperatorCase(p, d, refund)
      PROVE  Sound(q)'
  <2>1. CASE q = p
    BY <1>0, <1>15, <2>1, DecisionKeepsSound
  <2>2. CASE q # p
    <3>1. /\ decisions'[q] = decisions[q]
          /\ UNCHANGED <<row, deliveredAt, verified, effects, failures, revocation, consumed, settlement>>
      BY <1>15, <2>2 DEF ResolveOperatorCase, TypeOK, term
    <3>2. \/ attempt' = attempt
          \/ attempt' = ClaimsClosedAs(p, "settled")
          \/ attempt' = ClaimsClosedAs(p, "released")
      BY <1>15 DEF ResolveOperatorCase, Decision
    <3>3. attempt'[q] = attempt[q]
      BY <2>2, <3>2 DEF ClaimsClosedAs, TypeOK
    <3>4. \/ PayBack(p)
          \/ NoPayBack /\ dstate' = [dstate EXCEPT ![p] = FailedUnlessDelivered(p)]
          \/ NoPayBack /\ UNCHANGED dstate
      BY <1>15 DEF ResolveOperatorCase, Decision
    <3>5. Untouched(q)
      BY <2>2, <3>1, <3>3, <3>4, OthersKept DEF Untouched
    <3> QED
      BY <1>0, <3>5, UntouchedStaysSound
  <2> QED
    BY <2>1, <2>2
<1>16. ASSUME NEW p \in Purchase, BackfillRoleRevocation(p)
      PROVE  Sound(q)'
  <2>1. CASE q = p
    BY <1>0, <1>16, <2>1, BackfillKeepsSound
  <2>2. CASE q # p
    <3>1. Untouched(q)
      BY <1>16, <2>2 DEF BackfillRoleRevocation, TypeOK, Untouched,
         delivery, human, money, term, shelf
    <3> QED
      BY <1>0, <3>1, UntouchedStaysSound
  <2> QED
    BY <2>1, <2>2
<1>17. ASSUME NEW p \in Purchase, NEW result \in {"done", "failed"},
              FinishRoleRevocation(p, result)
      PROVE  Sound(q)'
  <2>1. CASE q = p
    BY <1>0, <1>17, <2>1, FinishKeepsSound
  <2>2. CASE q # p
    <3>1. Untouched(q)
      BY <1>17, <2>2 DEF FinishRoleRevocation, TypeOK, Untouched,
         delivery, human, money, term, shelf
    <3> QED
      BY <1>0, <3>1, UntouchedStaysSound
  <2> QED
    BY <2>1, <2>2
<1>18. CASE Tick
  BY <1>0, <1>18, UntouchedStaysSound DEF Tick, Untouched, delivery, human, money, shelf
<1>19. CASE ExpireOverdue
  BY <1>0, <1>19, SweepKeepsSound
<1>20. ASSUME NEW i \in Item, NEW request \in StockRequest, NEW mode \in StockMode,
              ApplyStockChange(i, request, mode)
       PROVE  Sound(q)'
  BY <1>0, <1>20, StockKeepsSound
<1> QED
  BY <1>1, <1>2, <1>3, <1>4, <1>5, <1>6, <1>7, <1>8, <1>9, <1>10, <1>11, <1>12, <1>13, <1>14, <1>15, <1>16, <1>17, <1>18, <1>19, <1>20,
     <1>21 DEF Next, PurchaseStep

\* Under every order of sales, deliveries, refunds, decisions and sweeps: the whole
\* inductive invariant of the purchase contract.
THEOREM ContractHolds == Spec => []ContractInvariant
<1>1. Init => TypeOK /\ ContractInvariant
  BY TypeInit, InitSound
<1>2. (TypeOK /\ ContractInvariant) /\ [Next]_vars => (TypeOK /\ ContractInvariant)'
  BY TypeStep, SoundStep
<1> QED
  BY <1>1, <1>2, PTL DEF Spec

-----------------------------------------------------------------------------
(* What follows.                                                           *)

\* Work with provenance that is not finished is in exactly one queue.
LEMMA OneQueue ==
  ASSUME TypeOK, ContractInvariant
  PROVE  ProvenWorkIsInOneQueue
<1> SUFFICES ASSUME NEW p \in Purchase, Active(p), row[p].prov, ~Evidence(p)
             PROVE  Cardinality(Queues(p)) = 1
  BY DEF ProvenWorkIsInOneQueue
<1>1. Sound(p)
  BY SoundIsInvariant
<1>2. dstate[p] # "delivered" /\ ~LegacyUnknown(p) /\ failures[p] \in Nat
  BY DEF Evidence, LegacyUnknown, TypeOK
<1>3. row[p].mode = "manual" => ~Live(p) /\ failures[p] = 0
  BY <1>1, <1>2 DEF Sound
<1>4. \E q : Queues(p) = {q}
  <2> USE DEF Queues
  <2>1. CASE row[p].mode = "manual"
    <3>1. Queues(p) = {"manual"}
      BY <1>2, <1>3, <2>1 DEF PendingManual, UndeliveredAuto, RetryEligible, Snapshot, Unresolved,
         RefundRecovery, RefundHandoff, SettlementPending
    <3> QED
      BY <3>1
  <2>2. CASE row[p].mode # "manual" /\ Live(p)
    <3>1. Queues(p) = {"unresolved"}
      BY <1>2, <2>2 DEF PendingManual, UndeliveredAuto, Unresolved, RefundRecovery, RefundHandoff
    <3> QED
      BY <3>1
  <2>3. CASE row[p].mode # "manual" /\ ~Live(p) /\ failures[p] = 0
    <3>1. Queues(p) = {"redeliver"}
      BY <1>2, <2>3 DEF PendingManual, UndeliveredAuto, RetryEligible, Snapshot, Unresolved,
         RefundRecovery, RefundHandoff, SettlementPending
    <3> QED
      BY <3>1
  <2>4. CASE row[p].mode # "manual" /\ ~Live(p) /\ failures[p] > 0
    <3>1. /\ row[p].alt => Queues(p) = {"handoff"}
          /\ ~row[p].alt => Queues(p) = {"refund"}
      BY <1>2, <2>4 DEF PendingManual, UndeliveredAuto, RetryEligible, Unresolved,
         RefundRecovery, RefundHandoff, SettlementPending
    <3> QED
      BY <3>1
  <2>5. failures[p] = 0 \/ failures[p] > 0
    BY <1>2
  <2> HIDE DEF Queues
  <2> QED
    BY <2>1, <2>2, <2>3, <2>4, <2>5
<1> QED
  BY <1>4, FS_Singleton

\* Unfinished work of a new purchase is never lost from the staff's lists and never
\* in two of them, however deliveries, failures and decisions follow each other.
THEOREM WorkIsNeverLost == Spec => []ProvenWorkIsInOneQueue
BY TypeCorrect, ContractHolds, OneQueue, PTL

\* The ledger paid a purchase back exactly when it is refunded, and nobody who was
\* served is refunded.
THEOREM MoneyOrService == Spec => []RefundExcludesDelivery
<1>1. ContractInvariant => RefundExcludesDelivery
  BY DEF ContractInvariant
<1> QED
  BY <1>1, ContractHolds, PTL

\* No role is taken away but under a contract that is over, names it and delivered it.
THEOREM RevocationIsAlwaysJustified == Spec => []RevocationIsJustified
<1>1. ContractInvariant => RevocationIsJustified
  BY DEF ContractInvariant
<1> QED
  BY <1>1, ContractHolds, PTL

\* The in-database effect runs at most once, and never for a refunded purchase.
THEOREM EffectAtMostOnce == Spec => []EffectRunsOnce
<1>1. ContractInvariant => EffectRunsOnce
  BY DEF ContractInvariant, EffectsLeaveProof, RefundExcludesDelivery, EffectRunsOnce, Evidence
<1> QED
  BY <1>1, ContractHolds, PTL

\* Every step that serves a purchase starts from one without proof of delivery.
LEMMA ServiceStep ==
  ASSUME TypeOK, ContractInvariant, [Next]_vars, NEW q \in Purchase,
         effects'[q] # effects[q] \/ (Live(q)' /\ ~Live(q))
  PROVE  ~Evidence(q)
<1>1. ~(UNCHANGED <<attempt, effects>>)
  BY DEF Live
<1>2. ASSUME NEW p \in Purchase, NEW t \in Token, NEW s \in AttemptState,
             UNCHANGED effects, attempt[p][t] \in LiveStates,
             attempt' = [attempt EXCEPT ![p][t] = s]
      PROVE  FALSE
  BY <1>2 DEF Live, TypeOK
<1>3. ASSUME NEW p \in Purchase, BuyPurchase(p) PROVE ~Evidence(q)
  <2>1. q = p /\ status[p] = "none"
    BY <1>3 DEF BuyPurchase, Live, TypeOK
  <2> QED
    BY <2>1, SoundIsInvariant DEF Sound
<1>4. ASSUME NEW p \in Purchase, NEW t \in Token, ClaimExternalDelivery(p, t) PROVE ~Evidence(q)
  <2>1. q = p
    BY <1>4 DEF ClaimExternalDelivery, Live, TypeOK
  <2> QED
    BY <1>4, <2>1 DEF ClaimExternalDelivery, DeliveryMayBegin
<1>5. ASSUME NEW p \in Purchase, CompleteDeliveryWith(p) PROVE ~Evidence(q)
  <2>1. q = p
    BY <1>5 DEF CompleteDeliveryWith, Live, TypeOK
  <2> QED
    BY <1>5, <2>1 DEF CompleteDeliveryWith, DeliveryMayBegin
<1>6. \A p \in Purchase, t \in Token :
        ~SettleExternalDelivery(p, t) /\ ~ReleaseExternalDelivery(p, t)
        /\ ~MarkExternalDeliveryUncertain(p, t) /\ ~SettleVerifiedFailure(p, t)
        /\ \A s \in {"released", "uncertain"} : ~FailDelivery(p, t, s)
  <2>1. /\ "settled" \in AttemptState /\ "released" \in AttemptState /\ "uncertain" \in AttemptState
        /\ "in_flight" \in LiveStates
    BY DEF AttemptState, LiveStates
  <2>2. \A p \in Purchase, t \in Token :
          ~SettleExternalDelivery(p, t) /\ ~ReleaseExternalDelivery(p, t)
          /\ ~MarkExternalDeliveryUncertain(p, t) /\ ~SettleVerifiedFailure(p, t)
    BY ZenonT(40), <1>2, <2>1 DEF SettleExternalDelivery, ReleaseExternalDelivery,
       MarkExternalDeliveryUncertain, SettleVerifiedFailure
  <2>3. \A p \in Purchase, t \in Token, s \in {"released", "uncertain"} : ~FailDelivery(p, t, s)
    BY <1>2, <2>1 DEF FailDelivery
  <2> QED
    BY <2>2, <2>3
<1>7. \A p \in Purchase, d \in Decision, refund \in BOOLEAN : ~ResolveOperatorCase(p, d, refund)
  <2> SUFFICES ASSUME NEW p \in Purchase, NEW d \in Decision, NEW refund \in BOOLEAN,
                      ResolveOperatorCase(p, d, refund)
               PROVE  FALSE
    OBVIOUS
  <2>1. /\ UNCHANGED effects
        /\ \/ attempt' = attempt
           \/ attempt' = ClaimsClosedAs(p, "settled")
           \/ attempt' = ClaimsClosedAs(p, "released")
    BY DEF ResolveOperatorCase, Decision
  <2>2. ~Live(q) /\ Live(q)'
    BY <2>1
  <2>3. ASSUME NEW s \in {"settled", "released"}, attempt' = ClaimsClosedAs(p, s)
        PROVE  FALSE
    BY <2>2, <2>3 DEF ClaimsClosedAs, Live, LiveStates, TypeOK
  <2> QED
    BY <1>1, <2>1, <2>3
<1>8. \A p \in Purchase :
        /\ ~Extend(p) /\ ~BeginDelivery(p) /\ ~MarkDeliveryFailed(p) /\ ~CompleteManualDelivery(p)
        /\ \A added \in BOOLEAN : ~PatrolDelivered(p, added)
        /\ ~RetryRefund(p) /\ ~BackfillRoleRevocation(p)
        /\ \A result \in {"done", "failed"} : ~FinishRoleRevocation(p, result)
  BY <1>1 DEF Extend, BeginDelivery, MarkDeliveryFailed, CompleteManualDelivery,
     PatrolDelivered, RetryRefund, BackfillRoleRevocation, FinishRoleRevocation,
     delivery
<1>9. ~Tick /\ ~ExpireOverdue /\ ~(UNCHANGED vars)
      /\ \A i \in Item, request \in StockRequest, mode \in StockMode :
           ~ApplyStockChange(i, request, mode)
  BY <1>1 DEF Tick, ExpireOverdue, ApplyStockChange, vars, delivery
<1> QED
  BY <1>3, <1>4, <1>5, <1>6, <1>7, <1>8, <1>9 DEF Next, PurchaseStep

\* Nobody who holds proof of delivery is served again, by the program or by Discord.
THEOREM NobodyIsServedTwice == Spec => NoServiceAfterEvidence
<1>1. TypeOK /\ ContractInvariant /\ [Next]_vars =>
        [\A p \in Purchase :
           (effects'[p] # effects[p] \/ (Live(p)' /\ ~Live(p))) => ~Evidence(p)]_vars
  BY ServiceStep
<1> QED
  BY <1>1, TypeCorrect, ContractHolds, PTL DEF Spec, NoServiceAfterEvidence

-----------------------------------------------------------------------------
\* What the transactions do to status, decisions and shelf, whatever else they do.
PaysBack(p) == /\ Active(p) /\ PayBack(p)
               /\ UNCHANGED <<row, consumed, settlement>>

\* Only these actions write the status, the decisions or the stock of a purchase.
LEMMA WritersAmongPurchaseSteps ==
  ASSUME TypeOK, PurchaseStep
  PROVE  \/ UNCHANGED <<row, status, shelf>>
         \/ \E p \in Purchase : BuyPurchase(p)
         \/ \E p \in Purchase : PaysBack(p)
         \/ ExpireOverdue
<1>1. ASSUME NEW p \in Purchase,
             \/ Extend(p) \/ BeginDelivery(p) \/ MarkDeliveryFailed(p)
             \/ CompleteDeliveryWith(p) \/ CompleteManualDelivery(p)
             \/ \E added \in BOOLEAN : PatrolDelivered(p, added)
             \/ BackfillRoleRevocation(p)
             \/ \E result \in {"done", "failed"} : FinishRoleRevocation(p, result)
      PROVE  UNCHANGED <<row, status, shelf>>
  BY <1>1 DEF Extend, BeginDelivery, MarkDeliveryFailed, CompleteDeliveryWith,
     CompleteManualDelivery, PatrolDelivered, BackfillRoleRevocation, FinishRoleRevocation
<1>2. ASSUME NEW p \in Purchase, NEW t \in Token,
             \/ ClaimExternalDelivery(p, t) \/ SettleExternalDelivery(p, t)
             \/ ReleaseExternalDelivery(p, t) \/ MarkExternalDeliveryUncertain(p, t)
             \/ \E s \in {"released", "uncertain"} : FailDelivery(p, t, s)
      PROVE  UNCHANGED <<row, status, shelf>>
  BY <1>2 DEF ClaimExternalDelivery, SettleExternalDelivery, ReleaseExternalDelivery,
     MarkExternalDeliveryUncertain, FailDelivery
<1>3. ASSUME NEW p \in Purchase, NEW t \in Token, SettleVerifiedFailure(p, t)
      PROVE  UNCHANGED <<row, status, shelf>> \/ PaysBack(p)
  BY <1>3 DEF SettleVerifiedFailure, PaysBack, NoPayBack, shelf, RefundAllowed
<1>4. ASSUME NEW p \in Purchase, RetryRefund(p)
      PROVE  UNCHANGED <<row, status, shelf>> \/ PaysBack(p)
  BY <1>4 DEF RetryRefund, PaysBack, NoPayBack, shelf, RefundAllowed
<1>5. ASSUME NEW p \in Purchase, NEW d \in Decision, NEW refund \in BOOLEAN,
             ResolveOperatorCase(p, d, refund)
      PROVE  UNCHANGED <<row, status, shelf>> \/ PaysBack(p)
  <2>1. UNCHANGED <<row, consumed, settlement>> /\ (NoPayBack \/ (Active(p) /\ PayBack(p)))
    BY <1>5 DEF ResolveOperatorCase, RefundAllowed, Decision
  <2> QED
    BY <2>1 DEF PaysBack, NoPayBack, shelf
<1>6. CASE Tick
  BY <1>6 DEF Tick
<1> QED
  BY <1>1, <1>2, <1>3, <1>4, <1>5, <1>6 DEF PurchaseStep

LEMMA WritersOfStatusAndStock ==
  ASSUME TypeOK, [Next]_vars
  PROVE  \/ UNCHANGED <<row, status, shelf>>
         \/ \E p \in Purchase : BuyPurchase(p)
         \/ \E p \in Purchase : PaysBack(p)
         \/ ExpireOverdue
         \/ \E i \in Item, request \in StockRequest, mode \in StockMode :
              ApplyStockChange(i, request, mode)
BY WritersAmongPurchaseSteps DEF Next, vars

\* A row that was paid back stays so, and a row once sold stays a row.
LEMMA EndedStaysEnded ==
  ASSUME TypeOK, [Next]_vars, NEW p \in Purchase
  PROVE  /\ row'[p] = row[p]
         /\ status[p] = "refunded" => status'[p] = "refunded"
         /\ status'[p] = "none" => status[p] = "none"
<1>1. status \in [Purchase -> {"none", "active", "expired", "refunded"}]
  BY DEF TypeOK
<1>2. ASSUME NEW q \in Purchase, BuyPurchase(q) \/ PaysBack(q)
      PROVE  /\ row' = row
             /\ status[p] = "refunded" => status'[p] = "refunded"
             /\ status'[p] = "none" => status[p] = "none"
  BY <1>1, <1>2 DEF BuyPurchase, PaysBack, PayBack
<1>3. CASE ExpireOverdue
  BY <1>1, <1>3 DEF ExpireOverdue, Due, Active
<1>4. ASSUME NEW i \in Item, NEW request \in StockRequest, NEW mode \in StockMode,
             ApplyStockChange(i, request, mode)
      PROVE  row' = row /\ status' = status
  BY <1>4 DEF ApplyStockChange
<1> QED
  BY <1>2, <1>3, <1>4, WritersOfStatusAndStock

\* "No effect" is said of a purchase without provenance only with its refund.
LegacyNoEffectIsPaid ==
  \A p \in Purchase :
    ~row[p].prov /\ OperatorSaid(p, "no_effect") => status[p] = "refunded"

LEMMA OnlyOperatorsDecide ==
  ASSUME TypeOK, [Next]_vars, NEW p \in Purchase
  PROVE  \/ decisions'[p] = decisions[p]
         \/ \E d \in Decision, refund \in BOOLEAN : ResolveOperatorCase(p, d, refund)
<1>1. ASSUME NEW q \in Purchase, NEW d \in Decision, NEW refund \in BOOLEAN,
             ResolveOperatorCase(q, d, refund), q # p
      PROVE  decisions'[p] = decisions[p]
  BY <1>1 DEF ResolveOperatorCase, TypeOK
<1>2. ASSUME NEW q \in Purchase,
             \/ BuyPurchase(q) \/ Extend(q) \/ BeginDelivery(q) \/ MarkDeliveryFailed(q)
             \/ CompleteDeliveryWith(q) \/ CompleteManualDelivery(q)
             \/ \E added \in BOOLEAN : PatrolDelivered(q, added)
             \/ RetryRefund(q) \/ BackfillRoleRevocation(q)
             \/ \E result \in {"done", "failed"} : FinishRoleRevocation(q, result)
      PROVE  decisions' = decisions
  BY <1>2 DEF BuyPurchase, Extend, BeginDelivery, MarkDeliveryFailed, RetryRefund,
     CompleteDeliveryWith, CompleteManualDelivery, PatrolDelivered,
     BackfillRoleRevocation, FinishRoleRevocation, human
<1>3. ASSUME NEW q \in Purchase, NEW t \in Token,
             \/ ClaimExternalDelivery(q, t) \/ SettleExternalDelivery(q, t)
             \/ ReleaseExternalDelivery(q, t) \/ MarkExternalDeliveryUncertain(q, t)
             \/ \E s \in {"released", "uncertain"} : FailDelivery(q, t, s)
             \/ SettleVerifiedFailure(q, t)
      PROVE  decisions' = decisions
  BY <1>3 DEF ClaimExternalDelivery, SettleExternalDelivery, ReleaseExternalDelivery,
     MarkExternalDeliveryUncertain, FailDelivery, SettleVerifiedFailure, human
<1>4. CASE \/ Tick \/ ExpireOverdue \/ UNCHANGED vars
           \/ \E i \in Item, request \in StockRequest, mode \in StockMode :
                ApplyStockChange(i, request, mode)
  BY <1>4 DEF Tick, ExpireOverdue, vars, ApplyStockChange, human
<1> QED
  BY <1>1, <1>2, <1>3, <1>4 DEF Next, PurchaseStep

LEMMA LegacyNoEffectStep ==
  TypeOK /\ LegacyNoEffectIsPaid /\ [Next]_vars => LegacyNoEffectIsPaid'
<1> SUFFICES ASSUME TypeOK, LegacyNoEffectIsPaid, [Next]_vars, NEW p \in Purchase,
                    ~row'[p].prov, OperatorSaid(p, "no_effect")'
             PROVE  status'[p] = "refunded"
  BY DEF LegacyNoEffectIsPaid
<1>1. row'[p] = row[p] /\ (status[p] = "refunded" => status'[p] = "refunded")
  BY EndedStaysEnded
<1>2. CASE OperatorSaid(p, "no_effect")
  BY <1>1, <1>2 DEF LegacyNoEffectIsPaid
<1>3. CASE ~OperatorSaid(p, "no_effect")
  <2>1. decisions'[p] # decisions[p]
    BY <1>3 DEF OperatorSaid
  <2>2. PICK d \in Decision, refund \in BOOLEAN : ResolveOperatorCase(p, d, refund)
    BY <2>1, OnlyOperatorsDecide
  <2>3. decisions' = [decisions EXCEPT ![p] = Append(decisions[p], d)]
    BY <2>2 DEF ResolveOperatorCase
  <2>4. decisions[p] \in Seq(Decision) /\ decisions'[p] = Append(decisions[p], d)
    BY <2>3 DEF TypeOK
  <2>5. d = "no_effect"
    BY <1>3, <2>4 DEF OperatorSaid
  <2>6. refund
    <3>1. SUFFICES ASSUME ~refund PROVE FALSE
      OBVIOUS
    <3>2. RetryEligible(p)
      BY <2>2, <2>5, <3>1 DEF ResolveOperatorCase, Offered
    <3> QED
      BY <1>1, <3>2 DEF RetryEligible, LegacyUnknown
  <2>7. PayBack(p)
    BY <2>2, <2>5, <2>6 DEF ResolveOperatorCase
  <2> QED
    BY <2>7 DEF PayBack, TypeOK
<1> QED
  BY <1>2, <1>3

LEMMA NoEffectIsListed ==
  TypeOK /\ ContractInvariant /\ LegacyNoEffectIsPaid => NoEffectLeadsSomewhere
<1> SUFFICES ASSUME TypeOK, ContractInvariant, LegacyNoEffectIsPaid, NEW p \in Purchase,
                    Active(p), ~Evidence(p), OperatorSaid(p, "no_effect")
             PROVE  Queues(p) # {}
  BY DEF NoEffectLeadsSomewhere
<1>1. row[p].prov
  BY DEF LegacyNoEffectIsPaid, Active
<1>2. Cardinality(Queues(p)) = 1
  BY <1>1, OneQueue DEF ProvenWorkIsInOneQueue
<1> QED
  BY <1>2, FS_EmptySet

\* A case an operator closed as "no effect" is paid back or stays in a list of the
\* staff, also when the refund or the second delivery then fails.
THEOREM NoEffectIsNeverLost == Spec => []NoEffectLeadsSomewhere
<1>1. Init => LegacyNoEffectIsPaid
  BY DEF Init, LegacyNoEffectIsPaid, OperatorSaid
<1>2. Spec => []LegacyNoEffectIsPaid
  BY <1>1, LegacyNoEffectStep, TypeCorrect, PTL DEF Spec
<1> QED
  BY <1>2, TypeCorrect, ContractHolds, NoEffectIsListed, PTL

-----------------------------------------------------------------------------
UnsoldTookNothing == \A p \in Purchase : status[p] = "none" => ~consumed[p]

LEMMA TakenIsFinite ==
  ASSUME NEW i
  PROVE  IsFiniteSet(Taken(i)) /\ Cardinality(Taken(i)) \in Nat
<1>1. Taken(i) \subseteq Purchase
  BY DEF Taken
<1> QED
  BY <1>1, FS_Subset, FS_CardinalityType, ConstantsAssumption DEF ConstantsAssumption

\* One slot of one item is sold: the shelf has one less, the taken are one more.
LEMMA SaleConserves ==
  ASSUME TypeOK, SlotsReturnOnce, UnsoldTookNothing, NEW p \in Purchase,
         BuyPurchase(p), NEW i \in Item
  PROVE  \/ stock'[i] = stock[i] /\ Taken(i)' = Taken(i)
         \/ /\ stock[i] \in Nat \ {0} /\ stock'[i] = stock[i] - 1
            /\ Cardinality(Taken(i)') = Cardinality(Taken(i)) + 1
<1> DEFINE j == row[p].item
<1>1. /\ ~consumed[p] /\ j \in Item /\ stock \in [Item -> Nat \cup {Unlimited}]
      /\ consumed \in [Purchase -> BOOLEAN] /\ stock[j] # 0
  BY RowIsTyped DEF BuyPurchase, UnsoldTookNothing, TypeOK, Purchasable
<1>2. /\ row' = row /\ restoration' = restoration /\ settlement' = settlement
      /\ \A q \in Purchase \ {p} : consumed'[q] = consumed[q]
      /\ consumed'[p] = (stock[j] # Unlimited)
      /\ stock' = IF stock[j] = Unlimited THEN stock ELSE [stock EXCEPT ![j] = stock[j] - 1]
  BY <1>1 DEF BuyPurchase
<1> HIDE DEF j
<1>3. CASE i # j \/ stock[j] = Unlimited
  <2>1. stock'[i] = stock[i]
    BY <1>1, <1>2, <1>3
  <2>2. Taken(i)' = Taken(i)
    BY <1>1, <1>2, <1>3 DEF Taken, j
  <2> QED
    BY <2>1, <2>2
<1>4. CASE i = j /\ stock[j] # Unlimited
  <2>1. stock[i] \in Nat \ {0} /\ stock'[i] = stock[i] - 1
    BY <1>1, <1>2, <1>4
  <2>2. Taken(i)' = Taken(i) \union {p}
    <3>1. restoration[p] # "applied" /\ settlement[p] # "applied"
      BY <1>1 DEF SlotsReturnOnce
    <3> QED
      BY <1>1, <1>2, <1>4, <3>1 DEF Taken, j
  <2>3. p \notin Taken(i)
    BY <1>1 DEF Taken
  <2> QED
    BY <2>1, <2>2, <2>3, TakenIsFinite, FS_AddElement
<1> QED
  BY <1>3, <1>4

\* A slot given back leaves the taken; one that waits for a number stays there.
LEMMA RefundConserves ==
  ASSUME TypeOK, SlotsReturnOnce, NEW p \in Purchase, PaysBack(p), NEW i \in Item
  PROVE  \/ stock'[i] = stock[i] /\ Taken(i)' = Taken(i)
         \/ /\ stock[i] \in Nat /\ stock'[i] = stock[i] + 1
            /\ Cardinality(Taken(i)') = Cardinality(Taken(i)) - 1
<1> DEFINE j == row[p].item
<1>1. /\ j \in Item /\ stock \in [Item -> Nat \cup {Unlimited}]
      /\ restoration \in [Purchase -> {"none", "applied", "deferred"}]
      /\ row' = row /\ consumed' = consumed /\ settlement' = settlement
  BY RowIsTyped DEF TypeOK, PaysBack
<1>2. IF consumed[p] /\ restoration[p] = "none"
      THEN /\ restoration' = [restoration EXCEPT ![p] =
                               IF stock[j] = Unlimited THEN "deferred" ELSE "applied"]
           /\ stock' = IF stock[j] = Unlimited THEN stock
                       ELSE [stock EXCEPT ![j] = stock[j] + 1]
      ELSE UNCHANGED <<restoration, stock>>
  BY DEF PaysBack, PayBack, RestoreStock
<1>3. restoration[p] = "none" => settlement[p] = "none"
  BY DEF SlotsReturnOnce
<1> HIDE DEF j
<1>4. CASE ~(consumed[p] /\ restoration[p] = "none")
  BY <1>1, <1>2, <1>4 DEF Taken
<1>5. CASE consumed[p] /\ restoration[p] = "none" /\ (i # j \/ stock[j] = Unlimited)
  <2>1. stock'[i] = stock[i]
    BY <1>1, <1>2, <1>5
  <2>2. Taken(i)' = Taken(i)
    BY <1>1, <1>2, <1>5 DEF Taken, j
  <2> QED
    BY <2>1, <2>2
<1>6. CASE consumed[p] /\ restoration[p] = "none" /\ i = j /\ stock[j] # Unlimited
  <2>1. stock[i] \in Nat /\ stock'[i] = stock[i] + 1
    BY <1>1, <1>2, <1>6
  <2>2. Taken(i)' = Taken(i) \ {p} /\ p \in Taken(i)
    BY <1>1, <1>2, <1>3, <1>6 DEF Taken, j
  <2> QED
    BY ZenonT(40), <2>1, <2>2, TakenIsFinite, FS_RemoveElement
<1> QED
  BY <1>4, <1>5, <1>6

\* The slots of deferred refunds leave the taken when the administrator adds them to
\* his number, as many as the number is raised by.
LEMMA OwedSlotsReturn ==
  ASSUME TypeOK, SlotsReturnOnce, NEW i \in Item, NEW request \in Nat,
         ApplyStockChange(i, request, "add_restorations")
  PROVE  /\ stock'[i] = request + Cardinality(PendingRestorations(i))
         /\ Cardinality(PendingRestorations(i)) \in Nat
         /\ Cardinality(Taken(i)') = Cardinality(Taken(i)) - Cardinality(PendingRestorations(i))
<1> DEFINE owed == PendingRestorations(i)
<1>1. /\ stock'[i] = request + Cardinality(owed)
      /\ row' = row /\ consumed' = consumed /\ restoration' = restoration
      /\ \A p \in Purchase : settlement'[p] = IF p \in owed THEN "applied" ELSE settlement[p]
  BY DEF ApplyStockChange, TypeOK
<1>2. owed \subseteq Taken(i)
  <2> SUFFICES ASSUME NEW p \in owed PROVE p \in Taken(i)
    OBVIOUS
  <2>1. /\ p \in Purchase /\ row[p].item = i
        /\ restoration[p] = "deferred" /\ settlement[p] = "none"
    BY DEF PendingRestorations
  <2>2. consumed[p]
    BY <2>1 DEF SlotsReturnOnce
  <2> QED
    BY <2>1, <2>2 DEF Taken
<1>3. IsFiniteSet(owed) /\ Cardinality(owed) \in Nat
  BY <1>2, TakenIsFinite, FS_Subset, FS_CardinalityType
<1> HIDE DEF owed
<1>4. Taken(i)' = Taken(i) \ owed
  BY <1>1 DEF Taken
<1>5. Taken(i) \cap owed = owed
  BY <1>2
<1>6. Cardinality(Taken(i) \ owed) = Cardinality(Taken(i)) - Cardinality(owed)
  BY <1>5, TakenIsFinite, FS_Difference
<1> QED
  BY <1>1, <1>3, <1>4, <1>6 DEF owed

\* Without that mode the number is the administrator's, and nothing is given back.
LEMMA NothingElseReturns ==
  ASSUME TypeOK, SlotsReturnOnce, NEW i \in Item, NEW request, NEW mode \in StockMode,
         ApplyStockChange(i, request, mode), mode # "add_restorations"
  PROVE  stock'[i] = request /\ \A k : Taken(k)' = Taken(k)
<1>1. /\ stock'[i] = request
      /\ row' = row /\ consumed' = consumed /\ restoration' = restoration
      /\ \A p \in Purchase : \/ settlement'[p] = settlement[p]
                             \/ settlement'[p] = "absorbed" /\ p \in PendingRestorations(i)
  BY DEF ApplyStockChange, TypeOK
<1>2. \A p \in PendingRestorations(i) : settlement[p] = "none"
  BY DEF PendingRestorations
<1>3. \A p \in Purchase : settlement'[p] = "applied" <=> settlement[p] = "applied"
  BY <1>1, <1>2
<1> QED
  BY <1>1, <1>3 DEF Taken

\* The shelves of other items are left alone.
LEMMA OtherShelvesKeep ==
  ASSUME TypeOK, NEW i \in Item, NEW request, NEW mode \in StockMode,
         ApplyStockChange(i, request, mode), NEW k \in Item, k # i
  PROVE  stock'[k] = stock[k] /\ Taken(k)' = Taken(k)
<1>1. /\ stock'[k] = stock[k]
      /\ row' = row /\ consumed' = consumed /\ restoration' = restoration
      /\ \A p \in Purchase \ PendingRestorations(i) : settlement'[p] = settlement[p]
  BY DEF ApplyStockChange, TypeOK
<1>2. \A p \in Purchase : row[p].item = k => p \notin PendingRestorations(i)
  BY DEF PendingRestorations
<1> QED
  BY <1>1, <1>2 DEF Taken

ShelfTypeOK == supply \in [Item -> Int]

LEMMA ShelfIsNumber ==
  ASSUME NEW n, n \in Nat \cup {Unlimited}
  PROVE  OnShelf(n) \in Nat /\ (n \in Nat => OnShelf(n) = n)
BY ConstantsAssumption DEF OnShelf, ConstantsAssumption

\* What an administrator does to a shelf, supply and slots change together.
LEMMA StockChangeConserves ==
  ASSUME TypeOK, ShelfTypeOK, SlotsReturnOnce, SlotsConserved,
         NEW i \in Item, NEW request \in StockRequest, NEW mode \in StockMode,
         StockChange(i, request, mode)
  PROVE  ShelfTypeOK' /\ SlotsConserved'
<1>1. /\ ApplyStockChange(i, request, mode)
      /\ supply' = [supply EXCEPT ![i] = supply[i] + OnShelf(request) - OnShelf(stock[i])]
  BY DEF StockChange
<1>2. request \in Nat \cup {Unlimited} /\ stock[i] \in Nat \cup {Unlimited}
  BY ConstantsAssumption DEF ConstantsAssumption, TypeOK
<1>3. OnShelf(request) \in Nat /\ OnShelf(stock[i]) \in Nat /\ supply[i] \in Int
  BY <1>2, ShelfIsNumber DEF ShelfTypeOK
<1>4. ShelfTypeOK'
  BY <1>1, <1>3 DEF ShelfTypeOK
<1>5. ASSUME NEW k \in Item, k # i
      PROVE  supply'[k] = OnShelf(stock'[k]) + Cardinality(Taken(k)')
  <2>1. supply'[k] = supply[k]
    BY <1>1, <1>5 DEF ShelfTypeOK
  <2>2. stock'[k] = stock[k] /\ Taken(k)' = Taken(k)
    BY <1>1, <1>5, OtherShelvesKeep
  <2> QED
    BY <2>1, <2>2 DEF SlotsConserved
<1>6. supply'[i] = OnShelf(stock'[i]) + Cardinality(Taken(i)')
  <2>1. supply'[i] = supply[i] + OnShelf(request) - OnShelf(stock[i])
    BY <1>1 DEF ShelfTypeOK
  <2>2. supply[i] = OnShelf(stock[i]) + Cardinality(Taken(i)) /\ Cardinality(Taken(i)) \in Nat
    BY TakenIsFinite DEF SlotsConserved
  <2>3. supply'[i] = OnShelf(request) + Cardinality(Taken(i))
    BY <1>3, <2>1, <2>2
  <2>4. CASE mode # "add_restorations"
    <3>1. stock'[i] = request /\ Taken(i)' = Taken(i)
      BY <1>1, <2>4, NothingElseReturns
    <3> QED
      BY <2>3, <3>1
  <2>5. CASE mode = "add_restorations"
    <3>1. request \in Nat
      BY <1>1, <1>2, <2>5 DEF ApplyStockChange
    <3> DEFINE owed == Cardinality(PendingRestorations(i))
    <3>2. /\ owed \in Nat /\ stock'[i] = request + owed
          /\ Cardinality(Taken(i)') = Cardinality(Taken(i)) - owed
      BY <1>1, <2>5, <3>1, OwedSlotsReturn
    <3> HIDE DEF owed
    <3>3. OnShelf(request) = request /\ OnShelf(stock'[i]) = request + owed
      BY <3>1, <3>2, ShelfIsNumber
    <3> QED
      BY <2>2, <2>3, <3>1, <3>2, <3>3
  <2> QED
    BY <2>4, <2>5
<1> QED
  BY <1>4, <1>5, <1>6 DEF SlotsConserved, Taken

LEMMA UnsoldTakesNothing ==
  ASSUME TypeOK, UnsoldTookNothing, [Next]_vars
  PROVE  UnsoldTookNothing'
<1> SUFFICES ASSUME NEW p \in Purchase, status'[p] = "none" PROVE ~consumed'[p]
  BY DEF UnsoldTookNothing
<1>1. ~consumed[p]
  BY EndedStaysEnded DEF UnsoldTookNothing
<1>2. ASSUME NEW q \in Purchase, BuyPurchase(q) PROVE consumed'[p] = consumed[p]
  <2>1. q # p
    BY <1>2 DEF BuyPurchase, TypeOK
  <2> QED
    BY <1>2, <2>1 DEF BuyPurchase, TypeOK
<1>3. CASE UNCHANGED consumed
  BY <1>1, <1>3
<1> QED
  BY <1>1, <1>2, <1>3, WritersOfStatusAndStock
  DEF PaysBack, ExpireOverdue, ApplyStockChange, shelf

\* Every other step moves at most one slot, between the shelf and the taken.
LEMMA PurchaseConserves ==
  ASSUME TypeOK, ShelfTypeOK, SlotsReturnOnce, UnsoldTookNothing, SlotsConserved,
         PurchaseStep, UNCHANGED supply
  PROVE  ShelfTypeOK' /\ SlotsConserved'
<1>1. ShelfTypeOK'
  BY DEF ShelfTypeOK
<1>2. SlotsConserved'
  <2> SUFFICES ASSUME NEW i \in Item
               PROVE  supply[i] = OnShelf(stock'[i]) + Cardinality(Taken(i)')
    BY DEF SlotsConserved, Taken
  <2>1. /\ stock[i] \in Nat \cup {Unlimited} /\ Cardinality(Taken(i)) \in Nat
        /\ supply[i] = OnShelf(stock[i]) + Cardinality(Taken(i))
    BY TakenIsFinite DEF TypeOK, SlotsConserved
  <2>2. CASE stock'[i] = stock[i] /\ Taken(i)' = Taken(i)
    BY <2>1, <2>2
  <2>3. CASE /\ stock[i] \in Nat \ {0} /\ stock'[i] = stock[i] - 1
             /\ Cardinality(Taken(i)') = Cardinality(Taken(i)) + 1
    <3>1. OnShelf(stock[i]) = stock[i] /\ OnShelf(stock'[i]) = stock[i] - 1
      BY <2>3, ShelfIsNumber
    <3> QED
      BY <2>1, <2>3, <3>1
  <2>4. CASE /\ stock[i] \in Nat /\ stock'[i] = stock[i] + 1
             /\ Cardinality(Taken(i)') = Cardinality(Taken(i)) - 1
    <3>1. OnShelf(stock[i]) = stock[i] /\ OnShelf(stock'[i]) = stock[i] + 1
      BY <2>4, ShelfIsNumber
    <3> QED
      BY <2>1, <2>4, <3>1
  <2>5. UNCHANGED <<row, shelf>> => stock'[i] = stock[i] /\ Taken(i)' = Taken(i)
    BY DEF Taken, shelf
  <2> QED
    BY <2>2, <2>3, <2>4, <2>5, WritersAmongPurchaseSteps, SaleConserves, RefundConserves
    DEF ExpireOverdue
<1> QED
  BY <1>1, <1>2

\* The shelf adds nothing to what the contract does.
LEMMA ShelfStepIsContractStep == [ShelfNext]_shelfVars => [Next]_vars
BY DEF ShelfNext, StockChange, Next, shelfVars

SlotsInvariant == ShelfTypeOK /\ UnsoldTookNothing /\ SlotsConserved

LEMMA SlotsStep ==
  TypeOK /\ SlotsReturnOnce /\ SlotsInvariant /\ [ShelfNext]_shelfVars => SlotsInvariant'
<1> SUFFICES ASSUME TypeOK, SlotsReturnOnce, SlotsInvariant, [ShelfNext]_shelfVars
             PROVE  SlotsInvariant'
  OBVIOUS
<1>1. [Next]_vars /\ ShelfTypeOK /\ UnsoldTookNothing /\ SlotsConserved
  BY ShelfStepIsContractStep DEF SlotsInvariant
<1>2. UnsoldTookNothing'
  BY <1>1, UnsoldTakesNothing
<1>3. ASSUME NEW i \in Item, NEW request \in StockRequest, NEW mode \in StockMode,
             StockChange(i, request, mode)
      PROVE  ShelfTypeOK' /\ SlotsConserved'
  BY <1>1, <1>3, StockChangeConserves
<1>4. UNCHANGED shelfVars => ShelfTypeOK' /\ SlotsConserved'
  <2> SUFFICES ASSUME UNCHANGED shelfVars PROVE ShelfTypeOK' /\ SlotsConserved'
    OBVIOUS
  <2>1. /\ supply' = supply /\ stock' = stock /\ row' = row /\ consumed' = consumed
        /\ restoration' = restoration /\ settlement' = settlement
    BY DEF shelfVars, vars, shelf
  <2> QED
    BY <1>1, <2>1 DEF ShelfTypeOK, SlotsConserved, Taken
<1>5. PurchaseStep /\ UNCHANGED supply => ShelfTypeOK' /\ SlotsConserved'
  BY <1>1, PurchaseConserves
<1> QED
  BY <1>2, <1>3, <1>4, <1>5 DEF SlotsInvariant, ShelfNext

\* What the administrators put up for an item is on its shelf or taken: sales, refunds
\* and changes of the stock, from limited to unlimited and back, lose no slot and give
\* none back twice.
THEOREM SlotsAreConserved == ShelfSpec => []SlotsConserved
<1>1. ShelfInit => SlotsInvariant
  <2> SUFFICES ASSUME ShelfInit PROVE SlotsInvariant
    OBVIOUS
  <2>1. /\ Init /\ supply = [i \in Item |-> OnShelf(stock[i])]
        /\ \A p \in Purchase : ~consumed[p]
    BY DEF ShelfInit, Init
  <2>2. \A i \in Item : Cardinality(Taken(i)) = 0
    BY <2>1, FS_EmptySet DEF Taken
  <2>3. \A i \in Item : stock[i] \in Nat \cup {Unlimited}
    BY <2>1, TypeInit DEF TypeOK
  <2>4. \A i \in Item : OnShelf(stock[i]) \in Nat
    BY <2>3, ShelfIsNumber
  <2>5. ShelfTypeOK
    BY <2>1, <2>4 DEF ShelfTypeOK
  <2>6. SlotsConserved
    BY <2>1, <2>2, <2>4 DEF SlotsConserved
  <2> QED
    BY <2>1, <2>5, <2>6 DEF SlotsInvariant, UnsoldTookNothing
<1>2. ShelfSpec => Spec
  <2>1. ShelfInit => Init
    BY DEF ShelfInit
  <2> QED
    BY <2>1, ShelfStepIsContractStep, PTL DEF ShelfSpec, Spec
<1>3. ContractInvariant => SlotsReturnOnce
  BY DEF ContractInvariant
<1>4. ShelfSpec => []SlotsInvariant
  BY <1>1, <1>2, <1>3, SlotsStep, TypeCorrect, ContractHolds, PTL DEF ShelfSpec
<1>5. SlotsInvariant => SlotsConserved
  BY DEF SlotsInvariant
<1> QED
  BY <1>4, <1>5, PTL

-----------------------------------------------------------------------------
\* No transaction takes a proof of delivery away.
LEMMA ProofStays ==
  ASSUME TypeOK, [Next]_vars, NEW q \in Purchase, Evidence(q)
  PROVE  Evidence(q)'
<1> SUFFICES ASSUME ~UNCHANGED <<row, delivery, human>>
             PROVE  Evidence(q)'
  BY DEF delivery, human, Evidence, OperatorSaid
<1>1. ASSUME NEW p \in Purchase, NEW d \in Decision,
             decisions' = [decisions EXCEPT ![p] = Append(decisions[p], d)],
             OperatorSaid(q, "delivered")
      PROVE  OperatorSaid(q, "delivered")'
  <2>1. CASE q = p
    BY <1>1, <2>1, OneMoreDecision DEF Decision
  <2>2. CASE q # p
    BY <1>1, <2>2 DEF TypeOK, OperatorSaid
  <2> QED
    BY <2>1, <2>2
<1>2. UNCHANGED decisions => (OperatorSaid(q, "delivered")' <=> OperatorSaid(q, "delivered"))
  BY DEF OperatorSaid
<1> USE DEF TypeOK, Evidence
<1>3. ASSUME NEW p \in Purchase,
             \/ BuyPurchase(p) \/ BeginDelivery(p) \/ MarkDeliveryFailed(p)
             \/ CompleteDeliveryWith(p) \/ CompleteManualDelivery(p)
             \/ \E added \in BOOLEAN : PatrolDelivered(p, added)
      PROVE  Evidence(q)'
  <2>1. UNCHANGED <<row, decisions>>
    BY <1>3 DEF BuyPurchase, BeginDelivery, MarkDeliveryFailed, CompleteDeliveryWith,
       CompleteManualDelivery, PatrolDelivered, human
  <2>2. deliveredAt[q] => deliveredAt'[q]
    BY <1>3 DEF BuyPurchase, BeginDelivery, MarkDeliveryFailed, CompleteDeliveryWith,
       CompleteManualDelivery, PatrolDelivered
  <2>3. verified[q] => verified'[q]
    <3>1. ASSUME NEW added \in BOOLEAN, PatrolDelivered(p, added) PROVE verified[q] => verified'[q]
      <4> DEFINE z == verified[p] \/ (added /\ AttributionProved(p))
      <4>1. verified' = [verified EXCEPT ![p] = z]
        BY <3>1 DEF PatrolDelivered
      <4>2. verified[p] => z
        OBVIOUS
      <4> HIDE DEF z
      <4>3. verified'[q] = IF q = p THEN z ELSE verified[q]
        BY <4>1
      <4> QED
        BY <4>2, <4>3
    <3>2. ~(\E added \in BOOLEAN : PatrolDelivered(p, added)) => UNCHANGED verified
      BY <1>3 DEF BuyPurchase, BeginDelivery, MarkDeliveryFailed, CompleteDeliveryWith,
         CompleteManualDelivery
    <3> QED
      BY <3>1, <3>2
  <2>4. dstate[q] = "delivered" => dstate'[q] = "delivered"
    <3>1. BuyPurchase(p) \/ CompleteDeliveryWith(p) \/ CompleteManualDelivery(p)
          \/ (\E added \in BOOLEAN : PatrolDelivered(p, added))
          => dstate' \in {dstate, [dstate EXCEPT ![p] = "delivered"]}
      BY DEF BuyPurchase, CompleteDeliveryWith, CompleteManualDelivery, PatrolDelivered
    <3>2. BeginDelivery(p) \/ MarkDeliveryFailed(p) =>
            dstate[p] # "delivered" /\ \E s : dstate' = [dstate EXCEPT ![p] = s]
      BY DEF BeginDelivery, MarkDeliveryFailed, DeliveryMayBegin
    <3> QED
      BY <1>3, <3>1, <3>2
  <2> QED
    BY <2>1, <2>2, <2>3, <2>4, <1>2
<1>4. ASSUME NEW p \in Purchase, NEW t \in Token,
             \/ ClaimExternalDelivery(p, t) \/ SettleExternalDelivery(p, t)
             \/ ReleaseExternalDelivery(p, t) \/ MarkExternalDeliveryUncertain(p, t)
             \/ \E s \in {"released", "uncertain"} : FailDelivery(p, t, s)
      PROVE  Evidence(q)'
  <2>1. UNCHANGED <<row, decisions, verified>>
    BY <1>4 DEF ClaimExternalDelivery, SettleExternalDelivery, ReleaseExternalDelivery,
       MarkExternalDeliveryUncertain, FailDelivery, human
  <2>2. deliveredAt[q] => deliveredAt'[q]
    BY <1>4 DEF ClaimExternalDelivery, SettleExternalDelivery, ReleaseExternalDelivery,
       MarkExternalDeliveryUncertain, FailDelivery
  <2>3. dstate[q] = "delivered" => dstate'[q] = "delivered"
    BY <1>4 DEF ClaimExternalDelivery, SettleExternalDelivery, ReleaseExternalDelivery,
       MarkExternalDeliveryUncertain, FailDelivery, DeliveryMayBegin, FailedUnlessDelivered
  <2> QED
    BY <2>1, <2>2, <2>3, <1>2
<1>5. ASSUME NEW p \in Purchase,
             \/ RetryRefund(p) \/ \E t \in Token : SettleVerifiedFailure(p, t)
      PROVE  Evidence(q)'
  <2>1. UNCHANGED <<row, deliveredAt, verified, decisions>> /\ ~Evidence(p)
    BY <1>5 DEF RetryRefund, SettleVerifiedFailure, human, RefundAllowed
  <2>2. p # q
    BY <2>1
  <2>3. dstate'[q] = dstate[q]
    <3>1. CASE RetryRefund(p)
      BY <3>1, <2>2 DEF RetryRefund, PayBack
    <3>2. ASSUME NEW t \in Token, SettleVerifiedFailure(p, t)
          PROVE  dstate'[q] = dstate[q]
      BY <3>2, <2>2 DEF SettleVerifiedFailure, PayBack
    <3> QED
      BY <1>5, <3>1, <3>2
  <2> QED
    BY <2>1, <2>3, <1>2
<1>6. ASSUME NEW p \in Purchase, NEW d \in Decision, NEW refund \in BOOLEAN,
             ResolveOperatorCase(p, d, refund)
      PROVE  Evidence(q)'
  <2>1. /\ UNCHANGED <<row, deliveredAt, verified>>
        /\ decisions' = [decisions EXCEPT ![p] = Append(decisions[p], d)]
    BY <1>6 DEF ResolveOperatorCase
  <2>2. OperatorSaid(q, "delivered") => OperatorSaid(q, "delivered")'
    BY <1>1, <2>1
  <2>3. dstate'[q] = dstate[q] \/ q = p
    <3>1. CASE d = "no_effect"
      <4>1. \E s : dstate' = [dstate EXCEPT ![p] = s]
        BY <1>6, <3>1 DEF ResolveOperatorCase, PayBack
      <4> QED
        BY <4>1
    <3>2. CASE d # "no_effect"
      BY <1>6, <3>2 DEF ResolveOperatorCase, Decision
    <3> QED
      BY <3>1, <3>2
  <2>4. CASE q = p /\ RefundAllowed(p, TRUE)
    <3>1. ~Evidence(q)
      BY <2>4 DEF RefundAllowed
    <3> QED
      BY <3>1
  <2>5. CASE q = p /\ ~RefundAllowed(p, TRUE)
    <3>1. dstate[q] = "delivered" => dstate'[q] = "delivered"
      BY <1>6, <2>5 DEF ResolveOperatorCase, Decision, FailedUnlessDelivered
    <3> QED
      BY <2>1, <2>2, <3>1
  <2> QED
    BY <2>1, <2>2, <2>3, <2>4, <2>5
<1>7. \A p \in Purchase :
        /\ ~Extend(p) /\ ~BackfillRoleRevocation(p)
        /\ \A result \in {"done", "failed"} : ~FinishRoleRevocation(p, result)
  BY DEF Extend, BackfillRoleRevocation, FinishRoleRevocation
<1>8. ~Tick /\ ~ExpireOverdue /\ ~(UNCHANGED vars)
      /\ \A i \in Item, request \in StockRequest, mode \in StockMode :
           ~ApplyStockChange(i, request, mode)
  BY DEF Tick, ExpireOverdue, ApplyStockChange, vars
<1> QED
  BY <1>3, <1>4, <1>5, <1>6, <1>7, <1>8 DEF Next, PurchaseStep

\* A proof of delivery, once there, is never lost: not by a failure marked late, an
\* operator's decision, a refund or a recovery.
THEOREM EvidenceIsNeverLost ==
  Spec => [][\A p \in Purchase : Evidence(p) => Evidence(p)']_vars
<1>1. TypeOK /\ [Next]_vars => [\A p \in Purchase : Evidence(p) => Evidence(p)']_vars
  BY ProofStays
<1> QED
  BY <1>1, TypeCorrect, PTL DEF Spec
=============================================================================
