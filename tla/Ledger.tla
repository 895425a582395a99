------------------------------- MODULE Ledger -------------------------------
(***************************************************************************)
(* The Land ledger, packages/core/src/ledger: accounts with a kind and a   *)
(* status, an append-only table of transactions with unique idempotency    *)
(* keys, and the cached balances written in the same database transaction. *)
(*                                                                         *)
(* Every call is synchronous on one SQLite connection, so a call is one    *)
(* step.  A call that is refused, or that repeats a key, changes nothing:  *)
(* it is the absence of a step.  The outbox rows of a transaction follow   *)
(* from its row (Notices in module Outbox).                                *)
(***************************************************************************)
EXTENDS Integers, FiniteSets, FiniteSetsExt

CONSTANTS
  Account,            \* account ids, "user:..." and "sys:..."
  Kind,               \* account |-> "user" or "system"
  Treasury,           \* "sys:treasury"
  Minor,              \* accounts of users under age
  Freezable,          \* accounts whose status is changed
  Key,                \* idempotency keys of the callers
  Request,            \* the requests the callers make
  ApprovalThreshold,  \* above it a transfer needs approvedBy
  MaxAmount           \* absolute limit of one transfer

ASSUME LedgerAssumption ==
  /\ IsFiniteSet(Account)
  /\ Treasury \in Account
  /\ Kind \in [Account -> {"user", "system"}]
  /\ Kind[Treasury] = "system"
  /\ Minor \subseteq Account /\ Freezable \subseteq Account
  /\ ApprovalThreshold \in Nat
  /\ MaxAmount \in Nat
  /\ \A r \in Request :
       /\ r.key \in Key
       /\ r.from \in Account /\ r.to \in Account
       /\ r.amount \in Int
       /\ r.type \in STRING
       /\ r.approved \in BOOLEAN

VARIABLES
  status,        \* account |-> "absent", "active" or "frozen"
  balance,       \* account |-> cached balance
  transactions   \* the rows of the table

ledgerVars == <<status, balance, transactions>>

\* The registry of transaction types: who may pay whom.
SysToUser ==
  {"opening", "initial", "salary", "pension", "vc_reward", "reward_boost",
   "reward_bump", "event_prize", "harvest", "insurance_payout",
   "room_refund", "dept_out", "commission", "prize", "ether_sell",
   "chip_redeem"}
UserToSys ==
  {"dept_in", "fine", "tax", "shop_official", "tip_burn", "event_fee",
   "insurance_premium", "room_fee", "bet", "ether_buy", "chip_deposit"}
UserToUser == {"transfer", "shop_personal", "fanclub", "inheritance", "tip"}
SysToSys ==
  {"market_house_fee", "ether_burn", "ether_settle", "ether_house_fund",
   "chip_fund", "chip_settle", "casino_remittance", "casino_bailout"}
AnyToAny == {"adjust"}

TxType == SysToUser \union UserToSys \union UserToUser \union SysToSys
            \union AnyToAny

MinorBlocked ==
  {"bet", "prize", "ether_buy", "ether_sell", "chip_deposit", "chip_redeem"}

PaysFrom(type, kind) ==
  \/ kind = "system" /\ type \in SysToUser \union SysToSys \union AnyToAny
  \/ kind = "user" /\ type \in UserToSys \union UserToUser \union AnyToAny

PaysTo(type, kind) ==
  \/ kind = "system" /\ type \in UserToSys \union SysToSys \union AnyToAny
  \/ kind = "user" /\ type \in SysToUser \union UserToUser \union AnyToAny

-----------------------------------------------------------------------------
Rows(key) == {t \in transactions : t.key = key /\ ~t.reversal}

Known(key) == Rows(key) # {}

Reversed(t) == \E u \in transactions : u.reversal /\ u.key = t.key

WithinLimits(r) == r.amount > 0 /\ r.amount =< MaxAmount

AffordsSome(r) == r.from # Treasury => balance[r.from] > 0      \* mutant
Affords(r) == r.from # Treasury => balance[r.from] >= r.amount

\* What the ledger asks of a transfer while the accounts are st.  The order of
\* the checks decides only which error is reported.
AcceptsWith(st, r) ==
  /\ WithinLimits(r)
  /\ r.from # r.to
  /\ st[r.from] = "active" /\ st[r.to] = "active"
  /\ PaysFrom(r.type, Kind[r.from])
  /\ PaysTo(r.type, Kind[r.to])
  /\ r.type \in MinorBlocked => r.from \notin Minor /\ r.to \notin Minor
  /\ r.amount > ApprovalThreshold => r.approved
  /\ Affords(r)

Accepts(r) == AcceptsWith(status, r)

ApplyBalanceOneSided(from, to, n) ==      \* mutant: the payer's cache is stale
  balance' = [balance EXCEPT ![to] = @ + n]

ApplyBalance(from, to, n) ==
  balance' = [balance EXCEPT ![from] = @ - n, ![to] = @ + n]

Post(r, reversal) ==
  /\ transactions' = transactions \union
       {[key |-> r.key, reversal |-> reversal, from |-> r.from, to |-> r.to,
         amount |-> r.amount, type |-> r.type]}
  /\ ApplyBalance(r.from, r.to, r.amount)

TransferAgain(r) ==      \* mutant: does not ask whether the key was used
  /\ Accepts(r)
  /\ Post(r, FALSE)
  /\ UNCHANGED status

Transfer(r) ==
  /\ ~Known(r.key)
  /\ Accepts(r)
  /\ Post(r, FALSE)
  /\ UNCHANGED status

\* Callers that pay somebody new open the account in the same transaction.
Opened(a) == [status EXCEPT ![a] = IF @ = "absent" THEN "active" ELSE @]

OpenAndTransfer(r) ==
  /\ ~Known(r.key)
  /\ AcceptsWith(Opened(r.to), r)
  /\ Post(r, FALSE)
  /\ status' = Opened(r.to)

\* The opposite transfer under the type of the original one, so a type that
\* runs one way (a salary, a fine) is refused: the kinds no longer match.
Opposite(t) ==
  [key |-> t.key, from |-> t.to, to |-> t.from, amount |-> t.amount,
   type |-> t.type, approved |-> TRUE]

Reverse(t) ==
  /\ ~t.reversal
  /\ ~Reversed(t)
  /\ Accepts(Opposite(t))
  /\ Post(Opposite(t), TRUE)
  /\ UNCHANGED status

EnsureAccount(a) ==
  /\ status[a] = "absent"
  /\ status' = [status EXCEPT ![a] = "active"]
  /\ UNCHANGED <<balance, transactions>>

SetAccountStatus(a, s) ==
  /\ status[a] \notin {"absent", s}
  /\ status' = [status EXCEPT ![a] = s]
  /\ UNCHANGED <<balance, transactions>>

LedgerInit ==
  /\ status = [a \in Account |-> IF a = Treasury THEN "active" ELSE "absent"]
  /\ balance = [a \in Account |-> 0]
  /\ transactions = {}

LedgerNext ==
  \/ \E r \in Request : Transfer(r)
  \/ \E t \in transactions : Reverse(t)
  \/ \E a \in Account : EnsureAccount(a)
  \/ \E a \in Freezable, s \in {"active", "frozen"} : SetAccountStatus(a, s)

LedgerSpec == LedgerInit /\ [][LedgerNext]_ledgerVars

-----------------------------------------------------------------------------
\* The audit: recompute every balance from the transactions.
Amounts(T) == SumFunction([t \in T |-> t.amount])

Computed(a) ==
  Amounts({t \in transactions : t.to = a})
    - Amounts({t \in transactions : t.from = a})

VerifyIntegrity ==
  /\ \A a \in Account : Computed(a) = balance[a]
  /\ SumFunction([a \in Account |-> Computed(a)]) = 0

MoneySupply == -balance[Treasury]

TxRow ==
  [key : Key, reversal : BOOLEAN, from : Account, to : Account,
   amount : 1..MaxAmount, type : TxType]

\* The state is well formed.
LedgerTypeOK ==
  /\ status \in [Account -> {"absent", "active", "frozen"}]
  /\ balance \in [Account -> Int]
  /\ transactions \in SUBSET TxRow

\* Whatever is paid, repeated, reversed and frozen in whatever order, no
\* account but the treasury is ever overdrawn (service.ts: "only the treasury
\* may be negative, every other account, escrows included, is not").
NoOverdraft == \A a \in Account \ {Treasury} : balance[a] >= 0

\* The nightly audit of the program always agrees: every cached balance is
\* what the transactions add up to, and all balances add up to zero.
IntegrityHolds == VerifyIntegrity

\* Both together: the books of the bank are sound at every moment.
BooksSound == NoOverdraft /\ IntegrityHolds

\* A key stands for one movement of money and a movement is undone at most
\* once, by exactly what it moved: the ledger implements the Bank.
LedgerBank == INSTANCE Bank WITH moved <- transactions
BankSpec == LedgerBank!Spec
=============================================================================
