--------------------------- MODULE Treasury_proofs ---------------------------
(***************************************************************************)
(* The ledger and the services built on it: notices, salaries and boost    *)
(* rewards.  Each of them keeps the books of the ledger, implements the    *)
(* Bank, and keeps what it promises itself.                                *)
(***************************************************************************)
EXTENDS Ledger, Outbox, Payroll, Boost, Sums_proofs, SequenceTheorems

-----------------------------------------------------------------------------
(***************************************************************************)
(* The books of the ledger, for every set of accounts, requests and limits:*)
(* no account but the treasury is overdrawn, the cached balances are what  *)
(* the transactions add up to, and the ledger implements the Bank.         *)
(*                                                                         *)
(* Everything is proved of one step of the ledger, LedgerStep, which is    *)
(* what the services built on it can do to it, and not only of LedgerSpec. *)
(***************************************************************************)
\* What a service may do to the ledger: the handlers, with any request whose
\* key and accounts exist.
WellFormed(r) ==
  r.key \in Key /\ r.from \in Account /\ r.to \in Account /\ r.amount \in Int

LedgerStep ==
  \/ \E r : WellFormed(r) /\ Transfer(r)
  \/ \E r : WellFormed(r) /\ OpenAndTransfer(r)
  \/ \E t \in transactions : Reverse(t)
  \/ \E a \in Account : EnsureAccount(a)
  \/ \E a \in Account, s \in {"active", "frozen"} : SetAccountStatus(a, s)
  \/ UNCHANGED ledgerVars

\* The audit of the program in the form a step changes: what came in and what
\* went out, account by account, and the sum of the balances.
BalancesComputed ==
  \A a \in Account : balance[a] = Computed(a)

BalancesAddUp == SumFunctionOnSet(balance, Account) = 0

\* The inductive invariant.
Books ==
  /\ LedgerTypeOK
  /\ IsFiniteSet(transactions)
  /\ NoOverdraft
  /\ BalancesComputed
  /\ BalancesAddUp

-----------------------------------------------------------------------------
\* A row more adds its amount.
LEMMA AmountsAdd ==
  ASSUME NEW T, IsFiniteSet(T), NEW m, m \notin T,
         \A t \in T \union {m} : t.amount \in Int
  PROVE  Amounts(T \union {m}) = m.amount + Amounts(T)
<1> DEFINE w == [t \in T \union {m} |-> t.amount]
           v == [t \in T |-> t.amount]
<1>1. SumFunctionOnSet(w, T \union {m}) = w[m] + SumFunctionOnSet(w, T)
  BY SumAdd
<1>2. SumFunctionOnSet(w, T) = SumFunctionOnSet(v, T)
  BY SumEqual
<1> QED
  BY <1>1, <1>2 DEF Amounts, SumFunction

LEMMA AmountsInt ==
  ASSUME NEW T, IsFiniteSet(T), \A t \in T : t.amount \in Int
  PROVE  Amounts(T) \in Int
BY SumInt DEF Amounts, SumFunction

LEMMA AmountsNone == Amounts({}) = 0
BY SumEmpty DEF Amounts, SumFunction

\* The program's audit is the invariant's two parts.
LEMMA AuditAgrees ==
  ASSUME Books PROVE IntegrityHolds
<1> DEFINE c == [a \in Account |-> Computed(a)]
<1>1. SumFunctionOnSet(c, Account) = SumFunctionOnSet(balance, Account)
  BY LedgerAssumption, SumEqual DEF Books, BalancesComputed
<1>2. SumFunction(c) = 0
  BY <1>1 DEF Books, BalancesAddUp, SumFunction
<1> QED
  BY <1>2 DEF Books, BalancesComputed, IntegrityHolds, VerifyIntegrity

-----------------------------------------------------------------------------
\* A new row with its two changes of the balances keeps the books.
LEMMA PostKeepsBooks ==
  ASSUME Books, NEW r, NEW reversal \in BOOLEAN, WellFormed(r),
         WithinLimits(r), r.from # r.to, r.type \in TxType, Affords(r),
         \A t \in transactions : <<t.key, t.reversal>> # <<r.key, reversal>>,
         Post(r, reversal)
  PROVE  /\ balance' \in [Account -> Int]
         /\ transactions' \in SUBSET TxRow
         /\ IsFiniteSet(transactions)'
         /\ NoOverdraft' /\ BalancesComputed' /\ BalancesAddUp'
<1> DEFINE m == [key |-> r.key, reversal |-> reversal, from |-> r.from,
                 to |-> r.to, amount |-> r.amount, type |-> r.type]
           n == r.amount
<1>1. m \in TxRow /\ m \notin transactions
  BY LedgerAssumption DEF TxRow, WellFormed, WithinLimits
<1>2. transactions' = transactions \union {m}
  BY DEF Post
<1>3. balance' = [balance EXCEPT ![r.from] = @ - n, ![r.to] = @ + n]
  BY DEF Post, ApplyBalance
<1>4. /\ balance \in [Account -> Int] /\ transactions \subseteq TxRow
      /\ IsFiniteSet(transactions)
      /\ n \in Nat \ {0} /\ r.from \in Account /\ r.to \in Account
      /\ r.from # r.to
  BY DEF Books, LedgerTypeOK, WellFormed, WithinLimits
<1>5. balance' \in [Account -> Int]
  BY <1>3, <1>4
<1>6. \A a \in Account :
        balance'[a] = balance[a] + (IF a = r.to THEN n ELSE 0)
                                 - (IF a = r.from THEN n ELSE 0)
  BY <1>3, <1>4
<1>7. IsFiniteSet(transactions)'
  BY <1>2, <1>4, FS_AddElement
<1>8. NoOverdraft'
  BY <1>4, <1>6 DEF Books, NoOverdraft, Affords
<1>9. \A t \in transactions \union {m} : t.amount \in Int
  BY <1>1, <1>4 DEF TxRow
<1>10. ASSUME NEW a \in Account
       PROVE  balance'[a] = Computed(a)'
  <2> DEFINE in == {t \in transactions : t.to = a}
             out == {t \in transactions : t.from = a}
  <2>1. IsFiniteSet(in) /\ IsFiniteSet(out)
    BY <1>4, FS_Subset
  <2>2. Amounts(in) \in Int /\ Amounts(out) \in Int
    BY <2>1, <1>9, AmountsInt
  <2>3. balance[a] = Amounts(in) - Amounts(out)
    BY DEF Books, BalancesComputed, Computed
  <2>4. Amounts(in') = Amounts(in) + (IF a = r.to THEN n ELSE 0)
    <3>1. CASE a = r.to
      <4>1. in' = in \union {m}
        BY <1>2, <3>1
      <4>2. Amounts(in \union {m}) = m.amount + Amounts(in)
        BY <1>1, <1>9, <2>1, AmountsAdd
      <4> HIDE DEF in
      <4> QED
        BY <4>1, <4>2, <3>1, <2>2, <1>4
    <3>2. CASE a # r.to
      <4>1. in' = in
        BY <1>2, <3>2
      <4> HIDE DEF in
      <4> QED
        BY <4>1, <3>2, <2>2
    <3> QED
      BY <3>1, <3>2
  <2>5. Amounts(out') = Amounts(out) + (IF a = r.from THEN n ELSE 0)
    <3>1. CASE a = r.from
      <4>1. out' = out \union {m}
        BY <1>2, <3>1
      <4>2. Amounts(out \union {m}) = m.amount + Amounts(out)
        BY <1>1, <1>9, <2>1, AmountsAdd
      <4> HIDE DEF out
      <4> QED
        BY <4>1, <4>2, <3>1, <2>2, <1>4
    <3>2. CASE a # r.from
      <4>1. out' = out
        BY <1>2, <3>2
      <4> HIDE DEF out
      <4> QED
        BY <4>1, <3>2, <2>2
    <3> QED
      BY <3>1, <3>2
  <2>6. Computed(a)' = Amounts(in') - Amounts(out')
    BY DEF Computed, Amounts, SumFunction
  <2> HIDE DEF in, out
  <2> QED
    BY <2>2, <2>3, <2>4, <2>5, <2>6, <1>4, <1>6
<1>11. BalancesComputed'
  BY <1>10 DEF BalancesComputed
<1>12. BalancesAddUp'
  <2> DEFINE paid == [balance EXCEPT ![r.from] = @ - n]
  <2>1. paid \in [Account -> Int]
    BY <1>4
  <2>2. SumFunctionOnSet(paid, Account)
          = SumFunctionOnSet(balance, Account) - balance[r.from] + paid[r.from]
    <3>1. /\ \A a \in Account : balance[a] \in Int /\ paid[a] \in Int
          /\ \A a \in Account \ {r.from} : paid[a] = balance[a]
      BY <1>4, <2>1
    <3> HIDE DEF paid
    <3> QED
      BY <3>1, <1>4, LedgerAssumption, SumUpdate
  <2>3. SumFunctionOnSet(balance', Account)
          = SumFunctionOnSet(paid, Account) - paid[r.to] + balance'[r.to]
    <3>1. \A a \in Account \ {r.to} : balance'[a] = paid[a]
      BY <1>3, <1>4
    <3>2. \A a \in Account : paid[a] \in Int /\ balance'[a] \in Int
      BY <1>5, <2>1
    <3> HIDE DEF paid
    <3> QED
      BY <3>1, <3>2, <1>4, LedgerAssumption, SumUpdate
  <2>4. /\ paid[r.from] = balance[r.from] - n
        /\ balance'[r.to] = paid[r.to] + n
        /\ paid[r.to] \in Int /\ balance[r.from] \in Int
    BY <1>3, <1>4
  <2>5. SumFunctionOnSet(balance, Account) = 0
    BY DEF Books, BalancesAddUp
  <2> HIDE DEF paid, n
  <2>6. SumFunctionOnSet(balance', Account) = 0
    BY <1>4, <2>2, <2>3, <2>4, <2>5
  <2> QED
    BY <2>6 DEF BalancesAddUp
<1> QED
  BY <1>1, <1>2, <1>4, <1>5, <1>7, <1>8, <1>11, <1>12

LEMMA TransferKeepsBooks ==
  ASSUME Books, NEW r, WellFormed(r), Transfer(r) \/ OpenAndTransfer(r)
  PROVE  Books'
<1>1. /\ WithinLimits(r) /\ r.from # r.to /\ Affords(r) /\ r.type \in TxType
      /\ Post(r, FALSE)
  BY DEF Transfer, OpenAndTransfer, Accepts, AcceptsWith, PaysFrom, TxType
<1>2. \A t \in transactions : <<t.key, t.reversal>> # <<r.key, FALSE>>
  BY DEF Transfer, OpenAndTransfer, Known, Rows
<1>3. status' \in [Account -> {"absent", "active", "frozen"}]
  BY DEF Books, LedgerTypeOK, Transfer, OpenAndTransfer, Opened
<1> QED
  BY <1>1, <1>2, <1>3, PostKeepsBooks DEF Books, LedgerTypeOK

LEMMA ReverseKeepsBooks ==
  ASSUME Books, NEW t \in transactions, Reverse(t)
  PROVE  Books'
<1> DEFINE r == Opposite(t)
<1>1. WellFormed(r)
  BY DEF WellFormed, Opposite, Books, LedgerTypeOK, TxRow
<1>2. /\ WithinLimits(r) /\ r.from # r.to /\ Affords(r) /\ r.type \in TxType
      /\ Post(r, TRUE)
  BY DEF Reverse, Accepts, AcceptsWith, PaysFrom, TxType
<1>3. \A u \in transactions : <<u.key, u.reversal>> # <<r.key, TRUE>>
  BY DEF Reverse, Reversed, Opposite
<1>4. status' \in [Account -> {"absent", "active", "frozen"}]
  BY DEF Books, LedgerTypeOK, Reverse
<1> HIDE DEF r
<1> QED
  BY <1>1, <1>2, <1>3, <1>4, PostKeepsBooks DEF Books, LedgerTypeOK

\* A step that moves no money keeps the books.
LEMMA SameMoneyKeepsBooks ==
  ASSUME Books, UNCHANGED <<balance, transactions>>,
         status' \in [Account -> {"absent", "active", "frozen"}]
  PROVE  Books'
<1>1. \A a \in Account : Computed(a)' = Computed(a)
  BY DEF Computed, Amounts, SumFunction
<1> QED
  BY <1>1 DEF Books, LedgerTypeOK, NoOverdraft, BalancesComputed, BalancesAddUp

LEMMA LedgerStepKeepsBooks ==
  ASSUME Books, LedgerStep PROVE Books'
<1>1. CASE \E r : WellFormed(r) /\ (Transfer(r) \/ OpenAndTransfer(r))
  BY <1>1, TransferKeepsBooks
<1>2. CASE \E t \in transactions : Reverse(t)
  BY <1>2, ReverseKeepsBooks
<1>3. CASE \E a \in Account : EnsureAccount(a)
  BY <1>3, SameMoneyKeepsBooks DEF EnsureAccount, Books, LedgerTypeOK
<1>4. CASE \E a \in Account, s \in {"active", "frozen"} : SetAccountStatus(a, s)
  BY <1>4, SameMoneyKeepsBooks DEF SetAccountStatus, Books, LedgerTypeOK
<1>5. CASE UNCHANGED ledgerVars
  BY <1>5, SameMoneyKeepsBooks DEF ledgerVars, Books, LedgerTypeOK
<1> QED
  BY <1>1, <1>2, <1>3, <1>4, <1>5 DEF LedgerStep

LEMMA BooksInitially ==
  ASSUME LedgerInit PROVE Books
<1>1. LedgerTypeOK
  BY DEF LedgerInit, LedgerTypeOK
<1>2. IsFiniteSet(transactions)
  BY FS_EmptySet DEF LedgerInit
<1>3. NoOverdraft
  BY DEF LedgerInit, NoOverdraft
<1>4. ASSUME NEW a \in Account PROVE balance[a] = Computed(a)
  <2>1. /\ {t \in transactions : t.to = a} = {}
        /\ {t \in transactions : t.from = a} = {}
    BY DEF LedgerInit
  <2>2. balance[a] = 0
    BY DEF LedgerInit
  <2> QED
    BY <2>1, <2>2, AmountsNone DEF Computed
<1>5. BalancesAddUp
  BY LedgerAssumption, SumZero DEF LedgerInit, BalancesAddUp
<1> QED
  BY <1>1, <1>2, <1>3, <1>4, <1>5 DEF Books, BalancesComputed

LEMMA LedgerNextIsStep ==
  ASSUME [LedgerNext]_ledgerVars PROVE LedgerStep
BY LedgerAssumption DEF LedgerNext, LedgerStep, WellFormed

\* The inductive invariant of the ledger.
THEOREM LedgerInvariant == LedgerSpec => []Books
<1>1. Books /\ [LedgerNext]_ledgerVars => Books'
  BY LedgerNextIsStep, LedgerStepKeepsBooks
<1> QED
  BY <1>1, BooksInitially, PTL DEF LedgerSpec

\* The state of the ledger is well formed.
THEOREM LedgerTypeCorrect == LedgerSpec => []LedgerTypeOK
BY LedgerInvariant, PTL DEF Books

\* Whatever is paid, repeated, reversed and frozen in whatever order, nobody
\* but the treasury is overdrawn and the nightly audit (verifyIntegrity)
\* agrees: cached balances, transactions and a sum of zero.
THEOREM LedgerBooksSound == LedgerSpec => []BooksSound
<1>1. Books => BooksSound
  BY AuditAgrees DEF Books, BooksSound
<1> QED
  BY <1>1, LedgerInvariant, PTL

-----------------------------------------------------------------------------
\* A step of the ledger is a step of the Bank or moves nothing.
LEMMA LedgerStepIsBankStep ==
  ASSUME Books, LedgerStep
  PROVE  [LedgerBank!Next]_(LedgerBank!vars)
<1>1. ASSUME NEW r, WellFormed(r), Transfer(r) \/ OpenAndTransfer(r)
      PROVE  LedgerBank!Next
  <2> DEFINE m == [key |-> r.key, reversal |-> FALSE, from |-> r.from,
                   to |-> r.to, amount |-> r.amount, type |-> r.type]
  <2>1. /\ WithinLimits(r) /\ r.from # r.to /\ Affords(r)
        /\ transactions' = transactions \union {m}
        /\ balance' = [balance EXCEPT ![r.from] = @ - r.amount,
                                      ![r.to] = @ + r.amount]
    BY <1>1 DEF Transfer, OpenAndTransfer, Accepts, AcceptsWith, Post, ApplyBalance
  <2>2. LedgerBank!Fresh(m)
    BY <1>1 DEF Transfer, OpenAndTransfer, Known, Rows, LedgerBank!Fresh
  <2>3. LedgerBank!Move(m)
    BY <2>1, <2>2 DEF LedgerBank!Move, WithinLimits, Affords
  <2> QED
    BY <2>1, <2>3 DEF LedgerBank!Next
<1>2. ASSUME NEW t \in transactions, Reverse(t)
      PROVE  LedgerBank!Next
  <2> DEFINE r == Opposite(t)
             m == [key |-> r.key, reversal |-> TRUE, from |-> r.from,
                   to |-> r.to, amount |-> r.amount, type |-> r.type]
  <2>1. /\ WithinLimits(r) /\ r.from # r.to /\ Affords(r)
        /\ transactions' = transactions \union {m}
        /\ balance' = [balance EXCEPT ![r.from] = @ - r.amount,
                                      ![r.to] = @ + r.amount]
    BY <1>2 DEF Reverse, Accepts, AcceptsWith, Post, ApplyBalance
  <2>2. LedgerBank!Fresh(m)
    BY <1>2 DEF Reverse, Reversed, Opposite, LedgerBank!Fresh
  <2>3. LedgerBank!Undoes(m)
    BY <1>2 DEF Reverse, Opposite, LedgerBank!Undoes
  <2>4. LedgerBank!Move(m)
    BY <2>1, <2>2, <2>3 DEF LedgerBank!Move, WithinLimits, Affords
  <2> QED
    BY <2>1, <2>4 DEF LedgerBank!Next
<1>3. CASE UNCHANGED <<balance, transactions>>
  BY <1>3 DEF LedgerBank!vars
<1> QED
  BY <1>1, <1>2, <1>3
  DEF LedgerStep, EnsureAccount, SetAccountStatus, ledgerVars

LEMMA LedgerInitIsBankInit ==
  ASSUME LedgerInit PROVE LedgerBank!Init
BY DEF LedgerInit, LedgerBank!Init

\* Keys, approvals, account kinds and statuses are how the ledger does it; what
\* it does is the Bank: each payment once, each undone at most once and
\* exactly, and nobody but the treasury pays what it does not have.
THEOREM LedgerImplementsBank == LedgerSpec => BankSpec
<1>1. LedgerInit => LedgerBank!Init
  BY LedgerInitIsBankInit
<1>2. Books /\ [LedgerNext]_ledgerVars => [LedgerBank!Next]_(LedgerBank!vars)
  BY LedgerNextIsStep, LedgerStepIsBankStep
<1> QED
  BY <1>1, <1>2, LedgerInvariant, PTL DEF LedgerSpec, BankSpec, LedgerBank!Spec

-----------------------------------------------------------------------------
(***************************************************************************)
(* The notices.                                                            *)
(***************************************************************************)
Notice ==
  [kind : OtherNotice \union {"audit_log", "public_log"},
   type : TxType \union {"event"}, attempts : Nat,
   delivered : BOOLEAN, posted : BOOLEAN]

\* The inductive invariant of the rows.
NoticesInv ==
  /\ outbox \in Seq(Notice)
  /\ restarts \in Nat
  /\ LostOnlyWithTheDigest

\* What a step of the outbox is to the ledger.
LEMMA OutboxStepIsLedgerStep ==
  ASSUME [OutboxNext]_outboxVars PROVE LedgerStep
<1>1. CASE \E r \in Request : TransferNotified(r)
  BY <1>1, LedgerAssumption DEF TransferNotified, LedgerStep, WellFormed
<1>2. CASE \E t \in transactions : ReverseNotified(t)
  BY <1>2 DEF ReverseNotified, LedgerStep
<1>3. CASE \E a \in Account : EnsureAccount(a) /\ LedgerOnly
  BY <1>3 DEF LedgerStep
<1>4. CASE \E a \in Freezable, s \in {"active", "frozen"} :
             SetAccountStatus(a, s) /\ LedgerOnly
  BY <1>4, LedgerAssumption DEF LedgerStep
<1>5. CASE UNCHANGED ledgerVars
  BY <1>5 DEF LedgerStep
<1> QED
  BY <1>1, <1>2, <1>3, <1>4, <1>5
  DEF OutboxNext, Announce, Configure, Tick, SkipRow, CollectRow, SendRow,
      MessageAppears, MarkOutboxDelivered, IncrementOutboxAttempts,
      FlushAuditDigest, Restart, outboxVars

\* New rows at the end are neither delivered nor posted.
LEMMA RowsAdded ==
  ASSUME NoticesInv, NEW new \in Seq(Notice), outbox' = outbox \o new,
         \A j \in 1..Len(new) : ~new[j].delivered,
         UNCHANGED <<digest, restarts>>
  PROVE  NoticesInv'
<1>1. outbox' \in Seq(Notice) /\ Len(outbox') = Len(outbox) + Len(new)
  BY ConcatProperties DEF NoticesInv
<1>2. ASSUME NEW i \in 1..Len(outbox') PROVE
        \/ i \in 1..Len(outbox) /\ outbox'[i] = outbox[i]
        \/ ~outbox'[i].delivered
  <2>1. CASE i =< Len(outbox)
    BY <2>1, ConcatProperties DEF NoticesInv
  <2>2. CASE i > Len(outbox)
    <3>1. i - Len(outbox) \in 1..Len(new) /\ outbox'[i] = new[i - Len(outbox)]
      BY <1>1, <2>2, ConcatProperties, LenProperties DEF NoticesInv
    <3> QED
      BY <3>1
  <2> QED
    BY <2>1, <2>2, LenProperties DEF NoticesInv
<1>3. LostOnlyWithTheDigest'
  BY <1>2 DEF NoticesInv, LostOnlyWithTheDigest, Id, Digestible
<1> QED
  BY <1>1, <1>3 DEF NoticesInv

LEMMA NoticesOfTypes ==
  ASSUME NEW type \in TxType
  PROVE  /\ Notices(type) \in Seq(Notice)
         /\ \A j \in 1..Len(Notices(type)) : ~Notices(type)[j].delivered
<1>1. /\ NewRow("audit_log", type) \in Notice
      /\ NewRow("public_log", type) \in Notice
      /\ ~NewRow("audit_log", type).delivered
      /\ ~NewRow("public_log", type).delivered
  BY DEF NewRow, Notice
<1> HIDE DEF NewRow
<1>2. CASE type \in PublicLog
  <2> DEFINE a == NewRow("audit_log", type)
             b == NewRow("public_log", type)
  <2> HIDE DEF a, b
  <2>1. Notices(type) = <<a>> \o <<b>>
    BY <1>2 DEF Notices, a, b
  <2>2. <<a>> \in Seq(Notice) /\ <<b>> \in Seq(Notice)
    BY <1>1 DEF a, b
  <2>3. /\ <<a>> \o <<b>> \in Seq(Notice) /\ Len(<<a>> \o <<b>>) = 2
        /\ (<<a>> \o <<b>>)[1] = a /\ (<<a>> \o <<b>>)[2] = b
    BY <2>2, ConcatProperties
  <2> QED
    BY <1>1, <2>1, <2>3 DEF a, b
<1>3. CASE type \notin PublicLog
  <2>1. Notices(type) = <<NewRow("audit_log", type)>>
    BY <1>3 DEF Notices
  <2> QED
    BY <1>1, <2>1
<1> QED
  BY <1>2, <1>3

\* Rows change, but not in what they tell, and none is lost.
LEMMA RowsChanged ==
  ASSUME NoticesInv, restarts' = restarts,
         outbox' \in [1..Len(outbox) -> Notice],
         \A i \in 1..Len(outbox) :
           /\ outbox'[i].kind = outbox[i].kind /\ outbox'[i].type = outbox[i].type
           /\ outbox'[i].delivered /\ ~outbox'[i].posted
                => Digestible(i) /\ (i \in digest' \/ restarts > 0)
  PROVE  NoticesInv'
<1>1. outbox' \in Seq(Notice) /\ Len(outbox') = Len(outbox)
  BY LenProperties DEF NoticesInv
<1> QED
  BY <1>1 DEF NoticesInv, LostOnlyWithTheDigest, Id, Digestible

LEMMA NoticesStep ==
  ASSUME NoticesInv, [OutboxNext]_outboxVars PROVE NoticesInv'
<1>0. /\ outbox \in [1..Len(outbox) -> Notice]
      /\ LostOnlyWithTheDigest /\ restarts \in Nat
  BY LenProperties DEF NoticesInv
<1>1. ASSUME NEW r \in Request, TransferNotified(r) PROVE NoticesInv'
  <2>1. r.type \in TxType
    BY <1>1 DEF TransferNotified, Transfer, Accepts, AcceptsWith, PaysFrom, TxType
  <2> QED
    BY <1>1, <2>1, NoticesOfTypes, RowsAdded
    DEF TransferNotified, Notified, workerVars, bounds
<1>2. ASSUME NEW t \in transactions, ReverseNotified(t) PROVE NoticesInv'
  <2>1. t.type \in TxType
    BY <1>2 DEF ReverseNotified, Reverse, Opposite, Accepts, AcceptsWith,
                PaysFrom, TxType
  <2> QED
    BY <1>2, <2>1, NoticesOfTypes, RowsAdded
    DEF ReverseNotified, Notified, workerVars, bounds
<1>3. ASSUME NEW kind \in OtherNotice, Announce(kind) PROVE NoticesInv'
  <2> DEFINE new == <<NewRow(kind, "event")>>
  <2>1. new \in Seq(Notice) /\ \A j \in 1..Len(new) : ~new[j].delivered
    BY DEF NewRow, Notice
  <2>2. NewRow(kind, "event") \in Notice
    BY DEF NewRow, Notice
  <2>3. outbox' = outbox \o new
    BY <1>3, <2>2, AppendIsConcat DEF Announce, NoticesInv
  <2> HIDE DEF new
  <2> QED
    BY <1>3, <2>1, <2>3, RowsAdded DEF Announce, workerVars, bounds
<1>4. CASE UNCHANGED <<outbox, digest, restarts>>
  BY <1>4 DEF NoticesInv, LostOnlyWithTheDigest, Id, Digestible
<1>5. CASE SkipRow
  <2>1. outbox' \in [1..Len(outbox) -> Notice] /\ restarts' = restarts
    <3>1. CASE Current \in 1..Len(outbox)
      <4>1. [outbox[Current] EXCEPT !.attempts = @ + 1] \in Notice
        BY <1>0, <3>1 DEF Notice
      <4> QED
        BY <1>0, <1>5, <3>1, <4>1 DEF SkipRow, bounds
    <3>2. CASE Current \notin 1..Len(outbox)
      BY <1>0, <1>5, <3>2 DEF SkipRow, bounds
    <3> QED
      BY <3>1, <3>2
  <2>2. ASSUME NEW i \in 1..Len(outbox)
        PROVE  \/ outbox'[i] = outbox[i]
               \/ outbox'[i] = [outbox[i] EXCEPT !.attempts = @ + 1]
    BY <1>0, <1>5 DEF SkipRow
  <2>3. \A i \in 1..Len(outbox) : outbox[i] \in Notice
    BY <1>0
  <2> QED
    BY <1>0, <1>5, <2>1, <2>2, <2>3, RowsChanged
    DEF SkipRow, LostOnlyWithTheDigest, Id, Notice
<1>6. CASE CollectRow
  <2>1. outbox' \in [1..Len(outbox) -> Notice] /\ restarts' = restarts
    BY ZenonT(40), <1>0, <1>6 DEF CollectRow, Notice, bounds
  <2>2. ASSUME NEW i \in 1..Len(outbox)
        PROVE  outbox'[i] = IF i = Current THEN [outbox[i] EXCEPT !.delivered = TRUE]
                            ELSE outbox[i]
    BY <1>0, <1>6 DEF CollectRow
  <2>3. \A i \in 1..Len(outbox) : outbox[i] \in Notice
    BY <1>0
  <2> QED
    BY <1>0, <1>6, <2>1, <2>2, <2>3, RowsChanged
    DEF CollectRow, LostOnlyWithTheDigest, Id, Notice, workerVars
<1>7. CASE MessageAppears
  <2>1. outbox' \in [1..Len(outbox) -> Notice] /\ restarts' = restarts
    BY ZenonT(40), <1>0, <1>7 DEF MessageAppears, Notice, bounds, workerVars
  <2>2. ASSUME NEW i \in 1..Len(outbox)
        PROVE  outbox'[i] = IF i = sending THEN [outbox[i] EXCEPT !.posted = TRUE]
                            ELSE outbox[i]
    BY <1>0, <1>7 DEF MessageAppears
  <2>3. \A i \in 1..Len(outbox) : outbox[i] \in Notice
    BY <1>0
  <2> QED
    BY <1>0, <1>7, <2>1, <2>2, <2>3, RowsChanged
    DEF MessageAppears, LostOnlyWithTheDigest, Id, Notice, workerVars
<1>8. CASE MarkOutboxDelivered
  <2>1. outbox' \in [1..Len(outbox) -> Notice] /\ restarts' = restarts
    BY ZenonT(40), <1>0, <1>8 DEF MarkOutboxDelivered, Notice, bounds
  <2>2. ASSUME NEW i \in 1..Len(outbox)
        PROVE  outbox'[i] = IF i = sending THEN [outbox[i] EXCEPT !.delivered = TRUE]
                            ELSE outbox[i]
    BY <1>0, <1>8 DEF MarkOutboxDelivered
  <2>3. \A i \in 1..Len(outbox) : outbox[i] \in Notice
    BY <1>0
  <2> QED
    BY <1>0, <1>8, <2>1, <2>2, <2>3, RowsChanged
    DEF MarkOutboxDelivered, LostOnlyWithTheDigest, Id, Notice, workerVars
<1>9. CASE IncrementOutboxAttempts
  <2>1. outbox' \in [1..Len(outbox) -> Notice] /\ restarts' = restarts
    <3>1. CASE sending \in 1..Len(outbox)
      <4>1. [outbox[sending] EXCEPT !.attempts = @ + 1] \in Notice
        BY <1>0, <3>1 DEF Notice
      <4> QED
        BY <1>0, <1>9, <3>1, <4>1 DEF IncrementOutboxAttempts, bounds
    <3>2. CASE sending \notin 1..Len(outbox)
      BY <1>0, <1>9, <3>2 DEF IncrementOutboxAttempts, bounds
    <3> QED
      BY <3>1, <3>2
  <2>2. ASSUME NEW i \in 1..Len(outbox)
        PROVE  outbox'[i] = IF i = sending THEN [outbox[i] EXCEPT !.attempts = @ + 1]
                            ELSE outbox[i]
    BY <1>0, <1>9 DEF IncrementOutboxAttempts
  <2>3. \A i \in 1..Len(outbox) : outbox[i] \in Notice
    BY <1>0
  <2> QED
    BY <1>0, <1>9, <2>1, <2>2, <2>3, RowsChanged
    DEF IncrementOutboxAttempts, LostOnlyWithTheDigest, Id, Notice, workerVars
<1>10. CASE FlushAuditDigest
  <2>1. outbox' \in [1..Len(outbox) -> Notice] /\ restarts' = restarts
    BY <1>0, <1>10 DEF FlushAuditDigest, Notice, bounds, Id
  <2>2. ASSUME NEW i \in 1..Len(outbox)
        PROVE  outbox'[i] = [outbox[i] EXCEPT !.posted = @ \/ i \in digest]
    BY <1>0, <1>10 DEF FlushAuditDigest, Id
  <2>3. \A i \in 1..Len(outbox) : outbox[i] \in Notice
    BY <1>0
  <2> QED
    BY <1>0, <1>10, <2>1, <2>2, <2>3, RowsChanged
    DEF FlushAuditDigest, LostOnlyWithTheDigest, Id, Notice
<1>11. CASE Restart
  BY <1>11 DEF Restart, NoticesInv, LostOnlyWithTheDigest, Id, Digestible
<1> QED
  BY <1>1, <1>2, <1>3, <1>4, <1>5, <1>6, <1>7, <1>8, <1>9, <1>10, <1>11
  DEF OutboxNext, LedgerOnly, Configure, Tick, SendRow, workerVars, bounds,
      outboxVars

\* Every notice is delivered, waits in the digest, or was in a digest that a
\* restart lost: nothing else is taken off the queue unseen.
THEOREM NothingElseIsLost == OutboxSpec => []LostOnlyWithTheDigest
<1>1. OutboxInit => NoticesInv
  BY EmptySeq DEF OutboxInit, NoticesInv, LostOnlyWithTheDigest, Id
<1>2. NoticesInv => LostOnlyWithTheDigest
  BY DEF NoticesInv
<1> QED
  BY <1>1, <1>2, NoticesStep, PTL DEF OutboxSpec

\* The worker and the writers of notices leave the books of the bank sound.
THEOREM OutboxKeepsBooks == OutboxSpec => []BooksSound
<1>1. OutboxInit => Books
  BY BooksInitially DEF OutboxInit
<1>2. Books /\ [OutboxNext]_outboxVars => Books'
  BY OutboxStepIsLedgerStep, LedgerStepKeepsBooks
<1>3. Books => BooksSound
  BY AuditAgrees DEF Books, BooksSound
<1> QED
  BY <1>1, <1>2, <1>3, PTL DEF OutboxSpec

THEOREM OutboxImplementsBank == OutboxSpec => BankSpec
<1>1. OutboxInit => Books /\ LedgerBank!Init
  BY BooksInitially, LedgerInitIsBankInit DEF OutboxInit
<1>2. Books /\ [OutboxNext]_outboxVars
        => Books' /\ [LedgerBank!Next]_(LedgerBank!vars)
  BY OutboxStepIsLedgerStep, LedgerStepKeepsBooks, LedgerStepIsBankStep
<1> QED
  BY <1>1, <1>2, PTL DEF OutboxSpec, BankSpec, LedgerBank!Spec

-----------------------------------------------------------------------------
(***************************************************************************)
(* The salaries.                                                           *)
(***************************************************************************)
PayrollTypes ==
  /\ salaryTable \in [Role -> Nat]
  /\ memberRoles \in [Employee -> SUBSET Role]
  /\ runs \in [Period ->
       [status : {"none", "draft", "approved", "executed", "cancelled"},
        plan : Plan, failed : SUBSET Employee]]
  /\ panels \subseteq [period : Period, plan : Plan]
  /\ executing \in {0} \union Period
  /\ todo \subseteq Employee /\ failed \subseteq Employee

\* One row at most for a salary, of an approved run, with its amount.
SalariesAsPlanned ==
  /\ \A t \in transactions : ~t.reversal
  /\ \A p \in Period, u \in Employee :
       \A t \in SalaryRows(p, u) :
         /\ \A v \in SalaryRows(p, u) : v = t
         /\ runs[p].status \in {"approved", "executed"}
         /\ t.to = u /\ t.amount = runs[p].plan[u]

\* A run that is being paid: it is approved, no older month waits, and whoever
\* of its plan the loop has passed is paid or noted.
Underway ==
  IF Idle THEN todo = {}
  ELSE /\ runs[executing].status \in {"approved", "executed"}
       /\ ~OlderRecoverable(executing)
       /\ todo \subseteq Planned(executing)
       /\ \A u \in Planned(executing) \ todo :
            SalaryRows(executing, u) # {} \/ u \in failed

\* The inductive invariant of the payroll.
PayrollInv == PayrollTypes /\ SalariesAsPlanned /\ ReportIsTrue /\ Underway

\* A person's plan is a sum of salaries.
LEMMA PlanIsPlan ==
  ASSUME PayrollTypes PROVE CurrentPlan \in Plan
<1>1. ASSUME NEW u \in Employee
      PROVE  MapThenSumSet(LAMBDA r : salaryTable[r], memberRoles[u]) \in Nat
  <2>1. IsFiniteSet(memberRoles[u]) /\ memberRoles[u] \subseteq Role
    BY PayrollAssumption, FS_Subset DEF PayrollTypes
  <2>2. SumFunctionOnSet(salaryTable, memberRoles[u]) \in Nat
    BY <2>1, SumNat DEF PayrollTypes
  <2>3. MapThenSumSet(LAMBDA r : salaryTable[r], memberRoles[u])
          = SumFunctionOnSet(salaryTable, memberRoles[u])
    BY DEF MapThenSumSet, SumFunctionOnSet, FoldFunctionOnSet
  <2> QED
    BY <2>2, <2>3
<1> HIDE DEF MapThenSumSet
<1> QED
  BY <1>1 DEF CurrentPlan, Plan

LEMMA PayrollStepIsLedgerStep ==
  ASSUME PayrollTypes, Underway, [PayrollNext]_payrollVars PROVE LedgerStep
<1>1. ASSUME NEW u \in todo, PaySalary(u) PROVE LedgerStep
  <2> DEFINE r == SalaryRequest(executing, u)
  <2>1. WellFormed(r)
    <3>1. executing \in Period /\ u \in Employee
      BY DEF PayrollTypes, Underway, Idle
    <3>2. runs[executing].plan[u] \in Nat
      BY <3>1 DEF PayrollTypes, Plan
    <3> QED
      BY <3>1, <3>2, LedgerAssumption, PayrollAssumption
      DEF WellFormed, SalaryRequest
  <2>2. Transfer(r) \/ UNCHANGED ledgerVars
    BY <1>1 DEF PaySalary
  <2> QED
    BY <2>1, <2>2 DEF LedgerStep
<1>2. ASSUME NEW u \in todo, OpenAccount(u) PROVE LedgerStep
  BY <1>2, PayrollAssumption DEF OpenAccount, LedgerStep, PayrollTypes
<1>3. ASSUME NEW a \in Freezable, NEW s \in {"active", "frozen"},
             FreezeEmployee(a, s)
      PROVE  LedgerStep
  BY <1>3, LedgerAssumption DEF FreezeEmployee, LedgerStep
<1>4. CASE UNCHANGED ledgerVars
  BY <1>4 DEF LedgerStep
<1> QED
  BY <1>1, <1>2, <1>3, <1>4
  DEF PayrollNext, SetSalary, RemoveSalary, ChangeRoles, CreateAndPostDraft,
      PreviewPayroll, GenerateDraft, RecoveryPreview, PressOk, RetryPayroll,
      BeginExecute, CancelDraft, FinishExecute, Crash, payrollVars

LEMMA PayrollTypesStep ==
  ASSUME PayrollTypes, [PayrollNext]_payrollVars PROVE PayrollTypes'
<1> USE DEF PayrollTypes
<1>1. ASSUME NEW r \in Role, NEW n \in Salary, SetSalary(r, n)
      PROVE  PayrollTypes'
  BY <1>1, PayrollAssumption DEF SetSalary, runVars
<1>2. ASSUME NEW r \in Role, RemoveSalary(r) PROVE PayrollTypes'
  BY <1>2 DEF RemoveSalary, runVars
<1>3. ASSUME NEW u \in Employee, NEW roles \in SUBSET Role, ChangeRoles(u, roles)
      PROVE  PayrollTypes'
  BY <1>3 DEF ChangeRoles, runVars
<1>4. ASSUME NEW a, NEW s, FreezeEmployee(a, s) PROVE PayrollTypes'
  BY <1>4 DEF FreezeEmployee, tableVars, runVars
<1>5. ASSUME NEW p \in Period, CreateAndPostDraft(p) \/ PreviewPayroll(p)
      PROVE  PayrollTypes'
  <2>1. CurrentPlan \in Plan
    BY PlanIsPlan
  <2>2. Panel(p, CurrentPlan) \in [period : Period, plan : Plan]
    BY <2>1 DEF Panel
  <2>3. panels' \subseteq [period : Period, plan : Plan]
    BY <1>5, <2>2 DEF CreateAndPostDraft, PreviewPayroll
  <2>4. runs' = [runs EXCEPT ![p].status = "draft", ![p].plan = CurrentPlan]
        /\ UNCHANGED <<salaryTable, memberRoles, executing, todo, failed>>
    BY <1>5 DEF CreateAndPostDraft, PreviewPayroll, GenerateDraft, tableVars,
                runVars
  <2> QED
    BY ZenonT(40), <2>1, <2>3, <2>4
<1>6. ASSUME NEW p \in Period, RecoveryPreview(p) PROVE PayrollTypes'
  BY <1>6 DEF RecoveryPreview, Panel, tableVars, runVars
<1>7. ASSUME NEW panel \in panels, PressOk(panel) PROVE PayrollTypes'
  BY <1>7 DEF PressOk, BeginExecute, Planned, tableVars
<1>8. ASSUME NEW p \in Period, RetryPayroll(p) PROVE PayrollTypes'
  BY <1>8 DEF RetryPayroll, BeginExecute, Planned, tableVars
<1>9. ASSUME NEW panel \in panels, CancelDraft(panel) PROVE PayrollTypes'
  BY <1>9 DEF CancelDraft, tableVars, runVars
<1>10. ASSUME NEW u \in todo, OpenAccount(u) PROVE PayrollTypes'
  BY <1>10 DEF OpenAccount, tableVars, runVars
<1>11. ASSUME NEW u \in todo, PaySalary(u) PROVE PayrollTypes'
  BY <1>11 DEF PaySalary, tableVars
<1>12. CASE FinishExecute
  BY ZenonT(40), <1>12 DEF FinishExecute, tableVars
<1>13. CASE Crash
  BY <1>13 DEF Crash, tableVars
<1>14. CASE UNCHANGED payrollVars
  BY <1>14 DEF payrollVars, tableVars, runVars
<1> QED
  BY <1>1, <1>2, <1>3, <1>4, <1>5, <1>6, <1>7, <1>8, <1>9, <1>10, <1>11, <1>12,
     <1>13, <1>14
  DEF PayrollNext

\* A payment adds one row, to a salary that had none.
LEMMA SalaryPaid ==
  ASSUME PayrollTypes, SalariesAsPlanned, Underway,
         NEW u \in todo, PaySalary(u), transactions' # transactions
  PROVE  \E m : /\ m.to = u /\ m.amount = runs[executing].plan[u] /\ ~m.reversal
                /\ m.key = <<"salary", executing, u>>
                /\ transactions' = transactions \union {m}
                /\ SalaryRows(executing, u) = {}
                /\ SalaryRows(executing, u)' = {m}
                /\ \A p \in Period, v \in Employee :
                     p # executing \/ v # u
                       => SalaryRows(p, v)' = SalaryRows(p, v)
<1> DEFINE r == SalaryRequest(executing, u)
           m == [key |-> r.key, reversal |-> FALSE, from |-> r.from, to |-> r.to,
                 amount |-> r.amount, type |-> r.type]
<1>1. Transfer(r)
  BY DEF PaySalary, ledgerVars
<1>2. transactions' = transactions \union {m}
  BY <1>1 DEF Transfer, Post
<1>3. SalaryRows(executing, u) = {}
  BY <1>1 DEF Transfer, Known, Rows, SalariesAsPlanned, SalaryRows, SalaryRequest
<1>4. /\ m.to = u /\ m.amount = runs[executing].plan[u] /\ ~m.reversal
      /\ m.key = <<"salary", executing, u>>
  BY DEF SalaryRequest
<1> HIDE DEF m
<1>5. SalaryRows(executing, u)' = {m}
  <2>1. executing' = executing
    BY DEF PaySalary
  <2> QED
    BY <1>2, <1>3, <1>4, <2>1 DEF SalaryRows
<1>6. ASSUME NEW p \in Period, NEW v \in Employee, p # executing \/ v # u
      PROVE  SalaryRows(p, v)' = SalaryRows(p, v)
  BY <1>2, <1>4, <1>6 DEF SalaryRows
<1> QED
  BY <1>2, <1>3, <1>4, <1>5, <1>6

\* A step that leaves the table of transactions and the runs alone.
LEMMA SameSalaries ==
  ASSUME SalariesAsPlanned, ReportIsTrue, UNCHANGED <<transactions, runs>>
  PROVE  SalariesAsPlanned' /\ ReportIsTrue'
BY DEF SalariesAsPlanned, ReportIsTrue, SalaryRows, Planned

\* A run that nobody was paid for changes, to one that is not executed.
LEMMA UnpaidRunChanges ==
  ASSUME PayrollTypes, PayrollTypes', SalariesAsPlanned, ReportIsTrue,
         NEW p \in Period,
         runs[p].status \notin {"approved", "executed"},
         runs'[p].status # "executed",
         \A q \in Period \ {p} : runs'[q] = runs[q],
         UNCHANGED transactions
  PROVE  SalariesAsPlanned' /\ ReportIsTrue'
<1>1. \A q \in Period, u \in Employee : SalaryRows(q, u)' = SalaryRows(q, u)
  BY DEF SalaryRows
<1>2. \A u \in Employee : SalaryRows(p, u) = {}
  BY DEF SalariesAsPlanned
<1>3. SalariesAsPlanned'
  BY <1>1, <1>2 DEF SalariesAsPlanned
<1>4. ReportIsTrue'
  <2>1. \A q \in Period \ {p} : Planned(q)' = Planned(q)
    BY DEF Planned
  <2> QED
    BY <1>1, <2>1 DEF ReportIsTrue, Planned
<1> QED
  BY <1>3, <1>4

\* The loop begins: nobody has been passed yet.
LEMMA UnderwayBegins ==
  ASSUME PayrollTypes, NEW p \in Period, BeginExecute(p),
         runs'[p].status \in {"approved", "executed"},
         runs'[p].plan = runs[p].plan,
         \A q \in Period \ {p} : runs'[q] = runs[q]
  PROVE  Underway'
<1>1. executing' = p /\ p # 0
  BY PayrollAssumption DEF BeginExecute
<1>2. Planned(p)' = Planned(p) /\ todo' = Planned(p)
  BY DEF Planned, BeginExecute
<1>3. ~OlderRecoverable(p)'
  <2>1. \A q \in Period : q < p => q # p
    BY PayrollAssumption
  <2> QED
    BY <2>1 DEF BeginExecute, OlderRecoverable, ListRecoverableRuns
<1> QED
  BY <1>1, <1>2, <1>3 DEF Underway, Idle, Planned, OlderRecoverable,
                         ListRecoverableRuns

LEMMA PayrollStep ==
  ASSUME PayrollInv, [PayrollNext]_payrollVars PROVE PayrollInv'
<1>0. PayrollTypes /\ PayrollTypes' /\ SalariesAsPlanned /\ ReportIsTrue /\ Underway
  BY PayrollTypesStep DEF PayrollInv
<1> SUFFICES SalariesAsPlanned' /\ ReportIsTrue' /\ Underway'
  BY <1>0 DEF PayrollInv
<1>1. CASE UNCHANGED <<transactions, runs, executing, todo, failed>>
  <2>1. Underway'
    BY <1>0, <1>1 DEF Underway, Idle, OlderRecoverable, ListRecoverableRuns,
                      Planned, SalaryRows
  <2> QED
    BY <1>0, <1>1, <2>1, SameSalaries
<1>2. ASSUME NEW p \in Period, GenerateDraft(p)
      PROVE  SalariesAsPlanned' /\ ReportIsTrue' /\ Underway'
  <2>1. /\ runs[p].status \notin {"approved", "executed"}
        /\ runs'[p].status # "executed"
        /\ \A q \in Period \ {p} : runs'[q] = runs[q]
        /\ UNCHANGED <<transactions, executing, todo>> /\ Idle
    BY <1>0, <1>2 DEF GenerateDraft, Redraftable, PayrollTypes, ledgerVars, runVars
  <2>2. Underway'
    BY <1>0, <2>1 DEF Underway, Idle
  <2> QED
    BY <1>0, <2>1, <2>2, UnpaidRunChanges
<1>3. ASSUME NEW panel \in panels, CancelDraft(panel)
      PROVE  SalariesAsPlanned' /\ ReportIsTrue' /\ Underway'
  <2> DEFINE p == panel.period
  <2>1. /\ p \in Period
        /\ runs[p].status \notin {"approved", "executed"}
        /\ runs'[p].status # "executed"
        /\ \A q \in Period \ {p} : runs'[q] = runs[q]
        /\ UNCHANGED <<transactions, executing, todo>> /\ Idle
    BY <1>0, <1>3 DEF CancelDraft, PayrollTypes, ledgerVars, runVars
  <2>2. Underway'
    BY <1>0, <2>1 DEF Underway, Idle
  <2> HIDE DEF p
  <2> QED
    BY <1>0, <2>1, <2>2, UnpaidRunChanges
<1>4. ASSUME NEW panel \in panels, PressOk(panel)
      PROVE  SalariesAsPlanned' /\ ReportIsTrue' /\ Underway'
  <2> DEFINE p == panel.period
  <2>1. /\ p \in Period /\ runs[p].status \in {"draft", "approved"}
        /\ runs'[p].status = "approved" /\ runs'[p].plan = runs[p].plan
        /\ \A q \in Period \ {p} : runs'[q] = runs[q]
        /\ UNCHANGED transactions /\ BeginExecute(p)
    BY <1>0, <1>4 DEF PressOk, PayrollTypes, BeginExecute, ledgerVars
  <2> HIDE DEF p
  <2>2. Underway'
    BY <1>0, <2>1, UnderwayBegins
  <2>3. \A q \in Period, u \in Employee : SalaryRows(q, u)' = SalaryRows(q, u)
    BY <2>1 DEF SalaryRows
  <2>4. SalariesAsPlanned'
    BY <1>0, <2>1, <2>3 DEF SalariesAsPlanned
  <2>5. ReportIsTrue'
    BY <1>0, <2>1, <2>3 DEF ReportIsTrue, Planned
  <2> QED
    BY <2>2, <2>4, <2>5
<1>5. ASSUME NEW p \in Period, RetryPayroll(p)
      PROVE  SalariesAsPlanned' /\ ReportIsTrue' /\ Underway'
  <2>1. /\ runs[p].status \in {"approved", "executed"}
        /\ UNCHANGED <<transactions, runs>> /\ BeginExecute(p)
    BY <1>5 DEF RetryPayroll, BeginExecute, ledgerVars
  <2>2. Underway'
    BY <1>0, <2>1, UnderwayBegins
  <2> QED
    BY <1>0, <2>1, <2>2, SameSalaries
<1>6. ASSUME NEW u \in todo, PaySalary(u)
      PROVE  SalariesAsPlanned' /\ ReportIsTrue' /\ Underway'
  <2>1. ~Idle /\ executing' = executing /\ todo' = todo \ {u} /\ runs' = runs
        /\ executing \in Period /\ u \in Employee
    BY <1>0, <1>6 DEF PaySalary, Underway, Idle, PayrollTypes
  <2>2. CASE transactions' = transactions
    <3>1. SalaryRows(executing, u) # {} \/ u \in failed'
      BY <1>6, <2>2, <1>0
      DEF PaySalary, Known, Rows, SalaryRows, SalaryRequest, SalariesAsPlanned,
          Transfer, Post
    <3>2. failed \subseteq failed'
      BY <1>6 DEF PaySalary
    <3>3. Underway'
      BY <1>0, <2>1, <2>2, <3>1, <3>2
      DEF Underway, Idle, OlderRecoverable, ListRecoverableRuns, Planned, SalaryRows
    <3> QED
      BY <1>0, <2>1, <2>2, <3>3, SameSalaries
  <2>3. CASE transactions' # transactions
    <3>1. PICK m :
            /\ m.to = u /\ m.amount = runs[executing].plan[u] /\ ~m.reversal
            /\ m.key = <<"salary", executing, u>>
            /\ transactions' = transactions \union {m}
            /\ SalaryRows(executing, u) = {}
            /\ SalaryRows(executing, u)' = {m}
            /\ \A p \in Period, v \in Employee :
                 p # executing \/ v # u
                   => SalaryRows(p, v)' = SalaryRows(p, v)
      BY <1>0, <1>6, <2>3, SalaryPaid
    <3>2. \A p \in Period, v \in Employee :
            SalaryRows(p, v)' = IF p = executing /\ v = u THEN {m}
                                ELSE SalaryRows(p, v)
      BY <2>1, <3>1
    <3>3. runs[executing].status \in {"approved", "executed"}
      BY <1>0, <2>1 DEF Underway
    <3>4. SalariesAsPlanned'
      BY <1>0, <2>1, <3>1, <3>2, <3>3 DEF SalariesAsPlanned
    <3>5. ReportIsTrue'
      BY <1>0, <2>1, <3>2 DEF ReportIsTrue, Planned
    <3>6. failed \subseteq failed'
      BY <1>6 DEF PaySalary
    <3>7. Planned(executing) \subseteq Employee
      BY DEF Planned
    <3>8. Underway'
      BY <1>0, <2>1, <3>2, <3>6, <3>7
      DEF Underway, Idle, OlderRecoverable, ListRecoverableRuns, Planned
    <3> QED
      BY <3>4, <3>5, <3>8
  <2> QED
    BY <2>2, <2>3
<1>7. CASE FinishExecute
  <2>1. /\ executing \in Period /\ Underway /\ ~Idle /\ todo = {}
        /\ runs'[executing].status = "executed"
        /\ runs'[executing].plan = runs[executing].plan
        /\ runs'[executing].failed = failed
        /\ \A q \in Period \ {executing} : runs'[q] = runs[q]
        /\ transactions' = transactions /\ executing' = 0 /\ todo' = {}
    BY <1>0, <1>7 DEF FinishExecute, PayrollTypes, Idle, ledgerVars
  <2>2. \A q \in Period, u \in Employee : SalaryRows(q, u)' = SalaryRows(q, u)
    BY <2>1 DEF SalaryRows
  <2>3. SalariesAsPlanned'
    <3>1. \A q \in Period : runs'[q].plan = runs[q].plan
      BY <2>1
    <3>2. \A q \in Period : runs[q].status \in {"approved", "executed"}
                              => runs'[q].status \in {"approved", "executed"}
      BY <2>1
    <3>3. \A t \in transactions' : ~t.reversal
      BY <1>0, <2>1 DEF SalariesAsPlanned
    <3> QED
      BY <1>0, <2>2, <3>1, <3>2, <3>3 DEF SalariesAsPlanned
  <2>4. ReportIsTrue'
    BY <1>0, <2>1, <2>2 DEF ReportIsTrue, Planned, Underway
  <2>5. Underway'
    BY <2>1 DEF Underway, Idle
  <2> QED
    BY <2>3, <2>4, <2>5
<1>8. CASE Crash
  <2>1. UNCHANGED <<transactions, runs>> /\ executing' = 0 /\ todo' = {}
    BY <1>8 DEF Crash, ledgerVars
  <2> QED
    BY <1>0, <2>1, SameSalaries DEF Underway, Idle
<1> QED
  BY <1>1, <1>2, <1>3, <1>4, <1>5, <1>6, <1>7, <1>8
  DEF PayrollNext, SetSalary, RemoveSalary, ChangeRoles, FreezeEmployee,
      SetAccountStatus, CreateAndPostDraft, PreviewPayroll, RecoveryPreview,
      OpenAccount, EnsureAccount, ledgerVars, runVars, payrollVars

LEMMA PayrollInitially ==
  ASSUME PayrollInit PROVE PayrollInv
<1>1. NoPlan \in Plan
  BY DEF NoPlan, Plan
<1>2. PayrollTypes
  BY <1>1 DEF PayrollInit, PayrollTypes
<1>3. SalariesAsPlanned
  BY DEF PayrollInit, LedgerInit, SalariesAsPlanned, SalaryRows
<1>4. ReportIsTrue
  BY DEF PayrollInit, ReportIsTrue
<1>5. Underway
  BY DEF PayrollInit, Underway, Idle
<1> QED
  BY <1>2, <1>3, <1>4, <1>5 DEF PayrollInv

LEMMA PayrollInvariant == PayrollSpec => []PayrollInv
BY PayrollInitially, PayrollStep, PTL DEF PayrollSpec

\* Whatever is edited, drafted again, cancelled, interrupted or retried: a
\* salary is paid once, by an approved run, with the amount that was approved,
\* and the report of a finished run names everybody it did not pay.
THEOREM SalariesPaidAsApproved == PayrollSpec => []PaidAsApproved
<1>1. ASSUME PayrollInv PROVE PaidAsApproved
  <2>1. ASSUME NEW p \in Period, NEW u \in Employee
        PROVE  Cardinality(SalaryRows(p, u)) =< 1
    <3>1. CASE SalaryRows(p, u) = {}
      BY <3>1, FS_EmptySet
    <3>2. CASE SalaryRows(p, u) # {}
      <4>1. PICK t : SalaryRows(p, u) = {t}
        BY <1>1, <3>2 DEF PayrollInv, SalariesAsPlanned
      <4>2. Cardinality({t}) = 1
        BY FS_Singleton
      <4> QED
        BY <4>1, <4>2
    <3> QED
      BY <3>1, <3>2
  <2>2. NothingElseIsPaid
    BY <1>1, <2>1 DEF NothingElseIsPaid, PayrollInv, SalariesAsPlanned
  <2> QED
    BY <1>1, <2>2 DEF PayrollInv, PaidAsApproved
<1> QED
  BY <1>1, PayrollInvariant, PTL

\* No step pays a month while an older one waits for a decision or a retry.
THEOREM MonthsArePaidInOrder == PayrollSpec => MonthsInOrder
<1>1. ASSUME PayrollInv, PayrollNext,
             NEW p \in Period, NEW u \in Employee,
             SalaryRows(p, u) # SalaryRows(p, u)'
      PROVE  ~OlderRecoverable(p)
  <2>0. PayrollTypes /\ SalariesAsPlanned /\ Underway
    BY <1>1 DEF PayrollInv
  <2>1. transactions' # transactions
    BY <1>1 DEF SalaryRows
  <2>2. PICK v \in todo : PaySalary(v)
    BY <1>1, <2>1
    DEF PayrollNext, SetSalary, RemoveSalary, ChangeRoles, FreezeEmployee,
        SetAccountStatus, CreateAndPostDraft, PreviewPayroll, GenerateDraft,
        RecoveryPreview, PressOk, RetryPayroll, BeginExecute, CancelDraft,
        OpenAccount, EnsureAccount, FinishExecute, Crash, ledgerVars
  <2>3. p = executing
    BY <1>1, <2>0, <2>1, <2>2, SalaryPaid
  <2> QED
    BY <2>0, <2>2, <2>3 DEF Underway, Idle
<1>2. PayrollInv /\ [PayrollNext]_payrollVars
        => [\A p \in Period, u \in Employee :
              SalaryRows(p, u) # SalaryRows(p, u)' => ~OlderRecoverable(p)]_payrollVars
  BY <1>1
<1> QED
  BY <1>2, PayrollInvariant, PTL DEF PayrollSpec, MonthsInOrder

\* Paying salaries leaves the books of the bank sound.
THEOREM PayrollKeepsBooks == PayrollSpec => []BooksSound
<1>1. PayrollInit => Books
  BY BooksInitially DEF PayrollInit
<1>2. PayrollInv /\ Books /\ [PayrollNext]_payrollVars => Books'
  BY PayrollStepIsLedgerStep, LedgerStepKeepsBooks DEF PayrollInv
<1>3. Books => BooksSound
  BY AuditAgrees DEF Books, BooksSound
<1> QED
  BY <1>1, <1>2, <1>3, PayrollInvariant, PTL DEF PayrollSpec

THEOREM PayrollImplementsBank == PayrollSpec => BankSpec
<1>1. PayrollInit => Books /\ LedgerBank!Init
  BY BooksInitially, LedgerInitIsBankInit DEF PayrollInit
<1>2. PayrollInv /\ Books /\ [PayrollNext]_payrollVars
        => Books' /\ [LedgerBank!Next]_(LedgerBank!vars)
  BY PayrollStepIsLedgerStep, LedgerStepKeepsBooks, LedgerStepIsBankStep
  DEF PayrollInv
<1> QED
  BY <1>1, <1>2, PayrollInvariant, PTL DEF PayrollSpec, BankSpec, LedgerBank!Spec

-----------------------------------------------------------------------------
(***************************************************************************)
(* The boost rewards.                                                      *)
(***************************************************************************)
BoostTypes ==
  /\ now \in 0..MaxBoosts /\ wire \subseteq 1..now
  /\ rewards \in [Boosts -> {"none", "paid", "capped"}]
  /\ pending \subseteq 1..now
  /\ startedAt \in Nat /\ watermark \in 0..(now + 1)
  /\ phase \in {"down", "starting", "recovering", "idle", "blocked"}
  /\ blocked \in [User -> {0} \union (1..now)]
  /\ queue \subseteq 1..now /\ found \subseteq 1..now /\ deferred \subseteq 1..now
  /\ scanAt \in 0..now

\* The record of a boost and the Land agree.
RecordsAgree ==
  /\ \A t \in transactions : ~t.reversal
  /\ PaidOnceWithinLimit

\* A boost that counts and has no answer yet.
Open(e) == startedAt # 0 /\ e >= startedAt /\ rewards[e] = "none"

\* Once the bot has read its table, memory knows the first unresolved boost
\* of everybody.
BlockersKnown ==
  phase \in {"recovering", "idle", "blocked"}
    => \A u \in User : blocked[u] = EarliestOf(u, pending)

\* During a scan every open boost is still to be worked off, is in the table of
\* unresolved ones, or is a later one whose message is still on its way; and
\* messages arrive in the order of the boosts.
ScanMissesNothing ==
  phase = "recovering" =>
    /\ startedAt # 0
    /\ \A e \in 1..now :
         Open(e) => \/ e \in Pool \union pending
                    \/ e > scanAt /\ e \in wire
    /\ \A p \in Pool \union pending, w \in wire : p =< scanAt \/ p < w

\* The inductive invariant of the boost rewards.
BoostInv ==
  /\ BoostTypes
  /\ RecordsAgree
  /\ NoBoostForgotten
  /\ BlockersKnown
  /\ ScanMissesNothing

\* A set of numbers has a least element.
LEMMA LeastNumber ==
  ASSUME NEW T \in SUBSET Nat, T # {}
  PROVE  Min(T) \in T /\ \A n \in T : Min(T) =< n
<1> DEFINE LT == {ss \in Nat \X Nat : ss[1] < ss[2]}
<1>1. IsWellFoundedOn(LT, Nat)
  BY NatLessThanWellFounded DEF OpToRel
<1>2. \E x \in T : \A y \in T : <<y, x>> \notin LT
  <2> HIDE DEF LT
  <2> QED
    BY <1>1, WFMin
<1>3. PICK x \in T : \A y \in T : <<y, x>> \notin LT
  BY <1>2
<1>4. \A y \in T : x =< y
  <2> SUFFICES ASSUME NEW y \in T PROVE ~(y < x)
    OBVIOUS
  <2>1. <<y, x>> \notin LT
    BY <1>3
  <2> QED
    BY <2>1
<1> QED
  BY <1>4 DEF Min

\* The first unresolved boost of a user.
LEMMA EarliestIsFirst ==
  ASSUME NEW T \in SUBSET Boosts, NEW u \in User
  PROVE  /\ EarliestOf(u, T) \in {0} \union T
         /\ \A e \in T : Author[e] = u => /\ EarliestOf(u, T) # 0
                                          /\ EarliestOf(u, T) =< e
<1> DEFINE M == {e \in T : Author[e] = u}
<1>1. M \in SUBSET Nat /\ \A e \in T : e # 0
  <2>1. \A e \in Boosts : e \in Nat /\ e # 0
    BY BoostAssumption DEF Boosts
  <2>2. \A e \in T : e \in Nat /\ e # 0
    BY <2>1
  <2> QED
    BY <2>2
<1>2. CASE M = {}
  BY <1>2 DEF EarliestOf
<1>3. CASE M # {}
  <2>1. Min(M) \in M /\ \A e \in M : Min(M) =< e
    BY <1>1, <1>3, LeastNumber
  <2>2. EarliestOf(u, T) = Min(M)
    BY <1>3 DEF EarliestOf
  <2> HIDE DEF M
  <2>3. M \subseteq T /\ \A e \in T : Author[e] = u => e \in M
    BY DEF M
  <2> QED
    BY <1>1, <2>1, <2>2, <2>3
<1> QED
  BY <1>2, <1>3

\* The reward of a boost is posted: the count of its author's month grows by
\* one, and no other.
LEMMA RewardCounted ==
  ASSUME Books, RecordsAgree, NEW e \in Boosts,
         OpenAndTransfer(BoostRequest(e)), ~OverLimit(e)
  PROVE  /\ \A d \in Boosts : Paid(d)' <=> (Paid(d) \/ d = e)
         /\ \A d \in Boosts : (PaidCount(d) =< MonthlyLimit)'
         /\ \A t \in transactions' : ~t.reversal
<1> DEFINE r == BoostRequest(e)
           m == [key |-> r.key, reversal |-> FALSE, from |-> r.from, to |-> r.to,
                 amount |-> r.amount, type |-> r.type]
           Counted(d, T) == {t \in T :
              \E c \in Boosts : /\ t.key = BoostKey(c) /\ ~t.reversal
                                /\ Author[c] = Author[d] /\ Month[c] = Month[d]}
<1>1. transactions' = transactions \union {m} /\ ~m.reversal /\ m.key = BoostKey(e)
  BY DEF OpenAndTransfer, Post, BoostRequest
<1>2. \A c, d \in Boosts : BoostKey(c) = BoostKey(d) => c = d
  BY DEF BoostKey
<1> HIDE DEF m
<1>3. \A d \in Boosts : Paid(d)' <=> (Paid(d) \/ d = e)
  BY <1>1, <1>2 DEF Paid
<1>4. \A t \in transactions' : ~t.reversal
  BY <1>1 DEF RecordsAgree
<1>5. ASSUME NEW d \in Boosts PROVE (PaidCount(d) =< MonthlyLimit)'
  <2>1. IsFiniteSet(Counted(d, transactions))
    BY FS_Subset DEF Books
  <2>2. /\ PaidCount(d) = Cardinality(Counted(d, transactions))
        /\ PaidCount(d)' = Cardinality(Counted(d, transactions'))
    BY DEF PaidCount
  <2>3. PaidCount(d) \in Nat /\ PaidCount(d) =< MonthlyLimit
    BY <2>1, <2>2, FS_CardinalityType DEF RecordsAgree, PaidOnceWithinLimit
  <2>4. CASE Author[d] = Author[e] /\ Month[d] = Month[e]
    <3>1. PaidCount(d) = PaidCount(e)
      BY <2>4 DEF PaidCount
    <3>2. PaidCount(d) < MonthlyLimit
      BY <2>3, <3>1, BoostAssumption DEF OverLimit
    <3>3. Counted(d, transactions') = Counted(d, transactions) \union {m}
      BY <1>1, <2>4
    <3> HIDE DEF Counted
    <3>4. PaidCount(d)' =< PaidCount(d) + 1
      BY <2>1, <2>2, <2>3, <3>3, FS_AddElement
    <3>5. PaidCount(d)' \in Nat
      BY <2>1, <2>2, <3>3, FS_AddElement, FS_CardinalityType
    <3> QED
      BY <2>3, <3>2, <3>4, <3>5, BoostAssumption
  <2>5. CASE ~(Author[d] = Author[e] /\ Month[d] = Month[e])
    <3>1. Counted(d, transactions') = Counted(d, transactions)
      BY <1>1, <1>2, <2>5
    <3> QED
      BY <2>2, <2>3, <3>1
  <2> QED
    BY <2>4, <2>5
<1> QED
  BY <1>3, <1>4, <1>5

\* What one application of a boost does to the records, the table of
\* unresolved boosts and the ledger.
LEMMA Applied ==
  ASSUME Books, BoostTypes, RecordsAgree, NEW e \in Boosts, NEW unresolved,
         ApplyBoostRewardEvent(e, unresolved)
  PROVE  /\ RecordsAgree' /\ LedgerStep
         /\ rewards' \in [Boosts -> {"none", "paid", "capped"}]
         /\ \A d \in Boosts : rewards'[d] # rewards[d] => d = e /\ rewards[d] = "none"
         /\ pending' \in {unresolved, unresolved \ {e}}
         /\ rewards'[e] = "none" => pending' = unresolved
<1>1. CASE UNCHANGED <<ledgerVars, rewards>>
  BY <1>1 DEF ApplyBoostRewardEvent, RecordsAgree, PaidOnceWithinLimit, Paid,
              PaidCount, ledgerVars, LedgerStep, BoostTypes
<1>2. CASE /\ rewards[e] = "none"
           /\ rewards' = [rewards EXCEPT ![e] = "capped"]
           /\ pending' = unresolved \ {e}
           /\ UNCHANGED ledgerVars
  <2>1. rewards' \in [Boosts -> {"none", "paid", "capped"}]
        /\ \A d \in Boosts : rewards'[d] = "paid" <=> rewards[d] = "paid"
    BY <1>2 DEF BoostTypes
  <2>2. RecordsAgree'
    BY <1>2, <2>1 DEF RecordsAgree, PaidOnceWithinLimit, Paid, PaidCount, ledgerVars
  <2> QED
    BY <1>2, <2>1, <2>2 DEF LedgerStep, BoostTypes
<1>3. CASE /\ rewards[e] = "none" /\ ~OverLimit(e)
           /\ OpenAndTransfer(BoostRequest(e))
           /\ rewards' = [rewards EXCEPT ![e] = "paid"]
           /\ pending' = unresolved \ {e}
  <2>1. WellFormed(BoostRequest(e))
    BY LedgerAssumption, BoostAssumption DEF WellFormed, BoostRequest, BoostKey
  <2>2. LedgerStep
    BY <1>3, <2>1 DEF LedgerStep
  <2>3. rewards' \in [Boosts -> {"none", "paid", "capped"}]
        /\ \A d \in Boosts : rewards'[d] = IF d = e THEN "paid" ELSE rewards[d]
    BY <1>3 DEF BoostTypes
  <2>4. RecordsAgree'
    BY <1>3, <2>3, RewardCounted DEF RecordsAgree, PaidOnceWithinLimit
  <2> QED
    BY <1>3, <2>2, <2>3, <2>4
<1> QED
  BY <1>1, <1>2, <1>3 DEF ApplyBoostRewardEvent

\* One run of processBoostRewardMessage for a boost the bot knows of, followed
\* by refreshBlockedBoostUser.  Afterwards the boost is not open, or it is in
\* the table of unresolved ones.
LEMMA Processed ==
  ASSUME Books, BoostInv, NEW e \in 1..now, Process(e), RefreshBlocked(e),
         now' = now
  PROVE  /\ RecordsAgree' /\ LedgerStep
         /\ rewards' \in [Boosts -> {"none", "paid", "capped"}]
         /\ \A d \in Boosts : rewards'[d] # rewards[d] => d = e /\ rewards[d] = "none"
         /\ pending' \subseteq pending \union {e}
         /\ pending \subseteq pending' \union {e}
         /\ Open(e)' => e \in pending'
         /\ startedAt' = (IF startedAt = 0 THEN e ELSE startedAt)
         /\ watermark' = (IF startedAt = 0 THEN e ELSE watermark)
         /\ blocked' \in [User -> {0} \union (1..now)]
         /\ blocked = [u \in User |-> EarliestOf(u, pending)]
              => blocked' = [u \in User |-> EarliestOf(u, pending')]
<1>0. /\ e \in Boosts /\ e \in Nat /\ e # 0 /\ startedAt \in Nat /\ now \in Nat
      /\ pending \subseteq 1..now /\ 1..now \subseteq Boosts
  BY BoostAssumption DEF BoostInv, BoostTypes, Boosts
<1>1. /\ startedAt' = (IF startedAt = 0 THEN e ELSE startedAt)
      /\ watermark' = (IF startedAt = 0 THEN e ELSE watermark)
  BY DEF Process
<1>2. Author \in [Boosts -> User]
  BY BoostAssumption DEF User
<1>3. CASE e < startedAt
  <2>1. UNCHANGED <<ledgerVars, rewards, pending>> /\ blocked' = blocked
    BY <1>3 DEF Process, RefreshBlocked
  <2>2. RecordsAgree' /\ LedgerStep
    BY <2>1 DEF BoostInv, RecordsAgree, PaidOnceWithinLimit, Paid, PaidCount,
                ledgerVars, LedgerStep
  <2>3. ~Open(e)'
    BY <1>0, <1>1, <1>3 DEF Open
  <2> QED
    BY <1>1, <2>1, <2>2, <2>3 DEF BoostInv, BoostTypes
<1>4. CASE ~(e < startedAt)
  <2> DEFINE unresolved == IF rewards[e] = "none" THEN pending \union {e}
                                                  ELSE pending
  <2>1. ApplyBoostRewardEvent(e, unresolved)
    BY <1>4 DEF Process
  <2>2. blocked' = [blocked EXCEPT ![Author[e]] = EarliestOf(Author[e], pending')]
    BY <1>4 DEF RefreshBlocked
  <2> HIDE DEF unresolved
  <2>3. /\ RecordsAgree' /\ LedgerStep
        /\ rewards' \in [Boosts -> {"none", "paid", "capped"}]
        /\ \A d \in Boosts : rewards'[d] # rewards[d] => d = e /\ rewards[d] = "none"
        /\ pending' \in {unresolved, unresolved \ {e}}
        /\ rewards'[e] = "none" => pending' = unresolved
    BY <1>0, <2>1, Applied DEF BoostInv
  <2>4. /\ pending' \subseteq pending \union {e}
        /\ pending \subseteq pending' \union {e}
    BY <2>3 DEF unresolved
  <2>5. Open(e)' => e \in pending'
    BY <1>0, <2>3 DEF Open, unresolved
  <2>6. pending' \in SUBSET Boosts /\ pending' \subseteq 1..now
    BY <1>0, <2>4
  <2>7. Author[e] \in User
    BY <1>0, <1>2
  <2>8. EarliestOf(Author[e], pending') \in {0} \union (1..now)
    BY <2>6, <2>7, EarliestIsFirst
  <2>9. blocked' \in [User -> {0} \union (1..now)]
    BY <2>2, <2>7, <2>8 DEF BoostInv, BoostTypes
  <2>10. ASSUME NEW u \in User, u # Author[e]
         PROVE  EarliestOf(u, pending') = EarliestOf(u, pending)
    <3>1. {d \in pending' : Author[d] = u} = {d \in pending : Author[d] = u}
      BY <2>4, <2>10
    <3> QED
      BY <3>1, <2>4, <2>10 DEF EarliestOf
  <2>11. blocked = [u \in User |-> EarliestOf(u, pending)]
           => blocked' = [u \in User |-> EarliestOf(u, pending')]
    BY <2>2, <2>7, <2>10
  <2> QED
    BY <1>1, <2>3, <2>4, <2>5, <2>9, <2>11
<1> QED
  BY <1>3, <1>4

\* A boost is put off: if it is open it is remembered.
LEMMA PutOff ==
  ASSUME BoostInv, NEW e \in 1..now, pending' = Remembered(e), RefreshBlocked(e),
         UNCHANGED <<rewards, startedAt>>
  PROVE  /\ pending' \subseteq pending \union {e}
         /\ pending \subseteq pending'
         /\ Open(e) => e \in pending'
         /\ blocked' \in [User -> {0} \union (1..now)]
         /\ blocked = [u \in User |-> EarliestOf(u, pending)]
              => blocked' = [u \in User |-> EarliestOf(u, pending')]
<1>0. /\ e \in Boosts /\ pending \subseteq 1..now /\ 1..now \subseteq Boosts
      /\ Author \in [Boosts -> User] /\ Author[e] \in User
  BY BoostAssumption DEF BoostInv, BoostTypes, Boosts, User
<1>1. pending' \subseteq pending \union {e} /\ pending \subseteq pending'
  BY DEF Remembered
<1>2. Open(e) => e \in pending'
  BY DEF Open, Remembered, Counts
<1>3. EarliestOf(Author[e], pending') \in {0} \union (1..now)
  <2>1. pending' \in SUBSET Boosts /\ pending' \subseteq 1..now
    BY <1>0, <1>1
  <2> QED
    BY <1>0, <2>1, EarliestIsFirst
<1>4. CASE e < startedAt
  <2>1. pending' = pending /\ blocked' = blocked
    BY <1>4 DEF Remembered, Counts, RefreshBlocked, BoostInv, BoostTypes
  <2> QED
    BY <1>1, <1>2, <2>1 DEF BoostInv, BoostTypes
<1>5. CASE ~(e < startedAt)
  <2>1. blocked' = [blocked EXCEPT ![Author[e]] = EarliestOf(Author[e], pending')]
    BY <1>5 DEF RefreshBlocked
  <2>2. ASSUME NEW u \in User, u # Author[e]
        PROVE  EarliestOf(u, pending') = EarliestOf(u, pending)
    <3>1. {d \in pending' : Author[d] = u} = {d \in pending : Author[d] = u}
      BY <1>1, <2>2
    <3> QED
      BY <3>1, <1>1, <2>2 DEF EarliestOf
  <2>3. blocked' \in [User -> {0} \union (1..now)]
    BY <1>0, <1>3, <2>1 DEF BoostInv, BoostTypes
  <2>4. blocked = [u \in User |-> EarliestOf(u, pending)]
          => blocked' = [u \in User |-> EarliestOf(u, pending')]
    BY <1>0, <2>1, <2>2
  <2> QED
    BY <1>1, <1>2, <2>3, <2>4
<1> QED
  BY <1>4, <1>5

\* No answer is taken back and no open boost falls behind the watermark.
LEMMA ProcessedForgetsNothing ==
  ASSUME BoostInv, NEW e \in 1..now, now' = now,
         rewards' \in [Boosts -> {"none", "paid", "capped"}],
         \A d \in Boosts : rewards'[d] # rewards[d] => d = e /\ rewards[d] = "none",
         startedAt' = (IF startedAt = 0 THEN e ELSE startedAt),
         watermark' = (IF startedAt = 0 THEN e ELSE watermark)
  PROVE  /\ NoBoostForgotten'
         /\ startedAt # 0 => \A d \in 1..now : Open(d)' => Open(d)
<1>1. /\ 1..now \subseteq Boosts /\ startedAt \in Nat /\ e \in Nat /\ e # 0
      /\ now \in Nat
  BY BoostAssumption DEF BoostInv, BoostTypes, Boosts
<1>2. startedAt # 0 => \A d \in 1..now : Open(d)' => Open(d)
  BY <1>1 DEF Open
<1>3. NoBoostForgotten'
  BY <1>1, <1>2 DEF BoostInv, NoBoostForgotten, Open
<1> QED
  BY <1>2, <1>3

\* Nothing that the records speak of changes.
LEMMA SameRecords ==
  ASSUME RecordsAgree, UNCHANGED <<transactions, rewards>>
  PROVE  RecordsAgree'
BY DEF RecordsAgree, PaidOnceWithinLimit, Paid, PaidCount

LEMMA RestoredBlockers ==
  ASSUME BoostTypes
  PROVE  Restored \in [User -> {0} \union (1..now)]
<1>1. pending \in SUBSET Boosts /\ pending \subseteq 1..now
  BY BoostAssumption DEF BoostTypes, Boosts
<1> QED
  BY <1>1, EarliestIsFirst DEF Restored

\* Messages.
LEMMA BoostHappensStep ==
  ASSUME BoostInv, BoostHappens PROVE BoostInv'
<1>1. /\ now \in Nat /\ now < MaxBoosts /\ now' = now + 1 /\ MaxBoosts \in Nat
      /\ wire' \subseteq wire \union {now'} /\ (phase # "down" => wire' = wire \union {now'})
      /\ UNCHANGED <<ledgerVars, durable, phase, memory>>
  BY BoostAssumption DEF BoostHappens, BoostInv, BoostTypes
<1>2. BoostTypes'
  BY <1>1 DEF BoostInv, BoostTypes, durable, memory
<1>3. RecordsAgree'
  BY <1>1, SameRecords DEF BoostInv, ledgerVars, durable
<1>4. NoBoostForgotten'
  <2>1. watermark \in 0..(now + 1)
    BY DEF BoostInv, BoostTypes
  <2> QED
    BY <1>1, <2>1 DEF BoostInv, NoBoostForgotten, durable
<1>5. BlockersKnown'
  BY <1>1 DEF BoostInv, BlockersKnown, durable, memory
<1>6. ScanMissesNothing'
  <2> SUFFICES ASSUME phase = "recovering" PROVE ScanMissesNothing'
    BY <1>1 DEF ScanMissesNothing
  <2>1. scanAt \in 0..now /\ Pool \union pending \subseteq 1..now
    BY DEF BoostInv, BoostTypes, Pool
  <2>2. Pool' = Pool /\ \A e : Open(e)' <=> Open(e)
    BY <1>1 DEF Pool, Open, durable, memory
  <2> QED
    BY <1>1, <2>1, <2>2 DEF BoostInv, ScanMissesNothing, durable, memory
<1> QED
  BY <1>2, <1>3, <1>4, <1>5, <1>6 DEF BoostInv

LEMMA HandleStep ==
  ASSUME Books, BoostInv, HandleBoostRewardMessage
  PROVE  BoostInv' /\ LedgerStep
<1> DEFINE e == Min(wire)
<1>1. /\ e \in wire /\ \A w \in wire \ {e} : e < w
      /\ e \in 1..now /\ now \in Nat
  <2>1. wire \in SUBSET Nat /\ wire # {} /\ wire \subseteq 1..now /\ now \in Nat
    BY DEF HandleBoostRewardMessage, BoostInv, BoostTypes
  <2>2. e \in wire /\ \A n \in wire : e =< n
    BY <2>1, LeastNumber
  <2> HIDE DEF e
  <2> QED
    BY <2>1, <2>2
<1>2. /\ wire' = wire \ {e} /\ RefreshBlocked(e)
      /\ UNCHANGED <<now, phase, found, deferred, failedUsers, scanAt>>
  BY DEF HandleBoostRewardMessage
<1>3. CASE /\ phase \in {"starting", "idle"}
           /\ Process(e) /\ UNCHANGED queue
  <2> HIDE DEF e
  <2>1. /\ RecordsAgree' /\ LedgerStep
        /\ rewards' \in [Boosts -> {"none", "paid", "capped"}]
        /\ \A d \in Boosts : rewards'[d] # rewards[d] => d = e /\ rewards[d] = "none"
        /\ pending' \subseteq pending \union {e}
        /\ startedAt' = (IF startedAt = 0 THEN e ELSE startedAt)
        /\ watermark' = (IF startedAt = 0 THEN e ELSE watermark)
        /\ blocked' \in [User -> {0} \union (1..now)]
        /\ blocked = [u \in User |-> EarliestOf(u, pending)]
             => blocked' = [u \in User |-> EarliestOf(u, pending')]
    BY <1>1, <1>2, <1>3, Processed
  <2>2. NoBoostForgotten'
    BY <1>1, <1>2, <2>1, ProcessedForgetsNothing
  <2>3. BoostTypes'
    BY <1>1, <1>2, <1>3, <2>1 DEF BoostInv, BoostTypes
  <2>4. BlockersKnown'
    BY <1>2, <2>1 DEF BoostInv, BoostTypes, BlockersKnown
  <2>5. ScanMissesNothing'
    BY <1>2, <1>3 DEF ScanMissesNothing
  <2> QED
    BY <2>1, <2>2, <2>3, <2>4, <2>5 DEF BoostInv
<1>4. CASE /\ queue' = queue \union {e}
           /\ pending' = Remembered(e)
           /\ UNCHANGED <<ledgerVars, rewards, startedAt, watermark>>
  <2> HIDE DEF e
  <2>1. /\ pending' \subseteq pending \union {e} /\ pending \subseteq pending'
        /\ Open(e) => e \in pending'
        /\ blocked' \in [User -> {0} \union (1..now)]
        /\ blocked = [u \in User |-> EarliestOf(u, pending)]
             => blocked' = [u \in User |-> EarliestOf(u, pending')]
    BY <1>1, <1>2, <1>4, PutOff
  <2>2. BoostTypes'
    BY <1>1, <1>2, <1>4, <2>1 DEF BoostInv, BoostTypes
  <2>3. RecordsAgree' /\ NoBoostForgotten' /\ LedgerStep
    BY <1>2, <1>4, SameRecords
    DEF BoostInv, NoBoostForgotten, ledgerVars, LedgerStep
  <2>4. BlockersKnown'
    BY <1>2, <2>1 DEF BoostInv, BoostTypes, BlockersKnown
  <2>5. ScanMissesNothing'
    <3> SUFFICES ASSUME phase = "recovering" PROVE ScanMissesNothing'
      BY <1>2 DEF ScanMissesNothing
    <3>1. Pool' = Pool \union {e} /\ \A d : Open(d)' <=> Open(d)
      BY <1>2, <1>4 DEF Pool, Open
    <3>2. \A p \in Pool' \union pending', w \in wire' : p =< scanAt \/ p < w
      BY <1>1, <1>2, <2>1, <3>1 DEF BoostInv, ScanMissesNothing
    <3> QED
      BY <1>1, <1>2, <1>4, <2>1, <3>1, <3>2 DEF BoostInv, ScanMissesNothing
  <2> QED
    BY <2>2, <2>3, <2>4, <2>5 DEF BoostInv
<1> QED
  BY <1>3, <1>4 DEF HandleBoostRewardMessage, PaysAtOnce

\* The phases of the bot and the ways into a scan.
LEMMA PhaseStep ==
  ASSUME BoostInv,
         Start \/ Stop \/ InitializeFails \/ FirstInitialize \/ ReadHistory
           \/ RecoveryThrows
  PROVE  BoostInv'
<1>0. /\ BoostTypes /\ RecordsAgree /\ NoBoostForgotten
      /\ BlockersKnown /\ ScanMissesNothing
      /\ now \in Nat /\ 1..now \subseteq Boosts /\ startedAt \in Nat
  BY BoostAssumption DEF BoostInv, BoostTypes, Boosts
<1>1. RecordsAgree'
  BY <1>0, SameRecords
  DEF Start, Stop, InitializeFails, FirstInitialize, ReadHistory, RecoveryThrows,
      ledgerVars, durable
<1>2. CASE Start \/ Stop
  <2>1. BoostTypes'
    <3>1. UNCHANGED <<now, rewards, pending, startedAt, watermark>> /\ NoMemory
          /\ wire' \subseteq wire /\ phase' \in {"down", "starting"}
      BY <1>2 DEF Start, Stop, durable
    <3> QED
      BY <1>0, <3>1 DEF NoMemory, BoostTypes
  <2>2. NoBoostForgotten'
    BY <1>0, <1>2 DEF Start, Stop, durable, NoBoostForgotten
  <2>3. BlockersKnown' /\ ScanMissesNothing'
    BY <1>2 DEF Start, Stop, BlockersKnown, ScanMissesNothing
  <2> QED
    BY <1>1, <2>1, <2>2, <2>3 DEF BoostInv
<1>3. CASE InitializeFails
  <2>1. blocked' = Restored /\ Restored \in [User -> {0} \union (1..now)]
    BY <1>0, <1>3, RestoredBlockers DEF InitializeFails
  <2>2. BoostTypes' /\ NoBoostForgotten'
    BY <1>0, <1>3, <2>1 DEF InitializeFails, durable, BoostTypes, NoBoostForgotten
  <2>3. BlockersKnown' /\ ScanMissesNothing'
    BY <1>3 DEF InitializeFails, BlockersKnown, ScanMissesNothing, Restored, durable
  <2> QED
    BY <1>1, <2>2, <2>3 DEF BoostInv
<1>4. CASE FirstInitialize
  <2>1. blocked' = Restored /\ Restored \in [User -> {0} \union (1..now)]
    BY <1>0, <1>4, RestoredBlockers DEF FirstInitialize
  <2>2. BoostTypes'
    BY <1>0, <1>4, <2>1 DEF FirstInitialize, BoostTypes
  <2>3. \A e \in 1..now : ~Open(e)'
    BY <1>0, <1>4 DEF FirstInitialize, Open
  <2>4. NoBoostForgotten'
    BY <1>0, <1>4 DEF FirstInitialize, NoBoostForgotten
  <2>5. BlockersKnown'
    BY <1>4 DEF FirstInitialize, BlockersKnown, Restored
  <2>6. \A p \in (Pool \union pending)' : p =< scanAt'
    BY <1>0, <1>4 DEF FirstInitialize, Pool, BoostTypes
  <2>7. ScanMissesNothing'
    BY <1>0, <1>4, <2>3, <2>6 DEF FirstInitialize, ScanMissesNothing
  <2> QED
    BY <1>1, <2>2, <2>4, <2>5, <2>7 DEF BoostInv
<1>5. CASE ReadHistory
  <2>1. blocked' = Restored /\ Restored \in [User -> {0} \union (1..now)]
    BY <1>0, <1>5, RestoredBlockers DEF ReadHistory
  <2>2. BoostTypes'
    BY <1>0, <1>5, <2>1 DEF ReadHistory, durable, BoostTypes
  <2>3. NoBoostForgotten'
    BY <1>0, <1>5 DEF ReadHistory, durable, NoBoostForgotten
  <2>4. BlockersKnown'
    BY <1>5 DEF ReadHistory, BlockersKnown, Restored, durable
  <2>5. \A p \in (Pool \union pending)' : p =< scanAt'
    BY <1>0, <1>5, <2>2 DEF ReadHistory, durable, Pool, BoostTypes
  <2>6. \A e \in 1..now : Open(e)' => e \in Pool'
    BY <1>0, <1>5 DEF ReadHistory, durable, Open, Pool, NoBoostForgotten
  <2>7. ScanMissesNothing'
    BY <1>5, <2>5, <2>6 DEF ReadHistory, durable, ScanMissesNothing
  <2> QED
    BY <1>1, <2>2, <2>3, <2>4, <2>7 DEF BoostInv
<1>6. CASE RecoveryThrows
  <2>1. BoostTypes' /\ NoBoostForgotten'
    BY <1>0, <1>6 DEF RecoveryThrows, durable, BoostTypes, NoBoostForgotten
  <2>2. BlockersKnown' /\ ScanMissesNothing'
    BY <1>0, <1>6 DEF RecoveryThrows, durable, BlockersKnown, ScanMissesNothing
  <2> QED
    BY <1>1, <2>1, <2>2 DEF BoostInv
<1> QED
  BY <1>2, <1>3, <1>4, <1>5, <1>6

\* One boost of the scan.
LEMMA RecoverOneStep ==
  ASSUME Books, BoostInv, RecoverOne
  PROVE  BoostInv' /\ LedgerStep
<1>0. /\ BoostTypes /\ RecordsAgree /\ NoBoostForgotten
      /\ BlockersKnown /\ ScanMissesNothing
      /\ now \in Nat /\ phase = "recovering" /\ startedAt # 0
  BY DEF BoostInv, BoostTypes, RecoverOne, ScanMissesNothing
<1>1. PICK e \in 1..now : e = Min(Pool) /\ e \in Pool
  <2>1. Pool \in SUBSET Nat /\ Pool # {} /\ Pool \subseteq 1..now
    BY <1>0 DEF RecoverOne, BoostTypes, Pool
  <2>2. Min(Pool) \in Pool
    BY <2>1, LeastNumber
  <2> QED
    BY <2>1, <2>2
<1>2. /\ found' = Pool \ {e} /\ queue' = {} /\ RefreshBlocked(e)
      /\ UNCHANGED <<now, wire, phase, scanAt>>
      /\ deferred' \in {deferred, deferred \union {e}}
  BY <1>1 DEF RecoverOne
<1>3. /\ Pool' = Pool \ {e}
      /\ Pool \subseteq 1..now
  BY <1>0, <1>2 DEF Pool, BoostTypes
<1>4. CASE /\ pending' = Remembered(e)
           /\ UNCHANGED <<ledgerVars, rewards, startedAt, watermark>>
  <2>1. /\ pending' \subseteq pending \union {e} /\ pending \subseteq pending'
        /\ Open(e) => e \in pending'
        /\ blocked' \in [User -> {0} \union (1..now)]
        /\ blocked = [u \in User |-> EarliestOf(u, pending)]
             => blocked' = [u \in User |-> EarliestOf(u, pending')]
    BY <1>1, <1>2, <1>4, PutOff
  <2>2. BoostTypes'
    BY <1>0, <1>1, <1>2, <1>3, <1>4, <2>1 DEF BoostTypes
  <2>3. RecordsAgree' /\ NoBoostForgotten' /\ LedgerStep
    BY <1>0, <1>2, <1>4, SameRecords DEF NoBoostForgotten, ledgerVars, LedgerStep
  <2>4. BlockersKnown'
    BY <1>0, <1>2, <2>1 DEF BoostTypes, BlockersKnown
  <2>5. \A d : Open(d)' <=> Open(d)
    BY <1>4 DEF Open
  <2>6. ScanMissesNothing'
    BY <1>0, <1>1, <1>2, <1>3, <1>4, <2>1, <2>5 DEF ScanMissesNothing
  <2> QED
    BY <2>2, <2>3, <2>4, <2>6 DEF BoostInv
<1>5. CASE Process(e)
  <2>1. /\ RecordsAgree' /\ LedgerStep
        /\ rewards' \in [Boosts -> {"none", "paid", "capped"}]
        /\ \A d \in Boosts : rewards'[d] # rewards[d] => d = e /\ rewards[d] = "none"
        /\ pending' \subseteq pending \union {e}
        /\ pending \subseteq pending' \union {e}
        /\ Open(e)' => e \in pending'
        /\ startedAt' = (IF startedAt = 0 THEN e ELSE startedAt)
        /\ watermark' = (IF startedAt = 0 THEN e ELSE watermark)
        /\ blocked' \in [User -> {0} \union (1..now)]
        /\ blocked = [u \in User |-> EarliestOf(u, pending)]
             => blocked' = [u \in User |-> EarliestOf(u, pending')]
    BY <1>1, <1>2, <1>5, Processed
  <2>2. NoBoostForgotten' /\ \A d \in 1..now : Open(d)' => Open(d)
    BY <1>0, <1>1, <1>2, <2>1, ProcessedForgetsNothing
  <2>3. BoostTypes'
    BY <1>0, <1>1, <1>2, <1>3, <2>1 DEF BoostTypes
  <2>4. BlockersKnown'
    BY <1>0, <1>2, <2>1 DEF BoostTypes, BlockersKnown
  <2>5. ScanMissesNothing'
    BY <1>0, <1>1, <1>2, <1>3, <2>1, <2>2 DEF ScanMissesNothing
  <2> QED
    BY <2>1, <2>2, <2>3, <2>4, <2>5 DEF BoostInv
<1> QED
  BY <1>1, <1>4, <1>5 DEF RecoverOne

\* The scan ends: the watermark stops at the first unresolved boost, or goes to
\* where the scan began, and no open boost is older.
LEMMA FinishStep ==
  ASSUME BoostInv, FinishRecovery PROVE BoostInv'
<1>0. /\ BoostTypes /\ RecordsAgree /\ NoBoostForgotten
      /\ BlockersKnown /\ ScanMissesNothing
      /\ now \in Nat /\ phase = "recovering" /\ startedAt # 0 /\ Pool = {}
      /\ pending \in SUBSET Boosts /\ pending \subseteq 1..now /\ scanAt \in 0..now
  BY BoostAssumption
  DEF BoostInv, BoostTypes, Boosts, FinishRecovery, ScanMissesNothing
<1>1. /\ UNCHANGED <<ledgerVars, now, wire, rewards, pending, startedAt, blocked, found>>
      /\ queue' = deferred /\ deferred' = {} /\ phase' = "idle" /\ scanAt' = 0
      /\ watermark' = NextWatermark
  BY DEF FinishRecovery
<1> DEFINE first == {blocked[u] : u \in User} \ {0}
<1>2. first \subseteq pending /\ first \in SUBSET Nat /\ first \subseteq 1..now
  <2>1. \A u \in User : blocked[u] \in {0} \union pending
    BY <1>0, EarliestIsFirst DEF BlockersKnown
  <2>2. first \subseteq pending
    BY <2>1
  <2> HIDE DEF first
  <2> QED
    BY <1>0, <2>2
<1>3. ASSUME NEW e \in pending
      PROVE  \E b \in first : b =< e
  <2>1. Author[e] \in User
    BY <1>0, <1>3, BoostAssumption DEF User
  <2>2. blocked[Author[e]] # 0 /\ blocked[Author[e]] =< e
    BY <1>0, <2>1, EarliestIsFirst DEF BlockersKnown
  <2> QED
    BY <2>1, <2>2
<1>4. watermark' \in 0..now
      /\ \A e \in 1..now : Open(e) => e >= watermark'
  <2>1. CASE first = {}
    <3>1. watermark' = scanAt
      BY <1>1, <2>1 DEF NextWatermark
    <3>2. pending = {}
      BY <1>3, <2>1
    <3> QED
      BY <1>0, <3>1, <3>2 DEF ScanMissesNothing
  <2>2. CASE first # {}
    <3>1. watermark' = Min(first)
      BY <1>1, <2>2 DEF NextWatermark
    <3>2. Min(first) \in first /\ \A n \in first : Min(first) =< n
      BY <1>2, <2>2, LeastNumber
    <3> HIDE DEF first
    <3>3. PICK b \in first : b = watermark' /\ \A n \in first : b =< n
      BY <3>1, <3>2
    <3>4. b \in pending /\ b \in 1..now
      BY <1>2
    <3>5. ASSUME NEW e \in 1..now, Open(e) PROVE e >= b
      <4>1. CASE e \in pending
        BY <1>0, <1>2, <1>3, <3>3, <3>4, <4>1
      <4>2. CASE e > scanAt /\ e \in wire
        BY <1>0, <3>4, <4>2 DEF ScanMissesNothing
      <4> QED
        BY <1>0, <3>5, <4>1, <4>2 DEF ScanMissesNothing
    <3> QED
      BY <1>0, <3>3, <3>4, <3>5
  <2> QED
    BY <2>1, <2>2
<1> HIDE DEF first
<1>5. BoostTypes'
  BY <1>0, <1>1, <1>4 DEF BoostTypes
<1>6. NoBoostForgotten'
  BY <1>0, <1>1, <1>4 DEF NoBoostForgotten, Open
<1>7. RecordsAgree'
  BY <1>0, <1>1, SameRecords DEF ledgerVars
<1>8. BlockersKnown' /\ ScanMissesNothing'
  BY <1>0, <1>1 DEF BlockersKnown, ScanMissesNothing
<1> QED
  BY <1>5, <1>6, <1>7, <1>8 DEF BoostInv

\* The operator's script, while the bot is stopped.
LEMMA ResolveStep ==
  ASSUME Books, BoostInv, NEW u \in User, ResolvePending(u)
  PROVE  BoostInv' /\ LedgerStep
<1>0. /\ BoostTypes /\ NoBoostForgotten /\ RecordsAgree
      /\ pending \in SUBSET Boosts /\ 1..now \subseteq Boosts /\ phase = "down"
      /\ UNCHANGED <<now, wire, startedAt, watermark, phase, memory>>
  BY BoostAssumption DEF BoostInv, BoostTypes, Boosts, ResolvePending
<1>1. PICK e \in pending : ApplyBoostRewardEvent(e, pending)
  <2>1. EarliestOf(u, pending) \in {0} \union pending
    BY <1>0, EarliestIsFirst
  <2> QED
    BY <2>1 DEF ResolvePending
<1>2. /\ RecordsAgree' /\ LedgerStep
      /\ rewards' \in [Boosts -> {"none", "paid", "capped"}]
      /\ \A d \in Boosts : rewards'[d] # rewards[d] => d = e /\ rewards[d] = "none"
      /\ pending' \subseteq pending
  BY <1>0, <1>1, Applied
<1>3. BoostTypes'
  BY <1>0, <1>2 DEF BoostTypes, memory
<1>4. NoBoostForgotten'
  BY <1>0, <1>2 DEF NoBoostForgotten
<1>5. BlockersKnown' /\ ScanMissesNothing'
  BY <1>0 DEF BlockersKnown, ScanMissesNothing
<1> QED
  BY <1>2, <1>3, <1>4, <1>5 DEF BoostInv

LEMMA BoostStep ==
  ASSUME Books, BoostInv, [BoostNext]_boostVars
  PROVE  BoostInv' /\ LedgerStep
<1>1. ASSUME UNCHANGED <<transactions, now, wire, durable, phase, memory>>
      PROVE  BoostInv'
  <2>1. RecordsAgree'
    BY <1>1, SameRecords DEF BoostInv, durable
  <2> QED
    BY <1>1, <2>1 DEF BoostInv, BoostTypes, NoBoostForgotten, BlockersKnown,
                      ScanMissesNothing, Pool, Open, durable, memory
<1>2. ASSUME NEW a \in Freezable, NEW s \in {"active", "frozen"}, FreezeAuthor(a, s)
      PROVE  BoostInv' /\ LedgerStep
  BY <1>1, <1>2, LedgerAssumption DEF FreezeAuthor, SetAccountStatus, LedgerStep
<1>3. CASE UNCHANGED boostVars
  BY <1>1, <1>3 DEF boostVars, ledgerVars, LedgerStep
<1>4. CASE BoostHappens
  BY <1>4, BoostHappensStep DEF BoostHappens, LedgerStep
<1>5. CASE \/ Start \/ Stop \/ InitializeFails \/ FirstInitialize \/ ReadHistory
           \/ RecoveryThrows
  BY <1>5, PhaseStep
  DEF Start, Stop, InitializeFails, FirstInitialize, ReadHistory, RecoveryThrows,
      LedgerStep
<1>6. CASE FinishRecovery
  BY <1>6, FinishStep DEF FinishRecovery, LedgerStep
<1> QED
  BY <1>2, <1>3, <1>4, <1>5, <1>6, HandleStep, RecoverOneStep, ResolveStep
  DEF BoostNext

LEMMA BoostInitially ==
  ASSUME BoostInit PROVE Books /\ BoostInv
<1>1. Books
  BY BooksInitially DEF BoostInit
<1>2. BoostTypes
  BY BoostAssumption DEF BoostInit, BoostTypes
<1>3. RecordsAgree
  <2>1. \A e \in Boosts : PaidCount(e) = 0
    <3>1. \A e \in Boosts :
            {t \in transactions :
               \E d \in Boosts : /\ t.key = BoostKey(d) /\ ~t.reversal
                                 /\ Author[d] = Author[e]
                                 /\ Month[d] = Month[e]} = {}
      BY DEF BoostInit, LedgerInit
    <3> QED
      BY <3>1, FS_EmptySet DEF PaidCount
  <2> QED
    BY <2>1, BoostAssumption
    DEF BoostInit, LedgerInit, RecordsAgree, PaidOnceWithinLimit, Paid
<1>4. NoBoostForgotten /\ BlockersKnown /\ ScanMissesNothing
  BY DEF BoostInit, NoBoostForgotten, BlockersKnown, ScanMissesNothing
<1> QED
  BY <1>1, <1>2, <1>3, <1>4 DEF BoostInv

LEMMA BoostInvariant == BoostSpec => [](Books /\ BoostInv)
<1>1. Books /\ BoostInv /\ [BoostNext]_boostVars => (Books /\ BoostInv)'
  BY BoostStep, LedgerStepKeepsBooks
<1> QED
  BY <1>1, BoostInitially, PTL DEF BoostSpec

\* Live messages, the scan after a start, the operator's script and restarts in
\* any order: a boost is paid once and never above the month's limit, and an
\* open one stays within reach of the next scan.
THEOREM BoostsArePaidRight == BoostSpec => []BoostsPaidRight
<1>1. BoostInv => BoostsPaidRight
  BY DEF BoostInv, RecordsAgree, BoostsPaidRight
<1> QED
  BY <1>1, BoostInvariant, PTL

\* Paying boosts leaves the books of the bank sound.
THEOREM BoostKeepsBooks == BoostSpec => []BooksSound
<1>1. Books => BooksSound
  BY AuditAgrees DEF Books, BooksSound
<1> QED
  BY <1>1, BoostInvariant, PTL

THEOREM BoostImplementsBank == BoostSpec => BankSpec
<1>1. BoostInit => LedgerBank!Init
  BY LedgerInitIsBankInit DEF BoostInit
<1>2. Books /\ BoostInv /\ [BoostNext]_boostVars
        => [LedgerBank!Next]_(LedgerBank!vars)
  BY BoostStep, LedgerStepIsBankStep
<1> QED
  BY <1>1, <1>2, BoostInvariant, PTL DEF BoostSpec, BankSpec, LedgerBank!Spec

\* After the scan every open boost is in the table of unresolved ones, or its message
\* is still on its way.
IdleMissesNothing ==
  phase = "idle" =>
    /\ startedAt # 0
    /\ \A e \in 1..now : Open(e) => e \in pending \union wire

LEMMA IdleStep ==
  ASSUME Books, BoostInv, IdleMissesNothing, [BoostNext]_boostVars
  PROVE  IdleMissesNothing'
<1>0. /\ BoostTypes /\ now \in Nat /\ 1..now \subseteq Boosts
      /\ wire \subseteq 1..now /\ pending \subseteq 1..now
  BY BoostAssumption DEF BoostInv, BoostTypes, Boosts
<1>1. CASE UNCHANGED <<now, wire, durable, phase>>
  BY <1>1 DEF IdleMissesNothing, Open, durable
<1>2. CASE \/ Start \/ Stop \/ InitializeFails \/ FirstInitialize \/ ReadHistory
           \/ RecoverOne \/ RecoveryThrows \/ \E u \in User : ResolvePending(u)
  <2>1. phase' # "idle"
    BY <1>2 DEF Start, Stop, InitializeFails, FirstInitialize, ReadHistory, RecoverOne,
                RecoveryThrows, ResolvePending
  <2> QED
    BY <2>1 DEF IdleMissesNothing
<1>3. CASE BoostHappens
  <2>1. /\ now' = now + 1 /\ (phase # "down" => wire' = wire \union {now'})
        /\ UNCHANGED <<rewards, pending, startedAt, phase>>
    BY <1>3 DEF BoostHappens, durable
  <2>2. \A e : Open(e)' <=> Open(e)
    BY <2>1 DEF Open
  <2> QED
    BY <1>0, <2>1, <2>2 DEF IdleMissesNothing
<1>4. CASE FinishRecovery
  <2>1. /\ phase = "recovering" /\ Pool = {}
        /\ UNCHANGED <<now, wire, rewards, pending, startedAt>>
    BY <1>4 DEF FinishRecovery
  <2>2. startedAt # 0 /\ \A e \in 1..now : Open(e) => e \in pending \union wire
    BY <2>1 DEF BoostInv, ScanMissesNothing
  <2> QED
    BY <2>1, <2>2 DEF IdleMissesNothing, Open
<1>5. CASE HandleBoostRewardMessage
  <2> SUFFICES ASSUME phase = "idle" PROVE IdleMissesNothing'
    BY <1>5 DEF HandleBoostRewardMessage, IdleMissesNothing
  <2>1. startedAt # 0 /\ \A e \in 1..now : Open(e) => e \in pending \union wire
    BY DEF IdleMissesNothing
  <2>2. PICK e \in 1..now :
          /\ wire' = wire \ {e} /\ RefreshBlocked(e) /\ UNCHANGED <<now, phase>>
          /\ \/ Process(e)
             \/ pending' = Remembered(e) /\ UNCHANGED <<rewards, startedAt>>
    <3>1. wire \in SUBSET Nat /\ wire # {}
      BY <1>0, <1>5 DEF HandleBoostRewardMessage
    <3>2. Min(wire) \in 1..now
      BY <1>0, <3>1, LeastNumber
    <3> QED
      BY <1>5, <3>2 DEF HandleBoostRewardMessage
  <2>3. /\ startedAt' = startedAt
        /\ pending \subseteq pending' \union {e}
        /\ Open(e)' => e \in pending'
        /\ \A d \in 1..now : Open(d)' => Open(d)
    <3>1. CASE Process(e)
      <4>1. /\ rewards' \in [Boosts -> {"none", "paid", "capped"}]
            /\ \A d \in Boosts : rewards'[d] # rewards[d] => d = e /\ rewards[d] = "none"
            /\ pending \subseteq pending' \union {e}
            /\ Open(e)' => e \in pending'
            /\ startedAt' = (IF startedAt = 0 THEN e ELSE startedAt)
            /\ watermark' = (IF startedAt = 0 THEN e ELSE watermark)
        BY <2>2, <3>1, Processed
      <4>2. \A d \in 1..now : Open(d)' => Open(d)
        BY <2>1, <2>2, <4>1, ProcessedForgetsNothing
      <4> QED
        BY <2>1, <4>1, <4>2
    <3>2. CASE pending' = Remembered(e) /\ UNCHANGED <<rewards, startedAt>>
      <4>1. pending \subseteq pending' /\ (Open(e) => e \in pending')
        BY <2>2, <3>2, PutOff
      <4>2. \A d : Open(d)' <=> Open(d)
        BY <3>2 DEF Open
      <4> QED
        BY <3>2, <4>1, <4>2
    <3> QED
      BY <2>2, <3>1, <3>2
  <2> QED
    BY <2>1, <2>2, <2>3 DEF IdleMissesNothing
<1>6. CASE \E a \in Freezable, s \in {"active", "frozen"} : FreezeAuthor(a, s)
  BY <1>1, <1>6 DEF FreezeAuthor
<1> QED
  BY <1>1, <1>2, <1>3, <1>4, <1>5, <1>6 DEF BoostNext, boostVars

\* The trigger on the ledger lets no payment pass an unresolved boost.
LEMMA NothingOvertakesUnresolved ==
  ASSUME BoostTypes, NEW b \in Boosts, Process(b),
         NEW d \in Boosts, NEW e \in Boosts, d < e, Author[d] = Author[e],
         rewards[e] = "none", rewards'[e] = "paid"
  PROVE  e = b /\ d \notin pending
<1>1. rewards' # rewards
  OBVIOUS
<1> DEFINE unresolved == IF rewards[b] = "none" THEN pending \union {b} ELSE pending
<1>2. ApplyBoostRewardEvent(b, unresolved)
  BY <1>1 DEF Process
<1>3. pending \subseteq unresolved
  OBVIOUS
<1> HIDE DEF unresolved
<1>4. e = b
  BY <1>2 DEF ApplyBoostRewardEvent, BoostTypes
<1>5. rewards' # [rewards EXCEPT ![b] = "capped"]
  BY <1>4 DEF BoostTypes
<1>6. ~EarlierPending(b, unresolved)
  BY <1>1, <1>2, <1>5 DEF ApplyBoostRewardEvent
<1> QED
  BY <1>3, <1>4, <1>6 DEF EarlierPending

LEMMA OrderStep ==
  ASSUME BoostInv, IdleMissesNothing, [BoostNext]_boostVars,
         NEW d \in Boosts, NEW e \in Boosts,
         phase \in {"recovering", "idle"},
         d < e, Author[d] = Author[e], Counts(d),
         rewards[e] = "none", rewards'[e] = "paid"
  PROVE  rewards[d] # "none"
<1> SUFFICES ASSUME rewards[d] = "none" PROVE FALSE
  OBVIOUS
<1>0. /\ BoostTypes /\ ScanMissesNothing /\ Open(d)
      /\ now \in Nat /\ 1..now \subseteq Boosts /\ d \in Nat \ {0} /\ e \in Nat
      /\ wire \subseteq 1..now /\ scanAt \in Nat
  BY BoostAssumption DEF BoostInv, BoostTypes, Boosts, Counts, Open
<1>1. CASE phase = "idle" /\ HandleBoostRewardMessage
  <2>1. wire \in SUBSET Nat /\ wire # {}
    BY <1>0, <1>1 DEF HandleBoostRewardMessage
  <2>2. Min(wire) \in wire /\ \A n \in wire : Min(wire) =< n
    BY <2>1, LeastNumber
  <2>3. Process(Min(wire))
    BY <1>1 DEF HandleBoostRewardMessage
  <2>4. PICK b \in wire : b = Min(wire)
    BY <2>2
  <2>5. e = b /\ d \notin pending
    BY <1>0, <2>3, <2>4, NothingOvertakesUnresolved
  <2>6. d \in 1..now /\ d \notin wire
    BY <1>0, <2>2, <2>4, <2>5
  <2> QED
    BY <1>0, <1>1, <2>5, <2>6 DEF IdleMissesNothing
<1>2. CASE phase = "recovering" /\ RecoverOne
  <2>1. Pool \in SUBSET Nat /\ Pool # {} /\ Pool \subseteq 1..now
    BY <1>0, <1>2 DEF RecoverOne, BoostTypes, Pool
  <2>2. Min(Pool) \in Pool /\ \A n \in Pool : Min(Pool) =< n
    BY <2>1, LeastNumber
  <2>3. Process(Min(Pool))
    BY <1>2 DEF RecoverOne
  <2>4. PICK b \in Pool : b = Min(Pool)
    BY <2>2
  <2>5. e = b /\ d \notin pending
    BY <1>0, <2>1, <2>3, <2>4, NothingOvertakesUnresolved
  <2>6. d \in 1..now /\ d \notin Pool
    BY <1>0, <2>1, <2>2, <2>4, <2>5
  <2>7. d > scanAt /\ d \in wire
    BY <1>0, <1>2, <2>5, <2>6 DEF ScanMissesNothing
  <2>8. e =< scanAt \/ e < d
    BY <1>0, <1>2, <2>4, <2>5, <2>7 DEF ScanMissesNothing
  <2> QED
    BY <1>0, <2>7, <2>8
<1>3. CASE UNCHANGED rewards
  BY <1>3
<1>4. CASE HandleBoostRewardMessage /\ phase = "recovering"
  <2>1. UNCHANGED rewards
    BY <1>4 DEF HandleBoostRewardMessage, PaysAtOnce
  <2> QED
    BY <2>1
<1>5. CASE BoostHappens \/ Start \/ Stop \/ InitializeFails \/ FirstInitialize
           \/ ReadHistory \/ FinishRecovery \/ RecoveryThrows
           \/ (\E a \in Freezable, s \in {"active", "frozen"} : FreezeAuthor(a, s))
           \/ UNCHANGED boostVars
  <2>1. UNCHANGED rewards
    BY <1>5 DEF BoostHappens, Start, Stop, InitializeFails, FirstInitialize, ReadHistory,
                FinishRecovery, RecoveryThrows, FreezeAuthor, boostVars, durable
  <2> QED
    BY <2>1
<1>6. CASE (RecoverOne /\ phase = "idle") \/ \E u \in User : ResolvePending(u)
  BY <1>6 DEF RecoverOne, ResolvePending
<1> QED
  BY <1>1, <1>2, <1>4, <1>5, <1>6 DEF BoostNext

\* From the beginning of the scan nothing is paid before an older boost of the same
\* user that counts and has no answer, whatever was missed, refused or queued.
THEOREM BoostsAreInOrder == BoostSpec => PaidInOrder
<1>1. BoostInit => IdleMissesNothing
  BY DEF BoostInit, IdleMissesNothing
<1>2. BoostSpec => []IdleMissesNothing
  BY <1>1, IdleStep, BoostInvariant, PTL DEF BoostSpec
<1>3. BoostInv /\ IdleMissesNothing /\ [BoostNext]_boostVars
        => [\A d, e \in Boosts :
              /\ phase \in {"recovering", "idle"}
              /\ d < e /\ Author[d] = Author[e] /\ Counts(d)
              /\ rewards[e] = "none" /\ rewards'[e] = "paid"
              => rewards[d] # "none"]_boostVars
  BY OrderStep
<1> QED
  BY <1>2, <1>3, BoostInvariant, PTL DEF BoostSpec, PaidInOrder
=============================================================================
