------------------------------- MODULE Outbox -------------------------------
(***************************************************************************)
(* The notification outbox: rows are written in the transaction that moves *)
(* the money (ledger/service.ts) or by other services, and a worker of the *)
(* bot posts them to Discord channels (apps/bot/src/outbox.ts).  The       *)
(* worker awaits Discord between reading a row and marking it, collects    *)
(* the frequent small payments in memory for a digest, and can die at any  *)
(* await.                                                                  *)
(***************************************************************************)
EXTENDS Ledger, Sequences

CONSTANTS
  Channel,      \* the channel settings, "audit_log", "public_log", ...
  OtherNotice,  \* kinds of rows written by other services
  Limit,        \* rows read by one tick (50 in the code)
  MaxAttempts,  \* failures after which a row is left alone (10)
  MaxRows,      \* bound: rows in a behaviour
  MaxDisturbed  \* bound: restarts and changes of the channel settings

VARIABLES
  outbox,      \* the rows, in the order of their ids
  configured,  \* channel setting |-> "unset", "lost" (set, but the bot cannot
               \* fetch the channel) or "set"
  batch,       \* ids the running tick has still to look at
  sending,     \* the id whose send is being awaited, or 0
  digest,      \* ids collected in memory for the digest
  restarts,     \* restarts so far
  changes      \* changes of the channel settings so far

workerVars == <<batch, sending, digest>>
bounds == <<restarts, changes>>
outboxVars == <<ledgerVars, outbox, configured, workerVars, bounds>>

Id == 1..Len(outbox)

\* The audit types the worker collects instead of posting one by one.
DigestAuditTypes == {"vc_reward", "room_fee", "room_refund", "initial"}

PublicLog == {"transfer", "tip", "tip_burn"}

NewRow(kind, type) ==
  [kind |-> kind, type |-> type, attempts |-> 0, delivered |-> FALSE,
   posted |-> FALSE]

\* Every transaction tells the auditors, some types tell everybody.
Notices(type) ==
  <<NewRow("audit_log", type)>> \o
    (IF type \in PublicLog THEN <<NewRow("public_log", type)>> ELSE <<>>)

\* The settings looked at for a row, the first one that is set decides.  The
\* receipt of a ticket goes to the thread it names.
Settings(kind) ==
  CASE kind = "shop_purchase_log" ->
         <<"shop_purchase_log", "shokan", "audit_log">>
    [] kind = "public_log" -> <<"public_log">>
    [] kind = "original_role_ticket_receipt" -> <<"ticket">>
    [] OTHER -> <<"audit_log">>

\* channelFor finds a channel.
HasChannel(kind) ==
  LET named == SelectSeq(Settings(kind),
                         LAMBDA c : c \in Channel /\ configured[c] # "unset")
  IN named # <<>> /\ configured[Head(named)] = "set"

Pending ==
  {i \in Id : ~outbox[i].delivered /\ outbox[i].attempts < MaxAttempts}

PendingOutboxOfAll ==      \* mutant: rows given up count against the LIMIT
  SelectSeq([n \in 1..Len(outbox) |-> n],
            LAMBDA i : /\ i \in Pending
                       /\ Cardinality({j \in 1..(i - 1) : ~outbox[j].delivered})
                            < Limit)

\* The first Limit pending rows, oldest first.
PendingOutbox ==
  SelectSeq([n \in 1..Len(outbox) |-> n],
            LAMBDA i : /\ i \in Pending
                       /\ Cardinality({j \in Pending : j < i}) < Limit)

Digestible(i) ==
  outbox[i].kind = "audit_log" /\ outbox[i].type \in DigestAuditTypes

-----------------------------------------------------------------------------
\* A transfer or a reversal and its rows commit together.
Notified(type) ==
  /\ Len(outbox) + Len(Notices(type)) =< MaxRows
  /\ outbox' = outbox \o Notices(type)
  /\ UNCHANGED <<configured, workerVars, bounds>>

TransferNotified(r) == Transfer(r) /\ Notified(r.type)

ReverseNotified(t) == Reverse(t) /\ Notified(t.type)

\* Another service (settings, payroll, shop) writes a row of its own.
Announce(kind) ==
  /\ Len(outbox) < MaxRows
  /\ outbox' = Append(outbox, NewRow(kind, "event"))
  /\ UNCHANGED <<ledgerVars, configured, workerVars, bounds>>

\* A channel is set, or disappears from Discord.
Configure(c, s) ==
  /\ restarts + changes < MaxDisturbed
  /\ configured[c] # s
  /\ changes' = changes + 1
  /\ configured' = [configured EXCEPT ![c] = s]
  /\ UNCHANGED <<ledgerVars, outbox, workerVars, restarts>>

-----------------------------------------------------------------------------
\* The worker.  While `running` a further tick returns at once.
Tick ==
  /\ batch = <<>> /\ sending = 0
  /\ PendingOutbox # <<>>
  /\ batch' = PendingOutbox
  /\ UNCHANGED <<ledgerVars, outbox, configured, sending, digest, bounds>>

Current == Head(batch)

AtRow == batch # <<>> /\ sending = 0

Advance == batch' = Tail(batch)

\* No channel: the row waits and its attempts do not grow.  A receipt goes to
\* a ticket thread, and a thread that is gone counts as a failure.
SkipRow ==
  /\ AtRow
  /\ ~HasChannel(outbox[Current].kind)
  /\ outbox' = IF outbox[Current].kind = "original_role_ticket_receipt"
               THEN [outbox EXCEPT ![Current].attempts = @ + 1]
               ELSE outbox
  /\ Advance
  /\ UNCHANGED <<ledgerVars, configured, sending, digest, bounds>>

\* A small payment is marked delivered when it enters the digest in memory.
CollectRow ==
  /\ AtRow
  /\ Digestible(Current)
  /\ HasChannel("audit_log")
  /\ digest' = digest \union {Current}
  /\ outbox' = [outbox EXCEPT ![Current].delivered = TRUE]
  /\ Advance
  /\ UNCHANGED <<ledgerVars, configured, sending, bounds>>

SendRow ==
  /\ AtRow
  /\ ~Digestible(Current)
  /\ HasChannel(outbox[Current].kind)
  /\ sending' = Current
  /\ Advance
  /\ UNCHANGED <<ledgerVars, outbox, configured, digest, bounds>>

\* The message of the row being sent appears in the channel.
MessageAppears ==
  /\ sending # 0 /\ ~outbox[sending].posted
  /\ outbox' = [outbox EXCEPT ![sending].posted = TRUE]
  /\ UNCHANGED <<ledgerVars, configured, workerVars, bounds>>

MarkOutboxDeliveredEarly ==      \* mutant: marked before send() resolves
  /\ sending # 0
  /\ outbox' = [outbox EXCEPT ![sending].delivered = TRUE]
  /\ sending' = 0
  /\ UNCHANGED <<ledgerVars, configured, batch, digest, bounds>>

\* send() resolves: the message is there.
MarkOutboxDelivered ==
  /\ sending # 0 /\ outbox[sending].posted
  /\ outbox' = [outbox EXCEPT ![sending].delivered = TRUE]
  /\ sending' = 0
  /\ UNCHANGED <<ledgerVars, configured, batch, digest, bounds>>

\* send() rejects, whether or not the message appeared.
IncrementOutboxAttempts ==
  /\ sending # 0
  /\ outbox' = [outbox EXCEPT ![sending].attempts = @ + 1]
  /\ sending' = 0
  /\ UNCHANGED <<ledgerVars, configured, batch, digest, bounds>>

\* The digest goes out when it is ten minutes old or full, which
\* is a choice here; a failed send keeps the items (no step).
FlushAuditDigest ==
  /\ digest # {} /\ sending = 0
  /\ HasChannel("audit_log")
  /\ outbox' = [i \in Id |-> [outbox[i] EXCEPT !.posted = @ \/ i \in digest]]
  /\ digest' = {}
  /\ UNCHANGED <<ledgerVars, configured, batch, sending, bounds>>

\* The process dies; the rows stay, what was in memory does not.
Restart ==
  /\ restarts + changes < MaxDisturbed
  /\ restarts' = restarts + 1
  /\ batch' = <<>> /\ sending' = 0 /\ digest' = {}
  /\ UNCHANGED <<ledgerVars, outbox, configured, changes>>

OutboxInit ==
  /\ LedgerInit
  /\ outbox = <<>>
  /\ configured \in [Channel -> {"unset", "set"}]
  /\ batch = <<>> /\ sending = 0 /\ digest = {}
  /\ restarts = 0 /\ changes = 0

LedgerOnly == UNCHANGED <<outbox, configured, workerVars, bounds>>

OutboxNext ==
  \/ \E r \in Request : TransferNotified(r)
  \/ \E t \in transactions : ReverseNotified(t)
  \/ \E a \in Account : EnsureAccount(a) /\ LedgerOnly
  \/ \E a \in Freezable, s \in {"active", "frozen"} :
       SetAccountStatus(a, s) /\ LedgerOnly
  \/ \E kind \in OtherNotice : Announce(kind)
  \/ \E c \in Channel, s \in {"lost", "set"} : Configure(c, s)
  \/ Tick \/ SkipRow \/ CollectRow \/ SendRow
  \/ MessageAppears \/ MarkOutboxDelivered \/ IncrementOutboxAttempts
  \/ FlushAuditDigest
  \/ Restart

OutboxSpec == OutboxInit /\ [][OutboxNext]_outboxVars

\* setInterval runs the tick for ever, the loop goes on to the next row, and a
\* request to Discord is answered or fails.
WorkerFairness ==
  /\ WF_outboxVars(Tick)
  /\ WF_outboxVars(SkipRow \/ CollectRow \/ SendRow)
  /\ WF_outboxVars(MarkOutboxDelivered \/ IncrementOutboxAttempts)
  /\ WF_outboxVars(FlushAuditDigest)

FairOutboxSpec == OutboxSpec /\ WorkerFairness

-----------------------------------------------------------------------------
\* The state is well formed.
OutboxTypeOK ==
  /\ LedgerTypeOK
  /\ outbox \in Seq([kind : OtherNotice \union {"audit_log", "public_log"},
                      type : TxType \union {"event"}, attempts : 0..MaxAttempts,
                      delivered : BOOLEAN, posted : BOOLEAN])
  /\ configured \in [Channel -> {"unset", "lost", "set"}]
  /\ batch \in Seq(Id) /\ sending \in {0} \union Id /\ digest \subseteq Id
  /\ restarts \in 0..MaxDisturbed /\ changes \in 0..MaxDisturbed

\* A row is only taken off the queue when its message is in Discord, or waits
\* in the digest; the one way to lose a message is a restart between the
\* collection and the digest (the markOutboxDelivered of the digest branch).
LostOnlyWithTheDigest ==
  \A i \in Id :
    outbox[i].delivered /\ ~outbox[i].posted
      => Digestible(i) /\ (i \in digest \/ restarts > 0)

\* The comment at startOutboxWorker: what cannot be delivered stays in the
\* table and is tried again.
UndeliveredStays ==
  \A i \in Id : outbox[i].delivered => outbox[i].posted \/ i \in digest

\* Rows without a channel ahead of row i fill the whole LIMIT of the tick.
Clogged(i) ==
  Limit =< Cardinality({j \in Pending : j < i /\ ~HasChannel(outbox[j].kind)})

\* The worker always catches up with what it could deliver: a row is in the
\* end delivered or given up, unless its channel is not set or older rows
\* without a channel occupy the tick.  (service.ts: rows are given up after ten
\* failures "to prevent clogging".)
Waiting == {i \in Pending : HasChannel(outbox[i].kind) /\ ~Clogged(i)}

WorkerCatchesUp == []<>(Waiting = {})
=============================================================================
