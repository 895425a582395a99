----------------------------- MODULE MCTreasury -----------------------------
(***************************************************************************)
(* The bank and what is built on it, for TLC: the notices of its transfers *)
(* with the worker that posts them, salaries, and boost rewards.  The      *)
(* three share the ledger but neither reads nor locks what another writes  *)
(* (their keys differ, the treasury has no limit), so a behaviour follows  *)
(* one of them.                                                            *)
(***************************************************************************)
EXTENDS Outbox, Payroll, Boost

CONSTANT Parts   \* the parts explored: "notices", "salaries", "boosts"

VARIABLE part

MCAccount == {"treasury", "ann", "bob"}
MCKind == [a \in MCAccount |-> IF a = "treasury" THEN "system" ELSE "user"]
MCMinor == {"bob"}

\* Keys are used twice with different contents; one amount needs an approval
\* it lacks, one is more than its payer has, one type is closed to minors.
MCPay(key, from, to, amount, type, approved) ==
  [key |-> key, from |-> from, to |-> to, amount |-> amount, type |-> type,
   approved |-> approved]
MCRequest ==
  {MCPay(<<"other", 1>>, "treasury", "ann", 2, "adjust", FALSE),
   MCPay(<<"other", 2>>, "ann", "bob", 1, "transfer", FALSE),
   MCPay(<<"other", 2>>, "ann", "bob", 3, "transfer", TRUE),
   MCPay(<<"other", 3>>, "treasury", "bob", 1, "initial", FALSE),
   MCPay(<<"other", 3>>, "treasury", "bob", 3, "initial", FALSE),
   MCPay(<<"other", 4>>, "bob", "treasury", 1, "chip_deposit", TRUE)}
MCKey == {<<"other", k>> : k \in 1..4}
           \union {<<"salary", p, u>> : p \in Period, u \in Employee}
           \union {<<"boost", e>> : e \in 1..MaxBoosts}

MCChannel == {"audit_log", "public_log"}
MCOther == {"original_role_ticket_receipt"}

\* Three boosts of one user in one month, one of another, one a month later.
MCAuthor == [e \in 1..MaxBoosts |-> IF e = 3 THEN "bob" ELSE "ann"]
MCMonth == [e \in 1..MaxBoosts |-> IF e = 5 THEN 2 ELSE 1]

noticesOnly == <<outbox, configured, workerVars, bounds>>
salaryOnly == <<tableVars, runs, panels, runVars, edits, crashes>>
boostOnly == <<now, wire, durable, phase, memory, boostBounds>>
treasuryVars == <<ledgerVars, noticesOnly, salaryOnly, boostOnly, part>>

TreasuryInit ==
  /\ OutboxInit /\ PayrollInit /\ BoostInit /\ part \in Parts
  /\ part # "notices" => configured = [c \in Channel |-> "unset"]

TreasuryNext ==
  /\ UNCHANGED part
  /\ \/ part = "notices" /\ OutboxNext /\ UNCHANGED <<salaryOnly, boostOnly>>
     \/ part = "salaries" /\ PayrollNext /\ UNCHANGED <<noticesOnly, boostOnly>>
     \/ part = "boosts" /\ BoostNext /\ UNCHANGED <<noticesOnly, salaryOnly>>

TreasurySpec == TreasuryInit /\ [][TreasuryNext]_treasuryVars
FairTreasurySpec == TreasurySpec /\ WorkerFairness
=============================================================================
