------------------------------- MODULE Payroll -------------------------------
(***************************************************************************)
(* Salaries: the salary table, the monthly run (draft, approved, executed, *)
(* cancelled) of packages/core/src/payroll and the panels of the bot that  *)
(* approve, retry and cancel it.  A run pays one person at a time, each in *)
(* a database transaction of its own, and the process may die between two. *)
(* The program is single threaded: nothing else happens while it pays.     *)
(***************************************************************************)
EXTENDS Ledger

CONSTANTS
  Employee,    \* users, named by their accounts
  Role,        \* Discord roles that may carry a salary
  Salary,      \* amounts an operator enters, 0 for none
  Period,      \* months, as numbers
  MaxEdits,    \* bound: edits of the table, roles and accounts
  MaxCrashes   \* bound: crashes

ASSUME PayrollAssumption ==
  /\ Employee \subseteq Account \ {Treasury}
  /\ Salary \subseteq Nat
  /\ Period \subseteq Nat \ {0}
  /\ IsFiniteSet(Role)
  /\ \A p \in Period, u \in Employee : <<"salary", p, u>> \in Key

VARIABLES
  salaryTable,   \* role |-> amount, 0 when it has no row
  memberRoles,   \* employee |-> roles on Discord
  runs,          \* period |-> the row of payout_runs
  panels,        \* messages with buttons: the period and the plan they show
  executing,     \* the period being paid, or 0
  todo, failed,  \* of that execution: still to pay, refused
  edits, crashes

runVars == <<executing, todo, failed>>
tableVars == <<salaryTable, memberRoles>>
payrollVars ==
  <<ledgerVars, tableVars, runs, panels, runVars, edits, crashes>>

Idle == executing = 0

NoPlan == [u \in Employee |-> 0]

\* A person with several paid roles gets all of them.
CurrentPlan ==
  [u \in Employee |->
     MapThenSumSet(LAMBDA r : salaryTable[r], memberRoles[u])]

Planned(p) == {u \in Employee : runs[p].plan[u] > 0}

\* Runs that still need somebody: an executed one only if somebody failed.
ListRecoverableRuns ==
  {p \in Period : \/ runs[p].status \in {"draft", "approved"}
                  \/ runs[p].status = "executed" /\ runs[p].failed # {}}

OlderRecoverable(p) == \E q \in ListRecoverableRuns : q < p

-----------------------------------------------------------------------------
Edit == Idle /\ edits < MaxEdits /\ edits' = edits + 1

SetSalary(r, n) ==
  /\ Edit
  /\ n # salaryTable[r] /\ n > 0
  /\ salaryTable' = [salaryTable EXCEPT ![r] = n]
  /\ UNCHANGED <<ledgerVars, memberRoles, runs, panels, runVars, crashes>>

RemoveSalary(r) ==
  /\ Edit
  /\ salaryTable[r] # 0
  /\ salaryTable' = [salaryTable EXCEPT ![r] = 0]
  /\ UNCHANGED <<ledgerVars, memberRoles, runs, panels, runVars, crashes>>

\* On Discord; the bot reads the roles when it drafts.
ChangeRoles(u, roles) ==
  /\ Edit
  /\ memberRoles[u] # roles
  /\ memberRoles' = [memberRoles EXCEPT ![u] = roles]
  /\ UNCHANGED <<ledgerVars, salaryTable, runs, panels, runVars, crashes>>

FreezeEmployee(a, s) ==
  /\ Edit
  /\ SetAccountStatus(a, s)
  /\ UNCHANGED <<tableVars, runs, panels, runVars, crashes>>

RedraftableApproved(p) == runs[p].status # "executed"      \* mutant
Redraftable(p) == runs[p].status \in {"none", "draft"}

\* A draft is computed again as long as nobody approved or cancelled it.
GenerateDraft(p) ==
  /\ Idle
  /\ ~OlderRecoverable(p)
  /\ CurrentPlan # NoPlan
  /\ Redraftable(p)
  /\ runs' = [runs EXCEPT ![p].status = "draft", ![p].plan = CurrentPlan]
  /\ UNCHANGED <<ledgerVars, tableVars, runVars, edits, crashes>>

Panel(p, plan) == [period |-> p, plan |-> plan]

\* The monthly draft: the send may fail once the draft is stored.
CreateAndPostDraft(p) ==
  /\ GenerateDraft(p)
  /\ \/ panels' = panels \union {Panel(p, CurrentPlan)}
     \/ UNCHANGED panels

\* The operator's preview shows the draft it has just stored; for a stored one
\* the recovery screen shows what is stored.
PreviewPayroll(p) ==
  /\ GenerateDraft(p)
  /\ panels' = panels \union {Panel(p, CurrentPlan)}

RecoveryPreview(p) ==
  /\ Idle
  /\ p \in ListRecoverableRuns
  /\ panels' = panels \union {Panel(p, runs[p].plan)}
  /\ UNCHANGED <<ledgerVars, tableVars, runs, runVars, edits, crashes>>

\* The button carries a hash of the plan it was made for.
UpToDate(panel) == runs[panel.period].plan = panel.plan

BeginExecuteAnyMonth(p) ==      \* mutant: does not look at older months
  /\ executing' = p
  /\ todo' = Planned(p)
  /\ failed' = {}
  /\ UNCHANGED <<ledgerVars, tableVars, panels, edits, crashes>>

BeginExecute(p) ==
  /\ ~OlderRecoverable(p)
  /\ executing' = p
  /\ todo' = Planned(p)
  /\ failed' = {}
  /\ UNCHANGED <<ledgerVars, tableVars, panels, edits, crashes>>

\* Approve and pay, from either panel; an approved run is taken up again.
PressOk(panel) ==
  /\ Idle
  /\ UpToDate(panel)
  /\ runs[panel.period].status \in {"draft", "approved"}
  /\ runs' = [runs EXCEPT ![panel.period].status = "approved"]
  /\ BeginExecute(panel.period)

RetryPayroll(p) ==
  /\ Idle
  /\ runs[p].status \in {"approved", "executed"}
  /\ BeginExecute(p)
  /\ UNCHANGED runs

CancelDraft(panel) ==
  /\ Idle
  /\ UpToDate(panel)
  /\ runs[panel.period].status = "draft"
  /\ runs' = [runs EXCEPT ![panel.period].status = "cancelled"]
  /\ UNCHANGED <<ledgerVars, tableVars, panels, runVars, edits, crashes>>

-----------------------------------------------------------------------------
SalaryRequest(p, u) ==
  [key |-> <<"salary", p, u>>, from |-> Treasury, to |-> u,
   amount |-> runs[p].plan[u], type |-> "salary", approved |-> TRUE]

OpenAccount(u) ==
  /\ u \in todo
  /\ EnsureAccount(u)
  /\ UNCHANGED <<tableVars, runs, panels, runVars, edits, crashes>>

\* Paid, paid before, or refused and noted: the loop goes on.
PaySalary(u) ==
  /\ u \in todo /\ status[u] # "absent"
  /\ todo' = todo \ {u}
  /\ LET r == SalaryRequest(executing, u)
     IN \/ Transfer(r) /\ UNCHANGED failed
        \/ Known(r.key) /\ UNCHANGED <<ledgerVars, failed>>
        \/ /\ ~Known(r.key) /\ ~Accepts(r)
           /\ failed' = failed \union {u}
           /\ UNCHANGED ledgerVars
  /\ UNCHANGED <<tableVars, runs, panels, executing, edits, crashes>>

FinishExecuteSilently ==      \* mutant: the report forgets the refusals
  /\ ~Idle /\ todo = {}
  /\ runs' = [runs EXCEPT ![executing].status = "executed",
                          ![executing].failed = {}]
  /\ executing' = 0 /\ failed' = {}
  /\ UNCHANGED <<ledgerVars, tableVars, panels, todo, edits, crashes>>

FinishExecute ==
  /\ ~Idle /\ todo = {}
  /\ runs' = [runs EXCEPT ![executing].status = "executed",
                          ![executing].failed = failed]
  /\ executing' = 0 /\ failed' = {}
  /\ UNCHANGED <<ledgerVars, tableVars, panels, todo, edits, crashes>>

Crash ==
  /\ ~Idle /\ crashes < MaxCrashes
  /\ crashes' = crashes + 1
  /\ executing' = 0 /\ todo' = {} /\ failed' = {}
  /\ UNCHANGED <<ledgerVars, tableVars, runs, panels, edits>>

PayrollInit ==
  /\ LedgerInit
  /\ salaryTable = [r \in Role |-> 0]
  /\ memberRoles = [u \in Employee |-> Role]
  /\ runs = [p \in Period |->
               [status |-> "none", plan |-> NoPlan, failed |-> {}]]
  /\ panels = {}
  /\ executing = 0 /\ todo = {} /\ failed = {}
  /\ edits = 0 /\ crashes = 0

PayrollNext ==
  \/ \E r \in Role, n \in Salary : SetSalary(r, n)
  \/ \E r \in Role : RemoveSalary(r)
  \/ \E u \in Employee, roles \in SUBSET Role : ChangeRoles(u, roles)
  \/ \E a \in Freezable, s \in {"active", "frozen"} : FreezeEmployee(a, s)
  \/ \E p \in Period : CreateAndPostDraft(p)
  \/ \E p \in Period : PreviewPayroll(p)
  \/ \E p \in Period : RecoveryPreview(p)
  \/ \E panel \in panels : PressOk(panel)
  \/ \E p \in Period : RetryPayroll(p)
  \/ \E panel \in panels : CancelDraft(panel)
  \/ \E u \in todo : OpenAccount(u)
  \/ \E u \in todo : PaySalary(u)
  \/ FinishExecute
  \/ Crash

PayrollSpec == PayrollInit /\ [][PayrollNext]_payrollVars

-----------------------------------------------------------------------------
Plan == [Employee -> Nat]

\* The state is well formed.
PayrollTypeOK ==
  /\ LedgerTypeOK
  /\ salaryTable \in [Role -> Nat]
  /\ memberRoles \in [Employee -> SUBSET Role]
  /\ runs \in [Period ->
       [status : {"none", "draft", "approved", "executed", "cancelled"},
        plan : Plan, failed : SUBSET Employee]]
  /\ panels \subseteq [period : Period, plan : Plan]
  /\ executing \in {0} \union Period
  /\ todo \subseteq Employee /\ failed \subseteq Employee
  /\ edits \in 0..MaxEdits /\ crashes \in 0..MaxCrashes

SalaryRows(p, u) == {t \in transactions : t.key = <<"salary", p, u>>}

\* Nobody is paid anything but what the approved plan of the month says, once,
\* whatever is edited, drafted again, cancelled or retried meanwhile: every
\* salary belongs to a run that is approved or executed, and has its amount.
NothingElseIsPaid ==
  \A p \in Period, u \in Employee :
    /\ Cardinality(SalaryRows(p, u)) =< 1
    /\ \A t \in SalaryRows(p, u) :
         /\ runs[p].status \in {"approved", "executed"}
         /\ t.to = u /\ t.amount = runs[p].plan[u]

\* The report of a finished run hides nobody: whoever is in the plan was paid
\* or is in the list of failures, after crashes and retries too.
ReportIsTrue ==
  \A p \in Period :
    runs[p].status = "executed"
      => \A u \in Planned(p) : SalaryRows(p, u) # {} \/ u \in runs[p].failed

\* What was approved is what is paid: nothing else, and nobody is forgotten.
PaidAsApproved == NothingElseIsPaid /\ ReportIsTrue

\* A month is never paid while an older one waits for a decision or a retry.
MonthsInOrder ==
  [][\A p \in Period, u \in Employee :
       SalaryRows(p, u) # SalaryRows(p, u)' => ~OlderRecoverable(p)]_payrollVars
=============================================================================
