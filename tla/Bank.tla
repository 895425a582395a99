-------------------------------- MODULE Bank --------------------------------
(***************************************************************************)
(* What the ledger promises the rest of the program, without any of its    *)
(* bookkeeping: a payment is known by its key, it moves money once, it is  *)
(* undone at most once and by exactly what it moved, and nobody but the    *)
(* treasury spends what it does not have.                                  *)
(***************************************************************************)
EXTENDS Integers

CONSTANTS
  Account,   \* the accounts
  Treasury   \* the one account that may owe

VARIABLES
  balance,   \* account |-> what it holds
  moved      \* the movements made so far

vars == <<balance, moved>>

Init ==
  /\ balance = [a \in Account |-> 0]
  /\ moved = {}

\* A movement carries the key of its payment and whether it undoes it.
Fresh(m) == \A n \in moved : <<n.key, n.reversal>> # <<m.key, m.reversal>>

Undoes(m) ==
  \E n \in moved :
    /\ n.key = m.key /\ ~n.reversal
    /\ n.from = m.to /\ n.to = m.from /\ n.amount = m.amount

Move(m) ==
  /\ Fresh(m)
  /\ m.reversal => Undoes(m)
  /\ m.amount > 0
  /\ m.from # m.to
  /\ m.from # Treasury => balance[m.from] >= m.amount
  /\ balance' = [balance EXCEPT ![m.from] = @ - m.amount, ![m.to] = @ + m.amount]
  /\ moved' = moved \union {m}

Next == \E m \in moved' : Move(m)

Spec == Init /\ [][Next]_vars
=============================================================================
