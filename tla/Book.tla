-------------------------------- MODULE Book --------------------------------
(***************************************************************************)
(* What the cashbook promises its users, with no transaction, lock or      *)
(* ledger in sight: money is received, spent on an expense, an expense is  *)
(* amended or cancelled, each in one step, and the balances always say     *)
(* exactly what is left.                                                   *)
(***************************************************************************)
EXTENDS Allocation

CONSTANTS
  ExpenseIds,      \* every expense there may ever be
  Existing,        \* the expenses on record at the start
  None,            \* the absence of an expense
  OpeningBalance,  \* what each pot holds at the start
  OpeningExpense   \* how each existing expense was divided

VARIABLES
  balance,   \* the three balances
  expense    \* the division of every expense on record, or None

bookVars == <<balance, expense>>

BookInit ==
  /\ balance = Entries(OpeningBalance)
  /\ expense = [e \in ExpenseIds |-> IF e \in Existing THEN OpeningExpense ELSE None]

\* Replace what expense e costs, old being given back and new taken.
Settle(e, old, new) ==
  /\ balance' = Plus(balance, Minus(Entries(old), Entries(new)))
  /\ \A b \in Books : balance'[b] >= 0

Receive ==
  \E pot \in Pots :
    /\ balance'[pot] > balance[pot]
    /\ balance' = LET amount == balance'[pot] - balance[pot]
                  IN  Plus(balance, Entries([t \in Pots |-> IF t = pot THEN amount ELSE 0]))
    /\ UNCHANGED expense

Spend(e) ==
  /\ expense[e] = None
  /\ expense'[e] # None
  /\ expense' = [expense EXCEPT ![e] = expense'[e]]
  /\ SumOf(expense'[e]) > 0
  /\ Settle(e, Nothing, expense'[e])

Amend(e) ==
  /\ expense[e] # None
  /\ expense'[e] # None
  /\ expense' = [expense EXCEPT ![e] = expense'[e]]
  /\ SumOf(expense'[e]) > 0
  /\ Settle(e, expense[e], expense'[e])

Cancel(e) ==
  /\ expense[e] # None
  /\ expense' = [expense EXCEPT ![e] = None]
  /\ Settle(e, expense[e], Nothing)

BookNext == Receive \/ \E e \in ExpenseIds : Spend(e) \/ Amend(e) \/ Cancel(e)

BookSpec == BookInit /\ [][BookNext]_bookVars

=============================================================================
