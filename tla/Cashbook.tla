------------------------------ MODULE Cashbook ------------------------------
(***************************************************************************)
(* The cashbook and the expenses, as concurrent requests reach them.  Each *)
(* request is one PostgreSQL transaction at READ COMMITTED: it reads what  *)
(* is committed, locks a row by updating it or by SELECT ... FOR UPDATE,   *)
(* keeps its writes to itself until it commits, and loses all of them when *)
(* it is rolled back.  One action is one statement, or a group of          *)
(* statements that no other request can come between because every row     *)
(* they touch is locked.                                                   *)
(*                                                                         *)
(* cashbook_transactions is kept as the sums the code reads from it: for   *)
(* each expense the signed sum of its rows and its latest active row, for  *)
(* the whole table the sum of the rows, and the "after" columns of the row *)
(* written last.                                                           *)
(***************************************************************************)
EXTENDS Allocation

CONSTANTS
  Requests,        \* the requests, each running one operation once
  Existing,        \* expenses on record at the start
  None,            \* no request, no expense, no row
  Amounts,         \* the amounts a request may name
  OpeningBalance,  \* what each pot holds at the start
  OpeningExpense,  \* how each existing expense was divided
  Overlapping      \* the operations that the clients run on an expense while
                   \* another of these works on it; the others they run alone
                   \* (nothing in the code makes them)

\* The operations: receive an income; create an expense; change its amount;
\* change only its date; delete it.
AllKinds == {"income", "create", "amend", "redate", "delete"}

\* An expense created by a request goes by the request's own name: its uuid.
ExpenseIds == Existing \cup Requests

ASSUME CashbookAssumption ==
  /\ None \notin Requests \cup Existing \cup Books \cup Split
  /\ Requests \cap Books = {} /\ Existing \cap Books = {} /\ Existing \cap Requests = {}
  /\ Amounts \subseteq Nat \ {0}
  /\ OpeningBalance \in Split
  /\ OpeningExpense \in Split /\ SumOf(OpeningExpense) > 0
  /\ Overlapping \subseteq AllKinds

\* The rows a transaction locks.
Rows == Books \cup ExpenseIds

VARIABLES
  balance,    \* cashbook_balances, as committed
  expense,    \* the amounts of each expense row as committed, or None
  ledgerNet,  \* per expense, the sum of its ledger rows: in minus out
  ledgerTop,  \* per expense, the amounts of its latest active row, or None
  ledgerSum,  \* opening balance plus the sum of all ledger rows in force
  lastAfter,  \* the "after" columns of the ledger row written last
  owner,      \* who holds each row's lock, or None
  pc,         \* the statement each request is about to run
  job,        \* what each request was asked to do
  seen,       \* the expense as each request read it before its transaction
  debit,      \* what each request takes out of each pot
  credit,     \* what each request puts into each pot
  snap,       \* the balances each request read under its locks
  delta       \* each request's uncommitted change to each balance

ledger == <<ledgerNet, ledgerTop, ledgerSum, lastAfter>>
committed == <<balance, expense, ledger>>
locals == <<job, seen, debit, credit, snap>>
vars == <<committed, owner, pc, locals, delta>>

Job == {j \in [kind: AllKinds, expense: ExpenseIds \cup {None},
               amount: Amounts \cup {0}, source: Sources] :
          j.kind # "income" => j.expense \in ExpenseIds}

Idle == [kind |-> "income", expense |-> None, amount |-> 0, source |-> "auto"]

Init ==
  /\ balance = Entries(OpeningBalance)
  /\ expense = [e \in ExpenseIds |-> IF e \in Existing THEN OpeningExpense ELSE None]
  /\ ledgerNet = [e \in ExpenseIds |->
                    IF e \in Existing THEN Minus(Nothing, OpeningExpense) ELSE Nothing]
  /\ ledgerTop = expense
  /\ ledgerSum = OpeningBalance
  /\ lastAfter = balance
  /\ owner = [r \in Rows |-> None]
  /\ pc = [p \in Requests |-> "idle"]
  /\ job = [p \in Requests |-> Idle]
  /\ seen = [p \in Requests |-> Nothing]
  /\ debit = [p \in Requests |-> Nothing]
  /\ credit = [p \in Requests |-> Nothing]
  /\ snap = [p \in Requests |-> Entries(Nothing)]
  /\ delta = [p \in Requests |-> Entries(Nothing)]

-----------------------------------------------------------------------------
(* What a transaction sees, and what it is waiting for. *)

InTransaction(p) == pc[p] \notin {"idle", "committed", "rolledBack"}

\* The balances as request p's own statements read them.
View(p) == Plus(balance, delta[p])

Target(p) == job[p].expense

\* p's net effect on the balances.
Effect(p) == Entries(Minus(credit[p], debit[p]))

\* The balance adjustBalance is about to change.
Adjusting(p) == CASE pc[p] = "adjustShu"     -> "shu"
                  [] pc[p] = "adjustCapital" -> "capital"
                  [] OTHER                   -> "total"

Adjustments == {"adjustShu", "adjustCapital", "adjustTotal"}

\* The statement after adjustBalance.  The mutant forgets the capital.
AfterAdjustingForgetful(p) == IF pc[p] = "adjustShu" THEN "adjustTotal" ELSE "removeRow"
AfterAdjusting(p) == CASE pc[p] = "adjustShu"     -> "adjustCapital"
                       [] pc[p] = "adjustCapital" -> "adjustTotal"
                       [] OTHER                   -> "removeRow"

\* The locks p's current statement has yet to obtain.  FOR UPDATE locks the
\* balances in the order the scan meets them, which changes as rows are updated.
\* The mutants read the snapshot, and the balances to be divided, without FOR UPDATE.
WantedUnlocked(p) ==
  {r \in Rows :
     \/ pc[p] = "allocate" /\ r \in Pots /\ owner[r] # p
     \/ pc[p] \in Adjustments /\ r = Adjusting(p) /\ Entries(credit[p])[r] # 0
     \/ pc[p] \in {"updateRow", "removeRow"} /\ r = Target(p) /\ expense[r] # None}
WantedLate(p) ==
  {r \in Rows :
     \/ pc[p] = "lockAll" /\ r \in Books /\ owner[r] # p
     \/ pc[p] \in Adjustments /\ r = Adjusting(p) /\ Entries(credit[p])[r] # 0
     \/ pc[p] \in {"updateRow", "removeRow"} /\ r = Target(p) /\ expense[r] # None}
Wanted(p) ==
  {r \in Rows :
     \/ pc[p] = "allocate" /\ r \in Pots /\ owner[r] # p
     \/ pc[p] = "lockAll" /\ r \in Books /\ owner[r] # p
     \/ pc[p] \in Adjustments /\ r = Adjusting(p) /\ Entries(credit[p])[r] # 0
     \/ pc[p] \in {"updateRow", "removeRow"} /\ r = Target(p) /\ expense[r] # None}

Goto(p, l) == pc' = [pc EXCEPT ![p] = l]

Lock(p, rows) == owner' = [r \in Rows |-> IF r \in rows THEN p ELSE owner[r]]

\* Every row in the set is free for p to lock.
Free(rows) == \A r \in rows : owner[r] = None

-----------------------------------------------------------------------------
(* The requests begin. *)

Begin(p, j, first) ==
  /\ pc[p] = "idle"
  /\ job' = [job EXCEPT ![p] = j]
  /\ Goto(p, first)

\* An income is recorded and posted to the pot it belongs to (createIncome, then
\* createIncomeTransaction, in the transaction of the caller).
ReceiveIncome(p) ==
  /\ \E pot \in Pots, a \in Amounts :
       /\ Begin(p, [Idle EXCEPT !.amount = a, !.source = pot], "lockAll")
       /\ credit' = [credit EXCEPT ![p] = [t \in Pots |-> IF t = pot THEN a ELSE 0]]
  /\ UNCHANGED <<committed, owner, seen, debit, snap, delta>>

CreateExpense(p) ==
  /\ \E a \in Amounts, s \in Sources :
       Begin(p, [kind |-> "create", expense |-> p, amount |-> a, source |-> s], "allocate")
  /\ UNCHANGED <<committed, owner, seen, debit, credit, snap, delta>>

\* Expense e is on record, and whoever works on it admits an operation of the kind.
Reachable(e, kind) ==
  /\ expense[e] # None
  /\ \A q \in Requests :
       InTransaction(q) /\ Target(q) = e => {kind, job[q].kind} \subseteq Overlapping

\* updateExpense reads the expense before its transaction begins and goes on
\* using what it read.
UpdateExpense(p) ==
  /\ \E e \in ExpenseIds :
       /\ seen' = [seen EXCEPT ![p] = expense[e]]
       /\ \/ /\ Reachable(e, "amend")
             /\ \E a \in Amounts, s \in Sources :
                  Begin(p, [kind |-> "amend", expense |-> e, amount |-> a, source |-> s],
                        "allocate")
          \/ /\ Reachable(e, "redate")
             /\ Begin(p, [Idle EXCEPT !.kind = "redate", !.expense = e], "updateRow")
  /\ UNCHANGED <<committed, owner, debit, credit, snap, delta>>

DeleteExpense(p) ==
  /\ \E e \in ExpenseIds :
       /\ Reachable(e, "delete")
       /\ Begin(p, [Idle EXCEPT !.kind = "delete", !.expense = e], "sumRows")
  /\ UNCHANGED <<committed, owner, seen, debit, credit, snap, delta>>

-----------------------------------------------------------------------------
(* Their statements. *)

\* SELECT ... FOR UPDATE on the balances obtains one row lock.
LockBalance(p) ==
  /\ pc[p] \in {"allocate", "lockAll"}
  /\ \E b \in Wanted(p) : Free({b}) /\ Lock(p, {b})
  /\ UNCHANGED <<committed, pc, locals, delta>>

\* An amended expense gives back what updateExpense saw of it.
Available(p) ==
  [t \in Pots |-> View(p)[t] + IF job[p].kind = "amend" THEN seen[p][t] ELSE 0]

\* allocateAmounts divides the amount, both balances being locked.
Allocate(p) ==
  /\ pc[p] = "allocate" /\ Wanted(p) = {}
  /\ Affordable(job[p].source, job[p].amount, Available(p))
  /\ debit' = [debit EXCEPT ![p] =
                 AllocateAmounts(job[p].source, job[p].amount, Available(p))]
  /\ Goto(p, IF job[p].kind = "create" THEN "lockAll" ELSE "updateRow")
  /\ UNCHANGED <<committed, owner, job, seen, credit, snap, delta>>

\* The ledger row to be reversed, from findLatestActiveByExpenseId.  The mutant
\* reverses the expense as it was first read.
ReversedFromSeen(p) == seen[p]
Reversed(p) == ledgerTop[Target(p)]

\* updateExpenseById locks the expense row, and the row to be reversed is read.
\* An update of the date alone keeps the amounts it saw.
UpdateRow(p) ==
  /\ pc[p] = "updateRow"
  /\ Wanted(p) # {} /\ Free(Wanted(p)) /\ Lock(p, Wanted(p))
  /\ Reversed(p) # None
  /\ credit' = [credit EXCEPT ![p] = Reversed(p)]
  /\ debit' = IF job[p].kind = "redate" THEN [debit EXCEPT ![p] = seen[p]] ELSE debit
  /\ Goto(p, "lockAll")
  /\ UNCHANGED <<committed, job, seen, snap, delta>>

\* The snapshot for the "before" and "after" columns.
ReadBalances(p) ==
  /\ pc[p] = "lockAll" /\ Wanted(p) = {}
  /\ snap' = [snap EXCEPT ![p] = View(p)]
  /\ Goto(p, "post")
  /\ UNCHANGED <<committed, owner, job, seen, debit, credit, delta>>

\* The guard of the trigger: what a row takes out is there.  The mutant has none.
CoveredAlways(p) == TRUE
Covered(p) == \A t \in Pots : debit[p][t] > 0 => View(p)[t] + credit[p][t] >= debit[p][t]

\* The ledger rows are inserted, and the trigger moves the balances: the income,
\* the expense, or the reversal of the old row followed by the new one.
Post(p) ==
  /\ pc[p] = "post"
  /\ Covered(p)
  /\ delta' = [delta EXCEPT ![p] = Plus(@, Effect(p))]
  /\ Goto(p, "commit")
  /\ UNCHANGED <<committed, owner, locals>>

\* deleteExpenseTransaction adds up the expense's rows without locking any.
SumRows(p) ==
  /\ pc[p] = "sumRows"
  /\ credit' = [credit EXCEPT ![p] = Minus(Nothing, ledgerNet[Target(p)])]
  /\ Goto(p, "adjustShu")
  /\ UNCHANGED <<committed, owner, job, seen, debit, snap, delta>>

\* adjustBalance, one balance after the other, those with nothing to add skipped.
AdjustBalance(p) ==
  /\ pc[p] \in Adjustments
  /\ Free(Wanted(p)) /\ Lock(p, Wanted(p))
  /\ delta' = [delta EXCEPT ![p][Adjusting(p)] = @ + Entries(credit[p])[Adjusting(p)]]
  /\ View(p)[Adjusting(p)] + Entries(credit[p])[Adjusting(p)] >= 0
  /\ Goto(p, AfterAdjusting(p))
  /\ UNCHANGED <<committed, locals>>

\* softDeleteByExpenseId and deleteExpenseById; a row that is gone is no error.
RemoveRow(p) ==
  /\ pc[p] = "removeRow"
  /\ Free(Wanted(p)) /\ Lock(p, Wanted(p))
  /\ Goto(p, "commit")
  /\ UNCHANGED <<committed, locals, delta>>

-----------------------------------------------------------------------------
(* The requests end. *)

\* The locks without p's.
Unlocked(p) == [r \in Rows |-> IF owner[r] = p THEN None ELSE owner[r]]

\* The transaction is over: its locks are released, its writes are either in
\* place or forgotten, and what the request kept for itself is gone.
Finish(p, outcome) ==
  /\ Goto(p, outcome)
  /\ owner' = Unlocked(p)
  /\ job' = [job EXCEPT ![p] = Idle]
  /\ seen' = [seen EXCEPT ![p] = Nothing]
  /\ debit' = [debit EXCEPT ![p] = Nothing]
  /\ credit' = [credit EXCEPT ![p] = Nothing]
  /\ snap' = [snap EXCEPT ![p] = Entries(Nothing)]
  /\ delta' = [delta EXCEPT ![p] = Entries(Nothing)]

\* The row of p's expense: written, kept by an update of the date alone, or gone.
\* The mutant keeps a deleted expense's row.
RowAfterUndeleted(p) ==
  IF job[p].kind \in {"create", "amend"} THEN debit[p] ELSE expense[Target(p)]
RowAfter(p) == CASE job[p].kind = "redate" -> expense[Target(p)]
                 [] job[p].kind = "delete" -> None
                 [] OTHER                  -> debit[p]

Commit(p) ==
  /\ pc[p] = "commit" /\ job[p].kind # "delete"
  /\ balance' = View(p)
  /\ ledgerSum' = Plus(ledgerSum, Minus(credit[p], debit[p]))
  /\ lastAfter' = Plus(snap[p], Effect(p))
  /\ IF job[p].kind = "income"
       THEN UNCHANGED <<expense, ledgerTop, ledgerNet>>
       ELSE /\ expense' = [expense EXCEPT ![Target(p)] = RowAfter(p)]
            /\ ledgerTop' = [ledgerTop EXCEPT ![Target(p)] = debit[p]]
            /\ ledgerNet' = [ledgerNet EXCEPT ![Target(p)] =
                               Plus(@, Minus(credit[p], debit[p]))]
  /\ Finish(p, "committed")

\* The rows that softDeleteByExpenseId takes out of the ledger.  The mutant takes
\* none.
RemovedNone(p) == Nothing
Removed(p) == ledgerNet[Target(p)]

\* The deleted expense's rows leave the ledger, orphaned by the foreign key too.
CommitDelete(p) ==
  /\ pc[p] = "commit" /\ job[p].kind = "delete"
  /\ balance' = View(p)
  /\ ledgerSum' = Minus(ledgerSum, Removed(p))
  /\ ledgerNet' = [ledgerNet EXCEPT ![Target(p)] = Nothing]
  /\ ledgerTop' = [ledgerTop EXCEPT ![Target(p)] = None]
  /\ expense' = [expense EXCEPT ![Target(p)] = RowAfter(p)]
  /\ UNCHANGED lastAfter
  /\ Finish(p, "committed")

\* A statement that must raise: insufficient funds, no ledger row left to amend,
\* the trigger's guard.  The mutant does not raise when funds are insufficient.
DoomedPatient(p) ==
  \/ pc[p] = "updateRow" /\ expense[Target(p)] = None
  \/ pc[p] = "post" /\ ~Covered(p)
Doomed(p) ==
  \/ /\ pc[p] = "allocate" /\ Wanted(p) = {}
     /\ ~Affordable(job[p].source, job[p].amount, Available(p))
  \/ pc[p] = "updateRow" /\ expense[Target(p)] = None
  \/ pc[p] = "post" /\ ~Covered(p)

Fail(p) == Doomed(p) /\ Finish(p, "rolledBack") /\ UNCHANGED committed

\* The transaction is lost at any point: the connection, the process or a
\* statement fails.
Crash(p) == InTransaction(p) /\ Finish(p, "rolledBack") /\ UNCHANGED committed

\* p waits for a lock that others hold.
Blocked(p) == \E r \in Wanted(p) : owner[r] \notin {None, p}

\* p belongs to a set of requests each of which waits only for the others.
Deadlocked(p) ==
  \E S \in SUBSET Requests :
    /\ p \in S
    /\ \A q \in S : Blocked(q) /\ \A r \in Wanted(q) : owner[r] \in S

\* PostgreSQL's deadlock detector cancels a transaction of the cycle.
BreakDeadlock(p) ==
  Deadlocked(p) /\ Finish(p, "rolledBack") /\ UNCHANGED committed

-----------------------------------------------------------------------------
Progress(p) ==
  \/ LockBalance(p) \/ Allocate(p) \/ UpdateRow(p) \/ ReadBalances(p) \/ Post(p)
  \/ SumRows(p) \/ AdjustBalance(p) \/ RemoveRow(p)
  \/ Commit(p) \/ CommitDelete(p) \/ Fail(p) \/ BreakDeadlock(p)

Step(p) ==
  \/ ReceiveIncome(p) \/ CreateExpense(p) \/ UpdateExpense(p) \/ DeleteExpense(p)
  \/ Progress(p) \/ Crash(p)

\* Every request has ended, or none was ever made.
Quiet == (\A p \in Requests : ~InTransaction(p)) /\ UNCHANGED vars

Next == Quiet \/ \E p \in Requests : Step(p)

Spec == Init /\ [][Next]_vars

\* The database goes on with a transaction whose statement can run; a request
\* need never be made, and nothing need ever crash.
Fairness == \A p \in Requests : WF_vars(Progress(p))

FairSpec == Spec /\ Fairness

-----------------------------------------------------------------------------
(* Types. *)

Signed(S) == [S -> Int]

\* Every variable has its type.
TypeOK ==
  /\ balance \in Signed(Books)
  /\ expense \in [ExpenseIds -> Split \cup {None}]
  /\ ledgerNet \in [ExpenseIds -> Signed(Pots)]
  /\ ledgerTop \in [ExpenseIds -> Split \cup {None}]
  /\ ledgerSum \in Signed(Pots)
  /\ lastAfter \in Signed(Books)
  /\ owner \in [Rows -> Requests \cup {None}]
  /\ pc \in [Requests -> {"idle", "allocate", "updateRow", "lockAll", "post", "sumRows",
                          "adjustShu", "adjustCapital", "adjustTotal", "removeRow",
                          "commit", "committed", "rolledBack"}]
  /\ job \in [Requests -> Job]
  /\ seen \in [Requests -> Split]
  /\ debit \in [Requests -> Split]
  /\ credit \in [Requests -> Signed(Pots)]
  /\ snap \in [Requests -> Signed(Books)]
  /\ delta \in [Requests -> Signed(Books)]

-----------------------------------------------------------------------------
(* Safety. *)

\* The total balance is the sum of the other two, whatever requests race, crash
\* or deadlock, although every operation updates the three rows one by one
\* (cashbook_insert_balance, adjustBalance).
TotalIsSum == balance["total"] = balance["shu"] + balance["capital"]

\* No balance is ever negative: allocateAmounts, the trigger's guard and the CHECK
\* of cashbook_balances see to it under every interleaving.
NonNegative == \A b \in Books : balance[b] >= 0

\* The balances are what the ledger rows in force add up to: nothing is credited
\* or debited twice, or without a row.
BalanceMatchesLedger == balance = Entries(ledgerSum)

\* An expense costs what its latest ledger row says, its older rows cancel out,
\* and an expense that is gone has no row left.
LedgerMatchesExpenses ==
  \A e \in ExpenseIds :
    /\ ledgerTop[e] = expense[e]
    /\ ledgerNet[e] = IF expense[e] = None THEN Nothing ELSE Minus(Nothing, expense[e])

\* The "after" columns of a ledger row are the balances when it is committed: a
\* snapshot is never computed from balances that change before the row is written
\* (lockAllForUpdate, then the insert and its trigger).
SnapshotsAreTrue ==
  [][\A p \in Requests :
       pc[p] = "commit" /\ pc'[p] = "committed" /\ job[p].kind # "delete"
       => lastAfter' = balance']_vars

\* An expense that may draw on both pots takes surplus only when it leaves no capital
\* behind: what was divided under the locks of the pots is still so when the rows are
\* committed, whatever else is received or paid meanwhile (allocateAmounts, Post).  Not so
\* an amendment that gives back a cost which another has replaced since it was read.  The
\* code decides what is meant here: data-flow-diagram.md has auto take surplus first (129)
\* and total split proportionally (132).
CapitalFirst ==
  [][\A p \in Requests :
       /\ pc[p] = "commit" /\ pc'[p] = "committed"
       /\ job[p].source \in {"auto", "total"} /\ debit[p]["shu"] > 0
       /\ job[p].kind = "create" \/ (job[p].kind = "amend" /\ seen[p] = credit[p])
       => balance'["capital"] = 0]_vars

-----------------------------------------------------------------------------
(* Refinement and liveness. *)

Promise == INSTANCE Book

\* The transactions, interleaved statement by statement, behave like the one-step
\* operations of Book.
ImplementsBook == Promise!BookSpec

\* Every transaction ends, deadlocks between balances and expense rows included.
EveryRequestEnds == \A p \in Requests : InTransaction(p) ~> ~InTransaction(p)

=============================================================================
