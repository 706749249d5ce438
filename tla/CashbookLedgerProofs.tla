------------------------ MODULE CashbookLedgerProofs ------------------------
(***************************************************************************)
(* The balances, the snapshots, the ledger, the division of an expense and *)
(* the refinement of Book, for every set of requests.  Snapshots are true  *)
(* and capital goes first whatever overlaps.  Balances are the sum of the  *)
(* ledger as long as an expense being deleted is left alone by everybody   *)
(* else; the run CashbookDoubleDelete shows that this cannot be spared.    *)
(* Expenses are what their ledger rows say as long as no amendment comes   *)
(* between the reading of an expense and a change of its date.             *)
(***************************************************************************)
EXTENDS CashbookProofs

\* A request that has read its snapshot holds every balance, and the snapshot is
\* still the balances.
SnapshotHolds(p) ==
  pc[p] = "post" \/ (pc[p] = "commit" /\ job[p].kind # "delete")
  => snap[p] = balance /\ \A b \in Books : owner[b] = p

SnapshotInv == IInv /\ \A p \in Requests : SnapshotHolds(p)

\* A request works on a new expense of its own or on one whose request is over.
TargetFits(p) ==
  /\ ~InTransaction(p) => job[p] = Idle
  /\ \A q \in Requests \ {p} : Target(p) = q => pc[q] = "committed"
  /\ expense[p] # None => pc[p] = "committed"

\* Two requests work on one expense only where the clients let their operations overlap.
MayOverlap(p) ==
  Target(p) # None =>
    \A q \in Requests \ {p} :
      Target(q) = Target(p) => {job[p].kind, job[q].kind} \subseteq Overlapping

TargetsInv == SnapshotInv /\ \A p \in Requests : TargetFits(p) /\ MayOverlap(p)

\* What p has added up is still the sum of the expense's rows.
SumIsStill(p) ==
  job[p].kind = "delete" /\ pc[p] \in Adjustments \cup {"removeRow", "commit"}
  => credit[p] = Minus(Nothing, ledgerNet[Target(p)]) /\ debit[p] = Nothing

LedgerInv ==
  /\ TargetsInv
  /\ \A p \in Requests : SumIsStill(p)
  /\ BalanceMatchesLedger

\* The amounts of a request, as far as what it was asked to do tells: an income puts
\* something into one pot, a new expense gives nothing back, and what is divided is not
\* nothing.
JobFits(p) ==
  /\ ~InTransaction(p) \/ job[p].kind = "create" => credit[p] = Nothing
  /\ job[p].kind = "create" => Target(p) = p
  /\ job[p].kind \in {"create", "amend"} => job[p].amount > 0
  /\ job[p].kind = "income" /\ InTransaction(p) =>
       /\ pc[p] \in {"lockAll", "post", "commit"} /\ debit[p] = Nothing
       /\ \E pot \in Pots, a \in Amounts :
            credit[p] = [t \in Pots |-> IF t = pot THEN a ELSE 0]
  /\ job[p].kind \in {"create", "amend"} /\ pc[p] \in {"updateRow", "lockAll", "post", "commit"}
     => SumOf(debit[p]) > 0

JobsInv == IInv /\ \A p \in Requests : JobFits(p)

\* What an amendment gives back is what the expense costs, whose row it has locked.
ReversalFits(p) ==
  job[p].kind \in {"amend", "redate"} /\ pc[p] \in {"lockAll", "post", "commit"}
  => /\ owner[Target(p)] = p /\ expense[Target(p)] # None
     /\ credit[p] = expense[Target(p)]

\* A change of the date alone takes again what the expense costs, unless that is gone.
SeenIsStill(p) ==
  job[p].kind = "redate" =>
    /\ expense[Target(p)] \in {seen[p], None}
    /\ pc[p] \in {"lockAll", "post", "commit"} => debit[p] = seen[p]

\* A deletion has locked the row, unless another has deleted it.
DeletionFits(p) ==
  job[p].kind = "delete" /\ pc[p] = "commit"
  => owner[Target(p)] = p \/ expense[Target(p)] = None

RowsInv ==
  /\ TargetsInv /\ JobsInv
  /\ \A p \in Requests : ReversalFits(p) /\ SeenIsStill(p) /\ DeletionFits(p)
  /\ LedgerMatchesExpenses

\* Whoever deletes an expense alone finds it on record to the end.
DeletesWhatIs(p) == job[p].kind = "delete" => expense[Target(p)] # None

BookInv == LedgerInv /\ RowsInv /\ \A p \in Requests : DeletesWhatIs(p)

\* What was divided lies in the pots, which stay locked: no surplus is taken while there
\* is capital.
DivisionHolds(p) ==
  /\ job[p].kind \in {"create", "amend"}
  /\ pc[p] \in {"updateRow", "lockAll", "post", "commit"}
  => /\ \A t \in Pots : owner[t] = p
     /\ job[p].source \in {"auto", "total"} /\ debit[p]["shu"] > 0
        => debit[p]["capital"] =
             balance["capital"] + (IF job[p].kind = "amend" THEN seen[p]["capital"] ELSE 0)

DivisionInv == JobsInv /\ \A p \in Requests : DivisionHolds(p)

-----------------------------------------------------------------------------
(* Amounts and commits. *)

\* Adding amounts pot by pot adds their entries.
LEMMA EntriesOfSum ==
  ASSUME NEW x \in [Pots -> Int], NEW y \in [Pots -> Int], NEW z \in [Pots -> Int],
         \A t \in Pots : z[t] = x[t] + y[t]
  PROVE  Entries(z) = Plus(Entries(x), Entries(y))
  <1>1. /\ Entries(x) \in [Books -> Int] /\ Entries(y) \in [Books -> Int]
        /\ Entries(z) \in [Books -> Int]
    BY EntriesOfAmount
  <1>2. /\ Plus(Entries(x), Entries(y)) \in [Books -> Int]
        /\ \A b \in Books : Plus(Entries(x), Entries(y))[b] = Entries(x)[b] + Entries(y)[b]
    BY <1>1, PlusMinus
  <1>3. /\ x["shu"] \in Int /\ x["capital"] \in Int /\ y["shu"] \in Int /\ y["capital"] \in Int
        /\ z["shu"] = x["shu"] + y["shu"] /\ z["capital"] = x["capital"] + y["capital"]
    BY DEF Pots
  <1>4. \A b \in Books : Entries(z)[b] = Plus(Entries(x), Entries(y))[b]
    BY <1>2, <1>3, EntriesOfAmount DEF Books
  <1>5. QED
    BY <1>1, <1>2, <1>4

\* Taking an amount from nothing, and then nothing from that, negates it.
LEMMA NothingLess ==
  ASSUME NEW x \in [Pots -> Int]
  PROVE  \A t \in Pots : Minus(Minus(Nothing, x), Nothing)[t] = 0 - x[t]
  <1>1. \A t \in Pots : Nothing[t] = 0 /\ x[t] \in Int
    BY NothingIsZero DEF Pots
  <1>2. /\ DOMAIN Minus(Nothing, x) = Pots
        /\ \A t \in Pots : Minus(Nothing, x)[t] = Nothing[t] - x[t]
    BY NothingIsZero DEF Minus, Split
  <1>3. \A t \in Pots : Minus(Minus(Nothing, x), Nothing)[t] = Minus(Nothing, x)[t] - Nothing[t]
    BY <1>2 DEF Minus
  <1>4. TAKE t \in Pots
  <1>5. PICK i \in Int : i = x[t]
    BY <1>1
  <1>6. Minus(Nothing, x)[t] = 0 - i
    BY <1>1, <1>2, <1>5
  <1>7. Minus(Minus(Nothing, x), Nothing)[t] = (0 - i) - 0
    BY <1>1, <1>3, <1>6
  <1>8. QED
    BY <1>5, <1>7

\* A request about to commit has moved the balances by its whole effect.
LEMMA ViewAtCommit ==
  ASSUME IInv, NEW p \in Requests, pc[p] = "commit"
  PROVE  View(p) = Plus(balance, Effect(p))
  <1>1. TypeOK /\ RequestInv(p)
    BY DEF IInv
  <1>2. balance \in [Books -> Int] /\ Effect(p) \in [Books -> Int] /\ View(p) \in [Books -> Int]
    BY <1>1, ViewAndEffect DEF TypeOK, Signed
  <1>3. \A b \in Books : delta[p][b] = Effect(p)[b]
    BY <1>1 DEF RequestInv, DeltaIsEffect, Moved
  <1>4. \A b \in Books : View(p)[b] = balance[b] + Effect(p)[b]
    BY <1>1, <1>3, ViewAndEffect
  <1>5. /\ Plus(balance, Effect(p)) \in [Books -> Int]
        /\ \A b \in Books : Plus(balance, Effect(p))[b] = balance[b] + Effect(p)[b]
    BY <1>2, PlusMinus
  <1>6. QED
    BY <1>2, <1>4, <1>5

\* Where p has moved nothing, it sees the committed balances.
LEMMA ViewUnmoved ==
  ASSUME IInv, NEW p \in Requests, \A b \in Books : delta[p][b] = 0
  PROVE  View(p) = balance
  <1>1. View(p) \in [Books -> Int] /\ balance \in [Books -> Int]
        /\ \A b \in Books : View(p)[b] = balance[b] + delta[p][b]
    BY ViewAndEffect DEF IInv, TypeOK, Signed
  <1>2. \A b \in Books : balance[b] + delta[p][b] = balance[b]
    BY <1>1
  <1>3. QED
    BY <1>1, <1>2

-----------------------------------------------------------------------------
(* Snapshots. *)

\* What q has read stays true: whoever could commit another balance would have to
\* hold one of the locks q holds.
LEMMA SnapshotKept ==
  ASSUME SnapshotInv, NEW p \in Requests, Step(p), TypeOK', NEW q \in Requests
  PROVE  SnapshotHolds(q)'
  <1> USE DEF committed, ledger, locals
  <1>1. /\ IInv /\ TypeOK /\ RequestInv(p) /\ SnapshotHolds(q)
    BY DEF SnapshotInv, IInv
  <1>2. CASE q # p
    <2>1. Spares(q)
      BY <1>1, <1>2, OthersKeep
    <2> SUFFICES ASSUME pc[q] = "post" \/ (pc[q] = "commit" /\ job[q].kind # "delete")
                 PROVE  balance' = balance
      BY <1>1, <2>1 DEF SnapshotHolds, Spares, Rows
    <2>2. \A b \in Books : owner[b] # p
      BY <1>1, <1>2 DEF SnapshotHolds
    <2>3. \A b \in Books : delta[p][b] = 0
      BY <1>1, <2>2 DEF RequestInv, ChangesAreLocked
    <2>4. QED
      BY <1>1, <2>3, ViewUnmoved, BalanceChanges
  <1>3. CASE q = p
    <2>1. CASE ReadBalances(p)
      <3>1. pc'[p] = "post" /\ pc[p] = "lockAll" /\ UNCHANGED <<balance, owner, delta>>
        BY <1>1, <2>1 DEF ReadBalances, Goto, TypeOK
      <3>2. \A b \in Books : owner[b] = p
        BY <2>1 DEF ReadBalances, Wanted, Rows
      <3>3. \A b \in Books : delta[p][b] = 0
        BY <1>1, <3>1 DEF RequestInv, DeltaIsEffect, Moved
      <3>4. snap'[p] = balance
        BY <1>1, <2>1, <3>3, ViewUnmoved DEF ReadBalances, TypeOK
      <3>5. QED
        BY <1>3, <3>1, <3>2, <3>4 DEF SnapshotHolds
    <2>2. CASE Post(p)
      BY <1>1, <1>3, <2>2 DEF Post, Goto, TypeOK, SnapshotHolds
    <2>3. CASE RemoveRow(p)
      <3>1. pc'[p] = "commit" /\ job'[p].kind = "delete"
        BY <1>1, <2>3 DEF RemoveRow, RequestInv, CounterFitsJob, Goto, TypeOK
      <3>2. QED
        BY <1>3, <3>1 DEF SnapshotHolds
    <2>4. CASE \/ ReceiveIncome(p) \/ CreateExpense(p) \/ UpdateExpense(p)
               \/ DeleteExpense(p) \/ LockBalance(p) \/ Allocate(p) \/ UpdateRow(p)
               \/ SumRows(p) \/ AdjustBalance(p)
      <3>1. pc'[p] \notin {"post", "commit"}
        BY <1>1, <2>4 DEF ReceiveIncome, CreateExpense, UpdateExpense, DeleteExpense,
             LockBalance, Allocate, UpdateRow, SumRows, AdjustBalance, AfterAdjusting,
             Begin, Goto, TypeOK
      <3>2. QED
        BY <1>3, <3>1 DEF SnapshotHolds
    <2>5. CASE Commit(p) \/ CommitDelete(p) \/ Fail(p) \/ Crash(p) \/ BreakDeadlock(p)
      <3>1. pc'[p] \in {"committed", "rolledBack"}
        BY <1>1, <2>5 DEF Commit, CommitDelete, Fail, Crash, BreakDeadlock, Finish, Goto, TypeOK
      <3>2. QED
        BY <1>3, <3>1 DEF SnapshotHolds
    <2>6. QED
      BY <2>1, <2>2, <2>3, <2>4, <2>5 DEF Step, Progress
  <1>4. QED
    BY <1>2, <1>3

LEMMA SnapshotInvInit == Init => SnapshotInv
  BY InitInv DEF Init, SnapshotInv, SnapshotHolds

LEMMA SnapshotInvStep == SnapshotInv /\ [Next]_vars => SnapshotInv'
  <1> SUFFICES ASSUME SnapshotInv, [Next]_vars PROVE SnapshotInv'
    OBVIOUS
  <1>1. IInv'
    BY StepInv DEF SnapshotInv
  <1>2. CASE UNCHANGED vars
    BY <1>1, <1>2 DEF vars, committed, ledger, locals, SnapshotInv, SnapshotHolds
  <1>3. ASSUME NEW p \in Requests, Step(p) PROVE SnapshotInv'
    BY <1>1, <1>3, SnapshotKept DEF SnapshotInv, IInv
  <1>4. QED
    BY <1>2, <1>3 DEF Next, Quiet

\* Whenever a transaction commits ledger rows, their "after" columns are the
\* balances: nobody moves a balance between the snapshot and the commit, whatever
\* operations overlap (lockAllForUpdate).
THEOREM SnapshotsAlwaysTrue == Spec => SnapshotsAreTrue
  <1> DEFINE Recorded(p) == pc[p] = "commit" /\ pc'[p] = "committed" /\ job[p].kind # "delete"
  <1>1. SnapshotInv /\ [Next]_vars
        => [\A p \in Requests : Recorded(p) => lastAfter' = balance']_vars
    <2> SUFFICES ASSUME SnapshotInv, Next, NEW p \in Requests, Recorded(p)
                 PROVE  lastAfter' = balance'
      OBVIOUS
    <2>1. IInv /\ TypeOK /\ SnapshotHolds(p)
      BY DEF SnapshotInv, IInv
    <2>2. PICK q \in Requests : Step(q)
      BY DEF Next, Quiet, vars
    <2>3. q = p
      BY <2>1, <2>2, OthersKeep DEF Spares
    <2>4. Commit(p)
      BY <2>1, <2>2, <2>3
      DEF Step, Progress, ReceiveIncome, CreateExpense, UpdateExpense, DeleteExpense, Begin,
          LockBalance, Allocate, ReadBalances, Post, SumRows, UpdateRow, AdjustBalance,
          Adjustments, RemoveRow, CommitDelete, Fail, Crash, BreakDeadlock, Finish, Goto, TypeOK
    <2>5. lastAfter' = Plus(balance, Effect(p)) /\ balance' = View(p)
      BY <2>1, <2>4 DEF Commit, SnapshotHolds
    <2>6. QED
      BY <2>1, <2>5, ViewAtCommit
  <1>2. QED
    BY <1>1, SnapshotInvInit, SnapshotInvStep, PTL DEF Spec, SnapshotsAreTrue

-----------------------------------------------------------------------------
(* The ledger. *)

\* p begins an operation: on no expense, on a new one of its own, or on one that
\* whoever works on it lets it work on.
Begins(p) ==
  /\ pc[p] = "idle"
  /\ pc'[p] \in {"lockAll", "allocate", "updateRow", "sumRows"}
  /\ \/ job'[p].kind \in {"income", "create"} /\ job'[p].expense \in {None, p}
     \/ \E e \in ExpenseIds : job'[p].expense = e /\ Reachable(e, job'[p].kind)

\* A step begins p's operation, leaves it to its operation, or ends it.
LEMMA JobChanges ==
  ASSUME TypeOK, NEW p \in Requests, Step(p)
  PROVE  \/ Begins(p)
         \/ InTransaction(p) /\ InTransaction(p)' /\ job'[p] = job[p]
         \/ InTransaction(p) /\ job'[p] = Idle /\ pc'[p] \in {"committed", "rolledBack"}
  <1> USE DEF committed, ledger, locals
  <1>1. ASSUME NEW j, NEW l, Begin(p, j, l)
        PROVE  pc[p] = "idle" /\ pc'[p] = l /\ job'[p] = j
    BY <1>1 DEF Begin, Goto, TypeOK
  <1>2. CASE ReceiveIncome(p)
    <2>1. PICK pot \in Pots, a \in Amounts :
            Begin(p, [Idle EXCEPT !.amount = a, !.source = pot], "lockAll")
      BY <1>2 DEF ReceiveIncome
    <2>2. job'[p] = [Idle EXCEPT !.amount = a, !.source = pot]
      BY <1>1, <2>1
    <2>3. job'[p].kind = "income" /\ job'[p].expense = None
      BY <2>2 DEF Idle
    <2>4. QED
      BY <1>1, <2>1, <2>3 DEF Begins
  <1>3. CASE CreateExpense(p)
    <2>1. PICK a \in Amounts, s \in Sources :
            Begin(p, [kind |-> "create", expense |-> p, amount |-> a, source |-> s], "allocate")
      BY <1>3 DEF CreateExpense
    <2>2. job'[p] = [kind |-> "create", expense |-> p, amount |-> a, source |-> s]
      BY <1>1, <2>1
    <2>3. QED
      BY <1>1, <2>1, <2>2 DEF Begins
  <1>4. CASE UpdateExpense(p)
    <2>1. PICK e \in ExpenseIds :
            \/ /\ Reachable(e, "amend")
               /\ \E a \in Amounts, s \in Sources :
                    Begin(p, [kind |-> "amend", expense |-> e, amount |-> a, source |-> s],
                          "allocate")
            \/ /\ Reachable(e, "redate")
               /\ Begin(p, [Idle EXCEPT !.kind = "redate", !.expense = e], "updateRow")
      BY <1>4 DEF UpdateExpense
    <2>2. ASSUME Reachable(e, "amend"), NEW a \in Amounts, NEW s \in Sources,
                 Begin(p, [kind |-> "amend", expense |-> e, amount |-> a, source |-> s],
                       "allocate")
          PROVE  Begins(p)
      <3>1. job'[p] = [kind |-> "amend", expense |-> e, amount |-> a, source |-> s]
        BY <1>1, <2>2
      <3>2. QED
        BY <1>1, <2>2, <3>1 DEF Begins
    <2>3. ASSUME Reachable(e, "redate"),
                 Begin(p, [Idle EXCEPT !.kind = "redate", !.expense = e], "updateRow")
          PROVE  Begins(p)
      <3>1. job'[p] = [Idle EXCEPT !.kind = "redate", !.expense = e]
        BY <1>1, <2>3
      <3>2. job'[p].kind = "redate" /\ job'[p].expense = e
        BY <3>1 DEF Idle
      <3>3. QED
        BY <1>1, <2>3, <3>2 DEF Begins
    <2>4. QED
      BY <2>1, <2>2, <2>3
  <1>5. CASE DeleteExpense(p)
    <2>1. PICK e \in ExpenseIds :
            /\ Reachable(e, "delete")
            /\ Begin(p, [Idle EXCEPT !.kind = "delete", !.expense = e], "sumRows")
      BY <1>5 DEF DeleteExpense
    <2>2. job'[p] = [Idle EXCEPT !.kind = "delete", !.expense = e]
      BY <1>1, <2>1
    <2>3. job'[p].kind = "delete" /\ job'[p].expense = e
      BY <2>2 DEF Idle
    <2>4. QED
      BY <1>1, <2>1, <2>3 DEF Begins
  <1>6. CASE \/ LockBalance(p) \/ Allocate(p) \/ UpdateRow(p) \/ ReadBalances(p) \/ Post(p)
             \/ SumRows(p) \/ AdjustBalance(p) \/ RemoveRow(p)
    BY <1>6 DEF TypeOK, LockBalance, Allocate, UpdateRow, ReadBalances, Post, SumRows,
         AdjustBalance, AfterAdjusting, RemoveRow, Adjustments, Goto, InTransaction
  <1>7. ASSUME NEW o \in {"committed", "rolledBack"}, Finish(p, o)
        PROVE  job'[p] = Idle /\ pc'[p] = o
    BY <1>7 DEF Finish, Goto, TypeOK
  <1>8. CASE Commit(p) \/ CommitDelete(p) \/ Crash(p)
    BY <1>7, <1>8 DEF Commit, CommitDelete, Crash, InTransaction
  <1>9. CASE Fail(p) \/ BreakDeadlock(p)
    <2>1. InTransaction(p)
      BY <1>9 DEF Fail, Doomed, BreakDeadlock, Deadlocked, Blocked, Wanted, Adjustments,
                  InTransaction
    <2>2. QED
      BY <1>7, <1>9, <2>1 DEF Fail, BreakDeadlock
  <1>10. QED
    BY <1>2, <1>3, <1>4, <1>5, <1>6, <1>8, <1>9 DEF Step, Progress

\* A committed step touches the rows of p's own expense only.
LEMMA RowsChange ==
  ASSUME TypeOK, NEW p \in Requests, Step(p), NEW e \in ExpenseIds, e # Target(p)
  PROVE  expense'[e] = expense[e] /\ ledgerNet'[e] = ledgerNet[e]
  <1>1. CASE Commit(p) \/ CommitDelete(p)
    BY <1>1 DEF Commit, CommitDelete, TypeOK
  <1>2. CASE UNCHANGED <<expense, ledgerNet>>
    BY <1>2
  <1>3. QED
    BY <1>1, <1>2 DEF Step, Progress, ReceiveIncome, CreateExpense, UpdateExpense,
         DeleteExpense, LockBalance, Allocate, ReadBalances, Post, SumRows, UpdateRow,
         AdjustBalance, RemoveRow, Fail, Crash, BreakDeadlock, committed, ledger

\* While p's transaction goes on, nothing is committed.
LEMMA NothingCommitted ==
  ASSUME NEW p \in Requests, Step(p)
  PROVE  Commit(p) \/ CommitDelete(p) \/ UNCHANGED committed
  BY DEF Step, Progress, ReceiveIncome, CreateExpense, UpdateExpense,
         DeleteExpense, LockBalance, Allocate, ReadBalances, Post, SumRows, UpdateRow,
         AdjustBalance, RemoveRow, Fail, Crash, BreakDeadlock

LEMMA TargetFitsKept ==
  ASSUME TargetsInv, NEW p \in Requests, Step(p), NEW r \in Requests
  PROVE  TargetFits(r)'
  <1>1. /\ TypeOK /\ TargetFits(p) /\ TargetFits(r)
        /\ None \notin Requests /\ None \notin ExpenseIds
    BY CashbookAssumption DEF TargetsInv, SnapshotInv, IInv, ExpenseIds
  <1>2. \A q \in Requests \ {p} : Spares(q)
    BY <1>1, OthersKeep
  <1>3. pc[p] \notin {"committed", "rolledBack"}
    BY <1>1, JobChanges DEF Begins, InTransaction
  <1>4. (~InTransaction(r) => job[r] = Idle)'
    <2>1. CASE r = p
      BY <1>1, <2>1, JobChanges DEF Begins, InTransaction
    <2>2. CASE r # p
      BY <1>1, <1>2, <2>2 DEF Spares, TargetFits, InTransaction
    <2>3. QED
      BY <2>1, <2>2
  <1>5. ASSUME NEW q \in Requests \ {r}, Target(r)' = q PROVE pc'[q] = "committed"
    <2>1. CASE r # p
      <3>1. Target(r) = q
        BY <1>2, <1>5, <2>1 DEF Spares, Target
      <3>2. pc[q] = "committed"
        BY <1>1, <3>1 DEF TargetFits
      <3>3. QED
        BY <1>2, <1>3, <3>2 DEF Spares
    <2>2. CASE r = p /\ job'[p] = job[p]
      BY <1>1, <1>2, <1>5, <2>2 DEF Spares, Target, TargetFits
    <2>3. CASE r = p /\ job'[p] = Idle
      BY <1>1, <1>5, <2>3 DEF Target, Idle
    <2>4. CASE r = p /\ Begins(p)
      <3>1. expense[q] # None
        BY <1>1, <1>5, <2>4 DEF Begins, Reachable, Target
      <3>2. TargetFits(q)
        BY DEF TargetsInv
      <3>3. QED
        BY <1>2, <2>4, <3>1, <3>2 DEF TargetFits, Spares
    <2>5. QED
      BY <1>1, <2>1, <2>2, <2>3, <2>4, JobChanges
  <1>6. ASSUME expense'[r] # None PROVE pc'[r] = "committed"
    <2>1. r \in ExpenseIds
      BY DEF ExpenseIds
    <2>2. CASE Target(p) # r
      BY <1>1, <1>2, <1>3, <1>6, <2>1, <2>2, RowsChange DEF TargetFits, Spares
    <2>3. CASE Target(p) = r /\ r # p
      BY <1>1, <1>2, <2>3 DEF TargetFits, Spares
    <2>4. CASE Target(p) = r /\ r = p
      <3>1. CASE Commit(p)
        BY <1>1, <2>4, <3>1 DEF Commit, Finish, Goto, TypeOK
      <3>2. CASE CommitDelete(p)
        BY <1>1, <1>6, <2>1, <2>4, <3>2 DEF CommitDelete, RowAfter, TypeOK
      <3>3. CASE UNCHANGED committed
        BY <1>1, <1>3, <1>6, <2>4, <3>3 DEF TargetFits, committed
      <3>4. QED
        BY <3>1, <3>2, <3>3, NothingCommitted
    <2>5. QED
      BY <2>2, <2>3, <2>4
  <1>7. QED
    BY <1>4, <1>5, <1>6 DEF TargetFits

LEMMA MayOverlapKept ==
  ASSUME TargetsInv, NEW p \in Requests, Step(p), NEW r \in Requests
  PROVE  MayOverlap(r)'
  <1>1. /\ TypeOK /\ TargetFits(p) /\ None \notin ExpenseIds
        /\ \A q \in Requests : MayOverlap(q) /\ TargetFits(q)
    BY CashbookAssumption DEF TargetsInv, SnapshotInv, IInv, ExpenseIds
  <1>2. \A q \in Requests \ {p} : Spares(q)
    BY <1>1, OthersKeep
  <1>3. ASSUME NEW q \in Requests \ {p}, Target(q)' = Target(p)', Target(p)' # None
        PROVE  {job'[p].kind, job'[q].kind} \subseteq Overlapping
    <2>1. job'[q] = job[q] /\ Target(q)' = Target(q)
      BY <1>2 DEF Spares, Target
    <2>2. InTransaction(q)
      BY <1>1, <1>3, <2>1 DEF TargetFits, Idle, Target
    <2>3. CASE job'[p] = job[p]
      BY <1>1, <1>3, <2>1, <2>3 DEF MayOverlap, Target
    <2>4. CASE Begins(p)
      <3>1. Target(q) # p
        BY <1>1, <2>4 DEF Begins, TargetFits
      <3>2. PICK e \in ExpenseIds : Target(p)' = e /\ Reachable(e, job'[p].kind)
        BY <1>3, <2>1, <2>4, <3>1 DEF Begins, Target
      <3>3. QED
        BY <1>3, <2>1, <2>2, <3>2 DEF Reachable
    <2>5. job'[p] # Idle
      BY <1>3 DEF Idle, Target
    <2>6. QED
      BY <1>1, <2>3, <2>4, <2>5, JobChanges
  <1>4. SUFFICES ASSUME NEW q \in Requests \ {r}, Target(q)' = Target(r)', Target(r)' # None
                 PROVE  {job'[r].kind, job'[q].kind} \subseteq Overlapping
    BY DEF MayOverlap
  <1>5. CASE r = p \/ q = p
    BY <1>3, <1>4, <1>5
  <1>6. CASE r # p /\ q # p
    <2>1. /\ job'[r] = job[r] /\ Target(r)' = Target(r)
          /\ job'[q] = job[q] /\ Target(q)' = Target(q)
      BY <1>2, <1>6 DEF Spares, Target
    <2>2. QED
      BY <1>1, <1>4, <2>1 DEF MayOverlap
  <1>7. QED
    BY <1>5, <1>6

LEMMA SumKept ==
  ASSUME "delete" \notin Overlapping, LedgerInv, NEW p \in Requests, Step(p), NEW r \in Requests
  PROVE  SumIsStill(r)'
  <1> USE DEF committed, ledger, locals
  <1>1. TypeOK /\ MayOverlap(r) /\ SumIsStill(r) /\ RequestInv(p) /\ None \notin ExpenseIds
    BY CashbookAssumption DEF LedgerInv, TargetsInv, SnapshotInv, IInv, ExpenseIds
  <1>2. CASE r # p
    <2>1. Spares(r)
      BY <1>1, <1>2, OthersKeep
    <2> SUFFICES ASSUME job[r].kind = "delete"
                 PROVE  ledgerNet'[Target(r)] = ledgerNet[Target(r)]
      BY <1>1, <2>1 DEF SumIsStill, Spares, Target
    <2>2. Target(r) \in ExpenseIds /\ Target(r) # Target(p)
      BY <1>1, <1>2 DEF TypeOK, Job, Target, MayOverlap
    <2>3. QED
      BY <1>1, <2>2, RowsChange
  <1>3. CASE r = p
    <2>1. CASE SumRows(p)
      BY <1>1, <1>3, <2>1 DEF SumRows, SumIsStill, RequestInv, AmountsFit, Target, Goto, TypeOK
    <2>2. CASE AdjustBalance(p) \/ RemoveRow(p)
      BY <1>1, <1>3, <2>2 DEF AdjustBalance, RemoveRow, SumIsStill, Target, Goto, TypeOK
    <2>3. CASE Post(p)
      BY <1>1, <1>3, <2>3 DEF Post, RequestInv, CounterFitsJob, SumIsStill
    <2>4. CASE \/ ReceiveIncome(p) \/ CreateExpense(p) \/ UpdateExpense(p)
               \/ DeleteExpense(p) \/ LockBalance(p) \/ Allocate(p) \/ UpdateRow(p)
               \/ ReadBalances(p)
      <3>1. pc'[p] \notin Adjustments \cup {"removeRow", "commit"}
        BY <1>1, <2>4 DEF ReceiveIncome, CreateExpense, UpdateExpense, DeleteExpense,
             LockBalance, Allocate, UpdateRow, ReadBalances, Begin, Goto, TypeOK, Adjustments
      <3>2. QED
        BY <1>3, <3>1 DEF SumIsStill
    <2>5. CASE Commit(p) \/ CommitDelete(p) \/ Fail(p) \/ Crash(p) \/ BreakDeadlock(p)
      <3>1. pc'[p] \in {"committed", "rolledBack"}
        BY <1>1, <2>5 DEF Commit, CommitDelete, Fail, Crash, BreakDeadlock, Finish, Goto, TypeOK
      <3>2. QED
        BY <1>3, <3>1 DEF SumIsStill, Adjustments
    <2>6. QED
      BY <2>1, <2>2, <2>3, <2>4, <2>5 DEF Step, Progress
  <1>4. QED
    BY <1>2, <1>3

\* A commit moves balances and ledger alike.
LEMMA BalanceKept ==
  ASSUME LedgerInv, NEW p \in Requests, Step(p)
  PROVE  BalanceMatchesLedger'
  <1>1. /\ IInv /\ TypeOK /\ RequestInv(p) /\ SumIsStill(p)
        /\ balance = Entries(ledgerSum)
    BY DEF LedgerInv, TargetsInv, SnapshotInv, IInv, BalanceMatchesLedger
  <1> DEFINE net == Minus(credit[p], debit[p])
  <1>2. /\ ledgerSum \in [Pots -> Int] /\ net \in [Pots -> Int]
        /\ credit[p] \in [Pots -> Int] /\ debit[p] \in [Pots -> Int]
    BY <1>1, ViewAndEffect DEF TypeOK, Signed, Split
  <1>3. ASSUME pc[p] = "commit", balance' = View(p), ledgerSum' \in [Pots -> Int],
               \A t \in Pots : ledgerSum'[t] = ledgerSum[t] + net[t]
        PROVE  BalanceMatchesLedger'
    <2>1. balance' = Plus(balance, Effect(p))
      BY <1>1, <1>3, ViewAtCommit
    <2>2. Entries(ledgerSum') = Plus(Entries(ledgerSum), Entries(net))
      BY <1>2, <1>3, EntriesOfSum
    <2>3. QED
      BY <1>1, <2>1, <2>2 DEF BalanceMatchesLedger, Effect
  <1>4. CASE Commit(p)
    <2>1. ledgerSum' = Plus(ledgerSum, net) /\ pc[p] = "commit" /\ balance' = View(p)
      BY <1>4 DEF Commit
    <2>2. QED
      BY <1>2, <1>3, <2>1, PlusMinus
  <1>5. CASE CommitDelete(p)
    <2>1. /\ pc[p] = "commit" /\ job[p].kind = "delete" /\ balance' = View(p)
          /\ ledgerSum' = Minus(ledgerSum, ledgerNet[Target(p)])
      BY <1>5 DEF CommitDelete, Removed
    <2>2. Target(p) \in ExpenseIds
      BY <1>1, <2>1 DEF TypeOK, Job, Target
    <2>3. /\ ledgerNet[Target(p)] \in [Pots -> Int] /\ Nothing \in [Pots -> Int]
          /\ \A t \in Pots : Nothing[t] = 0
      BY <1>1, <2>2, NothingIsZero DEF TypeOK, Signed, Split, Pots
    <2>4. credit[p] = Minus(Nothing, ledgerNet[Target(p)]) /\ debit[p] = Nothing
      BY <1>1, <2>1 DEF SumIsStill
    <2>5. \A t \in Pots : net[t] = 0 - ledgerNet[Target(p)][t]
      BY <2>3, <2>4, NothingLess
    <2>6. /\ ledgerSum' \in [Pots -> Int]
          /\ \A t \in Pots : ledgerSum'[t] = ledgerSum[t] - ledgerNet[Target(p)][t]
      BY <1>2, <2>1, <2>3, PlusMinus
    <2>7. \A t \in Pots : ledgerSum'[t] = ledgerSum[t] + net[t]
      BY <1>2, <2>3, <2>5, <2>6
    <2>8. QED
      BY <1>3, <2>1, <2>6, <2>7
  <1>6. CASE UNCHANGED committed
    BY <1>1, <1>6 DEF committed, ledger, BalanceMatchesLedger
  <1>7. QED
    BY <1>4, <1>5, <1>6, NothingCommitted

LEMMA TargetsInit == Init => TargetsInv
  <1> SUFFICES ASSUME Init PROVE TargetsInv
    OBVIOUS
  <1>1. \A p \in Requests : job[p] = Idle
    BY DEF Init
  <1>2. \A p \in Requests : expense[p] = None /\ Target(p) = None /\ job[p].kind = "income"
    BY <1>1, CashbookAssumption DEF Init, ExpenseIds, Target, Idle
  <1>3. \A p \in Requests : TargetFits(p) /\ MayOverlap(p)
    BY <1>1, <1>2, CashbookAssumption DEF TargetFits, MayOverlap
  <1>4. QED
    BY <1>3, SnapshotInvInit DEF TargetsInv

LEMMA TargetsStep == TargetsInv /\ [Next]_vars => TargetsInv'
  <1> SUFFICES ASSUME TargetsInv, [Next]_vars PROVE TargetsInv'
    OBVIOUS
  <1>1. SnapshotInv'
    BY SnapshotInvStep DEF TargetsInv
  <1>2. CASE UNCHANGED vars
    <2> USE <1>2 DEF vars, committed, ledger, locals
    <2>1. ASSUME NEW p \in Requests PROVE (TargetFits(p) /\ MayOverlap(p))'
      <3>1. TargetFits(p) /\ MayOverlap(p)
        BY DEF TargetsInv
      <3>2. QED
        BY <3>1 DEF TargetFits, MayOverlap, Target, InTransaction
    <2>2. QED
      BY <1>1, <2>1 DEF TargetsInv
  <1>3. ASSUME NEW p \in Requests, Step(p) PROVE TargetsInv'
    BY <1>1, <1>3, TargetFitsKept, MayOverlapKept DEF TargetsInv
  <1>4. QED
    BY <1>2, <1>3 DEF Next, Quiet

LEMMA LedgerInit == Init => LedgerInv
  <1> SUFFICES ASSUME Init PROVE LedgerInv
    OBVIOUS
  <1>1. \A p \in Requests : SumIsStill(p)
    BY DEF Init, SumIsStill, Idle
  <1>2. QED
    BY <1>1, TargetsInit DEF Init, LedgerInv, BalanceMatchesLedger

LEMMA LedgerStep ==
  ASSUME "delete" \notin Overlapping
  PROVE  LedgerInv /\ [Next]_vars => LedgerInv'
  <1> SUFFICES ASSUME LedgerInv, [Next]_vars PROVE LedgerInv'
    OBVIOUS
  <1>1. TargetsInv'
    BY TargetsStep DEF LedgerInv
  <1>2. CASE UNCHANGED vars
    <2> USE <1>2 DEF vars, committed, ledger, locals
    <2>1. ASSUME NEW p \in Requests PROVE SumIsStill(p)'
      <3>1. SumIsStill(p)
        BY DEF LedgerInv
      <3>2. QED
        BY <3>1 DEF SumIsStill, Target
    <2>2. QED
      BY <1>1, <2>1 DEF LedgerInv, BalanceMatchesLedger
  <1>3. ASSUME NEW p \in Requests, Step(p) PROVE LedgerInv'
    BY <1>1, <1>3, SumKept, BalanceKept DEF LedgerInv
  <1>4. QED
    BY <1>2, <1>3 DEF Next, Quiet

\* As long as nobody works on an expense that is being deleted, the balances are
\* what the ledger rows add up to: no interleaving of incomes, expenses, amendments
\* and changes of date loses or repeats a posting, although an amendment works on
\* an expense it read before its transaction.
THEOREM BalanceAlwaysMatchesLedger ==
  ASSUME "delete" \notin Overlapping
  PROVE  Spec => []BalanceMatchesLedger
  <1>1. LedgerInv => BalanceMatchesLedger
    BY DEF LedgerInv
  <1>2. LedgerInv /\ [Next]_vars => LedgerInv'
    BY LedgerStep
  <1>3. QED
    BY <1>1, <1>2, LedgerInit, PTL DEF Spec

-----------------------------------------------------------------------------
(* The expenses. *)

\* What the operations begin with.
LEMMA JobsBegin ==
  ASSUME TypeOK, NEW p \in Requests
  PROVE  /\ ReceiveIncome(p) =>
              /\ job'[p].kind = "income" /\ pc'[p] = "lockAll"
              /\ UNCHANGED <<committed, owner, seen, debit>>
              /\ \E pot \in Pots, a \in Amounts :
                   credit'[p] = [t \in Pots |-> IF t = pot THEN a ELSE 0]
         /\ CreateExpense(p) =>
              /\ job'[p].kind = "create" /\ Target(p)' = p /\ job'[p].amount > 0
              /\ pc'[p] = "allocate" /\ UNCHANGED <<committed, owner, seen, debit, credit>>
         /\ UpdateExpense(p) =>
              /\ \/ job'[p].kind = "amend" /\ pc'[p] = "allocate" /\ job'[p].amount > 0
                 \/ job'[p].kind = "redate" /\ pc'[p] = "updateRow"
              /\ Target(p)' \in ExpenseIds /\ seen'[p] = expense[Target(p)']
              /\ Reachable(Target(p)', job'[p].kind)
              /\ UNCHANGED <<committed, owner, debit, credit>>
         /\ DeleteExpense(p) =>
              /\ job'[p].kind = "delete" /\ pc'[p] = "sumRows"
              /\ Target(p)' \in ExpenseIds /\ Reachable(Target(p)', "delete")
              /\ UNCHANGED <<committed, owner, seen, debit, credit>>
  <1>b. ASSUME NEW j, NEW l, Begin(p, j, l)
        PROVE  pc[p] = "idle" /\ pc'[p] = l /\ job'[p] = j
    BY <1>b DEF Begin, Goto, TypeOK
  <1>a. \A a \in Amounts : a \in Nat /\ a > 0
    BY CashbookAssumption
  <1>1. ASSUME ReceiveIncome(p)
        PROVE  /\ job'[p].kind = "income" /\ pc'[p] = "lockAll"
               /\ UNCHANGED <<committed, owner, seen, debit>>
               /\ \E pot \in Pots, a \in Amounts :
                    credit'[p] = [t \in Pots |-> IF t = pot THEN a ELSE 0]
    <2>1. PICK pot \in Pots, a \in Amounts :
            /\ Begin(p, [Idle EXCEPT !.amount = a, !.source = pot], "lockAll")
            /\ credit' = [credit EXCEPT ![p] = [t \in Pots |-> IF t = pot THEN a ELSE 0]]
      BY <1>1 DEF ReceiveIncome
    <2>2. pc'[p] = "lockAll" /\ job'[p] = [Idle EXCEPT !.amount = a, !.source = pot]
      BY <1>b, <2>1
    <2>3. credit'[p] = [t \in Pots |-> IF t = pot THEN a ELSE 0]
      BY <2>1 DEF TypeOK
    <2>4. QED
      BY <1>1, <2>2, <2>3 DEF ReceiveIncome, Idle
  <1>2. ASSUME CreateExpense(p)
        PROVE  /\ job'[p].kind = "create" /\ Target(p)' = p /\ job'[p].amount > 0
               /\ pc'[p] = "allocate" /\ UNCHANGED <<committed, owner, seen, debit, credit>>
    <2>1. PICK a \in Amounts, s \in Sources :
            Begin(p, [kind |-> "create", expense |-> p, amount |-> a, source |-> s], "allocate")
      BY <1>2 DEF CreateExpense
    <2>2. /\ pc'[p] = "allocate"
          /\ job'[p] = [kind |-> "create", expense |-> p, amount |-> a, source |-> s]
      BY <1>b, <2>1
    <2>3. QED
      BY <1>2, <1>a, <2>2 DEF CreateExpense, Target
  <1>3. ASSUME UpdateExpense(p)
        PROVE  /\ \/ job'[p].kind = "amend" /\ pc'[p] = "allocate" /\ job'[p].amount > 0
                  \/ job'[p].kind = "redate" /\ pc'[p] = "updateRow"
               /\ Target(p)' \in ExpenseIds /\ seen'[p] = expense[Target(p)']
               /\ Reachable(Target(p)', job'[p].kind)
               /\ UNCHANGED <<committed, owner, debit, credit>>
    <2>1. PICK e \in ExpenseIds :
            /\ seen' = [seen EXCEPT ![p] = expense[e]]
            /\ \/ /\ Reachable(e, "amend")
                  /\ \E a \in Amounts, s \in Sources :
                       Begin(p, [kind |-> "amend", expense |-> e, amount |-> a, source |-> s],
                             "allocate")
               \/ /\ Reachable(e, "redate")
                  /\ Begin(p, [Idle EXCEPT !.kind = "redate", !.expense = e], "updateRow")
      BY <1>3 DEF UpdateExpense
    <2>2. seen'[p] = expense[e] /\ UNCHANGED <<committed, owner, debit, credit>>
      BY <1>3, <2>1 DEF UpdateExpense, TypeOK
    <2>3. ASSUME Reachable(e, "amend"), NEW a \in Amounts, NEW s \in Sources,
                 Begin(p, [kind |-> "amend", expense |-> e, amount |-> a, source |-> s],
                       "allocate")
          PROVE  /\ job'[p].kind = "amend" /\ pc'[p] = "allocate" /\ job'[p].amount > 0
                 /\ Target(p)' = e /\ Reachable(e, job'[p].kind)
      <3>1. /\ pc'[p] = "allocate"
            /\ job'[p] = [kind |-> "amend", expense |-> e, amount |-> a, source |-> s]
        BY <1>b, <2>3
      <3>2. QED
        BY <1>a, <2>3, <3>1 DEF Target
    <2>4. ASSUME Reachable(e, "redate"),
                 Begin(p, [Idle EXCEPT !.kind = "redate", !.expense = e], "updateRow")
          PROVE  /\ job'[p].kind = "redate" /\ pc'[p] = "updateRow"
                 /\ Target(p)' = e /\ Reachable(e, job'[p].kind)
      <3>1. pc'[p] = "updateRow" /\ job'[p] = [Idle EXCEPT !.kind = "redate", !.expense = e]
        BY <1>b, <2>4
      <3>2. QED
        BY <2>4, <3>1 DEF Target, Idle
    <2>5. QED
      BY <2>1, <2>2, <2>3, <2>4
  <1>4. ASSUME DeleteExpense(p)
        PROVE  /\ job'[p].kind = "delete" /\ pc'[p] = "sumRows"
               /\ Target(p)' \in ExpenseIds /\ Reachable(Target(p)', "delete")
               /\ UNCHANGED <<committed, owner, seen, debit, credit>>
    <2>1. PICK e \in ExpenseIds :
            /\ Reachable(e, "delete")
            /\ Begin(p, [Idle EXCEPT !.kind = "delete", !.expense = e], "sumRows")
      BY <1>4 DEF DeleteExpense
    <2>2. pc'[p] = "sumRows" /\ job'[p] = [Idle EXCEPT !.kind = "delete", !.expense = e]
      BY <1>b, <2>1
    <2>3. QED
      BY <1>4, <2>1, <2>2 DEF DeleteExpense, Target, Idle
  <1>5. QED
    BY <1>1, <1>2, <1>3, <1>4

\* What is divided comes to the amount asked for.
LEMMA DivisionIsAmount ==
  ASSUME JobsInv, NEW p \in Requests, Allocate(p)
  PROVE  /\ debit'[p] = AllocateAmounts(job[p].source, job[p].amount, Available(p))
         /\ SumOf(debit'[p]) > 0
  <1>1. TypeOK /\ IInv /\ JobFits(p) /\ CounterFitsJob(p)
    BY DEF JobsInv, IInv, RequestInv
  <1>2. debit'[p] = AllocateAmounts(job[p].source, job[p].amount, Available(p))
    BY <1>1 DEF Allocate, TypeOK
  <1>3. Available(p) \in Split /\ job[p].source \in Sources /\ job[p].amount \in Nat
    <2>1. View(p) \in [Books -> Int] /\ \A b \in Books : View(p)[b] >= 0
      BY <1>1, ViewAndEffect DEF IInv, RequestInv, ViewIsNonNegative
    <2>2. job[p] \in Job /\ seen[p] \in Split /\ Amounts \cup {0} \subseteq Nat
      BY <1>1, CashbookAssumption DEF TypeOK
    <2>3. QED
      BY <2>1, <2>2 DEF Available, Job, Split, Pots, Books
  <1>4. SumOf(AllocateAmounts(job[p].source, job[p].amount, Available(p))) = job[p].amount
    BY <1>3, AllocationDivides DEF Allocate
  <1>5. QED
    BY <1>1, <1>2, <1>4 DEF JobFits, CounterFitsJob, Allocate

LEMMA JobFitsKept ==
  ASSUME JobsInv, NEW p \in Requests, Step(p), NEW q \in Requests
  PROVE  JobFits(q)'
  <1>1. TypeOK /\ IInv /\ JobFits(q) /\ AmountsFit(p) /\ CounterFitsJob(p)
    BY DEF JobsInv, IInv, RequestInv
  <1>2. CASE q # p
    <2>1. Spares(q)
      BY <1>1, <1>2, OthersKeep
    <2>2. QED
      BY <1>1, <2>1 DEF JobFits, Spares, InTransaction, Target
  <1>3. CASE q = p
    <2>0. JobFits(p)
      BY <1>1, <1>3
    <2>1. CASE ReceiveIncome(p) \/ CreateExpense(p) \/ UpdateExpense(p) \/ DeleteExpense(p)
      <3>1. pc[p] = "idle" /\ debit[p] = Nothing /\ credit[p] = Nothing
        BY <1>1, <2>0, <2>1 DEF ReceiveIncome, CreateExpense, UpdateExpense, DeleteExpense,
             Begin, AmountsFit, JobFits, InTransaction
      <3>2. QED
        BY <1>1, <1>3, <2>1, <3>1, JobsBegin DEF JobFits, InTransaction
    <2>2. CASE Allocate(p)
      <3>1. SumOf(debit'[p]) > 0
        BY <2>2, DivisionIsAmount DEF JobsInv
      <3>2. pc[p] = "allocate" /\ pc'[p] \in {"lockAll", "updateRow"}
            /\ UNCHANGED <<job, credit>> /\ job[p].kind \in {"create", "amend"}
        BY <1>1, <2>2 DEF Allocate, Goto, TypeOK, CounterFitsJob
      <3>3. QED
        BY <1>3, <2>0, <3>1, <3>2 DEF JobFits, InTransaction, Target
    <2>3. CASE UpdateRow(p)
      <3>1. /\ pc[p] = "updateRow" /\ pc'[p] = "lockAll" /\ job' = job
            /\ job[p].kind \in {"amend", "redate"}
            /\ job[p].kind = "amend" => debit' = debit
        BY <1>1, <2>3 DEF UpdateRow, Goto, TypeOK, CounterFitsJob
      <3>2. QED
        BY <1>3, <2>0, <3>1 DEF JobFits, InTransaction, Target
    <2>4. CASE LockBalance(p) \/ ReadBalances(p) \/ Post(p)
      <3>1. /\ UNCHANGED <<job, credit, debit>>
            /\ \/ pc' = pc
               \/ pc[p] = "lockAll" /\ pc'[p] = "post"
               \/ pc[p] = "post" /\ pc'[p] = "commit"
        BY <1>1, <2>4 DEF LockBalance, ReadBalances, Post, locals, Goto, TypeOK
      <3>2. QED
        BY <1>3, <2>0, <3>1 DEF JobFits, InTransaction, Target
    <2>5. CASE SumRows(p) \/ AdjustBalance(p) \/ RemoveRow(p)
      <3>1. job' = job /\ job[p].kind = "delete" /\ InTransaction(p)'
        BY <1>1, <2>5 DEF SumRows, AdjustBalance, AfterAdjusting, RemoveRow, locals, Adjustments,
             CounterFitsJob, Goto, TypeOK, InTransaction
      <3>2. QED
        BY <1>3, <3>1 DEF JobFits
    <2>6. CASE Commit(p) \/ CommitDelete(p) \/ Fail(p) \/ Crash(p) \/ BreakDeadlock(p)
      <3>1. PICK o \in {"committed", "rolledBack"} : Finish(p, o)
        BY <2>6 DEF Commit, CommitDelete, Fail, Crash, BreakDeadlock
      <3>2. pc'[p] = o /\ job'[p] = Idle /\ credit'[p] = Nothing
        BY <1>1, <3>1, FinishForgets
      <3>3. QED
        BY <1>3, <3>2 DEF JobFits, InTransaction, Idle
    <2>7. QED
      BY <2>1, <2>2, <2>3, <2>4, <2>5, <2>6 DEF Step, Progress
  <1>4. QED
    BY <1>2, <1>3

LEMMA JobsInit == Init => JobsInv
  BY InitInv DEF Init, JobsInv, JobFits, InTransaction, Idle

LEMMA JobsStep == JobsInv /\ [Next]_vars => JobsInv'
  <1> SUFFICES ASSUME JobsInv, [Next]_vars PROVE JobsInv'
    OBVIOUS
  <1>1. IInv'
    BY StepInv DEF JobsInv
  <1>2. CASE UNCHANGED vars
    BY <1>1, <1>2 DEF vars, locals, JobsInv, JobFits, InTransaction, Target
  <1>3. ASSUME NEW p \in Requests, Step(p) PROVE JobsInv'
    BY <1>1, <1>3, JobFitsKept DEF JobsInv
  <1>4. QED
    BY <1>2, <1>3 DEF Next, Quiet

\* Only an operation on expense e changes its row.
LEMMA RowChanges ==
  ASSUME TypeOK, NEW p \in Requests, Step(p), NEW e \in ExpenseIds, expense'[e] # expense[e]
  PROVE  /\ Target(p) = e /\ pc[p] = "commit"
         /\ job[p].kind \in {"create", "amend", "redate", "delete"}
         /\ job[p].kind = "delete" => expense'[e] = None
  <1>1. Target(p) = e
    BY RowsChange
  <1>2. Commit(p) \/ CommitDelete(p)
    BY NothingCommitted DEF committed
  <1>3. job[p].kind \in AllKinds
    BY DEF TypeOK, Job
  <1>4. QED
    BY <1>1, <1>2, <1>3 DEF Commit, CommitDelete, RowAfter, AllKinds, TypeOK

\* An expense whose row another request has locked, or that is gone while another works
\* on it, stays as it is.
LEMMA ExpenseKept ==
  ASSUME RowsInv, NEW p \in Requests, Step(p), NEW q \in Requests, q # p,
         Target(q) \in ExpenseIds, owner[Target(q)] = q \/ expense[Target(q)] = None
  PROVE  expense'[Target(q)] = expense[Target(q)]
  <1>1. /\ TypeOK /\ TargetFits(q) /\ ReversalFits(p) /\ DeletionFits(p) /\ JobFits(p)
        /\ None \notin Requests
    BY CashbookAssumption DEF RowsInv, TargetsInv, SnapshotInv, IInv, JobsInv
  <1> SUFFICES ASSUME expense'[Target(q)] # expense[Target(q)] PROVE FALSE
    OBVIOUS
  <1>2. /\ Target(p) = Target(q) /\ pc[p] = "commit"
        /\ job[p].kind \in {"create", "amend", "redate", "delete"}
        /\ job[p].kind = "delete" => expense'[Target(q)] = None
    BY <1>1, RowChanges
  <1>3. CASE job[p].kind = "create"
    BY <1>1, <1>2, <1>3 DEF JobFits, TargetFits
  <1>4. CASE job[p].kind \in {"amend", "redate"}
    BY <1>1, <1>2, <1>4 DEF ReversalFits
  <1>5. CASE job[p].kind = "delete"
    BY <1>1, <1>2, <1>5 DEF DeletionFits
  <1>6. QED
    BY <1>2, <1>3, <1>4, <1>5

\* What a request has of its expense is kept by the steps of the others.
LEMMA RowsKeptByOthers ==
  ASSUME ~({"redate", "amend"} \subseteq Overlapping), RowsInv, NEW p \in Requests, Step(p),
         NEW q \in Requests, q # p
  PROVE  (ReversalFits(q) /\ SeenIsStill(q) /\ DeletionFits(q))'
  <1>1. /\ TypeOK /\ ReversalFits(q) /\ SeenIsStill(q) /\ DeletionFits(q) /\ MayOverlap(q)
        /\ SeenIsStill(p) /\ ReversalFits(p) /\ JobFits(p) /\ TargetFits(q) /\ TargetFits(p)
        /\ None \notin ExpenseIds
    BY CashbookAssumption DEF RowsInv, JobsInv, TargetsInv, SnapshotInv, IInv, ExpenseIds
  <1>2. Spares(q) /\ Target(q)' = Target(q)
    BY <1>1, OthersKeep DEF Spares, Target
  <1>3. job[q].kind \in {"amend", "redate", "delete"} => Target(q) \in ExpenseIds
    BY <1>1 DEF TypeOK, Job, Target
  <1>4. Target(q) \in ExpenseIds => Target(q) \in Rows
    BY DEF Rows
  <1>5. ReversalFits(q)'
    BY <1>1, <1>2, <1>3, <1>4, ExpenseKept DEF ReversalFits, Spares
  <1>6. SeenIsStill(q)'
    <2> SUFFICES ASSUME job[q].kind = "redate"
                 PROVE  expense'[Target(q)] \in {expense[Target(q)], None}
      BY <1>1, <1>2 DEF SeenIsStill, Spares
    <2> SUFFICES ASSUME expense'[Target(q)] # expense[Target(q)]
                 PROVE  expense'[Target(q)] = None
      OBVIOUS
    <2>1. /\ Target(q) \in ExpenseIds /\ Target(p) = Target(q) /\ pc[p] = "commit"
          /\ job[p].kind \in {"create", "amend", "redate", "delete"}
          /\ job[p].kind = "delete" => expense'[Target(q)] = None
      BY <1>1, <1>3, RowChanges
    <2>2. job[p].kind # "amend"
      BY <1>1, <2>1 DEF MayOverlap
    <2>3. job[p].kind # "create"
      BY <1>1, <2>1 DEF JobFits, TargetFits
    <2>4. job[p].kind # "redate"
      <3>1. SUFFICES ASSUME job[p].kind = "redate"
                     PROVE  expense'[Target(q)] = expense[Target(q)]
        OBVIOUS
      <3>2. Commit(p)
        BY <2>1, <3>1, NothingCommitted DEF committed, CommitDelete
      <3>3. QED
        BY <1>1, <2>1, <3>1, <3>2 DEF Commit, RowAfter, TypeOK
    <2>5. QED
      BY <2>1, <2>2, <2>3, <2>4
  <1>7. DeletionFits(q)'
    BY <1>1, <1>2, <1>3, <1>4, ExpenseKept DEF DeletionFits, Spares
  <1>8. QED
    BY <1>5, <1>6, <1>7

\* And built up by its own.
LEMMA RowsKeptByItself ==
  ASSUME RowsInv, NEW p \in Requests, Step(p)
  PROVE  (ReversalFits(p) /\ SeenIsStill(p) /\ DeletionFits(p))'
  <1>1. /\ TypeOK /\ ReversalFits(p) /\ SeenIsStill(p) /\ DeletionFits(p) /\ CounterFitsJob(p)
        /\ LedgerMatchesExpenses /\ None \notin Requests
    BY CashbookAssumption DEF RowsInv, TargetsInv, SnapshotInv, IInv, RequestInv
  <1>2. job[p].kind \in {"amend", "redate", "delete"} => Target(p) \in ExpenseIds
    BY <1>1 DEF TypeOK, Job, Target
  <1>3. CASE ReceiveIncome(p) \/ CreateExpense(p) \/ UpdateExpense(p) \/ DeleteExpense(p)
    BY <1>1, <1>3, JobsBegin DEF ReversalFits, SeenIsStill, DeletionFits, committed
  <1>4. CASE UpdateRow(p)
    <2>1. /\ pc[p] = "updateRow" /\ pc'[p] = "lockAll" /\ UNCHANGED <<job, seen, expense>>
          /\ job[p].kind \in {"amend", "redate"}
      BY <1>1, <1>4 DEF UpdateRow, Goto, TypeOK, CounterFitsJob, committed
    <2>2. expense[Target(p)] # None /\ owner'[Target(p)] = p
      BY <1>1, <1>2, <1>4, <2>1 DEF UpdateRow, Lock, Wanted, Adjustments
    <2>3. credit'[p] = expense[Target(p)]
      BY <1>1, <1>2, <1>4, <2>1 DEF UpdateRow, Reversed, LedgerMatchesExpenses, TypeOK
    <2>4. job[p].kind = "redate" => debit'[p] = seen[p]
      BY <1>1, <1>4 DEF UpdateRow, TypeOK
    <2>5. QED
      BY <1>1, <2>1, <2>2, <2>3, <2>4 DEF ReversalFits, SeenIsStill, DeletionFits, Target
  <1>5. CASE LockBalance(p) \/ ReadBalances(p) \/ Post(p)
    <2>1. /\ UNCHANGED <<job, seen, expense, credit, debit>>
          /\ pc[p] \in {"allocate", "lockAll", "post"} /\ job[p].kind # "delete"
          /\ \/ pc'[p] = pc[p]
             \/ pc[p] = "lockAll" /\ pc'[p] = "post"
             \/ pc[p] = "post" /\ pc'[p] = "commit"
      BY <1>1, <1>5 DEF LockBalance, ReadBalances, Post, committed, locals, Goto, TypeOK,
           CounterFitsJob
    <2>2. \A r \in Rows : owner[r] = p => owner'[r] = p
      BY <1>5 DEF LockBalance, ReadBalances, Post, Lock
    <2>3. QED
      BY <1>1, <1>2, <2>1, <2>2 DEF ReversalFits, SeenIsStill, DeletionFits, Target, Rows
  <1>6. CASE Allocate(p) \/ SumRows(p) \/ AdjustBalance(p)
    <2>1. /\ UNCHANGED <<job, seen, expense>> /\ pc'[p] # "commit"
          /\ job[p].kind # "redate" /\ (job[p].kind = "amend" => pc'[p] = "updateRow")
      BY <1>1, <1>6 DEF Allocate, SumRows, AdjustBalance, AfterAdjusting, Adjustments,
           committed, locals, Goto, TypeOK, CounterFitsJob
    <2>2. QED
      BY <2>1 DEF ReversalFits, SeenIsStill, DeletionFits
  <1>7. CASE RemoveRow(p)
    <2>1. UNCHANGED <<job, expense>> /\ job[p].kind = "delete" /\ pc[p] = "removeRow"
      BY <1>1, <1>7 DEF RemoveRow, committed, locals, CounterFitsJob
    <2>2. owner'[Target(p)] = p \/ expense[Target(p)] = None
      BY <1>2, <1>7, <2>1 DEF RemoveRow, Lock, Wanted, Rows
    <2>3. QED
      BY <2>1, <2>2 DEF ReversalFits, SeenIsStill, DeletionFits, Target
  <1>8. CASE Commit(p) \/ CommitDelete(p) \/ Fail(p) \/ Crash(p) \/ BreakDeadlock(p)
    <2>1. job'[p] = Idle
      BY <1>1, <1>8, FinishForgets DEF Commit, CommitDelete, Fail, Crash, BreakDeadlock
    <2>2. QED
      BY <2>1 DEF ReversalFits, SeenIsStill, DeletionFits, Idle
  <1>9. QED
    BY <1>3, <1>4, <1>5, <1>6, <1>7, <1>8 DEF Step, Progress

\* A new amount for an old one, or one where there was nothing: the rows of the expense
\* add up to what it costs now.
LEMMA ReversalSums ==
  ASSUME NEW old \in Split, NEW new \in Split
  PROVE  Plus(Minus(Nothing, old), Minus(old, new)) = Minus(Nothing, new)
  <1> DEFINE x == Minus(Nothing, old)
             y == Minus(old, new)
  <1>1. /\ old \in [Pots -> Int] /\ new \in [Pots -> Int] /\ Nothing \in [Pots -> Int]
    BY NothingIsZero DEF Split
  <1>2. /\ x \in [Pots -> Int] /\ y \in [Pots -> Int] /\ Minus(Nothing, new) \in [Pots -> Int]
        /\ \A t \in Pots : x[t] = Nothing[t] - old[t] /\ y[t] = old[t] - new[t]
        /\ \A t \in Pots : Minus(Nothing, new)[t] = Nothing[t] - new[t]
    BY <1>1, PlusMinus
  <1> HIDE DEF x, y
  <1>3. Plus(x, y) \in [Pots -> Int] /\ \A t \in Pots : Plus(x, y)[t] = x[t] + y[t]
    BY <1>2, PlusMinus
  <1>4. ASSUME NEW t \in Pots PROVE Plus(x, y)[t] = Minus(Nothing, new)[t]
    <2>1. PICK i \in Int, j \in Int, k \in Int : i = Nothing[t] /\ j = old[t] /\ k = new[t]
      BY <1>1
    <2>2. Plus(x, y)[t] = (i - j) + (j - k) /\ Minus(Nothing, new)[t] = i - k
      BY <1>2, <1>3, <2>1
    <2>3. QED
      BY <2>2
  <1>5. QED
    BY <1>2, <1>3, <1>4 DEF x, y

LEMMA NothingFromNothing == Minus(Nothing, Nothing) = Nothing
  <1>1. DOMAIN Nothing = Pots /\ \A t \in Pots : Nothing[t] - Nothing[t] = 0
    BY NothingIsZero DEF Pots, Nothing, SplitOf
  <1>2. QED
    BY <1>1 DEF Minus, Nothing, SplitOf

\* What a commit writes to the row of p's expense and to its ledger.
LEMMA LedgerKept ==
  ASSUME RowsInv, TypeOK', NEW p \in Requests, Step(p)
  PROVE  LedgerMatchesExpenses'
  <1>1. /\ TypeOK /\ ReversalFits(p) /\ SeenIsStill(p) /\ TargetFits(p) /\ JobFits(p)
        /\ LedgerMatchesExpenses /\ None \notin Split
    BY CashbookAssumption DEF RowsInv, TargetsInv, SnapshotInv, IInv, JobsInv
  <1>2. CASE UNCHANGED committed
    BY <1>1, <1>2 DEF committed, ledger, LedgerMatchesExpenses
  <1> DEFINE e == Target(p)
  <1>3. CASE CommitDelete(p)
    <2>1. e \in ExpenseIds
      BY <1>1, <1>3 DEF TypeOK, Job, Target, CommitDelete
    <2>2. expense' = [expense EXCEPT ![e] = None] /\ ledgerTop' = [ledgerTop EXCEPT ![e] = None]
          /\ ledgerNet' = [ledgerNet EXCEPT ![e] = Nothing]
      BY <1>3 DEF CommitDelete, RowAfter
    <2>3. QED
      BY <1>1, <2>1, <2>2 DEF LedgerMatchesExpenses, TypeOK
  <1>4. CASE Commit(p) /\ job[p].kind # "income"
    <2>1. e \in ExpenseIds /\ debit[p] \in Split /\ pc[p] = "commit"
          /\ job[p].kind \in {"create", "amend", "redate"}
      BY <1>1, <1>4 DEF TypeOK, Job, Target, Commit, AllKinds
    <2>2. /\ expense' = [expense EXCEPT ![e] = RowAfter(p)]
          /\ ledgerTop' = [ledgerTop EXCEPT ![e] = debit[p]]
          /\ ledgerNet' = [ledgerNet EXCEPT ![e] = Plus(ledgerNet[e], Minus(credit[p], debit[p]))]
      BY <1>4 DEF Commit
    <2>3. RowAfter(p) = debit[p]
      BY <1>1, <2>1 DEF RowAfter, SeenIsStill, ReversalFits
    <2>4. ledgerNet[e] = Minus(Nothing, credit[p]) /\ credit[p] \in Split
      <3>1. CASE job[p].kind = "create"
        <4>1. expense[e] = None /\ credit[p] = Nothing
          BY <1>1, <2>1, <3>1 DEF TargetFits, JobFits
        <4>2. QED
          BY <1>1, <2>1, <4>1, NothingIsZero, NothingFromNothing DEF LedgerMatchesExpenses
      <3>2. CASE job[p].kind \in {"amend", "redate"}
        <4>1. credit[p] = expense[e] /\ expense[e] # None
          BY <1>1, <2>1, <3>2 DEF ReversalFits
        <4>2. QED
          BY <1>1, <2>1, <4>1 DEF LedgerMatchesExpenses, TypeOK
      <3>3. QED
        BY <2>1, <3>1, <3>2
    <2>5. Plus(ledgerNet[e], Minus(credit[p], debit[p])) = Minus(Nothing, debit[p])
      BY <2>1, <2>4, ReversalSums
    <2>6. QED
      BY <1>1, <2>1, <2>2, <2>3, <2>5 DEF LedgerMatchesExpenses, TypeOK
  <1>5. CASE Commit(p) /\ job[p].kind = "income"
    BY <1>1, <1>5 DEF Commit, LedgerMatchesExpenses
  <1>6. QED
    BY <1>2, <1>3, <1>4, <1>5, NothingCommitted

LEMMA RowsInit == Init => RowsInv
  <1> SUFFICES ASSUME Init PROVE RowsInv
    OBVIOUS
  <1>1. \A p \in Requests : ReversalFits(p) /\ SeenIsStill(p) /\ DeletionFits(p)
    BY DEF Init, ReversalFits, SeenIsStill, DeletionFits, Idle
  <1>2. LedgerMatchesExpenses
    BY CashbookAssumption DEF Init, LedgerMatchesExpenses
  <1>3. QED
    BY <1>1, <1>2, TargetsInit, JobsInit DEF RowsInv

LEMMA RowsStep ==
  ASSUME ~({"redate", "amend"} \subseteq Overlapping)
  PROVE  RowsInv /\ [Next]_vars => RowsInv'
  <1> SUFFICES ASSUME RowsInv, [Next]_vars PROVE RowsInv'
    OBVIOUS
  <1>1. TargetsInv' /\ JobsInv' /\ TypeOK'
    BY TargetsStep, JobsStep DEF RowsInv, JobsInv, IInv
  <1>2. CASE UNCHANGED vars
    <2> USE <1>2 DEF vars, committed, ledger, locals
    <2>1. ASSUME NEW p \in Requests PROVE (ReversalFits(p) /\ SeenIsStill(p) /\ DeletionFits(p))'
      <3>1. ReversalFits(p) /\ SeenIsStill(p) /\ DeletionFits(p)
        BY DEF RowsInv
      <3>2. QED
        BY <3>1 DEF ReversalFits, SeenIsStill, DeletionFits, Target
    <2>2. LedgerMatchesExpenses'
      BY DEF RowsInv, LedgerMatchesExpenses
    <2>3. QED
      BY <1>1, <2>1, <2>2 DEF RowsInv
  <1>3. ASSUME NEW p \in Requests, Step(p) PROVE RowsInv'
    <2>1. ASSUME NEW q \in Requests PROVE (ReversalFits(q) /\ SeenIsStill(q) /\ DeletionFits(q))'
      BY <1>3, <2>1, RowsKeptByItself, RowsKeptByOthers
    <2>2. LedgerMatchesExpenses'
      BY <1>1, <1>3, LedgerKept
    <2>3. QED
      BY <1>1, <2>1, <2>2 DEF RowsInv
  <1>4. QED
    BY <1>2, <1>3 DEF Next, Quiet

\* As long as no amendment overlaps a change of the date alone, an expense always costs
\* what its latest ledger row says, and its rows add up to that: everything else may
\* overlap as it likes, also on one expense.
THEOREM LedgerAlwaysMatchesExpenses ==
  ASSUME ~({"redate", "amend"} \subseteq Overlapping)
  PROVE  Spec => []LedgerMatchesExpenses
  <1>1. RowsInv => LedgerMatchesExpenses
    BY DEF RowsInv
  <1>2. RowsInv /\ [Next]_vars => RowsInv'
    BY RowsStep
  <1>3. QED
    BY <1>1, <1>2, RowsInit, PTL DEF Spec

-----------------------------------------------------------------------------
(* How an expense is divided. *)

LEMMA DivisionKept ==
  ASSUME DivisionInv, NEW p \in Requests, Step(p), NEW q \in Requests
  PROVE  DivisionHolds(q)'
  <1>1. /\ TypeOK /\ IInv /\ DivisionHolds(q) /\ DivisionHolds(p) /\ CounterFitsJob(p)
        /\ RequestInv(p) /\ Pots \subseteq Books /\ Pots \subseteq Rows
    BY DEF DivisionInv, JobsInv, IInv, RequestInv, Pots, Books, Rows
  <1>2. CASE q # p
    <2>1. Spares(q)
      BY <1>1, <1>2, OthersKeep
    <2> SUFFICES ASSUME \A t \in Pots : owner[t] = q
                 PROVE  balance'["capital"] = balance["capital"]
      BY <1>1, <2>1 DEF DivisionHolds, Spares
    <2>2. "capital" \in Books /\ owner["capital"] # p
      BY <1>2 DEF Pots, Books
    <2>3. delta[p]["capital"] = 0
      BY <1>1, <2>2 DEF RequestInv, ChangesAreLocked
    <2>4. View(p)["capital"] = balance["capital"] + 0 /\ balance["capital"] \in Int
      BY <1>1, <2>2, <2>3, ViewAndEffect DEF TypeOK, Signed
    <2>5. QED
      BY <1>1, <2>4, BalanceChanges
  <1>3. CASE q = p
    <2>1. CASE ReceiveIncome(p) \/ CreateExpense(p) \/ UpdateExpense(p) \/ DeleteExpense(p)
      BY <1>1, <1>3, <2>1, JobsBegin DEF DivisionHolds
    <2>2. CASE Allocate(p)
      <3>1. /\ pc[p] = "allocate" /\ UNCHANGED <<job, seen, balance, owner>>
            /\ job[p].kind \in {"create", "amend"}
        BY <1>1, <2>2 DEF Allocate, CounterFitsJob, committed
      <3>2. \A t \in Pots : owner[t] = p
        BY <1>1, <2>2, <3>1 DEF Allocate, Wanted
      <3>3. debit'[p] = AllocateAmounts(job[p].source, job[p].amount, Available(p))
        BY <2>2, DivisionIsAmount DEF DivisionInv
      <3>4. \A b \in Books : delta[p][b] = 0
        BY <1>1, <3>1 DEF RequestInv, DeltaIsEffect, Moved
      <3>5. Available(p)["capital"] =
              balance["capital"] + (IF job[p].kind = "amend" THEN seen[p]["capital"] ELSE 0)
        BY <1>1, <3>4, ViewUnmoved DEF Available, Pots
      <3>6. job[p].source \in {"auto", "total"} /\ debit'[p]["shu"] > 0
            => debit'[p]["capital"] = Available(p)["capital"]
        BY <3>3 DEF AllocateAmounts, SplitOf, Pots
      <3>7. QED
        BY <1>3, <3>1, <3>2, <3>5, <3>6 DEF DivisionHolds
    <2>3. CASE UpdateRow(p) \/ LockBalance(p) \/ ReadBalances(p)
      <3>1. /\ UNCHANGED <<job, seen, balance>>
            /\ job[p].kind \in {"create", "amend"} => debit' = debit
        BY <1>1, <2>3 DEF UpdateRow, LockBalance, ReadBalances, committed, locals, CounterFitsJob
      <3>2. \A t \in Pots : owner[t] = p => owner'[t] = p
        BY <1>1, <2>3 DEF UpdateRow, LockBalance, ReadBalances, Lock
      <3>3. pc'[p] = pc[p] \/ pc[p] \in {"updateRow", "lockAll"}
        BY <2>3 DEF UpdateRow, LockBalance, ReadBalances
      <3>4. QED
        BY <1>1, <1>3, <3>1, <3>2, <3>3 DEF DivisionHolds
    <2>4. CASE Post(p)
      <3>1. pc[p] = "post" /\ UNCHANGED <<job, seen, debit, balance, owner>>
        BY <2>4 DEF Post, committed, locals
      <3>2. QED
        BY <1>1, <1>3, <3>1 DEF DivisionHolds
    <2>5. CASE SumRows(p) \/ AdjustBalance(p) \/ RemoveRow(p)
      <3>1. job'[p].kind = "delete"
        BY <1>1, <2>5 DEF SumRows, AdjustBalance, RemoveRow, CounterFitsJob, locals
      <3>2. QED
        BY <1>3, <3>1 DEF DivisionHolds
    <2>6. CASE Commit(p) \/ CommitDelete(p) \/ Fail(p) \/ Crash(p) \/ BreakDeadlock(p)
      <3>1. job'[p] = Idle
        BY <1>1, <2>6, FinishForgets DEF Commit, CommitDelete, Fail, Crash, BreakDeadlock
      <3>2. QED
        BY <1>3, <3>1 DEF DivisionHolds, Idle
    <2>7. QED
      BY <2>1, <2>2, <2>3, <2>4, <2>5, <2>6 DEF Step, Progress
  <1>4. QED
    BY <1>2, <1>3

LEMMA DivisionInit == Init => DivisionInv
  BY JobsInit DEF Init, DivisionInv, DivisionHolds, Idle

LEMMA DivisionStep == DivisionInv /\ [Next]_vars => DivisionInv'
  <1> SUFFICES ASSUME DivisionInv, [Next]_vars PROVE DivisionInv'
    OBVIOUS
  <1>1. JobsInv'
    BY JobsStep DEF DivisionInv
  <1>2. CASE UNCHANGED vars
    BY <1>1, <1>2 DEF vars, committed, ledger, locals, DivisionInv, DivisionHolds
  <1>3. ASSUME NEW p \in Requests, Step(p) PROVE DivisionInv'
    BY <1>1, <1>3, DivisionKept DEF DivisionInv
  <1>4. QED
    BY <1>2, <1>3 DEF Next, Quiet

\* A request that takes the capital there is leaves none when it commits.
LEMMA CapitalIsLeftEmpty ==
  ASSUME DivisionInv, NEW p \in Requests, pc[p] = "commit",
         job[p].source \in {"auto", "total"}, debit[p]["shu"] > 0,
         job[p].kind = "create" \/ (job[p].kind = "amend" /\ seen[p] = credit[p])
  PROVE  View(p)["capital"] = 0
  <1>1. IInv /\ TypeOK /\ DivisionHolds(p) /\ JobFits(p)
    BY DEF DivisionInv, JobsInv, IInv
  <1>2. debit[p]["capital"] =
          balance["capital"] + (IF job[p].kind = "amend" THEN seen[p]["capital"] ELSE 0)
    BY <1>1 DEF DivisionHolds
  <1>3. job[p].kind = "create" => credit[p]["capital"] = 0
    BY <1>1, NothingIsZero DEF JobFits
  <1>4. debit[p]["capital"] = balance["capital"] + credit[p]["capital"]
    <2>1. balance["capital"] \in Int
      BY <1>1 DEF TypeOK, Signed, Books
    <2>2. QED
      BY <1>2, <1>3, <2>1
  <1>5. View(p)["capital"] = balance["capital"] + (credit[p]["capital"] - debit[p]["capital"])
    <2>1. balance \in [Books -> Int] /\ Effect(p) \in [Books -> Int] /\ "capital" \in Books
      BY <1>1, ViewAndEffect DEF TypeOK, Signed, Books
    <2>2. QED
      BY <1>1, <2>1, ViewAtCommit, ViewAndEffect, PlusMinus
  <1>6. balance["capital"] \in Int /\ credit[p]["capital"] \in Int
    BY <1>1 DEF TypeOK, Signed, Split, Books, Pots
  <1>7. QED
    BY <1>4, <1>5, <1>6

\* An expense that may draw on both pots takes surplus only when it leaves no capital
\* behind, whatever other requests receive, pay and commit between its division and its
\* commit; so does an amendment, if what it reverses is what it was shown
\* (allocateAmounts).
THEOREM CapitalAlwaysFirst == Spec => CapitalFirst
  <1> DEFINE Drawn(p) ==
        /\ pc[p] = "commit" /\ pc'[p] = "committed"
        /\ job[p].source \in {"auto", "total"} /\ debit[p]["shu"] > 0
        /\ job[p].kind = "create" \/ (job[p].kind = "amend" /\ seen[p] = credit[p])
  <1>1. DivisionInv /\ [Next]_vars
        => [\A p \in Requests : Drawn(p) => balance'["capital"] = 0]_vars
    <2> SUFFICES ASSUME DivisionInv, Next, NEW p \in Requests, Drawn(p)
                 PROVE  balance'["capital"] = 0
      OBVIOUS
    <2>1. IInv /\ TypeOK
      BY DEF DivisionInv, JobsInv, IInv
    <2>2. PICK q \in Requests : Step(q)
      BY DEF Next, Quiet, vars
    <2>3. q = p
      BY <2>1, <2>2, OthersKeep DEF Spares
    <2>4. Commit(p)
      BY <2>1, <2>2, <2>3
      DEF Step, Progress, ReceiveIncome, CreateExpense, UpdateExpense, DeleteExpense, Begin,
          LockBalance, Allocate, ReadBalances, Post, SumRows, UpdateRow, AdjustBalance,
          Adjustments, RemoveRow, CommitDelete, Fail, Crash, BreakDeadlock, Finish, Goto, TypeOK
    <2>5. balance' = View(p)
      BY <2>4 DEF Commit
    <2>6. QED
      BY <2>5, CapitalIsLeftEmpty
  <1>2. QED
    BY <1>1, DivisionInit, DivisionStep, PTL DEF Spec, CapitalFirst

-----------------------------------------------------------------------------
(* The operations of the book. *)

LEMMA DeletesWhatIsKept ==
  ASSUME "delete" \notin Overlapping, BookInv, NEW p \in Requests, Step(p), NEW q \in Requests
  PROVE  DeletesWhatIs(q)'
  <1>1. /\ TypeOK /\ MayOverlap(q) /\ DeletesWhatIs(q) /\ JobFits(p) /\ CounterFitsJob(p)
        /\ None \notin ExpenseIds
    BY CashbookAssumption
    DEF BookInv, RowsInv, TargetsInv, SnapshotInv, IInv, RequestInv, JobsInv, ExpenseIds
  <1>2. job[q].kind = "delete" => Target(q) \in ExpenseIds
    BY <1>1 DEF TypeOK, Job, Target
  <1>3. CASE q # p
    <2>1. Spares(q)
      BY <1>1, <1>3, OthersKeep
    <2> SUFFICES ASSUME job[q].kind = "delete" PROVE expense'[Target(q)] = expense[Target(q)]
      BY <1>1, <2>1 DEF DeletesWhatIs, Spares, Target
    <2>2. Target(p) # Target(q)
      BY <1>1, <1>2, <1>3 DEF MayOverlap
    <2>3. QED
      BY <1>1, <1>2, <2>2, RowsChange
  <1>4. CASE q = p
    <2>1. CASE ReceiveIncome(p) \/ CreateExpense(p) \/ UpdateExpense(p) \/ DeleteExpense(p)
      BY <1>1, <1>4, <2>1, JobsBegin DEF DeletesWhatIs, Reachable, committed
    <2>2. CASE Commit(p) \/ CommitDelete(p) \/ Fail(p) \/ Crash(p) \/ BreakDeadlock(p)
      <3>1. job'[p] = Idle
        BY <1>1, <2>2, FinishForgets DEF Commit, CommitDelete, Fail, Crash, BreakDeadlock
      <3>2. QED
        BY <1>4, <3>1 DEF DeletesWhatIs, Idle
    <2>3. CASE \/ LockBalance(p) \/ Allocate(p) \/ UpdateRow(p) \/ ReadBalances(p) \/ Post(p)
               \/ SumRows(p) \/ AdjustBalance(p) \/ RemoveRow(p)
      <3>1. UNCHANGED <<job, expense>>
        BY <2>3 DEF LockBalance, Allocate, UpdateRow, ReadBalances, Post, SumRows,
             AdjustBalance, RemoveRow, committed, locals
      <3>2. QED
        BY <1>1, <1>4, <3>1 DEF DeletesWhatIs, Target
    <2>4. QED
      BY <2>1, <2>2, <2>3 DEF Step, Progress
  <1>5. QED
    BY <1>3, <1>4

LEMMA BookInvInit == Init => BookInv
  BY LedgerInit, RowsInit DEF Init, BookInv, DeletesWhatIs, Idle

LEMMA BookInvStep ==
  ASSUME "delete" \notin Overlapping, ~({"redate", "amend"} \subseteq Overlapping)
  PROVE  BookInv /\ [Next]_vars => BookInv'
  <1> SUFFICES ASSUME BookInv, [Next]_vars PROVE BookInv'
    OBVIOUS
  <1>1. LedgerInv' /\ RowsInv'
    BY LedgerStep, RowsStep DEF BookInv
  <1>2. CASE UNCHANGED vars
    BY <1>1, <1>2 DEF vars, committed, locals, BookInv, DeletesWhatIs, Target
  <1>3. ASSUME NEW p \in Requests, Step(p) PROVE BookInv'
    BY <1>1, <1>3, DeletesWhatIsKept DEF BookInv
  <1>4. QED
    BY <1>2, <1>3 DEF Next, Quiet

\* The book counts as the cashbook does.
LEMMA BookCounts ==
  /\ Promise!Books = Books /\ Promise!Pots = Pots /\ Promise!Nothing = Nothing
  /\ \A x, y : Promise!Plus(x, y) = Plus(x, y) /\ Promise!Minus(x, y) = Minus(x, y)
  /\ \A x : Promise!Entries(x) = Entries(x) /\ Promise!SumOf(x) = SumOf(x)
  BY DEF Promise!Books, Promise!Pots, Promise!Nothing, Promise!Plus, Promise!Minus,
         Promise!Entries, Promise!SumOf, Promise!SplitOf,
         Books, Pots, Nothing, Plus, Minus, Entries, SumOf, SplitOf

LEMMA EntriesOfDifference ==
  ASSUME NEW x \in [Pots -> Int], NEW y \in [Pots -> Int]
  PROVE  Minus(Entries(x), Entries(y)) = Entries(Minus(x, y))
  <1>1. /\ Minus(x, y) \in [Pots -> Int]
        /\ \A t \in Pots : Minus(x, y)[t] = x[t] - y[t]
    BY PlusMinus
  <1>2. /\ Entries(x) \in [Books -> Int] /\ Entries(y) \in [Books -> Int]
        /\ Entries(Minus(x, y)) \in [Books -> Int]
    BY <1>1, EntriesOfAmount
  <1>3. /\ Minus(Entries(x), Entries(y)) \in [Books -> Int]
        /\ \A b \in Books : Minus(Entries(x), Entries(y))[b] = Entries(x)[b] - Entries(y)[b]
    BY <1>2, PlusMinus
  <1>4. /\ x["shu"] \in Int /\ x["capital"] \in Int /\ y["shu"] \in Int /\ y["capital"] \in Int
        /\ Minus(x, y)["shu"] = x["shu"] - y["shu"]
        /\ Minus(x, y)["capital"] = x["capital"] - y["capital"]
    BY <1>1 DEF Pots
  <1>5. \A b \in Books : Minus(Entries(x), Entries(y))[b] = Entries(Minus(x, y))[b]
    BY <1>1, <1>3, <1>4, EntriesOfAmount DEF Books
  <1>6. QED
    BY <1>2, <1>3, <1>5

\* A commit settles what the request gives back against what it takes.
LEMMA CommitSettles ==
  ASSUME IInv, NonNegative', NEW p \in Requests, pc[p] = "commit", balance' = View(p), NEW e
  PROVE  Promise!Settle(e, credit[p], debit[p])
  <1>1. credit[p] \in [Pots -> Int] /\ debit[p] \in [Pots -> Int]
    BY DEF IInv, TypeOK, Signed, Split
  <1>2. balance' = Plus(balance, Minus(Entries(credit[p]), Entries(debit[p])))
    BY <1>1, ViewAtCommit, EntriesOfDifference DEF Effect
  <1>3. \A b \in Books : balance'[b] >= 0
    BY DEF NonNegative
  <1>4. QED
    BY <1>2, <1>3, BookCounts DEF Promise!Settle

\* An amount added to a pot and to the total, and nothing to the other pot.
LEMMA IncomeIsReceived ==
  ASSUME IInv, NEW p \in Requests, JobFits(p), Commit(p), job[p].kind = "income"
  PROVE  Promise!Receive
  <1>1. TypeOK /\ pc[p] = "commit" /\ balance' = View(p) /\ UNCHANGED expense
    BY DEF IInv, Commit
  <1>2. PICK pot \in Pots, a \in Amounts : credit[p] = [t \in Pots |-> IF t = pot THEN a ELSE 0]
    BY <1>1 DEF JobFits, InTransaction
  <1>3. debit[p] = Nothing /\ a \in Nat /\ a > 0
    BY <1>1, CashbookAssumption DEF JobFits, InTransaction
  <1>4. Minus(credit[p], debit[p]) = credit[p]
    <2>1. /\ credit[p] \in [Pots -> Int] /\ Nothing \in [Pots -> Int]
          /\ \A t \in Pots : Nothing[t] = 0
      BY <1>1, NothingIsZero DEF TypeOK, Signed, Split, Pots
    <2>2. /\ Minus(credit[p], Nothing) \in [Pots -> Int]
          /\ \A t \in Pots : Minus(credit[p], Nothing)[t] = credit[p][t] - Nothing[t]
      BY <2>1, PlusMinus
    <2>3. \A t \in Pots : credit[p][t] - Nothing[t] = credit[p][t]
      BY <2>1 DEF Pots
    <2>4. \A t \in Pots : Minus(credit[p], Nothing)[t] = credit[p][t]
      BY <2>2, <2>3
    <2>5. QED
      BY <1>3, <2>1, <2>2, <2>4
  <1>5. balance' = Plus(balance, Entries(credit[p]))
    BY <1>1, <1>4, ViewAtCommit DEF Effect
  <1>6. balance'[pot] = balance[pot] + a /\ balance[pot] \in Int
    <2>1. balance \in [Books -> Int] /\ Entries(credit[p]) \in [Books -> Int] /\ pot \in Books
      BY <1>1, EntriesOfAmount DEF TypeOK, Signed, Pots, Books
    <2>2. Entries(credit[p])[pot] = a
      BY <1>2, <2>1, EntriesOfAmount DEF Entries, Pots
    <2>3. QED
      BY <1>5, <2>1, <2>2, PlusMinus
  <1>7. balance'[pot] > balance[pot] /\ balance'[pot] - balance[pot] = a
    BY <1>3, <1>6
  <1>8. balance' = Plus(balance, Entries([t \in Pots |->
                          IF t = pot THEN balance'[pot] - balance[pot] ELSE 0]))
    BY <1>2, <1>5, <1>7
  <1>9. QED
    BY <1>1, <1>7, <1>8, BookCounts DEF Promise!Receive

\* Each step of a request is a step of the book or leaves the book as it is.
LEMMA StepsOfTheBook ==
  ASSUME BookInv, IInv', NEW p \in Requests, Step(p)
  PROVE  Promise!BookNext \/ UNCHANGED <<balance, expense>>
  <1>1. /\ IInv /\ TypeOK /\ NonNegative' /\ JobFits(p) /\ TargetFits(p) /\ ReversalFits(p)
        /\ SeenIsStill(p) /\ SumIsStill(p) /\ DeletesWhatIs(p) /\ LedgerMatchesExpenses
        /\ None \notin Split
    BY CashbookAssumption
    DEF BookInv, LedgerInv, RowsInv, TargetsInv, SnapshotInv, IInv, JobsInv
  <1> DEFINE e == Target(p)
  <1>2. ASSUME job[p].kind # "income", Commit(p)
        PROVE  /\ e \in ExpenseIds /\ pc[p] = "commit" /\ balance' = View(p)
               /\ expense' = [expense EXCEPT ![e] = RowAfter(p)]
               /\ Promise!Settle(e, credit[p], debit[p])
               /\ debit[p] \in Split /\ debit[p] # None
               /\ job[p].kind \in {"create", "amend", "redate"}
    <2>1. job[p].kind \in {"create", "amend", "redate"} /\ e \in ExpenseIds
      BY <1>1, <1>2 DEF Commit, TypeOK, Job, AllKinds, Target
    <2>2. pc[p] = "commit" /\ balance' = View(p) /\ expense' = [expense EXCEPT ![e] = RowAfter(p)]
      BY <1>2 DEF Commit
    <2>3. QED
      BY <1>1, <2>1, <2>2, CommitSettles DEF TypeOK
  <1>3. CASE Commit(p) /\ job[p].kind = "income"
    BY <1>1, <1>3, IncomeIsReceived DEF Promise!BookNext
  <1>4. CASE Commit(p) /\ job[p].kind = "create"
    <2>1. expense[e] = None /\ credit[p] = Nothing /\ SumOf(debit[p]) > 0
      BY <1>1, <1>2, <1>4 DEF TargetFits, JobFits
    <2>2. expense' = [expense EXCEPT ![e] = debit[p]] /\ expense'[e] = debit[p]
      BY <1>1, <1>2, <1>4 DEF RowAfter, TypeOK
    <2>3. Promise!Spend(e)
      BY <1>2, <1>4, <2>1, <2>2, BookCounts DEF Promise!Spend
    <2>4. QED
      BY <1>2, <1>4, <2>3 DEF Promise!BookNext
  <1>5. CASE Commit(p) /\ job[p].kind = "amend"
    <2>1. expense[e] # None /\ credit[p] = expense[e] /\ SumOf(debit[p]) > 0
      BY <1>1, <1>2, <1>5 DEF ReversalFits, JobFits
    <2>2. expense' = [expense EXCEPT ![e] = debit[p]] /\ expense'[e] = debit[p]
      BY <1>1, <1>2, <1>5 DEF RowAfter, TypeOK
    <2>3. Promise!Amend(e)
      BY <1>2, <1>5, <2>1, <2>2, BookCounts DEF Promise!Amend
    <2>4. QED
      BY <1>2, <1>5, <2>3 DEF Promise!BookNext
  <1>6. CASE Commit(p) /\ job[p].kind = "redate"
    <2>1. expense[e] # None /\ credit[p] = expense[e] /\ debit[p] = expense[e]
      BY <1>1, <1>2, <1>6 DEF ReversalFits, SeenIsStill
    <2>2. UNCHANGED expense
      BY <1>1, <1>2, <1>6 DEF RowAfter, TypeOK
    <2>3. \A b \in Books : Effect(p)[b] = 0 /\ Effect(p) \in [Books -> Int]
      <3>1. debit[p]["shu"] \in Int /\ debit[p]["capital"] \in Int
        BY <1>2, <1>6 DEF Split, Pots
      <3>2. QED
        BY <1>1, <2>1, <3>1, ViewAndEffect DEF Books
    <2>4. \A b \in Books : delta[p][b] = 0
      BY <1>1, <1>2, <1>6, <2>3 DEF IInv, RequestInv, DeltaIsEffect, Moved
    <2>5. UNCHANGED balance
      BY <1>1, <1>2, <1>6, <2>4, ViewUnmoved
    <2>6. QED
      BY <2>2, <2>5
  <1>7. CASE CommitDelete(p)
    <2>1. /\ pc[p] = "commit" /\ job[p].kind = "delete" /\ balance' = View(p)
          /\ expense' = [expense EXCEPT ![e] = None]
      BY <1>7 DEF CommitDelete, RowAfter
    <2>2. e \in ExpenseIds /\ expense[e] # None
      BY <1>1, <2>1 DEF TypeOK, Job, Target, DeletesWhatIs
    <2>3. /\ credit[p] = Minus(Nothing, ledgerNet[e]) /\ debit[p] = Nothing
          /\ ledgerNet[e] = Minus(Nothing, expense[e])
      BY <1>1, <2>1, <2>2 DEF SumIsStill, LedgerMatchesExpenses
    <2>4. credit[p] = expense[e]
      <3>1. expense[e] \in [Pots -> Int] /\ Nothing \in [Pots -> Int]
        BY <1>1, <2>2, NothingIsZero DEF TypeOK, Split
      <3>2. /\ ledgerNet[e] \in [Pots -> Int]
            /\ \A t \in Pots : ledgerNet[e][t] = Nothing[t] - expense[e][t]
        BY <2>3, <3>1, PlusMinus
      <3>3. /\ credit[p] \in [Pots -> Int]
            /\ \A t \in Pots : credit[p][t] = Nothing[t] - ledgerNet[e][t]
        BY <2>3, <3>1, <3>2, PlusMinus
      <3>4. ASSUME NEW t \in Pots PROVE credit[p][t] = expense[e][t]
        <4>1. PICK i \in Int, j \in Int : i = Nothing[t] /\ j = expense[e][t]
          BY <3>1
        <4>2. credit[p][t] = i - (i - j)
          BY <3>2, <3>3, <4>1
        <4>3. QED
          BY <4>1, <4>2
      <3>5. QED
        BY <3>1, <3>3, <3>4
    <2>5. Promise!Settle(e, expense[e], Nothing)
      BY <1>1, <2>1, <2>3, <2>4, CommitSettles
    <2>6. Promise!Cancel(e)
      BY <2>1, <2>2, <2>5, BookCounts DEF Promise!Cancel
    <2>7. QED
      BY <2>2, <2>6 DEF Promise!BookNext
  <1>8. CASE UNCHANGED committed
    BY <1>8 DEF committed
  <1>9. QED
    BY <1>2, <1>3, <1>4, <1>5, <1>6, <1>7, <1>8, NothingCommitted

\* The requests, interleaved statement by statement, crashing and deadlocking, implement
\* the one-step operations of the book, for every set of requests, expenses and amounts:
\* as long as the clients leave an expense alone that is being deleted, and do not amend
\* one whose date is being changed.
THEOREM RequestsImplementBook ==
  ASSUME "delete" \notin Overlapping, ~({"redate", "amend"} \subseteq Overlapping)
  PROVE  Spec => ImplementsBook
  <1>1. Init => Promise!BookInit
    BY BookCounts DEF Init, Promise!BookInit
  <1>2. BookInv /\ [Next]_vars => BookInv'
    BY BookInvStep
  <1>3. BookInv /\ BookInv' /\ [Next]_vars => [Promise!BookNext]_(Promise!bookVars)
    <2> SUFFICES ASSUME BookInv, BookInv', [Next]_vars
                 PROVE  Promise!BookNext \/ UNCHANGED <<balance, expense>>
      BY DEF Promise!bookVars
    <2>1. CASE UNCHANGED vars
      BY <2>1 DEF vars, committed
    <2>2. ASSUME NEW p \in Requests, Step(p)
          PROVE  Promise!BookNext \/ UNCHANGED <<balance, expense>>
      BY <2>2, StepsOfTheBook DEF BookInv, LedgerInv, TargetsInv, SnapshotInv
    <2>3. QED
      BY <2>1, <2>2 DEF Next, Quiet
  <1>4. QED
    BY <1>1, <1>2, <1>3, BookInvInit, PTL DEF Spec, ImplementsBook, Promise!BookSpec

=============================================================================
