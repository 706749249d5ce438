--------------------------- MODULE CashbookProofs ---------------------------
(***************************************************************************)
(* Theorems about Cashbook, for every set of requests, expenses, amounts   *)
(* and operations.  They rest on one inductive invariant, IInv: a request  *)
(* has changed exactly the balances its statement counter says, by its net *)
(* effect, and holds the lock of every balance it has changed.             *)
(***************************************************************************)
EXTENDS Cashbook, TLAPS

\* The balances p has already moved by its net effect.
Moved(p) ==
  CASE pc[p] = "adjustCapital"           -> {"shu"}
    [] pc[p] = "adjustTotal"             -> Pots
    [] pc[p] \in {"removeRow", "commit"} -> Books
    [] OTHER                             -> {}

DeltaIsEffect(p) ==
  \A b \in Books : delta[p][b] = IF b \in Moved(p) THEN Effect(p)[b] ELSE 0

\* An uncommitted change is covered by a row lock.
ChangesAreLocked(p) == \A b \in Books : delta[p][b] # 0 => owner[b] = p

\* A request about to post holds every balance.
PosterHoldsAll(p) == pc[p] = "post" => \A b \in Books : owner[b] = p

\* No transaction sees a negative balance.
ViewIsNonNegative(p) == \A b \in Books : balance[b] + delta[p][b] >= 0

\* A deletion takes nothing out; no other request puts a negative amount in.
AmountsFit(p) ==
  /\ pc[p] \in {"idle", "allocate", "updateRow", "lockAll", "post"} => credit[p] \in Split
  /\ pc[p] \in {"idle", "sumRows", "removeRow"} \cup Adjustments => debit[p] = Nothing

\* What a request is doing fits what it was asked to do.
CounterFitsJob(p) ==
  /\ pc[p] = "allocate" => job[p].kind \in {"create", "amend"}
  /\ pc[p] = "updateRow" => job[p].kind \in {"amend", "redate"}
  /\ pc[p] \in {"lockAll", "post"} => job[p].kind # "delete"
  /\ pc[p] \in {"sumRows", "removeRow"} \cup Adjustments => job[p].kind = "delete"

RequestInv(p) ==
  /\ DeltaIsEffect(p)
  /\ ChangesAreLocked(p)
  /\ PosterHoldsAll(p)
  /\ ViewIsNonNegative(p)
  /\ AmountsFit(p)
  /\ CounterFitsJob(p)

IInv ==
  /\ TypeOK
  /\ TotalIsSum
  /\ NonNegative
  /\ \A p \in Requests : RequestInv(p)

-----------------------------------------------------------------------------
(* Amounts. *)

\* Sums and differences are taken pot by pot, or balance by balance.
LEMMA PlusMinus ==
  ASSUME NEW S, NEW x \in [S -> Int], NEW y \in [S -> Int]
  PROVE  /\ Plus(x, y) \in [S -> Int]
         /\ Minus(x, y) \in [S -> Int]
         /\ \A i \in S : Plus(x, y)[i] = x[i] + y[i] /\ Minus(x, y)[i] = x[i] - y[i]
  BY DEF Plus, Minus

\* What an amount comes to in the three balances; the total is the sum.
LEMMA EntriesOfAmount ==
  ASSUME NEW s \in [Pots -> Int]
  PROVE  /\ Entries(s) \in [Books -> Int]
         /\ Entries(s)["shu"] = s["shu"]
         /\ Entries(s)["capital"] = s["capital"]
         /\ Entries(s)["total"] = s["shu"] + s["capital"]
  BY DEF Entries, Books, Pots, SumOf

LEMMA NothingIsZero ==
  /\ Nothing \in Split
  /\ Nothing["shu"] = 0 /\ Nothing["capital"] = 0
  /\ \A b \in Books : Entries(Nothing)[b] = 0
  BY DEF Nothing, SplitOf, Split, Pots, Entries, SumOf, Books

\* allocateAmounts divides the amount into two natural numbers that add up to it
\* and draws on no pot beyond what it holds, whenever it does not refuse.
THEOREM AllocationDivides ==
  ASSUME NEW source \in Sources, NEW amount \in Nat, NEW available \in Split,
         Affordable(source, amount, available)
  PROVE  LET s == AllocateAmounts(source, amount, available)
         IN  /\ s \in Split
             /\ SumOf(s) = amount
             /\ \A t \in Pots : s[t] <= available[t]
  BY DEF Sources, Split, Pots, Affordable, FundsOf, AllocateAmounts, SplitOf, SumOf

-----------------------------------------------------------------------------
(* Types. *)

\* What a transaction sees, and its net effect, under the invariant.
LEMMA ViewAndEffect ==
  ASSUME TypeOK, NEW p \in Requests
  PROVE  /\ View(p) \in [Books -> Int]
         /\ \A b \in Books : View(p)[b] = balance[b] + delta[p][b]
         /\ Minus(credit[p], debit[p]) \in [Pots -> Int]
         /\ Effect(p) \in [Books -> Int]
         /\ Effect(p)["shu"] = credit[p]["shu"] - debit[p]["shu"]
         /\ Effect(p)["capital"] = credit[p]["capital"] - debit[p]["capital"]
         /\ Effect(p)["total"] = Effect(p)["shu"] + Effect(p)["capital"]
  <1>1. /\ balance \in [Books -> Int] /\ delta[p] \in [Books -> Int]
        /\ credit[p] \in [Pots -> Int] /\ debit[p] \in [Pots -> Int]
    BY DEF TypeOK, Signed, Split
  <1>2. /\ View(p) \in [Books -> Int]
        /\ \A b \in Books : View(p)[b] = balance[b] + delta[p][b]
    BY <1>1, PlusMinus DEF View
  <1>3. /\ Minus(credit[p], debit[p]) \in [Pots -> Int]
        /\ \A t \in Pots : Minus(credit[p], debit[p])[t] = credit[p][t] - debit[p][t]
    BY <1>1, PlusMinus
  <1>4. QED
    BY <1>2, <1>3, EntriesOfAmount DEF Effect, Pots

\* A division that is not refused is a natural number for each pot.
LEMMA AllocateType ==
  ASSUME IInv, NEW p \in Requests, pc[p] = "allocate",
         Affordable(job[p].source, job[p].amount, Available(p))
  PROVE  AllocateAmounts(job[p].source, job[p].amount, Available(p)) \in Split
  <1>1. View(p) \in [Books -> Int] /\ \A b \in Books : View(p)[b] >= 0
    BY ViewAndEffect DEF IInv, RequestInv, ViewIsNonNegative
  <1>2. seen[p] \in Split /\ job[p].source \in Sources /\ job[p].amount \in Nat
    <2>1. job[p] \in Job /\ seen[p] \in Split
      BY DEF IInv, TypeOK
    <2>2. Amounts \cup {0} \subseteq Nat
      BY CashbookAssumption
    <2>3. QED
      BY <2>1, <2>2 DEF Job
  <1>3. Available(p) \in Split
    BY <1>1, <1>2 DEF Available, Split, Pots, Books
  <1>4. QED
    BY <1>2, <1>3, AllocationDivides

LEMMA InitTypes == Init => TypeOK
  <1> SUFFICES ASSUME Init PROVE TypeOK
    OBVIOUS
  <1>1. /\ Nothing \in Split /\ Nothing \in [Pots -> Int]
        /\ Entries(Nothing) \in [Books -> Int]
        /\ OpeningBalance \in [Pots -> Int] /\ Entries(OpeningBalance) \in [Books -> Int]
        /\ OpeningExpense \in [Pots -> Int]
    BY NothingIsZero, EntriesOfAmount, CashbookAssumption DEF Split
  <1>2. Minus(Nothing, OpeningExpense) \in [Pots -> Int]
    BY <1>1, PlusMinus
  <1>3. Idle \in Job
    BY DEF Idle, Job, AllKinds, Sources
  <1>4. QED
    BY <1>1, <1>2, <1>3, CashbookAssumption DEF Init, TypeOK, Signed, ExpenseIds

LEMMA TypesKept == IInv /\ [Next]_vars => TypeOK'
  <1> SUFFICES ASSUME IInv, [Next]_vars PROVE TypeOK'
    OBVIOUS
  <1> TypeOK
    BY DEF IInv
  <1>1. CASE UNCHANGED vars
    BY <1>1 DEF TypeOK, vars, committed, ledger, locals
  <1>2. CASE Quiet
    BY <1>1, <1>2 DEF Quiet
  <1>3. ASSUME NEW p \in Requests, Step(p) PROVE TypeOK'
    <2> USE DEF committed, ledger, locals
    <2> /\ View(p) \in Signed(Books)
        /\ Effect(p) \in Signed(Books)
        /\ Minus(credit[p], debit[p]) \in Signed(Pots)
        /\ Entries(Nothing) \in Signed(Books)
        /\ Nothing \in Split
      BY ViewAndEffect, NothingIsZero, EntriesOfAmount DEF Signed, Split
    <2>1. CASE ReceiveIncome(p)
      <3>1. PICK pot \in Pots, a \in Amounts :
              /\ Begin(p, [Idle EXCEPT !.amount = a, !.source = pot], "lockAll")
              /\ credit' = [credit EXCEPT ![p] = [t \in Pots |-> IF t = pot THEN a ELSE 0]]
        BY <2>1 DEF ReceiveIncome
      <3>2. [Idle EXCEPT !.amount = a, !.source = pot] \in Job
        BY DEF Idle, Job, AllKinds, Sources, Pots
      <3>3. QED
        BY <2>1, <3>1, <3>2, CashbookAssumption
        DEF ReceiveIncome, Begin, Goto, TypeOK, Signed
    <2>2. CASE CreateExpense(p)
      BY <2>2 DEF CreateExpense, Begin, Goto, TypeOK, Job, AllKinds, ExpenseIds
    <2>3. CASE UpdateExpense(p)
      <3>1. PICK e \in ExpenseIds :
              /\ expense[e] # None
              /\ seen' = [seen EXCEPT ![p] = expense[e]]
              /\ \/ \E a \in Amounts, s \in Sources :
                      Begin(p, [kind |-> "amend", expense |-> e, amount |-> a, source |-> s],
                            "allocate")
                 \/ Begin(p, [Idle EXCEPT !.kind = "redate", !.expense = e], "updateRow")
        BY <2>3 DEF UpdateExpense, Reachable
      <3>2. [Idle EXCEPT !.kind = "redate", !.expense = e] \in Job
        BY DEF Idle, Job, AllKinds, Sources
      <3>3. \A a \in Amounts, s \in Sources :
              [kind |-> "amend", expense |-> e, amount |-> a, source |-> s] \in Job
        BY DEF Job, AllKinds
      <3>4. expense[e] \in Split
        BY <3>1 DEF TypeOK
      <3>5. QED
        BY <2>3, <3>1, <3>2, <3>3, <3>4 DEF UpdateExpense, Begin, Goto, TypeOK
    <2>4. CASE DeleteExpense(p)
      <3>1. PICK e \in ExpenseIds :
              Begin(p, [Idle EXCEPT !.kind = "delete", !.expense = e], "sumRows")
        BY <2>4 DEF DeleteExpense
      <3>2. [Idle EXCEPT !.kind = "delete", !.expense = e] \in Job
        BY DEF Idle, Job, AllKinds, Sources
      <3>3. QED
        BY <2>4, <3>1, <3>2 DEF DeleteExpense, Begin, Goto, TypeOK
    <2>5. CASE LockBalance(p)
      BY <2>5 DEF LockBalance, Lock, TypeOK
    <2>6. CASE Allocate(p)
      BY <2>6, AllocateType DEF Allocate, Goto, TypeOK
    <2>7. CASE UpdateRow(p)
      <3>1. Target(p) \in ExpenseIds
        BY <2>7, CashbookAssumption
        DEF UpdateRow, Reversed, Wanted, Adjustments, Target, Rows, TypeOK, Job, ExpenseIds
      <3>2. ledgerTop[Target(p)] \in Split
        BY <2>7, <3>1 DEF UpdateRow, Reversed, TypeOK
      <3>3. QED
        BY <2>7, <3>2 DEF UpdateRow, Reversed, Lock, Goto, TypeOK, Split, Signed
    <2>8. CASE ReadBalances(p)
      BY <2>8 DEF ReadBalances, Goto, TypeOK
    <2>9. CASE Post(p)
      <3>1. Plus(delta[p], Effect(p)) \in Signed(Books)
        BY PlusMinus DEF TypeOK, Signed
      <3>2. QED
        BY <2>9, <3>1 DEF Post, Goto, TypeOK
    <2>10. CASE SumRows(p)
      <3>1. Target(p) \in ExpenseIds
        <4>1. job[p] \in Job /\ job[p].kind = "delete"
          BY <2>10 DEF IInv, RequestInv, CounterFitsJob, SumRows, TypeOK
        <4>2. QED
          BY <4>1 DEF Job, Target
      <3>2. Minus(Nothing, ledgerNet[Target(p)]) \in Signed(Pots)
        BY <3>1, PlusMinus DEF TypeOK, Signed, Split
      <3>3. QED
        BY <2>10, <3>2 DEF SumRows, Goto, TypeOK
    <2>11. CASE AdjustBalance(p)
      <3>1. Entries(credit[p])[Adjusting(p)] \in Int /\ delta[p][Adjusting(p)] \in Int
        BY EntriesOfAmount DEF TypeOK, Signed, Adjusting, Books
      <3>2. delta' \in [Requests -> Signed(Books)]
        <4> DEFINE b == Adjusting(p)
                   moved == [delta[p] EXCEPT ![b] = delta[p][b] + Entries(credit[p])[b]]
        <4>1. delta' = [delta EXCEPT ![p] = moved]
          BY <2>11 DEF AdjustBalance
        <4>2. delta[p] \in [Books -> Int]
          BY DEF TypeOK, Signed
        <4>3. ASSUME NEW f \in [Books -> Int], NEW x, NEW n \in Int
              PROVE  [f EXCEPT ![x] = n] \in [Books -> Int]
          OBVIOUS
        <4>4. delta[p][b] + Entries(credit[p])[b] \in Int
          BY <3>1
        <4>5. moved \in Signed(Books)
          BY <4>2, <4>3, <4>4 DEF Signed
        <4>6. QED
          BY <4>1, <4>5 DEF TypeOK
      <3>3. pc' \in [Requests -> {"idle", "allocate", "updateRow", "lockAll",
                      "post", "sumRows", "adjustShu", "adjustCapital", "adjustTotal",
                      "removeRow", "commit", "committed", "rolledBack"}]
        BY <2>11 DEF AdjustBalance, AfterAdjusting, Goto, TypeOK
      <3>4. QED
        BY <2>11, <3>2, <3>3 DEF AdjustBalance, Lock, TypeOK
    <2>12. CASE RemoveRow(p)
      BY <2>12 DEF RemoveRow, Lock, Goto, TypeOK
    <2>13. ASSUME NEW o \in {"committed", "rolledBack"}, Finish(p, o)
           PROVE  /\ pc' \in [Requests -> {"idle", "allocate", "updateRow", "lockAll",
                          "post", "sumRows", "adjustShu", "adjustCapital", "adjustTotal",
                          "removeRow", "commit", "committed", "rolledBack"}]
                  /\ owner' \in [Rows -> Requests \cup {None}]
                  /\ job' \in [Requests -> Job]
                  /\ seen' \in [Requests -> Split] /\ debit' \in [Requests -> Split]
                  /\ credit' \in [Requests -> Signed(Pots)]
                  /\ snap' \in [Requests -> Signed(Books)]
                  /\ delta' \in [Requests -> Signed(Books)]
      <3>1. Idle \in Job
        BY DEF Idle, Job, AllKinds, Sources
      <3>2. Nothing \in Signed(Pots)
        BY NothingIsZero DEF Split, Signed
      <3>3. QED
        BY <2>13, <3>1, <3>2 DEF Finish, Unlocked, Goto, TypeOK
    <2>14. CASE Commit(p)
      <3>1. \A e \in ExpenseIds : Plus(ledgerNet[e], Minus(credit[p], debit[p])) \in Signed(Pots)
        BY PlusMinus DEF TypeOK, Signed
      <3>2. Plus(ledgerSum, Minus(credit[p], debit[p])) \in Signed(Pots)
        BY PlusMinus DEF TypeOK, Signed
      <3>3. Plus(snap[p], Effect(p)) \in Signed(Books)
        BY PlusMinus DEF TypeOK, Signed
      <3>4. job[p].kind # "income" => Target(p) \in ExpenseIds
        <4>1. job[p] \in Job
          BY DEF TypeOK
        <4>2. QED
          BY <4>1 DEF Job, Target
      <3>5. debit[p] \in Split
        BY DEF TypeOK
      <3>6. /\ expense' \in [ExpenseIds -> Split \cup {None}]
            /\ ledgerTop' \in [ExpenseIds -> Split \cup {None}]
            /\ ledgerNet' \in [ExpenseIds -> Signed(Pots)]
        <4>1. CASE job[p].kind = "income"
          BY <2>14, <4>1 DEF Commit, TypeOK
        <4>2. CASE job[p].kind # "income"
          BY <2>14, <3>1, <3>4, <3>5, <4>2 DEF Commit, RowAfter, TypeOK
        <4>3. QED
          BY <4>1, <4>2
      <3>7. QED
        BY <2>13, <2>14, <3>2, <3>3, <3>6 DEF Commit, TypeOK
    <2>15. CASE CommitDelete(p)
      <3>1. \A e \in ExpenseIds : Minus(ledgerSum, ledgerNet[e]) \in Signed(Pots)
        BY PlusMinus DEF TypeOK, Signed
      <3>2. Target(p) \in ExpenseIds
        <4>1. job[p] \in Job /\ job[p].kind = "delete"
          BY <2>15 DEF CommitDelete, RowAfter, Removed, TypeOK
        <4>2. QED
          BY <4>1 DEF Job, Target
      <3>3. QED
        BY <2>13, <2>15, <3>1, <3>2, NothingIsZero
        DEF CommitDelete, RowAfter, Removed, TypeOK, Split, Signed
    <2>16. CASE Fail(p) \/ Crash(p) \/ BreakDeadlock(p)
      BY <2>13, <2>16 DEF Fail, Crash, BreakDeadlock, TypeOK
    <2>17. QED
      BY <1>3, <2>1, <2>2, <2>3, <2>4, <2>5, <2>6, <2>7, <2>8, <2>9, <2>10, <2>11,
         <2>12, <2>14, <2>15, <2>16 DEF Step, Progress
  <1>4. QED
    BY <1>1, <1>2, <1>3 DEF Next
-----------------------------------------------------------------------------
(* A step of one request, as the others see it. *)

\* The step leaves request q where it is, with all it has.
Spares(q) ==
  /\ pc'[q] = pc[q] /\ job'[q] = job[q] /\ delta'[q] = delta[q]
  /\ seen'[q] = seen[q] /\ debit'[q] = debit[q] /\ credit'[q] = credit[q]
  /\ snap'[q] = snap[q]
  /\ \A r \in Rows : owner[r] = q => owner'[r] = q

\* A step of p changes nothing another request keeps for itself, and takes no
\* lock away from it.
LEMMA OthersKeep ==
  ASSUME TypeOK, NEW p \in Requests, NEW q \in Requests, q # p, Step(p)
  PROVE  Spares(q)
  <1> USE DEF committed, ledger, locals, TypeOK, Spares
  <1>0. None # q
    BY CashbookAssumption
  <1>1. CASE ReceiveIncome(p) \/ CreateExpense(p) \/ UpdateExpense(p) \/ DeleteExpense(p)
    BY <1>1 DEF ReceiveIncome, CreateExpense, UpdateExpense, DeleteExpense, Begin, Goto
  <1>2. CASE LockBalance(p)
    BY <1>0, <1>2 DEF LockBalance, Free, Lock
  <1>3. CASE Allocate(p) \/ ReadBalances(p) \/ Post(p) \/ SumRows(p)
    BY <1>3 DEF Allocate, ReadBalances, Post, SumRows, Goto
  <1>4. CASE UpdateRow(p) \/ AdjustBalance(p) \/ RemoveRow(p)
    BY <1>0, <1>4 DEF UpdateRow, AdjustBalance, RemoveRow, Free, Lock, Goto
  <1>5. ASSUME NEW o, Finish(p, o) PROVE Spares(q)
    BY <1>5 DEF Finish, Unlocked, Goto
  <1>6. CASE Commit(p) \/ CommitDelete(p) \/ Fail(p) \/ Crash(p) \/ BreakDeadlock(p)
    BY <1>5, <1>6 DEF Commit, CommitDelete, Fail, Crash, BreakDeadlock
  <1>7. QED
    BY <1>1, <1>2, <1>3, <1>4, <1>6 DEF Step, Progress

\* What p itself has left when its transaction ends.
LEMMA FinishForgets ==
  ASSUME TypeOK, NEW p \in Requests, NEW o \in {"committed", "rolledBack"}, Finish(p, o)
  PROVE  /\ pc'[p] = o
         /\ \A b \in Books : delta'[p][b] = 0
         /\ job'[p] = Idle /\ debit'[p] = Nothing /\ credit'[p] = Nothing
  BY NothingIsZero DEF Finish, Unlocked, Goto, TypeOK

\* The committed balances change only when p commits, by what p has changed.
LEMMA BalanceChanges ==
  ASSUME TypeOK, NEW p \in Requests, Step(p)
  PROVE  \/ UNCHANGED balance
         \/ pc[p] = "commit" /\ balance' = View(p) /\ Finish(p, "committed")
  BY DEF Step, Progress, ReceiveIncome, CreateExpense, UpdateExpense, DeleteExpense,
         LockBalance, Allocate, ReadBalances, Post, SumRows, UpdateRow, AdjustBalance,
         RemoveRow, Commit, CommitDelete, Fail, Crash, BreakDeadlock, committed

-----------------------------------------------------------------------------
(* The invariant is kept. *)

\* By a step of another request: if it commits, the balances it changed are
\* locked by it, so q has not changed them.
LEMMA OtherStep ==
  ASSUME IInv, NEW p \in Requests, NEW q \in Requests, q # p, Step(p)
  PROVE  RequestInv(q)'
  <1>1. TypeOK /\ RequestInv(q) /\ RequestInv(p) /\ NonNegative
    BY DEF IInv
  <1>2. Spares(q)
    BY <1>1, OthersKeep
  <1>3. Moved(q)' = Moved(q) /\ Effect(q)' = Effect(q)
    BY <1>2 DEF Spares, Moved, Effect
  <1>4. DeltaIsEffect(q)'
    BY <1>1, <1>2, <1>3 DEF RequestInv, DeltaIsEffect, Spares
  <1>5. ChangesAreLocked(q)' /\ PosterHoldsAll(q)'
    BY <1>1, <1>2 DEF RequestInv, ChangesAreLocked, PosterHoldsAll, Spares, Rows
  <1>6. AmountsFit(q)' /\ CounterFitsJob(q)'
    BY <1>1, <1>2 DEF RequestInv, AmountsFit, CounterFitsJob, Spares
  <1>7. ViewIsNonNegative(q)'
    <2>1. CASE UNCHANGED balance
      BY <1>1, <1>2, <2>1 DEF RequestInv, ViewIsNonNegative, Spares
    <2>2. CASE balance' = View(p)
      <3> SUFFICES ASSUME NEW b \in Books PROVE balance'[b] + delta'[q][b] >= 0
        BY DEF ViewIsNonNegative
      <3>1. balance'[b] = balance[b] + delta[p][b]
        BY <1>1, <2>2, ViewAndEffect
      <3>2. delta'[q][b] = delta[q][b]
        BY <1>2 DEF Spares
      <3>3. /\ balance[b] \in Int /\ delta[p][b] \in Int /\ delta[q][b] \in Int
            /\ balance[b] + delta[p][b] >= 0 /\ balance[b] + delta[q][b] >= 0
        BY <1>1 DEF RequestInv, ViewIsNonNegative, TypeOK, Signed
      <3>4. delta[q][b] = 0 \/ delta[p][b] = 0
        BY <1>1 DEF RequestInv, ChangesAreLocked
      <3>5. QED
        BY <3>1, <3>2, <3>3, <3>4
    <2>3. QED
      BY <1>1, <2>1, <2>2, BalanceChanges
  <1>8. QED
    BY <1>4, <1>5, <1>6, <1>7 DEF RequestInv

\* By its own step.
LEMMA OwnStep ==
  ASSUME IInv, TypeOK', NEW p \in Requests, Step(p)
  PROVE  RequestInv(p)'
  <1> USE DEF committed, ledger, locals
  <1>1. /\ TypeOK /\ TotalIsSum /\ NonNegative
        /\ DeltaIsEffect(p) /\ ChangesAreLocked(p) /\ PosterHoldsAll(p)
        /\ ViewIsNonNegative(p) /\ AmountsFit(p) /\ CounterFitsJob(p)
    BY DEF IInv, RequestInv
  <1>2. \A b \in Books : balance[b] \in Int /\ delta[p][b] \in Int /\ delta[p]'[b] \in Int
    BY <1>1 DEF TypeOK, Signed
  \* A step that moves no balance, from a place where none was moved.
  <1>3. ASSUME UNCHANGED <<balance, owner, delta>>, Moved(p) = {}, Moved(p)' = {},
               pc'[p] # "post", AmountsFit(p)', CounterFitsJob(p)'
        PROVE  RequestInv(p)'
    BY <1>1, <1>3 DEF RequestInv, DeltaIsEffect, ChangesAreLocked, PosterHoldsAll,
                      ViewIsNonNegative
  <1>4. CASE ReceiveIncome(p) \/ CreateExpense(p) \/ UpdateExpense(p) \/ DeleteExpense(p)
    <2>1. AmountsFit(p)' /\ CounterFitsJob(p)'
      <3>1. CASE ReceiveIncome(p)
        <4>1. PICK pot \in Pots, a \in Amounts :
                /\ Begin(p, [Idle EXCEPT !.amount = a, !.source = pot], "lockAll")
                /\ credit' = [credit EXCEPT ![p] = [t \in Pots |-> IF t = pot THEN a ELSE 0]]
          BY <3>1 DEF ReceiveIncome
        <4>2. pc'[p] = "lockAll" /\ job'[p].kind = "income"
          BY <1>1, <4>1 DEF Begin, Goto, TypeOK, Idle
        <4>3. credit'[p] \in Split
          BY <1>1, <4>1, CashbookAssumption DEF TypeOK, Split
        <4>4. QED
          BY <4>2, <4>3 DEF AmountsFit, CounterFitsJob, Adjustments
      <3>2. CASE CreateExpense(p)
        BY <1>1, <3>2 DEF CreateExpense, Begin, Goto, TypeOK, AmountsFit, CounterFitsJob,
                          Adjustments
      <3>3. CASE UpdateExpense(p)
        <4>1. PICK e \in ExpenseIds :
                \/ \E a \in Amounts, s \in Sources :
                     Begin(p, [kind |-> "amend", expense |-> e, amount |-> a, source |-> s],
                           "allocate")
                \/ Begin(p, [Idle EXCEPT !.kind = "redate", !.expense = e], "updateRow")
          BY <3>3 DEF UpdateExpense
        <4>2. \/ pc'[p] = "allocate" /\ job'[p].kind = "amend"
              \/ pc'[p] = "updateRow" /\ job'[p].kind = "redate"
          <5>1. ASSUME NEW j, NEW l, Begin(p, j, l) PROVE pc'[p] = l /\ job'[p] = j
            BY <1>1, <5>1 DEF Begin, Goto, TypeOK
          <5>2. ASSUME NEW a \in Amounts, NEW s \in Sources,
                       Begin(p, [kind |-> "amend", expense |-> e, amount |-> a, source |-> s],
                             "allocate")
                PROVE  pc'[p] = "allocate" /\ job'[p].kind = "amend"
            <6>1. job'[p] = [kind |-> "amend", expense |-> e, amount |-> a, source |-> s]
              BY <5>1, <5>2
            <6>2. QED
              BY <5>1, <5>2, <6>1
          <5>3. ASSUME Begin(p, [Idle EXCEPT !.kind = "redate", !.expense = e], "updateRow")
                PROVE  pc'[p] = "updateRow" /\ job'[p].kind = "redate"
            <6>1. job'[p] = [Idle EXCEPT !.kind = "redate", !.expense = e]
              BY <5>1, <5>3
            <6>2. QED
              BY <5>1, <5>3, <6>1 DEF Idle
          <5>4. QED
            BY <4>1, <5>2, <5>3
        <4>3. pc[p] = "idle" /\ UNCHANGED <<credit, debit>>
          BY <3>3 DEF UpdateExpense, Begin
        <4>4. QED
          BY <1>1, <4>2, <4>3 DEF AmountsFit, CounterFitsJob, Adjustments
      <3>4. CASE DeleteExpense(p)
        <4>1. PICK e \in ExpenseIds :
                Begin(p, [Idle EXCEPT !.kind = "delete", !.expense = e], "sumRows")
          BY <3>4 DEF DeleteExpense
        <4>2. pc'[p] = "sumRows" /\ job'[p].kind = "delete"
          BY <1>1, <4>1 DEF Begin, Goto, TypeOK, Idle
        <4>3. pc[p] = "idle" /\ UNCHANGED <<credit, debit>>
          BY <3>4 DEF DeleteExpense, Begin
        <4>4. QED
          BY <1>1, <4>2, <4>3 DEF AmountsFit, CounterFitsJob, Adjustments
      <3>5. QED
        BY <1>4, <3>1, <3>2, <3>3, <3>4
    <2>2. /\ pc[p] = "idle"
          /\ pc'[p] \in {"lockAll", "allocate", "updateRow", "sumRows"}
          /\ UNCHANGED <<balance, owner, delta>>
      BY <1>1, <1>4 DEF ReceiveIncome, CreateExpense, UpdateExpense, DeleteExpense, Begin,
                        Goto, TypeOK
    <2>3. QED
      BY <1>3, <2>1, <2>2 DEF Moved
  <1>5. CASE LockBalance(p)
    <2>1. UNCHANGED <<balance, delta, pc, job, debit, credit>>
      BY <1>5 DEF LockBalance
    <2>2. pc[p] \in {"allocate", "lockAll"}
      BY <1>5 DEF LockBalance
    <2>3. Moved(p) = {} /\ Moved(p)' = {}
      BY <2>1, <2>2 DEF Moved
    <2>4. QED
      BY <1>1, <2>1, <2>2, <2>3
      DEF RequestInv, DeltaIsEffect, ChangesAreLocked, PosterHoldsAll, ViewIsNonNegative,
          AmountsFit, CounterFitsJob
  <1>6. CASE Allocate(p)
    <2>1. pc[p] = "allocate" /\ pc'[p] \in {"lockAll", "updateRow"}
      BY <1>1, <1>6 DEF Allocate, Goto, TypeOK
    <2>2. pc'[p] = "updateRow" => job[p].kind = "amend"
      BY <1>1, <1>6 DEF Allocate, Goto, TypeOK, CounterFitsJob
    <2>3. AmountsFit(p)' /\ CounterFitsJob(p)'
      BY <1>1, <1>6, <2>1, <2>2 DEF Allocate, AmountsFit, CounterFitsJob, Adjustments
    <2>4. QED
      BY <1>3, <1>6, <2>1, <2>3 DEF Allocate, Moved
  <1>7. CASE UpdateRow(p)
    <2>1. pc[p] = "updateRow" /\ pc'[p] = "lockAll" /\ UNCHANGED <<balance, delta, job>>
      BY <1>1, <1>7 DEF UpdateRow, Goto, TypeOK
    <2>2. credit'[p] \in Split
      <3>1. Target(p) \in ExpenseIds
        <4>1. job[p] \in Job /\ job[p].kind # "income"
          BY <1>1, <2>1 DEF TypeOK, CounterFitsJob
        <4>2. QED
          BY <4>1 DEF Job, Target
      <3>2. QED
        BY <1>1, <1>7, <3>1 DEF UpdateRow, Reversed, TypeOK
    <2>3. AmountsFit(p)' /\ CounterFitsJob(p)'
      BY <1>1, <2>1, <2>2 DEF AmountsFit, CounterFitsJob, Adjustments
    <2>4. Moved(p) = {} /\ Moved(p)' = {}
      BY <2>1 DEF Moved
    <2>5. \A b \in Books : delta[p][b] = 0
      BY <1>1, <2>4 DEF DeltaIsEffect
    <2>6. QED
      BY <1>1, <2>1, <2>3, <2>4, <2>5
      DEF RequestInv, DeltaIsEffect, ChangesAreLocked, PosterHoldsAll, ViewIsNonNegative
  <1>8. CASE ReadBalances(p)
    <2>1. pc[p] = "lockAll" /\ pc'[p] = "post"
          /\ UNCHANGED <<balance, delta, owner, job, credit, debit>>
      BY <1>1, <1>8 DEF ReadBalances, Goto, TypeOK
    <2>2. \A b \in Books : owner[b] = p
      BY <1>8 DEF ReadBalances, Wanted, Rows
    <2>3. Moved(p) = {} /\ Moved(p)' = {}
      BY <2>1 DEF Moved
    <2>4. QED
      BY <1>1, <2>1, <2>2, <2>3
      DEF RequestInv, DeltaIsEffect, ChangesAreLocked, PosterHoldsAll, ViewIsNonNegative,
          AmountsFit, CounterFitsJob, Adjustments
  <1>9. CASE Post(p)
    <2>1. pc[p] = "post" /\ pc'[p] = "commit"
          /\ UNCHANGED <<balance, owner, job, credit, debit>>
      BY <1>1, <1>9 DEF Post, Goto, TypeOK
    <2>2. Moved(p) = {} /\ Moved(p)' = Books /\ Effect(p)' = Effect(p)
      BY <2>1 DEF Moved, Effect
    <2>3. \A b \in Books : delta[p][b] = 0 /\ View(p)[b] = balance[b]
      BY <1>1, <1>2, <2>2, ViewAndEffect DEF DeltaIsEffect
    <2>4. \A b \in Books : delta'[p][b] = Effect(p)[b]
      <3>1. delta'[p] = Plus(delta[p], Effect(p))
        BY <1>1, <1>9 DEF Post, TypeOK
      <3>2. delta[p] \in [Books -> Int] /\ Effect(p) \in [Books -> Int]
        BY <1>1, ViewAndEffect DEF TypeOK, Signed
      <3>3. QED
        BY <2>3, <3>1, <3>2, PlusMinus
    <2>5. \A t \in Pots : balance[t] + Effect(p)[t] >= 0
      <3>1. /\ credit[p] \in Split /\ debit[p] \in Split
        BY <1>1, <2>1 DEF AmountsFit, TypeOK
      <3>2. \A t \in Pots : Effect(p)[t] = credit[p][t] - debit[p][t]
        BY <1>1, ViewAndEffect DEF Pots
      <3>3. \A t \in Pots : balance[t] \in Nat /\ View(p)[t] = balance[t]
        BY <1>1, <1>2, <2>3 DEF NonNegative, Pots, Books
      <3>4. \A t \in Pots : debit[p][t] > 0 => balance[t] + credit[p][t] >= debit[p][t]
        BY <1>9, <3>3 DEF Post, Covered
      <3>5. QED
        BY <3>1, <3>2, <3>3, <3>4 DEF Split
    <2>6. \A b \in Books : balance[b] + Effect(p)[b] >= 0
      <3>1. Effect(p)["total"] = Effect(p)["shu"] + Effect(p)["capital"]
            /\ Effect(p) \in [Books -> Int]
        BY <1>1, ViewAndEffect
      <3>2. QED
        BY <1>1, <1>2, <2>5, <3>1 DEF TotalIsSum, Pots, Books
    <2>7. QED
      BY <1>1, <2>1, <2>2, <2>4, <2>6
      DEF RequestInv, DeltaIsEffect, ChangesAreLocked, PosterHoldsAll, ViewIsNonNegative,
          AmountsFit, CounterFitsJob, Adjustments
  <1>10. CASE SumRows(p)
    <2>1. pc[p] = "sumRows" /\ pc'[p] = "adjustShu" /\ UNCHANGED <<job, debit>>
      BY <1>1, <1>10 DEF SumRows, Goto, TypeOK
    <2>2. AmountsFit(p)' /\ CounterFitsJob(p)'
      BY <1>1, <2>1 DEF AmountsFit, CounterFitsJob, Adjustments
    <2>3. QED
      BY <1>3, <1>10, <2>1, <2>2 DEF SumRows, Moved
  <1>11. CASE AdjustBalance(p)
    <2> DEFINE b == Adjusting(p)
               change == Entries(credit[p])[b]
    <2>1. /\ pc[p] \in Adjustments /\ pc[p] # "post" /\ b \in Books
          /\ UNCHANGED <<balance, job, debit, credit>>
      BY <1>11 DEF AdjustBalance, Adjustments, Adjusting, Books
    <2>2. /\ pc'[p] = IF pc[p] = "adjustShu" THEN "adjustCapital"
                      ELSE IF pc[p] = "adjustCapital" THEN "adjustTotal" ELSE "removeRow"
      BY <1>1, <1>11 DEF AdjustBalance, AfterAdjusting, Goto, TypeOK, Adjustments
    <2>3. Moved(p)' = Moved(p) \cup {b} /\ b \notin Moved(p)
      BY <2>1, <2>2 DEF Moved, Adjusting, Adjustments, Pots, Books
    <2>4. Entries(credit[p]) = Effect(p) /\ Effect(p)' = Effect(p) /\ change \in Int
      <3>1. Minus(credit[p], Nothing) = credit[p]
        <4>1. credit[p] \in [Pots -> Int] /\ Nothing \in [Pots -> Int]
          BY <1>1, NothingIsZero DEF TypeOK, Signed, Split
        <4>2. \A t \in Pots : credit[p][t] - Nothing[t] = credit[p][t]
          BY <4>1, NothingIsZero DEF Pots
        <4>3. Minus(credit[p], Nothing) \in [Pots -> Int]
              /\ \A t \in Pots : Minus(credit[p], Nothing)[t] = credit[p][t]
          BY <4>1, <4>2, PlusMinus
        <4>4. QED
          BY <4>1, <4>3
      <3>2. debit[p] = Nothing
        BY <1>1, <2>1 DEF AmountsFit
      <3>3. Effect(p) \in [Books -> Int]
        BY <1>1, ViewAndEffect
      <3>4. QED
        BY <2>1, <3>1, <3>2, <3>3 DEF Effect
    <2>5. delta'[p] = [delta[p] EXCEPT ![b] = delta[p][b] + change]
      BY <1>1, <1>11 DEF AdjustBalance, TypeOK
    <2>6. delta[p][b] = 0 /\ delta'[p][b] = change
      BY <1>1, <2>1, <2>3, <2>4, <2>5 DEF DeltaIsEffect, TypeOK, Signed
    <2>7. \A c \in Books \ {b} : delta'[p][c] = delta[p][c]
      BY <1>1, <2>5 DEF TypeOK, Signed
    <2>8. DeltaIsEffect(p)'
      BY <1>1, <2>1, <2>3, <2>4, <2>6, <2>7 DEF DeltaIsEffect
    <2>9. change # 0 => owner'[b] = p
      BY <1>11, <2>1 DEF AdjustBalance, Wanted, Lock, Rows
    <2>10. \A c \in Books : owner[c] = p => owner'[c] = p
      BY <1>11 DEF AdjustBalance, Lock, Rows
    <2>11. ChangesAreLocked(p)'
      BY <1>1, <2>6, <2>7, <2>9, <2>10 DEF ChangesAreLocked
    <2>12. balance[b] + change >= 0
      <3>1. View(p)[b] = balance[b]
        BY <1>1, <1>2, <2>1, <2>6, ViewAndEffect
      <3>2. QED
        BY <1>11, <3>1 DEF AdjustBalance
    <2>13. ViewIsNonNegative(p)'
      BY <1>1, <2>1, <2>6, <2>7, <2>12 DEF ViewIsNonNegative
    <2>14. QED
      BY <1>1, <2>1, <2>2, <2>8, <2>11, <2>13
      DEF RequestInv, PosterHoldsAll, AmountsFit, CounterFitsJob, Adjustments
  <1>12. CASE RemoveRow(p)
    <2>1. pc[p] = "removeRow" /\ pc'[p] = "commit"
          /\ UNCHANGED <<balance, delta, job, debit, credit>>
      BY <1>1, <1>12 DEF RemoveRow, Goto, TypeOK
    <2>2. Moved(p) = Books /\ Moved(p)' = Books /\ Effect(p)' = Effect(p)
      BY <2>1 DEF Moved, Effect
    <2>3. \A b \in Books : owner[b] = p => owner'[b] = p
      BY <1>12 DEF RemoveRow, Lock, Rows
    <2>4. QED
      BY <1>1, <2>1, <2>2, <2>3
      DEF RequestInv, DeltaIsEffect, ChangesAreLocked, PosterHoldsAll, ViewIsNonNegative,
          AmountsFit, CounterFitsJob, Adjustments
  <1>13. CASE Commit(p) \/ CommitDelete(p) \/ Fail(p) \/ Crash(p) \/ BreakDeadlock(p)
    <2>1. PICK o \in {"committed", "rolledBack"} : Finish(p, o)
      BY <1>13 DEF Commit, CommitDelete, Fail, Crash, BreakDeadlock
    <2>2. pc'[p] = o /\ \A b \in Books : delta'[p][b] = 0
      BY <1>1, <2>1, FinishForgets
    <2>3. Moved(p)' = {}
      BY <2>2 DEF Moved
    <2>4. \A b \in Books : balance'[b] >= 0
      <3>1. CASE UNCHANGED balance
        BY <1>1, <3>1 DEF NonNegative
      <3>2. CASE balance' = View(p)
        BY <1>1, <3>2, ViewAndEffect DEF ViewIsNonNegative
      <3>3. QED
        BY <1>1, <3>1, <3>2, BalanceChanges
    <2>5. \A b \in Books : balance'[b] \in Int
      BY DEF TypeOK, Signed
    <2>6. QED
      BY <2>2, <2>3, <2>4, <2>5
      DEF RequestInv, DeltaIsEffect, ChangesAreLocked, PosterHoldsAll, ViewIsNonNegative,
          AmountsFit, CounterFitsJob, Adjustments
  <1>14. QED
    BY <1>4, <1>5, <1>6, <1>7, <1>8, <1>9, <1>10, <1>11, <1>12, <1>13 DEF Step, Progress

-----------------------------------------------------------------------------
(* The theorems. *)

LEMMA InitInv == Init => IInv
  <1> SUFFICES ASSUME Init PROVE IInv
    OBVIOUS
  <1>1. TypeOK
    BY InitTypes
  <1>2. /\ balance["shu"] = OpeningBalance["shu"]
        /\ balance["capital"] = OpeningBalance["capital"]
        /\ balance["total"] = OpeningBalance["shu"] + OpeningBalance["capital"]
    BY EntriesOfAmount, CashbookAssumption DEF Init, Split
  <1>3. OpeningBalance["shu"] \in Nat /\ OpeningBalance["capital"] \in Nat
    BY CashbookAssumption DEF Split, Pots
  <1>4. TotalIsSum /\ NonNegative
    BY <1>2, <1>3 DEF TotalIsSum, NonNegative, Books
  <1>5. ASSUME NEW p \in Requests PROVE RequestInv(p)
    <2>1. /\ pc[p] = "idle" /\ debit[p] = Nothing /\ credit[p] = Nothing
          /\ \A b \in Books : delta[p][b] = 0
      BY NothingIsZero DEF Init
    <2>2. Moved(p) = {}
      BY <2>1 DEF Moved
    <2>3. \A b \in Books : balance[b] \in Int
      BY <1>1 DEF TypeOK, Signed
    <2>4. QED
      BY <1>4, <2>1, <2>2, <2>3, NothingIsZero
      DEF RequestInv, DeltaIsEffect, ChangesAreLocked, PosterHoldsAll, ViewIsNonNegative,
          AmountsFit, CounterFitsJob, Adjustments, NonNegative
  <1>6. QED
    BY <1>1, <1>4, <1>5 DEF IInv

\* A commit moves every balance by the request's net effect, whose total is the
\* sum of its pots.
LEMMA BalancesKept ==
  ASSUME IInv, NEW p \in Requests, Step(p)
  PROVE  TotalIsSum' /\ NonNegative'
  <1>1. TypeOK /\ TotalIsSum /\ NonNegative /\ RequestInv(p)
    BY DEF IInv
  <1>2. CASE UNCHANGED balance
    BY <1>1, <1>2 DEF TotalIsSum, NonNegative
  <1>3. CASE pc[p] = "commit" /\ balance' = View(p)
    <2>1. \A b \in Books : delta[p][b] = Effect(p)[b]
      BY <1>1, <1>3 DEF RequestInv, DeltaIsEffect, Moved
    <2>2. /\ balance \in [Books -> Int] /\ Effect(p) \in [Books -> Int]
          /\ Effect(p)["total"] = Effect(p)["shu"] + Effect(p)["capital"]
      BY <1>1, ViewAndEffect DEF TypeOK, Signed
    <2>3. \A b \in Books : balance'[b] = balance[b] + Effect(p)[b]
      BY <1>1, <1>3, <2>1, ViewAndEffect
    <2>4. TotalIsSum'
      BY <1>1, <2>2, <2>3 DEF TotalIsSum, Books
    <2>5. NonNegative'
      BY <1>1, <2>1, <2>3 DEF RequestInv, ViewIsNonNegative, NonNegative
    <2>6. QED
      BY <2>4, <2>5
  <1>4. QED
    BY <1>1, <1>2, <1>3, BalanceChanges

LEMMA StepInv == IInv /\ [Next]_vars => IInv'
  <1> SUFFICES ASSUME IInv, [Next]_vars PROVE IInv'
    OBVIOUS
  <1>1. TypeOK'
    BY TypesKept
  <1>2. CASE UNCHANGED vars
    <2> USE <1>2 DEF vars, committed, ledger, locals
    <2>1. ASSUME NEW p \in Requests PROVE RequestInv(p)'
      <3>1. RequestInv(p)
        BY DEF IInv
      <3>2. Moved(p)' = Moved(p) /\ Effect(p)' = Effect(p)
        BY DEF Moved, Effect
      <3>3. QED
        BY <3>1, <3>2 DEF RequestInv, DeltaIsEffect, ChangesAreLocked, PosterHoldsAll,
                          ViewIsNonNegative, AmountsFit, CounterFitsJob
    <2>2. QED
      BY <1>1, <2>1 DEF IInv, TotalIsSum, NonNegative
  <1>3. ASSUME NEW p \in Requests, Step(p) PROVE IInv'
    <2>1. \A q \in Requests : RequestInv(q)'
      BY <1>1, <1>3, OwnStep, OtherStep
    <2>2. QED
      BY <1>1, <1>3, <2>1, BalancesKept DEF IInv
  <1>4. QED
    BY <1>2, <1>3 DEF Next, Quiet

\* The invariant holds in every state the requests can reach.
THEOREM Invariance == Spec => []IInv
  BY InitInv, StepInv, PTL DEF Spec

\* Every variable keeps its type, so that no request ever reads a row, an amount
\* or a lock that is not there.
THEOREM TypesHold == Spec => []TypeOK
  <1>1. IInv => TypeOK
    BY DEF IInv
  <1>2. QED
    BY <1>1, Invariance, PTL

\* The total balance is always the sum of the other two, for any number of
\* requests of every kind, clients that coordinate or not, crashes and deadlocks
\* included.
THEOREM TotalAlwaysSum == Spec => []TotalIsSum
  <1>1. IInv => TotalIsSum
    BY DEF IInv
  <1>2. QED
    BY <1>1, Invariance, PTL

\* No balance is ever negative, although allocateAmounts may divide an amended
\* expense by a restoration that is out of date: the trigger's guard under the
\* locks is enough.
THEOREM NeverNegative == Spec => []NonNegative
  <1>1. IInv => NonNegative
    BY DEF IInv
  <1>2. QED
    BY <1>1, Invariance, PTL

=============================================================================
