# Lumbung Mesari: verification of the back end

Lumbung Mesari is a savings-and-loan cooperative. The repository is its back end: a NestJS
application over PostgreSQL, through knex, run in one or more pods. Money comes in as
savings, installments, fees and penalties, goes out as expenses and loans, and is kept in two
pots, the members' *capital* and the operating surplus (*shu*), with a *total*.

Nothing in the application keeps state in memory between requests. What can go wrong goes
wrong in the database: requests are transactions at READ COMMITTED, the default, which see
what others have committed between any two of their statements, and wait for each other's row
locks. The models follow the code statement by statement at that grain.

## Inventory

| Component | State | Operations | Hard parts | What makes it correct |
| --- | --- | --- | --- | --- |
| Cashbook (`src/cashbook`, triggers in `src/database/migrations`) | `cashbook_balances` (shu, capital, total), `cashbook_transactions` (immutable ledger with before/after snapshots) | post an income or expense, reverse and re-post, remove | three balance rows updated one by one, by a trigger or directly; snapshots computed by the application; lock order | total = shu + capital; nothing negative; balances = ledger; snapshots = balances |
| Expenses (`src/expenses`) | `expenses` | create, amend, re-date, delete | the expense is read before the transaction that uses it | expense = its ledger rows; the division rule |
| Incomes (`src/incomes`) | `incomes` | record | none of its own | each income posted once |
| Loans (`src/loans`) | `loans`, `loan_periods` | apply, approve, reject, disburse | a counting trigger without a lock, a status checked outside the transaction | limit of loans; one decision; one disbursement |
| Installments (`src/loans`) | `installments` | settle; monthly job marks overdue and adds penalties | the job works through a list that ages; several pods | paid once, with its penalty; one penalty per installment |
| Job locks (both schedulers) | PostgreSQL advisory locks | take, skip, release | session locks over a pool of connections | one pod runs, nobody skips without cause |
| Loan arithmetic (`loans.service.ts`, `loans/utils.ts`) | none | payments, remainders, due dates | rounding, zero and negative remainders, month overflow | parts are positive and add up to the principal; due dates in order |
| Mandatory savings (`src/savings`) | `mandatory_savings` | yearly generation, generation for the rest of the year, settlement | bulk inserts that overlap; settlement without a row lock | no month charged without the later ones; paid = booked |
| Users, membership and the principal savings (`src/users`, `src/users-savings`) | `users.status`, `principal_savings` | approve, reject | status read before the transaction; a share computed from two reads | account and deposit agree; the deposit is booked exactly with the admission |
| Authentication (`src/auth`) | `users.status`, OTP and reset columns | register, login, verify, resend, reset | checks made before the transaction; a token looked up by one statement and used up by another | status changes in order, one deposit for each person; a link works once, the newest one works |
| Reports (`src/reports`) | none: it reads `users` and `mandatory_savings` page by page | the yearly report | pages counted and read by statements that see different states | nobody passed over, nothing added twice |
| Database access (`src/database`) | a pool of connections | `transaction()`, queries, pages with their metadata | a second connection asked for inside a transaction | pages fit together; nobody waits for ever |
| Notifications (`src/notifications`) | none | format, send | none | - |

They interact by calls inside one database transaction (a disbursement creates an expense,
which posts to the cashbook, whose trigger moves the balances), by shared rows (the balances,
a loan and its installments), and by nothing else.

## Modules

| Module | Models | Composed of |
| --- | --- | --- |
| `Allocation` | `ExpensesService.allocateAmounts` and sums over the pots, as pure operators | - |
| `Cashbook` | `ExpensesService`, `CashbookTransactionService`, `CashbookBalanceRepository`, the trigger `cashbook_insert_balance` | extends `Allocation` |
| `Book` | what the cashbook promises: the abstract specification of `Cashbook` | extends `Allocation` |
| `Lending` | `createLoan`, `approveLoan`, `rejectLoan`, `disburseLoan`, the trigger `check_max_loans_per_user`; the settlement in one step | abstracts `Cashbook` to one lock and one amount, `Installments` to a count |
| `LoanOffice` | the abstract specification of `Lending` | - |
| `LoanMath` | `roundUpToNearest500Or1000`, `calculateLoanPayments`, the parts and due months of `generateInstallments`, as pure operators | - |
| `Installments` | `settleInstallment`, `processOverdueInstallments` in several pods | extends `LoanMath`; abstracts `JobLock` to one variable |
| `Repayment` | the abstract specification of `Installments` | - |
| `Membership` | `register`, `login` and `resendOtp` (the code), `verifyOtp`, `approveUser`, `rejectUser`, `UsersSavingsService` | abstracts `Cashbook` to one lock and one amount |
| `PasswordReset` | `requestPasswordReset`, `confirmPasswordReset` beside the requests of `Membership` | extends `Membership` |
| `Roster` | the abstract specification of `Membership` | - |
| `Savings` | `MandatorySavingsService`, `SavingsScheduler` | abstracts `Cashbook` to a count, `Membership` to any set of members |
| `Dues` | the abstract specification of `Savings` | - |
| `JobLock` | the advisory lock of `LoansScheduler` and `SavingsScheduler` over the pools of the pods | - |
| `Listing` | a page of a listing and whether another follows (`ORDER BY`, `LIMIT`, `OFFSET`, `createPaginationMetadata`) | - |
| `Report` | `generateMandatorySavingsReport` while members are admitted and savings paid | extends `Listing`; abstracts `Membership` and `Savings` to what they commit |
| `MC...` | small instances for TLC | extend the module they name |
| `...Proofs` | theorems | extend the module they are about |

Definitions that stand for a mistake, to see that a property would notice it, come just before
the definition they are a mutant of, and say so.

### Cashbook

A request is a transaction. `pc` names its next statement; `job` is what it was asked; `seen`
is the expense as `updateExpense` read it before the transaction; `snap` the balances read
under locks; `delta` its uncommitted change of the balances; `owner` the row locks.
`cashbook_transactions` is kept as the sums the code reads from it.

| Action | Code |
| --- | --- |
| `ReceiveIncome`, `CreateExpense`, `UpdateExpense`, `DeleteExpense` | the service methods up to their first statement in the transaction |
| `LockBalance` | one row lock of `SELECT ... FOR UPDATE`; rows are met in any order, because updates move them in the heap |
| `Allocate` | `allocateAmounts` |
| `UpdateRow` | `updateExpenseById`, then `findLatestActiveByExpenseId` |
| `ReadBalances`, `Post` | `lockAllForUpdate`, the inserted rows and what the trigger does with them |
| `SumRows`, `AdjustBalance`, `RemoveRow` | `deleteExpenseTransaction`, `deleteExpenseById` |
| `Commit`, `CommitDelete`, `Fail`, `Crash`, `BreakDeadlock` | the ends of a transaction; PostgreSQL breaks a ring of waiting transactions |

The constant `Overlapping` names the operations that the clients run on an expense while
another of these works on it; the others they run alone. Nothing in the code makes them; the
runs and the theorems with different values show what depends on it.

### Lending

The trigger counts loans that are committed: `InsertLoan` and `CommitLoan` are two steps,
because the foreign key to the loan period waits for whoever locked that row. `findById` in a
transaction locks the loan and, through the join, the loan period (`FindLoan`, `FindPeriod`).
`Disburse` reads the status outside the transaction; `Activate` sets it without another look.

### Loan arithmetic and Installments

`LoanMath` counts in any unit that divides 500 rupiah, `Step` of them. A quotient is kept as its
numerator, so that rounding it is a question about whole numbers. The two formulas for the last
month differ in the code: `calculateLoanPayments` clamps the remainder at zero
(`LastMonthPayment`), `generateInstallments` does not (`LastPrincipal`). A due date is
`setMonth` on the day of the disbursement and then the 20th: a day that the month lacks
overflows into the next one (`DueMonth`).

In `Installments`, `run[d]` is the run of pod `d`: the list it read (`batch`), the loan at hand,
what it marks and fines. Each loan is one transaction (`TakeLoan` to `CommitLoan`), and
`AbortRun` ends the whole run, as an exception does. `Tick` lets a month pass whether or not a
pod's cron fired. Runs and settlements take less than a month. `Settle`, `FindInstallment`,
`CommitSettlement` are `settleInstallment`; `RefuseBooking` is the ledger refusing a principal
that is not positive (`chk_cashbook_amounts_positive`). Penalties are counted in units of the
loan's penalty; `total_amount`, which the penalty is also added to, is not kept: nothing reads
it back. `times`, `collected`, `repaid` and `lapsedIn` record what was booked and when the job
marked an installment. `crossed` records which installments were paid while a run had them on
its list or was about to fine them: the code does not notice this, and the properties that it
breaks say so by excepting these installments.

### Membership

A handler reads the status without a lock (`Begin`), and goes on with its transaction whatever
the status is by then. `UpdateUser` takes the lock of the user's row; after it, `verifyOtp`
runs `ReadTotal`, `CountMembers`, `InsertDeposit` (`createPrincipalSavings`), `approveUser` runs
`ReadDeposit`, `Book` (`settlePrincipalSavings`), and what they write appears at the commit:
`CommitVerification`, `CommitApproval`, `CommitRejection`. `InsertUser` and `UpdateCode` are
statements outside transactions. `Fail` is a statement that must raise, such as the unique index
on `principal_savings.user_id` (`DepositNew`) or the ledger's check of positive amounts
(`Bookable`). `Spend` stands for all other business with the balances. A code is there or not;
which digits it has, and whether they were typed correctly, is not modelled.

`PasswordReset` runs its requests beside these, on the same rows: each statement waits for the
lock of the user's row. A step of it is a step of `Membership` with the reset's own variables
unchanged, or a step of a reset with those of `Membership` unchanged, so that `ResetSpec => Spec`
and what is proved of `Membership` carries over. A token is named by the request that drew it;
`reset[p].at` is the next statement of a reset, `sent` when the mail is out, `lost` when it
failed or the process was lost.

### Savings

The bulk insert is modelled row by row: `owner` says whose uncommitted row a record is, another
insert of it waits (`InsertRecord`), and skips it once it is committed (`Missing`). Months are
inserted in order, the members within a month in any order, because the query that lists them
has none. `Yearly` and `Remaining` choose the months; who is an active member at that moment is
left open. `Settle`, `MarkPaid` and `CommitSettlement` are `settleMandatorySavings`. Months are
counted from a first one, `YearLength` of them make a year.

### Listing and Report

`Pages` is what a query for a page may return: rows with equal sort keys come in any order. The
report goes through two phases, members and savings, each a loop of a count (`CountRows`) and
the rows of the page (`ReadRows`), as `BaseRepository` issues them. `Admit`, `Leave` and `Pay`
are what the other requests commit meanwhile. `opening` is what there was when a phase began,
`crossed` the phases in which a row came between a count and its page. The column that a saving
goes to is `new Date(periodDate).getMonth()` (`reports.service.ts:78`), which is its month as
long as the process's time zone is not west of Greenwich; that of `.env.example:34` is not.

### JobLock

A session holds the lock, a query uses any idle connection of its pod, and a session may lock
again what it holds. `Acquire`, `Skip`, `JobEnds`, `Release` are `checkOverdueInstallments` and
`createYearlyMandatorySavings`; `Borrow`, `Return`, `Reap` and `Crash` are the pool and the
pods. `LongJobs` says whether a job may last so long that the pool closes the idle connection
that holds the lock.

## Runs

Passing runs:

| Run | Question | Bounds |
| --- | --- | --- |
| `CashbookShared` | do balances, ledger and expenses agree, is the division rule kept, do the requests behave like `Book`? Amendments of one expense overlap, it is deleted and re-dated alone | 3 requests, 1 expense on record |
| `CashbookRaces` | what survives everything overlapping: the total, no negative balance, true snapshots; does every transaction end? | 2 requests, 1 expense |
| `LendingRaces` | the limit on granted loans, one disbursement, refinement of `LoanOffice`; does every transaction end? | 3 requests, 4 loans on record, two of them approved and two pending where `MaxLoans` = 2 (`LendingOverLimit` shows how that comes about), 2 members, 2 loan periods, capital for one loan and not for two |
| `InstallmentsRaces` | penalties and lapses under missed, aborted and repeated runs and settlements at any time; paid once and with the penalty unless the payment crosses a run; do the principal booked and the parts still to come add up to the loan, to its full repayment? Refinement of `Repayment`; does every run and settlement end? | 2 pods, 2 requests, 2 months; two loans of two installments: 3 over a rounded part of 2 and a remainder of 1, due in February and March, which two settlements repay; and 2 disbursed on the 30th of January, whose month overflows, with both due dates in March and nothing left for the last part |
| `MembershipRaces` | do account and deposit agree, is a deposit the share of its moment, do the requests behave like `Roster`, do links for a reset work once and not get lost, do all end? | 3 requests, 4 persons, one at each stage; a total of 5, of which others spend 2 at a time, so that the share can become zero |
| `SavingsRaces` | no gaps in a year, paid = booked, refinement of `Dues`; do two inserts that wait for each other end? | 3 requests, 2 members, years of 2 months, 3 months, so that a run can begin in the middle and at the start of a year |
| `ReportRaces` | is a report exact if nothing happens, is nobody passed over and nothing added twice if something does, does it end? | 2 rows to a page, 3 members who have paid both months, a fourth who may come in before them or with the name of the last |
| `JobLockShared` | one runner at a time, jobs ending in time | 3 pods of 2 connections, 3 firings each |

The amounts 1 and 3 against an opening balance of 1 and 2 let an expense fit one pot, need
both, exceed both, or become affordable by an income or a reversal. Every race in the code is
between two transactions over one shared row; the third request gives the chain of three that
a deadlock through the balances can need. `MaxLoans` is 2 instead of 3: the trigger compares a
count with it and does nothing else. `Months`, `MaxFirings` and the one operation per request
bound the length of a behaviour; the theorems below do not depend on them. Two months are
enough for a loan to lapse twice, be fined, and be overtaken by a second pod, in its months or,
after a missed one, in one; a loan that lapses three times is left to the theorems. Pages of two rows, with three or four members and six to eight savings, give full and
short last pages and a row that moves from one page to the next. `MCInstallments` also
evaluates `RoundUp` against the next multiple for small numbers.

Runs that TLC finds violated, each a disagreement of the code with what the repository says of
it (`PROJECT.json`, "findings", quotes the line):

| Run | What happens |
| --- | --- |
| `CashbookDoubleDelete` | two deletions of an expense give its amounts back twice |
| `LendingOverLimit` | two concurrent applications exceed the limit |
| `InstallmentsPaidTwice` | an installment paid during a run is marked overdue and can be paid again |
| `JobLockLeaked` | the lock is released on the wrong connection; later runs are skipped for nobody |

The code and its documents also part in these places, which follow from reading the models and
have no run of their own:

- a change of the date alone writes the amounts read before its transaction to the ledger, even
  when a concurrent amendment has changed them (`expenses.service.ts:373`, and the comment at
  369); `LedgerMatchesExpenses` is checked with such changes made alone, and the theorem of it
  says that only an amendment that overlaps one breaks it;
- a loan whose installments are all paid stays active (`loans.service.ts:743`,
  `docs/business-flow/loans-system.md:22` says completed) and counts against the limit;
- two settlements of one mandatory savings record both book an income
  (`savings.service.ts:330`; `savings.controller.ts:384` says that a paid one is refused):
  `PaidIsBooked` says nothing of how often;
- an approval and a rejection of one person at the same moment both succeed, the later one
  prevails, and a rejected person's deposit may have been booked (`users.service.ts:236`);
- a deposit of zero is possible (`users-savings.service.ts:133`) and can never be settled;
- an expired one-time password is accepted: the query does not select the column that
  `auth.service.ts:180` looks at;
- a deletion moves the balances without a ledger row, so that no snapshot shows it
  (`cashbook-transaction.service.ts:412`, `docs/architecture.md:196`);
- the sources `auto` and `total` take capital first, as `CapitalFirst` states and
  `expenses.service.ts:79` and `:96` do, where `docs/data-flow-diagram.md` says otherwise of
  both: of `auto` surplus first (line 129), of `total` a proportional split (line 132).
  `CapitalFirst` holds, so that neither of these does;
- an installment is fined once, as `FewerFinesThanLapses` states and the comment at
  `loans.service.ts:133` says, and the penalty goes to the oldest overdue one without any.
  `penalty-system.md` has three other readings: additive (line 83), accumulating on the earliest
  overdue installment (line 135), and on the earliest of the month's batch (line 149). In the
  third month of arrears the code fines the second installment, which is neither. It adds to
  `penalty_amount` rather than replacing it, as line 83 says, but only ever to a zero;
- an amendment is divided as if the deduction it read before its transaction were still in
  place (`expenses.service.ts:331`), which `CapitalFirst` excepts;
- a penalty can be put on an installment that was settled after the job chose it
  (`loans.repository.ts:414`): `SettledOnceUnlessCrossed` excepts such payments;
- the principal of the last installment is not clamped (`loans.service.ts:630`; the comment at
  191 says it is): a loan of 2,000 rupiah over 3 months, 12,500 over 6, 32,000 over 9 or 60,500
  over 12, and many smaller ones, has a last installment that the ledger refuses, so that it can
  never be repaid to the end. `PrincipalAccounted` says that what such a loan still owes is what
  its last part says, not that somebody can pay it;
- a loan disbursed on the 29th to the 31st may have a month without an installment and two in
  the next (`loans.service.ts:640`, where the comment says one each month);
- a payment during the second phase of a report moves a row to the next page, where it is added
  to the total again (`reports.service.ts:82`); a payment or an admission between a count and
  its page, or two members of one name, can make it leave somebody out;
- two confirmations of one reset that overlap both change the password
  (`auth.service.ts:378`), and a new link whose mail is lost has put the old one out of force
  (`auth.service.ts:310`);
- one installment per loan and *run* is marked, so that a backlog stays after a missed month
  and two pods, one after the other, mark two in one month (`loans.service.ts:117`; the comment
  above it says one per month, `penalty-system.md:75` says all);
- the count of overdue installments decides on a penalty, consecutive or not
  (`loans.service.ts:135`, `penalty-system.md:19`);
- with `LongJobs = TRUE`, `OneAtATime` fails: the lock goes with its connection while the job
  runs on (`loans.scheduler.ts:48`).

Fairness. `FairSpec` assumes weak fairness of each transaction's own statements (and of a run's,
a reset's and a report's): the database executes a statement whose locks are free, and cancels
one transaction of a deadlock; the mail server answers, one way or the other (`Mail`). It does not assume that a request is ever made, that a lock is granted in order, or
that nothing crashes. Symmetry is used in runs without liveness, over requests, pods, loans and
connections, which no property tells apart.

## Proofs

The theorems hold for every value of the constants that meets the modules' named assumptions
(`CashbookAssumption`, `LendingAssumption`, `StepAssumption`, `InstallmentsAssumption`,
`MembershipAssumption`, `SavingsAssumption`, `ListingAssumption`, `ReportAssumption`,
`JobLockAssumption`): names do not clash, amounts, tenors and pages are positive, sets of loans
and of users are finite, and so on. TLC evaluates them on every run. Theorems with an assumption
of their own (`ASSUME ... PROVE`) say so below. Every invariant, action property and refinement
that a passing run checks is a theorem; what the runs add is liveness, and that the cases the
theorems speak of occur.

| Module | Theorem | Assumes besides |
| --- | --- | --- |
| `CashbookProofs` | `AllocationDivides`: an affordable amount is divided into two parts that add up and are covered; `TypesHold`; `TotalAlwaysSum`; `NeverNegative` | - |
| `CashbookLedgerProofs` | `SnapshotsAlwaysTrue`, `CapitalAlwaysFirst` | - |
| `CashbookLedgerProofs` | `BalanceAlwaysMatchesLedger` | an expense being deleted is left alone: `"delete" \notin Overlapping` |
| `CashbookLedgerProofs` | `LedgerAlwaysMatchesExpenses` | no amendment overlaps a change of the date alone: `~({"redate", "amend"} \subseteq Overlapping)` |
| `CashbookLedgerProofs` | `RequestsImplementBook` | both |
| `LendingProofs` | `TypesHold`, `NeverGrantedTooMany`, `AlwaysDisbursedOnce`, `RequestsImplementLoanOffice` | - |
| `InstallmentsProofs` | `RoundUpIsNextMultiple`; `PaymentsCoverTotal`: the payments add up to the total payable, or to more when the last part is negative; `DueMonthsInOrder`: the due months ascend, at most two in one month and none more than a month late | - |
| `InstallmentsProofs` | `EveryPartIsPositive`: no installment is refused by the ledger | the principal is at least 500 * tenor * (tenor - 1) |
| `InstallmentsProofs` | `LastPartIsLost`: nothing, or less, is left for the last installment | the principal is at most 500 * (tenor - 1) |
| `InstallmentsProofs` | `TypesHold`, `AlwaysFewerFines`, `LapsesAreInOrder`, `PaymentsStayUnlessCrossed`, `PrincipalAlwaysAccounted`, `RunsImplementRepayment` | - |
| `MembershipProofs` | `TypesHold`, `StagesAlwaysAgree`, `SharesAlwaysFair`, `RequestsImplementRoster` | - |
| `MembershipProofs` | `ResetsKeepMembership`: `ResetSpec => Spec`, so that the four above hold of `ResetSpec` too; `ResetTypesHold`, `SpentLinksAlwaysDead`, `OneLinkAlwaysWorks` | - |
| `SavingsProofs` | `TypesHold`, `PaidAlwaysBooked`, `NeverGaps`, `RequestsImplementDues` | - |
| `ReportProofs` | `TypesHold`, `NobodyIsPassedOver`, `UndisturbedIsExact`, `FooterAlwaysAgrees` | - |
| `JobLockProofs` | `TypesHold` | - |
| `JobLockProofs` | `NeverTwoRuns` | `~LongJobs` |

*Cashbook.* `TotalIsSum` and `NonNegative` are not inductive: a balance is what somebody's
uncommitted change makes of it. The invariant adds that only the holder of the three balance
locks has read them or has a change pending, that a pending change is what the request's debit
and credit say or, for a deletion, the part of it applied so far, and that the trigger's guard
has been met by the time of the commit. For the ledger a second invariant is needed:
`SnapshotInv`, that the balances a request has read under its locks are still the balances; and,
for the sum, that a deletion's net amounts are still those of the rows it will remove. That
last part is where two deletions break, and it is why deletions must not overlap.

`LedgerMatchesExpenses` needs `RowsInv`: what an amendment reverses is what the expense costs,
since it reads the row again under its lock (`ReversalFits`), and what a change of the date
writes, which is what it read before its transaction, is still the cost or the expense is gone
(`SeenIsStill`). Only an amendment in between can break the latter. Deletions may overlap here,
as the rows of an expense are removed with it. `CapitalFirst` speaks of the balances after the
commit, several steps after the division: it needs that the two pots stay locked in between, so
that the capital the division found is still there to be taken (`DivisionHolds`). For `Book` an operation must in
addition find the expense on record to its end (`DeletesWhatIs`), which is why both assumptions
are made. They cannot be weakened: an instance of TLC with two requests breaks each property as
soon as the operations that its assumption keeps apart may overlap.

*Lending.* `LendingInv` says what a request relies on while others work: the locks it holds
(`LocksHeld`), the state in which it found the loan or one that can follow (`LoanFits`), and
that the loans granted *or about to be* are within the limit (`PledgedWithinLimit`).
`GrantedWithinLimit` alone is not inductive: the trigger counts before the commit. It works
because it counts pending loans too, and one about to be granted is still pending
(`PledgedAreOpen`). `DisbursedOnce` needs that the unique index is met under the loan's lock.
The refinement maps each commit to a step of `LoanOffice` and everything else to a stutter.

*Membership.* `StagesAgree` is not inductive, because the status that a handler has checked may
have changed before it locks the row. `MembershipInv` adds that a request past that statement
holds the row (`InPlace`), that no status is ever left for an earlier one, and that the deposit
is still what the request found under the lock (`UpToDate`): nobody changes a deposit without
it (`DepositsChange`). So each commit finds the state that its step in `Roster` starts from
(`CommitsFind`).

`FairShare` relates a deposit to the total and the members at its commit, where the code has read
the one and then counted the others. `ShareInv` says that whoever counts, or has still to commit
what it computed, holds the lock of the total, and so does whoever books a deposit: meanwhile
nobody pays, nobody spends, and members can only become fewer. The set that was counted
therefore lies between those active now and those who have paid (`Counted`), and a share falls
as the set grows (`ShareFalls`).

*Password reset.* A link that has changed a password could come into force again only through a
request that draws it, and `FollowedWereSent` says that its request is past that: what is
followed was sent. `TokensStand` is what `OneLinkWorks` needs while a mail is still under way:
once a link of a member has been stored, and until the password is changed, the token in force
is that of one of the member's own requests and has been stored.

*Loan arithmetic.* Rounding adds less than one step of 500 to each of the first tenor - 1 parts,
which the last part bears: it stays positive when the principal allows for all of them. Between
the two bounds of `EveryPartIsPositive` and `LastPartIsLost` it depends on the remainder.

*Installments.* The safety properties hold together or not at all, and `IInv` has them as
conjuncts. What it adds is about a list that grows old: what a run has on its list has never
lapsed, and is due, or paid since with the payment in `crossed`; nothing that is due comes before
it without being listed too (`BatchFits`), which is where `DueMonthsInOrder` is needed; what is
about to be fined has no penalty and is the installment just marked or one marked before
(`FinedFits`); one run at most holds the job's lock (`RunFits`). A settlement has found its
installment unpaid under its lock (`RequestFits`). Each step is shown to keep these in turn, and
to be a step of `Repayment` or none. `PrincipalAccounted` compares sums over the
installments of a loan with its principal: `RepaidFits` says that the sum booked for a loan can be
laid out along its installments, each paid one adding its part; `PartsAddUp`, that this and what
is still due add up to the parts, the last of which is the remainder. That this holds of every
tenor is shown by the least installment at which it fails (`LeastNumber`: a set of natural
numbers has a least element), since the prover has no induction.

*Savings.* `NoGaps` is not inductive: a commit adds records of which some exist already.
`SavingsInv` follows the request that adds them: it set out to charge some members for months
that run to the end of their years, and each of these records is still to be inserted, exists,
or is its own uncommitted row (`Charging`). At the commit nothing is left to insert, which gives
both `NoGaps` and the step of `Dues`.

*Report.* `IInv` says where the reading stands. A row of the beginning that is not in the table
is still to come: the rows now before it are at least as many as the pages read so far hold
(`MembersPassed`, `SavingsPassed`). Rows that come in only add to them, and the next page takes
the row as long as the count made for this page is not out of date (`CountFits`, `crossed`).
While nobody pays, what is in the cells lies on the pages read so far and was added once
(`SavingsExact`); otherwise it was added at least once (`TableFits`). This rests on what a page
is: the rows of a listing whose places lie between two multiples of its length (`PageIsRange`),
as no two keys are equal (`KeysDiffer`). The totals of the footer are sums over the table, and
lemmas about such sums (`SumGrows`, `SumCounts`, `RowsAndColumns`) are shown like the one above.

*Job lock.* A pod in its job has a session with the lock (`RunnersHold`), and only one session
has it (`OneHolder`, a part of the invariant). The unlocking query may miss the session, but by then the job has ended.

Left to TLC: liveness under fairness (`EveryRequestEnds`, `EverythingEnds`, `ReportEnds`), which
the prover does not do, and the runs that expect a violation. Left to the prover: the type
invariants of `PasswordReset` and `JobLock`, which no run repeats, and one case of `FairShare`:
that nobody has paid a deposit yet, since `MembershipRaces` starts with a member. The library's
induction theorems take an operator that the prover cannot instantiate; sums over a table or over
a loan's installments are reasoned about by the least number at which a claim fails.

## Not modelled

- `updateIncomeTransaction` and `deleteIncomeTransaction` have no caller.
- Updates of an expense's name, notes, category or loan change no money.
- Guards, DTO validation, formatting, the layout of the report, notifications: they change no
  state of the models. The listings behind the controllers use the pages of `Listing`, one page
  to a request, and leave nothing behind. That a mail may fail is part of `PasswordReset`.
- The second connection that some queries ask the pool for inside a transaction
  (`expenses.service.ts:189`): knex gives up the wait after its acquire timeout and the request
  fails, as by `Crash`.
- The expiry and the digits of one-time passwords, and the expiry of a link: one that has
  expired is refused like one that is not known.
- The bound of decimal(12,4): an amount beyond it makes the `INSERT` raise before anything is
  written (`expenses.service.ts:160`).
- The time zones in which the yearly job fires and reads the year (`savings.scheduler.ts:23`,
  `mandatory-savings.repository.ts:395`), which can differ: `Savings` has one calendar.
- Tokens, hashing, throttling: library calls.
- The dead update and delete triggers of the first ledger, replaced by the immutable one.

## Plan

What is modelled is proved, except liveness. Next:

1. Lemmas that say more about what the abstract specifications promise, `Book`, `LoanOffice`,
   `Repayment`, `Roster` and `Dues`, by themselves: an invariant of one of them carries over to
   the detailed specification through its refinement.
2. A composition of `Lending` and `Cashbook`: a disbursement's expense deleted or amended. The
   abstract specifications `LoanOffice` and `Book` are what it composes.
3. `JobLock` under `Installments`, instead of the variable that stands for the lock.

Related questions share a run, so that there are few: a new module brings one passing run for
its safety, liveness and refinement, and a second only for a real disagreement.
