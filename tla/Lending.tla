------------------------------- MODULE Lending -------------------------------
(***************************************************************************)
(* Loans from the application to the repayment, as concurrent requests     *)
(* handle them: LoansService.createLoan, approveLoan, rejectLoan,          *)
(* disburseLoan and, in one step, settleInstallment (Installments has its  *)
(* detail).  Requests are PostgreSQL transactions at READ COMMITTED, as in *)
(* Cashbook.  The balances count as one lockable row here; what happens    *)
(* inside it is Cashbook's.                                                *)
(***************************************************************************)
EXTENDS Integers, FiniteSets

CONSTANTS
  Requests,        \* the requests, each running one operation once
  Existing,        \* the loans on record at the start, pending or
  Approved,        \* approved
  None,            \* no request
  MemberOf,        \* whose each loan is
  PeriodOf,        \* the loan_periods row each loan refers to
  MaxLoans,        \* the limit in check_max_loans_per_user, 3
  Tenor,           \* installments of a loan
  Disbursed,       \* disbursed_amount of a loan
  Installment,     \* the principal in one installment
  OpeningCapital   \* the capital at the start

Kinds == {"apply", "approve", "reject", "disburse"}

\* A loan applied for by a request goes by the request's own name: its uuid.
LoanIds == Existing \cup Requests

Periods == {PeriodOf[l] : l \in LoanIds}

\* The lockable rows.
Rows == LoanIds \cup Periods \cup {"balances"}

ASSUME LendingAssumption ==
  /\ IsFiniteSet(Existing) /\ IsFiniteSet(Requests)
  /\ Existing \cap Requests = {} /\ None \notin Requests
  /\ Approved \subseteq Existing
  /\ MemberOf \in [LoanIds -> {MemberOf[l] : l \in LoanIds}]
  /\ PeriodOf \in [LoanIds -> Periods] /\ Periods \cap LoanIds = {}
  /\ "balances" \notin LoanIds \cup Periods
  /\ \A l \in Approved : Cardinality({k \in Approved : MemberOf[k] = MemberOf[l]}) <= MaxLoans
  /\ MaxLoans \in Nat /\ Tenor \in Nat \ {0}
  /\ Disbursed \in Nat \ {0} /\ Installment \in Nat /\ OpeningCapital \in Nat

VARIABLES
  status,   \* loans.status as committed, "none" for a loan not applied for
  unpaid,   \* per loan, its installments outstanding
  issued,   \* the loans that have installments
  capital,  \* the capital balance as committed
  owner,    \* who holds each row's lock, or None
  pc,       \* the statement each request is about to run
  job       \* what each request was asked to do, and about which loan

committed == <<status, unpaid, issued, capital>>
vars == <<committed, owner, pc, job>>

Init ==
  /\ status = [l \in LoanIds |-> CASE l \in Approved            -> "approved"
                                  [] l \in Existing \ Approved -> "pending"
                                  [] OTHER                     -> "none"]
  /\ unpaid = [l \in LoanIds |-> 0]
  /\ issued = {}
  /\ capital = OpeningCapital
  /\ owner = [r \in Rows |-> None]
  /\ pc = [p \in Requests |-> "idle"]
  /\ job = [p \in Requests |-> [kind |-> "apply", loan |-> p]]

-----------------------------------------------------------------------------
InTransaction(p) == pc[p] \notin {"idle", "committed", "rolledBack"}

Target(p) == job[p].loan

\* The loans that count against the limit.
Open == {l \in LoanIds : status[l] \in {"pending", "approved", "active"}}

\* The other open loans of l's member, as check_max_loans_per_user counts them:
\* the committed ones.
Others(l) == {k \in Open \ {l} : MemberOf[k] = MemberOf[l]}

\* The trigger, before a loan is inserted or updated to an open status.  The
\* mutant is an off-by-one.
WithinLimitOrOneMore(l) == Cardinality(Others(l)) <= MaxLoans
WithinLimit(l) == Cardinality(Others(l)) < MaxLoans

Goto(p, next) == pc' = [pc EXCEPT ![p] = next]

\* p obtains the lock of row r.
Lock(p, r) == owner[r] = None /\ owner' = [owner EXCEPT ![r] = p]

Begin(p, kind, l, first) ==
  /\ pc[p] = "idle"
  /\ job' = [job EXCEPT ![p] = [kind |-> kind, loan |-> l]]
  /\ Goto(p, first)
  /\ UNCHANGED <<committed, owner>>

-----------------------------------------------------------------------------
(* createLoan: one INSERT, with no transaction around it. *)

Apply(p) == Begin(p, "apply", p, "insert")

\* The trigger counts before the row is inserted.
InsertLoan(p) ==
  /\ pc[p] = "insert" /\ WithinLimit(p)
  /\ Goto(p, "reference")
  /\ UNCHANGED <<committed, owner, job>>

\* The foreign key to the loan period waits for whoever has locked that row, and
\* the INSERT is committed.
CommitLoan(p) ==
  /\ pc[p] = "reference" /\ owner[PeriodOf[p]] = None
  /\ status' = [status EXCEPT ![p] = "pending"]
  /\ Goto(p, "committed")
  /\ UNCHANGED <<unpaid, issued, capital, owner, job>>

-----------------------------------------------------------------------------
(* approveLoan and rejectLoan. *)

Approve(p) == \E l \in LoanIds : status[l] # "none" /\ Begin(p, "approve", l, "find")

Reject(p) == \E l \in LoanIds : status[l] # "none" /\ Begin(p, "reject", l, "find")

\* findById in the transaction: FOR UPDATE locks the loan and, because of the
\* join, its loan period.
FindLoan(p) ==
  /\ pc[p] = "find" /\ Lock(p, Target(p))
  /\ Goto(p, "findPeriod")
  /\ UNCHANGED <<committed, job>>

FindPeriod(p) ==
  /\ pc[p] = "findPeriod" /\ Lock(p, PeriodOf[Target(p)])
  /\ Goto(p, "decide")
  /\ UNCHANGED <<committed, job>>

\* The loan is still to be decided, as findById in the transaction sees it.  The
\* mutant only asks that it has not been paid out.
UndecidedOrUnpaid(l) == status[l] # "active"
Undecided(l) == status[l] = "pending"

\* updateLoanStatus; approval meets the trigger again.
Decide(p) ==
  /\ pc[p] = "decide" /\ Undecided(Target(p))
  /\ job[p].kind = "approve" => WithinLimit(Target(p))
  /\ Goto(p, "commit")
  /\ UNCHANGED <<committed, owner, job>>

-----------------------------------------------------------------------------
(* disburseLoan: the status is read, and checked, before the transaction. *)

Disburse(p) ==
  \E l \in LoanIds : status[l] = "approved" /\ Begin(p, "disburse", l, "activate")

\* The loan becomes active whatever its status is by now; the trigger fires.
Activate(p) ==
  /\ pc[p] = "activate" /\ Lock(p, Target(p)) /\ WithinLimit(Target(p))
  /\ Goto(p, "insertInstallments")
  /\ UNCHANGED <<committed, job>>

\* unique(loan_id, installment_number).  The mutant does without.
InstallmentsAnyway(l) == TRUE
InstallmentsNew(l) == l \notin issued

InsertInstallments(p) ==
  /\ pc[p] = "insertInstallments" /\ InstallmentsNew(Target(p))
  /\ Goto(p, "pay")
  /\ UNCHANGED <<committed, owner, job>>

\* createExpenseInTransaction takes the amount from capital, with the balances
\* locked.
Pay(p) ==
  /\ pc[p] = "pay" /\ Lock(p, "balances") /\ capital >= Disbursed
  /\ Goto(p, "commit")
  /\ UNCHANGED <<committed, job>>

-----------------------------------------------------------------------------
(* settleInstallment in one step; the loan keeps its status. *)

\* An installment of l can be settled.  The mutant goes by the loan's status.
OutstandingByStatus(l) == status[l] \in {"approved", "active"}
Outstanding(l) == unpaid[l] > 0

Settle(p) ==
  /\ pc[p] = "idle"
  /\ owner["balances"] = None
  /\ \E l \in LoanIds :
       /\ Outstanding(l)
       /\ unpaid' = [unpaid EXCEPT ![l] = @ - 1]
  /\ capital' = capital + Installment
  /\ Goto(p, "committed")
  /\ UNCHANGED <<status, issued, owner, job>>

-----------------------------------------------------------------------------
(* The ends. *)

\* The locks without p's.
Unlocked(p) == [r \in Rows |-> IF owner[r] = p THEN None ELSE owner[r]]

Finish(p, outcome) ==
  /\ Goto(p, outcome)
  /\ owner' = Unlocked(p)
  /\ job' = [job EXCEPT ![p] = [kind |-> "apply", loan |-> p]]

StatusAfter(p) == CASE job[p].kind = "approve"  -> "approved"
                    [] job[p].kind = "reject"   -> "rejected"
                    [] job[p].kind = "disburse" -> "active"

CommitDecision(p) ==
  /\ pc[p] = "commit" /\ job[p].kind # "disburse"
  /\ status' = [status EXCEPT ![Target(p)] = StatusAfter(p)]
  /\ UNCHANGED <<unpaid, issued, capital>>
  /\ Finish(p, "committed")

CommitDisbursement(p) ==
  /\ pc[p] = "commit" /\ job[p].kind = "disburse"
  /\ status' = [status EXCEPT ![Target(p)] = StatusAfter(p)]
  /\ unpaid' = [unpaid EXCEPT ![Target(p)] = @ + Tenor]
  /\ issued' = issued \cup {Target(p)}
  /\ capital' = capital - Disbursed
  /\ Finish(p, "committed")

\* A statement that must raise: the trigger's limit, a loan that is not pending,
\* installments that exist, too little capital.  The mutant leaves the transaction
\* open when the loan is not pending.
DoomedUnlessDecided(p) ==
  \/ pc[p] = "insert" /\ ~WithinLimit(p)
  \/ pc[p] = "decide" /\ job[p].kind = "approve" /\ ~WithinLimit(Target(p))
  \/ pc[p] = "activate" /\ owner[Target(p)] = None /\ ~WithinLimit(Target(p))
  \/ pc[p] = "insertInstallments" /\ ~InstallmentsNew(Target(p))
  \/ pc[p] = "pay" /\ owner["balances"] = None /\ capital < Disbursed
Doomed(p) ==
  \/ pc[p] = "insert" /\ ~WithinLimit(p)
  \/ /\ pc[p] = "decide"
     /\ \/ ~Undecided(Target(p))
        \/ job[p].kind = "approve" /\ ~WithinLimit(Target(p))
  \/ pc[p] = "activate" /\ owner[Target(p)] = None /\ ~WithinLimit(Target(p))
  \/ pc[p] = "insertInstallments" /\ ~InstallmentsNew(Target(p))
  \/ pc[p] = "pay" /\ owner["balances"] = None /\ capital < Disbursed

Fail(p) == Doomed(p) /\ Finish(p, "rolledBack") /\ UNCHANGED committed

\* The transaction is lost at any point.
Crash(p) == InTransaction(p) /\ Finish(p, "rolledBack") /\ UNCHANGED committed

Progress(p) ==
  \/ InsertLoan(p) \/ CommitLoan(p) \/ FindLoan(p) \/ FindPeriod(p) \/ Decide(p)
  \/ Activate(p) \/ InsertInstallments(p) \/ Pay(p)
  \/ CommitDecision(p) \/ CommitDisbursement(p) \/ Fail(p)

Step(p) ==
  \/ Apply(p) \/ Approve(p) \/ Reject(p) \/ Disburse(p) \/ Settle(p)
  \/ Progress(p) \/ Crash(p)

\* Every request has ended, or none was ever made.
Quiet == (\A p \in Requests : ~InTransaction(p)) /\ UNCHANGED vars

Next == Quiet \/ \E p \in Requests : Step(p)

Spec == Init /\ [][Next]_vars

\* The database goes on with a transaction whose statement can run.
Fairness == \A p \in Requests : WF_vars(Progress(p))

FairSpec == Spec /\ Fairness

-----------------------------------------------------------------------------
(* Properties. *)

\* Every variable has its type.
TypeOK ==
  /\ status \in [LoanIds -> {"none", "pending", "approved", "rejected", "active"}]
  /\ unpaid \in [LoanIds -> Nat]
  /\ issued \subseteq LoanIds
  /\ capital \in Int
  /\ owner \in [Rows -> Requests \cup {None}]
  /\ pc \in [Requests -> {"idle", "insert", "reference", "find", "findPeriod", "decide",
                          "activate", "insertInstallments", "pay", "commit",
                          "committed", "rolledBack"}]
  /\ job \in [Requests -> [kind : Kinds, loan : LoanIds]]

\* The loans of member m that are approved or active.
Granted(m) == {l \in LoanIds : MemberOf[l] = m /\ status[l] \in {"approved", "active"}}

\* No member is granted more loans than the limit: although applications may race
\* past the trigger, approval meets it again and counts every loan that could have
\* been approved first (check_max_loans_per_user, approveLoan).
GrantedWithinLimit == \A l \in LoanIds : Cardinality(Granted(MemberOf[l])) <= MaxLoans

\* A loan has installments exactly when it is active, and never more than its
\* tenor, although disburseLoan checks a status it read without a lock.
DisbursedOnce ==
  /\ issued = {l \in LoanIds : status[l] = "active"}
  /\ \A l \in LoanIds : unpaid[l] <= Tenor

\* No member has more open loans than the limit.
OpenWithinLimit == \A l \in Open : Cardinality(Others(l)) < MaxLoans

Promise == INSTANCE LoanOffice

\* The requests, interleaved statement by statement, behave like the one-step
\* operations of LoanOffice: one decision, one disbursement, from money there is.
ImplementsLoanOffice == Promise!OfficeSpec

\* Every transaction ends: nobody waits for ever for a loan, a period or the
\* balances.
EveryRequestEnds == \A p \in Requests : InTransaction(p) ~> ~InTransaction(p)

=============================================================================
