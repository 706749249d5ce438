---------------------------- MODULE Installments ----------------------------
(***************************************************************************)
(* The installments of disbursed loans, between the admins who settle them *)
(* (LoansService.settleInstallment) and the monthly job that marks the     *)
(* overdue ones and adds penalties (LoansScheduler,                        *)
(* processOverdueInstallments).  Every pod of the application runs the     *)
(* job; JobLock has the detail of the lock between them, and Cashbook that *)
(* of the money: here a settlement only counts.                            *)
(***************************************************************************)
EXTENDS LoanMath, FiniteSets

CONSTANTS
  Loans,      \* the loans, disbursed in one month
  Terms,      \* the principal, the tenor and the day of disbursement of each
  Start,      \* that month, January being 0
  February,   \* the days of the February that comes next
  Months,     \* the months before the clock stops
  Pods,       \* the instances of the application
  Requests,   \* the settlements an admin may ask for
  None        \* no pod, no request, no installment

\* An installment is named by its loan and its number: unique in the table.
Ids == UNION {{l} \X (1..Terms[l].tenor) : l \in Loans}

ASSUME InstallmentsAssumption ==
  /\ IsFiniteSet(Loans)
  /\ Terms \in [Loans -> [principal : Nat \ {0}, tenor : Nat \ {0}, day : 1..31]]
  /\ Start \in 0..11 /\ February \in {28, 29}
  /\ Months \in Nat
  /\ Pods \cap Requests = {}
  /\ None \notin Pods \cup Requests \cup Ids \cup Loans

VARIABLES
  month,      \* the month whose 20th was the last to pass
  status,     \* installments.status as committed
  penalty,    \* installments.penalty_amount, in units of the loan's penalty
  times,      \* how often each installment's principal was booked as income
  collected,  \* the penalties booked as income for each installment
  repaid,     \* the principal booked as income for each loan
  crossed,    \* the installments paid while a run had them on its list or was about
              \* to fine them: what the code does not keep, for the properties
  lapsedIn,   \* the month in which the job marked an installment, or 0
  owner,      \* who holds each installment's row lock, or None
  jobLock,    \* the pod that holds the job's advisory lock, or None
  firedIn,    \* the month in which each pod's cron last fired
  run,        \* each pod's run of the job
  request     \* each admin's request

committed == <<status, penalty, times, collected, repaid, crossed, lapsedIn>>
vars == <<month, committed, owner, jobLock, firedIn, run, request>>

\* A run: its next statement, the overdue installments it found, the loan it is
\* working on, the installment it marks and the one it fines, and to how much.
NoRun == [at |-> "idle", batch |-> {}, loan |-> None, previous |-> 0,
          marked |-> None, fined |-> None, fine |-> 0]

NoRequest == [at |-> "idle", id |-> None]

Init ==
  /\ month = 0
  /\ status = [i \in Ids |-> "due"]
  /\ penalty = [i \in Ids |-> 0]
  /\ times = [i \in Ids |-> 0]
  /\ collected = [i \in Ids |-> 0]
  /\ repaid = [l \in Loans |-> 0]
  /\ crossed = {}
  /\ lapsedIn = [i \in Ids |-> 0]
  /\ owner = [i \in Ids |-> None]
  /\ jobLock = None
  /\ firedIn = [d \in Pods |-> 0]
  /\ run = [d \in Pods |-> NoRun]
  /\ request = [p \in Requests |-> NoRequest]

-----------------------------------------------------------------------------
Running(d) == run[d].at # "idle"
Asking(p) == request[p].at \in {"find", "book"}

\* i is free for a transaction to lock.
Lock(a, i) == owner[i] = None /\ owner' = [owner EXCEPT ![i] = a]

\* The row locks without a's.
Unlocked(a) == [i \in Ids |-> IF owner[i] = a THEN None ELSE owner[i]]

\* Run d goes on with the given fields changed.
Continue(d, next) == run' = [run EXCEPT ![d] = next]

OfLoan(l) == {i \in Ids : i[1] = l}
Overdue(l) == {i \in OfLoan(l) : status[i] = "overdue"}

\* The installment with the lowest number in a set from one loan.
First(S) == CHOOSE i \in S : \A j \in S : i[2] <= j[2]

\* A month ends, the cron not having fired where a pod was down.  Runs and
\* settlements take less than a month.
Tick ==
  /\ month < Months
  /\ \A d \in Pods : ~Running(d)
  /\ \A p \in Requests : ~Asking(p)
  /\ month' = month + 1
  /\ UNCHANGED <<committed, owner, jobLock, firedIn, run, request>>

-----------------------------------------------------------------------------
(* The job. *)

\* The job's lock, pg_try_advisory_lock.  The mutant has none.
JobLockIgnored == TRUE
JobLockFree == jobLock = None

\* findOverdueInstallments: the due installments up to this month's 20th.
DueIn(i) == DueMonth(Terms[i[1]].day, Start, February, i[2])
PastDue == {i \in Ids : status[i] = "due" /\ DueIn(i) <= month}

\* A pod's cron fires, the lock is free, and the list is read.
StartRun(d) ==
  /\ ~Running(d) /\ firedIn[d] < month
  /\ JobLockFree
  /\ firedIn' = [firedIn EXCEPT ![d] = month]
  /\ jobLock' = d
  /\ Continue(d, [NoRun EXCEPT !.at = "nextLoan", !.batch = PastDue])
  /\ UNCHANGED <<month, committed, owner, request>>

\* Another pod holds the lock: the pod skips this month.
SkipRun(d) ==
  /\ ~Running(d) /\ firedIn[d] < month
  /\ ~JobLockFree
  /\ firedIn' = [firedIn EXCEPT ![d] = month]
  /\ UNCHANGED <<month, committed, owner, jobLock, run, request>>

\* processLoanOverdueInstallments begins: its overdue installments are counted.
TakeLoan(d) ==
  /\ run[d].at = "nextLoan"
  /\ \E i \in run[d].batch :
       Continue(d, [run[d] EXCEPT !.at = "mark", !.loan = i[1],
                                  !.previous = Cardinality(Overdue(i[1]))])
  /\ UNCHANGED <<month, committed, owner, jobLock, firedIn, request>>

\* The loan's part of the list.
Batch(d) == run[d].batch \cap OfLoan(run[d].loan)

\* overdueInstallments[0].  The mutant takes the latest.
ToMarkLast(d) == CHOOSE i \in Batch(d) : \A j \in Batch(d) : j[2] <= i[2]
ToMark(d) == First(Batch(d))

\* Whether a penalty is called for.  The mutant fines the first lapse.
PenaltyDueAtOnce(d) == run[d].previous + 1 >= 1
PenaltyDue(d) == run[d].previous + 1 >= 2

\* Only the first installment of the list is marked, paid in the meantime or not.
MarkOverdue(d) ==
  /\ run[d].at = "mark"
  /\ Lock(d, ToMark(d))
  /\ Continue(d, [run[d] EXCEPT !.at = IF PenaltyDue(d) THEN "findOldest" ELSE "commit",
                                !.marked = ToMark(d)])
  /\ UNCHANGED <<month, committed, jobLock, firedIn, request>>

\* The overdue installments without a penalty, as the transaction sees them.
Unpenalized(d) == {i \in Overdue(run[d].loan) \cup {run[d].marked} : penalty[i] = 0}

FindOldest(d) ==
  /\ run[d].at = "findOldest"
  /\ Continue(d, IF Unpenalized(d) = {}
                   THEN [run[d] EXCEPT !.at = "commit"]
                   ELSE [run[d] EXCEPT !.at = "readPenalty", !.fined = First(Unpenalized(d))])
  /\ UNCHANGED <<month, committed, owner, jobLock, firedIn, request>>

\* addPenaltyToInstallment reads the penalty and then writes the increased one.
ReadPenalty(d) ==
  /\ run[d].at = "readPenalty"
  /\ Continue(d, [run[d] EXCEPT !.at = "fine", !.fine = penalty[run[d].fined] + 1])
  /\ UNCHANGED <<month, committed, owner, jobLock, firedIn, request>>

Fine(d) ==
  /\ run[d].at = "fine"
  /\ owner[run[d].fined] \in {None, d}
  /\ owner' = [owner EXCEPT ![run[d].fined] = d]
  /\ Continue(d, [run[d] EXCEPT !.at = "commit"])
  /\ UNCHANGED <<month, committed, jobLock, firedIn, request>>

\* The loan's transaction is committed, and the run turns to the next loan.
CommitLoan(d) ==
  /\ run[d].at = "commit"
  /\ status' = [status EXCEPT ![run[d].marked] = "overdue"]
  /\ lapsedIn' = [lapsedIn EXCEPT ![run[d].marked] = month]
  /\ penalty' = [i \in Ids |-> IF i = run[d].fined THEN run[d].fine ELSE penalty[i]]
  /\ owner' = Unlocked(d)
  /\ Continue(d, [NoRun EXCEPT !.at = "nextLoan",
                               !.batch = run[d].batch \ OfLoan(run[d].loan)])
  /\ UNCHANGED <<month, times, collected, repaid, crossed, jobLock, firedIn, request>>

\* The run is over; the lock is released whatever happened.
EndRun(d) ==
  /\ owner' = Unlocked(d)
  /\ jobLock' = None
  /\ Continue(d, NoRun)
  /\ UNCHANGED <<month, committed, firedIn, request>>

FinishRun(d) == run[d].at = "nextLoan" /\ run[d].batch = {} /\ EndRun(d)

\* An error in one loan's transaction, or the loss of the pod, ends the whole run.
AbortRun(d) == Running(d) /\ EndRun(d)

-----------------------------------------------------------------------------
(* settleInstallment. *)

Settle(p) ==
  /\ request[p].at = "idle"
  /\ \E i \in Ids : request' = [request EXCEPT ![p] = [at |-> "find", id |-> i]]
  /\ UNCHANGED <<month, committed, owner, jobLock, firedIn, run>>

\* The installment is not paid.  The mutant does not ask.
PayableAlways(i) == TRUE
Payable(i) == status[i] # "paid"

\* The row is locked, then its status is checked.
FindInstallment(p) ==
  /\ request[p].at = "find"
  /\ Payable(request[p].id)
  /\ Lock(p, request[p].id)
  /\ request' = [request EXCEPT ![p].at = "book"]
  /\ UNCHANGED <<month, committed, jobLock, firedIn, run>>

EndRequest(p) ==
  /\ owner' = Unlocked(p)
  /\ request' = [request EXCEPT ![p] = [at |-> "ended", id |-> None]]
  /\ UNCHANGED <<month, jobLock, firedIn, run>>

\* The penalty booked with installment i.  The mutant books the reverse.
PenaltyBookedReversed(i) == 0 - penalty[i]
PenaltyBooked(i) == penalty[i]

\* The principal of an installment.
Principal(i) == PrincipalPart(Terms[i[1]].principal, Terms[i[1]].tenor, i[2])

\* The ledger takes amounts above zero only (chk_cashbook_amounts_positive).
Bookable(i) == Principal(i) > 0

\* A run has read i as due, or as in want of a penalty, and acts on it later.
Concerns(d, i) == Running(d) /\ (i \in run[d].batch \/ i = run[d].fined)

\* The installment is paid and its principal, interest and penalty are booked.
CommitSettlement(p) ==
  /\ request[p].at = "book" /\ Bookable(request[p].id)
  /\ LET i == request[p].id IN
       /\ status' = [status EXCEPT ![i] = "paid"]
       /\ times' = [times EXCEPT ![i] = @ + 1]
       /\ collected' = [collected EXCEPT ![i] = @ + PenaltyBooked(i)]
       /\ repaid' = [repaid EXCEPT ![i[1]] = @ + Principal(i)]
       /\ crossed' = IF \E d \in Pods : Concerns(d, i) THEN crossed \cup {i} ELSE crossed
  /\ UNCHANGED <<penalty, lapsedIn>>
  /\ EndRequest(p)

\* The ledger refuses the principal, and nothing is paid.
RefuseBooking(p) ==
  /\ request[p].at = "book" /\ ~Bookable(request[p].id)
  /\ EndRequest(p) /\ UNCHANGED committed

\* "Installment already paid".  The mutant leaves the transaction open.
RefusePaidOpen(p) ==
  /\ request[p].at = "find"
  /\ ~Payable(request[p].id) /\ Lock(p, request[p].id)
  /\ UNCHANGED <<month, committed, jobLock, firedIn, run, request>>
RefusePaid(p) ==
  /\ request[p].at = "find"
  /\ ~Payable(request[p].id) /\ owner[request[p].id] = None
  /\ EndRequest(p) /\ UNCHANGED committed

\* The transaction is lost at any point.
AbortRequest(p) == Asking(p) /\ EndRequest(p) /\ UNCHANGED committed

-----------------------------------------------------------------------------
RunProgress(d) ==
  \/ TakeLoan(d) \/ MarkOverdue(d) \/ FindOldest(d) \/ ReadPenalty(d) \/ Fine(d)
  \/ CommitLoan(d) \/ FinishRun(d)

RequestProgress(p) ==
  FindInstallment(p) \/ CommitSettlement(p) \/ RefuseBooking(p) \/ RefusePaid(p)

Quiet ==
  /\ \A d \in Pods : ~Running(d)
  /\ \A p \in Requests : ~Asking(p)
  /\ UNCHANGED vars

Next ==
  \/ Tick \/ Quiet
  \/ \E d \in Pods : StartRun(d) \/ SkipRun(d) \/ RunProgress(d) \/ AbortRun(d)
  \/ \E p \in Requests : Settle(p) \/ RequestProgress(p) \/ AbortRequest(p)

Spec == Init /\ [][Next]_vars

\* The database and the pods go on with what they have begun.
Fairness ==
  /\ \A d \in Pods : WF_vars(RunProgress(d))
  /\ \A p \in Requests : WF_vars(RequestProgress(p))

FairSpec == Spec /\ Fairness

-----------------------------------------------------------------------------
(* Properties. *)

\* Every variable has its type.
TypeOK ==
  /\ month \in 0..Months
  /\ status \in [Ids -> {"due", "overdue", "paid"}]
  /\ penalty \in [Ids -> Nat]
  /\ times \in [Ids -> Nat]
  /\ collected \in [Ids -> Nat]
  /\ repaid \in [Loans -> Nat]
  /\ crossed \subseteq Ids
  /\ lapsedIn \in [Ids -> 0..Months]
  /\ owner \in [Ids -> Pods \cup Requests \cup {None}]
  /\ jobLock \in Pods \cup {None}
  /\ firedIn \in [Pods -> 0..Months]
  /\ run \in [Pods -> [at : {"idle", "nextLoan", "mark", "findOldest", "readPenalty",
                             "fine", "commit"},
                       batch : SUBSET Ids, loan : Loans \cup {None}, previous : Nat,
                       marked : Ids \cup {None}, fined : Ids \cup {None}, fine : Nat]]
  /\ request \in [Requests -> [at : {"idle", "find", "book", "ended"},
                               id : Ids \cup {None}]]

\* "Each installment penalized once" (loans.service.ts:133), and a loan has fewer
\* penalties than lapses: each falls on an installment that has lapsed, and one lapse
\* at least is without any, in whatever months runs were missed or cut short, and
\* although a run reads the penalty it increases without a lock and settlements come
\* in between (findOldestUnpenalizedOverdueInstallment, addPenaltyToInstallment).  The
\* code decides what is meant here: penalty-system.md has penalties accumulate on the
\* earliest overdue installment (135), or fall on the first of each month's batch (149).
FewerFinesThanLapses ==
  \A l \in Loans :
    LET Fined == {i \in OfLoan(l) : penalty[i] > 0}
        Lapsed == {i \in OfLoan(l) : lapsedIn[i] > 0}
    IN  /\ Fined # {} => Fined \subseteq Lapsed /\ Cardinality(Fined) < Cardinality(Lapsed)
        /\ \A i \in Fined : penalty[i] = 1

\* Installments lapse in the order of their numbers: none is marked overdue while
\* an earlier one of the loan is still due.
LapsesInOrder ==
  \A i, j \in Ids : i[1] = j[1] /\ i[2] < j[2] /\ lapsedIn[j] > 0 => status[i] # "due"

\* An installment is paid for once, as the check under the row lock is there to see to
\* (settleInstallment).
SettledOnce == \A i \in Ids : times[i] <= 1

\* Only a payment that crosses a run with the installment on its list, or chosen for a
\* penalty, can be undone or miss the penalty: any other is made once, with the penalty,
\* and stays (updateInstallmentStatus by an old list, addPenaltyToInstallment).
SettledOnceUnlessCrossed ==
  \A i \in Ids \ crossed :
    IF status[i] = "paid" THEN times[i] = 1 /\ collected[i] = penalty[i]
                          ELSE times[i] = 0 /\ collected[i] = 0

\* The principal that an installment, and all those of a loan, have still to bring.
Outstanding(i) == IF status[i] = "paid" THEN 0 ELSE Principal(i)
StillDue(l) ==
  LET upTo[n \in 0..Terms[l].tenor] ==
        IF n = 0 THEN 0 ELSE upTo[n - 1] + Outstanding(<<l, n>>)
  IN  upTo[Terms[l].tenor]

\* At every moment, what has been booked of a loan's principal and what its unpaid
\* installments still have to bring add up to it: the rounded parts and the remainder of
\* the last month leave nothing over and nothing out, and no settlement books without
\* paying or pays without booking, unless its payment crosses a run
\* (generateInstallments, settleInstallment).
PrincipalAccounted ==
  \A l \in Loans :
    OfLoan(l) \cap crossed = {} => repaid[l] + StillDue(l) = Terms[l].principal

Promise == INSTANCE Repayment

\* Every interleaving of runs and settlements behaves like the one-step operations of
\* Repayment: what goes wrong goes wrong with a payment that crosses a run.
ImplementsRepayment == Promise!RepaymentSpec

\* Every run and every settlement ends: again and again nothing is under way.
EverythingEnds == []<>(\A d \in Pods, p \in Requests : ~Running(d) /\ ~Asking(p))

=============================================================================
