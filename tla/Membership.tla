----------------------------- MODULE Membership -----------------------------
(***************************************************************************)
(* From the registration to the membership: AuthService.register, login    *)
(* and resendOtp (both issue a code), verifyOtp, UsersService.approveUser  *)
(* and rejectUser with UsersSavingsService behind them.  Requests are      *)
(* PostgreSQL transactions at READ COMMITTED, as in Cashbook.  Everybody   *)
(* who posts to the cashbook locks the row of the total, and it is the one *)
(* lock on the balances here.                                              *)
(***************************************************************************)
EXTENDS Integers, FiniteSets

CONSTANTS
  Requests,        \* the requests, each running one operation once
  Members,         \* everybody who may register, each under one e-mail address
  None,            \* no request
  OpeningStatus,   \* users.status of each at the start, "none" without an account
  OpeningDeposit,  \* principal_savings.amount of each at the start
  OpeningTotal,    \* the total balance at the start
  Minimum,         \* PRINCIPAL_SAVINGS_MIN_AMOUNT
  Outlay           \* what any other business takes from the balances

Kinds == {"register", "issue", "verify", "approve", "reject"}

\* The lockable rows.
Rows == Members \cup {"total"}

ASSUME MembershipAssumption ==
  /\ IsFiniteSet(Members) /\ Members # {} /\ "total" \notin Members /\ None \notin Requests
  /\ OpeningStatus \in [Members -> {"none", "pending", "waiting_deposit", "active"}]
  /\ OpeningDeposit \in [Members -> Nat]
  /\ OpeningTotal \in Nat /\ Minimum \in Nat /\ Outlay \in Nat \ {0}

VARIABLES
  status,   \* users.status as committed
  code,     \* whether users.otp_code holds a code
  deposit,  \* principal_savings.status: none, due (the code says pending) or paid
  amount,   \* principal_savings.amount
  total,    \* the total balance
  owner,    \* who holds each row's lock, or None
  pc,       \* the statement each request is about to run
  job       \* what each request was asked to do, for whom, and what it computed

committed == <<status, code, deposit, amount, total>>
vars == <<committed, owner, pc, job>>

Idle == [kind |-> "register", member |-> CHOOSE u \in Members : TRUE, share |-> 0]

Init ==
  /\ status = OpeningStatus
  /\ code = [u \in Members |-> OpeningStatus[u] = "pending"]
  /\ deposit = [u \in Members |-> CASE OpeningStatus[u] = "active"          -> "paid"
                                   [] OpeningStatus[u] = "waiting_deposit" -> "due"
                                   [] OTHER                                -> "none"]
  /\ amount = OpeningDeposit
  /\ total = OpeningTotal
  /\ owner = [r \in Rows |-> None]
  /\ pc = [p \in Requests |-> "idle"]
  /\ job = [p \in Requests |-> Idle]

-----------------------------------------------------------------------------
InTransaction(p) == pc[p] \notin {"idle", "committed", "rolledBack"}

Target(p) == job[p].member

Goto(p, next) == pc' = [pc EXCEPT ![p] = next]

\* p obtains the lock of row r.
Lock(p, r) == owner[r] = None /\ owner' = [owner EXCEPT ![r] = p]

\* A handler reads the user's status, without a lock, and goes on only with one of
\* `expected`.
Begin(p, kind, expected, first) ==
  /\ pc[p] = "idle"
  /\ \E u \in Members :
       /\ status[u] \in expected
       /\ job' = [job EXCEPT ![p] = [kind |-> kind, member |-> u, share |-> 0]]
  /\ Goto(p, first)
  /\ UNCHANGED <<committed, owner>>

-----------------------------------------------------------------------------
(* Registration, and the codes that go out by e-mail: single statements. *)

Register(p) == Begin(p, "register", {"none"}, "insertUser")

\* unique(email): an account that exists by now is left alone.
NewAccount(u) == status[u] = "none"

InsertUser(p) ==
  /\ pc[p] = "insertUser" /\ NewAccount(Target(p))
  /\ status' = [status EXCEPT ![Target(p)] = "pending"]
  /\ code' = [code EXCEPT ![Target(p)] = TRUE]
  /\ Goto(p, "committed")
  /\ UNCHANGED <<deposit, amount, total, owner, job>>

\* login of a pending user, resendOtp.
Issue(p) == Begin(p, "issue", {"pending"}, "updateCode")

\* The update waits for a transaction that has locked the row, and does not look at
\* the status again.
UpdateCode(p) ==
  /\ pc[p] = "updateCode" /\ owner[Target(p)] = None
  /\ code' = [code EXCEPT ![Target(p)] = TRUE]
  /\ Goto(p, "committed")
  /\ UNCHANGED <<status, deposit, amount, total, owner, job>>

-----------------------------------------------------------------------------
(* verifyOtp, once the code has been found to be right. *)

Verify(p) ==
  /\ Begin(p, "verify", {"pending"}, "updateUser")
  /\ code[job'[p].member]

\* approveUser and rejectUser begin in the same way.
Approve(p) == Begin(p, "approve", {"waiting_deposit"}, "updateUser")

Reject(p) == Begin(p, "reject", {"waiting_deposit"}, "updateUser")

\* The mutant takes over the word that loans use.
StatusAfterAsLoans(p) == CASE job[p].kind = "verify"  -> "waiting_deposit"
                           [] job[p].kind = "approve" -> "approved"
                           [] job[p].kind = "reject"  -> "rejected"
StatusAfter(p) == CASE job[p].kind = "verify"  -> "waiting_deposit"
                    [] job[p].kind = "approve" -> "active"
                    [] job[p].kind = "reject"  -> "rejected"

NextStatement(p) == CASE job[p].kind = "verify"  -> "readTotal"
                      [] job[p].kind = "approve" -> "readDeposit"
                      [] job[p].kind = "reject"  -> "commit"

\* The new status, whatever the old one is by now; it locks the row.  The mutant
\* leaves out the transaction, an optional parameter of updateUser and updateStatus.
UpdateUserOutside(p) ==
  /\ pc[p] = "updateUser" /\ owner[Target(p)] = None
  /\ status' = [status EXCEPT ![Target(p)] = StatusAfter(p)]
  /\ Goto(p, NextStatement(p))
  /\ UNCHANGED <<code, deposit, amount, total, owner, job>>
UpdateUser(p) ==
  /\ pc[p] = "updateUser" /\ Lock(p, Target(p))
  /\ Goto(p, NextStatement(p))
  /\ UNCHANGED <<committed, job>>

\* Who counts as an active member for p: its own user does not while p has set
\* another status.
ActiveFor(p) == {u \in Members \ {Target(p)} : status[u] = "active"}

\* calculatePrincipalSavingsAmount.
Share(money, members) == IF members = 0 THEN Minimum ELSE money \div members

\* getBalanceByType in the transaction: FOR UPDATE.  The mutant reads outside it.
ReadTotalUnlocked(p) ==
  /\ pc[p] = "readTotal"
  /\ job' = [job EXCEPT ![p].share = total]
  /\ Goto(p, "countMembers")
  /\ UNCHANGED <<committed, owner>>
ReadTotal(p) ==
  /\ pc[p] = "readTotal" /\ Lock(p, "total")
  /\ job' = [job EXCEPT ![p].share = total]
  /\ Goto(p, "countMembers")
  /\ UNCHANGED committed

CountMembers(p) ==
  /\ pc[p] = "countMembers"
  /\ job' = [job EXCEPT ![p].share = Share(@, Cardinality(ActiveFor(p)))]
  /\ Goto(p, "insertDeposit")
  /\ UNCHANGED <<committed, owner>>

\* uq_principal_savings_user_id.
DepositNew(u) == deposit[u] = "none"

InsertDeposit(p) ==
  /\ pc[p] = "insertDeposit" /\ DepositNew(Target(p))
  /\ Goto(p, "commit")
  /\ UNCHANGED <<committed, owner, job>>

-----------------------------------------------------------------------------
(* settlePrincipalSavings, under the lock of the user's row. *)

\* The deposit exists and has not been paid.  The mutant does not ask for the latter.
Known(u) == deposit[u] # "none"
Unpaid(u) == deposit[u] = "due"

ReadDeposit(p) ==
  /\ pc[p] = "readDeposit" /\ Unpaid(Target(p))
  /\ Goto(p, "book")
  /\ UNCHANGED <<committed, owner, job>>

\* The ledger takes amounts above zero only (chk_cashbook_amounts_positive).
Bookable(u) == amount[u] > 0

\* createPrincipalSavingsIncome and createIncomeTransaction.
Book(p) ==
  /\ pc[p] = "book" /\ Lock(p, "total") /\ Bookable(Target(p))
  /\ Goto(p, "commit")
  /\ UNCHANGED <<committed, job>>

-----------------------------------------------------------------------------
(* The ends. *)

\* The locks without p's.
Unlocked(p) == [r \in Rows |-> IF owner[r] = p THEN None ELSE owner[r]]

Finish(p, outcome) ==
  /\ Goto(p, outcome)
  /\ owner' = Unlocked(p)
  /\ job' = [job EXCEPT ![p] = Idle]

CommitVerification(p) ==
  /\ pc[p] = "commit" /\ job[p].kind = "verify"
  /\ status' = [status EXCEPT ![Target(p)] = StatusAfter(p)]
  /\ code' = [code EXCEPT ![Target(p)] = FALSE]
  /\ deposit' = [deposit EXCEPT ![Target(p)] = "due"]
  /\ amount' = [amount EXCEPT ![Target(p)] = job[p].share]
  /\ UNCHANGED total
  /\ Finish(p, "committed")

CommitApproval(p) ==
  /\ pc[p] = "commit" /\ job[p].kind = "approve"
  /\ status' = [status EXCEPT ![Target(p)] = StatusAfter(p)]
  /\ deposit' = [deposit EXCEPT ![Target(p)] = "paid"]
  /\ total' = total + amount[Target(p)]
  /\ UNCHANGED <<code, amount>>
  /\ Finish(p, "committed")

CommitRejection(p) ==
  /\ pc[p] = "commit" /\ job[p].kind = "reject"
  /\ status' = [status EXCEPT ![Target(p)] = StatusAfter(p)]
  /\ UNCHANGED <<code, deposit, amount, total>>
  /\ Finish(p, "committed")

\* A statement that must raise: an account or a deposit that exists, a deposit that
\* was paid, an amount of zero.  The mutant leaves the transaction open at a deposit
\* that was paid.
DoomedUnlessPaid(p) ==
  \/ pc[p] = "insertUser" /\ ~NewAccount(Target(p))
  \/ pc[p] = "insertDeposit" /\ ~DepositNew(Target(p))
  \/ pc[p] = "book" /\ owner["total"] = None /\ ~Bookable(Target(p))
Doomed(p) ==
  \/ pc[p] = "insertUser" /\ ~NewAccount(Target(p))
  \/ pc[p] = "insertDeposit" /\ ~DepositNew(Target(p))
  \/ pc[p] = "readDeposit" /\ ~Unpaid(Target(p))
  \/ pc[p] = "book" /\ owner["total"] = None /\ ~Bookable(Target(p))

Fail(p) == Doomed(p) /\ Finish(p, "rolledBack") /\ UNCHANGED committed

\* The transaction is lost at any point.
Crash(p) == InTransaction(p) /\ Finish(p, "rolledBack") /\ UNCHANGED committed

\* Whatever else takes money out of the cashbook.
Spend ==
  /\ owner["total"] = None /\ total >= Outlay
  /\ total' = total - Outlay
  /\ UNCHANGED <<status, code, deposit, amount, owner, pc, job>>

Progress(p) ==
  \/ InsertUser(p) \/ UpdateCode(p) \/ UpdateUser(p) \/ ReadTotal(p) \/ CountMembers(p)
  \/ InsertDeposit(p) \/ ReadDeposit(p) \/ Book(p)
  \/ CommitVerification(p) \/ CommitApproval(p) \/ CommitRejection(p) \/ Fail(p)

Step(p) ==
  \/ Register(p) \/ Issue(p) \/ Verify(p) \/ Approve(p) \/ Reject(p)
  \/ Progress(p) \/ Crash(p)

\* Every request has ended, or none was ever made.
Quiet == (\A p \in Requests : ~InTransaction(p)) /\ UNCHANGED vars

Next == Quiet \/ Spend \/ \E p \in Requests : Step(p)

Spec == Init /\ [][Next]_vars

\* The database goes on with a transaction whose statement can run.
Fairness == \A p \in Requests : WF_vars(Progress(p))

FairSpec == Spec /\ Fairness

-----------------------------------------------------------------------------
(* Properties. *)

\* Every variable has its type.
TypeOK ==
  /\ status \in [Members -> {"none", "pending", "waiting_deposit", "active", "rejected"}]
  /\ code \in [Members -> BOOLEAN]
  /\ deposit \in [Members -> {"none", "due", "paid"}]
  /\ amount \in [Members -> Nat]
  /\ total \in Nat
  /\ owner \in [Rows -> Requests \cup {None}]
  /\ pc \in [Requests -> {"idle", "insertUser", "updateCode", "updateUser", "readTotal",
                          "countMembers", "insertDeposit", "readDeposit", "book", "commit",
                          "committed", "rolledBack"}]
  /\ job \in [Requests -> [kind : Kinds, member : Members, share : Nat]]

\* The account and the deposit agree, although no handler looks at the status again
\* once it has the lock: there is a deposit exactly from the verification on, whoever
\* is active has paid, whoever has paid is active or was rejected at that moment, and
\* whoever has still to verify has a code (verifyOtp, settlePrincipalSavings).
StagesAgree ==
  \A u \in Members :
    /\ deposit[u] = "none" <=> status[u] \in {"none", "pending"}
    /\ status[u] = "active" => deposit[u] = "paid"
    /\ deposit[u] = "paid" => status[u] \in {"active", "rejected"}
    /\ status[u] = "pending" => code[u]

Active == {u \in Members : status[u] = "active"}
Paid == {u \in Members : deposit[u] = "paid"}

\* A new deposit is the share of a member at the moment it is committed: the total and
\* the count are read one after the other, and the lock on the total keeps approvals
\* and payments out between them (calculatePrincipalSavingsAmount).  Only a rejection
\* that overturns an approval may change the count: then the share lies between that
\* of those who have paid and that of those who are active.
FairShare ==
  [][\A u \in Members :
       deposit[u] = "none" /\ deposit'[u] = "due" =>
         /\ Active # {} => amount'[u] <= Share(total, Cardinality(Active))
         /\ Paid = {} => amount'[u] = Minimum
         /\ \/ amount'[u] >= Share(total, Cardinality(Paid))
            \/ Active = {} /\ amount'[u] = Minimum]_vars

Promise == INSTANCE Roster

\* The requests, interleaved statement by statement, behave like the one-step
\* operations of Roster: nobody falls back to an earlier stage, a deposit is demanded
\* once and booked once, with the change of status that it pays for.
ImplementsRoster == Promise!RosterSpec

=============================================================================
