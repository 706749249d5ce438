----------------------------- MODULE LoanOffice -----------------------------
(***************************************************************************)
(* What lending promises, each operation in one step: a pending loan is    *)
(* decided once, an approved loan is paid out once and from money that is  *)
(* there, and every installment of it comes back once.                     *)
(***************************************************************************)
EXTENDS Integers, FiniteSets

CONSTANTS
  LoanIds,         \* every loan there may ever be
  Existing,        \* the loans on record at the start, pending or
  Approved,        \* approved
  MemberOf,        \* whose each loan is
  MaxLoans,        \* how many loans a member may have been granted
  Tenor,           \* installments of a loan
  Disbursed,       \* what a loan pays out
  Installment,     \* the principal in one installment
  OpeningCapital   \* the capital at the start

VARIABLES
  status,   \* the status of each loan, "none" before it is applied for
  unpaid,   \* the number of installments outstanding, 0 before any exist
  capital   \* the members' capital

officeVars == <<status, unpaid, capital>>

OfficeInit ==
  /\ status = [l \in LoanIds |-> IF l \in Approved THEN "approved"
                                ELSE IF l \in Existing THEN "pending" ELSE "none"]
  /\ unpaid = [l \in LoanIds |-> 0]
  /\ capital = OpeningCapital

Becomes(l, from, to) == status[l] = from /\ status' = [status EXCEPT ![l] = to]

\* The loans member m has been granted, repaid or not.
GrantedTo(m) == {l \in LoanIds : MemberOf[l] = m /\ status[l] \in {"approved", "active"}}

Apply(l) == Becomes(l, "none", "pending") /\ UNCHANGED <<unpaid, capital>>

Approve(l) ==
  /\ Becomes(l, "pending", "approved")
  /\ Cardinality(GrantedTo(MemberOf[l])) < MaxLoans
  /\ UNCHANGED <<unpaid, capital>>

Reject(l) == Becomes(l, "pending", "rejected") /\ UNCHANGED <<unpaid, capital>>

Disburse(l) ==
  /\ Becomes(l, "approved", "active")
  /\ unpaid' = [unpaid EXCEPT ![l] = Tenor]
  /\ capital >= Disbursed
  /\ capital' = capital - Disbursed

Repay(l) ==
  /\ unpaid[l] > 0
  /\ unpaid' = [unpaid EXCEPT ![l] = @ - 1]
  /\ capital' = capital + Installment
  /\ UNCHANGED status

OfficeNext == \E l \in LoanIds : Apply(l) \/ Approve(l) \/ Reject(l) \/ Disburse(l) \/ Repay(l)

OfficeSpec == OfficeInit /\ [][OfficeNext]_officeVars

=============================================================================
