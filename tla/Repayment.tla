------------------------------ MODULE Repayment ------------------------------
(***************************************************************************)
(* What repayment promises, each operation in one step: an unpaid          *)
(* installment may lapse, a lapse may bring a penalty on a lapsed          *)
(* installment that has none, and an installment is paid once, with        *)
(* whatever penalty is on it.  A payment that crosses the job may be       *)
(* undone: then, and only then, the installment can lapse, be fined and be *)
(* paid again.                                                             *)
(***************************************************************************)
EXTENDS Integers

CONSTANT Ids   \* the installments

VARIABLES
  status,     \* "due", "overdue" or "paid"
  penalty,    \* the penalty on each installment, in units of one penalty
  times,      \* how often each installment was paid for
  collected,  \* the penalty received for each installment
  crossed     \* the installments of which a payment crossed the job

repaymentVars == <<status, penalty, times, collected, crossed>>

RepaymentInit ==
  /\ status = [i \in Ids |-> "due"]
  /\ penalty = [i \in Ids |-> 0]
  /\ times = [i \in Ids |-> 0]
  /\ collected = [i \in Ids |-> 0]
  /\ crossed = {}

\* Installment i lapses.  The penalty it may bring goes to i or to an installment
\* that lapsed before.
Lapse(i) ==
  /\ status[i] = "due" \/ i \in crossed
  /\ status' = [status EXCEPT ![i] = "overdue"]
  /\ \/ UNCHANGED penalty
     \/ \E j \in Ids :
          /\ status'[j] = "overdue" \/ j \in crossed
          /\ penalty[j] = 0
          /\ penalty' = [penalty EXCEPT ![j] = 1]
  /\ UNCHANGED <<times, collected, crossed>>

Pay(i) ==
  /\ status[i] # "paid"
  /\ status' = [status EXCEPT ![i] = "paid"]
  /\ times' = [times EXCEPT ![i] = @ + 1]
  /\ collected' = [collected EXCEPT ![i] = @ + penalty[i]]
  /\ crossed' \in {crossed, crossed \cup {i}}
  /\ UNCHANGED penalty

RepaymentNext == \E i \in Ids : Lapse(i) \/ Pay(i)

RepaymentSpec == RepaymentInit /\ [][RepaymentNext]_repaymentVars

=============================================================================
