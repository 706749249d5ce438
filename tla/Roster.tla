------------------------------- MODULE Roster -------------------------------
(***************************************************************************)
(* What membership promises, each operation in one step: a person          *)
(* registers once, owes one deposit from the verification on, and is a     *)
(* member exactly from its payment.  A decision can be overturned by one   *)
(* taken at the same moment, but the deposit is booked once.               *)
(***************************************************************************)
EXTENDS Integers

CONSTANTS
  Members,         \* everybody who may register
  OpeningStatus,   \* how far each has come at the start
  OpeningDeposit,  \* the deposit each owes or has paid by then
  OpeningTotal     \* the cooperative's money at the start

VARIABLES
  status,   \* "none" before the registration
  deposit,  \* "none", "due" or "paid"
  amount,   \* of the deposit
  total     \* the cooperative's money

rosterVars == <<status, deposit, amount, total>>

RosterInit ==
  /\ status = OpeningStatus
  /\ deposit = [u \in Members |->
                  IF OpeningStatus[u] = "active" THEN "paid"
                  ELSE IF OpeningStatus[u] = "waiting_deposit" THEN "due" ELSE "none"]
  /\ amount = OpeningDeposit
  /\ total = OpeningTotal

Becomes(u, s) == status' = [status EXCEPT ![u] = s]

Register(u) ==
  /\ status[u] = "none" /\ Becomes(u, "pending")
  /\ UNCHANGED <<deposit, amount, total>>

Verify(u) ==
  /\ status[u] = "pending" /\ Becomes(u, "waiting_deposit")
  /\ deposit' = [deposit EXCEPT ![u] = "due"]
  /\ amount'[u] \in Nat /\ amount' = [amount EXCEPT ![u] = amount'[u]]
  /\ UNCHANGED total

Admit(u) ==
  /\ status[u] \in {"waiting_deposit", "rejected"} /\ Becomes(u, "active")
  /\ deposit[u] = "due" /\ deposit' = [deposit EXCEPT ![u] = "paid"]
  /\ amount[u] > 0 /\ total' = total + amount[u]
  /\ UNCHANGED amount

Reject(u) ==
  /\ status[u] \in {"waiting_deposit", "active", "rejected"} /\ Becomes(u, "rejected")
  /\ UNCHANGED <<deposit, amount, total>>

Spend == total' \in 0..(total - 1) /\ UNCHANGED <<status, deposit, amount>>

RosterNext ==
  Spend \/ \E u \in Members : Register(u) \/ Verify(u) \/ Admit(u) \/ Reject(u)

RosterSpec == RosterInit /\ [][RosterNext]_rosterVars

=============================================================================
