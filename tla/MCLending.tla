------------------------------ MODULE MCLending ------------------------------
(***************************************************************************)
(* Small instances of Lending.  The capital pays out two loans, not three. *)
(***************************************************************************)
EXTENDS Lending, TLC

\* Every request competes with every other.
OneMember == [l \in LoanIds |-> "member"]
OnePeriod == [l \in LoanIds |-> "period"]

\* One loan on record is another member's, and of another period.
Stranger == CHOOSE l \in Approved : TRUE
TwoMembers == [l \in LoanIds |-> IF l = Stranger THEN "stranger" ELSE "member"]
TwoPeriods == [l \in LoanIds |-> IF l = Stranger THEN "long" ELSE "short"]

Symmetry == Permutations(Requests)

=============================================================================
