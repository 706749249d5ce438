--------------------------- MODULE MCInstallments ---------------------------
(***************************************************************************)
(* Small instances of Installments, and of LoanMath.                       *)
(***************************************************************************)
EXTENDS Installments, TLC

CONSTANTS l1, l2

\* l1 falls due in February and March, half of its principal being rounded up and the
\* rest left for its last month.  l2 falls due in March twice, the 30th of February
\* being in March, and nothing is left for its last month.
TwoLoans == l1 :> [principal |-> 3, tenor |-> 2, day |-> 15]
         @@ l2 :> [principal |-> 2, tenor |-> 2, day |-> 30]

OneLoan == l1 :> [principal |-> 13, tenor |-> 1, day |-> 15]

\* Pods and requests are interchangeable; the loans are not.
Symmetry == Permutations(Pods) \cup Permutations(Requests)

\* The next multiple of the step, to compare RoundUp with.
NextMultiple(a, s) == CHOOSE m \in a..(a + s) : m % s = 0 /\ \A k \in a..(m - 1) : k % s # 0

ASSUME RoundingIsNextMultiple ==
  \A a \in 0..50 : \A d \in 1..5 : RoundUp(a, d) = NextMultiple(a, Step * d)

=============================================================================
