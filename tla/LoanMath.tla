------------------------------ MODULE LoanMath ------------------------------
(***************************************************************************)
(* The arithmetic of a loan as pure operators: how its principal is cut    *)
(* into monthly parts (roundUpToNearest500Or1000, calculateLoanPayments),  *)
(* what its installments come to, and the months they fall due in          *)
(* (generateInstallments).                                                 *)
(***************************************************************************)
EXTENDS Integers

CONSTANT Step   \* 500 rupiah: amounts are whole numbers of any unit that divides it

ASSUME StepAssumption == Step \in Nat \ {0}

-----------------------------------------------------------------------------
(* Rounding.  The amount to round is a quotient, principal by tenor: here  *)
(* it is its numerator a over the denominator d, and so is the result.     *)

\* roundUpToNearest500Or1000, by the remainder of a division by 1000.
RoundUp(a, d) ==
  LET remainder == a % (2 * Step * d) IN
  CASE remainder \in {0, Step * d} -> a
    [] remainder \in 1..(Step * d - 1) -> a + (Step * d - remainder)
    [] OTHER -> a + (2 * Step * d - remainder)

-----------------------------------------------------------------------------
(* The parts of a principal over a tenor.  `interest` is that of a month.  *)

\* roundedMonthlyPrincipal.
MonthlyPrincipal(principal, tenor) == RoundUp(principal, tenor) \div tenor

\* lastMonthPrincipal, what the other months leave: it can be zero or negative.
LastPrincipal(principal, tenor) == principal - (tenor - 1) * MonthlyPrincipal(principal, tenor)

MonthlyPayment(principal, tenor, interest) == MonthlyPrincipal(principal, tenor) + interest

\* lastMonthPayment clamps the principal in it.
LastMonthPayment(principal, tenor, interest) ==
  (IF LastPrincipal(principal, tenor) > 0 THEN LastPrincipal(principal, tenor) ELSE 0) + interest

TotalPayable(principal, tenor, interest) == principal + interest * tenor

\* generateInstallments: the principal_amount of installment n.
PrincipalPart(principal, tenor, n) ==
  IF n = tenor THEN LastPrincipal(principal, tenor) ELSE MonthlyPrincipal(principal, tenor)

-----------------------------------------------------------------------------
(* Due dates: the 20th of each month, found by adding months to the day of *)
(* the disbursement.  Months of the year are numbered from 0.              *)

\* The days of a month, given those of February.
DaysIn(month, february) ==
  IF month = 1 THEN february ELSE IF month \in {3, 5, 8, 10} THEN 30 ELSE 31

\* dueDate.setMonth(getMonth() + n): a day that the month lacks is in the next one.
Overflows(day, start, february, n) == day > DaysIn((start + n) % 12, february)

\* The month in which installment n falls due, counted from that of the disbursement.
DueMonth(day, start, february, n) ==
  IF Overflows(day, start, february, n) THEN n + 1 ELSE n

=============================================================================
