-------------------------------- MODULE Dues --------------------------------
(***************************************************************************)
(* What the mandatory savings promise: they are charged to a set of        *)
(* members for the rest of a year at once, nothing is charged twice, and   *)
(* what has been paid stays paid.                                          *)
(***************************************************************************)
EXTENDS Integers

CONSTANTS
  Members,    \* who can be charged
  Periods,    \* the months, counted from the first
  YearLength  \* months in a year

VARIABLE record  \* per member and month: "none", "due" or "paid"

Year(t) == t \div YearLength

\* With a month, all later ones of its year.
UpToDecember(months) ==
  \A s \in months, t \in Periods : s <= t /\ Year(s) = Year(t) => t \in months

DuesInit == record = [k \in Members \X Periods |-> "none"]

Charge(who, months) ==
  /\ UpToDecember(months)
  /\ record' = [k \in Members \X Periods |->
                  IF k \in who \X months /\ record[k] = "none" THEN "due" ELSE record[k]]

Collect(k) == record[k] # "none" /\ record' = [record EXCEPT ![k] = "paid"]

DuesNext ==
  \/ \E who \in SUBSET Members, months \in SUBSET Periods : Charge(who, months)
  \/ \E k \in Members \X Periods : Collect(k)

DuesSpec == DuesInit /\ [][DuesNext]_record

=============================================================================
