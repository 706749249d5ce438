----------------------------- MODULE Allocation -----------------------------
(***************************************************************************)
(* How an expense is divided between the two pots of the cooperative, the  *)
(* operating surplus ("shu") and the members' capital ("capital").  Pure   *)
(* operators, translated from ExpensesService.allocateAmounts.             *)
(***************************************************************************)
EXTENDS Integers

Pots == {"shu", "capital"}

\* The four values an expense's source may have.
Sources == {"auto", "total", "capital", "shu"}

\* An amount of money in each pot.  Amounts are whole rupiah here; the columns
\* are decimal(12,4), and no operation divides them.
Split == [Pots -> Nat]

SplitOf(shu, capital) == [t \in Pots |-> IF t = "shu" THEN shu ELSE capital]

Nothing == SplitOf(0, 0)

SumOf(s) == s["shu"] + s["capital"]

\* The three rows of cashbook_balances, and what an amount in each pot comes to
\* in each of them.
Books == {"shu", "capital", "total"}

Entries(s) == [b \in Books |-> IF b = "total" THEN SumOf(s) ELSE s[b]]

\* Sum and difference, pot by pot or balance by balance.
Plus(x, y) == [i \in DOMAIN x |-> x[i] + y[i]]
Minus(x, y) == [i \in DOMAIN x |-> x[i] - y[i]]

\* The funds the source may draw on.
FundsOf(source, available) ==
  IF source \in Pots THEN available[source] ELSE SumOf(available)

\* The negation is InsufficientFundsError.
Affordable(source, amount, available) == FundsOf(source, available) >= amount

\* A mutant of AllocateAmounts: capital is never compared with the amount.
AllocateUncompared(source, amount, available) ==
  CASE source = "shu"     -> SplitOf(amount, 0)
    [] source = "capital" -> SplitOf(0, amount)
    [] OTHER              -> SplitOf(amount - available["capital"], available["capital"])

\* The division.  "auto" and "total" are two branches of the code that do the
\* same: take capital first, and the operating surplus only for the rest.
AllocateAmounts(source, amount, available) ==
  IF source = "shu"
    THEN SplitOf(amount, 0)
    ELSE IF source = "capital" \/ available["capital"] >= amount
           THEN SplitOf(0, amount)
           ELSE SplitOf(amount - available["capital"], available["capital"])

=============================================================================
