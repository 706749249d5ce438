----------------------------- MODULE MCCashbook -----------------------------
(***************************************************************************)
(* Small instances of Cashbook.  The amounts are chosen so that an expense *)
(* can need both pots, exceed them, or become affordable by an income.     *)
(***************************************************************************)
EXTENDS Cashbook, TLC

MCAmounts == {1, 3}
MCOpening == SplitOf(1, 2)
MCOpeningExpense == SplitOf(1, 1)

\* Two pots alike, and an amount that can be drawn from them in equal parts.
EvenOpening == SplitOf(2, 2)
EvenAmounts == {2}

Everything == AllKinds
AmendOnly == {"amend"}
DeleteOnly == {"delete"}

Symmetry == Permutations(Requests)

=============================================================================
