------------------------------ MODULE Listing ------------------------------
(***************************************************************************)
(* Pages of a listing, as the repositories read them with ORDER BY, LIMIT  *)
(* and OFFSET, and the metadata that goes with a page                      *)
(* (BaseRepository.createPaginationMetadata).                              *)
(***************************************************************************)
EXTENDS Integers, FiniteSetsExt

CONSTANT Limit   \* the rows of a page

ASSUME ListingAssumption == Limit \in Nat \ {0}

\* Math.ceil(totalData / limit).
TotalPage(total) == (total + Limit - 1) \div Limit

\* Whether another page follows.  The mutants divide without rounding up, and go on at
\* the last page.
HasNextRoundedDown(page, total) == page < total \div Limit
HasNextToo(page, total) == page <= TotalPage(total)
HasNext(page, total) == page < TotalPage(total)

\* The rows before a page.  The mutant starts the later pages a row early.
OffsetShort(page) == (page - 1) * Limit - (IF page > 1 THEN 1 ELSE 0)
Offset(page) == (page - 1) * Limit

Least(a, b) == IF a <= b THEN a ELSE b

\* The first n rows by the sort key.  Rows with equal keys come in any order, and in
\* another one at the next query.
FirstRows(rows, key, n) ==
  {B \in kSubset(Least(n, Cardinality(rows)), rows) :
     \A x \in B, y \in rows \ B : key[x] <= key[y]}

\* What a page may hold.
Pages(rows, key, page) ==
  UNION {FirstRows(rows \ B, key, Limit) : B \in FirstRows(rows, key, Offset(page))}

=============================================================================
