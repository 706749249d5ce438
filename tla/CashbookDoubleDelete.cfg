SPECIFICATION Spec
CONSTANTS
  Requests = {r1, r2}
  Existing = {e1}
  None = None
  Amounts <- MCAmounts
  OpeningBalance <- MCOpening
  OpeningExpense <- MCOpeningExpense
  Overlapping <- DeleteOnly
INVARIANT BalanceMatchesLedger
