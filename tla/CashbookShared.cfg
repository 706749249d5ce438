SPECIFICATION Spec
CONSTANTS
  Requests = {r1, r2, r3}
  Existing = {e1}
  None = None
  Amounts <- MCAmounts
  OpeningBalance <- MCOpening
  OpeningExpense <- MCOpeningExpense
  Overlapping <- AmendOnly
SYMMETRY Symmetry
INVARIANTS BalanceMatchesLedger LedgerMatchesExpenses
PROPERTIES CapitalFirst ImplementsBook
