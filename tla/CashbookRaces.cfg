SPECIFICATION FairSpec
CONSTANTS
  Requests = {r1, r2}
  Existing = {e1}
  None = None
  Amounts <- MCAmounts
  OpeningBalance <- MCOpening
  OpeningExpense <- MCOpeningExpense
  Overlapping <- Everything
INVARIANTS TypeOK TotalIsSum NonNegative
PROPERTIES SnapshotsAreTrue EveryRequestEnds
