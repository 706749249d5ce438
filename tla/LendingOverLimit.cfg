SPECIFICATION Spec
CONSTANTS
  Requests = {r1, r2}
  Existing = {e1}
  Approved = {}
  None = None
  MemberOf <- OneMember
  PeriodOf <- OnePeriod
  MaxLoans = 2
  Tenor = 1
  Disbursed = 2
  Installment = 2
  OpeningCapital = 5
SYMMETRY Symmetry
INVARIANT OpenWithinLimit
