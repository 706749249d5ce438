SPECIFICATION FairSpec
CONSTANTS
  Requests = {r1, r2, r3}
  Existing = {e1, e2, e3, e4}
  Approved = {e1, e4}
  None = None
  MemberOf <- TwoMembers
  PeriodOf <- TwoPeriods
  MaxLoans = 2
  Tenor = 2
  Disbursed = 2
  Installment = 1
  OpeningCapital = 3
INVARIANTS TypeOK GrantedWithinLimit DisbursedOnce
PROPERTIES ImplementsLoanOffice EveryRequestEnds
