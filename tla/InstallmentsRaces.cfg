SPECIFICATION FairSpec
CONSTANTS
  Step = 2
  l1 = l1
  l2 = l2
  Loans = {l1, l2}
  Terms <- TwoLoans
  Start = 0
  February = 28
  Months = 2
  Pods = {d1, d2}
  Requests = {p1, p2}
  None = None
INVARIANTS TypeOK FewerFinesThanLapses LapsesInOrder SettledOnceUnlessCrossed PrincipalAccounted
PROPERTIES ImplementsRepayment EverythingEnds
