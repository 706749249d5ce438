SPECIFICATION Spec
CONSTANTS
  Step = 2
  l1 = l1
  l2 = l2
  Loans = {l1}
  Terms <- OneLoan
  Start = 0
  February = 28
  Months = 1
  Pods = {d1}
  Requests = {p1, p2}
  None = None
SYMMETRY Symmetry
INVARIANT SettledOnce
