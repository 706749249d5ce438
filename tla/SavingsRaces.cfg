SPECIFICATION FairSpec
CONSTANTS
  Requests = {r1, r2, r3}
  Members = {u1, u2}
  None = None
  YearLength = 2
  Months = 3
INVARIANTS TypeOK PaidIsBooked NoGaps
PROPERTIES ImplementsDues EveryRequestEnds
