SPECIFICATION FairSpec
CONSTANTS
  u1 = u1
  u2 = u2
  u3 = u3
  u4 = u4
  Users = {u1, u2, u3, u4}
  Months = 2
  Limit = 2
  Namings <- MCNamings
  Founders = {u1, u2, u3}
  Settled <- MCSettled
INVARIANTS TypeOK ExactIfUndisturbed NobodyPassedOver FooterAgrees
PROPERTY ReportEnds
