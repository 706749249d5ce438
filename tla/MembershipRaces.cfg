SPECIFICATION FairResetSpec
CONSTANTS
  Requests = {r1, r2, r3}
  m1 = m1
  m2 = m2
  m3 = m3
  m4 = m4
  Members = {m1, m2, m3, m4}
  None = None
  OpeningStatus <- Stages
  OpeningDeposit <- Deposits
  OpeningTotal = 5
  Minimum = 2
  Outlay = 2
INVARIANTS TypeOK StagesAgree SpentLinksStayDead OneLinkWorks
PROPERTIES FairShare ImplementsRoster EverythingEnds
