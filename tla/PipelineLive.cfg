SPECIFICATION FairSpec
CONSTANTS
  h1 = h1
  ActionHashes <- OneHash
  JobIds <- OneJob
  Terms = {t1}
  Amounts = {1}
  Times = {1}
  Claims = {c1, c2}
  ForeignTypes = {}
  NoJob = NoJob
  Illegal = Illegal
  Outcomes = {1}
  Rulings = {0, 1}
  ClaimStatuses = {1, 3, 4, 7}
  OtherNames = {}
  NoId = NoId
  NoEvent = NoEvent
  InOrder = TRUE
  MaxDeliveries = 1
  MayMissJobId = FALSE
  MayActEarly = TRUE
  MaxDraws = 1
  MaxLog = 8
PROPERTIES
  VerdictClosesJob
  ActionBecomesEvidence
CHECK_DEADLOCK FALSE
