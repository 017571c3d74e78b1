SPECIFICATION Spec
CONSTANTS
  h1 = h1
  ActionHashes <- OneHash
  JobIds <- OneJob
  Terms = {t1}
  Amounts = {1}
  Times = {1}
  Claims = {c1}
  ForeignTypes = {}
  NoJob = NoJob
  Illegal = Illegal
  Outcomes = {1}
  Rulings = {1}
  ClaimStatuses = {1, 3, 4, 7}
  OtherNames = {}
  NoId = NoId
  NoEvent = NoEvent
  InOrder = FALSE
  MaxDeliveries = 2
  MayMissJobId = TRUE
  MayActEarly = FALSE
  MaxDraws = 1
  MaxLog = 9
INVARIANTS
  ReleasedWithinDeliveries
PROPERTIES
  ImplementsWitnessed
CHECK_DEADLOCK FALSE
