SPECIFICATION Spec
CONSTANTS
  h1 = h1
  ActionHashes <- OneHash
  JobIds <- OneJob
  Terms = {t1}
  Amounts = {1}
  Times = {1}
  Claims = {c1}
  ForeignTypes = {}
  NoJob = NoJob
  Illegal = Illegal
  Outcomes = {0, 1, 2}
  Rulings = {0, 1, 2}
  ClaimStatuses = {1, 3, 4, 7}
  OtherNames = {"BondTopUp", "BondWithdrawn", "AgentFrozen", "CreditRepaid"}
  NoId = NoId
  NoEvent = NoEvent
INVARIANT SpecTableIsMapped
