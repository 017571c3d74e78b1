SPECIFICATION Spec
CONSTANTS
  j1 = j1
  ghost = ghost
  large = large
  small = small
  c1 = c1
  JobIds <- TwoJobs
  Terms <- TwoTerms
  Amounts = {0, 1, 2}
  Times = {1}
  Claims <- OneClaim
  ForeignTypes = {}
  NoJob = NoJob
  Illegal = Illegal
  MaxLog = 8
INVARIANTS
  TypeOK
  ReplaysAgree
  AcceptsExactlyLegalLogs
  CorpusReplaysAsExpected
CHECK_DEADLOCK FALSE
