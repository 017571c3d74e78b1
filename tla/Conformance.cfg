SPECIFICATION Spec
CONSTANTS
  VectorCount <- SmallCorpus
  MaxRuns = 2
INVARIANTS
  TypeOK
  ScoresEveryVector
  VerdictIsExact
  HttpAlwaysReports
PROPERTIES
  CertificateMatchesExit
  EveryTurnCounts
CHECK_DEADLOCK FALSE
