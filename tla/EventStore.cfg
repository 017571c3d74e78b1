SPECIFICATION Spec
CONSTANTS
  JobIds = {j1, j2}
  Terms = {t1}
  Amounts = {1}
  Times = {1}
  Claims = {c1}
  ForeignTypes = {}
  NoJob = NoJob
  Illegal = Illegal
  Readers = {r1}
  MaxLog = 7
INVARIANTS
  TypeOK
  StoredLogsAreLegal
  ReleasedIsLogged
  SeenIsHistory
PROPERTIES
  ImplementsLifecycle
SYMMETRY JobSymmetry
CHECK_DEADLOCK FALSE
