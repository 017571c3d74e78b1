SPECIFICATION UntypedSpec
CONSTANTS
  JobIds = {j1, j2}
  Terms = {t1}
  Amounts = {1}
  Times = {1}
  Claims = {c1}
  ForeignTypes = {"JobFrozen"}
  NoJob = NoJob
  Illegal = Illegal
  Readers = {}
  MaxLog = 7
INVARIANT StoredLogsReplay
CHECK_DEADLOCK FALSE
