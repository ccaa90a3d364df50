SPECIFICATION Spec
CONSTANTS
  n1 = n1
  m1 = m1
  None = None
  Posting = {n1}
  Imported = {}
  LastDay = 4
  Window <- MCWindow
  Report <- MCReports
  RollupPeriod <- MCRollupPeriod
  OverlapDays = 1
  MaxChanges = 1
INVARIANTS
  NativePostingsShow
CHECK_DEADLOCK FALSE
