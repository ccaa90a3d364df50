SPECIFICATION Spec
CONSTANTS
  n1 = n1
  m1 = m1
  None = None
  Posting = {n1, m1}
  Imported = {m1}
  LastDay = 4
  Window <- MCWindow
  Report <- MCBalanceSheet
  RollupPeriod <- MCRollupPeriod
  OverlapDays = 1
  MaxChanges = 3
INVARIANTS
  TypeOK
  
  
CHECK_DEADLOCK FALSE
