SPECIFICATION Spec
CONSTANTS
  i1 = i1
  i2 = i2
  r1 = r1
  r2 = r2
  c1 = c1
  c2 = c2
  w1 = w1
  f1 = f1
  f2 = f2
  l1 = l1
  l2 = l2
  m1 = m1
  m2 = m2
  Invoice = {i1, i2}
  Receipt = {r1}
  Credit = {c1}
  WriteOff = {w1}
  Refund = {f1}
  Line = {}
  MatchKey = {}
  Transaction = {r1}
  LineAmount = {2}
  DocumentAmount = {2}
  MaxAmount = 2
  MaxApplications = 1
  MaxDocuments = 4
PROPERTIES
  EndedAdjustmentsStayEnded
CHECK_DEADLOCK FALSE
