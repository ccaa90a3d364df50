SPECIFICATION LedgerSpec
CONSTANTS
  p1 = p1
  p2 = p2
  j1 = j1
  j2 = j2
  x1 = x1
  i1 = i1
  k1 = k1
  k2 = k2
  None = None
  Period = {p1, p2}
  Day = {1, 2}
  Journal = {j1, j2}
  Draft = {x1}
  Intent = {i1}
  CloseKey = {k1, k2}
  MaxVersion = 5
  MaxBookVersion = 4
  MaxDraftVersion = 2
SYMMETRY MCSymmetry
INVARIANTS
  TypeOK
  EventChain
  CertifiedPeriodFrozen
  PeriodsDisjoint
PROPERTIES
  ClosedPeriodsStable
  LifecycleKeepsClosedLocked
CHECK_DEADLOCK FALSE
