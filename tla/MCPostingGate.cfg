SPECIFICATION Spec
CONSTANTS
  c1 = c1
  c2 = c2
  p1 = p1
  p2 = p2
  j1 = j1
  j2 = j2
  x1 = x1
  i1 = i1
  i2 = i2
  k1 = k1
  k2 = k2
  None = None
  Client = {c1, c2}
  Period = {p1}
  Day = {1, 2}
  Journal = {j1}
  Draft = {x1}
  Intent = {i1}
  CloseKey = {k1}
  MaxVersion = 2
  MaxBookVersion = 1
  MaxDraftVersion = 2
  Offered = {"define", "post", "closeCanonical", "setLock", "issue", "createDraft", "redateDraft", "voidDraft"}
SYMMETRY MCSymmetry
INVARIANTS
  LockTypeOK
  GrantHolds
  ReviewedFactsHold
PROPERTIES
  LedgerSpec
