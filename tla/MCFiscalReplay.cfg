SPECIFICATION Spec
CONSTANTS
  c1 = c1
  c2 = c2
  p1 = p1
  p2 = p2
  j1 = j1
  j2 = j2
  x1 = x1
  i1 = i1
  i2 = i2
  k1 = k1
  k2 = k2
  None = None
  Client = {c1, c2}
  Period = {p1}
  Day = {1}
  Journal = {}
  Draft = {}
  Intent = {i1, i2}
  CloseKey = {k1, k2}
  MaxVersion = 5
  MaxBookVersion = 4
  MaxDraftVersion = 1
  Offered = {"define", "beginClose", "close", "closeCanonical", "reopen"}
SYMMETRY MCSymmetry
INVARIANTS
  ReplayIsTruthful
  RetryIsAnswered
