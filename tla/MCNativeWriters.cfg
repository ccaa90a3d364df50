SPECIFICATION Spec
CONSTANTS
  c1 = c1
  c2 = c2
  c3 = c3
  None = None
  Client = {c1, c2}
  Sources = 1
  SameCollation = TRUE
  Offered = {"posting", "close", "document", "reversal", "attested"}
INVARIANTS
  SourceBeforeFiscal
