SPECIFICATION FairSpec
CONSTANTS
  c1 = c1
  c2 = c2
  c3 = c3
  None = None
  Client = {c1, c2, c3}
  Sources = 2
  SameCollation = TRUE
  Offered = {"posting", "application", "close", "period", "guard"}
INVARIANTS
  TypeOK
  NoWaitCycle
PROPERTIES
  EveryCommandEnds
