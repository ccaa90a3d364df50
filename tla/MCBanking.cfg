SPECIFICATION Spec
CONSTANTS
  j1 = j1  j2 = j2  j3 = j3
  s1 = s1  s2 = s2
  a1 = a1  a2 = a2
  NoStatement = NoStatement
  NoActor = NoActor
  Journal = {j1, j2, j3}
  Statement = {s1, s2}
  Actor = {a1, a2}
  MaxCommands = 5
  Entry <- MCEntry
  Closing = {1}
  LastDay = 2
  Calendar <- MCCalendar
SYMMETRY MCSymmetry
INVARIANTS
  TypeOK
  ClearedFactsStand
  StatementsChain
  ClosingIsCleared
  AnsweredOnce
PROPERTIES
  CompletedAsReviewed
  ClosedStatementsStay
CHECK_DEADLOCK FALSE
