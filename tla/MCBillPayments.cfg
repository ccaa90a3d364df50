SPECIFICATION Spec
CONSTANTS
  b1 = b1
  b2 = b2
  k1 = k1
  k2 = k2
  h1 = h1
  h2 = h2
  Bill = {b1, b2}
  Key = {k1, k2}
  HoldKey = {h1, h2}
  DocumentAmount = {2}
  MaxAmount = 2
  MaxVersion = 4
SYMMETRY MCSymmetry
INVARIANTS
  TypeOK
  BalancesMatchApplications
  InstructionAgreesWithPayment
PROPERTIES
  PaysReviewedBills
  OutcomesAreFinal
CHECK_DEADLOCK FALSE
