--------------------------- MODULE MCBillPayments ---------------------------
(* Finite instance of BillPayments: two bills, of which the second may      *)
(* replace the first, and up to two payments of either or both.            *)
EXTENDS BillPayments, TLC

CONSTANTS b1, b2, k1, k2, h1, h2

MCSymmetry ==
  Permutations(Bill) \cup Permutations(Key) \cup Permutations(HoldKey)
=============================================================================
