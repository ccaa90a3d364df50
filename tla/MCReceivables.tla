--------------------------- MODULE MCReceivables ---------------------------
(* Finite instance of Receivables: an invoice and its possible replacement, *)
(* two receipts that may be matched to two bank lines, and enough credits,  *)
(* refunds and write-offs to end one and go on with another.                *)
EXTENDS Receivables, TLC

CONSTANTS i1, i2, r1, r2, c1, c2, w1, f1, f2, l1, l2, m1, m2

MCSymmetry ==
  Permutations(Invoice) \cup Permutations(Receipt) \cup Permutations(Line)
  \cup Permutations(Credit) \cup Permutations(Refund) \cup Permutations(MatchKey)
=============================================================================
