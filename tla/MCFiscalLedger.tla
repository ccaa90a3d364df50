-------------------------- MODULE MCFiscalLedger ---------------------------
(* Finite instance of FiscalLedger: two periods over two days, so that one *)
(* period may end where the other begins or cover both days, two journals  *)
(* and one draft to be posted into them.                                   *)
EXTENDS FiscalLedger, TLC

CONSTANTS p1, p2, j1, j2, x1, i1, k1, k2

MCSymmetry ==
  Permutations({p1, p2}) \cup Permutations({j1, j2}) \cup Permutations({k1, k2})
=============================================================================
