-------------------------- MODULE MCFiscalLocking --------------------------
(* Finite instance of FiscalLocking: two clients, each running any of the  *)
(* offered commands one after another against the same scope.              *)
EXTENDS FiscalLocking, TLC

CONSTANTS c1, c2, p1, p2, j1, j2, x1, i1, i2, k1, k2

MCSymmetry == Permutations({c1, c2})
=============================================================================
