------------------------- MODULE MCFinancialOutbox -------------------------
(* Finite instance of FinancialOutbox: two workers whose clocks differ by  *)
(* a tick, over two events, with leases of two ticks.                      *)
EXTENDS FinancialOutbox, TLC

CONSTANTS w1, w2

MCSymmetry == Permutations(Worker)
=============================================================================
