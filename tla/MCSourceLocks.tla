--------------------------- MODULE MCSourceLocks ---------------------------
(* Finite instance of SourceLocks: a cycle of waits across two sources     *)
(* needs two clients, one through a shared lock or a fiscal lock of a      *)
(* third command needs three.                                              *)
EXTENDS SourceLocks, TLC

CONSTANTS c1, c2, c3

MCSymmetry == Permutations(Client)
=============================================================================
