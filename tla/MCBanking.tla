------------------------------ MODULE MCBanking ------------------------------
(* Finite instance of Banking: two days, of which the first may be closed.  *)
EXTENDS Banking, TLC

CONSTANTS j1, j2, j3, s1, s2, a1, a2

MCCalendar ==
  {<<"open", "open">>, <<"closing", "open">>, <<"closed", "open">>}

MCEntry == {[amount |-> 1, date |-> 1, adjusting |-> TRUE]}

MCSymmetry ==
  Permutations(Journal) \cup Permutations(Statement) \cup Permutations(Actor)

=============================================================================
