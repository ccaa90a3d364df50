----------------------------- MODULE MCRollups -----------------------------
(* Finite instance of Rollups: four days, three of them a month, buckets   *)
(* by day and month, a balance sheet of the third day and the profit and   *)
(* loss of the month; one native and one imported posting.                 *)
EXTENDS Rollups

CONSTANTS n1, m1

MCWindow ==
  {[first |-> d, last |-> d] : d \in 1..4}
    \cup {[first |-> 1, last |-> 3], [first |-> 4, last |-> 4]}
MCBalanceSheet == {[first |-> 3, last |-> 3, asOf |-> 3, kind |-> "asOf"]}
MCReports == MCBalanceSheet \cup {[first |-> 1, last |-> 3, asOf |-> 3, kind |-> "period"]}
MCRollupPeriod == {[first |-> 1, last |-> 3], [first |-> 1, last |-> 4]}
=============================================================================
