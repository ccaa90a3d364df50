-------------------------- MODULE CommandOutcomes --------------------------
(***************************************************************************)
(* What a command with a retirement promises a client that has lost its    *)
(* answer: under its idempotency key it is either recorded or retired,     *)
(* never both, and whichever comes first is final.                         *)
(***************************************************************************)
CONSTANT Command

VARIABLE outcome

OutcomeInit == outcome = [c \in Command |-> "none"]

Settle(c, result) ==
  /\ outcome[c] = "none"
  /\ outcome' = [outcome EXCEPT ![c] = result]

OutcomeNext ==
  \E c \in Command, result \in {"recorded", "retired"} : Settle(c, result)

OutcomeSpec == OutcomeInit /\ [][OutcomeNext]_outcome
=============================================================================
