--------------------------- MODULE EventDelivery ---------------------------
(***************************************************************************)
(* What the transactional outbox promises the handlers of an application:  *)
(* an event recorded with a ledger change is handed to a handler at least  *)
(* once before it is published, possibly several times, in no particular   *)
(* order, and once it is published or given up that is final.              *)
(***************************************************************************)
CONSTANT Event

VARIABLES
  recorded,   \* events whose financial change has committed
  delivered,  \* events a handler has completed at least once
  published,  \* events that will not be delivered again
  givenUp     \* events a host has declared undeliverable

deliveryVars == <<recorded, delivered, published, givenUp>>

DeliveryInit ==
  /\ recorded = {} /\ delivered = {} /\ published = {} /\ givenUp = {}

RecordEvent(e) ==
  /\ e \notin recorded
  /\ recorded' = recorded \cup {e}
  /\ UNCHANGED <<delivered, published, givenUp>>

Deliver(e) ==
  /\ e \in recorded
  /\ delivered' = delivered \cup {e}
  /\ UNCHANGED <<recorded, published, givenUp>>

Publish(e) ==
  /\ e \in delivered /\ e \notin published \cup givenUp
  /\ published' = published \cup {e}
  /\ UNCHANGED <<recorded, delivered, givenUp>>

GiveUpOn(e) ==
  /\ e \in recorded /\ e \notin published \cup givenUp
  /\ givenUp' = givenUp \cup {e}
  /\ UNCHANGED <<recorded, delivered, published>>

DeliveryNext ==
  \E e \in Event : RecordEvent(e) \/ Deliver(e) \/ Publish(e) \/ GiveUpOn(e)

DeliverySpec == DeliveryInit /\ [][DeliveryNext]_deliveryVars
=============================================================================
