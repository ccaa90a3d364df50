-------------------------- MODULE FinancialOutbox --------------------------
(***************************************************************************)
(* The financial outbox and the runtime that delivers it.  Commands append *)
(* an event to the table financial_outbox in their own transaction.  Each  *)
(* worker, any number of them in any process, claims a batch of rows under *)
(* a lease and runs runOnce: for every event of the batch, one after the   *)
(* other, the application's handler and then markPublished, or markFailed  *)
(* with the time of the next attempt.  The marks ask only whether the row  *)
(* is 'processing', not whose claim it is, and nothing renews a lease.     *)
(*                                                                         *)
(* Time is what remains until a row is available or its lease runs out;    *)
(* Tick counts it down.  Every worker reads its own clock, which is up to  *)
(* Skew ahead of the slowest.  Rows a claim might skip because another     *)
(* statement has them locked at that very moment are left out.             *)
(***************************************************************************)
EXTENDS Integers, FiniteSets

CONSTANTS
  Event,      \* event keys: numbers, in the order of their created_at
  Poison,     \* events whose handler always throws, or that have none
  Worker,     \* concurrent calls of runOnce
  Limit,      \* size of a batch
  LeaseTime,  \* length of a lease
  MaxDelay,   \* bound: delay before the next attempt
  Skew,       \* how far clocks of two workers differ
  None

ASSUME EventAssumption == Event \subseteq Nat /\ None \notin Event
ASSUME TimeAssumption ==
  /\ LeaseTime \in Nat /\ MaxDelay \in Nat /\ Skew \in Nat
  /\ Skew < LeaseTime  \* leases have at least 5 seconds

VARIABLES
  row,        \* the table, by event key
  batch,      \* claimed events each worker has still to deliver
  job,        \* the event it is delivering, or None
  phase,      \* how far that delivery is
  delivered,  \* events whose handler has completed at least once
  overrun     \* history: events whose lease has run out during a claim

vars == <<row, batch, job, phase, delivered, overrun>>

(* A terminal failure is available on 9999-12-31. *)
Never == MaxDelay + Skew + 1

Row ==
  [status : {"none", "pending", "processing", "failed", "published"},
   wait : 0..Never, lease : 0..(LeaseTime + Skew)]

TypeOK ==
  /\ row \in [Event -> Row]
  /\ batch \in [Worker -> SUBSET Event]
  /\ job \in [Worker -> Event \cup {None}]
  /\ phase \in [Worker -> {"between", "running", "handled", "threw"}]
  /\ delivered \subseteq Event /\ overrun \subseteq Event
  /\ \A w \in Worker : phase[w] = "between" <=> job[w] = None
-----------------------------------------------------------------------------
Init ==
  /\ row = [e \in Event |-> [status |-> "none", wait |-> 0, lease |-> 0]]
  /\ batch = [w \in Worker |-> {}]
  /\ job = [w \in Worker |-> None]
  /\ phase = [w \in Worker |-> "between"]
  /\ delivered = {}
  /\ overrun = {}

Set(e, status, wait, lease) ==
  row' = [row EXCEPT ![e] = [status |-> status, wait |-> wait, lease |-> lease]]

Goto(w, e, place) ==
  job' = [job EXCEPT ![w] = e] /\ phase' = [phase EXCEPT ![w] = place]

(* The command's commit; a retry of the command leaves the row alone.  Its *)
(* created_at is from the start of the command, so commits may come in     *)
(* another order.  The writer's clock may be ahead of the workers'.        *)
Record(e) ==
  /\ row[e].status = "none"
  /\ \E ahead \in 0..Skew : Set(e, "pending", ahead, 0)
  /\ UNCHANGED <<batch, job, phase, delivered, overrun>>

(* Mutant of Claimable: every row in processing may be claimed.            *)
ClaimableAlways(e, ahead) ==
  row[e].wait <= ahead /\ row[e].status \in {"pending", "failed", "processing"}

(* Mutant of Claimable: a lost claim is not recovered.                     *)
ClaimableOnce(e, ahead) ==
  row[e].wait <= ahead /\ row[e].status \in {"pending", "failed"}

Claimable(e, ahead) ==
  /\ row[e].wait <= ahead
  /\ \/ row[e].status \in {"pending", "failed"}
     \/ row[e].status = "processing" /\ row[e].lease <= ahead

(* The first events of S in the order of creation, at most Limit of them.  *)
Oldest(S) == {e \in S : Cardinality({d \in S : d < e}) < Limit}

Claim(w) ==
  /\ batch[w] = {} /\ job[w] = None
  /\ \E ahead \in 0..Skew :
       LET claimed == Oldest({e \in Event : Claimable(e, ahead)}) IN
       /\ claimed # {}
       /\ batch' = [batch EXCEPT ![w] = claimed]
       /\ row' = [e \in Event |->
                   IF e \in claimed
                   THEN [row[e] EXCEPT !.status = "processing", !.lease = LeaseTime + ahead]
                   ELSE row[e]]
  /\ UNCHANGED <<job, phase, delivered, overrun>>

(* The order in which a claim returns its rows is not specified.           *)
StartHandler(w) ==
  /\ job[w] = None
  /\ \E e \in batch[w] : Goto(w, e, "running")
  /\ UNCHANGED <<row, batch, delivered, overrun>>

HandlerReturns(w) ==
  /\ phase[w] = "running" /\ job[w] \notin Poison
  /\ delivered' = delivered \cup {job[w]}
  /\ Goto(w, job[w], "handled")
  /\ UNCHANGED <<row, batch, overrun>>

HandlerThrows(w) ==
  /\ phase[w] = "running"
  /\ Goto(w, job[w], "threw")
  /\ UNCHANGED <<row, batch, delivered, overrun>>

(* Mutant of Proceed: the worker forgets that it is done with the event. *)
ProceedWithJob(w) ==
  /\ batch' = [batch EXCEPT ![w] = @ \ {job[w]}]
  /\ Goto(w, job[w], "between")

Proceed(w) ==
  /\ batch' = [batch EXCEPT ![w] = @ \ {job[w]}]
  /\ Goto(w, None, "between")

(* An error that runOnce does not catch, or the end of the process: what   *)
(* was claimed stays in processing.                                        *)
Abandon(w) ==
  /\ batch' = [batch EXCEPT ![w] = {}]
  /\ Goto(w, None, "between")

MarkPublished(w) ==
  /\ phase[w] = "handled"
  /\ row[job[w]].status = "processing"
  /\ Set(job[w], "published", row[job[w]].wait, 0)
  /\ Proceed(w)
  /\ UNCHANGED <<delivered, overrun>>

(* The update commits but its answer is lost: runOnce sees an error.       *)
MarkPublishedUnseen(w) ==
  /\ phase[w] = "handled"
  /\ row[job[w]].status = "processing"
  /\ Set(job[w], "published", row[job[w]].wait, 0)
  /\ Goto(w, job[w], "threw")
  /\ UNCHANGED <<batch, delivered, overrun>>

(* terminal_state_conflict, or a failed transaction: an error of the loop's*)
(* body like one of the handler.                                           *)
MarkPublishedFails(w) ==
  /\ phase[w] = "handled"
  /\ Goto(w, job[w], "threw")
  /\ UNCHANGED <<row, batch, delivered, overrun>>

(* Mutant of MarkFailed: the row's status is not asked for.                *)
MarkFailedBlindly(w) ==
  /\ phase[w] = "threw"
  /\ Set(job[w], "failed", 1, 0)
  /\ Proceed(w)
  /\ UNCHANGED <<delivered, overrun>>

MarkFailed(w) ==
  /\ phase[w] = "threw"
  /\ row[job[w]].status = "processing"
  /\ \E delay \in 1..MaxDelay, ahead \in 0..Skew : Set(job[w], "failed", delay + ahead, 0)
  /\ Proceed(w)
  /\ UNCHANGED <<delivered, overrun>>

MarkFailedFails(w) ==
  /\ phase[w] = "threw"
  /\ row[job[w]].status # "processing"
  /\ Abandon(w)
  /\ UNCHANGED <<row, delivered, overrun>>

Crash(w) ==
  /\ batch[w] # {}
  /\ Abandon(w)
  /\ UNCHANGED <<row, delivered, overrun>>

(* A host ends the attempts itself, markFailed with terminal set.          *)
MarkTerminal(e) ==
  /\ row[e].status = "processing"
  /\ Set(e, "failed", Never, 0)
  /\ UNCHANGED <<batch, job, phase, delivered, overrun>>

Less(n) == IF n > 0 THEN n - 1 ELSE 0

Tick ==
  /\ \E e \in Event : row[e].lease > 0 \/ row[e].wait \in 1..(Never - 1)
  /\ row' = [e \in Event |->
       [row[e] EXCEPT !.wait = IF @ = Never THEN @ ELSE Less(@), !.lease = Less(@)]]
  /\ overrun' = overrun \cup {e \in Event :
       row[e].status = "processing" /\ row'[e].lease <= Skew}
  /\ UNCHANGED <<batch, job, phase, delivered>>

Deliver(w) ==
  \/ StartHandler(w) \/ HandlerReturns(w) \/ HandlerThrows(w)
  \/ MarkPublished(w) \/ MarkPublishedUnseen(w) \/ MarkPublishedFails(w)
  \/ MarkFailed(w) \/ MarkFailedFails(w)

Next ==
  \/ \E e \in Event : Record(e) \/ MarkTerminal(e)
  \/ \E w \in Worker : Claim(w) \/ Deliver(w) \/ Crash(w)
  \/ Tick

Spec == Init /\ [][Next]_vars

(* The host keeps calling runOnce, time passes, a handler that can succeed *)
(* does so now and then, and so does the update that follows it.           *)
Fairness ==
  /\ WF_vars(Tick)
  /\ \A w \in Worker : WF_vars(Claim(w)) /\ WF_vars(Deliver(w))
  /\ \A e \in Event \ Poison :
       /\ SF_vars(\E w \in Worker : StartHandler(w) /\ job'[w] = e)
       /\ SF_vars(\E w \in Worker : HandlerReturns(w) /\ job[w] = e)
       /\ SF_vars(\E w \in Worker : MarkPublished(w) /\ job[w] = e)

FairSpec == Spec /\ Fairness
-----------------------------------------------------------------------------
Recorded == {e \in Event : row[e].status # "none"}
Published == {e \in Event : row[e].status = "published"}
GivenUp == {e \in Event : row[e].status = "failed" /\ row[e].wait = Never}

(***************************************************************************)
(* At-least-once delivery: no event is published that no handler has       *)
(* completed, and neither a published event nor one that was given up is   *)
(* ever touched again, whichever stale worker comes back to mark it.       *)
(***************************************************************************)
Promise == INSTANCE EventDelivery
             WITH recorded <- Recorded, published <- Published, givenUp <- GivenUp

DeliveryPromise == Promise!DeliverySpec

(***************************************************************************)
(* Two workers hold the same event only after a lease on it ran out under  *)
(* one of them: no claim takes an event whose holder is still in time.     *)
(***************************************************************************)
OneHolderWithinLease ==
  \A v, w \in Worker : v # w => batch[v] \cap batch[w] \subseteq overrun

(* Some worker still has an event that a claim may take: its lease has run *)
(* out, or the delay after a failure that someone else marked.             *)
HeldEventIsOpen ==
  \E w \in Worker : \E e \in batch[w] : Claimable(e, Skew)

(***************************************************************************)
(* Every recorded event whose handler can succeed is published in the end, *)
(* unless a host gives it up: through crashes, lost answers, stale marks   *)
(* and poison events that fill part of every batch.  From some time on     *)
(* leases and delays must be long enough for the work: two workers that    *)
(* are late can for ever mark each other's claims of one event as failed.  *)
(***************************************************************************)
EveryEventSettles ==
  <>[]~HeldEventIsOpen
    => \A e \in Event \ Poison : row[e].status # "none" ~> e \in Published \cup GivenUp
=============================================================================
