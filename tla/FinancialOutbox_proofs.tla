----------------------- MODULE FinancialOutbox_proofs -----------------------
(* For any number of events and workers: the outbox keeps the promise of   *)
(* EventDelivery, and a lease that has not run out protects its holder.    *)
EXTENDS FinancialOutbox, TLAPS

USE EventAssumption, TimeAssumption

(* A worker that says it handled an event has done so.                     *)
HandledInv ==
  /\ \A w \in Worker : job[w] # None => job[w] \in batch[w]
  /\ \A w \in Worker : phase[w] = "handled" => job[w] \in delivered
  /\ \A w \in Worker : batch[w] \subseteq Recorded
  /\ Published \subseteq delivered

(* As long as its lease lasts a held event is open to no claim.            *)
HeldInTime ==
  \A w \in Worker : \A e \in batch[w] \ overrun :
    \/ row[e].status = "processing" /\ row[e].lease > Skew
    \/ row[e].status = "published"
    \/ row[e].status = "failed" /\ row[e].wait = Never

LEMMA NeverType == Never \in Nat /\ Never > MaxDelay + Skew /\ Never > Skew
BY DEF Never

LEMMA ClaimedRow ==
  ASSUME NEW r \in Row, NEW ahead \in 0..Skew
  PROVE  LET c == [r EXCEPT !.status = "processing", !.lease = LeaseTime + ahead]
         IN  c \in Row /\ c.status = "processing" /\ c.lease > Skew
<1>1. LeaseTime + ahead \in 0..(LeaseTime + Skew) /\ LeaseTime + ahead > Skew
  OBVIOUS
<1>. QED  BY <1>1 DEF Row

Aged(r) ==
  [r EXCEPT !.wait = IF @ = Never THEN @ ELSE Less(@), !.lease = Less(@)]

LEMMA AgedRow ==
  ASSUME NEW r \in Row
  PROVE  /\ Aged(r) \in Row
         /\ Aged(r).status = r.status
         /\ Aged(r).wait = IF r.wait = Never THEN Never ELSE Less(r.wait)
         /\ Aged(r).lease = Less(r.lease)
<1>1. r.wait \in 0..Never /\ r.lease \in 0..(LeaseTime + Skew)
  BY DEF Row
<1>2. Less(r.wait) \in 0..Never /\ Less(r.lease) \in 0..(LeaseTime + Skew)
  BY <1>1, NeverType DEF Less
<1>. QED  BY <1>1, <1>2 DEF Row, Aged

LEMMA TickAges == Tick => row' = [e \in Event |-> Aged(row[e])]
BY DEF Tick, Aged

Claims(w, claimed, ahead) ==
  /\ \A e \in claimed : Claimable(e, ahead)
  /\ batch' = [batch EXCEPT ![w] = claimed]
  /\ row' = [e \in Event |->
       IF e \in claimed
       THEN [row[e] EXCEPT !.status = "processing", !.lease = LeaseTime + ahead]
       ELSE row[e]]

LEMMA ClaimTakesClaimable ==
  ASSUME NEW w, Claim(w)
  PROVE  \E ahead \in 0..Skew, claimed \in SUBSET Event : Claims(w, claimed, ahead)
BY DEF Claim, Oldest, Claims

(* Every row, batch and worker state is well formed. *)
THEOREM OutboxTypeCorrect == Spec => []TypeOK
<1>1. Init => TypeOK
  BY NeverType DEF Init, TypeOK, Row
<1>2. TypeOK /\ [Next]_vars => TypeOK'
  <2>. SUFFICES ASSUME TypeOK, [Next]_vars PROVE TypeOK'
    OBVIOUS
  <2>. USE NeverType DEF TypeOK, Row, Set, Goto
  <2>1. ASSUME NEW e \in Event, Record(e) PROVE TypeOK'
    BY <2>1 DEF Record, Never
  <2>2. ASSUME NEW e \in Event, MarkTerminal(e) PROVE TypeOK'
    BY <2>2 DEF MarkTerminal
  <2>3. ASSUME NEW w \in Worker, Claim(w) PROVE TypeOK'
    <3>1. PICK ahead \in 0..Skew, claimed \in SUBSET Event : Claims(w, claimed, ahead)
      BY <2>3, ClaimTakesClaimable
    <3>2. row' \in [Event -> Row]
      <4>. HIDE DEF Row
      <4>. QED  BY <3>1, ClaimedRow DEF Claims
    <3>3. row' \in [Event -> Row] /\ batch' \in [Worker -> SUBSET Event]
      BY <3>1, <3>2 DEF Claims
    <3>. QED  BY <2>3, <3>3 DEF Claim
  <2>4. ASSUME NEW w \in Worker, Deliver(w) PROVE TypeOK'
    <3>1. CASE StartHandler(w)
      BY <3>1 DEF StartHandler
    <3>2. CASE HandlerReturns(w) \/ HandlerThrows(w) \/ MarkPublishedFails(w)
      BY <3>2 DEF HandlerReturns, HandlerThrows, MarkPublishedFails
    <3>3. CASE MarkPublished(w) \/ MarkPublishedUnseen(w)
      <4>1. job[w] \in Event /\ row[job[w]].wait \in 0..Never /\ row[job[w]] \in Row
        BY <3>3 DEF MarkPublished, MarkPublishedUnseen
      <4>2. row' \in [Event -> Row]
        BY <3>3, <4>1 DEF MarkPublished, MarkPublishedUnseen
      <4>3. CASE MarkPublished(w)
        BY <4>1, <4>2, <4>3 DEF MarkPublished, Proceed
      <4>4. CASE MarkPublishedUnseen(w)
        BY <4>1, <4>2, <4>4 DEF MarkPublishedUnseen
      <4>. QED  BY <3>3, <4>3, <4>4
    <3>4. CASE MarkFailed(w)
      <4>1. job[w] \in Event
        BY <3>4 DEF MarkFailed
      <4>2. row' \in [Event -> Row]
        BY <3>4, <4>1 DEF MarkFailed, Never
      <4>. QED  BY <3>4, <4>1, <4>2 DEF MarkFailed, Proceed
    <3>5. CASE MarkFailedFails(w)
      BY <3>5 DEF MarkFailedFails, Abandon
    <3>. QED  BY <2>4, <3>1, <3>2, <3>3, <3>4, <3>5 DEF Deliver
  <2>5. ASSUME NEW w \in Worker, Crash(w) PROVE TypeOK'
    BY <2>5 DEF Crash, Abandon
  <2>6. CASE Tick
    <3>3. row' \in [Event -> Row]
      <4>. HIDE DEF Row
      <4>. QED  BY <2>6, AgedRow, TickAges
    <3>. QED  BY <2>6, <3>3 DEF Tick
  <2>7. CASE UNCHANGED vars
    BY <2>7 DEF vars
  <2>. QED  BY <2>1, <2>2, <2>3, <2>4, <2>5, <2>6, <2>7 DEF Next
<1>. QED  BY <1>1, <1>2, PTL DEF Spec
-----------------------------------------------------------------------------
(* One step changes the status of rows in these ways only.                 *)
LEMMA HandledStep ==
  ASSUME TypeOK, HandledInv, [Next]_vars
  PROVE  HandledInv'
<1>. USE DEF TypeOK, HandledInv, Recorded, Published, Set, Goto
<1>1. ASSUME NEW e \in Event, Record(e) PROVE HandledInv'
  BY <1>1 DEF Record, Row
<1>2. ASSUME NEW e \in Event, MarkTerminal(e) PROVE HandledInv'
  BY <1>2 DEF MarkTerminal, Row
<1>3. ASSUME NEW w \in Worker, Claim(w) PROVE HandledInv'
  <2>1. PICK ahead \in 0..Skew, claimed \in SUBSET Event : Claims(w, claimed, ahead)
    BY <1>3, ClaimTakesClaimable
  <2>2. ASSUME NEW e \in Event
        PROVE  row'[e].status = IF e \in claimed THEN "processing" ELSE row[e].status
    <3>1. row[e] \in Row
      OBVIOUS
    <3>2. row'[e] = IF e \in claimed
                    THEN [row[e] EXCEPT !.status = "processing", !.lease = LeaseTime + ahead]
                    ELSE row[e]
      BY <2>1 DEF Claims
    <3>. QED  BY <3>1, <3>2, ClaimedRow
  <2>3. \A e \in claimed : row[e].status \in {"pending", "failed", "processing"}
    BY <2>1 DEF Claims, Claimable
  <2>4. job' = job /\ phase' = phase /\ delivered' = delivered /\ job[w] = None
    BY <1>3 DEF Claim
  <2>5. batch' = [batch EXCEPT ![w] = claimed]
    BY <2>1 DEF Claims
  <2>. QED  BY <2>2, <2>3, <2>4, <2>5
<1>4. ASSUME NEW w \in Worker, Deliver(w) PROVE HandledInv'
  <2>1. CASE StartHandler(w)
    BY <2>1 DEF StartHandler
  <2>2. CASE HandlerReturns(w) \/ HandlerThrows(w) \/ MarkPublishedFails(w)
    BY <2>2 DEF HandlerReturns, HandlerThrows, MarkPublishedFails
  <2>3. CASE MarkPublished(w) \/ MarkPublishedUnseen(w)
    <3>1. job[w] \in Event /\ job[w] \in delivered /\ delivered' = delivered
      BY <2>3 DEF MarkPublished, MarkPublishedUnseen
    <3>2. \A e \in Event : row'[e].status = IF e = job[w] THEN "published" ELSE row[e].status
      BY <2>3, <3>1 DEF MarkPublished, MarkPublishedUnseen, Row
    <3>3. CASE MarkPublished(w)
      BY <3>1, <3>2, <3>3 DEF MarkPublished, Proceed
    <3>4. CASE MarkPublishedUnseen(w)
      BY <3>1, <3>2, <3>4 DEF MarkPublishedUnseen
    <3>. QED  BY <2>3, <3>3, <3>4
  <2>4. CASE MarkFailed(w)
    <3>1. job[w] \in Event /\ delivered' = delivered
      BY <2>4 DEF MarkFailed
    <3>2. \A e \in Event : row'[e].status = IF e = job[w] THEN "failed" ELSE row[e].status
      BY <2>4, <3>1 DEF MarkFailed, Row
    <3>. QED  BY <2>4, <3>1, <3>2 DEF MarkFailed, Proceed
  <2>5. CASE MarkFailedFails(w)
    BY <2>5 DEF MarkFailedFails, Abandon
  <2>. QED  BY <1>4, <2>1, <2>2, <2>3, <2>4, <2>5 DEF Deliver
<1>5. ASSUME NEW w \in Worker, Crash(w) PROVE HandledInv'
  BY <1>5 DEF Crash, Abandon
<1>6. CASE Tick
  <2>1. \A e \in Event : row'[e].status = row[e].status
    BY <1>6, AgedRow, TickAges
  <2>. QED  BY <1>6, <2>1 DEF Tick
<1>7. CASE UNCHANGED vars
  BY <1>7 DEF vars
<1>. QED  BY <1>1, <1>2, <1>3, <1>4, <1>5, <1>6, <1>7 DEF Next

LEMMA HandledAlways == Spec => []HandledInv
<1>1. Init => HandledInv
  BY DEF Init, HandledInv, Recorded, Published
<1>. QED  BY <1>1, HandledStep, OutboxTypeCorrect, PTL DEF Spec
-----------------------------------------------------------------------------
(* Nobody takes an event away from a holder whose lease lasts, nor marks it*)
(* failed: whoever could has the event as well.                            *)
LEMMA OneHolder ==
  ASSUME TypeOK, OneHolderWithinLease, NEW v \in Worker, NEW w \in Worker, v # w,
         NEW e \in batch[v], e \in batch[w]
  PROVE  e \in overrun
BY DEF OneHolderWithinLease

LEMMA LeaseStep ==
  ASSUME TypeOK, HandledInv, HeldInTime, OneHolderWithinLease, [Next]_vars
  PROVE  HeldInTime' /\ OneHolderWithinLease'
<1>. USE DEF TypeOK, Set, Goto
<1>1. ASSUME NEW e \in Event, Record(e) PROVE HeldInTime' /\ OneHolderWithinLease'
  <2>1. \A w \in Worker : e \notin batch[w]
    BY <1>1 DEF Record, HandledInv, Recorded
  <2>. QED  BY <1>1, <2>1 DEF Record, HeldInTime, OneHolderWithinLease
<1>2. ASSUME NEW e \in Event, MarkTerminal(e) PROVE HeldInTime' /\ OneHolderWithinLease'
  BY <1>2 DEF MarkTerminal, HeldInTime, OneHolderWithinLease
<1>3. ASSUME NEW w \in Worker, Claim(w) PROVE HeldInTime' /\ OneHolderWithinLease'
  <2>1. PICK ahead \in 0..Skew, claimed \in SUBSET Event : Claims(w, claimed, ahead)
    BY <1>3, ClaimTakesClaimable
  <2>2. \A e \in Event : row'[e] =
          IF e \in claimed
          THEN [row[e] EXCEPT !.status = "processing", !.lease = LeaseTime + ahead]
          ELSE row[e]
    BY <2>1 DEF Claims
  <2>3. ASSUME NEW e \in claimed
        PROVE  row'[e].status = "processing" /\ row'[e].lease > Skew
    <3>1. e \in Event /\ row[e] \in Row
      OBVIOUS
    <3>2. row'[e] = [row[e] EXCEPT !.status = "processing", !.lease = LeaseTime + ahead]
      BY <2>2, <3>1
    <3>. QED  BY <3>1, <3>2, ClaimedRow
  <2>4. ASSUME NEW e \in claimed, NEW v \in Worker, e \in batch[v] PROVE e \in overrun
    <3>1. Claimable(e, ahead) /\ row[e] \in Row
      BY <2>1, <2>4 DEF Claims
    <3>. QED  BY <2>4, <3>1, NeverType DEF Claimable, HeldInTime, Row
  <2>5. batch' = [batch EXCEPT ![w] = claimed] /\ overrun' = overrun
    BY <1>3, <2>1 DEF Claim, Claims
  <2>6. ASSUME NEW v \in Worker, NEW e \in batch'[v], e \notin overrun'
        PROVE  \/ row'[e].status = "processing" /\ row'[e].lease > Skew
               \/ row'[e].status = "published"
               \/ row'[e].status = "failed" /\ row'[e].wait = Never
    <3>1. CASE e \in claimed
      BY <2>3, <3>1
    <3>2. CASE e \notin claimed
      <4>1. e \in batch[v] /\ e \in Event
        BY <2>5, <2>6, <3>2
      <4>2. row'[e] = row[e]
        BY <2>2, <3>2, <4>1
      <4>. QED  BY <2>5, <2>6, <4>1, <4>2 DEF HeldInTime
    <3>. QED  BY <3>1, <3>2
  <2>7. OneHolderWithinLease'
    BY <2>4, <2>5 DEF OneHolderWithinLease
  <2>. QED  BY <2>6, <2>7 DEF HeldInTime
<1>4. ASSUME NEW w \in Worker, Deliver(w) PROVE HeldInTime' /\ OneHolderWithinLease'
  <2>1. CASE StartHandler(w)
    BY <2>1 DEF StartHandler, HeldInTime, OneHolderWithinLease
  <2>2. CASE HandlerReturns(w) \/ HandlerThrows(w) \/ MarkPublishedFails(w)
    BY <2>2 DEF HandlerReturns, HandlerThrows, MarkPublishedFails, HeldInTime, OneHolderWithinLease
  <2>3. CASE MarkPublished(w) \/ MarkPublishedUnseen(w)
    <3>1. job[w] \in Event /\ overrun' = overrun
      BY <2>3 DEF MarkPublished, MarkPublishedUnseen
    <3>2. \A e \in Event :
            IF e = job[w] THEN row'[e].status = "published" ELSE row'[e] = row[e]
      BY <2>3, <3>1 DEF MarkPublished, MarkPublishedUnseen
    <3>3. \A v \in Worker : batch'[v] \subseteq batch[v]
      BY <2>3 DEF MarkPublished, MarkPublishedUnseen, Proceed
    <3>. QED  BY <3>1, <3>2, <3>3 DEF HeldInTime, OneHolderWithinLease
  <2>4. CASE MarkFailed(w)
    <3>1. job[w] \in Event /\ job[w] \in batch[w] /\ overrun' = overrun
      BY <2>4 DEF MarkFailed, HandledInv
    <3>2. \A e \in Event : e # job[w] => row'[e] = row[e]
      BY <2>4, <3>1 DEF MarkFailed
    <3>3. batch' = [batch EXCEPT ![w] = @ \ {job[w]}]
      BY <2>4 DEF MarkFailed, Proceed
    <3>4. \A v \in Worker : v # w /\ job[w] \in batch[v] => job[w] \in overrun
      BY <3>1, OneHolder
    <3>5. HeldInTime'
      BY <3>1, <3>2, <3>3, <3>4 DEF HeldInTime
    <3>. QED  BY <3>1, <3>3, <3>5 DEF OneHolderWithinLease
  <2>5. CASE MarkFailedFails(w)
    BY <2>5 DEF MarkFailedFails, Abandon, HeldInTime, OneHolderWithinLease
  <2>. QED  BY <1>4, <2>1, <2>2, <2>3, <2>4, <2>5 DEF Deliver
<1>5. ASSUME NEW w \in Worker, Crash(w) PROVE HeldInTime' /\ OneHolderWithinLease'
  BY <1>5 DEF Crash, Abandon, HeldInTime, OneHolderWithinLease
<1>6. CASE Tick
  <2>1. \A e \in Event :
          /\ row'[e].status = row[e].status
          /\ row[e].wait = Never => row'[e].wait = Never
          /\ row'[e].lease \in Nat
    <3>. SUFFICES ASSUME NEW e \in Event
                  PROVE  /\ row'[e].status = row[e].status
                         /\ row[e].wait = Never => row'[e].wait = Never
                         /\ row'[e].lease \in Nat
      OBVIOUS
    <3>1. row[e] \in Row /\ row'[e] = Aged(row[e])
      BY <1>6, TickAges
    <3>2. row[e].lease \in Nat
      BY <3>1 DEF Row
    <3>. QED  BY <3>1, <3>2, AgedRow DEF Less
  <2>2. batch' = batch
        /\ overrun' = overrun \cup {e \in Event : row[e].status = "processing" /\ row'[e].lease <= Skew}
    BY <1>6 DEF Tick
  <2>3. ASSUME NEW w \in Worker, NEW e \in batch[w], e \notin overrun'
        PROVE  \/ row'[e].status = "processing" /\ row'[e].lease > Skew
               \/ row'[e].status = "published"
               \/ row'[e].status = "failed" /\ row'[e].wait = Never
    <3>1. e \in Event /\ e \in batch[w] \ overrun
      BY <2>2, <2>3
    <3>2. row'[e].status = "processing" => row'[e].lease > Skew
      BY <2>1, <2>2, <2>3, <3>1
    <3>3. \/ row[e].status = "processing"
          \/ row[e].status = "published"
          \/ row[e].status = "failed" /\ row[e].wait = Never
      BY <2>3, <3>1, Zenon DEF HeldInTime
    <3>. QED  BY <2>1, <3>1, <3>2, <3>3
  <2>. QED  BY <2>2, <2>3 DEF HeldInTime, OneHolderWithinLease
<1>7. CASE UNCHANGED vars
  BY <1>7 DEF vars, HeldInTime, OneHolderWithinLease
<1>. QED  BY <1>1, <1>2, <1>3, <1>4, <1>5, <1>6, <1>7 DEF Next

(***************************************************************************)
(* Two workers have the same event only after a lease on it has run out,   *)
(* for any number of workers and events, batch size, lease and clock skew  *)
(* below the lease.                                                        *)
(***************************************************************************)
THEOREM LeasesProtectHolders == Spec => []OneHolderWithinLease
<1>1. Init => HeldInTime /\ OneHolderWithinLease
  BY DEF Init, HeldInTime, OneHolderWithinLease
<1>. QED  BY <1>1, LeaseStep, HandledAlways, OutboxTypeCorrect, PTL DEF Spec
-----------------------------------------------------------------------------
(* Each step of the outbox is a step of EventDelivery or changes nothing it*)
(* speaks of.                                                              *)
LEMMA PromisedStep ==
  ASSUME TypeOK, HandledInv, [Next]_vars
  PROVE  [Promise!DeliveryNext]_(Promise!deliveryVars)
<1>. USE DEF TypeOK, Set, Goto, Promise!deliveryVars
<1>. DEFINE Same == Recorded' = Recorded /\ Published' = Published /\ GivenUp' = GivenUp
<1>1. ASSUME NEW e \in Event, Record(e) PROVE Promise!RecordEvent(e)
  <2>1. \A d \in Event : IF d = e THEN row'[d].status = "pending" ELSE row'[d] = row[d]
    BY <1>1 DEF Record
  <2>2. row[e].status = "none" /\ delivered' = delivered
    BY <1>1 DEF Record
  <2>. QED  BY <2>1, <2>2 DEF Promise!RecordEvent, Recorded, Published, GivenUp
<1>2. ASSUME NEW e \in Event, MarkTerminal(e) PROVE Promise!GiveUpOn(e)
  <2>1. \A d \in Event :
          IF d = e THEN row'[d].status = "failed" /\ row'[d].wait = Never ELSE row'[d] = row[d]
    BY <1>2 DEF MarkTerminal
  <2>2. row[e].status = "processing" /\ delivered' = delivered
    BY <1>2 DEF MarkTerminal
  <2>. QED  BY <2>1, <2>2 DEF Promise!GiveUpOn, Recorded, Published, GivenUp
<1>3. ASSUME NEW w \in Worker, Claim(w) PROVE Same /\ delivered' = delivered
  <2>1. PICK ahead \in 0..Skew, claimed \in SUBSET Event : Claims(w, claimed, ahead)
    BY <1>3, ClaimTakesClaimable
  <2>2. \A e \in Event :
          IF e \in claimed THEN row'[e].status = "processing" ELSE row'[e] = row[e]
    BY <2>1 DEF Claims, Row
  <2>3. ASSUME NEW e \in claimed
        PROVE  row[e].status \in {"pending", "failed", "processing"} /\ row[e].wait # Never
    <3>1. Claimable(e, ahead) /\ row[e].wait \in 0..Never
      BY <2>1 DEF Claims, Row
    <3>. QED  BY <3>1, NeverType DEF Claimable
  <2>4. Recorded' = Recorded
    BY <2>2, <2>3 DEF Recorded
  <2>5. Published' = Published
    BY <2>2, <2>3 DEF Published
  <2>6. GivenUp' = GivenUp
    BY <2>2, <2>3 DEF GivenUp
  <2>. QED  BY <1>3, <2>4, <2>5, <2>6 DEF Claim
<1>4. ASSUME NEW w \in Worker, MarkPublished(w) \/ MarkPublishedUnseen(w)
      PROVE  Promise!Publish(job[w]) /\ job[w] \in Event
  <2>1. /\ job[w] \in Event /\ job[w] \in delivered /\ delivered' = delivered
        /\ row[job[w]].status = "processing"
    BY <1>4 DEF MarkPublished, MarkPublishedUnseen, HandledInv
  <2>2. \A e \in Event :
          IF e = job[w] THEN row'[e].status = "published" ELSE row'[e] = row[e]
    BY <1>4, <2>1 DEF MarkPublished, MarkPublishedUnseen
  <2>3. Recorded' = Recorded
    BY <2>1, <2>2 DEF Recorded
  <2>4. Published' = Published \cup {job[w]}
    BY <2>1, <2>2 DEF Published
  <2>5. GivenUp' = GivenUp
    BY <2>1, <2>2 DEF GivenUp
  <2>6. job[w] \notin Published \cup GivenUp
    BY <2>1 DEF Published, GivenUp
  <2>. QED  BY <2>1, <2>3, <2>4, <2>5, <2>6 DEF Promise!Publish
<1>5. ASSUME NEW w \in Worker, MarkFailed(w) PROVE Same /\ delivered' = delivered
  <2>1. /\ job[w] \in Event /\ delivered' = delivered
        /\ row[job[w]].status = "processing"
    BY <1>5 DEF MarkFailed
  <2>2. \A e \in Event :
          IF e = job[w] THEN row'[e].status = "failed" /\ row'[e].wait # Never
          ELSE row'[e] = row[e]
    BY <1>5, <2>1 DEF MarkFailed, Never
  <2>3. Recorded' = Recorded
    BY <2>1, <2>2 DEF Recorded
  <2>4. Published' = Published
    BY <2>1, <2>2 DEF Published
  <2>5. GivenUp' = GivenUp
    BY <2>1, <2>2 DEF GivenUp
  <2>. QED  BY <2>1, <2>3, <2>4, <2>5
<1>6. ASSUME NEW w \in Worker, HandlerReturns(w)
      PROVE  Promise!Deliver(job[w]) /\ job[w] \in Event
  <2>1. job[w] \in Event /\ job[w] \in Recorded /\ row' = row
        /\ delivered' = delivered \cup {job[w]}
    BY <1>6 DEF HandlerReturns, HandledInv
  <2>. QED  BY <2>1 DEF Promise!Deliver, Recorded, Published, GivenUp
<1>7. CASE UNCHANGED <<row, delivered>>
  BY <1>7 DEF Recorded, Published, GivenUp
<1>8. CASE Tick
  <2>1. \A e \in Event :
          /\ row'[e].status = row[e].status
          /\ row[e] \in Row
          /\ row'[e].wait = IF row[e].wait = Never THEN Never ELSE Less(row[e].wait)
    BY <1>8, AgedRow, TickAges
  <2>2. \A e \in Event : row'[e].wait = Never <=> row[e].wait = Never
    BY <2>1, NeverType DEF Less, Row
  <2>3. delivered' = delivered
    BY <1>8 DEF Tick
  <2>4. Recorded' = Recorded /\ Published' = Published
    BY <2>1 DEF Recorded, Published
  <2>5. GivenUp' = GivenUp
    BY <2>1, <2>2 DEF GivenUp
  <2>. QED  BY <2>3, <2>4, <2>5
<1>9. [Next]_vars =>
        \/ \E e \in Event : Record(e) \/ MarkTerminal(e)
        \/ \E w \in Worker :
             \/ Claim(w) \/ MarkPublished(w) \/ MarkPublishedUnseen(w) \/ MarkFailed(w)
             \/ HandlerReturns(w)
        \/ Tick
        \/ UNCHANGED <<row, delivered>>
  BY DEF Next, Deliver, vars, StartHandler, HandlerThrows, MarkPublishedFails,
         MarkFailedFails, Crash
<1>. HIDE DEF Same
<1>10. Same /\ delivered' = delivered => UNCHANGED Promise!deliveryVars
  BY DEF Same
<1>. QED
  BY <1>1, <1>2, <1>3, <1>4, <1>5, <1>6, <1>7, <1>8, <1>9, <1>10 DEF Promise!DeliveryNext

(***************************************************************************)
(* Every behaviour of the outbox, with its crashes, expired leases and     *)
(* stale workers, is one of the abstract at-least-once delivery.           *)
(***************************************************************************)
THEOREM OutboxKeepsPromise == Spec => DeliveryPromise
<1>1. Init => Promise!DeliveryInit
  BY DEF Init, Promise!DeliveryInit, Recorded, Published, GivenUp
<1>. QED
  BY <1>1, PromisedStep, HandledAlways, OutboxTypeCorrect, PTL
     DEF Spec, DeliveryPromise, Promise!DeliverySpec
=============================================================================
