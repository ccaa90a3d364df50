---------------------------- MODULE BillPayments ----------------------------
(***************************************************************************)
(* Vendor bills and the payments applied to them, in one source.  Every    *)
(* command takes the source lock first and runs in one transaction with a  *)
(* savepoint, so each is one step here: it happens entirely or, refused    *)
(* anywhere on the way, not at all.  Refusals change nothing and are not   *)
(* steps; neither are retries of a recorded command, which return a stored *)
(* receipt.  What clients know is older than the database: they act on     *)
(* versions they read before, on plans they reviewed before, and may send  *)
(* a command again, or retire it, when its answer is lost.                 *)
(*                                                                         *)
(* The idempotency key of a payment names its document and its instruction *)
(* alike.  An application is named by its payment, its bill and whether a  *)
(* payment plan made it or a command of its own, so there is at most one   *)
(* of each; a correction that moves it to the replacement bill keeps the   *)
(* rest of the name.                                                       *)
(***************************************************************************)
EXTENDS Naturals, FiniteSets, Functions

CONSTANTS
  Bill,            \* vendor bills
  Key,             \* idempotency keys of payments
  HoldKey,         \* idempotency keys of commands that set or lift a hold
  DocumentAmount,  \* amounts of bills and of payments recorded on their own
  MaxAmount,       \* bound: amount of an allocation
  MaxVersion       \* bound: versions of a bill

ASSUME AmountsAssumption ==
  DocumentAmount \subseteq Nat \ {0} /\ MaxAmount \in Nat /\ MaxVersion \in Nat
ASSUME KeysAssumption == Key \cap HoldKey = {}
ASSUME FiniteAssumption == IsFiniteSet(Bill) /\ IsFiniteSet(Key)

VARIABLES
  bill,         \* subledger_documents of type vendor_bill
  payment,      \* subledger_documents of type bill_payment
  instruction,  \* bill_payment_disbursements
  application,  \* subledger_applications
  retired,      \* keys with a recording-retired event
  holdKey,      \* the event under each hold command's key
  reviewed      \* history: the bills of a scheduled plan when it was made

docVars == <<bill, payment, application>>
vars == <<bill, payment, instruction, application, retired, holdKey, reviewed>>

Application == Key \X Bill \X {"plan", "direct"}
Amount == 1..MaxAmount

Document ==
  [status : {"none", "open", "partially_applied", "settled", "voided"},
   original : Nat, open : Nat, version : Nat, hold : BOOLEAN]

(* The allocations of an instruction: amount and reviewed version by bill, *)
(* as long as it is scheduled.                                             *)
IsPlan(plan) ==
  /\ DOMAIN plan \subseteq Bill
  /\ \A b \in DOMAIN plan : plan[b] \in [amount : Amount, version : Nat]
NoPlan == [b \in {} |-> 0]

TypeOK ==
  /\ bill \in [Bill -> Document]
  /\ payment \in [Key -> Document]
  /\ \A k \in Key : ~payment[k].hold
  /\ \A d \in {bill[b] : b \in Bill} \cup {payment[k] : k \in Key} :
       d.open <= d.original
  /\ DOMAIN instruction = Key
  /\ \A k \in Key :
       /\ instruction[k].status \in {"none", "scheduled", "cleared", "voided"}
       /\ instruction[k].version \in 0..3
       /\ IsPlan(instruction[k].plan)
  /\ application \in [Application ->
       [status : {"none", "applied", "ended"}, amount : Nat]]
  /\ retired \subseteq Key
  /\ holdKey \in [HoldKey -> {"none", "changed", "retired"}]
-----------------------------------------------------------------------------
NoDocument ==
  [status |-> "none", original |-> 0, open |-> 0, version |-> 0, hold |-> FALSE]

NewDocument(amount) ==
  [status |-> "open", original |-> amount, open |-> amount, version |-> 1,
   hold |-> FALSE]

Init ==
  /\ bill = [b \in Bill |-> NoDocument]
  /\ payment = [k \in Key |-> NoDocument]
  /\ instruction = [k \in Key |-> [status |-> "none", version |-> 0, plan |-> NoPlan]]
  /\ application = [i \in Application |-> [status |-> "none", amount |-> 0]]
  /\ retired = {}
  /\ holdKey = [h \in HoldKey |-> "none"]
  /\ reviewed = [k \in Key |-> NoPlan]

Exists(document) == document.status # "none"
Live(document) == document.status \notin {"none", "voided"}
Outstanding(document) ==
  document.status \in {"open", "partially_applied"} /\ document.open > 0
Untouched(document) ==
  document.status = "open" /\ document.open = document.original

(* The trigger's effect of n applications, or ends of applications, that   *)
(* leave the document with this open amount.                               *)
Rebalance(document, open, n) ==
  IF n = 0 THEN document
  ELSE [document EXCEPT
          !.open = open,
          !.version = @ + n,
          !.status = IF open = 0 THEN "settled"
                     ELSE IF open = document.original THEN "open"
                     ELSE "partially_applied"]

Voided(document) ==
  [document EXCEPT !.status = "voided", !.open = 0, !.version = @ + 1]

(* A bound of the model, on every action that changes bills. *)
WithinBounds == \A b \in Bill : bill[b]'.version <= MaxVersion

Applied(S) == {i \in S : application[i].status = "applied"}
OfBill(b) == Applied(Key \X {b} \X {"plan", "direct"})
OfPayment(k) == Applied({k} \X Bill \X {"plan", "direct"})

(* Total amount of a set of applications, and of a plan.                   *)
Total(S) == SumFunctionOnSet([i \in S |-> application[i].amount], S)
PlanTotal(plan) == SumFunction([b \in DOMAIN plan |-> plan[b].amount])
-----------------------------------------------------------------------------
(* createVendorBill. *)
CreateVendorBill(b, amount) ==
  /\ ~Exists(bill[b])
  /\ bill' = [bill EXCEPT ![b] = NewDocument(amount)]
  /\ UNCHANGED <<payment, instruction, application, retired, holdKey, reviewed>>

ChangedHold(document, on) ==
  [document EXCEPT !.hold = on, !.version = @ + 1]

(* setVendorBillPaymentHold, to set or to lift a hold. *)
SetPaymentHold(h, b, on) ==
  /\ holdKey[h] = "none"
  /\ Outstanding(bill[b])
  /\ bill[b].hold # on
  /\ bill' = [bill EXCEPT ![b] = ChangedHold(@, on)]
  /\ holdKey' = [holdKey EXCEPT ![h] = "changed"]
  /\ WithinBounds
  /\ UNCHANGED <<payment, instruction, application, retired, reviewed>>

(* retireVendorBillPaymentHoldAttempt: the same event key as the command,  *)
(* so whichever comes second finds the other's event.                      *)
RetirePaymentHold(h) ==
  /\ holdKey[h] = "none"
  /\ \E b \in Bill : Exists(bill[b])
  /\ holdKey' = [holdKey EXCEPT ![h] = "retired"]
  /\ UNCHANGED <<bill, payment, instruction, application, retired, reviewed>>

(* recordBillPayment on its own.  It asks for a retirement of the key but  *)
(* not for an instruction under it.                                        *)
RecordPayment(k, amount) ==
  /\ k \notin retired
  /\ ~Exists(payment[k])
  /\ payment' = [payment EXCEPT ![k] = NewDocument(amount)]
  /\ UNCHANGED <<bill, instruction, application, retired, holdKey, reviewed>>
-----------------------------------------------------------------------------
(* Mutant of Payable: only what is still open counts, not the version. *)
PayableByAmount(plan) ==
  \A b \in DOMAIN plan : ~bill[b].hold /\ plan[b].amount <= bill[b].open

(* assertBillPaymentBillsForInstruction, when a plan is made and again     *)
(* when it is cleared.                                                     *)
Payable(plan) ==
  \A b \in DOMAIN plan :
    /\ bill[b].status \in {"open", "partially_applied"}
    /\ bill[b].version = plan[b].version
    /\ ~bill[b].hold
    /\ plan[b].amount <= bill[b].open

(* createSubledgerDocument for the cleared payment: a new document, or the *)
(* one recorded under the key before, if it is the same and untouched: the *)
(* first application expects version 1 of it.                              *)
PaymentReady(k, plan) ==
  \/ ~Exists(payment[k])
  \/ payment[k].original = PlanTotal(plan) /\ payment[k].version = 1

(* materializeClearedBillPayment and the transition to cleared: the        *)
(* payment document and an application of it to every bill of the plan.    *)
MakePayment(k, plan, version) ==
  /\ Payable(plan)
  /\ PaymentReady(k, plan)
  /\ payment' = [payment EXCEPT ![k] =
       Rebalance(NewDocument(PlanTotal(plan)), 0, Cardinality(DOMAIN plan))]
  /\ bill' = [b \in Bill |->
       IF b \in DOMAIN plan
       THEN Rebalance(bill[b], bill[b].open - plan[b].amount, 1) ELSE bill[b]]
  /\ application' = [i \in Application |->
       IF i[1] = k /\ i[2] \in DOMAIN plan /\ i[3] = "plan"
       THEN [status |-> "applied", amount |-> plan[i[2]].amount]
       ELSE application[i]]
  /\ WithinBounds
  /\ instruction' = [instruction EXCEPT ![k] =
       [status |-> "cleared", version |-> version, plan |-> NoPlan]]
  /\ reviewed' = [reviewed EXCEPT ![k] = NoPlan]

Plans == UNION {[S -> Amount] : S \in (SUBSET Bill) \ {{}}}

(* The plan as a client sends it, with the versions it knows.  A plan with *)
(* other versions than the current ones is refused.                        *)
WithVersions(amounts) ==
  [b \in DOMAIN amounts |-> [amount |-> amounts[b], version |-> bill[b].version]]

(* Mutant of FreshKey: a retirement of the key is not asked for. *)
FreshInstruction(k) == instruction[k].status = "none"

(* createOrLoadBillPaymentInstruction for a key without an instruction. *)
FreshKey(k) == k \notin retired /\ instruction[k].status = "none"

(* scheduleBillPayment: only the instruction, nothing is posted. *)
Schedule(k, plan) ==
  /\ FreshKey(k)
  /\ Payable(plan)
  /\ instruction' = [instruction EXCEPT ![k] =
       [status |-> "scheduled", version |-> 1, plan |-> plan]]
  /\ reviewed' = [reviewed EXCEPT ![k] = [b \in DOMAIN plan |-> bill[b]]]
  /\ UNCHANGED <<docVars, retired, holdKey>>

(* recordAndApplyBillPayment of a new key, both steps in one transaction.  *)
(* Under the key of a scheduled instruction with the same plan it clears   *)
(* that one, as Clear does; a cancelled one it refuses.                    *)
RecordAndApply(k, plan) ==
  /\ FreshKey(k)
  /\ MakePayment(k, plan, 2)
  /\ UNCHANGED <<retired, holdKey>>

(* clearScheduledBillPayment of the plan as it was scheduled. *)
Clear(k) ==
  /\ instruction[k].status = "scheduled"
  /\ k \notin retired
  /\ MakePayment(k, instruction[k].plan, instruction[k].version + 1)
  /\ UNCHANGED <<retired, holdKey>>

(* cancelScheduledBillPayment. *)
Cancel(k) ==
  /\ instruction[k].status = "scheduled"
  /\ instruction' = [instruction EXCEPT ![k] =
       [status |-> "voided", version |-> @.version + 1, plan |-> NoPlan]]
  /\ reviewed' = [reviewed EXCEPT ![k] = NoPlan]
  /\ UNCHANGED <<docVars, retired, holdKey>>

Unrecorded(k) == instruction[k].status = "none" /\ ~Exists(payment[k])

(* retireBillPaymentRecordingAttempt: its own event, which every writer    *)
(* that uses the key asks for.                                             *)
RetireRecording(k) ==
  /\ k \notin retired
  /\ Unrecorded(k)
  /\ \E b \in Bill : Exists(bill[b])
  /\ retired' = retired \cup {k}
  /\ UNCHANGED <<docVars, instruction, holdKey, reviewed>>
-----------------------------------------------------------------------------
(* applySubledgerPayment of a posted payment to a bill, by a command of    *)
(* its own.                                                                *)
Apply(k, b, amount) ==
  /\ application[<<k, b, "direct">>].status = "none"
  /\ Exists(payment[k]) /\ Exists(bill[b])
  /\ ~bill[b].hold
  /\ amount <= payment[k].open /\ amount <= bill[b].open
  /\ payment' = [payment EXCEPT ![k] = Rebalance(@, @.open - amount, 1)]
  /\ bill' = [bill EXCEPT ![b] = Rebalance(@, @.open - amount, 1)]
  /\ application' = [application EXCEPT ![<<k, b, "direct">>] =
       [status |-> "applied", amount |-> amount]]
  /\ WithinBounds
  /\ UNCHANGED <<instruction, retired, holdKey, reviewed>>

(* endSubledgerApplication, for any set of applications one after another; *)
(* unapplied and voided are both "ended" here, without an amount, for      *)
(* nothing distinguishes them afterwards.                                  *)
Ended(S) ==
  [i \in Application |->
     IF i \in S THEN [status |-> "ended", amount |-> 0] ELSE application[i]]

Released(document, S) ==
  Rebalance(document, document.open + Total(S), Cardinality(S))

EndApplication(i) ==
  /\ application[i].status = "applied"
  /\ application' = Ended({i})
  /\ payment' = [payment EXCEPT ![i[1]] = Released(@, {i})]
  /\ bill' = [bill EXCEPT ![i[2]] = Released(@, {i})]
  /\ WithinBounds
  /\ UNCHANGED <<instruction, retired, holdKey, reviewed>>

(* Mutant of Compensated: it stays as it is. *)
NotCompensated(record) == record

(* The instruction of a payment that is voided goes with it. *)
Compensated(record) ==
  IF record.status = "cleared"
  THEN [record EXCEPT !.status = "voided", !.version = @ + 1] ELSE record

MayVoid(k) ==
  /\ Untouched(payment[k])
  /\ instruction[k].status \in {"none", "cleared"}

(* runPostedBillPaymentVoid on its own: the payment has no application     *)
(* left.                                                                   *)
VoidPayment(k) ==
  /\ MayVoid(k)
  /\ payment' = [payment EXCEPT ![k] = Voided(@)]
  /\ instruction' = [instruction EXCEPT ![k] = Compensated(@)]
  /\ UNCHANGED <<bill, application, retired, holdKey, reviewed>>

(* voidAndUnapplyBillPayment: ends what is applied of the payment, now and *)
(* not when the client looked, and voids it.  A scheduled instruction is   *)
(* refused, a voided one is only replayed.                                 *)
VoidAndUnapply(k) ==
  LET ending == OfPayment(k) IN
  /\ Live(payment[k])
  /\ instruction[k].status \in {"none", "cleared"}
  /\ Untouched(Released(payment[k], ending))
  /\ application' = Ended(ending)
  /\ payment' = [payment EXCEPT ![k] = Voided(Released(@, ending))]
  /\ bill' = [b \in Bill |-> Released(bill[b], ending \cap OfBill(b))]
  /\ instruction' = [instruction EXCEPT ![k] = Compensated(@)]
  /\ WithinBounds
  /\ UNCHANGED <<retired, holdKey, reviewed>>
-----------------------------------------------------------------------------
(* runPostedVendorBillLifecycle on its own: void, or replace by a bill of   *)
(* its own which takes nothing over, a hold included.                      *)
VoidBill(b) ==
  /\ Untouched(bill[b])
  /\ bill' = [bill EXCEPT ![b] = Voided(@)]
  /\ WithinBounds
  /\ UNCHANGED <<payment, instruction, application, retired, holdKey, reviewed>>

ReplaceBill(b, r, amount) ==
  /\ Untouched(bill[b])
  /\ ~Exists(bill[r])
  /\ bill' = [bill EXCEPT ![b] = Voided(@), ![r] = NewDocument(amount)]
  /\ WithinBounds
  /\ UNCHANGED <<payment, instruction, application, retired, holdKey, reviewed>>

(* The replacement of a corrected bill keeps its hold.                     *)
Replacement(b, amount) ==
  IF bill[b].hold THEN ChangedHold(NewDocument(amount), TRUE)
  ELSE NewDocument(amount)

(* Mutant of Reapplicable: the payments are not asked. *)
ReapplicableToBill(b, amount, reapply) ==
  /\ bill[b].hold => \A i \in OfBill(b) : reapply[i] = 0
  /\ SumFunction(reapply) <= amount

(* A plan for a correction: what each active application of the bill is to *)
(* pay of its replacement, 0 to release it.  Nothing is reapplied to a     *)
(* held bill, nor more than a payment or the replacement has open.         *)
Reapplicable(b, amount, reapply) ==
  /\ bill[b].hold => \A i \in OfBill(b) : reapply[i] = 0
  /\ SumFunction(reapply) <= amount
  /\ \A k \in Key :
       LET back == OfBill(b) \cap OfPayment(k)
       IN SumFunctionOnSet(reapply, back) <= payment[k].open + Total(back)

(* Mutant of Moved: an application moves with the amount it had. *)
MovedWhole(b, reapply, r) ==
  [i \in Application |->
     LET old == <<i[1], b, i[3]>> IN
     IF i[2] = r /\ old \in OfBill(b) /\ reapply[old] > 0 THEN application[old]
     ELSE Ended(OfBill(b))[i]]

(* The bill's applications end, and those moved are made anew between the  *)
(* same payments and the replacement.                                      *)
Moved(b, reapply, r) ==
  [i \in Application |->
     LET old == <<i[1], b, i[3]>> IN
     IF i[2] = r /\ old \in OfBill(b) /\ reapply[old] > 0
     THEN [status |-> "applied", amount |-> reapply[old]]
     ELSE Ended(OfBill(b))[i]]

(* correctPostedVendorBill by a replacement.                               *)
CorrectBill(b, r, amount, reapply) ==
  LET ending == OfBill(b)
      moved == {i \in ending : reapply[i] > 0}
      refunded == [k \in Key |-> Released(payment[k], ending \cap OfPayment(k))]
      again == [k \in Key |-> moved \cap OfPayment(k)]
  IN /\ Live(bill[b])
     /\ ~Exists(bill[r])
     /\ Reapplicable(b, amount, reapply)
     /\ bill' = [bill EXCEPT
          ![b] = Voided(Released(@, ending)),
          ![r] = Rebalance(Replacement(b, amount), amount - SumFunction(reapply), Cardinality(moved))]
     /\ payment' = [k \in Key |->
          Rebalance(refunded[k], refunded[k].open - SumFunctionOnSet(reapply, again[k]),
                    Cardinality(again[k]))]
     /\ application' = Moved(b, reapply, r)
     /\ WithinBounds
     /\ UNCHANGED <<instruction, retired, holdKey, reviewed>>

(* correctPostedVendorBill without a replacement: all is released. *)
CorrectByVoid(b) ==
  /\ Live(bill[b])
  /\ bill' = [bill EXCEPT ![b] = Voided(Released(@, OfBill(b)))]
  /\ payment' = [k \in Key |-> Released(payment[k], OfBill(b) \cap OfPayment(k))]
  /\ application' = Ended(OfBill(b))
  /\ WithinBounds
  /\ UNCHANGED <<instruction, retired, holdKey, reviewed>>
-----------------------------------------------------------------------------
BillCommand ==
  \E b \in Bill :
    \/ \E amount \in DocumentAmount : CreateVendorBill(b, amount)
    \/ \E h \in HoldKey, on \in BOOLEAN : SetPaymentHold(h, b, on)
    \/ VoidBill(b)
    \/ CorrectByVoid(b)
    \/ \E r \in Bill, amount \in DocumentAmount :
         \/ ReplaceBill(b, r, amount)
         \/ \E reapply \in [OfBill(b) -> 0..MaxAmount] : CorrectBill(b, r, amount, reapply)

PaymentCommand ==
  \E k \in Key :
    \/ \E amount \in DocumentAmount : RecordPayment(k, amount)
    \/ \E amounts \in Plans : Schedule(k, WithVersions(amounts))
    \/ \E amounts \in Plans : RecordAndApply(k, WithVersions(amounts))
    \/ Clear(k)
    \/ Cancel(k)
    \/ RetireRecording(k)
    \/ \E b \in Bill, amount \in Amount : Apply(k, b, amount)
    \/ VoidPayment(k)
    \/ VoidAndUnapply(k)

Next ==
  \/ BillCommand
  \/ PaymentCommand
  \/ \E h \in HoldKey : RetirePaymentHold(h)
  \/ \E i \in Application : EndApplication(i)

Spec == Init /\ [][Next]_vars
-----------------------------------------------------------------------------
Balanced(document, applications) ==
  CASE document.status = "none" -> applications = {}
    [] document.status = "voided" -> applications = {} /\ document.open = 0
    [] OTHER -> document.open + Total(applications) = document.original

(* What is open of a bill or a payment is what its active applications     *)
(* leave of it, and nothing is applied from or to a voided document,       *)
(* whichever of the commands ended, moved or compensated the applications. *)
BalancesMatchApplications ==
  /\ \A b \in Bill : Balanced(bill[b], OfBill(b))
  /\ \A k \in Key : Balanced(payment[k], OfPayment(k))

(* The instruction of a payment tells the truth about it: cleared while it *)
(* is posted, compensated only when it is voided; a retired key has no     *)
(* payment.                                                                *)
InstructionAgreesWithPayment ==
  \A k \in Key :
    /\ instruction[k].status = "cleared" => Live(payment[k])
    /\ instruction[k].version = 3 => payment[k].status = "voided"
    /\ k \in retired => ~Exists(payment[k]) /\ instruction[k].status = "none"

(* A scheduled payment is posted only on bills that are as they were when  *)
(* it was scheduled: not voided, corrected, paid by somebody else, or put  *)
(* on hold, even if the hold is gone again; and no command applies a       *)
(* payment to a bill on hold.                                              *)
PaysReviewedBills ==
  [][/\ \A k \in Key :
          instruction[k].status = "scheduled" /\ instruction[k]'.status = "cleared"
          => \A b \in DOMAIN instruction[k].plan : bill[b] = reviewed[k][b]
     /\ \A i \in Application :
          application[i].status # "applied" /\ application[i]'.status = "applied"
          => ~bill[i[2]]'.hold]_vars

(* Each key as a client sees it that has lost an answer. *)
Outcome(key) ==
  LET recorded == IF key \in Key THEN ~Unrecorded(key) ELSE holdKey[key] = "changed"
      ended == IF key \in Key THEN key \in retired ELSE holdKey[key] = "retired"
  IN IF recorded THEN IF ended THEN "both" ELSE "recorded"
     ELSE IF ended THEN "retired" ELSE "none"

Outcomes == INSTANCE CommandOutcomes
  WITH Command <- Key \cup HoldKey,
       outcome <- [key \in Key \cup HoldKey |-> Outcome(key)]

(* A payment or hold command that a client retires because its answer was  *)
(* lost is either recorded or retired, whichever comes first, for good.    *)
OutcomesAreFinal == Outcomes!OutcomeSpec
=============================================================================
