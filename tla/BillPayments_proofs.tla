------------------------ MODULE BillPayments_proofs ------------------------
(* For any number of bills, payments and hold commands, and any amounts:   *)
(* a scheduled payment pays only the bills as they were reviewed, and a    *)
(* command's outcome is final, for which versions and statuses suffice;    *)
(* then, with sums, what is open of a bill or payment is what its active   *)
(* applications leave of it.                                               *)
EXTENDS BillPayments, SumTheorems, TLAPS

Fields == {"status", "original", "open", "version", "hold"}
Shaped(document) ==
  /\ DOMAIN document = Fields
  /\ document.version \in Nat
  /\ ~Exists(document) => document.version = 0

(* What an update of a document must do: change its version whenever it    *)
(* changes anything, and never make it disappear.                          *)
Advances(old, new) ==
  /\ Shaped(new)
  /\ new = old \/ new.version > old.version
  /\ Exists(old) => Exists(new)

LEMMA RebalanceAdvances ==
  ASSUME NEW document, Shaped(document), NEW open, NEW n \in Nat
  PROVE  /\ Advances(document, Rebalance(document, open, n))
         /\ Rebalance(document, open, n).hold = document.hold
BY DEF Shaped, Fields, Advances, Rebalance, Exists

LEMMA VoidedAdvances ==
  ASSUME NEW document, Shaped(document)
  PROVE  Advances(document, Voided(document))
BY DEF Shaped, Fields, Advances, Voided, Exists

LEMMA ChangedHoldAdvances ==
  ASSUME NEW document, Shaped(document), Exists(document), NEW on
  PROVE  Advances(document, ChangedHold(document, on))
BY DEF Shaped, Fields, Advances, ChangedHold, Exists

LEMMA NewDocumentShaped ==
  ASSUME NEW amount
  PROVE  /\ Shaped(NewDocument(amount))
         /\ NewDocument(amount).version = 1
         /\ Exists(NewDocument(amount))
         /\ ~NewDocument(amount).hold
BY DEF NewDocument, Shaped, Fields, Exists

LEMMA AdvancesTransitive ==
  ASSUME NEW a, NEW b, NEW c, Shaped(a), Advances(a, b), Advances(b, c)
  PROVE  Advances(a, c)
BY DEF Advances, Shaped

LEMMA ApplicationFinite == IsFiniteSet(Application)
<1> DEFINE Origin == {"plan", "direct"}
           Pairs == (Key \X Bill) \X Origin
           Flat == [p \in Pairs |-> <<p[1][1], p[1][2], p[2]>>]
<1>1. IsFiniteSet(Origin)
  <2>1. IsFiniteSet({"plan"})
    BY FS_Singleton
  <2>2. Origin = {"plan"} \cup {"direct"}
    OBVIOUS
  <2>. HIDE DEF Origin
  <2>. QED  BY <2>1, <2>2, FS_AddElement
<1>2. IsFiniteSet(Key \X Bill)
  BY FS_Product, FiniteAssumption
<1>3. IsFiniteSet(Pairs)
  <2>. HIDE DEF Origin
  <2>. QED  BY <1>1, <1>2, FS_Product
<1>4. Flat \in [Pairs -> Application]
  BY DEF Application
<1>5. ASSUME NEW i \in Application
      PROVE  \E p \in Pairs : Flat[p] = i
  <2>1. PICK k \in Key, b \in Bill, o \in Origin : i = <<k, b, o>>
    BY <1>5 DEF Application
  <2>2. <<<<k, b>>, o>> \in Pairs /\ Flat[<<<<k, b>>, o>>] = i
    BY <2>1
  <2>. QED  BY <2>2
<1>6. Flat \in Surjection(Pairs, Application)
  <2>. HIDE DEF Flat, Pairs
  <2>. QED  BY <1>4, <1>5 DEF Surjection
<1>. HIDE DEF Flat, Pairs
<1>. QED  BY <1>3, <1>6, FS_Surjection

LEMMA SetsOfApplications ==
  ASSUME NEW S, S \subseteq Application
  PROVE  Cardinality(S) \in Nat
BY ApplicationFinite, FS_Subset, FS_CardinalityType

LEMMA PlansFinite ==
  ASSUME NEW S, S \subseteq Bill
  PROVE  Cardinality(S) \in Nat
BY FiniteAssumption, FS_Subset, FS_CardinalityType

-----------------------------------------------------------------------------
InstructionFields == {"status", "version", "plan"}

Typed ==
  /\ DOMAIN bill = Bill /\ \A b \in Bill : Shaped(bill[b])
  /\ DOMAIN payment = Key /\ \A k \in Key : Shaped(payment[k])
  /\ DOMAIN instruction = Key
  /\ \A k \in Key :
       /\ DOMAIN instruction[k] = InstructionFields
       /\ DOMAIN instruction[k].plan \subseteq Bill
  /\ DOMAIN application = Application
  /\ DOMAIN holdKey = HoldKey
  /\ DOMAIN reviewed = Key
  /\ retired \subseteq Key

(* A bill's version tells that it is as it was when the plan was made. *)
ReviewIsCurrent ==
  \A k \in Key : instruction[k].status = "scheduled" =>
    \A b \in DOMAIN instruction[k].plan :
      /\ instruction[k].plan[b].version = reviewed[k][b].version
      /\ reviewed[k][b].version \in Nat
      /\ \/ bill[b] = reviewed[k][b]
         \/ bill[b].version > reviewed[k][b].version

AppliedExists ==
  \A i \in Application :
    application[i].status = "applied" => Exists(payment[i[1]])

RetiredIsUnrecorded == \A k \in retired : Unrecorded(k)

IInv == Typed /\ ReviewIsCurrent /\ AppliedExists /\ RetiredIsUnrecorded

-----------------------------------------------------------------------------
BillsAdvance ==
  DOMAIN bill' = Bill /\ \A b \in Bill : Advances(bill[b], bill'[b])

PaymentsStay ==
  /\ DOMAIN payment' = Key
  /\ \A k \in Key :
       Shaped(payment'[k]) /\ (Exists(payment[k]) => Exists(payment'[k]))

(* Except when it is recorded, a payment that does not exist stays so. *)
NoPaymentAppears ==
  \A k \in Key : ~Exists(payment[k]) => payment'[k] = payment[k]

LEMMA Unchanged ==
  ASSUME NEW document, Shaped(document)
  PROVE  Advances(document, document)
BY DEF Advances

LEMMA OfPaymentFacts ==
  ASSUME Typed, AppliedExists, NEW k \in Key
  PROVE  /\ OfPayment(k) \subseteq Application
         /\ ~Exists(payment[k]) => OfPayment(k) = {}
BY DEF OfPayment, Applied, Application, AppliedExists

LEMMA OfBillFacts ==
  ASSUME NEW b \in Bill
  PROVE  OfBill(b) \subseteq Application
BY DEF OfBill, Applied, Application

LEMMA ReleasedAdvances ==
  ASSUME NEW document, Shaped(document), NEW S, S \subseteq Application
  PROVE  /\ Advances(document, Released(document, S))
         /\ S = {} => Released(document, S) = document
<1>1. Cardinality(S) \in Nat
  BY SetsOfApplications
<1>2. S = {} => Cardinality(S) = 0
  BY FS_EmptySet
<1>. QED  BY <1>1, <1>2, RebalanceAdvances, Zenon DEF Released, Rebalance

LEMMA OneBillAdvances ==
  ASSUME Typed, NEW b \in Bill, NEW new, Advances(bill[b], new),
         bill' = [bill EXCEPT ![b] = new]
  PROVE  BillsAdvance
BY Unchanged DEF Typed, BillsAdvance

LEMMA OnePaymentStays ==
  ASSUME Typed, NEW k \in Key, NEW new, Shaped(new),
         Exists(payment[k]) => Exists(new), payment' = [payment EXCEPT ![k] = new]
  PROVE  PaymentsStay
BY DEF Typed, PaymentsStay

LEMMA NewBillAdvances ==
  ASSUME NEW document, Shaped(document), ~Exists(document), NEW amount
  PROVE  Advances(document, NewDocument(amount))
BY NewDocumentShaped DEF Advances, Shaped

Documents == BillsAdvance /\ PaymentsStay /\ NoPaymentAppears

LEMMA PaymentsUntouched ==
  ASSUME Typed, payment' = payment
  PROVE  PaymentsStay /\ NoPaymentAppears
BY DEF Typed, PaymentsStay, NoPaymentAppears

LEMMA BillsUntouched ==
  ASSUME Typed, bill' = bill
  PROVE  BillsAdvance
BY Unchanged DEF Typed, BillsAdvance

(* Each command on bills, with documents only. *)
LEMMA CreateVendorBillAdvances ==
  ASSUME Typed, NEW b \in Bill, NEW amount, CreateVendorBill(b, amount)
  PROVE  Documents
<1>1. Advances(bill[b], NewDocument(amount))
  BY NewBillAdvances DEF Typed, CreateVendorBill
<1>. QED
  BY <1>1, OneBillAdvances, PaymentsUntouched DEF CreateVendorBill, Documents

LEMMA SetPaymentHoldAdvances ==
  ASSUME Typed, NEW h, NEW b \in Bill, NEW on, SetPaymentHold(h, b, on)
  PROVE  Documents
<1>1. Advances(bill[b], ChangedHold(bill[b], on))
  BY ChangedHoldAdvances DEF Typed, SetPaymentHold, Outstanding, Exists
<1>2. bill' = [bill EXCEPT ![b] = ChangedHold(bill[b], on)]
  BY DEF SetPaymentHold
<1>. QED
  BY <1>1, <1>2, OneBillAdvances, PaymentsUntouched DEF SetPaymentHold, Documents

LEMMA VoidBillAdvances ==
  ASSUME Typed, NEW b \in Bill, VoidBill(b)
  PROVE  Documents
<1>1. Advances(bill[b], Voided(bill[b]))
  BY VoidedAdvances DEF Typed, VoidBill, Untouched, Exists
<1>2. bill' = [bill EXCEPT ![b] = Voided(bill[b])]
  BY DEF VoidBill
<1>. QED
  BY <1>1, <1>2, OneBillAdvances, PaymentsUntouched DEF VoidBill, Documents

LEMMA ReplaceBillAdvances ==
  ASSUME Typed, NEW b \in Bill, NEW r \in Bill, NEW amount, ReplaceBill(b, r, amount)
  PROVE  Documents
<1>1. /\ Advances(bill[b], Voided(bill[b]))
      /\ Advances(bill[r], NewDocument(amount))
      /\ b # r
  BY VoidedAdvances, NewBillAdvances DEF Typed, ReplaceBill, Untouched, Exists
<1>2. bill' = [bill EXCEPT ![b] = Voided(bill[b]), ![r] = NewDocument(amount)]
  BY <1>1 DEF ReplaceBill
<1>. QED
  BY <1>1, <1>2, Unchanged, PaymentsUntouched DEF ReplaceBill, Documents, BillsAdvance, Typed

LEMMA ReleasePayments ==
  ASSUME Typed, AppliedExists, NEW b \in Bill, NEW k \in Key
  PROVE  LET S == OfBill(b) \cap OfPayment(k) IN
         /\ Advances(payment[k], Released(payment[k], S))
         /\ ~Exists(payment[k]) => Released(payment[k], S) = payment[k]
<1>1. OfBill(b) \cap OfPayment(k) \subseteq Application
  BY OfBillFacts
<1>2. ~Exists(payment[k]) => OfBill(b) \cap OfPayment(k) = {}
  BY OfPaymentFacts
<1>. QED  BY <1>1, <1>2, ReleasedAdvances DEF Typed

LEMMA VoidReleased ==
  ASSUME NEW document, Shaped(document), NEW S, S \subseteq Application
  PROVE  Advances(document, Voided(Released(document, S)))
<1>1. Advances(document, Released(document, S))
  BY ReleasedAdvances
<1>2. Advances(Released(document, S), Voided(Released(document, S)))
  BY <1>1, VoidedAdvances DEF Advances
<1>. QED  BY <1>1, <1>2, AdvancesTransitive

LEMMA CorrectByVoidAdvances ==
  ASSUME Typed, AppliedExists, NEW b \in Bill, CorrectByVoid(b)
  PROVE  Documents
<1>1. Advances(bill[b], Voided(Released(bill[b], OfBill(b))))
  BY OfBillFacts, VoidReleased DEF Typed
<1>2. BillsAdvance
  BY <1>1, OneBillAdvances DEF CorrectByVoid
<1>3. payment' = [k \in Key |-> Released(payment[k], OfBill(b) \cap OfPayment(k))]
  BY DEF CorrectByVoid
<1>. QED
  BY <1>2, <1>3, ReleasePayments DEF Documents, PaymentsStay, NoPaymentAppears, Advances

LEMMA ReplacementShaped ==
  ASSUME NEW b \in Bill, NEW amount
  PROVE  /\ Shaped(Replacement(b, amount)) /\ Exists(Replacement(b, amount))
         /\ Replacement(b, amount).version >= 1
         /\ ~bill[b].hold => ~Replacement(b, amount).hold
<1>1. Advances(NewDocument(amount), ChangedHold(NewDocument(amount), TRUE))
  BY NewDocumentShaped, ChangedHoldAdvances
<1>2. CASE bill[b].hold
  <2>1. Replacement(b, amount) = ChangedHold(NewDocument(amount), TRUE)
    BY <1>2 DEF Replacement
  <2>2. NewDocument(amount).version = 1 /\ Exists(NewDocument(amount))
    BY NewDocumentShaped
  <2>3. /\ Shaped(Replacement(b, amount)) /\ Exists(Replacement(b, amount))
        /\ \/ Replacement(b, amount) = NewDocument(amount)
           \/ Replacement(b, amount).version > 1
    BY <1>1, <2>1, <2>2 DEF Advances
  <2>4. Replacement(b, amount).version \in Nat
    BY <2>3 DEF Shaped
  <2>. QED  BY <1>2, <2>2, <2>3, <2>4
<1>3. CASE ~bill[b].hold
  BY <1>3, NewDocumentShaped DEF Replacement
<1>. QED  BY <1>2, <1>3

(* What a correction makes of the replacement and of the payments. *)
LEMMA CorrectBillAdvances ==
  ASSUME Typed, AppliedExists, NEW b \in Bill, NEW r \in Bill, NEW amount, NEW reapply,
         CorrectBill(b, r, amount, reapply)
  PROVE  Documents
<1> DEFINE ending == OfBill(b)
           moved == {i \in ending : reapply[i] > 0}
           refunded == [k \in Key |-> Released(payment[k], ending \cap OfPayment(k))]
           again == [k \in Key |-> moved \cap OfPayment(k)]
           opened == amount - SumFunction(reapply)
           left == [k \in Key |-> refunded[k].open - SumFunctionOnSet(reapply, again[k])]
           successor == Rebalance(Replacement(b, amount), opened, Cardinality(moved))
<1>1. /\ Live(bill[b]) /\ ~Exists(bill[r])
      /\ bill' = [bill EXCEPT ![b] = Voided(Released(bill[b], ending)), ![r] = successor]
      /\ payment' = [k \in Key |-> Rebalance(refunded[k], left[k], Cardinality(again[k]))]
  BY DEF CorrectBill, Live, Exists
<1>2. b # r
  BY <1>1 DEF Live, Exists
<1>3. moved \subseteq Application
  BY OfBillFacts
<1>4. Advances(bill[b], Voided(Released(bill[b], ending)))
  BY OfBillFacts, VoidReleased DEF Typed
<1>5. Advances(Replacement(b, amount), successor)
  <2>. HIDE DEF moved, opened
  <2>. QED  BY <1>3, SetsOfApplications, ReplacementShaped, RebalanceAdvances
<1>6. Advances(bill[r], successor)
  <2>. HIDE DEF successor
  <2>1. bill[r].version = 0 /\ Shaped(bill[r])
    BY <1>1 DEF Typed, Shaped
  <2>2. successor.version >= 1 /\ Shaped(successor)
    BY <1>5, ReplacementShaped DEF Advances, Shaped
  <2>. QED  BY <1>1, <2>1, <2>2 DEF Advances, Shaped
<1>7. BillsAdvance
  <2>. HIDE DEF ending, successor
  <2>. QED  BY <1>1, <1>2, <1>4, <1>6, Unchanged DEF Typed, BillsAdvance
<1>8. ASSUME NEW k \in Key
      PROVE  /\ Advances(payment[k], payment'[k])
             /\ ~Exists(payment[k]) => payment'[k] = payment[k]
  <2>1. /\ Advances(payment[k], refunded[k])
        /\ ~Exists(payment[k]) => refunded[k] = payment[k]
    BY ReleasePayments
  <2>2. again[k] \subseteq Application
    BY <1>3
  <2>3. Cardinality(again[k]) \in Nat
    <3>. HIDE DEF again
    <3>. QED  BY <2>2, SetsOfApplications
  <2>4. ~Exists(payment[k]) => Cardinality(again[k]) = 0
    BY OfPaymentFacts, FS_EmptySet
  <2>. HIDE DEF refunded, again, left
  <2>5. Advances(refunded[k], Rebalance(refunded[k], left[k], Cardinality(again[k])))
    BY <2>1, <2>3, RebalanceAdvances DEF Advances
  <2>6. payment'[k] = Rebalance(refunded[k], left[k], Cardinality(again[k]))
    BY <1>1
  <2>7. Advances(payment[k], payment'[k])
    BY <2>1, <2>5, <2>6, AdvancesTransitive DEF Typed
  <2>8. ~Exists(payment[k]) => payment'[k] = payment[k]
    BY <2>1, <2>4, <2>6 DEF Rebalance
  <2>. QED  BY <2>7, <2>8
<1>9. DOMAIN payment' = Key
  BY <1>1
<1>. QED
  BY <1>7, <1>8, <1>9 DEF Documents, PaymentsStay, NoPaymentAppears, Advances

LEMMA BillCommandsAdvance ==
  ASSUME Typed, AppliedExists, BillCommand
  PROVE  Documents
BY CreateVendorBillAdvances, SetPaymentHoldAdvances, VoidBillAdvances,
   ReplaceBillAdvances, CorrectByVoidAdvances, CorrectBillAdvances DEF BillCommand

-----------------------------------------------------------------------------
(* Each command on payments, and the end of an application. *)
LEMMA RecordPaymentDocuments ==
  ASSUME Typed, NEW k \in Key, NEW amount, RecordPayment(k, amount)
  PROVE  BillsAdvance /\ PaymentsStay
BY NewDocumentShaped, OnePaymentStays, BillsUntouched DEF RecordPayment

LEMMA MakePaymentDocuments ==
  ASSUME Typed, NEW k \in Key, NEW plan, NEW version, DOMAIN plan \subseteq Bill,
         MakePayment(k, plan, version)
  PROVE  /\ BillsAdvance /\ PaymentsStay /\ Exists(payment'[k])
         /\ \A j \in Key \ {k} : payment'[j] = payment[j]
         /\ \A b \in Bill : bill'[b].hold = bill[b].hold
<1> DEFINE paid == Rebalance(NewDocument(PlanTotal(plan)), 0, Cardinality(DOMAIN plan))
           left == [b \in Bill |-> bill[b].open - plan[b].amount]
<1>1. Cardinality(DOMAIN plan) \in Nat
  BY PlansFinite
<1>2. Advances(NewDocument(PlanTotal(plan)), paid)
  BY <1>1, NewDocumentShaped, RebalanceAdvances
<1>3. Shaped(paid) /\ Exists(paid)
  <2>. HIDE DEF paid
  <2>. QED  BY <1>2, NewDocumentShaped DEF Advances
<1>4. payment' = [payment EXCEPT ![k] = paid]
  BY DEF MakePayment
<1>5. ASSUME NEW b \in Bill
      PROVE  Advances(bill[b], bill'[b]) /\ bill'[b].hold = bill[b].hold
  <2>1. CASE b \in DOMAIN plan
    <3>1. bill'[b] = Rebalance(bill[b], left[b], 1)
      BY <2>1 DEF MakePayment
    <3>. HIDE DEF left
    <3>. QED  BY <3>1, RebalanceAdvances DEF Typed
  <2>2. CASE b \notin DOMAIN plan
    BY <2>2, Unchanged DEF MakePayment, Typed
  <2>. QED  BY <2>1, <2>2
<1>6. DOMAIN bill' = Bill
  BY DEF MakePayment
<1>. HIDE DEF paid
<1>7. PaymentsStay
  BY <1>3, <1>4, OnePaymentStays
<1>8. Exists(payment'[k]) /\ \A j \in Key \ {k} : payment'[j] = payment[j]
  BY <1>3, <1>4 DEF Typed
<1>. QED  BY <1>5, <1>6, <1>7, <1>8 DEF BillsAdvance

LEMMA ApplyDocuments ==
  ASSUME Typed, NEW k \in Key, NEW b \in Bill, NEW amount, Apply(k, b, amount)
  PROVE  /\ Documents
         /\ bill'[b].hold = bill[b].hold
<1> DEFINE newBill == Rebalance(bill[b], bill[b].open - amount, 1)
           newPayment == Rebalance(payment[k], payment[k].open - amount, 1)
<1>1. /\ Advances(bill[b], newBill) /\ newBill.hold = bill[b].hold
      /\ Advances(payment[k], newPayment)
  BY RebalanceAdvances DEF Typed
<1>2. /\ bill' = [bill EXCEPT ![b] = newBill]
      /\ payment' = [payment EXCEPT ![k] = newPayment]
      /\ Exists(payment[k])
  BY DEF Apply
<1>. HIDE DEF newBill, newPayment
<1>3. BillsAdvance /\ PaymentsStay
  BY <1>1, <1>2, OneBillAdvances, OnePaymentStays DEF Advances
<1>4. NoPaymentAppears
  BY <1>2 DEF NoPaymentAppears, Typed
<1>5. bill'[b] = newBill
  BY <1>2 DEF Typed
<1>. QED  BY <1>1, <1>3, <1>4, <1>5 DEF Documents

LEMMA EndApplicationDocuments ==
  ASSUME Typed, AppliedExists, NEW i \in Application, EndApplication(i)
  PROVE  Documents
<1> DEFINE newBill == Released(bill[i[2]], {i})
           newPayment == Released(payment[i[1]], {i})
<1>1. i[1] \in Key /\ i[2] \in Bill
  BY DEF Application
<1>2. Advances(bill[i[2]], newBill) /\ Advances(payment[i[1]], newPayment)
  BY <1>1, ReleasedAdvances DEF Typed
<1>3. /\ bill' = [bill EXCEPT ![i[2]] = newBill]
      /\ payment' = [payment EXCEPT ![i[1]] = newPayment]
      /\ Exists(payment[i[1]])
  BY DEF EndApplication, AppliedExists
<1>. HIDE DEF newBill, newPayment
<1>4. BillsAdvance /\ PaymentsStay
  BY <1>1, <1>2, <1>3, OneBillAdvances, OnePaymentStays DEF Advances
<1>5. NoPaymentAppears
  BY <1>1, <1>3 DEF NoPaymentAppears, Typed
<1>. QED  BY <1>4, <1>5 DEF Documents

LEMMA VoidPaymentDocuments ==
  ASSUME Typed, NEW k \in Key, VoidPayment(k)
  PROVE  Documents
<1>1. Advances(payment[k], Voided(payment[k]))
  BY VoidedAdvances DEF Typed
<1>2. /\ payment' = [payment EXCEPT ![k] = Voided(payment[k])]
      /\ bill' = bill /\ Exists(payment[k])
  BY DEF VoidPayment, MayVoid, Untouched, Exists
<1>3. PaymentsStay
  BY <1>1, <1>2, OnePaymentStays DEF Advances
<1>4. NoPaymentAppears
  BY <1>2 DEF NoPaymentAppears, Typed
<1>. QED  BY <1>2, <1>3, <1>4, BillsUntouched DEF Documents

LEMMA VoidAndUnapplyDocuments ==
  ASSUME Typed, AppliedExists, NEW k \in Key, VoidAndUnapply(k)
  PROVE  Documents
<1> DEFINE ending == OfPayment(k)
<1>1. ending \subseteq Application
  BY OfPaymentFacts
<1>2. /\ payment' = [payment EXCEPT ![k] = Voided(Released(payment[k], ending))]
      /\ bill' = [b \in Bill |-> Released(bill[b], ending \cap OfBill(b))]
      /\ Exists(payment[k])
  BY DEF VoidAndUnapply, Live, Exists
<1>. HIDE DEF ending
<1>3. Advances(payment[k], Voided(Released(payment[k], ending)))
  BY <1>1, VoidReleased DEF Typed
<1>4. PaymentsStay
  BY <1>2, <1>3, OnePaymentStays DEF Advances
<1>5. ASSUME NEW b \in Bill
      PROVE  Advances(bill[b], bill'[b])
  <2>1. ending \cap OfBill(b) \subseteq Application
    BY <1>1
  <2>. QED  BY <1>2, <2>1, ReleasedAdvances DEF Typed
<1>6. BillsAdvance
  BY <1>2, <1>5 DEF BillsAdvance
<1>7. NoPaymentAppears
  BY <1>2 DEF NoPaymentAppears, Typed
<1>. QED  BY <1>4, <1>6, <1>7 DEF Documents

-----------------------------------------------------------------------------
(* What most commands do to the rest of the state. *)
PlansKept ==
  /\ DOMAIN instruction' = Key /\ DOMAIN reviewed' = Key
  /\ \A k \in Key :
       /\ DOMAIN instruction'[k] = InstructionFields
       /\ DOMAIN instruction'[k].plan \subseteq Bill
       /\ instruction'[k].status = "scheduled" =>
            instruction'[k] = instruction[k] /\ reviewed'[k] = reviewed[k]

InstructionsKept ==
  /\ PlansKept
  /\ \A k \in Key : instruction'[k].status = "none" <=> instruction[k].status = "none"

ApplicationsKept ==
  /\ DOMAIN application' = Application
  /\ \A i \in Application : application'[i].status = "applied" =>
       \/ Exists(payment'[i[1]])
       \/ \E j \in Application : j[1] = i[1] /\ application[j].status = "applied"

KeysKept == retired' = retired /\ holdKey' = holdKey

RecordsKept == \A k \in Key : Unrecorded(k)' <=> Unrecorded(k)

LEMMA AppliedExistsKept ==
  ASSUME AppliedExists, PaymentsStay, ApplicationsKept
  PROVE  AppliedExists'
<1> SUFFICES ASSUME NEW i \in Application, application'[i].status = "applied"
             PROVE  Exists(payment'[i[1]])
  BY DEF AppliedExists
<1>1. CASE Exists(payment'[i[1]])
  BY <1>1
<1>2. ASSUME NEW j \in Application, j[1] = i[1], application[j].status = "applied"
      PROVE  Exists(payment'[i[1]])
  <2>1. i[1] \in Key
    BY DEF Application
  <2>. QED  BY <1>2, <2>1 DEF AppliedExists, PaymentsStay
<1>. QED  BY <1>1, <1>2 DEF ApplicationsKept

LEMMA ReviewIsCurrentKept ==
  ASSUME Typed, ReviewIsCurrent, BillsAdvance, PlansKept
  PROVE  ReviewIsCurrent'
<1> SUFFICES ASSUME NEW k \in Key, instruction'[k].status = "scheduled",
                    NEW b \in DOMAIN instruction'[k].plan
             PROVE  /\ instruction'[k].plan[b].version = reviewed'[k][b].version
                    /\ reviewed'[k][b].version \in Nat
                    /\ \/ bill'[b] = reviewed'[k][b]
                       \/ bill'[b].version > reviewed'[k][b].version
  BY DEF ReviewIsCurrent
<1>1. instruction'[k] = instruction[k] /\ reviewed'[k] = reviewed[k]
  BY DEF PlansKept
<1>2. b \in Bill /\ Advances(bill[b], bill'[b])
  BY <1>1 DEF Typed, BillsAdvance
<1>3. /\ instruction[k].plan[b].version = reviewed[k][b].version
      /\ reviewed[k][b].version \in Nat
      /\ bill[b] = reviewed[k][b] \/ bill[b].version > reviewed[k][b].version
  BY <1>1 DEF ReviewIsCurrent
<1>4. bill[b].version \in Nat /\ bill'[b].version \in Nat
  BY <1>2 DEF Typed, Shaped, Advances
<1>. QED  BY <1>1, <1>2, <1>3, <1>4 DEF Advances

LEMMA TypedKept ==
  ASSUME Typed, BillsAdvance, PaymentsStay, PlansKept, ApplicationsKept, KeysKept
  PROVE  Typed'
BY DEF Typed, BillsAdvance, PaymentsStay, PlansKept, ApplicationsKept, KeysKept, Advances

LEMMA RecordsAreKept ==
  ASSUME Documents, InstructionsKept
  PROVE  RecordsKept
BY DEF Documents, PaymentsStay, NoPaymentAppears, InstructionsKept, RecordsKept, Unrecorded

LEMMA QuietStep ==
  ASSUME IInv, Documents, InstructionsKept, ApplicationsKept, KeysKept
  PROVE  IInv' /\ RecordsKept
<1>1. RecordsKept
  BY RecordsAreKept
<1>2. RetiredIsUnrecorded'
  BY <1>1 DEF RecordsKept, RetiredIsUnrecorded, KeysKept, IInv, Typed
<1>. QED
  BY <1>1, <1>2, TypedKept, ReviewIsCurrentKept, AppliedExistsKept
     DEF IInv, Documents, InstructionsKept

LEMMA InstructionsUnchanged ==
  ASSUME Typed, UNCHANGED <<instruction, reviewed>>
  PROVE  InstructionsKept
BY DEF Typed, InstructionsKept, PlansKept

LEMMA ApplicationsEnd ==
  ASSUME Typed, NEW S, application' = Ended(S)
  PROVE  /\ ApplicationsKept
         /\ \A i \in Application :
              application'[i].status = "applied" => application[i].status = "applied"
BY DEF Typed, ApplicationsKept, Ended

LEMMA ApplicationsUnchanged ==
  ASSUME Typed, UNCHANGED application
  PROVE  ApplicationsKept
BY DEF Typed, ApplicationsKept

LEMMA InstructionCompensated ==
  ASSUME Typed, NEW k \in Key, instruction[k].status \in {"none", "cleared"},
         instruction' = [instruction EXCEPT ![k] = Compensated(@)], UNCHANGED reviewed
  PROVE  /\ InstructionsKept
         /\ \A j \in Key : instruction[j].status = "scheduled" =>
              instruction'[j].status = "scheduled"
BY DEF Typed, InstructionsKept, PlansKept, Compensated, InstructionFields

-----------------------------------------------------------------------------
(* What PaysReviewedBills asks of a step. *)
ClearsAsReviewed ==
  \A k \in Key :
    instruction[k].status = "scheduled" /\ instruction'[k].status = "cleared"
    => \A b \in DOMAIN instruction[k].plan : bill[b] = reviewed[k][b]

AppliesToUnheld ==
  \A i \in Application :
    application[i].status # "applied" /\ application'[i].status = "applied"
    => ~bill'[i[2]].hold

(* What the refinement asks of a step. *)
OutcomeMap == [key \in Key \cup HoldKey |-> Outcome(key)]
OutcomeStep == Outcomes!OutcomeNext \/ UNCHANGED OutcomeMap

Good == IInv' /\ ClearsAsReviewed /\ AppliesToUnheld /\ OutcomeStep

LEMMA OutcomesStay ==
  ASSUME RecordsKept, KeysKept
  PROVE  OutcomeStep
<1>1. ASSUME NEW key \in Key \cup HoldKey
      PROVE  Outcome(key)' = Outcome(key)
  BY <1>1 DEF Outcome, RecordsKept, KeysKept
<1>. QED  BY <1>1 DEF OutcomeStep, OutcomeMap

LEMMA OutcomeSettles ==
  ASSUME NEW key \in Key \cup HoldKey, NEW result \in {"recorded", "retired"},
         Outcome(key) = "none", Outcome(key)' = result,
         \A other \in (Key \cup HoldKey) \ {key} : Outcome(other)' = Outcome(other)
  PROVE  OutcomeStep
<1>1. OutcomeMap' = [OutcomeMap EXCEPT ![key] = result]
  BY DEF OutcomeMap
<1>2. OutcomeMap[key] = "none"
  BY DEF OutcomeMap
<1>3. Outcomes!Settle(key, result)
  BY <1>1, <1>2 DEF Outcomes!Settle, OutcomeMap
<1>. QED  BY <1>3 DEF OutcomeStep, Outcomes!OutcomeNext

(* A command that keeps instructions and adds no application. *)
LEMMA QuietStepIsGood ==
  ASSUME IInv, Documents, InstructionsKept, ApplicationsKept, KeysKept,
         ClearsAsReviewed, AppliesToUnheld
  PROVE  Good
BY QuietStep, OutcomesStay DEF Good

-----------------------------------------------------------------------------
LEMMA CorrectBillApplications ==
  ASSUME Typed, NEW b \in Bill, NEW r \in Bill, NEW amount, NEW reapply,
         CorrectBill(b, r, amount, reapply)
  PROVE  ApplicationsKept /\ AppliesToUnheld
<1>1. application' = Moved(b, reapply, r)
  BY DEF CorrectBill
<1>2. DOMAIN application' = Application
  BY <1>1 DEF Moved
<1>3. ASSUME NEW i \in Application, application'[i].status = "applied"
      PROVE  \/ application[i].status = "applied"
             \/ /\ i[2] = r /\ <<i[1], b, i[3]>> \in OfBill(b)
                /\ reapply[<<i[1], b, i[3]>>] > 0
  BY <1>1, <1>3 DEF Moved, Ended
<1>4. ASSUME NEW i \in Application, i[2] = r, <<i[1], b, i[3]>> \in OfBill(b),
             reapply[<<i[1], b, i[3]>>] > 0
      PROVE  ~bill'[i[2]].hold
  <2>1. ~bill[b].hold
    BY <1>4 DEF CorrectBill, Reapplicable
  <2>2. ~Replacement(b, amount).hold /\ Shaped(Replacement(b, amount))
    BY <2>1, ReplacementShaped
  <2> DEFINE moved == {j \in OfBill(b) : reapply[j] > 0}
  <2>3. Cardinality(moved) \in Nat
    <3>1. moved \subseteq Application
      BY OfBillFacts
    <3>. QED  BY <3>1, SetsOfApplications
  <2>4. bill'[r] = Rebalance(Replacement(b, amount), amount - SumFunction(reapply), Cardinality(moved))
    BY DEF CorrectBill, Typed
  <2>. HIDE DEF moved
  <2>. QED  BY <1>4, <2>2, <2>3, <2>4, RebalanceAdvances
<1>5. ASSUME NEW i \in Application, <<i[1], b, i[3]>> \in OfBill(b)
      PROVE  \E j \in Application : j[1] = i[1] /\ application[j].status = "applied"
  <2>1. <<i[1], b, i[3]>> \in Application /\ application[<<i[1], b, i[3]>>].status = "applied"
    BY <1>5, OfBillFacts DEF OfBill, Applied
  <2>. QED  BY <2>1
<1>6. ApplicationsKept
  BY <1>2, <1>3, <1>5 DEF ApplicationsKept
<1>. QED  BY <1>3, <1>4, <1>6 DEF AppliesToUnheld

LEMMA BillCommandIsGood ==
  ASSUME IInv, BillCommand
  PROVE  Good
<1>1. Typed /\ AppliedExists
  BY DEF IInv
<1>2. Documents
  BY <1>1, BillCommandsAdvance
<1>3. UNCHANGED <<instruction, reviewed, retired>>
  <2>1. ASSUME NEW b \in Bill, NEW r \in Bill, NEW amount, NEW reapply, NEW h, NEW on,
               \/ CreateVendorBill(b, amount)
               \/ SetPaymentHold(h, b, on)
               \/ VoidBill(b)
               \/ CorrectByVoid(b)
               \/ ReplaceBill(b, r, amount)
               \/ CorrectBill(b, r, amount, reapply)
        PROVE  UNCHANGED <<instruction, reviewed, retired>>
    BY <2>1 DEF CreateVendorBill, SetPaymentHold, VoidBill, CorrectByVoid, ReplaceBill,
                CorrectBill
  <2>. QED  BY <2>1 DEF BillCommand
<1>4. InstructionsKept
  BY <1>1, <1>3, InstructionsUnchanged
<1>5. ClearsAsReviewed
  BY <1>3 DEF ClearsAsReviewed
<1>6. ApplicationsKept /\ AppliesToUnheld
  <2>1. CASE UNCHANGED application
    BY <1>1, <2>1, ApplicationsUnchanged DEF AppliesToUnheld
  <2>2. ASSUME NEW b \in Bill, CorrectByVoid(b)
        PROVE  ApplicationsKept /\ AppliesToUnheld
    BY <1>1, <2>2, ApplicationsEnd DEF CorrectByVoid, AppliesToUnheld
  <2>3. ASSUME NEW b \in Bill, NEW r \in Bill, NEW amount, NEW reapply,
               CorrectBill(b, r, amount, reapply)
        PROVE  ApplicationsKept /\ AppliesToUnheld
    BY <1>1, <2>3, CorrectBillApplications
  <2>4. ASSUME NEW b \in Bill, NEW amount, CreateVendorBill(b, amount)
        PROVE  UNCHANGED application
    BY <2>4 DEF CreateVendorBill
  <2>5. ASSUME NEW b \in Bill, NEW h, NEW on, SetPaymentHold(h, b, on)
        PROVE  UNCHANGED application
    BY <2>5 DEF SetPaymentHold
  <2>6. ASSUME NEW b \in Bill, VoidBill(b)
        PROVE  UNCHANGED application
    BY <2>6 DEF VoidBill
  <2>7. ASSUME NEW b \in Bill, NEW r \in Bill, NEW amount, ReplaceBill(b, r, amount)
        PROVE  UNCHANGED application
    BY <2>7 DEF ReplaceBill
  <2>. QED  BY <2>1, <2>2, <2>3, <2>4, <2>5, <2>6, <2>7 DEF BillCommand
<1>7. CASE KeysKept
  BY <1>2, <1>4, <1>5, <1>6, <1>7, QuietStepIsGood
<1>8. ASSUME NEW h \in HoldKey, NEW b \in Bill, NEW on, SetPaymentHold(h, b, on)
      PROVE  Good
  <2>1. holdKey[h] = "none" /\ holdKey' = [holdKey EXCEPT ![h] = "changed"]
    BY <1>8 DEF SetPaymentHold
  <2>2. RecordsKept
    BY <1>2, <1>4, RecordsAreKept
  <2>3. OutcomeStep
    <3>1. h \notin Key
      BY KeysAssumption
    <3>2. Outcome(h) = "none" /\ Outcome(h)' = "recorded"
      BY <1>1, <2>1, <3>1 DEF Outcome, Typed
    <3>3. ASSUME NEW other \in (Key \cup HoldKey) \ {h}
          PROVE  Outcome(other)' = Outcome(other)
      BY <1>1, <1>3, <2>1, <2>2 DEF Outcome, Typed, RecordsKept
    <3>. QED  BY <3>2, <3>3, OutcomeSettles
  <2>4. IInv'
    <3>1. Typed'
      BY <1>1, <1>2, <1>3, <1>4, <1>6, <2>1
         DEF Typed, Documents, BillsAdvance, PaymentsStay, InstructionsKept, PlansKept,
             ApplicationsKept, Advances
    <3>2. RetiredIsUnrecorded'
      BY <1>3, <2>2 DEF RecordsKept, RetiredIsUnrecorded, IInv, Typed
    <3>. QED
      BY <1>2, <1>4, <1>6, <3>1, <3>2, ReviewIsCurrentKept, AppliedExistsKept
         DEF IInv, Documents, InstructionsKept
  <2>. QED  BY <1>5, <1>6, <2>3, <2>4 DEF Good
<1>9. ASSUME NEW b \in Bill, NEW r \in Bill, NEW amount, NEW reapply,
             \/ CreateVendorBill(b, amount)
             \/ VoidBill(b)
             \/ CorrectByVoid(b)
             \/ ReplaceBill(b, r, amount)
             \/ CorrectBill(b, r, amount, reapply)
      PROVE  holdKey' = holdKey
  BY <1>9 DEF CreateVendorBill, VoidBill, CorrectByVoid, ReplaceBill, CorrectBill
<1>10. KeysKept \/ \E h \in HoldKey, b \in Bill : \E on : SetPaymentHold(h, b, on)
  BY <1>3, <1>9 DEF BillCommand, KeysKept
<1>. QED  BY <1>7, <1>8, <1>10

-----------------------------------------------------------------------------
(* A command that records something under a key that is not retired.       *)
LEMMA RecordingIsGood ==
  ASSUME IInv, NEW k \in Key, k \notin retired, ~Unrecorded(k)',
         \A j \in Key \ {k} : Unrecorded(j)' <=> Unrecorded(j),
         Typed', ReviewIsCurrent', AppliedExists', KeysKept,
         ClearsAsReviewed, AppliesToUnheld
  PROVE  Good
<1>1. RetiredIsUnrecorded'
  BY DEF RetiredIsUnrecorded, IInv, Typed, KeysKept
<1>2. CASE Unrecorded(k)
  <2>1. Outcome(k) = "none" /\ Outcome(k)' = "recorded"
    BY <1>2 DEF Outcome, KeysKept
  <2>2. ASSUME NEW other \in (Key \cup HoldKey) \ {k}
        PROVE  Outcome(other)' = Outcome(other)
    BY DEF Outcome, KeysKept
  <2>3. OutcomeStep
    BY <2>1, <2>2, OutcomeSettles
  <2>. QED  BY <1>1, <2>3 DEF Good, IInv
<1>3. CASE ~Unrecorded(k)
  <2>1. RecordsKept
    BY <1>3 DEF RecordsKept
  <2>. QED  BY <1>1, <2>1, OutcomesStay DEF Good, IInv
<1>. QED  BY <1>2, <1>3

LEMMA RecordPaymentIsGood ==
  ASSUME IInv, NEW k \in Key, NEW amount, RecordPayment(k, amount)
  PROVE  Good
<1>1. Typed /\ AppliedExists /\ ReviewIsCurrent
  BY DEF IInv
<1>2. /\ UNCHANGED <<instruction, reviewed, application>> /\ KeysKept
      /\ k \notin retired
      /\ payment' = [payment EXCEPT ![k] = NewDocument(amount)]
  BY DEF RecordPayment, KeysKept
<1>3. BillsAdvance /\ PaymentsStay
  BY <1>1, RecordPaymentDocuments
<1>4. PlansKept /\ ApplicationsKept
  BY <1>1, <1>2, InstructionsUnchanged, ApplicationsUnchanged DEF InstructionsKept
<1>5. Typed' /\ ReviewIsCurrent' /\ AppliedExists'
  BY <1>1, <1>2, <1>3, <1>4, TypedKept, ReviewIsCurrentKept, AppliedExistsKept
<1>6. ~Unrecorded(k)' /\ \A j \in Key \ {k} : Unrecorded(j)' <=> Unrecorded(j)
  BY <1>1, <1>2, NewDocumentShaped DEF Unrecorded, Typed
<1>7. ClearsAsReviewed /\ AppliesToUnheld
  BY <1>2 DEF ClearsAsReviewed, AppliesToUnheld
<1>. QED  BY <1>2, <1>5, <1>6, <1>7, RecordingIsGood

LEMMA ScheduleIsGood ==
  ASSUME IInv, NEW k \in Key, NEW amounts \in Plans, Schedule(k, WithVersions(amounts))
  PROVE  Good
<1> DEFINE plan == WithVersions(amounts)
<1>1. Typed /\ AppliedExists /\ ReviewIsCurrent
  BY DEF IInv
<1>2. /\ DOMAIN plan \subseteq Bill
      /\ \A b \in DOMAIN plan : plan[b].version = bill[b].version
  BY DEF WithVersions, Plans
<1>3. /\ UNCHANGED docVars /\ KeysKept /\ k \notin retired
      /\ instruction[k].status = "none"
      /\ instruction' = [instruction EXCEPT ![k] =
           [status |-> "scheduled", version |-> 1, plan |-> plan]]
      /\ reviewed' = [reviewed EXCEPT ![k] = [b \in DOMAIN plan |-> bill[b]]]
  BY DEF Schedule, FreshKey, KeysKept
<1>. HIDE DEF plan
<1>4. Typed'
  BY <1>1, <1>2, <1>3 DEF Typed, docVars, KeysKept, InstructionFields
<1>5. ReviewIsCurrent'
  <2> SUFFICES ASSUME NEW j \in Key, instruction'[j].status = "scheduled",
                      NEW b \in DOMAIN instruction'[j].plan
               PROVE  /\ instruction'[j].plan[b].version = reviewed'[j][b].version
                      /\ reviewed'[j][b].version \in Nat
                      /\ \/ bill'[b] = reviewed'[j][b]
                         \/ bill'[b].version > reviewed'[j][b].version
    BY DEF ReviewIsCurrent
  <2>1. CASE j = k
    <3>1. instruction'[j].plan = plan /\ reviewed'[j] = [c \in DOMAIN plan |-> bill[c]]
      BY <1>1, <1>3, <2>1 DEF Typed
    <3>2. b \in DOMAIN plan /\ b \in Bill
      BY <1>2, <3>1
    <3>. QED  BY <1>1, <1>2, <1>3, <3>1, <3>2 DEF Typed, Shaped, docVars
  <2>2. CASE j # k
    <3>1. instruction'[j] = instruction[j] /\ reviewed'[j] = reviewed[j]
      BY <1>1, <1>3, <2>2 DEF Typed
    <3>. QED  BY <1>1, <1>3, <3>1 DEF ReviewIsCurrent, docVars
  <2>. QED  BY <2>1, <2>2
<1>6. AppliedExists'
  BY <1>1, <1>3 DEF AppliedExists, docVars
<1>7. ~Unrecorded(k)' /\ \A j \in Key \ {k} : Unrecorded(j)' <=> Unrecorded(j)
  BY <1>1, <1>3 DEF Unrecorded, Typed, docVars
<1>8. ClearsAsReviewed
  BY <1>1, <1>3 DEF ClearsAsReviewed, Typed
<1>9. AppliesToUnheld
  BY <1>3 DEF AppliesToUnheld, docVars
<1>. QED  BY <1>3, <1>4, <1>5, <1>6, <1>7, <1>8, <1>9, RecordingIsGood

(* The payment and its applications, as RecordAndApply and Clear make them. *)
LEMMA MakePaymentIsGood ==
  ASSUME IInv, NEW k \in Key, NEW plan, NEW version, DOMAIN plan \subseteq Bill,
         MakePayment(k, plan, version), KeysKept, k \notin retired,
         instruction[k].status = "scheduled" => plan = instruction[k].plan
  PROVE  Good
<1>1. Typed /\ AppliedExists /\ ReviewIsCurrent
  BY DEF IInv
<1>2. /\ BillsAdvance /\ PaymentsStay /\ Exists(payment'[k])
      /\ \A j \in Key \ {k} : payment'[j] = payment[j]
      /\ \A b \in Bill : bill'[b].hold = bill[b].hold
  BY <1>1, MakePaymentDocuments
<1>3. /\ Payable(plan)
      /\ instruction' = [instruction EXCEPT ![k] =
           [status |-> "cleared", version |-> version, plan |-> NoPlan]]
      /\ reviewed' = [reviewed EXCEPT ![k] = NoPlan]
  BY DEF MakePayment
<1>4. PlansKept
  BY <1>1, <1>3 DEF PlansKept, Typed, InstructionFields, NoPlan
<1>5. /\ DOMAIN application' = Application
      /\ \A i \in Application :
           \/ application'[i] = application[i]
           \/ i[1] = k /\ i[2] \in DOMAIN plan
  BY DEF MakePayment
<1>6. ApplicationsKept
  BY <1>2, <1>5 DEF ApplicationsKept
<1>7. AppliesToUnheld
  BY <1>2, <1>3, <1>5 DEF AppliesToUnheld, Payable
<1>8. ClearsAsReviewed
  <2> SUFFICES ASSUME NEW j \in Key, instruction[j].status = "scheduled",
                      instruction'[j].status = "cleared",
                      NEW b \in DOMAIN instruction[j].plan
               PROVE  bill[b] = reviewed[j][b]
    BY DEF ClearsAsReviewed
  <2>1. j = k
    BY <1>1, <1>3 DEF Typed
  <2>2. b \in DOMAIN plan /\ b \in Bill
    BY <2>1
  <2>3. bill[b].version = plan[b].version /\ plan[b].version = reviewed[k][b].version
    BY <1>1, <1>3, <2>1, <2>2 DEF Payable, ReviewIsCurrent
  <2>. QED  BY <1>1, <2>1, <2>2, <2>3 DEF ReviewIsCurrent
<1>9. Typed' /\ ReviewIsCurrent' /\ AppliedExists'
  BY <1>1, <1>2, <1>4, <1>6, TypedKept, ReviewIsCurrentKept, AppliedExistsKept
<1>10. ~Unrecorded(k)' /\ \A j \in Key \ {k} : Unrecorded(j)' <=> Unrecorded(j)
  BY <1>1, <1>2, <1>3 DEF Unrecorded, Typed
<1>. QED  BY <1>7, <1>8, <1>9, <1>10, RecordingIsGood

LEMMA RecordAndApplyIsGood ==
  ASSUME IInv, NEW k \in Key, NEW amounts \in Plans,
         RecordAndApply(k, WithVersions(amounts))
  PROVE  Good
<1>1. DOMAIN WithVersions(amounts) \subseteq Bill
  BY DEF WithVersions, Plans
<1>. QED  BY <1>1, MakePaymentIsGood DEF RecordAndApply, FreshKey, KeysKept

LEMMA ClearIsGood ==
  ASSUME IInv, NEW k \in Key, Clear(k)
  PROVE  Good
<1>1. DOMAIN instruction[k].plan \subseteq Bill
  BY DEF IInv, Typed
<1>. QED  BY <1>1, MakePaymentIsGood DEF Clear, KeysKept

-----------------------------------------------------------------------------
(* A command that retires a key, of a payment or of a hold. *)
LEMMA RetirementIsGood ==
  ASSUME IInv, UNCHANGED <<docVars, instruction, reviewed>>,
         \/ \E k \in Key : RetireRecording(k)
         \/ \E h \in HoldKey : RetirePaymentHold(h)
  PROVE  Good
<1>1. Typed /\ AppliedExists /\ ReviewIsCurrent /\ RetiredIsUnrecorded
  BY DEF IInv
<1>2. Typed' /\ ReviewIsCurrent' /\ AppliedExists'
  BY <1>1 DEF Typed, ReviewIsCurrent, AppliedExists, docVars, RetireRecording, RetirePaymentHold
<1>3. RecordsKept /\ ClearsAsReviewed /\ AppliesToUnheld
  BY <1>1 DEF RecordsKept, Unrecorded, ClearsAsReviewed, AppliesToUnheld, docVars
<1>4. RetiredIsUnrecorded'
  BY <1>1, <1>3 DEF RetiredIsUnrecorded, RecordsKept, Typed, RetireRecording, RetirePaymentHold
<1>5. ASSUME NEW k \in Key, RetireRecording(k)
      PROVE  OutcomeStep
  <2>1. k \notin retired /\ retired' = retired \cup {k} /\ Unrecorded(k) /\ holdKey' = holdKey
    BY <1>5 DEF RetireRecording
  <2>2. Outcome(k) = "none" /\ Outcome(k)' = "retired"
    BY <1>3, <2>1 DEF Outcome, RecordsKept
  <2>3. ASSUME NEW other \in (Key \cup HoldKey) \ {k}
        PROVE  Outcome(other)' = Outcome(other)
    BY <1>3, <2>1 DEF Outcome, RecordsKept
  <2>. QED  BY <2>2, <2>3, OutcomeSettles
<1>6. ASSUME NEW h \in HoldKey, RetirePaymentHold(h)
      PROVE  OutcomeStep
  <2>1. /\ holdKey[h] = "none" /\ holdKey' = [holdKey EXCEPT ![h] = "retired"]
        /\ retired' = retired /\ h \notin Key
    BY <1>6, KeysAssumption DEF RetirePaymentHold
  <2>2. Outcome(h) = "none" /\ Outcome(h)' = "retired"
    BY <1>1, <2>1 DEF Outcome, Typed
  <2>3. ASSUME NEW other \in (Key \cup HoldKey) \ {h}
        PROVE  Outcome(other)' = Outcome(other)
    BY <1>1, <1>3, <2>1 DEF Outcome, RecordsKept, Typed
  <2>. QED  BY <2>2, <2>3, OutcomeSettles
<1>. QED  BY <1>2, <1>3, <1>4, <1>5, <1>6 DEF Good, IInv

-----------------------------------------------------------------------------
LEMMA CancelIsGood ==
  ASSUME IInv, NEW k \in Key, Cancel(k)
  PROVE  Good
<1>1. Typed
  BY DEF IInv
<1>2. /\ UNCHANGED docVars /\ KeysKept /\ instruction[k].status = "scheduled"
      /\ instruction' = [instruction EXCEPT ![k] =
           [status |-> "voided", version |-> instruction[k].version + 1, plan |-> NoPlan]]
      /\ reviewed' = [reviewed EXCEPT ![k] = NoPlan]
  BY <1>1 DEF Cancel, KeysKept, Typed, InstructionFields
<1>3. Documents
  BY <1>1, <1>2, PaymentsUntouched, BillsUntouched DEF Documents, docVars
<1>4. InstructionsKept
  BY <1>1, <1>2 DEF InstructionsKept, PlansKept, Typed, InstructionFields, NoPlan
<1>5. ApplicationsKept /\ AppliesToUnheld
  BY <1>1, <1>2, ApplicationsUnchanged DEF AppliesToUnheld, docVars
<1>6. ClearsAsReviewed
  BY <1>1, <1>2 DEF ClearsAsReviewed, Typed
<1>. QED  BY <1>2, <1>3, <1>4, <1>5, <1>6, QuietStepIsGood

LEMMA ApplyIsGood ==
  ASSUME IInv, NEW k \in Key, NEW b \in Bill, NEW amount, Apply(k, b, amount)
  PROVE  Good
<1>1. Typed
  BY DEF IInv
<1>2. Documents /\ bill'[b].hold = bill[b].hold
  BY <1>1, ApplyDocuments
<1>3. /\ UNCHANGED <<instruction, reviewed>> /\ KeysKept
      /\ Exists(payment[k]) /\ ~bill[b].hold
      /\ application' = [application EXCEPT ![<<k, b, "direct">>] =
           [status |-> "applied", amount |-> amount]]
  BY DEF Apply, KeysKept
<1>4. InstructionsKept /\ ClearsAsReviewed
  BY <1>1, <1>3, InstructionsUnchanged DEF ClearsAsReviewed
<1>5. Exists(payment'[k])
  BY <1>2, <1>3 DEF Documents, PaymentsStay
<1>6. /\ DOMAIN application' = Application
      /\ \A i \in Application : application'[i] = application[i] \/ i = <<k, b, "direct">>
  BY <1>1, <1>3 DEF Typed
<1>7. ApplicationsKept
  BY <1>5, <1>6 DEF ApplicationsKept
<1>8. AppliesToUnheld
  BY <1>2, <1>3, <1>6 DEF AppliesToUnheld
<1>. QED  BY <1>2, <1>3, <1>4, <1>7, <1>8, QuietStepIsGood

LEMMA EndApplicationIsGood ==
  ASSUME IInv, NEW i \in Application, EndApplication(i)
  PROVE  Good
<1>1. Typed /\ AppliedExists
  BY DEF IInv
<1>2. Documents
  BY <1>1, EndApplicationDocuments
<1>3. InstructionsKept /\ ClearsAsReviewed /\ KeysKept
  BY <1>1, InstructionsUnchanged DEF ClearsAsReviewed, KeysKept, EndApplication
<1>4. ApplicationsKept /\ AppliesToUnheld
  BY <1>1, ApplicationsEnd DEF AppliesToUnheld, EndApplication
<1>. QED  BY <1>2, <1>3, <1>4, QuietStepIsGood

(* The instruction goes with its payment, and was not scheduled. *)
LEMMA CompensationIsGood ==
  ASSUME IInv, Documents, NEW k \in Key, instruction[k].status \in {"none", "cleared"},
         instruction' = [instruction EXCEPT ![k] = Compensated(@)], UNCHANGED reviewed,
         KeysKept, ApplicationsKept, AppliesToUnheld
  PROVE  Good
<1>1. /\ InstructionsKept
      /\ \A j \in Key : instruction[j].status = "scheduled" =>
           instruction'[j].status = "scheduled"
  BY InstructionCompensated DEF IInv
<1>2. ClearsAsReviewed
  BY <1>1 DEF ClearsAsReviewed
<1>. QED  BY <1>1, <1>2, QuietStepIsGood

LEMMA VoidPaymentIsGood ==
  ASSUME IInv, NEW k \in Key, VoidPayment(k)
  PROVE  Good
<1>1. Typed
  BY DEF IInv
<1>2. Documents
  BY <1>1, VoidPaymentDocuments
<1>3. ApplicationsKept /\ AppliesToUnheld
  BY <1>1, ApplicationsUnchanged DEF AppliesToUnheld, VoidPayment
<1>. QED  BY <1>2, <1>3, CompensationIsGood DEF VoidPayment, MayVoid, KeysKept

LEMMA VoidAndUnapplyIsGood ==
  ASSUME IInv, NEW k \in Key, VoidAndUnapply(k)
  PROVE  Good
<1>1. Typed /\ AppliedExists
  BY DEF IInv
<1>2. Documents
  BY <1>1, VoidAndUnapplyDocuments
<1>3. ApplicationsKept /\ AppliesToUnheld
  BY <1>1, ApplicationsEnd DEF AppliesToUnheld, VoidAndUnapply
<1>. QED  BY <1>2, <1>3, CompensationIsGood DEF VoidAndUnapply, KeysKept

-----------------------------------------------------------------------------
LEMMA InitIsIInv == Init => IInv
<1> SUFFICES ASSUME Init
             PROVE  IInv
  OBVIOUS
<1>1. Shaped(NoDocument)
  BY DEF Shaped, NoDocument, Fields, Exists
<1>2. Typed
  BY <1>1 DEF Init, Typed, InstructionFields, NoPlan
<1>. QED  BY <1>2 DEF Init, IInv, ReviewIsCurrent, AppliedExists, RetiredIsUnrecorded

LEMMA PaymentCommandIsGood ==
  ASSUME IInv, PaymentCommand
  PROVE  Good
<1>1. ASSUME NEW k \in Key, RetireRecording(k)
      PROVE  Good
  BY <1>1, RetirementIsGood DEF RetireRecording
<1>. QED
  BY <1>1, RecordPaymentIsGood, ScheduleIsGood, RecordAndApplyIsGood, ClearIsGood, CancelIsGood,
     ApplyIsGood, VoidPaymentIsGood, VoidAndUnapplyIsGood DEF PaymentCommand

LEMMA StepIsGood ==
  ASSUME IInv, [Next]_vars
  PROVE  Good
<1>1. CASE BillCommand
  BY <1>1, BillCommandIsGood
<1>2. CASE PaymentCommand
  BY <1>2, PaymentCommandIsGood
<1>3. ASSUME NEW h \in HoldKey, RetirePaymentHold(h)
      PROVE  Good
  BY <1>3, RetirementIsGood DEF RetirePaymentHold, docVars
<1>4. ASSUME NEW i \in Application, EndApplication(i)
      PROVE  Good
  BY <1>4, EndApplicationIsGood
<1>5. CASE UNCHANGED vars
  <2>1. Typed /\ KeysKept
    BY <1>5 DEF IInv, vars, KeysKept
  <2>2. Documents /\ InstructionsKept /\ ApplicationsKept
    BY <1>5, <2>1, PaymentsUntouched, BillsUntouched, InstructionsUnchanged, ApplicationsUnchanged
       DEF vars, Documents
  <2>3. ClearsAsReviewed /\ AppliesToUnheld
    BY <1>5 DEF vars, ClearsAsReviewed, AppliesToUnheld
  <2>. QED  BY <2>1, <2>2, <2>3, QuietStepIsGood
<1>. QED  BY <1>1, <1>2, <1>3, <1>4, <1>5 DEF Next

(* What the two theorems below rest on: a bill's version tells whether it  *)
(* is still the bill that was reviewed, active applications belong to      *)
(* payments that exist, and nothing is recorded under a retired key.       *)
THEOREM VersionsTellReviews == Spec => []IInv
<1>1. IInv /\ [Next]_vars => IInv'
  BY StepIsGood DEF Good
<1>. QED  BY <1>1, InitIsIInv, PTL DEF Spec

(* clearScheduledBillPayment posts a plan only on bills unchanged since it *)
(* was scheduled, and neither it, recordAndApplyBillPayment, a payment's   *)
(* application nor a correction applies a payment to a bill on hold.       *)
THEOREM ScheduledPaymentsReviewed == Spec => PaysReviewedBills
<1>1. IInv /\ [Next]_vars => ClearsAsReviewed /\ AppliesToUnheld
  BY StepIsGood DEF Good
<1>2. IInv /\ [Next]_vars =>
        [/\ \A k \in Key :
              instruction[k].status = "scheduled" /\ instruction[k]'.status = "cleared"
              => \A b \in DOMAIN instruction[k].plan : bill[b] = reviewed[k][b]
         /\ \A i \in Application :
              application[i].status # "applied" /\ application[i]'.status = "applied"
              => ~bill[i[2]]'.hold]_vars
  BY <1>1 DEF ClearsAsReviewed, AppliesToUnheld
<1>. QED  BY <1>2, VersionsTellReviews, PTL DEF Spec, PaysReviewedBills

(* A payment or hold command whose answer was lost has one outcome: the    *)
(* recording and the retirement of its key exclude each other for good.    *)
THEOREM CommandsSettle == Spec => OutcomesAreFinal
<1>1. Init => Outcomes!OutcomeInit
  BY KeysAssumption DEF Init, Outcomes!OutcomeInit, Outcome, Unrecorded, Exists, NoDocument
<1>2. IInv /\ [Next]_vars => [Outcomes!OutcomeNext]_OutcomeMap
  BY StepIsGood DEF Good, OutcomeStep
<1>. QED
  BY <1>1, <1>2, VersionsTellReviews, PTL
     DEF Spec, OutcomesAreFinal, Outcomes!OutcomeSpec, OutcomeMap

-----------------------------------------------------------------------------
(* What the applications of a document come to, counted over every name an *)
(* application of it can have: one that is not active has amount 0.        *)
Paid == [i \in Application |-> application[i].amount]
BillSlots(b) == Key \X {b} \X {"plan", "direct"}
PaymentSlots(k) == {k} \X Bill \X {"plan", "direct"}
PaidOf(S) == SumFunctionOnSet(Paid, S)

ApplicationsOK ==
  /\ application \in [Application ->
       [status : {"none", "applied", "ended"}, amount : Nat]]
  /\ \A i \in Application :
       application[i].status = "applied" <=> application[i].amount > 0

(* The books of a document whose active applications come to t. *)
Book(d, t) ==
  /\ d \in Document /\ t \in Nat
  /\ ~Exists(d) => t = 0 /\ d.open = 0 /\ d.original = 0 /\ d.version = 0
  /\ d.status = "voided" => t = 0 /\ d.open = 0
  /\ Live(d) => d.open + t = d.original
  /\ Exists(d) => d.version >= 1
  /\ d.version = 1 => t = 0

Books ==
  /\ \A b \in Bill : Book(bill[b], PaidOf(BillSlots(b)))
  /\ \A k \in Key : Book(payment[k], PaidOf(PaymentSlots(k))) /\ ~payment[k].hold

InstructionOK(k) ==
  /\ \/ instruction[k].status = "none" /\ instruction[k].version = 0
     \/ instruction[k].status = "scheduled" /\ instruction[k].version = 1
     \/ instruction[k].status = "cleared" /\ instruction[k].version = 2
     \/ instruction[k].status = "voided" /\ instruction[k].version \in 2..3
  /\ IsPlan(instruction[k].plan)
  /\ instruction[k].status = "cleared" => Live(payment[k])
  /\ instruction[k].version = 3 => payment[k].status = "voided"

HoldsOK == holdKey \in [HoldKey -> {"none", "changed", "retired"}]

BooksInv ==
  /\ IInv
  /\ ApplicationsOK
  /\ Books
  /\ \A k \in Key : InstructionOK(k)
  /\ HoldsOK

-----------------------------------------------------------------------------
LEMMA BookNew ==
  ASSUME NEW amount \in Nat
  PROVE  Book(NewDocument(amount), 0) /\ ~NewDocument(amount).hold
<1>1. NewDocument(amount) \in Document
  BY DEF NewDocument, Document
<1>. QED  BY <1>1 DEF Book, NewDocument, Exists, Live

LEMMA BookVoided ==
  ASSUME NEW d \in Document
  PROVE  Book(Voided(d), 0) /\ Voided(d).hold = d.hold
<1>1. /\ Voided(d).status = "voided" /\ Voided(d).open = 0
      /\ Voided(d).version = d.version + 1 /\ Voided(d).hold = d.hold
  BY DEF Voided, Document
<1>2. d.version \in Nat /\ d.version + 1 \in Nat
  BY DEF Document
<1>3. Voided(d) \in Document
  BY <1>2 DEF Voided, Document
<1>. HIDE DEF Voided
<1>. QED  BY <1>1, <1>2, <1>3 DEF Book, Exists, Live

LEMMA BookHeld ==
  ASSUME NEW d, NEW t, Book(d, t), Exists(d), NEW on \in BOOLEAN
  PROVE  Book(ChangedHold(d, on), t)
<1>1. d \in Document /\ d.version >= 1
  BY DEF Book
<1>2. /\ ChangedHold(d, on).status = d.status /\ ChangedHold(d, on).open = d.open
      /\ ChangedHold(d, on).version = d.version + 1
      /\ ChangedHold(d, on).original = d.original
  BY <1>1 DEF ChangedHold, Document
<1>3. d.version \in Nat /\ d.version + 1 \in Nat /\ d.version + 1 > 1
  BY <1>1 DEF Document
<1>4. ChangedHold(d, on) \in Document
  BY <1>1, <1>3 DEF ChangedHold, Document
<1>. QED  BY <1>1, <1>2, <1>3, <1>4 DEF Book, Exists, Live

(* What open is left of a live document is set when its applications come  *)
(* to something else.                                                      *)
LEMMA BookRebalanced ==
  ASSUME NEW d, NEW t, Book(d, t), NEW u \in Nat, NEW open, NEW n \in Nat,
         n = 0 => u = t,
         n # 0 => Live(d) /\ open \in Nat /\ open + u = d.original
  PROVE  /\ Book(Rebalance(d, open, n), u)
         /\ Rebalance(d, open, n).hold = d.hold
         /\ Rebalance(d, open, n).original = d.original
         /\ Live(Rebalance(d, open, n)) <=> Live(d)
<1>1. d \in Document
  BY DEF Book
<1>2. CASE n = 0
  BY <1>2 DEF Rebalance
<1>3. CASE n # 0
  <2> DEFINE r == Rebalance(d, open, n)
  <2>1. /\ r.status \in {"settled", "open", "partially_applied"}
        /\ r.open = open /\ r.version = d.version + n
        /\ r.original = d.original /\ r.hold = d.hold
        /\ r = [status |-> r.status, original |-> r.original, open |-> r.open,
                version |-> r.version, hold |-> r.hold]
    BY <1>1, <1>3 DEF Rebalance, Document
  <2>2. /\ d.version \in Nat /\ d.original \in Nat /\ d.hold \in BOOLEAN
        /\ Live(d) /\ d.version >= 1
    BY <1>1, <1>3 DEF Document, Book, Live, Exists
  <2>3. open \in Nat /\ open + u = d.original
    BY <1>3
  <2>. HIDE DEF r
  <2>4. r \in Document
    BY <2>1, <2>2, <2>3 DEF Document
  <2>5. Book(r, u) /\ Live(r)
    BY <1>3, <2>1, <2>2, <2>3, <2>4 DEF Book, Exists, Live
  <2>. QED  BY <2>1, <2>2, <2>5 DEF r
<1>. QED  BY <1>2, <1>3

-----------------------------------------------------------------------------
LEMMA SlotsFinite ==
  ASSUME NEW S, S \subseteq Application
  PROVE  IsFiniteSet(S)
BY ApplicationFinite, FS_Subset

LEMMA SlotsAre ==
  /\ \A b \in Bill : BillSlots(b) \subseteq Application
  /\ \A k \in Key : PaymentSlots(k) \subseteq Application
BY DEF BillSlots, PaymentSlots, Application

LEMMA PaidIsNat ==
  ASSUME ApplicationsOK, NEW S, S \subseteq Application
  PROVE  PaidOf(S) \in Nat /\ \A i \in S : Paid[i] \in Nat
<1>1. IsFiniteSet(S) /\ \A i \in S : Paid[i] \in Nat
  BY SlotsFinite DEF Paid, ApplicationsOK
<1>. QED  BY <1>1, SumType DEF PaidOf

(* Active applications come to something; the total that the code reads is *)
(* theirs.                                                                 *)
LEMMA ActiveTotal ==
  ASSUME ApplicationsOK, NEW S, S \subseteq Application,
         \A i \in S : application[i].status = "applied"
  PROVE  /\ Total(S) = PaidOf(S)
         /\ Cardinality(S) \in Nat
         /\ Cardinality(S) = 0 <=> S = {}
         /\ PaidOf(S) = 0 <=> S = {}
<1>1. IsFiniteSet(S) /\ \A i \in S : Paid[i] \in Nat /\ Paid[i] > 0
  BY SlotsFinite DEF Paid, ApplicationsOK
<1>2. Total(S) = PaidOf(S)
  <2> DEFINE g == [i \in S |-> application[i].amount]
  <2>1. \A i \in S : g[i] = Paid[i]
    BY DEF Paid
  <2>. HIDE DEF g
  <2>2. SumFunctionOnSet(g, S) = SumFunctionOnSet(Paid, S)
    BY <1>1, <2>1, SumSame
  <2>. QED  BY <2>2 DEF Total, PaidOf, g
<1>3. PaidOf(S) = 0 <=> S = {}
  BY <1>1, SumZero DEF PaidOf
<1>4. Cardinality(S) \in Nat /\ (Cardinality(S) = 0 <=> S = {})
  BY <1>1, FS_CardinalityType, FS_EmptySet
<1>. QED  BY <1>2, <1>3, <1>4

LEMMA SlotTotal ==
  ASSUME ApplicationsOK, NEW S, S \subseteq Application
  PROVE  PaidOf(S) = PaidOf(Applied(S))
<1>1. IsFiniteSet(S) /\ \A i \in S : Paid[i] \in Nat
  BY SlotsFinite DEF Paid, ApplicationsOK
<1>2. Applied(S) \in SUBSET S /\ \A i \in S \ Applied(S) : Paid[i] = 0
  BY DEF Applied, Paid, ApplicationsOK
<1>. QED  BY <1>1, <1>2, SumWithout DEF PaidOf

LEMMA PaidPart ==
  ASSUME ApplicationsOK, NEW S, S \subseteq Application, NEW P, P \subseteq S
  PROVE  PaidOf(P) <= PaidOf(S)
<1>1. IsFiniteSet(S) /\ \A i \in S : Paid[i] \in Nat
  BY SlotsFinite DEF Paid, ApplicationsOK
<1>. QED  BY <1>1, SumBoundsPart DEF PaidOf

(* A release of some of a document's active applications. *)
LEMMA BookReleased ==
  ASSUME ApplicationsOK, NEW d, NEW T, T \subseteq Application, Book(d, PaidOf(T)),
         NEW S, S \subseteq T, \A i \in S : application[i].status = "applied"
  PROVE  /\ Book(Released(d, S), PaidOf(T) - PaidOf(S))
         /\ Released(d, S).hold = d.hold
         /\ Released(d, S).original = d.original
         /\ Live(Released(d, S)) <=> Live(d)
         /\ Live(d) => Released(d, S).open = d.open + Total(S)
         /\ S # {} => Live(d)
         /\ S = {} => Released(d, S) = d
<1>1. /\ Total(S) = PaidOf(S) /\ Cardinality(S) \in Nat
      /\ Cardinality(S) = 0 <=> S = {}
      /\ PaidOf(S) = 0 <=> S = {}
  BY ActiveTotal
<1>2. PaidOf(S) \in Nat /\ PaidOf(T) \in Nat /\ PaidOf(S) <= PaidOf(T)
  BY PaidIsNat, PaidPart
<1>3. S # {} => Live(d)
  BY <1>1, <1>2 DEF Book, Exists, Live
<1>4. d.open \in Nat /\ d.original \in Nat /\ (Live(d) => d.open + PaidOf(T) = d.original)
  BY DEF Book, Document
<1> DEFINE u == PaidOf(T) - PaidOf(S)
           open == d.open + Total(S)
           n == Cardinality(S)
<1>5. u \in Nat /\ n \in Nat /\ (n = 0 => u = PaidOf(T))
  BY <1>1, <1>2
<1>6. n # 0 => Live(d) /\ open \in Nat /\ open + u = d.original
  BY <1>1, <1>2, <1>3, <1>4
<1>7. Released(d, S) = Rebalance(d, open, n)
  BY DEF Released
<1>8. Live(d) => Rebalance(d, open, n).open = open
  <2>1. CASE n = 0
    BY <1>1, <1>4, <2>1 DEF Rebalance
  <2>2. CASE n # 0
    BY <2>2 DEF Rebalance, Book, Document
  <2>. QED  BY <2>1, <2>2
<1>. HIDE DEF u, open, n
<1>9. /\ Book(Rebalance(d, open, n), u)
      /\ Rebalance(d, open, n).hold = d.hold
      /\ Rebalance(d, open, n).original = d.original
      /\ Live(Rebalance(d, open, n)) <=> Live(d)
  BY <1>5, <1>6, BookRebalanced
<1>10. S = {} => Released(d, S) = d
  BY <1>1 DEF Released, Rebalance
<1>. QED  BY <1>3, <1>7, <1>8, <1>9, <1>10 DEF u, open

(* How totals change. *)
LEMMA PaidChanges ==
  ASSUME ApplicationsOK, ApplicationsOK', NEW S, S \subseteq Application, NEW P, P \subseteq S,
         \A i \in S \ P : application'[i].amount = application[i].amount
  PROVE  PaidOf(S)' = (PaidOf(S) - PaidOf(P)) + PaidOf(P)'
<1>1. IsFiniteSet(S) /\ \A i \in S : Paid[i] \in Int /\ Paid'[i] \in Int
  BY SlotsFinite DEF Paid, ApplicationsOK
<1>2. \A i \in S \ P : Paid'[i] = Paid[i]
  BY DEF Paid
<1>. QED  BY <1>1, <1>2, SumPartChanges DEF PaidOf

LEMMA PaidStays ==
  ASSUME ApplicationsOK, ApplicationsOK', NEW S, S \subseteq Application,
         \A i \in S : application'[i].amount = application[i].amount
  PROVE  PaidOf(S)' = PaidOf(S)
<1>1. IsFiniteSet(S) /\ \A i \in S : Paid'[i] = Paid[i]
  BY SlotsFinite DEF Paid
<1>. QED  BY <1>1, SumSame DEF PaidOf

LEMMA PaidOne ==
  ASSUME ApplicationsOK, ApplicationsOK', NEW S, S \subseteq Application, NEW i \in S,
         \A j \in S \ {i} : application'[j].amount = application[j].amount
  PROVE  PaidOf(S)' = (PaidOf(S) - application[i].amount) + application'[i].amount
<1>1. PaidOf(S)' = (PaidOf(S) - PaidOf({i})) + PaidOf({i})'
  BY PaidChanges
<1>2. /\ Paid[i] = application[i].amount /\ application[i].amount \in Int
      /\ Paid'[i] = application'[i].amount /\ application'[i].amount \in Int
  BY DEF Paid, ApplicationsOK
<1>3. PaidOf({i}) = Paid[i] /\ PaidOf({i})' = Paid'[i]
  BY <1>2, SumSingle DEF PaidOf
<1>. QED  BY <1>1, <1>2, <1>3

LEMMA PaidEnds ==
  ASSUME ApplicationsOK, ApplicationsOK', NEW E, application' = Ended(E),
         NEW S, S \subseteq Application
  PROVE  PaidOf(S)' = PaidOf(S) - PaidOf(E \cap S)
<1> DEFINE P == E \cap S
<1>1. PaidOf(S)' = (PaidOf(S) - PaidOf(P)) + PaidOf(P)'
  <2>1. \A i \in S \ P : application'[i].amount = application[i].amount
    BY DEF Ended
  <2>2. P \subseteq S
    OBVIOUS
  <2>. HIDE DEF P
  <2>. QED  BY <2>1, <2>2, PaidChanges
<1>2. PaidOf(P)' = 0
  <2>1. IsFiniteSet(P) /\ \A i \in P : Paid'[i] = 0
    <3>1. P \subseteq Application
      OBVIOUS
    <3>. QED  BY <3>1, SlotsFinite DEF Paid, Ended
  <2>. HIDE DEF P
  <2>. QED  BY <2>1, SumZero DEF PaidOf
<1>3. PaidOf(S) \in Nat /\ PaidOf(P) \in Nat
  BY PaidIsNat
<1>. QED  BY <1>1, <1>2, <1>3

LEMMA EndedOK ==
  ASSUME ApplicationsOK, NEW E, application' = Ended(E)
  PROVE  ApplicationsOK'
BY DEF ApplicationsOK, Ended

-----------------------------------------------------------------------------
(* A posted payment stays posted and a voided one voided. *)
PaymentKept(k) ==
  /\ Live(payment[k]) => Live(payment'[k])
  /\ payment[k].status = "voided" => payment'[k].status = "voided"

BooksStep ==
  /\ ApplicationsOK' /\ Books' /\ HoldsOK'
  /\ \A k \in Key : InstructionOK(k)'

LEMMA InstructionsStayOK ==
  ASSUME \A k \in Key : InstructionOK(k), UNCHANGED instruction,
         \A k \in Key : PaymentKept(k)
  PROVE  \A k \in Key : InstructionOK(k)'
BY DEF InstructionOK, PaymentKept

LEMMA TotalsStay ==
  ASSUME ApplicationsOK, UNCHANGED application
  PROVE  ApplicationsOK' /\ \A S : PaidOf(S)' = PaidOf(S)
BY DEF ApplicationsOK, PaidOf, Paid

LEMMA BillsStayBooked ==
  ASSUME Books, UNCHANGED <<bill, application>>
  PROVE  \A b \in Bill : Book(bill'[b], PaidOf(BillSlots(b))')
BY DEF Books, PaidOf, Paid

LEMMA PaymentsStayBooked ==
  ASSUME Books, UNCHANGED <<payment, application>>
  PROVE  /\ \A k \in Key : Book(payment'[k], PaidOf(PaymentSlots(k))') /\ ~payment'[k].hold
         /\ \A k \in Key : PaymentKept(k)
BY DEF Books, PaidOf, Paid, PaymentKept

LEMMA UntouchedTotal ==
  ASSUME NEW d, NEW t, Book(d, t), Untouched(d)
  PROVE  t = 0 /\ d \in Document /\ Live(d)
BY DEF Book, Untouched, Document, Live

(* Commands on bills that move no application. *)
LEMMA CreateVendorBillBooks ==
  ASSUME BooksInv, NEW b \in Bill, NEW amount \in DocumentAmount, CreateVendorBill(b, amount)
  PROVE  BooksStep
<1>1. /\ ~Exists(bill[b]) /\ bill' = [bill EXCEPT ![b] = NewDocument(amount)]
      /\ UNCHANGED <<payment, instruction, application, holdKey>>
  BY DEF CreateVendorBill
<1>2. ApplicationsOK' /\ \A S : PaidOf(S)' = PaidOf(S)
  BY <1>1, TotalsStay DEF BooksInv
<1>3. Book(NewDocument(amount), PaidOf(BillSlots(b)))
  BY <1>1, BookNew, AmountsAssumption DEF BooksInv, Books, Book
<1>4. \A c \in Bill : Book(bill'[c], PaidOf(BillSlots(c))')
  BY <1>1, <1>2, <1>3 DEF BooksInv, IInv, Typed, Books
<1>. QED
  BY <1>1, <1>2, <1>4, PaymentsStayBooked, InstructionsStayOK
     DEF BooksInv, BooksStep, Books, HoldsOK

LEMMA SetPaymentHoldBooks ==
  ASSUME BooksInv, NEW h \in HoldKey, NEW b \in Bill, NEW on \in BOOLEAN,
         SetPaymentHold(h, b, on)
  PROVE  BooksStep
<1>1. /\ Exists(bill[b]) /\ bill' = [bill EXCEPT ![b] = ChangedHold(bill[b], on)]
      /\ holdKey' = [holdKey EXCEPT ![h] = "changed"]
      /\ UNCHANGED <<payment, instruction, application>>
  BY DEF SetPaymentHold, Outstanding, Exists
<1>2. ApplicationsOK' /\ \A S : PaidOf(S)' = PaidOf(S)
  BY <1>1, TotalsStay DEF BooksInv
<1>3. Book(ChangedHold(bill[b], on), PaidOf(BillSlots(b)))
  BY <1>1, BookHeld DEF BooksInv, Books
<1>4. \A c \in Bill : Book(bill'[c], PaidOf(BillSlots(c))')
  BY <1>1, <1>2, <1>3 DEF BooksInv, IInv, Typed, Books
<1>5. HoldsOK'
  BY <1>1 DEF BooksInv, HoldsOK
<1>. QED
  BY <1>1, <1>2, <1>4, <1>5, PaymentsStayBooked, InstructionsStayOK
     DEF BooksInv, BooksStep, Books

LEMMA VoidBillBooks ==
  ASSUME BooksInv, NEW b \in Bill, Untouched(bill[b]),
         UNCHANGED <<payment, instruction, application, holdKey>>,
         bill'[b] = Voided(bill[b]),
         \A c \in Bill \ {b} :
           \/ bill'[c] = bill[c]
           \/ /\ ~Exists(bill[c])
              /\ \E amount \in DocumentAmount : bill'[c] = NewDocument(amount)
  PROVE  BooksStep
<1>1. ApplicationsOK' /\ \A S : PaidOf(S)' = PaidOf(S)
  BY TotalsStay DEF BooksInv
<1>2. PaidOf(BillSlots(b)) = 0 /\ bill[b] \in Document
  BY UntouchedTotal DEF BooksInv, Books
<1>3. Book(bill'[b], 0)
  BY <1>2, BookVoided
<1>4. ASSUME NEW c \in Bill \ {b} PROVE Book(bill'[c], PaidOf(BillSlots(c)))
  <2>1. Book(bill[c], PaidOf(BillSlots(c)))
    BY DEF BooksInv, Books
  <2>2. \A amount \in DocumentAmount : Book(NewDocument(amount), 0)
    BY BookNew, AmountsAssumption
  <2>. QED  BY <2>1, <2>2 DEF Book
<1>5. \A c \in Bill : Book(bill'[c], PaidOf(BillSlots(c))')
  BY <1>1, <1>2, <1>3, <1>4
<1>. QED
  BY <1>1, <1>5, PaymentsStayBooked, InstructionsStayOK
     DEF BooksInv, BooksStep, Books, HoldsOK

-----------------------------------------------------------------------------
(* Commands on payments and instructions that move no application. *)
LEMMA RecordPaymentBooks ==
  ASSUME BooksInv, NEW k \in Key, NEW amount \in DocumentAmount, RecordPayment(k, amount)
  PROVE  BooksStep
<1>1. /\ ~Exists(payment[k]) /\ payment' = [payment EXCEPT ![k] = NewDocument(amount)]
      /\ UNCHANGED <<bill, instruction, application, holdKey>>
  BY DEF RecordPayment
<1>2. ApplicationsOK' /\ \A S : PaidOf(S)' = PaidOf(S)
  BY <1>1, TotalsStay DEF BooksInv
<1>3. Book(NewDocument(amount), PaidOf(PaymentSlots(k))) /\ ~NewDocument(amount).hold
  BY <1>1, BookNew, AmountsAssumption DEF BooksInv, Books, Book
<1>4. \A j \in Key : Book(payment'[j], PaidOf(PaymentSlots(j))') /\ ~payment'[j].hold
  BY <1>1, <1>2, <1>3 DEF BooksInv, IInv, Typed, Books
<1>5. \A j \in Key : PaymentKept(j)
  BY <1>1 DEF PaymentKept, Live, Exists, BooksInv, IInv, Typed
<1>. QED
  BY <1>1, <1>2, <1>4, <1>5, BillsStayBooked, InstructionsStayOK
     DEF BooksInv, BooksStep, Books, HoldsOK

LEMMA InstructionBooks ==
  ASSUME BooksInv, UNCHANGED docVars, HoldsOK', \A k \in Key : InstructionOK(k)'
  PROVE  BooksStep
BY TotalsStay, BillsStayBooked, PaymentsStayBooked DEF BooksInv, BooksStep, Books, docVars

LEMMA ScheduleBooks ==
  ASSUME BooksInv, NEW k \in Key, NEW amounts \in Plans, Schedule(k, WithVersions(amounts))
  PROVE  BooksStep
<1> DEFINE plan == WithVersions(amounts)
<1>1. /\ UNCHANGED docVars /\ UNCHANGED holdKey
      /\ instruction' = [instruction EXCEPT ![k] =
           [status |-> "scheduled", version |-> 1, plan |-> plan]]
  BY DEF Schedule
<1>2. IsPlan(plan)
  BY DEF IsPlan, WithVersions, Plans, BooksInv, Books, Book, Document
<1>. HIDE DEF plan
<1>3. \A j \in Key : InstructionOK(j)'
  BY <1>1, <1>2 DEF InstructionOK, BooksInv, docVars, IInv, Typed
<1>. QED  BY <1>1, <1>3, InstructionBooks DEF BooksInv, HoldsOK

LEMMA CancelBooks ==
  ASSUME BooksInv, NEW k \in Key, Cancel(k)
  PROVE  BooksStep
<1>1. /\ UNCHANGED docVars /\ UNCHANGED holdKey /\ instruction[k].status = "scheduled"
      /\ instruction' = [instruction EXCEPT ![k] =
           [status |-> "voided", version |-> instruction[k].version + 1, plan |-> NoPlan]]
  BY DEF Cancel, BooksInv, IInv, Typed, InstructionFields
<1>2. instruction[k].version = 1
  BY <1>1 DEF BooksInv, InstructionOK
<1>3. IsPlan(NoPlan)
  BY DEF IsPlan, NoPlan
<1>4. \A j \in Key : InstructionOK(j)'
  BY <1>1, <1>2, <1>3 DEF InstructionOK, BooksInv, docVars, IInv, Typed
<1>. QED  BY <1>1, <1>4, InstructionBooks DEF BooksInv, HoldsOK

LEMMA CompensatedRecord ==
  ASSUME NEW old, DOMAIN old = InstructionFields, old.status = "cleared", old.version = 2
  PROVE  /\ Compensated(old).status = "voided" /\ Compensated(old).version = 3
         /\ Compensated(old).plan = old.plan
<1>1. Compensated(old) = [old EXCEPT !.status = "voided", !.version = 3]
  BY DEF Compensated
<1>. QED  BY <1>1 DEF InstructionFields

(* A payment is voided and its instruction with it. *)
LEMMA CompensatedOK ==
  ASSUME BooksInv, NEW k \in Key, instruction[k].status \in {"none", "cleared"},
         instruction' = [instruction EXCEPT ![k] = Compensated(@)],
         payment'[k].status = "voided", \A j \in Key \ {k} : PaymentKept(j)
  PROVE  \A j \in Key : InstructionOK(j)'
<1>1. instruction'[k] = Compensated(instruction[k]) /\ InstructionOK(k)
      /\ DOMAIN instruction[k] = InstructionFields
      /\ \A j \in Key \ {k} : instruction'[j] = instruction[j] /\ InstructionOK(j)
  BY DEF BooksInv, IInv, Typed
<1>2. InstructionOK(k)'
  <2>1. CASE instruction[k].status = "none"
    BY <1>1, <2>1 DEF InstructionOK, Compensated, Live
  <2>2. CASE instruction[k].status = "cleared"
    <3>1. instruction[k].version = 2 /\ IsPlan(instruction[k].plan)
      BY <1>1, <2>2 DEF InstructionOK
    <3>2. /\ instruction'[k].status = "voided" /\ instruction'[k].version = 3
          /\ instruction'[k].plan = instruction[k].plan
      BY <1>1, <2>2, <3>1, CompensatedRecord
    <3>. QED  BY <3>1, <3>2 DEF InstructionOK
  <2>. QED  BY <2>1, <2>2
<1>. QED  BY <1>1, <1>2 DEF InstructionOK, PaymentKept

LEMMA VoidPaymentBooks ==
  ASSUME BooksInv, NEW k \in Key, VoidPayment(k)
  PROVE  BooksStep
<1>1. /\ Untouched(payment[k]) /\ payment' = [payment EXCEPT ![k] = Voided(payment[k])]
      /\ UNCHANGED <<bill, application, holdKey>>
      /\ instruction[k].status \in {"none", "cleared"}
      /\ instruction' = [instruction EXCEPT ![k] = Compensated(@)]
  BY DEF VoidPayment, MayVoid
<1>2. ApplicationsOK' /\ \A S : PaidOf(S)' = PaidOf(S)
  BY <1>1, TotalsStay DEF BooksInv
<1>3. PaidOf(PaymentSlots(k)) = 0 /\ payment[k] \in Document /\ ~payment[k].hold
  BY <1>1, UntouchedTotal DEF BooksInv, Books
<1>4. Book(payment'[k], 0) /\ ~payment'[k].hold /\ payment'[k].status = "voided"
      /\ \A j \in Key \ {k} : payment'[j] = payment[j]
  <2>1. Voided(payment[k]).status = "voided"
    BY <1>3 DEF Voided, Document
  <2>2. Book(Voided(payment[k]), 0) /\ ~Voided(payment[k]).hold
    BY <1>3, BookVoided
  <2>. QED  BY <1>1, <2>1, <2>2 DEF BooksInv, IInv, Typed
<1>5. \A j \in Key : Book(payment'[j], PaidOf(PaymentSlots(j))') /\ ~payment'[j].hold
  BY <1>2, <1>3, <1>4 DEF BooksInv, Books
<1>6. \A j \in Key : InstructionOK(j)'
  BY <1>1, <1>4, CompensatedOK DEF PaymentKept
<1>. QED
  BY <1>1, <1>2, <1>5, <1>6, BillsStayBooked DEF BooksInv, BooksStep, Books, HoldsOK

-----------------------------------------------------------------------------
(* Commands that move applications. *)
LEMMA ApplyBooks ==
  ASSUME BooksInv, NEW k \in Key, NEW b \in Bill, NEW amount \in Amount, Apply(k, b, amount)
  PROVE  BooksStep
<1> DEFINE i == <<k, b, "direct">>
           newBill == Rebalance(bill[b], bill[b].open - amount, 1)
           newPayment == Rebalance(payment[k], payment[k].open - amount, 1)
<1>1. /\ application[i].status = "none"
      /\ Exists(payment[k]) /\ Exists(bill[b])
      /\ amount <= payment[k].open /\ amount <= bill[b].open
      /\ payment' = [payment EXCEPT ![k] = newPayment]
      /\ bill' = [bill EXCEPT ![b] = newBill]
      /\ application' = [application EXCEPT ![i] = [status |-> "applied", amount |-> amount]]
      /\ UNCHANGED <<instruction, holdKey>>
  BY DEF Apply
<1>2. amount \in Nat /\ amount > 0 /\ i \in Application
  BY AmountsAssumption DEF Amount, Application
<1>3. /\ application[i].amount = 0 /\ application'[i].amount = amount
      /\ \A j \in Application \ {i} : application'[j] = application[j]
  BY <1>1, <1>2 DEF BooksInv, ApplicationsOK
<1>4. ApplicationsOK'
  BY <1>1, <1>2 DEF BooksInv, ApplicationsOK
<1>5. i \in BillSlots(b) /\ i \in PaymentSlots(k)
      /\ (\A c \in Bill \ {b} : i \notin BillSlots(c))
      /\ (\A j \in Key \ {k} : i \notin PaymentSlots(j))
  BY DEF BillSlots, PaymentSlots
<1>. HIDE DEF i
<1>6. ASSUME NEW S, S \subseteq Application
      PROVE  PaidOf(S)' = IF i \in S THEN PaidOf(S) + amount ELSE PaidOf(S)
  <2>1. CASE i \in S
    <3>1. PaidOf(S)' = (PaidOf(S) - application[i].amount) + application'[i].amount
      BY <1>3, <1>4, <1>6, <2>1, PaidOne DEF BooksInv
    <3>. QED  BY <1>3, <1>6, <2>1, <3>1, PaidIsNat DEF BooksInv
  <2>2. CASE i \notin S
    BY <1>3, <1>4, <1>6, <2>2, PaidStays DEF BooksInv
  <2>. QED  BY <2>1, <2>2
<1>7. /\ Book(bill[b], PaidOf(BillSlots(b))) /\ Book(payment[k], PaidOf(PaymentSlots(k)))
      /\ ~payment[k].hold
  BY DEF BooksInv, Books
<1>8. ASSUME NEW d, NEW t, Book(d, t), Exists(d), amount <= d.open
      PROVE  /\ Book(Rebalance(d, d.open - amount, 1), t + amount)
             /\ Rebalance(d, d.open - amount, 1).hold = d.hold
             /\ Live(Rebalance(d, d.open - amount, 1)) /\ Live(d)
  <2>1. /\ d.open \in Nat /\ d.original \in Nat /\ t \in Nat /\ d.open > 0
        /\ Live(d) /\ d.open + t = d.original
    BY <1>2, <1>8 DEF Book, Document, Exists, Live
  <2> DEFINE open == d.open - amount
             u == t + amount
  <2>2. open \in Nat /\ u \in Nat /\ open + u = d.original
    BY <1>2, <1>8, <2>1
  <2>. HIDE DEF open, u
  <2>3. /\ Book(Rebalance(d, open, 1), u) /\ Rebalance(d, open, 1).hold = d.hold
        /\ Live(Rebalance(d, open, 1)) <=> Live(d)
    BY <1>8, <2>1, <2>2, BookRebalanced
  <2>. QED  BY <2>1, <2>3 DEF open, u
<1>9. /\ Book(newBill, PaidOf(BillSlots(b)) + amount)
      /\ Book(newPayment, PaidOf(PaymentSlots(k)) + amount)
      /\ ~newPayment.hold /\ Live(newPayment) /\ Live(payment[k])
  BY <1>1, <1>7, <1>8
<1>. HIDE DEF newBill, newPayment
<1>10. \A c \in Bill : Book(bill'[c], PaidOf(BillSlots(c))')
  BY <1>1, <1>5, <1>6, <1>9, SlotsAre DEF BooksInv, Books, IInv, Typed
<1>11. \A j \in Key : Book(payment'[j], PaidOf(PaymentSlots(j))') /\ ~payment'[j].hold
  BY <1>1, <1>5, <1>6, <1>9, SlotsAre DEF BooksInv, Books, IInv, Typed
<1>12. \A j \in Key : PaymentKept(j)
  BY <1>1, <1>9 DEF PaymentKept, BooksInv, IInv, Typed, Live
<1>. QED
  BY <1>1, <1>4, <1>10, <1>11, <1>12, InstructionsStayOK
     DEF BooksInv, BooksStep, Books, HoldsOK

(* The commands that only end applications: of a set E, each document      *)
(* releases those of its own.                                              *)
LEMMA EndsBook ==
  ASSUME BooksInv, NEW E, E \subseteq Applied(Application), application' = Ended(E),
         NEW d, NEW S, S \subseteq Application, Book(d, PaidOf(S))
  PROVE  /\ Book(Released(d, E \cap S), PaidOf(S)')
         /\ Released(d, E \cap S).hold = d.hold
         /\ Live(Released(d, E \cap S)) <=> Live(d)
         /\ d.status = "voided" => Released(d, E \cap S) = d
         /\ E \cap S = {} => Released(d, E \cap S) = d
         /\ Applied(S) \subseteq E => PaidOf(S)' = 0
<1> DEFINE P == E \cap S
<1>1. /\ P \subseteq S /\ P \subseteq Application /\ P \subseteq E
      /\ \A i \in P : application[i].status = "applied"
  BY DEF Applied
<1>2. ApplicationsOK /\ ApplicationsOK'
  BY EndedOK DEF BooksInv
<1>3. PaidOf(S)' = PaidOf(S) - PaidOf(P)
  BY <1>2, PaidEnds
<1>4. Applied(S) \subseteq E => P = Applied(S)
  BY DEF Applied
<1>. HIDE DEF P
<1>5. /\ Book(Released(d, P), PaidOf(S) - PaidOf(P))
      /\ Released(d, P).hold = d.hold
      /\ Live(Released(d, P)) <=> Live(d)
      /\ P # {} => Live(d)
      /\ P = {} => Released(d, P) = d
  BY <1>1, <1>2, BookReleased
<1>6. Applied(S) \subseteq E => PaidOf(S)' = 0
  BY <1>2, <1>3, <1>4, SlotTotal, PaidIsNat
<1>7. d.status = "voided" => ~Live(d)
  BY DEF Live
<1>. QED  BY <1>3, <1>5, <1>6, <1>7 DEF P

LEMMA EndsBookBill ==
  ASSUME BooksInv, NEW E, E \subseteq Applied(Application), application' = Ended(E),
         NEW b \in Bill
  PROVE  /\ Book(Released(bill[b], E \cap BillSlots(b)), PaidOf(BillSlots(b))')
         /\ E \cap BillSlots(b) = {} => Released(bill[b], E \cap BillSlots(b)) = bill[b]
         /\ Applied(BillSlots(b)) \subseteq E => PaidOf(BillSlots(b))' = 0
<1>1. BillSlots(b) \subseteq Application /\ Book(bill[b], PaidOf(BillSlots(b)))
  BY SlotsAre DEF BooksInv, Books
<1>. QED  BY <1>1, EndsBook

LEMMA EndsBookPayment ==
  ASSUME BooksInv, NEW E, E \subseteq Applied(Application), application' = Ended(E),
         NEW k \in Key
  PROVE  LET new == Released(payment[k], E \cap PaymentSlots(k)) IN
         /\ Book(new, PaidOf(PaymentSlots(k))')
         /\ ~new.hold
         /\ Live(new) <=> Live(payment[k])
         /\ payment[k].status = "voided" => new = payment[k]
         /\ E \cap PaymentSlots(k) = {} => new = payment[k]
         /\ Applied(PaymentSlots(k)) \subseteq E => PaidOf(PaymentSlots(k))' = 0
<1>1. /\ PaymentSlots(k) \subseteq Application
      /\ Book(payment[k], PaidOf(PaymentSlots(k))) /\ ~payment[k].hold
  BY SlotsAre DEF BooksInv, Books
<1>. QED  BY <1>1, EndsBook

LEMMA OwnApplications ==
  /\ \A b \in Bill : OfBill(b) = Applied(BillSlots(b)) /\ OfBill(b) \subseteq Applied(Application)
  /\ \A k \in Key : OfPayment(k) = Applied(PaymentSlots(k))
                      /\ OfPayment(k) \subseteq Applied(Application)
  /\ \A b \in Bill, k \in Key :
       /\ OfBill(b) \cap OfPayment(k) = OfBill(b) \cap PaymentSlots(k)
       /\ OfPayment(k) \cap OfBill(b) = OfPayment(k) \cap BillSlots(b)
  /\ \A b \in Bill : OfBill(b) \cap BillSlots(b) = OfBill(b)
  /\ \A k \in Key : OfPayment(k) \cap PaymentSlots(k) = OfPayment(k)
  /\ \A b, c \in Bill : b # c => OfBill(b) \cap BillSlots(c) = {}
  /\ \A k, j \in Key : k # j => OfPayment(k) \cap PaymentSlots(j) = {}
BY DEF OfBill, OfPayment, Applied, BillSlots, PaymentSlots, Application

LEMMA EndApplicationBooks ==
  ASSUME BooksInv, NEW i \in Application, EndApplication(i)
  PROVE  BooksStep
<1> DEFINE b == i[2]
           k == i[1]
           E == {i}
<1>1. /\ application[i].status = "applied" /\ application' = Ended(E)
      /\ payment' = [payment EXCEPT ![k] = Released(payment[k], E)]
      /\ bill' = [bill EXCEPT ![b] = Released(bill[b], E)]
      /\ UNCHANGED <<instruction, holdKey>>
  BY DEF EndApplication
<1>2. b \in Bill /\ k \in Key /\ E \subseteq Applied(Application)
  BY <1>1 DEF Application, Applied
<1>3. /\ \A c \in Bill : E \cap BillSlots(c) = IF c = b THEN E ELSE {}
      /\ \A j \in Key : E \cap PaymentSlots(j) = IF j = k THEN E ELSE {}
  BY DEF BillSlots, PaymentSlots, Application
<1>. HIDE DEF b, k, E
<1>4. ASSUME NEW c \in Bill PROVE Book(bill'[c], PaidOf(BillSlots(c))')
  <2>1. /\ Book(Released(bill[c], E \cap BillSlots(c)), PaidOf(BillSlots(c))')
        /\ E \cap BillSlots(c) = {} => Released(bill[c], E \cap BillSlots(c)) = bill[c]
    BY <1>1, <1>2, EndsBookBill, EndsBookPayment
  <2>2. bill'[c] = Released(bill[c], E \cap BillSlots(c))
    BY <1>1, <1>2, <1>3, <2>1 DEF BooksInv, IInv, Typed
  <2>. QED  BY <2>1, <2>2
<1>5. ASSUME NEW j \in Key
      PROVE  Book(payment'[j], PaidOf(PaymentSlots(j))') /\ ~payment'[j].hold /\ PaymentKept(j)
  <2> DEFINE new == Released(payment[j], E \cap PaymentSlots(j))
  <2>1. /\ Book(new, PaidOf(PaymentSlots(j))') /\ ~new.hold
        /\ Live(new) <=> Live(payment[j])
        /\ payment[j].status = "voided" => new = payment[j]
        /\ E \cap PaymentSlots(j) = {} => new = payment[j]
    BY <1>1, <1>2, EndsBookBill, EndsBookPayment
  <2>2. payment'[j] = new
    BY <1>1, <1>2, <1>3, <2>1 DEF BooksInv, IInv, Typed
  <2>. HIDE DEF new
  <2>. QED  BY <2>1, <2>2 DEF PaymentKept
<1>6. ApplicationsOK'
  BY <1>1, EndedOK DEF BooksInv
<1>. QED
  BY <1>1, <1>4, <1>5, <1>6, InstructionsStayOK DEF BooksInv, BooksStep, Books, HoldsOK

LEMMA VoidAndUnapplyBooks ==
  ASSUME BooksInv, NEW k \in Key, VoidAndUnapply(k)
  PROVE  BooksStep
<1> DEFINE E == OfPayment(k)
<1>1. /\ instruction[k].status \in {"none", "cleared"} /\ application' = Ended(E)
      /\ payment' = [payment EXCEPT ![k] = Voided(Released(payment[k], E))]
      /\ bill' = [b \in Bill |-> Released(bill[b], E \cap OfBill(b))]
      /\ instruction' = [instruction EXCEPT ![k] = Compensated(@)]
      /\ UNCHANGED holdKey
  BY DEF VoidAndUnapply
<1>2. /\ E \subseteq Applied(Application) /\ E = Applied(PaymentSlots(k))
      /\ E \cap PaymentSlots(k) = E
      /\ \A j \in Key \ {k} : E \cap PaymentSlots(j) = {}
      /\ \A b \in Bill : E \cap OfBill(b) = E \cap BillSlots(b)
  BY OwnApplications
<1>. HIDE DEF E
<1>3. \A b \in Bill : Book(bill'[b], PaidOf(BillSlots(b))')
  BY <1>1, <1>2, EndsBookBill, EndsBookPayment
<1>4. ASSUME NEW j \in Key \ {k}
      PROVE  Book(payment'[j], PaidOf(PaymentSlots(j))') /\ ~payment'[j].hold /\ PaymentKept(j)
  <2>1. /\ Book(Released(payment[j], E \cap PaymentSlots(j)), PaidOf(PaymentSlots(j))')
        /\ Released(payment[j], E \cap PaymentSlots(j)) = payment[j]
        /\ ~Released(payment[j], E \cap PaymentSlots(j)).hold
    BY <1>1, <1>2, EndsBookPayment
  <2>2. payment'[j] = payment[j]
    BY <1>1 DEF BooksInv, IInv, Typed
  <2>. QED  BY <2>1, <2>2 DEF PaymentKept
<1>5. /\ Book(payment'[k], PaidOf(PaymentSlots(k))') /\ ~payment'[k].hold
      /\ payment'[k].status = "voided"
  <2> DEFINE mid == Released(payment[k], E)
  <2>1. /\ Book(mid, PaidOf(PaymentSlots(k))') /\ ~mid.hold
        /\ PaidOf(PaymentSlots(k))' = 0
    BY <1>1, <1>2, EndsBookBill, EndsBookPayment
  <2>2. payment'[k] = Voided(mid)
    BY <1>1 DEF BooksInv, IInv, Typed
  <2>. HIDE DEF mid
  <2>3. mid \in Document /\ ~mid.hold
    BY <2>1 DEF Book, BooksInv, Books
  <2>4. Voided(mid).status = "voided"
    BY <2>3 DEF Voided, Document
  <2>. QED  BY <2>1, <2>2, <2>3, <2>4, BookVoided
<1>6. \A j \in Key : InstructionOK(j)'
  BY <1>1, <1>4, <1>5, CompensatedOK
<1>7. ApplicationsOK'
  BY <1>1, EndedOK DEF BooksInv
<1>. QED
  BY <1>1, <1>3, <1>4, <1>5, <1>6, <1>7 DEF BooksInv, BooksStep, Books, HoldsOK

LEMMA CorrectByVoidBooks ==
  ASSUME BooksInv, NEW b \in Bill, CorrectByVoid(b)
  PROVE  BooksStep
<1> DEFINE E == OfBill(b)
<1>1. /\ application' = Ended(E)
      /\ bill' = [bill EXCEPT ![b] = Voided(Released(bill[b], E))]
      /\ payment' = [k \in Key |-> Released(payment[k], E \cap OfPayment(k))]
      /\ UNCHANGED <<instruction, holdKey>>
  BY DEF CorrectByVoid
<1>2. /\ E \subseteq Applied(Application) /\ E = Applied(BillSlots(b))
      /\ E \cap BillSlots(b) = E
      /\ \A c \in Bill \ {b} : E \cap BillSlots(c) = {}
      /\ \A k \in Key : E \cap OfPayment(k) = E \cap PaymentSlots(k)
  BY OwnApplications
<1>. HIDE DEF E
<1>3. ASSUME NEW k \in Key
      PROVE  Book(payment'[k], PaidOf(PaymentSlots(k))') /\ ~payment'[k].hold /\ PaymentKept(k)
  <2> DEFINE new == Released(payment[k], E \cap PaymentSlots(k))
  <2>1. /\ Book(new, PaidOf(PaymentSlots(k))') /\ ~new.hold
        /\ Live(new) <=> Live(payment[k])
        /\ payment[k].status = "voided" => new = payment[k]
    BY <1>1, <1>2, EndsBookBill, EndsBookPayment
  <2>2. payment'[k] = new
    BY <1>1, <1>2
  <2>. HIDE DEF new
  <2>. QED  BY <2>1, <2>2 DEF PaymentKept
<1>4. ASSUME NEW c \in Bill \ {b}
      PROVE  Book(bill'[c], PaidOf(BillSlots(c))')
  <2>1. /\ Book(Released(bill[c], E \cap BillSlots(c)), PaidOf(BillSlots(c))')
        /\ Released(bill[c], E \cap BillSlots(c)) = bill[c]
    BY <1>1, <1>2, EndsBookBill, EndsBookPayment
  <2>2. bill'[c] = bill[c]
    BY <1>1 DEF BooksInv, IInv, Typed
  <2>. QED  BY <2>1, <2>2
<1>5. Book(bill'[b], PaidOf(BillSlots(b))')
  <2> DEFINE mid == Released(bill[b], E)
  <2>1. /\ Book(mid, PaidOf(BillSlots(b))') /\ PaidOf(BillSlots(b))' = 0
    BY <1>1, <1>2, EndsBookBill, EndsBookPayment
  <2>2. bill'[b] = Voided(mid)
    BY <1>1 DEF BooksInv, IInv, Typed
  <2>. HIDE DEF mid
  <2>3. mid \in Document
    BY <2>1 DEF Book
  <2>. QED  BY <2>1, <2>2, <2>3, BookVoided
<1>6. ApplicationsOK'
  BY <1>1, EndedOK DEF BooksInv
<1>. QED
  BY <1>1, <1>3, <1>4, <1>5, <1>6, InstructionsStayOK DEF BooksInv, BooksStep, Books, HoldsOK

-----------------------------------------------------------------------------
(* The payment of a plan. *)
LEMMA NothingPaid ==
  ASSUME ApplicationsOK, NEW S, S \subseteq Application, PaidOf(S) = 0
  PROVE  \A i \in S : application[i].amount = 0
<1>1. IsFiniteSet(S) /\ \A i \in S : Paid[i] = application[i].amount /\ Paid[i] \in Nat
  BY SlotsFinite DEF Paid, ApplicationsOK
<1>. QED  BY <1>1, SumZero DEF PaidOf

LEMMA PlanTotalIs ==
  ASSUME NEW plan, IsPlan(plan)
  PROVE  /\ PlanTotal(plan) \in Nat /\ Cardinality(DOMAIN plan) \in Nat
         /\ Cardinality(DOMAIN plan) = 0 => PlanTotal(plan) = 0
<1> DEFINE f == [b \in DOMAIN plan |-> plan[b].amount]
<1>1. IsFiniteSet(DOMAIN plan) /\ \A b \in DOMAIN plan : f[b] \in Nat
  BY FiniteAssumption, FS_Subset, AmountsAssumption DEF IsPlan, Amount
<1>2. PlanTotal(plan) = SumFunctionOnSet(f, DOMAIN plan)
  BY DEF PlanTotal, SumFunction
<1>. HIDE DEF f
<1>3. SumFunctionOnSet(f, DOMAIN plan) \in Nat
  BY <1>1, SumType
<1>4. Cardinality(DOMAIN plan) \in Nat
      /\ (Cardinality(DOMAIN plan) = 0 => DOMAIN plan = {})
  BY <1>1, FS_CardinalityType, FS_EmptySet
<1>. QED  BY <1>2, <1>3, <1>4, SumEmpty

LEMMA MakePaymentBooks ==
  ASSUME BooksInv, NEW k \in Key, NEW plan, IsPlan(plan), MakePayment(k, plan, 2),
         UNCHANGED holdKey
  PROVE  BooksStep
<1> DEFINE n == Cardinality(DOMAIN plan)
           total == PlanTotal(plan)
           paid == Rebalance(NewDocument(total), 0, n)
           Made == {<<k, b, "plan">> : b \in DOMAIN plan}
<1>1. /\ Payable(plan) /\ PaymentReady(k, plan)
      /\ payment' = [payment EXCEPT ![k] = paid]
      /\ bill' = [b \in Bill |->
           IF b \in DOMAIN plan
           THEN Rebalance(bill[b], bill[b].open - plan[b].amount, 1) ELSE bill[b]]
      /\ application' = [i \in Application |->
           IF i[1] = k /\ i[2] \in DOMAIN plan /\ i[3] = "plan"
           THEN [status |-> "applied", amount |-> plan[i[2]].amount]
           ELSE application[i]]
      /\ instruction' = [instruction EXCEPT ![k] =
           [status |-> "cleared", version |-> 2, plan |-> NoPlan]]
  BY DEF MakePayment
<1>2. DOMAIN plan \subseteq Bill /\ \A b \in DOMAIN plan : plan[b].amount \in Nat /\ plan[b].amount > 0
  BY AmountsAssumption DEF IsPlan, Amount
<1>3. total \in Nat /\ n \in Nat /\ (n = 0 => total = 0)
  BY PlanTotalIs
<1>4. PaidOf(PaymentSlots(k)) = 0
  BY <1>1 DEF PaymentReady, BooksInv, Books, Book
<1>5. \A i \in PaymentSlots(k) : application[i].amount = 0
  BY <1>4, NothingPaid, SlotsAre DEF BooksInv
<1>6. ApplicationsOK'
  BY <1>1, <1>2 DEF BooksInv, ApplicationsOK
<1>7. /\ \A i \in Application \ Made : application'[i] = application[i]
      /\ \A b \in DOMAIN plan : application'[<<k, b, "plan">>].amount = plan[b].amount
      /\ Made \subseteq PaymentSlots(k) /\ Made \subseteq Application
  <2>1. ASSUME NEW i \in Application, i[1] = k, i[2] \in DOMAIN plan, i[3] = "plan"
        PROVE  i \in Made
    <3>1. i = <<i[1], i[2], i[3]>>
      BY DEF Application
    <3>. QED  BY <2>1, <3>1
  <2>2. \A b \in DOMAIN plan : <<k, b, "plan">> \in Application
    BY <1>2 DEF Application
  <2>3. Made \subseteq PaymentSlots(k) /\ Made \subseteq Application
    BY <1>2 DEF PaymentSlots, Application
  <2>4. \A i \in Application \ Made : application'[i] = application[i]
    <3>. HIDE DEF Made
    <3>. QED  BY <1>1, <2>1
  <2>5. \A b \in DOMAIN plan : application'[<<k, b, "plan">>].amount = plan[b].amount
    BY <1>1, <2>2
  <2>. QED  BY <2>3, <2>4, <2>5
<1>8. PaidOf(PaymentSlots(k))' = total
  <2> DEFINE f == [b \in DOMAIN plan |-> plan[b].amount]
             name == [b \in DOMAIN plan |-> <<k, b, "plan">>]
             S == PaymentSlots(k)
  <2>1. /\ IsFiniteSet(S) /\ IsFiniteSet(DOMAIN plan)
        /\ \A i \in S : Paid'[i] \in Nat
    BY <1>2, <1>6, SlotsAre, SlotsFinite, FiniteAssumption, FS_Subset DEF Paid, ApplicationsOK
  <2>2. \A i \in S \ Made : Paid'[i] = 0
    BY <1>5, <1>7, SlotsAre DEF Paid
  <2>3. /\ \A b \in DOMAIN plan : Paid'[name[b]] \in Int /\ f[b] = Paid'[name[b]]
        /\ \A b, c \in DOMAIN plan : name[b] = name[c] => b = c
    BY <1>2, <1>7 DEF Paid
  <2>4. {name[b] : b \in DOMAIN plan} = Made
    OBVIOUS
  <2>5. total = SumFunctionOnSet(f, DOMAIN plan)
    BY DEF PlanTotal, SumFunction
  <2>. HIDE DEF f, name, S, Made, total
  <2>6. SumFunctionOnSet(f, DOMAIN plan) = SumFunctionOnSet(Paid', Made)
    BY <2>1, <2>3, <2>4, SumRenamed
  <2>7. SumFunctionOnSet(Paid', S) = SumFunctionOnSet(Paid', Made)
    <3>1. Made \subseteq S
      BY <1>7 DEF S
    <3>. QED  BY <2>1, <2>2, <3>1, SumWithout
  <2>. QED  BY <2>5, <2>6, <2>7 DEF PaidOf, S
<1>9. Book(paid, total) /\ ~paid.hold /\ Live(paid)
  <2>1. Book(NewDocument(total), 0) /\ ~NewDocument(total).hold
        /\ Live(NewDocument(total)) /\ NewDocument(total).original = total
    BY <1>3, BookNew DEF NewDocument, Live
  <2>. HIDE DEF n, total
  <2>. QED  BY <1>3, <2>1, BookRebalanced
<1>10. ASSUME NEW b \in Bill PROVE Book(bill'[b], PaidOf(BillSlots(b))')
  <2>1. Book(bill[b], PaidOf(BillSlots(b))) /\ BillSlots(b) \subseteq Application
    BY SlotsAre DEF BooksInv, Books
  <2>2. CASE b \in DOMAIN plan
    <3> DEFINE i == <<k, b, "plan">>
               open == bill[b].open - plan[b].amount
               u == PaidOf(BillSlots(b)) + plan[b].amount
    <3>1. i \in BillSlots(b) /\ i \in PaymentSlots(k)
          /\ application'[i].amount = plan[b].amount
          /\ \A j \in BillSlots(b) \ {i} : application'[j].amount = application[j].amount
      <4>1. \A j \in BillSlots(b) \ {i} : j \in Application \ Made
        BY <2>1 DEF BillSlots
      <4>. HIDE DEF Made
      <4>. QED  BY <1>7, <2>2, <4>1 DEF BillSlots, PaymentSlots
    <3>2. application[i].amount = 0
      BY <1>5, <3>1
    <3>. HIDE DEF i
    <3>3. PaidOf(BillSlots(b))' = (PaidOf(BillSlots(b)) - application[i].amount) + application'[i].amount
      BY <1>6, <2>1, <3>1, PaidOne DEF BooksInv
    <3>4. PaidOf(BillSlots(b))' = u
      BY <1>2, <2>1, <2>2, <3>1, <3>2, <3>3 DEF Book
    <3>5. /\ Live(bill[b]) /\ plan[b].amount <= bill[b].open
      BY <1>1, <2>2 DEF Payable, Live
    <3>6. /\ bill[b].open \in Nat /\ bill[b].original \in Nat /\ PaidOf(BillSlots(b)) \in Nat
          /\ bill[b].open + PaidOf(BillSlots(b)) = bill[b].original
      BY <2>1, <3>5 DEF Book, Document
    <3>7. open \in Nat /\ u \in Nat /\ open + u = bill[b].original
      BY <1>2, <2>2, <3>5, <3>6
    <3>8. bill'[b] = Rebalance(bill[b], open, 1)
      BY <1>1, <2>2
    <3>. HIDE DEF open, u
    <3>9. Book(Rebalance(bill[b], open, 1), u)
      BY <2>1, <3>5, <3>7, BookRebalanced
    <3>. QED  BY <3>4, <3>8, <3>9
  <2>3. CASE b \notin DOMAIN plan
    <3>1. \A i \in BillSlots(b) : i \in Application \ Made
      BY <2>1, <2>3 DEF BillSlots
    <3>. HIDE DEF Made
    <3>2. PaidOf(BillSlots(b))' = PaidOf(BillSlots(b))
      BY <1>6, <1>7, <2>1, <3>1, PaidStays DEF BooksInv
    <3>. QED  BY <1>1, <2>1, <2>3, <3>2
  <2>. QED  BY <2>2, <2>3
<1>11. ASSUME NEW j \in Key \ {k}
       PROVE  Book(payment'[j], PaidOf(PaymentSlots(j))') /\ ~payment'[j].hold /\ payment'[j] = payment[j]
  <2>1. \A i \in PaymentSlots(j) : i \in Application \ Made
    BY SlotsAre DEF PaymentSlots
  <2>. HIDE DEF Made
  <2>2. PaidOf(PaymentSlots(j))' = PaidOf(PaymentSlots(j))
    BY <1>6, <1>7, <2>1, PaidStays DEF BooksInv
  <2>3. payment'[j] = payment[j]
    BY <1>1 DEF BooksInv, IInv, Typed
  <2>. QED  BY <2>2, <2>3 DEF BooksInv, Books
<1>. HIDE DEF paid, n, total, Made
<1>12. payment'[k] = paid
  BY <1>1 DEF BooksInv, IInv, Typed
<1>13. \A j \in Key : InstructionOK(j)'
  <2>1. IsPlan(NoPlan)
    BY DEF IsPlan, NoPlan
  <2>2. instruction'[k] = [status |-> "cleared", version |-> 2, plan |-> NoPlan]
        /\ \A j \in Key \ {k} : instruction'[j] = instruction[j]
    BY <1>1 DEF BooksInv, IInv, Typed
  <2>3. InstructionOK(k)'
    BY <1>9, <1>12, <2>1, <2>2 DEF InstructionOK
  <2>4. \A j \in Key \ {k} : InstructionOK(j)'
    BY <1>11, <2>2 DEF InstructionOK, BooksInv
  <2>. QED  BY <2>3, <2>4
<1>. QED
  BY <1>6, <1>8, <1>9, <1>10, <1>11, <1>12, <1>13 DEF BooksInv, BooksStep, Books, HoldsOK

-----------------------------------------------------------------------------
(* The correction of a bill: its applications end, and what is reapplied   *)
(* is paid of the replacement by the same payments.                        *)
MovedTo(r, S) == {<<i[1], r, i[3]>> : i \in S}

LEMMA ReapplyFacts ==
  ASSUME NEW E, E \subseteq Application, NEW reapply \in [E -> 0..MaxAmount],
         NEW S, S \subseteq E
  PROVE  LET moved == {i \in S : reapply[i] > 0} IN
         /\ SumFunctionOnSet(reapply, S) \in Nat
         /\ SumFunctionOnSet(reapply, moved) = SumFunctionOnSet(reapply, S)
         /\ Cardinality(moved) \in Nat
         /\ Cardinality(moved) = 0 => SumFunctionOnSet(reapply, S) = 0
         /\ S = {} => Cardinality(moved) = 0
<1> DEFINE moved == {i \in S : reapply[i] > 0}
<1>1. /\ IsFiniteSet(S) /\ \A i \in S : reapply[i] \in Nat
      /\ moved \in SUBSET S /\ \A i \in S \ moved : reapply[i] = 0
  BY SlotsFinite, AmountsAssumption
<1>2. S = {} => moved = {}
  OBVIOUS
<1>. HIDE DEF moved
<1>3. /\ SumFunctionOnSet(reapply, S) \in Nat
      /\ SumFunctionOnSet(reapply, S) = SumFunctionOnSet(reapply, moved)
  BY <1>1, SumType, SumWithout
<1>4. Cardinality(moved) \in Nat /\ (Cardinality(moved) = 0 <=> moved = {})
  BY <1>1, FS_Subset, FS_CardinalityType, FS_EmptySet
<1>5. moved = {} => SumFunctionOnSet(reapply, moved) = 0
  BY SumEmpty
<1>. QED  BY <1>2, <1>3, <1>4, <1>5 DEF moved

LEMMA MovedAmounts ==
  ASSUME BooksInv, NEW b \in Bill, NEW r \in Bill, b # r,
         PaidOf(BillSlots(r)) = 0, NEW reapply \in [OfBill(b) -> 0..MaxAmount],
         application' = Moved(b, reapply, r)
  PROVE  /\ ApplicationsOK'
         /\ \A i \in Application \ MovedTo(r, OfBill(b)) :
              application'[i].amount = IF i \in OfBill(b) THEN 0 ELSE application[i].amount
         /\ \A i \in OfBill(b) :
              /\ <<i[1], r, i[3]>> \in Application
              /\ application'[<<i[1], r, i[3]>>].amount = reapply[i]
              /\ application[<<i[1], r, i[3]>>].amount = 0
         /\ \A i, j \in OfBill(b) : i[1] = j[1] /\ i[3] = j[3] => i = j
<1> DEFINE E == OfBill(b)
           old(i) == <<i[1], b, i[3]>>
<1>1. application' = [i \in Application |->
        IF i[2] = r /\ old(i) \in E /\ reapply[old(i)] > 0
        THEN [status |-> "applied", amount |-> reapply[old(i)]]
        ELSE IF i \in E THEN [status |-> "ended", amount |-> 0] ELSE application[i]]
  BY DEF Moved, Ended
<1>2. \A i \in E : reapply[i] \in Nat
  BY AmountsAssumption
<1>3. ApplicationsOK'
  <2>. HIDE DEF E, old
  <2>. QED  BY <1>1, <1>2 DEF BooksInv, ApplicationsOK
<1>4. \A i \in E : i = <<i[1], b, i[3]>> /\ i \in Application
                   /\ <<i[1], r, i[3]>> \in BillSlots(r)
  BY DEF OfBill, Applied, BillSlots, Application
<1>5. \A i \in BillSlots(r) : i \in Application /\ application[i].amount = 0 /\ i \notin E
  BY NothingPaid, SlotsAre DEF BooksInv, BillSlots, OfBill, Applied
<1>6. ASSUME NEW i \in E
      PROVE  /\ <<i[1], r, i[3]>> \in Application
             /\ application'[<<i[1], r, i[3]>>].amount = reapply[i]
             /\ application[<<i[1], r, i[3]>>].amount = 0
  <2> DEFINE j == <<i[1], r, i[3]>>
  <2>1. j \in Application /\ application[j].amount = 0 /\ j \notin E
    BY <1>4, <1>5
  <2>2. old(j) = i /\ j[2] = r
    BY <1>4
  <2>3. reapply[i] \in Nat
    BY <1>2
  <2>. HIDE DEF j, E, old
  <2>4. application'[j].amount = reapply[i]
    BY <1>1, <1>6, <2>1, <2>2, <2>3
  <2>. QED  BY <2>1, <2>4 DEF j
<1>7. ASSUME NEW i \in Application \ MovedTo(r, E)
      PROVE  application'[i].amount = IF i \in E THEN 0 ELSE application[i].amount
  <2>1. ~(i[2] = r /\ old(i) \in E)
    <3>1. SUFFICES ASSUME i[2] = r, old(i) \in E PROVE FALSE
      OBVIOUS
    <3>2. i = <<old(i)[1], r, old(i)[3]>>
      BY <3>1 DEF Application
    <3>3. i \in MovedTo(r, E)
      <4>. HIDE DEF old
      <4>. QED  BY <3>1, <3>2 DEF MovedTo
    <3>. QED  BY <3>3
  <2>. HIDE DEF E, old
  <2>. QED  BY <1>1, <2>1
<1>. QED  BY <1>3, <1>4, <1>6, <1>7

(* What a document's applications come to after the correction: of those   *)
(* of the corrected bill, what is reapplied of each.                       *)
LEMMA MovedTotals ==
  ASSUME BooksInv, NEW b \in Bill, NEW r \in Bill, b # r,
         PaidOf(BillSlots(r)) = 0, NEW reapply \in [OfBill(b) -> 0..MaxAmount],
         application' = Moved(b, reapply, r),
         NEW S, S \subseteq Application, NEW gone, gone = OfBill(b) \cap S,
         NEW again, again \subseteq OfBill(b),
         MovedTo(r, again) = MovedTo(r, OfBill(b)) \cap S
  PROVE  PaidOf(S)' = (PaidOf(S) - PaidOf(gone)) + SumFunctionOnSet(reapply, again)
<1> DEFINE E == OfBill(b)
           new == MovedTo(r, again)
           P == gone \cup new
           name == [i \in again |-> <<i[1], r, i[3]>>]
<1>1. /\ ApplicationsOK /\ ApplicationsOK'
      /\ \A i \in Application \ MovedTo(r, E) :
           application'[i].amount = IF i \in E THEN 0 ELSE application[i].amount
      /\ \A i \in E :
           /\ <<i[1], r, i[3]>> \in Application
           /\ application'[<<i[1], r, i[3]>>].amount = reapply[i]
           /\ application[<<i[1], r, i[3]>>].amount = 0
      /\ \A i, j \in E : i[1] = j[1] /\ i[3] = j[3] => i = j
  BY MovedAmounts DEF BooksInv
<1>2. \A i \in E : i[2] = b /\ i \in Application
  BY DEF OfBill, Applied, Application
<1>3. gone \cap new = {} /\ new \subseteq S /\ new \subseteq Application /\ gone \subseteq S
  BY <1>2 DEF MovedTo
<1>4. \A i \in gone : application'[i].amount = 0
  <2>1. \A i \in gone : i \in Application \ MovedTo(r, E) /\ i \in E
    BY <1>2 DEF MovedTo
  <2>. QED  BY <1>1, <2>1
<1>5. \A i \in new : application[i].amount = 0
  BY <1>1 DEF MovedTo
<1>6. \A i \in S \ P : application'[i].amount = application[i].amount
  <2>1. ASSUME NEW i \in S \ P PROVE i \in Application \ MovedTo(r, E) /\ i \notin E
    OBVIOUS
  <2>. HIDE DEF E, P
  <2>. QED  BY <1>1, <2>1
<1>7. /\ IsFiniteSet(P) /\ IsFiniteSet(again) /\ P \subseteq S /\ P \subseteq Application
      /\ \A i \in P : Paid[i] \in Nat /\ Paid'[i] \in Nat
  <2>1. P \subseteq S /\ P \subseteq Application /\ again \subseteq Application
    BY <1>2, <1>3
  <2>. HIDE DEF P
  <2>. QED  BY <1>1, <2>1, SlotsFinite DEF Paid, ApplicationsOK
<1>8. PaidOf(S)' = (PaidOf(S) - PaidOf(P)) + PaidOf(P)'
  <2>. HIDE DEF P
  <2>. QED  BY <1>1, <1>6, <1>7, PaidChanges
<1>9. PaidOf(P) = PaidOf(gone)
  <2>1. \A i \in P \ gone : Paid[i] = 0
    BY <1>3, <1>5 DEF Paid
  <2>2. gone \in SUBSET P
    OBVIOUS
  <2>. HIDE DEF P
  <2>. QED  BY <1>7, <2>1, <2>2, SumWithout DEF PaidOf
<1>10. PaidOf(P)' = SumFunctionOnSet(Paid', new)
  <2>1. \A i \in P \ new : Paid'[i] = 0
    BY <1>3, <1>4, <1>7 DEF Paid
  <2>2. new \in SUBSET P
    OBVIOUS
  <2>. HIDE DEF P, new
  <2>. QED  BY <1>7, <2>1, <2>2, SumWithout DEF PaidOf
<1>11. SumFunctionOnSet(reapply, again) = SumFunctionOnSet(Paid', new)
  <2>1. /\ \A i \in again : Paid'[name[i]] \in Int /\ reapply[i] = Paid'[name[i]]
        /\ \A i, j \in again : name[i] = name[j] => i = j
    BY <1>1, AmountsAssumption DEF Paid
  <2>2. new = {name[i] : i \in again}
    BY DEF MovedTo
  <2>. HIDE DEF name, new
  <2>. QED  BY <1>7, <2>1, <2>2, SumRenamed
<1>. QED  BY <1>8, <1>9, <1>10, <1>11

(* The applications of one payment to the bill. *)
LEMMA MovedOfPayment ==
  ASSUME BooksInv, NEW b \in Bill, NEW r \in Bill, b # r,
         PaidOf(BillSlots(r)) = 0, NEW reapply \in [OfBill(b) -> 0..MaxAmount],
         application' = Moved(b, reapply, r), NEW k \in Key,
         NEW G, G = OfBill(b) \cap OfPayment(k)
  PROVE  PaidOf(PaymentSlots(k))' =
           (PaidOf(PaymentSlots(k)) - PaidOf(G)) + SumFunctionOnSet(reapply, G)
<1>1. PaymentSlots(k) \subseteq Application
  BY SlotsAre
<1>2. G = OfBill(b) \cap PaymentSlots(k) /\ G \subseteq OfBill(b)
  BY DEF OfPayment, OfBill, Applied, PaymentSlots, Application
<1>3. MovedTo(r, G) = MovedTo(r, OfBill(b)) \cap PaymentSlots(k)
  <2>1. \A i \in OfBill(b) :
          /\ i \in Application
          /\ <<i[1], r, i[3]>> \in PaymentSlots(k) <=> i \in PaymentSlots(k)
    BY DEF OfBill, Applied, Application, PaymentSlots
  <2>. QED  BY <1>2, <2>1 DEF MovedTo
<1>. QED  BY <1>1, <1>2, <1>3, MovedTotals DEF MovedTo

LEMMA CorrectBillBooks ==
  ASSUME BooksInv, NEW b \in Bill, NEW r \in Bill, NEW amount \in DocumentAmount,
         NEW reapply \in [OfBill(b) -> 0..MaxAmount], CorrectBill(b, r, amount, reapply)
  PROVE  BooksStep
<1> DEFINE E == OfBill(b)
           moved == {i \in E : reapply[i] > 0}
           refunded == [k \in Key |-> Released(payment[k], E \cap OfPayment(k))]
           again == [k \in Key |-> moved \cap OfPayment(k)]
           whole == SumFunctionOnSet(reapply, E)
           back(k) == SumFunctionOnSet(reapply, E \cap OfPayment(k))
<1>1. /\ Live(bill[b]) /\ ~Exists(bill[r]) /\ b # r
      /\ Reapplicable(b, amount, reapply)
      /\ bill' = [bill EXCEPT
           ![b] = Voided(Released(bill[b], E)),
           ![r] = Rebalance(Replacement(b, amount), amount - SumFunction(reapply), Cardinality(moved))]
      /\ payment' = [k \in Key |->
           Rebalance(refunded[k], refunded[k].open - SumFunctionOnSet(reapply, again[k]),
                     Cardinality(again[k]))]
      /\ application' = Moved(b, reapply, r)
      /\ UNCHANGED <<instruction, holdKey>>
  BY DEF CorrectBill, Live, Exists
<1>2. PaidOf(BillSlots(r)) = 0
  BY <1>1 DEF BooksInv, Books, Book
<1>3. ApplicationsOK /\ ApplicationsOK'
  BY <1>1, <1>2, MovedAmounts DEF BooksInv
<1>4. /\ E \subseteq Application /\ \A i \in E : application[i].status = "applied"
      /\ \A i \in E : i = <<i[1], b, i[3]>>
  BY DEF OfBill, Applied, Application
<1>5. SumFunction(reapply) = whole /\ amount \in Nat /\ whole <= amount
  <2>1. DOMAIN reapply = E
    OBVIOUS
  <2>. HIDE DEF E
  <2>. QED  BY <1>1, <2>1, AmountsAssumption DEF SumFunction, Reapplicable
<1>6. ASSUME NEW S, S \subseteq E PROVE MovedTo(r, S) \subseteq BillSlots(r)
  BY <1>4, <1>6 DEF MovedTo, BillSlots, Application
<1>7. Book(bill'[b], PaidOf(BillSlots(b))')
  <2>1. /\ BillSlots(b) \subseteq Application /\ Book(bill[b], PaidOf(BillSlots(b)))
        /\ E \subseteq BillSlots(b)
    BY SlotsAre, OwnApplications DEF BooksInv, Books, Applied
  <2>2. Released(bill[b], E) \in Document
    <3>. HIDE DEF E
    <3>. QED  BY <1>3, <1>4, <2>1, BookReleased DEF Book
  <2>3. PaidOf(BillSlots(b))' = (PaidOf(BillSlots(b)) - PaidOf(E)) + SumFunctionOnSet(reapply, {})
    <3>1. MovedTo(r, {}) = MovedTo(r, E) \cap BillSlots(b)
      BY <1>1, <1>4 DEF MovedTo, BillSlots
    <3>2. E = E \cap BillSlots(b) /\ {} \subseteq E
      BY <2>1
    <3>. QED  BY <1>1, <1>2, <2>1, <3>1, <3>2, MovedTotals
  <2>4. PaidOf(BillSlots(b)) = PaidOf(E)
    BY <1>3, <2>1, SlotTotal, OwnApplications
  <2>5. PaidOf(BillSlots(b))' = 0
    <3>1. PaidOf(E) \in Nat
      BY <1>3, <1>4, PaidIsNat
    <3>. QED  BY <2>3, <2>4, <3>1, SumEmpty
  <2>6. bill'[b] = Voided(Released(bill[b], E))
    BY <1>1 DEF BooksInv, IInv, Typed
  <2>. QED  BY <2>2, <2>5, <2>6, BookVoided
<1>8. Book(bill'[r], PaidOf(BillSlots(r))')
  <2> DEFINE d == Replacement(b, amount)
             n == Cardinality(moved)
             open == amount - whole
  <2>1. Book(d, 0) /\ Live(d) /\ d.original = amount
    <3>1. Book(NewDocument(amount), 0) /\ Exists(NewDocument(amount))
      BY <1>5, BookNew, NewDocumentShaped
    <3>2. Book(ChangedHold(NewDocument(amount), TRUE), 0)
      BY <3>1, BookHeld
    <3>3. Live(d) /\ d.original = amount
      BY DEF Replacement, NewDocument, ChangedHold, Live
    <3>. QED  BY <3>1, <3>2, <3>3 DEF Replacement
  <2>2. whole \in Nat /\ n \in Nat /\ (n = 0 => whole = 0)
    <3>. HIDE DEF E
    <3>. QED  BY <1>4, ReapplyFacts DEF E
  <2>3. open \in Nat /\ open + whole = d.original
    BY <1>5, <2>1, <2>2
  <2>4. bill'[r] = Rebalance(d, open, n)
    BY <1>1, <1>5 DEF BooksInv, IInv, Typed
  <2>5. PaidOf(BillSlots(r))' = (PaidOf(BillSlots(r)) - PaidOf({})) + whole
    <3>1. MovedTo(r, E) = MovedTo(r, E) \cap BillSlots(r)
      BY <1>6
    <3>2. {} = E \cap BillSlots(r)
      BY <1>1, OwnApplications
    <3>3. BillSlots(r) \subseteq Application
      BY SlotsAre
    <3>. QED  BY <1>1, <1>2, <3>1, <3>2, <3>3, MovedTotals
  <2>6. PaidOf({}) = 0
    BY SumEmpty DEF PaidOf
  <2>. HIDE DEF d, n, open, whole
  <2>7. Book(Rebalance(d, open, n), whole)
    BY <2>1, <2>2, <2>3, BookRebalanced
  <2>. QED  BY <1>2, <2>2, <2>4, <2>5, <2>6, <2>7
<1>9. ASSUME NEW c \in Bill \ {b, r} PROVE Book(bill'[c], PaidOf(BillSlots(c))')
  <2>1. BillSlots(c) \subseteq Application /\ Book(bill[c], PaidOf(BillSlots(c)))
    BY SlotsAre DEF BooksInv, Books
  <2>2. PaidOf(BillSlots(c))' = (PaidOf(BillSlots(c)) - PaidOf({})) + SumFunctionOnSet(reapply, {})
    <3>1. MovedTo(r, {}) = MovedTo(r, E) \cap BillSlots(c)
      BY <1>4 DEF MovedTo, BillSlots
    <3>2. {} = E \cap BillSlots(c) /\ {} \subseteq E
      BY OwnApplications
    <3>. QED  BY <1>1, <1>2, <2>1, <3>1, <3>2, MovedTotals
  <2>3. PaidOf(BillSlots(c))' = PaidOf(BillSlots(c))
    <3>1. PaidOf({}) = 0 /\ SumFunctionOnSet(reapply, {}) = 0
      BY SumEmpty DEF PaidOf
    <3>. QED  BY <2>1, <2>2, <3>1 DEF Book
  <2>4. bill'[c] = bill[c]
    BY <1>1 DEF BooksInv, IInv, Typed
  <2>. QED  BY <2>1, <2>3, <2>4
<1>10. ASSUME NEW k \in Key
       PROVE  Book(payment'[k], PaidOf(PaymentSlots(k))') /\ ~payment'[k].hold /\ PaymentKept(k)
  <2> DEFINE G == E \cap OfPayment(k)
             S == PaymentSlots(k)
             mid == Released(payment[k], G)
             n == Cardinality(again[k])
             open == mid.open - back(k)
             left == PaidOf(S) - PaidOf(G)
             u == left + back(k)
  <2>1. /\ S \subseteq Application /\ Book(payment[k], PaidOf(S)) /\ ~payment[k].hold
        /\ G = E \cap S /\ G \subseteq S /\ G \subseteq E
        /\ \A i \in G : application[i].status = "applied"
    BY <1>4, SlotsAre, OwnApplications DEF BooksInv, Books
  <2>2. again[k] = {i \in G : reapply[i] > 0}
    OBVIOUS
  <2>3. /\ back(k) \in Nat /\ n \in Nat
        /\ SumFunctionOnSet(reapply, again[k]) = back(k)
        /\ n = 0 => back(k) = 0
        /\ G = {} => n = 0
    <3>1. back(k) = SumFunctionOnSet(reapply, G) /\ reapply \in [E -> 0..MaxAmount]
      OBVIOUS
    <3>2. E \subseteq Application /\ G \subseteq E
      BY <1>4, <2>1
    <3>. HIDE DEF G, again, E, back
    <3>. QED  BY <2>2, <3>1, <3>2, ReapplyFacts
  <2>4. PaidOf(S)' = u
    <3>1. SumFunctionOnSet(reapply, G) = back(k) /\ G = E \cap OfPayment(k)
      OBVIOUS
    <3>. HIDE DEF G, back
    <3>2. PaidOf(S)' = (PaidOf(S) - PaidOf(G)) + SumFunctionOnSet(reapply, G)
      <4>1. G = OfBill(b) \cap OfPayment(k)
        BY <3>1
      <4>. HIDE DEF E, moved, refunded, again
      <4>. QED  BY <1>1, <1>2, <4>1, MovedOfPayment
    <3>. QED  BY <3>1, <3>2
  <2>5. back(k) <= payment[k].open + Total(G)
    BY <1>1 DEF Reapplicable
  <2>6. payment'[k] = Rebalance(mid, open, n)
    BY <1>1, <2>3
  <2>. HIDE DEF G, S, mid, n, u, open, left, back, again, E
  <2>7. /\ Book(mid, left) /\ ~mid.hold
        /\ Live(mid) <=> Live(payment[k])
        /\ Live(payment[k]) => mid.open = payment[k].open + Total(G)
        /\ G # {} => Live(payment[k])
        /\ G = {} => mid = payment[k]
    BY <1>3, <2>1, BookReleased DEF mid, left
  <2>8. left \in Nat /\ u \in Nat /\ (n = 0 => u = left)
    BY <2>3, <2>7 DEF Book, u
  <2>9. n # 0 => Live(mid) /\ open \in Nat /\ open + u = mid.original
    <3>1. SUFFICES ASSUME n # 0 PROVE Live(mid) /\ open \in Nat /\ open + u = mid.original
      OBVIOUS
    <3>2. Live(mid) /\ mid.open = payment[k].open + Total(G)
      BY <2>3, <2>7, <3>1
    <3>3. /\ mid.open \in Nat /\ mid.original \in Nat
          /\ mid.open + left = mid.original
      BY <2>7, <3>2 DEF Book, Document
    <3>. QED  BY <2>3, <2>5, <2>8, <3>2, <3>3 DEF open, u
  <2>10. /\ Book(Rebalance(mid, open, n), u)
         /\ Rebalance(mid, open, n).hold = mid.hold
         /\ Live(Rebalance(mid, open, n)) <=> Live(mid)
    BY <2>3, <2>7, <2>8, <2>9, BookRebalanced
  <2>11. payment[k].status = "voided" => payment'[k] = payment[k]
    BY <2>3, <2>6, <2>7 DEF Live, Rebalance
  <2>. QED  BY <2>4, <2>6, <2>7, <2>10, <2>11 DEF PaymentKept, S
<1>11. \A c \in Bill : Book(bill'[c], PaidOf(BillSlots(c))')
  BY <1>7, <1>8, <1>9
<1>. QED
  BY <1>1, <1>3, <1>10, <1>11, InstructionsStayOK DEF BooksInv, BooksStep, Books, HoldsOK

-----------------------------------------------------------------------------
LEMMA ReplaceBillBooks ==
  ASSUME BooksInv, NEW b \in Bill, NEW r \in Bill, NEW amount \in DocumentAmount,
         ReplaceBill(b, r, amount)
  PROVE  BooksStep
<1>1. /\ Untouched(bill[b]) /\ ~Exists(bill[r]) /\ b # r
      /\ bill' = [bill EXCEPT ![b] = Voided(bill[b]), ![r] = NewDocument(amount)]
      /\ UNCHANGED <<payment, instruction, application, holdKey>>
  BY DEF ReplaceBill, Untouched, Exists
<1>2. /\ bill'[b] = Voided(bill[b]) /\ bill'[r] = NewDocument(amount)
      /\ \A c \in Bill \ {b, r} : bill'[c] = bill[c]
  BY <1>1 DEF BooksInv, IInv, Typed
<1>. QED  BY <1>1, <1>2, VoidBillBooks

LEMMA BillCommandBooks ==
  ASSUME BooksInv, BillCommand
  PROVE  BooksStep
<1>1. ASSUME NEW b \in Bill, VoidBill(b)
      PROVE  BooksStep
  <2>1. /\ Untouched(bill[b]) /\ bill' = [bill EXCEPT ![b] = Voided(bill[b])]
        /\ UNCHANGED <<payment, instruction, application, holdKey>>
    BY <1>1 DEF VoidBill
  <2>2. bill'[b] = Voided(bill[b]) /\ \A c \in Bill \ {b} : bill'[c] = bill[c]
    BY <2>1 DEF BooksInv, IInv, Typed
  <2>. QED  BY <2>1, <2>2, VoidBillBooks
<1>. QED
  BY <1>1, CreateVendorBillBooks, SetPaymentHoldBooks, ReplaceBillBooks, CorrectByVoidBooks,
     CorrectBillBooks DEF BillCommand

LEMMA PaymentCommandBooks ==
  ASSUME BooksInv, PaymentCommand
  PROVE  BooksStep
<1>1. ASSUME NEW k \in Key, NEW amounts \in Plans, RecordAndApply(k, WithVersions(amounts))
      PROVE  BooksStep
  <2>1. IsPlan(WithVersions(amounts))
    BY DEF IsPlan, WithVersions, Plans, BooksInv, Books, Book, Document
  <2>. QED  BY <1>1, <2>1, MakePaymentBooks DEF RecordAndApply
<1>2. ASSUME NEW k \in Key, Clear(k)
      PROVE  BooksStep
  <2>1. /\ instruction[k].status = "scheduled" /\ UNCHANGED holdKey
        /\ MakePayment(k, instruction[k].plan, instruction[k].version + 1)
    BY <1>2 DEF Clear
  <2>2. IsPlan(instruction[k].plan) /\ instruction[k].version + 1 = 2
    BY <2>1 DEF BooksInv, InstructionOK
  <2>. QED  BY <2>1, <2>2, MakePaymentBooks
<1>3. ASSUME NEW k \in Key, RetireRecording(k)
      PROVE  BooksStep
  <2>1. UNCHANGED <<docVars, instruction, holdKey>>
    BY <1>3 DEF RetireRecording
  <2>2. HoldsOK' /\ \A j \in Key : InstructionOK(j)'
    BY <2>1 DEF BooksInv, HoldsOK, InstructionOK, docVars
  <2>. QED  BY <2>1, <2>2, InstructionBooks
<1>. QED
  BY <1>1, <1>2, <1>3, RecordPaymentBooks, ScheduleBooks, CancelBooks, ApplyBooks,
     VoidPaymentBooks, VoidAndUnapplyBooks DEF PaymentCommand

LEMMA StepKeepsBooks ==
  ASSUME BooksInv, [Next]_vars
  PROVE  BooksStep
<1>1. ASSUME NEW h \in HoldKey, RetirePaymentHold(h)
      PROVE  BooksStep
  <2>1. UNCHANGED <<docVars, instruction>> /\ holdKey' = [holdKey EXCEPT ![h] = "retired"]
    BY <1>1 DEF RetirePaymentHold, docVars
  <2>2. HoldsOK' /\ \A j \in Key : InstructionOK(j)'
    BY <2>1 DEF BooksInv, HoldsOK, InstructionOK, docVars
  <2>. QED  BY <2>1, <2>2, InstructionBooks
<1>2. CASE UNCHANGED vars
  <2>1. HoldsOK' /\ (\A j \in Key : InstructionOK(j)') /\ UNCHANGED docVars
    BY <1>2 DEF BooksInv, HoldsOK, InstructionOK, docVars, vars
  <2>. QED  BY <2>1, InstructionBooks
<1>. QED
  BY <1>1, <1>2, BillCommandBooks, PaymentCommandBooks, EndApplicationBooks DEF Next

LEMMA NothingToBook ==
  ASSUME Init
  PROVE  BooksInv
<1>1. Book(NoDocument, 0) /\ ~NoDocument.hold
  BY DEF Book, NoDocument, Document, Exists, Live
<1>2. ApplicationsOK
  BY DEF Init, ApplicationsOK
<1>3. ASSUME NEW S, S \subseteq Application PROVE PaidOf(S) = 0
  <2>1. IsFiniteSet(S) /\ \A i \in S : Paid[i] = 0
    BY <1>3, SlotsFinite DEF Init, Paid
  <2>. QED  BY <2>1, SumZero DEF PaidOf
<1>4. Books
  BY <1>1, <1>3, SlotsAre DEF Init, Books
<1>5. \A k \in Key : InstructionOK(k)
  BY DEF Init, InstructionOK, IsPlan, NoPlan
<1>. QED  BY <1>2, <1>4, <1>5, InitIsIInv DEF Init, BooksInv, HoldsOK

(* Documents are functions of their names throughout. *)
Tables ==
  /\ bill = [b \in Bill |-> bill[b]]
  /\ payment = [k \in Key |-> payment[k]]

LEMMA TablesStay ==
  ASSUME Typed, Tables, [Next]_vars
  PROVE  Tables'
<1>1. CASE BillCommand
  <2>1. PICK b \in Bill :
          \/ \E amount \in DocumentAmount : CreateVendorBill(b, amount)
          \/ \E h \in HoldKey, on \in BOOLEAN : SetPaymentHold(h, b, on)
          \/ VoidBill(b)
          \/ CorrectByVoid(b)
          \/ \E r \in Bill, amount \in DocumentAmount : ReplaceBill(b, r, amount)
          \/ \E r \in Bill, amount \in DocumentAmount, reapply \in [OfBill(b) -> 0..MaxAmount] :
               CorrectBill(b, r, amount, reapply)
    BY <1>1 DEF BillCommand
  <2>2. (\E amount \in DocumentAmount : CreateVendorBill(b, amount)) => Tables'
    BY DEF CreateVendorBill, Tables, Typed
  <2>3. (\E h \in HoldKey, on \in BOOLEAN : SetPaymentHold(h, b, on)) => Tables'
    BY DEF SetPaymentHold, Tables, Typed
  <2>4. VoidBill(b) => Tables'
    BY DEF VoidBill, Tables, Typed
  <2>5. CorrectByVoid(b) => Tables'
    BY DEF CorrectByVoid, Tables, Typed
  <2>6. ASSUME NEW r \in Bill, NEW amount \in DocumentAmount, ReplaceBill(b, r, amount)
        PROVE  Tables'
    <3>1. /\ bill' = [bill EXCEPT ![b] = Voided(bill[b]), ![r] = NewDocument(amount)]
          /\ UNCHANGED payment
      BY <2>6 DEF ReplaceBill, Untouched, Exists
    <3>. QED  BY <3>1 DEF Tables, Typed
  <2>7. ASSUME NEW r \in Bill, NEW amount \in DocumentAmount,
               NEW reapply \in [OfBill(b) -> 0..MaxAmount], CorrectBill(b, r, amount, reapply)
        PROVE  Tables'
    BY <2>7 DEF CorrectBill, Tables, Typed
  <2>. QED  BY <2>1, <2>2, <2>3, <2>4, <2>5, <2>6, <2>7
<1>2. CASE PaymentCommand
  <2>1. ASSUME NEW k \in Key, NEW plan, NEW version, MakePayment(k, plan, version)
        PROVE  Tables'
    BY <2>1 DEF MakePayment, Tables, Typed
  <2>2. ASSUME NEW k \in Key, NEW amount \in DocumentAmount, RecordPayment(k, amount)
        PROVE  Tables'
    BY <2>2 DEF RecordPayment, Tables, Typed
  <2>3. ASSUME UNCHANGED docVars
        PROVE  Tables'
    BY <2>3 DEF docVars, Tables
  <2>4. ASSUME NEW k \in Key, NEW b \in Bill, NEW amount \in Amount, Apply(k, b, amount)
        PROVE  Tables'
    BY <2>4 DEF Apply, Tables, Typed
  <2>5. ASSUME NEW k \in Key, VoidPayment(k)
        PROVE  Tables'
    BY <2>5 DEF VoidPayment, Tables, Typed
  <2>6. ASSUME NEW k \in Key, VoidAndUnapply(k)
        PROVE  Tables'
    BY <2>6 DEF VoidAndUnapply, Tables, Typed
  <2>. QED
    BY <1>2, <2>1, <2>2, <2>3, <2>4, <2>5, <2>6
       DEF PaymentCommand, Schedule, RecordAndApply, Clear, Cancel, RetireRecording
<1>3. ASSUME NEW h \in HoldKey, RetirePaymentHold(h)
      PROVE  Tables'
  BY <1>3 DEF Tables, RetirePaymentHold
<1>4. ASSUME NEW i \in Application, EndApplication(i)
      PROVE  Tables'
  BY <1>4 DEF Tables, Typed, EndApplication
<1>5. CASE UNCHANGED vars
  BY <1>5 DEF Tables, vars
<1>. QED  BY <1>1, <1>2, <1>3, <1>4, <1>5 DEF Next

(* What every bill, payment and instruction is known to be.                *)
THEOREM BooksAreKept == Spec => [](BooksInv /\ Tables)
<1>1. Init => BooksInv /\ Tables
  BY NothingToBook DEF Init, Tables
<1>2. BooksInv /\ Tables /\ [Next]_vars => (BooksInv /\ Tables)'
  <2> SUFFICES ASSUME BooksInv, Tables, [Next]_vars
               PROVE  BooksInv' /\ Tables'
    OBVIOUS
  <2>1. IInv' /\ Typed
    BY StepIsGood DEF Good, BooksInv, IInv
  <2>. QED  BY <2>1, StepKeepsBooks, TablesStay DEF BooksInv, BooksStep
<1>. QED  BY <1>1, <1>2, PTL DEF Spec

(* Types of the tables of bills, payments, instructions and applications.  *)
THEOREM BillPaymentsTyped == Spec => []TypeOK
<1>1. BooksInv /\ Tables => TypeOK
  <2> SUFFICES ASSUME BooksInv, Tables
               PROVE  TypeOK
    OBVIOUS
  <2>1. /\ bill \in [Bill -> Document] /\ payment \in [Key -> Document]
        /\ \A k \in Key : ~payment[k].hold
    BY DEF Tables, BooksInv, Books, Book
  <2>2. ASSUME NEW d, NEW t, Book(d, t) PROVE d.open <= d.original
    <3>1. d.open \in Nat /\ d.original \in Nat /\ t \in Nat
      BY <2>2 DEF Book, Document
    <3>. QED  BY <2>2, <3>1 DEF Book, Exists, Live
  <2>3. \A d \in {bill[b] : b \in Bill} \cup {payment[k] : k \in Key} : d.open <= d.original
    BY <2>2 DEF BooksInv, Books
  <2>4. \A k \in Key :
          /\ instruction[k].status \in {"none", "scheduled", "cleared", "voided"}
          /\ instruction[k].version \in 0..3
          /\ IsPlan(instruction[k].plan)
    BY DEF BooksInv, InstructionOK
  <2>. QED
    BY <2>1, <2>3, <2>4 DEF TypeOK, BooksInv, IInv, Typed, ApplicationsOK, HoldsOK
<1>. QED  BY <1>1, BooksAreKept, PTL

(* What is open of a bill or payment is what its applications leave of it, *)
(* and a voided one has none: after every way in which commands apply,     *)
(* end, move and compensate applications, for any amounts.                 *)
THEOREM BillBalances == Spec => []BalancesMatchApplications
<1>1. BooksInv => BalancesMatchApplications
  <2> SUFFICES ASSUME BooksInv
               PROVE  BalancesMatchApplications
    OBVIOUS
  <2>1. ASSUME NEW d, NEW S, NEW A, S \subseteq Application, A = Applied(S), Book(d, PaidOf(S))
        PROVE  Balanced(d, A)
    <3>1. /\ A \subseteq Application /\ \A i \in A : application[i].status = "applied"
      BY <2>1 DEF Applied
    <3>2. PaidOf(S) = PaidOf(A)
      BY <2>1, SlotTotal DEF BooksInv
    <3>3. Total(A) = PaidOf(A) /\ (PaidOf(A) = 0 <=> A = {})
      BY <3>1, ActiveTotal DEF BooksInv
    <3>. HIDE <2>1
    <3>4. d \in Document /\ Book(d, Total(A)) /\ (Total(A) = 0 <=> A = {})
      BY <2>1, <3>2, <3>3 DEF Book
    <3>. QED  BY <3>4 DEF Balanced, Book, Document, Live, Exists
  <2>. QED  BY <2>1, SlotsAre DEF BalancesMatchApplications, OfBill, OfPayment, BillSlots,
                                  PaymentSlots, BooksInv, Books
<1>. QED  BY <1>1, BooksAreKept, PTL

(* An instruction says cleared only of a posted payment and compensated    *)
(* only of a voided one; nothing is recorded under a retired key.          *)
THEOREM InstructionsAgree == Spec => []InstructionAgreesWithPayment
<1>1. BooksInv => InstructionAgreesWithPayment
  BY DEF BooksInv, InstructionOK, InstructionAgreesWithPayment, IInv, RetiredIsUnrecorded, Unrecorded
<1>. QED  BY <1>1, BooksAreKept, PTL
-----------------------------------------------------------------------------
(* The documents of a source together *)

(* What was paid of a bill, or used of a payment.                          *)
Used(d) == IF Live(d) THEN d.original - d.open ELSE 0

LEMMA UsedIsPaid ==
  ASSUME NEW d, NEW t, Book(d, t)
  PROVE  Used(d) = t
BY DEF Book, Used, Live, Exists, Document

(* The applications of all documents are those of each.                    *)
LEMMA PaidByParts ==
  ASSUME ApplicationsOK, NEW D, IsFiniteSet(D),
         NEW of, \A i \in Application : of[i] \in D,
         NEW part, \A d \in D : part[d] \subseteq Application,
         \A d \in D : \A i \in Application : i \in part[d] <=> of[i] = d,
         NEW h, \A d \in D : h[d] = PaidOf(part[d])
  PROVE  SumFunctionOnSet(h, D) = PaidOf(Application)
<1>1. IsFiniteSet(Application) /\ \A i \in Application : Paid[i] \in Int
  BY PaidIsNat, SlotsFinite
<1>. QED  BY <1>1, SumByParts DEF PaidOf

(* What was paid of all bills is what was used of all payments, and is the *)
(* total of the active applications: no sequence of payments, corrections  *)
(* and voids makes or loses money between them.                            *)
PayablesReconcile ==
  /\ SumFunctionOnSet([b \in Bill |-> Used(bill[b])], Bill) = Total(Applied(Application))
  /\ SumFunctionOnSet([k \in Key |-> Used(payment[k])], Key) = Total(Applied(Application))

(* The balances the trigger keeps for each document add up over a source,  *)
(* whichever commands applied, ended or moved the applications             *)
(* (applySubledgerPayment, endSubledgerApplication, runPostedBillPayment-  *)
(* Void, runPostedVendorBillLifecycle).                                    *)
THEOREM PayablesAddUp == Spec => []PayablesReconcile
<1>1. ASSUME BooksInv PROVE PayablesReconcile
  <2>1. IsFiniteSet(Bill) /\ IsFiniteSet(Key) /\ ApplicationsOK
    BY <1>1, FiniteAssumption DEF BooksInv
  <2>2. SumFunctionOnSet([b \in Bill |-> Used(bill[b])], Bill) = PaidOf(Application)
    <3> DEFINE of == [i \in Application |-> i[2]]
               part == [b \in Bill |-> BillSlots(b)]
               used == [b \in Bill |-> Used(bill[b])]
    <3>1. \A i \in Application : of[i] \in Bill
      BY DEF Application
    <3>2. /\ \A b \in Bill : part[b] \subseteq Application
          /\ \A b \in Bill : \A i \in Application : i \in part[b] <=> of[i] = b
      BY DEF Application, BillSlots
    <3>3. \A b \in Bill : used[b] = PaidOf(part[b])
      BY <1>1, UsedIsPaid DEF BooksInv, Books
    <3>. HIDE DEF of, part, used
    <3>4. SumFunctionOnSet(used, Bill) = PaidOf(Application)
      BY <2>1, <3>1, <3>2, <3>3, PaidByParts
    <3>. QED  BY <3>4 DEF used
  <2>3. SumFunctionOnSet([k \in Key |-> Used(payment[k])], Key) = PaidOf(Application)
    <3> DEFINE of == [i \in Application |-> i[1]]
               part == [k \in Key |-> PaymentSlots(k)]
               used == [k \in Key |-> Used(payment[k])]
    <3>1. \A i \in Application : of[i] \in Key
      BY DEF Application
    <3>2. /\ \A k \in Key : part[k] \subseteq Application
          /\ \A k \in Key : \A i \in Application : i \in part[k] <=> of[i] = k
      BY DEF Application, PaymentSlots
    <3>3. \A k \in Key : used[k] = PaidOf(part[k])
      BY <1>1, UsedIsPaid DEF BooksInv, Books
    <3>. HIDE DEF of, part, used
    <3>4. SumFunctionOnSet(used, Key) = PaidOf(Application)
      BY <2>1, <3>1, <3>2, <3>3, PaidByParts
    <3>. QED  BY <3>4 DEF used
  <2>4. PaidOf(Application) = Total(Applied(Application))
    <3>1. /\ Applied(Application) \subseteq Application
          /\ \A i \in Applied(Application) : application[i].status = "applied"
      BY DEF Applied
    <3>. QED  BY <2>1, <3>1, SlotTotal, ActiveTotal
  <2>. QED  BY <2>2, <2>3, <2>4 DEF PayablesReconcile
<1>. QED  BY <1>1, BooksAreKept, PTL
=============================================================================
