---------------------------- MODULE Receivables ----------------------------
(***************************************************************************)
(* Invoices, the receipts, credits and write-offs applied to them, and the *)
(* refunds paid out, in one source.  Every command runs in one transaction *)
(* under locks that order it with the others, so each is one step here; a  *)
(* refused command changes nothing and is no step, nor is a retry of one   *)
(* that is recorded, which is answered from its receipt.  Clients name the *)
(* versions they read; with other versions they are refused.               *)
(*                                                                         *)
(* A document is named by its idempotency key.  An active application is   *)
(* named by its two documents and a number, the first that no other active *)
(* one has; its key, which serves once, is not kept, nor is an application *)
(* that has ended: no later command depends on it.                         *)
(***************************************************************************)
EXTENDS Naturals, FiniteSets, Functions, BankLines

CONSTANTS
  Invoice, Receipt, Credit, WriteOff, Refund,  \* idempotency keys of documents
  DocumentAmount,                              \* amounts of documents
  MaxAmount,                                   \* bound: amount of an application
  MaxApplications,                             \* bound: active applications of a document to another
  MaxDocuments                                 \* bound: documents at once

Document == Invoice \cup Receipt \cup Credit \cup WriteOff \cup Refund
Adjustment == Credit \cup WriteOff \cup Refund

ASSUME DocumentsAssumption ==
  /\ IsFiniteSet(Document)
  /\ Invoice \cap (Receipt \cup Adjustment) = {}
  /\ Receipt \cap Adjustment = {}
  /\ Credit \cap (WriteOff \cup Refund) = {}
  /\ WriteOff \cap Refund = {}
  /\ Transaction = Receipt
ASSUME ReceivableAmountsAssumption ==
  /\ DocumentAmount \subseteq Nat \ {0}
  /\ {MaxAmount, MaxDocuments} \subseteq Nat
  /\ MaxApplications \in Nat \ {0}

(* The application types: what may be applied to what. *)
Applicable ==
  ((Receipt \cup Credit \cup WriteOff) \X Invoice) \cup ((Receipt \cup Credit) \X Refund)
Amount == 1..MaxAmount

Application == {<<p[1], p[2], n>> : p \in Applicable, n \in 1..MaxApplications}

VARIABLES
  doc,           \* subledger_documents
  application,   \* amounts of the active subledger_applications, 0 for others
  cancellation,  \* the applications of invoice_voids
  returned,      \* refunds with customerPaymentReturn metadata
  retired,       \* keys with a collection-retired event
  reversed       \* documents whose journal has a reversal or void link

docVars == <<doc, application>>
vars == <<doc, application, cancellation, returned, retired, reversed, bankVars>>

TypeOK ==
  /\ doc \in [Document ->
       [status : {"none", "open", "partially_applied", "settled", "voided"},
        original : Nat, open : Nat]]
  /\ \A d \in Document : doc[d].open <= doc[d].original
  /\ application \in [Application -> Nat]
  /\ cancellation \subseteq Application
  /\ returned \subseteq Refund
  /\ retired \subseteq Receipt
  /\ reversed \subseteq Document
  /\ BankTypeOK
-----------------------------------------------------------------------------
NoDocument == [status |-> "none", original |-> 0, open |-> 0]
NewDocument(amount) == [status |-> "open", original |-> amount, open |-> amount]
Settled(amount) == [status |-> "settled", original |-> amount, open |-> 0]

Init ==
  /\ doc = [d \in Document |-> NoDocument]
  /\ application = [a \in Application |-> 0]
  /\ cancellation = {}
  /\ returned = {}
  /\ retired = {}
  /\ reversed = {}
  /\ BankInit

Exists(d) == doc[d].status # "none"
Untouched(d) == doc[d].status = "open" /\ doc[d].open = doc[d].original

Active(a) == application[a] > 0
From(d) == {a \in Application : a[1] = d /\ Active(a)}
To(d) == {a \in Application : a[2] = d /\ Active(a)}
Total(S) == SumFunctionOnSet(application, S)

(* The balance trigger, after an application or the end of one.  It asks   *)
(* nothing of the status the document had.                                 *)
Rebalance(row, open) ==
  [row EXCEPT !.open = open,
              !.status = IF open = 0 THEN "settled"
                         ELSE IF open = row.original THEN "open"
                         ELSE "partially_applied"]
Spent(row, amount) == IF amount = 0 THEN row ELSE Rebalance(row, row.open - amount)
Restored(row, amount) == IF amount = 0 THEN row ELSE Rebalance(row, row.open + amount)

Voided(row) == [row EXCEPT !.status = "voided", !.open = 0]

(* A bound of the model, on every step. *)
WithinBounds == Cardinality({d \in Document : Exists(d)'}) <= MaxDocuments

(* The name of the next application of a document to another. *)
IsNext(a) ==
  /\ ~Active(a)
  /\ \A n \in 1..(a[3] - 1) : Active(<<a[1], a[2], n>>)
-----------------------------------------------------------------------------
(* createInvoice, issueCreditMemo. *)
CreateOpen(d, amount) ==
  /\ ~Exists(d)
  /\ doc' = [doc EXCEPT ![d] = NewDocument(amount)]
  /\ UNCHANGED <<application, cancellation, returned, retired, reversed, bankVars>>

(* recordWriteOff, and issueRefund of money no credit is named for: there  *)
(* is nothing left to apply.                                               *)
CreateSettled(d, amount) ==
  /\ ~Exists(d)
  /\ doc' = [doc EXCEPT ![d] = Settled(amount)]
  /\ UNCHANGED <<application, cancellation, returned, retired, reversed, bankVars>>

(* Mutant of ReceiptKeyFree: a retirement of the key is not asked for. *)
UnusedReceiptKey(r) == ~Exists(r)

(* createSubledgerDocument, for a receipt of its own or of a collection. *)
ReceiptKeyFree(r) == ~Exists(r) /\ r \notin retired

(* recordCustomerPayment. *)
RecordReceipt(r, amount) ==
  /\ ReceiptKeyFree(r)
  /\ doc' = [doc EXCEPT ![r] = NewDocument(amount)]
  /\ UNCHANGED <<application, cancellation, returned, retired, reversed, bankVars>>

(* resolveCustomerPaymentCollection: a receipt and its application to an   *)
(* invoice, or its retirement.                                             *)
Collect(a, amount, applied) ==
  /\ a[1] \in Receipt /\ a[2] \in Invoice
  /\ ReceiptKeyFree(a[1])
  /\ IsNext(a)
  /\ applied <= amount /\ applied <= doc[a[2]].open
  /\ doc' = [doc EXCEPT ![a[1]] = Spent(NewDocument(amount), applied), ![a[2]] = Spent(@, applied)]
  /\ application' = [application EXCEPT ![a] = applied]
  /\ UNCHANGED <<cancellation, returned, retired, reversed, bankVars>>

RetireCollection(r) ==
  /\ ReceiptKeyFree(r)
  /\ \E i \in Invoice : Exists(i)
  /\ retired' = retired \cup {r}
  /\ UNCHANGED <<docVars, cancellation, returned, reversed, bankVars>>

(* settleInvoiceWriteOff: a write-off that is open and applied at once. *)
SettleWriteOff(a, amount) ==
  /\ a[1] \in WriteOff
  /\ ~Exists(a[1])
  /\ IsNext(a)
  /\ amount <= doc[a[2]].open
  /\ doc' = [doc EXCEPT ![a[1]] = Settled(amount), ![a[2]] = Spent(@, amount)]
  /\ application' = [application EXCEPT ![a] = amount]
  /\ UNCHANGED <<cancellation, returned, retired, reversed, bankVars>>
-----------------------------------------------------------------------------
(* Mutant of Coverable: what the target has open is not asked. *)
CoverableBySource(a, amount) == amount <= doc[a[1]].open

(* assertSubledgerApplicationDocuments, and the trigger again. *)
Coverable(a, amount) == amount <= doc[a[1]].open /\ amount <= doc[a[2]].open

(* applySubledgerPayment, of any type. *)
Apply(a, amount) ==
  /\ Coverable(a, amount)
  /\ IsNext(a)
  /\ doc' = [doc EXCEPT ![a[1]] = Spent(@, amount), ![a[2]] = Spent(@, amount)]
  /\ application' = [application EXCEPT ![a] = amount]
  /\ UNCHANGED <<cancellation, returned, retired, reversed, bankVars>>

(* Mutants of Detachable. *)
DetachableIfReturned(a) ==
  /\ Active(a)
  /\ a[2] \in Refund => a[1] \in Receipt
  /\ a \notin cancellation

DetachableIfCancelled(a) == Active(a) /\ a[2] \notin Refund

(* What a client may end: no funding of a refund, no money paid back, no   *)
(* credit that cancels an invoice.                                         *)
Detachable(a) == Active(a) /\ a[2] \notin Refund /\ a \notin cancellation

(* endSubledgerApplication, to unapply or to void. *)
EndApplication(a) ==
  /\ Detachable(a)
  /\ application' = [application EXCEPT ![a] = 0]
  /\ doc' = [doc EXCEPT ![a[1]] = Restored(@, application[a]),
                        ![a[2]] = Restored(@, application[a])]
  /\ UNCHANGED <<cancellation, returned, retired, reversed, bankVars>>
-----------------------------------------------------------------------------
(* What credits pay for a refund: amounts by credit. *)
Fundings == UNION {[S -> Amount] : S \in (SUBSET Credit) \ {{}}}

(* Mutant of Released: the credits stay spent. *)
NotReleased(f) == [doc EXCEPT ![f] = Voided(@)]

(* The void of a refund gives its credits back. *)
Released(f) ==
  [d \in Document |->
     IF d = f THEN Voided(doc[d])
     ELSE IF d \in Credit THEN Restored(doc[d], Total(From(d) \cap To(f))) ELSE doc[d]]

(* assertIssuedAdjustmentLifecycleState and the slot of the journal.  A    *)
(* cash return is no adjustment.                                           *)
MayEnd(d) ==
  /\ d \notin reversed
  /\ d \notin returned
  /\ IF d \in Credit THEN Untouched(d) ELSE doc[d].status = "settled"

(* runIssuedAdjustmentLifecycle, up to the replacement: of a refund the    *)
(* funding ends, of a write-off nothing does.                              *)
AdjustmentEnded(d) ==
  IF d \in Refund THEN Released(d) ELSE [doc EXCEPT ![d] = Voided(@)]

FundingEnded(d) ==
  [a \in Application |->
     IF d \in Refund /\ a \in To(d) THEN 0 ELSE application[a]]

VoidAdjustment(d) ==
  /\ MayEnd(d)
  /\ doc' = AdjustmentEnded(d)
  /\ application' = FundingEnded(d)
  /\ reversed' = reversed \cup {d}
  /\ UNCHANGED <<cancellation, returned, retired, bankVars>>

(* The replacement of a credit is open; of a write-off, or of a refund not *)
(* funded anew, settled.                                                   *)
ReplaceAdjustment(d, new, amount) ==
  /\ MayEnd(d)
  /\ ~Exists(new)
  /\ \E X \in {Credit, WriteOff, Refund} : {d, new} \subseteq X
  /\ doc' = [AdjustmentEnded(d) EXCEPT
       ![new] = IF d \in Credit THEN NewDocument(amount) ELSE Settled(amount)]
  /\ application' = FundingEnded(d)
  /\ reversed' = reversed \cup {d}
  /\ UNCHANGED <<cancellation, returned, retired, bankVars>>

FundedBy(f, funding) == {<<c, f, 1>> : c \in DOMAIN funding}

(* issueRefund of credits, from the balances that "before" has. *)
Funded(before, f, funding) ==
  [d \in Document |->
     CASE d = f -> Settled(SumFunction(funding))
       [] d \in DOMAIN funding -> Spent(before[d], funding[d])
       [] OTHER -> before[d]]

WithFunding(rows, f, funding) ==
  [a \in Application |-> IF a \in FundedBy(f, funding) THEN funding[a[1]] ELSE rows[a]]

FundRefund(f, funding) ==
  /\ ~Exists(f)
  /\ \A c \in DOMAIN funding : funding[c] <= doc[c].open
  /\ doc' = Funded(doc, f, funding)
  /\ application' = WithFunding(application, f, funding)
  /\ UNCHANGED <<cancellation, returned, retired, reversed, bankVars>>

(* A refund replaced by one that the credits fund, its own among them. *)
ReplaceFunding(f, new, funding) ==
  /\ MayEnd(f)
  /\ ~Exists(new)
  /\ \A c \in DOMAIN funding : funding[c] <= Released(f)[c].open
  /\ doc' = Funded(Released(f), new, funding)
  /\ application' = WithFunding(FundingEnded(f), new, funding)
  /\ reversed' = reversed \cup {f}
  /\ UNCHANGED <<cancellation, returned, retired, bankVars>>
-----------------------------------------------------------------------------
(* Money paid back so far of a receipt. *)
Returned(r) == Total({a \in From(r) : a[2] \in Refund})

(* A plan that releases exactly what the receipt has not left: how much of *)
(* each of its applications.                                               *)
ReleasePlans(r, amount) ==
  LET missing == IF amount > doc[r].open THEN amount - doc[r].open ELSE 0 IN
  {plan \in UNION {[S -> Amount] : S \in SUBSET {a \in From(r) : a[2] \in Invoice}} :
     /\ \A a \in DOMAIN plan : plan[a] <= application[a]
     /\ SumFunction(plan) = missing}

(* returnCustomerPaymentCash: each application of the plan ends and one of *)
(* its residual is made, then a refund is recorded and settled by the      *)
(* receipt.  To void a receipt's cash is to return all of it at once.      *)
ReturnCash(r, f, amount) ==
  /\ Exists(r) /\ doc[r].status # "voided"
  /\ ~Exists(f)
  /\ amount <= doc[r].original - Returned(r)
  /\ \E plan \in ReleasePlans(r, amount) :
       /\ application' = [a \in Application |->
            CASE a = <<r, f, 1>> -> amount
              [] a \in DOMAIN plan -> application[a] - plan[a]
              [] OTHER -> application[a]]
       /\ doc' = [d \in Document |->
            CASE d = r -> Spent(Restored(doc[r], SumFunction(plan)), amount)
              [] d = f -> Settled(amount)
              [] OTHER -> Restored(doc[d], SumFunctionOnSet(plan, DOMAIN plan \cap To(d)))]
  /\ returned' = returned \cup {f}
  /\ UNCHANGED <<cancellation, retired, reversed, bankVars>>

(* prepareNative: a receipt none of whose applications is active, and that *)
(* no bank line is matched to.                                             *)
VoidReceipt(r) ==
  /\ Untouched(r)
  /\ r \notin reversed
  /\ ~Matched(r)
  /\ doc' = [doc EXCEPT ![r] = Voided(@)]
  /\ reversed' = reversed \cup {r}
  /\ UNCHANGED <<application, cancellation, returned, retired, bankVars>>
-----------------------------------------------------------------------------
(* voidIssuedInvoice: a credit for all of the invoice, applied to it. *)
VoidInvoice(i, c) ==
  /\ Exists(i) /\ doc[i].open = doc[i].original
  /\ \A a \in cancellation : a[2] # i
  /\ ~Exists(c)
  /\ doc' = [doc EXCEPT ![i] = Settled(@.original), ![c] = Settled(doc[i].original)]
  /\ application' = [application EXCEPT ![<<c, i, 1>>] = doc[i].original]
  /\ cancellation' = cancellation \cup {<<c, i, 1>>}
  /\ UNCHANGED <<returned, retired, reversed, bankVars>>

(* What each active application of an invoice is to pay of its replacement *)
(* new, 0 to release it.                                                   *)
Reapplications(i, amount) ==
  {plan \in [To(i) -> 0..MaxAmount] :
     /\ \A a \in To(i) : plan[a] <= application[a]
     /\ SumFunction(plan) <= amount}

Paying(plan, s) == {a \in DOMAIN plan : a[1] = s /\ plan[a] > 0}

(* correctIssuedInvoice: every active application is released, the invoice *)
(* cancelled by a credit, and its payments applied to the replacement new, *)
(* or, if new is i, to none.  A bound of the model: no source pays for the *)
(* replacement by two applications.                                        *)
CorrectInvoice(i, c, new, amount) ==
  /\ Exists(i)
  /\ ~Exists(c)
  /\ new = i \/ ~Exists(new)
  /\ \A a \in To(i) : a[1] \in Receipt \cup Credit /\ Detachable(a)
  /\ \E plan \in Reapplications(i, amount) :
       /\ new = i => SumFunction(plan) = 0
       /\ \A s \in Receipt \cup Credit : Cardinality(Paying(plan, s)) <= 1
       /\ application' = [a \in Application |->
            CASE a = <<c, i, 1>> -> doc[i].original
              [] a \in To(i) -> 0
              [] a[2] = new /\ a[3] = 1 /\ new # i ->
                   SumFunctionOnSet(plan, Paying(plan, a[1]))
              [] OTHER -> application[a]]
       /\ doc' = [d \in Document |->
            CASE d = i -> Settled(doc[i].original)
              [] d = c -> Settled(doc[i].original)
              [] d = new /\ new # i -> Spent(NewDocument(amount), SumFunction(plan))
              [] OTHER -> LET back == To(i) \cap From(d)
                          IN Spent(Restored(doc[d], Total(back)), SumFunctionOnSet(plan, back))]
  /\ cancellation' = cancellation \cup {<<c, i, 1>>}
  /\ UNCHANGED <<returned, retired, reversed, bankVars>>
-----------------------------------------------------------------------------
InvoiceCommand ==
  \E i \in Invoice :
    \/ \E amount \in DocumentAmount : CreateOpen(i, amount)
    \/ \E c \in Credit : VoidInvoice(i, c)
    \/ \E c \in Credit, new \in Invoice, amount \in DocumentAmount :
         CorrectInvoice(i, c, new, amount)

ReceiptCommand ==
  \E r \in Receipt :
    \/ \E amount \in DocumentAmount : RecordReceipt(r, amount)
    \/ RetireCollection(r)
    \/ \E f \in Refund, amount \in Amount : ReturnCash(r, f, amount)
    \/ VoidReceipt(r)
    \/ \E m \in MatchKey, l \in Line :
         /\ Exists(r)
         /\ MatchLine(m, l, r, doc[r].original)
         /\ UNCHANGED <<docVars, cancellation, returned, retired, reversed>>

AdjustmentCommand ==
  \/ \E d \in Adjustment, amount \in DocumentAmount :
       \/ IF d \in Credit THEN CreateOpen(d, amount) ELSE CreateSettled(d, amount)
       \/ VoidAdjustment(d)
       \/ \E new \in Adjustment : ReplaceAdjustment(d, new, amount)
  \/ \E f \in Refund, funding \in Fundings :
       \/ FundRefund(f, funding)
       \/ \E new \in Refund : ReplaceFunding(f, new, funding)

ApplicationCommand ==
  \E a \in Application :
    \/ \E amount \in Amount : Apply(a, amount)
    \/ \E amount \in DocumentAmount, applied \in Amount : Collect(a, amount, applied)
    \/ \E amount \in DocumentAmount : SettleWriteOff(a, amount)
    \/ EndApplication(a)

DocumentCommand ==
  \/ InvoiceCommand
  \/ ReceiptCommand
  \/ AdjustmentCommand
  \/ ApplicationCommand

Next ==
  \/ DocumentCommand /\ WithinBounds
  \/ LineCommand /\ UNCHANGED <<docVars, cancellation, returned, retired, reversed>>

Spec == Init /\ [][Next]_vars
-----------------------------------------------------------------------------
(* What is open of a document is what its active applications leave of it, *)
(* and none is active from or to a voided one: over partial releases,      *)
(* corrections that move applications, refunds that give credits back.  A  *)
(* write-off that was voided is left out, for the reason that              *)
(* EndedAdjustmentsStayEnded shows; so is one that starts settled.         *)
BalancesMatchApplications ==
  \A d \in Document \ WriteOff :
    LET active == From(d) \cup To(d) IN
    IF doc[d].status \in {"none", "voided"} THEN active = {} /\ doc[d].open = 0
    ELSE IF d \in Refund /\ active = {} THEN doc[d].status = "settled"
    ELSE doc[d].open + Total(active) = doc[d].original

(* A cancelled invoice stays cancelled: its full credit, and nothing else, *)
(* settles it, and the credit goes nowhere else, whatever is unapplied,    *)
(* corrected, ended or refunded later.                                     *)
CancellationsStand ==
  \A a \in cancellation :
    /\ To(a[2]) = {a} /\ From(a[1]) = {a}
    /\ application[a] = doc[a[2]].original
    /\ doc[a[1]].status = "settled" /\ doc[a[2]].status = "settled"

(* Money paid back is paid back: the refund stays settled by its receipt,  *)
(* a receipt never pays back more than came in, and is not voided after.   *)
ReturnedMoneyIsFinal ==
  /\ \A f \in returned :
       /\ doc[f].status = "settled"
       /\ \E a \in To(f) : a[1] \in Receipt /\ application[a] = doc[f].original
  /\ \A r \in Receipt :
       Returned(r) <= doc[r].original /\ (doc[r].status = "voided" => Returned(r) = 0)

(* A line is matched when exactly one active match says so, and no         *)
(* transaction answers for two lines.                                      *)
MatchesAgree ==
  /\ \A l \in Line :
       (line[l].status = "matched") = (\E m \in ActiveMatches : match[m].line = l)
  /\ \A m, n \in ActiveMatches :
       m # n => match[m].line # match[n].line /\ match[m].transaction # match[n].transaction
  /\ \A m \in ActiveMatches :
       line[match[m].line].amount = doc[match[m].transaction].original

(* The outcome of each collection key. *)
Outcome(r) ==
  IF Exists(r) THEN IF r \in retired THEN "both" ELSE "recorded"
  ELSE IF r \in retired THEN "retired" ELSE "none"

Collections == INSTANCE CommandOutcomes
  WITH Command <- Receipt, outcome <- [r \in Receipt |-> Outcome(r)]

(* A collection whose answer was lost is recorded or retired, for good, be *)
(* the receipt recorded by the collection or by a command of its own.      *)
CollectionsAreFinal == Collections!OutcomeSpec

(* docs/sdk-v1-contract.md:348 has the end of an issued adjustment set its *)
(* document to voided, and no command is to bring it back.                 *)
EndedAdjustmentsStayEnded ==
  [][\A d \in Adjustment : doc[d].status = "voided" => doc[d]'.status = "voided"]_vars
=============================================================================
