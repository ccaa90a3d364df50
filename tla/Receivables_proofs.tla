------------------------ MODULE Receivables_proofs ------------------------
(* For any number of documents and applications and any amounts: balances  *)
(* agree with applications, a cancellation or a cash return stands, matches *)
(* agree with lines, and a collection has one outcome.                     *)
EXTENDS Receivables, SumTheorems, TLAPS

(* The applications of a document, under every name they can have. *)
Slots(d) == {a \in Application : a[1] = d \/ a[2] = d}

Row ==
  [status : {"none", "open", "partially_applied", "settled", "voided"},
   original : Nat, open : Nat]

(* The row of a document whose applications come to t.  What nobody else   *)
(* funds is open as far as they leave it.                                  *)
Book(d, row, t) ==
  /\ row \in Row /\ t \in Nat
  /\ row.open + t <= row.original
  /\ row.status = "none" <=> row.original = 0
  /\ row.status \in {"none", "settled", "voided"} => row.open = 0
  /\ d \in Invoice \cup Receipt \cup Credit =>
       /\ row.status = "voided" => t = 0
       /\ row.status # "voided" => row.open + t = row.original

(* All rows and all amounts of applications, of this or another state. *)
BooksOf(rows, amounts) ==
  /\ amounts \in [Application -> Nat]
  /\ \A d \in Document : Book(d, rows[d], SumFunctionOnSet(amounts, Slots(d)))

-----------------------------------------------------------------------------
LEMMA ApplicationIs ==
  /\ \A a \in Application :
       /\ a = <<a[1], a[2], a[3]>> /\ a[3] \in 1..MaxApplications
       /\ a[1] \in Document /\ a[2] \in Document /\ a[1] # a[2]
       /\ a[1] \in Receipt \cup Credit \cup WriteOff /\ a[2] \in Invoice \cup Refund
       /\ a[1] \in WriteOff => a[2] \in Invoice
  /\ \A s \in Receipt \cup Credit \cup WriteOff, i \in Invoice, n \in 1..MaxApplications :
       <<s, i, n>> \in Application
  /\ \A s \in Receipt \cup Credit, f \in Refund, n \in 1..MaxApplications :
       <<s, f, n>> \in Application
<1>1. ASSUME NEW a \in Application
      PROVE  /\ a = <<a[1], a[2], a[3]>> /\ a[3] \in 1..MaxApplications
             /\ a[1] \in Document /\ a[2] \in Document /\ a[1] # a[2]
             /\ a[1] \in Receipt \cup Credit \cup WriteOff /\ a[2] \in Invoice \cup Refund
             /\ a[1] \in WriteOff => a[2] \in Invoice
  <2>1. PICK p \in Applicable, n \in 1..MaxApplications : a = <<p[1], p[2], n>>
    BY DEF Application
  <2>2. /\ p[1] \in Receipt \cup Credit \cup WriteOff /\ p[2] \in Invoice \cup Refund
        /\ p[1] \in WriteOff => p[2] \in Invoice
    BY <2>1, DocumentsAssumption DEF Applicable, Adjustment
  <2>. QED  BY <2>1, <2>2, DocumentsAssumption DEF Document, Adjustment
<1>2. ASSUME NEW p \in Applicable, NEW n \in 1..MaxApplications
      PROVE  <<p[1], p[2], n>> \in Application
  BY DEF Application
<1>3. ASSUME NEW s \in Receipt \cup Credit \cup WriteOff, NEW i \in Invoice,
             NEW n \in 1..MaxApplications
      PROVE  <<s, i, n>> \in Application
  <2>1. <<s, i>> \in Applicable
    BY DEF Applicable
  <2>. QED  BY <2>1, <1>2
<1>4. ASSUME NEW s \in Receipt \cup Credit, NEW f \in Refund, NEW n \in 1..MaxApplications
      PROVE  <<s, f, n>> \in Application
  <2>1. <<s, f>> \in Applicable
    BY DEF Applicable
  <2>. QED  BY <2>1, <1>2
<1>. QED  BY <1>1, <1>3, <1>4

LEMMA FiniteSets ==
  ASSUME NEW S, S \subseteq Application
  PROVE  IsFiniteSet(S)
<1> DEFINE N == 1..MaxApplications
           Pairs == (Document \X Document) \X N
           Flat == [p \in Pairs |-> <<p[1][1], p[1][2], p[2]>>]
           Image == {Flat[p] : p \in Pairs}
<1>1. IsFiniteSet(N)
  BY FS_Interval, ReceivableAmountsAssumption
<1>2. IsFiniteSet(Document \X Document)
  BY FS_Product, DocumentsAssumption
<1>3. IsFiniteSet(Pairs)
  <2>. HIDE DEF N
  <2>. QED  BY <1>1, <1>2, FS_Product
<1>4. IsFiniteSet(Image)
  <2>1. Flat \in [Pairs -> Image]
    OBVIOUS
  <2>2. Flat \in Surjection(Pairs, Image)
    <3>. HIDE DEF Flat, Pairs
    <3>. QED  BY <2>1 DEF Surjection
  <2>. HIDE DEF Flat, Pairs, Image
  <2>. QED  BY <1>3, <2>2, FS_Surjection
<1>5. ASSUME NEW a \in Application PROVE a \in Image
  <2>1. /\ <<<<a[1], a[2]>>, a[3]>> \in Pairs
        /\ Flat[<<<<a[1], a[2]>>, a[3]>>] = a
    BY ApplicationIs
  <2>. HIDE DEF Flat, Pairs
  <2>. QED  BY <2>1
<1>. HIDE DEF Image
<1>. QED  BY <1>4, <1>5, FS_Subset

LEMMA SlotsAre ==
  /\ \A d : Slots(d) \subseteq Application
  /\ \A d : IsFiniteSet(Slots(d))
<1>1. \A d : Slots(d) \subseteq Application
  BY DEF Slots
<1>. QED  BY <1>1, FiniteSets

LEMMA TotalIsNat ==
  ASSUME NEW amounts \in [Application -> Nat], NEW S, S \subseteq Application
  PROVE  /\ SumFunctionOnSet(amounts, S) \in Nat
         /\ SumFunctionOnSet(amounts, S) = 0 <=> \A a \in S : amounts[a] = 0
<1>1. IsFiniteSet(S) /\ \A a \in S : amounts[a] \in Nat
  BY FiniteSets
<1>. QED  BY <1>1, SumType, SumZero

-----------------------------------------------------------------------------
(* What one row may become. *)
LEMMA BookNew ==
  ASSUME NEW d, NEW amount \in Nat, amount > 0
  PROVE  Book(d, NewDocument(amount), 0)
BY DEF Book, NewDocument, Row

LEMMA BookSettled ==
  ASSUME NEW d, NEW amount \in Nat, amount > 0, NEW t \in Nat, t <= amount,
         d \in Invoice \cup Receipt \cup Credit => t = amount
  PROVE  Book(d, Settled(amount), t)
BY DEF Book, Settled, Row

LEMMA BookVoided ==
  ASSUME NEW d, NEW row, NEW t, Book(d, row, t), row.status # "none",
         d \in Invoice \cup Receipt \cup Credit => t = 0
  PROVE  Book(d, Voided(row), t)
<1>1. /\ Voided(row) \in Row /\ Voided(row).status = "voided" /\ Voided(row).open = 0
      /\ Voided(row).original = row.original
  BY DEF Book, Voided, Row
<1>2. /\ row.open \in Nat /\ row.original \in Nat /\ t \in Nat /\ row.open + t <= row.original
  BY DEF Book, Row
<1>. HIDE DEF Voided
<1>. QED  BY <1>1, <1>2 DEF Book

LEMMA BookRebalanced ==
  ASSUME NEW d, NEW row, NEW t, Book(d, row, t), NEW u \in Nat, NEW open \in Nat,
         open + u = row.open + t, row.open # 0 \/ t # 0
  PROVE  Book(d, Rebalance(row, open), u)
<1> DEFINE new == Rebalance(row, open)
<1>1. /\ new \in Row /\ new.open = open /\ new.original = row.original
      /\ new.status \in {"open", "partially_applied", "settled"}
      /\ new.status = "settled" => open = 0
  BY DEF Book, Rebalance, Row
<1>2. /\ row.open \in Nat /\ row.original \in Nat /\ t \in Nat /\ row.open + t <= row.original
  BY DEF Book, Row
<1>3. row.original # 0 /\ (d \in Invoice \cup Receipt \cup Credit => row.open + t = row.original)
  BY <1>2 DEF Book
<1>. HIDE DEF new
<1>. QED  BY <1>1, <1>2, <1>3 DEF Book, new

LEMMA BookSpent ==
  ASSUME NEW d, NEW row, NEW t, Book(d, row, t), NEW amount \in Nat, amount <= row.open
  PROVE  Book(d, Spent(row, amount), t + amount)
<1>1. row.open \in Nat /\ t \in Nat
  BY DEF Book, Row
<1>2. CASE amount = 0
  BY <1>1, <1>2 DEF Spent
<1>3. CASE amount # 0
  <2>1. /\ row.open - amount \in Nat /\ t + amount \in Nat
        /\ (row.open - amount) + (t + amount) = row.open + t /\ row.open # 0
    BY <1>1, <1>3
  <2>2. Book(d, Rebalance(row, row.open - amount), t + amount)
    BY <2>1, BookRebalanced
  <2>. QED  BY <1>3, <2>2 DEF Spent
<1>. QED  BY <1>2, <1>3

LEMMA BookRestored ==
  ASSUME NEW d, NEW row, NEW t, Book(d, row, t), NEW amount \in Nat, amount <= t
  PROVE  Book(d, Restored(row, amount), t - amount)
<1>1. row.open \in Nat /\ t \in Nat
  BY DEF Book, Row
<1>2. CASE amount = 0
  BY <1>1, <1>2 DEF Restored
<1>3. CASE amount # 0
  <2>1. /\ row.open + amount \in Nat /\ t - amount \in Nat
        /\ (row.open + amount) + (t - amount) = row.open + t /\ t # 0
    BY <1>1, <1>3
  <2>2. Book(d, Rebalance(row, row.open + amount), t - amount)
    BY <2>1, BookRebalanced
  <2>. QED  BY <1>3, <2>2 DEF Restored
<1>. QED  BY <1>2, <1>3

(* Original amounts are kept. *)
LEMMA OriginalsStay ==
  ASSUME NEW row \in Row, NEW amount
  PROVE  /\ Spent(row, amount).original = row.original
         /\ Restored(row, amount).original = row.original
         /\ Voided(row).original = row.original
BY DEF Spent, Restored, Rebalance, Voided, Row

-----------------------------------------------------------------------------
(* What the applications of P hold of a document. *)
PlanOK(plan, P) == P \subseteq Application /\ \A a \in P : plan[a] \in Nat
Part(plan, P, d) == SumFunctionOnSet(plan, P \cap Slots(d))

(* The applications of P end, or lose a part of their amounts. *)
ReleasedRows(rows, new, plan, P) ==
  \A d \in Document : new[d] = Restored(rows[d], Part(plan, P, d))
ReleasedAmounts(amounts, left, plan, P) ==
  /\ left = [a \in Application |-> left[a]]
  /\ \A a \in Application : left[a] = IF a \in P THEN amounts[a] - plan[a] ELSE amounts[a]
  /\ \A a \in P : plan[a] <= amounts[a]

(* The applications of P are made, or grow. *)
SpentRows(rows, new, plan, P) ==
  \A d \in Document :
    Part(plan, P, d) <= rows[d].open /\ new[d] = Spent(rows[d], Part(plan, P, d))
SpentAmounts(amounts, grown, plan, P) ==
  /\ grown = [a \in Application |-> grown[a]]
  /\ \A a \in Application : grown[a] = IF a \in P THEN amounts[a] + plan[a] ELSE amounts[a]

LEMMA Release ==
  ASSUME NEW rows, NEW amounts, BooksOf(rows, amounts), NEW P, NEW plan, PlanOK(plan, P),
         NEW new, ReleasedRows(rows, new, plan, P),
         NEW left, ReleasedAmounts(amounts, left, plan, P)
  PROVE  BooksOf(new, left)
<1>1. /\ amounts \in [Application -> Nat] /\ P \subseteq Application
      /\ \A a \in P : a \in Application /\ plan[a] \in Nat /\ plan[a] <= amounts[a]
      /\ left = [a \in Application |-> left[a]]
      /\ \A a \in Application : left[a] = IF a \in P THEN amounts[a] - plan[a] ELSE amounts[a]
  BY DEF BooksOf, PlanOK, ReleasedAmounts
<1>2. left \in [Application -> Nat]
  <2>1. \A a \in P : amounts[a] - plan[a] \in Nat
    BY <1>1
  <2>2. \A a \in Application : left[a] \in Nat
    BY <1>1, <2>1
  <2>. QED  BY <1>1, <2>2
<1>4. ASSUME NEW d \in Document
      PROVE  Book(d, Restored(rows[d], Part(plan, P, d)), SumFunctionOnSet(left, Slots(d)))
  <2> DEFINE S == Slots(d)
             G == P \cap S
             t == SumFunctionOnSet(amounts, S)
             gone == SumFunctionOnSet(plan, G)
  <2>1. /\ IsFiniteSet(S) /\ S \subseteq Application /\ IsFiniteSet(G) /\ G \in SUBSET S
        /\ G \subseteq P
    BY SlotsAre, FS_Subset
  <2>2. /\ \A a \in S : amounts[a] \in Int /\ left[a] \in Int
        /\ \A a \in S : amounts[a] \in Nat
        /\ \A a \in S \ G : left[a] = amounts[a]
        /\ \A a \in G : /\ plan[a] \in Nat /\ plan[a] \in Int
                        /\ left[a] \in Int /\ amounts[a] \in Nat /\ amounts[a] = left[a] + plan[a]
                        /\ plan[a] <= amounts[a]
    BY <1>1, <1>2, <2>1
  <2>. HIDE DEF S, G
  <2>3. SumFunctionOnSet(left, S) =
          (t - SumFunctionOnSet(amounts, G)) + SumFunctionOnSet(left, G)
    BY <2>1, <2>2, SumPartChanges
  <2>4. SumFunctionOnSet(amounts, G) = SumFunctionOnSet(left, G) + gone
    BY <2>1, <2>2, SumPointwise
  <2>5. gone <= SumFunctionOnSet(amounts, G) /\ SumFunctionOnSet(amounts, G) <= t
    BY <2>1, <2>2, SumMonotone, SumBoundsPart
  <2>6. /\ gone \in Nat /\ t \in Nat /\ SumFunctionOnSet(amounts, G) \in Nat
        /\ SumFunctionOnSet(left, G) \in Int
    BY <2>1, <2>2, SumType
  <2>7. gone <= t /\ SumFunctionOnSet(left, S) = t - gone
    BY <2>3, <2>4, <2>5, <2>6
  <2>8. Book(d, rows[d], t)
    BY DEF BooksOf, S
  <2>. HIDE DEF gone, t
  <2>9. Book(d, Restored(rows[d], gone), t - gone)
    BY <2>6, <2>7, <2>8, BookRestored
  <2>. QED  BY <2>7, <2>9 DEF gone, G, S, Part
<1>. QED  BY <1>2, <1>4 DEF BooksOf, ReleasedRows

LEMMA Spend ==
  ASSUME NEW rows, NEW amounts, BooksOf(rows, amounts), NEW P, NEW plan, PlanOK(plan, P),
         NEW new, SpentRows(rows, new, plan, P),
         NEW grown, SpentAmounts(amounts, grown, plan, P)
  PROVE  BooksOf(new, grown)
<1>1. /\ amounts \in [Application -> Nat] /\ P \subseteq Application
      /\ \A a \in P : a \in Application /\ plan[a] \in Nat
      /\ grown = [a \in Application |-> grown[a]]
      /\ \A a \in Application : grown[a] = IF a \in P THEN amounts[a] + plan[a] ELSE amounts[a]
  BY DEF BooksOf, PlanOK, SpentAmounts
<1>2. grown \in [Application -> Nat]
  <2>1. \A a \in P : amounts[a] + plan[a] \in Nat
    BY <1>1
  <2>2. \A a \in Application : grown[a] \in Nat
    BY <1>1, <2>1
  <2>. QED  BY <1>1, <2>2
<1>4. ASSUME NEW d \in Document
      PROVE  Book(d, Spent(rows[d], Part(plan, P, d)), SumFunctionOnSet(grown, Slots(d)))
  <2> DEFINE S == Slots(d)
             G == P \cap S
             t == SumFunctionOnSet(amounts, S)
             made == SumFunctionOnSet(plan, G)
  <2>1. /\ IsFiniteSet(S) /\ S \subseteq Application /\ IsFiniteSet(G) /\ G \in SUBSET S
        /\ G \subseteq P
    BY SlotsAre, FS_Subset
  <2>2. /\ \A a \in S : amounts[a] \in Int /\ grown[a] \in Int
        /\ \A a \in S \ G : grown[a] = amounts[a]
        /\ \A a \in G : /\ plan[a] \in Nat /\ plan[a] \in Int /\ amounts[a] \in Int
                        /\ grown[a] = amounts[a] + plan[a]
    BY <1>1, <1>2, <2>1
  <2>0. made <= rows[d].open
    BY DEF SpentRows, Part
  <2>. HIDE DEF S, G
  <2>3. SumFunctionOnSet(grown, S) =
          (t - SumFunctionOnSet(amounts, G)) + SumFunctionOnSet(grown, G)
    BY <2>1, <2>2, SumPartChanges
  <2>4. SumFunctionOnSet(grown, G) = SumFunctionOnSet(amounts, G) + made
    BY <2>1, <2>2, SumPointwise
  <2>5. made \in Nat /\ t \in Int /\ SumFunctionOnSet(amounts, G) \in Int
    BY <2>1, <2>2, SumType
  <2>6. SumFunctionOnSet(grown, S) = t + made
    BY <2>3, <2>4, <2>5
  <2>7. Book(d, rows[d], t)
    BY DEF BooksOf, S
  <2>. HIDE DEF made, t
  <2>8. Book(d, Spent(rows[d], made), t + made)
    BY <2>0, <2>5, <2>7, BookSpent
  <2>. QED  BY <2>6, <2>8 DEF made, G, S, Part
<1>. QED  BY <1>2, <1>4 DEF BooksOf, SpentRows

LEMMA PartsOf ==
  ASSUME NEW plan, NEW P, PlanOK(plan, P), NEW d
  PROVE  /\ Part(plan, P, d) \in Nat
         /\ P \cap Slots(d) = {} => Part(plan, P, d) = 0
         /\ P \subseteq Slots(d) => Part(plan, P, d) = SumFunctionOnSet(plan, P)
<1> DEFINE G == P \cap Slots(d)
<1>1. IsFiniteSet(G) /\ \A a \in G : plan[a] \in Nat
  BY FiniteSets DEF PlanOK
<1>2. P \subseteq Slots(d) => G = P
  OBVIOUS
<1>3. Part(plan, P, d) = SumFunctionOnSet(plan, G)
  BY DEF Part
<1>. HIDE DEF G
<1>4. SumFunctionOnSet(plan, G) \in Nat /\ SumFunctionOnSet(plan, {}) = 0
  BY <1>1, SumType, SumEmpty
<1>. QED  BY <1>2, <1>3, <1>4 DEF G

(* One application is made, between two documents that have enough open.   *)
LEMMA SpendOne ==
  ASSUME NEW rows, NEW amounts, BooksOf(rows, amounts), NEW a \in Application,
         NEW amount \in Nat, amount <= rows[a[1]].open, amount <= rows[a[2]].open,
         amounts[a] = 0, NEW new,
         \A d \in Document :
           new[d] = IF d \in {a[1], a[2]} THEN Spent(rows[d], amount) ELSE rows[d],
         NEW grown, grown = [x \in Application |-> grown[x]],
         \A x \in Application : grown[x] = IF x = a THEN amount ELSE amounts[x]
  PROVE  BooksOf(new, grown)
<1> DEFINE plan == [x \in {a} |-> amount]
           P == {a}
<1>1. PlanOK(plan, P) /\ plan[a] = amount
  BY DEF PlanOK
<1>2. ASSUME NEW d \in Document
      PROVE  Part(plan, P, d) = IF d \in {a[1], a[2]} THEN amount ELSE 0
  <2>1. CASE d \in {a[1], a[2]}
    <3>1. P \subseteq Slots(d)
      BY <2>1 DEF Slots
    <3>2. SumFunctionOnSet(plan, P) = plan[a]
      <4>. HIDE DEF plan
      <4>. QED  BY <1>1, SumSingle
    <3>. HIDE DEF plan, P
    <3>. QED  BY <1>1, <2>1, <3>1, <3>2, PartsOf
  <2>2. CASE d \notin {a[1], a[2]}
    <3>1. P \cap Slots(d) = {}
      BY <2>2 DEF Slots
    <3>. HIDE DEF plan, P
    <3>. QED  BY <1>1, <2>2, <3>1, PartsOf
  <2>. QED  BY <2>1, <2>2
<1>3. \A d \in Document : rows[d].open \in Nat
  BY DEF BooksOf, Book, Row
<1>4. SpentAmounts(amounts, grown, plan, P)
  BY <1>1 DEF SpentAmounts, BooksOf
<1>. HIDE DEF plan, P
<1>5. SpentRows(rows, new, plan, P)
  BY <1>2, <1>3 DEF SpentRows, Spent
<1>. QED  BY <1>1, <1>4, <1>5, Spend

(* One document's row is replaced, its applications as they are. *)
LEMMA Put ==
  ASSUME NEW rows, NEW amounts, BooksOf(rows, amounts), NEW d \in Document,
         NEW new, Book(d, new[d], SumFunctionOnSet(amounts, Slots(d))),
         \A e \in Document : e # d => new[e] = rows[e]
  PROVE  BooksOf(new, amounts)
BY DEF BooksOf

(* A document that does not exist has no applications. *)
LEMMA NoneApplied ==
  ASSUME NEW rows, NEW amounts, BooksOf(rows, amounts), NEW d \in Document,
         rows[d].status = "none"
  PROVE  /\ SumFunctionOnSet(amounts, Slots(d)) = 0
         /\ \A a \in Slots(d) : amounts[a] = 0
         /\ rows[d].open = 0 /\ rows[d].original = 0
<1>1. Book(d, rows[d], SumFunctionOnSet(amounts, Slots(d)))
  BY DEF BooksOf
<1>2. /\ rows[d].open \in Nat /\ SumFunctionOnSet(amounts, Slots(d)) \in Nat
      /\ rows[d].original = 0
      /\ rows[d].open + SumFunctionOnSet(amounts, Slots(d)) <= rows[d].original
  BY <1>1 DEF Book, Row
<1>3. SumFunctionOnSet(amounts, Slots(d)) = 0 /\ rows[d].open = 0
  BY <1>2
<1>4. amounts \in [Application -> Nat] /\ Slots(d) \subseteq Application
  BY SlotsAre DEF BooksOf
<1>. QED  BY <1>2, <1>3, <1>4, TotalIsNat

(* A new document that nothing is applied to. *)
LEMMA PutNew ==
  ASSUME NEW rows, NEW amounts, BooksOf(rows, amounts), NEW d \in Document,
         SumFunctionOnSet(amounts, Slots(d)) = 0, NEW amount \in Nat, amount > 0,
         NEW new, new[d] = NewDocument(amount), \A e \in Document : e # d => new[e] = rows[e]
  PROVE  BooksOf(new, amounts)
<1>1. Book(d, new[d], SumFunctionOnSet(amounts, Slots(d)))
  BY BookNew
<1>. QED  BY <1>1, Put

LEMMA SettledIsSpent ==
  ASSUME NEW amount \in Nat, amount > 0
  PROVE  Spent(NewDocument(amount), amount) = Settled(amount)
<1>1. /\ NewDocument(amount) = [status |-> "open", original |-> amount, open |-> amount]
      /\ amount - amount = 0 /\ amount # 0
  BY DEF NewDocument
<1>2. Spent(NewDocument(amount), amount) = Rebalance(NewDocument(amount), 0)
  BY <1>1 DEF Spent
<1>3. Rebalance(NewDocument(amount), 0)
        = [NewDocument(amount) EXCEPT !.open = 0, !.status = "settled"]
  BY DEF Rebalance
<1>. QED  BY <1>1, <1>2, <1>3 DEF Settled, NewDocument

-----------------------------------------------------------------------------
(* The invariant.  A cancelled invoice and its credit have one application *)
(* and a settled row each; so has a cash return. A refund is settled from  *)
(* the start, and paid by credits unless it is a cash return.              *)
Slot(d) == SumFunctionOnSet(application, Slots(d))

CancelOK(a) ==
  /\ a \in Application /\ a[1] \in Credit /\ a[2] \in Invoice
  /\ \A x \in Slots(a[1]) \cup Slots(a[2]) : x # a => application[x] = 0
  /\ application[a] = doc[a[2]].original
  /\ doc[a[1]].status = "settled" /\ doc[a[2]].status = "settled"

RefundOK(f) ==
  /\ doc[f].status \in {"none", "settled", "voided"}
  /\ doc[f].status = "voided" => \A a \in Slots(f) : application[a] = 0
  /\ Slot(f) \in {0, doc[f].original}
  /\ f \in returned =>
       /\ doc[f].status = "settled"
       /\ \E a \in Slots(f) : a[1] \in Receipt /\ application[a] = doc[f].original
  /\ f \notin returned => \A a \in Slots(f) : application[a] > 0 => a[1] \in Credit

MatchOK ==
  /\ BankTypeOK /\ MatchesAgree
  /\ \A m \in ActiveMatches : Exists(match[m].transaction)

OutcomeOK == retired \subseteq Receipt /\ \A r \in retired : ~Exists(r)

BalanceInv ==
  /\ doc = [d \in Document |-> doc[d]]
  /\ BooksOf(doc, application)
  /\ cancellation \subseteq Application /\ \A a \in cancellation : CancelOK(a)
  /\ returned \subseteq Refund /\ \A f \in Refund : RefundOK(f)
  /\ reversed \subseteq Document

Inv == BalanceInv /\ MatchOK /\ OutcomeOK

(* Documents that are final. *)
Final == {a[1] : a \in cancellation} \cup {a[2] : a \in cancellation} \cup returned

Same(d) == doc'[d] = doc[d] /\ \A a \in Slots(d) : application'[a] = application[a]

(* A step that creates the documents of X, and else touches only those of  *)
(* T and their applications.                                               *)
Touches(X, T) ==
  /\ doc' = [d \in Document |-> doc'[d]]
  /\ BooksOf(doc', application')
  /\ X \subseteq T /\ \A d \in X : ~Exists(d)
  /\ \A d \in Document \ X : doc'[d].original = doc[d].original
  /\ \A d \in Document \ T : Same(d)
  /\ T \cap Final = {}

-----------------------------------------------------------------------------
LEMMA RowFacts ==
  ASSUME BooksOf(doc, application), NEW d \in Document
  PROVE  /\ Book(d, doc[d], Slot(d)) /\ doc[d] \in Row /\ Slot(d) \in Nat
         /\ doc[d].open \in Nat /\ doc[d].original \in Nat
         /\ Exists(d) <=> doc[d].original # 0
         /\ doc[d].open + Slot(d) <= doc[d].original
         /\ doc[d].status \in {"none", "settled", "voided"} => doc[d].open = 0
<1>1. Book(d, doc[d], Slot(d))
  BY DEF BooksOf, Slot
<1>. QED  BY <1>1 DEF Book, Row, Exists

LEMMA AmountFacts ==
  ASSUME BooksOf(doc, application)
  PROVE  /\ application \in [Application -> Nat]
         /\ \A a \in Application : application[a] \in Nat
         /\ \A d \in Document : ~Exists(d) =>
              /\ Slot(d) = 0 /\ doc[d].open = 0 /\ doc[d].original = 0
              /\ \A a \in Slots(d) : application[a] = 0
<1>1. application \in [Application -> Nat]
  BY DEF BooksOf
<1>2. ASSUME NEW d \in Document, ~Exists(d)
      PROVE  /\ Slot(d) = 0 /\ doc[d].open = 0 /\ doc[d].original = 0
             /\ \A a \in Slots(d) : application[a] = 0
  BY <1>2, NoneApplied DEF Exists, Slot
<1>. QED  BY <1>1, <1>2

LEMMA FinalFacts ==
  ASSUME BalanceInv
  PROVE  /\ Final \subseteq Document \ Receipt
         /\ \A d \in Final : doc[d].status = "settled" /\ doc[d].open = 0
         /\ \A d \in Final : \A a \in Slots(d) :
               application[a] > 0 => a \in cancellation \/ a[2] \in returned
         /\ \A a \in cancellation : application[a] > 0
<1>1. ASSUME NEW a \in cancellation
      PROVE  /\ a[1] \in Document \ Receipt /\ a[2] \in Document \ Receipt
             /\ doc[a[1]].status = "settled" /\ doc[a[2]].status = "settled"
             /\ doc[a[1]].open = 0 /\ doc[a[2]].open = 0
             /\ \A x \in Slots(a[1]) \cup Slots(a[2]) : application[x] > 0 => x = a
             /\ application[a] > 0
  <2>1. CancelOK(a) /\ BooksOf(doc, application)
    BY DEF BalanceInv
  <2>2. a[1] \in Document \ Receipt /\ a[2] \in Document \ Receipt
    BY <2>1, DocumentsAssumption DEF CancelOK, Document, Adjustment
  <2>3. doc[a[2]].original \in Nat /\ doc[a[2]].original # 0
    BY <2>1, <2>2, RowFacts DEF CancelOK, Exists
  <2>. QED  BY <2>1, <2>2, <2>3, RowFacts DEF CancelOK
<1>2. ASSUME NEW f \in returned
      PROVE  /\ f \in Document \ Receipt /\ doc[f].status = "settled" /\ doc[f].open = 0
             /\ \A x \in Slots(f) : x[2] = f
  <2>1. f \in Refund /\ RefundOK(f) /\ BooksOf(doc, application)
    BY DEF BalanceInv
  <2>2. f \in Document \ Receipt
    BY <2>1, DocumentsAssumption DEF Document, Adjustment
  <2>3. \A x \in Slots(f) : x[1] # f
    BY <2>1, ApplicationIs, DocumentsAssumption DEF Slots, Adjustment
  <2>. QED  BY <2>1, <2>2, <2>3, RowFacts DEF RefundOK, Slots
<1>. QED  BY <1>1, <1>2 DEF Final

(* Slots of an untouched document have the same sum. *)
LEMMA SlotStays ==
  ASSUME BooksOf(doc, application), NEW d, Same(d)
  PROVE  Slot(d)' = Slot(d)
<1>1. IsFiniteSet(Slots(d)) /\ \A a \in Slots(d) : application'[a] = application[a]
  BY SlotsAre DEF Same
<1>2. SumFunctionOnSet(application', Slots(d)) = SumFunctionOnSet(application, Slots(d))
  BY <1>1, SumSame
<1>. QED  BY <1>2 DEF Slot

LEMMA RefundStays ==
  ASSUME BalanceInv, NEW f \in Refund, Same(f), f \in returned' <=> f \in returned
  PROVE  RefundOK(f)'
<1>1. RefundOK(f) /\ Slot(f)' = Slot(f)
  BY SlotStays DEF BalanceInv
<1>2. doc'[f] = doc[f] /\ \A a \in Slots(f) : application'[a] = application[a]
  BY DEF Same
<1>. QED  BY <1>1, <1>2 DEF RefundOK

LEMMA CancelStays ==
  ASSUME BalanceInv, NEW a \in cancellation, Same(a[1]), Same(a[2])
  PROVE  CancelOK(a)'
<1>1. CancelOK(a) /\ a \in Slots(a[1]) /\ a \in Application
  BY DEF BalanceInv, CancelOK, Slots
<1>. QED  BY <1>1 DEF CancelOK, Same

(* What a step leaves of the invariant, if it does right by what it makes. *)
LEMMA TouchKeeps ==
  ASSUME BalanceInv, NEW X, NEW T, Touches(X, T),
         reversed' \subseteq Document,
         cancellation \subseteq cancellation', \A a \in cancellation' \ cancellation : CancelOK(a)',
         returned' \subseteq Refund, returned \subseteq returned', returned' \ returned \subseteq T,
         \A f \in Refund \cap T : RefundOK(f)'
  PROVE  BalanceInv'
<1>1. /\ doc' = [d \in Document |-> doc'[d]] /\ BooksOf(doc', application')
      /\ \A d \in Document \ T : Same(d)
      /\ T \cap Final = {}
  BY DEF Touches
<1>2. ASSUME NEW a \in cancellation' PROVE CancelOK(a)' /\ a \in Application
  <2>1. CASE a \in cancellation
    <3>1. a[1] \in Document \ T /\ a[2] \in Document \ T
      BY <1>1, <2>1, FinalFacts DEF Final
    <3>. QED  BY <1>1, <2>1, <3>1, CancelStays DEF BalanceInv
  <2>2. CASE a \notin cancellation
    BY <1>2, <2>2 DEF CancelOK
  <2>. QED  BY <2>1, <2>2
<1>3. ASSUME NEW f \in Refund PROVE RefundOK(f)'
  <2>1. CASE f \in T
    BY <2>1
  <2>2. CASE f \notin T
    <3>1. f \in Document
      BY DEF Document
    <3>2. f \in returned' <=> f \in returned
      BY <2>2
    <3>. QED  BY <1>1, <2>2, <3>1, <3>2, RefundStays
  <2>. QED  BY <2>1, <2>2
<1>. QED  BY <1>1, <1>2, <1>3 DEF BalanceInv

(* Which documents there are after a step. *)
LEMMA TouchExists ==
  ASSUME BalanceInv, NEW X, NEW T, Touches(X, T)
  PROVE  /\ \A d \in Document : Exists(d) => Exists(d)' /\ doc'[d].original = doc[d].original
         /\ \A d \in Document \ X : Exists(d)' <=> Exists(d)
<1>1. ASSUME NEW d \in Document
      PROVE  Exists(d)' <=> doc'[d].original # 0
  BY DEF Touches, BooksOf, Book, Exists
<1>2. \A d \in Document : Exists(d) <=> doc[d].original # 0
  BY RowFacts DEF BalanceInv
<1>. QED  BY <1>1, <1>2 DEF Touches

(* A command that leaves the invariant and creates no documents but of X. *)
Done(X) ==
  /\ BalanceInv'
  /\ \A d \in Document : Exists(d) => Exists(d)' /\ doc'[d].original = doc[d].original
  /\ \A d \in Document \ X : Exists(d)' <=> Exists(d)

LEMMA TouchIsDone ==
  ASSUME BalanceInv, NEW X, NEW T, Touches(X, T), T \cap Refund = {},
         UNCHANGED <<cancellation, returned>>, reversed' \subseteq Document
  PROVE  Done(X)
<1>1. BalanceInv'
  BY TouchKeeps DEF BalanceInv
<1>. QED  BY <1>1, TouchExists DEF Done

LEMMA Refunds ==
  ASSUME BalanceInv
  PROVE  /\ \A f \in Refund : f \in Document /\ doc[f].open = 0
         /\ \A f \in Refund : ~Exists(f) => f \notin returned
<1>1. ASSUME NEW f \in Refund PROVE f \in Document /\ doc[f].open = 0
  BY RowFacts DEF BalanceInv, RefundOK, Document
<1>. QED  BY <1>1 DEF BalanceInv, RefundOK, Exists

LEMMA NotFinal ==
  ASSUME BalanceInv, NEW d \in Document, doc[d].open # 0 \/ doc[d].status # "settled"
  PROVE  d \notin Final
BY FinalFacts

-----------------------------------------------------------------------------
LEMMA CreateOpenDone ==
  ASSUME BalanceInv, NEW d \in Invoice \cup Receipt \cup Credit, NEW amount \in DocumentAmount,
         ~Exists(d), doc' = [doc EXCEPT ![d] = NewDocument(amount)],
         UNCHANGED <<application, cancellation, returned, reversed>>
  PROVE  Done({d})
<1>1. /\ d \in Document /\ amount \in Nat /\ amount > 0 /\ d \notin Refund
  BY ReceivableAmountsAssumption, DocumentsAssumption DEF Document, Adjustment
<1>2. /\ doc' = [e \in Document |-> doc'[e]] /\ doc'[d] = NewDocument(amount)
      /\ \A e \in Document : e # d => doc'[e] = doc[e]
  BY <1>1 DEF BalanceInv
<1>3. BooksOf(doc', application)
  BY <1>1, <1>2, PutNew, AmountFacts DEF BalanceInv, Slot
<1>4. d \notin Final
  BY <1>1, NotFinal DEF Exists
<1>5. Touches({d}, {d})
  BY <1>2, <1>3, <1>4 DEF Touches, Same
<1>. QED  BY <1>1, <1>5, TouchIsDone DEF BalanceInv

LEMMA CreateSettledDone ==
  ASSUME BalanceInv, NEW d \in WriteOff \cup Refund, NEW amount \in DocumentAmount,
         CreateSettled(d, amount)
  PROVE  Done({d})
<1>1. /\ ~Exists(d) /\ d \in Document /\ amount \in Nat /\ amount > 0
      /\ d \notin Invoice \cup Receipt \cup Credit
      /\ doc' = [doc EXCEPT ![d] = Settled(amount)]
      /\ UNCHANGED <<application, cancellation, returned, reversed>>
  BY ReceivableAmountsAssumption, DocumentsAssumption DEF Document, Adjustment, CreateSettled
<1>2. /\ doc' = [e \in Document |-> doc'[e]] /\ doc'[d] = Settled(amount)
      /\ \A e \in Document : e # d => doc'[e] = doc[e]
  BY <1>1 DEF BalanceInv
<1>3. Slot(d) = 0 /\ \A a \in Slots(d) : application[a] = 0
  BY <1>1, AmountFacts DEF BalanceInv
<1>4. BooksOf(doc', application')
  <2>1. Book(d, doc'[d], SumFunctionOnSet(application, Slots(d)))
    BY <1>1, <1>2, <1>3, BookSettled DEF Slot
  <2>. QED  BY <1>1, <1>2, <2>1, Put DEF BalanceInv
<1>5. d \notin Final
  BY <1>1, NotFinal DEF Exists
<1>6. Touches({d}, {d})
  BY <1>1, <1>2, <1>4, <1>5 DEF Touches, Same
<1>7. ASSUME NEW f \in Refund \cap {d} PROVE RefundOK(f)'
  <2>1. f \notin returned /\ doc'[f].status = "settled"
    BY <1>1, <1>2, Refunds DEF Settled
  <2>2. Slot(f)' = 0 /\ \A a \in Slots(f) : application'[a] = 0
    BY <1>1, <1>3 DEF Slot
  <2>. QED  BY <1>1, <2>1, <2>2 DEF RefundOK
<1>8. BalanceInv'
  BY <1>1, <1>6, <1>7, TouchKeeps DEF BalanceInv
<1>. QED  BY <1>6, <1>8, TouchExists DEF Done

(* An application is made; its source may be new.                          *)
LEMMA ApplyDone ==
  ASSUME BalanceInv, NEW a \in Application, NEW amount \in Nat, amount > 0, NEW X, NEW rows,
         rows = [d \in Document |-> rows[d]],
         BooksOf(rows, application), X \subseteq {a[1]}, \A d \in X : ~Exists(d),
         \A d \in Document \ X : rows[d] = doc[d],
         amount <= rows[a[1]].open, amount <= rows[a[2]].open, ~Active(a),
         doc' = [rows EXCEPT ![a[1]] = Spent(rows[a[1]], amount),
                             ![a[2]] = Spent(rows[a[2]], amount)],
         application' = [application EXCEPT ![a] = amount],
         UNCHANGED <<cancellation, returned, reversed>>
  PROVE  Done(X)
<1>1. /\ a[1] \in Document /\ a[2] \in Document /\ a[1] # a[2] /\ a[1] \notin Refund
  BY ApplicationIs, DocumentsAssumption DEF Adjustment
<1>2. /\ application \in [Application -> Nat] /\ application[a] = 0
  BY AmountFacts DEF BalanceInv, Active
<1>3. /\ doc' = [d \in Document |-> doc'[d]]
      /\ \A d \in Document :
           doc'[d] = IF d \in {a[1], a[2]} THEN Spent(rows[d], amount) ELSE rows[d]
  BY <1>1
<1>4. /\ application' = [x \in Application |-> application'[x]]
      /\ \A x \in Application : application'[x] = IF x = a THEN amount ELSE application[x]
  BY <1>2
<1>5. BooksOf(doc', application')
  BY <1>2, <1>3, <1>4, SpendOne
<1>6. rows[a[2]] = doc[a[2]] /\ doc[a[2]].open # 0
  BY <1>1 DEF BooksOf, Book, Row
<1>7. a[2] \notin Refund /\ a[2] \notin Final
  BY <1>1, <1>6, Refunds, NotFinal
<1>8. a[1] \notin Final
  <2>1. CASE a[1] \in X
    BY <1>1, <2>1, NotFinal DEF Exists
  <2>2. CASE a[1] \notin X
    <3>1. rows[a[1]] = doc[a[1]] /\ doc[a[1]].open # 0
      BY <1>1, <2>2 DEF BooksOf, Book, Row
    <3>. QED  BY <1>1, <3>1, NotFinal
  <2>. QED  BY <2>1, <2>2
<1>9. Touches(X, {a[1], a[2]})
  <2>1. \A d \in Document \ X : doc'[d].original = doc[d].original
    <3>1. \A d \in Document : doc[d] \in Row
      BY RowFacts DEF BalanceInv
    <3>. QED  BY <1>3, <3>1, OriginalsStay
  <2>2. \A d \in Document \ {a[1], a[2]} : Same(d)
    BY <1>3, <1>4, SlotsAre DEF Same, Slots
  <2>. QED  BY <1>3, <1>5, <1>7, <1>8, <2>1, <2>2 DEF Touches
<1>. QED  BY <1>1, <1>7, <1>9, TouchIsDone DEF BalanceInv

LEMMA CollectDone ==
  ASSUME BalanceInv, NEW a \in Application, NEW amount \in DocumentAmount, NEW applied \in Amount,
         Collect(a, amount, applied)
  PROVE  Done({a[1]})
<1> DEFINE rows == [d \in Document |-> IF d = a[1] THEN NewDocument(amount) ELSE doc[d]]
<1>1. /\ ~Exists(a[1]) /\ ~Active(a) /\ applied <= amount /\ applied <= doc[a[2]].open
      /\ doc' = [doc EXCEPT ![a[1]] = Spent(NewDocument(amount), applied),
                            ![a[2]] = Spent(doc[a[2]], applied)]
      /\ application' = [application EXCEPT ![a] = applied]
      /\ UNCHANGED <<cancellation, returned, reversed>>
      /\ a[1] \in Document /\ a[2] \in Document /\ a[1] # a[2]
  BY ApplicationIs DEF Collect, ReceiptKeyFree, IsNext
<1>2. /\ amount \in Nat /\ amount > 0 /\ applied \in Nat /\ applied > 0
  BY ReceivableAmountsAssumption DEF Amount
<1>3. /\ rows = [d \in Document |-> rows[d]] /\ rows[a[1]] = NewDocument(amount)
      /\ rows[a[2]] = doc[a[2]] /\ \A d \in Document : d # a[1] => rows[d] = doc[d]
      /\ NewDocument(amount).open = amount
  BY <1>1 DEF NewDocument
<1>4. doc' = [rows EXCEPT ![a[1]] = Spent(rows[a[1]], applied),
                          ![a[2]] = Spent(rows[a[2]], applied)]
  BY <1>1, <1>3 DEF BalanceInv
<1>. HIDE DEF rows
<1>5. BooksOf(rows, application)
  BY <1>1, <1>2, <1>3, PutNew, AmountFacts DEF BalanceInv, Slot
<1>. QED  BY <1>1, <1>2, <1>3, <1>4, <1>5, ApplyDone

LEMMA SettleWriteOffDone ==
  ASSUME BalanceInv, NEW a \in Application, NEW amount \in DocumentAmount,
         SettleWriteOff(a, amount)
  PROVE  Done({a[1]})
<1> DEFINE rows == [d \in Document |-> IF d = a[1] THEN NewDocument(amount) ELSE doc[d]]
<1>1. /\ ~Exists(a[1]) /\ ~Active(a) /\ amount <= doc[a[2]].open
      /\ doc' = [doc EXCEPT ![a[1]] = Settled(amount), ![a[2]] = Spent(doc[a[2]], amount)]
      /\ application' = [application EXCEPT ![a] = amount]
      /\ UNCHANGED <<cancellation, returned, reversed>>
      /\ a[1] \in Document /\ a[2] \in Document /\ a[1] # a[2]
  BY ApplicationIs DEF SettleWriteOff, IsNext
<1>2. amount \in Nat /\ amount > 0
  BY ReceivableAmountsAssumption
<1>3. /\ rows = [d \in Document |-> rows[d]] /\ rows[a[1]] = NewDocument(amount)
      /\ rows[a[2]] = doc[a[2]] /\ \A d \in Document : d # a[1] => rows[d] = doc[d]
      /\ NewDocument(amount).open = amount /\ Spent(NewDocument(amount), amount) = Settled(amount)
  BY <1>1, <1>2, SettledIsSpent DEF NewDocument
<1>4. doc' = [rows EXCEPT ![a[1]] = Spent(rows[a[1]], amount),
                          ![a[2]] = Spent(rows[a[2]], amount)]
  BY <1>1, <1>3 DEF BalanceInv
<1>. HIDE DEF rows
<1>5. BooksOf(rows, application)
  BY <1>1, <1>2, <1>3, PutNew, AmountFacts DEF BalanceInv, Slot
<1>6. amount <= rows[a[1]].open /\ amount <= rows[a[2]].open
  BY <1>1, <1>2, <1>3
<1> DEFINE X == {a[1]}
<1>7. X \subseteq {a[1]} /\ (\A d \in X : ~Exists(d)) /\ \A d \in Document \ X : rows[d] = doc[d]
  BY <1>1, <1>3
<1>8. rows = [d \in Document |-> rows[d]] /\ ~Active(a) /\ application' = [application EXCEPT ![a] = amount]
      /\ UNCHANGED <<cancellation, returned, reversed>>
  BY <1>1, <1>3
<1>. HIDE DEF X
<1>9. Done(X)
  BY <1>2, <1>4, <1>5, <1>6, <1>7, <1>8, ApplyDone
<1>. QED  BY <1>9 DEF X

LEMMA ApplyCommandDone ==
  ASSUME BalanceInv, NEW a \in Application, NEW amount \in Amount, Apply(a, amount)
  PROVE  Done({})
<1>1. /\ amount <= doc[a[1]].open /\ amount <= doc[a[2]].open /\ ~Active(a)
      /\ doc' = [doc EXCEPT ![a[1]] = Spent(doc[a[1]], amount), ![a[2]] = Spent(doc[a[2]], amount)]
      /\ application' = [application EXCEPT ![a] = amount]
      /\ UNCHANGED <<cancellation, returned, reversed>>
  <2>1. a[1] # a[2]
    BY ApplicationIs
  <2>. QED  BY <2>1 DEF Apply, Coverable, IsNext, BalanceInv
<1>2. amount \in Nat /\ amount > 0
  BY ReceivableAmountsAssumption DEF Amount
<1> DEFINE X == {}
           rows == doc
<1>3. /\ rows = [d \in Document |-> rows[d]] /\ BooksOf(rows, application)
      /\ \A d \in Document \ X : rows[d] = doc[d]
      /\ X \subseteq {a[1]} /\ \A d \in X : ~Exists(d)
      /\ amount <= rows[a[1]].open /\ amount <= rows[a[2]].open
      /\ doc' = [rows EXCEPT ![a[1]] = Spent(rows[a[1]], amount), ![a[2]] = Spent(rows[a[2]], amount)]
  BY <1>1 DEF BalanceInv
<1>. HIDE DEF X, rows
<1>4. Done(X)
  BY <1>1, <1>2, <1>3, ApplyDone
<1>. QED  BY <1>4 DEF X

-----------------------------------------------------------------------------
(* One application ends. *)
LEMMA ReleaseOne ==
  ASSUME NEW rows, NEW amounts, BooksOf(rows, amounts), NEW a \in Application, NEW new,
         \A d \in Document :
           new[d] = IF d \in {a[1], a[2]} THEN Restored(rows[d], amounts[a]) ELSE rows[d],
         NEW left, left = [x \in Application |-> left[x]],
         \A x \in Application : left[x] = IF x = a THEN 0 ELSE amounts[x]
  PROVE  BooksOf(new, left)
<1> DEFINE P == {a}
<1>1. amounts \in [Application -> Nat] /\ amounts[a] \in Nat
  BY DEF BooksOf
<1>2. PlanOK(amounts, P)
  BY <1>1 DEF PlanOK
<1>3. ASSUME NEW d \in Document
      PROVE  Part(amounts, P, d) = IF d \in {a[1], a[2]} THEN amounts[a] ELSE 0
  <2>1. CASE d \in {a[1], a[2]}
    <3>1. P \subseteq Slots(d)
      BY <2>1 DEF Slots
    <3>2. SumFunctionOnSet(amounts, P) = amounts[a]
      BY <1>1, SumSingle
    <3>. HIDE DEF P
    <3>. QED  BY <1>2, <2>1, <3>1, <3>2, PartsOf
  <2>2. CASE d \notin {a[1], a[2]}
    <3>1. P \cap Slots(d) = {}
      BY <2>2 DEF Slots
    <3>. HIDE DEF P
    <3>. QED  BY <1>2, <2>2, <3>1, PartsOf
  <2>. QED  BY <2>1, <2>2
<1>4. ReleasedAmounts(amounts, left, amounts, P)
  BY <1>1 DEF ReleasedAmounts
<1>. HIDE DEF P
<1>5. ReleasedRows(rows, new, amounts, P)
  BY <1>3 DEF ReleasedRows, Restored
<1>. QED  BY <1>2, <1>4, <1>5, Release

LEMMA EndApplicationDone ==
  ASSUME BalanceInv, NEW a \in Application, EndApplication(a)
  PROVE  Done({})
<1>1. /\ a[1] \in Document /\ a[2] \in Document /\ a[1] # a[2] /\ a[1] \notin Refund
  BY ApplicationIs, DocumentsAssumption DEF Adjustment
<1>2. /\ application \in [Application -> Nat] /\ application[a] > 0
      /\ a[2] \notin Refund /\ a \notin cancellation /\ BooksOf(doc, application)
      /\ application' = [application EXCEPT ![a] = 0]
      /\ doc' = [doc EXCEPT ![a[1]] = Restored(doc[a[1]], application[a]),
                            ![a[2]] = Restored(doc[a[2]], application[a])]
      /\ UNCHANGED <<cancellation, returned, reversed>>
  BY <1>1, AmountFacts DEF BalanceInv, Active, EndApplication, Detachable
<1>3. /\ doc' = [d \in Document |-> doc'[d]]
      /\ \A d \in Document :
           doc'[d] = IF d \in {a[1], a[2]} THEN Restored(doc[d], application[a]) ELSE doc[d]
  BY <1>1, <1>2 DEF BalanceInv
<1>4. /\ application' = [x \in Application |-> application'[x]]
      /\ \A x \in Application : application'[x] = IF x = a THEN 0 ELSE application[x]
  BY <1>2
<1>5. BooksOf(doc', application')
  <2>1. BooksOf(doc, application)
    BY <1>2
  <2>. QED  BY <2>1, <1>3, <1>4, ReleaseOne
<1>6. a[1] \notin Final /\ a[2] \notin Final
  <2>1. a \in Slots(a[1]) /\ a \in Slots(a[2]) /\ returned \subseteq Refund
    BY DEF Slots, BalanceInv
  <2>. QED  BY <1>2, <2>1, FinalFacts
<1>7. Touches({}, {a[1], a[2]})
  <2>1. \A d \in Document : doc'[d].original = doc[d].original
    <3>1. \A d \in Document : doc[d] \in Row
      BY RowFacts DEF BalanceInv
    <3>. QED  BY <1>3, <3>1, OriginalsStay
  <2>2. \A d \in Document \ {a[1], a[2]} : Same(d)
    BY <1>3, <1>4, SlotsAre DEF Same, Slots
  <2>. QED  BY <1>3, <1>5, <1>6, <2>1, <2>2 DEF Touches
<1>. QED  BY <1>1, <1>2, <1>7, TouchIsDone DEF BalanceInv

-----------------------------------------------------------------------------
(* Rows and amounts after the end of an adjustment d, before anything new  *)
(* is made: only documents of T are touched, none of them final.           *)
EndedWith(d, T, rows, amounts) ==
  /\ rows = [e \in Document |-> rows[e]] /\ amounts = [a \in Application |-> amounts[a]]
  /\ BooksOf(rows, amounts)
  /\ d \in T /\ T \subseteq Document /\ T \cap Final = {} /\ T \cap Refund \subseteq {d}
  /\ \A e \in T : Exists(e)
  /\ \A e \in Document : rows[e].original = doc[e].original
  /\ \A e \in Document \ T : rows[e] = doc[e] /\ \A a \in Slots(e) : amounts[a] = application[a]
  /\ rows[d].status = "voided"
  /\ d \in Refund => d \notin returned /\ \A a \in Slots(d) : amounts[a] = 0

LEMMA VoidOne ==
  ASSUME BalanceInv, NEW d \in Document, Exists(d), d \notin Final, d \notin Refund,
         d \in Invoice \cup Receipt \cup Credit => Untouched(d),
         NEW rows, rows = [doc EXCEPT ![d] = Voided(doc[d])]
  PROVE  EndedWith(d, {d}, rows, application)
<1>1. /\ rows = [e \in Document |-> rows[e]] /\ rows[d] = Voided(doc[d])
      /\ \A e \in Document : e # d => rows[e] = doc[e]
  BY DEF BalanceInv
<1>2. /\ Book(d, doc[d], Slot(d)) /\ doc[d] \in Row /\ Slot(d) \in Nat /\ doc[d].open \in Nat
      /\ doc[d].original \in Nat /\ doc[d].open + Slot(d) <= doc[d].original
  BY RowFacts DEF BalanceInv
<1>3. d \in Invoice \cup Receipt \cup Credit => Slot(d) = 0
  BY <1>2 DEF Untouched
<1>4. Book(d, rows[d], SumFunctionOnSet(application, Slots(d)))
  BY <1>1, <1>2, <1>3, BookVoided DEF Exists, Slot
<1>5. BooksOf(rows, application)
  BY <1>1, <1>4, Put DEF BalanceInv
<1>6. rows[d].original = doc[d].original /\ rows[d].status = "voided"
  BY <1>1, <1>2, OriginalsStay DEF Voided, Row
<1>7. application = [a \in Application |-> application[a]]
  BY AmountFacts DEF BalanceInv
<1>. QED  BY <1>1, <1>5, <1>6, <1>7 DEF EndedWith

LEMMA VoidReceiptDone ==
  ASSUME BalanceInv, NEW r \in Receipt, VoidReceipt(r)
  PROVE  Done({})
<1>1. /\ r \in Document /\ r \notin Refund /\ Untouched(r) /\ Exists(r)
      /\ doc' = [doc EXCEPT ![r] = Voided(doc[r])]
      /\ reversed' \subseteq Document
      /\ UNCHANGED <<application, cancellation, returned>>
  BY DocumentsAssumption DEF Document, Adjustment, VoidReceipt, Untouched, Exists, BalanceInv
<1>2. r \notin Final
  BY <1>1, NotFinal DEF Untouched
<1>3. EndedWith(r, {r}, doc', application)
  BY <1>1, <1>2, VoidOne
<1>4. Touches({}, {r})
  BY <1>1, <1>3 DEF EndedWith, Touches, Same
<1>. QED  BY <1>1, <1>4, TouchIsDone

(* Who pays for a refund that is no cash return. *)
LEMMA RefundFunds ==
  ASSUME BalanceInv, NEW f \in Refund, Exists(f), f \notin returned
  PROVE  /\ To(f) \subseteq Application /\ To(f) \subseteq Slots(f)
         /\ f \in Document /\ f \notin Final
         /\ \A a \in Slots(f) : a[2] = f /\ (a \notin To(f) => application[a] = 0)
         /\ \A a \in To(f) : /\ application[a] > 0 /\ a[2] = f /\ a[1] \in Credit /\ a[1] \in Document
                             /\ Exists(a[1]) /\ a[1] \notin Refund /\ a[1] \notin Final
<1>1. f \in Document /\ \A c \in Credit : c \in Document /\ c \notin Refund
  BY DocumentsAssumption DEF Document, Adjustment
<1>2. To(f) \subseteq Application /\ To(f) \subseteq Slots(f)
  BY DEF To, Slots
<1>3. \A a \in Slots(f) : a[2] = f
  BY ApplicationIs, DocumentsAssumption DEF Slots, Adjustment
<1>4. f \notin Final
  <2>1. ASSUME NEW a \in cancellation PROVE a[1] # f /\ a[2] # f
    BY DocumentsAssumption DEF BalanceInv, CancelOK, Adjustment
  <2>. QED  BY <2>1 DEF Final
<1>5. \A a \in Slots(f) : a \notin To(f) => application[a] = 0
  BY <1>3, AmountFacts DEF BalanceInv, Slots, To, Active
<1>6. ASSUME NEW a \in To(f)
      PROVE  /\ application[a] > 0 /\ a[2] = f /\ a[1] \in Credit
             /\ Exists(a[1]) /\ a[1] \notin Final
  <2>1. application[a] > 0 /\ a[2] = f /\ a \in Application /\ a \in Slots(a[1])
    BY DEF To, Active, Slots
  <2>2. a[1] \in Credit
    BY <1>2, <2>1 DEF BalanceInv, RefundOK
  <2>3. Exists(a[1])
    BY <1>1, <2>1, <2>2, AmountFacts DEF BalanceInv
  <2>4. a \notin cancellation
    BY <1>1, <2>1, DocumentsAssumption DEF BalanceInv, CancelOK, Adjustment
  <2>5. a[1] \notin Final
    BY <1>1, <2>1, <2>2, <2>4, FinalFacts
  <2>. QED  BY <2>1, <2>2, <2>3, <2>5
<1>. QED  BY <1>1, <1>2, <1>3, <1>4, <1>5, <1>6

LEMMA RefundEnded ==
  ASSUME BalanceInv, NEW f \in Refund, Exists(f), f \notin returned
  PROVE  EndedWith(f, {f} \cup {a[1] : a \in To(f)}, Released(f), FundingEnded(f))
<1> DEFINE P == To(f)
           T == {f} \cup {a[1] : a \in P}
           back == [d \in Document |-> Restored(doc[d], Part(application, P, d))]
           left == FundingEnded(f)
           rows == Released(f)
<1>1. /\ P \subseteq Application /\ P \subseteq Slots(f) /\ f \in Document /\ f \notin Final
      /\ \A a \in Slots(f) : a[2] = f /\ (a \notin P => application[a] = 0)
      /\ \A a \in P : /\ application[a] > 0 /\ a[2] = f /\ a[1] \in Credit /\ a[1] \in Document
                      /\ Exists(a[1]) /\ a[1] \notin Refund /\ a[1] \notin Final
  BY RefundFunds
<1>2. /\ application \in [Application -> Nat] /\ BooksOf(doc, application)
      /\ \A d \in Document : doc[d] \in Row
  BY AmountFacts, RowFacts DEF BalanceInv
<1>3. /\ left = [a \in Application |-> left[a]]
      /\ \A a \in Application : left[a] = IF a \in P THEN 0 ELSE application[a]
  BY DEF FundingEnded
<1>. HIDE DEF left, P
<1>4. PlanOK(application, P)
  BY <1>1, <1>2 DEF PlanOK
<1>5. ReleasedAmounts(application, left, application, P)
  BY <1>1, <1>2, <1>3 DEF ReleasedAmounts
<1>6. ReleasedRows(doc, back, application, P)
  BY DEF ReleasedRows
<1>7. BooksOf(back, left)
  <2>. HIDE DEF back
  <2>. QED  BY <1>2, <1>4, <1>5, <1>6, Release
<1>8. rows = [d \in Document |-> rows[d]] /\ rows[f] = Voided(doc[f])
  BY <1>1 DEF Released
<1>9. ASSUME NEW d \in Document, d # f PROVE rows[d] = back[d]
  <2>1. rows[d] = IF d \in Credit THEN Restored(doc[d], Total(From(d) \cap To(f))) ELSE doc[d]
    BY <1>9 DEF Released
  <2>2. P \cap Slots(d) = From(d) \cap To(f)
    BY <1>1, <1>9 DEF Slots, From, To, P
  <2>3. d \notin Credit => P \cap Slots(d) = {}
    BY <1>1, <1>9 DEF Slots
  <2>4. Part(application, P, d) = Total(From(d) \cap To(f))
    BY <2>2 DEF Part, Total
  <2>5. d \notin Credit => Part(application, P, d) = 0
    BY <1>4, <2>3, PartsOf
  <2>. QED  BY <2>1, <2>4, <2>5 DEF Restored
<1>10. \A a \in Slots(f) : left[a] = 0
  BY <1>1, <1>3, SlotsAre
<1>11. SumFunctionOnSet(left, Slots(f)) = 0
  <2>1. left \in [Application -> Nat]
    BY <1>7 DEF BooksOf
  <2>. QED  BY <1>10, <2>1, TotalIsNat, SlotsAre
<1>12. Book(f, rows[f], SumFunctionOnSet(left, Slots(f)))
  <2>1. Book(f, doc[f], Slot(f)) /\ f \notin Invoice \cup Receipt \cup Credit
    BY <1>1, RowFacts, DocumentsAssumption DEF BalanceInv, Adjustment
  <2>2. Book(f, doc[f], 0)
    BY <2>1 DEF Book, Row
  <2>. QED  BY <1>8, <1>11, <2>1, <2>2, BookVoided DEF Exists
<1>. HIDE DEF rows, back
<1>13. BooksOf(rows, left)
  BY <1>1, <1>7, <1>9, <1>12, Put
<1>14. ASSUME NEW d \in Document
       PROVE  /\ rows[d].original = doc[d].original
              /\ d \notin T => rows[d] = doc[d] /\ \A a \in Slots(d) : left[a] = application[a]
  <2>1. CASE d = f
    BY <1>2, <1>8, <2>1, OriginalsStay
  <2>2. CASE d # f
    <3>1. rows[d] = Restored(doc[d], Part(application, P, d))
      BY <1>9, <2>2 DEF back
    <3>2. d \notin T => P \cap Slots(d) = {}
      BY <1>1, <2>2 DEF Slots
    <3>3. d \notin T => Part(application, P, d) = 0
      BY <1>4, <3>2, PartsOf
    <3>4. d \notin T => \A a \in Slots(d) : left[a] = application[a]
      BY <1>3, <3>2, SlotsAre
    <3>5. d \notin T => rows[d] = doc[d]
      BY <3>1, <3>3 DEF Restored
    <3>6. rows[d].original = doc[d].original
      BY <1>2, <3>1, OriginalsStay
    <3>. QED  BY <3>4, <3>5, <3>6
  <2>. QED  BY <2>1, <2>2
<1>15. rows[f].status = "voided"
  BY <1>1, <1>2, <1>8 DEF Voided, Row
<1>16. /\ f \in T /\ T \subseteq Document /\ T \cap Final = {} /\ T \cap Refund \subseteq {f}
       /\ \A e \in T : Exists(e)
  BY <1>1
<1>. HIDE DEF T
<1>17. EndedWith(f, T, rows, left)
  BY <1>3, <1>8, <1>10, <1>13, <1>14, <1>15, <1>16 DEF EndedWith
<1>. QED  BY <1>17 DEF T, rows, left, P

LEMMA AdjustmentEnds ==
  ASSUME BalanceInv, NEW d \in Adjustment, MayEnd(d)
  PROVE  \E T : EndedWith(d, T, AdjustmentEnded(d), FundingEnded(d))
<1>1. d \in Document /\ Exists(d) /\ d \notin returned /\ (d \notin Final \/ d \in Refund)
  <2>1. d \in Document /\ Exists(d) /\ d \notin returned
    BY DEF Document, Adjustment, MayEnd, Untouched, Exists
  <2>2. d \in Credit => d \notin Final
    BY <2>1, NotFinal DEF MayEnd, Untouched
  <2>3. d \in WriteOff => d \notin Final
    <3>1. ASSUME NEW a \in cancellation PROVE d \in WriteOff => a[1] # d /\ a[2] # d
      BY DocumentsAssumption DEF BalanceInv, CancelOK, Adjustment
    <3>2. d \in WriteOff => d \notin returned
      BY <2>1
    <3>. QED  BY <3>1, <3>2 DEF Final
  <2>. QED  BY <2>1, <2>2, <2>3 DEF Adjustment
<1>2. CASE d \in Refund
  <2>1. Exists(d) /\ d \notin returned
    BY <1>2, DocumentsAssumption DEF MayEnd, Untouched, Exists
  <2>2. AdjustmentEnded(d) = Released(d)
    BY <1>2 DEF AdjustmentEnded
  <2>. QED  BY <1>2, <2>1, <2>2, RefundEnded
<1>3. CASE d \notin Refund
  <2>1. /\ AdjustmentEnded(d) = [doc EXCEPT ![d] = Voided(doc[d])]
        /\ d \in Document /\ Exists(d) /\ d \notin Final
        /\ d \in Invoice \cup Receipt \cup Credit => Untouched(d)
    BY <1>1, <1>3, DocumentsAssumption DEF AdjustmentEnded, MayEnd
  <2>2. FundingEnded(d) = application
    <3>1. application = [a \in Application |-> application[a]]
      BY AmountFacts DEF BalanceInv
    <3>. QED  BY <1>3, <3>1 DEF FundingEnded
  <2>. QED  BY <1>3, <2>1, <2>2, VoidOne
<1>. QED  BY <1>2, <1>3

-----------------------------------------------------------------------------
LEMMA EndedFacts ==
  ASSUME BalanceInv, NEW d, NEW T, NEW rows, NEW amounts, EndedWith(d, T, rows, amounts)
  PROVE  /\ d \in Document /\ Exists(d)
         /\ \A e \in Document : ~Exists(e) =>
              /\ e \notin T /\ rows[e] = doc[e] /\ rows[e].status = "none"
              /\ SumFunctionOnSet(amounts, Slots(e)) = 0 /\ \A a \in Slots(e) : amounts[a] = 0
<1>1. ASSUME NEW e \in Document, ~Exists(e)
      PROVE  /\ e \notin T /\ rows[e] = doc[e] /\ rows[e].status = "none"
             /\ SumFunctionOnSet(amounts, Slots(e)) = 0 /\ \A a \in Slots(e) : amounts[a] = 0
  <2>1. e \notin T
    BY <1>1 DEF EndedWith
  <2>2. rows[e] = doc[e] /\ rows[e].status = "none" /\ BooksOf(rows, amounts)
    BY <1>1, <2>1 DEF EndedWith, Exists
  <2>. QED  BY <2>1, <2>2, NoneApplied
<1>. QED  BY <1>1 DEF EndedWith

LEMMA VoidAdjustmentDone ==
  ASSUME BalanceInv, NEW d \in Adjustment, VoidAdjustment(d)
  PROVE  Done({})
<1>1. PICK T : EndedWith(d, T, doc', application')
  <2>1. MayEnd(d) /\ doc' = AdjustmentEnded(d) /\ application' = FundingEnded(d)
    BY DEF VoidAdjustment
  <2>2. \E T : EndedWith(d, T, AdjustmentEnded(d), FundingEnded(d))
    BY <2>1, AdjustmentEnds
  <2>. QED  BY <2>1, <2>2
<1>2. /\ d \in Document /\ reversed' \subseteq Document
      /\ UNCHANGED <<cancellation, returned>>
  BY DEF VoidAdjustment, BalanceInv, Document, Adjustment
<1>3. /\ doc' = [e \in Document |-> doc'[e]] /\ BooksOf(doc', application')
      /\ T \cap Final = {} /\ T \cap Refund \subseteq {d} /\ doc'[d].status = "voided"
      /\ \A e \in Document : doc'[e].original = doc[e].original
      /\ \A e \in Document \ T : Same(e)
      /\ d \in Refund => d \notin returned /\ \A a \in Slots(d) : application'[a] = 0
  BY <1>1 DEF EndedWith, Same
<1>4. Touches({}, T)
  BY <1>3 DEF Touches
<1>5. ASSUME NEW f \in Refund \cap T PROVE RefundOK(f)'
  <2>1. /\ f = d /\ doc'[f].status = "voided" /\ f \notin returned
        /\ \A a \in Slots(f) : application'[a] = 0
    BY <1>3
  <2>2. application' \in [Application -> Nat]
    BY <1>3 DEF BooksOf
  <2>3. Slot(f)' = 0
    BY <2>1, <2>2, TotalIsNat, SlotsAre DEF Slot
  <2>. QED  BY <1>2, <2>1, <2>3 DEF RefundOK
<1>6. BalanceInv'
  <2>1. returned \subseteq Refund
    BY DEF BalanceInv
  <2>. QED  BY <1>2, <1>4, <1>5, <2>1, TouchKeeps
<1>. QED  BY <1>4, <1>6, TouchExists DEF Done

LEMMA ReplaceAdjustmentDone ==
  ASSUME BalanceInv, NEW d \in Adjustment, NEW new \in Adjustment, NEW amount \in DocumentAmount,
         ReplaceAdjustment(d, new, amount)
  PROVE  Done({new})
<1> DEFINE rows == AdjustmentEnded(d)
           row == IF d \in Credit THEN NewDocument(amount) ELSE Settled(amount)
<1>1. /\ MayEnd(d) /\ ~Exists(new) /\ new \in Document /\ d \in Document
      /\ amount \in Nat /\ amount > 0
      /\ d \in Credit <=> new \in Credit
      /\ d \in Refund <=> new \in Refund
      /\ new \notin Invoice \cup Receipt
      /\ doc' = [rows EXCEPT ![new] = row] /\ application' = FundingEnded(d)
      /\ reversed' \subseteq Document /\ UNCHANGED <<cancellation, returned>>
  <2>1. d \in Document /\ new \in Document /\ new \notin Invoice \cup Receipt
    BY DocumentsAssumption DEF Document, Adjustment
  <2>2. (d \in Credit <=> new \in Credit) /\ (d \in Refund <=> new \in Refund)
    BY DocumentsAssumption DEF Adjustment, ReplaceAdjustment
  <2>. QED  BY <2>1, <2>2, ReceivableAmountsAssumption DEF ReplaceAdjustment, BalanceInv
<1>2. PICK T : EndedWith(d, T, rows, application')
  BY <1>1, AdjustmentEnds
<1>. HIDE DEF rows
<1>3. /\ new \notin T /\ rows[new] = doc[new] /\ d # new
      /\ SumFunctionOnSet(application', Slots(new)) = 0
      /\ \A a \in Slots(new) : application'[a] = 0
  BY <1>1, <1>2, EndedFacts
<1>4. /\ doc' = [e \in Document |-> doc'[e]] /\ doc'[new] = row
      /\ \A e \in Document : e # new => doc'[e] = rows[e]
  BY <1>1, <1>2 DEF EndedWith
<1>5. Book(new, doc'[new], SumFunctionOnSet(application', Slots(new)))
  BY <1>1, <1>3, <1>4, BookNew, BookSettled
<1>6. BooksOf(doc', application')
  BY <1>1, <1>2, <1>4, <1>5, Put DEF EndedWith
<1>7. new \notin Final
  BY <1>1, NotFinal DEF Exists
<1>8. Touches({new}, T \cup {new})
  <2>1. \A e \in Document \ {new} : doc'[e].original = doc[e].original
    BY <1>2, <1>4 DEF EndedWith
  <2>2. \A e \in Document \ (T \cup {new}) : Same(e)
    BY <1>2, <1>4 DEF EndedWith, Same
  <2>3. (T \cup {new}) \cap Final = {}
    BY <1>2, <1>7 DEF EndedWith
  <2>. QED  BY <1>1, <1>4, <1>6, <2>1, <2>2, <2>3 DEF Touches
<1>9. ASSUME NEW f \in Refund \cap (T \cup {new}) PROVE RefundOK(f)'
  <2>1. CASE f = new
    <3>1. f \notin returned /\ doc'[f].status = "settled"
      BY <1>1, <1>4, <2>1, Refunds, DocumentsAssumption DEF Settled
    <3>2. Slot(f)' = 0 /\ \A a \in Slots(f) : application'[a] = 0
      BY <1>3, <2>1 DEF Slot
    <3>. QED  BY <1>1, <3>1, <3>2 DEF RefundOK
  <2>2. CASE f # new
    <3>1. /\ f = d /\ doc'[f].status = "voided" /\ f \notin returned
          /\ \A a \in Slots(f) : application'[a] = 0
      BY <1>1, <1>2, <1>4, <2>2 DEF EndedWith
    <3>2. application' \in [Application -> Nat]
      BY <1>6 DEF BooksOf
    <3>3. Slot(f)' = 0
      BY <3>1, <3>2, TotalIsNat, SlotsAre DEF Slot
    <3>. QED  BY <1>1, <3>1, <3>3 DEF RefundOK
  <2>. QED  BY <2>1, <2>2
<1>10. BalanceInv'
  <2>1. returned \subseteq Refund
    BY DEF BalanceInv
  <2>. QED  BY <1>1, <1>8, <1>9, <2>1, TouchKeeps
<1>. QED  BY <1>8, <1>10, TouchExists DEF Done

-----------------------------------------------------------------------------
LEMMA FundingIs ==
  ASSUME NEW funding \in Fundings
  PROVE  /\ DOMAIN funding \subseteq Credit /\ DOMAIN funding \subseteq Document
         /\ IsFiniteSet(DOMAIN funding)
         /\ \A c \in DOMAIN funding : funding[c] \in Nat /\ funding[c] > 0
         /\ SumFunction(funding) \in Nat /\ SumFunction(funding) > 0
         /\ SumFunction(funding) = SumFunctionOnSet(funding, DOMAIN funding)
<1>1. PICK C \in (SUBSET Credit) \ {{}} : funding \in [C -> Amount]
  BY DEF Fundings
<1>2. /\ DOMAIN funding = C /\ C # {} /\ C \subseteq Document
      /\ \A c \in C : funding[c] \in Nat /\ funding[c] > 0
  BY <1>1, ReceivableAmountsAssumption DEF Amount, Document, Adjustment
<1>3. IsFiniteSet(C)
  BY <1>2, FS_Subset, DocumentsAssumption
<1>4. SumFunction(funding) = SumFunctionOnSet(funding, C)
  BY <1>2 DEF SumFunction
<1>5. PICK c \in C : TRUE
  BY <1>2
<1>6. /\ SumFunctionOnSet(funding, C) \in Nat /\ funding[c] <= SumFunctionOnSet(funding, C)
  BY <1>2, <1>3, <1>5, SumType, SumBoundsMember
<1>. QED  BY <1>1, <1>2, <1>3, <1>4, <1>5, <1>6

(* A refund is made and funded by credits. *)
LEMMA Fund ==
  ASSUME NEW rows, NEW amounts, BooksOf(rows, amounts), NEW f \in Refund,
         rows[f].status = "none", NEW funding \in Fundings,
         \A c \in DOMAIN funding : funding[c] <= rows[c].open
  PROVE  /\ BooksOf(Funded(rows, f, funding), WithFunding(amounts, f, funding))
         /\ SumFunctionOnSet(WithFunding(amounts, f, funding), Slots(f)) = SumFunction(funding)
         /\ \A a \in Slots(f) : WithFunding(amounts, f, funding)[a] > 0 => a[1] \in Credit
         /\ \A d \in Document : d \notin DOMAIN funding \cup {f} =>
              \A a \in Slots(d) : WithFunding(amounts, f, funding)[a] = amounts[a]
<1> DEFINE total == SumFunction(funding)
           C == DOMAIN funding
           P == FundedBy(f, funding)
           new == Funded(rows, f, funding)
           grown == WithFunding(amounts, f, funding)
           mid == [d \in Document |-> IF d = f THEN NewDocument(total) ELSE rows[d]]
           plan == [a \in P |-> funding[a[1]]]
           name == [c \in C |-> <<c, f, 1>>]
<1>1. /\ C \subseteq Credit /\ C \subseteq Document /\ IsFiniteSet(C)
      /\ \A c \in C : funding[c] \in Nat /\ funding[c] > 0
      /\ total \in Nat /\ total > 0 /\ total = SumFunctionOnSet(funding, C)
  BY FundingIs
<1>2. f \in Document /\ f \notin Credit /\ 1 \in 1..MaxApplications
  BY DocumentsAssumption, ReceivableAmountsAssumption DEF Document, Adjustment
<1>3. /\ P = {name[c] : c \in C}
      /\ \A c \in C : name[c] \in P /\ plan[name[c]] = funding[c] /\ name[c][1] = c /\ name[c][2] = f
      /\ \A a \in P : a[1] \in C /\ a[2] = f /\ a = name[a[1]] /\ plan[a] = funding[a[1]]
  BY DEF FundedBy
<1>4. P \subseteq Application
  BY <1>1, <1>2, <1>3, ApplicationIs
<1>5. /\ SumFunctionOnSet(amounts, Slots(f)) = 0 /\ \A a \in Slots(f) : amounts[a] = 0
      /\ amounts \in [Application -> Nat]
      /\ \A d \in Document : rows[d] \in Row /\ rows[d].open \in Nat
  <2>1. \A d \in Document : rows[d] \in Row /\ rows[d].open \in Nat
    BY DEF BooksOf, Book, Row
  <2>. QED  BY <1>2, <2>1, NoneApplied DEF BooksOf
<1>6. /\ grown = [a \in Application |-> grown[a]]
      /\ \A a \in Application : grown[a] = IF a \in P THEN funding[a[1]] ELSE amounts[a]
  BY DEF WithFunding
<1>7. /\ \A d \in Document : d # f => mid[d] = rows[d]
      /\ mid[f] = NewDocument(total)
      /\ NewDocument(total).open = total
  BY <1>2 DEF NewDocument
<1>8. /\ new = [d \in Document |-> new[d]] /\ new[f] = Settled(total)
      /\ \A d \in C : new[d] = Spent(rows[d], funding[d])
      /\ \A d \in Document \ (C \cup {f}) : new[d] = rows[d]
  BY <1>1, <1>2 DEF Funded
<1>. HIDE DEF total, C, P, new, grown, mid, plan, name
<1>9. BooksOf(mid, amounts)
  BY <1>1, <1>2, <1>5, <1>7, PutNew
<1>10. PlanOK(plan, P)
  BY <1>1, <1>3, <1>4 DEF PlanOK
<1>11. SumFunctionOnSet(plan, P) = total
  <2>1. /\ \A c \in C : plan[name[c]] \in Int /\ funding[c] = plan[name[c]]
        /\ \A b, c \in C : name[b] = name[c] => b = c
    BY <1>1, <1>3
  <2>2. SumFunctionOnSet(funding, C) = SumFunctionOnSet(plan, {name[c] : c \in C})
    BY <1>1, <2>1, SumRenamed
  <2>. QED  BY <1>1, <1>3, <2>2
<1>12. Part(plan, P, f) = total
  <2>1. P \subseteq Slots(f)
    BY <1>3, <1>4 DEF Slots
  <2>. QED  BY <1>10, <1>11, <2>1, PartsOf
<1>13. ASSUME NEW c \in C PROVE Part(plan, P, c) = funding[c]
  <2>1. P \cap Slots(c) = {name[c]}
    BY <1>1, <1>2, <1>3, <1>4 DEF Slots
  <2>2. plan[name[c]] \in Int /\ plan[name[c]] = funding[c]
    BY <1>1, <1>3
  <2>3. SumFunctionOnSet(plan, {name[c]}) = plan[name[c]]
    BY <2>2, SumSingle
  <2>. QED  BY <2>1, <2>2, <2>3 DEF Part
<1>14. ASSUME NEW d \in Document, d \notin C \cup {f}
       PROVE  P \cap Slots(d) = {} /\ Part(plan, P, d) = 0
  <2>1. P \cap Slots(d) = {}
    BY <1>3, <1>14 DEF Slots
  <2>. QED  BY <1>10, <2>1, PartsOf
<1>15. SpentRows(mid, new, plan, P)
  <2>1. ASSUME NEW d \in Document
        PROVE  Part(plan, P, d) <= mid[d].open /\ new[d] = Spent(mid[d], Part(plan, P, d))
    <3>1. CASE d = f
      BY <1>1, <1>7, <1>8, <1>12, <3>1, SettledIsSpent
    <3>2. CASE d \in C
      BY <1>1, <1>2, <1>7, <1>8, <1>13, <3>2 DEF C
    <3>3. CASE d \notin C \cup {f}
      BY <1>5, <1>7, <1>8, <1>14, <3>3 DEF Spent
    <3>. QED  BY <3>1, <3>2, <3>3
  <2>. QED  BY <2>1 DEF SpentRows
<1>16. SpentAmounts(amounts, grown, plan, P)
  <2>1. \A a \in P : amounts[a] + plan[a] = funding[a[1]]
    <3>1. \A a \in P : amounts[a] = 0
      BY <1>3, <1>4, <1>5 DEF Slots
    <3>. QED  BY <1>1, <1>3, <3>1
  <2>. QED  BY <1>6, <2>1 DEF SpentAmounts
<1>17. BooksOf(new, grown)
  BY <1>9, <1>10, <1>15, <1>16, Spend
<1>18. SumFunctionOnSet(grown, Slots(f)) = total
  <2>1. P \in SUBSET Slots(f) /\ IsFiniteSet(Slots(f)) /\ IsFiniteSet(P)
    BY <1>3, <1>4, SlotsAre, FiniteSets DEF Slots
  <2>2. /\ \A a \in Slots(f) : grown[a] \in Nat
        /\ \A a \in Slots(f) \ P : grown[a] = 0
        /\ \A a \in P : grown[a] = plan[a]
    BY <1>3, <1>4, <1>5, <1>6, <1>17, SlotsAre DEF BooksOf
  <2>3. SumFunctionOnSet(grown, Slots(f)) = SumFunctionOnSet(grown, P)
    BY <2>1, <2>2, SumWithout
  <2>4. SumFunctionOnSet(grown, P) = SumFunctionOnSet(plan, P)
    BY <2>1, <2>2, SumSame
  <2>. QED  BY <1>11, <2>3, <2>4
<1>19. \A a \in Slots(f) : grown[a] > 0 => a[1] \in Credit
  BY <1>1, <1>3, <1>5, <1>6, SlotsAre
<1>20. \A d \in Document : d \notin C \cup {f} => \A a \in Slots(d) : grown[a] = amounts[a]
  BY <1>6, <1>14, SlotsAre
<1>. QED  BY <1>17, <1>18, <1>19, <1>20 DEF new, grown, total, C

(* The refund funded from rows and amounts that an end before it may have  *)
(* left, having touched the documents of T.                                *)
TouchedBefore(T, rows, amounts) ==
  /\ BooksOf(rows, amounts)
  /\ T \subseteq Document /\ T \cap Final = {}
  /\ \A e \in Document : rows[e].original = doc[e].original
  /\ \A e \in Document \ T : rows[e] = doc[e] /\ \A a \in Slots(e) : amounts[a] = application[a]

FundsNow(f, funding, rows, amounts) ==
  /\ \A c \in DOMAIN funding : funding[c] <= rows[c].open
  /\ doc' = Funded(rows, f, funding)
  /\ application' = WithFunding(amounts, f, funding)

LEMMA FundTouches ==
  ASSUME BalanceInv, NEW rows, NEW amounts, NEW T, TouchedBefore(T, rows, amounts),
         NEW f \in Refund, ~Exists(f), f \notin T, NEW funding \in Fundings,
         FundsNow(f, funding, rows, amounts)
  PROVE  /\ Touches({f}, T \cup {f} \cup DOMAIN funding)
         /\ f \notin returned' => RefundOK(f)'
         /\ DOMAIN funding \cap Refund = {} /\ f \in Document
         /\ \A e \in Document : e \notin DOMAIN funding \cup {f} =>
              doc'[e] = rows[e] /\ \A a \in Slots(e) : application'[a] = amounts[a]
<1> DEFINE C == DOMAIN funding
           total == SumFunction(funding)
<1>. USE DEF TouchedBefore, FundsNow
<1>1. /\ C \subseteq Credit /\ C \subseteq Document /\ C \cap Refund = {}
      /\ \A c \in C : funding[c] \in Nat /\ funding[c] > 0
      /\ total \in Nat /\ total > 0 /\ f \in Document /\ f \notin C
  BY FundingIs, DocumentsAssumption DEF Document, Adjustment
<1>2. rows[f] = doc[f] /\ rows[f].status = "none"
  BY <1>1 DEF Exists
<1>3. /\ BooksOf(doc', application')
      /\ SumFunctionOnSet(application', Slots(f)) = total
      /\ \A a \in Slots(f) : application'[a] > 0 => a[1] \in Credit
      /\ \A d \in Document : d \notin C \cup {f} =>
           \A a \in Slots(d) : application'[a] = amounts[a]
  BY <1>2, Fund
<1>4. /\ doc' = [d \in Document |-> doc'[d]] /\ doc'[f] = Settled(total)
      /\ \A d \in C : doc'[d] = Spent(rows[d], funding[d])
      /\ \A d \in Document \ (C \cup {f}) : doc'[d] = rows[d]
  BY <1>1 DEF Funded
<1>5. \A d \in Document : rows[d] \in Row /\ rows[d].open \in Nat
  BY DEF BooksOf, Book, Row
<1>. HIDE DEF C, total
<1>6. ASSUME NEW c \in C PROVE c \notin Final
  <2>1. CASE c \in T
    BY <2>1
  <2>2. CASE c \notin T
    <3>1. c \in Document /\ rows[c] = doc[c] /\ doc[c].open # 0
      BY <1>1, <1>5, <1>6, <2>2 DEF C
    <3>. QED  BY <3>1, NotFinal
  <2>. QED  BY <2>1, <2>2
<1>7. f \notin Final
  BY <1>1, NotFinal DEF Exists
<1>8. \A d \in Document \ {f} : doc'[d].original = doc[d].original
  BY <1>1, <1>4, <1>5, OriginalsStay
<1>9. \A d \in Document \ (T \cup {f} \cup C) : Same(d)
  BY <1>3, <1>4 DEF Same
<1>10. Touches({f}, T \cup {f} \cup C)
  BY <1>3, <1>4, <1>6, <1>7, <1>8, <1>9 DEF Touches
<1>11. f \notin returned' => RefundOK(f)'
  <2>1. doc'[f].status = "settled" /\ doc'[f].original = total /\ Slot(f)' = total
    BY <1>3, <1>4 DEF Settled, Slot
  <2>. QED  BY <1>3, <2>1 DEF RefundOK
<1>. QED  BY <1>1, <1>3, <1>4, <1>10, <1>11 DEF C

LEMMA FundRefundDone ==
  ASSUME BalanceInv, NEW f \in Refund, NEW funding \in Fundings, FundRefund(f, funding)
  PROVE  Done({f})
<1> DEFINE none == {}
           T == none \cup {f} \cup DOMAIN funding
<1>1. /\ ~Exists(f) /\ FundsNow(f, funding, doc, application) /\ f \notin none
      /\ TouchedBefore(none, doc, application)
      /\ UNCHANGED <<cancellation, returned, reversed>>
      /\ BooksOf(doc, application) /\ returned \subseteq Refund /\ reversed \subseteq Document
  BY DEF FundRefund, BalanceInv, FundsNow, TouchedBefore
<1>. HIDE DEF none
<1>2. f \notin returned
  BY <1>1, Refunds
<1>3. /\ Touches({f}, T) /\ RefundOK(f)' /\ DOMAIN funding \cap Refund = {}
  BY <1>1, <1>2, FundTouches
<1>4. \A g \in Refund \cap T : RefundOK(g)'
  BY <1>3 DEF none
<1>. HIDE DEF T
<1>5. BalanceInv'
  BY <1>1, <1>3, <1>4, TouchKeeps
<1>. QED  BY <1>3, <1>5, TouchExists DEF Done

LEMMA ReplaceFundingDone ==
  ASSUME BalanceInv, NEW f \in Refund, NEW new \in Refund, NEW funding \in Fundings,
         ReplaceFunding(f, new, funding)
  PROVE  Done({new})
<1> DEFINE rows == Released(f)
           amounts == FundingEnded(f)
<1>1. /\ MayEnd(f) /\ ~Exists(new)
      /\ FundsNow(new, funding, rows, amounts)
      /\ reversed' \subseteq Document
      /\ UNCHANGED <<cancellation, returned>>
      /\ returned \subseteq Refund /\ f \in Document /\ new \in Document
      /\ f \in Adjustment /\ AdjustmentEnded(f) = rows
  BY DEF ReplaceFunding, BalanceInv, Document, Adjustment, AdjustmentEnded, FundsNow
<1>2. PICK T : EndedWith(f, T, rows, amounts)
  BY <1>1, AdjustmentEnds
<1> DEFINE all == T \cup {new} \cup DOMAIN funding
<1>. HIDE DEF rows, amounts
<1>3. new \notin T /\ f # new
  BY <1>1, <1>2, EndedFacts
<1>4. /\ TouchedBefore(T, rows, amounts)
      /\ T \cap Refund \subseteq {f} /\ f \notin returned /\ rows[f].status = "voided"
      /\ \A a \in Slots(f) : amounts[a] = 0
  BY <1>2 DEF EndedWith, TouchedBefore
<1>5. new \notin returned'
  BY <1>1, Refunds
<1>6. /\ Touches({new}, all) /\ RefundOK(new)' /\ DOMAIN funding \cap Refund = {}
      /\ \A e \in Document : e \notin DOMAIN funding \cup {new} =>
           doc'[e] = rows[e] /\ \A a \in Slots(e) : application'[a] = amounts[a]
  <2>1. ~Exists(new) /\ new \notin T /\ FundsNow(new, funding, rows, amounts) /\ TouchedBefore(T, rows, amounts)
    BY <1>1, <1>3, <1>4
  <2>. QED  BY <2>1, <1>5, FundTouches
<1>7. ASSUME NEW g \in Refund \cap all PROVE RefundOK(g)'
  <2>1. CASE g = new
    BY <1>6, <2>1
  <2>2. CASE g # new
    <3>1. g = f /\ f \notin DOMAIN funding \cup {new}
      BY <1>3, <1>4, <1>6, <2>2
    <3>2. /\ doc'[g].status = "voided" /\ g \notin returned'
          /\ \A a \in Slots(g) : application'[a] = 0
      BY <1>1, <1>4, <1>6, <3>1
    <3>3. application' \in [Application -> Nat]
      BY <1>6 DEF Touches, BooksOf
    <3>4. Slot(g)' = 0
      BY <3>2, <3>3, TotalIsNat, SlotsAre DEF Slot
    <3>. QED  BY <3>2, <3>4 DEF RefundOK
  <2>. QED  BY <2>1, <2>2
<1>. HIDE DEF all
<1>8. BalanceInv'
  BY <1>1, <1>6, <1>7, TouchKeeps
<1>. QED  BY <1>6, <1>8, TouchExists DEF Done

-----------------------------------------------------------------------------
(* A plan of what to release of some applications. *)
LEMMA PlanIs ==
  ASSUME NEW r \in Receipt, NEW amount \in Amount, NEW plan \in ReleasePlans(r, amount),
         BalanceInv
  PROVE  /\ PlanOK(plan, DOMAIN plan)
         /\ \A a \in DOMAIN plan : /\ a \in Application /\ a[1] = r /\ a[2] \in Invoice /\ Active(a)
                                   /\ plan[a] \in Nat /\ plan[a] <= application[a]
         /\ SumFunction(plan) = SumFunctionOnSet(plan, DOMAIN plan)
         /\ SumFunction(plan) \in Nat /\ amount <= doc[r].open + SumFunction(plan)
<1> DEFINE missing == IF amount > doc[r].open THEN amount - doc[r].open ELSE 0
           S == {a \in From(r) : a[2] \in Invoice}
<1>1. /\ plan \in UNION {[P -> Amount] : P \in SUBSET S}
      /\ \A a \in DOMAIN plan : plan[a] <= application[a]
      /\ SumFunction(plan) = missing
  BY DEF ReleasePlans
<1>2. PICK P \in SUBSET S : plan \in [P -> Amount]
  BY <1>1
<1>3. \A a \in DOMAIN plan : /\ a \in Application /\ a[1] = r /\ a[2] \in Invoice /\ Active(a)
                             /\ plan[a] \in Nat
  BY <1>2 DEF From, Amount
<1>4. r \in Document /\ amount \in Nat
  BY ReceivableAmountsAssumption DEF Document, Amount
<1>5. doc[r].open \in Nat
  BY <1>4, RowFacts DEF BalanceInv
<1>6. missing \in Nat /\ amount <= doc[r].open + missing
  BY <1>4, <1>5
<1>. HIDE DEF missing
<1>. QED  BY <1>1, <1>3, <1>6 DEF PlanOK, SumFunction

LEMMA ReturnCashDone ==
  ASSUME BalanceInv, NEW r \in Receipt, NEW f \in Refund, NEW amount \in Amount,
         ReturnCash(r, f, amount)
  PROVE  Done({f})
<1>1. PICK plan \in ReleasePlans(r, amount) :
        /\ application' = [a \in Application |->
             CASE a = <<r, f, 1>> -> amount
               [] a \in DOMAIN plan -> application[a] - plan[a]
               [] OTHER -> application[a]]
        /\ doc' = [d \in Document |->
             CASE d = r -> Spent(Restored(doc[r], SumFunction(plan)), amount)
               [] d = f -> Settled(amount)
               [] OTHER -> Restored(doc[d], SumFunctionOnSet(plan, DOMAIN plan \cap To(d)))]
  BY DEF ReturnCash
<1>2. /\ ~Exists(f) /\ returned' = returned \cup {f} /\ UNCHANGED <<cancellation, reversed>>
  BY DEF ReturnCash
<1> DEFINE P == DOMAIN plan
           total == SumFunction(plan)
           b == <<r, f, 1>>
           back == [d \in Document |-> Restored(doc[d], Part(plan, P, d))]
           left == [a \in Application |-> IF a \in P THEN application[a] - plan[a] ELSE application[a]]
           mid == [d \in Document |-> IF d = f THEN NewDocument(amount) ELSE back[d]]
           T == {r, f} \cup {a[2] : a \in P}
<1>3. /\ PlanOK(plan, P) /\ P \subseteq Application
      /\ \A a \in P : /\ a \in Application /\ a[1] = r /\ a[2] \in Invoice /\ Active(a)
                      /\ plan[a] \in Nat /\ plan[a] <= application[a]
      /\ total = SumFunctionOnSet(plan, P) /\ total \in Nat /\ amount <= doc[r].open + total
  BY PlanIs
<1>4. /\ r \in Document /\ f \in Document /\ r # f /\ r \notin Invoice /\ r \notin Refund
      /\ f \notin Invoice /\ amount \in Nat /\ amount > 0
      /\ b \in Application /\ b[1] = r /\ b[2] = f
      /\ \A i \in Invoice : i \in Document /\ i # f /\ i \notin Refund
  BY ApplicationIs, DocumentsAssumption, ReceivableAmountsAssumption
     DEF Document, Adjustment, Amount
<1>5. /\ BooksOf(doc, application) /\ application \in [Application -> Nat]
      /\ \A d \in Document : doc[d] \in Row /\ doc[d].open \in Nat /\ doc[d].original \in Nat
      /\ doc[f].status = "none" /\ \A a \in Slots(f) : application[a] = 0
  BY <1>2, <1>4, AmountFacts, RowFacts DEF BalanceInv, Exists
<1>6. /\ doc' = [d \in Document |-> doc'[d]]
      /\ doc'[r] = Spent(Restored(doc[r], total), amount) /\ doc'[f] = Settled(amount)
      /\ \A d \in Document : d # r /\ d # f =>
           doc'[d] = Restored(doc[d], SumFunctionOnSet(plan, P \cap To(d)))
  BY <1>1, <1>4
<1>7. /\ application' = [a \in Application |-> application'[a]]
      /\ \A a \in Application : application'[a] = IF a = b THEN amount ELSE left[a]
  <2>1. \A a \in Application : left[a] = IF a \in P THEN application[a] - plan[a] ELSE application[a]
    OBVIOUS
  <2>. HIDE DEF left, P, b
  <2>2. application' = [a \in Application |->
          CASE a = b -> amount [] a \in P -> application[a] - plan[a] [] OTHER -> application[a]]
    BY <1>1 DEF P, b
  <2>3. b \notin P
    BY <1>3, <1>4 DEF P, b
  <2>. QED  BY <2>1, <2>2, <2>3
<1>8. /\ left = [a \in Application |-> left[a]]
      /\ \A a \in Application : left[a] = IF a \in P THEN application[a] - plan[a] ELSE application[a]
  OBVIOUS
<1>9. \A d \in Document : back[d] = Restored(doc[d], Part(plan, P, d))
  OBVIOUS
<1>10. mid[f] = NewDocument(amount) /\ \A d \in Document : d # f => mid[d] = back[d]
  BY <1>4
<1>. HIDE DEF P, total, b, back, left, mid, T
<1>11. Part(plan, P, r) = total
  <2>1. P \subseteq Slots(r)
    BY <1>3 DEF Slots
  <2>. QED  BY <1>3, <2>1, PartsOf
<1>12. P \cap Slots(f) = {} /\ Part(plan, P, f) = 0
  <2>1. P \cap Slots(f) = {}
    BY <1>3, <1>4 DEF Slots
  <2>. QED  BY <1>3, <2>1, PartsOf
<1>13. ASSUME NEW d \in Document, d # r
       PROVE  Part(plan, P, d) = SumFunctionOnSet(plan, P \cap To(d))
  <2>1. P \cap Slots(d) = P \cap To(d)
    BY <1>3, <1>13 DEF Slots, To
  <2>. QED  BY <2>1 DEF Part
<1>14. BooksOf(back, left)
  <2>1. ReleasedRows(doc, back, plan, P)
    BY <1>9 DEF ReleasedRows
  <2>2. ReleasedAmounts(application, left, plan, P)
    BY <1>3, <1>8 DEF ReleasedAmounts
  <2>. QED  BY <1>3, <1>5, <2>1, <2>2, Release
<1>15. SumFunctionOnSet(left, Slots(f)) = 0 /\ (\A a \in Slots(f) : left[a] = 0) /\ left[b] = 0
  <2>1. \A a \in Slots(f) : left[a] = 0
    BY <1>5, <1>8, <1>12, SlotsAre
  <2>2. left \in [Application -> Nat]
    BY <1>14 DEF BooksOf
  <2>3. b \in Slots(f)
    BY <1>4 DEF Slots
  <2>. QED  BY <2>1, <2>2, <2>3, TotalIsNat, SlotsAre
<1>16. BooksOf(mid, left)
  BY <1>4, <1>10, <1>14, <1>15, PutNew
<1>17. /\ back[r] = Restored(doc[r], total) /\ mid[r] = back[r]
       /\ back[r].open = doc[r].open + total
  <2>1. back[r] = Restored(doc[r], total) /\ mid[r] = back[r]
    BY <1>4, <1>9, <1>10, <1>11
  <2>2. Restored(doc[r], total).open = doc[r].open + total
    BY <1>3, <1>4, <1>5 DEF Restored, Rebalance, Row
  <2>. QED  BY <2>1, <2>2
<1>18. BooksOf(doc', application')
  <2>1. amount <= mid[b[1]].open /\ amount <= mid[b[2]].open
    BY <1>3, <1>4, <1>10, <1>17 DEF NewDocument
  <2>2. ASSUME NEW d \in Document
        PROVE  doc'[d] = IF d \in {b[1], b[2]} THEN Spent(mid[d], amount) ELSE mid[d]
    <3>1. CASE d = r
      BY <1>4, <1>6, <1>17, <3>1
    <3>2. CASE d = f
      BY <1>4, <1>6, <1>10, <3>2, SettledIsSpent
    <3>3. CASE d # r /\ d # f
      BY <1>4, <1>6, <1>9, <1>10, <1>13, <3>3
    <3>. QED  BY <3>1, <3>2, <3>3
  <2>. QED  BY <1>4, <1>7, <1>15, <1>16, <2>1, <2>2, SpendOne
<1>19. f \in T /\ r \in T /\ T \cap Refund = {f} /\ T \cap Final = {}
  <2>1. r \notin Final
    BY FinalFacts
  <2>2. f \notin Final
    BY <1>4, <1>5, NotFinal
  <2>3. ASSUME NEW a \in P PROVE a[2] \notin Final
    <3>1. a \in Slots(a[2]) /\ application[a] > 0 /\ a[2] \notin Refund
      BY <1>3, <1>4 DEF Slots, Active
    <3>2. a \notin cancellation
      BY <1>3, DocumentsAssumption DEF BalanceInv, CancelOK, Adjustment
    <3>3. returned \subseteq Refund
      BY DEF BalanceInv
    <3>. QED  BY <3>1, <3>2, <3>3, FinalFacts
  <2>. QED  BY <1>3, <1>4, <2>1, <2>2, <2>3 DEF T
<1>20. ASSUME NEW d \in Document
       PROVE  /\ d # f => doc'[d].original = doc[d].original
              /\ d \notin T => Same(d)
  <2>1. CASE d = f
    BY <1>19, <2>1
  <2>2. CASE d = r
    <3>1. back[r].original = doc[r].original
      BY <1>4, <1>5, <1>17, OriginalsStay
    <3>2. back[r] \in Row
      BY <1>4, <1>14 DEF BooksOf, Book
    <3>3. doc'[r].original = back[r].original
      BY <1>6, <1>17, <3>2, OriginalsStay
    <3>. QED  BY <1>19, <2>2, <3>1, <3>3
  <2>3. CASE d # f /\ d # r
    <3>1. doc'[d] = Restored(doc[d], Part(plan, P, d))
      BY <1>6, <1>13, <2>3
    <3>2. doc'[d].original = doc[d].original
      BY <1>5, <3>1, OriginalsStay
    <3>3. d \notin T => P \cap Slots(d) = {}
      BY <1>3, <2>3 DEF Slots, T
    <3>4. d \notin T => doc'[d] = doc[d]
      BY <1>3, <3>1, <3>3, PartsOf DEF Restored
    <3>5. d \notin T => \A a \in Slots(d) : application'[a] = application[a]
      BY <1>4, <1>7, <1>8, <2>3, <3>3, SlotsAre DEF Slots
    <3>. QED  BY <3>2, <3>4, <3>5 DEF Same
  <2>. QED  BY <2>1, <2>2, <2>3
<1>21. Touches({f}, T)
  BY <1>2, <1>6, <1>18, <1>19, <1>20 DEF Touches
<1>22. RefundOK(f)'
  <2>1. doc'[f].status = "settled" /\ doc'[f].original = amount
    BY <1>6 DEF Settled
  <2>2. b \in Slots(f) /\ application'[b] = amount
    BY <1>4, <1>7 DEF Slots
  <2>3. Slot(f)' = amount
    <3>1. /\ IsFiniteSet(Slots(f)) /\ {b} \in SUBSET Slots(f)
          /\ \A a \in Slots(f) : application'[a] \in Nat
          /\ \A a \in Slots(f) \ {b} : application'[a] = 0
      BY <1>4, <1>7, <1>15, <2>2, SlotsAre
    <3>2. SumFunctionOnSet(application', Slots(f)) = SumFunctionOnSet(application', {b})
      BY <3>1, SumWithout
    <3>3. SumFunctionOnSet(application', {b}) = amount
      BY <1>4, <2>2, SumSingle
    <3>. QED  BY <3>2, <3>3 DEF Slot
  <2>. QED  BY <1>2, <1>4, <2>1, <2>2, <2>3 DEF RefundOK
<1>23. BalanceInv'
  <2>1. returned \subseteq Refund /\ reversed \subseteq Document
    BY DEF BalanceInv
  <2>2. \A g \in Refund \cap T : RefundOK(g)'
    BY <1>19, <1>22
  <2>. QED  BY <1>2, <1>19, <1>21, <2>1, <2>2, TouchKeeps
<1>. QED  BY <1>21, <1>23, TouchExists DEF Done

-----------------------------------------------------------------------------
(* An invoice that nothing is applied to is cancelled by a new credit. *)
LEMMA CancelIs ==
  ASSUME NEW i \in Invoice, NEW c \in Credit
  PROVE  /\ i \in Document /\ c \in Document /\ i # c /\ i \notin Refund /\ c \notin Refund
         /\ c \notin Receipt /\ i \notin Receipt /\ i \notin Credit
         /\ <<c, i, 1>> \in Application /\ <<c, i, 1>>[1] = c /\ <<c, i, 1>>[2] = i
         /\ <<c, i, 1>> \in Slots(c) /\ <<c, i, 1>> \in Slots(i)
<1>1. /\ i \in Document /\ c \in Document /\ i # c /\ i \notin Refund /\ c \notin Refund
      /\ c \notin Receipt /\ i \notin Receipt /\ i \notin Credit
  BY DocumentsAssumption DEF Document, Adjustment
<1>2. <<c, i, 1>> \in Application
  BY ApplicationIs, ReceivableAmountsAssumption
<1>. QED  BY <1>1, <1>2 DEF Slots

LEMMA CancelBooks ==
  ASSUME NEW rows, NEW amounts, BooksOf(rows, amounts), NEW i \in Invoice, NEW c \in Credit,
         NEW amount \in Nat, amount > 0, \A a \in Slots(i) \cup Slots(c) : amounts[a] = 0,
         NEW new, new[i] = Settled(amount), new[c] = Settled(amount),
         \A d \in Document : d \notin {i, c} => new[d] = rows[d],
         NEW grown, grown = [a \in Application |-> grown[a]],
         \A a \in Application : grown[a] = IF a = <<c, i, 1>> THEN amount ELSE amounts[a]
  PROVE  BooksOf(new, grown)
<1> DEFINE b == <<c, i, 1>>
           one == [d \in Document |-> IF d = i THEN NewDocument(amount) ELSE rows[d]]
           two == [d \in Document |-> IF d = c THEN NewDocument(amount) ELSE one[d]]
<1>1. /\ i \in Document /\ c \in Document /\ i # c
      /\ b \in Application /\ b[1] = c /\ b[2] = i /\ b \in Slots(c)
  BY CancelIs
<1>2. amounts \in [Application -> Nat]
  BY DEF BooksOf
<1>3. SumFunctionOnSet(amounts, Slots(i)) = 0 /\ SumFunctionOnSet(amounts, Slots(c)) = 0
  BY <1>2, TotalIsNat, SlotsAre
<1>4. one[i] = NewDocument(amount) /\ \A d \in Document : d # i => one[d] = rows[d]
  BY <1>1
<1>5. two[c] = NewDocument(amount) /\ \A d \in Document : d # c => two[d] = one[d]
  BY <1>1
<1>. HIDE DEF one, two, b
<1>6. BooksOf(one, amounts)
  BY <1>1, <1>3, <1>4, PutNew
<1>7. BooksOf(two, amounts)
  BY <1>1, <1>3, <1>5, <1>6, PutNew
<1>8. amount <= two[b[1]].open /\ amount <= two[b[2]].open /\ amounts[b] = 0
  BY <1>1, <1>4, <1>5 DEF NewDocument
<1>9. \A d \in Document :
        new[d] = IF d \in {b[1], b[2]} THEN Spent(two[d], amount) ELSE two[d]
  BY <1>1, <1>4, <1>5, SettledIsSpent
<1>10. \A a \in Application : grown[a] = IF a = b THEN amount ELSE amounts[a]
  BY DEF b
<1>. QED  BY <1>1, <1>7, <1>8, <1>9, <1>10, SpendOne

LEMMA CancelIsOK ==
  ASSUME NEW i \in Invoice, NEW c \in Credit, NEW amount,
         doc'[i] = Settled(amount), doc'[c] = Settled(amount),
         application'[<<c, i, 1>>] = amount,
         \A a \in Slots(i) \cup Slots(c) : a # <<c, i, 1>> => application'[a] = 0
  PROVE  CancelOK(<<c, i, 1>>)'
BY CancelIs DEF CancelOK, Settled

LEMMA VoidInvoiceDone ==
  ASSUME BalanceInv, NEW i \in Invoice, NEW c \in Credit, VoidInvoice(i, c)
  PROVE  Done({c})
<1> DEFINE b == <<c, i, 1>>
           amount == doc[i].original
           T == {i, c}
<1>1. /\ Exists(i) /\ doc[i].open = amount /\ ~Exists(c) /\ \A a \in cancellation : a[2] # i
      /\ doc' = [doc EXCEPT ![i] = Settled(amount), ![c] = Settled(amount)]
      /\ application' = [application EXCEPT ![b] = amount]
      /\ cancellation' = cancellation \cup {b}
      /\ UNCHANGED <<returned, reversed>>
  <2>1. i # c
    BY CancelIs
  <2>. QED  BY <2>1 DEF VoidInvoice, BalanceInv
<1>2. /\ i \in Document /\ c \in Document /\ i # c /\ i \notin Refund /\ c \notin Refund
      /\ b \in Application /\ b \in Slots(c) /\ b \in Slots(i) /\ b[1] = c /\ b[2] = i
  BY CancelIs
<1>3. /\ BooksOf(doc, application) /\ application \in [Application -> Nat]
      /\ amount \in Nat /\ amount > 0 /\ \A a \in Slots(c) : application[a] = 0
      /\ doc[i].open + Slot(i) <= amount /\ Slot(i) \in Nat
  BY <1>1, <1>2, RowFacts, AmountFacts DEF BalanceInv
<1>4. \A a \in Slots(i) : application[a] = 0
  <2>1. Slot(i) = 0
    BY <1>1, <1>3
  <2>. QED  BY <1>3, <2>1, TotalIsNat, SlotsAre DEF Slot
<1>5. /\ doc' = [d \in Document |-> doc'[d]] /\ doc'[i] = Settled(amount) /\ doc'[c] = Settled(amount)
      /\ \A d \in Document : d \notin {i, c} => doc'[d] = doc[d]
  BY <1>1, <1>2 DEF BalanceInv
<1>6. /\ application' = [a \in Application |-> application'[a]]
      /\ \A a \in Application : application'[a] = IF a = <<c, i, 1>> THEN amount ELSE application[a]
  BY <1>1, <1>3
<1>7. BooksOf(doc', application')
  <2>. HIDE DEF amount
  <2>. QED  BY <1>3, <1>4, <1>5, <1>6, CancelBooks
<1>8. CancelOK(b)'
  <2>1. application'[<<c, i, 1>>] = amount
    BY <1>2, <1>6
  <2>2. \A a \in Slots(i) \cup Slots(c) : a # <<c, i, 1>> => application'[a] = 0
    BY <1>3, <1>4, <1>6, SlotsAre
  <2>. HIDE DEF amount
  <2>. QED  BY <1>5, <2>1, <2>2, CancelIsOK
<1>9. i \notin Final /\ c \notin Final
  BY <1>1, <1>2, <1>3, NotFinal DEF Exists
<1>10. Touches({c}, T)
  <2>1. doc'[i].original = doc[i].original
    BY <1>5 DEF Settled
  <2>2. \A d \in Document \ T : Same(d)
    BY <1>2, <1>5, <1>6, SlotsAre DEF Same, Slots
  <2>. QED  BY <1>1, <1>5, <1>7, <1>9, <2>1, <2>2 DEF Touches
<1>11. BalanceInv'
  <2>1. returned \subseteq Refund /\ reversed \subseteq Document /\ T \cap Refund = {}
    BY <1>2 DEF BalanceInv
  <2>2. \A a \in cancellation' \ cancellation : CancelOK(a)'
    BY <1>1, <1>8
  <2>. HIDE DEF T, b
  <2>. QED  BY <1>1, <1>10, <2>1, <2>2, TouchKeeps
<1>. QED  BY <1>10, <1>11, TouchExists DEF Done

-----------------------------------------------------------------------------
LEMMA RestoredOpen ==
  ASSUME NEW row \in Row, NEW amount \in Nat
  PROVE  Restored(row, amount) \in Row /\ Restored(row, amount).open = row.open + amount
<1>1. row.open \in Nat
  BY DEF Row
<1>2. CASE amount = 0
  BY <1>1, <1>2 DEF Restored
<1>3. CASE amount # 0
  <2>1. ASSUME NEW open \in Nat
        PROVE  Rebalance(row, open) \in Row /\ Rebalance(row, open).open = open
    BY DEF Rebalance, Row
  <2>. QED  BY <1>1, <1>3, <2>1 DEF Restored
<1>. QED  BY <1>2, <1>3

(* A correction first ends every application of the invoice. *)
Correctable(i) ==
  Exists(i) /\ \A a \in To(i) : a[1] \in Receipt \cup Credit /\ Detachable(a)

Freed(i, rows, amounts) ==
  /\ rows = [d \in Document |-> IF d = i THEN doc[i]
                                ELSE Restored(doc[d], Total(To(i) \cap From(d)))]
  /\ amounts = [a \in Application |-> IF a \in To(i) THEN 0 ELSE application[a]]

LEMMA ToInvoice ==
  ASSUME BalanceInv, NEW i \in Invoice, Correctable(i)
  PROVE  /\ i \in Document /\ i \notin Refund /\ i \notin Final
         /\ To(i) \subseteq Application /\ IsFiniteSet(To(i))
         /\ \A a \in Slots(i) : a[2] = i /\ (a \notin To(i) => application[a] = 0)
         /\ \A a \in To(i) : /\ a \in Slots(i) /\ a[2] = i /\ application[a] \in Nat /\ application[a] > 0
                             /\ a[1] \in Receipt \cup Credit /\ a[1] \in Document /\ Exists(a[1])
                             /\ a[1] \notin Refund /\ a[1] \notin Final /\ a[1] # i
<1>1. i \in Document /\ i \notin Refund /\ i \notin Receipt \cup Credit
  BY DocumentsAssumption DEF Document, Adjustment
<1>2. /\ To(i) \subseteq Application /\ application \in [Application -> Nat]
      /\ \A a \in To(i) : application[a] > 0 /\ a[2] = i /\ a \in Slots(i) /\ a \in Slots(a[1])
      /\ returned \subseteq Refund
  BY AmountFacts DEF BalanceInv, To, Active, Slots
<1>3. IsFiniteSet(To(i))
  BY <1>2, FiniteSets
<1>4. \A a \in Slots(i) : a[2] = i /\ (a \notin To(i) => application[a] = 0)
  <2>1. \A a \in Slots(i) : a \in Application /\ a[2] = i
    BY ApplicationIs, DocumentsAssumption DEF Slots, Adjustment
  <2>. QED  BY <1>2, <2>1 DEF To, Active
<1>5. \A a \in To(i) : a[1] \in Receipt \cup Credit /\ a \notin cancellation
  BY DEF Correctable, Detachable
<1>6. i \notin Final
  <2>1. ASSUME NEW a \in cancellation PROVE a[1] # i /\ a[2] # i
    <3>1. CancelOK(a) /\ application[a] > 0
      BY FinalFacts DEF BalanceInv
    <3>2. a[2] = i => a \in To(i)
      BY <3>1 DEF CancelOK, To, Active
    <3>. QED  BY <1>1, <1>5, <3>1, <3>2 DEF CancelOK
  <2>. QED  BY <1>1, <1>2, <2>1 DEF Final
<1>7. ASSUME NEW a \in To(i)
      PROVE  a[1] \in Document /\ Exists(a[1]) /\ a[1] \notin Refund /\ a[1] \notin Final /\ a[1] # i
  <2>1. a[1] \in Document /\ a[1] \notin Refund /\ a[1] # i
    BY <1>1, <1>5, DocumentsAssumption DEF Document, Adjustment
  <2>2. Exists(a[1])
    BY <1>2, <2>1, AmountFacts DEF BalanceInv
  <2>3. a[1] \notin Final
    BY <1>1, <1>2, <1>5, FinalFacts
  <2>. QED  BY <2>1, <2>2, <2>3
<1>. QED  BY <1>1, <1>2, <1>3, <1>4, <1>5, <1>6, <1>7

LEMMA FreedBooks ==
  ASSUME BalanceInv, NEW i \in Invoice, Correctable(i), NEW rows, NEW amounts,
         Freed(i, rows, amounts)
  PROVE  /\ \A a \in Slots(i) : amounts[a] = 0
         /\ \E before : BooksOf(before, amounts) /\ \A d \in Document : d # i => before[d] = rows[d]
<1> DEFINE P == To(i)
           back == [d \in Document |-> Restored(doc[d], Part(application, P, d))]
<1>1. /\ i \in Document /\ P \subseteq Application
      /\ \A a \in Slots(i) : a[2] = i /\ (a \notin P => application[a] = 0)
      /\ \A a \in P : a[2] = i /\ application[a] > 0
  BY ToInvoice
<1>2. BooksOf(doc, application) /\ application \in [Application -> Nat]
  BY AmountFacts DEF BalanceInv
<1>3. /\ amounts = [a \in Application |-> amounts[a]]
      /\ \A a \in Application : amounts[a] = IF a \in P THEN 0 ELSE application[a]
      /\ \A d \in Document : d # i => rows[d] = Restored(doc[d], Total(P \cap From(d)))
  BY DEF Freed
<1>. HIDE DEF P
<1>4. PlanOK(application, P)
  BY <1>1, <1>2 DEF PlanOK
<1>5. ReleasedAmounts(application, amounts, application, P)
  BY <1>1, <1>2, <1>3 DEF ReleasedAmounts
<1>6. ReleasedRows(doc, back, application, P)
  BY DEF ReleasedRows
<1>7. BooksOf(back, amounts)
  <2>. HIDE DEF back
  <2>. QED  BY <1>2, <1>4, <1>5, <1>6, Release
<1>8. ASSUME NEW d \in Document, d # i PROVE back[d] = rows[d]
  <2>1. P \cap Slots(d) = P \cap From(d)
    BY <1>1, <1>8 DEF Slots, From, To, P
  <2>. QED  BY <1>3, <1>8, <2>1 DEF Part, Total
<1>9. \A a \in Slots(i) : amounts[a] = 0
  BY <1>1, <1>3, SlotsAre
<1>. HIDE DEF back
<1>. QED  BY <1>7, <1>8, <1>9

(* Then payments are applied to the replacement, one by each source.       *)
Moved(Q, new) == {<<a[1], new, 1>> : a \in Q}

Moves(Q, plan, new, amount, rows, amounts) ==
  /\ rows[new].status = "none" /\ amount \in Nat /\ amount > 0
  /\ Q \subseteq Application
  /\ \A a \in Q : /\ a[1] \in Receipt \cup Credit
                  /\ plan[a] \in Nat /\ plan[a] <= rows[a[1]].open
  /\ \A a \in Q, b \in Q : a[1] = b[1] => a = b
  /\ SumFunctionOnSet(plan, Q) <= amount

MovedRows(Q, plan, new, amount, rows, then) ==
  /\ then[new] = Spent(NewDocument(amount), SumFunctionOnSet(plan, Q))
  /\ \A a \in Q : then[a[1]] = Spent(rows[a[1]], plan[a])
  /\ \A d \in Document : d # new /\ d \notin {a[1] : a \in Q} => then[d] = rows[d]

MovedAmounts(Q, plan, new, amounts, grown) ==
  /\ grown = [a \in Application |-> grown[a]]
  /\ \A a \in Q : grown[<<a[1], new, 1>>] = plan[a]
  /\ \A a \in Application \ Moved(Q, new) : grown[a] = amounts[a]

LEMMA MovedBooks ==
  ASSUME NEW rows, NEW amounts, BooksOf(rows, amounts), NEW new \in Invoice, NEW amount,
         NEW Q, NEW plan, Moves(Q, plan, new, amount, rows, amounts),
         NEW then, MovedRows(Q, plan, new, amount, rows, then),
         NEW grown, MovedAmounts(Q, plan, new, amounts, grown)
  PROVE  BooksOf(then, grown)
<1> DEFINE P == Moved(Q, new)
           name == [a \in Q |-> <<a[1], new, 1>>]
           mid == [d \in Document |-> IF d = new THEN NewDocument(amount) ELSE rows[d]]
<1>1. /\ rows[new].status = "none" /\ amount \in Nat /\ amount > 0 /\ Q \subseteq Application
      /\ \A a \in Q : /\ a[1] \in Receipt \cup Credit /\ a[1] \in Document /\ a[1] # new
                      /\ plan[a] \in Nat /\ plan[a] <= rows[a[1]].open
      /\ \A a \in Q, b \in Q : a[1] = b[1] => a = b
      /\ SumFunctionOnSet(plan, Q) <= amount
      /\ new \in Document /\ 1 \in 1..MaxApplications
  BY DocumentsAssumption, ReceivableAmountsAssumption DEF Moves, Document, Adjustment
<1>2. IsFiniteSet(Q)
  BY <1>1, FiniteSets
<1>3. /\ P = {name[a] : a \in Q}
      /\ \A a \in Q : name[a] \in P /\ name[a][1] = a[1] /\ name[a][2] = new /\ grown[name[a]] = plan[a]
      /\ \A x \in P : \E a \in Q : x = name[a]
  BY DEF Moved, MovedAmounts
<1>4. P \subseteq Application
  BY <1>1, ApplicationIs DEF Moved
<1>5. /\ SumFunctionOnSet(amounts, Slots(new)) = 0 /\ \A a \in Slots(new) : amounts[a] = 0
      /\ amounts \in [Application -> Nat]
      /\ \A d \in Document : rows[d] \in Row /\ rows[d].open \in Nat
  <2>1. \A d \in Document : rows[d] \in Row /\ rows[d].open \in Nat
    BY DEF BooksOf, Book, Row
  <2>. QED  BY <1>1, <2>1, NoneApplied DEF BooksOf
<1>6. mid[new] = NewDocument(amount) /\ \A d \in Document : d # new => mid[d] = rows[d]
  BY <1>1
<1>7. NewDocument(amount).open = amount
  BY DEF NewDocument
<1>. HIDE DEF P, name, mid
<1>8. BooksOf(mid, amounts)
  BY <1>1, <1>5, <1>6, PutNew
<1>9. PlanOK(grown, P)
  BY <1>1, <1>3, <1>4 DEF PlanOK
<1>10. SumFunctionOnSet(grown, P) = SumFunctionOnSet(plan, Q) /\ SumFunctionOnSet(plan, Q) \in Nat
  <2>1. /\ \A a \in Q : grown[name[a]] \in Int /\ plan[a] = grown[name[a]]
        /\ \A a \in Q, b \in Q : name[a] = name[b] => a = b
    BY <1>1, <1>3
  <2>2. SumFunctionOnSet(plan, Q) = SumFunctionOnSet(grown, {name[a] : a \in Q})
    BY <1>2, <2>1, SumRenamed
  <2>3. \A a \in Q : plan[a] \in Nat
    BY <1>1
  <2>4. SumFunctionOnSet(plan, Q) \in Nat
    BY <1>2, <2>3, SumType
  <2>. QED  BY <1>3, <2>2, <2>4
<1>11. Part(grown, P, new) = SumFunctionOnSet(plan, Q)
  <2>1. P \subseteq Slots(new)
    BY <1>3, <1>4 DEF Slots
  <2>. QED  BY <1>9, <1>10, <2>1, PartsOf
<1>12. ASSUME NEW a \in Q PROVE Part(grown, P, a[1]) = plan[a]
  <2>1. P \cap Slots(a[1]) = {name[a]}
    BY <1>1, <1>3, <1>4 DEF Slots
  <2>2. grown[name[a]] \in Int /\ grown[name[a]] = plan[a]
    BY <1>1, <1>3
  <2>3. SumFunctionOnSet(grown, {name[a]}) = grown[name[a]]
    BY <2>2, SumSingle
  <2>. QED  BY <2>1, <2>2, <2>3 DEF Part
<1>13. ASSUME NEW d \in Document, d # new, d \notin {a[1] : a \in Q} PROVE Part(grown, P, d) = 0
  <2>1. P \cap Slots(d) = {}
    BY <1>3, <1>13 DEF Slots
  <2>. QED  BY <1>9, <2>1, PartsOf
<1>14. SpentRows(mid, then, grown, P)
  <2>1. ASSUME NEW d \in Document
        PROVE  Part(grown, P, d) <= mid[d].open /\ then[d] = Spent(mid[d], Part(grown, P, d))
    <3>1. CASE d = new
      BY <1>1, <1>6, <1>7, <1>11, <3>1 DEF MovedRows
    <3>2. CASE d \in {a[1] : a \in Q}
      BY <1>1, <1>6, <1>12, <3>2 DEF MovedRows
    <3>3. CASE d # new /\ d \notin {a[1] : a \in Q}
      <4>1. then[d] = rows[d] /\ mid[d] = rows[d]
        BY <1>6, <3>3 DEF MovedRows
      <4>. QED  BY <1>5, <1>13, <3>3, <4>1 DEF Spent
    <3>. QED  BY <3>1, <3>2, <3>3
  <2>. QED  BY <2>1 DEF SpentRows
<1>15. SpentAmounts(amounts, grown, grown, P)
  <2>1. \A x \in P : amounts[x] + grown[x] = grown[x]
    <3>1. \A x \in P : amounts[x] = 0
      BY <1>3, <1>4, <1>5 DEF Slots
    <3>. QED  BY <1>1, <1>3, <3>1
  <2>. QED  BY <2>1 DEF SpentAmounts, MovedAmounts, P
<1>. QED  BY <1>8, <1>9, <1>14, <1>15, Spend

-----------------------------------------------------------------------------
LEMMA AtMostOne ==
  ASSUME NEW S, IsFiniteSet(S), Cardinality(S) <= 1, NEW x \in S, NEW y \in S
  PROVE  x = y
<1>1. SUFFICES ASSUME x # y PROVE FALSE
  OBVIOUS
<1>2. IsFiniteSet({x}) /\ Cardinality({x}) = 1
  BY FS_Singleton
<1>3. Cardinality({x} \cup {y}) = 2
  BY <1>1, <1>2, FS_AddElement
<1>4. {x} \cup {y} \subseteq S
  OBVIOUS
<1>5. Cardinality({x} \cup {y}) <= Cardinality(S) /\ Cardinality(S) \in Nat
  BY <1>4, FS_Subset, FS_CardinalityType
<1>. QED  BY <1>3, <1>5

(* The sums a plan of reapplications comes to. *)
LEMMA ReapplicationSums ==
  ASSUME BalanceInv, NEW i \in Invoice, Correctable(i), NEW amount, NEW plan \in Reapplications(i, amount),
         \A s \in Receipt \cup Credit : Cardinality(Paying(plan, s)) <= 1,
         NEW Q, Q = {a \in To(i) : plan[a] > 0}
  PROVE  /\ \A a \in To(i) : plan[a] \in Nat /\ plan[a] <= application[a]
         /\ Q \subseteq To(i) /\ \A a \in Q, e \in Q : a[1] = e[1] => a = e
         /\ SumFunctionOnSet(plan, Q) = SumFunction(plan)
         /\ SumFunction(plan) \in Nat /\ SumFunction(plan) <= amount
         /\ SumFunction(plan) = 0 => Q = {}
         /\ \A a \in Q : /\ SumFunctionOnSet(plan, To(i) \cap From(a[1])) = plan[a]
                         /\ SumFunctionOnSet(plan, Paying(plan, a[1])) = plan[a]
         /\ \A d : d \notin {a[1] : a \in Q} =>
              /\ SumFunctionOnSet(plan, To(i) \cap From(d)) = 0
              /\ SumFunctionOnSet(plan, Paying(plan, d)) = 0
<1> DEFINE P == To(i)
<1>1. /\ plan \in [P -> 0..MaxAmount] /\ DOMAIN plan = P
      /\ \A a \in P : plan[a] \in Nat /\ plan[a] <= application[a]
      /\ SumFunction(plan) <= amount /\ SumFunction(plan) = SumFunctionOnSet(plan, P)
  <2>1. plan \in [P -> 0..MaxAmount] /\ (\A a \in P : plan[a] <= application[a])
        /\ SumFunction(plan) <= amount
    BY DEF Reapplications
  <2>. QED  BY <2>1 DEF SumFunction
<1>2. /\ P \subseteq Application /\ IsFiniteSet(P) /\ \A a \in P : a[1] \in Receipt \cup Credit
      /\ \A d : P \cap From(d) = {a \in P : a[1] = d}
  <2>1. \A d : P \cap From(d) = {a \in P : a[1] = d}
    BY DEF To, From
  <2>. QED  BY <2>1, ToInvoice
<1>. HIDE DEF P
<1>3. Q = {a \in P : plan[a] > 0}
  BY DEF P
<1>4. \A d : Paying(plan, d) = {a \in Q : a[1] = d}
  BY <1>1, <1>3 DEF Paying
<1>5. Q \subseteq P /\ Q \in SUBSET P /\ IsFiniteSet(Q)
  BY <1>2, <1>3, FS_Subset
<1>6. ASSUME NEW a \in Q, NEW e \in Q, a[1] = e[1] PROVE a = e
  <2> DEFINE S == Paying(plan, a[1])
  <2>1. a \in S /\ e \in S /\ S \subseteq Q /\ a[1] \in Receipt \cup Credit
    BY <1>2, <1>4, <1>5, <1>6
  <2>2. IsFiniteSet(S) /\ Cardinality(S) <= 1
    BY <1>5, <2>1, FS_Subset
  <2>. HIDE DEF S
  <2>. QED  BY <2>1, <2>2, AtMostOne
<1>7. SumFunctionOnSet(plan, Q) = SumFunctionOnSet(plan, P)
  <2>1. \A a \in P \ Q : plan[a] = 0
    BY <1>1, <1>3
  <2>. QED  BY <1>1, <1>2, <1>5, <2>1, SumWithout
<1>8. /\ SumFunction(plan) \in Nat
      /\ SumFunction(plan) = 0 => Q = {}
  <2>1. SumFunctionOnSet(plan, P) \in Nat
    BY <1>1, <1>2, SumType
  <2>2. SumFunctionOnSet(plan, P) = 0 <=> \A a \in P : plan[a] = 0
    BY <1>1, <1>2, SumZero
  <2>. QED  BY <1>1, <1>3, <2>1, <2>2
<1>9. ASSUME NEW a \in Q
      PROVE  /\ SumFunctionOnSet(plan, P \cap From(a[1])) = plan[a]
             /\ SumFunctionOnSet(plan, Paying(plan, a[1])) = plan[a]
  <2> DEFINE S == P \cap From(a[1])
             one == {a}
  <2>1. S \subseteq P /\ a \in S /\ Paying(plan, a[1]) = {a}
    BY <1>2, <1>4, <1>5, <1>6
  <2>2. \A e \in S \ {a} : plan[e] = 0
    BY <1>1, <1>2, <1>3, <1>6
  <2>3. IsFiniteSet(S) /\ one \in SUBSET S /\ (\A e \in S : plan[e] \in Nat) /\ \A e \in S \ one : plan[e] = 0
    BY <1>1, <1>2, <2>1, <2>2, FS_Subset
  <2>4. plan[a] \in Int
    BY <1>1, <1>5
  <2>. HIDE DEF S, one
  <2>5. SumFunctionOnSet(plan, S) = SumFunctionOnSet(plan, one)
    BY <2>3, SumWithout
  <2>6. SumFunctionOnSet(plan, {a}) = plan[a]
    BY <2>4, SumSingle
  <2>. QED  BY <2>1, <2>5, <2>6 DEF S, one
<1>10. ASSUME NEW d, d \notin {a[1] : a \in Q}
       PROVE  /\ SumFunctionOnSet(plan, P \cap From(d)) = 0
              /\ SumFunctionOnSet(plan, Paying(plan, d)) = 0
  <2> DEFINE S == P \cap From(d)
  <2>1. S \subseteq P /\ (\A e \in S : plan[e] = 0) /\ Paying(plan, d) = {}
    BY <1>1, <1>2, <1>3, <1>4, <1>10
  <2>2. IsFiniteSet(S) /\ \A e \in S : plan[e] \in Nat
    BY <1>1, <1>2, <2>1, FS_Subset
  <2>. HIDE DEF S
  <2>3. SumFunctionOnSet(plan, S) = 0
    BY <2>1, <2>2, SumZero
  <2>. QED  BY <2>1, <2>3, SumEmpty DEF S
<1>. QED  BY <1>1, <1>5, <1>6, <1>7, <1>8, <1>9, <1>10 DEF P

LEMMA CorrectInvoiceDone ==
  ASSUME BalanceInv, NEW i \in Invoice, NEW c \in Credit, NEW new \in Invoice,
         NEW amount \in DocumentAmount, CorrectInvoice(i, c, new, amount)
  PROVE  Done({c} \cup ({new} \ {i}))
<1> DEFINE b == <<c, i, 1>>
           orig == doc[i].original
           P == To(i)
<1>1. /\ Exists(i) /\ ~Exists(c) /\ (new = i \/ ~Exists(new)) /\ Correctable(i)
      /\ cancellation' = cancellation \cup {b} /\ UNCHANGED <<returned, reversed>>
  BY DEF CorrectInvoice, Correctable
<1>2. PICK plan \in Reapplications(i, amount) :
       /\ new = i => SumFunction(plan) = 0
       /\ \A s \in Receipt \cup Credit : Cardinality(Paying(plan, s)) <= 1
       /\ application' = [a \in Application |->
            CASE a = b -> orig
              [] a \in P -> 0
              [] a[2] = new /\ a[3] = 1 /\ new # i ->
                   SumFunctionOnSet(plan, Paying(plan, a[1]))
              [] OTHER -> application[a]]
       /\ doc' = [d \in Document |->
            CASE d = i -> Settled(orig)
              [] d = c -> Settled(orig)
              [] d = new /\ new # i -> Spent(NewDocument(amount), SumFunction(plan))
              [] OTHER -> Spent(Restored(doc[d], Total(P \cap From(d))),
                                SumFunctionOnSet(plan, P \cap From(d)))]
  BY DEF CorrectInvoice
<1> DEFINE Q == {a \in P : plan[a] > 0}
           rows == [d \in Document |-> IF d = i THEN doc[i] ELSE Restored(doc[d], Total(P \cap From(d)))]
           amounts == [a \in Application |-> IF a \in P THEN 0 ELSE application[a]]
           settled == [d \in Document |-> IF d \in {i, c} THEN Settled(orig) ELSE rows[d]]
           applied == [a \in Application |-> IF a = b THEN orig ELSE amounts[a]]
           T == {i, c, new} \cup {a[1] : a \in P}
           X == {c} \cup ({new} \ {i})
<1>3. /\ i \in Document /\ c \in Document /\ i # c /\ i \notin Refund /\ c \notin Refund
      /\ i \notin Credit /\ i \notin Receipt /\ new \notin Receipt \cup Credit
      /\ b \in Application /\ b \in Slots(c) /\ b \in Slots(i) /\ b[1] = c /\ b[2] = i
      /\ new \in Document /\ new # c /\ new \notin Refund
  BY CancelIs, DocumentsAssumption DEF Document, Adjustment
<1>4. /\ i \notin Final /\ P \subseteq Application /\ IsFiniteSet(P)
      /\ \A a \in Slots(i) : a[2] = i /\ (a \notin P => application[a] = 0)
      /\ \A a \in P : /\ a \in Slots(i) /\ a[2] = i /\ application[a] \in Nat /\ application[a] > 0
                      /\ a[1] \in Receipt \cup Credit /\ a[1] \in Document /\ Exists(a[1])
                      /\ a[1] \notin Refund /\ a[1] \notin Final /\ a[1] # i
  BY <1>1, ToInvoice
<1>5. /\ BooksOf(doc, application) /\ application \in [Application -> Nat]
      /\ \A d \in Document : doc[d] \in Row /\ doc[d].open \in Nat /\ doc[d].original \in Nat
      /\ orig \in Nat /\ orig > 0 /\ amount \in Nat /\ amount > 0
      /\ \A d \in Document : ~Exists(d) => \A a \in Slots(d) : application[a] = 0
  BY <1>1, <1>3, RowFacts, AmountFacts, ReceivableAmountsAssumption DEF BalanceInv
<1>6. /\ \A a \in P : plan[a] \in Nat /\ plan[a] <= application[a]
      /\ Q \subseteq P /\ \A a \in Q, e \in Q : a[1] = e[1] => a = e
      /\ SumFunctionOnSet(plan, Q) = SumFunction(plan)
      /\ SumFunction(plan) \in Nat /\ SumFunction(plan) <= amount
      /\ SumFunction(plan) = 0 => Q = {}
      /\ \A a \in Q : /\ SumFunctionOnSet(plan, P \cap From(a[1])) = plan[a]
                      /\ SumFunctionOnSet(plan, Paying(plan, a[1])) = plan[a]
      /\ \A d : d \notin {a[1] : a \in Q} =>
           /\ SumFunctionOnSet(plan, P \cap From(d)) = 0
           /\ SumFunctionOnSet(plan, Paying(plan, d)) = 0
  <2>. HIDE DEF Q
  <2>1. Q = {a \in To(i) : plan[a] > 0}
    BY DEF Q
  <2>2. /\ plan \in Reapplications(i, amount) /\ Correctable(i)
        /\ \A s \in Receipt \cup Credit : Cardinality(Paying(plan, s)) <= 1
    BY <1>1, <1>2
  <2>. QED  BY <2>1, <2>2, ReapplicationSums
<1>7. Freed(i, rows, amounts)
  BY DEF Freed
<1>8. /\ settled[i] = Settled(orig) /\ settled[c] = Settled(orig)
      /\ \A d \in Document : d \notin {i, c} =>
           settled[d] = rows[d] /\ rows[d] = Restored(doc[d], Total(P \cap From(d)))
      /\ applied = [a \in Application |-> applied[a]]
      /\ \A a \in Application : applied[a] = IF a = b THEN orig ELSE amounts[a]
      /\ \A a \in Application : amounts[a] = IF a \in P THEN 0 ELSE application[a]
  BY <1>3
<1>9. b \notin P
  BY <1>1, <1>3, <1>4
<1>10. \A d \in Document : d \notin {i, c} =>
         doc'[d] = IF d = new THEN Spent(NewDocument(amount), SumFunction(plan))
                   ELSE Spent(rows[d], SumFunctionOnSet(plan, P \cap From(d)))
  <2>. HIDE DEF rows
  <2>1. ASSUME NEW d \in Document, d \notin {i, c}
        PROVE  doc'[d] = IF d = new THEN Spent(NewDocument(amount), SumFunction(plan))
                         ELSE Spent(rows[d], SumFunctionOnSet(plan, P \cap From(d)))
    <3>1. CASE d = new
      BY <1>2, <2>1, <3>1
    <3>2. CASE d # new
      BY <1>2, <1>8, <2>1, <3>2
    <3>. QED  BY <3>1, <3>2
  <2>. QED  BY <2>1
<1>11. doc' = [d \in Document |-> doc'[d]] /\ doc'[i] = Settled(orig) /\ doc'[c] = Settled(orig)
  BY <1>2, <1>3
<1>12. /\ application' = [a \in Application |-> application'[a]]
       /\ application'[b] = orig
       /\ \A a \in P : application'[a] = 0
       /\ \A a \in Application :
            a # b /\ a \notin P =>
              application'[a] = IF a[2] = new /\ a[3] = 1 /\ new # i
                                THEN SumFunctionOnSet(plan, Paying(plan, a[1])) ELSE application[a]
  <2>. HIDE DEF b, P, orig
  <2>1. application' = [a \in Application |-> application'[a]]
    BY <1>2
  <2>2. application'[b] = orig
    BY <1>2, <1>3, <1>9
  <2>3. ASSUME NEW a \in P PROVE application'[a] = 0
    BY <1>2, <1>4, <1>9, <2>3
  <2>4. ASSUME NEW a \in Application, a # b, a \notin P
        PROVE  application'[a] = IF a[2] = new /\ a[3] = 1 /\ new # i
                                 THEN SumFunctionOnSet(plan, Paying(plan, a[1])) ELSE application[a]
    <3>1. CASE a[2] = new /\ a[3] = 1 /\ new # i
      BY <1>2, <2>4, <3>1
    <3>2. CASE ~(a[2] = new /\ a[3] = 1 /\ new # i)
      BY <1>2, <2>4, <3>2
    <3>. QED  BY <3>1, <3>2
  <2>. QED  BY <2>1, <2>2, <2>3, <2>4
<1>. HIDE DEF b, orig, P, Q, rows, amounts, settled, applied, T, X
<1>13. BooksOf(settled, applied)
  <2>1. PICK before : BooksOf(before, amounts) /\ \A d \in Document : d # i => before[d] = rows[d]
    BY <1>1, <1>7, FreedBooks
  <2>2. \A a \in Slots(i) : amounts[a] = 0
    BY <1>1, <1>7, FreedBooks
  <2>3. \A a \in Slots(c) : amounts[a] = 0
    BY <1>1, <1>3, <1>5, <1>8, SlotsAre
  <2>4. \A d \in Document : d \notin {i, c} => settled[d] = before[d]
    BY <1>8, <2>1
  <2>5. \A a \in Slots(i) \cup Slots(c) : amounts[a] = 0
    BY <2>2, <2>3
  <2>6. \A a \in Application : applied[a] = IF a = <<c, i, 1>> THEN orig ELSE amounts[a]
    BY <1>8 DEF b
  <2>7. BooksOf(before, amounts)
    BY <2>1
  <2>8. orig \in Nat /\ orig > 0 /\ settled[i] = Settled(orig) /\ settled[c] = Settled(orig)
        /\ applied = [a \in Application |-> applied[a]]
    BY <1>5, <1>8
  <2>. QED  BY <2>4, <2>5, <2>6, <2>7, <2>8, CancelBooks
<1>14. ASSUME NEW d \in Document, d \notin {i, c}
       PROVE  /\ Total(P \cap From(d)) \in Nat /\ rows[d] \in Row
              /\ rows[d].open = doc[d].open + Total(P \cap From(d))
              /\ rows[d].original = doc[d].original
  <2>1. P \cap From(d) \subseteq Application
    BY <1>4
  <2>2. Total(P \cap From(d)) \in Nat
    BY <1>5, <2>1, TotalIsNat DEF Total
  <2> DEFINE t == Total(P \cap From(d))
  <2>. HIDE DEF t
  <2>3. doc[d] \in Row /\ t \in Nat /\ rows[d] = Restored(doc[d], t)
    BY <1>5, <1>8, <1>14, <2>2 DEF t
  <2>4. Restored(doc[d], t) \in Row /\ Restored(doc[d], t).open = doc[d].open + t
    BY <2>3, RestoredOpen
  <2>5. Restored(doc[d], t).original = doc[d].original
    BY <2>3, OriginalsStay
  <2>. QED  BY <2>3, <2>4, <2>5 DEF t
<1>15. ASSUME NEW a \in Q PROVE plan[a] <= rows[a[1]].open
  <2> DEFINE d == a[1]
             S == P \cap From(d)
  <2>1. /\ a \in P /\ d \in Document /\ d # i /\ d # c /\ a \in S
        /\ plan[a] \in Nat /\ plan[a] <= application[a] /\ application[a] \in Nat
    BY <1>1, <1>4, <1>6 DEF From, To, P
  <2>2. IsFiniteSet(S) /\ \A e \in S : application[e] \in Nat
    BY <1>4, FS_Subset
  <2>3. application[a] <= SumFunctionOnSet(application, S)
    <3>. HIDE DEF S
    <3>. QED  BY <2>1, <2>2, SumBoundsMember
  <2>4. /\ Total(S) \in Nat /\ rows[d].open = doc[d].open + Total(S) /\ doc[d].open \in Nat
        /\ application[a] <= Total(S)
    BY <1>5, <1>14, <2>1, <2>3 DEF Total
  <2>. HIDE DEF d, S
  <2>5. plan[a] <= rows[d].open
    BY <2>1, <2>4
  <2>. QED  BY <2>5 DEF d
<1>16. BooksOf(doc', application')
  <2>1. CASE new = i
    <3>1. Q = {} /\ \A d : SumFunctionOnSet(plan, P \cap From(d)) = 0
      BY <1>2, <1>6, <2>1
    <3>2. ASSUME NEW d \in Document, d \notin {i, c} PROVE doc'[d] = settled[d]
      <4>1. doc'[d] = Spent(rows[d], SumFunctionOnSet(plan, P \cap From(d))) /\ settled[d] = rows[d]
        BY <1>8, <1>10, <2>1, <3>2
      <4>2. SumFunctionOnSet(plan, P \cap From(d)) = 0
        BY <3>1
      <4>. QED  BY <4>1, <4>2 DEF Spent
    <3>3. \A d \in Document : doc'[d] = settled[d]
      BY <1>3, <1>8, <1>11, <3>2
    <3>4. \A a \in Application : application'[a] = applied[a]
      BY <1>8, <1>9, <1>12, <2>1
    <3>5. application' = applied
      BY <1>8, <1>12, <3>4
    <3>. QED  BY <1>13, <3>3, <3>5 DEF BooksOf
  <2>2. CASE new # i
    <3>1. Moves(Q, plan, new, amount, settled, applied)
      <4>1. settled[new].status = "none"
        <5>1. ~Exists(new)
          BY <1>1, <2>2
        <5>2. P \cap From(new) = {}
          BY <1>3, <1>4 DEF From
        <5>3. rows[new] = doc[new]
          BY <1>3, <1>8, <2>2, <5>2, SumEmpty DEF Total, Restored
        <5>. QED  BY <1>3, <1>8, <2>2, <5>1, <5>3 DEF Exists
      <4>2. ASSUME NEW a \in Q PROVE settled[a[1]] = rows[a[1]]
        <5>1. a[1] \in Document /\ a[1] \notin {i, c}
          BY <1>1, <1>4, <1>6
        <5>. QED  BY <1>8, <5>1
      <4>3. ASSUME NEW a \in Q
            PROVE  /\ a \in Application /\ a[1] \in Receipt \cup Credit
                   /\ plan[a] \in Nat /\ plan[a] <= settled[a[1]].open
        <5>1. a \in P /\ plan[a] \in Nat
          BY <1>6
        <5>2. a \in Application /\ a[1] \in Receipt \cup Credit
          BY <1>4, <5>1
        <5>. QED  BY <1>15, <4>2, <5>1, <5>2
      <4>4. /\ \A a \in Q, e \in Q : a[1] = e[1] => a = e
            /\ SumFunctionOnSet(plan, Q) <= amount /\ amount \in Nat /\ amount > 0
        BY <1>5, <1>6
      <4>. QED  BY <4>1, <4>3, <4>4 DEF Moves
    <3>2. MovedRows(Q, plan, new, amount, settled, doc')
      <4>1. doc'[new] = Spent(NewDocument(amount), SumFunctionOnSet(plan, Q))
        BY <1>3, <1>6, <1>10, <2>2
      <4>2. ASSUME NEW a \in Q PROVE doc'[a[1]] = Spent(settled[a[1]], plan[a])
        <5>1. a[1] \in Document /\ a[1] \notin {i, c} /\ a[1] # new
          BY <1>1, <1>3, <1>4, <1>6
        <5>2. SumFunctionOnSet(plan, P \cap From(a[1])) = plan[a]
          BY <1>6
        <5>3. settled[a[1]] = rows[a[1]]
          BY <1>8, <5>1
        <5>4. doc'[a[1]] = Spent(rows[a[1]], SumFunctionOnSet(plan, P \cap From(a[1])))
          BY <1>10, <5>1
        <5>. QED  BY <5>2, <5>3, <5>4
      <4>3. ASSUME NEW d \in Document, d # new, d \notin {a[1] : a \in Q}
            PROVE  doc'[d] = settled[d]
        <5>1. CASE d \in {i, c}
          BY <1>8, <1>11, <5>1
        <5>2. CASE d \notin {i, c}
          BY <1>6, <1>8, <1>10, <4>3, <5>2 DEF Spent
        <5>. QED  BY <5>1, <5>2
      <4>. QED  BY <4>1, <4>2, <4>3 DEF MovedRows
    <3>3. MovedAmounts(Q, plan, new, applied, application')
      <4>1. ASSUME NEW a \in Q PROVE application'[<<a[1], new, 1>>] = plan[a]
        <5> DEFINE x == <<a[1], new, 1>>
        <5>1. x \in Application /\ x[1] = a[1] /\ x[2] = new /\ x[3] = 1
          BY <1>4, <1>6, ApplicationIs, ReceivableAmountsAssumption
        <5>2. x # b /\ x \notin P
          BY <1>3, <1>4, <2>2, <5>1
        <5>. HIDE DEF x
        <5>3. application'[x] = SumFunctionOnSet(plan, Paying(plan, a[1]))
          BY <1>12, <2>2, <5>1, <5>2
        <5>. QED  BY <1>6, <5>3 DEF x
      <4>2. ASSUME NEW a \in Application \ Moved(Q, new) PROVE application'[a] = applied[a]
        <5>1. CASE a = b
          BY <1>8, <1>12, <5>1
        <5>2. CASE a \in P
          BY <1>8, <1>9, <1>12, <5>2
        <5>3. CASE a # b /\ a \notin P
          <6>1. applied[a] = application[a]
            BY <1>8, <5>3
          <6>2. CASE a[2] = new /\ a[3] = 1
            <7>1. a[1] \notin {e[1] : e \in Q}
              <8>1. a = <<a[1], new, 1>>
                BY <6>2, ApplicationIs
              <8>. QED  BY <4>2, <8>1 DEF Moved
            <7>2. application'[a] = 0
              BY <1>6, <1>12, <2>2, <5>3, <6>2, <7>1
            <7>3. application[a] = 0
              BY <1>1, <1>3, <1>5, <2>2, <6>2 DEF Slots
            <7>. QED  BY <6>1, <7>2, <7>3
          <6>3. CASE ~(a[2] = new /\ a[3] = 1)
            BY <1>12, <5>3, <6>1, <6>3
          <6>. QED  BY <6>2, <6>3
        <5>. QED  BY <5>1, <5>2, <5>3
      <4>. QED  BY <1>12, <4>1, <4>2 DEF MovedAmounts
    <3>. QED  BY <1>13, <3>1, <3>2, <3>3, MovedBooks
  <2>. QED  BY <2>1, <2>2
<1>17. CancelOK(b)'
  <2>1. \A a \in Slots(i) : a # b => application'[a] = 0
    <3>1. ASSUME NEW a \in Slots(i), a # b PROVE application'[a] = 0
      <4>1. a \in Application /\ a[2] = i /\ (a \notin P => application[a] = 0)
        BY <1>4, <3>1, SlotsAre
      <4>. QED  BY <1>12, <3>1, <4>1
    <3>. QED  BY <3>1
  <2>2. \A a \in Slots(c) : a # b => application'[a] = 0
    <3>1. ASSUME NEW a \in Slots(c), a # b PROVE application'[a] = 0
      <4>1. a \in Application /\ a \notin P /\ application[a] = 0 /\ a[1] = c
        <5>1. a[2] # c
          BY <1>3, ApplicationIs, DocumentsAssumption DEF Slots, Adjustment
        <5>. QED  BY <1>1, <1>3, <1>4, <1>5, <5>1 DEF Slots
      <4>2. c \notin {e[1] : e \in Q}
        BY <1>1, <1>4, <1>6
      <4>. QED  BY <1>6, <1>12, <3>1, <4>1, <4>2
    <3>. QED  BY <3>1
  <2>3. /\ application'[<<c, i, 1>>] = orig
        /\ \A a \in Slots(i) \cup Slots(c) : a # <<c, i, 1>> => application'[a] = 0
    BY <1>12, <2>1, <2>2 DEF b
  <2>4. CancelOK(<<c, i, 1>>)'
    BY <1>11, <2>3, CancelIsOK
  <2>. QED  BY <2>4 DEF b
<1>18. c \notin Final /\ (new # i => new \notin Final)
  BY <1>1, <1>3, NotFinal DEF Exists
<1>19. ASSUME NEW d \in Document
       PROVE  /\ d \notin X => doc'[d].original = doc[d].original
              /\ d \notin T => Same(d)
  <2>1. CASE d = i
    BY <1>11, <2>1 DEF Settled, T, orig
  <2>2. CASE d = c
    BY <2>2 DEF T, X
  <2>3. CASE d = new /\ new # i
    BY <2>3 DEF T, X
  <2>4. CASE d # i /\ d # c /\ d # new
    <3>1. doc'[d] = Spent(rows[d], SumFunctionOnSet(plan, P \cap From(d)))
      BY <1>10, <2>4
    <3>2. doc'[d].original = doc[d].original
      <4>1. rows[d] \in Row /\ rows[d].original = doc[d].original
        BY <1>14, <2>4
      <4>. QED  BY <3>1, <4>1, OriginalsStay
    <3>3. d \notin T => Same(d)
      <4>1. ASSUME d \notin T PROVE P \cap From(d) = {} /\ d \notin {a[1] : a \in Q}
        BY <1>6, <4>1 DEF T, From
      <4>2. ASSUME d \notin T PROVE doc'[d] = doc[d]
        <5>1. rows[d] = doc[d]
          BY <1>8, <2>4, <4>1, <4>2, SumEmpty DEF Restored, Total
        <5>. QED  BY <1>6, <3>1, <4>1, <4>2, <5>1 DEF Spent
      <4>3. ASSUME d \notin T, NEW a \in Slots(d) PROVE application'[a] = application[a]
        <5>1. a \in Application /\ (a[1] = d \/ a[2] = d)
          BY DEF Slots
        <5>2. a # b /\ a \notin P
          BY <1>3, <1>4, <2>4, <4>3, <5>1 DEF T
        <5>3. CASE a[2] = new /\ a[3] = 1 /\ new # i
          <6>1. a[1] = d
            BY <2>4, <5>1, <5>3
          <6>2. application'[a] = 0
            BY <1>6, <1>12, <4>1, <4>3, <5>1, <5>2, <5>3, <6>1
          <6>3. application[a] = 0
            BY <1>1, <1>3, <1>5, <5>1, <5>3 DEF Slots
          <6>. QED  BY <6>2, <6>3
        <5>4. CASE ~(a[2] = new /\ a[3] = 1 /\ new # i)
          BY <1>12, <5>1, <5>2, <5>4
        <5>. QED  BY <5>3, <5>4
      <4>. QED  BY <4>2, <4>3 DEF Same
    <3>. QED  BY <3>2, <3>3
  <2>. QED  BY <2>1, <2>2, <2>3, <2>4
<1>20. T \cap Final = {} /\ T \cap Refund = {}
  BY <1>3, <1>4, <1>18 DEF T
<1>21. Touches(X, T)
  <2>1. X \subseteq T /\ \A d \in X : ~Exists(d)
    BY <1>1 DEF X, T
  <2>. QED  BY <1>11, <1>16, <1>19, <1>20, <2>1 DEF Touches
<1>22. BalanceInv'
  <2>1. returned \subseteq Refund /\ reversed \subseteq Document
    BY DEF BalanceInv
  <2>2. \A a \in cancellation' \ cancellation : CancelOK(a)'
    BY <1>1, <1>17
  <2>3. /\ reversed' \subseteq Document /\ cancellation \subseteq cancellation'
        /\ returned' \subseteq Refund /\ returned \subseteq returned' /\ returned' \ returned \subseteq T
        /\ \A f \in Refund \cap T : RefundOK(f)'
    BY <1>1, <1>20, <2>1
  <2>. QED  BY <1>21, <2>2, <2>3, TouchKeeps
<1>23. Done(X)
  BY <1>21, <1>22, TouchExists DEF Done
<1>. QED  BY <1>23 DEF X

-----------------------------------------------------------------------------
(* A step that records documents, at most one receipt and that under a key *)
(* that is free.                                                           *)
Recorded ==
  \E X :
    /\ Done(X)
    /\ X \cap Receipt = {} \/ \E r \in Receipt : X = {r} /\ ReceiptKeyFree(r)
    /\ UNCHANGED <<retired, bankVars>>

LEMMA NewIsRecorded ==
  ASSUME NEW X, Done(X), X \cap Receipt = {}, UNCHANGED <<retired, bankVars>>
  PROVE  Recorded
BY DEF Recorded

LEMMA ReceiptIsRecorded ==
  ASSUME NEW r \in Receipt, Done({r}), ReceiptKeyFree(r), UNCHANGED <<retired, bankVars>>
  PROVE  Recorded
BY DEF Recorded

LEMMA InvoicesRecorded ==
  ASSUME BalanceInv, InvoiceCommand
  PROVE  Recorded
<1>1. PICK i \in Invoice :
        \/ \E amount \in DocumentAmount : CreateOpen(i, amount)
        \/ \E c \in Credit : VoidInvoice(i, c)
        \/ \E c \in Credit, new \in Invoice, amount \in DocumentAmount :
             CorrectInvoice(i, c, new, amount)
  BY DEF InvoiceCommand
<1>2. (\A d \in Invoice : d \notin Receipt) /\ \A c \in Credit : c \notin Receipt
  BY DocumentsAssumption DEF Adjustment
<1>3. ASSUME NEW amount \in DocumentAmount, CreateOpen(i, amount) PROVE Recorded
  <2>1. Done({i}) /\ UNCHANGED <<retired, bankVars>>
    BY <1>3, CreateOpenDone DEF CreateOpen
  <2>2. {i} \cap Receipt = {}
    BY <1>2
  <2>. QED  BY <2>1, <2>2, NewIsRecorded
<1>4. ASSUME NEW c \in Credit, VoidInvoice(i, c) PROVE Recorded
  <2>1. Done({c}) /\ UNCHANGED <<retired, bankVars>>
    BY <1>4, VoidInvoiceDone DEF VoidInvoice
  <2>2. {c} \cap Receipt = {}
    BY <1>2
  <2>. QED  BY <2>1, <2>2, NewIsRecorded
<1>5. ASSUME NEW c \in Credit, NEW new \in Invoice, NEW amount \in DocumentAmount,
             CorrectInvoice(i, c, new, amount)
      PROVE  Recorded
  <2> DEFINE X == {c} \cup ({new} \ {i})
  <2>1. Done(X) /\ UNCHANGED <<retired, bankVars>>
    BY <1>5, CorrectInvoiceDone DEF CorrectInvoice
  <2>2. X \cap Receipt = {}
    BY <1>2
  <2>. HIDE DEF X
  <2>. QED  BY <2>1, <2>2, NewIsRecorded
<1>. QED  BY <1>1, <1>3, <1>4, <1>5

LEMMA AdjustmentsRecorded ==
  ASSUME BalanceInv, AdjustmentCommand
  PROVE  Recorded
<1>1. \A d \in Adjustment : {d} \cap Receipt = {}
  BY DocumentsAssumption
<1>2. ASSUME NEW d \in Adjustment, Done({d}), UNCHANGED <<retired, bankVars>> PROVE Recorded
  BY <1>1, <1>2, NewIsRecorded
<1>3. ASSUME Done({}), UNCHANGED <<retired, bankVars>> PROVE Recorded
  <2> DEFINE X == {}
  <2>1. Done(X) /\ X \cap Receipt = {}
    BY <1>3
  <2>. HIDE DEF X
  <2>. QED  BY <1>3, <2>1, NewIsRecorded
<1>4. ASSUME NEW d \in Adjustment, NEW amount \in DocumentAmount,
             IF d \in Credit THEN CreateOpen(d, amount) ELSE CreateSettled(d, amount)
      PROVE  Recorded
  <2>1. CASE d \in Credit
    BY <1>2, <1>4, <2>1, CreateOpenDone DEF CreateOpen
  <2>2. CASE d \notin Credit
    <3>1. d \in WriteOff \cup Refund /\ CreateSettled(d, amount)
      BY <1>4, <2>2 DEF Adjustment
    <3>2. Done({d}) /\ UNCHANGED <<retired, bankVars>>
      BY <3>1, CreateSettledDone DEF CreateSettled
    <3>. QED  BY <1>2, <3>2
  <2>. QED  BY <2>1, <2>2
<1>5. ASSUME NEW d \in Adjustment, VoidAdjustment(d) PROVE Recorded
  BY <1>3, <1>5, VoidAdjustmentDone DEF VoidAdjustment
<1>6. ASSUME NEW d \in Adjustment, NEW new \in Adjustment, NEW amount \in DocumentAmount,
             ReplaceAdjustment(d, new, amount)
      PROVE  Recorded
  <2>1. Done({new}) /\ UNCHANGED <<retired, bankVars>>
    BY <1>6, ReplaceAdjustmentDone DEF ReplaceAdjustment
  <2>. QED  BY <1>2, <2>1
<1>7. \A f \in Refund : f \in Adjustment
  BY DEF Adjustment
<1>8. ASSUME NEW f \in Refund, NEW funding \in Fundings, FundRefund(f, funding) PROVE Recorded
  <2>1. Done({f}) /\ UNCHANGED <<retired, bankVars>>
    BY <1>8, FundRefundDone DEF FundRefund
  <2>. QED  BY <1>2, <1>7, <2>1
<1>9. ASSUME NEW f \in Refund, NEW new \in Refund, NEW funding \in Fundings,
             ReplaceFunding(f, new, funding)
      PROVE  Recorded
  <2>1. Done({new}) /\ UNCHANGED <<retired, bankVars>>
    BY <1>9, ReplaceFundingDone DEF ReplaceFunding
  <2>. QED  BY <1>2, <1>7, <2>1
<1>. QED  BY <1>4, <1>5, <1>6, <1>8, <1>9 DEF AdjustmentCommand

LEMMA ApplicationsRecorded ==
  ASSUME BalanceInv, ApplicationCommand
  PROVE  Recorded
<1>1. PICK a \in Application :
        \/ \E amount \in Amount : Apply(a, amount)
        \/ \E amount \in DocumentAmount, applied \in Amount : Collect(a, amount, applied)
        \/ \E amount \in DocumentAmount : SettleWriteOff(a, amount)
        \/ EndApplication(a)
  BY DEF ApplicationCommand
<1>2. ASSUME Done({}), UNCHANGED <<retired, bankVars>> PROVE Recorded
  <2> DEFINE X == {}
  <2>1. Done(X) /\ X \cap Receipt = {}
    BY <1>2
  <2>. HIDE DEF X
  <2>. QED  BY <1>2, <2>1, NewIsRecorded
<1>3. ASSUME NEW amount \in Amount, Apply(a, amount) PROVE Recorded
  BY <1>2, <1>3, ApplyCommandDone DEF Apply
<1>4. ASSUME NEW amount \in DocumentAmount, NEW applied \in Amount, Collect(a, amount, applied)
      PROVE  Recorded
  <2>1. /\ Done({a[1]}) /\ UNCHANGED <<retired, bankVars>>
        /\ a[1] \in Receipt /\ ReceiptKeyFree(a[1])
    BY <1>4, CollectDone DEF Collect
  <2>. QED  BY <2>1, ReceiptIsRecorded
<1>5. ASSUME NEW amount \in DocumentAmount, SettleWriteOff(a, amount) PROVE Recorded
  <2>1. Done({a[1]}) /\ UNCHANGED <<retired, bankVars>>
    BY <1>5, SettleWriteOffDone DEF SettleWriteOff
  <2>2. {a[1]} \cap Receipt = {}
    BY <1>5, DocumentsAssumption DEF SettleWriteOff, Adjustment
  <2>. QED  BY <2>1, <2>2, NewIsRecorded
<1>6. ASSUME EndApplication(a) PROVE Recorded
  BY <1>2, <1>6, EndApplicationDone DEF EndApplication
<1>. QED  BY <1>1, <1>3, <1>4, <1>5, <1>6

LEMMA ReceiptsRecorded ==
  ASSUME BalanceInv, NEW r \in Receipt,
         \/ \E amount \in DocumentAmount : RecordReceipt(r, amount)
         \/ \E f \in Refund, amount \in Amount : ReturnCash(r, f, amount)
         \/ VoidReceipt(r)
  PROVE  Recorded
<1>1. ASSUME NEW amount \in DocumentAmount, RecordReceipt(r, amount) PROVE Recorded
  <2>1. Done({r})
    BY <1>1, CreateOpenDone DEF RecordReceipt, ReceiptKeyFree
  <2>. QED  BY <1>1, <2>1, ReceiptIsRecorded DEF RecordReceipt
<1>2. ASSUME NEW f \in Refund, NEW amount \in Amount, ReturnCash(r, f, amount) PROVE Recorded
  <2>1. Done({f}) /\ UNCHANGED <<retired, bankVars>>
    BY <1>2, ReturnCashDone DEF ReturnCash
  <2>2. {f} \cap Receipt = {}
    BY DocumentsAssumption DEF Adjustment
  <2>. QED  BY <2>1, <2>2, NewIsRecorded
<1>3. ASSUME VoidReceipt(r) PROVE Recorded
  <2> DEFINE X == {}
  <2>1. Done(X) /\ X \cap Receipt = {} /\ UNCHANGED <<retired, bankVars>>
    BY <1>3, VoidReceiptDone DEF VoidReceipt
  <2>. HIDE DEF X
  <2>. QED  BY <2>1, NewIsRecorded
<1>. QED  BY <1>1, <1>2, <1>3

-----------------------------------------------------------------------------
(* Bank lines and their matches. *)
LEMMA RecordedKeepsMatches ==
  ASSUME BalanceInv, MatchOK, Recorded
  PROVE  MatchOK'
<1>1. /\ \A d \in Document : Exists(d) => Exists(d)' /\ doc'[d].original = doc[d].original
      /\ UNCHANGED bankVars
  BY DEF Recorded, Done
<1>2. ActiveMatches' = ActiveMatches /\ line' = line /\ match' = match
  BY <1>1 DEF bankVars, ActiveMatches
<1>3. \A m \in ActiveMatches : match[m].transaction \in Document /\ Exists(match[m].transaction)
  BY DocumentsAssumption DEF MatchOK, BankTypeOK, ActiveMatches, MatchRow, NoMatch, Document
<1>4. BankTypeOK'
  BY <1>2 DEF MatchOK, BankTypeOK
<1>5. MatchesAgree'
  <2>1. ASSUME NEW m \in ActiveMatches
        PROVE  line[match[m].line].amount = doc'[match[m].transaction].original
    <3>1. line[match[m].line].amount = doc[match[m].transaction].original
      BY DEF MatchOK, MatchesAgree
    <3>. QED  BY <1>1, <1>3, <3>1
  <2>2. ASSUME NEW l \in Line
        PROVE  (line'[l].status = "matched") = (\E m \in ActiveMatches' : match'[m].line = l)
    <3>1. (line[l].status = "matched") = (\E m \in ActiveMatches : match[m].line = l)
      BY DEF MatchOK, MatchesAgree
    <3>. QED  BY <1>2, <3>1
  <2>3. ASSUME NEW m \in ActiveMatches', NEW n \in ActiveMatches', m # n
        PROVE  match'[m].line # match'[n].line /\ match'[m].transaction # match'[n].transaction
    BY <1>2, <2>3 DEF MatchOK, MatchesAgree
  <2>4. \A m \in ActiveMatches' :
          line'[match'[m].line].amount = doc'[match'[m].transaction].original
    BY <1>2, <2>1
  <2>. QED  BY <2>2, <2>3, <2>4 DEF MatchesAgree
<1>. QED  BY <1>1, <1>2, <1>3, <1>4, <1>5 DEF MatchOK

LEMMA MatchFacts ==
  ASSUME MatchOK
  PROVE  /\ line \in [Line -> LineRow] /\ match \in [MatchKey -> MatchRow \cup {NoMatch}]
         /\ \A m \in MatchKey : m \in ActiveMatches <=> match[m].status = "matched"
         /\ \A m \in ActiveMatches :
              /\ m \in MatchKey /\ match[m] \in MatchRow /\ match[m].line \in Line
              /\ match[m].transaction \in Transaction /\ Exists(match[m].transaction)
              /\ line[match[m].line].status = "matched"
              /\ line[match[m].line].amount = doc[match[m].transaction].original
         /\ \A m, n \in ActiveMatches :
              m # n => /\ match[m].line # match[n].line
                       /\ match[m].transaction # match[n].transaction
         /\ \A l \in Line :
              line[l].status = "matched" => \E m \in ActiveMatches : match[m].line = l
<1>1. ASSUME NEW m \in ActiveMatches
      PROVE  /\ m \in MatchKey /\ match[m] \in MatchRow /\ match[m].line \in Line
             /\ match[m].transaction \in Transaction
  BY DEF MatchOK, BankTypeOK, ActiveMatches, MatchRow, NoMatch
<1>. QED  BY <1>1 DEF MatchOK, BankTypeOK, MatchesAgree, ActiveMatches

LEMMA MatchLineKeeps ==
  ASSUME MatchOK, NEW m \in MatchKey, NEW l \in Line, NEW r \in Receipt, Exists(r),
         MatchLine(m, l, r, doc[r].original), UNCHANGED doc
  PROVE  MatchOK'
<1> DEFINE row == [status |-> "matched", line |-> l, transaction |-> r]
<1>1. /\ match[m] = NoMatch /\ line[l].status = "unmatched" /\ line[l].amount = doc[r].original
      /\ Unclaimed(l, r)
      /\ line' = [line EXCEPT ![l].status = "matched"]
      /\ match' = [match EXCEPT ![m] = row]
  BY DEF MatchLine
<1>2. /\ line \in [Line -> LineRow] /\ match \in [MatchKey -> MatchRow \cup {NoMatch}]
      /\ \A n \in MatchKey : n \in ActiveMatches <=> match[n].status = "matched"
      /\ \A n \in ActiveMatches : n \in MatchKey
  BY MatchFacts
<1>3. row \in MatchRow
  BY DocumentsAssumption DEF MatchRow
<1>4. /\ match'[m] = row /\ \A n \in MatchKey : n # m => match'[n] = match[n]
      /\ match' \in [MatchKey -> MatchRow \cup {NoMatch}]
  BY <1>1, <1>2, <1>3
<1>5. /\ line'[l] = [line[l] EXCEPT !.status = "matched"]
      /\ \A k \in Line : k # l => line'[k] = line[k]
      /\ line' \in [Line -> LineRow]
  <2>1. [line[l] EXCEPT !.status = "matched"] \in LineRow
    BY <1>2 DEF LineRow
  <2>. QED  BY <1>1, <1>2, <2>1
<1>6. line'[l].status = "matched" /\ line'[l].amount = doc[r].original
  BY <1>1, <1>2, <1>5 DEF LineRow
<1>7. m \notin ActiveMatches /\ ActiveMatches' = ActiveMatches \cup {m}
  <2>1. NoMatch.status # "matched"
    BY DEF NoMatch
  <2>2. row.status = "matched"
    OBVIOUS
  <2>. QED  BY <1>1, <1>2, <1>4, <2>1, <2>2 DEF ActiveMatches
<1>8. row.line = l /\ row.transaction = r
  OBVIOUS
<1>. HIDE DEF row
<1>9. ASSUME NEW n \in ActiveMatches'
      PROVE  /\ n = m => match'[n].line = l /\ match'[n].transaction = r
             /\ n # m => /\ n \in ActiveMatches /\ match'[n] = match[n]
                         /\ match[n].line # l /\ match[n].transaction # r
                         /\ match[n].line \in Line
  <2>1. CASE n = m
    BY <1>4, <1>8, <2>1
  <2>2. CASE n # m
    <3>1. n \in ActiveMatches
      BY <1>7, <2>2
    <3>. QED  BY <1>1, <1>2, <1>4, <2>2, <3>1, MatchFacts DEF Unclaimed
  <2>. QED  BY <2>1, <2>2
<1>10. BankTypeOK'
  BY <1>4, <1>5 DEF BankTypeOK
<1>11. MatchesAgree'
  <2>1. ASSUME NEW k \in Line
        PROVE  (line'[k].status = "matched") = (\E n \in ActiveMatches' : match'[n].line = k)
    <3>1. CASE k = l
      BY <1>6, <1>7, <1>9, <3>1
    <3>2. CASE k # l
      <4>1. line'[k] = line[k]
        BY <1>5, <3>2
      <4>2. (line[k].status = "matched") = (\E n \in ActiveMatches : match[n].line = k)
        BY DEF MatchOK, MatchesAgree
      <4>3. (\E n \in ActiveMatches : match[n].line = k) <=> (\E n \in ActiveMatches' : match'[n].line = k)
        BY <1>7, <1>9, <3>2
      <4>. QED  BY <4>1, <4>2, <4>3
    <3>. QED  BY <3>1, <3>2
  <2>2. ASSUME NEW n \in ActiveMatches', NEW o \in ActiveMatches', n # o
        PROVE  match'[n].line # match'[o].line /\ match'[n].transaction # match'[o].transaction
    <3>1. CASE n = m
      BY <1>9, <2>2, <3>1
    <3>2. CASE o = m
      BY <1>9, <2>2, <3>2
    <3>3. CASE n # m /\ o # m
      BY <1>9, <2>2, <3>3, MatchFacts
    <3>. QED  BY <3>1, <3>2, <3>3
  <2>3. ASSUME NEW n \in ActiveMatches'
        PROVE  line'[match'[n].line].amount = doc'[match'[n].transaction].original
    <3>1. CASE n = m
      BY <1>6, <1>9, <3>1
    <3>2. CASE n # m
      <4>1. line'[match'[n].line] = line[match[n].line] /\ n \in ActiveMatches /\ match'[n] = match[n]
        BY <1>5, <1>9, <3>2
      <4>2. line[match[n].line].amount = doc[match[n].transaction].original
        BY <4>1, MatchFacts
      <4>. QED  BY <4>1, <4>2
    <3>. QED  BY <3>1, <3>2
  <2>. QED  BY <2>1, <2>2, <2>3 DEF MatchesAgree
<1>12. ASSUME NEW n \in ActiveMatches' PROVE Exists(match[n].transaction)'
  <2>1. CASE n = m
    BY <1>9, <2>1 DEF Exists
  <2>2. CASE n # m
    <3>1. n \in ActiveMatches /\ match'[n] = match[n]
      BY <1>9, <2>2
    <3>2. Exists(match[n].transaction)
      BY <3>1, MatchFacts
    <3>. QED  BY <3>1, <3>2 DEF Exists
  <2>. QED  BY <2>1, <2>2
<1>. QED  BY <1>10, <1>11, <1>12 DEF MatchOK

(* A line that no match answers for changes, and stays unmatched. *)
LEMMA FreeLineKeeps ==
  ASSUME MatchOK, NEW l \in Line, line[l].status # "matched", NEW row \in LineRow,
         row.status # "matched", line' = [line EXCEPT ![l] = row], UNCHANGED <<match, doc>>
  PROVE  MatchOK'
<1>1. /\ line'[l] = row /\ \A k \in Line : k # l => line'[k] = line[k]
      /\ line' \in [Line -> LineRow] /\ match' \in [MatchKey -> MatchRow \cup {NoMatch}]
  BY MatchFacts
<1>2. ActiveMatches' = ActiveMatches
  BY DEF ActiveMatches
<1>3. \A m \in ActiveMatches : match[m].line \in Line /\ match[m].line # l
  BY MatchFacts
<1>4. MatchesAgree'
  <2>1. ASSUME NEW k \in Line
        PROVE  (line'[k].status = "matched") = (\E n \in ActiveMatches : match[n].line = k)
    <3>1. CASE k = l
      BY <1>1, <1>3, <3>1
    <3>2. CASE k # l
      BY <1>1, <3>2 DEF MatchOK, MatchesAgree
    <3>. QED  BY <3>1, <3>2
  <2>2. ASSUME NEW n \in ActiveMatches
        PROVE  line'[match[n].line].amount = doc[match[n].transaction].original
    BY <1>1, <1>3, MatchFacts
  <2>3. ASSUME NEW m \in ActiveMatches', NEW n \in ActiveMatches', m # n
        PROVE  match'[m].line # match'[n].line /\ match'[m].transaction # match'[n].transaction
    BY <1>2, <2>3 DEF MatchOK, MatchesAgree
  <2>4. \A k \in Line :
          (line'[k].status = "matched") = (\E n \in ActiveMatches' : match'[n].line = k)
    BY <1>2, <2>1
  <2>5. \A n \in ActiveMatches' :
          line'[match'[n].line].amount = doc'[match'[n].transaction].original
    BY <1>2, <2>2
  <2>. QED  BY <2>3, <2>4, <2>5 DEF MatchesAgree
<1>. QED  BY <1>1, <1>2, <1>4 DEF MatchOK, BankTypeOK, Exists

LEMMA UnmatchKeeps ==
  ASSUME MatchOK, NEW m \in MatchKey, Unmatch(m), UNCHANGED doc
  PROVE  MatchOK'
<1> DEFINE l == match[m].line
           row == [match[m] EXCEPT !.status = "unmatched"]
           new == [line[l] EXCEPT !.status = "unmatched"]
<1>1. /\ m \in ActiveMatches /\ match' = [match EXCEPT ![m] = row]
      /\ line' = [line EXCEPT ![l] = new]
      /\ l \in Line /\ row \in MatchRow /\ new \in LineRow
      /\ row.status = "unmatched" /\ new.status = "unmatched"
  <2>1. m \in ActiveMatches /\ match[m] \in MatchRow /\ l \in Line /\ line[l] \in LineRow
    BY MatchFacts DEF Unmatch
  <2>2. /\ row \in MatchRow /\ new \in LineRow
        /\ row.status = "unmatched" /\ new.status = "unmatched"
    BY <2>1 DEF MatchRow, LineRow
  <2>. QED  BY <2>1, <2>2 DEF Unmatch
<1>. HIDE DEF row, new, l
<1>2. /\ match'[m] = row /\ \A n \in MatchKey : n # m => match'[n] = match[n]
      /\ line'[l] = new /\ \A k \in Line : k # l => line'[k] = line[k]
      /\ line' \in [Line -> LineRow] /\ match' \in [MatchKey -> MatchRow \cup {NoMatch}]
  BY <1>1, MatchFacts
<1>3. ActiveMatches' = ActiveMatches \ {m}
  BY <1>1, <1>2 DEF ActiveMatches
<1>4. ASSUME NEW n \in ActiveMatches, n # m
      PROVE  n \in MatchKey /\ match'[n] = match[n] /\ match[n].line \in Line /\ match[n].line # l
  BY <1>1, <1>2, <1>4, MatchFacts DEF l
<1>5. MatchesAgree'
  <2>1. ASSUME NEW k \in Line
        PROVE  (line'[k].status = "matched") = (\E n \in ActiveMatches' : match'[n].line = k)
    <3>1. CASE k = l
      BY <1>1, <1>2, <1>3, <1>4, <3>1
    <3>2. CASE k # l
      <4>1. line'[k] = line[k]
        BY <1>2, <3>2
      <4>2. (line[k].status = "matched") = (\E n \in ActiveMatches : match[n].line = k)
        BY DEF MatchOK, MatchesAgree
      <4>3. (\E n \in ActiveMatches : match[n].line = k) <=> (\E n \in ActiveMatches' : match'[n].line = k)
        BY <1>3, <1>4, <3>2 DEF l
      <4>. QED  BY <4>1, <4>2, <4>3
    <3>. QED  BY <3>1, <3>2
  <2>2. ASSUME NEW n \in ActiveMatches', NEW o \in ActiveMatches', n # o
        PROVE  match'[n].line # match'[o].line /\ match'[n].transaction # match'[o].transaction
    BY <1>3, <1>4, <2>2, MatchFacts
  <2>3. ASSUME NEW n \in ActiveMatches'
        PROVE  line'[match'[n].line].amount = doc'[match'[n].transaction].original
    <3>1. n \in ActiveMatches /\ n # m
      BY <1>3
    <3>2. line'[match'[n].line] = line[match[n].line] /\ match'[n] = match[n]
      BY <1>2, <1>4, <3>1
    <3>3. line[match[n].line].amount = doc[match[n].transaction].original
      BY <3>1, MatchFacts
    <3>. QED  BY <3>2, <3>3
  <2>. QED  BY <2>1, <2>2, <2>3 DEF MatchesAgree
<1>6. ASSUME NEW n \in ActiveMatches' PROVE Exists(match[n].transaction)'
  <2>1. n \in ActiveMatches /\ match'[n] = match[n]
    BY <1>3, <1>4
  <2>2. Exists(match[n].transaction)
    BY <2>1, MatchFacts
  <2>. QED  BY <2>1, <2>2 DEF Exists
<1>. QED  BY <1>2, <1>5, <1>6 DEF MatchOK, BankTypeOK

LEMMA LineCommandKeeps ==
  ASSUME MatchOK, LineCommand, UNCHANGED doc
  PROVE  MatchOK'
<1>1. ASSUME NEW l \in Line, NEW amount \in LineAmount, Ingest(l, amount) PROVE MatchOK'
  <2> DEFINE row == [status |-> "unmatched", amount |-> amount]
  <2>1. /\ row \in LineRow /\ row.status # "matched" /\ line[l].status # "matched"
        /\ line' = [line EXCEPT ![l] = row] /\ UNCHANGED <<match, doc>>
    BY <1>1 DEF Ingest, LineRow
  <2>. HIDE DEF row
  <2>. QED  BY <2>1, FreeLineKeeps
<1>2. ASSUME NEW l \in Line, Ignore(l) PROVE MatchOK'
  <2> DEFINE row == [line[l] EXCEPT !.status = "ignored"]
  <2>1. /\ row \in LineRow /\ row.status # "matched" /\ line[l].status # "matched"
        /\ line' = [line EXCEPT ![l] = row] /\ UNCHANGED <<match, doc>>
    BY <1>2, MatchFacts DEF Ignore, LineRow
  <2>. HIDE DEF row
  <2>. QED  BY <2>1, FreeLineKeeps
<1>3. ASSUME NEW l \in Line, Unignore(l) PROVE MatchOK'
  <2> DEFINE row == [line[l] EXCEPT !.status = "unmatched"]
  <2>1. /\ row \in LineRow /\ row.status # "matched" /\ line[l].status # "matched"
        /\ line' = [line EXCEPT ![l] = row] /\ UNCHANGED <<match, doc>>
    BY <1>3, MatchFacts DEF Unignore, LineRow
  <2>. HIDE DEF row
  <2>. QED  BY <2>1, FreeLineKeeps
<1>. QED  BY <1>1, <1>2, <1>3, UnmatchKeeps DEF LineCommand

-----------------------------------------------------------------------------
(* Outcomes of collection keys. *)
OutcomeMap == [r \in Receipt |-> Outcome(r)]
OutcomeStep == Collections!OutcomeNext \/ UNCHANGED OutcomeMap

Kept == Inv' /\ OutcomeStep

LEMMA OutcomeSettles ==
  ASSUME NEW r \in Receipt, NEW result \in {"recorded", "retired"},
         Outcome(r) = "none", Outcome(r)' = result,
         \A other \in Receipt \ {r} : Outcome(other)' = Outcome(other)
  PROVE  OutcomeStep
<1>1. OutcomeMap' = [OutcomeMap EXCEPT ![r] = result]
  BY DEF OutcomeMap
<1>2. OutcomeMap[r] = "none"
  BY DEF OutcomeMap
<1>3. Collections!Settle(r, result)
  BY <1>1, <1>2 DEF Collections!Settle, OutcomeMap
<1>. QED  BY <1>3 DEF OutcomeStep, Collections!OutcomeNext

LEMMA RecordedKeepsAll ==
  ASSUME Inv, Recorded
  PROVE  Kept
<1>1. PICK X :
        /\ Done(X)
        /\ X \cap Receipt = {} \/ \E r \in Receipt : X = {r} /\ ReceiptKeyFree(r)
        /\ UNCHANGED <<retired, bankVars>>
  BY DEF Recorded
<1>2. BalanceInv' /\ MatchOK'
  BY <1>1, RecordedKeepsMatches DEF Inv, Done
<1>3. /\ \A r \in Receipt : r \in Document /\ (Exists(r) => Exists(r)')
      /\ \A r \in Receipt : r \notin X => (Exists(r)' <=> Exists(r))
      /\ retired' = retired
  BY <1>1 DEF Done, Document
<1>4. ASSUME NEW r \in Receipt, r \notin X PROVE Outcome(r)' = Outcome(r)
  BY <1>3, <1>4 DEF Outcome
<1>5. CASE X \cap Receipt = {}
  <2>1. OutcomeStep
    BY <1>4, <1>5 DEF OutcomeStep, OutcomeMap
  <2>2. OutcomeOK'
    BY <1>3, <1>5 DEF Inv, OutcomeOK
  <2>. QED  BY <1>2, <2>1, <2>2 DEF Kept, Inv
<1>6. CASE X \cap Receipt # {}
  <2>1. PICK r \in Receipt : X = {r} /\ ~Exists(r) /\ r \notin retired
    BY <1>1, <1>6 DEF ReceiptKeyFree
  <2>2. Outcome(r) = "none"
    BY <2>1 DEF Outcome
  <2>3. \A other \in Receipt \ {r} : Outcome(other)' = Outcome(other)
    BY <1>4, <2>1
  <2>4. CASE Exists(r)'
    <3>1. Outcome(r)' = "recorded"
      BY <1>3, <2>1, <2>4 DEF Outcome
    <3>2. OutcomeStep
      BY <2>2, <2>3, <3>1, OutcomeSettles
    <3>3. OutcomeOK'
      BY <1>3, <2>1 DEF Inv, OutcomeOK
    <3>. QED  BY <1>2, <3>2, <3>3 DEF Kept, Inv
  <2>5. CASE ~Exists(r)'
    <3>1. Outcome(r)' = Outcome(r)
      BY <1>3, <2>1, <2>5 DEF Outcome
    <3>2. OutcomeStep
      BY <2>3, <3>1 DEF OutcomeStep, OutcomeMap
    <3>3. OutcomeOK'
      BY <1>3, <2>1 DEF Inv, OutcomeOK
    <3>. QED  BY <1>2, <3>2, <3>3 DEF Kept, Inv
  <2>. QED  BY <2>4, <2>5
<1>. QED  BY <1>5, <1>6

LEMMA SameBooks ==
  ASSUME BalanceInv, UNCHANGED <<doc, application, cancellation, returned, reversed>>
  PROVE  BalanceInv'
<1>1. ASSUME NEW a \in Application, CancelOK(a) PROVE CancelOK(a)'
  BY <1>1 DEF CancelOK
<1>2. ASSUME NEW f \in Refund, RefundOK(f) PROVE RefundOK(f)'
  BY <1>2 DEF RefundOK, Slot
<1>3. BooksOf(doc, application)'
  BY DEF BalanceInv
<1>. QED  BY <1>1, <1>2, <1>3 DEF BalanceInv

LEMMA SameMatches ==
  ASSUME MatchOK, UNCHANGED <<doc, line, match>>
  PROVE  MatchOK'
<1>1. ActiveMatches' = ActiveMatches
  BY DEF ActiveMatches
<1>2. BankTypeOK'
  BY DEF MatchOK, BankTypeOK
<1>3. MatchesAgree'
  <2>1. MatchesAgree
    BY DEF MatchOK
  <2>2. \A l \in Line : (line[l].status = "matched") = (\E m \in ActiveMatches : match[m].line = l)
    BY <2>1 DEF MatchesAgree
  <2>3. /\ \A m, n \in ActiveMatches :
             m # n => match[m].line # match[n].line /\ match[m].transaction # match[n].transaction
        /\ \A m \in ActiveMatches :
             line[match[m].line].amount = doc[match[m].transaction].original
    BY <2>1 DEF MatchesAgree
  <2>. HIDE DEF ActiveMatches
  <2>4. \A l \in Line :
          (line'[l].status = "matched") = (\E m \in ActiveMatches' : match'[m].line = l)
    BY <1>1, <2>2
  <2>5. /\ \A m, n \in ActiveMatches' :
             m # n => match'[m].line # match'[n].line
                      /\ match'[m].transaction # match'[n].transaction
        /\ \A m \in ActiveMatches' :
             line'[match'[m].line].amount = doc'[match'[m].transaction].original
    BY <1>1, <2>3
  <2>. QED  BY <2>4, <2>5 DEF MatchesAgree
<1>. QED  BY <1>1, <1>2, <1>3 DEF MatchOK, Exists

LEMMA RetireKeepsAll ==
  ASSUME Inv, NEW r \in Receipt, RetireCollection(r)
  PROVE  Kept
<1>1. /\ ~Exists(r) /\ r \notin retired /\ retired' = retired \cup {r}
      /\ UNCHANGED <<doc, application, cancellation, returned, reversed, line, match>>
  BY DEF RetireCollection, ReceiptKeyFree, docVars, bankVars
<1>2. BalanceInv' /\ MatchOK' /\ OutcomeOK'
  BY <1>1, SameBooks, SameMatches DEF Inv, OutcomeOK, Exists
<1>3. Outcome(r) = "none" /\ Outcome(r)' = "retired"
  BY <1>1 DEF Outcome, Exists
<1>4. \A other \in Receipt \ {r} : Outcome(other)' = Outcome(other)
  BY <1>1 DEF Outcome, Exists
<1>5. OutcomeStep
  BY <1>3, <1>4, OutcomeSettles
<1>. QED  BY <1>2, <1>5 DEF Kept, Inv

(* Steps of bank lines, and no step. *)
LEMMA OthersKeepAll ==
  ASSUME Inv, MatchOK', UNCHANGED <<doc, application, cancellation, returned, retired, reversed>>
  PROVE  Kept
<1>1. BalanceInv' /\ OutcomeOK'
  BY DEF Inv, BalanceInv, BooksOf, Book, CancelOK, RefundOK, Slot, Exists, OutcomeOK
<1>2. OutcomeStep
  BY DEF OutcomeStep, OutcomeMap, Outcome, Exists
<1>. QED  BY <1>1, <1>2 DEF Kept, Inv

LEMMA StepKeepsAll ==
  ASSUME Inv, [Next]_vars
  PROVE  Kept
<1>. USE DEF Inv
<1>1. CASE InvoiceCommand
  BY <1>1, InvoicesRecorded, RecordedKeepsAll
<1>2. CASE AdjustmentCommand
  BY <1>2, AdjustmentsRecorded, RecordedKeepsAll
<1>3. CASE ApplicationCommand
  BY <1>3, ApplicationsRecorded, RecordedKeepsAll
<1>4. CASE ReceiptCommand
  <2>1. PICK r \in Receipt :
          \/ \E amount \in DocumentAmount : RecordReceipt(r, amount)
          \/ RetireCollection(r)
          \/ \E f \in Refund, amount \in Amount : ReturnCash(r, f, amount)
          \/ VoidReceipt(r)
          \/ \E m \in MatchKey, l \in Line :
               /\ Exists(r)
               /\ MatchLine(m, l, r, doc[r].original)
               /\ UNCHANGED <<docVars, cancellation, returned, retired, reversed>>
    BY <1>4 DEF ReceiptCommand
  <2>2. CASE \/ \E amount \in DocumentAmount : RecordReceipt(r, amount)
             \/ \E f \in Refund, amount \in Amount : ReturnCash(r, f, amount)
             \/ VoidReceipt(r)
    BY <2>2, ReceiptsRecorded, RecordedKeepsAll
  <2>3. CASE RetireCollection(r)
    BY <2>3, RetireKeepsAll
  <2>4. ASSUME NEW m \in MatchKey, NEW l \in Line, Exists(r), MatchLine(m, l, r, doc[r].original),
               UNCHANGED <<docVars, cancellation, returned, retired, reversed>>
        PROVE  Kept
    <3>1. UNCHANGED <<doc, application, cancellation, returned, retired, reversed>>
      BY <2>4 DEF docVars
    <3>2. MatchOK'
      BY <2>4, <3>1, MatchLineKeeps
    <3>. QED  BY <3>1, <3>2, OthersKeepAll
  <2>. QED  BY <2>1, <2>2, <2>3, <2>4
<1>5. CASE LineCommand /\ UNCHANGED <<docVars, cancellation, returned, retired, reversed>>
  <2>1. UNCHANGED <<doc, application, cancellation, returned, retired, reversed>>
    BY <1>5 DEF docVars
  <2>2. MatchOK'
    BY <1>5, <2>1, LineCommandKeeps
  <2>. QED  BY <2>1, <2>2, OthersKeepAll
<1>6. CASE UNCHANGED vars
  <2>1. UNCHANGED <<doc, application, cancellation, returned, retired, reversed, line, match>>
    BY <1>6 DEF vars, bankVars
  <2>2. MatchOK'
    BY <2>1 DEF MatchOK, BankTypeOK, MatchesAgree, ActiveMatches, Exists
  <2>. QED  BY <2>1, <2>2, OthersKeepAll
<1>. QED  BY <1>1, <1>2, <1>3, <1>4, <1>5, <1>6 DEF Next, DocumentCommand

LEMMA InitIsInv ==
  ASSUME Init
  PROVE  Inv
<1>1. /\ doc = [d \in Document |-> doc[d]] /\ \A d \in Document : doc[d] = NoDocument
      /\ application \in [Application -> Nat] /\ \A a \in Application : application[a] = 0
      /\ cancellation = {} /\ returned = {} /\ retired = {} /\ reversed = {}
  BY DEF Init
<1>2. \A d \in Document : Slot(d) = 0
  BY <1>1, TotalIsNat, SlotsAre DEF Slot
<1>3. \A d : Book(d, NoDocument, 0)
  BY DEF Book, NoDocument, Row
<1>4. BooksOf(doc, application)
  BY <1>1, <1>2, <1>3 DEF BooksOf, Slot
<1>5. ASSUME NEW f \in Refund PROVE RefundOK(f)
  <2>1. f \in Document /\ doc[f].status = "none" /\ Slot(f) = 0
    BY <1>1, <1>2 DEF Document, Adjustment, NoDocument
  <2>2. \A a \in Slots(f) : application[a] = 0
    BY <1>1, SlotsAre
  <2>. QED  BY <1>1, <2>1, <2>2 DEF RefundOK
<1>6. BalanceInv
  BY <1>1, <1>4, <1>5 DEF BalanceInv
<1>7. MatchOK
  <2>1. ActiveMatches = {} /\ \A l \in Line : line[l].status = "none"
    BY DEF Init, BankInit, ActiveMatches, NoMatch
  <2>2. BankTypeOK
    BY DEF Init, BankInit, BankTypeOK, LineRow, NoMatch
  <2>. QED  BY <2>1, <2>2 DEF MatchOK, MatchesAgree
<1>. QED  BY <1>1, <1>6, <1>7 DEF Inv, OutcomeOK

-----------------------------------------------------------------------------
(* The books of every document are kept, together with what a cancellation *)
(* and a refund have of applications, the matches of bank lines and the    *)
(* outcomes of collections.                                                *)
THEOREM ReceivablesKept == Spec => []Inv
<1>1. Inv /\ [Next]_vars => Inv'
  BY StepKeepsAll DEF Kept
<1>. QED  BY <1>1, InitIsInv, PTL DEF Spec

(* Every open amount lies between zero and the amount of its document,     *)
(* whatever is applied, released, corrected, refunded and returned.        *)
THEOREM ReceivablesTyped == Spec => []TypeOK
<1>1. ASSUME Inv PROVE TypeOK
  <2>1. /\ doc = [d \in Document |-> doc[d]] /\ BooksOf(doc, application)
        /\ cancellation \subseteq Application /\ returned \subseteq Refund
        /\ reversed \subseteq Document /\ retired \subseteq Receipt /\ BankTypeOK
    BY <1>1 DEF Inv, BalanceInv, MatchOK, OutcomeOK
  <2>2. ASSUME NEW d \in Document PROVE doc[d] \in Row /\ doc[d].open <= doc[d].original
    BY <2>1, RowFacts
  <2>3. application \in [Application -> Nat]
    BY <2>1 DEF BooksOf
  <2>. QED  BY <2>1, <2>2, <2>3 DEF TypeOK, Row
<1>. QED  BY <1>1, ReceivablesKept, PTL

LEMMA ActiveSlots ==
  ASSUME BalanceInv, NEW d \in Document
  PROVE  /\ From(d) \cup To(d) = {a \in Slots(d) : application[a] > 0}
         /\ Total(From(d) \cup To(d)) = Slot(d)
         /\ From(d) \cup To(d) = {} <=> Slot(d) = 0
<1> DEFINE S == From(d) \cup To(d)
<1>1. S = {a \in Slots(d) : application[a] > 0}
  BY DEF From, To, Slots, Active
<1>2. /\ IsFiniteSet(Slots(d)) /\ \A a \in Slots(d) : application[a] \in Nat
  BY SlotsAre, AmountFacts DEF BalanceInv
<1>. HIDE DEF S
<1>3. S \in SUBSET Slots(d) /\ \A a \in Slots(d) \ S : application[a] = 0
  BY <1>1, <1>2
<1>4. SumFunctionOnSet(application, Slots(d)) = SumFunctionOnSet(application, S)
  BY <1>2, <1>3, SumWithout
<1>5. SumFunctionOnSet(application, Slots(d)) = 0 <=> \A a \in Slots(d) : application[a] = 0
  BY <1>2, SumZero
<1>6. S = {} <=> \A a \in Slots(d) : application[a] = 0
  BY <1>1, <1>2
<1>. QED  BY <1>1, <1>4, <1>5, <1>6 DEF S, Slot, Total

(* The balance trigger keeps every document open by what its active        *)
(* applications leave, over any sequence of commands.                      *)
THEOREM ReceivableBalances == Spec => []BalancesMatchApplications
<1>1. ASSUME BalanceInv, NEW d \in Document \ WriteOff
      PROVE  IF doc[d].status \in {"none", "voided"}
             THEN From(d) \cup To(d) = {} /\ doc[d].open = 0
             ELSE IF d \in Refund /\ From(d) \cup To(d) = {} THEN doc[d].status = "settled"
             ELSE doc[d].open + Total(From(d) \cup To(d)) = doc[d].original
  <2>1. /\ Book(d, doc[d], Slot(d)) /\ doc[d].open \in Nat /\ doc[d].original \in Nat /\ Slot(d) \in Nat
        /\ doc[d].status \in {"none", "settled", "voided"} => doc[d].open = 0
        /\ doc[d].open + Slot(d) <= doc[d].original
    BY <1>1, RowFacts DEF BalanceInv
  <2>2. /\ Total(From(d) \cup To(d)) = Slot(d)
        /\ From(d) \cup To(d) = {} <=> Slot(d) = 0
        /\ From(d) \cup To(d) = {a \in Slots(d) : application[a] > 0}
    BY <1>1, ActiveSlots
  <2>3. CASE d \in Refund
    <3>1. RefundOK(d)
      BY <1>1, <2>3 DEF BalanceInv
    <3>2. doc[d].status = "none" => Slot(d) = 0
      BY <2>1 DEF Book
    <3>3. doc[d].status = "voided" => From(d) \cup To(d) = {}
      BY <2>2, <3>1 DEF RefundOK
    <3>. QED  BY <2>1, <2>2, <2>3, <3>1, <3>2, <3>3 DEF RefundOK
  <2>4. CASE d \notin Refund
    <3>1. d \in Invoice \cup Receipt \cup Credit
      BY <2>4 DEF Document, Adjustment
    <3>2. /\ doc[d].status = "voided" => Slot(d) = 0
          /\ doc[d].status # "voided" => doc[d].open + Slot(d) = doc[d].original
          /\ doc[d].status = "none" => Slot(d) = 0
      BY <2>1, <3>1 DEF Book
    <3>. QED  BY <2>1, <2>2, <2>4, <3>2
  <2>. QED  BY <2>3, <2>4
<1>2. Inv => BalancesMatchApplications
  BY <1>1 DEF Inv, BalancesMatchApplications
<1>. QED  BY <1>2, ReceivablesKept, PTL

(* voidIssuedInvoice and correctIssuedInvoice cancel for good: no later    *)
(* command gives the credit back or applies anything else to the invoice.  *)
THEOREM CancelledInvoicesStand == Spec => []CancellationsStand
<1>1. ASSUME BalanceInv, NEW a \in cancellation
      PROVE  /\ To(a[2]) = {a} /\ From(a[1]) = {a}
             /\ application[a] = doc[a[2]].original
             /\ doc[a[1]].status = "settled" /\ doc[a[2]].status = "settled"
  <2>1. CancelOK(a) /\ application[a] > 0
    BY <1>1, FinalFacts DEF BalanceInv
  <2>. QED  BY <2>1 DEF CancelOK, To, From, Active, Slots
<1>2. Inv => CancellationsStand
  BY <1>1 DEF Inv, CancellationsStand
<1>. QED  BY <1>2, ReceivablesKept, PTL

(* returnCustomerPaymentCash is final, and no receipt pays back more than  *)
(* came in.                                                                *)
THEOREM ReturnedMoneyStays == Spec => []ReturnedMoneyIsFinal
<1>1. ASSUME BalanceInv, NEW f \in returned
      PROVE  /\ doc[f].status = "settled"
             /\ \E a \in To(f) : a[1] \in Receipt /\ application[a] = doc[f].original
  <2>1. f \in Refund /\ f \in Document /\ RefundOK(f)
    BY <1>1, Refunds DEF BalanceInv
  <2>2. doc[f].status = "settled"
    BY <1>1, <2>1 DEF RefundOK
  <2>3. PICK a \in Slots(f) : a[1] \in Receipt /\ application[a] = doc[f].original
    BY <1>1, <2>1 DEF RefundOK
  <2>4. doc[f].original \in Nat /\ doc[f].original # 0
    BY <1>1, <2>1, <2>2, RowFacts DEF BalanceInv, Exists
  <2>5. a \in To(f)
    BY <2>1, <2>3, <2>4, DocumentsAssumption DEF To, Active, Slots, Adjustment
  <2>. QED  BY <2>2, <2>3, <2>5
<1>2. ASSUME BalanceInv, NEW r \in Receipt
      PROVE  Returned(r) <= doc[r].original /\ (doc[r].status = "voided" => Returned(r) = 0)
  <2> DEFINE S == {a \in From(r) : a[2] \in Refund}
  <2>1. /\ r \in Document /\ r \in Invoice \cup Receipt \cup Credit
    BY DEF Document
  <2>2. /\ Book(r, doc[r], Slot(r)) /\ doc[r].open \in Nat /\ doc[r].original \in Nat /\ Slot(r) \in Nat
        /\ doc[r].open + Slot(r) <= doc[r].original
    BY <1>2, <2>1, RowFacts DEF BalanceInv
  <2>3. /\ IsFiniteSet(Slots(r)) /\ \A a \in Slots(r) : application[a] \in Nat
        /\ S \in SUBSET Slots(r)
    BY <1>2, SlotsAre, AmountFacts DEF BalanceInv, From, Slots
  <2>4. SumFunctionOnSet(application, S) <= SumFunctionOnSet(application, Slots(r))
    <3>. HIDE DEF S
    <3>. QED  BY <2>3, SumBoundsPart
  <2>5. SumFunctionOnSet(application, S) \in Nat
    <3>1. IsFiniteSet(S) /\ \A a \in S : application[a] \in Nat
      BY <2>3, FS_Subset
    <3>. HIDE DEF S
    <3>. QED  BY <3>1, SumType
  <2>6. Returned(r) = SumFunctionOnSet(application, S)
    BY DEF Returned, Total
  <2>. HIDE DEF S
  <2>7. Returned(r) \in Nat /\ Returned(r) <= Slot(r)
    BY <2>4, <2>5, <2>6 DEF Slot
  <2>8. doc[r].status = "voided" => Slot(r) = 0
    BY <2>1, <2>2 DEF Book
  <2>. QED  BY <2>2, <2>7, <2>8
<1>3. Inv => ReturnedMoneyIsFinal
  BY <1>1, <1>2 DEF Inv, ReturnedMoneyIsFinal
<1>. QED  BY <1>3, ReceivablesKept, PTL

(* A bank line is matched when exactly one active match says so, to a      *)
(* transaction of its amount that answers for no other line.               *)
THEOREM BankLinesAgree == Spec => []MatchesAgree
<1>1. Inv => MatchesAgree
  BY DEF Inv, MatchOK
<1>. QED  BY <1>1, ReceivablesKept, PTL

(* Under the key of a collection the receipt and the retirement exclude    *)
(* each other for good.                                                    *)
THEOREM CollectionsSettle == Spec => CollectionsAreFinal
<1>1. Init => Collections!OutcomeInit
  BY DEF Init, Collections!OutcomeInit, Outcome, Exists, NoDocument, Document
<1>2. Inv /\ [Next]_vars => [Collections!OutcomeNext]_OutcomeMap
  BY StepKeepsAll DEF Kept, OutcomeStep
<1>. QED
  BY <1>1, <1>2, ReceivablesKept, PTL
     DEF Spec, CollectionsAreFinal, Collections!OutcomeSpec, OutcomeMap
-----------------------------------------------------------------------------
(* The documents of a source together *)

(* What is used of a document: settled of an invoice, applied or refunded  *)
(* of a receipt or credit.                                                 *)
Used(d) ==
  IF doc[d].status \in {"none", "voided"} THEN 0 ELSE doc[d].original - doc[d].open
UsedOf(S) == SumFunctionOnSet([d \in S |-> Used(d)], S)

WrittenOff == {a \in Application : a[1] \in WriteOff}
Refunded == {a \in Application : a[2] \in Refund}

LEMMA UsedIsSlot ==
  ASSUME BalanceInv, NEW d \in Invoice \cup Receipt \cup Credit
  PROVE  Used(d) = Slot(d)
<1>1. d \in Document
  BY DEF Document, Adjustment
<1>2. /\ Book(d, doc[d], Slot(d)) /\ doc[d].open \in Nat /\ doc[d].original \in Nat
      /\ Slot(d) \in Nat /\ doc[d].open + Slot(d) <= doc[d].original
  BY <1>1, RowFacts DEF BalanceInv
<1>. QED  BY <1>2 DEF Book, Used

(* What is used of the documents of D is the total of the applications of  *)
(* which each is of one of them.                                           *)
LEMMA UsedTotal ==
  ASSUME BalanceInv, NEW D \in SUBSET (Invoice \cup Receipt \cup Credit),
         NEW S \in SUBSET Application, NEW of, \A a \in S : of[a] \in D,
         \A d \in D : Slots(d) = {a \in S : of[a] = d}
  PROVE  UsedOf(D) = Total(S)
<1> DEFINE used == [d \in D |-> Used(d)]
           part == [d \in D |-> Slots(d)]
<1>1. IsFiniteSet(S) /\ \A a \in S : application[a] \in Int
  BY FiniteSets, AmountFacts DEF BalanceInv
<1>2. IsFiniteSet(D)
  BY DocumentsAssumption, FS_Subset DEF Document, Adjustment
<1>3. /\ \A d \in D : part[d] \subseteq S
      /\ \A d \in D : \A a \in S : a \in part[d] <=> of[a] = d
  OBVIOUS
<1>4. \A d \in D : used[d] = SumFunctionOnSet(application, part[d])
  BY UsedIsSlot DEF Slot
<1>. HIDE DEF used, part
<1>5. SumFunctionOnSet(used, D) = SumFunctionOnSet(application, S)
  BY <1>1, <1>2, <1>3, <1>4, SumByParts
<1>. QED  BY <1>5 DEF UsedOf, Total, used

(* The applications that are not of some kind, and those that are.         *)
LEMMA TotalSplits ==
  ASSUME BalanceInv, NEW S \in SUBSET Application
  PROVE  Total(Application) = Total(S) + Total(Application \ S)
<1>1. IsFiniteSet(Application) /\ \A a \in Application : application[a] \in Int
  BY FiniteSets, AmountFacts DEF BalanceInv
<1>. QED  BY <1>1, SumParts DEF Total

(* Over all documents of a source, what invoices are settled by and what   *)
(* was refunded is what was used of receipts and credits and what was      *)
(* written off: no sequence of applications, releases, corrections, voids  *)
(* and returns makes or loses money between them.                          *)
ReceivablesReconcile ==
  UsedOf(Invoice) + Total(Refunded) = UsedOf(Receipt \cup Credit) + Total(WrittenOff)

(* The balances the trigger keeps for each document add up over a source:  *)
(* applySubledgerPayment, endSubledgerApplication and the corrections      *)
(* change both ends of an application by the same amount.                  *)
THEOREM ReceivablesAddUp == Spec => []ReceivablesReconcile
<1>1. ASSUME BalanceInv PROVE ReceivablesReconcile
  <2> DEFINE from == [a \in Application |-> a[1]]
             to == [a \in Application |-> a[2]]
             Spending == Application \ WrittenOff
             Settling == Application \ Refunded
             Source == Receipt \cup Credit
  <2>1. /\ \A a \in Spending : from[a] \in Source
        /\ \A a \in Settling : to[a] \in Invoice
    BY ApplicationIs DEF WrittenOff, Refunded
  <2>2. \A d \in Source : Slots(d) = {a \in Spending : from[a] = d}
    BY ApplicationIs, DocumentsAssumption DEF Slots, WrittenOff, Adjustment
  <2>3. \A d \in Invoice : Slots(d) = {a \in Settling : to[a] = d}
    BY ApplicationIs, DocumentsAssumption DEF Slots, Refunded, Adjustment
  <2>4. /\ Spending \in SUBSET Application /\ Settling \in SUBSET Application
        /\ Source \in SUBSET (Invoice \cup Receipt \cup Credit)
        /\ Invoice \in SUBSET (Invoice \cup Receipt \cup Credit)
    OBVIOUS
  <2>. HIDE DEF from, to, Spending, Settling, Source
  <2>5. UsedOf(Source) = Total(Spending) /\ UsedOf(Invoice) = Total(Settling)
    BY <1>1, <2>1, <2>2, <2>3, <2>4, UsedTotal
  <2>6. /\ Total(Application) = Total(WrittenOff) + Total(Spending)
        /\ Total(Application) = Total(Refunded) + Total(Settling)
    BY <1>1, TotalSplits DEF WrittenOff, Refunded, Spending, Settling
  <2>7. \A S \in SUBSET Application : Total(S) \in Nat
    BY <1>1, TotalIsNat, AmountFacts DEF BalanceInv, Total
  <2>8. /\ WrittenOff \in SUBSET Application /\ Refunded \in SUBSET Application
        /\ Application \in SUBSET Application
    BY DEF WrittenOff, Refunded
  <2>9. /\ Total(WrittenOff) \in Nat /\ Total(Refunded) \in Nat
        /\ Total(Spending) \in Nat /\ Total(Settling) \in Nat
    BY <2>4, <2>7, <2>8
  <2>. QED  BY <2>5, <2>6, <2>9 DEF ReceivablesReconcile, Source
<1>2. Inv => ReceivablesReconcile
  BY <1>1 DEF Inv
<1>. QED  BY <1>2, ReceivablesKept, PTL
=============================================================================
