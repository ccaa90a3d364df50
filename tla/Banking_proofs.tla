--------------------------- MODULE Banking_proofs ---------------------------
(* For any journals, statements and people: what a live statement clears   *)
(* stands, the live statements form a chain whose balances are those of    *)
(* what they clear, a completion is of what was reviewed, and a journal is *)
(* answered once.                                                          *)
EXTENDS Banking, SumTheorems, TLAPS

USE JournalAssumption, EntryAssumption, CalendarAssumption, StatementAssumption

-----------------------------------------------------------------------------
(* Journals and their links *)

(* A link is between posted journals, and a reversal is of the opposite    *)
(* amount.                                                                 *)
LinksInv ==
  /\ \A l \in link : Posted(l.from) /\ Posted(l.to)
  /\ \A l \in link : l.kind \in ReversalKind =>
                       journal[l.to].amount = -journal[l.from].amount
  /\ \A k, l \in link : k.kind \in ReversalKind /\ l.kind \in ReversalKind
                          /\ (k.from = l.from \/ k.to = l.to) => k = l
  /\ \A k, l \in link : k.kind = "replacement" /\ l.kind = "replacement"
                          /\ k.from = l.from => k = l
  /\ \A l \in link : l.kind = "replacement" => Reversed(l.from)

(* What the journal commands share: a posted journal stays as it is.       *)
JournalsStay ==
  /\ \A j \in Journal : Posted(j) => journal'[j] = journal[j]
  /\ link \subseteq link'

LEMMA AdjustmentIsRow ==
  ASSUME NEW amount \in Int, NEW d \in Day
  PROVE  Adjustment(amount, d) \in JournalRow /\ Adjustment(amount, d) # NoJournal
BY DEF Adjustment, JournalRow, NoJournal, Day

LEMMA EntryIsRow ==
  ASSUME NEW entry \in Entry
  PROVE  /\ entry \in JournalRow /\ entry # NoJournal
         /\ Adjustment(entry.amount, entry.date) \in JournalRow
         /\ Adjustment(entry.amount, entry.date) # NoJournal
BY DEF Adjustment, JournalRow, NoJournal, Day

LEMMA AmountIsInt ==
  ASSUME JournalTypeOK, NEW j \in Journal
  PROVE  journal[j].amount \in Int /\ -journal[j].amount \in Int
BY DEF JournalTypeOK, JournalRow, NoJournal

LEMMA PostKeeps ==
  ASSUME JournalTypeOK, LinksInv, NEW j \in Journal, NEW entry \in Entry,
         PostJournal(j, entry)
  PROVE  JournalTypeOK' /\ LinksInv' /\ JournalsStay /\ link' = link
<1>1. /\ ~Posted(j) /\ UNCHANGED <<link, fiscal>>
      /\ journal' = [journal EXCEPT ![j] = entry]
  BY DEF PostJournal, Postable
<1>2. JournalTypeOK'
  BY <1>1, EntryIsRow DEF JournalTypeOK
<1>3. JournalsStay
  BY <1>1 DEF JournalsStay, JournalTypeOK
<1>4. \A i \in Journal : Posted(i) => Posted(i)'
  BY <1>3 DEF JournalsStay, Posted
<1>5. \A l \in link : l.from \in Journal /\ l.to \in Journal
  BY DEF JournalTypeOK, LinkRow
<1>6. \A o : Reversed(o)' <=> Reversed(o)
  BY <1>1 DEF Reversed, Reversals
<1>. QED  BY <1>1, <1>2, <1>3, <1>4, <1>5, <1>6 DEF LinksInv, JournalsStay

LEMMA ReverseKeeps ==
  ASSUME JournalTypeOK, LinksInv, NEW o \in Journal, NEW r \in Journal,
         NEW kind \in ReversalKind, NEW d \in Day, Reverse(o, r, kind, d)
  PROVE  /\ JournalTypeOK' /\ LinksInv' /\ JournalsStay
         /\ \A l \in link' \ link : l.from = o
<1> DEFINE row == Adjustment(-journal[o].amount, d)
           new == [from |-> o, to |-> r, kind |-> kind]
<1>1. /\ Posted(o) /\ ~Reversed(o) /\ ~Posted(r) /\ UNCHANGED fiscal
      /\ journal' = [journal EXCEPT ![r] = row]
      /\ link' = link \cup {new}
  BY DEF Reverse, Postable
<1>2. row \in JournalRow /\ row # NoJournal /\ row.amount = -journal[o].amount
  BY AmountIsInt, AdjustmentIsRow DEF Adjustment
<1>. HIDE DEF row
<1>3. new \in LinkRow
  BY DEF LinkRow, LinkKind
<1>4. JournalTypeOK'
  BY <1>1, <1>2, <1>3 DEF JournalTypeOK
<1>5. JournalsStay
  BY <1>1 DEF JournalsStay, JournalTypeOK
<1>6. /\ \A i \in Journal : Posted(i) => Posted(i)'
      /\ Posted(r)' /\ journal'[r] = row
  BY <1>1, <1>2, <1>5 DEF JournalsStay, Posted, JournalTypeOK
<1>7. \A l \in link : l.from \in Journal /\ l.to \in Journal /\ l.from # r /\ l.to # r
  BY <1>1 DEF LinksInv, JournalTypeOK, LinkRow
<1>8. \A l \in link : l.kind \in ReversalKind => l.from # o
  BY <1>1 DEF Reversed, Reversals
<1>9. \A i : Reversed(i) => Reversed(i)'
  BY <1>1 DEF Reversed, Reversals
<1>10. o # r /\ journal'[o] = journal[o]
  BY <1>1, <1>5 DEF JournalsStay
<1>11. kind # "replacement"
  BY DEF ReversalKind
<1>12. LinksInv'
  <2>1. \A l \in link' : Posted(l.from)' /\ Posted(l.to)'
    BY <1>1, <1>6, <1>7 DEF LinksInv
  <2>2. \A l \in link' : l.kind \in ReversalKind =>
                           journal'[l.to].amount = -journal'[l.from].amount
    BY <1>1, <1>2, <1>5, <1>6, <1>7, <1>10 DEF LinksInv, JournalsStay
  <2>3. \A k, l \in link' : k.kind \in ReversalKind /\ l.kind \in ReversalKind
                              /\ (k.from = l.from \/ k.to = l.to) => k = l
    BY <1>1, <1>7, <1>8 DEF LinksInv
  <2>4. \A k, l \in link' : k.kind = "replacement" /\ l.kind = "replacement"
                              /\ k.from = l.from => k = l
    BY <1>1, <1>11 DEF LinksInv
  <2>5. \A l \in link' : l.kind = "replacement" => Reversed(l.from)'
    BY <1>1, <1>9, <1>11 DEF LinksInv
  <2>. QED  BY <2>1, <2>2, <2>3, <2>4, <2>5 DEF LinksInv
<1>. QED  BY <1>1, <1>4, <1>5, <1>12

LEMMA CorrectKeeps ==
  ASSUME JournalTypeOK, LinksInv, NEW o \in Journal, NEW r \in Journal,
         NEW n \in Journal, NEW d \in Day, NEW entry \in Entry,
         Correct(o, r, n, d, entry)
  PROVE  /\ JournalTypeOK' /\ LinksInv' /\ JournalsStay
         /\ \A l \in link' \ link : l.from = o
<1> DEFINE reversal == Adjustment(-journal[o].amount, d)
           replacement == Adjustment(entry.amount, entry.date)
           answer == [from |-> o, to |-> r, kind |-> "reversal"]
           successor == [from |-> o, to |-> n, kind |-> "replacement"]
<1>1. /\ Posted(o) /\ r # n /\ Successors(o) = {} /\ UNCHANGED fiscal
      /\ \/ ~Reversed(o) /\ ~Posted(r)
         \/ answer \in link /\ journal[r] = reversal
      /\ ~Posted(n) \/ journal[n] = replacement
      /\ journal' = [journal EXCEPT ![r] = reversal, ![n] = replacement]
      /\ link' = link \cup {answer, successor}
  BY DEF Correct, FreshReversal, Postable
<1>2. /\ reversal \in JournalRow /\ reversal # NoJournal
      /\ reversal.amount = -journal[o].amount
      /\ replacement \in JournalRow /\ replacement # NoJournal
  BY AmountIsInt, AdjustmentIsRow, EntryIsRow DEF Adjustment
<1>. HIDE DEF reversal, replacement
<1>3. answer \in LinkRow /\ successor \in LinkRow
  BY DEF LinkRow, LinkKind, ReversalKind
<1>4. JournalTypeOK'
  BY <1>1, <1>2, <1>3 DEF JournalTypeOK
<1>5. JournalsStay
  BY <1>1 DEF JournalsStay, JournalTypeOK, Posted
<1>6. /\ \A i \in Journal : Posted(i) => Posted(i)'
      /\ Posted(r)' /\ journal'[r] = reversal /\ Posted(n)'
  BY <1>1, <1>2, <1>5 DEF JournalsStay, Posted, JournalTypeOK
<1>7. \A l \in link : l.from \in Journal /\ l.to \in Journal
  BY DEF JournalTypeOK, LinkRow
<1>8. \A l \in link : l.kind \in ReversalKind /\ (l.from = o \/ l.to = r) => l = answer
  <2>1. CASE ~Reversed(o) /\ ~Posted(r)
    BY <2>1 DEF LinksInv, Reversed, Reversals
  <2>2. CASE answer \in link
    BY <2>2 DEF LinksInv, ReversalKind
  <2>. QED  BY <1>1, <2>1, <2>2
<1>9. \A i : Reversed(i) => Reversed(i)'
  BY <1>1 DEF Reversed, Reversals
<1>10. Reversed(o)'
  BY <1>1 DEF Reversed, Reversals, ReversalKind
<1>11. \A l \in link : l.kind = "replacement" => l.from # o
  BY <1>1 DEF Successors
<1>12. journal'[o] = journal[o]
  BY <1>1, <1>5 DEF JournalsStay
<1>13. LinksInv'
  <2>1. \A l \in link' : Posted(l.from)' /\ Posted(l.to)'
    BY <1>1, <1>6, <1>7 DEF LinksInv
  <2>2. \A l \in link' : l.kind \in ReversalKind =>
                           journal'[l.to].amount = -journal'[l.from].amount
    <3>1. ASSUME NEW l \in link, l.kind \in ReversalKind
          PROVE  journal'[l.to].amount = -journal'[l.from].amount
      <4>1. journal'[l.to] = journal[l.to] /\ journal'[l.from] = journal[l.from]
        BY <1>5, <1>7 DEF LinksInv, JournalsStay
      <4>. QED  BY <3>1, <4>1 DEF LinksInv
    <3>2. journal'[answer.to].amount = -journal'[answer.from].amount
      BY <1>2, <1>6, <1>12
    <3>3. successor.kind \notin ReversalKind
      BY DEF ReversalKind
    <3>. QED  BY <1>1, <3>1, <3>2, <3>3
  <2>3. \A k, l \in link' : k.kind \in ReversalKind /\ l.kind \in ReversalKind
                              /\ (k.from = l.from \/ k.to = l.to) => k = l
    BY <1>1, <1>8 DEF LinksInv, ReversalKind
  <2>4. \A k, l \in link' : k.kind = "replacement" /\ l.kind = "replacement"
                              /\ k.from = l.from => k = l
    BY <1>1, <1>11 DEF LinksInv
  <2>5. \A l \in link' : l.kind = "replacement" => Reversed(l.from)'
    BY <1>1, <1>9, <1>10 DEF LinksInv
  <2>. QED  BY <2>1, <2>2, <2>3, <2>4, <2>5 DEF LinksInv
<1>. QED  BY <1>1, <1>4, <1>5, <1>13

-----------------------------------------------------------------------------
(* The three kinds of step, and what each leaves alone *)

(* A step of the journals: posted journals stay, and only journals that no *)
(* statement clears get new links.                                         *)
JournalsMove ==
  /\ JournalTypeOK' /\ LinksInv' /\ JournalsStay
  /\ \A l \in link' \ link : ~Cleared(l.from)
  /\ UNCHANGED statementVars

LEMMA JournalStepMoves ==
  ASSUME JournalTypeOK, LinksInv, JournalStep
  PROVE  JournalsMove
<1>1. ASSUME NEW j \in Journal, NEW entry \in Entry, PostJournal(j, entry)
      PROVE  JournalTypeOK' /\ LinksInv' /\ JournalsStay
             /\ \A l \in link' \ link : ~Cleared(l.from)
  BY <1>1, PostKeeps
<1>2. ASSUME NEW o \in Journal, NEW r \in Journal, NEW kind \in ReversalKind,
             NEW d \in Day, MayReverse(o), Reverse(o, r, kind, d)
      PROVE  JournalTypeOK' /\ LinksInv' /\ JournalsStay
             /\ \A l \in link' \ link : ~Cleared(l.from)
  <2>1. /\ JournalTypeOK' /\ LinksInv' /\ JournalsStay
        /\ \A l \in link' \ link : l.from = o
    BY <1>2, ReverseKeeps
  <2>. QED  BY <1>2, <2>1 DEF MayReverse
<1>3. ASSUME NEW o \in Journal, NEW r \in Journal, NEW n \in Journal,
             NEW d \in Day, NEW entry \in Entry, MayReverse(o), Correct(o, r, n, d, entry)
      PROVE  JournalTypeOK' /\ LinksInv' /\ JournalsStay
             /\ \A l \in link' \ link : ~Cleared(l.from)
  <2>1. /\ JournalTypeOK' /\ LinksInv' /\ JournalsStay
        /\ \A l \in link' \ link : l.from = o
    BY <1>3, CorrectKeeps
  <2>. QED  BY <1>3, <2>1 DEF MayReverse
<1>4. ASSUME NEW controls \in Calendar, ChangeFiscal(controls)
      PROVE  JournalTypeOK' /\ LinksInv' /\ JournalsStay
             /\ \A l \in link' \ link : ~Cleared(l.from)
  <2>1. UNCHANGED <<journal, link>> /\ fiscal' \in Calendar
    BY <1>4 DEF ChangeFiscal
  <2>2. \A i : (Posted(i)' <=> Posted(i)) /\ (Reversed(i)' <=> Reversed(i))
    BY <2>1 DEF Posted, Reversed, Reversals
  <2>. QED  BY <2>1, <2>2 DEF JournalTypeOK, LinksInv, JournalsStay
<1>5. UNCHANGED statementVars
  BY DEF JournalStep
<1>6. \/ \E j \in Journal, entry \in Entry : PostJournal(j, entry)
      \/ \E o, r \in Journal, kind \in ReversalKind, d \in Day :
           MayReverse(o) /\ Reverse(o, r, kind, d)
      \/ \E o, r, n \in Journal, d \in Day, entry \in Entry :
           MayReverse(o) /\ Correct(o, r, n, d, entry)
      \/ \E controls \in Calendar : ChangeFiscal(controls)
  BY DEF JournalStep
<1>7. /\ JournalTypeOK' /\ LinksInv' /\ JournalsStay
      /\ \A l \in link' \ link : ~Cleared(l.from)
  BY <1>1, <1>2, <1>3, <1>4, <1>6
<1>. QED  BY <1>5, <1>7 DEF JournalsMove

(* What the commands of a statement share: they change statement s alone,  *)
(* to a later version, and clear and release journals for s only.          *)
Touches(s) ==
  /\ statement'[s] \in StatementRow
  /\ statement'[s].version > statement[s].version
  /\ statement' = [statement EXCEPT ![s] = statement'[s]]
  /\ \A t \in Statement \ {s} : statement'[t] = statement[t]
  /\ clearing' \in [Journal -> Statement \cup {NoStatement}]
  /\ \A j \in Journal :
       \/ clearing'[j] = clearing[j]
       \/ clearing[j] = s /\ clearing'[j] = NoStatement
       \/ clearing[j] = NoStatement /\ clearing'[j] = s /\ Posted(j) /\ ~Reversed(j)
  /\ commands' \in 0..MaxCommands
  /\ UNCHANGED <<journalVars, review>>

Attributed(row) ==
  /\ row.status = "completed" <=> row.completedBy # NoActor
  /\ row.status = "completed" => row.completedBy # row.preparedBy

StatementMoves(s) ==
  /\ Touches(s)
  /\ Attributed(statement'[s])
  /\ statement[s].status = "completed" => fiscal[statement[s].date] = "open"
  /\ statement'[s].status = "completed" => statement[s].status = "draft" /\ Reviewed(s)
  /\ statement'[s].status # "none"

(* A statement that was never prepared has no version.                     *)
UnusedInv == \A s \in Statement : statement[s].status = "none" => statement[s].version = 0

LEMMA RecordCounts == ASSUME TypeOK, Record PROVE commands' \in 0..MaxCommands
BY DEF TypeOK, Record

LEMMA SelectTouches ==
  ASSUME TypeOK, NEW s \in Statement, NEW r \in StatementRow,
         NEW add \in SUBSET Journal, NEW remove \in SUBSET Journal,
         r.version > statement[s].version, Record, UNCHANGED <<journalVars, review>>,
         Select(s, r, add, remove)
  PROVE  Touches(s) /\ statement'[s] = r
<1>1. /\ statement' = [statement EXCEPT ![s] = r]
      /\ clearing' = [j \in Journal |->
                        IF j \in add THEN s
                        ELSE IF j \in remove THEN NoStatement ELSE clearing[j]]
      /\ \A j \in remove : clearing[j] = s
      /\ \A j \in add : Clearable(j, r.date)
  BY DEF Select, Selected
<1>2. \A j \in add : clearing[j] = NoStatement /\ Posted(j) /\ ~Reversed(j)
  BY <1>1 DEF Clearable, Cleared
<1>3. DOMAIN statement = Statement /\ clearing \in [Journal -> Statement \cup {NoStatement}]
  BY DEF TypeOK
<1>. QED  BY <1>1, <1>2, <1>3, RecordCounts DEF Touches

LEMMA PrepareNewMoves ==
  ASSUME TypeOK, UnusedInv, NEW s \in Statement, NEW d \in Day, NEW closing \in Closing,
         NEW a \in Actor, NEW add \in SUBSET Journal, PrepareNew(s, d, closing, a, add)
  PROVE  /\ StatementMoves(s)
         /\ \E prior \in Statement \cup {NoStatement} :
              /\ Latest(prior) /\ Follows(d, prior)
              /\ statement'[s] = Fresh(s, d, closing, a, prior)
<1>1. PICK prior \in Statement \cup {NoStatement} :
        /\ Latest(prior) /\ Follows(d, prior)
        /\ Select(s, Fresh(s, d, closing, a, prior), add, {})
  BY DEF PrepareNew
<1>2. Fresh(s, d, closing, a, prior) \in StatementRow
  <2>1. prior # NoStatement => statement[prior].closing \in Int
    BY DEF TypeOK, StatementRow
  <2>2. closing \in Int /\ d \in 0..LastDay
    BY DEF Day
  <2>. QED  BY <2>1, <2>2 DEF Fresh, StatementRow
<1>3. statement[s].status = "none" /\ statement[s].version = 0
  BY DEF PrepareNew, UnusedInv
<1>4. Touches(s) /\ statement'[s] = Fresh(s, d, closing, a, prior)
  <2>1. Fresh(s, d, closing, a, prior).version > statement[s].version
    BY <1>3 DEF Fresh
  <2>2. Record /\ UNCHANGED <<journalVars, review>>
    BY DEF PrepareNew
  <2>3. {} \in SUBSET Journal
    OBVIOUS
  <2>. QED  BY <1>1, <1>2, <2>1, <2>2, <2>3, SelectTouches
<1>5. Attributed(statement'[s]) /\ statement'[s].status = "draft"
  BY <1>4 DEF Fresh, Attributed
<1>. QED  BY <1>1, <1>3, <1>4, <1>5 DEF StatementMoves

(* What the changes of a row come to.                                      *)
Drafted(old, d, closing, a) ==
  [old EXCEPT !.date = d, !.closing = closing, !.preparedBy = a, !.version = @ + 1]
Moved(old, status, a) ==
  [old EXCEPT !.status = status, !.version = @ + 1, !.completedBy = a]
Cancelled(old) == [old EXCEPT !.status = "cancelled", !.version = @ + 1]

LEMMA DraftRow ==
  ASSUME NEW old \in StatementRow, NEW d \in 0..LastDay, NEW closing \in Int, NEW a \in Actor
  PROVE  LET row == Drafted(old, d, closing, a)
         IN  /\ row \in StatementRow /\ row.version > old.version
             /\ row.status = old.status /\ row.date = d /\ row.prior = old.prior
             /\ row.opening = old.opening /\ row.completedBy = old.completedBy
<1> DEFINE row == Drafted(old, d, closing, a)
<1>1. old.version \in Nat /\ old.version + 1 \in Nat
  BY DEF StatementRow
<1>2. row \in StatementRow
  BY <1>1 DEF StatementRow, Drafted
<1>3. /\ row.version = old.version + 1
      /\ row.status = old.status /\ row.date = d /\ row.prior = old.prior
      /\ row.opening = old.opening /\ row.completedBy = old.completedBy
  BY DEF StatementRow, Drafted
<1>. QED  BY <1>1, <1>2, <1>3

LEMMA CompletedRow ==
  ASSUME NEW old \in StatementRow, NEW a \in Actor \cup {NoActor},
         NEW status, status = "draft" \/ status = "completed"
  PROVE  LET row == Moved(old, status, a)
         IN  /\ row \in StatementRow /\ row.version > old.version
             /\ row.status = status /\ row.completedBy = a /\ row.preparedBy = old.preparedBy
             /\ row.date = old.date /\ row.closing = old.closing
             /\ row.opening = old.opening /\ row.prior = old.prior
<1> DEFINE row == Moved(old, status, a)
<1>1. old.version \in Nat /\ old.version + 1 \in Nat
  BY DEF StatementRow
<1>2. row \in StatementRow
  BY <1>1 DEF StatementRow, Moved
<1>3. /\ row.version = old.version + 1
      /\ row.status = status /\ row.completedBy = a /\ row.preparedBy = old.preparedBy
      /\ row.date = old.date /\ row.closing = old.closing
      /\ row.opening = old.opening /\ row.prior = old.prior
  BY DEF StatementRow, Moved
<1>. QED  BY <1>1, <1>2, <1>3

LEMMA CancelledRow ==
  ASSUME NEW old \in StatementRow
  PROVE  LET row == Cancelled(old)
         IN  /\ row \in StatementRow /\ row.version > old.version
             /\ row.status = "cancelled" /\ row.completedBy = old.completedBy
             /\ row.date = old.date /\ row.closing = old.closing
             /\ row.opening = old.opening /\ row.prior = old.prior
<1> DEFINE row == Cancelled(old)
<1>1. old.version \in Nat /\ old.version + 1 \in Nat
  BY DEF StatementRow
<1>2. row \in StatementRow
  BY <1>1 DEF StatementRow, Cancelled
<1>3. /\ row.version = old.version + 1
      /\ row.status = "cancelled" /\ row.completedBy = old.completedBy
      /\ row.date = old.date /\ row.closing = old.closing
      /\ row.opening = old.opening /\ row.prior = old.prior
  BY DEF StatementRow, Cancelled
<1>. QED  BY <1>1, <1>2, <1>3

LEMMA PrepareDraftMoves ==
  ASSUME TypeOK, NEW s \in Statement, NEW d \in Day, NEW closing \in Closing,
         NEW a \in Actor, NEW add \in SUBSET Journal, NEW remove \in SUBSET Journal,
         PrepareDraft(s, d, closing, a, add, remove)
  PROVE  /\ StatementMoves(s)
         /\ statement[s].status = "draft" /\ Follows(d, statement[s].prior)
         /\ statement'[s].status = "draft" /\ statement'[s].date = d
         /\ statement'[s].prior = statement[s].prior
         /\ statement'[s].opening = statement[s].opening
<1> DEFINE row == Drafted(statement[s], d, closing, a)
<1>1. /\ statement[s].status = "draft" /\ Follows(d, statement[s].prior)
      /\ Select(s, row, add, remove) /\ Record /\ UNCHANGED <<journalVars, review>>
  BY DEF PrepareDraft, Drafted
<1>2. statement[s] \in StatementRow
  BY DEF TypeOK
<1>3. /\ row \in StatementRow /\ row.version > statement[s].version
      /\ row.status = "draft" /\ row.date = d /\ row.prior = statement[s].prior
      /\ row.opening = statement[s].opening /\ row.completedBy = statement[s].completedBy
  <2>1. closing \in Int /\ d \in 0..LastDay
    BY DEF Day
  <2>2. /\ row \in StatementRow /\ row.version > statement[s].version
        /\ row.status = statement[s].status /\ row.date = d
        /\ row.prior = statement[s].prior /\ row.opening = statement[s].opening
        /\ row.completedBy = statement[s].completedBy
    BY <1>2, <2>1, DraftRow
  <2>. QED  BY <1>1, <2>2
<1>. HIDE DEF row
<1>4. Touches(s) /\ statement'[s] = row
  BY <1>1, <1>3, SelectTouches
<1>5. Attributed(row)
  BY <1>1, <1>3 DEF Attributed, TypeOK
<1>. QED  BY <1>1, <1>3, <1>4, <1>5 DEF StatementMoves

(* Complete, Reopen and Cancel keep everything but the status of a         *)
(* statement and who completed it.                                         *)
Transitions(s) ==
  /\ StatementMoves(s)
  /\ \A field \in {"date", "closing", "opening", "prior"} :
       statement'[s][field] = statement[s][field]

LEMMA TransitionTouches ==
  ASSUME TypeOK, NEW s \in Statement, NEW r \in StatementRow,
         r.version > statement[s].version, Record, UNCHANGED <<journalVars, review>>,
         statement' = [statement EXCEPT ![s] = r],
         \/ clearing' = clearing
         \/ clearing' = [j \in Journal |-> IF clearing[j] = s THEN NoStatement ELSE clearing[j]]
  PROVE  Touches(s) /\ statement'[s] = r
<1>1. DOMAIN statement = Statement /\ clearing \in [Journal -> Statement \cup {NoStatement}]
  BY DEF TypeOK
<1>. QED  BY <1>1, RecordCounts DEF Touches

LEMMA CompleteMoves ==
  ASSUME TypeOK, NEW s \in Statement, NEW a \in Actor, Complete(s, a)
  PROVE  Transitions(s) /\ statement[s].status = "draft" /\ statement'[s].status = "completed"
<1> DEFINE row == Moved(statement[s], "completed", a)
<1>1. /\ statement[s].status = "draft" /\ Reviewed(s) /\ a # statement[s].preparedBy
      /\ Record /\ UNCHANGED <<journalVars, review, clearing>>
      /\ statement' = [statement EXCEPT ![s] = row]
  BY DEF Complete, TypeOK, Moved
<1>2. statement[s] \in StatementRow
  BY DEF TypeOK
<1>3. /\ row \in StatementRow /\ row.version > statement[s].version
      /\ row.status = "completed" /\ row.completedBy = a
      /\ row.preparedBy = statement[s].preparedBy
      /\ row.date = statement[s].date /\ row.closing = statement[s].closing
      /\ row.opening = statement[s].opening /\ row.prior = statement[s].prior
  <2>1. a \in Actor \cup {NoActor}
    OBVIOUS
  <2>. QED  BY <1>2, <2>1, CompletedRow
<1>. HIDE DEF row
<1>4. Touches(s) /\ statement'[s] = row
  BY <1>1, <1>3, TransitionTouches
<1>5. Attributed(row)
  BY <1>1, <1>3 DEF Attributed
<1>. QED  BY <1>1, <1>3, <1>4, <1>5 DEF Transitions, StatementMoves

LEMMA ReopenMoves ==
  ASSUME TypeOK, NEW s \in Statement, NEW a \in Actor, Reopen(s, a)
  PROVE  /\ Transitions(s) /\ statement'[s].status = "draft"
         /\ statement[s].status = "completed"
         /\ Dependents(s) = {} /\ WithStatus("draft") = {}
<1> DEFINE row == Moved(statement[s], "draft", NoActor)
<1>1. /\ statement[s].status = "completed" /\ fiscal[statement[s].date] = "open"
      /\ Dependents(s) = {} /\ WithStatus("draft") = {}
      /\ Record /\ UNCHANGED <<journalVars, review, clearing>>
      /\ statement' = [statement EXCEPT ![s] = row]
  BY DEF Reopen, Reopened, TypeOK, StatementDateAllowed, Moved
<1>2. statement[s] \in StatementRow
  BY DEF TypeOK
<1>3. /\ row \in StatementRow /\ row.version > statement[s].version
      /\ row.status = "draft" /\ row.completedBy = NoActor
      /\ row.date = statement[s].date /\ row.closing = statement[s].closing
      /\ row.opening = statement[s].opening /\ row.prior = statement[s].prior
  <2>1. NoActor \in Actor \cup {NoActor}
    OBVIOUS
  <2>. QED  BY <1>2, <2>1, CompletedRow
<1>. HIDE DEF row
<1>4. Touches(s) /\ statement'[s] = row
  BY <1>1, <1>3, TransitionTouches
<1>5. Attributed(row)
  BY <1>3 DEF Attributed
<1>. QED  BY <1>1, <1>3, <1>4, <1>5 DEF Transitions, StatementMoves

LEMMA CancelMoves ==
  ASSUME TypeOK, NEW s \in Statement, Cancel(s)
  PROVE  /\ Transitions(s)
         /\ statement[s].status = "draft" /\ statement'[s].status = "cancelled"
<1> DEFINE row == Cancelled(statement[s])
<1>1. /\ statement[s].status = "draft"
      /\ Record /\ UNCHANGED <<journalVars, review>>
      /\ clearing' = [j \in Journal |-> IF clearing[j] = s THEN NoStatement ELSE clearing[j]]
      /\ statement' = [statement EXCEPT ![s] = row]
  BY DEF Cancel, TypeOK, Cancelled
<1>2. statement[s] \in StatementRow
  BY DEF TypeOK
<1>3. /\ row \in StatementRow /\ row.version > statement[s].version
      /\ row.status = "cancelled" /\ row.completedBy = statement[s].completedBy
      /\ row.date = statement[s].date /\ row.closing = statement[s].closing
      /\ row.opening = statement[s].opening /\ row.prior = statement[s].prior
  BY <1>2, CancelledRow
<1>. HIDE DEF row
<1>4. Touches(s) /\ statement'[s] = row
  BY <1>1, <1>3, TransitionTouches
<1>5. Attributed(row)
  BY <1>1, <1>3 DEF Attributed, TypeOK
<1>. QED  BY <1>1, <1>3, <1>4, <1>5 DEF Transitions, StatementMoves

-----------------------------------------------------------------------------
(* Every statement command but a reader's moves one statement.             *)
LEMMA StatementStepMoves ==
  ASSUME TypeOK, UnusedInv, StatementStep
  PROVE  \E s \in Statement : StatementMoves(s) \/ Review(s)
<1>1. ASSUME NEW s \in Statement, NEW d \in Day, NEW closing \in Closing, NEW a \in Actor,
             NEW add \in SUBSET Journal, NEW remove \in SUBSET Journal,
             PrepareNew(s, d, closing, a, add) \/ PrepareDraft(s, d, closing, a, add, remove)
      PROVE  StatementMoves(s)
  BY <1>1, PrepareNewMoves, PrepareDraftMoves
<1>2. ASSUME NEW s \in Statement, NEW a \in Actor, Complete(s, a) \/ Reopen(s, a)
      PROVE  StatementMoves(s)
  BY <1>2, CompleteMoves, ReopenMoves DEF Transitions
<1>3. ASSUME NEW s \in Statement, Cancel(s) PROVE StatementMoves(s)
  BY <1>3, CancelMoves DEF Transitions
<1>. QED  BY <1>1, <1>2, <1>3 DEF StatementStep

LEMMA MovesKeepTypes ==
  ASSUME TypeOK, UnusedInv, NEW s \in Statement, StatementMoves(s)
  PROVE  TypeOK' /\ UnusedInv'
<1>1. Touches(s) /\ Attributed(statement'[s]) /\ statement'[s].status # "none"
  BY DEF StatementMoves
<1>2. JournalTypeOK'
  BY <1>1 DEF Touches, TypeOK, JournalTypeOK, journalVars
<1>3. statement' \in [Statement -> StatementRow]
  BY <1>1 DEF Touches, TypeOK
<1>4. \A t \in Statement : Attributed(statement'[t])
  BY <1>1 DEF Touches, TypeOK, Attributed
<1>5. UnusedInv'
  BY <1>1 DEF Touches, UnusedInv
<1>. QED  BY <1>1, <1>2, <1>3, <1>4, <1>5 DEF Touches, TypeOK, Attributed

-----------------------------------------------------------------------------
(* The reader of a statement *)

(* What a reader saw is still so as long as the version is the same.       *)
ReviewInv ==
  /\ review \in [statement : Statement \cup {NoStatement}, version : Nat,
                 closing : Int, selected : SUBSET Journal]
  /\ \A s \in Statement :
       review.statement = s =>
         /\ review.version <= statement[s].version
         /\ statement[s].status = "draft" /\ review.version = statement[s].version
              => review.closing = statement[s].closing /\ review.selected = Selected(s)

LEMMA MovesKeepReview ==
  ASSUME TypeOK, ReviewInv, NEW s \in Statement, StatementMoves(s)
  PROVE  ReviewInv'
<1>1. Touches(s)
  BY DEF StatementMoves
<1>2. review' = review
  BY <1>1 DEF Touches
<1>3. ASSUME NEW t \in Statement, review.statement = t, t = s
      PROVE  review.version < statement'[t].version
  <2>1. review.version \in Nat /\ statement[s].version \in Nat /\ statement'[s].version \in Nat
    BY <1>1 DEF ReviewInv, TypeOK, StatementRow, Touches
  <2>2. review.version <= statement[s].version /\ statement'[s].version > statement[s].version
    BY <1>1, <1>3 DEF ReviewInv, Touches
  <2>. QED  BY <1>3, <2>1, <2>2
<1>4. ASSUME NEW t \in Statement, t # s
      PROVE  statement'[t] = statement[t] /\ Selected(t)' = Selected(t)
  <2>1. \A j \in Journal : clearing'[j] = t <=> clearing[j] = t
    BY <1>1, <1>4 DEF Touches
  <2>. QED  BY <1>1, <1>4, <2>1 DEF Touches, Selected
<1>5. ASSUME NEW t \in Statement, review.statement = t
      PROVE  /\ review.version <= statement'[t].version
             /\ statement'[t].status = "draft" /\ review.version = statement'[t].version
                  => review.closing = statement'[t].closing /\ review.selected = Selected(t)'
  <2>1. CASE t = s
    <3>1. review.version \in Nat /\ statement'[s].version \in Nat
      BY <1>1 DEF ReviewInv, StatementRow, Touches
    <3>. QED  BY <1>3, <1>5, <2>1, <3>1
  <2>2. CASE t # s
    BY <1>4, <1>5, <2>2 DEF ReviewInv
  <2>. QED  BY <2>1, <2>2
<1>. QED  BY <1>2, <1>5 DEF ReviewInv

LEMMA ReviewKeepsReview ==
  ASSUME TypeOK, NEW s \in Statement, Review(s)
  PROVE  ReviewInv' /\ UNCHANGED <<journalVars, statement, clearing, commands>>
<1>1. /\ review' = [statement |-> s, version |-> statement[s].version,
                    closing |-> statement[s].closing, selected |-> Selected(s)]
      /\ UNCHANGED <<journalVars, statement, clearing, commands>>
  BY DEF Review
<1>2. /\ statement[s].version \in Nat /\ statement[s].closing \in Int
      /\ Selected(s) \in SUBSET Journal /\ Selected(s)' = Selected(s)
  BY <1>1 DEF TypeOK, StatementRow, Selected
<1>. QED  BY <1>1, <1>2 DEF ReviewInv

-----------------------------------------------------------------------------
(* The chain of statements *)

LEMMA MoveKeepsOthers ==
  ASSUME TypeOK, NEW s \in Statement, StatementMoves(s)
  PROVE  \A t \in Statement : t # s => statement'[t] = statement[t]
BY DEF StatementMoves, Touches

(* A statement command keeps the chain if its statement is no live one's   *)
(* prior, has a fit prior itself, and is the only live one to have it.     *)
LEMMA ChainKept ==
  ASSUME TypeOK, StatementsChain, NEW s \in Statement, StatementMoves(s),
         \A t \in Live : statement[t].prior # s,
         statement'[s].status = "draft" => \A t \in WithStatus("draft") : t = s,
         statement'[s].status \in {"draft", "completed"} =>
           /\ statement'[s].prior # s
           /\ IF statement'[s].prior = NoStatement
              THEN statement'[s].opening = 0
              ELSE /\ statement[statement'[s].prior].status = "completed"
                   /\ statement[statement'[s].prior].date < statement'[s].date
                   /\ statement[statement'[s].prior].closing = statement'[s].opening
           /\ \A t \in Live : statement[t].prior = statement'[s].prior => t = s
  PROVE  StatementsChain'
<1>1. \A t \in Statement : t # s => statement'[t] = statement[t]
  BY MoveKeepsOthers
<1>2. \A t \in Statement : statement'[t].prior \in Statement \cup {NoStatement}
  BY <1>1 DEF TypeOK, StatementRow, StatementMoves, Touches
<1>3. /\ \A t \in Live' : t \in Statement /\ (t # s => t \in Live)
      /\ s \in Live' => statement'[s].status \in {"draft", "completed"}
      /\ \A t \in WithStatus("draft")' :
           t \in Statement /\ statement'[t].status = "draft" /\ (t # s => t \in WithStatus("draft"))
  BY <1>1 DEF Live, WithStatus
<1>4. \A t, u \in WithStatus("draft")' : t = u
  BY <1>3 DEF StatementsChain
<1>5. ASSUME NEW t \in Live'
      PROVE  IF statement'[t].prior = NoStatement
             THEN statement'[t].opening = 0
             ELSE LET p == statement'[statement'[t].prior] IN
                  /\ p.status = "completed" /\ p.date < statement'[t].date
                  /\ p.closing = statement'[t].opening
  <2>1. CASE t = s
    BY <1>1, <1>2, <1>3, <2>1
  <2>2. CASE t # s
    <3>1. t \in Live /\ statement'[t] = statement[t] /\ statement[t].prior # s
      BY <1>1, <1>3, <2>2
    <3>2. statement[t].prior # NoStatement
            => statement'[statement[t].prior] = statement[statement[t].prior]
      BY <1>1, <1>2, <1>3, <3>1
    <3>. QED  BY <3>1, <3>2 DEF StatementsChain
  <2>. QED  BY <2>1, <2>2
<1>6. ASSUME NEW t \in Live', NEW u \in Live', statement'[t].prior = statement'[u].prior
      PROVE  t = u
  BY <1>1, <1>3, <1>6 DEF StatementsChain
<1>. QED  BY <1>4, <1>5, <1>6 DEF StatementsChain

(* A statement that is not completed is nobody's prior.                    *)
LEMMA OnlyCompletedPrior ==
  ASSUME StatementsChain, NEW s \in Statement, statement[s].status # "completed"
  PROVE  \A t \in Live : statement[t].prior # s
BY DEF StatementsChain

LEMMA ChainStep ==
  ASSUME TypeOK, UnusedInv, StatementsChain, StatementStep
  PROVE  StatementsChain'
<1>1. ASSUME NEW s \in Statement, NEW d \in Day, NEW closing \in Closing, NEW a \in Actor,
             NEW add \in SUBSET Journal, PrepareNew(s, d, closing, a, add)
      PROVE  StatementsChain'
  <2>1. PICK prior \in Statement \cup {NoStatement} :
          /\ Latest(prior) /\ Follows(d, prior)
          /\ statement'[s] = Fresh(s, d, closing, a, prior)
    BY <1>1, PrepareNewMoves
  <2>2. StatementMoves(s) /\ statement[s].status = "none" /\ WithStatus("draft") = {}
    BY <1>1, PrepareNewMoves DEF PrepareNew
  <2>3. \A t \in Live : statement[t].prior # s
    BY <2>2, OnlyCompletedPrior
  <2>4. /\ statement'[s].prior = prior /\ statement'[s].date = d
        /\ statement'[s].opening = IF prior = NoStatement THEN 0 ELSE statement[prior].closing
    BY <2>1 DEF Fresh
  <2>5. prior # NoStatement => IsLast(prior, WithStatus("completed"))
    BY <2>1 DEF Latest
  <2>6. prior # NoStatement => statement[prior].status = "completed" /\ prior # s
    BY <2>2, <2>5 DEF IsLast, WithStatus
  <2>7. prior # s
    BY <2>6
  <2>8. ASSUME NEW t \in Live, statement[t].prior = prior
        PROVE  FALSE
    <3>1. t \in WithStatus("completed")
      BY <2>2 DEF Live
    <3>2. CASE prior = NoStatement
      <4>1. WithStatus("completed") = {}
        BY <2>1, <3>2 DEF Latest, IsLast, WithStatus
      <4>. QED  BY <3>1, <4>1
    <3>3. CASE prior # NoStatement
      <4>1. statement[prior].date < statement[t].date
        BY <2>8, <3>3 DEF StatementsChain
      <4>2. statement[t].date <= statement[prior].date
        BY <2>5, <3>1, <3>3 DEF IsLast
      <4>3. statement[t].date \in Int /\ statement[prior].date \in Int
        BY <3>1, <3>3 DEF TypeOK, StatementRow, WithStatus
      <4>. QED  BY <4>1, <4>2, <4>3
    <3>. QED  BY <3>2, <3>3
  <2>9. prior # NoStatement => statement[prior].date < d
    BY <2>1 DEF Follows
  <2>. QED  BY <2>2, <2>3, <2>4, <2>6, <2>7, <2>8, <2>9, ChainKept
<1>2. ASSUME NEW s \in Statement, NEW d \in Day, NEW closing \in Closing, NEW a \in Actor,
             NEW add \in SUBSET Journal, NEW remove \in SUBSET Journal,
             PrepareDraft(s, d, closing, a, add, remove)
      PROVE  StatementsChain'
  <2>1. /\ StatementMoves(s)
        /\ statement[s].status = "draft" /\ Follows(d, statement[s].prior)
        /\ statement'[s].status = "draft" /\ statement'[s].date = d
        /\ statement'[s].prior = statement[s].prior
        /\ statement'[s].opening = statement[s].opening
    BY <1>2, PrepareDraftMoves
  <2>2. s \in Live /\ s \in WithStatus("draft")
    BY <2>1 DEF Live, WithStatus
  <2>3. \A t \in Live : statement[t].prior # s
    BY <2>1, OnlyCompletedPrior
  <2>4. \A t \in WithStatus("draft") : t = s
    BY <2>2 DEF StatementsChain
  <2>5. IF statement[s].prior = NoStatement
        THEN statement[s].opening = 0
        ELSE /\ statement[statement[s].prior].status = "completed"
             /\ statement[statement[s].prior].closing = statement[s].opening
    BY <2>2 DEF StatementsChain
  <2>6. \A t \in Live : statement[t].prior = statement[s].prior => t = s
    BY <2>2 DEF StatementsChain
  <2>7. statement[s].prior # NoStatement => statement[statement[s].prior].date < d
    BY <2>1 DEF Follows
  <2>. QED  BY <2>1, <2>2, <2>3, <2>4, <2>5, <2>6, <2>7, ChainKept
<1>3. ASSUME NEW s \in Statement, Transitions(s), s \in Live,
             \A t \in Live : statement[t].prior # s,
             statement'[s].status = "draft" => \A t \in WithStatus("draft") : t = s
      PROVE  StatementsChain'
  <2>1. /\ StatementMoves(s)
        /\ statement'[s].date = statement[s].date /\ statement'[s].prior = statement[s].prior
        /\ statement'[s].opening = statement[s].opening
    BY <1>3 DEF Transitions
  <2>2. IF statement[s].prior = NoStatement
        THEN statement[s].opening = 0
        ELSE /\ statement[statement[s].prior].status = "completed"
             /\ statement[statement[s].prior].date < statement[s].date
             /\ statement[statement[s].prior].closing = statement[s].opening
    BY <1>3 DEF StatementsChain
  <2>3. \A t \in Live : statement[t].prior = statement[s].prior => t = s
    BY <1>3 DEF StatementsChain
  <2>4. statement[s].prior # s
    BY <1>3
  <2>. QED  BY <1>3, <2>1, <2>2, <2>3, <2>4, ChainKept
<1>4. ASSUME NEW s \in Statement, NEW a \in Actor, Complete(s, a) PROVE StatementsChain'
  <2>1. Transitions(s) /\ statement[s].status = "draft" /\ statement'[s].status = "completed"
    BY <1>4, CompleteMoves
  <2>. QED  BY <1>3, <2>1, OnlyCompletedPrior DEF Live, WithStatus
<1>5. ASSUME NEW s \in Statement, NEW a \in Actor, Reopen(s, a) PROVE StatementsChain'
  <2>1. /\ Transitions(s) /\ statement'[s].status = "draft"
        /\ statement[s].status = "completed"
        /\ Dependents(s) = {} /\ WithStatus("draft") = {}
    BY <1>5, ReopenMoves
  <2>2. \A t \in Live : statement[t].prior # s
    BY <2>1 DEF Dependents, Live
  <2>3. s \in Live
    BY <2>1 DEF Live, WithStatus
  <2>. QED  BY <1>3, <2>1, <2>2, <2>3
<1>6. ASSUME NEW s \in Statement, Cancel(s) PROVE StatementsChain'
  <2>1. Transitions(s) /\ statement[s].status = "draft" /\ statement'[s].status = "cancelled"
    BY <1>6, CancelMoves
  <2>. QED  BY <1>3, <2>1, OnlyCompletedPrior DEF Live, WithStatus
<1>7. ASSUME NEW s \in Statement, Review(s) PROVE StatementsChain'
  <2>1. statement' = statement
    BY <1>7 DEF Review
  <2>. QED  BY <2>1 DEF StatementsChain, Live, WithStatus
<1>. QED  BY <1>1, <1>2, <1>4, <1>5, <1>6, <1>7 DEF StatementStep

-----------------------------------------------------------------------------
(* Everything together *)

BankingInv ==
  /\ TypeOK /\ UnusedInv /\ LinksInv /\ ReviewInv
  /\ ClearedFactsStand /\ StatementsChain

LEMMA BankingInit == Init => BankingInv
<1>. SUFFICES ASSUME Init PROVE BankingInv
  OBVIOUS
<1>. USE DEF Init, JournalInit
<1>1. NoStatementRow \in StatementRow
  BY DEF NoStatementRow, StatementRow
<1>2. TypeOK
  <2>1. JournalTypeOK
    BY DEF JournalTypeOK
  <2>2. statement \in [Statement -> StatementRow]
    BY <1>1
  <2>. QED  BY <2>1, <2>2 DEF TypeOK, NoStatementRow
<1>3. UnusedInv
  BY DEF UnusedInv, NoStatementRow
<1>4. LinksInv
  BY DEF LinksInv
<1>5. ReviewInv
  BY DEF ReviewInv, NoReview
<1>6. ClearedFactsStand
  BY DEF ClearedFactsStand, Cleared
<1>7. StatementsChain
  BY DEF StatementsChain, Live, WithStatus, NoStatementRow
<1>. QED  BY <1>2, <1>3, <1>4, <1>5, <1>6, <1>7 DEF BankingInv

LEMMA JournalsMoveKeeps ==
  ASSUME BankingInv, JournalsMove
  PROVE  BankingInv'
<1>1. TypeOK' /\ UnusedInv' /\ LinksInv' /\ ReviewInv' /\ StatementsChain'
  BY DEF BankingInv, JournalsMove, statementVars, TypeOK, UnusedInv, ReviewInv,
         Selected, StatementsChain, Live, WithStatus
<1>2. ASSUME NEW j \in Journal, Cleared(j)' PROVE Posted(j)' /\ ~Reversed(j)'
  <2>1. Cleared(j) /\ Posted(j) /\ ~Reversed(j)
    BY <1>2 DEF BankingInv, ClearedFactsStand, JournalsMove, statementVars, Cleared
  <2>2. Posted(j)'
    BY <2>1 DEF JournalsMove, JournalsStay, Posted
  <2>3. \A l \in link' : l.from = j /\ l.kind \in ReversalKind => l \in link
    BY <2>1 DEF JournalsMove
  <2>. QED  BY <2>1, <2>2, <2>3 DEF Reversed, Reversals
<1>. QED  BY <1>1, <1>2 DEF BankingInv, ClearedFactsStand

LEMMA StatementMovesKeep ==
  ASSUME BankingInv, StatementStep, NEW s \in Statement, StatementMoves(s)
  PROVE  BankingInv'
<1>1. TypeOK' /\ UnusedInv' /\ ReviewInv' /\ StatementsChain'
  BY MovesKeepTypes, MovesKeepReview, ChainStep DEF BankingInv
<1>2. UNCHANGED <<journal, link>>
  BY DEF StatementMoves, Touches, journalVars
<1>3. /\ LinksInv'
      /\ \A j \in Journal : (Posted(j)' <=> Posted(j)) /\ (Reversed(j)' <=> Reversed(j))
  BY <1>2 DEF BankingInv, LinksInv, Posted, Reversed, Reversals
<1>4. ClearedFactsStand'
  BY <1>3 DEF BankingInv, ClearedFactsStand, Cleared, StatementMoves, Touches
<1>. QED  BY <1>1, <1>3, <1>4 DEF BankingInv

LEMMA ReviewKeeps ==
  ASSUME BankingInv, NEW s \in Statement, Review(s)
  PROVE  BankingInv'
<1>1. ReviewInv' /\ UNCHANGED <<journal, link, fiscal, statement, clearing, commands>>
  BY ReviewKeepsReview DEF BankingInv, journalVars
<1>. QED
  BY <1>1 DEF BankingInv, TypeOK, JournalTypeOK, UnusedInv, LinksInv, ClearedFactsStand,
              StatementsChain, Live, WithStatus, Posted, Reversed, Reversals, Cleared

LEMMA UnchangedKeeps == ASSUME BankingInv, UNCHANGED vars PROVE BankingInv'
BY DEF vars, journalVars, statementVars, BankingInv, TypeOK, JournalTypeOK, UnusedInv,
       LinksInv, ReviewInv, Selected, ClearedFactsStand, StatementsChain, Live, WithStatus,
       Posted, Reversed, Reversals, Cleared

LEMMA BankingInvariant == Spec => []BankingInv
<1>1. BankingInv /\ [Next]_vars => BankingInv'
  <2>. SUFFICES ASSUME BankingInv, [Next]_vars PROVE BankingInv'
    OBVIOUS
  <2>1. CASE JournalStep
    BY <2>1, JournalStepMoves, JournalsMoveKeeps DEF BankingInv, TypeOK
  <2>2. CASE StatementStep
    BY <2>2, StatementStepMoves, StatementMovesKeep, ReviewKeeps DEF BankingInv
  <2>3. CASE UNCHANGED vars
    BY <2>3, UnchangedKeeps
  <2>. QED  BY <2>1, <2>2, <2>3 DEF Next
<1>. QED  BY <1>1, BankingInit, PTL DEF Spec

(* The tables are well formed, and a completed statement names a person    *)
(* other than its preparer (bank_statements).                              *)
THEOREM BankingTypeCorrect == Spec => []TypeOK
<1>1. BankingInv => TypeOK
  BY DEF BankingInv
<1>. QED  BY <1>1, BankingInvariant, PTL

(* A cleared journal is posted and not reversed, in whatever order         *)
(* statements are prepared and journals reversed, voided and corrected     *)
(* (the clearing trigger and guard_statement_cleared_fact).                *)
THEOREM BankingClearedFactsStand == Spec => []ClearedFactsStand
<1>1. BankingInv => ClearedFactsStand
  BY DEF BankingInv
<1>. QED  BY <1>1, BankingInvariant, PTL

(* The live statements are one chain of dates and balances                 *)
(* (prepare, transition and the evidence trigger).                         *)
THEOREM BankingStatementsChain == Spec => []StatementsChain
<1>1. BankingInv => StatementsChain
  BY DEF BankingInv
<1>. QED  BY <1>1, BankingInvariant, PTL

LEMMA AtMostOneElement ==
  ASSUME NEW S, \A k, l \in S : k = l
  PROVE  Cardinality(S) <= 1
<1>1. CASE S = {}
  BY <1>1, FS_EmptySet
<1>2. ASSUME NEW k \in S PROVE Cardinality(S) <= 1
  <2>1. S = {k}
    OBVIOUS
  <2>2. Cardinality({k}) = 1
    BY FS_Singleton
  <2>. QED  BY <2>1, <2>2
<1>. QED  BY <1>1, <1>2

(* A journal has one reversal of the opposite amount, which answers no     *)
(* other, and one replacement, and the latter only with the former         *)
(* (runJournalLifecycleWorkflow).                                          *)
THEOREM JournalsAnsweredOnce == Spec => []AnsweredOnce
<1>1. BankingInv => AnsweredOnce
  <2>. SUFFICES ASSUME BankingInv, NEW o \in Journal
       PROVE  /\ Cardinality(Reversals(o)) <= 1 /\ Cardinality(Successors(o)) <= 1
              /\ Successors(o) # {} => Reversed(o)
              /\ \A l \in Reversals(o) :
                   /\ journal[l.to].amount = -journal[o].amount
                   /\ \A k \in link : k.to = l.to /\ k.kind \in ReversalKind => k = l
    BY DEF AnsweredOnce
  <2>1. \A k, l \in Reversals(o) : k = l
    BY DEF BankingInv, LinksInv, Reversals
  <2>2. \A k, l \in Successors(o) : k = l
    BY DEF BankingInv, LinksInv, Successors
  <2>3. Cardinality(Reversals(o)) <= 1 /\ Cardinality(Successors(o)) <= 1
    BY <2>1, <2>2, AtMostOneElement
  <2>4. Successors(o) # {} => Reversed(o)
    BY DEF BankingInv, LinksInv, Successors
  <2>5. ASSUME NEW l \in Reversals(o)
        PROVE  /\ journal[l.to].amount = -journal[o].amount
               /\ \A k \in link : k.to = l.to /\ k.kind \in ReversalKind => k = l
    BY DEF BankingInv, LinksInv, Reversals
  <2>. QED  BY <2>3, <2>4, <2>5
<1>. QED  BY <1>1, BankingInvariant, PTL

(* A completion is of the postings and the balance its actor had read,     *)
(* however many commands came in between (transition).                     *)
THEOREM BankingCompletedAsReviewed == Spec => CompletedAsReviewed
<1>1. ASSUME BankingInv, [Next]_vars, NEW s \in WithStatus("draft"),
             statement'[s].status = "completed"
      PROVE  review = [statement |-> s, closing |-> statement[s].closing,
                       version |-> statement[s].version, selected |-> Selected(s)]
  <2>1. s \in Statement /\ statement[s].status = "draft"
    BY DEF WithStatus
  <2>2. Reviewed(s)
    <3>1. ~JournalStep /\ ~UNCHANGED vars
      BY <1>1, <2>1 DEF JournalStep, vars, statementVars
    <3>2. PICK t \in Statement : StatementMoves(t) \/ Review(t)
      BY <1>1, <3>1, StatementStepMoves DEF Next, BankingInv
    <3>3. StatementMoves(t) /\ t = s
      BY <1>1, <2>1, <3>2 DEF Review, StatementMoves, Touches
    <3>. QED  BY <1>1, <3>3 DEF StatementMoves
  <2>3. /\ review.statement = s /\ review.version = statement[s].version
        /\ review.closing = statement[s].closing /\ review.selected = Selected(s)
    BY <1>1, <2>1, <2>2 DEF Reviewed, BankingInv, ReviewInv
  <2>4. review \in [statement : Statement \cup {NoStatement}, version : Nat,
                    closing : Int, selected : SUBSET Journal]
    BY <1>1 DEF BankingInv, ReviewInv
  <2>. QED  BY <2>3, <2>4
<1>2. BankingInv /\ [Next]_vars =>
        [\A s \in WithStatus("draft") :
           statement'[s].status = "completed" =>
             review = [statement |-> s, closing |-> statement[s].closing,
                       version |-> statement[s].version, selected |-> Selected(s)]]_vars
  BY <1>1
<1>. QED  BY <1>2, BankingInvariant, PTL DEF Spec, CompletedAsReviewed

(* What is completed in a period that is no longer open is neither         *)
(* reopened nor changed (guard_bank_statement_write).                      *)
THEOREM BankingClosedStatementsStay == Spec => ClosedStatementsStay
<1>1. ASSUME BankingInv, [Next]_vars, NEW s \in WithStatus("completed"),
             fiscal[statement[s].date] # "open"
      PROVE  statement'[s] = statement[s] /\ Selected(s)' = Selected(s)
  <2>1. s \in Statement /\ statement[s].status = "completed"
    BY DEF WithStatus
  <2>2. CASE UNCHANGED <<statement, clearing>>
    BY <2>2 DEF Selected
  <2>3. CASE \E t \in Statement : StatementMoves(t)
    <3>1. PICK t \in Statement : StatementMoves(t)
      BY <2>3
    <3>2. t # s
      BY <1>1, <2>1, <3>1 DEF StatementMoves
    <3>3. \A j \in Journal : clearing'[j] = s <=> clearing[j] = s
      BY <2>1, <3>1, <3>2 DEF StatementMoves, Touches
    <3>. QED  BY <2>1, <3>1, <3>2, <3>3 DEF StatementMoves, Touches, Selected
  <2>4. \/ UNCHANGED <<statement, clearing>>
        \/ \E t \in Statement : StatementMoves(t)
    <3>1. CASE JournalStep \/ UNCHANGED vars
      BY <3>1 DEF JournalStep, vars, statementVars
    <3>2. CASE StatementStep
      BY <1>1, <3>2, StatementStepMoves DEF Review, BankingInv
    <3>. QED  BY <1>1, <3>1, <3>2 DEF Next
  <2>. QED  BY <2>2, <2>3, <2>4
<1>2. BankingInv /\ [Next]_vars =>
        [\A s \in WithStatus("completed") :
           fiscal[statement[s].date] # "open" =>
             statement'[s] = statement[s] /\ Selected(s)' = Selected(s)]_vars
  BY <1>1
<1>. QED  BY <1>2, BankingInvariant, PTL DEF Spec, ClosedStatementsStay
-----------------------------------------------------------------------------
(* What is cleared up to a completed statement *)

Completed == WithStatus("completed")

(* The dates of the completed statements agree with their chain: they      *)
(* differ, each statement but the last is the start of another one, each   *)
(* starts at the latest before it, and a draft at the latest of all.       *)
DatesInv ==
  /\ \A s, t \in Completed : statement[s].date = statement[t].date => s = t
  /\ \A s \in Completed :
       IsLast(s, Completed) \/ \E u \in Completed : statement[u].prior = s
  /\ \A s, t \in Completed :
       statement[t].date < statement[s].date =>
         /\ statement[s].prior # NoStatement
         /\ statement[t].date <= statement[statement[s].prior].date
  /\ \A s \in WithStatus("draft") : Latest(statement[s].prior)

ClosingInv == DatesInv /\ ClosingIsCleared

(* The balance of journals, with the rows it is read from as an argument.  *)
Total(rows, S) == SumFunctionOnSet([j \in S |-> rows[j].amount], S)

LEMMA BalanceIsTotal == ASSUME NEW S PROVE Balance(S) = Total(journal, S)
BY DEF Balance, Total

LEMMA TotalType ==
  ASSUME NEW rows, NEW S \in SUBSET Journal, \A j \in S : rows[j].amount \in Int
  PROVE  Total(rows, S) \in Int
<1> DEFINE f == [j \in S |-> rows[j].amount]
<1>1. IsFiniteSet(S) /\ \A j \in S : f[j] \in Int
  BY FS_Subset
<1>2. SumFunctionOnSet(f, S) \in Int
  <2>. HIDE DEF f
  <2>. QED  BY <1>1, SumType
<1>. QED  BY <1>2 DEF Total

(* Only the amounts of the journals themselves matter.                     *)
LEMMA TotalSame ==
  ASSUME NEW rows, NEW other, NEW S \in SUBSET Journal,
         \A j \in S : rows[j].amount = other[j].amount
  PROVE  Total(rows, S) = Total(other, S)
BY DEF Total

(* Journals apart from each other add up.                                  *)
LEMMA TotalJoins ==
  ASSUME NEW rows, NEW S \in SUBSET Journal, NEW T \in SUBSET Journal,
         S \cap T = {}, \A j \in S \cup T : rows[j].amount \in Int
  PROVE  Total(rows, S \cup T) = Total(rows, S) + Total(rows, T)
<1> DEFINE U == S \cup T
           all == [j \in U |-> rows[j].amount]
           left == [j \in S |-> rows[j].amount]
           right == [j \in T |-> rows[j].amount]
<1>1. IsFiniteSet(U) /\ IsFiniteSet(S) /\ IsFiniteSet(T)
  BY FS_Subset
<1>2. S \in SUBSET U /\ U \ S = T
  OBVIOUS
<1>3. /\ \A j \in U : all[j] \in Int
      /\ \A j \in S : all[j] = left[j]
      /\ \A j \in T : all[j] = right[j]
  OBVIOUS
<1>. HIDE DEF U, all, left, right
<1>4. SumFunctionOnSet(all, U) = SumFunctionOnSet(all, S) + SumFunctionOnSet(all, T)
  BY <1>1, <1>2, <1>3, SumParts
<1>5. /\ SumFunctionOnSet(all, S) = SumFunctionOnSet(left, S)
      /\ SumFunctionOnSet(all, T) = SumFunctionOnSet(right, T)
  BY <1>1, <1>3, SumSame
<1>. QED  BY <1>4, <1>5 DEF Total, U, all, left, right

LEMMA DatesAreInts ==
  ASSUME TypeOK
  PROVE  \A s \in Statement : statement[s].date \in Int
BY DEF TypeOK, StatementRow

(* A step that leaves the completed statements and what they clear alone   *)
(* keeps their dates and their balances, when each draft starts at the     *)
(* latest of them.                                                         *)
LEMMA CompletedStay ==
  ASSUME TypeOK, StatementsChain, ClosingInv,
         WithStatus("completed")' = WithStatus("completed"),
         \A t \in Completed : statement'[t] = statement[t] /\ Selected(t)' = Selected(t),
         \A t \in Completed : \A j \in Selected(t) : journal'[j].amount = journal[j].amount,
         \A s \in WithStatus("draft")' :
           statement'[s].prior \in Statement \cup {NoStatement} /\ Latest(statement'[s].prior)
  PROVE  ClosingInv'
<1>1. \A t \in Completed : t \in Statement /\ t \in Live
  BY DEF Completed, WithStatus, Live
<1>2. \A s \in Completed : statement[s].prior # NoStatement => statement[s].prior \in Completed
  <2>1. ASSUME NEW s \in Completed, statement[s].prior # NoStatement
        PROVE  statement[s].prior \in Completed
    <3>1. statement[s].prior \in Statement
      BY <1>1, <2>1 DEF TypeOK, StatementRow
    <3>2. statement[statement[s].prior].status = "completed"
      BY <1>1, <2>1 DEF StatementsChain
    <3>. QED  BY <3>1, <3>2 DEF Completed, WithStatus
  <2>. QED  BY <2>1
<1>3. DatesInv'
  <2>1. ASSUME NEW s \in Completed', NEW t \in Completed',
               statement'[s].date = statement'[t].date
        PROVE  s = t
    BY <2>1 DEF ClosingInv, DatesInv, Completed
  <2>2. ASSUME NEW s \in Completed'
        PROVE  IsLast(s, Completed)' \/ \E u \in Completed' : statement'[u].prior = s
    BY <2>2 DEF ClosingInv, DatesInv, Completed, IsLast
  <2>3. ASSUME NEW s \in Completed', NEW t \in Completed',
               statement'[t].date < statement'[s].date
        PROVE  /\ statement'[s].prior # NoStatement
               /\ statement'[t].date <= statement'[statement'[s].prior].date
    <3>1. s \in Completed /\ t \in Completed
      BY DEF Completed
    <3>2. statement[t].date < statement[s].date
      BY <2>3, <3>1
    <3>3. statement[s].prior # NoStatement
          /\ statement[t].date <= statement[statement[s].prior].date
      BY <3>1, <3>2 DEF ClosingInv, DatesInv
    <3>4. statement'[statement[s].prior] = statement[statement[s].prior]
      BY <1>2, <3>1, <3>3
    <3>. QED  BY <3>1, <3>3, <3>4
  <2>4. ASSUME NEW s \in WithStatus("draft")'
        PROVE  Latest(statement[s].prior)'
    <3>1. PICK p : p = statement'[s].prior
      OBVIOUS
    <3>2. Latest(p)
      BY <2>4, <3>1
    <3>3. \/ IsLast(p, WithStatus("completed"))'
          \/ p = NoStatement /\ WithStatus("completed")' = {}
      BY <3>2 DEF Latest, IsLast, Completed
    <3>. QED  BY <3>1, <3>3 DEF Latest, IsLast
  <2>. QED  BY <2>1, <2>2, <2>3, <2>4 DEF DatesInv
<1>4. ASSUME NEW s \in WithStatus("completed")'
      PROVE  statement'[s].closing = Balance(ClearedThrough(s))'
  <2>1. s \in Completed
    BY DEF Completed
  <2>2. ClearedThrough(s)' = ClearedThrough(s)
    BY <2>1 DEF ClearedThrough, Selected, Completed
  <2>3. PICK S \in SUBSET Journal : S = ClearedThrough(s)
    BY DEF ClearedThrough
  <2>4. \A j \in S : journal'[j].amount = journal[j].amount
    BY <2>3 DEF ClearedThrough, Selected, Completed
  <2>5. Total(journal', S) = Total(journal, S)
    BY <2>4, TotalSame
  <2>6. Balance(ClearedThrough(s))' = Total(journal', S)
    BY <2>2, <2>3 DEF Balance, Total
  <2>7. statement[s].closing = Total(journal, S)
    BY <2>1, <2>3, BalanceIsTotal DEF ClosingInv, ClosingIsCleared, Completed
  <2>. QED  BY <2>1, <2>5, <2>6, <2>7
<1>. QED  BY <1>3, <1>4 DEF ClosingInv, ClosingIsCleared

(* A draft is later than every completed statement.                        *)
LEMMA DraftIsLatest ==
  ASSUME TypeOK, StatementsChain, DatesInv, NEW s \in WithStatus("draft"), NEW t \in Completed
  PROVE  /\ statement[t].date < statement[s].date
         /\ IsLast(statement[s].prior, Completed)
<1>1. Latest(statement[s].prior) /\ Completed # {}
  BY DEF DatesInv
<1>2. IsLast(statement[s].prior, Completed)
  BY <1>1 DEF Latest, Completed
<1>3. statement[s].prior \in Statement /\ s \in Statement /\ t \in Statement /\ s \in Live
  BY <1>2 DEF IsLast, Completed, WithStatus, Live
<1>4. statement[s].prior # NoStatement
  BY <1>3
<1>5. statement[statement[s].prior].date < statement[s].date
  BY <1>3, <1>4 DEF StatementsChain
<1>6. statement[t].date <= statement[statement[s].prior].date
  BY <1>2 DEF IsLast
<1>. QED  BY <1>2, <1>3, <1>5, <1>6, DatesAreInts

(* Completing the draft: it is the latest statement, and its balance adds  *)
(* what it selects to what is cleared up to the statement it follows.      *)
LEMMA CompleteKeepsClosing ==
  ASSUME BankingInv, ClosingInv, NEW s \in Statement, NEW a \in Actor, Complete(s, a)
  PROVE  ClosingInv'
<1> DEFINE p == statement[s].prior
<1>0. TypeOK /\ StatementsChain /\ DatesInv /\ ClosingIsCleared
  BY DEF BankingInv, ClosingInv
<1>1. /\ statement[s].status = "draft" /\ Balanced(s)
      /\ UNCHANGED <<journal, clearing>>
  BY DEF Complete, journalVars
<1>2. /\ statement'[s].status = "completed"
      /\ statement'[s].date = statement[s].date /\ statement'[s].prior = p
      /\ statement'[s].closing = statement[s].closing
      /\ \A t \in Statement : t # s => statement'[t] = statement[t]
  BY <1>0, CompleteMoves, MoveKeepsOthers DEF Transitions
<1>3. Completed' = Completed \cup {s} /\ s \notin Completed
  BY <1>1, <1>2 DEF Completed, WithStatus
<1>4. WithStatus("draft")' = {}
  <2>1. \A t \in WithStatus("draft") : t = s
    BY <1>0, <1>1 DEF StatementsChain, WithStatus
  <2>. QED  BY <1>2, <2>1 DEF WithStatus
<1>5. \A t \in Completed :
        /\ t \in Statement /\ statement'[t] = statement[t]
        /\ statement[t].date < statement[s].date
        /\ IsLast(p, Completed)
  <2>1. s \in WithStatus("draft")
    BY <1>1 DEF WithStatus
  <2>. QED  BY <1>0, <1>2, <1>3, <2>1, DraftIsLatest DEF Completed, WithStatus
<1>6. \A t \in Statement : statement[t].date \in Int
  BY <1>0, DatesAreInts
<1>7. ASSUME NEW t \in Completed, NEW u \in Completed
      PROVE  statement[t].date <= statement[p].date
             /\ (statement[u].prior # NoStatement => statement[u].prior \in Completed)
  <2>1. statement[t].date <= statement[p].date
    BY <1>5 DEF IsLast
  <2>2. ASSUME statement[u].prior # NoStatement PROVE statement[u].prior \in Completed
    <3>1. u \in Live /\ statement[u].prior \in Statement
      BY <1>0, <2>2 DEF Live, Completed, WithStatus, TypeOK, StatementRow
    <3>2. statement[statement[u].prior].status = "completed"
      BY <1>0, <2>2, <3>1 DEF StatementsChain
    <3>. QED  BY <3>1, <3>2 DEF Completed, WithStatus
  <2>. QED  BY <2>1, <2>2
<1>. HIDE DEF p
<1>8. DatesInv'
  <2>1. ASSUME NEW t \in Completed', NEW u \in Completed',
               statement'[t].date = statement'[u].date
        PROVE  t = u
    <3>1. CASE t = s /\ u # s
      BY <1>2, <1>3, <1>5, <1>6, <2>1, <3>1
    <3>2. CASE t # s /\ u = s
      BY <1>2, <1>3, <1>5, <1>6, <2>1, <3>2
    <3>3. CASE t # s /\ u # s
      BY <1>0, <1>3, <1>5, <2>1, <3>3 DEF DatesInv
    <3>. QED  BY <3>1, <3>2, <3>3
  <2>2. ASSUME NEW t \in Completed'
        PROVE  IsLast(t, Completed)' \/ \E u \in Completed' : statement'[u].prior = t
    <3>1. CASE t = s
      <4>1. \A u \in Completed' : statement'[u].date <= statement'[s].date
        BY <1>2, <1>3, <1>5, <1>6
      <4>. QED  BY <3>1, <4>1 DEF IsLast
    <3>2. CASE t \in Completed /\ \E u \in Completed : statement[u].prior = t
      BY <1>3, <1>5, <3>2
    <3>3. CASE t \in Completed /\ IsLast(t, Completed)
      <4>1. p \in Completed /\ IsLast(p, Completed)
        BY <1>5, <3>3 DEF IsLast
      <4>2. statement[p].date = statement[t].date
        <5>1. statement[p].date <= statement[t].date /\ statement[t].date <= statement[p].date
          BY <3>3, <4>1 DEF IsLast
        <5>. QED  BY <1>5, <1>6, <3>3, <4>1, <5>1
      <4>3. p = t
        BY <1>0, <3>3, <4>1, <4>2 DEF DatesInv
      <4>. QED  BY <1>2, <1>3, <4>3
    <3>. QED  BY <1>0, <1>3, <3>1, <3>2, <3>3 DEF DatesInv
  <2>3. ASSUME NEW t \in Completed', NEW u \in Completed',
               statement'[u].date < statement'[t].date
        PROVE  /\ statement'[t].prior # NoStatement
               /\ statement'[u].date <= statement'[statement'[t].prior].date
    <3>1. CASE t = s
      <4>1. u \in Completed
        BY <1>2, <1>3, <1>6, <2>3, <3>1
      <4>2. p \in Completed /\ p # NoStatement
        BY <1>5, <4>1 DEF IsLast, Completed, WithStatus
      <4>. QED  BY <1>2, <1>5, <1>7, <3>1, <4>1, <4>2
    <3>2. CASE t # s
      <4>1. t \in Completed /\ u \in Completed
        BY <1>2, <1>3, <1>5, <1>6, <2>3, <3>2
      <4>2. statement[u].date < statement[t].date
        BY <1>5, <2>3, <4>1
      <4>3. /\ statement[t].prior # NoStatement
            /\ statement[u].date <= statement[statement[t].prior].date
        BY <1>0, <4>1, <4>2 DEF DatesInv
      <4>. QED  BY <1>5, <1>7, <4>1, <4>3
    <3>. QED  BY <3>1, <3>2
  <2>. QED  BY <1>4, <2>1, <2>2, <2>3 DEF DatesInv
<1>9. ASSUME NEW t \in Completed
      PROVE  statement'[t].closing = Balance(ClearedThrough(t))'
  <2>1. ClearedThrough(t)' = ClearedThrough(t)
    <3>1. ~(statement[s].date <= statement[t].date) /\ statement'[t] = statement[t]
      BY <1>5, <1>6
    <3>2. \A u \in Completed' :
            statement'[u].date <= statement'[t].date
              => u \in Completed /\ statement[u].date <= statement[t].date
      BY <1>2, <1>3, <1>5, <3>1
    <3>3. \A u \in Completed :
            statement[u].date <= statement[t].date
              => u \in Completed' /\ statement'[u].date <= statement'[t].date
      BY <1>3, <1>5
    <3>. QED  BY <1>1, <3>2, <3>3 DEF ClearedThrough, Completed
  <2>2. Balance(ClearedThrough(t))' = Balance(ClearedThrough(t))
    BY <1>1, <2>1 DEF Balance
  <2>. QED  BY <1>0, <1>5, <2>2 DEF ClosingIsCleared, Completed
<1>10. statement'[s].closing = Balance(ClearedThrough(s))'
  <2> DEFINE before == {j \in Journal : clearing[j] \in Completed}
  <2>0. s # NoStatement /\ s \notin Completed
    BY <1>3
  <2>1. ClearedThrough(s)' = before \cup Selected(s)
    <3>1. \A u \in Completed' : statement'[u].date <= statement'[s].date
      BY <1>2, <1>3, <1>5, <1>6
    <3>. QED  BY <1>1, <1>3, <3>1 DEF ClearedThrough, Selected, Completed
  <2>2. /\ before \in SUBSET Journal /\ Selected(s) \in SUBSET Journal
        /\ before \cap Selected(s) = {}
        /\ \A j \in before \cup Selected(s) : journal[j].amount \in Int
    BY <1>0, <2>0, AmountIsInt DEF Selected, TypeOK
  <2>3. statement[s].opening = Total(journal, before)
    <3>1. CASE Completed = {}
      <4>1. before = {} /\ p = NoStatement
        <5>1. Latest(p)
          BY <1>0, <1>1 DEF DatesInv, WithStatus, p
        <5>. QED  BY <3>1, <5>1 DEF Latest, IsLast, Completed
      <4>2. statement[s].opening = 0
        BY <1>0, <1>1, <4>1 DEF StatementsChain, Live, WithStatus, p
      <4>3. Total(journal, {}) = 0
        BY SumEmpty DEF Total
      <4>. QED  BY <4>1, <4>2, <4>3
    <3>2. CASE Completed # {}
      <4>1. p \in Completed /\ p # NoStatement
        BY <1>5, <3>2 DEF IsLast, Completed, WithStatus
      <4>2. statement[p].closing = statement[s].opening
        BY <1>0, <1>1, <4>1 DEF StatementsChain, Live, WithStatus, p
      <4>3. ClearedThrough(p) = before
        BY <1>7, <4>1 DEF ClearedThrough, Completed
      <4>4. statement[p].closing = Balance(ClearedThrough(p))
        BY <1>0, <4>1 DEF ClosingIsCleared, Completed
      <4>. QED  BY <4>2, <4>3, <4>4, BalanceIsTotal
    <3>. QED  BY <3>1, <3>2
  <2>. HIDE DEF before
  <2>4. Total(journal, before \cup Selected(s))
          = Total(journal, before) + Total(journal, Selected(s))
    BY <2>2, TotalJoins
  <2>5. statement[s].opening + Total(journal, Selected(s)) = statement[s].closing
    BY <1>1, BalanceIsTotal DEF Balanced
  <2>6. Balance(ClearedThrough(s))' = Total(journal, before \cup Selected(s))
    BY <1>1, <2>1 DEF Balance, Total
  <2>. QED  BY <1>2, <2>3, <2>4, <2>5, <2>6
<1>11. ClosingIsCleared'
  BY <1>3, <1>9, <1>10 DEF ClosingIsCleared, Completed
<1>. QED  BY <1>8, <1>11 DEF ClosingInv

(* Reopening the last completed statement: the one it follows is the last  *)
(* then, and no earlier balance counts what it clears.                     *)
LEMMA ReopenKeepsClosing ==
  ASSUME BankingInv, ClosingInv, NEW s \in Statement, NEW a \in Actor, Reopen(s, a)
  PROVE  ClosingInv'
<1> DEFINE p == statement[s].prior
<1>0. TypeOK /\ StatementsChain /\ DatesInv /\ ClosingIsCleared
  BY DEF BankingInv, ClosingInv
<1>1. /\ statement[s].status = "completed" /\ WithStatus("draft") = {}
      /\ Dependents(s) = {} /\ UNCHANGED <<journal, clearing>>
  BY DEF Reopen, journalVars
<1>2. /\ statement'[s].status = "draft"
      /\ statement'[s].date = statement[s].date /\ statement'[s].prior = p
      /\ \A t \in Statement : t # s => statement'[t] = statement[t]
  BY <1>0, ReopenMoves, MoveKeepsOthers DEF Transitions
<1>3. /\ Completed' = Completed \ {s} /\ s \in Completed
      /\ WithStatus("draft")' = {s}
  BY <1>1, <1>2 DEF Completed, WithStatus
<1>4. \A t \in Completed : t \in Statement /\ statement[t].prior # s
                             /\ (t # s => statement'[t] = statement[t])
  BY <1>1, <1>2 DEF Completed, WithStatus, Dependents
<1>5. \A t \in Statement : statement[t].date \in Int
  BY <1>0, DatesAreInts
<1>6. \A t \in Completed : t # s => statement[t].date < statement[s].date
  <2>1. IsLast(s, Completed)
    BY <1>0, <1>3, <1>4 DEF DatesInv
  <2>2. \A t \in Completed : statement[t].date = statement[s].date => t = s
    BY <1>0, <1>3 DEF DatesInv
  <2>. QED  BY <1>3, <1>4, <1>5, <2>1, <2>2 DEF IsLast
<1>7. \A t \in Completed : t # s => p # NoStatement /\ statement[t].date <= statement[p].date
  BY <1>0, <1>3, <1>6 DEF DatesInv
<1>8. /\ p # s
      /\ \A t \in Completed : statement[t].prior # NoStatement => statement[t].prior \in Completed
  <2>1. ASSUME NEW t \in Completed, statement[t].prior # NoStatement
        PROVE  statement[t].prior \in Completed
    <3>1. t \in Live /\ statement[t].prior \in Statement
      BY <1>0, <2>1 DEF Live, Completed, WithStatus, TypeOK, StatementRow
    <3>2. statement[statement[t].prior].status = "completed"
      BY <1>0, <2>1, <3>1 DEF StatementsChain
    <3>. QED  BY <3>1, <3>2 DEF Completed, WithStatus
  <2>. QED  BY <1>3, <1>4, <2>1
<1>9. p # NoStatement => p \in Completed
  BY <1>3, <1>8
<1>. HIDE DEF p
<1>10. DatesInv'
  <2>1. ASSUME NEW t \in Completed', NEW u \in Completed',
               statement'[t].date = statement'[u].date
        PROVE  t = u
    BY <1>0, <1>3, <1>4, <2>1 DEF DatesInv
  <2>2. ASSUME NEW t \in Completed'
        PROVE  IsLast(t, Completed)' \/ \E u \in Completed' : statement'[u].prior = t
    <3>1. t \in Completed /\ t # s
      BY <1>3
    <3>2. CASE t = p
      <4>1. \A u \in Completed' : statement'[u].date <= statement'[t].date
        BY <1>3, <1>4, <1>7, <3>1, <3>2
      <4>. QED  BY <4>1 DEF IsLast
    <3>3. CASE t # p
      <4>1. ~IsLast(t, Completed)
        <5>1. statement[t].date < statement[s].date
          BY <1>6, <3>1
        <5>. QED  BY <1>3, <1>4, <1>5, <3>1, <5>1 DEF IsLast
      <4>2. PICK u \in Completed : statement[u].prior = t
        BY <1>0, <3>1, <4>1 DEF DatesInv
      <4>3. u # s
        BY <3>3, <4>2 DEF p
      <4>. QED  BY <1>3, <1>4, <4>2, <4>3
    <3>. QED  BY <3>2, <3>3
  <2>3. ASSUME NEW t \in Completed', NEW u \in Completed',
               statement'[u].date < statement'[t].date
        PROVE  /\ statement'[t].prior # NoStatement
               /\ statement'[u].date <= statement'[statement'[t].prior].date
    <3>1. /\ t \in Completed /\ u \in Completed /\ t # s /\ u # s
          /\ statement[u].date < statement[t].date
      BY <1>3, <1>4, <2>3
    <3>2. /\ statement[t].prior # NoStatement
          /\ statement[u].date <= statement[statement[t].prior].date
      BY <1>0, <3>1 DEF DatesInv
    <3>3. statement'[statement[t].prior] = statement[statement[t].prior]
      BY <1>4, <1>8, <3>1, <3>2
    <3>. QED  BY <1>4, <3>1, <3>2, <3>3
  <2>4. Latest(statement[s].prior)'
    <3>1. CASE Completed' = {}
      <4>1. p = NoStatement
        BY <1>3, <1>8, <1>9, <3>1
      <4>. QED  BY <1>2, <3>1, <4>1 DEF Latest, Completed
    <3>2. CASE Completed' # {}
      <4>1. PICK t \in Completed : t # s
        BY <1>3, <3>2
      <4>2. p \in Completed'
        BY <1>3, <1>7, <1>8, <1>9, <4>1
      <4>3. \A u \in Completed' : statement'[u].date <= statement'[p].date
        BY <1>3, <1>4, <1>7, <4>2
      <4>. QED  BY <1>2, <4>2, <4>3 DEF Latest, IsLast, Completed
    <3>. QED  BY <3>1, <3>2
  <2>5. \A t \in WithStatus("draft")' : Latest(statement[t].prior)'
    BY <1>3, <2>4
  <2>. QED  BY <2>1, <2>2, <2>3, <2>5 DEF DatesInv
<1>11. ASSUME NEW t \in WithStatus("completed")'
       PROVE  statement'[t].closing = Balance(ClearedThrough(t))'
  <2>1. t \in Completed /\ t # s /\ statement'[t] = statement[t]
    BY <1>3, <1>4 DEF Completed
  <2>2. ClearedThrough(t)' = ClearedThrough(t)
    <3>1. ~(statement[s].date <= statement[t].date)
      BY <1>4, <1>5, <1>6, <2>1
    <3>2. \A u \in Completed' :
            statement'[u].date <= statement'[t].date
              => u \in Completed /\ statement[u].date <= statement[t].date
      BY <1>3, <1>4, <2>1
    <3>3. \A u \in Completed :
            statement[u].date <= statement[t].date
              => u \in Completed' /\ statement'[u].date <= statement'[t].date
      BY <1>3, <1>4, <2>1, <3>1
    <3>. QED  BY <1>1, <3>2, <3>3 DEF ClearedThrough, Completed
  <2>3. Balance(ClearedThrough(t))' = Balance(ClearedThrough(t))
    BY <1>1, <2>2 DEF Balance
  <2>. QED  BY <1>0, <2>1, <2>3 DEF ClosingIsCleared, Completed
<1>. QED  BY <1>10, <1>11 DEF ClosingInv, ClosingIsCleared

(* A command on a draft, or on a statement not prepared yet, that leaves   *)
(* it a draft that starts at the latest statement, or cancels it.          *)
LEMMA DraftKeepsClosing ==
  ASSUME BankingInv, ClosingInv, NEW s \in Statement, StatementMoves(s),
         statement[s].status # "completed", statement'[s].status # "completed",
         statement'[s].status = "draft" => Latest(statement'[s].prior)
  PROVE  ClosingInv'
<1>0. TypeOK /\ StatementsChain /\ DatesInv
  BY DEF BankingInv, ClosingInv
<1>1. /\ \A t \in Statement : t # s => statement'[t] = statement[t]
      /\ journal' = journal /\ statement'[s] \in StatementRow
      /\ \A j \in Journal : clearing'[j] # clearing[j] =>
                              /\ clearing[j] \in {s, NoStatement}
                              /\ clearing'[j] \in {s, NoStatement}
  BY DEF StatementMoves, Touches, journalVars
<1>2. WithStatus("completed")' = WithStatus("completed")
  BY <1>1 DEF WithStatus
<1>3. ASSUME NEW t \in Completed
      PROVE  statement'[t] = statement[t] /\ Selected(t)' = Selected(t)
  <2>1. t # s /\ t \in Statement /\ t # NoStatement
    BY DEF Completed, WithStatus
  <2>. QED  BY <1>1, <2>1 DEF Selected
<1>4. ASSUME NEW t \in WithStatus("draft")'
      PROVE  statement'[t].prior \in Statement \cup {NoStatement} /\ Latest(statement'[t].prior)
  <2>1. CASE t = s
    BY <1>1, <2>1 DEF WithStatus, StatementRow
  <2>2. CASE t # s
    <3>1. t \in WithStatus("draft") /\ statement'[t] = statement[t] /\ t \in Statement
      BY <1>1, <2>2 DEF WithStatus
    <3>. QED  BY <1>0, <3>1 DEF DatesInv, TypeOK, StatementRow
  <2>. QED  BY <2>1, <2>2
<1>. QED  BY <1>0, <1>1, <1>2, <1>3, <1>4, CompletedStay

(* A step that keeps the statements and their selections, and every posted *)
(* journal: what is cleared is posted, so its amount stays.                *)
LEMMA PostedKeepClosing ==
  ASSUME BankingInv, ClosingInv, UNCHANGED <<statement, clearing>>,
         \A j \in Journal : Posted(j) => journal'[j] = journal[j]
  PROVE  ClosingInv'
<1>0. TypeOK /\ StatementsChain /\ DatesInv /\ ClearedFactsStand
  BY DEF BankingInv, ClosingInv
<1>1. /\ WithStatus("completed")' = WithStatus("completed")
      /\ WithStatus("draft")' = WithStatus("draft")
      /\ \A t \in Completed : statement'[t] = statement[t] /\ Selected(t)' = Selected(t)
  BY DEF WithStatus, Selected
<1>2. \A t \in Completed : \A j \in Selected(t) : journal'[j].amount = journal[j].amount
  <2>1. \A t \in Completed : \A j \in Selected(t) : j \in Journal /\ Cleared(j)
    BY DEF Selected, Cleared, Completed, WithStatus
  <2>. QED  BY <1>0, <2>1 DEF ClearedFactsStand
<1>3. \A t \in WithStatus("draft") :
        statement[t].prior \in Statement \cup {NoStatement} /\ Latest(statement[t].prior)
  BY <1>0 DEF DatesInv, WithStatus, TypeOK, StatementRow
<1>. QED  BY <1>0, <1>1, <1>2, <1>3, CompletedStay

LEMMA StatementStepKeepsClosing ==
  ASSUME BankingInv, ClosingInv, StatementStep
  PROVE  ClosingInv'
<1>0. TypeOK /\ UnusedInv /\ DatesInv
  BY DEF BankingInv, ClosingInv
<1>1. ASSUME NEW s \in Statement, NEW d \in Day, NEW closing \in Closing, NEW a \in Actor,
             NEW add \in SUBSET Journal, PrepareNew(s, d, closing, a, add)
      PROVE  ClosingInv'
  <2>1. PICK prior \in Statement \cup {NoStatement} :
          /\ Latest(prior) /\ statement'[s] = Fresh(s, d, closing, a, prior)
    BY <1>0, <1>1, PrepareNewMoves
  <2>2. StatementMoves(s)
    BY <1>0, <1>1, PrepareNewMoves
  <2>3. statement[s].status = "none"
    BY <1>1 DEF PrepareNew
  <2>4. statement'[s].status = "draft" /\ statement'[s].prior = prior
    BY <2>1 DEF Fresh
  <2>. QED  BY <2>1, <2>2, <2>3, <2>4, DraftKeepsClosing
<1>2. ASSUME NEW s \in Statement, NEW d \in Day, NEW closing \in Closing, NEW a \in Actor,
             NEW add \in SUBSET Journal, NEW remove \in SUBSET Journal,
             PrepareDraft(s, d, closing, a, add, remove)
      PROVE  ClosingInv'
  <2>1. /\ StatementMoves(s)
        /\ statement[s].status = "draft" /\ statement'[s].status = "draft"
        /\ statement'[s].prior = statement[s].prior
    BY <1>0, <1>2, PrepareDraftMoves
  <2>2. Latest(statement[s].prior)
    BY <1>0, <2>1 DEF DatesInv, WithStatus
  <2>. QED  BY <2>1, <2>2, DraftKeepsClosing
<1>3. ASSUME NEW s \in Statement, Cancel(s) PROVE ClosingInv'
  <2>1. /\ StatementMoves(s)
        /\ statement[s].status = "draft" /\ statement'[s].status = "cancelled"
    BY <1>0, <1>3, CancelMoves DEF Transitions
  <2>. QED  BY <2>1, DraftKeepsClosing
<1>4. ASSUME NEW s \in Statement, Review(s) PROVE ClosingInv'
  <2>1. UNCHANGED <<statement, clearing, journal>>
    BY <1>4 DEF Review, journalVars
  <2>. QED  BY <2>1, PostedKeepClosing
<1>. QED
  BY <1>1, <1>2, <1>3, <1>4, CompleteKeepsClosing, ReopenKeepsClosing DEF StatementStep

LEMMA ClosingInvariant == Spec => []ClosingInv
<1>1. Init => ClosingInv
  BY DEF Init, ClosingInv, DatesInv, ClosingIsCleared, Completed, WithStatus, NoStatementRow
<1>2. BankingInv /\ ClosingInv /\ [Next]_vars => ClosingInv'
  <2>. SUFFICES ASSUME BankingInv, ClosingInv, [Next]_vars PROVE ClosingInv'
    OBVIOUS
  <2>1. CASE JournalStep
    <3>1. JournalsMove
      BY <2>1, JournalStepMoves DEF BankingInv, TypeOK
    <3>2. /\ UNCHANGED <<statement, clearing>>
          /\ \A j \in Journal : Posted(j) => journal'[j] = journal[j]
      BY <3>1 DEF JournalsMove, JournalsStay, statementVars
    <3>. QED  BY <3>2, PostedKeepClosing
  <2>2. CASE StatementStep
    BY <2>2, StatementStepKeepsClosing
  <2>3. CASE UNCHANGED vars
    <3>1. UNCHANGED <<statement, clearing, journal>>
      BY <2>3 DEF vars, journalVars, statementVars
    <3>. QED  BY <3>1, PostedKeepClosing
  <2>. QED  BY <2>1, <2>2, <2>3 DEF Next
<1>. QED  BY <1>1, <1>2, BankingInvariant, PTL DEF Spec

(* A completed statement's closing balance is what is cleared up to it,    *)
(* whatever was reopened, cancelled, corrected or reversed before          *)
(* (bank-reconciliation-workflow: prepare and transition).                 *)
THEOREM BankingClosingIsCleared == Spec => []ClosingIsCleared
<1>1. ClosingInv => ClosingIsCleared
  BY DEF ClosingInv
<1>. QED  BY <1>1, ClosingInvariant, PTL
=============================================================================
