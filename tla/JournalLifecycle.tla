-------------------------- MODULE JournalLifecycle --------------------------
(***************************************************************************)
(* Posted journals of one source and the links between them: a journal is  *)
(* never changed, it is reversed, voided, corrected or replaced by others. *)
(* Of a journal's postings only the one on the bank account is kept, and   *)
(* of its two accounting bases only that of the book.  Every command takes *)
(* the source lock first and is one transaction, so each is one step.      *)
(*                                                                         *)
(* A journal is named by its idempotency key.  The key of a reversal is    *)
(* derived from its command's; no client posts under a derived key.        *)
(***************************************************************************)
EXTENDS Integers, FiniteSets

CONSTANTS
  Journal,   \* journals, by idempotency key
  Entry,     \* what clients post: signed amount, date, whether adjusting
  LastDay,   \* the days are 1..LastDay
  Calendar   \* the states the fiscal controls of those days pass through

ASSUME JournalAssumption == IsFiniteSet(Journal)
ASSUME EntryAssumption ==
  /\ LastDay \in Nat
  /\ Entry \subseteq [amount : Int, date : 1..LastDay, adjusting : BOOLEAN]
ASSUME CalendarAssumption ==
  Calendar \subseteq [1..LastDay -> {"open", "closing", "closed"}]

VARIABLES
  journal,   \* transactions with their posting on the bank account
  link,      \* journal_entry_links
  fiscal     \* what the fiscal controls say of each day (see FiscalLedger)

journalVars == <<journal, link, fiscal>>

Day == 1..LastDay
NoJournal == [amount |-> 0, date |-> 0, adjusting |-> FALSE]
JournalRow == [amount : Int, date : Day, adjusting : BOOLEAN]

ReversalKind == {"reversal", "void"}
LinkKind == ReversalKind \cup {"replacement"}
LinkRow == [from : Journal, to : Journal, kind : LinkKind]

JournalTypeOK ==
  /\ journal \in [Journal -> JournalRow \cup {NoJournal}]
  /\ link \subseteq LinkRow
  /\ fiscal \in Calendar

JournalInit ==
  /\ journal = [j \in Journal |-> NoJournal]
  /\ link = {}
  /\ fiscal \in Calendar
-----------------------------------------------------------------------------
Posted(j) == journal[j] # NoJournal
Reversals(o) == {l \in link : l.from = o /\ l.kind \in ReversalKind}
Successors(o) == {l \in link : l.from = o /\ l.kind = "replacement"}
Reversed(o) == Reversals(o) # {}

DateAllowed(d, adjusting) ==
  fiscal[d] = "open" \/ (fiscal[d] = "closing" /\ adjusting)

Postable(j, row) == ~Posted(j) /\ DateAllowed(row.date, row.adjusting)

Adjustment(amount, d) == [amount |-> amount, date |-> d, adjusting |-> TRUE]

PostJournal(j, entry) ==
  /\ Postable(j, entry)
  /\ journal' = [journal EXCEPT ![j] = entry]
  /\ UNCHANGED <<link, fiscal>>

(* Reverse or void a journal.                                              *)
Reverse(o, r, kind, d) ==
  LET row == Adjustment(-journal[o].amount, d) IN
  /\ Posted(o)
  /\ ~Reversed(o)
  /\ Postable(r, row)
  /\ journal' = [journal EXCEPT ![r] = row]
  /\ link' = link \cup {[from |-> o, to |-> r, kind |-> kind]}
  /\ UNCHANGED fiscal

(* Mutant of FreshReversal: the replacement alone is posted when the       *)
(* journal was voided before.                                              *)
FreshOrVoided(o, r, row) ==
  \/ ~Reversed(o) /\ Postable(r, row)
  \/ Reversed(o) /\ journal[r] = row

(* The reversal of a correction: posted now, or recorded by an earlier     *)
(* reverse command under the same key.                                     *)
FreshReversal(o, r, row) ==
  \/ ~Reversed(o) /\ Postable(r, row)
  \/ [from |-> o, to |-> r, kind |-> "reversal"] \in link /\ journal[r] = row

(* Correct or replace a journal (they differ in the name of a link): its   *)
(* reversal and its replacement in one transaction.  The replacement has a *)
(* key of its own, so an adjusting journal already posted under it with    *)
(* the same content is adopted.                                            *)
Correct(o, r, n, d, entry) ==
  LET reversal == Adjustment(-journal[o].amount, d)
      replacement == Adjustment(entry.amount, entry.date) IN
  /\ Posted(o)
  /\ r # n /\ n # o
  /\ FreshReversal(o, r, reversal)
  /\ Successors(o) = {}
  /\ Postable(n, replacement) \/ journal[n] = replacement
  /\ journal' = [journal EXCEPT ![r] = reversal, ![n] = replacement]
  /\ link' = link \cup {[from |-> o, to |-> r, kind |-> "reversal"],
                        [from |-> o, to |-> n, kind |-> "replacement"]}
  /\ UNCHANGED fiscal

(* The fiscal controls change between commands.                            *)
ChangeFiscal(controls) ==
  /\ fiscal' = controls
  /\ UNCHANGED <<journal, link>>
=============================================================================
