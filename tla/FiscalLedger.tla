---------------------------- MODULE FiscalLedger ----------------------------
(***************************************************************************)
(* The committed accounting facts of one tenant/company/source scope and   *)
(* the commands of the SDK that change them, each as ONE atomic step:      *)
(* fiscal periods, the book's posting-lock date, posted journals, invoice  *)
(* drafts, close certificates and the source-revision counters.            *)
(*                                                                         *)
(* This is what the fiscal controls promise their callers: every command   *)
(* that commits behaves as if it had run alone.  FiscalLocking models the  *)
(* same commands as database transactions that interleave, and implements  *)
(* this specification.  Commands that are refused change nothing and are   *)
(* not steps here.                                                         *)
(***************************************************************************)
EXTENDS Integers, FiniteSets

CONSTANTS
  Period,          \* fiscal period identities (fiscal year, period number)
  Day,             \* posting dates
  Journal,         \* idempotency keys of journals
  Draft,           \* invoice draft identities
  Intent,          \* who approved a fiscal command, why and on what evidence
  CloseKey,        \* idempotency keys of canonical closes
  MaxVersion,      \* bound: versions of a fiscal period
  MaxBookVersion,  \* bound: versions of the book control row
  MaxDraftVersion, \* bound: versions of an invoice draft
  None             \* "no row": the SQL result set is empty

ASSUME DayAssumption == Day \subseteq Nat \ {0}
ASSUME BoundAssumption ==
  MaxVersion \in Nat /\ MaxBookVersion \in Nat /\ MaxDraftVersion \in Nat
ASSUME NoneAssumption == None \notin [date : Day, adjustment : BOOLEAN]

NoLock == 0  \* posting_lock_date is null: every day is later than it

VARIABLES
  period,       \* fiscal_periods rows
  book,         \* the accounting_book_controls row (version 0: no row yet)
  journal,      \* posted journals by key
  draft,        \* invoice_drafts rows
  event,        \* fiscal lifecycle events
  certificate,  \* fiscal_close_certificates rows
  revision      \* accounting_source_revisions: a counter per effective date

ledgerVars == <<period, book, journal, draft, event, certificate, revision>>

NoEvent == <<"none">>
BeginEvent(p, v) == <<"begin-close", p, v>>
CloseEvent(p, v) == <<"close", p, v>>
ReopenEvent(p, v) == <<"reopen", p, v>>
CanonicalEvent(k) == <<"canonical-close", k>>

EventKey ==
  {NoEvent}
    \cup {BeginEvent(p, v) : p \in Period, v \in 1..MaxVersion}
    \cup {CloseEvent(p, v) : p \in Period, v \in 1..MaxVersion}
    \cup {ReopenEvent(p, v) : p \in Period, v \in 1..MaxVersion}
    \cup {CanonicalEvent(k) : k \in CloseKey}

PeriodStatus == {"undefined", "open", "closing", "closed"}

PeriodRow ==
  [status : PeriodStatus, version : 0..MaxVersion, first : Day \cup {0},
   last : Day \cup {0}, closeEvent : EventKey, reopenEvent : EventKey]

JournalRow == [date : Day, adjustment : BOOLEAN]

DraftRow ==
  [status : {"none", "draft", "issued", "voided"},
   version : 0..MaxDraftVersion, date : Day \cup {0}]

Transition == {"closing", "closed", "open"}  \* the status a fiscal event leads to

EventRow ==
  [key : EventKey, period : Period, to : Transition,
   prior : 1..MaxVersion, intent : Intent]

(* What the reviewer of a canonical close is shown: the period row and the *)
(* source revisions through its end.                                       *)
Token == [row : PeriodRow, revision : [Day -> Nat]]

CertificateRow ==
  [key : CloseKey, period : Period, prior : 1..MaxVersion, intent : Intent,
   token : Token, facts : SUBSET Journal]

TypeOK ==
  /\ period \in [Period -> PeriodRow]
  /\ book \in [version : 0..MaxBookVersion, lock : Day \cup {NoLock}]
  /\ journal \in [Journal -> JournalRow \cup {None}]
  /\ draft \in [Draft -> DraftRow]
  /\ event \subseteq EventRow
  /\ certificate \subseteq CertificateRow
  /\ revision \in [Day -> Nat]
-----------------------------------------------------------------------------
Posted == {k \in Journal : journal[k] # None}

Covers(p, d) ==
  period[p].status # "undefined" /\ period[p].first <= d /\ d <= period[p].last

JournalsIn(p) == {k \in Posted : Covers(p, journal[k].date)}

(* What control totals of a close sum up: the period and all history before. *)
JournalsThrough(p) == {k \in Posted : journal[k].date <= period[p].last}

DraftsIn(p) ==
  {x \in Draft : draft[x].status = "draft" /\ Covers(p, draft[x].date)}

(* The approval token hashes the sum of the revisions through the cutoff;  *)
(* a sum of counters that never decrease is unchanged iff each of them is. *)
ReviewToken(p) ==
  [row |-> period[p],
   revision |-> [d \in Day |-> IF d <= period[p].last THEN revision[d] ELSE 0]]

(* The two reads of assertPostingDateAllowed. *)
Unlocked(d) == d > book.lock

(* Mutant of PeriodAccepts: any period that covers the day will do. *)
PeriodCovers(d, adjustment) == \E p \in Period : Covers(p, d)

PeriodAccepts(d, adjustment) ==
  \E p \in Period :
    /\ Covers(p, d)
    /\ period[p].status = "open" \/ (period[p].status = "closing" /\ adjustment)

(* Mutant of PostingDateAllowed: the lock date alone decides. *)
LockDateAllows(d, adjustment) == Unlocked(d)

PostingDateAllowed(d, adjustment) == Unlocked(d) /\ PeriodAccepts(d, adjustment)

(* Statement triggers advance the counter of every date a change touches.  *)
Touch(days) ==
  revision' = [d \in Day |-> IF d \in days THEN revision[d] + 1 ELSE revision[d]]

(* SQL max: null when there is no row. *)
IsLatest(d, days) == d \in days /\ \A e \in days : e <= d

(* Mutant of Latest: the null of an empty set is stored as it is. *)
LatestOrNull(days) ==
  IF \E d \in days : IsLatest(d, days) THEN CHOOSE d \in days : IsLatest(d, days) ELSE None

Latest(days) ==
  IF \E d \in days : IsLatest(d, days) THEN CHOOSE d \in days : IsLatest(d, days) ELSE NoLock

Later(d, e) == IF d < e THEN e ELSE d
-----------------------------------------------------------------------------
LedgerInit ==
  /\ period = [p \in Period |->
       [status |-> "undefined", version |-> 0, first |-> 0, last |-> 0,
        closeEvent |-> NoEvent, reopenEvent |-> NoEvent]]
  /\ book = [version |-> 0, lock |-> NoLock]
  /\ journal = [k \in Journal |-> None]
  /\ draft = [x \in Draft |-> [status |-> "none", version |-> 0, date |-> 0]]
  /\ event = {}
  /\ certificate = {}
  /\ revision = [d \in Day |-> 0]

(***************************************************************************)
(* Each command is a guard and a write.  The writes are operators of their *)
(* own: a transaction decides on the guard before it writes, and only the  *)
(* conditions repeated here are evaluated again by the UPDATE itself.      *)
(***************************************************************************)

(* Mutant of Overlaps: a period may begin on the day another ends. *)
OverlapsInside(p, first, last) ==
  \E q \in Period \ {p} :
    /\ period[q].status # "undefined"
    /\ first < period[q].last
    /\ period[q].first < last

(* The overlap trigger looks at every other period of the scope. *)
Overlaps(p, first, last) ==
  \E q \in Period \ {p} :
    /\ period[q].status # "undefined"
    /\ first <= period[q].last
    /\ period[q].first <= last

DefinePeriod(p, first, last) ==
  /\ first <= last
  /\ period[p].status = "undefined"
  /\ ~Overlaps(p, first, last)
  /\ MaxVersion > 0
  /\ period' = [period EXCEPT ![p] =
       [status |-> "open", version |-> 1, first |-> first, last |-> last,
        closeEvent |-> NoEvent, reopenEvent |-> NoEvent]]
  /\ UNCHANGED <<book, journal, draft, event, certificate, revision>>

(* update fiscal_periods ... set version = version + 1 where version = v,  *)
(* together with the lifecycle event that records the transition.          *)
Transit(p, v, to, key, intent) ==
  /\ period[p].version = v
  /\ v < MaxVersion
  /\ event' = event \cup
       {[key |-> key, period |-> p, to |-> to, prior |-> v, intent |-> intent]}

(* Mutant of AdvanceBookLock: the closed period's end replaces the lock. *)
ReplaceBookLock(day) ==
  /\ book.version < MaxBookVersion
  /\ book' = [version |-> book.version + 1, lock |-> day]

AdvanceBookLock(day) ==
  /\ book.version < MaxBookVersion
  /\ book' = [version |-> book.version + 1, lock |-> Later(book.lock, day)]

(* Mutant of WriteBeginClose: the version does not move. *)
BeginCloseInPlace(p, v, intent) ==
  /\ Transit(p, v, "closing", BeginEvent(p, v), intent)
  /\ period' = [period EXCEPT ![p] = [@ EXCEPT !.status = "closing"]]
  /\ UNCHANGED <<book, journal, draft, certificate, revision>>

WriteBeginClose(p, v, intent) ==
  /\ Transit(p, v, "closing", BeginEvent(p, v), intent)
  /\ period' = [period EXCEPT ![p] = [@ EXCEPT !.status = "closing", !.version = v + 1]]
  /\ UNCHANGED <<book, journal, draft, certificate, revision>>

BeginClose(p, v, intent) ==
  period[p].status = "open" /\ WriteBeginClose(p, v, intent)

WriteClosed(p, v, key, intent) ==
  /\ Transit(p, v, "closed", key, intent)
  /\ period' = [period EXCEPT ![p] =
       [@ EXCEPT !.status = "closed", !.version = v + 1, !.closeEvent = key]]
  /\ AdvanceBookLock(period[p].last)
  /\ UNCHANGED <<journal, draft, revision>>

Close(p, v, intent) ==
  /\ period[p].status = "closing"
  /\ WriteClosed(p, v, CloseEvent(p, v), intent)
  /\ UNCHANGED certificate

WriteCanonical(p, v, key, intent, token) ==
  /\ WriteClosed(p, v, CanonicalEvent(key), intent)
  /\ certificate' = certificate \cup
       {[key |-> key, period |-> p, prior |-> v, intent |-> intent,
         token |-> token, facts |-> JournalsThrough(p)]}

CloseCanonical(p, v, key, intent) ==
  /\ period[p].status \in {"open", "closing"}
  /\ \A c \in certificate : c.key # key
  /\ DraftsIn(p) = {}
  /\ WriteCanonical(p, v, key, intent, ReviewToken(p))

(* recomputeBookLock: the end of the latest period that is still closed.   *)
ClosedEnds(p) ==
  {period[q].last : q \in {r \in Period \ {p} : period[r].status = "closed"}}

WriteReopen(p, v, intent) ==
  /\ Transit(p, v, "open", ReopenEvent(p, v), intent)
  /\ period' = [period EXCEPT ![p] =
       [@ EXCEPT !.status = "open", !.version = v + 1, !.reopenEvent = ReopenEvent(p, v)]]
  /\ book.version < MaxBookVersion
  /\ book' = [version |-> book.version + 1, lock |-> Latest(ClosedEnds(p))]
  /\ UNCHANGED <<journal, draft, certificate, revision>>

Reopen(p, v, intent) ==
  period[p].status = "closed" /\ WriteReopen(p, v, intent)

(* Mutant of SetPostingLockDate: clearing the lock stores a null. *)
StoreLockDate(lock, v) ==
  /\ book.version = v
  /\ v < MaxBookVersion
  /\ book' = [version |-> v + 1, lock |-> IF lock = NoLock THEN None ELSE lock]
  /\ UNCHANGED <<period, journal, draft, event, certificate, revision>>

SetPostingLockDate(lock, v) ==
  /\ book.version = v
  /\ v < MaxBookVersion
  /\ book' = [version |-> v + 1, lock |-> lock]
  /\ UNCHANGED <<period, journal, draft, event, certificate, revision>>
-----------------------------------------------------------------------------
WriteJournal(k, d, adjustment) ==
  /\ journal' = [journal EXCEPT ![k] = [date |-> d, adjustment |-> adjustment]]
  /\ Touch({d})
  /\ UNCHANGED <<period, book, event, certificate>>

PostJournal(k, d, adjustment) ==
  /\ journal[k] = None
  /\ PostingDateAllowed(d, adjustment)
  /\ WriteJournal(k, d, adjustment)
  /\ UNCHANGED draft

CreateDraft(x, d) ==
  /\ draft[x].status = "none"
  /\ MaxDraftVersion > 0
  /\ draft' = [draft EXCEPT ![x] = [status |-> "draft", version |-> 1, date |-> d]]
  /\ Touch({d})
  /\ UNCHANGED <<period, book, journal, event, certificate>>

MutableDraft(x, v) ==
  draft[x].status = "draft" /\ draft[x].version = v /\ v < MaxDraftVersion

(* updateDraft and updateDraftDates; only the date matters to the gate.    *)
RedateDraft(x, v, d) ==
  /\ MutableDraft(x, v)
  /\ draft' = [draft EXCEPT ![x] = [@ EXCEPT !.date = d, !.version = v + 1]]
  /\ Touch({d, draft[x].date})
  /\ UNCHANGED <<period, book, journal, event, certificate>>

VoidDraft(x, v) ==
  /\ MutableDraft(x, v)
  /\ draft' = [draft EXCEPT ![x] = [@ EXCEPT !.status = "voided", !.version = v + 1]]
  /\ Touch({draft[x].date})
  /\ UNCHANGED <<period, book, journal, event, certificate>>

WriteIssue(x, v) ==
  draft' = [draft EXCEPT ![x] = [@ EXCEPT !.status = "issued", !.version = v + 1]]

(* Issuing posts the invoice's journal on the draft's date, in the same    *)
(* transaction as the draft's own update.                                  *)
IssueDraft(x, v, k) ==
  /\ MutableDraft(x, v)
  /\ journal[k] = None
  /\ PostingDateAllowed(draft[x].date, FALSE)
  /\ WriteJournal(k, draft[x].date, FALSE)
  /\ WriteIssue(x, v)
-----------------------------------------------------------------------------
FiscalStep ==
  \/ \E p \in Period, first, last \in Day : DefinePeriod(p, first, last)
  \/ \E p \in Period, v \in 1..MaxVersion, i \in Intent : BeginClose(p, v, i)
  \/ \E p \in Period, v \in 1..MaxVersion, i \in Intent : Close(p, v, i)
  \/ \E p \in Period, v \in 1..MaxVersion, k \in CloseKey, i \in Intent :
       CloseCanonical(p, v, k, i)
  \/ \E p \in Period, v \in 1..MaxVersion, i \in Intent : Reopen(p, v, i)
  \/ \E lock \in Day \cup {NoLock}, v \in 0..MaxBookVersion : SetPostingLockDate(lock, v)

PostingStep ==
  \/ \E k \in Journal, d \in Day, a \in BOOLEAN : PostJournal(k, d, a)
  \/ \E x \in Draft, d \in Day : CreateDraft(x, d)
  \/ \E x \in Draft, v \in 1..MaxDraftVersion, d \in Day : RedateDraft(x, v, d)
  \/ \E x \in Draft, v \in 1..MaxDraftVersion : VoidDraft(x, v)
  \/ \E x \in Draft, v \in 1..MaxDraftVersion, k \in Journal : IssueDraft(x, v, k)

LedgerNext == FiscalStep \/ PostingStep

LedgerSpec == LedgerInit /\ [][LedgerNext]_ledgerVars
-----------------------------------------------------------------------------
(* The status of p at its version v, as its lifecycle events tell it.      *)
EventsOf(p) == {e \in event : e.period = p}

StatusAt(p, v) ==
  IF v = 1 THEN "open" ELSE (CHOOSE e \in EventsOf(p) : e.prior = v - 1).to

LegalTransition ==
  {<<"open", "closing">>, <<"closing", "closed">>, <<"open", "closed">>,
   <<"closed", "open">>}

(***************************************************************************)
(* The lifecycle events of a period are its complete history: exactly one  *)
(* event per version it has left, each a legal transition from the status  *)
(* the event before it led to, the last one leading to the stored status,  *)
(* and no idempotency key used twice.  This is what lets assertFiscalReplay*)
(* recognise a retried beginClose, close or reopen by its prior version.   *)
(***************************************************************************)
EventChain ==
  /\ \A p \in Period :
       /\ \A v \in 1..(period[p].version - 1) : \E e \in EventsOf(p) : e.prior = v
       /\ \A e \in EventsOf(p) :
            /\ e.prior < period[p].version
            /\ <<StatusAt(p, e.prior), e.to>> \in LegalTransition
       /\ period[p].version > 0 => StatusAt(p, period[p].version) = period[p].status
  /\ \A e, f \in event :
       e.key = f.key \/ (e.period = f.period /\ e.prior = f.prior) => e = f

(* A certificate is current while its close is the period's latest. *)
Current(c) ==
  /\ period[c.period].status = "closed"
  /\ period[c.period].version = c.prior + 1
  /\ period[c.period].closeEvent = CanonicalEvent(c.key)

(***************************************************************************)
(* As long as a period stays closed by a canonical close, its posted       *)
(* journals are exactly the ones that close certified.  The certificate's  *)
(* control totals are only evidence if no later journal, issued draft or   *)
(* moved lock date slips a posting into the closed period.                 *)
(***************************************************************************)
CertifiedPeriodFrozen ==
  \A c \in certificate :
    Current(c) =>
      JournalsIn(c.period) = {k \in c.facts : Covers(c.period, journal[k].date)}

(* No two defined periods of a scope share a day, however the definitions  *)
(* of different periods race; assertPostingDateAllowed reads one row only. *)
PeriodsDisjoint ==
  \A p, q \in Period, d \in Day : Covers(p, d) /\ Covers(q, d) => p = q

(***************************************************************************)
(* A step that leaves a period closed leaves its journals alone, whatever  *)
(* kind of close it was, whatever the posting-lock date was moved to.      *)
(***************************************************************************)
ClosedPeriodsStable ==
  [][\A p \in Period :
       period[p].status = "closed" /\ period'[p].status = "closed"
         => JournalsIn(p)' = JournalsIn(p)]_ledgerVars

(***************************************************************************)
(* Closing one period and reopening another never leaves a closed period   *)
(* outside the book lock that covered it: advanceBookLock only moves the   *)
(* date forward and recomputeBookLock falls back to the latest period      *)
(* still closed.  Only an explicit setPostingLockDate may expose it.       *)
(***************************************************************************)
LifecycleKeepsClosedLocked ==
  [][event' # event =>
       \A p \in Period :
         /\ period'[p].status = "closed"
         /\ period[p].status = "closed" => period[p].last <= book.lock
         => period'[p].last <= book'.lock]_ledgerVars
=============================================================================
