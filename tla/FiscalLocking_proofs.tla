------------------------ MODULE FiscalLocking_proofs ------------------------
(* Proofs about FiscalLedger, for every set of periods, days, journals,    *)
(* drafts and keys, and about FiscalLocking, for every set of clients: the *)
(* interleaved transactions implement LedgerSpec, so what is proved of the *)
(* ledger holds of them.  What a command was told before its commit, by    *)
(* the gate, by its reviewer or by the record of an earlier attempt, is    *)
(* proved of the transactions themselves.                                  *)
EXTENDS FiscalLocking, SumTheorems, TLAPS

(* The keys under which the kinds of lifecycle event are stored differ.    *)
LEMMA EventKeys ==
  ASSUME NEW p \in Period, NEW v \in 1..MaxVersion, NEW k \in CloseKey, NEW l \in CloseKey
  PROVE  /\ BeginEvent(p, v) \in EventKey
         /\ CloseEvent(p, v) \in EventKey
         /\ ReopenEvent(p, v) \in EventKey
         /\ CanonicalEvent(k) \in EventKey
         /\ NoEvent \in EventKey
         /\ CloseEvent(p, v) # CanonicalEvent(k)
         /\ CanonicalEvent(k) = CanonicalEvent(l) => k = l
<1>1. BeginEvent(p, v) \in EventKey BY DEF EventKey
<1>2. CloseEvent(p, v) \in EventKey BY DEF EventKey
<1>3. ReopenEvent(p, v) \in EventKey BY DEF EventKey
<1>4. CanonicalEvent(k) \in EventKey BY DEF EventKey
<1>5. NoEvent \in EventKey BY DEF EventKey
<1>6. CloseEvent(p, v) # CanonicalEvent(k) BY DEF CloseEvent, CanonicalEvent
<1>7. CanonicalEvent(k) = CanonicalEvent(l) => k = l BY DEF CanonicalEvent
<1>8. QED BY <1>1, <1>2, <1>3, <1>4, <1>5, <1>6, <1>7

(* The book lock is a day or absent after every command that sets it.      *)
LEMMA LatestType ==
  ASSUME NEW S \in SUBSET (Day \cup {0})
  PROVE  Latest(S) \in Day \cup {NoLock}
<1>1. CASE \E d \in S : IsLatest(d, S)
  <2>1. Latest(S) \in S
    BY <1>1 DEF Latest
  <2>2. QED BY <2>1 DEF NoLock
<1>2. CASE ~\E d \in S : IsLatest(d, S)
  BY <1>2 DEF Latest
<1>3. QED BY <1>1, <1>2

LEMMA TouchType ==
  ASSUME TypeOK, NEW S, Touch(S)
  PROVE  revision' \in [Day -> Nat]
BY DEF TypeOK, Touch

LEMMA TokenType ==
  ASSUME TypeOK, NEW p \in Period
  PROVE  ReviewToken(p) \in Token
BY DEF TypeOK, ReviewToken, Token

(* A transition of p from version v moves its row forward and records one  *)
(* well-formed event.                                                      *)
LEMMA TransitType ==
  ASSUME TypeOK, NEW p \in Period, NEW v \in 1..MaxVersion, NEW to \in Transition,
         NEW key \in EventKey, NEW i \in Intent, Transit(p, v, to, key, i)
  PROVE  event' \subseteq EventRow /\ v + 1 \in 0..MaxVersion
<1>1. v + 1 \in 0..MaxVersion
  BY BoundAssumption DEF Transit
<1>2. [key |-> key, period |-> p, to |-> to, prior |-> v, intent |-> i] \in EventRow
  BY DEF EventRow
<1>3. event' \subseteq EventRow
  BY <1>2 DEF Transit, TypeOK
<1>4. QED BY <1>1, <1>3

LEMMA AdvanceType ==
  ASSUME TypeOK, NEW p \in Period, period[p].status # "undefined", AdvanceBookLock(period[p].last)
  PROVE  book' \in [version : 0..MaxBookVersion, lock : Day \cup {NoLock}]
<1>1. period[p].last \in Day \cup {0}
  BY DEF TypeOK, PeriodRow
<1>2. Later(book.lock, period[p].last) \in Day \cup {NoLock}
  BY <1>1 DEF TypeOK, Later, NoLock
<1>3. book.version + 1 \in 0..MaxBookVersion
  BY BoundAssumption DEF TypeOK, AdvanceBookLock
<1>4. QED BY <1>2, <1>3 DEF AdvanceBookLock

LEMMA WriteClosedType ==
  ASSUME TypeOK, NEW p \in Period, NEW v \in 1..MaxVersion, NEW key \in EventKey,
         NEW i \in Intent, period[p].status # "undefined", WriteClosed(p, v, key, i)
  PROVE  /\ period' \in [Period -> PeriodRow]
         /\ book' \in [version : 0..MaxBookVersion, lock : Day \cup {NoLock}]
         /\ event' \subseteq EventRow
<1>1. event' \subseteq EventRow /\ v + 1 \in 0..MaxVersion
  BY TransitType DEF WriteClosed, Transition
<1>2. [period[p] EXCEPT !.status = "closed", !.version = v + 1, !.closeEvent = key] \in PeriodRow
  BY <1>1 DEF TypeOK, PeriodRow, PeriodStatus
<1>3. period' \in [Period -> PeriodRow]
  BY <1>2 DEF TypeOK, WriteClosed
<1>4. book' \in [version : 0..MaxBookVersion, lock : Day \cup {NoLock}]
  BY AdvanceType DEF WriteClosed
<1>5. QED BY <1>1, <1>3, <1>4

LEMMA WriteJournalType ==
  ASSUME TypeOK, NEW k \in Journal, NEW d \in Day, NEW a \in BOOLEAN, WriteJournal(k, d, a)
  PROVE  journal' \in [Journal -> JournalRow \cup {None}] /\ revision' \in [Day -> Nat]
<1>1. [date |-> d, adjustment |-> a] \in JournalRow
  BY DEF JournalRow
<1>2. journal' \in [Journal -> JournalRow \cup {None}]
  BY <1>1 DEF TypeOK, WriteJournal
<1>3. revision' \in [Day -> Nat]
  BY TouchType DEF WriteJournal
<1>4. QED BY <1>2, <1>3

LEMMA InitType == LedgerInit => TypeOK
<1> SUFFICES ASSUME LedgerInit PROVE TypeOK
  OBVIOUS
<1>1. NoEvent \in EventKey
  BY DEF EventKey
<1>2. period \in [Period -> PeriodRow]
  BY <1>1, BoundAssumption DEF LedgerInit, PeriodRow, PeriodStatus
<1>3. book \in [version : 0..MaxBookVersion, lock : Day \cup {NoLock}]
  BY BoundAssumption DEF LedgerInit
<1>4. draft \in [Draft -> DraftRow]
  BY BoundAssumption DEF LedgerInit, DraftRow
<1>5. QED BY <1>2, <1>3, <1>4 DEF TypeOK, LedgerInit

LEMMA FiscalStepType ==
  ASSUME TypeOK, FiscalStep
  PROVE  TypeOK'
<1>1. ASSUME NEW p \in Period, NEW first \in Day, NEW last \in Day, DefinePeriod(p, first, last)
      PROVE  TypeOK'
  <2>1. NoEvent \in EventKey
    BY DEF EventKey
  <2>2. [status |-> "open", version |-> 1, first |-> first, last |-> last,
         closeEvent |-> NoEvent, reopenEvent |-> NoEvent] \in PeriodRow
    BY <1>1, <2>1, BoundAssumption DEF DefinePeriod, PeriodRow, PeriodStatus
  <2>3. period' \in [Period -> PeriodRow]
    BY <1>1, <2>2 DEF DefinePeriod, TypeOK
  <2>4. QED BY <1>1, <2>3 DEF DefinePeriod, TypeOK
<1>2. ASSUME NEW p \in Period, NEW v \in 1..MaxVersion, NEW i \in Intent, BeginClose(p, v, i)
      PROVE  TypeOK'
  <2>1. BeginEvent(p, v) \in EventKey
    BY DEF EventKey
  <2>2. event' \subseteq EventRow /\ v + 1 \in 0..MaxVersion
    BY <1>2, <2>1, TransitType DEF BeginClose, WriteBeginClose, Transition
  <2>3. [period[p] EXCEPT !.status = "closing", !.version = v + 1] \in PeriodRow
    BY <2>2 DEF TypeOK, PeriodRow, PeriodStatus
  <2>4. period' \in [Period -> PeriodRow]
    BY <1>2, <2>3 DEF BeginClose, WriteBeginClose, TypeOK
  <2>5. QED BY <1>2, <2>2, <2>4 DEF BeginClose, WriteBeginClose, TypeOK
<1>3. ASSUME NEW p \in Period, NEW v \in 1..MaxVersion, NEW i \in Intent, Close(p, v, i)
      PROVE  TypeOK'
  <2>1. CloseEvent(p, v) \in EventKey
    BY DEF EventKey
  <2>2. WriteClosed(p, v, CloseEvent(p, v), i) /\ period[p].status # "undefined"
    BY <1>3 DEF Close
  <2>3. /\ period' \in [Period -> PeriodRow]
        /\ book' \in [version : 0..MaxBookVersion, lock : Day \cup {NoLock}]
        /\ event' \subseteq EventRow
    BY <2>1, <2>2, WriteClosedType
  <2>4. QED BY <1>3, <2>3 DEF Close, WriteClosed, TypeOK
<1>4. ASSUME NEW p \in Period, NEW v \in 1..MaxVersion, NEW k \in CloseKey,
             NEW i \in Intent, CloseCanonical(p, v, k, i)
      PROVE  TypeOK'
  <2>1. CanonicalEvent(k) \in EventKey
    BY DEF EventKey
  <2>2. WriteClosed(p, v, CanonicalEvent(k), i) /\ period[p].status # "undefined"
    BY <1>4 DEF CloseCanonical, WriteCanonical
  <2>3. /\ period' \in [Period -> PeriodRow]
        /\ book' \in [version : 0..MaxBookVersion, lock : Day \cup {NoLock}]
        /\ event' \subseteq EventRow
    BY <2>1, <2>2, WriteClosedType
  <2>4. [key |-> k, period |-> p, prior |-> v, intent |-> i,
         token |-> ReviewToken(p), facts |-> JournalsThrough(p)] \in CertificateRow
    BY TokenType DEF CertificateRow, JournalsThrough, Posted
  <2>5. certificate' \subseteq CertificateRow
    BY <1>4, <2>4 DEF CloseCanonical, WriteCanonical, TypeOK
  <2>6. QED BY <2>2, <2>3, <2>5 DEF WriteClosed, TypeOK
<1>5. ASSUME NEW p \in Period, NEW v \in 1..MaxVersion, NEW i \in Intent, Reopen(p, v, i)
      PROVE  TypeOK'
  <2>1. ReopenEvent(p, v) \in EventKey
    BY DEF EventKey
  <2>2. event' \subseteq EventRow /\ v + 1 \in 0..MaxVersion
    BY <1>5, <2>1, TransitType DEF Reopen, WriteReopen, Transition
  <2>3. [period[p] EXCEPT !.status = "open", !.version = v + 1,
                          !.reopenEvent = ReopenEvent(p, v)] \in PeriodRow
    BY <2>1, <2>2 DEF TypeOK, PeriodRow, PeriodStatus
  <2>4. period' \in [Period -> PeriodRow]
    BY <1>5, <2>3 DEF Reopen, WriteReopen, TypeOK
  <2>5. ClosedEnds(p) \subseteq Day \cup {0}
    BY DEF ClosedEnds, TypeOK, PeriodRow
  <2>6. Latest(ClosedEnds(p)) \in Day \cup {NoLock}
    BY <2>5, LatestType
  <2>7. book' \in [version : 0..MaxBookVersion, lock : Day \cup {NoLock}]
    BY <1>5, <2>6, BoundAssumption DEF Reopen, WriteReopen, TypeOK
  <2>8. QED BY <1>5, <2>2, <2>4, <2>7 DEF Reopen, WriteReopen, TypeOK
<1>6. ASSUME NEW lock \in Day \cup {NoLock}, NEW v \in 0..MaxBookVersion,
             SetPostingLockDate(lock, v)
      PROVE  TypeOK'
  BY <1>6, BoundAssumption DEF SetPostingLockDate, TypeOK
<1>7. QED BY <1>1, <1>2, <1>3, <1>4, <1>5, <1>6 DEF FiscalStep

(* The gate only lets through dates that are days: it needs a period that  *)
(* covers them, so the date of a draft to be issued is one.                *)
LEMMA IssuedDate ==
  ASSUME TypeOK, NEW x \in Draft, PostingDateAllowed(draft[x].date, FALSE)
  PROVE  draft[x].date \in Day
<1>1. draft[x].date \in Day \cup {0} /\ book.lock \in Day \cup {0}
  BY DEF TypeOK, DraftRow, NoLock
<1>2. draft[x].date > book.lock
  BY DEF PostingDateAllowed, Unlocked
<1>3. book.lock \in Nat
  <2>1. CASE book.lock \in Day BY <2>1, DayAssumption
  <2>2. CASE book.lock = 0 BY <2>2
  <2>3. QED BY <1>1, <2>1, <2>2
<1>4. CASE draft[x].date = 0 BY <1>2, <1>3, <1>4
<1>5. QED BY <1>1, <1>4

(* A draft's row stays one when a command ends or issues it.               *)
LEMMA DraftMoves ==
  ASSUME NEW row \in DraftRow, NEW v \in 0..MaxDraftVersion,
         NEW s \in {"none", "draft", "issued", "voided"}
  PROVE  [row EXCEPT !.status = s, !.version = v] \in DraftRow
BY DEF DraftRow

LEMMA NextDraftVersion ==
  ASSUME NEW x \in Draft, NEW v \in 1..MaxDraftVersion, MutableDraft(x, v)
  PROVE  v + 1 \in 0..MaxDraftVersion
BY BoundAssumption DEF MutableDraft

LEMMA PostingStepType ==
  ASSUME TypeOK, PostingStep
  PROVE  TypeOK'
<1>1. ASSUME NEW k \in Journal, NEW d \in Day, NEW a \in BOOLEAN, PostJournal(k, d, a)
      PROVE  TypeOK'
  BY <1>1, WriteJournalType DEF PostJournal, WriteJournal, TypeOK
<1>2. ASSUME NEW x \in Draft, NEW d \in Day, CreateDraft(x, d)
      PROVE  TypeOK'
  <2>1. [status |-> "draft", version |-> 1, date |-> d] \in DraftRow
    BY <1>2, BoundAssumption DEF CreateDraft, DraftRow
  <2>2. draft' \in [Draft -> DraftRow] /\ revision' \in [Day -> Nat]
    BY <1>2, <2>1, TouchType DEF CreateDraft, TypeOK
  <2>3. QED BY <1>2, <2>2 DEF CreateDraft, TypeOK
<1>3. ASSUME NEW x \in Draft, NEW v \in 1..MaxDraftVersion, NEW d \in Day, RedateDraft(x, v, d)
      PROVE  TypeOK'
  <2>1. [draft[x] EXCEPT !.date = d, !.version = v + 1] \in DraftRow
    BY <1>3, NextDraftVersion DEF RedateDraft, TypeOK, DraftRow
  <2>2. draft' \in [Draft -> DraftRow] /\ revision' \in [Day -> Nat]
    BY <1>3, <2>1, TouchType DEF RedateDraft, TypeOK
  <2>3. QED BY <1>3, <2>2 DEF RedateDraft, TypeOK
<1>4. ASSUME NEW x \in Draft, NEW v \in 1..MaxDraftVersion, VoidDraft(x, v)
      PROVE  TypeOK'
  <2>. draft[x] \in DraftRow /\ v + 1 \in 0..MaxDraftVersion
    BY <1>4, NextDraftVersion DEF VoidDraft, TypeOK
  <2>1. [draft[x] EXCEPT !.status = "voided", !.version = v + 1] \in DraftRow
    BY DraftMoves
  <2>2. draft' \in [Draft -> DraftRow] /\ revision' \in [Day -> Nat]
    BY <1>4, <2>1, TouchType DEF VoidDraft, TypeOK
  <2>3. QED BY <1>4, <2>2 DEF VoidDraft, TypeOK
<1>5. ASSUME NEW x \in Draft, NEW v \in 1..MaxDraftVersion, NEW k \in Journal, IssueDraft(x, v, k)
      PROVE  TypeOK'
  <2>1. draft[x].date \in Day
    BY <1>5, IssuedDate DEF IssueDraft
  <2>2. journal' \in [Journal -> JournalRow \cup {None}] /\ revision' \in [Day -> Nat]
    BY <1>5, <2>1, WriteJournalType DEF IssueDraft
  <2>a. MutableDraft(x, v)
    BY <1>5 DEF IssueDraft
  <2>b. v + 1 \in 0..MaxDraftVersion
    BY <2>a, NextDraftVersion
  <2>c. draft[x] \in DraftRow
    BY DEF TypeOK
  <2>3. [draft[x] EXCEPT !.status = "issued", !.version = v + 1] \in DraftRow
    BY <2>b, <2>c, DraftMoves
  <2>4. draft' \in [Draft -> DraftRow]
    BY <1>5, <2>3 DEF IssueDraft, WriteIssue, TypeOK
  <2>5. QED BY <1>5, <2>2, <2>4 DEF IssueDraft, WriteJournal, TypeOK
<1>6. QED BY <1>1, <1>2, <1>3, <1>4, <1>5 DEF PostingStep

LEMMA StutterType ==
  ASSUME TypeOK, UNCHANGED ledgerVars
  PROVE  TypeOK'
BY DEF TypeOK, ledgerVars

(***************************************************************************)
(* Every row the commands of the ledger write is well formed: versions     *)
(* stay in range, every closed or issued date is a day, every event and    *)
(* certificate names a period, a version and an approved intent.           *)
(***************************************************************************)
THEOREM LedgerTypeCorrect == LedgerSpec => []TypeOK
<1>1. LedgerInit => TypeOK
  BY InitType
<1>2. TypeOK /\ [LedgerNext]_ledgerVars => TypeOK'
  BY FiscalStepType, PostingStepType, StutterType DEF LedgerNext
<1>3. QED BY <1>1, <1>2, PTL DEF LedgerSpec
-----------------------------------------------------------------------------
(* A defined period stays defined, over the same days.                     *)
SpanKept(q) ==
  period[q].status # "undefined" =>
    /\ period'[q].status # "undefined"
    /\ period'[q].first = period[q].first
    /\ period'[q].last = period[q].last

(* What a lifecycle command of period p leaves alone.                      *)
LEMMA LifecycleFrame ==
  ASSUME TypeOK, NEW p \in Period, NEW v \in 1..MaxVersion, NEW i \in Intent,
         \/ BeginClose(p, v, i)
         \/ Close(p, v, i)
         \/ \E k \in CloseKey : CloseCanonical(p, v, k, i)
         \/ Reopen(p, v, i)
  PROVE  /\ \A q \in Period : SpanKept(q)
         /\ \A q \in Period : period[q].status = "undefined" => period'[q].status = "undefined"
         /\ \A q \in Period \ {p} : period'[q] = period[q]
         /\ UNCHANGED journal
<1>1. CASE BeginClose(p, v, i)
  BY <1>1 DEF BeginClose, WriteBeginClose, SpanKept, TypeOK, PeriodRow
<1>2. CASE Close(p, v, i)
  BY <1>2 DEF Close, WriteClosed, SpanKept, TypeOK, PeriodRow
<1>3. ASSUME NEW k \in CloseKey, CloseCanonical(p, v, k, i)
      PROVE  /\ \A q \in Period : SpanKept(q)
             /\ \A q \in Period : period[q].status = "undefined" => period'[q].status = "undefined"
             /\ \A q \in Period \ {p} : period'[q] = period[q]
             /\ UNCHANGED journal
  BY <1>3 DEF CloseCanonical, WriteCanonical, WriteClosed, SpanKept, TypeOK, PeriodRow
<1>4. CASE Reopen(p, v, i)
  BY <1>4 DEF Reopen, WriteReopen, SpanKept, TypeOK, PeriodRow
<1>5. QED BY <1>1, <1>2, <1>3, <1>4

(* The posting commands never touch a period, a certificate or the book.   *)
LEMMA PostingFrame ==
  ASSUME PostingStep
  PROVE  UNCHANGED <<period, book, event, certificate>>
BY DEF PostingStep, PostJournal, CreateDraft, RedateDraft, VoidDraft, IssueDraft, WriteJournal

LEMMA SpansKept ==
  ASSUME TypeOK, [LedgerNext]_ledgerVars, NEW q \in Period
  PROVE  SpanKept(q)
<1>1. CASE UNCHANGED ledgerVars
  BY <1>1 DEF ledgerVars, SpanKept
<1>2. CASE PostingStep
  BY <1>2, PostingFrame DEF SpanKept
<1>3. ASSUME NEW p \in Period, NEW first \in Day, NEW last \in Day, DefinePeriod(p, first, last)
      PROVE  SpanKept(q)
  BY <1>3 DEF DefinePeriod, SpanKept, TypeOK, PeriodRow
<1>4. ASSUME NEW lock, NEW v, SetPostingLockDate(lock, v)
      PROVE  SpanKept(q)
  BY <1>4 DEF SetPostingLockDate, SpanKept
<1>5. QED BY <1>1, <1>2, <1>3, <1>4, LifecycleFrame DEF LedgerNext, FiscalStep

(***************************************************************************)
(* Periods never come to share a day: the trigger's overlap test, and the  *)
(* fact that no command changes the span of a period, exclude it.          *)
(***************************************************************************)
LEMMA DisjointStep ==
  ASSUME TypeOK, PeriodsDisjoint, [LedgerNext]_ledgerVars
  PROVE  PeriodsDisjoint'
<1>1. CASE UNCHANGED ledgerVars
  BY <1>1 DEF ledgerVars, PeriodsDisjoint, Covers
<1>2. CASE PostingStep
  BY <1>2, PostingFrame DEF PeriodsDisjoint, Covers
<1>3. ASSUME NEW r \in Period, NEW first \in Day, NEW last \in Day, DefinePeriod(r, first, last)
      PROVE  PeriodsDisjoint'
  <2> SUFFICES ASSUME NEW p \in Period, NEW q \in Period, NEW d \in Day,
                      Covers(p, d)', Covers(q, d)'
               PROVE  p = q
    BY DEF PeriodsDisjoint
  <2>1. \A s \in Period \ {r} : period'[s] = period[s]
    BY <1>3 DEF DefinePeriod, TypeOK
  <2>2. period'[r].first = first /\ period'[r].last = last
    BY <1>3 DEF DefinePeriod, TypeOK
  <2>3. ASSUME NEW s \in Period \ {r}, Covers(s, d)', first <= d, d <= last PROVE FALSE
    <3>1. /\ period[s].status # "undefined"
          /\ period[s].first <= d
          /\ d <= period[s].last
      BY <2>1, <2>3 DEF Covers
    <3>2. period[s].first \in Nat /\ period[s].last \in Nat
      <4>1. period[s].first \in Day \cup {0} /\ period[s].last \in Day \cup {0}
        BY DEF TypeOK, PeriodRow
      <4>2. Day \cup {0} \subseteq Nat
        BY DayAssumption
      <4>3. QED BY <4>1, <4>2
    <3>3. first \in Nat /\ last \in Nat /\ d \in Nat
      BY DayAssumption
    <3>4. first <= period[s].last /\ period[s].first <= last
      BY <2>3, <3>1, <3>2, <3>3
    <3>5. QED BY <1>3, <3>1, <3>4 DEF DefinePeriod, Overlaps
  <2>4. CASE p # r /\ q # r
    BY <2>1, <2>4 DEF PeriodsDisjoint, Covers
  <2>5. CASE p = r /\ q # r
    BY <2>2, <2>3, <2>5 DEF Covers
  <2>6. CASE p # r /\ q = r
    BY <2>2, <2>3, <2>6 DEF Covers
  <2>7. QED BY <2>4, <2>5, <2>6
<1>4. ASSUME NEW lock, NEW v, SetPostingLockDate(lock, v)
      PROVE  PeriodsDisjoint'
  BY <1>4 DEF SetPostingLockDate, PeriodsDisjoint, Covers
<1>5. ASSUME NEW p \in Period, NEW v \in 1..MaxVersion, NEW i \in Intent,
             \/ BeginClose(p, v, i)
             \/ Close(p, v, i)
             \/ \E k \in CloseKey : CloseCanonical(p, v, k, i)
             \/ Reopen(p, v, i)
      PROVE  PeriodsDisjoint'
  BY <1>5, LifecycleFrame DEF PeriodsDisjoint, Covers, SpanKept
<1>6. QED BY <1>1, <1>2, <1>3, <1>4, <1>5 DEF LedgerNext, FiscalStep

THEOREM LedgerPeriodsDisjoint == LedgerSpec => []PeriodsDisjoint
<1>1. LedgerInit => PeriodsDisjoint
  BY DEF LedgerInit, PeriodsDisjoint, Covers
<1>2. TypeOK /\ PeriodsDisjoint /\ [LedgerNext]_ledgerVars => PeriodsDisjoint'
  BY DisjointStep
<1>3. QED BY <1>1, <1>2, LedgerTypeCorrect, PTL DEF LedgerSpec
-----------------------------------------------------------------------------
(* A posting the gate lets through lands outside every closed period: some *)
(* period that accepts it covers its day, and no other period does.        *)
LEMMA PostingElsewhere ==
  ASSUME TypeOK, PeriodsDisjoint, NEW k \in Journal, NEW d \in Day, NEW a \in BOOLEAN,
         journal[k] = None, PostingDateAllowed(d, a), WriteJournal(k, d, a),
         NEW q \in Period, period[q].status = "closed"
  PROVE  /\ ~Covers(q, d)
         /\ JournalsIn(q)' = JournalsIn(q)
<1>1. PICK p \in Period : Covers(p, d) /\ period[p].status # "closed"
  BY DEF PostingDateAllowed, PeriodAccepts
<1>2. ~Covers(q, d)
  BY <1>1 DEF PeriodsDisjoint
<1>3. UNCHANGED period /\ journal' = [journal EXCEPT ![k] = [date |-> d, adjustment |-> a]]
  BY DEF WriteJournal
<1>4. ASSUME NEW j \in Journal
      PROVE  j \in JournalsIn(q)' <=> j \in JournalsIn(q)
  <2>1. CASE j = k
    BY <1>2, <1>3, <2>1 DEF JournalsIn, Posted, Covers, TypeOK
  <2>2. CASE j # k
    BY <1>3, <2>2 DEF JournalsIn, Posted, Covers, TypeOK
  <2>3. QED BY <2>1, <2>2
<1>5. JournalsIn(q) \subseteq Journal /\ JournalsIn(q)' \subseteq Journal
  BY DEF JournalsIn, Posted
<1>6. QED BY <1>2, <1>4, <1>5

(* Every step that is no posting leaves the journals alone; every posting  *)
(* has passed the gate.                                                    *)
LEMMA JournalStep ==
  ASSUME TypeOK, [LedgerNext]_ledgerVars
  PROVE  \/ UNCHANGED journal
         \/ /\ UNCHANGED <<period, certificate>>
            /\ \E k \in Journal, d \in Day, a \in BOOLEAN :
                 journal[k] = None /\ PostingDateAllowed(d, a) /\ WriteJournal(k, d, a)
<1>1. CASE UNCHANGED ledgerVars
  BY <1>1 DEF ledgerVars
<1>2. CASE FiscalStep
  BY <1>2, LifecycleFrame DEF FiscalStep, DefinePeriod, SetPostingLockDate
<1>3. ASSUME NEW k \in Journal, NEW d \in Day, NEW a \in BOOLEAN, PostJournal(k, d, a)
      PROVE  /\ UNCHANGED <<period, certificate>>
             /\ journal[k] = None /\ PostingDateAllowed(d, a) /\ WriteJournal(k, d, a)
  BY <1>3 DEF PostJournal, WriteJournal
<1>4. ASSUME NEW x \in Draft, NEW v \in 1..MaxDraftVersion, NEW k \in Journal, IssueDraft(x, v, k)
      PROVE  /\ UNCHANGED <<period, certificate>>
             /\ draft[x].date \in Day
             /\ journal[k] = None
             /\ PostingDateAllowed(draft[x].date, FALSE)
             /\ WriteJournal(k, draft[x].date, FALSE)
  BY <1>4, IssuedDate DEF IssueDraft, WriteJournal
<1>5. CASE \/ \E x \in Draft, d \in Day : CreateDraft(x, d)
           \/ \E x \in Draft, v \in 1..MaxDraftVersion, d \in Day : RedateDraft(x, v, d)
           \/ \E x \in Draft, v \in 1..MaxDraftVersion : VoidDraft(x, v)
  BY <1>5 DEF CreateDraft, RedateDraft, VoidDraft
<1>6. CASE PostingStep
  BY <1>3, <1>4, <1>5, <1>6 DEF PostingStep
<1>7. QED BY <1>1, <1>2, <1>6 DEF LedgerNext

LEMMA ClosedStep ==
  ASSUME TypeOK, PeriodsDisjoint, [LedgerNext]_ledgerVars,
         NEW p \in Period, period[p].status = "closed"
  PROVE  JournalsIn(p)' = JournalsIn(p)
<1>1. CASE UNCHANGED journal
  BY <1>1, SpansKept DEF SpanKept, JournalsIn, Posted, Covers
<1>2. ASSUME NEW k \in Journal, NEW d \in Day, NEW a \in BOOLEAN,
             journal[k] = None, PostingDateAllowed(d, a), WriteJournal(k, d, a)
      PROVE  JournalsIn(p)' = JournalsIn(p)
  BY <1>2, PostingElsewhere
<1>3. QED BY <1>1, <1>2, JournalStep

(***************************************************************************)
(* No journal is ever posted into a period that is closed, by whichever    *)
(* command it was closed and wherever the posting-lock date has been moved *)
(* since.                                                                  *)
(***************************************************************************)
THEOREM LedgerClosedPeriodsStable == LedgerSpec => ClosedPeriodsStable
<1>1. TypeOK /\ PeriodsDisjoint /\ [LedgerNext]_ledgerVars =>
        [\A p \in Period :
           period[p].status = "closed" /\ period'[p].status = "closed"
             => JournalsIn(p)' = JournalsIn(p)]_ledgerVars
  BY ClosedStep
<1>2. QED
  BY <1>1, LedgerTypeCorrect, LedgerPeriodsDisjoint, PTL DEF LedgerSpec, ClosedPeriodsStable
-----------------------------------------------------------------------------
(***************************************************************************)
(* The strengthening of CertifiedPeriodFrozen that is inductive: what is   *)
(* certified was posted, so a later posting is no certified fact; a        *)
(* certified period is defined.  That a key closes once, so that a later   *)
(* close supersedes the earlier one, is a guard of CloseCanonical.         *)
(***************************************************************************)
CertificateInv ==
  /\ \A c \in certificate : c.facts \subseteq Posted /\ period[c.period].status # "undefined"
  /\ CertifiedPeriodFrozen

(* A lifecycle command of a period leaves none of its old certificates     *)
(* current.                                                                *)
LEMMA SupersededByLifecycle ==
  ASSUME TypeOK, NEW c \in certificate, NEW p \in Period, NEW v \in 1..MaxVersion,
         NEW i \in Intent,
         \/ BeginClose(p, v, i)
         \/ Close(p, v, i)
         \/ \E k \in CloseKey : CloseCanonical(p, v, k, i)
         \/ Reopen(p, v, i),
         Current(c)'
  PROVE  c.period # p
<1> SUFFICES ASSUME c.period = p PROVE FALSE
  OBVIOUS
<1>1. CASE BeginClose(p, v, i)
  BY <1>1 DEF BeginClose, WriteBeginClose, Current, TypeOK, PeriodRow
<1>2. CASE Close(p, v, i)
  <2>1. period'[p].closeEvent = CloseEvent(p, v)
    BY <1>2 DEF Close, WriteClosed, TypeOK, PeriodRow
  <2>2. c.key \in CloseKey
    BY DEF TypeOK, CertificateRow
  <2>3. QED BY <2>1, <2>2, EventKeys DEF Current
<1>3. ASSUME NEW k \in CloseKey, CloseCanonical(p, v, k, i)
      PROVE  FALSE
  <2>1. period'[p].closeEvent = CanonicalEvent(k)
    BY <1>3 DEF CloseCanonical, WriteCanonical, WriteClosed, TypeOK, PeriodRow
  <2>2. c.key \in CloseKey /\ c.key # k
    BY <1>3 DEF TypeOK, CertificateRow, CloseCanonical
  <2>3. QED BY <2>1, <2>2, EventKeys DEF Current
<1>4. CASE Reopen(p, v, i)
  BY <1>4 DEF Reopen, WriteReopen, Current, TypeOK, PeriodRow
<1>5. QED BY <1>1, <1>2, <1>3, <1>4

(* An old certificate still current after a step was current before it.    *)
LEMMA StaysCurrent ==
  ASSUME TypeOK, CertificateInv, [LedgerNext]_ledgerVars, NEW c \in certificate, Current(c)'
  PROVE  Current(c)
<1>0. c.period \in Period
  BY DEF TypeOK, CertificateRow
<1>1. CASE UNCHANGED period
  BY <1>1 DEF Current
<1>2. ASSUME NEW p \in Period, NEW first \in Day, NEW last \in Day, DefinePeriod(p, first, last)
      PROVE  Current(c)
  BY <1>0, <1>2 DEF DefinePeriod, Current, TypeOK, CertificateInv
<1>3. ASSUME NEW p \in Period, NEW v \in 1..MaxVersion, NEW i \in Intent,
             \/ BeginClose(p, v, i)
             \/ Close(p, v, i)
             \/ \E k \in CloseKey : CloseCanonical(p, v, k, i)
             \/ Reopen(p, v, i)
      PROVE  Current(c)
  <2>1. c.period # p
    BY <1>3, SupersededByLifecycle
  <2>2. period'[c.period] = period[c.period]
    BY <1>0, <1>3, <2>1, LifecycleFrame
  <2>3. QED BY <2>2 DEF Current
<1>4. QED
  BY <1>1, <1>2, <1>3, PostingFrame DEF LedgerNext, FiscalStep, SetPostingLockDate, ledgerVars

(* The facts a certificate lists, and the dates of the journals in them,   *)
(* do not change, and neither do the journals of its closed period.        *)
LEMMA FrozenStep ==
  ASSUME TypeOK, PeriodsDisjoint, CertificateInv, [LedgerNext]_ledgerVars,
         NEW c \in certificate, Current(c)'
  PROVE  JournalsIn(c.period)' = {k \in c.facts : Covers(c.period, journal[k].date)}'
<1>1. Current(c) /\ c.period \in Period /\ period[c.period].status = "closed"
  BY StaysCurrent DEF Current, TypeOK, CertificateRow
<1>2. JournalsIn(c.period)' = JournalsIn(c.period)
  BY <1>1, ClosedStep
<1>3. c.facts \subseteq Posted
  BY DEF CertificateInv
<1>4. \A k \in c.facts : journal'[k] = journal[k]
  BY <1>3, JournalStep DEF Posted, WriteJournal, TypeOK
<1>5. \A d : Covers(c.period, d)' <=> Covers(c.period, d)
  BY <1>1, SpansKept DEF SpanKept, Covers
<1>6. {k \in c.facts : Covers(c.period, journal[k].date)}'
        = {k \in c.facts : Covers(c.period, journal[k].date)}
  BY <1>4, <1>5 DEF Covers
<1>7. QED BY <1>1, <1>2, <1>6 DEF CertificateInv, CertifiedPeriodFrozen

LEMMA CertificateStep ==
  ASSUME TypeOK, PeriodsDisjoint, CertificateInv, [LedgerNext]_ledgerVars
  PROVE  CertificateInv'
<1>1. \A c \in certificate : c.facts \subseteq Posted'
  BY JournalStep DEF CertificateInv, Posted, WriteJournal, TypeOK, JournalRow
<1>2. \A c \in certificate : period'[c.period].status # "undefined"
  BY SpansKept DEF SpanKept, CertificateInv, TypeOK, CertificateRow
<1>3. \A c \in certificate :
        Current(c)' => JournalsIn(c.period)' = {k \in c.facts : Covers(c.period, journal[k].date)}'
  BY FrozenStep
<1>4. CASE UNCHANGED certificate
  BY <1>1, <1>2, <1>3, <1>4 DEF CertificateInv, CertifiedPeriodFrozen
<1>5. ASSUME NEW p \in Period, NEW v \in 1..MaxVersion, NEW k \in CloseKey,
             NEW i \in Intent, CloseCanonical(p, v, k, i)
      PROVE  CertificateInv'
  <2> DEFINE new == [key |-> k, period |-> p, prior |-> v, intent |-> i,
                     token |-> ReviewToken(p), facts |-> JournalsThrough(p)]
  <2>1. certificate' = certificate \cup {new} /\ UNCHANGED journal
    BY <1>5 DEF CloseCanonical, WriteCanonical, WriteClosed
  <2>2. new.facts \subseteq Posted' /\ period'[p].status # "undefined"
    BY <1>5, <2>1 DEF CloseCanonical, WriteCanonical, WriteClosed, JournalsThrough, Posted,
                      TypeOK, PeriodRow
  <2>3. JournalsIn(p) = {j \in JournalsThrough(p) : Covers(p, journal[j].date)}
    BY DEF JournalsIn, JournalsThrough, Covers
  <2>4. period[p].status # "undefined"
    BY <1>5 DEF CloseCanonical
  <2>5. SpanKept(p)
    BY <1>5, LifecycleFrame
  <2>6. JournalsIn(p)' = {j \in JournalsThrough(p) : Covers(p, journal[j].date)'}
    <3>1. JournalsIn(p)' = JournalsIn(p)
      BY <2>1, <2>4, <2>5 DEF JournalsIn, Posted, Covers, SpanKept
    <3>2. {j \in JournalsThrough(p) : Covers(p, journal[j].date)'}
            = {j \in JournalsThrough(p) : Covers(p, journal[j].date)}
      BY <2>1, <2>4, <2>5 DEF Covers, SpanKept
    <3>3. QED BY <2>3, <3>1, <3>2
  <2>7. QED
    BY <1>1, <1>2, <1>3, <2>1, <2>2, <2>6 DEF CertificateInv, CertifiedPeriodFrozen
<1>6. CASE PostingStep
  BY <1>4, <1>6, PostingFrame
<1>7. CASE UNCHANGED ledgerVars
  BY <1>4, <1>7 DEF ledgerVars
<1>8. CASE FiscalStep
  BY <1>4, <1>5, <1>8 DEF FiscalStep, DefinePeriod, BeginClose, WriteBeginClose, Close, Reopen,
                          WriteReopen, SetPostingLockDate
<1>9. QED BY <1>6, <1>7, <1>8 DEF LedgerNext

(***************************************************************************)
(* As long as a period stays closed by a canonical close, its posted       *)
(* journals are exactly the ones that close certified.                     *)
(***************************************************************************)
THEOREM LedgerCertifiedPeriodFrozen == LedgerSpec => []CertifiedPeriodFrozen
<1>1. LedgerInit => CertificateInv
  BY DEF LedgerInit, CertificateInv, CertifiedPeriodFrozen
<1>2. TypeOK /\ PeriodsDisjoint /\ CertificateInv /\ [LedgerNext]_ledgerVars => CertificateInv'
  BY CertificateStep
<1>3. CertificateInv => CertifiedPeriodFrozen
  BY DEF CertificateInv
<1>4. QED
  BY <1>1, <1>2, <1>3, LedgerTypeCorrect, LedgerPeriodsDisjoint, PTL DEF LedgerSpec

-----------------------------------------------------------------------------
(* The key of an event tells the command it records: its kind, period and  *)
(* expected version, or the certificate of the canonical close.            *)
KeyTells(e) ==
  \/ e.key = BeginEvent(e.period, e.prior) /\ e.to = "closing"
  \/ e.key = CloseEvent(e.period, e.prior) /\ e.to = "closed"
  \/ e.key = ReopenEvent(e.period, e.prior) /\ e.to = "open"
  \/ /\ e.to = "closed"
     /\ \E x \in certificate :
          /\ e.key = CanonicalEvent(x.key)
          /\ x.period = e.period /\ x.prior = e.prior /\ x.intent = e.intent

(* The row of a period is what its latest event made of it. *)
RowTells(e) ==
  e.prior = period[e.period].version - 1 =>
    /\ period[e.period].status = e.to
    /\ e.to = "closed" => period[e.period].closeEvent = e.key
    /\ e.to = "open" => period[e.period].reopenEvent = e.key

(* An event may follow the one before it. *)
Follows(e) ==
  /\ e.prior = 1 => <<"open", e.to>> \in LegalTransition
  /\ \A f \in event :
       f.period = e.period /\ f.prior = e.prior - 1 => <<f.to, e.to>> \in LegalTransition

Recorded(x) ==
  \E e \in event :
    /\ e.key = CanonicalEvent(x.key)
    /\ e.period = x.period /\ e.prior = x.prior /\ e.intent = x.intent

RowsBegin ==
  \A p \in Period :
    /\ period[p].version = 0 <=> period[p].status = "undefined"
    /\ period[p].version = 1 => period[p].status = "open"
    /\ \A v \in 1..(period[p].version - 1) : \E e \in event : e.period = p /\ e.prior = v

(***************************************************************************)
(* The strengthening of EventChain that is inductive.  Keys are told apart *)
(* by what they record, and a canonical close by its certificate, so that  *)
(* no key can be used twice; the row agrees with its latest event, so that *)
(* the next one, whose guard reads the row, may follow it.                 *)
(***************************************************************************)
HistoryInv ==
  /\ RowsBegin
  /\ \A e \in event :
       e.prior < period[e.period].version /\ KeyTells(e) /\ RowTells(e) /\ Follows(e)
  /\ \A e, f \in event : e.period = f.period /\ e.prior = f.prior => e = f
  /\ \A x \in certificate : Recorded(x)
  /\ \A x, y \in certificate : x.key = y.key => x = y

(* A transition of p from version v to a status it may lead to, recorded   *)
(* under a key of its own.                                                 *)
LEMMA TransitKeepsHistory ==
  ASSUME TypeOK, HistoryInv, NEW p \in Period, NEW v \in 1..MaxVersion, NEW to \in Transition,
         NEW key, NEW i \in Intent, Transit(p, v, to, key, i),
         <<period[p].status, to>> \in LegalTransition,
         period'[p].version = v + 1, period'[p].status = to,
         to = "closed" => period'[p].closeEvent = key,
         to = "open" => period'[p].reopenEvent = key,
         \A q \in Period \ {p} : period'[q] = period[q],
         certificate \subseteq certificate',
         KeyTells([key |-> key, period |-> p, to |-> to, prior |-> v, intent |-> i])',
         \A x \in certificate' \ certificate :
           /\ key = CanonicalEvent(x.key) /\ x.period = p /\ x.prior = v /\ x.intent = i
           /\ \A y \in certificate : x.key # y.key,
         \A x, y \in certificate' \ certificate : x = y
  PROVE  HistoryInv'
<1> DEFINE new == [key |-> key, period |-> p, to |-> to, prior |-> v, intent |-> i]
<1>1. event' = event \cup {new} /\ period[p].version = v
  BY DEF Transit
<1>2. new.key = key /\ new.period = p /\ new.to = to /\ new.prior = v /\ new.intent = i
  OBVIOUS
<1>3. /\ v \in Nat /\ v >= 1
      /\ \A q \in Period : period[q].version \in Nat
      /\ \A e \in event : e.period \in Period /\ e.prior \in Nat /\ e.prior >= 1
  BY BoundAssumption DEF TypeOK, PeriodRow, EventRow
<1>4. to \in {"closing", "closed", "open"}
  BY DEF Transition
<1>. HIDE DEF new
<1>5. \A e \in event : e.period = p => e.prior < v
  BY <1>1 DEF HistoryInv
<1>6. RowsBegin'
  <2>1. ASSUME NEW q \in Period
        PROVE  /\ period'[q].version = 0 <=> period'[q].status = "undefined"
               /\ period'[q].version = 1 => period'[q].status = "open"
    BY <1>3, <1>4 DEF HistoryInv, RowsBegin
  <2>2. ASSUME NEW q \in Period, NEW u \in 1..(period'[q].version - 1)
        PROVE  \E e \in event' : e.period = q /\ e.prior = u
    <3>1. CASE q # p
      BY <1>1, <2>2, <3>1 DEF HistoryInv, RowsBegin
    <3>2. CASE q = p /\ u = v
      BY <1>1, <1>2, <3>2
    <3>3. CASE q = p /\ u # v
      <4>1. u \in 1..(period[p].version - 1)
        BY <1>1, <1>3, <2>2, <3>3
      <4>. QED  BY <1>1, <3>3, <4>1 DEF HistoryInv, RowsBegin
    <3>. QED  BY <3>1, <3>2, <3>3
  <2>. QED  BY <2>1, <2>2 DEF RowsBegin
<1>7. ASSUME NEW e \in event
      PROVE  e.prior < period'[e.period].version /\ KeyTells(e)' /\ RowTells(e)' /\ Follows(e)'
  <2>1. e.prior < period[e.period].version /\ KeyTells(e) /\ RowTells(e) /\ Follows(e)
    BY DEF HistoryInv
  <2>2. e.prior < period'[e.period].version /\ RowTells(e)'
    BY <1>1, <1>3, <1>5, <2>1 DEF RowTells
  <2>3. KeyTells(e)'
    BY <2>1 DEF KeyTells
  <2>4. Follows(e)'
    BY <1>1, <1>2, <1>3, <1>5, <2>1 DEF Follows
  <2>. QED  BY <2>2, <2>3, <2>4
<1>8. new.prior < period'[new.period].version /\ KeyTells(new)' /\ RowTells(new)' /\ Follows(new)'
  <2>1. KeyTells(new)'
    BY DEF new
  <2>2. new.prior < period'[new.period].version /\ RowTells(new)'
    BY <1>2, <1>3 DEF RowTells
  <2>3. v = 1 => period[p].status = "open"
    BY <1>1 DEF HistoryInv, RowsBegin
  <2>4. ASSUME NEW f \in event, f.period = p, f.prior = v - 1
        PROVE  period[p].status = f.to
    BY <1>1, <2>4 DEF HistoryInv, RowTells
  <2>5. Follows(new)'
    BY <1>1, <1>2, <1>3, <2>3, <2>4 DEF Follows
  <2>. QED  BY <2>1, <2>2, <2>5
<1>9. \A e, f \in event' : e.period = f.period /\ e.prior = f.prior => e = f
  BY <1>1, <1>2, <1>3, <1>5 DEF HistoryInv
<1>10. \A x \in certificate' : Recorded(x)'
  BY <1>1, <1>2 DEF HistoryInv, Recorded
<1>11. \A x, y \in certificate' : x.key = y.key => x = y
  BY DEF HistoryInv
<1>. QED  BY <1>1, <1>6, <1>7, <1>8, <1>9, <1>10, <1>11 DEF HistoryInv

LEMMA KeysDiffer ==
  ASSUME NEW p, NEW v, NEW q, NEW u, NEW k
  PROVE  /\ BeginEvent(p, v) # CloseEvent(q, u) /\ BeginEvent(p, v) # ReopenEvent(q, u)
         /\ CloseEvent(p, v) # ReopenEvent(q, u)
         /\ CanonicalEvent(k) # BeginEvent(p, v) /\ CanonicalEvent(k) # CloseEvent(p, v)
         /\ CanonicalEvent(k) # ReopenEvent(p, v)
BY DEF BeginEvent, CloseEvent, ReopenEvent, CanonicalEvent

LEMMA KeysAgree ==
  /\ \A p, v, q, u : BeginEvent(p, v) = BeginEvent(q, u) => p = q /\ v = u
  /\ \A p, v, q, u : CloseEvent(p, v) = CloseEvent(q, u) => p = q /\ v = u
  /\ \A p, v, q, u : ReopenEvent(p, v) = ReopenEvent(q, u) => p = q /\ v = u
  /\ \A k, l : CanonicalEvent(k) = CanonicalEvent(l) => k = l
BY DEF BeginEvent, CloseEvent, ReopenEvent, CanonicalEvent

LEMMA LifecycleKeepsHistory ==
  ASSUME TypeOK, HistoryInv, NEW p \in Period, NEW v \in 1..MaxVersion, NEW i \in Intent
  PROVE  /\ BeginClose(p, v, i) => HistoryInv'
         /\ Close(p, v, i) => HistoryInv'
         /\ \A k \in CloseKey : CloseCanonical(p, v, k, i) => HistoryInv'
         /\ Reopen(p, v, i) => HistoryInv'
<1>0. period[p] \in PeriodRow /\ p \in DOMAIN period
  BY DEF TypeOK
<1>1. ASSUME BeginClose(p, v, i) PROVE HistoryInv'
  <2>1. /\ period[p].status = "open" /\ Transit(p, v, "closing", BeginEvent(p, v), i)
        /\ period' = [period EXCEPT ![p] = [@ EXCEPT !.status = "closing", !.version = v + 1]]
        /\ certificate' = certificate
    BY <1>1 DEF BeginClose, WriteBeginClose
  <2>2. /\ period'[p].version = v + 1 /\ period'[p].status = "closing"
        /\ \A q \in Period \ {p} : period'[q] = period[q]
    BY <1>0, <2>1 DEF TypeOK, PeriodRow
  <2>3. KeyTells([key |-> BeginEvent(p, v), period |-> p, to |-> "closing", prior |-> v,
                  intent |-> i])'
    BY DEF KeyTells
  <2>. QED  BY <2>1, <2>2, <2>3, TransitKeepsHistory DEF LegalTransition, Transition
<1>2. ASSUME Close(p, v, i) PROVE HistoryInv'
  <2>1. /\ period[p].status = "closing" /\ Transit(p, v, "closed", CloseEvent(p, v), i)
        /\ period' = [period EXCEPT ![p] =
             [@ EXCEPT !.status = "closed", !.version = v + 1, !.closeEvent = CloseEvent(p, v)]]
        /\ certificate' = certificate
    BY <1>2 DEF Close, WriteClosed
  <2>2. /\ period'[p].version = v + 1 /\ period'[p].status = "closed"
        /\ period'[p].closeEvent = CloseEvent(p, v)
        /\ \A q \in Period \ {p} : period'[q] = period[q]
    BY <1>0, <2>1 DEF TypeOK, PeriodRow
  <2>3. KeyTells([key |-> CloseEvent(p, v), period |-> p, to |-> "closed", prior |-> v,
                  intent |-> i])'
    BY DEF KeyTells
  <2>. QED  BY <2>1, <2>2, <2>3, TransitKeepsHistory DEF LegalTransition, Transition
<1>3. ASSUME NEW k \in CloseKey, CloseCanonical(p, v, k, i) PROVE HistoryInv'
  <2> DEFINE x == [key |-> k, period |-> p, prior |-> v, intent |-> i,
                   token |-> ReviewToken(p), facts |-> JournalsThrough(p)]
  <2>1. /\ period[p].status \in {"open", "closing"}
        /\ Transit(p, v, "closed", CanonicalEvent(k), i)
        /\ period' = [period EXCEPT ![p] =
             [@ EXCEPT !.status = "closed", !.version = v + 1, !.closeEvent = CanonicalEvent(k)]]
        /\ certificate' = certificate \cup {x} /\ \A y \in certificate : y.key # k
    BY <1>3 DEF CloseCanonical, WriteCanonical, WriteClosed
  <2>2. /\ period'[p].version = v + 1 /\ period'[p].status = "closed"
        /\ period'[p].closeEvent = CanonicalEvent(k)
        /\ \A q \in Period \ {p} : period'[q] = period[q]
    BY <1>0, <2>1 DEF TypeOK, PeriodRow
  <2>3. x.key = k /\ x.period = p /\ x.prior = v /\ x.intent = i
    OBVIOUS
  <2>. HIDE DEF x
  <2>4. KeyTells([key |-> CanonicalEvent(k), period |-> p, to |-> "closed", prior |-> v,
                  intent |-> i])'
    BY <2>1, <2>3 DEF KeyTells
  <2>. QED  BY <2>1, <2>2, <2>3, <2>4, TransitKeepsHistory DEF LegalTransition, Transition
<1>4. ASSUME Reopen(p, v, i) PROVE HistoryInv'
  <2>1. /\ period[p].status = "closed" /\ Transit(p, v, "open", ReopenEvent(p, v), i)
        /\ period' = [period EXCEPT ![p] =
             [@ EXCEPT !.status = "open", !.version = v + 1, !.reopenEvent = ReopenEvent(p, v)]]
        /\ certificate' = certificate
    BY <1>4 DEF Reopen, WriteReopen
  <2>2. /\ period'[p].version = v + 1 /\ period'[p].status = "open"
        /\ period'[p].reopenEvent = ReopenEvent(p, v)
        /\ \A q \in Period \ {p} : period'[q] = period[q]
    BY <1>0, <2>1 DEF TypeOK, PeriodRow
  <2>3. KeyTells([key |-> ReopenEvent(p, v), period |-> p, to |-> "open", prior |-> v,
                  intent |-> i])'
    BY DEF KeyTells
  <2>. QED  BY <2>1, <2>2, <2>3, TransitKeepsHistory DEF LegalTransition, Transition
<1>. QED  BY <1>1, <1>2, <1>3, <1>4

LEMMA SameHistory ==
  ASSUME HistoryInv, UNCHANGED <<period, event, certificate>>
  PROVE  HistoryInv'
BY DEF HistoryInv, RowsBegin, KeyTells, RowTells, Follows, Recorded

LEMMA DefineKeepsHistory ==
  ASSUME TypeOK, HistoryInv, NEW p \in Period, NEW first \in Day, NEW last \in Day,
         DefinePeriod(p, first, last)
  PROVE  HistoryInv'
<1>1. /\ period[p].status = "undefined" /\ UNCHANGED <<event, certificate>>
      /\ period'[p].version = 1 /\ period'[p].status = "open"
      /\ \A q \in Period \ {p} : period'[q] = period[q]
  BY DEF DefinePeriod, TypeOK
<1>2. period[p].version = 0
  BY <1>1 DEF HistoryInv, RowsBegin
<1>3. \A e \in event : e.period \in Period /\ e.prior \in Nat /\ e.prior >= 1
  BY BoundAssumption DEF TypeOK, EventRow
<1>4. \A e \in event : e.period # p
  BY <1>2, <1>3 DEF HistoryInv
<1>5. RowsBegin'
  BY <1>1 DEF HistoryInv, RowsBegin
<1>6. \A e \in event :
        e.prior < period'[e.period].version /\ KeyTells(e)' /\ RowTells(e)' /\ Follows(e)'
  <2>1. ASSUME NEW e \in event
        PROVE  /\ e.prior < period'[e.period].version
               /\ KeyTells(e)' /\ RowTells(e)' /\ Follows(e)'
    <3>1. e.prior < period[e.period].version /\ KeyTells(e) /\ RowTells(e) /\ Follows(e)
      BY DEF HistoryInv
    <3>2. period'[e.period] = period[e.period]
      BY <1>1, <1>3, <1>4
    <3>3. KeyTells(e)' /\ RowTells(e)'
      BY <1>1, <3>1, <3>2 DEF KeyTells, RowTells
    <3>4. Follows(e)'
      BY <1>1, <3>1 DEF Follows
    <3>. QED  BY <3>1, <3>2, <3>3, <3>4
  <2>. QED  BY <1>1, <2>1
<1>7. \A x \in certificate : Recorded(x)'
  BY <1>1 DEF HistoryInv, Recorded
<1>. QED  BY <1>1, <1>5, <1>6, <1>7 DEF HistoryInv

LEMMA HistoryStep ==
  ASSUME TypeOK, HistoryInv, [LedgerNext]_ledgerVars
  PROVE  HistoryInv'
<1>1. CASE UNCHANGED ledgerVars
  BY <1>1, SameHistory DEF ledgerVars
<1>2. CASE PostingStep
  BY <1>2, PostingFrame, SameHistory
<1>3. ASSUME NEW lock, NEW v, SetPostingLockDate(lock, v) PROVE HistoryInv'
  BY <1>3, SameHistory DEF SetPostingLockDate
<1>4. CASE FiscalStep
  BY <1>3, <1>4, DefineKeepsHistory, LifecycleKeepsHistory DEF FiscalStep
<1>. QED  BY <1>1, <1>2, <1>4 DEF LedgerNext

(* Keys are told apart, and statuses follow from events. *)
LEMMA HistoryTells ==
  ASSUME TypeOK, HistoryInv
  PROVE  EventChain
<1>1. \A e \in event : e.period \in Period /\ e.prior \in Nat /\ e.prior >= 1
  BY BoundAssumption DEF TypeOK, EventRow
<1>2. \A p \in Period : period[p].version \in Nat
  BY BoundAssumption DEF TypeOK, PeriodRow
<1>3. ASSUME NEW e \in event, NEW f \in event, e.key = f.key PROVE e = f
  <2>1. KeyTells(e) /\ KeyTells(f)
    BY DEF HistoryInv
  <2>2. CASE \A x \in certificate : e.key # CanonicalEvent(x.key)
    <3>1. \/ e.key = BeginEvent(e.period, e.prior) \/ e.key = CloseEvent(e.period, e.prior)
          \/ e.key = ReopenEvent(e.period, e.prior)
      BY <2>1, <2>2 DEF KeyTells
    <3>2. \/ f.key = BeginEvent(f.period, f.prior) \/ f.key = CloseEvent(f.period, f.prior)
          \/ f.key = ReopenEvent(f.period, f.prior)
      BY <1>3, <2>1, <2>2 DEF KeyTells
    <3>. SUFFICES e.period = f.period /\ e.prior = f.prior
      BY DEF HistoryInv
    <3>3. CASE e.key = BeginEvent(e.period, e.prior)
      <4>1. f.key = BeginEvent(f.period, f.prior)
        BY <1>3, <3>2, <3>3 DEF BeginEvent, CloseEvent, ReopenEvent
      <4>2. BeginEvent(e.period, e.prior) = BeginEvent(f.period, f.prior)
        BY <1>3, <3>3, <4>1
      <4>. QED  BY <4>2, KeysAgree
    <3>4. CASE e.key = CloseEvent(e.period, e.prior)
      <4>1. f.key = CloseEvent(f.period, f.prior)
        BY <1>3, <3>2, <3>4 DEF BeginEvent, CloseEvent, ReopenEvent
      <4>2. CloseEvent(e.period, e.prior) = CloseEvent(f.period, f.prior)
        BY <1>3, <3>4, <4>1
      <4>. QED  BY <4>2, KeysAgree
    <3>5. CASE e.key = ReopenEvent(e.period, e.prior)
      <4>1. f.key = ReopenEvent(f.period, f.prior)
        BY <1>3, <3>2, <3>5 DEF BeginEvent, CloseEvent, ReopenEvent
      <4>2. ReopenEvent(e.period, e.prior) = ReopenEvent(f.period, f.prior)
        BY <1>3, <3>5, <4>1
      <4>. QED  BY <4>2, KeysAgree
    <3>. QED  BY <3>1, <3>3, <3>4, <3>5
  <2>3. ASSUME NEW x \in certificate, e.key = CanonicalEvent(x.key) PROVE e = f
    <3>1. ASSUME NEW g \in event, KeyTells(g), g.key = CanonicalEvent(x.key)
          PROVE  x.period = g.period /\ x.prior = g.prior
      <4>1. PICK y \in certificate :
              g.key = CanonicalEvent(y.key) /\ y.period = g.period /\ y.prior = g.prior
        BY <3>1, KeysDiffer DEF KeyTells
      <4>2. y.key = x.key
        BY <3>1, <4>1, KeysAgree
      <4>. QED  BY <4>1, <4>2 DEF HistoryInv
    <3>2. e.period = f.period /\ e.prior = f.prior
      BY <1>3, <2>1, <2>3, <3>1
    <3>. QED  BY <3>2 DEF HistoryInv
  <2>. QED  BY <2>2, <2>3
<1>4. ASSUME NEW p \in Period, NEW f \in event, f.period = p
      PROVE  StatusAt(p, f.prior + 1) = f.to
  <2>1. f \in EventsOf(p) /\ f.prior + 1 # 1 /\ (f.prior + 1) - 1 = f.prior
    BY <1>1, <1>4 DEF EventsOf
  <2>2. \A e \in EventsOf(p) : e.prior = f.prior => e = f
    BY <1>4 DEF HistoryInv, EventsOf
  <2>3. (CHOOSE e \in EventsOf(p) : e.prior = f.prior) = f
    BY <2>1, <2>2
  <2>. QED  BY <2>1, <2>3 DEF StatusAt
<1>5. ASSUME NEW p \in Period, NEW u \in 1..period[p].version, u # 1
      PROVE  \E f \in event : f.period = p /\ f.prior = u - 1
  <2>1. u - 1 \in 1..(period[p].version - 1)
    BY <1>2, <1>5
  <2>. QED  BY <2>1 DEF HistoryInv, RowsBegin
<1>6. ASSUME NEW p \in Period, NEW e \in EventsOf(p)
      PROVE  e.prior < period[p].version /\ <<StatusAt(p, e.prior), e.to>> \in LegalTransition
  <2>1. e \in event /\ e.period = p /\ e.prior < period[p].version /\ Follows(e)
    BY DEF EventsOf, HistoryInv
  <2>2. CASE e.prior = 1
    BY <2>1, <2>2 DEF Follows, StatusAt
  <2>3. CASE e.prior # 1
    <3>1. e.prior \in 1..period[p].version
      BY <1>1, <1>2, <2>1
    <3>2. PICK f \in event : f.period = p /\ f.prior = e.prior - 1
      BY <1>5, <2>3, <3>1
    <3>3. f.prior + 1 = e.prior
      BY <1>1, <2>1, <3>2
    <3>4. StatusAt(p, e.prior) = f.to
      BY <1>4, <3>2, <3>3
    <3>. QED  BY <2>1, <3>2, <3>4 DEF Follows
  <2>. QED  BY <2>2, <2>3
<1>7. ASSUME NEW p \in Period, period[p].version > 0
      PROVE  StatusAt(p, period[p].version) = period[p].status
  <2>1. CASE period[p].version = 1
    BY <2>1 DEF StatusAt, HistoryInv, RowsBegin
  <2>2. CASE period[p].version # 1
    <3>1. period[p].version \in 1..period[p].version
      BY <1>2, <1>7
    <3>2. PICK f \in event : f.period = p /\ f.prior = period[p].version - 1
      BY <1>5, <2>2, <3>1
    <3>3. f.prior + 1 = period[p].version /\ period[p].status = f.to
      BY <1>1, <1>2, <3>2 DEF HistoryInv, RowTells
    <3>. QED  BY <1>4, <3>2, <3>3
  <2>. QED  BY <2>1, <2>2
<1>8. \A p \in Period : \A v \in 1..(period[p].version - 1) : \E e \in EventsOf(p) : e.prior = v
  BY DEF HistoryInv, RowsBegin, EventsOf
<1>9. \A e, f \in event :
        e.key = f.key \/ (e.period = f.period /\ e.prior = f.prior) => e = f
  BY <1>3 DEF HistoryInv
<1>. QED  BY <1>6, <1>7, <1>8, <1>9 DEF EventChain

LEMMA LedgerHistory == LedgerSpec => []HistoryInv
<1>1. LedgerInit => HistoryInv
  BY DEF LedgerInit, HistoryInv, RowsBegin
<1>2. TypeOK /\ HistoryInv /\ [LedgerNext]_ledgerVars => HistoryInv'
  BY HistoryStep
<1>. QED  BY <1>1, <1>2, LedgerTypeCorrect, PTL DEF LedgerSpec

(***************************************************************************)
(* The events of a period are its complete and legal history, and no       *)
(* idempotency key is used twice: what assertFiscalReplay looks up is the  *)
(* transition that the retried command made, or another's.                 *)
(***************************************************************************)
THEOREM LedgerEventChain == LedgerSpec => []EventChain
<1>1. TypeOK /\ HistoryInv => EventChain
  BY HistoryTells
<1>. QED  BY <1>1, LedgerHistory, LedgerTypeCorrect, PTL
-----------------------------------------------------------------------------
(* Revisions of the days through a cutoff that have not moved tell that    *)
(* the journals through it are the ones behind the token.                  *)
Agrees(token, seen) ==
  /\ \A d \in Day : d <= token.row.last => token.revision[d] <= revision[d]
  /\ (\A d \in Day : d <= token.row.last => token.revision[d] = revision[d])
       => {k \in Posted : journal[k].date <= token.row.last} = seen

LEMMA TouchAdvances ==
  ASSUME TypeOK, NEW S, Touch(S), NEW d \in Day
  PROVE  /\ revision[d] \in Nat /\ revision'[d] \in Nat
         /\ revision[d] <= revision'[d]
         /\ d \in S => revision'[d] = revision[d] + 1
BY DEF TypeOK, Touch

LEMMA RevisionsAdvance ==
  ASSUME TypeOK, [LedgerNext]_ledgerVars, NEW d \in Day
  PROVE  revision[d] \in Nat /\ revision'[d] \in Nat /\ revision[d] <= revision'[d]
<1>1. revision[d] \in Nat
  BY DEF TypeOK
<1>2. CASE UNCHANGED revision
  BY <1>1, <1>2
<1>3. CASE FiscalStep
  BY <1>2, <1>3 DEF FiscalStep, DefinePeriod, BeginClose, WriteBeginClose, Close, CloseCanonical,
     WriteCanonical, WriteClosed, Reopen, WriteReopen, SetPostingLockDate
<1>4. CASE PostingStep
  BY <1>4, TouchAdvances DEF PostingStep, PostJournal, IssueDraft, WriteJournal, CreateDraft,
     RedateDraft, VoidDraft
<1>. QED  BY <1>2, <1>3, <1>4 DEF LedgerNext, ledgerVars

LEMMA AgreesStep ==
  ASSUME TypeOK, [LedgerNext]_ledgerVars, NEW token \in Token, NEW seen, Agrees(token, seen)
  PROVE  Agrees(token, seen)'
<1>1. token.revision \in [Day -> Nat] /\ \A d \in Day : token.revision[d] \in Nat
  BY DEF Token
<1>2. \A d \in Day : d <= token.row.last => token.revision[d] <= revision[d]
  BY DEF Agrees
<1>3. \A d \in Day : d <= token.row.last => token.revision[d] <= revision'[d]
  BY <1>1, <1>2, RevisionsAdvance
<1>4. ASSUME \A d \in Day : d <= token.row.last => token.revision[d] = revision'[d]
      PROVE  {k \in Posted : journal[k].date <= token.row.last}' = seen
  <2>1. \A d \in Day : d <= token.row.last => token.revision[d] = revision[d]
    BY <1>1, <1>2, <1>4, RevisionsAdvance
  <2>2. {k \in Posted : journal[k].date <= token.row.last} = seen
    BY <2>1 DEF Agrees
  <2>3. CASE UNCHANGED journal
    BY <2>2, <2>3 DEF Posted
  <2>4. ASSUME NEW k \in Journal, NEW d \in Day, NEW a \in BOOLEAN, journal[k] = None,
               WriteJournal(k, d, a)
        PROVE  {j \in Posted : journal[j].date <= token.row.last}' = seen
    <3>1. revision'[d] = revision[d] + 1 /\ revision[d] \in Nat
      BY <2>4, TouchAdvances DEF WriteJournal
    <3>2. ~(d <= token.row.last)
      BY <1>4, <2>1, <3>1
    <3>3. journal' = [journal EXCEPT ![k] = [date |-> d, adjustment |-> a]]
      BY <2>4 DEF WriteJournal
    <3>4. \A j \in Journal :
            j \in Posted' /\ journal'[j].date <= token.row.last
              <=> j \in Posted /\ journal[j].date <= token.row.last
      <4>1. journal'[k].date = d /\ k \notin Posted
        BY <2>4, <3>3 DEF TypeOK, Posted
      <4>2. \A j \in Journal : j # k => journal'[j] = journal[j]
        BY <3>3 DEF TypeOK
      <4>. QED  BY <3>2, <4>1, <4>2 DEF Posted
    <3>5. Posted \subseteq Journal /\ Posted' \subseteq Journal
      BY DEF Posted
    <3>. QED  BY <2>2, <3>4, <3>5
  <2>. QED  BY <2>3, <2>4, JournalStep
<1>. QED  BY <1>3, <1>4 DEF Agrees

LEMMA FreshTokenAgrees ==
  ASSUME TypeOK, NEW p \in Period
  PROVE  Agrees(ReviewToken(p), JournalsThrough(p))
<1>1. /\ ReviewToken(p).row = period[p]
      /\ \A d \in Day : d <= period[p].last => ReviewToken(p).revision[d] = revision[d]
  BY DEF ReviewToken
<1>2. \A d \in Day : revision[d] \in Nat
  BY DEF TypeOK
<1>. QED  BY <1>1, <1>2 DEF Agrees, JournalsThrough

CertificatesAgree == \A x \in certificate : Agrees(x.token, x.facts)

LEMMA CertificatesAgreeStep ==
  ASSUME TypeOK, CertificatesAgree, [LedgerNext]_ledgerVars
  PROVE  CertificatesAgree'
<1>1. ASSUME NEW x \in certificate PROVE Agrees(x.token, x.facts)'
  <2>1. x.token \in Token /\ Agrees(x.token, x.facts)
    BY DEF TypeOK, CertificateRow, CertificatesAgree
  <2>. QED  BY <2>1, AgreesStep
<1>2. CASE UNCHANGED certificate
  BY <1>1, <1>2 DEF CertificatesAgree
<1>3. ASSUME NEW p \in Period, NEW v, NEW k, NEW i, CloseCanonical(p, v, k, i)
      PROVE  CertificatesAgree'
  <2> DEFINE new == [key |-> k, period |-> p, prior |-> v, intent |-> i,
                     token |-> ReviewToken(p), facts |-> JournalsThrough(p)]
  <2>1. certificate' = certificate \cup {new} /\ UNCHANGED <<journal, revision>>
    BY <1>3 DEF CloseCanonical, WriteCanonical, WriteClosed
  <2>2. Agrees(ReviewToken(p), JournalsThrough(p))
    BY FreshTokenAgrees
  <2>3. new.token = ReviewToken(p) /\ new.facts = JournalsThrough(p)
    OBVIOUS
  <2>4. PICK x : certificate' = certificate \cup {x} /\ Agrees(x.token, x.facts)
    <3>1. Agrees(new.token, new.facts)
      BY <2>2, <2>3
    <3>. HIDE DEF new
    <3>. QED  BY <2>1, <3>1
  <2>5. Agrees(x.token, x.facts)'
    BY <2>1, <2>4 DEF Agrees, Posted
  <2>. QED  BY <1>1, <2>4, <2>5 DEF CertificatesAgree
<1>4. CASE FiscalStep
  BY <1>2, <1>3, <1>4 DEF FiscalStep, DefinePeriod, BeginClose, WriteBeginClose, Close,
     Reopen, WriteReopen, SetPostingLockDate
<1>. QED  BY <1>2, <1>4, PostingFrame DEF LedgerNext, ledgerVars

LEMMA LedgerCertificatesAgree == LedgerSpec => []CertificatesAgree
<1>1. LedgerInit => CertificatesAgree
  BY DEF LedgerInit, CertificatesAgree
<1>. QED  BY <1>1, CertificatesAgreeStep, LedgerTypeCorrect, PTL DEF LedgerSpec

-----------------------------------------------------------------------------
(* A finite set of days has a latest one. *)
LEMMA FiniteHasLatest ==
  ASSUME NEW S \in SUBSET Nat, IsFiniteSet(S), S # {}
  PROVE  \E d \in S : IsLatest(d, S)
<1> DEFINE G == {T \in SUBSET S : T # {} => \E d \in T : IsLatest(d, T)}
<1>1. ASSUME NEW T \in SUBSET S, \A U \in SUBSET T : U # T => U \in G
      PROVE  T \in G
  <2>1. CASE T = {}
    BY <2>1
  <2>2. CASE T # {}
    <3>1. PICK x \in T : TRUE
      BY <2>2
    <3>2. T \ {x} \in G
      BY <1>1, <3>1
    <3>3. CASE T \ {x} = {}
      BY <3>1, <3>3 DEF IsLatest
    <3>4. CASE T \ {x} # {}
      <4>1. PICK d \in T \ {x} : IsLatest(d, T \ {x})
        BY <3>2, <3>4
      <4>2. d \in Nat /\ x \in Nat /\ \A e \in T : e \in Nat
        BY <3>1
      <4>3. CASE d <= x
        BY <3>1, <4>1, <4>2, <4>3 DEF IsLatest
      <4>4. CASE x <= d
        BY <3>1, <4>1, <4>2, <4>4 DEF IsLatest
      <4>. QED  BY <4>2, <4>3, <4>4
    <3>. QED  BY <3>3, <3>4
  <2>. QED  BY <2>1, <2>2
<1>2. SUBSET S \subseteq G
  <2>. HIDE DEF G
  <2>. QED  BY <1>1, SubsetInduction
<1>. QED  BY <1>2

Defined == {p \in Period : period[p].status # "undefined"}

(* Only finitely many periods are ever defined, though there may be any    *)
(* number to define: recomputeBookLock always finds a latest one.          *)
EndsFinite == IsFiniteSet({period[p].last : p \in Defined})

LEMMA EndsStep ==
  ASSUME TypeOK, EndsFinite, [LedgerNext]_ledgerVars
  PROVE  EndsFinite'
<1>1. CASE UNCHANGED period
  BY <1>1 DEF EndsFinite, Defined
<1>2. ASSUME NEW r \in Period, NEW first \in Day, NEW last \in Day, DefinePeriod(r, first, last)
      PROVE  EndsFinite'
  <2>1. /\ Defined' = Defined \cup {r} /\ period'[r].last = last
        /\ \A q \in Defined : period'[q].last = period[q].last
    BY <1>2 DEF DefinePeriod, Defined, TypeOK
  <2>2. {period'[p].last : p \in Defined'} = {period[p].last : p \in Defined} \cup {last}
    BY <2>1
  <2>. QED  BY <2>2, FS_AddElement DEF EndsFinite
<1>3. ASSUME NEW r \in Period, NEW v \in 1..MaxVersion, NEW i \in Intent,
             \/ BeginClose(r, v, i)
             \/ Close(r, v, i)
             \/ \E k \in CloseKey : CloseCanonical(r, v, k, i)
             \/ Reopen(r, v, i)
      PROVE  EndsFinite'
  <2>1. /\ \A q \in Period : SpanKept(q)
        /\ \A q \in Period : period[q].status = "undefined" => period'[q].status = "undefined"
    BY <1>3, LifecycleFrame
  <2>2. Defined' = Defined /\ \A q \in Defined : period'[q].last = period[q].last
    BY <2>1 DEF Defined, SpanKept
  <2>. QED  BY <2>2 DEF EndsFinite
<1>. QED
  BY <1>1, <1>2, <1>3, PostingFrame DEF LedgerNext, FiscalStep, SetPostingLockDate, ledgerVars

LEMMA DaysAreNumbers ==
  ASSUME TypeOK
  PROVE  /\ book.lock \in Nat
         /\ \A q \in Period : period[q].first \in Nat /\ period[q].last \in Nat
<1>1. Day \cup {0} \subseteq Nat
  BY DayAssumption
<1>2. book.lock \in Day \cup {0}
  BY DEF TypeOK, NoLock
<1>3. \A q \in Period : period[q].first \in Day \cup {0} /\ period[q].last \in Day \cup {0}
  BY DEF TypeOK, PeriodRow
<1>. QED  BY <1>1, <1>2, <1>3

(* What a period closed after a step has of the lock. *)
StaysLocked(p) ==
  /\ period'[p].status = "closed"
  /\ period[p].status = "closed" => period[p].last <= book.lock
  => period'[p].last <= book'.lock

LEMMA ClosingLocks ==
  ASSUME TypeOK, NEW r \in Period, NEW v \in 1..MaxVersion, NEW key, NEW i \in Intent,
         WriteClosed(r, v, key, i), NEW p \in Period
  PROVE  StaysLocked(p)
<1>1. /\ period'[p].last = period[p].last
      /\ p # r => period'[p].status = period[p].status
      /\ book'.lock = Later(book.lock, period[r].last)
  BY DEF WriteClosed, AdvanceBookLock, TypeOK, PeriodRow
<1>2. book.lock <= book'.lock /\ period[r].last <= book'.lock /\ book'.lock \in Nat
  BY <1>1, DaysAreNumbers DEF Later
<1>. QED  BY <1>1, <1>2, DaysAreNumbers DEF StaysLocked

LEMMA ReopeningLocks ==
  ASSUME TypeOK, EndsFinite, NEW r \in Period, NEW v \in 1..MaxVersion, NEW i \in Intent,
         Reopen(r, v, i), NEW p \in Period
  PROVE  StaysLocked(p)
<1>1. /\ period'[r].status = "open" /\ \A q \in Period \ {r} : period'[q] = period[q]
      /\ book'.lock = Latest(ClosedEnds(r))
  BY DEF Reopen, WriteReopen, TypeOK, PeriodRow
<1>2. SUFFICES ASSUME p # r, period[p].status = "closed"
               PROVE  period[p].last <= Latest(ClosedEnds(r))
  BY <1>1 DEF StaysLocked
<1>3. period[p].last \in ClosedEnds(r)
  BY <1>2 DEF ClosedEnds
<1>4. ClosedEnds(r) \subseteq {period[q].last : q \in Defined}
  BY DEF ClosedEnds, Defined
<1>5. IsFiniteSet(ClosedEnds(r))
  BY <1>4, FS_Subset DEF EndsFinite
<1>6. ClosedEnds(r) \subseteq Nat
  BY DaysAreNumbers DEF ClosedEnds
<1>7. \E d \in ClosedEnds(r) : IsLatest(d, ClosedEnds(r))
  BY <1>3, <1>5, <1>6, FiniteHasLatest
<1>8. IsLatest(Latest(ClosedEnds(r)), ClosedEnds(r))
  BY <1>7 DEF Latest
<1>. QED  BY <1>3, <1>8 DEF IsLatest

LEMMA LifecycleLocks ==
  ASSUME TypeOK, EndsFinite, [LedgerNext]_ledgerVars, event' # event, NEW p \in Period
  PROVE  StaysLocked(p)
<1>1. FiscalStep
  BY PostingFrame DEF LedgerNext, ledgerVars
<1>2. ASSUME NEW r \in Period, NEW v \in 1..MaxVersion, NEW i \in Intent, BeginClose(r, v, i)
      PROVE  StaysLocked(p)
  <2>1. /\ period'[r].status = "closing" /\ \A q \in Period \ {r} : period'[q] = period[q]
        /\ book' = book
    BY <1>2 DEF BeginClose, WriteBeginClose, TypeOK, PeriodRow
  <2>. QED  BY <2>1 DEF StaysLocked
<1>3. ASSUME NEW r \in Period, NEW v \in 1..MaxVersion, NEW i \in Intent, Close(r, v, i)
      PROVE  StaysLocked(p)
  BY <1>3, ClosingLocks DEF Close
<1>4. ASSUME NEW r \in Period, NEW v \in 1..MaxVersion, NEW k \in CloseKey, NEW i \in Intent,
             CloseCanonical(r, v, k, i)
      PROVE  StaysLocked(p)
  BY <1>4, ClosingLocks DEF CloseCanonical, WriteCanonical
<1>. QED
  BY <1>1, <1>2, <1>3, <1>4, ReopeningLocks DEF FiscalStep, DefinePeriod, SetPostingLockDate

(***************************************************************************)
(* Neither closing one period nor reopening another takes a closed period  *)
(* out from under the book lock: only setPostingLockDate can.              *)
(***************************************************************************)
THEOREM LedgerKeepsClosedLocked == LedgerSpec => LifecycleKeepsClosedLocked
<1>1. LedgerInit => EndsFinite
  <2>. SUFFICES ASSUME LedgerInit PROVE EndsFinite
    OBVIOUS
  <2>1. {period[p].last : p \in Defined} = {}
    BY DEF LedgerInit, Defined
  <2>. QED  BY <2>1, FS_EmptySet DEF EndsFinite
<1>2. TypeOK /\ EndsFinite /\ [LedgerNext]_ledgerVars => EndsFinite'
  BY EndsStep
<1>3. TypeOK /\ EndsFinite /\ [LedgerNext]_ledgerVars =>
        [event' # event =>
           \A p \in Period :
             /\ period'[p].status = "closed"
             /\ period[p].status = "closed" => period[p].last <= book.lock
             => period'[p].last <= book'.lock]_ledgerVars
  BY LifecycleLocks DEF StaysLocked
<1>. QED  BY <1>1, <1>2, <1>3, LedgerTypeCorrect, PTL DEF LedgerSpec, LifecycleKeepsClosedLocked
-----------------------------------------------------------------------------
(* The transactions. *)

SourcePlace == {"source", "fresh", "shared", "unlocked", "granted"}
SharedPlace == {"shared", "unlocked", "granted"}
FiscalPlace == {"exclusive", "decided", "replayed"}

HoldsSource(c) ==
  pc[c] \in SourcePlace \/ (pc[c] \in FiscalPlace /\ Kind(c) = "closeCanonical")

(* Who holds which lock is told by where the transactions are.             *)
LockInv ==
  /\ \A c \in Client :
       /\ fiscalOwner = c <=> pc[c] \in FiscalPlace
       /\ c \in fiscalSharers <=> pc[c] \in SharedPlace
       /\ sourceLock = c <=> HoldsSource(c)
       /\ pc[c] # "idle" => cmd[c] \in Command
       /\ pc[c] = "source" => Kind(c) \in SourceFirst
       /\ pc[c] \in SourcePlace \ {"source"} => Kind(c) \in PostingKind
       /\ pc[c] \in FiscalPlace => Kind(c) \in FiscalKind
  /\ fiscalOwner # None => fiscalSharers = {}

(* What a transaction has read and still relies on is still so.            *)
Gate(c) ==
  /\ pc[c] \in SourcePlace \ {"source"} => NewPosting(c) /\ date[c] = PostingDate(c)
  /\ pc[c] \in {"unlocked", "granted"} => Unlocked(date[c])
  /\ pc[c] = "granted" => PeriodAccepts(date[c], Adjustment(c))
  /\ pc[c] = "decided" => MayProceed(cmd[c])

GateInv == \A c \in Client : Gate(c)
-----------------------------------------------------------------------------
(* The parameters of a command of each kind are what its action expects.   *)
LEMMA Parameters ==
  ASSUME NEW r \in Command
  PROVE  /\ r.kind = "post" => r.journal \in Journal /\ r.date \in Day /\ r.adjustment \in BOOLEAN
         /\ r.kind = "issue" =>
              r.draft \in Draft /\ r.version \in 1..MaxDraftVersion /\ r.journal \in Journal
         /\ r.kind = "createDraft" => r.draft \in Draft /\ r.date \in Day
         /\ r.kind = "redateDraft" =>
              r.draft \in Draft /\ r.version \in 1..MaxDraftVersion /\ r.date \in Day
         /\ r.kind = "voidDraft" => r.draft \in Draft /\ r.version \in 1..MaxDraftVersion
         /\ r.kind = "define" => r.period \in Period /\ r.first \in Day /\ r.last \in Day
         /\ r.kind \in {"beginClose", "close", "reopen", "closeCanonical"} =>
              r.period \in Period /\ r.version \in 1..MaxVersion /\ r.intent \in Intent
         /\ r.kind = "closeCanonical" => r.key \in CloseKey /\ r.token \in Token
         /\ r.kind = "setLock" => r.lock \in Day \cup {NoLock} /\ r.version \in 0..MaxBookVersion
         /\ r.kind \in PostingKind \cup DraftKind \cup FiscalKind
BY DEF Command, PostCommand, IssueCommand, DraftCommand, DefineCommand, LifecycleCommand,
       CanonicalCommand, LockCommand, PostingKind, DraftKind, FiscalKind

LEMMA RequestedCommands ==
  ASSUME TypeOK
  PROVE  Requested \subseteq Command
<1>1. ASSUME NEW p \in Period, period[p].version > 0, NEW i \in Intent, NEW k \in CloseKey
      PROVE  [kind |-> "closeCanonical", period |-> p, version |-> period[p].version,
              intent |-> i, key |-> k, token |-> ReviewToken(p),
              seen |-> JournalsThrough(p)] \in CanonicalCommand
  <2>1. period[p].version \in 1..MaxVersion
    BY <1>1, BoundAssumption DEF TypeOK, PeriodRow
  <2>2. JournalsThrough(p) \subseteq Journal
    BY DEF JournalsThrough, Posted
  <2>3. QED BY <1>1, <2>1, <2>2, TokenType DEF CanonicalCommand
<1>2. ASSUME NEW x \in certificate
      PROVE  [kind |-> "closeCanonical", period |-> x.period, version |-> x.prior,
              intent |-> x.intent, key |-> x.key, token |-> x.token,
              seen |-> x.facts] \in CanonicalCommand
  BY DEF TypeOK, CertificateRow, CanonicalCommand
<1>3. QED BY <1>1, <1>2 DEF Requested, Command

(* A transaction that ends leaves every lock to the others.                *)
LEMMA FinishLocks ==
  ASSUME LockTypeOK, LockInv, NEW c \in Client, Finish(c)
  PROVE  LockInv'
<1>1. \A d \in Client \ {c} : pc'[d] = pc[d] /\ cmd'[d] = cmd[d]
  BY DEF Finish, Goto, LockTypeOK
<1>2. pc'[c] = "idle"
  BY DEF Finish, Goto, LockTypeOK
<1>3. ASSUME NEW d \in Client \ {c}
      PROVE  /\ fiscalOwner' = d <=> pc'[d] \in FiscalPlace
             /\ d \in fiscalSharers' <=> pc'[d] \in SharedPlace
             /\ sourceLock' = d <=> HoldsSource(d)'
             /\ pc'[d] # "idle" => cmd'[d] \in Command
             /\ pc'[d] = "source" => Kind(d)' \in SourceFirst
             /\ pc'[d] \in SourcePlace \ {"source"} => Kind(d)' \in PostingKind
             /\ pc'[d] \in FiscalPlace => Kind(d)' \in FiscalKind
  BY <1>1, ClientAssumption DEF LockInv, Finish, HoldsSource, Kind
<1>4. /\ fiscalOwner' # c
      /\ c \notin fiscalSharers'
      /\ sourceLock' # c
  BY ClientAssumption DEF Finish
<1>5. fiscalOwner' # None => fiscalSharers' = {}
  BY DEF Finish, LockInv
<1>6. QED
  BY <1>2, <1>3, <1>4, <1>5 DEF LockInv, HoldsSource, FiscalPlace, SharedPlace, SourcePlace

LEMMA LockStep ==
  ASSUME LockTypeOK, LockInv, [Next]_vars
  PROVE  LockInv'
<1> USE DEF LockInv, HoldsSource, FiscalPlace, SharedPlace, SourcePlace, Kind, Goto, LockTypeOK
<1>1. CASE UNCHANGED vars
  BY <1>1 DEF vars, sessionVars, lockVars
<1>2. ASSUME NEW c \in Client, NEW r \in Requested, Begin(c, r)
      PROVE  LockInv'
  BY <1>2, RequestedCommands DEF Begin, lockVars
<1>3. ASSUME NEW c \in Client, TakeSourceLock(c)
      PROVE  LockInv'
  BY <1>3, ClientAssumption DEF TakeSourceLock
<1>4. ASSUME NEW c \in Client, TakeExclusive(c)
      PROVE  LockInv'
  BY <1>4, ClientAssumption DEF TakeExclusive, FiscalKind, SourceFirst
<1>5. ASSUME NEW c \in Client, TakeShared(c)
      PROVE  LockInv'
  BY <1>5, ClientAssumption DEF TakeShared
<1>6. ASSUME NEW c \in Client, CheckPosting(c) \/ ReadLockDate(c) \/ ReadPeriod(c)
      PROVE  LockInv'
  BY <1>6 DEF CheckPosting, ReadLockDate, ReadPeriod, lockVars
<1>7. ASSUME NEW c \in Client, Decide(c) \/ Replay(c)
      PROVE  LockInv'
  BY <1>7 DEF Decide, Replay, lockVars
<1>8. ASSUME NEW c \in Client,
             \/ RefusePosting(c) \/ RefuseDate(c) \/ CommitPosting(c) \/ CommitDraft(c)
             \/ RefuseDraft(c) \/ RefuseFiscal(c) \/ CommitFiscal(c) \/ AnswerReplay(c)
             \/ Abort(c)
      PROVE  LockInv'
  <2>1. Finish(c)
    BY <1>8 DEF RefusePosting, RefuseDate, CommitPosting, CommitDraft, RefuseDraft,
                RefuseFiscal, CommitFiscal, AnswerReplay, Abort, Refuse
  <2>2. QED BY <2>1, FinishLocks
<1>9. QED BY <1>1, <1>2, <1>3, <1>4, <1>5, <1>6, <1>7, <1>8 DEF Next, Step
-----------------------------------------------------------------------------
(* Where a transaction must be to write anything, and what it then leaves  *)
(* alone: postings and drafts at "source" or "granted", fiscal commands at *)
(* "decided".                                                              *)
LEMMA Effects ==
  ASSUME LockTypeOK, NEW c \in Client, Step(c) \/ Abort(c) \/ \E r \in Requested : Begin(c, r)
  PROVE  /\ UNCHANGED <<period, book, certificate, event>> \/ pc[c] = "decided"
         /\ UNCHANGED <<journal, draft, revision>> \/ pc[c] \in {"source", "granted"}
         /\ \A d \in Client \ {c} : pc'[d] = pc[d] /\ cmd'[d] = cmd[d] /\ date'[d] = date[d]
<1> USE DEF Goto, LockTypeOK
<1>1. CASE \E r \in Requested : Begin(c, r)
  BY <1>1 DEF Begin, ledgerVars
<1>2. CASE TakeSourceLock(c) \/ TakeExclusive(c) \/ TakeShared(c)
  BY <1>2 DEF TakeSourceLock, TakeExclusive, TakeShared, ledgerVars
<1>3. CASE CheckPosting(c) \/ ReadLockDate(c) \/ ReadPeriod(c)
  BY <1>3 DEF CheckPosting, ReadLockDate, ReadPeriod, ledgerVars
<1>4. CASE Decide(c) \/ Replay(c)
  BY <1>4 DEF Decide, Replay, ledgerVars
<1>5. CASE RefusePosting(c) \/ RefuseDate(c) \/ RefuseDraft(c) \/ RefuseFiscal(c)
             \/ AnswerReplay(c) \/ Abort(c)
  BY <1>5 DEF RefusePosting, RefuseDate, RefuseDraft, RefuseFiscal, AnswerReplay, Abort,
              Refuse, Finish, ledgerVars
<1>6. CASE CommitPosting(c)
  BY <1>6 DEF CommitPosting, WriteJournal, Finish
<1>7. CASE CommitDraft(c)
  BY <1>7 DEF CommitDraft, CreateDraft, RedateDraft, VoidDraft, Finish
<1>8. CASE CommitFiscal(c)
  BY <1>8 DEF CommitFiscal, DefinePeriod, SetPostingLockDate, WriteBeginClose, WriteClosed,
              WriteReopen, WriteCanonical, Finish
<1>9. QED BY <1>1, <1>2, <1>3, <1>4, <1>5, <1>6, <1>7, <1>8 DEF Step

LEMMA DecisionStable ==
  ASSUME NEW r, r.kind \in FiscalKind, MayProceed(r), UNCHANGED <<period, book, certificate>>,
         r.kind = "closeCanonical" => UNCHANGED <<draft, revision>>
  PROVE  MayProceed(r)'
<1>1. CASE r.kind = "closeCanonical"
  BY <1>1 DEF MayProceed, Certified, ReviewToken, DraftsIn, Covers
<1>2. CASE r.kind = "define"
  BY <1>2 DEF MayProceed, Overlaps
<1>3. CASE r.kind \in {"beginClose", "close", "reopen", "setLock"}
  BY <1>3 DEF MayProceed
<1>4. QED BY <1>1, <1>2, <1>3 DEF FiscalKind

(* No other transaction can take back what d relies on: it would need a    *)
(* lock that d holds.                                                      *)
LEMMA OthersKeepGate ==
  ASSUME LockTypeOK, LockInv, NEW c \in Client, NEW d \in Client \ {c}, Gate(d),
         Step(c) \/ Abort(c) \/ \E r \in Requested : Begin(c, r)
  PROVE  Gate(d)'
<1>1. pc'[d] = pc[d] /\ cmd'[d] = cmd[d] /\ date'[d] = date[d]
  BY Effects
<1>2. ASSUME pc[d] \in SourcePlace \/ HoldsSource(d)
      PROVE  UNCHANGED <<journal, draft, revision>>
  <2>1. sourceLock = d
    BY <1>2 DEF LockInv, HoldsSource
  <2>2. pc[c] \notin {"source", "granted"}
    BY <2>1 DEF LockInv, HoldsSource, SourcePlace
  <2>3. QED BY <2>2, Effects
<1>3. ASSUME pc[d] \in SharedPlace \/ pc[d] = "decided"
      PROVE  UNCHANGED <<period, book, certificate>>
  <2>1. pc[c] # "decided"
    BY <1>3, ClientAssumption DEF LockInv, FiscalPlace
  <2>2. QED BY <2>1, Effects
<1>4. ASSUME pc[d] \in SourcePlace \ {"source"}
      PROVE  NewPosting(d)' /\ date'[d] = PostingDate(d)'
  BY <1>1, <1>2, <1>4 DEF Gate, NewPosting, PostingDate, MutableDraft, Kind
<1>5. ASSUME pc[d] \in {"unlocked", "granted"}
      PROVE  Unlocked(date[d])'
  BY <1>1, <1>3, <1>5 DEF Gate, Unlocked, SharedPlace
<1>6. ASSUME pc[d] = "granted"
      PROVE  PeriodAccepts(date[d], Adjustment(d))'
  BY <1>1, <1>3, <1>6 DEF Gate, PeriodAccepts, Covers, Adjustment, Kind, SharedPlace
<1>7. ASSUME pc[d] = "decided"
      PROVE  MayProceed(cmd[d])'
  <2>1. Kind(d) = "closeCanonical" => UNCHANGED <<draft, revision>>
    BY <1>2, <1>7 DEF HoldsSource, FiscalPlace
  <2>2. cmd[d].kind \in FiscalKind
    BY <1>7 DEF LockInv, FiscalPlace, Kind
  <2>3. QED BY <1>1, <1>3, <1>7, <2>1, <2>2, DecisionStable DEF Gate, Kind
<1>8. QED BY <1>1, <1>4, <1>5, <1>6, <1>7 DEF Gate

LEMMA OwnGate ==
  ASSUME LockTypeOK, LockInv, NEW c \in Client, Gate(c),
         Step(c) \/ Abort(c) \/ \E r \in Requested : Begin(c, r)
  PROVE  Gate(c)'
<1> USE DEF Goto, LockTypeOK
<1>1. CASE CheckPosting(c)
  BY <1>1 DEF CheckPosting, Gate, NewPosting, PostingDate, MutableDraft, Kind, SourcePlace,
              ledgerVars
<1>2. CASE TakeShared(c)
  BY <1>2 DEF TakeShared, Gate, NewPosting, PostingDate, MutableDraft, Kind, SourcePlace,
              ledgerVars
<1>3. CASE ReadLockDate(c)
  BY <1>3 DEF ReadLockDate, Gate, NewPosting, PostingDate, MutableDraft, Kind, SourcePlace,
              Unlocked, ledgerVars
<1>4. CASE ReadPeriod(c)
  BY <1>4 DEF ReadPeriod, Gate, NewPosting, PostingDate, MutableDraft, Kind, SourcePlace,
              Unlocked, PeriodAccepts, Covers, Adjustment, ledgerVars
<1>5. CASE Decide(c)
  <2>1. cmd'[c] = cmd[c] /\ pc'[c] = "decided"
    BY <1>5 DEF Decide
  <2>2. cmd[c].kind \in FiscalKind
    BY <1>5 DEF Decide, LockInv, FiscalPlace, Kind
  <2>3. MayProceed(cmd[c])'
    BY <1>5, <2>1, <2>2, DecisionStable DEF Decide, ledgerVars
  <2>4. QED BY <2>1, <2>3 DEF Gate, SourcePlace
<1>6. CASE \/ TakeSourceLock(c) \/ TakeExclusive(c) \/ Replay(c)
           \/ \E r \in Requested : Begin(c, r)
  BY <1>6 DEF TakeSourceLock, TakeExclusive, Replay, Begin, Gate, SourcePlace
<1>7. CASE \/ RefusePosting(c) \/ RefuseDate(c) \/ CommitPosting(c) \/ CommitDraft(c)
           \/ RefuseDraft(c) \/ RefuseFiscal(c) \/ CommitFiscal(c) \/ AnswerReplay(c)
           \/ Abort(c)
  BY <1>7 DEF RefusePosting, RefuseDate, CommitPosting, CommitDraft, RefuseDraft, RefuseFiscal,
              CommitFiscal, AnswerReplay, Abort, Refuse, Finish, Gate, SourcePlace
<1>8. QED BY <1>1, <1>2, <1>3, <1>4, <1>5, <1>6, <1>7 DEF Step

LEMMA GateStep ==
  ASSUME LockTypeOK, LockInv, GateInv, [Next]_vars
  PROVE  GateInv'
<1>1. ASSUME UNCHANGED vars, NEW c \in Client
      PROVE  Gate(c)'
  <2> USE <1>1 DEF vars, ledgerVars, sessionVars, lockVars
  <2>1. pc[c] = "decided" => MayProceed(cmd[c])'
    <3> SUFFICES ASSUME pc[c] = "decided" PROVE MayProceed(cmd[c])'
      OBVIOUS
    <3>1. cmd[c].kind \in FiscalKind /\ MayProceed(cmd[c])
      BY DEF LockInv, FiscalPlace, Kind, GateInv, Gate
    <3>2. UNCHANGED <<period, book, certificate, draft, revision, cmd>>
      OBVIOUS
    <3>3. QED BY <3>1, <3>2, DecisionStable
  <2>2. QED
    BY <2>1 DEF GateInv, Gate, NewPosting, PostingDate, MutableDraft, Kind, Unlocked,
                PeriodAccepts, Covers, Adjustment
<1>2. CASE Next
  BY <1>2, OwnGate, OthersKeepGate DEF Next, GateInv
<1>3. QED BY <1>1, <1>2 DEF GateInv
-----------------------------------------------------------------------------
(* A posting that commits is one that could be posted alone: the gate's    *)
(* answer and the key's absence are still true.                            *)
LEMMA PostingRefines ==
  ASSUME LockInv, GateInv, NEW c \in Client, CommitPosting(c)
  PROVE  PostingStep
<1> DEFINE r == cmd[c]
<1>1. /\ r \in Command
      /\ Kind(c) \in PostingKind
      /\ NewPosting(c)
      /\ date[c] = PostingDate(c)
      /\ Unlocked(date[c])
      /\ PeriodAccepts(date[c], Adjustment(c))
  BY DEF CommitPosting, LockInv, GateInv, Gate, SourcePlace
<1>2. CASE Kind(c) = "post"
  <2>1. r.journal \in Journal /\ r.date \in Day /\ r.adjustment \in BOOLEAN
    BY <1>1, <1>2, Parameters DEF Kind
  <2>2. date[c] = r.date /\ Adjustment(c) = r.adjustment
    BY <1>1, <1>2 DEF PostingDate, Adjustment
  <2>3. PostJournal(r.journal, r.date, r.adjustment)
    BY <1>1, <1>2, <2>2 DEF CommitPosting, PostJournal, NewPosting, PostingDateAllowed
  <2>4. QED BY <2>1, <2>3 DEF PostingStep
<1>3. CASE Kind(c) = "issue"
  <2>1. r.draft \in Draft /\ r.version \in 1..MaxDraftVersion /\ r.journal \in Journal
    BY <1>1, <1>3, Parameters DEF Kind
  <2>2. date[c] = draft[r.draft].date /\ Adjustment(c) = FALSE
    BY <1>1, <1>3 DEF PostingDate, Adjustment
  <2>3. IssueDraft(r.draft, r.version, r.journal)
    BY <1>1, <1>3, <2>2 DEF CommitPosting, IssueDraft, NewPosting, PostingDateAllowed
  <2>4. QED BY <2>1, <2>3 DEF PostingStep
<1>4. QED BY <1>1, <1>2, <1>3 DEF PostingKind

LEMMA DraftRefines ==
  ASSUME LockInv, NEW c \in Client, CommitDraft(c)
  PROVE  PostingStep
<1>1. cmd[c] \in Command
  BY DEF CommitDraft, LockInv
<1>2. CASE cmd[c].kind = "createDraft" /\ CreateDraft(cmd[c].draft, cmd[c].date)
  BY <1>1, <1>2, Parameters DEF PostingStep
<1>3. CASE cmd[c].kind = "redateDraft" /\ RedateDraft(cmd[c].draft, cmd[c].version, cmd[c].date)
  BY <1>1, <1>3, Parameters DEF PostingStep
<1>4. CASE cmd[c].kind = "voidDraft" /\ VoidDraft(cmd[c].draft, cmd[c].version)
  BY <1>1, <1>4, Parameters DEF PostingStep
<1>5. QED BY <1>2, <1>3, <1>4 DEF CommitDraft

(* A fiscal command that commits finds its period, the book and the        *)
(* reviewed facts as they were when it was decided.                        *)
LEMMA FiscalRefines ==
  ASSUME LockInv, GateInv, NEW c \in Client, CommitFiscal(c)
  PROVE  FiscalStep
<1> DEFINE r == cmd[c]
<1>1. r \in Command /\ MayProceed(r)
  BY DEF CommitFiscal, LockInv, GateInv, Gate
<1>2. CASE r.kind = "define" /\ DefinePeriod(r.period, r.first, r.last)
  BY <1>1, <1>2, Parameters DEF FiscalStep
<1>3. CASE r.kind = "setLock" /\ SetPostingLockDate(r.lock, r.version)
  BY <1>1, <1>3, Parameters DEF FiscalStep
<1>4. CASE r.kind = "beginClose" /\ WriteBeginClose(r.period, r.version, r.intent)
  <2>1. BeginClose(r.period, r.version, r.intent)
    BY <1>1, <1>4 DEF MayProceed, BeginClose
  <2>2. QED BY <1>1, <1>4, <2>1, Parameters DEF FiscalStep
<1>5. CASE /\ r.kind = "close"
           /\ WriteClosed(r.period, r.version, CloseEvent(r.period, r.version), r.intent)
           /\ UNCHANGED certificate
  <2>1. Close(r.period, r.version, r.intent)
    BY <1>1, <1>5 DEF MayProceed, Close
  <2>2. QED BY <1>1, <1>5, <2>1, Parameters DEF FiscalStep
<1>6. CASE r.kind = "reopen" /\ WriteReopen(r.period, r.version, r.intent)
  <2>1. Reopen(r.period, r.version, r.intent)
    BY <1>1, <1>6 DEF MayProceed, Reopen
  <2>2. QED BY <1>1, <1>6, <2>1, Parameters DEF FiscalStep
<1>7. CASE /\ r.kind = "closeCanonical"
           /\ WriteCanonical(r.period, r.version, r.key, r.intent, r.token)
  <2>1. CloseCanonical(r.period, r.version, r.key, r.intent)
    BY <1>1, <1>7 DEF MayProceed, CloseCanonical, Certified
  <2>2. QED BY <1>1, <1>7, <2>1, Parameters DEF FiscalStep
<1>8. QED BY <1>2, <1>3, <1>4, <1>5, <1>6, <1>7 DEF CommitFiscal

LEMMA RefinementStep ==
  ASSUME LockInv, GateInv, [Next]_vars
  PROVE  [LedgerNext]_ledgerVars
<1>1. CASE UNCHANGED vars
  BY <1>1 DEF vars
<1>2. ASSUME NEW c \in Client, NEW r \in Requested, Begin(c, r)
      PROVE  UNCHANGED ledgerVars
  BY <1>2 DEF Begin
<1>3. ASSUME NEW c \in Client, Abort(c)
      PROVE  UNCHANGED ledgerVars
  BY <1>3 DEF Abort, Refuse
<1>4. ASSUME NEW c \in Client, Step(c)
      PROVE  [LedgerNext]_ledgerVars
  <2>1. CASE CommitPosting(c) BY <2>1, PostingRefines DEF LedgerNext
  <2>2. CASE CommitDraft(c) BY <2>2, DraftRefines DEF LedgerNext
  <2>3. CASE CommitFiscal(c) BY <2>3, FiscalRefines DEF LedgerNext
  <2>4. CASE \/ TakeSourceLock(c) \/ TakeExclusive(c) \/ TakeShared(c)
             \/ CheckPosting(c) \/ RefusePosting(c) \/ ReadLockDate(c) \/ ReadPeriod(c)
             \/ RefuseDate(c) \/ RefuseDraft(c) \/ Decide(c) \/ Replay(c)
             \/ RefuseFiscal(c) \/ AnswerReplay(c)
    BY <2>4 DEF TakeSourceLock, TakeExclusive, TakeShared, CheckPosting, RefusePosting,
                ReadLockDate, ReadPeriod, RefuseDate, RefuseDraft, Decide, Replay,
                RefuseFiscal, AnswerReplay, Refuse
  <2>5. QED BY <1>4, <2>1, <2>2, <2>3, <2>4 DEF Step
<1>5. QED BY <1>1, <1>2, <1>3, <1>4 DEF Next
-----------------------------------------------------------------------------
LEMMA LedgerTypeStep ==
  ASSUME TypeOK, [LedgerNext]_ledgerVars
  PROVE  TypeOK'
BY FiscalStepType, PostingStepType, StutterType DEF LedgerNext

LEMMA SessionTypeStep ==
  ASSUME LockTypeOK, LockInv, [Next]_vars
  PROVE  /\ pc' \in [Client -> Place]
         /\ cmd' \in [Client -> Command \cup {None}]
         /\ date' \in [Client -> Day \cup {0}]
         /\ sourceLock' \in Client \cup {None}
         /\ fiscalOwner' \in Client \cup {None}
         /\ fiscalSharers' \subseteq Client
<1> USE DEF Goto, LockTypeOK, Place
<1>1. CASE UNCHANGED vars
  BY <1>1 DEF vars, sessionVars, lockVars
<1>2. ASSUME NEW c \in Client, NEW r \in Requested, Begin(c, r)
      PROVE  /\ pc' \in [Client -> Place]
             /\ cmd' \in [Client -> Command \cup {None}]
             /\ UNCHANGED <<date, lockVars>>
  BY <1>2, RequestedCommands DEF Begin
<1>3. ASSUME NEW c \in Client, CheckPosting(c)
      PROVE  date' \in [Client -> Day \cup {0}]
  <2>1. Kind(c) \in PostingKind /\ cmd[c] \in Command
    BY <1>3 DEF CheckPosting, LockInv
  <2>2. PostingDate(c) \in Day \cup {0}
    <3>1. CASE Kind(c) = "post" BY <2>1, <3>1, Parameters DEF PostingDate, Kind
    <3>2. CASE Kind(c) = "issue"
      <4>1. cmd[c].draft \in Draft
        BY <2>1, <3>2, Parameters DEF Kind
      <4>2. QED BY <3>2, <4>1 DEF PostingDate, TypeOK, DraftRow
    <3>3. QED BY <2>1, <3>1, <3>2 DEF PostingKind
  <2>3. QED BY <1>3, <2>2 DEF CheckPosting
<1>4. ASSUME NEW c \in Client, Finish(c)
      PROVE  /\ pc' \in [Client -> Place]
             /\ cmd' \in [Client -> Command \cup {None}]
             /\ date' \in [Client -> Day \cup {0}]
             /\ sourceLock' \in Client \cup {None}
             /\ fiscalOwner' \in Client \cup {None}
             /\ fiscalSharers' \subseteq Client
  BY <1>4 DEF Finish
<1>5. ASSUME NEW c \in Client,
             \/ TakeSourceLock(c) \/ TakeExclusive(c) \/ TakeShared(c) \/ CheckPosting(c)
             \/ ReadLockDate(c) \/ ReadPeriod(c) \/ Decide(c) \/ Replay(c)
      PROVE  /\ pc' \in [Client -> Place]
             /\ cmd' \in [Client -> Command \cup {None}]
             /\ date' \in [Client -> Day \cup {0}]
             /\ sourceLock' \in Client \cup {None}
             /\ fiscalOwner' \in Client \cup {None}
             /\ fiscalSharers' \subseteq Client
  BY <1>3, <1>5 DEF TakeSourceLock, TakeExclusive, TakeShared, CheckPosting, ReadLockDate,
                    ReadPeriod, Decide, Replay, lockVars
<1>6. ASSUME NEW c \in Client,
             \/ RefusePosting(c) \/ RefuseDate(c) \/ CommitPosting(c) \/ CommitDraft(c)
             \/ RefuseDraft(c) \/ RefuseFiscal(c) \/ CommitFiscal(c) \/ AnswerReplay(c)
             \/ Abort(c)
      PROVE  Finish(c)
  BY <1>6 DEF RefusePosting, RefuseDate, CommitPosting, CommitDraft, RefuseDraft, RefuseFiscal,
              CommitFiscal, AnswerReplay, Abort, Refuse
<1>7. QED BY <1>1, <1>2, <1>4, <1>5, <1>6 DEF Next, Step, lockVars

(* The inductive invariant of the interleaved transactions. *)
SystemInv == LockTypeOK /\ LockInv /\ GateInv

LEMMA SystemInvariant == Spec => []SystemInv
<1>1. Init => SystemInv
  BY InitType, ClientAssumption
     DEF Init, SystemInv, LockTypeOK, LockInv, HoldsSource, GateInv, Gate, Place, SourcePlace,
         SharedPlace, FiscalPlace
<1>2. SystemInv /\ [Next]_vars => SystemInv'
  <2> SUFFICES ASSUME SystemInv, [Next]_vars PROVE SystemInv'
    OBVIOUS
  <2>1. LockInv' /\ GateInv'
    BY LockStep, GateStep DEF SystemInv
  <2>2. TypeOK'
    BY RefinementStep, LedgerTypeStep DEF SystemInv, LockTypeOK
  <2>3. LockTypeOK'
    BY <2>2, SessionTypeStep DEF SystemInv, LockTypeOK
  <2>4. QED BY <2>1, <2>3 DEF SystemInv
<1>3. QED BY <1>1, <1>2, PTL DEF Spec

(***************************************************************************)
(* The interleaved transactions implement the atomic commands: every       *)
(* commit has the effect its command would have had alone, whatever the    *)
(* number of clients and wherever transactions are rolled back.            *)
(***************************************************************************)
THEOREM LockingRefinesLedger == Spec => LedgerSpec
<1>1. Init => LedgerInit
  BY DEF Init
<1>2. SystemInv /\ [Next]_vars => [LedgerNext]_ledgerVars
  BY RefinementStep DEF SystemInv
<1>3. QED BY <1>1, <1>2, SystemInvariant, PTL DEF Spec, LedgerSpec

(***************************************************************************)
(* Between the gate's answer and the commit of a posting the answer stays  *)
(* true, and so does the absence of its key and the state of its draft.    *)
(***************************************************************************)
THEOREM PostingGrantHolds == Spec => []GrantHolds
<1>1. SystemInv => GrantHolds
  BY DEF SystemInv, GateInv, Gate, GrantHolds, PostingDateAllowed, SourcePlace
<1>2. QED BY <1>1, SystemInvariant, PTL

(***************************************************************************)
(* No interleaving of postings, drafts, closes and lock-date changes gets  *)
(* a journal into a period closed by a certified close.                    *)
(***************************************************************************)
THEOREM LockingCertifiedPeriodFrozen == Spec => []CertifiedPeriodFrozen
BY LockingRefinesLedger, LedgerCertifiedPeriodFrozen, PTL

(* The rows of the ledger and the places of the transactions stay well     *)
(* formed; whoever is not idle runs a command.                             *)
THEOREM LockingTypeCorrect == Spec => []LockTypeOK
<1>1. SystemInv => LockTypeOK
  BY DEF SystemInv
<1>. QED  BY <1>1, SystemInvariant, PTL

(***************************************************************************)
(* A step that leaves a period closed leaves its journals alone, and the   *)
(* events of a period stay its complete and legal history, whatever        *)
(* transactions interleave.                                                *)
(***************************************************************************)
THEOREM LockingKeepsHistory ==
  Spec => ClosedPeriodsStable /\ LifecycleKeepsClosedLocked /\ []EventChain
BY LockingRefinesLedger, LedgerClosedPeriodsStable, LedgerKeepsClosedLocked, LedgerEventChain, PTL

-----------------------------------------------------------------------------
(* What stands behind a token, when it was issued and as a retry presents  *)
(* it again, agrees with it while the revisions have not moved.            *)
SeenInv ==
  \A c \in Client :
    pc[c] # "idle" /\ Kind(c) = "closeCanonical" => Agrees(cmd[c].token, cmd[c].seen)

LEMMA RequestedAgree ==
  ASSUME TypeOK, CertificatesAgree, NEW r \in Requested, r.kind = "closeCanonical"
  PROVE  Agrees(r.token, r.seen)
<1>1. CASE r \in {[kind |-> "closeCanonical", period |-> p, version |-> period[p].version,
                   intent |-> i, key |-> k, token |-> ReviewToken(p), seen |-> JournalsThrough(p)] :
                     p \in {q \in Period : period[q].version > 0}, i \in Intent, k \in CloseKey}
  <2>1. PICK p \in Period : r.token = ReviewToken(p) /\ r.seen = JournalsThrough(p)
    BY <1>1
  <2>2. Agrees(ReviewToken(p), JournalsThrough(p))
    BY FreshTokenAgrees
  <2>. QED  BY <2>1, <2>2
<1>2. CASE r \in {[kind |-> "closeCanonical", period |-> x.period, version |-> x.prior,
                   intent |-> x.intent, key |-> x.key, token |-> x.token, seen |-> x.facts] :
                     x \in certificate}
  <2>1. PICK x \in certificate : r.token = x.token /\ r.seen = x.facts
    BY <1>2
  <2>2. Agrees(x.token, x.facts)
    BY DEF CertificatesAgree
  <2>. QED  BY <2>1, <2>2
<1>. QED
  BY <1>1, <1>2 DEF Requested, PostCommand, IssueCommand, DraftCommand, DefineCommand,
                    LifecycleCommand, LockCommand

(* What a transaction does with its command: it begins one, keeps it or    *)
(* ends.                                                                   *)
LEMMA CommandSteps ==
  ASSUME LockTypeOK, [Next]_vars, NEW c \in Client
  PROVE  \/ cmd'[c] = cmd[c] /\ (pc[c] = "idle" => pc'[c] = "idle")
         \/ pc'[c] = "idle"
         \/ cmd'[c] \in Requested /\ UNCHANGED ledgerVars
<1> USE DEF Goto, LockTypeOK
<1>1. CASE UNCHANGED vars
  BY <1>1 DEF vars, sessionVars
<1>2. ASSUME NEW d \in Client \ {c}, Step(d) \/ Abort(d) \/ \E r \in Requested : Begin(d, r)
      PROVE  cmd'[c] = cmd[c] /\ pc'[c] = pc[c]
  BY <1>2, Effects
<1>3. CASE \E r \in Requested : Begin(c, r)
  BY <1>3 DEF Begin
<1>4. CASE \/ RefusePosting(c) \/ RefuseDate(c) \/ CommitPosting(c) \/ CommitDraft(c)
           \/ RefuseDraft(c) \/ RefuseFiscal(c) \/ CommitFiscal(c) \/ AnswerReplay(c)
           \/ Abort(c)
  BY <1>4 DEF RefusePosting, RefuseDate, CommitPosting, CommitDraft, RefuseDraft, RefuseFiscal,
              CommitFiscal, AnswerReplay, Abort, Refuse, Finish
<1>5. CASE \/ TakeSourceLock(c) \/ TakeExclusive(c) \/ TakeShared(c) \/ CheckPosting(c)
           \/ ReadLockDate(c) \/ ReadPeriod(c) \/ Decide(c) \/ Replay(c)
  BY <1>5 DEF TakeSourceLock, TakeExclusive, TakeShared, CheckPosting, ReadLockDate, ReadPeriod,
              Decide, Replay
<1>. QED  BY <1>1, <1>2, <1>3, <1>4, <1>5 DEF Next, Step

LEMMA SeenStep ==
  ASSUME SystemInv, CertificatesAgree, SeenInv, [Next]_vars
  PROVE  SeenInv'
<1>0. LockTypeOK /\ LockInv /\ TypeOK /\ [LedgerNext]_ledgerVars
  BY RefinementStep DEF SystemInv, LockTypeOK
<1> SUFFICES ASSUME NEW c \in Client, pc'[c] # "idle", Kind(c)' = "closeCanonical"
             PROVE  Agrees(cmd[c].token, cmd[c].seen)'
  BY DEF SeenInv
<1>1. ASSUME NEW r \in Command, r.kind = "closeCanonical", Agrees(r.token, r.seen), cmd'[c] = r
      PROVE  Agrees(cmd[c].token, cmd[c].seen)'
  <2>1. r.token \in Token
    BY <1>1, Parameters
  <2>2. Agrees(r.token, r.seen)'
    BY <1>0, <1>1, <2>1, AgreesStep
  <2>. QED  BY <1>1, <2>2
<1>2. CASE cmd'[c] = cmd[c] /\ pc[c] # "idle"
  <2>1. cmd[c] \in Command /\ Agrees(cmd[c].token, cmd[c].seen)
    BY <1>0, <1>2 DEF LockInv, SeenInv, Kind
  <2>. QED  BY <1>1, <1>2, <2>1 DEF Kind
<1>3. CASE cmd'[c] \in Requested /\ UNCHANGED ledgerVars
  <2>1. PICK r \in Requested : cmd'[c] = r
    BY <1>3
  <2>2. r \in Command /\ r.kind = "closeCanonical"
    BY <1>0, <2>1, RequestedCommands DEF Kind
  <2>3. Agrees(r.token, r.seen)
    BY <1>0, <2>2, RequestedAgree
  <2>. QED  BY <1>1, <2>1, <2>2, <2>3
<1>. QED  BY <1>0, <1>2, <1>3, CommandSteps

(***************************************************************************)
(* A canonical close that was decided certifies what its reviewer saw: the *)
(* token's revisions still hold, so the journals through the period's end  *)
(* are those behind the token, and no draft has entered the period.        *)
(***************************************************************************)
THEOREM ReviewedFactsStand == Spec => []ReviewedFactsHold
<1>1. Spec => []CertificatesAgree
  BY LockingRefinesLedger, LedgerCertificatesAgree, PTL
<1>2. Init => SeenInv
  BY DEF Init, SeenInv
<1>3. SystemInv /\ CertificatesAgree /\ SeenInv /\ [Next]_vars => SeenInv'
  BY SeenStep
<1>4. SystemInv /\ SeenInv => ReviewedFactsHold
  <2> SUFFICES ASSUME SystemInv, SeenInv, NEW c \in Client, pc[c] = "decided",
                      Kind(c) = "closeCanonical"
               PROVE  JournalsThrough(cmd[c].period) = cmd[c].seen /\ DraftsIn(cmd[c].period) = {}
    BY DEF ReviewedFactsHold
  <2> DEFINE r == cmd[c]
  <2>1. r \in Command /\ MayProceed(r) /\ r.kind = "closeCanonical" /\ Agrees(r.token, r.seen)
    BY DEF SystemInv, LockInv, GateInv, Gate, SeenInv, Kind
  <2>2. ReviewToken(r.period) = r.token /\ DraftsIn(r.period) = {}
    BY <2>1 DEF MayProceed
  <2>3. /\ r.token.row = period[r.period]
        /\ \A d \in Day : d <= period[r.period].last => r.token.revision[d] = revision[d]
    BY <2>2 DEF ReviewToken
  <2>4. JournalsThrough(r.period) = r.seen
    BY <2>1, <2>3 DEF Agrees, JournalsThrough
  <2>. QED  BY <2>2, <2>4
<1>. QED  BY <1>1, <1>2, <1>3, <1>4, SystemInvariant, PTL DEF Spec
-----------------------------------------------------------------------------
(* A transition that was the latest one, and its command's key.            *)
IsAnswer(r, e) ==
  /\ e \in LatestEvent(r.period)
  /\ e.prior = r.version /\ e.intent = r.intent /\ e.key = TransitionKey(r)
  /\ period[r.period].status = TargetStatus(r.kind)

LifecycleKind == {"beginClose", "close", "reopen", "closeCanonical"}

LEMMA KeysByKind ==
  ASSUME NEW r
  PROVE  /\ r.kind = "beginClose" =>
              TransitionKey(r) = BeginEvent(r.period, r.version) /\ TargetStatus(r.kind) = "closing"
         /\ r.kind = "close" =>
              TransitionKey(r) = CloseEvent(r.period, r.version) /\ TargetStatus(r.kind) = "closed"
         /\ r.kind = "reopen" =>
              TransitionKey(r) = ReopenEvent(r.period, r.version) /\ TargetStatus(r.kind) = "open"
         /\ r.kind = "closeCanonical" =>
              TransitionKey(r) = CanonicalEvent(r.key) /\ TargetStatus(r.kind) = "closed"
BY DEF TransitionKey, TargetStatus

(* The latest event of a period, recorded under the key of a command, is   *)
(* the one that command made at its version.                               *)
LEMMA KeyNamesEvent ==
  ASSUME TypeOK, HistoryInv, NEW r, r.kind \in {"beginClose", "close", "reopen"},
         NEW e \in event, e.key = TransitionKey(r), e.period = r.period
  PROVE  e.prior = r.version /\ e.to = TargetStatus(r.kind)
<1>1. KeyTells(e)
  BY DEF HistoryInv
<1>2. CASE r.kind = "beginClose"
  <2>1. e.key = BeginEvent(r.period, r.version) /\ TargetStatus(r.kind) = "closing"
    BY <1>2, KeysByKind
  <2>2. e.key = BeginEvent(e.period, e.prior) /\ e.to = "closing"
    BY <1>1, <2>1, KeysDiffer DEF KeyTells
  <2>3. BeginEvent(e.period, e.prior) = BeginEvent(r.period, r.version)
    BY <2>1, <2>2
  <2>4. e.prior = r.version
    BY <2>3, KeysAgree
  <2>. QED  BY <2>1, <2>2, <2>4
<1>3. CASE r.kind = "close"
  <2>1. e.key = CloseEvent(r.period, r.version) /\ TargetStatus(r.kind) = "closed"
    BY <1>3, KeysByKind
  <2>2. e.key = CloseEvent(e.period, e.prior) /\ e.to = "closed"
    BY <1>1, <2>1, KeysDiffer DEF KeyTells
  <2>3. CloseEvent(e.period, e.prior) = CloseEvent(r.period, r.version)
    BY <2>1, <2>2
  <2>4. e.prior = r.version
    BY <2>3, KeysAgree
  <2>. QED  BY <2>1, <2>2, <2>4
<1>4. CASE r.kind = "reopen"
  <2>1. e.key = ReopenEvent(r.period, r.version) /\ TargetStatus(r.kind) = "open"
    BY <1>4, KeysByKind
  <2>2. e.key = ReopenEvent(e.period, e.prior) /\ e.to = "open"
    BY <1>1, <2>1, KeysDiffer DEF KeyTells
  <2>3. ReopenEvent(e.period, e.prior) = ReopenEvent(r.period, r.version)
    BY <2>1, <2>2
  <2>4. e.prior = r.version
    BY <2>3, KeysAgree
  <2>. QED  BY <2>1, <2>2, <2>4
<1>. QED  BY <1>2, <1>3, <1>4

(* What is recognised as a replay is the period's latest transition.       *)
LEMMA ReplayIsAnswer ==
  ASSUME TypeOK, HistoryInv, NEW r \in Command, Replays(r)
  PROVE  \E e : IsAnswer(r, e)
<1>1. CASE r.kind = "closeCanonical"
  <2>1. PICK x \in certificate :
          /\ x.key = r.key /\ x.period = r.period /\ x.prior = r.version /\ x.intent = r.intent
          /\ Current(x)
    BY <1>1 DEF Replays, IsCanonicalReplay, Certified
  <2>2. PICK e \in event :
          /\ e.key = CanonicalEvent(r.key)
          /\ e.period = r.period /\ e.prior = r.version /\ e.intent = r.intent
    BY <2>1 DEF HistoryInv, Recorded
  <2>3. r.version \in Nat /\ period[r.period].version = r.version + 1
        /\ period[r.period].status = "closed"
    BY <1>1, <2>1, Parameters, BoundAssumption DEF Current
  <2>4. e \in LatestEvent(r.period)
    BY <2>2, <2>3 DEF LatestEvent, EventsOf
  <2>. QED  BY <1>1, <2>2, <2>3, <2>4, KeysByKind DEF IsAnswer
<1>2. CASE r.kind # "closeCanonical"
  <2>1. /\ r.kind \in {"beginClose", "close", "reopen"}
        /\ period[r.period].status = TargetStatus(r.kind)
        /\ IsReplay(r)
    BY <1>2 DEF Replays, LooksDone
  <2>2. period[r.period].version = r.version + 1
    BY <2>1 DEF IsReplay
  <2>3. PICK e \in event : e.key = TransitionKey(r) /\ e.period = r.period /\ e.intent = r.intent
    BY <2>1 DEF IsReplay
  <2>4. e.prior = r.version
    BY <2>1, <2>3, KeyNamesEvent
  <2>5. r.version \in Nat
    BY <2>1, Parameters, BoundAssumption
  <2>6. e \in LatestEvent(r.period)
    BY <2>2, <2>3, <2>4, <2>5 DEF LatestEvent, EventsOf
  <2>. QED  BY <2>1, <2>3, <2>4, <2>6 DEF IsAnswer
<1>. QED  BY <1>1, <1>2

(* A transition that was the latest one is recognised when it is retried.  *)
LEMMA AnswerIsReplay ==
  ASSUME TypeOK, HistoryInv, NEW r \in Command, r.kind \in LifecycleKind,
         NEW e \in LatestEvent(r.period),
         e.key = TransitionKey(r), e.prior = r.version, e.intent = r.intent,
         r.kind = "closeCanonical" => \E x \in Certified(r) : x.token = r.token
  PROVE  Replays(r)
<1>1. e \in event /\ e.period = r.period /\ e.prior = period[r.period].version - 1
  BY DEF LatestEvent, EventsOf
<1>2. KeyTells(e) /\ RowTells(e)
  BY <1>1 DEF HistoryInv
<1>3. r.period \in Period /\ r.version \in Nat
  BY Parameters, BoundAssumption DEF LifecycleKind
<1>4. period[r.period].version = r.version + 1
  BY <1>1, <1>3, BoundAssumption DEF TypeOK, PeriodRow
<1>5. /\ period[r.period].status = e.to
      /\ e.to = "closed" => period[r.period].closeEvent = e.key
      /\ e.to = "open" => period[r.period].reopenEvent = e.key
  BY <1>1, <1>2 DEF RowTells
<1>6. CASE r.kind = "closeCanonical"
  <2>1. PICK x \in certificate : x.key = r.key /\ x.token = r.token
    BY <1>6 DEF Certified
  <2>2. e.key = CanonicalEvent(r.key)
    BY <1>6, KeysByKind
  <2>3. PICK y \in certificate :
          /\ e.key = CanonicalEvent(y.key) /\ e.to = "closed"
          /\ y.period = e.period /\ y.prior = e.prior /\ y.intent = e.intent
    BY <1>2, <2>2, KeysDiffer DEF KeyTells
  <2>4. x = y
    <3>1. CanonicalEvent(y.key) = CanonicalEvent(r.key)
      BY <2>2, <2>3
    <3>2. y.key = x.key
      BY <2>1, <3>1, KeysAgree
    <3>. QED  BY <3>2 DEF HistoryInv
  <2>5. Current(x)
    BY <1>1, <1>4, <1>5, <2>1, <2>2, <2>3, <2>4 DEF Current
  <2>. QED  BY <1>1, <1>6, <2>1, <2>3, <2>4, <2>5 DEF Replays, IsCanonicalReplay, Certified
<1>7. CASE r.kind # "closeCanonical"
  <2>1. r.kind \in {"beginClose", "close", "reopen"}
    BY <1>7 DEF LifecycleKind
  <2>2. e.to = TargetStatus(r.kind)
    BY <1>1, <2>1, KeyNamesEvent
  <2>3. r.kind = "close" => e.to = "closed"
    BY <2>2, KeysByKind
  <2>4. r.kind = "reopen" => e.to = "open" /\ e.key = ReopenEvent(r.period, r.version)
    BY <2>2, KeysByKind
  <2>5. IsReplay(r)
    BY <1>1, <1>4, <1>5, <2>3, <2>4 DEF IsReplay
  <2>6. r.kind = "reopen" => period[r.period].reopenEvent # NoEvent
    BY <1>5, <2>4 DEF ReopenEvent, NoEvent
  <2>7. LooksDone(r)
    BY <1>5, <2>2, <2>6 DEF LooksDone
  <2>. QED  BY <2>1, <2>5, <2>7 DEF Replays
<1>. QED  BY <1>6, <1>7

LEMMA LockingHistory == Spec => []HistoryInv
BY LockingRefinesLedger, LedgerHistory, PTL

LEMMA ReplayStep ==
  ASSUME SystemInv, HistoryInv, ReplayIsTruthful, [Next]_vars
  PROVE  ReplayIsTruthful'
<1>0. LockTypeOK /\ LockInv /\ TypeOK
  BY DEF SystemInv, LockTypeOK
<1>1. \A c \in Client : pc[c] = "replayed" => \E e : IsAnswer(cmd[c], e)
  BY DEF ReplayIsTruthful, IsAnswer, Kind
<1> SUFFICES ASSUME NEW c \in Client, pc'[c] = "replayed"
             PROVE  \E e : IsAnswer(cmd[c], e)'
  BY DEF ReplayIsTruthful, IsAnswer, Kind
<1>2. ASSUME UNCHANGED <<period, event>>, cmd'[c] = cmd[c], \E e : IsAnswer(cmd[c], e)
      PROVE  \E e : IsAnswer(cmd[c], e)'
  <2>1. PICK e : IsAnswer(cmd[c], e)
    BY <1>2
  <2>2. IsAnswer(cmd[c], e)'
    BY <1>2, <2>1 DEF IsAnswer, LatestEvent, EventsOf
  <2>. QED  BY <2>2
<1>3. CASE UNCHANGED vars
  BY <1>1, <1>2, <1>3 DEF vars, ledgerVars, sessionVars
<1>4. ASSUME NEW d \in Client \ {c}, Step(d) \/ Abort(d) \/ \E r \in Requested : Begin(d, r)
      PROVE  \E e : IsAnswer(cmd[c], e)'
  <2>1. pc[c] = "replayed" /\ cmd'[c] = cmd[c]
    BY <1>0, <1>4, Effects
  <2>2. pc[d] # "decided"
    BY <1>0, <2>1, ClientAssumption DEF LockInv, FiscalPlace
  <2>3. UNCHANGED <<period, event>>
    BY <1>0, <1>4, <2>2, Effects
  <2>. QED  BY <1>1, <1>2, <2>1, <2>3
<1>5. CASE Replay(c)
  <2>1. /\ UNCHANGED <<period, event>> /\ cmd'[c] = cmd[c]
        /\ Replays(cmd[c]) /\ pc[c] = "exclusive"
    BY <1>5 DEF Replay, ledgerVars
  <2>2. cmd[c] \in Command
    BY <1>0, <2>1 DEF LockInv
  <2>3. \E e : IsAnswer(cmd[c], e)
    BY <1>0, <2>1, <2>2, ReplayIsAnswer
  <2>. QED  BY <1>2, <2>1, <2>3
<1>6. CASE (Step(c) /\ ~Replay(c)) \/ Abort(c) \/ \E r \in Requested : Begin(c, r)
  <2>1. pc'[c] # "replayed"
    BY <1>0, <1>6 DEF Goto, LockTypeOK, Step, Abort, Begin, TakeSourceLock, TakeExclusive,
       TakeShared, CheckPosting, RefusePosting, ReadLockDate, ReadPeriod, RefuseDate,
       CommitPosting, CommitDraft, RefuseDraft, Decide, RefuseFiscal, CommitFiscal,
       AnswerReplay, Refuse, Finish
  <2>. QED  BY <2>1
<1>. QED  BY <1>3, <1>4, <1>5, <1>6 DEF Next

(***************************************************************************)
(* A lifecycle command answered as a replay is the one that put the period *)
(* where it is: no retry from an older cycle is answered with success.     *)
(***************************************************************************)
THEOREM ReplaysAreTruthful == Spec => []ReplayIsTruthful
<1>1. Init => ReplayIsTruthful
  BY DEF Init, ReplayIsTruthful
<1>2. SystemInv /\ HistoryInv /\ ReplayIsTruthful /\ [Next]_vars => ReplayIsTruthful'
  BY ReplayStep
<1>. QED  BY <1>1, <1>2, SystemInvariant, LockingHistory, PTL DEF Spec

(***************************************************************************)
(* An exact retry of a committed lifecycle command is answered as a replay *)
(* until the period moves on: who lost the answer can learn of the commit. *)
(***************************************************************************)
THEOREM RetriesAreAnswered == Spec => []RetryIsAnswered
<1>1. SystemInv /\ HistoryInv => RetryIsAnswered
  <2> SUFFICES ASSUME SystemInv, HistoryInv, NEW c \in Client, pc[c] = "exclusive",
                      Kind(c) \in LifecycleKind, NEW e \in LatestEvent(cmd[c].period),
                      e.key = TransitionKey(cmd[c]), e.prior = cmd[c].version,
                      e.intent = cmd[c].intent,
                      Kind(c) = "closeCanonical" =>
                        \E x \in Certified(cmd[c]) : x.token = cmd[c].token
               PROVE  Replays(cmd[c])
    BY DEF RetryIsAnswered, LifecycleKind
  <2>1. TypeOK /\ cmd[c] \in Command
    BY DEF SystemInv, LockTypeOK, LockInv
  <2>. QED  BY <2>1, AnswerIsReplay DEF Kind
<1>. QED  BY <1>1, SystemInvariant, LockingHistory, PTL
=============================================================================
