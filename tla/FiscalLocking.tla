---------------------------- MODULE FiscalLocking ----------------------------
(***************************************************************************)
(* The commands of FiscalLedger as they run: database transactions of      *)
(* several clients, interleaved statement by statement under READ          *)
(* COMMITTED, that exclude each other only by two advisory locks held to   *)
(* the end of the transaction:                                             *)
(*                                                                         *)
(*   source lock  "payment-correction:<tenant>:<source>", exclusive;       *)
(*                journals, invoice drafts and canonical closes take it    *)
(*   fiscal lock  "fiscal-period:<tenant>:<company>:<source>", exclusive   *)
(*                for fiscal mutations, shared for posting-date checks     *)
(*                                                                         *)
(* A client may die, or its statement fail, at any point before commit.    *)
(* Row locks are not modelled: no command waits for one, because every     *)
(* command that locks a fiscal row holds the fiscal lock and every command *)
(* that locks a journal or draft row holds the source lock.  For the same  *)
(* reason the advisory lock per journal key adds nothing to the source     *)
(* lock.  The variables of FiscalLedger are the committed state, so        *)
(* LedgerSpec is the property that every commit behaves as if alone.       *)
(***************************************************************************)
EXTENDS FiscalLedger

CONSTANTS
  Client,  \* application processes, one open transaction each
  Offered  \* the kinds of command these clients issue

ASSUME ClientAssumption == None \notin Client

VARIABLES
  pc,            \* where each client's transaction is
  cmd,           \* the command it runs; None while idle
  date,          \* the posting date its gate is checked for; 0 until known
  sourceLock,    \* holder of the source lock, or None
  fiscalOwner,   \* exclusive holder of the fiscal lock, or None
  fiscalSharers  \* shared holders of the fiscal lock

sessionVars == <<pc, cmd, date>>
lockVars == <<sourceLock, fiscalOwner, fiscalSharers>>
vars == <<ledgerVars, sessionVars, lockVars>>

PostCommand == [kind : {"post"}, journal : Journal, date : Day, adjustment : BOOLEAN]
IssueCommand ==
  [kind : {"issue"}, draft : Draft, version : 1..MaxDraftVersion, journal : Journal]
DraftCommand ==
  [kind : {"createDraft"}, draft : Draft, date : Day]
    \cup [kind : {"redateDraft"}, draft : Draft, version : 1..MaxDraftVersion, date : Day]
    \cup [kind : {"voidDraft"}, draft : Draft, version : 1..MaxDraftVersion]
DefineCommand == [kind : {"define"}, period : Period, first : Day, last : Day]
LifecycleCommand ==
  [kind : {"beginClose", "close", "reopen"}, period : Period,
   version : 1..MaxVersion, intent : Intent]
(* "seen" is not part of the command: it is the ledger behind the token.   *)
CanonicalCommand ==
  [kind : {"closeCanonical"}, period : Period, version : 1..MaxVersion,
   intent : Intent, key : CloseKey, token : Token, seen : SUBSET Journal]
LockCommand == [kind : {"setLock"}, lock : Day \cup {NoLock}, version : 0..MaxBookVersion]

Command ==
  PostCommand \cup IssueCommand \cup DraftCommand \cup DefineCommand
    \cup LifecycleCommand \cup CanonicalCommand \cup LockCommand

PostingKind == {"post", "issue"}
DraftKind == {"createDraft", "redateDraft", "voidDraft"}
FiscalKind == {"define", "beginClose", "close", "reopen", "closeCanonical", "setLock"}

(* Mutant of SourceFirst: canonical closes do not wait for the source. *)
PostingsOnly == PostingKind \cup DraftKind

(* lockCustomerPaymentCorrectionSource is the first statement of these.    *)
SourceFirst == PostingKind \cup DraftKind \cup {"closeCanonical"}

Place ==
  {"idle", "started", "source", "fresh", "shared", "unlocked", "granted",
   "exclusive", "decided", "replayed"}

Kind(c) == cmd[c].kind

LockTypeOK ==
  /\ TypeOK
  /\ pc \in [Client -> Place]
  /\ cmd \in [Client -> Command \cup {None}]
  /\ date \in [Client -> Day \cup {0}]
  /\ sourceLock \in Client \cup {None}
  /\ fiscalOwner \in Client \cup {None}
  /\ fiscalSharers \subseteq Client
-----------------------------------------------------------------------------
Init ==
  /\ LedgerInit
  /\ pc = [c \in Client |-> "idle"]
  /\ cmd = [c \in Client |-> None]
  /\ date = [c \in Client |-> 0]
  /\ sourceLock = None
  /\ fiscalOwner = None
  /\ fiscalSharers = {}

Goto(c, place) == pc' = [pc EXCEPT ![c] = place]

(* The end of a transaction, by commit or rollback, gives up its locks.    *)
Finish(c) ==
  /\ Goto(c, "idle")
  /\ cmd' = [cmd EXCEPT ![c] = None]
  /\ date' = [date EXCEPT ![c] = 0]
  /\ sourceLock' = IF sourceLock = c THEN None ELSE sourceLock
  /\ fiscalOwner' = IF fiscalOwner = c THEN None ELSE fiscalOwner
  /\ fiscalSharers' = fiscalSharers \ {c}

Refuse(c) == Finish(c) /\ UNCHANGED ledgerVars

(* Expected versions come from an earlier read, or from the first try of a *)
(* command that is now retried: any version up to the present one.         *)
Requested ==
  PostCommand
    \cup {r \in IssueCommand : r.version <= draft[r.draft].version}
    \cup {r \in DraftCommand :
           r.kind # "createDraft" => r.version <= draft[r.draft].version}
    \cup {r \in DefineCommand : r.first <= r.last}
    \cup {r \in LifecycleCommand : r.version <= period[r.period].version}
    \cup {[kind |-> "closeCanonical", period |-> p, version |-> period[p].version,
           intent |-> i, key |-> k, token |-> ReviewToken(p), seen |-> JournalsThrough(p)] :
             p \in {q \in Period : period[q].version > 0}, i \in Intent, k \in CloseKey}
    \cup {[kind |-> "closeCanonical", period |-> x.period, version |-> x.prior,
           intent |-> x.intent, key |-> x.key, token |-> x.token, seen |-> x.facts] :
             x \in certificate}
    \cup {r \in LockCommand : r.version <= book.version}

Begin(c, r) ==
  /\ pc[c] = "idle"
  /\ r.kind \in Offered
  /\ Goto(c, "started")
  /\ cmd' = [cmd EXCEPT ![c] = r]
  /\ UNCHANGED <<ledgerVars, date, lockVars>>

TakeSourceLock(c) ==
  /\ pc[c] = "started"
  /\ Kind(c) \in SourceFirst
  /\ sourceLock = None
  /\ sourceLock' = c
  /\ Goto(c, "source")
  /\ UNCHANGED <<ledgerVars, cmd, date, fiscalOwner, fiscalSharers>>

(* Mutant of TakeExclusive: checks in flight are not waited for. *)
TakeExclusivePastSharers(c) ==
  /\ pc[c] = "started" /\ Kind(c) \in FiscalKind \ SourceFirst
  /\ fiscalOwner = None
  /\ fiscalOwner' = c
  /\ Goto(c, "exclusive")
  /\ UNCHANGED <<ledgerVars, cmd, date, sourceLock, fiscalSharers>>

(* lockFiscalScope *)
TakeExclusive(c) ==
  /\ \/ pc[c] = "started" /\ Kind(c) \in FiscalKind \ SourceFirst
     \/ pc[c] = "source" /\ Kind(c) = "closeCanonical"
  /\ fiscalOwner = None
  /\ fiscalSharers = {}
  /\ fiscalOwner' = c
  /\ Goto(c, "exclusive")
  /\ UNCHANGED <<ledgerVars, cmd, date, sourceLock, fiscalSharers>>
-----------------------------------------------------------------------------
(* Posting: loadExistingJournal, then the steps of assertPostingDateAllowed*)
(* one statement at a time, then the insert and the commit.                *)

PostingDate(c) ==
  IF Kind(c) = "post" THEN cmd[c].date ELSE draft[cmd[c].draft].date

(* A key that is already posted is a replay or a conflict; a draft that is *)
(* not at the expected version, or no longer a draft, cannot be issued.    *)
NewPosting(c) ==
  /\ journal[cmd[c].journal] = None
  /\ Kind(c) = "issue" => MutableDraft(cmd[c].draft, cmd[c].version)

CheckPosting(c) ==
  /\ pc[c] = "source"
  /\ Kind(c) \in PostingKind
  /\ NewPosting(c)
  /\ date' = [date EXCEPT ![c] = PostingDate(c)]
  /\ Goto(c, "fresh")
  /\ UNCHANGED <<ledgerVars, cmd, lockVars>>

RefusePosting(c) ==
  /\ pc[c] = "source"
  /\ Kind(c) \in PostingKind
  /\ ~NewPosting(c)
  /\ Refuse(c)

(* Mutant of TakeShared: the lock is tested and not held. *)
TestShared(c) ==
  /\ pc[c] = "fresh"
  /\ fiscalOwner = None
  /\ Goto(c, "shared")
  /\ UNCHANGED <<ledgerVars, cmd, date, lockVars>>

TakeShared(c) ==
  /\ pc[c] = "fresh"
  /\ fiscalOwner = None
  /\ fiscalSharers' = fiscalSharers \cup {c}
  /\ Goto(c, "shared")
  /\ UNCHANGED <<ledgerVars, cmd, date, sourceLock, fiscalOwner>>

ReadLockDate(c) ==
  /\ pc[c] = "shared"
  /\ Unlocked(date[c])
  /\ Goto(c, "unlocked")
  /\ UNCHANGED <<ledgerVars, cmd, date, lockVars>>

Adjustment(c) == IF Kind(c) = "post" THEN cmd[c].adjustment ELSE FALSE

ReadPeriod(c) ==
  /\ pc[c] = "unlocked"
  /\ PeriodAccepts(date[c], Adjustment(c))
  /\ Goto(c, "granted")
  /\ UNCHANGED <<ledgerVars, cmd, date, lockVars>>

RefuseDate(c) ==
  /\ \/ pc[c] = "shared" /\ ~Unlocked(date[c])
     \/ pc[c] = "unlocked" /\ ~PeriodAccepts(date[c], Adjustment(c))
  /\ Refuse(c)

CommitPosting(c) ==
  /\ pc[c] = "granted"
  /\ WriteJournal(cmd[c].journal, date[c], Adjustment(c))
  /\ IF Kind(c) = "issue"
     THEN MutableDraft(cmd[c].draft, cmd[c].version)
            /\ WriteIssue(cmd[c].draft, cmd[c].version)
     ELSE UNCHANGED draft
  /\ Finish(c)

CommitDraft(c) ==
  /\ pc[c] = "source"
  /\ LET r == cmd[c]
     IN  \/ r.kind = "createDraft" /\ CreateDraft(r.draft, r.date)
         \/ r.kind = "redateDraft" /\ RedateDraft(r.draft, r.version, r.date)
         \/ r.kind = "voidDraft" /\ VoidDraft(r.draft, r.version)
  /\ Finish(c)

RefuseDraft(c) ==
  /\ pc[c] = "source"
  /\ Kind(c) \in DraftKind
  /\ IF Kind(c) = "createDraft"
     THEN draft[cmd[c].draft].status # "none"
     ELSE ~MutableDraft(cmd[c].draft, cmd[c].version)
  /\ Refuse(c)
-----------------------------------------------------------------------------
(* Fiscal commands under the exclusive lock.                               *)

TransitionKey(r) ==
  CASE r.kind = "beginClose" -> BeginEvent(r.period, r.version)
    [] r.kind = "close" -> CloseEvent(r.period, r.version)
    [] r.kind = "reopen" -> ReopenEvent(r.period, r.version)
    [] r.kind = "closeCanonical" -> CanonicalEvent(r.key)

TargetStatus(kind) ==
  CASE kind = "beginClose" -> "closing"
    [] kind \in {"close", "closeCanonical"} -> "closed"
    [] kind = "reopen" -> "open"

(* The first read of the row decides: in the status the command leads to,  *)
(* it can only be a retry; otherwise it needs the expected version and a   *)
(* status it can leave.                                                    *)
LooksDone(r) ==
  /\ period[r.period].status = TargetStatus(r.kind)
  /\ r.kind = "reopen" => period[r.period].reopenEvent # NoEvent

(* Mutants of IsReplay: an event of any version counts; the event is       *)
(* looked for at the version the command expects to find.                  *)
IsOldReplay(r) ==
  \E e \in event :
    e.key = TransitionKey(r) /\ e.period = r.period /\ e.intent = r.intent

IsReplayAtVersion(r) ==
  /\ period[r.period].version = r.version
  /\ \E e \in event :
       e.key = TransitionKey(r) /\ e.period = r.period /\ e.intent = r.intent

(* assertFiscalReplay and the version check after it.                      *)
IsReplay(r) ==
  /\ period[r.period].version = r.version + 1
  /\ \E e \in event :
       /\ e.key = TransitionKey(r)
       /\ e.period = r.period
       /\ e.intent = r.intent
       /\ r.kind = "close" => period[r.period].closeEvent = e.key
       /\ r.kind = "reopen" => period[r.period].reopenEvent = e.key

(* A canonical close is recognised by its key's certificate alone.         *)
Certified(r) == {x \in certificate : x.key = r.key}

IsCanonicalReplay(r) ==
  \E x \in Certified(r) :
    /\ x.period = r.period /\ x.prior = r.version /\ x.intent = r.intent
    /\ x.token = r.token
    /\ Current(x)

Replays(r) ==
  IF r.kind = "closeCanonical" THEN IsCanonicalReplay(r)
  ELSE r.kind \in {"beginClose", "close", "reopen"} /\ LooksDone(r) /\ IsReplay(r)

MayProceed(r) ==
  CASE r.kind = "define" ->
         period[r.period].status = "undefined" /\ ~Overlaps(r.period, r.first, r.last)
    [] r.kind = "setLock" -> book.version = r.version
    [] r.kind = "beginClose" ->
         period[r.period].status = "open" /\ period[r.period].version = r.version
    [] r.kind = "close" ->
         period[r.period].status = "closing" /\ period[r.period].version = r.version
    [] r.kind = "reopen" ->
         period[r.period].status = "closed" /\ period[r.period].version = r.version
    [] r.kind = "closeCanonical" ->
         /\ Certified(r) = {}
         /\ period[r.period].version = r.version
         /\ period[r.period].status \in {"open", "closing"}
         /\ ReviewToken(r.period) = r.token
         /\ DraftsIn(r.period) = {}

(* Not in the code: the bounds of the model, which refuse a command early. *)
WithinBounds(r) ==
  /\ r.kind = "define" => MaxVersion > 0
  /\ r.kind \in {"beginClose", "close", "reopen", "closeCanonical"} => r.version < MaxVersion
  /\ r.kind \in {"close", "reopen", "closeCanonical", "setLock"} => book.version < MaxBookVersion

Decide(c) ==
  /\ pc[c] = "exclusive"
  /\ MayProceed(cmd[c])
  /\ WithinBounds(cmd[c])
  /\ Goto(c, "decided")
  /\ UNCHANGED <<ledgerVars, cmd, date, lockVars>>

Replay(c) ==
  /\ pc[c] = "exclusive"
  /\ Replays(cmd[c])
  /\ Goto(c, "replayed")
  /\ UNCHANGED <<ledgerVars, cmd, date, lockVars>>

RefuseFiscal(c) ==
  /\ pc[c] = "exclusive"
  /\ ~(MayProceed(cmd[c]) /\ WithinBounds(cmd[c]))
  /\ ~Replays(cmd[c])
  /\ Refuse(c)

(* The deferred triggers of a certificate, evaluated at commit.            *)
CloseGuards(r) ==
  /\ DraftsIn(r.period) = {}
  /\ ReviewToken(r.period).revision = r.token.revision

CommitFiscal(c) ==
  /\ pc[c] = "decided"
  /\ LET r == cmd[c]
     IN  \/ r.kind = "define" /\ DefinePeriod(r.period, r.first, r.last)
         \/ r.kind = "setLock" /\ SetPostingLockDate(r.lock, r.version)
         \/ r.kind = "beginClose" /\ WriteBeginClose(r.period, r.version, r.intent)
         \/ /\ r.kind = "close"
            /\ WriteClosed(r.period, r.version, CloseEvent(r.period, r.version), r.intent)
            /\ UNCHANGED certificate
         \/ r.kind = "reopen" /\ WriteReopen(r.period, r.version, r.intent)
         \/ /\ r.kind = "closeCanonical"
            /\ WriteCanonical(r.period, r.version, r.key, r.intent, r.token)
            /\ CloseGuards(r)
  /\ Finish(c)

AnswerReplay(c) == pc[c] = "replayed" /\ Refuse(c)

(* A rollback: an error, a lost connection, the death of the process.      *)
Abort(c) == pc[c] # "idle" /\ Refuse(c)
-----------------------------------------------------------------------------
Step(c) ==
  \/ TakeSourceLock(c) \/ TakeExclusive(c) \/ TakeShared(c)
  \/ CheckPosting(c) \/ RefusePosting(c) \/ ReadLockDate(c) \/ ReadPeriod(c)
  \/ RefuseDate(c) \/ CommitPosting(c) \/ CommitDraft(c) \/ RefuseDraft(c)
  \/ Decide(c) \/ Replay(c) \/ RefuseFiscal(c) \/ CommitFiscal(c)
  \/ AnswerReplay(c)

Next ==
  \/ \E c \in Client : \E r \in Requested : Begin(c, r)
  \/ \E c \in Client : Step(c)
  \/ \E c \in Client : Abort(c)

Spec == Init /\ [][Next]_vars

-----------------------------------------------------------------------------
(***************************************************************************)
(* Between the moment assertPostingDateAllowed lets a posting through and  *)
(* its commit, the answer stays true: no close, define or lock-date change *)
(* commits in between, so no journal lands in a period that was closed     *)
(* while the posting was in flight, and no key is posted twice.            *)
(***************************************************************************)
GrantHolds ==
  \A c \in Client :
    pc[c] = "granted" =>
      /\ PostingDateAllowed(date[c], Adjustment(c))
      /\ date[c] = PostingDate(c)
      /\ NewPosting(c)

(***************************************************************************)
(* A canonical close that was decided certifies what its reviewer saw: the *)
(* journals through the period's end are still those behind the approval   *)
(* token, and no invoice draft has entered the period.                     *)
(***************************************************************************)
ReviewedFactsHold ==
  \A c \in Client :
    pc[c] = "decided" /\ Kind(c) = "closeCanonical" =>
      /\ JournalsThrough(cmd[c].period) = cmd[c].seen
      /\ DraftsIn(cmd[c].period) = {}

(* The latest lifecycle event of a period is the one that led to its row.  *)
LatestEvent(p) == {e \in EventsOf(p) : e.prior = period[p].version - 1}

(***************************************************************************)
(* A lifecycle command answered as a replay is the command that put the    *)
(* period where it is: its own latest event, by the same authorised        *)
(* intent, from the version the command expected.  A retry from an older   *)
(* close/reopen cycle is never answered with success.                      *)
(***************************************************************************)
ReplayIsTruthful ==
  \A c \in Client :
    pc[c] = "replayed" =>
      \E e \in LatestEvent(cmd[c].period) :
        /\ e.prior = cmd[c].version
        /\ e.intent = cmd[c].intent
        /\ e.key = TransitionKey(cmd[c])
        /\ period[cmd[c].period].status = TargetStatus(Kind(c))

(***************************************************************************)
(* An exact retry of a committed lifecycle command is answered as a replay *)
(* for as long as the period has not moved past it; a client that lost the *)
(* answer to its commit can always learn that it committed.                *)
(***************************************************************************)
RetryIsAnswered ==
  \A c \in Client :
    pc[c] = "exclusive" /\ Kind(c) \in {"beginClose", "close", "reopen", "closeCanonical"} =>
      \A e \in LatestEvent(cmd[c].period) :
        /\ e.key = TransitionKey(cmd[c])
        /\ e.prior = cmd[c].version
        /\ e.intent = cmd[c].intent
        /\ Kind(c) = "closeCanonical" => \E x \in Certified(cmd[c]) : x.token = cmd[c].token
        => Replays(cmd[c])
=============================================================================
