# Verification of the ERP financials SDK

TLA+ models of the accounting command layer of this repository, checked with
TLC and, where it matters most, proved with TLAPS. Paths below are relative to
the repository (`src/fiscal-periods.ts` is the TypeScript file of that name).
`PROJECT.json` lists every run, the source lines behind every definition, and
the hazards of the code with the properties that address them.

Contents: [1 System](#1-the-system) · [2 Components](#2-components) ·
[3 Hard behaviours](#3-what-is-hard-about-it) · [4 Modules](#4-modules) ·
[5 Runs](#5-runs) · [6 Proofs](#6-proofs) · [7 Findings](#7-findings) ·
[8 Not modelled](#8-what-is-not-modelled) · [9 Plan](#9-plan)

## 1 The system

The SDK is a TypeScript library that runs inside any number of application
processes against one PostgreSQL database. It has no server of its own: a
command such as "post a journal" or "clear a scheduled bill payment" is one
database transaction that a process opens (`createPostgresTransactionRunner`),
fills with statements and commits. Transactions run under READ COMMITTED and
are never retried by the SDK; a caller that lost an answer sends the command
again under the same idempotency key. What makes commands of different
processes safe together is

- two families of transaction-scoped advisory locks: the *source lock*
  `payment-correction:<tenant>:<source>`, exclusive for commands and shared for
  guards, and the *fiscal lock* `fiscal-period:<tenant>:<company>:<source>`,
  exclusive for fiscal mutations and shared for posting-date checks;
- a version in every row, compared with the version the caller expects;
- unique idempotency keys, under which the result of a command is stored;
- triggers that keep derived values (open amounts, source revisions), forbid
  rewriting posted facts, and take the source lock when nobody has.

The models keep these, and every guard, early return and error path between
them. They abstract the data to what the properties tell apart: a journal is a
key with a date, a bill an amount with a version.

## 2 Components

State, operations, interactions and the properties that make each component
correct; the status of every component is in `PROJECT.json`.

| Component (source) | State | Operations | Correct when |
|---|---|---|---|
| **Fiscal periods and posting gate** (`fiscal-periods.ts`, `fiscal-close-certificates.ts`) | periods, the book's posting-lock date, lifecycle events, close certificates | define, begin close, close, canonical close, reopen, set lock date; `assertPostingDateAllowed` for every posting command | no journal reaches a closed period; a certificate keeps describing its period; a retry is answered truthfully |
| **Journal posting and lifecycle** (`erp-financials-service.ts`, `financial-lifecycle.ts`) | journals, lines, links | post; reverse, void, replace | one journal per key; one live successor per journal |
| **Invoices** (`invoice-workflow.ts`) | drafts, issued invoices, deliveries | create, update, redate, void, issue; void and correct after issue | a draft is issued once; a correction changes both invoices or none |
| **Subledgers: vendor bills and bill payments** (`erp-financials-service.ts`) | documents, applications, payment instructions, holds, retirements | record, schedule, clear, cancel, apply, unapply, void, correct, hold, retire | balances equal the active applications; a payment pays what was reviewed |
| **Subledgers: customer payments, credits, deposits, transfers** (same, `customer-payment-correction*.ts`, `attested-settlement-correction.ts`) | the same tables | receive, apply, refund, write off, correct and replay | the same, and replay rebuilds the same applications |
| **Locks and the transaction runner** (`erp-financials-service.ts`, guards in `sdk-read-models.ts`, `accounting-reference-guard.ts`) | the advisory locks | begin, lock, commit, roll back | no cycle of waits, every command ends |
| **Financial outbox and runtime** (`financial-outbox.ts`, `financial-runtime.ts`) | outbox rows with lease and next attempt | append, claim, mark published or failed; `runOnce` | at-least-once delivery, final once published |
| **Bank reconciliation and statements** (`bank-reconciliation.ts`, `bank-statements.ts`) | statements, lines, matches, completions | import, match, unmatch, ignore, complete, finalise, retire | a completed reconciliation stays explained by the ledger |
| **QuickBooks sync and import** (`quickbooks-*.ts`, `future-erp-quickbooks-*.ts`) | checkpoints, imported facts, tombstones | full and incremental sync, backfill, reset | a crash between persist and checkpoint loses nothing |
| **Rollups and snapshots** (`rollup-jobs.ts`, `future-erp-*-workers.ts`) | jobs, snapshots, freshness | enqueue, build, invalidate | a snapshot is not served as fresh after its inputs changed |
| **Recurring financials, reporting books, account hierarchy** | cursors and occurrences; mappings; parent relation | materialise, map, move | one occurrence per date; one active mapping; no cycle of parents |
| **Payment matching, posting rules, report builders, read models** | none | pure computation | ranking, rounding and balance |
| **Migrations, access, maintenance, health checks** | schema ledger, privileges, session locks | migrate, switch, guard | a migration is applied once |

Interactions that the models are about: every posting command calls the gate of
the fiscal periods within its own transaction; a canonical close reads journals,
drafts and source revisions that postings change; all commands meet on the two
lock families; a command appends its outbox event in its own transaction and the
runtime delivers it later; an instruction to pay meets bills days after it was
made. Not all writes pass the gate: imports (QuickBooks sync) write posted facts
without `assertPostingDateAllowed`, and a book whose mode is
`legacy_unrestricted` skips it. The properties of the fiscal models are about
native commands on a controlled book.

## 3 What is hard about it

- **Interleaving.** The gate reads the lock date and the period in two
  statements and the posting commits later; only the shared fiscal lock keeps
  the answer true. The lock-date row may not exist yet, so a row lock could not.
- **Stale knowledge.** Approval tokens, versions and payment plans are read in
  one transaction and used in another, minutes or days later.
- **Lost answers.** A connection may break during commit. The caller then
  retries (and must be answered as the same command, but not when the ledger
  has moved on) or retires the key.
- **Lock order.** Two lock families, several sources, and triggers that take
  locks at the end of a command instead of its beginning.
- **Crashes and late workers.** An outbox worker dies with claims, or returns
  after its lease and marks rows another worker has claimed.
- **Multi-row commands.** A bill correction ends, voids, creates and re-applies
  in one transaction; every step changes versions the next one expects.

- **Derived data.** Rollup buckets and report snapshots are written by jobs that
  lock nothing, while commands and imports change what they were read from, and
  a job may stop between any two of its writes.
- **Two readers of one fact.** A journal is cleared on a statement, a receipt is
  matched to a bank line, a write-off settles an invoice: the fact may then be
  reversed, voided or corrected by a command that knows nothing of the other.

The `hazards` in `PROJECT.json` list each at its line. Those without a property
carry a note that says why: a reopen overwrites a later manual lock date (no
document promises otherwise, and the model has the behaviour); a full batch of
older, permanently failing events can starve the outbox (the progress property
assumes fewer of them than a batch has places); guards and applications sort
sources in different collations; a payment recorded under the key of a cancelled
schedule; a replacement journal that two corrections share; a snapshot whose
header was written and whose lines were not; a rollup period that cuts a month.

## 4 Modules

```
FiscalLedger            atomic fiscal commands (abstract specification)
  FiscalLocking         the same as interleaved transactions; implements FiscalLedger
SourceLocks             the waiting of all commands for the two lock families
EventDelivery           at-least-once delivery (abstract specification)
  FinancialOutbox       outbox rows, leases and workers; implements EventDelivery
CommandOutcomes         recorded or retired, once (abstract specification)
  BillPayments          vendor bills and payments; implements CommandOutcomes
  Receivables           invoices, receipts, credits, refunds, write-offs;
                        implements CommandOutcomes for its collections
    BankLines           bank lines and their matches, composed into Receivables
JournalLifecycle        journals, reversal, void, correction, replacement
  Banking               bank statements over those journals
Rollups                 rollup and snapshot jobs against commands and imports
*_proofs                the theorems about the module of that name;
                        FiscalLocking_proofs holds those of FiscalLedger too
SumTheorems             laws of sums over finite sets, for those proofs
MC*                     instances for TLC
```

Operators that say "Mutant of X" are small corruptions of X used to check that a
property notices them; no specification uses them.

### FiscalLedger
State: `period`, `book`, `journal`, `draft`, `event`, `certificate`, `revision`
are the committed rows of one tenant, company and source. One action per
command, each atomic: `DefinePeriod`, `BeginClose`, `Close`, `CloseCanonical`,
`Reopen`, `SetPostingLockDate`, `PostJournal`, `CreateDraft`, `RedateDraft`,
`VoidDraft`, `IssueDraft`. `WriteX` is the part of a command that writes, shared
with `FiscalLocking`. The overlap test, the date bounds and the recomputation
of the lock date follow the SQL, nulls included. The revision trigger is `Touch`, one counter per day;
the code's approval token hashes their sum up to a cutoff, and as they only grow
the sum is unchanged exactly when each of them is. Refused commands change
nothing and are not steps.

### FiscalLocking
The same commands, statement by statement. `pc` says how far a client's
transaction is: `TakeSourceLock`, `TakeExclusive` or `TakeShared`,
`CheckPosting`, `ReadLockDate`, `ReadPeriod`, then `CommitPosting`; for fiscal
commands `Decide` or `Replay`, then `CommitFiscal`; `Abort` at any point.
`Decide` and `Replay` are `assertFiscalReplay` with its version comparison.
Requests carry what the client read earlier (versions, approval token), so
they may be stale.
Row locks are not modelled: every command that locks a fiscal row already holds
the fiscal lock exclusively and every command that locks a journal or draft row
the source lock, so none of them waits for a row. A commit whose answer is lost
is a commit followed by a retry.

### SourceLocks
All command kinds and the locks each needs, in the order it takes them (`Rank`),
over several sources. `asked` and `ahead` are PostgreSQL's queue: a request
waits behind earlier conflicting ones. `NoWaitCycle` counts waits for holders
only, because PostgreSQL dissolves a cycle through its queue by reordering it.
Locks on a single key (journal, document, reversal, account hierarchy) are left
out: they are taken after the source lock and name one object in it. The
maintenance guard takes its locks without waiting and cannot be part of a cycle.

### EventDelivery, FinancialOutbox
`row` is the table, `batch`, `job` and `phase` are where each worker's `runOnce`
is. Times are what remains until a row is available or its lease ends; `Tick`
counts down, and every clock reading may be up to `Skew` ahead. The marks ask
only for status `processing`, as the code does, so a late worker marks another
one's claim (`MarkPublished`, `MarkFailed`); where they are refused the rest of
the batch is abandoned (`MarkFailedFails`). `MarkTerminal` is a host that gives
an event up. The refinement maps rows to the sets of recorded, published and
abandoned events. Rows that a claim skips because they are locked at that moment
are left out: the next claim finds them, and TLC explores smaller batches by
events recorded later. Leases are at least 5 seconds in the code, so
`Skew < LeaseTime` is the assumption that clocks differ by less.

### CommandOutcomes, BillPayments
One source, one step per command: each takes the source lock first and runs in
one transaction with a savepoint. `bill` and `payment` are the documents,
`instruction` the payment instructions with their plan, `application` the
applications, `retired` and `holdKey` the retirement events; `reviewed` remembers
the bills of a plan when it was made and appears in properties only.
`Rebalance` is the balance trigger, `Payable` is
`assertBillPaymentBillsForInstruction`, `MakePayment` is
`materializeClearedBillPayment` with the transition to cleared. Payment and
instruction share the idempotency key, as in the code, and so the model has the
combinations of commands under one key. Abstractions: a plan is forgotten once
it is cleared or cancelled, and an ended application loses its amount, for
neither is read again; a payment has at most one plan application and one direct
application per bill.

### JournalLifecycle, Banking
`journal` and `link` are the posted journals of one account and the links between
them. A reversal has a key derived from its original, so a reverse command, a
void and a correction of the same journal meet under one key (`AnsweredOnce`);
a replacement has a key of the client's, and two corrections may share it.
Correct and replace differ in the name of their link only. `Banking` adds
`statement`, `cleared` and the log of clearings: `Prepare`, `Complete`, `Reopen`
and `Cancel` with the triggers on statements, clearings and links, the fiscal
period of a statement, and `Review`, the reading of a statement by the person
who completes it later. Keys of statement commands and their retirement follow
the protocol of `CommandOutcomes`, which `BillPayments` has, and are left out.

### Receivables, BankLines
One source of native documents: invoices, receipts, credit notes, refunds and
write-offs, each named by its idempotency key, and the active applications
between them. `Rebalance` is the balance trigger. `CorrectInvoice` and
`VoidInvoice` are one action each, with the release of every application, the
void, the new invoice and the reapplication of the receipts it names. Refunds
fund themselves from credits and receipts; their void gives back exactly that
funding (`FundingEnded`). `BankLines` has the lines of a bank feed with
ingestion, match, unmatch, ignore and unignore; a match names a receipt, and
the module is an instance inside `Receivables` so that receipts may be voided
and corrected under it. The bounds: `MaxDocuments` documents, and a correction
reapplies no source by two applications.

### Rollups
`ledger` has the day of each posting, `bucket` and `snapshot` are what the jobs
derived from it. Jobs go step by step through their storage calls,
each an autonomous transaction, and may stop between any two (`StopJob`): scheduled
rollups and late arrival jobs read a window, delete its buckets, write them and
mark snapshots; a refresh decides whether a snapshot may be reused, reads the
ledger, writes the header and then the lines. A native command marks the
snapshots that exist and commits (or not) later, holding the row locks of what
it marked; an import adds, moves and removes postings. The host runs one job of
a source at a time (`docs/future-erp-scheduler-handoff.md:51`), hands every
changed posting, old date and new, to a late arrival job, and retries a stopped
job with the same postings (`docs/operations-runbook.md:273`). The last is
needed: with a retry of another batch TLC finds windows that were emptied and
are never filled again, which is why `retry` keeps the spans. `Waiting` and
`Pending` are what a host still has to do. Amounts are sets of postings, for a
bucket is wrong exactly when it was computed from other postings. A scheduled
period is assumed to contain whole windows (`WholeWindows`), because the code
writes the sum of the days within the period as the bucket of the window.

## 5 Runs

Bounds named `Max*` and the guards `WithinBounds` belong to the models only.
Symmetry is used for interchangeable model values in runs without liveness.

| Run | Instance | What it shows |
|---|---|---|
| `ledger` | 2 periods, 2 days, 2 journals, 1 draft, 2 close keys | the events of a period are its complete history; periods stay disjoint; closed and certified periods are frozen; the lock date keeps up with close and reopen |
| `posting_gate` | 2 clients, 1 period, 2 days, 1 journal, 1 draft, 1 approval, 1 close key | the gate's answer holds until commit against define, canonical close and lock-date changes; a close certifies what was reviewed, against drafts being created, moved, voided and issued; every commit is a `FiscalLedger` step |
| `fiscal_replay` | 2 clients, 2 approvals, 2 close keys, 5 versions (two close/reopen cycles) | only the exact latest command is answered as a replay, and it always is |
| `source_locks` | 3 clients, 2 sources | no wait cycle among the source-first commands, and each ends |
| `native_writers` | 2 clients, 1 source | violation: three kinds of command ask for the source lock while holding the fiscal lock |
| `outbox` | 2 workers, 1 good and 1 poison event, clocks 1 apart, leases of 2 | the outbox implements `EventDelivery`; one holder within a lease; every event that can be handled settles |
| `bill_payments` | 2 bills, 2 payment keys, 2 hold keys, amounts up to 2, 4 versions of a bill | balances match applications, instructions agree with payments, payments pay what was reviewed, outcomes are final |
| `banking` | 3 journals, 2 statements, 2 people, 2 days (one may be closing or closed), 5 commands | cleared accounting stands; statements form one balanced chain; a journal is answered once; a completion is of what was reviewed; statements of a closed period stay |
| `receivables` | 2 invoices, 2 receipts, 2 credits, 2 refunds, 1 write-off, 2 bank lines, 2 match keys, 5 documents, amounts up to 2 | balances match applications through corrections and voids; cancelled stays cancelled, money paid back stays paid back; matches agree with receipts; a collection has one outcome |
| `voided_write_off` | 2 invoices, 1 receipt, 1 credit, 1 write-off, 1 refund, 4 documents | violation: a write-off voided while applied opens again when the application ends |
| `rollups` | 4 days (three of them a month), windows by day and by month, 1 native and 1 imported posting, a balance sheet, 3 changes, overlap of 1 day | what disagrees with the ledger is still to be processed, wherever jobs stop |
| `lost_invalidation` | 1 native posting, a balance sheet and a profit and loss, 1 change | violation: a native posting that commits during a refresh is missing from a fresh snapshot |

**Why the bounds suffice.** The races need two transactions and, for frozen
periods, a neighbour that holds the other days; a third client adds a holder, not
a new pair of statements, except for lock cycles, where `source_locks` has three.
Five period versions are the smallest number with a stale retry from an earlier
cycle. Two workers suffice for a stale mark and three events for a batch that
leaves one out. Four bill versions hold the correction of a paid bill (create,
apply, end, void), and amount 2 is the smallest that can be paid in part. What
is proved below does not depend on any bound except that versions have one.

`posting_gate` has one period and leaves out begin close, reopen and adjusting
postings; that their interleavings are steps of `FiscalLedger` too, and that the
gate holds among them, is what `LockingRefinesLedger` and `PostingGrantHolds`
prove for all of them. Two statements are the smallest chain, three journals an
original, its reversal and its replacement. A refund funded by a credit and a
receipt, applied to a second invoice by a correction, needs the five documents
of `receivables`.

**Deadlock.** TLC's deadlock check is off where a system with exhausted bounds
stops (`ledger`, `bill_payments`, `banking`, `receivables`, `voided_write_off`,
`rollups`, `lost_invalidation`) and where it may rest (the outbox with everything
published and no worker busy). It is on for the lock models, where a client can
always begin another command.

**Fairness.**
- `SourceLocks`: weak fairness of each client's next statement: a running process
  issues it, and PostgreSQL's queue grants a lock when nothing earlier conflicts.
  Nothing obliges a client to begin or to abort. `FiscalLocking` states no
  fairness: that its commands end is the same question over the same locks.
- `FinancialOutbox`: time passes, hosts keep calling `runOnce`, and for an event
  that is not poison a handler started again and again succeeds eventually, and
  so does its mark. `EveryEventSettles` has the premise that from some time on
  no worker holds an event another one may claim. Without it TLC finds two late
  workers that for ever mark each other's claims as failed; the code has no
  fencing token that would prevent it. It also needs fewer poison events than
  a batch has places.
- `BillPayments`, `Receivables` and `Banking` have no liveness: nothing obliges a
  user to pay, collect or complete. Neither has `Rollups`: whether jobs run is
  up to the host, and its properties say that what is wrong is still due.

**Limits of the runs.** Recordings through `createSubledgerDocument` that get the
source lock from a trigger are not among the commands of `source_locks` but in
`SourceLocks` (kind `document`). There `NoWaitCycle` fails as soon as
a command of the violation runs is offered, which is why those kinds are left
out of `source_locks`; `docs/vendor-bill-contract.md:150-158` indeed disclaims a
lock order for all commands.

## 6 Proofs

All theorems hold for every value of the constants, under the named assumptions
of the modules (days and bounds are numbers, sets of bills and keys finite,
`None` is no value, leases longer than the clock difference).

| Theorem | Says | Rests on |
|---|---|---|
| `LedgerTypeCorrect`, `LedgerPeriodsDisjoint`, `LedgerClosedPeriodsStable` | types; no two periods share a day; a closed period's journals do not change | type invariant and disjointness are inductive; stability needs both, since the gate looks at one period of a day |
| `LedgerCertifiedPeriodFrozen` | a current certificate has exactly the period's journals | `CertificateInv`: certified facts are posted and their period is defined; without the first a posting could add a certified key later |
| `LockingRefinesLedger` | transactions implement the atomic commands | `LockInv` (locks follow from program counters) and `GateInv` (what was read under a lock is still so): a commit re-reads nothing, so only these make it an atomic step |
| `LedgerEventChain` | a period's lifecycle events are its whole history | `HistoryInv`: a key is told apart by what it records, and a canonical close by its certificate, so none is used twice; the row agrees with its latest event, so the next one may follow it |
| `LedgerKeepsClosedLocked` | closing and reopening leave no closed period behind the book lock | `EndsFinite`: only finitely many periods are defined at any time, so the recomputed lock has a latest closed end to fall back to (`FiniteHasLatest`, by `SubsetInduction`) |
| `LockingTypeCorrect`, `LockingKeepsHistory` | the transactions' types; closed periods, lock and history under interleaving | `LockInv`; the refinement and the two theorems before |
| `ReviewedFactsStand` | a decided canonical close certifies what its reviewer read | `SeenInv` and `CertificatesAgree`: while the revisions of a token have not moved, the journals through its cutoff are those that were read, since every posting advances the revision of its day; and none commits while the closer holds the fiscal lock |
| `ReplaysAreTruthful`, `RetriesAreAnswered` | a recorded answer is given exactly to the command that put the period where it is | `HistoryInv` carried over by the refinement: the latest event of a period is unique |
| `PostingGrantHolds`, `LockingCertifiedPeriodFrozen` | the gate's answer lasts until commit; frozen periods under interleaving | the same, and the refinement |
| `LocksTypeCorrect`, `SourceFirstNeverDeadlocks` | source-first commands never wait in a cycle, for any number of clients and sources | `HeldInOrder`: held locks rank below needed ones; in a set of waiters the one with the greatest wanted lock waits for nobody in it |
| `OutboxTypeCorrect`, `LeasesProtectHolders` | one holder per event within a lease | `HeldInTime`: a held event whose lease has not run out is open to no claim, by any clock |
| `OutboxKeepsPromise` | the outbox implements `EventDelivery` | `HandledInv`: who is about to mark an event published has had it handled |
| `ScheduledPaymentsReviewed` | a scheduled payment is posted only on bills unchanged since review; nothing is applied to a bill on hold | `IInv` of `BillPayments_proofs`: equal version means equal bill, because every command that changes a bill advances its version (`BillsAdvance`) |
| `CommandsSettle` | a payment or hold command is recorded or retired, once | the same: payments do not disappear (`AppliedExists` keeps a release from creating one), nothing is recorded under a retired key |
| `BillPaymentsTyped`, `BillBalances`, `InstructionsAgree` | open amounts lie between zero and the amount and are what live applications leave; instructions and payments agree | `BooksInv`: the books together with how statuses, instructions and applications go together; the laws of sums in `SumTheorems` |
| `ReceivablesTyped`, `ReceivableBalances`, `CancelledInvoicesStand`, `ReturnedMoneyStays` | receivables stay open by what live applications leave; a cancelled invoice is settled by its credit alone; money paid back stays paid back | `BalanceInv` of `Receivables_proofs`: the books of every document (`Book`), that nothing but the cancelling credit is applied to a cancelled invoice (`CancelOK`), and who funds a refund, which is what its void may give back (`RefundOK`); each command touches one, two or three documents, and the books are kept if those are |
| `PayablesAddUp`, `ReceivablesAddUp` | over a whole source, what is settled of bills and invoices is what was used of payments, receipts, credits and write-offs | the books of each document, added up: every application is of one source and one target document (`SumByParts`) |
| `BankLinesAgree`, `CollectionsSettle` | bank lines and matches agree; a collection key has one outcome | `MatchOK` (an active match is to a receipt that exists) and `OutcomeOK` (a retired key has no receipt), in one invariant `Inv` with the books |
| `BankingTypeCorrect`, `BankingClearedFactsStand`, `BankingStatementsChain`, `BankingClosedStatementsStay` | what a statement cleared is neither reversed nor cleared twice; statements follow each other without a gap or a fork; statements of closed periods do not change | `BankingInv`: `LinksInv` (a link joins journals that exist, under the derived key) and `UnusedInv` (a statement not yet prepared has left no trace) |
| `BankingClosingIsCleared` | a completed statement's closing balance is what is cleared up to it | `ClosingInv`: `DatesInv` says the chain of statements is their order in time (a draft starts at the latest one, only the last has none after it), so completing adds one selection and reopening takes away the last; amounts stay since what is cleared is posted; the laws of `SumTheorems` |
| `JournalsAnsweredOnce` | a journal has one reversal and at most one live successor, whatever commands compete | `LinksInv` |
| `BankingCompletedAsReviewed` | who completes a statement completes what they read | `ReviewInv`: the same version is the same selection, because every change of a statement advances it |
| `RollupsTypeCorrect`, `RollupsAlwaysCatchUp`, `SnapshotsAlwaysCatchUp` | a window or snapshot that disagrees with the ledger is due again, wherever jobs stop and whatever they retry | `BucketInv`, `SnapshotInv`, `CommandInv`: what a job is about to write is right unless the ledger changed since it read, and then the window or report is due again; the assumption `WholeWindows` |

`VersionsTellReviews` (`Spec => []IInv`) is the invariant behind
`ScheduledPaymentsReviewed` and `CommandsSettle`; `ReceivablesKept` (`Spec => []Inv`)
the one behind all theorems about `Receivables`.

`SumTheorems` proves how a sum over a finite set changes with one term, splits in
parts and is bounded. The library's induction theorems take an operator, which the
provers cannot instantiate, so each law is proved from a smallest set that breaks it.

**Proved only.** `PayablesReconcile` and `ReceivablesReconcile` follow from the
balances of single documents, which runs check; they are stated and proved in the
proof modules.

**Model-checked only.** Liveness (`EveryCommandEnds`, `EveryEventSettles`) is out
of the prover's reach; the deadlock freedom behind the first is proved
(`SourceFirstNeverDeadlocks`). Every other property of a passing run is stated by
a theorem. `SumTheorems` proves of the library's recursive sum what is needed of it;
what a recursive definition computes in general would need induction over data.

## 7 Findings

Each is a violation run; details and quotes are in `PROJECT.json`.

1. `native_writers`: a comment says native writers take the source lock before
   any fiscal lock. Recording a document other than an invoice or receipt,
   reversing a deposit or transfer, and the attested settlement correction take
   the fiscal lock first and can deadlock with a canonical close or a posting;
   PostgreSQL then rolls one back.
2. `voided_write_off`: a write-off may be voided while it is applied to an
   invoice. The invoice stays settled by a reversed journal, and ending the
   application makes the balance trigger open the voided write-off again.
3. `lost_invalidation`: a native posting that commits while a refresh is between
   its read and its write is missing from a snapshot that is marked fresh, and
   nothing marks it again unless the host also runs a late arrival job.

## 8 What is not modelled

Within modelled components: bank evidence and draft or unbalanced transactions
in close diagnostics; lines, totals and accounts of journals and invoices;
invoices after issue; vendor credits, applications across sources, match
evidence, review tokens and cash-basis projections in the bill commands; the journals those commands post and
the date, party and account checks, which only refuse; replays of
recorded commands, which write nothing; the source import reset, which deletes
outbox rows; a database trigger that independently keeps published rows final.
In receivables: deposits, settlements across sources, imported documents, the
retirement of application keys, the preview of a receipt's void and its hash,
dates and document versions. In rollups: freshness rows, staleness after a change
of the account hierarchy, keys of a bucket other than its window, overlapping
jobs, and the `unknown` freshness of a snapshot.

Whole components: the rows `not_modelled` in `PROJECT.json`, each with its
reason. Some are pure input or output (SQL generation, provider payloads,
health checks, fixtures, facade); the others are in the plan.

## 9 Plan

Done: fiscal ledger and locking; lock order; outbox; vendor bills and payments;
journal lifecycle and bank statements; receivables with bank reconciliation;
rollups and snapshots.

Left, in this order:

1. **Sync**: checkpoints, crash between persist and checkpoint, soft deletes,
   source import reset against the outbox and the approval token.
2. **Recurring financials, account hierarchy, reporting books**: cursor and
   occurrence, acyclic parents under concurrent moves, one active mapping.
3. **Pure algorithms** as operators against reference definitions: posting-rule
   rounding, match scoring, hierarchy rollup, aging.
4. **Migrations and the maintenance guard.**
5. **Proofs** of the modules to come; of the present ones, what several of their
   components promise together (a bank statement over receipts that are matched).
