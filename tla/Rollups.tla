------------------------------ MODULE Rollups ------------------------------
(***************************************************************************)
(* The derived reporting data of one source: rollup buckets and report     *)
(* snapshots, computed from the ledger by jobs of the host while native    *)
(* commands and imports go on changing it.  Every storage call of a job is *)
(* a transaction of its own, so a job is a sequence of steps, may stop     *)
(* between any two of them.  The host follows the handoff: it runs one job *)
(* of the source at a time, gives the old and the new row of every changed *)
(* posting to a late arrival job, and tries one that stopped again with    *)
(* the same postings.                                                      *)
(*                                                                         *)
(* An amount is abstracted to the set of postings it is the sum of.        *)
(***************************************************************************)
EXTENDS Integers, FiniteSetsExt

CONSTANTS
  Posting,      \* postings, by source posting id
  Imported,     \* those the importer owns; the others are native
  LastDay,      \* the days are 1..LastDay
  Window,       \* the bucket windows of every grain
  Report,       \* the report requests
  RollupPeriod, \* the periods scheduled rollups are run for
  OverlapDays,  \* how far before a change a late arrival job starts
  MaxChanges,   \* bound: changes of the ledger
  None

Day == 1..LastDay
Span == {s \in [first : Day, last : Day] : s.first <= s.last}

ASSUME ReportingAssumption ==
  /\ Imported \subseteq Posting
  /\ LastDay \in Nat /\ OverlapDays \in Nat /\ MaxChanges \in Nat
  /\ Window \subseteq Span /\ RollupPeriod \subseteq Span
  /\ Report \subseteq
       {r \in [first : Day, last : Day, asOf : Day, kind : {"period", "asOf"}] :
          r.first <= r.last /\ r.last <= r.asOf}

(* Scheduled rollups are run for whole windows.                            *)
ASSUME WholeWindows ==
  \A s \in RollupPeriod, w \in Window :
    w.first <= s.last /\ w.last >= s.first
      => s.first <= w.first /\ w.last <= s.last

VARIABLES
  ledger,    \* ledger_postings: the date of each posting, 0 if there is none
  command,   \* the native command between its writes and its commit
  changed,   \* days of changed rows no late arrival job was given yet
  retry,     \* the spans of days of late arrival jobs to be tried again
  bucket,    \* rollup_buckets: what each window sums up
  snapshot,  \* report_snapshots
  job,       \* the job that is running, and what it has read
  changes    \* number of changes made to the ledger

vars == <<ledger, command, changed, retry, bucket, snapshot, job, changes>>

SnapshotRow ==
  [status : {"none", "fresh", "stale"}, whole : BOOLEAN, of : SUBSET Posting]

(* A native command that has written its posting and marked snapshots.     *)
Command == [posting : Posting \ Imported, day : Day, marked : SUBSET Report]

(* What each job carries from one of its storage calls to the next.        *)
LateJob ==
  [kind : {"late"}, step : {"delete", "upsert", "mark"}, span : Span,
   read : [Window -> SUBSET Posting]]
RollupJob == [kind : {"rollup"}, step : {"upsert"}, read : [Window -> SUBSET Posting]]
RefreshJob ==
  [kind : {"refresh"}, step : {"header", "lines"}, report : Report,
   read : SUBSET Posting]

ASSUME NoneAssumption ==
  None \notin Command \cup LateJob \cup RollupJob \cup RefreshJob

Within(s) == {p \in Posting : ledger[p] \in s.first..s.last}

(* Which postings a report is made of: period reports take their period,   *)
(* the balance sheet everything up to its date.                            *)
Content(r) ==
  IF r.kind = "period" THEN Within(r) ELSE {p \in Posting : ledger[p] \in 1..r.asOf}

TypeOK ==
  /\ ledger \in [Posting -> 0..LastDay]
  /\ changed \subseteq Day
  /\ retry \subseteq Span
  /\ bucket \in [Window -> SUBSET Posting]
  /\ snapshot \in [Report -> SnapshotRow]
  /\ changes \in 0..MaxChanges
  /\ command \in Command \cup {None}
  /\ job \in LateJob \cup RollupJob \cup RefreshJob \cup {None}

Init ==
  /\ ledger = [p \in Posting |-> 0]
  /\ command = None
  /\ changed = {}
  /\ retry = {}
  /\ bucket = [w \in Window |-> {}]
  /\ snapshot = [r \in Report |-> [status |-> "none", whole |-> TRUE, of |-> {}]]
  /\ job = None
  /\ changes = 0
-----------------------------------------------------------------------------
(* Mutant of Affected: the as-of date is not asked for.                    *)
AffectedPeriod(r, first, last) == r.first <= last /\ r.last >= first

(* The filter of markReportSnapshotsStaleForPostingChanges.                *)
Affected(r, first, last) ==
  (r.first <= last /\ r.last >= first) \/ r.asOf >= first

Markable(first, last) ==
  {r \in Report : snapshot[r].status # "none" /\ Affected(r, first, last)}

Locked == IF command = None THEN {} ELSE command.marked

MarkStale(S) ==
  snapshot' = [r \in Report |->
                 IF r \in S THEN [snapshot[r] EXCEPT !.status = "stale"] ELSE snapshot[r]]

CountChange ==
  /\ changes < MaxChanges
  /\ changes' = changes + 1

(* A native command posts, and marks the snapshots there are at that       *)
(* moment, in one transaction: its row locks keep them until it commits.   *)
PostNative(p, d) ==
  /\ command = None
  /\ p \notin Imported
  /\ ledger[p] = 0
  /\ CountChange
  /\ command' = [posting |-> p, day |-> d, marked |-> Markable(d, d)]
  /\ UNCHANGED <<ledger, changed, retry, bucket, snapshot, job>>

CommitNative ==
  /\ command # None
  /\ ledger' = [ledger EXCEPT ![command.posting] = command.day]
  /\ changed' = changed \cup {command.day}
  /\ MarkStale(command.marked)
  /\ command' = None
  /\ UNCHANGED <<retry, bucket, job, changes>>

AbortNative ==
  /\ command # None
  /\ command' = None
  /\ UNCHANGED <<ledger, changed, retry, bucket, snapshot, job, changes>>

(* The days a late arrival job is to be told of.                           *)
ChangedDays(old, new) == {old, new} \ {0}

(* An import adds, moves or removes a posting, in one transaction.         *)
Import(p, d) ==
  /\ p \in Imported
  /\ d # ledger[p]
  /\ CountChange
  /\ ledger' = [ledger EXCEPT ![p] = d]
  /\ changed' = changed \cup ChangedDays(ledger[p], d)
  /\ UNCHANGED <<command, retry, bucket, snapshot, job>>
-----------------------------------------------------------------------------
(* Late arrivals *)

(* Mutant of AffectedWindows: a window is affected when it starts in the   *)
(* range, not when it overlaps it.                                         *)
WindowsStarting(first, last) == {w \in Window : w.first \in first..last}

AffectedWindows(first, last) == {w \in Window : w.first <= last /\ w.last >= first}

(* The range of a late arrival job starts OverlapDays before the changes.  *)
Start(span) == span.first - OverlapDays

(* Plan the windows, and read what their buckets are to be.                *)
StartLateArrivals(span) ==
  /\ job = None
  /\ job' = [kind |-> "late", step |-> "delete", span |-> span,
             read |-> [w \in Window |->
               IF w \in AffectedWindows(Start(span), span.last) THEN Within(w) ELSE {}]]
  /\ UNCHANGED <<ledger, command, bucket, snapshot, changes>>

ReprocessChanges(days) ==
  /\ days # {}
  /\ StartLateArrivals([first |-> Min(days), last |-> Max(days)])
  /\ changed' = changed \ days
  /\ UNCHANGED retry

RetryLateArrivals(span) ==
  /\ StartLateArrivals(span)
  /\ retry' = retry \ {span}
  /\ UNCHANGED changed

Running(kind, step) == job # None /\ job.kind = kind /\ job.step = step
StepTo(step) == job' = [job EXCEPT !.step = step]

DeleteBuckets ==
  /\ Running("late", "delete")
  /\ bucket' = [w \in Window |->
       IF w \in AffectedWindows(Start(job.span), job.span.last) THEN {} ELSE bucket[w]]
  /\ StepTo("upsert")
  /\ UNCHANGED <<ledger, command, changed, retry, snapshot, changes>>

UpsertBuckets ==
  bucket' = [w \in Window |->
               IF job.read[w] # {} THEN job.read[w] ELSE bucket[w]]

WriteLateBuckets ==
  /\ Running("late", "upsert")
  /\ UpsertBuckets
  /\ StepTo("mark")
  /\ UNCHANGED <<ledger, command, changed, retry, snapshot, changes>>

(* The freshness rows the job writes last are not modelled.                *)
MarkSnapshots ==
  LET S == Markable(Start(job.span), job.span.last) IN
  /\ Running("late", "mark")
  /\ S \cap Locked = {}
  /\ MarkStale(S)
  /\ job' = None
  /\ UNCHANGED <<ledger, command, changed, retry, bucket, changes>>
-----------------------------------------------------------------------------
(* Scheduled rollups: buckets without postings are neither written nor     *)
(* deleted.                                                                *)

ReadRollup(period) ==
  /\ job = None
  /\ job' = [kind |-> "rollup", step |-> "upsert",
             read |-> [w \in Window |-> Within(w) \cap Within(period)]]
  /\ UNCHANGED <<ledger, command, changed, retry, bucket, snapshot, changes>>

WriteRollup ==
  /\ Running("rollup", "upsert")
  /\ UpsertBuckets
  /\ job' = None
  /\ UNCHANGED <<ledger, command, changed, retry, snapshot, changes>>
-----------------------------------------------------------------------------
(* Snapshot refreshes: a snapshot that is fresh is reused unless forced.   *)

ReadSnapshot(r, force) ==
  /\ job = None
  /\ snapshot[r].status # "fresh" \/ force
  /\ job' = [kind |-> "refresh", step |-> "header",
             report |-> r, read |-> Content(r)]
  /\ UNCHANGED <<ledger, command, changed, retry, bucket, snapshot, changes>>

(* The header says fresh before the lines are there.                       *)
WriteHeader ==
  /\ Running("refresh", "header")
  /\ job.report \notin Locked
  /\ snapshot' = [snapshot EXCEPT ![job.report].status = "fresh",
                                  ![job.report].whole = FALSE]
  /\ StepTo("lines")
  /\ UNCHANGED <<ledger, command, changed, retry, bucket, changes>>

WriteLines ==
  /\ Running("refresh", "lines")
  /\ snapshot' = [snapshot EXCEPT ![job.report].of = job.read,
                                  ![job.report].whole = TRUE]
  /\ job' = None
  /\ UNCHANGED <<ledger, command, changed, retry, bucket, changes>>
-----------------------------------------------------------------------------
(* Mutant of Retried: the range the job had planned is taken for the one   *)
(* it was given, so that it grows with every attempt.                      *)
RetriedAffected ==
  IF job.kind = "late"
  THEN retry \cup {[first |-> Start(job.span), last |-> job.span.last]} ELSE retry

Retried == IF job.kind = "late" THEN retry \cup {job.span} ELSE retry

(* The process of the job ends, or a storage call fails.                   *)
StopJob ==
  /\ job # None
  /\ retry' = Retried
  /\ job' = None
  /\ UNCHANGED <<ledger, command, changed, bucket, snapshot, changes>>

Next ==
  \/ \E p \in Posting, d \in Day : PostNative(p, d)
  \/ CommitNative \/ AbortNative
  \/ \E p \in Posting, d \in 0..LastDay : Import(p, d)
  \/ \E days \in SUBSET changed : ReprocessChanges(days)
  \/ \E span \in retry : RetryLateArrivals(span)
  \/ DeleteBuckets \/ WriteLateBuckets \/ MarkSnapshots
  \/ \E period \in RollupPeriod : ReadRollup(period)
  \/ WriteRollup
  \/ \E r \in Report, force \in BOOLEAN : ReadSnapshot(r, force)
  \/ WriteHeader \/ WriteLines
  \/ StopJob

Spec == Init /\ [][Next]_vars
-----------------------------------------------------------------------------
(* The spans of days no late arrival job was started for, and those that   *)
(* late arrival jobs are still to process.                                 *)
Waiting == {[first |-> d, last |-> d] : d \in changed} \cup retry

Pending ==
  Waiting \cup (IF job # None /\ job.kind = "late" THEN {job.span} ELSE {})

(* Whatever jobs were stopped, tried again or overtaken by changes of the  *)
(* ledger: a bucket that is not the sum of the postings in its window is   *)
(* in what a late arrival job is still to replace, so with nothing left to *)
(* process the rollups agree with the ledger                               *)
(* (executeLateArrivalReprocess, runScheduledRollup).                      *)
RollupsCatchUp ==
  \A w \in Window :
    bucket[w] # Within(w) =>
      \E s \in Pending : w \in AffectedWindows(Start(s), s.last)

(* A finished snapshot that is served as fresh and is not what the ledger  *)
(* says is one a late arrival job is still to mark, even when its refresh  *)
(* had read the ledger before a change and wrote after it, over its mark   *)
(* (executeSnapshotRefresh, markReportSnapshotsStaleForPostingChanges).    *)
SnapshotsCatchUp ==
  \A r \in Report :
    snapshot[r].status = "fresh" /\ snapshot[r].whole /\ snapshot[r].of # Content(r)
      => \E s \in Pending : Affected(r, Start(s), s.last)

(* README.md:134 says that the service "persists every ledger row          *)
(* atomically [...] and marks affected report snapshots stale": a snapshot *)
(* that should have a native posting and has not is not fresh.             *)
NativePostingsShow ==
  \A r \in Report, p \in Posting \ Imported :
    snapshot[r].status = "fresh" /\ snapshot[r].whole /\ p \in Content(r)
      => p \in snapshot[r].of
=============================================================================
