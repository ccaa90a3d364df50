--------------------------- MODULE Rollups_proofs ---------------------------
(* For any windows, reports and batches of changes: whatever in the        *)
(* buckets and the fresh snapshots disagrees with the ledger is within     *)
(* what a late arrival job is still to process.                            *)
EXTENDS Rollups, WellFoundedInduction, TLAPS

Less == {pair \in Nat \X Nat : pair[1] < pair[2]}

LEMMA LessIsWellFounded == IsWellFoundedOn(Less, Nat)
BY NatLessThanWellFounded DEF OpToRel, Less

(* A nonempty set of numbers has a least element.                          *)
LEMMA LeastElement ==
  ASSUME NEW U, U \subseteq Nat, U # {}
  PROVE  \E m \in U : \A n \in U : m <= n
<1>1. PICK m \in U : \A n \in U : <<n, m>> \notin Less
  BY LessIsWellFounded, WFMin
<1>2. \A n \in U : ~(n < m)
  BY <1>1 DEF Less
<1>. QED  BY <1>2

(* The span of a batch of changes reaches from a day of it to a day of it  *)
(* and has all of its days.                                                *)
LEMMA SpanOfDays ==
  ASSUME NEW days, days \subseteq Day, days # {}
  PROVE  /\ Min(days) \in days /\ Max(days) \in days
         /\ \A d \in days : Min(days) <= d /\ d <= Max(days)
<1>. USE ReportingAssumption DEF Day
<1>1. \E m \in days : \A d \in days : m <= d
  <2>1. days \subseteq Nat
    OBVIOUS
  <2>. QED  BY <2>1, LeastElement
<1>2. \E m \in days : \A d \in days : m >= d
  <2> DEFINE U == {LastDay - d : d \in days}
  <2>1. \A d \in days : d \in Nat /\ LastDay - d \in Nat
    OBVIOUS
  <2>2. U \subseteq Nat /\ U # {}
    BY <2>1, Zenon
  <2>3. PICK u \in U : \A v \in U : u <= v
    <3>. HIDE DEF U
    <3>. QED  BY <2>2, LeastElement
  <2>4. PICK m \in days : u = LastDay - m
    OBVIOUS
  <2>5. ASSUME NEW d \in days PROVE m >= d
    <3>1. u <= LastDay - d
      BY <2>3
    <3>. QED  BY <3>1, <2>1, <2>4
  <2>. QED  BY <2>5
<1>3. Min(days) \in days /\ \A d \in days : Min(days) <= d
  BY <1>1 DEF Min
<1>4. Max(days) \in days /\ \A d \in days : Max(days) >= d
  BY <1>2 DEF Max
<1>. QED  BY <1>3, <1>4

-----------------------------------------------------------------------------
(* Types *)

USE ReportingAssumption, NoneAssumption

(* The command that has not committed posts what is not in the ledger.     *)
CommandInv == command # None => ledger[command.posting] = 0

LEMMA TypeInit == Init => TypeOK /\ CommandInv
BY DEF Init, TypeOK, CommandInv, SnapshotRow

LEMMA TypeNext ==
  ASSUME TypeOK, CommandInv, [Next]_vars
  PROVE  TypeOK' /\ CommandInv'
<1>. USE DEF TypeOK, CommandInv
<1>1. ASSUME NEW p \in Posting, NEW d \in Day, PostNative(p, d)
      PROVE  TypeOK' /\ CommandInv'
  <2>1. Markable(d, d) \subseteq Report
    BY DEF Markable
  <2>2. command' \in Command
    BY <1>1, <2>1 DEF PostNative, Command
  <2>3. changes' \in 0..MaxChanges
    BY <1>1 DEF PostNative, CountChange
  <2>. QED  BY <1>1, <2>2, <2>3 DEF PostNative
<1>2. CASE CommitNative
  <2>1. command \in Command
    BY <1>2 DEF CommitNative
  <2>2. command.posting \in Posting /\ command.day \in Day /\ command.day \in 0..LastDay
    BY <2>1 DEF Command, Day
  <2>3. ledger' \in [Posting -> 0..LastDay] /\ changed' \subseteq Day
    BY <1>2, <2>2 DEF CommitNative
  <2>4. snapshot' \in [Report -> SnapshotRow]
    BY <1>2 DEF CommitNative, MarkStale, SnapshotRow
  <2>. QED  BY <1>2, <2>3, <2>4 DEF CommitNative
<1>3. CASE AbortNative
  BY <1>3 DEF AbortNative
<1>4. ASSUME NEW p \in Posting, NEW d \in 0..LastDay, Import(p, d)
      PROVE  TypeOK' /\ CommandInv'
  <2>1. ledger' \in [Posting -> 0..LastDay]
    BY <1>4 DEF Import
  <2>2. changed' \subseteq Day
    <3>1. \A x \in 0..LastDay : x # 0 => x \in Day
      BY DEF Day
    <3>. QED  BY <1>4, <3>1 DEF Import, ChangedDays
  <2>3. changes' \in 0..MaxChanges
    BY <1>4 DEF Import, CountChange
  <2>4. CommandInv'
    <3>1. command # None => command.posting # p
      BY <1>4 DEF Import, Command
    <3>. QED  BY <1>4, <3>1 DEF Import, Command
  <2>. QED  BY <1>4, <2>1, <2>2, <2>3, <2>4 DEF Import
<1>5. ASSUME NEW s \in Span, StartLateArrivals(s)
      PROVE  job' \in LateJob
  <2>1. \A w \in Window : Within(w) \in SUBSET Posting
    BY DEF Within
  <2>. QED  BY <1>5, <2>1 DEF StartLateArrivals, LateJob
<1>6. ASSUME NEW days \in SUBSET changed, ReprocessChanges(days)
      PROVE  TypeOK' /\ CommandInv'
  <2>1. [first |-> Min(days), last |-> Max(days)] \in Span
    BY <1>6, SpanOfDays DEF ReprocessChanges, Span, Day
  <2>2. job' \in LateJob
    BY <1>5, <1>6, <2>1 DEF ReprocessChanges
  <2>. QED  BY <1>6, <2>2 DEF ReprocessChanges, StartLateArrivals
<1>7. ASSUME NEW s \in retry, RetryLateArrivals(s)
      PROVE  TypeOK' /\ CommandInv'
  <2>1. job' \in LateJob
    BY <1>5, <1>7 DEF RetryLateArrivals
  <2>. QED  BY <1>7, <2>1 DEF RetryLateArrivals, StartLateArrivals
<1>8. CASE DeleteBuckets
  <2>1. job \in LateJob
    BY <1>8 DEF DeleteBuckets, Running, RollupJob, RefreshJob
  <2>2. job' \in LateJob
    BY <1>8, <2>1 DEF DeleteBuckets, StepTo, LateJob
  <2>3. bucket' \in [Window -> SUBSET Posting]
    BY <1>8 DEF DeleteBuckets
  <2>. QED  BY <1>8, <2>2, <2>3 DEF DeleteBuckets
<1>9. CASE WriteLateBuckets
  <2>1. job \in LateJob
    BY <1>9 DEF WriteLateBuckets, Running, RollupJob, RefreshJob
  <2>2. job' \in LateJob
    BY <1>9, <2>1 DEF WriteLateBuckets, StepTo, LateJob
  <2>3. bucket' \in [Window -> SUBSET Posting]
    BY <1>9, <2>1 DEF WriteLateBuckets, UpsertBuckets, LateJob
  <2>. QED  BY <1>9, <2>2, <2>3 DEF WriteLateBuckets
<1>10. CASE MarkSnapshots
  <2>1. snapshot' \in [Report -> SnapshotRow]
    BY <1>10 DEF MarkSnapshots, MarkStale, SnapshotRow
  <2>. QED  BY <1>10, <2>1 DEF MarkSnapshots
<1>11. ASSUME NEW period \in RollupPeriod, ReadRollup(period)
      PROVE  TypeOK' /\ CommandInv'
  <2>1. job' \in RollupJob
    BY <1>11 DEF ReadRollup, RollupJob, Within
  <2>. QED  BY <1>11, <2>1 DEF ReadRollup
<1>12. CASE WriteRollup
  <2>1. job \in RollupJob
    BY <1>12 DEF WriteRollup, Running, LateJob, RefreshJob
  <2>2. bucket' \in [Window -> SUBSET Posting]
    BY <1>12, <2>1 DEF WriteRollup, UpsertBuckets, RollupJob
  <2>. QED  BY <1>12, <2>2 DEF WriteRollup
<1>13. ASSUME NEW r \in Report, NEW force \in BOOLEAN, ReadSnapshot(r, force)
      PROVE  TypeOK' /\ CommandInv'
  <2>1. job' \in RefreshJob
    BY <1>13 DEF ReadSnapshot, RefreshJob, Content, Within
  <2>. QED  BY <1>13, <2>1 DEF ReadSnapshot
<1>14. CASE WriteHeader
  <2>1. job \in RefreshJob
    BY <1>14 DEF WriteHeader, Running, LateJob, RollupJob
  <2>2. job' \in RefreshJob
    BY <1>14, <2>1 DEF WriteHeader, StepTo, RefreshJob
  <2>3. snapshot' \in [Report -> SnapshotRow]
    <3> DEFINE row == snapshot[job.report]
    <3>1. row \in SnapshotRow
      BY <2>1 DEF RefreshJob
    <3>2. [[row EXCEPT !.status = "fresh"] EXCEPT !.whole = FALSE] \in SnapshotRow
      BY <3>1 DEF SnapshotRow
    <3>. QED  BY <1>14, <3>2 DEF WriteHeader
  <2>. QED  BY <1>14, <2>2, <2>3 DEF WriteHeader
<1>15. CASE WriteLines
  <2>1. job \in RefreshJob
    BY <1>15 DEF WriteLines, Running, LateJob, RollupJob
  <2>2. snapshot' \in [Report -> SnapshotRow]
    BY <1>15, <2>1 DEF WriteLines, SnapshotRow, RefreshJob
  <2>. QED  BY <1>15, <2>2 DEF WriteLines
<1>16. CASE StopJob
  <2>1. retry' \subseteq Span
    BY <1>16 DEF StopJob, Retried, LateJob, RollupJob, RefreshJob
  <2>. QED  BY <1>16, <2>1 DEF StopJob
<1>17. CASE UNCHANGED vars
  BY <1>17 DEF vars
<1>. QED
  BY <1>1, <1>2, <1>3, <1>4, <1>6, <1>7, <1>8, <1>9, <1>10, <1>11, <1>12, <1>13,
     <1>14, <1>15, <1>16, <1>17 DEF Next
-----------------------------------------------------------------------------
(* What is due *)

WindowDue(w) == \E s \in Waiting : w \in AffectedWindows(Start(s), s.last)
ReportDue(r) == \E s \in Waiting : Affected(r, Start(s), s.last)

LateJobRuns == job # None /\ job.kind = "late"
JobWindow(w) == LateJobRuns /\ w \in AffectedWindows(Start(job.span), job.span.last)
JobReport(r) == LateJobRuns /\ Affected(r, Start(job.span), job.span.last)

(* A change of the ledger leaves every window and report it concerns due,  *)
(* for the days of the old and of the new row.                             *)
LEMMA LedgerChange ==
  ASSUME TypeOK, NEW p \in Posting, NEW d \in 0..LastDay,
         ledger' = [ledger EXCEPT ![p] = d],
         changed' = changed \cup ChangedDays(ledger[p], d),
         changed' \subseteq Day,
         retry' = retry
  PROVE  /\ \A w \in Window : WindowDue(w) => WindowDue(w)'
         /\ \A w \in Window : Within(w)' # Within(w) => WindowDue(w)'
         /\ \A r \in Report : ReportDue(r) => ReportDue(r)'
         /\ \A r \in Report : Content(r)' # Content(r) => ReportDue(r)'
<1>1. Waiting \subseteq Waiting'
  BY DEF Waiting
<1>2. ASSUME NEW e \in Day, e \in {ledger[p], d}
      PROVE  [first |-> e, last |-> e] \in Waiting'
  <2>1. e \in changed'
    BY <1>2 DEF ChangedDays, Day
  <2>. QED  BY <2>1 DEF Waiting
<1>3. ASSUME NEW first \in Day, NEW last \in Day,
             {q \in Posting : ledger'[q] \in first..last}
               # {q \in Posting : ledger[q] \in first..last}
      PROVE  \E e \in Day : e \in {ledger[p], d} /\ e \in first..last
  <2>1. PICK q \in Posting : (ledger'[q] \in first..last) # (ledger[q] \in first..last)
    BY <1>3
  <2>2. q = p /\ ledger'[p] = d
    BY <2>1 DEF TypeOK
  <2>3. \A e \in first..last : e \in Day
    BY ReportingAssumption DEF Day
  <2>. QED  BY <2>1, <2>2, <2>3
<1>4. ASSUME NEW w \in Window, Within(w)' # Within(w) PROVE WindowDue(w)'
  <2>1. w.first \in Day /\ w.last \in Day
    BY ReportingAssumption DEF Span
  <2>2. PICK e \in Day : e \in {ledger[p], d} /\ e \in w.first..w.last
    BY <1>3, <1>4, <2>1 DEF Within
  <2>3. w \in AffectedWindows(Start([first |-> e, last |-> e]), e)
    BY <2>1, <2>2, ReportingAssumption DEF AffectedWindows, Start, Day
  <2>. QED  BY <1>2, <2>2, <2>3 DEF WindowDue
<1>5. ASSUME NEW r \in Report, Content(r)' # Content(r) PROVE ReportDue(r)'
  <2>1. r.first \in Day /\ r.last \in Day /\ r.asOf \in Day
    BY ReportingAssumption
  <2>2. CASE r.kind = "period"
    <3>1. PICK e \in Day : e \in {ledger[p], d} /\ e \in r.first..r.last
      BY <1>3, <1>5, <2>1, <2>2 DEF Content, Within
    <3>2. Affected(r, Start([first |-> e, last |-> e]), e)
      BY <2>1, <3>1, ReportingAssumption DEF Affected, Start, Day
    <3>. QED  BY <1>2, <3>1, <3>2 DEF ReportDue
  <2>3. CASE r.kind # "period"
    <3>1. 1 \in Day
      BY <2>1, ReportingAssumption DEF Day
    <3>2. PICK e \in Day : e \in {ledger[p], d} /\ e \in 1..r.asOf
      BY <1>3, <1>5, <2>1, <2>3, <3>1 DEF Content
    <3>3. Affected(r, Start([first |-> e, last |-> e]), e)
      BY <2>1, <3>2, ReportingAssumption DEF Affected, Start, Day
    <3>. QED  BY <1>2, <3>2, <3>3 DEF ReportDue
  <2>. QED  BY <2>2, <2>3
<1>. QED  BY <1>1, <1>4, <1>5 DEF WindowDue, ReportDue

(* The span of a batch concerns whatever its days concern.                 *)
LEMMA BatchConcerns ==
  ASSUME NEW days \in SUBSET Day, NEW d \in days
  PROVE  LET s == [first |-> Min(days), last |-> Max(days)]
             t == [first |-> d, last |-> d]
         IN  /\ \A w \in Window : w \in AffectedWindows(Start(t), t.last)
                                    => w \in AffectedWindows(Start(s), s.last)
             /\ \A r \in Report : Affected(r, Start(t), t.last)
                                    => Affected(r, Start(s), s.last)
<1>1. /\ Min(days) \in Int /\ Max(days) \in Int /\ d \in Int
      /\ Min(days) <= d /\ d <= Max(days)
  <2>1. /\ Min(days) \in days /\ Max(days) \in days
        /\ Min(days) <= d /\ d <= Max(days)
    <3>1. days \subseteq Day /\ days # {}
      OBVIOUS
    <3>. QED  BY <3>1, SpanOfDays
  <2>2. \A x \in Day : x \in Int
    BY DEF Day
  <2>. QED  BY <2>1, <2>2
<1>2. \A w \in Window : w.first \in Int /\ w.last \in Int
  BY ReportingAssumption DEF Span, Day
<1>3. \A r \in Report : r.first \in Int /\ r.last \in Int /\ r.asOf \in Int
  BY ReportingAssumption DEF Day
<1>4. Min(days) - OverlapDays <= d - OverlapDays
  BY <1>1, ReportingAssumption
<1> DEFINE m == Min(days)  x == Max(days)
<1>. HIDE DEF m, x
<1>. QED
  BY <1>1, <1>2, <1>3, ReportingAssumption DEF AffectedWindows, Affected, Start, m, x

(* A late arrival job starts: what was due is still due, or the job's.     *)
LEMMA LateStart ==
  ASSUME TypeOK,
         \/ \E days \in SUBSET changed : ReprocessChanges(days)
         \/ \E s \in retry : RetryLateArrivals(s)
  PROVE  /\ job = None
         /\ LateJobRuns' /\ job'.step = "delete"
         /\ \A w \in Window :
              job'.read[w] = IF JobWindow(w)' THEN Within(w) ELSE {}
         /\ \A w \in Window : WindowDue(w) => WindowDue(w)' \/ JobWindow(w)'
         /\ \A r \in Report : ReportDue(r) => ReportDue(r)' \/ JobReport(r)'
         /\ UNCHANGED <<ledger, bucket, snapshot>>
<1> DEFINE
      Concerns(s, t) ==
        /\ \A w \in Window : w \in AffectedWindows(Start(t), t.last)
                               => w \in AffectedWindows(Start(s), s.last)
        /\ \A r \in Report : Affected(r, Start(t), t.last) => Affected(r, Start(s), s.last)
<1>1. ASSUME NEW s \in Span, StartLateArrivals(s),
             \A t \in Waiting : t \in Waiting' \/ Concerns(s, t)
      PROVE  /\ job = None
             /\ LateJobRuns' /\ job'.step = "delete"
             /\ \A w \in Window :
                  job'.read[w] = IF JobWindow(w)' THEN Within(w) ELSE {}
             /\ \A w \in Window : WindowDue(w) => WindowDue(w)' \/ JobWindow(w)'
             /\ \A r \in Report : ReportDue(r) => ReportDue(r)' \/ JobReport(r)'
             /\ UNCHANGED <<ledger, bucket, snapshot>>
  <2>1. job' \in LateJob
    <3>1. \A w \in Window : Within(w) \in SUBSET Posting
      BY DEF Within
    <3>. QED  BY <1>1, <3>1 DEF StartLateArrivals, LateJob
  <2>2. LateJobRuns'
    BY <2>1, NoneAssumption DEF LateJobRuns, LateJob
  <2>3. job'.span = s
    BY <1>1 DEF StartLateArrivals
  <2>4. ASSUME NEW w \in Window
        PROVE  job'.read[w] = IF JobWindow(w)' THEN Within(w) ELSE {}
    BY <1>1, <2>2, <2>3 DEF StartLateArrivals, JobWindow
  <2>5. ASSUME NEW w \in Window, WindowDue(w) PROVE WindowDue(w)' \/ JobWindow(w)'
    BY <1>1, <2>2, <2>3, <2>5 DEF WindowDue, JobWindow
  <2>6. ASSUME NEW r \in Report, ReportDue(r) PROVE ReportDue(r)' \/ JobReport(r)'
    BY <1>1, <2>2, <2>3, <2>6 DEF ReportDue, JobReport
  <2>. QED  BY <1>1, <2>2, <2>4, <2>5, <2>6 DEF StartLateArrivals
<1>2. ASSUME NEW days \in SUBSET changed, ReprocessChanges(days)
      PROVE  \E s \in Span : /\ StartLateArrivals(s)
                             /\ \A t \in Waiting : t \in Waiting' \/ Concerns(s, t)
  <2> DEFINE s == [first |-> Min(days), last |-> Max(days)]
  <2>1. days \in SUBSET Day /\ days # {}
    BY <1>2 DEF ReprocessChanges, TypeOK
  <2>2. s \in Span
    BY <2>1, SpanOfDays DEF Span, Day
  <2>3. ASSUME NEW t \in Waiting, t \notin Waiting' PROVE Concerns(s, t)
    <3>1. PICK d \in days : t = [first |-> d, last |-> d]
      BY <1>2, <2>3 DEF ReprocessChanges, Waiting
    <3>. QED  BY <2>1, <3>1, BatchConcerns
  <2>. QED  BY <1>2, <2>2, <2>3 DEF ReprocessChanges
<1>3. ASSUME NEW s \in retry, RetryLateArrivals(s)
      PROVE  s \in Span /\ StartLateArrivals(s)
             /\ \A t \in Waiting : t \in Waiting' \/ Concerns(s, t)
  <2>1. s \in Span
    BY DEF TypeOK
  <2>2. ASSUME NEW t \in Waiting, t \notin Waiting' PROVE t = s
    BY <1>3, <2>2 DEF RetryLateArrivals, Waiting
  <2>. QED  BY <1>3, <2>1, <2>2 DEF RetryLateArrivals
<1>. QED  BY <1>1, <1>2, <1>3
-----------------------------------------------------------------------------
(* Rollup buckets *)

(* A bucket that is wrong is due or the running job's.  What a job is      *)
(* about to write is right, unless the ledger has changed since it read,   *)
(* and then the window is due again.                                       *)
BucketInv ==
  /\ \A w \in Window : bucket[w] # Within(w) => WindowDue(w) \/ JobWindow(w)
  /\ LateJobRuns =>
       \A w \in Window :
         /\ ~JobWindow(w) => job.read[w] = {}
         /\ job.step # "mark" /\ JobWindow(w) /\ job.read[w] # Within(w) => WindowDue(w)
         /\ job.step = "upsert" /\ JobWindow(w) => bucket[w] = {}
         /\ job.step = "mark" /\ bucket[w] # Within(w) => WindowDue(w)
  /\ job # None /\ job.kind = "rollup" =>
       \A w \in Window : job.read[w] \notin {{}, Within(w)} => WindowDue(w)

LEMMA BucketsInit == Init => BucketInv
BY ReportingAssumption DEF Init, BucketInv, Within, LateJobRuns, Span, Day

LEMMA BucketsKept ==
  ASSUME BucketInv, UNCHANGED <<bucket, job>>,
         \A w \in Window : WindowDue(w) => WindowDue(w)',
         \A w \in Window : Within(w)' # Within(w) => WindowDue(w)'
  PROVE  BucketInv'
BY DEF BucketInv, LateJobRuns, JobWindow

(* A step that changes neither the ledger nor what is waiting.             *)
LEMMA NothingNewDue ==
  ASSUME UNCHANGED <<ledger, changed, retry>>
  PROVE  /\ \A w \in Window : WindowDue(w)' <=> WindowDue(w)
         /\ \A w \in Window : Within(w)' = Within(w)
         /\ \A r \in Report : ReportDue(r)' <=> ReportDue(r)
         /\ \A r \in Report : Content(r)' = Content(r)
BY DEF WindowDue, ReportDue, Waiting, Within, Content

(* A step that changes the ledger.                                         *)
LEMMA LedgerSteps ==
  ASSUME TypeOK, TypeOK', CommandInv,
         CommitNative \/ \E p \in Posting, d \in 0..LastDay : Import(p, d)
  PROVE  /\ \A w \in Window : WindowDue(w) => WindowDue(w)'
         /\ \A w \in Window : Within(w)' # Within(w) => WindowDue(w)'
         /\ \A r \in Report : ReportDue(r) => ReportDue(r)'
         /\ \A r \in Report : Content(r)' # Content(r) => ReportDue(r)'
<1>1. CASE CommitNative
  <2>1. command \in Command
    BY <1>1 DEF CommitNative, TypeOK
  <2>2. command.posting \in Posting /\ command.day \in 0..LastDay /\ command.day # 0
    BY <2>1 DEF Command, Day
  <2>3. changed' = changed \cup ChangedDays(ledger[command.posting], command.day)
    BY <1>1, <2>2 DEF CommitNative, CommandInv, ChangedDays
  <2>4. /\ ledger' = [ledger EXCEPT ![command.posting] = command.day]
        /\ retry' = retry /\ changed' \subseteq Day
    BY <1>1 DEF CommitNative, TypeOK
  <2>. QED  BY <2>2, <2>3, <2>4, LedgerChange
<1>2. ASSUME NEW p \in Posting, NEW d \in 0..LastDay, Import(p, d)
      PROVE  /\ \A w \in Window : WindowDue(w) => WindowDue(w)'
             /\ \A w \in Window : Within(w)' # Within(w) => WindowDue(w)'
             /\ \A r \in Report : ReportDue(r) => ReportDue(r)'
             /\ \A r \in Report : Content(r)' # Content(r) => ReportDue(r)'
  <2>1. /\ ledger' = [ledger EXCEPT ![p] = d]
        /\ changed' = changed \cup ChangedDays(ledger[p], d)
        /\ retry' = retry /\ changed' \subseteq Day
    BY <1>2 DEF Import, TypeOK
  <2>. QED  BY <2>1, LedgerChange
<1>. QED  BY <1>1, <1>2

(* A job stops: a late arrival job waits to be tried again.                *)
LEMMA StopKeepsDue ==
  ASSUME StopJob
  PROVE  /\ job' = None
         /\ \A w \in Window : WindowDue(w) \/ JobWindow(w) => WindowDue(w)'
         /\ \A r \in Report : ReportDue(r) \/ JobReport(r) => ReportDue(r)'
         /\ UNCHANGED <<ledger, bucket, snapshot>>
BY DEF StopJob, Retried, WindowDue, ReportDue, Waiting, JobWindow, JobReport, LateJobRuns

LEMMA BucketsNext ==
  ASSUME TypeOK, TypeOK', CommandInv, BucketInv, [Next]_vars
  PROVE  BucketInv'
<1>1. CASE \/ \E p \in Posting, d \in Day : PostNative(p, d)
           \/ AbortNative
           \/ UNCHANGED vars
  <2>1. UNCHANGED <<ledger, changed, retry, bucket, job>>
    BY <1>1 DEF PostNative, AbortNative, vars
  <2>. QED  BY <2>1, NothingNewDue, BucketsKept
<1>2. CASE CommitNative \/ \E p \in Posting, d \in 0..LastDay : Import(p, d)
  <2>1. UNCHANGED <<bucket, job>>
    BY <1>2 DEF CommitNative, Import
  <2>. QED  BY <1>2, <2>1, LedgerSteps, BucketsKept
<1>3. CASE \/ \E days \in SUBSET changed : ReprocessChanges(days)
           \/ \E s \in retry : RetryLateArrivals(s)
  <2>1. /\ job = None
        /\ LateJobRuns' /\ job'.step = "delete"
        /\ \A w \in Window :
             job'.read[w] = IF JobWindow(w)' THEN Within(w) ELSE {}
        /\ \A w \in Window : WindowDue(w) => WindowDue(w)' \/ JobWindow(w)'
        /\ UNCHANGED <<ledger, bucket>>
    BY <1>3, LateStart
  <2>2. \A w \in Window : Within(w)' = Within(w) /\ ~JobWindow(w)
    BY <2>1 DEF Within, JobWindow, LateJobRuns
  <2>3. job'.kind # "rollup"
    BY <2>1 DEF LateJobRuns
  <2>. QED  BY <2>1, <2>2, <2>3 DEF BucketInv
<1>4. CASE DeleteBuckets
  <2>1. LateJobRuns /\ job.step = "delete"
    BY <1>4 DEF DeleteBuckets, Running, LateJobRuns
  <2>2. /\ LateJobRuns' /\ job'.step = "upsert" /\ job'.kind = "late"
        /\ job'.read = job.read /\ job'.span = job.span
    <3>1. job \in LateJob
      BY <2>1 DEF TypeOK, LateJobRuns, RollupJob, RefreshJob
    <3>2. job' \in LateJob /\ job'.step = "upsert" /\ job'.read = job.read /\ job'.span = job.span
      BY <1>4, <3>1 DEF DeleteBuckets, StepTo, LateJob
    <3>. QED  BY <3>2, NoneAssumption DEF LateJobRuns, LateJob
  <2>3. \A w \in Window : JobWindow(w)' <=> JobWindow(w)
    BY <2>1, <2>2 DEF JobWindow
  <2>4. \A w \in Window : bucket'[w] = IF JobWindow(w) THEN {} ELSE bucket[w]
    BY <1>4, <2>1 DEF DeleteBuckets, JobWindow
  <2>5. /\ \A w \in Window : WindowDue(w)' <=> WindowDue(w)
        /\ \A w \in Window : Within(w)' = Within(w)
    BY <1>4, NothingNewDue DEF DeleteBuckets
  <2>. QED  BY <2>1, <2>2, <2>3, <2>4, <2>5 DEF BucketInv
<1>5. CASE WriteLateBuckets
  <2>1. LateJobRuns /\ job.step = "upsert"
    BY <1>5 DEF WriteLateBuckets, Running, LateJobRuns
  <2>2. /\ LateJobRuns' /\ job'.step = "mark" /\ job'.kind = "late"
        /\ job'.read = job.read /\ job'.span = job.span
    <3>1. job \in LateJob
      BY <2>1 DEF TypeOK, LateJobRuns, RollupJob, RefreshJob
    <3>2. job' \in LateJob /\ job'.step = "mark" /\ job'.read = job.read /\ job'.span = job.span
      BY <1>5, <3>1 DEF WriteLateBuckets, StepTo, LateJob
    <3>. QED  BY <3>2, NoneAssumption DEF LateJobRuns, LateJob
  <2>3. \A w \in Window : JobWindow(w)' <=> JobWindow(w)
    BY <2>1, <2>2 DEF JobWindow
  <2>4. \A w \in Window : bucket'[w] = IF JobWindow(w) THEN job.read[w] ELSE bucket[w]
    BY <1>5, <2>1 DEF WriteLateBuckets, UpsertBuckets, BucketInv
  <2>5. /\ \A w \in Window : WindowDue(w)' <=> WindowDue(w)
        /\ \A w \in Window : Within(w)' = Within(w)
    BY <1>5, NothingNewDue DEF WriteLateBuckets
  <2>. QED  BY <2>1, <2>2, <2>3, <2>4, <2>5 DEF BucketInv
<1>6. CASE MarkSnapshots
  <2>1. LateJobRuns /\ job.step = "mark" /\ job' = None
    BY <1>6 DEF MarkSnapshots, Running, LateJobRuns
  <2>2. /\ \A w \in Window : WindowDue(w)' <=> WindowDue(w)
        /\ \A w \in Window : Within(w)' = Within(w)
    BY <1>6, NothingNewDue DEF MarkSnapshots
  <2>3. bucket' = bucket
    BY <1>6 DEF MarkSnapshots
  <2>. QED  BY <2>1, <2>2, <2>3 DEF BucketInv, LateJobRuns
<1>7. ASSUME NEW period \in RollupPeriod, ReadRollup(period)
      PROVE  BucketInv'
  <2>1. ~LateJobRuns /\ ~LateJobRuns'
    BY <1>7 DEF ReadRollup, LateJobRuns
  <2>2. \A w \in Window : job'.read[w] = Within(w) \cap Within(period)
    BY <1>7 DEF ReadRollup
  <2>3. \A w \in Window : job'.read[w] \in {{}, Within(w)}
    <3>. SUFFICES ASSUME NEW w \in Window,
                         NEW p \in Within(w), p \in Within(period)
                  PROVE  Within(w) \subseteq Within(period)
      BY <2>2
    <3>1. /\ w.first \in Int /\ w.last \in Int /\ period.first \in Int /\ period.last \in Int
          /\ \A q \in Posting : ledger[q] \in Int
      BY ReportingAssumption DEF Span, Day, TypeOK
    <3>2. w.first <= period.last /\ w.last >= period.first
      BY <3>1 DEF Within
    <3>3. period.first <= w.first /\ w.last <= period.last
      BY <3>2, WholeWindows
    <3>. QED  BY <3>1, <3>3 DEF Within
  <2>4. /\ \A w \in Window : WindowDue(w)' <=> WindowDue(w)
        /\ \A w \in Window : Within(w)' = Within(w)
    BY <1>7, NothingNewDue DEF ReadRollup
  <2>5. bucket' = bucket /\ job = None
    BY <1>7 DEF ReadRollup
  <2>. QED  BY <2>1, <2>3, <2>4, <2>5 DEF BucketInv, JobWindow
<1>8. CASE WriteRollup
  <2>1. ~LateJobRuns /\ job' = None /\ job # None /\ job.kind = "rollup"
    BY <1>8 DEF WriteRollup, Running, LateJobRuns
  <2>2. \A w \in Window : bucket'[w] = IF job.read[w] # {} THEN job.read[w] ELSE bucket[w]
    BY <1>8 DEF WriteRollup, UpsertBuckets
  <2>3. /\ \A w \in Window : WindowDue(w)' <=> WindowDue(w)
        /\ \A w \in Window : Within(w)' = Within(w)
    BY <1>8, NothingNewDue DEF WriteRollup
  <2>. QED  BY <2>1, <2>2, <2>3 DEF BucketInv, JobWindow, LateJobRuns
<1>9. CASE \/ \E r \in Report, force \in BOOLEAN : ReadSnapshot(r, force)
           \/ WriteHeader \/ WriteLines
  <2>1. UNCHANGED <<ledger, changed, retry, bucket>>
    BY <1>9 DEF ReadSnapshot, WriteHeader, WriteLines
  <2>2. ~LateJobRuns /\ ~(job # None /\ job.kind = "rollup")
    BY <1>9 DEF ReadSnapshot, WriteHeader, WriteLines, Running, LateJobRuns
  <2>3. job' # None => job'.kind = "refresh"
    <3>1. CASE \E r \in Report, force \in BOOLEAN : ReadSnapshot(r, force)
      BY <3>1 DEF ReadSnapshot
    <3>2. CASE WriteHeader
      <4>1. job \in RefreshJob
        BY <3>2 DEF WriteHeader, Running, TypeOK, LateJob, RollupJob
      <4>. QED  BY <3>2, <4>1 DEF WriteHeader, StepTo, RefreshJob
    <3>3. CASE WriteLines
      BY <3>3 DEF WriteLines
    <3>. QED  BY <1>9, <3>1, <3>2, <3>3
  <2>4. ~LateJobRuns' /\ ~(job' # None /\ job'.kind = "rollup")
    BY <2>3 DEF LateJobRuns
  <2>. QED  BY <2>1, <2>2, <2>4, NothingNewDue DEF BucketInv, JobWindow
<1>10. CASE StopJob
  <2>1. \A w \in Window : Within(w)' = Within(w)
    BY <1>10 DEF StopJob, Within
  <2>. QED  BY <1>10, <2>1, StopKeepsDue DEF BucketInv, LateJobRuns
<1>. QED
  BY <1>1, <1>2, <1>3, <1>4, <1>5, <1>6, <1>7, <1>8, <1>9, <1>10 DEF Next
-----------------------------------------------------------------------------
(* Snapshots *)

(* A fresh snapshot that is wrong is due or the running job's.  What a     *)
(* refresh has read is right, unless the ledger has changed since, and     *)
(* then its report is due again.                                           *)
SnapshotInv ==
  /\ \A r \in Report :
       snapshot[r].status = "fresh" /\ snapshot[r].whole /\ snapshot[r].of # Content(r)
         => ReportDue(r) \/ JobReport(r)
  /\ job # None /\ job.kind = "refresh" /\ job.read # Content(job.report)
       => ReportDue(job.report)

LEMMA SnapshotsInit == Init => SnapshotInv
BY DEF Init, SnapshotInv

LEMMA SnapshotsKept ==
  ASSUME TypeOK, SnapshotInv, UNCHANGED job,
         \A r \in Report : snapshot'[r].status = "fresh" => snapshot'[r] = snapshot[r],
         \A r \in Report : ReportDue(r) => ReportDue(r)',
         \A r \in Report : Content(r)' # Content(r) => ReportDue(r)'
  PROVE  SnapshotInv'
<1>1. \A r \in Report : JobReport(r)' <=> JobReport(r)
  BY DEF JobReport, LateJobRuns
<1>2. job # None /\ job.kind = "refresh" => job.report \in Report
  BY DEF TypeOK, LateJob, RollupJob, RefreshJob
<1>3. ASSUME NEW r \in Report, snapshot'[r].status = "fresh", snapshot'[r].whole,
             snapshot'[r].of # Content(r)'
      PROVE  ReportDue(r)' \/ JobReport(r)'
  BY <1>1, <1>3 DEF SnapshotInv
<1>. QED  BY <1>2, <1>3 DEF SnapshotInv

LEMMA SnapshotsNext ==
  ASSUME TypeOK, TypeOK', CommandInv, SnapshotInv, [Next]_vars
  PROVE  SnapshotInv'
<1>1. CASE \/ \E p \in Posting, d \in Day : PostNative(p, d)
           \/ AbortNative \/ UNCHANGED vars
  <2>1. UNCHANGED <<ledger, changed, retry, snapshot, job>>
    BY <1>1 DEF PostNative, AbortNative, vars
  <2>. QED  BY <2>1, NothingNewDue, SnapshotsKept
<1>2. CASE CommitNative \/ \E p \in Posting, d \in 0..LastDay : Import(p, d)
  <2>1. UNCHANGED job
    BY <1>2 DEF CommitNative, Import
  <2>2. ASSUME NEW r \in Report, snapshot'[r].status = "fresh"
        PROVE  snapshot'[r] = snapshot[r]
    <3>1. CASE CommitNative
      <4>1. snapshot[r] \in SnapshotRow
        BY DEF TypeOK
      <4>2. r \notin command.marked
        BY <2>2, <3>1, <4>1 DEF CommitNative, MarkStale, SnapshotRow
      <4>. QED  BY <3>1, <4>2 DEF CommitNative, MarkStale
    <3>2. CASE \E p \in Posting, d \in 0..LastDay : Import(p, d)
      BY <3>2 DEF Import
    <3>. QED  BY <1>2, <3>1, <3>2
  <2>. QED  BY <1>2, <2>1, <2>2, LedgerSteps, SnapshotsKept
<1>3. CASE \/ \E days \in SUBSET changed : ReprocessChanges(days)
           \/ \E s \in retry : RetryLateArrivals(s)
  <2>1. /\ job = None /\ LateJobRuns'
        /\ \A r \in Report : ReportDue(r) => ReportDue(r)' \/ JobReport(r)'
        /\ UNCHANGED <<ledger, snapshot>>
    BY <1>3, LateStart
  <2>2. \A r \in Report : Content(r)' = Content(r) /\ ~JobReport(r)
    BY <2>1 DEF Content, Within, JobReport, LateJobRuns
  <2>. QED  BY <2>1, <2>2 DEF SnapshotInv, LateJobRuns
<1>4. CASE DeleteBuckets \/ WriteLateBuckets
  <2>1. LateJobRuns /\ UNCHANGED <<ledger, changed, retry, snapshot>>
    BY <1>4 DEF DeleteBuckets, WriteLateBuckets, Running, LateJobRuns
  <2>2. LateJobRuns' /\ job'.span = job.span
    <3>1. job \in LateJob
      BY <2>1 DEF TypeOK, LateJobRuns, RollupJob, RefreshJob
    <3>2. job' \in LateJob /\ job'.span = job.span
      BY <1>4, <3>1 DEF DeleteBuckets, WriteLateBuckets, StepTo, LateJob
    <3>. QED  BY <3>2, NoneAssumption DEF LateJobRuns, LateJob
  <2>3. \A r \in Report : JobReport(r)' <=> JobReport(r)
    BY <2>1, <2>2 DEF JobReport
  <2>. QED  BY <2>1, <2>2, <2>3, NothingNewDue DEF SnapshotInv, LateJobRuns
<1>5. CASE MarkSnapshots
  <2>1. LateJobRuns /\ job' = None /\ UNCHANGED <<ledger, changed, retry>>
    BY <1>5 DEF MarkSnapshots, Running, LateJobRuns
  <2>2. ASSUME NEW r \in Report, snapshot'[r].status = "fresh"
        PROVE  snapshot'[r] = snapshot[r] /\ ~JobReport(r)
    <3>1. snapshot[r] \in SnapshotRow
      BY DEF TypeOK
    <3>2. r \notin Markable(Start(job.span), job.span.last)
      BY <1>5, <2>2, <3>1 DEF MarkSnapshots, MarkStale, SnapshotRow
    <3>3. snapshot'[r] = snapshot[r]
      BY <1>5, <3>2 DEF MarkSnapshots, MarkStale
    <3>. QED  BY <2>2, <3>2, <3>3 DEF Markable, JobReport
  <2>. QED  BY <2>1, <2>2, NothingNewDue DEF SnapshotInv, LateJobRuns
<1>6. CASE (\E period \in RollupPeriod : ReadRollup(period)) \/ WriteRollup
  <2>1. UNCHANGED <<ledger, changed, retry, snapshot>>
    BY <1>6 DEF ReadRollup, WriteRollup
  <2>2. ~LateJobRuns /\ (job' # None => job'.kind = "rollup")
    BY <1>6 DEF ReadRollup, WriteRollup, Running, LateJobRuns
  <2>3. \A r \in Report : ~JobReport(r)
    BY <2>2 DEF JobReport
  <2>. QED  BY <2>1, <2>2, <2>3, NothingNewDue DEF SnapshotInv
<1>7. ASSUME NEW r \in Report, NEW force \in BOOLEAN, ReadSnapshot(r, force)
      PROVE  SnapshotInv'
  <2>1. /\ job = None /\ job'.report = r /\ job'.read = Content(r)
        /\ UNCHANGED <<ledger, changed, retry, snapshot>>
    BY <1>7 DEF ReadSnapshot
  <2>2. \A q \in Report : ~JobReport(q)
    BY <2>1 DEF JobReport, LateJobRuns
  <2>. QED  BY <2>1, <2>2, NothingNewDue DEF SnapshotInv
<1>8. CASE WriteHeader
  <2>1. job \in RefreshJob
    BY <1>8 DEF WriteHeader, Running, TypeOK, LateJob, RollupJob
  <2>2. /\ job' \in RefreshJob /\ job # None
        /\ job'.report = job.report /\ job'.read = job.read
    BY <1>8, <2>1 DEF WriteHeader, Running, StepTo, RefreshJob
  <2>3. \A r \in Report : ~JobReport(r) /\ ~JobReport(r)'
    BY <2>1, <2>2 DEF JobReport, LateJobRuns, RefreshJob
  <2>4. ASSUME NEW r \in Report, snapshot'[r].whole
        PROVE  snapshot'[r] = snapshot[r]
    <3>1. job.report \in Report /\ snapshot[job.report] \in SnapshotRow
      BY <2>1 DEF RefreshJob, TypeOK
    <3>2. ~snapshot'[job.report].whole
      BY <1>8, <3>1 DEF WriteHeader, TypeOK, SnapshotRow
    <3>. QED  BY <1>8, <2>4, <3>2 DEF WriteHeader, TypeOK
  <2>5. UNCHANGED <<ledger, changed, retry>> /\ job.report \in Report
    BY <1>8, <2>1 DEF WriteHeader, RefreshJob
  <2>6. job.kind = "refresh"
    BY <2>1 DEF RefreshJob
  <2>. QED  BY <2>2, <2>3, <2>4, <2>5, <2>6, NothingNewDue DEF SnapshotInv
<1>9. CASE WriteLines
  <2>1. job \in RefreshJob /\ job # None /\ job.kind = "refresh" /\ job.report \in Report
    BY <1>9 DEF WriteLines, Running, TypeOK, LateJob, RollupJob, RefreshJob
  <2>2. \A r \in Report : ~JobReport(r)
    BY <2>1 DEF JobReport, LateJobRuns
  <2>3. \A r \in Report : IF r = job.report THEN snapshot'[r].of = job.read
                                            ELSE snapshot'[r] = snapshot[r]
    <3>1. snapshot[job.report] \in SnapshotRow
      BY <2>1 DEF TypeOK
    <3>. QED  BY <1>9, <3>1 DEF WriteLines, TypeOK, SnapshotRow
  <2>4. UNCHANGED <<ledger, changed, retry>> /\ job' = None
    BY <1>9 DEF WriteLines
  <2>. QED  BY <2>1, <2>2, <2>3, <2>4, NothingNewDue DEF SnapshotInv
<1>10. CASE StopJob
  <2>1. \A r \in Report : Content(r)' = Content(r)
    BY <1>10 DEF StopJob, Content, Within
  <2>. QED  BY <1>10, <2>1, StopKeepsDue DEF SnapshotInv
<1>. QED
  BY <1>1, <1>2, <1>3, <1>4, <1>5, <1>6, <1>7, <1>8, <1>9, <1>10 DEF Next
-----------------------------------------------------------------------------
ReportingInv == TypeOK /\ CommandInv /\ BucketInv /\ SnapshotInv

LEMMA ReportingInvariant == Spec => []ReportingInv
<1>1. Init => ReportingInv
  BY TypeInit, BucketsInit, SnapshotsInit DEF ReportingInv
<1>2. ReportingInv /\ [Next]_vars => ReportingInv'
  BY TypeNext, BucketsNext, SnapshotsNext DEF ReportingInv
<1>. QED  BY <1>1, <1>2, PTL DEF Spec

(* The tables, the running job and what is kept of stopped jobs are well   *)
(* formed: a retry is given the days it was given before (Rollups).        *)
THEOREM RollupsTypeCorrect == Spec => []TypeOK
<1>1. ReportingInv => TypeOK
  BY DEF ReportingInv
<1>. QED  BY <1>1, ReportingInvariant, PTL

(* However jobs are stopped, tried again and overtaken: a bucket that is   *)
(* not the sum of its window is still to be replaced                       *)
(* (executeLateArrivalReprocess, runScheduledRollup).                      *)
THEOREM RollupsAlwaysCatchUp == Spec => []RollupsCatchUp
<1>1. ReportingInv => RollupsCatchUp
  BY DEF ReportingInv, BucketInv, RollupsCatchUp, WindowDue, JobWindow, LateJobRuns, Pending
<1>. QED  BY <1>1, ReportingInvariant, PTL

(* A finished snapshot served as fresh agrees with the ledger, or a late   *)
(* arrival job is still to mark it (executeSnapshotRefresh,                *)
(* markReportSnapshotsStaleForPostingChanges).                             *)
THEOREM SnapshotsAlwaysCatchUp == Spec => []SnapshotsCatchUp
<1>1. ReportingInv => SnapshotsCatchUp
  BY DEF ReportingInv, SnapshotInv, SnapshotsCatchUp, ReportDue, JobReport, LateJobRuns, Pending
<1>. QED  BY <1>1, ReportingInvariant, PTL
=============================================================================
