---------------------------- MODULE SourceLocks ----------------------------
(***************************************************************************)
(* The two families of advisory locks every accounting command of the SDK  *)
(* takes, over several sources, and the order each command takes them in:  *)
(*                                                                         *)
(*   source lock  "payment-correction:<tenant>:<source>"                   *)
(*   fiscal lock  "fiscal-period:<tenant>:<company>:<source>"              *)
(*                                                                         *)
(* Both are held to the end of the transaction and a lock that is taken    *)
(* again by its holder is granted at once, so a command is the set of      *)
(* locks it needs.  What the commands do between the locks is the matter   *)
(* of FiscalLocking; here only the waiting counts.  PostgreSQL queues the  *)
(* requests for a lock: a new one waits for the holders it conflicts with  *)
(* and behind earlier requests it conflicts with.  Only waits for holders  *)
(* are a deadlock; a cycle through its queues it dissolves by reordering.  *)
(***************************************************************************)
EXTENDS Integers

CONSTANTS
  Client,   \* application processes, one open transaction each
  Sources,  \* number of sources; their numbers are their sorted order
  Offered,  \* the kinds of command these clients issue
  SameCollation,  \* whether the database sorts source ids as JavaScript does
  None

ASSUME SourcesAssumption == Sources \in Nat
ASSUME CollationAssumption == SameCollation \in BOOLEAN

VARIABLES
  cmd,  \* the command of each client's transaction; None while idle
  held, \* the lock requests granted to it
  asked, \* clients that have asked for their next lock
  ahead \* conflicting requests before each in the queue, by client

vars == <<cmd, held, asked, ahead>>

Source == 1..Sources

Shared(what, S) == [what : {what}, source : S, exclusive : {FALSE}]
Exclusive(what, S) == [what : {what}, source : S, exclusive : {TRUE}]

Request == [what : {"source", "fiscal"}, source : Source, exclusive : BOOLEAN]

(***************************************************************************)
(* The kinds of command.  Those that name several sources are applications *)
(* across sources, collection and reference guards, and the attested       *)
(* settlement correction with its native source.                           *)
(*                                                                         *)
(*   posting      journals, invoices, receipts, applications within one    *)
(*                source and all other commands that start with the source *)
(*                lock and check a posting date                            *)
(*   application  applying, ending and refunding across sources            *)
(*   close        canonical close, correction of a customer payment        *)
(*   period       define, begin close, close, reopen, lock date            *)
(*   guard        collection guard, reference guard, state verification    *)
(*   document     recording a deposit, transfer, vendor bill, credit memo  *)
(*                or write-off: the date is checked first, the source lock *)
(*                comes with the trigger on the first insert               *)
(*   reversal     reversing a recorded deposit or transfer                 *)
(*   attested     the attested settlement correction                       *)
(***************************************************************************)
SourceFirst == {"posting", "application", "close", "period", "guard"}
FiscalFirst == {"document", "reversal", "attested"}
ManySources == {"application", "guard", "attested"}

Command ==
  {r \in [kind : SourceFirst \cup FiscalFirst, sources : SUBSET Source, home : Source] :
     /\ r.home \in r.sources
     /\ r.kind \notin ManySources => r.sources = {r.home}
     /\ r.kind = "application" => r.sources # {r.home}
     /\ r.kind = "guard" => \A s \in r.sources : r.home <= s}

ASSUME NoneAssumption == None \notin Command

Needs(r) ==
  CASE r.kind \in {"posting", "application"} ->
         Exclusive("source", r.sources) \cup Shared("fiscal", {r.home})
    [] r.kind = "close" ->
         Exclusive("source", {r.home}) \cup Exclusive("fiscal", {r.home})
    [] r.kind = "period" -> Exclusive("fiscal", {r.home})
    [] r.kind = "guard" -> Shared("source", r.sources)
    [] r.kind = "document" ->
         Shared("fiscal", {r.home}) \cup Exclusive("source", {r.home})
    [] r.kind = "reversal" ->
         Exclusive("fiscal", {r.home}) \cup Exclusive("source", {r.home})
    [] r.kind = "attested" ->
         Exclusive("fiscal", r.sources) \cup Exclusive("source", r.sources)

(* Mutants of Rank: a close takes the fiscal lock first; a command takes   *)
(* the locks of its own source before those of other sources.              *)
RankOfClose(r, q) ==
  IF r.kind = "close" /\ q.what = "fiscal" THEN 0
  ELSE IF q.what = "source" THEN q.source ELSE Sources + q.source

RankHomeFirst(r, q) ==
  IF q.what = "fiscal" THEN Sources + q.source
  ELSE IF q.source = r.home THEN 0 ELSE q.source

(***************************************************************************)
(* A command takes its locks in ascending rank: source locks sorted by     *)
(* source, then the fiscal lock; or, source by source, fiscal lock first.  *)
(* Applications and the like sort source ids in JavaScript, the guards in  *)
(* SQL by the collation of the database; where these differ, two sources   *)
(* may come in the opposite order.                                         *)
(***************************************************************************)
Rank(r, q) ==
  IF r.kind \in FiscalFirst
  THEN IF q.what = "fiscal" THEN 2 * q.source - 1 ELSE 2 * q.source
  ELSE IF q.what = "fiscal" THEN Sources + q.source
  ELSE IF r.kind = "guard" /\ ~SameCollation THEN Sources + 1 - q.source
  ELSE q.source

Missing(c) == IF cmd[c] = None THEN {} ELSE Needs(cmd[c]) \ held[c]

NextRequest(c) ==
  LET missing == Missing(c) IN
  {q \in missing : \A p \in missing : Rank(cmd[c], q) <= Rank(cmd[c], p)}

Conflict(p, q) ==
  p.what = q.what /\ p.source = q.source /\ (p.exclusive \/ q.exclusive)

WaitsFor(c, d) ==
  c # d /\ \E q \in NextRequest(c), p \in held[d] : Conflict(p, q)

TypeOK ==
  /\ cmd \in [Client -> Command \cup {None}]
  /\ held \in [Client -> SUBSET Request]
  /\ asked \subseteq Client
  /\ ahead \in [Client -> SUBSET asked]
  /\ \A c \in Client : held[c] \subseteq IF cmd[c] = None THEN {} ELSE Needs(cmd[c])
-----------------------------------------------------------------------------
Init ==
  /\ cmd = [c \in Client |-> None]
  /\ held = [c \in Client |-> {}]
  /\ asked = {}
  /\ ahead = [c \in Client |-> {}]

Begin(c, r) ==
  /\ cmd[c] = None
  /\ r.kind \in Offered
  /\ cmd' = [cmd EXCEPT ![c] = r]
  /\ UNCHANGED <<held, asked, ahead>>

Ask(c) ==
  /\ c \notin asked /\ NextRequest(c) # {}
  /\ asked' = asked \cup {c}
  /\ ahead' = [ahead EXCEPT ![c] =
       {d \in asked : \E p \in NextRequest(c), q \in NextRequest(d) : Conflict(p, q)}]
  /\ UNCHANGED <<cmd, held>>

(* The client's request, granted or not, leaves the queue.                 *)
LeaveQueue(c) ==
  /\ asked' = asked \ {c}
  /\ ahead' = [d \in Client |-> ahead[d] \ {c}]

Acquire(c) ==
  /\ c \in asked /\ ahead[c] = {}
  /\ \E q \in NextRequest(c) :
       /\ \A d \in Client \ {c} : \A p \in held[d] : ~Conflict(q, p)
       /\ held' = [held EXCEPT ![c] = @ \cup {q}]
  /\ LeaveQueue(c)
  /\ UNCHANGED cmd

(* Mutant of Release: shared locks outlive the transaction.                *)
ReleaseExclusive(c) ==
  /\ cmd' = [cmd EXCEPT ![c] = None]
  /\ held' = [held EXCEPT ![c] = {q \in @ : ~q.exclusive}]
  /\ LeaveQueue(c)

Release(c) ==
  /\ cmd' = [cmd EXCEPT ![c] = None]
  /\ held' = [held EXCEPT ![c] = {}]
  /\ LeaveQueue(c)

Commit(c) == cmd[c] # None /\ Missing(c) = {} /\ Release(c)

(* An error, a lost connection, or the victim of a detected deadlock; the  *)
(* transaction runner rolls back and does not try again.                   *)
Abort(c) == cmd[c] # None /\ Release(c)

Next ==
  \/ \E c \in Client, r \in Command : Begin(c, r)
  \/ \E c \in Client : Ask(c)
  \/ \E c \in Client : Acquire(c)
  \/ \E c \in Client : Commit(c)
  \/ \E c \in Client : Abort(c)

Spec == Init /\ [][Next]_vars

Fairness ==
  \A c \in Client : WF_vars(Ask(c)) /\ WF_vars(Acquire(c)) /\ WF_vars(Commit(c))

FairSpec == Spec /\ Fairness
-----------------------------------------------------------------------------
(***************************************************************************)
(* No set of clients in which each one waits for another of the set: no    *)
(* cross-source application, guard, close or period change closes a cycle  *)
(* of waits with any others, so PostgreSQL has no victim to roll back.     *)
(***************************************************************************)
NoWaitCycle ==
  \A D \in (SUBSET Client) \ {{}} : \E c \in D : \A d \in D : ~WaitsFor(c, d)

(* Every command that is begun ends, by itself: without a deadlock victim  *)
(* and without a client that is passed over for ever.                      *)
EveryCommandEnds == \A c \in Client : cmd[c] # None ~> cmd[c] = None

(***************************************************************************)
(* "Native writers and managed imports use the same source key             *)
(* exclusively, before any document/fiscal locks": no command asks for a   *)
(* source lock while it holds a fiscal lock.                               *)
(***************************************************************************)
SourceBeforeFiscal ==
  \A c \in Client :
    (\E q \in NextRequest(c) : q.what = "source")
      => \A p \in held[c] : p.what # "fiscal"
=============================================================================
