------------------------------- MODULE Banking -------------------------------
(***************************************************************************)
(* The reconciled statements of one bank account, and the journal commands *)
(* they must hold out against.  Every command takes the source lock first  *)
(* and is one transaction, so each is one step; refusals and replays of a  *)
(* recorded command change nothing.                                        *)
(***************************************************************************)
EXTENDS JournalLifecycle, Functions

CONSTANTS
  Statement,   \* statements, by external statement id
  Actor,       \* people who prepare, complete and reopen them
  Closing,     \* closing balances a statement may carry
  MaxCommands, \* bound: statement commands
  NoStatement, NoActor

ASSUME StatementAssumption ==
  /\ NoStatement \notin Statement
  /\ NoActor \notin Actor
  /\ Closing \subseteq Int
  /\ MaxCommands \in Nat

VARIABLES
  statement,  \* bank_statements
  clearing,   \* bank_statement_clearings: the statement a posting is in
  commands,   \* number of statement commands recorded
  review      \* what the last reader of a statement saw of it

statementVars == <<statement, clearing, commands, review>>
vars == <<journalVars, statementVars>>

StatementRow ==
  [status : {"none", "draft", "completed", "cancelled"}, version : Nat,
   date : 0..LastDay, closing : Int, opening : Int,
   prior : Statement \cup {NoStatement},
   preparedBy : Actor \cup {NoActor}, completedBy : Actor \cup {NoActor}]

TypeOK ==
  /\ JournalTypeOK
  /\ statement \in [Statement -> StatementRow]
  /\ \A s \in Statement :
       /\ statement[s].status = "completed" <=> statement[s].completedBy # NoActor
       /\ statement[s].status = "completed" => statement[s].completedBy # statement[s].preparedBy
  /\ clearing \in [Journal -> Statement \cup {NoStatement}]
  /\ commands \in 0..MaxCommands
-----------------------------------------------------------------------------
NoStatementRow ==
  [status |-> "none", version |-> 0, date |-> 0, closing |-> 0, opening |-> 0,
   prior |-> NoStatement, preparedBy |-> NoActor, completedBy |-> NoActor]
NoReview == [statement |-> NoStatement, version |-> 0, closing |-> 0, selected |-> {}]

Init ==
  /\ JournalInit
  /\ statement = [s \in Statement |-> NoStatementRow]
  /\ clearing = [j \in Journal |-> NoStatement]
  /\ commands = 0
  /\ review = NoReview

Cleared(j) == clearing[j] # NoStatement
Selected(s) == {j \in Journal : clearing[j] = s}
Balance(S) == SumFunctionOnSet([j \in S |-> journal[j].amount], S)

WithStatus(status) == {s \in Statement : statement[s].status = status}
IsLast(s, S) == s \in S /\ \A t \in S : statement[t].date <= statement[s].date

(* Mutant of StatementDateAllowed: statements pass as adjustments do.      *)
StatementDateAdjusting(d) == DateAllowed(d, TRUE)

(* Statement dates need an open period even where adjustments do not.      *)
StatementDateAllowed(d) == fiscal[d] = "open"

Record ==
  /\ commands < MaxCommands
  /\ commands' = commands + 1
-----------------------------------------------------------------------------
(* Statements *)

(* Mutant of Clearable: a reversed journal may be cleared.                 *)
ClearableIfPosted(j, d) ==
  Posted(j) /\ journal[j].date <= d /\ journal[j].amount # 0 /\ ~Cleared(j)

Clearable(j, d) ==
  /\ Posted(j)
  /\ journal[j].date <= d
  /\ journal[j].amount # 0
  /\ ~Cleared(j)
  /\ ~Reversed(j)

(* Apply the selection changes of a preparation that makes the statement   *)
(* row r: everything selected must lie within its date.                    *)
Select(s, r, add, remove) ==
  /\ remove \subseteq Selected(s)
  /\ \A j \in add : Clearable(j, r.date)
  /\ add \cap remove = {}
  /\ \A j \in Selected(s) \ remove : journal[j].date <= r.date
  /\ clearing' = [j \in Journal |->
                    IF j \in add THEN s
                    ELSE IF j \in remove THEN NoStatement ELSE clearing[j]]
  /\ statement' = [statement EXCEPT ![s] = r]

Fresh(s, d, closing, a, prior) ==
  [status |-> "draft", version |-> 1, date |-> d, closing |-> closing,
   opening |-> IF prior = NoStatement THEN 0 ELSE statement[prior].closing,
   prior |-> prior, preparedBy |-> a, completedBy |-> NoActor]

Latest(prior) ==
  \/ IsLast(prior, WithStatus("completed"))
  \/ prior = NoStatement /\ WithStatus("completed") = {}

Follows(d, prior) == prior # NoStatement => statement[prior].date < d

PrepareNew(s, d, closing, a, add) ==
  /\ Record
  /\ StatementDateAllowed(d)
  /\ statement[s].status = "none"
  /\ WithStatus("draft") = {}
  /\ \E prior \in Statement \cup {NoStatement} :
       /\ Latest(prior)
       /\ Follows(d, prior)
       /\ Select(s, Fresh(s, d, closing, a, prior), add, {})
  /\ UNCHANGED <<journalVars, review>>

PrepareDraft(s, d, closing, a, add, remove) ==
  /\ Record
  /\ StatementDateAllowed(d)
  /\ statement[s].status = "draft"
  /\ Follows(d, statement[s].prior)
  /\ Select(s, [statement[s] EXCEPT !.date = d, !.closing = closing,
                                    !.preparedBy = a, !.version = @ + 1],
            add, remove)
  /\ UNCHANGED <<journalVars, review>>

(* A person reads a statement before completing it.                        *)
Review(s) ==
  /\ statement[s].status = "draft"
  /\ review' = [statement |-> s, version |-> statement[s].version,
                closing |-> statement[s].closing, selected |-> Selected(s)]
  /\ review' # review
  /\ UNCHANGED <<journalVars, statement, clearing, commands>>

(* Mutant of Balanced: the opening balance is left out.                    *)
SelectionBalanced(s) == Balance(Selected(s)) = statement[s].closing

Balanced(s) ==
  statement[s].opening + Balance(Selected(s)) = statement[s].closing

(* Mutant of Reviewed: the version the actor reviewed is not compared.     *)
ReviewedOnce(s) == review.statement = s

Reviewed(s) == review.statement = s /\ review.version = statement[s].version

Complete(s, a) ==
  /\ Record
  /\ statement[s].status = "draft"
  /\ StatementDateAllowed(statement[s].date)
  /\ Reviewed(s)
  /\ a # statement[s].preparedBy
  /\ Balanced(s)
  /\ statement' = [statement EXCEPT ![s].status = "completed", ![s].version = @ + 1,
                                    ![s].completedBy = a]
  /\ UNCHANGED <<journalVars, clearing, review>>

(* Mutant of Dependents: only later drafts hold a statement.               *)
DraftDependents(s) == {t \in WithStatus("draft") : statement[t].prior = s}

Dependents(s) ==
  {t \in WithStatus("draft") \cup WithStatus("completed") : statement[t].prior = s}

(* Mutant of Reopened: the completing actor stays on the draft.            *)
ReopenedOnly(row) == [row EXCEPT !.status = "draft", !.version = @ + 1]

Reopened(row) ==
  [row EXCEPT !.status = "draft", !.version = @ + 1, !.completedBy = NoActor]

Reopen(s, a) ==
  /\ Record
  /\ statement[s].status = "completed"
  /\ StatementDateAllowed(statement[s].date)
  /\ a # statement[s].completedBy
  /\ Dependents(s) = {}
  /\ WithStatus("draft") = {}
  /\ statement' = [statement EXCEPT ![s] = Reopened(@)]
  /\ UNCHANGED <<journalVars, clearing, review>>

Cancel(s) ==
  /\ Record
  /\ statement[s].status = "draft"
  /\ StatementDateAllowed(statement[s].date)
  /\ clearing' = [j \in Journal |-> IF clearing[j] = s THEN NoStatement ELSE clearing[j]]
  /\ statement' = [statement EXCEPT ![s].status = "cancelled", ![s].version = @ + 1]
  /\ UNCHANGED <<journalVars, review>>
-----------------------------------------------------------------------------
(* Mutant of MayReverse: the trigger on journal_entry_links is missing.    *)
AlwaysReverse(o) == Posted(o)

(* The trigger on journal_entry_links: cleared accounting stands.          *)
MayReverse(o) == ~Cleared(o)

JournalStep ==
  /\ \/ \E j \in Journal, entry \in Entry : PostJournal(j, entry)
     \/ \E o, r \in Journal, kind \in ReversalKind, d \in Day :
          MayReverse(o) /\ Reverse(o, r, kind, d)
     \/ \E o, r, n \in Journal, d \in Day, entry \in Entry :
          MayReverse(o) /\ Correct(o, r, n, d, entry)
     \/ \E controls \in Calendar : ChangeFiscal(controls)
  /\ UNCHANGED statementVars

StatementStep ==
  \/ \E s \in Statement, d \in Day, closing \in Closing, a \in Actor,
        add, remove \in SUBSET Journal :
       \/ remove = {} /\ PrepareNew(s, d, closing, a, add)
       \/ PrepareDraft(s, d, closing, a, add, remove)
  \/ \E s \in Statement, a \in Actor : Complete(s, a) \/ Reopen(s, a)
  \/ \E s \in Statement : Cancel(s)
  \/ \E s \in Statement : Review(s)

Next == JournalStep \/ StatementStep

Spec == Init /\ [][Next]_vars
-----------------------------------------------------------------------------
(* Accounting that is cleared in a statement stands: whatever order the    *)
(* preparation of statements and the reversal, voiding and correction of   *)
(* journals take, a cleared journal is posted and not reversed             *)
(* (clearing trigger, guard_statement_cleared_fact).                       *)
ClearedFactsStand == \A j \in Journal : Cleared(j) => Posted(j) /\ ~Reversed(j)

(* The live statements of the account form one chain: at most one draft,   *)
(* each statement starts where one completed, earlier statement ended, and *)
(* no two start at the same (prepare, reopen and the evidence trigger).    *)
Live == WithStatus("draft") \cup WithStatus("completed")
StatementsChain ==
  /\ \A s, t \in WithStatus("draft") : s = t
  /\ \A s \in Live :
       IF statement[s].prior = NoStatement
       THEN statement[s].opening = 0
       ELSE LET p == statement[statement[s].prior] IN
            p.status = "completed" /\ p.date < statement[s].date /\ p.closing = statement[s].opening
  /\ \A s, t \in Live : statement[s].prior = statement[t].prior => s = t

(* The closing balance of a completed statement is the sum of everything   *)
(* cleared up to it, across reopenings, cancellations and corrections of   *)
(* the statements before it.                                               *)
ClearedThrough(s) ==
  {j \in Journal : \E t \in WithStatus("completed") :
     clearing[j] = t /\ statement[t].date <= statement[s].date}
ClosingIsCleared ==
  \A s \in WithStatus("completed") : statement[s].closing = Balance(ClearedThrough(s))

(* A statement is completed with exactly the postings, and the balance,    *)
(* that its completing actor had reviewed, however stale the review was    *)
(* when the command was sent.                                              *)
CompletedAsReviewed ==
  [][\A s \in WithStatus("draft") :
       statement'[s].status = "completed" =>
         review = [statement |-> s, closing |-> statement[s].closing,
                   version |-> statement[s].version, selected |-> Selected(s)]]_vars

(* A completed statement whose date is no longer in an open period stays   *)
(* as it is: it is not reopened, and nothing enters or leaves it.          *)
ClosedStatementsStay ==
  [][\A s \in WithStatus("completed") :
       fiscal[statement[s].date] # "open" =>
         statement'[s] = statement[s] /\ Selected(s)' = Selected(s)]_vars

(* A journal is answered at most once: it has one reversal of the opposite *)
(* amount, its own, and is replaced only when it is reversed.              *)
AnsweredOnce ==
  \A o \in Journal :
    /\ Cardinality(Reversals(o)) <= 1 /\ Cardinality(Successors(o)) <= 1
    /\ Successors(o) # {} => Reversed(o)
    /\ \A l \in Reversals(o) :
         /\ journal[l.to].amount = -journal[o].amount
         /\ \A k \in link : k.to = l.to /\ k.kind \in ReversalKind => k = l
=============================================================================
