----------------------------- MODULE BankLines -----------------------------
(***************************************************************************)
(* Bank statement lines and the transactions they are matched to.  A match *)
(* is a row under the idempotency key of its command; a key serves once.   *)
(* Every command takes the source lock and names the version of the line   *)
(* it read; one that is late is refused, which is no step.                 *)
(***************************************************************************)
EXTENDS Naturals

CONSTANTS
  Line,         \* external ids of bank statement lines
  MatchKey,     \* idempotency keys of match commands
  Transaction,  \* transactions that post on the bank account
  LineAmount    \* amounts of lines

VARIABLES
  line,   \* bank_statement_lines
  match   \* bank_reconciliation_matches

bankVars == <<line, match>>

LineRow ==
  [status : {"none", "unmatched", "matched", "ignored"}, amount : LineAmount \cup {0}]
MatchRow ==
  [status : {"matched", "unmatched"}, line : Line, transaction : Transaction]
NoMatch == [status |-> "none"]

BankTypeOK ==
  /\ line \in [Line -> LineRow]
  /\ match \in [MatchKey -> MatchRow \cup {NoMatch}]

BankInit ==
  /\ line = [l \in Line |-> [status |-> "none", amount |-> 0]]
  /\ match = [m \in MatchKey |-> NoMatch]

ActiveMatches == {m \in MatchKey : match[m].status = "matched"}
-----------------------------------------------------------------------------
Ingest(l, amount) ==
  /\ line[l].status = "none"
  /\ line' = [line EXCEPT ![l] = [status |-> "unmatched", amount |-> amount]]
  /\ UNCHANGED match

(* Mutant of Unclaimed: a transaction may answer for any number of lines. *)
UnclaimedLine(l, t) == \A m \in ActiveMatches : match[m].line # l

(* The unique indexes on active matches. *)
Unclaimed(l, t) ==
  \A m \in ActiveMatches : match[m].line # l /\ match[m].transaction # t

(* match, to a posted transaction of this amount.  Nothing is asked of the *)
(* document the transaction belongs to, nor whether it has been reversed.  *)
MatchLine(m, l, t, amount) ==
  /\ match[m] = NoMatch
  /\ line[l].status = "unmatched"
  /\ line[l].amount = amount
  /\ Unclaimed(l, t)
  /\ line' = [line EXCEPT ![l].status = "matched"]
  /\ match' = [match EXCEPT ![m] = [status |-> "matched", line |-> l, transaction |-> t]]

Unmatch(m) ==
  /\ match[m].status = "matched"
  /\ match' = [match EXCEPT ![m].status = "unmatched"]
  /\ line' = [line EXCEPT ![match[m].line].status = "unmatched"]

Ignore(l) ==
  /\ line[l].status = "unmatched"
  /\ line' = [line EXCEPT ![l].status = "ignored"]
  /\ UNCHANGED match

Unignore(l) ==
  /\ line[l].status = "ignored"
  /\ line' = [line EXCEPT ![l].status = "unmatched"]
  /\ UNCHANGED match

LineCommand ==
  \/ \E l \in Line : (\E amount \in LineAmount : Ingest(l, amount)) \/ Ignore(l) \/ Unignore(l)
  \/ \E m \in MatchKey : Unmatch(m)
-----------------------------------------------------------------------------
Matched(t) == \E m \in ActiveMatches : match[m].transaction = t
=============================================================================
