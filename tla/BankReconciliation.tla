--------------------------- MODULE BankReconciliation ---------------------------
(***************************************************************************)
(* Bank statements and the sessions that match their lines to documents.   *)
(*                                                                         *)
(* A call on a session is two steps, as in Ledger: it reads and checks,    *)
(* then commits its writes to whatever the tables hold by then, or aborts. *)
(* The document a match names is not looked up, and the account of a       *)
(* session is not compared with that of a line, so a document is a name.   *)
(* Names that Treasury has too carry the prefix Bank: TreasuryProofs       *)
(* extends both modules.                                                   *)
(***************************************************************************)
EXTENDS Integers, Functions

CONSTANTS Clients,         \* threads or processes with a unit of work each
          BankAccounts,    \* financial accounts
          Lines, Sessions, \* primary keys
          Documents,       \* pairs of match_entity_type and match_entity_id
          TypedAmounts,    \* amounts a user types
          CsvAmounts,      \* debit plus credit of the rows of a file, signs unchecked
          None

ASSUME ReconciliationConstants ==
  /\ TypedAmounts \subseteq Nat \ {0} /\ TypedAmounts # {}
  /\ CsvAmounts \subseteq Int
  /\ None \notin BankAccounts

VARIABLES line,     \* bank_statement_lines: account, amount, is_reconciled
          session,  \* bank_reconciliation_sessions: account and status
          matches,  \* bank_reconciliation_matches
          work,     \* the unit of work open in each client
          raced,    \* lines whose matches changed under a call, between its two steps
          late      \* sessions completed while another call on them was open

tables == <<line, session, matches>>
bankVars == <<line, session, matches, work, raced, late>>

Match == [session : Sessions, line : Lines, document : Documents, amount : TypedAmounts]
Idle == [op |-> "idle"]
Work ==
  {Idle}
  \cup [op : {"add", "remove"}, match : Match, flag : BOOLEAN, seen : SUBSET Match]
  \cup [op : {"complete"}, session : Sessions]

IsLine(l) == line[l].account # None
MatchesOf(l) == {m \in matches : m.line = l}
Matched(l) == SumFunction([m \in MatchesOf(l) |-> m.amount])
Draft(s) == session[s].status = "draft"

Begin(c, w) == /\ work[c] = Idle
               /\ work' = [work EXCEPT ![c] = w]
               /\ UNCHANGED <<line, session, matches, raced, late>>

-------------------------------------------------------------------------------
(* Statements.                                                             *)

NewLine(a, amount) == [account |-> a, amount |-> amount, reconciled |-> FALSE]

CreateManualStatementLine(l, a, amount) ==
  /\ ~IsLine(l)
  /\ line' = [line EXCEPT ![l] = NewLine(a, amount)]
  /\ UNCHANGED <<session, matches, work, raced, late>>

\* The rows of a file, all at once; a file imported before is imported again.
ImportStatement(new, a, amount) ==
  /\ new # {} /\ \A l \in new : ~IsLine(l)
  /\ line' = [l \in Lines |-> IF l \in new THEN NewLine(a, amount[l]) ELSE line[l]]
  /\ UNCHANGED <<session, matches, work, raced, late>>

-------------------------------------------------------------------------------
(* Sessions.                                                               *)

CreateSession(s, a) ==
  /\ session[s].status = "none"
  /\ session' = [session EXCEPT ![s] = [account |-> a, status |-> "draft"]]
  /\ UNCHANGED <<line, matches, work, raced, late>>

\* Mutant: what other sessions matched of the line is not counted.
RemainingInSession(l, s) ==
  line[l].amount - SumFunction([m \in {x \in MatchesOf(l) : x.session = s} |-> m.amount])

Remaining(l, s) == line[l].amount - Matched(l)

\* Mutant: matches are added to any session.
AddMatchAnywhere(c, m) ==
  /\ session[m.session].status # "none" /\ IsLine(m.line)
  /\ m.amount <= Remaining(m.line, m.session)
  /\ Begin(c, [op |-> "add", match |-> m, seen |-> MatchesOf(m.line),
               flag |-> m.amount >= Remaining(m.line, m.session) /\ ~line[m.line].reconciled])

\* flag: the line is reconciled now and was not when it was loaded, so the flush writes it.
AddMatch(c, m) ==
  /\ Draft(m.session) /\ IsLine(m.line)
  /\ m.amount <= Remaining(m.line, m.session)
  /\ Begin(c, [op |-> "add", match |-> m, seen |-> MatchesOf(m.line),
               flag |-> m.amount >= Remaining(m.line, m.session) /\ ~line[m.line].reconciled])

\* Mutant: a line stays reconciled when a match of it goes.
RemoveMatchKeepsFlag(c, m) ==
  /\ Draft(m.session) /\ m \in matches
  /\ Begin(c, [op |-> "remove", match |-> m, seen |-> MatchesOf(m.line), flag |-> FALSE])

RemoveMatch(c, m) ==
  /\ Draft(m.session) /\ m \in matches
  /\ Begin(c, [op |-> "remove", match |-> m, seen |-> MatchesOf(m.line),
               flag |-> line[m.line].reconciled])

\* Neither the difference nor the lines left unmatched are looked at.
CompleteSession(c, s) ==
  /\ Draft(s)
  /\ Begin(c, [op |-> "complete", session |-> s])

-------------------------------------------------------------------------------
(* Commits.                                                                *)

\* The unique constraint of the table.
SlotFree(m) ==
  \A x \in matches : <<x.session, x.line, x.document>> # <<m.session, m.line, m.document>>

Written(c) == LET w == work[c] IN
  /\ line' = IF w.flag THEN [line EXCEPT ![w.match.line].reconciled = (w.op = "add")] ELSE line
  /\ raced' = IF MatchesOf(w.match.line) = w.seen THEN raced ELSE raced \cup {w.match.line}
  /\ work' = [work EXCEPT ![c] = Idle]
  /\ UNCHANGED <<session, late>>

CommitAdd(c) ==
  /\ work[c].op = "add"
  /\ SlotFree(work[c].match)
  /\ matches' = matches \cup {work[c].match}
  /\ Written(c)

\* Deleting a row that is gone already is a warning.
CommitRemove(c) ==
  /\ work[c].op = "remove"
  /\ matches' = matches \ {work[c].match}
  /\ Written(c)

OpenOn(s) == {c \in Clients : work[c].op \in {"add", "remove"} /\ work[c].match.session = s}

CommitComplete(c) ==
  /\ work[c].op = "complete"
  /\ session' = [session EXCEPT ![work[c].session].status = "completed"]
  /\ late' = IF OpenOn(work[c].session) = {} THEN late ELSE late \cup {work[c].session}
  /\ work' = [work EXCEPT ![c] = Idle]
  /\ UNCHANGED <<line, matches, raced>>

Abort(c) ==
  /\ work[c] # Idle
  /\ work' = [work EXCEPT ![c] = Idle]
  /\ UNCHANGED <<line, session, matches, raced, late>>

-------------------------------------------------------------------------------
BankInit ==
  /\ line = [l \in Lines |-> [account |-> None, amount |-> 0, reconciled |-> FALSE]]
  /\ session = [s \in Sessions |-> [account |-> None, status |-> "none"]]
  /\ matches = {}
  /\ work = [c \in Clients |-> Idle]
  /\ raced = {}
  /\ late = {}

BankNext ==
  \/ \E a \in BankAccounts :
       \/ \E l \in Lines, amount \in TypedAmounts : CreateManualStatementLine(l, a, amount)
       \/ \E new \in SUBSET Lines : \E amount \in [new -> CsvAmounts] :
            ImportStatement(new, a, amount)
       \/ \E s \in Sessions : CreateSession(s, a)
  \/ \E c \in Clients :
       \/ \E m \in Match : AddMatch(c, m) \/ RemoveMatch(c, m)
       \/ \E s \in Sessions : CompleteSession(c, s)
       \/ CommitAdd(c) \/ CommitRemove(c) \/ CommitComplete(c) \/ Abort(c)

BankSpec == BankInit /\ [][BankNext]_bankVars

-------------------------------------------------------------------------------
BankTypeOK ==
  /\ line \in [Lines -> [account : BankAccounts \cup {None}, amount : Int, reconciled : BOOLEAN]]
  /\ session \in [Sessions -> [account : BankAccounts \cup {None},
                               status : {"none", "draft", "completed"}]]
  /\ matches \subseteq Match
  /\ work \in [Clients -> Work]
  /\ raced \subseteq Lines /\ late \subseteq Sessions

\* A line is never matched for more than its amount, counting every session, unless its
\* matches changed between the check and the commit of a call.
NeverOverMatched == \A l \in Lines \ raced : MatchesOf(l) # {} => Matched(l) <= line[l].amount

\* The flag of a line agrees with its matches, through additions and removals of several
\* sessions, with the same reservation.
ReconciledAgrees ==
  \A l \in Lines \ raced :
    line[l].reconciled <=> MatchesOf(l) # {} /\ Matched(l) >= line[l].amount

\* The matches of a completed session stay as they are, unless a call on the session was open
\* when it was completed.
CompletedStays ==
  [][\A s \in Sessions \ late :
       session[s].status = "completed" =>
         {m \in matches' : m.session = s} = {m \in matches : m.session = s}]_bankVars
================================================================================
