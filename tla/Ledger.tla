-------------------------------- MODULE Ledger ---------------------------------
(***************************************************************************)
(* The general ledger: fiscal years and periods, draft and posted journal  *)
(* entries, reversals, and the document sequence that numbers them.        *)
(*                                                                         *)
(* Every service call opens a unit of work of its own.  It first reads and *)
(* checks (SQLite runs a SELECT outside any transaction, and FOR UPDATE is *)
(* not rendered), then writes what changed in one transaction at commit.   *)
(* A call is two steps here: the action named after the service method     *)
(* reads, decides and remembers its writes in work[s]; one of the Commit   *)
(* actions applies them to whatever the tables hold by then, or Abort      *)
(* drops them.  A call the service refuses changes nothing and is no step. *)
(***************************************************************************)
EXTENDS Integers, FiniteSets

CONSTANTS Sessions,      \* threads or processes with a unit of work each
          Entries,       \* primary keys of journal_entries
          Periods,       \* fiscal periods; a date is known by the period that covers it
          Years, YearOf, \* fiscal years, and the year of each period
          Payloads,      \* the line sets an entry can carry
          Inputs,        \* those a user types in
          Balanced,      \* those whose debits equal their credits
          Mirror,        \* the same lines with debits and credits swapped
          SequenceEdits, \* values an administrator may give next_number
          MaxNumber,     \* bound on issued numbers
          Nil

ASSUME LedgerConstants ==
  /\ YearOf \in [Periods -> Years]
  /\ Inputs \subseteq Payloads /\ Balanced \subseteq Payloads
  /\ Mirror \in [Payloads -> Payloads]
  /\ \A l \in Payloads : Mirror[Mirror[l]] = l
  /\ \A l \in Balanced : Mirror[l] \in Balanced
  /\ MaxNumber \in Nat \ {0}
  /\ SequenceEdits \subseteq 1 .. MaxNumber
  /\ Nil \notin Entries \cup Periods \cup Payloads

VARIABLES entry,   \* journal_entries with their lines
          period,  \* fiscal_periods.status_code, "NONE" before generation
          year,    \* fiscal_years.status_code, "NONE" before creation
          next,    \* document_sequences.next_number of JOURNAL_ENTRY
          active,  \* document_sequences.is_active of JOURNAL_ENTRY
          work,    \* the unit of work open in each session
          \* History, for the properties to name the calls that overlap; no action reads it.
          overtaken,  \* sessions whose call relies on a row another commit changed since
          outrun      \* those that issue a number while another commit moved the sequence

db == <<entry, period, year, next, active>>
vars == <<entry, period, year, next, active, work, overtaken, outrun>>

-------------------------------------------------------------------------------
(* Rows, and the writes a unit of work carries to its commit.              *)

LiveRow == [status : {"DRAFT", "POSTED"},
            number : 0 .. MaxNumber,             \* 0: entry_number IS NULL
            date   : Periods,
            lines  : Payloads,
            source : Entries \cup {Nil}]         \* the entry a JOURNAL_REVERSAL reverses
Absent == [status |-> "NONE", number |-> 0, date |-> Nil, lines |-> Nil, source |-> Nil]
Row == LiveRow \cup {Absent}
Columns == {"status", "number", "date", "lines", "source"}

PeriodStatus == {"NONE", "OPEN", "CLOSED", "LOCKED"}
YearStatus == {"NONE", "DRAFT", "OPEN", "CLOSED"}

\* "issue" is the next_number the unit writes, 0 when it issues no number.
Idle == [op |-> "idle"]
Work ==
  {Idle}
  \cup [op : {"insert"}, new : LiveRow, issue : 0 .. MaxNumber + 1]
  \cup [op : {"update"}, id : Entries, new : LiveRow, cols : SUBSET Columns,
        issue : 0 .. MaxNumber + 1]
  \cup [op : {"delete"}, id : Entries]
  \cup [op : {"period"}, id : Periods, new : PeriodStatus \ {"NONE"}]
  \cup [op : {"generate"}, id : Years, new : {"OPEN", "CLOSED"}, opensYear : BOOLEAN]
  \cup [op : {"createYear", "closeYear"}, id : Years, new : YearStatus]
  \cup [op : {"sequence"}, next : 0 .. MaxNumber + 1, active : BOOLEAN]

\* The flush writes the columns whose value differs from the one loaded.
Dirty(old, new) == {c \in Columns : old[c] # new[c]}
Merge(row, new, cols) ==
  [status |-> IF "status" \in cols THEN new.status ELSE row.status,
   number |-> IF "number" \in cols THEN new.number ELSE row.number,
   date   |-> IF "date" \in cols THEN new.date ELSE row.date,
   lines  |-> IF "lines" \in cols THEN new.lines ELSE row.lines,
   source |-> IF "source" \in cols THEN new.source ELSE row.source]

PeriodsOf(y) == {p \in Periods : YearOf[p] = y}

Begin(s, w) == /\ work[s] = Idle
               /\ work' = [work EXCEPT ![s] = w]
               /\ UNCHANGED <<db, overtaken, outrun>>

-------------------------------------------------------------------------------
(* Fiscal calendar and period control.                                     *)

CreateFiscalYear(s, y) ==
  /\ year[y] = "NONE"
  /\ \E st \in {"DRAFT", "OPEN", "CLOSED"} :
       Begin(s, [op |-> "createYear", id |-> y, new |-> st])

GeneratePeriods(s, y, opening) ==
  /\ year[y] # "NONE"
  /\ \A p \in PeriodsOf(y) : period[p] = "NONE"
  /\ Begin(s, [op |-> "generate", id |-> y, new |-> opening,
               opensYear |-> opening = "OPEN" /\ year[y] # "OPEN"])

CloseYear(s, y) ==
  /\ year[y] \in {"DRAFT", "OPEN"}
  /\ PeriodsOf(y) # {}
  /\ \A p \in PeriodsOf(y) : period[p] \in {"CLOSED", "LOCKED"}
  /\ Begin(s, [op |-> "closeYear", id |-> y, new |-> "CLOSED"])

\* Mutant: reopen_period takes a locked period too.
TransitionReopensLocked(from, to) ==
  <<from, to>> \in {<<"OPEN", "CLOSED">>, <<"CLOSED", "LOCKED">>, <<"CLOSED", "OPEN">>,
                    <<"LOCKED", "OPEN">>}

\* open_period and reopen_period both end here, and differ in their audit event.
TransitionAllowed(from, to) ==
  <<from, to>> \in {<<"OPEN", "CLOSED">>, <<"CLOSED", "LOCKED">>, <<"CLOSED", "OPEN">>}

ChangePeriodStatus(s, p, target) ==
  /\ TransitionAllowed(period[p], target)
  /\ Begin(s, [op |-> "period", id |-> p, new |-> target])

-------------------------------------------------------------------------------
(* Numbering.                                                              *)

\* issue_next_number hands out next and leaves next + 1 in the caller's session.
CanIssue == active /\ next <= MaxNumber

UpdateDocumentSequence(s, n) ==
  Begin(s, [op |-> "sequence", next |-> IF n = next THEN 0 ELSE n, active |-> TRUE])

\* Mutant: the row is saved whole, with the next_number loaded.
DeactivateSavesRow(s) ==
  /\ active
  /\ Begin(s, [op |-> "sequence", next |-> next, active |-> FALSE])

DeactivateDocumentSequence(s) ==
  /\ active
  /\ Begin(s, [op |-> "sequence", next |-> 0, active |-> FALSE])

-------------------------------------------------------------------------------
(* Journal entries.                                                        *)

\* A draft is accepted in any generated period that is not locked.
AcceptsDraft(p) == period[p] \in {"OPEN", "CLOSED"}

CreateDraftJournal(s, p, l) ==
  /\ AcceptsDraft(p)
  /\ Begin(s, [op |-> "insert", issue |-> 0,
               new |-> [status |-> "DRAFT", number |-> 0, date |-> p, lines |-> l,
                        source |-> Nil]])

\* Mutant: an edited reversal keeps the marker of the entry it reverses.
UpdateDraftKeepsSource(s, e, p, l) ==
  LET new == [entry[e] EXCEPT !.date = p, !.lines = l]
  IN /\ entry[e].status = "DRAFT"
     /\ AcceptsDraft(p)
     /\ Begin(s, [op |-> "update", id |-> e, new |-> new, issue |-> 0,
                  cols |-> Dirty(entry[e], new) \cup {"lines"}])

\* The journal dialog names no source document, so an edited reversal loses its own.
\* replace_lines deletes and inserts, whether or not the lines changed.
UpdateDraftJournal(s, e, p, l) ==
  LET new == [entry[e] EXCEPT !.date = p, !.lines = l, !.source = Nil]
  IN /\ entry[e].status = "DRAFT"
     /\ AcceptsDraft(p)
     /\ Begin(s, [op |-> "update", id |-> e, new |-> new, issue |-> 0,
                  cols |-> Dirty(entry[e], new) \cup {"lines"}])

DeleteDraftJournal(s, e) ==
  /\ entry[e].status = "DRAFT"
  /\ Begin(s, [op |-> "delete", id |-> e])

\* entry_number is unique per company; an absent number never collides.
NumberFree(n, e) == n = 0 \/ \A f \in Entries \ {e} : entry[f].number # n

PostJournal(s, e) ==
  LET fresh == entry[e].number = 0
      new == [entry[e] EXCEPT !.status = "POSTED", !.number = IF fresh THEN next ELSE @]
  IN /\ entry[e].status = "DRAFT"
     /\ entry[e].lines \in Balanced
     /\ period[entry[e].date] = "OPEN"
     /\ IF fresh THEN CanIssue ELSE NumberFree(entry[e].number, e)
     /\ Begin(s, [op |-> "update", id |-> e, new |-> new, cols |-> Dirty(entry[e], new),
                  issue |-> IF fresh THEN next + 1 ELSE 0])

\* Mutant: a reversal left in draft shows the next number and does not take it.
ReverseJournalPreview(s, e, p, autoPost) ==
  /\ entry[e].status = "POSTED"
  /\ entry[e].source = Nil
  /\ AcceptsDraft(p)
  /\ autoPost => period[p] = "OPEN"
  /\ CanIssue
  /\ Begin(s, [op |-> "insert", issue |-> IF autoPost THEN next + 1 ELSE 0,
               new |-> [status |-> IF autoPost THEN "POSTED" ELSE "DRAFT", number |-> next,
                        date |-> p, lines |-> Mirror[entry[e].lines], source |-> e]])

\* The number is taken at once, for a reversal left in draft too.
ReverseJournal(s, e, p, autoPost) ==
  /\ entry[e].status = "POSTED"
  /\ entry[e].source = Nil
  /\ AcceptsDraft(p)
  /\ autoPost => period[p] = "OPEN"
  /\ CanIssue
  /\ Begin(s, [op |-> "insert", issue |-> next + 1,
               new |-> [status |-> IF autoPost THEN "POSTED" ELSE "DRAFT", number |-> next,
                        date |-> p, lines |-> Mirror[entry[e].lines], source |-> e]])

-------------------------------------------------------------------------------
(* Commit: the writes meet the tables and their constraints.               *)

\* The rows a call decides on that no constraint guards when it commits.
EntriesRead(w) == {e \in Entries : \/ w.op \in {"update", "delete"} /\ w.id = e
                                   \/ w.op = "insert" /\ w.new.source = e}
PeriodsRead(w) == {p \in Periods : \/ w.op \in {"insert", "update"} /\ w.new.date = p
                                   \/ w.op = "period" /\ w.id = p
                                   \/ w.op = "closeYear" /\ YearOf[p] = w.id}
Issues(w) == w.op \in {"insert", "update"} /\ w.issue # 0

Overtakes(w) == \/ \E e \in EntriesRead(w) : entry'[e] # entry[e]
                \/ \E p \in PeriodsRead(w) : period'[p] # period[p]
Outruns(w) == Issues(w) /\ next' # next

\* The unit of work closes, and its writes meet those still open.
Finish(s) ==
  /\ work' = [work EXCEPT ![s] = Idle]
  /\ overtaken' = {t \in Sessions \ {s} : t \in overtaken \/ Overtakes(work[t])}
  /\ outrun' = {t \in Sessions \ {s} : t \in outrun \/ Outruns(work[t])}

WriteNext(n) == next' = IF n = 0 THEN next ELSE n

CommitInsert(s) ==
  /\ work[s].op = "insert"
  /\ \E e \in Entries :
       /\ entry[e].status = "NONE"
       /\ NumberFree(work[s].new.number, e)
       /\ entry' = [entry EXCEPT ![e] = work[s].new]
  /\ WriteNext(work[s].issue)
  /\ UNCHANGED <<period, year, active>>
  /\ Finish(s)

CommitUpdate(s) ==
  LET w == work[s]
      row == Merge(entry[w.id], w.new, w.cols)
  IN /\ w.op = "update"
     /\ entry[w.id].status # "NONE"
     /\ NumberFree(row.number, w.id)
     /\ entry' = [entry EXCEPT ![w.id] = row]
     /\ WriteNext(w.issue)
     /\ UNCHANGED <<period, year, active>>
     /\ Finish(s)

CommitDelete(s) ==
  /\ work[s].op = "delete"
  /\ entry' = [entry EXCEPT ![work[s].id] = Absent]
  /\ UNCHANGED <<period, year, next, active>>
  /\ Finish(s)

CommitPeriod(s) ==
  /\ work[s].op = "period"
  /\ period' = [period EXCEPT ![work[s].id] = work[s].new]
  /\ UNCHANGED <<entry, year, next, active>>
  /\ Finish(s)

\* Mutant: the service's look at the calendar is the only one.
PeriodNumbersUnchecked(y) == TRUE

\* (company_id, fiscal_year_id, period_number) is unique.
PeriodNumbersFree(y) == \A p \in PeriodsOf(y) : period[p] = "NONE"

CommitGenerate(s) ==
  LET w == work[s]
  IN /\ w.op = "generate"
     /\ PeriodNumbersFree(w.id)
     /\ period' = [p \in Periods |-> IF p \in PeriodsOf(w.id) THEN w.new ELSE period[p]]
     /\ year' = IF w.opensYear THEN [year EXCEPT ![w.id] = "OPEN"] ELSE year
     /\ UNCHANGED <<entry, next, active>>
     /\ Finish(s)

\* Mutant: the year code is not unique, and a second creation overwrites the year.
CommitYearTwice(s) ==
  LET w == work[s]
  IN /\ w.op \in {"createYear", "closeYear"}
     /\ year' = [year EXCEPT ![w.id] = w.new]
     /\ UNCHANGED <<entry, period, next, active>>
     /\ Finish(s)

\* (company_id, year_code) is unique.
CommitYear(s) ==
  LET w == work[s]
  IN /\ w.op \in {"createYear", "closeYear"}
     /\ w.op = "createYear" => year[w.id] = "NONE"
     /\ year' = [year EXCEPT ![w.id] = w.new]
     /\ UNCHANGED <<entry, period, next, active>>
     /\ Finish(s)

CommitSequence(s) ==
  /\ work[s].op = "sequence"
  /\ WriteNext(work[s].next)
  /\ active' = (active /\ work[s].active)
  /\ UNCHANGED <<entry, period, year>>
  /\ Finish(s)

\* A constraint refuses the flush, a call fails after its reads, the process dies.
Abort(s) ==
  /\ work[s] # Idle
  /\ UNCHANGED db
  /\ Finish(s)

-------------------------------------------------------------------------------
Init == /\ entry = [e \in Entries |-> Absent]
        /\ period = [p \in Periods |-> "NONE"]
        /\ year = [y \in Years |-> "NONE"]
        /\ next = 1
        /\ active = TRUE
        /\ work = [s \in Sessions |-> Idle]
        /\ overtaken = {} /\ outrun = {}

Calendar(s) ==
  \/ \E y \in Years : CreateFiscalYear(s, y) \/ CloseYear(s, y)
  \/ \E y \in Years, g \in {"OPEN", "CLOSED"} : GeneratePeriods(s, y, g)
  \/ \E p \in Periods, g \in {"OPEN", "CLOSED", "LOCKED"} : ChangePeriodStatus(s, p, g)

Numbering(s) ==
  \/ \E n \in SequenceEdits : UpdateDocumentSequence(s, n)
  \/ DeactivateDocumentSequence(s)

Journals(s) ==
  \/ \E p \in Periods, l \in Inputs : CreateDraftJournal(s, p, l)
  \/ \E e \in Entries, p \in Periods, l \in Inputs : UpdateDraftJournal(s, e, p, l)
  \/ \E e \in Entries : DeleteDraftJournal(s, e) \/ PostJournal(s, e)
  \/ \E e \in Entries, p \in Periods, a \in BOOLEAN : ReverseJournal(s, e, p, a)

Commit(s) ==
  \/ CommitInsert(s) \/ CommitUpdate(s) \/ CommitDelete(s) \/ CommitPeriod(s)
  \/ CommitGenerate(s) \/ CommitYear(s) \/ CommitSequence(s)

Next == \E s \in Sessions : Calendar(s) \/ Numbering(s) \/ Journals(s) \/ Commit(s) \/ Abort(s)

Spec == Init /\ [][Next]_vars

-------------------------------------------------------------------------------
(* What must hold.                                                         *)

TypeOK == /\ entry \in [Entries -> Row]
          /\ period \in [Periods -> PeriodStatus]
          /\ year \in [Years -> YearStatus]
          /\ next \in 1 .. MaxNumber + 1
          /\ active \in BOOLEAN
          /\ work \in [Sessions -> Work]
          /\ overtaken \subseteq Sessions /\ outrun \subseteq Sessions

\* The periods of a year are generated once: afterwards a step changes one period at most,
\* and never takes one back to before its generation (fiscal_calendar_service.py,
\* generate_periods, with two sessions generating the same year).
GeneratedOnce ==
  [][\A p, q \in Periods :
       /\ period[p] # "NONE" => period'[p] # "NONE"
       /\ p # q /\ YearOf[p] = YearOf[q] /\ period[p] # "NONE"
            => period'[p] = period[p] \/ period'[q] = period[q]]_vars

\* The promise of module GeneralLedger, read from the posted rows: post_journal and an
\* auto-posted reverse_journal append one balanced, freshly numbered posting to an open
\* period, nothing else touches a posting, and a locked period stays locked.
Face(e) == [number |-> entry[e].number, date |-> entry[e].date, lines |-> entry[e].lines]
Postings == {Face(e) : e \in {f \in Entries : entry[f].status = "POSTED"}}
Book == INSTANCE GeneralLedger WITH book <- Postings, gate <- period
ImplementsBook == Book!BookSpec

\* A reversal, posted or still a draft, swaps the sides of an entry that is posted, and is
\* not itself a reversal, for as long as it names it: editing the draft, deleting drafts and
\* posting them must not part the two (journal_reversal_service.py, journal_service.py).
ReversalMirrorsSource ==
  \A e \in Entries :
    entry[e].source # Nil =>
      LET src == entry[entry[e].source]
      IN src.status = "POSTED" /\ src.source = Nil /\ entry[e].lines = Mirror[src.lines]

PostingSound(r) == r.lines \in Balanced /\ r.number # 0
BookSound == \A e \in Entries : entry[e].status = "POSTED" => PostingSound(entry[e])
Commits(s) == work[s] # Idle /\ work'[s] = Idle

\* However many calls overlap, only one that another overtook can break that promise first: a
\* generation of periods and a number issued twice meet a constraint at the commit, and a
\* posting, an edit, a reversal or a change of status is safe while the entry and the period
\* it read stand as read (journal_service.py, journal_posting_service.py,
\* period_control_service.py, which look at neither again).
OnlyOvertakenBreakBook ==
  [][BookSound /\ (\A s \in overtaken : ~Commits(s)) =>
       Book!BookNext \/ UNCHANGED <<Postings, period>>]_vars

\* The sequence stays ahead of every number in use, so the next posting finds its number
\* free, unless an administrator moved the sequence (numbering_service.py).
SequenceAhead == \A e \in Entries : entry[e].number < next

\* However many calls overlap, the sequence falls behind a number in use only when an
\* administrator sets it there, or when a call that issued a number commits after another
\* moved the sequence (issue_next_number); deactivating it meanwhile does not move it.
FallsBehindOnly ==
  SequenceAhead /\ ~SequenceAhead' =>
    \E s \in Sessions : /\ Commits(s)
                         /\ \/ s \in outrun
                            \/ work[s].op = "sequence" /\ work[s].active
SequenceFallsBehind == [][FallsBehindOnly]_vars

\* A year closes only when none of its periods can take a posting, unless one of them was
\* reopened while close_year was under way; creating the year twice, or generating its
\* periods meanwhile, does not close it (fiscal_calendar_service.py).
YearClosesLast ==
  [][\A y \in Years :
       /\ year[y] \in {"DRAFT", "OPEN"} /\ year'[y] = "CLOSED"
       /\ \A s \in overtaken : ~Commits(s)
       => PeriodsOf(y) # {} /\ \A p \in PeriodsOf(y) : period[p] \in {"CLOSED", "LOCKED"}]_vars
================================================================================
