----------------------------- MODULE LedgerProofs ------------------------------
(***************************************************************************)
(* Proofs about module Ledger, for every set of sessions, entries, periods *)
(* and line sets.                                                          *)
(***************************************************************************)
EXTENDS Ledger, TLAPS

-------------------------------------------------------------------------------
(* Type correctness.                                                       *)

\* The operation names the writes a unit of work carries.
LEMMA WorkShape ==
  ASSUME NEW w \in Work
  PROVE  /\ w.op = "insert" => w \in [op : {"insert"}, new : LiveRow, issue : 0 .. MaxNumber + 1]
         /\ w.op = "update" => w \in [op : {"update"}, id : Entries, new : LiveRow,
                                      cols : SUBSET Columns, issue : 0 .. MaxNumber + 1]
         /\ w.op = "delete" => w \in [op : {"delete"}, id : Entries]
         /\ w.op = "period" => w \in [op : {"period"}, id : Periods, new : PeriodStatus \ {"NONE"}]
         /\ w.op = "generate" => w \in [op : {"generate"}, id : Years, new : {"OPEN", "CLOSED"},
                                        opensYear : BOOLEAN]
         /\ w.op \in {"createYear", "closeYear"} =>
              w \in [op : {"createYear", "closeYear"}, id : Years, new : YearStatus]
         /\ w.op = "sequence" => w \in [op : {"sequence"}, next : 0 .. MaxNumber + 1,
                                        active : BOOLEAN]
  BY DEF Work, Idle

\* A row that is there has a date and lines; merging two of them gives another.
LEMMA LiveIsLive ==
  ASSUME NEW r \in Row, r.status # "NONE"
  PROVE  r \in LiveRow
  BY DEF Row, Absent

\* Writing some columns of a live row leaves a live row.
LEMMA MergeType ==
  ASSUME NEW r \in LiveRow, NEW n \in LiveRow, NEW C \in SUBSET Columns
  PROVE  Merge(r, n, C) \in LiveRow
  BY DEF Merge, LiveRow

\* Opening a unit of work keeps the types when its writes are well typed.
LEMMA BeginType ==
  ASSUME TypeOK, NEW s \in Sessions, NEW w \in Work, Begin(s, w)
  PROVE  TypeOK'
  BY DEF TypeOK, Begin, db

\* In every reachable state the tables and the open units of work are well typed: no call,
\* and no interleaving of calls, leaves a row or a sequence value outside its column's domain.
THEOREM TypeCorrect == Spec => []TypeOK
<1>1. Init => TypeOK
  BY LedgerConstants DEF Init, TypeOK, Row, PeriodStatus, YearStatus, Work
<1>2. TypeOK /\ [Next]_vars => TypeOK'
  <2> SUFFICES ASSUME TypeOK, [Next]_vars PROVE TypeOK'
    OBVIOUS
  <2>1. CASE UNCHANGED vars
    BY <2>1 DEF vars, TypeOK
  <2>2. ASSUME NEW s \in Sessions, Calendar(s) PROVE TypeOK'
    <3>1. ASSUME NEW y \in Years, CreateFiscalYear(s, y) PROVE TypeOK'
      <4>1. PICK st \in {"DRAFT", "OPEN", "CLOSED"} :
               Begin(s, [op |-> "createYear", id |-> y, new |-> st])
        BY <3>1 DEF CreateFiscalYear
      <4>2. [op |-> "createYear", id |-> y, new |-> st] \in Work
        BY DEF Work, YearStatus
      <4> QED BY <4>1, <4>2, BeginType
    <3>2. ASSUME NEW y \in Years, CloseYear(s, y) PROVE TypeOK'
      <4>1. [op |-> "closeYear", id |-> y, new |-> "CLOSED"] \in Work
        BY DEF Work, YearStatus
      <4> QED BY <3>2, <4>1, BeginType DEF CloseYear
    <3>3. ASSUME NEW y \in Years, NEW g \in {"OPEN", "CLOSED"}, GeneratePeriods(s, y, g)
          PROVE  TypeOK'
      <4>1. [op |-> "generate", id |-> y, new |-> g,
             opensYear |-> g = "OPEN" /\ year[y] # "OPEN"] \in Work
        BY DEF Work, PeriodStatus
      <4> QED BY <3>3, <4>1, BeginType DEF GeneratePeriods
    <3>4. ASSUME NEW p \in Periods, NEW g \in {"OPEN", "CLOSED", "LOCKED"},
                 ChangePeriodStatus(s, p, g)
          PROVE  TypeOK'
      <4>1. [op |-> "period", id |-> p, new |-> g] \in Work
        BY DEF Work, PeriodStatus
      <4> QED BY <3>4, <4>1, BeginType DEF ChangePeriodStatus
    <3> QED BY <2>2, <3>1, <3>2, <3>3, <3>4 DEF Calendar
  <2>3. ASSUME NEW s \in Sessions, Numbering(s) PROVE TypeOK'
    <3>1. ASSUME NEW n \in SequenceEdits, UpdateDocumentSequence(s, n) PROVE TypeOK'
      <4>1. [op |-> "sequence", next |-> IF n = next THEN 0 ELSE n, active |-> TRUE] \in Work
        BY LedgerConstants DEF Work
      <4> QED BY <3>1, <4>1, BeginType DEF UpdateDocumentSequence
    <3>2. ASSUME DeactivateDocumentSequence(s) PROVE TypeOK'
      <4>1. [op |-> "sequence", next |-> 0, active |-> FALSE] \in Work
        BY LedgerConstants DEF Work
      <4> QED BY <3>2, <4>1, BeginType DEF DeactivateDocumentSequence
    <3> QED BY <2>3, <3>1, <3>2 DEF Numbering
  <2>4. ASSUME NEW s \in Sessions, Journals(s) PROVE TypeOK'
    <3>1. ASSUME NEW p \in Periods, NEW l \in Inputs, CreateDraftJournal(s, p, l) PROVE TypeOK'
      <4> DEFINE w == [op |-> "insert", issue |-> 0,
                       new |-> [status |-> "DRAFT", number |-> 0, date |-> p, lines |-> l,
                                source |-> Nil]]
      <4>1. w \in Work
        BY LedgerConstants DEF Work, LiveRow
      <4>2. Begin(s, w)
        BY <3>1 DEF CreateDraftJournal
      <4> QED BY <4>1, <4>2, BeginType
    <3>2. ASSUME NEW e \in Entries, NEW p \in Periods, NEW l \in Inputs,
                 UpdateDraftJournal(s, e, p, l)
          PROVE  TypeOK'
      <4> DEFINE new == [entry[e] EXCEPT !.date = p, !.lines = l, !.source = Nil]
      <4> DEFINE w == [op |-> "update", id |-> e, new |-> new, issue |-> 0,
                       cols |-> Dirty(entry[e], new) \cup {"lines"}]
      <4>1. new \in LiveRow
        <5>1. entry[e] \in LiveRow
          BY <3>2, LiveIsLive DEF UpdateDraftJournal, TypeOK
        <5>2. l \in Payloads
          BY LedgerConstants
        <5> QED BY <5>1, <5>2 DEF LiveRow
      <4>2. Dirty(entry[e], new) \cup {"lines"} \in SUBSET Columns
        BY DEF Dirty, Columns
      <4>3. w \in Work
        BY <4>1, <4>2, LedgerConstants DEF Work
      <4>4. Begin(s, w)
        BY <3>2 DEF UpdateDraftJournal
      <4> QED BY <4>3, <4>4, BeginType
    <3>3. ASSUME NEW e \in Entries, DeleteDraftJournal(s, e) PROVE TypeOK'
      <4>1. [op |-> "delete", id |-> e] \in Work
        BY DEF Work
      <4> QED BY <3>3, <4>1, BeginType DEF DeleteDraftJournal
    <3>4. ASSUME NEW e \in Entries, PostJournal(s, e) PROVE TypeOK'
      <4> DEFINE fresh == entry[e].number = 0
      <4> DEFINE new == [entry[e] EXCEPT !.status = "POSTED",
                                         !.number = IF fresh THEN next ELSE @]
      <4> DEFINE w == [op |-> "update", id |-> e, new |-> new, cols |-> Dirty(entry[e], new),
                       issue |-> IF fresh THEN next + 1 ELSE 0]
      <4>1. fresh => next \in 1 .. MaxNumber
        BY <3>4, LedgerConstants DEF PostJournal, CanIssue, TypeOK
      <4>2. new \in LiveRow
        <5>1. entry[e] \in LiveRow
          BY <3>4, LiveIsLive DEF PostJournal, TypeOK
        <5>2. (IF fresh THEN next ELSE entry[e].number) \in 0 .. MaxNumber
          BY <5>1, <4>1, LedgerConstants DEF LiveRow
        <5> HIDE DEF fresh
        <5> QED BY <5>1, <5>2 DEF LiveRow
      <4>3. Dirty(entry[e], new) \in SUBSET Columns
        BY DEF Dirty
      <4>4. (IF fresh THEN next + 1 ELSE 0) \in 0 .. MaxNumber + 1
        BY <4>1, LedgerConstants
      <4>5. w \in Work
        BY <4>2, <4>3, <4>4 DEF Work
      <4>6. Begin(s, w)
        BY <3>4 DEF PostJournal
      <4> QED BY <4>5, <4>6, BeginType
    <3>5. ASSUME NEW e \in Entries, NEW p \in Periods, NEW a \in BOOLEAN,
                 ReverseJournal(s, e, p, a)
          PROVE  TypeOK'
      <4> DEFINE new == [status |-> IF a THEN "POSTED" ELSE "DRAFT", number |-> next,
                         date |-> p, lines |-> Mirror[entry[e].lines], source |-> e]
      <4> DEFINE w == [op |-> "insert", issue |-> next + 1, new |-> new]
      <4>1. next \in 1 .. MaxNumber
        BY <3>5, LedgerConstants DEF ReverseJournal, CanIssue, TypeOK
      <4>2. new \in LiveRow
        <5>1. entry[e] \in LiveRow
          BY <3>5, LiveIsLive DEF ReverseJournal, TypeOK
        <5>2. Mirror[entry[e].lines] \in Payloads
          BY <5>1, LedgerConstants DEF LiveRow
        <5> QED BY <4>1, <5>2, LedgerConstants DEF LiveRow
      <4>3. w \in Work
        BY <4>1, <4>2, LedgerConstants DEF Work
      <4>4. Begin(s, w)
        BY <3>5 DEF ReverseJournal
      <4> QED BY <4>3, <4>4, BeginType
    <3> QED BY <2>4, <3>1, <3>2, <3>3, <3>4, <3>5 DEF Journals
  <2>5. ASSUME NEW s \in Sessions, Commit(s) PROVE TypeOK'
    <3> work[s] \in Work
      BY DEF TypeOK
    <3> Idle \in Work
      BY DEF Work
    <3>1. CASE CommitInsert(s)
      BY <3>1, WorkShape, LedgerConstants DEF CommitInsert, TypeOK, Finish, WriteNext, Row
    <3>2. CASE CommitUpdate(s)
      <4>1. work[s] \in [op : {"update"}, id : Entries, new : LiveRow, cols : SUBSET Columns,
                          issue : 0 .. MaxNumber + 1]
        BY <3>2, WorkShape DEF CommitUpdate
      <4>2. entry[work[s].id] \in LiveRow
        BY <3>2, <4>1, LiveIsLive DEF CommitUpdate, TypeOK
      <4>3. Merge(entry[work[s].id], work[s].new, work[s].cols) \in Row
        BY <4>1, <4>2, MergeType DEF Row
      <4> QED BY <3>2, <4>1, <4>3, LedgerConstants DEF CommitUpdate, TypeOK, Finish, WriteNext
    <3>3. CASE CommitDelete(s)
      <4>1. Absent \in Row
        BY DEF Row
      <4> QED BY <3>3, <4>1, WorkShape DEF CommitDelete, TypeOK, Finish
    <3>4. CASE CommitPeriod(s)
      BY <3>4, WorkShape DEF CommitPeriod, TypeOK, Finish
    <3>5. CASE CommitGenerate(s)
      BY <3>5, WorkShape DEF CommitGenerate, TypeOK, Finish, YearStatus, PeriodStatus
    <3>6. CASE CommitYear(s)
      BY <3>6, WorkShape DEF CommitYear, TypeOK, Finish
    <3>7. CASE CommitSequence(s)
      BY <3>7, WorkShape, LedgerConstants DEF CommitSequence, TypeOK, Finish, WriteNext
    <3> QED BY <2>5, <3>1, <3>2, <3>3, <3>4, <3>5, <3>6, <3>7 DEF Commit
  <2>6. ASSUME NEW s \in Sessions, Abort(s) PROVE TypeOK'
    BY <2>6 DEF Abort, Finish, TypeOK, Work, db
  <2> QED BY <2>1, <2>2, <2>3, <2>4, <2>5, <2>6 DEF Next
<1> QED BY <1>1, <1>2, PTL DEF Spec

-------------------------------------------------------------------------------
(* Overlapping calls.  Any number of sessions.                             *)

\* Every action but the commits leaves the tables as they are.
LEMMA OnlyCommitsWrite ==
  ASSUME [Next]_vars, ~ \E s \in Sessions : Commit(s)
  PROVE  UNCHANGED db
<1>1. CASE UNCHANGED vars
  BY <1>1 DEF vars, db
<1>2. ASSUME NEW s \in Sessions, Calendar(s) PROVE UNCHANGED db
  BY <1>2 DEF Calendar, CreateFiscalYear, CloseYear, GeneratePeriods, ChangePeriodStatus, Begin
<1>3. ASSUME NEW s \in Sessions, Numbering(s) PROVE UNCHANGED db
  BY <1>3 DEF Numbering, UpdateDocumentSequence, DeactivateDocumentSequence, Begin
<1>4. ASSUME NEW s \in Sessions, Journals(s) PROVE UNCHANGED db
  BY <1>4 DEF Journals, CreateDraftJournal, UpdateDraftJournal, DeleteDraftJournal, PostJournal,
              ReverseJournal, Begin
<1>5. ASSUME NEW s \in Sessions, Abort(s) PROVE UNCHANGED db
  BY <1>5 DEF Abort
<1> QED BY <1>1, <1>2, <1>3, <1>4, <1>5 DEF Next

\* However many sessions generate a year at once, its periods appear once: the second flush
\* meets the constraint on (year, period number), and no status change un-generates one.
THEOREM YearGeneratedOnce == Spec => GeneratedOnce
<1> DEFINE Once == \A p, q \in Periods :
                     /\ period[p] # "NONE" => period'[p] # "NONE"
                     /\ p # q /\ YearOf[p] = YearOf[q] /\ period[p] # "NONE"
                          => period'[p] = period[p] \/ period'[q] = period[q]
<1>1. TypeOK /\ [Next]_vars => [Once]_vars
  <2> SUFFICES ASSUME TypeOK, [Next]_vars PROVE Once
    OBVIOUS
  <2>1. CASE ~ \E s \in Sessions : Commit(s)
    BY <2>1, OnlyCommitsWrite DEF db
  <2>2. ASSUME NEW s \in Sessions, Commit(s) PROVE Once
    <3> work[s] \in Work
      BY DEF TypeOK
    <3>1. CASE CommitPeriod(s)
      BY <3>1, WorkShape DEF CommitPeriod, TypeOK
    <3>2. CASE CommitGenerate(s)
      <4>1. \A p \in Periods :
              period'[p] = IF YearOf[p] = work[s].id THEN work[s].new ELSE period[p]
        BY <3>2 DEF CommitGenerate, PeriodsOf
      <4>2. \A p \in Periods : YearOf[p] = work[s].id => period[p] = "NONE"
        BY <3>2 DEF CommitGenerate, PeriodNumbersFree, PeriodsOf
      <4> QED BY <4>1, <4>2
    <3>3. CASE UNCHANGED period
      BY <3>3
    <3> QED BY <2>2, <3>1, <3>2, <3>3
            DEF Commit, CommitInsert, CommitUpdate, CommitDelete, CommitYear, CommitSequence
  <2> QED BY <2>1, <2>2
<1> QED BY <1>1, TypeCorrect, PTL DEF Spec, GeneratedOnce

\* Writing every column that changed writes the row the call had in mind.
LEMMA MergeDirty ==
  ASSUME NEW r \in LiveRow, NEW n \in LiveRow, NEW C \in SUBSET Columns, Dirty(r, n) \subseteq C
  PROVE  Merge(r, n, C) = n
<1>1. \A c \in Columns \ C : r[c] = n[c]
  BY DEF Dirty
<1> DEFINE m == Merge(r, n, C)
<1>2. /\ m.status = n.status /\ m.number = n.number /\ m.date = n.date
      /\ m.lines = n.lines /\ m.source = n.source
  BY <1>1 DEF Merge, Columns
<1>3. m \in LiveRow
  BY MergeType
<1> QED BY <1>2, <1>3 DEF LiveRow

\* What a call decided, read against the tables as they are now: an entry it writes is a
\* draft, a posting it makes is sound and in an open period, a posted reversal mirrors a
\* posted entry, and a change of status is one the service allows.
DecisionHolds(w) ==
  /\ w.op = "insert" /\ w.new.status = "POSTED" =>
       /\ w.new.source \in Entries /\ entry[w.new.source].status = "POSTED"
       /\ w.new.lines = Mirror[entry[w.new.source].lines]
       /\ w.new.number # 0 /\ period[w.new.date] = "OPEN"
  /\ w.op = "update" =>
       /\ Merge(entry[w.id], w.new, w.cols) = w.new
       /\ w.new.status = "POSTED" => PostingSound(w.new) /\ period[w.new.date] = "OPEN"
  /\ w.op \in {"update", "delete"} => entry[w.id].status = "DRAFT"
  /\ w.op = "period" => TransitionAllowed(period[w.id], w.new)
  /\ w.op = "closeYear" => /\ PeriodsOf(w.id) # {}
                           /\ \A p \in PeriodsOf(w.id) : period[p] \in {"CLOSED", "LOCKED"}

\* The invariant of overlapping calls: a decision holds until another commit overtakes it.
Standing == \A s \in Sessions : s \notin overtaken => DecisionHolds(work[s])

\* A call that decides on what it reads keeps Standing.
LEMMA BeginDecision ==
  ASSUME Standing, NEW s \in Sessions, NEW w, Begin(s, w), TypeOK, DecisionHolds(w)
  PROVE  Standing'
<1>1. UNCHANGED <<entry, period, overtaken>>
  BY DEF Begin, db
<1>2. \A t \in Sessions : work'[t] = work[t] \/ work'[t] = w
  BY DEF Begin, TypeOK
<1>3. \A t \in Sessions : \A v : DecisionHolds(v) /\ work'[t] = v => DecisionHolds(work[t])'
  BY <1>1 DEF DecisionHolds, Merge, PostingSound, TransitionAllowed
<1> QED BY <1>1, <1>2, <1>3 DEF Standing

\* The calls of each service decide soundly.
LEMMA CalendarDecides ==
  ASSUME TypeOK, Standing, NEW s \in Sessions, Calendar(s)
  PROVE  Standing'
<1>1. ASSUME NEW y \in Years, CreateFiscalYear(s, y) PROVE Standing'
  <2>1. PICK st \in {"DRAFT", "OPEN", "CLOSED"} :
          Begin(s, [op |-> "createYear", id |-> y, new |-> st])
    BY <1>1 DEF CreateFiscalYear
  <2>2. DecisionHolds([op |-> "createYear", id |-> y, new |-> st])
    BY DEF DecisionHolds
  <2> QED BY <2>1, <2>2, BeginDecision
<1>2. ASSUME NEW y \in Years, CloseYear(s, y) PROVE Standing'
  <2>1. DecisionHolds([op |-> "closeYear", id |-> y, new |-> "CLOSED"])
    BY <1>2 DEF DecisionHolds, CloseYear
  <2> QED BY <1>2, <2>1, BeginDecision DEF CloseYear
<1>3. ASSUME NEW y \in Years, NEW g \in {"OPEN", "CLOSED"}, GeneratePeriods(s, y, g)
      PROVE  Standing'
  <2> DEFINE w == [op |-> "generate", id |-> y, new |-> g,
                   opensYear |-> g = "OPEN" /\ year[y] # "OPEN"]
  <2>1. DecisionHolds(w)
    BY DEF DecisionHolds
  <2>2. Begin(s, w)
    BY <1>3 DEF GeneratePeriods
  <2> QED BY <2>1, <2>2, BeginDecision
<1>4. ASSUME NEW p \in Periods, NEW g \in {"OPEN", "CLOSED", "LOCKED"},
             ChangePeriodStatus(s, p, g)
      PROVE  Standing'
  <2>1. DecisionHolds([op |-> "period", id |-> p, new |-> g])
    BY <1>4 DEF DecisionHolds, ChangePeriodStatus
  <2> QED BY <1>4, <2>1, BeginDecision DEF ChangePeriodStatus
<1> QED BY <1>1, <1>2, <1>3, <1>4 DEF Calendar

\* Calls on document sequences decide what they write from no stored row.
LEMMA NumberingDecides ==
  ASSUME TypeOK, Standing, NEW s \in Sessions, Numbering(s)
  PROVE  Standing'
<1>1. \A n, a : DecisionHolds([op |-> "sequence", next |-> n, active |-> a])
  BY DEF DecisionHolds
<1> QED BY <1>1, BeginDecision
        DEF Numbering, UpdateDocumentSequence, DeactivateDocumentSequence

\* Calls on journal entries decide from the rows that they find.
LEMMA JournalsDecide ==
  ASSUME TypeOK, Standing, NEW s \in Sessions, Journals(s)
  PROVE  Standing'
<1>1. ASSUME NEW p \in Periods, NEW l \in Inputs, CreateDraftJournal(s, p, l)
      PROVE  Standing'
  <2> DEFINE w == [op |-> "insert", issue |-> 0,
                   new |-> [status |-> "DRAFT", number |-> 0, date |-> p, lines |-> l,
                            source |-> Nil]]
  <2>1. DecisionHolds(w)
    BY DEF DecisionHolds
  <2>2. Begin(s, w)
    BY <1>1 DEF CreateDraftJournal
  <2> QED BY <2>1, <2>2, BeginDecision
<1>2. ASSUME NEW e \in Entries, NEW p \in Periods, NEW l \in Inputs,
             UpdateDraftJournal(s, e, p, l)
      PROVE  Standing'
  <2> DEFINE new == [entry[e] EXCEPT !.date = p, !.lines = l, !.source = Nil]
  <2> DEFINE w == [op |-> "update", id |-> e, new |-> new, issue |-> 0,
                   cols |-> Dirty(entry[e], new) \cup {"lines"}]
  <2>1. entry[e].status = "DRAFT" /\ Begin(s, w)
    BY <1>2 DEF UpdateDraftJournal
  <2>2. entry[e] \in LiveRow
    BY <2>1, LiveIsLive DEF TypeOK
  <2>3. new \in LiveRow /\ new.status = "DRAFT"
    BY <2>1, <2>2, LedgerConstants DEF LiveRow
  <2>4. Merge(entry[e], new, w.cols) = new
    <3>1. w.cols \in SUBSET Columns /\ Dirty(entry[e], new) \subseteq w.cols
      BY DEF Dirty, Columns
    <3> HIDE DEF new
    <3> QED BY <2>2, <2>3, <3>1, MergeDirty
  <2>5. DecisionHolds(w)
    <3> HIDE DEF new
    <3> QED BY <2>1, <2>3, <2>4 DEF DecisionHolds
  <2> QED BY <2>1, <2>5, BeginDecision
<1>3. ASSUME NEW e \in Entries, DeleteDraftJournal(s, e) PROVE Standing'
  <2>1. DecisionHolds([op |-> "delete", id |-> e])
    BY <1>3 DEF DecisionHolds, DeleteDraftJournal
  <2> QED BY <1>3, <2>1, BeginDecision DEF DeleteDraftJournal
<1>4. ASSUME NEW e \in Entries, PostJournal(s, e) PROVE Standing'
  <2> DEFINE fresh == entry[e].number = 0
  <2> DEFINE new == [entry[e] EXCEPT !.status = "POSTED",
                                     !.number = IF fresh THEN next ELSE @]
  <2> DEFINE w == [op |-> "update", id |-> e, new |-> new, cols |-> Dirty(entry[e], new),
                   issue |-> IF fresh THEN next + 1 ELSE 0]
  <2>1. Begin(s, w)
    BY <1>4 DEF PostJournal
  <2>2. entry[e] \in LiveRow
    BY <1>4, LiveIsLive DEF PostJournal, TypeOK
  <2>3. fresh => next \in 1 .. MaxNumber
    BY <1>4, LedgerConstants DEF PostJournal, CanIssue, TypeOK
  <2>4. /\ new \in LiveRow /\ new.status = "POSTED" /\ new.date = entry[e].date
        /\ new.lines = entry[e].lines /\ new.number # 0
    <3>1. /\ (IF fresh THEN next ELSE entry[e].number) \in 0 .. MaxNumber
          /\ (IF fresh THEN next ELSE entry[e].number) # 0
      BY <2>2, <2>3, LedgerConstants DEF LiveRow
    <3> HIDE DEF fresh
    <3> QED BY <2>2, <3>1 DEF LiveRow
  <2>5. Merge(entry[e], new, Dirty(entry[e], new)) = new
    <3>1. Dirty(entry[e], new) \in SUBSET Columns
      BY DEF Dirty
    <3> QED BY <2>2, <2>4, <3>1, MergeDirty
  <2>6. /\ entry[e].status = "DRAFT" /\ entry[e].lines \in Balanced
        /\ period[entry[e].date] = "OPEN"
    BY <1>4 DEF PostJournal
  <2>7. DecisionHolds(w)
    <3> HIDE DEF new
    <3> QED BY <2>4, <2>5, <2>6 DEF DecisionHolds, PostingSound
  <2> QED BY <2>1, <2>7, BeginDecision
<1>5. ASSUME NEW e \in Entries, NEW p \in Periods, NEW a \in BOOLEAN,
             ReverseJournal(s, e, p, a)
      PROVE  Standing'
  <2> DEFINE new == [status |-> IF a THEN "POSTED" ELSE "DRAFT", number |-> next,
                     date |-> p, lines |-> Mirror[entry[e].lines], source |-> e]
  <2> DEFINE w == [op |-> "insert", issue |-> next + 1, new |-> new]
  <2>1. Begin(s, w) /\ entry[e].status = "POSTED" /\ (a => period[p] = "OPEN")
    BY <1>5 DEF ReverseJournal
  <2>2. next # 0
    BY LedgerConstants DEF TypeOK
  <2>3. DecisionHolds(w)
    BY <2>1, <2>2 DEF DecisionHolds
  <2> QED BY <2>1, <2>3, BeginDecision
<1> QED BY <1>1, <1>2, <1>3, <1>4, <1>5 DEF Journals

\* A commit that rewrites nothing a call relies on leaves its decision as it was.
LEMMA StandsUntilOvertaken ==
  ASSUME TypeOK, NEW t \in Sessions, work'[t] = work[t], DecisionHolds(work[t]),
         ~Overtakes(work[t])
  PROVE  DecisionHolds(work[t])'
<1> DEFINE w == work[t]
<1>1. w \in Work
  BY DEF TypeOK
<1>2. /\ \A e \in Entries : e \in EntriesRead(w) => entry'[e] = entry[e]
      /\ \A p \in Periods : p \in PeriodsRead(w) => period'[p] = period[p]
  BY DEF Overtakes, EntriesRead, PeriodsRead
<1>3. CASE w.op = "insert"
  <2>1. w.new.date \in Periods
    BY <1>1, <1>3, WorkShape DEF LiveRow
  <2>2. period'[w.new.date] = period[w.new.date]
    BY <1>2, <1>3, <2>1 DEF PeriodsRead
  <2>3. w.new.source \in Entries => entry'[w.new.source] = entry[w.new.source]
    BY <1>2, <1>3 DEF EntriesRead
  <2> QED BY <1>3, <2>2, <2>3 DEF DecisionHolds
<1>4. CASE w.op = "update"
  <2>1. w.id \in Entries /\ w.new.date \in Periods
    BY <1>1, <1>4, WorkShape DEF LiveRow
  <2>2. period'[w.new.date] = period[w.new.date] /\ entry'[w.id] = entry[w.id]
    BY <1>2, <1>4, <2>1 DEF PeriodsRead, EntriesRead
  <2> QED BY <1>4, <2>2 DEF DecisionHolds, PostingSound, Merge
<1>5. CASE w.op = "delete"
  <2>1. entry'[w.id] = entry[w.id]
    BY <1>1, <1>2, <1>5, WorkShape DEF EntriesRead
  <2> QED BY <1>5, <2>1 DEF DecisionHolds
<1>6. CASE w.op = "period"
  <2>1. period'[w.id] = period[w.id]
    BY <1>1, <1>2, <1>6, WorkShape DEF PeriodsRead
  <2> QED BY <1>6, <2>1 DEF DecisionHolds, TransitionAllowed
<1>7. CASE w.op = "closeYear"
  <2>1. \A p \in PeriodsOf(w.id) : period'[p] = period[p]
    BY <1>2, <1>7 DEF PeriodsRead, PeriodsOf
  <2> QED BY <1>7, <2>1 DEF DecisionHolds
<1>8. CASE w.op \notin {"insert", "update", "delete", "period", "closeYear"}
  BY <1>8 DEF DecisionHolds
<1> QED BY <1>3, <1>4, <1>5, <1>6, <1>7, <1>8

\* Every commit ends its unit of work, and so does a rollback.
LEMMA CommitFinishes ==
  ASSUME NEW s \in Sessions, Commit(s) \/ Abort(s)
  PROVE  work[s] # Idle /\ Finish(s)
BY DEF Commit, CommitInsert, CommitUpdate, CommitDelete, CommitPeriod, CommitGenerate,
       CommitYear, CommitSequence, Abort, Idle

\* However many calls overlap, what a call decided holds until another commit rewrites a row
\* it relies on.
LEMMA DecisionsStandUntilOvertaken == Spec => []Standing
<1>1. Init => Standing
  BY DEF Init, Standing, DecisionHolds, Idle
<1>2. TypeOK /\ Standing /\ [Next]_vars => Standing'
  <2> SUFFICES ASSUME TypeOK, Standing, [Next]_vars PROVE Standing'
    OBVIOUS
  <2>1. CASE UNCHANGED vars
    <3>1. UNCHANGED <<entry, period, work, overtaken>>
      BY <2>1 DEF vars
    <3>2. \A t \in Sessions : ~Overtakes(work[t])
      BY <3>1 DEF Overtakes
    <3> QED BY <3>1, <3>2, StandsUntilOvertaken DEF Standing
  <2>2. ASSUME NEW s \in Sessions, Commit(s) \/ Abort(s) PROVE Standing'
    <3>1. Finish(s)
      BY <2>2, CommitFinishes
    <3>2. ASSUME NEW t \in Sessions, t \notin overtaken' PROVE DecisionHolds(work[t])'
      <4>1. CASE t = s
        BY <3>1, <4>1 DEF Finish, TypeOK, DecisionHolds, Idle
      <4>2. CASE t # s
        <5>1. t \notin overtaken /\ ~Overtakes(work[t]) /\ work'[t] = work[t]
          BY <3>1, <3>2, <4>2 DEF Finish, TypeOK
        <5> QED BY <5>1, StandsUntilOvertaken DEF Standing
      <4> QED BY <4>1, <4>2
    <3> QED BY <3>2 DEF Standing
  <2> QED BY <2>1, <2>2, CalendarDecides, NumberingDecides, JournalsDecide DEF Next
<1> QED BY <1>1, <1>2, TypeCorrect, PTL DEF Spec

\* A commit whose decision still holds keeps the promise of the book.
LEMMA SoundCommitKeepsBook ==
  ASSUME TypeOK, BookSound, NEW s \in Sessions, Commit(s), DecisionHolds(work[s])
  PROVE  /\ Book!BookNext \/ UNCHANGED <<Postings, period>>
         /\ BookSound'
<1> DEFINE w == work[s]
<1>0. w \in Work /\ DecisionHolds(w)
  BY DEF TypeOK
<1>a. ASSUME NEW e \in Entries, NEW row \in LiveRow, UNCHANGED period,
             entry' = [entry EXCEPT ![e] = row], NumberFree(row.number, e),
             entry[e].status # "POSTED",
             row.status = "POSTED" => PostingSound(row) /\ period[row.date] = "OPEN"
      PROVE  /\ Book!BookNext \/ UNCHANGED <<Postings, period>>
             /\ BookSound'
  <2> DEFINE r == [number |-> row.number, date |-> row.date, lines |-> row.lines]
  <2>1. \A f \in Entries : entry'[f] = IF f = e THEN row ELSE entry[f]
    BY <1>a DEF TypeOK
  <2>2. BookSound'
    BY <1>a, <2>1 DEF BookSound, PostingSound
  <2>3. CASE row.status = "POSTED"
    <3>1. Postings' = Postings \cup {r}
      BY <1>a, <2>1, <2>3 DEF Postings, Face
    <3>2. \A q \in Postings : q.number # r.number
      BY <1>a, <2>3 DEF Postings, Face, NumberFree, PostingSound
    <3>3. r \in Book!Posting
      BY <1>a, <2>3, LedgerConstants DEF Book!Posting, LiveRow, PostingSound
    <3>4. r.lines \in Balanced /\ period[r.date] = "OPEN"
      BY <1>a, <2>3 DEF PostingSound
    <3>5. Book!Append
      BY <1>a, <3>1, <3>2, <3>3, <3>4 DEF Book!Append
    <3> QED BY <2>2, <3>5 DEF Book!BookNext
  <2>4. CASE row.status # "POSTED"
    BY <1>a, <2>1, <2>2, <2>4 DEF Postings, Face
  <2> QED BY <2>3, <2>4
<1>b. UNCHANGED entry => BookSound' /\ UNCHANGED Postings
  BY DEF BookSound, PostingSound, Postings, Face
<1>1. CASE CommitInsert(s)
  <2>1. w.new \in LiveRow
    BY <1>0, <1>1, WorkShape DEF CommitInsert
  <2>2. w.new.status = "POSTED" => PostingSound(w.new) /\ period[w.new.date] = "OPEN"
    BY <1>0, <1>1, LedgerConstants DEF CommitInsert, DecisionHolds, BookSound, PostingSound
  <2> QED BY <1>1, <2>1, <2>2, <1>a DEF CommitInsert
<1>2. CASE CommitUpdate(s)
  <2>1. w.id \in Entries /\ w.new \in LiveRow
    BY <1>0, <1>2, WorkShape DEF CommitUpdate
  <2>2. /\ entry[w.id].status = "DRAFT"
        /\ w.new.status = "POSTED" => PostingSound(w.new) /\ period[w.new.date] = "OPEN"
        /\ Merge(entry[w.id], w.new, w.cols) = w.new
    BY <1>0, <1>2 DEF CommitUpdate, DecisionHolds
  <2>3. /\ entry' = [entry EXCEPT ![w.id] = w.new] /\ NumberFree(w.new.number, w.id)
        /\ UNCHANGED period
    BY <1>2, <2>2 DEF CommitUpdate
  <2> QED BY <2>1, <2>2, <2>3, <1>a
<1>3. CASE CommitDelete(s)
  <2>1. w.id \in Entries /\ entry[w.id].status = "DRAFT"
    BY <1>0, <1>3, WorkShape DEF CommitDelete, DecisionHolds
  <2>2. \A f \in Entries : entry'[f] = IF f = w.id THEN Absent ELSE entry[f]
    BY <1>3, <2>1 DEF CommitDelete, TypeOK
  <2>3. UNCHANGED Postings
    BY <2>1, <2>2 DEF Postings, Face, Absent
  <2>4. BookSound'
    BY <2>2 DEF BookSound, PostingSound, Absent
  <2> QED BY <1>3, <2>3, <2>4 DEF CommitDelete
<1>4. CASE CommitPeriod(s)
  <2>1. w.id \in Periods /\ w.new \in PeriodStatus /\ TransitionAllowed(period[w.id], w.new)
    BY <1>0, <1>4, WorkShape DEF CommitPeriod, DecisionHolds
  <2>2. UNCHANGED Postings /\ BookSound'
    BY <1>4, <1>b DEF CommitPeriod
  <2>3. Book!Move
    BY <1>4, <2>1, <2>2
       DEF CommitPeriod, Book!Move, Book!GateStatus, TransitionAllowed, PeriodStatus
  <2> QED BY <2>2, <2>3 DEF Book!BookNext
<1>5. CASE CommitGenerate(s)
  <2>1. w.new \in {"OPEN", "CLOSED"} /\ PeriodsOf(w.id) \in SUBSET Periods
    BY <1>0, <1>5, WorkShape DEF CommitGenerate, PeriodsOf
  <2>2. UNCHANGED Postings /\ BookSound'
    BY <1>5, <1>b DEF CommitGenerate
  <2>3. Book!Generate
    BY <1>5, <2>1, <2>2 DEF CommitGenerate, PeriodNumbersFree, Book!Generate
  <2> QED BY <2>2, <2>3 DEF Book!BookNext
<1>6. CASE CommitYear(s) \/ CommitSequence(s)
  BY <1>6, <1>b DEF CommitYear, CommitSequence
<1> QED BY <1>1, <1>2, <1>3, <1>4, <1>5, <1>6 DEF Commit

\* However many calls overlap, a commit that nothing overtook appends one balanced, freshly
\* numbered posting to an open period, moves or generates periods as allowed, or leaves the
\* book and the calendar alone.  The constraints on entry numbers and period numbers stand in
\* for what the call read of the other rows.
THEOREM OvertakenAloneBreak == Spec => OnlyOvertakenBreakBook
<1> DEFINE Keeps == BookSound /\ (\A s \in overtaken : ~Commits(s)) =>
                      Book!BookNext \/ UNCHANGED <<Postings, period>>
<1>1. TypeOK /\ Standing /\ [Next]_vars => [Keeps]_vars
  <2> SUFFICES ASSUME TypeOK, Standing, [Next]_vars, BookSound,
                      \A s \in overtaken : ~Commits(s)
               PROVE  Book!BookNext \/ UNCHANGED <<Postings, period>>
    OBVIOUS
  <2>1. CASE ~ \E s \in Sessions : Commit(s)
    BY <2>1, OnlyCommitsWrite DEF db, Postings, Face
  <2>2. ASSUME NEW s \in Sessions, Commit(s)
        PROVE  Book!BookNext \/ UNCHANGED <<Postings, period>>
    <3>1. Commits(s)
      BY <2>2, CommitFinishes DEF Commits, Finish, TypeOK
    <3>2. DecisionHolds(work[s])
      BY <3>1 DEF Standing
    <3> QED BY <2>2, <3>2, SoundCommitKeepsBook
  <2> QED BY <2>1, <2>2
<1> QED BY <1>1, TypeCorrect, DecisionsStandUntilOvertaken, PTL DEF Spec, OnlyOvertakenBreakBook

\* However many calls overlap, a year is closed over periods that are all closed or locked,
\* unless one of them was reopened while close_year was under way.
THEOREM YearClosesOverClosed == Spec => YearClosesLast
<1> DEFINE ClosesLast ==
      \A y \in Years :
        /\ year[y] \in {"DRAFT", "OPEN"} /\ year'[y] = "CLOSED"
        /\ \A s \in overtaken : ~Commits(s)
        => PeriodsOf(y) # {} /\ \A p \in PeriodsOf(y) : period[p] \in {"CLOSED", "LOCKED"}
<1>1. TypeOK /\ Standing /\ [Next]_vars => [ClosesLast]_vars
  <2> SUFFICES ASSUME TypeOK, Standing, [Next]_vars, \A s \in overtaken : ~Commits(s),
                      NEW y \in Years, year[y] \in {"DRAFT", "OPEN"}, year'[y] = "CLOSED"
               PROVE  /\ PeriodsOf(y) # {}
                      /\ \A p \in PeriodsOf(y) : period[p] \in {"CLOSED", "LOCKED"}
    OBVIOUS
  <2>1. CASE ~ \E s \in Sessions : Commit(s)
    BY <2>1, OnlyCommitsWrite DEF db
  <2>2. ASSUME NEW s \in Sessions, Commit(s)
        PROVE  PeriodsOf(y) # {} /\ \A p \in PeriodsOf(y) : period[p] \in {"CLOSED", "LOCKED"}
    <3>1. Commits(s)
      BY <2>2, CommitFinishes DEF Commits, Finish, TypeOK
    <3>2. work[s] \in Work /\ DecisionHolds(work[s])
      BY <3>1 DEF Standing, TypeOK
    <3>3. CASE CommitYear(s)
      BY <3>2, <3>3, WorkShape DEF CommitYear, DecisionHolds, TypeOK
    <3>4. CASE CommitGenerate(s)
      BY <3>2, <3>4, WorkShape DEF CommitGenerate, TypeOK
    <3>5. CASE UNCHANGED year
      BY <3>5
    <3> QED BY <2>2, <3>3, <3>4, <3>5
            DEF Commit, CommitInsert, CommitUpdate, CommitDelete, CommitPeriod, CommitSequence
  <2> QED BY <2>1, <2>2
<1> QED BY <1>1, TypeCorrect, DecisionsStandUntilOvertaken, PTL DEF Spec, YearClosesLast

-------------------------------------------------------------------------------
(* The sequence.  A call that issues a number writes the one after it.     *)

\* The row carries the number read from the sequence, and the sequence moves past it; a call
\* that issues none writes none, and deactivating the sequence leaves next_number alone.
IssuesNext(w) ==
  /\ w.op \in {"insert", "update"} /\ w.issue # 0 =>
       w.new.number = next /\ w.issue = next + 1
  /\ w.op = "insert" /\ w.issue = 0 => w.new.number = 0
  /\ w.op = "update" /\ w.issue = 0 => "number" \notin w.cols
  /\ w.op = "sequence" => IF w.active THEN SequenceEdits # {} ELSE w.next = 0

\* The invariant of numbering: a call issues the next number until another moves the sequence.
Issuing == \A s \in Sessions : s \notin outrun => IssuesNext(work[s])

\* Deciding to issue the next number leaves the others as they are.
LEMMA BeginIssue ==
  ASSUME TypeOK, Issuing, NEW s \in Sessions, NEW w, Begin(s, w), IssuesNext(w)
  PROVE  Issuing'
<1>1. UNCHANGED <<next, outrun>>
  BY DEF Begin, db
<1>2. \A t \in Sessions : work'[t] = work[t] \/ work'[t] = w
  BY DEF Begin, TypeOK
<1>3. \A t \in Sessions : \A v : IssuesNext(v) /\ work'[t] = v => IssuesNext(work[t])'
  BY <1>1 DEF IssuesNext
<1> QED BY <1>1, <1>2, <1>3 DEF Issuing

\* The calls on journal entries issue the next number or none.
LEMMA JournalsIssue ==
  ASSUME TypeOK, Issuing, NEW s \in Sessions, Journals(s)
  PROVE  Issuing'
<1>1. ASSUME NEW p \in Periods, NEW l \in Inputs, CreateDraftJournal(s, p, l)
      PROVE  Issuing'
  <2> DEFINE w == [op |-> "insert", issue |-> 0,
                   new |-> [status |-> "DRAFT", number |-> 0, date |-> p, lines |-> l,
                            source |-> Nil]]
  <2>1. IssuesNext(w)
    BY DEF IssuesNext
  <2>2. Begin(s, w)
    BY <1>1 DEF CreateDraftJournal
  <2> QED BY <2>1, <2>2, BeginIssue
<1>2. ASSUME NEW e \in Entries, NEW p \in Periods, NEW l \in Inputs,
             UpdateDraftJournal(s, e, p, l)
      PROVE  Issuing'
  <2> DEFINE new == [entry[e] EXCEPT !.date = p, !.lines = l, !.source = Nil]
  <2> DEFINE w == [op |-> "update", id |-> e, new |-> new, issue |-> 0,
                   cols |-> Dirty(entry[e], new) \cup {"lines"}]
  <2>1. entry[e] \in LiveRow /\ Begin(s, w)
    BY <1>2, LiveIsLive DEF UpdateDraftJournal, TypeOK
  <2>2. new.number = entry[e].number
    BY <2>1 DEF LiveRow
  <2>3. "number" \notin w.cols
    <3> HIDE DEF new
    <3> QED BY <2>2 DEF Dirty
  <2>4. IssuesNext(w)
    <3> HIDE DEF new
    <3> QED BY <2>3 DEF IssuesNext
  <2> QED BY <2>1, <2>4, BeginIssue
<1>3. ASSUME NEW e \in Entries, DeleteDraftJournal(s, e) PROVE Issuing'
  <2>1. IssuesNext([op |-> "delete", id |-> e])
    BY DEF IssuesNext
  <2> QED BY <1>3, <2>1, BeginIssue DEF DeleteDraftJournal
<1>4. ASSUME NEW e \in Entries, PostJournal(s, e) PROVE Issuing'
  <2> DEFINE fresh == entry[e].number = 0
  <2> DEFINE new == [entry[e] EXCEPT !.status = "POSTED",
                                     !.number = IF fresh THEN next ELSE @]
  <2> DEFINE w == [op |-> "update", id |-> e, new |-> new, cols |-> Dirty(entry[e], new),
                   issue |-> IF fresh THEN next + 1 ELSE 0]
  <2>1. entry[e] \in LiveRow /\ Begin(s, w)
    BY <1>4, LiveIsLive DEF PostJournal, TypeOK
  <2>2. new.number = IF fresh THEN next ELSE entry[e].number
    <3> HIDE DEF fresh
    <3> QED BY <2>1 DEF LiveRow
  <2>3. w.issue = (IF fresh THEN next + 1 ELSE 0) /\ next \in Nat
    BY LedgerConstants DEF TypeOK
  <2>4. ~fresh => "number" \notin Dirty(entry[e], new)
    <3> HIDE DEF new, fresh
    <3> QED BY <2>2 DEF Dirty
  <2>5. IssuesNext(w)
    <3> HIDE DEF new, fresh
    <3> QED BY <2>2, <2>3, <2>4 DEF IssuesNext
  <2> QED BY <2>1, <2>5, BeginIssue
<1>5. ASSUME NEW e \in Entries, NEW p \in Periods, NEW a \in BOOLEAN,
             ReverseJournal(s, e, p, a)
      PROVE  Issuing'
  <2> DEFINE new == [status |-> IF a THEN "POSTED" ELSE "DRAFT", number |-> next,
                     date |-> p, lines |-> Mirror[entry[e].lines], source |-> e]
  <2> DEFINE w == [op |-> "insert", issue |-> next + 1, new |-> new]
  <2>1. Begin(s, w) /\ next \in Nat
    BY <1>5, LedgerConstants DEF ReverseJournal, TypeOK
  <2>2. IssuesNext(w)
    BY <2>1 DEF IssuesNext
  <2> QED BY <2>1, <2>2, BeginIssue
<1> QED BY <1>1, <1>2, <1>3, <1>4, <1>5 DEF Journals

\* However many calls overlap, a call issues the next number until the sequence moves.
LEMMA IssuesUntilOutrun == Spec => []Issuing
<1>1. Init => Issuing
  BY DEF Init, Issuing, IssuesNext, Idle
<1>2. TypeOK /\ Issuing /\ [Next]_vars => Issuing'
  <2> SUFFICES ASSUME TypeOK, Issuing, [Next]_vars PROVE Issuing'
    OBVIOUS
  <2>1. CASE UNCHANGED vars
    <3>1. UNCHANGED <<next, work, outrun>>
      BY <2>1 DEF vars
    <3> QED BY <3>1 DEF Issuing, IssuesNext
  <2>2. ASSUME NEW s \in Sessions, Calendar(s) \/ Numbering(s) PROVE Issuing'
    <3>1. PICK w : Begin(s, w) /\ IssuesNext(w)
      <4>1. \A w : w.op \notin {"insert", "update", "sequence"} => IssuesNext(w)
        BY DEF IssuesNext
      <4>2. IssuesNext([op |-> "sequence", next |-> 0, active |-> FALSE])
        BY DEF IssuesNext
      <4>3. \A n \in SequenceEdits : \A m :
              IssuesNext([op |-> "sequence", next |-> m, active |-> TRUE])
        BY DEF IssuesNext
      <4> QED BY <2>2, <4>1, <4>2, <4>3
              DEF Calendar, CreateFiscalYear, CloseYear, GeneratePeriods, ChangePeriodStatus,
                  Numbering, UpdateDocumentSequence, DeactivateDocumentSequence
    <3> QED BY <3>1, BeginIssue
  <2>3. ASSUME NEW s \in Sessions, Commit(s) \/ Abort(s) PROVE Issuing'
    <3>1. Finish(s)
      BY <2>3, CommitFinishes
    <3>2. ASSUME NEW t \in Sessions, t \notin outrun' PROVE IssuesNext(work[t])'
      <4>1. CASE t = s
        BY <3>1, <4>1 DEF Finish, TypeOK, IssuesNext, Idle
      <4>2. CASE t # s
        <5>1. t \notin outrun /\ ~Outruns(work[t]) /\ work'[t] = work[t]
          BY <3>1, <3>2, <4>2 DEF Finish, TypeOK
        <5> QED BY <5>1 DEF Issuing, IssuesNext, Outruns, Issues
      <4> QED BY <4>1, <4>2
    <3> QED BY <3>2 DEF Issuing
  <2> QED BY <2>1, <2>2, <2>3, JournalsIssue DEF Next
<1> QED BY <1>1, <1>2, TypeCorrect, PTL DEF Spec

\* However many calls overlap, the sequence falls behind a number in use only when an
\* administrator sets it there or a call commits a number the sequence has moved on from.
THEOREM SequenceOnlyOutrun == Spec => SequenceFallsBehind
<1>1. TypeOK /\ Issuing /\ [Next]_vars => [FallsBehindOnly]_vars
  <2> SUFFICES ASSUME TypeOK, Issuing, [Next]_vars, SequenceAhead,
                      ~ \E s \in Sessions : /\ Commits(s)
                                            /\ \/ s \in outrun
                                               \/ work[s].op = "sequence" /\ work[s].active
               PROVE  SequenceAhead'
    BY DEF FallsBehindOnly
  <2>1. CASE ~ \E s \in Sessions : Commit(s)
    BY <2>1, OnlyCommitsWrite DEF db, SequenceAhead
  <2>2. ASSUME NEW s \in Sessions, Commit(s) PROVE SequenceAhead'
    <3> DEFINE w == work[s]
    <3>0. /\ w \in Work /\ next \in 1 .. MaxNumber + 1 /\ MaxNumber \in Nat
          /\ IssuesNext(w) /\ ~(w.op = "sequence" /\ w.active)
      <4>1. Commits(s)
        BY <2>2, CommitFinishes DEF Commits, Finish, TypeOK
      <4> QED BY <4>1, LedgerConstants DEF TypeOK, Issuing
    <3>1. \A e \in Entries : entry[e].number \in Nat /\ entry[e].number < next
      BY LedgerConstants DEF TypeOK, Row, LiveRow, Absent, SequenceAhead
    <3>a. ASSUME NEW e \in Entries, NEW row \in LiveRow, NEW issue \in 0 .. MaxNumber + 1,
                 entry' = [entry EXCEPT ![e] = row], WriteNext(issue),
                 IF issue = 0 THEN row.number < next
                 ELSE row.number <= next /\ issue = next + 1
          PROVE  SequenceAhead'
      <4>1. row.number \in Nat /\ next' \in Nat /\ next <= next' /\ row.number < next'
        BY <3>0, <3>a DEF WriteNext, LiveRow
      <4>2. \A f \in Entries : entry'[f] = IF f = e THEN row ELSE entry[f]
        BY <3>a DEF TypeOK
      <4> QED BY <3>0, <3>1, <4>1, <4>2 DEF SequenceAhead
    <3>2. CASE CommitInsert(s)
      <4>1. w.new \in LiveRow /\ w.issue \in 0 .. MaxNumber + 1 /\ WriteNext(w.issue)
        BY <3>0, <3>2, WorkShape DEF CommitInsert
      <4>2. IF w.issue = 0 THEN w.new.number < next
            ELSE w.new.number <= next /\ w.issue = next + 1
        BY <3>0, <3>2 DEF CommitInsert, IssuesNext
      <4> QED BY <3>2, <4>1, <4>2, <3>a DEF CommitInsert
    <3>3. CASE CommitUpdate(s)
      <4> DEFINE row == Merge(entry[w.id], w.new, w.cols)
      <4>1. w.id \in Entries /\ row \in LiveRow /\ w.issue \in 0 .. MaxNumber + 1
        BY <3>0, <3>3, WorkShape, LiveIsLive, MergeType DEF CommitUpdate, TypeOK
      <4>2. row.number = IF "number" \in w.cols THEN w.new.number ELSE entry[w.id].number
        BY DEF Merge
      <4>3. IF w.issue = 0 THEN row.number < next
            ELSE row.number <= next /\ w.issue = next + 1
        BY <3>0, <3>1, <3>3, <4>1, <4>2 DEF CommitUpdate, IssuesNext
      <4>4. entry' = [entry EXCEPT ![w.id] = row] /\ WriteNext(w.issue)
        BY <3>3 DEF CommitUpdate
      <4> HIDE DEF row
      <4> QED BY <4>1, <4>3, <4>4, <3>a
    <3>4. CASE CommitDelete(s)
      <4>1. \A f \in Entries : entry'[f] = entry[f] \/ entry'[f] = Absent
        BY <3>4 DEF CommitDelete, TypeOK
      <4> QED BY <3>0, <3>1, <3>4, <4>1 DEF CommitDelete, SequenceAhead, Absent
    <3>5. CASE CommitSequence(s)
      BY <3>0, <3>5, WorkShape DEF CommitSequence, IssuesNext, WriteNext, SequenceAhead
    <3>6. CASE UNCHANGED <<entry, next>>
      BY <3>6 DEF SequenceAhead
    <3> QED BY <2>2, <3>2, <3>3, <3>4, <3>5, <3>6
            DEF Commit, CommitPeriod, CommitGenerate, CommitYear
  <2> QED BY <2>1, <2>2
<1> QED BY <1>1, TypeCorrect, IssuesUntilOutrun, PTL DEF Spec, SequenceFallsBehind

-------------------------------------------------------------------------------
(* One session.  Calls that do not overlap are never overtaken.            *)

\* Calls do not overlap when there is one session.
OneSession == \A s, t \in Sessions : s = t
NothingOverlaps == overtaken = {} /\ outrun = {}

\* A commit overtakes the calls of other sessions, and there are none.
LEMMA OneSessionNeverOverlaps == ASSUME OneSession PROVE Spec => []NothingOverlaps
<1>1. Init => NothingOverlaps
  BY DEF Init, NothingOverlaps
<1>2. NothingOverlaps /\ [Next]_vars => NothingOverlaps'
  <2> SUFFICES ASSUME NothingOverlaps, [Next]_vars PROVE NothingOverlaps'
    OBVIOUS
  <2>1. CASE UNCHANGED vars
    BY <2>1 DEF vars, NothingOverlaps
  <2>2. ASSUME NEW s \in Sessions, Commit(s) \/ Abort(s) PROVE NothingOverlaps'
    <3>1. Sessions \ {s} = {}
      BY DEF OneSession
    <3> QED BY <2>2, <3>1, CommitFinishes DEF Finish, NothingOverlaps
  <2>3. ASSUME NEW s \in Sessions, Calendar(s) \/ Numbering(s) \/ Journals(s)
        PROVE  NothingOverlaps'
    <3>1. UNCHANGED <<overtaken, outrun>>
      BY <2>3
         DEF Calendar, CreateFiscalYear, CloseYear, GeneratePeriods, ChangePeriodStatus,
             Numbering, UpdateDocumentSequence, DeactivateDocumentSequence, Journals,
             CreateDraftJournal, UpdateDraftJournal, DeleteDraftJournal, PostJournal,
             ReverseJournal, Begin
    <3> QED BY <3>1 DEF NothingOverlaps
  <2> QED BY <2>1, <2>2, <2>3 DEF Next
<1> QED BY <1>1, <1>2, PTL DEF Spec

\* With one session every decision still holds at its commit, and every posted entry is
\* balanced and numbered.
DecisionsHold == BookSound /\ \A s \in Sessions : DecisionHolds(work[s])

LEMMA DecisionsStand == ASSUME OneSession PROVE Spec => []DecisionsHold
<1>1. Init => BookSound
  BY DEF Init, BookSound, Absent
<1>2. TypeOK /\ Standing /\ NothingOverlaps /\ BookSound /\ [Next]_vars => BookSound'
  <2> SUFFICES ASSUME TypeOK, Standing, NothingOverlaps, BookSound, [Next]_vars
               PROVE  BookSound'
    OBVIOUS
  <2>1. CASE ~ \E s \in Sessions : Commit(s)
    BY <2>1, OnlyCommitsWrite DEF db, BookSound
  <2>2. ASSUME NEW s \in Sessions, Commit(s) PROVE BookSound'
    BY <2>2, SoundCommitKeepsBook DEF Standing, NothingOverlaps
  <2> QED BY <2>1, <2>2
<1>3. Standing /\ NothingOverlaps /\ BookSound => DecisionsHold
  BY DEF Standing, NothingOverlaps, DecisionsHold
<1> QED BY <1>1, <1>2, <1>3, TypeCorrect, DecisionsStandUntilOvertaken,
           OneSessionNeverOverlaps, PTL DEF Spec

\* With one session the services keep the promise of module GeneralLedger: the book of
\* posted entries only grows, by one balanced and freshly numbered posting at a time, into
\* an open period; and no period leaves LOCKED.
THEOREM SerialImplementsBook == ASSUME OneSession PROVE Spec => ImplementsBook
<1>1. Init => Book!BookInit
  BY DEF Init, Book!BookInit, Postings, Absent
<1>2. TypeOK /\ DecisionsHold /\ [Next]_vars => [Book!BookNext]_<<Postings, period>>
  <2> SUFFICES ASSUME TypeOK, DecisionsHold, [Next]_vars
               PROVE  Book!BookNext \/ UNCHANGED <<Postings, period>>
    OBVIOUS
  <2>1. CASE ~ \E s \in Sessions : Commit(s)
    BY <2>1, OnlyCommitsWrite DEF db, Postings, Face
  <2>2. ASSUME NEW s \in Sessions, Commit(s)
        PROVE  Book!BookNext \/ UNCHANGED <<Postings, period>>
    BY <2>2, SoundCommitKeepsBook DEF DecisionsHold
  <2> QED BY <2>1, <2>2
<1> QED BY <1>1, <1>2, TypeCorrect, DecisionsStand, PTL DEF Spec, ImplementsBook, Book!BookSpec

\* With one session, and as long as no administrator moves the sequence, it stays ahead of
\* every number in use: the next posting never collides.
THEOREM SerialSequenceAhead ==
  ASSUME OneSession, SequenceEdits = {} PROVE Spec => []SequenceAhead
<1>1. Init => SequenceAhead
  BY DEF Init, SequenceAhead, Absent
<1>2. NothingOverlaps /\ Issuing /\ FallsBehindOnly /\ SequenceAhead => SequenceAhead'
  BY SequenceEdits = {} DEF NothingOverlaps, Issuing, IssuesNext, FallsBehindOnly
<1>3. SequenceAhead /\ UNCHANGED vars => SequenceAhead'
  BY DEF SequenceAhead, vars
<1> QED BY <1>1, <1>2, <1>3, SequenceOnlyOutrun, OneSessionNeverOverlaps, IssuesUntilOutrun, PTL
        DEF Spec, SequenceFallsBehind

-------------------------------------------------------------------------------
(* Reversals.  A reversal names an entry that is posted, and one session   *)
(* writes drafts only, so what a reversal mirrors never moves.             *)

\* A reversal mirrors a posted entry that is no reversal itself; so does one about to be written.
Mirrors(r) ==
  r.source # Nil =>
    LET src == entry[r.source]
    IN src.status = "POSTED" /\ src.source = Nil /\ r.lines = Mirror[src.lines]
WriteMirrors(w) ==
  /\ w.op = "insert" => Mirrors(w.new)
  /\ w.op = "update" => Mirrors(Merge(entry[w.id], w.new, w.cols))

\* The inductive invariant of reversals.
MirrorsStand == ReversalMirrorsSource /\ \A s \in Sessions : WriteMirrors(work[s])

\* Deciding to write a sound row leaves the others as they are.
LEMMA BeginMirrors ==
  ASSUME TypeOK, MirrorsStand, NEW s \in Sessions, NEW w, Begin(s, w), WriteMirrors(w)
  PROVE  MirrorsStand'
<1>1. UNCHANGED entry
  BY DEF Begin, db
<1>2. \A t \in Sessions : work'[t] = work[t] \/ work'[t] = w
  BY DEF Begin, TypeOK
<1>3. ReversalMirrorsSource'
  BY <1>1 DEF MirrorsStand, ReversalMirrorsSource
<1>4. ASSUME NEW t \in Sessions PROVE WriteMirrors(work[t])'
  <2>1. \A v : WriteMirrors(v) /\ work'[t] = v => WriteMirrors(work[t])'
    BY <1>1 DEF WriteMirrors, Mirrors
  <2>2. CASE work'[t] = work[t]
    BY <2>1, <2>2 DEF MirrorsStand
  <2>3. CASE work'[t] = w
    BY <2>1, <2>3
  <2> QED BY <1>2, <2>2, <2>3
<1> QED BY <1>3, <1>4 DEF MirrorsStand

\* The calls that read a journal entry: the row each means to write is a mirror or names nothing.
LEMMA JournalsMirror ==
  ASSUME TypeOK, MirrorsStand, NEW s \in Sessions, Journals(s)
  PROVE  MirrorsStand'
<1>1. ASSUME NEW p \in Periods, NEW l \in Inputs, CreateDraftJournal(s, p, l)
      PROVE  MirrorsStand'
  <2> DEFINE w == [op |-> "insert", issue |-> 0,
                   new |-> [status |-> "DRAFT", number |-> 0, date |-> p, lines |-> l,
                            source |-> Nil]]
  <2>1. WriteMirrors(w)
    BY DEF WriteMirrors, Mirrors
  <2>2. Begin(s, w)
    BY <1>1 DEF CreateDraftJournal
  <2> QED BY <2>1, <2>2, BeginMirrors
<1>2. ASSUME NEW e \in Entries, NEW p \in Periods, NEW l \in Inputs,
             UpdateDraftJournal(s, e, p, l)
      PROVE  MirrorsStand'
  <2> DEFINE new == [entry[e] EXCEPT !.date = p, !.lines = l, !.source = Nil]
  <2> DEFINE w == [op |-> "update", id |-> e, new |-> new, issue |-> 0,
                   cols |-> Dirty(entry[e], new) \cup {"lines"}]
  <2>1. entry[e] \in LiveRow /\ Begin(s, w)
    BY <1>2, LiveIsLive DEF UpdateDraftJournal, TypeOK
  <2>2. new.source = Nil
    BY <2>1 DEF LiveRow
  <2>3. Merge(entry[e], new, w.cols).source = Nil
    <3> HIDE DEF new
    <3> QED BY <2>2 DEF Merge, Dirty, Columns
  <2>4. WriteMirrors(w)
    BY <2>3 DEF WriteMirrors, Mirrors
  <2> QED BY <2>1, <2>4, BeginMirrors
<1>3. ASSUME NEW e \in Entries, DeleteDraftJournal(s, e) PROVE MirrorsStand'
  <2>1. WriteMirrors([op |-> "delete", id |-> e])
    BY DEF WriteMirrors
  <2> QED BY <1>3, <2>1, BeginMirrors DEF DeleteDraftJournal
<1>4. ASSUME NEW e \in Entries, PostJournal(s, e) PROVE MirrorsStand'
  <2> DEFINE fresh == entry[e].number = 0
  <2> DEFINE new == [entry[e] EXCEPT !.status = "POSTED",
                                     !.number = IF fresh THEN next ELSE @]
  <2> DEFINE w == [op |-> "update", id |-> e, new |-> new, cols |-> Dirty(entry[e], new),
                   issue |-> IF fresh THEN next + 1 ELSE 0]
  <2>1. entry[e] \in LiveRow /\ Begin(s, w)
    BY <1>4, LiveIsLive DEF PostJournal, TypeOK
  <2>2. new.source = entry[e].source /\ new.lines = entry[e].lines
    BY <2>1 DEF LiveRow
  <2>3. /\ Merge(entry[e], new, w.cols).source = entry[e].source
        /\ Merge(entry[e], new, w.cols).lines = entry[e].lines
    <3> HIDE DEF new
    <3> QED BY <2>2 DEF Merge
  <2>4. WriteMirrors(w)
    <3> HIDE DEF new
    <3> QED BY <2>3 DEF WriteMirrors, Mirrors, MirrorsStand, ReversalMirrorsSource
  <2> QED BY <2>1, <2>4, BeginMirrors
<1>5. ASSUME NEW e \in Entries, NEW p \in Periods, NEW a \in BOOLEAN,
             ReverseJournal(s, e, p, a)
      PROVE  MirrorsStand'
  <2> DEFINE new == [status |-> IF a THEN "POSTED" ELSE "DRAFT", number |-> next,
                     date |-> p, lines |-> Mirror[entry[e].lines], source |-> e]
  <2> DEFINE w == [op |-> "insert", issue |-> next + 1, new |-> new]
  <2>1. Begin(s, w) /\ entry[e].status = "POSTED" /\ entry[e].source = Nil
    BY <1>5 DEF ReverseJournal
  <2>2. WriteMirrors(w)
    BY <2>1 DEF WriteMirrors, Mirrors
  <2> QED BY <2>1, <2>2, BeginMirrors
<1> QED BY <1>1, <1>2, <1>3, <1>4, <1>5 DEF Journals

\* With one session a reversal, draft or posted, stays the mirror of the posted entry it names,
\* through every edit, deletion, posting and further reversal.
THEOREM SerialReversalMirrors == ASSUME OneSession PROVE Spec => []ReversalMirrorsSource
<1>1. Init => MirrorsStand
  BY DEF Init, MirrorsStand, ReversalMirrorsSource, WriteMirrors, Absent, Idle
<1>2. TypeOK /\ DecisionsHold /\ MirrorsStand /\ [Next]_vars => MirrorsStand'
  <2> SUFFICES ASSUME TypeOK, DecisionsHold, MirrorsStand, [Next]_vars PROVE MirrorsStand'
    OBVIOUS
  <2>1. CASE UNCHANGED vars
    <3>1. ReversalMirrorsSource'
      BY <2>1 DEF vars, MirrorsStand, ReversalMirrorsSource
    <3>2. ASSUME NEW s \in Sessions PROVE WriteMirrors(work[s])'
      BY <2>1 DEF vars, MirrorsStand, WriteMirrors, Mirrors
    <3> QED BY <3>1, <3>2 DEF MirrorsStand
  <2>2. ASSUME NEW s \in Sessions, Calendar(s) \/ Numbering(s) PROVE MirrorsStand'
    <3>1. PICK w : Begin(s, w) /\ WriteMirrors(w)
      <4>1. \A w : w.op \notin {"insert", "update"} => WriteMirrors(w)
        BY DEF WriteMirrors
      <4> QED BY <2>2, <4>1
              DEF Calendar, CreateFiscalYear, CloseYear, GeneratePeriods, ChangePeriodStatus,
                  Numbering, UpdateDocumentSequence, DeactivateDocumentSequence
    <3> QED BY <3>1, BeginMirrors
  <2>3. ASSUME NEW s \in Sessions, Commit(s) \/ Abort(s) PROVE MirrorsStand'
    <3> DEFINE w == work[s]
    <3>0. w \in Work /\ DecisionHolds(w) /\ WriteMirrors(w)
      BY DEF TypeOK, DecisionsHold, MirrorsStand
    <3>1. \A t \in Sessions : WriteMirrors(work[t])'
      <4>1. Finish(s)
        BY <2>3 DEF Abort, Commit, CommitInsert, CommitUpdate, CommitDelete, CommitPeriod,
                    CommitGenerate, CommitYear, CommitSequence
      <4>2. \A t \in Sessions : work'[t] = Idle
        BY <4>1, OneSession DEF OneSession, Finish, TypeOK
      <4> QED BY <4>2 DEF WriteMirrors, Idle
    <3>a. ASSUME NEW e \in Entries, NEW row \in Row, entry' = [entry EXCEPT ![e] = row],
                 entry[e].status # "POSTED", Mirrors(row)
          PROVE  ReversalMirrorsSource'
      <4>1. \A f \in Entries : entry'[f] = IF f = e THEN row ELSE entry[f]
        BY <3>a DEF TypeOK
      <4>2. \A f \in Entries : Mirrors(entry'[f])
        BY <3>a, <4>1 DEF MirrorsStand, ReversalMirrorsSource, Mirrors
      <4>3. \A f \in Entries : entry'[f].source # Nil => entry'[f].source \in Entries
        BY <3>a, <4>1 DEF TypeOK, Row, LiveRow, Absent
      <4>4. \A f \in Entries : entry[f].status = "POSTED" => entry'[f] = entry[f]
        BY <3>a, <4>1
      <4> QED BY <4>2, <4>3, <4>4 DEF ReversalMirrorsSource, Mirrors
    <3>2. ReversalMirrorsSource'
      <4>1. CASE CommitInsert(s)
        BY <3>0, <4>1, <3>a, WorkShape DEF CommitInsert, WriteMirrors, Row
      <4>2. CASE CommitUpdate(s)
        <5> DEFINE row == Merge(entry[w.id], w.new, w.cols)
        <5>1. w.id \in Entries /\ row \in Row
          BY <3>0, <4>2, WorkShape, LiveIsLive, MergeType DEF CommitUpdate, TypeOK, Row
        <5>2. entry[w.id].status = "DRAFT" /\ Mirrors(row)
          BY <3>0, <4>2 DEF CommitUpdate, DecisionHolds, WriteMirrors
        <5>3. entry' = [entry EXCEPT ![w.id] = row]
          BY <4>2 DEF CommitUpdate
        <5> HIDE DEF row
        <5> QED BY <5>1, <5>2, <5>3, <3>a
      <4>3. CASE CommitDelete(s)
        <5>1. w.id \in Entries /\ entry[w.id].status = "DRAFT"
          BY <3>0, <4>3, WorkShape DEF CommitDelete, DecisionHolds
        <5>2. Absent \in Row /\ Mirrors(Absent)
          BY DEF Row, Absent, Mirrors
        <5> QED BY <4>3, <5>1, <5>2, <3>a DEF CommitDelete
      <4>4. CASE UNCHANGED entry
        BY <4>4 DEF MirrorsStand, ReversalMirrorsSource
      <4> QED BY <2>3, <4>1, <4>2, <4>3, <4>4
              DEF Commit, CommitPeriod, CommitGenerate, CommitYear, CommitSequence, Abort, db
    <3> QED BY <3>1, <3>2 DEF MirrorsStand
  <2> QED BY <2>1, <2>2, <2>3, JournalsMirror DEF Next
<1>3. MirrorsStand => ReversalMirrorsSource
  BY DEF MirrorsStand
<1> QED BY <1>1, <1>2, <1>3, TypeCorrect, DecisionsStand, PTL DEF Spec
================================================================================
