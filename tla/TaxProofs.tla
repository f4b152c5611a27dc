------------------------------- MODULE TaxProofs -------------------------------
(***************************************************************************)
(* What holds of TaxFiling for any periods, documents and number of        *)
(* returns.                                                                *)
(***************************************************************************)
EXTENDS TaxFiling, SequenceTheorems, SumTheorems

\* A row of tax_returns, whatever its status, figures and entry are drawn from.
Row(statuses, contents, sums, entries) ==
  [of : Obligations, status : statuses, frozen : BOOLEAN, content : contents, paid : sums,
   entry : entries]

\* The returns are a sequence of such rows.
ReturnsShaped ==
  \E statuses, contents, sums, entries : ret \in Seq(Row(statuses, contents, sums, entries))

\* A period a return was filed for is locked, or a lock was taken off it since.
FrozenLocked ==
  /\ locked \subseteq Periods /\ unlocked \subseteq Periods
  /\ \A r \in DOMAIN ret : ret[r].frozen => ret[r].of \in Periods \cap (locked \cup unlocked)

\* What every step leaves of the returns: their obligation, and all that was filed; one return
\* at most is filed by a step, for a period the step finds unlocked and locks.
ReturnsKept ==
  /\ \A q \in DOMAIN ret :
       /\ q \in DOMAIN ret'
       /\ ret'[q].of = ret[q].of
       /\ ret[q].frozen => ret'[q].frozen /\ ret'[q].content = ret[q].content
  /\ \E r : \A q \in DOMAIN ret' : ret'[q].frozen =>
       \/ q \in DOMAIN ret /\ ret[q].frozen
       \/ q = r /\ ret'[r].of \in Periods \ locked /\ ret'[r].of \in locked'

\* A new return is added at the end, and is not frozen.
LEMMA NewReturnKeeps ==
  ASSUME ReturnsShaped, NEW o \in Obligations, NEW status, NEW content,
         NewReturn(o, status, content)
  PROVE  ReturnsShaped' /\ ReturnsKept
<1> DEFINE row == [of |-> o, status |-> status, frozen |-> FALSE, content |-> content,
                   paid |-> 0, entry |-> NoEntry]
<1>1. PICK S, C, P, E : ret \in Seq(Row(S, C, P, E))
  BY DEF ReturnsShaped
<1> DEFINE Wider == Row(S \cup {status}, C \cup {content}, P \cup {0}, E \cup {NoEntry})
<1>2. row \in Wider /\ Row(S, C, P, E) \subseteq Wider
  BY DEF Row
<1>3. ret \in Seq(Wider)
  BY <1>1, <1>2, SeqMonotonic
<1>4. ret' = Append(ret, row)
  BY DEF NewReturn
<1> HIDE DEF row, Wider
<1>5. /\ ret' \in Seq(Wider)
      /\ Len(ret') = Len(ret) + 1
      /\ \A q \in 1 .. Len(ret) : ret'[q] = ret[q]
      /\ ret'[Len(ret) + 1] = row
  BY <1>2, <1>3, <1>4, AppendProperties
<1>6. ReturnsShaped'
  BY <1>5 DEF ReturnsShaped, Wider
<1>7. DOMAIN ret = 1 .. Len(ret) /\ DOMAIN ret' = 1 .. (Len(ret) + 1) /\ Len(ret) \in Nat
  BY <1>3, <1>5
<1>8. row.frozen = FALSE
  BY DEF row
<1>9. \A q \in DOMAIN ret' : ret'[q].frozen => q \in DOMAIN ret /\ ret[q].frozen
  BY <1>5, <1>7, <1>8
<1> QED
  BY <1>5, <1>6, <1>7, <1>9 DEF ReturnsKept

\* A row written over keeps the shape of the table.
LEMMA RowWritten ==
  ASSUME ReturnsShaped, NEW r \in DOMAIN ret, NEW status, NEW frozen \in BOOLEAN, NEW content,
         NEW paid, NEW entry,
         ret' = [ret EXCEPT ![r] = [of |-> ret[r].of, status |-> status, frozen |-> frozen,
                                    content |-> content, paid |-> paid, entry |-> entry]]
  PROVE  /\ ReturnsShaped'
         /\ DOMAIN ret' = DOMAIN ret
         /\ ret[r].of \in Obligations
         /\ ret'[r].of = ret[r].of /\ ret'[r].frozen = frozen /\ ret'[r].content = content
         /\ \A q \in DOMAIN ret \ {r} : ret'[q] = ret[q]
<1> DEFINE row == [of |-> ret[r].of, status |-> status, frozen |-> frozen, content |-> content,
                   paid |-> paid, entry |-> entry]
<1>1. PICK S, C, P, E : ret \in Seq(Row(S, C, P, E))
  BY DEF ReturnsShaped
<1> DEFINE Wider == Row(S \cup {status}, C \cup {content}, P \cup {paid}, E \cup {entry})
<1>2. ret[r] \in Row(S, C, P, E)
  BY <1>1
<1>3. ret[r].of \in Obligations
  BY <1>2 DEF Row
<1>4. row \in Wider /\ Row(S, C, P, E) \subseteq Wider
  BY <1>3 DEF Row
<1>5. ret \in Seq(Wider)
  BY <1>1, <1>4, SeqMonotonic
<1>6. row.of = ret[r].of /\ row.frozen = frozen /\ row.content = content
  OBVIOUS
<1>7. ret' = [ret EXCEPT ![r] = row]
  OBVIOUS
<1> HIDE DEF row, Wider
<1>8. ret' \in Seq(Wider) /\ DOMAIN ret' = DOMAIN ret /\ ret'[r] = row
  BY <1>4, <1>5, <1>7
<1>9. ReturnsShaped'
  BY <1>8 DEF ReturnsShaped, Wider
<1> QED
  BY <1>3, <1>6, <1>7, <1>8, <1>9

\* A field of a row set by a call is the row written over with the others as they were.
LEMMA FieldSet ==
  ASSUME ReturnsShaped, NEW r \in DOMAIN ret, NEW x
  PROVE  /\ [ret[r] EXCEPT !.status = x] =
              [of |-> ret[r].of, status |-> x, frozen |-> ret[r].frozen,
               content |-> ret[r].content, paid |-> ret[r].paid, entry |-> ret[r].entry]
         /\ [ret[r] EXCEPT !.content = x] =
              [of |-> ret[r].of, status |-> ret[r].status, frozen |-> ret[r].frozen,
               content |-> x, paid |-> ret[r].paid, entry |-> ret[r].entry]
         /\ [ret[r] EXCEPT !.paid = x] =
              [of |-> ret[r].of, status |-> ret[r].status, frozen |-> ret[r].frozen,
               content |-> ret[r].content, paid |-> x, entry |-> ret[r].entry]
         /\ [ret[r] EXCEPT !.entry = x] =
              [of |-> ret[r].of, status |-> ret[r].status, frozen |-> ret[r].frozen,
               content |-> ret[r].content, paid |-> ret[r].paid, entry |-> x]
         /\ ret[r].frozen \in BOOLEAN
<1>1. PICK S, C, P, E : ret \in Seq(Row(S, C, P, E))
  BY DEF ReturnsShaped
<1>2. ret[r] \in Row(S, C, P, E)
  BY <1>1
<1> QED
  BY <1>2 DEF Row

\* Filing sets two fields.
LEMMA FiledRow ==
  ASSUME ReturnsShaped, NEW r \in DOMAIN ret, NEW frozen
  PROVE  [ret[r] EXCEPT !.status = "filed", !.frozen = frozen] =
           [of |-> ret[r].of, status |-> "filed", frozen |-> frozen,
            content |-> ret[r].content, paid |-> ret[r].paid, entry |-> ret[r].entry]
<1>1. PICK S, C, P, E : ret \in Seq(Row(S, C, P, E))
  BY DEF ReturnsShaped
<1>2. ret[r] \in Row(S, C, P, E)
  BY <1>1
<1> DEFINE moved == [ret[r] EXCEPT !.status = "filed"]
<1>3. /\ moved \in Row({"filed"}, C, P, E)
      /\ moved.of = ret[r].of /\ moved.content = ret[r].content
      /\ moved.paid = ret[r].paid /\ moved.entry = ret[r].entry
  BY <1>2 DEF Row
<1>4. [ret[r] EXCEPT !.status = "filed", !.frozen = frozen] = [moved EXCEPT !.frozen = frozen]
  OBVIOUS
<1> HIDE DEF moved
<1>5. [moved EXCEPT !.frozen = frozen] =
        [of |-> moved.of, status |-> moved.status, frozen |-> frozen, content |-> moved.content,
         paid |-> moved.paid, entry |-> moved.entry]
  BY <1>3 DEF Row
<1>6. moved.status = "filed"
  BY <1>3 DEF Row
<1> QED
  BY <1>3, <1>4, <1>5, <1>6

\* A call that leaves the obligation and the freezing of a return alone, and its content when it
\* is frozen, keeps what was filed.
LEMMA UnfiledKeeps ==
  ASSUME ReturnsShaped, NEW r \in DOMAIN ret, NEW status, NEW content, NEW paid, NEW entry,
         ret[r].frozen => content = ret[r].content,
         ret' = [ret EXCEPT ![r] = [of |-> ret[r].of, status |-> status, frozen |-> ret[r].frozen,
                                    content |-> content, paid |-> paid, entry |-> entry]]
  PROVE  ReturnsShaped' /\ ReturnsKept
<1>1. ret[r].frozen \in BOOLEAN
  BY FieldSet
<1>2. /\ ReturnsShaped'
      /\ DOMAIN ret' = DOMAIN ret
      /\ ret'[r].of = ret[r].of /\ ret'[r].frozen = ret[r].frozen /\ ret'[r].content = content
      /\ \A q \in DOMAIN ret \ {r} : ret'[q] = ret[q]
  BY <1>1, RowWritten
<1> QED
  BY <1>2 DEF ReturnsKept

\* A return changes status without being filed.
LEMMA MoveKeeps ==
  ASSUME ReturnsShaped, NEW r \in DOMAIN ret, NEW from, NEW to, Move(r, from, to)
  PROVE  ReturnsShaped' /\ ReturnsKept
<1>1. ret' = [ret EXCEPT ![r] = [ret[r] EXCEPT !.status = to]]
  BY DEF Move
<1>2. ret' = [ret EXCEPT ![r] =
                [of |-> ret[r].of, status |-> to, frozen |-> ret[r].frozen,
                 content |-> ret[r].content, paid |-> ret[r].paid, entry |-> ret[r].entry]]
  <2>1. [ret[r] EXCEPT !.status = to] =
          [of |-> ret[r].of, status |-> to, frozen |-> ret[r].frozen,
           content |-> ret[r].content, paid |-> ret[r].paid, entry |-> ret[r].entry]
    BY FieldSet
  <2> QED
    BY <1>1, <2>1
<1>3. ret[r].frozen => ret[r].content = ret[r].content
  OBVIOUS
<1> QED
  BY <1>2, <1>3, UnfiledKeeps

\* Drafting adds a return or rebuilds one that is not frozen.
LEMMA DraftKeeps ==
  ASSUME ReturnsShaped, NEW p \in Periods, DraftVatReturn(p)
  PROVE  ReturnsShaped' /\ ReturnsKept
<1>1. CASE NewReturn(p, "draft", FormLines(p, CreditBroughtForward({})))
  BY <1>1, NewReturnKeeps DEF Obligations
<1>2. ASSUME NEW r \in ReturnsOf(p), Rebuildable(r),
             ret' = [ret EXCEPT ![r].content = FormLines(p, CreditBroughtForward({r}))]
      PROVE  ReturnsShaped' /\ ReturnsKept
  <2> DEFINE lines == FormLines(p, CreditBroughtForward({r}))
  <2>1. r \in DOMAIN ret /\ ~ret[r].frozen
    BY <1>2 DEF ReturnsOf, Rebuildable
  <2>2. ret' = [ret EXCEPT ![r] = [ret[r] EXCEPT !.content = lines]]
    BY <1>2
  <2> HIDE DEF lines
  <2>3. ret' = [ret EXCEPT ![r] =
                  [of |-> ret[r].of, status |-> ret[r].status, frozen |-> ret[r].frozen,
                   content |-> lines, paid |-> ret[r].paid, entry |-> ret[r].entry]]
    BY <2>1, <2>2, FieldSet
  <2> QED
    BY <2>1, <2>3, UnfiledKeeps
<1> QED
  BY <1>1, <1>2 DEF DraftVatReturn

\* Filing locks the period of the return, which was not locked.
LEMMA FileKeeps ==
  ASSUME ReturnsShaped, FrozenLocked, NEW r \in DOMAIN ret, FileReturn(r)
  PROVE  ReturnsShaped' /\ ReturnsKept
<1>1. ret' = [ret EXCEPT ![r] = [ret[r] EXCEPT !.status = "filed", !.frozen = IsVat(r)]]
  BY DEF FileReturn
<1>2. ret' = [ret EXCEPT ![r] =
                [of |-> ret[r].of, status |-> "filed", frozen |-> IsVat(r),
                 content |-> ret[r].content, paid |-> ret[r].paid, entry |-> ret[r].entry]]
  BY <1>1, FiledRow
<1>3. /\ ReturnsShaped'
      /\ DOMAIN ret' = DOMAIN ret
      /\ ret'[r].of = ret[r].of /\ ret'[r].frozen = IsVat(r)
      /\ ret'[r].content = ret[r].content
      /\ \A q \in DOMAIN ret \ {r} : ret'[q] = ret[q]
  <2>1. IsVat(r) \in BOOLEAN
    BY DEF IsVat
  <2> QED
    BY <1>2, <2>1, RowWritten
<1>4. ret[r].frozen => IsVat(r)
  BY DEF FrozenLocked, IsVat
<1>5. IsVat(r) => ret[r].of \in Periods \ locked /\ ret[r].of \in locked'
  BY DEF FileReturn, InsertLock, IsVat
<1> QED
  BY <1>3, <1>4, <1>5 DEF ReturnsKept

\* Settling and paying a return leave what it declares alone.
LEMMA SettlementKeeps ==
  ASSUME ReturnsShaped, NEW r \in DOMAIN ret,
         SettleReturn(r) \/ \E amount \in Amounts : RecordPayment(r, amount)
  PROVE  ReturnsShaped' /\ ReturnsKept
<1>1. CASE SettleReturn(r)
  <2>1. ret' = [ret EXCEPT ![r] = [ret[r] EXCEPT !.entry = Settlement(r)]]
    BY <1>1 DEF SettleReturn
  <2>2. ret' = [ret EXCEPT ![r] =
                  [of |-> ret[r].of, status |-> ret[r].status, frozen |-> ret[r].frozen,
                   content |-> ret[r].content, paid |-> ret[r].paid, entry |-> Settlement(r)]]
    BY <2>1, FieldSet
  <2> QED
    BY <2>2, UnfiledKeeps
<1>2. ASSUME NEW amount \in Amounts, RecordPayment(r, amount)
      PROVE  ReturnsShaped' /\ ReturnsKept
  <2>1. ret' = [ret EXCEPT ![r] = [ret[r] EXCEPT !.paid = ret[r].paid + amount]]
    BY <1>2 DEF RecordPayment
  <2>2. ret' = [ret EXCEPT ![r] =
                  [of |-> ret[r].of, status |-> ret[r].status, frozen |-> ret[r].frozen,
                   content |-> ret[r].content, paid |-> ret[r].paid + amount,
                   entry |-> ret[r].entry]]
    BY <2>1, FieldSet
  <2> QED
    BY <2>2, UnfiledKeeps
<1> QED
  BY <1>1, <1>2

\* Every step keeps what was filed, and takes a lock off only by recording it.
LEMMA StepKeeps ==
  ASSUME ReturnsShaped, FrozenLocked, [Next]_vars
  PROVE  /\ ReturnsShaped' /\ ReturnsKept
         /\ locked \subseteq locked' \cup unlocked' /\ unlocked \subseteq unlocked'
         /\ locked' \subseteq Periods /\ unlocked' \subseteq Periods
<1> DEFINE Locks == /\ locked \subseteq locked' \cup unlocked' /\ unlocked \subseteq unlocked'
                    /\ locked' \subseteq Periods /\ unlocked' \subseteq Periods
<1>a. UNCHANGED ret => ReturnsShaped' /\ ReturnsKept
  BY DEF ReturnsShaped, ReturnsKept
<1>b. UNCHANGED <<locked, unlocked>> => Locks
  BY DEF FrozenLocked
<1>1. CASE UNCHANGED vars
  BY <1>1, <1>a, <1>b DEF vars
<1>2. CASE \/ GenerateVatObligations
           \/ \E o \in Obligations : CreateObligation(o) \/ CancelObligation(o)
           \/ \E d \in Documents : PostDocument(d)
  BY <1>2, <1>a, <1>b
  DEF GenerateVatObligations, CreateObligation, CancelObligation, PostDocument
<1>3. ASSUME NEW p \in Periods, LockPeriod(p) \/ UnlockPeriod(p)
      PROVE  ReturnsShaped' /\ ReturnsKept /\ Locks
  BY <1>3, <1>a DEF LockPeriod, UnlockPeriod, FrozenLocked
<1>4. ASSUME NEW p \in Periods, DraftVatReturn(p) \/ AmendVatReturn(p)
      PROVE  ReturnsShaped' /\ ReturnsKept /\ Locks
  <2>1. UNCHANGED <<locked, unlocked>>
    BY <1>4 DEF DraftVatReturn, AmendVatReturn
  <2>2. CASE AmendVatReturn(p)
    BY <1>b, <2>1, <2>2, NewReturnKeeps DEF AmendVatReturn, Obligations
  <2> QED
    BY <1>4, <1>b, <2>1, <2>2, DraftKeeps
<1>5. ASSUME NEW o \in Assessments, NEW amount \in Amounts, FileAssessedReturn(o, amount)
      PROVE  ReturnsShaped' /\ ReturnsKept /\ Locks
  BY <1>5, <1>b, NewReturnKeeps DEF FileAssessedReturn, Obligations
<1>6. ASSUME NEW r \in DOMAIN ret,
             \/ SubmitForReview(r) \/ RevertToDraft(r) \/ ApproveReturn(r)
             \/ SubmitReturn(r) \/ ConfirmSubmission(r)
      PROVE  ReturnsShaped' /\ ReturnsKept /\ Locks
  <2>1. PICK from, to : Move(r, from, to)
    BY <1>6 DEF SubmitForReview, RevertToDraft, ApproveReturn, SubmitReturn, ConfirmSubmission
  <2> QED
    BY <2>1, <1>b, MoveKeeps DEF Move
<1>7. ASSUME NEW r \in DOMAIN ret, FileReturn(r)
      PROVE  ReturnsShaped' /\ ReturnsKept /\ Locks
  <2>1. Locks
    BY <1>7 DEF FileReturn, InsertLock, IsVat, FrozenLocked
  <2> QED
    BY <1>7, <2>1, FileKeeps
<1>8. ASSUME NEW r \in DOMAIN ret,
             SettleReturn(r) \/ \E amount \in Amounts : RecordPayment(r, amount)
      PROVE  ReturnsShaped' /\ ReturnsKept /\ Locks
  <2>1. UNCHANGED <<locked, unlocked>>
    BY <1>8 DEF SettleReturn, RecordPayment
  <2> QED
    BY <1>8, <1>b, <2>1, SettlementKeeps
<1> QED
  BY <1>1, <1>2, <1>3, <1>4, <1>5, <1>6, <1>7, <1>8 DEF Next

\* The rows keep their shape, and a filed period is locked or was unlocked.
LEMMA FilingInvariant == Spec => [](ReturnsShaped /\ FrozenLocked)
<1>1. Init => ReturnsShaped /\ FrozenLocked
  BY DEF Init, ReturnsShaped, FrozenLocked
<1>2. ReturnsShaped /\ FrozenLocked /\ [Next]_vars => ReturnsShaped' /\ FrozenLocked'
  <2> SUFFICES ASSUME ReturnsShaped, FrozenLocked, [Next]_vars
               PROVE  ReturnsShaped' /\ FrozenLocked'
    OBVIOUS
  <2>1. /\ ReturnsShaped' /\ ReturnsKept
        /\ locked \subseteq locked' \cup unlocked' /\ unlocked \subseteq unlocked'
        /\ locked' \subseteq Periods /\ unlocked' \subseteq Periods
    BY StepKeeps
  <2>2. ASSUME NEW q \in DOMAIN ret', ret'[q].frozen
        PROVE  ret'[q].of \in Periods \cap (locked' \cup unlocked')
    BY <2>1, <2>2 DEF ReturnsKept, FrozenLocked
  <2> QED
    BY <2>1, <2>2 DEF FrozenLocked
<1> QED
  BY <1>1, <1>2, PTL DEF Spec

\* What was filed is never drawn up again, through submission and refiling, payments and
\* amendments, for any number of returns.
THEOREM FiledReturnStays == Spec => FiledStays
<1>1. ReturnsShaped /\ FrozenLocked /\ [Next]_vars =>
        [\A r \in DOMAIN ret :
           ret[r].frozen => ret'[r].content = ret[r].content /\ ret'[r].frozen]_vars
  BY StepKeeps DEF ReturnsKept
<1> QED
  BY <1>1, FilingInvariant, PTL DEF Spec, FiledStays

\* A period is filed twice only after one of its locks was lifted: the second filing would
\* insert a lock that is there.
THEOREM PeriodFiledOnce == Spec => []OneFiledPerPeriod
<1>1. Init => OneFiledPerPeriod
  BY DEF Init, OneFiledPerPeriod
<1>2. ReturnsShaped /\ FrozenLocked /\ OneFiledPerPeriod /\ [Next]_vars => OneFiledPerPeriod'
  <2> SUFFICES ASSUME ReturnsShaped, FrozenLocked, OneFiledPerPeriod, [Next]_vars,
                      NEW a \in DOMAIN ret', NEW b \in DOMAIN ret',
                      ret'[a].frozen, ret'[b].frozen, ret'[a].of = ret'[b].of, a # b
               PROVE  ret'[a].of \in unlocked'
    BY DEF OneFiledPerPeriod
  <2>1. ReturnsKept /\ unlocked \subseteq unlocked'
    BY StepKeeps
  <2>2. CASE a \in DOMAIN ret /\ ret[a].frozen /\ b \in DOMAIN ret /\ ret[b].frozen
    BY <2>1, <2>2 DEF OneFiledPerPeriod, ReturnsKept
  <2>3. ASSUME NEW x \in {a, b}, NEW y \in {a, b}, x # y,
               x \in DOMAIN ret, ret[x].frozen, ~(y \in DOMAIN ret /\ ret[y].frozen)
        PROVE  ret'[a].of \in unlocked'
    <3>1. ret'[y].of \notin locked
      BY <2>1, <2>3 DEF ReturnsKept
    <3>2. ret'[x].of = ret[x].of /\ ret[x].of \in locked \cup unlocked
      BY <2>1, <2>3 DEF ReturnsKept, FrozenLocked
    <3> QED
      BY <2>1, <2>3, <3>1, <3>2
  <2> QED
    BY <2>1, <2>2, <2>3 DEF ReturnsKept
<1> QED
  BY <1>1, <1>2, FilingInvariant, PTL DEF Spec

\* No document posted later adds a fact to a period a return was filed for, while no lock of
\* the period was lifted.
THEOREM FiledFactsStay == Spec => FactsStayFiled
<1>1. ReturnsShaped /\ FrozenLocked /\ [Next]_vars =>
        [\A r \in DOMAIN ret :
           ret[r].frozen /\ ret[r].of \notin unlocked =>
             {d \in posted' : d.point = ret[r].of} = {d \in posted : d.point = ret[r].of}]_vars
  <2> SUFFICES ASSUME FrozenLocked, Next, NEW r \in DOMAIN ret,
                      ret[r].frozen, ret[r].of \notin unlocked
               PROVE  {d \in posted' : d.point = ret[r].of} = {d \in posted : d.point = ret[r].of}
    OBVIOUS
  <2>1. ret[r].of \in locked
    BY DEF FrozenLocked
  <2>2. ASSUME NEW x \in Documents, PostDocument(x)
        PROVE  {d \in posted' : d.point = ret[r].of} = {d \in posted : d.point = ret[r].of}
    BY <2>1, <2>2 DEF PostDocument, Postable
  <2>3. CASE UNCHANGED posted
    BY <2>3
  <2> QED
    BY <2>2, <2>3
    DEF Next, GenerateVatObligations, CreateObligation, CancelObligation, LockPeriod, UnlockPeriod,
        DraftVatReturn, AmendVatReturn, FileAssessedReturn, SubmitForReview, RevertToDraft,
        ApproveReturn, SubmitReturn, ConfirmSubmission, Move, FileReturn, SettleReturn,
        RecordPayment
<1> QED
  BY <1>1, FilingInvariant, PTL DEF Spec, FactsStayFiled

-------------------------------------------------------------------------------
(* Types: the figures of a return are sums over finitely many facts.       *)

\* Finitely many facts are posted.
TypeInv == TypeOK /\ IsFiniteSet(posted)

\* Of finitely many elements one has the greatest value.
LEMMA Greatest ==
  ASSUME NEW f, NEW S, IsFiniteSet(S), S # {}, \A x \in S : f[x] \in Int
  PROVE  \E m \in S : \A y \in S : f[m] >= f[y]
<1> DEFINE G == {s \in SUBSET S : s # {} => \E m \in s : \A y \in s : f[m] >= f[y]}
<1>1. {} \in G
  OBVIOUS
<1>2. ASSUME NEW s \in SUBSET S, NEW x \in s, s \ {x} \in G
      PROVE  s \in G
  <2>1. f[x] \in Int /\ \A y \in s : f[y] \in Int
    OBVIOUS
  <2>2. CASE s \ {x} = {}
    <3>1. \A y \in s : f[x] >= f[y]
      BY <2>1, <2>2
    <3> QED
      BY <3>1
  <2>3. CASE s \ {x} # {}
    <3>1. PICK m \in s \ {x} : \A y \in s \ {x} : f[m] >= f[y]
      BY <1>2, <2>3
    <3>2. CASE f[m] >= f[x]
      BY <3>1, <3>2
    <3>3. CASE ~(f[m] >= f[x])
      <4>1. \A y \in s : f[x] >= f[y]
        BY <2>1, <3>1, <3>3
      <4> QED
        BY <4>1
    <3> QED
      BY <3>2, <3>3
  <2> QED
    BY <2>2, <2>3
<1>3. S \in G
  <2> HIDE DEF G
  <2> QED
    BY <1>1, <1>2, FiniteInduction
<1> QED
  BY <1>3

\* The Max of a finite set of integers is its greatest element.
LEMMA MaxIn ==
  ASSUME NEW S \in SUBSET Int, IsFiniteSet(S), S # {}
  PROVE  Max(S) \in S /\ \A y \in S : Max(S) >= y
<1> DEFINE f == [x \in S |-> x]
<1>1. \A x \in S : f[x] = x /\ f[x] \in Int
  OBVIOUS
<1> HIDE DEF f
<1>2. \E m \in S : \A y \in S : m >= y
  <2>1. PICK m \in S : \A y \in S : f[m] >= f[y]
    BY <1>1, Greatest
  <2> QED
    BY <1>1, <2>1
<1> QED
  BY <1>2 DEF Max

\* A figure held at zero.
LEMMA MaxWithZero ==
  ASSUME NEW a \in Int
  PROVE  Max({a, 0}) = IF a >= 0 THEN a ELSE 0
<1>1. IsFiniteSet({a, 0}) /\ {a, 0} \in SUBSET Int
  <2>1. {a, 0} = (({} \cup {a}) \cup {0})
    OBVIOUS
  <2>2. IsFiniteSet(({} \cup {a}) \cup {0})
    BY FS_EmptySet, FS_AddElement
  <2> QED
    BY <2>1, <2>2
<1>2. Max({a, 0}) \in {a, 0} /\ \A y \in {a, 0} : Max({a, 0}) >= y
  BY <1>1, MaxIn
<1> QED
  BY <1>2

\* The fields of a return.
LEMMA RowType ==
  ASSUME TypeInv, NEW r \in DOMAIN ret
  PROVE  /\ ret[r] \in Return
         /\ ret[r].of \in Obligations /\ ret[r].status \in ReturnStatus
         /\ ret[r].frozen \in BOOLEAN /\ ret[r].paid \in Nat
         /\ ret[r].content \in Content /\ ret[r].entry \in Entry
         /\ ret[r].content.withheld \in Nat /\ ret[r].content.due \in Nat
         /\ ret[r].content.carried \in Nat
<1>1. ret[r] \in Return
  BY DEF TypeInv, TypeOK
<1>2. /\ ret[r].of \in Obligations /\ ret[r].status \in ReturnStatus
      /\ ret[r].frozen \in BOOLEAN /\ ret[r].paid \in Nat
      /\ ret[r].content \in Content /\ ret[r].entry \in Entry
  BY <1>1 DEF Return
<1> QED
  BY <1>1, <1>2 DEF Content

\* The tax on a finite set of documents is an integer, what was withheld of it is a natural.
LEMMA FiguresOf ==
  ASSUME TypeInv, NEW docs \in SUBSET posted, NEW p
  PROVE  /\ \A side : Vat(side, docs) \in Int
         /\ Withheld(p) \in Nat
<1>1. \A d \in posted : d.vat \in Int /\ d.withheld \in Nat
  BY TaxConstants DEF TypeInv, TypeOK
<1>2. ASSUME NEW side
      PROVE  Vat(side, docs) \in Int
  <2> DEFINE T == {x \in docs : x.side = side}
             f == [d \in T |-> d.vat]
  <2>1. IsFiniteSet(T) /\ \A d \in T : f[d] \in Int
    BY <1>1, FS_Subset DEF TypeInv
  <2>2. Vat(side, docs) = SumFunctionOnSet(f, T)
    BY DEF Vat, SumFunction
  <2> HIDE DEF T, f
  <2> QED
    BY <2>1, <2>2, SumInt
<1>3. Withheld(p) \in Nat
  <2> DEFINE T == {x \in posted : x.side = "sales" /\ x.date = p}
             f == [d \in T |-> d.withheld]
  <2>1. IsFiniteSet(T) /\ \A d \in T : f[d] \in Nat
    BY <1>1, FS_Subset DEF TypeInv
  <2>2. Withheld(p) = SumFunctionOnSet(f, T)
    BY DEF Withheld, SumFunction
  <2> HIDE DEF T, f
  <2> QED
    BY <2>1, <2>2, SumNat
<1> QED
  BY <1>2, <1>3

\* The credit brought forward is what some return carried, or nothing.
LEMMA CreditNat ==
  ASSUME TypeInv, NEW excluded
  PROVE  CreditBroughtForward(excluded) \in Nat
<1> DEFINE C == {r \in DOMAIN ret \ excluded : IsVat(r) /\ ret[r].status = "filed"}
           latest == {r \in C : \A q \in C : ret[q].of <= ret[r].of}
<1>1. CASE C = {}
  BY <1>1 DEF CreditBroughtForward
<1>2. CASE C # {}
  <2>1. DOMAIN ret = 1 .. Len(ret) /\ Len(ret) \in Nat
    BY DEF TypeInv, TypeOK
  <2>2. IsFiniteSet(C)
    <3>1. IsFiniteSet(1 .. Len(ret))
      BY <2>1, FS_Interval
    <3> QED
      BY <2>1, <3>1, FS_Subset
  <2>3. \A r \in C : ret[r].of \in Int
    BY TaxConstants DEF IsVat, Periods
  <2> DEFINE f == [r \in C |-> ret[r].of]
  <2>4. \A r \in C : f[r] = ret[r].of /\ f[r] \in Int
    BY <2>3
  <2>5. \E r \in C : \A q \in C : f[r] >= f[q]
    <3> HIDE DEF f, C
    <3> QED
      BY <1>2, <2>2, <2>4, Greatest
  <2>6. PICK r \in C : \A q \in C : ret[q].of <= ret[r].of
    BY <2>4, <2>5
  <2>7. latest # {} /\ latest \in SUBSET Int /\ IsFiniteSet(latest)
    BY <2>1, <2>2, <2>6, FS_Subset
  <2>8. Max(latest) \in latest
    <3> HIDE DEF latest
    <3> QED
      BY <2>7, MaxIn
  <2>9. CreditBroughtForward(excluded) = ret[Max(latest)].content.carried
    BY <1>2 DEF CreditBroughtForward
  <2>10. Max(latest) \in DOMAIN ret
    BY <2>8
  <2> QED
    BY <2>9, <2>10, RowType
<1> QED
  BY <1>1, <1>2

\* The lines of a return: facts that were posted, and two figures held at zero.
LEMMA LinesType ==
  ASSUME TypeInv, NEW p, NEW credit \in Nat
  PROVE  FormLines(p, credit) \in Content
<1> DEFINE docs == Claimable(p)
           net == Vat("sales", docs) - (Vat("purchase", docs) + credit)
<1>1. docs \in SUBSET posted
  BY DEF Claimable
<1>2. net \in Int /\ Withheld(p) \in Nat
  BY <1>1, FiguresOf
<1>3. docs \in SUBSET Documents
  BY <1>1 DEF TypeInv, TypeOK
<1>4. FormLines(p, credit) = [facts |-> docs, withheld |-> Withheld(p),
                              due |-> Max({net, 0}), carried |-> Max({-net, 0})]
  BY DEF FormLines
<1> HIDE DEF net, docs
<1>5. Max({net, 0}) \in Nat /\ Max({-net, 0}) \in Nat
  BY <1>2, MaxWithZero
<1> QED
  BY <1>2, <1>3, <1>4, <1>5 DEF Content

\* The entry of a settlement: both totals are naturals, and they differ exactly by what was
\* withheld.
LEMMA SettlementTotals ==
  ASSUME TypeInv, NEW r \in DOMAIN ret, SettleReturn(r)
  PROVE  /\ Settlement(r) \in Entry
         /\ Settlement(r).debit = Settlement(r).credit <=> ret[r].content.withheld = 0
<1> DEFINE docs == {d \in posted : d.date = ret[r].of}
           out == Vat("sales", docs)
           in == Vat("purchase", docs)
           withheld == ret[r].content.withheld
           debit == out + withheld + Max({in - out, 0})
           credit == in + Max({out - in - withheld, 0})
<1>1. out \in Int /\ in \in Int
  BY FiguresOf
<1>2. out >= 0 /\ in >= 0
  BY DEF SettleReturn
<1>3. withheld \in Nat
  BY RowType
<1>4. Settlement(r) = [posted |-> TRUE, debit |-> debit, credit |-> credit]
  BY DEF Settlement
<1> HIDE DEF out, in, withheld
<1>5. /\ Max({in - out, 0}) = IF in - out >= 0 THEN in - out ELSE 0
      /\ Max({out - in - withheld, 0})
           = IF out - in - withheld >= 0 THEN out - in - withheld ELSE 0
  BY <1>1, <1>3, MaxWithZero
<1>6. debit \in Nat /\ credit \in Nat
  BY <1>1, <1>2, <1>3, <1>5
<1>7. debit = credit <=> withheld = 0
  BY <1>1, <1>2, <1>3, <1>5
<1> HIDE DEF debit, credit
<1> QED
  BY <1>4, <1>6, <1>7 DEF Entry, withheld

-------------------------------------------------------------------------------
(* The rows of tax_returns: what holds of each, whatever the others.       *)

\* Only a VAT return is frozen, and one that stands as filed is; only a frozen return has a
\* settlement entry, and its totals differ exactly when tax was withheld.
RowSound(row) ==
  /\ row \in Return
  /\ row.frozen => row.of \in Periods
  /\ row.of \in Periods /\ row.status = "filed" => row.frozen
  /\ row.entry.posted =>
       row.frozen /\ (row.entry.debit = row.entry.credit <=> row.content.withheld = 0)

\* Every return is sound.
RowsSound == \A r \in DOMAIN ret : RowSound(ret[r])

\* The return is paid what it asks.
PaidUp(row) == row.paid > 0 /\ row.paid >= row.content.due

\* Some return of the obligation is paid up.
PaidFor(o) == \E r \in DOMAIN ret : ret[r].of = o /\ PaidUp(ret[r])

\* The inductive invariant of filing.
FilingInv == TypeInv /\ RowsSound /\ PaidAgrees

\* A step that leaves each obligation paid or not, and its returns paid or not, as they were.
LEMMA PaidFollows ==
  ASSUME PaidAgrees, reworked \subseteq reworked',
         \A o \in Obligations \ reworked' :
           /\ obligation'[o] = "paid" <=> obligation[o] = "paid"
           /\ PaidFor(o)' <=> PaidFor(o)
  PROVE  PaidAgrees'
<1>1. \A o \in Obligations \ reworked : obligation[o] = "paid" <=> PaidFor(o)
  BY DEF PaidAgrees, PaidFor, PaidUp, ReturnsOf
<1>2. \A o \in Obligations \ reworked' : obligation'[o] = "paid" <=> PaidFor(o)'
  BY <1>1
<1> QED
  BY <1>2 DEF PaidAgrees, PaidFor, PaidUp, ReturnsOf

\* A new return is a sound row that nothing was paid on.
LEMMA NewReturnSound ==
  ASSUME TypeInv, RowsSound, NEW o \in Obligations, NEW status \in ReturnStatus,
         NEW content \in Content, o \in Periods => status # "filed",
         NewReturn(o, status, content)
  PROVE  /\ ret' \in Seq(Return) /\ RowsSound'
         /\ \A e \in Obligations : PaidFor(e)' <=> PaidFor(e)
<1> DEFINE row == [of |-> o, status |-> status, frozen |-> FALSE, content |-> content,
                   paid |-> 0, entry |-> NoEntry]
<1>1. NoEntry \in Entry /\ NoEntry.posted = FALSE
  BY DEF NoEntry, Entry
<1>2. row \in Return
  BY <1>1 DEF Return
<1>3. RowSound(row) /\ ~PaidUp(row)
  BY <1>1, <1>2 DEF RowSound, PaidUp
<1>4. ret' = Append(ret, row)
  BY DEF NewReturn
<1>5. ret \in Seq(Return)
  BY DEF TypeInv, TypeOK
<1> HIDE DEF row
<1>6. /\ ret' \in Seq(Return)
      /\ DOMAIN ret' = DOMAIN ret \cup {Len(ret) + 1} /\ Len(ret) + 1 \notin DOMAIN ret
      /\ \A q \in DOMAIN ret : ret'[q] = ret[q]
      /\ ret'[Len(ret) + 1] = row
  BY <1>2, <1>4, <1>5
<1>7. RowsSound'
  BY <1>3, <1>6 DEF RowsSound, RowSound
<1>8. \A e : PaidFor(e)' <=> PaidFor(e)
  BY <1>3, <1>6 DEF PaidFor, PaidUp
<1> QED
  BY <1>6, <1>7, <1>8

\* A row is written over with a sound one of the same obligation.
LEMMA RowChanged ==
  ASSUME TypeInv, RowsSound, NEW r \in DOMAIN ret, NEW row, RowSound(row), row.of = ret[r].of,
         ret' = [ret EXCEPT ![r] = row]
  PROVE  /\ ret' \in Seq(Return) /\ RowsSound'
         /\ \A e \in Obligations : e # row.of => (PaidFor(e)' <=> PaidFor(e))
         /\ (PaidUp(row) <=> PaidUp(ret[r])) =>
              \A e \in Obligations : PaidFor(e)' <=> PaidFor(e)
         /\ PaidUp(row) => PaidFor(row.of)'
<1>1. ret \in Seq(Return) /\ row \in Return
  BY DEF TypeInv, TypeOK, RowSound
<1>2. /\ ret' \in Seq(Return)
      /\ DOMAIN ret' = DOMAIN ret
      /\ \A q \in DOMAIN ret : q # r => ret'[q] = ret[q]
      /\ ret'[r] = row
  BY <1>1
<1>3. RowsSound'
  BY <1>2 DEF RowsSound, RowSound
<1>4. \A e : e # row.of => (PaidFor(e)' <=> PaidFor(e))
  BY <1>2 DEF PaidFor, PaidUp
<1>5. (PaidUp(row) <=> PaidUp(ret[r])) => \A e : PaidFor(e)' <=> PaidFor(e)
  BY <1>2 DEF PaidFor, PaidUp
<1>6. PaidUp(row) => PaidFor(row.of)'
  BY <1>2 DEF PaidFor, PaidUp
<1> QED
  BY <1>2, <1>3, <1>4, <1>5, <1>6

\* A step that leaves the returns alone.
LEMMA ReturnsAlone ==
  ASSUME FilingInv, UNCHANGED <<ret, reworked>>, TypeOK', IsFiniteSet(posted'),
         \A o \in Obligations \ reworked : obligation'[o] = "paid" <=> obligation[o] = "paid"
  PROVE  FilingInv'
<1>1. RowsSound' /\ \A o : PaidFor(o)' <=> PaidFor(o)
  BY DEF FilingInv, RowsSound, PaidFor, PaidUp
<1>2. PaidAgrees'
  BY <1>1, PaidFollows DEF FilingInv
<1> QED
  BY <1>1, <1>2 DEF FilingInv, TypeInv

\* A row written over, in a step that leaves the calendar, the facts and the locks well formed
\* and the obligation as it was.
LEMMA RowWrittenSound ==
  ASSUME FilingInv, NEW r \in DOMAIN ret, NEW row, RowSound(row), row.of = ret[r].of,
         ret' = [ret EXCEPT ![r] = row],
         UNCHANGED <<obligation, posted, unlocked>>, locked' \subseteq Periods,
         \/ UNCHANGED reworked /\ (PaidUp(row) <=> PaidUp(ret[r]))
         \/ reworked' = reworked \cup {row.of}
  PROVE  FilingInv'
<1>1. TypeInv /\ RowsSound
  BY DEF FilingInv
<1>2. /\ ret' \in Seq(Return) /\ RowsSound'
      /\ \A e \in Obligations : e # row.of => (PaidFor(e)' <=> PaidFor(e))
      /\ (PaidUp(row) <=> PaidUp(ret[r])) => \A e \in Obligations : PaidFor(e)' <=> PaidFor(e)
  BY <1>1, RowChanged
<1>3. TypeInv'
  <2>1. row.of \in Obligations
    BY DEF RowSound, Return
  <2> QED
    BY <1>2, <2>1 DEF FilingInv, TypeInv, TypeOK
<1>4. \A e \in Obligations \ reworked' : PaidFor(e)' <=> PaidFor(e)
  BY <1>2
<1>5. PaidAgrees'
  BY <1>4, PaidFollows DEF FilingInv
<1> QED
  BY <1>2, <1>3, <1>5 DEF FilingInv

\* A new return, in a step that opens no obligation's payment.
LEMMA NewReturnFiling ==
  ASSUME FilingInv, NEW o \in Obligations, NEW status \in ReturnStatus, NEW content \in Content,
         o \in Periods => status # "filed", NewReturn(o, status, content),
         UNCHANGED <<posted, locked, unlocked, reworked>>,
         obligation' \in [Obligations -> ObligationStatus],
         \A e \in Obligations : obligation'[e] = "paid" <=> obligation[e] = "paid"
  PROVE  FilingInv'
<1>1. /\ ret' \in Seq(Return) /\ RowsSound'
      /\ \A e \in Obligations : PaidFor(e)' <=> PaidFor(e)
  BY NewReturnSound DEF FilingInv
<1>2. TypeInv'
  BY <1>1 DEF FilingInv, TypeInv, TypeOK
<1>3. PaidAgrees'
  BY <1>1, PaidFollows DEF FilingInv
<1> QED
  BY <1>1, <1>2, <1>3 DEF FilingInv

\* A return moves to another status than filed.
LEMMA MoveSound ==
  ASSUME FilingInv, NEW r \in DOMAIN ret, NEW from, NEW to \in ReturnStatus \ {"filed"},
         Move(r, from, to)
  PROVE  FilingInv'
<1> DEFINE row == [ret[r] EXCEPT !.status = to]
<1>1. ret[r] \in Return /\ RowSound(ret[r])
  BY RowType DEF FilingInv, RowsSound
<1>2. /\ row \in Return /\ row.status = to /\ row.of = ret[r].of /\ row.frozen = ret[r].frozen
      /\ row.content = ret[r].content /\ row.paid = ret[r].paid /\ row.entry = ret[r].entry
  BY <1>1 DEF Return
<1>3. ret' = [ret EXCEPT ![r] = row]
  BY DEF Move
<1> HIDE DEF row
<1>4. RowSound(row) /\ (PaidUp(row) <=> PaidUp(ret[r]))
  BY <1>1, <1>2 DEF RowSound, PaidUp
<1> QED
  BY <1>2, <1>3, <1>4, RowWrittenSound DEF Move, FilingInv, TypeInv, TypeOK

\* Drafting rebuilds a return that has no settlement entry, and says so when it was paid on.
LEMMA DraftSound ==
  ASSUME FilingInv, NEW p \in Periods, DraftVatReturn(p)
  PROVE  FilingInv'
<1>1. TypeInv
  BY DEF FilingInv
<1>2. \A excluded : FormLines(p, CreditBroughtForward(excluded)) \in Content
  BY <1>1, CreditNat, LinesType
<1>3. CASE NewReturn(p, "draft", FormLines(p, CreditBroughtForward({}))) /\ UNCHANGED reworked
  <2> DEFINE lines == FormLines(p, CreditBroughtForward({}))
  <2>1. lines \in Content /\ NewReturn(p, "draft", lines)
    BY <1>2, <1>3
  <2>2. UNCHANGED <<obligation, posted, locked, unlocked, reworked>>
    BY <1>3 DEF DraftVatReturn
  <2>3. p \in Obligations /\ "draft" \in ReturnStatus
    BY DEF Obligations, ReturnStatus
  <2>4. obligation' \in [Obligations -> ObligationStatus]
    BY <2>2 DEF FilingInv, TypeInv, TypeOK
  <2> HIDE DEF lines
  <2> QED
    BY <2>1, <2>2, <2>3, <2>4, NewReturnFiling
<1>4. ASSUME NEW r \in ReturnsOf(p), Rebuildable(r),
             ret' = [ret EXCEPT ![r].content = FormLines(p, CreditBroughtForward({r}))],
             reworked' = IF ret[r].paid > 0 THEN reworked \cup {p} ELSE reworked
      PROVE  FilingInv'
  <2> DEFINE lines == FormLines(p, CreditBroughtForward({r}))
             row == [ret[r] EXCEPT !.content = lines]
  <2>1. r \in DOMAIN ret /\ ret[r].of = p /\ ~ret[r].frozen /\ ret[r].status # "filed"
    BY <1>4 DEF ReturnsOf, Rebuildable
  <2>2. lines \in Content
    BY <1>2
  <2>3. ret[r] \in Return /\ RowSound(ret[r]) /\ ret[r].paid \in Nat
    BY <1>1, <2>1, RowType DEF FilingInv, RowsSound
  <2>4. ret' = [ret EXCEPT ![r] = row]
    BY <1>4
  <2> HIDE DEF lines
  <2>5. /\ row \in Return /\ row.status = ret[r].status /\ row.of = ret[r].of
        /\ row.frozen = ret[r].frozen /\ row.paid = ret[r].paid /\ row.entry = ret[r].entry
    BY <2>2, <2>3 DEF Return
  <2> HIDE DEF row
  <2>6. RowSound(row)
    BY <2>1, <2>3, <2>5 DEF RowSound
  <2>7. \/ UNCHANGED reworked /\ (PaidUp(row) <=> PaidUp(ret[r]))
        \/ reworked' = reworked \cup {row.of}
    BY <1>4, <2>1, <2>3, <2>5 DEF PaidUp
  <2>8. UNCHANGED <<obligation, posted, locked, unlocked>> /\ locked' \subseteq Periods
    BY <1>1 DEF DraftVatReturn, TypeInv, TypeOK
  <2> QED
    BY <2>1, <2>4, <2>5, <2>6, <2>7, <2>8, RowWrittenSound
<1> QED
  BY <1>3, <1>4 DEF DraftVatReturn

\* An amendment is a new return, never filed on the spot.
LEMMA AmendSound ==
  ASSUME FilingInv, NEW p \in Periods, AmendVatReturn(p)
  PROVE  FilingInv'
<1> DEFINE lines == FormLines(p, CreditBroughtForward({}))
<1>1. lines \in Content
  BY CreditNat, LinesType DEF FilingInv
<1>2. NewReturn(p, "draft", lines) /\ UNCHANGED <<obligation, posted, locked, unlocked, reworked>>
  BY DEF AmendVatReturn
<1>3. p \in Obligations /\ "draft" \in ReturnStatus
  BY DEF Obligations, ReturnStatus
<1>4. obligation' \in [Obligations -> ObligationStatus]
  BY <1>2 DEF FilingInv, TypeInv, TypeOK
<1> HIDE DEF lines
<1> QED
  BY <1>1, <1>2, <1>3, <1>4, NewReturnFiling

\* Filing freezes a VAT return.
LEMMA FileSound ==
  ASSUME FilingInv, NEW r \in DOMAIN ret, FileReturn(r)
  PROVE  FilingInv'
<1>1. ret[r] \in Return /\ RowSound(ret[r])
  BY RowType DEF FilingInv, RowsSound
<1> DEFINE frozen == IsVat(r)
           row == [of |-> ret[r].of, status |-> "filed", frozen |-> frozen,
                   content |-> ret[r].content, paid |-> ret[r].paid, entry |-> ret[r].entry]
<1>2. frozen \in BOOLEAN /\ (frozen <=> ret[r].of \in Periods)
  BY DEF IsVat
<1>3. [ret[r] EXCEPT !.status = "filed", !.frozen = frozen] = row
  <2>1. ReturnsShaped
    BY DEF FilingInv, TypeInv, TypeOK, ReturnsShaped, Row, Return
  <2> HIDE DEF frozen
  <2> QED
    BY <2>1, FiledRow
<1>4. ret' = [ret EXCEPT ![r] = row]
  BY <1>3 DEF FileReturn
<1>5. row \in Return
  BY <1>1, <1>2 DEF Return, ReturnStatus
<1>6. /\ row.of = ret[r].of /\ row.frozen = frozen /\ row.content = ret[r].content
      /\ row.paid = ret[r].paid /\ row.entry = ret[r].entry
  OBVIOUS
<1>7. ret[r].frozen => frozen
  BY <1>1, <1>2 DEF RowSound
<1> HIDE DEF row, frozen
<1>8. RowSound(row) /\ (PaidUp(row) <=> PaidUp(ret[r]))
  BY <1>1, <1>2, <1>5, <1>6, <1>7 DEF RowSound, PaidUp
<1>9. /\ UNCHANGED <<obligation, posted, unlocked, reworked>> /\ locked' \subseteq Periods
  BY DEF FileReturn, InsertLock, IsVat, FilingInv, TypeInv, TypeOK
<1> QED
  BY <1>4, <1>6, <1>8, <1>9, RowWrittenSound

\* An assessed return is filed as it is drawn up, and closes an obligation nothing was paid on.
LEMMA FileAssessedSound ==
  ASSUME FilingInv, NEW o \in Assessments, NEW amount \in Amounts, FileAssessedReturn(o, amount)
  PROVE  FilingInv'
<1> DEFINE content == [facts |-> {}, withheld |-> 0, due |-> amount, carried |-> 0]
<1>1. content \in Content
  BY TaxConstants DEF Content
<1>2. /\ NewReturn(o, "filed", content)
      /\ obligation[o] = "open" /\ obligation' = [obligation EXCEPT ![o] = "filed"]
      /\ UNCHANGED <<posted, locked, unlocked, reworked>>
  BY DEF FileAssessedReturn
<1>3. o \in Obligations /\ o \notin Periods /\ "filed" \in ReturnStatus
  BY TaxConstants DEF Obligations, ReturnStatus
<1>4. /\ obligation' \in [Obligations -> ObligationStatus]
      /\ \A e \in Obligations : obligation'[e] = "paid" <=> obligation[e] = "paid"
  BY <1>2 DEF FilingInv, TypeInv, TypeOK, ObligationStatus
<1> HIDE DEF content
<1> QED
  BY <1>1, <1>2, <1>3, <1>4, NewReturnFiling

\* Settling writes an entry on a frozen return.
LEMMA SettleSound ==
  ASSUME FilingInv, NEW r \in DOMAIN ret, SettleReturn(r)
  PROVE  FilingInv'
<1> DEFINE entry == Settlement(r)
           row == [ret[r] EXCEPT !.entry = entry]
<1>1. ret[r] \in Return /\ RowSound(ret[r])
  BY RowType DEF FilingInv, RowsSound
<1>2. entry \in Entry /\ (entry.debit = entry.credit <=> ret[r].content.withheld = 0)
  BY SettlementTotals DEF FilingInv
<1>3. ret[r].frozen
  BY <1>1 DEF SettleReturn, IsVat, RowSound
<1>4. ret' = [ret EXCEPT ![r] = row]
  BY DEF SettleReturn
<1> HIDE DEF entry
<1>5. /\ row \in Return /\ row.status = ret[r].status /\ row.of = ret[r].of
      /\ row.frozen = ret[r].frozen /\ row.content = ret[r].content /\ row.paid = ret[r].paid
      /\ row.entry = entry
  BY <1>1, <1>2 DEF Return
<1> HIDE DEF row
<1>6. RowSound(row) /\ (PaidUp(row) <=> PaidUp(ret[r]))
  BY <1>1, <1>2, <1>3, <1>5 DEF RowSound, PaidUp
<1>7. UNCHANGED <<obligation, posted, locked, unlocked, reworked>> /\ locked' \subseteq Periods
  BY DEF SettleReturn, FilingInv, TypeInv, TypeOK
<1> QED
  BY <1>4, <1>5, <1>6, <1>7, RowWrittenSound

\* A payment adds up on its return, and pays the obligation once it covers the due.
LEMMA PaymentSound ==
  ASSUME FilingInv, NEW r \in DOMAIN ret, NEW amount \in Amounts, RecordPayment(r, amount)
  PROVE  FilingInv'
<1> DEFINE paid == ret[r].paid + amount
<1>0. PICK row, o : row = [ret[r] EXCEPT !.paid = paid] /\ o = ret[r].of
  OBVIOUS
<1>1. /\ ret[r] \in Return /\ RowSound(ret[r]) /\ ret[r].paid \in Nat
      /\ ret[r].content.due \in Nat /\ o \in Obligations
  BY <1>0, RowType DEF FilingInv, RowsSound
<1>2. amount \in Nat /\ amount > 0
  BY TaxConstants
<1>3. paid \in Nat /\ paid > ret[r].paid /\ paid > 0
  BY <1>1, <1>2
<1>4. ret' = [ret EXCEPT ![r] = row]
  BY <1>0 DEF RecordPayment
<1>5. /\ obligation' = IF paid >= ret[r].content.due
                       THEN [obligation EXCEPT ![o] = "paid"] ELSE obligation
      /\ UNCHANGED <<posted, locked, unlocked, reworked>>
  BY <1>0 DEF RecordPayment, Covers
<1> HIDE DEF paid
<1>6. /\ row \in Return /\ row.status = ret[r].status /\ row.of = o
      /\ row.frozen = ret[r].frozen /\ row.content = ret[r].content /\ row.paid = paid
      /\ row.entry = ret[r].entry
  BY <1>0, <1>1, <1>3 DEF Return
<1>7. RowSound(row)
  BY <1>0, <1>1, <1>6 DEF RowSound
<1>8. PaidUp(row) <=> paid >= ret[r].content.due
  BY <1>3, <1>6 DEF PaidUp
<1>9. PaidUp(ret[r]) => PaidUp(row)
  BY <1>1, <1>3, <1>8 DEF PaidUp
<1>10. TypeInv /\ RowsSound /\ PaidAgrees
  BY DEF FilingInv
<1>11. /\ ret' \in Seq(Return) /\ RowsSound'
       /\ \A e \in Obligations : e # row.of => (PaidFor(e)' <=> PaidFor(e))
       /\ (PaidUp(row) <=> PaidUp(ret[r])) => \A e \in Obligations : PaidFor(e)' <=> PaidFor(e)
       /\ PaidUp(row) => PaidFor(row.of)'
  BY <1>0, <1>4, <1>6, <1>7, <1>10, RowChanged
<1>12. TypeInv'
  <2>1. obligation' \in [Obligations -> ObligationStatus]
    BY <1>1, <1>5, <1>10 DEF TypeInv, TypeOK, ObligationStatus
  <2> QED
    BY <1>5, <1>10, <1>11, <2>1 DEF TypeInv, TypeOK
<1>13. \A e \in Obligations \ reworked : obligation[e] = "paid" <=> PaidFor(e)
  BY <1>10 DEF PaidAgrees, PaidFor, PaidUp, ReturnsOf
<1>14. \A e \in Obligations \ reworked' : obligation'[e] = "paid" <=> PaidFor(e)'
  <2>1. CASE PaidUp(row)
    <3> SUFFICES ASSUME NEW e \in Obligations \ reworked'
                 PROVE  obligation'[e] = "paid" <=> PaidFor(e)'
      OBVIOUS
    <3>1. obligation' = [obligation EXCEPT ![o] = "paid"] /\ reworked' = reworked
      BY <1>5, <1>8, <2>1
    <3>2. obligation'[e] = IF e = o THEN "paid" ELSE obligation[e]
      BY <1>10, <3>1 DEF TypeInv, TypeOK
    <3>3. CASE e = o
      BY <1>6, <1>11, <2>1, <3>2, <3>3
    <3>4. CASE e # o
      BY <1>6, <1>11, <1>13, <3>1, <3>2, <3>4
    <3> QED
      BY <3>3, <3>4
  <2>2. CASE ~PaidUp(row)
    <3>1. obligation' = obligation /\ reworked' = reworked
      BY <1>5, <1>8, <2>2
    <3>2. \A e \in Obligations : PaidFor(e)' <=> PaidFor(e)
      BY <1>9, <1>11, <2>2
    <3> QED
      BY <1>13, <3>1, <3>2
  <2> QED
    BY <2>1, <2>2
<1>15. PaidAgrees'
  BY <1>14 DEF PaidAgrees, PaidFor, PaidUp, ReturnsOf
<1> QED
  BY <1>11, <1>12, <1>15 DEF FilingInv

\* Every call keeps the returns sound and the obligations in step with their payments.
LEMMA FilingKept ==
  ASSUME FilingInv, [Next]_vars
  PROVE  FilingInv'
<1>0. TypeOK /\ IsFiniteSet(posted)
  BY DEF FilingInv, TypeInv
<1>1. CASE UNCHANGED vars
  BY <1>0, <1>1, ReturnsAlone DEF vars, TypeOK
<1>2. CASE GenerateVatObligations
  <2>1. /\ obligation' \in [Obligations -> ObligationStatus]
        /\ \A o \in Obligations : obligation'[o] = "paid" <=> obligation[o] = "paid"
    BY <1>0, <1>2 DEF GenerateVatObligations, TypeOK, ObligationStatus
  <2> QED
    BY <1>0, <1>2, <2>1, ReturnsAlone DEF GenerateVatObligations, TypeOK
<1>3. ASSUME NEW o \in Obligations, CreateObligation(o)
      PROVE  FilingInv'
  <2>1. /\ obligation' \in [Obligations -> ObligationStatus]
        /\ \A e \in Obligations : obligation'[e] = "paid" <=> obligation[e] = "paid"
    BY <1>0, <1>3 DEF CreateObligation, TypeOK, ObligationStatus
  <2> QED
    BY <1>0, <1>3, <2>1, ReturnsAlone DEF CreateObligation, TypeOK
<1>4. ASSUME NEW o \in Obligations, CancelObligation(o)
      PROVE  FilingInv'
  <2>1. o \notin reworked => obligation[o] # "paid"
    BY <1>4 DEF CancelObligation, FilingInv, PaidAgrees
  <2>2. /\ obligation' \in [Obligations -> ObligationStatus]
        /\ \A e \in Obligations \ reworked : obligation'[e] = "paid" <=> obligation[e] = "paid"
    BY <1>0, <1>4, <2>1 DEF CancelObligation, TypeOK, ObligationStatus
  <2> QED
    BY <1>0, <1>4, <2>2, ReturnsAlone DEF CancelObligation, TypeOK
<1>5. ASSUME NEW d \in Documents, PostDocument(d)
      PROVE  FilingInv'
  <2>1. IsFiniteSet(posted')
    BY <1>0, <1>5, FS_AddElement DEF PostDocument
  <2> QED
    BY <1>0, <1>5, <2>1, ReturnsAlone DEF PostDocument, TypeOK
<1>6. ASSUME NEW p \in Periods, LockPeriod(p) \/ UnlockPeriod(p)
      PROVE  FilingInv'
  BY <1>0, <1>6, TaxConstants, ReturnsAlone DEF LockPeriod, UnlockPeriod, TypeOK
<1>7. ASSUME NEW r \in DOMAIN ret,
             \/ SubmitForReview(r) \/ RevertToDraft(r) \/ ApproveReturn(r)
             \/ SubmitReturn(r) \/ ConfirmSubmission(r)
      PROVE  FilingInv'
  <2>1. {"draft", "review", "approved", "awaiting", "confirmed"} \subseteq ReturnStatus \ {"filed"}
    BY DEF ReturnStatus, Submitted
  <2> QED
    BY <1>7, <2>1, MoveSound
    DEF SubmitForReview, RevertToDraft, ApproveReturn, SubmitReturn, ConfirmSubmission
<1> QED
  BY <1>1, <1>2, <1>3, <1>4, <1>5, <1>6, <1>7, DraftSound, AmendSound, FileSound,
     FileAssessedSound, SettleSound, PaymentSound
  DEF Next

\* Initially nothing is filed.
LEMMA FilingInit ==
  ASSUME Init
  PROVE  FilingInv
<1>1. TypeInv
  BY FS_EmptySet DEF Init, TypeInv, TypeOK, ObligationStatus
<1>2. RowsSound /\ PaidAgrees
  BY DEF Init, RowsSound, PaidAgrees, ReturnsOf
<1> QED
  BY <1>1, <1>2 DEF FilingInv

\* The figures of returns, entries and payments stay well formed, whatever is posted.
THEOREM FilingTypeCorrect == Spec => []TypeOK
<1>1. FilingInv => TypeOK
  BY DEF FilingInv, TypeInv
<1> QED
  BY <1>1, FilingInit, FilingKept, PTL DEF Spec

\* An obligation is paid exactly when one of its returns has been paid what it asks, unless a
\* return of it was drawn up anew over a payment.
THEOREM ObligationPaidAgrees == Spec => []PaidAgrees
<1>1. FilingInv => PaidAgrees
  BY DEF FilingInv
<1> QED
  BY <1>1, FilingInit, FilingKept, PTL DEF Spec

\* The settlement entry of a return balances exactly when nothing was withheld: what the return
\* states is final by the time it is settled.
THEOREM SettlementBalance == Spec => []SettlementOutByWithheld
<1>1. FilingInv => SettlementOutByWithheld
  BY DEF FilingInv, RowsSound, RowSound, SettlementOutByWithheld
<1> QED
  BY <1>1, FilingInit, FilingKept, PTL DEF Spec
================================================================================
