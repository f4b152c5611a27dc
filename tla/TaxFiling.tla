------------------------------- MODULE TaxFiling -------------------------------
(***************************************************************************)
(* VAT from the posted document to the payment: tax facts, the returns     *)
(* drafted from them, their filing, the lock filing puts on a period, the  *)
(* settlement entry and the payments; and the taxes that are only          *)
(* assessed.                                                               *)
(*                                                                         *)
(* A step is one service call.  The company is on the accrual basis with   *)
(* full recovery of input tax; a period of VAT is one fiscal period.       *)
(* Calls refused for other reasons (a permission, an account that is not   *)
(* in the chart, a fiscal period that is not open) are not followed:       *)
(* nothing below relies on a refusal.                                      *)
(***************************************************************************)
EXTENDS Integers, Sequences, FiniteSetsExt, Functions

CONSTANTS LastPeriod,   \* VAT obligations are one to a period, 1 .. LastPeriod
          Assessments,  \* obligations of the taxes that are assessed
          Documents,    \* invoices, bills and notes that may be posted
          Amounts,      \* amounts assessed and paid
          MaxReturns, MaxPaid,  \* bounds
          Unlockable    \* periods whose lock may be lifted, to bound the instance

Periods == 1 .. LastPeriod
Obligations == Periods \cup Assessments

\* "point" is the period of the tax point, "date" that of the document; a note is negative.
ASSUME TaxConstants ==
  /\ LastPeriod \in Nat /\ MaxReturns \in Nat /\ MaxPaid \in Nat
  /\ Assessments \cap Periods = {} /\ Unlockable \subseteq Periods
  /\ Amounts \subseteq Nat \ {0}
  /\ \A d \in Documents :
       /\ d.side \in {"sales", "purchase"}
       /\ d.point \in Periods /\ d.date \in Periods
       /\ d.vat \in Int /\ d.withheld \in Nat

VARIABLES obligation,  \* tax_obligations: status
          posted,      \* documents posted, and so the rows of posted_tax_lines
          ret,         \* tax_returns, in order of primary key
          locked,      \* vat_period_locks: periods
          unlocked,    \* periods a lock was taken off
          reworked     \* obligations whose return was drafted again after a payment

vars == <<obligation, posted, ret, locked, unlocked, reworked>>

ObligationStatus == {"none", "open", "filed", "paid", "cancelled"}
Submitted == {"awaiting", "confirmed"}
ReturnStatus == {"draft", "review", "approved", "filed"} \cup Submitted
NoEntry == [posted |-> FALSE, debit |-> 0, credit |-> 0]
Entry == [posted : BOOLEAN, debit : Nat, credit : Nat]
Content == [facts : SUBSET Documents, withheld : Nat, due : Nat, carried : Nat]
Return == [of : Obligations, status : ReturnStatus, frozen : BOOLEAN, content : Content,
           paid : Nat, entry : Entry]

IsVat(r) == ret[r].of \in Periods
ReturnsOf(o) == {r \in DOMAIN ret : ret[r].of = o}
Vat(side, docs) == SumFunction([d \in {x \in docs : x.side = side} |-> d.vat])
Withheld(p) == SumFunction([d \in {x \in posted : x.side = "sales" /\ x.date = p} |-> d.withheld])

-------------------------------------------------------------------------------
(* The calendar of obligations.                                            *)

CreateObligation(o) ==
  /\ obligation[o] = "none"
  /\ obligation' = [obligation EXCEPT ![o] = "open"]
  /\ UNCHANGED <<posted, ret, locked, unlocked, reworked>>

\* The year's VAT obligations, but for those already there.
GenerateVatObligations ==
  /\ obligation' = [o \in Obligations |-> IF o \in Periods /\ obligation[o] = "none"
                                          THEN "open" ELSE obligation[o]]
  /\ UNCHANGED <<posted, ret, locked, unlocked, reworked>>

CancelObligation(o) ==
  /\ obligation[o] # "none"
  /\ ReturnsOf(o) = {}
  /\ obligation' = [obligation EXCEPT ![o] = "cancelled"]
  /\ UNCHANGED <<posted, ret, locked, unlocked, reworked>>

-------------------------------------------------------------------------------
(* Facts and the lock.                                                     *)

\* Mutant: the lock is looked up by the document's date.
PostableByDate(d) == d.date \notin locked

Postable(d) == d.point \notin locked

PostDocument(d) ==
  /\ d \notin posted /\ Postable(d)
  /\ posted' = posted \cup {d}
  /\ UNCHANGED <<obligation, ret, locked, unlocked, reworked>>

LockPeriod(p) ==
  /\ locked' = locked \cup {p}
  /\ UNCHANGED <<obligation, posted, ret, unlocked, reworked>>

UnlockPeriod(p) ==
  /\ p \in locked \cap Unlockable
  /\ locked' = locked \ {p}
  /\ unlocked' = unlocked \cup {p}
  /\ UNCHANGED <<obligation, posted, ret, reworked>>

-------------------------------------------------------------------------------
(* Drafting.                                                               *)

\* The facts of the period and every earlier one: a row is late until it is stamped with the
\* return that took it, and nothing stamps it.
Claimable(p) == {d \in posted : d.point <= p}

\* The credit of the filed return of the latest period, the newest first.  A return that was
\* submitted is no longer "filed"; the period may be a later one.
CreditBroughtForward(excluded) ==
  LET candidates == {r \in DOMAIN ret \ excluded : IsVat(r) /\ ret[r].status = "filed"}
      latest == {r \in candidates : \A q \in candidates : ret[q].of <= ret[r].of}
  IN  IF candidates = {} THEN 0 ELSE ret[Max(latest)].content.carried

\* Mutant: the lines for what is due and what is carried are not held at zero.
FormLinesSigned(p, credit) ==
  LET docs == Claimable(p)
      net == Vat("sales", docs) - (Vat("purchase", docs) + credit)
  IN  [facts |-> docs, withheld |-> Withheld(p), due |-> net, carried |-> -net]

FormLines(p, credit) ==
  LET docs == Claimable(p)
      net == Vat("sales", docs) - (Vat("purchase", docs) + credit)
  IN  [facts |-> docs, withheld |-> Withheld(p),
       due |-> Max({net, 0}), carried |-> Max({-net, 0})]

NewReturn(o, status, content) ==
  /\ Len(ret) < MaxReturns
  /\ ret' = Append(ret, [of |-> o, status |-> status, frozen |-> FALSE, content |-> content,
                         paid |-> 0, entry |-> NoEntry])

\* Mutant: only the status protects a return from being drafted again.
RebuildableByStatus(r) == ret[r].status # "filed"

Rebuildable(r) == ret[r].status # "filed" /\ ~ret[r].frozen

\* The return of the obligation is rebuilt in place, whatever its status short of filed; of
\* several, the one the database returns.
DraftVatReturn(p) ==
  /\ obligation[p] # "none"
  /\ \/ /\ ReturnsOf(p) = {}
        /\ NewReturn(p, "draft", FormLines(p, CreditBroughtForward({})))
        /\ UNCHANGED reworked
     \/ \E r \in ReturnsOf(p) :
          /\ Rebuildable(r)
          /\ ret' = [ret EXCEPT ![r].content = FormLines(p, CreditBroughtForward({r}))]
          /\ reworked' = IF ret[r].paid > 0 THEN reworked \cup {p} ELSE reworked
  /\ UNCHANGED <<obligation, posted, locked, unlocked>>

\* The credit may come from the very return that is amended.
AmendVatReturn(p) ==
  /\ obligation[p] # "none"
  /\ \E original \in DOMAIN ret : ret[original].status = "filed"
  /\ \A r \in ReturnsOf(p) : ret[r].status # "draft"
  /\ NewReturn(p, "draft", FormLines(p, CreditBroughtForward({})))
  /\ UNCHANGED <<obligation, posted, locked, unlocked, reworked>>

-------------------------------------------------------------------------------
(* The life of a return.                                                   *)

Move(r, from, to) ==
  /\ ret[r].status = from
  /\ ret' = [ret EXCEPT ![r].status = to]
  /\ UNCHANGED <<obligation, posted, locked, unlocked, reworked>>

SubmitForReview(r) == Move(r, "draft", "review")
RevertToDraft(r) == Move(r, "review", "draft")
ApproveReturn(r) == Move(r, "review", "approved")
SubmitReturn(r) == Move(r, "filed", "awaiting")
ConfirmSubmission(r) == Move(r, "awaiting", "confirmed")

\* Mutant: a lock that is there already is found and kept, as lock_period does.
LockFound(p) == locked' = locked \cup {p}

\* The lock is inserted, never looked up: a period that is locked cannot be inserted again and
\* the whole call fails.
InsertLock(p) == p \notin locked /\ locked' = locked \cup {p}

\* Any return that is not filed, a submitted one included.  The obligation is not touched.
FileReturn(r) ==
  /\ ret[r].status # "filed"
  /\ IF IsVat(r) THEN InsertLock(ret[r].of) ELSE UNCHANGED locked
  /\ ret' = [ret EXCEPT ![r].status = "filed", ![r].frozen = IsVat(r)]
  /\ UNCHANGED <<obligation, posted, unlocked, reworked>>

FileAssessedReturn(o, amount) ==
  /\ obligation[o] = "open" /\ ReturnsOf(o) = {}
  /\ NewReturn(o, "filed", [facts |-> {}, withheld |-> 0, due |-> amount, carried |-> 0])
  /\ obligation' = [obligation EXCEPT ![o] = "filed"]
  /\ UNCHANGED <<posted, locked, unlocked, reworked>>

-------------------------------------------------------------------------------
(* Settlement and payment.                                                 *)

\* Mutant: an excess of input tax gets no line of its own.
SettlementNoCredit(r) ==
  LET docs == {d \in posted : d.date = ret[r].of}
      out == Vat("sales", docs)
      in == Vat("purchase", docs)
      withheld == ret[r].content.withheld
  IN  [posted |-> TRUE, debit |-> out + withheld, credit |-> in + Max({out - in - withheld, 0})]

\* Drawn from the facts of the documents dated in the period, not from the return's lines.
\* What was withheld is both debited and taken off the credit to the payable.
Settlement(r) ==
  LET docs == {d \in posted : d.date = ret[r].of}
      out == Vat("sales", docs)
      in == Vat("purchase", docs)
      withheld == ret[r].content.withheld
  IN  [posted |-> TRUE,
       debit |-> out + withheld + Max({in - out, 0}),
       credit |-> in + Max({out - in - withheld, 0})]

SettleReturn(r) ==
  LET docs == {d \in posted : d.date = ret[r].of} IN
  /\ IsVat(r) /\ ret[r].status = "filed" /\ ~ret[r].entry.posted
  /\ Vat("sales", docs) >= 0 /\ Vat("purchase", docs) >= 0
  /\ Settlement(r).debit + Settlement(r).credit > 0
  /\ ret' = [ret EXCEPT ![r].entry = Settlement(r)]
  /\ UNCHANGED <<obligation, posted, locked, unlocked, reworked>>

\* Mutant: paid only when more than the due has come in.
PaidBeyond(paid, due) == paid > due

Covers(paid, due) == paid >= due

\* In any status; the obligation is paid once the due is covered, and never reopened.
RecordPayment(r, amount) ==
  /\ ret[r].paid + amount <= MaxPaid
  /\ ret' = [ret EXCEPT ![r].paid = @ + amount]
  /\ obligation' = IF Covers(ret[r].paid + amount, ret[r].content.due)
                   THEN [obligation EXCEPT ![ret[r].of] = "paid"] ELSE obligation
  /\ UNCHANGED <<posted, locked, unlocked, reworked>>

-------------------------------------------------------------------------------
Init ==
  /\ obligation = [o \in Obligations |-> "none"]
  /\ posted = {} /\ ret = <<>>
  /\ locked = {} /\ unlocked = {} /\ reworked = {}

Next ==
  \/ GenerateVatObligations
  \/ \E o \in Obligations : CreateObligation(o) \/ CancelObligation(o)
  \/ \E d \in Documents : PostDocument(d)
  \/ \E p \in Periods : \/ LockPeriod(p) \/ UnlockPeriod(p)
                        \/ DraftVatReturn(p) \/ AmendVatReturn(p)
  \/ \E o \in Assessments, amount \in Amounts : FileAssessedReturn(o, amount)
  \/ \E r \in DOMAIN ret :
       \/ SubmitForReview(r) \/ RevertToDraft(r) \/ ApproveReturn(r)
       \/ FileReturn(r) \/ SubmitReturn(r) \/ ConfirmSubmission(r)
       \/ SettleReturn(r)
       \/ \E amount \in Amounts : RecordPayment(r, amount)

Spec == Init /\ [][Next]_vars

-------------------------------------------------------------------------------
TypeOK ==
  /\ obligation \in [Obligations -> ObligationStatus]
  /\ posted \subseteq Documents
  /\ ret \in Seq(Return)
  /\ locked \subseteq Periods /\ unlocked \subseteq Periods
  /\ reworked \subseteq Obligations

\* What was filed stays what it was: no later call, whatever the return goes through, draws it
\* up again ("block re-drafting of a filed (immutable) return", tax_return_service.py).
FiledStays ==
  [][\A r \in DOMAIN ret :
       ret[r].frozen => ret'[r].content = ret[r].content /\ ret'[r].frozen]_vars

\* A period is declared once: a second return of it, an amendment included, is filed only after
\* a lock of the period was lifted.
OneFiledPerPeriod ==
  \A r, q \in DOMAIN ret :
    ret[r].frozen /\ ret[q].frozen /\ ret[r].of = ret[q].of /\ r # q => ret[r].of \in unlocked

\* The facts of a period a return was filed for do not change under it, by any document posted
\* later, while no lock of the period is lifted (the lock checks of the posting services).
FactsStayFiled ==
  [][\A r \in DOMAIN ret :
       ret[r].frozen /\ ret[r].of \notin unlocked =>
         {d \in posted' : d.point = ret[r].of} = {d \in posted : d.point = ret[r].of}]_vars

\* An obligation is paid exactly when a return of it has been paid what it asks, unless the
\* return was drawn up anew over a payment ("Obligation moves to PAID once fully settled").
PaidAgrees ==
  \A o \in Obligations \ reworked :
    obligation[o] = "paid" <=>
      \E r \in ReturnsOf(o) : ret[r].paid > 0 /\ ret[r].paid >= ret[r].content.due

\* A settlement entry has as much debit as credit, unless the customers withheld some of the
\* tax: then it never has.
SettlementOutByWithheld ==
  \A r \in DOMAIN ret :
    ret[r].entry.posted =>
      (ret[r].entry.debit = ret[r].entry.credit <=> ret[r].content.withheld = 0)

\* A fact is declared for one period only: the return that first claims it is recorded with it
\* ("NULL = not yet included in any return", posted_tax_line.py).
FactDeclaredOnce ==
  \A r, q \in DOMAIN ret :
    ret[r].frozen /\ ret[q].frozen /\ ret[r].of # ret[q].of =>
      ret[r].content.facts \cap ret[q].content.facts = {}
================================================================================
