--------------------------- MODULE ReceivablesProofs ---------------------------
(***************************************************************************)
(* What holds of Receivables for any documents and amounts.                *)
(***************************************************************************)
EXTENDS Receivables, SumTheorems

\* Every call keeps the rows of the tables well formed.
LEMMA CallType ==
  ASSUME TypeOK, Next
  PROVE  TypeOK'
<1> USE ReceivablesConstants
<1>1. ASSUME NEW i \in Invoices, InvoiceCall(i)
      PROVE  TypeOK'
  <2> invoice[i] \in InvoiceRow
    BY DEF TypeOK
  <2>1. ASSUME NEW amount \in Amounts, NEW withheld \in BOOLEAN,
               CreateInvoice(i, amount, withheld) \/ UpdateInvoice(i, amount, withheld)
        PROVE  TypeOK'
    <3>1. DraftInvoice(amount, withheld) \in InvoiceRow
      BY DEF DraftInvoice, InvoiceRow, DocumentStatus, PaymentStatuses, Amounts
    <3> QED
      BY <2>1, <3>1 DEF CreateInvoice, UpdateInvoice, TypeOK
  <2>2. CASE CancelInvoice(i)
    <3>1. [invoice[i] EXCEPT !.status = "cancelled", !.payment = "unpaid"] \in InvoiceRow
      BY DEF InvoiceRow, DocumentStatus, PaymentStatuses
    <3> QED
      BY <2>2, <3>1 DEF CancelInvoice, TypeOK
  <2>3. CASE PostInvoice(i)
    <3>1. [invoice[i] EXCEPT !.status = "posted", !.payment = "unpaid"] \in InvoiceRow
      BY DEF InvoiceRow, DocumentStatus, PaymentStatuses
    <3>2. [ar |-> invoice[i].total, contra |-> -invoice[i].total] \in Entry
      BY DEF InvoiceRow, Entry
    <3> QED
      BY <2>3, <3>1, <3>2 DEF PostInvoice, TypeOK
  <2> QED
    BY <1>1, <2>1, <2>2, <2>3 DEF InvoiceCall
<1>2. ASSUME NEW r \in Receipts, ReceiptCall(r)
      PROVE  TypeOK'
  <2> receipt[r] \in ReceiptRow
    BY DEF TypeOK
  <2>1. ASSUME NEW amount \in Amounts, NEW a \in [Invoices -> 0 .. MaxAmount],
               CreateReceipt(r, amount, a) \/ UpdateReceipt(r, amount, a)
        PROVE  TypeOK'
    <3>1. /\ [status |-> "draft", amount |-> amount] \in ReceiptRow
          /\ [receipt[r] EXCEPT !.amount = amount] \in ReceiptRow
      BY DEF ReceiptRow, DocumentStatus, Amounts
    <3>2. receipt' \in [Receipts -> ReceiptRow]
      BY <2>1, <3>1 DEF CreateReceipt, UpdateReceipt, TypeOK
    <3> QED
      BY <2>1, <3>2 DEF CreateReceipt, UpdateReceipt, TypeOK
  <2>2. CASE CancelReceipt(r)
    <3>1. [receipt[r] EXCEPT !.status = "cancelled"] \in ReceiptRow
      BY DEF ReceiptRow, DocumentStatus
    <3> QED
      BY <2>2, <3>1 DEF CancelReceipt, TypeOK, NoAllocation
  <2>3. CASE PostReceipt(r)
    <3>1. ASSUME NEW i \in Invoices
          PROVE  Settle(i, r) \in InvoiceRow
      <4>1. \A total, allocated : PaymentStatus(total, allocated) \in PaymentStatuses
        BY DEF PaymentStatus, PaymentStatuses
      <4>2. invoice[i] \in InvoiceRow
        BY DEF TypeOK
      <4> QED
        BY <4>1, <4>2 DEF Settle, InvoiceRow
    <3>2. ReceiptEntry(r) \in Entry
      BY DEF ReceiptEntry, ReceiptRow, Entry
    <3>3. [receipt[r] EXCEPT !.status = "posted"] \in ReceiptRow
      BY DEF ReceiptRow, DocumentStatus
    <3>4. certificates' \subseteq Receipts \X Invoices
      BY <2>3 DEF PostReceipt, TypeOK
    <3>5. journal' \in [Documents -> Entry]
      BY <2>3, <3>2 DEF PostReceipt, TypeOK
    <3> QED
      BY <2>3, <3>1, <3>3, <3>4, <3>5 DEF PostReceipt, TypeOK
  <2> QED
    BY <1>2, <2>1, <2>2, <2>3 DEF ReceiptCall
<1>3. ASSUME NEW n \in Notes, NoteCall(n)
      PROVE  TypeOK'
  <2> note[n] \in NoteRow
    BY DEF TypeOK
  <2>1. ASSUME NEW amount \in 0 .. MaxAmount, CreateNote(n, amount) \/ UpdateNote(n, amount)
        PROVE  TypeOK'
    <3>1. /\ [status |-> "draft", total |-> amount, lines |-> amount] \in NoteRow
          /\ [note[n] EXCEPT !.total = amount] \in NoteRow
      BY DEF NoteRow, DocumentStatus
    <3>2. note' \in [Notes -> NoteRow]
      BY <2>1, <3>1 DEF CreateNote, UpdateNote, TypeOK
    <3> QED
      BY <2>1, <3>2 DEF CreateNote, UpdateNote, TypeOK
  <2>2. CASE CancelNote(n)
    <3>1. [note[n] EXCEPT !.status = "cancelled"] \in NoteRow
      BY DEF NoteRow, DocumentStatus
    <3> QED
      BY <2>2, <3>1 DEF CancelNote, TypeOK
  <2>3. CASE PostNote(n)
    <3>1. [ar |-> -note[n].total, contra |-> note[n].lines] \in Entry
      BY DEF NoteRow, Entry
    <3>2. [note[n] EXCEPT !.status = "posted"] \in NoteRow
      BY DEF NoteRow, DocumentStatus
    <3> QED
      BY <2>3, <3>1, <3>2 DEF PostNote, TypeOK
  <2> QED
    BY <1>3, <2>1, <2>2, <2>3 DEF NoteCall
<1> QED
  BY <1>1, <1>2, <1>3 DEF Next

\* The tables stay well formed.
THEOREM ReceivablesTypeCorrect == Spec => []TypeOK
<1>1. Init => TypeOK
  BY ReceivablesConstants
  DEF Init, TypeOK, InvoiceRow, ReceiptRow, NoteRow, Entry, DocumentStatus, PaymentStatuses,
      NoAllocation
<1>2. TypeOK /\ [Next]_vars => TypeOK'
  BY CallType DEF vars, TypeOK
<1> QED
  BY <1>1, <1>2, PTL DEF Spec

\* A posted invoice stays posted, whatever is called.
LEMMA PostedStays ==
  ASSUME TypeOK, Next, NEW i \in Invoices, invoice[i].status = "posted"
  PROVE  invoice'[i].status = "posted"
<1>1. ASSUME NEW j \in Invoices, InvoiceCall(j)
      PROVE  invoice'[i].status = "posted"
  BY <1>1 DEF InvoiceCall, CreateInvoice, UpdateInvoice, CancelInvoice, PostInvoice, TypeOK,
                  InvoiceRow
<1>2. ASSUME NEW r \in Receipts, ReceiptCall(r)
      PROVE  invoice'[i].status = "posted"
  <2>1. CASE PostReceipt(r)
    BY <2>1 DEF PostReceipt, Settle, TypeOK, InvoiceRow
  <2>2. CASE UNCHANGED invoice
    BY <2>2
  <2> QED
    BY <1>2, <2>1, <2>2 DEF ReceiptCall, CreateReceipt, UpdateReceipt, CancelReceipt
<1>3. ASSUME NEW n \in Notes, NoteCall(n)
      PROVE  invoice'[i].status = "posted"
  BY <1>3 DEF NoteCall, CreateNote, UpdateNote, CancelNote, PostNote
<1> QED
  BY <1>1, <1>2, <1>3 DEF Next

\* Every allocation a call writes was in the table before, or names an invoice found posted.
LEMMA AllocationSource ==
  ASSUME TypeOK, Next, NEW r \in Receipts, NEW i \in Invoices, alloc'[r][i] > 0
  PROVE  alloc[r][i] > 0 \/ invoice[i].status = "posted"
<1>1. CASE UNCHANGED alloc
  BY <1>1
<1>2. ASSUME NEW q \in Receipts, NEW amount \in Amounts, NEW a \in [Invoices -> 0 .. MaxAmount],
             CreateReceipt(q, amount, a) \/ UpdateReceipt(q, amount, a)
      PROVE  alloc[r][i] > 0 \/ invoice[i].status = "posted"
  <2>1. alloc' = [alloc EXCEPT ![q] = a]
    BY <1>2 DEF CreateReceipt, UpdateReceipt
  <2>2. \A j \in Invoices : a[j] > 0 => invoice[j].status = "posted"
    BY <1>2 DEF CreateReceipt, UpdateReceipt, ValidAllocations
  <2> QED
    BY <2>1, <2>2 DEF TypeOK
<1>3. ASSUME NEW q \in Receipts, CancelReceipt(q)
      PROVE  alloc[r][i] > 0 \/ invoice[i].status = "posted"
  BY <1>3 DEF CancelReceipt, NoAllocation, TypeOK
<1> QED
  BY <1>1, <1>2, <1>3
  DEF Next, InvoiceCall, ReceiptCall, NoteCall, CreateInvoice, UpdateInvoice, CancelInvoice,
      PostInvoice, PostReceipt, CreateNote, UpdateNote, CancelNote, PostNote

\* An allocation always names a posted invoice, for any number of documents: validation
\* finds it posted, and no later call on the invoice takes that back.
THEOREM AllocationsStand == Spec => []AllocationsNamePosted
<1>1. Init => AllocationsNamePosted
  BY DEF Init, AllocationsNamePosted, NoAllocation
<1>2. TypeOK /\ AllocationsNamePosted /\ [Next]_vars => AllocationsNamePosted'
  <2>1. CASE UNCHANGED vars
    BY <2>1 DEF vars, AllocationsNamePosted
  <2>2. ASSUME TypeOK, AllocationsNamePosted, Next
        PROVE  AllocationsNamePosted'
    <3> SUFFICES ASSUME NEW r \in Receipts, NEW i \in Invoices, alloc'[r][i] > 0
                 PROVE  invoice'[i].status = "posted"
      BY DEF AllocationsNamePosted
    <3>1. invoice[i].status = "posted"
      BY <2>2, AllocationSource DEF AllocationsNamePosted
    <3> QED
      BY <2>2, <3>1, PostedStays
  <2> QED
    BY <2>1, <2>2
<1> QED
  BY <1>1, <1>2, ReceivablesTypeCorrect, PTL DEF Spec

\* A note that is not posted has no entry yet.
UnpostedNotes ==
  \A n \in Notes : note[n].status # "posted" => journal[n] = [ar |-> 0, contra |-> 0]

\* Every call leaves balanced entries, and none for a note that is not posted.
LEMMA CallBalances ==
  ASSUME TypeOK, EntriesBalance, UnpostedNotes, Next
  PROVE  EntriesBalance' /\ UnpostedNotes'
<1> USE ReceivablesConstants
<1>1. CASE UNCHANGED <<note, journal>>
  BY <1>1 DEF EntriesBalance, UnpostedNotes
<1>2. ASSUME NEW i \in Invoices, PostInvoice(i)
      PROVE  EntriesBalance' /\ UnpostedNotes'
  <2>1. invoice[i].total \in Int
    BY DEF TypeOK, InvoiceRow
  <2>2. /\ journal'[i].ar + journal'[i].contra = 0
        /\ \A d \in Documents \ {i} : journal'[d] = journal[d]
        /\ UNCHANGED note
        /\ \A n \in Notes : n \in Documents \ {i}
    BY <1>2, <2>1 DEF PostInvoice, TypeOK, Documents
  <2> QED
    BY <2>2 DEF EntriesBalance, UnpostedNotes
<1>3. ASSUME NEW r \in Receipts, PostReceipt(r)
      PROVE  EntriesBalance' /\ UnpostedNotes'
  <2>1. receipt[r].amount \in Int
    BY DEF TypeOK, ReceiptRow
  <2>2. /\ journal'[r].ar + journal'[r].contra = 0
        /\ \A d \in Documents \ {r} : journal'[d] = journal[d]
        /\ UNCHANGED note
        /\ \A n \in Notes : n \in Documents \ {r}
    BY <1>3, <2>1 DEF PostReceipt, ReceiptEntry, TypeOK, Documents
  <2> QED
    BY <2>2 DEF EntriesBalance, UnpostedNotes
<1>4. ASSUME NEW n \in Notes, NoteCall(n)
      PROVE  EntriesBalance' /\ UnpostedNotes'
  <2>a. note[n] \in NoteRow /\ n \in Documents /\ Notes \subseteq Documents
    BY DEF TypeOK, Documents
  <2>1. CASE PostNote(n)
    <3>1. /\ journal'[n] = [ar |-> -note[n].total, contra |-> note[n].lines]
          /\ note'[n].total = note[n].total /\ note'[n].lines = note[n].lines
          /\ note'[n].status = "posted"
          /\ \A m \in Notes \ {n} : note'[m] = note[m]
          /\ \A d \in Documents \ {n} : journal'[d] = journal[d]
      BY <2>1, <2>a DEF PostNote, TypeOK, NoteRow
    <3>2. note[n].total \in Int /\ note[n].lines \in Int
      BY <2>a DEF NoteRow
    <3>3. note'[n].total # note'[n].lines \/ journal'[n].ar + journal'[n].contra = 0
      BY <3>1, <3>2
    <3> QED
      BY <2>a, <3>1, <3>3 DEF EntriesBalance, UnpostedNotes
  <2>2. CASE ~PostNote(n)
    <3>1. /\ note[n].status # "posted"
          /\ UNCHANGED journal
          /\ \A m \in Notes \ {n} : note'[m] = note[m]
      BY <1>4, <2>2 DEF NoteCall, CreateNote, UpdateNote, CancelNote, TypeOK
    <3>2. journal[n].ar + journal[n].contra = 0 /\ journal[n] = [ar |-> 0, contra |-> 0]
      BY <3>1 DEF UnpostedNotes
    <3> QED
      BY <3>1, <3>2 DEF EntriesBalance, UnpostedNotes
  <2> QED
    BY <2>1, <2>2
<1> QED
  BY <1>1, <1>2, <1>3, <1>4
  DEF Next, InvoiceCall, CreateInvoice, UpdateInvoice, CancelInvoice, ReceiptCall, CreateReceipt,
      UpdateReceipt, CancelReceipt

\* Every posted entry balances, for any documents and amounts, except that of a note edited
\* after its creation.
THEOREM ReceivablesEntriesBalance == Spec => []EntriesBalance
<1>1. Init => EntriesBalance /\ UnpostedNotes
  BY DEF Init, EntriesBalance, UnpostedNotes, Documents
<1>2. TypeOK /\ EntriesBalance /\ UnpostedNotes /\ [Next]_vars => EntriesBalance' /\ UnpostedNotes'
  <2>1. ASSUME UNCHANGED vars, EntriesBalance, UnpostedNotes
        PROVE  EntriesBalance' /\ UnpostedNotes'
    BY <2>1 DEF vars, EntriesBalance, UnpostedNotes
  <2> QED
    BY <2>1, CallBalances
<1> QED
  BY <1>1, <1>2, ReceivablesTypeCorrect, PTL DEF Spec

-------------------------------------------------------------------------------
(* The payment status of an invoice.                                       *)

\* An invoice that was created has something to pay.
PositiveTotals == \A i \in Invoices : invoice[i].status # "none" => invoice[i].total > 0

\* The inductive invariant of settlement.
SettlementInv == TypeOK /\ AllocationsNamePosted /\ PositiveTotals /\ PaymentStatusAgrees

\* What posted receipts allocate to an invoice is a natural number.
LEMMA AllocatedTotalNat ==
  ASSUME TypeOK, NEW i \in Invoices
  PROVE  AllocatedTotal(i) \in Nat
<1> DEFINE f == [r \in Posted(receipt) |-> alloc[r][i]]
<1>1. Posted(receipt) \subseteq Receipts /\ IsFiniteSet(Posted(receipt))
  BY ReceivablesConstants, FS_Subset DEF Posted, TypeOK
<1>2. \A r \in Posted(receipt) : f[r] \in Nat
  BY <1>1, ReceivablesConstants DEF TypeOK
<1>3. DOMAIN f = Posted(receipt)
  OBVIOUS
<1> HIDE DEF f
<1>4. SumFunctionOnSet(f, Posted(receipt)) \in Nat
  BY <1>1, <1>2, SumNat
<1> QED
  BY <1>3, <1>4 DEF f, AllocatedTotal, SumFunction

\* Posting a receipt adds its allocation to the invoice's total.
LEMMA PostingAllocates ==
  ASSUME TypeOK, NEW r \in Receipts, PostReceipt(r), NEW i \in Invoices
  PROVE  /\ AllocatedTotal(i)' = AllocatedTotal(i) + alloc[r][i]
         /\ Posted(receipt)' = Posted(receipt) \cup {r}
<1> DEFINE P == Posted(receipt)
           f == [q \in P |-> alloc[q][i]]
           g == [q \in P \cup {r} |-> alloc[q][i]]
<1>1. P \subseteq Receipts /\ IsFiniteSet(P) /\ r \notin P
  BY ReceivablesConstants, FS_Subset DEF Posted, TypeOK, PostReceipt
<1>2. Posted(receipt)' = P \cup {r} /\ alloc' = alloc
  BY DEF Posted, TypeOK, PostReceipt, ReceiptRow
<1>3. \A q \in P \cup {r} : g[q] = alloc[q][i] /\ g[q] \in Int
  BY <1>1, ReceivablesConstants DEF TypeOK
<1>4. \A q \in P : f[q] = g[q]
  OBVIOUS
<1>5. AllocatedTotal(i)' = SumFunctionOnSet(g, P \cup {r})
  BY <1>2 DEF AllocatedTotal, SumFunction
<1>6. AllocatedTotal(i) = SumFunctionOnSet(f, P)
  BY DEF AllocatedTotal, SumFunction
<1> HIDE DEF P, f, g
<1>7. SumFunctionOnSet(g, P \cup {r}) = SumFunctionOnSet(g, P) + g[r]
  BY <1>1, <1>3, SumAdd
<1>8. SumFunctionOnSet(f, P) = SumFunctionOnSet(g, P)
  BY <1>1, <1>4, SumSame
<1> QED
  BY <1>2, <1>3, <1>5, <1>6, <1>7, <1>8 DEF P

\* A call that posts no receipt leaves what posted receipts allocate.
LEMMA OthersAllocateNothing ==
  ASSUME TypeOK, NEW i \in Invoices, Next, ~ \E r \in Receipts : PostReceipt(r)
  PROVE  /\ AllocatedTotal(i)' = AllocatedTotal(i)
         /\ Posted(receipt)' = Posted(receipt)
         /\ \A q \in Posted(receipt) : alloc'[q] = alloc[q]
<1>1. CASE UNCHANGED <<receipt, alloc>>
  BY <1>1 DEF AllocatedTotal, Posted
<1>2. ASSUME NEW r \in Receipts, receipt[r].status # "posted",
             receipt'[r].status # "posted", DOMAIN receipt' = Receipts,
             \A q \in Receipts \ {r} : receipt'[q] = receipt[q] /\ alloc'[q] = alloc[q]
      PROVE  /\ Posted(receipt)' = Posted(receipt)
             /\ \A q \in Posted(receipt) : alloc'[q] = alloc[q]
  BY <1>2 DEF Posted, TypeOK
<1>3. ASSUME NEW r \in Receipts, NEW amount \in Amounts, NEW a \in [Invoices -> 0 .. MaxAmount],
             CreateReceipt(r, amount, a) \/ UpdateReceipt(r, amount, a)
      PROVE  /\ Posted(receipt)' = Posted(receipt)
             /\ \A q \in Posted(receipt) : alloc'[q] = alloc[q]
  <2>1. receipt \in [Receipts -> ReceiptRow] /\ alloc \in [Receipts -> [Invoices -> 0 .. MaxAmount]]
    BY DEF TypeOK
  <2>2. receipt[r].status # "posted"
    BY <1>3 DEF CreateReceipt, UpdateReceipt
  <2>3. CASE CreateReceipt(r, amount, a)
    <3>1. DOMAIN receipt' = Receipts /\ receipt'[r].status = "draft"
      BY <2>1, <2>3 DEF CreateReceipt
    <3>2. \A q \in Receipts \ {r} : receipt'[q] = receipt[q] /\ alloc'[q] = alloc[q]
      BY <2>1, <2>3 DEF CreateReceipt
    <3> QED
      BY <1>2, <2>2, <3>1, <3>2
  <2>4. CASE UpdateReceipt(r, amount, a)
    <3>1. DOMAIN receipt' = Receipts /\ receipt'[r].status = "draft"
      BY <2>1, <2>4 DEF UpdateReceipt, ReceiptRow
    <3>2. \A q \in Receipts \ {r} : receipt'[q] = receipt[q] /\ alloc'[q] = alloc[q]
      BY <2>1, <2>4 DEF UpdateReceipt
    <3> QED
      BY <1>2, <2>2, <3>1, <3>2
  <2> QED
    BY <1>3, <2>3, <2>4
<1>4. ASSUME NEW r \in Receipts, CancelReceipt(r)
      PROVE  /\ Posted(receipt)' = Posted(receipt)
             /\ \A q \in Posted(receipt) : alloc'[q] = alloc[q]
  BY <1>2, <1>4 DEF CancelReceipt, TypeOK, ReceiptRow
<1>5. /\ Posted(receipt)' = Posted(receipt)
      /\ \A q \in Posted(receipt) : alloc'[q] = alloc[q]
  BY <1>1, <1>3, <1>4
  DEF Next, InvoiceCall, ReceiptCall, NoteCall, CreateInvoice, UpdateInvoice, CancelInvoice,
      PostInvoice, CreateNote, UpdateNote, CancelNote, PostNote
<1>6. [q \in Posted(receipt)' |-> alloc'[q][i]] = [q \in Posted(receipt) |-> alloc[q][i]]
  BY <1>5
<1> QED
  BY <1>5, <1>6 DEF AllocatedTotal

\* Nothing is allocated to an invoice that is not posted.
LEMMA UnpostedHasNone ==
  ASSUME TypeOK, AllocationsNamePosted, NEW i \in Invoices, invoice[i].status # "posted"
  PROVE  AllocatedTotal(i) = 0 /\ \A r \in Receipts : alloc[r][i] = 0
<1> DEFINE f == [r \in Posted(receipt) |-> alloc[r][i]]
<1>1. \A r \in Receipts : alloc[r][i] = 0
  BY ReceivablesConstants DEF AllocationsNamePosted, TypeOK
<1>2. Posted(receipt) \subseteq Receipts /\ IsFiniteSet(Posted(receipt))
  BY ReceivablesConstants, FS_Subset DEF Posted, TypeOK
<1>3. (\A r \in Posted(receipt) : f[r] = 0) /\ DOMAIN f = Posted(receipt)
  BY <1>1, <1>2
<1> HIDE DEF f
<1>4. SumFunctionOnSet(f, Posted(receipt)) = 0
  BY <1>2, <1>3, SumZero
<1> QED
  BY <1>1, <1>3, <1>4 DEF f, AllocatedTotal, SumFunction

\* The payment status and date of invoice i agree with what posted receipts allocate.
Settled(i) ==
  /\ invoice[i].status = "posted" =>
       invoice[i].payment = PaymentStatus(invoice[i].total, AllocatedTotal(i))
  /\ (invoice[i].paidBy # Nil) <=> \E r \in Posted(receipt) : alloc[r][i] > 0

\* A call on an invoice.
LEMMA InvoiceCallSettles ==
  ASSUME SettlementInv, Next, NEW j \in Invoices, InvoiceCall(j), NEW i \in Invoices
  PROVE  Settled(i)' /\ (invoice'[i].status # "none" => invoice'[i].total > 0)
<1>1. /\ UNCHANGED <<receipt, alloc>>
      /\ \A k \in Invoices \ {j} : invoice'[k] = invoice[k]
      /\ invoice[j].status # "posted"
  BY DEF InvoiceCall, CreateInvoice, UpdateInvoice, CancelInvoice, PostInvoice, SettlementInv,
         TypeOK
<1>2. Settled(i) /\ (invoice[i].status # "none" => invoice[i].total > 0)
  BY DEF SettlementInv, PaymentStatusAgrees, PositiveTotals, Settled
<1>3. CASE i # j
  BY <1>1, <1>2, <1>3 DEF Settled, AllocatedTotal, Posted
<1>4. CASE i = j
  <2>1. AllocatedTotal(i)' = 0 /\ \A r \in Receipts : alloc'[r][i] = 0
    <3>1. AllocatedTotal(i) = 0 /\ \A r \in Receipts : alloc[r][i] = 0
      BY <1>1, <1>4, UnpostedHasNone DEF SettlementInv
    <3> QED
      BY <1>1, <3>1 DEF AllocatedTotal, Posted
  <2>2. invoice[i].paidBy = Nil
    BY <1>1, <1>2, <2>1 DEF Settled, Posted, SettlementInv, TypeOK
  <2>3. /\ invoice'[i].paidBy = Nil
        /\ invoice'[i].status = "posted" => invoice'[i].payment = "unpaid"
        /\ invoice'[i].total \in Int
        /\ invoice'[i].status # "none" => invoice'[i].total > 0
    <3>0. invoice \in [Invoices -> InvoiceRow] /\ invoice[i] \in InvoiceRow
      BY DEF SettlementInv, TypeOK
    <3>1. ASSUME NEW amount \in Amounts, NEW withheld \in BOOLEAN,
                 CreateInvoice(i, amount, withheld) \/ UpdateInvoice(i, amount, withheld)
          PROVE  /\ invoice'[i].paidBy = Nil
                 /\ invoice'[i].status = "draft"
                 /\ invoice'[i].total \in Int /\ invoice'[i].total > 0
      <4>1. invoice'[i] = DraftInvoice(amount, withheld)
        BY <3>0, <3>1 DEF CreateInvoice, UpdateInvoice
      <4> QED
        BY <4>1, ReceivablesConstants DEF DraftInvoice, Amounts
    <3>2. ASSUME CancelInvoice(i) \/ PostInvoice(i)
          PROVE  /\ invoice'[i].paidBy = Nil
                 /\ invoice'[i].status = "posted" => invoice'[i].payment = "unpaid"
                 /\ invoice'[i].total \in Int /\ invoice'[i].total > 0
      <4>1. PICK status \in {"cancelled", "posted"} :
              invoice'[i] = [invoice[i] EXCEPT !.status = status, !.payment = "unpaid"]
        BY <3>0, <3>2 DEF CancelInvoice, PostInvoice
      <4>2. /\ invoice'[i].paidBy = invoice[i].paidBy
            /\ invoice'[i].payment = "unpaid"
            /\ invoice'[i].total = invoice[i].total
            /\ invoice[i].total \in Int
        BY <3>0, <4>1, ReceivablesConstants DEF InvoiceRow
      <4>3. invoice[i].status # "none"
        BY <3>2 DEF CancelInvoice, PostInvoice
      <4> QED
        BY <1>2, <2>2, <4>2, <4>3
    <3> QED
      BY <1>4, <3>1, <3>2 DEF InvoiceCall
  <2>4. Posted(receipt)' \subseteq Receipts
    BY <1>1 DEF Posted, SettlementInv, TypeOK
  <2> QED
    BY <2>1, <2>3, <2>4 DEF Settled, PaymentStatus
<1> QED
  BY <1>3, <1>4

\* A posted receipt: the invoices it names are settled with it in the totals.
LEMMA PostReceiptSettles ==
  ASSUME SettlementInv, NEW r \in Receipts, PostReceipt(r), NEW i \in Invoices
  PROVE  Settled(i)' /\ (invoice'[i].status # "none" => invoice'[i].total > 0)
<1>1. Settled(i) /\ (invoice[i].status # "none" => invoice[i].total > 0)
  BY DEF SettlementInv, PaymentStatusAgrees, PositiveTotals, Settled
<1>2. /\ AllocatedTotal(i)' = AllocatedTotal(i) + alloc[r][i]
      /\ Posted(receipt)' = Posted(receipt) \cup {r}
      /\ alloc' = alloc
      /\ invoice'[i] = Settle(i, r)
  BY PostingAllocates DEF PostReceipt, SettlementInv
<1>3. /\ invoice[i] \in InvoiceRow /\ alloc[r][i] \in Nat /\ AllocatedTotal(i) \in Nat
      /\ alloc[r][i] > 0 => invoice[i].status = "posted"
  BY AllocatedTotalNat, ReceivablesConstants DEF SettlementInv, TypeOK, AllocationsNamePosted
<1>4. CASE alloc[r][i] = 0
  <2>1. invoice'[i] = invoice[i] /\ AllocatedTotal(i)' = AllocatedTotal(i)
    BY <1>2, <1>3, <1>4 DEF Settle
  <2>2. (\E q \in Posted(receipt)' : alloc'[q][i] > 0)
          <=> \E q \in Posted(receipt) : alloc[q][i] > 0
    BY <1>2, <1>4
  <2> QED
    BY <1>1, <2>1, <2>2 DEF Settled
<1>5. CASE alloc[r][i] > 0
  <2>1. /\ invoice'[i].status = "posted"
        /\ invoice'[i].total = invoice[i].total
        /\ invoice'[i].payment = PaymentStatus(invoice[i].total, AllocatedTotal(i) + alloc[r][i])
        /\ invoice'[i].paidBy # Nil
    BY <1>2, <1>3, <1>5, ReceivablesConstants DEF Settle, InvoiceRow
  <2> QED
    BY <1>1, <1>2, <1>3, <1>5, <2>1 DEF Settled
<1> QED
  BY <1>3, <1>4, <1>5

\* The stored payment status and date of every invoice are the ones its posted receipts give,
\* for any documents and amounts and in whatever order they are posted.
THEOREM ReceivablesPaymentStatus == Spec => []PaymentStatusAgrees
<1> DEFINE Inv == PositiveTotals /\ PaymentStatusAgrees
<1>1. Init => Inv
  <2> SUFFICES ASSUME Init PROVE Inv
    OBVIOUS
  <2>1. Posted(receipt) = {}
    BY DEF Init, Posted
  <2> QED
    BY <2>1 DEF Init, PositiveTotals, PaymentStatusAgrees
<1>2. TypeOK /\ AllocationsNamePosted /\ Inv /\ [Next]_vars => Inv'
  <2>1. ASSUME UNCHANGED vars, Inv
        PROVE  Inv'
    BY <2>1 DEF vars, PositiveTotals, PaymentStatusAgrees, AllocatedTotal, Posted
  <2>2. ASSUME SettlementInv, Next, NEW i \in Invoices
        PROVE  Settled(i)' /\ (invoice'[i].status # "none" => invoice'[i].total > 0)
    <3>1. CASE \E j \in Invoices : InvoiceCall(j)
      BY <2>2, <3>1, InvoiceCallSettles
    <3>2. CASE \E r \in Receipts : PostReceipt(r)
      BY <2>2, <3>2, PostReceiptSettles
    <3>3. CASE UNCHANGED invoice /\ ~ \E r \in Receipts : PostReceipt(r)
      <4>1. /\ AllocatedTotal(i)' = AllocatedTotal(i)
            /\ Posted(receipt)' = Posted(receipt)
            /\ \A q \in Posted(receipt) : alloc'[q] = alloc[q]
        BY <2>2, <3>3, OthersAllocateNothing DEF SettlementInv
      <4> QED
        BY <2>2, <3>3, <4>1 DEF SettlementInv, PositiveTotals, PaymentStatusAgrees, Settled
    <3> QED
      BY <2>2, <3>1, <3>2, <3>3
      DEF Next, ReceiptCall, CreateReceipt, UpdateReceipt, CancelReceipt, NoteCall, CreateNote,
          UpdateNote, CancelNote, PostNote
  <2> QED
    BY <2>1, <2>2 DEF SettlementInv, Settled, PositiveTotals, PaymentStatusAgrees
<1> QED
  BY <1>1, <1>2, ReceivablesTypeCorrect, AllocationsStand, PTL DEF Spec

-------------------------------------------------------------------------------
(* The control account.                                                    *)

\* The AR side of the journal is what the documents say: a posted invoice at its total, a
\* posted receipt at its amount, a posted note at its header total, and nothing else.
JournalFollows ==
  /\ \A i \in Invoices :
       journal[i].ar = IF invoice[i].status = "posted" THEN invoice[i].total ELSE 0
  /\ \A r \in Receipts :
       journal[r].ar = IF receipt[r].status = "posted" THEN -receipt[r].amount ELSE 0
  /\ \A n \in Notes :
       journal[n].ar = IF note[n].status = "posted" THEN -note[n].total ELSE 0

\* Every call keeps it so: no call changes the amount of a posted document.
LEMMA CallFollows ==
  ASSUME TypeOK, JournalFollows, Next
  PROVE  JournalFollows'
<1> USE ReceivablesConstants DEF JournalFollows
<1>1. ASSUME NEW j \in Invoices, InvoiceCall(j)
      PROVE  JournalFollows'
  <2>0. invoice[j] \in InvoiceRow /\ j \notin Receipts /\ j \notin Notes /\ j \in Documents
    BY DEF TypeOK, Documents
  <2>1. /\ UNCHANGED <<receipt, note>>
        /\ \A i \in Invoices \ {j} : invoice'[i] = invoice[i]
        /\ \A d \in Documents \ {j} : journal'[d] = journal[d]
    BY <1>1 DEF InvoiceCall, CreateInvoice, UpdateInvoice, CancelInvoice, PostInvoice, TypeOK
  <2>2. journal'[j].ar = IF invoice'[j].status = "posted" THEN invoice'[j].total ELSE 0
    <3>1. CASE PostInvoice(j)
      BY <3>1, <2>0 DEF PostInvoice, TypeOK, InvoiceRow
    <3>2. ASSUME NEW amount \in Amounts, NEW withheld \in BOOLEAN,
                 CreateInvoice(j, amount, withheld) \/ UpdateInvoice(j, amount, withheld)
          PROVE  journal'[j].ar = IF invoice'[j].status = "posted" THEN invoice'[j].total ELSE 0
      BY <3>2 DEF CreateInvoice, UpdateInvoice, DraftInvoice, TypeOK
    <3>3. CASE CancelInvoice(j)
      BY <3>3, <2>0 DEF CancelInvoice, TypeOK, InvoiceRow
    <3> QED
      BY <1>1, <3>1, <3>2, <3>3 DEF InvoiceCall
  <2> QED
    BY <2>0, <2>1, <2>2 DEF Documents
<1>2. ASSUME NEW q \in Receipts, ReceiptCall(q)
      PROVE  JournalFollows'
  <2>0. receipt[q] \in ReceiptRow /\ q \notin Invoices /\ q \notin Notes /\ q \in Documents
    BY DEF TypeOK, Documents
  <2>1. /\ UNCHANGED note
        /\ \A i \in Invoices : /\ invoice'[i].status = invoice[i].status
                               /\ invoice'[i].total = invoice[i].total
        /\ \A r \in Receipts \ {q} : receipt'[r] = receipt[r]
        /\ \A d \in Documents \ {q} : journal'[d] = journal[d]
    <3>1. CASE PostReceipt(q)
      <4>1. \A i \in Invoices : /\ Settle(i, q).status = invoice[i].status
                                /\ Settle(i, q).total = invoice[i].total
        BY DEF Settle, TypeOK, InvoiceRow
      <4> QED
        BY <3>1, <4>1 DEF PostReceipt, TypeOK
    <3>2. CASE ~PostReceipt(q)
      BY <1>2, <3>2 DEF ReceiptCall, CreateReceipt, UpdateReceipt, CancelReceipt, TypeOK
    <3> QED
      BY <3>1, <3>2
  <2>2. journal'[q].ar = IF receipt'[q].status = "posted" THEN -receipt'[q].amount ELSE 0
    <3>1. CASE PostReceipt(q)
      BY <3>1, <2>0 DEF PostReceipt, ReceiptEntry, TypeOK, ReceiptRow
    <3>2. CASE ~PostReceipt(q)
      <4>1. receipt'[q].status # "posted"
        BY <1>2, <2>0, <3>2
        DEF ReceiptCall, CreateReceipt, UpdateReceipt, CancelReceipt, TypeOK, ReceiptRow
      <4>2. receipt[q].status # "posted" /\ UNCHANGED journal
        BY <1>2, <3>2 DEF ReceiptCall, CreateReceipt, UpdateReceipt, CancelReceipt
      <4> QED
        BY <4>1, <4>2
    <3> QED
      BY <3>1, <3>2
  <2> QED
    BY <2>0, <2>1, <2>2 DEF Documents
<1>3. ASSUME NEW m \in Notes, NoteCall(m)
      PROVE  JournalFollows'
  <2>0. note[m] \in NoteRow /\ m \notin Invoices /\ m \notin Receipts /\ m \in Documents
    BY DEF TypeOK, Documents
  <2>1. /\ UNCHANGED <<invoice, receipt>>
        /\ \A n \in Notes \ {m} : note'[n] = note[n]
        /\ \A d \in Documents \ {m} : journal'[d] = journal[d]
    BY <1>3 DEF NoteCall, CreateNote, UpdateNote, CancelNote, PostNote, TypeOK
  <2>2. journal'[m].ar = IF note'[m].status = "posted" THEN -note'[m].total ELSE 0
    <3>1. CASE PostNote(m)
      BY <3>1, <2>0 DEF PostNote, TypeOK, NoteRow
    <3>2. CASE ~PostNote(m)
      <4>1. note'[m].status # "posted"
        BY <1>3, <2>0, <3>2 DEF NoteCall, CreateNote, UpdateNote, CancelNote, TypeOK, NoteRow
      <4>2. note[m].status # "posted" /\ UNCHANGED journal
        BY <1>3, <3>2 DEF NoteCall, CreateNote, UpdateNote, CancelNote
      <4> QED
        BY <4>1, <4>2
    <3> QED
      BY <3>1, <3>2
  <2> QED
    BY <2>0, <2>1, <2>2 DEF Documents
<1> QED
  BY <1>1, <1>2, <1>3 DEF Next

\* What posted receipts allocate, by receipt or by invoice: the same total, for every
\* allocation of a posted receipt names a posted invoice.
LEMMA AllocationsBothWays ==
  ASSUME TypeOK, AllocationsNamePosted
  PROVE  SumFunctionOnSet([r \in Posted(receipt) |-> SumFunction(alloc[r])], Posted(receipt))
           = SumFunctionOnSet([i \in Posted(invoice) |-> AllocatedTotal(i)], Posted(invoice))
<1> DEFINE R == Posted(receipt)
           I == Posted(invoice)
           row == [r \in R |-> SumFunction(alloc[r])]
           row2 == [r \in R |-> SumFunctionOnSet(alloc[r], Invoices)]
           column == [i \in Invoices |-> AllocatedTotal(i)]
           part == [i \in I |-> AllocatedTotal(i)]
<1>1. R \subseteq Receipts /\ I \in SUBSET Invoices /\ IsFiniteSet(R)
  BY ReceivablesConstants, FS_Subset DEF Posted, TypeOK
<1>2. row = row2
  <2>1. \A r \in R : DOMAIN alloc[r] = Invoices
    BY <1>1 DEF TypeOK
  <2> QED
    BY <2>1 DEF SumFunction
<1>3. SumFunctionOnSet(row2, R) = SumFunctionOnSet(column, Invoices)
  <2>1. \A r \in R, i \in Invoices : alloc[r][i] \in Int
    BY <1>1, ReceivablesConstants DEF TypeOK
  <2>2. column = [i \in Invoices |-> SumFunctionOnSet([r \in R |-> alloc[r][i]], R)]
    BY DEF AllocatedTotal, SumFunction
  <2>3. SumFunctionOnSet([r \in R |-> SumFunctionOnSet(alloc[r], Invoices)], R)
          = SumFunctionOnSet([i \in Invoices |-> SumFunctionOnSet([r \in R |-> alloc[r][i]], R)],
                             Invoices)
    <3> HIDE DEF R
    <3> QED
      BY <1>1, <2>1, ReceivablesConstants, SumSwap
  <2> QED
    BY <2>2, <2>3
<1>4. SumFunctionOnSet(column, Invoices) = SumFunctionOnSet(part, I)
  <2>1. \A i \in I : part[i] \in Int /\ column[i] = part[i]
    BY <1>1, AllocatedTotalNat
  <2>2. \A i \in Invoices \ I : column[i] = 0
    BY UnpostedHasNone DEF Posted, TypeOK
  <2> HIDE DEF I, column, part
  <2> QED
    BY <1>1, <2>1, <2>2, ReceivablesConstants, SumExtend
<1> QED
  BY <1>2, <1>3, <1>4

\* Where the journal follows the documents and every allocation names a posted invoice, the
\* control account is what the customer owes.
LEMMA FollowingAgrees ==
  ASSUME TypeOK, AllocationsNamePosted, JournalFollows
  PROVE  ControlAgrees
<1> USE ReceivablesConstants
<1> DEFINE I == Posted(invoice)
           R == Posted(receipt)
           N == Posted(note)
           ar == [d \in Documents |-> journal[d].ar]
           total == [i \in I |-> invoice[i].total]
           paid == [i \in I |-> AllocatedTotal(i)]
           open == [i \in I |-> invoice[i].total - AllocatedTotal(i)]
           amount == [r \in R |-> receipt[r].amount]
           minus == [r \in R |-> -receipt[r].amount]
           used == [r \in R |-> SumFunction(alloc[r])]
           left == [r \in R |-> receipt[r].amount - SumFunction(alloc[r])]
           credit == [n \in N |-> note[n].total]
           debit == [n \in N |-> -note[n].total]
<1>1. /\ I \in SUBSET Invoices /\ IsFiniteSet(I)
      /\ R \in SUBSET Receipts /\ IsFiniteSet(R)
      /\ N \in SUBSET Notes /\ IsFiniteSet(N)
  BY FS_Subset DEF Posted, TypeOK
<1>2. /\ \A i \in Invoices : invoice[i].total \in Int
      /\ \A r \in Receipts : receipt[r].amount \in Int
      /\ \A n \in Notes : note[n].total \in Int
      /\ \A d \in Documents : ar[d] \in Int
  BY DEF TypeOK, InvoiceRow, ReceiptRow, NoteRow, Entry
<1>3. \A i \in Invoices : AllocatedTotal(i) \in Int
  BY AllocatedTotalNat
<1>4. \A r \in Receipts : SumFunction(alloc[r]) \in Int
  <2> SUFFICES ASSUME NEW r \in Receipts
               PROVE  SumFunction(alloc[r]) \in Int
    OBVIOUS
  <2>1. DOMAIN alloc[r] = Invoices /\ \A i \in Invoices : alloc[r][i] \in Int
    BY DEF TypeOK
  <2>2. SumFunctionOnSet(alloc[r], Invoices) \in Int
    BY <2>1, SumInt
  <2> QED
    BY <2>1, <2>2 DEF SumFunction
<1>5. ControlBalance = SumFunctionOnSet(ar, Invoices) + SumFunctionOnSet(ar, Receipts)
                         + SumFunctionOnSet(ar, Notes)
  <2>1. ControlBalance = SumFunctionOnSet(ar, (Invoices \cup Receipts) \cup Notes)
    BY DEF ControlBalance, SumFunction, Documents
  <2>2. IsFiniteSet(Invoices \cup Receipts) /\ (Invoices \cup Receipts) \cap Notes = {}
    BY FS_Union
  <2> HIDE DEF ar
  <2>3. /\ \A d \in (Invoices \cup Receipts) \cup Notes : ar[d] \in Int
        /\ \A d \in Invoices \cup Receipts : ar[d] \in Int
    BY <1>2 DEF Documents
  <2>4. SumFunctionOnSet(ar, (Invoices \cup Receipts) \cup Notes)
          = SumFunctionOnSet(ar, Invoices \cup Receipts) + SumFunctionOnSet(ar, Notes)
    BY <2>2, <2>3, SumDisjoint
  <2>5. SumFunctionOnSet(ar, Invoices \cup Receipts)
          = SumFunctionOnSet(ar, Invoices) + SumFunctionOnSet(ar, Receipts)
    BY <2>3, SumDisjoint
  <2> QED
    BY <2>1, <2>4, <2>5
<1>6. SumFunctionOnSet(ar, Invoices) = SumFunctionOnSet(total, I)
  <2>1. \A i \in I : total[i] \in Int /\ ar[i] = total[i]
    BY <1>1, <1>2 DEF JournalFollows, Posted, Documents
  <2>2. \A i \in Invoices \ I : ar[i] = 0
    BY DEF JournalFollows, Posted, Documents, TypeOK
  <2> HIDE DEF I, ar, total
  <2> QED
    BY <1>1, <2>1, <2>2, SumExtend
<1>7. SumFunctionOnSet(ar, Receipts) = SumFunctionOnSet(minus, R)
  <2>1. \A r \in R : minus[r] \in Int /\ ar[r] = minus[r]
    BY <1>1, <1>2 DEF JournalFollows, Posted, Documents
  <2>2. \A r \in Receipts \ R : ar[r] = 0
    BY DEF JournalFollows, Posted, Documents, TypeOK
  <2> HIDE DEF R, ar, minus
  <2> QED
    BY <1>1, <2>1, <2>2, SumExtend
<1>8. SumFunctionOnSet(ar, Notes) = SumFunctionOnSet(debit, N)
  <2>1. \A n \in N : debit[n] \in Int /\ ar[n] = debit[n]
    BY <1>1, <1>2 DEF JournalFollows, Posted, Documents
  <2>2. \A n \in Notes \ N : ar[n] = 0
    BY DEF JournalFollows, Posted, Documents, TypeOK
  <2> HIDE DEF N, ar, debit
  <2> QED
    BY <1>1, <2>1, <2>2, SumExtend
<1>9. /\ \A i \in I : total[i] \in Int /\ paid[i] \in Int /\ open[i] = total[i] - paid[i]
      /\ \A r \in R : /\ amount[r] \in Int /\ used[r] \in Int
                      /\ left[r] = amount[r] - used[r]
                      /\ minus[r] = -amount[r]
      /\ \A n \in N : credit[n] \in Int /\ debit[n] = -credit[n]
  BY <1>1, <1>2, <1>3, <1>4
<1>10. /\ Owed = SumFunctionOnSet(open, I)
       /\ Unapplied = SumFunctionOnSet(left, R)
       /\ Credited = SumFunctionOnSet(credit, N)
  BY DEF Owed, Unapplied, Credited, SumFunction
<1>11. SumFunctionOnSet(used, R) = SumFunctionOnSet(paid, I)
  BY AllocationsBothWays
<1> HIDE DEF I, R, N, ar, total, paid, open, amount, minus, used, left, credit, debit
<1>12. SumFunctionOnSet(open, I) = SumFunctionOnSet(total, I) - SumFunctionOnSet(paid, I)
  BY <1>1, <1>9, SumMinus
<1>13. /\ SumFunctionOnSet(left, R) = SumFunctionOnSet(amount, R) - SumFunctionOnSet(used, R)
       /\ SumFunctionOnSet(minus, R) = -SumFunctionOnSet(amount, R)
  BY <1>1, <1>9, SumMinus, SumNegate
<1>14. SumFunctionOnSet(debit, N) = -SumFunctionOnSet(credit, N)
  BY <1>1, <1>9, SumNegate
<1>15. /\ SumFunctionOnSet(total, I) \in Int /\ SumFunctionOnSet(paid, I) \in Int
       /\ SumFunctionOnSet(amount, R) \in Int /\ SumFunctionOnSet(credit, N) \in Int
  BY <1>1, <1>9, SumInt
<1> QED
  BY <1>5, <1>6, <1>7, <1>8, <1>10, <1>11, <1>12, <1>13, <1>14, <1>15 DEF ControlAgrees

\* The AR control account equals what the customer owes by the documents, for any number of
\* invoices, receipts and credit notes: over-allocation, which the code does not exclude,
\* moves what is owed and what is unapplied alike.
THEOREM ReceivablesControl == Spec => []ControlAgrees
<1>1. Init => JournalFollows
  BY DEF Init, JournalFollows, Documents
<1>2. TypeOK /\ JournalFollows /\ [Next]_vars => JournalFollows'
  BY CallFollows DEF vars, JournalFollows
<1>3. TypeOK /\ AllocationsNamePosted /\ JournalFollows => ControlAgrees
  BY FollowingAgrees
<1> QED
  BY <1>1, <1>2, <1>3, ReceivablesTypeCorrect, AllocationsStand, PTL DEF Spec
================================================================================
