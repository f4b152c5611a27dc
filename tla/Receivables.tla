------------------------------ MODULE Receivables ------------------------------
(***************************************************************************)
(* The receivables of one customer in one currency: sales invoices, the    *)
(* receipts that settle them, credit notes, and what each leaves in the    *)
(* journal when it is posted.                                              *)
(*                                                                         *)
(* A step is one service call from its first read to its commit; calls     *)
(* that overlap are the subject of module Ledger.  A call is refused for   *)
(* reasons this module does not follow (a permission, a period that is not *)
(* open, a filed VAT period, an account that is not mapped): a refused     *)
(* call changes nothing, and nothing below relies on a refusal.  Revenue   *)
(* and tax are one contra side; stock issued at posting is not followed.   *)
(***************************************************************************)
EXTENDS Integers, Functions, FiniteSets

CONSTANTS Invoices, Receipts, Notes,  \* primary keys of the three documents
          MaxAmount,                  \* bound on amounts, in the smallest money unit
          Nil

ASSUME ReceivablesConstants ==
  /\ MaxAmount \in Nat \ {0}
  /\ Invoices \cap Receipts = {} /\ Invoices \cap Notes = {} /\ Receipts \cap Notes = {}
  /\ Nil \notin Receipts
  /\ IsFiniteSet(Invoices) /\ IsFiniteSet(Receipts) /\ IsFiniteSet(Notes)

VARIABLES invoice,      \* sales_invoices
          receipt,      \* customer_receipts
          alloc,        \* customer_receipt_allocations: amount per receipt and invoice
          note,         \* sales_credit_notes: header total and the sum of its lines
          journal,      \* per document, its entry's amount on AR control and on the contra side
          certificates  \* inbound withholding certificates, by receipt and invoice

vars == <<invoice, receipt, alloc, note, journal, certificates>>

Amounts == 1 .. MaxAmount
Documents == Invoices \cup Receipts \cup Notes
DocumentStatus == {"none", "draft", "posted", "cancelled"}
PaymentStatuses == {"unpaid", "partial", "paid"}

InvoiceRow == [status : DocumentStatus, total : 0 .. MaxAmount, withheld : BOOLEAN,
               payment : PaymentStatuses, paidBy : Receipts \cup {Nil}]
ReceiptRow == [status : DocumentStatus, amount : 0 .. MaxAmount]
NoteRow == [status : DocumentStatus, total : 0 .. MaxAmount, lines : 0 .. MaxAmount]
Entry == [ar : Int, contra : Int]
NoAllocation == [i \in Invoices |-> 0]

-------------------------------------------------------------------------------
(* Sales invoices.  "paidBy" is the receipt whose date the tax lines of    *)
(* the invoice carry as payment date.                                      *)

DraftInvoice(amount, withheld) ==
  [status |-> "draft", total |-> amount, withheld |-> withheld, payment |-> "unpaid",
   paidBy |-> Nil]

CreateInvoice(i, amount, withheld) ==
  /\ invoice[i].status = "none"
  /\ invoice' = [invoice EXCEPT ![i] = DraftInvoice(amount, withheld)]
  /\ UNCHANGED <<receipt, alloc, note, journal, certificates>>

UpdateInvoice(i, amount, withheld) ==
  /\ invoice[i].status = "draft"
  /\ invoice' = [invoice EXCEPT ![i] = DraftInvoice(amount, withheld)]
  /\ UNCHANGED <<receipt, alloc, note, journal, certificates>>

\* Mutant: a posted invoice can be cancelled too.
CancelInvoiceAny(i) ==
  /\ invoice[i].status \in {"draft", "posted"}
  /\ invoice' = [invoice EXCEPT ![i] = [@ EXCEPT !.status = "cancelled", !.payment = "unpaid"]]
  /\ UNCHANGED <<receipt, alloc, note, journal, certificates>>

CancelInvoice(i) ==
  /\ invoice[i].status = "draft"
  /\ invoice' = [invoice EXCEPT ![i] = [@ EXCEPT !.status = "cancelled", !.payment = "unpaid"]]
  /\ UNCHANGED <<receipt, alloc, note, journal, certificates>>

PostInvoice(i) ==
  /\ invoice[i].status = "draft"
  /\ invoice' = [invoice EXCEPT ![i] = [@ EXCEPT !.status = "posted", !.payment = "unpaid"]]
  /\ journal' = [journal EXCEPT ![i] = [ar |-> invoice[i].total, contra |-> -invoice[i].total]]
  /\ UNCHANGED <<receipt, alloc, note, certificates>>

-------------------------------------------------------------------------------
(* Customer receipts and their allocations.                                *)

Posted(table) == {d \in DOMAIN table : table[d].status = "posted"}
AllocatedTotal(i) == SumFunction([r \in Posted(receipt) |-> alloc[r][i]])

\* Only posted receipts count against an open balance; other drafts do not.
ValidAllocations(a, amount) ==
  /\ \A i \in Invoices :
       a[i] > 0 => invoice[i].status = "posted" /\ a[i] <= invoice[i].total - AllocatedTotal(i)
  /\ SumFunction(a) <= amount

CreateReceipt(r, amount, a) ==
  /\ receipt[r].status = "none"
  /\ ValidAllocations(a, amount)
  /\ receipt' = [receipt EXCEPT ![r] = [status |-> "draft", amount |-> amount]]
  /\ alloc' = [alloc EXCEPT ![r] = a]
  /\ UNCHANGED <<invoice, note, journal, certificates>>

UpdateReceipt(r, amount, a) ==
  /\ receipt[r].status = "draft"
  /\ ValidAllocations(a, amount)
  /\ receipt' = [receipt EXCEPT ![r].amount = amount]
  /\ alloc' = [alloc EXCEPT ![r] = a]
  /\ UNCHANGED <<invoice, note, journal, certificates>>

CancelReceipt(r) ==
  /\ receipt[r].status = "draft"
  /\ receipt' = [receipt EXCEPT ![r].status = "cancelled"]
  /\ alloc' = [alloc EXCEPT ![r] = NoAllocation]
  /\ UNCHANGED <<invoice, note, journal, certificates>>

PaymentStatus(total, allocated) ==
  IF allocated >= total THEN "paid" ELSE IF allocated > 0 THEN "partial" ELSE "unpaid"

\* Mutant: the receipt being posted is left out of the totals, as it is not flushed yet.
SettleBefore(i, r) ==
  IF alloc[r][i] = 0 \/ invoice[i].status # "posted" THEN invoice[i]
  ELSE [invoice[i] EXCEPT !.payment = PaymentStatus(invoice[i].total, AllocatedTotal(i)),
                          !.paidBy = IF @ = Nil THEN r ELSE @]

\* Invoice i once receipt r is posted; the first payment date is kept.
Settle(i, r) ==
  IF alloc[r][i] = 0 \/ invoice[i].status # "posted" THEN invoice[i]
  ELSE [invoice[i] EXCEPT
          !.payment = PaymentStatus(invoice[i].total, AllocatedTotal(i) + alloc[r][i]),
          !.paidBy = IF @ = Nil THEN r ELSE @]

\* Mutant: the bank takes what was allocated.
ReceiptEntryLopsided(r) == [ar |-> -receipt[r].amount, contra |-> SumFunction(alloc[r])]
\* Mutant: receivables fall by what was allocated.
ReceiptEntryAllocated(r) == [ar |-> -SumFunction(alloc[r]), contra |-> SumFunction(alloc[r])]
ReceiptEntry(r) == [ar |-> -receipt[r].amount, contra |-> receipt[r].amount]

\* Allocations are not checked again.
PostReceipt(r) ==
  /\ receipt[r].status = "draft"
  /\ receipt' = [receipt EXCEPT ![r].status = "posted"]
  /\ invoice' = [i \in Invoices |-> Settle(i, r)]
  /\ certificates' = certificates
                       \cup {<<r, i>> : i \in {j \in Invoices : alloc[r][j] > 0
                                                                /\ invoice[j].withheld}}
  /\ journal' = [journal EXCEPT ![r] = ReceiptEntry(r)]
  /\ UNCHANGED <<alloc, note>>

-------------------------------------------------------------------------------
(* Sales credit notes.                                                     *)

CreateNote(n, amount) ==
  /\ note[n].status = "none"
  /\ note' = [note EXCEPT ![n] = [status |-> "draft", total |-> amount, lines |-> amount]]
  /\ UNCHANGED <<invoice, receipt, alloc, journal, certificates>>

\* The lines are rebuilt to total the header and then dropped: the stored ones stay.
UpdateNote(n, amount) ==
  /\ note[n].status = "draft"
  /\ note' = [note EXCEPT ![n].total = amount]
  /\ UNCHANGED <<invoice, receipt, alloc, journal, certificates>>

CancelNote(n) ==
  /\ note[n].status = "draft"
  /\ note' = [note EXCEPT ![n].status = "cancelled"]
  /\ UNCHANGED <<invoice, receipt, alloc, journal, certificates>>

\* AR is credited with the header total, revenue and tax debited with the lines.
PostNote(n) ==
  /\ note[n].status = "draft"
  /\ note' = [note EXCEPT ![n].status = "posted"]
  /\ journal' = [journal EXCEPT ![n] = [ar |-> -note[n].total, contra |-> note[n].lines]]
  /\ UNCHANGED <<invoice, receipt, alloc, certificates>>

-------------------------------------------------------------------------------
Init ==
  /\ invoice = [i \in Invoices |-> [status |-> "none", total |-> 0, withheld |-> FALSE,
                                    payment |-> "unpaid", paidBy |-> Nil]]
  /\ receipt = [r \in Receipts |-> [status |-> "none", amount |-> 0]]
  /\ alloc = [r \in Receipts |-> NoAllocation]
  /\ note = [n \in Notes |-> [status |-> "none", total |-> 0, lines |-> 0]]
  /\ journal = [d \in Documents |-> [ar |-> 0, contra |-> 0]]
  /\ certificates = {}

InvoiceCall(i) ==
  \/ \E amount \in Amounts, withheld \in BOOLEAN :
       CreateInvoice(i, amount, withheld) \/ UpdateInvoice(i, amount, withheld)
  \/ CancelInvoice(i)
  \/ PostInvoice(i)

ReceiptCall(r) ==
  \/ \E amount \in Amounts, a \in [Invoices -> 0 .. MaxAmount] :
       CreateReceipt(r, amount, a) \/ UpdateReceipt(r, amount, a)
  \/ CancelReceipt(r)
  \/ PostReceipt(r)

NoteCall(n) ==
  \/ \E amount \in 0 .. MaxAmount : CreateNote(n, amount) \/ UpdateNote(n, amount)
  \/ CancelNote(n)
  \/ PostNote(n)

Next == \/ \E i \in Invoices : InvoiceCall(i)
        \/ \E r \in Receipts : ReceiptCall(r)
        \/ \E n \in Notes : NoteCall(n)

Spec == Init /\ [][Next]_vars

-------------------------------------------------------------------------------
(* What must hold.                                                         *)

TypeOK ==
  /\ invoice \in [Invoices -> InvoiceRow]
  /\ receipt \in [Receipts -> ReceiptRow]
  /\ alloc \in [Receipts -> [Invoices -> 0 .. MaxAmount]]
  /\ note \in [Notes -> NoteRow]
  /\ journal \in [Documents -> Entry]
  /\ certificates \subseteq Receipts \X Invoices

\* An allocation, of a draft or of a posted receipt, always names a posted invoice: no
\* later call on the invoice takes the posting away under it (sales_invoice_service.py,
\* customer_receipt_service.py).
AllocationsNamePosted ==
  \A r \in Receipts, i \in Invoices : alloc[r][i] > 0 => invoice[i].status = "posted"

\* The stored payment status of a posted invoice is the one its posted receipts give, in
\* whatever order they were posted, and its tax lines carry a payment date exactly when a
\* posted receipt paid some of it (customer_receipt_posting_service.py).
PaymentStatusAgrees ==
  \A i \in Invoices :
    /\ invoice[i].status = "posted" =>
         invoice[i].payment = PaymentStatus(invoice[i].total, AllocatedTotal(i))
    /\ (invoice[i].paidBy # Nil) <=> \E r \in Posted(receipt) : alloc[r][i] > 0

\* What the customer owes by the documents: the unpaid part of the posted invoices, less
\* the unapplied part of the posted receipts, less the posted credit notes.
Owed == SumFunction([i \in Posted(invoice) |-> invoice[i].total - AllocatedTotal(i)])
Unapplied == SumFunction([r \in Posted(receipt) |-> receipt[r].amount - SumFunction(alloc[r])])
Credited == SumFunction([n \in Posted(note) |-> note[n].total])
ControlBalance == SumFunction([d \in Documents |-> journal[d].ar])

\* The AR control account equals what the customer owes by the documents
\* (the three posting services together).
ControlAgrees == ControlBalance = Owed - Unapplied - Credited

\* No invoice is settled beyond its total: two drafts that each fit the open balance must not
\* both be posted ("Allocation of ... exceeds the open balance", _validate_allocations).
NotOverAllocated ==
  \A i \in Invoices : invoice[i].status = "posted" => AllocatedTotal(i) <= invoice[i].total

\* Every posted entry balances, except that of a credit note edited after its creation, whose
\* stored lines no longer total its header ("total debits must equal total credits").
EntriesBalance ==
  \A d \in Documents :
    \/ journal[d].ar + journal[d].contra = 0
    \/ d \in Notes /\ note[d].total # note[d].lines
================================================================================
