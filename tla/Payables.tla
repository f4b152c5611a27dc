-------------------------------- MODULE Payables --------------------------------
(***************************************************************************)
(* The payables of one supplier in one currency: purchase orders and the   *)
(* bills made from them, supplier payments, purchase credit notes, the     *)
(* recoverability of the tax codes they carry, and what each document      *)
(* leaves in the journal and among the tax facts when it is posted.        *)
(*                                                                         *)
(* A service call is one step, from its first read to its commit, except   *)
(* the conversion of an order, which runs in three transactions: it reads  *)
(* the order, has the bill created, then links the two.  Other calls, and  *)
(* other conversions, come between, and a call may die after any of them.  *)
(* A document has one line.  A call is refused for reasons this module     *)
(* does not follow (a permission, a closed period, a filed VAT period, a   *)
(* missing mapping, a budget); nothing below relies on a refusal.  Order   *)
(* and bill lines name an expense account; prices are before tax; tax      *)
(* codes marked as reverse charge are left out, as no service marks one.   *)
(***************************************************************************)
EXTENDS Integers, FiniteSets, Functions

CONSTANTS Orders, Bills, Payments, Notes,  \* primary keys of the four documents
          Codes,                           \* tax codes with a rate
          Clients,                         \* callers of convert_to_bill
          Amounts,                         \* line amounts and payments, in a money unit
          Discounts,                       \* discounts an order line may carry, 0 for none
          Rate,                            \* per code, its rate (1 for 100 %: nothing to round)
          MaxDocuments,                    \* bound on bills, payments and notes together
          Nil

ASSUME PayablesConstants ==
  /\ Amounts \subseteq Nat \ {0} /\ Discounts \subseteq Nat
  /\ Bills \cap Payments = {} /\ Bills \cap Notes = {} /\ Payments \cap Notes = {}
  /\ Nil \notin Bills \cup Orders \cup Payments \cup Codes
  /\ IsFiniteSet(Bills) /\ IsFiniteSet(Payments) /\ IsFiniteSet(Notes)
  /\ Rate \in [Codes -> Nat] /\ MaxDocuments \in Nat

VARIABLES order,        \* purchase_orders
          bill,         \* purchase_bills
          payment,      \* supplier_payments
          alloc,        \* supplier_payment_allocations: amount per payment and bill
          note,         \* purchase_credit_notes
          recoverable,  \* tax_codes.is_recoverable: "yes", "no" or "unset"
          journal,      \* per document, what its entry puts on each side (debit positive)
          fact,         \* posted_tax_lines, per document
          conversion,   \* per client, how far its conversion has come
          origin,       \* history: the order a bill was made from
          interrupted,  \* history: orders whose conversion died half-way, or overlapped another
          routed        \* history: the recoverability a document was posted under

documents == <<order, bill, payment, alloc, note>>
history == <<origin, interrupted, routed>>
vars == <<documents, recoverable, journal, fact, conversion, history>>

Flags == {"yes", "no", "unset"}
Documents == Bills \cup Payments \cup Notes
OrderStatus == {"none", "draft", "sent", "acknowledged", "converted", "cancelled"}
DocumentStatus == {"none", "draft", "posted", "cancelled"}
PaymentStatuses == {"unpaid", "partial", "paid"}

Existing(table) == {d \in DOMAIN table : table[d].status # "none"}
Room == Cardinality(Existing(bill)) + Cardinality(Existing(payment))
          + Cardinality(Existing(note)) < MaxDocuments

Tax(base, code) == IF code = Nil THEN 0 ELSE base * Rate[code]
Total(d) == d.base + d.tax
NoEntry == [ap |-> 0, expense |-> 0, input |-> 0, bank |-> 0]
NoFact == [tax |-> 0, flag |-> "unset"]
NoAllocation == [b \in Bills |-> 0]
Idle == [step |-> "idle", order |-> Nil, bill |-> Nil]

-------------------------------------------------------------------------------
(* Tax codes.                                                              *)

UpdateTaxCode(c, flag) ==
  /\ recoverable' = [recoverable EXCEPT ![c] = flag]
  /\ UNCHANGED <<documents, journal, fact, conversion, history>>

\* The flag a line's tax details keep from the draft.
Snapshot(code) == IF code = Nil THEN "unset" ELSE recoverable[code]

-------------------------------------------------------------------------------
(* Purchase orders.                                                        *)

DraftOrder(gross, discount, code) ==
  [status |-> "draft", gross |-> gross, discount |-> discount, code |-> code, bill |-> Nil]

SetOrder(o, row) ==
  /\ order' = [order EXCEPT ![o] = row]
  /\ UNCHANGED <<bill, payment, alloc, note, recoverable, journal, fact, conversion, history>>

\* A discount may take the whole line, but the order's total is positive.
CreateOrder(o, gross, discount, code) ==
  /\ order[o].status = "none"
  /\ discount <= gross
  /\ gross - discount + Tax(gross - discount, code) > 0
  /\ SetOrder(o, DraftOrder(gross, discount, code))

UpdateOrder(o, gross, discount, code) ==
  /\ order[o].status = "draft"
  /\ discount <= gross
  /\ gross - discount + Tax(gross - discount, code) > 0
  /\ SetOrder(o, DraftOrder(gross, discount, code))

TransitionStatus(o, allowedFrom, new) ==
  /\ order[o].status \in allowedFrom
  /\ SetOrder(o, [order[o] EXCEPT !.status = new])

SendOrder(o) == TransitionStatus(o, {"draft"}, "sent")
AcknowledgeOrder(o) == TransitionStatus(o, {"sent"}, "acknowledged")
CancelOrder(o) == TransitionStatus(o, {"draft", "sent"}, "cancelled")

-------------------------------------------------------------------------------
(* Purchase bills.  "paidBy" is the payment whose date the tax lines of    *)
(* the bill carry as payment date.                                         *)

DraftBill(base, code, source) ==
  [status |-> "draft", base |-> base, tax |-> Tax(base, code), code |-> code,
   flag |-> Snapshot(code), payment |-> "unpaid", source |-> source, paidBy |-> Nil]

CreateBill(b, base, code) ==
  /\ bill[b].status = "none" /\ Room
  /\ bill' = [bill EXCEPT ![b] = DraftBill(base, code, Nil)]
  /\ UNCHANGED <<order, payment, alloc, note, recoverable, journal, fact, conversion, history>>

\* The new lines carry the recoverability of now.
UpdateBill(b, base, code) ==
  /\ bill[b].status = "draft"
  /\ bill' = [bill EXCEPT ![b] = DraftBill(base, code, bill[b].source)]
  /\ UNCHANGED <<order, payment, alloc, note, recoverable, journal, fact, conversion, history>>

CancelBill(b) ==
  /\ bill[b].status = "draft"
  /\ bill' = [bill EXCEPT ![b].status = "cancelled", ![b].payment = "unpaid"]
  /\ UNCHANGED <<order, payment, alloc, note, recoverable, journal, fact, conversion, history>>

\* Mutant: the expense account takes the line's amount alone.
ExpensedTaxDropped(d) == 0

\* The tax of a code that is not recoverable is a cost; an unset flag counts as recoverable.
ExpensedTax(d) == IF d.code # Nil /\ recoverable[d.code] = "no" THEN d.tax ELSE 0

\* The fact keeps the flag of the draft; a flag unset then is read from the code.
FactFlag(d) == IF d.flag # "unset" \/ d.code = Nil THEN d.flag ELSE recoverable[d.code]

Fact(d, sign) ==
  IF d.code = Nil THEN NoFact ELSE [tax |-> sign * d.tax, flag |-> FactFlag(d)]

PostBill(b) ==
  LET d == bill[b] IN
  /\ d.status = "draft"
  /\ bill' = [bill EXCEPT ![b].status = "posted", ![b].payment = "unpaid"]
  /\ journal' = [journal EXCEPT ![b] = [ap |-> -Total(d), expense |-> d.base + ExpensedTax(d),
                                        input |-> d.tax - ExpensedTax(d), bank |-> 0]]
  /\ fact' = [fact EXCEPT ![b] = Fact(d, 1)]
  /\ routed' = [routed EXCEPT ![b] = Snapshot(d.code)]
  /\ UNCHANGED <<order, payment, alloc, note, recoverable, conversion, origin, interrupted>>

-------------------------------------------------------------------------------
(* An order becomes a bill.                                                *)

AtStep(c, step) == conversion[c].step = step

\* Another conversion of the order that has begun and not ended.
Overlapped(c, o) == \E d \in Clients \ {c} : conversion[d].order = o

\* Mutant: a conversion reads any order that was acknowledged.
ReadOrderAny(c, o) ==
  /\ AtStep(c, "idle")
  /\ order[o].status \in {"acknowledged", "converted"}
  /\ conversion' = [conversion EXCEPT ![c] = [Idle EXCEPT !.step = "read", !.order = o]]
  /\ interrupted' = IF Overlapped(c, o) THEN interrupted \cup {o} ELSE interrupted
  /\ UNCHANGED <<documents, recoverable, journal, fact, origin, routed>>

ReadOrder(c, o) ==
  /\ AtStep(c, "idle")
  /\ order[o].status = "acknowledged" /\ order[o].bill = Nil
  /\ conversion' = [conversion EXCEPT ![c] = [Idle EXCEPT !.step = "read", !.order = o]]
  /\ interrupted' = IF Overlapped(c, o) THEN interrupted \cup {o} ELSE interrupted
  /\ UNCHANGED <<documents, recoverable, journal, fact, origin, routed>>

\* A bill line has no discount: the order's is lost.
BillBase(o) == order[o].gross

BillOrder(c, b) ==
  LET o == conversion[c].order IN
  /\ AtStep(c, "read")
  /\ bill[b].status = "none" /\ Room
  /\ bill' = [bill EXCEPT ![b] = DraftBill(BillBase(o), order[o].code, Nil)]
  /\ conversion' = [conversion EXCEPT ![c] = [@ EXCEPT !.step = "billed", !.bill = b]]
  /\ origin' = [origin EXCEPT ![b] = o]
  /\ UNCHANGED <<order, payment, alloc, note, recoverable, journal, fact, interrupted, routed>>

\* Mutant: the bill is linked only while it is a draft.
LinkOrderDraft(c) ==
  LET o == conversion[c].order  b == conversion[c].bill IN
  /\ AtStep(c, "billed")
  /\ order' = [order EXCEPT ![o].status = "converted", ![o].bill = b]
  /\ bill' = IF bill[b].status = "draft" THEN [bill EXCEPT ![b].source = o] ELSE bill
  /\ conversion' = [conversion EXCEPT ![c] = Idle]
  /\ UNCHANGED <<payment, alloc, note, recoverable, journal, fact, history>>

\* Neither the order nor the bill is looked at again.
LinkOrder(c) ==
  LET o == conversion[c].order  b == conversion[c].bill IN
  /\ AtStep(c, "billed")
  /\ order' = [order EXCEPT ![o].status = "converted", ![o].bill = b]
  /\ bill' = [bill EXCEPT ![b].source = o]
  /\ conversion' = [conversion EXCEPT ![c] = Idle]
  /\ UNCHANGED <<payment, alloc, note, recoverable, journal, fact, history>>

\* The call fails, or the program ends, between two of its transactions.
Abandon(c) ==
  /\ ~AtStep(c, "idle")
  /\ interrupted' = IF AtStep(c, "billed") THEN interrupted \cup {conversion[c].order}
                    ELSE interrupted
  /\ conversion' = [conversion EXCEPT ![c] = Idle]
  /\ UNCHANGED <<documents, recoverable, journal, fact, origin, routed>>

-------------------------------------------------------------------------------
(* Supplier payments and their allocations.                                *)

Posted(table) == {d \in DOMAIN table : table[d].status = "posted"}
AllocatedTotal(b) == SumFunction([p \in Posted(payment) |-> alloc[p][b]])

ValidAllocations(a, amount) ==
  /\ \A b \in Bills :
       a[b] > 0 => bill[b].status = "posted" /\ a[b] <= Total(bill[b]) - AllocatedTotal(b)
  /\ SumFunction(a) <= amount

SetPayment(p, row, a) ==
  /\ payment' = [payment EXCEPT ![p] = row]
  /\ alloc' = [alloc EXCEPT ![p] = a]
  /\ UNCHANGED <<order, bill, note, recoverable, journal, fact, conversion, history>>

CreatePayment(p, amount, a) ==
  /\ payment[p].status = "none" /\ Room
  /\ ValidAllocations(a, amount)
  /\ SetPayment(p, [status |-> "draft", amount |-> amount], a)

UpdatePayment(p, amount, a) ==
  /\ payment[p].status = "draft"
  /\ ValidAllocations(a, amount)
  /\ SetPayment(p, [status |-> "draft", amount |-> amount], a)

CancelPayment(p) ==
  /\ payment[p].status = "draft"
  /\ SetPayment(p, [payment[p] EXCEPT !.status = "cancelled"], NoAllocation)

PaymentStatus(total, allocated) ==
  IF allocated >= total THEN "paid" ELSE IF allocated > 0 THEN "partial" ELSE "unpaid"

\* Bill b once payment p is posted; the first payment date is kept.
Settle(b, p) ==
  IF alloc[p][b] = 0 \/ bill[b].status # "posted" THEN bill[b]
  ELSE [bill[b] EXCEPT
          !.payment = PaymentStatus(Total(bill[b]), AllocatedTotal(b) + alloc[p][b]),
          !.paidBy = IF @ = Nil THEN p ELSE @]

\* Mutant: payables fall by what was allocated.
PaymentEntryAllocated(p) ==
  [NoEntry EXCEPT !.ap = SumFunction(alloc[p]), !.bank = -SumFunction(alloc[p])]
PaymentEntry(p) == [NoEntry EXCEPT !.ap = payment[p].amount, !.bank = -payment[p].amount]

\* Allocations are not checked again.
PostPayment(p) ==
  /\ payment[p].status = "draft"
  /\ payment' = [payment EXCEPT ![p].status = "posted"]
  /\ bill' = [b \in Bills |-> Settle(b, p)]
  /\ journal' = [journal EXCEPT ![p] = PaymentEntry(p)]
  /\ UNCHANGED <<order, alloc, note, recoverable, fact, conversion, history>>

-------------------------------------------------------------------------------
(* Purchase credit notes.  "account" tells whether the line names an       *)
(* expense account, which nothing requires of it.                          *)

DraftNote(base, code, account) ==
  [status |-> "draft", base |-> base, tax |-> Tax(base, code), code |-> code,
   flag |-> Snapshot(code), account |-> account]

SetNote(n, row) ==
  /\ note' = [note EXCEPT ![n] = row]
  /\ UNCHANGED <<order, bill, payment, alloc, recoverable, journal, fact, conversion, history>>

CreateNote(n, base, code, account) ==
  /\ note[n].status = "none" /\ Room
  /\ SetNote(n, DraftNote(base, code, account))

UpdateNote(n, base, code, account) ==
  /\ note[n].status = "draft"
  /\ SetNote(n, DraftNote(base, code, account))

CancelNote(n) ==
  /\ note[n].status = "draft"
  /\ SetNote(n, [note[n] EXCEPT !.status = "cancelled"])

\* Mutant: the tax that was a cost is not given back to the expense.
NoteEntryTaxLost(d) ==
  [NoEntry EXCEPT !.ap = Total(d), !.expense = IF d.account THEN -d.base ELSE 0,
                  !.input = ExpensedTax(d) - d.tax]

\* A line without an account credits no expense.
NoteEntry(d) ==
  [NoEntry EXCEPT !.ap = Total(d),
                  !.expense = IF d.account THEN -(d.base + ExpensedTax(d)) ELSE 0,
                  !.input = ExpensedTax(d) - d.tax]

\* A cost can be reversed only on an account.
PostNote(n) ==
  LET d == note[n] IN
  /\ d.status = "draft"
  /\ d.account \/ ExpensedTax(d) = 0
  /\ note' = [note EXCEPT ![n].status = "posted"]
  /\ journal' = [journal EXCEPT ![n] = NoteEntry(d)]
  /\ fact' = [fact EXCEPT ![n] = Fact(d, -1)]
  /\ routed' = [routed EXCEPT ![n] = Snapshot(d.code)]
  /\ UNCHANGED <<order, bill, payment, alloc, recoverable, conversion, origin, interrupted>>

-------------------------------------------------------------------------------
Init ==
  /\ order = [o \in Orders |-> [DraftOrder(0, 0, Nil) EXCEPT !.status = "none"]]
  /\ bill = [b \in Bills |-> [status |-> "none", base |-> 0, tax |-> 0, code |-> Nil,
                               flag |-> "unset", payment |-> "unpaid", source |-> Nil,
                               paidBy |-> Nil]]
  /\ payment = [p \in Payments |-> [status |-> "none", amount |-> 0]]
  /\ alloc = [p \in Payments |-> NoAllocation]
  /\ note = [n \in Notes |-> [status |-> "none", base |-> 0, tax |-> 0, code |-> Nil,
                               flag |-> "unset", account |-> FALSE]]
  /\ recoverable \in [Codes -> Flags]
  /\ journal = [d \in Documents |-> NoEntry]
  /\ fact = [d \in Documents |-> NoFact]
  /\ conversion = [c \in Clients |-> Idle]
  /\ origin = [b \in Bills |-> Nil]
  /\ interrupted = {}
  /\ routed = [d \in Documents |-> "unset"]

OrderCall(o) ==
  \/ \E gross \in Amounts, discount \in Discounts, code \in Codes \cup {Nil} :
       CreateOrder(o, gross, discount, code) \/ UpdateOrder(o, gross, discount, code)
  \/ SendOrder(o)
  \/ AcknowledgeOrder(o)
  \/ CancelOrder(o)

ConversionCall(c) ==
  \/ \E o \in Orders : ReadOrder(c, o)
  \/ \E b \in Bills : BillOrder(c, b)
  \/ LinkOrder(c)
  \/ Abandon(c)

BillCall(b) ==
  \/ \E base \in Amounts, code \in Codes \cup {Nil} : CreateBill(b, base, code)
                                                   \/ UpdateBill(b, base, code)
  \/ CancelBill(b)
  \/ PostBill(b)

PaymentCall(p) ==
  \/ \E amount \in Amounts, a \in [Bills -> Amounts \cup {0}] :
       CreatePayment(p, amount, a) \/ UpdatePayment(p, amount, a)
  \/ CancelPayment(p)
  \/ PostPayment(p)

NoteCall(n) ==
  \/ \E base \in Amounts, code \in Codes \cup {Nil}, account \in BOOLEAN :
       CreateNote(n, base, code, account) \/ UpdateNote(n, base, code, account)
  \/ CancelNote(n)
  \/ PostNote(n)

Next == \/ \E c \in Codes, flag \in Flags : UpdateTaxCode(c, flag)
        \/ \E o \in Orders : OrderCall(o)
        \/ \E c \in Clients : ConversionCall(c)
        \/ \E b \in Bills : BillCall(b)
        \/ \E p \in Payments : PaymentCall(p)
        \/ \E n \in Notes : NoteCall(n)

Spec == Init /\ [][Next]_vars

-------------------------------------------------------------------------------
(* What must hold.                                                         *)

OrderRow == [status : OrderStatus, gross : Nat, discount : Nat, code : Codes \cup {Nil},
             bill : Bills \cup {Nil}]
BillRow == [status : DocumentStatus, base : Nat, tax : Nat, code : Codes \cup {Nil}, flag : Flags,
            payment : PaymentStatuses, source : Orders \cup {Nil}, paidBy : Payments \cup {Nil}]
NoteRow == [status : DocumentStatus, base : Nat, tax : Nat, code : Codes \cup {Nil}, flag : Flags,
            account : BOOLEAN]
Entry == [ap : Int, expense : Int, input : Int, bank : Int]

TypeOK ==
  /\ order \in [Orders -> OrderRow]
  /\ bill \in [Bills -> BillRow]
  /\ payment \in [Payments -> [status : DocumentStatus, amount : Nat]]
  /\ alloc \in [Payments -> [Bills -> Nat]]
  /\ note \in [Notes -> NoteRow]
  /\ recoverable \in [Codes -> Flags]
  /\ journal \in [Documents -> Entry]
  /\ fact \in [Documents -> [tax : Int, flag : Flags]]
  /\ conversion \in [Clients -> [step : {"idle", "read", "billed"}, order : Orders \cup {Nil},
                                 bill : Bills \cup {Nil}]]
  /\ origin \in [Bills -> Orders \cup {Nil}]
  /\ interrupted \subseteq Orders
  /\ routed \in [Documents -> Flags]

\* An order is billed once, unless one of its conversions died after the bill was committed
\* or two of them overlapped: nothing then tells the next conversion of the first bill
\* (purchase_order_service.py, convert_to_bill).
BilledTwiceWhenInterrupted ==
  \A a, b \in Bills : a # b /\ origin[a] = origin[b] /\ origin[a] # Nil => origin[a] \in interrupted

\* A converted order and its bill name each other, whatever became of the bill between the
\* two transactions; no bill names an order that is not converted.
ConversionTraced ==
  /\ \A o \in Orders : order[o].status = "converted" =>
       order[o].bill # Nil /\ bill[order[o].bill].source = o
  /\ \A b \in Bills : bill[b].source # Nil =>
       order[bill[b].source].status = "converted" /\ origin[b] = bill[b].source

\* The input tax account takes from a document what a return may deduct for it, as long as
\* the tax code was set and its recoverability stayed as the draft recorded it: posting
\* routes the tax by the code, the tax fact keeps the flag of the draft, and an unset flag
\* is recoverable to the one and not to the other.
Deductible(d) == IF fact[d].flag = "yes" THEN fact[d].tax ELSE 0
Drifted(row, d) == row.code # Nil /\ (row.flag # routed[d] \/ routed[d] = "unset")
InputTaxAgrees ==
  /\ \A b \in Bills : bill[b].status = "posted" /\ ~Drifted(bill[b], b) =>
       journal[b].input = Deductible(b)
  /\ \A n \in Notes : note[n].status = "posted" /\ ~Drifted(note[n], n) =>
       journal[n].input = Deductible(n)

\* Every posted entry balances, except that of a credit note whose line names no account.
EntriesBalance ==
  \A d \in Documents :
    \/ journal[d].ap + journal[d].expense + journal[d].input + journal[d].bank = 0
    \/ d \in Notes /\ ~note[d].account

\* What is owed to the supplier by the documents: the unpaid part of the posted bills, less
\* the unapplied part of the posted payments, less the posted credit notes.
Owed == SumFunction([b \in Posted(bill) |-> Total(bill[b]) - AllocatedTotal(b)])
Unapplied == SumFunction([p \in Posted(payment) |-> payment[p].amount - SumFunction(alloc[p])])
Credited == SumFunction([n \in Posted(note) |-> Total(note[n])])

\* The AP control account equals what is owed by the documents, and a posted bill's stored
\* payment status is the one its posted payments give.
ControlAgrees ==
  /\ -SumFunction([d \in Documents |-> journal[d].ap]) = Owed - Unapplied - Credited
  /\ \A b \in Posted(bill) : bill[b].payment = PaymentStatus(Total(bill[b]), AllocatedTotal(b))

\* A converted order keeps the bill it was linked to, unless its conversion was interrupted.
LinkStays ==
  [][\A o \in Orders :
       order[o].status = "converted" /\ o \notin interrupted => order'[o] = order[o]]_vars
================================================================================
