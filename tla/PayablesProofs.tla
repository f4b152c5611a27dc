----------------------------- MODULE PayablesProofs -----------------------------
(***************************************************************************)
(* What holds of Payables for any number of orders, bills, payments, notes *)
(* and clients.                                                            *)
(***************************************************************************)
EXTENDS Payables, SumTheorems

\* Where the conversions stand: one that is idle holds nothing, one that is under way holds
\* an order that was acknowledged, and one past its second transaction the bill it made.
ClientsInOrder ==
  \A c \in Clients :
    /\ conversion[c].step = "idle" => conversion[c] = Idle
    /\ conversion[c].step # "idle" =>
         /\ conversion[c].order \in Orders
         /\ order[conversion[c].order].status \in {"acknowledged", "converted"}
    /\ conversion[c].step = "billed" =>
         /\ conversion[c].bill \in Bills
         /\ origin[conversion[c].bill] = conversion[c].order

\* Only a bill that exists has an origin or a source.
OriginsExist ==
  \A b \in Bills : origin[b] # Nil \/ bill[b].source # Nil => bill[b].status # "none"

\* An order nobody interrupted is in one conversion at most, in none once it is converted, and
\* a bill made from it is the one it is linked to, or the one a conversion is about to link.
OneConversion ==
  \A o \in Orders \ interrupted :
    /\ \A c, d \in Clients : conversion[c].order = o /\ conversion[d].order = o => c = d
    /\ order[o].status = "converted" => \A c \in Clients : conversion[c].order # o
    /\ \A b \in Bills : origin[b] = o =>
         \/ order[o].status = "converted" /\ order[o].bill = b
         \/ \E c \in Clients : conversion[c] = [step |-> "billed", order |-> o, bill |-> b]

\* The invariant the conversions keep.
ConversionInvariant ==
  /\ ClientsInOrder
  /\ OriginsExist
  /\ OneConversion
  /\ ConversionTraced

\* A tax is an amount.
LEMMA TaxType ==
  ASSUME NEW base \in Nat, NEW code \in Codes \cup {Nil}
  PROVE  Tax(base, code) \in Nat
<1>1. CASE code = Nil
  BY <1>1 DEF Tax
<1>2. CASE code \in Codes
  <2>1. Rate[code] \in Nat
    BY <1>2, PayablesConstants
  <2>2. base * Rate[code] \in Nat
    BY <2>1
  <2> QED
    BY <2>2 DEF Tax
<1> QED
  BY <1>1, <1>2

\* The flag kept from a draft is one of the flags.
LEMMA SnapshotType ==
  ASSUME TypeOK, NEW code \in Codes \cup {Nil}
  PROVE  Snapshot(code) \in Flags
BY PayablesConstants DEF Snapshot, TypeOK, Flags

\* A draft bill is a well-formed row.
LEMMA DraftBillType ==
  ASSUME TypeOK, NEW base \in Nat, NEW code \in Codes \cup {Nil}, NEW source \in Orders \cup {Nil}
  PROVE  DraftBill(base, code, source) \in BillRow
BY TaxType, SnapshotType DEF DraftBill, BillRow, DocumentStatus, PaymentStatuses

\* A tax fact is well formed, whatever the row it is taken from.
LEMMA FactType ==
  ASSUME TypeOK, NEW d, d.tax \in Nat, d.code \in Codes \cup {Nil}, d.flag \in Flags,
         NEW sign \in {-1, 1}
  PROVE  Fact(d, sign) \in [tax : Int, flag : Flags]
<1>1. NoFact \in [tax : Int, flag : Flags]
  BY DEF NoFact, Flags
<1>2. sign * d.tax \in Int
  BY SMT
<1>3. FactFlag(d) \in Flags
  BY DEF FactFlag, TypeOK
<1> QED
  BY <1>1, <1>2, <1>3 DEF Fact

\* Every call on an order keeps the tables well formed.
LEMMA OrderCallType ==
  ASSUME TypeOK, NEW o \in Orders, OrderCall(o)
  PROVE  TypeOK'
<1> order[o] \in OrderRow
  BY DEF TypeOK
<1>1. ASSUME NEW row \in OrderRow, SetOrder(o, row)
      PROVE  TypeOK'
  BY <1>1 DEF SetOrder, TypeOK, history
<1>2. ASSUME NEW gross \in Amounts, NEW discount \in Discounts, NEW code \in Codes \cup {Nil},
             CreateOrder(o, gross, discount, code) \/ UpdateOrder(o, gross, discount, code)
      PROVE  TypeOK'
  <2>1. DraftOrder(gross, discount, code) \in OrderRow
    BY PayablesConstants DEF DraftOrder, OrderRow, OrderStatus
  <2> QED
    BY <1>1, <1>2, <2>1 DEF CreateOrder, UpdateOrder
<1>3. ASSUME SendOrder(o) \/ AcknowledgeOrder(o) \/ CancelOrder(o)
      PROVE  TypeOK'
  <2>1. \A new \in OrderStatus : [order[o] EXCEPT !.status = new] \in OrderRow
    BY DEF OrderRow
  <2>2. {"sent", "acknowledged", "cancelled"} \subseteq OrderStatus
    BY DEF OrderStatus
  <2> QED
    BY <1>1, <1>3, <2>1, <2>2 DEF SendOrder, AcknowledgeOrder, CancelOrder, TransitionStatus
<1> QED
  BY <1>2, <1>3 DEF OrderCall

\* So does every step of a conversion, for a client that stands where it should.
LEMMA ConversionCallType ==
  ASSUME TypeOK, ClientsInOrder, NEW c \in Clients, ConversionCall(c)
  PROVE  TypeOK'
<1> DEFINE Place == [step : {"idle", "read", "billed"}, order : Orders \cup {Nil},
                     bill : Bills \cup {Nil}]
<1>a. conversion \in [Clients -> Place] /\ conversion[c] \in Place
  BY DEF TypeOK
<1>b. Idle \in Place
  BY DEF Idle
<1>1. ASSUME NEW o \in Orders, ReadOrder(c, o)
      PROVE  TypeOK'
  <2>1. [Idle EXCEPT !.step = "read", !.order = o] \in Place
    BY DEF Idle
  <2>2. conversion' \in [Clients -> Place]
    BY <1>1, <2>1, <1>a DEF ReadOrder
  <2>3. interrupted' \subseteq Orders
    BY <1>1 DEF ReadOrder, TypeOK
  <2> QED
    BY <1>1, <2>2, <2>3 DEF ReadOrder, TypeOK, documents
<1>2. ASSUME NEW b \in Bills, BillOrder(c, b)
      PROVE  TypeOK'
  <2> DEFINE o == conversion[c].order
  <2>1. o \in Orders
    BY <1>2 DEF BillOrder, AtStep, ClientsInOrder
  <2>2. order[o] \in OrderRow
    BY <2>1 DEF TypeOK
  <2>3. DraftBill(BillBase(o), order[o].code, Nil) \in BillRow
    BY <2>2, DraftBillType DEF BillBase, OrderRow
  <2>4. [conversion[c] EXCEPT !.step = "billed", !.bill = b] \in Place
    BY <1>a
  <2>5. bill' \in [Bills -> BillRow]
    BY <1>2, <2>3 DEF BillOrder, TypeOK
  <2>6. conversion' \in [Clients -> Place] /\ origin' \in [Bills -> Orders \cup {Nil}]
    BY <1>2, <1>a, <2>1, <2>4 DEF BillOrder, TypeOK
  <2> QED
    BY <1>2, <2>5, <2>6 DEF BillOrder, TypeOK
<1>3. CASE LinkOrder(c)
  <2> DEFINE o == conversion[c].order
             b == conversion[c].bill
  <2>1. o \in Orders /\ b \in Bills
    BY <1>3 DEF LinkOrder, AtStep, ClientsInOrder
  <2>a. order[o] \in OrderRow /\ bill[b] \in BillRow
    BY <2>1 DEF TypeOK
  <2>2. [order[o] EXCEPT !.status = "converted", !.bill = b] \in OrderRow
    BY <2>1, <2>a DEF OrderRow, OrderStatus
  <2>3. [bill[b] EXCEPT !.source = o] \in BillRow
    BY <2>1, <2>a DEF BillRow
  <2>4. order' \in [Orders -> OrderRow]
    BY <1>3, <2>1, <2>2 DEF LinkOrder, TypeOK
  <2>5. bill' \in [Bills -> BillRow]
    BY <1>3, <2>1, <2>3 DEF LinkOrder, TypeOK
  <2>6. conversion' \in [Clients -> Place]
    BY <1>3, <1>a, <1>b DEF LinkOrder
  <2> QED
    BY <1>3, <2>4, <2>5, <2>6 DEF LinkOrder, TypeOK, history
<1>4. CASE Abandon(c)
  <2>1. conversion' \in [Clients -> Place]
    BY <1>4, <1>a, <1>b DEF Abandon
  <2>2. interrupted' \subseteq Orders
    BY <1>4 DEF Abandon, TypeOK, AtStep, ClientsInOrder
  <2> QED
    BY <1>4, <2>1, <2>2 DEF Abandon, TypeOK, documents
<1> QED
  BY <1>1, <1>2, <1>3, <1>4 DEF ConversionCall

\* So does every call on a bill.
LEMMA BillCallType ==
  ASSUME TypeOK, NEW b \in Bills, BillCall(b)
  PROVE  TypeOK'
<1>a. bill[b] \in BillRow /\ b \in Documents
  BY DEF TypeOK, Documents
<1>1. ASSUME NEW base \in Amounts, NEW code \in Codes \cup {Nil},
             CreateBill(b, base, code) \/ UpdateBill(b, base, code)
      PROVE  TypeOK'
  <2>1. \A source \in Orders \cup {Nil} : DraftBill(base, code, source) \in BillRow
    BY PayablesConstants, DraftBillType
  <2>2. bill' \in [Bills -> BillRow]
    <3>1. CASE CreateBill(b, base, code)
      BY <3>1, <2>1 DEF CreateBill, TypeOK
    <3>2. CASE UpdateBill(b, base, code)
      BY <3>2, <2>1, <1>a DEF UpdateBill, TypeOK, BillRow
    <3> QED
      BY <1>1, <3>1, <3>2
  <2> QED
    BY <1>1, <2>2 DEF CreateBill, UpdateBill, TypeOK, history
<1>2. CASE CancelBill(b)
  <2>1. [bill[b] EXCEPT !.status = "cancelled", !.payment = "unpaid"] \in BillRow
    BY <1>a DEF BillRow, DocumentStatus, PaymentStatuses
  <2> QED
    BY <1>2, <2>1 DEF CancelBill, TypeOK, history
<1>3. CASE PostBill(b)
  <2> DEFINE d == bill[b]
  <2>1. [d EXCEPT !.status = "posted", !.payment = "unpaid"] \in BillRow
    BY <1>a DEF BillRow, DocumentStatus, PaymentStatuses
  <2>2. [ap |-> -Total(d), expense |-> d.base + ExpensedTax(d),
         input |-> d.tax - ExpensedTax(d), bank |-> 0] \in Entry
    BY <1>a DEF Entry, BillRow, ExpensedTax, Total
  <2>3. Fact(d, 1) \in [tax : Int, flag : Flags]
    BY <1>a, FactType DEF BillRow
  <2>4. Snapshot(d.code) \in Flags
    BY <1>a, SnapshotType DEF BillRow
  <2>5. bill' \in [Bills -> BillRow] /\ journal' \in [Documents -> Entry]
    BY <1>3, <1>a, <2>1, <2>2 DEF PostBill, TypeOK
  <2>6. fact' \in [Documents -> [tax : Int, flag : Flags]] /\ routed' \in [Documents -> Flags]
    BY <1>3, <1>a, <2>3, <2>4 DEF PostBill, TypeOK
  <2> QED
    BY <1>3, <2>5, <2>6 DEF PostBill, TypeOK
<1> QED
  BY <1>1, <1>2, <1>3 DEF BillCall

\* So does every call on a payment.
LEMMA PaymentCallType ==
  ASSUME TypeOK, NEW p \in Payments, PaymentCall(p)
  PROVE  TypeOK'
<1> DEFINE Row == [status : DocumentStatus, amount : Nat]
<1>a. payment[p] \in Row /\ p \in Documents
  BY DEF TypeOK, Documents
<1>1. ASSUME NEW row \in Row, NEW a \in [Bills -> Nat], SetPayment(p, row, a)
      PROVE  TypeOK'
  BY <1>1 DEF SetPayment, TypeOK, history
<1>2. ASSUME NEW amount \in Amounts, NEW a \in [Bills -> Amounts \cup {0}],
             CreatePayment(p, amount, a) \/ UpdatePayment(p, amount, a)
      PROVE  TypeOK'
  <2>1. [status |-> "draft", amount |-> amount] \in Row
    BY PayablesConstants DEF DocumentStatus
  <2>2. a \in [Bills -> Nat]
    <3>1. Amounts \cup {0} \subseteq Nat
      BY PayablesConstants
    <3> QED
      BY <3>1
  <2> QED
    BY <1>1, <1>2, <2>1, <2>2 DEF CreatePayment, UpdatePayment
<1>3. CASE CancelPayment(p)
  <2>1. [payment[p] EXCEPT !.status = "cancelled"] \in Row /\ NoAllocation \in [Bills -> Nat]
    BY <1>a DEF DocumentStatus, NoAllocation
  <2> QED
    BY <1>1, <1>3, <2>1 DEF CancelPayment
<1>4. CASE PostPayment(p)
  <2>1. ASSUME NEW b \in Bills
        PROVE  Settle(b, p) \in BillRow
    <3>1. \A total, allocated : PaymentStatus(total, allocated) \in PaymentStatuses
      BY DEF PaymentStatus, PaymentStatuses
    <3>2. bill[b] \in BillRow
      BY DEF TypeOK
    <3> QED
      BY <3>1, <3>2 DEF Settle, BillRow
  <2>2. PaymentEntry(p) \in Entry
    <3>1. payment[p].amount \in Int /\ -payment[p].amount \in Int
      BY <1>a
    <3>2. NoEntry \in Entry
      BY DEF NoEntry, Entry
    <3> QED
      BY <3>1, <3>2 DEF PaymentEntry, Entry
  <2>3. [payment[p] EXCEPT !.status = "posted"] \in Row
    BY <1>a DEF DocumentStatus
  <2>4. bill' \in [Bills -> BillRow]
    BY <1>4, <2>1 DEF PostPayment
  <2>5. payment' \in [Payments -> Row] /\ journal' \in [Documents -> Entry]
    BY <1>4, <1>a, <2>2, <2>3 DEF PostPayment, TypeOK
  <2> QED
    BY <1>4, <2>4, <2>5 DEF PostPayment, TypeOK, history
<1> QED
  BY <1>2, <1>3, <1>4 DEF PaymentCall

\* So does every call on a credit note.
LEMMA NoteCallType ==
  ASSUME TypeOK, NEW n \in Notes, NoteCall(n)
  PROVE  TypeOK'
<1>a. note[n] \in NoteRow /\ n \in Documents
  BY DEF TypeOK, Documents
<1>1. ASSUME NEW row \in NoteRow, SetNote(n, row)
      PROVE  TypeOK'
  BY <1>1 DEF SetNote, TypeOK, history
<1>2. ASSUME NEW base \in Amounts, NEW code \in Codes \cup {Nil}, NEW account \in BOOLEAN,
             CreateNote(n, base, code, account) \/ UpdateNote(n, base, code, account)
      PROVE  TypeOK'
  <2>1. DraftNote(base, code, account) \in NoteRow
    BY PayablesConstants, TaxType, SnapshotType DEF DraftNote, NoteRow, DocumentStatus
  <2> QED
    BY <1>1, <1>2, <2>1 DEF CreateNote, UpdateNote
<1>3. CASE CancelNote(n)
  <2>1. [note[n] EXCEPT !.status = "cancelled"] \in NoteRow
    BY <1>a DEF NoteRow, DocumentStatus
  <2> QED
    BY <1>1, <1>3, <2>1 DEF CancelNote
<1>4. CASE PostNote(n)
  <2> DEFINE d == note[n]
  <2>1. [d EXCEPT !.status = "posted"] \in NoteRow
    BY <1>a DEF NoteRow, DocumentStatus
  <2>2. NoteEntry(d) \in Entry
    <3>1. d.base \in Nat /\ d.tax \in Nat /\ ExpensedTax(d) \in Nat
      BY <1>a DEF NoteRow, ExpensedTax
    <3>2. NoEntry \in Entry
      BY DEF NoEntry, Entry
    <3>3. /\ Total(d) \in Int /\ -(d.base + ExpensedTax(d)) \in Int
          /\ ExpensedTax(d) - d.tax \in Int
      BY <3>1 DEF Total
    <3>4. \A ap, expense, input \in Int :
            [NoEntry EXCEPT !.ap = ap, !.expense = expense, !.input = input] \in Entry
      BY <3>2 DEF Entry
    <3>5. (IF d.account THEN -(d.base + ExpensedTax(d)) ELSE 0) \in Int
      BY <3>3
    <3> QED
      BY <3>3, <3>4, <3>5 DEF NoteEntry
  <2>3. Fact(d, -1) \in [tax : Int, flag : Flags]
    BY <1>a, FactType DEF NoteRow
  <2>4. Snapshot(d.code) \in Flags
    BY <1>a, SnapshotType DEF NoteRow
  <2>5. note' \in [Notes -> NoteRow] /\ journal' \in [Documents -> Entry]
    BY <1>4, <1>a, <2>1, <2>2 DEF PostNote, TypeOK
  <2>6. fact' \in [Documents -> [tax : Int, flag : Flags]] /\ routed' \in [Documents -> Flags]
    BY <1>4, <1>a, <2>3, <2>4 DEF PostNote, TypeOK
  <2> QED
    BY <1>4, <2>5, <2>6 DEF PostNote, TypeOK
<1> QED
  BY <1>2, <1>3, <1>4 DEF NoteCall

\* A tax code's new flag is a flag.
LEMMA CodeCallType ==
  ASSUME TypeOK, NEW c \in Codes, NEW flag \in Flags, UpdateTaxCode(c, flag)
  PROVE  TypeOK'
BY DEF UpdateTaxCode, TypeOK, documents, history

\* A call that touches no conversion, no link and no order keeps the conversions' invariant.
LEMMA Undisturbed ==
  ASSUME TypeOK, ConversionInvariant,
         UNCHANGED <<order, conversion, origin, interrupted>>,
         \A b \in Bills : /\ bill'[b].source = bill[b].source
                          /\ bill[b].status # "none" => bill'[b].status # "none"
  PROVE  ConversionInvariant'
<1>1. ClientsInOrder'
  BY DEF ConversionInvariant, ClientsInOrder
<1>2. OriginsExist'
  BY DEF ConversionInvariant, OriginsExist
<1>3. OneConversion'
  BY DEF ConversionInvariant, OneConversion
<1>4. ConversionTraced'
  <2>1. \A o \in Orders : order[o].bill \in Bills \cup {Nil}
    BY DEF TypeOK, OrderRow
  <2>2. \A o \in Orders : order'[o].status = "converted" =>
          order'[o].bill # Nil /\ bill'[order'[o].bill].source = o
    BY <2>1 DEF ConversionInvariant, ConversionTraced
  <2>3. \A b \in Bills : bill'[b].source # Nil =>
          order'[bill'[b].source].status = "converted" /\ origin'[b] = bill'[b].source
    BY DEF ConversionInvariant, ConversionTraced
  <2> QED
    BY <2>2, <2>3 DEF ConversionTraced
<1> QED
  BY <1>1, <1>2, <1>3, <1>4 DEF ConversionInvariant

\* An order a conversion may hold, or a bill may name, is out of reach of the calls on orders.
LEMMA OrderCallScope ==
  ASSUME TypeOK, NEW o \in Orders, OrderCall(o)
  PROVE  /\ order[o].status \notin {"acknowledged", "converted"}
         /\ \E row \in OrderRow : row.status # "converted" /\ SetOrder(o, row)
<1>a. order[o] \in OrderRow
  BY DEF TypeOK
<1>1. ASSUME NEW gross \in Amounts, NEW discount \in Discounts, NEW code \in Codes \cup {Nil},
             CreateOrder(o, gross, discount, code) \/ UpdateOrder(o, gross, discount, code)
      PROVE  /\ order[o].status \notin {"acknowledged", "converted"}
             /\ \E row \in OrderRow : row.status # "converted" /\ SetOrder(o, row)
  <2>1. DraftOrder(gross, discount, code) \in OrderRow
    BY PayablesConstants DEF DraftOrder, OrderRow, OrderStatus
  <2>2. DraftOrder(gross, discount, code).status # "converted"
    BY DEF DraftOrder
  <2>3. SetOrder(o, DraftOrder(gross, discount, code))
    BY <1>1 DEF CreateOrder, UpdateOrder
  <2>4. order[o].status \notin {"acknowledged", "converted"}
    BY <1>1 DEF CreateOrder, UpdateOrder
  <2> QED
    BY <2>1, <2>2, <2>3, <2>4
<1>2. ASSUME SendOrder(o) \/ AcknowledgeOrder(o) \/ CancelOrder(o)
      PROVE  /\ order[o].status \notin {"acknowledged", "converted"}
             /\ \E row \in OrderRow : row.status # "converted" /\ SetOrder(o, row)
  <2>1. PICK new \in {"sent", "acknowledged", "cancelled"} :
               SetOrder(o, [order[o] EXCEPT !.status = new])
    BY <1>2 DEF SendOrder, AcknowledgeOrder, CancelOrder, TransitionStatus
  <2>2. [order[o] EXCEPT !.status = new] \in OrderRow
    BY <1>a DEF OrderRow, OrderStatus
  <2>3. [order[o] EXCEPT !.status = new].status # "converted"
    BY <1>a DEF OrderRow
  <2>4. order[o].status \notin {"acknowledged", "converted"}
    BY <1>2 DEF SendOrder, AcknowledgeOrder, CancelOrder, TransitionStatus
  <2> QED
    BY <2>1, <2>2, <2>3, <2>4
<1> QED
  BY <1>1, <1>2 DEF OrderCall

\* The calls on orders keep the conversions' invariant.
LEMMA OrderCallKeeps ==
  ASSUME TypeOK, ConversionInvariant, NEW o \in Orders, OrderCall(o)
  PROVE  ConversionInvariant'
<1>1. PICK row \in OrderRow : row.status # "converted" /\ SetOrder(o, row)
  BY OrderCallScope
<1>2. order[o].status \notin {"acknowledged", "converted"}
  BY OrderCallScope
<1>3. /\ order' = [order EXCEPT ![o] = row]
      /\ UNCHANGED <<bill, conversion, origin, interrupted>>
  BY <1>1 DEF SetOrder, history
<1>4. /\ \A x \in Orders \ {o} : order'[x] = order[x]
      /\ order'[o].status # "converted"
  BY <1>1, <1>3 DEF TypeOK
<1>5. ClientsInOrder'
  BY <1>2, <1>3, <1>4 DEF ConversionInvariant, ClientsInOrder
<1>6. OriginsExist'
  BY <1>3 DEF ConversionInvariant, OriginsExist
<1>7. OneConversion'
  BY <1>2, <1>3, <1>4 DEF ConversionInvariant, OneConversion
<1>8. ConversionTraced'
  <2>1. ASSUME NEW x \in Orders, order'[x].status = "converted"
        PROVE  order'[x].bill # Nil /\ bill'[order'[x].bill].source = x
    BY <1>3, <1>4, <2>1 DEF ConversionInvariant, ConversionTraced
  <2>2. ASSUME NEW b \in Bills, bill'[b].source # Nil
        PROVE  order'[bill'[b].source].status = "converted" /\ origin'[b] = bill'[b].source
    <3>1. bill[b].source \in Orders
      BY <1>3, <2>2 DEF TypeOK, BillRow
    <3> QED
      BY <1>2, <1>3, <1>4, <2>2, <3>1 DEF ConversionInvariant, ConversionTraced
  <2> QED
    BY <2>1, <2>2 DEF ConversionTraced
<1> QED
  BY <1>5, <1>6, <1>7, <1>8 DEF ConversionInvariant

\* The calls on bills and payments keep the conversions' invariant.
LEMMA BillsKeep ==
  ASSUME TypeOK, ConversionInvariant,
         \/ \E b \in Bills : BillCall(b)
         \/ \E p \in Payments : PaymentCall(p)
  PROVE  ConversionInvariant'
<1>a. \A b \in Bills : bill[b] \in BillRow
  BY DEF TypeOK
<1>1. ASSUME NEW b \in Bills, BillCall(b)
      PROVE  ConversionInvariant'
  <2>1. UNCHANGED <<order, conversion, origin, interrupted>>
    BY <1>1 DEF BillCall, CreateBill, UpdateBill, CancelBill, PostBill, history
  <2>2. \E row : /\ bill' = [bill EXCEPT ![b] = row]
                 /\ row.source = bill[b].source
                 /\ row.status # "none"
    <3>1. ASSUME NEW base \in Amounts, NEW code \in Codes \cup {Nil}, CreateBill(b, base, code)
          PROVE  /\ bill' = [bill EXCEPT ![b] = DraftBill(base, code, Nil)]
                 /\ DraftBill(base, code, Nil).source = bill[b].source
                 /\ DraftBill(base, code, Nil).status # "none"
      BY <3>1 DEF CreateBill, DraftBill, ConversionInvariant, OriginsExist
    <3>2. ASSUME NEW base \in Amounts, NEW code \in Codes \cup {Nil}, UpdateBill(b, base, code)
          PROVE  /\ bill' = [bill EXCEPT ![b] = DraftBill(base, code, bill[b].source)]
                 /\ DraftBill(base, code, bill[b].source).source = bill[b].source
                 /\ DraftBill(base, code, bill[b].source).status # "none"
      BY <3>2 DEF UpdateBill, DraftBill
    <3>3. ASSUME CancelBill(b)
          PROVE  \E row : /\ bill' = [bill EXCEPT ![b] = row]
                          /\ row.source = bill[b].source
                          /\ row.status # "none"
      <4> WITNESS [bill[b] EXCEPT !.status = "cancelled", !.payment = "unpaid"]
      <4> QED
        BY <1>a, <3>3 DEF CancelBill, BillRow
    <3>4. ASSUME PostBill(b)
          PROVE  \E row : /\ bill' = [bill EXCEPT ![b] = row]
                          /\ row.source = bill[b].source
                          /\ row.status # "none"
      <4> WITNESS [bill[b] EXCEPT !.status = "posted", !.payment = "unpaid"]
      <4> QED
        BY <1>a, <3>4 DEF PostBill, BillRow
    <3> QED
      BY <1>1, <3>1, <3>2, <3>3, <3>4 DEF BillCall
  <2>3. \A x \in Bills : /\ bill'[x].source = bill[x].source
                         /\ bill[x].status # "none" => bill'[x].status # "none"
    BY <2>2 DEF TypeOK
  <2> QED
    BY <2>1, <2>3, Undisturbed
<1>2. ASSUME NEW p \in Payments, PaymentCall(p)
      PROVE  ConversionInvariant'
  <2>1. UNCHANGED <<order, conversion, origin, interrupted>>
    BY <1>2 DEF PaymentCall, CreatePayment, UpdatePayment, CancelPayment, PostPayment, SetPayment,
                history
  <2>2. UNCHANGED bill \/ bill' = [b \in Bills |-> Settle(b, p)]
    BY <1>2 DEF PaymentCall, CreatePayment, UpdatePayment, CancelPayment, PostPayment, SetPayment
  <2>3. \A b \in Bills : /\ Settle(b, p).source = bill[b].source
                         /\ Settle(b, p).status = bill[b].status
    BY <1>a DEF Settle, BillRow
  <2>4. \A x \in Bills : /\ bill'[x].source = bill[x].source
                         /\ bill[x].status # "none" => bill'[x].status # "none"
    BY <2>2, <2>3
  <2> QED
    BY <2>1, <2>4, Undisturbed
<1> QED
  BY <1>1, <1>2

\* A conversion that begins holds an order free of bills, or marks it interrupted.
LEMMA ReadKeeps ==
  ASSUME TypeOK, ConversionInvariant, NEW c \in Clients, NEW o \in Orders, ReadOrder(c, o)
  PROVE  ConversionInvariant'
<1>1. /\ conversion[c] = Idle
      /\ order[o].status = "acknowledged"
      /\ UNCHANGED <<order, bill, origin>>
  BY DEF ReadOrder, AtStep, documents, ConversionInvariant, ClientsInOrder
<1>2. /\ conversion'[c] = [step |-> "read", order |-> o, bill |-> Nil]
      /\ \A d \in Clients \ {c} : conversion'[d] = conversion[d]
  BY DEF ReadOrder, TypeOK, Idle
<1>3. /\ interrupted \subseteq interrupted'
      /\ \A x \in Orders \ interrupted' : x = o => \A d \in Clients \ {c} : conversion[d].order # o
  BY DEF ReadOrder, Overlapped
<1>4. ClientsInOrder'
  BY <1>1, <1>2 DEF ConversionInvariant, ClientsInOrder
<1>5. OriginsExist'
  BY <1>1 DEF ConversionInvariant, OriginsExist
<1>6. OneConversion'
  <2> SUFFICES ASSUME NEW x \in Orders \ interrupted'
               PROVE  /\ \A d, e \in Clients :
                           conversion'[d].order = x /\ conversion'[e].order = x => d = e
                      /\ order'[x].status = "converted" =>
                           \A d \in Clients : conversion'[d].order # x
                      /\ \A b \in Bills : origin'[b] = x =>
                           \/ order'[x].status = "converted" /\ order'[x].bill = b
                           \/ \E d \in Clients :
                                conversion'[d] = [step |-> "billed", order |-> x, bill |-> b]
    BY DEF OneConversion
  <2>1. x \in Orders \ interrupted
    BY <1>3
  <2>2. CASE x = o
    <3>1. \A d \in Clients \ {c} : conversion'[d].order # o
      BY <1>2, <1>3, <2>2
    <3>2. ASSUME NEW b \in Bills, origin[b] = o
          PROVE  FALSE
      <4>1. PICK e \in Clients : conversion[e] = [step |-> "billed", order |-> o, bill |-> b]
        BY <1>1, <2>1, <2>2, <3>2 DEF ConversionInvariant, OneConversion
      <4>2. e # c /\ conversion[e].order = o
        BY <1>1, <4>1 DEF Idle
      <4> QED
        BY <1>3, <2>2, <4>2
    <3> QED
      BY <1>1, <2>2, <3>1, <3>2
  <2>3. CASE x # o
    <3>1. \A d \in Clients : conversion'[d].order = x => d # c /\ conversion[d].order = x
      BY <1>2, <2>3
    <3>2. \A d \in Clients : conversion[d].step = "billed" => conversion'[d] = conversion[d]
      BY <1>1, <1>2 DEF Idle
    <3> QED
      BY <1>1, <2>1, <3>1, <3>2 DEF ConversionInvariant, OneConversion
  <2> QED
    BY <2>2, <2>3
<1>7. ConversionTraced'
  BY <1>1 DEF ConversionInvariant, ConversionTraced
<1> QED
  BY <1>4, <1>5, <1>6, <1>7 DEF ConversionInvariant

\* The bill a conversion makes is new: no order and no other conversion names it.
LEMMA BillingKeeps ==
  ASSUME TypeOK, ConversionInvariant, NEW c \in Clients, NEW b \in Bills, BillOrder(c, b)
  PROVE  ConversionInvariant'
<1> DEFINE o == conversion[c].order
<1>1. /\ conversion[c].step = "read" /\ o \in Orders
      /\ order[o].status \in {"acknowledged", "converted"}
      /\ bill[b].status = "none"
      /\ UNCHANGED <<order, interrupted>>
  BY DEF BillOrder, AtStep, ConversionInvariant, ClientsInOrder
<1>2. /\ conversion'[c] = [step |-> "billed", order |-> o, bill |-> b]
      /\ \A d \in Clients \ {c} : conversion'[d] = conversion[d]
  BY DEF BillOrder, TypeOK
<1>3. /\ origin'[b] = o
      /\ \A x \in Bills \ {b} : origin'[x] = origin[x]
  BY DEF BillOrder, TypeOK
<1>4. /\ bill'[b].status = "draft" /\ bill'[b].source = Nil
      /\ \A x \in Bills \ {b} : bill'[x] = bill[x]
  BY DEF BillOrder, TypeOK, DraftBill
<1>5. origin[b] = Nil /\ bill[b].source = Nil /\ Nil \notin Orders
  BY <1>1, PayablesConstants DEF ConversionInvariant, OriginsExist
<1>6. ClientsInOrder'
  <2>1. \A d \in Clients \ {c} : conversion[d].step = "billed" => conversion[d].bill # b
    BY <1>5 DEF ConversionInvariant, ClientsInOrder
  <2> QED
    BY <1>1, <1>2, <1>3, <2>1 DEF ConversionInvariant, ClientsInOrder
<1>7. OriginsExist'
  BY <1>3, <1>4 DEF ConversionInvariant, OriginsExist
<1>8. OneConversion'
  <2> SUFFICES ASSUME NEW x \in Orders \ interrupted
               PROVE  /\ \A d, e \in Clients :
                           conversion'[d].order = x /\ conversion'[e].order = x => d = e
                      /\ order'[x].status = "converted" =>
                           \A d \in Clients : conversion'[d].order # x
                      /\ \A a \in Bills : origin'[a] = x =>
                           \/ order'[x].status = "converted" /\ order'[x].bill = a
                           \/ \E d \in Clients :
                                conversion'[d] = [step |-> "billed", order |-> x, bill |-> a]
    BY <1>1 DEF OneConversion
  <2>1. \A d \in Clients : conversion'[d].order = conversion[d].order
    BY <1>2
  <2>2. ASSUME NEW a \in Bills, origin'[a] = x
        PROVE  \/ order'[x].status = "converted" /\ order'[x].bill = a
               \/ \E d \in Clients :
                    conversion'[d] = [step |-> "billed", order |-> x, bill |-> a]
    <3>1. CASE a = b
      BY <1>2, <1>3, <2>2, <3>1
    <3>2. CASE a # b
      <4>1. origin[a] = x
        BY <1>3, <2>2, <3>2
      <4>2. CASE order[x].status = "converted" /\ order[x].bill = a
        BY <1>1, <4>2
      <4>3. ASSUME NEW d \in Clients,
                   conversion[d] = [step |-> "billed", order |-> x, bill |-> a]
            PROVE  conversion'[d] = [step |-> "billed", order |-> x, bill |-> a]
        BY <1>1, <1>2, <4>3
      <4> QED
        BY <4>1, <4>2, <4>3 DEF ConversionInvariant, OneConversion
    <3> QED
      BY <3>1, <3>2
  <2> QED
    BY <1>1, <2>1, <2>2 DEF ConversionInvariant, OneConversion
<1>9. ConversionTraced'
  <2>1. ASSUME NEW x \in Orders, order[x].status = "converted"
        PROVE  order'[x].bill # Nil /\ bill'[order'[x].bill].source = x
    <3>1. order[x].bill \in Bills /\ bill[order[x].bill].source = x
      BY <2>1 DEF ConversionInvariant, ConversionTraced, TypeOK, OrderRow
    <3>2. order[x].bill # b
      BY <1>5, <3>1
    <3> QED
      BY <1>1, <1>4, <3>1, <3>2, PayablesConstants
  <2>2. ASSUME NEW x \in Bills, bill'[x].source # Nil
        PROVE  order'[bill'[x].source].status = "converted" /\ origin'[x] = bill'[x].source
    BY <1>1, <1>3, <1>4, <2>2 DEF ConversionInvariant, ConversionTraced
  <2> QED
    BY <1>1, <2>1, <2>2 DEF ConversionTraced
<1> QED
  BY <1>6, <1>7, <1>8, <1>9 DEF ConversionInvariant

\* Linking ends the only conversion of an order nobody interrupted, with its only bill.
LEMMA LinkingKeeps ==
  ASSUME TypeOK, ConversionInvariant, NEW c \in Clients, LinkOrder(c)
  PROVE  ConversionInvariant'
<1> DEFINE o == conversion[c].order
           b == conversion[c].bill
<1>1. /\ conversion[c].step = "billed" /\ o \in Orders /\ b \in Bills /\ origin[b] = o
      /\ UNCHANGED <<origin, interrupted>>
  BY DEF LinkOrder, AtStep, ConversionInvariant, ClientsInOrder, history
<1>2. /\ order'[o].status = "converted" /\ order'[o].bill = b
      /\ \A x \in Orders \ {o} : order'[x] = order[x]
  <2>1. order[o] \in OrderRow
    BY <1>1 DEF TypeOK
  <2> QED
    BY <1>1, <2>1 DEF LinkOrder, TypeOK, OrderRow
<1>3. /\ bill'[b].source = o
      /\ \A x \in Bills : bill'[x].status = bill[x].status
      /\ \A x \in Bills \ {b} : bill'[x] = bill[x]
  <2>1. bill[b] \in BillRow
    BY <1>1 DEF TypeOK
  <2> QED
    BY <1>1, <2>1 DEF LinkOrder, TypeOK, BillRow
<1>4. /\ conversion'[c] = Idle
      /\ \A d \in Clients \ {c} : conversion'[d] = conversion[d]
  BY DEF LinkOrder, TypeOK
<1>5. o # Nil /\ Nil \notin Bills /\ Nil \notin Orders
  BY <1>1, PayablesConstants
<1>6. ClientsInOrder'
  <2>1. \A x \in Orders : order[x].status \in {"acknowledged", "converted"} =>
          order'[x].status \in {"acknowledged", "converted"}
    BY <1>2
  <2> QED
    BY <1>1, <1>4, <2>1 DEF ConversionInvariant, ClientsInOrder, Idle
<1>7. OriginsExist'
  BY <1>1, <1>3, <1>5 DEF ConversionInvariant, OriginsExist
<1>8. OneConversion'
  <2> SUFFICES ASSUME NEW x \in Orders \ interrupted
               PROVE  /\ \A d, e \in Clients :
                           conversion'[d].order = x /\ conversion'[e].order = x => d = e
                      /\ order'[x].status = "converted" =>
                           \A d \in Clients : conversion'[d].order # x
                      /\ \A a \in Bills : origin'[a] = x =>
                           \/ order'[x].status = "converted" /\ order'[x].bill = a
                           \/ \E d \in Clients :
                                conversion'[d] = [step |-> "billed", order |-> x, bill |-> a]
    BY <1>1 DEF OneConversion
  <2>1. \A d \in Clients : conversion'[d].order = x => d # c /\ conversion[d].order = x
    BY <1>4, PayablesConstants DEF Idle
  <2>2. CASE x = o
    <3>1. \A d \in Clients : conversion'[d].order # x
      BY <2>1, <2>2 DEF ConversionInvariant, OneConversion
    <3>2. ASSUME NEW a \in Bills, origin[a] = x
          PROVE  a = b
      <4>1. order[x].status # "converted"
        BY <2>2 DEF ConversionInvariant, OneConversion
      <4>2. PICK d \in Clients : conversion[d] = [step |-> "billed", order |-> x, bill |-> a]
        BY <3>2, <4>1 DEF ConversionInvariant, OneConversion
      <4>3. d = c
        BY <2>2, <4>2 DEF ConversionInvariant, OneConversion
      <4> QED
        BY <4>2, <4>3
    <3> QED
      BY <1>1, <1>2, <2>2, <3>1, <3>2
  <2>3. CASE x # o
    <3>1. order'[x] = order[x]
      BY <1>2, <2>3
    <3>2. \A d \in Clients, a \in Bills :
            conversion[d] = [step |-> "billed", order |-> x, bill |-> a] =>
              conversion'[d] = [step |-> "billed", order |-> x, bill |-> a]
      BY <1>4, <2>3
    <3> QED
      BY <1>1, <2>1, <3>1, <3>2 DEF ConversionInvariant, OneConversion
  <2> QED
    BY <2>2, <2>3
<1>9. ConversionTraced'
  <2>1. ASSUME NEW x \in Orders, order'[x].status = "converted"
        PROVE  order'[x].bill # Nil /\ bill'[order'[x].bill].source = x
    <3>1. CASE x = o
      BY <1>1, <1>2, <1>3, <1>5, <3>1
    <3>2. CASE x # o
      <4>1. order'[x] = order[x]
        BY <1>2, <3>2
      <4>2. order[x].bill \in Bills /\ bill[order[x].bill].source = x
        BY <2>1, <4>1 DEF ConversionInvariant, ConversionTraced, TypeOK, OrderRow
      <4>3. order[x].bill # b
        BY <1>1, <1>5, <3>2, <4>2 DEF ConversionInvariant, ConversionTraced
      <4> QED
        BY <1>3, <1>5, <4>1, <4>2, <4>3
    <3> QED
      BY <3>1, <3>2
  <2>2. ASSUME NEW x \in Bills, bill'[x].source # Nil
        PROVE  order'[bill'[x].source].status = "converted" /\ origin'[x] = bill'[x].source
    <3>1. CASE x = b
      BY <1>1, <1>2, <1>3, <3>1
    <3>2. CASE x # b
      <4>1. bill'[x] = bill[x] /\ bill[x].source \in Orders
        BY <1>3, <2>2, <3>2 DEF TypeOK, BillRow
      <4> QED
        BY <1>1, <1>2, <2>2, <4>1 DEF ConversionInvariant, ConversionTraced
    <3> QED
      BY <3>1, <3>2
  <2> QED
    BY <2>1, <2>2 DEF ConversionTraced
<1> QED
  BY <1>6, <1>7, <1>8, <1>9 DEF ConversionInvariant

\* A conversion that dies after it made a bill marks its order.
LEMMA AbandonKeeps ==
  ASSUME TypeOK, ConversionInvariant, NEW c \in Clients, Abandon(c)
  PROVE  ConversionInvariant'
<1>1. /\ conversion'[c] = Idle
      /\ \A d \in Clients \ {c} : conversion'[d] = conversion[d]
      /\ UNCHANGED <<order, bill, origin>>
  BY DEF Abandon, TypeOK, documents
<1>2. /\ interrupted \subseteq interrupted'
      /\ conversion[c].step = "billed" => conversion[c].order \in interrupted'
  BY DEF Abandon, AtStep
<1>3. ClientsInOrder'
  BY <1>1 DEF ConversionInvariant, ClientsInOrder, Idle
<1>4. OriginsExist'
  BY <1>1 DEF ConversionInvariant, OriginsExist
<1>5. OneConversion'
  <2> SUFFICES ASSUME NEW x \in Orders \ interrupted'
               PROVE  /\ \A d, e \in Clients :
                           conversion'[d].order = x /\ conversion'[e].order = x => d = e
                      /\ order'[x].status = "converted" =>
                           \A d \in Clients : conversion'[d].order # x
                      /\ \A a \in Bills : origin'[a] = x =>
                           \/ order'[x].status = "converted" /\ order'[x].bill = a
                           \/ \E d \in Clients :
                                conversion'[d] = [step |-> "billed", order |-> x, bill |-> a]
    BY DEF OneConversion
  <2>1. x \in Orders \ interrupted
    BY <1>2
  <2>2. \A d \in Clients : conversion'[d].order = x => d # c /\ conversion[d].order = x
    BY <1>1, PayablesConstants DEF Idle
  <2>3. \A d \in Clients, a \in Bills :
          conversion[d] = [step |-> "billed", order |-> x, bill |-> a] =>
            conversion'[d] = [step |-> "billed", order |-> x, bill |-> a]
    BY <1>1, <1>2
  <2> QED
    BY <1>1, <2>1, <2>2, <2>3 DEF ConversionInvariant, OneConversion
<1>6. ConversionTraced'
  BY <1>1 DEF ConversionInvariant, ConversionTraced
<1> QED
  BY <1>3, <1>4, <1>5, <1>6 DEF ConversionInvariant

\* Every step keeps the tables well formed and the conversions' invariant.
LEMMA StepKeeps ==
  ASSUME TypeOK, ConversionInvariant, [Next]_vars
  PROVE  TypeOK' /\ ConversionInvariant'
<1>1. CASE UNCHANGED vars
  BY <1>1
  DEF vars, documents, history, TypeOK, ConversionInvariant, ClientsInOrder, OriginsExist,
      OneConversion, ConversionTraced
<1>2. ASSUME NEW c \in Codes, NEW flag \in Flags, UpdateTaxCode(c, flag)
      PROVE  TypeOK' /\ ConversionInvariant'
  <2>1. UNCHANGED <<order, bill, conversion, origin, interrupted>>
    BY <1>2 DEF UpdateTaxCode, documents, history
  <2> QED
    BY <1>2, <2>1, CodeCallType, Undisturbed
<1>3. ASSUME NEW o \in Orders, OrderCall(o)
      PROVE  TypeOK' /\ ConversionInvariant'
  BY <1>3, OrderCallType, OrderCallKeeps
<1>4. ASSUME NEW c \in Clients, ConversionCall(c)
      PROVE  TypeOK' /\ ConversionInvariant'
  BY <1>4, ConversionCallType, ReadKeeps, BillingKeeps, LinkingKeeps, AbandonKeeps
  DEF ConversionCall, ConversionInvariant
<1>5. ASSUME NEW b \in Bills, BillCall(b)
      PROVE  TypeOK' /\ ConversionInvariant'
  BY <1>5, BillCallType, BillsKeep
<1>6. ASSUME NEW p \in Payments, PaymentCall(p)
      PROVE  TypeOK' /\ ConversionInvariant'
  BY <1>6, PaymentCallType, BillsKeep
<1>7. ASSUME NEW n \in Notes, NoteCall(n)
      PROVE  TypeOK' /\ ConversionInvariant'
  <2>1. UNCHANGED <<order, bill, conversion, origin, interrupted>>
    BY <1>7 DEF NoteCall, CreateNote, UpdateNote, CancelNote, PostNote, SetNote, history
  <2> QED
    BY <1>7, <2>1, NoteCallType, Undisturbed
<1> QED
  BY <1>1, <1>2, <1>3, <1>4, <1>5, <1>6, <1>7 DEF Next

\* The tables stay well formed and the conversions keep their invariant.
LEMMA PayablesInvariant == Spec => [](TypeOK /\ ConversionInvariant)
<1>1. Init => TypeOK /\ ConversionInvariant
  <2> SUFFICES ASSUME Init
               PROVE  TypeOK /\ ConversionInvariant
    OBVIOUS
  <2>1. TypeOK
    BY DEF Init, TypeOK, DraftOrder, OrderRow, OrderStatus, BillRow, NoteRow, DocumentStatus,
           PaymentStatuses, Flags, NoAllocation, NoEntry, Entry, NoFact, Idle
  <2>2. ClientsInOrder /\ OriginsExist
    BY DEF Init, ClientsInOrder, OriginsExist, Idle
  <2>3. OneConversion /\ ConversionTraced
    BY PayablesConstants DEF Init, OneConversion, ConversionTraced, DraftOrder, Idle
  <2> QED
    BY <2>1, <2>2, <2>3 DEF ConversionInvariant
<1>2. TypeOK /\ ConversionInvariant /\ [Next]_vars => TypeOK' /\ ConversionInvariant'
  BY StepKeeps
<1> QED
  BY <1>1, <1>2, PTL DEF Spec

\* The tables stay well formed, for any documents, codes and clients: a conversion never
\* reaches its second transaction without an order, nor its third without a bill.
THEOREM PayablesTypeCorrect == Spec => []TypeOK
BY PayablesInvariant, PTL

\* However many clients convert it, an order is billed once unless a conversion of it died
\* after its bill was committed, or overlapped another.
THEOREM OrderBilledOnce == Spec => []BilledTwiceWhenInterrupted
<1>1. TypeOK /\ ConversionInvariant => BilledTwiceWhenInterrupted
  <2> SUFFICES ASSUME TypeOK, ConversionInvariant, NEW a \in Bills, NEW b \in Bills,
                      origin[a] = origin[b], origin[a] # Nil, origin[a] \notin interrupted
               PROVE  a = b
    BY DEF BilledTwiceWhenInterrupted
  <2> DEFINE o == origin[a]
  <2>1. o \in Orders \ interrupted
    BY DEF TypeOK
  <2>2. \A x \in {a, b} : \/ order[o].status = "converted" /\ order[o].bill = x
                          \/ \E c \in Clients :
                               conversion[c] = [step |-> "billed", order |-> o, bill |-> x]
    BY <2>1 DEF ConversionInvariant, OneConversion
  <2>3. order[o].status = "converted" => \A c \in Clients : conversion[c].order # o
    BY <2>1 DEF ConversionInvariant, OneConversion
  <2>4. \A c, d \in Clients : conversion[c].order = o /\ conversion[d].order = o => c = d
    BY <2>1 DEF ConversionInvariant, OneConversion
  <2>5. CASE order[o].status = "converted"
    BY <2>2, <2>3, <2>5
  <2>6. CASE order[o].status # "converted"
    <3>1. PICK c \in Clients : conversion[c] = [step |-> "billed", order |-> o, bill |-> a]
      BY <2>2, <2>6
    <3>2. PICK d \in Clients : conversion[d] = [step |-> "billed", order |-> o, bill |-> b]
      BY <2>2, <2>6
    <3>3. c = d
      BY <2>4, <3>1, <3>2
    <3> QED
      BY <3>1, <3>2, <3>3
  <2> QED
    BY <2>5, <2>6
<1> QED
  BY <1>1, PayablesInvariant, PTL

\* A converted order and its bill name each other, whatever happened to the bill between the
\* transactions, and no bill names an order that is not converted.
THEOREM ConvertedOrderTraced == Spec => []ConversionTraced
<1>1. ConversionInvariant => ConversionTraced
  BY DEF ConversionInvariant
<1> QED
  BY <1>1, PayablesInvariant, PTL

\* A converted order keeps its bill unless its conversion was interrupted: no conversion of it
\* is under way any more, and no call on orders takes a converted one.
THEOREM ConvertedOrderKeepsLink == Spec => LinkStays
<1>1. TypeOK /\ ConversionInvariant /\ [Next]_vars =>
        [\A o \in Orders :
           order[o].status = "converted" /\ o \notin interrupted => order'[o] = order[o]]_vars
  <2> SUFFICES ASSUME TypeOK, ConversionInvariant, Next, NEW o \in Orders,
                      order[o].status = "converted", o \notin interrupted
               PROVE  order'[o] = order[o]
    OBVIOUS
  <2>1. ASSUME NEW x \in Orders, OrderCall(x)
        PROVE  order'[o] = order[o]
    BY <2>1, OrderCallScope DEF SetOrder, TypeOK
  <2>2. ASSUME NEW c \in Clients, LinkOrder(c)
        PROVE  order'[o] = order[o]
    <3>1. conversion[c].order # o
      BY DEF ConversionInvariant, OneConversion
    <3> QED
      BY <2>2, <3>1 DEF LinkOrder, TypeOK
  <2>3. CASE UNCHANGED order
    BY <2>3
  <2> QED
    BY <2>1, <2>2, <2>3
    DEF Next, UpdateTaxCode, documents, ConversionCall, ReadOrder, BillOrder, Abandon, BillCall,
        CreateBill, UpdateBill, CancelBill, PostBill, PaymentCall, CreatePayment, UpdatePayment,
        CancelPayment, PostPayment, SetPayment, NoteCall, CreateNote, UpdateNote, CancelNote,
        PostNote, SetNote
<1> QED
  BY <1>1, PayablesInvariant, PTL DEF Spec, LinkStays

-------------------------------------------------------------------------------
(* What posting leaves in the journal and among the tax facts.             *)

\* The legs of an entry cancel out.
Balances(e) == e.ap + e.expense + e.input + e.bank = 0

\* A line without a tax code has no tax; a note that is not posted has no entry.
RowsSound ==
  /\ \A b \in Bills : bill[b].code = Nil => bill[b].tax = 0
  /\ \A n \in Notes : note[n].code = Nil => note[n].tax = 0
  /\ \A n \in Notes : note[n].status # "posted" => journal[n] = NoEntry

\* The invariant the postings keep.
BooksInvariant == RowsSound /\ InputTaxAgrees /\ EntriesBalance

\* The kinds of documents are apart.
LEMMA DocumentKinds ==
  /\ Bills \subseteq Documents /\ Payments \subseteq Documents /\ Notes \subseteq Documents
  /\ \A b \in Bills : b \notin Payments /\ b \notin Notes
  /\ \A p \in Payments : p \notin Notes
BY PayablesConstants DEF Documents

\* Rewriting bills that are not posted, and journal entries of payments that balance, disturbs
\* nothing.
LEMMA BillsRewritten ==
  ASSUME TypeOK, BooksInvariant, UNCHANGED <<note, fact, routed>>,
         \A b \in Bills :
           /\ bill'[b].code = Nil => bill'[b].tax = 0
           /\ bill'[b].status = "posted" => /\ bill[b].status = "posted"
                                            /\ bill'[b].code = bill[b].code
                                            /\ bill'[b].flag = bill[b].flag,
         \A d \in Bills \cup Notes : journal'[d] = journal[d],
         \A p \in Payments : journal'[p] = journal[p] \/ Balances(journal'[p])
  PROVE  BooksInvariant'
<1>1. RowsSound'
  BY DEF BooksInvariant, RowsSound
<1>2. InputTaxAgrees'
  BY DEF BooksInvariant, InputTaxAgrees, Drifted, Deductible
<1>3. EntriesBalance'
  <2> SUFFICES ASSUME NEW d \in Documents
               PROVE  Balances(journal'[d]) \/ (d \in Notes /\ ~note'[d].account)
    BY DEF EntriesBalance, Balances
  <2>1. Balances(journal[d]) \/ (d \in Notes /\ ~note[d].account)
    BY DEF BooksInvariant, EntriesBalance, Balances
  <2>2. d \in Bills \cup Notes \/ d \in Payments
    BY DEF Documents
  <2> QED
    BY <2>1, <2>2, DocumentKinds
<1> QED
  BY <1>1, <1>2, <1>3 DEF BooksInvariant

\* A draft line without a code has no tax.
LEMMA DraftUntaxed ==
  ASSUME NEW base, NEW code, NEW source
  PROVE  /\ DraftBill(base, code, source).code = Nil => DraftBill(base, code, source).tax = 0
         /\ DraftBill(base, code, source).status = "draft"
BY DEF DraftBill, Tax

\* Where the tax of a row goes: with the flag of the draft and the code the same and set, the
\* input tax account gets what the fact lets deduct.
LEMMA RoutedTax ==
  ASSUME TypeOK, NEW d, d.tax \in Nat, d.code \in Codes \cup {Nil}, d.flag \in Flags,
         d.code = Nil => d.tax = 0,
         d.code = Nil \/ (d.flag = recoverable[d.code] /\ d.flag # "unset"),
         NEW sign \in {-1, 1}
  PROVE  sign * (d.tax - ExpensedTax(d)) =
           IF Fact(d, sign).flag = "yes" THEN Fact(d, sign).tax ELSE 0
<1>1. CASE d.code = Nil
  BY <1>1 DEF ExpensedTax, Fact, NoFact
<1>2. CASE d.code # Nil
  <2>1. /\ Fact(d, sign).flag = d.flag /\ Fact(d, sign).tax = sign * d.tax
        /\ d.flag \in {"yes", "no"}
    BY <1>2 DEF Fact, FactFlag, Flags
  <2>2. CASE d.flag = "yes"
    BY <1>2, <2>1, <2>2 DEF ExpensedTax
  <2>3. CASE d.flag = "no"
    <3>1. ExpensedTax(d) = d.tax
      BY <1>2, <2>3 DEF ExpensedTax
    <3> QED
      BY <2>1, <2>3, <3>1
  <2> QED
    BY <2>1, <2>2, <2>3
<1> QED
  BY <1>1, <1>2

\* Posting a bill books it soundly.
LEMMA PostBillBooks ==
  ASSUME TypeOK, BooksInvariant, NEW b \in Bills, PostBill(b)
  PROVE  BooksInvariant'
<1> DEFINE d == bill[b]
<1>a. d \in BillRow /\ b \in Documents /\ Bills \subseteq Documents /\ Notes \subseteq Documents
  BY DocumentKinds DEF TypeOK
<1>b. d.tax \in Nat /\ d.base \in Nat /\ d.code \in Codes \cup {Nil} /\ d.flag \in Flags
  BY <1>a DEF BillRow
<1>1. /\ bill'[b].code = d.code /\ bill'[b].flag = d.flag /\ bill'[b].tax = d.tax
      /\ \A x \in Bills \ {b} : bill'[x] = bill[x]
      /\ UNCHANGED note
  BY <1>a DEF PostBill, TypeOK, BillRow
<1>2. /\ journal'[b] = [ap |-> -Total(d), expense |-> d.base + ExpensedTax(d),
                        input |-> d.tax - ExpensedTax(d), bank |-> 0]
      /\ fact'[b] = Fact(d, 1)
      /\ routed'[b] = Snapshot(d.code)
      /\ \A x \in Documents \ {b} :
           journal'[x] = journal[x] /\ fact'[x] = fact[x] /\ routed'[x] = routed[x]
  BY <1>a DEF PostBill, TypeOK
<1>3. RowsSound'
  BY <1>1, <1>2, <1>a, DocumentKinds DEF BooksInvariant, RowsSound
<1>4. InputTaxAgrees'
  <2>1. ASSUME ~Drifted(bill[b], b)'
        PROVE  journal'[b].input = Deductible(b)'
    <3>1. d.code = Nil \/ (d.flag = recoverable[d.code] /\ d.flag # "unset")
      BY <1>1, <1>2, <2>1 DEF Drifted, Snapshot
    <3>2. d.code = Nil => d.tax = 0
      BY DEF BooksInvariant, RowsSound
    <3>3. 1 * (d.tax - ExpensedTax(d)) = IF Fact(d, 1).flag = "yes" THEN Fact(d, 1).tax ELSE 0
      BY <1>b, <3>1, <3>2, RoutedTax
    <3>4. d.tax - ExpensedTax(d) \in Int
      BY <1>b DEF ExpensedTax
    <3>5. journal'[b].input = d.tax - ExpensedTax(d)
      BY <1>2
    <3> QED
      BY <1>2, <3>3, <3>4, <3>5 DEF Deductible
  <2>2. ASSUME NEW x \in Bills, bill'[x].status = "posted", ~Drifted(bill[x], x)'
        PROVE  journal'[x].input = Deductible(x)'
    <3>1. CASE x = b
      BY <2>1, <2>2, <3>1
    <3>2. CASE x # b
      BY <1>1, <1>2, <1>a, <2>2, <3>2 DEF BooksInvariant, InputTaxAgrees, Drifted, Deductible
    <3> QED
      BY <3>1, <3>2
  <2>3. \A n \in Notes : note'[n].status = "posted" /\ ~Drifted(note[n], n)' =>
          journal'[n].input = Deductible(n)'
    BY <1>1, <1>2, <1>a, DocumentKinds DEF BooksInvariant, InputTaxAgrees, Drifted, Deductible
  <2> QED
    BY <2>2, <2>3 DEF InputTaxAgrees
<1>5. EntriesBalance'
  <2>1. ExpensedTax(d) \in Nat
    BY <1>b DEF ExpensedTax
  <2>2. Balances(journal'[b])
    BY <1>b, <1>2, <2>1 DEF Balances, Total
  <2>3. \A x \in Documents : Balances(journal[x]) \/ (x \in Notes /\ ~note[x].account)
    BY DEF BooksInvariant, EntriesBalance, Balances
  <2>4. \A x \in Documents : Balances(journal'[x]) \/ (x \in Notes /\ ~note'[x].account)
    BY <1>1, <1>2, <2>2, <2>3
  <2> QED
    BY <2>4 DEF EntriesBalance, Balances
<1> QED
  BY <1>3, <1>4, <1>5 DEF BooksInvariant

\* Posting a note books it soundly.
LEMMA PostNoteBooks ==
  ASSUME TypeOK, BooksInvariant, NEW n \in Notes, PostNote(n)
  PROVE  BooksInvariant'
<1> DEFINE d == note[n]
<1>a. d \in NoteRow /\ n \in Documents /\ Bills \subseteq Documents /\ Notes \subseteq Documents
  BY DocumentKinds DEF TypeOK
<1>b. d.tax \in Nat /\ d.base \in Nat /\ d.code \in Codes \cup {Nil} /\ d.flag \in Flags
  BY <1>a DEF NoteRow
<1>1. /\ note'[n].code = d.code /\ note'[n].flag = d.flag /\ note'[n].tax = d.tax
      /\ note'[n].status = "posted" /\ note'[n].account = d.account
      /\ \A x \in Notes \ {n} : note'[x] = note[x]
      /\ UNCHANGED bill
  BY <1>a DEF PostNote, TypeOK, NoteRow
<1>2. /\ journal'[n] = NoteEntry(d)
      /\ fact'[n] = Fact(d, -1)
      /\ routed'[n] = Snapshot(d.code)
      /\ \A x \in Documents \ {n} :
           journal'[x] = journal[x] /\ fact'[x] = fact[x] /\ routed'[x] = routed[x]
  BY <1>a DEF PostNote, TypeOK
<1>3. /\ ExpensedTax(d) \in Nat
      /\ NoteEntry(d).ap = Total(d) /\ NoteEntry(d).input = ExpensedTax(d) - d.tax
      /\ NoteEntry(d).expense = IF d.account THEN -(d.base + ExpensedTax(d)) ELSE 0
      /\ NoteEntry(d).bank = 0
  BY <1>b DEF ExpensedTax, NoteEntry, NoEntry
<1>4. RowsSound'
  BY <1>1, <1>2, <1>a, DocumentKinds DEF BooksInvariant, RowsSound
<1>5. InputTaxAgrees'
  <2>1. ASSUME ~Drifted(note[n], n)'
        PROVE  journal'[n].input = Deductible(n)'
    <3>1. d.code = Nil \/ (d.flag = recoverable[d.code] /\ d.flag # "unset")
      BY <1>1, <1>2, <2>1 DEF Drifted, Snapshot
    <3>2. d.code = Nil => d.tax = 0
      BY DEF BooksInvariant, RowsSound
    <3>3. (-1) * (d.tax - ExpensedTax(d)) =
            IF Fact(d, -1).flag = "yes" THEN Fact(d, -1).tax ELSE 0
      BY <1>b, <3>1, <3>2, RoutedTax
    <3>4. (-1) * (d.tax - ExpensedTax(d)) = ExpensedTax(d) - d.tax
      BY <1>b, <1>3
    <3> QED
      BY <1>2, <1>3, <3>3, <3>4 DEF Deductible
  <2>2. ASSUME NEW x \in Notes, note'[x].status = "posted", ~Drifted(note[x], x)'
        PROVE  journal'[x].input = Deductible(x)'
    <3>1. CASE x = n
      BY <2>1, <2>2, <3>1
    <3>2. CASE x # n
      BY <1>1, <1>2, <1>a, <2>2, <3>2 DEF BooksInvariant, InputTaxAgrees, Drifted, Deductible
    <3> QED
      BY <3>1, <3>2
  <2>3. \A b \in Bills : bill'[b].status = "posted" /\ ~Drifted(bill[b], b)' =>
          journal'[b].input = Deductible(b)'
    BY <1>1, <1>2, <1>a, DocumentKinds DEF BooksInvariant, InputTaxAgrees, Drifted, Deductible
  <2> QED
    BY <2>2, <2>3 DEF InputTaxAgrees
<1>6. EntriesBalance'
  <2>1. Balances(journal'[n]) \/ ~note'[n].account
    BY <1>b, <1>1, <1>2, <1>3 DEF Balances, Total
  <2>2. \A x \in Documents : Balances(journal[x]) \/ (x \in Notes /\ ~note[x].account)
    BY DEF BooksInvariant, EntriesBalance, Balances
  <2>3. \A x \in Documents : Balances(journal'[x]) \/ (x \in Notes /\ ~note'[x].account)
    BY <1>1, <1>2, <2>1, <2>2
  <2> QED
    BY <2>3 DEF EntriesBalance, Balances
<1> QED
  BY <1>4, <1>5, <1>6 DEF BooksInvariant

\* A note that is not posted can be rewritten: it has no entry yet.
LEMMA NoteRewritten ==
  ASSUME TypeOK, BooksInvariant, NEW n \in Notes, NEW row, SetNote(n, row),
         note[n].status # "posted", row.status # "posted", row.code = Nil => row.tax = 0
  PROVE  BooksInvariant'
<1>1. /\ note'[n] = row
      /\ \A x \in Notes \ {n} : note'[x] = note[x]
      /\ UNCHANGED <<bill, journal, fact, routed>>
  BY DEF SetNote, TypeOK, history
<1>2. RowsSound'
  BY <1>1 DEF BooksInvariant, RowsSound
<1>3. InputTaxAgrees'
  BY <1>1 DEF BooksInvariant, InputTaxAgrees, Drifted, Deductible
<1>4. EntriesBalance'
  <2>1. Balances(journal[n])
    BY DEF BooksInvariant, RowsSound, Balances, NoEntry
  <2>2. \A x \in Documents : Balances(journal[x]) \/ (x \in Notes /\ ~note[x].account)
    BY DEF BooksInvariant, EntriesBalance, Balances
  <2>3. \A x \in Documents : Balances(journal'[x]) \/ (x \in Notes /\ ~note'[x].account)
    BY <1>1, <2>1, <2>2
  <2> QED
    BY <2>3 DEF EntriesBalance, Balances
<1> QED
  BY <1>2, <1>3, <1>4 DEF BooksInvariant

\* Every call on a note books soundly.
LEMMA NoteCallBooks ==
  ASSUME TypeOK, BooksInvariant, NEW n \in Notes, NoteCall(n)
  PROVE  BooksInvariant'
<1>1. ASSUME NEW base \in Amounts, NEW code \in Codes \cup {Nil}, NEW account \in BOOLEAN,
             CreateNote(n, base, code, account) \/ UpdateNote(n, base, code, account)
      PROVE  BooksInvariant'
  <2>1. /\ DraftNote(base, code, account).status # "posted"
        /\ DraftNote(base, code, account).code = Nil => DraftNote(base, code, account).tax = 0
    BY DEF DraftNote, Tax
  <2>2. note[n].status # "posted" /\ SetNote(n, DraftNote(base, code, account))
    BY <1>1 DEF CreateNote, UpdateNote
  <2> QED
    BY <2>1, <2>2, NoteRewritten
<1>2. CASE CancelNote(n)
  <2> DEFINE row == [note[n] EXCEPT !.status = "cancelled"]
  <2>1. note[n] \in NoteRow
    BY DEF TypeOK
  <2>2. row.status = "cancelled" /\ row.code = note[n].code /\ row.tax = note[n].tax
    BY <2>1 DEF NoteRow
  <2>3. note[n].status # "posted" /\ SetNote(n, row)
    BY <1>2 DEF CancelNote
  <2> HIDE DEF row
  <2>4. row.code = Nil => row.tax = 0
    BY <2>2 DEF BooksInvariant, RowsSound
  <2> QED
    BY <2>2, <2>3, <2>4, NoteRewritten
<1>3. CASE PostNote(n)
  BY <1>3, PostNoteBooks
<1> QED
  BY <1>1, <1>2, <1>3 DEF NoteCall

\* Every call on a bill books soundly.
LEMMA BillCallBooks ==
  ASSUME TypeOK, BooksInvariant, NEW b \in Bills, BillCall(b)
  PROVE  BooksInvariant'
<1>a. bill[b] \in BillRow
  BY DEF TypeOK
<1>1. ASSUME UNCHANGED <<note, journal, fact, routed>>,
             NEW row, bill' = [bill EXCEPT ![b] = row],
             row.status # "posted", row.code = Nil => row.tax = 0
      PROVE  BooksInvariant'
  <2>1. \A x \in Bills :
          /\ bill'[x].code = Nil => bill'[x].tax = 0
          /\ bill'[x].status = "posted" => /\ bill[x].status = "posted"
                                           /\ bill'[x].code = bill[x].code
                                           /\ bill'[x].flag = bill[x].flag
    BY <1>1 DEF TypeOK, BooksInvariant, RowsSound
  <2> QED
    BY <1>1, <2>1, BillsRewritten
<1>2. ASSUME NEW base \in Amounts, NEW code \in Codes \cup {Nil},
             CreateBill(b, base, code) \/ UpdateBill(b, base, code)
      PROVE  BooksInvariant'
  <2>1. PICK source : bill' = [bill EXCEPT ![b] = DraftBill(base, code, source)]
    BY <1>2 DEF CreateBill, UpdateBill
  <2>2. UNCHANGED <<note, journal, fact, routed>>
    BY <1>2 DEF CreateBill, UpdateBill, history
  <2>3. /\ DraftBill(base, code, source).code = Nil => DraftBill(base, code, source).tax = 0
        /\ DraftBill(base, code, source).status # "posted"
    BY DraftUntaxed
  <2> QED
    BY <1>1, <2>1, <2>2, <2>3
<1>3. CASE CancelBill(b)
  <2> DEFINE row == [bill[b] EXCEPT !.status = "cancelled", !.payment = "unpaid"]
  <2>1. row.status = "cancelled" /\ row.code = bill[b].code /\ row.tax = bill[b].tax
    BY <1>a DEF BillRow
  <2>2. bill' = [bill EXCEPT ![b] = row] /\ UNCHANGED <<note, journal, fact, routed>>
    BY <1>3 DEF CancelBill, history
  <2> HIDE DEF row
  <2>3. row.code = Nil => row.tax = 0
    BY <2>1 DEF BooksInvariant, RowsSound
  <2> QED
    BY <1>1, <2>1, <2>2, <2>3
<1>4. CASE PostBill(b)
  BY <1>4, PostBillBooks
<1> QED
  BY <1>2, <1>3, <1>4 DEF BillCall

\* So does every step of a conversion: the bill it makes is a draft.
LEMMA ConversionCallBooks ==
  ASSUME TypeOK, ClientsInOrder, BooksInvariant, NEW c \in Clients, ConversionCall(c)
  PROVE  BooksInvariant'
<1>1. ASSUME NEW b \in Bills, BillOrder(c, b)
      PROVE  BooksInvariant'
  <2>1. PICK base, code : bill' = [bill EXCEPT ![b] = DraftBill(base, code, Nil)]
    BY <1>1 DEF BillOrder
  <2>2. UNCHANGED <<note, journal, fact, routed>>
    BY <1>1 DEF BillOrder
  <2>3. \A x \in Bills :
          /\ bill'[x].code = Nil => bill'[x].tax = 0
          /\ bill'[x].status = "posted" => /\ bill[x].status = "posted"
                                           /\ bill'[x].code = bill[x].code
                                           /\ bill'[x].flag = bill[x].flag
    BY <2>1, DraftUntaxed DEF TypeOK, BooksInvariant, RowsSound
  <2> QED
    BY <2>2, <2>3, BillsRewritten
<1>2. CASE LinkOrder(c)
  <2>1. conversion[c].bill \in Bills
    BY <1>2 DEF LinkOrder, AtStep, ClientsInOrder
  <2>2. UNCHANGED <<note, journal, fact, routed>>
    BY <1>2 DEF LinkOrder, history
  <2>3. \A x \in Bills : \/ bill'[x] = bill[x]
                        \/ bill'[x] = [bill[x] EXCEPT !.source = conversion[c].order]
    BY <1>2, <2>1 DEF LinkOrder, TypeOK
  <2>4. \A x \in Bills : /\ bill'[x].status = bill[x].status /\ bill'[x].code = bill[x].code
                         /\ bill'[x].flag = bill[x].flag /\ bill'[x].tax = bill[x].tax
    <3>1. \A x \in Bills : bill[x] \in BillRow
      BY DEF TypeOK
    <3> QED
      BY <2>3, <3>1 DEF BillRow
  <2> QED
    BY <2>2, <2>4, BillsRewritten DEF BooksInvariant, RowsSound
<1>3. CASE UNCHANGED <<bill, note, journal, fact, routed>>
  BY <1>3, BillsRewritten DEF BooksInvariant, RowsSound
<1> QED
  BY <1>1, <1>2, <1>3 DEF ConversionCall, ReadOrder, Abandon, documents

\* Every call on a payment books soundly.
LEMMA PaymentCallBooks ==
  ASSUME TypeOK, BooksInvariant, NEW p \in Payments, PaymentCall(p)
  PROVE  BooksInvariant'
<1>1. CASE PostPayment(p)
  <2>1. payment[p].amount \in Nat /\ p \in Documents
    BY DocumentKinds DEF TypeOK
  <2>2. Balances(PaymentEntry(p))
    BY <2>1 DEF Balances, PaymentEntry, NoEntry
  <2>3. \A d \in Documents : d # p => journal'[d] = journal[d]
    BY <1>1 DEF PostPayment, TypeOK
  <2>4. journal'[p] = PaymentEntry(p)
    BY <1>1, <2>1 DEF PostPayment, TypeOK
  <2>5. /\ \A d \in Bills \cup Notes : journal'[d] = journal[d]
        /\ \A q \in Payments : journal'[q] = journal[q] \/ Balances(journal'[q])
    BY <2>2, <2>3, <2>4, DocumentKinds
  <2>6. UNCHANGED <<note, fact, routed>>
    BY <1>1 DEF PostPayment, history
  <2>7. \A b \in Bills : /\ bill'[b].status = bill[b].status /\ bill'[b].code = bill[b].code
                         /\ bill'[b].flag = bill[b].flag /\ bill'[b].tax = bill[b].tax
    <3>1. \A b \in Bills : bill[b] \in BillRow
      BY DEF TypeOK
    <3> QED
      BY <1>1, <3>1 DEF PostPayment, Settle, BillRow
  <2> QED
    BY <2>5, <2>6, <2>7, BillsRewritten DEF BooksInvariant, RowsSound
<1>2. CASE UNCHANGED <<bill, note, journal, fact, routed>>
  BY <1>2, BillsRewritten DEF BooksInvariant, RowsSound
<1> QED
  BY <1>1, <1>2
  DEF PaymentCall, CreatePayment, UpdatePayment, CancelPayment, SetPayment, history

\* The books stay sound, for any documents, codes and rates.
LEMMA PayablesBooks == Spec => []BooksInvariant
<1>1. Init => BooksInvariant
  <2> SUFFICES ASSUME Init
               PROVE  BooksInvariant
    OBVIOUS
  <2>1. RowsSound
    BY DocumentKinds DEF Init, RowsSound
  <2>2. InputTaxAgrees
    BY DEF Init, InputTaxAgrees
  <2>3. EntriesBalance
    BY DEF Init, EntriesBalance, NoEntry
  <2> QED
    BY <2>1, <2>2, <2>3 DEF BooksInvariant
<1>2. TypeOK /\ ConversionInvariant /\ BooksInvariant /\ [Next]_vars => BooksInvariant'
  <2> SUFFICES ASSUME TypeOK, ConversionInvariant, BooksInvariant, [Next]_vars
               PROVE  BooksInvariant'
    OBVIOUS
  <2>1. CASE UNCHANGED <<bill, note, journal, fact, routed>>
    BY <2>1, BillsRewritten DEF BooksInvariant, RowsSound
  <2>2. ASSUME NEW c \in Clients, ConversionCall(c)
        PROVE  BooksInvariant'
    BY <2>2, ConversionCallBooks DEF ConversionInvariant
  <2> QED
    BY <2>1, <2>2, BillCallBooks, PaymentCallBooks, NoteCallBooks
    DEF Next, vars, documents, history, UpdateTaxCode, OrderCall, CreateOrder, UpdateOrder,
        SendOrder, AcknowledgeOrder, CancelOrder, TransitionStatus, SetOrder
<1> QED
  BY <1>1, <1>2, PayablesInvariant, PTL DEF Spec

\* The input tax account takes from a document what its tax fact lets a return deduct, for any
\* rate and through any edits of the codes, while the flag drafted is the flag posted under.
THEOREM InputTaxRouted == Spec => []InputTaxAgrees
<1>1. BooksInvariant => InputTaxAgrees
  BY DEF BooksInvariant
<1> QED
  BY <1>1, PayablesBooks, PTL

\* Every entry a bill, a payment or a note with an expense account leaves balances.
THEOREM PayablesEntriesBalance == Spec => []EntriesBalance
<1>1. BooksInvariant => EntriesBalance
  BY DEF BooksInvariant
<1> QED
  BY <1>1, PayablesBooks, PTL

-------------------------------------------------------------------------------
(* The control account and the payment status of bills.                    *)

\* Allocations name posted bills only.
AllocationsNamePosted ==
  \A p \in Payments, b \in Bills : alloc[p][b] > 0 => bill[b].status = "posted"

\* An order or a bill that was created has something to pay.
PositiveTotals ==
  /\ \A o \in Orders : order[o].status # "none" => order[o].gross > 0
  /\ \A b \in Bills : bill[b].status # "none" => Total(bill[b]) > 0

\* The AP side of the journal is what the documents say.
JournalFollows ==
  /\ \A b \in Bills : journal[b].ap = IF bill[b].status = "posted" THEN -Total(bill[b]) ELSE 0
  /\ \A p \in Payments :
       journal[p].ap = IF payment[p].status = "posted" THEN payment[p].amount ELSE 0
  /\ \A n \in Notes : journal[n].ap = IF note[n].status = "posted" THEN Total(note[n]) ELSE 0

\* The stored payment status of a posted bill is the one that posted payments give.
StatusFollows ==
  \A b \in Bills : bill[b].status = "posted" =>
    bill[b].payment = PaymentStatus(Total(bill[b]), AllocatedTotal(b))

\* The invariant that ControlAgrees rests on.
SettlementInvariant ==
  AllocationsNamePosted /\ PositiveTotals /\ JournalFollows /\ StatusFollows

\* What posted payments allocate to a bill is a natural number.
LEMMA AllocatedTotalNat ==
  ASSUME TypeOK, NEW b \in Bills
  PROVE  AllocatedTotal(b) \in Nat
<1> DEFINE f == [p \in Posted(payment) |-> alloc[p][b]]
<1>1. Posted(payment) \subseteq Payments /\ IsFiniteSet(Posted(payment))
  BY PayablesConstants, FS_Subset DEF Posted, TypeOK
<1>2. \A p \in Posted(payment) : f[p] \in Nat
  BY <1>1 DEF TypeOK
<1>3. DOMAIN f = Posted(payment)
  OBVIOUS
<1> HIDE DEF f
<1>4. SumFunctionOnSet(f, Posted(payment)) \in Nat
  BY <1>1, <1>2, SumNat
<1> QED
  BY <1>3, <1>4 DEF f, AllocatedTotal, SumFunction

\* Nothing is allocated to a bill that is not posted.
LEMMA UnpostedHasNone ==
  ASSUME TypeOK, AllocationsNamePosted, NEW b \in Bills, bill[b].status # "posted"
  PROVE  AllocatedTotal(b) = 0
<1> DEFINE f == [p \in Posted(payment) |-> alloc[p][b]]
<1>1. Posted(payment) \subseteq Payments /\ IsFiniteSet(Posted(payment))
  BY PayablesConstants, FS_Subset DEF Posted, TypeOK
<1>2. (\A p \in Posted(payment) : f[p] = 0) /\ DOMAIN f = Posted(payment)
  BY <1>1 DEF AllocationsNamePosted, TypeOK
<1> HIDE DEF f
<1>3. SumFunctionOnSet(f, Posted(payment)) = 0
  BY <1>1, <1>2, SumZero
<1> QED
  BY <1>2, <1>3 DEF f, AllocatedTotal, SumFunction

\* Posting a payment adds its allocation to the bill's total.
LEMMA PostingAllocates ==
  ASSUME TypeOK, NEW p \in Payments, PostPayment(p), NEW b \in Bills
  PROVE  AllocatedTotal(b)' = AllocatedTotal(b) + alloc[p][b]
<1> DEFINE P == Posted(payment)
           f == [q \in P |-> alloc[q][b]]
           g == [q \in P \cup {p} |-> alloc[q][b]]
<1>1. P \subseteq Payments /\ IsFiniteSet(P) /\ p \notin P
  BY PayablesConstants, FS_Subset DEF Posted, TypeOK, PostPayment
<1>2. Posted(payment)' = P \cup {p} /\ alloc' = alloc
  BY DEF Posted, TypeOK, PostPayment
<1>3. \A q \in P \cup {p} : g[q] = alloc[q][b] /\ g[q] \in Int
  BY <1>1 DEF TypeOK
<1>4. \A q \in P : f[q] = g[q]
  OBVIOUS
<1>5. AllocatedTotal(b)' = SumFunctionOnSet(g, P \cup {p})
  BY <1>2 DEF AllocatedTotal, SumFunction
<1>6. AllocatedTotal(b) = SumFunctionOnSet(f, P)
  BY DEF AllocatedTotal, SumFunction
<1> HIDE DEF P, f, g
<1>7. SumFunctionOnSet(g, P \cup {p}) = SumFunctionOnSet(g, P) + g[p]
  BY <1>1, <1>3, SumAdd
<1>8. SumFunctionOnSet(f, P) = SumFunctionOnSet(g, P)
  BY <1>1, <1>4, SumSame
<1> QED
  BY <1>3, <1>5, <1>6, <1>7, <1>8

\* A bill is left as it is, as far as money goes.
Kept(b) ==
  /\ bill'[b].status = bill[b].status /\ bill'[b].payment = bill[b].payment
  /\ Total(bill'[b]) = Total(bill[b])
  /\ journal'[b].ap = journal[b].ap

\* A bill that is not posted is rewritten, or posted unpaid with its entry.
Moved(b) ==
  /\ bill[b].status # "posted" /\ bill'[b].status # "none" /\ Total(bill'[b]) > 0
  /\ IF bill'[b].status = "posted"
     THEN bill'[b].payment = "unpaid" /\ journal'[b].ap = -Total(bill'[b])
     ELSE journal'[b].ap = journal[b].ap

\* A step that keeps or moves bills and leaves payments and notes alone settles soundly.
LEMMA BillsSettle ==
  ASSUME TypeOK, TypeOK', SettlementInvariant, UNCHANGED <<payment, alloc, note>>,
         \A o \in Orders : order'[o].status # "none" => order'[o].gross > 0,
         \A d \in Payments \cup Notes : journal'[d].ap = journal[d].ap,
         \A b \in Bills : Kept(b) \/ Moved(b)
  PROVE  SettlementInvariant'
<1>1. AllocationsNamePosted'
  BY DEF SettlementInvariant, AllocationsNamePosted, Kept, Moved, TypeOK
<1>2. PositiveTotals'
  BY DEF SettlementInvariant, PositiveTotals, Kept, Moved
<1>3. JournalFollows'
  BY DEF SettlementInvariant, JournalFollows, Kept, Moved
<1>4. StatusFollows'
  <2> SUFFICES ASSUME NEW b \in Bills, bill'[b].status = "posted"
               PROVE  bill'[b].payment = PaymentStatus(Total(bill'[b]), AllocatedTotal(b)')
    BY DEF StatusFollows
  <2>1. AllocatedTotal(b)' = AllocatedTotal(b)
    BY DEF AllocatedTotal, Posted
  <2>2. CASE Kept(b)
    BY <2>1, <2>2 DEF Kept, SettlementInvariant, StatusFollows
  <2>3. CASE Moved(b)
    <3>1. AllocatedTotal(b)' = 0
      BY <2>1, <2>3, UnpostedHasNone DEF Moved, SettlementInvariant
    <3>2. Total(bill'[b]) \in Nat
      BY DEF TypeOK, BillRow, Total
    <3> QED
      BY <2>3, <3>1, <3>2 DEF Moved, PaymentStatus
  <2> QED
    BY <2>2, <2>3
<1> QED
  BY <1>1, <1>2, <1>3, <1>4 DEF SettlementInvariant

\* A drafted bill has something to pay.
LEMMA DraftPositive ==
  ASSUME NEW base \in Nat \ {0}, NEW code \in Codes \cup {Nil}, NEW source
  PROVE  /\ DraftBill(base, code, source).status = "draft"
         /\ Total(DraftBill(base, code, source)) > 0
<1>1. Tax(base, code) \in Nat
  BY TaxType
<1> QED
  BY <1>1 DEF DraftBill, Total

\* A call on a bill leaves allocations, statuses and the journal in agreement.
LEMMA BillCallSettles ==
  ASSUME TypeOK, SettlementInvariant, NEW b \in Bills, BillCall(b)
  PROVE  SettlementInvariant'
<1>a. bill[b] \in BillRow /\ (\A x \in Bills : x \in Documents)
  BY DocumentKinds DEF TypeOK
<1>1. /\ UNCHANGED <<order, payment, alloc, note>>
      /\ \A x \in Bills \ {b} : bill'[x] = bill[x]
      /\ \A d \in Documents \ {b} : journal'[d] = journal[d]
  BY <1>a DEF BillCall, CreateBill, UpdateBill, CancelBill, PostBill, TypeOK, history
<1>2. Moved(b)
  <2>1. ASSUME NEW base \in Amounts, NEW code \in Codes \cup {Nil},
               CreateBill(b, base, code) \/ UpdateBill(b, base, code)
        PROVE  Moved(b)
    <3>1. PICK source : bill'[b] = DraftBill(base, code, source)
      BY <2>1 DEF CreateBill, UpdateBill, TypeOK
    <3>2. bill[b].status # "posted" /\ UNCHANGED journal
      BY <2>1 DEF CreateBill, UpdateBill
    <3>3. base \in Nat \ {0}
      BY PayablesConstants
    <3> QED
      BY <3>1, <3>2, <3>3, DraftPositive DEF Moved
  <2>2. CASE CancelBill(b)
    <3>1. /\ bill[b].status = "draft" /\ bill'[b].status = "cancelled"
          /\ bill'[b].base = bill[b].base /\ bill'[b].tax = bill[b].tax
          /\ UNCHANGED journal
      BY <1>a, <2>2 DEF CancelBill, TypeOK, BillRow, history
    <3> QED
      BY <3>1 DEF Moved, SettlementInvariant, PositiveTotals, Total
  <2>3. CASE PostBill(b)
    <3>1. /\ bill[b].status = "draft" /\ bill'[b].status = "posted"
          /\ bill'[b].base = bill[b].base /\ bill'[b].tax = bill[b].tax
          /\ bill'[b].payment = "unpaid"
      BY <1>a, <2>3 DEF PostBill, TypeOK, BillRow
    <3>2. journal'[b].ap = -Total(bill[b])
      BY <1>a, <2>3 DEF PostBill, TypeOK
    <3> QED
      BY <3>1, <3>2 DEF Moved, SettlementInvariant, PositiveTotals, Total
  <2> QED
    BY <2>1, <2>2, <2>3 DEF BillCall
<1>3. \A x \in Bills : Kept(x) \/ Moved(x)
  BY <1>a, <1>1, <1>2 DEF Kept
<1>4. \A d \in Payments \cup Notes : journal'[d].ap = journal[d].ap
  BY <1>1, DocumentKinds
<1>5. \A o \in Orders : order'[o].status # "none" => order'[o].gross > 0
  BY <1>1 DEF SettlementInvariant, PositiveTotals
<1> QED
  BY <1>1, <1>3, <1>4, <1>5, BillCallType, BillsSettle

\* So does each step of the conversion of an order to a bill.
LEMMA ConversionCallSettles ==
  ASSUME TypeOK, ClientsInOrder, SettlementInvariant, NEW c \in Clients, ConversionCall(c)
  PROVE  SettlementInvariant'
<1>1. UNCHANGED <<payment, alloc, note, journal>>
  BY DEF ConversionCall, ReadOrder, BillOrder, LinkOrder, Abandon, documents
<1>2. /\ \A x \in Bills : Kept(x) \/ Moved(x)
      /\ \A o \in Orders : order'[o].status # "none" => order'[o].gross > 0
  <2>1. ASSUME NEW b \in Bills, BillOrder(c, b)
        PROVE  /\ \A x \in Bills : Kept(x) \/ Moved(x)
               /\ \A o \in Orders : order'[o].status # "none" => order'[o].gross > 0
    <3> DEFINE o == conversion[c].order
    <3>1. o \in Orders /\ order[o].status \in {"acknowledged", "converted"} /\ UNCHANGED order
      BY <2>1 DEF BillOrder, AtStep, ClientsInOrder
    <3>2. BillBase(o) \in Nat \ {0} /\ order[o].code \in Codes \cup {Nil}
      BY <3>1 DEF BillBase, SettlementInvariant, PositiveTotals, TypeOK, OrderRow
    <3>3. /\ bill'[b] = DraftBill(BillBase(o), order[o].code, Nil)
          /\ \A x \in Bills \ {b} : bill'[x] = bill[x]
          /\ bill[b].status = "none"
      BY <2>1 DEF BillOrder, TypeOK
    <3>4. Moved(b)
      BY <1>1, <3>2, <3>3, DraftPositive DEF Moved
    <3> QED
      BY <1>1, <3>1, <3>3, <3>4 DEF Kept, SettlementInvariant, PositiveTotals
  <2>2. ASSUME LinkOrder(c)
        PROVE  /\ \A x \in Bills : Kept(x) \/ Moved(x)
               /\ \A o \in Orders : order'[o].status # "none" => order'[o].gross > 0
    <3>1. conversion[c].order \in Orders /\ conversion[c].bill \in Bills
      BY <2>2 DEF LinkOrder, AtStep, ClientsInOrder
    <3>2. \A x \in Bills :
            bill'[x] = bill[x] \/ bill'[x] = [bill[x] EXCEPT !.source = conversion[c].order]
      BY <2>2, <3>1 DEF LinkOrder, TypeOK
    <3>3. \A x \in Bills : Kept(x)
      <4>1. \A x \in Bills : /\ bill'[x].status = bill[x].status
                             /\ bill'[x].payment = bill[x].payment
                             /\ bill'[x].base = bill[x].base /\ bill'[x].tax = bill[x].tax
        <5>1. \A x \in Bills : bill[x] \in BillRow
          BY DEF TypeOK
        <5> QED
          BY <3>2, <5>1 DEF BillRow
      <4> QED
        BY <1>1, <4>1 DEF Kept, Total
    <3>4. \A o \in Orders : order'[o].gross = order[o].gross
      BY <2>2, <3>1 DEF LinkOrder, TypeOK, OrderRow
    <3>5. order[conversion[c].order].gross > 0
      BY <2>2 DEF LinkOrder, AtStep, ClientsInOrder, SettlementInvariant, PositiveTotals
    <3>6. \A o \in Orders : o # conversion[c].order => order'[o] = order[o]
      BY <2>2, <3>1 DEF LinkOrder, TypeOK
    <3> QED
      BY <3>3, <3>4, <3>5, <3>6 DEF SettlementInvariant, PositiveTotals
  <2>3. ASSUME UNCHANGED <<order, bill>>
        PROVE  /\ \A x \in Bills : Kept(x) \/ Moved(x)
               /\ \A o \in Orders : order'[o].status # "none" => order'[o].gross > 0
    BY <1>1, <2>3 DEF Kept, SettlementInvariant, PositiveTotals
  <2> QED
    BY <2>1, <2>2, <2>3 DEF ConversionCall, ReadOrder, Abandon, documents
<1> QED
  BY <1>1, <1>2, ConversionCallType, BillsSettle

\* A call on an order touches no bill, allocation or entry.
LEMMA OrderCallSettles ==
  ASSUME TypeOK, SettlementInvariant, NEW o \in Orders, OrderCall(o)
  PROVE  SettlementInvariant'
<1>a. order[o] \in OrderRow
  BY DEF TypeOK
<1>1. UNCHANGED <<bill, payment, alloc, note, journal>>
  BY DEF OrderCall, CreateOrder, UpdateOrder, SendOrder, AcknowledgeOrder, CancelOrder,
         TransitionStatus, SetOrder
<1>2. (\A x \in Orders \ {o} : order'[x] = order[x]) /\ order'[o].gross > 0
  <2>1. ASSUME NEW gross \in Amounts, NEW discount \in Discounts, NEW code \in Codes \cup {Nil},
               SetOrder(o, DraftOrder(gross, discount, code))
        PROVE  (\A x \in Orders \ {o} : order'[x] = order[x]) /\ order'[o].gross > 0
    <3>1. DraftOrder(gross, discount, code).gross > 0
      BY PayablesConstants DEF DraftOrder
    <3> QED
      BY <2>1, <3>1 DEF SetOrder, TypeOK
  <2>2. ASSUME NEW new, SetOrder(o, [order[o] EXCEPT !.status = new]), order[o].status # "none"
        PROVE  (\A x \in Orders \ {o} : order'[x] = order[x]) /\ order'[o].gross > 0
    <3>1. [order[o] EXCEPT !.status = new].gross > 0
      BY <1>a, <2>2 DEF OrderRow, SettlementInvariant, PositiveTotals
    <3> QED
      BY <2>2, <3>1 DEF SetOrder, TypeOK
  <2> QED
    BY <2>1, <2>2
    DEF OrderCall, CreateOrder, UpdateOrder, SendOrder, AcknowledgeOrder, CancelOrder,
        TransitionStatus
<1>3. /\ \A x \in Orders : order'[x].status # "none" => order'[x].gross > 0
      /\ \A x \in Bills : Kept(x)
  BY <1>1, <1>2 DEF SettlementInvariant, PositiveTotals, Kept
<1> QED
  BY <1>1, <1>3, OrderCallType, BillsSettle

\* A call on a credit note changes the journal of that note alone.
LEMMA NoteCallSettles ==
  ASSUME TypeOK, SettlementInvariant, NEW n \in Notes, NoteCall(n)
  PROVE  SettlementInvariant'
<1>a. note[n] \in NoteRow /\ n \in Documents
  BY DocumentKinds DEF TypeOK
<1>1. UNCHANGED <<order, bill, payment, alloc>>
  BY DEF NoteCall, CreateNote, UpdateNote, CancelNote, SetNote, PostNote
<1>2. /\ \A m \in Notes \ {n} : note'[m] = note[m]
      /\ \A d \in Documents \ {n} : journal'[d] = journal[d]
  BY DEF NoteCall, CreateNote, UpdateNote, CancelNote, SetNote, PostNote, TypeOK
<1>3. journal'[n].ap = IF note'[n].status = "posted" THEN Total(note'[n]) ELSE 0
  <2>1. CASE PostNote(n)
    <3>1. /\ note'[n].status = "posted"
          /\ note'[n].base = note[n].base /\ note'[n].tax = note[n].tax
      BY <1>a, <2>1 DEF PostNote, TypeOK, NoteRow
    <3>2. journal'[n].ap = Total(note[n])
      BY <1>a, <2>1 DEF PostNote, NoteEntry, NoEntry, TypeOK
    <3> QED
      BY <3>1, <3>2 DEF Total
  <2>2. ASSUME NEW row, SetNote(n, row), note[n].status # "posted", row.status # "posted"
        PROVE  journal'[n].ap = IF note'[n].status = "posted" THEN Total(note'[n]) ELSE 0
    BY <2>2 DEF SetNote, TypeOK, SettlementInvariant, JournalFollows
  <2>3. ASSUME NEW base \in Amounts, NEW code \in Codes \cup {Nil}, NEW account \in BOOLEAN,
               CreateNote(n, base, code, account) \/ UpdateNote(n, base, code, account)
        PROVE  journal'[n].ap = IF note'[n].status = "posted" THEN Total(note'[n]) ELSE 0
    <3>1. DraftNote(base, code, account).status = "draft"
      BY DEF DraftNote
    <3> QED
      BY <2>2, <2>3, <3>1 DEF CreateNote, UpdateNote
  <2>4. CASE CancelNote(n)
    <3>1. [note[n] EXCEPT !.status = "cancelled"].status = "cancelled"
      BY <1>a DEF NoteRow
    <3> QED
      BY <2>2, <2>4, <3>1 DEF CancelNote
  <2> QED
    BY <2>1, <2>3, <2>4 DEF NoteCall
<1>4. JournalFollows'
  BY <1>1, <1>2, <1>3, DocumentKinds DEF SettlementInvariant, JournalFollows
<1>5. AllocationsNamePosted' /\ PositiveTotals'
  BY <1>1 DEF SettlementInvariant, AllocationsNamePosted, PositiveTotals
<1>6. StatusFollows'
  BY <1>1 DEF SettlementInvariant, StatusFollows, AllocatedTotal, Posted
<1> QED
  BY <1>4, <1>5, <1>6 DEF SettlementInvariant

\* A call on a payment settles the bills it allocates to when it posts or voids.
LEMMA PaymentCallSettles ==
  ASSUME TypeOK, SettlementInvariant, NEW p \in Payments, PaymentCall(p)
  PROVE  SettlementInvariant'
<1> DEFINE Row == [status : DocumentStatus, amount : Nat]
<1>a. payment[p] \in Row /\ p \in Documents
  BY DocumentKinds DEF TypeOK
<1>1. ASSUME NEW row, NEW a, SetPayment(p, row, a), payment[p].status # "posted",
             row.status # "posted",
             \A b \in Bills : a[b] > 0 => bill[b].status = "posted"
      PROVE  SettlementInvariant'
  <2>1. /\ UNCHANGED <<order, bill, note, journal>>
        /\ payment'[p] = row /\ alloc'[p] = a
        /\ \A q \in Payments \ {p} : payment'[q] = payment[q] /\ alloc'[q] = alloc[q]
        /\ DOMAIN payment' = Payments
    BY <1>1 DEF SetPayment, TypeOK
  <2>2. /\ Posted(payment)' = Posted(payment)
        /\ \A q \in Posted(payment) : alloc'[q] = alloc[q]
    <3>1. /\ Posted(payment) = {q \in Payments : payment[q].status = "posted"}
          /\ Posted(payment)' = {q \in Payments : payment'[q].status = "posted"}
      BY <2>1 DEF Posted, TypeOK
    <3>2. \A q \in Payments : payment'[q].status = "posted" <=> payment[q].status = "posted"
      BY <1>1, <2>1
    <3>3. p \notin Posted(payment) /\ Posted(payment) \subseteq Payments
      BY <1>1, <3>1
    <3> QED
      BY <2>1, <3>1, <3>2, <3>3
  <2>3. \A b \in Bills : AllocatedTotal(b)' = AllocatedTotal(b)
    <3> TAKE b \in Bills
    <3>1. [q \in Posted(payment)' |-> alloc'[q][b]] = [q \in Posted(payment) |-> alloc[q][b]]
      BY <2>2
    <3> QED
      BY <3>1 DEF AllocatedTotal
  <2>4. AllocationsNamePosted'
    BY <1>1, <2>1 DEF SettlementInvariant, AllocationsNamePosted
  <2>5. JournalFollows'
    BY <1>1, <2>1 DEF SettlementInvariant, JournalFollows
  <2>6. PositiveTotals' /\ StatusFollows'
    BY <2>1, <2>3 DEF SettlementInvariant, PositiveTotals, StatusFollows
  <2> QED
    BY <2>4, <2>5, <2>6 DEF SettlementInvariant
<1>2. ASSUME NEW amount \in Amounts, NEW a \in [Bills -> Amounts \cup {0}],
             CreatePayment(p, amount, a) \/ UpdatePayment(p, amount, a)
      PROVE  SettlementInvariant'
  BY <1>1, <1>2 DEF CreatePayment, UpdatePayment, ValidAllocations
<1>3. CASE CancelPayment(p)
  <2>1. [payment[p] EXCEPT !.status = "cancelled"].status = "cancelled"
    BY <1>a
  <2>2. \A b \in Bills : ~(NoAllocation[b] > 0)
    BY DEF NoAllocation
  <2>3. /\ payment[p].status # "posted"
        /\ SetPayment(p, [payment[p] EXCEPT !.status = "cancelled"], NoAllocation)
    BY <1>3 DEF CancelPayment
  <2> QED
    BY <1>1, <2>1, <2>2, <2>3
<1>4. CASE PostPayment(p)
  <2>1. \A b \in Bills : /\ bill[b] \in BillRow /\ alloc[p][b] \in Nat
                         /\ AllocatedTotal(b) \in Nat
                         /\ AllocatedTotal(b)' = AllocatedTotal(b) + alloc[p][b]
                         /\ alloc[p][b] > 0 => bill[b].status = "posted"
    BY <1>4, AllocatedTotalNat, PostingAllocates
    DEF TypeOK, SettlementInvariant, AllocationsNamePosted
  <2>2. \A b \in Bills : /\ bill'[b].status = bill[b].status
                         /\ Total(bill'[b]) = Total(bill[b])
                         /\ alloc[p][b] = 0 => bill'[b] = bill[b]
                         /\ alloc[p][b] > 0 =>
                               bill'[b].payment =
                                 PaymentStatus(Total(bill[b]), AllocatedTotal(b) + alloc[p][b])
    <3> TAKE b \in Bills
    <3>1. bill'[b] = Settle(b, p)
      BY <1>4 DEF PostPayment
    <3>2. CASE alloc[p][b] = 0
      BY <3>1, <3>2 DEF Settle
    <3>3. CASE alloc[p][b] # 0
      <4>1. /\ bill'[b].status = bill[b].status
            /\ bill'[b].base = bill[b].base /\ bill'[b].tax = bill[b].tax
            /\ bill'[b].payment = PaymentStatus(Total(bill[b]), AllocatedTotal(b) + alloc[p][b])
        BY <2>1, <3>1, <3>3 DEF Settle, BillRow
      <4> QED
        BY <3>3, <4>1 DEF Total
    <3> QED
      BY <3>2, <3>3
  <2>3. /\ UNCHANGED <<order, alloc, note>>
        /\ \A q \in Payments \ {p} : payment'[q] = payment[q]
        /\ \A d \in Documents \ {p} : journal'[d] = journal[d]
    BY <1>4 DEF PostPayment, TypeOK
  <2>4. AllocationsNamePosted' /\ PositiveTotals'
    BY <2>2, <2>3 DEF SettlementInvariant, AllocationsNamePosted, PositiveTotals
  <2>5. journal'[p].ap = IF payment'[p].status = "posted" THEN payment'[p].amount ELSE 0
    BY <1>a, <1>4 DEF PostPayment, PaymentEntry, NoEntry, TypeOK
  <2>6. JournalFollows'
    BY <2>2, <2>3, <2>5, DocumentKinds DEF SettlementInvariant, JournalFollows
  <2>7. StatusFollows'
    <3> SUFFICES ASSUME NEW b \in Bills, bill'[b].status = "posted"
                 PROVE  bill'[b].payment = PaymentStatus(Total(bill'[b]), AllocatedTotal(b)')
      BY DEF StatusFollows
    <3>1. CASE alloc[p][b] = 0
      <4>1. AllocatedTotal(b)' = AllocatedTotal(b) /\ bill'[b] = bill[b]
        BY <2>1, <2>2, <3>1
      <4> QED
        BY <4>1 DEF SettlementInvariant, StatusFollows
    <3>2. CASE alloc[p][b] > 0
      BY <2>1, <2>2, <3>2
    <3> QED
      BY <2>1, <3>1, <3>2
  <2> QED
    BY <2>4, <2>6, <2>7 DEF SettlementInvariant
<1> QED
  BY <1>2, <1>3, <1>4 DEF PaymentCall

\* What posted payments allocate, by payment or by bill: the same total.
LEMMA AllocationsBothWays ==
  ASSUME TypeOK, AllocationsNamePosted
  PROVE  SumFunctionOnSet([p \in Posted(payment) |-> SumFunction(alloc[p])], Posted(payment))
           = SumFunctionOnSet([b \in Posted(bill) |-> AllocatedTotal(b)], Posted(bill))
<1> DEFINE P == Posted(payment)
           B == Posted(bill)
           column == [b \in Bills |-> AllocatedTotal(b)]
           part == [b \in B |-> AllocatedTotal(b)]
<1>1. P \subseteq Payments /\ B \in SUBSET Bills /\ IsFiniteSet(P)
  BY PayablesConstants, FS_Subset DEF Posted, TypeOK
<1>2. [p \in P |-> SumFunction(alloc[p])] = [p \in P |-> SumFunctionOnSet(alloc[p], Bills)]
  <2>1. \A p \in P : DOMAIN alloc[p] = Bills
    BY <1>1 DEF TypeOK
  <2> QED
    BY <2>1 DEF SumFunction
<1>3. SumFunctionOnSet([p \in P |-> SumFunctionOnSet(alloc[p], Bills)], P)
        = SumFunctionOnSet(column, Bills)
  <2>1. \A p \in P, b \in Bills : alloc[p][b] \in Int
    BY <1>1 DEF TypeOK
  <2>2. column = [b \in Bills |-> SumFunctionOnSet([p \in P |-> alloc[p][b]], P)]
    BY DEF AllocatedTotal, SumFunction
  <2>3. SumFunctionOnSet([p \in P |-> SumFunctionOnSet(alloc[p], Bills)], P)
          = SumFunctionOnSet(
              [b \in Bills |-> SumFunctionOnSet([p \in P |-> alloc[p][b]], P)], Bills)
    <3>1. IsFiniteSet(P) /\ IsFiniteSet(Bills)
      BY <1>1, PayablesConstants
    <3> HIDE DEF P
    <3> QED
      BY <2>1, <3>1, SumSwap
  <2> QED
    BY <2>2, <2>3
<1>4. SumFunctionOnSet(column, Bills) = SumFunctionOnSet(part, B)
  <2>1. \A b \in B : part[b] \in Int /\ column[b] = part[b]
    BY <1>1, AllocatedTotalNat
  <2>2. \A b \in Bills \ B : column[b] = 0
    BY UnpostedHasNone DEF Posted, TypeOK
  <2> HIDE DEF B, column, part
  <2> QED
    BY <1>1, <2>1, <2>2, PayablesConstants, SumExtend
<1> QED
  BY <1>2, <1>3, <1>4

\* Where the journal follows the documents and every allocation names a posted bill, the
\* control account is what is owed.
LEMMA FollowingAgrees ==
  ASSUME TypeOK, SettlementInvariant
  PROVE  ControlAgrees
<1> USE PayablesConstants
<1> DEFINE B == Posted(bill)
           P == Posted(payment)
           N == Posted(note)
           ap == [d \in Documents |-> journal[d].ap]
           total == [b \in B |-> Total(bill[b])]
           minus == [b \in B |-> -Total(bill[b])]
           paid == [b \in B |-> AllocatedTotal(b)]
           open == [b \in B |-> Total(bill[b]) - AllocatedTotal(b)]
           amount == [p \in P |-> payment[p].amount]
           used == [p \in P |-> SumFunction(alloc[p])]
           left == [p \in P |-> payment[p].amount - SumFunction(alloc[p])]
           credit == [n \in N |-> Total(note[n])]
<1>1. /\ B \in SUBSET Bills /\ IsFiniteSet(B)
      /\ P \in SUBSET Payments /\ IsFiniteSet(P)
      /\ N \in SUBSET Notes /\ IsFiniteSet(N)
  BY FS_Subset DEF Posted, TypeOK
<1>2. /\ \A b \in Bills : Total(bill[b]) \in Int
      /\ \A p \in Payments : payment[p].amount \in Int
      /\ \A n \in Notes : Total(note[n]) \in Int
      /\ \A d \in Documents : ap[d] \in Int
  BY DEF TypeOK, BillRow, NoteRow, Entry, Total
<1>3. \A b \in Bills : AllocatedTotal(b) \in Int
  BY AllocatedTotalNat
<1>4. \A p \in Payments : SumFunction(alloc[p]) \in Int
  <2> SUFFICES ASSUME NEW p \in Payments
               PROVE  SumFunction(alloc[p]) \in Int
    OBVIOUS
  <2>1. DOMAIN alloc[p] = Bills /\ \A b \in Bills : alloc[p][b] \in Int
    BY DEF TypeOK
  <2>2. SumFunctionOnSet(alloc[p], Bills) \in Int
    BY <2>1, SumInt
  <2> QED
    BY <2>1, <2>2 DEF SumFunction
<1>5. SumFunction(ap) = SumFunctionOnSet(ap, Bills) + SumFunctionOnSet(ap, Payments)
                          + SumFunctionOnSet(ap, Notes)
  <2>1. SumFunction(ap) = SumFunctionOnSet(ap, (Bills \cup Payments) \cup Notes)
    BY DEF SumFunction, Documents
  <2>2. IsFiniteSet(Bills \cup Payments) /\ (Bills \cup Payments) \cap Notes = {}
    BY FS_Union
  <2> HIDE DEF ap
  <2>3. /\ \A d \in (Bills \cup Payments) \cup Notes : ap[d] \in Int
        /\ \A d \in Bills \cup Payments : ap[d] \in Int
    BY <1>2 DEF Documents
  <2>4. SumFunctionOnSet(ap, (Bills \cup Payments) \cup Notes)
          = SumFunctionOnSet(ap, Bills \cup Payments) + SumFunctionOnSet(ap, Notes)
    BY <2>2, <2>3, SumDisjoint
  <2>5. SumFunctionOnSet(ap, Bills \cup Payments)
          = SumFunctionOnSet(ap, Bills) + SumFunctionOnSet(ap, Payments)
    BY <2>3, SumDisjoint
  <2> QED
    BY <2>1, <2>4, <2>5
<1>6. SumFunctionOnSet(ap, Bills) = SumFunctionOnSet(minus, B)
  <2>1. \A b \in B : minus[b] \in Int /\ ap[b] = minus[b]
    BY <1>1, <1>2 DEF SettlementInvariant, JournalFollows, Posted, Documents
  <2>2. \A b \in Bills \ B : ap[b] = 0
    BY DEF SettlementInvariant, JournalFollows, Posted, Documents, TypeOK
  <2> HIDE DEF B, ap, minus
  <2> QED
    BY <1>1, <2>1, <2>2, SumExtend
<1>7. SumFunctionOnSet(ap, Payments) = SumFunctionOnSet(amount, P)
  <2>1. \A p \in P : amount[p] \in Int /\ ap[p] = amount[p]
    BY <1>1, <1>2 DEF SettlementInvariant, JournalFollows, Posted, Documents
  <2>2. \A p \in Payments \ P : ap[p] = 0
    BY DEF SettlementInvariant, JournalFollows, Posted, Documents, TypeOK
  <2> HIDE DEF P, ap, amount
  <2> QED
    BY <1>1, <2>1, <2>2, SumExtend
<1>8. SumFunctionOnSet(ap, Notes) = SumFunctionOnSet(credit, N)
  <2>1. \A n \in N : credit[n] \in Int /\ ap[n] = credit[n]
    BY <1>1, <1>2 DEF SettlementInvariant, JournalFollows, Posted, Documents
  <2>2. \A n \in Notes \ N : ap[n] = 0
    BY DEF SettlementInvariant, JournalFollows, Posted, Documents, TypeOK
  <2> HIDE DEF N, ap, credit
  <2> QED
    BY <1>1, <2>1, <2>2, SumExtend
<1>9. /\ \A b \in B : /\ total[b] \in Int /\ paid[b] \in Int
                      /\ open[b] = total[b] - paid[b]
                      /\ minus[b] = -total[b]
      /\ \A p \in P : /\ amount[p] \in Int /\ used[p] \in Int
                      /\ left[p] = amount[p] - used[p]
      /\ \A n \in N : credit[n] \in Int
  BY <1>1, <1>2, <1>3, <1>4
<1>10. /\ Owed = SumFunctionOnSet(open, B)
       /\ Unapplied = SumFunctionOnSet(left, P)
       /\ Credited = SumFunctionOnSet(credit, N)
  BY DEF Owed, Unapplied, Credited, SumFunction
<1>11. SumFunctionOnSet(used, P) = SumFunctionOnSet(paid, B)
  BY AllocationsBothWays DEF SettlementInvariant
<1>12. \A b \in Posted(bill) : bill[b].payment = PaymentStatus(Total(bill[b]), AllocatedTotal(b))
  BY DEF SettlementInvariant, StatusFollows, Posted, TypeOK
<1>13. (-SumFunction(ap) = Owed - Unapplied - Credited) => ControlAgrees
  BY <1>12 DEF ControlAgrees
<1> HIDE DEF B, P, N, ap, total, minus, paid, open, amount, used, left, credit
<1>14. /\ SumFunctionOnSet(open, B) = SumFunctionOnSet(total, B) - SumFunctionOnSet(paid, B)
       /\ SumFunctionOnSet(minus, B) = -SumFunctionOnSet(total, B)
  BY <1>1, <1>9, SumMinus, SumNegate
<1>15. SumFunctionOnSet(left, P) = SumFunctionOnSet(amount, P) - SumFunctionOnSet(used, P)
  BY <1>1, <1>9, SumMinus
<1>16. /\ SumFunctionOnSet(total, B) \in Int /\ SumFunctionOnSet(paid, B) \in Int
       /\ SumFunctionOnSet(amount, P) \in Int /\ SumFunctionOnSet(credit, N) \in Int
  BY <1>1, <1>9, SumInt
<1>17. -SumFunction(ap) = Owed - Unapplied - Credited
  BY <1>5, <1>6, <1>7, <1>8, <1>10, <1>11, <1>14, <1>15, <1>16
<1> QED
  BY <1>13, <1>17

\* The AP control account equals what the documents say is owed, for any number of bills,
\* payments and notes, any amounts and rates, and however conversions of orders are
\* interleaved; a posted bill's payment status is the one its posted payments give.
THEOREM PayablesControl == Spec => []ControlAgrees
<1>1. Init => SettlementInvariant
  <2> SUFFICES ASSUME Init
               PROVE  SettlementInvariant
    OBVIOUS
  <2>1. AllocationsNamePosted /\ StatusFollows
    BY DEF Init, AllocationsNamePosted, StatusFollows, NoAllocation
  <2>2. PositiveTotals
    BY DEF Init, PositiveTotals, DraftOrder
  <2>3. JournalFollows
    BY DocumentKinds DEF Init, JournalFollows, NoEntry
  <2> QED
    BY <2>1, <2>2, <2>3 DEF SettlementInvariant
<1>2. TypeOK /\ ConversionInvariant /\ SettlementInvariant /\ [Next]_vars => SettlementInvariant'
  <2> SUFFICES ASSUME TypeOK, ConversionInvariant, SettlementInvariant, [Next]_vars
               PROVE  SettlementInvariant'
    OBVIOUS
  <2>1. CASE UNCHANGED <<documents, journal>>
    BY <2>1 DEF SettlementInvariant, AllocationsNamePosted, PositiveTotals, JournalFollows,
                StatusFollows, AllocatedTotal, Posted, documents
  <2>2. ASSUME NEW c \in Clients, ConversionCall(c)
        PROVE  SettlementInvariant'
    BY <2>2, ConversionCallSettles DEF ConversionInvariant
  <2> QED
    BY <2>1, <2>2, OrderCallSettles, BillCallSettles, PaymentCallSettles, NoteCallSettles
    DEF Next, vars, UpdateTaxCode
<1>3. TypeOK /\ SettlementInvariant => ControlAgrees
  BY FollowingAgrees
<1> QED
  BY <1>1, <1>2, <1>3, PayablesInvariant, PTL DEF Spec
================================================================================
