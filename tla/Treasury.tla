-------------------------------- MODULE Treasury --------------------------------
(***************************************************************************)
(* Cash: financial accounts mapped to ledger accounts, receipts and        *)
(* payments, transfers between accounts, what their postings put in the    *)
(* general ledger and what the treasury movement report says of them.      *)
(*                                                                         *)
(* A step is one service call.  Refusals for a period that is not open, a  *)
(* permission, a dimension or a budget are not followed: they change       *)
(* nothing and nothing below relies on one.                                *)
(***************************************************************************)
EXTENDS Integers, Sequences, FiniteSets, Functions

CONSTANTS Accounts,       \* financial accounts
          CashLedger,     \* ledger accounts a financial account may be mapped to
          OtherLedger,    \* the other ledger accounts
          Transactions, Transfers,  \* primary keys
          LineSets,       \* the lines a transaction is given: ledger account and amount
          Amounts         \* amounts of transfers

LedgerAccounts == CashLedger \cup OtherLedger

ASSUME TreasuryConstants ==
  /\ CashLedger # {} /\ CashLedger \cap OtherLedger = {} /\ IsFiniteSet(CashLedger)
  /\ Accounts # {} /\ IsFiniteSet(Accounts)
  /\ Amounts # {} /\ Amounts \subseteq Nat \ {0}
  /\ LineSets # {}
  /\ \A lines \in LineSets :
       lines \in Seq([account : LedgerAccounts, amount : Nat \ {0}]) /\ lines # <<>>

VARIABLES account,      \* financial_accounts: ledger account and is_active
          transaction,  \* treasury_transactions with their lines
          transfer,     \* treasury_transfers
          ledger,       \* balance treasury entries leave on each ledger account
          remapped      \* ledger accounts a mapping has left or reached by an edit

vars == <<account, transaction, transfer, ledger, remapped>>

Status == {"none", "draft", "posted", "cancelled"}
Types == {"receipt", "payment"}

SumAmounts(lines) == SumFunction([i \in DOMAIN lines |-> lines[i].amount])

Active(a) == account[a].active

-------------------------------------------------------------------------------
(* Financial accounts.                                                     *)

\* An edit may map the account elsewhere and switch it on or off, whatever was posted.
UpdateFinancialAccount(a, g, active) ==
  /\ account' = [account EXCEPT ![a] = [ledger |-> g, active |-> active]]
  /\ remapped' = IF g = account[a].ledger THEN remapped
                 ELSE remapped \cup {g, account[a].ledger}
  /\ UNCHANGED <<transaction, transfer, ledger>>

DeactivateFinancialAccount(a) ==
  /\ account' = [account EXCEPT ![a].active = FALSE]
  /\ UNCHANGED <<transaction, transfer, ledger, remapped>>

-------------------------------------------------------------------------------
(* Receipts and payments.                                                  *)

\* Mutant: the total of a payment is stored with its sign.
DraftSigned(type, a, lines) ==
  [status |-> "draft", type |-> type, account |-> a, lines |-> lines,
   total |-> IF type = "receipt" THEN SumAmounts(lines) ELSE -SumAmounts(lines)]

DraftTransaction(type, a, lines) ==
  [status |-> "draft", type |-> type, account |-> a, lines |-> lines, total |-> SumAmounts(lines)]

CreateTransaction(t, type, a, lines) ==
  /\ transaction[t].status = "none"
  /\ Active(a)
  /\ transaction' = [transaction EXCEPT ![t] = DraftTransaction(type, a, lines)]
  /\ UNCHANGED <<account, transfer, ledger, remapped>>

\* Mutant: a posted transaction can be edited.
UpdatePosted(t, type, a, lines) ==
  /\ transaction[t].status \in {"draft", "posted"}
  /\ Active(a)
  /\ transaction' = [transaction EXCEPT ![t] =
       [DraftTransaction(type, a, lines) EXCEPT !.status = transaction[t].status]]
  /\ UNCHANGED <<account, transfer, ledger, remapped>>

UpdateTransaction(t, type, a, lines) ==
  /\ transaction[t].status = "draft"
  /\ Active(a)
  /\ transaction' = [transaction EXCEPT ![t] = DraftTransaction(type, a, lines)]
  /\ UNCHANGED <<account, transfer, ledger, remapped>>

CancelTransaction(t) ==
  /\ transaction[t].status = "draft"
  /\ transaction' = [transaction EXCEPT ![t].status = "cancelled"]
  /\ UNCHANGED <<account, transfer, ledger, remapped>>

\* What the lines of an entry, from debit to credit, add to the balance of a ledger account.
Effect(g, debit, credit, amount) ==
  (IF g = debit THEN amount ELSE 0) - (IF g = credit THEN amount ELSE 0)

\* Mutant: each line of a payment takes the total out of the account.
EntryByTotal(t, g) ==
  LET doc == transaction[t]
      cash == account[doc.account].ledger
      one(line) == IF doc.type = "receipt" THEN Effect(g, cash, line.account, line.amount)
                   ELSE Effect(g, line.account, cash, doc.total)
  IN SumFunction([i \in DOMAIN doc.lines |-> one(doc.lines[i])])

\* Each line is a pair: the ledger account of the financial account against its own.
Entry(t, g) ==
  LET doc == transaction[t]
      cash == account[doc.account].ledger
      one(line) == IF doc.type = "receipt" THEN Effect(g, cash, line.account, line.amount)
                   ELSE Effect(g, line.account, cash, line.amount)
  IN SumFunction([i \in DOMAIN doc.lines |-> one(doc.lines[i])])

PostTransaction(t) ==
  /\ transaction[t].status = "draft"
  /\ Active(transaction[t].account)
  /\ ledger' = [g \in LedgerAccounts |-> ledger[g] + Entry(t, g)]
  /\ transaction' = [transaction EXCEPT ![t].status = "posted"]
  /\ UNCHANGED <<account, transfer, remapped>>

-------------------------------------------------------------------------------
(* Transfers.                                                              *)

DraftTransfer(a, b, amount) == [status |-> "draft", from |-> a, to |-> b, amount |-> amount]

CreateTransfer(x, a, b, amount) ==
  /\ transfer[x].status = "none"
  /\ a # b /\ Active(a) /\ Active(b)
  /\ transfer' = [transfer EXCEPT ![x] = DraftTransfer(a, b, amount)]
  /\ UNCHANGED <<account, transaction, ledger, remapped>>

UpdateTransfer(x, a, b, amount) ==
  /\ transfer[x].status = "draft"
  /\ a # b /\ Active(a) /\ Active(b)
  /\ transfer' = [transfer EXCEPT ![x] = DraftTransfer(a, b, amount)]
  /\ UNCHANGED <<account, transaction, ledger, remapped>>

CancelTransfer(x) ==
  /\ transfer[x].status = "draft"
  /\ transfer' = [transfer EXCEPT ![x].status = "cancelled"]
  /\ UNCHANGED <<account, transaction, ledger, remapped>>

\* Two accounts may share a ledger account: the entry then moves nothing.
Transferable(x) ==
  /\ transfer[x].status = "draft"
  /\ Active(transfer[x].from) /\ Active(transfer[x].to)

PostTransfer(x) ==
  /\ Transferable(x)
  /\ ledger' = [g \in LedgerAccounts |->
       ledger[g] + Effect(g, account[transfer[x].to].ledger, account[transfer[x].from].ledger,
                          transfer[x].amount)]
  /\ transfer' = [transfer EXCEPT ![x].status = "posted"]
  /\ UNCHANGED <<account, transaction, remapped>>

-------------------------------------------------------------------------------
(* The movement report: signed totals of the posted documents of an        *)
(* account, from the documents alone.                                      *)

PostedTransactions == {t \in Transactions : transaction[t].status = "posted"}
PostedTransfers == {x \in Transfers : transfer[x].status = "posted"}

PostedOf(a) == {t \in PostedTransactions : transaction[t].account = a}

SignedTotal(t) ==
  IF transaction[t].type = "receipt" THEN transaction[t].total ELSE -transaction[t].total

TransactionMovement(a) == SumFunction([t \in PostedOf(a) |-> SignedTotal(t)])

TransferMovement(a) ==
  SumFunction([x \in PostedTransfers |->
                 Effect(a, transfer[x].to, transfer[x].from, transfer[x].amount)])

Movement(a) == TransactionMovement(a) + TransferMovement(a)

-------------------------------------------------------------------------------
Init ==
  \E g \in [Accounts -> CashLedger] :
    /\ account = [a \in Accounts |-> [ledger |-> g[a], active |-> TRUE]]
    /\ transaction = [t \in Transactions |->
         [DraftTransaction("receipt", CHOOSE a \in Accounts : TRUE,
                           CHOOSE lines \in LineSets : TRUE) EXCEPT !.status = "none"]]
    /\ transfer = [x \in Transfers |->
         LET a == CHOOSE a \in Accounts : TRUE
         IN [DraftTransfer(a, a, CHOOSE m \in Amounts : TRUE) EXCEPT !.status = "none"]]
    /\ ledger = [g2 \in LedgerAccounts |-> 0]
    /\ remapped = {}

Next ==
  \/ \E a \in Accounts :
       \/ \E g \in CashLedger, active \in BOOLEAN : UpdateFinancialAccount(a, g, active)
       \/ DeactivateFinancialAccount(a)
  \/ \E t \in Transactions :
       \/ \E type \in Types, a \in Accounts, lines \in LineSets :
            CreateTransaction(t, type, a, lines) \/ UpdateTransaction(t, type, a, lines)
       \/ CancelTransaction(t)
       \/ PostTransaction(t)
  \/ \E x \in Transfers :
       \/ \E a, b \in Accounts, amount \in Amounts :
            CreateTransfer(x, a, b, amount) \/ UpdateTransfer(x, a, b, amount)
       \/ CancelTransfer(x)
       \/ PostTransfer(x)

Spec == Init /\ [][Next]_vars

-------------------------------------------------------------------------------
TypeOK ==
  /\ account \in [Accounts -> [ledger : CashLedger, active : BOOLEAN]]
  /\ transaction \in [Transactions -> [status : Status, type : Types, account : Accounts,
                                       lines : LineSets, total : Nat]]
  /\ transfer \in [Transfers -> [status : Status, from : Accounts, to : Accounts,
                                 amount : Amounts]]
  /\ ledger \in [LedgerAccounts -> Int]
  /\ remapped \subseteq CashLedger

\* A ledger account posted lines name directly moves without the report.
Named(g) == \E t \in PostedTransactions : \E i \in DOMAIN transaction[t].lines :
              transaction[t].lines[i].account = g

MappedTo(g) == {a \in Accounts : account[a].ledger = g}

\* The movement report, which reads documents, and the general ledger, which got its amounts
\* from the lines when each was posted, agree on every ledger account whose mapping was not
\* edited: nothing posted changes, and totals are those of the lines.
ReportAgreesWithLedger ==
  \A g \in CashLedger :
    g \notin remapped /\ ~Named(g) => ledger[g] = SumFunction([a \in MappedTo(g) |-> Movement(a)])

\* Whatever accounts were mapped to when their documents were posted, cash in the ledger as a
\* whole is what was received less what was paid: transfers only move it.
CashIsReceiptsLessPayments ==
  (\A g \in CashLedger : ~Named(g)) =>
    SumFunctionOnSet(ledger, CashLedger) = SumFunction([a \in Accounts |-> TransactionMovement(a)])
================================================================================
