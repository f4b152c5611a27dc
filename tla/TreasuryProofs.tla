----------------------------- MODULE TreasuryProofs -----------------------------
(***************************************************************************)
(* What holds of Treasury for any accounts, documents and amounts, and of  *)
(* BankReconciliation, the other module of the package, for any            *)
(* statements, sessions and clients.                                       *)
(***************************************************************************)
EXTENDS Treasury, BankReconciliation, SumTheorems

\* The rows of the tables.
TransactionLine == [account : LedgerAccounts, amount : Nat \ {0}]
TransactionRow == [status : Status, type : Types, account : Accounts, lines : LineSets,
                   total : Nat]
TransferRow == [status : Status, from : Accounts, to : Accounts, amount : Amounts]

\* Amounts are integers.
LEMMA AmountsInt == Amounts \subseteq Int
<1>1. Amounts \subseteq Nat \ {0}
  BY TreasuryConstants
<1> QED
  BY <1>1

\* The lines of a transaction are finitely many amounts, and their sum a natural number.
LEMMA LinesOf ==
  ASSUME NEW lines \in LineSets
  PROVE  /\ IsFiniteSet(DOMAIN lines)
         /\ \A i \in DOMAIN lines : /\ lines[i].account \in LedgerAccounts
                                    /\ lines[i].amount \in Nat
         /\ SumAmounts(lines) \in Nat
<1>1. lines \in Seq(TransactionLine)
  BY TreasuryConstants DEF TransactionLine
<1>2. IsFiniteSet(DOMAIN lines)
  <2>1. DOMAIN lines = 1 .. Len(lines) /\ Len(lines) \in Nat
    BY <1>1
  <2> QED
    BY <2>1, FS_Interval
<1>3. \A i \in DOMAIN lines : lines[i] \in TransactionLine
  BY <1>1
<1>4. \A i \in DOMAIN lines : lines[i].account \in LedgerAccounts /\ lines[i].amount \in Nat
  BY <1>3 DEF TransactionLine
<1> DEFINE f == [i \in DOMAIN lines |-> lines[i].amount]
<1>5. SumAmounts(lines) = SumFunctionOnSet(f, DOMAIN lines) /\ \A i \in DOMAIN lines : f[i] \in Nat
  BY <1>4 DEF SumAmounts, SumFunction
<1> HIDE DEF f
<1> QED
  BY <1>2, <1>4, <1>5, SumNat

\* What an entry leaves on a ledger account is a number; on a cash account that no line names
\* it is the signed total, or nothing if the document is of another account.
LEMMA EntryOf ==
  ASSUME NEW t \in Transactions, transaction[t] \in TransactionRow, NEW g,
         transaction[t].total = SumAmounts(transaction[t].lines)
  PROVE  /\ Entry(t, g) \in Int
         /\ SignedTotal(t) \in Int
         /\ (\A i \in DOMAIN transaction[t].lines : transaction[t].lines[i].account # g) =>
              Entry(t, g) = IF account[transaction[t].account].ledger = g
                            THEN SignedTotal(t) ELSE 0
<1> DEFINE lines == transaction[t].lines
           D == DOMAIN lines
           cash == account[transaction[t].account].ledger
           receipt == transaction[t].type = "receipt"
           f == [i \in D |-> IF receipt THEN Effect(g, cash, lines[i].account, lines[i].amount)
                             ELSE Effect(g, lines[i].account, cash, lines[i].amount)]
           m == [i \in D |-> lines[i].amount]
<1>1. lines \in LineSets /\ transaction[t].total \in Nat
  BY DEF TransactionRow
<1>2. Entry(t, g) = SumFunctionOnSet(f, D) /\ transaction[t].total = SumFunctionOnSet(m, D)
  BY DEF Entry, SumFunction, SumAmounts
<1>3. IsFiniteSet(D) /\ \A i \in D : lines[i].amount \in Nat /\ m[i] = lines[i].amount
  BY <1>1, LinesOf
<1>4. \A i \in D : f[i] \in Int /\ m[i] \in Int
  BY <1>3 DEF Effect
<1>5. (\A i \in D : lines[i].account # g) =>
        \A i \in D : f[i] = IF cash = g THEN (IF receipt THEN m[i] ELSE -m[i]) ELSE 0
  BY <1>3 DEF Effect
<1>6. SignedTotal(t) = (IF receipt THEN transaction[t].total ELSE -transaction[t].total)
  BY DEF SignedTotal
<1> HIDE DEF f, m, lines, cash, receipt, D
<1>7. Entry(t, g) \in Int /\ SignedTotal(t) \in Int
  BY <1>1, <1>2, <1>3, <1>4, <1>6, SumInt
<1>8. ASSUME \A i \in D : lines[i].account # g
      PROVE  Entry(t, g) = IF cash = g THEN SignedTotal(t) ELSE 0
  <2>1. CASE cash # g
    BY <1>2, <1>3, <1>5, <1>8, <2>1, SumZero
  <2>2. CASE cash = g /\ receipt
    <3>1. SumFunctionOnSet(f, D) = SumFunctionOnSet(m, D)
      BY <1>3, <1>5, <1>8, <2>2, SumSame
    <3> QED
      BY <1>2, <1>6, <2>2, <3>1
  <2>3. CASE cash = g /\ ~receipt
    <3>1. SumFunctionOnSet(f, D) = -SumFunctionOnSet(m, D)
      BY <1>3, <1>4, <1>5, <1>8, <2>3, SumNegate
    <3> QED
      BY <1>2, <1>6, <2>3, <3>1
  <2> QED
    BY <2>1, <2>2, <2>3
<1> QED
  BY <1>7, <1>8 DEF lines, cash, D

\* What a transfer adds over a set of accounts: the amount if it comes in, less it if it goes out.
LEMMA EffectSum ==
  ASSUME NEW S, IsFiniteSet(S), NEW debit, NEW credit, NEW amount \in Int
  PROVE  SumFunctionOnSet([x \in S |-> Effect(x, debit, credit, amount)], S)
           = (IF debit \in S THEN amount ELSE 0) - (IF credit \in S THEN amount ELSE 0)
<1> DEFINE e == [x \in S |-> Effect(x, debit, credit, amount)]
           into(y) == [x \in S |-> IF x = y THEN amount ELSE 0]
<1>1. ASSUME NEW y
      PROVE  /\ \A x \in S : into(y)[x] \in Int
             /\ SumFunctionOnSet(into(y), S) = IF y \in S THEN amount ELSE 0
  <2>1. \A x \in S : into(y)[x] = IF x = y THEN amount ELSE 0
    OBVIOUS
  <2> HIDE DEF into
  <2>2. CASE y \in S
    BY <2>1, <2>2, SumSingle
  <2>3. CASE y \notin S
    BY <2>1, <2>3, SumZero
  <2> QED
    BY <2>1, <2>2, <2>3
<1>2. \A x \in S : e[x] = into(debit)[x] - into(credit)[x]
  BY DEF Effect
<1> HIDE DEF e, into
<1>3. SumFunctionOnSet(e, S) = SumFunctionOnSet(into(debit), S) - SumFunctionOnSet(into(credit), S)
  BY <1>1, <1>2, SumMinus
<1> QED
  BY <1>1, <1>3 DEF e

-------------------------------------------------------------------------------
(* Types.  Only finitely many documents are ever posted.                   *)

\* The inductive type invariant: only finitely many documents are posted, and the total of a
\* transaction is that of its lines.
TypeInv ==
  /\ TypeOK
  /\ IsFiniteSet(PostedTransactions) /\ IsFiniteSet(PostedTransfers)
  /\ \A t \in Transactions : transaction[t].total = SumAmounts(transaction[t].lines)

\* A draft is a well formed row whose total is that of its lines.
LEMMA DraftTyped ==
  ASSUME NEW type \in Types, NEW a \in Accounts, NEW lines \in LineSets
  PROVE  /\ DraftTransaction(type, a, lines) \in TransactionRow
         /\ DraftTransaction(type, a, lines).total = SumAmounts(lines)
         /\ DraftTransaction(type, a, lines).lines = lines
         /\ DraftTransaction(type, a, lines).status = "draft"
<1>1. SumAmounts(lines) \in Nat
  BY LinesOf
<1> QED
  BY <1>1 DEF DraftTransaction, TransactionRow, Status

\* At first every document is still to be created, and the rows are those of drafts.
LEMMA InitTyped == Init => TypeInv /\ PostedTransactions = {} /\ PostedTransfers = {}
<1> SUFFICES ASSUME Init PROVE TypeInv /\ PostedTransactions = {} /\ PostedTransfers = {}
  OBVIOUS
<1>1. PICK g \in [Accounts -> CashLedger] :
        account = [a \in Accounts |-> [ledger |-> g[a], active |-> TRUE]]
  BY DEF Init
<1>2. PICK a0 : a0 = CHOOSE a \in Accounts : TRUE
  OBVIOUS
<1>3. PICK l0 : l0 = CHOOSE lines \in LineSets : TRUE
  OBVIOUS
<1>4. PICK m0 : m0 = CHOOSE m \in Amounts : TRUE
  OBVIOUS
<1>5. a0 \in Accounts /\ l0 \in LineSets /\ m0 \in Amounts
  BY <1>2, <1>3, <1>4, TreasuryConstants
<1>6. PICK r : r = [DraftTransaction("receipt", a0, l0) EXCEPT !.status = "none"]
  OBVIOUS
<1>7. r \in TransactionRow /\ r.status = "none" /\ r.total = SumAmounts(r.lines)
  <2>1. PICK d : d = DraftTransaction("receipt", a0, l0)
    OBVIOUS
  <2>2. "receipt" \in Types /\ "none" \in Status
    BY DEF Types, Status
  <2>3. d \in TransactionRow /\ d.total = SumAmounts(d.lines)
    BY <1>5, <2>1, <2>2, DraftTyped
  <2> QED
    BY <1>6, <2>1, <2>2, <2>3 DEF TransactionRow
<1>8. transaction = [t \in Transactions |-> r]
  BY <1>2, <1>3, <1>6 DEF Init
<1>9. PICK q : q = [DraftTransfer(a0, a0, m0) EXCEPT !.status = "none"]
  OBVIOUS
<1>10. q \in TransferRow /\ q.status = "none"
  BY <1>5, <1>9 DEF DraftTransfer, TransferRow, Status
<1>11. transfer = [x \in Transfers |-> q]
  BY <1>2, <1>4, <1>9 DEF Init
<1>12. PostedTransactions = {} /\ PostedTransfers = {}
  BY <1>7, <1>8, <1>10, <1>11 DEF PostedTransactions, PostedTransfers
<1>13. ledger \in [LedgerAccounts -> Int] /\ remapped \subseteq CashLedger
  BY DEF Init
<1> QED
  BY <1>1, <1>7, <1>8, <1>10, <1>11, <1>12, <1>13, FS_EmptySet
  DEF TypeInv, TypeOK, TransactionRow, TransferRow

\* The edits of accounts and drafts keep the rows well formed and post nothing.
LEMMA TransactionWritten ==
  ASSUME TypeInv, NEW t \in Transactions, NEW r \in TransactionRow,
         r.total = SumAmounts(r.lines), transaction' = [transaction EXCEPT ![t] = r]
  PROVE  /\ transaction' \in [Transactions -> TransactionRow]
         /\ \A x \in Transactions : transaction'[x].total = SumAmounts(transaction'[x].lines)
         /\ IsFiniteSet(PostedTransactions')
         /\ (r.status = "posted" <=> transaction[t].status = "posted") =>
              PostedTransactions' = PostedTransactions
<1>1. transaction \in [Transactions -> TransactionRow]
  BY DEF TypeInv, TypeOK, TransactionRow
<1>2. \A x \in Transactions : transaction'[x] = IF x = t THEN r ELSE transaction[x]
  BY <1>1
<1>3. PostedTransactions' \in SUBSET (PostedTransactions \cup {t})
  BY <1>2 DEF PostedTransactions
<1>4. IsFiniteSet(PostedTransactions')
  <2>1. IsFiniteSet(PostedTransactions \cup {t})
    BY FS_AddElement DEF TypeInv
  <2> QED
    BY <1>3, <2>1, FS_Subset
<1> QED
  BY <1>1, <1>2, <1>4 DEF TypeInv, PostedTransactions

\* The same of a transfer that is written.
LEMMA TransferWritten ==
  ASSUME TypeInv, NEW x \in Transfers, NEW r \in TransferRow,
         transfer' = [transfer EXCEPT ![x] = r]
  PROVE  /\ transfer' \in [Transfers -> TransferRow]
         /\ IsFiniteSet(PostedTransfers')
         /\ (r.status = "posted" <=> transfer[x].status = "posted") =>
              PostedTransfers' = PostedTransfers
<1>1. transfer \in [Transfers -> TransferRow]
  BY DEF TypeInv, TypeOK, TransferRow
<1>2. \A y \in Transfers : transfer'[y] = IF y = x THEN r ELSE transfer[y]
  BY <1>1
<1>3. PostedTransfers' \in SUBSET (PostedTransfers \cup {x})
  BY <1>2 DEF PostedTransfers
<1>4. IsFiniteSet(PostedTransfers')
  <2>1. IsFiniteSet(PostedTransfers \cup {x})
    BY FS_AddElement DEF TypeInv
  <2> QED
    BY <1>3, <2>1, FS_Subset
<1> QED
  BY <1>1, <1>2, <1>4 DEF PostedTransfers

\* A call on a financial account changes the mapping of that account only.
AccountCall(a) ==
  \/ \E g \in CashLedger, active \in BOOLEAN : UpdateFinancialAccount(a, g, active)
  \/ DeactivateFinancialAccount(a)

\* A call on a document that is not posted and leaves it so.
TransactionDraft(t) ==
  \/ \E type \in Types, a \in Accounts, lines \in LineSets :
       CreateTransaction(t, type, a, lines) \/ UpdateTransaction(t, type, a, lines)
  \/ CancelTransaction(t)

\* The same of a transfer.
TransferDraft(x) ==
  \/ \E a, b \in Accounts, amount \in Amounts :
       CreateTransfer(x, a, b, amount) \/ UpdateTransfer(x, a, b, amount)
  \/ CancelTransfer(x)

\* An edited account leaves the documents and the ledger alone.
LEMMA AccountStep ==
  ASSUME TypeInv, NEW a \in Accounts, AccountCall(a)
  PROVE  /\ TypeInv' /\ UNCHANGED <<transaction, transfer, ledger>>
         /\ remapped \subseteq remapped'
         /\ \A b \in Accounts : \/ account'[b].ledger = account[b].ledger
                               \/ {account[b].ledger, account'[b].ledger} \subseteq remapped'
<1>1. account \in [Accounts -> [ledger : CashLedger, active : BOOLEAN]]
  BY DEF TypeInv, TypeOK
<1>2. UNCHANGED <<transaction, transfer, ledger>>
  BY DEF AccountCall, UpdateFinancialAccount, DeactivateFinancialAccount
<1>3. /\ account' \in [Accounts -> [ledger : CashLedger, active : BOOLEAN]]
      /\ remapped' \subseteq CashLedger /\ remapped \subseteq remapped'
      /\ \A b \in Accounts : \/ account'[b].ledger = account[b].ledger
                            \/ {account[b].ledger, account'[b].ledger} \subseteq remapped'
  <2>1. CASE DeactivateFinancialAccount(a)
    <3>1. account' = [account EXCEPT ![a].active = FALSE] /\ remapped' = remapped
      BY <2>1 DEF DeactivateFinancialAccount
    <3>2. \A b \in Accounts : account'[b].ledger = account[b].ledger
      BY <1>1, <3>1
    <3> QED
      BY <1>1, <3>1, <3>2 DEF TypeInv, TypeOK
  <2>2. ASSUME NEW g \in CashLedger, NEW active \in BOOLEAN,
               UpdateFinancialAccount(a, g, active)
        PROVE  /\ account' \in [Accounts -> [ledger : CashLedger, active : BOOLEAN]]
               /\ remapped' \subseteq CashLedger /\ remapped \subseteq remapped'
               /\ \A b \in Accounts :
                    \/ account'[b].ledger = account[b].ledger
                    \/ {account[b].ledger, account'[b].ledger} \subseteq remapped'
    <3>1. /\ account' = [account EXCEPT ![a] = [ledger |-> g, active |-> active]]
          /\ remapped' = IF g = account[a].ledger THEN remapped
                         ELSE remapped \cup {g, account[a].ledger}
      BY <2>2 DEF UpdateFinancialAccount
    <3>2. account[a].ledger \in CashLedger /\ remapped \subseteq CashLedger
      BY <1>1 DEF TypeInv, TypeOK
    <3>3. \A b \in Accounts : account'[b] = IF b = a THEN [ledger |-> g, active |-> active]
                                            ELSE account[b]
      BY <1>1, <3>1
    <3> QED
      BY <1>1, <3>1, <3>2, <3>3
  <2> QED
    BY <2>1, <2>2 DEF AccountCall
<1>4. PostedTransactions' = PostedTransactions /\ PostedTransfers' = PostedTransfers
  BY <1>2 DEF PostedTransactions, PostedTransfers
<1>5. \A t \in Transactions : transaction'[t].total = SumAmounts(transaction'[t].lines)
  BY <1>2 DEF TypeInv
<1> QED
  BY <1>2, <1>3, <1>4, <1>5 DEF TypeInv, TypeOK

\* A transaction that is created, edited or cancelled posts nothing.
LEMMA TransactionDraftStep ==
  ASSUME TypeInv, NEW t \in Transactions, TransactionDraft(t)
  PROVE  /\ TypeInv' /\ UNCHANGED <<account, transfer, ledger, remapped>>
         /\ PostedTransactions' = PostedTransactions
         /\ \A u \in PostedTransactions : transaction'[u] = transaction[u]
<1>1. transaction[t] \in TransactionRow /\ transaction[t].total = SumAmounts(transaction[t].lines)
  BY DEF TypeInv, TypeOK, TransactionRow
<1>2. PICK r \in TransactionRow : /\ r.total = SumAmounts(r.lines)
                                /\ r.status \in {"draft", "cancelled"}
                                /\ transaction' = [transaction EXCEPT ![t] = r]
  <2> DEFINE Drafted == \E r \in TransactionRow :
                          /\ r.total = SumAmounts(r.lines)
                          /\ r.status \in {"draft", "cancelled"}
                          /\ transaction' = [transaction EXCEPT ![t] = r]
  <2>1. ASSUME NEW type \in Types, NEW a \in Accounts, NEW lines \in LineSets,
               CreateTransaction(t, type, a, lines) \/ UpdateTransaction(t, type, a, lines)
        PROVE  Drafted
    <3>1. transaction' = [transaction EXCEPT ![t] = DraftTransaction(type, a, lines)]
      BY <2>1 DEF CreateTransaction, UpdateTransaction
    <3> QED
      BY <3>1, DraftTyped
  <2>2. CASE CancelTransaction(t)
    <3>1. PICK r : r = [transaction[t] EXCEPT !.status = "cancelled"]
      OBVIOUS
    <3>2. r \in TransactionRow /\ r.total = SumAmounts(r.lines) /\ r.status = "cancelled"
      BY <1>1, <3>1 DEF TransactionRow, Status
    <3>3. transaction' = [transaction EXCEPT ![t] = r]
      BY <2>2, <3>1 DEF CancelTransaction
    <3> QED
      BY <3>2, <3>3
  <2> QED
    BY <2>1, <2>2 DEF TransactionDraft
<1>3. transaction[t].status # "posted" /\ UNCHANGED <<account, transfer, ledger, remapped>>
  BY DEF TransactionDraft, CreateTransaction, UpdateTransaction, CancelTransaction
<1>4. /\ transaction' \in [Transactions -> TransactionRow]
      /\ \A x \in Transactions : transaction'[x].total = SumAmounts(transaction'[x].lines)
      /\ PostedTransactions' = PostedTransactions
  BY <1>2, <1>3, TransactionWritten
<1>5. \A u \in PostedTransactions : transaction'[u] = transaction[u]
  BY <1>2, <1>3 DEF PostedTransactions, TypeInv, TypeOK
<1>6. PostedTransfers' = PostedTransfers
  BY <1>3 DEF PostedTransfers
<1> QED
  BY <1>3, <1>4, <1>5, <1>6 DEF TypeInv, TypeOK, TransactionRow

\* A transaction that is posted joins the posted ones, and each ledger account gets its entry.
LEMMA PostTransactionStep ==
  ASSUME TypeInv, NEW t \in Transactions, PostTransaction(t)
  PROVE  /\ TypeInv' /\ UNCHANGED <<account, transfer, remapped>>
         /\ t \notin PostedTransactions /\ PostedTransactions' = PostedTransactions \cup {t}
         /\ \A u \in Transactions :
              /\ transaction'[u].account = transaction[u].account
              /\ transaction'[u].lines = transaction[u].lines
              /\ SignedTotal(u)' = SignedTotal(u)
         /\ \A g \in LedgerAccounts : ledger'[g] = ledger[g] + Entry(t, g) /\ Entry(t, g) \in Int
<1>1. transaction[t] \in TransactionRow /\ transaction[t].total = SumAmounts(transaction[t].lines)
  BY DEF TypeInv, TypeOK, TransactionRow
<1>2. PICK r : r = [transaction[t] EXCEPT !.status = "posted"]
  OBVIOUS
<1>3. r \in TransactionRow /\ r.total = SumAmounts(r.lines) /\ r.status = "posted"
  BY <1>1, <1>2 DEF TransactionRow, Status
<1>4. /\ transaction' = [transaction EXCEPT ![t] = r] /\ transaction[t].status = "draft"
      /\ UNCHANGED <<account, transfer, remapped>>
      /\ ledger' = [g \in LedgerAccounts |-> ledger[g] + Entry(t, g)]
  BY <1>2 DEF PostTransaction
<1>5. /\ transaction' \in [Transactions -> TransactionRow]
      /\ \A x \in Transactions : transaction'[x].total = SumAmounts(transaction'[x].lines)
      /\ IsFiniteSet(PostedTransactions')
  BY <1>3, <1>4, TransactionWritten
<1>6. transaction \in [Transactions -> TransactionRow] /\ ledger \in [LedgerAccounts -> Int]
  BY DEF TypeInv, TypeOK, TransactionRow
<1>7. \A u \in Transactions : transaction'[u] = IF u = t THEN r ELSE transaction[u]
  BY <1>4, <1>6
<1>8. t \notin PostedTransactions /\ PostedTransactions' = PostedTransactions \cup {t}
  BY <1>3, <1>4, <1>7 DEF PostedTransactions
<1>9. r.account = transaction[t].account /\ r.lines = transaction[t].lines
      /\ r.type = transaction[t].type /\ r.total = transaction[t].total
  BY <1>1, <1>2 DEF TransactionRow
<1>10. \A u \in Transactions : /\ transaction'[u].account = transaction[u].account
                               /\ transaction'[u].lines = transaction[u].lines
                               /\ SignedTotal(u)' = SignedTotal(u)
  BY <1>7, <1>9 DEF SignedTotal
<1>11. \A g \in LedgerAccounts : Entry(t, g) \in Int
  BY <1>1, EntryOf
<1>12. PICK e : e = [g \in LedgerAccounts |-> Entry(t, g)]
  OBVIOUS
<1>13. \A g \in LedgerAccounts : e[g] \in Int /\ e[g] = Entry(t, g)
  BY <1>11, <1>12
<1>14. ledger' = [g \in LedgerAccounts |-> ledger[g] + e[g]]
  BY <1>4, <1>13
<1>15. ledger' \in [LedgerAccounts -> Int]
  BY <1>6, <1>13, <1>14
<1>16. PostedTransfers' = PostedTransfers
  BY <1>4 DEF PostedTransfers
<1>17. TypeInv'
  BY <1>4, <1>5, <1>15, <1>16 DEF TypeInv, TypeOK, TransactionRow
<1>18. \A g \in LedgerAccounts : ledger'[g] = ledger[g] + Entry(t, g)
  BY <1>13, <1>14
<1> QED
  BY <1>4, <1>8, <1>10, <1>11, <1>17, <1>18

\* A transfer that is created, edited or cancelled posts nothing.
LEMMA TransferDraftStep ==
  ASSUME TypeInv, NEW x \in Transfers, TransferDraft(x)
  PROVE  /\ TypeInv' /\ UNCHANGED <<account, transaction, ledger, remapped>>
         /\ PostedTransfers' = PostedTransfers
         /\ \A y \in PostedTransfers : transfer'[y] = transfer[y]
<1>1. transfer[x] \in TransferRow
  BY DEF TypeInv, TypeOK, TransferRow
<1>2. PICK r \in TransferRow : /\ r.status \in {"draft", "cancelled"}
                             /\ transfer' = [transfer EXCEPT ![x] = r]
  <2> DEFINE Drafted == \E r \in TransferRow : /\ r.status \in {"draft", "cancelled"}
                                             /\ transfer' = [transfer EXCEPT ![x] = r]
  <2>1. ASSUME NEW a \in Accounts, NEW b \in Accounts, NEW amount \in Amounts,
               CreateTransfer(x, a, b, amount) \/ UpdateTransfer(x, a, b, amount)
        PROVE  Drafted
    <3>1. transfer' = [transfer EXCEPT ![x] = DraftTransfer(a, b, amount)]
      BY <2>1 DEF CreateTransfer, UpdateTransfer
    <3>2. DraftTransfer(a, b, amount) \in TransferRow
          /\ DraftTransfer(a, b, amount).status = "draft"
      BY DEF DraftTransfer, TransferRow, Status
    <3> QED
      BY <3>1, <3>2
  <2>2. CASE CancelTransfer(x)
    <3>1. PICK r : r = [transfer[x] EXCEPT !.status = "cancelled"]
      OBVIOUS
    <3>2. r \in TransferRow /\ r.status = "cancelled"
      BY <1>1, <3>1 DEF TransferRow, Status
    <3>3. transfer' = [transfer EXCEPT ![x] = r]
      BY <2>2, <3>1 DEF CancelTransfer
    <3> QED
      BY <3>2, <3>3
  <2> QED
    BY <2>1, <2>2 DEF TransferDraft
<1>3. transfer[x].status # "posted" /\ UNCHANGED <<account, transaction, ledger, remapped>>
  BY DEF TransferDraft, CreateTransfer, UpdateTransfer, CancelTransfer
<1>4. /\ transfer' \in [Transfers -> TransferRow] /\ PostedTransfers' = PostedTransfers
  BY <1>2, <1>3, TransferWritten
<1>5. \A y \in PostedTransfers : transfer'[y] = transfer[y]
  BY <1>2, <1>3 DEF PostedTransfers, TypeInv, TypeOK
<1>6. PostedTransactions' = PostedTransactions
      /\ \A t \in Transactions : transaction'[t].total = SumAmounts(transaction'[t].lines)
  BY <1>3 DEF PostedTransactions, TypeInv
<1> QED
  BY <1>3, <1>4, <1>5, <1>6 DEF TypeInv, TypeOK, TransferRow

\* A transfer that is posted joins the posted ones, and its amount goes from one mapped ledger
\* account to the other.
LEMMA PostTransferStep ==
  ASSUME TypeInv, NEW x \in Transfers, PostTransfer(x)
  PROVE  /\ TypeInv' /\ UNCHANGED <<account, transaction, remapped>>
         /\ x \notin PostedTransfers /\ PostedTransfers' = PostedTransfers \cup {x}
         /\ transfer[x].from \in Accounts /\ transfer[x].to \in Accounts
         /\ transfer[x].amount \in Int
         /\ \A y \in Transfers : /\ transfer'[y].from = transfer[y].from
                                /\ transfer'[y].to = transfer[y].to
                                /\ transfer'[y].amount = transfer[y].amount
         /\ \A g \in LedgerAccounts :
              ledger'[g] = ledger[g] + Effect(g, account[transfer[x].to].ledger,
                                              account[transfer[x].from].ledger,
                                              transfer[x].amount)
<1>1. transfer[x] \in TransferRow
  BY DEF TypeInv, TypeOK, TransferRow
<1>2. PICK r : r = [transfer[x] EXCEPT !.status = "posted"]
  OBVIOUS
<1>3. r \in TransferRow /\ r.status = "posted"
  BY <1>1, <1>2 DEF TransferRow, Status
<1>4. /\ transfer' = [transfer EXCEPT ![x] = r] /\ transfer[x].status = "draft"
      /\ UNCHANGED <<account, transaction, remapped>>
  BY <1>2 DEF PostTransfer, Transferable
<1>5. transfer' \in [Transfers -> TransferRow] /\ IsFiniteSet(PostedTransfers')
  BY <1>3, <1>4, TransferWritten
<1>6. transfer \in [Transfers -> TransferRow] /\ ledger \in [LedgerAccounts -> Int]
  BY DEF TypeInv, TypeOK, TransferRow
<1>7. \A y \in Transfers : transfer'[y] = IF y = x THEN r ELSE transfer[y]
  BY <1>4, <1>6
<1>8. x \notin PostedTransfers /\ PostedTransfers' = PostedTransfers \cup {x}
  BY <1>3, <1>4, <1>7 DEF PostedTransfers
<1>9. r.from = transfer[x].from /\ r.to = transfer[x].to /\ r.amount = transfer[x].amount
  BY <1>1, <1>2 DEF TransferRow
<1>10. \A y \in Transfers : /\ transfer'[y].from = transfer[y].from
                            /\ transfer'[y].to = transfer[y].to
                            /\ transfer'[y].amount = transfer[y].amount
  BY <1>7, <1>9
<1>11. /\ transfer[x].from \in Accounts /\ transfer[x].to \in Accounts
       /\ transfer[x].amount \in Int
  <2>1. transfer[x].from \in Accounts /\ transfer[x].to \in Accounts
        /\ transfer[x].amount \in Amounts
    BY <1>1 DEF TransferRow
  <2> QED
    BY <2>1, AmountsInt
<1>12. PICK d, c, n : /\ d = account[transfer[x].to].ledger
                      /\ c = account[transfer[x].from].ledger
                      /\ n = transfer[x].amount
  OBVIOUS
<1>13. ledger' = [g \in LedgerAccounts |-> ledger[g] + Effect(g, d, c, n)]
  BY <1>12 DEF PostTransfer
<1>14. \A g \in LedgerAccounts : Effect(g, d, c, n) \in Int
  BY <1>11, <1>12 DEF Effect
<1>15. /\ ledger' \in [LedgerAccounts -> Int]
       /\ \A g \in LedgerAccounts : ledger'[g] = ledger[g] + Effect(g, d, c, n)
  BY <1>6, <1>13, <1>14
<1>16. PostedTransactions' = PostedTransactions
       /\ \A t \in Transactions : transaction'[t].total = SumAmounts(transaction'[t].lines)
  BY <1>4 DEF PostedTransactions, TypeInv
<1>17. TypeInv'
  BY <1>4, <1>5, <1>15, <1>16 DEF TypeInv, TypeOK, TransferRow
<1> QED
  BY <1>4, <1>8, <1>10, <1>11, <1>12, <1>15, <1>17

-------------------------------------------------------------------------------
(* Movements.                                                              *)

\* The movements of an account are sums over finitely many documents.
LEMMA MovementTyped ==
  ASSUME TypeInv, NEW a
  PROVE  /\ IsFiniteSet(PostedOf(a)) /\ PostedOf(a) \in SUBSET Transactions
         /\ \A t \in Transactions : SignedTotal(t) \in Int
         /\ \A x \in Transfers : Effect(a, transfer[x].to, transfer[x].from,
                                       transfer[x].amount) \in Int
         /\ TransactionMovement(a) \in Int /\ TransferMovement(a) \in Int
         /\ Movement(a) = TransactionMovement(a) + TransferMovement(a) /\ Movement(a) \in Int
<1>1. /\ PostedOf(a) \in SUBSET PostedTransactions /\ PostedTransactions \in SUBSET Transactions
      /\ PostedTransfers \in SUBSET Transfers
  BY DEF PostedOf, PostedTransactions, PostedTransfers
<1>2. IsFiniteSet(PostedOf(a))
  BY <1>1, FS_Subset DEF TypeInv
<1>3. \A t \in Transactions : SignedTotal(t) \in Int
  BY DEF TypeInv, TypeOK, SignedTotal
<1>4. \A x \in Transfers : transfer[x].amount \in Int
  <2>1. \A x \in Transfers : transfer[x].amount \in Amounts
    BY DEF TypeInv, TypeOK
  <2> QED
    BY <2>1, AmountsInt
<1>5. \A x \in Transfers : Effect(a, transfer[x].to, transfer[x].from, transfer[x].amount) \in Int
  BY <1>4 DEF Effect
<1> DEFINE f == [t \in PostedOf(a) |-> SignedTotal(t)]
           e == [x \in PostedTransfers |->
                   Effect(a, transfer[x].to, transfer[x].from, transfer[x].amount)]
<1>6. /\ TransactionMovement(a) = SumFunctionOnSet(f, PostedOf(a))
      /\ TransferMovement(a) = SumFunctionOnSet(e, PostedTransfers)
  BY DEF TransactionMovement, TransferMovement, SumFunction
<1>7. (\A t \in PostedOf(a) : f[t] \in Int) /\ (\A x \in PostedTransfers : e[x] \in Int)
  BY <1>1, <1>3, <1>5
<1> HIDE DEF f, e
<1>8. TransactionMovement(a) \in Int /\ TransferMovement(a) \in Int
  BY <1>2, <1>6, <1>7, SumInt DEF TypeInv
<1> QED
  BY <1>1, <1>2, <1>3, <1>5, <1>8 DEF Movement

\* Movements stay while the posted documents do.
LEMMA TransactionsKept ==
  ASSUME PostedTransactions' = PostedTransactions,
         \A u \in PostedTransactions : transaction'[u] = transaction[u], NEW a
  PROVE  TransactionMovement(a)' = TransactionMovement(a) /\ (Named(a)' <=> Named(a))
<1>1. PostedOf(a)' = PostedOf(a) /\ \A u \in PostedOf(a) : SignedTotal(u)' = SignedTotal(u)
  BY DEF PostedOf, SignedTotal
<1>2. [t \in PostedOf(a) |-> SignedTotal(t)]' = [t \in PostedOf(a) |-> SignedTotal(t)]
  BY <1>1
<1> QED
  BY <1>2 DEF TransactionMovement, Named

\* Transfers that stay as they are move what they moved.
LEMMA TransfersKept ==
  ASSUME PostedTransfers' = PostedTransfers,
         \A y \in PostedTransfers : transfer'[y] = transfer[y], NEW a
  PROVE  TransferMovement(a)' = TransferMovement(a)
BY DEF TransferMovement

\* Without a posted document nothing moved.
LEMMA NothingMoved ==
  ASSUME PostedTransactions = {}, PostedTransfers = {}, NEW a
  PROVE  TransactionMovement(a) = 0 /\ Movement(a) = 0
<1>1. PostedOf(a) = {}
  BY DEF PostedOf
<1>2. TransactionMovement(a) = 0 /\ TransferMovement(a) = 0
  BY <1>1, SumEmpty DEF TransactionMovement, TransferMovement, SumFunction
<1> QED
  BY <1>2 DEF Movement

\* Posting a transaction moves its account by its signed total, and may name ledger accounts.
LEMMA TransactionPosted ==
  ASSUME TypeInv, NEW t \in Transactions, PostTransaction(t), NEW a
  PROVE  /\ TransactionMovement(a)' = TransactionMovement(a)
                                       + (IF transaction[t].account = a THEN SignedTotal(t) ELSE 0)
         /\ TransferMovement(a)' = TransferMovement(a)
         /\ ~Named(a)' => /\ ~Named(a)
                          /\ Entry(t, a) = IF account[transaction[t].account].ledger = a
                                           THEN SignedTotal(t) ELSE 0
<1> DEFINE S == PostedOf(a)
<1>1. /\ t \notin PostedTransactions /\ PostedTransactions' = PostedTransactions \cup {t}
      /\ \A u \in Transactions : /\ transaction'[u].account = transaction[u].account
                                /\ transaction'[u].lines = transaction[u].lines
                                /\ SignedTotal(u)' = SignedTotal(u)
      /\ UNCHANGED transfer
  BY PostTransactionStep
<1>2. PostedTransactions \in SUBSET Transactions
  BY DEF PostedTransactions
<1>3. PostedOf(a)' = IF transaction[t].account = a THEN S \cup {t} ELSE S
  BY <1>1, <1>2 DEF PostedOf
<1>4. t \notin S /\ S \in SUBSET Transactions /\ IsFiniteSet(S)
      /\ \A u \in Transactions : SignedTotal(u) \in Int
  BY <1>1, MovementTyped DEF PostedOf
<1> DEFINE f == [u \in S |-> SignedTotal(u)]
<1>5. PICK h : h = [u \in PostedOf(a)' |-> SignedTotal(u)']
  OBVIOUS
<1>6. /\ TransactionMovement(a) = SumFunctionOnSet(f, S)
      /\ TransactionMovement(a)' = SumFunctionOnSet(h, PostedOf(a)')
  BY <1>5 DEF TransactionMovement, SumFunction
<1>7. /\ \A u \in S : h[u] = f[u] /\ f[u] \in Int /\ h[u] \in Int
      /\ transaction[t].account = a => h[t] = SignedTotal(t)
      /\ SignedTotal(t) \in Int
  BY <1>1, <1>3, <1>4, <1>5
<1> HIDE DEF f, S
<1>8. SumFunctionOnSet(h, S) = SumFunctionOnSet(f, S) /\ SumFunctionOnSet(f, S) \in Int
  BY <1>4, <1>7, SumSame, SumInt
<1>9. ASSUME transaction[t].account = a
      PROVE  TransactionMovement(a)' = TransactionMovement(a) + SignedTotal(t)
  <2>1. SumFunctionOnSet(h, S \cup {t}) = SumFunctionOnSet(h, S) + h[t]
    BY <1>4, <1>7, <1>9, SumAdd
  <2> QED
    BY <1>3, <1>6, <1>7, <1>8, <1>9, <2>1
<1>10. ASSUME transaction[t].account # a
       PROVE  TransactionMovement(a)' = TransactionMovement(a) + 0
  BY <1>3, <1>6, <1>8, <1>10
<1>11. TransferMovement(a)' = TransferMovement(a)
  BY <1>1 DEF TransferMovement, PostedTransfers
<1>12. ASSUME ~Named(a)'
       PROVE  /\ ~Named(a)
              /\ Entry(t, a) = IF account[transaction[t].account].ledger = a
                               THEN SignedTotal(t) ELSE 0
  <2>1. \A u \in PostedTransactions' : \A i \in DOMAIN transaction[u].lines :
          transaction[u].lines[i].account # a
    BY <1>1, <1>2, <1>12 DEF Named
  <2>2. \A i \in DOMAIN transaction[t].lines : transaction[t].lines[i].account # a
    BY <1>1, <2>1
  <2>3. ~Named(a)
    BY <1>1, <2>1 DEF Named
  <2>4. transaction[t] \in TransactionRow /\ transaction[t].total = SumAmounts(transaction[t].lines)
    BY DEF TypeInv, TypeOK, TransactionRow
  <2> QED
    BY <2>2, <2>3, <2>4, EntryOf
<1>13. TransactionMovement(a)' = TransactionMovement(a)
                                 + (IF transaction[t].account = a THEN SignedTotal(t) ELSE 0)
  BY <1>9, <1>10
<1> QED
  BY <1>11, <1>12, <1>13

\* Posting a transfer moves its two accounts.
LEMMA TransferPosted ==
  ASSUME TypeInv, NEW x \in Transfers, PostTransfer(x), NEW a
  PROVE  TransferMovement(a)'
           = TransferMovement(a) + Effect(a, transfer[x].to, transfer[x].from, transfer[x].amount)
<1>1. /\ x \notin PostedTransfers /\ PostedTransfers' = PostedTransfers \cup {x}
      /\ \A y \in Transfers : /\ transfer'[y].from = transfer[y].from
                             /\ transfer'[y].to = transfer[y].to
                             /\ transfer'[y].amount = transfer[y].amount
  BY PostTransferStep
<1> DEFINE E(y) == Effect(a, transfer[y].to, transfer[y].from, transfer[y].amount)
           e == [y \in PostedTransfers |-> E(y)]
<1>2. PostedTransfers \in SUBSET Transfers /\ IsFiniteSet(PostedTransfers)
  BY DEF PostedTransfers, TypeInv
<1>3. \A y \in Transfers : E(y) \in Int
  BY MovementTyped
<1>4. PICK h : h = [y \in PostedTransfers' |->
                      Effect(a, transfer'[y].to, transfer'[y].from, transfer'[y].amount)]
  OBVIOUS
<1>5. /\ TransferMovement(a) = SumFunctionOnSet(e, PostedTransfers)
      /\ TransferMovement(a)' = SumFunctionOnSet(h, PostedTransfers')
  BY <1>4 DEF TransferMovement, SumFunction
<1>6. \A y \in PostedTransfers' : h[y] = E(y)
  BY <1>1, <1>2, <1>4
<1>7. /\ \A y \in PostedTransfers : h[y] = e[y] /\ h[y] \in Int
      /\ h[x] = E(x) /\ h[x] \in Int
  BY <1>1, <1>2, <1>3, <1>6
<1>8. PICK n : n = E(x)
  OBVIOUS
<1> HIDE DEF e, E
<1>9. SumFunctionOnSet(h, PostedTransfers) = SumFunctionOnSet(e, PostedTransfers)
  BY <1>2, <1>7, SumSame
<1>10. SumFunctionOnSet(h, PostedTransfers \cup {x}) = SumFunctionOnSet(h, PostedTransfers) + h[x]
  BY <1>1, <1>2, <1>7, SumAdd
<1>11. TransferMovement(a)' = TransferMovement(a) + E(x)
  BY <1>1, <1>5, <1>7, <1>9, <1>10
<1> QED
  BY <1>11 DEF E

-------------------------------------------------------------------------------
(* The report and the ledger.                                              *)

\* Every step is of one of these kinds.
LEMMA StepKinds ==
  ASSUME Next
  PROVE  \/ \E a \in Accounts : AccountCall(a)
         \/ \E t \in Transactions : TransactionDraft(t) \/ PostTransaction(t)
         \/ \E x \in Transfers : TransferDraft(x) \/ PostTransfer(x)
BY DEF Next, AccountCall, TransactionDraft, TransferDraft

\* Every call keeps the rows well formed.
LEMMA StepTyped == TypeInv /\ [Next]_vars => TypeInv'
<1> SUFFICES ASSUME TypeInv, [Next]_vars PROVE TypeInv'
  OBVIOUS
<1>1. CASE UNCHANGED vars
  BY <1>1 DEF vars, TypeInv, TypeOK, PostedTransactions, PostedTransfers
<1>2. CASE Next
  BY <1>2, StepKinds, AccountStep, TransactionDraftStep, PostTransactionStep, TransferDraftStep,
     PostTransferStep
<1> QED
  BY <1>1, <1>2

\* Accounts, documents, balances and the history of mappings stay well formed, for any register
\* of accounts, documents and lines: every total and every balance is a number.
THEOREM TreasuryTypeCorrect == Spec => []TypeOK
<1>1. TypeInv => TypeOK
  BY DEF TypeInv
<1> QED
  BY <1>1, InitTyped, StepTyped, PTL DEF Spec

\* What the report says of the accounts mapped to a ledger account.
Reported(g) == SumFunction([a \in MappedTo(g) |-> Movement(a)])

\* The accounts of a ledger account are finitely many.
LEMMA MappedFinite ==
  ASSUME NEW g
  PROVE  MappedTo(g) \in SUBSET Accounts /\ IsFiniteSet(MappedTo(g))
<1>1. MappedTo(g) \in SUBSET Accounts
  BY DEF MappedTo
<1> QED
  BY <1>1, TreasuryConstants, FS_Subset

\* A step that moves no account, and leaves a ledger account and its accounts alone, leaves the
\* report on it alone.
LEMMA ReportKept ==
  ASSUME NEW g, MappedTo(g)' = MappedTo(g), \A a \in MappedTo(g) : Movement(a)' = Movement(a)
  PROVE  Reported(g)' = Reported(g)
<1>1. [a \in MappedTo(g) |-> Movement(a)]' = [a \in MappedTo(g) |-> Movement(a)]
  OBVIOUS
<1> QED
  BY <1>1 DEF Reported

\* Posting a transaction changes the report as it changes the ledger.
LEMMA ReportOnTransaction ==
  ASSUME TypeInv, NEW t \in Transactions, PostTransaction(t), NEW g \in CashLedger, ~Named(g)',
         ledger[g] = Reported(g)
  PROVE  ledger'[g] = Reported(g)'
<1> DEFINE S == MappedTo(g)
           f == [a \in S |-> Movement(a)]
<1>1. PICK b, n : b = transaction[t].account /\ n = SignedTotal(t)
  OBVIOUS
<1>2. /\ b \in Accounts /\ n \in Int
      /\ \A a \in S : Movement(a) \in Int /\ f[a] = Movement(a)
  BY <1>1, MovementTyped DEF TypeInv, TypeOK
<1>3. \A a \in S : Movement(a)' = Movement(a) + IF b = a THEN n ELSE 0
  <2> SUFFICES ASSUME NEW a \in S
               PROVE  Movement(a)' = Movement(a) + IF b = a THEN n ELSE 0
    OBVIOUS
  <2>1. TransactionMovement(a)' = TransactionMovement(a) + IF b = a THEN n ELSE 0
    BY <1>1, TransactionPosted
  <2>2. TransferMovement(a)' = TransferMovement(a)
    BY TransactionPosted
  <2>3. TransactionMovement(a) \in Int /\ TransferMovement(a) \in Int
    BY MovementTyped
  <2> QED
    BY <1>2, <2>1, <2>2, <2>3 DEF Movement
<1>4. S' = S
  BY PostTransactionStep DEF MappedTo
<1>5. PICK h : h = [a \in S |-> Movement(a)']
  OBVIOUS
<1>6. Reported(g)' = SumFunctionOnSet(h, S) /\ Reported(g) = SumFunctionOnSet(f, S)
  BY <1>4, <1>5 DEF Reported, SumFunction
<1>7. \A a \in S : h[a] = f[a] + IF b = a THEN n ELSE 0
  BY <1>2, <1>3, <1>5
<1>8. ledger'[g] = ledger[g] + IF b \in S THEN n ELSE 0
  <2>1. g \in LedgerAccounts
    BY DEF LedgerAccounts
  <2>2. ledger'[g] = ledger[g] + Entry(t, g)
    BY <2>1, PostTransactionStep
  <2>3. Entry(t, g) = IF account[b].ledger = g THEN n ELSE 0
    BY <1>1, TransactionPosted
  <2>4. b \in S <=> account[b].ledger = g
    BY <1>2 DEF MappedTo
  <2> QED
    BY <2>2, <2>3, <2>4
<1>9. IsFiniteSet(S) /\ \A a \in S : f[a] \in Int /\ h[a] \in Int
  BY <1>2, <1>7, MappedFinite
<1> HIDE DEF S, f
<1>10. ASSUME b \in S
       PROVE  SumFunctionOnSet(h, S) = SumFunctionOnSet(f, S) + n
  <2>1. SumFunctionOnSet(h, S) = SumFunctionOnSet(f, S) + (h[b] - f[b])
    <3>1. \A a \in S \ {b} : h[a] = f[a]
      BY <1>7, <1>9
    <3> QED
      BY <1>9, <1>10, <3>1, SumChange
  <2>2. h[b] - f[b] = n
    BY <1>2, <1>7, <1>9, <1>10
  <2> QED
    BY <2>1, <2>2
<1>11. ASSUME b \notin S
       PROVE  SumFunctionOnSet(h, S) = SumFunctionOnSet(f, S) + 0
  <2>1. SumFunctionOnSet(h, S) = SumFunctionOnSet(f, S)
    BY <1>7, <1>9, <1>11, SumSame
  <2>2. SumFunctionOnSet(f, S) \in Int
    BY <1>9, SumInt
  <2> QED
    BY <2>1, <2>2
<1> QED
  BY <1>6, <1>8, <1>10, <1>11

\* So does posting a transfer, whether or not its two accounts share the ledger account.
LEMMA ReportOnTransfer ==
  ASSUME TypeInv, NEW x \in Transfers, PostTransfer(x), NEW g \in CashLedger,
         ledger[g] = Reported(g)
  PROVE  ledger'[g] = Reported(g)'
<1> DEFINE S == MappedTo(g)
           f == [a \in S |-> Movement(a)]
<1>1. PICK to, from, n : to = transfer[x].to /\ from = transfer[x].from /\ n = transfer[x].amount
  OBVIOUS
<1> DEFINE e == [a \in S |-> Effect(a, to, from, n)]
<1>2. /\ to \in Accounts /\ from \in Accounts /\ n \in Int
      /\ UNCHANGED <<account, transaction>>
  BY <1>1, PostTransferStep
<1>3. \A a \in S : /\ f[a] = Movement(a) /\ Movement(a) \in Int
                   /\ e[a] = Effect(a, to, from, n) /\ e[a] \in Int
  BY <1>2, MovementTyped DEF Effect
<1>4. \A a \in S : Movement(a)' = Movement(a) + Effect(a, to, from, n)
  <2> SUFFICES ASSUME NEW a \in S
               PROVE  Movement(a)' = Movement(a) + Effect(a, to, from, n)
    OBVIOUS
  <2>1. TransferMovement(a)' = TransferMovement(a) + Effect(a, to, from, n)
    BY <1>1, TransferPosted
  <2>2. TransactionMovement(a)' = TransactionMovement(a)
    BY <1>2, TransactionsKept DEF PostedTransactions
  <2>3. TransactionMovement(a) \in Int /\ TransferMovement(a) \in Int
        /\ Effect(a, to, from, n) \in Int
    BY <1>2, MovementTyped DEF Effect
  <2> QED
    BY <2>1, <2>2, <2>3 DEF Movement
<1>5. S' = S
  BY <1>2 DEF MappedTo
<1>6. PICK h : h = [a \in S |-> Movement(a)']
  OBVIOUS
<1>7. Reported(g)' = SumFunctionOnSet(h, S) /\ Reported(g) = SumFunctionOnSet(f, S)
  BY <1>5, <1>6 DEF Reported, SumFunction
<1>8. IsFiniteSet(S) /\ \A a \in S : f[a] \in Int /\ e[a] \in Int /\ h[a] = f[a] + e[a]
  BY <1>3, <1>4, <1>6, MappedFinite
<1>9. SumFunctionOnSet(e, S) = (IF to \in S THEN n ELSE 0) - (IF from \in S THEN n ELSE 0)
  BY <1>2, <1>8, EffectSum
<1>10. ledger'[g] = ledger[g] + ((IF to \in S THEN n ELSE 0) - (IF from \in S THEN n ELSE 0))
  <2>1. g \in LedgerAccounts
    BY DEF LedgerAccounts
  <2>2. ledger'[g] = ledger[g] + Effect(g, account[to].ledger, account[from].ledger, n)
    BY <1>1, <2>1, PostTransferStep
  <2>3. /\ to \in S <=> g = account[to].ledger
        /\ from \in S <=> g = account[from].ledger
    BY <1>2 DEF MappedTo
  <2> QED
    BY <2>2, <2>3 DEF Effect
<1> HIDE DEF S, f, e
<1>11. SumFunctionOnSet(h, S) = SumFunctionOnSet(f, S) + SumFunctionOnSet(e, S)
  BY <1>8, SumPlus
<1> QED
  BY <1>7, <1>9, <1>10, <1>11

\* The report agrees with the ledger on every ledger account whose mapping was not edited and
\* that no posted line names, for any number of accounts, documents and transfers, also between
\* accounts that share a ledger account.
THEOREM ReportAgrees == Spec => []ReportAgreesWithLedger
<1>1. Init => ReportAgreesWithLedger
  <2> SUFFICES ASSUME Init, NEW g \in CashLedger PROVE ledger[g] = Reported(g)
    BY DEF ReportAgreesWithLedger, Reported
  <2>1. TypeInv
    BY InitTyped
  <2>2. PostedTransactions = {} /\ PostedTransfers = {}
    BY InitTyped
  <2>3. \A a \in MappedTo(g) : Movement(a) = 0
    BY <2>2, NothingMoved
  <2>4. Reported(g) = 0
    <3> DEFINE f == [a \in MappedTo(g) |-> Movement(a)]
    <3>1. Reported(g) = SumFunctionOnSet(f, MappedTo(g)) /\ \A a \in MappedTo(g) : f[a] = 0
      BY <2>3 DEF Reported, SumFunction
    <3> HIDE DEF f
    <3> QED
      BY <3>1, MappedFinite, SumZero
  <2>5. ledger[g] = 0
    BY DEF Init, LedgerAccounts
  <2> QED
    BY <2>4, <2>5
<1>2. TypeInv /\ ReportAgreesWithLedger /\ [Next]_vars => ReportAgreesWithLedger'
  <2> SUFFICES ASSUME TypeInv, ReportAgreesWithLedger, [Next]_vars,
                      NEW g \in CashLedger, g \notin remapped', ~Named(g)'
               PROVE  ledger'[g] = Reported(g)'
    BY DEF ReportAgreesWithLedger, Reported
  <2>0. g \notin remapped /\ ~Named(g) => ledger[g] = Reported(g)
    BY DEF ReportAgreesWithLedger, Reported
  <2>1. CASE UNCHANGED vars
    <3>1. UNCHANGED <<account, transaction, transfer, ledger, remapped>>
      BY <2>1 DEF vars
    <3>2. \A a \in MappedTo(g) : Movement(a)' = Movement(a)
      BY <3>1, TransactionsKept, TransfersKept DEF Movement, PostedTransactions, PostedTransfers
    <3>3. MappedTo(g)' = MappedTo(g) /\ (Named(g)' <=> Named(g))
      BY <3>1, TransactionsKept DEF MappedTo, PostedTransactions
    <3> QED
      BY <2>0, <3>1, <3>2, <3>3, ReportKept
  <2>2. ASSUME NEW a \in Accounts, AccountCall(a)
        PROVE  ledger'[g] = Reported(g)'
    <3>1. /\ UNCHANGED <<transaction, transfer, ledger>> /\ remapped \subseteq remapped'
          /\ \A b \in Accounts : \/ account'[b].ledger = account[b].ledger
                                \/ {account[b].ledger, account'[b].ledger} \subseteq remapped'
      BY <2>2, AccountStep
    <3>2. \A b \in MappedTo(g) : Movement(b)' = Movement(b)
      BY <3>1, TransactionsKept, TransfersKept DEF Movement, PostedTransactions, PostedTransfers
    <3>3. MappedTo(g)' = MappedTo(g)
      BY <3>1 DEF MappedTo
    <3>4. Named(g)' <=> Named(g)
      BY <3>1, TransactionsKept DEF PostedTransactions
    <3> QED
      BY <2>0, <3>1, <3>2, <3>3, <3>4, ReportKept
  <2>3. ASSUME NEW t \in Transactions, TransactionDraft(t)
        PROVE  ledger'[g] = Reported(g)'
    <3>1. /\ UNCHANGED <<account, transfer, ledger, remapped>>
          /\ PostedTransactions' = PostedTransactions
          /\ \A u \in PostedTransactions : transaction'[u] = transaction[u]
      BY <2>3, TransactionDraftStep
    <3>2. \A b \in MappedTo(g) : Movement(b)' = Movement(b)
      BY <3>1, TransactionsKept, TransfersKept DEF Movement, PostedTransfers
    <3>3. MappedTo(g)' = MappedTo(g) /\ (Named(g)' <=> Named(g))
      BY <3>1, TransactionsKept DEF MappedTo
    <3> QED
      BY <2>0, <3>1, <3>2, <3>3, ReportKept
  <2>4. ASSUME NEW t \in Transactions, PostTransaction(t)
        PROVE  ledger'[g] = Reported(g)'
    <3>1. g \notin remapped /\ ~Named(g)
      BY <2>4, PostTransactionStep, TransactionPosted
    <3> QED
      BY <2>0, <2>4, <3>1, ReportOnTransaction
  <2>5. ASSUME NEW x \in Transfers, TransferDraft(x)
        PROVE  ledger'[g] = Reported(g)'
    <3>1. /\ UNCHANGED <<account, transaction, ledger, remapped>>
          /\ PostedTransfers' = PostedTransfers
          /\ \A y \in PostedTransfers : transfer'[y] = transfer[y]
      BY <2>5, TransferDraftStep
    <3>2. \A b \in MappedTo(g) : Movement(b)' = Movement(b)
      BY <3>1, TransactionsKept, TransfersKept DEF Movement, PostedTransactions
    <3>3. MappedTo(g)' = MappedTo(g) /\ (Named(g)' <=> Named(g))
      BY <3>1, TransactionsKept DEF MappedTo, PostedTransactions
    <3> QED
      BY <2>0, <3>1, <3>2, <3>3, ReportKept
  <2>6. ASSUME NEW x \in Transfers, PostTransfer(x)
        PROVE  ledger'[g] = Reported(g)'
    <3>1. UNCHANGED <<transaction, remapped>>
      BY <2>6, PostTransferStep
    <3>2. Named(g)' <=> Named(g)
      BY <3>1, TransactionsKept DEF PostedTransactions
    <3> QED
      BY <2>0, <2>6, <3>1, <3>2, ReportOnTransfer
  <2> QED
    BY <2>1, <2>2, <2>3, <2>4, <2>5, <2>6, StepKinds
<1> QED
  BY <1>1, <1>2, InitTyped, StepTyped, PTL DEF Spec

-------------------------------------------------------------------------------
(* Cash as a whole.                                                        *)

\* What was received less what was paid, by the documents of all accounts.
Received == SumFunction([a \in Accounts |-> TransactionMovement(a)])

\* It stays while the movements do.
LEMMA ReceivedKept ==
  ASSUME \A a \in Accounts : TransactionMovement(a)' = TransactionMovement(a)
  PROVE  Received' = Received
<1>1. [a \in Accounts |-> TransactionMovement(a)]' = [a \in Accounts |-> TransactionMovement(a)]
  OBVIOUS
<1> QED
  BY <1>1 DEF Received

\* A posted transaction changes cash as it changes what was received.
LEMMA CashOnTransaction ==
  ASSUME TypeInv, NEW t \in Transactions, PostTransaction(t), \A g \in CashLedger : ~Named(g)',
         SumFunctionOnSet(ledger, CashLedger) = Received
  PROVE  SumFunctionOnSet(ledger', CashLedger) = Received'
<1>1. PICK b, n, c : b = transaction[t].account /\ n = SignedTotal(t) /\ c = account[b].ledger
  OBVIOUS
<1>2. b \in Accounts /\ n \in Int /\ c \in CashLedger
  BY <1>1, MovementTyped DEF TypeInv, TypeOK
<1>3. \A g \in CashLedger : /\ ledger'[g] = ledger[g] + IF c = g THEN n ELSE 0
                            /\ ledger[g] \in Int
  <2> SUFFICES ASSUME NEW g \in CashLedger
               PROVE  ledger'[g] = ledger[g] + (IF c = g THEN n ELSE 0) /\ ledger[g] \in Int
    OBVIOUS
  <2>1. g \in LedgerAccounts /\ ledger[g] \in Int
    BY DEF LedgerAccounts, TypeInv, TypeOK
  <2>2. ledger'[g] = ledger[g] + Entry(t, g)
    BY <2>1, PostTransactionStep
  <2>3. Entry(t, g) = IF c = g THEN n ELSE 0
    BY <1>1, TransactionPosted
  <2> QED
    BY <2>1, <2>2, <2>3
<1>4. IsFiniteSet(CashLedger) /\ IsFiniteSet(Accounts)
  BY TreasuryConstants
<1>5. PICK k, l : k = ledger /\ l = ledger'
  OBVIOUS
<1>6. SumFunctionOnSet(l, CashLedger) = SumFunctionOnSet(k, CashLedger) + n
  <2>1. /\ \A g \in CashLedger : k[g] \in Int /\ l[g] \in Int
        /\ \A g \in CashLedger \ {c} : l[g] = k[g]
        /\ l[c] - k[c] = n
    BY <1>2, <1>3, <1>5
  <2>2. SumFunctionOnSet(l, CashLedger) = SumFunctionOnSet(k, CashLedger) + (l[c] - k[c])
    BY <1>2, <1>4, <2>1, SumChange
  <2> QED
    BY <2>1, <2>2
<1> DEFINE f == [a \in Accounts |-> TransactionMovement(a)]
<1>7. PICK h : h = [a \in Accounts |-> TransactionMovement(a)']
  OBVIOUS
<1>8. Received = SumFunctionOnSet(f, Accounts) /\ Received' = SumFunctionOnSet(h, Accounts)
  BY <1>7 DEF Received, SumFunction
<1>9. \A a \in Accounts : f[a] \in Int /\ h[a] = f[a] + IF b = a THEN n ELSE 0
  BY <1>1, <1>7, MovementTyped, TransactionPosted
<1> HIDE DEF f
<1>10. SumFunctionOnSet(h, Accounts) = SumFunctionOnSet(f, Accounts) + n
  <2>1. /\ \A a \in Accounts : h[a] \in Int
        /\ \A a \in Accounts \ {b} : h[a] = f[a]
        /\ h[b] - f[b] = n
    BY <1>2, <1>9
  <2>2. SumFunctionOnSet(h, Accounts) = SumFunctionOnSet(f, Accounts) + (h[b] - f[b])
    BY <1>2, <1>4, <1>9, <2>1, SumChange
  <2> QED
    BY <2>1, <2>2
<1> QED
  BY <1>5, <1>6, <1>8, <1>10

\* A transfer moves cash and changes neither.
LEMMA CashOnTransfer ==
  ASSUME TypeInv, NEW x \in Transfers, PostTransfer(x),
         SumFunctionOnSet(ledger, CashLedger) = Received
  PROVE  SumFunctionOnSet(ledger', CashLedger) = Received'
<1>1. PICK to, from, n : /\ to = account[transfer[x].to].ledger
                         /\ from = account[transfer[x].from].ledger
                         /\ n = transfer[x].amount
  OBVIOUS
<1>2. to \in CashLedger /\ from \in CashLedger /\ n \in Int /\ UNCHANGED transaction
  <2>1. /\ transfer[x].from \in Accounts /\ transfer[x].to \in Accounts
        /\ transfer[x].amount \in Int /\ UNCHANGED transaction
    BY PostTransferStep
  <2> QED
    BY <1>1, <2>1 DEF TypeInv, TypeOK
<1> DEFINE e == [g \in CashLedger |-> Effect(g, to, from, n)]
<1>3. \A g \in CashLedger : ledger[g] \in Int /\ e[g] \in Int /\ ledger'[g] = ledger[g] + e[g]
  <2> SUFFICES ASSUME NEW g \in CashLedger
               PROVE  /\ ledger[g] \in Int /\ Effect(g, to, from, n) \in Int
                      /\ ledger'[g] = ledger[g] + Effect(g, to, from, n)
    OBVIOUS
  <2>1. g \in LedgerAccounts /\ ledger[g] \in Int
    BY DEF LedgerAccounts, TypeInv, TypeOK
  <2>2. ledger'[g] = ledger[g] + Effect(g, to, from, n)
    BY <1>1, <2>1, PostTransferStep
  <2> QED
    BY <1>2, <2>1, <2>2 DEF Effect
<1>4. IsFiniteSet(CashLedger)
  BY TreasuryConstants
<1>5. SumFunctionOnSet(e, CashLedger) = 0
  <2>1. SumFunctionOnSet(e, CashLedger) = n - n
    BY <1>2, <1>4, EffectSum
  <2> QED
    BY <1>2, <2>1
<1>6. PICK k, l : k = ledger /\ l = ledger'
  OBVIOUS
<1> HIDE DEF e
<1>7. SumFunctionOnSet(l, CashLedger) = SumFunctionOnSet(k, CashLedger)
  <2>1. SumFunctionOnSet(l, CashLedger)
          = SumFunctionOnSet(k, CashLedger) + SumFunctionOnSet(e, CashLedger)
    BY <1>3, <1>4, <1>6, SumPlus
  <2>2. SumFunctionOnSet(k, CashLedger) \in Int
    BY <1>3, <1>4, <1>6, SumInt
  <2> QED
    BY <1>5, <2>1, <2>2
<1>8. \A a \in Accounts : TransactionMovement(a)' = TransactionMovement(a)
  BY <1>2, TransactionsKept DEF PostedTransactions
<1> QED
  BY <1>6, <1>7, <1>8, ReceivedKept

\* Cash in the ledger as a whole is what was received less what was paid, for any number of
\* accounts and documents and whatever was mapped to what when it was posted.
THEOREM CashAgrees == Spec => []CashIsReceiptsLessPayments
<1>1. Init => CashIsReceiptsLessPayments
  <2> SUFFICES ASSUME Init PROVE SumFunctionOnSet(ledger, CashLedger) = Received
    BY DEF CashIsReceiptsLessPayments, Received
  <2>1. PostedTransactions = {} /\ PostedTransfers = {}
    BY InitTyped
  <2>2. \A g \in CashLedger : ledger[g] = 0
    BY DEF Init, LedgerAccounts
  <2>3. SumFunctionOnSet(ledger, CashLedger) = 0
    BY <2>2, TreasuryConstants, SumZero
  <2> DEFINE f == [a \in Accounts |-> TransactionMovement(a)]
  <2>4. Received = SumFunctionOnSet(f, Accounts) /\ \A a \in Accounts : f[a] = 0
    BY <2>1, NothingMoved DEF Received, SumFunction
  <2> HIDE DEF f
  <2>5. Received = 0
    BY <2>4, TreasuryConstants, SumZero
  <2> QED
    BY <2>3, <2>5
<1>2. TypeInv /\ CashIsReceiptsLessPayments /\ [Next]_vars => CashIsReceiptsLessPayments'
  <2> SUFFICES ASSUME TypeInv, CashIsReceiptsLessPayments, [Next]_vars,
                      \A g \in CashLedger : ~Named(g)'
               PROVE  SumFunctionOnSet(ledger', CashLedger) = Received'
    BY DEF CashIsReceiptsLessPayments, Received
  <2>0. (\A g \in CashLedger : ~Named(g)) => SumFunctionOnSet(ledger, CashLedger) = Received
    BY DEF CashIsReceiptsLessPayments, Received
  <2>1. ASSUME UNCHANGED ledger, PostedTransactions' = PostedTransactions,
               \A u \in PostedTransactions : transaction'[u] = transaction[u]
        PROVE  SumFunctionOnSet(ledger', CashLedger) = Received'
    <3>1. \A a \in Accounts : TransactionMovement(a)' = TransactionMovement(a)
      BY <2>1, TransactionsKept
    <3>2. \A g \in CashLedger : Named(g)' <=> Named(g)
      BY <2>1, TransactionsKept
    <3> QED
      BY <2>0, <2>1, <3>1, <3>2, ReceivedKept
  <2>2. ASSUME UNCHANGED <<transaction, ledger>>
        PROVE  SumFunctionOnSet(ledger', CashLedger) = Received'
    BY <2>1, <2>2 DEF PostedTransactions
  <2>3. CASE UNCHANGED vars
    BY <2>2, <2>3 DEF vars
  <2>4. ASSUME NEW a \in Accounts, AccountCall(a)
        PROVE  SumFunctionOnSet(ledger', CashLedger) = Received'
    BY <2>2, <2>4, AccountStep
  <2>5. ASSUME NEW t \in Transactions, TransactionDraft(t)
        PROVE  SumFunctionOnSet(ledger', CashLedger) = Received'
    BY <2>1, <2>5, TransactionDraftStep
  <2>6. ASSUME NEW t \in Transactions, PostTransaction(t)
        PROVE  SumFunctionOnSet(ledger', CashLedger) = Received'
    <3>1. \A g \in CashLedger : ~Named(g)
      BY <2>6, TransactionPosted
    <3> QED
      BY <2>0, <2>6, <3>1, CashOnTransaction
  <2>7. ASSUME NEW x \in Transfers, TransferDraft(x)
        PROVE  SumFunctionOnSet(ledger', CashLedger) = Received'
    BY <2>2, <2>7, TransferDraftStep
  <2>8. ASSUME NEW x \in Transfers, PostTransfer(x)
        PROVE  SumFunctionOnSet(ledger', CashLedger) = Received'
    <3>1. \A g \in CashLedger : Named(g)' <=> Named(g)
      BY <2>8, PostTransferStep, TransactionsKept DEF PostedTransactions
    <3> QED
      BY <2>0, <2>8, <3>1, CashOnTransfer
  <2> QED
    BY <2>3, <2>4, <2>5, <2>6, <2>7, <2>8, StepKinds
<1> QED
  BY <1>1, <1>2, InitTyped, StepTyped, PTL DEF Spec

-------------------------------------------------------------------------------
(* Bank statements and their reconciliation.                               *)

\* What an open call on a match, and an open completion, carry.
MatchWork == [op : {"add", "remove"}, match : Match, flag : BOOLEAN, seen : SUBSET Match]
CompletionWork == [op : {"complete"}, session : Sessions]

\* A completed session has no match call open on it, unless it was completed over one.
CompletedAreClear ==
  \A s \in Sessions \ late : session[s].status = "completed" => OpenOn(s) = {}

\* What a client holds is told by its operation.
LEMMA WorkKinds ==
  ASSUME BankTypeOK, NEW c \in Clients
  PROVE  /\ work[c].op \in {"add", "remove"} => work[c] \in MatchWork
         /\ work[c].op = "complete" => work[c] \in CompletionWork
<1>1. work[c] \in {Idle} \cup MatchWork \cup CompletionWork
  BY DEF BankTypeOK, Work, MatchWork, CompletionWork
<1>2. Idle.op = "idle"
  BY DEF Idle
<1>3. \A w \in MatchWork : w.op \in {"add", "remove"}
  BY DEF MatchWork
<1>4. \A w \in CompletionWork : w.op = "complete"
  BY DEF CompletionWork
<1> QED
  BY <1>1, <1>2, <1>3, <1>4

\* A call that only opens a unit of work keeps the tables.
LEMMA BeginType ==
  ASSUME BankTypeOK, NEW c \in Clients, NEW w \in Work, Begin(c, w)
  PROVE  BankTypeOK'
BY DEF Begin, BankTypeOK

\* A commit of a match call writes a line's flag and notes the line when it was raced.
LEMMA WrittenType ==
  ASSUME BankTypeOK, NEW c \in Clients, work[c] \in MatchWork,
         Written(c), matches' \subseteq Match
  PROVE  BankTypeOK'
<1> DEFINE LineRow == [account : BankAccounts \cup {None}, amount : Int, reconciled : BOOLEAN]
           l == work[c].match.line
<1>1. l \in Lines
  BY DEF MatchWork, Match
<1>2. line[l] \in LineRow
  BY <1>1 DEF BankTypeOK
<1>3. [line[l] EXCEPT !.reconciled = (work[c].op = "add")] \in LineRow
  BY <1>2
<1>4. line' \in [Lines -> LineRow]
  BY <1>1, <1>3 DEF Written, BankTypeOK
<1>5. raced' \subseteq Lines
  BY <1>1 DEF Written, BankTypeOK
<1>6. work' \in [Clients -> Work]
  BY DEF Written, BankTypeOK, Work
<1> QED
  BY <1>4, <1>5, <1>6 DEF Written, BankTypeOK

\* Every call keeps the tables and the units of work well formed.
LEMMA StepType ==
  ASSUME BankTypeOK, [BankNext]_bankVars
  PROVE  BankTypeOK'
<1> DEFINE LineRow == [account : BankAccounts \cup {None}, amount : Int, reconciled : BOOLEAN]
           SessionRow == [account : BankAccounts \cup {None},
                          status : {"none", "draft", "completed"}]
<1>1. CASE UNCHANGED bankVars
  BY <1>1 DEF bankVars, BankTypeOK
<1>2. ASSUME NEW a \in BankAccounts, NEW l \in Lines, NEW amount \in TypedAmounts,
             CreateManualStatementLine(l, a, amount)
      PROVE  BankTypeOK'
  <2>1. NewLine(a, amount) \in LineRow
    BY ReconciliationConstants DEF NewLine
  <2> QED
    BY <1>2, <2>1 DEF CreateManualStatementLine, BankTypeOK
<1>3. ASSUME NEW a \in BankAccounts, NEW new \in SUBSET Lines, NEW amount \in [new -> CsvAmounts],
             ImportStatement(new, a, amount)
      PROVE  BankTypeOK'
  <2>1. \A l \in Lines : (IF l \in new THEN NewLine(a, amount[l]) ELSE line[l]) \in LineRow
    BY ReconciliationConstants DEF NewLine, BankTypeOK
  <2> QED
    BY <1>3, <2>1 DEF ImportStatement, BankTypeOK
<1>4. ASSUME NEW a \in BankAccounts, NEW s \in Sessions, CreateSession(s, a)
      PROVE  BankTypeOK'
  <2>1. [account |-> a, status |-> "draft"] \in SessionRow
    OBVIOUS
  <2> QED
    BY <1>4, <2>1 DEF CreateSession, BankTypeOK
<1>5. ASSUME NEW c \in Clients, NEW m \in Match, AddMatch(c, m) \/ RemoveMatch(c, m)
      PROVE  BankTypeOK'
  <2>1. MatchesOf(m.line) \subseteq Match /\ m.line \in Lines
    BY DEF MatchesOf, BankTypeOK, Match
  <2>2. line[m.line] \in LineRow
    BY <2>1 DEF BankTypeOK
  <2>3. CASE AddMatch(c, m)
    <3> DEFINE flag == m.amount >= Remaining(m.line, m.session) /\ ~line[m.line].reconciled
               w == [op |-> "add", match |-> m, seen |-> MatchesOf(m.line), flag |-> flag]
    <3>1. flag \in BOOLEAN
      OBVIOUS
    <3>2. w \in Work
      BY <2>1, <3>1 DEF Work
    <3>3. Begin(c, w)
      BY <2>3 DEF AddMatch
    <3> QED
      BY <3>2, <3>3, BeginType
  <2>4. CASE RemoveMatch(c, m)
    <3> DEFINE w == [op |-> "remove", match |-> m, seen |-> MatchesOf(m.line),
                     flag |-> line[m.line].reconciled]
    <3>1. w \in Work
      BY <2>1, <2>2 DEF Work
    <3>2. Begin(c, w)
      BY <2>4 DEF RemoveMatch
    <3> QED
      BY <3>1, <3>2, BeginType
  <2> QED
    BY <1>5, <2>3, <2>4
<1>6. ASSUME NEW c \in Clients, NEW s \in Sessions, CompleteSession(c, s)
      PROVE  BankTypeOK'
  <2>1. [op |-> "complete", session |-> s] \in Work
    BY DEF Work
  <2> QED
    BY <1>6, <2>1, BeginType DEF CompleteSession
<1>7. ASSUME NEW c \in Clients, CommitAdd(c) \/ CommitRemove(c)
      PROVE  BankTypeOK'
  <2>1. work[c] \in MatchWork
    BY <1>7, WorkKinds DEF CommitAdd, CommitRemove
  <2>2. matches' \subseteq Match
    BY <1>7, <2>1 DEF CommitAdd, CommitRemove, BankTypeOK, MatchWork
  <2> QED
    BY <1>7, <2>1, <2>2, WrittenType DEF CommitAdd, CommitRemove
<1>8. ASSUME NEW c \in Clients, CommitComplete(c)
      PROVE  BankTypeOK'
  <2>1. work[c].session \in Sessions
    BY <1>8, WorkKinds DEF CommitComplete, CompletionWork
  <2>2. session[work[c].session] \in SessionRow
    BY <2>1 DEF BankTypeOK
  <2>3. [session[work[c].session] EXCEPT !.status = "completed"] \in SessionRow
    BY <2>2
  <2>4. session' \in [Sessions -> SessionRow]
    BY <1>8, <2>1, <2>3 DEF CommitComplete, BankTypeOK
  <2>5. late' \subseteq Sessions /\ work' \in [Clients -> Work]
    BY <1>8, <2>1 DEF CommitComplete, BankTypeOK, Work
  <2> QED
    BY <1>8, <2>4, <2>5 DEF CommitComplete, BankTypeOK
<1>9. ASSUME NEW c \in Clients, Abort(c)
      PROVE  BankTypeOK'
  BY <1>9 DEF Abort, BankTypeOK, Work
<1> QED
  BY <1>1, <1>2, <1>3, <1>4, <1>5, <1>6, <1>7, <1>8, <1>9 DEF BankNext

\* The tables stay well formed, for any number of sessions and clients.
THEOREM ReconciliationTypeCorrect == BankSpec => []BankTypeOK
<1>1. BankInit => BankTypeOK
  BY DEF BankInit, BankTypeOK, Work
<1>2. BankTypeOK /\ [BankNext]_bankVars => BankTypeOK'
  BY StepType
<1> QED
  BY <1>1, <1>2, PTL DEF BankSpec

\* A match call opens on a session that is not completed, and completing one over an open call
\* is recorded.
LEMMA ClearKept ==
  ASSUME BankTypeOK, CompletedAreClear, [BankNext]_bankVars
  PROVE  CompletedAreClear'
<1>1. CASE UNCHANGED <<session, work, late>>
  BY <1>1 DEF CompletedAreClear, OpenOn
<1>2. ASSUME NEW a \in BankAccounts, NEW s \in Sessions, CreateSession(s, a)
      PROVE  CompletedAreClear'
  <2>1. session'[s].status = "draft" /\ \A t \in Sessions \ {s} : session'[t] = session[t]
    BY <1>2 DEF CreateSession, BankTypeOK
  <2>2. UNCHANGED <<work, late>>
    BY <1>2 DEF CreateSession
  <2> QED
    BY <2>1, <2>2 DEF CompletedAreClear, OpenOn
<1>3. ASSUME NEW c \in Clients, NEW m \in Match, AddMatch(c, m) \/ RemoveMatch(c, m)
      PROVE  CompletedAreClear'
  <2>1. /\ session[m.session].status = "draft"
        /\ UNCHANGED <<session, late>>
    BY <1>3 DEF AddMatch, RemoveMatch, Draft, Begin
  <2>2. /\ work'[c].match = m
        /\ \A d \in Clients \ {c} : work'[d] = work[d]
    BY <1>3 DEF AddMatch, RemoveMatch, Begin, BankTypeOK
  <2> QED
    BY <2>1, <2>2 DEF CompletedAreClear, OpenOn
<1>4. ASSUME NEW c \in Clients, NEW s \in Sessions, CompleteSession(c, s)
      PROVE  CompletedAreClear'
  <2>1. /\ work'[c].op = "complete"
        /\ \A d \in Clients \ {c} : work'[d] = work[d]
        /\ UNCHANGED <<session, late>>
    BY <1>4 DEF CompleteSession, Begin, BankTypeOK
  <2> QED
    BY <2>1 DEF CompletedAreClear, OpenOn
<1>5. ASSUME NEW c \in Clients, CommitAdd(c) \/ CommitRemove(c) \/ Abort(c)
      PROVE  CompletedAreClear'
  <2>1. /\ work'[c] = Idle
        /\ \A d \in Clients \ {c} : work'[d] = work[d]
        /\ UNCHANGED <<session, late>>
    BY <1>5 DEF CommitAdd, CommitRemove, Written, Abort, BankTypeOK
  <2> QED
    BY <2>1 DEF CompletedAreClear, OpenOn, Idle
<1>6. ASSUME NEW c \in Clients, CommitComplete(c)
      PROVE  CompletedAreClear'
  <2> DEFINE s == work[c].session
  <2>1. s \in Sessions
    BY <1>6, WorkKinds DEF CommitComplete, CompletionWork
  <2>2. /\ \A t \in Sessions \ {s} : session'[t] = session[t]
        /\ late \subseteq late'
        /\ s \notin late' => OpenOn(s) = {}
    BY <1>6, <2>1 DEF CommitComplete, BankTypeOK
  <2>3. /\ work'[c] = Idle
        /\ \A d \in Clients \ {c} : work'[d] = work[d]
    BY <1>6 DEF CommitComplete, BankTypeOK
  <2>4. \A t \in Sessions : OpenOn(t)' \subseteq OpenOn(t)
    BY <2>3 DEF OpenOn, Idle
  <2> QED
    BY <2>2, <2>4 DEF CompletedAreClear
<1> QED
  BY <1>1, <1>2, <1>3, <1>4, <1>5, <1>6
  DEF BankNext, bankVars, CreateManualStatementLine, ImportStatement

\* The matches of a completed session are final, however its calls interleave, unless it was
\* completed over an open one.
THEOREM CompletedSessionStays == BankSpec => CompletedStays
<1>1. BankInit => CompletedAreClear
  BY DEF BankInit, CompletedAreClear
<1>2. BankTypeOK /\ CompletedAreClear /\ [BankNext]_bankVars => CompletedAreClear'
  BY ClearKept
<1>3. BankTypeOK /\ CompletedAreClear /\ [BankNext]_bankVars =>
        [\A s \in Sessions \ late :
           session[s].status = "completed" =>
             {m \in matches' : m.session = s} = {m \in matches : m.session = s}]_bankVars
  <2> SUFFICES ASSUME BankTypeOK, CompletedAreClear, BankNext, NEW s \in Sessions \ late,
                      session[s].status = "completed"
               PROVE  {m \in matches' : m.session = s} = {m \in matches : m.session = s}
    OBVIOUS
  <2>1. ASSUME NEW c \in Clients, CommitAdd(c) \/ CommitRemove(c)
        PROVE  {m \in matches' : m.session = s} = {m \in matches : m.session = s}
    <3>1. work[c].op \in {"add", "remove"}
      BY <2>1 DEF CommitAdd, CommitRemove
    <3>2. work[c].match.session # s
      BY <3>1 DEF CompletedAreClear, OpenOn
    <3> QED
      BY <2>1, <3>2 DEF CommitAdd, CommitRemove
  <2>2. CASE UNCHANGED matches
    BY <2>2
  <2> QED
    BY <2>1, <2>2
    DEF BankNext, CreateManualStatementLine, ImportStatement, CreateSession,
        AddMatch, RemoveMatch,
        CompleteSession, Begin, CommitComplete, Abort
<1> QED
  BY <1>1, <1>2, <1>3, ReconciliationTypeCorrect, PTL DEF BankSpec, CompletedStays

-------------------------------------------------------------------------------
(* What a line is matched for.                                             *)

\* The total of a set of matches, and whether it fills line l.
TotalOf(T) == SumFunction([m \in T |-> m.amount])
Fills(T, l) == T # {} /\ TotalOf(T) >= line[l].amount

\* A match names a line that exists, and there are finitely many.
MatchesSound == IsFiniteSet(matches) /\ \A m \in matches : IsLine(m.line)

\* What an open call has read still says what it is going to do, as long as the matches of
\* its line did not change under a call.
CallSound(c) ==
  work[c].op \in {"add", "remove"} =>
    LET w == work[c]  m == w.match  l == m.line IN
    /\ IsLine(l)
    /\ l \notin raced =>
         /\ w.op = "add" =>
              /\ TotalOf(w.seen) + m.amount <= line[l].amount
              /\ w.flag <=> (TotalOf(w.seen) + m.amount >= line[l].amount /\ ~Fills(w.seen, l))
         /\ w.op = "remove" => m \in w.seen /\ (w.flag <=> Fills(w.seen, l))

\* Every open call is sound.
CallsSound == \A c \in Clients : CallSound(c)

\* The inductive invariant of matching.
MatchingInvariant == MatchesSound /\ CallsSound /\ NeverOverMatched /\ ReconciledAgrees

\* A match names a line and a positive amount.
LEMMA MatchFields ==
  ASSUME NEW m \in Match
  PROVE  m.line \in Lines /\ m.amount \in Int /\ m.amount > 0
<1>1. m.line \in Lines /\ m.amount \in TypedAmounts
  BY DEF Match
<1>2. \A a \in TypedAmounts : a \in Int /\ a > 0
  BY ReconciliationConstants
<1> QED
  BY <1>1, <1>2

\* The total of a set of matches with one more, or one less.
LEMMA TotalChanges ==
  ASSUME NEW T \in SUBSET Match, IsFiniteSet(T), NEW m \in Match
  PROVE  /\ TotalOf(T) \in Int
         /\ m \notin T => TotalOf(T \cup {m}) = TotalOf(T) + m.amount
         /\ m \in T => TotalOf(T \ {m}) = TotalOf(T) - m.amount
<1> DEFINE f == [x \in Match |-> x.amount]
<1>1. \A x \in Match : f[x] = x.amount /\ f[x] \in Int
  BY MatchFields
<1>2. ASSUME NEW S \in SUBSET Match, IsFiniteSet(S)
      PROVE  TotalOf(S) = SumFunctionOnSet(f, S) /\ SumFunctionOnSet(f, S) \in Int
  <2> DEFINE g == [x \in S |-> x.amount]
  <2>1. TotalOf(S) = SumFunctionOnSet(g, S)
    BY DEF TotalOf, SumFunction
  <2>2. \A x \in S : g[x] = f[x]
    BY <1>1
  <2>3. \A x \in S : f[x] \in Int
    BY <1>1
  <2> HIDE DEF f, g
  <2>4. SumFunctionOnSet(g, S) = SumFunctionOnSet(f, S)
    BY <1>2, <2>2, SumSame
  <2>5. SumFunctionOnSet(f, S) \in Int
    BY <1>2, <2>3, SumInt
  <2> QED
    BY <2>1, <2>4, <2>5
<1>3. IsFiniteSet(T \cup {m}) /\ IsFiniteSet(T \ {m})
  BY FS_AddElement, FS_Subset
<1>4. /\ TotalOf(T) = SumFunctionOnSet(f, T) /\ SumFunctionOnSet(f, T) \in Int
      /\ TotalOf(T \cup {m}) = SumFunctionOnSet(f, T \cup {m})
      /\ TotalOf(T \ {m}) = SumFunctionOnSet(f, T \ {m})
      /\ SumFunctionOnSet(f, T \ {m}) \in Int
  BY <1>2, <1>3
<1> HIDE DEF f
<1>5. m \notin T => SumFunctionOnSet(f, T \cup {m}) = SumFunctionOnSet(f, T) + f[m]
  BY <1>1, SumAdd
<1>6. m \in T => SumFunctionOnSet(f, T) = f[m] + SumFunctionOnSet(f, T \ {m})
  BY <1>1, SumRemove
<1> QED
  BY <1>1, <1>4, <1>5, <1>6

\* The matches of a line are a finite set, and what it is matched for is their total.
LEMMA MatchesFinite ==
  ASSUME BankTypeOK, MatchesSound, NEW l \in Lines
  PROVE  /\ MatchesOf(l) \in SUBSET Match /\ IsFiniteSet(MatchesOf(l))
         /\ Matched(l) = TotalOf(MatchesOf(l))
         /\ TotalOf(MatchesOf(l)) \in Int
<1>1. MatchesOf(l) \in SUBSET Match /\ IsFiniteSet(MatchesOf(l))
  <2>1. MatchesOf(l) \subseteq matches /\ matches \subseteq Match
    BY DEF MatchesOf, BankTypeOK
  <2>2. IsFiniteSet(matches)
    BY DEF MatchesSound
  <2> QED
    BY <2>1, <2>2, FS_Subset
<1>2. Matched(l) = TotalOf(MatchesOf(l))
  BY DEF Matched, TotalOf
<1> DEFINE T == MatchesOf(l)
<1>3. T = {} => TotalOf(T) \in Int
  BY SumEmpty DEF TotalOf, SumFunction
<1>4. T # {} => TotalOf(T) \in Int
  <2>1. T \in SUBSET Match /\ IsFiniteSet(T)
    BY <1>1
  <2> HIDE DEF T
  <2> SUFFICES ASSUME NEW m \in T
               PROVE  TotalOf(T) \in Int
    OBVIOUS
  <2>2. m \in Match
    BY <2>1
  <2> QED
    BY <2>1, <2>2, TotalChanges
<1> QED
  BY <1>1, <1>2, <1>3, <1>4

\* What the two properties say of a line whose matches did not change under a call.
LEMMA LineSound ==
  ASSUME BankTypeOK, MatchesSound, NeverOverMatched,
         ReconciledAgrees, NEW l \in Lines \ raced
  PROVE  /\ MatchesOf(l) # {} => TotalOf(MatchesOf(l)) <= line[l].amount
         /\ line[l].reconciled <=> Fills(MatchesOf(l), l)
BY MatchesFinite DEF NeverOverMatched, ReconciledAgrees, Fills

\* A step that leaves matches alone, and the rows of the lines that exist.
LEMMA LinesStay ==
  ASSUME BankTypeOK, MatchingInvariant, UNCHANGED <<matches, raced>>,
         \A l \in Lines : line'[l] = line[l] \/ (~IsLine(l) /\ ~line'[l].reconciled)
  PROVE  MatchesSound' /\ NeverOverMatched' /\ ReconciledAgrees'
<1>1. MatchesSound'
  BY DEF MatchingInvariant, MatchesSound, IsLine, BankTypeOK, Match
<1>2. \A l \in Lines : ~IsLine(l) => MatchesOf(l) = {}
  BY DEF MatchingInvariant, MatchesSound, MatchesOf
<1>3. \A l \in Lines : MatchesOf(l)' = MatchesOf(l) /\ Matched(l)' = Matched(l)
  BY DEF MatchesOf, Matched
<1>4. NeverOverMatched' /\ ReconciledAgrees'
  BY <1>2, <1>3 DEF MatchingInvariant, NeverOverMatched, ReconciledAgrees
<1> QED
  BY <1>1, <1>4

\* The other clients' open calls, when no row of an existing line changes its amount.
LEMMA CallsStay ==
  ASSUME BankTypeOK, MatchingInvariant, raced \subseteq raced',
         \A l \in Lines : IsLine(l) => IsLine(l)' /\ line'[l].amount = line[l].amount,
         NEW c \in Clients, work'[c] = work[c]
  PROVE  CallSound(c)'
<1> SUFFICES ASSUME work'[c].op \in {"add", "remove"}
             PROVE  CallSound(c)'
  BY DEF CallSound
<1> DEFINE l == work[c].match.line
<1>1. work[c] \in MatchWork
  BY WorkKinds
<1>2. l \in Lines
  BY <1>1 DEF MatchWork, Match
<1>3. IsLine(l) /\ IsLine(l)' /\ line'[l].amount = line[l].amount
  BY <1>1, <1>2 DEF MatchingInvariant, CallsSound, CallSound
<1>4. \A T : Fills(T, l)' <=> Fills(T, l)
  BY <1>3 DEF Fills, TotalOf
<1>5. l \notin raced' => l \notin raced
  OBVIOUS
<1> QED
  BY <1>3, <1>4, <1>5 DEF MatchingInvariant, CallsSound, CallSound, TotalOf

\* A step that leaves the lines and the matches alone.
LEMMA LinesUnmoved ==
  ASSUME MatchingInvariant, UNCHANGED <<line, matches, raced>>
  PROVE  MatchesSound' /\ NeverOverMatched' /\ ReconciledAgrees'
BY DEF MatchingInvariant, MatchesSound, NeverOverMatched, ReconciledAgrees,
       IsLine, MatchesOf,
       Matched

\* A client that opens a match call or ends one leaves the calls of the others as they were.
LEMMA CallsFollow ==
  ASSUME BankTypeOK, MatchingInvariant, raced \subseteq raced',
         \A l \in Lines : IsLine(l) => IsLine(l)' /\ line'[l].amount = line[l].amount,
         NEW c \in Clients, \A d \in Clients \ {c} : work'[d] = work[d],
         CallSound(c)'
  PROVE  CallsSound'
<1> SUFFICES ASSUME NEW d \in Clients
             PROVE  CallSound(d)'
  BY DEF CallsSound
<1>1. CASE d = c
  BY <1>1
<1>2. CASE d # c
  <2>1. work'[d] = work[d]
    BY <1>2
  <2> QED
    BY <2>1, CallsStay
<1> QED
  BY <1>1, <1>2

\* A match that is added checks the line against the matches it read.
LEMMA AddMatchSound ==
  ASSUME BankTypeOK, MatchingInvariant, NEW c \in Clients,
         NEW m \in Match, AddMatch(c, m)
  PROVE  MatchingInvariant'
<1> DEFINE l == m.line  seen == MatchesOf(l)
<1>1. l \in Lines /\ m.amount \in Int /\ line[l].amount \in Int
  BY MatchFields DEF BankTypeOK
<1>2. /\ Matched(l) = TotalOf(seen) /\ TotalOf(seen) \in Int
  BY <1>1, MatchesFinite DEF MatchingInvariant
<1>3. l \notin raced => (line[l].reconciled <=> Fills(seen, l))
  BY <1>1, LineSound DEF MatchingInvariant
<1>4. UNCHANGED <<line, session, matches, raced, late>>
  BY DEF AddMatch, Begin
<1>5. \A d \in Clients \ {c} : work'[d] = work[d]
  BY DEF AddMatch, Begin, BankTypeOK
<1>6. CallSound(c)'
  <2> DEFINE rest == line[l].amount - TotalOf(seen)
             w == work'[c]
  <2>1. IsLine(l) /\ m.amount <= rest
    BY <1>2 DEF AddMatch, Remaining
  <2>2. \E b \in BOOLEAN : /\ b <=> (m.amount >= rest /\ ~line[l].reconciled)
                           /\ w = [op |-> "add", match |-> m, seen |-> seen, flag |-> b]
    BY <1>2 DEF AddMatch, Remaining, Begin, BankTypeOK
  <2>3. /\ w.op = "add" /\ w.match = m /\ w.seen = seen
        /\ w.flag <=> (m.amount >= rest /\ ~line[l].reconciled)
    BY <2>2
  <2>4. TotalOf(seen) + m.amount <= line[l].amount
    BY <1>1, <1>2, <2>1
  <2>5. m.amount >= rest <=> TotalOf(seen) + m.amount >= line[l].amount
    BY <1>1, <1>2
  <2>6. l \notin raced =>
          (w.flag <=> (TotalOf(seen) + m.amount >= line[l].amount /\ ~Fills(seen, l)))
    BY <1>3, <2>3, <2>5
  <2> HIDE DEF seen, rest, w
  <2> QED
    BY <1>4, <2>1, <2>3, <2>4, <2>6 DEF CallSound, IsLine, Fills, TotalOf, w
<1>7. CallsSound'
  BY <1>4, <1>5, <1>6, CallsFollow DEF IsLine
<1>8. MatchesSound' /\ NeverOverMatched' /\ ReconciledAgrees'
  BY <1>4, LinesUnmoved
<1> QED
  BY <1>7, <1>8 DEF MatchingInvariant

\* A match that is taken off has read itself, and whether the line was reconciled.
LEMMA RemoveMatchSound ==
  ASSUME BankTypeOK, MatchingInvariant, NEW c \in Clients,
         NEW m \in Match, RemoveMatch(c, m)
  PROVE  MatchingInvariant'
<1> DEFINE l == m.line  seen == MatchesOf(l)
<1>1. l \in Lines /\ IsLine(l) /\ m \in seen
  BY MatchFields DEF RemoveMatch, MatchesOf, MatchingInvariant, MatchesSound
<1>2. l \notin raced => (line[l].reconciled <=> Fills(seen, l))
  BY <1>1, LineSound DEF MatchingInvariant
<1>3. UNCHANGED <<line, session, matches, raced, late>>
  BY DEF RemoveMatch, Begin
<1>4. \A d \in Clients \ {c} : work'[d] = work[d]
  BY DEF RemoveMatch, Begin, BankTypeOK
<1>5. CallSound(c)'
  <2> DEFINE w == work'[c]
  <2>1. w.op = "remove" /\ w.match = m /\ w.seen = seen /\ w.flag = line[l].reconciled
    BY DEF RemoveMatch, Begin, BankTypeOK
  <2> HIDE DEF seen, w
  <2> QED
    BY <1>1, <1>2, <1>3, <2>1 DEF CallSound, IsLine, Fills, TotalOf, w
<1>6. CallsSound'
  BY <1>3, <1>4, <1>5, CallsFollow DEF IsLine
<1>7. MatchesSound' /\ NeverOverMatched' /\ ReconciledAgrees'
  BY <1>3, LinesUnmoved
<1> QED
  BY <1>6, <1>7 DEF MatchingInvariant

\* The commit of a match call touches one line. If that line's matches changed since they were
\* read it joins the raced ones, and the other lines keep both properties.
LEMMA WrittenSound ==
  ASSUME BankTypeOK, MatchingInvariant, NEW c \in Clients,
         work[c] \in MatchWork, Written(c),
         NEW m, m = work[c].match, NEW l, l = m.line,
         IsFiniteSet(matches'), matches' \subseteq matches \cup {m},
         \A x \in matches : x # m => x \in matches',
         l \notin raced' =>
           /\ MatchesOf(l)' # {} => Matched(l)' <= line[l].amount
           /\ line'[l].reconciled <=>
                MatchesOf(l)' # {} /\ Matched(l)' >= line[l].amount
  PROVE  MatchingInvariant'
<1>1. m \in Match /\ l \in Lines
  BY MatchFields DEF MatchWork
<1>2. /\ IsLine(l)
      /\ work[c].op \in {"add", "remove"}
  BY DEF MatchWork, MatchingInvariant, CallsSound, CallSound
<1>3. /\ \A k \in Lines \ {l} : line'[k] = line[k]
      /\ line'[l].account = line[l].account /\ line'[l].amount = line[l].amount
  BY <1>1 DEF Written, BankTypeOK
<1>4. \A k \in Lines : (IsLine(k)' <=> IsLine(k)) /\ line'[k].amount = line[k].amount
  BY <1>3 DEF IsLine
<1>5. raced \subseteq raced' /\ \A k \in Lines \ {l} : k \notin raced' => k \notin raced
  BY DEF Written
<1>6. \A k \in Lines \ {l} : MatchesOf(k)' = MatchesOf(k)
  BY DEF MatchesOf
<1>7. MatchesSound'
  <2>1. \A x \in matches' : x.line \in Lines /\ IsLine(x.line)
    BY <1>1, <1>2, MatchFields DEF MatchingInvariant, MatchesSound, BankTypeOK
  <2> QED
    BY <2>1, <1>4 DEF MatchesSound
<1>8. CallsSound'
  <2>1. work'[c] = Idle /\ \A d \in Clients \ {c} : work'[d] = work[d]
    BY DEF Written, BankTypeOK
  <2>2. CallSound(c)'
    BY <2>1 DEF CallSound, Idle
  <2> QED
    BY <1>4, <1>5, <2>1, <2>2, CallsFollow
<1>9. ASSUME NEW k \in Lines \ {l}, k \notin raced'
      PROVE  /\ MatchesOf(k)' # {} => Matched(k)' <= line'[k].amount
             /\ line'[k].reconciled <=>
                  MatchesOf(k)' # {} /\ Matched(k)' >= line'[k].amount
  <2>1. /\ MatchesOf(k)' = MatchesOf(k)
        /\ Matched(k)' = Matched(k)
        /\ line'[k] = line[k]
    BY <1>3, <1>6 DEF Matched
  <2>2. k \notin raced
    BY <1>5, <1>9
  <2> QED
    BY <2>1, <2>2 DEF MatchingInvariant, NeverOverMatched, ReconciledAgrees
<1>10. NeverOverMatched' /\ ReconciledAgrees'
  BY <1>3, <1>9 DEF NeverOverMatched, ReconciledAgrees
<1> QED
  BY <1>7, <1>8, <1>10 DEF MatchingInvariant

\* A match that is committed while its line's matches are those it read fits what was left.
LEMMA CommitAddSound ==
  ASSUME BankTypeOK, MatchingInvariant, NEW c \in Clients, CommitAdd(c)
  PROVE  MatchingInvariant'
<1> DEFINE w == work[c]  seen == w.seen
<1>0. PICK m, l : m = w.match /\ l = m.line
  OBVIOUS
<1>1. w \in MatchWork /\ w.op = "add" /\ matches' = matches \cup {m} /\ Written(c)
  BY <1>0, WorkKinds DEF CommitAdd
<1>2. m \in Match /\ l \in Lines /\ m.amount \in Int /\ m.amount > 0
  BY <1>0, <1>1, MatchFields DEF MatchWork
<1>3. line[l].amount \in Int
  BY <1>2 DEF BankTypeOK
<1>4. IsFiniteSet(matches')
  BY <1>1, FS_AddElement DEF MatchingInvariant, MatchesSound
<1>5. m \notin matches
  BY <1>0 DEF CommitAdd, SlotFree
<1>6. MatchesOf(l)' = MatchesOf(l) \cup {m} /\ m \notin MatchesOf(l)
  BY <1>0, <1>1, <1>5 DEF MatchesOf
<1>7. ASSUME l \notin raced'
      PROVE  /\ MatchesOf(l)' # {} => Matched(l)' <= line[l].amount
             /\ line'[l].reconciled <=>
                  MatchesOf(l)' # {} /\ Matched(l)' >= line[l].amount
  <2>1. MatchesOf(l) = seen /\ l \notin raced
    BY <1>0, <1>1, <1>7 DEF Written
  <2>2. /\ TotalOf(seen) \in Int /\ IsFiniteSet(seen) /\ seen \in SUBSET Match
        /\ line[l].reconciled <=> Fills(seen, l)
    BY <1>2, <2>1, MatchesFinite, LineSound DEF MatchingInvariant
  <2>3. /\ TotalOf(seen) + m.amount <= line[l].amount
        /\ w.flag <=> (TotalOf(seen) + m.amount >= line[l].amount /\ ~Fills(seen, l))
    BY <1>0, <1>1, <2>1 DEF MatchingInvariant, CallsSound, CallSound
  <2>4. Matched(l)' = TotalOf(seen) + m.amount
    <3>1. Matched(l)' = TotalOf(seen \cup {m})
      BY <1>6, <2>1 DEF Matched, TotalOf
    <3>2. m \in Match /\ m \notin seen
      BY <1>2, <1>6, <2>1
    <3> HIDE DEF seen
    <3> QED
      BY <2>2, <3>1, <3>2, TotalChanges
  <2>5. ~Fills(seen, l)
    BY <1>2, <1>3, <2>2, <2>3 DEF Fills
  <2>6. line'[l].reconciled <=> w.flag
    BY <1>0, <1>1, <1>2, <2>2, <2>5 DEF Written, BankTypeOK
  <2>7. m \in MatchesOf(l)'
    BY <1>6
  <2> QED
    BY <2>3, <2>4, <2>5, <2>6, <2>7
<1> QED
  BY <1>0, <1>1, <1>4, <1>7, WrittenSound

\* A match that is taken off while its line's matches are those it read leaves something of the
\* line open again.
LEMMA CommitRemoveSound ==
  ASSUME BankTypeOK, MatchingInvariant, NEW c \in Clients, CommitRemove(c)
  PROVE  MatchingInvariant'
<1> DEFINE w == work[c]  seen == w.seen
<1>0. PICK m, l : m = w.match /\ l = m.line
  OBVIOUS
<1>1. w \in MatchWork /\ w.op = "remove" /\ matches' = matches \ {m} /\ Written(c)
  BY <1>0, WorkKinds DEF CommitRemove
<1>2. m \in Match /\ l \in Lines /\ m.amount \in Int /\ m.amount > 0
  BY <1>0, <1>1, MatchFields DEF MatchWork
<1>3. line[l].amount \in Int
  BY <1>2 DEF BankTypeOK
<1>4. IsFiniteSet(matches')
  BY <1>1, FS_Subset DEF MatchingInvariant, MatchesSound
<1>5. MatchesOf(l)' = MatchesOf(l) \ {m}
  BY <1>1 DEF MatchesOf
<1>6. ASSUME l \notin raced'
      PROVE  /\ MatchesOf(l)' # {} => Matched(l)' <= line[l].amount
             /\ line'[l].reconciled <=>
                  MatchesOf(l)' # {} /\ Matched(l)' >= line[l].amount
  <2>1. MatchesOf(l) = seen /\ l \notin raced
    BY <1>0, <1>1, <1>6 DEF Written
  <2>2. m \in seen /\ (w.flag <=> Fills(seen, l))
    BY <1>0, <1>1, <2>1 DEF MatchingInvariant, CallsSound, CallSound
  <2>3. /\ TotalOf(seen) \in Int /\ IsFiniteSet(seen) /\ seen \in SUBSET Match
        /\ TotalOf(seen) <= line[l].amount
        /\ line[l].reconciled <=> Fills(seen, l)
    BY <1>2, <2>1, <2>2, MatchesFinite, LineSound DEF MatchingInvariant
  <2>4. Matched(l)' = TotalOf(seen) - m.amount
    <3>1. Matched(l)' = TotalOf(seen \ {m})
      BY <1>5, <2>1 DEF Matched, TotalOf
    <3>2. m \in Match /\ m \in seen
      BY <1>2, <2>2
    <3> HIDE DEF seen
    <3> QED
      BY <2>3, <3>1, <3>2, TotalChanges
  <2>5. ~line'[l].reconciled
    BY <1>0, <1>1, <1>2, <2>2, <2>3 DEF Written, BankTypeOK
  <2> QED
    BY <1>2, <1>3, <2>3, <2>4, <2>5
<1> QED
  BY <1>0, <1>1, <1>4, <1>6, WrittenSound

\* Opening a session, completing one and giving up a call change no line and no match.
LEMMA SessionSound ==
  ASSUME BankTypeOK, MatchingInvariant, UNCHANGED <<line, matches, raced>>,
         \A c \in Clients : work'[c].op \in {"add", "remove"} => work'[c] = work[c]
  PROVE  MatchingInvariant'
<1>1. ASSUME NEW c \in Clients
      PROVE  CallSound(c)'
  <2>1. CASE work'[c] = work[c]
    BY <2>1, CallsStay DEF IsLine
  <2>2. CASE work'[c].op \notin {"add", "remove"}
    BY <2>2 DEF CallSound
  <2> QED
    BY <2>1, <2>2
<1> QED
  BY <1>1, LinesUnmoved DEF MatchingInvariant, CallsSound

\* New lines, typed or imported, have no matches.
LEMMA NewLinesSound ==
  ASSUME BankTypeOK, MatchingInvariant, UNCHANGED <<matches, raced, work>>,
         \A l \in Lines : line'[l] = line[l] \/ (~IsLine(l) /\ ~line'[l].reconciled)
  PROVE  MatchingInvariant'
<1>1. \A l \in Lines : IsLine(l) => IsLine(l)' /\ line'[l].amount = line[l].amount
  BY DEF IsLine
<1>2. CallsSound'
  BY <1>1, CallsStay DEF CallsSound
<1> QED
  BY <1>2, LinesStay DEF MatchingInvariant

\* Every step keeps what open calls have read in agreement with what they will write.
LEMMA MatchingKept ==
  ASSUME BankTypeOK, MatchingInvariant, [BankNext]_bankVars
  PROVE  MatchingInvariant'
<1>1. CASE UNCHANGED bankVars
  BY <1>1, SessionSound DEF bankVars
<1>2. ASSUME NEW a \in BankAccounts, NEW l \in Lines, NEW amount \in TypedAmounts,
             CreateManualStatementLine(l, a, amount)
      PROVE  MatchingInvariant'
  BY <1>2, NewLinesSound DEF CreateManualStatementLine, NewLine, BankTypeOK
<1>3. ASSUME NEW a \in BankAccounts, NEW new \in SUBSET Lines, NEW amount \in [new -> CsvAmounts],
             ImportStatement(new, a, amount)
      PROVE  MatchingInvariant'
  <2>1. \A l \in Lines : line'[l] = line[l] \/ (~IsLine(l) /\ ~line'[l].reconciled)
    BY <1>3 DEF ImportStatement, NewLine
  <2> QED
    BY <1>3, <2>1, NewLinesSound DEF ImportStatement
<1>4. ASSUME NEW a \in BankAccounts, NEW s \in Sessions, CreateSession(s, a)
      PROVE  MatchingInvariant'
  BY <1>4, SessionSound DEF CreateSession
<1>5. ASSUME NEW c \in Clients, NEW m \in Match, AddMatch(c, m) \/ RemoveMatch(c, m)
      PROVE  MatchingInvariant'
  BY <1>5, AddMatchSound, RemoveMatchSound
<1>6. ASSUME NEW c \in Clients, NEW s \in Sessions, CompleteSession(c, s)
      PROVE  MatchingInvariant'
  BY <1>6, SessionSound DEF CompleteSession, Begin, BankTypeOK
<1>7. ASSUME NEW c \in Clients, CommitComplete(c) \/ Abort(c)
      PROVE  MatchingInvariant'
  BY <1>7, SessionSound DEF CommitComplete, Abort, Idle, BankTypeOK
<1> QED
  BY <1>1, <1>2, <1>3, <1>4, <1>5, <1>6, <1>7, CommitAddSound, CommitRemoveSound DEF BankNext

\* Initially nothing is matched.
LEMMA MatchingInit ==
  ASSUME BankInit
  PROVE  MatchingInvariant
<1>1. \A l \in Lines : MatchesOf(l) = {}
  BY DEF BankInit, MatchesOf
<1>2. MatchesSound /\ CallsSound
  BY FS_EmptySet DEF BankInit, MatchesSound, CallsSound, CallSound, Idle
<1>3. NeverOverMatched /\ ReconciledAgrees
  BY <1>1 DEF BankInit, NeverOverMatched, ReconciledAgrees
<1> QED
  BY <1>2, <1>3 DEF MatchingInvariant

\* No line is matched for more than its amount, over all sessions, unless a call committed over
\* matches it had not read.
THEOREM LinesNeverOverMatched == BankSpec => []NeverOverMatched
<1>1. BankInit => MatchingInvariant
  BY MatchingInit
<1>2. BankTypeOK /\ MatchingInvariant /\ [BankNext]_bankVars => MatchingInvariant'
  BY MatchingKept
<1>3. MatchingInvariant => NeverOverMatched
  BY DEF MatchingInvariant
<1> QED
  BY <1>1, <1>2, <1>3, ReconciliationTypeCorrect, PTL DEF BankSpec

\* A line is flagged reconciled exactly when its matches fill it, with the same reservation.
THEOREM ReconciledFlagAgrees == BankSpec => []ReconciledAgrees
<1>1. BankInit => MatchingInvariant
  BY MatchingInit
<1>2. BankTypeOK /\ MatchingInvariant /\ [BankNext]_bankVars => MatchingInvariant'
  BY MatchingKept
<1>3. MatchingInvariant => ReconciledAgrees
  BY DEF MatchingInvariant
<1> QED
  BY <1>1, <1>2, <1>3, ReconciliationTypeCorrect, PTL DEF BankSpec
================================================================================
