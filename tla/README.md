# Verification of Seeker Accounting

TLA+ models of the accounting core of Seeker Accounting (a desktop application: Python, PySide6,
SQLAlchemy over SQLite), the TLC runs that check them and theorems that TLAPS proves about them.
Paths below are under `src/seeker_accounting/` unless they name a document.

Contents: 1 the system · 2 what is modelled · 3 the runs · 4 the proofs · 5 what the runs found ·
6 what is not modelled · 7 plan · 8 running it

## 1. The system

A company's books. Every service method opens a unit of work (`db/unit_of_work.py`), reads, checks,
writes, and commits once; the user interface calls the services and holds no rule of its own. Modules
share state through the database only: documents (invoices, receipts, stock documents, payroll runs)
keep their own tables and, when they are posted, add an entry to the journal.

| Component | State | Operations | What makes it correct |
|---|---|---|---|
| Journal (`modules/accounting/journals`) | entries and lines, status DRAFT or POSTED, number, source of a reversal | create, edit, delete a draft; post; reverse (posted at once or left in draft) | a posted entry is balanced, numbered once, in a period that was open, and never changes; a reversal is the mirror of what it names |
| Fiscal calendar (`modules/accounting/fiscal_periods`) | years (DRAFT, OPEN, CLOSED), periods (OPEN, CLOSED, LOCKED) | create and close a year, generate its periods, close, reopen, lock a period | a year's periods appear once; locked is final; a year closes last |
| Numbering (`platform/numbering`) | next number per document type | issue; edit and deactivate (`numbering_setup_service.py`) | no number is given twice |
| Sales invoices, receipts, credit notes (`modules/sales`) | documents with status and payment status, allocations, certificates | create, edit, cancel, post | statuses follow the posted receipts, nothing is settled twice, the control account is what the customer owes |
| Receivables reports (`modules/reporting`) | none, read only | aging, control account reconciliation | the report agrees with the control account |
| Inventory (`modules/inventory`) | documents, cost layers, stock ledger and balance, cost method of an item | create, edit, submit, cancel, post, reverse; change of method | layers, ledger and documents count the same stock; values agree with the journal |
| Payables (`modules/purchases`) | orders, bills, supplier payments, credit notes | create, edit, send, acknowledge, cancel, convert an order; create, edit, cancel, post the others | an order is billed once and traced; input tax on the account is what a return deducts; the control account is what is owed |
| Payroll (`modules/payroll`) | runs, employee results, payments, remittances | calculate (in a background thread), approve, post, void, pay, remit | a run is posted once, from results that are current |
| Taxation (`modules/taxation`) | obligations, tax facts, returns, settlements, payments, VAT lock | prepare, review, file, submit, amend, settle, pay, lock and unlock | a filed return stays, its period accepts no new fact, a fact is declared once, paid means paid |
| Treasury (`modules/treasury`) | financial accounts, transactions, transfers | edit an account; create, edit, cancel, post | the movement report and the ledger agree, transfers only move cash |
| Bank reconciliation (`modules/treasury`) | statement lines, sessions, matches | import, match, unmatch, complete | a line is matched once and in full, a completed session stays |
| Fixed assets (`modules/fixed_assets`) | assets, depreciation runs, schedules | create, edit, run, post, dispose | the base is spent, once; a disposal clears what was posted |
| Deferrals (`modules/accounting/deferrals`) | schedules | release | a schedule is released once and in full |
| Contracts, projects, job costing, budgets | contracts, commitments, budgets | bill, commit, approve | budget control against commitments |
| Administration, audit, licensing, wizards | users, permissions, sessions, saved wizard state | log in, lock out, merge a backup, resume | |
| User interface, resources, migrations | | | |

How the parts interact:

- Every posting service issues a number from the shared sequence and adds a POSTED entry in its own
  unit of work; the journal services see those entries as posted.
- A posting reads the period of its date. Period control does not look at postings.
- A receipt posts against invoices it names; the invoice services do not look at receipts.
- A stock posting writes four things in one commit: document, layers, stock ledger with its balance,
  journal entry.

What is hard here:

- **Overlap.** SQLAlchemy renders no `FOR UPDATE` on SQLite, sessions do not autoflush, and pysqlite
  runs a SELECT outside any transaction. A call therefore decides on values that another process on
  the same file can change before the call's first write takes the lock. Nothing prevents a second
  process (there is no single-instance lock); inside one process writes come from the user interface
  thread, the payroll calculation and a backup import.
- **Long sequences of legal calls**: drafts that grow stale while periods close or other drafts post;
  reversals of documents that were consumed, or edited in between; a cost method that changes.
- **Partial effects inside a call**: header written and lines not, status set and not yet flushed.
- **Money**: three valuations of one stock, rounded separately.

- **Calls that run in several transactions**: the conversion of a purchase order commits a bill before
  the order knows of it.

There are no messages and no background job that promises to get anything done: a service call happens
when a user asks for it, may be refused, and may never be asked for again. The state machines of the
documents therefore assume **no fairness** and state no liveness, and `CHECK_DEADLOCK` is off (when
every document is final, nothing is left to call). What the program does finish by itself is a bounded
`for` over the months of a schedule, which needs no proof.

## 2. What is modelled

| Module | Models |
|---|---|
| `GeneralLedger` | what the ledger promises its readers: a book of balanced, numbered postings that only grows, and a gate per period |
| `Ledger` | the journal, fiscal calendar and numbering services over the database; implements `GeneralLedger` |
| `Receivables` | invoices, receipts, credit notes of one customer and the control account |
| `Payables` | orders, bills, payments, credit notes of one supplier, the recoverability of tax codes, the tax facts and the control account |
| `Stock` | inventory documents, cost layers, stock ledger, inventory account of one item at one location |
| `TaxFiling` | VAT from the posted document to the payment, and the taxes that are assessed |
| `Treasury` | financial accounts, receipts and payments, transfers, the movement report against the ledger |
| `BankReconciliation` | statement lines, sessions and matches |
| `DepreciationSchedule` | the engines of the depreciation methods, month by month |
| `Assets` | assets, depreciation runs, disposals |
| `MC...` | instances for TLC: `MCLedger`, `MCReceivables`, `MCPayables`, `MCStock`, `MCTax`, `MCTreasury`, `MCBank`, `MCSchedule`, `MCAssets` |
| `...Proofs` | theorems: `LedgerProofs`, `ReceivablesProofs`, `PayablesProofs`, `StockProofs`, `TaxProofs`, `TreasuryProofs` (of `Treasury` and `BankReconciliation`), `AssetProofs` (of `Assets` and `DepreciationSchedule`), and `SumTheorems`, the facts about sums they share |

Where several postings of one module meet another module, each side carries what it needs of the other:
documents put their entry on named accounts (`journal`, `gl`, `ledger`), a posting under a filed period
is refused in `TaxFiling`, the tax facts of a bill are in `Payables`. There is no composition of two
document modules: they share only the journal and the gates, and `GeneralLedger` states what the
journal promises all of them.

### Ledger

State: `entry` (a row per primary key), `period`, `year`, `next` and `active` (the JOURNAL_ENTRY
sequence), and `work[s]`, the unit of work each session has open. A call is two steps. The action
named after the method (`PostJournal`, `ReverseJournal`, `GeneratePeriods`, ...) makes the method's
checks on the tables as they are and remembers its writes in `work[s]`. The matching `Commit` action
applies the writes to whatever the tables hold by then, and is enabled only when the constraints of
the tables accept them (`NumberFree`, `PeriodNumbersFree`). `Abort` is a constraint that refuses, a
check that fails late or a process that dies. An UPDATE writes the columns whose value differs from
the one loaded (`Dirty`, `Merge`), which is what SQLAlchemy sends. Two history variables name the calls
that overlap: `overtaken` holds the sessions of which another commit changed, meanwhile, an entry or a
period the call relies on and no constraint guards (`EntriesRead`, `PeriodsRead`), `outrun` those that
issue a number while another commit moved the sequence. No action reads them. Lines are a payload: what matters
is whether they balance and what their mirror is. A date is known by the period that covers it.

Entries posted by other modules enter the same table already POSTED; they are in the model as their
documents' entries (`Receivables`, `Stock`). `reverse_journal` does not ask whether an entry belongs
to a document; the consequence for the document is not modelled yet.

### Receivables

State: `invoice`, `receipt`, `alloc`, `note`, `journal` (what each document's entry puts on the
receivables control account and on the contra side), `certificates`. One step per call: overlap of
calls is the subject of `Ledger` and `Stock`. Guards that look at things outside the module (a period,
a mapping, a permission) only refuse; nothing checked relies on a refusal. `paidBy` stands for the
payment date that posting a receipt writes into the tax lines of an invoice.

### Stock

State: `item` (method, standard cost, and the history `fifo`: it never had another method), `doc`,
`layers` in the order of their keys, `entries` (the
sums of the stock ledger), `balance`, `gl`, `work`. Posting is a read step and a commit step, since
all it reads comes before its first flush. A reversal flushes its new document first, so only the
status of the document is read early; layers and balance are read in the commit step. Document types
are known by the direction of their movement (`_DOC_TYPE_ACTION`); a positive adjustment is a receipt,
a negative one an issue. Which layers an issue takes from is stated as a relation
(`TakesOldestFirst`), not as a loop. Quantities are integers; money keeps the scales of the columns,
and `Round` is the rounding to even of `rounding_policy.py`. `fefo` without batches is `fifo`.
An edit, a submission or a cancellation of a document does not overlap a posting of that same
document here; `Ledger` shows what that race does to a journal entry.

### Payables

State: `order`, `bill`, `payment`, `alloc`, `note`, `recoverable` (of each tax code), `journal`, `fact`
and `conversion[c]`, how far a client's conversion has come. A call is one step except the conversion:
`ReadOrder`, `BillOrder` and `LinkOrder` are its three transactions, `Abandon` a failure or the end of
the program between two of them. Nothing resumes a conversion; a new one reads the order as it is. The
histories `origin`, `interrupted` and `routed` remember what the tables do not: which order a bill came
from, which conversions died after their bill or overlapped, and the recoverability a document was posted
under. `bill.flag` is the snapshot of the draft (`PurchaseBillLineTax.is_recoverable`).

### TaxFiling

State: `obligation`, `posted` (documents, and so their tax facts), `ret` (returns in the order of their
keys, each with what its lines say), `locked`. A document has a tax point and a date, which may lie in
different periods: the lock is looked up by the tax point, the settlement and the withheld tax by the
date. The late claims of `_compute_vat_form_lines` make `Claimable` the facts of the period and of every
earlier one. `frozen` is the `is_immutable` of a filed return's lines.

### Treasury

State: `account` (mapping and switch of each financial account), `transaction`, `transfer`, `ledger` (the
balance treasury entries leave on each ledger account), and the history `remapped`. The report is computed
from documents, the ledger from lines as they are posted; `ReportAgreesWithLedger` compares the two.

### BankReconciliation

State: `line`, `session`, `matches`, `work[c]`, `raced`, `late`. As in `Ledger`, a call on a session reads
and checks in one step and commits in another; `flag` is the `is_reconciled` that the call's flush writes,
if the value it loaded differs. Histories: `raced` holds the lines whose matches changed between the two
steps of a call, `late` the sessions completed while another call on them was open. What would have the
name of something in `Treasury` carries the prefix `Bank` (`BankSpec`, `BankAccounts`), because
`TreasuryProofs` proves about both modules.

### DepreciationSchedule and Assets

`DepreciationSchedule` is the loop of `preview_schedule`, a month a step: `term` is the command, `month`
the month the loop comes to next, `accumulated`, `nbv` and `charge` the running figures of the schedule,
`onLine` the switch of a declining balance, `payment` the level payment of an annuity or the first deposit
of a sinking fund. Money is an integer number of millionths, so that rounding down to `_PREC` is integer division; `Cut` adds the result one
unit short that a Decimal quotient of 28 digits can leave. The level payment of an annuity is computed in
floating point, and so is the first deposit of a sinking fund; both are rounded to ten decimals, finer
than the unit. `payment` is therefore kept in grains, `Grain` of them to a unit (10000 in the code), and
`Payments` are the amounts within `Drift` grains of the exact one: the rounding, and whatever the floating
point adds. What the deposit of a sinking fund is off grows with it, `(1+r)^(k-1)` in month `k`; a monthly
rate is of the form 1/q. MACRS percentages are whole numbers; those of the catalogue have two or three decimals. What `preview_schedule` refuses is
assumed of no command (`ScheduleConstants`): usages without a unit, a MACRS table without a year. Its
specification is `LoopSpec`, with `LoopInit`, `LoopNext` and `loopVars`, because `AssetProofs` proves about
both modules.

`Assets` keeps `asset` (status and terms), `run` (status and the date its period ends), `line` (by run and asset),
`disposals` in the order they were posted. Dates are ordered and `MonthOf` gives the month of each: what a
run charges depends on months (`MonthsElapsed`), a disposal compares dates (`PostedThrough`). `reworked`
is a history variable: the assets edited after a run had a line for them, or given a final status by an
edit. Of the schedule a run meets, `Scheduled`
keeps what the properties tell apart: the `"exact"` methods give the straight line and its remainder, the
`"accelerated"` ones any charge up to the base, and the `"settings"` ones are refused by the whole run
(`Schedulable`). `Unit` is the tolerance of one millionth below which `post_run` takes a base as spent.

## 3. The runs

Bounds are the CONSTANTS of each cfg. They are small because the properties relate few rows: two
documents of each kind are enough for one to disturb the other, three for one to disturb the relation
of two others, two sessions for a race.

| Run | Instance | Shows |
|---|---|---|
| `ledger_serial` | 1 session, 3 entries, 2 periods of one year, balanced and lopsided lines | `ImplementsBook` (refinement of `GeneralLedger`), `ReversalMirrorsSource`, `SequenceAhead`. Three entries are a posting, its reversal and one more; three numbers let the sequence run out |
| `ledger_concurrent` | 2 sessions, 2 entries, any edit of the sequence | `OnlyOvertakenBreakBook`, `SequenceFallsBehind`, `YearClosesLast`: every pair of calls overlaps, two generate or create the same year, two issue the same number, and an administrator moves the sequence to any value. Two sessions are a call and the one that overtakes it |
| `receivables_books` | 2 invoices, 2 receipts, 1 credit note, amounts to 2 | `AllocationsNamePosted`, `PaymentStatusAgrees`, `ControlAgrees`, `EntriesBalance`. Two is the least amount that can be paid in part |
| `receivables_over_allocation` | as small as the trace allows | a violation, section 5 |
| `payables_books` | 1 order, 2 bills, 1 payment, 1 credit note, 1 tax code, 2 clients converting | `BilledTwiceWhenInterrupted`, `ConversionTraced`, `InputTaxAgrees`, `EntriesBalance`, `ControlAgrees`. `MaxDocuments = 2` of bills, payments and notes at a time: two bills are the double conversion, a bill and a payment the settlement. The rate is 100 % so that no tax is lost in rounding |
| `stock_books` | 1 session, 3 documents, quantity to 2, 2 costs, 2 dates, 3 methods | `BalanceMatchesEntries`, `LayersHoldStock`, `FifoBooksAtLayerCost` (until the method is edited), `LayersOnlyShrink`, `TypeOK`. FIFO may leave the account off by a cent for each receipt and each unit issued: an issue rounds what it takes from a layer, and one that comes back is valued at a rounded cost per unit, so the error of a document grows with its quantity. Costs of 1.5 and 9.5 cents make averages that do not divide (three units of two receipts) and amounts that round |
| `tax_books` | 2 periods, 1 assessment, a sale with withheld tax and a purchase dated a period after its tax point | `FiledStays`, `OneFiledPerPeriod`, `FactsStayFiled`, `PaidAgrees`, `SettlementOutByWithheld`, `TypeOK`. `MaxReturns = 2` is a return and its amendment or two periods; `MaxPaid = 2` a part and the rest; one of the two periods may be unlocked (`Unlockable`), so that both cases occur |
| `tax_declared_once` | the same | a violation, section 5 |
| `treasury_books` | 2 financial accounts, 2 cash ledger accounts, 2 transactions, 1 transfer | `ReportAgreesWithLedger`, `CashIsReceiptsLessPayments`, `TypeOK`. The lines are two on another account, or one that names a cash account directly |
| `bank_books` | 2 clients, 2 sessions, 1 line, 2 documents | `NeverOverMatched`, `ReconciledAgrees`, `CompletedStays`. Amounts of a file include zero and a negative one |
| `schedule_loop` | every engine on 4 costs, 2 salvage values, 4 lives, factors, rates and usages | `NeverBeyondBase`, `SpendsBase`, `ChargesKeepDirection`. `MonthsPerYear = 3` keeps a MACRS year short; the remainder of a year is what matters. The bases and the rates reach both sides of `TooSmall` (at 1/2 over 9 months a base of 500 is large enough and one of 10 is not, for both engines), `Grain = 2` and `Drift = 1` let a payment be off by half a unit either way, and a MACRS table that adds up to 110 % is `Overrated` |
| `assets_books` | 1 asset, 3 runs, 4 dates in 3 months, 4 sets of terms | `FullyDepreciatedIsSpent`, `ExcessNeedsOverlap`, `WholeLifeSpends`, `DisposalClears`, `TypeOK`. Three runs are a life of three months, or one month charged by two drafts; two dates of the first month put a disposal before or on the run of its month |

Some properties are left to their theorem and are in no run: the `TypeOK` of `Ledger`, `Receivables` and
`Payables`, the `BankTypeOK` of `BankReconciliation`, `GeneratedOnce` of `Ledger`,
`LinkStays` of `Payables`. The type invariants of `Stock`, `TaxFiling`, `Treasury` and `Assets` say
something about amounts that are computed, and are both checked and proved. `DepreciationSchedule` has
no type invariant of its own, `NeverBeyondBase` bounds what its loop computes; the proofs use `LoopType`.

Each property of a passing run has a mutant in `PROJECT.json`: a plausible bug in a named definition
(a dropped guard, a total taken too early, a constraint that covers too little) under which TLC
violates that property.

Why these properties: `ImplementsBook` collects what readers of the ledger rely on.
`OnlyOvertakenBreakBook` says which overlap breaks it and that no other does: generations of one year and
numbers issued twice meet a constraint, all else is safe while the entry and the period it read stand. `ReversalMirrorsSource` must survive edits, deletions and postings of a reversal left in draft,
which the code achieves by losing the link when the draft is edited. `PaymentStatusAgrees` depends on
the order in which a posting sets its own status and sums the posted receipts. `ControlAgrees` relates
three posting services. `LayersHoldStock` relates two independent writers and the documents.

Some properties carry a reservation, and it is the point of them: it says exactly under what
circumstances the code keeps its promise. `BilledTwiceWhenInterrupted` (an order has two bills only if
a conversion died after its bill or two overlapped), `NeverOverMatched` and `ReconciledAgrees` (no
change between the check and the commit of a call), `CompletedStays` (no call open at completion),
`InputTaxAgrees` (the tax code was set and not edited since the draft), `SettlementOutByWithheld` (a
settlement balances exactly when nothing was withheld), `ExcessNeedsOverlap` (an asset is charged beyond
its base only by drafts that were open together), `DisposalClears` (the asset not edited, its runs drafted one
after the posting of the other in the order of their dates), `OnlyOvertakenBreakBook` and `YearClosesLast`
(the commit was not overtaken), `SequenceFallsBehind` (not outrun, nor set by an administrator), `PaidAgrees` (no new draft over a payment),
`OneFiledPerPeriod` and `FactsStayFiled` (no lock of the period lifted), `ReportAgreesWithLedger` (no
mapping edited), `NeverBeyondBase` and `SpendsBase` (an annuity or a sinking fund whose base is not `TooSmall` for its life and
rate, percentages that are not `Overrated`). Each reservation is a situation TLC reaches, and section 5 tells what then happens.

## 4. The proofs

TLC checks the instances above; the theorems hold for every value of the constants that satisfies the
assumptions:

- keys of different kinds of documents are disjoint, and a name for nothing is no key
  (`LedgerConstants`, `ReceivablesConstants`, `PayablesConstants`, `TaxConstants`,
  `ReconciliationConstants`);
- amounts a user types are positive, as the services check; a mirror is its own inverse and keeps
  balance (`LedgerConstants`); the terms of an asset have a salvage value below the cost and a life of
  at least a month, and months follow dates (`AssetConstants`); so have the commands of a schedule, and usages or percentages where the method
  needs them (`ScheduleConstants`); the lines of a treasury transaction are amounts on ledger
  accounts, at least one (`TreasuryConstants`);
- the document keys of `Receivables` and `Payables`, and the accounts of `Treasury`, are finite sets,
  so that a sum over them is one. In `Stock`, `TaxFiling`, `BankReconciliation` and `Assets`, and for
  the documents of `Treasury`, nothing of the kind is assumed: there the invariant says that what was
  posted, drafted or matched so far is finite;
- a set from which an initial state or an edit is chosen is not empty.

**Sums.** A balance is `SumFunction` or `SumFunctionOnSet` over rows, and the library's induction over a
finite set takes an operator as a parameter, which the provers cannot instantiate. `SumTheorems` does
the induction at first order: the property to be proved is a set `G` of subsets of `S`, and the strict
subset ordering of a finite set is well founded (`StrongInduction`, `FiniteInduction`). From the
recursive definition of the sum it derives what the proofs need and no more: a sum of integers is an
integer (`SumInt`, `SumNat`), is changed by what one row changes (`SumAdd`, `SumRemove`, `SumChange`),
distributes over addition (`SumPlus`, `SumMinus`), keeps an inequality (`SumLeq`), may be split
(`SumDisjoint`) and may be taken in either order (`SumSwap`).

| Theorem | Statement | Argument |
|---|---|---|
| `TypeCorrect` | `Spec => []TypeOK` (Ledger) | inductive as it stands; `WorkShape` reads the fields of a unit of work from its operation |
| `YearGeneratedOnce` | `Spec => GeneratedOnce` | step by step: `CommitGenerate` needs every period of the year absent, `CommitPeriod` changes one |
| `OvertakenAloneBreak` | `Spec => OnlyOvertakenBreakBook`, any number of sessions | `Standing`: what a call decided still holds of the tables, until another commit overtakes it. It holds because every row a decision speaks of is in `EntriesRead` or `PeriodsRead` (`StandsUntilOvertaken`). A commit whose decision holds maps to one step of `GeneralLedger` or to a stutter (`SoundCommitKeepsBook`) |
| `YearClosesOverClosed` | `Spec => YearClosesLast`, any number of sessions | the same invariant |
| `SequenceOnlyOutrun` | `Spec => SequenceFallsBehind`, any number of sessions | `Issuing`: a call that issues a number holds the current `next_number` and writes the one after it, until another commit moves the sequence |
| `SerialImplementsBook` | one session: `Spec => ImplementsBook` | nothing is overtaken then (`OneSessionNeverOverlaps`), so that `Standing` speaks of every call and the book stays sound (`DecisionsStand`) |
| `SerialReversalMirrors` | one session: `Spec => []ReversalMirrorsSource` | strengthened by `MirrorsStand`: a pending write that names a source mirrors it, and sources are posted |
| `SerialSequenceAhead` | one session, no edit of the sequence: `Spec => []SequenceAhead` | from `SequenceOnlyOutrun`: with one session nothing is outrun |
| `ReceivablesTypeCorrect` | `Spec => []TypeOK` (Receivables) | inductive as it stands |
| `AllocationsStand` | `Spec => []AllocationsNamePosted` | a posted invoice stays posted (`PostedStays`); a new allocation was checked (`AllocationSource`) |
| `ReceivablesEntriesBalance` | `Spec => []EntriesBalance` | an entry is written once, from a document that is then final |
| `ReceivablesPaymentStatus` | `Spec => []PaymentStatusAgrees` | `SettlementInv`: with `AllocationsNamePosted` and positive totals, so that only the receipt being posted moves the sum of an invoice, and it writes the status from the sum it moves |
| `ReceivablesControl` | `Spec => []ControlAgrees` | strengthened by `JournalFollows`: each document has on the control account what its kind and status say. The account is then a sum over documents, and the allocations cancel when the sum over receipts of what each allocates is taken per invoice (`SumSwap`) |
| `PayablesTypeCorrect` | `Spec => []TypeOK` (Payables) | inductive as it stands |
| `OrderBilledOnce`, `ConvertedOrderTraced`, `ConvertedOrderKeepsLink` | `BilledTwiceWhenInterrupted`, `ConversionTraced`, `LinkStays` | one invariant, `ConversionInvariant`: of two conversions of an order one overlapped the other, and a bill with an origin is linked, about to be linked by a client, or its order was interrupted |
| `InputTaxRouted`, `PayablesEntriesBalance` | `InputTaxAgrees`, `EntriesBalance` | one invariant, `BooksInvariant`: with `RowsSound`: a line without a tax code has no tax, and a note that is not posted has no entry |
| `PayablesControl` | `Spec => []ControlAgrees` (Payables) | `SettlementInvariant`: payments allocate to posted bills only, totals are positive, each document's entry and each bill's payment status follow from the rows |
| `SerialStockBooks` | one session: `Spec => []BalanceMatchesEntries` (Stock) | strengthened by `BooksInv`: a pending posting has seen the current balance and its row is that balance plus its movement |
| `SerialLayersShrink` | one session: `Spec => LayersOnlyShrink` | strengthened by `LayersInv`: a pending posting leaves of each layer at most what the layer has |
| `StockTypeCorrect` | `Spec => []TypeOK` (Stock), any number of sessions | `TypeInv`: with the shape of what a session is about to write; a weighted average divides by a quantity that is not zero |
| `SerialLayersHoldStock` | one session: `Spec => []LayersHoldStock` | `StockInv`: what is on hand in the layers is the balance and is what standing documents moved (`Totals`), a layer that did not come back is that of its receipt (`LayersOwn`), and what a session has decided it would decide again (`Made`): an issue takes what the layers have, a reversal is of a standing document |
| `SerialFifoAtLayerCost` | one session: `Spec => []FifoBooksAtLayerCost` | the same invariant bounds the distance between account and layers by what the posted documents allow; `UnitsNear` adds up the rounding of an issue over the layers it takes from |
| `RoundNearest` | rounding errs by at most half a unit | arithmetic on quotient and remainder |
| `FiledReturnStays`, `PeriodFiledOnce`, `FiledFactsStay` | `FiledStays`, `OneFiledPerPeriod`, `FactsStayFiled` | one invariant: returns are well shaped (`ReturnsShaped`) and the period of a frozen return is locked or was unlocked (`FrozenLocked`) |
| `FilingTypeCorrect`, `ObligationPaidAgrees`, `SettlementBalance` | `TypeOK`, `PaidAgrees`, `SettlementOutByWithheld` (TaxFiling) | one invariant, `FilingInv`: the facts are finitely many, so each figure of a return is a number; a row's payment, entry and figures fit (`RowsSound`); an obligation is paid when a return of it is paid up (`PaidFor`) |
| `TreasuryTypeCorrect` | `Spec => []TypeOK` (Treasury) | `TypeInv`: finitely many documents are posted and the total of a transaction is that of its lines |
| `ReportAgrees` | `Spec => []ReportAgreesWithLedger` | the report of a ledger account is a sum over the financial accounts mapped to it of a sum over documents; posting one adds to exactly one term of it (for a transfer two) what its lines add to the ledger |
| `CashAgrees` | `Spec => []CashIsReceiptsLessPayments` | a transfer adds and takes the same amount within the cash accounts, a transaction one side of its lines (`SumDisjoint` of cash and other accounts) |
| `ReconciliationTypeCorrect` | `BankSpec => []BankTypeOK` | inductive as it stands |
| `CompletedSessionStays` | `BankSpec => CompletedStays` | strengthened by `CompletedAreClear`: a call open on a completed session puts it in `late` |
| `LinesNeverOverMatched`, `ReconciledFlagAgrees` | `BankSpec => []NeverOverMatched`, `[]ReconciledAgrees` | one invariant, `MatchingInvariant`: a call that saw the matches of its line as they are has the room and the flag it decided on (`CallsSound`); any number of clients |
| `NeverBeyond`, `BaseSpent` | `LoopSpec => []NeverBeyondBase`, `[]SpendsBase` | one invariant, `LoopInv`: the charges so far are on the course of their engine (`KeptAt`), and no course passes the base (`CourseWithin`) |
| `ChargesDirected` | `LoopSpec => ChargesKeepDirection` | the same invariant, with what the next month charges at least or at most |
| `RegisterTypeCorrect` | `Spec => []TypeOK` (Assets) | with: a run that was never drafted charges nothing, and the drafted runs are finitely many |
| `ClosedAssetIsSpent`, `ExcessIsOverlap`, `WholeLifeIsSpent` | `FullyDepreciatedIsSpent`, `ExcessNeedsOverlap`, `WholeLifeSpends` | one invariant, `RegisterInv`: every line of an asset that was not edited is sound (`LineSound`): within the base, of its month's charge, covered by what is posted. Lines drafted apart then have as the highest the last (`ApartFits`), and those of consecutive months count the life (`LifeCounted`, `LifeCharged`) |
| `DisposalClearsPosted` | `Spec => DisposalClears` | from `RegisterInv`: of lines drafted apart each accumulates what the ones before it charged (`ApartBetween`), so that in order of dates the line the disposal reads holds the total through its date (`LatestAccumulates`) |

`OneSession` (no two different sessions) is an assumption of the theorems that need it and is stated
in them. It is needed: section 5 says what happens with two sessions.

**The month loop.** The engines that compute a charge without regard to what remains (straight line,
digits, sinking fund, annuity, MACRS) stay within the base because of what they have charged so far, and
their invariant says how much that is: a course, `CourseAt`, a bound on the charges before a month that is
at most the base at the last one.

- Straight line: equal to so many months' charges. Digits: at most the digits of the months gone by.
- Sinking fund: at most the growth of the deposits so far, `(q+1)^(m-1) q^(N-m+1) - q^N` parts of the
  whole, and as much growth of what the deposit is off (`FundAbsorbed`). `Power` is a recursive function, and its recursion and positivity are proved from its definition.
- Annuity: the same, and what cutting the interest and a payment a unit too high can have added by then,
  with the interest charged on that; `TooSmall` says exactly when the growth of the last month absorbs it.
- MACRS: the years gone by at their percentage of the cost, and the months of the current one at a
  `MonthsPerYear`-th each; percentages that add up to at most a hundred leave the rest.

The other two engines hold every charge to what remains. The direction of the charges needs a part each
(`AnnuityRises`, `FundRises`, `DigitsFall`, `BalanceFalls`): the charge just made against the one that the
next month will compute. `LoopStep` proves the engines one by one.

Every property of a passing run is the statement of a theorem. There is no liveness property.

## 5. What the runs found

Two runs must end in a counterexample; `PROJECT.json` quotes the line that says otherwise.

| Run | What happens |
|---|---|
| `receivables_over_allocation` | two drafts that each fit the open balance of an invoice both post |
| `tax_declared_once` | a tax fact is declared in the return of its period and again, as a late claim, in every later one: `stamp_included_in_return` has no caller |

Seen in the code while modelling it, reachable in the models, and not kept as runs of their own:

Journal and calendar

- A draft is posted while another session edits or deletes it; a posted entry changes
  (`journal_service.py` `update_draft_journal` looks at the status it read).
- A reopen and a lock of one period that overlap leave a locked period open
  (`period_control_service.py` `_change_period_status` writes without a check; the serial theorem
  `SerialImplementsBook` holds because the check and the write are then one step).
- Two sessions that issue a number write back what each computed; the slower one can move the
  sequence behind a number in use, and the next posting collides and rolls back (`SequenceAhead`
  holds in the serial run, `SequenceFallsBehind` names this case in the concurrent one).
- A draft can be saved to a closed period: `_require_covering_period` refuses LOCKED only.

Receivables and payables

- An edited sales credit note updates its header and loses its lines; its entry does not balance
  (the reservation of `EntriesBalance`). A purchase credit note line without an account does the same.
- Each part payment of an invoice certifies the whole withheld tax (`certificates`).
- The aging report adds the absolute amount of an unapplied receipt to what the customer owes and
  does not read credit notes.
- The discount of an order is not in the bill made from it, so the bill asks more than the order; an
  order's `is_tax_inclusive` is dropped by `_normalize_command` of the bill service, as are the tax
  point and the inclusive flag of a bill.
- An acknowledged order with a line without an expense account can be neither converted nor cancelled.
- A comment in `purchase_credit_note_service.py` says the flag captured at draft lets the posting route
  non-deductible VAT "correctly even if the tax code's recoverable flag changes"; the posting routes by
  the code as it is, the tax fact by the flag of the draft. A flag that is unset is an asset to the
  posting and non-deductible to the return.

Stock

- The inventory account follows the layers and the stock ledger its running average: after an issue
  under FIFO they are worth different amounts. The cost method of an item changes with stock on hand.
- Two overlapping postings of an item lose one movement of the balance.
- A submitted issue for which the stock has gone can be neither posted, edited nor cancelled.

Taxation

- A settlement entry does not balance when customers withheld tax: the amount is debited and also taken
  off the payable.
- An amendment of a filed period cannot be filed while the period is locked: `file_return` inserts the
  lock again and does not catch the constraint. The credit an amendment brings forward may be that of
  the very return it amends.
- A return that was submitted is no longer `filed`, so its credit is not brought forward; the credit
  may also come from a later period.
- Drafting keeps the status, so an approved return changes its content without losing its approval;
  the obligation's status is neither checked by a draft nor moved by a filing, and never leaves PAID.

Treasury and bank

- A financial account can be mapped elsewhere after postings; the report then names movements the new
  ledger account never had.
- A session is completed whatever its difference; the help says "The reconciliation difference must be
  zero to complete" (`shared/ui/help_content.py:793`).
- A file imported twice adds its lines twice; a line whose amount is zero or negative is never matched.

Fixed assets

- A run drafted before a disposal and posted after it takes a disposed asset back to fully
  depreciated, and it can be disposed again.
- Two drafts charge the same month of an asset, and both post. The help speaks of one run per period.
- The docstring of `_annuity` says "Total depreciation = depreciable_base exactly (last period absorbs
  rounding)". The last period can only add: the interest is cut down each month and the difference earns
  interest itself. At 5 % a month over 360 months a base of 1000.01 is charged 1195.13
  (`depreciation_schedule_service.py` `_annuity`). `TooSmall` is the bound: some 33 000 at 5 % and 360
  months, a few hundredths at 1 % and 100 months.
- The first deposit of a sinking fund is rounded to ten decimals and then grown: on a base of 480 000, at
  10 % a month over 360 months, it becomes 1e-10 instead of 6.02e-11, and the months before the last charge
  some 724 000 (`depreciation_schedule_service.py` `_sinking_fund`). `TooSmall` is the bound here too.
- A disposal counts the runs dated up to its day: one on the 15th leaves out the run of its month that is
  dated the 31st, posted before it or not.
- MACRS percentages that add up to more than a hundred charge more than the cost; `preview_schedule` does
  not add up those of its command (the profiles of the catalogue do add up to a hundred).
- One active asset whose method needs settings fails the run of every asset.

## 6. What is not modelled

- Deferrals, contracts, projects, job costing, budgets, quotes and sales orders: planned, section 7.
- Payroll: at this commit `PayrollRun` lacks columns the run service and its repository read
  (`run_type_code`, `run_sequence`, the submission), so the entry points that create and list runs
  raise, and posting, payments and remittances need a run. There is no behaviour to translate.
- Goods receipts, landed cost, transfers, counts, production, reservations: not constructed by the
  application, or calling repository methods that do not exist.
- Stock issued by invoices: the synchronisation service is not passed to the posting service.
- In `Receivables`: more than one customer or currency, due dates and buckets, tax lines other than
  their payment date, project dimensions. In `Stock`: several lines per document, units of measure,
  batches, serial numbers, segregation of duties (it only refuses). In `Payables`: more than one line,
  prices including tax, reverse charge (no service marks a code). In `TaxFiling`: the cash basis, pro
  rata, the boxes of the form, the bank entry of a payment. In `Treasury`: currencies and budgets.
- Audit trail (append only, after commit), permissions (they only refuse), user interface, resources,
  migrations, reports other than the balance of the receivables control account.

## 7. Plan

1. Done: `GeneralLedger`, `Ledger`, `Receivables`, `Payables`, `Stock`, `TaxFiling`, `Treasury`,
   `BankReconciliation`, `DepreciationSchedule`, `Assets`, with their proofs.
2. `Deferral` schedules and budget control.
3. `DocumentPosting`: a document and its journal entry as one composition with `Ledger`: reversal of
   the entry under the document, two sessions posting one document.
4. Quotes and sales orders, whose conversion runs in several transactions like a purchase order's.
5. `PayrollRun`, once runs can be created.

## 8. Running it

    tlc -workers 2 -config LedgerSerial.cfg MCLedger.tla
    tlc -workers 2 -config ReceivablesBooks.cfg MCReceivables.tla
    tlc -workers 2 -config StockBooks.cfg MCStock.tla
    tlc -workers 2 -config PayablesBooks.cfg MCPayables.tla
    tlc -workers 2 -config TaxBooks.cfg MCTax.tla
    tlc -workers 2 -config TreasuryBooks.cfg MCTreasury.tla
    tlc -workers 2 -config BankBooks.cfg MCBank.tla
    tlc -workers 2 -config ScheduleLoop.cfg MCSchedule.tla
    tlc -workers 2 -config AssetsBooks.cfg MCAssets.tla
    tlapm SumTheorems.tla
    tlapm LedgerProofs.tla
    tlapm ReceivablesProofs.tla
    tlapm PayablesProofs.tla
    tlapm StockProofs.tla
    tlapm TaxProofs.tla
    tlapm TreasuryProofs.tla
    tlapm AssetProofs.tla

`PROJECT.json` lists every run with its configuration, the mutants, and for each definition the lines
of the source it models. The comment before a property names the code behaviour it is about; the
comment "Mutant" marks a definition that no specification uses.
