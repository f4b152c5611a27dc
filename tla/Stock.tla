--------------------------------- MODULE Stock ---------------------------------
(***************************************************************************)
(* The stock of one item at one location: inventory documents of one line, *)
(* the cost layers they open and consume, the stock ledger with its        *)
(* running balance, and the inventory account of the general ledger.       *)
(*                                                                         *)
(* Posting and reversing take two steps, one for what the call reads and   *)
(* decides and one for what it commits, so that calls of two sessions on   *)
(* the same database can overlap; the other calls are one step.  Document  *)
(* types are known by the direction of their stock movement.  Refusals     *)
(* that look at nothing modelled here (permissions, segregation of duties, *)
(* periods, accounts, budgets) are not followed.  Units of measure,        *)
(* batches and serial numbers are left out.                                *)
(*                                                                         *)
(* Quantities are integers, amounts are cents, unit costs are hundredths   *)
(* of a cent and average costs ten-thousandths: the scales of the columns. *)
(***************************************************************************)
EXTENDS Integers, Sequences, FiniteSets, Functions

CONSTANTS Sessions,     \* calls that may be under way at once
          Docs,         \* primary keys of inventory documents
          MaxQuantity,  \* bound on the quantity of a line
          Costs,        \* unit costs a receipt or a standard may state
          Dates,        \* layer dates
          Methods,      \* cost methods the item may be given
          Idle

ASSUME StockConstants ==
  /\ MaxQuantity \in Nat \ {0}
  /\ Costs \subseteq Nat \ {0} /\ Costs # {}
  /\ Dates \subseteq Nat
  /\ Methods \subseteq {"weighted_average", "fifo", "standard_cost"} /\ Methods # {}

VARIABLES item,     \* items: cost method, standard cost, and "fifo": no other method ever was
          doc,      \* inventory_documents, each with its line
          layers,   \* inventory_cost_layers, in the order of their keys
          entries,  \* stock_ledger_entries: the sums of signed quantity and value
          balance,  \* stock_ledger_balances: the one row of the item and location
          gl,       \* the balance of the inventory account in the journal
          work      \* what each session has decided and not yet committed

vars == <<item, doc, layers, entries, balance, gl, work>>

Quantities == 1 .. MaxQuantity
Directions == {"in", "out"}
Sign(direction) == IF direction = "in" THEN 1 ELSE -1

-------------------------------------------------------------------------------
(* Rounding.  Amounts and costs are never rounded but here.                *)

\* n / d rounded to the nearest integer, ties to the even one.
Round(n, d) ==
  LET low == n \div d
      twice == 2 * (n % d)
  IN  IF twice < d \/ (twice = d /\ low % 2 = 0) THEN low ELSE low + 1

Amount(quantity, cost) == Round(quantity * cost, 100)

-------------------------------------------------------------------------------
(* Cost layers.                                                            *)

OnHand == SumFunction([k \in DOMAIN layers |-> layers[k].remaining])
LayerValue == SumFunction([k \in DOMAIN layers |-> layers[k].remaining * layers[k].cost])

Layer(d, back, date, quantity, cost) ==
  [doc |-> d, back |-> back, date |-> date, quantity |-> quantity, remaining |-> quantity,
   cost |-> cost]

Older(j, k) == layers[j].date < layers[k].date \/ (layers[j].date = layers[k].date /\ j < k)

\* Mutant: the whole quantity is taken from the first layer.
TakesFirstOnly(taken, quantity) ==
  \A k \in DOMAIN layers : taken[k] = IF k = 1 THEN quantity ELSE 0

\* What an issue takes from each layer: all it needs, never more than a layer holds, and
\* from a layer only once the older ones are empty.
TakesOldestFirst(taken, quantity) ==
  /\ SumFunction(taken) = quantity
  /\ \A k \in DOMAIN layers :
       /\ taken[k] <= layers[k].remaining
       /\ taken[k] > 0 => \A j \in DOMAIN layers :
                            Older(j, k) => taken[j] = layers[j].remaining

WeightedAverage == Round(LayerValue, OnHand)

\* Mutant: FIFO values an issue at the average, like the default method.
IssueAmountAverage(taken, quantity) ==
  IF item.method = "standard_cost" THEN Amount(quantity, item.standard)
  ELSE Amount(quantity, WeightedAverage)

\* The amount an issue is booked at; with no batches, fefo is fifo.
IssueAmount(taken, quantity) ==
  CASE item.method = "fifo" ->
         SumFunction([k \in DOMAIN layers |-> Amount(taken[k], layers[k].cost)])
    [] item.method = "standard_cost" -> Amount(quantity, item.standard)
    [] item.method = "weighted_average" -> Amount(quantity, WeightedAverage)

-------------------------------------------------------------------------------
(* The stock ledger: a movement changes quantity and value; what goes out  *)
(* is valued at the running average, whatever the cost method.             *)

Inflow(quantity, cost) == [quantity |-> quantity, value |-> Amount(quantity, cost)]
Outflow(quantity) == [quantity |-> -quantity, value |-> -Round(quantity * balance.avg, 10000)]

\* Mutant: a drained position is worth nothing.
MovedDrained(move) ==
  LET quantity == balance.quantity + move.quantity
      value == IF quantity = 0 THEN 0 ELSE balance.value + move.value
  IN  [quantity |-> quantity, value |-> value,
       avg |-> IF quantity = 0 THEN 0
               ELSE IF move.quantity < 0 THEN balance.avg
               ELSE Round(value * 10000, quantity)]

\* The balance row after a movement.  Rounding can leave a value on no quantity.
Moved(move) ==
  LET quantity == balance.quantity + move.quantity
      value == balance.value + move.value
  IN  [quantity |-> quantity, value |-> value,
       avg |-> IF quantity = 0 THEN 0
               ELSE IF move.quantity < 0 THEN balance.avg
               ELSE Round(value * 10000, quantity)]

AppendEntry(move) ==
  entries' = [quantity |-> entries.quantity + move.quantity, value |-> entries.value + move.value]

-------------------------------------------------------------------------------
(* Documents and the item.                                                 *)

InFlight(d) == \E s \in Sessions : work[s] # Idle /\ work[s].doc = d

\* Lines that leave the location are checked against the layers when they are written.
ValidLine(direction, quantity) == direction = "out" => quantity <= OnHand

Draft(direction, quantity, cost, date) ==
  [status |-> "draft", direction |-> direction, quantity |-> quantity, cost |-> cost,
   date |-> date, amount |-> 0, reversed |-> FALSE]

CreateDraft(d, direction, quantity, cost, date) ==
  /\ doc[d].status = "none"
  /\ ValidLine(direction, quantity)
  /\ doc' = [doc EXCEPT ![d] = Draft(direction, quantity, cost, date)]
  /\ UNCHANGED <<item, layers, entries, balance, gl, work>>

UpdateDraft(d, direction, quantity, cost, date) ==
  /\ doc[d].status = "draft" /\ ~InFlight(d)
  /\ ValidLine(direction, quantity)
  /\ doc' = [doc EXCEPT ![d] = Draft(direction, quantity, cost, date)]
  /\ UNCHANGED <<item, layers, entries, balance, gl, work>>

Submit(d) ==
  /\ doc[d].status = "draft" /\ ~InFlight(d)
  /\ doc' = [doc EXCEPT ![d].status = "pending_posting"]
  /\ UNCHANGED <<item, layers, entries, balance, gl, work>>

CancelDraft(d) ==
  /\ doc[d].status = "draft" /\ ~InFlight(d)
  /\ doc' = [doc EXCEPT ![d].status = "cancelled"]
  /\ UNCHANGED <<item, layers, entries, balance, gl, work>>

\* Nothing looks at the stock on hand.
UpdateItem(method, standard) ==
  /\ item' = [method |-> method, standard |-> standard,
              fifo |-> item.fifo /\ method = "fifo"]
  /\ UNCHANGED <<doc, layers, entries, balance, gl, work>>

-------------------------------------------------------------------------------
(* Posting.  Everything the call reads it reads before its first write.    *)

Postable(d) == doc[d].status \in {"draft", "pending_posting"}

ReadReceipt(s, d) ==
  /\ work[s] = Idle
  /\ Postable(d) /\ doc[d].direction = "in"
  /\ LET move == Inflow(doc[d].quantity, doc[d].cost)
     IN  work' = [work EXCEPT ![s] =
                    [call |-> "post", doc |-> d, amount |-> Amount(doc[d].quantity, doc[d].cost),
                     left |-> <<>>, move |-> move, seen |-> balance, balance |-> Moved(move)]]
  /\ UNCHANGED <<item, doc, layers, entries, balance, gl>>

ReadIssue(s, d) ==
  /\ work[s] = Idle
  /\ Postable(d) /\ doc[d].direction = "out"
  /\ doc[d].quantity <= OnHand /\ doc[d].quantity <= balance.quantity
  /\ \E taken \in [DOMAIN layers -> 0 .. MaxQuantity] :
       LET move == Outflow(doc[d].quantity)
       IN  /\ TakesOldestFirst(taken, doc[d].quantity)
           /\ work' = [work EXCEPT ![s] =
                         [call |-> "post", doc |-> d,
                          amount |-> IssueAmount(taken, doc[d].quantity),
                          left |-> [k \in {j \in DOMAIN layers : taken[j] > 0} |->
                                      layers[k].remaining - taken[k]],
                          move |-> move, seen |-> balance, balance |-> Moved(move)]]
  /\ UNCHANGED <<item, doc, layers, entries, balance, gl>>

\* The layers after a posting: a receipt opens one, an issue writes what is left of those it
\* took from.
Consume(left) ==
  [k \in DOMAIN layers |->
     IF k \in DOMAIN left THEN [layers[k] EXCEPT !.remaining = left[k]] ELSE layers[k]]
LayersAfter(w) ==
  LET d == w.doc
  IN  IF doc[d].direction = "in"
      THEN Append(layers, Layer(d, FALSE, doc[d].date, doc[d].quantity, doc[d].cost))
      ELSE Consume(w.left)

\* The balance row a posting leaves: the columns it changed are written as it computed them,
\* the others are not written.
Written(w) ==
  [column \in DOMAIN balance |->
     IF w.balance[column] = w.seen[column] THEN balance[column] ELSE w.balance[column]]

CommitPost(s) ==
  LET w == work[s]
      d == w.doc
  IN  /\ w # Idle /\ w.call = "post"
      /\ doc' = [doc EXCEPT ![d].status = "posted", ![d].amount = w.amount]
      /\ layers' = LayersAfter(w)
      /\ AppendEntry(w.move)
      /\ balance' = Written(w)
      /\ gl' = gl + Sign(doc[d].direction) * w.amount
      /\ work' = [work EXCEPT ![s] = Idle]
      /\ UNCHANGED item

-------------------------------------------------------------------------------
(* Reversal.  Only the document is read before the first write; layers and *)
(* balance are read after it, when no other session can write.             *)

ReadReversal(s, d, date) ==
  /\ work[s] = Idle
  /\ doc[d].status = "posted" /\ ~doc[d].reversed
  /\ work' = [work EXCEPT ![s] = [call |-> "reverse", doc |-> d, date |-> date]]
  /\ UNCHANGED <<item, doc, layers, entries, balance, gl>>

\* The journal entry is mirrored, whatever the stock ledger books.
Reverse(s, move) ==
  LET d == work[s].doc
  IN  /\ doc' = [doc EXCEPT ![d].reversed = TRUE]
      /\ AppendEntry(move)
      /\ balance' = Moved(move)
      /\ gl' = gl - Sign(doc[d].direction) * doc[d].amount
      /\ work' = [work EXCEPT ![s] = Idle]
      /\ UNCHANGED item

\* Mutant: a receipt is reversed whatever was taken from its layer.
CommitReceiptReversalAny(s) ==
  LET w == work[s]
      d == w.doc
  IN  /\ w # Idle /\ w.call = "reverse" /\ doc[d].direction = "in"
      /\ doc[d].quantity <= balance.quantity
      /\ \E k \in DOMAIN layers :
           /\ layers[k].doc = d /\ ~layers[k].back
           /\ layers' = [layers EXCEPT ![k].remaining = 0]
      /\ Reverse(s, Outflow(doc[d].quantity))

\* A receipt whose layer was consumed from cannot be reversed.
CommitReceiptReversal(s) ==
  LET w == work[s]
      d == w.doc
  IN  /\ w # Idle /\ w.call = "reverse" /\ doc[d].direction = "in"
      /\ doc[d].quantity <= balance.quantity
      /\ \E k \in DOMAIN layers :
           /\ layers[k].doc = d /\ ~layers[k].back
           /\ layers[k].remaining >= doc[d].quantity
           /\ layers' = [layers EXCEPT ![k].remaining = @ - doc[d].quantity]
      /\ Reverse(s, Outflow(doc[d].quantity))

\* The unit cost an issue is given back at: what it was booked at.
ReturnCost(d) == Round(doc[d].amount * 100, doc[d].quantity)

\* Mutant: the stock goes back into a layer that has room for it.
CommitIssueReversalInPlace(s) ==
  LET w == work[s]
      d == w.doc
  IN  /\ w # Idle /\ w.call = "reverse" /\ doc[d].direction = "out"
      /\ \E k \in DOMAIN layers :
           /\ layers[k].remaining + doc[d].quantity <= layers[k].quantity
           /\ layers' = [layers EXCEPT ![k].remaining = @ + doc[d].quantity]
      /\ Reverse(s, Inflow(doc[d].quantity, ReturnCost(d)))

\* An issue comes back as a layer of its own, not into the layers it was taken from.
CommitIssueReversal(s) ==
  LET w == work[s]
      d == w.doc
  IN  /\ w # Idle /\ w.call = "reverse" /\ doc[d].direction = "out"
      /\ layers' = Append(layers, Layer(d, TRUE, w.date, doc[d].quantity, ReturnCost(d)))
      /\ Reverse(s, Inflow(doc[d].quantity, ReturnCost(d)))

\* A call is refused, or its process stops, before it commits: all is rolled back.
Abort(s) ==
  /\ work[s] # Idle
  /\ work' = [work EXCEPT ![s] = Idle]
  /\ UNCHANGED <<item, doc, layers, entries, balance, gl>>

-------------------------------------------------------------------------------
Init ==
  /\ \E method \in Methods, standard \in Costs :
       item = [method |-> method, standard |-> standard, fifo |-> method = "fifo"]
  /\ doc = [d \in Docs |-> [Draft("in", 0, 0, 0) EXCEPT !.status = "none"]]
  /\ layers = <<>>
  /\ entries = [quantity |-> 0, value |-> 0]
  /\ balance = [quantity |-> 0, value |-> 0, avg |-> 0]
  /\ gl = 0
  /\ work = [s \in Sessions |-> Idle]

DraftCall(d) ==
  \/ \E quantity \in Quantities, cost \in Costs, date \in Dates :
       CreateDraft(d, "in", quantity, cost, date) \/ UpdateDraft(d, "in", quantity, cost, date)
  \/ \E quantity \in Quantities, date \in Dates :
       CreateDraft(d, "out", quantity, 0, date) \/ UpdateDraft(d, "out", quantity, 0, date)
  \/ Submit(d)
  \/ CancelDraft(d)

StockCall(s) ==
  \/ \E d \in Docs : ReadReceipt(s, d) \/ ReadIssue(s, d)
  \/ \E d \in Docs, date \in Dates : ReadReversal(s, d, date)
  \/ CommitPost(s)
  \/ CommitReceiptReversal(s)
  \/ CommitIssueReversal(s)
  \/ Abort(s)

Next == \/ \E d \in Docs : DraftCall(d)
        \/ \E method \in Methods, standard \in Costs : UpdateItem(method, standard)
        \/ \E s \in Sessions : StockCall(s)

Spec == Init /\ [][Next]_vars

-------------------------------------------------------------------------------
(* What must hold.                                                         *)

DocRow == [status : {"none", "draft", "pending_posting", "posted", "cancelled"},
           direction : Directions, quantity : 0 .. MaxQuantity, cost : Nat, date : Nat,
           amount : Int, reversed : BOOLEAN]
LayerRow == [doc : Docs, back : BOOLEAN, date : Nat, quantity : Quantities,
             remaining : 0 .. MaxQuantity, cost : Int]

TypeOK ==
  /\ item \in [method : Methods, standard : Costs, fifo : BOOLEAN]
  /\ doc \in [Docs -> DocRow]
  /\ layers \in Seq(LayerRow)
  /\ entries \in [quantity : Int, value : Int]
  /\ balance \in [quantity : Nat, value : Int, avg : Int]
  /\ gl \in Int
  /\ \A s \in Sessions :
       work[s] # Idle => work[s].doc \in Docs /\ work[s].call \in {"post", "reverse"}

Standing == {d \in Docs : doc[d].status = "posted" /\ ~doc[d].reversed}

\* The balance row holds the sums of the stock ledger, in quantity and in value: the first two
\* invariants of the consistency checker (inventory_invariant_checker_service.py).
BalanceMatchesEntries ==
  entries = [quantity |-> balance.quantity, value |-> balance.value]

\* Two independent writers keep the same count: what the cost layers hold is the quantity of
\* the balance row, and both are the net quantity of the posted documents not reversed
\* (stock_ledger_service.py, costing_strategies.py, inventory_posting_service.py).
LayersHoldStock ==
  /\ OnHand = balance.quantity
  /\ OnHand = SumFunction([d \in Standing |-> Sign(doc[d].direction) * doc[d].quantity])

\* Once opened, a layer keeps its cost and is only drawn down; what is taken from it is never
\* given back to it, by a reversal or by a late write (inventory_posting_service.py).
LayersOnlyShrink ==
  [][\A k \in DOMAIN layers :
       /\ k \in DOMAIN layers'
       /\ layers'[k].remaining <= layers[k].remaining
       /\ layers'[k] = [layers[k] EXCEPT !.remaining = layers'[k].remaining]]_vars

\* While the item was never under another method than FIFO, the inventory account stands at
\* the cost of the layers, but for the rounding of amounts: at most a cent for each receipt and
\* for each unit issued, whether they were reversed or not (FifoCostingStrategy).
Abs(n) == IF n < 0 THEN -n ELSE n
Posted == {d \in Docs : doc[d].status = "posted"}
Slack(d) == IF doc[d].direction = "in" THEN 100 ELSE 100 * doc[d].quantity
FifoBooksAtLayerCost ==
  item.fifo => Abs(100 * gl - LayerValue) <= SumFunction([d \in Posted |-> Slack(d)])
================================================================================
