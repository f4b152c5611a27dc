------------------------------ MODULE StockProofs ------------------------------
(***************************************************************************)
(* What holds of Stock for any documents, quantities, costs and methods.   *)
(***************************************************************************)
EXTENDS Stock, SumTheorems

\* The process runs one call at a time on the database.
OneSession == \A s, t \in Sessions : s = t

\* Rounding is to the nearest: an amount is never more than half a unit away from the exact
\* product or quotient, on either side (rounding_policy.py).
THEOREM RoundNearest ==
  ASSUME NEW n \in Int, NEW d \in Nat \ {0}
  PROVE  /\ Round(n, d) \in Int
         /\ 2 * (n - d * Round(n, d)) <= d
         /\ 2 * (d * Round(n, d) - n) <= d
<1> DEFINE low == n \div d
           rest == n % d
<1>1. /\ low \in Int
      /\ rest \in 0 .. (d - 1)
      /\ n = d * low + rest
  OBVIOUS
<1>2. d * (low + 1) = d * low + d
  BY <1>1
<1>3. CASE Round(n, d) = low
  <2>1. 2 * rest <= d
    BY <1>1, <1>3 DEF Round
  <2> QED
    BY <1>1, <1>3, <2>1
<1>4. CASE Round(n, d) = low + 1 /\ Round(n, d) # low
  <2>1. 2 * rest >= d
    BY <1>1, <1>4 DEF Round
  <2> QED
    BY <1>1, <1>2, <1>4, <2>1
<1> QED
  BY <1>3, <1>4 DEF Round

\* What a posting has decided still fits: its balance row is the current one plus its movement.
DecisionFits(s) ==
  work[s] # Idle /\ work[s].call = "post" =>
    /\ work[s].seen = balance
    /\ work[s].balance.quantity = balance.quantity + work[s].move.quantity
    /\ work[s].balance.value = balance.value + work[s].move.value

\* The books in step, with the decisions that are pending.
BooksInv ==
  /\ BalanceMatchesEntries
  /\ work = [s \in Sessions |-> work[s]]
  /\ DOMAIN balance = {"quantity", "value", "avg"}
  /\ \A s \in Sessions : DecisionFits(s)

\* A movement changes the balance row by what it adds to the ledger.
LEMMA MovedAdds ==
  ASSUME NEW move
  PROVE  /\ Moved(move).quantity = balance.quantity + move.quantity
         /\ Moved(move).value = balance.value + move.value
         /\ DOMAIN Moved(move) = {"quantity", "value", "avg"}
BY DEF Moved

\* A call that only decides, or changes nothing of the ledger, keeps the books in step when what
\* it decides fits.
LEMMA DecisionKept ==
  ASSUME BooksInv, UNCHANGED <<entries, balance>>, NEW s \in Sessions, NEW w,
         work' = [work EXCEPT ![s] = w],
         w # Idle /\ w.call = "post" =>
           /\ w.seen = balance
           /\ w.balance.quantity = balance.quantity + w.move.quantity
           /\ w.balance.value = balance.value + w.move.value
  PROVE  BooksInv'
BY DEF BooksInv, BalanceMatchesEntries, DecisionFits

\* A call that commits a movement keeps the books in step: no other decision is pending.
LEMMA MovementKept ==
  ASSUME OneSession, BooksInv, NEW s \in Sessions, NEW move,
         work' = [work EXCEPT ![s] = Idle],
         AppendEntry(move),
         DOMAIN balance' = {"quantity", "value", "avg"},
         balance'.quantity = balance.quantity + move.quantity,
         balance'.value = balance.value + move.value
  PROVE  BooksInv'
<1>1. BalanceMatchesEntries'
  BY DEF BooksInv, BalanceMatchesEntries, AppendEntry
<1>2. \A t \in Sessions : work'[t] = Idle
  BY DEF OneSession, BooksInv
<1> QED
  BY <1>1, <1>2 DEF BooksInv, DecisionFits

\* Every call keeps the books in step when calls do not overlap.
LEMMA CallBooks ==
  ASSUME OneSession, BooksInv, Next
  PROVE  BooksInv'
<1>1. CASE UNCHANGED <<entries, balance, work>>
  BY <1>1 DEF BooksInv, BalanceMatchesEntries, DecisionFits
<1>2. ASSUME NEW s \in Sessions, StockCall(s)
      PROVE  BooksInv'
  <2>1. ASSUME NEW d \in Docs, ReadReceipt(s, d)
        PROVE  BooksInv'
    <3> DEFINE move == Inflow(doc[d].quantity, doc[d].cost)
               w == [call |-> "post", doc |-> d,
                     amount |-> Amount(doc[d].quantity, doc[d].cost),
                     left |-> <<>>, move |-> move, seen |-> balance, balance |-> Moved(move)]
    <3>1. work' = [work EXCEPT ![s] = w] /\ UNCHANGED <<entries, balance>>
      BY <2>1 DEF ReadReceipt
    <3>2. w.balance = Moved(move) /\ w.move = move /\ w.seen = balance
      OBVIOUS
    <3> HIDE DEF w, move
    <3> QED
      BY <3>1, <3>2, MovedAdds, DecisionKept
  <2>2. ASSUME NEW d \in Docs, ReadIssue(s, d)
        PROVE  BooksInv'
    <3> DEFINE move == Outflow(doc[d].quantity)
               w(taken) == [call |-> "post", doc |-> d,
                            amount |-> IssueAmount(taken, doc[d].quantity),
                            left |-> [k \in {j \in DOMAIN layers : taken[j] > 0} |->
                                        layers[k].remaining - taken[k]],
                            move |-> move, seen |-> balance, balance |-> Moved(move)]
    <3>1. PICK taken : work' = [work EXCEPT ![s] = w(taken)] /\ UNCHANGED <<entries, balance>>
      BY <2>2 DEF ReadIssue
    <3>2. w(taken).balance = Moved(move) /\ w(taken).move = move /\ w(taken).seen = balance
      OBVIOUS
    <3> HIDE DEF w, move
    <3> QED
      BY <3>1, <3>2, MovedAdds, DecisionKept
  <2>3. ASSUME NEW d \in Docs, NEW date \in Dates, ReadReversal(s, d, date)
        PROVE  BooksInv'
    <3> DEFINE w == [call |-> "reverse", doc |-> d, date |-> date]
    <3>1. work' = [work EXCEPT ![s] = w] /\ UNCHANGED <<entries, balance>>
      BY <2>3 DEF ReadReversal
    <3>2. w.call # "post"
      OBVIOUS
    <3> HIDE DEF w
    <3> QED
      BY <3>1, <3>2, DecisionKept
  <2>4. CASE CommitPost(s)
    <3> DEFINE w == work[s]
    <3>1. /\ w # Idle /\ w.call = "post"
          /\ AppendEntry(w.move) /\ balance' = Written(w) /\ work' = [work EXCEPT ![s] = Idle]
      BY <2>4 DEF CommitPost
    <3>2. /\ w.seen = balance
          /\ w.balance.quantity = balance.quantity + w.move.quantity
          /\ w.balance.value = balance.value + w.move.value
          /\ DOMAIN balance = {"quantity", "value", "avg"}
      BY <3>1 DEF BooksInv, DecisionFits
    <3>3. /\ DOMAIN balance' = {"quantity", "value", "avg"}
          /\ balance'.quantity = w.balance.quantity
          /\ balance'.value = w.balance.value
      BY <3>1, <3>2 DEF Written
    <3> QED
      BY <3>1, <3>2, <3>3, MovementKept
  <2>5. ASSUME NEW move, Reverse(s, move)
        PROVE  BooksInv'
    BY <2>5, MovedAdds, MovementKept DEF Reverse
  <2>6. CASE Abort(s)
    BY <2>6, DecisionKept DEF Abort
  <2> QED
    BY <1>2, <2>1, <2>2, <2>3, <2>4, <2>5, <2>6
    DEF StockCall, CommitReceiptReversal, CommitIssueReversal
<1> QED
  BY <1>1, <1>2
  DEF Next, DraftCall, CreateDraft, UpdateDraft, Submit, CancelDraft, UpdateItem

\* The balance row holds the sums of the stock ledger when calls do not overlap, for any number
\* of documents: the absolute row a posting writes is still the right one when it commits.
THEOREM SerialStockBooks == ASSUME OneSession PROVE Spec => []BalanceMatchesEntries
<1>1. Init => BooksInv
  BY DEF Init, BooksInv, BalanceMatchesEntries, DecisionFits
<1>2. BooksInv /\ [Next]_vars => BooksInv'
  BY CallBooks DEF vars, BooksInv, BalanceMatchesEntries, DecisionFits
<1>3. BooksInv => BalanceMatchesEntries
  BY DEF BooksInv
<1> QED
  BY <1>1, <1>2, <1>3, PTL DEF Spec

-------------------------------------------------------------------------------
(* Layers.  What an issue has decided to leave of a layer is at most what  *)
(* the layer still holds, because no other call draws on it meanwhile.     *)

\* A layer, and a document, is a record with a quantity.
LayerSound(l) ==
  l = [c \in DOMAIN l |-> l[c]] /\ "remaining" \in DOMAIN l /\ l.remaining \in Nat
DocSound(r) ==
  r = [c \in DOMAIN r |-> r[c]] /\ "quantity" \in DOMAIN r /\ r.quantity \in Nat

\* A post in progress leaves of each layer at most what it holds.
LeavesLess(w) ==
  w # Idle /\ w.call = "post" =>
    \A k \in DOMAIN w.left : k \in DOMAIN layers /\ w.left[k] \in 0 .. layers[k].remaining

\* The layers and the rows are what their tables say.
LayersShaped == (\E S : layers \in Seq(S)) /\ \A k \in DOMAIN layers : LayerSound(layers[k])
RowsShaped ==
  /\ doc = [d \in Docs |-> doc[d]] /\ \A d \in Docs : DocSound(doc[d])
  /\ work = [s \in Sessions |-> work[s]]
  /\ \A s \in Sessions : work[s] # Idle => work[s].doc \in Docs

\* The inductive invariant of the layers.
LayersInv == LayersShaped /\ RowsShaped /\ \A s \in Sessions : LeavesLess(work[s])

\* Layers stay, and change only in what remains of them.
Shrinks ==
  \A k \in DOMAIN layers :
    /\ k \in DOMAIN layers'
    /\ layers'[k].remaining <= layers[k].remaining
    /\ layers'[k] = [layers[k] EXCEPT !.remaining = layers'[k].remaining]

\* Opening a layer leaves the others alone.
LEMMA AppendShrinks ==
  ASSUME LayersShaped, NEW l, LayerSound(l), layers' = Append(layers, l)
  PROVE  LayersShaped' /\ Shrinks
<1>1. PICK S : layers \in Seq(S)
  BY DEF LayersShaped
<1>2. layers \in Seq(S \cup {l})
  BY <1>1
<1>3. /\ layers' \in Seq(S \cup {l})
      /\ DOMAIN layers' = DOMAIN layers \cup {Len(layers) + 1}
      /\ Len(layers) + 1 \notin DOMAIN layers
      /\ \A k \in DOMAIN layers : layers'[k] = layers[k]
      /\ layers'[Len(layers) + 1] = l
  BY <1>2
<1>4. \A k \in DOMAIN layers' : LayerSound(layers'[k])
  BY <1>3 DEF LayersShaped
<1>5. LayersShaped'
  BY <1>3, <1>4 DEF LayersShaped, LayerSound
<1>6. Shrinks
  BY <1>3 DEF Shrinks, LayersShaped, LayerSound
<1> QED BY <1>5, <1>6

\* Drawing layers down, each to no more than it held.
LEMMA DrawShrinks ==
  ASSUME LayersShaped, NEW left, \A k \in DOMAIN left : left[k] \in 0 .. layers[k].remaining,
         layers' = Consume(left)
  PROVE  LayersShaped' /\ Shrinks
<1>1. PICK S : layers \in Seq(S)
  BY DEF LayersShaped
<1>2. /\ DOMAIN layers' = DOMAIN layers
      /\ \A k \in DOMAIN layers :
           layers'[k] = IF k \in DOMAIN left THEN [layers[k] EXCEPT !.remaining = left[k]]
                        ELSE layers[k]
  BY DEF Consume
<1>3. ASSUME NEW k \in DOMAIN layers
      PROVE  /\ LayerSound(layers'[k])
             /\ layers'[k].remaining <= layers[k].remaining
             /\ layers'[k] = [layers[k] EXCEPT !.remaining = layers'[k].remaining]
  <2>1. LayerSound(layers[k])
    BY DEF LayersShaped
  <2>2. CASE k \in DOMAIN left
    BY <1>2, <2>1, <2>2 DEF LayerSound
  <2>3. CASE k \notin DOMAIN left
    BY <1>2, <2>1, <2>3 DEF LayerSound
  <2> QED BY <2>2, <2>3
<1>4. layers' \in Seq({layers'[k] : k \in DOMAIN layers})
  BY <1>1, <1>2 DEF Consume
<1> QED BY <1>2, <1>3, <1>4 DEF LayersShaped, LayerSound, Shrinks

\* A call that decides, and one that ends, keep what the layers rest on.
LEMMA DecisionShaped ==
  ASSUME LayersInv, UNCHANGED <<doc, layers>>, NEW s \in Sessions, NEW w,
         work' = [work EXCEPT ![s] = w], w # Idle => w.doc \in Docs, LeavesLess(w)
  PROVE  LayersInv' /\ Shrinks
<1>1. LayersShaped' /\ RowsShaped'
  BY DEF LayersInv, LayersShaped, RowsShaped, LayerSound, DocSound
<1>2. \A t \in Sessions : LeavesLess(work[t])'
  BY DEF LayersInv, RowsShaped, LeavesLess
<1>3. Shrinks
  BY DEF Shrinks, LayersInv, LayersShaped, LayerSound
<1> QED BY <1>1, <1>2, <1>3 DEF LayersInv

\* The end of the only session leaves no decision to invalidate.
LEMMA CommitShaped ==
  ASSUME OneSession, LayersInv, LayersShaped', NEW s \in Sessions,
         work' = [work EXCEPT ![s] = Idle],
         doc' = [d \in Docs |-> doc'[d]], \A d \in Docs : DocSound(doc'[d])
  PROVE  LayersInv'
<1>1. \A t \in Sessions : work'[t] = Idle
  BY DEF OneSession, LayersInv, RowsShaped
<1> QED BY <1>1 DEF LayersInv, RowsShaped, LeavesLess, DocSound

\* Every step keeps the layers and their invariant.
LEMMA CallShrinks ==
  ASSUME OneSession, LayersInv, Next
  PROVE  LayersInv' /\ Shrinks
<1>1. ASSUME NEW d \in Docs, DraftCall(d) PROVE LayersInv' /\ Shrinks
  <2>1. UNCHANGED <<layers, work>>
    BY <1>1 DEF DraftCall, CreateDraft, UpdateDraft, Submit, CancelDraft
  <2>2. PICK row : doc' = [doc EXCEPT ![d] = row] /\ DocSound(row)
    <3>1. \A direction, cost, date : \A quantity \in Quantities :
            DocSound(Draft(direction, quantity, cost, date))
      BY StockConstants DEF DocSound, Draft, Quantities
    <3>2. DocSound([doc[d] EXCEPT !.status = "pending_posting"])
      BY DEF LayersInv, RowsShaped, DocSound
    <3>3. DocSound([doc[d] EXCEPT !.status = "cancelled"])
      BY DEF LayersInv, RowsShaped, DocSound
    <3>4. CASE Submit(d)
      BY <3>2, <3>4 DEF Submit
    <3>5. CASE CancelDraft(d)
      BY <3>3, <3>5 DEF CancelDraft
    <3>6. CASE ~Submit(d) /\ ~CancelDraft(d)
      BY <1>1, <3>1, <3>6 DEF DraftCall, CreateDraft, UpdateDraft
    <3> QED BY <3>4, <3>5, <3>6
  <2>3. RowsShaped'
    BY <2>1, <2>2 DEF LayersInv, RowsShaped, DocSound
  <2> QED
    BY <2>1, <2>3 DEF LayersInv, LayersShaped, LayerSound, LeavesLess, Shrinks
<1>2. ASSUME NEW method, NEW standard, UpdateItem(method, standard) PROVE LayersInv' /\ Shrinks
  BY <1>2 DEF UpdateItem, LayersInv, LayersShaped, RowsShaped, LayerSound, DocSound, LeavesLess,
              Shrinks
<1>3. ASSUME NEW s \in Sessions, StockCall(s) PROVE LayersInv' /\ Shrinks
  <2>1. ASSUME NEW d \in Docs, ReadReceipt(s, d) PROVE LayersInv' /\ Shrinks
    <3> DEFINE move == Inflow(doc[d].quantity, doc[d].cost)
               w == [call |-> "post", doc |-> d,
                     amount |-> Amount(doc[d].quantity, doc[d].cost),
                     left |-> <<>>, move |-> move, seen |-> balance, balance |-> Moved(move)]
    <3>1. work' = [work EXCEPT ![s] = w] /\ UNCHANGED <<doc, layers>>
      BY <2>1 DEF ReadReceipt
    <3>2. w.doc \in Docs /\ LeavesLess(w)
      BY DEF LeavesLess
    <3> HIDE DEF w, move
    <3> QED BY <3>1, <3>2, DecisionShaped
  <2>2. ASSUME NEW d \in Docs, ReadIssue(s, d) PROVE LayersInv' /\ Shrinks
    <3> DEFINE move == Outflow(doc[d].quantity)
               left(taken) == [k \in {j \in DOMAIN layers : taken[j] > 0} |->
                                 layers[k].remaining - taken[k]]
               w(taken) == [call |-> "post", doc |-> d,
                            amount |-> IssueAmount(taken, doc[d].quantity),
                            left |-> left(taken),
                            move |-> move, seen |-> balance, balance |-> Moved(move)]
    <3>1. PICK taken \in [DOMAIN layers -> 0 .. MaxQuantity] :
            /\ TakesOldestFirst(taken, doc[d].quantity)
            /\ work' = [work EXCEPT ![s] = w(taken)] /\ UNCHANGED <<doc, layers>>
      BY <2>2 DEF ReadIssue
    <3>2. \A k \in DOMAIN layers : taken[k] \in Nat /\ taken[k] <= layers[k].remaining
      BY <3>1, StockConstants DEF TakesOldestFirst
    <3>3. \A k \in DOMAIN left(taken) :
            k \in DOMAIN layers /\ left(taken)[k] \in 0 .. layers[k].remaining
      BY <3>2 DEF LayersInv, LayersShaped, LayerSound
    <3>4. w(taken).doc \in Docs /\ w(taken).left = left(taken)
      OBVIOUS
    <3> HIDE DEF w, left
    <3>5. LeavesLess(w(taken))
      BY <3>3, <3>4 DEF LeavesLess
    <3> QED BY <3>1, <3>4, <3>5, DecisionShaped
  <2>3. ASSUME NEW d \in Docs, NEW date \in Dates, ReadReversal(s, d, date)
        PROVE  LayersInv' /\ Shrinks
    <3> DEFINE w == [call |-> "reverse", doc |-> d, date |-> date]
    <3>1. work' = [work EXCEPT ![s] = w] /\ UNCHANGED <<doc, layers>>
      BY <2>3 DEF ReadReversal
    <3>2. w.doc \in Docs /\ LeavesLess(w)
      BY DEF LeavesLess
    <3> HIDE DEF w
    <3> QED BY <3>1, <3>2, DecisionShaped
  <2> DEFINE w == work[s]
             d == w.doc
  <2>4. \A e, r : e \in Docs /\ DocSound(r) /\ doc' = [doc EXCEPT ![e] = r] =>
          doc' = [f \in Docs |-> doc'[f]] /\ \A f \in Docs : DocSound(doc'[f])
    BY DEF LayersInv, RowsShaped
  <2>5. ASSUME w # Idle PROVE d \in Docs /\ DocSound(doc[d]) /\ LeavesLess(w) /\ LayersShaped
    BY <2>5 DEF LayersInv, RowsShaped
  <2>6. CASE CommitPost(s)
    <3>1. /\ w # Idle /\ w.call = "post" /\ work' = [work EXCEPT ![s] = Idle]
          /\ doc' = [doc EXCEPT ![d] = [doc[d] EXCEPT !.status = "posted", !.amount = w.amount]]
          /\ layers' = LayersAfter(w)
      BY <2>6, <2>5 DEF CommitPost, LayersInv, RowsShaped, DocSound
    <3>2. DocSound([doc[d] EXCEPT !.status = "posted", !.amount = w.amount])
      BY <2>5, <3>1 DEF DocSound
    <3>3. LayersShaped' /\ Shrinks
      <4>1. CASE doc[d].direction = "in"
        <5> DEFINE l == Layer(d, FALSE, doc[d].date, doc[d].quantity, doc[d].cost)
        <5>1. LayerSound(l)
          BY <2>5, <3>1 DEF DocSound, LayerSound, Layer
        <5>2. layers' = Append(layers, l)
          BY <3>1, <4>1 DEF LayersAfter
        <5> QED BY <2>5, <3>1, <5>1, <5>2, AppendShrinks
      <4>2. CASE doc[d].direction # "in"
        <5>1. layers' = Consume(w.left)
          BY <3>1, <4>2 DEF LayersAfter
        <5> QED BY <2>5, <3>1, <5>1, DrawShrinks DEF LeavesLess
      <4> QED BY <4>1, <4>2
    <3> QED BY <2>4, <2>5, <3>1, <3>2, <3>3, CommitShaped
  <2>7. ASSUME NEW move, w # Idle, Reverse(s, move), LayersShaped', Shrinks
        PROVE  LayersInv' /\ Shrinks
    <3>1. /\ work' = [work EXCEPT ![s] = Idle]
          /\ doc' = [doc EXCEPT ![d] = [doc[d] EXCEPT !.reversed = TRUE]]
      BY <2>7 DEF Reverse
    <3>2. DocSound([doc[d] EXCEPT !.reversed = TRUE])
      BY <2>5, <2>7 DEF DocSound
    <3> QED BY <2>4, <2>5, <2>7, <3>1, <3>2, CommitShaped
  <2>8. CASE CommitReceiptReversal(s)
    <3>1. PICK k \in DOMAIN layers :
            /\ layers[k].remaining >= doc[d].quantity
            /\ layers' = [layers EXCEPT ![k].remaining = @ - doc[d].quantity]
      BY <2>8 DEF CommitReceiptReversal
    <3> DEFINE left == [j \in {k} |-> layers[k].remaining - doc[d].quantity]
    <3>2. w # Idle /\ Reverse(s, Outflow(doc[d].quantity))
      BY <2>8 DEF CommitReceiptReversal
    <3>3. \A j \in DOMAIN left : left[j] \in 0 .. layers[j].remaining
      BY <2>5, <3>1, <3>2 DEF LayersShaped, LayerSound, DocSound
    <3>4. layers' = Consume(left)
      BY <2>5, <3>1, <3>2 DEF Consume, LayersShaped
    <3> QED BY <2>5, <2>7, <3>2, <3>3, <3>4, DrawShrinks
  <2>9. CASE CommitIssueReversal(s)
    <3> DEFINE l == Layer(d, TRUE, w.date, doc[d].quantity, ReturnCost(d))
    <3>1. /\ w # Idle /\ Reverse(s, Inflow(doc[d].quantity, ReturnCost(d)))
          /\ layers' = Append(layers, l)
      BY <2>9 DEF CommitIssueReversal
    <3>2. LayerSound(l)
      BY <2>5, <3>1 DEF DocSound, LayerSound, Layer
    <3> QED BY <2>5, <2>7, <3>1, <3>2, AppendShrinks
  <2>10. CASE Abort(s)
    <3>1. LeavesLess(Idle)
      BY DEF LeavesLess
    <3> QED BY <2>10, <3>1, DecisionShaped DEF Abort
  <2> QED
    BY <1>3, <2>1, <2>2, <2>3, <2>6, <2>8, <2>9, <2>10 DEF StockCall
<1> QED BY <1>1, <1>2, <1>3 DEF Next

\* When calls do not overlap a layer keeps what it was opened with and is only drawn down, for
\* any number of documents, quantities, dates and methods.
THEOREM SerialLayersShrink == ASSUME OneSession PROVE Spec => LayersOnlyShrink
<1>1. Init => LayersInv
  BY StockConstants
     DEF Init, LayersInv, LayersShaped, RowsShaped, LayerSound, DocSound, LeavesLess, Draft
<1>2. LayersInv /\ [Next]_vars => LayersInv' /\ [Shrinks]_vars
  <2>1. CASE UNCHANGED vars
    BY <2>1 DEF vars, LayersInv, LayersShaped, RowsShaped, LayerSound, DocSound, LeavesLess
  <2> QED BY <2>1, CallShrinks
<1> QED BY <1>1, <1>2, PTL DEF Spec, LayersOnlyShrink, Shrinks

-------------------------------------------------------------------------------
(* Types, for any number of sessions: the layers are finitely many, so     *)
(* what they hold and what it cost are numbers, and a call that found      *)
(* stock divides by it.                                                    *)

\* A row of the balance table.
BalanceRow == [quantity : Nat, value : Int, avg : Int]

\* Every document that was written moves something.
DocsTyped ==
  /\ doc \in [Docs -> DocRow]
  /\ \A d \in Docs : doc[d].status # "none" => doc[d].quantity \in Quantities

BooksTyped ==
  /\ item \in [method : Methods, standard : Costs, fifo : BOOLEAN]
  /\ layers \in Seq(LayerRow)
  /\ entries \in [quantity : Int, value : Int]
  /\ balance \in BalanceRow
  /\ gl \in Int

\* What a session has decided to write is well formed.
WorkTyped(s) ==
  work[s] # Idle =>
    /\ work[s].doc \in Docs /\ doc[work[s].doc].status # "none"
    /\ work[s].call \in {"post", "reverse"}
    /\ work[s].call = "reverse" => work[s].date \in Dates
    /\ work[s].call = "post" =>
         /\ work[s].amount \in Int
         /\ work[s].move.quantity \in Int /\ work[s].move.value \in Int
         /\ work[s].balance \in BalanceRow
         /\ \A k \in DOMAIN work[s].left :
              k \in DOMAIN layers /\ work[s].left[k] \in 0 .. MaxQuantity

\* The decisions of all sessions are well formed.
WorksTyped == work = [s \in Sessions |-> work[s]] /\ \A s \in Sessions : WorkTyped(s)

\* The inductive type invariant.
TypeInv == DocsTyped /\ BooksTyped /\ WorksTyped

\* The fields of a document.
LEMMA DocFields ==
  ASSUME DocsTyped, NEW d \in Docs
  PROVE  /\ doc[d] \in DocRow
         /\ doc[d].quantity \in Nat /\ doc[d].quantity <= MaxQuantity
         /\ doc[d].cost \in Nat /\ doc[d].date \in Nat /\ doc[d].amount \in Int
         /\ doc[d].direction \in Directions
         /\ doc[d].status # "none" => doc[d].quantity \in Quantities /\ doc[d].quantity > 0
<1>1. doc[d] \in DocRow
  BY DEF DocsTyped
<1> QED
  BY <1>1, StockConstants DEF DocRow, DocsTyped, Quantities

\* The fields of a layer.
LEMMA LayerFields ==
  ASSUME layers \in Seq(LayerRow), NEW k \in DOMAIN layers
  PROVE  /\ layers[k] \in LayerRow
         /\ layers[k].remaining \in Nat /\ layers[k].remaining <= MaxQuantity
         /\ layers[k].cost \in Int
<1>1. layers[k] \in LayerRow
  OBVIOUS
<1> QED
  BY <1>1, StockConstants DEF LayerRow

\* The layers are finitely many, what is on hand is a natural and its cost an integer.
LEMMA LayerSums ==
  ASSUME layers \in Seq(LayerRow)
  PROVE  /\ IsFiniteSet(DOMAIN layers)
         /\ OnHand \in Nat /\ LayerValue \in Int
<1>1. IsFiniteSet(DOMAIN layers)
  <2>1. DOMAIN layers = 1 .. Len(layers) /\ Len(layers) \in Nat
    OBVIOUS
  <2> QED
    BY <2>1, FS_Interval
<1> DEFINE held == [k \in DOMAIN layers |-> layers[k].remaining]
           worth == [k \in DOMAIN layers |-> layers[k].remaining * layers[k].cost]
<1>2. \A k \in DOMAIN layers : held[k] \in Nat /\ worth[k] \in Int
  BY LayerFields
<1>3. OnHand = SumFunctionOnSet(held, DOMAIN layers)
  BY DEF OnHand, SumFunction
<1>4. LayerValue = SumFunctionOnSet(worth, DOMAIN layers)
  BY DEF LayerValue, SumFunction
<1> HIDE DEF held, worth
<1>5. SumFunctionOnSet(held, DOMAIN layers) \in Nat
  BY <1>1, <1>2, SumNat
<1>6. SumFunctionOnSet(worth, DOMAIN layers) \in Int
  BY <1>1, <1>2, SumInt
<1> QED
  BY <1>1, <1>3, <1>4, <1>5, <1>6

\* An amount is an integer.
LEMMA AmountInt ==
  ASSUME NEW quantity \in Int, NEW cost \in Int
  PROVE  Amount(quantity, cost) \in Int
<1>1. quantity * cost \in Int /\ 100 \in Nat \ {0}
  OBVIOUS
<1> QED
  BY <1>1, RoundNearest DEF Amount

\* An issue that found its quantity in the layers is booked at an integer, under every method.
LEMMA IssueAmountInt ==
  ASSUME BooksTyped, NEW quantity \in Nat \ {0}, quantity <= OnHand,
         NEW taken \in [DOMAIN layers -> 0 .. MaxQuantity]
  PROVE  IssueAmount(taken, quantity) \in Int
<1>1. layers \in Seq(LayerRow)
  BY DEF BooksTyped
<1>2. OnHand \in Nat \ {0} /\ LayerValue \in Int /\ IsFiniteSet(DOMAIN layers)
  BY <1>1, LayerSums
<1>3. WeightedAverage \in Int
  BY <1>2, RoundNearest DEF WeightedAverage
<1>4. Amount(quantity, WeightedAverage) \in Int
  BY <1>3, AmountInt
<1>5. Amount(quantity, item.standard) \in Int
  <2>1. item.standard \in Costs /\ quantity \in Int
    BY DEF BooksTyped
  <2>2. \A cost \in Costs : cost \in Int
    BY StockConstants
  <2>3. item.standard \in Int
    BY <2>1, <2>2
  <2> QED
    BY <2>1, <2>3, AmountInt
<1> DEFINE drawn == [k \in DOMAIN layers |-> Amount(taken[k], layers[k].cost)]
<1>6. \A k \in DOMAIN layers : drawn[k] \in Int
  <2> SUFFICES ASSUME NEW k \in DOMAIN layers
               PROVE  Amount(taken[k], layers[k].cost) \in Int
    OBVIOUS
  <2>1. taken[k] \in Int /\ layers[k].cost \in Int
    BY <1>1, StockConstants, LayerFields
  <2> QED
    BY <2>1, AmountInt
<1>7. SumFunction(drawn) = SumFunctionOnSet(drawn, DOMAIN layers)
  BY DEF SumFunction
<1>8. SumFunctionOnSet(drawn, DOMAIN layers) \in Int
  <2> HIDE DEF drawn
  <2> QED
    BY <1>2, <1>6, SumInt
<1>9. item.method \in {"fifo", "standard_cost", "weighted_average"}
  BY StockConstants DEF BooksTyped
<1> QED
  BY <1>4, <1>5, <1>7, <1>8, <1>9 DEF IssueAmount

\* A movement that does not take more than there is leaves a well-formed balance row.
LEMMA MovedType ==
  ASSUME balance \in BalanceRow, NEW move, move.quantity \in Int, move.value \in Int,
         balance.quantity + move.quantity >= 0
  PROVE  Moved(move) \in BalanceRow
<1> DEFINE quantity == balance.quantity + move.quantity
           value == balance.value + move.value
           avg == IF quantity = 0 THEN 0
                  ELSE IF move.quantity < 0 THEN balance.avg
                  ELSE Round(value * 10000, quantity)
<1>1. quantity \in Nat /\ value \in Int /\ balance.avg \in Int
  BY DEF BalanceRow
<1>2. quantity # 0 => Round(value * 10000, quantity) \in Int
  <2>1. value * 10000 \in Int /\ (quantity # 0 => quantity \in Nat \ {0})
    BY <1>1
  <2> HIDE DEF quantity, value
  <2> QED
    BY <2>1, RoundNearest
<1>3. avg \in Int
  BY <1>1, <1>2
<1>4. Moved(move) = [quantity |-> quantity, value |-> value, avg |-> avg]
  BY DEF Moved
<1> HIDE DEF quantity, value, avg
<1> QED
  BY <1>1, <1>3, <1>4 DEF BalanceRow

\* What comes in and what goes out are movements of integers.
LEMMA MovementInt ==
  ASSUME balance \in BalanceRow, NEW quantity \in Int, NEW cost \in Int
  PROVE  /\ Inflow(quantity, cost).quantity = quantity /\ Inflow(quantity, cost).value \in Int
         /\ Outflow(quantity).quantity = -quantity /\ Outflow(quantity).value \in Int
<1>1. Inflow(quantity, cost).quantity = quantity /\ Inflow(quantity, cost).value \in Int
  BY AmountInt DEF Inflow
<1>2. quantity * balance.avg \in Int /\ 10000 \in Nat \ {0}
  BY DEF BalanceRow
<1>3. Round(quantity * balance.avg, 10000) \in Int
  <2> SUFFICES ASSUME NEW n \in Int
               PROVE  Round(n, 10000) \in Int
    BY <1>2
  <2> QED
    BY <1>2, RoundNearest
<1> QED
  BY <1>1, <1>3 DEF Outflow

\* A session's decision stays well formed while documents stay written and layers are added.
LEMMA WorkFollows ==
  ASSUME DOMAIN layers \subseteq DOMAIN layers',
         \A d \in Docs : doc[d].status # "none" => doc'[d].status # "none",
         NEW s \in Sessions, WorkTyped(s), work'[s] = work[s]
  PROVE  WorkTyped(s)'
BY DEF WorkTyped

\* A document is written over with a row that moves something.
LEMMA DocWritten ==
  ASSUME DocsTyped, NEW d \in Docs, NEW row \in DocRow, row.quantity \in Quantities,
         row.status # "none", doc' = [doc EXCEPT ![d] = row]
  PROVE  /\ DocsTyped'
         /\ \A e \in Docs : doc[e].status # "none" => doc'[e].status # "none"
BY DEF DocsTyped

\* A session decides, or ends without a write.
LEMMA DecisionTyped ==
  ASSUME TypeInv, UNCHANGED <<item, doc, layers, entries, balance, gl>>, NEW s \in Sessions,
         NEW w, work' = [work EXCEPT ![s] = w],
         w # Idle =>
           /\ w.doc \in Docs /\ doc[w.doc].status # "none"
           /\ w.call \in {"post", "reverse"}
           /\ w.call = "reverse" => w.date \in Dates
           /\ w.call = "post" =>
                /\ w.amount \in Int
                /\ w.move.quantity \in Int /\ w.move.value \in Int
                /\ w.balance \in BalanceRow
                /\ \A k \in DOMAIN w.left : k \in DOMAIN layers /\ w.left[k] \in 0 .. MaxQuantity
  PROVE  TypeInv'
<1>1. DocsTyped' /\ BooksTyped'
  BY DEF TypeInv, DocsTyped, BooksTyped
<1>2. work' = [t \in Sessions |-> work'[t]]
  BY DEF TypeInv, WorksTyped
<1>3. ASSUME NEW t \in Sessions
      PROVE  WorkTyped(t)'
  <2>1. CASE t = s
    <3>1. work'[t] = w
      BY <2>1 DEF TypeInv, WorksTyped
    <3> QED
      BY <3>1 DEF WorkTyped
  <2>2. CASE t # s
    <3>1. work'[t] = work[t]
      BY <2>2 DEF TypeInv, WorksTyped
    <3> QED
      BY <3>1, WorkFollows DEF TypeInv, WorksTyped
  <2> QED
    BY <2>1, <2>2
<1> QED
  BY <1>1, <1>2, <1>3 DEF TypeInv, WorksTyped

\* A session writes its document, the layers and the books, and is done.
LEMMA CommitTyped ==
  ASSUME TypeInv, UNCHANGED item, NEW s \in Sessions, work' = [work EXCEPT ![s] = Idle],
         NEW d \in Docs, doc[d].status # "none",
         NEW status \in {"posted", doc[d].status}, NEW amount \in Int,
         NEW reversed \in BOOLEAN,
         doc' = [doc EXCEPT ![d] = [doc[d] EXCEPT !.status = status, !.amount = amount,
                                                  !.reversed = reversed]],
         layers' \in Seq(LayerRow), DOMAIN layers \subseteq DOMAIN layers',
         NEW move, move.quantity \in Int, move.value \in Int, AppendEntry(move),
         balance' \in BalanceRow, gl' \in Int
  PROVE  TypeInv'
<1> DEFINE row == [doc[d] EXCEPT !.status = status, !.amount = amount, !.reversed = reversed]
<1>1. row \in DocRow /\ row.quantity = doc[d].quantity /\ row.status # "none"
  BY DocFields DEF TypeInv, DocRow
<1>2. doc[d].quantity \in Quantities
  BY DEF TypeInv, DocsTyped
<1> HIDE DEF row
<1>3. /\ DocsTyped'
      /\ \A e \in Docs : doc[e].status # "none" => doc'[e].status # "none"
  BY <1>1, <1>2, DocWritten DEF TypeInv, row
<1>4. entries' \in [quantity : Int, value : Int]
  BY DEF AppendEntry, TypeInv, BooksTyped
<1>5. BooksTyped'
  BY <1>4 DEF TypeInv, BooksTyped
<1>6. work' = [t \in Sessions |-> work'[t]] /\ work'[s] = Idle
      /\ \A t \in Sessions : t # s => work'[t] = work[t]
  BY DEF TypeInv, WorksTyped
<1>7. \A t \in Sessions : WorkTyped(t)'
  <2> SUFFICES ASSUME NEW t \in Sessions
               PROVE  WorkTyped(t)'
    OBVIOUS
  <2>1. CASE t = s
    BY <1>6, <2>1 DEF WorkTyped
  <2>2. CASE t # s
    BY <1>3, <1>6, <2>2, WorkFollows DEF TypeInv, WorksTyped
  <2> QED
    BY <2>1, <2>2
<1> QED
  BY <1>3, <1>5, <1>6, <1>7 DEF TypeInv, WorksTyped

\* Drafts are typed, edited, submitted and cancelled; the item is given another method.
LEMMA DraftTyped ==
  ASSUME TypeInv, NEW d \in Docs, DraftCall(d)
  PROVE  TypeInv'
<1>1. UNCHANGED <<item, layers, entries, balance, gl, work>>
  BY DEF DraftCall, CreateDraft, UpdateDraft, Submit, CancelDraft
<1>2. \E row \in DocRow : /\ row.quantity \in Quantities /\ row.status # "none"
                          /\ doc' = [doc EXCEPT ![d] = row]
  <2>1. \A direction \in Directions, quantity \in Quantities, cost \in Nat, date \in Dates :
          /\ Draft(direction, quantity, cost, date) \in DocRow
          /\ Draft(direction, quantity, cost, date).quantity \in Quantities
          /\ Draft(direction, quantity, cost, date).status # "none"
    BY StockConstants DEF Draft, DocRow, Quantities
  <2>2. CASE \E direction \in Directions, quantity \in Quantities, cost \in Nat, date \in Dates :
               doc' = [doc EXCEPT ![d] = Draft(direction, quantity, cost, date)]
    BY <2>1, <2>2
  <2>3. ASSUME NEW status \in {"pending_posting", "cancelled"}, doc[d].status = "draft",
               doc' = [doc EXCEPT ![d].status = status]
        PROVE  \E row \in DocRow : /\ row.quantity \in Quantities /\ row.status # "none"
                                   /\ doc' = [doc EXCEPT ![d] = row]
    <3> DEFINE row == [doc[d] EXCEPT !.status = status]
    <3>1. doc[d] \in DocRow /\ doc[d].quantity \in Quantities
      BY <2>3, DocFields DEF TypeInv
    <3>2. row \in DocRow /\ row.quantity = doc[d].quantity /\ row.status = status
      BY <3>1 DEF DocRow
    <3>3. doc' = [doc EXCEPT ![d] = row]
      BY <2>3
    <3> HIDE DEF row
    <3> QED
      BY <3>1, <3>2, <3>3
  <2>4. /\ Costs \subseteq Nat /\ 0 \in Nat /\ {"in", "out"} \subseteq Directions
    BY StockConstants DEF Directions
  <2>5. CASE Submit(d) \/ CancelDraft(d)
    BY <2>3, <2>5 DEF Submit, CancelDraft
  <2>6. ASSUME NEW direction \in {"in", "out"}, NEW quantity \in Quantities, NEW cost \in Nat,
               NEW date \in Dates,
               \/ CreateDraft(d, direction, quantity, cost, date)
               \/ UpdateDraft(d, direction, quantity, cost, date)
        PROVE  \E row \in DocRow : /\ row.quantity \in Quantities /\ row.status # "none"
                                   /\ doc' = [doc EXCEPT ![d] = row]
    BY <2>2, <2>4, <2>6 DEF CreateDraft, UpdateDraft
  <2> QED
    BY <2>4, <2>5, <2>6 DEF DraftCall
<1>3. /\ DocsTyped'
      /\ \A e \in Docs : doc[e].status # "none" => doc'[e].status # "none"
  BY <1>2, DocWritten DEF TypeInv
<1>4. BooksTyped'
  BY <1>1 DEF TypeInv, BooksTyped
<1>5. WorksTyped'
  BY <1>1, <1>3, WorkFollows DEF TypeInv, WorksTyped
<1> QED
  BY <1>3, <1>4, <1>5 DEF TypeInv

\* A call that reads decides on numbers.
LEMMA ReadTyped ==
  ASSUME TypeInv, NEW s \in Sessions, NEW d \in Docs,
         ReadReceipt(s, d) \/ ReadIssue(s, d) \/ \E date \in Dates : ReadReversal(s, d, date)
  PROVE  TypeInv'
<1>1. /\ doc[d].status # "none"
      /\ UNCHANGED <<item, doc, layers, entries, balance, gl>>
  BY DEF ReadReceipt, ReadIssue, ReadReversal, Postable
<1>2. /\ doc[d].quantity \in Int /\ doc[d].quantity > 0 /\ doc[d].cost \in Int
      /\ doc[d].quantity \in Nat \ {0}
  BY <1>1, DocFields DEF TypeInv
<1>3. BooksTyped /\ balance \in BalanceRow /\ balance.quantity \in Nat /\ layers \in Seq(LayerRow)
  BY DEF TypeInv, BooksTyped, BalanceRow
<1>4. CASE ReadReceipt(s, d)
  <2> DEFINE move == Inflow(doc[d].quantity, doc[d].cost)
             amount == Amount(doc[d].quantity, doc[d].cost)
             w == [call |-> "post", doc |-> d, amount |-> amount,
                   left |-> <<>>, move |-> move, seen |-> balance, balance |-> Moved(move)]
  <2>1. work' = [work EXCEPT ![s] = w]
    BY <1>4 DEF ReadReceipt
  <2>2. move.quantity = doc[d].quantity /\ move.value \in Int
    BY <1>2, <1>3, MovementInt
  <2>3. Moved(move) \in BalanceRow
    <3>1. move.quantity \in Int /\ balance.quantity + move.quantity >= 0
      BY <1>2, <1>3, <2>2
    <3> HIDE DEF move
    <3> QED
      BY <1>3, <2>2, <3>1, MovedType
  <2>4. amount \in Int
    BY <1>2, AmountInt
  <2>5. /\ w.doc = d /\ w.call = "post" /\ w.amount = amount /\ w.move = move
        /\ w.balance = Moved(move) /\ DOMAIN w.left = {}
    OBVIOUS
  <2> HIDE DEF w, move, amount
  <2> QED
    BY <1>1, <1>2, <2>1, <2>2, <2>3, <2>4, <2>5, DecisionTyped
<1>5. CASE ReadIssue(s, d)
  <2> DEFINE move == Outflow(doc[d].quantity)
             left(taken) == [k \in {j \in DOMAIN layers : taken[j] > 0} |->
                               layers[k].remaining - taken[k]]
             amount(taken) == IssueAmount(taken, doc[d].quantity)
             w(taken) == [call |-> "post", doc |-> d, amount |-> amount(taken),
                          left |-> left(taken),
                          move |-> move, seen |-> balance, balance |-> Moved(move)]
  <2>1. PICK taken \in [DOMAIN layers -> 0 .. MaxQuantity] :
          TakesOldestFirst(taken, doc[d].quantity) /\ work' = [work EXCEPT ![s] = w(taken)]
    BY <1>5 DEF ReadIssue
  <2>2. move.quantity = -doc[d].quantity /\ move.value \in Int
    BY <1>2, <1>3, MovementInt
  <2>3. Moved(move) \in BalanceRow
    <3>1. move.quantity \in Int /\ balance.quantity + move.quantity >= 0
      BY <1>2, <1>3, <1>5, <2>2 DEF ReadIssue
    <3> HIDE DEF move
    <3> QED
      BY <1>3, <2>2, <3>1, MovedType
  <2>4. amount(taken) \in Int
    BY <1>2, <1>3, <1>5, IssueAmountInt DEF ReadIssue
  <2>5. \A k \in DOMAIN left(taken) :
          k \in DOMAIN layers /\ left(taken)[k] \in 0 .. MaxQuantity
    <3> SUFFICES ASSUME NEW k \in DOMAIN layers, taken[k] > 0
                 PROVE  layers[k].remaining - taken[k] \in 0 .. MaxQuantity
      OBVIOUS
    <3>1. taken[k] \in Nat /\ taken[k] <= layers[k].remaining
      BY <2>1, StockConstants DEF TakesOldestFirst
    <3>2. layers[k].remaining \in Nat /\ layers[k].remaining <= MaxQuantity
      BY <1>3, LayerFields
    <3> QED
      BY <3>1, <3>2, StockConstants
  <2>6. /\ w(taken).doc = d /\ w(taken).call = "post" /\ w(taken).amount = amount(taken)
        /\ w(taken).move = move /\ w(taken).balance = Moved(move) /\ w(taken).left = left(taken)
    OBVIOUS
  <2>7. PICK v : v = w(taken)
    OBVIOUS
  <2> HIDE DEF w, move, amount, left
  <2>8. /\ v.doc = d /\ v.call = "post" /\ v.amount \in Int /\ v.move = move
        /\ v.balance \in BalanceRow
        /\ \A k \in DOMAIN v.left : k \in DOMAIN layers /\ v.left[k] \in 0 .. MaxQuantity
    BY <2>3, <2>4, <2>5, <2>6, <2>7
  <2>9. work' = [work EXCEPT ![s] = v] /\ v.move.quantity \in Int /\ v.move.value \in Int
    BY <1>2, <2>1, <2>2, <2>7, <2>8
  <2> QED
    BY <1>1, <2>8, <2>9, DecisionTyped
<1>6. ASSUME NEW date \in Dates, ReadReversal(s, d, date)
      PROVE  TypeInv'
  <2> DEFINE w == [call |-> "reverse", doc |-> d, date |-> date]
  <2>1. work' = [work EXCEPT ![s] = w]
    BY <1>6 DEF ReadReversal
  <2>2. w.call = "reverse" /\ w.doc = d /\ w.date = date
    OBVIOUS
  <2> HIDE DEF w
  <2> QED
    BY <1>1, <2>1, <2>2, DecisionTyped
<1> QED
  BY <1>4, <1>5, <1>6

\* A layer that is opened leaves well-formed layers.
LEMMA OpenedTyped ==
  ASSUME layers \in Seq(LayerRow), NEW l \in LayerRow
  PROVE  /\ Append(layers, l) \in Seq(LayerRow)
         /\ DOMAIN layers \subseteq DOMAIN Append(layers, l)
OBVIOUS

\* So do layers that are drawn down.
LEMMA DrawnTyped ==
  ASSUME layers \in Seq(LayerRow), NEW left, \A k \in DOMAIN left : left[k] \in 0 .. MaxQuantity
  PROVE  /\ Consume(left) \in Seq(LayerRow)
         /\ DOMAIN Consume(left) = DOMAIN layers
<1>1. \A k \in DOMAIN layers :
        (IF k \in DOMAIN left THEN [layers[k] EXCEPT !.remaining = left[k]] ELSE layers[k])
          \in LayerRow
  BY LayerFields DEF LayerRow
<1>2. DOMAIN layers = 1 .. Len(layers) /\ Len(layers) \in Nat
  OBVIOUS
<1> QED
  BY <1>1, <1>2 DEF Consume

\* A posting commits.
LEMMA PostTyped ==
  ASSUME TypeInv, NEW s \in Sessions, CommitPost(s)
  PROVE  TypeInv'
<1> DEFINE w == work[s]
<1>1. /\ w # Idle /\ w.call = "post" /\ work' = [work EXCEPT ![s] = Idle] /\ UNCHANGED item
      /\ layers' = LayersAfter(w) /\ AppendEntry(w.move) /\ balance' = Written(w)
  BY DEF CommitPost
<1>2. /\ w.doc \in Docs /\ doc[w.doc].status # "none" /\ w.amount \in Int
      /\ w.move.quantity \in Int /\ w.move.value \in Int /\ w.balance \in BalanceRow
      /\ \A k \in DOMAIN w.left : w.left[k] \in 0 .. MaxQuantity
  BY <1>1 DEF TypeInv, WorksTyped, WorkTyped
<1> DEFINE d == w.doc
<1>3. doc[d] \in DocRow /\ doc[d].quantity \in Quantities /\ doc[d].quantity \in Nat
      /\ doc[d].quantity <= MaxQuantity /\ doc[d].date \in Nat /\ doc[d].cost \in Int
  BY <1>2, DocFields DEF TypeInv
<1>4. layers \in Seq(LayerRow) /\ balance \in BalanceRow /\ gl \in Int
  BY DEF TypeInv, BooksTyped
<1>5. layers' \in Seq(LayerRow) /\ DOMAIN layers \subseteq DOMAIN layers'
  <2>1. CASE doc[d].direction = "in"
    <3> DEFINE l == Layer(d, FALSE, doc[d].date, doc[d].quantity, doc[d].cost)
    <3>1. l \in LayerRow
      BY <1>2, <1>3, StockConstants DEF Layer, LayerRow
    <3>2. layers' = Append(layers, l)
      BY <1>1, <2>1 DEF LayersAfter
    <3> HIDE DEF l
    <3> QED
      BY <1>4, <3>1, <3>2, OpenedTyped
  <2>2. CASE doc[d].direction # "in"
    <3>1. layers' = Consume(w.left)
      BY <1>1, <2>2 DEF LayersAfter
    <3> QED
      BY <1>2, <1>4, <3>1, DrawnTyped
  <2> QED
    BY <2>1, <2>2
<1>6. balance' \in BalanceRow
  <2>1. DOMAIN balance = {"quantity", "value", "avg"}
    BY <1>4 DEF BalanceRow
  <2>2. /\ balance.quantity \in Nat /\ balance.value \in Int /\ balance.avg \in Int
        /\ w.balance.quantity \in Nat /\ w.balance.value \in Int /\ w.balance.avg \in Int
    BY <1>2, <1>4 DEF BalanceRow
  <2>3. /\ balance' = [column \in {"quantity", "value", "avg"} |->
                         IF w.balance[column] = w.seen[column] THEN balance[column]
                         ELSE w.balance[column]]
    BY <1>1, <2>1 DEF Written
  <2>4. balance' = [quantity |-> balance'.quantity, value |-> balance'.value,
                    avg |-> balance'.avg]
    BY <2>3
  <2>5. balance'.quantity \in Nat /\ balance'.value \in Int /\ balance'.avg \in Int
    BY <2>2, <2>3
  <2> QED
    BY <2>4, <2>5 DEF BalanceRow
<1>7. gl' \in Int
  <2>1. Sign(doc[d].direction) \in {-1, 1}
    BY DEF Sign
  <2>2. gl' = gl + Sign(doc[d].direction) * w.amount
    BY DEF CommitPost
  <2> QED
    BY <1>2, <1>4, <2>1, <2>2
<1>8. /\ doc[d].reversed \in BOOLEAN
      /\ doc' = [doc EXCEPT ![d] = [doc[d] EXCEPT !.status = "posted", !.amount = w.amount,
                                                  !.reversed = doc[d].reversed]]
  <2>1. doc' = [doc EXCEPT ![d] = [doc[d] EXCEPT !.status = "posted", !.amount = w.amount]]
    BY <1>2 DEF CommitPost, TypeInv, DocsTyped
  <2>2. [doc[d] EXCEPT !.status = "posted", !.amount = w.amount] =
          [doc[d] EXCEPT !.status = "posted", !.amount = w.amount, !.reversed = doc[d].reversed]
    BY <1>3 DEF DocRow
  <2> QED
    BY <1>3, <2>1, <2>2 DEF DocRow
<1> QED
  BY <1>1, <1>2, <1>5, <1>6, <1>7, <1>8, CommitTyped

\* A reversal commits.
LEMMA ReverseTyped ==
  ASSUME TypeInv, NEW s \in Sessions, work[s] # Idle, work[s].call = "reverse",
         NEW d, d = work[s].doc,
         layers' \in Seq(LayerRow), DOMAIN layers \subseteq DOMAIN layers',
         NEW move, move.quantity \in Int, move.value \in Int,
         balance.quantity + move.quantity >= 0, Reverse(s, move)
  PROVE  TypeInv'
<1>1. d \in Docs /\ doc[d].status # "none"
  BY DEF TypeInv, WorksTyped, WorkTyped
<1>2. doc[d] \in DocRow /\ doc[d].amount \in Int
  BY <1>1, DocFields DEF TypeInv
<1>3. balance' \in BalanceRow
  BY MovedType DEF Reverse, TypeInv, BooksTyped
<1>4. gl' \in Int
  <2>1. Sign(doc[d].direction) \in {-1, 1}
    BY DEF Sign
  <2>2. gl' = gl - Sign(doc[d].direction) * doc[d].amount
    BY DEF Reverse
  <2> QED
    BY <1>2, <2>1, <2>2 DEF TypeInv, BooksTyped
<1>5. doc' = [doc EXCEPT ![d] = [doc[d] EXCEPT !.status = doc[d].status,
                                               !.amount = doc[d].amount, !.reversed = TRUE]]
  <2>1. doc' = [doc EXCEPT ![d] = [doc[d] EXCEPT !.reversed = TRUE]]
    BY DEF Reverse
  <2>2. [doc[d] EXCEPT !.reversed = TRUE] =
          [doc[d] EXCEPT !.status = doc[d].status, !.amount = doc[d].amount, !.reversed = TRUE]
    BY <1>2 DEF DocRow
  <2> QED
    BY <2>1, <2>2
<1>6. /\ work' = [work EXCEPT ![s] = Idle] /\ AppendEntry(move) /\ UNCHANGED item
  BY DEF Reverse
<1> QED
  BY <1>1, <1>2, <1>3, <1>4, <1>5, <1>6, CommitTyped

\* The reversal of a receipt takes its layer down, that of an issue opens one.
LEMMA ReversalTyped ==
  ASSUME TypeInv, NEW s \in Sessions, CommitReceiptReversal(s) \/ CommitIssueReversal(s)
  PROVE  TypeInv'
<1>0. PICK d : d = work[s].doc
  OBVIOUS
<1>1. work[s] # Idle /\ work[s].call = "reverse"
  BY DEF CommitReceiptReversal, CommitIssueReversal
<1>2. d \in Docs /\ doc[d].status # "none" /\ work[s].date \in Dates
  BY <1>0, <1>1 DEF TypeInv, WorksTyped, WorkTyped
<1>3. /\ doc[d].quantity \in Nat /\ doc[d].quantity > 0 /\ doc[d].quantity <= MaxQuantity
      /\ doc[d].quantity \in Int /\ doc[d].amount \in Int /\ doc[d].quantity \in Quantities
      /\ doc[d].quantity \in Nat \ {0}
  BY <1>2, DocFields DEF TypeInv
<1>4. layers \in Seq(LayerRow) /\ balance \in BalanceRow /\ balance.quantity \in Nat
  BY DEF TypeInv, BooksTyped, BalanceRow
<1>5. CASE CommitReceiptReversal(s)
  <2> DEFINE move == Outflow(doc[d].quantity)
  <2>1. PICK k \in DOMAIN layers :
          /\ layers[k].remaining >= doc[d].quantity
          /\ layers' = [layers EXCEPT ![k].remaining = @ - doc[d].quantity]
    BY <1>0, <1>5 DEF CommitReceiptReversal
  <2>2. doc[d].quantity <= balance.quantity /\ Reverse(s, move)
    BY <1>0, <1>5 DEF CommitReceiptReversal
  <2>3. [layers[k] EXCEPT !.remaining = layers[k].remaining - doc[d].quantity] \in LayerRow
    <3>1. layers[k].remaining - doc[d].quantity \in 0 .. MaxQuantity
      BY <1>3, <1>4, <2>1, LayerFields, StockConstants
    <3> QED
      BY <1>4, <3>1, LayerFields DEF LayerRow
  <2>4. layers' \in Seq(LayerRow) /\ DOMAIN layers' = DOMAIN layers
    BY <1>4, <2>1, <2>3
  <2>5. /\ move.quantity = -doc[d].quantity /\ move.value \in Int
        /\ move.quantity \in Int /\ balance.quantity + move.quantity >= 0
    <3>1. 0 \in Int /\ balance \in BalanceRow /\ doc[d].quantity \in Int
      BY <1>3, <1>4
    <3>2. \A q \in Int : Outflow(q).quantity = -q /\ Outflow(q).value \in Int
      BY <3>1, MovementInt
    <3>3. move.quantity = -doc[d].quantity /\ move.value \in Int
      BY <3>1, <3>2
    <3> HIDE DEF move
    <3> QED
      BY <1>3, <1>4, <2>2, <3>3
  <2> HIDE DEF move
  <2> QED
    BY <1>0, <1>1, <2>2, <2>4, <2>5, ReverseTyped
<1>6. CASE CommitIssueReversal(s)
  <2> DEFINE move == Inflow(doc[d].quantity, ReturnCost(d))
             l == Layer(d, TRUE, work[s].date, doc[d].quantity, ReturnCost(d))
  <2>1. layers' = Append(layers, l) /\ Reverse(s, move)
    BY <1>0, <1>6 DEF CommitIssueReversal
  <2>2. ReturnCost(d) \in Int
    <3>1. doc[d].amount * 100 \in Int
      BY <1>3
    <3> QED
      BY <1>3, <3>1, RoundNearest DEF ReturnCost
  <2>3. l \in LayerRow
    <3>1. Dates \subseteq Nat /\ MaxQuantity \in Nat
      BY StockConstants
    <3>2. work[s].date \in Nat
      BY <1>2, <3>1
    <3>3. doc[d].quantity \in 0 .. MaxQuantity
      BY <1>3, <3>1
    <3> QED
      BY <1>2, <1>3, <2>2, <3>2, <3>3 DEF Layer, LayerRow
  <2>4. /\ move.quantity = doc[d].quantity /\ move.value \in Int
        /\ move.quantity \in Int /\ balance.quantity + move.quantity >= 0
    <3>1. move.quantity = doc[d].quantity /\ move.value \in Int
      BY <1>3, <1>4, <2>2, MovementInt
    <3> HIDE DEF move
    <3> QED
      BY <1>3, <1>4, <3>1
  <2> HIDE DEF l, move
  <2>5. layers' \in Seq(LayerRow) /\ DOMAIN layers \subseteq DOMAIN layers'
    BY <1>4, <2>1, <2>3, OpenedTyped
  <2> QED
    BY <1>0, <1>1, <2>1, <2>4, <2>5, ReverseTyped
<1> QED
  BY <1>5, <1>6

\* Every step of every session keeps the stock well formed.
LEMMA StepTyped ==
  ASSUME TypeInv, [Next]_vars
  PROVE  TypeInv'
<1>1. CASE UNCHANGED vars
  BY <1>1 DEF vars, TypeInv, DocsTyped, BooksTyped, WorksTyped, WorkTyped
<1>2. ASSUME NEW method \in Methods, NEW standard \in Costs, UpdateItem(method, standard)
      PROVE  TypeInv'
  <2>1. item' \in [method : Methods, standard : Costs, fifo : BOOLEAN]
    BY <1>2 DEF UpdateItem, TypeInv, BooksTyped
  <2> QED
    BY <1>2, <2>1
    DEF UpdateItem, TypeInv, DocsTyped, BooksTyped, WorksTyped, WorkTyped
<1>3. ASSUME NEW s \in Sessions, Abort(s)
      PROVE  TypeInv'
  BY <1>3, DecisionTyped DEF Abort
<1> QED
  BY <1>1, <1>2, <1>3, DraftTyped, ReadTyped, PostTyped, ReversalTyped DEF Next, StockCall

\* The store starts well formed.
LEMMA StockStarts ==
  ASSUME Init
  PROVE  TypeInv
<1>1. DocsTyped
  <2> DEFINE base == Draft("in", 0, 0, 0)
             row == [base EXCEPT !.status = "none"]
  <2>0. base \in DocRow
    BY StockConstants DEF Draft, DocRow, Directions
  <2> HIDE DEF base
  <2>1. row \in DocRow /\ row.status = "none"
    BY <2>0 DEF DocRow
  <2>2. doc = [d \in Docs |-> row]
    BY DEF Init, base
  <2> HIDE DEF row
  <2> QED
    BY <2>1, <2>2 DEF DocsTyped
<1>2. BooksTyped
  BY DEF Init, BooksTyped, BalanceRow
<1>3. WorksTyped
  BY DEF Init, WorksTyped, WorkTyped
<1> QED
  BY <1>1, <1>2, <1>3 DEF TypeInv

\* Documents, layers, ledger and balance stay well formed, for any number of sessions, whatever
\* their calls overlap: no layer and no balance goes below zero, no unit cost is divided by it.
THEOREM StockTypeCorrect == Spec => []TypeOK
<1>1. Init => TypeInv
  BY StockStarts
<1>2. TypeInv => TypeOK
  BY DEF TypeInv, DocsTyped, BooksTyped, WorksTyped, WorkTyped, BalanceRow, TypeOK
<1> QED
  BY <1>1, <1>2, StepTyped, PTL DEF Spec

-------------------------------------------------------------------------------
(* Sums over the layers and over the documents, and how a call changes     *)
(* them.                                                                   *)

\* What the layers hold, what that cost, and what the documents move.
Held == [k \in DOMAIN layers |-> layers[k].remaining]
Worth == [k \in DOMAIN layers |-> layers[k].remaining * layers[k].cost]
Moves == [d \in Docs |-> Sign(doc[d].direction) * doc[d].quantity]

\* Opening a layer adds what it holds.
LEMMA OpenedSums ==
  ASSUME layers \in Seq(LayerRow), NEW l \in LayerRow, layers' = Append(layers, l)
  PROVE  /\ OnHand' = OnHand + l.remaining
         /\ LayerValue' = LayerValue + l.remaining * l.cost
<1> DEFINE n == Len(layers) + 1
           S == DOMAIN layers
<1>1. /\ n \notin S /\ IsFiniteSet(S)
      /\ DOMAIN layers' = S \cup {n}
      /\ \A k \in S : layers'[k] = layers[k]
      /\ layers'[n] = l
  BY LayerSums
<1>2. l.remaining \in Int /\ l.cost \in Int
  BY StockConstants DEF LayerRow
<1>3. \A k \in S : layers[k].remaining \in Int /\ layers[k].cost \in Int
  BY LayerFields
<1>4. OnHand = SumFunctionOnSet(Held, S) /\ LayerValue = SumFunctionOnSet(Worth, S)
  BY DEF OnHand, LayerValue, Held, Worth, SumFunction
<1>5. /\ OnHand' = SumFunctionOnSet(Held', S \cup {n})
      /\ LayerValue' = SumFunctionOnSet(Worth', S \cup {n})
  BY <1>1 DEF OnHand, LayerValue, Held, Worth, SumFunction
<1>6. /\ \A k \in S : /\ Held'[k] = Held[k] /\ Worth'[k] = Worth[k]
                      /\ Held'[k] \in Int /\ Worth'[k] \in Int
      /\ Held'[n] = l.remaining /\ Worth'[n] = l.remaining * l.cost
      /\ Held'[n] \in Int /\ Worth'[n] \in Int
  BY <1>1, <1>2, <1>3 DEF Held, Worth
<1> HIDE DEF n, S
<1>7. /\ SumFunctionOnSet(Held', S \cup {n}) = SumFunctionOnSet(Held', S) + Held'[n]
      /\ SumFunctionOnSet(Worth', S \cup {n}) = SumFunctionOnSet(Worth', S) + Worth'[n]
  BY <1>1, <1>6, SumAdd
<1>8. /\ SumFunctionOnSet(Held', S) = SumFunctionOnSet(Held, S)
      /\ SumFunctionOnSet(Worth', S) = SumFunctionOnSet(Worth, S)
  BY <1>1, <1>6, SumSame
<1> QED
  BY <1>4, <1>5, <1>6, <1>7, <1>8

\* Drawing layers down takes what is drawn.
LEMMA DrawnSums ==
  ASSUME layers \in Seq(LayerRow), NEW taken \in [DOMAIN layers -> Nat],
         DOMAIN layers' = DOMAIN layers,
         \A k \in DOMAIN layers : /\ layers'[k].remaining = layers[k].remaining - taken[k]
                                  /\ layers'[k].cost = layers[k].cost
  PROVE  /\ OnHand' = OnHand - SumFunction(taken)
         /\ LayerValue'
              = LayerValue - SumFunction([k \in DOMAIN layers |-> taken[k] * layers[k].cost])
<1> DEFINE S == DOMAIN layers
           drawn == [k \in S |-> taken[k] * layers[k].cost]
<1>1. IsFiniteSet(S)
  BY LayerSums
<1>2. \A k \in S : layers[k].remaining \in Int /\ layers[k].cost \in Int /\ taken[k] \in Int
  BY LayerFields
<1>3. /\ OnHand = SumFunctionOnSet(Held, S) /\ LayerValue = SumFunctionOnSet(Worth, S)
      /\ SumFunction(taken) = SumFunctionOnSet(taken, S)
      /\ SumFunction(drawn) = SumFunctionOnSet(drawn, S)
  BY DEF OnHand, LayerValue, Held, Worth, SumFunction
<1>4. OnHand' = SumFunctionOnSet(Held', S) /\ LayerValue' = SumFunctionOnSet(Worth', S)
  BY DEF OnHand, LayerValue, Held, Worth, SumFunction
<1>5. \A k \in S : /\ Held[k] \in Int /\ Worth[k] \in Int /\ drawn[k] \in Int
                   /\ Held'[k] = Held[k] - taken[k]
  BY <1>2 DEF Held, Worth
<1>6. \A k \in S : Worth'[k] = Worth[k] - drawn[k]
  <2> SUFFICES ASSUME NEW k \in S
               PROVE  Worth'[k] = Worth[k] - drawn[k]
    OBVIOUS
  <2>1. /\ Worth'[k] = (layers[k].remaining - taken[k]) * layers[k].cost
        /\ Worth[k] = layers[k].remaining * layers[k].cost
        /\ drawn[k] = taken[k] * layers[k].cost
    BY DEF Worth
  <2>2. \A a, b, c \in Int : (a - b) * c = a * c - b * c
    OBVIOUS
  <2> QED
    BY <1>2, <2>1, <2>2
<1> HIDE DEF S, drawn
<1>7. SumFunctionOnSet(Held', S) = SumFunctionOnSet(Held, S) - SumFunctionOnSet(taken, S)
  BY <1>1, <1>2, <1>5, SumMinus
<1>8. SumFunctionOnSet(Worth', S) = SumFunctionOnSet(Worth, S) - SumFunctionOnSet(drawn, S)
  BY <1>1, <1>5, <1>6, SumMinus
<1> QED
  BY <1>3, <1>4, <1>7, <1>8 DEF drawn, S

\* What the documents that stand have moved, and what rounding may cost on the posted ones.
NetMoved == SumFunctionOnSet(Moves, Standing)

\* Half a cent for a receipt and for each unit issued, and as much again for a reversal.
Units(d) == IF doc[d].direction = "in" THEN 1 ELSE doc[d].quantity
Allowed == [d \in Docs |-> Units(d) * (IF doc[d].reversed THEN 100 ELSE 50)]

\* How far the account is from the layers, in hundredths, and how far rounding may take it.
Error == 100 * gl - LayerValue
ErrorAllowed == SumFunctionOnSet(Allowed, Posted)

\* The sums over documents are numbers.
LEMMA DocSums ==
  ASSUME DocsTyped, IsFiniteSet(Posted)
  PROVE  /\ Standing \in SUBSET Posted /\ Posted \in SUBSET Docs /\ IsFiniteSet(Standing)
         /\ \A d \in Docs : Moves[d] \in Int /\ Allowed[d] \in Nat
         /\ NetMoved \in Int /\ ErrorAllowed \in Nat
         /\ NetMoved = SumFunction([d \in Standing |-> Sign(doc[d].direction) * doc[d].quantity])
<1>1. Standing \in SUBSET Posted /\ Posted \in SUBSET Docs
  BY DEF Standing, Posted
<1>2. IsFiniteSet(Standing)
  BY <1>1, FS_Subset
<1>3. \A d \in Docs : Moves[d] \in Int /\ Allowed[d] \in Nat
  BY DocFields DEF Moves, Allowed, Units, Sign
<1>4. NetMoved \in Int
  BY <1>1, <1>2, <1>3, SumInt DEF NetMoved
<1>5. ErrorAllowed \in Nat
  BY <1>1, <1>3, SumNat DEF ErrorAllowed
<1> DEFINE f == [d \in Standing |-> Sign(doc[d].direction) * doc[d].quantity]
<1>6. SumFunction(f) = SumFunctionOnSet(f, Standing)
  BY DEF SumFunction
<1>7. \A d \in Standing : f[d] = Moves[d]
  BY <1>1 DEF Moves
<1> HIDE DEF f
<1>8. SumFunctionOnSet(f, Standing) = SumFunctionOnSet(Moves, Standing)
  BY <1>2, <1>7, SumSame
<1> QED
  BY <1>1, <1>2, <1>3, <1>4, <1>5, <1>6, <1>8 DEF NetMoved, f

-------------------------------------------------------------------------------
(* Layers and documents agree when calls do not overlap: what a call has   *)
(* decided is still what the layers and its document say when it commits.  *)

\* What an issue takes from the layers is what it leaves of them, and under FIFO its cost.
Draws(w, taken) ==
  /\ SumFunction(taken) = doc[w.doc].quantity
  /\ \A k \in DOMAIN layers : taken[k] <= layers[k].remaining
  /\ w.left = [k \in {j \in DOMAIN layers : taken[j] > 0} |-> layers[k].remaining - taken[k]]
  /\ item.fifo =>
       w.amount = SumFunction([k \in DOMAIN layers |-> Amount(taken[k], layers[k].cost)])

\* What a session has decided is what it would decide again.
Made(w) ==
  w # Idle =>
    /\ w.call = "reverse" => w.doc \in Standing
    /\ w.call = "post" => Postable(w.doc)
    /\ w.call = "post" /\ doc[w.doc].direction = "in" =>
         /\ w.amount = Amount(doc[w.doc].quantity, doc[w.doc].cost)
         /\ w.move.quantity = doc[w.doc].quantity
    /\ w.call = "post" /\ doc[w.doc].direction = "out" =>
         /\ w.move.quantity = -doc[w.doc].quantity
         /\ \E taken \in [DOMAIN layers -> 0 .. MaxQuantity] : Draws(w, taken)

\* A layer that did not come back is that of a posted receipt, at its cost.
LayersOwn ==
  \A k \in DOMAIN layers :
    ~layers[k].back =>
      /\ layers[k].doc \in Posted /\ doc[layers[k].doc].direction = "in"
      /\ layers[k].cost = doc[layers[k].doc].cost
      /\ doc[layers[k].doc].amount
           = Amount(doc[layers[k].doc].quantity, doc[layers[k].doc].cost)

\* Only what was posted is reversed.
OnlyPostedReversed == \A d \in Docs : doc[d].reversed => doc[d].status = "posted"

\* The layers hold what was moved, at the value in the account but for the rounding.
Totals ==
  /\ IsFiniteSet(Posted)
  /\ OnHand = balance.quantity /\ OnHand = NetMoved
  /\ item.fifo => item.method = "fifo" /\ -ErrorAllowed <= Error /\ Error <= ErrorAllowed

\* The inductive invariant of one session.
StockInv ==
  /\ TypeInv /\ BooksInv /\ LayersOwn /\ OnlyPostedReversed /\ Totals
  /\ \A s \in Sessions : Made(work[s])

\* What was decided stays right while documents, layers and method do.
LEMMA MadeStays ==
  ASSUME UNCHANGED <<item, doc, layers>>, NEW t, Made(work'[t])
  PROVE  Made(work[t])'
BY DEF Made, Draws, Standing, Postable

\* A session that decides, or ends without a write, leaves what the others rest on.
LEMMA DecisionAgrees ==
  ASSUME StockInv, TypeInv', BooksInv', UNCHANGED <<item, doc, layers, entries, balance, gl>>,
         NEW s \in Sessions, NEW w, work' = [work EXCEPT ![s] = w], Made(w)
  PROVE  StockInv'
<1>1. LayersOwn' /\ OnlyPostedReversed'
  BY DEF StockInv, LayersOwn, OnlyPostedReversed, Posted
<1>2. Totals'
  BY DEF StockInv, Totals, Posted, Standing, OnHand, LayerValue, NetMoved, Moves, ErrorAllowed,
         Allowed, Units, Error
<1>3. \A t \in Sessions : work'[t] = w \/ work'[t] = work[t]
  BY DEF StockInv, TypeInv, WorksTyped
<1>4. \A t \in Sessions : Made(work'[t])
  BY <1>3 DEF StockInv
<1>5. \A t \in Sessions : Made(work[t])'
  BY <1>4, MadeStays
<1> QED
  BY <1>1, <1>2, <1>5 DEF StockInv

\* A document that is not posted, and that no session posts, may be written over; so may the
\* item, as long as it does not claim a method it left.
LEMMA DraftAgrees ==
  ASSUME StockInv, TypeInv', BooksInv', UNCHANGED <<layers, balance, gl, work>>,
         item'.fifo => item.fifo /\ item'.method = "fifo",
         \A e \in Docs :
           \/ doc'[e] = doc[e]
           \/ /\ doc[e].status # "posted" /\ doc'[e].status # "posted" /\ ~doc'[e].reversed
              /\ \A s \in Sessions : work[s] # Idle => work[s].doc # e
  PROVE  StockInv'
<1>1. Posted' = Posted /\ Standing' = Standing
  BY DEF Posted, Standing
<1>2. \A e \in Posted : doc'[e] = doc[e]
  BY DEF Posted
<1>3. OnlyPostedReversed' /\ LayersOwn'
  BY <1>1, <1>2 DEF StockInv, OnlyPostedReversed, LayersOwn
<1>4. DocsTyped /\ DocsTyped' /\ IsFiniteSet(Posted) /\ IsFiniteSet(Standing)
  BY DocSums DEF StockInv, TypeInv, Totals
<1>5. Standing \in SUBSET Posted /\ Posted \in SUBSET Docs
  BY <1>4, DocSums
<1>6. NetMoved' = NetMoved
  <2>1. \A e \in Standing : Moves'[e] = Moves[e]
    BY <1>2, <1>5 DEF Moves
  <2> QED
    BY <1>1, <1>4, <2>1, SumSame DEF NetMoved
<1>7. ErrorAllowed' = ErrorAllowed
  <2>1. \A e \in Posted : Allowed'[e] = Allowed[e]
    BY <1>2, <1>5 DEF Allowed, Units
  <2> QED
    BY <1>1, <1>4, <2>1, SumSame DEF ErrorAllowed
<1>8. OnHand' = OnHand /\ Error' = Error
  BY DEF OnHand, Error, LayerValue
<1>9. Totals'
  BY <1>1, <1>4, <1>6, <1>7, <1>8 DEF StockInv, Totals
<1>10. ASSUME NEW s \in Sessions
       PROVE  Made(work[s])'
  <2>1. CASE work[s] = Idle
    BY <2>1 DEF Made
  <2>2. CASE work[s] # Idle
    <3>1. work[s].doc \in Docs /\ doc'[work[s].doc] = doc[work[s].doc]
      BY <2>2 DEF StockInv, TypeInv, WorksTyped, WorkTyped
    <3>2. Made(work[s])
      BY DEF StockInv
    <3>3. work[s].call = "reverse" => work'[s].doc \in Standing'
      BY <1>1, <2>2, <3>2 DEF Made
    <3>4. \A taken : Draws(work[s], taken) => Draws(work[s], taken)'
      BY <3>1 DEF Draws
    <3>5. Postable(work[s].doc) => Postable(work[s].doc)'
      BY <3>1 DEF Postable
    <3> QED
      BY <2>2, <3>1, <3>2, <3>3, <3>4, <3>5 DEF Made
  <2> QED
    BY <2>1, <2>2
<1> QED
  BY <1>3, <1>9, <1>10 DEF StockInv

\* A draft call writes a document that is not posted; the item forgets that it was never but
\* under FIFO once it is given another method.
LEMMA EditAgrees ==
  ASSUME StockInv, TypeInv', BooksInv',
         \/ \E d \in Docs : DraftCall(d)
         \/ \E method \in Methods, standard \in Costs : UpdateItem(method, standard)
  PROVE  StockInv'
<1>1. ASSUME NEW d \in Docs, DraftCall(d)
      PROVE  StockInv'
  <2>1. UNCHANGED <<item, layers, balance, gl, work>>
    BY <1>1 DEF DraftCall, CreateDraft, UpdateDraft, Submit, CancelDraft
  <2>2. item'.fifo => item.fifo /\ item'.method = "fifo"
    BY <2>1 DEF StockInv, Totals
  <2>3. /\ doc[d].status # "posted"
        /\ \A s \in Sessions : work[s] # Idle => work[s].doc # d
    BY <1>1 DEF DraftCall, CreateDraft, UpdateDraft, Submit, CancelDraft, InFlight, StockInv,
                TypeInv, WorksTyped, WorkTyped
  <2>4. PICK row : /\ doc' = [doc EXCEPT ![d] = row]
                   /\ row.status # "posted" /\ (row.reversed => doc[d].reversed)
    <3>1. \A direction, quantity, cost, date :
            /\ Draft(direction, quantity, cost, date).status # "posted"
            /\ ~Draft(direction, quantity, cost, date).reversed
      BY DEF Draft
    <3>2. ASSUME NEW status, status # "posted", doc' = [doc EXCEPT ![d].status = status]
          PROVE  \E row : /\ doc' = [doc EXCEPT ![d] = row]
                          /\ row.status # "posted" /\ (row.reversed => doc[d].reversed)
      <4>1. doc[d] \in DocRow
        BY DocFields DEF StockInv, TypeInv
      <4> DEFINE row == [doc[d] EXCEPT !.status = status]
      <4>2. row.status = status /\ row.reversed = doc[d].reversed
        BY <4>1 DEF DocRow
      <4>3. doc' = [doc EXCEPT ![d] = row]
        BY <3>2
      <4> HIDE DEF row
      <4> QED
        BY <3>2, <4>2, <4>3
    <3>3. CASE Submit(d) \/ CancelDraft(d)
      BY <3>2, <3>3 DEF Submit, CancelDraft
    <3>4. CASE \E direction, quantity, cost, date :
                 doc' = [doc EXCEPT ![d] = Draft(direction, quantity, cost, date)]
      BY <3>1, <3>4
    <3> QED
      BY <1>1, <3>3, <3>4 DEF DraftCall, CreateDraft, UpdateDraft
  <2>5. ~doc[d].reversed
    BY <2>3 DEF StockInv, OnlyPostedReversed
  <2>6. \A e \in Docs :
           \/ doc'[e] = doc[e]
           \/ /\ doc[e].status # "posted" /\ doc'[e].status # "posted" /\ ~doc'[e].reversed
              /\ \A s \in Sessions : work[s] # Idle => work[s].doc # e
    BY <2>3, <2>4, <2>5 DEF StockInv, TypeInv, DocsTyped
  <2> QED
    BY <2>1, <2>2, <2>6, DraftAgrees
<1>2. ASSUME NEW method \in Methods, NEW standard \in Costs, UpdateItem(method, standard)
      PROVE  StockInv'
  BY <1>2, DraftAgrees DEF UpdateItem
<1> QED
  BY <1>1, <1>2

\* What a call decides is right when it decides it.
LEMMA ReadAgrees ==
  ASSUME StockInv, TypeInv', BooksInv', NEW s \in Sessions, NEW d \in Docs,
         ReadReceipt(s, d) \/ ReadIssue(s, d) \/ \E date \in Dates : ReadReversal(s, d, date)
  PROVE  StockInv'
<1>1. UNCHANGED <<item, doc, layers, entries, balance, gl>>
  BY DEF ReadReceipt, ReadIssue, ReadReversal
<1>2. CASE ReadReceipt(s, d)
  <2> DEFINE move == Inflow(doc[d].quantity, doc[d].cost)
             amount == Amount(doc[d].quantity, doc[d].cost)
             w == [call |-> "post", doc |-> d, amount |-> amount,
                   left |-> <<>>, move |-> move, seen |-> balance, balance |-> Moved(move)]
  <2>1. work' = [work EXCEPT ![s] = w] /\ doc[d].direction = "in" /\ Postable(d)
    BY <1>2 DEF ReadReceipt
  <2>2. /\ w.call = "post" /\ w.doc = d /\ w.amount = amount /\ w.move = move
        /\ move.quantity = doc[d].quantity
    BY DEF Inflow
  <2> HIDE DEF w, move
  <2>3. Made(w)
    BY <2>1, <2>2 DEF Made
  <2> QED
    BY <1>1, <2>1, <2>3, DecisionAgrees
<1>3. CASE ReadIssue(s, d)
  <2> DEFINE move == Outflow(doc[d].quantity)
             left(taken) == [k \in {j \in DOMAIN layers : taken[j] > 0} |->
                               layers[k].remaining - taken[k]]
             w(taken) == [call |-> "post", doc |-> d,
                          amount |-> IssueAmount(taken, doc[d].quantity),
                          left |-> left(taken),
                          move |-> move, seen |-> balance, balance |-> Moved(move)]
  <2>1. PICK taken \in [DOMAIN layers -> 0 .. MaxQuantity] :
          TakesOldestFirst(taken, doc[d].quantity) /\ work' = [work EXCEPT ![s] = w(taken)]
    BY <1>3 DEF ReadIssue
  <2>2. doc[d].direction = "out" /\ Postable(d)
    BY <1>3 DEF ReadIssue
  <2>3. /\ w(taken).doc = d /\ w(taken).call = "post"
        /\ w(taken).amount = IssueAmount(taken, doc[d].quantity)
        /\ w(taken).move = move /\ w(taken).left = left(taken)
        /\ move.quantity = -doc[d].quantity
    BY DEF Outflow
  <2>4. PICK v : v = w(taken)
    OBVIOUS
  <2> HIDE DEF w, move
  <2>5. item.fifo =>
          IssueAmount(taken, doc[d].quantity)
            = SumFunction([k \in DOMAIN layers |-> Amount(taken[k], layers[k].cost)])
    BY DEF IssueAmount, StockInv, Totals
  <2>6. Draws(v, taken)
    BY <2>1, <2>3, <2>4, <2>5 DEF Draws, TakesOldestFirst
  <2>7. Made(v)
    BY <2>1, <2>2, <2>3, <2>4, <2>6 DEF Made
  <2>8. work' = [work EXCEPT ![s] = v]
    BY <2>1, <2>4
  <2> QED
    BY <1>1, <2>7, <2>8, DecisionAgrees
<1>4. ASSUME NEW date \in Dates, ReadReversal(s, d, date)
      PROVE  StockInv'
  <2> DEFINE w == [call |-> "reverse", doc |-> d, date |-> date]
  <2>1. work' = [work EXCEPT ![s] = w] /\ d \in Standing
    BY <1>4 DEF ReadReversal, Standing
  <2>2. w.call = "reverse" /\ w.doc = d
    OBVIOUS
  <2> HIDE DEF w
  <2>3. Made(w)
    BY <2>1, <2>2 DEF Made
  <2> QED
    BY <1>1, <2>1, <2>3, DecisionAgrees
<1> QED
  BY <1>2, <1>3, <1>4

\* An amount is within half a cent of the exact product.
LEMMA AmountNear ==
  ASSUME NEW quantity \in Int, NEW cost \in Int
  PROVE  /\ Amount(quantity, cost) \in Int
         /\ 100 * Amount(quantity, cost) - quantity * cost <= 50
         /\ quantity * cost - 100 * Amount(quantity, cost) <= 50
<1>1. ASSUME NEW n \in Int
      PROVE  /\ Round(n, 100) \in Int
             /\ 100 * Round(n, 100) - n <= 50 /\ n - 100 * Round(n, 100) <= 50
  <2>1. /\ Round(n, 100) \in Int
        /\ 2 * (n - 100 * Round(n, 100)) <= 100
        /\ 2 * (100 * Round(n, 100) - n) <= 100
    BY RoundNearest
  <2> QED
    BY <2>1
<1>2. quantity * cost \in Int
  OBVIOUS
<1> QED
  BY <1>1, <1>2 DEF Amount

\* An amount in hundredths is half a cent or less from its product for each unit, and nothing
\* costs nothing.
LEMMA UnitsNear ==
  ASSUME NEW quantity \in Nat, NEW cost \in Int, NEW m, m = Amount(quantity, cost),
         NEW x, x = quantity * cost
  PROVE  /\ m \in Int /\ x \in Int /\ 100 * m \in Int /\ 50 * quantity \in Int
         /\ 100 * m - x \in Int /\ x - 100 * m \in Int
         /\ 100 * m - x <= 50 * quantity /\ x - 100 * m <= 50 * quantity
<1>1. m \in Int /\ x \in Int /\ 100 * m - x <= 50 /\ x - 100 * m <= 50
  BY AmountNear
<1>2. CASE quantity = 0
  <2>1. x = 0
    BY <1>2
  <2>2. m = Round(0, 100)
    BY <1>2, <2>1 DEF Amount
  <2>3. Round(0, 100) = 0
    BY DEF Round
  <2> QED
    BY <1>2, <2>1, <2>2, <2>3
<1>3. CASE quantity # 0
  BY <1>1, <1>3
<1> QED
  BY <1>2, <1>3

\* What moves the account and the layers by nearly the same moves the error by little.
LEMMA ErrorMoves ==
  ASSUME gl \in Int, LayerValue \in Int, NEW m \in Int, NEW x \in Int, NEW u \in Int,
         100 * m - x <= 50 * u, x - 100 * m <= 50 * u,
         \/ gl' = gl + m /\ LayerValue' = LayerValue + x
         \/ gl' = gl - m /\ LayerValue' = LayerValue - x
  PROVE  Error' - Error <= 50 * u /\ Error - Error' <= 50 * u
<1>1. PICK g, v \in Int : g = gl /\ v = LayerValue
  OBVIOUS
<1>2. Error = 100 * g - v
  BY <1>1 DEF Error
<1>3. CASE gl' = gl + m /\ LayerValue' = LayerValue + x
  <2>1. Error' = 100 * (g + m) - (v + x)
    BY <1>1, <1>3 DEF Error
  <2> QED
    BY <1>2, <2>1
<1>4. CASE gl' = gl - m /\ LayerValue' = LayerValue - x
  <2>1. Error' = 100 * (g - m) - (v - x)
    BY <1>1, <1>4 DEF Error
  <2> QED
    BY <1>2, <2>1
<1> QED
  BY <1>3, <1>4

\* What an issue draws is booked within half a cent of each unit: a layer it takes nothing from
\* costs nothing.
LEMMA DrawnNear ==
  ASSUME layers \in Seq(LayerRow), NEW taken \in [DOMAIN layers -> Nat],
         NEW amount, NEW worth, NEW units,
         amount = SumFunction([k \in DOMAIN layers |-> Amount(taken[k], layers[k].cost)]),
         worth = SumFunction([k \in DOMAIN layers |-> taken[k] * layers[k].cost]),
         units = SumFunction(taken)
  PROVE  /\ amount \in Int /\ worth \in Int /\ units \in Nat
         /\ 100 * amount - worth <= 50 * units /\ worth - 100 * amount <= 50 * units
<1> DEFINE S == DOMAIN layers
           a == [k \in S |-> Amount(taken[k], layers[k].cost)]
           c == [k \in S |-> 100 * a[k]]
           w == [k \in S |-> taken[k] * layers[k].cost]
           t == [k \in S |-> 50 * taken[k]]
           over == [k \in S |-> c[k] - w[k]]
           under == [k \in S |-> w[k] - c[k]]
           Sum(f) == SumFunctionOnSet(f, S)
<1>1. IsFiniteSet(S)
  BY LayerSums
<1>2. ASSUME NEW k \in S
      PROVE  /\ a[k] \in Int /\ c[k] \in Int /\ w[k] \in Int /\ t[k] \in Int
             /\ taken[k] \in Int /\ taken[k] \in Nat
             /\ over[k] \in Int /\ under[k] \in Int /\ over[k] <= t[k] /\ under[k] <= t[k]
  <2>1. taken[k] \in Nat /\ layers[k].cost \in Int /\ taken[k] \in Int
    BY LayerFields
  <2>2. /\ a[k] = Amount(taken[k], layers[k].cost) /\ w[k] = taken[k] * layers[k].cost
        /\ c[k] = 100 * a[k] /\ t[k] = 50 * taken[k]
        /\ over[k] = c[k] - w[k] /\ under[k] = w[k] - c[k]
    OBVIOUS
  <2>3. /\ a[k] \in Int /\ w[k] \in Int /\ 100 * a[k] \in Int /\ 50 * taken[k] \in Int
        /\ 100 * a[k] - w[k] \in Int /\ w[k] - 100 * a[k] \in Int
        /\ 100 * a[k] - w[k] <= 50 * taken[k] /\ w[k] - 100 * a[k] <= 50 * taken[k]
    <3>1. a[k] = Amount(taken[k], layers[k].cost) /\ w[k] = taken[k] * layers[k].cost
      BY <2>2
    <3> HIDE DEF a, c, w, t, over, under
    <3> QED
      BY <2>1, <3>1, UnitsNear
  <2>4. over[k] = 100 * a[k] - w[k] /\ under[k] = w[k] - 100 * a[k]
    BY <2>2
  <2>5. c[k] = 100 * a[k] /\ t[k] = 50 * taken[k]
    BY <2>2
  <2> HIDE DEF a, c, w, t, over, under
  <2> QED
    BY <2>1, <2>3, <2>4, <2>5
<1>3. /\ amount = Sum(a) /\ worth = Sum(w) /\ units = Sum(taken)
  BY DEF SumFunction
<1>4. /\ \A k \in S : a[k] \in Int /\ c[k] = 100 * a[k]
      /\ \A k \in S : taken[k] \in Int /\ t[k] = 50 * taken[k]
      /\ \A k \in S : c[k] \in Int /\ w[k] \in Int /\ over[k] = c[k] - w[k]
                      /\ under[k] = w[k] - c[k]
      /\ \A k \in S : over[k] \in Int /\ under[k] \in Int /\ t[k] \in Int
                      /\ over[k] <= t[k] /\ under[k] <= t[k]
  BY <1>2
<1>5. \A k \in S : taken[k] \in Nat
  BY <1>2
<1> HIDE DEF S, a, c, w, t, over, under
<1>6. 100 \in Int /\ 50 \in Int
  OBVIOUS
<1>7. Sum(c) = 100 * Sum(a)
  BY <1>1, <1>4, <1>6, SumScale
<1>8. Sum(t) = 50 * Sum(taken)
  BY <1>1, <1>4, <1>6, SumScale
<1>9. Sum(over) = Sum(c) - Sum(w) /\ Sum(under) = Sum(w) - Sum(c)
  BY <1>1, <1>4, SumMinus
<1>10. Sum(over) <= Sum(t) /\ Sum(under) <= Sum(t)
  BY <1>1, <1>4, SumLeq
<1>11. Sum(a) \in Int /\ Sum(w) \in Int /\ Sum(taken) \in Nat
  BY <1>1, <1>4, <1>5, SumInt, SumNat
<1> QED
  BY <1>3, <1>7, <1>8, <1>9, <1>10, <1>11

\* A document that is posted, or one that stands and is reversed, moves the totals alike: its
\* quantity enters or leaves the stock, and it may cost its share of rounding.
LEMMA DocCounts ==
  ASSUME DocsTyped, DocsTyped', IsFiniteSet(Posted), OnlyPostedReversed,
         NEW d \in Docs, NEW row, doc' = [doc EXCEPT ![d] = row], row.status = "posted",
         row.direction = doc[d].direction, row.quantity = doc[d].quantity,
         NEW n,
         \/ doc[d].status # "posted" /\ row.reversed = doc[d].reversed /\ n = Moves[d]
         \/ d \in Standing /\ row.reversed /\ n = -Moves[d]
  PROVE  /\ IsFiniteSet(Posted') /\ Posted' = Posted \cup {d}
         /\ OnlyPostedReversed'
         /\ NetMoved' = NetMoved + n
         /\ ErrorAllowed' = ErrorAllowed + 50 * Units(d)
<1>1. doc'[d] = row /\ \A e \in Docs \ {d} : doc'[e] = doc[e]
  BY DEF DocsTyped
<1>2. Posted' = Posted \cup {d}
  BY <1>1 DEF Posted
<1>3. IsFiniteSet(Posted') /\ IsFiniteSet(Standing)
  BY <1>2, FS_AddElement, DocSums
<1>4. OnlyPostedReversed'
  BY <1>1 DEF OnlyPostedReversed
<1>5. /\ \A e \in Docs : Moves[e] \in Int /\ Allowed[e] \in Int /\ Moves'[e] = Moves[e]
                         /\ Moves'[e] \in Int /\ Allowed'[e] \in Int
      /\ \A e \in Docs \ {d} : Allowed'[e] = Allowed[e]
      /\ Standing \in SUBSET Posted /\ Posted \in SUBSET Docs
      /\ NetMoved \in Int /\ ErrorAllowed \in Int
  <2>1. \A e \in Docs : Moves'[e] = Moves[e]
    BY <1>1 DEF Moves
  <2>2. \A e \in Docs \ {d} : Allowed'[e] = Allowed[e]
    BY <1>1 DEF Allowed, Units
  <2>3. \A e \in Docs : Moves[e] \in Int /\ Allowed[e] \in Nat
    BY DocSums
  <2>4. \A e \in Docs : Allowed'[e] \in Nat
    BY <1>3, DocFields DEF Allowed, Units, DocsTyped, DocRow
  <2> QED
    BY <2>1, <2>2, <2>3, <2>4, DocSums
<1>6. \A u \in {Units(d)} : u \in Nat
  BY DocFields DEF Units
<1>7. /\ Allowed[d] = Units(d) * (IF doc[d].reversed THEN 100 ELSE 50)
      /\ Allowed'[d] = Units(d) * (IF row.reversed THEN 100 ELSE 50)
  BY <1>1 DEF Allowed, Units
<1>8. SumFunctionOnSet(Moves', Standing) = SumFunctionOnSet(Moves, Standing)
  BY <1>3, <1>5, SumSame
<1>9. CASE doc[d].status # "posted" /\ row.reversed = doc[d].reversed /\ n = Moves[d]
  <2>1. ~row.reversed /\ d \notin Posted /\ d \notin Standing
    BY <1>9 DEF OnlyPostedReversed, Posted, Standing
  <2>2. Standing' = Standing \cup {d}
    BY <1>1, <2>1 DEF Standing
  <2>3. NetMoved' = NetMoved + n
    <3>1. SumFunctionOnSet(Moves', Standing \cup {d})
            = SumFunctionOnSet(Moves', Standing) + Moves'[d]
      BY <1>3, <1>5, <2>1, SumAdd
    <3> QED
      BY <1>5, <1>8, <1>9, <2>2, <3>1 DEF NetMoved
  <2>4. ErrorAllowed' = ErrorAllowed + Units(d) * 50
    <3>1. SumFunctionOnSet(Allowed', Posted \cup {d})
            = SumFunctionOnSet(Allowed', Posted) + Allowed'[d]
      BY <1>5, <2>1, SumAdd
    <3>2. SumFunctionOnSet(Allowed', Posted) = SumFunctionOnSet(Allowed, Posted)
      <4>1. \A e \in Posted : Allowed'[e] = Allowed[e]
        BY <1>5, <2>1
      <4> QED
        BY <4>1, SumSame
    <3> QED
      BY <1>2, <1>7, <2>1, <3>1, <3>2 DEF ErrorAllowed
  <2> QED
    BY <1>2, <1>3, <1>4, <1>6, <2>3, <2>4
<1>10. CASE d \in Standing /\ row.reversed /\ n = -Moves[d]
  <2>1. ~doc[d].reversed /\ d \in Posted /\ Posted \cup {d} = Posted
    BY <1>10 DEF Posted, Standing
  <2>2. Standing' = Standing \ {d} /\ IsFiniteSet(Standing \ {d})
    BY <1>1, <1>3, <1>10, FS_Subset DEF Standing
  <2>3. NetMoved' = NetMoved + n
    <3>1. SumFunctionOnSet(Moves', Standing) = Moves'[d] + SumFunctionOnSet(Moves', Standing \ {d})
      BY <1>3, <1>5, <1>10, SumRemove
    <3>2. SumFunctionOnSet(Moves', Standing \ {d}) \in Int
      BY <1>5, <2>2, SumInt
    <3> QED
      BY <1>5, <1>8, <1>10, <2>2, <3>1, <3>2 DEF NetMoved
  <2>4. ErrorAllowed' = ErrorAllowed + (Units(d) * 100 - Units(d) * 50)
    <3>1. SumFunctionOnSet(Allowed', Posted)
            = SumFunctionOnSet(Allowed, Posted) + (Allowed'[d] - Allowed[d])
      BY <1>5, <2>1, SumChange
    <3> QED
      BY <1>2, <1>7, <1>10, <2>1, <3>1 DEF ErrorAllowed
  <2>5. ErrorAllowed' = ErrorAllowed + 50 * Units(d)
    <3>1. \A u \in Nat : u * 100 - u * 50 = 50 * u
      OBVIOUS
    <3> QED
      BY <1>6, <2>4, <3>1
  <2> QED
    BY <1>2, <1>3, <1>4, <2>3, <2>5
<1> QED
  BY <1>9, <1>10

\* A call that commits leaves the totals in step when layers and balance move by what its
\* document moves, and the account by no more than its share of rounding from their cost.
LEMMA CommitAgrees ==
  ASSUME OneSession, StockInv, TypeInv', BooksInv', UNCHANGED item,
         NEW s \in Sessions, work' = [work EXCEPT ![s] = Idle],
         NEW d \in Docs, NEW row, doc' = [doc EXCEPT ![d] = row], row.status = "posted",
         row.direction = doc[d].direction, row.quantity = doc[d].quantity,
         NEW n,
         \/ doc[d].status # "posted" /\ row.reversed = doc[d].reversed /\ n = Moves[d]
         \/ d \in Standing /\ row.reversed /\ n = -Moves[d],
         LayersOwn', OnHand' = OnHand + n, balance'.quantity = balance.quantity + n,
         item.fifo => /\ Error' - Error <= 50 * Units(d)
                      /\ Error - Error' <= 50 * Units(d)
  PROVE  StockInv'
<1>1. DocsTyped /\ DocsTyped' /\ IsFiniteSet(Posted) /\ OnlyPostedReversed
  BY DEF StockInv, TypeInv, Totals
<1>2. /\ IsFiniteSet(Posted') /\ OnlyPostedReversed'
      /\ NetMoved' = NetMoved + n /\ ErrorAllowed' = ErrorAllowed + 50 * Units(d)
  BY <1>1, DocCounts
<1>3. \A t \in Sessions : Made(work[t])'
  <2>1. \A t \in Sessions : work'[t] = Idle
    BY DEF OneSession, StockInv, TypeInv, WorksTyped
  <2> QED
    BY <2>1 DEF Made
<1>4. /\ Error \in Int /\ Error' \in Int /\ ErrorAllowed \in Int /\ 50 * Units(d) \in Int
  <2>1. LayerValue \in Int /\ LayerValue' \in Int
    <3>1. layers \in Seq(LayerRow) /\ layers' \in Seq(LayerRow)
      BY DEF StockInv, TypeInv, BooksTyped
    <3>2. LayerValue \in Int
      BY <3>1, LayerSums
    <3>3. ASSUME NEW ls, ls = layers', ls \in Seq(LayerRow)
          PROVE  LayerValue' \in Int
      <4> DEFINE S == DOMAIN ls
                 worth == [k \in S |-> ls[k].remaining * ls[k].cost]
      <4>1. IsFiniteSet(S)
        <5>1. S = 1 .. Len(ls) /\ Len(ls) \in Nat
          BY <3>3
        <5> QED
          BY <5>1, FS_Interval
      <4>2. \A k \in S : worth[k] \in Int
        <5>1. \A k \in S : ls[k] \in LayerRow
          BY <3>3
        <5>2. \A k \in S : ls[k].remaining \in Int /\ ls[k].cost \in Int
          BY <5>1, StockConstants DEF LayerRow
        <5> QED
          BY <5>2
      <4>3. LayerValue' = SumFunctionOnSet(worth, S)
        BY <3>3 DEF LayerValue, SumFunction
      <4> HIDE DEF worth, S
      <4> QED
        BY <4>1, <4>2, <4>3, SumInt
    <3> QED
      BY <3>1, <3>2, <3>3
  <2>2. gl \in Int /\ gl' \in Int
    BY DEF StockInv, TypeInv, BooksTyped
  <2>3. ErrorAllowed \in Nat
    BY <1>1, DocSums
  <2>4. Units(d) \in Int
    BY <1>1, DocFields DEF Units
  <2> QED
    BY <2>1, <2>2, <2>3, <2>4 DEF Error
<1>5. Totals'
  <2>1. item'.fifo => item'.method = "fifo" /\ -ErrorAllowed' <= Error' /\ Error' <= ErrorAllowed'
    <3>1. ASSUME item.fifo
          PROVE  -ErrorAllowed' <= Error' /\ Error' <= ErrorAllowed'
      <4>1. -ErrorAllowed <= Error /\ Error <= ErrorAllowed
        BY <3>1 DEF StockInv, Totals
      <4>2. ErrorAllowed' = ErrorAllowed + 50 * Units(d)
        BY <1>2
      <4>3. Error' - Error <= 50 * Units(d) /\ Error - Error' <= 50 * Units(d)
        BY <3>1
      <4> HIDE DEF StockInv
      <4>4. \A e, f, a, b, u \in Int :
              -a <= e /\ e <= a /\ b = a + u /\ f - e <= u /\ e - f <= u => -b <= f /\ f <= b
        OBVIOUS
      <4>5. ErrorAllowed' \in Int
        BY <1>4, <4>2
      <4> QED
        BY <1>4, <4>1, <4>2, <4>3, <4>4, <4>5
    <3> QED
      BY <3>1 DEF StockInv, Totals
  <2> QED
    BY <1>2, <2>1 DEF StockInv, Totals
<1> QED
  BY <1>2, <1>3, <1>5 DEF StockInv

\* A receipt opens its layer at its cost, and an issue draws what it decided on.
LEMMA PostAgrees ==
  ASSUME OneSession, StockInv, TypeInv', BooksInv', NEW s \in Sessions, CommitPost(s)
  PROVE  StockInv'
<1>0. PICK w, d : w = work[s] /\ d = w.doc
  OBVIOUS
<1>1. /\ w # Idle /\ w.call = "post" /\ work' = [work EXCEPT ![s] = Idle] /\ UNCHANGED item
      /\ layers' = LayersAfter(w) /\ balance' = Written(w)
      /\ gl' = gl + Sign(doc[d].direction) * w.amount
  BY <1>0 DEF CommitPost
<1>2. d \in Docs /\ Made(w) /\ doc[d].status # "posted" /\ doc[d].status # "none"
      /\ w.amount \in Int
  <2>1. d \in Docs /\ Made(w) /\ w.amount \in Int
    BY <1>0, <1>1 DEF StockInv, TypeInv, WorksTyped, WorkTyped
  <2> QED
    BY <1>0, <1>1, <2>1 DEF Made, Postable
<1>3. /\ doc[d] \in DocRow /\ doc[d].quantity \in Int /\ doc[d].cost \in Int
      /\ doc[d].direction \in Directions /\ doc[d].quantity \in Nat
      /\ doc[d].quantity \in Quantities /\ doc[d].date \in Nat
  BY <1>2, DocFields DEF StockInv, TypeInv
<1>4. PICK row : row = [doc[d] EXCEPT !.status = "posted", !.amount = w.amount]
  OBVIOUS
<1>5. /\ doc' = [doc EXCEPT ![d] = row] /\ doc'[d] = row
      /\ row.status = "posted" /\ row.amount = w.amount
      /\ row.direction = doc[d].direction /\ row.quantity = doc[d].quantity
      /\ row.cost = doc[d].cost /\ row.reversed = doc[d].reversed
  <2>1. doc' = [doc EXCEPT ![d] = row]
    BY <1>0, <1>2, <1>4 DEF CommitPost, StockInv, TypeInv, DocsTyped
  <2> QED
    BY <1>2, <1>3, <1>4, <2>1 DEF DocRow, StockInv, TypeInv, DocsTyped
<1>6. balance'.quantity = balance.quantity + w.move.quantity
  BY <1>0, <1>1 DEF Written, StockInv, BooksInv, DecisionFits
<1>7. layers \in Seq(LayerRow) /\ gl \in Int /\ OnHand \in Int /\ LayerValue \in Int
  <2>1. layers \in Seq(LayerRow) /\ gl \in Int
    BY DEF StockInv, TypeInv, BooksTyped
  <2> QED
    BY <2>1, LayerSums
<1>8. \A k \in DOMAIN layers : ~layers[k].back => layers[k].doc # d
  BY <1>2 DEF StockInv, LayersOwn, Posted
<1>9. ASSUME NEW k \in DOMAIN layers, k \in DOMAIN layers',
             layers'[k].back = layers[k].back, layers'[k].doc = layers[k].doc,
             layers'[k].cost = layers[k].cost, ~layers'[k].back
      PROVE  /\ layers'[k].doc \in Posted' /\ doc'[layers'[k].doc].direction = "in"
             /\ layers'[k].cost = doc'[layers'[k].doc].cost
             /\ doc'[layers'[k].doc].amount
                  = Amount(doc'[layers'[k].doc].quantity, doc'[layers'[k].doc].cost)
  <2>1. PICK e : e = layers[k].doc
    OBVIOUS
  <2>2. /\ e \in Posted /\ e # d /\ doc[e].direction = "in" /\ layers[k].cost = doc[e].cost
        /\ doc[e].amount = Amount(doc[e].quantity, doc[e].cost)
    BY <1>8, <1>9, <2>1 DEF StockInv, LayersOwn
  <2>3. doc'[e] = doc[e] /\ e \in Posted'
    BY <1>5, <2>2 DEF StockInv, TypeInv, DocsTyped, Posted
  <2> QED
    BY <1>9, <2>1, <2>2, <2>3
<1>10. CASE doc[d].direction = "in"
  <2>1. PICK l : l = Layer(d, FALSE, doc[d].date, doc[d].quantity, doc[d].cost)
    OBVIOUS
  <2>2. /\ layers' = Append(layers, l) /\ l \in LayerRow
        /\ l.doc = d /\ l.cost = doc[d].cost /\ l.remaining = doc[d].quantity
    BY <1>0, <1>1, <1>2, <1>3, <1>10, <2>1, StockConstants
    DEF LayersAfter, Layer, LayerRow, Quantities
  <2>3. /\ OnHand' = OnHand + doc[d].quantity
        /\ LayerValue' = LayerValue + doc[d].quantity * doc[d].cost
    BY <1>7, <2>2, OpenedSums
  <2>4. /\ w.amount = Amount(doc[d].quantity, doc[d].cost)
        /\ w.move.quantity = doc[d].quantity
    BY <1>0, <1>1, <1>2, <1>10 DEF Made
  <2>5. Moves[d] = doc[d].quantity /\ Units(d) = 1 /\ gl' = gl + w.amount
    BY <1>1, <1>2, <1>3, <1>10 DEF Moves, Sign, Units
  <2>6. LayersOwn'
    <3>1. /\ \A k \in DOMAIN layers : k \in DOMAIN layers' /\ layers'[k] = layers[k]
          /\ \A k \in DOMAIN layers' : k \notin DOMAIN layers => layers'[k] = l
      BY <1>7, <2>2
    <3>2. /\ d \in Posted' /\ doc'[d].direction = "in" /\ l.cost = doc'[d].cost
          /\ doc'[d].amount = Amount(doc'[d].quantity, doc'[d].cost)
      BY <1>2, <1>5, <1>10, <2>2, <2>4 DEF Posted
    <3>3. ASSUME NEW k \in DOMAIN layers', ~layers'[k].back
          PROVE  /\ layers'[k].doc \in Posted' /\ doc'[layers'[k].doc].direction = "in"
                 /\ layers'[k].cost = doc'[layers'[k].doc].cost
                 /\ doc'[layers'[k].doc].amount
                      = Amount(doc'[layers'[k].doc].quantity, doc'[layers'[k].doc].cost)
      <4>1. CASE k \in DOMAIN layers
        BY <1>9, <3>1, <3>3, <4>1
      <4>2. CASE k \notin DOMAIN layers
        BY <2>2, <3>1, <3>2, <4>2
      <4> QED
        BY <4>1, <4>2
    <3> QED
      BY <3>3 DEF LayersOwn
  <2>7. /\ Error' - Error <= 50 * Units(d)
        /\ Error - Error' <= 50 * Units(d)
    <3>1. PICK x, amount : x = doc[d].quantity * doc[d].cost /\ amount = w.amount
      OBVIOUS
    <3>2. /\ x \in Int /\ amount \in Int
          /\ 100 * amount - x <= 50 /\ x - 100 * amount <= 50
      <4>1. PICK q, c : q = doc[d].quantity /\ c = doc[d].cost
        OBVIOUS
      <4>2. q \in Int /\ c \in Int /\ amount = Amount(q, c) /\ x = q * c
        BY <1>3, <2>4, <3>1, <4>1
      <4> QED
        BY <4>2, AmountNear
    <3>3. gl' = gl + amount /\ LayerValue' = LayerValue + x
      <4>1. gl' = gl + amount
        BY <2>5, <3>1
      <4>2. LayerValue' = LayerValue + x
        BY <2>3, <3>1
      <4> QED
        BY <4>1, <4>2
    <3>4. 100 * amount - x <= 50 * 1 /\ x - 100 * amount <= 50 * 1
      BY <3>2
    <3>5. gl \in Int /\ LayerValue \in Int
      BY <1>7
    <3>6. Error' - Error <= 50 * 1 /\ Error - Error' <= 50 * 1
      BY <3>2, <3>3, <3>4, <3>5, ErrorMoves
    <3> QED
      BY <2>5, <3>6
  <2> QED
    BY <1>1, <1>2, <1>5, <1>6, <2>3, <2>4, <2>5, <2>6, <2>7, CommitAgrees
<1>11. CASE doc[d].direction = "out"
  <2>1. PICK taken \in [DOMAIN layers -> 0 .. MaxQuantity] : Draws(w, taken)
    BY <1>0, <1>1, <1>2, <1>11 DEF Made
  <2>2. taken \in [DOMAIN layers -> Nat] /\ \A k \in DOMAIN layers : taken[k] \in Nat
    BY <2>1, StockConstants
  <2>3. /\ DOMAIN layers' = DOMAIN layers
        /\ \A k \in DOMAIN layers :
             /\ layers'[k].remaining = layers[k].remaining - taken[k]
             /\ layers'[k].cost = layers[k].cost
             /\ layers'[k].doc = layers[k].doc /\ layers'[k].back = layers[k].back
    <3>1. layers' = Consume(w.left)
      BY <1>0, <1>1, <1>11 DEF LayersAfter
    <3>2. w.left = [k \in {j \in DOMAIN layers : taken[j] > 0} |-> layers[k].remaining - taken[k]]
      BY <2>1 DEF Draws
    <3>3. ASSUME NEW k \in DOMAIN layers
          PROVE  /\ layers'[k].remaining = layers[k].remaining - taken[k]
                 /\ layers'[k].cost = layers[k].cost
                 /\ layers'[k].doc = layers[k].doc /\ layers'[k].back = layers[k].back
      <4>1. layers[k] \in LayerRow /\ layers[k].remaining \in Nat /\ taken[k] \in Nat
        BY <1>7, <2>2, LayerFields
      <4>2. CASE taken[k] > 0
        <5>1. k \in DOMAIN w.left /\ w.left[k] = layers[k].remaining - taken[k]
          BY <3>2, <4>2
        <5>2. layers'[k] = [layers[k] EXCEPT !.remaining = w.left[k]]
          BY <3>1, <5>1 DEF Consume
        <5> QED
          BY <4>1, <5>1, <5>2 DEF LayerRow
      <4>3. CASE ~(taken[k] > 0)
        <5>1. k \notin DOMAIN w.left
          BY <3>2, <4>3
        <5>2. layers'[k] = layers[k]
          BY <3>1, <5>1 DEF Consume
        <5> QED
          BY <4>1, <4>3, <5>2
      <4> QED
        BY <4>2, <4>3
    <3>4. DOMAIN layers' = DOMAIN layers
      BY <3>1 DEF Consume
    <3> QED
      BY <3>3, <3>4
  <2>4. PICK worth : worth = SumFunction([k \in DOMAIN layers |-> taken[k] * layers[k].cost])
    OBVIOUS
  <2>5. OnHand' = OnHand - doc[d].quantity /\ LayerValue' = LayerValue - worth
    <3>1. SumFunction(taken) = doc[d].quantity
      BY <1>0, <2>1 DEF Draws
    <3> QED
      <4>1. layers \in Seq(LayerRow) /\ taken \in [DOMAIN layers -> Nat]
        BY <1>7, <2>2
      <4>2. /\ OnHand' = OnHand - SumFunction(taken)
            /\ LayerValue' = LayerValue
                 - SumFunction([k \in DOMAIN layers |-> taken[k] * layers[k].cost])
        BY <2>3, <4>1, DrawnSums
      <4> QED
        BY <2>4, <3>1, <4>2
  <2>6. w.move.quantity = -doc[d].quantity
    BY <1>0, <1>1, <1>2, <1>11 DEF Made
  <2>7. Moves[d] = -doc[d].quantity /\ Units(d) = doc[d].quantity /\ gl' = gl - w.amount
    BY <1>1, <1>2, <1>3, <1>7, <1>11 DEF Moves, Sign, Units
  <2>8. LayersOwn'
    <3>1. ASSUME NEW k \in DOMAIN layers', ~layers'[k].back
          PROVE  /\ layers'[k].doc \in Posted' /\ doc'[layers'[k].doc].direction = "in"
                 /\ layers'[k].cost = doc'[layers'[k].doc].cost
                 /\ doc'[layers'[k].doc].amount
                      = Amount(doc'[layers'[k].doc].quantity, doc'[layers'[k].doc].cost)
      BY <1>9, <2>3, <3>1
    <3> QED
      BY <3>1 DEF LayersOwn
  <2>9. item.fifo => /\ Error' - Error <= 50 * Units(d)
                     /\ Error - Error' <= 50 * Units(d)
    <3> SUFFICES ASSUME item.fifo
                 PROVE  /\ Error' - Error <= 50 * Units(d)
                        /\ Error - Error' <= 50 * Units(d)
      OBVIOUS
    <3>1. w.amount = SumFunction([k \in DOMAIN layers |-> Amount(taken[k], layers[k].cost)])
      BY <2>1 DEF Draws
    <3>2. doc[d].quantity = SumFunction(taken)
      BY <1>0, <2>1 DEF Draws
    <3>3. PICK amount, units : amount = w.amount /\ units = doc[d].quantity
      OBVIOUS
    <3>4. /\ amount \in Int /\ worth \in Int
          /\ 100 * amount - worth <= 50 * units /\ worth - 100 * amount <= 50 * units
      <4>1. /\ amount = SumFunction([k \in DOMAIN layers |-> Amount(taken[k], layers[k].cost)])
            /\ units = SumFunction(taken)
        BY <3>1, <3>2, <3>3
      <4>2. layers \in Seq(LayerRow) /\ taken \in [DOMAIN layers -> Nat]
        BY <1>7, <2>2
      <4> QED
        BY <2>4, <4>1, <4>2, DrawnNear
    <3>5. /\ Error = 100 * gl - LayerValue
          /\ Error' = 100 * (gl - amount) - (LayerValue - worth)
          /\ 50 * Units(d) = 50 * units
      BY <2>5, <2>7, <3>3 DEF Error
    <3>6. units \in Int /\ gl \in Int /\ LayerValue \in Int
      BY <1>3, <1>7, <3>3
    <3> QED
      BY <3>4, <3>5, <3>6
  <2>10. OnHand' = OnHand + w.move.quantity /\ w.move.quantity = Moves[d]
    BY <1>3, <1>7, <2>5, <2>6, <2>7
  <2> QED
    BY <1>1, <1>2, <1>5, <1>6, <2>8, <2>9, <2>10, CommitAgrees
<1> QED
  BY <1>3, <1>10, <1>11 DEF Directions

\* The document a reversal marks, and the layers that stay as they were.
LEMMA ReversedDoc ==
  ASSUME StockInv, NEW d \in Standing, doc' = [doc EXCEPT ![d].reversed = TRUE],
         NEW row, row = [doc[d] EXCEPT !.reversed = TRUE]
  PROVE  /\ d \in Docs /\ doc' = [doc EXCEPT ![d] = row]
         /\ row.status = "posted" /\ row.direction = doc[d].direction
         /\ row.quantity = doc[d].quantity /\ row.reversed
         /\ \A e \in Docs : /\ doc'[e].direction = doc[e].direction
                            /\ doc'[e].quantity = doc[e].quantity
                            /\ doc'[e].cost = doc[e].cost
                            /\ doc'[e].amount = doc[e].amount
                            /\ doc'[e].status = doc[e].status
         /\ Posted' = Posted
<1>1. d \in Docs /\ doc[d].status = "posted"
  BY DEF Standing
<1>2. doc[d] \in DocRow
  BY <1>1, DocFields DEF StockInv, TypeInv
<1>3. doc' = [doc EXCEPT ![d] = row]
  BY <1>1 DEF StockInv, TypeInv, DocsTyped
<1>4. /\ row.status = "posted" /\ row.direction = doc[d].direction
      /\ row.quantity = doc[d].quantity /\ row.reversed /\ row.cost = doc[d].cost
      /\ row.amount = doc[d].amount
  BY <1>1, <1>2 DEF DocRow
<1>5. doc'[d] = row /\ \A e \in Docs \ {d} : doc'[e] = doc[e]
  BY <1>1, <1>3 DEF StockInv, TypeInv, DocsTyped
<1> QED
  BY <1>1, <1>3, <1>4, <1>5 DEF Posted

\* The layer of a reversed receipt gives back all it holds, and a reversed issue comes back as
\* a layer at what it was booked at.
LEMMA ReversalAgrees ==
  ASSUME OneSession, StockInv, TypeInv', BooksInv', NEW s \in Sessions,
         CommitReceiptReversal(s) \/ CommitIssueReversal(s)
  PROVE  StockInv'
<1>0. PICK w, d : w = work[s] /\ d = w.doc
  OBVIOUS
<1>1. /\ w # Idle /\ w.call = "reverse" /\ work' = [work EXCEPT ![s] = Idle] /\ UNCHANGED item
      /\ doc' = [doc EXCEPT ![d].reversed = TRUE]
      /\ gl' = gl - Sign(doc[d].direction) * doc[d].amount
  BY <1>0 DEF CommitReceiptReversal, CommitIssueReversal, Reverse
<1>2. d \in Standing /\ w.date \in Dates
  <2>1. Made(w) /\ w.date \in Dates
    BY <1>0, <1>1 DEF StockInv, TypeInv, WorksTyped, WorkTyped
  <2> QED
    BY <1>0, <1>1, <2>1 DEF Made
<1>3. PICK row : row = [doc[d] EXCEPT !.reversed = TRUE]
  OBVIOUS
<1>4. /\ d \in Docs /\ doc' = [doc EXCEPT ![d] = row]
      /\ row.status = "posted" /\ row.direction = doc[d].direction
      /\ row.quantity = doc[d].quantity /\ row.reversed
      /\ \A e \in Docs : /\ doc'[e].direction = doc[e].direction
                         /\ doc'[e].quantity = doc[e].quantity
                         /\ doc'[e].cost = doc[e].cost
                         /\ doc'[e].amount = doc[e].amount
                         /\ doc'[e].status = doc[e].status
      /\ Posted' = Posted
  BY <1>1, <1>2, <1>3, ReversedDoc
<1>5. /\ doc[d] \in DocRow /\ doc[d].quantity \in Int /\ doc[d].cost \in Int
      /\ doc[d].amount \in Int /\ doc[d].quantity \in Nat
      /\ doc[d].quantity \in Quantities /\ doc[d].quantity > 0
  <2>1. doc[d].status # "none"
    BY <1>2 DEF Standing
  <2> QED
    BY <1>4, <2>1, DocFields DEF StockInv, TypeInv
<1>6. layers \in Seq(LayerRow) /\ gl \in Int /\ OnHand \in Int /\ LayerValue \in Int
      /\ balance.quantity \in Int
  <2>1. layers \in Seq(LayerRow) /\ gl \in Int /\ balance.quantity \in Int
    BY DEF StockInv, TypeInv, BooksTyped, BalanceRow
  <2> QED
    BY <2>1, LayerSums
<1>7. ASSUME NEW k \in DOMAIN layers, k \in DOMAIN layers',
             layers'[k].back = layers[k].back, layers'[k].doc = layers[k].doc,
             layers'[k].cost = layers[k].cost, ~layers'[k].back
      PROVE  /\ layers'[k].doc \in Posted' /\ doc'[layers'[k].doc].direction = "in"
             /\ layers'[k].cost = doc'[layers'[k].doc].cost
             /\ doc'[layers'[k].doc].amount
                  = Amount(doc'[layers'[k].doc].quantity, doc'[layers'[k].doc].cost)
  <2>1. PICK e : e = layers[k].doc
    OBVIOUS
  <2>2. /\ e \in Posted /\ doc[e].direction = "in" /\ layers[k].cost = doc[e].cost
        /\ doc[e].amount = Amount(doc[e].quantity, doc[e].cost)
    BY <1>7, <2>1 DEF StockInv, LayersOwn
  <2>3. e \in Docs
    BY <2>2 DEF Posted
  <2>4. /\ doc'[e].direction = doc[e].direction /\ doc'[e].quantity = doc[e].quantity
        /\ doc'[e].cost = doc[e].cost /\ doc'[e].amount = doc[e].amount
    BY <1>4, <2>3
  <2> QED
    BY <1>4, <1>7, <2>1, <2>2, <2>4
<1>8. CASE CommitReceiptReversal(s)
  <2>1. doc[d].direction = "in"
    BY <1>0, <1>8 DEF CommitReceiptReversal
  <2>2. PICK k \in DOMAIN layers :
          /\ layers[k].doc = d /\ ~layers[k].back
          /\ layers[k].remaining >= doc[d].quantity
          /\ layers' = [layers EXCEPT ![k].remaining = @ - doc[d].quantity]
    BY <1>0, <1>8 DEF CommitReceiptReversal
  <2>3. layers[k].cost = doc[d].cost /\ doc[d].amount = Amount(doc[d].quantity, doc[d].cost)
    BY <2>2 DEF StockInv, LayersOwn
  <2>4. PICK taken : taken = [j \in DOMAIN layers |-> IF j = k THEN doc[d].quantity ELSE 0]
    OBVIOUS
  <2>5. taken \in [DOMAIN layers -> Nat]
    BY <1>5, <2>4
  <2>6. /\ DOMAIN layers' = DOMAIN layers
        /\ \A j \in DOMAIN layers :
             /\ layers'[j].remaining = layers[j].remaining - taken[j]
             /\ layers'[j].cost = layers[j].cost
             /\ layers'[j].doc = layers[j].doc /\ layers'[j].back = layers[j].back
    <3>1. \A j \in DOMAIN layers : layers[j] \in LayerRow /\ layers[j].remaining \in Int
      BY <1>6, LayerFields
    <3>2. /\ DOMAIN layers' = DOMAIN layers
          /\ layers'[k] = [layers[k] EXCEPT !.remaining = layers[k].remaining - doc[d].quantity]
          /\ \A j \in DOMAIN layers : j # k => layers'[j] = layers[j]
      BY <1>6, <2>2
    <3> QED
      BY <1>5, <2>4, <3>1, <3>2 DEF LayerRow
  <2>7. /\ SumFunction(taken) = doc[d].quantity
        /\ SumFunction([j \in DOMAIN layers |-> taken[j] * layers[j].cost])
             = doc[d].quantity * doc[d].cost
    <3> DEFINE S == DOMAIN layers
               drawn == [j \in S |-> taken[j] * layers[j].cost]
    <3>1. IsFiniteSet(S) /\ k \in S
      BY <1>6, LayerSums
    <3>2. /\ taken[k] = doc[d].quantity /\ taken[k] \in Int
          /\ \A j \in S \ {k} : taken[j] = 0
      BY <1>5, <2>4
    <3>3. /\ drawn[k] = doc[d].quantity * doc[d].cost
          /\ \A j \in S \ {k} : drawn[j] = 0
      <4>1. \A j \in S : layers[j].cost \in Int
        BY <1>6, LayerFields
      <4>2. \A c \in Int : 0 * c = 0
        OBVIOUS
      <4> QED
        BY <2>3, <3>2, <4>1, <4>2
    <3>4. drawn[k] \in Int
      BY <1>5, <3>3
    <3>5. SumFunction(taken) = SumFunctionOnSet(taken, S)
          /\ SumFunction(drawn) = SumFunctionOnSet(drawn, S)
      BY <2>5 DEF SumFunction
    <3> HIDE DEF drawn
    <3>6. SumFunctionOnSet(taken, S) = taken[k]
      BY <3>1, <3>2, SumSingle
    <3>7. SumFunctionOnSet(drawn, S) = drawn[k]
      BY <3>1, <3>3, <3>4, SumSingle
    <3> QED
      BY <3>2, <3>3, <3>5, <3>6, <3>7 DEF drawn
  <2>8. /\ OnHand' = OnHand - doc[d].quantity
        /\ LayerValue' = LayerValue - doc[d].quantity * doc[d].cost
    BY <1>6, <2>5, <2>6, <2>7, DrawnSums
  <2>9. Moves[d] = doc[d].quantity /\ Units(d) = 1 /\ gl' = gl - doc[d].amount
    BY <1>1, <1>4, <1>5, <2>1 DEF Moves, Sign, Units
  <2>10. LayersOwn'
    <3>1. ASSUME NEW j \in DOMAIN layers', ~layers'[j].back
          PROVE  /\ layers'[j].doc \in Posted' /\ doc'[layers'[j].doc].direction = "in"
                 /\ layers'[j].cost = doc'[layers'[j].doc].cost
                 /\ doc'[layers'[j].doc].amount
                      = Amount(doc'[layers'[j].doc].quantity, doc'[layers'[j].doc].cost)
      BY <1>7, <2>6, <3>1
    <3> QED
      BY <3>1 DEF LayersOwn
  <2>11. balance'.quantity = balance.quantity - doc[d].quantity
    <3>1. balance' = Moved(Outflow(doc[d].quantity))
      BY <1>0, <1>8 DEF CommitReceiptReversal, Reverse
    <3> QED
      BY <1>5, <1>6, <3>1, MovedAdds DEF Outflow
  <2>12. /\ Error' - Error <= 50 * Units(d)
         /\ Error - Error' <= 50 * Units(d)
    <3>1. PICK x, amount : x = doc[d].quantity * doc[d].cost /\ amount = doc[d].amount
      OBVIOUS
    <3>2. /\ x \in Int /\ amount \in Int
          /\ 100 * amount - x <= 50 /\ x - 100 * amount <= 50
      <4>1. PICK q, c : q = doc[d].quantity /\ c = doc[d].cost
        OBVIOUS
      <4>2. q \in Int /\ c \in Int /\ amount = Amount(q, c) /\ x = q * c
        BY <1>5, <2>3, <3>1, <4>1
      <4> QED
        BY <4>2, AmountNear
    <3>3. gl' = gl - amount /\ LayerValue' = LayerValue - x
      BY <2>8, <2>9, <3>1
    <3>4. 100 * amount - x <= 50 * 1 /\ x - 100 * amount <= 50 * 1
      BY <3>2
    <3>5. gl \in Int /\ LayerValue \in Int
      BY <1>6
    <3>6. Error' - Error <= 50 * 1 /\ Error - Error' <= 50 * 1
      BY <3>2, <3>3, <3>4, <3>5, ErrorMoves
    <3> QED
      BY <2>9, <3>6
  <2>13. PICK n : n = -doc[d].quantity
    OBVIOUS
  <2>14. OnHand' = OnHand + n /\ balance'.quantity = balance.quantity + n /\ n = -Moves[d]
    BY <1>5, <1>6, <2>8, <2>9, <2>11, <2>13
  <2> QED
    BY <1>1, <1>2, <1>4, <2>10, <2>12, <2>14, CommitAgrees
<1>9. CASE CommitIssueReversal(s)
  <2>1. doc[d].direction = "out"
    BY <1>0, <1>9 DEF CommitIssueReversal
  <2>2. PICK cost, l : /\ cost = ReturnCost(d)
                       /\ l = Layer(d, TRUE, w.date, doc[d].quantity, cost)
    OBVIOUS
  <2>3. ASSUME NEW q \in Nat \ {0}, NEW amount \in Int
        PROVE  /\ Round(amount * 100, q) \in Int
               /\ 100 * amount - q * Round(amount * 100, q) <= 50 * q
               /\ q * Round(amount * 100, q) - 100 * amount <= 50 * q
    <3>1. amount * 100 \in Int /\ q \in Int /\ q > 0
      OBVIOUS
    <3>2. PICK r : r = Round(amount * 100, q)
      OBVIOUS
    <3>3. PICK x : x = q * r
      OBVIOUS
    <3>4. r \in Int /\ 2 * (amount * 100 - x) <= q /\ 2 * (x - amount * 100) <= q
      BY <3>1, <3>2, <3>3, RoundNearest
    <3>5. x \in Int
      BY <3>3, <3>4
    <3>6. 100 * amount - x <= 50 * q /\ x - 100 * amount <= 50 * q
      BY <3>1, <3>4, <3>5
    <3> QED
      BY <3>2, <3>3, <3>4, <3>6
  <2>4. /\ cost \in Int
        /\ 100 * doc[d].amount - doc[d].quantity * cost <= 50 * doc[d].quantity
        /\ doc[d].quantity * cost - 100 * doc[d].amount <= 50 * doc[d].quantity
    <3>1. doc[d].quantity \in Nat \ {0} /\ cost = Round(doc[d].amount * 100, doc[d].quantity)
      BY <1>5, <2>2 DEF ReturnCost
    <3> QED
      BY <1>5, <2>3, <3>1
  <2>5. /\ layers' = Append(layers, l) /\ balance' = Moved(Inflow(doc[d].quantity, cost))
    BY <1>0, <1>9, <2>2 DEF CommitIssueReversal, Reverse
  <2>6. l \in LayerRow /\ l.back /\ l.remaining = doc[d].quantity /\ l.cost = cost
    <3>1. w.date \in Nat /\ doc[d].quantity \in 0 .. MaxQuantity
      <4>1. Dates \subseteq Nat /\ MaxQuantity \in Nat
        BY StockConstants
      <4>2. w.date \in Nat
        BY <1>2, <4>1
      <4>3. doc[d].quantity \in 0 .. MaxQuantity
        BY <1>5, <4>1 DEF Quantities
      <4> QED
        BY <4>2, <4>3
    <3> QED
      BY <1>4, <1>5, <2>2, <2>4, <3>1 DEF Layer, LayerRow
  <2>7. /\ OnHand' = OnHand + doc[d].quantity
        /\ LayerValue' = LayerValue + doc[d].quantity * cost
    BY <1>6, <2>5, <2>6, OpenedSums
  <2>8. Moves[d] = -doc[d].quantity /\ Units(d) = doc[d].quantity /\ gl' = gl + doc[d].amount
    BY <1>1, <1>4, <1>5, <1>6, <2>1 DEF Moves, Sign, Units
  <2>9. LayersOwn'
    <3>1. /\ \A k \in DOMAIN layers : k \in DOMAIN layers' /\ layers'[k] = layers[k]
          /\ \A k \in DOMAIN layers' : k \notin DOMAIN layers => layers'[k] = l
      BY <1>6, <2>5, <2>6
    <3>2. ASSUME NEW k \in DOMAIN layers', ~layers'[k].back
          PROVE  /\ layers'[k].doc \in Posted' /\ doc'[layers'[k].doc].direction = "in"
                 /\ layers'[k].cost = doc'[layers'[k].doc].cost
                 /\ doc'[layers'[k].doc].amount
                      = Amount(doc'[layers'[k].doc].quantity, doc'[layers'[k].doc].cost)
      BY <1>7, <2>6, <3>1, <3>2
    <3> QED
      BY <3>2 DEF LayersOwn
  <2>10. balance'.quantity = balance.quantity + doc[d].quantity
    BY <2>5, MovedAdds DEF Inflow
  <2>11. /\ Error' - Error <= 50 * Units(d)
         /\ Error - Error' <= 50 * Units(d)
    <3>1. PICK x, amount, q : /\ x = doc[d].quantity * cost /\ amount = doc[d].amount
                              /\ q = doc[d].quantity
      OBVIOUS
    <3>2. x \in Int /\ amount \in Int /\ q \in Int
      BY <1>5, <2>4, <3>1
    <3>3. 100 * amount - x <= 50 * q /\ x - 100 * amount <= 50 * q
      BY <2>4, <3>1
    <3>4. gl' = gl + amount /\ LayerValue' = LayerValue + x /\ Units(d) = q
      BY <2>7, <2>8, <3>1
    <3>5. gl \in Int /\ LayerValue \in Int
      BY <1>6
    <3> QED
      BY <3>2, <3>3, <3>4, <3>5, ErrorMoves
  <2>12. PICK n : n = doc[d].quantity
    OBVIOUS
  <2>13. OnHand' = OnHand + n /\ balance'.quantity = balance.quantity + n /\ n = -Moves[d]
    BY <1>5, <2>7, <2>8, <2>10, <2>12
  <2> QED
    BY <1>1, <1>2, <1>4, <2>9, <2>11, <2>13, CommitAgrees
<1> QED
  BY <1>8, <1>9

\* Every call keeps layers, documents and books in step when calls do not overlap.
LEMMA CallAgrees ==
  ASSUME OneSession, StockInv, [Next]_vars
  PROVE  StockInv'
<1>1. TypeInv'
  BY StepTyped DEF StockInv
<1>2. BooksInv'
  <2>1. CASE Next
    BY <2>1, CallBooks DEF StockInv
  <2>2. CASE UNCHANGED vars
    BY <2>2 DEF vars, StockInv, BooksInv, BalanceMatchesEntries, DecisionFits
  <2> QED
    BY <2>1, <2>2
<1>3. CASE UNCHANGED vars
  BY <1>1, <1>2, <1>3, DraftAgrees DEF vars, StockInv, Totals
<1>4. ASSUME NEW s \in Sessions, Abort(s)
      PROVE  StockInv'
  <2>1. Made(Idle)
    BY DEF Made
  <2> QED
    BY <1>1, <1>2, <1>4, <2>1, DecisionAgrees DEF Abort
<1> QED
  BY <1>1, <1>2, <1>3, <1>4, EditAgrees, ReadAgrees, PostAgrees, ReversalAgrees
  DEF Next, StockCall

\* The store starts empty.
LEMMA InitAgrees ==
  ASSUME Init
  PROVE  StockInv
<1>1. TypeInv
  BY StockStarts
<1>2. BooksInv
  BY DEF Init, BooksInv, BalanceMatchesEntries, DecisionFits
<1>3. \A d \in Docs : doc[d].status = "none" /\ ~doc[d].reversed
  BY DEF Init, Draft
<1>4. Posted = {} /\ Standing = {} /\ IsFiniteSet(Posted)
  BY <1>3, FS_EmptySet DEF Posted, Standing
<1>5. OnlyPostedReversed /\ LayersOwn
  BY <1>3 DEF Init, OnlyPostedReversed, LayersOwn
<1>6. NetMoved = 0 /\ ErrorAllowed = 0
  BY <1>4, SumEmpty DEF NetMoved, ErrorAllowed
<1>7. OnHand = 0 /\ LayerValue = 0
  <2>1. DOMAIN layers = {}
    BY DEF Init
  <2> QED
    BY <2>1, SumEmpty DEF OnHand, LayerValue, SumFunction
<1>8. Totals
  <2>1. item.fifo => item.method = "fifo"
    <3>1. PICK method, standard :
            item = [method |-> method, standard |-> standard, fifo |-> method = "fifo"]
      BY DEF Init
    <3>2. item.method = method /\ item.fifo = (method = "fifo")
      BY <3>1, Zenon
    <3> QED
      BY <3>2, Zenon
  <2>2. balance.quantity = 0 /\ gl = 0
    BY DEF Init
  <2>3. Error = 0
    BY <1>7, <2>2 DEF Error
  <2> QED
    BY <1>4, <1>6, <1>7, <2>1, <2>2, <2>3 DEF Totals
<1>9. \A s \in Sessions : Made(work[s])
  BY DEF Init, Made
<1> QED
  BY <1>1, <1>2, <1>5, <1>8, <1>9 DEF StockInv

\* What the cost layers hold is the quantity of the balance row, and both are what the posted
\* documents not reversed have moved, when calls do not overlap: for any number of documents,
\* any quantities, costs and cost methods, and any change of method in between.
THEOREM SerialLayersHoldStock == ASSUME OneSession PROVE Spec => []LayersHoldStock
<1>1. Init => StockInv
  BY InitAgrees
<1>2. StockInv /\ [Next]_vars => StockInv'
  BY CallAgrees
<1>3. StockInv => LayersHoldStock
  <2> SUFFICES ASSUME StockInv
               PROVE  LayersHoldStock
    OBVIOUS
  <2>1. DocsTyped /\ Totals
    BY DEF StockInv, TypeInv
  <2>2. NetMoved = SumFunction([d \in Standing |-> Sign(doc[d].direction) * doc[d].quantity])
    BY <2>1, DocSums DEF Totals
  <2> QED
    BY <2>1, <2>2 DEF Totals, LayersHoldStock
<1> QED
  BY <1>1, <1>2, <1>3, PTL DEF Spec

\* While the item was never under another method than FIFO, the inventory account stands at the
\* cost of the layers within a cent for each receipt and each unit issued, when calls do not
\* overlap: the slack the model states is enough for every quantity and cost.
THEOREM SerialFifoAtLayerCost == ASSUME OneSession PROVE Spec => []FifoBooksAtLayerCost
<1>1. Init => StockInv
  BY InitAgrees
<1>2. StockInv /\ [Next]_vars => StockInv'
  BY CallAgrees
<1>3. StockInv => FifoBooksAtLayerCost
  <2> SUFFICES ASSUME StockInv, item.fifo
               PROVE  Abs(100 * gl - LayerValue) <= SumFunction([d \in Posted |-> Slack(d)])
    BY DEF FifoBooksAtLayerCost
  <2> DEFINE slack == [d \in Posted |-> Slack(d)]
  <2>1. DocsTyped /\ IsFiniteSet(Posted)
    BY DEF StockInv, TypeInv, Totals
  <2>2. Posted \in SUBSET Docs /\ ErrorAllowed \in Int /\ \A d \in Docs : Allowed[d] \in Int
    BY <2>1, DocSums
  <2>3. \A d \in Posted : Allowed[d] \in Int /\ slack[d] \in Int /\ Allowed[d] <= slack[d]
    <3> SUFFICES ASSUME NEW d \in Posted
                 PROVE  Allowed[d] \in Int /\ Slack(d) \in Int /\ Allowed[d] <= Slack(d)
      OBVIOUS
    <3>1. d \in Docs /\ Allowed[d] = Units(d) * (IF doc[d].reversed THEN 100 ELSE 50)
      BY <2>2 DEF Allowed
    <3>2. Units(d) \in Nat
      BY <2>1, <3>1, DocFields DEF Units
    <3>3. Slack(d) = 100 * Units(d)
      BY DEF Slack, Units
    <3>4. \A u \in Nat : u * 50 <= 100 * u /\ u * 100 <= 100 * u /\ 100 * u \in Int
      OBVIOUS
    <3> QED
      BY <2>2, <3>1, <3>2, <3>3, <3>4
  <2>4. SumFunction(slack) = SumFunctionOnSet(slack, Posted)
    BY DEF SumFunction
  <2> HIDE DEF slack
  <2>5. ErrorAllowed <= SumFunctionOnSet(slack, Posted) /\ SumFunctionOnSet(slack, Posted) \in Int
    BY <2>1, <2>3, SumLeq, SumInt DEF ErrorAllowed
  <2>6. -ErrorAllowed <= Error /\ Error <= ErrorAllowed
    BY DEF StockInv, Totals
  <2>7. Error \in Int
    <3>1. gl \in Int /\ layers \in Seq(LayerRow)
      BY DEF StockInv, TypeInv, BooksTyped
    <3>2. LayerValue \in Int
      BY <3>1, LayerSums
    <3> QED
      BY <3>1, <3>2 DEF Error
  <2>8. Abs(Error) <= SumFunctionOnSet(slack, Posted)
    BY <2>2, <2>5, <2>6, <2>7 DEF Abs
  <2> QED
    BY <2>4, <2>8 DEF Error, slack
<1> QED
  BY <1>1, <1>2, <1>3, PTL DEF Spec
================================================================================
