----------------------------- MODULE GeneralLedger -----------------------------
(***************************************************************************)
(* What the ledger promises to the people who read it: a book of numbered, *)
(* balanced postings that only ever grows, and a gate per fiscal period    *)
(* that decides where the next posting may go.  Nothing here says how a    *)
(* call reads and writes the database; module Ledger does, and implements  *)
(* this one when calls do not overlap.                                     *)
(***************************************************************************)
EXTENDS Integers

CONSTANTS Periods,    \* fiscal periods; a date is known by the period that covers it
          Payloads,   \* the line sets a journal entry can carry
          Balanced,   \* those whose debits equal their credits
          MaxNumber   \* bound on the numbers a sequence issues

VARIABLES book,       \* set of postings
          gate        \* status of each fiscal period

Posting == [number : 1 .. MaxNumber, date : Periods, lines : Payloads]
GateStatus == {"NONE", "OPEN", "CLOSED", "LOCKED"}

BookOK == /\ book \subseteq Posting
          /\ gate \in [Periods -> GateStatus]

BookInit == /\ book = {}
            /\ gate = [p \in Periods |-> "NONE"]

\* A posting enters the book through an open gate, under a number no other holds.
Append == \E r \in Posting :
            /\ r.lines \in Balanced
            /\ gate[r.date] = "OPEN"
            /\ \A q \in book : q.number # r.number
            /\ book' = book \cup {r}
            /\ UNCHANGED gate

\* The periods of a year appear together, all open or all closed.
Generate == \E P \in SUBSET Periods, g \in {"OPEN", "CLOSED"} :
              /\ \A p \in P : gate[p] = "NONE"
              /\ gate' = [p \in Periods |-> IF p \in P THEN g ELSE gate[p]]
              /\ UNCHANGED book

\* A gate goes open -> closed -> locked, closed -> open, and nowhere from locked.
Move == \E p \in Periods, g \in GateStatus :
          /\ <<gate[p], g>> \in {<<"OPEN", "CLOSED">>, <<"CLOSED", "OPEN">>,
                                 <<"CLOSED", "LOCKED">>}
          /\ gate' = [gate EXCEPT ![p] = g]
          /\ UNCHANGED book

BookNext == Append \/ Generate \/ Move
BookSpec == BookInit /\ [][BookNext]_<<book, gate>>
================================================================================
