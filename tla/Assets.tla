--------------------------------- MODULE Assets ---------------------------------
(***************************************************************************)
(* The asset register: assets, the monthly depreciation runs drafted and   *)
(* posted over them, and disposals.                                        *)
(*                                                                         *)
(* A step is one service call.  A run carries the date its period ends, an *)
(* asset the date it is capitalized; MonthOf counts the calendar's months. *)
(* Calls refused for other reasons (a permission, a fiscal period that is  *)
(* not open, accounts not mapped) are not followed: nothing below relies   *)
(* on a refusal.                                                           *)
(***************************************************************************)
EXTENDS Integers, Sequences, FiniteSetsExt

CONSTANTS Assets, Runs,     \* primary keys
          LastDate,         \* bound on the calendar
          MonthOf,          \* the month of each date
          Terms             \* costs, salvage values, lives and methods assets are given

Dates == 1 .. LastDate

\* Money is in millionths, the scale of the columns; comparisons allow one.
Unit == 1

\* "exact" methods are the straight-line family; "accelerated" ones charge by the balance or
\* the digits of the life; "settings" ones need values a run does not pass on.
Methods == {"exact", "accelerated", "settings"}

ASSUME AssetConstants ==
  /\ LastDate \in Nat /\ MonthOf \in [Dates -> Nat]
  /\ \A x, y \in Dates : x <= y => MonthOf[x] <= MonthOf[y]
  /\ Terms # {}
  /\ \A t \in Terms :
       /\ DOMAIN t = {"cost", "salvage", "life", "method", "from"}
       /\ t.cost \in Nat /\ t.salvage \in Nat /\ t.salvage < t.cost
       /\ t.life \in Nat \ {0} /\ t.method \in Methods /\ t.from \in Dates

VARIABLES asset,      \* assets: status and terms
          run,        \* asset_depreciation_runs: status and period end
          line,       \* asset_depreciation_run_lines, by run and asset
          disposals,  \* entries posted for disposals, in order
          reworked    \* assets edited after a run had drafted a line for them

vars == <<asset, run, line, disposals, reworked>>

AssetStatus == {"none", "draft", "active", "fully_depreciated", "disposed"}
RunStatus == {"none", "draft", "posted", "cancelled"}
NoLine == [amount |-> 0, after |-> 0, nbv |-> 0]
Line == [amount : Nat, after : Nat, nbv : Nat]
Disposal == [asset : Assets, date : Dates, cost : Nat, accumulated : Nat]

Base(a) == asset[a].terms.cost - asset[a].terms.salvage
HasLine(r, a) == line[r][a].amount > 0
PostedRuns(a) == {r \in Runs : run[r].status = "posted" /\ HasLine(r, a)}
Total(a, runs) == SumFunction([r \in runs |-> line[r][a].amount])
PostedTotal(a) == Total(a, PostedRuns(a))

-------------------------------------------------------------------------------
(* The register.                                                           *)

CreateAsset(a, t) ==
  /\ asset[a].status = "none"
  /\ asset' = [asset EXCEPT ![a] = [status |-> "draft", terms |-> t]]
  /\ UNCHANGED <<run, line, disposals, reworked>>

\* An edit may set any status and any terms, whatever was depreciated.
UpdateAsset(a, t, status) ==
  /\ asset[a].status \in {"draft", "active"}
  /\ status \in AssetStatus \ {"none"}
  /\ asset' = [asset EXCEPT ![a] = [status |-> status, terms |-> t]]
  /\ reworked' = IF \/ \E r \in Runs : HasLine(r, a)
                    \/ status \in {"fully_depreciated", "disposed"}
                 THEN reworked \cup {a} ELSE reworked
  /\ UNCHANGED <<run, line, disposals>>

-------------------------------------------------------------------------------
(* Depreciation runs.                                                      *)

\* The month of its schedule an asset is in; outside 1 .. life it is not charged.
MonthsElapsed(a, date) ==
  IF date < asset[a].terms.from THEN 0 ELSE MonthOf[date] - MonthOf[asset[a].terms.from] + 1

\* Mutant: every month of a straight line is charged alike.
ScheduledFlat(a, k) ==
  IF asset[a].terms.method = "exact" THEN {Base(a) \div asset[a].terms.life} ELSE 0 .. Base(a)

Scheduled(a, k) ==
  LET n == asset[a].terms.life IN
  CASE asset[a].terms.method = "exact" /\ k < n -> {Base(a) \div n}
    [] asset[a].terms.method = "exact" /\ k = n -> {Base(a) - (n - 1) * (Base(a) \div n)}
    [] OTHER -> 0 .. Base(a)

RemainingDepreciable(a) == Base(a) - PostedTotal(a)

NewLine(a, amount) ==
  [amount |-> amount,
   after |-> PostedTotal(a) + amount,
   nbv |-> Max({asset[a].terms.cost - PostedTotal(a) - amount, asset[a].terms.salvage})]

\* Mutant: the charge of the month is not held to what remains.
ChargesUncapped(a, date) ==
  LET k == MonthsElapsed(a, date) IN
  IF \/ asset[a].status # "active"
     \/ RemainingDepreciable(a) <= 0
     \/ k \notin 1 .. asset[a].terms.life
  THEN {NoLine}
  ELSE {IF c > 0 THEN NewLine(a, c) ELSE NoLine : c \in Scheduled(a, k)}

\* Mutant: an asset that is spent is not skipped.
ChargesSpent(a, date) ==
  IF asset[a].status # "active" \/ MonthsElapsed(a, date) \notin 1 .. asset[a].terms.life
  THEN {NoLine}
  ELSE {NewLine(a, Min({c, RemainingDepreciable(a)})) : c \in Scheduled(a, MonthsElapsed(a, date))}

\* The line an asset gets in a run: none when it is not active, spent, outside its life or
\* charged nothing.
Charges(a, date) ==
  LET k == MonthsElapsed(a, date) IN
  IF \/ asset[a].status # "active"
     \/ RemainingDepreciable(a) <= 0
     \/ k \notin 1 .. asset[a].terms.life
  THEN {NoLine}
  ELSE {IF c > 0 THEN NewLine(a, Min({c, RemainingDepreciable(a)})) ELSE NoLine :
          c \in Scheduled(a, k)}

\* The schedule of every active asset that is not spent is generated from its terms alone: one
\* whose method needs more fails, and the whole run with it.
Schedulable ==
  \A a \in Assets : asset[a].status = "active" /\ RemainingDepreciable(a) > 0
                      => asset[a].terms.method # "settings"

\* Nothing looks for another run of the month.
CreateRun(r, date) ==
  /\ run[r].status = "none"
  /\ \E a \in Assets : asset[a].status = "active"
  /\ Schedulable
  /\ \E new \in [Assets -> UNION {Charges(a, date) : a \in Assets}] :
       /\ \A a \in Assets : new[a] \in Charges(a, date)
       /\ line' = [line EXCEPT ![r] = new]
  /\ run' = [run EXCEPT ![r] = [status |-> "draft", date |-> date]]
  /\ UNCHANGED <<asset, disposals, reworked>>

CancelRun(r) ==
  /\ run[r].status = "draft"
  /\ run' = [run EXCEPT ![r].status = "cancelled"]
  /\ UNCHANGED <<asset, line, disposals, reworked>>

\* Mutant: an asset is closed by the last month of its life.
SpentByMonth(a, r) == MonthsElapsed(a, run[r].date) >= asset[a].terms.life

\* A book value within the last unit of storage of the salvage value counts as spent.
Spent(a, r) == line[r][a].nbv <= asset[a].terms.salvage + Unit

\* The lines are posted as drafted, and the status of an asset follows its line, whatever
\* the status was.
PostRun(r) ==
  /\ run[r].status = "draft"
  /\ \E a \in Assets : HasLine(r, a)
  /\ run' = [run EXCEPT ![r].status = "posted"]
  /\ asset' = [a \in Assets |-> IF HasLine(r, a) /\ Spent(a, r)
                                THEN [asset[a] EXCEPT !.status = "fully_depreciated"]
                                ELSE asset[a]]
  /\ UNCHANGED <<line, disposals, reworked>>

-------------------------------------------------------------------------------
(* Disposals.                                                              *)

PostedThrough(a, date) == {r \in PostedRuns(a) : run[r].date <= date}
Latest(a, date) ==
  {r \in PostedThrough(a, date) : \A q \in PostedThrough(a, date) : run[q].date <= run[r].date}

\* Mutant: a run dated the day of the disposal does not count.
AccumulatedBefore(a, date) ==
  IF PostedThrough(a, date - 1) = {} THEN {0}
  ELSE {line[r][a].after : r \in Latest(a, date - 1)}

\* What the latest posted run up to the date says was accumulated; two of one date are in no
\* order.
AccumulatedDepreciation(a, date) ==
  IF PostedThrough(a, date) = {} THEN {0} ELSE {line[r][a].after : r \in Latest(a, date)}

DisposeAsset(a, date) ==
  /\ asset[a].status \in {"active", "fully_depreciated"}
  /\ \E accumulated \in AccumulatedDepreciation(a, date) :
       /\ accumulated <= asset[a].terms.cost + Unit
       /\ disposals' = Append(disposals, [asset |-> a, date |-> date,
                                          cost |-> asset[a].terms.cost,
                                          accumulated |-> accumulated])
  /\ asset' = [asset EXCEPT ![a].status = "disposed"]
  /\ UNCHANGED <<run, line, reworked>>

-------------------------------------------------------------------------------
Init ==
  /\ asset = [a \in Assets |-> [status |-> "none", terms |-> CHOOSE t \in Terms : TRUE]]
  /\ run = [r \in Runs |-> [status |-> "none", date |-> LastDate]]
  /\ line = [r \in Runs |-> [a \in Assets |-> NoLine]]
  /\ disposals = <<>>
  /\ reworked = {}

Next ==
  \/ \E a \in Assets, t \in Terms :
       \/ CreateAsset(a, t)
       \/ \E status \in AssetStatus : UpdateAsset(a, t, status)
  \/ \E a \in Assets, date \in Dates : DisposeAsset(a, date)
  \/ \E r \in Runs : \/ \E date \in Dates : CreateRun(r, date)
                     \/ CancelRun(r)
                     \/ PostRun(r)

Spec == Init /\ [][Next]_vars

-------------------------------------------------------------------------------
TypeOK ==
  /\ asset \in [Assets -> [status : AssetStatus, terms : Terms]]
  /\ run \in [Runs -> [status : RunStatus, date : Dates]]
  /\ line \in [Runs -> [Assets -> Line]]
  /\ disposals \in Seq(Disposal)
  /\ reworked \subseteq Assets

\* An asset the runs have closed was charged its whole base by posted runs, to the unit:
\* neither a stale draft nor a run posted out of order closes it early
\* (depreciation_posting_service.py).
FullyDepreciatedIsSpent ==
  \A a \in Assets \ reworked :
    asset[a].status = "fully_depreciated" => PostedTotal(a) + Unit >= Base(a)

\* Two lines of an asset overlap when they were drafted from accumulated amounts of which one
\* had not yet seen the other.
Overlap(a, r, q) ==
  LET from(x) == line[x][a].after - line[x][a].amount IN
  from(r) < line[q][a].after /\ from(q) < line[r][a].after

\* An asset is charged beyond its base only by drafts that were open together: runs drafted
\* one after the posting of the other stop at the base, in any order of dates.
ExcessNeedsOverlap ==
  \A a \in Assets \ reworked :
    PostedTotal(a) > Base(a) => \E r, q \in PostedRuns(a) : r # q /\ Overlap(a, r, q)

\* Posted runs for each month of an asset's life, each drafted after the others before it were
\* posted, charge exactly the base and close the asset, whatever the rounding.
Consecutive(a) ==
  \A k \in 1 .. asset[a].terms.life : \E r \in PostedRuns(a) :
    /\ MonthsElapsed(a, run[r].date) = k
    /\ \A q \in PostedRuns(a) \ {r} : MonthsElapsed(a, run[q].date) # k /\ ~Overlap(a, r, q)
WholeLifeSpends ==
  \A a \in Assets \ reworked :
    asset[a].terms.method = "exact" /\ Consecutive(a) =>
      PostedTotal(a) = Base(a) /\ asset[a].status \in {"fully_depreciated", "disposed"}

\* The lines of an asset were drafted one after the posting of the other, by period end.
ChargedInOrder(a) ==
  \A r, q \in PostedRuns(a) : r # q =>
    /\ ~Overlap(a, r, q)
    /\ run[r].date <= run[q].date => line[r][a].after <= line[q][a].after

\* A disposal clears exactly the depreciation posted up to its date, runs posted for later dates
\* left out, although it reads a single line: unless the asset was charged by drafts that were
\* open together or out of the order of their dates (asset_disposal_service.py).
DisposalClears ==
  [][Len(disposals') > Len(disposals) =>
       LET d == disposals'[Len(disposals')] IN
       d.asset \notin reworked /\ ChargedInOrder(d.asset)
         => d.accumulated = Total(d.asset, PostedThrough(d.asset, d.date))]_vars
================================================================================
