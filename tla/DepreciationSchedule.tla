------------------------- MODULE DepreciationSchedule -------------------------
(***************************************************************************)
(* How a depreciation schedule is generated: one pass of a loop per month, *)
(* for each of the engines behind the methods of the catalogue.  Money is  *)
(* in the unit of storage, a millionth; every charge is cut down to it.    *)
(*                                                                         *)
(* Decimal carries 28 digits: a quotient that does not end is cut there    *)
(* before it is multiplied, so a product that should be whole can come out *)
(* one unit short.  The charges computed so are the set Cut.  A payment is *)
(* computed in floating point and rounded to ten decimals, finer than the  *)
(* unit: it is kept in grains.                                             *)
(*                                                                         *)
(* Names that Assets has too carry the prefix Loop: AssetProofs extends    *)
(* both modules.                                                           *)
(***************************************************************************)
EXTENDS Integers, Sequences, Functions

CONSTANTS Commands,       \* the commands a schedule is generated for
          MonthsPerYear,  \* 12 in the code; smaller in an instance
          Grain,          \* grains in a unit: 10000, of ten decimals in six
          Drift           \* grains a payment may be off: the rounding, and floating point

Engines == {"straight_line", "declining_balance", "sum_of_years_digits",
            "units_of_production", "annuity", "sinking_fund", "macrs"}

\* The units a user types for all months, or the percentages of all years.
TotalUnits(t) == SumFunction(t.units)

\* "factor" is in halves (2, 3, 4 for DB, 150DB, DDB); "interest" is the q of a monthly rate
\* 1/q; "units" are the units of each month, or the percentages of each MACRS year.
ASSUME ScheduleConstants ==
  /\ MonthsPerYear \in Nat \ {0} /\ Grain \in Nat \ {0} /\ Drift \in Nat
  /\ \A t \in Commands :
       /\ t.engine \in Engines
       /\ t.cost \in Nat /\ t.salvage \in Nat /\ t.salvage < t.cost
       /\ t.life \in Nat \ {0} /\ t.factor \in Nat \ {0} /\ t.interest \in Nat \ {0}
       /\ t.switch \in BOOLEAN /\ t.units \in Seq(Nat)
       /\ t.engine = "units_of_production" => TotalUnits(t) > 0
       /\ t.engine = "macrs" => t.units # <<>>

VARIABLES term,         \* the command
          month,        \* the month the loop comes to next
          accumulated,  \* charged so far
          nbv,          \* net book value after the months charged
          charge,       \* the last charge
          onLine,       \* the declining balance has switched to straight line
          payment       \* of an annuity, or the first of a sinking fund, in grains

loopVars == <<term, month, accumulated, nbv, charge, onLine, payment>>

Salvage(t) == IF t.engine = "macrs" THEN 0 ELSE t.salvage
BaseOf(t) == t.cost - Salvage(t)
Length(t) == CASE t.engine = "macrs" -> Len(t.units) * MonthsPerYear
               [] t.engine = "units_of_production" -> Len(t.units)
               [] OTHER -> t.life

DepreciableBase == BaseOf(term)
N == Length(term)
AtLeast(x, y) == IF x >= y THEN x ELSE y
AtMost(x, y) == IF x <= y THEN x ELSE y
Remaining == AtLeast(0, nbv - Salvage(term))

\* Powers of a rate, as of the code's operator **.
Power(b, n) == LET p[i \in Nat] == IF i = 0 THEN 1 ELSE b * p[i - 1] IN p[n]

Cut(x, y) == {x \div y, (x - 1) \div y}

-------------------------------------------------------------------------------
\* One line of the schedule: the charge is never negative, the book value never below salvage.
Take(amount) ==
  /\ charge' = AtLeast(0, amount)
  /\ accumulated' = accumulated + charge'
  /\ nbv' = AtLeast(term.cost - accumulated', Salvage(term))
  /\ month' = month + 1
  /\ UNCHANGED <<term, payment>>

\* The last month takes what the months before have left.
OrLast(amount) == IF month < N THEN amount ELSE DepreciableBase - accumulated

InLoop(engine) == term.engine = engine /\ month <= N

\* Mutant: the last month is charged like the others.
StraightLineFlat ==
  /\ InLoop("straight_line")
  /\ Take(DepreciableBase \div N)
  /\ UNCHANGED onLine

StraightLine ==
  /\ InLoop("straight_line")
  /\ Take(OrLast(DepreciableBase \div N))
  /\ UNCHANGED onLine

\* Mutant: the charge is not held to what is left above salvage.
DecliningUncapped ==
  /\ InLoop("declining_balance")
  /\ \E db \in Cut(nbv * term.factor, 2 * N) :
       /\ Take(db)
       /\ UNCHANGED onLine

DecliningBalance ==
  LET line == Remaining \div (N - month + 1) IN
  /\ InLoop("declining_balance")
  /\ \E cut \in Cut(nbv * term.factor, 2 * N) :
       LET db == AtMost(cut, Remaining) IN
       IF onLine \/ (term.switch /\ Remaining > 0 /\ line > db)
       THEN /\ Take(IF month < N THEN line ELSE Remaining)
            /\ onLine' = TRUE
       ELSE /\ Take(IF Remaining = 0 THEN 0 ELSE db)
            /\ UNCHANGED onLine

\* Mutant: the months are weighted from the first up.
SumOfYearsUpward ==
  /\ InLoop("sum_of_years_digits")
  /\ \E cut \in Cut(month * DepreciableBase, (N * (N + 1)) \div 2) : Take(OrLast(cut))
  /\ UNCHANGED onLine

SumOfYearsDigits ==
  /\ InLoop("sum_of_years_digits")
  /\ \E cut \in Cut((N - month + 1) * DepreciableBase, (N * (N + 1)) \div 2) : Take(OrLast(cut))
  /\ UNCHANGED onLine

\* An even spread of the expected units is a month of equal units throughout.
UnitsOfProduction ==
  /\ InLoop("units_of_production")
  /\ \E cut \in Cut(term.units[month] * DepreciableBase, TotalUnits(term)) :
       Take(AtMost(AtLeast(0, OrLast(cut)), Remaining))
  /\ UNCHANGED onLine

\* The payment less the interest on what is left: the charge grows as the interest falls.
Annuity ==
  /\ InLoop("annuity")
  /\ Take(OrLast(payment \div Grain - Remaining \div term.interest))
  /\ UNCHANGED onLine

\* The deposit, grown by the months before: what it is off grows with it.
SinkingFund ==
  LET q == term.interest IN
  /\ InLoop("sinking_fund")
  /\ \E cut \in Cut(payment * Power(q + 1, month - 1), Grain * Power(q, month - 1)) :
       Take(OrLast(cut))
  /\ UNCHANGED onLine

YearEnd(year, monthly) == year - monthly * (MonthsPerYear - 1)

\* A year's percentage of cost in equal months; the year's last month takes the remainder.
Macrs ==
  LET year == (term.cost * term.units[1 + (month - 1) \div MonthsPerYear]) \div 100
      monthly == year \div MonthsPerYear IN
  /\ InLoop("macrs")
  /\ Take(IF month = N THEN DepreciableBase - accumulated
          ELSE IF month % MonthsPerYear = 0 THEN YearEnd(year, monthly) ELSE monthly)
  /\ UNCHANGED onLine

-------------------------------------------------------------------------------
\* B r w^n / (w^n - 1) or B r / (w^n - 1) for a rate r = 1/q and w = 1 + r, off by the drift.
Rising == {"annuity", "sinking_fund"}
Payments(t) ==
  LET q == t.interest
      grown == Power(q + 1, t.life)
      still == Power(q, t.life)
      level == (BaseOf(t) * Grain * (IF t.engine = "annuity" THEN grown ELSE still))
                 \div (q * (grown - still)) IN
  IF t.engine \in Rising THEN AtLeast(0, level - Drift) .. (level + Drift) ELSE {0}

LoopInit ==
  /\ term \in Commands
  /\ payment \in Payments(term)
  /\ month = 1 /\ accumulated = 0 /\ nbv = term.cost /\ charge = 0 /\ onLine = FALSE

LoopNext ==
  \/ StraightLine
  \/ DecliningBalance
  \/ SumOfYearsDigits
  \/ UnitsOfProduction
  \/ Annuity
  \/ SinkingFund
  \/ Macrs

LoopSpec == LoopInit /\ [][LoopNext]_loopVars

Generated == month > N

-------------------------------------------------------------------------------
\* The q-ths of a unit by which a month of an annuity can be charged too much: its interest
\* is cut down and its payment is off.
Excess(q) == q - 1 + q * (Drift \div Grain + 1)

\* Every later month charges the interest on that excess besides, and a sinking fund grows
\* what its deposit is off: the last month absorbs it unless the base is too small for the
\* life and the rate.
TooSmall ==
  LET q == term.interest
      grown == Power(q + 1, N - 1)
      still == Power(q, N - 1) IN
  \/ /\ term.engine = "annuity"
     /\ DepreciableBase * still < (Excess(q) * (q + 1)) * (grown - still)
  \/ /\ term.engine = "sinking_fund"
     /\ (DepreciableBase * Grain) * (grown * still)
          < (Drift * q) * ((grown - still) * (Power(q + 1, N) - Power(q, N)))

\* The percentages of the years are taken as the command has them, whatever they add up to.
Overrated == term.engine = "macrs" /\ TotalUnits(term) > 100

\* No method charges more than the depreciable base, and the book value stays what the cost
\* less the charges is: the guards that keep it at salvage never hide an excess.
NeverBeyondBase ==
  TooSmall \/ Overrated \/ (accumulated <= DepreciableBase /\ nbv = term.cost - accumulated)

\* Every method but a declining balance that does not switch charges exactly the base by the
\* last month ("Total depreciation = depreciable_base exactly").
SpendsBase ==
  Generated => \/ accumulated = DepreciableBase
               \/ term.engine = "declining_balance" /\ ~term.switch
               \/ TooSmall \/ Overrated

\* The accelerated methods never charge more than the month before, the annuity and the
\* sinking fund never less ("charges increase over time"), but for the unit a cut takes; the
\* last month, which absorbs the rounding, is excepted.
Falling == {"declining_balance"}
ChargesKeepDirection ==
  [][month > 1 /\ month < N =>
       /\ term.engine \in Rising => charge' + 1 >= charge
       /\ term.engine = "sum_of_years_digits" => charge' <= charge + 1
       /\ term.engine \in Falling /\ ~onLine' => charge' <= charge + 1]_loopVars
================================================================================
