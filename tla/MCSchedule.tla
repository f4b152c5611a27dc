------------------------------- MODULE MCSchedule -------------------------------
(***************************************************************************)
(* Commands for DepreciationSchedule: every engine on small costs, salvage *)
(* values and lives, with usage and rates that leave remainders.           *)
(***************************************************************************)
EXTENDS DepreciationSchedule

Of(engine, units) ==
  {[engine |-> engine, cost |-> c, salvage |-> s, life |-> n, factor |-> f, switch |-> b,
    interest |-> q, units |-> units] :
     c \in {7, 10, 97, 500}, s \in {0, 3}, n \in {1, 2, 4, 9},
     f \in IF engine = "declining_balance" THEN {2, 3, 4} ELSE {2},
     b \in IF engine = "declining_balance" THEN BOOLEAN ELSE {FALSE},
     q \in IF engine \in {"annuity", "sinking_fund"} THEN {2, 5} ELSE {2}}

Usages == {<<1, 1, 1>>, <<3, 0, 2, 1>>, <<0, 5>>}
Rates == {<<33, 45, 15, 7>>, <<100>>, <<50, 25, 25>>, <<70, 20, 20>>}

MCCommands == {t \in UNION ({Of(e, <<>>) : e \in Engines \ {"units_of_production", "macrs"}}
                           \cup {Of("units_of_production", u) : u \in Usages}
                           \cup {Of("macrs", r) : r \in Rates}) : t.salvage < t.cost /\ (t.interest = 5 => t.life < 9)}
================================================================================
