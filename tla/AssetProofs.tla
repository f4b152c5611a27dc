------------------------------ MODULE AssetProofs ------------------------------
(***************************************************************************)
(* What holds of Assets for any register, terms, calendar and number of    *)
(* runs, and of DepreciationSchedule for any commands.                     *)
(***************************************************************************)
EXTENDS Assets, DepreciationSchedule, SumTheorems

\* The runs there are, whatever became of them.
Drafted == {r \in Runs : run[r].status # "none"}

\* The larger of two integers.
LEMMA MaxOfTwo ==
  ASSUME NEW x \in Int, NEW y \in Int
  PROVE  Max({x, y}) = IF x >= y THEN x ELSE y
<1> DEFINE m == IF x >= y THEN x ELSE y
<1>1. m \in {x, y} /\ \A z \in {x, y} : m >= z
  OBVIOUS
<1>2. \A n \in {x, y} : (\A z \in {x, y} : n >= z) => n = m
  OBVIOUS
<1> HIDE DEF m
<1> QED
  BY <1>1, <1>2 DEF Max, m

\* The smaller of two integers.
LEMMA MinOfTwo ==
  ASSUME NEW x \in Int, NEW y \in Int
  PROVE  Min({x, y}) = IF x <= y THEN x ELSE y
<1> DEFINE m == IF x <= y THEN x ELSE y
<1>1. m \in {x, y} /\ \A z \in {x, y} : m <= z
  OBVIOUS
<1>2. \A n \in {x, y} : (\A z \in {x, y} : n <= z) => n = m
  OBVIOUS
<1> HIDE DEF m
<1> QED
  BY <1>1, <1>2 DEF Min, m

\* The terms of an asset.
LEMMA TermsOf ==
  ASSUME NEW t \in Terms
  PROVE  /\ t.cost \in Nat /\ t.salvage \in Nat /\ t.salvage < t.cost
         /\ t.life \in Nat \ {0} /\ t.from \in Dates /\ t.method \in Methods
BY AssetConstants

-------------------------------------------------------------------------------
(* Types.  Runs that were drafted are finitely many, so what they charged  *)
(* is a number.                                                            *)

\* A run that was never drafted charges nothing.
TypeInv ==
  /\ TypeOK
  /\ IsFiniteSet(Drafted)
  /\ \A r \in Runs : run[r].status = "none" => line[r] = [a \in Assets |-> NoLine]

\* The fields of a line.
LEMMA LineFields ==
  ASSUME TypeOK, NEW r \in Runs, NEW a \in Assets
  PROVE  line[r][a] \in Line /\ line[r][a].amount \in Nat /\ line[r][a].after \in Nat
         /\ line[r][a].nbv \in Nat
<1>1. line[r][a] \in Line
  BY DEF TypeOK
<1> QED
  BY <1>1 DEF Line

\* The terms of an asset and its depreciable base.
LEMMA AssetFields ==
  ASSUME TypeOK, NEW a \in Assets
  PROVE  /\ asset[a].terms \in Terms /\ asset[a].status \in AssetStatus
         /\ asset[a].terms.cost \in Nat /\ asset[a].terms.salvage \in Nat
         /\ asset[a].terms.life \in Nat \ {0} /\ asset[a].terms.from \in Dates
         /\ Base(a) \in Nat \ {0} /\ Base(a) = asset[a].terms.cost - asset[a].terms.salvage
<1>1. asset[a].terms \in Terms /\ asset[a].status \in AssetStatus
  BY DEF TypeOK
<1> QED
  BY <1>1, TermsOf DEF Base

\* A total of lines over runs that were drafted is a natural number, at least each of them.
LEMMA TotalNat ==
  ASSUME TypeInv, NEW a \in Assets, NEW runs \in SUBSET Runs, IsFiniteSet(runs)
  PROVE  /\ Total(a, runs) \in Nat
         /\ \A r \in runs : line[r][a].amount <= Total(a, runs)
<1> DEFINE f == [r \in runs |-> line[r][a].amount]
<1>1. Total(a, runs) = SumFunctionOnSet(f, runs)
  BY DEF Total, SumFunction
<1>2. \A r \in runs : f[r] \in Nat /\ f[r] = line[r][a].amount
  BY LineFields DEF TypeInv
<1> HIDE DEF f
<1> QED
  BY <1>1, <1>2, SumNat

\* The posted runs of an asset are among those drafted.
LEMMA PostedFinite ==
  ASSUME TypeInv, NEW a \in Assets
  PROVE  /\ PostedRuns(a) \in SUBSET Runs /\ IsFiniteSet(PostedRuns(a))
         /\ \A date : PostedThrough(a, date) \in SUBSET Runs
                      /\ IsFiniteSet(PostedThrough(a, date))
         /\ PostedTotal(a) \in Nat
<1>1. PostedRuns(a) \in SUBSET Drafted /\ Drafted \in SUBSET Runs
  BY DEF PostedRuns, Drafted
<1>2. IsFiniteSet(PostedRuns(a))
  BY <1>1, FS_Subset DEF TypeInv
<1>3. \A date : IsFiniteSet(PostedThrough(a, date))
                /\ PostedThrough(a, date) \in SUBSET PostedRuns(a)
  <2> SUFFICES ASSUME NEW date
               PROVE  IsFiniteSet(PostedThrough(a, date))
                      /\ PostedThrough(a, date) \in SUBSET PostedRuns(a)
    OBVIOUS
  <2>1. PostedThrough(a, date) \in SUBSET PostedRuns(a)
    BY DEF PostedThrough
  <2> QED
    BY <1>2, <2>1, FS_Subset
<1> QED
  BY <1>1, <1>2, <1>3, TotalNat DEF PostedTotal

\* A charge that is not nothing is well formed, within what remains and within the month's
\* schedule or all that remains; without one there is no line.
LEMMA ChargeOf ==
  ASSUME TypeInv, NEW a \in Assets, NEW date \in Dates, NEW l \in Charges(a, date)
  PROVE  /\ l \in Line
         /\ l.amount > 0 =>
              /\ asset[a].status = "active"
              /\ MonthsElapsed(a, date) \in 1 .. asset[a].terms.life
              /\ l.after = PostedTotal(a) + l.amount /\ l.after <= Base(a)
              /\ l.nbv = Max({asset[a].terms.cost - l.after, asset[a].terms.salvage})
              /\ \/ l.after = Base(a)
                 \/ l.amount \in Scheduled(a, MonthsElapsed(a, date))
<1> DEFINE k == MonthsElapsed(a, date)
           rest == RemainingDepreciable(a)
           done == PostedTotal(a)
           base == Base(a)
           cost == asset[a].terms.cost
           salvage == asset[a].terms.salvage
<1>1. /\ done \in Nat /\ base \in Nat /\ rest = base - done /\ rest \in Int
      /\ cost \in Nat /\ salvage \in Nat /\ base = cost - salvage
  BY PostedFinite, AssetFields DEF TypeInv, RemainingDepreciable
<1>2. NoLine \in Line /\ NoLine.amount = 0
  BY DEF NoLine, Line
<1>3. CASE l = NoLine
  BY <1>2, <1>3
<1>4. CASE l # NoLine
  <2>1. /\ asset[a].status = "active" /\ rest > 0 /\ k \in 1 .. asset[a].terms.life
        /\ \E c \in Scheduled(a, k) : c > 0 /\ l = NewLine(a, Min({c, rest}))
    <3> HIDE DEF k, rest
    <3>1. l \in IF asset[a].status # "active" \/ rest <= 0 \/ k \notin 1 .. asset[a].terms.life
               THEN {NoLine}
               ELSE {IF c > 0 THEN NewLine(a, Min({c, rest})) ELSE NoLine :
                       c \in Scheduled(a, k)}
      BY DEF Charges, k, rest
    <3>2. /\ asset[a].status = "active" /\ ~(rest <= 0) /\ k \in 1 .. asset[a].terms.life
          /\ l \in {IF c > 0 THEN NewLine(a, Min({c, rest})) ELSE NoLine : c \in Scheduled(a, k)}
      BY <1>4, <3>1
    <3>3. rest > 0
      BY <1>1, <3>2
    <3> QED
      BY <1>4, <3>2, <3>3
  <2>2. PICK c \in Scheduled(a, k) : c > 0 /\ l = NewLine(a, Min({c, rest}))
    BY <2>1
  <2>3. c \in Int
    <3>1. asset[a].terms.life \in Nat \ {0} /\ asset[a].terms.life \in Int
      BY AssetFields DEF TypeInv
    <3>2. base \div asset[a].terms.life \in Int
      BY <1>1, <3>1
    <3>3. \A x, y, z \in Int : x - (y - 1) * z \in Int
      OBVIOUS
    <3>4. base - (asset[a].terms.life - 1) * (base \div asset[a].terms.life) \in Int
      BY <1>1, <3>1, <3>2, <3>3
    <3>5. \A x \in 0 .. base : x \in Int
      OBVIOUS
    <3> QED
      BY <2>2, <3>2, <3>4, <3>5 DEF Scheduled
  <2>4. PICK amount : amount = Min({c, rest})
    OBVIOUS
  <2>5. amount = IF c <= rest THEN c ELSE rest
    BY <1>1, <2>3, <2>4, MinOfTwo
  <2>6. amount \in Nat /\ amount > 0 /\ amount <= rest /\ (amount = rest \/ amount = c)
    BY <1>1, <2>1, <2>2, <2>3, <2>5
  <2>7. PICK book : book = Max({cost - done - amount, salvage})
    OBVIOUS
  <2>8. l = [amount |-> amount, after |-> done + amount, nbv |-> book]
    BY <2>2, <2>4, <2>7 DEF NewLine
  <2>9. book \in Nat
    <3>1. cost - done - amount \in Int /\ salvage \in Int
      BY <1>1, <2>6
    <3>2. book = IF cost - done - amount >= salvage THEN cost - done - amount ELSE salvage
      BY <2>7, <3>1, MaxOfTwo
    <3> QED
      BY <1>1, <2>6, <3>2
  <2>10. l.amount = amount /\ l.after = done + amount /\ l.nbv = book
    BY <2>8
  <2>11. cost - done - amount = cost - (done + amount)
    BY <1>1, <2>6
  <2>12. l \in Line
    BY <1>1, <2>6, <2>8, <2>9 DEF Line
  <2>13. l.after <= base /\ (l.after = base \/ l.amount = c)
    BY <1>1, <2>6, <2>10
  <2> HIDE DEF k, rest
  <2> QED
    BY <2>1, <2>2, <2>7, <2>10, <2>11, <2>12, <2>13 DEF k
<1> QED
  BY <1>3, <1>4

\* The documents of the register stay well formed.
LEMMA StepTyped ==
  ASSUME TypeInv, [Next]_vars
  PROVE  TypeInv'
<1>1. CASE UNCHANGED vars
  BY <1>1 DEF vars, TypeInv, TypeOK, Drafted
<1>2. ASSUME NEW a \in Assets, NEW t \in Terms, NEW status \in AssetStatus \ {"none"},
             CreateAsset(a, t) \/ UpdateAsset(a, t, status)
      PROVE  TypeInv'
  <2>1. "draft" \in AssetStatus
    BY DEF AssetStatus
  <2>2. asset' \in [Assets -> [status : AssetStatus, terms : Terms]]
    BY <1>2, <2>1 DEF CreateAsset, UpdateAsset, TypeInv, TypeOK
  <2>3. UNCHANGED <<run, line, disposals>> /\ reworked' \subseteq Assets
    BY <1>2 DEF CreateAsset, UpdateAsset, TypeInv, TypeOK
  <2> QED
    BY <2>2, <2>3 DEF TypeInv, TypeOK, Drafted
<1>3. ASSUME NEW a \in Assets, NEW date \in Dates, DisposeAsset(a, date)
      PROVE  TypeInv'
  <2>1. PICK spent \in AccumulatedDepreciation(a, date) :
          disposals' = Append(disposals, [asset |-> a, date |-> date,
                                          cost |-> asset[a].terms.cost,
                                          accumulated |-> spent])
    BY <1>3 DEF DisposeAsset
  <2>2. spent \in Nat
    <3>1. \A r \in Latest(a, date) : r \in Runs
      BY DEF Latest, PostedThrough, PostedRuns
    <3> QED
      BY <2>1, <3>1, LineFields DEF AccumulatedDepreciation, TypeInv
  <2>3. [asset |-> a, date |-> date, cost |-> asset[a].terms.cost,
         accumulated |-> spent] \in Disposal
    BY <2>2, AssetFields DEF TypeInv, Disposal
  <2>4. disposals' \in Seq(Disposal)
    BY <2>1, <2>3 DEF TypeInv, TypeOK
  <2>5. asset' \in [Assets -> [status : AssetStatus, terms : Terms]]
    BY <1>3 DEF DisposeAsset, TypeInv, TypeOK, AssetStatus
  <2> QED
    BY <1>3, <2>4, <2>5 DEF DisposeAsset, TypeInv, TypeOK, Drafted
<1>4. ASSUME NEW r \in Runs, NEW date \in Dates, CreateRun(r, date)
      PROVE  TypeInv'
  <2>1. PICK new \in [Assets -> UNION {Charges(a, date) : a \in Assets}] :
          /\ \A a \in Assets : new[a] \in Charges(a, date)
          /\ line' = [line EXCEPT ![r] = new]
    BY <1>4 DEF CreateRun
  <2>2. new \in [Assets -> Line]
    <3>1. \A a \in Assets : new[a] \in Line
      BY <2>1, ChargeOf
    <3> QED
      BY <2>1, <3>1
  <2>3. /\ run[r].status = "none" /\ UNCHANGED <<asset, disposals, reworked>>
        /\ run' = [run EXCEPT ![r] = [status |-> "draft", date |-> date]]
    BY <1>4 DEF CreateRun
  <2>4. TypeOK'
    BY <2>1, <2>2, <2>3 DEF TypeInv, TypeOK, RunStatus
  <2>5. Drafted' = Drafted \cup {r}
    BY <2>3 DEF Drafted, TypeInv, TypeOK
  <2>6. IsFiniteSet(Drafted')
    BY <2>5, FS_AddElement DEF TypeInv
  <2>7. \A q \in Runs : run'[q].status = "none" => line'[q] = [a \in Assets |-> NoLine]
    BY <2>1, <2>3 DEF TypeInv, TypeOK
  <2> QED
    BY <2>4, <2>6, <2>7 DEF TypeInv
<1>5. ASSUME NEW r \in Runs, CancelRun(r) \/ PostRun(r)
      PROVE  TypeInv'
  <2>1. /\ run[r].status = "draft" /\ UNCHANGED <<line, disposals, reworked>>
        /\ \E status \in {"cancelled", "posted"} : run' = [run EXCEPT ![r].status = status]
    BY <1>5 DEF CancelRun, PostRun
  <2>2. /\ run' \in [Runs -> [status : RunStatus, date : Dates]]
        /\ \A q \in Runs : run'[q].status = "none" <=> run[q].status = "none"
    <3>1. PICK status \in {"cancelled", "posted"} : run' = [run EXCEPT ![r].status = status]
      BY <2>1
    <3>2. run \in [Runs -> [status : RunStatus, date : Dates]] /\ status \in RunStatus
      BY DEF TypeInv, TypeOK, RunStatus
    <3>3. run' \in [Runs -> [status : RunStatus, date : Dates]]
      BY <3>1, <3>2
    <3>4. run'[r].status = status /\ \A q \in Runs \ {r} : run'[q] = run[q]
      BY <3>1, <3>2
    <3> QED
      BY <2>1, <3>3, <3>4
  <2>3. asset' \in [Assets -> [status : AssetStatus, terms : Terms]]
    <3>1. CASE CancelRun(r)
      BY <3>1 DEF CancelRun, TypeInv, TypeOK
    <3>2. CASE PostRun(r)
      <4>1. \A a \in Assets : /\ asset[a] \in [status : AssetStatus, terms : Terms]
                              /\ [asset[a] EXCEPT !.status = "fully_depreciated"]
                                   \in [status : AssetStatus, terms : Terms]
        BY DEF TypeInv, TypeOK, AssetStatus
      <4> QED
        BY <3>2, <4>1 DEF PostRun
    <3> QED
      BY <1>5, <3>1, <3>2
  <2>4. Drafted' = Drafted
    BY <2>2 DEF Drafted
  <2> QED
    BY <2>1, <2>2, <2>3, <2>4 DEF TypeInv, TypeOK
<1>6. "draft" \in AssetStatus \ {"none"}
  BY DEF AssetStatus
<1>7. ASSUME NEW a \in Assets, NEW t \in Terms,
             CreateAsset(a, t) \/ \E status \in AssetStatus : UpdateAsset(a, t, status)
      PROVE  TypeInv'
  <2>1. \A status : UpdateAsset(a, t, status) => status \in AssetStatus \ {"none"}
    BY DEF UpdateAsset
  <2> QED
    BY <1>2, <1>6, <1>7, <2>1
<1> QED
  BY <1>1, <1>3, <1>4, <1>5, <1>7 DEF Next

\* The register starts well formed.
LEMMA InitTyped ==
  ASSUME Init
  PROVE  TypeInv
<1>1. (CHOOSE t \in Terms : TRUE) \in Terms
  BY AssetConstants
<1>2. LastDate \in Dates
  BY <1>1, TermsOf, AssetConstants DEF Dates
<1>3. "none" \in AssetStatus /\ "none" \in RunStatus /\ NoLine \in Line
  BY DEF AssetStatus, RunStatus, NoLine, Line
<1>4. Drafted = {} /\ IsFiniteSet(Drafted)
  BY FS_EmptySet DEF Init, Drafted
<1>5. TypeOK
  BY <1>1, <1>2, <1>3 DEF Init, TypeOK
<1> QED
  BY <1>4, <1>5 DEF Init, TypeInv

\* Assets, runs, lines and disposals are well formed for any terms, calendar and number of runs:
\* no line is drafted below zero, whatever was edited, posted or disposed of before.
THEOREM RegisterTypeCorrect == Spec => []TypeOK
<1>1. TypeInv => TypeOK
  BY DEF TypeInv
<1> QED
  BY <1>1, InitTyped, StepTyped, PTL DEF Spec

-------------------------------------------------------------------------------
(* Lines.  A line was drafted from the total of the runs posted by then,   *)
(* which only grows; an asset that was not edited since keeps the terms    *)
(* the line was drafted with.                                              *)

\* A line stays within the base, is of a month of the life and of the scheduled charge (or of all
\* that remained), is covered by what is posted once it is posted, and closes the asset then.
LineSound(r, a) ==
  /\ asset[a].status # "none"
  /\ line[r][a].nbv = Max({asset[a].terms.cost - line[r][a].after, asset[a].terms.salvage})
  /\ line[r][a].amount <= line[r][a].after /\ line[r][a].after <= Base(a)
  /\ MonthsElapsed(a, run[r].date) \in 1 .. asset[a].terms.life
  /\ \/ line[r][a].after = Base(a)
     \/ line[r][a].amount \in Scheduled(a, MonthsElapsed(a, run[r].date))
  /\ run[r].status # "posted" => line[r][a].after <= PostedTotal(a) + line[r][a].amount
  /\ run[r].status = "posted" =>
       /\ line[r][a].after <= PostedTotal(a)
       /\ Spent(a, r) => asset[a].status \in {"fully_depreciated", "disposed"}

\* The lines of an asset are sound, and one that is closed has nothing left, to the unit.
AssetSound(a) ==
  /\ \A r \in Runs : HasLine(r, a) => LineSound(r, a)
  /\ asset[a].status = "fully_depreciated" => PostedTotal(a) + Unit >= Base(a)

\* The inductive invariant: assets that were not edited after being charged are sound.
RegisterInv == TypeInv /\ \A a \in Assets \ reworked : AssetSound(a)

\* Changing an asset that no run charged, but not to spent, and disposing of one, leaves it sound.
LEMMA EditSound ==
  ASSUME TypeInv, UNCHANGED <<run, line>>, NEW a \in Assets, AssetSound(a),
         \/ asset'[a] = asset[a]
         \/ (\A r \in Runs : ~HasLine(r, a)) /\ asset'[a].status # "fully_depreciated"
         \/ asset'[a].terms = asset[a].terms /\ asset'[a].status = "disposed"
  PROVE  AssetSound(a)'
<1>1. PostedTotal(a)' = PostedTotal(a) /\ \A r : HasLine(r, a)' = HasLine(r, a)
  BY DEF PostedTotal, PostedRuns, Total, HasLine
<1>2. ASSUME asset'[a].terms = asset[a].terms,
             asset'[a].status \in {asset[a].status, "disposed"}
      PROVE  AssetSound(a)'
  <2>1. Base(a)' = Base(a)
    BY <1>2 DEF Base
  <2>2. ASSUME NEW r \in Runs, LineSound(r, a)
        PROVE  LineSound(r, a)'
    <3>1. MonthsElapsed(a, run[r].date)' = MonthsElapsed(a, run[r].date)
      BY <1>2 DEF MonthsElapsed
    <3>2. /\ Scheduled(a, MonthsElapsed(a, run[r].date))'
               = Scheduled(a, MonthsElapsed(a, run[r].date))
          /\ Spent(a, r)' = Spent(a, r)
      BY <1>2, <2>1, <3>1 DEF Scheduled, Spent
    <3> QED
      BY <1>1, <1>2, <2>1, <2>2, <3>1, <3>2 DEF LineSound
  <2> QED
    BY <1>1, <1>2, <2>1, <2>2 DEF AssetSound
<1>3. CASE (\A r \in Runs : ~HasLine(r, a)) /\ asset'[a].status # "fully_depreciated"
  BY <1>1, <1>3 DEF AssetSound
<1>4. CASE asset'[a] = asset[a]
  BY <1>2, <1>4
<1>5. CASE asset'[a].terms = asset[a].terms /\ asset'[a].status = "disposed"
  BY <1>2, <1>5
<1> QED
  BY <1>3, <1>4, <1>5

\* A run that was not there takes lines drafted from the totals of now.
LEMMA DraftSound ==
  ASSUME TypeInv, NEW r \in Runs, NEW date \in Dates, CreateRun(r, date),
         NEW a \in Assets, AssetSound(a)
  PROVE  AssetSound(a)'
<1>1. PICK new : /\ \A b \in Assets : new[b] \in Charges(b, date)
                 /\ line' = [line EXCEPT ![r] = new]
  BY DEF CreateRun
<1>2. /\ run[r].status = "none" /\ UNCHANGED asset
      /\ run' = [run EXCEPT ![r] = [status |-> "draft", date |-> date]]
  BY DEF CreateRun
<1>3. /\ line'[r] = new /\ run'[r].status = "draft" /\ run'[r].date = date
      /\ \A q \in Runs \ {r} : line'[q] = line[q] /\ run'[q] = run[q]
  BY <1>1, <1>2 DEF TypeInv, TypeOK
<1>4. PostedRuns(a)' = PostedRuns(a) /\ r \notin PostedRuns(a)
  BY <1>2, <1>3 DEF PostedRuns, HasLine
<1>5. PostedTotal(a)' = PostedTotal(a)
  <2>1. \A q \in PostedRuns(a) : line'[q][a].amount = line[q][a].amount
    BY <1>3, <1>4 DEF PostedRuns
  <2> DEFINE f == [q \in PostedRuns(a) |-> line[q][a].amount]
             g == [q \in PostedRuns(a) |-> line'[q][a].amount]
  <2>2. f = g
    BY <2>1
  <2>3. PostedTotal(a) = SumFunction(f) /\ PostedTotal(a)' = SumFunction(g)
    BY <1>4 DEF PostedTotal, Total
  <2> QED
    BY <2>2, <2>3
<1>6. ASSUME NEW q \in Runs \ {r}, HasLine(q, a)'
      PROVE  LineSound(q, a)'
  <2>1. HasLine(q, a)
    BY <1>3, <1>6 DEF HasLine
  <2>2. LineSound(q, a)
    BY <2>1 DEF AssetSound
  <2> QED
    BY <1>2, <1>3, <1>5, <2>2 DEF LineSound, Base, MonthsElapsed, Scheduled, Spent
<1>7. ASSUME HasLine(r, a)'
      PROVE  LineSound(r, a)'
  <2>1. new[a] \in Charges(a, date) /\ line'[r][a] = new[a] /\ new[a].amount > 0
    BY <1>1, <1>3, <1>7 DEF HasLine
  <2>2. PICK l : l = new[a]
    OBVIOUS
  <2>3. /\ l \in Line
        /\ asset[a].status = "active"
        /\ MonthsElapsed(a, date) \in 1 .. asset[a].terms.life
        /\ l.after = PostedTotal(a) + l.amount /\ l.after <= Base(a)
        /\ l.nbv = Max({asset[a].terms.cost - l.after, asset[a].terms.salvage})
        /\ \/ l.after = Base(a)
           \/ l.amount \in Scheduled(a, MonthsElapsed(a, date))
    BY <2>1, <2>2, ChargeOf
  <2>4. l.amount \in Nat /\ l.after \in Nat /\ PostedTotal(a) \in Nat
    BY <2>3, PostedFinite DEF Line
  <2>5. l.amount <= l.after /\ l.after <= PostedTotal(a) + l.amount
    BY <2>3, <2>4
  <2>6. /\ line'[r][a] = l /\ run'[r].status = "draft" /\ run'[r].date = date
        /\ PostedTotal(a)' = PostedTotal(a) /\ UNCHANGED asset
    BY <1>2, <1>3, <1>5, <2>1, <2>2
  <2>7. Base(a)' = Base(a) /\ MonthsElapsed(a, date)' = MonthsElapsed(a, date)
    BY <2>6 DEF Base, MonthsElapsed
  <2>8. MonthsElapsed(a, run[r].date)' = MonthsElapsed(a, date)
    BY <2>6 DEF MonthsElapsed
  <2>9. Scheduled(a, MonthsElapsed(a, run[r].date))' = Scheduled(a, MonthsElapsed(a, date))
    BY <2>6, <2>8 DEF Scheduled, Base
  <2> QED
    BY <2>3, <2>5, <2>6, <2>7, <2>8, <2>9 DEF LineSound
<1>8. asset[a].status = "fully_depreciated" => (PostedTotal(a) + Unit >= Base(a))'
  BY <1>2, <1>5 DEF AssetSound, Base
<1> QED
  BY <1>2, <1>6, <1>7, <1>8 DEF AssetSound

\* Cancelling a draft changes nothing that was posted.
LEMMA CancelSound ==
  ASSUME TypeInv, NEW r \in Runs, CancelRun(r), NEW a \in Assets, AssetSound(a)
  PROVE  AssetSound(a)'
<1>1. /\ run[r].status = "draft" /\ UNCHANGED <<asset, line>>
      /\ run' = [run EXCEPT ![r].status = "cancelled"]
  BY DEF CancelRun
<1>2. \A q \in Runs : /\ run'[q].date = run[q].date
                      /\ run'[q].status = "posted" <=> run[q].status = "posted"
  BY <1>1 DEF TypeInv, TypeOK
<1>3. PostedRuns(a)' = PostedRuns(a)
  BY <1>1, <1>2 DEF PostedRuns, HasLine
<1>4. PostedTotal(a)' = PostedTotal(a)
  BY <1>1, <1>3 DEF PostedTotal, Total
<1>5. ASSUME NEW q \in Runs, HasLine(q, a)'
      PROVE  LineSound(q, a)'
  <2>1. LineSound(q, a) /\ run'[q].date = run[q].date
    BY <1>1, <1>2, <1>5 DEF AssetSound, HasLine
  <2>2. run'[q].status = "posted" <=> run[q].status = "posted"
    BY <1>2
  <2> QED
    BY <1>1, <1>4, <2>1, <2>2 DEF LineSound, Base, MonthsElapsed, Scheduled, Spent
<1> QED
  BY <1>1, <1>4, <1>5 DEF AssetSound, HasLine, Base

\* A run that is posted adds its lines to the totals and closes what they spend.
LEMMA PostSound ==
  ASSUME TypeInv, NEW r \in Runs, PostRun(r), NEW a \in Assets, AssetSound(a)
  PROVE  AssetSound(a)'
<1>1. /\ run[r].status = "draft" /\ UNCHANGED line
      /\ run' = [run EXCEPT ![r].status = "posted"]
      /\ asset'[a] = IF HasLine(r, a) /\ Spent(a, r)
                     THEN [asset[a] EXCEPT !.status = "fully_depreciated"] ELSE asset[a]
  BY DEF PostRun
<1>2. /\ run'[r].status = "posted" /\ \A q \in Runs : run'[q].date = run[q].date
      /\ \A q \in Runs \ {r} : run'[q].status = run[q].status
  BY <1>1 DEF TypeInv, TypeOK
<1>3. asset'[a].terms = asset[a].terms
  BY <1>1 DEF TypeInv, TypeOK
<1>4. /\ Base(a)' = Base(a) /\ \A q \in Runs : HasLine(q, a)' = HasLine(q, a)
      /\ \A q \in Runs : MonthsElapsed(a, run[q].date)' = MonthsElapsed(a, run[q].date)
      /\ \A q \in Runs : Scheduled(a, MonthsElapsed(a, run[q].date))'
                           = Scheduled(a, MonthsElapsed(a, run[q].date))
      /\ \A q \in Runs : Spent(a, q)' = Spent(a, q)
  <2>1. Base(a)' = Base(a) /\ \A q \in Runs : HasLine(q, a)' = HasLine(q, a)
    BY <1>1, <1>3 DEF Base, HasLine
  <2>2. \A q \in Runs : MonthsElapsed(a, run[q].date)' = MonthsElapsed(a, run[q].date)
    BY <1>2, <1>3 DEF MonthsElapsed
  <2>3. \A q \in Runs : Scheduled(a, MonthsElapsed(a, run[q].date))'
                           = Scheduled(a, MonthsElapsed(a, run[q].date))
    BY <1>3, <2>1, <2>2 DEF Scheduled
  <2>4. \A q \in Runs : Spent(a, q)' = Spent(a, q)
    BY <1>1, <1>3, <2>1 DEF Spent
  <2> QED
    BY <2>1, <2>2, <2>3, <2>4
<1>5. PostedTotal(a) \in Nat /\ Base(a) \in Nat
      /\ \A q \in Runs : line[q][a].amount \in Nat /\ line[q][a].after \in Nat
                         /\ line[q][a].nbv \in Nat
  BY PostedFinite, LineFields, AssetFields DEF TypeInv
<1>6. /\ PostedTotal(a)' \in Nat /\ PostedTotal(a) <= PostedTotal(a)'
      /\ HasLine(r, a) => PostedTotal(a)' = PostedTotal(a) + line[r][a].amount
  <2>1. CASE ~HasLine(r, a)
    <3>1. PostedRuns(a)' = PostedRuns(a)
      BY <1>1, <1>2, <2>1 DEF PostedRuns, HasLine
    <3>2. PostedTotal(a)' = PostedTotal(a)
      BY <1>1, <3>1 DEF PostedTotal, Total
    <3> QED
      BY <1>5, <2>1, <3>2
  <2>2. CASE HasLine(r, a)
    <3> DEFINE P == PostedRuns(a)
               f == [q \in P |-> line[q][a].amount]
               g == [q \in P \cup {r} |-> line[q][a].amount]
    <3>1. PostedRuns(a)' = P \cup {r} /\ r \notin P
      BY <1>1, <1>2, <2>2 DEF PostedRuns, HasLine
    <3>2. P \in SUBSET Runs /\ IsFiniteSet(P)
      BY PostedFinite
    <3>3. PostedTotal(a) = SumFunctionOnSet(f, P)
      BY DEF PostedTotal, Total, SumFunction
    <3>4. PostedTotal(a)' = SumFunctionOnSet(g, P \cup {r})
      BY <1>1, <3>1 DEF PostedTotal, Total, SumFunction
    <3>5. /\ \A q \in P : f[q] = g[q] /\ g[q] \in Int
          /\ g[r] = line[r][a].amount /\ g[r] \in Int
      BY <1>5, <3>2
    <3> HIDE DEF P, f, g
    <3>6. SumFunctionOnSet(g, P \cup {r}) = SumFunctionOnSet(g, P) + g[r]
      BY <3>1, <3>2, <3>5, SumAdd
    <3>7. SumFunctionOnSet(f, P) = SumFunctionOnSet(g, P)
      BY <3>2, <3>5, SumSame
    <3>8. PostedTotal(a)' = PostedTotal(a) + line[r][a].amount
      BY <3>3, <3>4, <3>5, <3>6, <3>7
    <3> QED
      BY <1>5, <3>8
  <2> QED
    BY <2>1, <2>2
<1>7. ASSUME HasLine(r, a), Spent(a, r)
      PROVE  PostedTotal(a)' + Unit >= Base(a)
  <2>1. /\ line[r][a].nbv = Max({asset[a].terms.cost - line[r][a].after, asset[a].terms.salvage})
        /\ line[r][a].after <= PostedTotal(a) + line[r][a].amount
        /\ line[r][a].nbv <= asset[a].terms.salvage + Unit
    BY <1>1, <1>7 DEF AssetSound, LineSound, Spent
  <2>2. /\ asset[a].terms.cost \in Nat /\ asset[a].terms.salvage \in Nat
        /\ Base(a) = asset[a].terms.cost - asset[a].terms.salvage
    BY AssetFields DEF TypeInv
  <2>3. line[r][a].nbv >= asset[a].terms.cost - line[r][a].after
    <3>1. asset[a].terms.cost - line[r][a].after \in Int /\ asset[a].terms.salvage \in Int
      BY <1>5, <2>2
    <3> QED
      BY <2>1, <3>1, MaxOfTwo
  <2>4. PostedTotal(a)' = PostedTotal(a) + line[r][a].amount
    BY <1>6, <1>7
  <2> QED
    BY <1>5, <2>1, <2>2, <2>3, <2>4 DEF Unit
<1>8. asset'[a].status = "fully_depreciated" => PostedTotal(a)' + Unit >= Base(a)'
  <2>1. CASE HasLine(r, a) /\ Spent(a, r)
    BY <1>4, <1>7, <2>1
  <2>2. CASE ~(HasLine(r, a) /\ Spent(a, r))
    <3>1. asset'[a] = asset[a]
      BY <1>1, <2>2
    <3> QED
      BY <1>4, <1>5, <1>6, <3>1 DEF AssetSound, Unit
  <2> QED
    BY <2>1, <2>2
<1>9. ASSUME NEW q \in Runs, HasLine(q, a)
      PROVE  LineSound(q, a)'
  <2>1. LineSound(q, a)
    BY <1>9 DEF AssetSound
  <2>2. asset'[a].status # "none"
        /\ (asset[a].status \in {"fully_depreciated", "disposed"}
              => asset'[a].status \in {"fully_depreciated", "disposed"})
    BY <1>1, <2>1 DEF LineSound, TypeInv, TypeOK
  <2>3. run'[q].status # "posted" => line[q][a].after <= PostedTotal(a)' + line[q][a].amount
    <3>1. run'[q].status # "posted" => run[q].status # "posted"
      BY <1>2
    <3> QED
      BY <1>5, <1>6, <2>1, <3>1 DEF LineSound
  <2>4. CASE q # r
    <3>1. run'[q].status = "posted" =>
            /\ line[q][a].after <= PostedTotal(a)'
            /\ Spent(a, q)' => asset'[a].status \in {"fully_depreciated", "disposed"}
      BY <1>2, <1>4, <1>5, <1>6, <2>1, <2>2, <2>4 DEF LineSound
    <3> QED
      BY <1>1, <1>3, <1>4, <2>1, <2>2, <2>3, <3>1 DEF LineSound
  <2>5. CASE q = r
    <3>1. line[q][a].after <= PostedTotal(a)'
      BY <1>1, <1>5, <1>6, <1>9, <2>1, <2>5 DEF LineSound
    <3>2. Spent(a, q)' => asset'[a].status \in {"fully_depreciated", "disposed"}
      BY <1>1, <1>4, <1>9, <2>5 DEF TypeInv, TypeOK
    <3> QED
      BY <1>1, <1>3, <1>4, <2>1, <2>2, <2>3, <3>1, <3>2 DEF LineSound
  <2> QED
    BY <2>4, <2>5
<1> QED
  BY <1>4, <1>8, <1>9 DEF AssetSound

\* Every call keeps the lines of the assets that were not edited since.
LEMMA StepSound ==
  ASSUME RegisterInv, [Next]_vars
  PROVE  RegisterInv'
<1>1. TypeInv'
  BY StepTyped DEF RegisterInv
<1>2. SUFFICES ASSUME NEW b \in Assets, b \notin reworked'
               PROVE  AssetSound(b)'
  BY <1>1 DEF RegisterInv
<1>3. CASE UNCHANGED vars
  BY <1>2, <1>3, EditSound DEF vars, RegisterInv
<1>4. ASSUME NEW a \in Assets, NEW t \in Terms,
             CreateAsset(a, t) \/ \E status \in AssetStatus : UpdateAsset(a, t, status)
      PROVE  AssetSound(b)'
  <2>1. UNCHANGED <<run, line>> /\ b \notin reworked
    BY <1>2, <1>4 DEF CreateAsset, UpdateAsset
  <2>2. CASE b # a
    <3>1. asset'[b] = asset[b]
      BY <1>4, <2>2 DEF CreateAsset, UpdateAsset, RegisterInv, TypeInv, TypeOK
    <3> QED
      BY <2>1, <3>1, EditSound DEF RegisterInv
  <2>3. CASE b = a
    <3>1. (\A r \in Runs : ~HasLine(r, b)) /\ asset'[b].status # "fully_depreciated"
      <4>1. CASE CreateAsset(a, t)
        BY <2>1, <2>3, <4>1 DEF CreateAsset, RegisterInv, AssetSound, LineSound, TypeInv, TypeOK
      <4>2. ASSUME NEW status \in AssetStatus, UpdateAsset(a, t, status)
            PROVE  (\A r \in Runs : ~HasLine(r, b)) /\ asset'[b].status # "fully_depreciated"
        BY <1>2, <2>3, <4>2 DEF UpdateAsset, RegisterInv, TypeInv, TypeOK
      <4> QED
        BY <1>4, <4>1, <4>2
    <3> QED
      BY <2>1, <3>1, EditSound DEF RegisterInv
  <2> QED
    BY <2>2, <2>3
<1>5. ASSUME NEW a \in Assets, NEW date \in Dates, DisposeAsset(a, date)
      PROVE  AssetSound(b)'
  <2>1. UNCHANGED <<run, line>> /\ b \notin reworked
    BY <1>2, <1>5 DEF DisposeAsset
  <2>2. \/ asset'[b] = asset[b]
        \/ asset'[b].terms = asset[b].terms /\ asset'[b].status = "disposed"
    BY <1>5 DEF DisposeAsset, RegisterInv, TypeInv, TypeOK
  <2> QED
    BY <2>1, <2>2, EditSound DEF RegisterInv
<1>6. ASSUME NEW r \in Runs, NEW date \in Dates, CreateRun(r, date)
      PROVE  AssetSound(b)'
  <2>1. b \notin reworked
    BY <1>2, <1>6 DEF CreateRun
  <2> QED
    BY <1>6, <2>1, DraftSound DEF RegisterInv
<1>7. ASSUME NEW r \in Runs, CancelRun(r) \/ PostRun(r)
      PROVE  AssetSound(b)'
  <2>1. b \notin reworked
    BY <1>2, <1>7 DEF CancelRun, PostRun
  <2> QED
    BY <1>7, <2>1, CancelSound, PostSound DEF RegisterInv
<1> QED
  BY <1>3, <1>4, <1>5, <1>6, <1>7 DEF Next

\* Nothing was charged at the start.
LEMMA InitSound ==
  ASSUME Init
  PROVE  RegisterInv
<1>1. \A a \in Assets, r \in Runs : ~HasLine(r, a)
  BY DEF Init, HasLine, NoLine
<1>2. \A a \in Assets : asset[a].status = "none"
  BY DEF Init
<1> QED
  BY <1>1, <1>2, InitTyped DEF RegisterInv, AssetSound

\* The invariant holds of every reachable register.
LEMMA RegisterHolds == Spec => []RegisterInv
BY InitSound, StepSound, PTL DEF Spec

\* An asset that the runs have closed was charged its whole base, to the unit, by posted runs:
\* for any terms, rounding, number of runs and order of their drafting and posting.
THEOREM ClosedAssetIsSpent == Spec => []FullyDepreciatedIsSpent
<1>1. RegisterInv => FullyDepreciatedIsSpent
  BY DEF RegisterInv, AssetSound, FullyDepreciatedIsSpent
<1> QED
  BY <1>1, RegisterHolds, PTL

-------------------------------------------------------------------------------
(* Lines that do not overlap.  Each charges the stretch from what was      *)
(* accumulated when it was drafted to what it accumulates: stretches that  *)
(* do not overlap fit one after the other below the last of them.          *)

\* No two of the runs overlap.
Apart(a, runs) == \A r, q \in runs : r # q => ~Overlap(a, r, q)

\* Among finitely many lines of an asset one accumulates most.
LEMMA HighestLine ==
  ASSUME NEW a, NEW s, IsFiniteSet(s), s # {}, \A r \in s : line[r][a].after \in Nat
  PROVE  \E m \in s : \A r \in s : line[r][a].after <= line[m][a].after
<1> DEFINE Has(u) == \E m \in u : \A r \in u : line[r][a].after <= line[m][a].after
           G == {u \in SUBSET s : u = {} \/ Has(u)}
<1>1. {} \in G
  OBVIOUS
<1>2. ASSUME NEW u \in SUBSET s, NEW x \in u, u \ {x} \in G
      PROVE  u \in G
  <2>1. CASE u \ {x} = {}
    <3>1. \A r \in u : r = x
      BY <2>1
    <3> QED
      BY <3>1
  <2>2. CASE u \ {x} # {}
    <3>1. PICK m \in u \ {x} : \A r \in u \ {x} : line[r][a].after <= line[m][a].after
      BY <1>2, <2>2
    <3>2. CASE line[x][a].after <= line[m][a].after
      BY <3>1, <3>2
    <3>3. CASE ~(line[x][a].after <= line[m][a].after)
      <4>1. \A r \in u : line[r][a].after <= line[x][a].after
        BY <3>1, <3>3
      <4> QED
        BY <4>1
    <3> QED
      BY <3>2, <3>3
  <2> QED
    BY <2>1, <2>2
<1>3. s \in G
  <2> HIDE DEF G
  <2> QED
    BY <1>1, <1>2, FiniteInduction
<1> QED
  BY <1>3

\* Runs whose lines do not overlap charge no more than from the lowest they were drafted from to
\* the highest they accumulate.
LEMMA ApartBetween ==
  ASSUME TypeInv, NEW a \in Assets, NEW runs \in SUBSET Runs, IsFiniteSet(runs),
         Apart(a, runs), NEW low \in Nat, NEW bound \in Nat, low <= bound,
         \A r \in runs : HasLine(r, a) /\ low <= line[r][a].after - line[r][a].amount,
         \A r \in runs : line[r][a].after <= bound
  PROVE  Total(a, runs) <= bound - low
<1> DEFINE f == [r \in Runs |-> line[r][a].amount]
           Fits(s) == \A n \in Nat : low <= n /\ (\A r \in s : line[r][a].after <= n)
                                       => SumFunctionOnSet(f, s) <= n - low
           G == {s \in SUBSET runs : Fits(s)}
<1>1. \A r \in Runs : /\ line[r][a].amount \in Nat /\ line[r][a].after \in Nat
                      /\ f[r] \in Nat /\ f[r] = line[r][a].amount
  BY LineFields DEF TypeInv
<1>2. ASSUME NEW s \in SUBSET runs, \A t \in SUBSET s : t # s => t \in G
      PROVE  s \in G
  <2>1. CASE s = {}
    <3>1. SumFunctionOnSet(f, s) = 0
      BY <2>1, SumEmpty
    <3> QED
      BY <3>1
  <2>2. CASE s # {}
    <3>1. IsFiniteSet(s)
      BY FS_Subset
    <3>2. PICK m \in s : \A r \in s : line[r][a].after <= line[m][a].after
      BY <1>1, <2>2, <3>1, HighestLine
    <3>3. s \ {m} \in SUBSET s /\ s \ {m} # s
      BY <3>2
    <3>4. Fits(s \ {m})
      BY <1>2, <3>3
    <3>5. \A r \in s \ {m} : line[r][a].after <= line[m][a].after - line[m][a].amount
      <4> SUFFICES ASSUME NEW r \in s \ {m}
                   PROVE  line[r][a].after <= line[m][a].after - line[m][a].amount
        OBVIOUS
      <4>1. ~Overlap(a, m, r)
        BY DEF Apart
      <4>2. /\ line[r][a].amount \in Nat /\ line[r][a].after \in Nat /\ line[r][a].amount > 0
            /\ line[m][a].amount \in Nat /\ line[m][a].after \in Nat
            /\ line[r][a].after <= line[m][a].after
        BY <1>1, <3>2 DEF HasLine
      <4>3. \/ ~(line[m][a].after - line[m][a].amount < line[r][a].after)
            \/ ~(line[r][a].after - line[r][a].amount < line[m][a].after)
        BY <4>1 DEF Overlap
      <4> QED
        BY <4>2, <4>3
    <3>6. /\ line[m][a].after - line[m][a].amount \in Nat
          /\ low <= line[m][a].after - line[m][a].amount
          /\ line[m][a].amount \in Nat /\ line[m][a].after \in Nat
      <4>1. m \in runs
        OBVIOUS
      <4>2. low <= line[m][a].after - line[m][a].amount
        BY <4>1
      <4> QED
        BY <1>1, <4>1, <4>2
    <3>7. SumFunctionOnSet(f, s \ {m}) <= line[m][a].after - line[m][a].amount - low
      BY <3>4, <3>5, <3>6
    <3>8. /\ SumFunctionOnSet(f, s) = f[m] + SumFunctionOnSet(f, s \ {m})
          /\ SumFunctionOnSet(f, s \ {m}) \in Nat
      <4>1. /\ IsFiniteSet(s \ {m})
            /\ \A r \in s : f[r] \in Int
            /\ \A r \in s \ {m} : f[r] \in Nat
        BY <1>1, <3>1, FS_Subset
      <4> HIDE DEF f
      <4> QED
        BY <3>1, <4>1, SumRemove, SumNat
    <3>9. f[m] = line[m][a].amount
      BY <1>1
    <3>10. ASSUME NEW n \in Nat, low <= n, \A r \in s : line[r][a].after <= n
           PROVE  SumFunctionOnSet(f, s) <= n - low
      <4>1. line[m][a].after <= n
        BY <3>10
      <4> HIDE DEF f
      <4> QED
        BY <3>6, <3>7, <3>8, <3>9, <4>1
    <3> QED
      BY <3>10
  <2> QED
    BY <2>1, <2>2
<1>3. runs \in G
  <2> HIDE DEF G
  <2> QED
    BY <1>2, StrongInduction
<1>4. SumFunctionOnSet(f, runs) <= bound - low
  BY <1>3
<1> DEFINE g == [r \in runs |-> line[r][a].amount]
<1>5. Total(a, runs) = SumFunctionOnSet(g, runs)
  BY DEF Total, SumFunction
<1>6. \A r \in runs : g[r] = f[r]
  OBVIOUS
<1> HIDE DEF f, g
<1>7. SumFunctionOnSet(g, runs) = SumFunctionOnSet(f, runs)
  BY <1>6, SumSame
<1> QED
  BY <1>4, <1>5, <1>7

\* Runs whose lines do not overlap charge no more than the highest of them accumulates.
LEMMA ApartFits ==
  ASSUME TypeInv, NEW a \in Assets, NEW runs \in SUBSET Runs, IsFiniteSet(runs),
         Apart(a, runs),
         \A r \in runs : HasLine(r, a) /\ line[r][a].amount <= line[r][a].after,
         NEW bound \in Nat, \A r \in runs : line[r][a].after <= bound
  PROVE  Total(a, runs) <= bound
<1>1. \A r \in runs : /\ line[r][a].amount \in Nat /\ line[r][a].after \in Nat
                      /\ 0 <= line[r][a].after - line[r][a].amount
  BY LineFields DEF TypeInv
<1>2. 0 \in Nat /\ 0 <= bound /\ bound - 0 = bound
  OBVIOUS
<1>3. Total(a, runs) <= bound - 0
  BY <1>1, <1>2, ApartBetween
<1> QED
  BY <1>2, <1>3

\* Only drafts that were open together can charge an asset beyond its base: runs whose lines do
\* not overlap stop at the base, whatever the order of their dates and postings.
THEOREM ExcessIsOverlap == Spec => []ExcessNeedsOverlap
<1>1. RegisterInv => ExcessNeedsOverlap
  <2> SUFFICES ASSUME RegisterInv, NEW a \in Assets \ reworked,
                      Apart(a, PostedRuns(a))
               PROVE  PostedTotal(a) <= Base(a)
    <3>1. ASSUME RegisterInv, NEW a \in Assets
          PROVE  PostedTotal(a) \in Int /\ Base(a) \in Int
      BY <3>1, PostedFinite, AssetFields DEF RegisterInv, TypeInv
    <3> QED
      BY <3>1 DEF ExcessNeedsOverlap, Apart
  <2>1. \A r \in PostedRuns(a) : /\ HasLine(r, a) /\ r \in Runs
                                 /\ line[r][a].amount <= line[r][a].after
                                 /\ line[r][a].after <= Base(a)
    BY DEF RegisterInv, AssetSound, LineSound, PostedRuns
  <2>2. PostedRuns(a) \in SUBSET Runs /\ IsFiniteSet(PostedRuns(a)) /\ Base(a) \in Nat
    BY PostedFinite, AssetFields DEF RegisterInv, TypeInv
  <2> QED
    BY <2>1, <2>2, ApartFits DEF RegisterInv, PostedTotal
<1> QED
  BY <1>1, RegisterHolds, PTL

-------------------------------------------------------------------------------
(* Disposals.                                                              *)

\* Of runs that charged an asset in the order of their dates, the latest up to a date
\* accumulates what those up to the date charged.
LEMMA LatestAccumulates ==
  ASSUME RegisterInv, NEW a \in Assets \ reworked, NEW date \in Dates, ChargedInOrder(a),
         NEW r \in Latest(a, date)
  PROVE  line[r][a].after = Total(a, PostedThrough(a, date))
<1> DEFINE all == PostedRuns(a)
           through == PostedThrough(a, date)
           later == all \ through
           done == line[r][a].after
<1>1. /\ TypeInv /\ a \in Assets
      /\ all \in SUBSET Runs /\ IsFiniteSet(all) /\ PostedTotal(a) \in Nat
      /\ through \in SUBSET Runs /\ IsFiniteSet(through) /\ through \in SUBSET all
  BY PostedFinite DEF RegisterInv, PostedThrough
<1>2. later \in SUBSET Runs /\ IsFiniteSet(later) /\ later \in SUBSET all
  BY <1>1, FS_Difference
<1>3. \A q \in all : /\ HasLine(q, a) /\ q \in Runs
                     /\ line[q][a].amount \in Nat /\ line[q][a].after \in Nat
                     /\ line[q][a].amount > 0 /\ line[q][a].amount <= line[q][a].after
                     /\ line[q][a].after <= PostedTotal(a)
  <2>1. ASSUME NEW q \in all
        PROVE  q \in Runs /\ HasLine(q, a) /\ run[q].status = "posted" /\ LineSound(q, a)
    BY DEF RegisterInv, AssetSound, PostedRuns
  <2> QED
    BY <1>1, <2>1, LineFields DEF LineSound, HasLine, TypeInv
<1>4. /\ date \in Int /\ \A q \in Runs : run[q].date \in Int
  BY <1>1, AssetConstants DEF TypeInv, TypeOK, Dates
<1>5. /\ r \in through /\ r \in all /\ run[r].date <= date
      /\ \A q \in through : run[q].date <= run[r].date
  BY <1>1 DEF Latest, PostedThrough
<1>6. \A q \in later : run[r].date <= run[q].date /\ q # r
  <2> SUFFICES ASSUME NEW q \in later
               PROVE  run[r].date <= run[q].date /\ q # r
    OBVIOUS
  <2>1. ~(run[q].date <= date) /\ q \in Runs /\ r \in Runs
    BY <1>1, <1>5 DEF PostedThrough
  <2> QED
    BY <1>4, <1>5, <2>1
<1>7. Apart(a, all)
  BY DEF ChargedInOrder, Apart
<1>8. \A p, q \in all : p # q /\ run[p].date <= run[q].date => line[p][a].after <= line[q][a].after
  BY DEF ChargedInOrder
<1>9. done \in Nat /\ done <= PostedTotal(a) /\ line[r][a].amount \in Nat /\ line[r][a].amount > 0
  BY <1>3, <1>5
<1>10. \A q \in through : line[q][a].after <= done
  BY <1>1, <1>3, <1>5, <1>8, <1>9
<1>11. \A q \in later : done <= line[q][a].after - line[q][a].amount
  <2> SUFFICES ASSUME NEW q \in later
               PROVE  done <= line[q][a].after - line[q][a].amount
    OBVIOUS
  <2>1. done <= line[q][a].after /\ ~Overlap(a, q, r)
    BY <1>2, <1>5, <1>6, <1>7, <1>8 DEF Apart
  <2>2. line[q][a].amount \in Nat /\ line[q][a].after \in Nat
    BY <1>2, <1>3
  <2> QED
    BY <1>9, <2>1, <2>2 DEF Overlap
<1>12. Apart(a, through) /\ Apart(a, later)
  BY <1>1, <1>2, <1>7 DEF Apart
<1>13. Total(a, through) <= done
  <2> HIDE DEF all, through, later, done
  <2>1. \A q \in through : HasLine(q, a) /\ line[q][a].amount <= line[q][a].after
    BY <1>1, <1>3
  <2> QED
    BY <1>1, <1>9, <1>10, <1>12, <2>1, ApartFits
<1>14. Total(a, later) <= PostedTotal(a) - done
  <2> HIDE DEF all, through, later, done
  <2>1. \A q \in later : HasLine(q, a) /\ line[q][a].after <= PostedTotal(a)
    BY <1>2, <1>3
  <2> QED
    BY <1>1, <1>2, <1>9, <1>11, <1>12, <2>1, ApartBetween
<1>15. /\ PostedTotal(a) = Total(a, through) + Total(a, later)
       /\ Total(a, through) \in Nat /\ Total(a, later) \in Nat
  <2> DEFINE f(runs) == [q \in runs |-> line[q][a].amount]
             g == f(all)
  <2>1. /\ PostedTotal(a) = SumFunctionOnSet(f(all), all)
        /\ Total(a, through) = SumFunctionOnSet(f(through), through)
        /\ Total(a, later) = SumFunctionOnSet(f(later), later)
    BY DEF PostedTotal, Total, SumFunction
  <2>2. /\ \A q \in all : g[q] \in Int
        /\ \A q \in through : f(through)[q] = g[q]
        /\ \A q \in later : f(later)[q] = g[q]
    BY <1>1, <1>2, <1>3
  <2>3. all = through \cup later /\ through \cap later = {}
    BY <1>1
  <2>4. Total(a, through) \in Nat /\ Total(a, later) \in Nat
    BY <1>1, <1>2, TotalNat
  <2> DEFINE ft == f(through)
             fl == f(later)
  <2> HIDE DEF f, g, ft, fl, all, through, later
  <2>5. /\ SumFunctionOnSet(ft, through) = SumFunctionOnSet(g, through)
        /\ SumFunctionOnSet(fl, later) = SumFunctionOnSet(g, later)
    BY <1>1, <1>2, <2>2, SumSame DEF ft, fl
  <2>6. SumFunctionOnSet(g, through \cup later)
          = SumFunctionOnSet(g, through) + SumFunctionOnSet(g, later)
    BY <1>1, <1>2, <2>2, <2>3, SumDisjoint
  <2> QED
    BY <2>1, <2>3, <2>4, <2>5, <2>6 DEF ft, fl, g
<1> QED
  BY <1>1, <1>9, <1>13, <1>14, <1>15

\* A disposal clears exactly what the runs posted up to its date charged, the runs of later
\* dates left out, when each was drafted after the posting of the ones dated before it: for any
\* number of runs, any calendar and any terms.
THEOREM DisposalClearsPosted == Spec => DisposalClears
<1>1. ASSUME RegisterInv, [Next]_vars, Len(disposals') > Len(disposals),
             NEW d, d = disposals'[Len(disposals')],
             d.asset \notin reworked, ChargedInOrder(d.asset)
      PROVE  d.accumulated = Total(d.asset, PostedThrough(d.asset, d.date))
  <2>1. disposals \in Seq(Disposal) /\ disposals' # disposals
    BY <1>1 DEF RegisterInv, TypeInv, TypeOK
  <2>2. PICK a \in Assets, date \in Dates : DisposeAsset(a, date)
    BY <1>1, <2>1
    DEF Next, vars, CreateAsset, UpdateAsset, CreateRun, CancelRun, PostRun
  <2>3. PICK spent \in AccumulatedDepreciation(a, date) :
          disposals' = Append(disposals, [asset |-> a, date |-> date,
                                          cost |-> asset[a].terms.cost,
                                          accumulated |-> spent])
    BY <2>2 DEF DisposeAsset
  <2>4. PICK e : e = [asset |-> a, date |-> date, cost |-> asset[a].terms.cost,
                      accumulated |-> spent]
    OBVIOUS
  <2>5. d = e
    BY <1>1, <2>1, <2>3, <2>4
  <2>6. d.asset = a /\ d.date = date /\ d.accumulated = spent
    BY <2>4, <2>5
  <2>7. CASE PostedThrough(a, date) = {}
    <3>1. spent = 0
      BY <2>3, <2>7 DEF AccumulatedDepreciation
    <3>2. Total(a, {}) = 0
      BY SumEmpty DEF Total, SumFunction
    <3> QED
      BY <2>6, <2>7, <3>1, <3>2
  <2>8. CASE PostedThrough(a, date) # {}
    <3>1. PICK r \in Latest(a, date) : spent = line[r][a].after
      BY <2>3, <2>8 DEF AccumulatedDepreciation
    <3>2. line[r][a].after = Total(a, PostedThrough(a, date))
      BY <1>1, <2>6, LatestAccumulates
    <3> QED
      BY <2>6, <3>1, <3>2
  <2> QED
    BY <2>7, <2>8
<1>2. RegisterInv /\ [Next]_vars =>
        [Len(disposals') > Len(disposals) =>
           LET d == disposals'[Len(disposals')] IN
           d.asset \notin reworked /\ ChargedInOrder(d.asset)
             => d.accumulated = Total(d.asset, PostedThrough(d.asset, d.date))]_vars
  BY <1>1
<1> QED
  BY <1>2, RegisterHolds, PTL DEF Spec, DisposalClears

-------------------------------------------------------------------------------
(* A whole life.  One run for each month of a straight line charges every  *)
(* month's share and, in the last month, what the rounding of the shares   *)
(* left.                                                                   *)

\* The month of its schedule that a run charges an asset for.
ChargedMonth(a, r) == MonthsElapsed(a, run[r].date)

\* Runs that charge each month of a life once are as many as its months, and one is the last.
LEMMA LifeCounted ==
  ASSUME TypeInv, NEW a \in Assets, NEW runs \in SUBSET Runs, IsFiniteSet(runs),
         NEW n \in Nat \ {0}, \A r \in runs : ChargedMonth(a, r) \in 1 .. n,
         \A k \in 1 .. n : \E r \in runs :
           ChargedMonth(a, r) = k /\ \A q \in runs \ {r} : ChargedMonth(a, q) # k
  PROVE  /\ Cardinality(runs) = n
         /\ \E w \in runs : /\ ChargedMonth(a, w) = n
                            /\ \A r \in runs \ {w} : ChargedMonth(a, r) \in 1 .. n - 1
<1> DEFINE at == [r \in runs |-> ChargedMonth(a, r)]
<1>3. ASSUME NEW r \in runs, NEW q \in runs, ChargedMonth(a, r) = ChargedMonth(a, q)
      PROVE  r = q
  <2>1. PICK w \in runs : /\ ChargedMonth(a, w) = ChargedMonth(a, r)
                          /\ \A p \in runs \ {w} : ChargedMonth(a, p) # ChargedMonth(a, r)
    OBVIOUS
  <2> QED
    BY <1>3, <2>1
<1>4. Cardinality(runs) = n
  <2>1. at \in [runs -> 1 .. n]
    OBVIOUS
  <2>2. \A r, q \in runs : at[r] = at[q] => r = q
    BY <1>3
  <2>3. \A k \in 1 .. n : \E r \in runs : at[r] = k
    OBVIOUS
  <2> HIDE DEF at
  <2>4. at \in Bijection(runs, 1 .. n)
    BY <2>1, <2>2, <2>3 DEF Bijection, Injection, Surjection, IsInjective
  <2>5. Cardinality(1 .. n) = Cardinality(runs)
    BY <2>4, FS_Bijection DEF ExistsBijection
  <2>6. Cardinality(1 .. n) = n
    BY FS_Interval
  <2> QED
    BY <2>5, <2>6
<1>5. PICK w \in runs : ChargedMonth(a, w) = n
  OBVIOUS
<1>6. \A r \in runs \ {w} : ChargedMonth(a, r) \in 1 .. n - 1
  <2> SUFFICES ASSUME NEW r \in runs \ {w}
               PROVE  ChargedMonth(a, r) \in 1 .. n - 1
    OBVIOUS
  <2>1. ChargedMonth(a, r) # n /\ ChargedMonth(a, r) \in 1 .. n
    BY <1>3, <1>5
  <2> QED
    BY <2>1
<1> QED
  BY <1>4, <1>5, <1>6

\* One straight-line charge for each month of a life adds up to the base, whatever its rounding.
LEMMA LifeCharged ==
  ASSUME TypeInv, NEW a \in Assets, NEW runs \in SUBSET Runs, IsFiniteSet(runs),
         asset[a].terms.method = "exact", NEW n, n = asset[a].terms.life,
         \A r \in runs : /\ ChargedMonth(a, r) \in 1 .. n
                        /\ line[r][a].amount \in Scheduled(a, ChargedMonth(a, r)),
         \A k \in 1 .. n : \E r \in runs :
           ChargedMonth(a, r) = k /\ \A q \in runs \ {r} : ChargedMonth(a, q) # k
  PROVE  Total(a, runs) = Base(a)
<1> DEFINE f == [r \in runs |-> line[r][a].amount]
<1>1. n \in Nat \ {0} /\ Base(a) \in Nat
  BY AssetFields DEF TypeInv
<1>2. PICK w \in runs : /\ ChargedMonth(a, w) = n
                        /\ \A r \in runs \ {w} : ChargedMonth(a, r) \in 1 .. n - 1
  <2>1. \A r \in runs : ChargedMonth(a, r) \in 1 .. n
    OBVIOUS
  <2> HIDE DEF f
  <2> QED
    BY <1>1, <2>1, LifeCounted, Zenon
<1>3. PICK share : share = Base(a) \div n
  OBVIOUS
<1>4. share \in Int
  BY <1>1, <1>3
<1>5. \A r \in runs \ {w} : f[r] = share
  <2> SUFFICES ASSUME NEW r \in runs \ {w}
               PROVE  line[r][a].amount = share
    OBVIOUS
  <2>1. ChargedMonth(a, r) < n
    BY <1>1, <1>2
  <2>2. line[r][a].amount \in Scheduled(a, ChargedMonth(a, r))
    OBVIOUS
  <2> QED
    BY <1>3, <2>1, <2>2 DEF Scheduled
<1>6. f[w] = Base(a) - (n - 1) * share
  <2>1. line[w][a].amount \in Scheduled(a, n)
    BY <1>2
  <2>2. line[w][a].amount = Base(a) - (n - 1) * share
    BY <1>1, <1>3, <2>1 DEF Scheduled
  <2> QED
    BY <2>2
<1>7. \A r \in runs : f[r] \in Int
  BY LineFields DEF TypeInv
<1>8. Total(a, runs) = SumFunctionOnSet(f, runs)
  BY DEF Total, SumFunction
<1> HIDE DEF f
<1>9. Cardinality(runs \ {w}) = n - 1 /\ IsFiniteSet(runs \ {w})
  <2>1. Cardinality(runs) = n
    BY <1>1, LifeCounted
  <2> QED
    BY <1>1, <2>1, FS_RemoveElement
<1>10. SumFunctionOnSet(f, runs \ {w}) = share * (n - 1)
  <2>1. SumFunctionOnSet(f, runs \ {w}) = share * Cardinality(runs \ {w})
    BY <1>4, <1>5, <1>9, SumConstant
  <2> QED
    BY <1>9, <2>1
<1>11. SumFunctionOnSet(f, runs) = f[w] + SumFunctionOnSet(f, runs \ {w})
  BY <1>7, SumRemove
<1>12. (n - 1) * share = share * (n - 1) /\ (n - 1) * share \in Int
  BY <1>1, <1>4
<1> QED
  BY <1>1, <1>6, <1>8, <1>10, <1>11, <1>12

\* A straight line run once for each month of its life, each run drafted after the posting of
\* those before it, charges exactly its base and closes the asset, for any life and rounding.
THEOREM WholeLifeIsSpent == Spec => []WholeLifeSpends
<1>1. RegisterInv => WholeLifeSpends
  <2> SUFFICES ASSUME RegisterInv, NEW a \in Assets \ reworked,
                      asset[a].terms.method = "exact", Consecutive(a)
               PROVE  /\ PostedTotal(a) = Base(a)
                      /\ asset[a].status \in {"fully_depreciated", "disposed"}
    BY DEF WholeLifeSpends
  <2>1. TypeInv /\ TypeOK /\ PostedRuns(a) \in SUBSET Runs /\ IsFiniteSet(PostedRuns(a))
    BY PostedFinite DEF RegisterInv, TypeInv
  <2>2. PICK n : n = asset[a].terms.life
    OBVIOUS
  <2>3. /\ n \in Nat \ {0} /\ Base(a) \in Nat \ {0} /\ PostedTotal(a) \in Nat
        /\ Base(a) = asset[a].terms.cost - asset[a].terms.salvage
        /\ asset[a].terms.cost \in Nat /\ asset[a].terms.salvage \in Nat
    BY <2>1, <2>2, AssetFields, PostedFinite
  <2>4. ASSUME NEW r \in PostedRuns(a)
        PROVE  r \in Runs /\ HasLine(r, a) /\ run[r].status = "posted" /\ LineSound(r, a)
    BY DEF RegisterInv, AssetSound, PostedRuns
  <2>5. ASSUME NEW r \in PostedRuns(a)
        PROVE  /\ line[r][a].amount \in Nat /\ line[r][a].after \in Nat
               /\ line[r][a].amount <= line[r][a].after
               /\ line[r][a].after <= Base(a) /\ line[r][a].after <= PostedTotal(a)
               /\ ChargedMonth(a, r) \in 1 .. n
    BY <2>1, <2>2, <2>4, LineFields DEF LineSound, ChargedMonth
  <2>6. \A k \in 1 .. n : \E r \in PostedRuns(a) :
          /\ ChargedMonth(a, r) = k
          /\ \A q \in PostedRuns(a) \ {r} : ChargedMonth(a, q) # k
    BY <2>2 DEF Consecutive, ChargedMonth
  <2>7. Apart(a, PostedRuns(a))
    <3> SUFFICES ASSUME NEW r \in PostedRuns(a), NEW q \in PostedRuns(a), r # q
                 PROVE  ~Overlap(a, r, q)
      BY DEF Apart
    <3>1. ChargedMonth(a, r) \in 1 .. n
      BY <2>5
    <3>2. PICK w \in PostedRuns(a) :
            /\ ChargedMonth(a, w) = ChargedMonth(a, r)
            /\ \A p \in PostedRuns(a) \ {w} :
                 ChargedMonth(a, p) # ChargedMonth(a, r) /\ ~Overlap(a, w, p)
      BY <2>2, <3>1 DEF Consecutive, ChargedMonth
    <3>4. w = r
      BY <3>2
    <3> QED
      BY <3>2, <3>4
  <2>8. PostedTotal(a) <= Base(a)
    BY <2>1, <2>3, <2>4, <2>5, <2>7, ApartFits DEF PostedTotal
  <2>9. PostedTotal(a) = Base(a)
    <3>1. CASE \E r \in PostedRuns(a) : line[r][a].after = Base(a)
      BY <2>3, <2>5, <2>8, <3>1
    <3>2. CASE \A r \in PostedRuns(a) : line[r][a].after # Base(a)
      <4>1. \A r \in PostedRuns(a) : line[r][a].amount \in Scheduled(a, ChargedMonth(a, r))
        BY <2>4, <3>2 DEF LineSound, ChargedMonth
      <4> QED
        BY <2>1, <2>2, <2>5, <2>6, <4>1, LifeCharged DEF PostedTotal
    <3> QED
      BY <3>1, <3>2
  <2>10. PICK r \in PostedRuns(a) : line[r][a].after = Base(a)
    <3> SUFFICES ASSUME \A r \in PostedRuns(a) : line[r][a].after # Base(a)
                 PROVE  FALSE
      OBVIOUS
    <3>1. \A r \in PostedRuns(a) : line[r][a].after <= Base(a) - 1
      BY <2>3, <2>5
    <3>2. Base(a) - 1 \in Nat
      BY <2>3
    <3>3. PostedTotal(a) <= Base(a) - 1
      BY <2>1, <2>4, <2>5, <2>7, <3>1, <3>2, ApartFits DEF PostedTotal
    <3> QED
      BY <2>3, <2>9, <3>3
  <2>11. line[r][a].nbv = asset[a].terms.salvage
    <3>1. line[r][a].nbv = Max({asset[a].terms.cost - line[r][a].after, asset[a].terms.salvage})
      BY <2>4 DEF LineSound
    <3>2. asset[a].terms.cost - line[r][a].after = asset[a].terms.salvage
      BY <2>3, <2>10
    <3> QED
      BY <2>3, <3>1, <3>2, MaxOfTwo
  <2>12. Spent(a, r)
    BY <2>3, <2>11 DEF Spent, Unit
  <2> QED
    BY <2>4, <2>9, <2>12 DEF LineSound
<1> QED
  BY <1>1, RegisterHolds, PTL

-------------------------------------------------------------------------------
(* Powers.  The recursive function that defines them exists, by induction  *)
(* on the naturals: a set that holds 0 and each successor holds them all.  *)

\* Induction: G is the set of the numbers that have the property to be proved.
LEMMA Counting ==
  ASSUME NEW G, 0 \in G, \A n \in Nat : n \in G => n + 1 \in G
  PROVE  \A n \in Nat : n \in G
<1> DEFINE B == {n \in Nat : n \notin G}
<1> SUFFICES ASSUME B # {} PROVE FALSE
  OBVIOUS
<1>1. PICK m \in B : \A n \in B : <<n, m>> \notin OpToRel(<, Nat)
  <2>1. B \subseteq Nat
    OBVIOUS
  <2> HIDE DEF B
  <2> QED
    BY <2>1, NatLessThanWellFounded, WFMin
<1>2. \A n \in B : ~(n < m)
  BY <1>1 DEF OpToRel
<1>3. m \in Nat /\ m # 0
  OBVIOUS
<1>4. m - 1 \in Nat /\ m - 1 < m /\ (m - 1) + 1 = m
  BY <1>3
<1>5. m - 1 \notin B
  BY <1>2, <1>4
<1>6. m \in G
  BY <1>4, <1>5
<1> QED
  BY <1>6

\* The powers of b as far as n.
PowersTo(p, b, n) == /\ p \in [0 .. n -> Nat]
                     /\ p[0] = 1
                     /\ \A i \in 1 .. n : p[i] = b * p[i - 1]

\* Powers are naturals, from one up, each the one before times the base.
LEMMA PowerStep ==
  ASSUME NEW b \in Nat
  PROVE  /\ Power(b, 0) = 1
         /\ \A n \in Nat : Power(b, n) \in Nat /\ Power(b, n + 1) = b * Power(b, n)
<1>1. \A n \in Nat : \E p : PowersTo(p, b, n)
  <2> DEFINE G == {n \in Nat : \E p : PowersTo(p, b, n)}
  <2>1. 0 \in G
    <3>1. PowersTo([i \in 0 .. 0 |-> 1], b, 0)
      BY DEF PowersTo
    <3> QED
      BY <3>1
  <2>2. ASSUME NEW n \in Nat, n \in G
        PROVE  n + 1 \in G
    <3>1. PICK p : PowersTo(p, b, n)
      BY <2>2
    <3> DEFINE q == [i \in 0 .. (n + 1) |-> IF i = n + 1 THEN b * p[n] ELSE p[i]]
    <3>2. p[n] \in Nat /\ \A i \in 0 .. n : p[i] \in Nat
      BY <3>1 DEF PowersTo
    <3>3. b * p[n] \in Nat
      BY <3>2
    <3>4. q \in [0 .. (n + 1) -> Nat]
      BY <3>2, <3>3
    <3>5. q[0] = 1
      BY <3>1 DEF PowersTo
    <3>6. \A i \in 1 .. (n + 1) : q[i] = b * q[i - 1]
      <4> SUFFICES ASSUME NEW i \in 1 .. (n + 1)
                   PROVE  q[i] = b * q[i - 1]
        OBVIOUS
      <4>1. q[i - 1] = p[i - 1]
        OBVIOUS
      <4>2. CASE i = n + 1
        BY <4>1, <4>2
      <4>3. CASE i # n + 1
        <5>1. i \in 1 .. n /\ q[i] = p[i]
          BY <4>3
        <5> QED
          BY <3>1, <4>1, <5>1 DEF PowersTo
      <4> QED
        BY <4>2, <4>3
    <3>7. PowersTo(q, b, n + 1)
      <4> HIDE DEF q
      <4> QED
        BY <3>4, <3>5, <3>6 DEF PowersTo
    <3> QED
      BY <3>7
  <2> HIDE DEF G
  <2>3. \A n \in Nat : n \in G
    BY <2>1, <2>2, Counting
  <2> QED
    BY <2>3 DEF G
<1>2. ASSUME NEW n \in Nat, NEW p, NEW m \in Nat, NEW q, PowersTo(p, b, m), PowersTo(q, b, m + 1),
             n <= m
      PROVE  p[n] = q[n]
  <2> DEFINE G == {i \in Nat : i <= m => p[i] = q[i]}
  <2>1. 0 \in G
    BY <1>2 DEF PowersTo
  <2>2. ASSUME NEW i \in Nat, i \in G
        PROVE  i + 1 \in G
    <3>1. CASE i + 1 <= m
      <4>1. i + 1 \in 1 .. m /\ i + 1 \in 1 .. (m + 1) /\ (i + 1) - 1 = i /\ p[i] = q[i]
        BY <2>2, <3>1
      <4>2. p[i + 1] = b * p[i] /\ q[i + 1] = b * q[i]
        BY <1>2, <4>1 DEF PowersTo
      <4> QED
        BY <4>1, <4>2
    <3> QED
      BY <3>1
  <2> HIDE DEF G
  <2>3. \A i \in Nat : i \in G
    BY <2>1, <2>2, Counting
  <2> QED
    BY <1>2, <2>3 DEF G
<1> DEFINE P(n) == CHOOSE p : PowersTo(p, b, n)
           V == [n \in Nat |-> P(n)[n]]
<1>3. \A n \in Nat : PowersTo(P(n), b, n)
  BY <1>1
<1> HIDE DEF P
<1>4. V[0] = 1 /\ \A n \in Nat : V[n] \in Nat
  BY <1>3 DEF PowersTo
<1>5. \A n \in Nat : V[n + 1] = b * V[n]
  <2> SUFFICES ASSUME NEW n \in Nat
               PROVE  V[n + 1] = b * V[n]
    OBVIOUS
  <2>1. P(n)[n] = P(n + 1)[n]
    BY <1>2, <1>3
  <2>2. n + 1 \in 1 .. (n + 1) /\ (n + 1) - 1 = n
    OBVIOUS
  <2>3. P(n + 1)[n + 1] = b * P(n + 1)[n]
    BY <1>3, <2>2 DEF PowersTo
  <2> QED
    BY <2>1, <2>3
<1> HIDE DEF V
<1>6. V = [i \in Nat |-> IF i = 0 THEN 1 ELSE b * V[i - 1]]
  <2>1. ASSUME NEW i \in Nat
        PROVE  V[i] = IF i = 0 THEN 1 ELSE b * V[i - 1]
    <3>1. CASE i = 0
      BY <1>4, <3>1
    <3>2. CASE i # 0
      <4>1. i - 1 \in Nat /\ (i - 1) + 1 = i
        BY <3>2
      <4> QED
        BY <1>5, <3>2, <4>1
    <3> QED
      BY <3>1, <3>2
  <2> QED
    BY <2>1 DEF V
<1> DEFINE Q == CHOOSE p : p = [i \in Nat |-> IF i = 0 THEN 1 ELSE b * p[i - 1]]
<1>7. Q = [i \in Nat |-> IF i = 0 THEN 1 ELSE b * Q[i - 1]]
  BY <1>6
<1>8. \A n \in Nat : Power(b, n) = Q[n]
  BY DEF Power
<1> HIDE DEF Q
<1>9. Q[0] = 1 /\ \A n \in Nat : Q[n + 1] = b * Q[n]
  <2>1. \A n \in Nat : n + 1 \in Nat /\ n + 1 # 0 /\ (n + 1) - 1 = n
    OBVIOUS
  <2> QED
    BY <1>7, <2>1
<1>10. \A n \in Nat : Q[n] \in Nat
  <2> DEFINE G == {n \in Nat : Q[n] \in Nat}
  <2>1. 0 \in G
    BY <1>9
  <2>2. ASSUME NEW n \in Nat, n \in G
        PROVE  n + 1 \in G
    BY <1>9, <2>2
  <2> HIDE DEF G
  <2>3. \A n \in Nat : n \in G
    BY <2>1, <2>2, Counting
  <2> QED
    BY <2>3 DEF G
<1> QED
  BY <1>8, <1>9, <1>10

\* What q to the n grows to in k months at a rate of 1/q, all but the division.
Rung(q, n, k) == Power(q, n - k) * Power(q + 1, k)

\* A power of a positive number is positive.
LEMMA PowerPositive ==
  ASSUME NEW b \in Nat \ {0}, NEW n \in Nat
  PROVE  Power(b, n) \in Nat \ {0}
<1> DEFINE G == {i \in Nat : Power(b, i) \in Nat \ {0}}
<1>1. 0 \in G
  BY PowerStep
<1>2. ASSUME NEW i \in Nat, i \in G
      PROVE  i + 1 \in G
  <2>1. Power(b, i + 1) = b * Power(b, i) /\ Power(b, i) \in Nat \ {0}
    BY <1>2, PowerStep
  <2> QED
    BY <2>1
<1> HIDE DEF G
<1>3. \A i \in Nat : i \in G
  BY <1>1, <1>2, Counting
<1> QED
  BY <1>3 DEF G

\* A month's growth is a q-th of what there was.
LEMMA RungStep ==
  ASSUME NEW q \in Nat \ {0}, NEW n \in Nat, NEW k \in Nat, k < n
  PROVE  /\ Rung(q, n, k) \in Nat \ {0} /\ Rung(q, n, k + 1) \in Nat \ {0}
         /\ Power(q, n - (k + 1)) * Power(q + 1, k) \in Nat \ {0}
         /\ Rung(q, n, k + 1) = Rung(q, n, k) + Power(q, n - (k + 1)) * Power(q + 1, k)
         /\ Rung(q, n, k) = q * (Power(q, n - (k + 1)) * Power(q + 1, k))
<1> DEFINE u == Power(q, n - (k + 1))
           v == Power(q + 1, k)
<1>1. n - (k + 1) \in Nat /\ (n - (k + 1)) + 1 = n - k
  OBVIOUS
<1>2. Power(q, n - k) = q * u /\ u \in Nat \ {0}
  <2>1. Power(q, (n - (k + 1)) + 1) = q * u
    BY <1>1, PowerStep
  <2> QED
    BY <1>1, <2>1, PowerPositive
<1>3. Power(q + 1, k + 1) = (q + 1) * v /\ v \in Nat \ {0}
  BY PowerStep, PowerPositive
<1> HIDE DEF u, v
<1>4. u * v \in Nat \ {0}
  BY <1>2, <1>3
<1>5. Rung(q, n, k) = (q * u) * v
  BY <1>2 DEF Rung, v
<1>6. Rung(q, n, k + 1) = u * ((q + 1) * v)
  BY <1>3 DEF Rung, u
<1>7. (q * u) * v = q * (u * v) /\ u * ((q + 1) * v) = q * (u * v) + u * v
  BY <1>2, <1>3
<1>8. q * (u * v) \in Nat \ {0}
  BY <1>4
<1> QED
  BY <1>4, <1>5, <1>6, <1>7, <1>8 DEF u, v

\* What grows for n months in all grows from q to the n to q + 1 to the n.
LEMMA Rungs ==
  ASSUME NEW q \in Nat \ {0}, NEW n \in Nat \ {0}
  PROVE  /\ Power(q, n) \in Nat \ {0} /\ Power(q + 1, n) \in Nat \ {0}
         /\ Power(q, n) < Power(q + 1, n)
         /\ Rung(q, n, 0) = Power(q, n) /\ Rung(q, n, n) = Power(q + 1, n)
         /\ \A k \in 0 .. n : /\ Rung(q, n, k) \in Nat \ {0}
                              /\ Power(q, n) <= Rung(q, n, k)
                              /\ Rung(q, n, k) <= Power(q + 1, n)
<1>1. Power(q, n) \in Nat \ {0} /\ Power(q + 1, n) \in Nat \ {0}
  BY PowerPositive
<1>2. Rung(q, n, 0) = Power(q, n)
  <2>1. Power(q + 1, 0) = 1 /\ n - 0 = n
    BY PowerStep
  <2> QED
    BY <1>1, <2>1 DEF Rung
<1>3. Rung(q, n, n) = Power(q + 1, n)
  <2>1. Power(q, 0) = 1 /\ n - n = 0
    BY PowerStep
  <2> QED
    BY <1>1, <2>1 DEF Rung
<1>4. ASSUME NEW k \in 0 .. n
      PROVE  Rung(q, n, k) \in Nat \ {0} /\ Power(q, n) <= Rung(q, n, k)
  <2> DEFINE G == {i \in Nat : i <= n => /\ Rung(q, n, i) \in Nat \ {0}
                                         /\ Power(q, n) <= Rung(q, n, i)}
  <2>1. 0 \in G
    BY <1>1, <1>2
  <2>2. ASSUME NEW i \in Nat, i \in G
        PROVE  i + 1 \in G
    <3>1. CASE i < n
      <4>1. Rung(q, n, i + 1) = Rung(q, n, i) + Power(q, n - (i + 1)) * Power(q + 1, i)
        BY <3>1, RungStep
      <4>2. Rung(q, n, i + 1) \in Nat \ {0} /\ Power(q, n - (i + 1)) * Power(q + 1, i) \in Nat
        BY <3>1, RungStep
      <4>3. Rung(q, n, i) \in Nat /\ Power(q, n) <= Rung(q, n, i)
        BY <2>2, <3>1
      <4> QED
        BY <1>1, <4>1, <4>2, <4>3
    <3> QED
      BY <3>1
  <2> HIDE DEF G
  <2>3. \A i \in Nat : i \in G
    BY <2>1, <2>2, Counting
  <2> QED
    BY <2>3 DEF G
<1>5. ASSUME NEW k \in 0 .. n
      PROVE  Rung(q, n, k) <= Power(q + 1, n)
  <2> DEFINE G == {j \in Nat : j <= n => Rung(q, n, n - j) <= Power(q + 1, n)}
  <2>1. 0 \in G
    <3>1. n - 0 = n
      OBVIOUS
    <3> QED
      BY <1>1, <1>3, <3>1
  <2>2. ASSUME NEW j \in Nat, j \in G
        PROVE  j + 1 \in G
    <3>1. CASE j < n
      <4>1. n - (j + 1) \in Nat /\ n - (j + 1) < n /\ (n - (j + 1)) + 1 = n - j
        BY <3>1
      <4>2. Rung(q, n, n - (j + 1)) <= Rung(q, n, (n - (j + 1)) + 1)
        BY <4>1, RungStep
      <4>3. Rung(q, n, n - (j + 1)) \in Nat /\ Rung(q, n, n - j) \in Nat
        BY <1>4, <4>1
      <4>4. Rung(q, n, n - j) <= Power(q + 1, n)
        BY <2>2, <3>1
      <4> QED
        BY <1>1, <4>1, <4>2, <4>3, <4>4
    <3> QED
      BY <3>1
  <2> HIDE DEF G
  <2>3. \A j \in Nat : j \in G
    BY <2>1, <2>2, Counting
  <2>4. n - k \in Nat /\ n - k <= n /\ n - (n - k) = k
    OBVIOUS
  <2> QED
    BY <2>3, <2>4 DEF G
<1>6. Power(q, n) < Power(q + 1, n)
  <2>1. Rung(q, n, 1) > Rung(q, n, 0)
    <3>1. /\ Rung(q, n, 0 + 1) = Rung(q, n, 0) + Power(q, n - (0 + 1)) * Power(q + 1, 0)
          /\ Power(q, n - (0 + 1)) * Power(q + 1, 0) \in Nat \ {0}
          /\ Rung(q, n, 0) \in Nat
      BY RungStep
    <3>2. 0 + 1 = 1
      OBVIOUS
    <3> QED
      BY <3>1, <3>2
  <2>2. Rung(q, n, 1) <= Power(q + 1, n) /\ Rung(q, n, 1) \in Nat
    BY <1>4, <1>5
  <2> QED
    BY <1>1, <1>2, <2>1, <2>2
<1> QED
  BY <1>1, <1>2, <1>3, <1>4, <1>5, <1>6

-------------------------------------------------------------------------------
(* Quotients that are cut.                                                 *)

\* Factors keep an order, and positive ones can be left out of one.
LEMMA Times ==
  ASSUME NEW a \in Int, NEW b \in Int, NEW c \in Nat
  PROVE  /\ a <= b => c * a <= c * b
         /\ c # 0 /\ c * a <= c * b => a <= b
         /\ c # 0 /\ c * a < c * b => a < b
OBVIOUS

\* A quotient is the last number whose product does not pass the dividend.
LEMMA Quotient ==
  ASSUME NEW x \in Int, NEW y \in Nat \ {0}
  PROVE  /\ x \div y \in Int
         /\ y * (x \div y) <= x
         /\ x < y * (x \div y) + y
         /\ x \in Nat => x \div y \in Nat
<1> DEFINE low == x \div y
           rest == x % y
<1>1. /\ low \in Int
      /\ rest \in 0 .. (y - 1)
      /\ x = y * low + rest
  OBVIOUS
<1>2. x \in Nat => low \in Nat
  OBVIOUS
<1> HIDE DEF low, rest
<1>3. y * low \in Int
  BY <1>1
<1>4. y * low <= x /\ x < y * low + y
  BY <1>1, <1>3
<1> QED
  BY <1>1, <1>2, <1>4 DEF low

\* What is cut is at most a unit short of the quotient.
LEMMA CutNear ==
  ASSUME NEW x \in Int, NEW y \in Nat \ {0}, NEW c \in Cut(x, y)
  PROVE  c \in Int /\ y * c <= x /\ x <= y * c + y /\ c <= x \div y /\ x \div y <= c + 1
<1>1. /\ x \div y \in Int /\ y * (x \div y) <= x /\ x < y * (x \div y) + y
      /\ (x - 1) \div y \in Int /\ y * ((x - 1) \div y) <= x - 1
      /\ x - 1 < y * ((x - 1) \div y) + y
  BY Quotient
<1> DEFINE a == x \div y
           b == (x - 1) \div y
<1> HIDE DEF a, b
<1>2. a \in Int /\ b \in Int /\ y * a \in Int /\ y * b \in Int
  BY <1>1 DEF a, b
<1>3. /\ y * a <= x /\ x < y * a + y /\ y * b <= x - 1 /\ x - 1 < y * b + y
  BY <1>1 DEF a, b
<1>4. b <= a /\ a <= b + 1
  <2>1. y * b < y * (a + 1) /\ y * a < y * (b + 2)
    <3>1. y * (a + 1) = y * a + y /\ y * (b + 2) = y * b + y + y
      BY <1>2
    <3> QED
      BY <1>2, <1>3, <3>1
  <2>2. b < a + 1 /\ a < b + 2
    BY <1>2, <2>1, Times
  <2> QED
    BY <1>2, <2>2
<1>5. c = a \/ c = b
  BY DEF Cut, a, b
<1>6. c \in Int /\ y * c <= x /\ x <= y * c + y
  BY <1>2, <1>3, <1>5
<1>7. c <= a /\ a <= c + 1
  BY <1>2, <1>4, <1>5
<1> QED
  BY <1>6, <1>7 DEF a

-------------------------------------------------------------------------------
(* The command of a schedule.                                              *)

\* No units add up to zero.
LEMMA NoUnits ==
  ASSUME NEW t \in Commands, t.units = <<>>
  PROVE  TotalUnits(t) = 0
<1>1. DOMAIN t.units = {}
  OBVIOUS
<1> QED
  BY <1>1, SumEmpty DEF TotalUnits, SumFunction

\* A command has a base to spend and a month to spend it in.
LEMMA CommandOf ==
  ASSUME NEW t \in Commands
  PROVE  /\ t.engine \in Engines /\ t.cost \in Nat /\ Salvage(t) \in Nat /\ BaseOf(t) \in Nat
         /\ t.cost = BaseOf(t) + Salvage(t)
         /\ Length(t) \in Nat \ {0}
         /\ t.engine \notin {"macrs", "units_of_production"} => Length(t) = t.life
         /\ t.factor \in Nat \ {0} /\ t.interest \in Nat \ {0} /\ t.switch \in BOOLEAN
         /\ t.units \in Seq(Nat)
<1>1. /\ t.engine \in Engines
      /\ t.cost \in Nat /\ t.salvage \in Nat /\ t.salvage < t.cost
      /\ t.life \in Nat \ {0} /\ t.factor \in Nat \ {0} /\ t.interest \in Nat \ {0}
      /\ t.switch \in BOOLEAN /\ t.units \in Seq(Nat)
      /\ t.engine = "units_of_production" => TotalUnits(t) > 0
      /\ t.engine = "macrs" => t.units # <<>>
      /\ MonthsPerYear \in Nat \ {0}
  BY ScheduleConstants
<1>2. Salvage(t) \in Nat /\ BaseOf(t) \in Nat /\ t.cost = BaseOf(t) + Salvage(t)
  BY <1>1 DEF Salvage, BaseOf
<1>3. t.engine \in {"units_of_production", "macrs"} => Len(t.units) \in Nat \ {0}
  <2>1. t.units # <<>> => Len(t.units) \in Nat \ {0}
    BY <1>1
  <2>2. t.engine = "units_of_production" => t.units # <<>>
    BY <1>1, NoUnits
  <2> QED
    BY <1>1, <2>1, <2>2
<1>4. CASE t.engine = "macrs"
  <2>1. Length(t) = Len(t.units) * MonthsPerYear
    BY <1>4 DEF Length
  <2>2. \A a, b \in Nat \ {0} : a * b \in Nat \ {0}
    OBVIOUS
  <2> QED
    BY <1>1, <1>2, <1>3, <1>4, <2>1, <2>2
<1>5. CASE t.engine = "units_of_production"
  <2>1. Length(t) = Len(t.units)
    BY <1>5 DEF Length
  <2> QED
    BY <1>1, <1>2, <1>3, <1>5, <2>1
<1>6. CASE t.engine \notin {"macrs", "units_of_production"}
  <2>1. Length(t) = t.life
    BY <1>6 DEF Length
  <2> QED
    BY <1>1, <1>2, <1>6, <2>1
<1> QED
  BY <1>4, <1>5, <1>6

\* The variables of the loop: the book value is what the charges leave of the cost, or salvage.
LoopType ==
  /\ term \in Commands /\ payment \in Payments(term)
  /\ month \in 1 .. (N + 1)
  /\ accumulated \in Nat /\ charge \in Nat /\ onLine \in BOOLEAN
  /\ nbv = AtLeast(term.cost - accumulated, Salvage(term))

\* What remains above salvage is what the charges leave of the base.
LEMMA LoopFacts ==
  ASSUME LoopType
  PROVE  /\ DepreciableBase \in Nat /\ N \in Nat \ {0} /\ month \in Nat \ {0} /\ month <= N + 1
         /\ term \in Commands /\ accumulated \in Nat /\ charge \in Nat /\ nbv \in Nat
         /\ Remaining \in Nat /\ Remaining = AtLeast(0, DepreciableBase - accumulated)
         /\ nbv = Remaining + Salvage(term)
         /\ accumulated <= DepreciableBase => nbv = term.cost - accumulated
<1>1. /\ term \in Commands /\ month \in 1 .. (N + 1) /\ accumulated \in Nat /\ charge \in Nat
      /\ nbv = AtLeast(term.cost - accumulated, Salvage(term))
  BY DEF LoopType
<1>2. /\ term.cost \in Nat /\ Salvage(term) \in Nat /\ DepreciableBase \in Nat
      /\ term.cost = DepreciableBase + Salvage(term)
      /\ N \in Nat \ {0}
  BY <1>1, CommandOf DEF DepreciableBase, N
<1>3. month \in Nat \ {0} /\ month <= N + 1
  BY <1>1, <1>2
<1>4. /\ nbv \in Nat /\ Remaining \in Nat
      /\ Remaining = AtLeast(0, DepreciableBase - accumulated)
      /\ nbv = Remaining + Salvage(term)
      /\ accumulated <= DepreciableBase => nbv = term.cost - accumulated
  BY <1>1, <1>2 DEF AtLeast, Remaining
<1> QED
  BY <1>1, <1>2, <1>3, <1>4

\* A month's line in the schedule, whatever the engine charges.
LEMMA TakeStep ==
  ASSUME LoopType, month <= N, NEW amount \in Int, Take(amount), onLine' \in BOOLEAN
  PROVE  /\ LoopType'
         /\ UNCHANGED <<term, payment, DepreciableBase, N>>
         /\ month' = month + 1
         /\ charge' = AtLeast(0, amount) /\ charge' \in Nat
         /\ accumulated' = accumulated + charge'
         /\ Remaining' \in Nat /\ Remaining' <= Remaining
<1>1. /\ DepreciableBase \in Nat /\ N \in Nat \ {0} /\ month \in Nat \ {0}
      /\ accumulated \in Nat /\ term \in Commands
      /\ Remaining = AtLeast(0, DepreciableBase - accumulated)
  BY LoopFacts
<1>2. /\ UNCHANGED <<term, payment>> /\ month' = month + 1
      /\ charge' = AtLeast(0, amount) /\ accumulated' = accumulated + charge'
      /\ nbv' = AtLeast(term.cost - accumulated', Salvage(term))
  BY DEF Take
<1>3. charge' \in Nat /\ accumulated' \in Nat
  BY <1>1, <1>2 DEF AtLeast
<1>4. UNCHANGED <<DepreciableBase, N>>
  BY <1>2 DEF DepreciableBase, N
<1>5. payment' \in Payments(term')
  BY <1>2 DEF LoopType
<1>6. month' \in 1 .. (N' + 1)
  BY <1>1, <1>2, <1>4
<1>7. nbv' = AtLeast(term'.cost - accumulated', Salvage(term'))
  BY <1>2
<1>8. LoopType'
  BY <1>1, <1>2, <1>3, <1>5, <1>6, <1>7 DEF LoopType
<1>9. Remaining' = AtLeast(0, DepreciableBase - accumulated')
  <2>1. /\ term.cost = DepreciableBase + Salvage(term)
        /\ term.cost \in Nat /\ Salvage(term) \in Nat
    BY <1>1, CommandOf DEF DepreciableBase
  <2>2. Remaining' = AtLeast(0, nbv' - Salvage(term))
    BY <1>2 DEF Remaining
  <2> QED
    BY <1>1, <1>2, <1>3, <2>1, <2>2 DEF AtLeast
<1>10. Remaining' \in Nat /\ Remaining' <= Remaining
  BY <1>1, <1>2, <1>3, <1>9 DEF AtLeast
<1> QED
  BY <1>2, <1>3, <1>4, <1>8, <1>10

-------------------------------------------------------------------------------
(* Courses: how much at most the engines have charged before month m, a    *)
(* being what they charged.  A course never passes the base.               *)

\* A straight line has charged alike every month.
LineCourse(m, a) == a = (m - 1) * (DepreciableBase \div N)

\* The digits of the years are at most their share of the base.
DigitsCourse(m, a) == (N * (N + 1)) * a <= DepreciableBase * ((m - 1) * (2 * N - m + 2))

\* The deposit of month m, grown by the months before, and the parts of a unit it comes in.
Growth(m) == payment * Power(term.interest + 1, m - 1)
Parts(m) == Grain * Power(term.interest, m - 1)

\* The deposits charged are at most what they have grown to.
FundCourse(m, a) ==
  Parts(m) * a
    <= payment * (term.interest
                    * (Power(term.interest + 1, m - 1) - Power(term.interest, m - 1)))

\* The payments less the interest, with the units they can be too high and the interest on those.
AnnuityCourse(m, a) ==
  LET q == term.interest
      X == Power(q + 1, N)
      Y == Power(q, N) IN
  ((X - Y) * Y) * a <= (Rung(q, N, m - 1) - Y) * (DepreciableBase * Y + Excess(q) * (X - Y))

\* The constants of an engine that is not counted in units.
LEMMA LifeOf ==
  ASSUME LoopType
  PROVE  /\ DepreciableBase \in Nat /\ N \in Nat \ {0} /\ term.interest \in Nat \ {0}
         /\ term.factor \in Nat \ {0}
         /\ term.engine \notin {"macrs", "units_of_production"} => N = term.life
BY CommandOf DEF LoopType, DepreciableBase, N

\* A month of a straight line.
LEMMA LineMonth ==
  ASSUME LoopType, NEW m \in 1 .. N, NEW a \in Nat, LineCourse(m, a)
  PROVE  /\ a <= DepreciableBase
         /\ DepreciableBase \div N \in Nat
         /\ LineCourse(m + 1, a + DepreciableBase \div N)
<1> DEFINE d == DepreciableBase \div N
<1>1. DepreciableBase \in Nat /\ N \in Nat \ {0}
  BY LifeOf
<1>2. d \in Nat /\ N * d <= DepreciableBase
  BY <1>1, Quotient
<1> HIDE DEF d
<1>3. m \in Nat /\ m - 1 \in Nat /\ m - 1 <= N
  BY <1>1
<1>4. d * (m - 1) <= d * N
  BY <1>1, <1>2, <1>3, Times
<1>5. a = (m - 1) * d
  BY DEF LineCourse, d
<1>6. (m - 1) * d = d * (m - 1) /\ N * d = d * N /\ (m - 1) * d + d = ((m + 1) - 1) * d
  BY <1>1, <1>2, <1>3
<1>7. a <= DepreciableBase
  BY <1>1, <1>2, <1>3, <1>4, <1>5, <1>6
<1>8. a + d = ((m + 1) - 1) * d
  BY <1>5, <1>6
<1> QED
  BY <1>2, <1>7, <1>8 DEF LineCourse, d

\* A product of neighbours is even.
LEMMA Neighbours ==
  ASSUME NEW n \in Nat
  PROVE  (n * (n + 1)) \div 2 \in Nat /\ 2 * ((n * (n + 1)) \div 2) = n * (n + 1)
<1>1. \A z \in Nat : (2 * z) \div 2 = z
  OBVIOUS
<1>2. PICK h \in Nat : n = 2 * h \/ n = 2 * h + 1
  <2>1. n \div 2 \in Nat /\ (n = 2 * (n \div 2) \/ n = 2 * (n \div 2) + 1)
    OBVIOUS
  <2> QED
    BY <2>1
<1>3. CASE n = 2 * h
  <2>1. n * (n + 1) = 2 * (h * (n + 1)) /\ h * (n + 1) \in Nat
    BY <1>3
  <2> QED
    BY <1>1, <2>1
<1>4. CASE n = 2 * h + 1
  <2>1. n * (n + 1) = 2 * (n * (h + 1)) /\ n * (h + 1) \in Nat
    BY <1>4
  <2> QED
    BY <1>1, <2>1
<1> QED
  BY <1>2, <1>3, <1>4

\* The digits of the months charged are at most those of all.
LEMMA DigitsWithin ==
  ASSUME LoopType, NEW m \in 1 .. N, NEW a \in Nat, DigitsCourse(m, a)
  PROVE  a <= DepreciableBase
<1> DEFINE B == DepreciableBase
<1>1. B \in Nat /\ N \in Nat \ {0} /\ m \in Nat \ {0} /\ m <= N
  BY LifeOf
<1>2. (N * (N + 1)) * a <= B * ((m - 1) * (2 * N - m + 2))
  BY DEF DigitsCourse
<1> HIDE DEF B
<1>3. a <= B
  <2>1. (m - 1) * (2 * N - m + 2) = N * (N + 1) - (N - m + 1) * (N - m + 2)
    BY <1>1
  <2>2. (N - m + 1) * (N - m + 2) \in Nat
    <3>1. N - m + 1 \in Nat /\ N - m + 2 \in Nat
      BY <1>1
    <3> QED
      BY <3>1
  <2>3. (m - 1) * (2 * N - m + 2) <= N * (N + 1)
    BY <1>1, <2>1, <2>2
  <2>4. (m - 1) * (2 * N - m + 2) \in Int /\ N * (N + 1) \in Nat \ {0}
    BY <1>1
  <2>5. B * ((m - 1) * (2 * N - m + 2)) <= B * (N * (N + 1))
    BY <1>1, <2>3, <2>4, Times
  <2>6. (N * (N + 1)) * a <= (N * (N + 1)) * B
    BY <1>1, <1>2, <2>4, <2>5
  <2> QED
    BY <1>1, <2>4, <2>6, Times
<1> QED
  BY <1>3 DEF B

\* A month of the digits of the years.
LEMMA DigitsMonth ==
  ASSUME LoopType, NEW m \in 1 .. N, NEW a \in Nat, DigitsCourse(m, a),
         NEW c \in Int, ((N * (N + 1)) \div 2) * c <= (N - m + 1) * DepreciableBase
  PROVE  DigitsCourse(m + 1, a + AtLeast(0, c))
<1> DEFINE B == DepreciableBase
           D == (N * (N + 1)) \div 2
<1>1. B \in Nat /\ N \in Nat \ {0} /\ m \in Nat \ {0} /\ m <= N
  BY LifeOf
<1>2. D \in Nat /\ 2 * D = N * (N + 1)
  BY <1>1, Neighbours
<1>3. D * c <= (N - m + 1) * B
  OBVIOUS
<1>4. (N * (N + 1)) * a <= B * ((m - 1) * (2 * N - m + 2))
  BY DEF DigitsCourse
<1> HIDE DEF B, D
<1>5. D * AtLeast(0, c) <= (N - m + 1) * B /\ AtLeast(0, c) \in Nat
  <2>1. (N - m + 1) * B \in Nat
    <3>1. N - m + 1 \in Nat
      BY <1>1
    <3> QED
      BY <1>1, <3>1
  <2>2. D * 0 = 0
    BY <1>2
  <2> QED
    BY <1>3, <2>1, <2>2 DEF AtLeast
<1>6. PICK e \in Nat : e = AtLeast(0, c)
  BY <1>5
<1>7. (N * (N + 1)) * (a + e) = (N * (N + 1)) * a + 2 * (D * e)
  <2>1. (N * (N + 1)) * (a + e) = (N * (N + 1)) * a + (N * (N + 1)) * e
    BY <1>1
  <2>2. (2 * D) * e = 2 * (D * e)
    BY <1>2
  <2> QED
    BY <1>2, <2>1, <2>2
<1>8. B * ((m - 1) * (2 * N - m + 2)) + 2 * ((N - m + 1) * B)
        = B * (((m + 1) - 1) * (2 * N - (m + 1) + 2))
  <2>1. (m - 1) * (2 * N - m + 2) + 2 * (N - m + 1) = ((m + 1) - 1) * (2 * N - (m + 1) + 2)
    BY <1>1
  <2> DEFINE x == (m - 1) * (2 * N - m + 2)
             y == N - m + 1
  <2>2. x \in Int /\ y \in Int
    BY <1>1
  <2> HIDE DEF x, y
  <2>3. B * x + 2 * (y * B) = B * (x + 2 * y)
    BY <1>1, <2>2
  <2>4. x + 2 * y = ((m + 1) - 1) * (2 * N - (m + 1) + 2)
    BY <2>1 DEF x, y
  <2> QED
    BY <2>3, <2>4 DEF x, y
<1>9. /\ D * e \in Int /\ (N - m + 1) * B \in Int /\ (N * (N + 1)) * a \in Int
       /\ B * ((m - 1) * (2 * N - m + 2)) \in Int
  BY <1>1, <1>2
<1>10. (N * (N + 1)) * (a + e) <= B * (((m + 1) - 1) * (2 * N - (m + 1) + 2))
  BY <1>4, <1>5, <1>6, <1>7, <1>8, <1>9
<1> QED
  BY <1>6, <1>10 DEF DigitsCourse, B

\* The growth of a month, between the rungs.
LEMMA MonthRung ==
  ASSUME NEW q \in Nat \ {0}, NEW n \in Nat \ {0}, NEW m \in 1 .. n
  PROVE  /\ Power(q, n) \in Nat \ {0} /\ Power(q + 1, n) \in Nat \ {0}
         /\ Power(q, n) < Power(q + 1, n)
         /\ Power(q, n - m) * Power(q + 1, m - 1) \in Nat \ {0}
         /\ Rung(q, n, m - 1) \in Nat
         /\ Power(q, n) <= Rung(q, n, m - 1) /\ Rung(q, n, m - 1) <= Power(q + 1, n)
         /\ Rung(q, n, (m + 1) - 1) \in Nat
         /\ Rung(q, n, (m + 1) - 1) <= Power(q + 1, n)
         /\ Rung(q, n, (m + 1) - 1)
              = Rung(q, n, m - 1) + Power(q, n - m) * Power(q + 1, m - 1)
         /\ Rung(q, n, m - 1) = q * (Power(q, n - m) * Power(q + 1, m - 1))
<1>1. /\ m - 1 \in Nat /\ m - 1 < n /\ (m - 1) + 1 = m /\ (m + 1) - 1 = m
      /\ m - 1 \in 0 .. n /\ m \in 0 .. n
  OBVIOUS
<1>2. /\ Power(q, n - m) * Power(q + 1, m - 1) \in Nat \ {0}
      /\ Rung(q, n, m) = Rung(q, n, m - 1) + Power(q, n - m) * Power(q + 1, m - 1)
      /\ Rung(q, n, m - 1) = q * (Power(q, n - m) * Power(q + 1, m - 1))
  BY <1>1, RungStep
<1>3. /\ Power(q, n) \in Nat \ {0} /\ Power(q + 1, n) \in Nat \ {0}
      /\ Power(q, n) < Power(q + 1, n)
      /\ Rung(q, n, m - 1) \in Nat /\ Rung(q, n, m) \in Nat
      /\ Power(q, n) <= Rung(q, n, m - 1) /\ Rung(q, n, m - 1) <= Power(q + 1, n)
      /\ Rung(q, n, m) <= Power(q + 1, n)
  BY <1>1, Rungs
<1> QED
  BY <1>1, <1>2, <1>3

\* What an annuity can be charged too much in a month, in units and their q-ths.
Off == Drift \div Grain + 1
LEMMA ExcessOf ==
  ASSUME NEW q \in Nat \ {0}
  PROVE  /\ Excess(q) \in Nat /\ Excess(q) = q - 1 + q * Off
         /\ Off \in Nat \ {0} /\ Drift <= Grain * Off
         /\ Grain \in Nat \ {0} /\ Drift \in Nat
<1>1. Grain \in Nat \ {0} /\ Drift \in Nat /\ Drift \in Int
  BY ScheduleConstants
<1> DEFINE d == Drift \div Grain
<1>2. d \in Nat /\ Drift < Grain * d + Grain
  BY <1>1, Quotient
<1> HIDE DEF d
<1>3. Off = d + 1
  BY DEF Off, d
<1>4. Excess(q) = q - 1 + q * (d + 1)
  BY DEF Excess, d
<1>5. q * (d + 1) \in Nat
  BY <1>2
<1>6. Grain * (d + 1) = Grain * d + Grain /\ Grain * d \in Int
  BY <1>1, <1>2
<1> QED
  BY <1>1, <1>2, <1>3, <1>4, <1>5, <1>6

\* A payment is off by the drift at most.
LEMMA PaymentOf ==
  ASSUME LoopType, term.engine \in Rising,
         NEW z \in Nat,
         z = IF term.engine = "annuity" THEN Power(term.interest + 1, N)
                                        ELSE Power(term.interest, N)
  PROVE  LET D == Power(term.interest + 1, N) - Power(term.interest, N) IN
         /\ payment \in Nat
         /\ (term.interest * D) * payment
              <= (DepreciableBase * Grain) * z + (term.interest * D) * Drift
<1> DEFINE q == term.interest
           B == DepreciableBase
           D == Power(q + 1, N) - Power(q, N)
           x == (B * Grain) * z
           y == q * D
           l == x \div y
<1>1. B \in Nat /\ N \in Nat \ {0} /\ q \in Nat \ {0} /\ N = term.life
  BY LifeOf DEF Rising
<1>2. Grain \in Nat \ {0} /\ Drift \in Nat
  BY ScheduleConstants
<1>3. D \in Nat \ {0}
  <2> DEFINE X == Power(q + 1, N)
             Y == Power(q, N)
  <2>1. X \in Nat /\ Y \in Nat /\ Y < X
    BY <1>1, Rungs
  <2> HIDE DEF q, X, Y
  <2>2. X - Y \in Nat \ {0}
    BY <2>1
  <2> QED
    BY <2>2 DEF X, Y
<1>4. payment \in AtLeast(0, l - Drift) .. (l + Drift)
  BY <1>1 DEF LoopType, Payments, DepreciableBase
<1> HIDE DEF q, B, D
<1>5. y \in Nat \ {0} /\ x \in Int
  <2>1. B * Grain \in Nat
    BY <1>1, <1>2
  <2> QED
    BY <1>1, <1>3, <2>1
<1> HIDE DEF x, y
<1>6. l \in Int /\ y * l <= x
  BY <1>5, Quotient
<1> HIDE DEF l
<1>7. payment \in Nat /\ payment <= l + Drift
  BY <1>2, <1>4, <1>6 DEF AtLeast
<1>8. y * payment <= y * (l + Drift) /\ y * (l + Drift) = y * l + y * Drift
  <2>1. l + Drift \in Int /\ payment \in Int
    BY <1>2, <1>6, <1>7
  <2> QED
    BY <1>2, <1>5, <1>6, <1>7, <2>1, Times
<1>9. y * payment \in Int /\ y * l \in Int /\ y * Drift \in Int
  BY <1>2, <1>5, <1>6, <1>7
<1>10. y * payment <= x + y * Drift
  BY <1>5, <1>6, <1>8, <1>9
<1> QED
  BY <1>7, <1>10 DEF x, y, q, B, D

\* The longer of two growths is the higher one.
LEMMA Ascent ==
  ASSUME NEW q \in Nat \ {0}, NEW i \in Nat, NEW j \in Nat, i <= j
  PROVE  Power(q, j) * Power(q + 1, i) <= Power(q, i) * Power(q + 1, j)
<1> DEFINE t == Power(q, i)
           s == Power(q + 1, i)
           v(d) == Power(q, i + d)
           u(d) == Power(q + 1, i + d)
           G == {d \in Nat : v(d) * s <= t * u(d)}
<1>1. s \in Nat /\ t \in Nat /\ q + 1 \in Nat \ {0}
  BY PowerPositive
<1>2. 0 \in G
  <2>1. i + 0 = i
    OBVIOUS
  <2>2. v(0) * s <= t * u(0)
    BY <1>1, <2>1
  <2> QED
    BY <2>2
<1>3. ASSUME NEW d \in Nat, d \in G
      PROVE  d + 1 \in G
  <2>1. i + d \in Nat /\ i + (d + 1) = (i + d) + 1
    OBVIOUS
  <2>2. v(d + 1) = q * v(d) /\ u(d + 1) = (q + 1) * u(d)
    <3>1. Power(q, (i + d) + 1) = q * v(d) /\ Power(q + 1, (i + d) + 1) = (q + 1) * u(d)
      BY <1>1, <2>1, PowerStep
    <3> QED
      BY <2>1, <3>1
  <2>3. v(d) \in Nat /\ u(d) \in Nat
    BY <1>1, <2>1, PowerPositive
  <2>4. v(d) * s <= t * u(d)
    BY <1>3
  <2> DEFINE a == v(d)
             b == u(d)
  <2> HIDE DEF a, b, s, t
  <2>5. (q * a) * s <= t * ((q + 1) * b)
    <3>1. a * s \in Nat /\ t * b \in Nat /\ a * s <= t * b
      BY <1>1, <2>3, <2>4 DEF a, b
    <3>2. q * (a * s) <= q * (t * b)
      BY <3>1, Times
    <3>3. (q * a) * s = q * (a * s) /\ t * ((q + 1) * b) = q * (t * b) + t * b
      BY <1>1, <2>3 DEF a, b
    <3>4. q * (a * s) \in Int /\ q * (t * b) \in Int
      BY <3>1
    <3> QED
      BY <3>1, <3>2, <3>3, <3>4
  <2>6. v(d + 1) * s <= t * u(d + 1)
    BY <2>2, <2>5 DEF a, b
  <2> QED
    BY <2>6
<1> HIDE DEF G
<1>4. \A d \in Nat : d \in G
  BY <1>2, <1>3, Counting
<1>5. j - i \in G /\ i + (j - i) = j
  BY <1>4
<1> QED
  BY <1>5 DEF G

\* The growth of a month, and of the month after it.
LEMMA MonthGrown ==
  ASSUME LoopType, NEW m \in 1 .. N
  PROVE  LET q == term.interest
             s == Power(q + 1, m - 1)
             t == Power(q, m - 1) IN
         /\ q \in Nat \ {0} /\ s \in Nat \ {0} /\ t \in Nat \ {0}
         /\ t <= s
         /\ Power(q + 1, (m + 1) - 1) = (q + 1) * s /\ Power(q, (m + 1) - 1) = q * t
<1> DEFINE q == term.interest
<1>1. q \in Nat \ {0} /\ N \in Nat \ {0} /\ m - 1 \in Nat /\ (m + 1) - 1 = (m - 1) + 1
  BY LifeOf
<1> HIDE DEF q
<1>2. q + 1 \in Nat \ {0}
  BY <1>1
<1>3. /\ Power(q + 1, m - 1) \in Nat \ {0} /\ Power(q, m - 1) \in Nat \ {0}
  BY <1>1, <1>2, PowerPositive
<1>4. /\ Power(q + 1, (m - 1) + 1) = (q + 1) * Power(q + 1, m - 1)
      /\ Power(q, (m - 1) + 1) = q * Power(q, m - 1)
  BY <1>1, <1>2, PowerStep
<1>5. Power(q, m - 1) <= Power(q + 1, m - 1)
  <2>1. CASE m - 1 = 0
    BY <1>2, <1>1, <2>1, PowerStep
  <2>2. CASE m - 1 # 0
    <3>1. m - 1 \in Nat \ {0}
      BY <1>1, <2>2
    <3>2. Power(q, m - 1) < Power(q + 1, m - 1)
      BY <1>1, <3>1, Rungs
    <3> QED
      BY <1>3, <3>2
  <2> QED
    BY <2>1, <2>2
<1> QED
  BY <1>1, <1>3, <1>4, <1>5 DEF q

\* What the deposits are off, grown, is what the last month can absorb.
LEMMA FundAbsorbed ==
  ASSUME NEW q \in Nat \ {0}, NEW u \in Nat, NEW v \in Nat, v <= u, NEW A \in Nat, NEW d \in Nat,
         NEW D \in Nat, D = (q + 1) * u - q * v,
         (d * q) * ((u - v) * D) <= A * (u * v)
  PROVE  (q * (u - v)) * (A * v + D * d) <= (A * v) * D
<1> DEFINE w == u - v
<1>1. w \in Nat /\ u = v + w
  OBVIOUS
<1>2. (d * q) * (w * D) <= A * (u * v)
  OBVIOUS
<1> HIDE DEF w
<1>3. D = q * w + u
  <2>1. q * u = q * v + q * w /\ (q + 1) * u = q * u + u
    BY <1>1
  <2> QED
    BY <1>1, <2>1
<1> DEFINE x == q * w
<1>4. x \in Nat
  BY <1>1
<1>5. (d * q) * (w * D) = x * (D * d)
  BY <1>1
<1> HIDE DEF x
<1>6. A * v \in Nat /\ D * d \in Nat
  OBVIOUS
<1>7. x * (A * v + D * d) = x * (A * v) + x * (D * d)
  BY <1>4, <1>6
<1>8. (A * v) * (x + u) = x * (A * v) + A * (u * v)
  <2>1. (A * v) * (x + u) = (A * v) * x + (A * v) * u
    BY <1>4, <1>6
  <2>2. (A * v) * u = A * (u * v) /\ (A * v) * x = x * (A * v)
    BY <1>4
  <2> QED
    BY <2>1, <2>2
<1>9. x * (A * v) \in Int /\ x * (D * d) \in Int /\ A * (u * v) \in Int
  BY <1>4, <1>6
<1>10. x * (A * v + D * d) <= (A * v) * (x + u)
  BY <1>2, <1>5, <1>7, <1>8, <1>9
<1>11. x + u = D
  BY <1>3 DEF x
<1> QED
  BY <1>10, <1>11 DEF w, x

\* The deposits grow to no more than a base that is not too small.
LEMMA FundWithin ==
  ASSUME LoopType, ~TooSmall, term.engine = "sinking_fund",
         NEW m \in 1 .. N, NEW a \in Nat, FundCourse(m, a)
  PROVE  a <= DepreciableBase
<1> DEFINE q == term.interest
           B == DepreciableBase
           A == B * Grain
           C == payment
           s == Power(q + 1, m - 1)
           t == Power(q, m - 1)
           u == Power(q + 1, N - 1)
           v == Power(q, N - 1)
           D == Power(q + 1, N) - Power(q, N)
<1>1. B \in Nat /\ N \in Nat \ {0} /\ q \in Nat \ {0} /\ m \in Nat \ {0} /\ m <= N
  BY LifeOf
<1>2. Grain \in Nat \ {0} /\ Drift \in Nat /\ A \in Nat
  BY <1>1, ScheduleConstants
<1>3. s \in Nat \ {0} /\ t \in Nat \ {0} /\ t <= s
  BY MonthGrown
<1>4. /\ u \in Nat \ {0} /\ v \in Nat \ {0} /\ v <= u
      /\ D = (q + 1) * u - q * v /\ Power(q, N) = q * v
      /\ v * s <= t * u
  <2>1. N - 1 \in Nat /\ N \in 1 .. N /\ (N + 1) - 1 = N /\ m - 1 \in Nat /\ m - 1 <= N - 1
    BY <1>1
  <2>2. u \in Nat \ {0} /\ v \in Nat \ {0} /\ v <= u
    BY <2>1, MonthGrown
  <2>3. Power(q + 1, N) = (q + 1) * u /\ Power(q, N) = q * v
    BY <2>1, MonthGrown
  <2>4. v * s <= t * u
    BY <1>1, <2>1, Ascent
  <2> QED
    BY <2>2, <2>3, <2>4
<1>5. C \in Nat /\ (q * D) * C <= A * (q * v) + (q * D) * Drift
  <2>1. q * v \in Nat /\ q * v = IF term.engine = "annuity" THEN Power(q + 1, N) ELSE Power(q, N)
    BY <1>1, <1>4
  <2>2. term.engine \in Rising
    BY DEF Rising
  <2> QED
    BY <2>1, <2>2, PaymentOf
<1>6. (Drift * q) * ((u - v) * D) <= A * (u * v)
  <2>1. ~(A * (u * v) < (Drift * q) * ((u - v) * D))
    BY DEF TooSmall
  <2>2. D \in Int /\ u - v \in Int
    BY <1>1, <1>4
  <2> HIDE DEF D, A
  <2>3. A * (u * v) \in Int
    BY <1>2, <1>4
  <2>4. (Drift * q) * ((u - v) * D) \in Int
    BY <1>1, <1>2, <1>4, <2>2
  <2> QED
    BY <2>1, <2>3, <2>4
<1>7. (Grain * t) * a <= C * (q * (s - t))
  BY DEF FundCourse, Parts
<1> HIDE DEF q, B, A, C, s, t, u, v, D
<1>8. D \in Nat \ {0}
  <2>1. (q + 1) * u = q * u + u /\ q * v <= q * u
    BY <1>1, <1>4, Times
  <2>2. q * u \in Int /\ q * v \in Int
    BY <1>1, <1>4
  <2> QED
    BY <1>4, <2>1, <2>2
<1>9. s - t \in Nat /\ u - v \in Nat
  BY <1>3, <1>4
\* The growth of the month is at most the growth of the last.
<1>10. v * (s - t) <= t * (u - v)
  <2>1. v * (s - t) = v * s - v * t /\ t * (u - v) = t * u - v * t
    BY <1>3, <1>4
  <2>2. v * s \in Int /\ v * t \in Int /\ t * u \in Int
    BY <1>3, <1>4
  <2> QED
    BY <1>4, <2>1, <2>2
<1>11. (Grain * v) * a <= C * (q * (u - v))
  <2>1. v * ((Grain * t) * a) <= v * (C * (q * (s - t)))
    <3>1. (Grain * t) * a \in Int /\ C * (q * (s - t)) \in Int
      BY <1>1, <1>2, <1>3, <1>5, <1>9
    <3> QED
      BY <1>4, <1>7, <3>1, Times
  <2>2. (C * q) * (v * (s - t)) <= (C * q) * (t * (u - v))
    <3>1. C * q \in Nat /\ v * (s - t) \in Int /\ t * (u - v) \in Int
      BY <1>1, <1>3, <1>4, <1>5, <1>9
    <3> QED
      BY <1>10, <3>1, Times
  <2>3. v * (C * (q * (s - t))) = (C * q) * (v * (s - t))
    <3> DEFINE x == s - t
    <3>1. x \in Int
      BY <1>9
    <3> HIDE DEF x
    <3>2. v * (C * (q * x)) = (C * q) * (v * x)
      BY <1>1, <1>4, <1>5, <3>1
    <3> QED
      BY <3>2 DEF x
  <2>4. (C * q) * (t * (u - v)) = t * (C * (q * (u - v)))
    <3> DEFINE x == u - v
    <3>1. x \in Int
      BY <1>9
    <3> HIDE DEF x
    <3>2. (C * q) * (t * x) = t * (C * (q * x))
      BY <1>1, <1>3, <1>5, <3>1
    <3> QED
      BY <3>2 DEF x
  <2>5. v * ((Grain * t) * a) = t * ((Grain * v) * a)
    BY <1>2, <1>3, <1>4
  <2>6. /\ (Grain * v) * a \in Int /\ C * (q * (u - v)) \in Int /\ C * (q * (s - t)) \in Int
    BY <1>1, <1>2, <1>4, <1>5, <1>9
  <2>7. t * ((Grain * v) * a) <= t * (C * (q * (u - v)))
    <3>1. (C * q) * (v * (s - t)) \in Int /\ (C * q) * (t * (u - v)) \in Int
      BY <1>1, <1>3, <1>4, <1>5, <1>9
    <3>2. t * ((Grain * v) * a) \in Int
      BY <1>3, <2>6
    <3> QED
      BY <2>1, <2>2, <2>3, <2>4, <2>5, <3>1, <3>2
  <2> QED
    BY <1>3, <2>6, <2>7, Times
\* The payment is the base's share of it, and the drift.
<1>12. D * C <= A * v + D * Drift
  <2>1. (q * D) * C = q * (D * C) /\ A * (q * v) + (q * D) * Drift = q * (A * v + D * Drift)
    <3>1. A * (q * v) = q * (A * v) /\ (q * D) * Drift = q * (D * Drift) /\ (q * D) * C = q * (D * C)
      BY <1>1, <1>2, <1>4, <1>5, <1>8
    <3>2. A * v \in Int /\ D * Drift \in Int
      BY <1>2, <1>4, <1>8
    <3>3. q * (A * v + D * Drift) = q * (A * v) + q * (D * Drift)
      BY <1>1, <3>2
    <3> QED
      BY <3>1, <3>3
  <2>2. D * C \in Int /\ A * v + D * Drift \in Int
    BY <1>2, <1>4, <1>5, <1>8
  <2>3. q * (D * C) <= q * (A * v + D * Drift)
    BY <1>5, <2>1
  <2> QED
    BY <1>1, <2>2, <2>3, Times
<1>13. (q * (u - v)) * (A * v + D * Drift) <= (A * v) * D
  BY <1>1, <1>2, <1>4, <1>6, <1>8, FundAbsorbed
<1>14. D * ((Grain * v) * a) <= D * ((Grain * v) * B)
  <2> DEFINE x == q * (u - v)
             y == A * v + D * Drift
             z == (Grain * v) * a
  <2>1. x \in Nat /\ y \in Nat /\ z \in Int
    <3>1. A * v \in Nat /\ D * Drift \in Nat /\ Grain * v \in Nat
      BY <1>2, <1>4, <1>8
    <3> QED
      BY <1>1, <1>9, <3>1
  <2>2. z <= C * x /\ D * C <= y /\ x * y <= (A * v) * D
    BY <1>11, <1>12, <1>13
  <2>3. (A * v) * D = D * ((Grain * v) * B)
    BY <1>1, <1>2, <1>4, <1>8 DEF A
  <2> HIDE DEF x, y, z
  <2>4. D * z <= D * (C * x)
    <3>1. C * x \in Int
      BY <1>5, <2>1
    <3> QED
      BY <1>8, <2>1, <2>2, <3>1, Times
  <2>5. x * (D * C) <= x * y
    <3>1. D * C \in Int
      BY <1>5, <1>8
    <3> QED
      BY <2>1, <2>2, <3>1, Times
  <2>6. D * (C * x) = x * (D * C)
    BY <1>5, <1>8, <2>1
  <2>7. D * z \in Int /\ x * (D * C) \in Int /\ x * y \in Int /\ (A * v) * D \in Int
    BY <1>2, <1>4, <1>5, <1>8, <2>1
  <2>8. D * z <= (A * v) * D
    BY <2>2, <2>4, <2>5, <2>6, <2>7
  <2> QED
    BY <2>3, <2>8 DEF z
<1>15. D * (Grain * v) \in Nat \ {0}
  <2>1. Grain * v \in Nat \ {0}
    BY <1>2, <1>4
  <2> QED
    BY <1>8, <2>1
<1>16. (D * (Grain * v)) * a <= (D * (Grain * v)) * B
  <2>1. Grain * v \in Int
    BY <1>2, <1>4
  <2> DEFINE x == Grain * v
  <2> HIDE DEF x
  <2>2. (D * x) * a = D * (x * a) /\ (D * x) * B = D * (x * B)
    BY <1>1, <1>8, <2>1 DEF x
  <2> QED
    BY <1>14, <2>2 DEF x
<1>17. a <= B
  BY <1>1, <1>15, <1>16, Times
<1> QED
  BY <1>17 DEF B

\* A month of a sinking fund.
LEMMA FundMonth ==
  ASSUME LoopType, payment \in Nat, NEW m \in 1 .. N, NEW a \in Nat, FundCourse(m, a),
         NEW c \in Int, Parts(m) * c <= Growth(m)
  PROVE  FundCourse(m + 1, a + AtLeast(0, c))
<1> DEFINE q == term.interest
           C == payment
           s == Power(q + 1, m - 1)
           t == Power(q, m - 1)
           s2 == Power(q + 1, (m + 1) - 1)
           t2 == Power(q, (m + 1) - 1)
           w == AtLeast(0, c)
           P == Grain * t
<1>1. /\ q \in Nat \ {0} /\ s \in Nat \ {0} /\ t \in Nat \ {0} /\ t <= s
      /\ s2 = (q + 1) * s /\ t2 = q * t
  BY MonthGrown
<1>2. Grain \in Nat \ {0} /\ C \in Nat
  BY ScheduleConstants
<1>3. P * a <= C * (q * (s - t)) /\ P * c <= C * s
  BY DEF FundCourse, Growth, Parts
<1> HIDE DEF q, C, s, t, s2, t2
<1>4. P \in Nat
  BY <1>1, <1>2
<1>5. w \in Nat /\ P * w <= C * s
  <2>1. C * s \in Nat /\ P * 0 = 0
    BY <1>1, <1>2, <1>4
  <2> QED
    BY <1>3, <2>1 DEF AtLeast
<1>6. (Grain * t2) * (a + w) = q * (P * a) + q * (P * w)
  <2>1. Grain * t2 = q * P
    BY <1>1, <1>2
  <2> HIDE DEF P, w
  <2>2. (q * P) * (a + w) = q * (P * a) + q * (P * w)
    BY <1>1, <1>4, <1>5
  <2> QED
    BY <2>1, <2>2
<1>7. C * (q * (s2 - t2)) = q * (C * (q * (s - t))) + q * (C * s)
  <2>1. s2 - t2 = q * (s - t) + s
    BY <1>1
  <2> DEFINE x == s - t
             y == q * x
  <2>2. x \in Int /\ y \in Int
    BY <1>1
  <2>3. C * (q * (y + s)) = q * (C * y) + q * (C * s)
    <3> HIDE DEF x, y
    <3> QED
      BY <1>1, <1>2, <2>2
  <2> QED
    BY <2>1, <2>3
<1> HIDE DEF w, P
<1>8. q * (P * a) <= q * (C * (q * (s - t))) /\ q * (P * w) <= q * (C * s)
  <2>1. P * a \in Int /\ P * w \in Int /\ C * s \in Int /\ C * (q * (s - t)) \in Int
    <3>1. s - t \in Int
      BY <1>1
    <3>2. q * (s - t) \in Int
      BY <1>1, <3>1
    <3> QED
      BY <1>1, <1>2, <1>4, <1>5, <3>2
  <2> QED
    BY <1>1, <1>3, <1>5, <2>1, Times
<1>9. (Grain * t2) * (a + w) <= C * (q * (s2 - t2))
  <2>1. s - t \in Int
    BY <1>1
  <2>2. q * (s - t) \in Int
    BY <1>1, <2>1
  <2>3. /\ q * (P * a) \in Int /\ q * (P * w) \in Int /\ q * (C * s) \in Int
        /\ q * (C * (q * (s - t))) \in Int
    BY <1>1, <1>2, <1>4, <1>5, <2>2
  <2> QED
    BY <1>6, <1>7, <1>8, <2>3
<1> QED
  BY <1>9 DEF FundCourse, Parts, q, C, s2, t2, w

\* A base that is not too small absorbs those units, and the interest on them.
LEMMA Absorbed ==
  ASSUME NEW q \in Nat \ {0}, NEW u \in Nat, NEW v \in Nat, v <= u, NEW B \in Nat, NEW p \in Nat,
         NEW D \in Nat, D = (q + 1) * u - q * v,
         (p * (q + 1)) * (u - v) <= B * v
  PROVE  (u - v) * (B * (q * v) + p * D) <= (D * v) * B
<1> DEFINE w == u - v
<1>1. w \in Nat /\ u = v + w
  OBVIOUS
<1>2. (p * (q + 1)) * w <= B * v
  OBVIOUS
<1> HIDE DEF w
<1>3. D = q * w + u
  <2>1. q * u = q * v + q * w /\ (q + 1) * u = q * u + u
    BY <1>1
  <2> QED
    BY <1>1, <2>1
<1>4. D <= (q + 1) * u
  <2>1. q * v \in Nat
    OBVIOUS
  <2> QED
    BY <2>1
<1>5. w * (p * D) <= (B * v) * u
  <2>1. p * D <= p * ((q + 1) * u)
    BY <1>1, <1>4, Times
  <2>2. p * D \in Int /\ p * ((q + 1) * u) \in Int
    BY <1>1
  <2>3. w * (p * D) <= w * (p * ((q + 1) * u))
    BY <1>1, <2>1, <2>2, Times
  <2>4. w * (p * ((q + 1) * u)) = ((p * (q + 1)) * w) * u
    <3>1. p * ((q + 1) * u) = (p * (q + 1)) * u
      BY <1>1
    <3> DEFINE z == p * (q + 1)
    <3>2. z \in Int
      BY <1>1
    <3> HIDE DEF z
    <3>3. w * (z * u) = (z * w) * u
      BY <1>1, <3>2
    <3> QED
      BY <3>1, <3>3 DEF z
  <2>5. u * ((p * (q + 1)) * w) <= u * (B * v)
    <3>1. (p * (q + 1)) * w \in Int /\ B * v \in Int
      BY <1>1
    <3> QED
      BY <1>2, <3>1, Times
  <2>6. ((p * (q + 1)) * w) * u = u * ((p * (q + 1)) * w) /\ (B * v) * u = u * (B * v)
    <3>1. (p * (q + 1)) * w \in Int /\ B * v \in Int
      BY <1>1
    <3> QED
      BY <3>1
  <2>7. w * (p * D) \in Int /\ u * ((p * (q + 1)) * w) \in Int /\ u * (B * v) \in Int
    BY <1>1
  <2> QED
    BY <2>3, <2>4, <2>5, <2>6, <2>7
<1>6. w * (B * (q * v) + p * D) = w * (B * (q * v)) + w * (p * D)
  <2>1. B * (q * v) \in Int /\ p * D \in Int
    BY <1>1
  <2> QED
    BY <1>1, <2>1
<1>7. (D * v) * B = w * (B * (q * v)) + (B * v) * u
  <2>1. ((q * w + u) * v) * B = ((q * w) * v) * B + (u * v) * B
    <3>1. q * w \in Nat
      BY <1>1
    <3> QED
      BY <3>1
  <2>2. ((q * w) * v) * B = w * (B * (q * v)) /\ (u * v) * B = (B * v) * u
    BY <1>1
  <2> QED
    BY <1>3, <2>1, <2>2
<1>8. /\ w * (B * (q * v)) \in Int /\ w * (p * D) \in Int /\ (B * v) * u \in Int
  BY <1>1
<1>9. w * (B * (q * v) + p * D) <= (D * v) * B
  BY <1>5, <1>6, <1>7, <1>8
<1> QED
  BY <1>9 DEF w

\* The course of an annuity ends within a base that is not too small.
LEMMA AnnuityWithin ==
  ASSUME LoopType, ~TooSmall, term.engine = "annuity",
         NEW m \in 1 .. N, NEW a \in Nat, AnnuityCourse(m, a)
  PROVE  a <= DepreciableBase
<1> DEFINE q == term.interest
           B == DepreciableBase
           u == Power(q + 1, N - 1)
           v == Power(q, N - 1)
           X == Power(q + 1, N)
           Y == Power(q, N)
           g == Power(q, N - m) * Power(q + 1, m - 1)
           R == Rung(q, N, m - 1)
           S == Rung(q, N, (m + 1) - 1)
           p == Excess(q)
<1>1. B \in Nat /\ N \in Nat \ {0} /\ q \in Nat \ {0} /\ m \in Nat \ {0} /\ m <= N
  BY LifeOf
<1>2. /\ X \in Nat \ {0} /\ Y \in Nat \ {0} /\ Y < X /\ g \in Nat \ {0} /\ R \in Nat
      /\ R = q * g /\ S = R + g /\ S <= X /\ Y <= R
  <2>1. m \in 1 .. N /\ q \in Nat \ {0} /\ N \in Nat \ {0}
    BY <1>1
  <2> HIDE DEF q
  <2> QED
    BY <2>1, MonthRung
<1>3. u \in Nat \ {0} /\ v \in Nat \ {0} /\ X = (q + 1) * u /\ Y = q * v
  <2>1. N - 1 \in Nat /\ (N - 1) + 1 = N /\ q + 1 \in Nat \ {0}
    BY <1>1
  <2>2. Power(q + 1, (N - 1) + 1) = (q + 1) * u /\ Power(q, (N - 1) + 1) = q * v
    BY <1>1, <2>1, PowerStep
  <2> QED
    BY <1>1, <2>1, <2>2, PowerPositive
<1>4. ~(B * v < (p * (q + 1)) * (u - v))
  BY DEF TooSmall
<1>5. ((X - Y) * Y) * a <= (R - Y) * (B * Y + p * (X - Y))
  BY DEF AnnuityCourse
<1> DEFINE D == X - Y
           K == B * Y + p * D
<1>p. p \in Nat
  BY <1>1, ExcessOf
<1> HIDE DEF q, B, u, v, X, Y, g, R, S, p
<1>6. D \in Nat \ {0} /\ D = (q + 1) * u - q * v
  BY <1>2, <1>3
<1> HIDE DEF D
<1>7. K \in Nat
  <2>1. B * Y \in Nat /\ p \in Nat
    BY <1>1, <1>2, <1>p
  <2>2. p * D \in Nat
    BY <1>6, <2>1
  <2> QED
    BY <2>1, <2>2
<1>8. g <= u /\ v <= g
  <2>1. S = (q + 1) * g
    BY <1>1, <1>2
  <2>2. (q + 1) * g <= (q + 1) * u
    BY <1>2, <1>3, <2>1
  <2>3. q * v <= q * g
    BY <1>2, <1>3
  <2> QED
    BY <1>1, <1>2, <1>3, <2>2, <2>3, Times
<1>9. R - Y <= q * (u - v) /\ u - v \in Nat /\ R - Y \in Nat
  <2>1. q * g <= q * u
    BY <1>1, <1>2, <1>3, <1>8, Times
  <2>2. q * (u - v) = q * u - q * v
    BY <1>1, <1>3
  <2>3. q * u \in Int /\ q * v \in Int /\ q * g \in Int
    BY <1>1, <1>2, <1>3
  <2> QED
    BY <1>2, <1>3, <1>8, <2>1, <2>2, <2>3
<1>10. (u - v) * K <= (D * v) * B
  <2>1. (p * (q + 1)) * (u - v) <= B * v
    <3>1. (p * (q + 1)) * (u - v) \in Int /\ B * v \in Int
      BY <1>1, <1>9, <1>3, <1>p
    <3> QED
      BY <1>4, <3>1
  <2>2. K = B * (q * v) + p * D
    BY <1>3
  <2>3. v <= u /\ u \in Nat /\ v \in Nat /\ D \in Nat
    BY <1>2, <1>3, <1>6, <1>8
  <2>4. (u - v) * (B * (q * v) + p * D) <= (D * v) * B
    BY <1>1, <1>p, <1>6, <2>1, <2>3, Absorbed
  <2> QED
    BY <2>2, <2>4
<1> HIDE DEF K
<1>11. (D * Y) * a <= (D * Y) * B
  <2>1. (R - Y) * K <= (q * (u - v)) * K
    <3>1. q * (u - v) \in Nat
      BY <1>1, <1>9
    <3>2. K * (R - Y) <= K * (q * (u - v))
      BY <1>7, <1>9, <3>1, Times
    <3> QED
      BY <1>7, <1>9, <3>1, <3>2
  <2>2. q * ((u - v) * K) <= q * ((D * v) * B)
    <3>1. (u - v) * K \in Int /\ (D * v) * B \in Int
      BY <1>1, <1>3, <1>6, <1>7, <1>9
    <3> QED
      BY <1>1, <1>10, <3>1, Times
  <2>3. (q * (u - v)) * K = q * ((u - v) * K) /\ q * ((D * v) * B) = (D * Y) * B
    <3>1. (D * (q * v)) * B = q * ((D * v) * B)
      BY <1>1, <1>3, <1>6
    <3>2. (q * (u - v)) * K = q * ((u - v) * K)
      BY <1>1, <1>7, <1>9
    <3> QED
      BY <1>3, <3>1, <3>2
  <2>4. (D * Y) * a <= (R - Y) * K
    BY <1>5 DEF D, K
  <2>5. /\ (D * Y) * a \in Int /\ (R - Y) * K \in Int /\ q * ((u - v) * K) \in Int
        /\ (D * Y) * B \in Int
    BY <1>1, <1>2, <1>6, <1>7, <1>9
  <2> QED
    BY <2>1, <2>2, <2>3, <2>4, <2>5
<1>12. D * Y \in Nat \ {0}
  BY <1>2, <1>6
<1> QED
  BY <1>1, <1>11, <1>12, Times DEF B

\* A month of an annuity.
LEMMA AnnuityMonth ==
  ASSUME LoopType, term.engine = "annuity",
         NEW m \in 1 .. N, NEW a \in Nat, AnnuityCourse(m, a), a <= DepreciableBase
  PROVE  /\ payment \div Grain - (DepreciableBase - a) \div term.interest \in Int
         /\ AnnuityCourse(m + 1,
              a + AtLeast(0, payment \div Grain - (DepreciableBase - a) \div term.interest))
<1> DEFINE q == term.interest
           B == DepreciableBase
           X == Power(q + 1, N)
           Y == Power(q, N)
           g == Power(q, N - m) * Power(q + 1, m - 1)
           R == Rung(q, N, m - 1)
           S == Rung(q, N, (m + 1) - 1)
           f == (B - a) \div q
           P == payment \div Grain
           p == Excess(q)
           c == P - f
           w == AtLeast(0, c)
<1>1. /\ B \in Nat /\ N \in Nat \ {0} /\ q \in Nat \ {0} /\ m \in Nat \ {0} /\ m <= N
      /\ N = term.life
  BY LifeOf
<1>2. /\ X \in Nat \ {0} /\ Y \in Nat \ {0} /\ Y < X /\ g \in Nat \ {0} /\ R \in Nat
      /\ R = q * g /\ S = R + g /\ S \in Nat /\ Y <= R
  <2>1. m \in 1 .. N /\ q \in Nat \ {0} /\ N \in Nat \ {0}
    BY <1>1
  <2> HIDE DEF q
  <2> QED
    BY <2>1, MonthRung
<1>3. ((X - Y) * Y) * a <= (R - Y) * (B * Y + p * (X - Y))
  BY DEF AnnuityCourse
<1>4. /\ payment \in Nat
      /\ (q * (X - Y)) * payment <= (B * Grain) * X + (q * (X - Y)) * Drift
  BY <1>1, <1>2, PaymentOf DEF Rising
<1>p. /\ p \in Nat /\ p = q - 1 + q * Off /\ Off \in Nat \ {0} /\ Drift <= Grain * Off
      /\ Grain \in Nat \ {0} /\ Drift \in Nat
  BY <1>1, ExcessOf
<1>5. B - a \in Nat
  BY <1>1
<1>6. f \in Nat /\ B - a < q * f + q
  <2> DEFINE x == B - a
  <2>1. x \in Nat /\ x \in Int /\ q \in Nat \ {0}
    BY <1>1, <1>5
  <2> HIDE DEF x, q
  <2>2. x \div q \in Nat /\ x < q * (x \div q) + q
    BY <2>1, Quotient
  <2> QED
    BY <2>2 DEF x
<1> DEFINE D == X - Y
           K == B * Y + p * D
<1> HIDE DEF q, B, X, Y, g, R, S, f, P, p
<1>7. D \in Nat \ {0} /\ X = D + Y
  BY <1>2
<1>8. P \in Nat /\ (q * D) * P <= B * X + (q * D) * Off
  <2> DEFINE z == q * D
  <2>1. z \in Nat \ {0}
    BY <1>1, <1>7
  <2>2. payment \in Int
    BY <1>4
  <2>3. P \in Nat /\ Grain * P <= payment
    BY <1>p, <1>4, <2>2, Quotient DEF P
  <2>4. z * payment <= (B * Grain) * X + z * Drift
    BY <1>4 DEF D
  <2> HIDE DEF z
  <2>5. z * (Grain * P) <= z * payment
    <3>1. Grain * P \in Int
      BY <1>p, <2>3
    <3> QED
      BY <2>1, <2>2, <2>3, <3>1, Times
  <2>6. z * Drift <= z * (Grain * Off)
    <3>1. Grain * Off \in Int /\ Drift \in Int
      BY <1>p
    <3> QED
      BY <1>p, <2>1, <3>1, Times
  <2>7. z * (Grain * P) = Grain * (z * P)
    BY <1>p, <2>1, <2>3
  <2>8. (B * Grain) * X = Grain * (B * X)
    BY <1>p, <1>1, <1>2
  <2>9. z * (Grain * Off) = Grain * (z * Off)
    BY <1>p, <2>1
  <2>10. Grain * (B * X + z * Off) = Grain * (B * X) + Grain * (z * Off)
    <3>1. B * X \in Int /\ z * Off \in Int
      BY <1>p, <1>1, <1>2, <2>1
    <3> QED
      BY <1>p, <3>1
  <2>11. /\ z * payment \in Int /\ z * (Grain * P) \in Int /\ z * Drift \in Int
         /\ z * (Grain * Off) \in Int /\ (B * Grain) * X \in Int
         /\ z * P \in Int /\ B * X + z * Off \in Int
    <3>1. /\ Grain * P \in Int /\ Grain * Off \in Int /\ B * Grain \in Int
          /\ B * X \in Int /\ z * Off \in Int
      BY <1>p, <1>1, <1>2, <2>1, <2>3
    <3> QED
      BY <1>p, <1>1, <1>2, <1>4, <2>1, <2>3, <3>1
  <2>12. Grain * (z * P) <= Grain * (B * X + z * Off)
    BY <2>4, <2>5, <2>6, <2>7, <2>8, <2>9, <2>10, <2>11
  <2>13. z * P <= B * X + z * Off
    BY <1>p, <2>11, <2>12, Times
  <2> QED
    BY <2>3, <2>13 DEF z
<1> HIDE DEF D
<1>9. K \in Nat /\ p \in Nat /\ B * Y \in Nat /\ p * D \in Nat
  <2>1. B * Y \in Nat /\ p \in Nat
    BY <1>1, <1>2, <1>p
  <2>2. p * D \in Nat
    BY <1>7, <2>1
  <2> QED
    BY <2>1, <2>2
<1>10. c \in Int
  BY <1>6, <1>8
\* The interest is cut by less than a unit.
<1>11. D * (q * c) <= K + D * a
  <2>1. q * f >= (B - a) - (q - 1) /\ q * f \in Int
    BY <1>1, <1>5, <1>6
  <2>2. q * c = q * P - q * f /\ q * P \in Int
    BY <1>1, <1>6, <1>8
  <2>3. q * c <= q * P + (q - 1) - (B - a)
    BY <1>1, <1>9, <2>1, <2>2
  <2>4. q * c \in Int /\ q * P + (q - 1) - (B - a) \in Int
    BY <1>1, <1>10, <2>2
  <2>5. D * (q * c) <= D * (q * P + (q - 1) - (B - a))
    BY <1>7, <2>3, <2>4, Times
  <2>6. D * (q * P + (q - 1) - (B - a)) = (q * D) * P + (q - 1) * D - D * B + D * a
    <3>1. D * (q * P) = (q * D) * P
      BY <1>1, <1>7, <1>8
    <3>2. \A x, y \in Int : D * (x + y - (B - a)) = D * x + D * y - D * B + D * a
      BY <1>1, <1>7
    <3>3. D * (q - 1) = (q - 1) * D
      BY <1>1, <1>7
    <3>4. D * (q * P + (q - 1) - (B - a)) = D * (q * P) + D * (q - 1) - D * B + D * a
      <4>1. q - 1 \in Int
        BY <1>1
      <4> QED
        BY <2>2, <3>2, <4>1
    <3> QED
      BY <3>1, <3>3, <3>4
  <2>7. B * X = D * B + B * Y
    BY <1>1, <1>2, <1>7
  <2>8. /\ (q * D) * Off + (q - 1) * D = p * D /\ (q * D) * Off \in Int
        /\ (q - 1) * D \in Int /\ p * D \in Int
    <3>1. (q - 1 + q * Off) * D = (q - 1) * D + (q * Off) * D
      <4>1. q - 1 \in Int /\ q * Off \in Int
        BY <1>1, <1>p
      <4> QED
        BY <1>7, <4>1
    <3>2. (q * Off) * D = (q * D) * Off
      BY <1>1, <1>7, <1>p
    <3>3. q * D \in Int /\ q - 1 \in Int
      BY <1>1, <1>7
    <3> QED
      BY <1>7, <1>p, <3>1, <3>2, <3>3
  <2>9. /\ (q * D) * P \in Int /\ B * X \in Int /\ D * B \in Int /\ D * a \in Int
        /\ D * (q * c) \in Int /\ D * (q * P + (q - 1) - (B - a)) \in Int
    BY <1>1, <1>2, <1>7, <1>8, <2>4
  <2> QED
    BY <1>8, <1>9, <2>5, <2>6, <2>7, <2>8, <2>9
<1> HIDE DEF c, K
<1>12. (D * Y) * c <= g * K
  <2>1. Y * (D * (q * c)) <= Y * (K + D * a)
    <3>1. D * (q * c) \in Int /\ K + D * a \in Int
      BY <1>1, <1>7, <1>9, <1>10
    <3> QED
      BY <1>2, <1>11, <3>1, Times
  <2>2. Y * (D * (q * c)) = q * ((D * Y) * c)
    BY <1>1, <1>2, <1>7, <1>10
  <2>3. Y * (K + D * a) = Y * K + (D * Y) * a
    BY <1>1, <1>2, <1>7, <1>9
  <2>4. (D * Y) * a <= (R - Y) * K
    BY <1>3 DEF D, K
  <2>5. Y * K + (R - Y) * K = q * (g * K)
    <3>1. (R - Y) * K = R * K - Y * K
      BY <1>2, <1>9
    <3>2. R * K = q * (g * K)
      BY <1>1, <1>2, <1>9
    <3>3. R * K \in Int /\ Y * K \in Int
      BY <1>2, <1>9
    <3> QED
      BY <3>1, <3>2, <3>3
  <2>6. /\ Y * K \in Int /\ (D * Y) * a \in Int /\ (R - Y) * K \in Int
        /\ q * ((D * Y) * c) \in Int /\ q * (g * K) \in Int
        /\ (D * Y) * c \in Int /\ g * K \in Int
    BY <1>1, <1>2, <1>7, <1>9, <1>10
  <2>7. q * ((D * Y) * c) <= q * (g * K)
    BY <2>1, <2>2, <2>3, <2>4, <2>5, <2>6
  <2> QED
    BY <1>1, <2>6, <2>7, Times
<1>13. w \in Nat /\ (D * Y) * w <= g * K
  <2>1. g * K \in Nat /\ (D * Y) * 0 = 0
    BY <1>2, <1>7, <1>9
  <2> QED
    BY <1>10, <1>12, <2>1 DEF AtLeast
<1> HIDE DEF w
<1>14. (D * Y) * (a + w) <= (S - Y) * K
  <2>1. (D * Y) * (a + w) = (D * Y) * a + (D * Y) * w
    <3>1. D * Y \in Nat
      BY <1>2, <1>7
    <3> QED
      BY <1>13, <3>1
  <2>2. (S - Y) * K = (R - Y) * K + g * K
    BY <1>2, <1>9
  <2>3. (D * Y) * a <= (R - Y) * K
    BY <1>3 DEF D, K
  <2>4. /\ (D * Y) * a \in Int /\ (D * Y) * w \in Int /\ (R - Y) * K \in Int /\ g * K \in Int
    BY <1>2, <1>7, <1>9, <1>13
  <2> QED
    BY <1>13, <2>1, <2>2, <2>3, <2>4
<1>15. AnnuityCourse(m + 1, a + w)
  BY <1>14 DEF AnnuityCourse, D, K, q, B, X, Y, S, p
<1>16. payment \div Grain - (DepreciableBase - a) \div term.interest = c
  BY DEF c, f, B, q, P
<1> QED
  BY <1>10, <1>15, <1>16 DEF w

\* The month after the last of a year begins the next one.
LEMMA NextMonth ==
  ASSUME NEW M \in Nat \ {0}, NEW k \in Nat
  PROVE  /\ k \div M \in Nat /\ k % M \in 0 .. (M - 1)
         /\ (k + 1) % M = 0 => k % M = M - 1 /\ (k + 1) \div M = k \div M + 1
         /\ (k + 1) % M # 0 => (k + 1) % M = (k % M) + 1 /\ (k + 1) \div M = k \div M
<1> DEFINE d == k \div M
           r == k % M
           e == (k + 1) \div M
           s == (k + 1) % M
<1>1. /\ d \in Nat /\ r \in 0 .. (M - 1) /\ k = M * d + r
      /\ e \in Nat /\ s \in 0 .. (M - 1) /\ k + 1 = M * e + s
  OBVIOUS
<1> HIDE DEF d, r, e, s
<1>2. M * (e - d) = r + 1 - s
  <2>1. M * (e - d) = M * e - M * d /\ M * e \in Int /\ M * d \in Int
    BY <1>1
  <2> QED
    BY <1>1, <2>1
<1>3. e = d \/ e = d + 1
  <2>1. e - d \in Int /\ r + 1 - s <= M /\ r + 1 - s > -M
    BY <1>1
  <2>2. M * (e - d) <= M * 1 /\ M * (-1) < M * (e - d)
    BY <1>2, <2>1
  <2>3. e - d <= 1 /\ -1 < e - d
    BY <2>1, <2>2, Times
  <2> QED
    BY <1>1, <2>3
<1>4. e = d => r + 1 = s
  <2> SUFFICES ASSUME e = d PROVE r + 1 = s
    OBVIOUS
  <2>1. e - d = 0 /\ M * 0 = 0
    BY <1>1
  <2> QED
    BY <1>1, <1>2, <2>1
<1>5. e = d + 1 => r + 1 = s + M
  <2> SUFFICES ASSUME e = d + 1 PROVE r + 1 = s + M
    OBVIOUS
  <2>1. e - d = 1 /\ M * 1 = M
    BY <1>1
  <2> QED
    BY <1>1, <1>2, <2>1
<1>6. /\ s = 0 => r = M - 1 /\ e = d + 1
      /\ s # 0 => s = r + 1 /\ e = d
  BY <1>1, <1>3, <1>4, <1>5
<1> QED
  BY <1>1, <1>6 DEF d, r, e, s

\* The percentages of the first y years.
Percents(y) == SumFunctionOnSet(term.units, 1 .. y)

\* A year adds its percentage, and no years come to more than all.
LEMMA PercentsStep ==
  ASSUME LoopType, term.engine = "macrs", NEW y \in Nat, y < Len(term.units)
  PROVE  /\ term.units[1 + y] \in Nat /\ Percents(y) \in Nat /\ Percents(y + 1) \in Nat
         /\ Percents(y + 1) = Percents(y) + term.units[1 + y]
         /\ TotalUnits(term) \in Nat /\ Percents(y + 1) <= TotalUnits(term)
<1> DEFINE f == term.units
           n == Len(f)
<1>1. f \in Seq(Nat)
  BY CommandOf DEF LoopType
<1>2. n \in Nat /\ DOMAIN f = 1 .. n /\ \A i \in 1 .. n : f[i] \in Nat
  BY <1>1
<1> HIDE DEF f
<1>3. y < n /\ 1 + y \in 1 .. n /\ y + 1 = 1 + y
  BY <1>2 DEF f
<1> HIDE DEF n
<1>4. /\ IsFiniteSet(1 .. y) /\ IsFiniteSet(1 .. (y + 1)) /\ IsFiniteSet((y + 2) .. n)
      /\ IsFiniteSet(1 .. n)
  BY <1>2, FS_Interval
<1>5. 1 .. (y + 1) = (1 .. y) \cup {1 + y} /\ (1 + y) \notin 1 .. y
  OBVIOUS
<1>6. \A i \in 1 .. (y + 1) : f[i] \in Nat /\ f[i] \in Int
  BY <1>2, <1>3
<1>7. SumFunctionOnSet(f, (1 .. y) \cup {1 + y}) = SumFunctionOnSet(f, 1 .. y) + f[1 + y]
  <2>1. \A i \in 1 .. y : f[i] \in Int
    BY <1>6
  <2>2. f[1 + y] \in Int
    BY <1>6
  <2> QED
    BY <1>4, <1>5, <2>1, <2>2, SumAdd
<1>8. SumFunctionOnSet(f, 1 .. y) \in Nat /\ SumFunctionOnSet(f, 1 .. (y + 1)) \in Nat
  BY <1>4, <1>6, SumNat
<1>9. SumFunctionOnSet(f, (y + 2) .. n) \in Nat /\ SumFunctionOnSet(f, 1 .. n) \in Nat
  <2>1. \A i \in (y + 2) .. n : f[i] \in Nat
    BY <1>2
  <2> QED
    BY <1>2, <1>4, <2>1, SumNat
<1>10. SumFunctionOnSet(f, 1 .. n)
         = SumFunctionOnSet(f, 1 .. (y + 1)) + SumFunctionOnSet(f, (y + 2) .. n)
  <2> DEFINE S == 1 .. (y + 1)
             T == (y + 2) .. n
  <2>1. S \cap T = {} /\ S \cup T = 1 .. n
    BY <1>2, <1>3
  <2>2. \A i \in 1 .. n : f[i] \in Int
    BY <1>2
  <2>3. IsFiniteSet(S) /\ IsFiniteSet(T)
    BY <1>4
  <2> HIDE DEF S, T
  <2>4. SumFunctionOnSet(f, S \cup T) = SumFunctionOnSet(f, S) + SumFunctionOnSet(f, T)
    BY <2>1, <2>2, <2>3, SumDisjoint
  <2> QED
    BY <2>1, <2>4 DEF S, T
<1>11. TotalUnits(term) = SumFunctionOnSet(f, 1 .. n)
  BY <1>2 DEF TotalUnits, SumFunction, f
<1>12. f[1 + y] \in Nat
  BY <1>2, <1>3
<1>13. SumFunctionOnSet(f, 1 .. (y + 1)) = SumFunctionOnSet(f, 1 .. y) + f[1 + y]
  BY <1>5, <1>7
<1>14. SumFunctionOnSet(f, 1 .. (y + 1)) <= SumFunctionOnSet(f, 1 .. n)
  BY <1>8, <1>9, <1>10
<1> QED
  BY <1>8, <1>9, <1>11, <1>12, <1>13, <1>14 DEF Percents, f

\* The charge of a month of year 1 + y, the last of the year excepted.
MonthlyOf(y) == ((term.cost * term.units[1 + y]) \div 100) \div MonthsPerYear

\* The years before are charged at most their percentages, this one at most a part each month.
MacrsCourse(m, a) ==
  LET y == (m - 1) \div MonthsPerYear IN
  100 * (a - ((m - 1) % MonthsPerYear) * MonthlyOf(y)) <= term.cost * Percents(y)

\* The year that a month falls in, and what it is charged.
LEMMA MacrsYear ==
  ASSUME LoopType, term.engine = "macrs", NEW m \in 1 .. N
  PROVE  LET y == (m - 1) \div MonthsPerYear
             year == (term.cost * term.units[1 + y]) \div 100
         IN  /\ y \in Nat /\ y < Len(term.units) /\ term.units[1 + y] \in Nat
             /\ MonthsPerYear \in Nat \ {0} /\ term.cost \in Nat /\ DepreciableBase = term.cost
             /\ year \in Nat /\ 100 * year <= term.cost * term.units[1 + y]
             /\ MonthlyOf(y) \in Nat /\ MonthsPerYear * MonthlyOf(y) <= year
<1> DEFINE M == MonthsPerYear
           y == (m - 1) \div M
           C == term.cost
           r == term.units[1 + y]
           year == (C * r) \div 100
           p == year \div M
           L == Len(term.units)
           k == m - 1
<1>1. M \in Nat \ {0} /\ C \in Nat /\ N = L * M /\ L \in Nat /\ DepreciableBase = C
  <2>1. term.cost \in Nat /\ term.units \in Seq(Nat)
    BY CommandOf DEF LoopType
  <2>2. M \in Nat \ {0}
    BY ScheduleConstants
  <2>3. N = Len(term.units) * M
    BY DEF N, Length
  <2>4. Len(term.units) \in Nat
    BY <2>1
  <2>5. DepreciableBase = C
    BY <2>1 DEF DepreciableBase, BaseOf, Salvage
  <2> QED
    BY <2>1, <2>2, <2>3, <2>4, <2>5
<1>2. N \in Nat /\ k \in Nat /\ k \in Int /\ k < N
  <2>1. N \in Nat
    BY LifeOf
  <2> QED
    BY <2>1
<1> HIDE DEF M, k, L
<1>3. y \in Nat /\ M * y <= k
  <2>1. k \div M \in Nat /\ M * (k \div M) <= k
    BY <1>1, <1>2, Quotient
  <2> QED
    BY <2>1 DEF k
<1> HIDE DEF y
<1>4. y < L
  <2>1. L * M = M * L /\ M * L \in Int /\ M * y \in Int
    BY <1>1, <1>3
  <2>2. M * y < M * L
    BY <1>1, <1>2, <1>3, <2>1
  <2> QED
    BY <1>1, <1>3, <2>2, Times
<1>5. r \in Nat
  BY <1>3, <1>4, PercentsStep DEF L
<1> HIDE DEF C, r
<1>6. year \in Nat /\ 100 * year <= C * r
  <2> DEFINE x == C * r
  <2>1. x \in Nat /\ x \in Int
    BY <1>1, <1>5
  <2> HIDE DEF x
  <2>2. x \div 100 \in Nat /\ 100 * (x \div 100) <= x
    BY <2>1, Quotient
  <2> QED
    BY <2>1, <2>2 DEF x
<1> HIDE DEF year
<1>7. p \in Nat /\ M * p <= year
  BY <1>1, <1>6, Quotient
<1>8. p = MonthlyOf(y)
  BY DEF MonthlyOf, year, C, r, M
<1> QED
  BY <1>1, <1>3, <1>4, <1>5, <1>6, <1>7, <1>8 DEF year, C, r, y, k, M, L

\* A month of the percentages of the years.
LEMMA MacrsMonth ==
  ASSUME LoopType, term.engine = "macrs", ~Overrated,
         NEW m \in 1 .. N, NEW a \in Nat, MacrsCourse(m, a)
  PROVE  LET y == (m - 1) \div MonthsPerYear
             year == (term.cost * term.units[1 + y]) \div 100
         IN  /\ a <= DepreciableBase
             /\ MonthlyOf(y) \in Nat /\ YearEnd(year, MonthlyOf(y)) \in Nat
             /\ m < N /\ m % MonthsPerYear = 0
                  => MacrsCourse(m + 1, a + YearEnd(year, MonthlyOf(y)))
             /\ m < N /\ m % MonthsPerYear # 0 => MacrsCourse(m + 1, a + MonthlyOf(y))
<1> DEFINE M == MonthsPerYear
           y == (m - 1) \div M
           j == (m - 1) % M
           C == term.cost
           r == term.units[1 + y]
           year == (C * r) \div 100
           p == MonthlyOf(y)
           P == Percents(y)
           Q == Percents(y + 1)
<1>1. /\ M \in Nat \ {0} /\ C \in Nat /\ DepreciableBase = C /\ y < Len(term.units)
      /\ year \in Nat /\ 100 * year <= C * r
      /\ p \in Nat /\ M * p <= year
  BY MacrsYear
<1>2. N \in Nat
  BY LifeOf
<1>3. m \in Nat /\ m - 1 \in Nat /\ m <= N /\ (m - 1) + 1 = m /\ (m + 1) - 1 = m
  BY <1>2
<1> HIDE DEF M
<1>4. /\ y \in Nat /\ j \in 0 .. (M - 1)
      /\ m % M = 0 => j = M - 1 /\ m \div M = y + 1
      /\ m % M # 0 => m % M = j + 1 /\ m \div M = y
  <2> DEFINE k == m - 1
  <2>1. k \in Nat /\ k + 1 = m
    BY <1>3
  <2> HIDE DEF k
  <2>2. /\ k \div M \in Nat /\ k % M \in 0 .. (M - 1)
        /\ (k + 1) % M = 0 => k % M = M - 1 /\ (k + 1) \div M = k \div M + 1
        /\ (k + 1) % M # 0 => (k + 1) % M = (k % M) + 1 /\ (k + 1) \div M = k \div M
    BY <1>1, <2>1, NextMonth
  <2> QED
    BY <2>1, <2>2 DEF k
<1>5. m < N => MonthlyOf(m \div M) \in Nat
  <2> SUFFICES ASSUME m < N PROVE MonthlyOf(m \div M) \in Nat
    OBVIOUS
  <2>1. m + 1 \in 1 .. N
    BY <1>2, <1>3
  <2>2. MonthlyOf(((m + 1) - 1) \div M) \in Nat
    BY <2>1, MacrsYear DEF M
  <2> QED
    BY <1>3, <2>2
<1> HIDE DEF y, j
<1>6. /\ r \in Nat /\ P \in Nat /\ Q \in Nat /\ Q = P + r
      /\ TotalUnits(term) \in Nat /\ Q <= TotalUnits(term)
  BY <1>1, <1>4, PercentsStep
<1>7. Q <= 100
  BY <1>6 DEF Overrated
<1> HIDE DEF C, r, P, Q
<1> HIDE DEF year, p
<1>8. C * r \in Nat
  BY <1>1, <1>6
<1>11. 100 * (a - j * p) <= C * P
  BY DEF MacrsCourse, y, j, C, P, M, p
<1>12. j * p \in Nat /\ M * p \in Nat /\ C * P \in Nat /\ p * (M - 1) \in Nat
  <2>1. j \in Nat /\ M - 1 \in Nat
    BY <1>1, <1>4
  <2> QED
    BY <1>1, <1>6, <1>1, <2>1
<1>13. p * (M - 1) + p = M * p
  BY <1>1
<1>14. j * p <= p * (M - 1)
  <2>1. j \in Nat /\ j <= M - 1 /\ M - 1 \in Nat
    BY <1>1, <1>4
  <2>2. p * j <= p * (M - 1)
    BY <1>1, <2>1, Times
  <2> QED
    BY <1>1, <2>1, <2>2
<1>15. C * Q = C * P + C * r
  BY <1>1, <1>6
<1>16. a <= C
  <2>1. 100 * a <= C * Q
    BY <1>1, <1>6, <1>8, <1>11, <1>12, <1>13, <1>14, <1>15
  <2>2. C * Q <= C * 100
    BY <1>1, <1>6, <1>7, Times
  <2>3. C * Q \in Int
    BY <1>1, <1>6
  <2> QED
    BY <1>1, <2>1, <2>2, <2>3
<1>17. YearEnd(year, p) = year - p * (M - 1) /\ YearEnd(year, p) \in Nat
  BY <1>1, <1>12, <1>13 DEF YearEnd, M
<1>18. ASSUME m < N, m % M = 0
       PROVE  MacrsCourse(m + 1, a + YearEnd(year, p))
  <2>1. j = M - 1 /\ m \div M = y + 1
    BY <1>4, <1>18
  <2>2. j * p = p * (M - 1)
    BY <1>1, <2>1
  <2>3. 100 * (a + YearEnd(year, p)) <= C * Q
    <3> DEFINE x == a - j * p
               s == C * P
               t == C * r
    <3>1. x \in Int /\ s \in Nat /\ t \in Nat
      BY <1>8, <1>12
    <3>2. a + YearEnd(year, p) = x + year
      BY <1>1, <1>12, <1>17, <2>2
    <3>3. 100 * x <= s /\ 100 * year <= t /\ C * Q = s + t
      BY <1>1, <1>11, <1>15
    <3> HIDE DEF x, s, t
    <3>4. 100 * (x + year) <= s + t
      BY <1>1, <3>1, <3>3
    <3> QED
      BY <3>2, <3>3, <3>4
  <2>4. (m % M) * MonthlyOf(m \div M) = 0
    BY <1>5, <1>18
  <2>5. 100 * ((a + YearEnd(year, p)) - (m % M) * MonthlyOf(m \div M)) <= C * Percents(m \div M)
    BY <1>17, <2>1, <2>3, <2>4 DEF Q
  <2> QED
    BY <1>3, <2>5 DEF MacrsCourse, M, C
<1>19. ASSUME m < N, m % M # 0
       PROVE  MacrsCourse(m + 1, a + p)
  <2>1. m % M = j + 1 /\ m \div M = y
    BY <1>4, <1>19
  <2>2. (j + 1) * p = j * p + p
    BY <1>4, <1>1
  <2>3. (a + p) - (j + 1) * p = a - j * p
    BY <1>1, <1>12, <2>2
  <2>4. 100 * ((a + p) - (j + 1) * p) <= C * P
    BY <1>11, <2>3
  <2>5. 100 * ((a + p) - (m % M) * MonthlyOf(m \div M)) <= C * Percents(m \div M)
    BY <2>1, <2>4 DEF P, p
  <2> QED
    BY <1>3, <2>5 DEF MacrsCourse, M, C
<1> QED
  BY <1>1, <1>16, <1>17, <1>18, <1>19 DEF M, p, year, C, r, y

-------------------------------------------------------------------------------
(* What the loop has charged when it comes to a month.                     *)

\* The course of the command's engine, before month m with a charged.
CourseAt(m, a) ==
  /\ term.engine = "straight_line" => LineCourse(m, a)
  /\ term.engine = "sum_of_years_digits" => DigitsCourse(m, a)
  /\ term.engine = "sinking_fund" => FundCourse(m, a)
  /\ term.engine = "annuity" => AnnuityCourse(m, a)
  /\ term.engine = "macrs" => MacrsCourse(m, a)

\* The base is never passed, and spent once the last month is charged.
KeptAt(m, a) ==
  /\ a <= DepreciableBase
  /\ m <= N => CourseAt(m, a)
  /\ m > N => \/ a = DepreciableBase
              \/ term.engine = "declining_balance" /\ ~term.switch

\* The engines that charge what they compute, without regard to what remains.
Computing == {"straight_line", "sum_of_years_digits", "sinking_fund", "annuity", "macrs"}

\* No course passes the base.
LEMMA CourseWithin ==
  ASSUME LoopType, ~TooSmall, ~Overrated, term.engine \in Computing,
         NEW m \in 1 .. N, NEW a \in Nat, CourseAt(m, a)
  PROVE  a <= DepreciableBase
<1>1. CASE term.engine = "straight_line"
  BY <1>1, LineMonth DEF CourseAt
<1>2. CASE term.engine = "sum_of_years_digits"
  BY <1>2, DigitsWithin DEF CourseAt
<1>3. CASE term.engine = "sinking_fund"
  BY <1>3, FundWithin DEF CourseAt
<1>4. CASE term.engine = "annuity"
  BY <1>4, AnnuityWithin DEF CourseAt
<1>5. CASE term.engine = "macrs"
  BY <1>5, MacrsMonth DEF CourseAt
<1> QED
  BY <1>1, <1>2, <1>3, <1>4, <1>5 DEF Computing

\* A month before the last, and the last one.
LEMMA KeptStep ==
  ASSUME LoopType, ~TooSmall, ~Overrated, term.engine \in Computing,
         month <= N, KeptAt(month, accumulated),
         NEW amount \in Int,
         month < N => CourseAt(month + 1, accumulated + AtLeast(0, amount))
  PROVE  KeptAt(month + 1, accumulated + AtLeast(0, OrLast(amount)))
<1>1. /\ DepreciableBase \in Nat /\ N \in Nat \ {0} /\ month \in Nat \ {0}
      /\ accumulated \in Nat /\ accumulated <= DepreciableBase
  BY LoopFacts DEF KeptAt
<1>2. CASE month < N
  <2>1. OrLast(amount) = amount
    BY <1>2 DEF OrLast
  <2>2. month + 1 \in 1 .. N /\ ~(month + 1 > N)
    BY <1>1, <1>2
  <2>3. accumulated + AtLeast(0, amount) \in Nat
    BY <1>1 DEF AtLeast
  <2>4. accumulated + AtLeast(0, amount) <= DepreciableBase
    BY <1>2, <2>2, <2>3, CourseWithin
  <2> QED
    BY <1>2, <2>1, <2>2, <2>4 DEF KeptAt
<1>3. CASE month = N
  <2>1. AtLeast(0, OrLast(amount)) = DepreciableBase - accumulated
    BY <1>1, <1>3 DEF OrLast, AtLeast
  <2>2. accumulated + AtLeast(0, OrLast(amount)) = DepreciableBase
    BY <1>1, <2>1
  <2>3. ~(month + 1 <= N)
    BY <1>1, <1>3
  <2> QED
    BY <1>1, <2>2, <2>3 DEF KeptAt
<1> QED
  BY <1>1, <1>2, <1>3

\* The charges of an annuity are at most what the next one comes to.
AnnuityRises ==
  term.engine = "annuity" /\ month \in 2 .. N =>
    charge <= AtLeast(0, payment \div Grain - Remaining \div term.interest)

\* The charge of a sinking fund is at most the growth of the month to come.
FundRises ==
  term.engine = "sinking_fund" /\ month \in 2 .. N => Parts(month) * charge <= Growth(month)

\* The share of month m in the digits of the years.
Digits(m) == (N - m + 1) * DepreciableBase
DigitParts == (N * (N + 1)) \div 2
DigitsFall ==
  term.engine = "sum_of_years_digits" /\ month \in 2 .. N =>
    Digits(month) <= DigitParts * (charge + 1)

\* The declining balance computed from a book value that has only become less.
Balance == AtMost((nbv * term.factor) \div (2 * N), Remaining)
BalanceFalls ==
  term.engine = "declining_balance" /\ ~onLine /\ month \in 2 .. N => Balance <= charge + 1

\* The inductive invariant of the loop.
LoopInv ==
  /\ LoopType
  /\ AnnuityRises /\ FundRises /\ DigitsFall /\ BalanceFalls
  /\ TooSmall \/ Overrated \/ KeptAt(month, accumulated)

\* What a step may do to the charges.
Directed ==
  month > 1 /\ month < N =>
    /\ term.engine \in Rising => charge' + 1 >= charge
    /\ term.engine = "sum_of_years_digits" => charge' <= charge + 1
    /\ term.engine \in Falling /\ ~onLine' => charge' <= charge + 1

\* A month keeps the invariant if it keeps the course of its engine and the direction.
LEMMA InvStep ==
  ASSUME LoopInv, month <= N, NEW amount \in Int, Take(amount), onLine' \in BOOLEAN,
         ~TooSmall /\ ~Overrated /\ KeptAt(month, accumulated)
           => KeptAt(month + 1, accumulated + AtLeast(0, amount)),
         (AnnuityRises /\ FundRises /\ DigitsFall /\ BalanceFalls)'
  PROVE  LoopInv'
<1>1. /\ LoopType' /\ UNCHANGED <<term, payment, DepreciableBase, N>>
      /\ month' = month + 1 /\ charge' = AtLeast(0, amount)
      /\ accumulated' = accumulated + charge'
  BY TakeStep DEF LoopInv
<1>2. (TooSmall' <=> TooSmall) /\ (Overrated' <=> Overrated)
  BY <1>1 DEF TooSmall, Overrated
<1>3. ASSUME ~TooSmall, ~Overrated
      PROVE  KeptAt(month, accumulated)'
  <2>1. KeptAt(month', accumulated')
    BY <1>1, <1>3 DEF LoopInv
  <2>2. KeptAt(month, accumulated)' <=> KeptAt(month', accumulated')
    BY <1>1 DEF KeptAt, CourseAt, LineCourse, DigitsCourse, FundCourse, Parts, AnnuityCourse,
                MacrsCourse, MonthlyOf, Percents
  <2> QED
    BY <2>1, <2>2
<1> QED
  BY <1>1, <1>2, <1>3 DEF LoopInv

-------------------------------------------------------------------------------
(* A month of each engine.                                                 *)

\* What every month is charged from.
LEMMA InMonth ==
  ASSUME LoopInv, month <= N
  PROVE  /\ LoopType /\ month \in 1 .. N
         /\ DepreciableBase \in Nat /\ N \in Nat \ {0} /\ month \in Nat \ {0}
         /\ accumulated \in Nat /\ charge \in Nat /\ nbv \in Nat /\ onLine \in BOOLEAN
         /\ Remaining \in Nat /\ Remaining = AtLeast(0, DepreciableBase - accumulated)
<1>1. LoopType
  BY DEF LoopInv
<1>2. /\ DepreciableBase \in Nat /\ N \in Nat \ {0} /\ month \in Nat \ {0}
      /\ accumulated \in Nat /\ charge \in Nat /\ nbv \in Nat
      /\ Remaining \in Nat /\ Remaining = AtLeast(0, DepreciableBase - accumulated)
  BY <1>1, LoopFacts
<1>3. month \in 1 .. N
  BY <1>2
<1>4. onLine \in BOOLEAN
  BY <1>1 DEF LoopType
<1> QED
  BY <1>1, <1>2, <1>3, <1>4

\* Engines without a direction keep what is said of the others.
LEMMA NoDirection ==
  ASSUME UNCHANGED term,
         term.engine \notin {"annuity", "sinking_fund", "sum_of_years_digits", "declining_balance"}
  PROVE  (AnnuityRises /\ FundRises /\ DigitsFall /\ BalanceFalls)' /\ Directed
BY DEF AnnuityRises, FundRises, DigitsFall, BalanceFalls, Directed, Rising, Falling

\* A month of a straight line charges every month alike.
LEMMA StraightLineStep ==
  ASSUME LoopInv, StraightLine
  PROVE  LoopInv' /\ Directed
<1> DEFINE d == DepreciableBase \div N
<1>1. term.engine = "straight_line" /\ month <= N /\ Take(OrLast(d)) /\ onLine' = onLine
  BY DEF StraightLine, InLoop
<1>2. /\ LoopType /\ month \in 1 .. N /\ DepreciableBase \in Nat /\ N \in Nat \ {0}
      /\ accumulated \in Nat /\ onLine \in BOOLEAN
  BY <1>1, InMonth
<1>3. d \in Nat
  BY <1>2, Quotient
<1> HIDE DEF d
<1>4. OrLast(d) \in Int
  BY <1>2, <1>3 DEF OrLast
<1>5. ASSUME ~TooSmall, ~Overrated, KeptAt(month, accumulated)
      PROVE  KeptAt(month + 1, accumulated + AtLeast(0, OrLast(d)))
  <2>1. AtLeast(0, d) = d
    BY <1>3 DEF AtLeast
  <2>2. LineCourse(month, accumulated)
    BY <1>1, <1>5 DEF KeptAt, CourseAt
  <2>3. LineCourse(month + 1, accumulated + AtLeast(0, d))
    BY <1>2, <2>1, <2>2, LineMonth DEF d
  <2>4. CourseAt(month + 1, accumulated + AtLeast(0, d))
    BY <1>1, <2>3 DEF CourseAt
  <2> QED
    BY <1>1, <1>2, <1>3, <1>5, <2>4, KeptStep DEF Computing
<1>6. UNCHANGED term
  BY <1>1 DEF Take
<1>7. (AnnuityRises /\ FundRises /\ DigitsFall /\ BalanceFalls)' /\ Directed
  BY <1>1, <1>6, NoDirection
<1>8. LoopInv'
  BY <1>1, <1>2, <1>4, <1>5, <1>7, InvStep
<1> QED
  BY <1>7, <1>8

\* A month of the percentages of the years charges a part of its year, or the rest of it.
LEMMA MacrsStep ==
  ASSUME LoopInv, Macrs
  PROVE  LoopInv' /\ Directed
<1> DEFINE y == (month - 1) \div MonthsPerYear
           year == (term.cost * term.units[1 + y]) \div 100
           p == MonthlyOf(y)
           e == IF month % MonthsPerYear = 0 THEN YearEnd(year, p) ELSE p
<1>1. term.engine = "macrs" /\ month <= N /\ Take(OrLast(e)) /\ onLine' = onLine
  <2>1. month <= N
    BY DEF Macrs, InLoop
  <2>2. LoopType /\ month \in Nat /\ N \in Nat
    BY <2>1, InMonth
  <2>3. OrLast(e) = IF month = N THEN DepreciableBase - accumulated
                    ELSE IF month % MonthsPerYear = 0 THEN YearEnd(year, p) ELSE p
    BY <2>1, <2>2 DEF OrLast
  <2> QED
    BY <2>3 DEF Macrs, InLoop, MonthlyOf
<1>2. /\ LoopType /\ month \in 1 .. N /\ DepreciableBase \in Nat /\ N \in Nat \ {0}
      /\ accumulated \in Nat /\ onLine \in BOOLEAN
  BY <1>1, InMonth
<1>3. /\ p \in Nat /\ year \in Nat /\ MonthsPerYear \in Nat \ {0} /\ MonthsPerYear * p <= year
  BY <1>1, <1>2, MacrsYear
<1> HIDE DEF y, year, p
<1>4. YearEnd(year, p) \in Nat
  <2>1. p * (MonthsPerYear - 1) + p = MonthsPerYear * p /\ p * (MonthsPerYear - 1) \in Int
    BY <1>3
  <2> QED
    BY <1>3, <2>1 DEF YearEnd
<1>5. e \in Nat
  BY <1>3, <1>4
<1> HIDE DEF e
<1>6. OrLast(e) \in Int
  BY <1>2, <1>5 DEF OrLast
<1>7. ASSUME ~TooSmall, ~Overrated, KeptAt(month, accumulated)
      PROVE  KeptAt(month + 1, accumulated + AtLeast(0, OrLast(e)))
  <2>1. AtLeast(0, e) = e
    BY <1>5 DEF AtLeast
  <2>2. MacrsCourse(month, accumulated)
    BY <1>1, <1>7 DEF KeptAt, CourseAt
  <2>3. /\ month < N /\ month % MonthsPerYear = 0
             => MacrsCourse(month + 1, accumulated + YearEnd(year, p))
        /\ month < N /\ month % MonthsPerYear # 0 => MacrsCourse(month + 1, accumulated + p)
    BY <1>1, <1>2, <1>7, <2>2, MacrsMonth DEF y, year, p
  <2>4. month < N => MacrsCourse(month + 1, accumulated + AtLeast(0, e))
    BY <2>1, <2>3 DEF e
  <2>5. month < N => CourseAt(month + 1, accumulated + AtLeast(0, e))
    BY <1>1, <2>4 DEF CourseAt
  <2> QED
    BY <1>1, <1>2, <1>5, <1>7, <2>5, KeptStep DEF Computing
<1>8. UNCHANGED term
  BY <1>1 DEF Take
<1>9. (AnnuityRises /\ FundRises /\ DigitsFall /\ BalanceFalls)' /\ Directed
  BY <1>1, <1>8, NoDirection
<1>10. LoopInv'
  BY <1>1, <1>2, <1>6, <1>7, <1>9, InvStep
<1> QED
  BY <1>9, <1>10

\* A month of the units of production charges no more than remains.
LEMMA UnitsStep ==
  ASSUME LoopInv, UnitsOfProduction
  PROVE  LoopInv' /\ Directed
<1>1. term.engine = "units_of_production" /\ month <= N /\ onLine' = onLine
  BY DEF UnitsOfProduction, InLoop
<1>2. /\ LoopType /\ month \in 1 .. N /\ DepreciableBase \in Nat /\ N \in Nat \ {0}
      /\ accumulated \in Nat /\ onLine \in BOOLEAN
      /\ Remaining \in Nat /\ Remaining = AtLeast(0, DepreciableBase - accumulated)
  BY <1>1, InMonth
<1>3. term.units[month] \in Nat /\ TotalUnits(term) \in Nat \ {0}
  <2>1. term.units \in Seq(Nat) /\ term \in Commands
    BY <1>2, CommandOf DEF LoopType
  <2>2. DOMAIN term.units = 1 .. Len(term.units) /\ Len(term.units) \in Nat
    BY <2>1
  <2>3. N = Len(term.units)
    BY <1>1 DEF N, Length
  <2>4. \A i \in 1 .. N : term.units[i] \in Nat
    BY <2>1, <2>3
  <2>5. IsFiniteSet(1 .. N)
    BY <1>2, FS_Interval
  <2>6. SumFunctionOnSet(term.units, 1 .. N) \in Nat
    BY <2>4, <2>5, SumNat
  <2>7. TotalUnits(term) > 0
    BY <1>1, <2>1, ScheduleConstants
  <2> QED
    BY <1>2, <2>2, <2>3, <2>4, <2>6, <2>7 DEF TotalUnits, SumFunction
<1>4. PICK cut \in Cut(term.units[month] * DepreciableBase, TotalUnits(term)) :
        Take(AtMost(AtLeast(0, OrLast(cut)), Remaining))
  BY DEF UnitsOfProduction
<1>5. cut \in Int
  <2>1. term.units[month] * DepreciableBase \in Int
    BY <1>2, <1>3
  <2> QED
    BY <1>3, <2>1, CutNear
<1>6. OrLast(cut) \in Int
  BY <1>2, <1>5 DEF OrLast
<1> DEFINE amount == AtMost(AtLeast(0, OrLast(cut)), Remaining)
<1>7. amount \in Nat /\ amount <= Remaining
  BY <1>2, <1>6 DEF AtMost, AtLeast
<1>8. month = N => AtLeast(0, OrLast(cut)) = Remaining
  BY <1>2 DEF OrLast
<1>9. month = N => amount = Remaining
  BY <1>2, <1>8 DEF AtMost
<1> HIDE DEF amount
<1>10. AtLeast(0, amount) = amount
  BY <1>7 DEF AtLeast
<1>11. ASSUME KeptAt(month, accumulated)
       PROVE  KeptAt(month + 1, accumulated + AtLeast(0, amount))
  <2>1. Remaining = DepreciableBase - accumulated
    BY <1>2, <1>11 DEF KeptAt, AtLeast
  <2>2. accumulated + amount <= DepreciableBase
    BY <1>2, <1>7, <2>1
  <2>3. month + 1 > N => accumulated + amount = DepreciableBase
    BY <1>2, <1>9, <2>1
  <2> QED
    BY <1>1, <1>10, <2>2, <2>3 DEF KeptAt, CourseAt
<1>12. UNCHANGED term
  BY <1>4 DEF Take
<1>13. (AnnuityRises /\ FundRises /\ DigitsFall /\ BalanceFalls)' /\ Directed
  BY <1>1, <1>12, NoDirection
<1>14. Take(amount)
  BY <1>4 DEF amount
<1>15. LoopInv'
  BY <1>1, <1>2, <1>7, <1>11, <1>13, <1>14, InvStep
<1> QED
  BY <1>13, <1>15

\* A month of the digits of the years charges less than the month before, but for a unit.
LEMMA DigitsStep ==
  ASSUME LoopInv, SumOfYearsDigits
  PROVE  LoopInv' /\ Directed
<1> DEFINE B == DepreciableBase
<1>1. term.engine = "sum_of_years_digits" /\ month <= N /\ onLine' = onLine
  BY DEF SumOfYearsDigits, InLoop
<1>2. /\ LoopType /\ month \in 1 .. N /\ B \in Nat /\ N \in Nat \ {0}
      /\ accumulated \in Nat /\ charge \in Nat /\ onLine \in BOOLEAN
  BY <1>1, InMonth
<1>3. PICK cut \in Cut(Digits(month), DigitParts) : Take(OrLast(cut))
  BY DEF SumOfYearsDigits, Digits, DigitParts
<1>4. Digits(month) \in Nat /\ DigitParts \in Nat \ {0}
  <2>1. N - month + 1 \in Nat
    BY <1>2
  <2>2. (N * (N + 1)) \div 2 \in Nat /\ 2 * ((N * (N + 1)) \div 2) = N * (N + 1)
    BY <1>2, Neighbours
  <2>3. N * (N + 1) \in Nat \ {0}
    BY <1>2
  <2> QED
    BY <1>2, <2>1, <2>2, <2>3 DEF Digits, DigitParts
<1>5. /\ cut \in Int /\ DigitParts * cut <= Digits(month)
      /\ Digits(month) <= DigitParts * cut + DigitParts
  BY <1>3, <1>4, CutNear
<1>6. OrLast(cut) \in Int
  BY <1>2, <1>5 DEF OrLast
<1>7. ASSUME ~TooSmall, ~Overrated, KeptAt(month, accumulated)
      PROVE  KeptAt(month + 1, accumulated + AtLeast(0, OrLast(cut)))
  <2>1. DigitsCourse(month, accumulated)
    BY <1>1, <1>7 DEF KeptAt, CourseAt
  <2>2. DigitsCourse(month + 1, accumulated + AtLeast(0, cut))
    BY <1>2, <1>5, <2>1, DigitsMonth DEF Digits, DigitParts
  <2>3. CourseAt(month + 1, accumulated + AtLeast(0, cut))
    BY <1>1, <2>2 DEF CourseAt
  <2> QED
    BY <1>1, <1>2, <1>5, <1>7, <2>3, KeptStep DEF Computing
<1>8. /\ UNCHANGED <<term, payment, DepreciableBase, N>>
      /\ month' = month + 1 /\ charge' = AtLeast(0, OrLast(cut))
  BY <1>1, <1>2, <1>3, <1>6, TakeStep
<1>9. month < N => charge' = AtLeast(0, cut)
  BY <1>8 DEF OrLast
\* The next month has a smaller share of the digits.
<1>10. Digits(month + 1) <= Digits(month) /\ Digits(month + 1) \in Int
  <2>1. (N - month + 1) * B = (N - (month + 1) + 1) * B + B
    BY <1>2
  <2>2. (N - (month + 1) + 1) * B \in Int
    BY <1>2
  <2> QED
    BY <1>2, <2>1, <2>2 DEF Digits
<1>11. month < N => Digits(month + 1) <= DigitParts * (charge' + 1)
  <2> SUFFICES ASSUME month < N PROVE Digits(month + 1) <= DigitParts * (charge' + 1)
    OBVIOUS
  <2>1. charge' \in Nat /\ charge' >= cut
    BY <1>5, <1>9 DEF AtLeast
  <2>2. DigitParts * (cut + 1) <= DigitParts * (charge' + 1)
    <3>1. ASSUME NEW e \in Nat, cut <= e
          PROVE  DigitParts * (cut + 1) <= DigitParts * (e + 1)
      <4> DEFINE x == cut + 1
                 z == e + 1
      <4>1. x \in Int /\ z \in Int /\ x <= z /\ DigitParts \in Nat
        BY <1>4, <1>5, <3>1
      <4> HIDE DEF x, z
      <4>2. DigitParts * x <= DigitParts * z
        BY <4>1, Times
      <4> QED
        BY <4>2 DEF x, z
    <3> QED
      BY <2>1, <3>1
  <2>3. DigitParts * (cut + 1) = DigitParts * cut + DigitParts
    BY <1>4, <1>5
  <2>4. DigitParts * cut \in Int /\ DigitParts * (charge' + 1) \in Int
    BY <1>4, <1>5, <2>1
  <2> QED
    BY <1>4, <1>5, <1>10, <2>2, <2>3, <2>4
<1>12. DigitsFall'
  <2> SUFFICES ASSUME month' \in 2 .. N'
               PROVE  Digits(month)' <= (DigitParts * (charge + 1))'
    BY DEF DigitsFall
  <2>1. Digits(month)' = Digits(month + 1) /\ DigitParts' = DigitParts
    BY <1>8 DEF Digits, DigitParts
  <2>2. month < N
    BY <1>2, <1>8
  <2> QED
    BY <1>11, <2>1, <2>2
<1>13. (AnnuityRises /\ FundRises /\ BalanceFalls)'
  BY <1>1, <1>8 DEF AnnuityRises, FundRises, BalanceFalls
<1>14. Directed
  <2> SUFFICES ASSUME month > 1, month < N
               PROVE  charge' <= charge + 1
    BY <1>1 DEF Directed, Rising, Falling
  <2>1. month \in 2 .. N
    BY <1>2
  <2>2. Digits(month) <= DigitParts * (charge + 1)
    BY <1>1, <2>1 DEF LoopInv, DigitsFall
  <2>3. DigitParts * cut <= DigitParts * (charge + 1)
    <3>1. DigitParts * cut \in Int /\ DigitParts * (charge + 1) \in Int
      BY <1>2, <1>4, <1>5
    <3> QED
      BY <1>4, <1>5, <2>2, <3>1
  <2>4. cut <= charge + 1
    BY <1>2, <1>4, <1>5, <2>3, Times
  <2> QED
    BY <1>2, <1>5, <1>9, <2>4 DEF AtLeast
<1>15. LoopInv'
  BY <1>1, <1>2, <1>3, <1>6, <1>7, <1>12, <1>13, InvStep
<1> QED
  BY <1>14, <1>15

\* A sinking fund grows more every month.
LEMMA GrowthGrows ==
  ASSUME LoopType, payment \in Nat, NEW m \in 1 .. N, NEW c \in Nat, Parts(m) * c <= Growth(m)
  PROVE  Parts(m + 1) * c <= Growth(m + 1)
<1> DEFINE q == term.interest
           C == payment
           s == Power(q + 1, m - 1)
           t == Power(q, m - 1)
           s2 == Power(q + 1, (m + 1) - 1)
           t2 == Power(q, (m + 1) - 1)
<1>1. /\ q \in Nat \ {0} /\ s \in Nat \ {0} /\ t \in Nat \ {0}
      /\ s2 = (q + 1) * s /\ t2 = q * t
  BY MonthGrown
<1>2. Grain \in Nat \ {0} /\ C \in Nat
  BY ScheduleConstants
<1>3. (Grain * t) * c <= C * s
  BY DEF Growth, Parts
<1> HIDE DEF q, C, s, t, s2, t2
<1>4. (Grain * t) * c \in Nat /\ C * s \in Nat
  BY <1>1, <1>2
<1>5. q * ((Grain * t) * c) <= q * (C * s)
  BY <1>1, <1>3, <1>4, Times
<1>6. (Grain * t2) * c = q * ((Grain * t) * c) /\ C * s2 = q * (C * s) + C * s
  BY <1>1, <1>2
<1>7. q * ((Grain * t) * c) \in Int /\ q * (C * s) \in Int
  BY <1>1, <1>4
<1>8. (Grain * t2) * c <= C * s2
  BY <1>4, <1>5, <1>6, <1>7
<1> QED
  BY <1>8 DEF Growth, Parts, q, C, s2, t2

\* The growth of a month comes in parts of a unit.
LEMMA GrowthTyped ==
  ASSUME LoopType, payment \in Nat, NEW m \in 1 .. N
  PROVE  Growth(m) \in Nat /\ Parts(m) \in Nat \ {0}
<1> DEFINE s == Power(term.interest + 1, m - 1)
           t == Power(term.interest, m - 1)
<1>1. s \in Nat \ {0} /\ t \in Nat \ {0}
  BY MonthGrown
<1>2. Grain \in Nat \ {0}
  BY ScheduleConstants
<1> HIDE DEF s, t
<1>3. payment * s \in Nat /\ Grain * t \in Nat \ {0}
  BY <1>1, <1>2
<1> QED
  BY <1>3 DEF Growth, Parts, s, t

\* A month of a sinking fund charges more than the month before, but for a unit.
LEMMA FundStep ==
  ASSUME LoopInv, SinkingFund
  PROVE  LoopInv' /\ Directed
<1>1. term.engine = "sinking_fund" /\ month <= N /\ onLine' = onLine
  BY DEF SinkingFund, InLoop
<1>2. /\ LoopType /\ month \in 1 .. N /\ DepreciableBase \in Nat /\ N \in Nat \ {0}
      /\ accumulated \in Nat /\ charge \in Nat /\ onLine \in BOOLEAN
  BY <1>1, InMonth
<1>p. payment \in Nat
  <2>1. N \in Nat \ {0} /\ term.interest \in Nat \ {0} /\ term.engine \in Rising
    BY <1>1, <1>2, LifeOf DEF Rising
  <2>2. Power(term.interest, N) \in Nat
    BY <2>1, PowerPositive
  <2> QED
    BY <1>1, <1>2, <2>1, <2>2, PaymentOf
<1> DEFINE P == Parts(month)
<1>3. PICK cut \in Cut(Growth(month), P) : Take(OrLast(cut))
  BY DEF SinkingFund, Growth, Parts
<1>4. Growth(month) \in Nat /\ P \in Nat \ {0}
  BY <1>2, <1>p, GrowthTyped
<1> HIDE DEF P
<1>5. /\ cut \in Int /\ P * cut <= Growth(month)
      /\ Growth(month) <= P * cut + P
  BY <1>3, <1>4, CutNear
<1>6. OrLast(cut) \in Int
  BY <1>2, <1>5 DEF OrLast
<1>7. ASSUME ~TooSmall, ~Overrated, KeptAt(month, accumulated)
      PROVE  KeptAt(month + 1, accumulated + AtLeast(0, OrLast(cut)))
  <2>1. FundCourse(month, accumulated)
    BY <1>1, <1>7 DEF KeptAt, CourseAt
  <2>2. FundCourse(month + 1, accumulated + AtLeast(0, cut))
    BY <1>2, <1>p, <1>5, <2>1, FundMonth DEF P
  <2>3. CourseAt(month + 1, accumulated + AtLeast(0, cut))
    BY <1>1, <2>2 DEF CourseAt
  <2> QED
    BY <1>1, <1>2, <1>5, <1>7, <2>3, KeptStep DEF Computing
<1>8. /\ UNCHANGED <<term, payment, DepreciableBase, N>>
      /\ month' = month + 1 /\ charge' = AtLeast(0, OrLast(cut))
  BY <1>1, <1>2, <1>3, <1>6, TakeStep
<1>9. month < N => charge' = AtLeast(0, cut) /\ charge' \in Nat
  BY <1>5, <1>8 DEF OrLast, AtLeast
<1>10. month < N => P * charge' <= Growth(month)
  <2> SUFFICES ASSUME month < N PROVE P * charge' <= Growth(month)
    OBVIOUS
  <2>1. P * 0 = 0
    BY <1>4
  <2>2. charge' = cut \/ charge' = 0
    BY <1>5, <1>9 DEF AtLeast
  <2> QED
    BY <1>4, <1>5, <2>1, <2>2
<1>11. FundRises'
  <2> SUFFICES ASSUME month' \in 2 .. N'
               PROVE  (Parts(month) * charge)' <= Growth(month)'
    BY DEF FundRises
  <2>1. Growth(month)' = Growth(month + 1) /\ Parts(month)' = Parts(month + 1)
    BY <1>8 DEF Growth, Parts
  <2>2. month < N
    BY <1>2, <1>8
  <2>3. charge' \in Nat /\ Parts(month) * charge' <= Growth(month)
    BY <1>9, <1>10, <2>2 DEF P
  <2>4. Parts(month + 1) * charge' <= Growth(month + 1)
    BY <1>2, <1>p, <2>3, GrowthGrows
  <2> QED
    BY <2>1, <2>4
<1>12. (AnnuityRises /\ DigitsFall /\ BalanceFalls)'
  BY <1>1, <1>8 DEF AnnuityRises, DigitsFall, BalanceFalls
<1>13. Directed
  <2> SUFFICES ASSUME month > 1, month < N
               PROVE  charge' + 1 >= charge
    BY <1>1 DEF Directed, Rising, Falling
  <2>1. month \in 2 .. N
    BY <1>2
  <2>2. P * charge <= Growth(month)
    BY <1>1, <2>1 DEF LoopInv, FundRises, P
  <2>3. P * charge <= P * (cut + 1)
    <3>1. P * (cut + 1) = P * cut + P
      BY <1>4, <1>5
    <3>2. P * charge \in Int /\ P * cut \in Int
      BY <1>2, <1>4, <1>5
    <3> QED
      BY <1>4, <1>5, <2>2, <3>1, <3>2
  <2>4. charge <= cut + 1
    BY <1>2, <1>4, <1>5, <2>3, Times
  <2> QED
    BY <1>2, <1>5, <1>9, <2>4 DEF AtLeast
<1>14. LoopInv'
  BY <1>1, <1>2, <1>3, <1>6, <1>7, <1>11, <1>12, InvStep
<1> QED
  BY <1>13, <1>14

\* A quotient grows with what is divided.
LEMMA QuotientGrows ==
  ASSUME NEW x \in Int, NEW z \in Int, x <= z, NEW y \in Nat \ {0}
  PROVE  x \div y <= z \div y
<1> DEFINE a == x \div y
           b == z \div y
<1>1. a \in Int /\ b \in Int /\ y * a <= x /\ z < y * b + y
  BY Quotient
<1> HIDE DEF a, b
<1>2. y * (b + 1) = y * b + y /\ y * a \in Int /\ y * b \in Int
  BY <1>1
<1>3. y * a < y * (b + 1)
  BY <1>1, <1>2
<1>4. a < b + 1
  BY <1>1, <1>3, Times
<1> QED
  BY <1>1, <1>4 DEF a, b

\* A month of an annuity charges more than the month before.
LEMMA AnnuityStep ==
  ASSUME LoopInv, Annuity
  PROVE  LoopInv' /\ Directed
<1> DEFINE q == term.interest
           c == payment \div Grain - Remaining \div q
<1>1. term.engine = "annuity" /\ month <= N /\ onLine' = onLine /\ Take(OrLast(c))
  BY DEF Annuity, InLoop
<1>2. /\ LoopType /\ month \in 1 .. N /\ DepreciableBase \in Nat /\ N \in Nat \ {0}
      /\ accumulated \in Nat /\ charge \in Nat /\ onLine \in BOOLEAN
      /\ Remaining \in Nat /\ Remaining = AtLeast(0, DepreciableBase - accumulated)
  BY <1>1, InMonth
<1>3. q \in Nat \ {0}
  BY <1>2, LifeOf
<1>4. payment \div Grain \in Int
  <2>1. payment \in Nat /\ Grain \in Nat \ {0}
    <3>1. Power(q + 1, N) \in Nat
      BY <1>2, <1>3, Rungs
    <3> QED
      BY <1>1, <1>2, <3>1, PaymentOf, ScheduleConstants DEF Rising
  <2> QED
    BY <2>1, Quotient
<1> HIDE DEF q
<1>5. Remaining \div q \in Int /\ c \in Int
  <2>1. Remaining \div q \in Int
    BY <1>2, <1>3, Quotient
  <2> QED
    BY <1>4, <2>1
<1>6. OrLast(c) \in Int
  BY <1>2, <1>5 DEF OrLast
<1>7. ASSUME ~TooSmall, ~Overrated, KeptAt(month, accumulated)
      PROVE  KeptAt(month + 1, accumulated + AtLeast(0, OrLast(c)))
  <2>1. AnnuityCourse(month, accumulated) /\ accumulated <= DepreciableBase
    BY <1>1, <1>7 DEF KeptAt, CourseAt
  <2>2. Remaining = DepreciableBase - accumulated
    BY <1>2, <2>1 DEF AtLeast
  <2>3. AnnuityCourse(month + 1, accumulated + AtLeast(0, c))
    BY <1>1, <1>2, <2>1, <2>2, AnnuityMonth DEF q
  <2>4. CourseAt(month + 1, accumulated + AtLeast(0, c))
    BY <1>1, <2>3 DEF CourseAt
  <2> QED
    BY <1>1, <1>2, <1>5, <1>7, <2>4, KeptStep DEF Computing
<1>8. /\ UNCHANGED <<term, payment, DepreciableBase, N>>
      /\ month' = month + 1 /\ charge' = AtLeast(0, OrLast(c))
      /\ Remaining' \in Nat /\ Remaining' <= Remaining
  BY <1>1, <1>2, <1>6, TakeStep
<1>9. month < N => charge' = AtLeast(0, c)
  BY <1>8 DEF OrLast
\* The interest falls with what remains.
<1>10. AnnuityRises'
  <2> SUFFICES ASSUME month' \in 2 .. N'
               PROVE  charge' <= AtLeast(0, payment' \div Grain - Remaining' \div term'.interest)
    BY DEF AnnuityRises
  <2>1. month < N
    BY <1>2, <1>8
  <2>2. PICK r \in Nat : r = Remaining' /\ r <= Remaining
    BY <1>8
  <2>3. Remaining' \div q <= Remaining \div q /\ Remaining' \div q \in Int
    <3>1. r \in Int /\ Remaining \in Int
      BY <1>2
    <3>2. r \div q <= Remaining \div q /\ r \div q \in Int
      BY <1>3, <2>2, <3>1, QuotientGrows, Quotient
    <3> QED
      BY <2>2, <3>2
  <2>4. c <= payment \div Grain - Remaining' \div q
    BY <1>4, <1>5, <2>3
  <2>5. payment' = payment /\ term'.interest = q
    BY <1>8 DEF q
  <2> QED
    BY <1>4, <1>5, <1>9, <2>1, <2>3, <2>4, <2>5 DEF AtLeast
<1>11. (FundRises /\ DigitsFall /\ BalanceFalls)'
  BY <1>1, <1>8 DEF FundRises, DigitsFall, BalanceFalls
<1>12. Directed
  <2> SUFFICES ASSUME month > 1, month < N
               PROVE  charge' + 1 >= charge
    BY <1>1 DEF Directed, Rising, Falling
  <2>1. month \in 2 .. N
    BY <1>2
  <2>2. charge <= AtLeast(0, c)
    BY <1>1, <2>1 DEF LoopInv, AnnuityRises, q
  <2> QED
    BY <1>2, <1>5, <1>9, <2>2 DEF AtLeast
<1>13. LoopInv'
  BY <1>1, <1>2, <1>6, <1>7, <1>10, <1>11, InvStep
<1> QED
  BY <1>12, <1>13

\* A month of a declining balance charges no more than remains, or the line that is left.
LEMMA BalanceStep ==
  ASSUME LoopInv, DecliningBalance
  PROVE  LoopInv' /\ Directed
<1> DEFINE even == Remaining \div (N - month + 1)
           top == (nbv * term.factor) \div (2 * N)
<1>1. term.engine = "declining_balance" /\ month <= N
  BY DEF DecliningBalance, InLoop
<1>2. /\ LoopType /\ month \in 1 .. N /\ DepreciableBase \in Nat /\ N \in Nat \ {0}
      /\ accumulated \in Nat /\ charge \in Nat /\ nbv \in Nat /\ onLine \in BOOLEAN
      /\ Remaining \in Nat /\ Remaining = AtLeast(0, DepreciableBase - accumulated)
  BY <1>1, InMonth
<1>3. term.factor \in Nat \ {0}
  BY <1>2, LifeOf
<1>4. nbv * term.factor \in Int /\ nbv * term.factor \in Nat /\ 2 * N \in Nat \ {0}
  BY <1>2, <1>3
<1>5. even \in Nat /\ even <= Remaining /\ (month = N => even = Remaining)
  <2> DEFINE n == N - month + 1
  <2>1. n \in Nat \ {0} /\ n >= 1 /\ (month = N => n = 1)
    BY <1>2
  <2> HIDE DEF n
  <2> DEFINE d == Remaining \div n
  <2>2. d \in Nat /\ n * d <= Remaining
    BY <1>2, <2>1, Quotient
  <2>3. month = N => d = Remaining
    BY <1>2, <2>1
  <2> HIDE DEF d
  <2>4. d <= n * d
    <3>1. d * 1 <= d * n
      BY <2>1, <2>2, Times
    <3> QED
      BY <2>1, <2>2, <3>1
  <2>5. n * d \in Int
    BY <2>1, <2>2
  <2> QED
    BY <1>2, <2>2, <2>3, <2>4, <2>5 DEF d, n
<1>6. PICK cut \in Cut(nbv * term.factor, 2 * N) :
        LET db == AtMost(cut, Remaining) IN
        IF onLine \/ (term.switch /\ Remaining > 0 /\ even > db)
        THEN Take(IF month < N THEN even ELSE Remaining) /\ onLine' = TRUE
        ELSE Take(IF Remaining = 0 THEN 0 ELSE db) /\ onLine' = onLine
  BY DEF DecliningBalance
<1>7. top \in Nat /\ cut \in Int /\ cut <= top /\ top <= cut + 1
  <2> DEFINE x == nbv * term.factor
             z == 2 * N
  <2>1. x \in Int /\ x \in Nat /\ z \in Nat \ {0} /\ cut \in Cut(x, z)
    BY <1>4
  <2> HIDE DEF x, z
  <2>2. x \div z \in Nat /\ cut \in Int /\ cut <= x \div z /\ x \div z <= cut + 1
    BY <2>1, Quotient, CutNear
  <2> QED
    BY <2>2 DEF x, z
<1> HIDE DEF even, top
<1> DEFINE db == AtMost(cut, Remaining)
           Switched == onLine \/ (term.switch /\ Remaining > 0 /\ even > db)
           amount == IF Switched THEN (IF month < N THEN even ELSE Remaining)
                     ELSE IF Remaining = 0 THEN 0 ELSE db
<1>8. db \in Int /\ db <= Remaining /\ db <= cut /\ (db = cut \/ db = Remaining)
  BY <1>2, <1>7 DEF AtMost
<1>9. Take(amount) /\ onLine' \in BOOLEAN /\ (~onLine' => ~onLine /\ ~Switched)
  <2>1. CASE Switched
    BY <1>6, <2>1
  <2>2. CASE ~Switched
    BY <1>2, <1>6, <2>2
  <2> QED
    BY <2>1, <2>2
<1> HIDE DEF db
<1>10. amount \in Int /\ amount <= Remaining
  BY <1>2, <1>5, <1>8
\* The last month takes all that remains once the line would take more than the balance does.
<1>11. month = N /\ term.switch => amount = Remaining
  <2> SUFFICES ASSUME month = N, term.switch PROVE amount = Remaining
    OBVIOUS
  <2>1. CASE Switched
    BY <1>2, <2>1
  <2>2. CASE ~Switched /\ Remaining = 0
    BY <2>2
  <2>3. CASE ~Switched /\ Remaining # 0
    <3>1. ~(even > db) /\ even = Remaining
      BY <1>2, <1>5, <2>3
    <3> QED
      BY <1>2, <1>8, <2>3, <3>1
  <2> QED
    BY <2>1, <2>2, <2>3
<1> HIDE DEF amount, Switched
<1>12. AtLeast(0, amount) \in Nat /\ AtLeast(0, amount) <= Remaining
  BY <1>2, <1>10 DEF AtLeast
<1>13. month = N /\ term.switch => AtLeast(0, amount) = Remaining
  BY <1>2, <1>11 DEF AtLeast
<1>14. ~Switched => AtLeast(0, amount) <= AtMost(top, Remaining)
  BY <1>2, <1>7, <1>8 DEF AtLeast, AtMost, amount
<1>15. ~Switched => AtMost(top, Remaining) <= AtLeast(0, amount) + 1
  BY <1>2, <1>7, <1>8 DEF AtLeast, AtMost, amount
<1>16. ASSUME KeptAt(month, accumulated)
       PROVE  KeptAt(month + 1, accumulated + AtLeast(0, amount))
  <2>1. Remaining = DepreciableBase - accumulated
    BY <1>2, <1>16 DEF KeptAt, AtLeast
  <2>2. accumulated + AtLeast(0, amount) <= DepreciableBase
    BY <1>2, <1>12, <2>1
  <2>3. month + 1 > N /\ term.switch => accumulated + AtLeast(0, amount) = DepreciableBase
    BY <1>2, <1>13, <2>1
  <2> QED
    BY <1>1, <2>2, <2>3 DEF KeptAt, CourseAt
<1>17. /\ UNCHANGED <<term, payment, DepreciableBase, N>>
       /\ month' = month + 1 /\ charge' = AtLeast(0, amount)
       /\ LoopType' /\ Remaining' \in Nat /\ Remaining' <= Remaining
  BY <1>1, <1>2, <1>9, <1>10, TakeStep
<1>18. nbv' \in Nat /\ nbv' <= nbv
  <2>1. /\ accumulated' = accumulated + charge' /\ charge' \in Nat
        /\ nbv' = AtLeast(term.cost - accumulated', Salvage(term))
    BY <1>9, <1>12, <1>17 DEF Take
  <2>2. nbv = AtLeast(term.cost - accumulated, Salvage(term)) /\ term \in Commands
    BY <1>2 DEF LoopType
  <2>3. term.cost \in Nat /\ Salvage(term) \in Nat
    BY <2>2, CommandOf
  <2> QED
    BY <1>2, <2>1, <2>2, <2>3 DEF AtLeast
<1>19. Balance' \in Int /\ Balance' <= AtMost(top, Remaining)
  <2>1. PICK v \in Nat : v = nbv' /\ v <= nbv
    BY <1>18
  <2>2. v * term.factor <= nbv * term.factor /\ v * term.factor \in Nat
    <3>1. term.factor * v <= term.factor * nbv
      BY <1>2, <1>3, <2>1, Times
    <3> QED
      BY <1>2, <1>3, <2>1, <3>1
  <2> DEFINE low == (v * term.factor) \div (2 * N)
  <2>3. low <= top /\ low \in Nat
    <3> DEFINE x == v * term.factor
               w == nbv * term.factor
               z == 2 * N
    <3>1. x \in Int /\ x \in Nat /\ w \in Int /\ x <= w /\ z \in Nat \ {0}
      BY <1>4, <2>2
    <3> HIDE DEF x, w, z
    <3>2. x \div z <= w \div z /\ x \div z \in Nat
      BY <3>1, QuotientGrows, Quotient
    <3> QED
      BY <3>2 DEF x, w, z, top
  <2>4. Balance' = AtMost(low, Remaining')
    BY <1>17, <2>1 DEF Balance
  <2> HIDE DEF low
  <2> QED
    BY <1>2, <1>7, <1>17, <2>3, <2>4 DEF AtMost
<1>20. BalanceFalls'
  <2> SUFFICES ASSUME ~onLine' PROVE Balance' <= charge' + 1
    BY DEF BalanceFalls
  <2>1. AtMost(top, Remaining) <= charge' + 1
    BY <1>9, <1>15, <1>17
  <2>2. AtMost(top, Remaining) \in Int
    BY <1>2, <1>7 DEF AtMost
  <2> QED
    BY <1>12, <1>17, <1>19, <2>1, <2>2
<1>21. (AnnuityRises /\ FundRises /\ DigitsFall)'
  BY <1>1, <1>17 DEF AnnuityRises, FundRises, DigitsFall
<1>22. Directed
  <2> SUFFICES ASSUME month > 1, month < N, ~onLine'
               PROVE  charge' <= charge + 1
    BY <1>1 DEF Directed, Rising, Falling
  <2>1. month \in 2 .. N
    BY <1>2
  <2>2. AtMost(top, Remaining) <= charge + 1
    BY <1>1, <1>9, <2>1 DEF LoopInv, BalanceFalls, Balance, top
  <2>3. AtMost(top, Remaining) \in Int
    BY <1>2, <1>7 DEF AtMost
  <2> QED
    BY <1>2, <1>9, <1>12, <1>14, <1>17, <2>2, <2>3
<1>23. LoopInv'
  BY <1>1, <1>9, <1>10, <1>16, <1>20, <1>21, InvStep
<1> QED
  BY <1>22, <1>23

\* Nothing is charged when the loop begins.
LEMMA LoopStart ==
  ASSUME LoopInit
  PROVE  LoopInv
<1>1. /\ term \in Commands /\ payment \in Payments(term)
      /\ month = 1 /\ accumulated = 0 /\ nbv = term.cost /\ charge = 0 /\ onLine = FALSE
  BY DEF LoopInit
<1>2. /\ N \in Nat \ {0} /\ DepreciableBase \in Nat /\ term.interest \in Nat \ {0}
      /\ term.cost \in Nat /\ Salvage(term) \in Nat
      /\ term.cost = DepreciableBase + Salvage(term)
      /\ term.engine = "macrs" => term.units \in Seq(Nat)
  BY <1>1, CommandOf DEF N, DepreciableBase
<1>3. LoopType
  <2>1. nbv = AtLeast(term.cost - accumulated, Salvage(term))
    BY <1>1, <1>2 DEF AtLeast
  <2>2. month \in 1 .. (N + 1)
    BY <1>1, <1>2
  <2> QED
    BY <1>1, <2>1, <2>2 DEF LoopType
<1>4. AnnuityRises /\ FundRises /\ DigitsFall /\ BalanceFalls
  BY <1>1, <1>2 DEF AnnuityRises, FundRises, DigitsFall, BalanceFalls
<1>5. term.engine = "straight_line" => LineCourse(1, 0)
  <2> DEFINE d == DepreciableBase \div N
  <2>1. d \in Nat
    <3>1. DepreciableBase \in Int /\ DepreciableBase \in Nat /\ N \in Nat \ {0}
      BY <1>2
    <3> QED
      BY <3>1, Quotient
  <2> HIDE DEF d
  <2>2. 0 = (1 - 1) * d
    BY <2>1
  <2> QED
    BY <2>2 DEF LineCourse, d
<1>6. DigitsCourse(1, 0)
  <2>1. (N * (N + 1)) * 0 = 0 /\ DepreciableBase * ((1 - 1) * (2 * N - 1 + 2)) = 0
    BY <1>2
  <2> QED
    BY <2>1 DEF DigitsCourse
<1>7. (term.engine = "sinking_fund" => FundCourse(1, 0)) /\ AnnuityCourse(1, 0)
  <2> DEFINE q == term.interest
             X == Power(q + 1, N)
             Y == Power(q, N)
  <2>1. X \in Nat /\ Y \in Nat /\ Rung(q, N, 1 - 1) = Y
    <3>1. 1 - 1 = 0
      OBVIOUS
    <3> QED
      BY <1>2, <3>1, Rungs
  <2> HIDE DEF X, Y
  <2>2. AnnuityCourse(1, 0)
    <3> DEFINE e == Excess(q)
    <3>1. e \in Nat
      BY <1>2, ExcessOf
    <3> HIDE DEF e
    <3>2. /\ (X - Y) * Y \in Int /\ DepreciableBase * Y + e * (X - Y) \in Int
          /\ Y - Y = 0
      BY <1>2, <2>1, <3>1
    <3>3. ((X - Y) * Y) * 0 = 0 /\ (Y - Y) * (DepreciableBase * Y + e * (X - Y)) = 0
      BY <3>2
    <3> QED
      BY <2>1, <3>3 DEF AnnuityCourse, X, Y, e
  <2>3. term.engine = "sinking_fund" => FundCourse(1, 0)
    <3> SUFFICES ASSUME term.engine = "sinking_fund" PROVE FundCourse(1, 0)
      OBVIOUS
    <3>1. payment \in Nat /\ Grain \in Nat
      BY <1>3, <2>1, PaymentOf, ScheduleConstants DEF Rising, Y
    <3>2. Power(q + 1, 1 - 1) = 1 /\ Power(q, 1 - 1) = 1
      <4>1. 1 - 1 = 0 /\ q \in Nat /\ q + 1 \in Nat
        BY <1>2
      <4>2. Power(q + 1, 0) = 1 /\ Power(q, 0) = 1
        BY <4>1, PowerStep
      <4> QED
        BY <4>1, <4>2
    <3>3. (Grain * 1) * 0 = 0 /\ payment * (q * (1 - 1)) = 0
      BY <1>2, <3>1
    <3> QED
      BY <3>2, <3>3 DEF FundCourse, Parts
  <2> QED
    BY <2>2, <2>3
<1>8. term.engine = "macrs" => MacrsCourse(1, 0)
  <2> SUFFICES ASSUME term.engine = "macrs" PROVE MacrsCourse(1, 0)
    OBVIOUS
  <2>1. 1 \in 1 .. N
    BY <1>2
  <2>2. /\ MonthlyOf((1 - 1) \div MonthsPerYear) \in Nat /\ MonthsPerYear \in Nat \ {0}
        /\ (1 - 1) \div MonthsPerYear \in Nat /\ (1 - 1) \div MonthsPerYear < Len(term.units)
        /\ term.cost \in Nat
    BY <1>3, <2>1, MacrsYear
  <2>3. (1 - 1) % MonthsPerYear = 0
    BY <2>2
  <2>4. Percents((1 - 1) \div MonthsPerYear) \in Nat
    BY <1>3, <2>2, PercentsStep
  <2>5. term.cost * Percents((1 - 1) \div MonthsPerYear) >= 0
    BY <2>2, <2>4
  <2>6. 100 * (0 - 0 * MonthlyOf((1 - 1) \div MonthsPerYear)) = 0
    BY <2>2
  <2> QED
    BY <2>3, <2>5, <2>6 DEF MacrsCourse
<1>9. KeptAt(1, 0)
  BY <1>2, <1>5, <1>6, <1>7, <1>8 DEF KeptAt, CourseAt
<1> QED
  BY <1>1, <1>3, <1>4, <1>9 DEF LoopInv

\* A month, or a step that leaves the loop alone.
LEMMA LoopStep ==
  ASSUME LoopInv, [LoopNext]_loopVars
  PROVE  LoopInv' /\ [Directed]_loopVars
<1>1. CASE StraightLine
  BY <1>1, StraightLineStep
<1>2. CASE DecliningBalance
  BY <1>2, BalanceStep
<1>3. CASE SumOfYearsDigits
  BY <1>3, DigitsStep
<1>4. CASE UnitsOfProduction
  BY <1>4, UnitsStep
<1>5. CASE Annuity
  BY <1>5, AnnuityStep
<1>6. CASE SinkingFund
  BY <1>6, FundStep
<1>7. CASE Macrs
  BY <1>7, MacrsStep
<1>8. CASE UNCHANGED loopVars
  <2>1. LoopInv'
    BY <1>8 DEF LoopInv, LoopType, loopVars, AnnuityRises, FundRises, DigitsFall, BalanceFalls,
       KeptAt, CourseAt, LineCourse, DigitsCourse, FundCourse, AnnuityCourse, MacrsCourse,
       MonthlyOf, Percents, TooSmall, Overrated, N, DepreciableBase, Remaining, Balance,
       Growth, Parts, Digits, DigitParts
  <2> QED
    BY <1>8, <2>1
<1> QED
  BY <1>1, <1>2, <1>3, <1>4, <1>5, <1>6, <1>7, <1>8 DEF LoopNext

\* The course of every engine, and the direction of its charges, in every state of the loop.
THEOREM LoopInvariant == LoopSpec => []LoopInv
<1>1. LoopInit => LoopInv
  BY LoopStart
<1>2. LoopInv /\ [LoopNext]_loopVars => LoopInv'
  BY LoopStep
<1> QED
  BY <1>1, <1>2, PTL DEF LoopSpec

\* No method of depreciation charges more than the base it has to spend, for any cost, life,
\* rate or units: the engines that do not look at what remains keep to their course.
THEOREM NeverBeyond == LoopSpec => []NeverBeyondBase
<1>1. LoopInv => NeverBeyondBase
  <2> SUFFICES ASSUME LoopInv, ~TooSmall, ~Overrated
               PROVE  accumulated <= DepreciableBase /\ nbv = term.cost - accumulated
    BY DEF NeverBeyondBase
  <2>1. accumulated <= DepreciableBase
    BY DEF LoopInv, KeptAt
  <2> QED
    BY <2>1, LoopFacts DEF LoopInv
<1> QED
  BY <1>1, LoopInvariant, PTL

\* Every method but a declining balance that does not switch spends all of the base by its
\* last month: the last line takes what the lines before have left, and that is never negative.
THEOREM BaseSpent == LoopSpec => []SpendsBase
<1>1. LoopInv => SpendsBase
  BY DEF LoopInv, KeptAt, SpendsBase, Generated
<1> QED
  BY <1>1, LoopInvariant, PTL

\* The charges of a method fall or rise as the method promises, whatever is cut of them.
THEOREM ChargesDirected == LoopSpec => ChargesKeepDirection
<1>1. LoopInv /\ [LoopNext]_loopVars => [Directed]_loopVars
  BY LoopStep
<1>2. LoopSpec => [][Directed]_loopVars
  BY <1>1, LoopInvariant, PTL DEF LoopSpec
<1> QED
  BY <1>2, PTL DEF ChargesKeepDirection, Directed
================================================================================
