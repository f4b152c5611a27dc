------------------------------ MODULE SumTheorems ------------------------------
(***************************************************************************)
(* Facts about sums of integers over a finite set, SumFunctionOnSet(f, S)  *)
(* of the community module Functions, which the balances of the other      *)
(* modules are.  They are proved from the recursive definition of the sum, *)
(* by induction over the subsets of S: a set of subsets that contains each *)
(* subset of S whose smaller subsets it contains has S for a member.       *)
(***************************************************************************)
EXTENDS Integers, Functions, FiniteSetTheorems, WellFoundedInduction, TLAPS

\* Induction: G is the set of the subsets of S that have the property to be proved.
LEMMA StrongInduction ==
  ASSUME NEW S, IsFiniteSet(S), NEW G,
         \A s \in SUBSET S : (\A t \in SUBSET s : t # s => t \in G) => s \in G
  PROVE  S \in G
<1> DEFINE B == {s \in SUBSET S : s \notin G}
<1> SUFFICES ASSUME B # {} PROVE FALSE
  BY S \in SUBSET S
<1>1. IsWellFoundedOn(StrictSubsetOrdering(S), SUBSET S)
  <2>1. FiniteSubsetsOf(S) = SUBSET S
    BY FS_FiniteSubsetsOfFinite
  <2>2. IsWellFoundedOn(StrictSubsetOrdering(S), FiniteSubsetsOf(S))
    BY FS_StrictSubsetOrderingWellFounded
  <2> QED
    BY <2>1, <2>2
<1>2. PICK s \in B : \A t \in B : <<t, s>> \notin StrictSubsetOrdering(S)
  <2>1. B \subseteq SUBSET S
    OBVIOUS
  <2> HIDE DEF B
  <2> QED
    BY <1>1, <2>1, WFMin
<1>3. \A t \in SUBSET s : t # s => t \in G
  BY <1>2 DEF StrictSubsetOrdering
<1> QED
  BY <1>3

\* The usual form: the empty set, and one element more.
LEMMA FiniteInduction ==
  ASSUME NEW S, IsFiniteSet(S), NEW G, {} \in G,
         \A s \in SUBSET S : \A x \in s : s \ {x} \in G => s \in G
  PROVE  S \in G
<1>1. ASSUME NEW s \in SUBSET S, \A t \in SUBSET s : t # s => t \in G
      PROVE  s \in G
  <2>1. CASE s = {}
    BY <2>1
  <2>2. ASSUME NEW x \in s
        PROVE  s \in G
    <3>1. s \ {x} \in SUBSET s /\ s \ {x} # s
      OBVIOUS
    <3> QED
      BY <1>1, <3>1
  <2> QED
    BY <2>1, <2>2
<1> QED
  BY <1>1, StrongInduction

-------------------------------------------------------------------------------
(* The definition of the sum makes sense: the recursive function that it   *)
(* chooses exists, and is the only one.                                    *)

\* The element that a sum takes first.
Chosen(s) == CHOOSE x \in s : TRUE

\* The recursive function of partial sums over the subsets of S.
PartialSums(g, f, S) ==
  g = [s \in SUBSET S |-> IF s = {} THEN 0 ELSE f[Chosen(s)] + g[s \ {Chosen(s)}]]

\* What the library's definition of a sum comes to.
LEMMA SumIsPartial ==
  ASSUME NEW f, NEW S
  PROVE  SumFunctionOnSet(f, S) = (CHOOSE g : PartialSums(g, f, S))[S]
BY DEF SumFunctionOnSet, FoldFunctionOnSet, MapThenFoldSet, PartialSums, Chosen

\* The element that a sum takes first is one of the set.
LEMMA ChosenIn ==
  ASSUME NEW s, s # {}
  PROVE  Chosen(s) \in s
BY DEF Chosen

\* What a function of partial sums is at a subset.
LEMMA PartialAt ==
  ASSUME NEW f, NEW S, NEW g, PartialSums(g, f, S), NEW s \in SUBSET S
  PROVE  /\ s = {} => g[s] = 0
         /\ s # {} => g[s] = f[Chosen(s)] + g[s \ {Chosen(s)}]
BY DEF PartialSums

\* Two functions of partial sums agree where both are defined.
LEMMA PartialUnique ==
  ASSUME NEW f, NEW S, NEW T, NEW g, NEW h, PartialSums(g, f, S), PartialSums(h, f, T),
         NEW u, IsFiniteSet(u), u \in SUBSET S, u \in SUBSET T
  PROVE  g[u] = h[u]
<1> DEFINE G == {s \in SUBSET u : g[s] = h[s]}
<1>1. {} \in G
  <2>1. {} \in SUBSET S /\ {} \in SUBSET T
    OBVIOUS
  <2>2. g[{}] = 0 /\ h[{}] = 0
    BY <2>1, PartialAt
  <2> QED
    BY <2>2
<1>2. ASSUME NEW s \in SUBSET u, \A t \in SUBSET s : t # s => t \in G
      PROVE  s \in G
  <2>1. CASE s = {}
    BY <2>1, <1>1
  <2>2. CASE s # {}
    <3>1. Chosen(s) \in s
      BY <2>2, ChosenIn
    <3>2. s \ {Chosen(s)} \in SUBSET s /\ s \ {Chosen(s)} # s
      BY <3>1
    <3>3. g[s \ {Chosen(s)}] = h[s \ {Chosen(s)}]
      BY <1>2, <3>2
    <3>4. s \in SUBSET S /\ s \in SUBSET T
      OBVIOUS
    <3>5. /\ g[s] = f[Chosen(s)] + g[s \ {Chosen(s)}]
          /\ h[s] = f[Chosen(s)] + h[s \ {Chosen(s)}]
      BY <2>2, <3>4, PartialAt
    <3> QED
      BY <3>3, <3>5
  <2> QED
    BY <2>1, <2>2
<1>3. u \in G
  <2> HIDE DEF G
  <2> QED
    BY <1>2, StrongInduction
<1> QED
  BY <1>3

\* There is a function of partial sums for every finite set.
LEMMA PartialExists ==
  ASSUME NEW f, NEW S, IsFiniteSet(S)
  PROVE  \E g : PartialSums(g, f, S)
<1> DEFINE Partial(s) == CHOOSE g : PartialSums(g, f, s)
           V(s) == Partial(s)[s]
           G == {s \in SUBSET S : \E g : PartialSums(g, f, s)}
<1>1. ASSUME NEW x \in SUBSET S, \A t \in SUBSET x : t # x => t \in G
      PROVE  x \in G
  <2> DEFINE h == [s \in SUBSET x |->
                     IF s = {} THEN 0 ELSE f[Chosen(s)] + V(s \ {Chosen(s)})]
  <2>1. ASSUME NEW s \in SUBSET x, s # x
        PROVE  PartialSums(Partial(s), f, s)
    <3>1. \E g : PartialSums(g, f, s)
      BY <1>1, <2>1
    <3> QED
      BY <3>1
  <2>2. ASSUME NEW s \in SUBSET x, s # x
        PROVE  h[s] = V(s)
    <3>1. PartialSums(Partial(s), f, s) /\ s \in SUBSET s
      BY <2>1, <2>2
    <3> HIDE DEF Partial
    <3>2. CASE s = {}
      <4>1. s = {} => Partial(s)[s] = 0
        BY <3>1, PartialAt
      <4> QED
        BY <3>2, <4>1
    <3>3. CASE s # {}
      <4> DEFINE t == s \ {Chosen(s)}
      <4>1. Chosen(s) \in s
        BY <3>3, ChosenIn
      <4>2. t \in SUBSET s /\ t \in SUBSET t /\ t \in SUBSET x /\ t # x
        BY <4>1
      <4>3. PartialSums(Partial(t), f, t)
        BY <4>2, <2>1
      <4>4. IsFiniteSet(t)
        BY <4>2, FS_Subset
      <4>5. Partial(s)[t] = Partial(t)[t]
        <5> HIDE DEF t
        <5> QED
          BY <3>1, <4>2, <4>3, <4>4, PartialUnique
      <4>6. Partial(s)[s] = f[Chosen(s)] + Partial(s)[t]
        BY <3>1, <3>3, PartialAt
      <4> QED
        BY <3>3, <4>5, <4>6
    <3> QED
      BY <3>2, <3>3
  <2>3. ASSUME NEW s \in SUBSET x, s # {}
        PROVE  h[s \ {Chosen(s)}] = V(s \ {Chosen(s)})
    <3>1. Chosen(s) \in s
      BY <2>3, ChosenIn
    <3>2. s \ {Chosen(s)} \in SUBSET x /\ s \ {Chosen(s)} # x
      BY <3>1
    <3> HIDE DEF h, V
    <3> QED
      BY <2>2, <3>2
  <2>4. PartialSums(h, f, x)
    <3> HIDE DEF V
    <3> QED
      BY <2>3 DEF PartialSums
  <2> QED
    BY <2>4
<1>2. S \in G
  <2> HIDE DEF G
  <2> QED
    BY <1>1, StrongInduction
<1> QED
  BY <1>2

-------------------------------------------------------------------------------
(* The two equations of the sum, and what follows from them.               *)

\* Nothing sums to zero.
LEMMA SumEmpty ==
  ASSUME NEW f
  PROVE  SumFunctionOnSet(f, {}) = 0
<1>1. PartialSums(CHOOSE g : PartialSums(g, f, {}), f, {})
  BY PartialExists, FS_EmptySet
<1>2. {} \in SUBSET {}
  OBVIOUS
<1> QED
  BY <1>1, <1>2, SumIsPartial, PartialAt

\* The recursive equation: the element that the definition chooses, and the rest.
LEMMA SumStep ==
  ASSUME NEW f, NEW S, IsFiniteSet(S), S # {}
  PROVE  SumFunctionOnSet(f, S) = f[Chosen(S)] + SumFunctionOnSet(f, S \ {Chosen(S)})
<1> DEFINE Partial(s) == CHOOSE g : PartialSums(g, f, s)
           R == S \ {Chosen(S)}
<1>1. IsFiniteSet(R) /\ R \in SUBSET S /\ R \in SUBSET R /\ S \in SUBSET S
  BY FS_Subset
<1>2. PartialSums(Partial(S), f, S) /\ PartialSums(Partial(R), f, R)
  BY <1>1, PartialExists
<1>3. SumFunctionOnSet(f, S) = Partial(S)[S] /\ SumFunctionOnSet(f, R) = Partial(R)[R]
  BY SumIsPartial
<1> HIDE DEF Partial
<1>4. Partial(S)[S] = f[Chosen(S)] + Partial(S)[R]
  BY <1>1, <1>2, PartialAt
<1>5. Partial(S)[R] = Partial(R)[R]
  <2> HIDE DEF R
  <2> QED
    BY <1>1, <1>2, PartialUnique
<1> QED
  BY <1>3, <1>4, <1>5

\* A sum of integers is an integer.
LEMMA SumInt ==
  ASSUME NEW f, NEW S, IsFiniteSet(S), \A x \in S : f[x] \in Int
  PROVE  SumFunctionOnSet(f, S) \in Int
<1> DEFINE G == {s \in SUBSET S : SumFunctionOnSet(f, s) \in Int}
<1>1. ASSUME NEW s \in SUBSET S, \A t \in SUBSET s : t # s => t \in G
      PROVE  s \in G
  <2>1. CASE s = {}
    BY <2>1, SumEmpty
  <2>2. CASE s # {}
    <3>1. Chosen(s) \in s /\ IsFiniteSet(s)
      BY <2>2, ChosenIn, FS_Subset
    <3>2. s \ {Chosen(s)} \in G
      BY <1>1, <3>1
    <3> QED
      BY <2>2, <3>1, <3>2, SumStep
  <2> QED
    BY <2>1, <2>2
<1>2. S \in G
  <2> HIDE DEF G
  <2> QED
    BY <1>1, StrongInduction
<1> QED
  BY <1>2

\* Any element can be taken out first, not only the one that the definition chooses.
LEMMA SumRemove ==
  ASSUME NEW f, NEW S, IsFiniteSet(S), \A x \in S : f[x] \in Int, NEW y \in S
  PROVE  SumFunctionOnSet(f, S) = f[y] + SumFunctionOnSet(f, S \ {y})
<1> DEFINE Sum(s) == SumFunctionOnSet(f, s)
           G == {s \in SUBSET S : \A x \in s : Sum(s) = f[x] + Sum(s \ {x})}
<1>1. ASSUME NEW s \in SUBSET S, \A t \in SUBSET s : t # s => t \in G
      PROVE  s \in G
  <2> SUFFICES ASSUME NEW x \in s
               PROVE  Sum(s) = f[x] + Sum(s \ {x})
    OBVIOUS
  <2> DEFINE c == Chosen(s)
             r == (s \ {c}) \ {x}
  <2>1. c \in s
    BY ChosenIn
  <2>2. /\ IsFiniteSet(s) /\ IsFiniteSet(s \ {c}) /\ IsFiniteSet(s \ {x}) /\ IsFiniteSet(r)
    BY FS_Subset
  <2>3. Sum(s) = f[c] + Sum(s \ {c})
    BY <2>1, <2>2, SumStep
  <2>4. CASE c = x
    BY <2>3, <2>4
  <2>5. CASE c # x
    <3>1. Sum(s \ {c}) = f[x] + Sum(r)
      <4>1. s \ {c} \in G
        BY <1>1, <2>1
      <4> QED
        BY <2>5, <4>1
    <3>2. Sum(s \ {x}) = f[c] + Sum(r)
      <4>1. s \ {x} \in G
        BY <1>1
      <4>2. (s \ {x}) \ {c} = r
        OBVIOUS
      <4> QED
        BY <2>1, <2>5, <4>1, <4>2
    <3>3. Sum(r) \in Int /\ f[x] \in Int /\ f[c] \in Int
      BY <2>1, <2>2, SumInt
    <3> HIDE DEF Sum, c, r
    <3> QED
      BY <2>3, <3>1, <3>2, <3>3
  <2> QED
    BY <2>4, <2>5
<1>2. S \in G
  <2> HIDE DEF G
  <2> QED
    BY <1>1, StrongInduction
<1> QED
  BY <1>2

\* The sum with one element more.
LEMMA SumAdd ==
  ASSUME NEW f, NEW S, IsFiniteSet(S), NEW y, y \notin S,
         f[y] \in Int, \A x \in S : f[x] \in Int
  PROVE  SumFunctionOnSet(f, S \cup {y}) = SumFunctionOnSet(f, S) + f[y]
<1>1. IsFiniteSet(S \cup {y}) /\ (S \cup {y}) \ {y} = S
  BY FS_AddElement
<1>2. \A x \in S \cup {y} : f[x] \in Int
  OBVIOUS
<1>3. SumFunctionOnSet(f, S \cup {y}) = f[y] + SumFunctionOnSet(f, S)
  <2>1. SumFunctionOnSet(f, S \cup {y}) = f[y] + SumFunctionOnSet(f, (S \cup {y}) \ {y})
    BY <1>1, <1>2, SumRemove
  <2> QED
    BY <1>1, <2>1
<1>4. SumFunctionOnSet(f, S) \in Int
  BY SumInt
<1> QED
  BY <1>3, <1>4

\* A sum depends on the function's values on the set alone.
LEMMA SumSame ==
  ASSUME NEW f, NEW g, NEW S, IsFiniteSet(S), \A x \in S : f[x] = g[x]
  PROVE  SumFunctionOnSet(f, S) = SumFunctionOnSet(g, S)
<1> DEFINE G == {s \in SUBSET S : SumFunctionOnSet(f, s) = SumFunctionOnSet(g, s)}
<1>1. ASSUME NEW s \in SUBSET S, \A t \in SUBSET s : t # s => t \in G
      PROVE  s \in G
  <2>1. CASE s = {}
    BY <2>1, SumEmpty
  <2>2. CASE s # {}
    <3>1. Chosen(s) \in s /\ IsFiniteSet(s)
      BY <2>2, ChosenIn, FS_Subset
    <3>2. s \ {Chosen(s)} \in G
      BY <1>1, <3>1
    <3>3. /\ SumFunctionOnSet(f, s) = f[Chosen(s)] + SumFunctionOnSet(f, s \ {Chosen(s)})
          /\ SumFunctionOnSet(g, s) = g[Chosen(s)] + SumFunctionOnSet(g, s \ {Chosen(s)})
      BY <2>2, <3>1, SumStep
    <3> QED
      BY <3>1, <3>2, <3>3
  <2> QED
    BY <2>1, <2>2
<1>2. S \in G
  <2> HIDE DEF G
  <2> QED
    BY <1>1, StrongInduction
<1> QED
  BY <1>2

\* Zeros sum to zero.
LEMMA SumZero ==
  ASSUME NEW f, NEW S, IsFiniteSet(S), \A x \in S : f[x] = 0
  PROVE  SumFunctionOnSet(f, S) = 0
<1> DEFINE G == {s \in SUBSET S : SumFunctionOnSet(f, s) = 0}
<1>1. {} \in G
  BY SumEmpty
<1>2. ASSUME NEW s \in SUBSET S, NEW x \in s, s \ {x} \in G
      PROVE  s \in G
  <2>1. SumFunctionOnSet(f, s) = f[x] + SumFunctionOnSet(f, s \ {x})
    BY FS_Subset, SumRemove
  <2> QED
    BY <1>2, <2>1
<1>3. S \in G
  <2> HIDE DEF G
  <2> QED
    BY <1>1, <1>2, FiniteInduction
<1> QED
  BY <1>3

\* Sums add up point by point.
LEMMA SumPlus ==
  ASSUME NEW f, NEW g, NEW h, NEW S, IsFiniteSet(S),
         \A x \in S : f[x] \in Int /\ g[x] \in Int /\ h[x] = f[x] + g[x]
  PROVE  SumFunctionOnSet(h, S) = SumFunctionOnSet(f, S) + SumFunctionOnSet(g, S)
<1> DEFINE Sum(k, s) == SumFunctionOnSet(k, s)
           G == {s \in SUBSET S : Sum(h, s) = Sum(f, s) + Sum(g, s)}
<1>1. {} \in G
  BY SumEmpty
<1>2. ASSUME NEW s \in SUBSET S, NEW x \in s, s \ {x} \in G
      PROVE  s \in G
  <2>1. /\ IsFiniteSet(s) /\ IsFiniteSet(s \ {x})
        /\ \A y \in s : f[y] \in Int /\ g[y] \in Int /\ h[y] \in Int
    BY FS_Subset
  <2>2. /\ Sum(f, s) = f[x] + Sum(f, s \ {x})
        /\ Sum(g, s) = g[x] + Sum(g, s \ {x})
        /\ Sum(h, s) = h[x] + Sum(h, s \ {x})
    BY <2>1, SumRemove
  <2>3. Sum(f, s \ {x}) \in Int /\ Sum(g, s \ {x}) \in Int
    BY <2>1, SumInt
  <2>4. Sum(h, s \ {x}) = Sum(f, s \ {x}) + Sum(g, s \ {x})
    BY <1>2
  <2> HIDE DEF Sum
  <2>5. h[x] = f[x] + g[x] /\ f[x] \in Int /\ g[x] \in Int
    OBVIOUS
  <2>6. Sum(h, s) = Sum(f, s) + Sum(g, s)
    BY <2>2, <2>3, <2>4, <2>5
  <2> QED
    BY <2>6
<1>3. S \in G
  <2> HIDE DEF G
  <2> QED
    BY <1>1, <1>2, FiniteInduction
<1> QED
  BY <1>3

\* Sums subtract point by point.
LEMMA SumMinus ==
  ASSUME NEW f, NEW g, NEW h, NEW S, IsFiniteSet(S),
         \A x \in S : f[x] \in Int /\ g[x] \in Int /\ h[x] = f[x] - g[x]
  PROVE  SumFunctionOnSet(h, S) = SumFunctionOnSet(f, S) - SumFunctionOnSet(g, S)
<1>1. \A x \in S : h[x] \in Int /\ g[x] \in Int /\ f[x] = h[x] + g[x]
  OBVIOUS
<1>2. SumFunctionOnSet(f, S) = SumFunctionOnSet(h, S) + SumFunctionOnSet(g, S)
  BY <1>1, SumPlus
<1>3. SumFunctionOnSet(h, S) \in Int /\ SumFunctionOnSet(g, S) \in Int
  BY <1>1, SumInt
<1> QED
  BY <1>2, <1>3

\* A sum of the opposite terms is the opposite.
LEMMA SumNegate ==
  ASSUME NEW f, NEW g, NEW S, IsFiniteSet(S), \A x \in S : f[x] \in Int /\ g[x] = -f[x]
  PROVE  SumFunctionOnSet(g, S) = -SumFunctionOnSet(f, S)
<1> DEFINE zero == [x \in S |-> 0]
<1>1. \A x \in S : zero[x] \in Int /\ f[x] \in Int /\ g[x] = zero[x] - f[x]
  OBVIOUS
<1>2. SumFunctionOnSet(zero, S) = 0
  BY SumZero
<1> HIDE DEF zero
<1>3. SumFunctionOnSet(g, S) = SumFunctionOnSet(zero, S) - SumFunctionOnSet(f, S)
  BY <1>1, SumMinus
<1>4. SumFunctionOnSet(f, S) \in Int
  BY <1>1, SumInt
<1> QED
  BY <1>2, <1>3, <1>4

\* A sum of larger terms is larger.
LEMMA SumLeq ==
  ASSUME NEW f, NEW g, NEW S, IsFiniteSet(S),
         \A x \in S : f[x] \in Int /\ g[x] \in Int /\ f[x] <= g[x]
  PROVE  SumFunctionOnSet(f, S) <= SumFunctionOnSet(g, S)
<1> DEFINE Sum(k, s) == SumFunctionOnSet(k, s)
           G == {s \in SUBSET S : Sum(f, s) <= Sum(g, s)}
<1>1. {} \in G
  BY SumEmpty
<1>2. ASSUME NEW s \in SUBSET S, NEW x \in s, s \ {x} \in G
      PROVE  s \in G
  <2>1. /\ IsFiniteSet(s) /\ IsFiniteSet(s \ {x})
        /\ \A y \in s : f[y] \in Int /\ g[y] \in Int
    BY FS_Subset
  <2>2. /\ Sum(f, s) = f[x] + Sum(f, s \ {x})
        /\ Sum(g, s) = g[x] + Sum(g, s \ {x})
    BY <2>1, SumRemove
  <2>3. Sum(f, s \ {x}) \in Int /\ Sum(g, s \ {x}) \in Int
    BY <2>1, SumInt
  <2>4. Sum(f, s \ {x}) <= Sum(g, s \ {x})
    BY <1>2
  <2> HIDE DEF Sum
  <2>5. f[x] <= g[x] /\ f[x] \in Int /\ g[x] \in Int
    OBVIOUS
  <2>6. Sum(f, s) <= Sum(g, s)
    BY <2>2, <2>3, <2>4, <2>5
  <2> QED
    BY <2>6
<1>3. S \in G
  <2> HIDE DEF G
  <2> QED
    BY <1>1, <1>2, FiniteInduction
<1> QED
  BY <1>3

\* The sum after a change at one point.
LEMMA SumChange ==
  ASSUME NEW f, NEW g, NEW S, IsFiniteSet(S), NEW y \in S, g[y] \in Int,
         \A x \in S : f[x] \in Int, \A x \in S \ {y} : g[x] = f[x]
  PROVE  SumFunctionOnSet(g, S) = SumFunctionOnSet(f, S) + (g[y] - f[y])
<1>1. IsFiniteSet(S \ {y}) /\ (\A x \in S : g[x] \in Int) /\ f[y] \in Int
  BY FS_Subset
<1>2. SumFunctionOnSet(f, S \ {y}) \in Int
  BY <1>1, SumInt
<1>3. SumFunctionOnSet(g, S \ {y}) = SumFunctionOnSet(f, S \ {y})
  BY <1>1, SumSame
<1>4. /\ SumFunctionOnSet(f, S) = f[y] + SumFunctionOnSet(f, S \ {y})
      /\ SumFunctionOnSet(g, S) = g[y] + SumFunctionOnSet(g, S \ {y})
  BY <1>1, SumRemove
<1> QED
  BY <1>1, <1>2, <1>3, <1>4

\* A sum of natural numbers is one, and no less than any of them.
LEMMA SumNat ==
  ASSUME NEW f, NEW S, IsFiniteSet(S), \A x \in S : f[x] \in Nat
  PROVE  /\ SumFunctionOnSet(f, S) \in Nat
         /\ \A y \in S : f[y] <= SumFunctionOnSet(f, S)
<1>1. ASSUME NEW T \in SUBSET S
      PROVE  SumFunctionOnSet(f, T) \in Nat
  <2> DEFINE zero == [x \in T |-> 0]
  <2>1. IsFiniteSet(T)
    BY FS_Subset
  <2>2. SumFunctionOnSet(zero, T) = 0
    BY <2>1, SumZero
  <2>3. \A x \in T : zero[x] \in Int /\ f[x] \in Int /\ zero[x] <= f[x]
    OBVIOUS
  <2> HIDE DEF zero
  <2>4. SumFunctionOnSet(zero, T) <= SumFunctionOnSet(f, T)
    BY <2>1, <2>3, SumLeq
  <2>5. SumFunctionOnSet(f, T) \in Int
    BY <2>1, <2>3, SumInt
  <2> QED
    BY <2>2, <2>4, <2>5
<1>2. ASSUME NEW y \in S
      PROVE  f[y] <= SumFunctionOnSet(f, S)
  <2>1. SumFunctionOnSet(f, S) = f[y] + SumFunctionOnSet(f, S \ {y})
    BY SumRemove
  <2>2. SumFunctionOnSet(f, S \ {y}) \in Nat
    BY <1>1
  <2> QED
    BY <2>1, <2>2
<1> QED
  BY <1>1, <1>2

\* Elements whose value is zero can be left out.
LEMMA SumExtend ==
  ASSUME NEW f, NEW g, NEW S, NEW T \in SUBSET S, IsFiniteSet(S),
         \A x \in T : f[x] \in Int /\ g[x] = f[x], \A x \in S \ T : g[x] = 0
  PROVE  SumFunctionOnSet(g, S) = SumFunctionOnSet(f, T)
<1> DEFINE G == {s \in SUBSET S : SumFunctionOnSet(g, s) = SumFunctionOnSet(g, s \cap T)}
<1>0. \A x \in S : g[x] \in Int
  OBVIOUS
<1>1. {} \in G
  <2>1. {} \cap T = {}
    OBVIOUS
  <2> QED
    BY <2>1
<1>2. ASSUME NEW s \in SUBSET S, NEW x \in s, s \ {x} \in G
      PROVE  s \in G
  <2>1. IsFiniteSet(s) /\ IsFiniteSet(s \cap T) /\ IsFiniteSet((s \ {x}) \cap T)
    BY FS_Subset
  <2>2. SumFunctionOnSet(g, s) = g[x] + SumFunctionOnSet(g, s \ {x})
    BY <1>0, <2>1, SumRemove
  <2>3. SumFunctionOnSet(g, s \ {x}) = SumFunctionOnSet(g, (s \ {x}) \cap T)
    BY <1>2
  <2>4. SumFunctionOnSet(g, (s \ {x}) \cap T) \in Int
    BY <1>0, <2>1, SumInt
  <2>5. CASE x \in T
    <3>1. (s \cap T) \ {x} = (s \ {x}) \cap T
      OBVIOUS
    <3>2. SumFunctionOnSet(g, s \cap T) = g[x] + SumFunctionOnSet(g, (s \cap T) \ {x})
      BY <1>0, <2>1, <2>5, SumRemove
    <3> QED
      BY <2>2, <2>3, <3>1, <3>2
  <2>6. CASE x \notin T
    <3>1. s \cap T = (s \ {x}) \cap T
      BY <2>6
    <3>2. g[x] = 0
      BY <2>6
    <3>3. SumFunctionOnSet(g, s) = SumFunctionOnSet(g, (s \ {x}) \cap T)
      BY <2>2, <2>3, <2>4, <3>2
    <3> QED
      BY <3>1, <3>3
  <2> QED
    BY <2>5, <2>6
<1>3. S \in G
  <2> HIDE DEF G
  <2> QED
    BY <1>1, <1>2, FiniteInduction
<1>4. S \cap T = T /\ IsFiniteSet(T)
  BY FS_Subset
<1>5. SumFunctionOnSet(g, T) = SumFunctionOnSet(f, T)
  BY <1>4, SumSame
<1> QED
  BY <1>3, <1>4, <1>5

\* At most one element counts.
LEMMA SumSingle ==
  ASSUME NEW f, NEW S, IsFiniteSet(S), NEW y \in S, f[y] \in Int,
         \A x \in S \ {y} : f[x] = 0
  PROVE  SumFunctionOnSet(f, S) = f[y]
<1>1. IsFiniteSet(S \ {y}) /\ \A x \in S : f[x] \in Int
  BY FS_Subset
<1>2. SumFunctionOnSet(f, S) = f[y] + SumFunctionOnSet(f, S \ {y})
  BY <1>1, SumRemove
<1>3. SumFunctionOnSet(f, S \ {y}) = 0
  BY <1>1, SumZero
<1> QED
  BY <1>2, <1>3

\* The sum over two sets that have no element in common.
LEMMA SumDisjoint ==
  ASSUME NEW f, NEW S, NEW T, IsFiniteSet(S), IsFiniteSet(T), S \cap T = {},
         \A x \in S \cup T : f[x] \in Int
  PROVE  SumFunctionOnSet(f, S \cup T) = SumFunctionOnSet(f, S) + SumFunctionOnSet(f, T)
<1> DEFINE U == S \cup T
           a == [x \in U |-> IF x \in S THEN f[x] ELSE 0]
           b == [x \in U |-> IF x \in T THEN f[x] ELSE 0]
<1>1. IsFiniteSet(U) /\ S \in SUBSET U /\ T \in SUBSET U
  BY FS_Union
<1>2. /\ \A x \in S : f[x] \in Int /\ a[x] = f[x]
      /\ \A x \in U \ S : a[x] = 0
      /\ \A x \in T : f[x] \in Int /\ b[x] = f[x]
      /\ \A x \in U \ T : b[x] = 0
      /\ \A x \in U : a[x] \in Int /\ b[x] \in Int /\ f[x] = a[x] + b[x]
  OBVIOUS
<1> HIDE DEF U, a, b
<1>3. SumFunctionOnSet(a, U) = SumFunctionOnSet(f, S)
  BY <1>1, <1>2, SumExtend
<1>4. SumFunctionOnSet(b, U) = SumFunctionOnSet(f, T)
  BY <1>1, <1>2, SumExtend
<1>5. SumFunctionOnSet(f, U) = SumFunctionOnSet(a, U) + SumFunctionOnSet(b, U)
  BY <1>1, <1>2, SumPlus
<1> QED
  BY <1>3, <1>4, <1>5 DEF U

\* Rows and columns of a table have the same total.
LEMMA SumSwap ==
  ASSUME NEW F, NEW S, NEW T, IsFiniteSet(S), IsFiniteSet(T),
         \A s \in S, t \in T : F[s][t] \in Int
  PROVE  SumFunctionOnSet([s \in S |-> SumFunctionOnSet(F[s], T)], S)
           = SumFunctionOnSet([t \in T |-> SumFunctionOnSet([s \in S |-> F[s][t]], S)], T)
<1> DEFINE Row == [s \in S |-> SumFunctionOnSet(F[s], T)]
           Column(u) == [t \in T |-> SumFunctionOnSet([s \in S |-> F[s][t]], u)]
           G == {u \in SUBSET S : SumFunctionOnSet(Row, u) = SumFunctionOnSet(Column(u), T)}
<1>1. {} \in G
  <2>1. \A t \in T : Column({})[t] = 0
    BY SumEmpty
  <2>2. SumFunctionOnSet(Column({}), T) = 0
    BY <2>1, SumZero
  <2> QED
    BY <2>2, SumEmpty
<1>2. \A s \in S : Row[s] \in Int
  BY SumInt
<1>3. ASSUME NEW u \in SUBSET S, NEW x \in u, u \ {x} \in G
      PROVE  u \in G
  <2>1. IsFiniteSet(u) /\ IsFiniteSet(u \ {x})
    BY FS_Subset
  <2>2. SumFunctionOnSet(Row, u) = Row[x] + SumFunctionOnSet(Row, u \ {x})
    <3> HIDE DEF Row
    <3> QED
      BY <1>2, <2>1, SumRemove
  <2>3. ASSUME NEW t \in T
        PROVE  /\ Column(u \ {x})[t] \in Int
               /\ F[x][t] \in Int
               /\ Column(u)[t] = F[x][t] + Column(u \ {x})[t]
    <3> DEFINE k == [s \in S |-> F[s][t]]
    <3>1. \A s \in S : k[s] \in Int
      OBVIOUS
    <3>2. k[x] = F[x][t]
      OBVIOUS
    <3> HIDE DEF k
    <3>3. SumFunctionOnSet(k, u) = k[x] + SumFunctionOnSet(k, u \ {x})
      BY <2>1, <3>1, SumRemove
    <3>4. SumFunctionOnSet(k, u \ {x}) \in Int
      BY <2>1, <3>1, SumInt
    <3> QED
      BY <3>2, <3>3, <3>4 DEF k
  <2>4. SumFunctionOnSet(Column(u), T)
          = SumFunctionOnSet(F[x], T) + SumFunctionOnSet(Column(u \ {x}), T)
    <3> DEFINE before == Column(u \ {x})
               after == Column(u)
    <3>1. \A t \in T : F[x][t] \in Int /\ before[t] \in Int /\ after[t] = F[x][t] + before[t]
      BY <2>3
    <3> HIDE DEF before, after
    <3>2. SumFunctionOnSet(after, T) = SumFunctionOnSet(F[x], T) + SumFunctionOnSet(before, T)
      BY <3>1, SumPlus
    <3> QED
      BY <3>2 DEF before, after
  <2> QED
    BY <1>3, <2>2, <2>4
<1>4. S \in G
  <2> HIDE DEF G
  <2> QED
    BY <1>1, <1>3, FiniteInduction
<1> QED
  BY <1>4

\* A sum of multiples is the multiple of the sum.
LEMMA SumScale ==
  ASSUME NEW f, NEW g, NEW S, IsFiniteSet(S), NEW c \in Int,
         \A x \in S : f[x] \in Int /\ g[x] = c * f[x]
  PROVE  SumFunctionOnSet(g, S) = c * SumFunctionOnSet(f, S)
<1> DEFINE Sum(k, s) == SumFunctionOnSet(k, s)
           G == {s \in SUBSET S : Sum(g, s) = c * Sum(f, s)}
<1>1. {} \in G
  <2>1. c * 0 = 0
    OBVIOUS
  <2> QED
    BY <2>1, SumEmpty
<1>2. ASSUME NEW s \in SUBSET S, NEW x \in s, s \ {x} \in G
      PROVE  s \in G
  <2>1. /\ IsFiniteSet(s) /\ IsFiniteSet(s \ {x})
        /\ \A y \in s : f[y] \in Int /\ g[y] \in Int
    BY FS_Subset
  <2>2. Sum(f, s \ {x}) \in Int
    BY <2>1, SumInt
  <2>3. Sum(f, s) = f[x] + Sum(f, s \ {x})
    BY <2>1, SumRemove
  <2>4. Sum(g, s) = g[x] + Sum(g, s \ {x})
    BY <2>1, SumRemove
  <2>5. g[x] = c * f[x] /\ f[x] \in Int /\ Sum(g, s \ {x}) = c * Sum(f, s \ {x})
    BY <1>2
  <2>6. \A a, b \in Int : c * a + c * b = c * (a + b)
    OBVIOUS
  <2> HIDE DEF Sum
  <2>7. Sum(g, s) = c * Sum(f, s)
    BY <2>2, <2>3, <2>4, <2>5, <2>6
  <2> QED
    BY <2>7
<1>3. S \in G
  <2> HIDE DEF G
  <2> QED
    BY <1>1, <1>2, FiniteInduction
<1> QED
  BY <1>3

\* A sum of one number is that number times the size of the set.
LEMMA SumConstant ==
  ASSUME NEW f, NEW S, IsFiniteSet(S), NEW c \in Int, \A x \in S : f[x] = c
  PROVE  SumFunctionOnSet(f, S) = c * Cardinality(S)
<1> DEFINE Sum(s) == SumFunctionOnSet(f, s)
           G == {s \in SUBSET S : Sum(s) = c * Cardinality(s)}
<1>1. {} \in G
  <2>1. c * 0 = 0
    OBVIOUS
  <2> QED
    BY <2>1, SumEmpty, FS_EmptySet
<1>2. ASSUME NEW s \in SUBSET S, NEW x \in s, s \ {x} \in G
      PROVE  s \in G
  <2>1. IsFiniteSet(s) /\ \A y \in s : f[y] \in Int
    BY FS_Subset
  <2>2. Sum(s) = f[x] + Sum(s \ {x})
    BY <2>1, SumRemove
  <2>3. /\ Cardinality(s) \in Nat /\ Cardinality(s \ {x}) \in Nat
        /\ Cardinality(s \ {x}) = Cardinality(s) - 1
    BY <2>1, FS_RemoveElement, FS_CardinalityType
  <2>4. f[x] = c /\ Sum(s \ {x}) = c * Cardinality(s \ {x})
    BY <1>2
  <2>5. \A n \in Nat : c + c * n = c * (n + 1)
    OBVIOUS
  <2> HIDE DEF Sum
  <2>6. c + c * Cardinality(s \ {x}) = c * Cardinality(s)
    BY <2>3, <2>5
  <2>7. Sum(s) = c * Cardinality(s)
    BY <2>2, <2>4, <2>6
  <2> QED
    BY <2>7
<1>3. S \in G
  <2> HIDE DEF G
  <2> QED
    BY <1>1, <1>2, FiniteInduction
<1> QED
  BY <1>3
================================================================================
