------------------------------ MODULE FoldFacts ------------------------------
(***************************************************************************)
(* Facts about sums over finite sets, as the models take them with         *)
(* SumFunction and FoldFunctionOnSet: the bank's supply is the sum of its  *)
(* balances, a release is the sum of its outputs, a block's spending the   *)
(* sum of what its transactions spent; and the recursion behind FoldLeft,  *)
(* with which a block's transactions are executed one after the other.     *)
(*                                                                         *)
(* The provers cannot use an induction theorem that is stated for every    *)
(* operator P(_).  Induction is therefore stated here for sets: a set of   *)
(* naturals, or of subsets, that is closed under the induction step has    *)
(* all of them.                                                            *)
(***************************************************************************)
EXTENDS Integers, FiniteSets, FiniteSetsExt, Functions, FiniteSetTheorems,
        WellFoundedInduction, TLAPS

\* Every set of naturals that is not empty has a least element.
LEMMA LeastNat ==
  ASSUME NEW T, T \subseteq Nat, T # {}
  PROVE  \E x \in T : \A y \in T : x <= y
<1>0. PICK n \in T : TRUE
  OBVIOUS
<1> DEFINE S == 0..n
           Below(x) == 0..(x - 1)
           U == {Below(x) : x \in {t \in T : t <= n}}
<1>1. IsFiniteSet(S)
  BY FS_Interval
<1>2. IsWellFoundedOn(StrictSubsetOrdering(S), FiniteSubsetsOf(S))
  BY <1>1, FS_StrictSubsetOrderingWellFounded
<1>3. U \subseteq FiniteSubsetsOf(S)
  BY <1>1, FS_Subset DEF FiniteSubsetsOf
<1>4. U # {}
  OBVIOUS
<1>5. PICK u \in U : \A v \in U : ~ (<<v, u>> \in StrictSubsetOrdering(S))
  <2> HIDE DEF U, S
  <2> QED BY <1>2, <1>3, <1>4, WFMin
<1>6. PICK x \in T : x <= n /\ u = Below(x)
  OBVIOUS
<1>7. ASSUME NEW y \in T, y < x PROVE FALSE
  <2>1. Below(y) \in U
    BY <1>6, <1>7
  <2>2. Below(y) \subseteq Below(x) /\ Below(y) # Below(x)
    <3>1. y \in Below(x) /\ y \notin Below(y)
      BY <1>7
    <3>2. Below(y) \subseteq Below(x)
      BY <1>7
    <3> QED BY <3>1, <3>2
  <2>3. Below(y) \in SUBSET S /\ u \in SUBSET S
    BY <1>6, <1>7
  <2>4. <<Below(y), u>> \in StrictSubsetOrdering(S)
    <3> HIDE DEF Below, S
    <3> QED BY <1>6, <2>2, <2>3, Zenon DEF StrictSubsetOrdering
  <2> QED BY <1>5, <2>1, <2>4
<1> QED BY <1>6, <1>7

\* Induction over the naturals, for a set instead of a predicate.
LEMMA NatSetInduction ==
  ASSUME NEW S, 0 \in S, \A n \in Nat : n \in S => n + 1 \in S
  PROVE  Nat \subseteq S
<1> SUFFICES ASSUME Nat \ S # {} PROVE FALSE
  OBVIOUS
<1>1. PICK x \in Nat \ S : \A y \in Nat \ S : x <= y
  BY LeastNat
<1>2. x # 0 /\ x - 1 \in Nat
  BY <1>1
<1> QED BY <1>1, <1>2

\* Induction over the subsets of a finite set: what holds for a set when it
\* holds for its strict subsets holds for all of them.
LEMMA SubsetInduction ==
  ASSUME NEW D, IsFiniteSet(D), NEW P,
         \A s \in SUBSET D : (\A x \in s : s \ {x} \in P) => s \in P
  PROVE  SUBSET D \subseteq P
<1> DEFINE K == {k \in Nat : \A s \in SUBSET D : Cardinality(s) = k => s \in P}
<1>1. \A s \in SUBSET D : IsFiniteSet(s) /\ Cardinality(s) \in Nat
  BY FS_Subset, FS_CardinalityType
<1>2. 0 \in K
  <2>1. ASSUME NEW s \in SUBSET D, Cardinality(s) = 0 PROVE s \in P
    <3>1. s = {}
      BY <1>1, <2>1, FS_EmptySet
    <3> QED BY <3>1
  <2> QED BY <2>1
<1>3. ASSUME NEW k \in Nat, k \in K PROVE k + 1 \in K
  <2>1. ASSUME NEW s \in SUBSET D, Cardinality(s) = k + 1 PROVE s \in P
    <3>1. ASSUME NEW x \in s PROVE s \ {x} \in P
      <4>1. Cardinality(s \ {x}) = Cardinality(s) - 1
        BY <1>1, FS_RemoveElement
      <4>2. Cardinality(s \ {x}) = k
        BY <2>1, <4>1
      <4>3. s \ {x} \in SUBSET D
        OBVIOUS
      <4> QED BY <1>3, <4>2, <4>3
    <3> QED BY <3>1
  <2> QED BY <2>1
<1>4. Nat \subseteq K
  <2> HIDE DEF K
  <2> QED BY <1>2, <1>3, NatSetInduction
<1> QED BY <1>1, <1>4

-----------------------------------------------------------------------------
\* A finite set of summands.
Summable(f, S) == IsFiniteSet(S) /\ \A x \in S : f[x] \in Int

\* The function FoldFunctionOnSet(+, ...) is defined by: one step of its
\* recursion, and the function of the subsets of D that solves it.
SumStep(d, base, g, s) ==
  IF s = {} THEN base ELSE LET x == CHOOSE x \in s : TRUE IN d[x] + g[s \ {x}]
PartialSums(d, base, D) ==
  CHOOSE it : it = [s \in SUBSET D |->
    IF s = {} THEN base ELSE LET x == CHOOSE x \in s : TRUE IN d[x] + it[s \ {x}]]

\* The recursion of the fold has a solution: the sum of every subset is an
\* integer and is made of one summand and the sum of the rest.
LEMMA PartialDefined ==
  ASSUME NEW D, IsFiniteSet(D), NEW d, \A x \in D : d[x] \in Int, NEW base \in Int
  PROVE  /\ PartialSums(d, base, D) \in [SUBSET D -> Int]
         /\ \A s \in SUBSET D :
              PartialSums(d, base, D)[s] = SumStep(d, base, PartialSums(d, base, D), s)
<1> DEFINE Small(k) == {s \in SUBSET D : Cardinality(s) <= k}
           Sums(k, g) == /\ g \in [Small(k) -> Int]
                         /\ \A s \in Small(k) : g[s] = SumStep(d, base, g, s)
           K == {k \in Nat : \E g : Sums(k, g)}
<1>1. \A s \in SUBSET D : IsFiniteSet(s) /\ Cardinality(s) \in Nat
  BY FS_Subset, FS_CardinalityType
<1>2. ASSUME NEW s \in SUBSET D, s # {}
      PROVE  LET x == CHOOSE x \in s : TRUE
             IN  x \in s /\ s \ {x} \in SUBSET D /\ Cardinality(s \ {x}) = Cardinality(s) - 1
  BY <1>1, <1>2, FS_RemoveElement
<1>3. 0 \in K
  <2>1. \A s \in Small(0) : s = {}
    BY <1>1, FS_EmptySet
  <2>2. Sums(0, [s \in Small(0) |-> base])
    BY <2>1 DEF SumStep
  <2> QED BY <2>2
<1>4. ASSUME NEW k \in Nat, k \in K PROVE k + 1 \in K
  <2>1. PICK g : Sums(k, g)
    BY <1>4
  <2> DEFINE h == [s \in Small(k + 1) |-> SumStep(d, base, g, s)]
  <2>2. ASSUME NEW s \in Small(k + 1) PROVE SumStep(d, base, g, s) \in Int
    <3>1. CASE s = {}
      BY <3>1 DEF SumStep
    <3>2. CASE s # {}
      <4> DEFINE x == CHOOSE x \in s : TRUE
      <4>1. x \in s /\ s \ {x} \in Small(k)
        BY <1>1, <1>2, <3>2
      <4>2. d[x] \in Int /\ g[s \ {x}] \in Int
        BY <2>1, <4>1
      <4>3. SumStep(d, base, g, s) = d[x] + g[s \ {x}]
        BY <3>2 DEF SumStep
      <4> QED BY <4>2, <4>3
    <3> QED BY <3>1, <3>2
  <2>3. ASSUME NEW s \in Small(k + 1) PROVE SumStep(d, base, h, s) = SumStep(d, base, g, s)
    <3>1. CASE s = {}
      BY <3>1 DEF SumStep
    <3>2. CASE s # {}
      <4> DEFINE x == CHOOSE x \in s : TRUE
                 r == s \ {x}
      <4>1. x \in s /\ r \in Small(k) /\ r \in Small(k + 1)
        BY <1>1, <1>2, <3>2
      <4>2. h[r] = SumStep(d, base, g, r)
        BY <4>1
      <4>3. g[r] = SumStep(d, base, g, r)
        BY <2>1, <4>1
      <4>4. SumStep(d, base, g, s) = d[x] + g[r] /\ SumStep(d, base, h, s) = d[x] + h[r]
        BY <3>2, Zenon DEF SumStep
      <4> QED BY <4>2, <4>3, <4>4
    <3> QED BY <3>1, <3>2
  <2>4. Sums(k + 1, h)
    BY <2>2, <2>3
  <2> HIDE DEF Sums, h
  <2> QED BY <2>4
<1>5. Nat \subseteq K
  <2> HIDE DEF K
  <2> QED BY <1>3, <1>4, NatSetInduction
<1>6. Cardinality(D) \in K
  BY <1>5, FS_CardinalityType
<1>7. PICK g : Sums(Cardinality(D), g)
  BY <1>6
<1>8. Small(Cardinality(D)) = SUBSET D
  BY FS_Subset
<1> DEFINE Fix(it) == it = [s \in SUBSET D |->
             IF s = {} THEN base ELSE LET x == CHOOSE x \in s : TRUE IN d[x] + it[s \ {x}]]
<1>9. g = [s \in SUBSET D |-> g[s]] /\ \A s \in SUBSET D : g[s] = SumStep(d, base, g, s)
  BY <1>7, <1>8
<1>10. Fix(g)
  BY <1>9, Zenon DEF SumStep
<1>11. PartialSums(d, base, D) = CHOOSE it : Fix(it)
  BY DEF PartialSums
<1>12. Fix(PartialSums(d, base, D))
  <2> HIDE DEF Fix
  <2> QED BY <1>10, <1>11
<1> DEFINE p == PartialSums(d, base, D)
<1>13. \A s \in SUBSET D : p[s] = SumStep(d, base, p, s)
  BY <1>12, Zenon DEF SumStep
<1>14. p = [s \in SUBSET D |-> p[s]]
  BY <1>12
<1> DEFINE P == {s \in SUBSET D : p[s] \in Int}
<1>15. ASSUME NEW s \in SUBSET D, \A x \in s : s \ {x} \in P PROVE s \in P
  <2> HIDE DEF p
  <2>1. p[s] = SumStep(d, base, p, s)
    BY <1>13
  <2>2. CASE s = {}
    BY <2>1, <2>2 DEF SumStep
  <2>3. CASE s # {}
    <3> DEFINE x == CHOOSE x \in s : TRUE
    <3>1. x \in s /\ d[x] \in Int /\ p[s \ {x}] \in Int
      BY <1>15, <2>3
    <3>2. p[s] = d[x] + p[s \ {x}]
      BY <2>1, <2>3 DEF SumStep
    <3> QED BY <3>1, <3>2
  <2> QED BY <2>2, <2>3
<1>16. SUBSET D \subseteq P
  <2> HIDE DEF P
  <2> QED BY <1>15, SubsetInduction
<1> QED BY <1>13, <1>14, <1>16

\* Sums over the subsets of D do not depend on D.
LEMMA PartialSame ==
  ASSUME NEW D, IsFiniteSet(D), NEW d, \A x \in D : d[x] \in Int, NEW base \in Int,
         NEW T \in SUBSET D
  PROVE  PartialSums(d, base, T)[T] = PartialSums(d, base, D)[T]
<1> DEFINE p == PartialSums(d, base, D)
           q == PartialSums(d, base, T)
           P == {s \in SUBSET T : q[s] = p[s]}
<1>1. IsFiniteSet(T)
  BY FS_Subset
<1>2. /\ \A s \in SUBSET D : p[s] = SumStep(d, base, p, s)
      /\ \A s \in SUBSET T : q[s] = SumStep(d, base, q, s)
  BY <1>1, PartialDefined
<1> HIDE DEF p, q
<1>3. ASSUME NEW s \in SUBSET T, \A x \in s : s \ {x} \in P PROVE s \in P
  <2>1. p[s] = SumStep(d, base, p, s) /\ q[s] = SumStep(d, base, q, s)
    BY <1>2
  <2>2. CASE s = {}
    BY <2>1, <2>2 DEF SumStep
  <2>3. CASE s # {}
    <3> DEFINE x == CHOOSE x \in s : TRUE
    <3>1. x \in s
      BY <2>3
    <3>2. q[s \ {x}] = p[s \ {x}]
      BY <1>3, <3>1
    <3>3. p[s] = d[x] + p[s \ {x}] /\ q[s] = d[x] + q[s \ {x}]
      BY <2>1, <2>3 DEF SumStep
    <3> QED BY <3>2, <3>3
  <2> QED BY <2>2, <2>3
<1>4. SUBSET T \subseteq P
  <2> HIDE DEF P
  <2> QED BY <1>1, <1>3, SubsetInduction
<1> QED BY <1>4 DEF p, q

\* A sum may be taken in any order.
LEMMA PartialRemove ==
  ASSUME NEW D, NEW d, Summable(d, D), NEW base \in Int, NEW a \in D
  PROVE  PartialSums(d, base, D)[D] = d[a] + PartialSums(d, base, D)[D \ {a}]
<1> DEFINE p == PartialSums(d, base, D)
           P == {s \in SUBSET D : \A x \in s : p[s] = d[x] + p[s \ {x}]}
<1> USE DEF Summable
<1>1. p \in [SUBSET D -> Int] /\ \A s \in SUBSET D : p[s] = SumStep(d, base, p, s)
  BY PartialDefined
<1> HIDE DEF p
<1>2. ASSUME NEW s \in SUBSET D, \A x \in s : s \ {x} \in P PROVE s \in P
  <2> SUFFICES ASSUME NEW x \in s PROVE p[s] = d[x] + p[s \ {x}]
    OBVIOUS
  <2> DEFINE c == CHOOSE c \in s : TRUE
  <2>1. c \in s
    OBVIOUS
  <2>2. p[s] = d[c] + p[s \ {c}]
    BY <1>1 DEF SumStep
  <2> HIDE DEF c
  <2>3. CASE c # x
    <3>1. x \in s \ {c} /\ c \in s \ {x}
      BY <2>1, <2>3
    <3>2. s \ {c} \in P /\ s \ {x} \in P
      BY <1>2, <2>1
    <3>3. p[s \ {c}] = d[x] + p[(s \ {c}) \ {x}]
      BY <3>1, <3>2
    <3>4. p[s \ {x}] = d[c] + p[(s \ {x}) \ {c}]
      BY <3>1, <3>2
    <3>5. (s \ {c}) \ {x} = (s \ {x}) \ {c} /\ (s \ {x}) \ {c} \in SUBSET D
      OBVIOUS
    <3>6. d[x] \in Int /\ d[c] \in Int /\ p[(s \ {x}) \ {c}] \in Int
      BY <1>1, <2>1, <3>5
    <3>7. \A i, j, k \in Int : i + (j + k) = j + (i + k)
      OBVIOUS
    <3>8. d[c] + (d[x] + p[(s \ {x}) \ {c}]) = d[x] + (d[c] + p[(s \ {x}) \ {c}])
      BY <3>6, <3>7, Zenon
    <3> QED BY <2>2, <3>3, <3>4, <3>5, <3>8, Zenon
  <2> QED BY <2>2, <2>3
<1>3. SUBSET D \subseteq P
  <2> HIDE DEF P
  <2> QED BY <1>2, SubsetInduction
<1> QED BY <1>3 DEF p

-----------------------------------------------------------------------------
SumFrom(base, d, S) == FoldFunctionOnSet(+, base, d, S)

\* A sum over a finite set: its type, its value on the empty set, and any
\* element taken out of it.
LEMMA SumFacts ==
  ASSUME NEW S, NEW f, Summable(f, S), NEW base \in Int
  PROVE  /\ SumFrom(base, f, S) \in Int
         /\ S = {} => SumFrom(base, f, S) = base
         /\ \A x \in S : SumFrom(base, f, S) = f[x] + SumFrom(base, f, S \ {x})
<1> USE DEF Summable
<1>1. \A T \in SUBSET S : SumFrom(base, f, T) = PartialSums(f, base, S)[T]
  <2> TAKE T \in SUBSET S
  <2>1. SumFrom(base, f, T) = PartialSums(f, base, T)[T]
    BY DEF SumFrom, FoldFunctionOnSet, MapThenFoldSet, PartialSums
  <2>2. PartialSums(f, base, T)[T] = PartialSums(f, base, S)[T]
    BY PartialSame
  <2> QED BY <2>1, <2>2
<1>2. /\ PartialSums(f, base, S) \in [SUBSET S -> Int]
      /\ \A s \in SUBSET S :
           PartialSums(f, base, S)[s] = SumStep(f, base, PartialSums(f, base, S), s)
  BY PartialDefined
<1>3. SumFrom(base, f, S) \in Int
  BY <1>1, <1>2
<1>4. S = {} => SumFrom(base, f, S) = base
  BY <1>1, <1>2 DEF SumStep
<1>5. ASSUME NEW x \in S PROVE SumFrom(base, f, S) = f[x] + SumFrom(base, f, S \ {x})
  <2>1. PartialSums(f, base, S)[S] = f[x] + PartialSums(f, base, S)[S \ {x}]
    <3> HIDE DEF Summable
    <3> QED BY PartialRemove
  <2> QED BY <1>1, <2>1
<1> QED BY <1>3, <1>4, <1>5

\* A sum of integers is an integer.
LEMMA SumType ==
  ASSUME NEW S, NEW f, Summable(f, S), NEW base \in Int
  PROVE  SumFrom(base, f, S) \in Int
BY SumFacts

\* A sum over nothing is what it starts from.
LEMMA SumEmpty ==
  ASSUME NEW f, NEW base \in Int
  PROVE  SumFrom(base, f, {}) = base
<1>1. Summable(f, {})
  BY FS_EmptySet DEF Summable
<1> QED BY <1>1, SumFacts

\* Any one summand can be taken out of a sum.
LEMMA SumRemove ==
  ASSUME NEW S, NEW f, Summable(f, S), NEW base \in Int, NEW x \in S
  PROVE  SumFrom(base, f, S) = f[x] + SumFrom(base, f, S \ {x})
BY SumFacts

\* What can be summed over a set can be summed over its subsets.
LEMMA SummableSubset ==
  ASSUME NEW S, NEW f, Summable(f, S), NEW T \in SUBSET S
  PROVE  Summable(f, T)
BY FS_Subset DEF Summable

\* To show something of a sum: show it of the empty sum and of any sum from
\* what it says of the sum without one element.
LEMMA RemovalInduction ==
  ASSUME NEW S, IsFiniteSet(S), NEW P, {} \in P,
         \A s \in SUBSET S : \A x \in s : s \ {x} \in P => s \in P
  PROVE  S \in P
<1>1. ASSUME NEW s \in SUBSET S, \A x \in s : s \ {x} \in P PROVE s \in P
  <2>1. CASE s = {}
    BY <2>1
  <2>2. CASE s # {}
    BY <1>1, <2>2
  <2> QED BY <2>1, <2>2
<1>2. SUBSET S \subseteq P
  BY <1>1, SubsetInduction
<1> QED BY <1>2

\* A sum only depends on the summands.
LEMMA SumAgree ==
  ASSUME NEW S, NEW f, Summable(f, S), NEW base \in Int, NEW g, \A x \in S : g[x] = f[x]
  PROVE  SumFrom(base, g, S) = SumFrom(base, f, S)
<1> DEFINE P == {s \in SUBSET S : SumFrom(base, g, s) = SumFrom(base, f, s)}
<1>1. Summable(g, S) /\ IsFiniteSet(S)
  BY DEF Summable
<1>2. {} \in P
  BY SumEmpty
<1>3. ASSUME NEW s \in SUBSET S, NEW x \in s, s \ {x} \in P PROVE s \in P
  <2>1. Summable(f, s) /\ Summable(g, s)
    BY <1>1, SummableSubset
  <2>2. SumFrom(base, f, s) = f[x] + SumFrom(base, f, s \ {x})
    BY <2>1, SumRemove
  <2>3. SumFrom(base, g, s) = g[x] + SumFrom(base, g, s \ {x})
    BY <2>1, SumRemove
  <2> QED BY <1>3, <2>2, <2>3
<1>4. S \in P
  <2> HIDE DEF P
  <2> QED BY <1>1, <1>2, <1>3, RemovalInduction
<1> QED BY <1>4

\* Changing one summand changes the sum by as much.
LEMMA SumUpdate ==
  ASSUME NEW S, NEW f, Summable(f, S), NEW base \in Int,
         NEW a \in S, NEW g, g[a] \in Int, \A x \in S \ {a} : g[x] = f[x]
  PROVE  SumFrom(base, g, S) = SumFrom(base, f, S) + (g[a] - f[a])
<1> DEFINE r == S \ {a}
<1>1. Summable(f, r)
  BY SummableSubset
<1>2. Summable(g, S) /\ f[a] \in Int
  BY DEF Summable
<1>3. SumFrom(base, g, r) = SumFrom(base, f, r)
  <2>1. \A x \in r : g[x] = f[x]
    OBVIOUS
  <2> HIDE DEF r
  <2> QED BY <1>1, <2>1, SumAgree
<1>4. SumFrom(base, f, S) = f[a] + SumFrom(base, f, r)
  BY SumRemove
<1>5. SumFrom(base, g, S) = g[a] + SumFrom(base, g, r)
  BY <1>2, SumRemove
<1>6. SumFrom(base, f, r) \in Int
  BY <1>1, SumType
<1> HIDE DEF r
<1> QED BY <1>2, <1>3, <1>4, <1>5, <1>6

\* The sum of naturals is one.
LEMMA SumNat ==
  ASSUME NEW S, IsFiniteSet(S), NEW f, \A x \in S : f[x] \in Nat, NEW base \in Nat
  PROVE  SumFrom(base, f, S) \in Nat
<1> DEFINE P == {s \in SUBSET S : SumFrom(base, f, s) \in Nat}
<1>1. Summable(f, S)
  BY DEF Summable
<1>2. {} \in P
  BY SumEmpty
<1>3. ASSUME NEW s \in SUBSET S, NEW x \in s, s \ {x} \in P PROVE s \in P
  <2>1. Summable(f, s)
    BY <1>1, SummableSubset
  <2>2. SumFrom(base, f, s) = f[x] + SumFrom(base, f, s \ {x})
    BY <2>1, SumRemove
  <2> QED BY <1>3, <2>2
<1>4. S \in P
  <2> HIDE DEF P
  <2> QED BY <1>2, <1>3, RemovalInduction
<1> QED BY <1>4

\* Sums add up.
LEMMA SumAdd ==
  ASSUME NEW S, NEW f, Summable(f, S), NEW g, Summable(g, S),
         NEW h, \A x \in S : h[x] = f[x] + g[x]
  PROVE  SumFrom(0, h, S) = SumFrom(0, f, S) + SumFrom(0, g, S)
<1> DEFINE P == {s \in SUBSET S : SumFrom(0, h, s) = SumFrom(0, f, s) + SumFrom(0, g, s)}
<1>1. Summable(h, S) /\ IsFiniteSet(S)
  BY DEF Summable
<1>2. {} \in P
  <2>1. SumFrom(0, f, {}) = 0 /\ SumFrom(0, g, {}) = 0 /\ SumFrom(0, h, {}) = 0
    BY SumEmpty
  <2> QED BY <2>1
<1>3. ASSUME NEW s \in SUBSET S, NEW x \in s, s \ {x} \in P PROVE s \in P
  <2> DEFINE r == s \ {x}
  <2>1. Summable(f, s) /\ Summable(g, s) /\ Summable(h, s)
    BY <1>1, SummableSubset
  <2>2. SumFrom(0, f, s) = f[x] + SumFrom(0, f, r)
    BY <2>1, SumRemove
  <2>3. SumFrom(0, g, s) = g[x] + SumFrom(0, g, r)
    BY <2>1, SumRemove
  <2>4. SumFrom(0, h, s) = h[x] + SumFrom(0, h, r)
    BY <2>1, SumRemove
  <2>5. Summable(f, r) /\ Summable(g, r)
    BY <2>1, SummableSubset
  <2>6. SumFrom(0, f, r) \in Int /\ SumFrom(0, g, r) \in Int
    BY <2>5, SumType
  <2>7. SumFrom(0, h, r) = SumFrom(0, f, r) + SumFrom(0, g, r)
    BY <1>3
  <2>8. f[x] \in Int /\ g[x] \in Int /\ h[x] = f[x] + g[x]
    BY DEF Summable
  <2> HIDE DEF r
  <2>9. SumFrom(0, h, s) = SumFrom(0, f, s) + SumFrom(0, g, s)
    BY <2>2, <2>3, <2>4, <2>6, <2>7, <2>8
  <2> QED BY <2>9
<1>4. S \in P
  <2> HIDE DEF P
  <2> QED BY <1>1, <1>2, <1>3, RemovalInduction
<1> QED BY <1>4

\* Zero summands may be left out.
LEMMA SumSupport ==
  ASSUME NEW S, NEW f, Summable(f, S), NEW T \in SUBSET S, \A x \in S \ T : f[x] = 0
  PROVE  SumFrom(0, f, S) = SumFrom(0, f, T)
<1> DEFINE P == {s \in SUBSET S : SumFrom(0, f, s) = SumFrom(0, f, s \cap T)}
<1>1. IsFiniteSet(S)
  BY DEF Summable
<1>2. {} \in P
  <2>1. {} \cap T = {}
    OBVIOUS
  <2> QED BY <2>1
<1>3. ASSUME NEW s \in SUBSET S, NEW x \in s, s \ {x} \in P PROVE s \in P
  <2> DEFINE r == s \ {x}
  <2>1. Summable(f, s) /\ Summable(f, r) /\ Summable(f, s \cap T)
    BY SummableSubset
  <2>2. SumFrom(0, f, s) = f[x] + SumFrom(0, f, r)
    BY <2>1, SumRemove
  <2>3. SumFrom(0, f, r) = SumFrom(0, f, r \cap T) /\ SumFrom(0, f, r) \in Int
    BY <1>3, <2>1, SumType
  <2>4. CASE x \in T
    <3>1. SumFrom(0, f, s \cap T) = f[x] + SumFrom(0, f, (s \cap T) \ {x})
      BY <2>1, <2>4, SumRemove
    <3>2. (s \cap T) \ {x} = r \cap T
      OBVIOUS
    <3>3. SumFrom(0, f, s) = SumFrom(0, f, s \cap T)
      BY <2>2, <2>3, <3>1, <3>2
    <3> QED BY <3>3
  <2>5. CASE x \notin T
    <3>1. r \cap T = s \cap T /\ f[x] = 0
      BY <2>5
    <3> HIDE DEF r
    <3>2. SumFrom(0, f, s) = SumFrom(0, f, s \cap T)
      BY <2>2, <2>3, <3>1
    <3> QED BY <3>2
  <2> QED BY <2>4, <2>5
<1>4. S \in P
  <2> HIDE DEF P
  <2> QED BY <1>1, <1>2, <1>3, RemovalInduction
<1>5. S \cap T = T
  OBVIOUS
<1> QED BY <1>4, <1>5

\* Summands times m sum to m times as much.
LEMMA SumScale ==
  ASSUME NEW S, NEW f, Summable(f, S), NEW m \in Int, NEW g, \A x \in S : g[x] = f[x] * m
  PROVE  SumFrom(0, g, S) = SumFrom(0, f, S) * m
<1> DEFINE P == {s \in SUBSET S : SumFrom(0, g, s) = SumFrom(0, f, s) * m}
<1>0. \A i, j \in Int : (i + j) * m = i * m + j * m /\ i * m \in Int
  OBVIOUS
<1>1. Summable(g, S) /\ IsFiniteSet(S)
  BY <1>0 DEF Summable
<1>2. {} \in P
  <2>1. SumFrom(0, f, {}) = 0 /\ SumFrom(0, g, {}) = 0
    BY SumEmpty
  <2> QED BY <2>1
<1>3. ASSUME NEW s \in SUBSET S, NEW x \in s, s \ {x} \in P PROVE s \in P
  <2> DEFINE r == s \ {x}
  <2>1. Summable(f, s) /\ Summable(g, s) /\ Summable(f, r)
    BY <1>1, SummableSubset
  <2>2. SumFrom(0, f, s) = f[x] + SumFrom(0, f, r)
    BY <2>1, SumRemove
  <2>3. SumFrom(0, g, s) = g[x] + SumFrom(0, g, r)
    BY <2>1, SumRemove
  <2>4. SumFrom(0, g, r) = SumFrom(0, f, r) * m /\ SumFrom(0, f, r) \in Int
    BY <1>3, <2>1, SumType
  <2>5. f[x] \in Int /\ g[x] = f[x] * m
    BY DEF Summable
  <2> HIDE DEF r
  <2>6. (f[x] + SumFrom(0, f, r)) * m = f[x] * m + SumFrom(0, f, r) * m
    BY <1>0, <2>4, <2>5
  <2>7. SumFrom(0, g, s) = SumFrom(0, f, s) * m
    BY <2>2, <2>3, <2>4, <2>5, <2>6, Zenon
  <2> QED BY <2>7
<1>4. S \in P
  <2> HIDE DEF P
  <2> QED BY <1>1, <1>2, <1>3, RemovalInduction
<1> QED BY <1>4

\* Summands that exceed others by at most c each, and only on E, sum to at
\* most c times the size of E more.
LEMMA SumSlack ==
  ASSUME NEW S, NEW f, Summable(f, S), NEW g, Summable(g, S), NEW c \in Nat,
         NEW E \in SUBSET S, \A x \in S : g[x] <= f[x] + (IF x \in E THEN c ELSE 0)
  PROVE  SumFrom(0, g, S) <= SumFrom(0, f, S) + c * Cardinality(E)
<1> DEFINE P == {s \in SUBSET S :
                  SumFrom(0, g, s) <= SumFrom(0, f, s) + c * Cardinality(s \cap E)}
<1>0. \A k \in Nat : c * k \in Nat /\ c * (k + 1) = c * k + c
  OBVIOUS
<1>1. IsFiniteSet(S)
  BY DEF Summable
<1>2. \A s \in SUBSET S : IsFiniteSet(s \cap E) /\ Cardinality(s \cap E) \in Nat
  BY <1>1, FS_Subset, FS_CardinalityType
<1>3. {} \in P
  <2>1. SumFrom(0, f, {}) = 0 /\ SumFrom(0, g, {}) = 0
    BY SumEmpty
  <2>2. c * Cardinality({} \cap E) \in Nat
    BY <1>0, <1>2
  <2> QED BY <2>1, <2>2
<1>4. ASSUME NEW s \in SUBSET S, NEW x \in s, s \ {x} \in P PROVE s \in P
  <2> DEFINE r == s \ {x}
  <2>1. Summable(f, s) /\ Summable(g, s) /\ Summable(f, r) /\ Summable(g, r)
    BY SummableSubset
  <2>2. SumFrom(0, f, s) = f[x] + SumFrom(0, f, r)
    BY <2>1, SumRemove
  <2>3. SumFrom(0, g, s) = g[x] + SumFrom(0, g, r)
    BY <2>1, SumRemove
  <2>4. SumFrom(0, g, r) <= SumFrom(0, f, r) + c * Cardinality(r \cap E)
    BY <1>4
  <2>5. SumFrom(0, f, r) \in Int /\ SumFrom(0, g, r) \in Int
    BY <2>1, SumType
  <2>6. f[x] \in Int /\ g[x] \in Int /\ g[x] <= f[x] + (IF x \in E THEN c ELSE 0)
    BY DEF Summable
  <2>7. Cardinality(s \cap E) = Cardinality(r \cap E) + (IF x \in E THEN 1 ELSE 0)
    <3>1. CASE x \in E
      <4>1. r \cap E = (s \cap E) \ {x} /\ x \in s \cap E
        BY <3>1
      <4>2. IsFiniteSet(s \cap E) /\ Cardinality(s \cap E) \in Nat
        BY <1>2
      <4>3. Cardinality((s \cap E) \ {x}) = Cardinality(s \cap E) - 1
        BY <4>1, <4>2, FS_RemoveElement
      <4>4. Cardinality(r \cap E) = Cardinality(s \cap E) - 1
        BY <4>1, <4>3, Zenon
      <4> QED BY <3>1, <4>2, <4>4
    <3>2. CASE x \notin E
      <4>1. r \cap E = s \cap E
        BY <3>2
      <4>2. Cardinality(s \cap E) \in Nat
        BY <1>2
      <4>3. Cardinality(r \cap E) = Cardinality(s \cap E)
        BY <4>1, Zenon
      <4> QED BY <3>2, <4>2, <4>3
    <3> QED BY <3>1, <3>2
  <2>8. Cardinality(r \cap E) \in Nat
    BY <1>2
  <2> HIDE DEF r
  <2>9. c * Cardinality(s \cap E) = c * Cardinality(r \cap E) + (IF x \in E THEN c ELSE 0)
        /\ c * Cardinality(r \cap E) \in Nat
    BY <1>0, <2>7, <2>8
  <2>10. SumFrom(0, g, s) <= SumFrom(0, f, s) + c * Cardinality(s \cap E)
    BY <2>2, <2>3, <2>4, <2>5, <2>6, <2>9
  <2> QED BY <2>10
<1>5. S \in P
  <2> HIDE DEF P
  <2> QED BY <1>1, <1>3, <1>4, RemovalInduction
<1>6. S \cap E = E
  OBVIOUS
<1> QED BY <1>5, <1>6

-----------------------------------------------------------------------------
(* Folds over a sequence.                                                  *)

\* A set of indices that is not empty has a greatest one.
LEMMA MaxIndex ==
  ASSUME NEW n \in Nat, NEW s \in SUBSET (1 .. n), s # {}
  PROVE  Max(s) \in s /\ \A y \in s : Max(s) >= y
<1> DEFINE T == {n - x : x \in s}
<1>1. T \subseteq Nat
  <2>1. \A x \in s : x \in Nat /\ x <= n
    OBVIOUS
  <2>2. \A x \in s : n - x \in Nat
    BY <2>1
  <2> QED BY <2>2
<1>0. T # {}
  OBVIOUS
<1>2. PICK t \in T : \A y \in T : t <= y
  BY <1>0, <1>1, LeastNat
<1>3. PICK x \in s : t = n - x
  OBVIOUS
<1>4. \A y \in s : x >= y
  <2> TAKE y \in s
  <2>1. n - y \in T
    OBVIOUS
  <2>2. n - x <= n - y
    BY <1>2, <1>3, <2>1
  <2> QED BY <2>2
<1> QED BY <1>4 DEF Max

\* The greatest of the first k indices is k.
LEMMA MaxOfFirst ==
  ASSUME NEW k \in Nat \ {0}
  PROVE  Max(1 .. k) = k /\ (1 .. k) \ {k} = 1 .. (k - 1)
<1>1. 1 .. k # {} /\ k \in 1 .. k
  OBVIOUS
<1>2. Max(1 .. k) \in 1 .. k /\ \A y \in 1 .. k : Max(1 .. k) >= y
  BY <1>1, MaxIndex
<1> QED BY <1>1, <1>2

\* The steps of a fold over n elements, on states of D: F[<<i, x>>] is what the
\* i-th element makes of x.  A fold is defined by recursion over sets of indices.
Folding(g, n, b, F) ==
  \A s \in SUBSET (1 .. n) :
    g[s] = IF s = {} THEN b ELSE F[<<Max(s), g[s \ {Max(s)}]>>]

\* This recursion has a solution.
LEMMA FoldingExists ==
  ASSUME NEW n \in Nat, NEW D, NEW b \in D, NEW F \in [(1 .. n) \X D -> D]
  PROVE  \E g \in [SUBSET (1 .. n) -> D] : Folding(g, n, b, F)
<1> DEFINE I == 1 .. n
           Small(k) == {s \in SUBSET I : Cardinality(s) <= k}
           Step(g, s) == IF s = {} THEN b ELSE F[<<Max(s), g[s \ {Max(s)}]>>]
           Solves(k, g) == g \in [Small(k) -> D] /\ \A s \in Small(k) : g[s] = Step(g, s)
           K == {k \in Nat : \E g : Solves(k, g)}
<1>1. IsFiniteSet(I) /\ Cardinality(I) \in Nat
  BY FS_Interval, FS_CardinalityType
<1>2. \A s \in SUBSET I : IsFiniteSet(s) /\ Cardinality(s) \in Nat
  BY <1>1, FS_Subset, FS_CardinalityType
<1>3. ASSUME NEW s \in SUBSET I, s # {}
      PROVE  /\ Max(s) \in s /\ Max(s) \in I /\ s \ {Max(s)} \in SUBSET I
             /\ Cardinality(s \ {Max(s)}) = Cardinality(s) - 1
  <2>1. Max(s) \in s
    BY <1>3, MaxIndex
  <2> DEFINE x == Max(s)
  <2> HIDE DEF x
  <2>2. x \in s
    BY <2>1 DEF x
  <2>3. Cardinality(s \ {x}) = Cardinality(s) - 1
    BY <1>2, <2>2, FS_RemoveElement
  <2> QED BY <2>2, <2>3 DEF x
<1>4. 0 \in K
  <2>1. \A s \in Small(0) : s = {}
    BY <1>2, FS_EmptySet
  <2>2. Solves(0, [s \in Small(0) |-> b])
    BY <2>1
  <2> QED BY <2>2
<1>5. ASSUME NEW k \in Nat, k \in K PROVE k + 1 \in K
  <2>1. PICK g : Solves(k, g)
    BY <1>5
  <2> DEFINE h == [s \in Small(k + 1) |-> Step(g, s)]
  <2>2. ASSUME NEW s \in Small(k + 1), s # {}
        PROVE  s \ {Max(s)} \in Small(k) /\ s \ {Max(s)} \in Small(k + 1) /\ Max(s) \in I
    <3>1. Cardinality(s) \in Nat /\ Cardinality(s) <= k + 1
      BY <1>2
    <3>2. /\ Max(s) \in I /\ s \ {Max(s)} \in SUBSET I
          /\ Cardinality(s \ {Max(s)}) = Cardinality(s) - 1
      BY <1>3, <2>2
    <3> DEFINE r == s \ {Max(s)}
    <3> HIDE DEF r
    <3>3. r \in SUBSET I /\ Cardinality(r) <= k /\ Cardinality(r) <= k + 1
      BY <3>1, <3>2 DEF r
    <3> QED BY <3>2, <3>3 DEF r
  <2>3. ASSUME NEW s \in Small(k + 1) PROVE Step(g, s) \in D
    <3>1. CASE s = {}
      BY <3>1
    <3>2. CASE s # {}
      <4>1. g[s \ {Max(s)}] \in D
        BY <2>1, <2>2, <3>2
      <4>2. F[<<Max(s), g[s \ {Max(s)}]>>] \in D
        BY <2>2, <3>2, <4>1
      <4> QED BY <3>2, <4>2
    <3> QED BY <3>1, <3>2
  <2>4. ASSUME NEW s \in Small(k + 1) PROVE Step(h, s) = Step(g, s)
    <3>1. CASE s = {}
      BY <3>1
    <3>2. CASE s # {}
      <4> DEFINE r == s \ {Max(s)}
      <4>1. r \in Small(k) /\ r \in Small(k + 1)
        BY <2>2, <3>2
      <4>2. h[r] = Step(g, r) /\ g[r] = Step(g, r)
        BY <2>1, <4>1
      <4>3. Step(h, s) = F[<<Max(s), h[r]>>] /\ Step(g, s) = F[<<Max(s), g[r]>>]
        BY <3>2
      <4> HIDE DEF r, h, Step
      <4> QED BY <4>2, <4>3
    <3> QED BY <3>1, <3>2
  <2>5. h \in [Small(k + 1) -> D]
    BY <2>3
  <2>6. \A s \in Small(k + 1) : h[s] = Step(h, s)
    <3>1. \A s \in Small(k + 1) : h[s] = Step(g, s)
      OBVIOUS
    <3> HIDE DEF h, Step
    <3> QED BY <2>4, <3>1
  <2>7. Solves(k + 1, h)
    BY <2>5, <2>6
  <2> HIDE DEF Solves, h
  <2> QED BY <2>7
<1>6. Nat \subseteq K
  <2> HIDE DEF K
  <2> QED BY <1>4, <1>5, NatSetInduction
<1>7. PICK g : Solves(Cardinality(I), g)
  BY <1>1, <1>6
<1>8. Small(Cardinality(I)) = SUBSET I
  BY <1>1, FS_Subset
<1>9. g \in [SUBSET I -> D] /\ \A s \in SUBSET I : g[s] = Step(g, s)
  BY <1>7, <1>8
<1> QED BY <1>9 DEF Folding
=============================================================================
