----------------------------- MODULE FiniteFacts -----------------------------
(***************************************************************************)
(* Facts about finite sets the proofs share: induction in the form of a    *)
(* least counterexample, the sum of a number per element and what becomes  *)
(* of it when one of the numbers changes, and the place an element has in  *)
(* a finite set of numbers.                                                *)
(***************************************************************************)
EXTENDS Integers, FiniteSetsExt, FiniteSetTheorems, TLAPS

-----------------------------------------------------------------------------
(* Induction, as the least counterexample. *)

\* Every set of numbers that has a member has a least one.
LEMMA LeastNat ==
  ASSUME NEW T \in SUBSET Nat, T # {}
  PROVE  \E n \in T : \A m \in T : n <= m
<1> DEFINE R == StrictSubsetOrdering(Nat)
           Below == {1 .. n : n \in T}
<1>1. IsWellFoundedOn(R, FiniteSubsetsOf(Nat))
  BY FS_StrictSubsetOrderingWellFounded
<1>2. Below \subseteq FiniteSubsetsOf(Nat)
  <2>1. ASSUME NEW n \in T PROVE IsFiniteSet(1 .. n) /\ 1 .. n \subseteq Nat
    BY FS_Interval
  <2> QED
    BY <2>1 DEF FiniteSubsetsOf
<1>3. \E s \in Below : \A t \in Below : <<t, s>> \notin R
  <2>1. Below # {}
    OBVIOUS
  <2> HIDE DEF R, Below
  <2> QED
    BY <1>1, <1>2, <2>1, WFMin
<1>4. PICK n \in T : \A m \in T : <<1 .. m, 1 .. n>> \notin R
  BY <1>3
<1>5. ASSUME NEW m \in T, m < n PROVE FALSE
  <2>1. 1 .. m \subseteq 1 .. n /\ n \in 1 .. n /\ n \notin 1 .. m
    BY <1>5
  <2>2. <<1 .. m, 1 .. n>> \in R
    BY <2>1 DEF StrictSubsetOrdering
  <2> QED
    BY <1>4, <2>2
<1> QED
  BY <1>5

\* Every set of subsets of a finite set that has a member has a smallest one.
LEMMA SmallestSubset ==
  ASSUME NEW S, IsFiniteSet(S), NEW T \in SUBSET SUBSET S, T # {}
  PROVE  \E s \in T : \A x \in s : s \ {x} \notin T
<1> DEFINE R == StrictSubsetOrdering(S)
<1>1. T \subseteq FiniteSubsetsOf(S)
  BY FS_FiniteSubsetsOfFinite
<1>2. PICK s \in T : \A t \in T : <<t, s>> \notin R
  BY <1>1, FS_StrictSubsetOrderingWellFounded, WFMin
<1>3. ASSUME NEW x \in s, s \ {x} \in T PROVE FALSE
  <2>1. <<s \ {x}, s>> \in R
    BY <1>3 DEF StrictSubsetOrdering
  <2> QED
    BY <1>2, <1>3, <2>1
<1> QED
  BY <1>3

-----------------------------------------------------------------------------
(* The sum. *)

Sum(f, S) == MapThenSumSet(LAMBDA c : f[c], S)

\* One step of adding up f over a set, element by chosen element.
OneMore(g, f, s) ==
  IF s = {} THEN 0
  ELSE LET x == CHOOSE x \in s : TRUE IN f[x] + g[s \ {x}]

LEMMA SumIsIter ==
  ASSUME NEW S, NEW f
  PROVE  Sum(f, S) = (CHOOSE g : g = [s \in SUBSET S |-> OneMore(g, f, s)])[S]
  BY DEF Sum, MapThenSumSet, MapThenFoldSet, OneMore

Upto(S, n) == {s \in SUBSET S : Cardinality(s) <= n}
AddsUpTo(g, f, S, n) == g = [s \in Upto(S, n) |-> OneMore(g, f, s)]

\* What is left of a set has one element less.
LEMMA Remainder ==
  ASSUME NEW S, IsFiniteSet(S), NEW s \in SUBSET S, s # {}, 
         NEW x, x = CHOOSE y \in s : TRUE
  PROVE  /\ x \in s /\ s \ {x} \in SUBSET S
         /\ Cardinality(s) \in Nat \ {0}
         /\ Cardinality(s \ {x}) = Cardinality(s) - 1
<1>1. x \in s
  OBVIOUS
<1>2. IsFiniteSet(s) 
  BY FS_Subset
<1> QED
  BY <1>1, <1>2, FS_CardinalityType, FS_RemoveElement, FS_EmptySet

LEMMA AdderExists ==
  ASSUME NEW S, IsFiniteSet(S), NEW f
  PROVE  \A n \in Nat : \E g : AddsUpTo(g, f, S, n)
<1> DEFINE Bad == {n \in Nat : ~ \E g : AddsUpTo(g, f, S, n)}
<1> SUFFICES ASSUME Bad # {} PROVE FALSE
  OBVIOUS
<1>1. PICK n \in Bad : \A m \in Bad : n <= m
  BY LeastNat
<1>2. CASE n = 0
  <2> DEFINE g == [s \in Upto(S, 0) |-> 0]
  <2>1. ASSUME NEW s \in Upto(S, 0) PROVE s = {}
    <3>1. IsFiniteSet(s) /\ Cardinality(s) <= 0
      BY FS_Subset DEF Upto
    <3> QED
      BY <3>1, FS_EmptySet, FS_CardinalityType
  <2>2. AddsUpTo(g, f, S, 0)
    BY <2>1 DEF AddsUpTo, OneMore
  <2> QED
    BY <1>1, <1>2, <2>2
<1>3. CASE n # 0
  <2>1. n - 1 \in Nat /\ n - 1 \notin Bad
    BY <1>1, <1>3
  <2>2. PICK g : AddsUpTo(g, f, S, n - 1)
    BY <2>1
  <2> DEFINE h == [s \in Upto(S, n) |-> OneMore(g, f, s)]
  <2>3. ASSUME NEW s \in Upto(S, n) PROVE OneMore(g, f, s) = OneMore(h, f, s)
    <3>1. CASE s = {}
      BY <3>1 DEF OneMore
    <3>2. CASE s # {}
      <4> DEFINE x == CHOOSE y \in s : TRUE
      <4>1. s \ {x} \in Upto(S, n) /\ s \ {x} \in Upto(S, n - 1)
        <5>1. s \in SUBSET S /\ Cardinality(s) <= n
          BY DEF Upto
        <5>2. /\ s \ {x} \in SUBSET S /\ Cardinality(s) \in Nat
              /\ Cardinality(s \ {x}) = Cardinality(s) - 1
          BY <3>2, <5>1, Remainder
        <5> HIDE DEF x
        <5> QED
          BY <5>1, <5>2 DEF Upto
      <4>2. h[s \ {x}] = OneMore(g, f, s \ {x})
        BY <4>1
      <4>3. g[s \ {x}] = OneMore(g, f, s \ {x})
        BY <4>1, <2>2 DEF AddsUpTo
      <4> QED
        BY <4>2, <4>3 DEF OneMore
    <3> QED
      BY <3>1, <3>2
  <2>4. h = [s \in Upto(S, n) |-> OneMore(h, f, s)]
    BY <2>3, Zenon
  <2> QED
    BY <1>1, <2>4 DEF AddsUpTo
<1> QED
  BY <1>2, <1>3

\* The sum of a set is what the adder makes of it.
LEMMA SumAdds ==
  ASSUME NEW S, IsFiniteSet(S), NEW f
  PROVE  \E g : g = [s \in SUBSET S |-> OneMore(g, f, s)] /\ Sum(f, S) = g[S]
<1>1. Cardinality(S) \in Nat
  BY FS_CardinalityType
<1>2. Upto(S, Cardinality(S)) = SUBSET S
  BY FS_Subset DEF Upto
<1>3. PICK g : AddsUpTo(g, f, S, Cardinality(S))
  BY <1>1, AdderExists
<1>4. g = [s \in SUBSET S |-> OneMore(g, f, s)]
  BY <1>2, <1>3, Zenon DEF AddsUpTo
<1> QED
  BY <1>4, SumIsIter

\* Nothing adds up to nothing.
LEMMA SumOfZeros ==
  ASSUME NEW S, IsFiniteSet(S), NEW f, \A c \in S : f[c] = 0
  PROVE  Sum(f, S) = 0
<1>1. PICK g : g = [s \in SUBSET S |-> OneMore(g, f, s)] /\ Sum(f, S) = g[S]
  BY SumAdds
<1> DEFINE Bad == {s \in SUBSET S : g[s] # 0}
<1>2. CASE Bad = {}
  BY <1>1, <1>2
<1>3. CASE Bad # {}
  <2>1. PICK s \in Bad : \A x \in s : s \ {x} \notin Bad
    BY <1>3, SmallestSubset
  <2>2. g[s] = OneMore(g, f, s)
    BY <1>1
  <2>3. s # {}
    BY <2>2 DEF OneMore
  <2>4. PICK x \in s : g[s] = f[x] + g[s \ {x}]
    BY <2>2, <2>3 DEF OneMore
  <2> QED
    BY <2>1, <2>4
<1> QED
  BY <1>2, <1>3

\* One number more is one more in the sum.
LEMMA SumOfBumped ==
  ASSUME NEW S, IsFiniteSet(S), NEW f \in [S -> Nat], NEW c \in S
  PROVE  /\ Sum(f, S) \in Nat
         /\ Sum([f EXCEPT ![c] = @ + 1], S) = Sum(f, S) + 1
<1> DEFINE f2 == [f EXCEPT ![c] = @ + 1]
<1>1. PICK g : g = [s \in SUBSET S |-> OneMore(g, f, s)] /\ Sum(f, S) = g[S]
  BY SumAdds
<1>2. PICK h : h = [s \in SUBSET S |-> OneMore(h, f2, s)] /\ Sum(f2, S) = h[S]
  <2> HIDE DEF f2
  <2> QED
    BY SumAdds
<1>3. \A x \in S : f2[x] = IF x = c THEN f[x] + 1 ELSE f[x]
  OBVIOUS
<1> HIDE DEF f2
<1> DEFINE Good(s) == /\ g[s] \in Nat
                      /\ h[s] = IF c \in s THEN g[s] + 1 ELSE g[s]
           Bad == {s \in SUBSET S : ~ Good(s)}
<1>4. CASE Bad = {}
  BY <1>1, <1>2, <1>4 DEF f2
<1>5. CASE Bad # {}
  <2>1. PICK s \in Bad : \A x \in s : s \ {x} \notin Bad
    BY <1>5, SmallestSubset
  <2>2. g[s] = OneMore(g, f, s) /\ h[s] = OneMore(h, f2, s)
    BY <1>1, <1>2
  <2>3. s # {}
    BY <2>2 DEF OneMore
  <2>4. PICK x \in s : /\ g[s] = f[x] + g[s \ {x}]
                       /\ h[s] = f2[x] + h[s \ {x}]
    BY <2>2, <2>3 DEF OneMore
  <2>5. Good(s \ {x})
    BY <2>1
  <2>6. Good(s)
    BY <1>3, <2>4, <2>5
  <2> QED
    BY <2>1, <2>6
<1> QED
  BY <1>4, <1>5

-----------------------------------------------------------------------------
(* Places.  The place of a number in a set is how many smaller ones it has. *)

Smaller(S, x) == {y \in S : y < x}

LEMMA PlacesAreOrdered ==
  ASSUME NEW S \in SUBSET Nat, IsFiniteSet(S), NEW x \in S
  PROVE  /\ Cardinality(Smaller(S, x)) \in 0 .. (Cardinality(S) - 1)
         /\ \A z \in S :
              x < z => Cardinality(Smaller(S, x)) < Cardinality(Smaller(S, z))
<1>1. ASSUME NEW T \in SUBSET S, IsFiniteSet(T), x \in T, Smaller(S, x) \subseteq T
      PROVE  /\ Cardinality(Smaller(S, x)) \in Nat /\ Cardinality(T) \in Nat
             /\ Cardinality(Smaller(S, x)) < Cardinality(T)
  <2>1. Smaller(S, x) # T
    BY <1>1 DEF Smaller
  <2>2. IsFiniteSet(Smaller(S, x))
    BY <1>1, FS_Subset
  <2> QED
    BY <1>1, <2>1, <2>2, FS_Subset, FS_CardinalityType
<1>2. Smaller(S, x) \subseteq S
  BY DEF Smaller
<1>3. ASSUME NEW z \in S, x < z
      PROVE  Cardinality(Smaller(S, x)) < Cardinality(Smaller(S, z))
  <2>1. /\ x \in Smaller(S, z) /\ Smaller(S, x) \subseteq Smaller(S, z)
        /\ Smaller(S, z) \subseteq S
    <3>1. x \in Nat /\ z \in Nat /\ \A y \in S : y \in Nat
      OBVIOUS
    <3>2. \A y \in S : y < x => y < z
      BY <1>3, <3>1
    <3> QED
      BY <1>3, <3>2 DEF Smaller
  <2>2. IsFiniteSet(Smaller(S, z))
    BY <2>1, FS_Subset
  <2> QED
    BY <1>1, <2>1, <2>2
<1> QED
  BY <1>1, <1>2, <1>3

LEMMA PlacesDiffer ==
  ASSUME NEW S \in SUBSET Nat, IsFiniteSet(S), NEW x \in S, NEW z \in S,
         Cardinality(Smaller(S, x)) = Cardinality(Smaller(S, z))
  PROVE  x = z
<1>1. Cardinality(Smaller(S, x)) \in Int /\ x \in Nat /\ z \in Nat
  BY PlacesAreOrdered, FS_CardinalityType
<1>2. ~ (x < z) /\ ~ (z < x)
  BY <1>1, PlacesAreOrdered
<1> QED
  BY <1>1, <1>2

\* Every place up to the size of the set is some element's.
LEMMA PlacesAreFilled ==
  ASSUME NEW S \in SUBSET Nat, IsFiniteSet(S), NEW i \in 1 .. Cardinality(S)
  PROVE  \E x \in S : Cardinality(Smaller(S, x)) = i - 1
<1> DEFINE n == Cardinality(S)
           place == [x \in S |-> Cardinality(Smaller(S, x)) + 1]
<1>1. n \in Nat
  BY FS_CardinalityType
<1>2. \A x \in S : Cardinality(Smaller(S, x)) \in 0 .. (n - 1)
  BY PlacesAreOrdered
<1>3. place \in [S -> 1 .. n]
  BY <1>1, <1>2
<1>4. ASSUME NEW x \in S, NEW z \in S, place[x] = place[z] PROVE x = z
  <2>1. Cardinality(Smaller(S, x)) = Cardinality(Smaller(S, z))
    BY <1>2, <1>4
  <2> QED
    BY <2>1, PlacesDiffer
<1>5. place \in Injection(S, 1 .. n)
  BY <1>3, <1>4 DEF Injection, IsInjective
<1>6. IsFiniteSet(1 .. n) /\ Cardinality(1 .. n) = n
  BY <1>1, FS_Interval
<1>7. place \in Surjection(S, 1 .. n)
  <2> HIDE DEF place
  <2> QED
    BY <1>5, <1>6, FS_Injection
<1>8. PICK x \in S : place[x] = i
  BY <1>7 DEF Surjection
<1> QED
  BY <1>2, <1>8
-----------------------------------------------------------------------------
(* The largest of a finite set. *)

LEMMA MaxIsGreatest ==
  ASSUME NEW S \in SUBSET Nat, IsFiniteSet(S), S # {}
  PROVE  Max(S) \in S /\ \A y \in S : y <= Max(S)
<1> DEFINE Above(x) == {y \in S : y > x}
           Sizes == {Cardinality(Above(x)) : x \in S}
<1>1. \A x \in S : IsFiniteSet(Above(x)) /\ Cardinality(Above(x)) \in Nat
  <2> TAKE x \in S
  <2>1. Above(x) \subseteq S
    OBVIOUS
  <2>2. IsFiniteSet(Above(x))
    BY <2>1, FS_Subset
  <2> QED
    BY <2>2, FS_CardinalityType
<1>2. Sizes \in SUBSET Nat /\ Sizes # {}
  BY <1>1
<1>3. PICK n \in Sizes : \A m \in Sizes : n <= m
  <2> HIDE DEF Sizes
  <2> QED
    BY <1>2, LeastNat
<1>4. PICK x \in S : Cardinality(Above(x)) = n
  BY <1>3
<1>5. \A y \in S : y <= x
  <2> SUFFICES ASSUME NEW y \in S, y > x
               PROVE  FALSE
    OBVIOUS
  <2>1. Above(y) \subseteq Above(x) /\ y \in Above(x) /\ y \notin Above(y)
    <3>1. x \in Nat /\ y \in Nat /\ \A z \in S : z \in Nat
      OBVIOUS
    <3>2. \A z \in S : z > y => z > x
      BY <3>1, y > x
    <3>3. Above(y) \subseteq Above(x)
      BY <3>2
    <3>4. y \in Above(x)
      OBVIOUS
    <3>5. y \notin Above(y)
      BY <3>1
    <3> QED
      BY <3>3, <3>4, <3>5
  <2>2. Cardinality(Above(y)) < Cardinality(Above(x))
    <3>1. Above(y) # Above(x)
      BY <2>1
    <3> HIDE DEF Above
    <3> QED
      BY <1>1, <2>1, <3>1, FS_Subset
  <2>3. Cardinality(Above(y)) \in Sizes
    OBVIOUS
  <2>4. n <= Cardinality(Above(y))
    BY <1>3, <2>3
  <2> HIDE DEF Above
  <2> QED
    BY <1>1, <1>4, <2>2, <2>4
<1>6. \E m \in S : \A y \in S : m >= y
  BY <1>5
<1>7. Max(S) \in S /\ \A y \in S : Max(S) >= y
  BY <1>6 DEF Max
<1> QED
  BY <1>7

-----------------------------------------------------------------------------
(* A sum does not depend on the order of adding. *)

Adder(g, f, S) == g = [s \in SUBSET S |-> OneMore(g, f, s)]

\* What adds up over the subsets of a set adds up over those of a part of it.
LEMMA SumOfPart ==
  ASSUME NEW S, IsFiniteSet(S), NEW f, NEW g, Adder(g, f, S), NEW T \in SUBSET S
  PROVE  Sum(f, T) = g[T]
<1> USE DEF Adder
<1>1. IsFiniteSet(T)
  BY FS_Subset
<1>2. PICK h : h = [s \in SUBSET T |-> OneMore(h, f, s)] /\ Sum(f, T) = h[T]
  BY <1>1, SumAdds
<1> DEFINE Bad == {s \in SUBSET T : h[s] # g[s]}
<1>3. CASE Bad = {}
  BY <1>2, <1>3
<1>4. CASE Bad # {}
  <2>1. Bad \in SUBSET SUBSET T
    OBVIOUS
  <2>2. PICK s \in Bad : \A x \in s : s \ {x} \notin Bad
    <3> HIDE DEF Bad
    <3> QED
      BY <1>1, <1>4, <2>1, SmallestSubset
  <2>3. s \in SUBSET T /\ s \in SUBSET S /\ h[s] # g[s]
    OBVIOUS
  <2>4. h[s] = OneMore(h, f, s) /\ g[s] = OneMore(g, f, s)
    BY <1>2, <2>3
  <2>5. CASE s = {}
    BY <2>3, <2>4, <2>5 DEF OneMore
  <2>6. CASE s # {}
    <3>1. PICK x : x = CHOOSE y \in s : TRUE
      OBVIOUS
    <3>2. x \in s
      BY <2>6, <3>1
    <3>3. s \ {x} \in SUBSET T /\ s \ {x} \notin Bad
      BY <2>2, <2>3, <3>2
    <3>4. h[s \ {x}] = g[s \ {x}]
      BY <3>3
    <3>5. h[s] = f[x] + h[s \ {x}] /\ g[s] = f[x] + g[s \ {x}]
      BY <2>4, <2>6, <3>1 DEF OneMore
    <3> QED
      BY <2>3, <3>4, <3>5
  <2> QED
    BY <2>5, <2>6
<1> QED
  BY <1>3, <1>4

\* An element may be added last.
LEMMA SumWithout ==
  ASSUME NEW S, IsFiniteSet(S), NEW f, \A x \in S : f[x] \in Nat,
         NEW c \in S
  PROVE  /\ Sum(f, S) \in Nat /\ Sum(f, S \ {c}) \in Nat
         /\ Sum(f, S) = Sum(f, S \ {c}) + f[c]
<1>1. PICK g : g = [s \in SUBSET S |-> OneMore(g, f, s)] /\ Sum(f, S) = g[S]
  BY SumAdds
<1> DEFINE Odd == {s \in SUBSET S : g[s] \notin Nat}
           Bad == {s \in SUBSET S : \E d \in s : g[s] # g[s \ {d}] + f[d]}
<1>2. \A s \in SUBSET S : \A x : s # {} /\ x = (CHOOSE y \in s : TRUE) =>
        x \in s /\ s \ {x} \in SUBSET S /\ g[s] = f[x] + g[s \ {x}]
  BY <1>1 DEF OneMore
<1>3. g[{}] = 0
  BY <1>1 DEF OneMore
<1>4. Odd = {}
  <2> SUFFICES ASSUME Odd # {} PROVE FALSE
    OBVIOUS
  <2>1. Odd \in SUBSET SUBSET S
    OBVIOUS
  <2>2. PICK s \in Odd : \A x \in s : s \ {x} \notin Odd
    <3> HIDE DEF Odd
    <3> QED
      BY <2>1, SmallestSubset
  <2>3. s \in SUBSET S /\ g[s] \notin Nat /\ s # {}
    BY <1>3
  <2>4. PICK x : x = CHOOSE y \in s : TRUE
    OBVIOUS
  <2>5. x \in s /\ s \ {x} \in SUBSET S /\ g[s] = f[x] + g[s \ {x}]
    BY <1>2, <2>3, <2>4
  <2>6. g[s \ {x}] \in Nat
    BY <2>2, <2>5
  <2> QED
    BY <2>3, <2>5, <2>6
<1>5. \A s \in SUBSET S : g[s] \in Nat
  BY <1>4
<1>6. Bad = {}
  <2> SUFFICES ASSUME Bad # {} PROVE FALSE
    OBVIOUS
  <2>1. Bad \in SUBSET SUBSET S
    OBVIOUS
  <2>2. PICK s \in Bad : \A x \in s : s \ {x} \notin Bad
    <3> HIDE DEF Bad
    <3> QED
      BY <2>1, SmallestSubset
  <2>3. PICK d \in s : g[s] # g[s \ {d}] + f[d]
    OBVIOUS
  <2>4. s \in SUBSET S /\ s # {}
    OBVIOUS
  <2>5. PICK x : x = CHOOSE y \in s : TRUE
    OBVIOUS
  <2>6. x \in s /\ s \ {x} \in SUBSET S /\ g[s] = f[x] + g[s \ {x}]
    BY <1>2, <2>4, <2>5
  <2>7. s \ {d} \in SUBSET S /\ f[x] \in Nat /\ f[d] \in Nat
    BY <2>4, <2>6
  <2>8. g[s \ {d}] \in Nat /\ g[s \ {x}] \in Nat
    BY <1>5, <2>6, <2>7
  <2> HIDE DEF Odd, Bad
  <2>9. d # x
    <3>1. SUFFICES ASSUME d = x PROVE FALSE
      OBVIOUS
    <3>2. PICK m, n, k : m = g[s] /\ n = g[s \ {x}] /\ k = f[x]
      OBVIOUS
    <3>3. m # n + k /\ m = k + n
      BY <2>3, <2>6, <3>1, <3>2
    <3>4. n \in Nat /\ k \in Nat
      BY <2>7, <2>8, <3>2
    <3> QED
      BY <3>3, <3>4
  <2>10. PICK rest : rest = (s \ {x}) \ {d}
    OBVIOUS
  <2>11. rest = (s \ {d}) \ {x} /\ rest \in SUBSET S
    BY <2>4, <2>10
  <2>12. s \ {x} \notin Bad /\ s \ {d} \notin Bad /\ d \in s \ {x} /\ x \in s \ {d}
    BY <2>2, <2>6, <2>9
  <2>13. g[s \ {x}] = g[rest] + f[d]
    BY <2>6, <2>10, <2>12 DEF Bad
  <2>14. g[s \ {d}] = g[rest] + f[x]
    BY <2>7, <2>11, <2>12 DEF Bad
  <2>15. g[rest] \in Nat
    BY <1>5, <2>11
  <2>16. PICK m, n, j, k, l :
           m = g[s] /\ n = g[s \ {d}] /\ j = f[x] /\ k = f[d] /\ l = g[rest]
    OBVIOUS
  <2>17. m # n + k /\ m = j + (l + k) /\ n = l + j
    BY <2>3, <2>6, <2>13, <2>14, <2>16
  <2>18. j \in Nat /\ k \in Nat /\ l \in Nat
    BY <2>7, <2>15, <2>16
  <2> QED
    BY <2>17, <2>18
<1>7. PICK T : T = S \ {c}
  OBVIOUS
<1>8. S \in SUBSET S /\ T \in SUBSET S
  BY <1>7
<1>9. g[S] \in Nat /\ g[T] \in Nat
  BY <1>5, <1>8
<1>10. g[S] = g[T] + f[c]
  BY <1>6, <1>7, <1>8
<1> HIDE DEF Odd, Bad
<1>11. Adder(g, f, S)
  BY <1>1 DEF Adder
<1>12. Sum(f, T) = g[T]
  BY <1>8, <1>11, SumOfPart
<1> QED
  BY <1>1, <1>7, <1>9, <1>10, <1>12
=============================================================================
