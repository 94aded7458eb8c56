----------------------------- MODULE SumLemmas -----------------------------
(***************************************************************************)
(* What the proofs of this project use about SumFunction of the community  *)
(* modules: the sum of an integer-valued function over its finite domain.  *)
(*                                                                         *)
(* SumFunction is a fold whose function is defined by recursion over the   *)
(* subsets of the domain.  Facts about it are proved by taking a smallest  *)
(* counterexample (NatMin), which needs no induction rule.                 *)
(***************************************************************************)
EXTENDS Functions, FiniteSetTheorems, WellFoundedInduction, TLAPS

\* One step of the fold: the sum of f over T in terms of the sum g of the rest.
SumBody(f, g, T) ==
  IF T = {} THEN 0
  ELSE f[CHOOSE x \in T : TRUE] + g[T \ {CHOOSE x \in T : TRUE}]

\* g is the fold's recursive function for f over the subsets of S.
IsSumOf(f, g, S) == g = [T \in SUBSET S |-> SumBody(f, g, T)]

\* g sums f over the subsets of S, whichever element is taken first.
Sums(f, g, S) ==
  /\ g[{}] = 0
  /\ \A T \in SUBSET S : \A x \in T : g[T] = f[x] + g[T \ {x}]

-----------------------------------------------------------------------------
\* Every non-empty set of naturals has a least element.
LEMMA NatMin ==
  ASSUME NEW T, T \subseteq Nat, T # {}
  PROVE  \E n \in T : \A m \in T : n <= m
<1> DEFINE less == {ss \in Nat \X Nat : ss[1] < ss[2]}
<1>1. IsWellFoundedOn(less, Nat)
  BY NatLessThanWellFounded DEF OpToRel
<1> HIDE DEF less
<1>2. PICK n \in T : \A m \in T : ~(<<m, n>> \in less)
  BY <1>1, WFMin
<1>3. \A m \in T : m < n => <<m, n>> \in less
  BY <1>2 DEF less
<1>4. ASSUME NEW m \in T
      PROVE  n <= m
  <2>1. m \in Nat /\ n \in Nat
    OBVIOUS
  <2>2. ~(m < n)
    BY <1>2, <1>3
  <2>3. QED
    BY <2>1, <2>2
<1>5. QED
  BY <1>4

\* SumFunction in terms of its recursive function.
LEMMA SumUnfold ==
  ASSUME NEW f
  PROVE  SumFunction(f) = (CHOOSE g : IsSumOf(f, g, DOMAIN f))[DOMAIN f]
BY DEF SumFunction, SumFunctionOnSet, FoldFunctionOnSet, MapThenFoldSet,
       IsSumOf, SumBody

\* The recursive function exists: built by increasing cardinality.
LEMMA SumExists ==
  ASSUME NEW S, IsFiniteSet(S), NEW f \in [S -> Int]
  PROVE  \E g : IsSumOf(f, g, S) /\ g \in [SUBSET S -> Int]
<1> DEFINE Good(n) == \E g \in [SUBSET S -> Int] :
             \A T \in SUBSET S : Cardinality(T) <= n => g[T] = SumBody(f, g, T)
<1> DEFINE Bad == {n \in Nat : ~Good(n)}
<1>0. \A T \in SUBSET S : IsFiniteSet(T) /\ Cardinality(T) \in Nat
                          /\ Cardinality(T) <= Cardinality(S)
  BY FS_Subset, FS_CardinalityType
<1>a. \A T \in SUBSET S : T # {} =>
         /\ (CHOOSE x \in T : TRUE) \in T
         /\ T \ {CHOOSE x \in T : TRUE} \in SUBSET S
         /\ Cardinality(T \ {CHOOSE x \in T : TRUE}) = Cardinality(T) - 1
  <2> TAKE T \in SUBSET S
  <2> HAVE T # {}
  <2>1. (CHOOSE x \in T : TRUE) \in T
    OBVIOUS
  <2>2. QED
    BY <2>1, <1>0, FS_RemoveElement
<1>1. Good(0)
  <2> DEFINE g == [T \in SUBSET S |-> 0]
  <2>1. \A T \in SUBSET S : Cardinality(T) <= 0 => T = {}
    BY <1>0, FS_EmptySet
  <2>2. \A T \in SUBSET S : Cardinality(T) <= 0 => g[T] = SumBody(f, g, T)
    BY <2>1 DEF SumBody
  <2>3. g \in [SUBSET S -> Int]
    OBVIOUS
  <2>4. QED
    BY <2>2, <2>3
<1>2. ASSUME NEW n \in Nat, Good(n)
      PROVE  Good(n+1)
  <2>1. PICK g \in [SUBSET S -> Int] :
          \A T \in SUBSET S : Cardinality(T) <= n => g[T] = SumBody(f, g, T)
    BY <1>2
  <2> DEFINE h == [T \in SUBSET S |->
                     IF Cardinality(T) <= n THEN g[T] ELSE SumBody(f, g, T)]
  <2>2. h \in [SUBSET S -> Int]
    BY <1>a DEF SumBody
  <2>3. ASSUME NEW T \in SUBSET S, Cardinality(T) <= n+1
        PROVE  h[T] = SumBody(f, h, T)
    <3>1. h[T] = SumBody(f, g, T)
      BY <2>1
    <3>2. CASE T = {}
      BY <3>1, <3>2 DEF SumBody
    <3>3. CASE T # {}
      <4>1. Cardinality(T \ {CHOOSE x \in T : TRUE}) <= n
        BY <1>0, <1>a, <2>3, <3>3
      <4>2. h[T \ {CHOOSE x \in T : TRUE}] = g[T \ {CHOOSE x \in T : TRUE}]
        BY <4>1, <1>a, <3>3
      <4> HIDE DEF h
      <4>3. QED
        BY <3>1, <3>3, <4>2 DEF SumBody
    <3>4. QED
      BY <3>2, <3>3
  <2> HIDE DEF h
  <2>4. QED
    BY <2>2, <2>3
<1>3. Bad = {}
  <2> SUFFICES ASSUME Bad # {} PROVE FALSE
    OBVIOUS
  <2>1. PICK n \in Bad : \A m \in Bad : n <= m
    <3>1. Bad \subseteq Nat
      OBVIOUS
    <3> HIDE DEF Bad
    <3>2. QED
      BY <3>1, NatMin
  <2>2. n # 0
    BY <1>1, <2>1
  <2>3. n - 1 \in Nat /\ n - 1 \notin Bad
    <3>1. n \in Nat
      OBVIOUS
    <3> HIDE DEF Bad
    <3>2. QED
      BY <2>1, <2>2, <3>1
  <2>4. Good(n - 1)
    BY <2>3
  <2> HIDE DEF Good
  <2>5. Good((n - 1) + 1)
    BY <1>2, <2>3, <2>4
  <2>6. (n - 1) + 1 = n
    BY <2>1
  <2>7. QED
    BY <2>1, <2>5, <2>6
<1>4. Good(Cardinality(S))
  BY <1>0, <1>3
<1>5. PICK g \in [SUBSET S -> Int] : \A T \in SUBSET S :
         Cardinality(T) <= Cardinality(S) => g[T] = SumBody(f, g, T)
  BY <1>4
<1>6. g = [T \in SUBSET S |-> SumBody(f, g, T)]
  BY <1>0, <1>5
<1>7. QED
  BY <1>5, <1>6 DEF IsSumOf

\* A non-empty collection of subsets of a finite set has a member that is in
\* it although no removal of one element stays in it.
LEMMA SmallestSubset ==
  ASSUME NEW S, IsFiniteSet(S), NEW B, B \subseteq SUBSET S, B # {}
  PROVE  \E T \in B : \A x \in T : T \ {x} \notin B
<1>1. \A T \in B : IsFiniteSet(T) /\ Cardinality(T) \in Nat
  BY FS_Subset, FS_CardinalityType
<1> DEFINE Sizes == {Cardinality(T) : T \in B}
<1>2. Sizes \subseteq Nat /\ Sizes # {}
  BY <1>1
<1>3. \E n \in Sizes : \A m \in Sizes : n <= m
  <2> HIDE DEF Sizes
  <2>1. QED
    BY <1>2, NatMin
<1>4. PICK T \in B : \A U \in B : Cardinality(T) <= Cardinality(U)
  BY <1>3
<1>5. ASSUME NEW x \in T, T \ {x} \in B
      PROVE  FALSE
  <2>1. Cardinality(T \ {x}) = Cardinality(T) - 1
    BY <1>1, FS_RemoveElement
  <2>2. Cardinality(T) <= Cardinality(T \ {x}) /\ Cardinality(T) \in Nat
    BY <1>1, <1>4, <1>5
  <2>3. QED
    BY <2>1, <2>2
<1>6. QED
  BY <1>5

\* A function that obeys the fold's recursion is integer-valued ...
LEMMA SumType ==
  ASSUME NEW S, IsFiniteSet(S), NEW f \in [S -> Int], NEW g, IsSumOf(f, g, S)
  PROVE  g \in [SUBSET S -> Int]
<1> DEFINE B == {T \in SUBSET S : g[T] \notin Int}
<1>1. g = [T \in SUBSET S |-> SumBody(f, g, T)]
  BY DEF IsSumOf
<1>2. \A T \in SUBSET S : g[T] = SumBody(f, g, T)
  BY <1>1
<1>3. B = {}
  <2> SUFFICES ASSUME B # {} PROVE FALSE
    OBVIOUS
  <2>1. PICK T \in B : \A x \in T : T \ {x} \notin B
    <3>1. B \subseteq SUBSET S
      OBVIOUS
    <3> HIDE DEF B
    <3>2. QED
      BY <3>1, SmallestSubset
  <2>2. T # {}
    <3>1. g[{}] = 0
      BY <1>2 DEF SumBody
    <3>2. QED
      BY <3>1
  <2> DEFINE x == CHOOSE x \in T : TRUE
  <2>3. x \in T
    BY <2>2
  <2> HIDE DEF x
  <2>4. g[T \ {x}] \in Int /\ f[x] \in Int
    BY <2>1, <2>3
  <2>5. g[T] = f[x] + g[T \ {x}]
    BY <1>2, <2>2 DEF SumBody, x
  <2>6. QED
    BY <2>4, <2>5
<1>4. QED
  BY <1>1, <1>3

\* ... and its value does not depend on which element is taken first.
LEMMA SumPick ==
  ASSUME NEW S, IsFiniteSet(S), NEW f \in [S -> Int],
         NEW g \in [SUBSET S -> Int], IsSumOf(f, g, S)
  PROVE  Sums(f, g, S)
<1>0. \A T \in SUBSET S : g[T] = SumBody(f, g, T)
  BY DEF IsSumOf
<1> DEFINE B == {T \in SUBSET S : \E x \in T : g[T] # f[x] + g[T \ {x}]}
<1>1. B = {}
  <2> SUFFICES ASSUME B # {} PROVE FALSE
    OBVIOUS
  <2>1. PICK T \in B : \A x \in T : T \ {x} \notin B
    <3>1. B \subseteq SUBSET S
      OBVIOUS
    <3> HIDE DEF B
    <3>2. QED
      BY <3>1, SmallestSubset
  <2>2. PICK x \in T : g[T] # f[x] + g[T \ {x}]
    OBVIOUS
  <2> DEFINE y == CHOOSE y \in T : TRUE
  <2>3. y \in T
    BY <2>2
  <2>4. g[T] = f[y] + g[T \ {y}]
    BY <1>0, <2>3 DEF SumBody
  <2> HIDE DEF y
  <2>5. x # y
    BY <2>2, <2>4
  <2> DEFINE rest == g[(T \ {x}) \ {y}]
  <2>6. g[T \ {y}] = f[x] + rest
    <3>1. (T \ {y}) \ {x} = (T \ {x}) \ {y}
      OBVIOUS
    <3>2. T \ {y} \in SUBSET S /\ T \ {y} \notin B /\ x \in T \ {y}
      BY <2>1, <2>2, <2>3, <2>5
    <3>3. g[T \ {y}] = f[x] + g[(T \ {y}) \ {x}]
      BY <3>2
    <3>4. QED
      BY <3>1, <3>3
  <2>7. g[T \ {x}] = f[y] + rest
    <3>1. T \ {x} \in SUBSET S /\ T \ {x} \notin B /\ y \in T \ {x}
      BY <2>1, <2>2, <2>3, <2>5
    <3>2. QED
      BY <3>1
  <2>8. f[x] \in Int /\ f[y] \in Int /\ rest \in Int
    BY <2>2, <2>3
  <2> HIDE DEF rest, B
  <2>9. QED
    BY <2>2, <2>4, <2>6, <2>7, <2>8
<1>2. g[{}] = 0
  BY <1>0 DEF SumBody
<1>3. QED
  BY <1>1, <1>2 DEF Sums

\* SumFunction of f is the value at its whole domain of a function g that
\* takes the elements in any order.
LEMMA SumRecursion ==
  ASSUME NEW S, IsFiniteSet(S), NEW f \in [S -> Int]
  PROVE  \E g \in [SUBSET S -> Int] : SumFunction(f) = g[S] /\ Sums(f, g, S)
<1>1. DOMAIN f = S
  OBVIOUS
<1> DEFINE g == CHOOSE g : IsSumOf(f, g, S)
<1>2. \E h : IsSumOf(f, h, S)
  BY SumExists
<1>3. IsSumOf(f, g, S)
  BY <1>2
<1>4. SumFunction(f) = g[S]
  BY <1>1, SumUnfold
<1> HIDE DEF g
<1>5. g \in [SUBSET S -> Int]
  BY <1>3, SumType
<1>6. Sums(f, g, S)
  BY <1>3, <1>5, SumPick
<1>7. QED
  BY <1>4, <1>5, <1>6

-----------------------------------------------------------------------------
(* The facts the other modules cite. *)

\* The sum is an integer.
LEMMA SumInt ==
  ASSUME NEW S, IsFiniteSet(S), NEW f \in [S -> Int]
  PROVE  SumFunction(f) \in Int
<1>1. PICK g \in [SUBSET S -> Int] : SumFunction(f) = g[S] /\ Sums(f, g, S)
  BY SumRecursion
<1>2. QED
  BY <1>1

\* At every element of S, f3 is a * f1 + b * f2.
IsLinear(S, f3, a, f1, b, f2) == \A x \in S : f3[x] = a * f1[x] + b * f2[x]

\* Sums over the same set that agree step by step agree: if f3 is
\* a * f1 + b * f2 at every element, so are the sums.
LEMMA SumLinear ==
  ASSUME NEW S, IsFiniteSet(S), NEW f1 \in [S -> Int], NEW f2 \in [S -> Int],
         NEW f3 \in [S -> Int], NEW a \in Int, NEW b \in Int,
         IsLinear(S, f3, a, f1, b, f2)
  PROVE  SumFunction(f3) = a * SumFunction(f1) + b * SumFunction(f2)
<1>1. PICK g1 \in [SUBSET S -> Int] : SumFunction(f1) = g1[S] /\ Sums(f1, g1, S)
  BY SumRecursion
<1>2. PICK g2 \in [SUBSET S -> Int] : SumFunction(f2) = g2[S] /\ Sums(f2, g2, S)
  BY SumRecursion
<1>3. PICK g3 \in [SUBSET S -> Int] : SumFunction(f3) = g3[S] /\ Sums(f3, g3, S)
  BY SumRecursion
<1> DEFINE B == {T \in SUBSET S : g3[T] # a * g1[T] + b * g2[T]}
<1>4. B = {}
  <2> SUFFICES ASSUME B # {} PROVE FALSE
    OBVIOUS
  <2>1. PICK T \in B : \A x \in T : T \ {x} \notin B
    <3>1. B \subseteq SUBSET S
      OBVIOUS
    <3> HIDE DEF B
    <3>2. QED
      BY <3>1, SmallestSubset
  <2>2. T # {}
    <3>1. g1[{}] = 0 /\ g2[{}] = 0 /\ g3[{}] = 0
      BY <1>1, <1>2, <1>3 DEF Sums
    <3>2. a * 0 + b * 0 = 0
      OBVIOUS
    <3>3. {} \notin B
      BY <3>1, <3>2
    <3>4. QED
      BY <3>3
  <2>3. PICK x \in T : TRUE
    BY <2>2
  <2>4. T \ {x} \in SUBSET S /\ T \in SUBSET S /\ x \in S
    BY <2>3
  <2>5. /\ g1[T] = f1[x] + g1[T \ {x}]
        /\ g2[T] = f2[x] + g2[T \ {x}]
        /\ g3[T] = f3[x] + g3[T \ {x}]
    BY <1>1, <1>2, <1>3, <2>4 DEF Sums
  <2>6. g3[T \ {x}] = a * g1[T \ {x}] + b * g2[T \ {x}]
    BY <2>1, <2>4
  <2>7. f3[x] = a * f1[x] + b * f2[x]
    BY <2>4 DEF IsLinear
  <2>8. /\ f1[x] \in Int /\ f2[x] \in Int
        /\ g1[T \ {x}] \in Int /\ g2[T \ {x}] \in Int
    BY <2>4
  <2>9. g3[T] = a * g1[T] + b * g2[T]
    <3> HIDE DEF B
    <3>1. QED
      BY <2>5, <2>6, <2>7, <2>8
  <2>10. QED
    BY <2>9
<1>5. QED
  BY <1>1, <1>2, <1>3, <1>4

\* A function that is smaller everywhere has the smaller sum.
LEMMA SumMonotone ==
  ASSUME NEW S, IsFiniteSet(S), NEW f1 \in [S -> Int], NEW f2 \in [S -> Int],
         \A x \in S : f1[x] <= f2[x]
  PROVE  SumFunction(f1) <= SumFunction(f2)
<1>1. PICK g1 \in [SUBSET S -> Int] : SumFunction(f1) = g1[S] /\ Sums(f1, g1, S)
  BY SumRecursion
<1>2. PICK g2 \in [SUBSET S -> Int] : SumFunction(f2) = g2[S] /\ Sums(f2, g2, S)
  BY SumRecursion
<1> DEFINE B == {T \in SUBSET S : ~(g1[T] <= g2[T])}
<1>3. B = {}
  <2> SUFFICES ASSUME B # {} PROVE FALSE
    OBVIOUS
  <2>1. PICK T \in B : \A x \in T : T \ {x} \notin B
    <3>1. B \subseteq SUBSET S
      OBVIOUS
    <3> HIDE DEF B
    <3>2. QED
      BY <3>1, SmallestSubset
  <2>2. T # {}
    <3>1. g1[{}] = 0 /\ g2[{}] = 0
      BY <1>1, <1>2 DEF Sums
    <3>2. {} \notin B
      BY <3>1
    <3>3. QED
      BY <3>2
  <2>3. PICK x \in T : TRUE
    BY <2>2
  <2>4. T \ {x} \in SUBSET S /\ T \in SUBSET S /\ x \in S
    BY <2>3
  <2>5. g1[T] = f1[x] + g1[T \ {x}] /\ g2[T] = f2[x] + g2[T \ {x}]
    BY <1>1, <1>2, <2>4 DEF Sums
  <2>6. g1[T \ {x}] <= g2[T \ {x}] /\ f1[x] <= f2[x]
    BY <2>1, <2>4
  <2>7. /\ f1[x] \in Int /\ f2[x] \in Int
        /\ g1[T \ {x}] \in Int /\ g2[T \ {x}] \in Int
    BY <2>4
  <2>8. g1[T] <= g2[T]
    <3> HIDE DEF B
    <3>1. QED
      BY <2>5, <2>6, <2>7
  <2>9. QED
    BY <2>8
<1>4. QED
  BY <1>1, <1>2, <1>3

\* Changing one value changes the sum by the difference.
LEMMA SumUpdate ==
  ASSUME NEW S, IsFiniteSet(S), NEW f1 \in [S -> Int], NEW f2 \in [S -> Int],
         NEW s \in S, \A x \in S : x # s => f2[x] = f1[x]
  PROVE  SumFunction(f2) = SumFunction(f1) - f1[s] + f2[s]
<1>1. PICK g1 \in [SUBSET S -> Int] : SumFunction(f1) = g1[S] /\ Sums(f1, g1, S)
  BY SumRecursion
<1>2. PICK g2 \in [SUBSET S -> Int] : SumFunction(f2) = g2[S] /\ Sums(f2, g2, S)
  BY SumRecursion
<1> DEFINE B == {T \in SUBSET S : s \notin T /\ g1[T] # g2[T]}
<1>3. B = {}
  <2> SUFFICES ASSUME B # {} PROVE FALSE
    OBVIOUS
  <2>1. PICK T \in B : \A x \in T : T \ {x} \notin B
    <3>1. B \subseteq SUBSET S
      OBVIOUS
    <3> HIDE DEF B
    <3>2. QED
      BY <3>1, SmallestSubset
  <2>2. T # {}
    <3>1. g1[{}] = 0 /\ g2[{}] = 0
      BY <1>1, <1>2 DEF Sums
    <3>2. {} \notin B
      BY <3>1
    <3>3. QED
      BY <3>2
  <2>3. PICK x \in T : TRUE
    BY <2>2
  <2>4. T \ {x} \in SUBSET S /\ T \in SUBSET S /\ x \in S /\ x # s /\ s \notin T
    BY <2>3
  <2>5. g1[T] = f1[x] + g1[T \ {x}] /\ g2[T] = f2[x] + g2[T \ {x}]
    BY <1>1, <1>2, <2>4 DEF Sums
  <2>6. g1[T \ {x}] = g2[T \ {x}] /\ f2[x] = f1[x]
    BY <2>1, <2>4
  <2>7. g1[T] = g2[T]
    BY <2>5, <2>6
  <2>8. QED
    BY <2>7
<1>4. g1[S \ {s}] = g2[S \ {s}]
  BY <1>3
<1>5. g1[S] = f1[s] + g1[S \ {s}] /\ g2[S] = f2[s] + g2[S \ {s}]
  BY <1>1, <1>2 DEF Sums
<1>6. f1[s] \in Int /\ f2[s] \in Int /\ g1[S \ {s}] \in Int
  OBVIOUS
<1>7. QED
  BY <1>1, <1>2, <1>4, <1>5, <1>6

\* A function that is zero everywhere sums to zero.
LEMMA SumZero ==
  ASSUME NEW S, IsFiniteSet(S), NEW f \in [S -> Int], \A x \in S : f[x] = 0
  PROVE  SumFunction(f) = 0
<1>1. PICK g \in [SUBSET S -> Int] : SumFunction(f) = g[S] /\ Sums(f, g, S)
  BY SumRecursion
<1> DEFINE B == {T \in SUBSET S : g[T] # 0}
<1>2. B = {}
  <2> SUFFICES ASSUME B # {} PROVE FALSE
    OBVIOUS
  <2>1. PICK T \in B : \A x \in T : T \ {x} \notin B
    <3>1. B \subseteq SUBSET S
      OBVIOUS
    <3> HIDE DEF B
    <3>2. QED
      BY <3>1, SmallestSubset
  <2>2. PICK x \in T : TRUE
    BY <1>1 DEF Sums
  <2>3. g[T] = f[x] + g[T \ {x}] /\ f[x] = 0
    BY <1>1, <2>2 DEF Sums
  <2>4. g[T \ {x}] = 0
    BY <2>1, <2>2
  <2>5. QED
    BY <2>3, <2>4
<1>3. QED
  BY <1>1, <1>2

\* No value of a non-negative function exceeds the sum.
LEMMA SumBoundsElement ==
  ASSUME NEW S, IsFiniteSet(S), NEW f \in [S -> Nat], NEW s \in S
  PROVE  f[s] <= SumFunction(f)
<1> DEFINE z == [x \in S |-> 0]
           r == [f EXCEPT ![s] = 0]
<1>1. f \in [S -> Int] /\ z \in [S -> Int] /\ r \in [S -> Int]
  OBVIOUS
<1>2. SumFunction(z) = 0
  BY <1>1, SumZero
<1>3. \A x \in S : z[x] <= r[x]
  OBVIOUS
<1>4. r[s] = 0 /\ \A x \in S : x # s => r[x] = f[x]
  OBVIOUS
<1> HIDE DEF z, r
<1>5. SumFunction(z) <= SumFunction(r)
  BY <1>1, <1>3, SumMonotone
<1>6. SumFunction(r) = SumFunction(f) - f[s] + r[s]
  BY <1>1, <1>4, SumUpdate
<1>7. SumFunction(f) \in Int /\ SumFunction(r) \in Int /\ f[s] \in Int
  BY <1>1, SumInt
<1>8. QED
  BY <1>2, <1>4, <1>5, <1>6, <1>7

\* Naturals sum to a natural.
LEMMA SumNat ==
  ASSUME NEW S, IsFiniteSet(S), NEW f \in [S -> Nat]
  PROVE  SumFunction(f) \in Nat
<1> DEFINE z == [x \in S |-> 0]
<1>1. f \in [S -> Int] /\ z \in [S -> Int] /\ \A x \in S : z[x] = 0 /\ z[x] <= f[x]
  OBVIOUS
<1> HIDE DEF z
<1>2. SumFunction(z) = 0 /\ SumFunction(z) <= SumFunction(f) /\ SumFunction(f) \in Int
  BY <1>1, SumZero, SumMonotone, SumInt
<1>3. QED
  BY <1>2

\* One element taken out of a sum.
LEMMA SumsAt ==
  ASSUME NEW S, NEW f, NEW g, Sums(f, g, S), NEW T \in SUBSET S, NEW x \in T
  PROVE  g[T] = f[x] + g[T \ {x}]
BY DEF Sums

\* h maps S one to one onto T, and f2 has at h[x] the value f1 has at x.
Reindexes(h, S, T, f1, f2) ==
  /\ h \in [S -> T] /\ T = {h[x] : x \in S}
  /\ \A x, y \in S : h[x] = h[y] => x = y
  /\ \A x \in S : f2[h[x]] = f1[x]

\* Other names for the elements do not change the sum.
LEMMA SumReindex ==
  ASSUME NEW S, IsFiniteSet(S), NEW T, IsFiniteSet(T), NEW f1 \in [S -> Int],
         NEW f2 \in [T -> Int], NEW h, Reindexes(h, S, T, f1, f2)
  PROVE  SumFunction(f2) = SumFunction(f1)
<1> DEFINE Image(U) == {h[x] : x \in U}
<1>1. PICK g1 \in [SUBSET S -> Int] : SumFunction(f1) = g1[S] /\ Sums(f1, g1, S)
  BY SumRecursion
<1>2. PICK g2 \in [SUBSET T -> Int] : SumFunction(f2) = g2[T] /\ Sums(f2, g2, T)
  BY SumRecursion
<1>3. /\ Image(S) = T /\ Image({}) = {}
      /\ \A U \in SUBSET S : /\ Image(U) \in SUBSET T
                              /\ \A x \in U : /\ h[x] \in Image(U)
                                               /\ Image(U \ {x}) = Image(U) \ {h[x]}
  BY DEF Reindexes
<1> HIDE DEF Image
<1> DEFINE B == {U \in SUBSET S : g1[U] # g2[Image(U)]}
<1>4. B = {}
  <2> SUFFICES ASSUME B # {} PROVE FALSE
    OBVIOUS
  <2>1. PICK U \in B : \A x \in U : U \ {x} \notin B
    <3>1. B \subseteq SUBSET S
      OBVIOUS
    <3> HIDE DEF B
    <3>2. QED
      BY <3>1, SmallestSubset
  <2>2. U # {}
    <3>1. g1[{}] = 0 /\ g2[Image({})] = 0
      BY <1>1, <1>2, <1>3 DEF Sums
    <3>2. {} \notin B
      BY <3>1
    <3>3. QED
      BY <3>2
  <2>3. PICK x \in U : TRUE
    BY <2>2
  <2>4. U \ {x} \in SUBSET S /\ U \in SUBSET S /\ x \in S
    BY <2>3
  <2>5. Image(U) \in SUBSET T /\ h[x] \in Image(U) /\ Image(U \ {x}) = Image(U) \ {h[x]}
    BY <1>3, <2>3, <2>4
  <2>6. g1[U] = f1[x] + g1[U \ {x}] /\ g2[Image(U)] = f2[h[x]] + g2[Image(U \ {x})]
    <3>1. g1[U] = f1[x] + g1[U \ {x}]
      BY <1>1, <2>3, <2>4, SumsAt
    <3>2. g2[Image(U)] = f2[h[x]] + g2[Image(U) \ {h[x]}]
      BY <1>2, <2>5, SumsAt
    <3>3. QED
      BY <2>5, <3>1, <3>2
  <2>7. g1[U \ {x}] = g2[Image(U \ {x})] /\ f2[h[x]] = f1[x]
    <3>1. g1[U \ {x}] = g2[Image(U \ {x})]
      BY <2>1, <2>3, <2>4
    <3>2. f2[h[x]] = f1[x]
      BY <2>4 DEF Reindexes
    <3>3. QED
      BY <3>1, <3>2
  <2>8. g1[U] = g2[Image(U)]
    BY <2>6, <2>7
  <2>9. QED
    BY <2>8
<1>5. QED
  BY <1>1, <1>2, <1>3, <1>4

\* f on disjoint A and C is fA on A and fC on C.
Splits(A, C, f, fA, fC) ==
  /\ A \cap C = {}
  /\ f \in [A \cup C -> Int] /\ fA \in [A -> Int] /\ fC \in [C -> Int]
  /\ \A x \in A : fA[x] = f[x]
  /\ \A x \in C : fC[x] = f[x]

\* The sum over two disjoint sets is that of the sums over each.
LEMMA SumUnion ==
  ASSUME NEW A, IsFiniteSet(A), NEW C, IsFiniteSet(C), NEW f, NEW fA, NEW fC,
         Splits(A, C, f, fA, fC)
  PROVE  SumFunction(f) = SumFunction(fA) + SumFunction(fC)
<1>0. /\ A \cap C = {}
      /\ f \in [A \cup C -> Int] /\ fA \in [A -> Int] /\ fC \in [C -> Int]
      /\ (\A x \in A : fA[x] = f[x]) /\ (\A x \in C : fC[x] = f[x])
  BY DEF Splits
<1>1. IsFiniteSet(A \cup C)
  BY FS_Union
<1>2. PICK g \in [SUBSET (A \cup C) -> Int] : SumFunction(f) = g[A \cup C] /\ Sums(f, g, A \cup C)
  BY <1>0, <1>1, SumRecursion
<1>3. PICK gA \in [SUBSET A -> Int] : SumFunction(fA) = gA[A] /\ Sums(fA, gA, A)
  BY <1>0, SumRecursion
<1>4. PICK gC \in [SUBSET C -> Int] : SumFunction(fC) = gC[C] /\ Sums(fC, gC, C)
  BY <1>0, SumRecursion
<1> DEFINE B == {T \in SUBSET A : gA[T] # g[T]}
           D == {T \in SUBSET C : g[A \cup T] # gA[A] + gC[T]}
<1>5. B = {}
  <2> SUFFICES ASSUME B # {} PROVE FALSE
    OBVIOUS
  <2>1. PICK T \in B : \A x \in T : T \ {x} \notin B
    <3>1. B \subseteq SUBSET A
      OBVIOUS
    <3> HIDE DEF B
    <3>2. QED
      BY <3>1, SmallestSubset
  <2>2. {} \notin B
    BY <1>2, <1>3 DEF Sums
  <2>3. PICK x \in T : TRUE
    BY <2>2
  <2>4. T \ {x} \in SUBSET A /\ T \in SUBSET A /\ x \in A /\ T \in SUBSET (A \cup C)
    BY <2>3
  <2>5. gA[T] = fA[x] + gA[T \ {x}] /\ g[T] = f[x] + g[T \ {x}]
    BY <1>2, <1>3, <2>3, <2>4 DEF Sums
  <2>6. gA[T \ {x}] = g[T \ {x}] /\ fA[x] = f[x]
    BY <1>0, <2>1, <2>4
  <2>7. gA[T] = g[T]
    BY <2>5, <2>6
  <2>8. QED
    BY <2>7
<1>6. D = {}
  <2> SUFFICES ASSUME D # {} PROVE FALSE
    OBVIOUS
  <2>0. gA[A] = g[A] /\ gA[A] \in Int
    BY <1>5
  <2>1. PICK T \in D : \A x \in T : T \ {x} \notin D
    <3>1. D \subseteq SUBSET C
      OBVIOUS
    <3> HIDE DEF D
    <3>2. QED
      BY <3>1, SmallestSubset
  <2>2. {} \notin D
    <3>1. A \cup {} = A /\ gC[{}] = 0
      BY <1>4 DEF Sums
    <3>2. QED
      BY <2>0, <3>1
  <2>3. PICK x \in T : TRUE
    BY <2>2
  <2>4. /\ T \ {x} \in SUBSET C /\ T \in SUBSET C /\ x \in C /\ A \cup T \in SUBSET (A \cup C)
        /\ x \in A \cup T /\ (A \cup T) \ {x} = A \cup (T \ {x})
    <3>1. T \in SUBSET C /\ x \in T
      BY <2>3
    <3> HIDE DEF D, B
    <3>2. A \cap C = {}
      BY <1>0
    <3>3. QED
      BY <3>1, <3>2
  <2>5. gC[T] = fC[x] + gC[T \ {x}] /\ g[A \cup T] = f[x] + g[A \cup (T \ {x})]
    <3> DEFINE V == A \cup T
               W == A \cup C
               X == A \cup (T \ {x})
    <3>1. V \in SUBSET W /\ x \in V /\ Sums(f, g, W) /\ V \ {x} = X
      BY <1>2, <2>4
    <3>2. T \in SUBSET C /\ x \in T
      BY <2>3, <2>4
    <3> HIDE DEF V, W, X, B, D
    <3>3. gC[T] = fC[x] + gC[T \ {x}]
      BY <1>4, <3>2, SumsAt
    <3>4. g[V] = f[x] + g[V \ {x}]
      BY <3>1, Zenon DEF Sums
    <3>5. g[V] = f[x] + g[X]
      BY <3>1, <3>4
    <3>6. QED
      BY <3>3, <3>5 DEF V, X
  <2>6. g[A \cup (T \ {x})] = gA[A] + gC[T \ {x}] /\ fC[x] = f[x]
    BY <1>0, <2>1, <2>4
  <2>7. f[x] \in Int /\ gC[T \ {x}] \in Int
    BY <1>0, <2>4
  <2>8. g[A \cup T] = gA[A] + gC[T]
    <3> HIDE DEF D, B
    <3>1. QED
      BY <2>0, <2>5, <2>6, <2>7
  <2>9. QED
    BY <2>8
<1>7. QED
  BY <1>2, <1>3, <1>4, <1>6

\* A function that is zero outside W adds up to what W holds.
LEMMA SumExtend ==
  ASSUME NEW S, IsFiniteSet(S), NEW W, W \subseteq S, NEW f \in [W -> Int], NEW g \in [S -> Int],
         \A x \in S : g[x] = IF x \in W THEN f[x] ELSE 0
  PROVE  SumFunction(g) = SumFunction(f)
<1> DEFINE R == S \ W
           z == [x \in R |-> 0]
<1>1. IsFiniteSet(W) /\ IsFiniteSet(R)
  BY FS_Subset
<1>2. z \in [R -> Int] /\ \A x \in R : z[x] = 0
  OBVIOUS
<1>3. W \cup R = S /\ W \cap R = {} /\ \A x \in R : x \in S /\ x \notin W
  OBVIOUS
<1> HIDE DEF R, z
<1>4. Splits(W, R, g, f, z)
  BY <1>2, <1>3 DEF Splits
<1>5. SumFunction(g) = SumFunction(f) + SumFunction(z)
  BY <1>1, <1>4, SumUnion
<1>6. SumFunction(z) = 0 /\ SumFunction(f) \in Int
  BY <1>1, <1>2, SumZero, SumInt
<1>7. QED
  BY <1>5, <1>6

\* Ones add up to the number of elements.
LEMMA SumOnes ==
  ASSUME NEW S, IsFiniteSet(S), NEW f \in [S -> Int], \A x \in S : f[x] = 1
  PROVE  SumFunction(f) = Cardinality(S)
<1>1. PICK g \in [SUBSET S -> Int] : SumFunction(f) = g[S] /\ Sums(f, g, S)
  BY SumRecursion
<1> DEFINE B == {T \in SUBSET S : g[T] # Cardinality(T)}
<1>2. B = {}
  <2> SUFFICES ASSUME B # {} PROVE FALSE
    OBVIOUS
  <2>1. PICK T \in B : \A x \in T : T \ {x} \notin B
    <3>1. B \subseteq SUBSET S
      OBVIOUS
    <3> HIDE DEF B
    <3>2. QED
      BY <3>1, SmallestSubset
  <2>2. PICK x \in T : TRUE
    <3>1. g[{}] = 0 /\ Cardinality({}) = 0
      BY <1>1, FS_EmptySet DEF Sums
    <3>2. QED
      BY <3>1
  <2>3. g[T] = f[x] + g[T \ {x}] /\ f[x] = 1
    BY <1>1, <2>2 DEF Sums
  <2>4. g[T \ {x}] = Cardinality(T \ {x})
    BY <2>1, <2>2
  <2>5. IsFiniteSet(T) /\ Cardinality(T) \in Nat
    BY FS_Subset, FS_CardinalityType
  <2>6. Cardinality(T \ {x}) = Cardinality(T) - 1
    BY <2>2, <2>5, FS_RemoveElement
  <2>7. QED
    BY <2>3, <2>4, <2>5, <2>6
<1>3. QED
  BY <1>1, <1>2

\* So does the indicator of a subset.
LEMMA SumIndicator ==
  ASSUME NEW S, IsFiniteSet(S), NEW W, W \subseteq S, NEW g \in [S -> Int],
         \A x \in S : g[x] = IF x \in W THEN 1 ELSE 0
  PROVE  SumFunction(g) = Cardinality(W)
<1> DEFINE f == [x \in W |-> 1]
<1>1. f \in [W -> Int] /\ \A x \in W : f[x] = 1
  OBVIOUS
<1> HIDE DEF f
<1>2. IsFiniteSet(W)
  BY FS_Subset
<1>3. \A x \in S : g[x] = IF x \in W THEN f[x] ELSE 0
  BY <1>1
<1>4. SumFunction(g) = SumFunction(f)
  BY <1>1, <1>3, SumExtend
<1>5. SumFunction(f) = Cardinality(W)
  BY <1>1, <1>2, SumOnes
<1>6. QED
  BY <1>4, <1>5
=============================================================================
