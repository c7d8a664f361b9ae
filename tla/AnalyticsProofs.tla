--------------------------- MODULE AnalyticsProofs ---------------------------
(***************************************************************************)
(* What the analytics endpoints answer fits together, for any matches, any *)
(* accounts under protection and any queries; in the last three parts, so  *)
(* do the builds, the player statistics and the ratings.                   *)
(***************************************************************************)
EXTENDS Analytics, Players, FiniteSetTheorems, WellFoundedInduction, SequenceTheorems, TLAPS

----------------------------------------------------------------------------
\* Sums and counts over finite sets.  The library's induction theorems cannot be
\* cited for a predicate, so the induction is over sets: of numbers, from the
\* order of the natural numbers being well founded, and of subsets.

LEMMA NotEmpty ==
    ASSUME NEW A, NEW n \in Nat, Cardinality(A) = n + 1
    PROVE  A # {}
<1>1. Cardinality({}) = 0
  BY FS_EmptySet
<1> QED  BY <1>1

LEMMA FirstFinite ==
    ASSUME NEW n \in Nat
    PROVE  IsFiniteSet(1 .. n)
<1>1. 1 \in Int /\ n \in Int
  OBVIOUS
<1> QED  BY <1>1, FS_Interval

LEMMA LeastNumber ==
    ASSUME NEW T \in SUBSET Nat, T # {}
    PROVE  \E n \in T : \A m \in T : n <= m
<1>1. IsWellFoundedOn(OpToRel(<, Nat), Nat)
  BY NatLessThanWellFounded
<1>2. PICK n \in T : \A m \in T : ~(<<m, n>> \in OpToRel(<, Nat))
  BY <1>1, WFMin
<1>3. \A m \in T : ~(m < n)
  BY <1>2 DEF OpToRel
<1> QED  BY <1>3

\* Induction, for a set of numbers.
LEMMA NumbersFromZero ==
    ASSUME NEW T, 0 \in T, \A n \in Nat : n \in T => n + 1 \in T
    PROVE  Nat \subseteq T
<1> SUFFICES ASSUME Nat \ T # {} PROVE FALSE
  OBVIOUS
<1>1. PICK n \in Nat \ T : \A m \in Nat \ T : n <= m
  BY LeastNumber
<1>2. n # 0 /\ n - 1 \in Nat /\ n - 1 \notin Nat \ T
  BY <1>1
<1> QED  BY <1>1, <1>2

\* Induction, for a set of the subsets of a finite set.
LEMMA SubsetsFromEmpty ==
    ASSUME NEW S, IsFiniteSet(S), NEW T, {} \in T,
           \A A \in SUBSET S, x \in S : A \in T /\ x \notin A => A \cup {x} \in T
    PROVE  SUBSET S \subseteq T
<1> DEFINE OfSize(n) == \A A \in SUBSET S : Cardinality(A) = n => A \in T
           Sizes == {n \in Nat : OfSize(n)}
<1>0. \A A \in SUBSET S : IsFiniteSet(A) /\ Cardinality(A) \in Nat
  BY FS_Subset, FS_CardinalityType
<1>1. 0 \in Sizes
  BY <1>0, FS_EmptySet
<1>2. ASSUME NEW n \in Nat, n \in Sizes PROVE n + 1 \in Sizes
  <2>1. ASSUME NEW A \in SUBSET S, Cardinality(A) = n + 1 PROVE A \in T
    <3>1. A # {}
      BY <2>1, NotEmpty
    <3>2. PICK x \in A : TRUE
      BY <3>1
    <3>3. Cardinality(A \ {x}) = n
      <4>1. IsFiniteSet(A)
        BY <1>0
      <4>2. Cardinality(A \ {x}) = Cardinality(A) - 1
        BY <4>1, FS_RemoveElement
      <4> QED  BY <4>2, <2>1
    <3>4. A \ {x} \in T /\ x \notin A \ {x} /\ x \in S
      BY <1>2, <3>3
    <3>5. (A \ {x}) \cup {x} \in T
      BY <3>4
    <3>6. (A \ {x}) \cup {x} = A
      OBVIOUS
    <3> QED  BY <3>5, <3>6
  <2> QED  BY <2>1
<1>3. Nat \subseteq Sizes
  <2> HIDE DEF Sizes
  <2> QED  BY <1>1, <1>2, NumbersFromZero
<1>4. \A n \in Nat : OfSize(n)
  BY <1>3
<1> QED  BY <1>0, <1>4

----------------------------------------------------------------------------
\* The function by which a sum is defined.
Adds(g, f, S) ==
    g = [A \in SUBSET S |-> IF A = {} THEN 0
                            ELSE f[CHOOSE x \in A : TRUE] + g[A \ {CHOOSE x \in A : TRUE}]]

LEMMA SumIsChosen ==
    ASSUME NEW f, NEW S
    PROVE  SumFunctionOnSet(f, S) = (CHOOSE g : Adds(g, f, S))[S]
  BY DEF SumFunctionOnSet, FoldFunctionOnSet, MapThenFoldSet, Adds

\* There is such a function.
LEMMA AddsExists ==
    ASSUME NEW f, NEW S, IsFiniteSet(S)
    PROVE  \E g : Adds(g, f, S)
<1> DEFINE Step(g, A) == IF A = {} THEN 0
                         ELSE f[CHOOSE x \in A : TRUE] + g[A \ {CHOOSE x \in A : TRUE}]
           UpTo(g, n) == /\ g = [A \in SUBSET S |-> g[A]]
                         /\ \A A \in SUBSET S : Cardinality(A) <= n => g[A] = Step(g, A)
           Good == {n \in Nat : \E g : UpTo(g, n)}
<1>0. \A A \in SUBSET S : IsFiniteSet(A) /\ Cardinality(A) \in Nat /\ (Cardinality(A) = 0 => A = {})
  BY FS_Subset, FS_CardinalityType, FS_EmptySet
<1>1. 0 \in Good
  <2> DEFINE g == [A \in SUBSET S |-> 0]
  <2>1. UpTo(g, 0)
    BY <1>0
  <2> QED  BY <2>1
<1>2. ASSUME NEW n \in Nat, n \in Good PROVE n + 1 \in Good
  <2>1. PICK g : UpTo(g, n)
    BY <1>2
  <2> DEFINE h == [A \in SUBSET S |-> Step(g, A)]
  <2>2. ASSUME NEW A \in SUBSET S, Cardinality(A) <= n + 1 PROVE h[A] = Step(h, A)
    <3>1. CASE A = {}
      BY <3>1
    <3>2. CASE A # {}
      <4> DEFINE x == CHOOSE x \in A : TRUE
                 B == A \ {x}
      <4>1. x \in A
        BY <3>2
      <4>2. IsFiniteSet(A) /\ Cardinality(A) \in Nat
        BY <1>0
      <4>3. Cardinality(B) = Cardinality(A) - 1
        BY <4>1, <4>2, FS_RemoveElement
      <4>4. Cardinality(B) <= n /\ B \in SUBSET S
        BY <4>2, <4>3, <2>2
      <4>5. g[B] = Step(g, B)
        BY <2>1, <4>4
      <4>6. h[B] = g[B]
        BY <4>4, <4>5
      <4>7. h[A] = f[x] + g[B]
        BY <3>2
      <4>8. Step(h, A) = f[x] + h[B]
        BY <3>2
      <4> QED  BY <4>6, <4>7, <4>8
    <3> QED  BY <3>1, <3>2
  <2>3. h = [A \in SUBSET S |-> h[A]]
    OBVIOUS
  <2>4. UpTo(h, n + 1)
    <3> HIDE DEF h, Step
    <3> QED  BY <2>2, <2>3
  <2>5. \E k : UpTo(k, n + 1)
    <3> HIDE DEF h, UpTo
    <3> QED  BY <2>4
  <2> HIDE DEF UpTo
  <2> QED  BY <2>5
<1>3. Cardinality(S) \in Good
  <2>1. Nat \subseteq Good
    <3> HIDE DEF Good
    <3> QED  BY <1>1, <1>2, NumbersFromZero
  <2> QED  BY <2>1, FS_CardinalityType
<1>4. PICK g : UpTo(g, Cardinality(S))
  BY <1>3
<1>5. \A A \in SUBSET S : Cardinality(A) <= Cardinality(S)
  BY FS_Subset
<1>6. Adds(g, f, S)
  <2>1. \A A \in SUBSET S : g[A] = Step(g, A)
    BY <1>4, <1>5
  <2> QED  BY <1>4, <2>1 DEF Adds
<1> QED  BY <1>6

\* What two of them give agrees wherever both give something.
LEMMA AddsUnique ==
    ASSUME NEW f, NEW S, IsFiniteSet(S), NEW T \in SUBSET S,
           NEW g, Adds(g, f, S), NEW h, Adds(h, f, T)
    PROVE  g[T] = h[T]
<1> DEFINE OfSize(n) == \A A \in SUBSET T : Cardinality(A) = n => g[A] = h[A]
           Good == {n \in Nat : OfSize(n)}
<1>0. \A A \in SUBSET T : IsFiniteSet(A) /\ Cardinality(A) \in Nat /\ (Cardinality(A) = 0 => A = {})
  BY FS_Subset, FS_CardinalityType, FS_EmptySet
<1>1. 0 \in Good
  BY <1>0 DEF Adds
<1>2. ASSUME NEW n \in Nat, n \in Good PROVE n + 1 \in Good
  <2>1. ASSUME NEW A \in SUBSET T, Cardinality(A) = n + 1 PROVE g[A] = h[A]
    <3> DEFINE x == CHOOSE x \in A : TRUE
               B == A \ {x}
    <3>1. A # {}
      BY <2>1, NotEmpty
    <3>2. x \in A
      BY <3>1
    <3>3. Cardinality(B) = n
      <4>1. IsFiniteSet(A)
        BY <1>0
      <4>2. Cardinality(B) = Cardinality(A) - 1
        BY <4>1, <3>2, FS_RemoveElement
      <4> QED  BY <4>2, <2>1
    <3>4. g[B] = h[B]
      BY <1>2, <3>3
    <3>5. g[A] = f[x] + g[B]
      BY <3>1 DEF Adds
    <3>6. h[A] = f[x] + h[B]
      BY <3>1 DEF Adds
    <3> QED  BY <3>4, <3>5, <3>6
  <2> QED  BY <2>1
<1>3. Nat \subseteq Good
  <2> HIDE DEF Good
  <2> QED  BY <1>1, <1>2, NumbersFromZero
<1>4. OfSize(Cardinality(T))
  BY <1>0, <1>3
<1> QED  BY <1>4

\* A sum takes one element after the other.
LEMMA SumStep ==
    ASSUME NEW f, NEW S, IsFiniteSet(S)
    PROVE  SumFunctionOnSet(f, S) =
             IF S = {} THEN 0
             ELSE f[CHOOSE x \in S : TRUE] + SumFunctionOnSet(f, S \ {CHOOSE x \in S : TRUE})
<1> DEFINE g == CHOOSE g : Adds(g, f, S)
<1>1. Adds(g, f, S)
  BY AddsExists
<1>2. SumFunctionOnSet(f, S) = g[S]
  BY SumIsChosen
<1>3. CASE S = {}
  BY <1>1, <1>2, <1>3 DEF Adds
<1>4. CASE S # {}
  <2> DEFINE x == CHOOSE x \in S : TRUE
             T == S \ {x}
             h == CHOOSE h : Adds(h, f, T)
  <2>1. T \in SUBSET S /\ IsFiniteSet(T)
    BY FS_Subset
  <2>2. Adds(h, f, T)
    BY <2>1, AddsExists
  <2>3. SumFunctionOnSet(f, T) = h[T]
    BY SumIsChosen
  <2>4. g[T] = h[T]
    <3> HIDE DEF T, h, g
    <3> QED  BY <1>1, <2>1, <2>2, AddsUnique
  <2>5. g[S] = f[x] + g[T]
    BY <1>1, <1>4 DEF Adds
  <2> QED  BY <1>2, <1>4, <2>3, <2>4, <2>5
<1> QED  BY <1>3, <1>4

----------------------------------------------------------------------------
LEMMA SumOfNone == ASSUME NEW f PROVE SumFunctionOnSet(f, {}) = 0
  BY SumStep, FS_EmptySet

\* What is added up are numbers, and so is the sum.
LEMMA SumType ==
    ASSUME NEW S, IsFiniteSet(S), NEW f, \A x \in S : f[x] \in Int
    PROVE  SumFunctionOnSet(f, S) \in Int
<1> DEFINE OfSize(n) == \A A \in SUBSET S : Cardinality(A) = n => SumFunctionOnSet(f, A) \in Int
           Good == {n \in Nat : OfSize(n)}
<1>0. \A A \in SUBSET S : IsFiniteSet(A) /\ Cardinality(A) \in Nat /\ (Cardinality(A) = 0 => A = {})
  BY FS_Subset, FS_CardinalityType, FS_EmptySet
<1>1. 0 \in Good
  <2>1. SumFunctionOnSet(f, {}) \in Int
    BY SumOfNone
  <2> QED  BY <1>0, <2>1
<1>2. ASSUME NEW n \in Nat, n \in Good PROVE n + 1 \in Good
  <2>1. ASSUME NEW A \in SUBSET S, Cardinality(A) = n + 1 PROVE SumFunctionOnSet(f, A) \in Int
    <3> DEFINE x == CHOOSE x \in A : TRUE
               B == A \ {x}
    <3>1. A # {}
      BY <2>1, NotEmpty
    <3>2. x \in A /\ f[x] \in Int /\ IsFiniteSet(A)
      BY <3>1, <1>0
    <3>3. Cardinality(B) = n
      <4>2. Cardinality(B) = Cardinality(A) - 1
        BY <3>2, FS_RemoveElement
      <4> QED  BY <4>2, <2>1
    <3>4. SumFunctionOnSet(f, B) \in Int
      BY <1>2, <3>3
    <3>5. SumFunctionOnSet(f, A) = f[x] + SumFunctionOnSet(f, B)
      BY <3>1, <3>2, SumStep
    <3> QED  BY <3>2, <3>4, <3>5
  <2> QED  BY <2>1
<1>3. Nat \subseteq Good
  <2> HIDE DEF Good
  <2> QED  BY <1>1, <1>2, NumbersFromZero
<1>4. OfSize(Cardinality(S))
  BY <1>0, <1>3
<1> QED  BY <1>4

\* It does not matter which element is taken first.
LEMMA SumTake ==
    ASSUME NEW S, IsFiniteSet(S), NEW f, \A x \in S : f[x] \in Int, NEW y \in S
    PROVE  SumFunctionOnSet(f, S) = f[y] + SumFunctionOnSet(f, S \ {y})
<1> DEFINE Sum(A) == SumFunctionOnSet(f, A)
           OfSize(n) == \A A \in SUBSET S : Cardinality(A) = n => \A z \in A : Sum(A) = f[z] + Sum(A \ {z})
           Good == {n \in Nat : OfSize(n)}
<1>0. \A A \in SUBSET S : IsFiniteSet(A) /\ Cardinality(A) \in Nat /\ (Cardinality(A) = 0 => A = {})
  BY FS_Subset, FS_CardinalityType, FS_EmptySet
<1>t. \A A \in SUBSET S : Sum(A) \in Int
  BY <1>0, SumType
<1>1. 0 \in Good
  BY <1>0
<1>2. ASSUME NEW n \in Nat, n \in Good PROVE n + 1 \in Good
  <2>1. ASSUME NEW A \in SUBSET S, Cardinality(A) = n + 1, NEW z \in A
        PROVE  Sum(A) = f[z] + Sum(A \ {z})
    <3> DEFINE x == CHOOSE x \in A : TRUE
    <3>1. x \in A /\ f[x] \in Int /\ f[z] \in Int /\ IsFiniteSet(A) /\ A # {}
      BY <1>0
    <3>2. Sum(A) = f[x] + Sum(A \ {x})
      BY <3>1, SumStep
    <3>3. CASE x = z
      BY <3>2, <3>3
    <3>4. CASE x # z
      <4>1. Cardinality(A \ {x}) = n /\ Cardinality(A \ {z}) = n
        <5>1. Cardinality(A \ {x}) = Cardinality(A) - 1 /\ Cardinality(A \ {z}) = Cardinality(A) - 1
          BY <3>1, FS_RemoveElement
        <5> QED  BY <5>1, <2>1
      <4>2. Sum(A \ {x}) = f[z] + Sum((A \ {x}) \ {z})
        <5> HIDE DEF x, Sum
        <5>1. z \in A \ {x}
          BY <3>4
        <5> QED  BY <1>2, <4>1, <5>1
      <4>3. Sum(A \ {z}) = f[x] + Sum((A \ {z}) \ {x})
        <5> HIDE DEF x, Sum
        <5>1. x \in A \ {z}
          BY <3>1, <3>4
        <5> QED  BY <1>2, <4>1, <5>1
      <4>4. (A \ {x}) \ {z} = (A \ {z}) \ {x}
        OBVIOUS
      <4> DEFINE s == Sum((A \ {z}) \ {x})
      <4>5. s \in Int /\ f[x] \in Int /\ f[z] \in Int
        BY <1>t, <3>1
      <4>6. Sum(A \ {x}) = f[z] + s
        BY <4>2, <4>4
      <4>7. f[x] + (f[z] + s) = f[z] + (f[x] + s)
        <5> HIDE DEF s, x
        <5> QED  BY <4>5
      <4>8. Sum(A \ {z}) = f[x] + s
        BY <4>3
      <4> HIDE DEF s, x, Sum
      <4> QED  BY <3>2, <4>6, <4>7, <4>8
    <3> QED  BY <3>3, <3>4
  <2> QED  BY <2>1
<1>3. Nat \subseteq Good
  <2> HIDE DEF Good
  <2> QED  BY <1>1, <1>2, NumbersFromZero
<1>4. OfSize(Cardinality(S))
  BY <1>0, <1>3
<1> QED  BY <1>4

\* Induction over a finite set, for what two or more sums have to do with each other.
LEMMA SumAdd ==
    ASSUME NEW S, IsFiniteSet(S), NEW y, y \notin S, NEW f, \A x \in S \cup {y} : f[x] \in Int
    PROVE  SumFunctionOnSet(f, S \cup {y}) = SumFunctionOnSet(f, S) + f[y]
<1>1. IsFiniteSet(S \cup {y}) /\ (S \cup {y}) \ {y} = S
  BY FS_AddElement
<1>2. SumFunctionOnSet(f, S \cup {y}) = f[y] + SumFunctionOnSet(f, (S \cup {y}) \ {y})
  BY <1>1, SumTake
<1>3. SumFunctionOnSet(f, S) \in Int /\ f[y] \in Int
  BY SumType
<1>4. SumFunctionOnSet(f, S \cup {y}) = f[y] + SumFunctionOnSet(f, S)
  BY <1>1, <1>2
<1> QED  BY <1>3, <1>4

\* Sums of equal numbers are equal.
LEMMA SumEqual ==
    ASSUME NEW S, IsFiniteSet(S), NEW f, NEW g, \A x \in S : f[x] \in Int /\ f[x] = g[x]
    PROVE  SumFunctionOnSet(f, S) = SumFunctionOnSet(g, S)
<1> DEFINE T == {A \in SUBSET S : SumFunctionOnSet(f, A) = SumFunctionOnSet(g, A)}
<1>1. {} \in T
  BY SumOfNone
<1>2. ASSUME NEW A \in SUBSET S, NEW x \in S, A \in T, x \notin A PROVE A \cup {x} \in T
  <2>1. IsFiniteSet(A)
    BY FS_Subset
  <2>2. SumFunctionOnSet(f, A \cup {x}) = SumFunctionOnSet(f, A) + f[x]
    <3>1. \A z \in A \cup {x} : f[z] \in Int
      BY <1>2
    <3> QED  BY <1>2, <2>1, <3>1, SumAdd
  <2>3. SumFunctionOnSet(g, A \cup {x}) = SumFunctionOnSet(g, A) + g[x]
    <3>1. \A z \in A \cup {x} : g[z] \in Int
      BY <1>2
    <3> QED  BY <1>2, <2>1, <3>1, SumAdd
  <2> QED  BY <1>2, <2>2, <2>3
<1>3. SUBSET S \subseteq T
  <2> HIDE DEF T
  <2> QED  BY <1>1, <1>2, SubsetsFromEmpty
<1> QED  BY <1>3

\* The sum of sums.
LEMMA SumPlus ==
    ASSUME NEW S, IsFiniteSet(S), NEW f, NEW g, NEW h,
           \A x \in S : f[x] \in Int /\ g[x] \in Int /\ h[x] = f[x] + g[x]
    PROVE  SumFunctionOnSet(h, S) = SumFunctionOnSet(f, S) + SumFunctionOnSet(g, S)
<1> DEFINE T == {A \in SUBSET S : SumFunctionOnSet(h, A) = SumFunctionOnSet(f, A) + SumFunctionOnSet(g, A)}
<1>1. {} \in T
  BY SumOfNone
<1>2. ASSUME NEW A \in SUBSET S, NEW x \in S, A \in T, x \notin A PROVE A \cup {x} \in T
  <2>1. IsFiniteSet(A)
    BY FS_Subset
  <2>2. SumFunctionOnSet(f, A \cup {x}) = SumFunctionOnSet(f, A) + f[x]
    <3>1. \A z \in A \cup {x} : f[z] \in Int
      BY <1>2
    <3> QED  BY <1>2, <2>1, <3>1, SumAdd
  <2>3. SumFunctionOnSet(g, A \cup {x}) = SumFunctionOnSet(g, A) + g[x]
    <3>1. \A z \in A \cup {x} : g[z] \in Int
      BY <1>2
    <3> QED  BY <1>2, <2>1, <3>1, SumAdd
  <2>4. SumFunctionOnSet(h, A \cup {x}) = SumFunctionOnSet(h, A) + h[x]
    <3>1. \A z \in A \cup {x} : h[z] \in Int
      BY <1>2
    <3> QED  BY <1>2, <2>1, <3>1, SumAdd
  <2>5. SumFunctionOnSet(f, A) \in Int /\ SumFunctionOnSet(g, A) \in Int /\ f[x] \in Int /\ g[x] \in Int
    BY <2>1, SumType
  <2>6. h[x] = f[x] + g[x] /\ SumFunctionOnSet(h, A) = SumFunctionOnSet(f, A) + SumFunctionOnSet(g, A)
    BY <1>2
  <2>7. SumFunctionOnSet(h, A \cup {x}) = SumFunctionOnSet(f, A \cup {x}) + SumFunctionOnSet(g, A \cup {x})
    BY <2>2, <2>3, <2>4, <2>5, <2>6
  <2> QED  BY <2>7
<1>3. SUBSET S \subseteq T
  <2> HIDE DEF T
  <2> QED  BY <1>1, <1>2, SubsetsFromEmpty
<1> QED  BY <1>3

\* The sum of no more is no more.
LEMMA SumAtMost ==
    ASSUME NEW S, IsFiniteSet(S), NEW f, NEW g,
           \A x \in S : f[x] \in Int /\ g[x] \in Int /\ f[x] <= g[x]
    PROVE  SumFunctionOnSet(f, S) <= SumFunctionOnSet(g, S)
<1> DEFINE T == {A \in SUBSET S : SumFunctionOnSet(f, A) <= SumFunctionOnSet(g, A)}
<1>1. {} \in T
  BY SumOfNone
<1>2. ASSUME NEW A \in SUBSET S, NEW x \in S, A \in T, x \notin A PROVE A \cup {x} \in T
  <2>1. IsFiniteSet(A)
    BY FS_Subset
  <2>2. SumFunctionOnSet(f, A \cup {x}) = SumFunctionOnSet(f, A) + f[x]
    <3>1. \A z \in A \cup {x} : f[z] \in Int
      BY <1>2
    <3> QED  BY <1>2, <2>1, <3>1, SumAdd
  <2>3. SumFunctionOnSet(g, A \cup {x}) = SumFunctionOnSet(g, A) + g[x]
    <3>1. \A z \in A \cup {x} : g[z] \in Int
      BY <1>2
    <3> QED  BY <1>2, <2>1, <3>1, SumAdd
  <2>5. SumFunctionOnSet(f, A) \in Int /\ SumFunctionOnSet(g, A) \in Int /\ f[x] \in Int /\ g[x] \in Int
    BY <2>1, SumType
  <2>6. f[x] <= g[x] /\ SumFunctionOnSet(f, A) <= SumFunctionOnSet(g, A)
    BY <1>2
  <2>7. SumFunctionOnSet(f, A \cup {x}) <= SumFunctionOnSet(g, A \cup {x})
    BY <2>2, <2>3, <2>5, <2>6
  <2> QED  BY <2>7
<1>3. SUBSET S \subseteq T
  <2> HIDE DEF T
  <2> QED  BY <1>1, <1>2, SubsetsFromEmpty
<1> QED  BY <1>3

\* What is counted is a sum of ones.
LEMMA SumOfOnes ==
    ASSUME NEW S, IsFiniteSet(S), NEW f, \A x \in S : f[x] = 1
    PROVE  SumFunctionOnSet(f, S) = Cardinality(S)
<1> DEFINE T == {A \in SUBSET S : SumFunctionOnSet(f, A) = Cardinality(A)}
<1>1. {} \in T
  BY SumOfNone, FS_EmptySet
<1>2. ASSUME NEW A \in SUBSET S, NEW x \in S, A \in T, x \notin A PROVE A \cup {x} \in T
  <2>1. IsFiniteSet(A)
    BY FS_Subset
  <2>2. SumFunctionOnSet(f, A \cup {x}) = SumFunctionOnSet(f, A) + f[x]
    <3>1. \A z \in A \cup {x} : f[z] \in Int
      BY <1>2
    <3> QED  BY <1>2, <2>1, <3>1, SumAdd
  <2>3. Cardinality(A \cup {x}) = Cardinality(A) + 1
    BY <1>2, <2>1, FS_AddElement
  <2> QED  BY <1>2, <2>2, <2>3
<1>3. SUBSET S \subseteq T
  <2> HIDE DEF T
  <2> QED  BY <1>1, <1>2, SubsetsFromEmpty
<1> QED  BY <1>3

\* So is what is counted a number of times over.
LEMMA SumOfSame ==
    ASSUME NEW S, IsFiniteSet(S), NEW n \in Int, NEW f, \A x \in S : f[x] = n
    PROVE  SumFunctionOnSet(f, S) = n * Cardinality(S)
<1> DEFINE T == {A \in SUBSET S : SumFunctionOnSet(f, A) = n * Cardinality(A)}
<1>1. {} \in T
  BY SumOfNone, FS_EmptySet
<1>2. ASSUME NEW A \in SUBSET S, NEW x \in S, A \in T, x \notin A PROVE A \cup {x} \in T
  <2>1. IsFiniteSet(A)
    BY FS_Subset
  <2>2. SumFunctionOnSet(f, A \cup {x}) = SumFunctionOnSet(f, A) + f[x]
    <3>1. \A z \in A \cup {x} : f[z] \in Int
      BY <1>2
    <3> QED  BY <1>2, <2>1, <3>1, SumAdd
  <2>3. Cardinality(A) \in Nat /\ Cardinality(A \cup {x}) = Cardinality(A) + 1
    BY <1>2, <2>1, FS_AddElement, FS_CardinalityType
  <2>4. \A c \in Nat : n * (c + 1) = n * c + n
    OBVIOUS
  <2>5. n * Cardinality(A \cup {x}) = n * Cardinality(A) + n
    BY <2>3, <2>4
  <2> QED  BY <1>2, <2>2, <2>5
<1>3. SUBSET S \subseteq T
  <2> HIDE DEF T
  <2> QED  BY <1>1, <1>2, SubsetsFromEmpty
<1> QED  BY <1>3

\* Two sets with nothing in common.
LEMMA SumUnion ==
    ASSUME NEW S, IsFiniteSet(S), NEW R, IsFiniteSet(R), S \cap R = {},
           NEW f, \A x \in S \cup R : f[x] \in Int
    PROVE  SumFunctionOnSet(f, S \cup R) = SumFunctionOnSet(f, S) + SumFunctionOnSet(f, R)
<1> DEFINE T == {A \in SUBSET S :
                    SumFunctionOnSet(f, A \cup R) = SumFunctionOnSet(f, A) + SumFunctionOnSet(f, R)}
<1>0. SumFunctionOnSet(f, R) \in Int
  BY SumType
<1>1. {} \in T
  BY <1>0, SumOfNone
<1>2. ASSUME NEW A \in SUBSET S, NEW x \in S, A \in T, x \notin A PROVE A \cup {x} \in T
  <2>1. IsFiniteSet(A) /\ IsFiniteSet(A \cup R)
    BY FS_Subset, FS_Union
  <2>2. SumFunctionOnSet(f, A \cup {x}) = SumFunctionOnSet(f, A) + f[x]
    <3>1. \A z \in A \cup {x} : f[z] \in Int
      OBVIOUS
    <3> QED  BY <1>2, <2>1, <3>1, SumAdd
  <2>3. SumFunctionOnSet(f, (A \cup R) \cup {x}) = SumFunctionOnSet(f, A \cup R) + f[x]
    <3>1. \A z \in (A \cup R) \cup {x} : f[z] \in Int
      OBVIOUS
    <3>2. x \notin A \cup R
      BY <1>2
    <3> QED  BY <2>1, <3>1, <3>2, SumAdd
  <2>4. (A \cup R) \cup {x} = (A \cup {x}) \cup R
    OBVIOUS
  <2>5. SumFunctionOnSet(f, A) \in Int /\ f[x] \in Int
    BY <2>1, SumType
  <2>6. SumFunctionOnSet(f, A \cup R) = SumFunctionOnSet(f, A) + SumFunctionOnSet(f, R)
    BY <1>2
  <2>7. SumFunctionOnSet(f, (A \cup {x}) \cup R) = SumFunctionOnSet(f, A \cup {x}) + SumFunctionOnSet(f, R)
    <3>1. SumFunctionOnSet(f, (A \cup {x}) \cup R) = SumFunctionOnSet(f, A \cup R) + f[x]
      BY <2>3, <2>4
    <3>2. SumFunctionOnSet(f, (A \cup {x}) \cup R) = (SumFunctionOnSet(f, A) + SumFunctionOnSet(f, R)) + f[x]
      BY <3>1, <2>6
    <3> QED  BY <1>0, <2>2, <2>5, <3>2
  <2> QED  BY <2>7
<1>3. SUBSET S \subseteq T
  <2> HIDE DEF T
  <2> QED  BY <1>1, <1>2, SubsetsFromEmpty
<1> QED  BY <1>3

\* The elements with a key.
WithKey(S, key, k) == {x \in S : key[x] = k}

\* A sum over a set is the sum of those over its parts, each part the elements with one key.
LEMMA SumByKey ==
    ASSUME NEW S, IsFiniteSet(S), NEW f, \A x \in S : f[x] \in Int,
           NEW K, IsFiniteSet(K), NEW key, \A x \in S : key[x] \in K,
           NEW part, \A k \in K : part[k] = SumFunctionOnSet(f, WithKey(S, key, k))
    PROVE  SumFunctionOnSet(f, S) = SumFunctionOnSet(part, K)
<1> DEFINE With(L) == {x \in S : key[x] \in L}
           T == {L \in SUBSET K : SumFunctionOnSet(f, With(L)) = SumFunctionOnSet(part, L)}
<1>0. \A L : IsFiniteSet(With(L)) /\ With(L) \subseteq S
  BY FS_Subset
<1>i. \A k \in K : part[k] \in Int
  <2> TAKE k \in K
  <2>1. WithKey(S, key, k) \subseteq S /\ IsFiniteSet(WithKey(S, key, k))
    BY FS_Subset DEF WithKey
  <2>2. SumFunctionOnSet(f, WithKey(S, key, k)) \in Int
    BY <2>1, SumType
  <2> QED  BY <2>2
<1>1. {} \in T
  <2>1. With({}) = {}
    OBVIOUS
  <2> QED  BY <2>1, SumOfNone
<1>2. ASSUME NEW L \in SUBSET K, NEW k \in K, L \in T, k \notin L PROVE L \cup {k} \in T
  <2> DEFINE P == WithKey(S, key, k)
  <2>1. With(L \cup {k}) = With(L) \cup P /\ With(L) \cap P = {}
    BY <1>2 DEF WithKey
  <2>2. IsFiniteSet(With(L)) /\ IsFiniteSet(P) /\ IsFiniteSet(L)
    BY FS_Subset DEF WithKey
  <2>3. SumFunctionOnSet(f, With(L) \cup P) = SumFunctionOnSet(f, With(L)) + SumFunctionOnSet(f, P)
    <3>1. \A x \in With(L) \cup P : f[x] \in Int
      BY DEF WithKey
    <3> HIDE DEF With, P
    <3> QED  BY <2>1, <2>2, <3>1, SumUnion
  <2>4. SumFunctionOnSet(part, L \cup {k}) = SumFunctionOnSet(part, L) + part[k]
    <3>1. \A z \in L \cup {k} : part[z] \in Int
      BY <1>i
    <3> QED  BY <1>2, <2>2, <3>1, SumAdd
  <2>5. part[k] = SumFunctionOnSet(f, P)
    OBVIOUS
  <2>6. SumFunctionOnSet(f, With(L)) = SumFunctionOnSet(part, L)
    BY <1>2
  <2>7. SumFunctionOnSet(f, With(L \cup {k})) = SumFunctionOnSet(part, L \cup {k})
    BY <2>1, <2>3, <2>4, <2>5, <2>6
  <2> QED  BY <2>7
<1>3. SUBSET K \subseteq T
  <2> HIDE DEF T
  <2> QED  BY <1>1, <1>2, SubsetsFromEmpty
<1>4. With(K) = S
  OBVIOUS
<1> QED  BY <1>3, <1>4

\* Each element is of one part, so a set has as many as its parts together.
LEMMA CountByKey ==
    ASSUME NEW S, IsFiniteSet(S), NEW K, IsFiniteSet(K), NEW key, \A x \in S : key[x] \in K,
           NEW part, \A k \in K : part[k] = Cardinality(WithKey(S, key, k))
    PROVE  Cardinality(S) = SumFunctionOnSet(part, K)
<1> DEFINE one == [x \in S |-> 1]
<1>1. \A k \in K : part[k] = SumFunctionOnSet(one, WithKey(S, key, k))
  <2> TAKE k \in K
  <2>1. IsFiniteSet(WithKey(S, key, k))
    BY FS_Subset DEF WithKey
  <2>2. \A x \in WithKey(S, key, k) : one[x] = 1
    BY DEF WithKey
  <2> HIDE DEF one
  <2> QED  BY <2>1, <2>2, SumOfOnes
<1>2. \A x \in S : one[x] = 1 /\ one[x] \in Int
  OBVIOUS
<1> HIDE DEF one
<1>3. SumFunctionOnSet(one, S) = Cardinality(S)
  BY <1>2, SumOfOnes
<1>4. SumFunctionOnSet(one, S) = SumFunctionOnSet(part, K)
  <2>1. \A x \in S : one[x] \in Int
    BY <1>2
  <2> QED  BY <1>1, <2>1, SumByKey
<1> QED  BY <1>3, <1>4

\* A sum may be taken over the images of its elements, if no two have the same.
LEMMA SumImage ==
    ASSUME NEW S, IsFiniteSet(S), NEW f, \A x \in S : f[x] \in Int,
           NEW h, \A x, y \in S : h[x] = h[y] => x = y,
           NEW g, \A x \in S : g[h[x]] = f[x]
    PROVE  /\ SumFunctionOnSet(f, S) = SumFunctionOnSet(g, {h[x] : x \in S})
           /\ IsFiniteSet({h[x] : x \in S})
<1> DEFINE Image(A) == {h[x] : x \in A}
           T == {A \in SUBSET S : /\ SumFunctionOnSet(f, A) = SumFunctionOnSet(g, Image(A))
                                  /\ IsFiniteSet(Image(A))}
<1>1. {} \in T
  <2>1. Image({}) = {}
    OBVIOUS
  <2> QED  BY <2>1, SumOfNone, FS_EmptySet
<1>2. ASSUME NEW A \in SUBSET S, NEW x \in S, A \in T, x \notin A PROVE A \cup {x} \in T
  <2>1. IsFiniteSet(A) /\ IsFiniteSet(Image(A))
    BY <1>2, FS_Subset
  <2>2. SumFunctionOnSet(f, A \cup {x}) = SumFunctionOnSet(f, A) + f[x]
    <3>1. \A z \in A \cup {x} : f[z] \in Int
      OBVIOUS
    <3> QED  BY <1>2, <2>1, <3>1, SumAdd
  <2>3. Image(A \cup {x}) = Image(A) \cup {h[x]}
    OBVIOUS
  <2>4. h[x] \notin Image(A)
    BY <1>2
  <2>5. SumFunctionOnSet(g, Image(A) \cup {h[x]}) = SumFunctionOnSet(g, Image(A)) + g[h[x]]
    <3>1. \A z \in Image(A) \cup {h[x]} : g[z] \in Int
      OBVIOUS
    <3> HIDE DEF Image
    <3>2. \A y : y \notin Image(A) /\ (\A z \in Image(A) \cup {y} : g[z] \in Int)
            => SumFunctionOnSet(g, Image(A) \cup {y}) = SumFunctionOnSet(g, Image(A)) + g[y]
      BY <2>1, SumAdd
    <3> QED  BY <2>4, <3>1, <3>2
  <2>6. g[h[x]] = f[x] /\ SumFunctionOnSet(f, A) = SumFunctionOnSet(g, Image(A))
    BY <1>2
  <2>7. SumFunctionOnSet(f, A \cup {x}) = SumFunctionOnSet(g, Image(A \cup {x}))
    BY <2>2, <2>3, <2>5, <2>6
  <2>8. IsFiniteSet(Image(A \cup {x}))
    <3> HIDE DEF Image
    <3>1. \A y : IsFiniteSet(Image(A) \cup {y})
      BY <2>1, FS_AddElement
    <3> QED  BY <2>3, <3>1
  <2> QED  BY <2>7, <2>8
<1>3. SUBSET S \subseteq T
  <2> HIDE DEF T
  <2> QED  BY <1>1, <1>2, SubsetsFromEmpty
<1> QED  BY <1>3

\* Images of which no two are the same are as many as what they are of.
LEMMA CountImage ==
    ASSUME NEW S, IsFiniteSet(S), NEW h, \A x, y \in S : h[x] = h[y] => x = y
    PROVE  IsFiniteSet({h[x] : x \in S}) /\ Cardinality({h[x] : x \in S}) = Cardinality(S)
<1> DEFINE I == {h[x] : x \in S}
           f == [x \in S |-> 1]
           g == [y \in I |-> 1]
<1>1. /\ \A x \in S : f[x] = 1 /\ f[x] \in Int /\ g[h[x]] = f[x]
      /\ \A y \in I : g[y] = 1
  OBVIOUS
<1> HIDE DEF f, g
<1>2. SumFunctionOnSet(f, S) = SumFunctionOnSet(g, I) /\ IsFiniteSet(I)
  <2>1. \A x \in S : f[x] \in Int
    BY <1>1
  <2>2. \A x \in S : g[h[x]] = f[x]
    BY <1>1
  <2> QED  BY <2>1, <2>2, SumImage
<1>3. SumFunctionOnSet(f, S) = Cardinality(S)
  BY <1>1, SumOfOnes
<1>4. SumFunctionOnSet(g, I) = Cardinality(I)
  BY <1>1, <1>2, SumOfOnes
<1> QED  BY <1>2, <1>3, <1>4

\* The images of finitely many are finitely many.
LEMMA ImageFinite ==
    ASSUME NEW S, IsFiniteSet(S), NEW h
    PROVE  IsFiniteSet({h[x] : x \in S})
<1> DEFINE T == {A \in SUBSET S : IsFiniteSet({h[x] : x \in A})}
<1>1. {} \in T
  <2>1. {h[x] : x \in {}} = {}
    OBVIOUS
  <2> QED  BY <2>1, FS_EmptySet
<1>2. ASSUME NEW A \in SUBSET S, NEW x \in S, A \in T, x \notin A PROVE A \cup {x} \in T
  <2>1. {h[y] : y \in A \cup {x}} = {h[y] : y \in A} \cup {h[x]}
    OBVIOUS
  <2>2. \A y : IsFiniteSet({h[z] : z \in A} \cup {y})
    <3> DEFINE I == {h[z] : z \in A}
    <3>1. IsFiniteSet(I)
      BY <1>2
    <3> HIDE DEF I
    <3>2. \A y : IsFiniteSet(I \cup {y})
      BY <3>1, FS_AddElement
    <3> QED  BY <3>2 DEF I
  <2>3. IsFiniteSet({h[y] : y \in A \cup {x}})
    BY <2>1, <2>2
  <2> QED  BY <2>3
<1>3. SUBSET S \subseteq T
  <2> HIDE DEF T
  <2> QED  BY <1>1, <1>2, SubsetsFromEmpty
<1> QED  BY <1>3

\* Finitely many times finitely many are finitely many.
LEMMA UnionFinite ==
    ASSUME NEW S, IsFiniteSet(S), NEW of, \A x \in S : IsFiniteSet(of[x])
    PROVE  IsFiniteSet(UNION {of[x] : x \in S})
<1>1. IsFiniteSet({of[x] : x \in S})
  BY ImageFinite
<1>2. \A T \in {of[x] : x \in S} : IsFiniteSet(T)
  OBVIOUS
<1> QED  BY <1>1, <1>2, FS_UNION

\* What is brought by some, counted by what it is and by whom it is brought.
LEMMA CountTwice ==
    ASSUME NEW R, IsFiniteSet(R), NEW of, \A r \in R : IsFiniteSet(of[r]),
           NEW times, \A s \in UNION {of[r] : r \in R} : times[s] = Cardinality({r \in R : s \in of[r]}),
           NEW brought, \A r \in R : brought[r] = Cardinality(of[r])
    PROVE  SumFunctionOnSet(times, UNION {of[r] : r \in R}) = SumFunctionOnSet(brought, R)
<1> DEFINE U == UNION {of[r] : r \in R}
           each == [r \in R |-> {<<r, s>> : s \in of[r]}]
           D == UNION {each[r] : r \in R}
           who == [d \in D |-> d[1]]
           what == [d \in D |-> d[2]]
<1>1. ASSUME NEW r \in R
      PROVE  IsFiniteSet(each[r]) /\ Cardinality(each[r]) = Cardinality(of[r])
  <2> DEFINE h == [s \in of[r] |-> <<r, s>>]
  <2>1. each[r] = {h[s] : s \in of[r]}
    OBVIOUS
  <2>2. \A s, t \in of[r] : h[s] = h[t] => s = t
    OBVIOUS
  <2> HIDE DEF h, each
  <2> QED  BY <2>1, <2>2, CountImage
<1>2. IsFiniteSet(U)
  BY UnionFinite
<1>3. IsFiniteSet(D)
  <2> HIDE DEF each
  <2> QED  BY <1>1, UnionFinite
<1>4. /\ \A d \in D : d[1] \in R /\ d[2] \in of[d[1]] /\ d = <<d[1], d[2]>>
      /\ \A r \in R : \A s \in of[r] : <<r, s>> \in D
  OBVIOUS
<1>5. \A r \in R : brought[r] = Cardinality(WithKey(D, who, r))
  <2> TAKE r \in R
  <2>1. \A d \in WithKey(D, who, r) : d \in each[r]
    <3> TAKE d \in WithKey(D, who, r)
    <3>1. d \in D /\ d[1] = r
      BY DEF WithKey
    <3>2. d = <<r, d[2]>> /\ d[2] \in of[r]
      BY <1>4, <3>1
    <3> QED  BY <3>2
  <2>2. \A d \in each[r] : d \in WithKey(D, who, r)
    <3> SUFFICES ASSUME NEW s \in of[r] PROVE <<r, s>> \in WithKey(D, who, r)
      OBVIOUS
    <3>1. <<r, s>> \in D /\ <<r, s>>[1] = r
      BY <1>4
    <3> HIDE DEF D
    <3> QED  BY <3>1 DEF WithKey
  <2> HIDE DEF D, who, each
  <2>3. WithKey(D, who, r) = each[r]
    BY <2>1, <2>2 DEF WithKey
  <2> QED  BY <1>1, <2>3
<1>6. \A s \in U : times[s] = Cardinality(WithKey(D, what, s))
  <2> TAKE s \in U
  <2> DEFINE by == {r \in R : s \in of[r]}
             h == [r \in by |-> <<r, s>>]
  <2>1. IsFiniteSet(by)
    BY FS_Subset
  <2>2. \A r, t \in by : h[r] = h[t] => r = t
    OBVIOUS
  <2>3. \A d \in WithKey(D, what, s) : \E r \in by : d = h[r]
    <3> TAKE d \in WithKey(D, what, s)
    <3>1. d \in D /\ d[2] = s
      BY DEF WithKey
    <3>2. d = <<d[1], s>> /\ d[1] \in by
      BY <1>4, <3>1
    <3> QED  BY <3>2
  <2>4. \A r \in by : h[r] \in WithKey(D, what, s)
    <3> TAKE r \in by
    <3>1. <<r, s>> \in D /\ <<r, s>>[2] = s
      BY <1>4
    <3> HIDE DEF D
    <3> QED  BY <3>1 DEF WithKey
  <2> HIDE DEF D, what, by, h
  <2>5. WithKey(D, what, s) = {h[r] : r \in by}
    BY <2>3, <2>4
  <2>6. Cardinality({h[r] : r \in by}) = Cardinality(by)
    BY <2>1, <2>2, CountImage
  <2> QED  BY <2>5, <2>6 DEF by, U
<1>7. (\A d \in D : who[d] \in R) /\ (\A d \in D : what[d] \in U)
  BY <1>4
<1> HIDE DEF D, U, who, what, each
<1>8. Cardinality(D) = SumFunctionOnSet(brought, R)
  BY <1>3, <1>5, <1>7, CountByKey
<1>9. Cardinality(D) = SumFunctionOnSet(times, U)
  BY <1>2, <1>3, <1>6, <1>7, CountByKey
<1> QED  BY <1>8, <1>9 DEF U

----------------------------------------------------------------------------

\* The tables: some of the matches that may be ingested, always finitely many.
Tables == matches \in SUBSET PossibleMatches /\ IsFiniteSet(matches)

LEMMA TablesGrow == TablesSpec => []Tables
<1>1. TablesInit => Tables
  BY FS_EmptySet DEF TablesInit, Tables
<1>2. Tables /\ [TablesNext]_tables => Tables'
  <2> SUFFICES ASSUME Tables, [TablesNext]_tables PROVE Tables'
    OBVIOUS
  <2>1. ASSUME NEW m \in PossibleMatches, Store(m) PROVE Tables'
    BY <2>1, FS_AddElement DEF Tables, Store
  <2>2. ASSUME NEW a, Protect(a) PROVE Tables'
    BY <2>2 DEF Tables, Protect
  <2>3. CASE UNCHANGED tables
    BY <2>3 DEF Tables, tables
  <2> QED  BY <2>1, <2>2, <2>3 DEF TablesNext
<1> QED  BY <1>1, <1>2, PTL DEF TablesSpec

\* The rows of any of them are finitely many, and their columns are of their types.
LEMMA RowsFinite ==
    ASSUME Tables, NEW ms \in SUBSET matches
    PROVE  /\ IsFiniteSet(RowsOf(ms))
           /\ \A r \in RowsOf(ms) :
                /\ r.match \in ms /\ r.p \in r.match.players
                /\ {r.match.id, r.match.start, r.match.duration, r.p.kills, r.p.worth} \subseteq Nat
<1> DEFINE RowsIn(m) == {[match |-> m, p |-> p] : p \in PlayersOf(m)}
<1>1. ASSUME NEW m \in ms PROVE IsFiniteSet(RowsIn(m))
  <2> DEFINE h == [p \in PlayersOf(m) |-> [match |-> m, p |-> p]]
  <2>1. IsFiniteSet(PlayersOf(m))
    BY MatchAssumption, FS_Subset DEF Tables, PlayersOf
  <2>2. IsFiniteSet({h[p] : p \in PlayersOf(m)})
    <3> HIDE DEF h
    <3> QED  BY <2>1, ImageFinite
  <2>3. {h[p] : p \in PlayersOf(m)} = RowsIn(m)
    OBVIOUS
  <2> QED  BY <2>2, <2>3
<1>2. IsFiniteSet({RowsIn(m) : m \in ms})
  <2> DEFINE h == [m \in ms |-> RowsIn(m)]
  <2>1. IsFiniteSet(ms)
    BY FS_Subset DEF Tables
  <2>2. IsFiniteSet({h[m] : m \in ms})
    <3> HIDE DEF h
    <3> QED  BY <2>1, ImageFinite
  <2>3. {h[m] : m \in ms} = {RowsIn(m) : m \in ms}
    OBVIOUS
  <2> QED  BY <2>2, <2>3
<1>3. IsFiniteSet(UNION {RowsIn(m) : m \in ms})
  <2> HIDE DEF RowsIn
  <2>1. \A T \in {RowsIn(m) : m \in ms} : IsFiniteSet(T)
    BY <1>1
  <2> QED  BY <1>2, <2>1, FS_UNION
<1>4. RowsOf(ms) = UNION {RowsIn(m) : m \in ms}
  BY DEF RowsOf
<1>5. \A r \in RowsOf(ms) :
        /\ r.match \in ms /\ r.p \in r.match.players
        /\ {r.match.id, r.match.start, r.match.duration, r.p.kills, r.p.worth} \subseteq Nat
  BY MatchAssumption DEF Tables, RowsOf, PlayersOf
<1> QED  BY <1>3, <1>4, <1>5

LEMMA ChosenAreMatches == \A f : Chosen(f) \subseteq matches
  BY DEF Chosen

----------------------------------------------------------------------------
\* Hero statistics

\* An hour is added at either end at most.
LEMMA WidenedSlightly ==
    ASSUME Tables, NEW f \in InfoFilter
    PROVE  WidenedAtMostAnHour(f)
<1> SUFFICES ASSUME NEW m \in matches
             PROVE  /\ InfoFilters(f, m) => InfoFilters(Rounded(f), m)
                    /\ InfoFilters(Rounded(f), m) =>
                         InfoFilters([f EXCEPT !.minTime = {t - Hour + 1 : t \in @},
                                               !.maxTime = {t + Hour : t \in @}], m)
  BY DEF WidenedAtMostAnHour, Chosen
<1>1. m.start \in Nat /\ Hour \in Nat \ {0}
  BY MatchAssumption, LengthsAssumption DEF Tables
<1>2. f.minTime \subseteq Nat /\ f.maxTime \subseteq Nat
  BY DEF InfoFilter, AnyMatch
<1>3. \A t \in Nat : t % Hour \in 0 .. Hour - 1
  BY <1>1
<1> DEFINE R == Rounded(f)
           W == [f EXCEPT !.minTime = {t - Hour + 1 : t \in @}, !.maxTime = {t + Hour : t \in @}]
<1>4. /\ R.minTime = {t - (t % Hour) : t \in f.minTime}
      /\ R.maxTime = {t + Hour - (t % Hour) : t \in f.maxTime}
      /\ R.minId = f.minId /\ R.maxId = f.maxId /\ R.minDuration = f.minDuration
      /\ R.maxDuration = f.maxDuration /\ R.minBadge = f.minBadge /\ R.maxBadge = f.maxBadge
  BY DEF Rounded, InfoFilter, AnyMatch
<1>5. /\ W.minTime = {t - Hour + 1 : t \in f.minTime}
      /\ W.maxTime = {t + Hour : t \in f.maxTime}
      /\ W.minId = f.minId /\ W.maxId = f.maxId /\ W.minDuration = f.minDuration
      /\ W.maxDuration = f.maxDuration /\ W.minBadge = f.minBadge /\ W.maxBadge = f.maxBadge
  BY DEF InfoFilter, AnyMatch
<1>6. Within(f.minTime, f.maxTime, m.start) => Within(R.minTime, R.maxTime, m.start)
  BY <1>1, <1>2, <1>3, <1>4 DEF Within, AtLeast, AtMost
<1>7. Within(R.minTime, R.maxTime, m.start) => Within(W.minTime, W.maxTime, m.start)
  <2> SUFFICES ASSUME Within(R.minTime, R.maxTime, m.start)
               PROVE  /\ \A t \in f.minTime : m.start >= t - Hour + 1
                      /\ \A t \in f.maxTime : m.start <= t + Hour
    BY <1>5 DEF Within, AtLeast, AtMost
  <2>1. ASSUME NEW t \in f.minTime PROVE m.start >= t - Hour + 1
    <3>1. m.start >= t - (t % Hour)
      BY <1>4 DEF Within, AtLeast
    <3>2. t \in Nat /\ t % Hour \in 0 .. Hour - 1
      BY <1>2, <1>3
    <3> HIDE DEF R, W
    <3> QED  BY <1>1, <3>1, <3>2
  <2>2. ASSUME NEW t \in f.maxTime PROVE m.start <= t + Hour
    <3>1. m.start <= t + Hour - (t % Hour)
      BY <1>4 DEF Within, AtMost
    <3>2. t \in Nat /\ t % Hour \in 0 .. Hour - 1
      BY <1>2, <1>3
    <3> HIDE DEF R, W
    <3> QED  BY <1>1, <3>1, <3>2
  <2> QED  BY <2>1, <2>2
<1> HIDE DEF R, W
<1> QED  BY <1>4, <1>5, <1>6, <1>7 DEF InfoFilters, R, W

LEMMA RangesWidened == Tables => RangeWidenedToHours
  BY WidenedSlightly, HeroQueriesAssumption DEF RangeWidenedToHours

\* Only the accounts that are shown matter to a query that names some.
LEMMA ShownDecide ==
    ASSUME NEW q, DOMAIN q = DOMAIN HeroStatsQuery, Shown(q.accounts) # {}
    PROVE  hero_stats(q) = hero_stats([q EXCEPT !.accounts = @ \ protected])
<1> DEFINE s == [q EXCEPT !.accounts = @ \ protected]
<1>1. /\ s.accounts = Shown(q.accounts)
      /\ s.info = q.info /\ s.bucket = q.bucket
      /\ s.minWorth = q.minWorth /\ s.maxWorth = q.maxWorth
      /\ s.minHero = q.minHero /\ s.maxHero = q.maxHero
      /\ s.minTotal = q.minTotal /\ s.maxTotal = q.maxTotal
      /\ s.include = q.include /\ s.exclude = q.exclude
  BY DEF HeroStatsQuery, Shown
<1> HIDE DEF s
<1>2. Shown(s.accounts) = Shown(q.accounts) /\ q.accounts # {} /\ s.accounts # {}
  BY <1>1 DEF Shown
<1>3. Filtered(s) = Filtered(q)
  BY <1>1, <1>2 DEF Filtered, HeroPlayerFilters, NoneExcluded
<1>4. \A r : HeroMatches(s, r) = HeroMatches(q, r)
  BY <1>3 DEF HeroMatches
<1>5. Counted(s) = Counted(q)
  BY <1>1, <1>3, <1>4 DEF Counted
<1>6. \A m : BucketOf(s, m) = BucketOf(q, m)
  BY <1>1 DEF BucketOf
<1>7. \A hero, bucket : Group(s, hero, bucket) = Group(q, hero, bucket)
  BY <1>5, <1>6 DEF Group
<1>8. \A hero, bucket : MatchesPerBucket(s, hero, bucket) = MatchesPerBucket(q, hero, bucket)
  BY <1>1, <1>5, <1>6, <1>7 DEF MatchesPerBucket
<1>9. BuildHeroQuery(s) = BuildHeroQuery(q)
  BY <1>5, <1>6, <1>7, <1>8 DEF BuildHeroQuery
<1>10. ~Refused(s.accounts) /\ ~Refused(q.accounts)
  BY <1>2 DEF Refused
<1> QED  BY <1>9, <1>10 DEF hero_stats, s

\* Accounts under protection leave no trace in the answer: see ProtectedLeaveNoTrace.
THEOREM ProtectedUnseen == TablesSpec => []ProtectedLeaveNoTrace
<1>1. ProtectedLeaveNoTrace
  <2> SUFFICES ASSUME NEW q \in HeroQueries, q.accounts # {}
               PROVE  hero_stats(q) = IF q.accounts \subseteq protected THEN [refused |-> TRUE]
                                      ELSE hero_stats([q EXCEPT !.accounts = @ \ protected])
    BY DEF ProtectedLeaveNoTrace
  <2>1. CASE q.accounts \subseteq protected
    BY <2>1 DEF hero_stats, Refused, Shown
  <2>2. CASE ~(q.accounts \subseteq protected)
    <3>1. Shown(q.accounts) # {}
      BY <2>2 DEF Shown
    <3> QED  BY <2>2, <3>1, ShownDecide, HeroQueriesAssumption
  <2> QED  BY <2>1, <2>2
<1> QED  BY <1>1, PTL

\* Of two parts, the elements are those of the one and those of the other.
LEMMA TwoParts ==
    ASSUME NEW A, NEW B, IsFiniteSet(A), IsFiniteSet(B), A \cap B = {}
    PROVE  Cardinality(A) + Cardinality(B) = Cardinality(A \cup B)
<1>1. Cardinality(A \cup B) = Cardinality(A) + Cardinality(B) - Cardinality(A \cap B)
  BY FS_Union
<1>2. Cardinality(A) \in Nat /\ Cardinality(B) \in Nat /\ Cardinality(A \cap B) = 0
  BY FS_CardinalityType, FS_EmptySet
<1> QED  BY <1>1, <1>2

\* Inclusion and exclusion.
LEMMA NeitherOfTwo ==
    ASSUME NEW U, IsFiniteSet(U), NEW A \in SUBSET U, NEW B \in SUBSET U
    PROVE  Cardinality(U \ (A \cup B)) + Cardinality(A) + Cardinality(B)
             = Cardinality(U) + Cardinality(A \cap B)
<1>1. IsFiniteSet(A) /\ IsFiniteSet(B) /\ IsFiniteSet(A \cup B) /\ IsFiniteSet(A \cap B)
  BY FS_Subset
<1>2. Cardinality(A \cup B) = Cardinality(A) + Cardinality(B) - Cardinality(A \cap B)
  BY <1>1, FS_Union
<1>3. Cardinality(U \ (A \cup B)) = Cardinality(U) - Cardinality(U \cap (A \cup B))
  BY FS_Difference
<1>4. U \cap (A \cup B) = A \cup B
  OBVIOUS
<1>5. /\ Cardinality(A) \in Nat /\ Cardinality(B) \in Nat /\ Cardinality(A \cap B) \in Nat
      /\ Cardinality(U) \in Nat
  BY <1>1, FS_CardinalityType
<1>6. Cardinality(U \ (A \cup B)) = Cardinality(U) - (Cardinality(A) + Cardinality(B) - Cardinality(A \cap B))
  BY <1>2, <1>3, <1>4
<1> QED  BY <1>5, <1>6

LEMMA CountedFinite ==
    ASSUME Tables, NEW q
    PROVE  IsFiniteSet(Counted(q)) /\ Counted(q) \subseteq RowsOf(matches)
<1>1. Counted(q) \subseteq RowsOf(matches)
  BY DEF Counted, Filtered, RowsOf, Chosen
<1> QED  BY <1>1, RowsFinite, FS_Subset

LEMMA FiltersInclude == Tables => HeroFiltersAddUp
<1> SUFFICES ASSUME Tables, NEW q \in HeroQueries, q.minHero \cup q.maxHero = {}, NEW a, NEW b
             PROVE  LET n(in, out) == Cardinality(Counted([q EXCEPT !.include = in, !.exclude = out]))
                    IN  n({}, {a, b}) + n({a}, {}) + n({b}, {}) = n({}, {}) + n({a, b}, {})
  BY DEF HeroFiltersAddUp
<1> DEFINE Q(in, out) == [q EXCEPT !.include = in, !.exclude = out]
           C(in, out) == Counted(Q(in, out))
           U == C({}, {})
           Buying(i) == {r \in U : i \in r.p.items}
<1>1. ASSUME NEW in, NEW out
      PROVE  C(in, out) = {r \in U : in \subseteq r.p.items /\ out \cap r.p.items = {}}
  <2> DEFINE s == Q(in, out)
             all == Q({}, {})
  <2>1. /\ s.info = q.info /\ s.accounts = q.accounts /\ s.minWorth = q.minWorth
        /\ s.maxWorth = q.maxWorth /\ s.minHero = {} /\ s.maxHero = {}
        /\ s.minTotal = q.minTotal /\ s.maxTotal = q.maxTotal
        /\ s.include = in /\ s.exclude = out
    BY HeroQueriesAssumption DEF HeroStatsQuery
  <2>2. /\ all.info = q.info /\ all.accounts = q.accounts /\ all.minWorth = q.minWorth
        /\ all.maxWorth = q.maxWorth /\ all.minHero = {} /\ all.maxHero = {}
        /\ all.minTotal = q.minTotal /\ all.maxTotal = q.maxTotal
        /\ all.include = {} /\ all.exclude = {}
    BY HeroQueriesAssumption DEF HeroStatsQuery
  <2> HIDE DEF s, all
  <2>3. ~Limiting({}, {})
    BY DEF Limiting
  <2>4. Filtered(s) = {r \in Filtered(all) : in \subseteq r.p.items /\ out \cap r.p.items = {}}
    BY <2>1, <2>2 DEF Filtered, HeroPlayerFilters, NoneExcluded
  <2>5. Counted(s) = {r \in Counted(all) : in \subseteq r.p.items /\ out \cap r.p.items = {}}
    BY <2>1, <2>2, <2>3, <2>4 DEF Counted
  <2> QED  BY <2>5 DEF s, all
<1>2. IsFiniteSet(U)
  BY CountedFinite
<1> HIDE DEF C
<1>3. /\ C({}, {a, b}) = U \ (Buying(a) \cup Buying(b))
      /\ C({a}, {}) = Buying(a) /\ C({b}, {}) = Buying(b)
      /\ C({a, b}, {}) = Buying(a) \cap Buying(b)
  <2> HIDE DEF U
  <2>1. C({}, {a, b}) = U \ (Buying(a) \cup Buying(b))
    <3>1. \A r : ({} \subseteq r.p.items /\ {a, b} \cap r.p.items = {})
                   <=> (a \notin r.p.items /\ b \notin r.p.items)
      OBVIOUS
    <3>2. C({}, {a, b}) = {r \in U : {} \subseteq r.p.items /\ {a, b} \cap r.p.items = {}}
      BY <1>1
    <3> QED  BY <3>1, <3>2
  <2>2. ASSUME NEW i PROVE C({i}, {}) = Buying(i)
    <3>1. C({i}, {}) = {r \in U : {i} \subseteq r.p.items /\ {} \cap r.p.items = {}}
      BY <1>1
    <3> QED  BY <3>1
  <2>3. C({a, b}, {}) = Buying(a) \cap Buying(b)
    <3>1. C({a, b}, {}) = {r \in U : {a, b} \subseteq r.p.items /\ {} \cap r.p.items = {}}
      BY <1>1
    <3> QED  BY <3>1
  <2> QED  BY <2>1, <2>2, <2>3
<1>4. Buying(a) \in SUBSET U /\ Buying(b) \in SUBSET U
  OBVIOUS
<1> HIDE DEF U, Buying
<1>5. Cardinality(C({}, {a, b})) + Cardinality(C({a}, {})) + Cardinality(C({b}, {}))
        = Cardinality(U) + Cardinality(C({a, b}, {}))
  <2>1. Cardinality(U \ (Buying(a) \cup Buying(b))) + Cardinality(Buying(a)) + Cardinality(Buying(b))
          = Cardinality(U) + Cardinality(Buying(a) \cap Buying(b))
    BY <1>2, <1>4, NeitherOfTwo
  <2> QED  BY <1>3, <2>1
<1> QED  BY <1>5 DEF U, C

LEMMA HeroStatsFields ==
    ASSUME NEW rows
    PROVE  /\ AnalyticsHeroStats(rows).wins = Cardinality(WonIn(rows))
           /\ AnalyticsHeroStats(rows).losses = Cardinality(rows \ WonIn(rows))
           /\ AnalyticsHeroStats(rows).kills = KillsIn(rows)
  BY DEF AnalyticsHeroStats

\* The wins and losses of some rows, and what their players killed, part by part.
LEMMA WinsByKey ==
    ASSUME NEW rows, IsFiniteSet(rows), NEW K, IsFiniteSet(K), NEW key, \A r \in rows : key[r] \in K,
           NEW wins, \A k \in K : wins[k] = Cardinality(WonIn(WithKey(rows, key, k)))
    PROVE  Cardinality(WonIn(rows)) = SumFunctionOnSet(wins, K)
<1> DEFINE won == WonIn(rows)
<1>1. \A k \in K : wins[k] = Cardinality(WithKey(won, key, k))
  <2> TAKE k \in K
  <2>1. WonIn(WithKey(rows, key, k)) = WithKey(won, key, k)
    BY DEF WonIn, WithKey
  <2> QED  BY <2>1
<1>2. IsFiniteSet(won) /\ (\A r \in won : key[r] \in K)
  BY FS_Subset DEF WonIn
<1> HIDE DEF won
<1>3. Cardinality(won) = SumFunctionOnSet(wins, K)
  BY <1>1, <1>2, CountByKey
<1> QED  BY <1>3 DEF won

LEMMA LossesByKey ==
    ASSUME NEW rows, IsFiniteSet(rows), NEW K, IsFiniteSet(K), NEW key, \A r \in rows : key[r] \in K,
           NEW losses, \A k \in K : losses[k] = Cardinality(WithKey(rows, key, k) \ WonIn(WithKey(rows, key, k)))
    PROVE  Cardinality(rows \ WonIn(rows)) = SumFunctionOnSet(losses, K)
<1> DEFINE lost == rows \ WonIn(rows)
<1>1. \A k \in K : losses[k] = Cardinality(WithKey(lost, key, k))
  <2> TAKE k \in K
  <2>1. WithKey(rows, key, k) \ WonIn(WithKey(rows, key, k)) = WithKey(lost, key, k)
    BY DEF WonIn, WithKey
  <2> QED  BY <2>1
<1>2. IsFiniteSet(lost) /\ (\A r \in lost : key[r] \in K)
  BY FS_Subset DEF WonIn
<1> HIDE DEF lost
<1>3. Cardinality(lost) = SumFunctionOnSet(losses, K)
  BY <1>1, <1>2, CountByKey
<1> QED  BY <1>3 DEF lost

LEMMA KillsByKey ==
    ASSUME NEW rows, IsFiniteSet(rows), \A r \in rows : r.p.kills \in Nat,
           NEW K, IsFiniteSet(K), NEW key, \A r \in rows : key[r] \in K,
           NEW kills, \A k \in K : kills[k] = KillsIn(WithKey(rows, key, k))
    PROVE  KillsIn(rows) = SumFunctionOnSet(kills, K)
<1> DEFINE killed == [r \in rows |-> r.p.kills]
<1>1. \A k \in K : kills[k] = SumFunctionOnSet(killed, WithKey(rows, key, k))
  <2> TAKE k \in K
  <2> DEFINE P == WithKey(rows, key, k)
             here == [r \in P |-> r.p.kills]
  <2>1. KillsIn(P) = SumFunctionOnSet(here, P)
    BY DEF SumFunction, KillsIn
  <2>2. P \subseteq rows /\ IsFiniteSet(P)
    BY FS_Subset DEF WithKey
  <2>3. \A r \in P : here[r] \in Int /\ here[r] = killed[r]
    BY <2>2
  <2>4. SumFunctionOnSet(here, P) = SumFunctionOnSet(killed, P)
    <3> HIDE DEF here, killed, P
    <3> QED  BY <2>2, <2>3, SumEqual
  <2> QED  BY <2>1, <2>4
<1>2. \A r \in rows : killed[r] \in Int
  OBVIOUS
<1>3. KillsIn(rows) = SumFunctionOnSet(killed, rows)
  BY DEF SumFunction, KillsIn
<1> HIDE DEF killed
<1> QED  BY <1>1, <1>2, <1>3, SumByKey

\* Whatever the bucket, the buckets of a hero add up.
LEMMA BucketsTogether == Tables => BucketsAddUp
<1> SUFFICES ASSUME Tables, NEW q \in HeroQueries, ~Refused(q.accounts)
             PROVE  LET all == hero_stats(Unbucketed(q))
                        parts == hero_stats(q)
                    IN  /\ DOMAIN all = {<<key[1], 0>> : key \in DOMAIN parts}
                        /\ \A h \in {key[1] : key \in DOMAIN parts} :
                         LET whole == all[<<h, 0>>].stats
                             part(b) == parts[<<h, b>>].stats
                         IN  /\ whole.wins = SumFunction([b \in BucketsOf(q, h) |-> part(b).wins])
                             /\ whole.losses = SumFunction([b \in BucketsOf(q, h) |-> part(b).losses])
                             /\ whole.kills = SumFunction([b \in BucketsOf(q, h) |-> part(b).kills])
  BY DEF BucketsAddUp
<1> DEFINE u == Unbucketed(q)
           all == hero_stats(u)
           parts == hero_stats(q)
<1>1. /\ u.info = q.info /\ u.accounts = q.accounts /\ u.minWorth = q.minWorth
      /\ u.maxWorth = q.maxWorth /\ u.minHero = q.minHero /\ u.maxHero = q.maxHero
      /\ u.minTotal = q.minTotal /\ u.maxTotal = q.maxTotal
      /\ u.include = q.include /\ u.exclude = q.exclude /\ u.bucket = "no_bucket"
  BY HeroQueriesAssumption DEF Unbucketed, HeroStatsQuery
<1> HIDE DEF u
<1>2. \A m : BucketOf(u, m) = 0
  BY <1>1, HeroQueriesAssumption DEF BucketOf
<1>3. Counted(u) = Counted(q)
  <2>1. Filtered(u) = Filtered(q)
    BY <1>1 DEF Filtered, HeroPlayerFilters, NoneExcluded
  <2>2. \A r : HeroMatches(u, r) = HeroMatches(q, r)
    BY <2>1 DEF HeroMatches
  <2> QED  BY <1>1, <2>1, <2>2 DEF Counted
<1>4. ~Refused(u.accounts)
  BY <1>1
<1>5. all = BuildHeroQuery(u) /\ parts = BuildHeroQuery(q)
  BY <1>4 DEF hero_stats
<1>6. /\ DOMAIN all = {<<r.p.hero, BucketOf(u, r.match)>> : r \in Counted(u)}
      /\ DOMAIN parts = {<<r.p.hero, BucketOf(q, r.match)>> : r \in Counted(q)}
      /\ \A key \in DOMAIN all : all[key].stats = AnalyticsHeroStats(Group(u, key[1], key[2]))
      /\ \A key \in DOMAIN parts : parts[key].stats = AnalyticsHeroStats(Group(q, key[1], key[2]))
  BY <1>5 DEF BuildHeroQuery
<1> HIDE DEF all, parts
<1>7. DOMAIN all = {<<key[1], 0>> : key \in DOMAIN parts}
  <2>1. DOMAIN all = {<<r.p.hero, 0>> : r \in Counted(q)}
    BY <1>2, <1>3, <1>6
  <2>2. \A key \in DOMAIN parts : \E r \in Counted(q) : key[1] = r.p.hero
    <3>1. ASSUME NEW key \in DOMAIN parts PROVE \E r \in Counted(q) : key[1] = r.p.hero
      <4>1. PICK r \in Counted(q) : key = <<r.p.hero, BucketOf(q, r.match)>>
        BY <1>6
      <4> QED  BY <4>1
    <3> QED  BY <3>1
  <2>3. \A r \in Counted(q) : \E key \in DOMAIN parts : key[1] = r.p.hero
    <3>1. ASSUME NEW r \in Counted(q) PROVE \E key \in DOMAIN parts : key[1] = r.p.hero
      <4>1. <<r.p.hero, BucketOf(q, r.match)>> \in DOMAIN parts
        BY <1>6
      <4>2. <<r.p.hero, BucketOf(q, r.match)>>[1] = r.p.hero
        OBVIOUS
      <4> QED  BY <4>1, <4>2
    <3> QED  BY <3>1
  <2> QED  BY <2>1, <2>2, <2>3
<1>8. ASSUME NEW h \in {key[1] : key \in DOMAIN parts}
      PROVE  LET whole == all[<<h, 0>>].stats
                 part(b) == parts[<<h, b>>].stats
             IN  /\ whole.wins = SumFunction([b \in BucketsOf(q, h) |-> part(b).wins])
                 /\ whole.losses = SumFunction([b \in BucketsOf(q, h) |-> part(b).losses])
                 /\ whole.kills = SumFunction([b \in BucketsOf(q, h) |-> part(b).kills])
  <2> DEFINE rows == {r \in Counted(q) : r.p.hero = h}
             key == [r \in rows |-> BucketOf(q, r.match)]
             B == BucketsOf(q, h)
             part(b) == parts[<<h, b>>].stats
             wins == [b \in B |-> part(b).wins]
             losses == [b \in B |-> part(b).losses]
             kills == [b \in B |-> part(b).kills]
             whole == all[<<h, 0>>].stats
  <2>1. whole = AnalyticsHeroStats(rows)
    <3>1. <<h, 0>> \in DOMAIN all
      BY <1>7
    <3>2. Group(u, h, 0) = rows
      BY <1>2, <1>3 DEF Group
    <3>3. all[<<h, 0>>].stats = AnalyticsHeroStats(Group(u, <<h, 0>>[1], <<h, 0>>[2]))
      BY <1>6, <3>1
    <3> QED  BY <3>2, <3>3
  <2>2. B = {key[r] : r \in rows}
    BY DEF BucketsOf
  <2>3. ASSUME NEW b \in B PROVE part(b) = AnalyticsHeroStats(WithKey(rows, key, b))
    <3>1. Group(q, h, b) = WithKey(rows, key, b)
      BY DEF Group, WithKey
    <3>2. <<h, b>> \in DOMAIN parts
      BY <1>6 DEF BucketsOf
    <3>3. parts[<<h, b>>].stats = AnalyticsHeroStats(Group(q, <<h, b>>[1], <<h, b>>[2]))
      BY <1>6, <3>2
    <3> QED  BY <3>1, <3>3
  <2>4. IsFiniteSet(rows) /\ (\A r \in rows : r.p.kills \in Nat)
    <3>1. IsFiniteSet(rows)
      BY CountedFinite, FS_Subset
    <3>2. \A r \in Counted(q) : r.p.kills \in Nat
      BY CountedFinite, RowsFinite
    <3> QED  BY <3>1, <3>2
  <2>5. \A r \in rows : key[r] \in B
    BY <2>2
  <2>6. \A b \in B : LET P == WithKey(rows, key, b)
                     IN  /\ wins[b] = Cardinality(WonIn(P))
                         /\ losses[b] = Cardinality(P \ WonIn(P))
                         /\ kills[b] = KillsIn(P)
    <3> HIDE DEF B, key, rows
    <3>1. \A b \in B : wins[b] = part(b).wins /\ losses[b] = part(b).losses /\ kills[b] = part(b).kills
      OBVIOUS
    <3> HIDE DEF part, wins, losses, kills
    <3> QED  BY <2>3, <3>1, HeroStatsFields
  <2>7. /\ SumFunction(wins) = SumFunctionOnSet(wins, B)
        /\ SumFunction(losses) = SumFunctionOnSet(losses, B)
        /\ SumFunction(kills) = SumFunctionOnSet(kills, B)
    BY DEF SumFunction
  <2> HIDE DEF rows, key, B, wins, losses, kills
  <2>8. IsFiniteSet(B)
    BY <2>2, <2>4, ImageFinite
  <2>9. Cardinality(WonIn(rows)) = SumFunctionOnSet(wins, B)
    <3>1. \A b \in B : wins[b] = Cardinality(WonIn(WithKey(rows, key, b)))
      BY <2>6
    <3> QED  BY <2>4, <2>5, <2>8, <3>1, WinsByKey
  <2>10. Cardinality(rows \ WonIn(rows)) = SumFunctionOnSet(losses, B)
    <3>1. \A b \in B : losses[b] = Cardinality(WithKey(rows, key, b) \ WonIn(WithKey(rows, key, b)))
      BY <2>6
    <3> QED  BY <2>4, <2>5, <2>8, <3>1, LossesByKey, ZenonT(40)
  <2>11. KillsIn(rows) = SumFunctionOnSet(kills, B)
    <3>1. \A b \in B : kills[b] = KillsIn(WithKey(rows, key, b))
      BY <2>6
    <3> QED  BY <2>4, <2>5, <2>8, <3>1, KillsByKey
  <2>12. whole.wins = SumFunction(wins) /\ whole.losses = SumFunction(losses) /\ whole.kills = SumFunction(kills)
    BY <2>1, <2>7, <2>9, <2>10, <2>11, HeroStatsFields
  <2> QED  BY <2>12 DEF wins, losses, kills, B
<1> QED  BY <1>7, <1>8 DEF all, parts, u

\* The hero statistics fit together: see RangeWidenedToHours, BucketsAddUp and
\* HeroFiltersAddUp.
THEOREM HeroStatsFit == TablesSpec => []HeroStatsAddUp
<1>1. Tables => HeroStatsAddUp
  BY RangesWidened, BucketsTogether, FiltersInclude DEF HeroStatsAddUp
<1> QED  BY <1>1, TablesGrow, PTL

----------------------------------------------------------------------------
\* Kills and deaths by place

Died(q) == {e \in Deaths(q) : PlayerFilters(q, e.p)}
Killed(q) == {e \in Deaths(q) : KilledBy(q, e)}
EventOf(q, type) == {v \in Events(q) : v.type = type}

LEMMA DeathsFinite ==
    ASSUME Tables, NEW q
    PROVE  IsFiniteSet(Deaths(q))
<1> DEFINE rows == RowsOf(KillDeathMatches(q))
           here(r) == {d \in r.p.death_details : Within(q.minAt, q.maxAt, d.at)}
           of == [r \in rows |-> {[match |-> r.match, p |-> r.p, d |-> d] : d \in here(r)}]
<1>1. IsFiniteSet(rows)
  BY RowsFinite DEF KillDeathMatches
<1>2. ASSUME NEW r \in rows PROVE IsFiniteSet(of[r])
  <2> DEFINE h == [d \in here(r) |-> [match |-> r.match, p |-> r.p, d |-> d]]
  <2>1. r.match \in matches /\ r.p \in r.match.players
    BY RowsFinite DEF KillDeathMatches
  <2>2. IsFiniteSet(r.p.death_details)
    BY <2>1, PlayersAssumption DEF Tables
  <2>3. IsFiniteSet(here(r))
    BY <2>2, FS_Subset
  <2>4. of[r] = {h[d] : d \in here(r)}
    OBVIOUS
  <2>5. IsFiniteSet({h[d] : d \in here(r)})
    <3> HIDE DEF h, here
    <3> QED  BY <2>3, ImageFinite
  <2> QED  BY <2>4, <2>5
<1>3. Deaths(q) = UNION {of[r] : r \in rows}
  BY DEF Deaths
<1> HIDE DEF rows, of
<1> QED  BY <1>1, <1>2, <1>3, UnionFinite

\* The events of each type are as many as what they are made of.
LEMMA EventsOfType ==
    ASSUME Tables, NEW q
    PROVE  /\ IsFiniteSet(Events(q))
           /\ Cardinality(EventOf(q, "death")) = Cardinality(Died(q))
           /\ Cardinality(EventOf(q, "kill")) = Cardinality(Killed(q))
<1>1. IsFiniteSet(Died(q)) /\ IsFiniteSet(Killed(q))
  BY DeathsFinite, FS_Subset DEF Died, Killed
<1> DEFINE dead == [e \in Died(q) |-> [type |-> "death", x |-> Raster(e.d.pos), team |-> KillerTeam(e), e |-> e]]
           kill == [e \in Killed(q) |-> [type |-> "kill", x |-> Raster(e.d.from), team |-> KillerTeam(e), e |-> e]]
<1>2. /\ EventOf(q, "death") = {dead[e] : e \in Died(q)}
      /\ EventOf(q, "kill") = {kill[e] : e \in Killed(q)}
      /\ Events(q) = EventOf(q, "death") \cup EventOf(q, "kill")
  BY DEF EventOf, Events, Died, Killed
<1>3. /\ \A d, e \in Died(q) : dead[d] = dead[e] => d = e
      /\ \A d, e \in Killed(q) : kill[d] = kill[e] => d = e
  OBVIOUS
<1> HIDE DEF dead, kill
<1>4. IsFiniteSet(EventOf(q, "death")) /\ Cardinality(EventOf(q, "death")) = Cardinality(Died(q))
  BY <1>1, <1>2, <1>3, CountImage
<1>5. IsFiniteSet(EventOf(q, "kill")) /\ Cardinality(EventOf(q, "kill")) = Cardinality(Killed(q))
  BY <1>1, <1>2, <1>3, CountImage
<1>6. IsFiniteSet(EventOf(q, "death") \cup EventOf(q, "kill"))
  BY <1>4, <1>5, FS_Union
<1> QED  BY <1>2, <1>4, <1>5, <1>6

\* Over all cells, a death is counted in one of them and so is a kill.
LEMMA CellsAddUp ==
    ASSUME Tables, NEW q, q.minKills \cup q.maxKills \cup q.minDeaths \cup q.maxDeaths = {}
    PROVE  /\ DeathsOf(kill_death_stats(q)) = Cardinality(Died(q))
           /\ KillsOf(kill_death_stats(q)) = Cardinality(Killed(q))
<1> DEFINE cells == {<<v.x, v.team>> : v \in Events(q)}
           cell == [v \in Events(q) |-> <<v.x, v.team>>]
           all == kill_death_stats(q)
           deaths == [c \in cells |-> all[c].deaths]
           kills == [c \in cells |-> all[c].kills]
<1>1. /\ DOMAIN all = cells
      /\ \A c \in cells : all[c] = KillDeathStats({v \in Events(q) : <<v.x, v.team>> = c})
  <2>1. \A n : Within(q.minKills, q.maxKills, n) /\ Within(q.minDeaths, q.maxDeaths, n)
    BY DEF Within, AtLeast, AtMost
  <2> QED  BY <2>1 DEF kill_death_stats
<1>2. /\ DeathsOf(all) = SumFunctionOnSet(deaths, cells)
      /\ KillsOf(all) = SumFunctionOnSet(kills, cells)
  <2> HIDE DEF all, cells
  <2> QED  BY <1>1 DEF DeathsOf, KillsOf, SumOf, SumFunction
<1>3. \A c \in cells : /\ deaths[c] = Cardinality(WithKey(EventOf(q, "death"), cell, c))
                       /\ kills[c] = Cardinality(WithKey(EventOf(q, "kill"), cell, c))
  <2> TAKE c \in cells
  <2> DEFINE here == {v \in Events(q) : <<v.x, v.team>> = c}
  <2>1. /\ {v \in here : v.type = "death"} = WithKey(EventOf(q, "death"), cell, c)
        /\ {v \in here : v.type = "kill"} = WithKey(EventOf(q, "kill"), cell, c)
    BY DEF WithKey, EventOf
  <2>2. deaths[c] = KillDeathStats(here).deaths /\ kills[c] = KillDeathStats(here).kills
    BY <1>1
  <2> HIDE DEF here, deaths, kills
  <2> QED  BY <2>1, <2>2 DEF KillDeathStats
<1>4. /\ cells = {cell[v] : v \in Events(q)}
      /\ \A v \in EventOf(q, "death") : cell[v] \in cells
      /\ \A v \in EventOf(q, "kill") : cell[v] \in cells
  BY DEF EventOf
<1> HIDE DEF cells, cell, all, deaths, kills
<1>5. IsFiniteSet(cells)
  BY <1>4, EventsOfType, ImageFinite
<1>6. IsFiniteSet(EventOf(q, "death")) /\ IsFiniteSet(EventOf(q, "kill"))
  BY EventsOfType, FS_Subset DEF EventOf
<1>7. Cardinality(EventOf(q, "death")) = SumFunctionOnSet(deaths, cells)
  BY <1>3, <1>4, <1>5, <1>6, CountByKey
<1>8. Cardinality(EventOf(q, "kill")) = SumFunctionOnSet(kills, cells)
  BY <1>3, <1>4, <1>5, <1>6, CountByKey
<1> QED  BY <1>2, <1>7, <1>8, EventsOfType DEF all

\* A query without bounds on its cells, for every team or for one.
Opened(c, q) ==
    /\ c.minKills = {} /\ c.maxKills = {} /\ c.minDeaths = {} /\ c.maxDeaths = {}
    /\ c.info = q.info /\ c.accounts = q.accounts /\ c.heroes = q.heroes
    /\ c.minWorth = q.minWorth /\ c.maxWorth = q.maxWorth
    /\ c.minAt = q.minAt /\ c.maxAt = q.maxAt

ForTeam(q, t) == [AllCells(q) EXCEPT !.teams = {t}]

LEMMA OpenFields ==
    ASSUME NEW q \in KillDeathQueries, NEW t
    PROVE  /\ Opened(AllCells(q), q) /\ AllCells(q).teams = q.teams
           /\ Opened(ForTeam(q, t), q) /\ ForTeam(q, t).teams = {t}
  BY KillDeathQueriesAssumption DEF AllCells, KillDeathStatsQuery, Opened, ForTeam

LEMMA OpenDeaths ==
    ASSUME NEW q, NEW c, Opened(c, q)
    PROVE  Deaths(c) = Deaths(q)
  BY DEF Opened, Deaths, KillDeathMatches

LEMMA KillsMirror == Tables => KillsMirrorDeaths
<1> SUFFICES ASSUME Tables, NEW q \in KillDeathQueries, NoPlayerFilters(q)
             PROVE  LET all == kill_death_stats(AllCells(q))
                        of(t) == kill_death_stats([AllCells(q) EXCEPT !.teams = {t}])
                    IN  /\ DeathsOf(of(0)) + DeathsOf(of(1)) = DeathsOf(all)
                        /\ KillsOf(all) = DeathsOf(all)
                        /\ \A t \in {0, 1} : KillsOf(of(t)) <= DeathsOf(of(1 - t))
  BY DEF KillsMirrorDeaths
<1> DEFINE all == AllCells(q)
           OneTeam(t) == ForTeam(q, t)
           D == Deaths(q)
           On(t) == {e \in D : e.p.team = t}
<1>1. \A t : Deaths(all) = D /\ Deaths(OneTeam(t)) = D
  BY OpenFields, OpenDeaths
<1>2. \A e : PlayerFilters(all, e.p) /\ KilledBy(all, e)
  <2>1. NoPlayerFilters(all)
    BY OpenFields DEF NoPlayerFilters, Opened
  <2> QED  BY <2>1 DEF NoPlayerFilters, KilledBy, PlayerFilters, Within, AtLeast, AtMost
<1>3. \A t \in {0, 1} : \A p : PlayerFilters(OneTeam(t), p) <=> p.team = t
  <2> TAKE t \in {0, 1}
  <2>1. /\ OneTeam(t).accounts = {} /\ OneTeam(t).heroes = {} /\ OneTeam(t).minWorth = {} /\ OneTeam(t).maxWorth = {}
        /\ OneTeam(t).teams \cap {0, 1} = {t}
    BY OpenFields DEF NoPlayerFilters, Opened
  <2> HIDE DEF OneTeam
  <2> QED  BY <2>1 DEF PlayerFilters, Within, AtLeast, AtMost
<1>4. \A t \in {0, 1} : ~NoPlayerFilters(OneTeam(t))
  <2> TAKE t \in {0, 1}
  <2>1. t \in OneTeam(t).teams \cap {0, 1}
    BY OpenFields
  <2> QED  BY <2>1 DEF NoPlayerFilters
<1>5. \A e \in D : /\ e.match \in matches /\ e.p \in e.match.players
                   /\ e.d \in e.p.death_details
  <2>1. \A e \in D : \E r \in RowsOf(KillDeathMatches(q)) :
          e.match = r.match /\ e.p = r.p /\ e.d \in r.p.death_details
    BY DEF Deaths
  <2>2. \A r \in RowsOf(KillDeathMatches(q)) : r.match \in matches /\ r.p \in r.match.players
    BY RowsFinite DEF KillDeathMatches
  <2> HIDE DEF D
  <2> QED  BY <2>1, <2>2
<1> HIDE DEF all, OneTeam, D
<1>6. Died(all) = D /\ Killed(all) = D
  BY <1>1, <1>2 DEF Died, Killed
<1>7. \A t \in {0, 1} : Died(OneTeam(t)) = On(t)
  BY <1>1, <1>3 DEF Died
<1>8. \A t \in {0, 1} : Killed(OneTeam(t)) \subseteq On(1 - t)
  <2> SUFFICES ASSUME NEW t \in {0, 1}, NEW e \in Killed(OneTeam(t)) PROVE e \in On(1 - t)
    OBVIOUS
  <2>1. e \in D /\ KilledBy(OneTeam(t), e)
    BY <1>1 DEF Killed
  <2>2. PICK r \in RowsOf({e.match}) : r.p.slot = e.d.by /\ r.p.team = t
    BY <1>3, <1>4, <2>1 DEF KilledBy
  <2>3. r.p \in e.match.players
    BY <2>2 DEF RowsOf, PlayersOf
  <2>4. r.p.team # e.p.team /\ r.p.team \in {0, 1} /\ e.p.team \in {0, 1}
    BY <1>5, <2>1, <2>2, <2>3, PlayersAssumption DEF Tables
  <2> QED  BY <2>1, <2>2, <2>4
<1>9. IsFiniteSet(D) /\ IsFiniteSet(On(0)) /\ IsFiniteSet(On(1))
  <2>1. IsFiniteSet(D)
    BY DeathsFinite DEF D
  <2> QED  BY <2>1, FS_Subset
<1>10. Cardinality(D) = Cardinality(On(0)) + Cardinality(On(1))
  <2>1. D = On(0) \cup On(1)
    BY <1>5, PlayersAssumption DEF Tables
  <2>2. On(0) \cap On(1) = {}
    OBVIOUS
  <2> HIDE DEF On
  <2>3. Cardinality(On(0) \cup On(1)) = Cardinality(On(0)) + Cardinality(On(1)) - Cardinality(On(0) \cap On(1))
    BY <1>9, FS_Union
  <2>4. Cardinality(On(0)) \in Nat /\ Cardinality(On(1)) \in Nat /\ Cardinality({}) = 0
    BY <1>9, FS_CardinalityType, FS_EmptySet
  <2>5. Cardinality(D) = Cardinality(On(0)) + Cardinality(On(1)) - 0
    BY <2>1, <2>2, <2>3, <2>4
  <2> QED  BY <2>4, <2>5
<1>11. \A t \in {0, 1} : Cardinality(Killed(OneTeam(t))) <= Cardinality(On(1 - t))
  <2> TAKE t \in {0, 1}
  <2>1. 1 - t \in {0, 1} /\ (\A u \in {0, 1} : IsFiniteSet(On(u)))
    BY <1>9
  <2> QED  BY <1>8, <2>1, FS_Subset
<1>12. \A c \in {all, OneTeam(0), OneTeam(1)} : /\ DeathsOf(kill_death_stats(c)) = Cardinality(Died(c))
                                      /\ KillsOf(kill_death_stats(c)) = Cardinality(Killed(c))
  <2>1. \A c \in {all, OneTeam(0), OneTeam(1)} : c.minKills \cup c.maxKills \cup c.minDeaths \cup c.maxDeaths = {}
    BY OpenFields DEF all, OneTeam, Opened
  <2> QED  BY <2>1, CellsAddUp
<1>13. DeathsOf(kill_death_stats(OneTeam(0))) + DeathsOf(kill_death_stats(OneTeam(1))) = DeathsOf(kill_death_stats(all))
  BY <1>6, <1>7, <1>10, <1>12
<1>14. KillsOf(kill_death_stats(all)) = DeathsOf(kill_death_stats(all))
  BY <1>6, <1>12
<1>15. \A t \in {0, 1} : KillsOf(kill_death_stats(OneTeam(t))) <= DeathsOf(kill_death_stats(OneTeam(1 - t)))
  <2> TAKE t \in {0, 1}
  <2>1. 1 - t \in {0, 1}
    OBVIOUS
  <2> DEFINE killed == KillsOf(kill_death_stats(OneTeam(t)))
             died == DeathsOf(kill_death_stats(OneTeam(1 - t)))
  <2>2. killed = Cardinality(Killed(OneTeam(t)))
    BY <1>12
  <2>3. died = Cardinality(On(1 - t))
    BY <1>7, <1>12, <2>1
  <2> HIDE DEF killed, died
  <2>4. killed <= died
    BY <1>11, <2>2, <2>3
  <2> QED  BY <2>4 DEF killed, died
<1> QED  BY <1>13, <1>14, <1>15 DEF all, OneTeam, ForTeam

\* A range of time cut in two.
Until(f, t) == [f EXCEPT !.maxTime = {t}]
From(f, t) == [f EXCEPT !.minTime = {t + 1}]

LEMMA TimesMeet ==
    ASSUME NEW f, DOMAIN f = DOMAIN AnyInfo, f.minTime \cup f.maxTime \subseteq Nat,
           NEW t \in Nat, Within(f.minTime, f.maxTime, t), NEW m, m.start \in Nat
    PROVE  /\ MatchFilters(f, m) <=> MatchFilters(Until(f, t), m) \/ MatchFilters(From(f, t), m)
           /\ ~(MatchFilters(Until(f, t), m) /\ MatchFilters(From(f, t), m))
<1> DEFINE b == Until(f, t)
           a == From(f, t)
           Rest(g) == /\ Within(g.minId, g.maxId, m.id)
                      /\ AtMost(g.maxDuration, m.duration)
                      /\ g.in \subseteq m.pools
                      /\ g.out \cap m.pools = {}
<1>1. /\ b.minTime = f.minTime /\ b.maxTime = {t} /\ a.minTime = {t + 1} /\ a.maxTime = f.maxTime
      /\ \A g \in {a, b} : /\ g.minId = f.minId /\ g.maxId = f.maxId /\ g.maxDuration = f.maxDuration
                           /\ g.in = f.in /\ g.out = f.out
  BY DEF AnyInfo, Until, From
<1> HIDE DEF a, b
<1>2. /\ MatchFilters(f, m) <=> Within(f.minTime, f.maxTime, m.start) /\ Rest(f)
      /\ MatchFilters(b, m) <=> Within(f.minTime, {t}, m.start) /\ Rest(f)
      /\ MatchFilters(a, m) <=> Within({t + 1}, f.maxTime, m.start) /\ Rest(f)
  BY <1>1 DEF MatchFilters
<1>3. /\ Within(f.minTime, f.maxTime, m.start)
           <=> Within(f.minTime, {t}, m.start) \/ Within({t + 1}, f.maxTime, m.start)
      /\ ~(Within(f.minTime, {t}, m.start) /\ Within({t + 1}, f.maxTime, m.start))
  BY DEF Within, AtLeast, AtMost
<1> HIDE DEF Rest
<1> QED  BY <1>2, <1>3 DEF a, b

\* The same query of other matches.
SamePlayers(c, q) ==
    /\ c.accounts = q.accounts /\ c.heroes = q.heroes /\ c.teams = q.teams
    /\ c.minWorth = q.minWorth /\ c.maxWorth = q.maxWorth
    /\ c.minAt = q.minAt /\ c.maxAt = q.maxAt

LEMMA EventsOfFewer ==
    ASSUME NEW q, NEW c, SamePlayers(c, q), KillDeathMatches(c) \subseteq KillDeathMatches(q)
    PROVE  /\ Events(c) = {v \in Events(q) : v.e.match \in KillDeathMatches(c)}
           /\ \A v \in Events(q) : v.e.match \in KillDeathMatches(q)
<1>1. Deaths(c) = {e \in Deaths(q) : e.match \in KillDeathMatches(c)}
  <2>1. RowsOf(KillDeathMatches(c)) = {r \in RowsOf(KillDeathMatches(q)) : r.match \in KillDeathMatches(c)}
    BY DEF RowsOf
  <2> QED  BY <2>1 DEF Deaths, SamePlayers
<1>2. \A e \in Deaths(q) : e.match \in KillDeathMatches(q)
  <2>1. \A r \in RowsOf(KillDeathMatches(q)) : r.match \in KillDeathMatches(q)
    BY DEF RowsOf
  <2> QED  BY <2>1 DEF Deaths
<1>3. \A e : (PlayerFilters(c, e.p) <=> PlayerFilters(q, e.p)) /\ (KilledBy(c, e) <=> KilledBy(q, e))
  <2>1. \A p : PlayerFilters(c, p) <=> PlayerFilters(q, p)
    BY DEF SamePlayers, PlayerFilters
  <2>2. NoPlayerFilters(c) <=> NoPlayerFilters(q)
    BY DEF SamePlayers, NoPlayerFilters
  <2> QED  BY <2>1, <2>2 DEF KilledBy
<1>4. Events(c) = {v \in Events(q) : v.e.match \in KillDeathMatches(c)}
  <2> DEFINE dead(e) == [type |-> "death", x |-> Raster(e.d.pos), team |-> KillerTeam(e), e |-> e]
             kill(e) == [type |-> "kill", x |-> Raster(e.d.from), team |-> KillerTeam(e), e |-> e]
  <2>1. /\ Events(c) = {dead(e) : e \in Died(c)} \cup {kill(e) : e \in Killed(c)}
        /\ Events(q) = {dead(e) : e \in Died(q)} \cup {kill(e) : e \in Killed(q)}
    BY DEF Events, Died, Killed
  <2>2. /\ Died(c) = {e \in Died(q) : e.match \in KillDeathMatches(c)}
        /\ Killed(c) = {e \in Killed(q) : e.match \in KillDeathMatches(c)}
    BY <1>1, <1>3 DEF Died, Killed
  <2>3. \A e : dead(e).e = e /\ kill(e).e = e
    OBVIOUS
  <2> HIDE DEF dead, kill
  <2> QED  BY <2>1, <2>2, <2>3
<1>5. \A v \in Events(q) : v.e.match \in KillDeathMatches(q)
  <2>1. \A v \in Events(q) : v.e \in Deaths(q)
    BY DEF Events
  <2> QED  BY <1>2, <2>1
<1> QED  BY <1>4, <1>5

LEMMA EventRangesMeet ==
    ASSUME Tables, NEW q \in KillDeathQueries, NEW t \in Nat, Within(q.info.minTime, q.info.maxTime, t)
    PROVE  LET all == AllCells(q)
               before == Events([all EXCEPT !.info.maxTime = {t}])
               after == Events([all EXCEPT !.info.minTime = {t + 1}])
           IN  Events(all) = before \cup after /\ before \cap after = {}
<1> DEFINE all == AllCells(q)
           b == [all EXCEPT !.info.maxTime = {t}]
           a == [all EXCEPT !.info.minTime = {t + 1}]
<1>1. /\ all.info = q.info /\ b.info = Until(q.info, t) /\ a.info = From(q.info, t)
      /\ SamePlayers(b, all) /\ SamePlayers(a, all)
  BY KillDeathQueriesAssumption DEF AllCells, KillDeathStatsQuery, SamePlayers, Until, From
<1>2. /\ b.info.minBadge = q.info.minBadge /\ b.info.maxBadge = q.info.maxBadge
      /\ a.info.minBadge = q.info.minBadge /\ a.info.maxBadge = q.info.maxBadge
  BY <1>1, KillDeathQueriesAssumption DEF AnyInfo, Until, From
<1> HIDE DEF all, a, b
<1>3. \A m \in matches : /\ MatchFilters(all.info, m) <=> MatchFilters(b.info, m) \/ MatchFilters(a.info, m)
                         /\ ~(MatchFilters(b.info, m) /\ MatchFilters(a.info, m))
  <2> TAKE m \in matches
  <2>1. m.start \in Nat
    BY MatchAssumption DEF Tables
  <2>2. DOMAIN q.info = DOMAIN AnyInfo /\ q.info.minTime \cup q.info.maxTime \subseteq Nat
    BY KillDeathQueriesAssumption
  <2> QED  BY <1>1, <2>1, <2>2, TimesMeet
<1>4. /\ KillDeathMatches(all) = KillDeathMatches(b) \cup KillDeathMatches(a)
      /\ KillDeathMatches(b) \cap KillDeathMatches(a) = {}
  BY <1>1, <1>2, <1>3 DEF KillDeathMatches
<1>5. /\ Events(b) = {v \in Events(all) : v.e.match \in KillDeathMatches(b)}
      /\ Events(a) = {v \in Events(all) : v.e.match \in KillDeathMatches(a)}
      /\ \A v \in Events(all) : v.e.match \in KillDeathMatches(all)
  BY <1>1, <1>4, EventsOfFewer
<1>6. Events(all) = Events(b) \cup Events(a) /\ Events(b) \cap Events(a) = {}
  BY <1>4, <1>5
<1> QED  BY <1>6 DEF all, a, b

LEMMA BadgeRangesMeet ==
    ASSUME Tables, NEW q \in BadgeQueries, NEW t \in Nat, Within(q.minTime, q.maxTime, t)
    PROVE  LET before == badge_distribution([q EXCEPT !.maxTime = {t}])
               after == badge_distribution([q EXCEPT !.minTime = {t + 1}])
               at(stats, level) == IF level \in DOMAIN stats THEN stats[level] ELSE 0
           IN  \A level \in DOMAIN badge_distribution(q) :
                  badge_distribution(q)[level] = at(before, level) + at(after, level)
<1> DEFINE b == Until(q, t)
           a == From(q, t)
           of(m) == {[match |-> m, team |-> 0, badge |-> m.badge0], [match |-> m, team |-> 1, badge |-> m.badge1]}
           At(f, level) == {x \in Badges(f) : x.badge = level}
           at(stats, level) == IF level \in DOMAIN stats THEN stats[level] ELSE 0
<1>1. \A f : Badges(f) = {x \in UNION {of(m) : m \in matches} :
                             x.badge > 0 /\ x.match.scored /\ MatchFilters(f, x.match)}
  BY DEF Badges
<1>2. IsFiniteSet(UNION {of(m) : m \in matches})
  <2> DEFINE h == [m \in matches |-> of(m)]
  <2>1. \A m \in matches : IsFiniteSet(h[m])
    <3> TAKE m \in matches
    <3>1. \A x, y : IsFiniteSet({x, y})
      <4> TAKE x, y
      <4>1. IsFiniteSet({x}) /\ IsFiniteSet({y}) /\ {x, y} = {x} \cup {y}
        BY FS_Singleton
      <4> QED  BY <4>1, FS_Union
    <3> QED  BY <3>1
  <2>2. UNION {of(m) : m \in matches} = UNION {h[m] : m \in matches}
    OBVIOUS
  <2> HIDE DEF h, of
  <2> QED  BY <2>1, <2>2, UnionFinite DEF Tables
<1>3. \A m \in matches : /\ MatchFilters(q, m) <=> MatchFilters(b, m) \/ MatchFilters(a, m)
                         /\ ~(MatchFilters(b, m) /\ MatchFilters(a, m))
  <2> TAKE m \in matches
  <2>1. m.start \in Nat
    BY MatchAssumption DEF Tables
  <2>2. DOMAIN q = DOMAIN AnyInfo /\ q.minTime \cup q.maxTime \subseteq Nat
    BY KillDeathQueriesAssumption
  <2> QED  BY <2>1, <2>2, TimesMeet
<1>4. \A x \in UNION {of(m) : m \in matches} : x.match \in matches
  OBVIOUS
<1> HIDE DEF of, a, b
<1>5. \A f, level : IsFiniteSet(At(f, level))
  BY <1>1, <1>2, FS_Subset
<1>6. \A level : /\ At(q, level) = At(b, level) \cup At(a, level)
                 /\ At(b, level) \cap At(a, level) = {}
  BY <1>1, <1>3, <1>4
<1>7. \A f, level : at(badge_distribution(f), level) = Cardinality(At(f, level))
  <2> TAKE f, level
  <2>1. CASE level \in {x.badge : x \in Badges(f)}
    BY <2>1 DEF badge_distribution
  <2>2. CASE level \notin {x.badge : x \in Badges(f)}
    <3>1. At(f, level) = {}
      BY <2>2
    <3>2. at(badge_distribution(f), level) = 0
      BY <2>2 DEF badge_distribution
    <3> QED  BY <3>1, <3>2, FS_EmptySet
  <2> QED  BY <2>1, <2>2
<1> HIDE DEF At
<1>8. \A level : Cardinality(At(q, level)) = Cardinality(At(b, level)) + Cardinality(At(a, level))
  <2> TAKE level
  <2> DEFINE A == At(a, level)
             B == At(b, level)
  <2>1. IsFiniteSet(A) /\ IsFiniteSet(B) /\ A \cap B = {} /\ At(q, level) = A \cup B
    BY <1>5, <1>6
  <2> HIDE DEF A, B
  <2>2. Cardinality(A \cup B) = Cardinality(A) + Cardinality(B) - Cardinality(A \cap B)
    BY <2>1, FS_Union
  <2>3. Cardinality(A) \in Nat /\ Cardinality(B) \in Nat /\ Cardinality({}) = 0
    BY <2>1, FS_CardinalityType, FS_EmptySet
  <2>4. Cardinality(A \cup B) = Cardinality(A) + Cardinality(B) - 0
    BY <2>1, <2>2, <2>3
  <2>5. Cardinality(A \cup B) = Cardinality(B) + Cardinality(A)
    BY <2>3, <2>4
  <2> QED  BY <2>1, <2>5 DEF A, B
<1>9. \A level \in DOMAIN badge_distribution(q) :
        badge_distribution(q)[level] = at(badge_distribution(b), level) + at(badge_distribution(a), level)
  <2> TAKE level \in DOMAIN badge_distribution(q)
  <2>1. badge_distribution(q)[level] = at(badge_distribution(q), level)
    OBVIOUS
  <2> HIDE DEF at
  <2> QED  BY <1>7, <1>8, <2>1
<1> QED  BY <1>9 DEF a, b, Until, From

LEMMA RangesDoMeet == Tables => RangesMeet
<1>1. Tables => \A t \in {m.start : m \in matches} : t \in Nat
  BY MatchAssumption DEF Tables
<1>2. ASSUME Tables, NEW t \in {m.start : m \in matches}, NEW q \in KillDeathQueries,
             Within(q.info.minTime, q.info.maxTime, t)
      PROVE  LET all == AllCells(q)
             IN  /\ Events(all) = Events([all EXCEPT !.info.maxTime = {t}])
                                    \cup Events([all EXCEPT !.info.minTime = {t + 1}])
                 /\ Events([all EXCEPT !.info.maxTime = {t}])
                      \cap Events([all EXCEPT !.info.minTime = {t + 1}]) = {}
  BY <1>1, <1>2, EventRangesMeet
<1>3. ASSUME Tables, NEW t \in {m.start : m \in matches}, NEW q \in BadgeQueries,
             Within(q.minTime, q.maxTime, t)
      PROVE  LET before == badge_distribution([q EXCEPT !.maxTime = {t}])
                 after == badge_distribution([q EXCEPT !.minTime = {t + 1}])
                 at(stats, level) == IF level \in DOMAIN stats THEN stats[level] ELSE 0
             IN  \A level \in DOMAIN badge_distribution(q) :
                    badge_distribution(q)[level] = at(before, level) + at(after, level)
  BY <1>1, <1>3, BadgeRangesMeet
<1> QED  BY <1>2, <1>3 DEF RangesMeet

\* The kills and deaths by place fit together: see KillsMirrorDeaths and RangesMeet.
THEOREM EventsDoFit == TablesSpec => []EventsFit
<1>1. Tables => EventsFit
  BY KillsMirror, RangesDoMeet DEF EventsFit
<1> QED  BY <1>1, TablesGrow, PTL

----------------------------------------------------------------------------
\* Pairs of heroes

PairKey(pairs) == [r \in pairs |-> <<r.p1.hero, r.p2.hero>>]
Swap(r) == [m |-> r.m, p1 |-> r.p2, p2 |-> r.p1]

LEMMA PairFields ==
    ASSUME Tables, NEW ms \in SUBSET matches, NEW r \in Pairs(ms)
    PROVE  /\ r = [m |-> r.m, p1 |-> r.p1, p2 |-> r.p2]
           /\ r.m \in ms /\ r.m \in PossibleMatches
           /\ r.p1 \in PlayersOf(r.m) /\ r.p2 \in PlayersOf(r.m)
           /\ r.p1 \in r.m.players /\ r.p2 \in r.m.players
           /\ r.p1.kills \in Nat /\ r.p2.kills \in Nat
           /\ r.p1.hero \in Nat /\ r.p2.hero \in Nat
           /\ Swap(r) \in Pairs(ms)
<1>1. PICK m \in ms : \E p1, p2 \in PlayersOf(m) : r = [m |-> m, p1 |-> p1, p2 |-> p2]
  BY DEF Pairs
<1>2. /\ r = [m |-> r.m, p1 |-> r.p1, p2 |-> r.p2] /\ r.m \in ms
      /\ r.p1 \in PlayersOf(r.m) /\ r.p2 \in PlayersOf(r.m)
  BY <1>1
<1>3. r.m \in PossibleMatches /\ r.p1 \in r.m.players /\ r.p2 \in r.m.players
  BY <1>2 DEF Tables, PlayersOf
<1>4. Swap(r) \in Pairs(ms)
  BY <1>2 DEF Swap, Pairs
<1> QED  BY <1>2, <1>3, <1>4, MatchAssumption, OpponentsAssumption

LEMMA PairsFinite ==
    ASSUME Tables, NEW ms \in SUBSET matches
    PROVE  IsFiniteSet(Pairs(ms))
<1> DEFINE of == [m \in ms |-> {[m |-> m, p1 |-> p1, p2 |-> p2] : p1, p2 \in PlayersOf(m)}]
<1>1. ASSUME NEW m \in ms PROVE IsFiniteSet(of[m])
  <2> DEFINE S == PlayersOf(m) \X PlayersOf(m)
             h == [x \in S |-> [m |-> m, p1 |-> x[1], p2 |-> x[2]]]
  <2>1. IsFiniteSet(PlayersOf(m))
    BY MatchAssumption, FS_Subset DEF Tables, PlayersOf
  <2>2. IsFiniteSet(S)
    BY <2>1, FS_Product
  <2>3. of[m] = {h[x] : x \in S}
    <3>1. \A p1, p2 \in PlayersOf(m) : <<p1, p2>> \in S /\ h[<<p1, p2>>] = [m |-> m, p1 |-> p1, p2 |-> p2]
      OBVIOUS
    <3>2. \A x \in S : /\ x[1] \in PlayersOf(m) /\ x[2] \in PlayersOf(m)
                       /\ h[x] = [m |-> m, p1 |-> x[1], p2 |-> x[2]]
      OBVIOUS
    <3>3. of[m] = {[m |-> m, p1 |-> p1, p2 |-> p2] : p1, p2 \in PlayersOf(m)}
      OBVIOUS
    <3> DEFINE T == {h[x] : x \in S}
    <3>4. \A p1, p2 \in PlayersOf(m) : [m |-> m, p1 |-> p1, p2 |-> p2] \in T
      <4> HIDE DEF S, h
      <4> QED  BY <3>1
    <3>5. \A x \in S : h[x] \in {[m |-> m, p1 |-> p1, p2 |-> p2] : p1, p2 \in PlayersOf(m)}
      <4> DEFINE U == {[m |-> m, p1 |-> p1, p2 |-> p2] : p1, p2 \in PlayersOf(m)}
      <4>1. \A p1, p2 \in PlayersOf(m) : [m |-> m, p1 |-> p1, p2 |-> p2] \in U
        OBVIOUS
      <4> HIDE DEF S, h, U
      <4>2. \A x \in S : h[x] \in U
        BY <3>2, <4>1
      <4> QED  BY <4>2 DEF U
    <3> HIDE DEF S, h, of
    <3> QED  BY <3>3, <3>4, <3>5
  <2> HIDE DEF S, h, of
  <2> QED  BY <2>2, <2>3, ImageFinite
<1>2. Pairs(ms) = UNION {of[m] : m \in ms}
  BY DEF Pairs
<1>3. IsFiniteSet(ms)
  BY FS_Subset DEF Tables
<1> HIDE DEF of
<1> QED  BY <1>1, <1>2, <1>3, UnionFinite

\* What the stats of a group say.
LEMMA GroupedStats ==
    ASSUME NEW q, NEW pairs
    PROVE  LET key == PairKey(pairs)
               all == Grouped(q, pairs)
           IN  /\ DOMAIN all = {k \in {key[r] : r \in pairs} :
                                   Within(q.minMatches, q.maxMatches, Cardinality(WithKey(pairs, key, k)))}
               /\ \A k \in DOMAIN all :
                    LET group == WithKey(pairs, key, k)
                    IN  /\ all[k].wins = Cardinality({r \in group : r.p1.won})
                        /\ all[k].matches = Cardinality(group)
                        /\ all[k].kills1 = SumFunction([r \in group |-> r.p1.kills])
                        /\ all[k].kills2 = SumFunction([r \in group |-> r.p2.kills])
<1> DEFINE key == PairKey(pairs)
           group(k) == {r \in pairs : <<r.p1.hero, r.p2.hero>> = k}
<1>1. \A k : group(k) = WithKey(pairs, key, k)
  BY DEF WithKey, PairKey
<1>2. {<<r.p1.hero, r.p2.hero>> : r \in pairs} = {key[r] : r \in pairs}
  BY DEF PairKey
<1> QED  BY <1>1, <1>2 DEF Grouped

\* The pairs with their players exchanged are as many, and what they add up is the same.
LEMMA SwappedPairs ==
    ASSUME Tables, NEW ms \in SUBSET matches, NEW A \in SUBSET Pairs(ms)
    PROVE  LET B == {Swap(r) : r \in A}
           IN  /\ IsFiniteSet(A) /\ IsFiniteSet(B) /\ Cardinality(B) = Cardinality(A)
               /\ SumFunction([r \in A |-> r.p1.kills]) = SumFunction([r \in B |-> r.p2.kills])
               /\ SumFunction([r \in A |-> r.p2.kills]) = SumFunction([r \in B |-> r.p1.kills])
<1> DEFINE h == [r \in A |-> Swap(r)]
           B == {Swap(r) : r \in A}
           a1 == [r \in A |-> r.p1.kills]
           a2 == [r \in A |-> r.p2.kills]
           b1 == [r \in B |-> r.p1.kills]
           b2 == [r \in B |-> r.p2.kills]
<1>1. IsFiniteSet(A)
  BY PairsFinite, FS_Subset
<1>2. \A r \in A : /\ r = [m |-> r.m, p1 |-> r.p1, p2 |-> r.p2]
                   /\ r.p1.kills \in Int /\ r.p2.kills \in Int
  BY PairFields
<1>3. \A r, s \in A : h[r] = h[s] => r = s
  <2> TAKE r \in A, s \in A
  <2>1. h[r] = h[s] => r.m = s.m /\ r.p1 = s.p1 /\ r.p2 = s.p2
    BY DEF Swap
  <2> QED  BY <1>2, <2>1
<1>4. /\ B = {h[r] : r \in A}
      /\ \A r \in A : b2[h[r]] = a1[r] /\ b1[h[r]] = a2[r]
      /\ \A r \in A : a1[r] \in Int /\ a2[r] \in Int
  BY <1>2 DEF Swap
<1>5. /\ SumFunction(a1) = SumFunctionOnSet(a1, A) /\ SumFunction(a2) = SumFunctionOnSet(a2, A)
      /\ SumFunction(b1) = SumFunctionOnSet(b1, B) /\ SumFunction(b2) = SumFunctionOnSet(b2, B)
  BY DEF SumFunction
<1> HIDE DEF h, B, a1, a2, b1, b2
<1>6. IsFiniteSet(B) /\ Cardinality(B) = Cardinality(A)
  BY <1>1, <1>3, <1>4, CountImage
<1>7. SumFunctionOnSet(a1, A) = SumFunctionOnSet(b2, B)
  <2>1. (\A r \in A : b2[h[r]] = a1[r]) /\ (\A r \in A : a1[r] \in Int)
    BY <1>4
  <2> QED  BY <1>1, <1>3, <1>4, <2>1, SumImage
<1>8. SumFunctionOnSet(a2, A) = SumFunctionOnSet(b1, B)
  <2>1. (\A r \in A : b1[h[r]] = a2[r]) /\ (\A r \in A : a2[r] \in Int)
    BY <1>4
  <2> QED  BY <1>1, <1>3, <1>4, <2>1, SumImage
<1> QED  BY <1>1, <1>5, <1>6, <1>7, <1>8 DEF B, a1, a2, b1, b2

\* The matchup of two heroes is the same from either side.
LEMMA MatchupsMirror == Tables => CountersMirror
<1> SUFFICES ASSUME Tables, NEW q \in CounterQueries, q.accounts = {}
             PROVE  LET here == hero_counters_stats(q)
                        there == hero_counters_stats(Swapped(q))
                    IN  /\ DOMAIN there = {<<k[2], k[1]>> : k \in DOMAIN here}
                        /\ \A k \in DOMAIN here :
                             LET mine == here[k]
                                 theirs == there[<<k[2], k[1]>>]
                             IN  /\ mine.wins + theirs.wins = mine.matches
                                 /\ mine.matches = theirs.matches
                                 /\ mine.kills1 = theirs.kills2 /\ mine.kills2 = theirs.kills1
  BY DEF CountersMirror
<1> DEFINE s == Swapped(q)
           ms == CounterMatches(q)
           A == CounterPairs(q)
           B == CounterPairs(s)
           keyA == PairKey(A)
           keyB == PairKey(B)
           here == Grouped(q, A)
           there == Grouped(s, B)
           groupA(k) == WithKey(A, keyA, k)
           groupB(k) == WithKey(B, keyB, k)
           flip(k) == <<k[2], k[1]>>
<1>1. /\ s.info = q.info /\ s.sameLane = q.sameLane /\ s.accounts = {}
      /\ s.minMatches = q.minMatches /\ s.maxMatches = q.maxMatches
      /\ s.minWorth = q.minEnemyWorth /\ s.maxWorth = q.maxEnemyWorth
      /\ s.minEnemyWorth = q.minWorth /\ s.maxEnemyWorth = q.maxWorth
  BY MatchupQueriesAssumption DEF Swapped, HeroCounterStatsQuery
<1>2. hero_counters_stats(q) = here /\ hero_counters_stats(s) = there
  BY <1>1 DEF hero_counters_stats, CounterQuery, Refused
<1> HIDE DEF s
<1>3. ms \subseteq matches /\ A \subseteq Pairs(ms) /\ B \subseteq Pairs(ms)
  BY <1>1 DEF CounterMatches, CounterPairs, Chosen
<1>4. \A r \in Pairs(ms) : /\ Swap(r) \in Pairs(ms) /\ Swap(Swap(r)) = r
                           /\ (r \in A <=> Swap(r) \in B)
                           /\ (r \in B <=> Swap(r) \in A)
  <2> SUFFICES ASSUME NEW r \in Pairs(ms)
               PROVE  /\ Swap(r) \in Pairs(ms) /\ Swap(Swap(r)) = r
                      /\ (r \in A <=> Swap(r) \in B)
                      /\ (r \in B <=> Swap(r) \in A)
    OBVIOUS
  <2>1. Swap(r) \in Pairs(ms) /\ r = [m |-> r.m, p1 |-> r.p1, p2 |-> r.p2]
    BY <1>3, PairFields
  <2>2. Swap(Swap(r)) = r /\ Swap(r).p1 = r.p2 /\ Swap(r).p2 = r.p1
    BY <2>1 DEF Swap
  <2>3. Pairs(CounterMatches(s)) = Pairs(ms)
    BY <1>1 DEF CounterMatches
  <2>4. \A p : Named(q, p) /\ Named(s, p)
    BY <1>1 DEF Named
  <2>5. \A x \in Pairs(ms) :
          /\ x \in A <=> /\ x.p1.team # x.p2.team
                         /\ q.sameLane => x.p1.lane = x.p2.lane
                         /\ Within(q.minWorth, q.maxWorth, x.p1.worth)
                         /\ Within(q.minEnemyWorth, q.maxEnemyWorth, x.p2.worth)
          /\ x \in B <=> /\ x.p1.team # x.p2.team
                         /\ q.sameLane => x.p1.lane = x.p2.lane
                         /\ Within(q.minEnemyWorth, q.maxEnemyWorth, x.p1.worth)
                         /\ Within(q.minWorth, q.maxWorth, x.p2.worth)
    BY <1>1, <2>3, <2>4 DEF CounterPairs, EnemyWorth
  <2> HIDE DEF A, B, ms
  <2> QED  BY <2>1, <2>2, <2>5
<1>5. \A r \in Pairs(ms) : /\ Swap(r).p1 = r.p2 /\ Swap(r).p2 = r.p1
                           /\ r.p1.team # r.p2.team => (r.p2.won <=> ~r.p1.won)
  <2> TAKE r \in Pairs(ms)
  <2>1. r.m \in PossibleMatches /\ r.p1 \in r.m.players /\ r.p2 \in r.m.players
    BY <1>3, PairFields
  <2> QED  BY <2>1, OpponentsAssumption DEF Swap
<1>6. \A r \in A : keyA[r] = <<r.p1.hero, r.p2.hero>>
  BY DEF PairKey
<1>7. \A r \in B : keyB[r] = <<r.p1.hero, r.p2.hero>>
  BY DEF PairKey
<1>8. \A r \in A : r.p1.team # r.p2.team
  BY DEF CounterPairs
<1>9. /\ DOMAIN here = {k \in {keyA[r] : r \in A} :
                           Within(q.minMatches, q.maxMatches, Cardinality(groupA(k)))}
      /\ \A k \in DOMAIN here :
           /\ here[k].wins = Cardinality({r \in groupA(k) : r.p1.won})
           /\ here[k].matches = Cardinality(groupA(k))
           /\ here[k].kills1 = SumFunction([r \in groupA(k) |-> r.p1.kills])
           /\ here[k].kills2 = SumFunction([r \in groupA(k) |-> r.p2.kills])
  BY GroupedStats, ZenonT(40)
<1>10. /\ DOMAIN there = {k \in {keyB[r] : r \in B} :
                            Within(q.minMatches, q.maxMatches, Cardinality(groupB(k)))}
       /\ \A k \in DOMAIN there :
            /\ there[k].wins = Cardinality({r \in groupB(k) : r.p1.won})
            /\ there[k].matches = Cardinality(groupB(k))
            /\ there[k].kills1 = SumFunction([r \in groupB(k) |-> r.p1.kills])
            /\ there[k].kills2 = SumFunction([r \in groupB(k) |-> r.p2.kills])
  <2>1. /\ DOMAIN there = {k \in {keyB[r] : r \in B} :
                              Within(s.minMatches, s.maxMatches, Cardinality(groupB(k)))}
        /\ \A k \in DOMAIN there :
             /\ there[k].wins = Cardinality({r \in groupB(k) : r.p1.won})
             /\ there[k].matches = Cardinality(groupB(k))
             /\ there[k].kills1 = SumFunction([r \in groupB(k) |-> r.p1.kills])
             /\ there[k].kills2 = SumFunction([r \in groupB(k) |-> r.p2.kills])
    BY GroupedStats, ZenonT(40)
  <2> HIDE DEF there, B, keyB, groupB
  <2> QED  BY <1>1, <2>1
<1> HIDE DEF A, B, keyA, keyB, here, there, ms
\* The group of a matchup and that of the matchup seen from the other side.
<1>11. ASSUME NEW i, NEW j
       PROVE  groupB(<<j, i>>) = {Swap(r) : r \in groupA(<<i, j>>)}
  <2>1. \A r \in groupA(<<i, j>>) : Swap(r) \in groupB(<<j, i>>)
    BY <1>3, <1>4, <1>5, <1>6, <1>7 DEF WithKey
  <2>2. \A r \in groupB(<<j, i>>) : Swap(r) \in groupA(<<i, j>>) /\ Swap(Swap(r)) = r
    BY <1>3, <1>4, <1>5, <1>6, <1>7 DEF WithKey
  <2> HIDE DEF groupA, groupB
  <2> QED  BY <2>1, <2>2
<1>12. ASSUME NEW i, NEW j
       PROVE  LET a == groupA(<<i, j>>)
                  b == groupB(<<j, i>>)
              IN  /\ IsFiniteSet(a) /\ Cardinality(a) = Cardinality(b)
                  /\ SumFunction([r \in a |-> r.p1.kills]) = SumFunction([r \in b |-> r.p2.kills])
                  /\ SumFunction([r \in a |-> r.p2.kills]) = SumFunction([r \in b |-> r.p1.kills])
                  /\ Cardinality({r \in a : r.p1.won}) + Cardinality({r \in b : r.p1.won}) = Cardinality(a)
  <2> DEFINE a == groupA(<<i, j>>)
             b == groupB(<<j, i>>)
             won == {r \in a : r.p1.won}
             lost == {r \in a : ~r.p1.won}
  <2>1. a \subseteq Pairs(ms) /\ b = {Swap(r) : r \in a}
    BY <1>3, <1>11 DEF WithKey
  <2>2. {r \in b : r.p1.won} = {Swap(r) : r \in lost}
    <3>1. \A r \in a : Swap(r).p1.won <=> ~r.p1.won
      BY <1>3, <1>5, <1>8 DEF WithKey
    <3> HIDE DEF a, b
    <3> QED  BY <2>1, <3>1
  <2> HIDE DEF a, b
  <2>3. /\ IsFiniteSet(a) /\ Cardinality(a) = Cardinality(b)
        /\ SumFunction([r \in a |-> r.p1.kills]) = SumFunction([r \in b |-> r.p2.kills])
        /\ SumFunction([r \in a |-> r.p2.kills]) = SumFunction([r \in b |-> r.p1.kills])
    BY <1>3, <2>1, SwappedPairs
  <2>4. Cardinality({r \in b : r.p1.won}) = Cardinality(lost)
    <3>1. lost \subseteq Pairs(ms)
      BY <2>1
    <3> HIDE DEF lost
    <3>2. Cardinality({Swap(r) : r \in lost}) = Cardinality(lost)
      BY <1>3, <3>1, SwappedPairs
    <3> QED  BY <2>2, <3>2
  <2>5. Cardinality(won) + Cardinality(lost) = Cardinality(a)
    <3>1. won \cup lost = a /\ won \cap lost = {} /\ IsFiniteSet(won) /\ IsFiniteSet(lost)
      BY <2>3, FS_Subset
    <3> HIDE DEF won, lost
    <3> QED  BY <3>1, TwoParts
  <2> QED  BY <2>3, <2>4, <2>5 DEF a, b
<1>13. \A k \in {keyA[r] : r \in A} : k = <<k[1], k[2]>> /\ flip(k) \in {keyB[r] : r \in B}
  <2> SUFFICES ASSUME NEW r \in A PROVE keyA[r] = <<keyA[r][1], keyA[r][2]>> /\ flip(keyA[r]) \in {keyB[x] : x \in B}
    OBVIOUS
  <2>1. Swap(r) \in B /\ keyB[Swap(r)] = <<r.p2.hero, r.p1.hero>>
    BY <1>3, <1>4, <1>5, <1>7
  <2> QED  BY <1>6, <2>1
<1>14. \A k \in {keyB[r] : r \in B} : k = <<k[1], k[2]>> /\ flip(k) \in {keyA[r] : r \in A}
  <2> SUFFICES ASSUME NEW r \in B PROVE keyB[r] = <<keyB[r][1], keyB[r][2]>> /\ flip(keyB[r]) \in {keyA[x] : x \in A}
    OBVIOUS
  <2>1. Swap(r) \in A /\ keyA[Swap(r)] = <<r.p2.hero, r.p1.hero>>
    BY <1>3, <1>4, <1>5, <1>6
  <2> QED  BY <1>7, <2>1
<1> HIDE DEF groupA, groupB
<1>15. ASSUME NEW k \in DOMAIN here
       PROVE  /\ flip(k) \in DOMAIN there
              /\ LET mine == here[k]
                     theirs == there[flip(k)]
                 IN  /\ mine.wins + theirs.wins = mine.matches
                     /\ mine.matches = theirs.matches
                     /\ mine.kills1 = theirs.kills2 /\ mine.kills2 = theirs.kills1
  <2>1. /\ k = <<k[1], k[2]>> /\ flip(k) \in {keyB[r] : r \in B}
        /\ Within(q.minMatches, q.maxMatches, Cardinality(groupA(k)))
    BY <1>9, <1>13
  <2>2. LET a == groupA(k)
            b == groupB(flip(k))
        IN  /\ Cardinality(a) = Cardinality(b)
            /\ SumFunction([r \in a |-> r.p1.kills]) = SumFunction([r \in b |-> r.p2.kills])
            /\ SumFunction([r \in a |-> r.p2.kills]) = SumFunction([r \in b |-> r.p1.kills])
            /\ Cardinality({r \in a : r.p1.won}) + Cardinality({r \in b : r.p1.won}) = Cardinality(a)
    <3>1. LET a == groupA(<<k[1], k[2]>>)
              b == groupB(<<k[2], k[1]>>)
          IN  /\ Cardinality(a) = Cardinality(b)
              /\ SumFunction([r \in a |-> r.p1.kills]) = SumFunction([r \in b |-> r.p2.kills])
              /\ SumFunction([r \in a |-> r.p2.kills]) = SumFunction([r \in b |-> r.p1.kills])
              /\ Cardinality({r \in a : r.p1.won}) + Cardinality({r \in b : r.p1.won}) = Cardinality(a)
      BY <1>12
    <3>2. <<k[1], k[2]>> = k /\ <<k[2], k[1]>> = flip(k)
      BY <2>1
    <3> HIDE DEF flip
    <3> QED  BY <3>1, <3>2
  <2>3. flip(k) \in DOMAIN there
    BY <1>10, <2>1, <2>2
  <2> HIDE DEF flip
  <2> QED  BY <1>9, <1>10, <2>2, <2>3
<1>16. ASSUME NEW k \in DOMAIN there PROVE flip(k) \in DOMAIN here /\ k = flip(flip(k))
  <2>1. /\ k = <<k[1], k[2]>> /\ flip(k) \in {keyA[r] : r \in A}
        /\ Within(q.minMatches, q.maxMatches, Cardinality(groupB(k)))
    BY <1>10, <1>14
  <2>2. Cardinality(groupA(flip(k))) = Cardinality(groupB(k))
    <3>1. Cardinality(groupA(<<k[2], k[1]>>)) = Cardinality(groupB(<<k[1], k[2]>>))
      BY <1>12
    <3> QED  BY <2>1, <3>1
  <2> QED  BY <1>9, <2>1, <2>2
<1>17. DOMAIN there = {flip(k) : k \in DOMAIN here}
  <2> HIDE DEF flip
  <2> QED  BY <1>15, <1>16
<1> QED  BY <1>2, <1>15, <1>17 DEF s

\* With no bound on them, the groups have every pair between them.
LEMMA GroupsTogether ==
    ASSUME NEW pairs, IsFiniteSet(pairs), NEW q, q.minMatches = {}, q.maxMatches = {}
    PROVE  PairMatches(Grouped(q, pairs)) = Cardinality(pairs)
<1> DEFINE key == PairKey(pairs)
           all == Grouped(q, pairs)
           K == {key[r] : r \in pairs}
           part == [k \in DOMAIN all |-> all[k].matches]
<1>1. DOMAIN all = K /\ (\A k \in K : part[k] = Cardinality(WithKey(pairs, key, k)))
  <2>1. \A n : Within(q.minMatches, q.maxMatches, n)
    BY DEF Within, AtLeast, AtMost
  <2> HIDE DEF part
  <2>s. /\ DOMAIN all = {k \in K : Within(q.minMatches, q.maxMatches, Cardinality(WithKey(pairs, key, k)))}
        /\ \A k \in DOMAIN all :
             LET group == WithKey(pairs, key, k)
             IN  /\ all[k].wins = Cardinality({r \in group : r.p1.won})
                 /\ all[k].matches = Cardinality(group)
                 /\ all[k].kills1 = SumFunction([r \in group |-> r.p1.kills])
                 /\ all[k].kills2 = SumFunction([r \in group |-> r.p2.kills])
    BY GroupedStats, ZenonT(40)
  <2> USE DEF part
  <2>2. DOMAIN all = K
    <3> HIDE DEF all, key, K
    <3> QED  BY <2>1, <2>s
  <2>3. \A k \in DOMAIN all : all[k].matches = Cardinality(WithKey(pairs, key, k))
    <3> HIDE DEF all, key, K
    <3> QED  BY <2>s
  <2> HIDE DEF all, key, K
  <2> QED  BY <2>2, <2>3
<1>2. PairMatches(all) = SumFunctionOnSet(part, K)
  <2> HIDE DEF all, K
  <2> QED  BY <1>1 DEF PairMatches, SumFunction
<1>3. \A r \in pairs : key[r] \in K
  OBVIOUS
<1> HIDE DEF key, part, all
<1>4. IsFiniteSet(K)
  BY ImageFinite
<1> HIDE DEF K
<1>5. Cardinality(pairs) = SumFunctionOnSet(part, K)
  BY <1>1, <1>3, <1>4, CountByKey
<1> QED  BY <1>2, <1>5 DEF all

\* Two different elements, in either order.
LEMMA OrderedPairs ==
    ASSUME NEW S, IsFiniteSet(S)
    PROVE  LET n == Cardinality(S)
               D == {x \in S \X S : x[1] # x[2]}
           IN  n \in Nat /\ IsFiniteSet(D) /\ Cardinality(D) = n * (n - 1)
<1> DEFINE n == Cardinality(S)
           D == {x \in S \X S : x[1] # x[2]}
           E == {x \in S \X S : x[1] = x[2]}
           h == [s \in S |-> <<s, s>>]
<1>1. IsFiniteSet(S \X S) /\ Cardinality(S \X S) = n * n /\ n \in Nat
  BY FS_Product, FS_CardinalityType
<1>2. IsFiniteSet(D) /\ IsFiniteSet(E) /\ D \cap E = {} /\ D \cup E = S \X S
  <2>1. D \cap E = {} /\ D \cup E = S \X S
    OBVIOUS
  <2>2. IsFiniteSet(D) /\ IsFiniteSet(E)
    BY <1>1, FS_Subset
  <2> QED  BY <2>1, <2>2
<1>3. E = {h[s] : s \in S} /\ (\A s, t \in S : h[s] = h[t] => s = t)
  <2>1. \A x \in E : x[1] \in S /\ x = h[x[1]]
    OBVIOUS
  <2>2. \A s \in S : h[s] \in E
    OBVIOUS
  <2>3. \A s, t \in S : h[s] = h[t] => s = t
    OBVIOUS
  <2> HIDE DEF E, h
  <2> QED  BY <2>1, <2>2, <2>3
<1> HIDE DEF D, E, h
<1>4. Cardinality(E) = n
  BY <1>3, CountImage
<1>5. Cardinality(D) + Cardinality(E) = n * n /\ Cardinality(D) \in Nat
  BY <1>1, <1>2, TwoParts, FS_CardinalityType
<1> HIDE DEF n
<1>6. Cardinality(D) + n = n * n
  BY <1>4, <1>5
<1>7. Cardinality(D) = n * (n - 1)
  BY <1>1, <1>5, <1>6
<1> QED  BY <1>1, <1>2, <1>7 DEF n, D

\* Between them the two endpoints count every two players of a match.
LEMMA PairsAllCounted == Tables => EveryPairCounted
<1> SUFFICES ASSUME Tables PROVE EveryPairCounted
  OBVIOUS
<1> DEFINE c == [HeroCounterStatsQuery EXCEPT !.sameLane = FALSE, !.minMatches = {}]
           s == [[HeroSynergyStatsQuery EXCEPT !.sameLane = FALSE, !.minMatches = {}] EXCEPT !.sameParty = FALSE]
           ms == Chosen(AnyMatch)
           P == Pairs(ms)
           Across == {r \in P : r.p1.team # r.p2.team}
           Lower == {r \in P : r.p1.team = r.p2.team /\ r.p1.hero < r.p2.hero}
           Higher == {r \in P : r.p1.team = r.p2.team /\ r.p2.hero < r.p1.hero}
           Two == {r \in P : r.p1 # r.p2}
           two(n) == n * (n - 1)
           of == [m \in ms |-> two(Cardinality(PlayersOf(m)))]
<1>1. /\ c.info = AnyMatch /\ c.accounts = {} /\ c.minMatches = {} /\ c.maxMatches = {}
      /\ c.minWorth = {} /\ c.maxWorth = {} /\ c.minEnemyWorth = {} /\ c.maxEnemyWorth = {}
      /\ c.sameLane = FALSE
  BY DEF HeroCounterStatsQuery
<1>2. /\ s.info = AnyMatch /\ s.accounts = {} /\ s.minMatches = {} /\ s.maxMatches = {}
      /\ s.minWorth = {} /\ s.maxWorth = {} /\ s.sameLane = FALSE /\ s.sameParty = FALSE
  BY DEF HeroSynergyStatsQuery
<1> HIDE DEF c, s
<1>3. \A n : Within({}, {}, n)
  BY DEF Within, AtLeast, AtMost
<1>4. CounterPairs(c) = Across
  BY <1>1, <1>3 DEF CounterPairs, CounterMatches, Named, EnemyWorth
<1>5. SynergyPairs(s) = Lower
  BY <1>2, <1>3 DEF SynergyPairs, SynergyMatches, Named, LowerHeroFirst
<1>6. hero_counters_stats(c) = Grouped(c, Across) /\ hero_synergies_stats(s) = Grouped(s, Lower)
  <2> HIDE DEF Across, Lower
  <2> QED  BY <1>1, <1>2, <1>4, <1>5
             DEF hero_counters_stats, hero_synergies_stats, CounterQuery, SynergyQuery, Refused
<1>7. ms \subseteq matches /\ IsFiniteSet(ms) /\ IsFiniteSet(P)
  <2>1. ms \subseteq matches
    BY ChosenAreMatches
  <2>2. IsFiniteSet(ms)
    BY <2>1, FS_Subset DEF Tables
  <2> QED  BY <2>1, <2>2, PairsFinite
<1>8. IsFiniteSet(Across) /\ IsFiniteSet(Lower) /\ IsFiniteSet(Higher) /\ IsFiniteSet(Two)
  BY <1>7, FS_Subset
<1>9. Two = (Across \cup Lower) \cup Higher
  <2> SUFFICES ASSUME NEW r \in P
               PROVE  r.p1 # r.p2 <=> \/ r.p1.team # r.p2.team
                                      \/ r.p1.team = r.p2.team /\ r.p1.hero < r.p2.hero
                                      \/ r.p1.team = r.p2.team /\ r.p2.hero < r.p1.hero
    OBVIOUS
  <2>1. /\ r.m \in PossibleMatches /\ r.p1 \in r.m.players /\ r.p2 \in r.m.players
        /\ r.p1.hero \in Nat /\ r.p2.hero \in Nat
    BY <1>7, PairFields
  <2>2. r.p1.team = r.p2.team /\ r.p1.hero = r.p2.hero => r.p1 = r.p2
    BY <2>1, OpponentsAssumption
  <2> QED  BY <2>1, <2>2
<1>10. Across \cap Lower = {} /\ (Across \cup Lower) \cap Higher = {}
  <2>1. \A r \in P : r.p1.hero \in Nat /\ r.p2.hero \in Nat
    BY <1>7, PairFields
  <2> QED  BY <2>1
<1>11. Higher = {Swap(r) : r \in Lower}
  <2>1. \A r \in P : /\ Swap(r) \in P /\ Swap(Swap(r)) = r
                     /\ Swap(r).p1 = r.p2 /\ Swap(r).p2 = r.p1
    <3> TAKE r \in P
    <3>1. Swap(r) \in P /\ r = [m |-> r.m, p1 |-> r.p1, p2 |-> r.p2]
      BY <1>7, PairFields
    <3> QED  BY <3>1 DEF Swap
  <2> HIDE DEF P
  <2>2. \A r \in Lower : Swap(r) \in Higher
    BY <2>1
  <2>3. \A r \in Higher : Swap(r) \in Lower /\ Swap(Swap(r)) = r
    BY <2>1
  <2> HIDE DEF Lower, Higher
  <2> QED  BY <2>2, <2>3
<1>12. Cardinality(Two) = Cardinality(Across) + 2 * Cardinality(Lower)
  <2>1. Lower \subseteq Pairs(ms)
    OBVIOUS
  <2> HIDE DEF Across, Lower, Higher, Two, P, ms
  <2>2. Cardinality(Higher) = Cardinality(Lower)
    BY <1>7, <1>11, <2>1, SwappedPairs
  <2>3. Cardinality(Across) + Cardinality(Lower) = Cardinality(Across \cup Lower)
    BY <1>8, <1>10, TwoParts
  <2>4. IsFiniteSet(Across \cup Lower)
    BY <1>8, FS_Union
  <2>5. Cardinality(Across \cup Lower) + Cardinality(Higher) = Cardinality(Two)
    BY <1>8, <1>9, <1>10, <2>4, TwoParts
  <2>6. Cardinality(Across) \in Nat /\ Cardinality(Lower) \in Nat
    BY <1>8, FS_CardinalityType
  <2> QED  BY <2>2, <2>3, <2>5, <2>6
<1>13. Cardinality(Two) = SumFunctionOnSet(of, ms)
  <2> DEFINE key == [r \in Two |-> r.m]
  <2>1. \A r \in Two : key[r] \in ms
    BY <1>7, PairFields
  <2>2. ASSUME NEW m \in ms PROVE of[m] = Cardinality(WithKey(Two, key, m))
    <3> DEFINE S == PlayersOf(m)
               D == {x \in S \X S : x[1] # x[2]}
               h == [x \in D |-> [m |-> m, p1 |-> x[1], p2 |-> x[2]]]
               W == WithKey(Two, key, m)
    <3>1. IsFiniteSet(S)
      BY <1>7, MatchAssumption, FS_Subset DEF Tables, PlayersOf
    <3>2. IsFiniteSet(D) /\ Cardinality(D) = two(Cardinality(S))
      BY <3>1, OrderedPairs
    <3>3. \A x, y \in D : h[x] = h[y] => x = y
      <4> TAKE x \in D, y \in D
      <4>1. h[x] = h[y] => x[1] = y[1] /\ x[2] = y[2]
        OBVIOUS
      <4>2. x = <<x[1], x[2]>> /\ y = <<y[1], y[2]>>
        OBVIOUS
      <4> HIDE DEF h
      <4> QED  BY <4>1, <4>2
    <3>4. \A x \in D : h[x] \in W
      <4> TAKE x \in D
      <4>1. x[1] \in S /\ x[2] \in S /\ x[1] # x[2]
        OBVIOUS
      <4>2. \A p1, p2 \in S : [m |-> m, p1 |-> p1, p2 |-> p2] \in P
        BY DEF Pairs
      <4>3. h[x] = [m |-> m, p1 |-> x[1], p2 |-> x[2]]
        OBVIOUS
      <4>4. h[x] \in P
        <5> HIDE DEF D, S, P, h
        <5> QED  BY <4>1, <4>2, <4>3
      <4>5. h[x].p1 # h[x].p2 /\ h[x].m = m
        BY <4>1, <4>3
      <4> HIDE DEF D, S, P, h
      <4> QED  BY <4>4, <4>5 DEF WithKey
    <3>5. \A r \in W : <<r.p1, r.p2>> \in D /\ h[<<r.p1, r.p2>>] = r
      <4> TAKE r \in W
      <4>1. r \in P /\ r.m = m /\ r.p1 # r.p2
        BY DEF WithKey
      <4>2. r.p1 \in S /\ r.p2 \in S /\ r = [m |-> m, p1 |-> r.p1, p2 |-> r.p2]
        BY <1>7, <4>1, PairFields
      <4>3. <<r.p1, r.p2>> \in D
        BY <4>1, <4>2
      <4>4. h[<<r.p1, r.p2>>] = [m |-> m, p1 |-> r.p1, p2 |-> r.p2]
        BY <4>3
      <4> QED  BY <4>2, <4>3, <4>4
    <3>6. W = {h[x] : x \in D}
      <4> HIDE DEF W, D, h
      <4> QED  BY <3>4, <3>5
    <3>7. Cardinality(W) = Cardinality(D)
      <4> HIDE DEF W, D, h
      <4> QED  BY <3>2, <3>3, <3>6, CountImage
    <3>8. of[m] = two(Cardinality(S))
      OBVIOUS
    <3> QED  BY <3>2, <3>7, <3>8
  <2> HIDE DEF Two, ms, of, key
  <2> QED  BY <1>7, <1>8, <2>1, <2>2, CountByKey
<1>14. SumFunction(of) = SumFunctionOnSet(of, ms)
  BY DEF SumFunction
<1> HIDE DEF Across, Lower
<1>15. /\ PairMatches(hero_counters_stats(c)) = Cardinality(Across)
       /\ PairMatches(hero_synergies_stats(s)) = Cardinality(Lower)
  BY <1>1, <1>2, <1>6, <1>8, GroupsTogether
<1>16. PairMatches(hero_counters_stats(c)) + 2 * PairMatches(hero_synergies_stats(s)) = SumFunction(of)
  BY <1>12, <1>13, <1>14, <1>15
<1> QED  BY <1>16 DEF EveryPairCounted, c, s

----------------------------------------------------------------------------
\* Heroes played together

LEMMA TeamsFinite ==
    ASSUME Tables, NEW q
    PROVE  IsFiniteSet(Teams(q)) /\ (\A t \in Teams(q) : IsFiniteSet(t.heroes) /\ Cardinality(t.heroes) = TeamSize)
<1> DEFINE of == [m \in CombMatches(q) |-> {Team(m, Side(q, m, team)) : team \in {0, 1}}]
           Everyone == UNION {of[m] : m \in CombMatches(q)}
<1>1. ASSUME NEW m \in CombMatches(q) PROVE IsFiniteSet(of[m])
  <2> DEFINE h == [team \in {0, 1} |-> Team(m, Side(q, m, team))]
  <2>1. of[m] = {h[team] : team \in {0, 1}}
    OBVIOUS
  <2>2. IsFiniteSet({0, 1})
    <3>1. IsFiniteSet(0 .. 1)
      <4>1. 0 \in Int /\ 1 \in Int
        OBVIOUS
      <4> QED  BY <4>1, FS_Interval
    <3>2. 0 .. 1 = {0, 1}
      OBVIOUS
    <3> QED  BY <3>1, <3>2
  <2> HIDE DEF h, of
  <2> QED  BY <2>1, <2>2, ImageFinite
<1>2. CombMatches(q) \subseteq matches /\ IsFiniteSet(CombMatches(q))
  <2>1. CombMatches(q) \subseteq matches
    BY ChosenAreMatches DEF CombMatches
  <2> QED  BY <2>1, FS_Subset DEF Tables
<1>3. IsFiniteSet(Everyone)
  <2> HIDE DEF of
  <2> QED  BY <1>1, <1>2, UnionFinite
<1>4. Teams(q) = {t \in Everyone : Cardinality(t.heroes) = TeamSize}
  BY DEF Teams
<1>5. \A t \in Everyone : IsFiniteSet(t.heroes)
  <2> SUFFICES ASSUME NEW m \in CombMatches(q), NEW team \in {0, 1}
               PROVE  IsFiniteSet(Team(m, Side(q, m, team)).heroes)
    OBVIOUS
  <2> DEFINE S == Side(q, m, team)
             h == [p \in S |-> p.hero]
  <2>1. IsFiniteSet(m.players)
    BY <1>2, MatchAssumption DEF Tables
  <2>2. IsFiniteSet(S)
    BY <2>1, FS_Subset DEF Side, PlayersOf
  <2>3. Team(m, S).heroes = {h[p] : p \in S}
    BY DEF Team
  <2> HIDE DEF S, h
  <2>4. IsFiniteSet({h[p] : p \in S})
    BY <2>2, ImageFinite
  <2> QED  BY <2>3, <2>4 DEF S
<1> HIDE DEF Everyone
<1>6. IsFiniteSet(Teams(q))
  BY <1>3, <1>4, FS_Subset
<1> QED  BY <1>4, <1>5, <1>6

LEMMA CombStatsFields ==
    ASSUME NEW ts
    PROVE  /\ HeroCombStats(ts) = [wins |-> HeroCombStats(ts).wins, losses |-> HeroCombStats(ts).losses]
           /\ HeroCombStats(ts).wins = Cardinality({t \in ts : t.won})
           /\ HeroCombStats(ts).losses = Cardinality({t \in ts : ~t.won})
  BY DEF HeroCombStats

LEMMA CombsExact == Tables => SubCombinationsExact
<1> SUFFICES ASSUME Tables, NEW q \in CombQueries, Answered(q), q.maxMatches = {},
                    NEW some \in Teams(q), NEW comb \in kSubset(q.size, some.heroes)
             PROVE  LET played == HeroCombStats(Playing(q, comb))
                    IN  IF Playing(q, comb) # {} /\ AtLeast(MinMatches(q), MatchesOf(played))
                        THEN comb \in DOMAIN hero_comb_stats(q) /\ hero_comb_stats(q)[comb] = played
                        ELSE comb \notin DOMAIN hero_comb_stats(q)
  BY DEF SubCombinationsExact
<1> DEFINE played == HeroCombStats(Playing(q, comb))
           ts == {t \in Teams(q) : GroupedFilters(q, t)}
           heroes == {t.heroes : t \in ts}
           of(h) == HeroCombStats({t \in ts : t.heroes = h})
           whole == BuildCombQuery(q)
<1>1. hero_comb_stats(q) = GetCombStats(q)
  BY DEF Answered, hero_comb_stats
<1>2. \A n : AtMost(q.maxMatches, n)
  BY DEF AtMost
<1>3. whole = [h \in {h \in heroes : q.size < TeamSize \/ AtLeast(q.minMatches, MatchesOf(of(h)))} |-> of(h)]
  <2>1. \A h : {t \in Teams(q) : GroupedFilters(q, t) /\ t.heroes = h} = {t \in ts : t.heroes = h}
    OBVIOUS
  <2>2. \A n : Having(q, n) <=> (q.size < TeamSize \/ AtLeast(q.minMatches, n))
    BY <1>2 DEF Having
  <2> QED  BY <2>1, <2>2 DEF BuildCombQuery
<1>4. /\ IsFiniteSet(ts) /\ IsFiniteSet(heroes)
      /\ \A t \in ts : IsFiniteSet(t.heroes) /\ Cardinality(t.heroes) = TeamSize
  <2>1. IsFiniteSet(ts) /\ (\A t \in ts : IsFiniteSet(t.heroes) /\ Cardinality(t.heroes) = TeamSize)
    BY TeamsFinite, FS_Subset
  <2> DEFINE h == [t \in ts |-> t.heroes]
  <2>2. heroes = {h[t] : t \in ts}
    OBVIOUS
  <2> HIDE DEF h, heroes, ts
  <2> QED  BY <2>1, <2>2, ImageFinite
<1>5. comb \subseteq some.heroes /\ Cardinality(comb) = q.size /\ IsFiniteSet(some.heroes)
      /\ Cardinality(some.heroes) = TeamSize /\ q.size \in 2 .. TeamSize
  BY TeamsFinite DEF kSubset, Answered
<1>6. Playing(q, comb) = {t \in ts : comb \subseteq t.heroes}
  BY DEF Playing
<1> HIDE DEF ts
<1>7. CASE q.size = TeamSize
  <2>1. \A t \in ts : comb \subseteq t.heroes => t.heroes = comb
    <3> TAKE t \in ts
    <3>1. comb \subseteq t.heroes /\ Cardinality(comb) = Cardinality(t.heroes) => comb = t.heroes
      BY <1>4, FS_Subset
    <3> QED  BY <1>4, <1>5, <1>7, <3>1
  <2>2. Playing(q, comb) = {t \in ts : t.heroes = comb}
    BY <1>6, <2>1
  <2>3. GetCombStats(q) = whole
    <3>1. ~(q.size \notin 2 .. TeamSize)
      BY <1>5
    <3> HIDE DEF whole
    <3> QED  BY <1>7, <3>1 DEF GetCombStats, whole
  <2>4. MinMatches(q) = q.minMatches /\ ~(q.size < TeamSize)
    BY <1>7, TeamSizeAssumption DEF MinMatches
  <2>5. comb \in heroes <=> Playing(q, comb) # {}
    BY <2>2
  <2>6. of(comb) = played
    BY <2>2
  <2> HIDE DEF heroes, of, played, whole
  <2>7. comb \in DOMAIN whole <=> Playing(q, comb) # {} /\ AtLeast(MinMatches(q), MatchesOf(played))
    BY <1>3, <2>4, <2>5, <2>6
  <2>8. comb \in DOMAIN whole => whole[comb] = played
    BY <1>3, <2>6
  <2> QED  BY <1>1, <2>3, <2>7, <2>8 DEF played
<1>8. CASE q.size < TeamSize
  <2> DEFINE from(c) == {h \in DOMAIN whole : c \subseteq h}
             sum(c) == [wins |-> SumFunction([h \in from(c) |-> whole[h].wins]),
                        losses |-> SumFunction([h \in from(c) |-> whole[h].losses])]
             combs == UNION {kSubset(q.size, h) : h \in DOMAIN whole}
             min == MinMatches(q)
  <2>1. GetCombStats(q) = [c \in {c \in combs : Within(min, q.maxMatches, MatchesOf(sum(c)))} |-> sum(c)]
    <3>1. q.size # TeamSize /\ ~(q.size \notin 2 .. TeamSize)
      BY <1>5, <1>8
    <3> HIDE DEF whole
    <3> QED  BY <3>1 DEF GetCombStats, whole
  <2>2. DOMAIN whole = heroes /\ (\A h \in heroes : whole[h] = of(h))
    <3> HIDE DEF whole, heroes, of
    <3> QED  BY <1>3, <1>8
  <2>3. comb \in combs <=> Playing(q, comb) # {}
    <3>1. \A h : comb \in kSubset(q.size, h) <=> comb \subseteq h
      BY <1>5 DEF kSubset
    <3>2. comb \in combs <=> \E h \in heroes : comb \subseteq h
      <4> HIDE DEF whole, heroes
      <4> QED  BY <2>2, <3>1
    <3>3. (\E h \in heroes : comb \subseteq h) <=> \E t \in ts : comb \subseteq t.heroes
      OBVIOUS
    <3> QED  BY <1>6, <3>2, <3>3
  <2>4. sum(comb) = played
    <3> DEFINE F == from(comb)
               Q == Playing(q, comb)
               key == [t \in Q |-> t.heroes]
               won == {t \in Q : t.won}
               lost == {t \in Q : ~t.won}
               wins == [h \in F |-> whole[h].wins]
               losses == [h \in F |-> whole[h].losses]
    <3>1. F = {h \in heroes : comb \subseteq h}
      BY <2>2
    <3>2. /\ IsFiniteSet(F) /\ IsFiniteSet(Q) /\ IsFiniteSet(won) /\ IsFiniteSet(lost)
      <4>1. IsFiniteSet(F)
        BY <1>4, <3>1, FS_Subset
      <4>2. IsFiniteSet(Q)
        BY <1>4, <1>6, FS_Subset
      <4> HIDE DEF F, Q
      <4> QED  BY <4>1, <4>2, FS_Subset
    <3>3. /\ \A t \in won : key[t] \in F
          /\ \A t \in lost : key[t] \in F
      BY <1>6, <3>1
    <3>4. ASSUME NEW h \in F
          PROVE  /\ wins[h] = Cardinality(WithKey(won, key, h))
                 /\ losses[h] = Cardinality(WithKey(lost, key, h))
      <4> DEFINE g == {t \in ts : t.heroes = h}
      <4>1. g = {t \in Q : t.heroes = h}
        BY <1>6, <3>1
      <4>2. {t \in g : t.won} = WithKey(won, key, h) /\ {t \in g : ~t.won} = WithKey(lost, key, h)
        BY <4>1 DEF WithKey
      <4>3. wins[h] = of(h).wins /\ losses[h] = of(h).losses
        BY <2>2, <3>1
      <4>4. of(h) = HeroCombStats(g)
        OBVIOUS
      <4> HIDE DEF wins, losses, of, g
      <4> QED  BY <4>2, <4>3, <4>4, CombStatsFields
    <3>5. /\ SumFunction(wins) = SumFunctionOnSet(wins, F)
          /\ SumFunction(losses) = SumFunctionOnSet(losses, F)
      BY DEF SumFunction
    <3>6. sum(comb) = [wins |-> SumFunction(wins), losses |-> SumFunction(losses)]
      OBVIOUS
    <3>7. played = [wins |-> Cardinality(won), losses |-> Cardinality(lost)]
      BY DEF HeroCombStats
    <3> HIDE DEF F, Q, key, won, lost, wins, losses, sum, played
    <3>8. Cardinality(won) = SumFunctionOnSet(wins, F)
      BY <3>2, <3>3, <3>4, CountByKey
    <3>9. Cardinality(lost) = SumFunctionOnSet(losses, F)
      BY <3>2, <3>3, <3>4, CountByKey
    <3> QED  BY <3>5, <3>6, <3>7, <3>8, <3>9
  <2> HIDE DEF combs, sum, min, played
  <2>5. \A n : Within(min, q.maxMatches, n) <=> AtLeast(min, n)
    BY <1>2 DEF Within
  <2>6. comb \in DOMAIN GetCombStats(q) <=> Playing(q, comb) # {} /\ AtLeast(min, MatchesOf(played))
    BY <2>1, <2>3, <2>4, <2>5
  <2>7. comb \in DOMAIN GetCombStats(q) => GetCombStats(q)[comb] = played
    BY <2>1, <2>4
  <2> QED  BY <1>1, <2>6, <2>7 DEF min, played
<1> QED  BY <1>5, <1>7, <1>8, TeamSizeAssumption

\* Teams and matchups fit together: see CountersMirror, EveryPairCounted and
\* SubCombinationsExact.
THEOREM TeamsFit == TablesSpec => []TeamsAddUp
<1>1. Tables => TeamsAddUp
  BY MatchupsMirror, PairsAllCounted, CombsExact DEF TeamsAddUp
<1> QED  BY <1>1, TablesGrow, PTL

----------------------------------------------------------------------------
\* The items of the build creator

\* An average times the number of what it was taken of.
LEMMA AverageTimesCount ==
    ASSUME NEW sum \in Int, NEW n \in Nat \ {0}
    PROVE  Times(<<sum, n>>, n) = sum
<1>1. (sum * n) \div n = sum
  OBVIOUS
<1> QED  BY <1>1 DEF Times

LEMMA PurchasesFinite ==
    ASSUME Tables, NEW q
    PROVE  /\ IsFiniteSet(ExplodedPlayers(q))
           /\ \A r \in ExplodedPlayers(q) : {r.it.at, r.it.sold} \subseteq Nat
<1> DEFINE rows == RowsOf(ItemMatches(q))
           of == [r \in rows |-> {[match |-> r.match, p |-> r.p, it |-> it] : it \in r.p.purchases}]
<1>1. IsFiniteSet(rows) /\ \A r \in rows : r.match \in PossibleMatches /\ r.p \in r.match.players
  BY RowsFinite, ChosenAreMatches DEF ItemMatches, Tables
<1>2. ASSUME NEW r \in rows PROVE IsFiniteSet(of[r])
  <2> DEFINE h == [it \in r.p.purchases |-> [match |-> r.match, p |-> r.p, it |-> it]]
  <2>1. IsFiniteSet(r.p.purchases)
    BY <1>1, PurchasesAssumption
  <2>2. of[r] = {h[it] : it \in r.p.purchases}
    OBVIOUS
  <2>3. IsFiniteSet({h[it] : it \in r.p.purchases})
    <3> HIDE DEF h
    <3> QED  BY <2>1, ImageFinite
  <2> QED  BY <2>2, <2>3
<1>3. IsFiniteSet(UNION {of[r] : r \in rows})
  <2> HIDE DEF rows, of
  <2> QED  BY <1>1, <1>2, UnionFinite
<1>4. ExplodedPlayers(q) \subseteq UNION {of[r] : r \in rows}
  BY DEF ExplodedPlayers
<1>5. \A e \in UNION {of[r] : r \in rows} : {e.it.at, e.it.sold} \subseteq Nat
  BY <1>1, PurchasesAssumption, MatchAssumption
<1> HIDE DEF rows, of
<1> QED  BY <1>3, <1>4, <1>5, FS_Subset

BuyTimes(rows) == SumFunction([r \in rows |-> r.it.at])
SellTimes(rows) == SumFunction([r \in SoldIn(rows) |-> r.it.sold])

\* Times are added up bucket by bucket.
LEMMA BuyTimesByKey ==
    ASSUME NEW rows, IsFiniteSet(rows), \A r \in rows : r.it.at \in Nat,
           NEW K, IsFiniteSet(K), NEW key, \A r \in rows : key[r] \in K,
           NEW times, \A k \in K : times[k] = BuyTimes(WithKey(rows, key, k))
    PROVE  BuyTimes(rows) = SumFunctionOnSet(times, K) /\ \A k \in K : times[k] \in Int
<1> DEFINE at == [r \in rows |-> r.it.at]
<1>1. ASSUME NEW k \in K
      PROVE  times[k] = SumFunctionOnSet(at, WithKey(rows, key, k)) /\ times[k] \in Int
  <2> DEFINE P == WithKey(rows, key, k)
             here == [r \in P |-> r.it.at]
  <2>1. BuyTimes(P) = SumFunctionOnSet(here, P)
    BY DEF SumFunction, BuyTimes
  <2>2. P \subseteq rows /\ IsFiniteSet(P)
    BY FS_Subset DEF WithKey
  <2>3. \A r \in P : here[r] \in Int /\ here[r] = at[r]
    BY <2>2
  <2>4. SumFunctionOnSet(here, P) = SumFunctionOnSet(at, P) /\ SumFunctionOnSet(here, P) \in Int
    <3> HIDE DEF here, at, P
    <3> QED  BY <2>2, <2>3, SumEqual, SumType
  <2> QED  BY <2>1, <2>4
<1>2. \A r \in rows : at[r] \in Int
  OBVIOUS
<1>3. BuyTimes(rows) = SumFunctionOnSet(at, rows)
  BY DEF SumFunction, BuyTimes
<1> HIDE DEF at
<1> QED  BY <1>1, <1>2, <1>3, SumByKey

LEMMA SellTimesByKey ==
    ASSUME NEW rows, IsFiniteSet(rows), \A r \in rows : r.it.sold \in Nat,
           NEW K, IsFiniteSet(K), NEW key, \A r \in rows : key[r] \in K,
           NEW times, \A k \in K : times[k] = SellTimes(WithKey(rows, key, k)),
           NEW sells, \A k \in K : sells[k] = Cardinality(SoldIn(WithKey(rows, key, k)))
    PROVE  /\ SellTimes(rows) = SumFunctionOnSet(times, K)
           /\ Cardinality(SoldIn(rows)) = SumFunctionOnSet(sells, K)
           /\ \A k \in K : times[k] \in Int
<1> DEFINE out == SoldIn(rows)
           at == [r \in out |-> r.it.sold]
<1>0. /\ IsFiniteSet(out) /\ \A r \in out : key[r] \in K /\ r.it.sold \in Nat
      /\ \A k \in K : SoldIn(WithKey(rows, key, k)) = WithKey(out, key, k)
  BY FS_Subset DEF SoldIn, WithKey
<1>1. ASSUME NEW k \in K
      PROVE  times[k] = SumFunctionOnSet(at, WithKey(out, key, k)) /\ times[k] \in Int
  <2> DEFINE P == WithKey(out, key, k)
             here == [r \in P |-> r.it.sold]
  <2>1. SellTimes(WithKey(rows, key, k)) = SumFunctionOnSet(here, P)
    BY <1>0 DEF SumFunction, SellTimes
  <2>2. P \subseteq out /\ IsFiniteSet(P)
    BY <1>0, FS_Subset DEF WithKey
  <2>3. \A r \in P : here[r] \in Int /\ here[r] = at[r]
    BY <1>0, <2>2
  <2>4. SumFunctionOnSet(here, P) = SumFunctionOnSet(at, P) /\ SumFunctionOnSet(here, P) \in Int
    <3> HIDE DEF here, at, P
    <3> QED  BY <2>2, <2>3, SumEqual, SumType
  <2> QED  BY <1>0, <2>1, <2>4
<1>2. \A r \in out : at[r] \in Int
  BY <1>0
<1>3. SellTimes(rows) = SumFunctionOnSet(at, out)
  BY DEF SumFunction, SellTimes
<1>4. \A k \in K : sells[k] = Cardinality(WithKey(out, key, k))
  BY <1>0
<1> HIDE DEF at, out
<1>5. SumFunctionOnSet(at, out) = SumFunctionOnSet(times, K)
  <2>1. \A k \in K : times[k] = SumFunctionOnSet(at, WithKey(out, key, k))
    BY <1>1
  <2> QED  BY <1>0, <1>2, <2>1, SumByKey
<1>6. Cardinality(out) = SumFunctionOnSet(sells, K)
  BY <1>0, <1>4, CountByKey
<1> QED  BY <1>1, <1>3, <1>5, <1>6 DEF out

ItemStatsOf(rows) ==
    [wins |-> Cardinality(WonIn(rows)), matches |-> Cardinality(rows),
     avgBuy |-> <<BuyTimes(rows), Cardinality(rows)>>,
     avgSell |-> <<SellTimes(rows), Cardinality(SoldIn(rows))>>,
     sells |-> Cardinality(SoldIn(rows))]

LEMMA RowFields == \A rows : ItemStatsRow(rows) = ItemStatsOf(rows)
  BY DEF ItemStatsRow, ItemStatsOf, BuyTimes, SellTimes

\* An item is made of its rows as if there had been one row for all.
LEMMA ItemPutTogether ==
    ASSUME NEW bought, IsFiniteSet(bought), \A r \in bought : r.it.at \in Nat /\ r.it.sold \in Nat,
           NEW K, IsFiniteSet(K), NEW key, \A r \in bought : key[r] \in K,
           \A k \in K : WithKey(bought, key, k) # {},
           NEW rows, DOMAIN rows = K, \A k \in K : rows[k] = ItemStatsRow(WithKey(bought, key, k))
    PROVE  BuildCreatorItem(rows) =
             [matches |-> Cardinality(bought),
              avgBuy |-> <<BuyTimes(bought), Cardinality(bought)>>,
              avgSell |-> <<SellTimes(bought), Cardinality(SoldIn(bought))>>,
              winrate |-> <<Cardinality(WonIn(bought)), Cardinality(bought)>>]
<1> DEFINE part(k) == WithKey(bought, key, k)
           ofMatches == [k \in K |-> rows[k].matches]
           ofWins == [k \in K |-> Times(<<rows[k].wins, rows[k].matches>>, rows[k].matches)]
           ofBuys == [k \in K |-> Times(rows[k].avgBuy, rows[k].matches)]
           ofSells == [k \in K |-> rows[k].sells]
           ofSold == [k \in K |-> IF rows[k].sells > 0 THEN Times(rows[k].avgSell, rows[k].sells) ELSE 0]
           buys == [k \in K |-> BuyTimes(part(k))]
           sold == [k \in K |-> SellTimes(part(k))]
<1>1. ASSUME NEW k \in K
      PROVE  /\ rows[k].wins = Cardinality(WonIn(part(k))) /\ rows[k].wins \in Nat
             /\ rows[k].matches = Cardinality(part(k)) /\ rows[k].matches \in Nat \ {0}
             /\ rows[k].avgBuy = <<BuyTimes(part(k)), rows[k].matches>>
             /\ rows[k].avgSell = <<SellTimes(part(k)), rows[k].sells>>
             /\ rows[k].sells = Cardinality(SoldIn(part(k))) /\ rows[k].sells \in Nat
  <2>1. /\ IsFiniteSet(part(k)) /\ IsFiniteSet(WonIn(part(k))) /\ IsFiniteSet(SoldIn(part(k)))
    BY FS_Subset DEF WithKey, WonIn, SoldIn
  <2>2. Cardinality(part(k)) # 0
    BY <2>1, FS_EmptySet
  <2>3. rows[k] = ItemStatsOf(part(k))
    BY RowFields
  <2> HIDE DEF part
  <2> QED  BY <2>1, <2>2, <2>3, FS_CardinalityType DEF ItemStatsOf
<1>2. BuyTimes(bought) = SumFunctionOnSet(buys, K) /\ \A k \in K : buys[k] \in Int
  <2>1. \A k \in K : buys[k] = BuyTimes(WithKey(bought, key, k))
    OBVIOUS
  <2> HIDE DEF buys
  <2> QED  BY <2>1, BuyTimesByKey
<1>3. \A k \in K : ofSells[k] = Cardinality(SoldIn(part(k)))
  BY <1>1
<1>4. /\ SellTimes(bought) = SumFunctionOnSet(sold, K)
      /\ Cardinality(SoldIn(bought)) = SumFunctionOnSet(ofSells, K)
      /\ \A k \in K : sold[k] \in Int
  <2>1. \A k \in K : sold[k] = SellTimes(WithKey(bought, key, k))
    OBVIOUS
  <2> HIDE DEF sold, ofSells
  <2> QED  BY <2>1, <1>3, SellTimesByKey
<1>5. Cardinality(bought) = SumFunctionOnSet(ofMatches, K)
  <2>1. \A k \in K : ofMatches[k] = Cardinality(WithKey(bought, key, k))
    BY <1>1
  <2> HIDE DEF ofMatches
  <2> QED  BY <2>1, CountByKey
<1>6. Cardinality(WonIn(bought)) = SumFunctionOnSet(ofWins, K)
  <2>1. \A k \in K : ofWins[k] = Cardinality(WonIn(WithKey(bought, key, k)))
    <3> SUFFICES ASSUME NEW k \in K PROVE ofWins[k] = rows[k].wins
      BY <1>1
    <3>1. Times(<<rows[k].wins, rows[k].matches>>, rows[k].matches) = rows[k].wins
      BY <1>1, AverageTimesCount
    <3> QED  BY <3>1
  <2> HIDE DEF ofWins
  <2> QED  BY <2>1, WinsByKey
<1>7. SumFunctionOnSet(ofBuys, K) = BuyTimes(bought)
  <2>1. \A k \in K : buys[k] \in Int /\ buys[k] = ofBuys[k]
    <3> SUFFICES ASSUME NEW k \in K PROVE ofBuys[k] = BuyTimes(part(k))
      BY <1>2
    <3>1. Times(<<BuyTimes(part(k)), rows[k].matches>>, rows[k].matches) = BuyTimes(part(k))
      <4>1. BuyTimes(part(k)) \in Int
        BY <1>2
      <4> QED  BY <1>1, <4>1, AverageTimesCount
    <3> QED  BY <3>1, <1>1
  <2> HIDE DEF ofBuys, buys
  <2> QED  BY <2>1, <1>2, SumEqual
<1>8. SumFunctionOnSet(ofSold, K) = SellTimes(bought)
  <2>1. \A k \in K : sold[k] \in Int /\ sold[k] = ofSold[k]
    <3> SUFFICES ASSUME NEW k \in K PROVE ofSold[k] = SellTimes(part(k))
      BY <1>4
    <3>1. CASE rows[k].sells > 0
      <4>1. SellTimes(part(k)) \in Int
        BY <1>4
      <4>2. Times(<<SellTimes(part(k)), rows[k].sells>>, rows[k].sells) = SellTimes(part(k))
        BY <1>1, <3>1, <4>1, AverageTimesCount
      <4> QED  BY <3>1, <4>2, <1>1
    <3>2. CASE ~(rows[k].sells > 0)
      <4>1. IsFiniteSet(SoldIn(part(k))) /\ Cardinality(SoldIn(part(k))) = 0
        <5>1. IsFiniteSet(SoldIn(part(k)))
          BY FS_Subset DEF WithKey, SoldIn
        <5> QED  BY <5>1, <3>2, <1>1
      <4>2. SoldIn(part(k)) = {}
        BY <4>1, FS_EmptySet
      <4>3. SellTimes(part(k)) = 0
        <5> DEFINE none == [r \in SoldIn(part(k)) |-> r.it.sold]
        <5>1. SellTimes(part(k)) = SumFunctionOnSet(none, {})
          BY <4>2 DEF SellTimes, SumFunction
        <5> HIDE DEF none
        <5> QED  BY <5>1, SumOfNone
      <4> QED  BY <3>2, <4>3
    <3> QED  BY <3>1, <3>2
  <2> HIDE DEF ofSold, sold
  <2> QED  BY <2>1, <1>4, SumEqual
<1>9. /\ SumBy(LAMBDA row : row.matches, rows) = SumFunctionOnSet(ofMatches, K)
      /\ SumBy(LAMBDA row : row.sells, rows) = SumFunctionOnSet(ofSells, K)
      /\ SumBy(LAMBDA row : Times(row.avgBuy, row.matches), rows) = SumFunctionOnSet(ofBuys, K)
      /\ TotalSellTime(rows) = SumFunctionOnSet(ofSold, K)
      /\ SumBy(LAMBDA row : Times(<<row.wins, row.matches>>, row.matches), rows) = SumFunctionOnSet(ofWins, K)
  BY DEF SumBy, SumFunction, TotalSellTime
<1> HIDE DEF part, ofMatches, ofWins, ofBuys, ofSells, ofSold, buys, sold
<1> QED  BY <1>4, <1>5, <1>6, <1>7, <1>8, <1>9 DEF BuildCreatorItem, calculate_avg_winrate

ItemOver(bought) ==
    [matches |-> Cardinality(bought),
     avgBuy |-> <<BuyTimes(bought), Cardinality(bought)>>,
     avgSell |-> <<SellTimes(bought), Cardinality(SoldIn(bought))>>,
     winrate |-> <<Cardinality(WonIn(bought)), Cardinality(bought)>>]

CreatorBuckets(q, item) == {BuildCreatorBucket(q, r) : r \in Kept(q, item)}

LEMMA KeptFinite ==
    ASSUME Tables, NEW q, NEW item
    PROVE  /\ IsFiniteSet(HerosPurchases(q)) /\ IsFiniteSet(Kept(q, item)) /\ IsFiniteSet(CreatorBuckets(q, item))
           /\ \A r \in Kept(q, item) : r.it.at \in Nat /\ r.it.sold \in Nat
           /\ \A b : IsFiniteSet(RowsOfBucket(q, item, b))
<1>1. IsFiniteSet(HerosPurchases(q)) /\ \A r \in HerosPurchases(q) : {r.it.at, r.it.sold} \subseteq Nat
  BY PurchasesFinite DEF HerosPurchases
<1>2. Kept(q, item) \subseteq HerosPurchases(q) /\ \A b : RowsOfBucket(q, item, b) \subseteq HerosPurchases(q)
  BY DEF Kept, RowsOfBucket
<1>3. IsFiniteSet(Kept(q, item))
  BY <1>1, <1>2, FS_Subset
<1>4. IsFiniteSet(CreatorBuckets(q, item))
  <2> DEFINE h == [r \in Kept(q, item) |-> BuildCreatorBucket(q, r)]
  <2>1. CreatorBuckets(q, item) = {h[r] : r \in Kept(q, item)}
    BY DEF CreatorBuckets
  <2> HIDE DEF h
  <2> QED  BY <2>1, <1>3, ImageFinite
<1> QED  BY <1>1, <1>2, <1>3, <1>4, FS_Subset

\* The rows of the query are those of the purchases that are kept, bucket by bucket.
LEMMA RowsOfItems ==
    ASSUME Tables, NEW q
    PROVE  /\ DOMAIN BuildCreatorRows(q) =
                {item \in {r.it.item : r \in HerosPurchases(q)} : Kept(q, item) # {}}
           /\ \A item \in DOMAIN BuildCreatorRows(q) :
                /\ DOMAIN BuildCreatorRows(q)[item] = CreatorBuckets(q, item)
                /\ \A b \in CreatorBuckets(q, item) :
                     BuildCreatorRows(q)[item][b] = ItemStatsRow(RowsOfBucket(q, item, b))
<1> DEFINE bought == HerosPurchases(q)
           items == {r.it.item : r \in bought}
           kept(item) == {b \in {BuildCreatorBucket(q, r) : r \in bought} :
                            /\ Cardinality(RowsOfBucket(q, item, b)) > 0
                            /\ EnoughMatches(q, Cardinality(RowsOfBucket(q, item, b)))}
<1>1. ASSUME NEW item PROVE kept(item) = CreatorBuckets(q, item)
  <2>1. ASSUME NEW b \in kept(item) PROVE b \in CreatorBuckets(q, item)
    <3>1. RowsOfBucket(q, item, b) # {}
      BY FS_EmptySet
    <3>2. PICK r \in bought : r.it.item = item /\ BuildCreatorBucket(q, r) = b
      BY <3>1 DEF RowsOfBucket
    <3>3. r \in Kept(q, item)
      BY <3>2 DEF Kept, EnoughMatches
    <3> QED  BY <3>2, <3>3 DEF CreatorBuckets
  <2>2. ASSUME NEW b \in CreatorBuckets(q, item) PROVE b \in kept(item)
    <3>1. PICK r \in Kept(q, item) : BuildCreatorBucket(q, r) = b
      BY <2>2 DEF CreatorBuckets
    <3>2. /\ r \in bought /\ r \in RowsOfBucket(q, item, b)
          /\ EnoughMatches(q, Cardinality(RowsOfBucket(q, item, b)))
      BY <3>1 DEF Kept, RowsOfBucket, EnoughMatches
    <3>3. Cardinality(RowsOfBucket(q, item, b)) > 0
      <4>1. IsFiniteSet(RowsOfBucket(q, item, b))
        BY KeptFinite
      <4>2. Cardinality(RowsOfBucket(q, item, b)) \in Nat /\ Cardinality(RowsOfBucket(q, item, b)) # 0
        BY <3>2, <4>1, FS_EmptySet, FS_CardinalityType
      <4> QED  BY <4>2
    <3> QED  BY <3>1, <3>2, <3>3
  <2> QED  BY <2>1, <2>2
<1>2. BuildCreatorRows(q) =
        [item \in {i \in items : kept(i) # {}} |->
            [b \in kept(item) |-> ItemStatsRow(RowsOfBucket(q, item, b))]]
  BY DEF BuildCreatorRows
<1>3. \A item : kept(item) = {} <=> Kept(q, item) = {}
  <2> TAKE item
  <2>1. kept(item) = {BuildCreatorBucket(q, r) : r \in Kept(q, item)}
    BY <1>1 DEF CreatorBuckets
  <2> HIDE DEF kept
  <2> QED  BY <2>1
<1> HIDE DEF kept, bought
<1>4. DOMAIN BuildCreatorRows(q) = {i \in items : Kept(q, i) # {}}
  BY <1>2, <1>3
<1>5. ASSUME NEW item \in DOMAIN BuildCreatorRows(q)
      PROVE  /\ DOMAIN BuildCreatorRows(q)[item] = CreatorBuckets(q, item)
             /\ \A b \in CreatorBuckets(q, item) :
                  BuildCreatorRows(q)[item][b] = ItemStatsRow(RowsOfBucket(q, item, b))
  <2>1. BuildCreatorRows(q)[item] = [b \in kept(item) |-> ItemStatsRow(RowsOfBucket(q, item, b))]
    BY <1>2
  <2>2. kept(item) = CreatorBuckets(q, item)
    BY <1>1
  <2> QED  BY <2>1, <2>2
<1> QED  BY <1>4, <1>5 DEF bought

\* What is answered of an item is taken over the purchases that are kept.
LEMMA ItemsOverKept ==
    ASSUME Tables, NEW q, NEW item \in DOMAIN BuildCreatorRows(q)
    PROVE  BuildCreatorItem(BuildCreatorRows(q)[item]) = ItemOver(Kept(q, item))
<1> DEFINE bought == Kept(q, item)
           K == CreatorBuckets(q, item)
           key == [r \in bought |-> BuildCreatorBucket(q, r)]
           rows == BuildCreatorRows(q)[item]
<1>1. ASSUME NEW b \in K
      PROVE  WithKey(bought, key, b) = RowsOfBucket(q, item, b) /\ WithKey(bought, key, b) # {}
  <2>1. PICK s \in bought : BuildCreatorBucket(q, s) = b
    BY DEF CreatorBuckets
  <2>2. AtLeast(q.minMatches, Cardinality(RowsOfBucket(q, item, b)))
    BY <2>1 DEF Kept
  <2>3. ASSUME NEW r \in WithKey(bought, key, b) PROVE r \in RowsOfBucket(q, item, b)
    BY DEF WithKey, Kept, RowsOfBucket
  <2>4. ASSUME NEW r \in RowsOfBucket(q, item, b) PROVE r \in WithKey(bought, key, b)
    BY <2>2 DEF WithKey, Kept, RowsOfBucket
  <2>5. s \in WithKey(bought, key, b)
    BY <2>1 DEF WithKey
  <2> QED  BY <2>3, <2>4, <2>5
<1>2. /\ IsFiniteSet(bought) /\ IsFiniteSet(K)
      /\ \A r \in bought : r.it.at \in Nat /\ r.it.sold \in Nat
  BY KeptFinite
<1>3. \A r \in bought : key[r] \in K
  BY DEF CreatorBuckets
<1>4. DOMAIN rows = K /\ \A b \in K : rows[b] = ItemStatsRow(WithKey(bought, key, b))
  BY <1>1, RowsOfItems
<1>5. \A b \in K : WithKey(bought, key, b) # {}
  BY <1>1
<1> HIDE DEF bought, K, key, rows
<1>6. BuildCreatorItem(rows) = ItemOver(bought)
  BY <1>2, <1>3, <1>4, <1>5, ItemPutTogether DEF ItemOver
<1> QED  BY <1>6 DEF rows, bought

LEMMA AveragesTogether == Tables => AveragesReassembled
<1> SUFFICES ASSUME Tables, NEW q \in CreatorQueries, q.hero \in HeroNames,
                    NEW item \in DOMAIN build_creator_items(q)
             PROVE  LET it == build_creator_items(q)[item]
                        of == ItemStatsRow(Kept(q, item))
                    IN  <<it.matches, it.avgBuy, it.avgSell>> = <<of.matches, of.avgBuy, of.avgSell>>
  BY DEF AveragesReassembled
<1>1. item \in DOMAIN BuildCreatorRows(q)
      /\ build_creator_items(q)[item] = BuildCreatorItem(BuildCreatorRows(q)[item])
  BY DEF build_creator_items, BuildCreatorItems
<1>2. build_creator_items(q)[item] = ItemOver(Kept(q, item))
  BY <1>1, ItemsOverKept
<1>3. ItemStatsRow(Kept(q, item)) = ItemStatsOf(Kept(q, item))
  BY RowFields
<1> QED  BY <1>2, <1>3 DEF ItemOver, ItemStatsOf

\* Without a minimum every purchase is kept, however they are put into buckets.
LEMMA OrderKept == Tables => OrderIgnoresBuckets
<1> SUFFICES ASSUME Tables, NEW q \in CreatorQueries, q.hero \in HeroNames,
                    NEW timing \in {"networth", "game_time"}
             PROVE  LET all == [q EXCEPT !.minMatches = {}]
                        other == [all EXCEPT !.timing = timing]
                    IN  build_creator_items(all) = build_creator_items(other)
  BY DEF OrderIgnoresBuckets
<1> DEFINE all == [q EXCEPT !.minMatches = {}]
           other == [all EXCEPT !.timing = timing]
<1>1. /\ all.hero = q.hero /\ all.info = q.info /\ all.minMatches = {}
      /\ other.hero = q.hero /\ other.info = q.info /\ other.minMatches = {}
  BY CreatorQueriesAssumption DEF BuildCreatorQuery
<1> HIDE DEF all, other
<1>2. HerosPurchases(all) = HerosPurchases(other)
  BY <1>1 DEF HerosPurchases
<1>3. \A item : Kept(all, item) = Kept(other, item)
  BY <1>1, <1>2 DEF Kept, AtLeast
<1>4. DOMAIN BuildCreatorRows(all) = DOMAIN BuildCreatorRows(other)
  BY <1>2, <1>3, RowsOfItems
<1>5. \A item \in DOMAIN BuildCreatorRows(all) :
        BuildCreatorItem(BuildCreatorRows(all)[item]) = BuildCreatorItem(BuildCreatorRows(other)[item])
  <2> TAKE item \in DOMAIN BuildCreatorRows(all)
  <2>1. BuildCreatorItem(BuildCreatorRows(all)[item]) = ItemOver(Kept(all, item))
    BY ItemsOverKept
  <2>2. BuildCreatorItem(BuildCreatorRows(other)[item]) = ItemOver(Kept(other, item))
    BY <1>4, ItemsOverKept
  <2> QED  BY <1>3, <2>1, <2>2
<1>6. BuildCreatorItems(all) = BuildCreatorItems(other)
  BY <1>4, <1>5 DEF BuildCreatorItems
<1>7. build_creator_items(all) = build_creator_items(other)
  BY <1>1, <1>6 DEF build_creator_items
<1> QED  BY <1>7 DEF all, other

\* What the minimum leaves out of an item is in buckets with fewer than the minimum.
LEMMA RareLeftOut ==
    ASSUME Tables, NEW q \in CreatorQueries, NEW min \in q.minMatches, NEW item,
           NEW e, e = [q EXCEPT !.minMatches = {}]
    PROVE  Cardinality(Kept(e, item)) - Cardinality(Kept(q, item))
             <= (min - 1) * Cardinality(CreatorBuckets(e, item) \ CreatorBuckets(q, item))
<1> DEFINE left == Kept(e, item) \ Kept(q, item)
           K == CreatorBuckets(e, item) \ CreatorBuckets(q, item)
           key == [r \in left |-> BuildCreatorBucket(q, r)]
           part == [b \in K |-> Cardinality(WithKey(left, key, b))]
           atMost == [b \in K |-> min - 1]
<1>1. /\ e.hero = q.hero /\ e.info = q.info /\ e.timing = q.timing /\ e.minMatches = {}
      /\ min \in Nat /\ q.minMatches = {min}
  BY CreatorQueriesAssumption DEF BuildCreatorQuery
<1>2. /\ HerosPurchases(e) = HerosPurchases(q)
      /\ \A r : BuildCreatorBucket(e, r) = BuildCreatorBucket(q, r)
  BY <1>1 DEF HerosPurchases, BuildCreatorBucket
<1>3. Kept(e, item) = {r \in HerosPurchases(q) : r.it.item = item}
  BY <1>1, <1>2 DEF Kept, AtLeast
<1>4. Kept(q, item) = {r \in Kept(e, item) :
                         Cardinality(RowsOfBucket(q, item, BuildCreatorBucket(q, r))) >= min}
  BY <1>1, <1>3 DEF Kept, AtLeast
<1>5. /\ IsFiniteSet(Kept(e, item)) /\ IsFiniteSet(Kept(q, item)) /\ IsFiniteSet(left) /\ IsFiniteSet(K)
      /\ Cardinality(Kept(e, item)) - Cardinality(Kept(q, item)) = Cardinality(left)
  <2>1. /\ IsFiniteSet(Kept(e, item)) /\ IsFiniteSet(Kept(q, item)) /\ IsFiniteSet(CreatorBuckets(e, item))
        /\ Kept(e, item) \cap Kept(q, item) = Kept(q, item)
    BY <1>4, KeptFinite
  <2>2. IsFiniteSet(left) /\ IsFiniteSet(K)
    BY <2>1, FS_Subset
  <2>3. Cardinality(left) = Cardinality(Kept(e, item)) - Cardinality(Kept(q, item))
    <3> DEFINE most == Kept(e, item)
               some == Kept(q, item)
    <3>1. IsFiniteSet(most) /\ most \cap some = some /\ left = most \ some
      BY <2>1
    <3> HIDE DEF most, some, left
    <3>2. Cardinality(most \ some) = Cardinality(most) - Cardinality(most \cap some)
      BY <3>1, FS_Difference
    <3>3. Cardinality(left) = Cardinality(most) - Cardinality(some)
      BY <3>1, <3>2
    <3> QED  BY <3>3 DEF most, some
  <2> QED  BY <2>1, <2>2, <2>3
<1>6. \A r \in left : key[r] \in K
  <2> SUFFICES ASSUME NEW r \in left
               PROVE  BuildCreatorBucket(q, r) \in CreatorBuckets(e, item)
                      /\ BuildCreatorBucket(q, r) \notin CreatorBuckets(q, item)
    OBVIOUS
  <2>1. BuildCreatorBucket(q, r) \in CreatorBuckets(e, item)
    BY <1>2 DEF CreatorBuckets
  <2>2. \A s \in Kept(q, item) : BuildCreatorBucket(q, s) # BuildCreatorBucket(q, r)
    BY <1>4
  <2> QED  BY <2>1, <2>2 DEF CreatorBuckets
<1>7. ASSUME NEW b \in K PROVE part[b] \in Int /\ part[b] <= atMost[b] /\ atMost[b] \in Int
  <2>1. PICK r \in Kept(e, item) : BuildCreatorBucket(q, r) = b
    BY <1>2 DEF CreatorBuckets
  <2>2. r \notin Kept(q, item)
    BY <2>1 DEF CreatorBuckets
  <2>3. ~(Cardinality(RowsOfBucket(q, item, b)) >= min)
    BY <1>4, <2>1, <2>2
  <2>4. WithKey(left, key, b) \subseteq RowsOfBucket(q, item, b)
    BY <1>3 DEF WithKey, RowsOfBucket
  <2>5. IsFiniteSet(RowsOfBucket(q, item, b)) /\ Cardinality(RowsOfBucket(q, item, b)) \in Nat
    BY KeptFinite, FS_CardinalityType
  <2>6. /\ Cardinality(WithKey(left, key, b)) \in Nat
        /\ Cardinality(WithKey(left, key, b)) <= Cardinality(RowsOfBucket(q, item, b))
    BY <2>4, <2>5, FS_Subset, FS_CardinalityType
  <2> QED  BY <1>1, <2>3, <2>5, <2>6
<1>8. /\ \A b \in K : part[b] = Cardinality(WithKey(left, key, b)) /\ atMost[b] = min - 1
      /\ min - 1 \in Int
  BY <1>1
<1> HIDE DEF left, K, key, part, atMost
<1>9. Cardinality(left) = SumFunctionOnSet(part, K)
  BY <1>5, <1>6, <1>8, CountByKey
<1>10. SumFunctionOnSet(part, K) <= SumFunctionOnSet(atMost, K)
  BY <1>5, <1>7, SumAtMost
<1>11. SumFunctionOnSet(atMost, K) = (min - 1) * Cardinality(K)
  BY <1>5, <1>8, SumOfSame
<1>12. Cardinality(left) <= (min - 1) * Cardinality(K)
  BY <1>9, <1>10, <1>11
<1> QED  BY <1>5, <1>12 DEF K

LEMMA OnlyRareMissing == Tables => OnlyRareBucketsMissing
<1> SUFFICES ASSUME Tables, NEW q \in CreatorQueries, NEW min \in q.minMatches,
                    NEW item \in DOMAIN BuildCreatorRows([q EXCEPT !.minMatches = {}])
             PROVE  LET everything == BuildCreatorRows([q EXCEPT !.minMatches = {}])
                        rows == BuildCreatorRows(q)
                        count(answer) == IF item \in DOMAIN answer THEN BuildCreatorItem(answer[item]).matches ELSE 0
                        some == IF item \in DOMAIN rows THEN DOMAIN rows[item] ELSE {}
                    IN  count(everything) - count(rows)
                          <= (min - 1) * Cardinality(DOMAIN everything[item] \ some)
  BY DEF OnlyRareBucketsMissing
<1> DEFINE e == [q EXCEPT !.minMatches = {}]
           everything == BuildCreatorRows(e)
           rows == BuildCreatorRows(q)
           count(answer) == IF item \in DOMAIN answer THEN BuildCreatorItem(answer[item]).matches ELSE 0
           some == IF item \in DOMAIN rows THEN DOMAIN rows[item] ELSE {}
<1>1. Cardinality(Kept(e, item)) - Cardinality(Kept(q, item))
        <= (min - 1) * Cardinality(CreatorBuckets(e, item) \ CreatorBuckets(q, item))
  BY RareLeftOut
<1>2. e.hero = q.hero /\ e.info = q.info
  BY CreatorQueriesAssumption DEF BuildCreatorQuery
<1> HIDE DEF e
<1>3. HerosPurchases(e) = HerosPurchases(q)
  BY <1>2 DEF HerosPurchases
<1>4. item \in DOMAIN everything
  BY DEF e
<1>5. count(everything) = Cardinality(Kept(e, item)) /\ DOMAIN everything[item] = CreatorBuckets(e, item)
  <2>1. BuildCreatorItem(everything[item]) = ItemOver(Kept(e, item))
    BY <1>4, ItemsOverKept
  <2>2. DOMAIN everything[item] = CreatorBuckets(e, item)
    BY <1>4, RowsOfItems
  <2> QED  BY <1>4, <2>1, <2>2 DEF ItemOver
<1>6. count(rows) = Cardinality(Kept(q, item)) /\ some = CreatorBuckets(q, item)
  <2>1. CASE item \in DOMAIN rows
    <3>1. BuildCreatorItem(rows[item]) = ItemOver(Kept(q, item))
      BY <2>1, ItemsOverKept
    <3>2. DOMAIN rows[item] = CreatorBuckets(q, item)
      BY <2>1, RowsOfItems
    <3> QED  BY <2>1, <3>1, <3>2 DEF ItemOver
  <2>2. CASE item \notin DOMAIN rows
    <3>1. item \in {r.it.item : r \in HerosPurchases(q)}
      BY <1>3, <1>4, RowsOfItems
    <3>2. Kept(q, item) = {}
      BY <2>2, <3>1, RowsOfItems
    <3>3. CreatorBuckets(q, item) = {} /\ Cardinality(Kept(q, item)) = 0
      BY <3>2, FS_EmptySet DEF CreatorBuckets
    <3> QED  BY <2>2, <3>3
  <2> QED  BY <2>1, <2>2
<1>7. count(everything) - count(rows) <= (min - 1) * Cardinality(DOMAIN everything[item] \ some)
  BY <1>1, <1>5, <1>6
<1> QED  BY <1>7 DEF e

\* Every average of the build creator is that over all the purchases kept, items
\* compare alike whatever the buckets, and what the minimum leaves out is rare.
THEOREM CreatorItemsFit == TablesSpec => []CreatorItemsAddUp
<1>1. Tables => CreatorItemsAddUp
  BY AveragesTogether, OrderKept, OnlyRareMissing DEF CreatorItemsAddUp
<1> QED  BY <1>1, TablesGrow, PTL

----------------------------------------------------------------------------
\* The order in which items are bought

\* The places of a set are numbered from the first to the last.
LEMMA PlacesNumbered ==
    ASSUME NEW P \in SUBSET Nat, IsFiniteSet(P)
    PROVE  /\ Cardinality(P) \in Nat
           /\ \A k \in 1 .. Cardinality(P) : Place(P, k) \in P
           /\ \A i \in P : \E k \in 1 .. Cardinality(P) : Place(P, k) = i
           /\ \A k, l \in 1 .. Cardinality(P) : k < l => Place(P, k) < Place(P, l)
<1> DEFINE n == Cardinality(P)
           UpTo(i) == {j \in P : j <= i}
           number == [i \in P |-> Cardinality(UpTo(i))]
<1>0. n \in Nat /\ IsFiniteSet(1 .. n) /\ Cardinality(1 .. n) = n
  BY FS_CardinalityType, FS_Interval
<1>1. ASSUME NEW i \in P
      PROVE  IsFiniteSet(UpTo(i)) /\ number[i] \in Nat /\ number[i] \in 1 .. n
  <2>1. UpTo(i) \subseteq P /\ i \in UpTo(i)
    OBVIOUS
  <2> HIDE DEF UpTo
  <2>2. IsFiniteSet(UpTo(i)) /\ Cardinality(UpTo(i)) <= n /\ Cardinality(UpTo(i)) # 0
    BY <2>1, FS_Subset, FS_EmptySet
  <2>3. Cardinality(UpTo(i)) \in Nat
    BY <2>2, FS_CardinalityType
  <2> QED  BY <1>0, <2>2, <2>3
<1>2. ASSUME NEW i \in P, NEW j \in P, i < j PROVE number[i] < number[j]
  <2>1. UpTo(i) \cup {j} \subseteq UpTo(j) /\ j \notin UpTo(i)
    <3>1. P \subseteq Nat /\ i \in Nat /\ j \in Nat /\ j \in P
      OBVIOUS
    <3>2. \A z \in P : z <= i => z <= j
      BY <1>2, <3>1
    <3>3. j <= j /\ ~(j <= i)
      BY <1>2, <3>1
    <3> QED  BY <3>1, <3>2, <3>3, Zenon
  <2>2. IsFiniteSet(UpTo(i)) /\ IsFiniteSet(UpTo(j))
    BY <1>1
  <2>3. number[i] = Cardinality(UpTo(i)) /\ number[j] = Cardinality(UpTo(j)) /\ number[i] \in Nat /\ number[j] \in Nat
    BY <1>1
  <2> HIDE DEF UpTo, number
  <2>4. Cardinality(UpTo(i) \cup {j}) = Cardinality(UpTo(i)) + 1
    BY <2>1, <2>2, FS_AddElement
  <2>5. Cardinality(UpTo(i) \cup {j}) <= Cardinality(UpTo(j))
    BY <2>1, <2>2, FS_Subset
  <2> QED  BY <2>3, <2>4, <2>5
<1>3. \A i, j \in P : number[i] = number[j] => i = j
  <2>1. \A i, j \in P : i \in Nat /\ j \in Nat
    OBVIOUS
  <2>2. \A i \in P : number[i] \in Nat
    BY <1>1
  <2> HIDE DEF number
  <2> QED  BY <1>2, <2>1, <2>2
<1>4. {number[i] : i \in P} = 1 .. n
  <2>1. {number[i] : i \in P} \subseteq 1 .. n
    BY <1>1
  <2> HIDE DEF number
  <2>2. Cardinality({number[i] : i \in P}) = n
    BY <1>3, CountImage
  <2>3. \A T : IsFiniteSet(T) => \A S : S \subseteq T /\ Cardinality(S) = Cardinality(T) => S = T
    BY FS_Subset
  <2> QED  BY <1>0, <2>1, <2>2, <2>3
<1>5. ASSUME NEW k \in 1 .. n PROVE Place(P, k) \in P /\ number[Place(P, k)] = k
  <2>1. \E i \in P : Cardinality({j \in P : j <= i}) = k
    BY <1>4
  <2> QED  BY <2>1 DEF Place
<1>6. \A i \in P : number[i] \in 1 .. n /\ Place(P, number[i]) = i
  <2> TAKE i \in P
  <2>1. number[i] \in 1 .. n
    BY <1>1
  <2>2. Place(P, number[i]) \in P /\ number[Place(P, number[i])] = number[i]
    BY <1>5, <2>1
  <2> HIDE DEF number
  <2> QED  BY <1>3, <2>1, <2>2
<1>7. ASSUME NEW k \in 1 .. n, NEW l \in 1 .. n, k < l PROVE Place(P, k) < Place(P, l)
  <2> DEFINE i == Place(P, k)
             j == Place(P, l)
  <2>1. i \in P /\ j \in P /\ number[i] = k /\ number[j] = l
    BY <1>5
  <2> HIDE DEF i, j, number
  <2>2. i \in Nat /\ j \in Nat /\ i # j /\ ~(j < i)
    BY <1>2, <1>7, <2>1
  <2>3. i < j
    BY <2>2
  <2> QED  BY <2>3 DEF i, j
<1> HIDE DEF number
<1> QED  BY <1>0, <1>5, <1>6, <1>7

\* Items of a kind are there once each, and all that were bought.
LEMMA EachBoughtOnce ==
    ASSUME NEW order \in Seq(Nat), NEW kind
    PROVE  \E n \in Nat :
             /\ DOMAIN DistinctOf(kind, order) = 1 .. n
             /\ \A k, l \in 1 .. n : DistinctOf(kind, order)[k] = DistinctOf(kind, order)[l] => k = l
             /\ {DistinctOf(kind, order)[k] : k \in 1 .. n} = ToSet(order) \cap kind
<1> DEFINE P == {i \in Distinct(order) : order[i] \in kind}
           n == Cardinality(P)
           s == DistinctOf(kind, order)
<1>1. /\ DOMAIN order = 1 .. Len(order) /\ Len(order) \in Nat
      /\ \A i \in Distinct(order) : i \in 1 .. Len(order) /\ \A j \in 1 .. i - 1 : order[j] # order[i]
      /\ \A i \in 1 .. Len(order) : (\A j \in 1 .. i - 1 : order[j] # order[i]) => i \in Distinct(order)
  BY DEF Distinct
<1>2. P \in SUBSET Nat /\ IsFiniteSet(P)
  <2>1. Len(order) \in Nat
    OBVIOUS
  <2>2. IsFiniteSet(1 .. Len(order))
    BY <2>1, FirstFinite
  <2>3. P \subseteq 1 .. Len(order) /\ 1 .. Len(order) \subseteq Nat
    BY <1>1
  <2> HIDE DEF P
  <2>4. IsFiniteSet(P)
    BY <2>2, <2>3, FS_Subset
  <2> QED  BY <2>3, <2>4
<1>3. /\ n \in Nat
      /\ \A k \in 1 .. n : Place(P, k) \in P
      /\ \A i \in P : \E k \in 1 .. n : Place(P, k) = i
      /\ \A k, l \in 1 .. n : k < l => Place(P, k) < Place(P, l)
  <2> HIDE DEF P
  <2> QED  BY <1>2, PlacesNumbered
<1>4. s = [k \in 1 .. n |-> order[Place(P, k)]]
  BY DEF DistinctOf, AtPlaces
<1>5. \A i, j \in P : i < j => order[i] # order[j]
  <2> SUFFICES ASSUME NEW i \in P, NEW j \in P, i < j PROVE order[i] # order[j]
    OBVIOUS
  <2>1. i \in Nat /\ j \in Nat /\ i \in 1 .. Len(order) /\ \A h \in 1 .. j - 1 : order[h] # order[j]
    BY <1>1
  <2>2. i \in 1 .. j - 1
    BY <2>1
  <2> QED  BY <2>1, <2>2
<1>6. \A k, l \in 1 .. n : s[k] = s[l] => k = l
  <2> SUFFICES ASSUME NEW k \in 1 .. n, NEW l \in 1 .. n, k < l PROVE s[k] # s[l]
    <3> HIDE DEF s, n
    <3> QED  BY <1>3
  <2>1. s[k] = order[Place(P, k)] /\ s[l] = order[Place(P, l)]
    BY <1>4
  <2> HIDE DEF s, P, n
  <2> QED  BY <1>3, <1>5, <2>1
<1>7. ASSUME NEW x \in ToSet(order) \cap kind PROVE \E k \in 1 .. n : s[k] = x
  <2> DEFINE T == {i \in 1 .. Len(order) : order[i] = x}
  <2>1. T # {} /\ T \in SUBSET Nat
    BY <1>1 DEF ToSet
  <2>2. PICK i \in T : \A j \in T : i <= j
    <3> HIDE DEF T
    <3> QED  BY <2>1, LeastNumber
  <2>3. \A j \in 1 .. i - 1 : order[j] # order[i]
    <3> TAKE j \in 1 .. i - 1
    <3>1. j \in 1 .. Len(order) /\ ~(i <= j) /\ order[i] = x
      BY <1>1
    <3> QED  BY <2>2, <3>1
  <2>4. i \in P
    BY <1>1, <2>3
  <2>5. PICK k \in 1 .. n : Place(P, k) = i
    BY <1>3, <2>4
  <2>6. s[k] = order[i]
    BY <1>4, <2>5
  <2> QED  BY <2>6
<1>8. ASSUME NEW k \in 1 .. n PROVE s[k] \in ToSet(order) \cap kind
  <2>1. Place(P, k) \in P
    BY <1>3
  <2>2. s[k] = order[Place(P, k)]
    BY <1>4
  <2>3. \A i \in P : i \in DOMAIN order /\ order[i] \in kind
    BY <1>1
  <2> HIDE DEF P, s
  <2> QED  BY <2>1, <2>2, <2>3 DEF ToSet
<1>9. {s[k] : k \in 1 .. n} = ToSet(order) \cap kind
  <2> HIDE DEF s, n
  <2> QED  BY <1>7, <1>8
<1>10. DOMAIN s = 1 .. n
  BY <1>4
<1> HIDE DEF s, n
<1> QED  BY <1>3, <1>6, <1>9, <1>10 DEF s

\* The permutations of so many items that a player brings.
PermsOf(p, size) == {[i \in 1 .. size |-> PlayerItems(p)[f[i]]] : f \in IncreasingPlaces(PlayerItems(p), size)}

\* Two items a player bought make one pair, in the order of their first purchases.
LEMMA OnePairEach ==
    ASSUME NEW p, p.order \in Seq(Nat), NEW a \in Upgrades, NEW b \in Upgrades, a # b
    PROVE  /\ {a, b} \subseteq ToSet(p.order) <=> <<a, b>> \in PermsOf(p, 2) \/ <<b, a>> \in PermsOf(p, 2)
           /\ ~(<<a, b>> \in PermsOf(p, 2) /\ <<b, a>> \in PermsOf(p, 2))
<1> DEFINE s == PlayerItems(p)
<1>1. PICK n \in Nat :
        /\ DOMAIN s = 1 .. n
        /\ \A k, l \in 1 .. n : s[k] = s[l] => k = l
        /\ {s[k] : k \in 1 .. n} = ToSet(p.order) \cap Upgrades
  BY EachBoughtOnce DEF PlayerItems
<1> HIDE DEF s
<1>2. ASSUME NEW x, NEW y
      PROVE  <<x, y>> \in PermsOf(p, 2) <=> \E k, l \in 1 .. n : k < l /\ s[k] = x /\ s[l] = y
  <2>1. ASSUME <<x, y>> \in PermsOf(p, 2) PROVE \E k, l \in 1 .. n : k < l /\ s[k] = x /\ s[l] = y
    <3>1. PICK f \in IncreasingPlaces(s, 2) : <<x, y>> = [i \in 1 .. 2 |-> s[f[i]]]
      BY <2>1 DEF PermsOf, s
    <3>2. f[1] \in 1 .. n /\ f[2] \in 1 .. n /\ f[1] < f[2]
      BY <1>1 DEF IncreasingPlaces
    <3>3. <<x, y>>[1] = s[f[1]] /\ <<x, y>>[2] = s[f[2]]
      BY <3>1
    <3>4. x = s[f[1]] /\ y = s[f[2]]
      BY <3>3
    <3> QED  BY <3>2, <3>4
  <2>2. ASSUME NEW k \in 1 .. n, NEW l \in 1 .. n, k < l, s[k] = x, s[l] = y
        PROVE  <<x, y>> \in PermsOf(p, 2)
    <3> DEFINE f == [i \in 1 .. 2 |-> IF i = 1 THEN k ELSE l]
    <3>1. f \in IncreasingPlaces(s, 2)
      BY <1>1, <2>2 DEF IncreasingPlaces
    <3>2. [i \in 1 .. 2 |-> s[f[i]]] = <<x, y>>
      BY <2>2
    <3> HIDE DEF f
    <3> QED  BY <3>1, <3>2 DEF PermsOf, s
  <2> QED  BY <2>1, <2>2
<1>3. ~(<<a, b>> \in PermsOf(p, 2) /\ <<b, a>> \in PermsOf(p, 2))
  <2> SUFFICES ASSUME NEW k \in 1 .. n, NEW l \in 1 .. n, k < l, s[k] = a, s[l] = b,
                      NEW i \in 1 .. n, NEW j \in 1 .. n, i < j, s[i] = b, s[j] = a
               PROVE  FALSE
    BY <1>2
  <2>1. i = l /\ j = k
    BY <1>1
  <2> QED  BY <2>1
<1>4. \A x \in Upgrades : x \in ToSet(p.order) <=> \E k \in 1 .. n : s[k] = x
  BY <1>1
<1>5. ASSUME {a, b} \subseteq ToSet(p.order) PROVE <<a, b>> \in PermsOf(p, 2) \/ <<b, a>> \in PermsOf(p, 2)
  <2>1. PICK k \in 1 .. n : s[k] = a
    BY <1>4, <1>5
  <2>2. PICK l \in 1 .. n : s[l] = b
    BY <1>4, <1>5
  <2>3. k < l \/ l < k
    BY <2>1, <2>2
  <2> QED  BY <1>2, <2>1, <2>2, <2>3
<1>6. ASSUME <<a, b>> \in PermsOf(p, 2) \/ <<b, a>> \in PermsOf(p, 2) PROVE {a, b} \subseteq ToSet(p.order)
  <2>1. (\E k \in 1 .. n : s[k] = a) /\ (\E k \in 1 .. n : s[k] = b)
    BY <1>2, <1>6
  <2> QED  BY <1>4, <2>1
<1> QED  BY <1>3, <1>5, <1>6

LEMMA PermutationRowsFinite ==
    ASSUME Tables, NEW q
    PROVE  IsFiniteSet(PermutationRows(q)) /\ \A r \in PermutationRows(q) : r.p.order \in Seq(Nat)
<1> DEFINE all == RowsOf(PermutationMatches(q))
<1>1. IsFiniteSet(all) /\ \A r \in all : r.match \in PossibleMatches /\ r.p \in r.match.players
  BY RowsFinite, ChosenAreMatches DEF PermutationMatches, Tables
<1>2. PermutationRows(q) \subseteq all
  BY DEF PermutationRows
<1>3. \A r \in all : r.p.order \in Seq(Nat)
  BY <1>1, OrdersAssumption
<1> HIDE DEF all
<1> QED  BY <1>1, <1>2, <1>3, FS_Subset

\* Those who bought the items of a permutation, in its order.
Bringing(q, size, s) == {r \in PermutationRows(q) : s \in PermsOf(r.p, size)}

\* What is answered without items in the query.
LEMMA PermutationsBySize ==
    ASSUME NEW q \in PermutationQueries, ~Refused(q.accounts), NEW size
    PROVE  LET stats == item_permutation_stats([q EXCEPT !.items = {}, !.size = {size}])
           IN  /\ DOMAIN stats = UNION {PermsOf(r.p, size) : r \in PermutationRows(q)}
               /\ \A s \in DOMAIN stats : stats[s] = ItemPermutationStats(Bringing(q, size, s))
<1> DEFINE few == [q EXCEPT !.items = {}, !.size = {size}]
           stats == item_permutation_stats(few)
<1>1. /\ few.items = {} /\ few.size = {size} /\ few.accounts = q.accounts /\ few.heroes = q.heroes
      /\ few.info = q.info /\ few.minWorth = q.minWorth /\ few.maxWorth = q.maxWorth
  BY PermutationQueriesAssumption DEF ItemPermutationStatsQuery
<1> HIDE DEF few
<1>2. PermutationRows(few) = PermutationRows(q)
  BY <1>1 DEF PermutationRows, PermutationMatches
<1>3. (CHOOSE n \in {size} : TRUE) = size
  OBVIOUS
<1>4. stats = ByCombSize(few, size)
  <2>1. (IF few.size = {} THEN 2 ELSE CHOOSE n \in few.size : TRUE) = size
    BY <1>1, <1>3
  <2>2. BuildPermutationQuery(few) = ByCombSize(few, size)
    <3>1. few.items = {} /\ Cardinality(few.items) # 1
      BY <1>1, FS_EmptySet
    <3> DEFINE n == IF few.size = {} THEN 2 ELSE CHOOSE n \in few.size : TRUE
    <3>2. BuildPermutationQuery(few) =
            CASE few.items = {} -> ByCombSize(few, n)
              [] Cardinality(few.items) = 1 -> [failed |-> TRUE]
              [] OTHER -> ByItems(few)
      BY DEF BuildPermutationQuery
    <3> HIDE DEF n
    <3>3. BuildPermutationQuery(few) = ByCombSize(few, n)
      BY <3>1, <3>2
    <3> QED  BY <2>1, <3>3 DEF n
  <2> QED  BY <1>1, <2>2 DEF item_permutation_stats
<1>5. ByCombSize(few, size) =
        [s \in UNION {PermsOf(r.p, size) : r \in PermutationRows(q)} |->
            ItemPermutationStats({r \in PermutationRows(q) : s \in PermsOf(r.p, size)})]
  BY <1>2 DEF ByCombSize, PermsOf
<1>6. stats = [s \in UNION {PermsOf(r.p, size) : r \in PermutationRows(q)} |->
                  ItemPermutationStats(Bringing(q, size, s))]
  BY <1>4, <1>5 DEF Bringing
<1> HIDE DEF stats
<1>7. /\ DOMAIN stats = UNION {PermsOf(r.p, size) : r \in PermutationRows(q)}
      /\ \A s \in DOMAIN stats : stats[s] = ItemPermutationStats(Bringing(q, size, s))
  BY <1>6
<1> QED  BY <1>7 DEF stats, few

BuyersOf(q, a, b) == {r \in PermutationRows(q) : {a, b} \subseteq ToSet(r.p.order)}

\* What is answered to a query for two items adds up to the players who bought both.
LEMMA PairAsked ==
    ASSUME Tables, NEW q \in PermutationQueries, ~Refused(q.accounts), NEW a, NEW b, a # b
    PROVE  LET both == item_permutation_stats([q EXCEPT !.items = {a, b}, !.size = {}])
               buyers == BuyersOf(q, a, b)
           IN  /\ SumFunction([s \in DOMAIN both |-> both[s].wins]) = Cardinality(WonIn(buyers))
               /\ SumFunction([s \in DOMAIN both |-> both[s].losses]) = Cardinality(buyers \ WonIn(buyers))
<1> DEFINE two == [q EXCEPT !.items = {a, b}, !.size = {}]
           both == item_permutation_stats(two)
           buyers == BuyersOf(q, a, b)
           key == [r \in buyers |-> DistinctOf({a, b}, r.p.order)]
           K == {key[r] : r \in buyers}
           wins == [s \in K |-> both[s].wins]
           losses == [s \in K |-> both[s].losses]
<1>1. /\ two.items = {a, b} /\ two.size = {} /\ two.accounts = q.accounts /\ two.heroes = q.heroes
      /\ two.info = q.info /\ two.minWorth = q.minWorth /\ two.maxWorth = q.maxWorth
  BY PermutationQueriesAssumption DEF ItemPermutationStatsQuery
<1> HIDE DEF two
<1>2. PermutationRows(two) = PermutationRows(q)
  BY <1>1 DEF PermutationRows, PermutationMatches
<1>3. Cardinality({a, b}) = 2 /\ {a, b} # {}
  <2>1. IsFiniteSet({a}) /\ Cardinality({a}) = 1 /\ b \notin {a} /\ {a, b} = {a} \cup {b}
    BY FS_Singleton
  <2>2. Cardinality({a} \cup {b}) = Cardinality({a}) + 1
    BY <2>1, FS_AddElement
  <2> QED  BY <2>1, <2>2
<1>4. both = ByItems(two)
  <2>1. BuildPermutationQuery(two) = ByItems(two)
    <3>1. two.items # {} /\ Cardinality(two.items) # 1
      BY <1>1, <1>3
    <3> QED  BY <3>1 DEF BuildPermutationQuery
  <2> QED  BY <1>1, <2>1 DEF item_permutation_stats
<1>5. /\ {r \in PermutationRows(two) : two.items \subseteq ToSet(r.p.order)} = buyers
      /\ \A r : DistinctOf(two.items, r.p.order) = DistinctOf({a, b}, r.p.order)
  BY <1>1, <1>2 DEF BuyersOf
<1>6. both = [s \in K |-> ItemPermutationStats(WithKey(buyers, key, s))]
  <2>1. ByItems(two) = [s \in {DistinctOf({a, b}, r.p.order) : r \in buyers} |->
                          ItemPermutationStats({r \in buyers : DistinctOf({a, b}, r.p.order) = s})]
    <3> HIDE DEF buyers
    <3> QED  BY <1>1, <1>5 DEF ByItems
  <2> HIDE DEF buyers
  <2>2. {DistinctOf({a, b}, r.p.order) : r \in buyers} = K
    OBVIOUS
  <2>3. \A s : {r \in buyers : DistinctOf({a, b}, r.p.order) = s} = WithKey(buyers, key, s)
    BY DEF WithKey
  <2> QED  BY <1>4, <2>1, <2>2, <2>3
<1>7. IsFiniteSet(buyers) /\ IsFiniteSet(K) /\ \A r \in buyers : key[r] \in K
  <2>1. IsFiniteSet(buyers)
    BY PermutationRowsFinite, FS_Subset DEF BuyersOf
  <2> HIDE DEF buyers, key
  <2> QED  BY <2>1, ImageFinite
<1>8. \A s \in K : LET part == WithKey(buyers, key, s)
                   IN  wins[s] = Cardinality(WonIn(part)) /\ losses[s] = Cardinality(part \ WonIn(part))
  <2> HIDE DEF both, K, key, buyers
  <2> QED  BY <1>6 DEF ItemPermutationStats
<1>9. /\ SumFunction([s \in DOMAIN both |-> both[s].wins]) = SumFunctionOnSet(wins, K)
      /\ SumFunction([s \in DOMAIN both |-> both[s].losses]) = SumFunctionOnSet(losses, K)
  <2>1. DOMAIN both = K
    <3> HIDE DEF both, K, key, buyers
    <3> QED  BY <1>6
  <2> HIDE DEF both, K
  <2> QED  BY <2>1 DEF SumFunction
<1> HIDE DEF both, buyers, key, K, wins, losses
<1>10. Cardinality(WonIn(buyers)) = SumFunctionOnSet(wins, K)
  <2>1. \A s \in K : wins[s] = Cardinality(WonIn(WithKey(buyers, key, s)))
    BY <1>8
  <2> QED  BY <1>7, <2>1, WinsByKey
<1>11. Cardinality(buyers \ WonIn(buyers)) = SumFunctionOnSet(losses, K)
  <2>1. \A s \in K : losses[s] = Cardinality(WithKey(buyers, key, s) \ WonIn(WithKey(buyers, key, s)))
    BY <1>8
  <2> QED  BY <1>7, <2>1, LossesByKey, Zenon
<1> QED  BY <1>9, <1>10, <1>11 DEF both, buyers, two

\* The two permutations of two items add up to the players who bought both.
LEMMA PairsAddUp ==
    ASSUME Tables, NEW q \in PermutationQueries, ~Refused(q.accounts),
           NEW a \in Upgrades, NEW b \in Upgrades, a # b
    PROVE  LET pairs == item_permutation_stats([q EXCEPT !.items = {}, !.size = {2}])
               asBought == DOMAIN pairs \cap {<<a, b>>, <<b, a>>}
               buyers == BuyersOf(q, a, b)
           IN  /\ SumFunction([s \in asBought |-> pairs[s].wins]) = Cardinality(WonIn(buyers))
               /\ SumFunction([s \in asBought |-> pairs[s].losses]) = Cardinality(buyers \ WonIn(buyers))
<1> DEFINE pairs == item_permutation_stats([q EXCEPT !.items = {}, !.size = {2}])
           K == DOMAIN pairs \cap {<<a, b>>, <<b, a>>}
           buyers == BuyersOf(q, a, b)
           key == [r \in buyers |-> IF <<a, b>> \in PermsOf(r.p, 2) THEN <<a, b>> ELSE <<b, a>>]
           wins == [s \in K |-> pairs[s].wins]
           losses == [s \in K |-> pairs[s].losses]
<1>1. /\ DOMAIN pairs = UNION {PermsOf(r.p, 2) : r \in PermutationRows(q)}
      /\ \A s \in DOMAIN pairs : pairs[s] = ItemPermutationStats(Bringing(q, 2, s))
  BY PermutationsBySize
<1> HIDE DEF pairs
<1>2. \A r \in PermutationRows(q) :
        /\ {a, b} \subseteq ToSet(r.p.order) <=> <<a, b>> \in PermsOf(r.p, 2) \/ <<b, a>> \in PermsOf(r.p, 2)
        /\ ~(<<a, b>> \in PermsOf(r.p, 2) /\ <<b, a>> \in PermsOf(r.p, 2))
  <2> TAKE r \in PermutationRows(q)
  <2>1. r.p.order \in Seq(Nat)
    BY PermutationRowsFinite
  <2> QED  BY <2>1, OnePairEach
<1>3. IsFiniteSet(buyers) /\ IsFiniteSet(K)
  <2>1. IsFiniteSet(buyers)
    BY PermutationRowsFinite, FS_Subset DEF BuyersOf
  <2>2. IsFiniteSet({<<a, b>>}) /\ {<<a, b>>, <<b, a>>} = {<<a, b>>} \cup {<<b, a>>}
    BY FS_Singleton
  <2>3. IsFiniteSet({<<a, b>>, <<b, a>>})
    BY <2>2, FS_AddElement
  <2>4. K \subseteq {<<a, b>>, <<b, a>>}
    OBVIOUS
  <2> HIDE DEF K, buyers
  <2> QED  BY <2>1, <2>3, <2>4, FS_Subset
<1>4. \A r \in buyers : key[r] \in PermsOf(r.p, 2) /\ key[r] \in {<<a, b>>, <<b, a>>}
  BY <1>2 DEF BuyersOf
<1>5. \A r \in buyers : key[r] \in K
  <2>1. buyers \subseteq PermutationRows(q)
    BY DEF BuyersOf
  <2> HIDE DEF buyers, key
  <2> QED  BY <1>1, <1>4, <2>1
<1>6. <<a, b>> # <<b, a>>
  <2>1. <<a, b>>[1] = a /\ <<b, a>>[1] = b
    OBVIOUS
  <2> QED  BY <2>1
<1>7. ASSUME NEW s \in K PROVE WithKey(buyers, key, s) = Bringing(q, 2, s)
  <2>1. ASSUME NEW r \in Bringing(q, 2, s) PROVE r \in buyers /\ key[r] = s
    <3>1. r \in PermutationRows(q) /\ s \in PermsOf(r.p, 2) /\ s \in {<<a, b>>, <<b, a>>}
      BY <2>1 DEF Bringing
    <3>2. r \in buyers
      BY <1>2, <3>1 DEF BuyersOf
    <3>3. key[r] \in PermsOf(r.p, 2) /\ key[r] \in {<<a, b>>, <<b, a>>}
      BY <1>4, <3>2
    <3> HIDE DEF key
    <3> QED  BY <1>2, <3>1, <3>2, <3>3
  <2>2. ASSUME NEW r \in buyers, key[r] = s PROVE r \in Bringing(q, 2, s)
    <3>1. r \in PermutationRows(q) /\ key[r] \in PermsOf(r.p, 2)
      BY <1>4, <2>2 DEF BuyersOf
    <3> HIDE DEF key
    <3> QED  BY <2>2, <3>1 DEF Bringing
  <2>3. \A r \in Bringing(q, 2, s) : r \in buyers /\ key[r] = s
    BY <2>1
  <2> HIDE DEF buyers, key
  <2> QED  BY <2>2, <2>3 DEF WithKey
<1>8. \A s \in K : LET part == WithKey(buyers, key, s)
                   IN  wins[s] = Cardinality(WonIn(part)) /\ losses[s] = Cardinality(part \ WonIn(part))
  <2> TAKE s \in K
  <2>1. pairs[s] = ItemPermutationStats(WithKey(buyers, key, s))
    BY <1>1, <1>7
  <2> HIDE DEF buyers, key
  <2> QED  BY <2>1 DEF ItemPermutationStats
<1>9. /\ SumFunction(wins) = SumFunctionOnSet(wins, K)
      /\ SumFunction(losses) = SumFunctionOnSet(losses, K)
  BY DEF SumFunction
<1> HIDE DEF buyers, key, K, wins, losses
<1>10. Cardinality(WonIn(buyers)) = SumFunctionOnSet(wins, K)
  <2>1. \A s \in K : wins[s] = Cardinality(WonIn(WithKey(buyers, key, s)))
    BY <1>8
  <2> QED  BY <1>3, <1>5, <2>1, WinsByKey
<1>11. Cardinality(buyers \ WonIn(buyers)) = SumFunctionOnSet(losses, K)
  <2>1. \A s \in K : losses[s] = Cardinality(WithKey(buyers, key, s) \ WonIn(WithKey(buyers, key, s)))
    BY <1>8
  <2> QED  BY <1>3, <1>5, <2>1, LossesByKey, Zenon
<1> QED  BY <1>9, <1>10, <1>11 DEF pairs, buyers, K, wins, losses

LEMMA BothWaysAgree == Tables => PairsAgree
<1> SUFFICES ASSUME Tables, NEW q \in PermutationQueries, ~Refused(q.accounts),
                    NEW a \in Upgrades, NEW b \in Upgrades, a # b
             PROVE  LET pairs == item_permutation_stats([q EXCEPT !.items = {}, !.size = {2}])
                        both == item_permutation_stats([q EXCEPT !.items = {a, b}, !.size = {}])
                        asBought == DOMAIN pairs \cap {<<a, b>>, <<b, a>>}
                    IN  /\ SumFunction([s \in DOMAIN both |-> both[s].wins])
                             = SumFunction([s \in asBought |-> pairs[s].wins])
                        /\ SumFunction([s \in DOMAIN both |-> both[s].losses])
                             = SumFunction([s \in asBought |-> pairs[s].losses])
  BY DEF PairsAgree
<1> DEFINE pairs == item_permutation_stats([q EXCEPT !.items = {}, !.size = {2}])
           both == item_permutation_stats([q EXCEPT !.items = {a, b}, !.size = {}])
           asBought == DOMAIN pairs \cap {<<a, b>>, <<b, a>>}
           buyers == BuyersOf(q, a, b)
<1>1. /\ SumFunction([s \in DOMAIN both |-> both[s].wins]) = Cardinality(WonIn(buyers))
      /\ SumFunction([s \in DOMAIN both |-> both[s].losses]) = Cardinality(buyers \ WonIn(buyers))
  BY PairAsked, Zenon
<1>2. /\ SumFunction([s \in asBought |-> pairs[s].wins]) = Cardinality(WonIn(buyers))
      /\ SumFunction([s \in asBought |-> pairs[s].losses]) = Cardinality(buyers \ WonIn(buyers))
  BY PairsAddUp, Zenon
<1> QED  BY <1>1, <1>2, Zenon

\* Each few of the items a player bought make one permutation.
LEMMA OnePermutationEach ==
    ASSUME NEW p, p.order \in Seq(Nat), NEW size \in {2, 3}
    PROVE  LET bought == ToSet(p.order) \cap Upgrades
           IN  /\ IsFiniteSet(PermsOf(p, size))
               /\ Cardinality(PermsOf(p, size)) = Cardinality(kSubset(size, bought))
               /\ \A s \in PermsOf(p, size) : Cardinality(ToSet(s)) = size
<1> DEFINE bought == ToSet(p.order) \cap Upgrades
           items == PlayerItems(p)
           few == kSubset(size, bought)
<1>1. PICK n \in Nat :
        /\ DOMAIN items = 1 .. n
        /\ \A k, l \in 1 .. n : items[k] = items[l] => k = l
        /\ {items[k] : k \in 1 .. n} = bought
  BY EachBoughtOnce DEF PlayerItems
<1> HIDE DEF items, bought
<1>0. /\ IsFiniteSet(1 .. size) /\ Cardinality(1 .. size) = size
      /\ IsFiniteSet(1 .. n) /\ 1 .. n \subseteq Nat
  <2>1. size \in Int /\ ~(1 > size) /\ size - 1 + 1 = size /\ n \in Int
    OBVIOUS
  <2> QED  BY <2>1, FS_Interval
<1>2. ASSUME NEW f \in IncreasingPlaces(items, size)
      PROVE  /\ \A i \in 1 .. size : f[i] \in 1 .. n
             /\ \A i, j \in 1 .. size : i < j => f[i] < f[j]
  <2>1. f \in [1 .. size -> 1 .. n] /\ \A i \in 1 .. size - 1 : f[i] < f[i + 1]
    BY <1>1 DEF IncreasingPlaces
  <2>2. \A i \in 1 .. size : f[i] \in 1 .. n /\ f[i] \in Nat
    BY <2>1
  <2>3. CASE size = 2
    BY <2>1, <2>2, <2>3
  <2>4. CASE size = 3
    <3>1. f[1] < f[2] /\ f[2] < f[3]
      BY <2>1, <2>4
    <3>2. f[1] \in Nat /\ f[2] \in Nat /\ f[3] \in Nat
      BY <2>2, <2>4
    <3>3. f[1] < f[3]
      BY <3>1, <3>2
    <3>4. \A i, j \in 1 .. 3 : i < j => <<i, j>> \in {<<1, 2>>, <<1, 3>>, <<2, 3>>}
      OBVIOUS
    <3> QED  BY <2>2, <2>4, <3>1, <3>3, <3>4
  <2> QED  BY <2>2, <2>3, <2>4
<1>3. ASSUME NEW s \in PermsOf(p, size)
      PROVE  /\ \E f \in IncreasingPlaces(items, size) : s = [i \in 1 .. size |-> items[f[i]]]
             /\ ToSet(s) \in few
  <2>1. PICK f \in IncreasingPlaces(items, size) : s = [i \in 1 .. size |-> items[f[i]]]
    BY DEF PermsOf, items
  <2>2. \A i, j \in 1 .. size : s[i] = s[j] => i = j
    <3>1. \A i, j \in 1 .. size : items[f[i]] = items[f[j]] => f[i] = f[j]
      BY <1>1, <1>2
    <3>2. \A i, j \in 1 .. size : f[i] = f[j] => i = j
      <4>1. \A i \in 1 .. size : f[i] \in Nat
        BY <1>2
      <4> QED  BY <1>2, <4>1
    <3> QED  BY <2>1, <3>1, <3>2
  <2>3. ToSet(s) = {s[i] : i \in 1 .. size}
    BY <2>1 DEF ToSet
  <2>4. Cardinality(ToSet(s)) = size
    <3>1. \A N : IsFiniteSet(N) /\ (\A i, j \in N : s[i] = s[j] => i = j)
                  => Cardinality({s[i] : i \in N}) = Cardinality(N)
      BY CountImage
    <3> QED  BY <1>0, <2>2, <2>3, <3>1
  <2>5. ToSet(s) \subseteq bought
    <3>1. \A i \in 1 .. size : f[i] \in 1 .. n /\ s[i] = items[f[i]]
      BY <1>2, <2>1
    <3>2. \A k \in 1 .. n : items[k] \in bought
      BY <1>1
    <3> QED  BY <2>3, <3>1, <3>2
  <2> QED  BY <2>1, <2>4, <2>5 DEF kSubset
<1>4. ASSUME NEW s \in PermsOf(p, size), NEW t \in PermsOf(p, size), ToSet(s) = ToSet(t) PROVE s = t
  <2>1. PICK f \in IncreasingPlaces(items, size) : s = [i \in 1 .. size |-> items[f[i]]]
    BY <1>3
  <2>2. PICK g \in IncreasingPlaces(items, size) : t = [i \in 1 .. size |-> items[g[i]]]
    BY <1>3
  <2>3. /\ \A i \in 1 .. size : \E j \in 1 .. size : f[i] = g[j]
        /\ \A i \in 1 .. size : \E j \in 1 .. size : g[i] = f[j]
    <3>1. ToSet(s) = {items[f[i]] : i \in 1 .. size} /\ ToSet(t) = {items[g[i]] : i \in 1 .. size}
      BY <2>1, <2>2 DEF ToSet
    <3>2. \A i \in 1 .. size : \E j \in 1 .. size : items[f[i]] = items[g[j]]
      BY <1>4, <3>1
    <3>3. \A i \in 1 .. size : \E j \in 1 .. size : items[g[i]] = items[f[j]]
      BY <1>4, <3>1
    <3>4. \A i \in 1 .. size : f[i] \in 1 .. n /\ g[i] \in 1 .. n
      BY <1>2
    <3>5. \A k, l \in 1 .. n : items[k] = items[l] => k = l
      BY <1>1
    <3>6. ASSUME NEW i \in 1 .. size PROVE \E j \in 1 .. size : f[i] = g[j]
      <4>1. PICK j \in 1 .. size : items[f[i]] = items[g[j]]
        BY <3>2
      <4>2. f[i] \in 1 .. n /\ g[j] \in 1 .. n
        BY <3>4
      <4> QED  BY <3>5, <4>1, <4>2
    <3>7. ASSUME NEW i \in 1 .. size PROVE \E j \in 1 .. size : g[i] = f[j]
      <4>1. PICK j \in 1 .. size : items[g[i]] = items[f[j]]
        BY <3>3
      <4>2. g[i] \in 1 .. n /\ f[j] \in 1 .. n
        BY <3>4
      <4> QED  BY <3>5, <4>1, <4>2
    <3> QED  BY <3>6, <3>7
  <2>4. \A i \in 1 .. size : f[i] \in Nat /\ g[i] \in Nat
    BY <1>2
  <2>5. \A i, j \in 1 .. size : i < j => f[i] < f[j] /\ g[i] < g[j]
    BY <1>2
  <2>6. \A i \in 1 .. size : f[i] = g[i]
    <3>1. CASE size = 2
      <4>1. 1 .. size = {1, 2} /\ 1 < 2
        BY <3>1
      <4>2. f[1] \in Nat /\ f[2] \in Nat /\ g[1] \in Nat /\ g[2] \in Nat
        BY <2>4, <4>1
      <4>3. f[1] < f[2] /\ g[1] < g[2]
        BY <2>5, <4>1
      <4>4. f[1] \in {g[1], g[2]} /\ f[2] \in {g[1], g[2]}
        BY <2>3, <4>1
      <4>5. f[1] = g[1] /\ f[2] = g[2]
        BY <4>2, <4>3, <4>4
      <4> QED  BY <4>1, <4>5
    <3>2. CASE size = 3
      <4>1. 1 .. size = {1, 2, 3} /\ 1 < 2 /\ 2 < 3
        BY <3>2
      <4>2. /\ f[1] \in Nat /\ f[2] \in Nat /\ f[3] \in Nat
            /\ g[1] \in Nat /\ g[2] \in Nat /\ g[3] \in Nat
        BY <2>4, <4>1
      <4>3. f[1] < f[2] /\ f[2] < f[3] /\ g[1] < g[2] /\ g[2] < g[3]
        BY <2>5, <4>1
      <4>4. {f[1], f[2], f[3]} \subseteq {g[1], g[2], g[3]}
        BY <2>3, <4>1
      <4>5. /\ f[1] = g[1] \/ f[1] = g[2] \/ f[1] = g[3]
            /\ f[2] = g[1] \/ f[2] = g[2] \/ f[2] = g[3]
            /\ f[3] = g[1] \/ f[3] = g[2] \/ f[3] = g[3]
        BY <4>4, Zenon
      <4>6. f[1] = g[1] /\ f[2] = g[2] /\ f[3] = g[3]
        BY <4>2, <4>3, <4>5
      <4> QED  BY <4>1, <4>6
    <3> QED  BY <3>1, <3>2
  <2> QED  BY <2>1, <2>2, <2>6
<1>5. ASSUME NEW T \in few PROVE \E s \in PermsOf(p, size) : ToSet(s) = T
  <2> DEFINE I == {k \in 1 .. n : items[k] \in T}
             f == [i \in 1 .. size |-> Place(I, i)]
             s == [i \in 1 .. size |-> items[f[i]]]
  <2>1. T \subseteq bought /\ Cardinality(T) = size
    BY DEF kSubset
  <2>2. IsFiniteSet(I) /\ I \in SUBSET Nat /\ I \subseteq 1 .. n
    <3>1. I \subseteq 1 .. n
      OBVIOUS
    <3> HIDE DEF I
    <3> QED  BY <1>0, <3>1, FS_Subset
  <2>3. {items[k] : k \in I} = T
    BY <1>1, <2>1
  <2>4. Cardinality(I) = size
    <3>1. \A k, l \in I : items[k] = items[l] => k = l
      BY <1>1
    <3> HIDE DEF I
    <3> QED  BY <2>1, <2>2, <2>3, <3>1, CountImage
  <2>5. /\ \A k \in 1 .. size : Place(I, k) \in I
        /\ \A i \in I : \E k \in 1 .. size : Place(I, k) = i
        /\ \A k, l \in 1 .. size : k < l => Place(I, k) < Place(I, l)
    <3> HIDE DEF I
    <3> QED  BY <2>2, <2>4, PlacesNumbered
  <2> HIDE DEF I
  <2>6. f \in IncreasingPlaces(items, size)
    <3>1. f \in [1 .. size -> 1 .. n]
      BY <2>2, <2>5
    <3>2. \A i \in 1 .. size - 1 : i \in 1 .. size /\ i + 1 \in 1 .. size /\ i < i + 1
      OBVIOUS
    <3>3. \A i \in 1 .. size - 1 : f[i] < f[i + 1]
      BY <2>5, <3>2
    <3> HIDE DEF f
    <3> QED  BY <1>1, <3>1, <3>3 DEF IncreasingPlaces
  <2>7. s \in PermsOf(p, size)
    <3> HIDE DEF f
    <3> QED  BY <2>6 DEF PermsOf, items
  <2>8. ToSet(s) = T
    <3>1. ToSet(s) = {items[Place(I, i)] : i \in 1 .. size}
      BY DEF ToSet
    <3>2. {items[Place(I, i)] : i \in 1 .. size} = {items[k] : k \in I}
      BY <2>5
    <3> QED  BY <2>3, <3>1, <3>2
  <2> HIDE DEF s
  <2> QED  BY <2>7, <2>8
<1>6. IsFiniteSet(few)
  <2>1. IsFiniteSet(bought)
    <3> DEFINE h == [k \in 1 .. n |-> items[k]]
    <3>1. {h[k] : k \in 1 .. n} = bought
      BY <1>1
    <3> HIDE DEF h
    <3> QED  BY <1>0, <3>1, ImageFinite
  <2>2. few \subseteq SUBSET bought
    BY DEF kSubset
  <2> HIDE DEF few
  <2> QED  BY <2>1, <2>2, FS_SUBSET, FS_Subset
<1>7. IsFiniteSet(PermsOf(p, size)) /\ Cardinality(PermsOf(p, size)) = Cardinality(few)
  <2> DEFINE h == [T \in few |-> CHOOSE s \in PermsOf(p, size) : ToSet(s) = T]
  <2>1. \A T \in few : h[T] \in PermsOf(p, size) /\ ToSet(h[T]) = T
    BY <1>5
  <2> HIDE DEF h
  <2>2. \A T, V \in few : h[T] = h[V] => T = V
    BY <2>1
  <2>3. {h[T] : T \in few} = PermsOf(p, size)
    <3>1. \A s \in PermsOf(p, size) : ToSet(s) \in few /\ h[ToSet(s)] = s
      BY <1>3, <1>4, <2>1
    <3> HIDE DEF few
    <3> QED  BY <2>1, <3>1
  <2> HIDE DEF few
  <2> QED  BY <1>6, <2>2, <2>3, CountImage
<1>8. \A s \in PermsOf(p, size) : Cardinality(ToSet(s)) = size
  BY <1>3 DEF kSubset
<1> QED  BY <1>7, <1>8 DEF bought

LEMMA FewItemsOnce == Tables => EveryFewItemsOnce
<1> SUFFICES ASSUME Tables, NEW q \in PermutationQueries, ~Refused(q.accounts), NEW size \in {2, 3}
             PROVE  LET stats == item_permutation_stats([q EXCEPT !.items = {}, !.size = {size}])
                        bought(r) == ToSet(r.p.order) \cap Upgrades
                    IN  /\ \A s \in DOMAIN stats : Cardinality(ToSet(s)) = size
                        /\ MatchesIn(stats) =
                             SumFunction([r \in PermutationRows(q) |-> Cardinality(kSubset(size, bought(r)))])
  BY DEF EveryFewItemsOnce
<1> DEFINE stats == item_permutation_stats([q EXCEPT !.items = {}, !.size = {size}])
           rows == PermutationRows(q)
           perms == [r \in rows |-> PermsOf(r.p, size)]
           U == UNION {perms[r] : r \in rows}
           times == [s \in DOMAIN stats |-> stats[s].wins + stats[s].losses]
           brought == [r \in rows |-> Cardinality(kSubset(size, ToSet(r.p.order) \cap Upgrades))]
<1>1. DOMAIN stats = U /\ \A s \in U : stats[s] = ItemPermutationStats(Bringing(q, size, s))
  <2>1. /\ DOMAIN stats = UNION {PermsOf(r.p, size) : r \in PermutationRows(q)}
        /\ \A s \in DOMAIN stats : stats[s] = ItemPermutationStats(Bringing(q, size, s))
    BY PermutationsBySize, Zenon
  <2>2. UNION {PermsOf(r.p, size) : r \in PermutationRows(q)} = U
    OBVIOUS
  <2> HIDE DEF stats, U
  <2> QED  BY <2>1, <2>2
<1> HIDE DEF stats
<1>2. IsFiniteSet(rows) /\ \A r \in rows : r.p.order \in Seq(Nat)
  BY PermutationRowsFinite
<1>3. \A r \in rows :
        /\ IsFiniteSet(perms[r]) /\ brought[r] = Cardinality(perms[r])
        /\ \A s \in perms[r] : Cardinality(ToSet(s)) = size
  <2> TAKE r \in rows
  <2>1. /\ IsFiniteSet(PermsOf(r.p, size))
        /\ Cardinality(PermsOf(r.p, size)) = Cardinality(kSubset(size, ToSet(r.p.order) \cap Upgrades))
        /\ \A s \in PermsOf(r.p, size) : Cardinality(ToSet(s)) = size
    BY <1>2, OnePermutationEach
  <2> QED  BY <2>1
<1>4. \A s \in U : times[s] = Cardinality({r \in rows : s \in perms[r]})
  <2> TAKE s \in U
  <2> DEFINE group == Bringing(q, size, s)
  <2>1. stats[s].wins = Cardinality(WonIn(group)) /\ stats[s].losses = Cardinality(group \ WonIn(group))
    <3>1. stats[s] = ItemPermutationStats(group)
      BY <1>1
    <3> HIDE DEF group, U
    <3> QED  BY <3>1 DEF ItemPermutationStats
  <2>2. IsFiniteSet(group) /\ WonIn(group) \subseteq group
    BY <1>2, FS_Subset DEF Bringing, WonIn
  <2>3. group = {r \in rows : s \in perms[r]}
    BY DEF Bringing
  <2>4. Cardinality(WonIn(group)) + Cardinality(group \ WonIn(group)) = Cardinality(group)
    <3> HIDE DEF group
    <3>1. /\ IsFiniteSet(WonIn(group)) /\ WonIn(group) = group \cap WonIn(group)
          /\ Cardinality(group) \in Nat /\ Cardinality(WonIn(group)) \in Nat
      BY <2>2, FS_Subset, FS_CardinalityType
    <3>2. Cardinality(group \ WonIn(group)) = Cardinality(group) - Cardinality(group \cap WonIn(group))
      BY <2>2, FS_Difference
    <3> QED  BY <3>1, <3>2
  <2>5. times[s] = stats[s].wins + stats[s].losses
    BY <1>1
  <2> HIDE DEF times, group
  <2> QED  BY <2>1, <2>3, <2>4, <2>5
<1>5. SumFunctionOnSet(times, U) = SumFunctionOnSet(brought, rows)
  <2>1. IsFiniteSet(rows)
    BY <1>2
  <2>2. \A r \in rows : IsFiniteSet(perms[r])
    BY <1>3
  <2>3. \A r \in rows : brought[r] = Cardinality(perms[r])
    BY <1>3
  <2>4. \A s \in UNION {perms[r] : r \in rows} : times[s] = Cardinality({r \in rows : s \in perms[r]})
    BY <1>4
  <2> HIDE DEF rows, perms, times, brought
  <2> QED  BY <2>1, <2>2, <2>3, <2>4, CountTwice, ZenonT(40)
<1>6. MatchesIn(stats) = SumFunctionOnSet(times, U)
  <2>1. MatchesIn(stats) = SumFunctionOnSet(times, DOMAIN stats)
    BY DEF MatchesIn, SumFunction
  <2> QED  BY <1>1, <2>1
<1>7. SumFunction(brought) = SumFunctionOnSet(brought, rows)
  BY DEF SumFunction
<1>8. \A s \in DOMAIN stats : Cardinality(ToSet(s)) = size
  <2> HIDE DEF perms
  <2> QED  BY <1>1, <1>3
<1> HIDE DEF U, times
<1>9. MatchesIn(stats) = SumFunction(brought)
  <2> HIDE DEF brought
  <2> QED  BY <1>5, <1>6, <1>7
<1> QED  BY <1>8, <1>9 DEF stats

\* The limits on upgrades look at nothing but the order itself.
LEMMA LimitsSplit == Tables => UpgradeLimitsSplit
<1> SUFFICES ASSUME Tables, NEW q \in OrderQueries, ~Refused(q.accounts), q.hero \in HeroIds, NEW n \in 0 .. 3
             PROVE  LET open == [q EXCEPT !.minMatches = {}]
                        all == ability_order_stats([open EXCEPT !.minUpgrades = {}, !.maxUpgrades = {}])
                        few == ability_order_stats([open EXCEPT !.minUpgrades = {}, !.maxUpgrades = {n}])
                        many == ability_order_stats([open EXCEPT !.minUpgrades = {n + 1}, !.maxUpgrades = {}])
                    IN  /\ DOMAIN few \cap DOMAIN many = {}
                        /\ DOMAIN all = DOMAIN few \cup DOMAIN many
                        /\ \A s \in DOMAIN all : all[s] = (IF s \in DOMAIN few THEN few[s] ELSE many[s])
  BY DEF UpgradeLimitsSplit
<1> DEFINE open == [q EXCEPT !.minMatches = {}]
           Limited(min, max) == [open EXCEPT !.minUpgrades = min, !.maxUpgrades = max]
           rows == OrderRows(Limited({}, {}))
           group(s) == {r \in rows : AbilityOrder(r.p) = s}
           orders == {AbilityOrder(r.p) : r \in rows}
<1>1. \A min, max :
        LET l == Limited(min, max)
        IN  /\ l.hero = q.hero /\ l.info = q.info /\ l.accounts = q.accounts
            /\ l.minWorth = q.minWorth /\ l.maxWorth = q.maxWorth /\ l.minMatches = {}
            /\ l.minUpgrades = min /\ l.maxUpgrades = max
  BY OrderQueriesAssumption DEF AbilityOrderStatsQuery
<1> HIDE DEF Limited
<1>2. \A min, max : OrderRows(Limited(min, max)) = {r \in rows : Within(min, max, Len(AbilityOrder(r.p)))}
  BY <1>1 DEF OrderRows, OrderMatches, AbilityUpgrades, Within, AtLeast, AtMost
<1>3. ASSUME NEW min, NEW max
      PROVE  ability_order_stats(Limited(min, max)) =
               [s \in {s \in orders : Within(min, max, Len(s))} |-> AbilityOrderStats(group(s))]
  <2> DEFINE l == Limited(min, max)
             here(s) == {r \in OrderRows(l) : AbilityOrder(r.p) = s}
             D == {s \in {AbilityOrder(r.p) : r \in OrderRows(l)} : AtLeast(l.minMatches, Cardinality(here(s)))}
  <2>1. BuildOrderQuery(l) = [s \in D |-> AbilityOrderStats(here(s))]
    BY DEF BuildOrderQuery
  <2>2. ability_order_stats(l) = BuildOrderQuery(l)
    BY <1>1 DEF ability_order_stats
  <2>3. OrderRows(l) = {r \in rows : Within(min, max, Len(AbilityOrder(r.p)))} /\ l.minMatches = {}
    BY <1>1, <1>2
  <2> HIDE DEF l, rows
  <2>4. D = {s \in orders : Within(min, max, Len(s))}
    BY <2>3 DEF AtLeast
  <2>5. \A s \in D : here(s) = group(s)
    BY <2>3, <2>4
  <2> HIDE DEF D, here, group, orders
  <2> QED  BY <2>1, <2>2, <2>4, <2>5 DEF l
<1>4. \A s \in orders : Len(s) \in Nat
  <2> SUFFICES ASSUME NEW r \in rows PROVE Len(AbilityOrder(r.p)) \in Nat
    OBVIOUS
  <2>1. r.match \in PossibleMatches /\ r.p \in r.match.players
    BY RowsFinite, ChosenAreMatches DEF OrderRows, OrderMatches, Tables
  <2>2. r.p.order \in Seq(Nat)
    BY <2>1, OrdersAssumption
  <2> DEFINE P == {i \in DOMAIN r.p.order : r.p.order[i] \in Abilities}
  <2>3. P \subseteq 1 .. Len(r.p.order) /\ IsFiniteSet(1 .. Len(r.p.order))
    <3>1. Len(r.p.order) \in Nat /\ DOMAIN r.p.order = 1 .. Len(r.p.order)
      BY <2>2
    <3>2. IsFiniteSet(1 .. Len(r.p.order))
      BY <3>1, FirstFinite
    <3> QED  BY <3>1, <3>2
  <2> HIDE DEF P
  <2>4. Cardinality(P) \in Nat
    BY <2>3, FS_Subset, FS_CardinalityType
  <2>5. AbilityOrder(r.p) = [k \in 1 .. Cardinality(P) |-> r.p.order[Place(P, k)]]
    BY DEF AbilityOrder, AtPlaces, P
  <2>6. DOMAIN AbilityOrder(r.p) = 1 .. Cardinality(P) /\ AbilityOrder(r.p) \in Seq({r.p.order[Place(P, k)] : k \in 1 .. Cardinality(P)})
    BY <2>4, <2>5
  <2> QED  BY <2>6
<1>5. /\ n \in Int
      /\ \A s \in orders : /\ Within({}, {}, Len(s))
                           /\ Within({}, {n}, Len(s)) <=> Len(s) <= n
                           /\ Within({n + 1}, {}, Len(s)) <=> ~(Len(s) <= n)
  BY <1>4 DEF Within, AtLeast, AtMost
<1> DEFINE all == ability_order_stats(Limited({}, {}))
           few == ability_order_stats(Limited({}, {n}))
           many == ability_order_stats(Limited({n + 1}, {}))
<1>6. /\ all = [s \in {s \in orders : Within({}, {}, Len(s))} |-> AbilityOrderStats(group(s))]
      /\ few = [s \in {s \in orders : Within({}, {n}, Len(s))} |-> AbilityOrderStats(group(s))]
      /\ many = [s \in {s \in orders : Within({n + 1}, {}, Len(s))} |-> AbilityOrderStats(group(s))]
  BY <1>3
<1> HIDE DEF all, few, many, orders, group
<1>7. /\ DOMAIN few \cap DOMAIN many = {}
      /\ DOMAIN all = DOMAIN few \cup DOMAIN many
      /\ \A s \in DOMAIN all : all[s] = (IF s \in DOMAIN few THEN few[s] ELSE many[s])
  BY <1>5, <1>6
<1> QED  BY <1>7 DEF all, few, many, Limited


----------------------------------------------------------------------------
\* Purchases of single items

\* With nothing more asked for, the rows with some items and without others are
\* picked from all rows.
LEMMA ItemFiltersInclude == Tables => ItemFiltersAddUp
<1> SUFFICES ASSUME Tables, NEW q \in ItemQueries, NEW a, NEW b
             PROVE  LET n(in, out) == Cardinality(ExplodedPlayers([q EXCEPT !.include = in, !.exclude = out]))
                    IN  n({}, {a, b}) + n({a}, {}) + n({b}, {}) = n({}, {}) + n({a, b}, {})
  BY DEF ItemFiltersAddUp
<1> DEFINE Q(in, out) == [q EXCEPT !.include = in, !.exclude = out]
           C(in, out) == ExplodedPlayers(Q(in, out))
           U == C({}, {})
           had(r) == {it.item : it \in r.p.purchases}
           Buying(i) == {r \in U : i \in had(r)}
<1>1. ASSUME NEW in, NEW out
      PROVE  C(in, out) = {r \in U : in \subseteq had(r) /\ out \cap had(r) = {}}
  <2> DEFINE s == Q(in, out)
             all == Q({}, {})
  <2>1. /\ s.info = q.info /\ s.accounts = q.accounts /\ s.heroes = q.heroes
        /\ s.minWorth = q.minWorth /\ s.maxWorth = q.maxWorth
        /\ s.minBought = q.minBought /\ s.maxBought = q.maxBought
        /\ s.include = in /\ s.exclude = out
    BY ItemQueriesAssumption DEF ItemStatsQuery
  <2>2. /\ all.info = q.info /\ all.accounts = q.accounts /\ all.heroes = q.heroes
        /\ all.minWorth = q.minWorth /\ all.maxWorth = q.maxWorth
        /\ all.minBought = q.minBought /\ all.maxBought = q.maxBought
        /\ all.include = {} /\ all.exclude = {}
    BY ItemQueriesAssumption DEF ItemStatsQuery
  <2> HIDE DEF s, all
  <2> DEFINE bought == UNION {{[match |-> r.match, p |-> r.p, it |-> it] : it \in r.p.purchases} :
                                r \in RowsOf(Chosen(q.info))}
             fits(r, l) == r.it.item \in Upgrades /\ r.it.at > 0 /\ ItemPlayerFilters(l, r.p, r.it)
  <2>3. ExplodedPlayers(s) = {r \in bought : fits(r, s)} /\ ExplodedPlayers(all) = {r \in bought : fits(r, all)}
    BY <2>1, <2>2 DEF ExplodedPlayers, ItemMatches
  <2>4. \A r : fits(r, s) <=> fits(r, all) /\ in \subseteq had(r) /\ out \cap had(r) = {}
    BY <2>1, <2>2 DEF ItemPlayerFilters, NoItemExcluded
  <2> HIDE DEF fits, bought, had
  <2>5. ExplodedPlayers(s) = {r \in ExplodedPlayers(all) : in \subseteq had(r) /\ out \cap had(r) = {}}
    BY <2>3, <2>4
  <2> QED  BY <2>5 DEF s, all
<1>2. IsFiniteSet(U)
  BY PurchasesFinite
<1> HIDE DEF C, had
<1>3. /\ C({}, {a, b}) = U \ (Buying(a) \cup Buying(b))
      /\ C({a}, {}) = Buying(a) /\ C({b}, {}) = Buying(b)
      /\ C({a, b}, {}) = Buying(a) \cap Buying(b)
  <2> HIDE DEF U
  <2>1. C({}, {a, b}) = U \ (Buying(a) \cup Buying(b))
    <3>1. \A r : ({} \subseteq had(r) /\ {a, b} \cap had(r) = {})
                   <=> (a \notin had(r) /\ b \notin had(r))
      OBVIOUS
    <3>2. C({}, {a, b}) = {r \in U : {} \subseteq had(r) /\ {a, b} \cap had(r) = {}}
      BY <1>1
    <3> QED  BY <3>1, <3>2
  <2>2. ASSUME NEW i PROVE C({i}, {}) = Buying(i)
    <3>1. C({i}, {}) = {r \in U : {i} \subseteq had(r) /\ {} \cap had(r) = {}}
      BY <1>1
    <3> QED  BY <3>1
  <2>3. C({a, b}, {}) = Buying(a) \cap Buying(b)
    <3>1. C({a, b}, {}) = {r \in U : {a, b} \subseteq had(r) /\ {} \cap had(r) = {}}
      BY <1>1
    <3> QED  BY <3>1
  <2> QED  BY <2>1, <2>2, <2>3
<1>4. Buying(a) \in SUBSET U /\ Buying(b) \in SUBSET U
  OBVIOUS
<1> HIDE DEF U, Buying
<1>5. Cardinality(C({}, {a, b})) + Cardinality(C({a}, {})) + Cardinality(C({b}, {}))
        = Cardinality(U) + Cardinality(C({a, b}, {}))
  <2>1. Cardinality(U \ (Buying(a) \cup Buying(b))) + Cardinality(Buying(a)) + Cardinality(Buying(b))
          = Cardinality(U) + Cardinality(Buying(a) \cap Buying(b))
    BY <1>2, <1>4, NeitherOfTwo
  <2> QED  BY <1>3, <2>1
<1> QED  BY <1>5 DEF U, C

\* Every purchase is of a match stored, after its start and not after its end.
LEMMA BoughtInMatch ==
    ASSUME Tables, NEW q, NEW r \in ExplodedPlayers(q)
    PROVE  r.match.duration \in Nat /\ r.it.at \in 1 .. r.match.duration
<1>o. PICK o \in RowsOf(ItemMatches(q)) : r \in {[match |-> o.match, p |-> o.p, it |-> it] : it \in o.p.purchases}
  BY DEF ExplodedPlayers
<1>1. PICK it \in o.p.purchases : r = [match |-> o.match, p |-> o.p, it |-> it]
  BY <1>o
<1>2. /\ o.match \in PossibleMatches /\ o.p \in o.match.players
      /\ o.match.duration \in Nat
  BY RowsFinite, ChosenAreMatches DEF ItemMatches, Tables
<1>3. it.at \in 0 .. o.match.duration
  BY <1>1, <1>2, PurchasesAssumption
<1>4. r.it.at > 0
  BY DEF ExplodedPlayers
<1> QED  BY <1>1, <1>2, <1>3, <1>4

LEMMA PercentOfTime ==
    ASSUME NEW d \in Nat, NEW at \in 1 .. d
    PROVE  ((at - 1) * 100) \div d \in 0 .. 99
<1> DEFINE a == (at - 1) * 100
           n == a \div d
<1>1. d \in Nat \ {0} /\ a \in Nat /\ a < 100 * d
  OBVIOUS
<1> HIDE DEF a
<1>2. n \in Int /\ n * d <= a /\ a < (n + 1) * d
  BY <1>1
<1> HIDE DEF n
<1>3. n >= 0
  <2> SUFFICES ASSUME n + 1 <= 0 PROVE FALSE
    BY <1>2
  <2>1. (n + 1) * d <= 0
    BY <1>1, <1>2
  <2> QED  BY <1>1, <1>2, <2>1
<1>4. n <= 99
  <2> SUFFICES ASSUME n >= 100 PROVE FALSE
    BY <1>2
  <2>1. n * d >= 100 * d
    BY <1>1, <1>2
  <2> QED  BY <1>1, <1>2, <2>1
<1> QED  BY <1>2, <1>3, <1>4 DEF n, a

\* What a kind of buckets shows: a bucket for each key, but for those outside the
\* bounds.
LEMMA ItemBuckets ==
    ASSUME NEW q \in ItemQueries, ~Refused(q.accounts), NEW bucket
    PROVE  LET rows == ExplodedPlayers(q)
               key == [r \in rows |-> <<r.it.item, SelectBucket(bucket, r)>>]
               shown == {k \in {key[r] : r \in rows} :
                           Within(q.minMatches, q.maxMatches, Cardinality(WithKey(rows, key, k)))}
           IN  /\ DOMAIN In(q, bucket) = shown
               /\ \A k \in shown : In(q, bucket)[k] = ItemStats(WithKey(rows, key, k))
<1> DEFINE l == [q EXCEPT !.bucket = bucket]
           rows == ExplodedPlayers(q)
           key == [r \in rows |-> <<r.it.item, SelectBucket(bucket, r)>>]
           shown == {k \in {key[r] : r \in rows} :
                       Within(q.minMatches, q.maxMatches, Cardinality(WithKey(rows, key, k)))}
<1>1. /\ l.info = q.info /\ l.accounts = q.accounts /\ l.heroes = q.heroes
      /\ l.minWorth = q.minWorth /\ l.maxWorth = q.maxWorth
      /\ l.minBought = q.minBought /\ l.maxBought = q.maxBought
      /\ l.include = q.include /\ l.exclude = q.exclude
      /\ l.minMatches = q.minMatches /\ l.maxMatches = q.maxMatches /\ l.bucket = bucket
  BY ItemQueriesAssumption DEF ItemStatsQuery
<1>2. In(q, bucket) = BuildItemQuery(l)
  BY <1>1 DEF In, item_stats
<1> HIDE DEF l
<1>3. ExplodedPlayers(l) = rows
  BY <1>1 DEF ExplodedPlayers, ItemMatches, ItemPlayerFilters, NoItemExcluded
<1> HIDE DEF rows
<1> DEFINE K(r) == <<r.it.item, SelectBucket(bucket, r)>>
           group(k) == {r \in rows : K(r) = k}
<1>4. BuildItemQuery(l) = [k \in {k \in {K(r) : r \in rows} : Within(q.minMatches, q.maxMatches, Cardinality(group(k)))}
                             |-> ItemStats(group(k))]
  BY <1>1, <1>3 DEF BuildItemQuery
<1>5. \A k : group(k) = WithKey(rows, key, k)
  BY DEF WithKey
<1>6. {K(r) : r \in rows} = {key[r] : r \in rows}
  OBVIOUS
<1> HIDE DEF K, group, key
<1>7. {k \in {K(r) : r \in rows} : Within(q.minMatches, q.maxMatches, Cardinality(group(k)))} = shown
  BY <1>5, <1>6
<1>8. DOMAIN In(q, bucket) = shown /\ \A k \in shown : In(q, bucket)[k] = ItemStats(WithKey(rows, key, k))
  <2> HIDE DEF shown
  <2> QED  BY <1>2, <1>4, <1>5, <1>7
<1> QED  BY <1>8 DEF rows, key

\* No bucket is outside the hundred percent of the match.
LEMMA PercentsFit == Tables => PercentWithinMatch
<1> SUFFICES ASSUME Tables, NEW q \in ItemQueries, ~Refused(q.accounts),
                    NEW k \in DOMAIN In(q, "game_time_normalized_percentage")
             PROVE  k[2] \in 0 .. 99
  BY DEF PercentWithinMatch
<1> DEFINE rows == ExplodedPlayers(q)
           key == [r \in rows |-> <<r.it.item, SelectBucket("game_time_normalized_percentage", r)>>]
<1>1. k \in {key[r] : r \in rows}
  <2> DEFINE shown == {l \in {key[r] : r \in rows} :
                         Within(q.minMatches, q.maxMatches, Cardinality(WithKey(rows, key, l)))}
  <2>1. DOMAIN In(q, "game_time_normalized_percentage") = shown
    BY ItemBuckets, Zenon
  <2> QED  BY <2>1
<1>2. PICK r \in rows : k = <<r.it.item, SelectBucket("game_time_normalized_percentage", r)>>
  BY <1>1
<1>3. k[2] = NormalizedPercentage(r)
  BY <1>2 DEF SelectBucket
<1>4. r.match.duration \in Nat /\ r.it.at \in 1 .. r.match.duration
  BY BoughtInMatch
<1> QED  BY <1>3, <1>4, PercentOfTime DEF NormalizedPercentage

\* A minute is in one phase from its start to its end.
LEMMA PhaseOfMinute ==
    ASSUME NEW at \in Nat
    PROVE  /\ GamePhase(at) = GamePhase((at \div Minute) * Minute)
           /\ at \div Minute \in Nat
           /\ (at \div Minute) * Minute <= at /\ at <= (at \div Minute + 1) * Minute - 1
<1> DEFINE d == at \div Minute
<1>1. Minute \in Nat \ {0}
  BY LengthsAssumption
<1>2. d \in Int /\ d * Minute <= at /\ at < (d + 1) * Minute
  BY <1>1
<1> HIDE DEF d
<1>3. d \in Nat
  <2> SUFFICES ASSUME d + 1 <= 0 PROVE FALSE
    BY <1>2
  <2>1. (d + 1) * Minute <= 0
    BY <1>1, <1>2
  <2> QED  BY <1>1, <1>2, <2>1
<1>4. d * Minute \in Int /\ (d + 1) * Minute \in Int
  BY <1>1, <1>2
<1>5. ASSUME NEW end \in Nat PROVE at >= end * Minute <=> d * Minute >= end * Minute
  <2>1. end * Minute \in Int
    BY <1>1
  <2>2. CASE end <= d
    <3>1. end * Minute <= d * Minute
      BY <1>1, <1>3, <2>2
    <3> QED  BY <1>2, <1>4, <2>1, <3>1
  <2>3. CASE d + 1 <= end
    <3>1. (d + 1) * Minute <= end * Minute
      BY <1>1, <1>3, <2>3
    <3>2. d * Minute < (d + 1) * Minute
      BY <1>1, <1>2
    <3> QED  BY <1>2, <1>4, <2>1, <3>1, <3>2
  <2> QED  BY <1>3, <2>2, <2>3
<1>6. GamePhase(at) = GamePhase(d * Minute)
  <2>1. \A end \in {5, 10, 20, 30} : at >= end * Minute <=> d * Minute >= end * Minute
    BY <1>5
  <2>2. {end \in {5, 10, 20, 30} : at >= end * Minute} = {end \in {5, 10, 20, 30} : d * Minute >= end * Minute}
    BY <2>1, Zenon
  <2> QED  BY <2>2 DEF GamePhase
<1>7. at <= (d + 1) * Minute - 1
  BY <1>2, <1>4
<1> QED  BY <1>2, <1>3, <1>6, <1>7 DEF d

\* Times within bounds add up to a sum within bounds.
LEMMA BuyTimesWithin ==
    ASSUME NEW rows, IsFiniteSet(rows), NEW low \in Int, NEW high \in Int,
           \A r \in rows : r.it.at \in Int /\ low <= r.it.at /\ r.it.at <= high
    PROVE  /\ BuyTimes(rows) \in Int
           /\ low * Cardinality(rows) <= BuyTimes(rows)
           /\ BuyTimes(rows) <= high * Cardinality(rows)
<1> DEFINE at == [r \in rows |-> r.it.at]
           lows == [r \in rows |-> low]
           highs == [r \in rows |-> high]
<1>1. /\ \A r \in rows : at[r] \in Int /\ lows[r] \in Int /\ highs[r] \in Int /\ lows[r] <= at[r] /\ at[r] <= highs[r]
      /\ \A r \in rows : lows[r] = low /\ highs[r] = high
  OBVIOUS
<1>2. BuyTimes(rows) = SumFunctionOnSet(at, rows)
  BY DEF BuyTimes, SumFunction
<1> HIDE DEF at, lows, highs
<1>3. SumFunctionOnSet(at, rows) \in Int
  BY <1>1, SumType
<1>4. SumFunctionOnSet(lows, rows) <= SumFunctionOnSet(at, rows)
  BY <1>1, SumAtMost
<1>5. SumFunctionOnSet(at, rows) <= SumFunctionOnSet(highs, rows)
  BY <1>1, SumAtMost
<1>6. SumFunctionOnSet(lows, rows) = low * Cardinality(rows) /\ SumFunctionOnSet(highs, rows) = high * Cardinality(rows)
  BY <1>1, SumOfSame
<1> QED  BY <1>2, <1>3, <1>4, <1>5, <1>6

LEMMA ItemStatsFields ==
    ASSUME NEW rows
    PROVE  /\ ItemStats(rows).wins = Cardinality(WonIn(rows))
           /\ ItemStats(rows).matches = Cardinality(rows)
           /\ ItemStats(rows).bought = BuyTimes(rows)
  BY DEF ItemStats, BuyTimes

\* A phase is its minutes: each of them is in it as a whole.
LEMMA PhasesTogether == Tables => PhasesAreWholeMinutes
<1> SUFFICES ASSUME Tables, NEW q \in ItemQueries, ~Refused(q.accounts), q.minMatches \cup q.maxMatches = {},
                    NEW k \in DOMAIN In(q, "game_phase")
             PROVE  LET minutes == In(q, "game_time_min")
                        phases == In(q, "game_phase")
                        parts == {m \in DOMAIN minutes : m[1] = k[1] /\ GamePhase(m[2] * Minute) = k[2]}
                    IN  /\ phases[k].wins = SumFunction([m \in parts |-> minutes[m].wins])
                        /\ phases[k].matches = SumFunction([m \in parts |-> minutes[m].matches])
                        /\ phases[k].bought \in SumFunction([m \in parts |-> m[2] * Minute * minutes[m].matches])
                             .. SumFunction([m \in parts |-> ((m[2] + 1) * Minute - 1) * minutes[m].matches])
  BY DEF PhasesAreWholeMinutes
<1> DEFINE minutes == In(q, "game_time_min")
           phases == In(q, "game_phase")
           rows == ExplodedPlayers(q)
           minute == [r \in rows |-> <<r.it.item, r.it.at \div Minute>>]
           phase == [r \in rows |-> <<r.it.item, GamePhase(r.it.at)>>]
           parts == {m \in DOMAIN minutes : m[1] = k[1] /\ GamePhase(m[2] * Minute) = k[2]}
           here == WithKey(rows, phase, k)
           wins == [m \in parts |-> minutes[m].wins]
           count == [m \in parts |-> minutes[m].matches]
           earliest == [m \in parts |-> m[2] * Minute * minutes[m].matches]
           lastTime == [m \in parts |-> ((m[2] + 1) * Minute - 1) * minutes[m].matches]
<1>0. q.minMatches = {} /\ q.maxMatches = {} /\ \A n : Within({}, {}, n)
  BY DEF Within, AtLeast, AtMost
<1>1. DOMAIN minutes = {minute[r] : r \in rows} /\ \A m \in DOMAIN minutes : minutes[m] = ItemStats(WithKey(rows, minute, m))
  <2> DEFINE key == [r \in rows |-> <<r.it.item, SelectBucket("game_time_min", r)>>]
             shown == {m \in {key[r] : r \in rows} : Within(q.minMatches, q.maxMatches, Cardinality(WithKey(rows, key, m)))}
  <2>1. DOMAIN minutes = shown /\ \A m \in shown : minutes[m] = ItemStats(WithKey(rows, key, m))
    BY ItemBuckets, Zenon
  <2>2. key = minute
    BY DEF SelectBucket
  <2> HIDE DEF key, minute, minutes, rows
  <2>3. shown = {minute[r] : r \in rows}
    BY <1>0, <2>2
  <2> HIDE DEF shown
  <2> QED  BY <2>1, <2>2, <2>3
<1>2. k \in {phase[r] : r \in rows} /\ phases[k] = ItemStats(here)
  <2> DEFINE key == [r \in rows |-> <<r.it.item, SelectBucket("game_phase", r)>>]
             shown == {m \in {key[r] : r \in rows} : Within(q.minMatches, q.maxMatches, Cardinality(WithKey(rows, key, m)))}
  <2>1. DOMAIN phases = shown /\ \A m \in shown : phases[m] = ItemStats(WithKey(rows, key, m))
    BY ItemBuckets, Zenon
  <2>2. key = phase
    BY DEF SelectBucket
  <2>3. k \in shown
    BY <2>1
  <2> HIDE DEF key, phase, phases, rows
  <2> QED  BY <2>1, <2>2, <2>3
<1> HIDE DEF minutes, phases
<1>3. IsFiniteSet(rows) /\ \A r \in rows : r.it.at \in Nat
  BY PurchasesFinite
<1> HIDE DEF rows
<1>4. IsFiniteSet(here) /\ here \subseteq rows
  BY <1>3, FS_Subset DEF WithKey
<1>5. IsFiniteSet(parts)
  <2> HIDE DEF minute
  <2>1. IsFiniteSet({minute[r] : r \in rows})
    BY <1>3, ImageFinite
  <2> QED  BY <1>1, <2>1, FS_Subset
<1>6. \A r \in here : minute[r] \in parts
  <2> TAKE r \in here
  <2>1. r \in rows /\ phase[r] = k
    BY DEF WithKey
  <2>2. minute[r] = <<r.it.item, r.it.at \div Minute>> /\ k = <<r.it.item, GamePhase(r.it.at)>>
    BY <2>1
  <2>3. minute[r] \in DOMAIN minutes
    BY <1>1, <2>1
  <2>4. GamePhase(r.it.at) = GamePhase((r.it.at \div Minute) * Minute)
    BY <1>3, <2>1, PhaseOfMinute
  <2> QED  BY <2>2, <2>3, <2>4
<1>7. \A m \in parts : WithKey(here, minute, m) = WithKey(rows, minute, m)
  <2> TAKE m \in parts
  <2>1. ASSUME NEW r \in rows, minute[r] = m PROVE phase[r] = k
    <3>1. m = <<r.it.item, r.it.at \div Minute>> /\ phase[r] = <<r.it.item, GamePhase(r.it.at)>>
      BY <2>1
    <3>2. m[1] = k[1] /\ GamePhase(m[2] * Minute) = k[2]
      OBVIOUS
    <3>3. GamePhase(r.it.at) = GamePhase((r.it.at \div Minute) * Minute)
      BY <1>3, PhaseOfMinute
    <3>4. \E r0 \in rows : k = <<r0.it.item, GamePhase(r0.it.at)>>
      BY <1>2
    <3> QED  BY <3>1, <3>2, <3>3, <3>4
  <2> HIDE DEF minute, phase
  <2> QED  BY <2>1 DEF WithKey
<1> DEFINE of(m) == WithKey(here, minute, m)
           times == [m \in parts |-> BuyTimes(of(m))]
<1>8. ASSUME NEW m \in parts
      PROVE  /\ wins[m] = Cardinality(WonIn(of(m)))
             /\ count[m] = Cardinality(of(m)) /\ count[m] \in Nat
             /\ times[m] = BuyTimes(of(m)) /\ times[m] \in Int
             /\ earliest[m] \in Int /\ lastTime[m] \in Int
             /\ earliest[m] <= times[m] /\ times[m] <= lastTime[m]
  <2>1. minutes[m] = ItemStats(of(m))
    BY <1>1, <1>7
  <2>2. IsFiniteSet(of(m)) /\ Cardinality(of(m)) \in Nat /\ \A r \in of(m) : r \in rows /\ minute[r] = m
    BY <1>4, FS_Subset, FS_CardinalityType DEF WithKey
  <2>3. /\ m[2] * Minute \in Int /\ (m[2] + 1) * Minute - 1 \in Int
        /\ \A r \in of(m) : r.it.at \in Int /\ m[2] * Minute <= r.it.at /\ r.it.at <= (m[2] + 1) * Minute - 1
    <3>1. PICK r0 \in rows : m = minute[r0]
      BY <1>1
    <3>2. m[2] \in Int
      BY <1>3, <3>1, PhaseOfMinute
    <3>3. ASSUME NEW r \in of(m)
          PROVE  r.it.at \in Int /\ m[2] * Minute <= r.it.at /\ r.it.at <= (m[2] + 1) * Minute - 1
      <4>1. r.it.at \in Nat /\ m[2] = r.it.at \div Minute
        BY <1>3, <2>2
      <4> QED  BY <4>1, PhaseOfMinute
    <3> QED  BY <3>2, <3>3, LengthsAssumption
  <2>4. /\ wins[m] = minutes[m].wins /\ count[m] = minutes[m].matches
        /\ earliest[m] = m[2] * Minute * minutes[m].matches
        /\ lastTime[m] = ((m[2] + 1) * Minute - 1) * minutes[m].matches
        /\ times[m] = BuyTimes(of(m))
    OBVIOUS
  <2> DEFINE low == m[2] * Minute
             high == (m[2] + 1) * Minute - 1
  <2> HIDE DEF of, wins, count, earliest, lastTime, times, low, high, parts
  <2>5. /\ minutes[m].wins = Cardinality(WonIn(of(m))) /\ minutes[m].matches = Cardinality(of(m))
    BY <2>1, ItemStatsFields
  <2>6. low \in Int /\ high \in Int /\ \A r \in of(m) : r.it.at \in Int /\ low <= r.it.at /\ r.it.at <= high
    BY <2>3 DEF low, high
  <2>7. BuyTimes(of(m)) \in Int /\ low * Cardinality(of(m)) <= BuyTimes(of(m)) /\ BuyTimes(of(m)) <= high * Cardinality(of(m))
    BY <2>2, <2>6, BuyTimesWithin
  <2>8. earliest[m] = low * Cardinality(of(m)) /\ lastTime[m] = high * Cardinality(of(m))
    BY <2>4, <2>5 DEF low, high
  <2>9. low * Cardinality(of(m)) \in Int /\ high * Cardinality(of(m)) \in Int
    BY <2>2, <2>6
  <2> QED  BY <2>2, <2>4, <2>5, <2>7, <2>8, <2>9
<1>9. \A r \in here : r.it.at \in Nat
  BY <1>3, <1>4
<1> HIDE DEF parts, here, minute, wins, count, times, earliest, lastTime
<1>10. Cardinality(WonIn(here)) = SumFunctionOnSet(wins, parts)
  <2>1. \A m \in parts : wins[m] = Cardinality(WonIn(WithKey(here, minute, m)))
    BY <1>8
  <2> QED  BY <1>4, <1>5, <1>6, <2>1, WinsByKey
<1>11. Cardinality(here) = SumFunctionOnSet(count, parts)
  <2>1. \A m \in parts : count[m] = Cardinality(WithKey(here, minute, m))
    BY <1>8
  <2> QED  BY <1>4, <1>5, <1>6, <2>1, CountByKey
<1>12. BuyTimes(here) = SumFunctionOnSet(times, parts)
  <2>1. \A m \in parts : times[m] = BuyTimes(WithKey(here, minute, m))
    BY <1>8
  <2> QED  BY <1>4, <1>5, <1>6, <1>9, <2>1, BuyTimesByKey
<1> HIDE DEF of
<1>13. SumFunctionOnSet(times, parts) \in Int /\ SumFunctionOnSet(earliest, parts) \in Int
       /\ SumFunctionOnSet(lastTime, parts) \in Int
  BY <1>5, <1>8, SumType
<1>14. SumFunctionOnSet(earliest, parts) <= SumFunctionOnSet(times, parts)
  BY <1>5, <1>8, SumAtMost
<1>15. SumFunctionOnSet(times, parts) <= SumFunctionOnSet(lastTime, parts)
  BY <1>5, <1>8, SumAtMost
<1>16. /\ SumFunction(wins) = SumFunctionOnSet(wins, parts)
       /\ SumFunction(count) = SumFunctionOnSet(count, parts)
       /\ SumFunction(earliest) = SumFunctionOnSet(earliest, parts)
       /\ SumFunction(lastTime) = SumFunctionOnSet(lastTime, parts)
  BY DEF SumFunction, wins, count, earliest, lastTime
<1>17. phases[k].wins = Cardinality(WonIn(here)) /\ phases[k].matches = Cardinality(here) /\ phases[k].bought = BuyTimes(here)
  BY <1>2, ItemStatsFields
<1>18. /\ phases[k].wins = SumFunction(wins) /\ phases[k].matches = SumFunction(count)
       /\ phases[k].bought \in SumFunction(earliest) .. SumFunction(lastTime)
  BY <1>10, <1>11, <1>12, <1>13, <1>14, <1>15, <1>16, <1>17
<1> QED  BY <1>18 DEF wins, count, earliest, lastTime, parts, minutes, phases

\* Phases are whole minutes, percentages stay within a match, filters split what
\* they are given, and the ways to ask for the orders of items agree.
THEOREM ItemsFit == TablesSpec => []ItemsAddUp
<1>1. Tables => ItemsAddUp
  BY PhasesTogether, PercentsFit, ItemFiltersInclude, BothWaysAgree, FewItemsOnce, LimitsSplit DEF ItemsAddUp
<1> QED  BY <1>1, TablesGrow, PTL

----------------------------------------------------------------------------
\* Curves and metrics

\* There is one multiple to divide down to.
LEMMA DivisionIs ==
    ASSUME NEW a \in Int, NEW b \in Nat \ {0}, NEW m \in Int, m * b <= a, a < (m + 1) * b
    PROVE  a \div b = m
<1> DEFINE d == a \div b
<1>1. d \in Int /\ d * b <= a /\ a < (d + 1) * b
  OBVIOUS
<1> HIDE DEF d
<1>2. d * b \in Int /\ m * b \in Int /\ (d + 1) * b \in Int /\ (m + 1) * b \in Int
  BY <1>1
<1>3. ASSUME d + 1 <= m PROVE FALSE
  <2>1. (d + 1) * b <= m * b
    BY <1>1, <1>3
  <2> QED  BY <1>1, <1>2, <2>1
<1>4. ASSUME m + 1 <= d PROVE FALSE
  <2>1. (m + 1) * b <= d * b
    BY <1>1, <1>4
  <2> QED  BY <1>1, <1>2, <2>1
<1>5. d = m
  BY <1>1, <1>3, <1>4
<1> QED  BY <1>5 DEF d

\* Whole parts in twos, threes, ...
LEMMA WholeParts ==
    ASSUME NEW x \in Int, NEW n \in Nat \ {0}
    PROVE  /\ x \div n \in Int
           /\ (x \div n) * n <= x
           /\ x + 1 <= (x \div n + 1) * n
  OBVIOUS

\* To divide by a product is to divide twice.
LEMMA DivideTwice ==
    ASSUME NEW a \in Int, NEW b \in Nat \ {0}, NEW n \in Nat \ {0}
    PROVE  a \div (b * n) = (a \div b) \div n
<1> DEFINE x == a \div b
           y == x \div n
<1>1. x \in Int /\ x * b <= a /\ a + 1 <= (x + 1) * b
  BY WholeParts
<1> HIDE DEF x
<1>2. y \in Int /\ y * n <= x /\ x + 1 <= (y + 1) * n
  BY <1>1, WholeParts
<1> HIDE DEF y
<1>3. b * n \in Nat \ {0}
  OBVIOUS
<1>4. y * (b * n) <= a
  <2>1. y * (b * n) = (y * n) * b
    BY <1>2
  <2>2. (y * n) * b <= x * b
    BY <1>1, <1>2
  <2> QED  BY <1>1, <1>2, <2>1, <2>2
<1>5. a < (y + 1) * (b * n)
  <2>1. (y + 1) * (b * n) = ((y + 1) * n) * b
    BY <1>2
  <2>2. (x + 1) * b <= ((y + 1) * n) * b
    BY <1>1, <1>2
  <2>3. (x + 1) * b \in Int /\ ((y + 1) * n) * b \in Int
    BY <1>1, <1>2
  <2> QED  BY <1>1, <2>1, <2>2, <2>3
<1>6. a \div (b * n) = y
  BY <1>2, <1>3, <1>4, <1>5, DivisionIs
<1> QED  BY <1>6 DEF y, x

\* A place on a fine scale, seen on a coarser one.
LEMMA CoarserPlace ==
    ASSUME NEW x \in Int, NEW res \in Nat \ {0}, NEW n \in Nat \ {0}
    PROVE  x * res - ((x * res) % (n * res)) = (x \div n) * (n * res)
<1> DEFINE y == x \div n
           s == x * res
<1>1. y \in Int /\ y * n <= x /\ x + 1 <= (y + 1) * n
  BY WholeParts
<1> HIDE DEF y
<1>2. n * res \in Nat \ {0} /\ s \in Int
  OBVIOUS
<1>3. y * (n * res) <= s
  <2>1. y * (n * res) = (y * n) * res
    BY <1>1
  <2>2. (y * n) * res <= x * res
    BY <1>1
  <2> QED  BY <2>1, <2>2
<1>4. s < (y + 1) * (n * res)
  <2>1. (y + 1) * (n * res) = ((y + 1) * n) * res
    BY <1>1
  <2>2. (x + 1) * res <= ((y + 1) * n) * res
    BY <1>1
  <2>3. x * res < (x + 1) * res
    OBVIOUS
  <2>4. (x + 1) * res \in Int /\ ((y + 1) * n) * res \in Int
    BY <1>1
  <2> QED  BY <2>1, <2>2, <2>3, <2>4
<1>5. s \div (n * res) = y
  BY <1>1, <1>2, <1>3, <1>4, DivisionIs
<1> HIDE DEF s
<1>6. s - (s % (n * res)) = (s \div (n * res)) * (n * res)
  <2> DEFINE w == n * res
  <2> HIDE DEF w
  <2>1. s - (s % w) = (s \div w) * w
    BY <1>2 DEF w
  <2> QED  BY <2>1 DEF w
<1>7. s - (s % (n * res)) = y * (n * res)
  BY <1>5, <1>6
<1> QED  BY <1>7 DEF y, s

\* Snapshots are finitely many, and taken in matches that last.
LEMMA CurveRowsFinite ==
    ASSUME Tables, NEW q
    PROVE  /\ IsFiniteSet(CurveRows(q))
           /\ \A r \in CurveRows(q) : r.at \in Nat /\ r.worth \in Nat /\ r.match.duration \in Nat \ {0}
<1> DEFINE rows == {r \in RowsOf(CurveMatches(q)) : Passing(q, r.p)}
           of == [r \in rows |-> {[match |-> r.match, p |-> r.p, at |-> r.p.stats[i].at, worth |-> r.p.stats[i].worth, i |-> i] :
                                    i \in DOMAIN r.p.stats}]
<1>1. IsFiniteSet(RowsOf(CurveMatches(q))) /\ \A r \in RowsOf(CurveMatches(q)) : r.match \in PossibleMatches /\ r.p \in r.match.players
  BY RowsFinite, ChosenAreMatches DEF CurveMatches, Tables
<1>2. IsFiniteSet(rows) /\ \A r \in rows : r.match \in PossibleMatches /\ r.p \in r.match.players
  BY <1>1, FS_Subset
<1> HIDE DEF rows
<1>3. ASSUME NEW r \in rows
      PROVE  /\ r.match.duration \in Nat \ {0} /\ Len(r.p.stats) \in Nat
             /\ DOMAIN r.p.stats = 1 .. Len(r.p.stats)
             /\ \A i \in DOMAIN r.p.stats : r.p.stats[i].at \in Nat /\ r.p.stats[i].worth \in Nat
  <2>1. r.p.stats \in Seq([at : Nat, worth : Nat]) /\ r.match.duration \in Nat /\ r.match.duration > 0
    BY <1>2, SnapshotsAssumption, MatchAssumption
  <2> DEFINE Snapshot == [at : Nat, worth : Nat]
  <2>2. \A s \in Snapshot : s.at \in Nat /\ s.worth \in Nat
    OBVIOUS
  <2> HIDE DEF Snapshot
  <2>3. r.p.stats \in Seq(Snapshot)
    BY <2>1 DEF Snapshot
  <2> QED  BY <2>1, <2>2, <2>3
<1>4. ASSUME NEW r \in rows PROVE IsFiniteSet(of[r])
  <2> DEFINE h == [i \in DOMAIN r.p.stats |->
                     [match |-> r.match, p |-> r.p, at |-> r.p.stats[i].at, worth |-> r.p.stats[i].worth, i |-> i]]
  <2>1. IsFiniteSet(DOMAIN r.p.stats)
    <3>1. Len(r.p.stats) \in Nat /\ DOMAIN r.p.stats = 1 .. Len(r.p.stats)
      BY <1>3
    <3> QED  BY <3>1, FirstFinite
  <2>2. of[r] = {h[i] : i \in DOMAIN r.p.stats}
    OBVIOUS
  <2> HIDE DEF h, of
  <2> QED  BY <2>1, <2>2, ImageFinite
<1>5. CurveRows(q) = UNION {of[r] : r \in rows}
  BY DEF CurveRows, rows
<1>6. \A r \in CurveRows(q) : r.at \in Nat /\ r.worth \in Nat /\ r.match.duration \in Nat \ {0}
  BY <1>3, <1>5
<1> HIDE DEF of
<1>7. IsFiniteSet(CurveRows(q))
  BY <1>2, <1>4, <1>5, UnionFinite
<1> QED  BY <1>6, <1>7

WorthIn(rows) == SumFunction([r \in rows |-> r.worth])

LEMMA WorthByKey ==
    ASSUME NEW rows, IsFiniteSet(rows), \A r \in rows : r.worth \in Nat,
           NEW K, IsFiniteSet(K), NEW key, \A r \in rows : key[r] \in K,
           NEW worth, \A k \in K : worth[k] = WorthIn(WithKey(rows, key, k))
    PROVE  WorthIn(rows) = SumFunctionOnSet(worth, K)
<1> DEFINE all == [r \in rows |-> r.worth]
<1>1. ASSUME NEW k \in K
      PROVE  worth[k] = SumFunctionOnSet(all, WithKey(rows, key, k))
  <2> DEFINE P == WithKey(rows, key, k)
             here == [r \in P |-> r.worth]
  <2>1. WorthIn(P) = SumFunctionOnSet(here, P)
    BY DEF SumFunction, WorthIn
  <2>2. P \subseteq rows /\ IsFiniteSet(P)
    BY FS_Subset DEF WithKey
  <2>3. \A r \in P : here[r] \in Int /\ here[r] = all[r]
    BY <2>2
  <2>4. SumFunctionOnSet(here, P) = SumFunctionOnSet(all, P)
    <3> HIDE DEF here, all, P
    <3> QED  BY <2>2, <2>3, SumEqual
  <2> QED  BY <2>1, <2>4
<1>2. \A r \in rows : all[r] \in Int
  OBVIOUS
<1>3. WorthIn(rows) = SumFunctionOnSet(all, rows)
  BY DEF SumFunction, WorthIn
<1> HIDE DEF all
<1> QED  BY <1>1, <1>2, <1>3, SumByKey

\* What a curve shows.
LEMMA CurvePoints ==
    ASSUME NEW q, ~Refused(q.accounts), q.resolution \in Nat \ {0}
    PROVE  LET curve == player_performance_curve(q)
               rows == CurveRows(q)
               key == [r \in rows |-> RelativeTime(q.resolution, r)]
           IN  /\ DOMAIN curve = {key[r] : r \in rows}
               /\ \A t \in DOMAIN curve : /\ curve[t].worth = WorthIn(WithKey(rows, key, t))
                                          /\ curve[t].of = Cardinality(WithKey(rows, key, t))
<1> DEFINE res == q.resolution
           curve == player_performance_curve(q)
           rows == CurveRows(q)
           key == [r \in rows |-> RelativeTime(res, r)]
<1>1. curve = BuildCurveQuery(q)
  BY DEF player_performance_curve
<1>2. {r \in rows : q.resolution = 0 => Regular(r.at)} = rows
  OBVIOUS
<1> HIDE DEF rows
<1>3. \A r : GameTime(q, r) = RelativeTime(res, r)
  BY DEF GameTime
<1> DEFINE group(t) == {r \in rows : RelativeTime(res, r) = t}
<1>4. BuildCurveQuery(q) = [t \in {RelativeTime(res, r) : r \in rows} |-> PlayerPerformanceCurvePoint(group(t))]
  BY <1>2, <1>3 DEF BuildCurveQuery, rows
<1>5. \A t : group(t) = WithKey(rows, key, t)
  BY DEF WithKey
<1>6. {RelativeTime(res, r) : r \in rows} = {key[r] : r \in rows}
  OBVIOUS
<1> HIDE DEF group, key, curve
<1>7. DOMAIN curve = {key[r] : r \in rows}
  BY <1>1, <1>4, <1>6
<1>8. \A t \in DOMAIN curve : curve[t] = PlayerPerformanceCurvePoint(WithKey(rows, key, t))
  BY <1>1, <1>4, <1>5, <1>6
<1>9. \A R : PlayerPerformanceCurvePoint(R).worth = WorthIn(R) /\ PlayerPerformanceCurvePoint(R).of = Cardinality(R)
  BY DEF PlayerPerformanceCurvePoint, WorthIn
<1>10. \A t \in DOMAIN curve : /\ curve[t].worth = WorthIn(WithKey(rows, key, t))
                               /\ curve[t].of = Cardinality(WithKey(rows, key, t))
  BY <1>8, <1>9
<1> QED  BY <1>7, <1>10 DEF curve, rows, key

\* Each point of a finer curve is in one point of the coarser.
LEMMA CoarserTime ==
    ASSUME NEW r, r.at \in Nat, r.match.duration \in Nat \ {0}, NEW res \in Nat \ {0}, NEW n \in Nat \ {0}
    PROVE  /\ RelativeTime(res, r) \in Int
           /\ RelativeTime(n * res, r) = RelativeTime(res, r) - (RelativeTime(res, r) % (n * res))
<1> DEFINE a == r.at * 100
           b == r.match.duration * res
           x == a \div b
<1>1. a \in Int /\ b \in Nat \ {0} /\ r.match.duration * (n * res) = b * n
  OBVIOUS
<1>2. a \div (b * n) = x \div n
  <2> HIDE DEF a, b
  <2> QED  BY <1>1, DivideTwice
<1>3. x \in Int
  <2> HIDE DEF a, b
  <2> QED  BY <1>1
<1>4. RelativeTime(res, r) = x * res /\ RelativeTime(n * res, r) = (a \div (r.match.duration * (n * res))) * (n * res)
  BY DEF RelativeTime
<1> HIDE DEF a, b, x
<1>5. RelativeTime(n * res, r) = (x \div n) * (n * res)
  BY <1>1, <1>2, <1>4
<1>6. x * res - ((x * res) % (n * res)) = (x \div n) * (n * res)
  BY <1>3, CoarserPlace
<1> QED  BY <1>3, <1>4, <1>5, <1>6

LEMMA CurvesTogether == Tables => CoarserCurveAddsUp
<1> SUFFICES ASSUME Tables, NEW q \in CurveQueries, ~Refused(q.accounts), q.resolution > 0, NEW n \in {2, 3, 4}
             PROVE  LET fine == player_performance_curve(q)
                        coarse == player_performance_curve([q EXCEPT !.resolution = n * @])
                        parts(t) == {s \in DOMAIN fine : s - (s % (n * q.resolution)) = t}
                    IN  \A t \in DOMAIN coarse :
                            /\ coarse[t].worth = SumFunction([s \in parts(t) |-> fine[s].worth])
                            /\ coarse[t].of = SumFunction([s \in parts(t) |-> fine[s].of])
  BY DEF CoarserCurveAddsUp
<1> DEFINE res == q.resolution
           fine == player_performance_curve(q)
           coarse == player_performance_curve([q EXCEPT !.resolution = n * res])
           rows == CurveRows(q)
           key == [r \in rows |-> RelativeTime(res, r)]
           coarseKey == [r \in rows |-> RelativeTime(n * res, r)]
           parts(t) == {s \in DOMAIN fine : s - (s % (n * res)) = t}
<1>1. res \in Nat \ {0} /\ n \in Nat \ {0} /\ n * res \in Nat \ {0}
  <2>1. res \in Nat \ {0}
    BY CurveQueriesAssumption
  <2> QED  BY <2>1
<1>3. /\ DOMAIN fine = {key[r] : r \in rows}
      /\ \A t \in DOMAIN fine : fine[t].worth = WorthIn(WithKey(rows, key, t)) /\ fine[t].of = Cardinality(WithKey(rows, key, t))
  BY <1>1, CurvePoints, Zenon
<1>4. /\ DOMAIN coarse = {coarseKey[r] : r \in rows}
      /\ \A t \in DOMAIN coarse : coarse[t].worth = WorthIn(WithKey(rows, coarseKey, t)) /\ coarse[t].of = Cardinality(WithKey(rows, coarseKey, t))
  <2> DEFINE l == [q EXCEPT !.resolution = n * res]
             there == CurveRows(l)
             thereKey == [r \in there |-> RelativeTime(l.resolution, r)]
  <2>1. /\ l.resolution = n * res /\ l.info = q.info /\ l.accounts = q.accounts /\ l.heroes = q.heroes
        /\ l.minWorth = q.minWorth /\ l.maxWorth = q.maxWorth
        /\ l.include = q.include /\ l.exclude = q.exclude
    BY CurveQueriesAssumption DEF PlayerPerformanceCurveQuery
  <2>2. coarse = player_performance_curve(l)
    OBVIOUS
  <2> HIDE DEF l, res
  <2>3. there = rows
    BY <2>1 DEF CurveRows, CurveMatches, Passing
  <2>4. ~Refused(l.accounts) /\ l.resolution \in Nat \ {0}
    BY <1>1, <2>1
  <2>5. /\ DOMAIN player_performance_curve(l) = {thereKey[r] : r \in there}
        /\ \A t \in DOMAIN player_performance_curve(l) :
             /\ player_performance_curve(l)[t].worth = WorthIn(WithKey(there, thereKey, t))
             /\ player_performance_curve(l)[t].of = Cardinality(WithKey(there, thereKey, t))
    BY <2>4, CurvePoints, Zenon
  <2> HIDE DEF rows, there, coarse
  <2>6. thereKey = coarseKey
    BY <2>1, <2>3
  <2> QED  BY <2>2, <2>3, <2>5, <2>6
<1>5. IsFiniteSet(rows) /\ \A r \in rows : r.worth \in Nat /\ r.at \in Nat /\ r.match.duration \in Nat \ {0}
  BY CurveRowsFinite
<1> HIDE DEF fine, coarse, rows, res
<1>6. \A r \in rows : coarseKey[r] = key[r] - (key[r] % (n * res))
  BY <1>1, <1>5, CoarserTime
<1>7. IsFiniteSet(DOMAIN fine)
  <2> HIDE DEF key
  <2> QED  BY <1>3, <1>5, ImageFinite
<1> HIDE DEF key, coarseKey
<1>8. ASSUME NEW t \in DOMAIN coarse
      PROVE  /\ coarse[t].worth = SumFunction([s \in parts(t) |-> fine[s].worth])
             /\ coarse[t].of = SumFunction([s \in parts(t) |-> fine[s].of])
  <2> DEFINE here == WithKey(rows, coarseKey, t)
             worth == [s \in parts(t) |-> fine[s].worth]
             of == [s \in parts(t) |-> fine[s].of]
  <2>1. IsFiniteSet(here) /\ \A r \in here : r.worth \in Nat
    BY <1>5, FS_Subset DEF WithKey
  <2>2. IsFiniteSet(parts(t))
    BY <1>7, FS_Subset
  <2>3. \A r \in here : key[r] \in parts(t)
    BY <1>3, <1>6 DEF WithKey
  <2>4. \A s \in parts(t) : WithKey(here, key, s) = WithKey(rows, key, s)
    BY <1>6 DEF WithKey
  <2>5. \A s \in parts(t) : worth[s] = WorthIn(WithKey(here, key, s)) /\ of[s] = Cardinality(WithKey(here, key, s))
    <3> HIDE DEF here
    <3> QED  BY <1>3, <2>4
  <2>6. SumFunction(worth) = SumFunctionOnSet(worth, parts(t)) /\ SumFunction(of) = SumFunctionOnSet(of, parts(t))
    BY DEF SumFunction
  <2>7. coarse[t].worth = WorthIn(here) /\ coarse[t].of = Cardinality(here)
    BY <1>4
  <2> HIDE DEF worth, of, here, parts
  <2>8. WorthIn(here) = SumFunctionOnSet(worth, parts(t))
    BY <2>1, <2>2, <2>3, <2>5, WorthByKey
  <2>9. Cardinality(here) = SumFunctionOnSet(of, parts(t))
    BY <2>1, <2>2, <2>3, <2>5, CountByKey
  <2>10. coarse[t].worth = SumFunction(worth) /\ coarse[t].of = SumFunction(of)
    BY <2>6, <2>7, <2>8, <2>9
  <2> QED  BY <2>10 DEF worth, of
<1>9. [q EXCEPT !.resolution = n * @] = [q EXCEPT !.resolution = n * res]
  BY DEF res
<1> HIDE DEF parts
<1>10. \A t \in DOMAIN coarse : /\ coarse[t].worth = SumFunction([s \in parts(t) |-> fine[s].worth])
                                /\ coarse[t].of = SumFunction([s \in parts(t) |-> fine[s].of])
  BY <1>8
<1> QED  BY <1>9, <1>10 DEF fine, coarse, parts, res

LEMMA AtLeastOneIs ==
    ASSUME NEW n \in Nat
    PROVE  AtLeastOne(n) \in Nat \ {0} /\ n <= AtLeastOne(n)
<1>1. \E x \in {1, n} : \A y \in {1, n} : x >= y
  <2>1. CASE n >= 1
    BY <2>1
  <2>2. CASE n = 0
    BY <2>2
  <2> QED  BY <2>1, <2>2
<1>2. AtLeastOne(n) \in {1, n} /\ \A y \in {1, n} : AtLeastOne(n) >= y
  BY <1>1, Zenon DEF AtLeastOne, Max
<1> QED  BY <1>2

\* What division does to numbers that compare.
LEMMA DivisionWithin ==
    ASSUME NEW a \in Nat, NEW d \in Nat \ {0}
    PROVE  /\ a \div d \in Nat /\ a \div d <= a
           /\ \A m \in Nat : a <= m * d => a \div d <= m
           /\ \A b \in Nat : a <= b => a \div d <= b \div d
<1> DEFINE x == a \div d
<1>1. x \in Int /\ x * d <= a /\ a + 1 <= (x + 1) * d
  BY WholeParts
<1> HIDE DEF x
<1>2. x \in Nat
  <2>1. ASSUME x + 1 <= 0 PROVE FALSE
    <3>1. (x + 1) * d <= 0
      BY <1>1, <2>1
    <3> QED  BY <1>1, <3>1
  <2> QED  BY <1>1, <2>1
<1>3. ASSUME NEW m \in Nat, a <= m * d PROVE x <= m
  <2>1. ASSUME m + 1 <= x PROVE FALSE
    <3>1. (m + 1) * d <= x * d
      BY <1>1, <2>1
    <3>2. m * d < (m + 1) * d
      OBVIOUS
    <3> QED  BY <1>1, <1>3, <3>1, <3>2
  <2> QED  BY <1>1, <2>1
<1>4. a <= a * d
  OBVIOUS
<1>5. ASSUME NEW b \in Nat, a <= b PROVE x <= b \div d
  <2> DEFINE y == b \div d
  <2>1. y \in Int /\ y * d <= b /\ b + 1 <= (y + 1) * d
    BY WholeParts
  <2> HIDE DEF y
  <2>2. ASSUME y + 1 <= x PROVE FALSE
    <3>1. (y + 1) * d <= x * d
      BY <1>1, <2>1, <2>2
    <3>2. (y + 1) * d \in Int /\ x * d \in Int
      BY <1>1, <2>1
    <3> QED  BY <1>1, <1>5, <2>1, <3>1, <3>2
  <2> QED  BY <1>1, <2>1, <2>2 DEF y
<1> QED  BY <1>2, <1>3, <1>4, <1>5 DEF x

\* The unit is fine enough for what is divided by the length of a match.
LEMMA PerMinuteIs ==
    ASSUME NEW r, r.match \in PossibleMatches
    PROVE  \E u \in Nat : \A v \in Nat : PerMinute(v, r) = v * u
<1> DEFINE d == AtLeastOne(r.match.duration)
           w == Minute * Unit
           u == w \div d
<1>1. d \in Nat \ {0}
  BY MatchAssumption, AtLeastOneIs
<1>2. w \in Nat /\ w % d = 0 /\ Minute \in Nat /\ Unit \in Nat
  BY UnitAssumption, LengthsAssumption
<1>3. \A v \in Nat : PerMinute(v, r) = (v * w) \div d
  BY <1>2 DEF PerMinute
<1> HIDE DEF d, w
<1>4. u \in Nat
  BY <1>1, <1>2, DivisionWithin
<1>5. w = u * d
  BY <1>1, <1>2
<1> HIDE DEF u
<1>6. ASSUME NEW v \in Nat PROVE (v * w) \div d = v * u
  <2> DEFINE m == v * u
             a == v * w
  <2>1. m \in Int /\ a \in Int /\ m * d = a
    BY <1>1, <1>2, <1>4, <1>5
  <2> HIDE DEF m, a
  <2>2. m * d <= a /\ a < (m + 1) * d
    BY <1>1, <2>1
  <2>3. a \div d = m
    BY <1>1, <2>1, <2>2, DivisionIs
  <2> QED  BY <2>3 DEF m, a
<1> QED  BY <1>3, <1>4, <1>6

\* The columns of the rows that metrics are taken of.
MetricColumns(r) ==
    /\ r.match \in PossibleMatches
    /\ {r.match.id, r.match.duration} \subseteq Nat
    /\ {r.p.kills, r.p.deaths, r.p.assists, r.p.crits, r.p.hits, r.p.selfHealing, r.p.playerHealing} \subseteq Nat

LEMMA MetricRowsFinite ==
    ASSUME Tables, NEW q
    PROVE  IsFiniteSet(MetricRows(q)) /\ \A r \in MetricRows(q) : MetricColumns(r)
<1>1. /\ IsFiniteSet(RowsOf(MetricMatches(q)))
      /\ \A r \in RowsOf(MetricMatches(q)) : /\ r.match \in PossibleMatches /\ r.p \in r.match.players
                                             /\ {r.match.id, r.match.duration, r.p.kills} \subseteq Nat
  BY RowsFinite, ChosenAreMatches DEF MetricMatches, Tables
<1>2. MetricRows(q) \subseteq RowsOf(MetricMatches(q))
  BY DEF MetricRows
<1>3. ASSUME NEW r \in MetricRows(q) PROVE MetricColumns(r)
  <2>1. {r.p.deaths, r.p.assists, r.p.crits, r.p.hits, r.p.selfHealing, r.p.playerHealing} \subseteq Nat
    BY <1>1, <1>2, SnapshotsAssumption
  <2>2. /\ r.match \in PossibleMatches
        /\ {r.match.id, r.match.duration, r.p.kills} \subseteq Nat
    BY <1>1, <1>2
  <2> QED  BY <2>1, <2>2 DEF MetricColumns
<1> QED  BY <1>1, <1>2, <1>3, FS_Subset

LEMMA AnalyzedRows ==
    ASSUME Tables, NEW q, NEW rows \in Analyzed(q)
    PROVE  IsFiniteSet(rows) /\ rows \subseteq MetricRows(q) /\ \A r \in rows : MetricColumns(r)
<1>1. rows \subseteq MetricRows(q)
  BY DEF Analyzed, kSubset
<1> QED  BY <1>1, MetricRowsFinite, FS_Subset

LEMMA MetricsOfRow ==
    ASSUME NEW r, MetricColumns(r)
    PROVE  /\ \A metric \in Metric : SelectClause(metric, r) \in Nat
           /\ SelectClause("healing", r) = SelectClause("self_healing", r) + SelectClause("player_healing", r)
           /\ SelectClause("healing_per_min", r)
                = SelectClause("self_healing_per_min", r) + SelectClause("player_healing_per_min", r)
           /\ SelectClause("kills_plus_assists", r) = SelectClause("kills", r) + SelectClause("assists", r)
           /\ SelectClause("kd", r) <= SelectClause("kda", r)
           /\ SelectClause("kda", r) <= SelectClause("kills_plus_assists", r)
           /\ SelectClause("crit_shot_rate", r) <= Unit
<1> DEFINE kills == r.p.kills
           assists == r.p.assists
           deaths == AtLeastOne(r.p.deaths)
           crits == r.p.crits
           shots == AtLeastOne(r.p.crits + r.p.hits)
           self == r.p.selfHealing
           other == r.p.playerHealing
<1>1. /\ kills \in Nat /\ assists \in Nat /\ crits \in Nat /\ self \in Nat /\ other \in Nat
      /\ Unit \in Nat /\ deaths \in Nat \ {0} /\ shots \in Nat \ {0} /\ crits <= shots
  <2>1. /\ kills \in Nat /\ assists \in Nat /\ crits \in Nat /\ self \in Nat /\ other \in Nat
        /\ Unit \in Nat /\ r.p.deaths \in Nat /\ r.p.hits \in Nat
    BY UnitAssumption DEF MetricColumns
  <2>2. deaths \in Nat \ {0}
    BY <2>1, AtLeastOneIs
  <2>3. r.p.crits + r.p.hits \in Nat /\ crits <= r.p.crits + r.p.hits
    BY <2>1
  <2>4. shots \in Nat \ {0} /\ r.p.crits + r.p.hits <= shots
    BY <2>3, AtLeastOneIs
  <2> QED  BY <2>1, <2>2, <2>3, <2>4
<1>2. PICK u \in Nat : \A v \in Nat : PerMinute(v, r) = v * u
  BY PerMinuteIs DEF MetricColumns
<1>3. /\ SelectClause("kills", r) = kills * Unit
      /\ SelectClause("deaths", r) = r.p.deaths * Unit
      /\ SelectClause("assists", r) = assists * Unit
      /\ SelectClause("kd", r) = (kills * Unit) \div deaths
      /\ SelectClause("kda", r) = ((kills + assists) * Unit) \div deaths
      /\ SelectClause("kills_plus_assists", r) = (kills + assists) * Unit
      /\ SelectClause("crit_shot_rate", r) = (crits * Unit) \div shots
      /\ SelectClause("self_healing", r) = self * Unit
      /\ SelectClause("player_healing", r) = other * Unit
      /\ SelectClause("healing", r) = (self + other) * Unit
      /\ SelectClause("healing_per_min", r) = PerMinute(self + other, r)
      /\ SelectClause("self_healing_per_min", r) = PerMinute(self, r)
      /\ SelectClause("player_healing_per_min", r) = PerMinute(other, r)
  BY DEF SelectClause, HealingPerMin
<1>4. r.p.deaths \in Nat
  BY DEF MetricColumns
<1> HIDE DEF kills, assists, deaths, crits, shots, self, other
<1>5. /\ kills * Unit \in Nat /\ r.p.deaths * Unit \in Nat /\ assists * Unit \in Nat /\ (kills + assists) * Unit \in Nat
      /\ crits * Unit \in Nat /\ self * Unit \in Nat /\ other * Unit \in Nat /\ (self + other) * Unit \in Nat
  BY <1>1, <1>4
<1>6. /\ (self + other) * Unit = self * Unit + other * Unit
      /\ (kills + assists) * Unit = kills * Unit + assists * Unit
  BY <1>1
<1>7. /\ (kills * Unit) \div deaths \in Nat
      /\ ((kills + assists) * Unit) \div deaths \in Nat
      /\ (kills * Unit) \div deaths <= ((kills + assists) * Unit) \div deaths
      /\ ((kills + assists) * Unit) \div deaths <= (kills + assists) * Unit
  <2> DEFINE a == kills * Unit
             b == (kills + assists) * Unit
  <2>1. a \in Nat /\ b \in Nat /\ a <= b
    BY <1>5, <1>6
  <2> HIDE DEF a, b
  <2>2. a \div deaths \in Nat /\ b \div deaths \in Nat /\ a \div deaths <= b \div deaths /\ b \div deaths <= b
    BY <1>1, <2>1, DivisionWithin
  <2> QED  BY <2>2 DEF a, b
<1>8. (crits * Unit) \div shots \in Nat /\ (crits * Unit) \div shots <= Unit
  <2> DEFINE a == crits * Unit
  <2>1. a \in Nat /\ a <= Unit * shots
    BY <1>1, <1>5
  <2> HIDE DEF a
  <2>2. a \div shots \in Nat /\ a \div shots <= Unit
    BY <1>1, <2>1, DivisionWithin
  <2> QED  BY <2>2 DEF a
<1>9. /\ PerMinute(self + other, r) = (self + other) * u
      /\ PerMinute(self, r) = self * u /\ PerMinute(other, r) = other * u
  BY <1>1, <1>2
<1>10. /\ (self + other) * u = self * u + other * u
       /\ self * u \in Nat /\ other * u \in Nat /\ (self + other) * u \in Nat
  BY <1>1
<1>11. \A metric \in Metric : SelectClause(metric, r) \in Nat
  BY <1>3, <1>5, <1>7, <1>8, <1>9, <1>10 DEF Metric
<1> QED  BY <1>3, <1>6, <1>7, <1>8, <1>9, <1>10, <1>11

\* The value at a level is one of the values, and so many are below it.
LEMMA QuantileThere ==
    ASSUME NEW rows, IsFiniteSet(rows), rows # {}, NEW metric,
           \A r \in rows : SelectClause(metric, r) \in Nat, NEW level \in 1 .. 99
    PROVE  LET v == QuantileAt(level, rows, metric)
               n == Cardinality(rows)
           IN  /\ \E r \in rows : v = SelectClause(metric, r)
               /\ 100 * Cardinality({r \in rows : SelectClause(metric, r) < v}) <= level * n
               /\ 100 * Cardinality({r \in rows : SelectClause(metric, r) <= v}) > level * (n - 1)
<1> DEFINE n == Cardinality(rows)
           val(r) == SelectClause(metric, r)
           place == 1 + ((level * (n - 1)) \div 100)
           below(v) == {r \in rows : val(r) < v}
           upTo(v) == {r \in rows : val(r) <= v}
           fits(v) == Cardinality(below(v)) < place /\ Cardinality(upTo(v)) >= place
<1>0. n \in Nat /\ n > 0
  <2>1. Cardinality(rows) \in Nat
    BY FS_CardinalityType
  <2>2. Cardinality(rows) # 0
    BY FS_EmptySet
  <2> QED  BY <2>1, <2>2
<1> HIDE DEF n
<1>1. /\ place \in Nat /\ place >= 1 /\ place <= n
      /\ 100 * (place - 1) <= level * (n - 1) /\ 100 * place > level * (n - 1)
  <2> DEFINE a == level * (n - 1)
  <2>1. a \in Nat /\ a <= 99 * (n - 1)
    BY <1>0
  <2>3. place = 1 + (a \div 100) /\ level * (n - 1) = a
    OBVIOUS
  <2> HIDE DEF a, place
  <2>2. 1 + (a \div 100) \in Nat /\ 1 + (a \div 100) >= 1 /\ 1 + (a \div 100) <= n
        /\ 100 * (a \div 100) <= a /\ 100 * (1 + (a \div 100)) > a
    BY <1>0, <2>1
  <2> QED  BY <2>1, <2>2, <2>3
<1> HIDE DEF place, val
<1>2. \A r \in rows : val(r) \in Nat
  BY DEF val
<1>3. \A v : /\ IsFiniteSet(below(v)) /\ Cardinality(below(v)) \in Nat
             /\ IsFiniteSet(upTo(v)) /\ Cardinality(upTo(v)) \in Nat
  BY FS_Subset, FS_CardinalityType
<1> DEFINE T == {v \in Nat : Cardinality(upTo(v)) >= place}
<1>4. T # {}
  <2> DEFINE V == [r \in rows |-> val(r)]
             sums == SumFunctionOnSet(V, rows)
             R == {A \in SUBSET rows : \E v \in Nat : \A r \in A : val(r) <= v}
  <2>1. {} \in R
    OBVIOUS
  <2>2. \A A \in SUBSET rows, x \in rows : A \in R /\ x \notin A => A \cup {x} \in R
    <3> SUFFICES ASSUME NEW A \in SUBSET rows, NEW x \in rows, NEW v \in Nat, \A r \in A : val(r) <= v
                 PROVE  \E w \in Nat : \A r \in A \cup {x} : val(r) <= w
      OBVIOUS
    <3>1. v + val(x) \in Nat /\ \A r \in A \cup {x} : val(r) <= v + val(x)
      BY <1>2
    <3> QED  BY <3>1
  <2> HIDE DEF R
  <2>3. SUBSET rows \subseteq R
    BY <2>1, <2>2, SubsetsFromEmpty
  <2>4. PICK v \in Nat : \A r \in rows : val(r) <= v
    BY <2>3 DEF R
  <2>5. upTo(v) = rows
    BY <2>4
  <2>6. Cardinality(upTo(v)) >= place
    BY <1>0, <1>1, <2>5 DEF n
  <2> QED  BY <2>6
<1>5. PICK v \in T : \A w \in T : v <= w
  BY <1>4, LeastNumber
<1>6. v \in Nat /\ Cardinality(upTo(v)) >= place
  BY <1>5
<1>7. Cardinality(below(v)) < place
  <2>1. CASE v = 0
    <3>1. below(v) = {}
      BY <1>2, <2>1
    <3>2. Cardinality({}) = 0
      BY FS_EmptySet
    <3> HIDE DEF below
    <3> QED  BY <1>1, <3>1, <3>2
  <2>2. CASE v # 0
    <3>1. v - 1 \in Nat /\ v - 1 \notin T
      BY <1>5, <1>6, <2>2
    <3>2. below(v) = upTo(v - 1)
      BY <1>2, <1>6, <2>2
    <3>3. ~(Cardinality(upTo(v - 1)) >= place)
      BY <3>1
    <3> HIDE DEF below, upTo
    <3> QED  BY <1>1, <1>3, <3>2, <3>3
  <2> QED  BY <2>1, <2>2
<1>8. \E r \in rows : val(r) = v
  <2> SUFFICES ASSUME \A r \in rows : val(r) # v PROVE FALSE
    OBVIOUS
  <2>1. below(v) = upTo(v)
    BY <1>2, <1>6
  <2> HIDE DEF below, upTo
  <2> QED  BY <1>1, <1>3, <1>6, <1>7, <2>1
<1> DEFINE c == QuantileAt(level, rows, metric)
<1>9. c = CHOOSE w \in {val(r) : r \in rows} : fits(w)
  BY DEF QuantileAt, val, place, n
<1>10. \E w \in {val(r) : r \in rows} : fits(w)
  BY <1>6, <1>7, <1>8
<1> HIDE DEF c, fits
<1>11. c \in {val(r) : r \in rows} /\ fits(c)
  BY <1>9, <1>10
<1>12. /\ Cardinality(below(c)) < place /\ Cardinality(upTo(c)) >= place
       /\ Cardinality(below(c)) \in Nat /\ Cardinality(upTo(c)) \in Nat
  BY <1>3, <1>11 DEF fits
<1>13. level * (n - 1) <= level * n /\ level * (n - 1) \in Int /\ level * n \in Int
  BY <1>0
<1> HIDE DEF below, upTo
<1>14. 100 * Cardinality(below(c)) <= level * n /\ 100 * Cardinality(upTo(c)) > level * (n - 1)
  BY <1>1, <1>12, <1>13
<1>15. \E r \in rows : c = val(r)
  BY <1>11
<1> QED  BY <1>14, <1>15 DEF c, n, val, below, upTo

MetricSum(rows, metric) == SumFunction([r \in rows |-> SelectClause(metric, r)])

\* What an answer says of a metric.
LEMMA MetricAnswers ==
    ASSUME NEW rows, NEW metric \in Metric
    PROVE  LET a == ExtractValues(MetricsRow(rows))[metric]
           IN  /\ a.sum = MetricSum(rows, metric)
               /\ rows # {} => /\ a.percentile1 = QuantileAt(1, rows, metric)
                               /\ a.percentile5 = QuantileAt(5, rows, metric)
                               /\ a.percentile10 = QuantileAt(10, rows, metric)
                               /\ a.percentile25 = QuantileAt(25, rows, metric)
                               /\ a.percentile50 = QuantileAt(50, rows, metric)
                               /\ a.percentile75 = QuantileAt(75, rows, metric)
                               /\ a.percentile90 = QuantileAt(90, rows, metric)
                               /\ a.percentile95 = QuantileAt(95, rows, metric)
                               /\ a.percentile99 = QuantileAt(99, rows, metric)
               /\ rows = {} => a.percentile99 = 0
<1> DEFINE row == MetricsRow(rows)
           a == ExtractValues(row)[metric]
           quantiles == [i \in DOMAIN Levels |-> IF rows = {} THEN 0 ELSE QuantileAt(Levels[i], rows, metric)]
<1>1. row[metric].sum = MetricSum(rows, metric) /\ row[metric].quantiles = quantiles
  BY DEF MetricsRow, MetricSum
<1>2. /\ DOMAIN Levels = 1 .. 9
      /\ Levels[1] = 1 /\ Levels[2] = 5 /\ Levels[3] = 10 /\ Levels[4] = 25 /\ Levels[5] = 50
      /\ Levels[6] = 75 /\ Levels[7] = 90 /\ Levels[8] = 95 /\ Levels[9] = 99
  BY DEF Levels
<1>3. ASSUME rows # {}
      PROVE  /\ quantiles[1] = QuantileAt(1, rows, metric) /\ quantiles[2] = QuantileAt(5, rows, metric)
             /\ quantiles[3] = QuantileAt(10, rows, metric) /\ quantiles[4] = QuantileAt(25, rows, metric)
             /\ quantiles[5] = QuantileAt(50, rows, metric) /\ quantiles[6] = QuantileAt(75, rows, metric)
             /\ quantiles[7] = QuantileAt(90, rows, metric) /\ quantiles[8] = QuantileAt(95, rows, metric)
             /\ quantiles[9] = QuantileAt(99, rows, metric)
  BY <1>2, <1>3
<1>4. rows = {} => quantiles[9] = 0
  BY <1>2
<1> HIDE DEF row, quantiles
<1>5. /\ a.sum = row[metric].sum
      /\ a.percentile1 = row[metric].quantiles[1] /\ a.percentile5 = row[metric].quantiles[2]
      /\ a.percentile10 = row[metric].quantiles[3] /\ a.percentile25 = row[metric].quantiles[4]
      /\ a.percentile50 = row[metric].quantiles[5] /\ a.percentile75 = row[metric].quantiles[6]
      /\ a.percentile90 = row[metric].quantiles[7] /\ a.percentile95 = row[metric].quantiles[8]
      /\ a.percentile99 = row[metric].quantiles[9]
  BY DEF ExtractValues, MetricValues
<1> HIDE DEF a
<1>6. rows # {} => /\ a.percentile1 = QuantileAt(1, rows, metric)
                   /\ a.percentile5 = QuantileAt(5, rows, metric)
                   /\ a.percentile10 = QuantileAt(10, rows, metric)
                   /\ a.percentile25 = QuantileAt(25, rows, metric)
                   /\ a.percentile50 = QuantileAt(50, rows, metric)
                   /\ a.percentile75 = QuantileAt(75, rows, metric)
                   /\ a.percentile90 = QuantileAt(90, rows, metric)
                   /\ a.percentile95 = QuantileAt(95, rows, metric)
                   /\ a.percentile99 = QuantileAt(99, rows, metric)
  BY <1>1, <1>3, <1>5
<1>7. a.sum = MetricSum(rows, metric) /\ (rows = {} => a.percentile99 = 0)
  BY <1>1, <1>4, <1>5
<1> QED  BY <1>6, <1>7 DEF a, row

LEMMA MetricsAdd == Tables => MetricsAddUp
<1> SUFFICES ASSUME Tables, NEW q \in MetricQueries, ~Refused(q.accounts), NEW a \in player_stats_metrics(q)
             PROVE  /\ a["healing"].sum = a["self_healing"].sum + a["player_healing"].sum
                    /\ a["healing_per_min"].sum = a["self_healing_per_min"].sum + a["player_healing_per_min"].sum
                    /\ a["kills_plus_assists"].sum = a["kills"].sum + a["assists"].sum
                    /\ a["kd"].sum <= a["kda"].sum /\ a["kda"].sum <= a["kills_plus_assists"].sum
                    /\ a["crit_shot_rate"].percentile99 <= Unit
  BY DEF MetricsAddUp
<1>1. PICK rows \in Analyzed(q) : a = ExtractValues(MetricsRow(rows))
  BY DEF player_stats_metrics
<1>2. IsFiniteSet(rows) /\ \A r \in rows : MetricColumns(r)
  BY AnalyzedRows
<1> DEFINE of == [metric \in Metric |-> [r \in rows |-> SelectClause(metric, r)]]
           sum(metric) == SumFunctionOnSet(of[metric], rows)
<1>3. \A metric \in Metric : a[metric].sum = sum(metric)
  <2> TAKE metric \in Metric
  <2>1. a[metric].sum = MetricSum(rows, metric)
    BY <1>1, MetricAnswers
  <2>2. MetricSum(rows, metric) = sum(metric)
    BY DEF MetricSum, SumFunction
  <2> QED  BY <2>1, <2>2
<1>4. {"healing", "self_healing", "player_healing", "healing_per_min", "self_healing_per_min",
       "player_healing_per_min", "kills_plus_assists", "kills", "assists", "kd", "kda", "crit_shot_rate"} \subseteq Metric
  BY DEF Metric
<1>5. ASSUME NEW r \in rows
      PROVE  /\ \A metric \in Metric : of[metric][r] \in Int
             /\ of["healing"][r] = of["self_healing"][r] + of["player_healing"][r]
             /\ of["healing_per_min"][r] = of["self_healing_per_min"][r] + of["player_healing_per_min"][r]
             /\ of["kills_plus_assists"][r] = of["kills"][r] + of["assists"][r]
             /\ of["kd"][r] <= of["kda"][r] /\ of["kda"][r] <= of["kills_plus_assists"][r]
  <2>1. \A metric \in Metric : of[metric][r] = SelectClause(metric, r)
    OBVIOUS
  <2>2. /\ \A metric \in Metric : SelectClause(metric, r) \in Nat
        /\ SelectClause("healing", r) = SelectClause("self_healing", r) + SelectClause("player_healing", r)
        /\ SelectClause("healing_per_min", r)
             = SelectClause("self_healing_per_min", r) + SelectClause("player_healing_per_min", r)
        /\ SelectClause("kills_plus_assists", r) = SelectClause("kills", r) + SelectClause("assists", r)
        /\ SelectClause("kd", r) <= SelectClause("kda", r)
        /\ SelectClause("kda", r) <= SelectClause("kills_plus_assists", r)
    BY <1>2, MetricsOfRow
  <2> HIDE DEF of
  <2> QED  BY <1>4, <2>1, <2>2
<1> HIDE DEF of
<1>6. sum("healing") = sum("self_healing") + sum("player_healing")
  BY <1>2, <1>4, <1>5, SumPlus
<1>7. sum("healing_per_min") = sum("self_healing_per_min") + sum("player_healing_per_min")
  BY <1>2, <1>4, <1>5, SumPlus
<1>8. sum("kills_plus_assists") = sum("kills") + sum("assists")
  BY <1>2, <1>4, <1>5, SumPlus
<1>9. sum("kd") <= sum("kda")
  BY <1>2, <1>4, <1>5, SumAtMost
<1>10. sum("kda") <= sum("kills_plus_assists")
  BY <1>2, <1>4, <1>5, SumAtMost
<1>11. a["crit_shot_rate"].percentile99 <= Unit
  <2> DEFINE metric == "crit_shot_rate"
             c == a[metric].percentile99
  <2>1. rows = {} => c = 0
    BY <1>1, <1>4, MetricAnswers
  <2>2. rows # {} => c = QuantileAt(99, rows, metric)
    BY <1>1, <1>4, MetricAnswers
  <2>3. \A r \in rows : SelectClause(metric, r) \in Nat /\ SelectClause(metric, r) <= Unit
    BY <1>2, <1>4, MetricsOfRow
  <2>4. rows # {} => \E r \in rows : QuantileAt(99, rows, metric) = SelectClause(metric, r)
    <3> SUFFICES ASSUME rows # {} PROVE \E r \in rows : QuantileAt(99, rows, metric) = SelectClause(metric, r)
      OBVIOUS
    <3>1. 99 \in 1 .. 99 /\ \A r \in rows : SelectClause(metric, r) \in Nat
      BY <2>3
    <3> HIDE DEF metric
    <3> QED  BY <1>2, <3>1, QuantileThere, Zenon
  <2>5. Unit \in Nat
    BY UnitAssumption
  <2> HIDE DEF metric, c
  <2>6. c <= Unit
    BY <2>1, <2>2, <2>3, <2>4, <2>5
  <2> QED  BY <2>6 DEF c, metric
<1> HIDE DEF sum
<1> QED  BY <1>3, <1>4, <1>6, <1>7, <1>8, <1>9, <1>10, <1>11

LEMMA PercentilesStand == Tables => PercentilesAtTheirLevels
<1> SUFFICES ASSUME Tables, NEW q \in MetricQueries, ~Refused(q.accounts), NEW rows \in Analyzed(q),
                    NEW metric \in Metric, Cardinality(rows) > 0
             PROVE  LET a == ExtractValues(MetricsRow(rows))[metric]
                        n == Cardinality(rows)
                        at(level, v) ==
                            /\ 100 * Cardinality({r \in rows : SelectClause(metric, r) < v}) <= level * n
                            /\ 100 * Cardinality({r \in rows : SelectClause(metric, r) <= v}) > level * (n - 1)
                    IN  /\ at(1, a.percentile1) /\ at(5, a.percentile5) /\ at(10, a.percentile10)
                        /\ at(25, a.percentile25) /\ at(50, a.percentile50) /\ at(75, a.percentile75)
                        /\ at(90, a.percentile90) /\ at(95, a.percentile95) /\ at(99, a.percentile99)
  BY DEF PercentilesAtTheirLevels
<1> DEFINE a == ExtractValues(MetricsRow(rows))[metric]
           n == Cardinality(rows)
           at(level, v) ==
               /\ 100 * Cardinality({r \in rows : SelectClause(metric, r) < v}) <= level * n
               /\ 100 * Cardinality({r \in rows : SelectClause(metric, r) <= v}) > level * (n - 1)
<1>1. IsFiniteSet(rows) /\ \A r \in rows : SelectClause(metric, r) \in Nat
  BY AnalyzedRows, MetricsOfRow
<1>2. rows # {}
  BY FS_EmptySet
<1>3. ASSUME NEW level \in 1 .. 99 PROVE at(level, QuantileAt(level, rows, metric))
  BY <1>1, <1>2, QuantileThere, ZenonT(40)
<1>4. /\ a.percentile1 = QuantileAt(1, rows, metric) /\ a.percentile5 = QuantileAt(5, rows, metric)
      /\ a.percentile10 = QuantileAt(10, rows, metric) /\ a.percentile25 = QuantileAt(25, rows, metric)
      /\ a.percentile50 = QuantileAt(50, rows, metric) /\ a.percentile75 = QuantileAt(75, rows, metric)
      /\ a.percentile90 = QuantileAt(90, rows, metric) /\ a.percentile95 = QuantileAt(95, rows, metric)
      /\ a.percentile99 = QuantileAt(99, rows, metric)
  BY <1>2, MetricAnswers
<1>5. {1, 5, 10, 25, 50, 75, 90, 95, 99} \subseteq 1 .. 99
  OBVIOUS
<1> HIDE DEF at, a
<1>6. /\ at(1, a.percentile1) /\ at(5, a.percentile5) /\ at(10, a.percentile10)
      /\ at(25, a.percentile25) /\ at(50, a.percentile50) /\ at(75, a.percentile75)
      /\ at(90, a.percentile90) /\ at(95, a.percentile95) /\ at(99, a.percentile99)
  BY <1>3, <1>4, <1>5
<1> QED  BY <1>6 DEF at, a

\* A set within another can be filled up to any number between.
LEMMA SubsetOfSize ==
    ASSUME NEW B, IsFiniteSet(B), NEW A \in SUBSET B, NEW n \in Nat,
           Cardinality(A) <= n, n <= Cardinality(B)
    PROVE  \E T \in SUBSET B : A \subseteq T /\ Cardinality(T) = n
<1> DEFINE Filled(l) == \E T \in SUBSET B : A \subseteq T /\ Cardinality(T) = l
           R == {l \in Nat : Cardinality(A) + l <= Cardinality(B) => Filled(Cardinality(A) + l)}
<1>0. Cardinality(A) \in Nat /\ Cardinality(B) \in Nat
  BY FS_Subset, FS_CardinalityType
<1>1. 0 \in R
  BY <1>0
<1>2. ASSUME NEW l \in Nat, l \in R PROVE l + 1 \in R
  <2> SUFFICES ASSUME Cardinality(A) + l + 1 <= Cardinality(B) PROVE Filled(Cardinality(A) + (l + 1))
    BY <1>0
  <2>1. PICK T \in SUBSET B : A \subseteq T /\ Cardinality(T) = Cardinality(A) + l
    BY <1>0, <1>2
  <2>2. T # B
    BY <1>0, <2>1
  <2>3. PICK x \in B : x \notin T
    BY <2>2
  <2>4. IsFiniteSet(T)
    BY FS_Subset
  <2>5. Cardinality(T \cup {x}) = Cardinality(T) + 1
    BY <2>3, <2>4, FS_AddElement
  <2>6. T \cup {x} \in SUBSET B /\ A \subseteq T \cup {x}
    BY <2>1, <2>3
  <2>7. Cardinality(T \cup {x}) = Cardinality(A) + (l + 1)
    BY <1>0, <2>1, <2>5
  <2> QED  BY <2>6, <2>7
<1> HIDE DEF R, Filled
<1>3. Nat \subseteq R
  BY <1>1, <1>2, NumbersFromZero
<1>4. n - Cardinality(A) \in Nat /\ Cardinality(A) + (n - Cardinality(A)) = n
  BY <1>0
<1>5. Filled(n)
  BY <1>3, <1>4 DEF R
<1> QED  BY <1>5 DEF Filled

\* Rows of some matches, kept from the newest on, for any limit on them.
NotNewer(rows, r) == {s \in rows : ~Newer(r, s)}
After(rows, r) == {s \in rows : Newer(s, r)}
Sure(rows, kept) == {r \in rows : Cardinality(NotNewer(rows, r)) <= kept}
Tied(rows, kept) == {r \in rows \ Sure(rows, kept) : Cardinality(After(rows, r)) < kept}

\* The rows are in the order of their matches.
LEMMA NewestFirst ==
    ASSUME NEW rows, IsFiniteSet(rows), \A r \in rows : r.match.id \in Nat
    PROVE  /\ \A r \in rows : /\ IsFiniteSet(NotNewer(rows, r)) /\ Cardinality(NotNewer(rows, r)) \in Nat
                              /\ IsFiniteSet(After(rows, r)) /\ Cardinality(After(rows, r)) \in Nat
                              /\ r \in NotNewer(rows, r)
           /\ \A r, s \in rows : Newer(r, s) =>
                /\ NotNewer(rows, r) \subseteq After(rows, s)
                /\ Cardinality(NotNewer(rows, r)) <= Cardinality(After(rows, s))
                /\ Cardinality(After(rows, r)) < Cardinality(After(rows, s))
           /\ \A r, s \in rows : ~Newer(s, r) =>
                Cardinality(NotNewer(rows, r)) <= Cardinality(NotNewer(rows, s))
<1>1. \A r \in rows : /\ IsFiniteSet(NotNewer(rows, r)) /\ Cardinality(NotNewer(rows, r)) \in Nat
                      /\ IsFiniteSet(After(rows, r)) /\ Cardinality(After(rows, r)) \in Nat
  BY FS_Subset, FS_CardinalityType DEF NotNewer, After
<1>2. \A r \in rows : r \in NotNewer(rows, r)
  BY DEF NotNewer, Newer
<1>3. ASSUME NEW r \in rows, NEW s \in rows, Newer(r, s)
      PROVE  /\ NotNewer(rows, r) \subseteq After(rows, s)
             /\ Cardinality(NotNewer(rows, r)) <= Cardinality(After(rows, s))
             /\ Cardinality(After(rows, r)) < Cardinality(After(rows, s))
  <2>1. NotNewer(rows, r) \subseteq After(rows, s)
    BY <1>3 DEF NotNewer, After, Newer
  <2>2. After(rows, r) \subseteq NotNewer(rows, r) /\ r \notin After(rows, r)
    BY DEF NotNewer, After, Newer
  <2>3. Cardinality(NotNewer(rows, r)) <= Cardinality(After(rows, s))
    BY <1>1, <2>1, FS_Subset
  <2>4. Cardinality(After(rows, r)) <= Cardinality(NotNewer(rows, r))
    BY <1>1, <2>2, FS_Subset
  <2>5. Cardinality(After(rows, r)) # Cardinality(NotNewer(rows, r))
    BY <1>1, <1>2, <2>2, FS_Subset
  <2> QED  BY <1>1, <2>1, <2>3, <2>4, <2>5
<1>4. ASSUME NEW r \in rows, NEW s \in rows, ~Newer(s, r)
      PROVE  Cardinality(NotNewer(rows, r)) <= Cardinality(NotNewer(rows, s))
  <2>1. NotNewer(rows, r) \subseteq NotNewer(rows, s)
    BY <1>4 DEF NotNewer, Newer
  <2> QED  BY <1>1, <2>1, FS_Subset
<1> QED  BY <1>1, <1>2, <1>3, <1>4

\* There is room for all rows that are sure, and enough that are tied to fill it.
LEMMA RoomForSure ==
    ASSUME NEW rows, IsFiniteSet(rows), \A r \in rows : r.match.id \in Nat,
           NEW kept \in Nat, kept <= Cardinality(rows)
    PROVE  /\ Cardinality(Sure(rows, kept)) \in Nat /\ Cardinality(Sure(rows, kept)) <= kept
           /\ kept <= Cardinality(Sure(rows, kept) \cup Tied(rows, kept))
<1> DEFINE sure == Sure(rows, kept)
           tied == Tied(rows, kept)
           late == rows \ (sure \cup tied)
<1>0. /\ sure \subseteq rows /\ tied \subseteq rows
      /\ IsFiniteSet(sure) /\ Cardinality(sure) \in Nat
      /\ IsFiniteSet(sure \cup tied) /\ Cardinality(sure \cup tied) \in Nat
  <2>1. sure \subseteq rows /\ tied \subseteq rows
    BY DEF Sure, Tied
  <2> HIDE DEF sure, tied
  <2> QED  BY <2>1, FS_Subset, FS_CardinalityType
<1>1. /\ \A r \in rows : /\ IsFiniteSet(NotNewer(rows, r)) /\ Cardinality(NotNewer(rows, r)) \in Nat
                         /\ IsFiniteSet(After(rows, r)) /\ Cardinality(After(rows, r)) \in Nat
      /\ \A r, s \in rows : Newer(r, s) => Cardinality(After(rows, r)) < Cardinality(After(rows, s))
  BY NewestFirst
<1>2. Cardinality(sure) <= kept
  <2>1. CASE sure = {}
    <3>1. Cardinality({}) = 0
      BY FS_EmptySet
    <3> HIDE DEF sure
    <3> QED  BY <2>1, <3>1
  <2>2. CASE sure # {}
    <3> DEFINE ids == {r.match.id : r \in sure}
    <3>1. ids \in SUBSET Nat /\ ids # {}
      BY <1>0, <2>2
    <3> HIDE DEF ids
    <3>2. PICK n \in ids : \A m \in ids : n <= m
      BY <3>1, LeastNumber
    <3>3. PICK r \in sure : n = r.match.id
      BY DEF ids
    <3>4. \A s \in sure : s.match.id \in ids
      BY DEF ids
    <3>5. sure \subseteq NotNewer(rows, r)
      BY <1>0, <3>2, <3>3, <3>4 DEF NotNewer, Newer
    <3>6. r \in rows /\ Cardinality(NotNewer(rows, r)) <= kept
      BY <3>3 DEF Sure
    <3> HIDE DEF sure
    <3>7. Cardinality(sure) <= Cardinality(NotNewer(rows, r))
      BY <1>1, <3>5, <3>6, FS_Subset
    <3> QED  BY <1>0, <1>1, <3>6, <3>7
  <2> QED  BY <2>1, <2>2
<1>3. kept <= Cardinality(sure \cup tied)
  <2>1. CASE late = {}
    <3>1. sure \cup tied = rows
      BY <1>0, <2>1
    <3> QED  BY <3>1
  <2>2. CASE late # {}
    <3> DEFINE numbers == {Cardinality(After(rows, r)) : r \in late}
    <3>1. numbers \in SUBSET Nat /\ numbers # {}
      BY <1>1, <2>2
    <3> HIDE DEF numbers
    <3>2. PICK n \in numbers : \A m \in numbers : n <= m
      BY <3>1, LeastNumber
    <3>3. PICK r \in late : n = Cardinality(After(rows, r))
      BY DEF numbers
    <3>4. \A s \in late : ~Newer(s, r)
      <4> TAKE s \in late
      <4>1. Cardinality(After(rows, s)) \in numbers
        BY DEF numbers
      <4>2. Cardinality(After(rows, r)) <= Cardinality(After(rows, s))
        BY <3>2, <3>3, <4>1
      <4> QED  BY <1>1, <4>2
    <3>5. After(rows, r) \subseteq sure \cup tied
      BY <3>4 DEF After
    <3>6. r \in rows /\ Cardinality(After(rows, r)) >= kept
      BY <1>1, <3>3 DEF Tied
    <3> HIDE DEF sure, tied, late
    <3>7. Cardinality(After(rows, r)) <= Cardinality(sure \cup tied)
      BY <1>0, <3>5, FS_Subset
    <3> QED  BY <1>0, <1>1, <3>6, <3>7
  <2> QED  BY <2>1, <2>2
<1> QED  BY <1>0, <1>2, <1>3

\* What is chosen from the newest rows with one limit is part of what may be
\* chosen with a higher one.
LEMMA HigherLimit ==
    ASSUME NEW rows, IsFiniteSet(rows), \A r \in rows : r.match.id \in Nat,
           NEW kept \in Nat, NEW more \in Nat, kept <= more, more <= Cardinality(rows),
           NEW t \in kSubset(kept - Cardinality(Sure(rows, kept)), Tied(rows, kept))
    PROVE  \E u \in kSubset(more - Cardinality(Sure(rows, more)), Tied(rows, more)) :
             Sure(rows, kept) \cup t \subseteq Sure(rows, more) \cup u
<1> DEFINE sure == Sure(rows, kept)
           tied == Tied(rows, kept)
           Sure2 == Sure(rows, more)
           tied2 == Tied(rows, more)
           n == Cardinality(rows)
<1>0. n \in Nat
  BY FS_CardinalityType
<1>1. /\ \A r \in rows : /\ Cardinality(NotNewer(rows, r)) \in Nat /\ Cardinality(After(rows, r)) \in Nat
      /\ \A r, s \in rows : Newer(r, s) => Cardinality(NotNewer(rows, r)) <= Cardinality(After(rows, s))
      /\ \A r, s \in rows : ~Newer(s, r) => Cardinality(NotNewer(rows, r)) <= Cardinality(NotNewer(rows, s))
  BY NewestFirst
<1>2. /\ t \subseteq tied /\ Cardinality(t) = kept - Cardinality(sure)
      /\ sure \subseteq rows /\ tied \subseteq rows /\ Sure2 \subseteq rows /\ tied2 \subseteq rows
      /\ sure \cap tied = {} /\ Sure2 \cap tied2 = {}
  BY DEF kSubset, Sure, Tied
<1>3. sure \subseteq Sure2
  BY <1>1 DEF Sure
<1>4. t \subseteq Sure2 \cup tied2
  BY <1>1, <1>2 DEF Tied
<1>5. /\ Cardinality(sure) \in Nat /\ Cardinality(sure) <= kept
      /\ Cardinality(Sure2) \in Nat /\ Cardinality(Sure2) <= more
      /\ more <= Cardinality(Sure2 \cup tied2)
  <2>1. kept <= Cardinality(rows) /\ more <= Cardinality(rows)
    BY <1>0
  <2>2. Cardinality(Sure(rows, kept)) \in Nat /\ Cardinality(Sure(rows, kept)) <= kept
    BY <2>1, RoomForSure, Zenon
  <2>3. /\ Cardinality(Sure(rows, more)) \in Nat /\ Cardinality(Sure(rows, more)) <= more
        /\ more <= Cardinality(Sure(rows, more) \cup Tied(rows, more))
    BY <2>1, RoomForSure, Zenon
  <2> QED  BY <2>2, <2>3
<1>6. t \subseteq Sure2 \/ Sure2 = sure
  <2> SUFFICES ASSUME NEW y \in Sure2, y \notin sure, NEW r \in t PROVE r \in Sure2
    BY <1>3
  <2>1. y \in rows /\ Cardinality(NotNewer(rows, y)) <= more /\ ~(Cardinality(NotNewer(rows, y)) <= kept)
    BY DEF Sure
  <2>2. r \in rows /\ Cardinality(After(rows, r)) < kept
    BY <1>2 DEF Tied
  <2>3. ~Newer(y, r)
    BY <1>1, <2>1, <2>2
  <2>4. Cardinality(NotNewer(rows, r)) <= more
    BY <1>1, <2>1, <2>2, <2>3
  <2> QED  BY <2>2, <2>4 DEF Sure
<1>7. /\ IsFiniteSet(Sure2) /\ IsFiniteSet(tied2) /\ IsFiniteSet(t \ Sure2) /\ IsFiniteSet(t)
      /\ Cardinality(t \ Sure2) \in Nat /\ Cardinality(tied2) \in Nat /\ Cardinality(t) \in Nat
  <2> HIDE DEF sure, tied, Sure2, tied2
  <2>1. IsFiniteSet(Sure2) /\ IsFiniteSet(tied2) /\ IsFiniteSet(t)
    BY <1>2, FS_Subset
  <2> QED  BY <2>1, FS_Subset, FS_CardinalityType
<1>8. Cardinality(Sure2 \cup tied2) = Cardinality(Sure2) + Cardinality(tied2)
  <2>1. Cardinality({}) = 0
    BY FS_EmptySet
  <2> HIDE DEF Sure2, tied2
  <2>2. Cardinality(Sure2 \cup tied2) = Cardinality(Sure2) + Cardinality(tied2) - Cardinality(Sure2 \cap tied2)
    BY <1>7, FS_Union
  <2>3. Cardinality(Sure2 \cap tied2) = 0
    BY <1>2, <2>1
  <2> QED  BY <1>5, <1>7, <2>2, <2>3
<1> DEFINE room == more - Cardinality(Sure2)
<1>9. room \in Nat /\ room <= Cardinality(tied2)
  BY <1>5, <1>7, <1>8
<1>10. Cardinality(t \ Sure2) <= room
  <2>1. CASE t \subseteq Sure2
    <3>1. t \ Sure2 = {} /\ Cardinality({}) = 0
      BY <2>1, FS_EmptySet
    <3> HIDE DEF Sure2, room
    <3> QED  BY <1>9, <3>1
  <2>2. CASE Sure2 = sure
    <3>1. t \ Sure2 = t
      BY <1>2, <2>2
    <3>2. Cardinality(t \ Sure2) = kept - Cardinality(sure) /\ room = more - Cardinality(sure)
      BY <1>2, <2>2, <3>1
    <3> HIDE DEF Sure2, sure, room
    <3> QED  BY <1>5, <3>2
  <2> HIDE DEF Sure2, sure
  <2> QED  BY <1>6, <2>1, <2>2
<1>11. t \ Sure2 \in SUBSET tied2
  BY <1>4
<1> HIDE DEF sure, tied, Sure2, tied2, room
<1>12. PICK u \in SUBSET tied2 : t \ Sure2 \subseteq u /\ Cardinality(u) = room
  <2> DEFINE missing == t \ Sure2
  <2>1. IsFiniteSet(tied2) /\ missing \in SUBSET tied2 /\ room \in Nat
    BY <1>7, <1>9, <1>11
  <2>2. Cardinality(missing) <= room /\ room <= Cardinality(tied2)
    BY <1>9, <1>10
  <2> HIDE DEF missing
  <2>3. \E u \in SUBSET tied2 : missing \subseteq u /\ Cardinality(u) = room
    BY <2>1, <2>2, SubsetOfSize
  <2> QED  BY <2>3 DEF missing
<1>13. u \in kSubset(room, tied2)
  BY <1>12 DEF kSubset
<1>14. sure \cup t \subseteq Sure2 \cup u
  BY <1>3, <1>12
<1> QED  BY <1>13, <1>14 DEF sure, Sure2, tied2, room

\* How many rows are kept.
Room(q) == IF q.maxMatches = {} THEN Cardinality(MetricRows(q)) ELSE Min(q.maxMatches \cup {Cardinality(MetricRows(q))})

LEMMA SomeAnalyzed ==
    ASSUME NEW q
    PROVE  Analyzed(q) = {Sure(MetricRows(q), Room(q)) \cup t :
                            t \in kSubset(Room(q) - Cardinality(Sure(MetricRows(q), Room(q))), Tied(MetricRows(q), Room(q)))}
  BY DEF Analyzed, Room, Sure, Tied, NotNewer, After

LEMMA LeastOfTwo ==
    ASSUME NEW n \in Nat, NEW m \in Nat
    PROVE  Min({n} \cup {m}) = (IF n <= m THEN n ELSE m)
<1> DEFINE l == IF n <= m THEN n ELSE m
<1>1. l \in {n} \cup {m} /\ \A y \in {n} \cup {m} : l <= y
  OBVIOUS
<1>2. \A x \in {n} \cup {m} : (\A y \in {n} \cup {m} : x <= y) => x = l
  OBVIOUS
<1> HIDE DEF l
<1>3. Min({n} \cup {m}) = l
  BY <1>1, <1>2 DEF Min
<1> QED  BY <1>3 DEF l

LEMMA NewestKept == Tables => LimitKeepsNewest
<1> SUFFICES ASSUME Tables, NEW q \in MetricQueries, q.maxMatches # {}, NEW chosen \in Analyzed(q)
             PROVE  LET newest == {r.match.id : r \in chosen}
                    IN  /\ \A r \in MetricRows(q) : newest # {} /\ r.match.id > Min(newest) => r \in chosen
                        /\ \E more \in Analyzed([q EXCEPT !.maxMatches = {n + 1 : n \in @}]) : chosen \subseteq more
  BY DEF LimitKeepsNewest
<1> DEFINE rows == MetricRows(q)
           n == Cardinality(rows)
           kept == Room(q)
           newest == {r.match.id : r \in chosen}
<1>1. IsFiniteSet(rows) /\ n \in Nat /\ \A r \in rows : r.match.id \in Nat
  <2>1. IsFiniteSet(rows) /\ \A r \in rows : MetricColumns(r)
    BY MetricRowsFinite
  <2> QED  BY <2>1, FS_CardinalityType DEF MetricColumns
<1>2. PICK limit \in Nat : q.maxMatches = {limit}
  <2>1. PICK limit \in q.maxMatches : TRUE
    OBVIOUS
  <2> QED  BY <2>1, MetricQueriesAssumption
<1>3. kept = IF limit <= n THEN limit ELSE n
  <2>1. Min({limit} \cup {n}) = IF limit <= n THEN limit ELSE n
    <3> HIDE DEF n
    <3> QED  BY <1>1, LeastOfTwo
  <2> QED  BY <1>2, <2>1 DEF Room
<1>4. PICK t \in kSubset(kept - Cardinality(Sure(rows, kept)), Tied(rows, kept)) : chosen = Sure(rows, kept) \cup t
  BY SomeAnalyzed, Zenon
<1> HIDE DEF rows, kept
<1>5. /\ chosen \subseteq rows /\ t \subseteq Tied(rows, kept)
  BY <1>4 DEF kSubset, Sure, Tied
<1>6. ASSUME NEW r \in rows, newest # {}, r.match.id > Min(newest)
      PROVE  r \in chosen
  <2>1. newest \in SUBSET Nat
    BY <1>1, <1>5
  <2>2. \E m \in newest : \A l \in newest : m <= l
    BY <1>6, <2>1, LeastNumber
  <2>3. Min(newest) \in newest
    BY <2>2 DEF Min
  <2>4. PICK s \in chosen : Min(newest) = s.match.id
    BY <2>3
  <2>5. s \in rows /\ Newer(r, s)
    BY <1>5, <1>6, <2>4 DEF Newer
  <2>6. /\ Cardinality(NotNewer(rows, r)) \in Nat /\ Cardinality(NotNewer(rows, s)) \in Nat /\ Cardinality(After(rows, s)) \in Nat
        /\ Cardinality(NotNewer(rows, r)) <= Cardinality(After(rows, s))
        /\ ~Newer(s, r) => Cardinality(NotNewer(rows, r)) <= Cardinality(NotNewer(rows, s))
    BY <1>1, <2>5, NewestFirst
  <2>7. ~Newer(s, r)
    BY <1>1, <2>5 DEF Newer
  <2>8. kept \in Nat
    BY <1>1, <1>3
  <2>9. CASE s \in Sure(rows, kept)
    BY <1>4, <2>6, <2>7, <2>8, <2>9 DEF Sure
  <2>10. CASE s \in t
    <3>1. Cardinality(After(rows, s)) < kept
      BY <1>5, <2>10 DEF Tied
    <3> QED  BY <1>4, <2>6, <2>8, <3>1 DEF Sure
  <2> QED  BY <1>4, <2>4, <2>9, <2>10
<1>7. \E more \in Analyzed([q EXCEPT !.maxMatches = {m + 1 : m \in @}]) : chosen \subseteq more
  <2> DEFINE l == [q EXCEPT !.maxMatches = {m + 1 : m \in @}]
  <2>1. /\ l.maxMatches = {limit + 1} /\ l.info = q.info /\ l.accounts = q.accounts /\ l.heroes = q.heroes
        /\ l.minWorth = q.minWorth /\ l.maxWorth = q.maxWorth
        /\ l.include = q.include /\ l.exclude = q.exclude
    BY <1>2, MetricQueriesAssumption DEF PlayerStatsMetricsQuery
  <2> HIDE DEF l
  <2>2. MetricRows(l) = rows
    BY <2>1 DEF MetricRows, MetricMatches, Passing, rows
  <2> DEFINE more == Room(l)
  <2>3. more = IF limit + 1 <= n THEN limit + 1 ELSE n
    <3>1. Min({limit + 1} \cup {n}) = IF limit + 1 <= n THEN limit + 1 ELSE n
      <4>1. n \in Nat /\ limit + 1 \in Nat
        BY <1>1
      <4> HIDE DEF n
      <4> QED  BY <4>1, LeastOfTwo, Zenon
    <3> QED  BY <2>1, <2>2, <3>1 DEF Room
  <2>4. kept \in Nat /\ more \in Nat /\ kept <= more /\ more <= n
    BY <1>1, <1>3, <2>3
  <2> HIDE DEF more
  <2>5. PICK u \in kSubset(more - Cardinality(Sure(rows, more)), Tied(rows, more)) :
          Sure(rows, kept) \cup t \subseteq Sure(rows, more) \cup u
    BY <1>1, <2>4, HigherLimit
  <2>6. Sure(rows, more) \cup u \in Analyzed(l)
    BY <2>2, SomeAnalyzed DEF more
  <2> QED  BY <1>4, <2>5, <2>6 DEF l
<1> QED  BY <1>6, <1>7 DEF rows

\* Curves are made of finer ones, metrics add up and stand at their levels, and
\* the newest rows are kept.
THEOREM PerformanceDoesFit == TablesSpec => []PerformanceFits
<1>1. Tables => PerformanceFits
  BY CurvesTogether, MetricsAdd, PercentilesStand, NewestKept DEF PerformanceFits
<1> QED  BY <1>1, TablesGrow, PTL

----------------------------------------------------------------------------
\* Scoreboards

\* Fractions are ordered by their values.
Fraction == {<<n, d>> : n \in Nat, d \in Nat \ {0}}

LEMMA FractionsCompare ==
    ASSUME NEW x \in Fraction, NEW y \in Fraction, NEW z \in Fraction
    PROVE  /\ ~Below(x, x)
           /\ ~(Below(x, y) /\ Below(y, x))
           /\ Below(x, y) /\ ~Below(z, y) => Below(x, z)
           /\ ~Below(y, x) /\ Below(y, z) => Below(x, z)
           /\ ~Below(y, x) /\ ~Below(z, y) => ~Below(z, x)
<1> DEFINE a == x[1] * y[2]
           b == y[1] * x[2]
           c == y[1] * z[2]
           d == z[1] * y[2]
           e == x[1] * z[2]
           f == z[1] * x[2]
<1>1. /\ x[1] \in Nat /\ x[2] \in Nat \ {0} /\ y[1] \in Nat /\ y[2] \in Nat \ {0}
      /\ z[1] \in Nat /\ z[2] \in Nat \ {0}
  BY DEF Fraction
<1>2. a \in Nat /\ b \in Nat /\ c \in Nat /\ d \in Nat /\ e \in Nat /\ f \in Nat
  BY <1>1
<1>3. a * z[2] = e * y[2] /\ b * z[2] = c * x[2] /\ d * x[2] = f * y[2]
  BY <1>1
<1>4. /\ Below(x, y) <=> a < b
      /\ Below(y, x) <=> b < a
      /\ Below(y, z) <=> c < d
      /\ Below(z, y) <=> d < c
      /\ Below(x, z) <=> e < f
      /\ Below(z, x) <=> f < e
      /\ ~Below(x, x)
  BY <1>1 DEF Below
<1> HIDE DEF a, b, c, d, e, f
<1> DEFINE u == x[2]
           v == y[2]
           w == z[2]
<1>5. u \in Nat \ {0} /\ v \in Nat \ {0} /\ w \in Nat \ {0} /\ a * w = e * v /\ b * w = c * u /\ d * u = f * v
  BY <1>1, <1>3
<1> HIDE DEF u, v, w
<1>6. ASSUME a <= b, c <= d
      PROVE  /\ e <= f
             /\ a < b \/ c < d => e < f
  <2>1. a * w <= b * w /\ c * u <= d * u
    BY <1>2, <1>5, <1>6
  <2>2. a < b => a * w < b * w
    BY <1>2, <1>5
  <2>3. c < d => c * u < d * u
    BY <1>2, <1>5
  <2>4. a * w \in Nat /\ b * w \in Nat /\ c * u \in Nat /\ d * u \in Nat
    BY <1>2, <1>5
  <2>5. e * v <= f * v /\ (a < b \/ c < d => e * v < f * v)
    BY <1>5, <2>1, <2>2, <2>3, <2>4
  <2>6. e * v <= f * v => e <= f
    BY <1>2, <1>5
  <2>7. e * v < f * v => e < f
    BY <1>2, <1>5
  <2> QED  BY <2>5, <2>6, <2>7
<1> QED  BY <1>2, <1>4, <1>6

\* Entries that can be put in order.
Entries(E) ==
    /\ IsFiniteSet(E)
    /\ \A x \in E : x.value \in Fraction /\ x.of \in DOMAIN Stored
    /\ \A x, y \in E : x.of = y.of => x = y

LEMMA BeforeOrders ==
    ASSUME NEW E, Entries(E), NEW down \in BOOLEAN
    PROVE  /\ \A x \in E : ~Before(x, x, down)
           /\ \A x, y \in E : x # y => Before(x, y, down) \/ Before(y, x, down)
           /\ \A x, y, z \in E : Before(x, y, down) /\ Before(y, z, down) => Before(x, z, down)
<1> DEFINE lower == IF down THEN {p \in E \X E : Below(p[2].value, p[1].value)}
                            ELSE {p \in E \X E : Below(p[1].value, p[2].value)}
           at == [x \in E |-> Stored[x.of]]
           before == {p \in E \X E : Before(p[1], p[2], down)}
<1>1. \A x, y \in E : /\ <<x, y>> \in before <=> Before(x, y, down)
                      /\ <<x, y>> \in before <=> \/ <<x, y>> \in lower
                                                 \/ <<x, y>> \notin lower /\ <<y, x>> \notin lower /\ at[x] < at[y]
  <2> TAKE x, y \in E
  <2>0. /\ <<x, y>> \in E \X E /\ <<y, x>> \in E \X E /\ <<x, y>>[1] = x /\ <<x, y>>[2] = y
        /\ <<y, x>>[1] = y /\ <<y, x>>[2] = x
    OBVIOUS
  <2>1. <<x, y>> \in before <=> Before(x, y, down)
    <3> HIDE DEF lower, at
    <3> QED  BY <2>0
  <2>2. at[x] = Stored[x.of] /\ at[y] = Stored[y.of]
    OBVIOUS
  <2> HIDE DEF before, at
  <2>3. CASE down = TRUE
    <3>1. lower = {p \in E \X E : Below(p[2].value, p[1].value)}
      BY <2>3, Zenon
    <3> HIDE DEF lower
    <3>2. (<<x, y>> \in lower <=> Below(y.value, x.value)) /\ (<<y, x>> \in lower <=> Below(x.value, y.value))
      BY <2>0, <3>1
    <3>3. Before(x, y, down) <=> \/ Below(y.value, x.value)
                                 \/ ~Below(y.value, x.value) /\ ~Below(x.value, y.value) /\ Stored[x.of] < Stored[y.of]
      BY <2>3 DEF Before
    <3> QED  BY <2>1, <2>2, <3>2, <3>3
  <2>4. CASE down = FALSE
    <3>1. lower = {p \in E \X E : Below(p[1].value, p[2].value)}
      BY <2>4, Zenon
    <3> HIDE DEF lower
    <3>2. (<<x, y>> \in lower <=> Below(x.value, y.value)) /\ (<<y, x>> \in lower <=> Below(y.value, x.value))
      BY <2>0, <3>1
    <3>3. Before(x, y, down) <=> \/ Below(x.value, y.value)
                                 \/ ~Below(y.value, x.value) /\ ~Below(x.value, y.value) /\ Stored[x.of] < Stored[y.of]
      BY <2>4 DEF Before
    <3> QED  BY <2>1, <2>2, <3>2, <3>3
  <2>5. down = TRUE \/ down = FALSE
    OBVIOUS
  <2> QED  BY <2>3, <2>4, <2>5
<1>2. \A x, y, z \in E : /\ <<x, x>> \notin lower
                         /\ <<x, y>> \notin lower \/ <<y, x>> \notin lower
                         /\ <<x, y>> \in lower /\ <<z, y>> \notin lower => <<x, z>> \in lower
                         /\ <<y, x>> \notin lower /\ <<y, z>> \in lower => <<x, z>> \in lower
                         /\ <<y, x>> \notin lower /\ <<z, y>> \notin lower => <<z, x>> \notin lower
  <2> TAKE x, y, z \in E
  <2>1. x.value \in Fraction /\ y.value \in Fraction /\ z.value \in Fraction
    BY DEF Entries
  <2>2. CASE down = TRUE
    <3>1. \A a, b \in E : <<a, b>> \in lower <=> Below(b.value, a.value)
      <4>1. lower = {p \in E \X E : Below(p[2].value, p[1].value)}
        BY <2>2, Zenon
      <4> HIDE DEF lower
      <4> QED  BY <4>1
    <3> HIDE DEF lower
    <3> QED  BY <2>1, <3>1, FractionsCompare
  <2>3. CASE down = FALSE
    <3>1. \A a, b \in E : <<a, b>> \in lower <=> Below(a.value, b.value)
      <4>1. lower = {p \in E \X E : Below(p[1].value, p[2].value)}
        BY <2>3, Zenon
      <4> HIDE DEF lower
      <4> QED  BY <4>1
    <3> HIDE DEF lower
    <3> QED  BY <2>1, <3>1, FractionsCompare
  <2>4. down = TRUE \/ down = FALSE
    OBVIOUS
  <2> QED  BY <2>2, <2>3, <2>4
<1>3. \A x, y \in E : at[x] \in Nat /\ at[y] \in Nat /\ (at[x] = at[y] => x = y)
  BY StoredAssumption DEF Entries
<1> HIDE DEF lower, at, before
<1>4. \A x \in E : <<x, x>> \notin before
  BY <1>1, <1>2, <1>3
<1>5. \A x, y \in E : x # y => <<x, y>> \in before \/ <<y, x>> \in before
  <2> TAKE x, y \in E
  <2>1. x # y => at[x] < at[y] \/ at[y] < at[x]
    BY <1>3
  <2> QED  BY <1>1, <2>1
<1>6. \A x, y, z \in E : <<x, y>> \in before /\ <<y, z>> \in before => <<x, z>> \in before
  <2> TAKE x, y, z \in E
  <2>1. /\ <<x, y>> \in lower /\ <<z, y>> \notin lower => <<x, z>> \in lower
        /\ <<y, x>> \notin lower /\ <<y, z>> \in lower => <<x, z>> \in lower
        /\ <<y, x>> \notin lower /\ <<z, y>> \notin lower => <<z, x>> \notin lower
        /\ <<y, z>> \notin lower /\ <<x, y>> \notin lower => <<x, z>> \notin lower
        /\ <<x, y>> \notin lower \/ <<y, x>> \notin lower
        /\ <<y, z>> \notin lower \/ <<z, y>> \notin lower
    BY <1>2
  <2>2. at[x] < at[y] /\ at[y] < at[z] => at[x] < at[z]
    BY <1>3
  <2>3. /\ <<x, y>> \in before <=> \/ <<x, y>> \in lower
                                   \/ <<x, y>> \notin lower /\ <<y, x>> \notin lower /\ at[x] < at[y]
        /\ <<y, z>> \in before <=> \/ <<y, z>> \in lower
                                   \/ <<y, z>> \notin lower /\ <<z, y>> \notin lower /\ at[y] < at[z]
        /\ <<x, z>> \in before <=> \/ <<x, z>> \in lower
                                   \/ <<x, z>> \notin lower /\ <<z, x>> \notin lower /\ at[x] < at[z]
    BY <1>1
  <2> QED  BY <2>1, <2>2, <2>3
<1> QED  BY <1>1, <1>4, <1>5, <1>6

\* Every entry is at the place that as many as are before it leave to it.
LEMMA OrderedPlaces ==
    ASSUME NEW E, Entries(E), NEW down \in BOOLEAN
    PROVE  LET n == Cardinality(E)
               s == Ordered(E, down)
               before(e) == {x \in E : Before(x, e, down)}
           IN  /\ n \in Nat /\ s \in Seq(E) /\ Len(s) = n /\ DOMAIN s = 1 .. n
               /\ \A k \in 1 .. n : s[k] \in E /\ Cardinality(before(s[k])) = k - 1
<1> DEFINE n == Cardinality(E)
           s == Ordered(E, down)
           before(e) == {x \in E : Before(x, e, down)}
           place == [e \in E |-> Cardinality(before(e))]
<1>0. IsFiniteSet(E) /\ n \in Nat
  BY FS_CardinalityType DEF Entries
<1>1. \A e \in E : /\ IsFiniteSet(before(e)) /\ Cardinality(before(e)) \in Nat
                   /\ before(e) \subseteq E /\ e \notin before(e)
  BY <1>0, BeforeOrders, FS_Subset, FS_CardinalityType
<1>2. \A e \in E : Cardinality(before(e)) \in 0 .. n - 1
  <2> TAKE e \in E
  <2>1. Cardinality(before(e)) <= n /\ Cardinality(before(e)) # n
    <3> HIDE DEF before
    <3> QED  BY <1>0, <1>1, FS_Subset
  <2> QED  BY <1>0, <1>1, <2>1
<1>3. ASSUME NEW x \in E, NEW y \in E, Before(x, y, down)
      PROVE  Cardinality(before(x)) < Cardinality(before(y))
  <2>1. before(x) \subseteq before(y)
    BY <1>3, BeforeOrders
  <2>2. x \in before(y) /\ x \notin before(x)
    BY <1>1, <1>3
  <2> HIDE DEF before
  <2>3. Cardinality(before(x)) <= Cardinality(before(y)) /\ Cardinality(before(x)) # Cardinality(before(y))
    BY <1>1, <2>1, <2>2, FS_Subset
  <2> QED  BY <1>1, <2>3
<1>4. \A x, y \in E : place[x] = place[y] => x = y
  <2> TAKE x, y \in E
  <2>1. x # y => Before(x, y, down) \/ Before(y, x, down)
    BY BeforeOrders
  <2>2. Before(x, y, down) => Cardinality(before(x)) < Cardinality(before(y))
    BY <1>3
  <2>3. Before(y, x, down) => Cardinality(before(y)) < Cardinality(before(x))
    BY <1>3
  <2>4. place[x] = Cardinality(before(x)) /\ place[y] = Cardinality(before(y))
    OBVIOUS
  <2> HIDE DEF place, before
  <2> QED  BY <1>1, <2>1, <2>2, <2>3, <2>4
<1>5. {place[e] : e \in E} = 0 .. n - 1
  <2>1. {place[e] : e \in E} \subseteq 0 .. n - 1
    BY <1>2
  <2>2. IsFiniteSet(0 .. n - 1) /\ Cardinality(0 .. n - 1) = n
    <3>1. 0 \in Int /\ n - 1 \in Int
      BY <1>0
    <3>2. IsFiniteSet(0 .. n - 1) /\ Cardinality(0 .. n - 1) = IF 0 > n - 1 THEN 0 ELSE (n - 1) - 0 + 1
      <4> HIDE DEF n
      <4> QED  BY <3>1, FS_Interval
    <3> HIDE DEF n
    <3> QED  BY <1>0, <3>2
  <2>3. Cardinality({place[e] : e \in E}) = n
    <3> HIDE DEF place
    <3> QED  BY <1>0, <1>4, CountImage
  <2> HIDE DEF place, n
  <2> QED  BY <2>1, <2>2, <2>3, FS_Subset
<1>6. \A k \in 1 .. n : \E e \in E : Cardinality(before(e)) = k - 1
  <2> TAKE k \in 1 .. n
  <2>1. k - 1 \in {place[e] : e \in E}
    <3>1. k - 1 \in 0 .. n - 1
      <4> HIDE DEF n
      <4> QED  BY <1>0
    <3> HIDE DEF place, n
    <3> QED  BY <1>5, <3>1
  <2> QED  BY <2>1
<1>7. s = [k \in 1 .. n |-> CHOOSE e \in E : Cardinality(before(e)) = k - 1]
  BY DEF Ordered
<1> HIDE DEF before, s, n
<1>8. \A k \in 1 .. n : s[k] \in E /\ Cardinality(before(s[k])) = k - 1
  BY <1>6, <1>7
<1>9. s \in Seq(E) /\ Len(s) = n /\ DOMAIN s = 1 .. n
  BY <1>0, <1>7, <1>8
<1> QED  BY <1>0, <1>8, <1>9 DEF s, n, before

\* Whoever is at a place from above has the value of whoever is there from below.
LEMMA TurnedRound ==
    ASSUME NEW E, Entries(E)
    PROVE  LET n == Cardinality(E)
               down == Ordered(E, TRUE)
               up == Ordered(E, FALSE)
           IN  \A k \in 1 .. n :
                  /\ ~Below(down[k].value, up[n - k + 1].value)
                  /\ ~Below(up[n - k + 1].value, down[k].value)
<1> DEFINE n == Cardinality(E)
           down == Ordered(E, TRUE)
           up == Ordered(E, FALSE)
<1> SUFFICES ASSUME NEW k \in 1 .. n
             PROVE  /\ ~Below(down[k].value, up[n - k + 1].value)
                    /\ ~Below(up[n - k + 1].value, down[k].value)
  OBVIOUS
<1> DEFINE x == down[k]
           z == up[n - k + 1]
           above == {y \in E : Before(y, x, TRUE)}
           under == {y \in E : Before(y, z, FALSE)}
<1>0. IsFiniteSet(E) /\ n \in Nat
  BY FS_CardinalityType DEF Entries
<1>1. x \in E /\ Cardinality(above) = k - 1
  BY OrderedPlaces, Zenon
<1>2. z \in E /\ Cardinality(under) = n - k
  <2>1. n - k + 1 \in 1 .. n /\ (n - k + 1) - 1 = n - k
    BY <1>0
  <2>2. \A l \in 1 .. n : up[l] \in E /\ Cardinality({y \in E : Before(y, up[l], FALSE)}) = l - 1
    BY OrderedPlaces, Zenon
  <2> HIDE DEF up
  <2> QED  BY <2>1, <2>2
<1> HIDE DEF x, z, down, up
<1>3. \A y \in E : y.value \in Fraction
  BY DEF Entries
<1>4. \A y \in E : /\ Before(y, x, TRUE) => ~Below(y.value, x.value)
                   /\ Below(x.value, y.value) => Before(y, x, TRUE)
                   /\ Before(y, z, FALSE) => ~Below(z.value, y.value)
                   /\ Below(y.value, z.value) => Before(y, z, FALSE)
  <2> TAKE y \in E
  <2>1. ~(Below(x.value, y.value) /\ Below(y.value, x.value)) /\ ~(Below(z.value, y.value) /\ Below(y.value, z.value))
    BY <1>1, <1>2, <1>3, FractionsCompare
  <2> QED  BY <2>1 DEF Before
<1>5. above \subseteq E /\ under \subseteq E /\ IsFiniteSet(above) /\ IsFiniteSet(under)
  BY <1>0, FS_Subset
<1>6. ASSUME Below(x.value, z.value) PROVE FALSE
  <2>1. E \subseteq above \cup under
    <3> SUFFICES ASSUME NEW y \in E, y \notin above, y \notin under PROVE FALSE
      OBVIOUS
    <3>1. ~Below(x.value, y.value) /\ ~Below(y.value, z.value)
      BY <1>4
    <3> QED  BY <1>1, <1>2, <1>3, <1>6, <3>1, FractionsCompare
  <2>2. Cardinality(above \cup under) = Cardinality(above) + Cardinality(under) - Cardinality(above \cap under)
    <3> HIDE DEF above, under
    <3> QED  BY <1>5, FS_Union
  <2>3. Cardinality(above \cap under) \in Nat
    <3> HIDE DEF above, under
    <3> QED  BY <1>5, FS_Subset, FS_CardinalityType
  <2>4. above \cup under = E
    BY <2>1
  <2> HIDE DEF above, under
  <2>5. Cardinality(above \cup under) = n
    BY <2>4
  <2> HIDE DEF n
  <2> QED  BY <1>0, <1>1, <1>2, <2>2, <2>3, <2>5
<1>7. ASSUME Below(z.value, x.value) PROVE FALSE
  <2>1. above \cap under = {}
    <3> SUFFICES ASSUME NEW y \in above, y \in under PROVE FALSE
      OBVIOUS
    <3>1. ~Below(y.value, x.value) /\ ~Below(z.value, y.value) /\ y \in E
      BY <1>4
    <3> QED  BY <1>1, <1>2, <1>3, <1>7, <3>1, FractionsCompare
  <2>2. ~Before(x, x, TRUE) /\ ~Before(z, z, FALSE)
    BY <1>1, <1>2, BeforeOrders
  <2>3. ~Before(x, z, FALSE) /\ ~Before(z, x, TRUE)
    BY <1>1, <1>2, <1>4, <1>7
  <2>4. x # z
    BY <1>1, <1>3, <1>7, FractionsCompare
  <2>5. x \notin above \cup under /\ z \notin above \cup under
    BY <2>2, <2>3
  <2>6. Cardinality(above \cup under) = Cardinality(above) + Cardinality(under) - Cardinality(above \cap under)
    <3> HIDE DEF above, under
    <3> QED  BY <1>5, FS_Union
  <2>7. Cardinality({}) = 0
    BY FS_EmptySet
  <2> HIDE DEF above, under
  <2>8. IsFiniteSet(above \cup under) /\ IsFiniteSet((above \cup under) \cup {x})
    BY <1>5, FS_Union, FS_AddElement
  <2>9. Cardinality((above \cup under) \cup {x}) = Cardinality(above \cup under) + 1
    BY <2>5, <2>8, FS_AddElement
  <2>10. Cardinality(((above \cup under) \cup {x}) \cup {z}) = Cardinality((above \cup under) \cup {x}) + 1
    BY <2>4, <2>5, <2>8, FS_AddElement
  <2>11. ((above \cup under) \cup {x}) \cup {z} \in SUBSET E
    BY <1>1, <1>2, <1>5
  <2>12. Cardinality(((above \cup under) \cup {x}) \cup {z}) <= n
    BY <1>0, <2>11, FS_Subset
  <2>13. Cardinality(above \cup under) = Cardinality(above) + Cardinality(under)
    <3>1. Cardinality(above \cap under) = 0
      BY <2>1, <2>7
    <3>2. Cardinality(above) \in Nat /\ Cardinality(under) \in Nat
      BY <1>5, FS_CardinalityType
    <3> QED  BY <2>6, <3>1, <3>2
  <2>14. Cardinality(above \cup under) + 2 <= n
    <3>1. Cardinality(above \cup under) \in Nat
      BY <2>8, FS_CardinalityType
    <3> HIDE DEF n
    <3> QED  BY <2>9, <2>10, <2>12, <3>1
  <2> HIDE DEF n
  <2> QED  BY <1>0, <1>1, <1>2, <2>13, <2>14
<1> QED  BY <1>6, <1>7 DEF x, z, down, up

\* A finite set of numbers has a largest and a least.
LEMMA ExtremesThere ==
    ASSUME NEW S \in SUBSET Int, IsFiniteSet(S), S # {}
    PROVE  /\ Max(S) \in S /\ \A y \in S : Max(S) >= y
           /\ Min(S) \in S /\ \A y \in S : Min(S) <= y
<1> DEFINE T == {A \in SUBSET S : A # {} => /\ \E x \in A : \A y \in A : x >= y
                                           /\ \E x \in A : \A y \in A : x <= y}
<1>1. {} \in T
  OBVIOUS
<1>2. ASSUME NEW A \in SUBSET S, NEW x \in S, A \in T, x \notin A PROVE A \cup {x} \in T
  <2>1. CASE A = {}
    BY <2>1
  <2>2. CASE A # {}
    <3>1. PICK z \in A : \A y \in A : z >= y
      BY <1>2, <2>2
    <3>2. PICK w \in A : \A y \in A : w <= y
      BY <1>2, <2>2
    <3>3. \E u \in A \cup {x} : \A y \in A \cup {x} : u >= y
      <4>1. CASE z >= x
        BY <3>1, <4>1
      <4>2. CASE x > z
        BY <3>1, <4>2
      <4> QED  BY <4>1, <4>2
    <3>4. \E u \in A \cup {x} : \A y \in A \cup {x} : u <= y
      <4>1. CASE w <= x
        BY <3>2, <4>1
      <4>2. CASE x < w
        BY <3>2, <4>2
      <4> QED  BY <4>1, <4>2
    <3> QED  BY <3>3, <3>4
  <2> QED  BY <2>1, <2>2
<1>3. SUBSET S \subseteq T
  <2> HIDE DEF T
  <2> QED  BY <1>1, <1>2, SubsetsFromEmpty
<1>4. (\E x \in S : \A y \in S : x >= y) /\ (\E x \in S : \A y \in S : x <= y)
  BY <1>3
<1> QED  BY <1>4 DEF Max, Min

LEMMA LargestThere ==
    ASSUME NEW S \in SUBSET Nat, IsFiniteSet(S), S # {}
    PROVE  Max(S) \in S /\ \A y \in S : Max(S) >= y
<1>1. S \in SUBSET Int
  OBVIOUS
<1> QED  BY <1>1, ExtremesThere

\* Kills are never negative.
LEMMA KillsNatural ==
    ASSUME NEW rows, IsFiniteSet(rows), \A r \in rows : r.p.kills \in Nat
    PROVE  KillsIn(rows) \in Nat
<1> DEFINE killed == [r \in rows |-> r.p.kills]
           none == [r \in rows |-> 0]
<1>1. \A r \in rows : killed[r] \in Int /\ none[r] \in Int /\ none[r] <= killed[r] /\ none[r] = 0
  OBVIOUS
<1>2. KillsIn(rows) = SumFunctionOnSet(killed, rows)
  BY DEF SumFunction, KillsIn
<1> HIDE DEF killed, none
<1>3. SumFunctionOnSet(none, rows) = 0 * Cardinality(rows)
  BY <1>1, SumOfSame
<1>4. SumFunctionOnSet(killed, rows) \in Int /\ SumFunctionOnSet(none, rows) <= SumFunctionOnSet(killed, rows)
  BY <1>1, SumType, SumAtMost
<1>5. Cardinality(rows) \in Nat
  BY FS_CardinalityType
<1>6. 0 * Cardinality(rows) = 0
  BY <1>5
<1> QED  BY <1>2, <1>3, <1>4, <1>6

\* Whatever a board is ordered by is a fraction.
LEMMA StatisticIsFraction ==
    ASSUME NEW rows, IsFiniteSet(rows), rows # {}, \A r \in rows : r.p.kills \in Nat,
           NEW sortBy \in SortBy
    PROVE  GetSelectClause(sortBy, rows) \in Fraction
<1> DEFINE ids == {r.match : r \in rows}
           kills == {r.p.kills : r \in rows}
<1>1. Cardinality(ids) \in Nat \ {0}
  <2> DEFINE id == [r \in rows |-> r.match]
  <2>1. ids = {id[r] : r \in rows}
    OBVIOUS
  <2>2. IsFiniteSet({id[r] : r \in rows})
    <3> HIDE DEF id
    <3> QED  BY ImageFinite
  <2>3. ids # {}
    OBVIOUS
  <2> HIDE DEF ids, id
  <2> QED  BY <2>1, <2>2, <2>3, FS_CardinalityType, FS_EmptySet
<1>2. Cardinality(rows) \in Nat \ {0}
  BY FS_CardinalityType, FS_EmptySet
<1>3. /\ Cardinality(WonIn(rows)) \in Nat
      /\ Cardinality(WonIn(rows)) <= Cardinality(rows)
  <2>1. WonIn(rows) \subseteq rows
    BY DEF WonIn
  <2> QED  BY <2>1, FS_Subset, FS_CardinalityType
<1>4. Max(kills) \in Nat
  <2> DEFINE killed == [r \in rows |-> r.p.kills]
  <2>1. kills = {killed[r] : r \in rows} /\ kills \in SUBSET Nat /\ kills # {}
    OBVIOUS
  <2>2. IsFiniteSet({killed[r] : r \in rows})
    <3> HIDE DEF killed
    <3> QED  BY ImageFinite
  <2> HIDE DEF kills, killed
  <2> QED  BY <2>1, <2>2, LargestThere
<1>5. KillsIn(rows) \in Nat
  BY KillsNatural
<1>6. 1 \in Nat \ {0} /\ Cardinality(rows) - Cardinality(WonIn(rows)) \in Nat
  BY <1>2, <1>3
<1>7. \A n \in Nat, d \in Nat \ {0} : <<n, d>> \in Fraction
  BY DEF Fraction
<1> HIDE DEF ids, kills
<1>8. CASE sortBy = "matches"
  <2>1. GetSelectClause(sortBy, rows) = <<Cardinality(ids), 1>>
    BY <1>8 DEF GetSelectClause, ids
  <2> QED  BY <1>1, <1>6, <1>7, <2>1
<1>9. CASE sortBy = "wins"
  <2>1. GetSelectClause(sortBy, rows) = <<Cardinality(WonIn(rows)), 1>>
    BY <1>9 DEF GetSelectClause
  <2> QED  BY <1>3, <1>6, <1>7, <2>1
<1>10. CASE sortBy = "losses"
  <2>1. GetSelectClause(sortBy, rows) = <<Cardinality(rows) - Cardinality(WonIn(rows)), 1>>
    BY <1>10 DEF GetSelectClause
  <2> QED  BY <1>6, <1>7, <2>1
<1>11. CASE sortBy = "winrate"
  <2>1. GetSelectClause(sortBy, rows) = <<Cardinality(WonIn(rows)), Cardinality(ids)>>
    BY <1>11 DEF GetSelectClause, ids
  <2> QED  BY <1>1, <1>3, <1>7, <2>1
<1>12. CASE sortBy = "max_kills_per_match"
  <2>1. GetSelectClause(sortBy, rows) = <<Max(kills), 1>>
    BY <1>12 DEF GetSelectClause, kills
  <2> QED  BY <1>4, <1>6, <1>7, <2>1
<1>13. CASE sortBy = "avg_kills_per_match"
  <2>1. GetSelectClause(sortBy, rows) = <<KillsIn(rows), Cardinality(rows)>>
    BY <1>13 DEF GetSelectClause
  <2> QED  BY <1>2, <1>5, <1>7, <2>1
<1>14. CASE sortBy = "kills"
  <2>1. GetSelectClause(sortBy, rows) = <<KillsIn(rows), 1>>
    BY <1>14 DEF GetSelectClause
  <2> QED  BY <1>5, <1>6, <1>7, <2>1
<1> QED  BY <1>8, <1>9, <1>10, <1>11, <1>12, <1>13, <1>14 DEF SortBy

\* The entries of a board: one for each of some accounts or heroes, from its own rows.
MadeOf(E, q, rows, ofs, own) ==
    /\ IsFiniteSet(rows) /\ \A r \in rows : r.p.kills \in Nat
    /\ IsFiniteSet(ofs) /\ ofs \subseteq DOMAIN Stored
    /\ \A a \in ofs : own[a] # {} /\ own[a] \subseteq rows
    /\ q.sortBy \in SortBy
    /\ \A e \in E : \E a \in ofs : e = Entry(q, a, own[a])

LEMMA EntriesOfBoard ==
    ASSUME NEW E, NEW q, NEW rows, NEW ofs, NEW own, MadeOf(E, q, rows, ofs, own)
    PROVE  Entries(E)
<1> USE DEF MadeOf
<1> DEFINE entry == [a \in ofs |-> Entry(q, a, own[a])]
           all == {entry[a] : a \in ofs}
<1>1. ASSUME NEW a \in ofs PROVE entry[a].value \in Fraction /\ entry[a].of = a
  <2>1. IsFiniteSet(own[a]) /\ \A r \in own[a] : r.p.kills \in Nat
    BY FS_Subset
  <2>2. entry[a].of = a /\ entry[a].value = GetSelectClause(q.sortBy, own[a])
    BY DEF Entry
  <2> HIDE DEF entry
  <2>3. GetSelectClause(q.sortBy, own[a]) \in Fraction
    BY <2>1, StatisticIsFraction
  <2> QED  BY <2>2, <2>3
<1>2. E \subseteq all
  OBVIOUS
<1> HIDE DEF entry
<1>3. IsFiniteSet(all)
  BY ImageFinite
<1>4. \A e \in all : e.value \in Fraction /\ e.of \in ofs /\ e = entry[e.of]
  BY <1>1
<1> HIDE DEF all
<1>5. IsFiniteSet(E)
  BY <1>2, <1>3, FS_Subset
<1>6. \A x, y \in E : x.of = y.of => x = y
  BY <1>2, <1>4
<1> QED  BY <1>2, <1>4, <1>5, <1>6 DEF Entries

\* The entries of the scoreboard of heroes, in no order.
HeroEntries(q) ==
    {e \in {Entry(q, h, {r \in HeroRows(q) : r.p.hero = h}) : h \in {r.p.hero : r \in HeroRows(q)}} :
        AtLeast(q.minMatches, e.matches)}

LEMMA HeroBoard ==
    ASSUME Tables, NEW q, q.sortBy \in SortBy
    PROVE  Entries(HeroEntries(q)) /\ HeroScoreboard(q) = Ordered(HeroEntries(q), q.descending)
<1>1. HeroScoreboard(q) = Ordered(HeroEntries(q), q.descending)
  BY DEF HeroScoreboard, HeroEntries
<1> DEFINE rows == HeroRows(q)
           heroes == {r.p.hero : r \in rows}
           own == [h \in heroes |-> {r \in rows : r.p.hero = h}]
           E == HeroEntries(q)
<1>2. /\ IsFiniteSet(RowsOf(HeroBoardMatches(q)))
      /\ \A r \in RowsOf(HeroBoardMatches(q)) : /\ r.match \in PossibleMatches /\ r.p \in r.match.players
                                                /\ r.p.kills \in Nat
  BY RowsFinite, ChosenAreMatches DEF HeroBoardMatches, Tables
<1>3. rows \subseteq RowsOf(HeroBoardMatches(q))
  BY DEF HeroRows
<1>4. IsFiniteSet(rows) /\ \A r \in rows : r.p.kills \in Nat
  BY <1>2, <1>3, FS_Subset
<1>5. IsFiniteSet(heroes) /\ heroes \in SUBSET DOMAIN Stored
  <2> DEFINE hero == [r \in rows |-> r.p.hero]
  <2>1. heroes = {hero[r] : r \in rows}
    OBVIOUS
  <2>2. IsFiniteSet({hero[r] : r \in rows})
    <3> HIDE DEF rows, hero
    <3> QED  BY <1>4, ImageFinite
  <2>3. \A r \in rows : r.p.hero \in DOMAIN Stored
    BY <1>2, <1>3, StoredAssumption
  <2> HIDE DEF rows, hero
  <2> QED  BY <2>1, <2>2, <2>3
<1>6. \A h \in heroes : own[h] # {} /\ own[h] \subseteq rows
  OBVIOUS
<1>7. \A e \in E : \E h \in heroes : e = Entry(q, h, own[h])
  BY DEF HeroEntries
<1> HIDE DEF rows, heroes, own, E
<1>8. MadeOf(E, q, rows, heroes, own)
  BY <1>4, <1>5, <1>6, <1>7 DEF MadeOf
<1>9. Entries(E)
  BY <1>8, EntriesOfBoard
<1> QED  BY <1>1, <1>9 DEF E

LEMMA HeroEntriesAre ==
    ASSUME NEW q, NEW t, q.info = t.info, q.accounts = t.accounts, q.minWorth = t.minWorth,
           q.maxWorth = t.maxWorth, q.minMatches = t.minMatches, q.sortBy = t.sortBy
    PROVE  HeroEntries(q) = HeroEntries(t)
<1>1. HeroRows(q) = HeroRows(t)
  BY DEF HeroRows, HeroBoardMatches, HeroWorth
<1>2. \A h, rows : Entry(q, h, rows) = Entry(t, h, rows)
  BY DEF Entry
<1> QED  BY <1>1, <1>2 DEF HeroEntries

LEMMA TurnsRound == Tables => OrderTurnsRound
<1> SUFFICES ASSUME Tables, NEW q \in HeroBoardQueries, ~Refused(q.accounts)
             PROVE  LET down == hero_scoreboard([q EXCEPT !.descending = TRUE])
                        up == Reverse(hero_scoreboard([q EXCEPT !.descending = FALSE]))
                    IN  /\ Len(up) = Len(down)
                        /\ \A i \in DOMAIN down :
                              up[i].value[1] * down[i].value[2] = down[i].value[1] * up[i].value[2]
  BY DEF OrderTurnsRound
<1> DEFINE t == [q EXCEPT !.descending = TRUE]
           f == [q EXCEPT !.descending = FALSE]
           E == HeroEntries(t)
           n == Cardinality(E)
           down == Ordered(E, TRUE)
           rising == Ordered(E, FALSE)
           up == Reverse(rising)
<1>1. DOMAIN q = DOMAIN HeroScoreboardQuery /\ q.sortBy \in SortBy
  BY BoardQueriesAssumption
<1>2. /\ t.info = q.info /\ t.accounts = q.accounts /\ t.minWorth = q.minWorth /\ t.maxWorth = q.maxWorth
      /\ t.minMatches = q.minMatches /\ t.sortBy = q.sortBy /\ t.descending = TRUE
  BY <1>1 DEF HeroScoreboardQuery
<1>3. /\ f.info = q.info /\ f.accounts = q.accounts /\ f.minWorth = q.minWorth /\ f.maxWorth = q.maxWorth
      /\ f.minMatches = q.minMatches /\ f.sortBy = q.sortBy /\ f.descending = FALSE
  BY <1>1 DEF HeroScoreboardQuery
<1> HIDE DEF t, f
<1>4. hero_scoreboard(t) = down /\ hero_scoreboard(f) = rising /\ Entries(E)
  <2>1. HeroEntries(f) = E
    BY <1>2, <1>3, HeroEntriesAre
  <2>2. HeroScoreboard(t) = down /\ HeroScoreboard(f) = rising /\ Entries(E)
    BY <1>1, <1>2, <1>3, <2>1, HeroBoard
  <2> QED  BY <1>2, <1>3, <2>2 DEF hero_scoreboard
<1> HIDE DEF E
<1>5. /\ n \in Nat /\ Len(down) = n /\ DOMAIN down = 1 .. n
      /\ \A k \in 1 .. n : down[k] \in E
  BY <1>4, OrderedPlaces, Zenon
<1>6. /\ Len(rising) = n /\ DOMAIN rising = 1 .. n /\ rising \in Seq(E)
      /\ \A k \in 1 .. n : rising[k] \in E
  BY <1>4, OrderedPlaces, Zenon
<1>7. \A k \in 1 .. n : /\ ~Below(down[k].value, rising[n - k + 1].value)
                        /\ ~Below(rising[n - k + 1].value, down[k].value)
  BY <1>4, TurnedRound, Zenon
<1> HIDE DEF down, rising, n
<1>8. Len(up) = n /\ \A k \in 1 .. n : up[k] = rising[(n - k) + 1]
  BY <1>5, <1>6 DEF Reverse
<1> HIDE DEF up
<1>9. ASSUME NEW k \in 1 .. n
      PROVE  up[k].value[1] * down[k].value[2] = down[k].value[1] * up[k].value[2]
  <2>1. up[k] = rising[n - k + 1] /\ n - k + 1 \in 1 .. n
    BY <1>5, <1>8
  <2>2. up[k] \in E /\ down[k] \in E
    BY <1>5, <1>6, <2>1
  <2>3. up[k].value \in Fraction /\ down[k].value \in Fraction
    BY <1>4, <2>2 DEF Entries
  <2>4. ~Below(down[k].value, up[k].value) /\ ~Below(up[k].value, down[k].value)
    BY <1>7, <2>1
  <2> DEFINE x == down[k].value
             y == up[k].value
  <2>5. x[1] \in Nat /\ x[2] \in Nat /\ y[1] \in Nat /\ y[2] \in Nat
    BY <2>3 DEF Fraction
  <2>6. ~(x[1] * y[2] < y[1] * x[2]) /\ ~(y[1] * x[2] < x[1] * y[2])
    BY <2>4 DEF Below
  <2> HIDE DEF x, y
  <2>7. y[1] * x[2] = x[1] * y[2]
    <3> DEFINE a == y[1] * x[2]
               b == x[1] * y[2]
    <3>1. a \in Nat /\ b \in Nat
      BY <2>5
    <3>2. ~(a < b) /\ ~(b < a)
      BY <2>6
    <3> HIDE DEF a, b
    <3>3. a = b
      BY <3>1, <3>2
    <3> QED  BY <3>3 DEF a, b
  <2> QED  BY <2>7 DEF x, y
<1> QED  BY <1>4, <1>5, <1>8, <1>9 DEF t, f, up

\* Two pieces of a sequence, one after the other, are one piece.
LEMMA PiecesMeet ==
    ASSUME NEW S, NEW s \in Seq(S), NEW off \in Nat, NEW limit \in Nat
    PROVE  SubSeq(s, off + 1, Min({off + limit, Len(s)}))
                \o SubSeq(s, off + limit + 1, Min({off + limit + limit, Len(s)}))
           = SubSeq(s, off + 1, Min({off + 2 * limit, Len(s)}))
<1> DEFINE n == Len(s)
           least(m) == IF m <= n THEN m ELSE n
           one == SubSeq(s, off + 1, least(off + limit))
           two == SubSeq(s, off + limit + 1, least(off + limit + limit))
           all == SubSeq(s, off + 1, least(off + 2 * limit))
<1>1. n \in Nat /\ \A i \in 1 .. n : s[i] \in S
  BY ElementOfSeq
<1>2. \A m \in Nat : Min({m, n}) = least(m)
  <2> TAKE m \in Nat
  <2>1. {m, n} = {m} \cup {n}
    OBVIOUS
  <2> HIDE DEF n
  <2> QED  BY <1>1, <2>1, LeastOfTwo
<1>3. /\ off + limit \in Nat /\ off + limit + limit \in Nat /\ off + 2 * limit \in Nat
      /\ off + limit + limit = off + 2 * limit
  OBVIOUS
<1> HIDE DEF n
<1> DEFINE Piece(t, m, k) == /\ t \in Seq(S)
                             /\ Len(t) = IF m <= k THEN k - m + 1 ELSE 0
                             /\ \A i \in 1 .. k - m + 1 : t[i] = s[m + i - 1]
<1>4. ASSUME NEW m \in Nat \ {0}, NEW k \in Nat, k <= n
      PROVE  Piece(SubSeq(s, m, k), m, k)
  <2>1. \A i \in m .. k : s[i] \in S
    BY <1>1, <1>4
  <2> QED  BY <2>1, SubSeqProperties
<1>5. Piece(one, off + 1, least(off + limit))
  <2> DEFINE k == least(off + limit)
  <2>1. k \in Nat /\ k <= n /\ off + 1 \in Nat \ {0}
    BY <1>1
  <2> HIDE DEF Piece, k
  <2>2. Piece(SubSeq(s, off + 1, k), off + 1, k)
    BY <1>4, <2>1
  <2> QED  BY <2>2 DEF k
<1>6. Piece(two, off + limit + 1, least(off + limit + limit))
  <2> DEFINE k == least(off + limit + limit)
  <2>1. k \in Nat /\ k <= n /\ off + limit + 1 \in Nat \ {0}
    BY <1>1
  <2> HIDE DEF Piece, k
  <2>2. Piece(SubSeq(s, off + limit + 1, k), off + limit + 1, k)
    BY <1>4, <2>1
  <2> QED  BY <2>2 DEF k
<1>7. Piece(all, off + 1, least(off + 2 * limit))
  <2> DEFINE k == least(off + 2 * limit)
  <2>1. k \in Nat /\ k <= n /\ off + 1 \in Nat \ {0}
    BY <1>1
  <2> HIDE DEF Piece, k
  <2>2. Piece(SubSeq(s, off + 1, k), off + 1, k)
    BY <1>4, <2>1
  <2> QED  BY <2>2 DEF k
<1> HIDE DEF one, two, all
<1>8. one \o two = all
  <2>1. one \in Seq(S) /\ two \in Seq(S) /\ all \in Seq(S)
    BY <1>5, <1>6, <1>7
  <2>2. /\ one \o two \in Seq(S)
        /\ Len(one \o two) = Len(one) + Len(two)
        /\ \A i \in 1 .. Len(one) + Len(two) :
              (one \o two)[i] = IF i <= Len(one) THEN one[i] ELSE two[i - Len(one)]
    BY <2>1, ConcatProperties
  <2> DEFINE a == Len(one)
             b == Len(two)
             c == Len(all)
  <2>3. /\ a = IF off + 1 <= least(off + limit) THEN least(off + limit) - off ELSE 0
        /\ b = IF off + limit + 1 <= least(off + limit + limit)
               THEN least(off + limit + limit) - (off + limit) ELSE 0
        /\ c = IF off + 1 <= least(off + 2 * limit) THEN least(off + 2 * limit) - off ELSE 0
    <3> HIDE DEF least
    <3>1. least(off + limit) \in Nat /\ least(off + limit + limit) \in Nat /\ least(off + 2 * limit) \in Nat
      BY <1>1, <1>3 DEF least
    <3>2. a = IF off + 1 <= least(off + limit) THEN least(off + limit) - off ELSE 0
      BY <1>5, <3>1
    <3>3. b = IF off + limit + 1 <= least(off + limit + limit)
              THEN least(off + limit + limit) - (off + limit) ELSE 0
      BY <1>6, <3>1
    <3>4. c = IF off + 1 <= least(off + 2 * limit) THEN least(off + 2 * limit) - off ELSE 0
      BY <1>7, <3>1
    <3> QED  BY <3>2, <3>3, <3>4
  <2>4. /\ \A i \in 1 .. a : one[i] = s[off + i]
        /\ \A i \in 1 .. b : two[i] = s[off + limit + i]
        /\ \A i \in 1 .. c : all[i] = s[off + i]
    <3>1. /\ \A i \in 1 .. least(off + limit) - (off + 1) + 1 : one[i] = s[(off + 1) + i - 1]
          /\ \A i \in 1 .. least(off + limit + limit) - (off + limit + 1) + 1 : two[i] = s[(off + limit + 1) + i - 1]
          /\ \A i \in 1 .. least(off + 2 * limit) - (off + 1) + 1 : all[i] = s[(off + 1) + i - 1]
      BY <1>5, <1>6, <1>7
    <3>2. least(off + limit) \in Nat /\ least(off + limit + limit) \in Nat /\ least(off + 2 * limit) \in Nat
      BY <1>1, <1>3
    <3> HIDE DEF a, b, c, least
    <3>3. /\ \A i \in 1 .. a : i \in 1 .. least(off + limit) - (off + 1) + 1 /\ (off + 1) + i - 1 = off + i
          /\ \A i \in 1 .. b : i \in 1 .. least(off + limit + limit) - (off + limit + 1) + 1
                               /\ (off + limit + 1) + i - 1 = off + limit + i
          /\ \A i \in 1 .. c : i \in 1 .. least(off + 2 * limit) - (off + 1) + 1 /\ (off + 1) + i - 1 = off + i
      BY <2>3, <3>2
    <3> QED  BY <3>1, <3>3
  <2> HIDE DEF a, b, c
  <2>5. a \in Nat /\ b \in Nat /\ c = a + b /\ (b > 0 => a = limit)
    BY <1>1, <2>3
  <2>6. \A i \in 1 .. a + b : (one \o two)[i] = IF i <= a THEN one[i] ELSE two[i - a]
    BY <2>2 DEF a, b
  <2>7. \A i \in 1 .. c : (one \o two)[i] = all[i]
    <3> TAKE i \in 1 .. c
    <3>1. CASE i <= a
      <4>1. i \in 1 .. a /\ i \in 1 .. a + b
        BY <2>5, <3>1
      <4> QED  BY <2>4, <2>6, <3>1, <4>1
    <3>2. CASE a < i
      <4>1. i \in 1 .. a + b /\ i - a \in 1 .. b /\ off + limit + (i - a) = off + i /\ ~(i <= a)
        BY <2>5, <3>2
      <4> QED  BY <2>4, <2>6, <4>1
    <3>3. i \in Nat /\ (i <= a \/ a < i)
      <4>1. c \in Nat
        BY <2>5
      <4> QED  BY <2>5, <4>1
    <3> QED  BY <3>1, <3>2, <3>3
  <2>8. Len(one \o two) = Len(all) /\ \A i \in 1 .. Len(one \o two) : (one \o two)[i] = all[i]
    BY <2>2, <2>5, <2>7 DEF a, b, c
  <2> QED  BY <2>1, <2>2, <2>8, SeqEqual
<1>9. /\ Min({off + limit, n}) = least(off + limit)
      /\ Min({off + limit + limit, n}) = least(off + limit + limit)
      /\ Min({off + 2 * limit, n}) = least(off + 2 * limit)
  <2> HIDE DEF least
  <2> QED  BY <1>2, <1>3
<1> QED  BY <1>8, <1>9 DEF one, two, all, n

\* The entries of the scoreboard of players, in no order.
PlayerEntries(q) ==
    {e \in {Entry(q, a, {r \in PlayerRows(q) : r.p.account = a}) : a \in {r.p.account : r \in PlayerRows(q)}} :
        Within(q.minMatches, q.maxMatches, e.matches)}

LEMMA PlayerBoard ==
    ASSUME Tables, NEW q, q.sortBy \in SortBy
    PROVE  Entries(PlayerEntries(q)) /\ Players(q) = Ordered(PlayerEntries(q), q.descending)
<1>1. Players(q) = Ordered(PlayerEntries(q), q.descending)
  BY DEF Players, PlayerEntries
<1> DEFINE rows == PlayerRows(q)
           accounts == {r.p.account : r \in rows}
           own == [a \in accounts |-> {r \in rows : r.p.account = a}]
           E == PlayerEntries(q)
<1>2. /\ IsFiniteSet(RowsOf(PlayerMatches(q)))
      /\ \A r \in RowsOf(PlayerMatches(q)) : /\ r.match \in PossibleMatches /\ r.p \in r.match.players
                                             /\ r.p.kills \in Nat
  BY RowsFinite, ChosenAreMatches DEF PlayerMatches, Tables
<1>3. rows \subseteq RowsOf(PlayerMatches(q))
  BY DEF PlayerRows
<1>4. IsFiniteSet(rows) /\ \A r \in rows : r.p.kills \in Nat
  BY <1>2, <1>3, FS_Subset
<1>5. IsFiniteSet(accounts) /\ accounts \in SUBSET DOMAIN Stored
  <2> DEFINE account == [r \in rows |-> r.p.account]
  <2>1. accounts = {account[r] : r \in rows}
    OBVIOUS
  <2>2. IsFiniteSet({account[r] : r \in rows})
    <3> HIDE DEF rows, account
    <3> QED  BY <1>4, ImageFinite
  <2>3. \A r \in rows : r.p.account \in DOMAIN Stored
    BY <1>2, <1>3, StoredAssumption
  <2> HIDE DEF rows, account
  <2> QED  BY <2>1, <2>2, <2>3
<1>6. \A a \in accounts : own[a] # {} /\ own[a] \subseteq rows
  OBVIOUS
<1>7. \A e \in E : \E a \in accounts : e = Entry(q, a, own[a])
  BY DEF PlayerEntries
<1> HIDE DEF rows, accounts, own, E
<1>8. MadeOf(E, q, rows, accounts, own)
  BY <1>4, <1>5, <1>6, <1>7 DEF MadeOf
<1>9. Entries(E)
  BY <1>8, EntriesOfBoard
<1> QED  BY <1>1, <1>9 DEF E

\* Where a page starts and how long it is says nothing about who is on the board.
LEMMA PlayersAre ==
    ASSUME NEW q, NEW t, q.info = t.info, q.heroes = t.heroes, q.accounts = t.accounts,
           q.minWorth = t.minWorth, q.maxWorth = t.maxWorth, q.minMatches = t.minMatches,
           q.maxMatches = t.maxMatches, q.sortBy = t.sortBy, q.descending = t.descending
    PROVE  Players(q) = Players(t)
<1>1. PlayerRows(q) = PlayerRows(t)
  BY DEF PlayerRows, PlayerMatches
<1>2. \A a, rows : Entry(q, a, rows) = Entry(t, a, rows)
  BY DEF Entry
<1> QED  BY <1>1, <1>2 DEF Players

LEMMA PagesMeet == Tables => PagesTile
<1> SUFFICES ASSUME Tables, NEW q \in PlayerBoardQueries, ~Refused(q.accounts)
             PROVE  player_scoreboard(q) \o player_scoreboard([q EXCEPT !.start = @ + q.limit])
                        = player_scoreboard([q EXCEPT !.limit = 2 * @])
  BY DEF PagesTile
<1> DEFINE t == [q EXCEPT !.start = @ + q.limit]
           w == [q EXCEPT !.limit = 2 * @]
           s == Players(q)
           S == PlayerEntries(q)
           off == q.start + 1
           limit == q.limit
<1>1. /\ DOMAIN q = DOMAIN PlayerScoreboardQuery
      /\ q.sortBy \in SortBy /\ q.descending \in BOOLEAN /\ q.start \in Nat /\ q.limit \in Nat
  BY BoardQueriesAssumption
<1>2. /\ t.info = q.info /\ t.heroes = q.heroes /\ t.accounts = q.accounts /\ t.minWorth = q.minWorth
      /\ t.maxWorth = q.maxWorth /\ t.minMatches = q.minMatches /\ t.maxMatches = q.maxMatches
      /\ t.sortBy = q.sortBy /\ t.descending = q.descending /\ t.start = q.start + q.limit /\ t.limit = q.limit
  BY <1>1 DEF PlayerScoreboardQuery
<1>3. /\ w.info = q.info /\ w.heroes = q.heroes /\ w.accounts = q.accounts /\ w.minWorth = q.minWorth
      /\ w.maxWorth = q.maxWorth /\ w.minMatches = q.minMatches /\ w.maxMatches = q.maxMatches
      /\ w.sortBy = q.sortBy /\ w.descending = q.descending /\ w.start = q.start /\ w.limit = 2 * q.limit
  BY <1>1 DEF PlayerScoreboardQuery
<1> HIDE DEF t, w
<1>4. Players(t) = s /\ Players(w) = s
  BY <1>2, <1>3, PlayersAre
<1>5. s \in Seq(S)
  <2>1. Entries(S) /\ s = Ordered(S, q.descending)
    BY <1>1, PlayerBoard
  <2> HIDE DEF s, S
  <2>2. Ordered(S, q.descending) \in Seq(S)
    BY <1>1, <2>1, OrderedPlaces, Zenon
  <2> QED  BY <2>1, <2>2
<1> HIDE DEF s, S
<1>6. off \in Nat /\ limit \in Nat /\ off + limit = (q.start + q.limit) + 1
  BY <1>1
<1>7. /\ player_scoreboard(q) = SubSeq(s, off + 1, Min({off + limit, Len(s)}))
      /\ player_scoreboard(t) = SubSeq(s, off + limit + 1, Min({off + limit + limit, Len(s)}))
      /\ player_scoreboard(w) = SubSeq(s, off + 1, Min({off + 2 * limit, Len(s)}))
  <2>1. ~Refused(q.accounts) /\ ~Refused(t.accounts) /\ ~Refused(w.accounts)
    BY <1>2, <1>3
  <2>2. Offset(q) = off /\ Offset(t) = off + limit /\ Offset(w) = off
    BY <1>1, <1>2, <1>3 DEF Offset
  <2> HIDE DEF off
  <2>3. PlayerScoreboard(q) = SubSeq(s, off + 1, Min({off + limit, Len(s)}))
    BY <2>2 DEF PlayerScoreboard, s
  <2>4. PlayerScoreboard(t) = SubSeq(s, off + limit + 1, Min({off + limit + limit, Len(s)}))
    BY <1>2, <1>4, <2>2 DEF PlayerScoreboard
  <2>5. PlayerScoreboard(w) = SubSeq(s, off + 1, Min({off + 2 * limit, Len(s)}))
    BY <1>3, <1>4, <2>2 DEF PlayerScoreboard
  <2> QED  BY <2>1, <2>3, <2>4, <2>5 DEF player_scoreboard
<1> HIDE DEF off, limit
<1>8. SubSeq(s, off + 1, Min({off + limit, Len(s)})) \o SubSeq(s, off + limit + 1, Min({off + limit + limit, Len(s)}))
        = SubSeq(s, off + 1, Min({off + 2 * limit, Len(s)}))
  BY <1>5, <1>6, PiecesMeet, Zenon
<1> QED  BY <1>7, <1>8 DEF t, w

\* A board with one entry.
LEMMA OnlyEntry ==
    ASSUME NEW e, e.value \in Fraction, e.of \in DOMAIN Stored, NEW down
    PROVE  Ordered({e}, down) = <<e>>
<1>1. Cardinality({e}) = 1 /\ Cardinality({}) = 0
  BY FS_Singleton, FS_EmptySet
<1>2. {x \in {e} : Before(x, e, down)} = {}
  <2>1. ~Below(e.value, e.value)
    BY FractionsCompare
  <2>2. ~(Stored[e.of] < Stored[e.of])
    BY StoredAssumption
  <2>3. ~Before(e, e, down)
    BY <2>1, <2>2 DEF Before
  <2> QED  BY <2>3
<1>3. \A k \in 1 .. 1 : (CHOOSE y \in {e} : Cardinality({x \in {e} : Before(x, y, down)}) = k - 1) = e
  <2> TAKE k \in 1 .. 1
  <2>1. k - 1 = 0
    OBVIOUS
  <2>2. \A y \in {e} : Cardinality({x \in {e} : Before(x, y, down)}) = k - 1
    BY <1>1, <1>2, <2>1
  <2> QED  BY <2>2
<1>4. Ordered({e}, down) = [k \in 1 .. 1 |-> e]
  BY <1>1, <1>3 DEF Ordered
<1> QED  BY <1>4

LEMMA BothBoardsAgree == Tables => BoardsAgree
<1> SUFFICES ASSUME Tables, NEW q \in HeroBoardQueries, q.accounts = {}, q.minMatches = {},
                    NEW a \in Accounts \ protected
             PROVE  LET board == hero_scoreboard([q EXCEPT !.accounts = {a}])
                        asPlayer(h) ==
                            [PlayerScoreboardQuery EXCEPT
                                !.sortBy = q.sortBy, !.heroes = {h}, !.accounts = {a}, !.info = q.info,
                                !.minWorth = q.minWorth, !.maxWorth = q.maxWorth, !.minMatches = {}]
                    IN  \A i \in DOMAIN board :
                            Players(asPlayer(board[i].of)) = <<[board[i] EXCEPT !.of = a]>>
  BY DEF BoardsAgree
<1> DEFINE f == [q EXCEPT !.accounts = {a}]
           E == HeroEntries(f)
           board == Ordered(E, q.descending)
           asPlayer(h) ==
              [PlayerScoreboardQuery EXCEPT
                  !.sortBy = q.sortBy, !.heroes = {h}, !.accounts = {a}, !.info = q.info,
                  !.minWorth = q.minWorth, !.maxWorth = q.maxWorth, !.minMatches = {}]
<1>1. DOMAIN q = DOMAIN HeroScoreboardQuery /\ q.sortBy \in SortBy /\ q.descending \in BOOLEAN
  BY BoardQueriesAssumption
<1>2. /\ f.info = q.info /\ f.accounts = {a} /\ f.minWorth = q.minWorth /\ f.maxWorth = q.maxWorth
      /\ f.minMatches = {} /\ f.sortBy = q.sortBy /\ f.descending = q.descending
  BY <1>1 DEF HeroScoreboardQuery
<1> HIDE DEF f
<1>3. Shown({a}) = {a} /\ a \in Nat /\ a > 0
  BY StoredAssumption DEF Shown
<1>4. hero_scoreboard(f) = board /\ Entries(E)
  <2>1. ~Refused(f.accounts)
    BY <1>2, <1>3 DEF Refused
  <2>2. HeroScoreboard(f) = board /\ Entries(E)
    BY <1>1, <1>2, HeroBoard
  <2> QED  BY <2>1, <2>2 DEF hero_scoreboard
<1>5. \A i \in DOMAIN board : board[i] \in E
  <2> HIDE DEF E
  <2>1. /\ DOMAIN board = 1 .. Cardinality(E)
        /\ \A i \in 1 .. Cardinality(E) : board[i] \in E
    BY <1>1, <1>4, OrderedPlaces, Zenon
  <2> QED  BY <2>1
<1>6. ASSUME NEW e \in E PROVE Players(asPlayer(e.of)) = <<[e EXCEPT !.of = a]>>
  <2>1. PICK h \in {r.p.hero : r \in HeroRows(f)} : e = Entry(f, h, {r \in HeroRows(f) : r.p.hero = h})
    BY DEF HeroEntries
  <2> DEFINE rows == {r \in HeroRows(f) : r.p.hero = h}
             t == asPlayer(h)
             own == [e EXCEPT !.of = a]
  <2>2. /\ t.info = q.info /\ t.accounts = {a} /\ t.minWorth = q.minWorth /\ t.maxWorth = q.maxWorth
        /\ t.minMatches = {} /\ t.maxMatches = {} /\ t.sortBy = q.sortBy /\ t.heroes = {h} /\ t.descending = TRUE
    BY DEF PlayerScoreboardQuery
  <2> HIDE DEF t
  <2>3. /\ rows # {} /\ e.of = h
        /\ own = [of |-> a, value |-> GetSelectClause(q.sortBy, rows), matches |-> Cardinality({r.match : r \in rows})]
    BY <1>2, <2>1 DEF Entry
  <2>4. PlayerRows(t) = rows
    BY <1>2, <1>3, <2>2, ZenonT(40) DEF PlayerRows, HeroRows, HeroWorth, PlayerMatches, HeroBoardMatches
  <2>5. \A r \in rows : r.p.account = a
    BY <1>2, <1>3 DEF HeroRows
  <2> HIDE DEF rows, own
  <2>6. {r.p.account : r \in PlayerRows(t)} = {a} /\ {r \in PlayerRows(t) : r.p.account = a} = rows
    BY <2>3, <2>4, <2>5
  <2>7. Entry(t, a, rows) = own
    BY <2>2, <2>3 DEF Entry
  <2>8. PlayerEntries(t) = {own}
    <3>1. {Entry(t, b, {r \in PlayerRows(t) : r.p.account = b}) : b \in {r.p.account : r \in PlayerRows(t)}} = {own}
      BY <2>6, <2>7
    <3>2. Within(t.minMatches, t.maxMatches, own.matches)
      BY <2>2 DEF Within, AtLeast, AtMost
    <3> QED  BY <3>1, <3>2 DEF PlayerEntries
  <2>9. Players(t) = Ordered({own}, TRUE) /\ own.value \in Fraction /\ own.of \in DOMAIN Stored
    <3>1. Entries(PlayerEntries(t)) /\ Players(t) = Ordered(PlayerEntries(t), t.descending)
      BY <1>1, <2>2, PlayerBoard
    <3> QED  BY <2>2, <2>8, <3>1 DEF Entries
  <2>10. Ordered({own}, TRUE) = <<own>>
    BY <2>9, OnlyEntry
  <2> QED  BY <2>3, <2>9, <2>10 DEF t, own
<1> HIDE DEF E, board
<1> QED  BY <1>4, <1>5, <1>6 DEF f

\* Pages of the scoreboard of players tile it, the two boards agree on one account,
\* and turning the order of a board round turns its values round, whatever was
\* ingested and whichever way equal values are come upon.
THEOREM BoardsDoFit == TablesSpec => []BoardsFit
<1>1. Tables => BoardsFit
  BY PagesMeet, BothBoardsAgree, TurnsRound DEF BoardsFit
<1> QED  BY <1>1, TablesGrow, PTL

----------------------------------------------------------------------------
\* Builds: the numbers of rows, and the order of an answer.

\* What is in the table of builds: finitely many rows, one for a version.
BuildRows ==
    /\ IsFiniteSet(hero_builds)
    /\ \A b \in hero_builds : IsRow(b)
    /\ \A b, c \in hero_builds : <<b.hero, b.id, b.version>> = <<c.hero, c.id, c.version>> => b = c

LEMMA BuildsGrow == BuildsSpec => []BuildRows
<1>1. BuildsInit => BuildRows
  BY FS_EmptySet DEF BuildsInit, BuildRows
<1>2. ASSUME BuildRows, [BuildsNext]_hero_builds PROVE BuildRows'
  <2>1. ASSUME NEW b \in PossibleBuilds, Publish(b),
               \A c \in hero_builds : <<c.hero, c.id, c.version>> # <<b.hero, b.id, b.version>>
        PROVE  BuildRows'
    <3>1. hero_builds' = hero_builds \cup {b} /\ IsRow(b) /\ IsFiniteSet(hero_builds')
      BY <1>2, <2>1, RowsAssumption, FS_AddElement DEF Publish, BuildRows
    <3> QED  BY <1>2, <2>1, <3>1 DEF BuildRows
  <2>2. ASSUME NEW b \in hero_builds, Vote(b) PROVE BuildRows'
    <3> DEFINE v == [b EXCEPT !.favorites = {b.id}]
    <3>0. IsRow(b)
      BY <1>2 DEF BuildRows
    <3>1. hero_builds' = (hero_builds \ {b}) \cup {v}
      BY <2>2 DEF Vote
    <3>2. /\ v.hero = b.hero /\ v.id = b.id /\ v.version = b.version /\ v.mods = b.mods
          /\ v.updated = b.updated /\ v.published = b.published
          /\ v.favorites = {b.id} /\ DOMAIN v = DOMAIN b
      BY <3>0 DEF IsRow
    <3> HIDE DEF v
    <3>3. IsRow(v)
      BY <3>0, <3>2 DEF IsRow
    <3>4. IsFiniteSet(hero_builds')
      <4> DEFINE others == hero_builds \ {b}
      <4>1. IsFiniteSet(others)
        BY <1>2, FS_Subset DEF BuildRows
      <4> HIDE DEF others
      <4> QED  BY <3>1, <4>1, FS_AddElement DEF others
    <3>5. ASSUME NEW c \in hero_builds', NEW d \in hero_builds',
                 <<c.hero, c.id, c.version>> = <<d.hero, d.id, d.version>>
          PROVE  c = d
      BY <1>2, <3>1, <3>2, <3>5 DEF BuildRows
    <3> QED  BY <1>2, <3>1, <3>3, <3>4, <3>5 DEF BuildRows
  <2> QED  BY <1>2, <2>1, <2>2 DEF BuildsNext, BuildRows
<1> QED  BY <1>1, <1>2, PTL DEF BuildsSpec

\* A column to sort by is null or a number.
LEMMA KeyNumber ==
    ASSUME BuildRows, NEW q, q.sortBy \in BuildsSortBy, NEW b \in hero_builds
    PROVE  Key(q, b) = {} \/ \E n \in Nat : Key(q, b) = {n}
<1>1. IsRow(b)
  BY DEF BuildRows
<1>2. b.favorites = {} \/ \E n \in Nat : b.favorites = {n}
  BY <1>1 DEF IsRow
<1> QED  BY <1>1, <1>2 DEF Key, BuildsSortBy, IsRow

LEMMA MaxOfOne == ASSUME NEW n \in Nat PROVE Max({n}) = n
  BY DEF Max

\* Without a limit the whole of what is found is on one page.
LEMMA WholePage ==
    ASSUME NEW q, q.start = {}, q.limit = {}, NEW n \in Nat, NEW F, NEW s \in [1 .. n -> F]
    PROVE  Page(q, s) = s
<1>1. s \in Seq(F) /\ Len(s) = n
  OBVIOUS
<1>2. Least({Len(s), 0 + Max(q.limit)}) = Least({Len(s), 0 + Max(q.limit)})
  OBVIOUS
<1>3. Page(q, s) = SubSeq(s, 1, n)
  BY <1>1 DEF Page
<1> QED  BY <1>1, <1>3

Backwards(s) == [i \in DOMAIN s |-> s[Len(s) + 1 - i]]

LEMMA TurnedTwice ==
    ASSUME NEW n \in Nat, NEW F, NEW s \in [1 .. n -> F]
    PROVE  /\ Backwards(s) \in [1 .. n -> F]
           /\ \A i \in 1 .. n : Backwards(s)[i] = s[n + 1 - i]
           /\ Backwards(Backwards(s)) = s
<1> DEFINE r == Backwards(s)
<1>1. Len(s) = n /\ DOMAIN s = 1 .. n
  OBVIOUS
<1>2. r = [i \in 1 .. n |-> s[n + 1 - i]]
  BY <1>1 DEF Backwards
<1>3. r \in [1 .. n -> F] /\ \A i \in 1 .. n : r[i] = s[n + 1 - i]
  BY <1>2
<1>4. Len(r) = n /\ DOMAIN r = 1 .. n
  BY <1>3
<1>5. Backwards(r) = [i \in 1 .. n |-> r[n + 1 - i]]
  BY <1>4 DEF Backwards
<1> HIDE DEF r
<1>6. Backwards(r) = s
  <2>1. \A i \in 1 .. n : n + 1 - i \in 1 .. n /\ n + 1 - (n + 1 - i) = i
    OBVIOUS
  <2>2. \A i \in 1 .. n : r[n + 1 - i] = s[i]
    BY <1>3, <2>1
  <2> QED  BY <1>5, <2>2
<1> QED  BY <1>3, <1>6 DEF r

\* In the two directions one row precedes another and the other the one.
LEMMA PrecedesTurns ==
    ASSUME NEW p, NEW q, p.descending # q.descending, {p.descending, q.descending} = BOOLEAN,
           NEW x, x = {} \/ \E n \in Nat : x = {n}, NEW y, y = {} \/ \E n \in Nat : y = {n}
    PROVE  Precedes(p, x, y) <=> Precedes(q, y, x)
<1>1. x # {} => Max(x) \in Nat
  BY MaxOfOne
<1>2. y # {} => Max(y) \in Nat
  BY MaxOfOne
<1>3. CASE p.descending /\ ~q.descending
  BY <1>1, <1>2, <1>3 DEF Precedes
<1>4. CASE ~p.descending /\ q.descending
  BY <1>1, <1>2, <1>4 DEF Precedes
<1> QED  BY <1>3, <1>4

\* An order of the one direction is one of the other when it is turned round.
LEMMA OrderTurned ==
    ASSUME BuildRows, NEW p, NEW q, {p.descending, q.descending} = BOOLEAN,
           p.sortBy \in BuildsSortBy, q.sortBy = p.sortBy, Found(p) = Found(q),
           NEW s \in InOrder(p)
    PROVE  Backwards(s) \in InOrder(q)
<1> DEFINE n == Cardinality(Found(p))
           r == Backwards(s)
<1>0. p.descending # q.descending
  OBVIOUS
<1>1. Found(p) \subseteq hero_builds
  BY DEF Found, Matching
<1>2. n \in Nat
  BY <1>1, FS_Subset, FS_CardinalityType DEF BuildRows
<1>3. /\ s \in [1 .. n -> Found(p)]
      /\ {s[i] : i \in 1 .. n} = Found(p)
      /\ \A i, j \in 1 .. n : Precedes(p, Key(p, s[i]), Key(p, s[j])) => i < j
  BY DEF InOrder
<1> HIDE DEF n
<1>4. r \in [1 .. n -> Found(p)] /\ \A i \in 1 .. n : r[i] = s[n + 1 - i]
  <2> SUFFICES ASSUME NEW k \in Nat, NEW F, s \in [1 .. k -> F]
               PROVE  Backwards(s) \in [1 .. k -> F] /\ \A i \in 1 .. k : Backwards(s)[i] = s[k + 1 - i]
    BY <1>2, <1>3
  <2> HIDE DEF r
  <2>1. Backwards(s) \in [1 .. k -> F]
    BY TurnedTwice
  <2>2. \A i \in 1 .. k : Backwards(s)[i] = s[k + 1 - i]
    <3>1. Len(s) = k /\ DOMAIN s = 1 .. k
      OBVIOUS
    <3> QED  BY <3>1 DEF Backwards
  <2> QED  BY <2>1, <2>2
<1> HIDE DEF r
<1>5. {r[i] : i \in 1 .. n} = Found(p)
  <2>1. \A i \in 1 .. n : n + 1 - i \in 1 .. n /\ n + 1 - (n + 1 - i) = i
    BY <1>2
  <2>2. \A i \in 1 .. n : r[i] = s[n + 1 - i] /\ s[i] = r[n + 1 - i]
    BY <1>2, <1>4, <2>1
  <2>3. \A i \in 1 .. n : r[i] \in {s[j] : j \in 1 .. n} /\ s[i] \in {r[j] : j \in 1 .. n}
    BY <2>1, <2>2
  <2> DEFINE R == {r[i] : i \in 1 .. n}
             S == {s[i] : i \in 1 .. n}
  <2>4. R \subseteq S
    BY <2>3
  <2>5. S \subseteq R
    BY <2>3
  <2> QED  BY <1>3, <2>4, <2>5
<1>6. \A b : Key(p, b) = Key(q, b)
  BY DEF Key
<1>7. ASSUME NEW i \in 1 .. n, NEW j \in 1 .. n, Precedes(q, Key(q, r[i]), Key(q, r[j]))
      PROVE  i < j
  <2> DEFINE x == Key(p, r[j])
             y == Key(p, r[i])
  <2>1. r[i] \in hero_builds /\ r[j] \in hero_builds
    BY <1>1, <1>4
  <2>2. /\ x = {} \/ \E k \in Nat : x = {k}
        /\ y = {} \/ \E k \in Nat : y = {k}
    BY <2>1, KeyNumber
  <2>3. Precedes(q, y, x)
    BY <1>6, <1>7
  <2> HIDE DEF x, y
  <2>4. Precedes(p, x, y)
    BY <1>0, <2>2, <2>3, PrecedesTurns
  <2>5. n + 1 - i \in 1 .. n /\ n + 1 - j \in 1 .. n
    BY <1>2
  <2>6. x = Key(p, s[n + 1 - j]) /\ y = Key(p, s[n + 1 - i])
    BY <1>4 DEF x, y
  <2>7. n + 1 - j < n + 1 - i
    BY <1>3, <2>4, <2>5, <2>6
  <2> QED  BY <1>2, <2>7
<1> QED  BY <1>4, <1>5, <1>7 DEF InOrder, n, r

LEMMA BuildsTurn == BuildRows => BuildsTurnRound
<1> SUFFICES ASSUME BuildRows, NEW q \in SearchQueries
             PROVE  LET all == [q EXCEPT !.start = {}, !.limit = {}]
                        reversed(s) == [i \in DOMAIN s |-> s[Len(s) + 1 - i]]
                    IN  search_builds([all EXCEPT !.descending = FALSE])
                          = {reversed(s) : s \in search_builds([all EXCEPT !.descending = TRUE])}
  BY Zenon DEF BuildsTurnRound
<1> DEFINE all == [q EXCEPT !.start = {}, !.limit = {}]
           up == [all EXCEPT !.descending = FALSE]
           down == [all EXCEPT !.descending = TRUE]
<1>1. DOMAIN q = DOMAIN BuildsSearchQuery /\ q.sortBy \in BuildsSortBy
  BY SearchQueriesAssumption
<1>2. /\ up.start = {} /\ up.limit = {} /\ up.descending = FALSE /\ up.sortBy = q.sortBy
      /\ down.start = {} /\ down.limit = {} /\ down.descending = TRUE /\ down.sortBy = q.sortBy
  BY <1>1 DEF BuildsSearchQuery
<1>3. /\ up.tags = down.tags /\ up.words = down.words /\ up.languages = down.languages
      /\ up.ids = down.ids /\ up.versions = down.versions /\ up.heroes = down.heroes
      /\ up.authors = down.authors /\ up.categories = down.categories
      /\ up.minUpdated = down.minUpdated /\ up.maxUpdated = down.maxUpdated
      /\ up.minPublished = down.minPublished /\ up.maxPublished = down.maxPublished
      /\ up.onlyLatest = down.onlyLatest
  BY <1>1 DEF BuildsSearchQuery
<1> HIDE DEF up, down
<1>4. Matching(up) = Matching(down)
  BY <1>3 DEF Matching
<1>5. Found(up) = Found(down)
  BY <1>3, <1>4 DEF Found, RowNumber
<1>6. ASSUME NEW p \in {up, down} PROVE search_builds(p) = InOrder(p)
  <2>1. Cardinality(Found(p)) \in Nat
    BY FS_Subset, FS_CardinalityType DEF BuildRows, Found, Matching
  <2>2. \A s \in InOrder(p) : s \in [1 .. Cardinality(Found(p)) -> Found(p)]
    BY DEF InOrder
  <2>3. \A s \in InOrder(p) : Page(p, s) = s
    BY <1>2, <2>1, <2>2, WholePage
  <2> QED  BY <2>3 DEF search_builds
<1>7. ASSUME NEW s \in InOrder(down)
      PROVE  Backwards(s) \in InOrder(up)
  BY <1>1, <1>2, <1>5, OrderTurned
<1>8. ASSUME NEW s \in InOrder(up)
      PROVE  Backwards(s) \in InOrder(down) /\ Backwards(Backwards(s)) = s
  <2>1. Backwards(s) \in InOrder(down)
    BY <1>1, <1>2, <1>5, OrderTurned
  <2>2. Cardinality(Found(up)) \in Nat
    BY FS_Subset, FS_CardinalityType DEF BuildRows, Found, Matching
  <2>3. s \in [1 .. Cardinality(Found(up)) -> Found(up)]
    BY DEF InOrder
  <2> QED  BY <2>1, <2>2, <2>3, TurnedTwice
<1>9. search_builds(up) = {Backwards(s) : s \in search_builds(down)}
  BY <1>6, <1>7, <1>8
<1> QED  BY <1>9 DEF Backwards, up, down

\* What is found is finite, and in an answer every row of it is once.
LEMMA FoundOnce ==
    ASSUME BuildRows, NEW q, NEW s \in InOrder(q)
    PROVE  \E n \in Nat :
             /\ DOMAIN s = 1 .. n
             /\ {s[i] : i \in 1 .. n} = Found(q)
             /\ \A i, j \in 1 .. n : s[i] = s[j] => i = j
<1> DEFINE n == Cardinality(Found(q))
           F == Found(q)
<1>1. F \subseteq hero_builds /\ IsFiniteSet(F) /\ n \in Nat
  BY FS_Subset, FS_CardinalityType DEF BuildRows, Found, Matching
<1>2. s \in [1 .. n -> F] /\ {s[i] : i \in 1 .. n} = F
  BY DEF InOrder
<1>3. IsFiniteSet(1 .. n) /\ Cardinality(1 .. n) = Cardinality(F)
  <2>1. 1 \in Int /\ n \in Int /\ (1 > n => n = 0) /\ n - 1 + 1 = n
    BY <1>1
  <2>2. IsFiniteSet(1 .. n) /\ Cardinality(1 .. n) = IF 1 > n THEN 0 ELSE n - 1 + 1
    <3> HIDE DEF n
    <3> QED  BY <2>1, FS_Interval
  <2> QED  BY <2>1, <2>2
<1>4. s \in Surjection(1 .. n, F)
  <2>1. \A t \in F : \E i \in 1 .. n : s[i] = t
    BY <1>2
  <2> HIDE DEF n, F
  <2> QED  BY <1>2, <2>1 DEF Surjection
<1> HIDE DEF n, F
<1>5. s \in Injection(1 .. n, F)
  BY <1>3, <1>4, FS_SurjSameCardinalityImpliesInj
<1>6. \A i, j \in 1 .. n : s[i] = s[j] => i = j
  BY <1>5 DEF Injection, IsInjective
<1> QED  BY <1>1, <1>2, <1>6 DEF F

LEMMA NewestThere ==
    ASSUME BuildRows, NEW K \in SUBSET hero_builds, K # {}
    PROVE  \E d \in K : \A c \in K : c.version <= d.version
<1> DEFINE V == {c.version : c \in K}
           versions == [c \in K |-> c.version]
<1>1. IsFiniteSet(K) /\ \A c \in K : c.version \in Nat
  BY FS_Subset DEF BuildRows, IsRow
<1>2. V \in SUBSET Nat /\ V # {}
  BY <1>1
<1>3. IsFiniteSet(V)
  <2>1. IsFiniteSet({versions[c] : c \in K})
    <3> HIDE DEF versions
    <3> QED  BY <1>1, ImageFinite
  <2>2. V = {versions[c] : c \in K}
    OBVIOUS
  <2> QED  BY <2>1, <2>2
<1>4. Max(V) \in V /\ \A v \in V : Max(V) >= v
  <2> HIDE DEF V
  <2> QED  BY <1>2, <1>3, LargestThere
<1>5. PICK d \in K : d.version = Max(V)
  BY <1>4
<1>6. \A c \in K : c.version \in V /\ d.version >= c.version
  BY <1>4, <1>5
<1> HIDE DEF V
<1> QED  BY <1>1, <1>6

\* With only_latest every build of which a version is found is found once.
LEMMA LatestOfEach == BuildRows => OneVersionOfEach
<1> SUFFICES ASSUME BuildRows, NEW q \in SearchQueries,
                    NEW s \in search_builds([q EXCEPT !.onlyLatest = TRUE, !.limit = {}, !.start = {}]),
                    NEW b \in hero_builds
             PROVE  Cardinality({i \in DOMAIN s : <<s[i].hero, s[i].id>> = <<b.hero, b.id>>})
                      = (IF \E c \in Matching(q) : <<c.hero, c.id>> = <<b.hero, b.id>> THEN 1 ELSE 0)
  BY DEF OneVersionOfEach
<1> DEFINE p == [q EXCEPT !.onlyLatest = TRUE, !.limit = {}, !.start = {}]
           I == {i \in DOMAIN s : <<s[i].hero, s[i].id>> = <<b.hero, b.id>>}
           K == {c \in Matching(q) : <<c.hero, c.id>> = <<b.hero, b.id>>}
<1>1. DOMAIN q = DOMAIN BuildsSearchQuery
  BY SearchQueriesAssumption
<1>2. /\ p.start = {} /\ p.limit = {} /\ p.onlyLatest = TRUE
      /\ p.tags = q.tags /\ p.words = q.words /\ p.languages = q.languages
      /\ p.ids = q.ids /\ p.versions = q.versions /\ p.heroes = q.heroes
      /\ p.authors = q.authors /\ p.categories = q.categories
      /\ p.minUpdated = q.minUpdated /\ p.maxUpdated = q.maxUpdated
      /\ p.minPublished = q.minPublished /\ p.maxPublished = q.maxPublished
  BY <1>1 DEF BuildsSearchQuery
<1>3. s \in search_builds(p)
  OBVIOUS
<1> HIDE DEF p
<1>4. Matching(p) = Matching(q) /\ Matching(q) \subseteq hero_builds
  BY <1>2 DEF Matching
<1>5. s \in InOrder(p)
  <2>1. PICK t \in InOrder(p) : s = Page(p, t)
    BY <1>3 DEF search_builds
  <2>2. Cardinality(Found(p)) \in Nat /\ t \in [1 .. Cardinality(Found(p)) -> Found(p)]
    BY FS_Subset, FS_CardinalityType DEF BuildRows, Found, Matching, InOrder
  <2>3. Page(p, t) = t
    BY <1>2, <2>2, WholePage
  <2> QED  BY <2>1, <2>3
<1>6. PICK n \in Nat : /\ DOMAIN s = 1 .. n
                       /\ {s[i] : i \in 1 .. n} = Found(p)
                       /\ \A i, j \in 1 .. n : s[i] = s[j] => i = j
  BY <1>5, FoundOnce
<1>7. CASE K = {}
  <2>1. \A i \in DOMAIN s : s[i] \in Matching(q)
    BY <1>4, <1>6 DEF Found
  <2>2. I = {}
    BY <1>7, <2>1
  <2> QED  BY <1>7, <2>2, FS_EmptySet
<1>8. CASE K # {}
  <2>1. PICK d \in K : \A c \in K : c.version <= d.version
    BY <1>4, <1>8, NewestThere
  <2>2. \A c \in K : c \in hero_builds /\ c.version \in Nat
    BY <1>4 DEF BuildRows, IsRow
  <2>3. ASSUME NEW x \in K
        PROVE  RowNumber(p, x) = 1 <=> x = d
    <3> DEFINE newer == {c \in Matching(p) : <<c.hero, c.id>> = <<x.hero, x.id>> /\ c.version > x.version}
    <3>1. newer = {c \in K : c.version > x.version}
      BY <1>4
    <3>2. IsFiniteSet(newer)
      BY <1>4, FS_Subset DEF BuildRows
    <3>3. newer = {} <=> x = d
      <4>1. x = d => newer = {}
        BY <2>1, <2>2, <3>1
      <4>2. newer = {} => x.version = d.version
        BY <2>1, <2>2, <3>1
      <4>3. x.version = d.version => x = d
        BY <2>2 DEF BuildRows
      <4> QED  BY <4>1, <4>2, <4>3
    <3>4. RowNumber(p, x) = 1 + Cardinality(newer)
      BY DEF RowNumber
    <3> HIDE DEF newer
    <3>5. Cardinality(newer) \in Nat /\ (Cardinality(newer) = 0 <=> newer = {})
      BY <3>2, FS_CardinalityType, FS_EmptySet
    <3> QED  BY <3>3, <3>4, <3>5
  <2>4. \A x : x \in Found(p) /\ x \in K <=> x = d
    BY <1>2, <1>4, <2>1, <2>3 DEF Found
  <2>5. PICK k \in 1 .. n : s[k] = d
    BY <1>6, <2>4
  <2>6. I = {k}
    <3>1. ASSUME NEW i \in I PROVE i = k
      <4>1. i \in 1 .. n /\ s[i] \in Found(p)
        BY <1>6
      <4>2. s[i] \in K
        BY <1>4, <4>1 DEF Found
      <4>3. s[i] = s[k]
        BY <2>4, <2>5, <4>1, <4>2
      <4> QED  BY <1>6, <4>1, <4>3
    <3>2. k \in I
      BY <1>6, <2>1, <2>5
    <3> QED  BY <3>1, <3>2
  <2>7. Cardinality(I) = 1
    <3> HIDE DEF I
    <3> QED  BY <2>6, FS_Singleton
  <2> QED  BY <1>8, <2>7
<1> QED  BY <1>7, <1>8

\* Each mod of a build is one of its uses, and they are finitely many.
LEMMA ModsFinite ==
    ASSUME NEW b, IsRow(b)
    PROVE  IsFiniteSet(Mods(b)) /\ \A u \in Mods(b) : u[1] = b
<1> DEFINE of == [i \in DOMAIN b.mods |-> {<<b, i, j>> : j \in DOMAIN b.mods[i]}]
<1>1. ASSUME NEW i \in DOMAIN b.mods PROVE IsFiniteSet(of[i])
  <2> DEFINE h == [j \in DOMAIN b.mods[i] |-> <<b, i, j>>]
  <2>1. IsFiniteSet(DOMAIN b.mods[i])
    BY DEF IsRow
  <2>2. of[i] = {h[j] : j \in DOMAIN b.mods[i]}
    OBVIOUS
  <2> HIDE DEF h, of
  <2> QED  BY <2>1, <2>2, ImageFinite
<1>2. Mods(b) = UNION {of[i] : i \in DOMAIN b.mods}
  BY DEF Mods
<1>3. IsFiniteSet(Mods(b))
  <2>1. IsFiniteSet(DOMAIN b.mods)
    BY DEF IsRow
  <2> HIDE DEF of
  <2> QED  BY <1>1, <1>2, <2>1, UnionFinite
<1> QED  BY <1>3 DEF Mods

\* The uses of an item in some builds are those in each of them.
LEMMA UsesAddUp ==
    ASSUME BuildRows, NEW B \in SUBSET hero_builds, NEW item
    PROVE  Cardinality({u \in UNION {Mods(b) : b \in B} : u[1].mods[u[2]][u[3]] = item}) = UsesIn(B, item)
<1> DEFINE S == {u \in UNION {Mods(b) : b \in B} : u[1].mods[u[2]][u[3]] = item}
           key == [u \in S |-> u[1]]
           part == [b \in B |-> Cardinality({u \in Mods(b) : b.mods[u[2]][u[3]] = item})]
           mods == [b \in B |-> Mods(b)]
<1>1. \A b \in B : IsFiniteSet(mods[b]) /\ \A u \in mods[b] : u[1] = b
  BY ModsFinite DEF BuildRows
<1>2. IsFiniteSet(B)
  BY FS_Subset DEF BuildRows
<1>3. IsFiniteSet(S)
  <2>1. IsFiniteSet(UNION {mods[b] : b \in B})
    <3> HIDE DEF mods
    <3> QED  BY <1>1, <1>2, UnionFinite
  <2>2. UNION {mods[b] : b \in B} = UNION {Mods(b) : b \in B}
    OBVIOUS
  <2> QED  BY <2>1, <2>2, FS_Subset
<1>4. \A u \in S : key[u] \in B
  BY <1>1
<1>5. ASSUME NEW b \in B PROVE part[b] = Cardinality(WithKey(S, key, b))
  <2>1. {u \in Mods(b) : b.mods[u[2]][u[3]] = item} = WithKey(S, key, b)
    BY <1>1 DEF WithKey
  <2> QED  BY <2>1
<1>6. UsesIn(B, item) = SumFunctionOnSet(part, B)
  BY DEF UsesIn, SumFunction
<1> HIDE DEF S, key, part
<1>7. Cardinality(S) = SumFunctionOnSet(part, B)
  BY <1>2, <1>3, <1>4, <1>5, CountByKey
<1> QED  BY <1>6, <1>7 DEF S

LEMMA UsesGrow ==
    ASSUME BuildRows, NEW B, NEW C \in SUBSET hero_builds, B \subseteq C, NEW item
    PROVE  UsesIn(B, item) <= UsesIn(C, item)
<1> DEFINE inB == {u \in UNION {Mods(b) : b \in B} : u[1].mods[u[2]][u[3]] = item}
           inC == {u \in UNION {Mods(b) : b \in C} : u[1].mods[u[2]][u[3]] = item}
           mods == [b \in C |-> Mods(b)]
<1>1. Cardinality(inB) = UsesIn(B, item) /\ Cardinality(inC) = UsesIn(C, item)
  BY UsesAddUp
<1>2. inB \subseteq inC
  OBVIOUS
<1>3. IsFiniteSet(inC)
  <2>1. IsFiniteSet(C) /\ \A b \in C : IsFiniteSet(mods[b])
    BY FS_Subset, ModsFinite DEF BuildRows
  <2>2. IsFiniteSet(UNION {mods[b] : b \in C})
    <3> HIDE DEF mods
    <3> QED  BY <2>1, UnionFinite
  <2>3. UNION {mods[b] : b \in C} = UNION {Mods(b) : b \in C}
    OBVIOUS
  <2> QED  BY <2>2, <2>3, FS_Subset
<1> HIDE DEF inB, inC
<1>4. Cardinality(inB) <= Cardinality(inC)
  BY <1>2, <1>3, FS_Subset
<1> QED  BY <1>1, <1>4

\* The builds whose items are counted are those the search finds, ends excepted.
LEMMA ItemsSearched == BuildRows => ItemsOfSearch
<1> DEFINE search(q, a, b) == Matching([BuildsSearchQuery EXCEPT
                                !.heroes = q.heroes, !.minUpdated = {t + a : t \in q.minUpdated},
                                !.maxUpdated = {t - b : t \in q.maxUpdated}])
<1> SUFFICES ASSUME BuildRows, NEW q \in BuildItemQueries, NEW item \in DOMAIN build_item_stats(q)
             PROVE  /\ UsesIn(search(q, 1, 1), item) = build_item_stats(q)[item]
                    /\ build_item_stats(q)[item] <= UsesIn(search(q, 0, 0), item)
  BY Zenon DEF ItemsOfSearch
<1> DEFINE B == {b \in hero_builds : (\A v \in q.heroes : b.hero = v) /\ UpdatedIn(q, b)}
<1>1. q.minUpdated \subseteq Nat /\ q.maxUpdated \subseteq Nat
  BY BuildItemQueriesAssumption
<1>2. ASSUME NEW a \in {0, 1}
      PROVE  search(q, a, a) = {b \in hero_builds : /\ \A v \in q.heroes : b.hero = v
                                                    /\ InRange({t + a : t \in q.minUpdated},
                                                               {t - a : t \in q.maxUpdated}, b.updated)}
  <2> DEFINE p == [BuildsSearchQuery EXCEPT
                      !.heroes = q.heroes, !.minUpdated = {t + a : t \in q.minUpdated},
                      !.maxUpdated = {t - a : t \in q.maxUpdated}]
  <2>1. /\ p.tags = {} /\ p.words = {} /\ p.languages = {} /\ p.ids = {} /\ p.versions = {}
        /\ p.authors = {} /\ p.categories = {} /\ p.minPublished = {} /\ p.maxPublished = {}
        /\ p.heroes = q.heroes
        /\ p.minUpdated = {t + a : t \in q.minUpdated}
        /\ p.maxUpdated = {t - a : t \in q.maxUpdated}
    BY DEF BuildsSearchQuery
  <2> HIDE DEF p
  <2>2. \A b : InRange(p.minPublished, p.maxPublished, b.published)
    BY <2>1 DEF InRange
  <2>3. Matching(p) = {b \in hero_builds : /\ \A v \in q.heroes : b.hero = v
                                           /\ InRange(p.minUpdated, p.maxUpdated, b.updated)}
    BY <2>1, <2>2 DEF Matching
  <2> QED  BY <2>1, <2>3 DEF p
<1>3. search(q, 1, 1) = B
  BY <1>2 DEF UpdatedIn
<1>4. B \subseteq search(q, 0, 0) /\ search(q, 0, 0) \subseteq hero_builds
  <2>1. \A b \in hero_builds : b.updated \in Nat
    BY DEF BuildRows, IsRow
  <2>2. ASSUME NEW b \in hero_builds, UpdatedIn(q, b)
        PROVE  InRange({t + 0 : t \in q.minUpdated}, {t - 0 : t \in q.maxUpdated}, b.updated)
    <3>1. ASSUME NEW t \in q.minUpdated PROVE b.updated >= t + 0
      <4>1. b.updated >= t + 1
        BY <2>2 DEF UpdatedIn, InRange
      <4> QED  BY <1>1, <2>1, <4>1
    <3>2. ASSUME NEW t \in q.maxUpdated PROVE b.updated <= t - 0
      <4>1. b.updated <= t - 1
        BY <2>2 DEF UpdatedIn, InRange
      <4> QED  BY <1>1, <2>1, <4>1
    <3> QED  BY <3>1, <3>2 DEF InRange
  <2> HIDE DEF search
  <2> QED  BY <1>2, <2>2
<1> HIDE DEF search
<1>5. build_item_stats(q)[item] = Cardinality({u \in UNION {Mods(b) : b \in B} : u[1].mods[u[2]][u[3]] = item})
  BY DEF build_item_stats, Uses
<1>6. build_item_stats(q)[item] = UsesIn(B, item)
  <2>1. B \subseteq hero_builds
    OBVIOUS
  <2> HIDE DEF B
  <2> QED  BY <1>5, <2>1, UsesAddUp
<1>7. UsesIn(B, item) <= UsesIn(search(q, 0, 0), item)
  <2> HIDE DEF B
  <2> QED  BY <1>4, UsesGrow
<1> QED  BY <1>3, <1>6, <1>7

\* An order turned round is the other order, of each build the newest version found
\* is there once, and items are counted in the builds the search finds, whatever
\* versions are published and voted for.
THEOREM BuildsDoFit == BuildsSpec => []BuildsFit
<1>1. BuildRows => BuildsFit
  BY BuildsTurn, LatestOfEach, ItemsSearched DEF BuildsFit
<1> QED  BY <1>1, BuildsGrow, PTL

----------------------------------------------------------------------------
\* Players: what is counted of one account, of its mates and its enemies.

\* The histories are finite, and what is in them is about matches there may be.
HistoryTables == Tables /\ stored \in SUBSET HistoryRows /\ IsFiniteSet(stored)

LEMMA HistoriesGrow == PlayerSpec => []HistoryTables
<1>1. PlayerInit => HistoryTables
  BY FS_EmptySet DEF PlayerInit, TablesInit, HistoryTables, Tables
<1>2. ASSUME HistoryTables, [PlayerNext]_playerTables PROVE HistoryTables'
  <2>1. ASSUME NEW m \in PossibleMatches, Store(m), UNCHANGED stored PROVE HistoryTables'
    BY <1>2, <2>1, FS_AddElement DEF HistoryTables, Tables, Store
  <2>2. ASSUME NEW a, Protect(a), UNCHANGED stored PROVE HistoryTables'
    BY <1>2, <2>2 DEF HistoryTables, Tables, Protect
  <2>3. ASSUME NEW r \in HistoryRows, StoreHistory(r) PROVE HistoryTables'
    BY <1>2, <2>3, FS_AddElement DEF HistoryTables, Tables, StoreHistory, tables
  <2>4. CASE UNCHANGED playerTables
    BY <1>2, <2>4 DEF HistoryTables, Tables, playerTables
  <2> QED  BY <1>2, <2>1, <2>2, <2>3, <2>4 DEF PlayerNext, TablesNext
<1> QED  BY <1>1, <1>2, PTL DEF PlayerSpec

\* Two rows of a player's history are about different matches, and one match has one id.
LEMMA HistoryKey ==
    ASSUME HistoryTables, NEW r \in Histories, NEW s \in Histories
    PROVE  /\ r.match \in PossibleMatches /\ r.p.won \in BOOLEAN
           /\ r.match.id = s.match.id => r.match = s.match
           /\ r.match.id = s.match.id /\ r.p.account = s.p.account => r = s
           /\ r.match.id = s.match.id /\ r.p.team = s.p.team => r.p.won = s.p.won
           /\ r.match.id = s.match.id /\ {r.p.team, s.p.team} = {0, 1} => r.p.won # s.p.won
<1>1. r \in HistoryRows /\ s \in HistoryRows
  BY DEF HistoryTables, Histories
<1>2. r.match \in PossibleMatches /\ s.match \in PossibleMatches /\ r.p.won \in BOOLEAN
  BY <1>1, HistoryAssumption
<1>3. r.match.id = s.match.id => r.match = s.match
  BY <1>2, HistoryAssumption
<1>4. r.match = s.match => /\ r.p.account = s.p.account => r = s
                           /\ r.p.team = s.p.team => r.p.won = s.p.won
                           /\ {r.p.team, s.p.team} = {0, 1} => r.p.won # s.p.won
  BY <1>1, HistoryAssumption
<1> QED  BY <1>2, <1>3, <1>4

IdsOf(rows) == {r.match.id : r \in rows}

\* A player's rows are as many as their matches.
LEMMA RowsAreMatches ==
    ASSUME HistoryTables, NEW rows \in SUBSET Histories, NEW account, \A r \in rows : r.p.account = account
    PROVE  IsFiniteSet(rows) /\ Cardinality(IdsOf(rows)) = Cardinality(rows)
<1> DEFINE h == [r \in rows |-> r.match.id]
<1>1. IsFiniteSet(rows)
  BY FS_Subset DEF HistoryTables, Histories
<1>2. \A r, s \in rows : h[r] = h[s] => r = s
  BY HistoryKey
<1>3. IdsOf(rows) = {h[r] : r \in rows}
  BY DEF IdsOf
<1> HIDE DEF h
<1> QED  BY <1>1, <1>2, <1>3, CountImage

Together(q, a, b) == {r \in TeamMates(a, q) : r.p.account = b}
Opposed(q, a, b) == {r \in EnemyRows(a, q) : r.p.account = b}

\* The same match is in the other's answer.
LEMMA TogetherMutual ==
    ASSUME HistoryTables, NEW q, NEW a, NEW b, a # b, NEW r \in Together(q, a, b)
    PROVE  \E s \in Together(q, b, a) : s.match.id = r.match.id /\ s.p.won = r.p.won
<1>1. r \in Histories /\ r.p.account = b
  BY DEF Together, TeamMates
<1>2. PICK h \in MateHistories(a, q) : h.match.id = r.match.id /\ h.p.team = r.p.team
  BY DEF Together, TeamMates
<1>3. h \in Histories /\ h.p.account = a /\ InfoFilters(q.info, h.match)
  BY <1>2 DEF MateHistories
<1>4. h.match = r.match /\ h.p.won = r.p.won
  BY <1>1, <1>2, <1>3, HistoryKey
<1>5. r \in MateHistories(b, q)
  BY <1>1, <1>3, <1>4 DEF MateHistories
<1>6. h \in Together(q, b, a)
  BY <1>2, <1>3, <1>5 DEF Together, TeamMates
<1> QED  BY <1>2, <1>4, <1>6

LEMMA OpposedMutual ==
    ASSUME HistoryTables, NEW q, NEW a, NEW b, NEW r \in Opposed(q, a, b)
    PROVE  \E s \in Opposed(q, b, a) : s.match.id = r.match.id /\ s.p.won # r.p.won
<1>1. r \in Histories /\ r.p.account = b
  BY DEF Opposed, EnemyRows
<1>2. PICK h \in EnemyHistories(a, q) : h.match.id = r.match.id /\ r.p.team = (IF h.p.team = 1 THEN 0 ELSE 1)
  BY DEF Opposed, EnemyRows
<1>3. h \in Histories /\ h.p.account = a /\ h.p.team \in {0, 1} /\ InfoFilters(q.info, h.match)
  BY <1>2 DEF EnemyHistories
<1>4. {h.p.team, r.p.team} = {0, 1} /\ h.p.team = (IF r.p.team = 1 THEN 0 ELSE 1) /\ r.p.team \in {0, 1}
  BY <1>2, <1>3
<1>5. h.match = r.match /\ h.p.won # r.p.won
  BY <1>1, <1>2, <1>3, <1>4, HistoryKey
<1>6. r \in EnemyHistories(b, q)
  BY <1>1, <1>3, <1>4, <1>5 DEF EnemyHistories
<1>7. h \in Opposed(q, b, a)
  BY <1>2, <1>3, <1>4, <1>6 DEF Opposed, EnemyRows
<1> QED  BY <1>2, <1>5, <1>7

\* Two players share as many matches and wins whoever is asked.
LEMMA SameTogether ==
    ASSUME HistoryTables, NEW q, NEW a, NEW b, a # b
    PROVE  /\ IdsOf(Together(q, a, b)) = IdsOf(Together(q, b, a))
           /\ Cardinality({r \in Together(q, a, b) : r.p.won}) = Cardinality({s \in Together(q, b, a) : s.p.won})
<1> DEFINE won(x, y) == {r \in Together(q, x, y) : r.p.won}
<1>1. \A x, y : Together(q, x, y) \subseteq Histories
  BY DEF Together, TeamMates
<1>2. IdsOf(Together(q, a, b)) \subseteq IdsOf(Together(q, b, a))
  BY TogetherMutual DEF IdsOf
<1>3. IdsOf(Together(q, b, a)) \subseteq IdsOf(Together(q, a, b))
  BY TogetherMutual DEF IdsOf
<1>4. IdsOf(won(a, b)) \subseteq IdsOf(won(b, a))
  BY TogetherMutual DEF IdsOf
<1>5. IdsOf(won(b, a)) \subseteq IdsOf(won(a, b))
  BY TogetherMutual DEF IdsOf
<1>6. \A x, y : Cardinality(IdsOf(won(x, y))) = Cardinality(won(x, y))
  <2> TAKE x, y
  <2>1. won(x, y) \subseteq Histories /\ \A r \in won(x, y) : r.p.account = y
    BY <1>1 DEF Together
  <2> HIDE DEF won
  <2> QED  BY <2>1, RowsAreMatches
<1> HIDE DEF won
<1>7. Cardinality(won(a, b)) = Cardinality(won(b, a))
  BY <1>4, <1>5, <1>6
<1> QED  BY <1>2, <1>3, <1>7 DEF won

\* Of the matches against each other every one is lost by one of the two.
LEMMA SameOpposed ==
    ASSUME HistoryTables, NEW q, NEW a, NEW b
    PROVE  /\ IdsOf(Opposed(q, a, b)) = IdsOf(Opposed(q, b, a))
           /\ Cardinality({s \in Opposed(q, b, a) : ~s.p.won}) + Cardinality({r \in Opposed(q, a, b) : ~r.p.won})
                = Cardinality(IdsOf(Opposed(q, a, b)))
<1> DEFINE R == Opposed(q, a, b)
           S == Opposed(q, b, a)
           won == {r \in R : r.p.won}
           lost == {r \in R : ~r.p.won}
           theirs == {s \in S : ~s.p.won}
<1>1. R \subseteq Histories /\ S \subseteq Histories
  BY DEF Opposed, EnemyRows
<1>2. (\A r \in R : r.p.account = b /\ r.p.won \in BOOLEAN) /\ \A s \in S : s.p.account = a
  BY <1>1, HistoryKey DEF Opposed
<1>3. \A r \in R : \E s \in S : s.match.id = r.match.id /\ s.p.won # r.p.won
  BY OpposedMutual
<1>4. \A s \in S : \E r \in R : r.match.id = s.match.id /\ r.p.won # s.p.won
  BY OpposedMutual
<1> HIDE DEF R, S
<1>5. IdsOf(R) = IdsOf(S)
  BY <1>3, <1>4 DEF IdsOf
<1>6. IdsOf(theirs) = IdsOf(won)
  <2>1. \A s \in S : s.p.won \in BOOLEAN
    BY <1>1, HistoryKey
  <2>2. \A r \in won : \E s \in theirs : s.match.id = r.match.id
    BY <1>2, <1>3
  <2>3. \A s \in theirs : \E r \in won : r.match.id = s.match.id
    BY <1>2, <1>4, <2>1
  <2> HIDE DEF won, theirs
  <2> QED  BY <2>2, <2>3 DEF IdsOf
<1>7. /\ IsFiniteSet(R) /\ Cardinality(IdsOf(R)) = Cardinality(R)
      /\ Cardinality(IdsOf(won)) = Cardinality(won)
      /\ Cardinality(IdsOf(theirs)) = Cardinality(theirs)
  <2>1. won \subseteq Histories /\ (\A r \in won : r.p.account = b)
    BY <1>1, <1>2
  <2>2. theirs \subseteq Histories /\ (\A r \in theirs : r.p.account = a)
    BY <1>1, <1>2
  <2> HIDE DEF won, theirs
  <2>3. IsFiniteSet(R) /\ Cardinality(IdsOf(R)) = Cardinality(R)
    BY <1>1, <1>2, RowsAreMatches
  <2>4. Cardinality(IdsOf(won)) = Cardinality(won)
    BY <2>1, RowsAreMatches
  <2>5. Cardinality(IdsOf(theirs)) = Cardinality(theirs)
    BY <2>2, RowsAreMatches
  <2> QED  BY <2>3, <2>4, <2>5
<1>8. Cardinality(won) + Cardinality(lost) = Cardinality(R)
  <2>1. won \cap lost = {} /\ won \cup lost = R /\ IsFiniteSet(won) /\ IsFiniteSet(lost)
    BY <1>7, FS_Subset
  <2> HIDE DEF won, lost
  <2> QED  BY <2>1, TwoParts
<1> QED  BY <1>5, <1>6, <1>7, <1>8 DEF R, S

\* The stats of an account among rows are those of its rows.
OfAccount(rows, b) == {r \in rows : r.p.account = b}
OwnStats(rows, won) == [wins |-> Cardinality(rows \cap won), matches |-> IdsOf(rows)]

LEMMA AccountsNamed ==
    ASSUME NEW q, NEW rows, NEW won, NEW b
    PROVE  b \in DOMAIN ByAccount(q, rows, won) <=>
                /\ OfAccount(rows, b) # {}
                /\ Within(q.minMatches, q.maxMatches, Cardinality(IdsOf(OfAccount(rows, b))))
<1> DEFINE stats(x) == StatsOf({r \in rows : r.p.account = x}, won)
<1>1. \A x : stats(x).matches = IdsOf(OfAccount(rows, x))
  BY DEF StatsOf, IdsOf, OfAccount
<1>2. \A x : x \in {r.p.account : r \in rows} <=> OfAccount(rows, x) # {}
  BY DEF OfAccount
<1>3. DOMAIN ByAccount(q, rows, won) =
        {x \in {r.p.account : r \in rows} : Within(q.minMatches, q.maxMatches, Cardinality(stats(x).matches))}
  BY DEF ByAccount
<1> HIDE DEF stats
<1> QED  BY <1>1, <1>2, <1>3

LEMMA StatsByAccount ==
    ASSUME NEW q, NEW rows, NEW won, NEW b, b \in DOMAIN ByAccount(q, rows, won)
    PROVE  ByAccount(q, rows, won)[b] = OwnStats(OfAccount(rows, b), won)
BY DEF ByAccount, StatsOf, IdsOf, OfAccount, OwnStats

\* The answers to a known player about mates and enemies, by who is named.
LEMMA MatesCounted ==
    ASSUME NEW q, ~q.sameParty, NEW a, Known(a), NEW b
    PROVE  /\ b \in DOMAIN mate_stats(a, q) <=>
                /\ Together(q, a, b) # {}
                /\ Within(q.minMatches, q.maxMatches, Cardinality(IdsOf(Together(q, a, b))))
           /\ b \in DOMAIN mate_stats(a, q) =>
                mate_stats(a, q)[b] = [wins |-> Cardinality({r \in Together(q, a, b) : r.p.won}),
                                   matches |-> IdsOf(Together(q, a, b))]
<1> DEFINE rows == TeamMates(a, q)
           won == {r \in rows : r.p.won}
<1>1. mate_stats(a, q) = ByAccount(q, rows, won)
  BY DEF mate_stats, Answer, Known
<1>2. OfAccount(rows, b) = Together(q, a, b)
  BY DEF Together, OfAccount
<1>3. OwnStats(Together(q, a, b), won) = [wins |-> Cardinality({r \in Together(q, a, b) : r.p.won}),
                                          matches |-> IdsOf(Together(q, a, b))]
  <2>1. Together(q, a, b) \cap won = {r \in Together(q, a, b) : r.p.won}
    BY DEF Together
  <2> QED  BY <2>1 DEF OwnStats
<1> HIDE DEF rows, won
<1>4. b \in DOMAIN ByAccount(q, rows, won) <=>
        /\ OfAccount(rows, b) # {}
        /\ Within(q.minMatches, q.maxMatches, Cardinality(IdsOf(OfAccount(rows, b))))
  BY AccountsNamed, Zenon
<1>5. b \in DOMAIN ByAccount(q, rows, won) =>
        ByAccount(q, rows, won)[b] = OwnStats(OfAccount(rows, b), won)
  BY StatsByAccount
<1> QED  BY <1>1, <1>2, <1>3, <1>4, <1>5

LEMMA EnemiesCounted ==
    ASSUME NEW q, NEW a, Known(a), NEW b
    PROVE  /\ b \in DOMAIN enemy_stats(a, q) <=>
                /\ Opposed(q, a, b) # {}
                /\ Within(q.minMatches, q.maxMatches, Cardinality(IdsOf(Opposed(q, a, b))))
           /\ b \in DOMAIN enemy_stats(a, q) =>
                enemy_stats(a, q)[b] = [wins |-> Cardinality({r \in Opposed(q, a, b) : ~r.p.won}),
                                   matches |-> IdsOf(Opposed(q, a, b))]
<1> DEFINE rows == EnemyRows(a, q)
           won == {r \in rows : ~r.p.won}
<1>1. enemy_stats(a, q) = ByAccount(q, rows, won)
  BY DEF enemy_stats, Answer, Known
<1>2. OfAccount(rows, b) = Opposed(q, a, b)
  BY DEF Opposed, OfAccount
<1>3. OwnStats(Opposed(q, a, b), won) = [wins |-> Cardinality({r \in Opposed(q, a, b) : ~r.p.won}),
                                          matches |-> IdsOf(Opposed(q, a, b))]
  <2>1. Opposed(q, a, b) \cap won = {r \in Opposed(q, a, b) : ~r.p.won}
    BY DEF Opposed
  <2> QED  BY <2>1 DEF OwnStats
<1> HIDE DEF rows, won
<1>4. b \in DOMAIN ByAccount(q, rows, won) <=>
        /\ OfAccount(rows, b) # {}
        /\ Within(q.minMatches, q.maxMatches, Cardinality(IdsOf(OfAccount(rows, b))))
  BY AccountsNamed, Zenon
<1>5. b \in DOMAIN ByAccount(q, rows, won) =>
        ByAccount(q, rows, won)[b] = OwnStats(OfAccount(rows, b), won)
  BY StatsByAccount
<1> QED  BY <1>1, <1>2, <1>3, <1>4, <1>5

LEMMA SeenTheSame == HistoryTables => PlayersSeeTheSame
<1> SUFFICES ASSUME HistoryTables, NEW q \in StatsQueries,
                    NEW a \in Participants, NEW b \in Participants, Known(a), Known(b), ~q.sameParty
             PROVE  LET mates == mate_stats(a, q)
                        enemies == enemy_stats(a, q)
                    IN  /\ b \in DOMAIN mates => a \in DOMAIN mate_stats(b, q) /\ mates[b] = mate_stats(b, q)[a]
                        /\ b \in DOMAIN enemies =>
                             LET theirs == enemy_stats(b, q)
                             IN  /\ a \in DOMAIN theirs
                                 /\ theirs[a].matches = enemies[b].matches
                                 /\ theirs[a].wins + enemies[b].wins = Cardinality(enemies[b].matches)
  BY DEF PlayersSeeTheSame
<1>1. ASSUME b \in DOMAIN mate_stats(a, q)
      PROVE  a \in DOMAIN mate_stats(b, q) /\ mate_stats(a, q)[b] = mate_stats(b, q)[a]
  <2>1. /\ Together(q, a, b) # {}
        /\ Within(q.minMatches, q.maxMatches, Cardinality(IdsOf(Together(q, a, b))))
        /\ mate_stats(a, q)[b] =
             [wins |-> Cardinality({r \in Together(q, a, b) : r.p.won}), matches |-> IdsOf(Together(q, a, b))]
    BY <1>1, MatesCounted
  <2>2. a # b
    BY <2>1 DEF Together, TeamMates
  <2>3. /\ IdsOf(Together(q, a, b)) = IdsOf(Together(q, b, a))
        /\ Cardinality({r \in Together(q, a, b) : r.p.won}) = Cardinality({s \in Together(q, b, a) : s.p.won})
    BY <2>2, SameTogether
  <2>4. Together(q, b, a) # {}
    BY <2>1, <2>2, TogetherMutual
  <2>5. a \in DOMAIN mate_stats(b, q)
    BY <2>1, <2>3, <2>4, MatesCounted
  <2>6. mate_stats(b, q)[a] =
          [wins |-> Cardinality({r \in Together(q, b, a) : r.p.won}), matches |-> IdsOf(Together(q, b, a))]
    BY <2>5, MatesCounted
  <2> QED  BY <2>1, <2>3, <2>5, <2>6
<1>2. ASSUME b \in DOMAIN enemy_stats(a, q)
      PROVE  /\ a \in DOMAIN enemy_stats(b, q)
             /\ enemy_stats(b, q)[a].matches = enemy_stats(a, q)[b].matches
             /\ enemy_stats(b, q)[a].wins + enemy_stats(a, q)[b].wins = Cardinality(enemy_stats(a, q)[b].matches)
  <2>1. /\ Opposed(q, a, b) # {}
        /\ Within(q.minMatches, q.maxMatches, Cardinality(IdsOf(Opposed(q, a, b))))
        /\ enemy_stats(a, q)[b] =
             [wins |-> Cardinality({r \in Opposed(q, a, b) : ~r.p.won}), matches |-> IdsOf(Opposed(q, a, b))]
    BY <1>2, EnemiesCounted
  <2>2. /\ IdsOf(Opposed(q, a, b)) = IdsOf(Opposed(q, b, a))
        /\ Cardinality({s \in Opposed(q, b, a) : ~s.p.won}) + Cardinality({r \in Opposed(q, a, b) : ~r.p.won})
             = Cardinality(IdsOf(Opposed(q, a, b)))
    BY SameOpposed
  <2>3. Opposed(q, b, a) # {}
    BY <2>1, OpposedMutual
  <2>4. a \in DOMAIN enemy_stats(b, q)
    BY <2>1, <2>2, <2>3, EnemiesCounted
  <2>5. enemy_stats(b, q)[a] =
          [wins |-> Cardinality({r \in Opposed(q, b, a) : ~r.p.won}), matches |-> IdsOf(Opposed(q, b, a))]
    BY <2>4, EnemiesCounted
  <2> HIDE DEF Opposed
  <2> QED  BY <2>1, <2>2, <2>4, <2>5
<1> QED  BY <1>1, <1>2

LEMMA UnlimitedFields ==
    ASSUME NEW q \in StatsQueries, NEW party
    PROVE  /\ Unlimited(q, party).info = q.info
           /\ Unlimited(q, party).sameParty = party
           /\ Unlimited(q, party).minMatches = {}
           /\ Unlimited(q, party).maxMatches = {}
BY StatsQueriesAssumption DEF Unlimited, MateStatsQuery

Has(stats, b) == IF b \in DOMAIN stats THEN stats[b].matches ELSE {}

\* Without limits, the matches of an account are those of its rows.
LEMMA MatchesByAccount ==
    ASSUME NEW q, q.minMatches = {}, q.maxMatches = {}, NEW rows, NEW won, NEW b
    PROVE  /\ b \in DOMAIN ByAccount(q, rows, won) <=> OfAccount(rows, b) # {}
           /\ Has(ByAccount(q, rows, won), b) = IdsOf(OfAccount(rows, b))
<1>1. \A n : Within(q.minMatches, q.maxMatches, n)
  BY DEF Within, AtLeast, AtMost
<1>2. b \in DOMAIN ByAccount(q, rows, won) <=>
        /\ OfAccount(rows, b) # {}
        /\ Within(q.minMatches, q.maxMatches, Cardinality(IdsOf(OfAccount(rows, b))))
  BY AccountsNamed, Zenon
<1>3. b \in DOMAIN ByAccount(q, rows, won) <=> OfAccount(rows, b) # {}
  BY <1>1, <1>2
<1>4. CASE b \in DOMAIN ByAccount(q, rows, won)
  <2>1. ByAccount(q, rows, won)[b] = OwnStats(OfAccount(rows, b), won)
    BY <1>4, StatsByAccount
  <2> QED  BY <1>3, <1>4, <2>1 DEF OwnStats, Has
<1>5. CASE b \notin DOMAIN ByAccount(q, rows, won)
  BY <1>3, <1>5 DEF Has, IdsOf
<1> QED  BY <1>3, <1>4, <1>5

\* The history and the details of a match say the same of a player.
LEMMA HistoryIsRow ==
    ASSUME HistoryTables, NEW h \in Histories, NEW r \in RowsOf(matches),
           h.match.id = r.match.id, h.p.account = r.p.account
    PROVE  h.match = r.match /\ h.p = r.p
<1>1. h \in HistoryRows /\ matches \subseteq PossibleMatches
  BY DEF HistoryTables, Tables, Histories
<1>2. r.match \in matches /\ r.p \in r.match.players
  BY DEF RowsOf, PlayersOf
<1>3. h.match \in PossibleMatches /\ \A p \in h.match.players : p.account = h.p.account => p = h.p
  BY <1>1, HistoryAssumption
<1>4. h.match = r.match
  BY <1>1, <1>2, <1>3, HistoryAssumption
<1> QED  BY <1>2, <1>3, <1>4

LEMMA PartyIsTeam == HistoryTables => PartyMatesAreMates
<1> SUFFICES ASSUME HistoryTables, NEW q \in StatsQueries, NEW a \in Participants, Known(a), NEW b \in Participants
             PROVE  /\ Has(mate_stats(a, Unlimited(q, FALSE)), b) \cap Has(enemy_stats(a, Unlimited(q, FALSE)), b) = {}
                    /\ Has(mate_stats(a, Unlimited(q, TRUE)), b)
                         \cap {h.match.id : h \in {h \in Histories : h.p.account = b}}
                         \subseteq Has(mate_stats(a, Unlimited(q, FALSE)), b)
  BY DEF PartyMatesAreMates, Has
<1> DEFINE u == Unlimited(q, FALSE)
           v == Unlimited(q, TRUE)
<1>1. /\ u.info = q.info /\ u.sameParty = FALSE /\ u.minMatches = {} /\ u.maxMatches = {}
      /\ v.info = q.info /\ v.sameParty = TRUE /\ v.minMatches = {} /\ v.maxMatches = {}
  BY UnlimitedFields
<1> HIDE DEF u, v
<1>2. Has(mate_stats(a, u), b) = IdsOf(OfAccount(TeamMates(a, u), b))
  <2>1. mate_stats(a, u) = ByAccount(u, TeamMates(a, u), {r \in TeamMates(a, u) : r.p.won})
    BY <1>1 DEF mate_stats, Answer, Known
  <2> QED  BY <1>1, <2>1, MatchesByAccount
<1>3. Has(mate_stats(a, v), b) = IdsOf(OfAccount(PartyMates(a, v), b))
  <2>1. mate_stats(a, v) = ByAccount(v, PartyMates(a, v), {r \in PartyMates(a, v) : r.p.won})
    BY <1>1 DEF mate_stats, Answer, Known
  <2> QED  BY <1>1, <2>1, MatchesByAccount
<1>4. Has(enemy_stats(a, u), b) = IdsOf(OfAccount(EnemyRows(a, u), b))
  <2>1. enemy_stats(a, u) = ByAccount(u, EnemyRows(a, u), {r \in EnemyRows(a, u) : ~r.p.won})
    BY DEF enemy_stats, Answer, Known
  <2> QED  BY <1>1, <2>1, MatchesByAccount
<1>5. ASSUME NEW x \in Has(mate_stats(a, u), b), x \in Has(enemy_stats(a, u), b)
      PROVE  FALSE
  <2>1. PICK r \in TeamMates(a, u) : r.match.id = x /\ r.p.account = b
    BY <1>2, <1>5 DEF IdsOf, OfAccount
  <2>2. PICK s \in EnemyRows(a, u) : s.match.id = x /\ s.p.account = b
    BY <1>4, <1>5 DEF IdsOf, OfAccount
  <2>3. PICK h \in Histories : h.p.account = a /\ h.match.id = r.match.id /\ h.p.team = r.p.team
    BY DEF TeamMates, MateHistories
  <2>4. PICK g \in Histories : /\ g.p.account = a /\ g.p.team \in {0, 1}
                               /\ g.match.id = s.match.id /\ s.p.team = (IF g.p.team = 1 THEN 0 ELSE 1)
    BY DEF EnemyRows, EnemyHistories
  <2>5. r \in Histories /\ s \in Histories
    BY DEF TeamMates, EnemyRows
  <2>6. r = s /\ h = g
    BY <2>1, <2>2, <2>3, <2>4, <2>5, HistoryKey
  <2> QED  BY <2>3, <2>4, <2>6
<1>6. ASSUME NEW x \in Has(mate_stats(a, v), b), NEW g \in Histories, g.p.account = b, g.match.id = x
      PROVE  x \in Has(mate_stats(a, u), b)
  <2>1. PICK r \in PartyMates(a, v) : r.match.id = x /\ r.p.account = b
    BY <1>3, <1>6 DEF IdsOf, OfAccount
  <2>2. r \in RowsOf(matches) /\ b # a
    BY <2>1 DEF PartyMates
  <2>3. PICK own \in RowsOf(matches) : /\ own.p.account = a /\ own.match = r.match /\ own.p.team = r.p.team
                                       /\ \E h \in MateHistories(a, v) : h.match.id = own.match.id
    BY DEF PartyMates
  <2>4. PICK h \in MateHistories(a, v) : h.match.id = own.match.id
    BY <2>3
  <2>5. h \in Histories /\ h.p.account = a /\ InfoFilters(q.info, h.match)
    BY <1>1 DEF MateHistories
  <2>6. g.p = r.p
    BY <1>6, <2>1, <2>2, HistoryIsRow
  <2>7. h.p = own.p
    BY <2>3, <2>4, <2>5, HistoryIsRow
  <2>8. h \in MateHistories(a, u)
    BY <1>1, <2>5 DEF MateHistories
  <2>9. g \in TeamMates(a, u)
    BY <1>6, <2>1, <2>2, <2>3, <2>4, <2>6, <2>7, <2>8 DEF TeamMates
  <2> QED  BY <1>2, <1>6, <2>9 DEF IdsOf, OfAccount
<1>7. Has(mate_stats(a, u), b) \cap Has(enemy_stats(a, u), b) = {}
  BY <1>5
<1>8. Has(mate_stats(a, v), b) \cap {h.match.id : h \in {h \in Histories : h.p.account = b}}
        \subseteq Has(mate_stats(a, u), b)
  BY <1>6
<1> QED  BY <1>7, <1>8 DEF u, v

HeroKey(r) == <<r.p.account, r.p.hero>>
HeroGroup(q, k) == {r \in HeroMatchRows(q) : <<r.p.account, r.p.hero>> = k}

\* What a call for few enough accounts is answered.
LEMMA HeroStatsByKey ==
    ASSUME NEW q, q.accounts # {}, ~(Cardinality(q.accounts) > MaxAccounts)
    PROVE  /\ DOMAIN get_hero_stats(q) = {HeroKey(r) : r \in HeroMatchRows(q)}
           /\ \A k \in DOMAIN get_hero_stats(q) :
                /\ get_hero_stats(q)[k] = HeroStats(HeroGroup(q, k))
                /\ get_hero_stats(q)[k].matches = IdsOf(HeroGroup(q, k))
<1>1. get_hero_stats(q) = [k \in {HeroKey(r) : r \in HeroMatchRows(q)} |-> HeroStats(HeroGroup(q, k))]
  BY DEF get_hero_stats, HeroKey, HeroGroup
<1>2. \A rows : HeroStats(rows).matches = IdsOf(rows)
  BY DEF HeroStats, IdsOf
<1> QED  BY <1>1, <1>2

LEMMA HeroesAgree == HistoryTables => HeroAnswersFit
<1> DEFINE one(q, a) == [q EXCEPT !.accounts = {a}]
           all(q, a) == [q EXCEPT !.accounts = {a}, !.heroes = {}]
<1> SUFFICES ASSUME HistoryTables, NEW q \in PlayerHeroQueries, Cardinality(q.accounts) \in 1 .. MaxAccounts,
                    NEW a \in q.accounts
             PROVE  /\ DOMAIN get_hero_stats(one(q, a)) \subseteq DOMAIN get_hero_stats(q)
                    /\ \A k \in DOMAIN get_hero_stats(one(q, a)) :
                          get_hero_stats(one(q, a))[k].matches \subseteq get_hero_stats(q)[k].matches
                    /\ Known(a) => \A k \in DOMAIN hero_stats_single(a, q) :
                          q.heroes = {} \/ k[2] \in q.heroes =>
                              /\ k \in DOMAIN get_hero_stats(one(q, a))
                              /\ get_hero_stats(one(q, a))[k] = hero_stats_single(a, q)[k]
  BY DEF HeroAnswersFit, player_hero_stats
<1> DEFINE u == one(q, a)
           v == all(q, a)
<1>1. /\ u.accounts = {a} /\ u.heroes = q.heroes /\ u.info = q.info /\ u.minWorth = q.minWorth /\ u.maxWorth = q.maxWorth
      /\ v.accounts = {a} /\ v.heroes = {} /\ v.info = q.info /\ v.minWorth = q.minWorth /\ v.maxWorth = q.maxWorth
  BY PlayerHeroQueriesAssumption DEF PlayerHeroStatsQuery
<1> HIDE DEF one, all
<1>2. Cardinality({a}) = 1
  BY FS_Singleton
<1>3. /\ q.accounts # {} /\ ~(Cardinality(q.accounts) > MaxAccounts)
      /\ u.accounts # {} /\ ~(Cardinality(u.accounts) > MaxAccounts)
      /\ v.accounts # {} /\ ~(Cardinality(v.accounts) > MaxAccounts)
  BY <1>1, <1>2, MaxAccountsAssumption
<1> HIDE DEF u, v
<1>4. HeroMatchRows(u) \subseteq HeroMatchRows(q)
  <2>1. HeroHistories(u) \subseteq HeroHistories(q)
    BY <1>1 DEF HeroHistories, OfHeroes
  <2> QED  BY <1>1, <2>1 DEF HeroMatchRows, OfHeroes
<1>5. ASSUME NEW k, q.heroes = {} \/ k[2] \in q.heroes PROVE HeroGroup(u, k) = HeroGroup(v, k)
  <2>1. ASSUME NEW r \in HeroGroup(u, k) PROVE r \in HeroGroup(v, k)
    <3>1. HeroHistories(u) \subseteq HeroHistories(v)
      BY <1>1 DEF HeroHistories, OfHeroes
    <3> QED  BY <1>1, <2>1, <3>1 DEF HeroGroup, HeroMatchRows, OfHeroes
  <2>2. ASSUME NEW r \in HeroGroup(v, k) PROVE r \in HeroGroup(u, k)
    <3>1. r \in RowsOf(matches) /\ r.p.account = a /\ r.p.hero = k[2] /\ r.match.id \in HeroHistories(v)
      BY <1>1 DEF HeroGroup, HeroMatchRows, OfHeroes
    <3>2. PICK h \in Histories : h.p.account = a /\ h.match.id = r.match.id
      BY <1>1, <3>1 DEF HeroHistories, OfHeroes
    <3>3. h.p = r.p
      BY <3>1, <3>2, HistoryIsRow
    <3>4. OfHeroes(u, h) /\ OfHeroes(u, r)
      BY <1>1, <1>5, <3>1, <3>3 DEF OfHeroes
    <3>5. r.match.id \in HeroHistories(u)
      BY <3>2, <3>4 DEF HeroHistories
    <3> QED  BY <1>1, <3>4, <3>5 DEF HeroGroup, HeroMatchRows
  <2> QED  BY <2>1, <2>2
<1>6. /\ DOMAIN get_hero_stats(q) = {HeroKey(r) : r \in HeroMatchRows(q)}
      /\ \A k \in DOMAIN get_hero_stats(q) : get_hero_stats(q)[k].matches = IdsOf(HeroGroup(q, k))
  BY <1>3, HeroStatsByKey
<1>7. /\ DOMAIN get_hero_stats(u) = {HeroKey(r) : r \in HeroMatchRows(u)}
      /\ \A k \in DOMAIN get_hero_stats(u) : /\ get_hero_stats(u)[k].matches = IdsOf(HeroGroup(u, k))
                                             /\ get_hero_stats(u)[k] = HeroStats(HeroGroup(u, k))
  BY <1>3, HeroStatsByKey
<1>8. /\ DOMAIN get_hero_stats(v) = {HeroKey(r) : r \in HeroMatchRows(v)}
      /\ \A k \in DOMAIN get_hero_stats(v) : get_hero_stats(v)[k] = HeroStats(HeroGroup(v, k))
  BY <1>3, HeroStatsByKey
<1>9. DOMAIN get_hero_stats(u) \subseteq DOMAIN get_hero_stats(q)
  BY <1>4, <1>6, <1>7
<1>10. ASSUME NEW k \in DOMAIN get_hero_stats(u)
       PROVE  get_hero_stats(u)[k].matches \subseteq get_hero_stats(q)[k].matches
  <2>1. IdsOf(HeroGroup(u, k)) \subseteq IdsOf(HeroGroup(q, k))
    BY <1>4 DEF HeroGroup, IdsOf
  <2> QED  BY <1>6, <1>7, <1>9, <1>10, <2>1
<1>11. ASSUME Known(a), NEW k \in DOMAIN hero_stats_single(a, q), q.heroes = {} \/ k[2] \in q.heroes
       PROVE  k \in DOMAIN get_hero_stats(u) /\ get_hero_stats(u)[k] = hero_stats_single(a, q)[k]
  <2>1. hero_stats_single(a, q) = get_hero_stats(v)
    BY <1>11 DEF hero_stats_single, Answer, Known, v, all
  <2>2. HeroGroup(u, k) = HeroGroup(v, k)
    BY <1>5, <1>11
  <2>3. PICK r \in HeroMatchRows(v) : HeroKey(r) = k
    BY <1>8, <1>11, <2>1
  <2>4. r \in HeroGroup(u, k)
    BY <2>2, <2>3 DEF HeroGroup, HeroKey
  <2>5. k \in DOMAIN get_hero_stats(u)
    BY <1>7, <2>3, <2>4 DEF HeroGroup
  <2> QED  BY <1>7, <1>8, <1>11, <2>1, <2>2, <2>5
<1> QED  BY <1>9, <1>10, <1>11 DEF u

OwnParties(a, q) ==
    {r \in RowsOf(matches) : r.p.account = a /\ r.p.party # 0
                             /\ r.match.id \in {h.match.id : h \in {h \in Histories :
                                                    h.p.account = a /\ InfoFilters(q.info, h.match)}}}
PartyMembers(a, q, m) ==
    {r \in RowsOf({m}) : \/ r.p.account = a
                         \/ \E own \in OwnParties(a, q) :
                              own.match = m /\ own.p.team = r.p.team /\ own.p.party = r.p.party}
PartyRow(a, q, m) ==
    [match |-> m, won |-> \E r \in PartyMembers(a, q, m) : r.p.won,
     size |-> Cardinality({r.p.account : r \in PartyMembers(a, q, m)})]

LEMMA RowOfEachMatch ==
    ASSUME NEW a, NEW q
    PROVE  PartyRows(a, q) = {PartyRow(a, q, m) : m \in {m \in matches : PartyMembers(a, q, m) # {}}}
BY DEF PartyRows, PartyRow, PartyMembers, OwnParties

\* A player has one row in a match.
LEMMA OneRowEach ==
    ASSUME HistoryTables, NEW r \in RowsOf(matches), NEW s \in RowsOf(matches),
           r.match.id = s.match.id, r.p.account = s.p.account
    PROVE  r = s
<1>1. /\ r.match \in matches /\ r.p \in r.match.players /\ r = [match |-> r.match, p |-> r.p]
      /\ s.match \in matches /\ s.p \in s.match.players /\ s = [match |-> s.match, p |-> s.p]
  BY DEF RowsOf, PlayersOf
<1>2. matches \subseteq PossibleMatches
  BY DEF HistoryTables, Tables
<1>3. r.match = s.match
  BY <1>1, <1>2, HistoryAssumption
<1> QED  BY <1>1, <1>2, <1>3, HistoryAssumption

\* In each match, a party has one member more than the player has mates in it.
LEMMA PartyOfMatch ==
    ASSUME HistoryTables, NEW a, NEW q, NEW v, v.info = q.info, NEW m \in matches, PartyMembers(a, q, m) # {}
    PROVE  /\ PartyRow(a, q, m).size \in Nat
           /\ Cardinality({r \in PartyMates(a, v) : r.match = m}) = PartyRow(a, q, m).size - 1
<1> DEFINE members == PartyMembers(a, q, m)
           mates == {r \in PartyMates(a, v) : r.match = m}
<1>1. /\ RowsOf({m}) = {r \in RowsOf(matches) : r.match = m}
      /\ IsFiniteSet(RowsOf(matches))
  BY RowsFinite DEF RowsOf, HistoryTables
<1>2. members \subseteq RowsOf(matches) /\ \A r \in members : r.match = m
  BY <1>1 DEF PartyMembers
<1>3. IsFiniteSet(members)
  BY <1>1, <1>2, FS_Subset
<1>4. PartyRow(a, q, m).size = Cardinality(members)
  <2> DEFINE account == [r \in members |-> r.p.account]
  <2>1. \A r, s \in members : account[r] = account[s] => r = s
    BY <1>2, OneRowEach
  <2>2. {r.p.account : r \in members} = {account[r] : r \in members}
    OBVIOUS
  <2> HIDE DEF account, members
  <2>3. Cardinality({account[r] : r \in members}) = Cardinality(members)
    BY <1>3, <2>1, CountImage
  <2> QED  BY <2>2, <2>3 DEF PartyRow, members
<1>5. PICK own \in members : own.p.account = a
  <2>1. PICK r \in members : TRUE
    OBVIOUS
  <2>2. CASE r.p.account = a
    BY <2>1, <2>2
  <2>3. CASE r.p.account # a
    BY <1>1, <2>1, <2>3 DEF PartyMembers, OwnParties
  <2> QED  BY <2>2, <2>3
<1>6. \A r \in members : r.p.account = a => r = own
  BY <1>2, <1>5, OneRowEach
<1>7. OwnParties(a, q) = {r \in RowsOf(matches) : /\ r.p.account = a /\ InParty(r)
                                                  /\ \E h \in MateHistories(a, v) : h.match.id = r.match.id}
  BY DEF OwnParties, MateHistories, InParty
<1>8. PartyMates(a, v) = {r \in RowsOf(matches) :
                            /\ r.p.account # a
                            /\ \E mine \in OwnParties(a, q) :
                                 mine.match = r.match /\ mine.p.team = r.p.team /\ mine.p.party = r.p.party}
  BY <1>7 DEF PartyMates
<1>9. mates = members \ {own}
  <2>1. ASSUME NEW r \in mates PROVE r \in members \ {own}
    <3>1. r \in RowsOf({m}) /\ r.p.account # a
      BY <1>1, <1>8
    <3>2. \E mine \in OwnParties(a, q) :
            mine.match = m /\ mine.p.team = r.p.team /\ mine.p.party = r.p.party
      BY <1>8
    <3> QED  BY <1>5, <3>1, <3>2 DEF PartyMembers
  <2>2. ASSUME NEW r \in members, r # own PROVE r \in mates
    <3>1. r \in RowsOf(matches) /\ r.match = m /\ r.p.account # a
      BY <1>2, <1>6, <2>2
    <3>2. \E mine \in OwnParties(a, q) :
            mine.match = m /\ mine.p.team = r.p.team /\ mine.p.party = r.p.party
      BY <2>2, <3>1 DEF PartyMembers
    <3> QED  BY <1>8, <3>1, <3>2
  <2> HIDE DEF mates, members
  <2> QED  BY <2>1, <2>2
<1> HIDE DEF members, mates
<1>10. Cardinality(mates) = Cardinality(members) - 1 /\ Cardinality(members) \in Nat
  BY <1>3, <1>5, <1>9, FS_RemoveElement, FS_CardinalityType
<1> QED  BY <1>4, <1>10 DEF mates

LEMMA SizesAddUp == HistoryTables => PartySizesAddUp
<1> SUFFICES ASSUME HistoryTables, NEW q \in StatsQueries, NEW a \in Participants, Known(a)
             PROVE  LET mates == mate_stats(a, Unlimited(q, TRUE))
                        parties == party_stats(a, q)
                    IN  SumFunction([b \in DOMAIN mates |-> Cardinality(mates[b].matches)])
                          = SumFunction([n \in DOMAIN parties |-> (n - 1) * Cardinality(parties[n].matches)])
  BY DEF PartySizesAddUp
<1> DEFINE v == Unlimited(q, TRUE)
           mates == mate_stats(a, v)
           parties == party_stats(a, q)
           M == PartyMates(a, v)
           R == PartyRows(a, q)
           ms == {m \in matches : PartyMembers(a, q, m) # {}}
           row(m) == PartyRow(a, q, m)
<1>1. v.info = q.info /\ v.sameParty = TRUE /\ v.minMatches = {} /\ v.maxMatches = {}
  BY UnlimitedFields
<1>2. M \subseteq RowsOf(matches) /\ IsFiniteSet(M) /\ IsFiniteSet(matches)
  <2>1. M \subseteq RowsOf(matches)
    BY DEF PartyMates
  <2>2. IsFiniteSet(RowsOf(matches)) /\ IsFiniteSet(matches)
    BY RowsFinite DEF HistoryTables, Tables
  <2> QED  BY <2>1, <2>2, FS_Subset
<1>3. R = {row(m) : m \in ms}
  BY RowOfEachMatch
<1>4. IsFiniteSet(R)
  <2> DEFINE h == [m \in ms |-> row(m)]
  <2>1. IsFiniteSet(ms)
    BY <1>2, FS_Subset
  <2>2. R = {h[m] : m \in ms}
    BY <1>3
  <2> HIDE DEF h, ms, R
  <2> QED  BY <2>1, <2>2, ImageFinite
<1>5. /\ \A x \in R : x.match \in ms /\ x = row(x.match)
      /\ \A m \in ms : row(m) \in R /\ row(m).match = m
      /\ \A x \in R : x.size - 1 = Cardinality({r \in M : r.match = x.match}) /\ x.size \in Int
  <2>1. \A m \in ms : /\ row(m).match = m /\ row(m).size \in Nat
                       /\ row(m).size - 1 = Cardinality({r \in M : r.match = m})
    <3> SUFFICES ASSUME NEW m \in ms
                 PROVE  /\ row(m).match = m /\ row(m).size \in Nat
                        /\ row(m).size - 1 = Cardinality({r \in M : r.match = m})
      OBVIOUS
    <3>1. row(m).match = m
      BY DEF PartyRow
    <3>2. m \in matches /\ PartyMembers(a, q, m) # {}
      OBVIOUS
    <3> HIDE DEF v
    <3>3. /\ row(m).size \in Nat
          /\ Cardinality({r \in M : r.match = m}) = row(m).size - 1
      BY <1>1, <3>2, PartyOfMatch
    <3> QED  BY <3>1, <3>3
  <2> HIDE DEF row, M, ms, R
  <2>2. ASSUME NEW x \in R
        PROVE  /\ x.match \in ms /\ x = row(x.match) /\ x.size \in Int
               /\ x.size - 1 = Cardinality({r \in M : r.match = x.match})
    <3>1. PICK m \in ms : x = row(m)
      BY <1>3
    <3>2. row(m).match = m /\ row(m).size \in Nat
      BY <2>1
    <3>3. row(m).size - 1 = Cardinality({r \in M : r.match = m})
      BY <2>1
    <3>4. x.match = m
      BY <3>1, <3>2
    <3> QED  BY <3>1, <3>2, <3>3, <3>4
  <2>3. \A m \in ms : row(m) \in R
    BY <1>3
  <2> QED  BY <2>1, <2>2, <2>3
<1>6. SumFunction([b \in DOMAIN mates |-> Cardinality(mates[b].matches)]) = Cardinality(M)
  <2> DEFINE account == [r \in M |-> r.p.account]
             won == {r \in M : r.p.won}
             K == {account[r] : r \in M}
             part == [b \in DOMAIN mates |-> Cardinality(mates[b].matches)]
  <2>1. mates = ByAccount(v, M, won)
    BY <1>1 DEF mate_stats, Answer, Known
  <2>2. \A b : WithKey(M, account, b) = OfAccount(M, b)
    BY DEF WithKey, OfAccount
  <2>3. \A b : b \in K <=> OfAccount(M, b) # {}
    BY DEF OfAccount
  <2>4. \A r \in M : account[r] \in K
    OBVIOUS
  <2>5. \A b : Cardinality(IdsOf(OfAccount(M, b))) = Cardinality(OfAccount(M, b))
    <3> SUFFICES ASSUME NEW b PROVE Cardinality(IdsOf(OfAccount(M, b))) = Cardinality(OfAccount(M, b))
      OBVIOUS
    <3> DEFINE S == OfAccount(M, b)
               h == [r \in S |-> r.match.id]
    <3>1. S \subseteq RowsOf(matches) /\ (\A r \in S : r.p.account = b) /\ IsFiniteSet(S)
      <4>1. S \subseteq M
        BY DEF OfAccount
      <4> QED  BY <1>2, <4>1, FS_Subset DEF OfAccount
    <3>2. \A r, s \in S : h[r] = h[s] => r = s
      BY <3>1, OneRowEach
    <3>3. IdsOf(S) = {h[r] : r \in S}
      BY DEF IdsOf
    <3> HIDE DEF h, S
    <3>4. Cardinality(IdsOf(S)) = Cardinality(S)
      BY <3>1, <3>2, <3>3, CountImage
    <3> QED  BY <3>4 DEF S
  <2> HIDE DEF M, account, won, K, mates
  <2>6. DOMAIN mates = K
    BY <1>1, <2>1, <2>3, MatchesByAccount
  <2>7. \A b \in K : part[b] = Cardinality(WithKey(M, account, b))
    <3> SUFFICES ASSUME NEW b \in K PROVE part[b] = Cardinality(WithKey(M, account, b))
      OBVIOUS
    <3> HIDE DEF v, part
    <3>1. v.minMatches = {} /\ v.maxMatches = {}
      BY <1>1
    <3>2. Has(ByAccount(v, M, won), b) = IdsOf(OfAccount(M, b))
      BY <3>1, MatchesByAccount
    <3>3. Has(mates, b) = IdsOf(OfAccount(M, b))
      BY <2>1, <3>2
    <3> QED  BY <2>2, <2>5, <2>6, <3>3 DEF Has, part
  <2>8. IsFiniteSet(K)
    BY <1>2, ImageFinite DEF K
  <2>9. DOMAIN part = K
    BY <2>6
  <2> HIDE DEF part
  <2>10. Cardinality(M) = SumFunctionOnSet(part, K)
    BY <1>2, <2>4, <2>7, <2>8, CountByKey
  <2> QED  BY <2>9, <2>10 DEF SumFunction, part
<1>7. Cardinality(M) = SumFunctionOnSet([x \in R |-> x.size - 1], R)
  <2> DEFINE key == [r \in M |-> row(r.match)]
             part == [x \in R |-> x.size - 1]
  <2>1. \A r \in M : r.match \in ms
    <3> SUFFICES ASSUME NEW r \in M PROVE r.match \in ms
      OBVIOUS
    <3>1. r \in RowsOf(matches) /\ r.match \in matches
      <4>1. r \in RowsOf(matches)
        BY <1>2
      <4> QED  BY <4>1 DEF RowsOf
    <3>2. PICK own \in RowsOf(matches) : own.p.account = a /\ own.match = r.match
      BY DEF PartyMates
    <3>3. own \in RowsOf({r.match})
      BY <3>2 DEF RowsOf
    <3> QED  BY <3>1, <3>2, <3>3 DEF PartyMembers
  <2> HIDE DEF M, R, ms, row
  <2>2. \A r \in M : key[r] \in R
    BY <1>5, <2>1
  <2>3. \A x \in R : WithKey(M, key, x) = {r \in M : r.match = x.match}
    BY <1>5, <2>1 DEF WithKey
  <2>4. \A x \in R : part[x] = Cardinality(WithKey(M, key, x))
    BY <1>5, <2>3
  <2> HIDE DEF key, part
  <2>5. Cardinality(M) = SumFunctionOnSet(part, R)
    BY <1>2, <1>4, <2>2, <2>4, CountByKey
  <2> QED  BY <2>5 DEF part
<1>8. SumFunction([n \in DOMAIN parties |-> (n - 1) * Cardinality(parties[n].matches)])
        = SumFunctionOnSet([x \in R |-> x.size - 1], R)
  <2> DEFINE f == [x \in R |-> x.size - 1]
             size == [x \in R |-> x.size]
             K == {size[x] : x \in R}
             part == [n \in DOMAIN parties |-> (n - 1) * Cardinality(parties[n].matches)]
  <2>1. parties = PartyStats(R)
    BY DEF party_stats, Answer, Known
  <2> HIDE DEF R, parties
  <2>2. /\ DOMAIN parties = K
        /\ \A n \in K : parties[n].matches = IdsOf(WithKey(R, size, n))
    BY <2>1 DEF PartyStats, StatsOf, IdsOf, WithKey
  <2>3. \A n : IsFiniteSet(WithKey(R, size, n)) /\ Cardinality(IdsOf(WithKey(R, size, n))) = Cardinality(WithKey(R, size, n))
    <3> SUFFICES ASSUME NEW n PROVE IsFiniteSet(WithKey(R, size, n))
                                    /\ Cardinality(IdsOf(WithKey(R, size, n))) = Cardinality(WithKey(R, size, n))
      OBVIOUS
    <3> DEFINE S == WithKey(R, size, n)
               h == [x \in S |-> x.match.id]
    <3>1. S \subseteq R /\ IsFiniteSet(S)
      BY <1>4, FS_Subset DEF WithKey
    <3>2. \A x \in R : x.match \in PossibleMatches
      BY <1>5 DEF HistoryTables, Tables
    <3>3. \A x, y \in S : h[x] = h[y] => x = y
      <4> HIDE DEF row, ms
      <4> QED  BY <1>5, <3>1, <3>2, HistoryAssumption
    <3>4. IdsOf(S) = {h[x] : x \in S}
      BY DEF IdsOf
    <3> HIDE DEF h, S
    <3>5. Cardinality(IdsOf(S)) = Cardinality(S)
      BY <3>1, <3>3, <3>4, CountImage
    <3> QED  BY <3>1, <3>5 DEF S
  <2>4. \A x \in R : size[x] \in K /\ f[x] \in Int
    <3>1. \A x \in R : size[x] \in K
      OBVIOUS
    <3>2. \A x \in R : f[x] \in Int
      <4>1. \A x \in R : x.size \in Int
        BY <1>5
      <4> QED  BY <4>1
    <3> QED  BY <3>1, <3>2
  <2>5. K \subseteq Int
    BY <1>5
  <2> HIDE DEF size, K
  <2>6. IsFiniteSet(K)
    BY <1>4, ImageFinite DEF K
  <2>7. \A n \in K : part[n] = SumFunctionOnSet(f, WithKey(R, size, n))
    <3> SUFFICES ASSUME NEW n \in K PROVE part[n] = SumFunctionOnSet(f, WithKey(R, size, n))
      OBVIOUS
    <3> DEFINE S == WithKey(R, size, n)
    <3>1. \A x \in S : f[x] = n - 1
      BY DEF WithKey, size
    <3>2. part[n] = (n - 1) * Cardinality(S)
      BY <2>2, <2>3
    <3>3. n - 1 \in Int /\ IsFiniteSet(S)
      BY <2>3, <2>5
    <3> HIDE DEF S, f, part
    <3>4. SumFunctionOnSet(f, S) = (n - 1) * Cardinality(S)
      BY <3>1, <3>3, SumOfSame
    <3> QED  BY <3>2, <3>4 DEF S
  <2>8. DOMAIN part = K
    BY <2>2
  <2> HIDE DEF f, part
  <2>9. SumFunctionOnSet(f, R) = SumFunctionOnSet(part, K)
    BY <1>4, <2>4, <2>6, <2>7, SumByKey
  <2> QED  BY <2>8, <2>9 DEF SumFunction, part, f
<1> QED  BY <1>6, <1>7, <1>8

\* Players: what two players see of each other, what parties and mates count, and
\* what the answers about heroes say, whatever is stored and whoever is protected.
THEOREM PlayersDoFit == PlayerSpec => []PlayersFit
<1>1. HistoryTables => PlayersFit
  BY SeenTheSame, PartyIsTeam, SizesAddUp, HeroesAgree DEF PlayersFit
<1> QED  BY <1>1, HistoriesGrow, PTL

----------------------------------------------------------------------------
\* Ratings: a weighted mean of badges, and how many hold each.

\* The powers of a number, and the function by which they are defined.
IsPowers(p, base) == p = [n \in Nat |-> IF n = 0 THEN 1 ELSE base * p[n - 1]]

LEMMA PowersExist ==
    ASSUME NEW base
    PROVE  \E p : IsPowers(p, base)
<1> DEFINE Step(g, k) == IF k = 0 THEN 1 ELSE base * g[k - 1]
           UpTo(g, n) == g = [k \in Nat |-> g[k]] /\ \A k \in 0 .. n : g[k] = Step(g, k)
           Good == {n \in Nat : \E g : UpTo(g, n)}
<1>1. 0 \in Good
  <2> DEFINE g == [k \in Nat |-> 1]
  <2>1. UpTo(g, 0)
    OBVIOUS
  <2>2. \E k : UpTo(k, 0)
    <3> HIDE DEF g, UpTo
    <3> QED  BY <2>1
  <2> HIDE DEF UpTo
  <2> QED  BY <2>2
<1>2. ASSUME NEW n \in Nat, n \in Good PROVE n + 1 \in Good
  <2>1. PICK g : UpTo(g, n)
    BY <1>2
  <2> DEFINE h == [k \in Nat |-> Step(g, k)]
  <2>2. ASSUME NEW k \in 0 .. (n + 1) PROVE h[k] = Step(h, k)
    <3>1. CASE k = 0
      BY <3>1
    <3>2. CASE k # 0
      <4>1. k \in Nat /\ k - 1 \in Nat /\ k - 1 \in 0 .. n
        BY <3>2
      <4>2. g[k - 1] = Step(g, k - 1)
        BY <2>1, <4>1
      <4>3. h[k - 1] = g[k - 1]
        BY <4>1, <4>2
      <4>4. h[k] = base * g[k - 1]
        BY <3>2, <4>1
      <4> QED  BY <3>2, <4>3, <4>4
    <3> QED  BY <3>1, <3>2
  <2>3. h = [k \in Nat |-> h[k]]
    OBVIOUS
  <2>4. UpTo(h, n + 1)
    <3> HIDE DEF h, Step
    <3> QED  BY <2>2, <2>3
  <2>5. \E k : UpTo(k, n + 1)
    <3> HIDE DEF h, UpTo
    <3> QED  BY <2>4
  <2> HIDE DEF UpTo
  <2> QED  BY <2>5
<1>3. \A n \in Nat : \E g : UpTo(g, n)
  <2>1. Nat \subseteq Good
    <3> HIDE DEF Good
    <3> QED  BY <1>1, <1>2, NumbersFromZero
  <2> QED  BY <2>1
<1> DEFINE G(n) == CHOOSE g : UpTo(g, n)
<1>4. \A n \in Nat : UpTo(G(n), n)
  <2> HIDE DEF UpTo
  <2> QED  BY <1>3
<1>5. \A n \in Nat : G(n + 1)[n] = G(n)[n]
  <2> SUFFICES ASSUME NEW n \in Nat PROVE G(n + 1)[n] = G(n)[n]
    OBVIOUS
  <2> DEFINE Same == {k \in Nat : k <= n => G(n + 1)[k] = G(n)[k]}
  <2>1. UpTo(G(n), n) /\ UpTo(G(n + 1), n + 1)
    BY <1>4
  <2> HIDE DEF G
  <2>2. 0 \in Same
    <3>1. 0 \in 0 .. n /\ 0 \in 0 .. (n + 1)
      OBVIOUS
    <3>2. G(n)[0] = 1
      BY <2>1, <3>1
    <3>3. G(n + 1)[0] = 1
      BY <2>1, <3>1
    <3> QED  BY <3>2, <3>3
  <2>3. ASSUME NEW k \in Nat, k \in Same PROVE k + 1 \in Same
    <3> SUFFICES ASSUME k + 1 <= n PROVE G(n + 1)[k + 1] = G(n)[k + 1]
      OBVIOUS
    <3>1. G(n + 1)[k] = G(n)[k]
      BY <2>3
    <3>2. k + 1 \in 0 .. n /\ k + 1 \in 0 .. (n + 1) /\ k + 1 # 0 /\ (k + 1) - 1 = k
      OBVIOUS
    <3>3. G(n)[k + 1] = base * G(n)[k]
      BY <2>1, <3>2
    <3>4. G(n + 1)[k + 1] = base * G(n + 1)[k]
      BY <2>1, <3>2
    <3> QED  BY <3>1, <3>3, <3>4
  <2>4. Nat \subseteq Same
    <3> HIDE DEF Same
    <3> QED  BY <2>2, <2>3, NumbersFromZero
  <2> QED  BY <2>4
<1> DEFINE p == [n \in Nat |-> G(n)[n]]
<1>6. ASSUME NEW n \in Nat PROVE p[n] = Step(p, n)
  <2>1. G(n)[n] = Step(G(n), n)
    BY <1>4
  <2>2. CASE n = 0
    BY <2>1, <2>2
  <2>3. CASE n # 0
    <3>1. n - 1 \in Nat /\ (n - 1) + 1 = n
      BY <2>3
    <3>2. G(n)[n - 1] = G(n - 1)[n - 1]
      BY <1>5, <3>1
    <3> HIDE DEF G
    <3>3. p[n - 1] = G(n)[n - 1]
      BY <3>1, <3>2
    <3> QED  BY <2>1, <2>3, <3>3
  <2> QED  BY <2>2, <2>3
<1>7. p = [n \in Nat |-> p[n]]
  OBVIOUS
<1>8. IsPowers(p, base)
  <2> HIDE DEF p
  <2> QED  BY <1>6, <1>7 DEF IsPowers
<1> HIDE DEF p
<1> QED  BY <1>8

LEMMA PowersPositive ==
    ASSUME NEW base \in Nat \ {0}
    PROVE  \A n \in Nat : PowersOf(base)[n] \in Nat \ {0}
<1> DEFINE p == PowersOf(base)
           Good == {n \in Nat : p[n] \in Nat \ {0}}
<1>1. p = [n \in Nat |-> IF n = 0 THEN 1 ELSE base * p[n - 1]]
  <2>1. IsPowers(p, base)
    BY PowersExist DEF PowersOf, IsPowers
  <2> QED  BY <2>1 DEF IsPowers
<1> HIDE DEF p
<1>2. 0 \in Good
  BY <1>1
<1>3. ASSUME NEW n \in Nat, n \in Good PROVE n + 1 \in Good
  <2>1. n + 1 \in Nat /\ n + 1 # 0 /\ (n + 1) - 1 = n
    OBVIOUS
  <2>2. p[n + 1] = base * p[n]
    BY <1>1, <2>1
  <2>3. \A x, y \in Nat \ {0} : x * y \in Nat \ {0}
    OBVIOUS
  <2> QED  BY <1>3, <2>1, <2>2, <2>3
<1>4. Nat \subseteq Good
  <2> HIDE DEF Good
  <2> QED  BY <1>2, <1>3, NumbersFromZero
<1> QED  BY <1>4 DEF p

LEMMA SumScale ==
    ASSUME NEW S, IsFiniteSet(S), NEW c \in Int, NEW f, NEW g,
           \A x \in S : f[x] \in Int /\ g[x] = c * f[x]
    PROVE  SumFunctionOnSet(g, S) = c * SumFunctionOnSet(f, S)
<1> DEFINE T == {A \in SUBSET S : SumFunctionOnSet(g, A) = c * SumFunctionOnSet(f, A)}
<1>1. {} \in T
  BY SumOfNone
<1>2. ASSUME NEW A \in SUBSET S, NEW x \in S, A \in T, x \notin A PROVE A \cup {x} \in T
  <2>1. IsFiniteSet(A) /\ \A z \in A \cup {x} : f[z] \in Int /\ g[z] \in Int
    BY FS_Subset
  <2>2. SumFunctionOnSet(f, A \cup {x}) = SumFunctionOnSet(f, A) + f[x]
    BY <1>2, <2>1, SumAdd
  <2>3. SumFunctionOnSet(g, A \cup {x}) = SumFunctionOnSet(g, A) + g[x]
    BY <1>2, <2>1, SumAdd
  <2>4. SumFunctionOnSet(f, A) \in Int
    BY <2>1, SumType
  <2>5. \A a, b \in Int : c * (a + b) = c * a + c * b
    OBVIOUS
  <2>6. f[x] \in Int /\ g[x] = c * f[x]
    OBVIOUS
  <2> QED  BY <1>2, <2>2, <2>3, <2>4, <2>5, <2>6
<1>3. SUBSET S \subseteq T
  <2> HIDE DEF T
  <2> QED  BY <1>1, <1>2, SubsetsFromEmpty
<1> QED  BY <1>3

LEMMA SumPositive ==
    ASSUME NEW S, IsFiniteSet(S), S # {}, NEW w, \A x \in S : w[x] \in Nat \ {0}
    PROVE  SumFunctionOnSet(w, S) \in Nat \ {0}
<1> DEFINE one == [x \in S |-> 1]
<1>1. \A x \in S : w[x] \in Int /\ one[x] = 1 /\ one[x] \in Int /\ one[x] <= w[x]
  OBVIOUS
<1> HIDE DEF one
<1>2. SumFunctionOnSet(one, S) <= SumFunctionOnSet(w, S)
  BY <1>1, SumAtMost
<1>3. SumFunctionOnSet(one, S) = Cardinality(S)
  BY <1>1, SumOfOnes
<1>4. Cardinality(S) \in Nat /\ Cardinality(S) # 0
  BY FS_CardinalityType, FS_EmptySet
<1>5. SumFunctionOnSet(w, S) \in Int
  BY <1>1, SumType
<1> QED  BY <1>2, <1>3, <1>4, <1>5

\* A weighted mean is between what all the values are between.
LEMMA MeanBetween ==
    ASSUME NEW S, IsFiniteSet(S), S # {}, NEW lo \in Int, NEW hi \in Int, NEW v, NEW w, NEW wv,
           \A x \in S : /\ w[x] \in Nat \ {0} /\ v[x] \in Int /\ lo <= v[x] /\ v[x] <= hi
                        /\ wv[x] = w[x] * v[x]
    PROVE  /\ lo * SumFunctionOnSet(w, S) <= SumFunctionOnSet(wv, S)
           /\ SumFunctionOnSet(wv, S) <= hi * SumFunctionOnSet(w, S)
<1> DEFINE low == [x \in S |-> lo * w[x]]
           high == [x \in S |-> hi * w[x]]
<1>1. \A x \in S : w[x] \in Int /\ low[x] = lo * w[x] /\ high[x] = hi * w[x]
  OBVIOUS
<1>2. \A x \in S : wv[x] \in Int /\ low[x] \in Int /\ high[x] \in Int /\ low[x] <= wv[x] /\ wv[x] <= high[x]
  <2>1. \A a \in Nat, b, c \in Int : b <= c => a * b <= a * c
    OBVIOUS
  <2>2. \A a, b \in Int : a * b = b * a /\ a * b \in Int
    OBVIOUS
  <2> SUFFICES ASSUME NEW x \in S
               PROVE  wv[x] \in Int /\ low[x] \in Int /\ high[x] \in Int /\ low[x] <= wv[x] /\ wv[x] <= high[x]
    OBVIOUS
  <2>3. /\ w[x] \in Nat /\ v[x] \in Int /\ lo <= v[x] /\ v[x] <= hi /\ wv[x] = w[x] * v[x]
        /\ low[x] = w[x] * lo /\ high[x] = w[x] * hi
    BY <1>1, <2>2
  <2>4. w[x] * lo <= w[x] * v[x] /\ w[x] * v[x] <= w[x] * hi
    BY <2>1, <2>3
  <2> QED  BY <2>2, <2>3, <2>4
<1> HIDE DEF low, high
<1>3. SumFunctionOnSet(low, S) = lo * SumFunctionOnSet(w, S) /\ SumFunctionOnSet(high, S) = hi * SumFunctionOnSet(w, S)
  BY <1>1, SumScale
<1>4. SumFunctionOnSet(low, S) <= SumFunctionOnSet(wv, S)
  BY <1>2, SumAtMost
<1>5. SumFunctionOnSet(wv, S) <= SumFunctionOnSet(high, S)
  BY <1>2, SumAtMost
<1> QED  BY <1>3, <1>4, <1>5

LEMMA DivBetween ==
    ASSUME NEW lo \in Int, NEW hi \in Int, NEW c \in Int, NEW d \in Nat \ {0}, lo * d <= c, c <= hi * d
    PROVE  lo <= c \div d /\ c \div d <= hi
OBVIOUS

LEMMA ClampedBetween ==
    ASSUME NEW n \in Nat, NEW top \in Int, n <= top
    PROVE  Max({0, Min({n, top})}) = n
<1>1. Min({n, top}) = n
  BY DEF Min
<1>2. Max({0, n}) = n
  BY DEF Max
<1> QED  BY <1>1, <1>2

\* The score of a window is between its lowest and its highest, and never zero.
LEMMA ScoreBetween ==
    ASSUME NEW window, IsFiniteSet(window), window # {}, NEW last, last.start \in Nat,
           NEW lo \in 1 .. 66, NEW hi \in 1 .. 66,
           \A r \in window : r.start \in Nat /\ r.mmr \in Int /\ lo <= r.mmr /\ r.mmr <= hi
    PROVE  /\ Score(window, last)[1] \in Nat \ {0}
           /\ Score(window, last)[2] \in Nat \ {0}
           /\ Floor(Score(window, last)) \in lo .. hi
<1> DEFINE hours == {HoursBefore(r, last) : r \in window}
           weight(r) == PowersOf(Keep)[HoursBefore(r, last) - Min(hours)]
                          * PowersOf(Of)[Max(hours) - HoursBefore(r, last)]
           w == [r \in window |-> weight(r)]
           wv == [r \in window |-> weight(r) * r.mmr]
           v == [r \in window |-> r.mmr]
           den == SumFunctionOnSet(w, window)
           num == SumFunctionOnSet(wv, window)
<1>1. Score(window, last) = <<Max({0, Min({num, 66 * den})}), den>>
  BY DEF Score, SumFunction
<1>2. \A r \in window : HoursBefore(r, last) \in Int
  <2>1. \A a \in Nat : a \div Hour \in Int
    BY LengthsAssumption
  <2> QED  BY <2>1 DEF HoursBefore
<1>3. /\ \A r \in window : HoursBefore(r, last) - Min(hours) \in Nat
      /\ \A r \in window : Max(hours) - HoursBefore(r, last) \in Nat
  <2> DEFINE h == [r \in window |-> HoursBefore(r, last)]
  <2>1. hours = {h[r] : r \in window}
    OBVIOUS
  <2>2. IsFiniteSet({h[r] : r \in window})
    <3> HIDE DEF h
    <3> QED  BY ImageFinite
  <2>3. hours \in SUBSET Int /\ hours # {}
    BY <1>2
  <2>4. \A r \in window : HoursBefore(r, last) \in hours
    OBVIOUS
  <2>5. IsFiniteSet(hours)
    BY <2>1, <2>2
  <2> HIDE DEF hours, h
  <2>6. /\ Max(hours) \in hours /\ \A y \in hours : Max(hours) >= y
        /\ Min(hours) \in hours /\ \A y \in hours : Min(hours) <= y
    BY <2>3, <2>5, ExtremesThere
  <2> SUFFICES ASSUME NEW r \in window
               PROVE  HoursBefore(r, last) - Min(hours) \in Nat /\ Max(hours) - HoursBefore(r, last) \in Nat
    OBVIOUS
  <2>7. HoursBefore(r, last) \in Int /\ Max(hours) \in Int /\ Min(hours) \in Int
    BY <1>2, <2>3, <2>6
  <2>8. Max(hours) >= HoursBefore(r, last) /\ Min(hours) <= HoursBefore(r, last)
    BY <2>4, <2>6
  <2> QED  BY <2>7, <2>8
<1> HIDE DEF hours
<1>4. \A r \in window : weight(r) \in Nat \ {0}
  <2>1. \A n \in Nat : PowersOf(Keep)[n] \in Nat \ {0}
    BY SmoothingAssumption, PowersPositive
  <2>2. \A n \in Nat : PowersOf(Of)[n] \in Nat \ {0}
    BY SmoothingAssumption, PowersPositive
  <2>3. \A x, y \in Nat \ {0} : x * y \in Nat \ {0}
    OBVIOUS
  <2> QED  BY <1>3, <2>1, <2>2, <2>3
<1> HIDE DEF weight
<1>5. \A r \in window : /\ w[r] \in Nat \ {0} /\ v[r] \in Int /\ lo <= v[r] /\ v[r] <= hi
                        /\ wv[r] = w[r] * v[r]
  BY <1>4
<1> HIDE DEF w, v, wv
<1>6. den \in Nat \ {0} /\ num \in Int /\ lo * den <= num /\ num <= hi * den
  <2>1. lo \in Int /\ hi \in Int
    OBVIOUS
  <2>2. den \in Nat \ {0}
    BY <1>5, SumPositive
  <2>3. num \in Int
    <3>1. \A x, y \in Int : x * y \in Int
      OBVIOUS
    <3>2. \A r \in window : wv[r] \in Int
      BY <1>5, <3>1
    <3> QED  BY <3>2, SumType
  <2>4. lo * den <= num
    BY <1>5, <2>1, MeanBetween
  <2>5. num <= hi * den
    BY <1>5, <2>1, MeanBetween
  <2> QED  BY <2>2, <2>3, <2>4, <2>5
<1> HIDE DEF den, num
<1>7. num \in Nat \ {0} /\ num <= 66 * den
  <2>1. \A a \in Nat, b, c \in Int : b <= c => b * a <= c * a
    OBVIOUS
  <2>2. 1 * den <= lo * den /\ hi * den <= 66 * den
    BY <1>6, <2>1
  <2> QED  BY <1>6, <2>2
<1>8. 66 * den \in Int
  BY <1>6
<1>9. Max({0, Min({num, 66 * den})}) = num
  BY <1>7, <1>8, ClampedBetween
<1>10. Score(window, last)[1] = num /\ Score(window, last)[2] = den
  BY <1>1, <1>9
<1>11. lo <= num \div den /\ num \div den <= hi
  BY <1>6, DivBetween
<1> QED  BY <1>6, <1>7, <1>10, <1>11 DEF Floor

IsBadge(b) == b \in Nat /\ b \div 10 \in 1 .. 11 /\ b % 10 \in 1 .. 6
RankAt(n) == 10 * ((n - 1) \div 6) + 11 + ((n - 1) % 6)

\* A badge stays itself on the way to a score and back, and the order is kept.
LEMMA BadgeToRank ==
    ASSUME NEW b, IsBadge(b)
    PROVE  MMR(b) \in 1 .. 66 /\ RankAt(MMR(b)) = b
<1>1. MMR(b) \in 1 .. 66
  BY DEF IsBadge, MMR
<1>2. (MMR(b) - 1) \div 6 = (b \div 10) - 1 /\ (MMR(b) - 1) % 6 = (b % 10) - 1
  BY DEF IsBadge, MMR
<1>3. b = 10 * (b \div 10) + (b % 10)
  BY DEF IsBadge
<1> QED  BY <1>1, <1>2, <1>3 DEF RankAt, IsBadge

LEMMA BadgesInOrder ==
    ASSUME NEW b, IsBadge(b), NEW c, IsBadge(c), b <= c
    PROVE  MMR(b) <= MMR(c)
BY DEF IsBadge, MMR

LEMMA RanksInOrder ==
    ASSUME NEW n \in 1 .. 66, NEW m \in 1 .. 66, n <= m
    PROVE  RankAt(n) <= RankAt(m)
BY DEF RankAt

LEMMA RankBounds ==
    ASSUME NEW n \in 1 .. 66
    PROVE  RankAt(n) \in 11 .. 116
BY DEF RankAt

LEMMA RankOfScore ==
    ASSUME NEW score, score[1] \in Nat \ {0}, Floor(score) \in Nat \ {0}
    PROVE  Rank(score) = RankAt(Floor(score))
BY DEF Rank, RankAt

\* Rounding a score down does not change the rank.
LEMMA RankOfFloor ==
    ASSUME NEW n \in Nat \ {0}
    PROVE  Rank(<<n, 1>>) = RankAt(n)
<1>1. Floor(<<n, 1>>) = n
  BY DEF Floor
<1> QED  BY <1>1 DEF Rank, RankAt

\* The histories a rank is made of.
RatedHistories(account, heroes) ==
    {r \in Histories : /\ r.p.account = account /\ r.match \in matches
                       /\ heroes # {} => r.p.hero \in heroes
                       /\ r.match.scored /\ ~r.match.notScored /\ TeamBadge(r) > 0}
RatedOf(r) == [id |-> r.match.id, start |-> r.match.start, mmr |-> MMR(TeamBadge(r)), match |-> r.match]

LEMMA RatedAre ==
    ASSUME NEW a, NEW heroes
    PROVE  Rated(a, heroes) = {RatedOf(h) : h \in RatedHistories(a, heroes)}
BY DEF Rated, RatedOf, RatedHistories

LEMMA RatedKey ==
    ASSUME HistoryTables, NEW a, NEW heroes
    PROVE  /\ IsFiniteSet(Rated(a, heroes))
           /\ \A h \in RatedHistories(a, heroes) : IsBadge(TeamBadge(h))
           /\ \A r \in Rated(a, heroes) : r.id \in Nat /\ r.start \in Nat /\ r.mmr \in 1 .. 66
           /\ \A r, s \in Rated(a, heroes) : r.id = s.id => r = s
<1> DEFINE H == RatedHistories(a, heroes)
<1>1. H \subseteq Histories /\ IsFiniteSet(H) /\ \A h \in H : h.p.account = a
  <2>1. H \subseteq Histories /\ \A h \in H : h.p.account = a
    BY DEF RatedHistories
  <2>2. IsFiniteSet(Histories)
    BY FS_Subset DEF HistoryTables, Histories
  <2> HIDE DEF H
  <2> QED  BY <2>1, <2>2, FS_Subset
<1>2. IsFiniteSet(Rated(a, heroes))
  <2> DEFINE of == [h \in H |-> RatedOf(h)]
  <2>1. Rated(a, heroes) = {of[h] : h \in H}
    BY RatedAre
  <2> HIDE DEF of, H
  <2> QED  BY <1>1, <2>1, ImageFinite
<1>3. \A h \in H : IsBadge(TeamBadge(h))
  <2> SUFFICES ASSUME NEW h \in H PROVE IsBadge(TeamBadge(h))
    OBVIOUS
  <2>1. h.match \in PossibleMatches
    BY <1>1, HistoryKey
  <2>2. TeamBadge(h) \in {h.match.badge0, h.match.badge1} /\ TeamBadge(h) > 0
    BY DEF TeamBadge, RatedHistories
  <2> QED  BY <2>1, <2>2, BadgeAssumption DEF IsBadge
<1>4. \A h \in H : h.match.id \in Nat /\ h.match.start \in Nat
  BY <1>1, HistoryKey, MatchAssumption
<1>5. \A h \in H : RatedOf(h).id = h.match.id /\ RatedOf(h).start = h.match.start /\ RatedOf(h).mmr = MMR(TeamBadge(h))
  BY DEF RatedOf
<1> HIDE DEF H
<1>6. \A r \in Rated(a, heroes) : r.id \in Nat /\ r.start \in Nat /\ r.mmr \in 1 .. 66
  <2> SUFFICES ASSUME NEW r \in Rated(a, heroes) PROVE r.id \in Nat /\ r.start \in Nat /\ r.mmr \in 1 .. 66
    OBVIOUS
  <2>1. PICK h \in H : r = RatedOf(h)
    BY RatedAre DEF H
  <2>2. MMR(TeamBadge(h)) \in 1 .. 66
    BY <1>3, BadgeToRank
  <2> QED  BY <1>4, <1>5, <2>1, <2>2
<1>7. \A r, s \in Rated(a, heroes) : r.id = s.id => r = s
  <2> SUFFICES ASSUME NEW r \in Rated(a, heroes), NEW s \in Rated(a, heroes), r.id = s.id PROVE r = s
    OBVIOUS
  <2>1. PICK h \in H : r = RatedOf(h)
    BY RatedAre DEF H
  <2>2. PICK g \in H : s = RatedOf(g)
    BY RatedAre DEF H
  <2>3. h.match.id = g.match.id
    BY <1>5, <2>1, <2>2
  <2>4. h = g
    BY <1>1, <2>3, HistoryKey
  <2> QED  BY <2>1, <2>2, <2>4
<1> QED  BY <1>2, <1>3, <1>6, <1>7 DEF H

\* A window has what is not newer than its last row, and is cut only when it is full.
LEMMA WindowOf ==
    ASSUME NEW rows, IsFiniteSet(rows), \A r \in rows : r.id \in Nat, NEW last \in rows
    PROVE  /\ Window(rows, last) \subseteq rows /\ IsFiniteSet(Window(rows, last)) /\ last \in Window(rows, last)
           /\ \/ Window(rows, last) = {r \in rows : r.id <= last.id}
              \/ Cardinality(Window(rows, last)) >= WindowSize
<1> DEFINE above(r) == {s \in rows : r.id < s.id /\ s.id <= last.id}
           W == {r \in rows : r.id <= last.id /\ Cardinality(above(r)) < WindowSize}
<1>1. Window(rows, last) = W
  BY DEF Window
<1>2. W \subseteq rows /\ IsFiniteSet(W)
  BY FS_Subset
<1>3. last \in W
  <2>1. above(last) = {}
    OBVIOUS
  <2>2. Cardinality(above(last)) = 0
    BY <2>1, FS_EmptySet
  <2> HIDE DEF above
  <2> QED  BY <2>2, WindowAssumption
<1>4. ASSUME W # {r \in rows : r.id <= last.id} PROVE Cardinality(W) >= WindowSize
  <2> DEFINE out == {r \in rows : r.id <= last.id} \ W
             ids == {r.id : r \in out}
             h == [r \in out |-> r.id]
  <2>1. out # {} /\ out \subseteq rows /\ IsFiniteSet(out)
    BY <1>4, FS_Subset
  <2>2. IsFiniteSet({h[r] : r \in out})
    <3> HIDE DEF h, out
    <3> QED  BY <2>1, ImageFinite
  <2>3. ids = {h[r] : r \in out}
    OBVIOUS
  <2>4. ids \in SUBSET Int /\ ids # {}
    <3>1. \A r \in out : r.id \in Int
      OBVIOUS
    <3> HIDE DEF out
    <3> QED  BY <2>1, <3>1
  <2>5. IsFiniteSet(ids)
    BY <2>2, <2>3
  <2>6. PICK n \in ids : \A m \in ids : n >= m
    <3> HIDE DEF ids
    <3> QED  BY <2>4, <2>5, ExtremesThere
  <2>7. PICK r \in out : r.id = n
    OBVIOUS
  <2>8. above(r) \subseteq W
    <3> SUFFICES ASSUME NEW s \in above(r), s \notin W PROVE FALSE
      OBVIOUS
    <3>1. s \in out /\ r.id < s.id /\ s.id \in Nat /\ r.id \in Nat
      OBVIOUS
    <3>2. s.id <= r.id
      BY <2>6, <2>7, <3>1
    <3> QED  BY <3>1, <3>2
  <2>9. ~(Cardinality(above(r)) < WindowSize)
    OBVIOUS
  <2>10. IsFiniteSet(above(r))
    BY FS_Subset
  <2> HIDE DEF above, W
  <2>11. Cardinality(above(r)) <= Cardinality(W) /\ Cardinality(above(r)) \in Nat /\ Cardinality(W) \in Nat
    BY <1>2, <2>8, <2>10, FS_Subset, FS_CardinalityType
  <2> QED  BY <2>9, <2>11, WindowAssumption
<1> QED  BY <1>1, <1>2, <1>3, <1>4

LEMMA RankOfWindow ==
    ASSUME HistoryTables, NEW a, NEW heroes, NEW rows \in SUBSET Rated(a, heroes), NEW last \in rows,
           NEW lo \in 1 .. 66, NEW hi \in 1 .. 66,
           \A r \in Window(rows, last) : lo <= r.mmr /\ r.mmr <= hi
    PROVE  /\ Rank(Score(Window(rows, last), last)) = RankAt(Floor(Score(Window(rows, last), last)))
           /\ Floor(Score(Window(rows, last), last)) \in lo .. hi
<1> DEFINE W == Window(rows, last)
           score == Score(W, last)
<1>1. IsFiniteSet(rows) /\ \A r \in rows : r.id \in Nat /\ r.start \in Nat /\ r.mmr \in 1 .. 66
  BY RatedKey, FS_Subset
<1>2. W \subseteq rows /\ IsFiniteSet(W) /\ W # {}
  BY <1>1, WindowOf
<1>3. last.start \in Nat /\ \A r \in W : r.start \in Nat /\ r.mmr \in Int /\ lo <= r.mmr /\ r.mmr <= hi
  BY <1>1, <1>2
<1> HIDE DEF W
<1>4. /\ score[1] \in Nat \ {0} /\ score[2] \in Nat \ {0}
      /\ Floor(score) \in lo .. hi
  BY <1>2, <1>3, ScoreBetween
<1> HIDE DEF score
<1>5. Floor(score) \in Nat \ {0}
  BY <1>4
<1>6. Rank(score) = RankAt(Floor(score))
  BY <1>4, <1>5, RankOfScore
<1> QED  BY <1>4, <1>6 DEF score, W

\* The windows' matches and the badges in them.
LEMMA RanksWithin == HistoryTables => RankWithinWindow
<1> SUFFICES ASSUME HistoryTables, NEW a \in Participants, Known(a), NEW id \in DOMAIN mmr_history(a)
             PROVE  LET rows == {r \in Rated(a, {}) : r.id <= id}
                        recent == {r \in rows : Cardinality({s \in rows : s.id > r.id}) < WindowSize}
                    IN  mmr_history(a)[id].rank \in Min(BadgesOf(a, recent)) .. Max(BadgesOf(a, recent))
  BY DEF RankWithinWindow
<1> DEFINE all == Rated(a, {})
           rows == {r \in all : r.id <= id}
           recent == {r \in rows : Cardinality({s \in rows : s.id > r.id}) < WindowSize}
           last == CHOOSE r \in all : r.id = id
           B == BadgesOf(a, recent)
<1>1. mmr_history(a) = HistoryQuery(a, {})
  BY DEF mmr_history, Answer, Known
<1>2. id \in {r.id : r \in all} /\ mmr_history(a)[id] = MMRHistory(all, last)
  BY <1>1 DEF HistoryQuery
<1>3. last \in all /\ last.id = id
  BY <1>2
<1> HIDE DEF last
<1>4. recent = Window(all, last)
  <2>1. \A r \in rows : {s \in rows : s.id > r.id} = {s \in all : r.id < s.id /\ s.id <= last.id}
    BY <1>3, RatedKey
  <2> QED  BY <1>3, <2>1 DEF Window
<1>5. mmr_history(a)[id].rank = Rank(Score(recent, last))
  <2>1. MMRHistory(all, last).rank = Rank(Score(Window(all, last), last))
    BY DEF MMRHistory
  <2> HIDE DEF recent, all
  <2> QED  BY <1>2, <1>4, <2>1
<1>6. IsFiniteSet(all) /\ (\A r \in all : r.id \in Nat) /\ (\A r, s \in all : r.id = s.id => r = s)
  BY RatedKey
<1>7. recent \subseteq all /\ IsFiniteSet(recent) /\ last \in recent
  BY <1>3, <1>4, <1>6, WindowOf
<1> HIDE DEF recent, all
<1>8. \A b \in B : \E h \in RatedHistories(a, {}) : b = TeamBadge(h)
  <2> SUFFICES ASSUME NEW h \in Histories, h.p.account = a, h.match.id \in {r.id : r \in recent}
               PROVE  h \in RatedHistories(a, {})
    BY DEF BadgesOf, TeamBadge
  <2>1. PICK r \in recent : r.id = h.match.id
    OBVIOUS
  <2>2. PICK g \in RatedHistories(a, {}) : r = RatedOf(g)
    BY <1>7, RatedAre DEF all
  <2>3. g \in Histories /\ g.p.account = a /\ g.match.id = h.match.id
    BY <2>1, <2>2 DEF RatedHistories, RatedOf
  <2>4. g = h
    BY <2>3, HistoryKey
  <2> QED  BY <2>2, <2>4
<1>9. \A r \in recent : \E b \in B : r.mmr = MMR(b)
  <2> SUFFICES ASSUME NEW r \in recent PROVE \E b \in B : r.mmr = MMR(b)
    OBVIOUS
  <2>1. PICK g \in RatedHistories(a, {}) : r = RatedOf(g)
    BY <1>7, RatedAre DEF all
  <2>2. g \in Histories /\ g.p.account = a /\ g.match.id = r.id /\ r.mmr = MMR(TeamBadge(g))
    BY <2>1 DEF RatedHistories, RatedOf
  <2>3. TeamBadge(g) \in B
    BY <2>2 DEF BadgesOf, TeamBadge
  <2> QED  BY <2>2, <2>3
<1>10. \A b \in B : IsBadge(b)
  BY <1>8, RatedKey
<1>11. IsFiniteSet(B) /\ B # {}
  <2> DEFINE S == {h \in Histories : h.p.account = a /\ h.match.id \in {r.id : r \in recent}}
             badge == [h \in S |-> TeamBadge(h)]
  <2>1. IsFiniteSet(S)
    BY FS_Subset DEF HistoryTables, Histories
  <2>2. B = {badge[h] : h \in S}
    BY DEF BadgesOf, TeamBadge
  <2> HIDE DEF S, badge
  <2>3. IsFiniteSet(B)
    BY <2>1, <2>2, ImageFinite
  <2> QED  BY <1>7, <1>9, <2>3
<1> HIDE DEF B
<1>12. /\ Max(B) \in B /\ \A y \in B : Max(B) >= y
       /\ Min(B) \in B /\ \A y \in B : Min(B) <= y
  <2>1. B \in SUBSET Int
    BY <1>10 DEF IsBadge
  <2> QED  BY <1>11, <2>1, ExtremesThere
<1> DEFINE lo == MMR(Min(B))
           hi == MMR(Max(B))
<1>13. lo \in 1 .. 66 /\ hi \in 1 .. 66 /\ RankAt(lo) = Min(B) /\ RankAt(hi) = Max(B)
  BY <1>10, <1>12, BadgeToRank
<1>14. \A r \in recent : lo <= r.mmr /\ r.mmr <= hi
  <2> SUFFICES ASSUME NEW r \in recent PROVE lo <= r.mmr /\ r.mmr <= hi
    OBVIOUS
  <2>1. PICK b \in B : r.mmr = MMR(b)
    BY <1>9
  <2>2. Min(B) <= b /\ b <= Max(B)
    BY <1>10, <1>12 DEF IsBadge
  <2> QED  BY <1>10, <1>12, <2>1, <2>2, BadgesInOrder
<1> HIDE DEF lo, hi
<1> DEFINE n == Floor(Score(recent, last))
<1>15. Rank(Score(recent, last)) = RankAt(n) /\ n \in lo .. hi
  BY <1>3, <1>4, <1>13, <1>14, RankOfWindow, ZenonT(40) DEF all
<1> HIDE DEF n
<1>16. RankAt(lo) <= RankAt(n) /\ RankAt(n) <= RankAt(hi) /\ RankAt(n) \in Int
  <2>1. n \in 1 .. 66 /\ lo <= n /\ n <= hi
    BY <1>13, <1>15
  <2>2. RankAt(n) \in 11 .. 116
    BY <2>1, RankBounds
  <2>3. RankAt(lo) <= RankAt(n)
    BY <1>13, <2>1, RanksInOrder
  <2>4. RankAt(n) <= RankAt(hi)
    BY <1>13, <2>1, RanksInOrder
  <2> QED  BY <2>2, <2>3, <2>4
<1>17. mmr_history(a)[id].rank \in Min(B) .. Max(B)
  <2>1. Min(B) \in Int /\ Max(B) \in Int
    BY <1>10, <1>12 DEF IsBadge
  <2> QED  BY <1>5, <1>13, <1>15, <1>16, <2>1
<1> QED  BY <1>17 DEF B, recent, all

LEMMA LastThere ==
    ASSUME NEW rows, IsFiniteSet(rows), rows # {}, \A r \in rows : r.id \in Nat
    PROVE  Newest(rows) \in rows /\ \A s \in rows : s.id <= Newest(rows).id
<1> DEFINE h == [r \in rows |-> r.id]
           ids == {h[r] : r \in rows}
<1>1. ids \in SUBSET Int /\ ids # {}
  OBVIOUS
<1>2. IsFiniteSet(ids)
  <2> HIDE DEF h
  <2> QED  BY ImageFinite
<1>3. PICK n \in ids : \A m \in ids : n >= m
  <2> HIDE DEF ids
  <2> QED  BY <1>1, <1>2, ExtremesThere
<1>4. \E r \in rows : \A s \in rows : s.id <= r.id
  <2>1. PICK r \in rows : r.id = n
    OBVIOUS
  <2>2. \A s \in rows : s.id \in ids /\ s.id \in Nat /\ r.id \in Nat
    OBVIOUS
  <2>3. \A s \in rows : s.id <= r.id
    <3> HIDE DEF ids
    <3> QED  BY <1>3, <2>1, <2>2
  <2> QED  BY <2>3
<1> QED  BY <1>4 DEF Newest

UpToId(a, heroes, maxId) == {id \in {r.id : r \in Rated(a, heroes)} : AtMost(maxId, id)}

\* What a call of the batch endpoint answers about an account is in its history.
LEMMA LastOfHistory ==
    ASSUME HistoryTables, NEW a, NEW heroes, NEW maxId \in SUBSET Nat
    PROVE  /\ LastQuery(a, heroes, maxId) = {} <=> UpToId(a, heroes, maxId) = {}
           /\ UpToId(a, heroes, maxId) # {} =>
                LastQuery(a, heroes, maxId) = {HistoryQuery(a, heroes)[Max(UpToId(a, heroes, maxId))]}
<1> DEFINE all == Rated(a, heroes)
           rows == {r \in all : AtMost(maxId, r.id)}
           last == Newest(rows)
           ids == UpToId(a, heroes, maxId)
<1>1. IsFiniteSet(all) /\ (\A r \in all : r.id \in Nat) /\ (\A r, s \in all : r.id = s.id => r = s)
  BY RatedKey
<1>2. ids = {r.id : r \in rows}
  BY DEF UpToId
<1>3. LastQuery(a, heroes, maxId) = IF rows = {} THEN {} ELSE {MMRHistory(rows, last)}
  BY DEF LastQuery
<1>4. ASSUME rows # {} PROVE MMRHistory(rows, last) = HistoryQuery(a, heroes)[Max(ids)]
  <2>1. rows \subseteq all /\ IsFiniteSet(rows)
    BY <1>1, FS_Subset
  <2>2. \A r \in rows : r.id \in Nat
    BY <1>1
  <2>3. last \in rows /\ \A s \in rows : s.id <= last.id
    <3> HIDE DEF rows
    <3> QED  BY <1>4, <2>1, <2>2, LastThere
  <2>4. Max(ids) = last.id
    <3>1. ids \in SUBSET Int /\ ids # {} /\ last.id \in ids
      <4> HIDE DEF rows, ids, last
      <4> QED  BY <1>2, <1>4, <2>2, <2>3
    <3>2. IsFiniteSet(ids)
      <4> DEFINE h == [r \in rows |-> r.id]
      <4>1. ids = {h[r] : r \in rows}
        BY <1>2
      <4> HIDE DEF h, rows, ids
      <4> QED  BY <2>1, <4>1, ImageFinite
    <3>3. Max(ids) \in ids /\ \A y \in ids : Max(ids) >= y
      <4> HIDE DEF ids
      <4> QED  BY <3>1, <3>2, ExtremesThere
    <3>4. PICK r \in rows : r.id = Max(ids)
      BY <1>2, <3>3
    <3>5. r.id <= last.id /\ r.id >= last.id /\ r.id \in Nat /\ last.id \in Nat
      BY <2>2, <2>3, <3>1, <3>3, <3>4
    <3> QED  BY <3>4, <3>5
  <2>5. (CHOOSE r \in all : r.id = last.id) = last
    BY <1>1, <2>1, <2>3
  <2>6. HistoryQuery(a, heroes)[last.id] = MMRHistory(all, last)
    <3>1. last.id \in {r.id : r \in all}
      BY <2>1, <2>3
    <3> HIDE DEF last
    <3> QED  BY <2>5, <3>1 DEF HistoryQuery
  <2>7. Window(all, last) = Window(rows, last)
    <3>1. \A r \in all : r.id <= last.id => r \in rows
      <4> SUFFICES ASSUME NEW r \in all, r.id <= last.id, NEW b \in maxId PROVE r.id <= b
        BY DEF AtMost
      <4>1. last.id <= b
        BY <2>3 DEF AtMost
      <4> QED  BY <1>1, <2>1, <2>3, <4>1
    <3>2. \A r : {s \in all : r.id < s.id /\ s.id <= last.id} = {s \in rows : r.id < s.id /\ s.id <= last.id}
      BY <2>1, <3>1
    <3> HIDE DEF rows, last
    <3> QED  BY <2>1, <3>1, <3>2 DEF Window
  <2>8. MMRHistory(all, last) = MMRHistory(rows, last)
    <3> HIDE DEF rows, last
    <3> QED  BY <2>7 DEF MMRHistory
  <2> QED  BY <2>4, <2>6, <2>8
<1>5. rows = {} <=> ids = {}
  BY <1>2
<1> HIDE DEF rows, last
<1> QED  BY <1>3, <1>4, <1>5

LEMMA BatchByAccount ==
    ASSUME NEW q, NEW heroes, ~(Cardinality(Shown(q.accounts)) > MaxAccounts)
    PROVE  /\ \A a : a \in DOMAIN Batch(q, heroes) <=> a \in Shown(q.accounts) /\ LastQuery(a, heroes, q.maxId) # {}
           /\ \A a \in DOMAIN Batch(q, heroes) :
                Batch(q, heroes)[a] = CHOOSE h \in LastQuery(a, heroes, q.maxId) : TRUE
BY DEF Batch

LEMMA BatchEnds == HistoryTables => BatchEndsHistory
<1> DEFINE batch(q, hero) == IF hero = 0 THEN mmr(q) ELSE hero_mmr(hero, q)
           past(hero, a) == IF hero = 0 THEN mmr_history(a) ELSE hero_mmr_history(a, hero)
           upTo(q, hero, a) == {id \in DOMAIN past(hero, a) : AtMost(q.maxId, id)}
<1> SUFFICES ASSUME HistoryTables, NEW q \in MMRQueries, NEW hero \in RatedHeroes \cup {0},
                    Cardinality(Shown(q.accounts)) <= MaxAccounts, NEW a \in q.accounts
             PROVE  IF Known(a) /\ upTo(q, hero, a) # {}
                    THEN a \in DOMAIN batch(q, hero) /\ batch(q, hero)[a] = past(hero, a)[Max(upTo(q, hero, a))]
                    ELSE a \notin DOMAIN batch(q, hero)
  BY DEF BatchEndsHistory
<1> DEFINE heroes == IF hero = 0 THEN {} ELSE {hero}
<1>1. batch(q, hero) = Batch(q, heroes)
  BY DEF mmr, hero_mmr
<1>2. Known(a) => past(hero, a) = HistoryQuery(a, heroes)
  BY DEF mmr_history, hero_mmr_history, Answer, Known
<1> HIDE DEF batch, past, heroes
<1>3. Known(a) => upTo(q, hero, a) = UpToId(a, heroes, q.maxId)
  BY <1>2 DEF UpToId, HistoryQuery
<1> HIDE DEF upTo
<1>4. ~(Cardinality(Shown(q.accounts)) > MaxAccounts)
  <2>1. IsFiniteSet(Shown(q.accounts))
    BY MMRQueriesAssumption, FS_Subset DEF Shown
  <2> QED  BY <2>1, FS_CardinalityType, MaxAccountsAssumption
<1>5. a \in Shown(q.accounts) <=> Known(a)
  BY DEF Shown, Known
<1>6. a \in DOMAIN Batch(q, heroes) <=> Known(a) /\ LastQuery(a, heroes, q.maxId) # {}
  BY <1>4, <1>5, BatchByAccount
<1>7. q.maxId \in SUBSET Nat
  BY MMRQueriesAssumption
<1>8. LastQuery(a, heroes, q.maxId) = {} <=> UpToId(a, heroes, q.maxId) = {}
  BY <1>7, LastOfHistory
<1>9. ASSUME Known(a), upTo(q, hero, a) # {}
      PROVE  batch(q, hero)[a] = past(hero, a)[Max(upTo(q, hero, a))]
  <2> DEFINE x == HistoryQuery(a, heroes)[Max(UpToId(a, heroes, q.maxId))]
  <2>1. LastQuery(a, heroes, q.maxId) = {x}
    BY <1>3, <1>7, <1>9, LastOfHistory
  <2>2. Batch(q, heroes)[a] = CHOOSE h \in LastQuery(a, heroes, q.maxId) : TRUE
    BY <1>3, <1>4, <1>6, <1>8, <1>9, BatchByAccount
  <2>3. (CHOOSE h \in {x} : TRUE) = x
    <3> HIDE DEF x
    <3> QED  OBVIOUS
  <2> QED  BY <1>1, <1>2, <1>3, <1>9, <2>1, <2>2, <2>3
<1> QED  BY <1>1, <1>3, <1>6, <1>8, <1>9

\* Where an account stands whose matches are looked at from the newest.
LEMMA StandingOfAll ==
    ASSUME HistoryTables, NEW a, NEW heroes, Rated(a, heroes) # {}
    PROVE  LET rows == Rated(a, heroes)
               window == Window(rows, Newest(rows))
               score == Score(window, Newest(rows))
           IN  /\ Rank(<<Floor(score), 1>>) = Rank(score) /\ Rank(score) \in 11 .. 116
               /\ 2 * Cardinality(window) >= WindowSize <=> 2 * Cardinality(rows) >= WindowSize
<1> DEFINE rows == Rated(a, heroes)
           last == Newest(rows)
           window == Window(rows, last)
           n == Floor(Score(window, last))
<1>1. IsFiniteSet(rows) /\ \A r \in rows : r.id \in Nat /\ r.mmr \in 1 .. 66
  BY RatedKey
<1>2. last \in rows /\ \A r \in rows : r.id <= last.id
  BY <1>1, LastThere
<1>3. /\ window \subseteq rows /\ IsFiniteSet(window)
      /\ window = {r \in rows : r.id <= last.id} \/ Cardinality(window) >= WindowSize
  BY <1>1, <1>2, WindowOf
<1>4. Rank(Score(window, last)) = RankAt(n) /\ n \in 1 .. 66
  <2>1. rows \in SUBSET Rated(a, heroes) /\ 1 \in 1 .. 66 /\ 66 \in 1 .. 66
    OBVIOUS
  <2>2. \A r \in window : 1 <= r.mmr /\ r.mmr <= 66
    BY <1>1, <1>3
  <2> HIDE DEF last, rows
  <2> QED  BY <1>2, <2>1, <2>2, RankOfWindow
<1>5. Rank(<<n, 1>>) = RankAt(n) /\ RankAt(n) \in 11 .. 116
  <2>1. n \in Nat \ {0}
    BY <1>4
  <2> HIDE DEF n
  <2> QED  BY <1>4, <2>1, RankOfFloor, RankBounds
<1>6. 2 * Cardinality(window) >= WindowSize <=> 2 * Cardinality(rows) >= WindowSize
  <2>1. window = rows \/ Cardinality(window) >= WindowSize
    BY <1>2, <1>3
  <2>2. Cardinality(window) \in Nat /\ Cardinality(rows) \in Nat /\ Cardinality(window) <= Cardinality(rows)
    <3> HIDE DEF window, rows
    <3> QED  BY <1>1, <1>3, FS_Subset, FS_CardinalityType
  <2> HIDE DEF window, rows
  <2> QED  BY <2>1, <2>2, WindowAssumption
<1> QED  BY <1>4, <1>5, <1>6

LEMMA HasHistory ==
    ASSUME HistoryTables, NEW a, NEW heroes, Rated(a, heroes) # {}
    PROVE  Known(a) /\ a \in {h.p.account : h \in stored}
<1>1. PICK h \in RatedHistories(a, heroes) : TRUE
  BY RatedAre
<1> QED  BY <1>1 DEF RatedHistories, Histories, Known

LEMMA DistributionCounts == HistoryTables => DistributionCountsBatch
<1> SUFFICES ASSUME HistoryTables PROVE DistributionCountsBatch
  OBVIOUS
<1> DEFINE q0 == MMRDistributionQuery
           of(a) == [MMRBatchQuery EXCEPT !.accounts = {a}]
           R(a) == Rated(a, {})
           place(a) == Rank(Score(Window(R(a), Newest(R(a))), Newest(R(a))))
           given(a) == mmr(of(a))[a].rank
           enough == {a \in Participants : Known(a) /\ 2 * Cardinality(R(a)) >= WindowSize}
           standing == Standing(q0, {}, 1)
<1>1. \A m : DistributionFilters(q0, m)
  BY DEF DistributionFilters, MMRDistributionQuery, Within, AtLeast, AtMost
<1>2. standing = [a \in {a \in Participants : R(a) # {} /\ 2 * Cardinality(Window(R(a), Newest(R(a)))) >= 1 * WindowSize} |->
                    Rank(<<Floor(Score(Window(R(a), Newest(R(a))), Newest(R(a)))), 1>>)]
  <2>1. \A a : {r \in Rated(a, {}) : DistributionFilters(q0, r.match)} = R(a)
    BY <1>1
  <2> HIDE DEF R, q0
  <2> QED  BY <2>1 DEF Standing, R
<1>3. ASSUME NEW a, R(a) # {}
      PROVE  /\ Rank(<<Floor(Score(Window(R(a), Newest(R(a))), Newest(R(a)))), 1>>) = place(a)
             /\ place(a) \in 11 .. 116
             /\ 2 * Cardinality(Window(R(a), Newest(R(a)))) >= WindowSize <=> 2 * Cardinality(R(a)) >= WindowSize
             /\ Known(a)
  BY <1>3, StandingOfAll, HasHistory
<1>4. ASSUME NEW a, 2 * Cardinality(R(a)) >= WindowSize PROVE R(a) # {}
  BY <1>4, WindowAssumption, FS_EmptySet
<1>5. ASSUME NEW a, Known(a), R(a) # {} PROVE given(a) = place(a)
  <2>1. of(a).accounts = {a} /\ of(a).maxId = {}
    BY DEF MMRBatchQuery
  <2>2. Shown(of(a).accounts) = {a}
    BY <1>5, <2>1 DEF Shown, Known
  <2>3. ~(Cardinality(Shown(of(a).accounts)) > MaxAccounts)
    <3>1. Cardinality({a}) = 1
      BY FS_Singleton
    <3> HIDE DEF of
    <3> QED  BY <2>2, <3>1, MaxAccountsAssumption
  <2>4. {r \in R(a) : AtMost(of(a).maxId, r.id)} = R(a)
    BY <2>1 DEF AtMost
  <2> DEFINE x == MMRHistory(R(a), Newest(R(a)))
  <2>5. LastQuery(a, {}, of(a).maxId) = {x}
    BY <1>5, <2>4 DEF LastQuery
  <2>6. a \in DOMAIN Batch(of(a), {}) /\ Batch(of(a), {})[a] = CHOOSE h \in LastQuery(a, {}, of(a).maxId) : TRUE
    <3> HIDE DEF of, x
    <3>1. a \in DOMAIN Batch(of(a), {})
      BY <2>2, <2>3, <2>5, BatchByAccount
    <3> QED  BY <2>3, <3>1, BatchByAccount
  <2>7. (CHOOSE h \in {x} : TRUE) = x
    <3> HIDE DEF x
    <3> QED  OBVIOUS
  <2>8. x.rank = place(a)
    BY DEF MMRHistory
  <2> HIDE DEF x, of, place
  <2> QED  BY <2>5, <2>6, <2>7, <2>8 DEF mmr
<1> HIDE DEF R, place, given
<1>6. DOMAIN standing = enough
  <2>1. DOMAIN standing = {a \in Participants : R(a) # {} /\ 2 * Cardinality(Window(R(a), Newest(R(a)))) >= 1 * WindowSize}
    BY <1>2
  <2>2. 1 * WindowSize = WindowSize
    BY WindowAssumption
  <2> HIDE DEF standing
  <2> QED  BY <1>3, <1>4, <2>1, <2>2
<1>7. \A a \in enough : standing[a] = given(a) /\ given(a) \in 11 .. 116
  <2> SUFFICES ASSUME NEW a \in enough PROVE standing[a] = given(a) /\ given(a) \in 11 .. 116
    OBVIOUS
  <2>1. Known(a) /\ R(a) # {}
    BY <1>4
  <2>2. standing[a] = Rank(<<Floor(Score(Window(R(a), Newest(R(a))), Newest(R(a)))), 1>>)
    BY <1>2, <1>6
  <2> QED  BY <1>3, <1>5, <2>1, <2>2
<1>8. mmr_distribution(q0) = DistributionEntries(standing, 11 .. 116)
  BY DEF mmr_distribution
<1> HIDE DEF standing, enough, q0
<1>9. {standing[a] : a \in DOMAIN standing} \cap (11 .. 116) = {given(a) : a \in enough}
  BY <1>6, <1>7
<1>10. \A n : {a \in DOMAIN standing : standing[a] = n} = {a \in enough : given(a) = n}
  BY <1>6, <1>7
<1>11. DistributionEntries(standing, 11 .. 116) =
         [n \in {given(a) : a \in enough} |-> Cardinality({a \in enough : given(a) = n})]
  BY <1>9, <1>10 DEF DistributionEntries
<1> QED  BY <1>8, <1>11 DEF DistributionCountsBatch, q0, enough, given, R

LEMMA HeroDistributionIsKnown == HistoryTables => HeroDistributionKnown
<1> SUFFICES ASSUME HistoryTables, NEW q \in DistributionQueries, NEW hero \in RatedHeroes
             PROVE  SumFunction(hero_mmr_distribution(hero, q))
                      <= Cardinality({a \in Participants : Known(a) /\ Cardinality(DOMAIN hero_mmr_history(a, hero)) >= WindowSize})
  BY DEF HeroDistributionKnown
<1> DEFINE standing == Standing(q, {hero}, 2)
           S == {a \in DOMAIN standing : standing[a] \in 0 .. 116}
           K == {standing[a] : a \in DOMAIN standing} \cap (0 .. 116)
           T == {a \in Participants : Known(a) /\ Cardinality(DOMAIN hero_mmr_history(a, hero)) >= WindowSize}
           counted == hero_mmr_distribution(hero, q)
           rows(a) == {r \in Rated(a, {hero}) : DistributionFilters(q, r.match)}
<1>1. counted = [n \in K |-> Cardinality({a \in DOMAIN standing : standing[a] = n})]
  BY DEF hero_mmr_distribution, DistributionEntries
<1>2. DOMAIN standing = {a \in Participants : /\ rows(a) # {}
                                              /\ 2 * Cardinality(Window(rows(a), Newest(rows(a)))) >= 2 * WindowSize}
  BY DEF Standing
<1>3. ASSUME NEW a, Known(a)
      PROVE  Cardinality(DOMAIN hero_mmr_history(a, hero)) = Cardinality(Rated(a, {hero}))
  <2> DEFINE all == Rated(a, {hero})
             h == [r \in all |-> r.id]
  <2>1. IsFiniteSet(all) /\ \A r, s \in all : h[r] = h[s] => r = s
    BY RatedKey
  <2>2. DOMAIN hero_mmr_history(a, hero) = {h[r] : r \in all}
    BY <1>3 DEF hero_mmr_history, Answer, Known, HistoryQuery
  <2> HIDE DEF h, all
  <2>3. Cardinality({h[r] : r \in all}) = Cardinality(all)
    BY <2>1, CountImage
  <2> QED  BY <2>2, <2>3 DEF all
<1>4. \A a : Known(a) \/ Rated(a, {hero}) = {}
  BY HasHistory
<1>5. S \subseteq T
  <2> SUFFICES ASSUME NEW a \in DOMAIN standing PROVE a \in T
    OBVIOUS
  <2>1. a \in Participants /\ rows(a) # {} /\ 2 * Cardinality(Window(rows(a), Newest(rows(a)))) >= 2 * WindowSize
    BY <1>2
  <2> HIDE DEF standing
  <2>2. /\ rows(a) \subseteq Rated(a, {hero}) /\ IsFiniteSet(Rated(a, {hero}))
        /\ \A r \in Rated(a, {hero}) : r.id \in Nat
    BY RatedKey
  <2>3. IsFiniteSet(rows(a)) /\ \A r \in rows(a) : r.id \in Nat
    <3> HIDE DEF rows
    <3> QED  BY <2>2, FS_Subset
  <2>4. Known(a)
    BY <1>4, <2>1, <2>2
  <2> HIDE DEF rows
  <2>5. Newest(rows(a)) \in rows(a)
    BY <2>1, <2>3, LastThere
  <2>6. Window(rows(a), Newest(rows(a))) \subseteq Rated(a, {hero})
    BY <2>2, <2>3, <2>5, WindowOf
  <2> DEFINE W == Window(rows(a), Newest(rows(a)))
  <2> HIDE DEF W
  <2>7. /\ Cardinality(W) \in Nat /\ Cardinality(Rated(a, {hero})) \in Nat
        /\ Cardinality(W) <= Cardinality(Rated(a, {hero}))
    BY <2>2, <2>6, FS_Subset, FS_CardinalityType DEF W
  <2>8. Cardinality(Rated(a, {hero})) >= WindowSize
    BY <2>1, <2>7, WindowAssumption DEF W
  <2> QED  BY <1>3, <2>1, <2>4, <2>8
<1>6. IsFiniteSet(T)
  <2> DEFINE h == [r \in stored |-> r.p.account]
  <2>1. T \subseteq {h[r] : r \in stored}
    <3> SUFFICES ASSUME NEW a \in T PROVE a \in {r.p.account : r \in stored}
      OBVIOUS
    <3>1. Known(a) /\ Cardinality(Rated(a, {hero})) >= WindowSize
      BY <1>3
    <3>2. Rated(a, {hero}) # {}
      BY <3>1, WindowAssumption, FS_EmptySet
    <3> QED  BY <3>2, HasHistory
  <2> HIDE DEF h, T
  <2>2. IsFiniteSet({h[r] : r \in stored})
    BY ImageFinite DEF HistoryTables
  <2> QED  BY <2>1, <2>2, FS_Subset
<1>7. Cardinality(S) = SumFunction(counted)
  <2>1. IsFiniteSet(S)
    <3> HIDE DEF S, T
    <3> QED  BY <1>5, <1>6, FS_Subset
  <2> HIDE DEF standing
  <2>2. \A a \in S : standing[a] \in K
    OBVIOUS
  <2>3. \A n \in K : WithKey(S, standing, n) = {a \in DOMAIN standing : standing[a] = n}
    BY DEF WithKey
  <2>4. IsFiniteSet(K)
    <3>1. K = {standing[a] : a \in S}
      OBVIOUS
    <3> HIDE DEF K, S
    <3> QED  BY <2>1, <3>1, ImageFinite
  <2>5. DOMAIN counted = K /\ \A n \in K : counted[n] = Cardinality(WithKey(S, standing, n))
    <3> HIDE DEF K, S, counted
    <3> QED  BY <1>1, <2>3
  <2> HIDE DEF S, K, counted
  <2>6. Cardinality(S) = SumFunctionOnSet(counted, K)
    BY <2>1, <2>2, <2>4, <2>5, CountByKey
  <2> QED  BY <2>5, <2>6 DEF SumFunction
<1>8. Cardinality(S) <= Cardinality(T)
  <2> HIDE DEF S, T
  <2> QED  BY <1>5, <1>6, FS_Subset
<1> QED  BY <1>7, <1>8

\* Ranks: what a window, a history, a batch and a distribution say of where a
\* player stands fits together, whatever is stored and whoever is protected.
THEOREM RanksDoFit == PlayerSpec => []RanksFit
<1>1. HistoryTables => RanksFit
  BY RanksWithin, BatchEnds, DistributionCounts, HeroDistributionIsKnown DEF RanksFit
<1> QED  BY <1>1, HistoriesGrow, PTL
=============================================================================
