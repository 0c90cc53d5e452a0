----------------------------- MODULE SumTheorems -----------------------------
(***************************************************************************)
(* What SumFunctionOnSet, the sum of f[x] over a finite set of indices,    *)
(* computes. The other proof modules count admissions, charges and slots   *)
(* with it.                                                                *)
(*                                                                         *)
(* Induction is done over sets: the set of the numbers, or of the index    *)
(* sets, for which a claim holds is closed under taking one more element.  *)
(***************************************************************************)
EXTENDS Functions, FiniteSetTheorems, WellFoundedInduction, TLAPS

----------------------------------------------------------------------------
\* Induction

\* Every non-empty set of natural numbers has a least element.
LEMMA LeastNatural ==
    ASSUME NEW T \in SUBSET Nat, T # {}
    PROVE  \E n \in T : \A m \in T : n <= m
<1>1. PICK n \in T : \A m \in T : ~(<<m, n>> \in OpToRel(<, Nat))
  BY NatLessThanWellFounded, WFMin
<1>2. ASSUME NEW m \in T PROVE n <= m
  <2>1. m \in Nat /\ n \in Nat
    OBVIOUS
  <2>2. ~(m < n)
    BY <1>1, <2>1 DEF OpToRel
  <2> QED
    BY <2>1, <2>2
<1> QED
  BY <1>2

\* A set of natural numbers with 0, and with every successor, has all of them.
LEMMA NaturalsByInduction ==
    ASSUME NEW T, 0 \in T, \A n \in Nat : n \in T => n + 1 \in T
    PROVE  \A n \in Nat : n \in T
<1> SUFFICES ASSUME NEW k \in Nat, k \notin T PROVE FALSE
  OBVIOUS
<1>1. PICK n \in Nat \ T : \A m \in Nat \ T : n <= m
  BY LeastNatural
<1>2. n # 0 /\ n - 1 \in Nat
  BY <1>1
<1>3. n - 1 \in T
  BY <1>1, <1>2
<1>4. (n - 1) + 1 \in T
  BY <1>2, <1>3
<1> QED
  BY <1>1, <1>4

\* A family of subsets of a finite set, with the empty set and closed under adding an
\* element, has all of them.
LEMMA SubsetsByInduction ==
    ASSUME NEW S, IsFiniteSet(S), NEW P, {} \in P,
           \A T \in SUBSET S, x \in S : T \in P /\ x \notin T => T \cup {x} \in P
    PROVE  \A T \in SUBSET S : T \in P
<1> DEFINE N == {n \in Nat : \A T \in SUBSET S : Cardinality(T) = n => T \in P}
<1>1. \A T \in SUBSET S : IsFiniteSet(T) /\ Cardinality(T) \in Nat
  BY FS_Subset, FS_CardinalityType
<1>2. 0 \in N
  <2>1. \A T \in SUBSET S : Cardinality(T) = 0 => T = {}
    BY <1>1, FS_EmptySet
  <2> QED
    BY <2>1
<1>3. ASSUME NEW n \in Nat, n \in N PROVE n + 1 \in N
  <2>1. ASSUME NEW T \in SUBSET S, Cardinality(T) = n + 1 PROVE T \in P
    <3>1. T # {}
      <4>1. IsFiniteSet(T) /\ Cardinality(T) # 0
        BY <1>1, <2>1
      <4> QED
        BY <4>1, FS_EmptySet
    <3>2. PICK x \in T : TRUE
      BY <3>1
    <3>3. Cardinality(T \ {x}) = n
      <4>1. IsFiniteSet(T)
        BY <1>1
      <4>2. Cardinality(T \ {x}) = Cardinality(T) - 1
        BY <3>2, <4>1, FS_RemoveElement
      <4> QED
        BY <2>1, <4>2
    <3>4. T \ {x} \in P
      BY <1>3, <3>3
    <3>5. (T \ {x}) \cup {x} \in P
      BY <3>4
    <3>6. (T \ {x}) \cup {x} = T
      OBVIOUS
    <3> QED
      BY <3>5, <3>6
  <2> QED
    BY <2>1
<1> HIDE DEF N
<1>4. \A n \in Nat : n \in N
  BY <1>2, <1>3, NaturalsByInduction
<1> QED
  BY <1>1, <1>4 DEF N

----------------------------------------------------------------------------
\* The recursive function behind the sum

\* The element that the fold takes next.
Pick(T) == CHOOSE x \in T : TRUE

\* h is the fold of f over every member of the family D, which is closed under Pick.
Folds(h, f, D) ==
    h = [T \in D |-> IF T = {} THEN 0 ELSE f[Pick(T)] + h[T \ {Pick(T)}]]

FoldsOn(h, f, S) == Folds(h, f, SUBSET S)

\* f is an integer at every index; f and g agree.
IntOn(f, S) == \A x \in S : f[x] \in Int
Agree(f, g, S) == \A x \in S : f[x] = g[x]

\* What is picked from a set is one of its members.
LEMMA PickMember ==
    ASSUME NEW T, T # {}
    PROVE  Pick(T) \in T
BY DEF Pick

\* There is such a function on the subsets of a finite set.
LEMMA FoldExists ==
    ASSUME NEW S, IsFiniteSet(S), NEW f
    PROVE  \E h : Folds(h, f, SUBSET S)
<1> DEFINE Upto(n) == {T \in SUBSET S : Cardinality(T) <= n}
           N == {n \in Nat : \E h : Folds(h, f, Upto(n))}
           Step(h, T) == IF T = {} THEN 0 ELSE f[Pick(T)] + h[T \ {Pick(T)}]
<1>1. \A T \in SUBSET S : IsFiniteSet(T) /\ Cardinality(T) \in Nat
  BY FS_Subset, FS_CardinalityType
<1>2. 0 \in N
  <2> DEFINE h == [T \in Upto(0) |-> 0]
  <2>1. \A T \in Upto(0) : T = {}
    BY <1>1, FS_EmptySet
  <2>2. h = [T \in Upto(0) |-> IF T = {} THEN 0 ELSE f[Pick(T)] + h[T \ {Pick(T)}]]
    BY <2>1
  <2> QED
    BY <2>2 DEF Folds
<1>3. ASSUME NEW n \in Nat, n \in N PROVE n + 1 \in N
  <2>1. PICK h : Folds(h, f, Upto(n))
    BY <1>3
  <2> DEFINE k == [T \in Upto(n + 1) |-> Step(h, T)]
  <2>2. ASSUME NEW T \in Upto(n + 1), T # {}
        PROVE  /\ T \ {Pick(T)} \in Upto(n) /\ T \ {Pick(T)} \in Upto(n + 1)
    <3>1. Pick(T) \in T /\ IsFiniteSet(T) /\ Cardinality(T) \in Nat /\ Cardinality(T) <= n + 1
      BY <1>1, <2>2, PickMember
    <3>2. Cardinality(T \ {Pick(T)}) = Cardinality(T) - 1
      BY <3>1, FS_RemoveElement
    <3> QED
      BY <3>1, <3>2
  <2>3. ASSUME NEW T \in Upto(n) PROVE Step(h, T) = h[T]
    BY <2>1 DEF Folds
  <2>4. ASSUME NEW T \in Upto(n + 1) PROVE Step(k, T) = Step(h, T)
    <3>1. CASE T = {}
      BY <3>1
    <3>2. CASE T # {}
      <4>1. k[T \ {Pick(T)}] = Step(h, T \ {Pick(T)})
        BY <2>2, <3>2
      <4>2. Step(h, T \ {Pick(T)}) = h[T \ {Pick(T)}]
        BY <2>2, <2>3, <3>2
      <4> QED
        BY <3>2, <4>1, <4>2
    <3> QED
      BY <3>1, <3>2
  <2>5. k = [T \in Upto(n + 1) |-> Step(k, T)]
    BY <2>4
  <2>6. Folds(k, f, Upto(n + 1))
    BY <2>5 DEF Folds
  <2> HIDE DEF k, Upto
  <2> QED
    BY <2>6
<1> HIDE DEF N
<1>4. Cardinality(S) \in N
  BY <1>1, <1>2, <1>3, NaturalsByInduction
<1>5. PICK h : Folds(h, f, Upto(Cardinality(S)))
  BY <1>4 DEF N
<1>6. Upto(Cardinality(S)) = SUBSET S
  <2>1. \A T \in SUBSET S : Cardinality(T) <= Cardinality(S)
    BY FS_Subset
  <2> QED
    BY <2>1
<1> QED
  BY <1>5, <1>6

\* The sum is the value of such a function.
LEMMA SumIsFold ==
    ASSUME NEW S, IsFiniteSet(S), NEW f
    PROVE  \E h : Folds(h, f, SUBSET S) /\ SumFunctionOnSet(f, S) = h[S]
<1> DEFINE iter == CHOOSE h : Folds(h, f, SUBSET S)
<1>1. Folds(iter, f, SUBSET S)
  BY FoldExists
<1>2. SumFunctionOnSet(f, S) = iter[S]
  BY DEF SumFunctionOnSet, FoldFunctionOnSet, MapThenFoldSet, Folds, Pick
<1> QED
  BY <1>1, <1>2

\* A fold that adds integers yields integers.
LEMMA FoldType ==
    ASSUME NEW S, IsFiniteSet(S), NEW f, IntOn(f, S),
           NEW h, Folds(h, f, SUBSET S)
    PROVE  h[{}] = 0 /\ \A T \in SUBSET S : h[T] \in Int
<1> DEFINE N == {n \in Nat : \A T \in SUBSET S : Cardinality(T) = n => h[T] \in Int}
<1>1. \A T \in SUBSET S : IsFiniteSet(T) /\ Cardinality(T) \in Nat
  BY FS_Subset, FS_CardinalityType
<1>2. h[{}] = 0
  BY DEF Folds
<1>3. 0 \in N
  <2>1. \A T \in SUBSET S : Cardinality(T) = 0 => T = {}
    BY <1>1, FS_EmptySet
  <2>2. \A T \in SUBSET S : Cardinality(T) = 0 => h[T] = 0
    BY <1>2, <2>1, Zenon
  <2> QED
    BY <2>2
<1>4. ASSUME NEW n \in Nat, n \in N PROVE n + 1 \in N
  <2>1. ASSUME NEW T \in SUBSET S, Cardinality(T) = n + 1 PROVE h[T] \in Int
    <3> DEFINE y == Pick(T)
    <3>1. IsFiniteSet(T) /\ Cardinality(T) # 0
      BY <1>1, <2>1
    <3>2. T # {} /\ y \in T
      BY <3>1, FS_EmptySet, PickMember
    <3>3. h[T] = f[y] + h[T \ {y}]
      BY <3>2 DEF Folds
    <3> HIDE DEF y
    <3>4. Cardinality(T \ {y}) = Cardinality(T) - 1
      BY <3>1, <3>2, FS_RemoveElement
    <3>5. Cardinality(T \ {y}) = n
      BY <2>1, <3>4
    <3>6. h[T \ {y}] \in Int
      BY <1>4, <3>5
    <3>7. f[y] \in Int
      BY <3>2 DEF IntOn
    <3> QED
      BY <3>3, <3>6, <3>7
  <2> QED
    BY <2>1
<1> HIDE DEF N
<1>5. \A n \in Nat : n \in N
  BY <1>3, <1>4, NaturalsByInduction
<1> QED
  BY <1>1, <1>2, <1>5 DEF N

\* The order in which the fold takes the elements does not matter.
LEMMA FoldAnyOrder ==
    ASSUME NEW S, IsFiniteSet(S), NEW f, IntOn(f, S),
           NEW h, Folds(h, f, SUBSET S)
    PROVE  \A T \in SUBSET S : \A x \in T : h[T] = f[x] + h[T \ {x}]
<1> DEFINE Good(T) == \A x \in T : h[T] = f[x] + h[T \ {x}]
           N == {n \in Nat : \A T \in SUBSET S : Cardinality(T) = n => Good(T)}
<1>1. \A T \in SUBSET S : IsFiniteSet(T) /\ Cardinality(T) \in Nat
  BY FS_Subset, FS_CardinalityType
<1>2. \A T \in SUBSET S : h[T] \in Int
  BY FoldType
<1>3. 0 \in N
  <2>1. \A T \in SUBSET S : Cardinality(T) = 0 => T = {}
    BY <1>1, FS_EmptySet
  <2> QED
    BY <2>1
<1>4. ASSUME NEW n \in Nat, n \in N PROVE n + 1 \in N
  <2>1. ASSUME NEW T \in SUBSET S, Cardinality(T) = n + 1, NEW x \in T
        PROVE  h[T] = f[x] + h[T \ {x}]
    <3> DEFINE y == Pick(T)
    <3>1. IsFiniteSet(T) /\ Cardinality(T) # 0
      BY <1>1, <2>1
    <3>2. T # {} /\ y \in T
      BY <3>1, FS_EmptySet, PickMember
    <3>3. h[T] = f[y] + h[T \ {y}]
      BY <3>2 DEF Folds
    <3> HIDE DEF y
    <3>4. CASE x = y
      BY <3>3, <3>4
    <3>5. CASE x # y
      <4>1. /\ Cardinality(T \ {x}) = Cardinality(T) - 1
            /\ Cardinality(T \ {y}) = Cardinality(T) - 1
        BY <3>1, <3>2, FS_RemoveElement
      <4>2. Cardinality(T \ {x}) = n /\ Cardinality(T \ {y}) = n
        BY <2>1, <4>1
      <4>3. Good(T \ {x}) /\ Good(T \ {y})
        BY <1>4, <4>2
      <4>4. h[T \ {y}] = f[x] + h[(T \ {y}) \ {x}]
        BY <3>5, <4>3
      <4>5. h[T \ {x}] = f[y] + h[(T \ {x}) \ {y}]
        BY <3>2, <3>5, <4>3
      <4>6. (T \ {y}) \ {x} = (T \ {x}) \ {y}
        OBVIOUS
      <4> DEFINE U == (T \ {x}) \ {y}
      <4>7. f[x] \in Int /\ f[y] \in Int /\ h[U] \in Int
        BY <1>2, <3>2 DEF IntOn
      <4>8. h[T \ {y}] = f[x] + h[U] /\ h[T \ {x}] = f[y] + h[U]
        BY <4>4, <4>5, <4>6
      <4> HIDE DEF U
      <4> QED
        BY <3>3, <4>7, <4>8
    <3> QED
      BY <3>4, <3>5
  <2> QED
    BY <2>1
<1> HIDE DEF N
<1>5. \A n \in Nat : n \in N
  BY <1>3, <1>4, NaturalsByInduction
<1> QED
  BY <1>1, <1>5 DEF N

\* Two folds of functions that agree on T give T the same value.
LEMMA FoldUnique ==
    ASSUME NEW S, IsFiniteSet(S), NEW T \in SUBSET S,
           NEW f, NEW g, IntOn(f, S), IntOn(g, T), Agree(f, g, T),
           NEW h, FoldsOn(h, f, S), NEW k, FoldsOn(k, g, T)
    PROVE  h[T] = k[T]
<1> DEFINE P == {U \in SUBSET T : h[U] = k[U]}
<1>1. h[{}] = 0 /\ k[{}] = 0 /\ IsFiniteSet(T)
  BY FoldType, FS_Subset DEF FoldsOn
<1>2. {} \in P
  BY <1>1
<1>3. ASSUME NEW U \in SUBSET T, NEW x \in T, U \in P, x \notin U
      PROVE  U \cup {x} \in P
  <2> DEFINE V == U \cup {x}
  <2>1. V \in SUBSET S /\ V \in SUBSET T /\ x \in V /\ V \ {x} = U
    BY <1>3
  <2> HIDE DEF V
  <2>2. h[V] = f[x] + h[V \ {x}]
    BY <1>1, <2>1, FoldAnyOrder DEF FoldsOn
  <2>3. k[V] = g[x] + k[V \ {x}]
    BY <1>1, <2>1, FoldAnyOrder DEF FoldsOn
  <2>4. h[V] = k[V]
    BY <1>3, <2>1, <2>2, <2>3 DEF Agree
  <2> QED
    BY <1>3, <2>4 DEF V
<1> HIDE DEF P
<1>4. \A U \in SUBSET T, x \in T : U \in P /\ x \notin U => U \cup {x} \in P
  BY <1>3
<1>5. \A U \in SUBSET T : U \in P
  BY <1>1, <1>2, <1>4, SubsetsByInduction, Zenon
<1>6. T \in P
  BY <1>5
<1> QED
  BY <1>6 DEF P

----------------------------------------------------------------------------
\* Facts about sums

\* The empty sum.
THEOREM SumEmpty == \A f : SumFunctionOnSet(f, {}) = 0
<1> SUFFICES ASSUME NEW f PROVE SumFunctionOnSet(f, {}) = 0
  OBVIOUS
<1>1. IsFiniteSet({})
  BY FS_EmptySet
<1>2. PICK h : FoldsOn(h, f, {}) /\ SumFunctionOnSet(f, {}) = h[{}]
  BY <1>1, SumIsFold DEF FoldsOn
<1> QED
  BY <1>2 DEF Folds, FoldsOn

\* A sum of integers is an integer.
THEOREM SumType ==
    ASSUME NEW S, IsFiniteSet(S), NEW f, \A x \in S : f[x] \in Int
    PROVE  SumFunctionOnSet(f, S) \in Int
<1>1. PICK h : FoldsOn(h, f, S) /\ SumFunctionOnSet(f, S) = h[S]
  BY SumIsFold DEF FoldsOn
<1>2. IntOn(f, S)
  BY DEF IntOn
<1> QED
  BY <1>1, <1>2, FoldType DEF FoldsOn

\* The sum only depends on the values at the indices.
THEOREM SumSame ==
    ASSUME NEW S, IsFiniteSet(S), NEW f, NEW g, \A x \in S : f[x] \in Int /\ f[x] = g[x]
    PROVE  SumFunctionOnSet(f, S) = SumFunctionOnSet(g, S)
<1>1. PICK h : FoldsOn(h, f, S) /\ SumFunctionOnSet(f, S) = h[S]
  BY SumIsFold DEF FoldsOn
<1>2. PICK k : FoldsOn(k, g, S) /\ SumFunctionOnSet(g, S) = k[S]
  BY SumIsFold DEF FoldsOn
<1>3. IntOn(f, S) /\ IntOn(g, S) /\ Agree(f, g, S)
  BY DEF IntOn, Agree
<1>4. h[S] = k[S]
  <2>1. S \in SUBSET S
    OBVIOUS
  <2> QED
    BY <1>1, <1>2, <1>3, <2>1, FoldUnique
<1> QED
  BY <1>1, <1>2, <1>4

\* One index taken out.
THEOREM SumRemove ==
    ASSUME NEW S, IsFiniteSet(S), NEW f, \A y \in S : f[y] \in Int, NEW x \in S
    PROVE  SumFunctionOnSet(f, S) = f[x] + SumFunctionOnSet(f, S \ {x})
<1>1. PICK h : FoldsOn(h, f, S) /\ SumFunctionOnSet(f, S) = h[S]
  BY SumIsFold DEF FoldsOn
<1> DEFINE R == S \ {x}
<1>2. IsFiniteSet(R) /\ R \subseteq S
  BY FS_Subset
<1>3. PICK k : FoldsOn(k, f, R) /\ SumFunctionOnSet(f, R) = k[R]
  BY <1>2, SumIsFold DEF FoldsOn
<1>4. IntOn(f, S) /\ IntOn(f, R) /\ Agree(f, f, R)
  BY DEF IntOn, Agree
<1> HIDE DEF R
<1>5. h[R] = k[R]
  <2>1. R \in SUBSET S
    BY <1>2
  <2> QED
    BY <1>1, <1>3, <1>4, <2>1, FoldUnique
<1>6. h[S] = f[x] + h[S \ {x}]
  BY <1>1, <1>4, FoldAnyOrder DEF FoldsOn
<1> QED
  BY <1>1, <1>3, <1>5, <1>6 DEF R

\* One index added.
THEOREM SumAdd ==
    ASSUME NEW S, IsFiniteSet(S), NEW x, x \notin S, NEW f, \A y \in S \cup {x} : f[y] \in Int
    PROVE  SumFunctionOnSet(f, S \cup {x}) = SumFunctionOnSet(f, S) + f[x]
<1> DEFINE R == S \cup {x}
<1>1. IsFiniteSet(R) /\ x \in R /\ R \ {x} = S
  BY FS_AddElement
<1>2. \A y \in R : f[y] \in Int
  OBVIOUS
<1> HIDE DEF R
<1>3. SumFunctionOnSet(f, R) = f[x] + SumFunctionOnSet(f, R \ {x})
  BY <1>1, <1>2, SumRemove
<1>4. SumFunctionOnSet(f, S) \in Int /\ f[x] \in Int
  BY SumType
<1>5. SumFunctionOnSet(f, R) = f[x] + SumFunctionOnSet(f, S)
  BY <1>1, <1>3
<1>6. SumFunctionOnSet(f, R) = SumFunctionOnSet(f, S) + f[x]
  BY <1>4, <1>5
<1> QED
  BY <1>6 DEF R

\* One value changed.
THEOREM SumChange ==
    ASSUME NEW S, IsFiniteSet(S), NEW f, NEW g, NEW x \in S,
           \A y \in S : f[y] \in Int /\ g[y] \in Int,
           \A y \in S \ {x} : f[y] = g[y]
    PROVE  SumFunctionOnSet(g, S) = SumFunctionOnSet(f, S) - f[x] + g[x]
<1> DEFINE R == S \ {x}
<1>1. IsFiniteSet(R)
  BY FS_Subset
<1>2. /\ SumFunctionOnSet(f, S) = f[x] + SumFunctionOnSet(f, R)
      /\ SumFunctionOnSet(g, S) = g[x] + SumFunctionOnSet(g, R)
  BY SumRemove
<1>3. SumFunctionOnSet(f, R) = SumFunctionOnSet(g, R)
  <2>1. \A y \in R : f[y] \in Int /\ f[y] = g[y]
    OBVIOUS
  <2> HIDE DEF R
  <2> QED
    BY <1>1, <2>1, SumSame
<1>4. SumFunctionOnSet(f, R) \in Int
  <2>1. \A y \in R : f[y] \in Int
    OBVIOUS
  <2> HIDE DEF R
  <2> QED
    BY <1>1, <2>1, SumType
<1> HIDE DEF R
<1> QED
  BY <1>2, <1>3, <1>4

\* The sum of sums.
THEOREM SumPlus ==
    ASSUME NEW S, IsFiniteSet(S), NEW f, NEW g, NEW h,
           \A x \in S : f[x] \in Int /\ g[x] \in Int /\ h[x] = f[x] + g[x]
    PROVE  SumFunctionOnSet(h, S) = SumFunctionOnSet(f, S) + SumFunctionOnSet(g, S)
<1> DEFINE Claim(T) == SumFunctionOnSet(h, T) = SumFunctionOnSet(f, T) + SumFunctionOnSet(g, T)
           P == {T \in SUBSET S : Claim(T)}
<1>1. {} \in P
  BY SumEmpty
<1>2. ASSUME NEW T \in SUBSET S, NEW x \in S, T \in P, x \notin T
      PROVE  T \cup {x} \in P
  <2>1. IsFiniteSet(T) /\ \A y \in T \cup {x} : f[y] \in Int /\ g[y] \in Int /\ h[y] \in Int
    BY FS_Subset
  <2>2. /\ SumFunctionOnSet(f, T \cup {x}) = SumFunctionOnSet(f, T) + f[x]
        /\ SumFunctionOnSet(g, T \cup {x}) = SumFunctionOnSet(g, T) + g[x]
        /\ SumFunctionOnSet(h, T \cup {x}) = SumFunctionOnSet(h, T) + h[x]
    BY <1>2, <2>1, SumAdd
  <2>3. SumFunctionOnSet(f, T) \in Int /\ SumFunctionOnSet(g, T) \in Int
    BY <2>1, SumType
  <2>4. Claim(T)
    BY <1>2
  <2>5. Claim(T \cup {x})
    BY <2>2, <2>3, <2>4
  <2> HIDE DEF Claim
  <2> QED
    BY <2>5
<1> HIDE DEF P
<1>3. \A T \in SUBSET S, x \in S : T \in P /\ x \notin T => T \cup {x} \in P
  BY <1>2
<1>4. \A T \in SUBSET S : T \in P
  BY <1>1, <1>3, SubsetsByInduction
<1> QED
  BY <1>4 DEF P

\* A sum is monotonic in its terms.
THEOREM SumLeq ==
    ASSUME NEW S, IsFiniteSet(S), NEW f, NEW g,
           \A x \in S : f[x] \in Int /\ g[x] \in Int /\ f[x] <= g[x]
    PROVE  SumFunctionOnSet(f, S) <= SumFunctionOnSet(g, S)
<1> DEFINE Claim(T) == SumFunctionOnSet(f, T) <= SumFunctionOnSet(g, T)
           P == {T \in SUBSET S : Claim(T)}
<1>1. {} \in P
  BY SumEmpty
<1>2. ASSUME NEW T \in SUBSET S, NEW x \in S, T \in P, x \notin T
      PROVE  T \cup {x} \in P
  <2>1. IsFiniteSet(T) /\ \A y \in T \cup {x} : f[y] \in Int /\ g[y] \in Int
    BY FS_Subset
  <2>2. /\ SumFunctionOnSet(f, T \cup {x}) = SumFunctionOnSet(f, T) + f[x]
        /\ SumFunctionOnSet(g, T \cup {x}) = SumFunctionOnSet(g, T) + g[x]
    BY <1>2, <2>1, SumAdd
  <2>3. SumFunctionOnSet(f, T) \in Int /\ SumFunctionOnSet(g, T) \in Int
    BY <2>1, SumType
  <2>4. Claim(T) /\ f[x] <= g[x] /\ f[x] \in Int /\ g[x] \in Int
    BY <1>2
  <2>5. Claim(T \cup {x})
    BY <2>2, <2>3, <2>4
  <2> HIDE DEF Claim
  <2> QED
    BY <2>5
<1> HIDE DEF P
<1>3. \A T \in SUBSET S, x \in S : T \in P /\ x \notin T => T \cup {x} \in P
  BY <1>2
<1>4. \A T \in SUBSET S : T \in P
  BY <1>1, <1>3, SubsetsByInduction
<1> QED
  BY <1>4 DEF P

\* A sum of zeros.
THEOREM SumZero ==
    ASSUME NEW S, IsFiniteSet(S), NEW f, \A x \in S : f[x] = 0
    PROVE  SumFunctionOnSet(f, S) = 0
<1> DEFINE P == {T \in SUBSET S : SumFunctionOnSet(f, T) = 0}
<1>1. {} \in P
  BY SumEmpty
<1>2. ASSUME NEW T \in SUBSET S, NEW x \in S, T \in P, x \notin T
      PROVE  T \cup {x} \in P
  <2>1. IsFiniteSet(T) /\ \A y \in T \cup {x} : f[y] \in Int
    BY FS_Subset
  <2>2. SumFunctionOnSet(f, T \cup {x}) = SumFunctionOnSet(f, T) + f[x]
    BY <1>2, <2>1, SumAdd
  <2> QED
    BY <1>2, <2>2
<1> HIDE DEF P
<1>3. \A T \in SUBSET S, x \in S : T \in P /\ x \notin T => T \cup {x} \in P
  BY <1>2
<1>4. \A T \in SUBSET S : T \in P
  BY <1>1, <1>3, SubsetsByInduction
<1> QED
  BY <1>4 DEF P

\* A sum of natural numbers is one, and at least as large as each of its terms.
THEOREM SumNat ==
    ASSUME NEW S, IsFiniteSet(S), NEW f, \A x \in S : f[x] \in Nat
    PROVE  /\ SumFunctionOnSet(f, S) \in Nat
           /\ \A x \in S : f[x] <= SumFunctionOnSet(f, S)
<1>1. ASSUME NEW T \in SUBSET S PROVE SumFunctionOnSet(f, T) \in Nat
  <2> DEFINE zero == [x \in S |-> 0]
  <2>1. IsFiniteSet(T) /\ \A x \in T : f[x] \in Int /\ zero[x] = 0 /\ zero[x] <= f[x]
    BY FS_Subset
  <2> HIDE DEF zero
  <2>2. SumFunctionOnSet(zero, T) = 0 /\ SumFunctionOnSet(f, T) \in Int
    BY <2>1, SumZero, SumType
  <2>3. SumFunctionOnSet(zero, T) <= SumFunctionOnSet(f, T)
    BY <2>1, SumLeq
  <2> QED
    BY <2>2, <2>3
<1>2. ASSUME NEW x \in S PROVE f[x] <= SumFunctionOnSet(f, S)
  <2>1. SumFunctionOnSet(f, S) = f[x] + SumFunctionOnSet(f, S \ {x})
    BY SumRemove
  <2>2. SumFunctionOnSet(f, S \ {x}) \in Nat /\ f[x] \in Nat
    BY <1>1
  <2> QED
    BY <2>1, <2>2
<1> QED
  BY <1>1, <1>2

\* Indices whose value is zero may be left out.
THEOREM SumSupport ==
    ASSUME NEW S, IsFiniteSet(S), NEW R \in SUBSET S, NEW f,
           \A x \in S : f[x] \in Int, \A x \in S \ R : f[x] = 0
    PROVE  SumFunctionOnSet(f, S) = SumFunctionOnSet(f, R)
<1> DEFINE Claim(T) == SumFunctionOnSet(f, R \cup T) = SumFunctionOnSet(f, R)
           P == {T \in SUBSET (S \ R) : Claim(T)}
<1>1. {} \in P
  <2>1. R \cup {} = R
    OBVIOUS
  <2> QED
    BY <2>1
<1>2. ASSUME NEW T \in SUBSET (S \ R), NEW x \in S \ R, T \in P, x \notin T
      PROVE  T \cup {x} \in P
  <2> DEFINE U == R \cup T
  <2>1. /\ IsFiniteSet(U) /\ x \notin U /\ \A y \in U \cup {x} : f[y] \in Int
        /\ U \cup {x} = R \cup (T \cup {x}) /\ f[x] = 0
    BY <1>2, FS_Subset
  <2>2. Claim(T)
    BY <1>2
  <2>3. SumFunctionOnSet(f, R) \in Int
    BY FS_Subset, SumType
  <2> HIDE DEF U
  <2>4. SumFunctionOnSet(f, U \cup {x}) = SumFunctionOnSet(f, U) + f[x]
    BY <2>1, SumAdd
  <2>5. SumFunctionOnSet(f, U \cup {x}) = SumFunctionOnSet(f, R)
    <3>1. SumFunctionOnSet(f, U) = SumFunctionOnSet(f, R)
      BY <2>2 DEF U
    <3> QED
      BY <2>1, <2>3, <2>4, <3>1
  <2>6. Claim(T \cup {x})
    BY <2>1, <2>5
  <2> HIDE DEF Claim
  <2> QED
    BY <2>6
<1> HIDE DEF P
<1>3. IsFiniteSet(S \ R)
  BY FS_Subset
<1>4. S \ R \in P
  <2>1. \A T \in SUBSET (S \ R), x \in S \ R : T \in P /\ x \notin T => T \cup {x} \in P
    BY <1>2
  <2> DEFINE D == S \ R
  <2>2. IsFiniteSet(D) /\ \A T \in SUBSET D, x \in D : T \in P /\ x \notin T => T \cup {x} \in P
    BY <1>3, <2>1
  <2> HIDE DEF D
  <2>3. \A T \in SUBSET D : T \in P
    BY <1>1, <2>2, SubsetsByInduction
  <2> QED
    BY <2>3 DEF D
<1>5. R \cup (S \ R) = S
  OBVIOUS
<1> QED
  BY <1>4, <1>5 DEF P

\* The sum of a sequence without its first element.
THEOREM SumShift ==
    ASSUME NEW m \in Nat, NEW f, NEW g, \A j \in 1..(m + 1) : f[j] \in Int,
           \A j \in 1..m : g[j] = f[j + 1]
    PROVE  SumFunctionOnSet(f, 1..(m + 1)) = f[1] + SumFunctionOnSet(g, 1..m)
<1> DEFINE Claim(k) == k <= m =>
              SumFunctionOnSet(f, 1..(k + 1)) = f[1] + SumFunctionOnSet(g, 1..k)
           T == {k \in Nat : Claim(k)}
<1>1. 0 \in T
  <2>1. 1..0 = {} /\ 1..(0 + 1) = {} \cup {1} /\ f[1] \in Int
    OBVIOUS
  <2>2. SumFunctionOnSet(f, {} \cup {1}) = SumFunctionOnSet(f, {}) + f[1]
    BY <2>1, FS_EmptySet, SumAdd
  <2> QED
    BY <2>1, <2>2, SumEmpty
<1>2. ASSUME NEW k \in Nat, k \in T
      PROVE  k + 1 \in T
  <2> SUFFICES ASSUME k + 1 <= m
               PROVE  SumFunctionOnSet(f, 1..(k + 1 + 1)) = f[1] + SumFunctionOnSet(g, 1..(k + 1))
    OBVIOUS
  <2>1. SumFunctionOnSet(f, 1..(k + 1)) = f[1] + SumFunctionOnSet(g, 1..k)
    BY <1>2
  <2> DEFINE A == 1..(k + 1)
             B == 1..k
             a == k + 2
             b == k + 1
  <2>2. IsFiniteSet(A) /\ IsFiniteSet(B)
    <3>1. 1 \in Int /\ k \in Int /\ k + 1 \in Int
      OBVIOUS
    <3> QED BY <3>1, FS_Interval
  <2>3. /\ 1..(k + 1 + 1) = A \cup {a} /\ a \notin A
        /\ 1..(k + 1) = B \cup {b} /\ b \notin B
    OBVIOUS
  <2>4. /\ \A j \in A \cup {a} : f[j] \in Int
        /\ \A j \in B \cup {b} : g[j] \in Int
        /\ g[b] = f[a] /\ f[1] \in Int /\ f[a] \in Int
    <3>1. \A j \in A \cup {a} : j \in 1..(m + 1)
      OBVIOUS
    <3>2. \A j \in B \cup {b} : j \in 1..m /\ j + 1 \in 1..(m + 1)
      OBVIOUS
    <3>3. b \in 1..m /\ b + 1 = a /\ 1 \in 1..(m + 1) /\ a \in 1..(m + 1)
      OBVIOUS
    <3> QED BY <3>1, <3>2, <3>3
  <2>5. SumFunctionOnSet(f, A) = f[1] + SumFunctionOnSet(g, B)
    BY <2>1
  <2> HIDE DEF A, B, a, b
  <2>6. SumFunctionOnSet(f, A \cup {a}) = SumFunctionOnSet(f, A) + f[a]
    BY <2>2, <2>3, <2>4, SumAdd
  <2>7. SumFunctionOnSet(g, B \cup {b}) = SumFunctionOnSet(g, B) + g[b]
    BY ZenonT(40), <2>2, <2>3, <2>4, SumAdd
  <2>8. SumFunctionOnSet(g, B) \in Int
    BY <2>2, <2>4, SumType
  <2>9. SumFunctionOnSet(f, A \cup {a}) = f[1] + SumFunctionOnSet(g, B \cup {b})
    BY <2>4, <2>5, <2>6, <2>7, <2>8
  <2> QED
    BY <2>3, <2>9
<1> HIDE DEF T
<1>3. m \in T
  BY <1>1, <1>2, NaturalsByInduction
<1> QED
  BY <1>3 DEF T

\* A finite set of natural numbers has a largest one.
THEOREM LargestNatural ==
    ASSUME NEW S \in SUBSET Nat, IsFiniteSet(S), S # {}
    PROVE  \E n \in S : \A m \in S : m <= n
<1> DEFINE Top(T) == \E n \in T : \A m \in T : m <= n
           P == {T \in SUBSET S : T = {} \/ Top(T)}
<1>1. {} \in P
  OBVIOUS
<1>2. ASSUME NEW T \in SUBSET S, NEW x \in S, T \in P, x \notin T
      PROVE  T \cup {x} \in P
  <2>1. CASE T = {}
    BY <2>1
  <2>2. CASE T # {}
    <3>1. PICK n \in T : \A m \in T : m <= n
      BY <1>2, <2>2
    <3>2. CASE n <= x
      BY <3>1, <3>2
    <3>3. CASE ~(n <= x)
      BY <3>1, <3>3
    <3> QED BY <3>2, <3>3
  <2> QED BY <2>1, <2>2
<1> HIDE DEF P
<1>3. \A T \in SUBSET S, x \in S : T \in P /\ x \notin T => T \cup {x} \in P
  BY <1>2
<1>4. \A T \in SUBSET S : T \in P
  BY <1>1, <1>3, SubsetsByInduction
<1> QED
  BY <1>4 DEF P
=============================================================================
