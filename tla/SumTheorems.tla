---------------------------- MODULE SumTheorems ----------------------------
(***************************************************************************)
(* Sums, least numbers and recursive functions.  SumFunctionOnSet (module  *)
(* Functions) is the sum of the numbers f[x], for the x of a finite set S. *)
(* The sum is defined by recursion, and an induction theorem with an       *)
(* operator for its predicate is nothing the provers can use; the two      *)
(* inductions here are over sets, the set of the numbers, or of the        *)
(* subsets of S, for which what is to be shown holds.  By the first, a     *)
(* function on the numbers defined by recursion is what its equation says. *)
(***************************************************************************)
EXTENDS Functions, FiniteSets, FiniteSetTheorems, WellFoundedInduction, TLAPS

-----------------------------------------------------------------------------
(* Induction. *)

\* A set that has zero, and n + 1 for every n that it has, has all numbers.
LEMMA NumbersInduction ==
    ASSUME NEW N, 0 \in N, \A n \in Nat : n \in N => n + 1 \in N
    PROVE  Nat \subseteq N
<1> DEFINE Rest == Nat \ N
<1>1. SUFFICES ASSUME Rest # {} PROVE FALSE
  OBVIOUS
<1>2. PICK x \in Rest : \A y \in Rest : ~(<<y, x>> \in OpToRel(<, Nat))
  <2>1. Rest \subseteq Nat
    OBVIOUS
  <2> HIDE DEF Rest
  <2> QED BY <1>1, <2>1, NatLessThanWellFounded, WFMin
<1>3. x - 1 \in Nat /\ x = (x - 1) + 1
  <2>1. x \in Nat /\ x # 0
    OBVIOUS
  <2> QED BY <2>1
<1>4. x - 1 \notin N
  BY <1>3
<1>5. x - 1 \in Rest /\ x - 1 < x
  BY <1>3, <1>4
<1> QED BY <1>2, <1>5 DEF OpToRel

\* The same up to a bound.
LEMMA UpToInduction ==
    ASSUME NEW m \in Nat, NEW N, 0 \in N, \A n \in 0..(m - 1) : n \in N => n + 1 \in N
    PROVE  0..m \subseteq N
<1> DEFINE M == {n \in Nat : n <= m => n \in N}
<1>1. 0 \in M
  OBVIOUS
<1>2. ASSUME NEW n \in Nat, n \in M PROVE n + 1 \in M
  <2>1. SUFFICES ASSUME n + 1 <= m PROVE n + 1 \in N
    OBVIOUS
  <2>2. n \in 0..(m - 1) /\ n \in N
    BY <1>2, <2>1
  <2> QED BY <2>2
<1>3. Nat \subseteq M
  <2> HIDE DEF M
  <2> QED BY <1>1, <1>2, NumbersInduction
<1> QED BY <1>3

\* Where each number but some names a smaller one, there is a function that is defined
\* outright for the former and by its value for the smaller one otherwise.
Recursive(f, N, B, base, below, step) ==
    \A n \in N : f[n] = IF n \in B THEN base[n] ELSE step[n][f[below[n]]]

\* There is such a function, with values in V if base and step have theirs there.
LEMMA Recursion ==
    ASSUME NEW V, NEW B, NEW base, NEW below, NEW step,
           \A n \in Nat : n \in B => base[n] \in V,
           \A n \in Nat : n \notin B => below[n] \in 0..(n - 1),
           \A n \in Nat : n \notin B => \A v \in V : step[n][v] \in V
    PROVE  \E f \in [Nat -> V] : Recursive(f, Nat, B, base, below, step)
<1> DEFINE UpTo(m, f) == f \in [0..m -> V] /\ Recursive(f, 0..m, B, base, below, step)
           N == {m \in Nat : \E f : UpTo(m, f)}
<1>0. \A n \in Nat : n \notin B => below[n] \in Nat /\ below[n] < n
  OBVIOUS
<1>1. 0 \in N
  <2> DEFINE f == [n \in 0..0 |-> base[n]]
  <2>1. 0 \in B
    BY <1>0
  <2>2. \A n \in 0..0 : n = 0
    OBVIOUS
  <2>3. UpTo(0, f)
    BY <2>1, <2>2 DEF Recursive
  <2> HIDE DEF f
  <2> QED BY <2>3
<1>2. ASSUME NEW m \in Nat, m \in N PROVE m + 1 \in N
  <2>1. PICK f : UpTo(m, f)
    BY <1>2
  <2> DEFINE g == [n \in 0..(m + 1) |-> IF n \in 0..m THEN f[n]
                                        ELSE IF n \in B THEN base[n] ELSE step[n][f[below[n]]]]
  <2>2. \A n \in 0..(m + 1) : n \in Nat /\ (n \notin 0..m => n = m + 1)
    OBVIOUS
  <2>3. \A n \in 0..(m + 1) : n \notin B => below[n] \in 0..m /\ below[n] \in 0..(m + 1)
    BY <1>0, <2>2
  <2>4. g \in [0..(m + 1) -> V]
    <3>1. \A n \in 0..m : f[n] \in V
      BY <2>1
    <3>2. ASSUME NEW n \in 0..(m + 1) PROVE g[n] \in V
      <4>1. CASE n \in 0..m
        BY <3>1, <4>1
      <4>2. CASE n \notin 0..m /\ n \in B
        BY <2>2, <4>2
      <4>3. CASE n \notin 0..m /\ n \notin B
        <5>1. f[below[n]] \in V /\ n \in Nat
          BY <2>2, <2>3, <3>1, <4>3
        <5> QED BY <4>3, <5>1
      <4> QED BY <4>1, <4>2, <4>3
    <3> QED BY <3>2
  <2>5. \A n \in 0..m : g[n] = f[n] /\ n \in 0..(m + 1)
    OBVIOUS
  <2>6. \A n \in 0..(m + 1) : n \notin 0..m =>
            g[n] = IF n \in B THEN base[n] ELSE step[n][f[below[n]]]
    OBVIOUS
  <2> HIDE DEF g
  <2>7. Recursive(g, 0..(m + 1), B, base, below, step)
    <3> SUFFICES ASSUME NEW n \in 0..(m + 1)
                 PROVE  g[n] = IF n \in B THEN base[n] ELSE step[n][g[below[n]]]
      BY DEF Recursive
    <3>1. n \notin B => g[below[n]] = f[below[n]]
      BY <2>3, <2>5
    <3>2. n \in 0..m => f[n] = IF n \in B THEN base[n] ELSE step[n][f[below[n]]]
      BY <2>1 DEF Recursive
    <3> QED BY <2>5, <2>6, <3>1, <3>2
  <2>8. UpTo(m + 1, g)
    BY <2>4, <2>7
  <2> HIDE DEF UpTo
  <2> QED BY <2>8
<1>3. \A m \in Nat : \E f : UpTo(m, f)
  <2> HIDE DEF UpTo
  <2>1. Nat \subseteq N
    <3> HIDE DEF N
    <3> QED BY <1>1, <1>2, NumbersInduction
  <2> QED BY <2>1
<1>4. ASSUME NEW m \in Nat, NEW l \in Nat, l <= m, NEW f, UpTo(m, f), NEW g, UpTo(l, g)
      PROVE  f[l] = g[l]
  <2> DEFINE M == {n \in Nat : \A k \in 0..n : k <= l => f[k] = g[k]}
  <2>1. \A n \in 0..l : /\ n \in 0..m /\ n \in Nat
                        /\ f[n] = IF n \in B THEN base[n] ELSE step[n][f[below[n]]]
                        /\ g[n] = IF n \in B THEN base[n] ELSE step[n][g[below[n]]]
    BY <1>4 DEF Recursive
  <2>2. 0 \in M
    <3>1. 0 \in B /\ 0 \in 0..l /\ \A k \in 0..0 : k = 0
      BY <1>0
    <3> QED BY <2>1, <3>1
  <2>3. ASSUME NEW n \in Nat, n \in M PROVE n + 1 \in M
    <3> SUFFICES ASSUME NEW k \in 0..(n + 1), k <= l PROVE f[k] = g[k]
      OBVIOUS
    <3>1. k \in 0..l /\ (k \notin B => below[k] \in 0..n /\ below[k] <= l)
      BY <1>0
    <3>2. k \notin B => f[below[k]] = g[below[k]]
      BY <2>3, <3>1
    <3> QED BY <2>1, <3>1, <3>2
  <2>4. l \in M
    <3> HIDE DEF M
    <3> QED BY <2>2, <2>3, NumbersInduction
  <2> QED BY <2>4
<1> DEFINE G == [m \in Nat |-> CHOOSE f : UpTo(m, f)]
           F == [m \in Nat |-> G[m][m]]
<1>5. \A m \in Nat : UpTo(m, G[m])
  <2> HIDE DEF UpTo
  <2> QED BY <1>3
<1>6. \A m \in Nat : F[m] = G[m][m] /\ m \in 0..m
  OBVIOUS
<1> HIDE DEF G
<1>7. F \in [Nat -> V]
  BY <1>5
<1> HIDE DEF F
<1>8. Recursive(F, Nat, B, base, below, step)
  <2> SUFFICES ASSUME NEW n \in Nat PROVE F[n] = IF n \in B THEN base[n] ELSE step[n][F[below[n]]]
    BY DEF Recursive
  <2>1. G[n][n] = IF n \in B THEN base[n] ELSE step[n][G[n][below[n]]]
    BY <1>5, <1>6 DEF Recursive
  <2>2. ASSUME n \notin B PROVE G[n][below[n]] = F[below[n]]
    <3> DEFINE b == below[n]
    <3>1. b \in Nat /\ b <= n
      BY <1>0, <2>2
    <3> HIDE DEF b, UpTo
    <3>2. UpTo(n, G[n]) /\ UpTo(b, G[b])
      BY <1>5, <3>1
    <3>3. G[n][b] = G[b][b]
      BY <1>4, <3>1, <3>2
    <3> QED BY <1>6, <3>1, <3>3 DEF b
  <2> QED BY <1>6, <2>1, <2>2
<1> QED BY <1>7, <1>8

\* Some numbers have a least one.
LEMMA LeastNumber ==
    ASSUME NEW S \in SUBSET Nat, S # {}
    PROVE  \E x \in S : \A y \in S : x <= y
<1>1. PICK x \in S : \A y \in S : ~(<<y, x>> \in OpToRel(<, Nat))
  BY NatLessThanWellFounded, WFMin
<1>2. \A y \in S : ~(y < x)
  BY <1>1 DEF OpToRel
<1> QED BY <1>2

\* Subsets of a finite set, by their size.
LEMMA SubsetsInduction ==
    ASSUME NEW S, IsFiniteSet(S), NEW P, {} \in P,
           \A T \in SUBSET S, x \in S : T \in P /\ x \notin T => T \cup {x} \in P
    PROVE  SUBSET S \subseteq P
<1> DEFINE N == {n \in Nat : \A T \in SUBSET S : Cardinality(T) = n => T \in P}
<1>1. 0 \in N
  <2>1. \A T \in SUBSET S : Cardinality(T) = 0 => T = {}
    BY FS_Subset, FS_EmptySet
  <2> QED BY <2>1
<1>2. ASSUME NEW n \in Nat, n \in N PROVE n + 1 \in N
  <2>1. SUFFICES ASSUME NEW T \in SUBSET S, Cardinality(T) = n + 1 PROVE T \in P
    BY <1>2
  <2>2. IsFiniteSet(T) /\ T # {}
    BY <2>1, FS_Subset, FS_EmptySet
  <2>3. PICK x \in T : TRUE
    BY <2>2
  <2>4. Cardinality(T \ {x}) = n
    <3>1. Cardinality(T \ {x}) = Cardinality(T) - 1
      BY <2>2, <2>3, FS_RemoveElement
    <3> QED BY <2>1, <3>1
  <2>5. T \ {x} \in SUBSET S /\ T \ {x} \in P
    BY <1>2, <2>4
  <2>6. (T \ {x}) \cup {x} = T
    OBVIOUS
  <2> QED BY <2>5, <2>6
<1>3. Nat \subseteq N
  <2> HIDE DEF N
  <2> QED BY <1>1, <1>2, NumbersInduction
<1>4. \A T \in SUBSET S : Cardinality(T) \in Nat
  BY FS_Subset, FS_CardinalityType
<1> QED BY <1>3, <1>4

-----------------------------------------------------------------------------
(* The recursion. *)

Pick(s) == CHOOSE x \in s : TRUE

\* g is the sum of f over the subsets of S, as the recursion has it.
Sums(f, S, g) ==
    g = [s \in SUBSET S |-> IF s = {} THEN 0 ELSE f[Pick(s)] + g[s \ {Pick(s)}]]

\* There are such sums for every finite set.
LEMMA SumsExist ==
    ASSUME NEW S, IsFiniteSet(S), NEW f
    PROVE  \E g : Sums(f, S, g)
<1> DEFINE Small(n) == {s \in SUBSET S : Cardinality(s) <= n}
           Upto(n, g) == g = [s \in Small(n) |->
                                IF s = {} THEN 0 ELSE f[Pick(s)] + g[s \ {Pick(s)}]]
           N == {n \in Nat : \E g : Upto(n, g)}
<1>1. 0 \in N
  <2> DEFINE g == [s \in Small(0) |-> 0]
  <2>1. \A s \in Small(0) : s = {}
    BY FS_Subset, FS_EmptySet, FS_CardinalityType
  <2>2. Upto(0, g)
    BY <2>1
  <2> QED BY <2>2
<1>2. ASSUME NEW n \in Nat, n \in N PROVE n + 1 \in N
  <2>1. PICK g : Upto(n, g)
    BY <1>2
  <2> DEFINE h == [s \in Small(n + 1) |->
                     IF s = {} THEN 0 ELSE f[Pick(s)] + g[s \ {Pick(s)}]]
  <2>2. \A s \in Small(n + 1) : s # {} => s \ {Pick(s)} \in Small(n)
    <3>1. SUFFICES ASSUME NEW s \in Small(n + 1), s # {} PROVE s \ {Pick(s)} \in Small(n)
      OBVIOUS
    <3>2. IsFiniteSet(s) /\ Pick(s) \in s
      BY <3>1, FS_Subset DEF Pick
    <3>3. Cardinality(s \ {Pick(s)}) = Cardinality(s) - 1 /\ Cardinality(s) \in Nat
      BY <3>2, FS_RemoveElement, FS_CardinalityType
    <3> QED BY <3>1, <3>3
  <2>3. Small(n) \subseteq Small(n + 1)
    BY FS_Subset, FS_CardinalityType
  <2>4. \A s \in Small(n) : h[s] = g[s]
    BY <2>1, <2>3
  <2>5. Upto(n + 1, h)
    BY <2>2, <2>4
  <2>6. \E k : Upto(n + 1, k)
    <3> HIDE DEF h
    <3> QED BY <2>5
  <2> HIDE DEF Upto
  <2> QED BY <2>6
<1>3. Nat \subseteq N
  <2> HIDE DEF N
  <2> QED BY <1>1, <1>2, NumbersInduction
<1>4. PICK g : Upto(Cardinality(S), g)
  BY <1>3, FS_CardinalityType
<1>5. Small(Cardinality(S)) = SUBSET S
  BY FS_Subset
<1> QED BY <1>4, <1>5 DEF Sums

\* Two of them agree on what they share.
LEMMA SumsAgree ==
    ASSUME NEW S, IsFiniteSet(S), NEW T \in SUBSET S, NEW f,
           NEW g, Sums(f, S, g), NEW h, Sums(f, T, h)
    PROVE  h[T] = g[T]
<1> DEFINE N == {n \in Nat : \A s \in SUBSET T : Cardinality(s) = n => h[s] = g[s]}
<1>1. 0 \in N
  <2>1. \A s \in SUBSET T : Cardinality(s) = 0 => s = {}
    BY FS_Subset, FS_EmptySet
  <2> QED BY <2>1 DEF Sums
<1>2. ASSUME NEW n \in Nat, n \in N PROVE n + 1 \in N
  <2>1. SUFFICES ASSUME NEW s \in SUBSET T, Cardinality(s) = n + 1 PROVE h[s] = g[s]
    OBVIOUS
  <2>2. IsFiniteSet(s) /\ s # {}
    BY <2>1, FS_Subset, FS_EmptySet
  <2>3. Pick(s) \in s
    BY <2>2 DEF Pick
  <2>4. Cardinality(s \ {Pick(s)}) = n
    <3>1. Cardinality(s \ {Pick(s)}) = Cardinality(s) - 1
      BY <2>2, <2>3, FS_RemoveElement
    <3> QED BY <2>1, <3>1
  <2>5. h[s \ {Pick(s)}] = g[s \ {Pick(s)}]
    BY <1>2, <2>4
  <2>6. h[s] = f[Pick(s)] + h[s \ {Pick(s)}] /\ g[s] = f[Pick(s)] + g[s \ {Pick(s)}]
    BY <2>2 DEF Sums
  <2> QED BY <2>5, <2>6
<1>3. Nat \subseteq N
  <2> HIDE DEF N
  <2> QED BY <1>1, <1>2, NumbersInduction
<1>4. Cardinality(T) \in Nat
  BY FS_Subset, FS_CardinalityType
<1> QED BY <1>3, <1>4

\* The sum is theirs.
LEMMA SumIsTheirs ==
    ASSUME NEW S, IsFiniteSet(S), NEW T \in SUBSET S, NEW f, NEW g, Sums(f, S, g)
    PROVE  SumFunctionOnSet(f, T) = g[T]
<1> DEFINE h == CHOOSE h : Sums(f, T, h)
<1>1. SumFunctionOnSet(f, T) = h[T]
  BY DEF SumFunctionOnSet, FoldFunctionOnSet, MapThenFoldSet, Sums, Pick
<1>2. Sums(f, T, h)
  BY SumsExist, FS_Subset
<1> HIDE DEF h
<1> QED BY <1>1, <1>2, SumsAgree
-----------------------------------------------------------------------------
(* What sums are. *)

\* The empty sum is zero.
LEMMA SumOfNone == ASSUME NEW f PROVE SumFunctionOnSet(f, {}) = 0
<1>1. IsFiniteSet({})
  BY FS_EmptySet
<1>2. PICK g : Sums(f, {}, g)
  BY <1>1, SumsExist
<1>3. SumFunctionOnSet(f, {}) = g[{}]
  BY <1>1, <1>2, SumIsTheirs
<1> QED BY <1>2, <1>3 DEF Sums

\* The sum of some numbers is that of all but one of them, and that one.
LEMMA SumPicked ==
    ASSUME NEW S, IsFiniteSet(S), S # {}, NEW f
    PROVE  SumFunctionOnSet(f, S) = f[Pick(S)] + SumFunctionOnSet(f, S \ {Pick(S)})
<1>1. PICK g : Sums(f, S, g)
  BY SumsExist
<1>2. SumFunctionOnSet(f, S) = g[S] /\ SumFunctionOnSet(f, S \ {Pick(S)}) = g[S \ {Pick(S)}]
  <2>1. S \in SUBSET S /\ S \ {Pick(S)} \in SUBSET S
    OBVIOUS
  <2> QED BY <1>1, <2>1, SumIsTheirs
<1>3. g[S] = f[Pick(S)] + g[S \ {Pick(S)}]
  BY <1>1 DEF Sums
<1> QED BY <1>2, <1>3

\* A sum of numbers is a number.
LEMMA SumType ==
    ASSUME NEW S, IsFiniteSet(S), NEW f, \A x \in S : f[x] \in Nat
    PROVE  SumFunctionOnSet(f, S) \in Nat
<1> DEFINE N == {n \in Nat : \A T \in SUBSET S :
                               Cardinality(T) = n => SumFunctionOnSet(f, T) \in Nat}
<1>1. 0 \in N
  <2>1. \A T \in SUBSET S : Cardinality(T) = 0 => T = {}
    BY FS_Subset, FS_EmptySet
  <2> QED BY <2>1, SumOfNone
<1>2. ASSUME NEW n \in Nat, n \in N PROVE n + 1 \in N
  <2>1. SUFFICES ASSUME NEW T \in SUBSET S, Cardinality(T) = n + 1
                 PROVE  SumFunctionOnSet(f, T) \in Nat
    OBVIOUS
  <2>2. IsFiniteSet(T) /\ T # {}
    BY <2>1, FS_Subset, FS_EmptySet
  <2>3. Pick(T) \in T
    BY <2>2 DEF Pick
  <2>4. Cardinality(T \ {Pick(T)}) = n
    <3>1. Cardinality(T \ {Pick(T)}) = Cardinality(T) - 1
      BY <2>2, <2>3, FS_RemoveElement
    <3> QED BY <2>1, <3>1
  <2>5. SumFunctionOnSet(f, T \ {Pick(T)}) \in Nat
    BY <1>2, <2>4
  <2>6. SumFunctionOnSet(f, T) = f[Pick(T)] + SumFunctionOnSet(f, T \ {Pick(T)})
    BY <2>2, SumPicked
  <2>7. f[Pick(T)] \in Nat
    BY <2>3
  <2> QED BY <2>5, <2>6, <2>7
<1>3. Nat \subseteq N
  <2> HIDE DEF N
  <2> QED BY <1>1, <1>2, NumbersInduction
<1>4. Cardinality(S) \in Nat
  BY FS_CardinalityType
<1> QED BY <1>3, <1>4

\* It does not matter which one.
LEMMA SumWithout ==
    ASSUME NEW S, IsFiniteSet(S), NEW f, \A x \in S : f[x] \in Nat, NEW e \in S
    PROVE  SumFunctionOnSet(f, S) = f[e] + SumFunctionOnSet(f, S \ {e})
<1> DEFINE N == {n \in Nat : \A T \in SUBSET S : \A y \in T : Cardinality(T) = n
                   => SumFunctionOnSet(f, T) = f[y] + SumFunctionOnSet(f, T \ {y})}
<1>1. 0 \in N
  <2>1. \A T \in SUBSET S : Cardinality(T) = 0 => T = {}
    BY FS_Subset, FS_EmptySet
  <2> QED BY <2>1
<1>2. ASSUME NEW n \in Nat, n \in N PROVE n + 1 \in N
  <2>1. SUFFICES ASSUME NEW T \in SUBSET S, NEW y \in T, Cardinality(T) = n + 1
                 PROVE  SumFunctionOnSet(f, T) = f[y] + SumFunctionOnSet(f, T \ {y})
    OBVIOUS
  <2>2. IsFiniteSet(T)
    BY FS_Subset
  <2>3. SumFunctionOnSet(f, T) = f[Pick(T)] + SumFunctionOnSet(f, T \ {Pick(T)})
    BY <2>2, SumPicked
  <2>4. CASE y # Pick(T)
    <3> DEFINE x == Pick(T)
               R == T \ {x}
               Q == T \ {y}
    <3>1. x \in Q /\ y \in R /\ R \ {y} = Q \ {x}
      BY <2>4 DEF Pick
    <3>2. Cardinality(R) = n /\ Cardinality(Q) = n
      <4>1. Cardinality(R) = Cardinality(T) - 1 /\ Cardinality(Q) = Cardinality(T) - 1
        BY <2>2, <3>1, FS_RemoveElement
      <4> QED BY <2>1, <4>1
    <3>3. R \in SUBSET S /\ Q \in SUBSET S
      OBVIOUS
    <3>4. SumFunctionOnSet(f, R) = f[y] + SumFunctionOnSet(f, R \ {y})
      BY <1>2, <3>1, <3>2, <3>3
    <3>5. SumFunctionOnSet(f, Q) = f[x] + SumFunctionOnSet(f, Q \ {x})
      BY <1>2, <3>1, <3>2, <3>3
    <3>6. f[x] \in Nat /\ f[y] \in Nat /\ SumFunctionOnSet(f, R \ {y}) \in Nat
      <4>1. x \in S /\ IsFiniteSet(R \ {y}) /\ \A z \in R \ {y} : f[z] \in Nat
        BY <3>1, FS_Subset
      <4> QED BY <4>1, SumType
    <3> HIDE DEF R, Q, x
    <3>7. SumFunctionOnSet(f, T) = f[x] + SumFunctionOnSet(f, R)
      BY <2>3 DEF R, x
    <3>8. SumFunctionOnSet(f, T) = f[y] + SumFunctionOnSet(f, Q)
      BY <3>1, <3>4, <3>5, <3>6, <3>7
    <3> QED BY <3>8 DEF Q
  <2> QED BY <2>3, <2>4
<1>3. Nat \subseteq N
  <2> HIDE DEF N
  <2> QED BY <1>1, <1>2, NumbersInduction
<1>4. Cardinality(S) \in Nat
  BY FS_CardinalityType
<1> QED BY <1>3, <1>4

\* One summand more.
LEMMA SumWith ==
    ASSUME NEW S, IsFiniteSet(S), NEW f, \A x \in S : f[x] \in Nat,
           NEW e, e \notin S, f[e] \in Nat
    PROVE  SumFunctionOnSet(f, S \cup {e}) = SumFunctionOnSet(f, S) + f[e]
<1>1. (S \cup {e}) \ {e} = S
  OBVIOUS
<1>2. IsFiniteSet(S \cup {e}) /\ \A x \in S \cup {e} : f[x] \in Nat
  BY FS_AddElement
<1>3. SumFunctionOnSet(f, S \cup {e}) = f[e] + SumFunctionOnSet(f, S)
  BY <1>1, <1>2, SumWithout
<1>4. SumFunctionOnSet(f, S) \in Nat
  BY SumType
<1> QED BY <1>3, <1>4
\* Sums grow with their summands.
LEMMA SumLeq ==
    ASSUME NEW S, IsFiniteSet(S), NEW f, NEW g,
           \A x \in S : f[x] \in Nat /\ g[x] \in Nat /\ f[x] <= g[x]
    PROVE  SumFunctionOnSet(f, S) <= SumFunctionOnSet(g, S)
<1> DEFINE P == {T \in SUBSET S : SumFunctionOnSet(f, T) <= SumFunctionOnSet(g, T)}
<1>1. {} \in P
  BY SumOfNone
<1>2. ASSUME NEW T \in SUBSET S, NEW e \in S, T \in P, e \notin T
      PROVE  T \cup {e} \in P
  <2>1. IsFiniteSet(T)
    BY FS_Subset
  <2>2. /\ SumFunctionOnSet(f, T \cup {e}) = SumFunctionOnSet(f, T) + f[e]
        /\ SumFunctionOnSet(g, T \cup {e}) = SumFunctionOnSet(g, T) + g[e]
    BY <1>2, <2>1, SumWith
  <2>3. SumFunctionOnSet(f, T) \in Nat /\ SumFunctionOnSet(g, T) \in Nat
    BY <2>1, SumType
  <2>4. SumFunctionOnSet(f, T) <= SumFunctionOnSet(g, T)
    BY <1>2
  <2> QED BY <2>2, <2>3, <2>4
<1>3. SUBSET S \subseteq P
  <2> HIDE DEF P
  <2> QED BY <1>1, <1>2, SubsetsInduction
<1> QED BY <1>3

\* Equal summands have equal sums.
LEMMA SumSame ==
    ASSUME NEW S, IsFiniteSet(S), NEW f, NEW g,
           \A x \in S : f[x] \in Nat /\ f[x] = g[x]
    PROVE  SumFunctionOnSet(f, S) = SumFunctionOnSet(g, S)
<1>1. SumFunctionOnSet(f, S) <= SumFunctionOnSet(g, S) /\ SumFunctionOnSet(g, S) <= SumFunctionOnSet(f, S)
  <2>1. \A x \in S : f[x] <= g[x] /\ g[x] <= f[x] /\ g[x] \in Nat
    OBVIOUS
  <2> QED BY <2>1, SumLeq
<1>2. SumFunctionOnSet(f, S) \in Nat /\ SumFunctionOnSet(g, S) \in Nat
  <2>1. \A x \in S : g[x] \in Nat
    OBVIOUS
  <2> QED BY <2>1, SumType
<1> QED BY <1>1, <1>2

\* Elements that count for nothing may be left out.
LEMMA SumOfNonzero ==
    ASSUME NEW S, IsFiniteSet(S), NEW R \in SUBSET S, NEW f,
           \A x \in S : f[x] \in Nat, \A x \in S \ R : f[x] = 0
    PROVE  SumFunctionOnSet(f, S) = SumFunctionOnSet(f, R)
<1> DEFINE P == {T \in SUBSET S : SumFunctionOnSet(f, T) = SumFunctionOnSet(f, T \cap R)}
<1>1. {} \in P
  BY SumOfNone
<1>2. ASSUME NEW T \in SUBSET S, NEW e \in S, T \in P, e \notin T
      PROVE  T \cup {e} \in P
  <2>1. IsFiniteSet(T)
    BY FS_Subset
  <2>2. SumFunctionOnSet(f, T \cup {e}) = SumFunctionOnSet(f, T) + f[e]
    BY <1>2, <2>1, SumWith
  <2>3. SumFunctionOnSet(f, T) \in Nat
    BY <2>1, SumType
  <2>4. SumFunctionOnSet(f, T) = SumFunctionOnSet(f, T \cap R)
    BY <1>2
  <2>5. CASE e \in R
    <3>1. (T \cup {e}) \cap R = (T \cap R) \cup {e} /\ e \notin T \cap R
      BY <1>2, <2>5
    <3>2. IsFiniteSet(T \cap R) /\ \A x \in T \cap R : f[x] \in Nat
      BY FS_Subset
    <3>3. SumFunctionOnSet(f, (T \cap R) \cup {e}) = SumFunctionOnSet(f, T \cap R) + f[e]
      BY <3>1, <3>2, SumWith
    <3> QED BY <2>2, <2>4, <3>1, <3>3
  <2>6. CASE e \notin R
    <3>1. (T \cup {e}) \cap R = T \cap R
      BY <2>6
    <3>2. f[e] = 0
      BY <2>6
    <3>3. SumFunctionOnSet(f, T \cup {e}) = SumFunctionOnSet(f, T)
      BY <2>2, <2>3, <3>2
    <3> QED BY <2>4, <3>1, <3>3
  <2> QED BY <2>5, <2>6
<1>3. SUBSET S \subseteq P
  <2> HIDE DEF P
  <2> QED BY <1>1, <1>2, SubsetsInduction
<1>4. S \cap R = R
  OBVIOUS
<1> QED BY <1>3, <1>4

\* A part of the summands adds up to no more than all.
LEMMA SumOfPart ==
    ASSUME NEW S, IsFiniteSet(S), NEW R \in SUBSET S, NEW f, \A x \in S : f[x] \in Nat
    PROVE  SumFunctionOnSet(f, R) <= SumFunctionOnSet(f, S)
<1> DEFINE g == [x \in S |-> IF x \in R THEN f[x] ELSE 0]
<1>1. SumFunctionOnSet(g, S) = SumFunctionOnSet(g, R)
  <2>1. \A x \in S : g[x] \in Nat /\ (x \in S \ R => g[x] = 0)
    OBVIOUS
  <2> HIDE DEF g
  <2> QED BY <2>1, SumOfNonzero
<1>2. SumFunctionOnSet(f, R) = SumFunctionOnSet(g, R)
  <2>1. IsFiniteSet(R) /\ \A x \in R : f[x] \in Nat /\ f[x] = g[x]
    BY FS_Subset
  <2> HIDE DEF g
  <2> QED BY <2>1, SumSame
<1>3. SumFunctionOnSet(g, S) <= SumFunctionOnSet(f, S)
  <2>1. \A x \in S : g[x] \in Nat /\ f[x] \in Nat /\ g[x] <= f[x]
    OBVIOUS
  <2> HIDE DEF g
  <2> QED BY <2>1, SumLeq
<1> QED BY <1>1, <1>2, <1>3

\* The sum is linear.
LEMMA SumPlus ==
    ASSUME NEW S, IsFiniteSet(S), NEW f, NEW g, NEW h,
           \A x \in S : f[x] \in Nat /\ g[x] \in Nat /\ h[x] = f[x] + g[x]
    PROVE  SumFunctionOnSet(h, S) = SumFunctionOnSet(f, S) + SumFunctionOnSet(g, S)
<1> DEFINE P == {T \in SUBSET S : SumFunctionOnSet(h, T) = SumFunctionOnSet(f, T) + SumFunctionOnSet(g, T)}
<1>1. {} \in P
  BY SumOfNone
<1>2. ASSUME NEW T \in SUBSET S, NEW e \in S, T \in P, e \notin T
      PROVE  T \cup {e} \in P
  <2>1. IsFiniteSet(T)
    BY FS_Subset
  <2>2. /\ SumFunctionOnSet(f, T \cup {e}) = SumFunctionOnSet(f, T) + f[e]
        /\ SumFunctionOnSet(g, T \cup {e}) = SumFunctionOnSet(g, T) + g[e]
        /\ SumFunctionOnSet(h, T \cup {e}) = SumFunctionOnSet(h, T) + h[e]
    <3>1. \A x \in S : h[x] \in Nat
      OBVIOUS
    <3> QED BY <1>2, <2>1, <3>1, SumWith
  <2>3. SumFunctionOnSet(f, T) \in Nat /\ SumFunctionOnSet(g, T) \in Nat
    BY <2>1, SumType
  <2>4. SumFunctionOnSet(h, T) = SumFunctionOnSet(f, T) + SumFunctionOnSet(g, T)
    BY <1>2
  <2>5. f[e] \in Nat /\ g[e] \in Nat /\ h[e] = f[e] + g[e]
    OBVIOUS
  <2>6. SumFunctionOnSet(h, T \cup {e}) = SumFunctionOnSet(f, T \cup {e}) + SumFunctionOnSet(g, T \cup {e})
    BY <2>2, <2>3, <2>4, <2>5
  <2> QED BY <2>6
<1>3. SUBSET S \subseteq P
  <2> HIDE DEF P
  <2> QED BY <1>1, <1>2, SubsetsInduction
<1> QED BY <1>3

\* A factor common to all summands.
LEMMA SumScaled ==
    ASSUME NEW S, IsFiniteSet(S), NEW c \in Nat, NEW f, NEW g,
           \A x \in S : f[x] \in Nat /\ g[x] = c * f[x]
    PROVE  SumFunctionOnSet(g, S) = c * SumFunctionOnSet(f, S)
<1> DEFINE P == {T \in SUBSET S : SumFunctionOnSet(g, T) = c * SumFunctionOnSet(f, T)}
<1>1. {} \in P
  BY SumOfNone
<1>2. ASSUME NEW T \in SUBSET S, NEW e \in S, T \in P, e \notin T
      PROVE  T \cup {e} \in P
  <2>1. IsFiniteSet(T)
    BY FS_Subset
  <2>2. \A x \in S : g[x] \in Nat
    OBVIOUS
  <2>3. /\ SumFunctionOnSet(f, T \cup {e}) = SumFunctionOnSet(f, T) + f[e]
        /\ SumFunctionOnSet(g, T \cup {e}) = SumFunctionOnSet(g, T) + g[e]
    BY <1>2, <2>1, <2>2, SumWith
  <2>4. SumFunctionOnSet(f, T) \in Nat /\ f[e] \in Nat /\ g[e] = c * f[e]
    BY <2>1, SumType
  <2>5. SumFunctionOnSet(g, T) = c * SumFunctionOnSet(f, T)
    BY <1>2
  <2>6. \A a, b \in Nat : c * a + c * b = c * (a + b)
    OBVIOUS
  <2>7. SumFunctionOnSet(g, T \cup {e}) = c * SumFunctionOnSet(f, T \cup {e})
    BY <2>3, <2>4, <2>5, <2>6
  <2> QED BY <2>7
<1>3. SUBSET S \subseteq P
  <2> HIDE DEF P
  <2> QED BY <1>1, <1>2, SubsetsInduction
<1> QED BY <1>3

\* The sum of ones is their number.
LEMMA SumOfOnes ==
    ASSUME NEW S, IsFiniteSet(S), NEW f, \A x \in S : f[x] = 1
    PROVE  SumFunctionOnSet(f, S) = Cardinality(S)
<1> DEFINE P == {T \in SUBSET S : SumFunctionOnSet(f, T) = Cardinality(T)}
<1>1. {} \in P
  BY SumOfNone, FS_EmptySet
<1>2. ASSUME NEW T \in SUBSET S, NEW e \in S, T \in P, e \notin T
      PROVE  T \cup {e} \in P
  <2>1. IsFiniteSet(T)
    BY FS_Subset
  <2>2. SumFunctionOnSet(f, T \cup {e}) = SumFunctionOnSet(f, T) + f[e]
    <3>1. \A x \in S : f[x] \in Nat
      OBVIOUS
    <3> QED BY <1>2, <2>1, <3>1, SumWith
  <2>3. Cardinality(T \cup {e}) = Cardinality(T) + 1
    BY <1>2, <2>1, FS_AddElement
  <2> QED BY <1>2, <2>2, <2>3
<1>3. SUBSET S \subseteq P
  <2> HIDE DEF P
  <2> QED BY <1>1, <1>2, SubsetsInduction
<1> QED BY <1>3

\* Numbered otherwise, the same numbers add up to the same.
LEMMA SumOfImage ==
    ASSUME NEW S, IsFiniteSet(S), NEW f, NEW g, NEW h,
           \A x, y \in S : h[x] = h[y] => x = y,
           \A x \in S : g[x] \in Nat /\ g[x] = f[h[x]]
    PROVE  /\ IsFiniteSet({h[x] : x \in S})
           /\ SumFunctionOnSet(f, {h[x] : x \in S}) = SumFunctionOnSet(g, S)
<1> DEFINE P == {T \in SUBSET S :
                    /\ IsFiniteSet({h[x] : x \in T})
                    /\ SumFunctionOnSet(f, {h[x] : x \in T}) = SumFunctionOnSet(g, T)}
<1>1. {} \in P
  <2>1. {h[x] : x \in {}} = {}
    OBVIOUS
  <2> QED BY <2>1, SumOfNone, FS_EmptySet
<1>2. ASSUME NEW T \in SUBSET S, NEW e \in S, T \in P, e \notin T
      PROVE  T \cup {e} \in P
  <2>1. IsFiniteSet(T)
    BY FS_Subset
  <2> DEFINE H == {h[x] : x \in T}
  <2>2. {h[x] : x \in T \cup {e}} = H \cup {h[e]} /\ h[e] \notin H
    BY <1>2
  <2>3. IsFiniteSet(H) /\ IsFiniteSet(H \cup {h[e]})
    BY <1>2, FS_AddElement
  <2>4. \A y \in H : f[y] \in Nat
    OBVIOUS
  <2>5. f[h[e]] = g[e] /\ g[e] \in Nat
    OBVIOUS
  <2>6. SumFunctionOnSet(f, H) = SumFunctionOnSet(g, T)
    BY <1>2
  <2>7. SumFunctionOnSet(g, T \cup {e}) = SumFunctionOnSet(g, T) + g[e]
    BY <1>2, <2>1, SumWith
  <2> HIDE DEF H
  <2>8. SumFunctionOnSet(f, H \cup {h[e]}) = SumFunctionOnSet(f, H) + f[h[e]]
    BY <2>2, <2>3, <2>4, <2>5, SumWith
  <2>9. SumFunctionOnSet(f, H \cup {h[e]}) = SumFunctionOnSet(g, T \cup {e})
    BY <2>5, <2>6, <2>7, <2>8
  <2> QED BY <2>2, <2>3, <2>9
<1>3. SUBSET S \subseteq P
  <2> HIDE DEF P
  <2> QED BY <1>1, <1>2, SubsetsInduction
<1> QED BY <1>3

\* h names the elements of R by those of S.
Renames(h, S, R) ==
    /\ \A x \in S : h[x] \in R
    /\ \A r \in R : \E x \in S : r = h[x]
    /\ \A x, y \in S : h[x] = h[y] => x = y

\* The same, of what the other names are.
LEMMA SumRenamed ==
    ASSUME NEW S, IsFiniteSet(S), NEW R, NEW f, NEW g, NEW h, Renames(h, S, R),
           \A x \in S : g[x] \in Nat /\ g[x] = f[h[x]]
    PROVE  IsFiniteSet(R) /\ SumFunctionOnSet(f, R) = SumFunctionOnSet(g, S)
<1>0. \A x, y \in S : h[x] = h[y] => x = y
  BY DEF Renames
<1>1. R = {h[x] : x \in S}
  BY DEF Renames
<1>2. /\ IsFiniteSet({h[x] : x \in S})
      /\ SumFunctionOnSet(f, {h[x] : x \in S}) = SumFunctionOnSet(g, S)
  BY <1>0, SumOfImage
<1> QED BY <1>1, <1>2

\* One number changes.
LEMMA SumChanged ==
    ASSUME NEW S, IsFiniteSet(S), NEW f, NEW g, NEW e \in S,
           \A x \in S : f[x] \in Nat /\ g[x] \in Nat, \A x \in S \ {e} : f[x] = g[x]
    PROVE  SumFunctionOnSet(g, S) + f[e] = SumFunctionOnSet(f, S) + g[e]
<1>1. /\ SumFunctionOnSet(f, S) = f[e] + SumFunctionOnSet(f, S \ {e})
      /\ SumFunctionOnSet(g, S) = g[e] + SumFunctionOnSet(g, S \ {e})
  BY SumWithout
<1>2. IsFiniteSet(S \ {e}) /\ \A x \in S \ {e} : f[x] \in Nat /\ f[x] = g[x]
  BY FS_Subset
<1>3. SumFunctionOnSet(f, S \ {e}) = SumFunctionOnSet(g, S \ {e})
  BY <1>2, SumSame
<1>4. SumFunctionOnSet(f, S \ {e}) \in Nat
  BY <1>2, SumType
<1> QED BY <1>1, <1>3, <1>4
=============================================================================
