------------------------- MODULE CollectionLemmas -------------------------
(***************************************************************************)
(* Facts the other proofs cite: about natural numbers and functions        *)
(* defined by recursion on an interval, about the sum of a function over a *)
(* finite set (Sums), and about what is selected from a sequence            *)
(* (Selections).  Each is stated about sets and functions, so that it can   *)
(* be cited without a parameter that is an operator.                        *)
(***************************************************************************)
EXTENDS Integers, FiniteSets, Sums, Selections,
        FiniteSetTheorems, SequenceTheorems, WellFoundedInduction, TLAPS

-----------------------------------------------------------------------------
(* Natural numbers and recursion.                                            *)

\* A nonempty set of natural numbers has a least element.
LEMMA LeastNatural ==
  ASSUME NEW T \in SUBSET Nat, T # {}
  PROVE  \E m \in T : \A n \in T : m <= n
<1> DEFINE Below == {0..n : n \in T}
<1>1. Below # {} /\ Below \subseteq FiniteSubsetsOf(Nat)
  <2>1. \A n \in T : 0..n \in SUBSET Nat /\ IsFiniteSet(0..n)
    BY FS_Interval
  <2>. QED
    BY <2>1 DEF FiniteSubsetsOf
<1>2. IsWellFoundedOn(StrictSubsetOrdering(Nat), FiniteSubsetsOf(Nat))
  BY FS_StrictSubsetOrderingWellFounded
<1>3. PICK B \in Below : \A C \in Below : <<C, B>> \notin StrictSubsetOrdering(Nat)
  <2> HIDE DEF Below
  <2>. QED
    BY <1>1, <1>2, WFMin
<1>4. PICK m \in T : B = 0..m
  BY <1>3
<1>5. ASSUME NEW n \in T, n < m
      PROVE  FALSE
  <2>1. 0..n \subseteq 0..m /\ m \in 0..m /\ m \notin 0..n
    BY <1>5
  <2>2. <<0..n, 0..m>> \in StrictSubsetOrdering(Nat)
    BY <2>1 DEF StrictSubsetOrdering
  <2>. QED
    BY <1>3, <1>4, <2>2
<1>. QED
  BY <1>5

\* Induction on an interval, for a property given as a set.
LEMMA IntervalInduction ==
  ASSUME NEW N \in Nat, NEW S,
         0 \in S,
         \A n \in 1..N : n - 1 \in S => n \in S
  PROVE  0..N \subseteq S
<1> DEFINE T == (0..N) \ S
<1>1. SUFFICES ASSUME T # {}
               PROVE  FALSE
  OBVIOUS
<1>2. PICK m \in T : \A n \in T : m <= n
  <2>1. T \in SUBSET Nat /\ T # {}
    BY <1>1
  <2>. QED
    BY <2>1, LeastNatural
<1>3. m \in 1..N /\ m - 1 \in 0..N /\ m - 1 \notin T
  BY <1>2
<1>. QED
  BY <1>2, <1>3

\* Some function on 0..N begins with start and goes on by step.
Iterates(N, S, start, step) ==
  \E f \in [0..N -> S] :
    f[0] = start /\ \A n \in 1..N : f[n] = step[<<n, f[n - 1]>>]

\* A function on an interval may be defined by recursion.
LEMMA BoundedRecursion ==
  ASSUME NEW N \in Nat, NEW S, NEW start \in S, NEW step \in [(1..N) \X S -> S]
  PROVE  Iterates(N, S, start, step)
<1> DEFINE UpTo(k, f) ==
             /\ f \in [0..N -> S]
             /\ f[0] = start
             /\ \A n \in 1..k : f[n] = step[<<n, f[n - 1]>>]
           Defined == {k \in 0..N : \E f : UpTo(k, f)}
<1>1. 0 \in Defined
  <2>1. UpTo(0, [n \in 0..N |-> start])
    OBVIOUS
  <2> HIDE DEF UpTo
  <2>. QED
    BY <2>1
<1>2. ASSUME NEW k \in 1..N, k - 1 \in Defined
      PROVE  k \in Defined
  <2>1. PICK f : UpTo(k - 1, f)
    BY <1>2
  <2> DEFINE g == [f EXCEPT ![k] = step[<<k, f[k - 1]>>]]
  <2>2. step[<<k, f[k - 1]>>] \in S
    BY <2>1
  <2>3. g \in [0..N -> S] /\ g[0] = start
    BY <2>1, <2>2
  <2>4. ASSUME NEW n \in 1..k
        PROVE  g[n] = step[<<n, g[n - 1]>>]
    BY <2>1
  <2>5. UpTo(k, g)
    BY <2>3, <2>4
  <2> HIDE DEF UpTo, g
  <2>. QED
    BY <2>5
<1>3. N \in Defined
  <2> HIDE DEF Defined
  <2>1. 0..N \subseteq Defined
    BY <1>1, <1>2, IntervalInduction
  <2>. QED
    BY <2>1
<1>4. PICK f : UpTo(N, f)
  BY <1>3
<1>. QED
  BY <1>4 DEF Iterates

-----------------------------------------------------------------------------
(* Sums over finite sets: what another element adds, and that a part adds up  *)
(* to no more than the whole.                                                *)

\* The element that the sum over T takes first.
Taken(T) == CHOOSE x \in T : TRUE

\* Induction on the size of the subsets of a finite set, for a property given as a set.
LEMMA SubsetInduction ==
  ASSUME NEW S, IsFiniteSet(S), NEW P,
         {} \in P,
         \A T \in SUBSET S : T # {} /\ T \ {Taken(T)} \in P => T \in P
  PROVE  SUBSET S \subseteq P
<1> DEFINE N == Cardinality(S)
           Small(n) == {T \in SUBSET S : Cardinality(T) <= n}
           I == {n \in 0..N : Small(n) \subseteq P}
<1>1. N \in Nat /\ \A T \in SUBSET S : IsFiniteSet(T) /\ Cardinality(T) \in 0..N
  <2>1. ASSUME NEW T \in SUBSET S
        PROVE  IsFiniteSet(T) /\ Cardinality(T) \in 0..N
    BY FS_Subset, FS_CardinalityType
  <2>. QED
    BY <2>1, FS_CardinalityType
<1>2. 0 \in I
  <2>1. ASSUME NEW T \in SUBSET S, Cardinality(T) <= 0
        PROVE  T = {}
    BY <1>1, <2>1, FS_EmptySet
  <2>. QED
    BY <1>1, <2>1
<1>3. ASSUME NEW n \in 1..N, n - 1 \in I
      PROVE  n \in I
  <2>1. ASSUME NEW T \in SUBSET S, Cardinality(T) <= n, T # {}
        PROVE  T \in P
    <3>1. Taken(T) \in T
      BY <2>1 DEF Taken
    <3>2. Cardinality(T \ {Taken(T)}) = Cardinality(T) - 1
      BY <1>1, <3>1, FS_RemoveElement
    <3>3. T \ {Taken(T)} \in Small(n - 1)
      BY <1>1, <2>1, <3>2
    <3>. QED
      BY <1>3, <2>1, <3>3
  <2>. QED
    BY <2>1
<1>4. 0..N \subseteq I
  <2> HIDE DEF I, N
  <2>. QED
    BY <1>1, <1>2, <1>3, IntervalInduction
<1>. QED
  BY <1>1, <1>4

\* g adds up f over every subset of S.
Adds(g, f, S) ==
  /\ g \in [SUBSET S -> Nat]
  /\ \A T \in SUBSET S :
       g[T] = IF T = {} THEN 0 ELSE f[Taken(T)] + g[T \ {Taken(T)}]

\* g[n] does so over the subsets of at most n elements.
AddsUpTo(g, f, S, n) ==
  /\ g \in [SUBSET S -> Nat]
  /\ \A T \in SUBSET S : Cardinality(T) <= n =>
       g[T] = IF T = {} THEN 0 ELSE f[Taken(T)] + g[T \ {Taken(T)}]

\* There is such a function, so that the definition of a sum by recursion is sound.
LEMMA SumExists ==
  ASSUME NEW f, NEW S, IsFiniteSet(S), \A x \in S : f[x] \in Nat
  PROVE  \E g : Adds(g, f, S)
<1> DEFINE N == Cardinality(S)
           I == {n \in 0..N : \E g : AddsUpTo(g, f, S, n)}
<1>1. N \in Nat /\ \A T \in SUBSET S : IsFiniteSet(T) /\ Cardinality(T) \in 0..N
  <2>1. ASSUME NEW T \in SUBSET S
        PROVE  IsFiniteSet(T) /\ Cardinality(T) \in 0..N
    BY FS_Subset, FS_CardinalityType
  <2>. QED
    BY <2>1, FS_CardinalityType
<1>2. ASSUME NEW T \in SUBSET S, T # {}
      PROVE  /\ Taken(T) \in T /\ f[Taken(T)] \in Nat
             /\ T \ {Taken(T)} \in SUBSET S
             /\ Cardinality(T \ {Taken(T)}) = Cardinality(T) - 1
  <2>1. Taken(T) \in T
    BY <1>2 DEF Taken
  <2>. QED
    BY <1>1, <2>1, FS_RemoveElement
<1>3. 0 \in I
  <2>1. ASSUME NEW T \in SUBSET S, Cardinality(T) <= 0
        PROVE  T = {}
    BY <1>1, <2>1, FS_EmptySet
  <2>2. AddsUpTo([T \in SUBSET S |-> 0], f, S, 0)
    BY <2>1 DEF AddsUpTo
  <2>. QED
    BY <1>1, <2>2
<1>4. ASSUME NEW n \in 1..N, n - 1 \in I
      PROVE  n \in I
  <2>1. PICK g : AddsUpTo(g, f, S, n - 1)
    BY <1>4
  <2> DEFINE h == [T \in SUBSET S |->
                     IF T = {} THEN 0 ELSE f[Taken(T)] + g[T \ {Taken(T)}]]
  <2>2. h \in [SUBSET S -> Nat]
    <3>1. ASSUME NEW T \in SUBSET S
          PROVE  (IF T = {} THEN 0 ELSE f[Taken(T)] + g[T \ {Taken(T)}]) \in Nat
      BY <1>2, <2>1 DEF AddsUpTo
    <3>. QED
      BY <3>1
  <2>3. ASSUME NEW T \in SUBSET S, Cardinality(T) <= n - 1
        PROVE  h[T] = g[T]
    BY <2>1, <2>3 DEF AddsUpTo
  <2>4. ASSUME NEW T \in SUBSET S, Cardinality(T) <= n
        PROVE  h[T] = IF T = {} THEN 0 ELSE f[Taken(T)] + h[T \ {Taken(T)}]
    <3>1. CASE T = {}
      BY <3>1
    <3>2. CASE T # {}
      <4>1. h[T \ {Taken(T)}] = g[T \ {Taken(T)}]
        <5> HIDE DEF h
        <5>. QED
          BY <1>1, <1>2, <2>3, <2>4, <3>2
      <4>2. h[T] = f[Taken(T)] + g[T \ {Taken(T)}]
        BY <3>2
      <4>. QED
        BY <3>2, <4>1, <4>2
    <3>. QED
      BY <3>1, <3>2
  <2>5. AddsUpTo(h, f, S, n)
    <3> HIDE DEF h
    <3>. QED
      BY <2>2, <2>4 DEF AddsUpTo
  <2>. QED
    BY <2>5
<1>5. 0..N \subseteq I
  <2> HIDE DEF I, N
  <2>. QED
    BY <1>1, <1>3, <1>4, IntervalInduction
<1>6. PICK g : AddsUpTo(g, f, S, N)
  BY <1>1, <1>5
<1>7. Adds(g, f, S)
  <2>1. \A T \in SUBSET S : Cardinality(T) <= N
    BY <1>1
  <2> HIDE DEF N
  <2>. QED
    BY <1>6, <2>1 DEF Adds, AddsUpTo
<1>. QED
  BY <1>7

\* So does g over every subset of S.
Unfolds(g, f, S) ==
  \A T \in SUBSET S :
    g[T] = IF T = {} THEN 0 ELSE f[Taken(T)] + g[T \ {Taken(T)}]

\* Only one function does it.
LEMMA SumUnique ==
  ASSUME NEW f, NEW U, IsFiniteSet(U), NEW g, Unfolds(g, f, U), NEW h, Unfolds(h, f, U)
  PROVE  \A T \in SUBSET U : g[T] = h[T]
<1> DEFINE P == {T \in SUBSET U : g[T] = h[T]}
<1>1. {} \in P
  BY DEF Unfolds
<1>2. ASSUME NEW T \in SUBSET U, T # {}, T \ {Taken(T)} \in P
      PROVE  T \in P
  BY <1>2 DEF Unfolds
<1>3. SUBSET U \subseteq P
  <2> HIDE DEF P
  <2>. QED
    BY <1>1, <1>2, SubsetInduction
<1>. QED
  BY <1>3

\* Total(f, S) is what the function finds for S.
LEMMA TotalIsSum ==
  ASSUME NEW f, NEW S, IsFiniteSet(S), NEW U, NEW g,
         S \subseteq U, \A x \in S : f[x] \in Nat, Adds(g, f, U)
  PROVE  Total(f, S) = g[S]
<1> DEFINE body(k) == [s \in SUBSET S |->
                        IF s = {} THEN 0
                        ELSE f[Taken(s)] + k[s \ {Taken(s)}]]
           iter == CHOOSE k : k = body(k)
<1>1. PICK k : Adds(k, f, S)
  BY SumExists
<1>2. k = body(k)
  BY <1>1 DEF Adds
<1>3. iter = body(iter)
  <2> HIDE DEF body
  <2>. QED
    BY <1>2
<1>4. Total(f, S) = iter[S]
  BY DEF Total, MapThenSumSet, MapThenFoldSet, Taken
<1>5. Unfolds(iter, f, S)
  <2> HIDE DEF iter
  <2>. QED
    BY <1>3 DEF Unfolds
<1>6. Unfolds(g, f, S)
  BY DEF Adds, Unfolds
<1>7. \A T \in SUBSET S : iter[T] = g[T]
  <2> HIDE DEF iter
  <2>. QED
    BY <1>5, <1>6, SumUnique
<1>. QED
  BY <1>4, <1>7

\* A sum is a natural number, and takes its elements one after the other.
LEMMA TotalUnfolds ==
  ASSUME NEW f, NEW S, IsFiniteSet(S), \A x \in S : f[x] \in Nat
  PROVE  /\ Total(f, S) \in Nat
         /\ S = {} => Total(f, S) = 0
         /\ S # {} => Total(f, S) = f[Taken(S)] + Total(f, S \ {Taken(S)})
<1>1. PICK g : Adds(g, f, S)
  BY SumExists
<1>2. ASSUME NEW T \in SUBSET S
      PROVE  Total(f, T) = g[T]
  <2>1. IsFiniteSet(T) /\ \A x \in T : f[x] \in Nat
    BY FS_Subset
  <2>. QED
    BY <1>1, <2>1, TotalIsSum
<1>. QED
  BY <1>1, <1>2 DEF Adds

\* Another element adds its value.
LEMMA TotalAdd ==
  ASSUME NEW f, NEW S, IsFiniteSet(S), NEW x, x \notin S, f[x] \in Nat,
         \A y \in S : f[y] \in Nat
  PROVE  Total(f, S \cup {x}) = Total(f, S) + f[x]
<1> DEFINE U == S \cup {x}
           P == {T \in SUBSET U : \A y \in U \ T : Total(f, T \cup {y}) = Total(f, T) + f[y]}
           N == Cardinality(U)
           I == {n \in 0..N : \A T \in SUBSET U : Cardinality(T) <= n => T \in P}
<1>1. IsFiniteSet(U) /\ N \in Nat /\ \A y \in U : f[y] \in Nat
  BY FS_AddElement, FS_CardinalityType
<1>2. ASSUME NEW T \in SUBSET U
      PROVE  /\ IsFiniteSet(T) /\ Cardinality(T) \in Nat /\ Cardinality(T) <= N
             /\ Total(f, T) \in Nat
             /\ T = {} => Total(f, T) = 0
             /\ T # {} => Total(f, T) = f[Taken(T)] + Total(f, T \ {Taken(T)})
             /\ \A t \in T : Cardinality(T \ {t}) = Cardinality(T) - 1
  <2>1. IsFiniteSet(T) /\ Cardinality(T) \in Nat /\ Cardinality(T) <= N
    BY <1>1, FS_Subset, FS_CardinalityType
  <2>2. \A t \in T : Cardinality(T \ {t}) = Cardinality(T) - 1
    BY <2>1, FS_RemoveElement
  <2>3. \A t \in T : f[t] \in Nat
    BY <1>1
  <2> HIDE DEF U, N
  <2>. QED
    BY <2>1, <2>2, <2>3, TotalUnfolds
<1> HIDE DEF U, N
<1>2a. \A T \in SUBSET U : IsFiniteSet(T) /\ Cardinality(T) \in Nat /\ Cardinality(T) <= N
  BY <1>2
<1>3. ASSUME NEW T \in SUBSET U, \A t \in T : T \ {t} \in P
      PROVE  T \in P
  <2> SUFFICES ASSUME NEW y \in U \ T
               PROVE  Total(f, T \cup {y}) = Total(f, T) + f[y]
    OBVIOUS
  <2> DEFINE V == T \cup {y}
             c == Taken(V)
  <2>1. V # {} /\ c \in V /\ V \in SUBSET U
    BY DEF Taken
  <2>2. Total(f, V) = f[c] + Total(f, V \ {c})
    BY <1>2, <2>1
  <2> HIDE DEF c
  <2>3. CASE c = y
    <3>1. V \ {c} = T
      BY <2>3
    <3>2. Total(f, V) = f[y] + Total(f, T) /\ Total(f, T) \in Nat
      BY <1>2, <2>2, <2>3, <3>1
    <3>. QED
      BY <1>1, <3>2
  <2>4. CASE c # y
    <3> DEFINE T1 == T \ {c}
    <3>1. c \in T /\ V \ {c} = T1 \cup {y} /\ T = T1 \cup {c} /\ c \notin T1 /\ y \notin T1
      BY <2>1, <2>4
    <3>2. T1 \in P /\ c \in U \ T1 /\ y \in U \ T1
      BY <1>3, <3>1
    <3>3. /\ Total(f, T1 \cup {y}) = Total(f, T1) + f[y]
          /\ Total(f, T1 \cup {c}) = Total(f, T1) + f[c]
      BY <3>2
    <3>4. Total(f, T1) \in Nat /\ f[c] \in Nat /\ f[y] \in Nat
      BY <1>1, <1>2, <3>2
    <3> HIDE DEF T1
    <3>5. Total(f, T) = Total(f, T1) + f[c] /\ Total(f, V) = f[c] + Total(f, T1 \cup {y})
      BY <2>2, <3>1, <3>3
    <3>. QED
      BY <3>3, <3>4, <3>5
  <2>. QED
    BY <2>3, <2>4
<1>4. 0 \in I
  <2>1. ASSUME NEW T \in SUBSET U, Cardinality(T) <= 0
        PROVE  T \in P
    <3>1. T = {}
      <4>1. IsFiniteSet(T) /\ Cardinality(T) = 0
        BY <1>2a, <2>1
      <4>. QED
        BY <4>1, FS_EmptySet
    <3> HIDE DEF P
    <3>. QED
      BY <1>3, <3>1
  <2> HIDE DEF P
  <2>. QED
    BY <1>1, <2>1
<1>5. ASSUME NEW n \in 1..N, n - 1 \in I
      PROVE  n \in I
  <2>1. ASSUME NEW T \in SUBSET U, Cardinality(T) <= n
        PROVE  T \in P
    <3>1. ASSUME NEW t \in T
          PROVE  T \ {t} \in P
      <4>1. T \ {t} \in SUBSET U /\ Cardinality(T \ {t}) <= n - 1
        <5>1. Cardinality(T) \in Nat /\ Cardinality(T \ {t}) = Cardinality(T) - 1
          BY <1>2
        <5>. QED
          BY <2>1, <5>1
      <4> HIDE DEF P
      <4>. QED
        BY <1>5, <4>1
    <3> HIDE DEF P
    <3>. QED
      BY <1>3, <3>1
  <2> HIDE DEF P
  <2>. QED
    BY <2>1
<1>6. 0..N \subseteq I
  <2> HIDE DEF I
  <2>. QED
    BY <1>1, <1>4, <1>5, IntervalInduction
<1>7. S \in SUBSET U /\ x \in U \ S
  BY DEF U
<1>8. S \in P
  <2>1. N \in I /\ Cardinality(S) <= N
    <3> HIDE DEF I
    <3>. QED
      BY <1>1, <1>6, <1>7, <1>2a
  <2> HIDE DEF P
  <2>. QED
    BY <1>7, <2>1
<1>. QED
  BY <1>7, <1>8

\* What is taken away lowers the sum by as much as it counts for.
LEMMA TotalRemove ==
  ASSUME NEW f, NEW S, IsFiniteSet(S), \A y \in S : f[y] \in Nat, NEW x
  PROVE  /\ Total(f, S) \in Nat /\ Total(f, S \ {x}) \in Nat
         /\ Total(f, S) = IF x \in S THEN Total(f, S \ {x}) + f[x] ELSE Total(f, S \ {x})
<1>1. IsFiniteSet(S \ {x}) /\ \A y \in S \ {x} : f[y] \in Nat
  BY FS_Subset
<1>2. Total(f, S) \in Nat /\ Total(f, S \ {x}) \in Nat
  BY <1>1, TotalUnfolds
<1>3. CASE x \in S
  <2>1. S = (S \ {x}) \cup {x}
    BY <1>3
  <2>2. Total(f, (S \ {x}) \cup {x}) = Total(f, S \ {x}) + f[x]
    BY <1>1, <1>3, TotalAdd
  <2>. QED
    BY <1>2, <1>3, <2>1, <2>2
<1>4. CASE x \notin S
  <2>1. S = S \ {x}
    BY <1>4
  <2>. QED
    BY <1>2, <1>4, <2>1
<1>. QED
  BY <1>3, <1>4

\* A part adds up to no more than the whole.
LEMMA TotalOfPart ==
  ASSUME NEW f, NEW S, IsFiniteSet(S), \A y \in S : f[y] \in Nat, NEW T, T \subseteq S
  PROVE  Total(f, T) \in Nat /\ Total(f, S) \in Nat /\ Total(f, T) <= Total(f, S)
<1> DEFINE P == {D \in SUBSET S : Total(f, S \ D) <= Total(f, S)}
<1>1. ASSUME NEW D \in SUBSET S
      PROVE  IsFiniteSet(S \ D) /\ Total(f, S \ D) \in Nat /\ \A y \in S \ D : f[y] \in Nat
  <2>1. IsFiniteSet(S \ D) /\ \A y \in S \ D : f[y] \in Nat
    BY FS_Subset
  <2>. QED
    BY <2>1, TotalUnfolds
<1>2. Total(f, S) \in Nat
  BY TotalUnfolds
<1>3. {} \in P
  <2>1. S \ {} = S
    OBVIOUS
  <2>. QED
    BY <1>2, <2>1
<1>4. ASSUME NEW D \in SUBSET S, D # {} /\ D \ {Taken(D)} \in P
      PROVE  D \in P
  <2> DEFINE x == Taken(D)
             R == S \ (D \ {x})
             Q == S \ D
  <2>1. x \in D
    BY <1>4 DEF Taken
  <2>2. Q = R \ {x} /\ x \in R /\ D \ {x} \in SUBSET S
    BY <2>1
  <2>3. Total(f, R) = Total(f, R \ {x}) + f[x] /\ f[x] \in Nat
    <3> HIDE DEF R, x
    <3>1. IsFiniteSet(R) /\ \A y \in R : f[y] \in Nat
      BY <1>1, <2>2 DEF R
    <3>. QED
      BY <2>2, <3>1, TotalRemove
  <2>4. Total(f, R) <= Total(f, S)
    BY <1>4
  <2>5. Total(f, R \ {x}) \in Nat /\ Total(f, R) \in Nat
    BY <1>1, <2>2
  <2>6. Total(f, S \ D) <= Total(f, S)
    <3>1. Total(f, Q) = Total(f, R \ {x})
      <4> HIDE DEF Q, R, x
      <4>. QED
        BY <2>2
    <3> HIDE DEF R, x
    <3>. QED
      BY <1>2, <2>3, <2>4, <2>5, <3>1
  <2>. QED
    BY <2>6
<1>5. SUBSET S \subseteq P
  <2> HIDE DEF P
  <2>. QED
    BY <1>3, <1>4, SubsetInduction
<1>6. S \ (S \ T) = T /\ S \ T \in SUBSET S
  OBVIOUS
<1>. QED
  BY <1>1, <1>2, <1>5, <1>6

\* Two functions that agree on a set add up to the same over it.
LEMMA TotalOfEqual ==
  ASSUME NEW f, NEW g, NEW S, IsFiniteSet(S), \A y \in S : f[y] \in Nat /\ g[y] = f[y]
  PROVE  Total(g, S) = Total(f, S)
<1> DEFINE P == {D \in SUBSET S : Total(g, D) = Total(f, D)}
<1>1. ASSUME NEW D \in SUBSET S
      PROVE  IsFiniteSet(D) /\ \A y \in D : f[y] \in Nat /\ g[y] \in Nat
  BY FS_Subset
<1>2. {} \in P
  BY <1>1, TotalUnfolds
<1>3. ASSUME NEW D \in SUBSET S, D # {} /\ D \ {Taken(D)} \in P
      PROVE  D \in P
  <2>1. Taken(D) \in D
    BY <1>3 DEF Taken
  <2>2. Total(f, D) = f[Taken(D)] + Total(f, D \ {Taken(D)})
    BY <1>1, <1>3, TotalUnfolds
  <2>3. Total(g, D) = g[Taken(D)] + Total(g, D \ {Taken(D)})
    BY <1>1, <1>3, TotalUnfolds
  <2>. QED
    BY <1>3, <2>1, <2>2, <2>3
<1>. QED
  <2> HIDE DEF P
  <2>1. SUBSET S \subseteq P
    BY <1>2, <1>3, SubsetInduction
  <2>. QED
    BY <2>1 DEF P

\* What is added up in two parts.
LEMMA TotalOfDisjoint ==
  ASSUME NEW f, NEW S, NEW T, IsFiniteSet(S), IsFiniteSet(T), S \cap T = {},
         \A y \in S \cup T : f[y] \in Nat
  PROVE  Total(f, S \cup T) = Total(f, S) + Total(f, T)
<1> DEFINE P == {D \in SUBSET T : Total(f, S \cup D) = Total(f, S) + Total(f, D)}
<1>1. ASSUME NEW D \in SUBSET T
      PROVE  /\ IsFiniteSet(D) /\ IsFiniteSet(S \cup D)
             /\ Total(f, D) \in Nat /\ Total(f, S \cup D) \in Nat /\ Total(f, S) \in Nat
  <2>1. IsFiniteSet(D) /\ IsFiniteSet(S \cup D)
    BY FS_Subset, FS_Union
  <2>. QED
    BY <2>1, TotalUnfolds
<1>2. {} \in P
  <2>1. S \cup {} = S
    OBVIOUS
  <2>2. Total(f, {}) = 0
    BY <1>1, TotalUnfolds
  <2>3. Total(f, S \cup {}) = Total(f, S)
    BY <2>1
  <2>. QED
    BY <1>1, <2>2, <2>3
<1>3. ASSUME NEW D \in SUBSET T, D # {} /\ D \ {Taken(D)} \in P
      PROVE  D \in P
  <2> DEFINE x == Taken(D)
             R == D \ {x}
             Q == S \cup R
             W == S \cup D
  <2>1. x \in D /\ x \notin S /\ f[x] \in Nat
    BY <1>3 DEF Taken
  <2>2. R \in SUBSET T /\ x \notin R /\ x \notin Q /\ D = R \cup {x} /\ W = Q \cup {x}
    BY <2>1
  <2>3. Total(f, R \cup {x}) = Total(f, R) + f[x]
    <3> HIDE DEF R, x
    <3>. QED
      BY <1>1, <2>1, <2>2, TotalAdd
  <2>4. Total(f, Q \cup {x}) = Total(f, Q) + f[x]
    <3>1. IsFiniteSet(Q) /\ \A y \in Q : f[y] \in Nat
      BY <1>1, <2>2
    <3> HIDE DEF Q, x
    <3>. QED
      BY <2>1, <2>2, <3>1, TotalAdd
  <2>5. Total(f, Q) = Total(f, S) + Total(f, R)
    BY <1>3
  <2>6. Total(f, W) = Total(f, S) + Total(f, D)
    <3>1. Total(f, Q) \in Nat /\ Total(f, R) \in Nat /\ Total(f, S) \in Nat
      BY <1>1, <2>2
    <3> HIDE DEF W, Q, R, x
    <3>2. Total(f, W) = Total(f, Q) + f[x] /\ Total(f, D) = Total(f, R) + f[x]
      BY <2>2, <2>3, <2>4
    <3>. QED
      BY <2>1, <2>5, <3>1, <3>2
  <2>. QED
    BY <2>6
<1>. QED
  <2> HIDE DEF P
  <2>1. SUBSET T \subseteq P
    BY <1>2, <1>3, SubsetInduction
  <2>2. T \in P
    BY <2>1
  <2>. QED
    BY <2>2 DEF P

-----------------------------------------------------------------------------
(* Selections from a sequence: how one grows, when two agree, and that it     *)
(* keeps the order of the sequence.                                          *)

\* f holds what is selected from every prefix of s.
Selects(f, X, s, S) ==
  /\ f \in [0..Len(s) -> Seq(X)]
  /\ f[0] = << >>
  /\ \A i \in 1..Len(s) :
       f[i] = IF s[i] \in S THEN Append(f[i - 1], s[i]) ELSE f[i - 1]
  /\ Only(s, S) = f[Len(s)]

\* A selection is built up from one prefix of the sequence to the next.
LEMMA OnlyUnfolds ==
  ASSUME NEW X, NEW s \in Seq(X), NEW S
  PROVE  \E f : Selects(f, X, s, S)
<1> DEFINE n == Len(s)
           next(i, acc) == IF s[i] \in S THEN Append(acc, s[i]) ELSE acc
           step == [x \in (1..n) \X Seq(X) |-> next(x[1], x[2])]
           body(f) == [i \in 0..n |-> IF i = 0 THEN << >>
                                      ELSE IF s[i] \in S THEN Append(f[i - 1], s[i])
                                      ELSE f[i - 1]]
           kept == CHOOSE f : f = body(f)
<1>1. n \in Nat /\ << >> \in Seq(X)
  OBVIOUS
<1>2. ASSUME NEW i \in 1..n, NEW acc \in Seq(X)
      PROVE  next(i, acc) \in Seq(X)
  <2>1. s[i] \in X
    BY <1>1
  <2>. QED
    BY <2>1
<1>3. \E f : f = body(f)
  <2>1. step \in [(1..n) \X Seq(X) -> Seq(X)]
    <3> HIDE DEF next, n
    <3>. QED
      BY <1>2
  <2>2. PICK f \in [0..n -> Seq(X)] :
          f[0] = << >> /\ \A i \in 1..n : f[i] = step[<<i, f[i - 1]>>]
    <3> HIDE DEF step, n
    <3>1. Iterates(n, Seq(X), << >>, step)
      BY <1>1, <2>1, BoundedRecursion
    <3>. QED
      BY <3>1 DEF Iterates
  <2>3. ASSUME NEW i \in 1..n
        PROVE  f[i] = next(i, f[i - 1])
    <3>1. <<i, f[i - 1]>> \in (1..n) \X Seq(X)
      <4> HIDE DEF n
      <4>. QED
        BY <1>1, <2>2
    <3> HIDE DEF next
    <3>2. \A x \in (1..n) \X Seq(X) : step[x] = next(x[1], x[2])
      OBVIOUS
    <3> HIDE DEF step
    <3>. QED
      BY <2>2, <3>1, <3>2
  <2>4. ASSUME NEW i \in 0..n
        PROVE  f[i] = body(f)[i]
    <3>1. CASE i = 0
      BY <2>2, <3>1
    <3>2. CASE i # 0
      <4>1. i \in 1..n
        BY <1>1, <3>2
      <4>2. body(f)[i] = next(i, f[i - 1])
        BY <3>2
      <4>. QED
        BY <2>3, <4>1, <4>2
    <3>. QED
      BY <3>1, <3>2
  <2> HIDE DEF n
  <2>. QED
    BY <2>2, <2>4
<1>4. kept = body(kept)
  <2> HIDE DEF body
  <2>. QED
    BY <1>3
<1>5. kept[0] = << >> /\ \A i \in 1..n : kept[i] = next(i, kept[i - 1])
  <2> HIDE DEF kept, n
  <2>1. kept = [i \in 0..n |-> IF i = 0 THEN << >>
                              ELSE IF s[i] \in S THEN Append(kept[i - 1], s[i])
                              ELSE kept[i - 1]]
    BY <1>4
  <2> HIDE DEF body
  <2>2. ASSUME NEW i \in 0..n
        PROVE  kept[i] = IF i = 0 THEN << >>
                         ELSE IF s[i] \in S THEN Append(kept[i - 1], s[i])
                         ELSE kept[i - 1]
    BY <2>1, Zenon
  <2>3. 0 \in 0..n /\ \A i \in 1..n : i \in 0..n /\ i # 0
    BY <1>1
  <2>. QED
    BY <2>2, <2>3
<1>6. \A i \in 0..n : kept[i] \in Seq(X)
  <2> HIDE DEF kept, next, n
  <2> DEFINE T == {i \in 0..n : kept[i] \in Seq(X)}
  <2>1. 0 \in T
    <3>1. kept[0] \in Seq(X) /\ 0 \in 0..n
      BY <1>1, <1>5
    <3>. QED
      BY <3>1
  <2>2. ASSUME NEW i \in 1..n, i - 1 \in T
        PROVE  i \in T
    BY <1>1, <1>2, <1>5, <2>2
  <2>3. 0..n \subseteq T
    <3> HIDE DEF T
    <3>. QED
      BY <1>1, <2>1, <2>2, IntervalInduction
  <2>. QED
    BY <2>3
<1>7. kept \in [0..n -> Seq(X)]
  <2>1. kept = [i \in 0..n |-> kept[i]]
    <3> HIDE DEF kept
    <3>1. \E g : kept = [i \in 0..n |-> g[i]]
      <4>1. kept = [i \in 0..n |-> body(kept)[i]]
        BY <1>4
      <4> HIDE DEF body
      <4>. QED
        BY <4>1
    <3> HIDE DEF n
    <3>. QED
      BY <3>1
  <2> HIDE DEF kept, n
  <2>. QED
    BY <1>6, <2>1
<1>8. Only(s, S) = kept[n]
  BY DEF Only
<1> HIDE DEF kept
<1>. QED
  BY <1>5, <1>7, <1>8 DEF Selects

\* Nothing is selected from the empty sequence.
LEMMA OnlyEmpty ==
  ASSUME NEW S
  PROVE  Only(<< >>, S) = << >>
<1>1. << >> \in Seq({}) /\ Len(<< >>) = 0
  OBVIOUS
<1>2. PICK f : Selects(f, {}, << >>, S)
  BY <1>1, OnlyUnfolds
<1>. QED
  BY <1>1, <1>2 DEF Selects

\* A sequence of values of X selects one of values of X.
LEMMA OnlyType ==
  ASSUME NEW X, NEW s \in Seq(X), NEW S
  PROVE  Only(s, S) \in Seq(X)
<1>1. PICK f : Selects(f, X, s, S)
  BY OnlyUnfolds
<1>2. Len(s) \in 0..Len(s)
  OBVIOUS
<1>. QED
  BY <1>1, <1>2 DEF Selects

\* One element more is kept at the end, or dropped.
LEMMA OnlyAppend ==
  ASSUME NEW X, NEW s \in Seq(X), NEW x \in X, NEW S
  PROVE  Only(Append(s, x), S) = IF x \in S THEN Append(Only(s, S), x) ELSE Only(s, S)
<1> DEFINE t == Append(s, x)
<1>1. /\ t \in Seq(X) /\ Len(s) \in Nat /\ Len(t) = Len(s) + 1 /\ t[Len(t)] = x
      /\ \A i \in 1..Len(s) : t[i] = s[i]
  OBVIOUS
<1>2. PICK f : Selects(f, X, s, S)
  BY OnlyUnfolds
<1>3. PICK g : Selects(g, X, t, S)
  BY <1>1, OnlyUnfolds
<1> HIDE DEF t
<1> DEFINE n == Len(s)
           Same == {i \in 0..n : g[i] = f[i]}
<1>4. 0..n \subseteq Same
  <2>1. 0 \in Same
    BY <1>1, <1>2, <1>3 DEF Selects
  <2>2. ASSUME NEW i \in 1..n, i - 1 \in Same
        PROVE  i \in Same
    BY <1>1, <1>2, <1>3, <2>2 DEF Selects
  <2> HIDE DEF Same
  <2>. QED
    BY <1>1, <2>1, <2>2, IntervalInduction
<1>5. g[n] = Only(s, S)
  BY <1>1, <1>2, <1>4 DEF Selects
<1>6. g[n + 1] = IF x \in S THEN Append(g[n], x) ELSE g[n]
  BY <1>1, <1>3 DEF Selects
<1>. QED
  BY <1>1, <1>3, <1>5, <1>6 DEF Selects, t

\* Induction on a sequence that grows at its end, for a property given as a set.
LEMMA SequenceInduction ==
  ASSUME NEW X, NEW T,
         << >> \in T,
         \A s \in Seq(X) : \A x \in X : s \in T => Append(s, x) \in T
  PROVE  Seq(X) \subseteq T
<1> SUFFICES ASSUME NEW s \in Seq(X)
             PROVE  s \in T
  OBVIOUS
<1> DEFINE prefix(n) == SubSeq(s, 1, n)
           P == {n \in 0..Len(s) : prefix(n) \in T}
<1>1. Len(s) \in Nat /\ 0 \in 0..Len(s) /\ Len(s) \in 0..Len(s)
  OBVIOUS
<1>2. prefix(0) = << >> /\ prefix(Len(s)) = s
  OBVIOUS
<1>3. ASSUME NEW n \in 1..Len(s)
      PROVE  /\ n \in 0..Len(s) /\ n - 1 \in 0..Len(s)
             /\ prefix(n - 1) \in Seq(X) /\ s[n] \in X
             /\ prefix(n) = Append(prefix(n - 1), s[n])
  BY <1>1
<1> HIDE DEF prefix
<1>4. 0..Len(s) \subseteq P
  <2>1. 0 \in P
    BY <1>1, <1>2
  <2>2. ASSUME NEW n \in 1..Len(s), n - 1 \in P
        PROVE  n \in P
    <3>1. prefix(n - 1) \in T
      BY <2>2
    <3>2. prefix(n) \in T
      BY <1>3, <3>1
    <3>. QED
      BY <1>3, <3>2
  <2> HIDE DEF P
  <2>. QED
    BY <1>1, <2>1, <2>2, IntervalInduction
<1>5. prefix(Len(s)) \in T
  BY <1>1, <1>4
<1>. QED
  BY <1>2, <1>5

\* A second selection keeps what belongs to both sets.
LEMMA OnlyOnly ==
  ASSUME NEW X, NEW s \in Seq(X), NEW S, NEW U
  PROVE  Only(Only(s, S), U) = Only(s, S \cap U)
<1> DEFINE T == {t \in Seq(X) : Only(Only(t, S), U) = Only(t, S \cap U)}
<1>1. << >> \in T
  BY OnlyEmpty
<1>2. ASSUME NEW t \in Seq(X), NEW x \in X, t \in T
      PROVE  Append(t, x) \in T
  <2> DEFINE u == Append(t, x)
             o == Only(t, S)
  <2>1. /\ Only(u, S) = IF x \in S THEN Append(o, x) ELSE o
        /\ Only(u, S \cap U) =
             IF x \in S \cap U THEN Append(Only(t, S \cap U), x) ELSE Only(t, S \cap U)
    BY OnlyAppend
  <2>2. o \in Seq(X)
    BY OnlyType
  <2>3. Only(Append(o, x), U) = IF x \in U THEN Append(Only(o, U), x) ELSE Only(o, U)
    <3> HIDE DEF o
    <3>. QED
      BY <2>2, OnlyAppend
  <2>4. u \in Seq(X) /\ Only(o, U) = Only(t, S \cap U)
    BY <1>2
  <2> HIDE DEF u, o
  <2>5. Only(Only(u, S), U) = Only(u, S \cap U)
    <3>1. CASE x \in S /\ x \in U
      BY <2>1, <2>3, <2>4, <3>1
    <3>2. CASE x \in S /\ x \notin U
      BY <2>1, <2>3, <2>4, <3>2
    <3>3. CASE x \notin S
      BY <2>1, <2>4, <3>3
    <3>. QED
      BY <3>1, <3>2, <3>3
  <2>. QED
    BY <2>4, <2>5 DEF u
<1> HIDE DEF T
<1>3. Seq(X) \subseteq T
  BY <1>1, <1>2, SequenceInduction
<1>. QED
  BY <1>3 DEF T

\* Sets that agree on the elements of a sequence select the same.
LEMMA OnlySame ==
  ASSUME NEW X, NEW s \in Seq(X), NEW S, NEW U,
         \A i \in 1..Len(s) : s[i] \in S <=> s[i] \in U
  PROVE  Only(s, S) = Only(s, U)
<1> DEFINE Agree(t) == \A i \in 1..Len(t) : t[i] \in S <=> t[i] \in U
           T == {t \in Seq(X) : Agree(t) => Only(t, S) = Only(t, U)}
<1>1. << >> \in T
  BY OnlyEmpty
<1>2. ASSUME NEW t \in Seq(X), NEW x \in X, t \in T
      PROVE  Append(t, x) \in T
  <2>1. /\ Only(Append(t, x), S) = IF x \in S THEN Append(Only(t, S), x) ELSE Only(t, S)
        /\ Only(Append(t, x), U) = IF x \in U THEN Append(Only(t, U), x) ELSE Only(t, U)
    BY OnlyAppend
  <2>2. Agree(Append(t, x)) => Agree(t) /\ (x \in S <=> x \in U)
    <3>1. /\ Len(t) \in Nat /\ Len(Append(t, x)) = Len(t) + 1
          /\ Append(t, x)[Len(t) + 1] = x
          /\ \A i \in 1..Len(t) : Append(t, x)[i] = t[i]
      OBVIOUS
    <3>2. Len(t) + 1 \in 1..(Len(t) + 1) /\ \A i \in 1..Len(t) : i \in 1..(Len(t) + 1)
      BY <3>1
    <3>. QED
      BY <3>1, <3>2
  <2>3. Append(t, x) \in Seq(X)
    OBVIOUS
  <2> HIDE DEF Agree
  <2>. QED
    BY <1>2, <2>1, <2>2, <2>3
<1>3. Seq(X) \subseteq T
  <2> HIDE DEF T
  <2>. QED
    BY <1>1, <1>2, SequenceInduction
<1>. QED
  BY <1>3

\* A set that holds all elements of a sequence selects the whole of it.
LEMMA OnlyAll ==
  ASSUME NEW X, NEW s \in Seq(X)
  PROVE  Only(s, X) = s
<1> DEFINE T == {t \in Seq(X) : Only(t, X) = t}
<1>1. << >> \in T
  BY OnlyEmpty
<1>2. ASSUME NEW t \in Seq(X), NEW x \in X, t \in T
      PROVE  Append(t, x) \in T
  BY <1>2, OnlyAppend
<1>3. Seq(X) \subseteq T
  <2> HIDE DEF T
  <2>. QED
    BY <1>1, <1>2, SequenceInduction
<1>. QED
  BY <1>3

\* A set that holds no element of a sequence selects nothing of it.
LEMMA OnlyNone ==
  ASSUME NEW X, NEW s \in Seq(X), NEW S, \A i \in 1..Len(s) : s[i] \notin S
  PROVE  Only(s, S) = << >>
<1>1. Only(s, S) = Only(s, {})
  BY OnlySame
<1> DEFINE T == {t \in Seq(X) : Only(t, {}) = << >>}
<1>2. << >> \in T
  BY OnlyEmpty
<1>3. ASSUME NEW t \in Seq(X), NEW x \in X, t \in T
      PROVE  Append(t, x) \in T
  <2>1. Only(Append(t, x), {}) = Only(t, {})
    BY OnlyAppend
  <2>. QED
    BY <1>3, <2>1
<1>4. Seq(X) \subseteq T
  <2> HIDE DEF T
  <2>. QED
    BY <1>2, <1>3, SequenceInduction
<1>. QED
  BY <1>1, <1>4

\* Selections agree when the sequences agree on what is selected.
LEMMA OnlyAgree ==
  ASSUME NEW X, NEW s \in Seq(X), NEW t \in Seq(X), NEW S, Len(t) = Len(s),
         \A i \in 1..Len(s) : s[i] = t[i] \/ (s[i] \notin S /\ t[i] \notin S)
  PROVE  Only(t, S) = Only(s, S)
<1>1. PICK f : Selects(f, X, s, S)
  BY OnlyUnfolds
<1>2. PICK g : Selects(g, X, t, S)
  BY OnlyUnfolds
<1> DEFINE T == {i \in 0..Len(s) : g[i] = f[i]}
<1>3. Len(s) \in Nat /\ 0 \in 0..Len(s)
  OBVIOUS
<1>4. 0 \in T
  BY <1>1, <1>2, <1>3 DEF Selects
<1>5. ASSUME NEW i \in 1..Len(s), i - 1 \in T
      PROVE  i \in T
  <2>1. /\ f[i] = (IF s[i] \in S THEN Append(f[i - 1], s[i]) ELSE f[i - 1])
        /\ g[i] = (IF t[i] \in S THEN Append(g[i - 1], t[i]) ELSE g[i - 1])
    BY <1>1, <1>2 DEF Selects
  <2>2. g[i] = f[i]
    BY <1>5, <2>1
  <2>. QED
    BY <1>3, <2>2
<1>6. 0..Len(s) \subseteq T
  <2> HIDE DEF T
  <2>. QED
    BY <1>3, <1>4, <1>5, IntervalInduction
<1>7. g[Len(s)] = f[Len(s)]
  BY <1>3, <1>6
<1>. QED
  BY <1>1, <1>2, <1>7 DEF Selects

\* What is left of a sequence when its first m elements are dropped.
LEMMA Suffix ==
  ASSUME NEW X, NEW t \in Seq(X), NEW m \in 0..Len(t)
  PROVE  /\ SubSeq(t, m + 1, Len(t)) \in Seq(X)
         /\ Len(SubSeq(t, m + 1, Len(t))) = Len(t) - m
         /\ \A i \in 1..(Len(t) - m) : SubSeq(t, m + 1, Len(t))[i] = t[m + i]
<1>1. Len(t) \in Nat /\ m \in Nat /\ m <= Len(t) /\ \A i \in 1..Len(t) : t[i] \in X
  OBVIOUS
<1>2. \A i \in (m + 1)..Len(t) : t[i] \in X
  BY <1>1
<1>3. /\ SubSeq(t, m + 1, Len(t)) \in Seq(X)
      /\ Len(SubSeq(t, m + 1, Len(t))) =
           IF m + 1 <= Len(t) THEN Len(t) - (m + 1) + 1 ELSE 0
      /\ \A i \in 1..(Len(t) - (m + 1) + 1) : SubSeq(t, m + 1, Len(t))[i] = t[(m + 1) + i - 1]
  <2>1. m + 1 \in Int /\ Len(t) \in Int
    BY <1>1
  <2>. QED
    BY <1>2, <2>1, SubSeqProperties
<1>4. \A i \in 1..(Len(t) - m) : i \in 1..(Len(t) - (m + 1) + 1) /\ (m + 1) + i - 1 = m + i
  BY <1>1
<1>. QED
  BY <1>1, <1>3, <1>4

\* The end of a sequence that has grown by one element.
LEMMA SuffixOfAppend ==
  ASSUME NEW X, NEW t \in Seq(X), NEW x \in X, NEW m \in 0..Len(t)
  PROVE  /\ SubSeq(t, m + 1, Len(t)) \in Seq(X)
         /\ SubSeq(Append(t, x), m + 1, Len(t) + 1) = Append(SubSeq(t, m + 1, Len(t)), x)
<1> DEFINE a == Append(t, x)
           u == SubSeq(t, m + 1, Len(t))
           v == SubSeq(a, m + 1, Len(a))
<1>1. /\ Len(t) \in Nat /\ m \in Nat /\ m <= Len(t) /\ a \in Seq(X)
      /\ Len(a) = Len(t) + 1 /\ a[Len(t) + 1] = x /\ m \in 0..Len(a)
      /\ \A i \in 1..Len(t) : a[i] = t[i]
  OBVIOUS
<1> HIDE DEF a
<1>2. u \in Seq(X) /\ Len(u) = Len(t) - m /\ \A i \in 1..(Len(t) - m) : u[i] = t[m + i]
  BY Suffix
<1>3. v \in Seq(X) /\ Len(v) = Len(a) - m /\ \A i \in 1..(Len(a) - m) : v[i] = a[m + i]
  BY <1>1, Suffix
<1> HIDE DEF u, v
<1>4. /\ Append(u, x) \in Seq(X) /\ Len(Append(u, x)) = Len(v)
      /\ Append(u, x)[Len(v)] = x /\ \A i \in 1..Len(u) : Append(u, x)[i] = u[i]
  BY <1>1, <1>2, <1>3
<1>5. \A i \in 1..Len(v) : Append(u, x)[i] = v[i]
  <2>1. \A i \in 1..Len(v) : i \in 1..Len(u) \/ i = Len(v)
    BY <1>1, <1>2, <1>3
  <2>2. \A i \in 1..Len(u) : u[i] = v[i]
    <3>1. ASSUME NEW i \in 1..Len(u)
          PROVE  u[i] = v[i]
      <4>1. i \in 1..(Len(t) - m) /\ i \in 1..(Len(a) - m) /\ m + i \in 1..Len(t)
        BY <1>1, <1>2
      <4>. QED
        BY <1>1, <1>2, <1>3, <4>1
    <3>. QED
      BY <3>1
  <2>3. v[Len(v)] = x
    <3>1. Len(v) \in 1..(Len(a) - m) /\ m + Len(v) = Len(t) + 1
      BY <1>1, <1>3
    <3>. QED
      BY <1>1, <1>3, <3>1
  <2> DEFINE w == Append(u, x)
  <2> HIDE DEF w
  <2>4. w[Len(v)] = x /\ \A i \in 1..Len(u) : w[i] = u[i]
    BY <1>4 DEF w
  <2>5. \A i \in 1..Len(v) : w[i] = v[i]
    BY <2>1, <2>2, <2>3, <2>4
  <2>. QED
    BY <2>5 DEF w
<1>6. v = Append(u, x)
  BY <1>3, <1>4, <1>5, SeqEqual
<1>. QED
  BY <1>1, <1>2, <1>6 DEF u, v, a

\* Cutting off a beginning that holds nothing selected changes no selection.
LEMMA OnlySuffix ==
  ASSUME NEW X, NEW s \in Seq(X), NEW S, NEW k \in 0..Len(s),
         \A i \in 1..k : s[i] \notin S
  PROVE  Only(SubSeq(s, k + 1, Len(s)), S) = Only(s, S)
<1> DEFINE Cut(t) == \A m \in 0..Len(t) : (\A i \in 1..m : t[i] \notin S) =>
                       Only(SubSeq(t, m + 1, Len(t)), S) = Only(t, S)
           T == {t \in Seq(X) : Cut(t)}
<1>1. << >> \in T
  <2>1. /\ << >> \in Seq(X) /\ 0..Len(<< >>) = {0}
        /\ SubSeq(<< >>, 0 + 1, Len(<< >>)) = << >>
    OBVIOUS
  <2>2. Cut(<< >>)
    BY <2>1, Zenon
  <2>. QED
    BY <2>1, <2>2
<1>2. ASSUME NEW t \in Seq(X), NEW x \in X, t \in T
      PROVE  Append(t, x) \in T
  <2> DEFINE u == Append(t, x)
  <2>1. /\ u \in Seq(X) /\ Len(t) \in Nat /\ Len(u) = Len(t) + 1 /\ u[Len(u)] = x
        /\ \A i \in 1..Len(t) : u[i] = t[i]
    OBVIOUS
  <2>2. ASSUME NEW m \in 0..Len(u), \A i \in 1..m : u[i] \notin S
        PROVE  Only(SubSeq(u, m + 1, Len(u)), S) = Only(u, S)
    <3>1. CASE m = Len(u)
      <4>1. SubSeq(u, m + 1, Len(u)) = << >>
        BY <2>1, <3>1
      <4>2. Only(u, S) = << >>
        BY <2>1, <2>2, <3>1, OnlyNone
      <4>. QED
        BY <4>1, <4>2, OnlyEmpty
    <3>2. CASE m # Len(u)
      <4>1. m \in 0..Len(t)
        BY <2>1, <3>2
      <4> DEFINE p == SubSeq(t, m + 1, Len(t))
      <4>2. p \in Seq(X) /\ SubSeq(u, m + 1, Len(t) + 1) = Append(p, x)
        BY <4>1, SuffixOfAppend
      <4>3. Only(p, S) = Only(t, S)
        <5>1. \A i \in 1..m : t[i] \notin S
          BY <2>1, <2>2, <4>1
        <5>. QED
          BY <1>2, <4>1, <5>1
      <4>4. Only(u, S) = IF x \in S THEN Append(Only(t, S), x) ELSE Only(t, S)
        BY OnlyAppend
      <4> HIDE DEF p, u
      <4>5. Only(Append(p, x), S) = IF x \in S THEN Append(Only(p, S), x) ELSE Only(p, S)
        BY <4>2, OnlyAppend
      <4>6. SubSeq(u, m + 1, Len(u)) = Append(p, x)
        BY <2>1, <4>2, Zenon
      <4>7. Only(SubSeq(u, m + 1, Len(u)), S) = Only(Append(p, x), S)
        BY <4>6, Zenon
      <4>8. Only(Append(p, x), S) = Only(u, S)
        BY <4>3, <4>4, <4>5
      <4>. QED
        BY <4>7, <4>8, Zenon
    <3>. QED
      BY <3>1, <3>2
  <2> HIDE DEF u
  <2>3. Cut(u)
    BY <2>2
  <2>. QED
    BY <2>1, <2>3 DEF u
<1>3. Seq(X) \subseteq T
  <2> HIDE DEF T
  <2>. QED
    BY <1>1, <1>2, SequenceInduction
<1>4. Cut(s)
  BY <1>3
<1>. QED
  BY <1>4

\* f places the elements of t in s, in order; they are those of s in S.
SelectedAt(f, t, s, S) ==
  /\ f \in [1..Len(t) -> 1..Len(s)]
  /\ \A i, j \in 1..Len(t) : i < j => f[i] < f[j]
  /\ \A i \in 1..Len(t) : t[i] = s[f[i]] /\ t[i] \in S
  /\ \A k \in 1..Len(s) : s[k] \in S => \E i \in 1..Len(t) : f[i] = k

\* A selection holds the elements of the sequence that are in the set, in their
\* order.
LEMMA OnlyPlaces ==
  ASSUME NEW X, NEW s \in Seq(X), NEW S
  PROVE  \E f : SelectedAt(f, Only(s, S), s, S)
<1> DEFINE T == {t \in Seq(X) : \E f : SelectedAt(f, Only(t, S), t, S)}
<1>1. << >> \in T
  <2>1. SelectedAt([i \in {} |-> 1], << >>, << >>, S)
    BY DEF SelectedAt
  <2>. QED
    BY <2>1, OnlyEmpty
<1>2. ASSUME NEW t \in Seq(X), NEW x \in X, t \in T
      PROVE  Append(t, x) \in T
  <2> DEFINE u == Append(t, x)
             o == Only(t, S)
  <2>1. /\ u \in Seq(X) /\ Len(t) \in Nat /\ Len(u) = Len(t) + 1 /\ u[Len(u)] = x
        /\ \A i \in 1..Len(t) : u[i] = t[i]
    OBVIOUS
  <2>2. PICK f : SelectedAt(f, o, t, S)
    BY <1>2
  <2>3. o \in Seq(X) /\ Len(o) \in Nat
    BY OnlyType
  <2>4. Only(u, S) = IF x \in S THEN Append(o, x) ELSE o
    BY OnlyAppend
  <2> HIDE DEF u, o
  <2>5. CASE x \notin S
    <3>1. f \in [1..Len(o) -> 1..Len(u)]
      BY <2>1, <2>2, <2>3 DEF SelectedAt
    <3>2. \A i \in 1..Len(o) : o[i] = u[f[i]] /\ o[i] \in S
      <4>1. \A i \in 1..Len(o) : f[i] \in 1..Len(t)
        BY <2>2 DEF SelectedAt
      <4>. QED
        BY <2>1, <2>2, <4>1 DEF SelectedAt
    <3>3. ASSUME NEW k \in 1..Len(u), u[k] \in S
          PROVE  \E i \in 1..Len(o) : f[i] = k
      <4>1. k \in 1..Len(t) /\ t[k] \in S
        BY <2>1, <2>5, <3>3
      <4>. QED
        BY <2>2, <4>1 DEF SelectedAt
    <3>4. SelectedAt(f, o, u, S)
      BY <2>2, <3>1, <3>2, <3>3 DEF SelectedAt
    <3>. QED
      BY <2>1, <2>4, <2>5, <3>4 DEF u
  <2>6. CASE x \in S
    <3> DEFINE v == Append(o, x)
               g == [i \in 1..(Len(o) + 1) |-> IF i \in 1..Len(o) THEN f[i] ELSE Len(u)]
    <3>1. /\ v \in Seq(X) /\ Len(v) = Len(o) + 1 /\ v[Len(v)] = x
          /\ \A i \in 1..Len(o) : v[i] = o[i]
      BY <2>3
    <3> HIDE DEF v
    <3>2. g \in [1..Len(v) -> 1..Len(u)]
      BY <2>1, <2>2, <2>3, <3>1 DEF SelectedAt
    <3>3. g[Len(v)] = Len(u) /\ \A i \in 1..Len(o) : g[i] = f[i]
      BY <2>3, <3>1
    <3> HIDE DEF g
    <3>4. \A i, j \in 1..Len(v) : i < j => g[i] < g[j]
      <4>1. \A i \in 1..Len(o) : f[i] \in 1..Len(t)
        BY <2>2 DEF SelectedAt
      <4>2. \A j \in 1..Len(v) : j \in 1..Len(o) \/ j = Len(v)
        BY <2>3, <3>1
      <4>3. ASSUME NEW i \in 1..Len(v), NEW j \in 1..Len(v), i < j
            PROVE  g[i] < g[j]
        <5>1. i \in 1..Len(o)
          BY <2>3, <3>1, <4>3
        <5>2. CASE j \in 1..Len(o)
          BY <2>2, <3>3, <4>3, <5>1, <5>2 DEF SelectedAt
        <5>3. CASE j = Len(v)
          BY <2>1, <3>3, <4>1, <5>1, <5>3
        <5>. QED
          BY <4>2, <5>2, <5>3
      <4>. QED
        BY <4>3
    <3>5. \A i \in 1..Len(v) : v[i] = u[g[i]] /\ v[i] \in S
      <4>1. \A j \in 1..Len(v) : j \in 1..Len(o) \/ j = Len(v)
        BY <2>3, <3>1
      <4>2. \A i \in 1..Len(o) : o[i] = t[f[i]] /\ o[i] \in S /\ f[i] \in 1..Len(t)
        BY <2>2 DEF SelectedAt
      <4>. QED
        BY <2>1, <2>6, <3>1, <3>3, <4>1, <4>2
    <3>6. ASSUME NEW k \in 1..Len(u), u[k] \in S
          PROVE  \E i \in 1..Len(v) : g[i] = k
      <4>1. CASE k = Len(u)
        BY <2>3, <3>1, <3>3, <4>1
      <4>2. CASE k # Len(u)
        <5>1. k \in 1..Len(t) /\ t[k] \in S
          BY <2>1, <3>6, <4>2
        <5>2. PICK i \in 1..Len(o) : f[i] = k
          BY <2>2, <5>1 DEF SelectedAt
        <5>. QED
          BY <2>3, <3>1, <3>3, <5>2
      <4>. QED
        BY <4>1, <4>2
    <3>7. SelectedAt(g, v, u, S)
      BY <3>2, <3>4, <3>5, <3>6 DEF SelectedAt
    <3>. QED
      BY <2>1, <2>4, <2>6, <3>7 DEF u, v
  <2>. QED
    BY <2>5, <2>6
<1>3. Seq(X) \subseteq T
  <2> HIDE DEF T
  <2>. QED
    BY <1>1, <1>2, SequenceInduction
<1>. QED
  BY <1>3

\* The elements of a selection are the selected elements, each as often as in the
\* sequence.
LEMMA OnlyElements ==
  ASSUME NEW X, NEW s \in Seq(X), NEW S
  PROVE  /\ Only(s, S) \in Seq(X)
         /\ \A i \in 1..Len(Only(s, S)) :
              Only(s, S)[i] \in S /\ \E k \in 1..Len(s) : s[k] = Only(s, S)[i]
         /\ \A k \in 1..Len(s) : s[k] \in S =>
              \E i \in 1..Len(Only(s, S)) : Only(s, S)[i] = s[k]
         /\ (\A k, l \in 1..Len(s) : s[k] = s[l] => k = l) =>
              \A i, j \in 1..Len(Only(s, S)) : Only(s, S)[i] = Only(s, S)[j] => i = j
<1> DEFINE o == Only(s, S)
<1>1. PICK f : SelectedAt(f, o, s, S)
  BY OnlyPlaces
<1>2. o \in Seq(X) /\ Len(o) \in Nat
  BY OnlyType
<1> HIDE DEF o
<1>3. \A i \in 1..Len(o) : f[i] \in 1..Len(s)
  BY <1>1 DEF SelectedAt
<1>4. \A i \in 1..Len(o) : o[i] \in S /\ \E k \in 1..Len(s) : s[k] = o[i]
  BY <1>1, <1>3 DEF SelectedAt
<1>5. \A k \in 1..Len(s) : s[k] \in S => \E i \in 1..Len(o) : o[i] = s[k]
  BY <1>1 DEF SelectedAt
<1>6. ASSUME \A k, l \in 1..Len(s) : s[k] = s[l] => k = l,
             NEW i \in 1..Len(o), NEW j \in 1..Len(o), o[i] = o[j]
      PROVE  i = j
  <2>1. f[i] = f[j]
    BY <1>1, <1>3, <1>6 DEF SelectedAt
  <2>2. f[i] \in Int /\ ~(f[i] < f[j]) /\ ~(f[j] < f[i])
    BY <1>3, <2>1
  <2>3. ~(i < j) /\ ~(j < i)
    BY <1>1, <2>2 DEF SelectedAt
  <2>. QED
    BY <1>2, <2>3
<1>. QED
  BY <1>2, <1>4, <1>5, <1>6 DEF o

\* The elements of a sequence.
Members(s) == {s[i] : i \in 1..Len(s)}

\* A selection takes its elements from the sequence, and an element appended is one more.
LEMMA MembersOfOnly ==
  ASSUME NEW X, NEW s \in Seq(X), NEW S
  PROVE  /\ Members(s) \in SUBSET X
         /\ Only(s, S) \in Seq(X)
         /\ Members(Only(s, S)) = Members(s) \cap S
<1>1. Members(s) \in SUBSET X
  BY DEF Members
<1> DEFINE o == Only(s, S)
<1>2. /\ o \in Seq(X)
      /\ \A i \in 1..Len(o) : o[i] \in S /\ \E k \in 1..Len(s) : s[k] = o[i]
      /\ \A k \in 1..Len(s) : s[k] \in S => \E i \in 1..Len(o) : o[i] = s[k]
  BY OnlyElements
<1> HIDE DEF o
<1>3. Members(o) \subseteq Members(s) \cap S
  BY <1>2 DEF Members
<1>4. Members(s) \cap S \subseteq Members(o)
  BY <1>2 DEF Members
<1>. QED
  BY <1>1, <1>2, <1>3, <1>4 DEF o

\* What appending adds to the members of a sequence.
LEMMA MembersOfAppend ==
  ASSUME NEW X, NEW s \in Seq(X), NEW x \in X
  PROVE  /\ Append(s, x) \in Seq(X)
         /\ Members(Append(s, x)) = Members(s) \cup {x}
<1> DEFINE t == Append(s, x)
<1>1. /\ t \in Seq(X) /\ Len(s) \in Nat /\ Len(t) = Len(s) + 1 /\ t[Len(s) + 1] = x
      /\ \A i \in 1..Len(s) : t[i] = s[i]
  OBVIOUS
<1> HIDE DEF t
<1>2. Members(t) \subseteq Members(s) \cup {x}
  BY <1>1 DEF Members
<1>3. Members(s) \cup {x} \subseteq Members(t)
  BY <1>1 DEF Members
<1>. QED
  BY <1>1, <1>2, <1>3 DEF t

\* A selection is not longer than what it is taken from, and shorter when it leaves
\* something out.
LEMMA OnlyShortens ==
  ASSUME NEW X, NEW s \in Seq(X), NEW S
  PROVE  /\ Len(Only(s, S)) <= Len(s)
         /\ (\E i \in 1..Len(s) : s[i] \notin S) => Len(Only(s, S)) < Len(s)
<1> DEFINE Short(t) == /\ Len(Only(t, S)) <= Len(t)
                       /\ (\E i \in 1..Len(t) : t[i] \notin S) => Len(Only(t, S)) < Len(t)
           T == {t \in Seq(X) : Short(t)}
<1>1. << >> \in T
  BY OnlyEmpty
<1>2. ASSUME NEW t \in Seq(X), NEW x \in X, t \in T
      PROVE  Append(t, x) \in T
  <2> DEFINE u == Append(t, x)
  <2>1. /\ u \in Seq(X) /\ Len(t) \in Nat /\ Len(u) = Len(t) + 1
        /\ \A i \in 1..Len(t) : u[i] = t[i]
        /\ u[Len(t) + 1] = x /\ 1..Len(u) = (1..Len(t)) \cup {Len(t) + 1}
    OBVIOUS
  <2>2. Only(t, S) \in Seq(X)
    BY OnlyType
  <2>3. Only(u, S) = IF x \in S THEN Append(Only(t, S), x) ELSE Only(t, S)
    BY OnlyAppend
  <2>4. Len(Only(u, S)) = IF x \in S THEN Len(Only(t, S)) + 1 ELSE Len(Only(t, S))
    BY <2>2, <2>3
  <2>5. Len(Only(t, S)) \in Nat
    BY <2>2
  <2>6. CASE x \notin S
    BY <1>2, <2>1, <2>4, <2>5, <2>6
  <2>7. CASE x \in S
    <3>1. (\E i \in 1..Len(u) : u[i] \notin S) => \E i \in 1..Len(t) : t[i] \notin S
      BY <2>1, <2>7
    <3>2. Short(t) /\ Len(Only(u, S)) = Len(Only(t, S)) + 1
      BY <1>2, <2>4, <2>7
    <3>3. Short(u)
      BY <2>1, <2>5, <3>1, <3>2
    <3> QED
      BY <2>1, <3>3
  <2> QED
    BY <2>6, <2>7
<1>3. Seq(X) \subseteq T
  <2> HIDE DEF T
  <2> QED
    BY <1>1, <1>2, SequenceInduction
<1> QED
  BY <1>3

=============================================================================
