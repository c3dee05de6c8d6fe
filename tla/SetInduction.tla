---------------------------- MODULE SetInduction -----------------------------
(***************************************************************************)
(* Induction over an initial segment of the naturals and over the subsets  *)
(* of a finite set, stated for a set instead of a predicate so that        *)
(* first-order provers can apply it, and what follows for sums.  A         *)
(* subset of 0..m that contains 0, is closed under successor below m and   *)
(* misses m would be in bijection with a proper subset of itself, which no *)
(* finite set is.                                                          *)
(***************************************************************************)
EXTENDS Integers, FiniteSetTheorems, TLAPS

\* A subset of 0..m that contains 0 and, with each j < m, also j + 1, contains m.
LEMMA SegmentInduction ==
  ASSUME NEW m \in Nat, NEW S \in SUBSET (0..m),
         0 \in S,
         \A j \in S : j < m => j + 1 \in S
  PROVE  m \in S
<1>1. SUFFICES ASSUME m \notin S
               PROVE  FALSE
  OBVIOUS
<1>2. \A j \in S : j + 1 \in S \ {0}
  BY <1>1
<1>3. IsFiniteSet(S)
  <2>1. IsFiniteSet(0..m)
    BY FS_Interval
  <2>2. QED
    BY <2>1, FS_Subset
<1>4. /\ IsFiniteSet(S \ {0})
      /\ Cardinality(S \ {0}) = Cardinality(S) - 1
  BY <1>3, FS_RemoveElement
<1>5. Cardinality(S) \in Nat
  BY <1>3, FS_CardinalityType
<1> DEFINE succ == [j \in S |-> j + 1]
<1>6. succ \in Injection(S, S \ {0})
  <2>1. succ \in [S -> S \ {0}]
    BY <1>2
  <2>2. \A a, b \in S : succ[a] = succ[b] => a = b
    OBVIOUS
  <2>3. QED
    BY <2>1, <2>2 DEF Injection, IsInjective
<1>7. Cardinality(S) <= Cardinality(S \ {0})
  <2> HIDE DEF succ
  <2> QED
    BY <1>4, <1>6, FS_Injection
<1>8. QED
  BY <1>4, <1>5, <1>7

\* The same for every element of the segment: the set is the whole of 0..m.
LEMMA SegmentCovered ==
  ASSUME NEW m \in Nat, NEW S \in SUBSET (0..m),
         0 \in S,
         \A j \in S : j < m => j + 1 \in S
  PROVE  S = 0..m
<1>1. SUFFICES ASSUME NEW i \in 0..m
               PROVE  i \in S
  OBVIOUS
<1> DEFINE T == S \cap (0..i)
<1>2. /\ T \in SUBSET (0..i)
      /\ 0 \in T
      /\ \A j \in T : j < i => j + 1 \in T
  OBVIOUS
<1>3. i \in T
  <2> HIDE DEF T
  <2> QED
    BY <1>2, SegmentInduction
<1>4. QED
  BY <1>3

-----------------------------------------------------------------------------
(* Sums over finite sets                                                   *)

\* IsSum(g, f, S): g gives the sum of f over each subset of S, by the recursion of
\* MapThenFoldSet.
IsSum(g, f, S) ==
  g = [T \in SUBSET S |->
         IF T = {} THEN 0
         ELSE f[CHOOSE x \in T : TRUE] + g[T \ {CHOOSE x \in T : TRUE}]]

\* A set of subsets of a finite set that contains the empty set and, with all the
\* subsets of one element less, each subset, contains the whole set.
LEMMA SubsetInduction ==
  ASSUME NEW S, IsFiniteSet(S), NEW F \in SUBSET (SUBSET S),
         {} \in F,
         \A T \in SUBSET S : T # {} /\ (\A x \in T : T \ {x} \in F) => T \in F
  PROVE  F = SUBSET S
<1> DEFINE M == Cardinality(S)
           N == {m \in 0..M : \A T \in SUBSET S : Cardinality(T) = m => T \in F}
<1>1. /\ M \in Nat
      /\ \A T \in SUBSET S : /\ IsFiniteSet(T)
                             /\ Cardinality(T) \in 0..M
  BY FS_Subset, FS_CardinalityType
<1>2. 0 \in N
  BY <1>1, FS_EmptySet
<1>3. ASSUME NEW m \in N, m < M
      PROVE  m + 1 \in N
  <2>1. SUFFICES ASSUME NEW T \in SUBSET S, Cardinality(T) = m + 1
                 PROVE  T \in F
    BY <1>1, <1>3
  <2>2. T # {}
    BY <1>1, <2>1, FS_EmptySet
  <2>3. ASSUME NEW x \in T
        PROVE  T \ {x} \in F
    <3>1. Cardinality(T \ {x}) = Cardinality(T) - 1
      BY <1>1, FS_RemoveElement
    <3>2. m \in Nat /\ T \ {x} \in SUBSET S
      BY <1>1
    <3>3. Cardinality(T \ {x}) = m
      BY <2>1, <3>1, <3>2
    <3>4. QED
      BY <3>2, <3>3
  <2>4. QED
    BY <2>2, <2>3
<1>4. N = 0..M
  <2>1. N \in SUBSET (0..M)
    OBVIOUS
  <2> HIDE DEF N, M
  <2> QED
    BY <1>1, <1>2, <1>3, <2>1, SegmentCovered
<1>5. QED
  BY <1>1, <1>4

\* The element that the recursion takes out of a set first.
Chosen(T) == CHOOSE x \in T : TRUE

\* The same in two parts: what the sum of the empty set is, and how the sum of
\* another set is made.
LEMMA SumEquations ==
  ASSUME NEW S, NEW f, NEW g
  PROVE  IsSum(g, f, S) <=>
           /\ g = [T \in SUBSET S |-> g[T]]
           /\ g[{}] = 0
           /\ \A T \in SUBSET S : T # {} => g[T] = f[Chosen(T)] + g[T \ {Chosen(T)}]
<1>1. ASSUME IsSum(g, f, S)
      PROVE  /\ g = [T \in SUBSET S |-> g[T]]
             /\ g[{}] = 0
             /\ \A T \in SUBSET S : T # {} => g[T] = f[Chosen(T)] + g[T \ {Chosen(T)}]
  BY <1>1 DEF IsSum, Chosen
<1>2. ASSUME g = [T \in SUBSET S |-> g[T]],
             g[{}] = 0,
             \A T \in SUBSET S : T # {} => g[T] = f[Chosen(T)] + g[T \ {Chosen(T)}]
      PROVE  IsSum(g, f, S)
  <2>1. \A T \in SUBSET S : g[T] = IF T = {} THEN 0 ELSE f[Chosen(T)] + g[T \ {Chosen(T)}]
    BY <1>2
  <2>2. QED
    BY <1>2, <2>1 DEF IsSum, Chosen
<1>3. QED
  BY <1>1, <1>2

\* Such a function exists for every finite set.
LEMMA SumExists ==
  ASSUME NEW S, IsFiniteSet(S), NEW f
  PROVE  \E g : IsSum(g, f, S)
<1> DEFINE M == Cardinality(S)
           UpTo(g, m) ==
             /\ g = [T \in SUBSET S |-> g[T]]
             /\ g[{}] = 0
             /\ \A T \in SUBSET S :
                  T # {} /\ Cardinality(T) <= m =>
                    g[T] = f[Chosen(T)] + g[T \ {Chosen(T)}]
           N == {m \in 0..M : \E g : UpTo(g, m)}
<1>1. /\ M \in Nat
      /\ \A T \in SUBSET S : /\ IsFiniteSet(T)
                             /\ Cardinality(T) \in 0..M
  BY FS_Subset, FS_CardinalityType
<1>2. \A T \in SUBSET S : T # {} => /\ Chosen(T) \in T
                                    /\ Cardinality(T) # 0
                                    /\ Cardinality(T \ {Chosen(T)}) = Cardinality(T) - 1
  BY <1>1, FS_EmptySet, FS_RemoveElement DEF Chosen
<1>3. 0 \in N
  <2> DEFINE g == [T \in SUBSET S |-> 0]
  <2>1. g = [T \in SUBSET S |-> g[T]] /\ g[{}] = 0
    OBVIOUS
  <2>2. \A T \in SUBSET S : T # {} => ~(Cardinality(T) <= 0)
    <3>1. ASSUME NEW T \in SUBSET S, T # {}
          PROVE  ~(Cardinality(T) <= 0)
      <4>1. Cardinality(T) \in 0..M /\ Cardinality(T) # 0
        BY <1>1, <1>2, <3>1
      <4>2. QED
        BY <1>1, <4>1
    <3>2. QED
      BY <3>1
  <2>3. UpTo(g, 0)
    <3> HIDE DEF g
    <3> QED
      BY <2>1, <2>2
  <2>4. QED
    <3> HIDE DEF g, UpTo
    <3> QED
      BY <1>1, <2>3
<1>4. ASSUME NEW m \in N, m < M
      PROVE  m + 1 \in N
  <2>1. PICK g : UpTo(g, m)
    OBVIOUS
  <2> DEFINE h == [T \in SUBSET S |->
                     IF Cardinality(T) = m + 1 THEN f[Chosen(T)] + g[T \ {Chosen(T)}] ELSE g[T]]
  <2>2. m \in Nat
    BY <1>1
  <2>3. h = [T \in SUBSET S |-> h[T]]
    OBVIOUS
  <2>4. h[{}] = 0
    <3>1. Cardinality({}) = 0
      BY FS_EmptySet
    <3>2. QED
      BY <2>1, <2>2, <3>1
  <2>5. ASSUME NEW T \in SUBSET S, T # {}, Cardinality(T) <= m + 1
        PROVE  h[T] = f[Chosen(T)] + h[T \ {Chosen(T)}]
    <3>1. /\ T \ {Chosen(T)} \in SUBSET S
          /\ Cardinality(T) \in Nat
          /\ Cardinality(T \ {Chosen(T)}) = Cardinality(T) - 1
      BY <1>1, <1>2, <2>5
    <3>2. h[T \ {Chosen(T)}] = g[T \ {Chosen(T)}]
      BY <2>2, <2>5, <3>1
    <3>3. CASE Cardinality(T) = m + 1
      BY <3>2, <3>3
    <3>4. CASE Cardinality(T) # m + 1
      <4>1. Cardinality(T) <= m
        BY <2>2, <2>5, <3>1, <3>4
      <4>2. h[T] = g[T] /\ g[T] = f[Chosen(T)] + g[T \ {Chosen(T)}]
        BY <2>1, <2>5, <3>4, <4>1
      <4>3. QED
        BY <3>2, <4>2
    <3>5. QED
      BY <3>3, <3>4
  <2>6. UpTo(h, m + 1)
    BY <2>3, <2>4, <2>5
  <2>7. QED
    <3> HIDE DEF UpTo, h
    <3> QED
      BY <1>1, <1>4, <2>2, <2>6
<1>5. M \in N
  <2>1. N \in SUBSET (0..M)
    OBVIOUS
  <2> HIDE DEF N, M
  <2> QED
    BY <1>1, <1>3, <1>4, <2>1, SegmentInduction
<1>6. PICK g : UpTo(g, M)
  BY <1>5
<1>7. IsSum(g, f, S)
  <2>1. \A T \in SUBSET S : Cardinality(T) <= M
    BY <1>1
  <2>2. QED
    BY <1>6, <2>1, SumEquations
<1>8. QED
  BY <1>7

\* A sum of integers is an integer, and any element may be taken out first.
LEMMA SumSplit ==
  ASSUME NEW S, IsFiniteSet(S), NEW f \in [S -> Int], NEW g, IsSum(g, f, S)
  PROVE  \A T \in SUBSET S : /\ g[T] \in Int
                             /\ \A x \in T : g[T] = f[x] + g[T \ {x}]
<1> DEFINE Good(T) == g[T] \in Int /\ \A x \in T : g[T] = f[x] + g[T \ {x}]
           F == {T \in SUBSET S : \A U \in SUBSET T : Good(U)}
<1>1. /\ g[{}] = 0
      /\ \A T \in SUBSET S : T # {} => g[T] = f[Chosen(T)] + g[T \ {Chosen(T)}]
  BY SumEquations
<1>2. {} \in F
  <2>1. Good({})
    BY <1>1
  <2>2. \A U \in SUBSET {} : U = {}
    OBVIOUS
  <2>3. QED
    <3> HIDE DEF Good
    <3> QED
      BY <2>1, <2>2
<1>3. ASSUME NEW T \in SUBSET S, T # {}, \A x \in T : T \ {x} \in F
      PROVE  T \in F
  <2>1. \A U \in SUBSET T : U # T => Good(U)
    <3>1. ASSUME NEW U \in SUBSET T, U # T
          PROVE  Good(U)
      <4>1. PICK x \in T : x \notin U
        BY <3>1
      <4>2. U \in SUBSET (T \ {x})
        BY <4>1
      <4>3. QED
        BY <1>3, <4>2
    <3>2. QED
      BY <3>1
  <2> DEFINE c == Chosen(T)
  <2>2. c \in T /\ T \ {c} # T
    BY <1>3 DEF Chosen
  <2>3. g[T] = f[c] + g[T \ {c}]
    BY <1>1, <1>3
  <2>4. f \in [S -> Int] /\ f[c] \in Int /\ g[T \ {c}] \in Int
    BY <2>1, <2>2
  <2>5. ASSUME NEW x \in T, x # c
        PROVE  g[T] = f[x] + g[T \ {x}]
    <3>1. /\ T \ {x} # T /\ c \in T \ {x}
          /\ T \ {c} # T /\ x \in T \ {c}
          /\ (T \ {x}) \ {c} = (T \ {c}) \ {x}
          /\ (T \ {x}) \ {c} # T
          /\ (T \ {x}) \ {c} \in SUBSET T
      BY <2>2, <2>5
    <3>2. g[T \ {c}] = f[x] + g[(T \ {c}) \ {x}]
      BY <2>1, <3>1
    <3>3. g[T \ {x}] = f[c] + g[(T \ {x}) \ {c}]
      BY <2>1, <3>1
    <3>4. g[(T \ {x}) \ {c}] \in Int
      BY <2>1, <3>1
    <3>5. f[x] \in Int
      BY <2>4
    <3> DEFINE r == g[(T \ {x}) \ {c}]
    <3>6. g[T] = f[c] + (f[x] + r)
      BY <2>3, <3>1, <3>2
    <3>7. g[T \ {x}] = f[c] + r
      BY <3>3
    <3>8. r \in Int /\ f[c] \in Int /\ f[x] \in Int
      BY <2>4, <3>4, <3>5
    <3>9. f[c] + (f[x] + r) = f[x] + (f[c] + r)
      <4> HIDE DEF r, c
      <4> QED
        BY <3>8
    <3>10. QED
      BY <3>6, <3>7, <3>9
  <2>6. Good(T)
    <3>1. g[T] \in Int
      BY <2>3, <2>4
    <3>2. \A x \in T : g[T] = f[x] + g[T \ {x}]
      BY <2>3, <2>5
    <3>3. QED
      BY <3>1, <3>2
  <2>7. \A U \in SUBSET T : Good(U)
    <3> HIDE DEF Good
    <3> QED
      BY <2>1, <2>6
  <2>8. QED
    BY <2>7
<1>4. F = SUBSET S
  <2>1. F \in SUBSET (SUBSET S)
    OBVIOUS
  <2> HIDE DEF F
  <2> QED
    BY <1>2, <1>3, <2>1, SubsetInduction
<1>5. ASSUME NEW T \in SUBSET S
      PROVE  Good(T)
  BY <1>4
<1>6. QED
  BY <1>5

\* Functions that agree on a set have the same sum over it.
LEMMA SumAgree ==
  ASSUME NEW S, IsFiniteSet(S), NEW f \in [S -> Int], NEW h \in [S -> Int],
         NEW g, IsSum(g, f, S), NEW k, IsSum(k, h, S),
         NEW T \in SUBSET S, \A x \in T : f[x] = h[x]
  PROVE  g[T] = k[T]
<1> DEFINE F == {U \in SUBSET T : g[U] = k[U]}
<1>1. g[{}] = 0 /\ k[{}] = 0
  BY SumEquations
<1>2. {} \in F
  BY <1>1
<1>3. ASSUME NEW U \in SUBSET T, U # {}, \A x \in U : U \ {x} \in F
      PROVE  U \in F
  <2>1. PICK x : x \in U
    BY <1>3
  <2>2. g[U \ {x}] = k[U \ {x}]
    BY <1>3, <2>1
  <2>3. g[U] = f[x] + g[U \ {x}] /\ k[U] = h[x] + k[U \ {x}]
    BY <2>1, SumSplit
  <2>4. f[x] = h[x]
    BY <2>1
  <2>5. QED
    BY <2>2, <2>3, <2>4
<1>4. F = SUBSET T
  <2>1. F \in SUBSET (SUBSET T) /\ IsFiniteSet(T)
    BY FS_Subset
  <2> HIDE DEF F
  <2> QED
    BY <1>2, <1>3, <2>1, SubsetInduction
<1>5. QED
  BY <1>4

\* One element taken out of the whole sum.
LEMMA SumWhole ==
  ASSUME NEW S, IsFiniteSet(S), NEW f \in [S -> Int], NEW g, IsSum(g, f, S), NEW x \in S
  PROVE  g[S] = f[x] + g[S \ {x}] /\ g[S \ {x}] \in Int
<1>1. S \in SUBSET S /\ S \ {x} \in SUBSET S
  OBVIOUS
<1>2. \A T \in SUBSET S : g[T] \in Int /\ \A y \in T : g[T] = f[y] + g[T \ {y}]
  BY SumSplit
<1>3. QED
  BY <1>1, <1>2

\* What a sum becomes when the function changes at one element.
LEMMA SumUpdate ==
  ASSUME NEW S, IsFiniteSet(S), NEW f \in [S -> Int], NEW h \in [S -> Int],
         NEW g, IsSum(g, f, S), NEW k, IsSum(k, h, S),
         NEW x \in S, \A y \in S \ {x} : h[y] = f[y]
  PROVE  k[S] = g[S] - f[x] + h[x]
<1>1. g[S \ {x}] = k[S \ {x}]
  BY SumAgree
<1>2. g[S] = f[x] + g[S \ {x}] /\ g[S \ {x}] \in Int
  BY SumWhole
<1>3. k[S] = h[x] + k[S \ {x}]
  BY SumWhole
<1>4. f[x] \in Int /\ h[x] \in Int
  OBVIOUS
<1>5. QED
  BY <1>1, <1>2, <1>3, <1>4

\* A sum of natural numbers is at least each of them.
LEMMA SumBound ==
  ASSUME NEW S, IsFiniteSet(S), NEW f \in [S -> Nat], NEW g, IsSum(g, f, S)
  PROVE  /\ g[S] \in Nat
         /\ \A x \in S : f[x] <= g[S]
<1> DEFINE F == {T \in SUBSET S : g[T] \in Nat}
<1>0. f \in [S -> Int]
  <2>1. f = [x \in S |-> f[x]] /\ \A x \in S : f[x] \in Int
    OBVIOUS
  <2>2. QED
    BY <2>1
<1>1. g[{}] = 0
  BY SumEquations
<1>2. {} \in F
  BY <1>1
<1>3. ASSUME NEW T \in SUBSET S, T # {}, \A x \in T : T \ {x} \in F
      PROVE  T \in F
  <2>1. PICK x : x \in T
    BY <1>3
  <2>2. g[T] = f[x] + g[T \ {x}]
    BY <1>0, <2>1, SumSplit
  <2>3. g[T \ {x}] \in Nat /\ f[x] \in Nat
    BY <1>3, <2>1
  <2>4. QED
    BY <2>2, <2>3
<1>4. F = SUBSET S
  <2>1. F \in SUBSET (SUBSET S)
    OBVIOUS
  <2> HIDE DEF F
  <2> QED
    BY <1>2, <1>3, <2>1, SubsetInduction
<1>5. S \in SUBSET S /\ \A x \in S : S \ {x} \in SUBSET S
  OBVIOUS
<1>6. g[S] \in Nat /\ \A x \in S : g[S \ {x}] \in Nat /\ f[x] \in Nat
  BY <1>4, <1>5
<1>7. \A x \in S : g[S] = f[x] + g[S \ {x}]
  BY <1>0, <1>5, SumSplit
<1>8. ASSUME NEW x \in S
      PROVE  f[x] <= g[S]
  <2>1. g[S] = f[x] + g[S \ {x}] /\ g[S \ {x}] \in Nat /\ f[x] \in Nat
    BY <1>6, <1>7
  <2>2. QED
    BY <2>1
<1>9. QED
  BY <1>6, <1>8

\* A sum of zeros is zero.
LEMMA SumZero ==
  ASSUME NEW S, IsFiniteSet(S), NEW f \in [S -> Int], NEW g, IsSum(g, f, S),
         \A x \in S : f[x] = 0
  PROVE  g[S] = 0
<1> DEFINE F == {T \in SUBSET S : g[T] = 0}
<1>1. g[{}] = 0
  BY SumEquations
<1>2. {} \in F
  BY <1>1
<1>3. ASSUME NEW T \in SUBSET S, T # {}, \A x \in T : T \ {x} \in F
      PROVE  T \in F
  <2>1. PICK x : x \in T
    BY <1>3
  <2>2. g[T] = f[x] + g[T \ {x}] /\ g[T \ {x}] = 0 /\ f[x] = 0
    BY <1>3, <2>1, SumSplit
  <2>3. QED
    BY <2>2
<1>4. F = SUBSET S
  <2>1. F \in SUBSET (SUBSET S)
    OBVIOUS
  <2> HIDE DEF F
  <2> QED
    BY <1>2, <1>3, <2>1, SubsetInduction
<1>5. QED
  BY <1>4

-----------------------------------------------------------------------------
(* The sum of a function over a set                                        *)

\* There is one sum, and the sum of a function is it.
LEMMA SumUnique ==
  ASSUME NEW S, IsFiniteSet(S), NEW f, NEW g, IsSum(g, f, S), NEW k, IsSum(k, f, S)
  PROVE  g[S] = k[S]
<1> DEFINE F == {T \in SUBSET S : g[T] = k[T]}
<1>1. /\ g[{}] = 0 /\ \A T \in SUBSET S : T # {} => g[T] = f[Chosen(T)] + g[T \ {Chosen(T)}]
      /\ k[{}] = 0 /\ \A T \in SUBSET S : T # {} => k[T] = f[Chosen(T)] + k[T \ {Chosen(T)}]
  BY SumEquations
<1>2. {} \in F
  BY <1>1
<1>3. ASSUME NEW T \in SUBSET S, T # {}, \A x \in T : T \ {x} \in F
      PROVE  T \in F
  <2>1. Chosen(T) \in T
    BY <1>3 DEF Chosen
  <2>2. g[T \ {Chosen(T)}] = k[T \ {Chosen(T)}]
    BY <1>3, <2>1
  <2>3. QED
    BY <1>1, <1>3, <2>2
<1>4. F = SUBSET S
  <2>1. F \in SUBSET (SUBSET S)
    OBVIOUS
  <2> HIDE DEF F
  <2> QED
    BY <1>2, <1>3, <2>1, SubsetInduction
<1>5. S \in SUBSET S
  OBVIOUS
<1>6. QED
  BY <1>4, <1>5

Total(f, S) == (CHOOSE g : IsSum(g, f, S))[S]

LEMMA TotalIs ==
  ASSUME NEW S, IsFiniteSet(S), NEW f, NEW g, IsSum(g, f, S)
  PROVE  Total(f, S) = g[S]
<1> DEFINE k == CHOOSE h : IsSum(h, f, S)
<1>1. IsSum(k, f, S)
  OBVIOUS
<1>2. Total(f, S) = k[S]
  BY DEF Total
<1> HIDE DEF k
<1>3. QED
  BY <1>1, <1>2, SumUnique

LEMMA TotalType ==
  ASSUME NEW S, IsFiniteSet(S), NEW f \in [S -> Nat]
  PROVE  Total(f, S) \in Nat
<1>1. PICK g : IsSum(g, f, S)
  BY SumExists
<1>2. g[S] \in Nat
  BY <1>1, SumBound
<1>3. QED
  BY <1>1, <1>2, TotalIs

LEMMA TotalZero ==
  ASSUME NEW S, IsFiniteSet(S), NEW f \in [S -> Nat], \A x \in S : f[x] = 0
  PROVE  Total(f, S) = 0
<1>1. PICK g : IsSum(g, f, S)
  BY SumExists
<1>2. f \in [S -> Int]
  <2>1. f = [x \in S |-> f[x]] /\ \A x \in S : f[x] \in Int
    OBVIOUS
  <2>2. QED
    BY <2>1
<1>3. g[S] = 0
  BY <1>1, <1>2, SumZero
<1>4. QED
  BY <1>1, <1>3, TotalIs

LEMMA TotalUpdate ==
  ASSUME NEW S, IsFiniteSet(S), NEW f \in [S -> Nat], NEW h \in [S -> Nat],
         NEW x \in S, \A y \in S \ {x} : h[y] = f[y]
  PROVE  Total(h, S) = Total(f, S) - f[x] + h[x]
<1>1. PICK g : IsSum(g, f, S)
  BY SumExists
<1>2. PICK k : IsSum(k, h, S)
  BY SumExists
<1>3. f \in [S -> Int] /\ h \in [S -> Int]
  <2>1. /\ f = [y \in S |-> f[y]] /\ \A y \in S : f[y] \in Int
        /\ h = [y \in S |-> h[y]] /\ \A y \in S : h[y] \in Int
    OBVIOUS
  <2>2. QED
    BY <2>1
<1>4. k[S] = g[S] - f[x] + h[x]
  BY <1>1, <1>2, <1>3, SumUpdate
<1>5. Total(f, S) = g[S] /\ Total(h, S) = k[S]
  BY <1>1, <1>2, TotalIs
<1>6. QED
  BY <1>4, <1>5

\* h is f, a function of pairs, with 0 in place of the row r of the first element d.
RowTaken(D, K, d, f, h, r) ==
  /\ f \in [D \X K -> Nat] /\ h \in [D \X K -> Nat] /\ r \in [K -> Nat]
  /\ \A c \in K : r[c] = f[<<d, c>>]
  /\ \A w \in D \X K : h[w] = IF w[1] = d THEN 0 ELSE f[w]

\* A sum over pairs, without those of one first element.
LEMMA TotalRow ==
  ASSUME NEW D, NEW K, IsFiniteSet(D), IsFiniteSet(K), NEW d \in D, NEW f, NEW h, NEW r,
         RowTaken(D, K, d, f, h, r)
  PROVE  Total(h, D \X K) = Total(f, D \X K) - Total(r, K)
<1>0. /\ f \in [D \X K -> Nat] /\ h \in [D \X K -> Nat] /\ r \in [K -> Nat]
      /\ \A c \in K : r[c] = f[<<d, c>>]
      /\ \A w \in D \X K : h[w] = IF w[1] = d THEN 0 ELSE f[w]
  BY DEF RowTaken
<1> USE <1>0
<1> DEFINE S == D \X K
           Without(T) == [w \in S |-> IF w[1] = d /\ w[2] \in T THEN 0 ELSE f[w]]
<1>1. IsFiniteSet(S)
  BY FS_Product
<1>2. PICK g : IsSum(g, r, K)
  BY SumExists
<1>3. r \in [K -> Int]
  <2>1. r = [y \in K |-> r[y]] /\ \A y \in K : r[y] \in Int
    OBVIOUS
  <2>2. QED
    BY <2>1
<1>4. \A T \in SUBSET K : g[T] \in Int /\ \A x \in T : g[T] = r[x] + g[T \ {x}]
  BY <1>2, <1>3, SumSplit
<1>5. \A T \in SUBSET K : Without(T) \in [S -> Nat]
  OBVIOUS
<1> DEFINE F == {T \in SUBSET K : Total(Without(T), S) = Total(f, S) - g[T]}
<1>6. {} \in F
  <2>1. g[{}] = 0
    BY <1>2, SumEquations
  <2>2. Without({}) = f
    OBVIOUS
  <2>3. Total(f, S) \in Nat
    BY <1>1, TotalType
  <2> HIDE DEF Without
  <2>4. QED
    BY <2>1, <2>2, <2>3
<1>7. ASSUME NEW T \in SUBSET K, T # {}, \A x \in T : T \ {x} \in F
      PROVE  T \in F
  <2>1. PICK x : x \in T
    BY <1>7
  <2> DEFINE a == Without(T \ {x})
             b == Without(T)
             p == <<d, x>>
  <2>2. p \in S /\ x \in K /\ a \in [S -> Nat] /\ b \in [S -> Nat] /\ T \ {x} \in SUBSET K
    BY <1>5, <2>1
  <2>3. a[p] = r[x] /\ b[p] = 0
    BY <2>1, <2>2
  <2>4. \A y \in S \ {p} : b[y] = a[y]
    <3>1. TAKE y \in S \ {p}
    <3>2. y[1] = d => y[2] # x
      OBVIOUS
    <3>3. QED
      BY <3>2
  <2> HIDE DEF a, b, p, S
  <2>5. Total(b, S) = Total(a, S) - a[p] + b[p]
    BY <1>1, <2>2, <2>4, TotalUpdate
  <2>6. Total(a, S) = Total(f, S) - g[T \ {x}]
    BY <1>7, <2>1 DEF a
  <2>7. g[T] = r[x] + g[T \ {x}] /\ g[T \ {x}] \in Int /\ r[x] \in Nat
    BY <1>4, <2>1, <2>2
  <2>8. Total(f, S) \in Nat
    BY <1>1, TotalType DEF S
  <2>9. Total(b, S) = Total(f, S) - g[T]
    BY <2>3, <2>5, <2>6, <2>7, <2>8
  <2>10. QED
    BY <2>9 DEF b
<1>8. F = SUBSET K
  <2>1. F \in SUBSET (SUBSET K)
    OBVIOUS
  <2> HIDE DEF F
  <2>2. \A T \in SUBSET K : T # {} /\ (\A x \in T : T \ {x} \in F) => T \in F
    BY <1>7
  <2>3. QED
    BY <1>6, <2>1, <2>2, SubsetInduction
<1>9. Total(Without(K), S) = Total(f, S) - g[K]
  <2>1. K \in F
    BY <1>8
  <2>2. QED
    BY <2>1
<1>10. h = Without(K)
  <2>1. \A w \in S : w[2] \in K
    OBVIOUS
  <2>2. \A w \in S : h[w] = Without(K)[w]
    BY <2>1
  <2>3. h = [w \in S |-> h[w]]
    OBVIOUS
  <2>4. QED
    BY <2>2, <2>3
<1>11. Total(r, K) = g[K]
  BY <1>2, TotalIs
<1> HIDE DEF Without, S
<1>12. Total(h, S) = Total(f, S) - Total(r, K)
  BY <1>9, <1>10, <1>11
<1>13. QED
  BY <1>12 DEF S

=============================================================================
