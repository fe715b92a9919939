------------------------------- MODULE NatLemmas -------------------------------
(***************************************************************************)
(* Facts about the natural numbers and their sums that the solvers do not  *)
(* find alone.  SumFunction is defined by recursion over the subsets of a  *)
(* finite set; that such a function exists, and what it adds up to, is     *)
(* proved here by the size of the subset.                                  *)
(***************************************************************************)
EXTENDS Integers, FiniteSetTheorems, WellFoundedInduction, Functions, TLAPS

\* A product of naturals is one.
LEMMA ProductNat ==
    ASSUME NEW a \in Nat, NEW b \in Nat
    PROVE  a * b \in Nat
  OBVIOUS

\* Integer division, as the two inequalities that define it.
LEMMA DivBounds ==
    ASSUME NEW x \in Nat, NEW c \in Nat \ {0}
    PROVE  /\ x \div c \in Nat
           /\ c * (x \div c) <= x
           /\ x < c * (x \div c) + c
  OBVIOUS

\* Multiplication preserves order, in its second factor.
LEMMA ProductMonotone ==
    ASSUME NEW a \in Nat, NEW b \in Nat, NEW c \in Nat, b <= c
    PROVE  a * b <= a * c
  <1>1. PICK d \in Nat : c = b + d
    <2>1. c - b \in Nat /\ c = b + (c - b)
      OBVIOUS
    <2> QED
      BY <2>1
  <1>2. a * c = a * b + a * d
    BY <1>1
  <1>3. a * b \in Nat /\ a * d \in Nat
    BY ProductNat
  <1> QED
    BY <1>2, <1>3

\* The factor of two ordered products cancels.
LEMMA ProductCancels ==
    ASSUME NEW a \in Nat \ {0}, NEW b \in Nat, NEW c \in Nat, a * b <= a * c
    PROVE  b <= c
  <1> SUFFICES ASSUME c < b PROVE FALSE
    OBVIOUS
  <1>1. c + 1 \in Nat /\ c + 1 <= b
    OBVIOUS
  <1>2. a * (c + 1) <= a * b
    BY <1>1, ProductMonotone
  <1>3. a * (c + 1) = a * c + a
    OBVIOUS
  <1>4. a * b \in Nat /\ a * c \in Nat
    BY ProductNat
  <1> QED
    BY <1>2, <1>3, <1>4

\* Integer division preserves order.
LEMMA DivMonotone ==
    ASSUME NEW c \in Nat \ {0}, NEW x \in Nat, NEW y \in Nat, x <= y
    PROVE  x \div c <= y \div c
  <1> DEFINE a == x \div c
             b == y \div c
  <1>1. c \in Nat \ {0}
    OBVIOUS
  <1>2. /\ a \in Nat /\ c * a <= x
        /\ b \in Nat /\ y < c * b + c
    BY <1>1, DivBounds
  <1> HIDE DEF a, b
  <1>3. a <= b
    <2> SUFFICES ASSUME b < a PROVE FALSE
      BY <1>2
    <2>1. c * (b + 1) <= c * a
      BY <1>1, <1>2, ProductMonotone
    <2>2. c * (b + 1) = c * b + c
      BY <1>1, <1>2
    <2>3. c * b \in Nat /\ c * a \in Nat
      BY <1>1, <1>2, ProductNat
    <2> QED
      BY <1>1, <1>2, <2>1, <2>2, <2>3
  <1> QED
    BY <1>3 DEF a, b

\* A nonempty set of naturals has a least element: the intervals 0 .. x are
\* finite sets, which strict inclusion orders well.
LEMMA LeastNat ==
    ASSUME NEW T \in SUBSET Nat, T # {}
    PROVE  \E x \in T : \A y \in T : x <= y
  <1> DEFINE D == {0 .. x : x \in T}
             R == StrictSubsetOrdering(Nat)
             F == FiniteSubsetsOf(Nat)
  <1>1. D \subseteq F /\ D # {}
    <2>1. \A x \in T : 0 .. x \subseteq Nat /\ IsFiniteSet(0 .. x)
      BY FS_Interval
    <2> QED
      BY <2>1 DEF FiniteSubsetsOf
  <1>2. IsWellFoundedOn(R, F)
    BY FS_StrictSubsetOrderingWellFounded
  <1>3. \E s \in D : \A t \in D : ~ (<<t, s>> \in R)
    <2> HIDE DEF R, F, D
    <2> QED
      BY <1>1, <1>2, WFMin
  <1>4. PICK x \in T : \A y \in T : ~ (<<0 .. y, 0 .. x>> \in R)
    BY <1>3
  <1>5. ASSUME NEW y \in T, y < x PROVE FALSE
    <2>1. 0 .. y \subseteq 0 .. x /\ x \in 0 .. x /\ x \notin 0 .. y
      BY <1>5
    <2>2. 0 .. y \in SUBSET Nat /\ 0 .. x \in SUBSET Nat
      OBVIOUS
    <2>3. <<0 .. y, 0 .. x>> \in R
      BY <2>1, <2>2 DEF StrictSubsetOrdering
    <2> QED
      BY <2>3, <1>4
  <1> QED
    BY <1>5

-------------------------------------------------------------------------------
(* Sums. *)

\* The element a sum takes out of a set first.
Some(T) == CHOOSE x \in T : TRUE

\* p gives the sum of f over each subset of S, taken element by element.
PartialSums(p, f, S) ==
    p = [T \in SUBSET S |-> IF T = {} THEN 0 ELSE f[Some(T)] + p[T \ {Some(T)}]]

\* A nonempty subset of a finite set is one element more than the rest of it.
LEMMA RemoveOne ==
    ASSUME NEW S, IsFiniteSet(S), NEW T \in SUBSET S, NEW x \in T
    PROVE  /\ IsFiniteSet(T) /\ Cardinality(T) \in Nat
           /\ Cardinality(T) <= Cardinality(S) /\ Cardinality(S) \in Nat
           /\ T \ {x} \in SUBSET S /\ Cardinality(T \ {x}) \in Nat
           /\ Cardinality(T \ {x}) = Cardinality(T) - 1
  <1>1. IsFiniteSet(T) /\ Cardinality(T) \in Nat /\ Cardinality(T) <= Cardinality(S)
        /\ Cardinality(S) \in Nat
    BY FS_Subset, FS_CardinalityType
  <1>2. IsFiniteSet(T \ {x}) /\ Cardinality(T \ {x}) = Cardinality(T) - 1
    BY <1>1, FS_RemoveElement
  <1> QED
    BY <1>1, <1>2, FS_CardinalityType

\* Induction over the subsets of a finite set, by their size.
LEMMA SmallestSubset ==
    ASSUME NEW S, IsFiniteSet(S), NEW B \in SUBSET (SUBSET S), B # {}
    PROVE  \E T \in B : \A x \in T : T \ {x} \notin B
  <1> DEFINE N == {Cardinality(T) : T \in B}
  <1>1. \A T \in B : Cardinality(T) \in Nat
    BY FS_Subset, FS_CardinalityType
  <1>2. PICK n \in N : \A m \in N : n <= m
    <2>1. N \in SUBSET Nat /\ N # {}
      BY <1>1
    <2> HIDE DEF N
    <2> QED
      BY <2>1, LeastNat
  <1>3. PICK T \in B : Cardinality(T) = n
    BY <1>2
  <1>4. ASSUME NEW x \in T, T \ {x} \in B PROVE FALSE
    <2>1. Cardinality(T) \in Nat /\ Cardinality(T \ {x}) = Cardinality(T) - 1
      BY RemoveOne
    <2>2. Cardinality(T) <= Cardinality(T \ {x})
      BY <1>2, <1>3, <1>4
    <2> QED
      BY <2>1, <2>2
  <1> QED
    BY <1>4

\* There are such sums for a finite S: for sets of one more element at a time.
LEMMA PartialSumsExist ==
    ASSUME NEW S, IsFiniteSet(S), NEW f
    PROVE  \E p : PartialSums(p, f, S)
  <1> DEFINE Rest(p, T) == IF T = {} THEN 0 ELSE f[Some(T)] + p[T \ {Some(T)}]
             Upto(p, n) == /\ p = [T \in SUBSET S |-> p[T]]
                           /\ \A T \in SUBSET S : Cardinality(T) <= n => p[T] = Rest(p, T)
             Bad == {n \in Nat : ~ \E p : Upto(p, n)}
  <1>1. \A T \in SUBSET S : /\ Cardinality(T) \in Nat /\ Cardinality(T) <= Cardinality(S)
                            /\ Cardinality(T) = 0 <=> T = {}
    BY FS_Subset, FS_CardinalityType, FS_EmptySet
  <1>2. \A T \in SUBSET S : T # {} => /\ T \ {Some(T)} \in SUBSET S
                                      /\ Cardinality(T \ {Some(T)}) = Cardinality(T) - 1
    <2> TAKE T \in SUBSET S
    <2> HAVE T # {}
    <2>1. Some(T) \in T
      BY DEF Some
    <2> QED
      BY <2>1, RemoveOne
  <1>3. Bad = {}
    <2> SUFFICES ASSUME Bad # {} PROVE FALSE
      OBVIOUS
    <2>1. PICK n \in Bad : \A m \in Bad : n <= m
      BY LeastNat
    <2>2. n \in Nat /\ \A p : ~ Upto(p, n)
      BY <2>1
    <2>3. CASE n = 0
      <3> DEFINE p == [T \in SUBSET S |-> 0]
      <3>1. p = [T \in SUBSET S |-> p[T]]
        OBVIOUS
      <3>2. ASSUME NEW T \in SUBSET S, Cardinality(T) <= 0 PROVE p[T] = Rest(p, T)
        <4>1. T = {}
          BY <1>1, <3>2
        <4> QED
          BY <4>1
      <3>3. Upto(p, n)
        BY <2>3, <3>1, <3>2
      <3> QED
        BY <2>2, <3>3
    <2>4. CASE n # 0
      <3>1. n - 1 \in Nat /\ n - 1 \notin Bad
        <4>1. n - 1 \in Nat /\ ~ (n <= n - 1)
          BY <2>2, <2>4
        <4> HIDE DEF Bad
        <4> QED
          BY <2>1, <4>1
      <3>2. PICK p : Upto(p, n - 1)
        BY <3>1
      <3> DEFINE q == [T \in SUBSET S |-> IF Cardinality(T) = n THEN Rest(p, T) ELSE p[T]]
      <3>3. q = [T \in SUBSET S |-> q[T]]
        OBVIOUS
      <3>4. ASSUME NEW T \in SUBSET S, Cardinality(T) <= n PROVE q[T] = Rest(q, T)
        <4>1. T # {} => q[T \ {Some(T)}] = p[T \ {Some(T)}]
          <5> HAVE T # {}
          <5> DEFINE U == T \ {Some(T)}
          <5>1. U \in SUBSET S /\ Cardinality(U) # n
            BY <1>1, <1>2, <2>2, <3>4
          <5> HIDE DEF U
          <5>2. q[U] = p[U]
            BY <5>1
          <5> QED
            BY <5>2 DEF U
        <4>2. CASE Cardinality(T) = n
          BY <4>1, <4>2
        <4>3. CASE Cardinality(T) # n
          <5>1. Cardinality(T) <= n - 1
            BY <1>1, <2>2, <3>4, <4>3
          <5>2. p[T] = Rest(p, T)
            BY <3>2, <5>1
          <5> QED
            BY <4>1, <4>3, <5>2
        <4> QED
          BY <4>2, <4>3
      <3> HIDE DEF q
      <3>5. Upto(q, n)
        BY <3>3, <3>4
      <3> QED
        BY <2>2, <3>5
    <2> QED
      BY <2>3, <2>4
  <1>4. PICK p : Upto(p, Cardinality(S))
    <2>1. Cardinality(S) \in Nat
      BY FS_CardinalityType
    <2> QED
      BY <1>3, <2>1
  <1>5. PartialSums(p, f, S)
    <2>1. \A T \in SUBSET S : p[T] = Rest(p, T)
      BY <1>1, <1>4
    <2>2. p = [T \in SUBSET S |-> p[T]]
      BY <1>4
    <2> QED
      BY <2>1, <2>2 DEF PartialSums
  <1> QED
    BY <1>5

\* A sum depends only on the values it adds up.
LEMMA PartialSumsAgree ==
    ASSUME NEW S, IsFiniteSet(S), NEW R, NEW f, NEW g, NEW p, NEW q,
           PartialSums(p, f, S), PartialSums(q, g, R),
           NEW U \in SUBSET S, U \in SUBSET R, \A x \in U : f[x] = g[x]
    PROVE  p[U] = q[U]
  <1> DEFINE B == {T \in SUBSET U : p[T] # q[T]}
  <1> SUFFICES ASSUME B # {} PROVE FALSE
    OBVIOUS
  <1>1. B \in SUBSET (SUBSET S)
    OBVIOUS
  <1>2. PICK T \in B : \A x \in T : T \ {x} \notin B
    BY <1>1, SmallestSubset
  <1>3. T \in SUBSET S /\ T \in SUBSET R /\ T \in SUBSET U /\ p[T] # q[T]
    BY <1>2
  <1>4. T # {}
    BY <1>3 DEF PartialSums
  <1>5. Some(T) \in T
    BY <1>4 DEF Some
  <1>6. p[T \ {Some(T)}] = q[T \ {Some(T)}] /\ f[Some(T)] = g[Some(T)]
    BY <1>2, <1>3, <1>5
  <1>7. /\ p[T] = f[Some(T)] + p[T \ {Some(T)}]
        /\ q[T] = g[Some(T)] + q[T \ {Some(T)}]
    BY <1>3, <1>4 DEF PartialSums
  <1> QED
    BY <1>3, <1>6, <1>7

\* A sum of naturals is one.
LEMMA PartialSumsNat ==
    ASSUME NEW S, IsFiniteSet(S), NEW f, \A x \in S : f[x] \in Nat, NEW p, PartialSums(p, f, S),
           NEW U \in SUBSET S
    PROVE  p[U] \in Nat
  <1> DEFINE B == {T \in SUBSET S : p[T] \notin Nat}
  <1> SUFFICES ASSUME B # {} PROVE FALSE
    OBVIOUS
  <1>1. PICK T \in B : \A x \in T : T \ {x} \notin B
    BY SmallestSubset
  <1>2. T \in SUBSET S /\ p[T] \notin Nat
    BY <1>1
  <1>3. T # {}
    BY <1>2 DEF PartialSums
  <1>4. Some(T) \in T
    BY <1>3 DEF Some
  <1>5. p[T \ {Some(T)}] \in Nat /\ f[Some(T)] \in Nat
    BY <1>1, <1>2, <1>4
  <1>6. p[T] = f[Some(T)] + p[T \ {Some(T)}]
    BY <1>2, <1>3 DEF PartialSums
  <1> QED
    BY <1>2, <1>5, <1>6

\* Any element may be taken first.
LEMMA PartialSumsSplit ==
    ASSUME NEW S, IsFiniteSet(S), NEW f, \A x \in S : f[x] \in Nat, NEW p, PartialSums(p, f, S),
           NEW U \in SUBSET S, NEW u \in U
    PROVE  p[U] = f[u] + p[U \ {u}]
  <1> DEFINE B == {T \in SUBSET S : \E x \in T : p[T] # f[x] + p[T \ {x}]}
  <1> SUFFICES ASSUME B # {} PROVE FALSE
    OBVIOUS
  <1>1. PICK T \in B : \A x \in T : T \ {x} \notin B
    BY SmallestSubset
  <1>2. T \in SUBSET S
    BY <1>1
  <1>3. PICK x \in T : p[T] # f[x] + p[T \ {x}]
    BY <1>1
  <1> DEFINE c == Some(T)
  <1>4. c \in T
    BY <1>3 DEF Some
  <1>5. p[T] = f[c] + p[T \ {c}]
    BY <1>2, <1>3 DEF PartialSums
  <1> HIDE DEF c
  <1>6. c # x
    BY <1>3, <1>5
  <1>7. /\ T \ {c} \in SUBSET S /\ x \in T \ {c}
        /\ T \ {x} \in SUBSET S /\ c \in T \ {x}
        /\ (T \ {c}) \ {x} = (T \ {x}) \ {c} /\ (T \ {c}) \ {x} \in SUBSET S
    BY <1>2, <1>4, <1>6
  <1>8. /\ p[T \ {c}] = f[x] + p[(T \ {c}) \ {x}]
        /\ p[T \ {x}] = f[c] + p[(T \ {x}) \ {c}]
    <2> HIDE DEF B
    <2>1. T \ {c} \notin B /\ T \ {x} \notin B
      BY <1>1, <1>4
    <2> QED
      BY <1>7, <2>1 DEF B
  <1>9. /\ f[x] \in Nat /\ f[c] \in Nat /\ p[(T \ {c}) \ {x}] \in Nat
    BY <1>2, <1>4, <1>7, PartialSumsNat
  <1> DEFINE d == p[(T \ {c}) \ {x}]
  <1>10. p[T \ {c}] = f[x] + d /\ p[T \ {x}] = f[c] + d
    BY <1>7, <1>8
  <1> HIDE DEF d
  <1>11. f[c] + (f[x] + d) = f[x] + (f[c] + d)
    BY <1>9 DEF d
  <1> QED
    BY <1>3, <1>5, <1>10, <1>11

\* The sum of a function over a finite set is one of its partial sums.
LEMMA SumIsPartialSum ==
    ASSUME NEW S, IsFiniteSet(S), NEW f
    PROVE  \E p : PartialSums(p, f, S) /\ SumFunctionOnSet(f, S) = p[S]
  <1> DEFINE it == CHOOSE p : p = [T \in SUBSET S |-> IF T = {} THEN 0
                      ELSE f[CHOOSE x \in T : TRUE] + p[T \ {CHOOSE x \in T : TRUE}]]
  <1>1. SumFunctionOnSet(f, S) = it[S]
    BY DEF SumFunctionOnSet, FoldFunctionOnSet, MapThenFoldSet
  <1>2. it = CHOOSE p : PartialSums(p, f, S)
    BY DEF PartialSums, Some
  <1> HIDE DEF it
  <1>3. PartialSums(it, f, S)
    BY <1>2, PartialSumsExist
  <1> QED
    BY <1>1, <1>3

\* Nothing adds up to 0.
LEMMA SumEmpty == ASSUME NEW f PROVE SumFunctionOnSet(f, {}) = 0
  <1>1. PICK p : PartialSums(p, f, {}) /\ SumFunctionOnSet(f, {}) = p[{}]
    BY FS_EmptySet, SumIsPartialSum
  <1> QED
    BY <1>1 DEF PartialSums

\* One element of a sum taken out of it, and the sum of naturals is one.
LEMMA SumSplit ==
    ASSUME NEW S, IsFiniteSet(S), NEW f, \A x \in S : f[x] \in Nat, NEW u \in S,
           NEW g, \A x \in S \ {u} : g[x] = f[x]
    PROVE  /\ SumFunctionOnSet(f, S) = f[u] + SumFunctionOnSet(g, S \ {u})
           /\ SumFunctionOnSet(g, S \ {u}) \in Nat
  <1> DEFINE R == S \ {u}
  <1>1. IsFiniteSet(R) /\ R \in SUBSET S /\ R \in SUBSET R /\ S \in SUBSET S
    BY FS_RemoveElement
  <1>2. PICK p : PartialSums(p, f, S) /\ SumFunctionOnSet(f, S) = p[S]
    BY SumIsPartialSum
  <1> HIDE DEF R
  <1>3. PICK q : PartialSums(q, g, R) /\ SumFunctionOnSet(g, R) = q[R]
    BY <1>1, SumIsPartialSum
  <1>4. p[S] = f[u] + p[S \ {u}]
    BY <1>1, <1>2, PartialSumsSplit
  <1>5. p[R] = q[R]
    <2>1. \A x \in R : f[x] = g[x]
      BY DEF R
    <2> QED
      BY <1>1, <1>2, <1>3, <2>1, PartialSumsAgree
  <1>6. p[R] \in Nat
    BY <1>1, <1>2, PartialSumsNat
  <1> QED
    BY <1>2, <1>3, <1>4, <1>5, <1>6 DEF R

\* Functions with the same values have the same sum, a natural one.
LEMMA SumSame ==
    ASSUME NEW S, IsFiniteSet(S), NEW f, \A x \in S : f[x] \in Nat,
           NEW g, \A x \in S : g[x] = f[x]
    PROVE  /\ SumFunctionOnSet(g, S) = SumFunctionOnSet(f, S)
           /\ SumFunctionOnSet(f, S) \in Nat
  <1>1. PICK p : PartialSums(p, f, S) /\ SumFunctionOnSet(f, S) = p[S]
    BY SumIsPartialSum
  <1>2. PICK q : PartialSums(q, g, S) /\ SumFunctionOnSet(g, S) = q[S]
    BY SumIsPartialSum
  <1>3. S \in SUBSET S /\ \A x \in S : f[x] = g[x]
    OBVIOUS
  <1>4. p[S] = q[S]
    BY <1>1, <1>2, <1>3, PartialSumsAgree
  <1>5. p[S] \in Nat
    BY <1>1, <1>3, PartialSumsNat
  <1> QED
    BY <1>1, <1>2, <1>4, <1>5

\* A function that is 0 everywhere adds up to 0.
LEMMA SumZero ==
    ASSUME NEW S, IsFiniteSet(S), NEW f, f = [x \in S |-> 0]
    PROVE  SumFunction(f) = 0
  <1>1. PICK p : PartialSums(p, f, S) /\ SumFunctionOnSet(f, S) = p[S]
    BY SumIsPartialSum
  <1> DEFINE B == {T \in SUBSET S : p[T] # 0}
  <1>2. B = {}
    <2> SUFFICES ASSUME B # {} PROVE FALSE
      OBVIOUS
    <2>1. PICK T \in B : \A x \in T : T \ {x} \notin B
      BY SmallestSubset
    <2>2. T \in SUBSET S /\ p[T] # 0
      BY <2>1
    <2>3. T # {}
      BY <1>1, <2>2 DEF PartialSums
    <2>4. Some(T) \in T
      BY <2>3 DEF Some
    <2>5. p[T \ {Some(T)}] = 0 /\ f[Some(T)] = 0
      BY <2>1, <2>2, <2>4
    <2>6. p[T] = f[Some(T)] + p[T \ {Some(T)}]
      BY <1>1, <2>2, <2>3 DEF PartialSums
    <2> QED
      BY <2>2, <2>5, <2>6
  <1> QED
    BY <1>1, <1>2 DEF SumFunction

\* Changing one value changes the sum by as much.
LEMMA SumChange ==
    ASSUME NEW S, IsFiniteSet(S), NEW f \in [S -> Nat], NEW g \in [S -> Nat],
           NEW u \in S, \A x \in S \ {u} : g[x] = f[x]
    PROVE  /\ SumFunction(f) \in Nat /\ SumFunction(g) \in Nat
           /\ SumFunction(f) + g[u] = SumFunction(g) + f[u]
           /\ f[u] <= SumFunction(f)
  <1>1. /\ SumFunctionOnSet(f, S) = f[u] + SumFunctionOnSet(f, S \ {u})
        /\ SumFunctionOnSet(g, S) = g[u] + SumFunctionOnSet(f, S \ {u})
        /\ SumFunctionOnSet(f, S \ {u}) \in Nat
    BY SumSplit
  <1>2. SumFunction(f) = SumFunctionOnSet(f, S) /\ SumFunction(g) = SumFunctionOnSet(g, S)
    BY DEF SumFunction
  <1>3. f[u] \in Nat /\ g[u] \in Nat
    OBVIOUS
  <1> QED
    BY <1>1, <1>2, <1>3

\* One more argument adds its value to the sum of a function.
LEMMA SumExtend ==
    ASSUME NEW f, NEW g, NEW u, IsFiniteSet(DOMAIN f), u \notin DOMAIN f,
           DOMAIN g = DOMAIN f \cup {u}, g[u] \in Nat,
           \A x \in DOMAIN f : f[x] \in Nat /\ g[x] = f[x]
    PROVE  SumFunction(g) = SumFunction(f) + g[u]
  <1> DEFINE S == DOMAIN f
             T == DOMAIN g
  <1>1. IsFiniteSet(T) /\ u \in T /\ S = T \ {u} /\ \A x \in T : g[x] \in Nat
    BY FS_AddElement
  <1>2. /\ SumFunctionOnSet(g, T) = g[u] + SumFunctionOnSet(f, T \ {u})
        /\ SumFunctionOnSet(f, T \ {u}) \in Nat
    <2>1. \A x \in T \ {u} : f[x] = g[x]
      BY <1>1
    <2> HIDE DEF S, T
    <2> QED
      BY <1>1, <2>1, SumSplit
  <1>3. SumFunction(g) = SumFunctionOnSet(g, T) /\ SumFunction(f) = SumFunctionOnSet(f, S)
    BY DEF SumFunction
  <1> DEFINE R == T \ {u}
  <1>4. R = S /\ g[u] \in Nat
    BY <1>1
  <1>5. /\ SumFunctionOnSet(g, T) = g[u] + SumFunctionOnSet(f, R)
        /\ SumFunctionOnSet(f, R) \in Nat
    BY <1>2
  <1> HIDE DEF R, S, T
  <1> QED
    BY <1>3, <1>4, <1>5

\* A sum is linear in the function.
LEMMA SumLinear ==
    ASSUME NEW S, IsFiniteSet(S), NEW k \in Nat,
           NEW f \in [S -> Nat], NEW g \in [S -> Nat], NEW h \in [S -> Nat],
           \A x \in S : h[x] = f[x] + k * g[x]
    PROVE  /\ SumFunction(f) \in Nat /\ SumFunction(g) \in Nat
           /\ SumFunction(h) = SumFunction(f) + k * SumFunction(g)
  <1>1. PICK a : PartialSums(a, f, S) /\ SumFunctionOnSet(f, S) = a[S]
    BY SumIsPartialSum
  <1>2. PICK b : PartialSums(b, g, S) /\ SumFunctionOnSet(g, S) = b[S]
    BY SumIsPartialSum
  <1>3. PICK c : PartialSums(c, h, S) /\ SumFunctionOnSet(h, S) = c[S]
    BY SumIsPartialSum
  <1>4. \A T \in SUBSET S : a[T] \in Nat /\ b[T] \in Nat
    BY <1>1, <1>2, PartialSumsNat
  <1> DEFINE B == {T \in SUBSET S : c[T] # a[T] + k * b[T]}
  <1>5. B = {}
    <2> SUFFICES ASSUME B # {} PROVE FALSE
      OBVIOUS
    <2>1. PICK T \in B : \A x \in T : T \ {x} \notin B
      BY SmallestSubset
    <2>2. T \in SUBSET S /\ c[T] # a[T] + k * b[T]
      BY <2>1
    <2>3. T # {}
      BY <1>1, <1>2, <1>3, <2>2 DEF PartialSums
    <2> DEFINE x == Some(T)
               R == T \ {x}
    <2>4. x \in T /\ R \in SUBSET S /\ R \notin B
      BY <2>1, <2>2, <2>3 DEF Some
    <2>5. a[T] = f[x] + a[R] /\ b[T] = g[x] + b[R] /\ c[T] = h[x] + c[R]
      BY <1>1, <1>2, <1>3, <2>2, <2>3 DEF PartialSums
    <2>6. c[R] = a[R] + k * b[R] /\ a[R] \in Nat /\ b[R] \in Nat
      BY <1>4, <2>4
    <2>7. h[x] = f[x] + k * g[x] /\ f[x] \in Nat /\ g[x] \in Nat
      BY <2>2, <2>4
    <2> HIDE DEF x, R, B
    <2>8. k * (g[x] + b[R]) = k * g[x] + k * b[R]
      BY <2>6, <2>7
    <2>9. k * g[x] \in Nat /\ k * b[R] \in Nat
      BY <2>6, <2>7, ProductNat
    <2>10. h[x] + c[R] = (f[x] + a[R]) + (k * g[x] + k * b[R])
      BY <2>6, <2>7, <2>9
    <2> QED
      BY <2>2, <2>5, <2>8, <2>10
  <1>6. c[S] = a[S] + k * b[S]
    BY <1>5
  <1>7. SumFunction(f) = a[S] /\ SumFunction(g) = b[S] /\ SumFunction(h) = c[S]
    BY <1>1, <1>2, <1>3 DEF SumFunction
  <1> QED
    BY <1>4, <1>6, <1>7

===============================================================================
