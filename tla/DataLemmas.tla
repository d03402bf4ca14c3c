------------------------------ MODULE DataLemmas ------------------------------
(***************************************************************************)
(* Lemmas about the data that the models share.                            *)
(*                                                                         *)
(* Induction and recursion without an operator parameter: a predicate is a *)
(* set, a step of a recursion is a function.  What follows from them about *)
(* sums, parts, remainders, sorted lists and sequences of blocks.  And the *)
(* operations of PrefixTable, for the two models that work on a table.     *)
(***************************************************************************)
EXTENDS PrefixTable, Integers, FiniteSets, FiniteSetTheorems, SequenceTheorems,
        WellFoundedInduction, TLAPS

\* A nonempty set of naturals has a least element.
LEMMA LeastElement ==
    ASSUME NEW T, T \subseteq Nat, T # {}
    PROVE  \E x \in T : \A y \in T : x <= y
<1>1. \E x \in T : \A y \in T : ~(<<y, x>> \in OpToRel(<, Nat))
    BY NatLessThanWellFounded, WFMin, Zenon
<1>2. PICK x \in T : \A y \in T : ~(<<y, x>> \in OpToRel(<, Nat))
    BY <1>1
<1>3. ASSUME NEW y \in T PROVE x <= y
  <2>1. ~(<<y, x>> \in OpToRel(<, Nat))
      BY <1>2
  <2>2. ~(y < x)
      BY <2>1, Zenon DEF OpToRel
  <2>3. QED
      BY <2>2
<1>4. QED
    BY <1>3

\* What holds at 0 and is passed on below n holds up to n.
LEMMA InductionUpTo ==
    ASSUME NEW n \in Nat, NEW P,
           0 \in P, \A k \in 1 .. n : k - 1 \in P => k \in P
    PROVE  \A k \in 0 .. n : k \in P
<1> DEFINE T == {k \in 0 .. n : k \notin P}
<1> SUFFICES ASSUME T # {} PROVE FALSE
    OBVIOUS
<1>0. T \subseteq Nat
    OBVIOUS
<1>1. PICK x \in T : \A y \in T : x <= y
    BY <1>0, LeastElement
<1>2. x \in 1 .. n /\ x \notin P
    OBVIOUS
<1>3. x - 1 \in 0 .. n /\ x - 1 \notin T
    BY <1>1, <1>2
<1>4. x - 1 \in P
    BY <1>3
<1>5. QED
    BY <1>2, <1>4

\* What holds at 0 and is passed on holds of every natural number.
LEMMA InductionOnNat ==
    ASSUME NEW P, 0 \in P, \A k \in Nat : k \in P => k + 1 \in P
    PROVE  \A k \in Nat : k \in P
<1> SUFFICES ASSUME NEW n \in Nat PROVE n \in P
    OBVIOUS
<1>1. \A k \in 1 .. n : k - 1 \in P => k \in P
  <2> SUFFICES ASSUME NEW k \in 1 .. n, k - 1 \in P PROVE k \in P
      OBVIOUS
  <2>1. k - 1 \in Nat /\ (k - 1) + 1 = k
      OBVIOUS
  <2>2. QED
      BY <2>1
<1>2. QED
    BY <1>1, InductionUpTo

\* Min and Max return a bound that is reached.
LEMMA MinFacts ==
    ASSUME NEW T, T \subseteq Nat, T # {}
    PROVE  Min(T) \in T /\ \A y \in T : Min(T) <= y
BY LeastElement DEF Min

\* The same for the largest of finitely many.
LEMMA MaxFacts ==
    ASSUME NEW n \in Nat, NEW T, T \subseteq 0 .. n, T # {}
    PROVE  Max(T) \in T /\ \A y \in T : y <= Max(T)
<1> DEFINE U == {m \in Nat : \A y \in T : y <= m}
<1>1. U \subseteq Nat /\ n \in U
    OBVIOUS
<1>2. PICK u \in U : \A m \in U : u <= m
    BY <1>1, LeastElement
<1>3. u \in T
  <2> SUFFICES ASSUME u \notin T PROVE FALSE
      OBVIOUS
  <2>0. PICK y \in T : TRUE
      OBVIOUS
  <2>1. u > 0
      BY <2>0
  <2>2. u - 1 \in U
      BY <2>1, <1>2
  <2>3. QED
      BY <1>2, <2>2
<1>4. QED
    BY <1>2, <1>3 DEF Max

\* min(a, b).
LEMMA MinOfTwo ==
    ASSUME NEW a \in Nat, NEW b \in Nat
    PROVE  Min({a, b}) = IF a <= b THEN a ELSE b
<1>1. {a, b} \subseteq Nat /\ {a, b} # {}
    OBVIOUS
<1>2. Min({a, b}) \in {a, b} /\ \A y \in {a, b} : Min({a, b}) <= y
    BY <1>1, MinFacts
<1>3. QED
    BY <1>2

\* max(a, b).
LEMMA MaxOfTwo ==
    ASSUME NEW a \in Nat, NEW b \in Nat
    PROVE  Max({a, b}) = IF a <= b THEN b ELSE a
<1>1. {a, b} \subseteq 0 .. (a + b) /\ {a, b} # {} /\ a + b \in Nat
    OBVIOUS
<1>2. Max({a, b}) \in {a, b} /\ \A y \in {a, b} : y <= Max({a, b})
    BY <1>1, MaxFacts
<1>3. QED
    BY <1>2

\* The largest number of an interval, and what is left without it.
LEMMA MaxOfInterval ==
    ASSUME NEW k \in Nat, k # 0
    PROVE  Max(1 .. k) = k /\ (1 .. k) \ {k} = 1 .. (k - 1)
<1>1. 1 .. k \subseteq 0 .. k /\ 1 .. k # {}
    OBVIOUS
<1>2. Max(1 .. k) \in 1 .. k /\ \A y \in 1 .. k : y <= Max(1 .. k)
    BY <1>1, MaxFacts
<1>3. k \in 1 .. k
    OBVIOUS
<1>4. QED
    BY <1>2, <1>3

------------------------------------------------------------------------------
(***************************************************************************)
(* The function a fold over a finite set D is defined by exists: c chooses *)
(* the element that is split off, G[s, x] is the value at s when x is the  *)
(* value without that element.                                             *)
(***************************************************************************)
IsRecursion(D, X, x0, c, G) ==
    /\ IsFiniteSet(D)
    /\ x0 \in X
    /\ \A s \in SUBSET D : s # {} => c[s] \in s
    /\ \A s \in SUBSET D, x \in X : s # {} => G[<<s, x>>] \in X

\* g is the function so defined.
Solves(g, D, x0, c, G) ==
    \A s \in SUBSET D : g[s] = IF s = {} THEN x0 ELSE G[<<s, g[s \ {c[s]}]>>]

\* It exists.
LEMMA SetRecursion ==
    ASSUME NEW D, NEW X, NEW x0, NEW c, NEW G, IsRecursion(D, X, x0, c, G)
    PROVE  \E g \in [SUBSET D -> X] : Solves(g, D, x0, c, G)
<1> DEFINE Value(g, s) == IF s = {} THEN x0 ELSE G[<<s, g[s \ {c[s]}]>>]
           UpTo(k) == \E g \in [SUBSET D -> X] : \A s \in SUBSET D :
                          Cardinality(s) <= k => g[s] = Value(g, s)
           P == {k \in Nat : UpTo(k)}
<1>0. /\ IsFiniteSet(D)
      /\ x0 \in X
      /\ \A s \in SUBSET D : s # {} => c[s] \in s
      /\ \A s \in SUBSET D, x \in X : s # {} => G[<<s, x>>] \in X
    BY DEF IsRecursion
<1>1. \A s \in SUBSET D : IsFiniteSet(s) /\ Cardinality(s) \in Nat
    BY <1>0, FS_Subset, FS_CardinalityType
<1>2. \A s \in SUBSET D : s # {} => /\ s \ {c[s]} \in SUBSET D
                                    /\ Cardinality(s \ {c[s]}) = Cardinality(s) - 1
    BY <1>0, <1>1, FS_RemoveElement
<1>3. 0 \in P
  <2>1. \A s \in SUBSET D : Cardinality(s) <= 0 => s = {}
      BY <1>1, FS_EmptySet
  <2> DEFINE g == [s \in SUBSET D |-> x0]
  <2>2. g \in [SUBSET D -> X] /\ \A s \in SUBSET D : Cardinality(s) <= 0 => g[s] = Value(g, s)
      BY <1>0, <2>1
  <2>3. QED
      BY <2>2
<1>4. ASSUME NEW k \in Nat, k \in P PROVE k + 1 \in P
  <2>1. PICK g \in [SUBSET D -> X] : \A s \in SUBSET D : Cardinality(s) <= k => g[s] = Value(g, s)
      BY <1>4
  <2> DEFINE h == [s \in SUBSET D |-> IF Cardinality(s) <= k THEN g[s] ELSE Value(g, s)]
  <2>2. \A s \in SUBSET D : Value(g, s) \in X
      BY <1>0, <1>2
  <2>3. h \in [SUBSET D -> X]
      BY <2>2
  <2>4. \A s \in SUBSET D : h[s] = Value(g, s)
      BY <2>1
  <2>5. ASSUME NEW s \in SUBSET D, Cardinality(s) <= k + 1 PROVE Value(h, s) = Value(g, s)
    <3>1. CASE s = {}
        BY <3>1
    <3>2. CASE s # {}
      <4>1. s \ {c[s]} \in SUBSET D /\ Cardinality(s \ {c[s]}) <= k
          BY <3>2, <1>1, <1>2, <2>5
      <4>2. h[s \ {c[s]}] = g[s \ {c[s]}]
          BY <4>1
      <4>3. QED
          BY <3>2, <4>2
    <3>3. QED
        BY <3>1, <3>2
  <2>6. \A s \in SUBSET D : Cardinality(s) <= k + 1 => h[s] = Value(h, s)
      BY <2>4, <2>5
  <2>7. UpTo(k + 1)
      BY <2>3, <2>6
  <2>8. QED
      BY <2>7
<1>5. Cardinality(D) \in P
  <2> HIDE DEF P
  <2>1. \A k \in Nat : k \in P => k + 1 \in P
      BY <1>4
  <2>2. \A k \in Nat : k \in P
      BY <1>3, <2>1, InductionOnNat
  <2>3. QED
      BY <2>2, <1>0, <1>1
<1>6. PICK g \in [SUBSET D -> X] : \A s \in SUBSET D : Cardinality(s) <= Cardinality(D) => g[s] = Value(g, s)
    BY <1>5
<1>7. \A s \in SUBSET D : Cardinality(s) <= Cardinality(D)
    BY <1>0, FS_Subset
<1>8. QED
    BY <1>6, <1>7 DEF Solves

\* The same for FoldLeft, which splits off the largest index of 1 .. n; G[k, x]
\* is the value after the k-th element when x is the value before it.
IsLeftFold(n, X, x0, G) ==
    /\ n \in Nat
    /\ x0 \in X
    /\ \A k \in 1 .. n, x \in X : G[<<k, x>>] \in X

\* g is the function so defined.
SolvesLeft(g, n, x0, G) ==
    \A i \in SUBSET (1 .. n) : g[i] = IF i = {} THEN x0 ELSE G[<<Max(i), g[i \ {Max(i)}]>>]

\* It exists.
LEMMA FoldLeftRecursion ==
    ASSUME NEW n, NEW X, NEW x0, NEW G, IsLeftFold(n, X, x0, G)
    PROVE  \E g \in [SUBSET (1 .. n) -> X] : SolvesLeft(g, n, x0, G)
<1> DEFINE D == 1 .. n
           c == [i \in SUBSET D |-> Max(i)]
           H == [p \in (SUBSET D) \X X |-> G[<<Max(p[1]), p[2]>>]]
<1>1. n \in Nat /\ x0 \in X /\ \A k \in D, x \in X : G[<<k, x>>] \in X
    BY DEF IsLeftFold
<1>2. \A i \in SUBSET D : i # {} => Max(i) \in i
  <2>1. D \subseteq 0 .. n
      OBVIOUS
  <2>2. QED
      BY <2>1, <1>1, MaxFacts
<1>3. \A i \in SUBSET D : c[i] = Max(i)
    OBVIOUS
<1>4. \A i \in SUBSET D, x \in X : H[<<i, x>>] = G[<<Max(i), x>>]
    OBVIOUS
<1> HIDE DEF c, H
<1>5. IsRecursion(D, X, x0, c, H)
  <2>1. IsFiniteSet(D)
      BY <1>1, FS_Interval
  <2>2. \A i \in SUBSET D : i # {} => c[i] \in i
      BY <1>2, <1>3
  <2>3. \A i \in SUBSET D, x \in X : i # {} => H[<<i, x>>] \in X
      BY <1>1, <1>2, <1>4
  <2>4. QED
      BY <1>1, <2>1, <2>2, <2>3 DEF IsRecursion
<1>6. PICK g \in [SUBSET D -> X] : Solves(g, D, x0, c, H)
    BY <1>5, SetRecursion
<1>7. ASSUME NEW i \in SUBSET D, i # {}
      PROVE  g[i] = G[<<Max(i), g[i \ {Max(i)}]>>]
  <2>1. i \ {Max(i)} \in SUBSET D /\ g[i \ {Max(i)}] \in X
      OBVIOUS
  <2>2. g[i] = H[<<i, g[i \ {Max(i)}]>>]
      BY <1>3, <1>6, <1>7 DEF Solves
  <2>3. QED
      BY <2>1, <2>2, <1>4
<1>8. g[{}] = x0
    BY <1>6 DEF Solves
<1>9. QED
    BY <1>7, <1>8 DEF SolvesLeft

\* The steps of such a fold: run[k] is its value after k elements.
IsRun(run, n, x0, G) ==
    /\ run[0] = x0
    /\ \A k \in 1 .. n : run[k] = G[<<k, run[k - 1]>>]

\* The indices a fold splits off come in order.
LEMMA FoldLeftStep ==
    ASSUME NEW n \in Nat, NEW k \in 1 .. n
    PROVE  /\ 1 .. k \in SUBSET (1 .. n)
           /\ 1 .. k # {}
           /\ Max(1 .. k) = k
           /\ (1 .. k) \ {k} = 1 .. (k - 1)
BY MaxOfInterval

\* What such a fold computes is the end of its run.
LEMMA FoldLeftRun ==
    ASSUME NEW n, NEW X, NEW x0, NEW G, IsLeftFold(n, X, x0, G), NEW fold,
           fold[{}] = x0,
           \A k \in 1 .. n : fold[1 .. (k - 1)] \in X =>
                fold[1 .. k] = G[<<k, fold[1 .. (k - 1)]>>]
    PROVE  \E run \in [0 .. n -> X] : IsRun(run, n, x0, G) /\ run[n] = fold[1 .. n]
<1> DEFINE run == [k \in 0 .. n |-> fold[1 .. k]]
           P == {k \in 0 .. n : run[k] \in X}
<1>1. n \in Nat /\ x0 \in X /\ \A k \in 1 .. n, x \in X : G[<<k, x>>] \in X
    BY DEF IsLeftFold
<1>2. run[0] = x0
  <2>1. 1 .. 0 = {} /\ 0 \in 0 .. n
      BY <1>1
  <2>2. QED
      BY <2>1
<1>3. \A k \in 1 .. n : k - 1 \in P => run[k] = G[<<k, run[k - 1]>>]
    BY <1>1
<1>4. 0 \in P
    BY <1>1, <1>2
<1>5. \A k \in 1 .. n : k - 1 \in P => k \in P
  <2> SUFFICES ASSUME NEW k \in 1 .. n, k - 1 \in P PROVE k \in P
      OBVIOUS
  <2>1. run[k] = G[<<k, run[k - 1]>>] /\ run[k - 1] \in X
      BY <1>3
  <2> HIDE DEF run
  <2>2. QED
      BY <2>1, <1>1
<1> HIDE DEF P
<1>6. \A k \in 0 .. n : k \in P
    BY <1>1, <1>4, <1>5, InductionUpTo
<1>7. run \in [0 .. n -> X]
    BY <1>6 DEF P
<1>8. IsRun(run, n, x0, G)
  <2>1. \A k \in 1 .. n : k - 1 \in 0 .. n
      BY <1>1
  <2> HIDE DEF run
  <2>2. QED
      BY <2>1, <1>2, <1>3, <1>6 DEF IsRun
<1>9. run[n] = fold[1 .. n]
    BY <1>1
<1>10. QED
    BY <1>7, <1>8, <1>9

(***************************************************************************)
(* The recursion of a sum over a finite set has a solution, which does not *)
(* depend on the element that is split off.                                *)
(***************************************************************************)
IsSum(g, D, f) ==
    \A s \in SUBSET D : g[s] = IF s = {} THEN 0
                               ELSE f[CHOOSE x \in s : TRUE] + g[s \ {CHOOSE x \in s : TRUE}]

\* The sum exists.
LEMMA SumExists ==
    ASSUME NEW D, IsFiniteSet(D), NEW f \in [D -> Nat]
    PROVE  \E g \in [SUBSET D -> Nat] : IsSum(g, D, f)
<1> DEFINE c == [s \in SUBSET D |-> CHOOSE x \in s : TRUE]
           G == [p \in (SUBSET D) \X Nat |-> f[c[p[1]]] + p[2]]
<1>1. \A s \in SUBSET D : s # {} => c[s] \in s
  OBVIOUS
<1>2. \A s \in SUBSET D, x \in Nat : G[<<s, x>>] = f[c[s]] + x
  OBVIOUS
<1>3. \A s \in SUBSET D : c[s] = CHOOSE x \in s : TRUE
  OBVIOUS
<1> HIDE DEF c, G
<1>4. \A s \in SUBSET D, x \in Nat : s # {} => G[<<s, x>>] \in Nat
  BY <1>1, <1>2
<1>5. IsRecursion(D, Nat, 0, c, G)
  BY <1>1, <1>4 DEF IsRecursion
<1>6. PICK g \in [SUBSET D -> Nat] : Solves(g, D, 0, c, G)
  BY <1>5, SetRecursion
<1>7. ASSUME NEW s \in SUBSET D, s # {}
      PROVE  g[s] = f[CHOOSE x \in s : TRUE] + g[s \ {CHOOSE x \in s : TRUE}]
  <2>1. s \ {c[s]} \in SUBSET D /\ g[s \ {c[s]}] \in Nat
    OBVIOUS
  <2>2. g[s] = G[<<s, g[s \ {c[s]}]>>]
    BY <1>6, <1>7 DEF Solves
  <2>3. g[s] = f[c[s]] + g[s \ {c[s]}]
    BY <1>2, <2>1, <2>2
  <2>. QED  BY <1>3, <2>3
<1>8. g[{}] = 0
  BY <1>6 DEF Solves
<1>. QED  BY <1>7, <1>8 DEF IsSum

\* Two sums of the same numbers are equal.
LEMMA SumIsUnique ==
    ASSUME NEW D, IsFiniteSet(D), NEW f, NEW g, IsSum(g, D, f), NEW h, IsSum(h, D, f)
    PROVE  \A s \in SUBSET D : h[s] = g[s]
<1> DEFINE P == {k \in Nat : \A s \in SUBSET D : Cardinality(s) <= k => h[s] = g[s]}
<1>1. \A s \in SUBSET D : IsFiniteSet(s) /\ Cardinality(s) \in Nat
  BY FS_Subset, FS_CardinalityType
<1>2. 0 \in P
  <2>1. \A s \in SUBSET D : Cardinality(s) <= 0 => s = {}
    BY <1>1, FS_EmptySet
  <2>. QED  BY <2>1 DEF IsSum
<1>3. ASSUME NEW k \in Nat, k \in P PROVE k + 1 \in P
  <2>1. ASSUME NEW s \in SUBSET D, Cardinality(s) <= k + 1, s # {} PROVE h[s] = g[s]
    <3>. DEFINE y == CHOOSE x \in s : TRUE
    <3>1. y \in s /\ h[s] = f[y] + h[s \ {y}] /\ g[s] = f[y] + g[s \ {y}]
      BY <2>1 DEF IsSum
    <3>. HIDE DEF y
    <3>2. s \ {y} \in SUBSET D /\ Cardinality(s \ {y}) <= k
      BY <1>1, <2>1, <3>1, FS_RemoveElement
    <3>. QED  BY <1>3, <3>1, <3>2
  <2>2. h[{}] = g[{}]
    BY DEF IsSum
  <2>3. \A s \in SUBSET D : Cardinality(s) <= k + 1 => h[s] = g[s]
    BY <2>1, <2>2
  <2>. QED  BY <2>3
<1> HIDE DEF P
<1>4. \A k \in Nat : k \in P
  BY <1>2, <1>3, InductionOnNat
<1>. QED  BY <1>1, <1>4 DEF P

\* Any element may be split off first.
LEMMA SumAnyOrder ==
    ASSUME NEW D, IsFiniteSet(D), NEW f \in [D -> Nat], NEW g \in [SUBSET D -> Nat], IsSum(g, D, f)
    PROVE  /\ g[{}] = 0
           /\ \A s \in SUBSET D : \A x \in s : g[s] = f[x] + g[s \ {x}]
<1> DEFINE P == {n \in Nat : \A s \in SUBSET D : Cardinality(s) <= n => \A x \in s : g[s] = f[x] + g[s \ {x}]}
<1>1. \A s \in SUBSET D : IsFiniteSet(s) /\ Cardinality(s) \in Nat
  BY FS_Subset, FS_CardinalityType
<1>2. \A s \in SUBSET D : \A x \in s : Cardinality(s \ {x}) = Cardinality(s) - 1
  BY <1>1, FS_RemoveElement
<1>3. 0 \in P
  <2>1. \A s \in SUBSET D : Cardinality(s) <= 0 => s = {}
    BY <1>1, FS_EmptySet
  <2>. QED  BY <2>1
<1>4. ASSUME NEW n \in Nat, n \in P PROVE n + 1 \in P
  <2>. SUFFICES ASSUME NEW s \in SUBSET D, Cardinality(s) <= n + 1, NEW x \in s
                PROVE  g[s] = f[x] + g[s \ {x}]
    OBVIOUS
  <2>. DEFINE y == CHOOSE z \in s : TRUE
  <2>1. y \in s /\ g[s] = f[y] + g[s \ {y}]
    BY DEF IsSum
  <2>. HIDE DEF y
  <2>2. CASE x = y
    BY <2>1, <2>2
  <2>3. CASE x # y
    <3>1. /\ s \ {y} \in SUBSET D /\ x \in s \ {y} /\ s \ {x} \in SUBSET D /\ y \in s \ {x}
          /\ Cardinality(s \ {y}) <= n /\ Cardinality(s \ {x}) <= n
      BY <1>1, <1>2, <2>1, <2>3
    <3>2. g[s \ {y}] = f[x] + g[(s \ {y}) \ {x}] /\ g[s \ {x}] = f[y] + g[(s \ {x}) \ {y}]
      BY <1>4, <3>1
    <3>3. (s \ {y}) \ {x} = (s \ {x}) \ {y}
      OBVIOUS
    <3>. DEFINE w == g[(s \ {x}) \ {y}]
    <3>4. w \in Nat /\ f[x] \in Nat /\ f[y] \in Nat
      BY <3>1
    <3>5. g[s] = f[y] + (f[x] + w) /\ g[s \ {x}] = f[y] + w
      BY <2>1, <3>2, <3>3, Zenon
    <3>. HIDE DEF w
    <3>. QED  BY <3>4, <3>5
  <2>. QED  BY <2>2, <2>3
<1> HIDE DEF P
<1>5. \A n \in Nat : n \in P
  BY <1>3, <1>4, InductionOnNat
<1>6. g[{}] = 0
  BY DEF IsSum
<1>7. ASSUME NEW s \in SUBSET D, NEW x \in s PROVE g[s] = f[x] + g[s \ {x}]
  <2>1. Cardinality(s) \in P /\ Cardinality(s) <= Cardinality(s)
    BY <1>1, <1>5
  <2>. QED  BY <2>1 DEF P
<1>. QED  BY <1>6, <1>7

\* The sum of a constant.
LEMMA ConstantSum ==
    ASSUME NEW D, IsFiniteSet(D), NEW c \in Nat, NEW g \in [SUBSET D -> Nat],
           IsSum(g, D, [x \in D |-> c])
    PROVE  g[D] = c * Cardinality(D)
<1> DEFINE f == [x \in D |-> c]
           P == {k \in Nat : \A s \in SUBSET D : Cardinality(s) = k => g[s] = c * k}
<1>0. f \in [D -> Nat] /\ IsSum(g, D, f) /\ \A x \in D : f[x] = c
  OBVIOUS
<1> HIDE DEF f
<1>1. \A s \in SUBSET D : IsFiniteSet(s) /\ Cardinality(s) \in Nat
  BY FS_Subset, FS_CardinalityType
<1>2. g[{}] = 0 /\ \A s \in SUBSET D : \A x \in s : g[s] = f[x] + g[s \ {x}]
  BY <1>0, SumAnyOrder
<1>3. 0 \in P
  <2>1. \A s \in SUBSET D : Cardinality(s) = 0 => s = {}
    BY <1>1, FS_EmptySet
  <2>2. c * 0 = 0
    OBVIOUS
  <2>3. \A s \in SUBSET D : Cardinality(s) = 0 => g[s] = c * 0
    BY <1>2, <2>1, <2>2
  <2>. QED  BY <2>3
<1>4. ASSUME NEW k \in Nat, k \in P PROVE k + 1 \in P
  <2>1. ASSUME NEW s \in SUBSET D, Cardinality(s) = k + 1 PROVE g[s] = c * (k + 1)
    <3>1. PICK x \in s : TRUE
      BY <2>1, FS_EmptySet
    <3>2. s \ {x} \in SUBSET D /\ Cardinality(s \ {x}) = k
      BY <1>1, <2>1, <3>1, FS_RemoveElement
    <3>3. g[s \ {x}] = c * k
      BY <1>4, <3>2
    <3>4. g[s] = c + c * k
      BY <1>0, <1>2, <3>1, <3>3
    <3>. QED  BY <3>4
  <2>. QED  BY <2>1
<1> HIDE DEF P
<1>5. \A k \in Nat : k \in P
  BY <1>3, <1>4, InductionOnNat
<1>. QED  BY <1>1, <1>5 DEF P

\* The partial sums of natural numbers grow.
LEMMA RunGrows ==
    ASSUME NEW n \in Nat, NEW u \in [0 .. n -> Nat], NEW w \in [1 .. n -> Nat],
           \A k \in 1 .. n : u[k] = u[k - 1] + w[k]
    PROVE  \A k \in 0 .. n : \A j \in 0 .. k : u[j] <= u[k]
<1> DEFINE P == {k \in 0 .. n : \A j \in 0 .. k : u[j] <= u[k]}
<1>1. 0 \in P
  OBVIOUS
<1>2. ASSUME NEW k \in 1 .. n, k - 1 \in P PROVE k \in P
  <2>1. u[k - 1] \in Nat /\ w[k] \in Nat /\ u[k] = u[k - 1] + w[k] /\ k \in 0 .. n
    OBVIOUS
  <2>2. ASSUME NEW j \in 0 .. k PROVE u[j] <= u[k]
    <3>1. CASE j = k
      BY <2>1, <3>1
    <3>2. CASE j # k
      <4>1. j \in 0 .. k - 1 /\ j \in 0 .. n
        BY <3>2
      <4>2. u[j] <= u[k - 1] /\ u[j] \in Nat
        BY <1>2, <4>1
      <4>. QED  BY <2>1, <4>2
    <3>. QED  BY <3>1, <3>2
  <2>. QED  BY <2>1, <2>2
<1> HIDE DEF P
<1>3. \A k \in 0 .. n : k \in P
  BY <1>1, <1>2, InductionUpTo
<1>. QED  BY <1>3 DEF P

\* A product grows with its factor.
LEMMA TimesIsMonotone ==
    ASSUME NEW a \in Nat, NEW x \in Nat, NEW y \in Nat, x <= y
    PROVE  a * x \in Nat /\ a * y \in Nat /\ a * x <= a * y
<1>1. y - x \in Nat /\ y = x + (y - x)
  OBVIOUS
<1>2. a * y = a * x + a * (y - x)
  BY <1>1
<1>3. a * x \in Nat /\ a * y \in Nat /\ a * (y - x) \in Nat
  BY <1>1
<1>. QED  BY <1>2, <1>3

\* f divides R into parts, w says how large they are.
HasParts(w, D, R, f) == \A x \in D : w[x] = Cardinality({r \in R : f[r] = x})

\* The parts of a finite set add up to it.
LEMMA PartitionSum ==
    ASSUME NEW D, IsFiniteSet(D), NEW R, IsFiniteSet(R), NEW f \in [R -> D],
           NEW w \in [D -> Nat], HasParts(w, D, R, f),
           NEW g \in [SUBSET D -> Nat], IsSum(g, D, w)
    PROVE  g[D] = Cardinality(R)
<1> DEFINE part(s) == {r \in R : f[r] \in s}
           P == {k \in Nat : \A s \in SUBSET D : Cardinality(s) = k => g[s] = Cardinality(part(s))}
<1>0. \A s : IsFiniteSet(part(s)) /\ Cardinality(part(s)) \in Nat
  <2>1. \A s : part(s) \subseteq R
    OBVIOUS
  <2>. QED  BY <2>1, FS_Subset, FS_CardinalityType
<1>1. \A x \in D : w[x] = Cardinality(part({x}))
  <2>1. \A x \in D : part({x}) = {r \in R : f[r] = x}
    OBVIOUS
  <2>. QED  BY <2>1 DEF HasParts
<1>2. \A s \in SUBSET D : IsFiniteSet(s) /\ Cardinality(s) \in Nat
  BY FS_Subset, FS_CardinalityType
<1>3. g[{}] = 0 /\ \A s \in SUBSET D : \A x \in s : g[s] = w[x] + g[s \ {x}]
  BY SumAnyOrder
<1>4. 0 \in P
  <2>1. \A s \in SUBSET D : Cardinality(s) = 0 => s = {}
    BY <1>2, FS_EmptySet
  <2>2. part({}) = {}
    OBVIOUS
  <2>3. Cardinality(part({})) = 0
    BY <2>2, FS_EmptySet
  <2>. HIDE DEF part
  <2>. QED  BY <1>3, <2>1, <2>3
<1>5. ASSUME NEW k \in Nat, k \in P PROVE k + 1 \in P
  <2>0. \A s : \A x \in s : part(s) = part({x}) \union part(s \ {x}) /\ part({x}) \cap part(s \ {x}) = {}
    OBVIOUS
  <2>. HIDE DEF part
  <2>1. ASSUME NEW s \in SUBSET D, Cardinality(s) = k + 1 PROVE g[s] = Cardinality(part(s))
    <3>0. s # {}
      BY <1>2, <2>1, FS_EmptySet
    <3>1. PICK x \in s : TRUE
      BY <3>0
    <3>2. s \ {x} \in SUBSET D /\ Cardinality(s \ {x}) = k
      <4>1. IsFiniteSet(s)
        BY <1>2
      <4>2. Cardinality(s \ {x}) = Cardinality(s) - 1
        BY <3>1, <4>1, FS_RemoveElement
      <4>. QED  BY <2>1, <4>2
    <3>3. g[s \ {x}] = Cardinality(part(s \ {x}))
      BY <1>5, <3>2
    <3>4. part(s) = part({x}) \union part(s \ {x}) /\ part({x}) \cap part(s \ {x}) = {}
      BY <2>0, <3>1
    <3>5. Cardinality(part({x}) \cap part(s \ {x})) = 0
      BY <3>4, FS_EmptySet
    <3>6. Cardinality(part(s)) = Cardinality(part({x})) + Cardinality(part(s \ {x})) - 0
      BY <1>0, <3>4, <3>5, FS_Union
    <3>7. g[s] = Cardinality(part({x})) + Cardinality(part(s \ {x}))
      BY <1>1, <1>3, <3>1, <3>3
    <3>8. Cardinality(part({x})) \in Nat /\ Cardinality(part(s \ {x})) \in Nat
      BY <1>0
    <3>. DEFINE a == Cardinality(part({x}))
                b == Cardinality(part(s \ {x}))
                c == Cardinality(part(s))
                d == g[s]
    <3>9. a \in Nat /\ b \in Nat /\ c = a + b - 0 /\ d = a + b
      BY <3>6, <3>7, <3>8
    <3>. HIDE DEF a, b, c, d
    <3>10. d = c
      BY <3>9
    <3>. QED  BY <3>10 DEF c, d
  <2>. QED  BY <2>1
<1>6. part(D) = R
  OBVIOUS
<1> HIDE DEF P
<1>7. \A k \in Nat : k \in P
  BY <1>4, <1>5, InductionOnNat
<1>8. Cardinality(D) \in P
  BY <1>2, <1>7
<1>. HIDE DEF part
<1>. QED  BY <1>6, <1>8 DEF P

\* What a finite set is mapped onto is finite.
LEMMA FiniteImage ==
    ASSUME NEW S, IsFiniteSet(S), NEW T, NEW f \in [S -> T], \A y \in T : \E x \in S : f[x] = y
    PROVE  IsFiniteSet(T)
<1>1. f \in Surjection(S, T)
  BY DEF Surjection
<1>. QED  BY <1>1, FS_Surjection

(***************************************************************************)
(* A table made group by group: row names the row a run counts in, key     *)
(* what the group has in common and w how many runs are in it.             *)
(***************************************************************************)
Tabulates(df, key, D, row, w) ==
    /\ row \in [df -> D]
    /\ \A d \in D : \E r \in df : row[r] = d
    /\ \A r, q \in df : row[r] = row[q] <=> key[r] = key[q]
    /\ w = [d \in D |-> w[d]]
    /\ \A r \in df : w[row[r]] = Cardinality({q \in df : key[q] = key[r]})

\* The rows of such a table count every row of the frame once.
LEMMA GroupsAddUp ==
    ASSUME NEW df, IsFiniteSet(df), NEW key, NEW D, NEW row, NEW w, Tabulates(df, key, D, row, w)
    PROVE  IsFiniteSet(D) /\ w \in [D -> Nat] /\ (\A d \in D : w[d] > 0) /\ HasParts(w, D, df, row)
<1>0. row \in [df -> D] /\ \A d \in D : \E r \in df : row[r] = d
  BY DEF Tabulates
<1>1. IsFiniteSet(D)
  BY <1>0, FiniteImage
<1>2. ASSUME NEW r \in df
      PROVE  /\ w[row[r]] \in Nat /\ w[row[r]] > 0
             /\ w[row[r]] = Cardinality({q \in df : row[q] = row[r]})
  <2>. DEFINE G == {q \in df : key[q] = key[r]}
  <2>1. G \subseteq df /\ r \in G /\ G = {q \in df : row[q] = row[r]} /\ w[row[r]] = Cardinality(G)
    BY DEF Tabulates
  <2>. HIDE DEF G
  <2>2. IsFiniteSet(G)
    BY <2>1, FS_Subset
  <2>3. Cardinality(G) \in Nat /\ Cardinality(G) # 0
    BY <2>1, <2>2, FS_CardinalityType, FS_EmptySet
  <2>. QED  BY <2>1, <2>3
<1>3. \A d \in D : w[d] \in Nat /\ w[d] > 0
  BY <1>0, <1>2
<1>4. w \in [D -> Nat]
  BY <1>3 DEF Tabulates
<1>5. HasParts(w, D, df, row)
  <2>1. ASSUME NEW d \in D PROVE w[d] = Cardinality({q \in df : row[q] = d})
    <3>1. PICK r \in df : row[r] = d
      BY <1>0
    <3>. QED  BY <1>2, <3>1
  <2>. QED  BY <2>1 DEF HasParts
<1>. QED  BY <1>1, <1>3, <1>4, <1>5

(***************************************************************************)
(* Finite sets can be sorted by a total preorder, given as a set of pairs. *)
(***************************************************************************)
IsPreorder(R, T) ==
    /\ \A x, y \in T : <<x, y>> \in R \/ <<y, x>> \in R
    /\ \A x, y, z \in T : <<x, y>> \in R /\ <<y, z>> \in R => <<x, z>> \in R

\* A nonempty one has an element that nothing comes after.
LEMMA LastExists ==
    ASSUME NEW T, IsFiniteSet(T), T # {}, NEW R, IsPreorder(R, T)
    PROVE  \E m \in T : \A x \in T : <<x, m>> \in R
<1> DEFINE HasLast(s) == \E m \in s : \A x \in s : <<x, m>> \in R
           P == {k \in Nat : \A s \in SUBSET T : s # {} /\ Cardinality(s) <= k => HasLast(s)}
<1>0. /\ \A x, y \in T : <<x, y>> \in R \/ <<y, x>> \in R
      /\ \A x, y, z \in T : <<x, y>> \in R /\ <<y, z>> \in R => <<x, z>> \in R
  BY DEF IsPreorder
<1>1. \A s \in SUBSET T : IsFiniteSet(s) /\ Cardinality(s) \in Nat
  BY FS_Subset, FS_CardinalityType
<1>2. 0 \in P
  <2>1. \A s \in SUBSET T : Cardinality(s) <= 0 => s = {}
    BY <1>1, FS_EmptySet
  <2>. QED  BY <2>1
<1>3. ASSUME NEW k \in Nat, k \in P PROVE k + 1 \in P
  <2>1. ASSUME NEW s \in SUBSET T, s # {}, Cardinality(s) <= k + 1 PROVE HasLast(s)
    <3>1. PICK x \in s : TRUE
      BY <2>1
    <3>2. s \ {x} \in SUBSET T /\ Cardinality(s \ {x}) <= k
      <4>1. IsFiniteSet(s) /\ Cardinality(s) \in Nat
        BY <1>1
      <4>2. Cardinality(s \ {x}) = Cardinality(s) - 1
        BY <3>1, <4>1, FS_RemoveElement
      <4>. QED  BY <2>1, <4>1, <4>2
    <3>3. CASE s \ {x} = {}
      <4>1. \A y \in s : y = x
        BY <3>3
      <4>. QED  BY <1>0, <3>1, <4>1
    <3>4. CASE s \ {x} # {}
      <4>1. PICK m \in s \ {x} : \A y \in s \ {x} : <<y, m>> \in R
        BY <1>3, <3>2, <3>4
      <4>2. CASE <<x, m>> \in R
        BY <4>1, <4>2
      <4>3. CASE <<m, x>> \in R
        <5>1. \A y \in s \ {x} : <<y, x>> \in R
          BY <1>0, <3>1, <4>1, <4>3
        <5>2. <<x, x>> \in R
          BY <1>0, <3>1
        <5>. QED  BY <3>1, <5>1, <5>2
      <4>. QED  BY <1>0, <3>1, <4>1, <4>2, <4>3
    <3>. QED  BY <3>3, <3>4
  <2>. HIDE DEF HasLast
  <2>. QED  BY <2>1
<1> HIDE DEF P, HasLast
<1>4. \A k \in Nat : k \in P
  BY <1>2, <1>3, InductionOnNat
<1>5. T \in SUBSET T /\ Cardinality(T) \in P /\ Cardinality(T) <= Cardinality(T)
  BY <1>1, <1>4
<1>6. HasLast(T)
  BY <1>5 DEF P
<1>. QED  BY <1>6 DEF HasLast

\* s lists the elements of T in that order, each once.
Sorts(s, T, R) ==
    /\ s \in [1 .. Cardinality(T) -> T]
    /\ \A i, j \in 1 .. Cardinality(T) : i # j => s[i] # s[j]
    /\ \A j \in 1 .. Cardinality(T) : \A i \in 1 .. j : <<s[i], s[j]>> \in R

\* A finite set can be sorted by a total preorder.
LEMMA SortedExists ==
    ASSUME NEW T, IsFiniteSet(T), NEW R, IsPreorder(R, T)
    PROVE  \E s : Sorts(s, T, R)
<1> DEFINE P == {k \in Nat : \A S \in SUBSET T : Cardinality(S) = k => \E s : Sorts(s, S, R)}
<1>1. \A S \in SUBSET T : IsFiniteSet(S) /\ Cardinality(S) \in Nat
  BY FS_Subset, FS_CardinalityType
<1>2. 0 \in P
  <2>1. ASSUME NEW S \in SUBSET T, Cardinality(S) = 0 PROVE \E s : Sorts(s, S, R)
    <3>1. S = {} /\ 1 .. Cardinality(S) = {}
      BY <1>1, <2>1, FS_EmptySet
    <3>. DEFINE s == [i \in {} |-> i]
    <3>2. s \in [1 .. Cardinality(S) -> S]
      BY <3>1
    <3>3. Sorts(s, S, R)
      BY <3>1, <3>2 DEF Sorts
    <3>. QED  BY <3>3
  <2>. QED  BY <2>1
<1>3. ASSUME NEW k \in Nat, k \in P PROVE k + 1 \in P
  <2>1. ASSUME NEW S \in SUBSET T, Cardinality(S) = k + 1 PROVE \E s : Sorts(s, S, R)
    <3>1. S # {} /\ IsFiniteSet(S)
      BY <1>1, <2>1, FS_EmptySet
    <3>2. IsPreorder(R, S)
      BY DEF IsPreorder
    <3>3. PICK m \in S : \A x \in S : <<x, m>> \in R
      BY <3>1, <3>2, LastExists
    <3>. DEFINE U == S \ {m}
    <3>4. U \in SUBSET T /\ Cardinality(U) = k
      <4>1. Cardinality(U) = Cardinality(S) - 1
        BY <3>1, FS_RemoveElement
      <4>. QED  BY <2>1, <4>1
    <3>5. PICK u : Sorts(u, U, R)
      BY <1>3, <3>4
    <3>. DEFINE s == [i \in 1 .. k + 1 |-> IF i = k + 1 THEN m ELSE u[i]]
    <3>6. /\ \A i \in 1 .. k : u[i] \in U
          /\ \A i, j \in 1 .. k : i # j => u[i] # u[j]
          /\ \A j \in 1 .. k : \A i \in 1 .. j : <<u[i], u[j]>> \in R
      BY <3>4, <3>5 DEF Sorts
    <3>7. /\ s[k + 1] = m
          /\ \A i \in 1 .. k : s[i] = u[i]
          /\ \A i \in 1 .. k + 1 : i = k + 1 \/ i \in 1 .. k
      OBVIOUS
    <3>8. s \in [1 .. k + 1 -> S]
      BY <3>6
    <3>. HIDE DEF s
    <3>9. \A i, j \in 1 .. k + 1 : i # j => s[i] # s[j]
      BY <3>6, <3>7
    <3>10. ASSUME NEW j \in 1 .. k + 1, NEW i \in 1 .. j PROVE <<s[i], s[j]>> \in R
      <4>1. CASE j = k + 1
        BY <3>3, <3>7, <3>8, <4>1
      <4>2. CASE j \in 1 .. k
        <5>1. i \in 1 .. k
          BY <4>2
        <5>. QED  BY <3>6, <3>7, <4>2, <5>1
      <4>. QED  BY <3>7, <4>1, <4>2
    <3>11. Sorts(s, S, R)
      BY <2>1, <3>8, <3>9, <3>10 DEF Sorts
    <3>. QED  BY <3>11
  <2>. QED  BY <2>1
<1> HIDE DEF P
<1>4. \A k \in Nat : k \in P
  BY <1>2, <1>3, InductionOnNat
<1>5. T \in SUBSET T /\ Cardinality(T) \in P
  BY <1>1, <1>4
<1>. QED  BY <1>5 DEF P

\* Quotient and remainder.
LEMMA Division ==
    ASSUME NEW m \in Nat \ {0}, NEW x \in Nat
    PROVE  x \div m \in Nat /\ x % m \in 0 .. m - 1 /\ x = m * (x \div m) + (x % m)
OBVIOUS

\* A remainder is the only one.
LEMMA RemainderIsUnique ==
    ASSUME NEW m \in Nat \ {0}, NEW q \in Nat, NEW r \in 0 .. m - 1, NEW x \in Nat, x = m * q + r
    PROVE  x % m = r
<1> DEFINE p == x \div m
           s == x % m
<1>1. p \in Nat /\ s \in 0 .. m - 1 /\ x = m * p + s
  BY Division
<1> HIDE DEF p, s
<1>2. ~(p < q)
  <2>. SUFFICES ASSUME p < q PROVE FALSE
    OBVIOUS
  <2>1. p + 1 <= q
    BY <1>1
  <2>2. m * (p + 1) <= m * q /\ m * (p + 1) \in Nat /\ m * q \in Nat
    BY <1>1, <2>1, TimesIsMonotone
  <2>3. m * (p + 1) = m * p + m /\ m * p \in Nat
    BY <1>1
  <2>. QED  BY <1>1, <2>2, <2>3
<1>3. ~(q < p)
  <2>. SUFFICES ASSUME q < p PROVE FALSE
    OBVIOUS
  <2>1. q + 1 <= p
    BY <1>1
  <2>2. m * (q + 1) <= m * p /\ m * (q + 1) \in Nat /\ m * p \in Nat
    BY <1>1, <2>1, TimesIsMonotone
  <2>3. m * (q + 1) = m * q + m /\ m * q \in Nat
    OBVIOUS
  <2>. QED  BY <1>1, <2>2, <2>3
<1>4. p = q
  BY <1>1, <1>2, <1>3
<1>. QED  BY <1>1, <1>4 DEF s

\* Less than m steps do not come back.
LEMMA NoReturn ==
    ASSUME NEW m \in Nat \ {0}, NEW x \in Nat, NEW d \in 1 .. m - 1
    PROVE  (x + d) % m # x % m
<1> DEFINE q == x \div m
           r == x % m
<1>1. q \in Nat /\ r \in 0 .. m - 1 /\ x = m * q + r
  BY Division
<1>0. r = x % m
  OBVIOUS
<1> HIDE DEF q, r
<1>2. CASE r + d < m
  <2>1. x + d = m * q + (r + d) /\ r + d \in 0 .. m - 1 /\ x + d \in Nat
    BY <1>1, <1>2
  <2>2. (x + d) % m = r + d
    BY <1>1, <2>1, RemainderIsUnique
  <2>3. r + d # r
    BY <1>1
  <2>. QED  BY <1>0, <2>2, <2>3
<1>3. CASE ~(r + d < m)
  <2>. DEFINE y == x + d
              p == q + 1
              e == r + d - m
  <2>1. y = m * p + e
    BY <1>1
  <2>2. e \in 0 .. m - 1 /\ y \in Nat /\ p \in Nat
    BY <1>1, <1>3
  <2>. HIDE DEF y, p, e
  <2>3. y % m = e
    BY <2>1, <2>2, RemainderIsUnique
  <2>4. e # r
    BY <1>1 DEF e
  <2>. QED  BY <1>0, <2>3, <2>4 DEF y
<1>. QED  BY <1>2, <1>3

\* g gives the sums of f over parts of D.
Adds(g, D, f) ==
    IsFiniteSet(D) /\ f \in [D -> Nat] /\ g \in [SUBSET D -> Nat] /\ IsSum(g, D, f)

\* What SumAnyOrder says of them.
LEMMA AddsUp ==
    ASSUME NEW D, NEW f, NEW g, Adds(g, D, f)
    PROVE  /\ g[{}] = 0
           /\ \A s \in SUBSET D : \A x \in s : g[s] = f[x] + g[s \ {x}]
BY SumAnyOrder DEF Adds

\* No number of w is larger than that of v.
NoLarger(w, v, D) == \A x \in D : w[x] <= v[x]

\* Smaller numbers have a smaller sum.
LEMMA SmallerSum ==
    ASSUME NEW D, IsFiniteSet(D), NEW w \in [D -> Nat], NEW v \in [D -> Nat],
           NoLarger(w, v, D),
           NEW g \in [SUBSET D -> Nat], Adds(g, D, w), NEW h \in [SUBSET D -> Nat], Adds(h, D, v)
    PROVE  \A s \in SUBSET D : g[s] <= h[s]
<1> DEFINE P == {k \in Nat : \A s \in SUBSET D : Cardinality(s) = k => g[s] <= h[s]}
<1>1. \A s \in SUBSET D : IsFiniteSet(s) /\ Cardinality(s) \in Nat
  BY FS_Subset, FS_CardinalityType
<1>2. g[{}] = 0 /\ \A s \in SUBSET D : \A x \in s : g[s] = w[x] + g[s \ {x}]
  BY AddsUp
<1>3. h[{}] = 0 /\ \A s \in SUBSET D : \A x \in s : h[s] = v[x] + h[s \ {x}]
  BY AddsUp
<1>4. 0 \in P
  <2>1. \A s \in SUBSET D : Cardinality(s) = 0 => s = {}
    BY <1>1, FS_EmptySet
  <2>2. \A s \in SUBSET D : Cardinality(s) = 0 => g[s] = 0 /\ h[s] = 0
    BY <1>2, <1>3, <2>1
  <2>3. \A s \in SUBSET D : Cardinality(s) = 0 => g[s] <= h[s]
    BY <2>2
  <2>. QED  BY <2>3
<1>5. ASSUME NEW k \in Nat, k \in P PROVE k + 1 \in P
  <2>1. ASSUME NEW s \in SUBSET D, Cardinality(s) = k + 1 PROVE g[s] <= h[s]
    <3>0. IsFiniteSet(s) /\ s # {}
      <4>1. IsFiniteSet(s) /\ Cardinality(s) # 0
        BY <1>1, <2>1
      <4>. QED  BY <4>1, FS_EmptySet
    <3>1. PICK x \in s : TRUE
      BY <3>0
    <3>2. s \ {x} \in SUBSET D /\ Cardinality(s \ {x}) = k
      <4>1. Cardinality(s \ {x}) = Cardinality(s) - 1
        BY <3>0, <3>1, FS_RemoveElement
      <4>. QED  BY <2>1, <4>1
    <3>3. g[s \ {x}] <= h[s \ {x}]
      BY <1>5, <3>2
    <3>4. g[s] = w[x] + g[s \ {x}] /\ h[s] = v[x] + h[s \ {x}] /\ w[x] <= v[x]
      BY <1>2, <1>3, <3>1 DEF NoLarger
    <3>5. w[x] \in Nat /\ v[x] \in Nat /\ g[s \ {x}] \in Nat /\ h[s \ {x}] \in Nat
      BY <3>1, <3>2
    <3>. QED  BY <3>3, <3>4, <3>5
  <2>. QED  BY <2>1
<1> HIDE DEF P
<1>6. \A k \in Nat : k \in P
  BY <1>4, <1>5, InductionOnNat
<1>. QED  BY <1>1, <1>6 DEF P

\* Numbers that are none larger and have the same sum are the same.
LEMMA SameSum ==
    ASSUME NEW D, IsFiniteSet(D), NEW w \in [D -> Nat], NEW v \in [D -> Nat],
           NoLarger(w, v, D),
           NEW g \in [SUBSET D -> Nat], Adds(g, D, w), NEW h \in [SUBSET D -> Nat], Adds(h, D, v)
    PROVE  g[D] = h[D] => w = v
<1>1. \A s \in SUBSET D : g[s] <= h[s]
  BY SmallerSum
<1>2. g[{}] = 0 /\ \A s \in SUBSET D : \A x \in s : g[s] = w[x] + g[s \ {x}]
  BY AddsUp
<1>3. h[{}] = 0 /\ \A s \in SUBSET D : \A x \in s : h[s] = v[x] + h[s \ {x}]
  BY AddsUp
<1>4. ASSUME g[D] = h[D], NEW x \in D PROVE w[x] = v[x]
  <2>1. D \ {x} \in SUBSET D /\ D \in SUBSET D
    OBVIOUS
  <2>2. /\ g[D] = w[x] + g[D \ {x}] /\ h[D] = v[x] + h[D \ {x}]
        /\ g[D \ {x}] <= h[D \ {x}] /\ w[x] <= v[x]
    BY <1>1, <1>2, <1>3, <2>1 DEF NoLarger
  <2>3. w[x] \in Nat /\ v[x] \in Nat /\ g[D \ {x}] \in Nat /\ h[D \ {x}] \in Nat
    BY <2>1
  <2>. DEFINE a == w[x]
              b == v[x]
              c == g[D \ {x}]
              d == h[D \ {x}]
  <2>4. a \in Nat /\ b \in Nat /\ c \in Nat /\ d \in Nat /\ a + c = b + d /\ c <= d /\ a <= b
    BY <1>4, <2>2, <2>3
  <2>. HIDE DEF a, b, c, d
  <2>5. a = b
    BY <2>4
  <2>. QED  BY <2>5 DEF a, b
<1>. QED  BY <1>4

\* Two sets of one size, divided alike: if no part of the first is larger than
\* that of the second, none is smaller.
LEMMA PartsAgree ==
    ASSUME NEW D, IsFiniteSet(D), NEW R, IsFiniteSet(R), NEW Q, IsFiniteSet(Q),
           Cardinality(R) = Cardinality(Q),
           NEW f \in [R -> D], NEW e \in [Q -> D],
           NEW w \in [D -> Nat], HasParts(w, D, R, f), NEW v \in [D -> Nat], HasParts(v, D, Q, e),
           NoLarger(w, v, D)
    PROVE  w = v
<1>1. PICK g \in [SUBSET D -> Nat] : Adds(g, D, w)
  BY SumExists DEF Adds
<1>2. PICK h \in [SUBSET D -> Nat] : Adds(h, D, v)
  BY SumExists DEF Adds
<1>3. g[D] = Cardinality(R)
  BY <1>1, PartitionSum DEF Adds
<1>4. h[D] = Cardinality(Q)
  BY <1>2, PartitionSum DEF Adds
<1>5. g[D] = h[D]
  BY <1>3, <1>4
<1>6. g[D] = h[D] => w = v
  BY <1>1, <1>2, SameSum
<1>. QED  BY <1>5, <1>6

-------------------------------------------------------------------------------
(* Sequences of blocks *)

\* The largest of some indices of a sequence is one of its indices.
LEMMA MaxOfIndices ==
    ASSUME NEW n \in Nat, NEW i \in SUBSET (1 .. n), i # {}
    PROVE  Max(i) \in 1 .. n
<1>1. 1 .. n \subseteq 0 .. n
    OBVIOUS
<1>2. QED
    BY <1>1, MaxFacts

\* The token count of a sequence of blocks is a running sum over it.
LEMMA TokenSums ==
    ASSUME NEW B, \A b \in B : b.token_count \in Nat, NEW s \in Seq(B)
    PROVE  \E sum \in [0 .. Len(s) -> Nat] :
              /\ sum[0] = 0
              /\ \A k \in 1 .. Len(s) : sum[k] = sum[k - 1] + s[k].token_count
              /\ TokensOf(s) = sum[Len(s)]
<1> DEFINE n == Len(s)
           D == DOMAIN s
           Is(f) == f = [i \in SUBSET D |-> IF i = {} THEN 0
                                            ELSE f[i \ {Max(i)}] + s[Max(i)].token_count]
           fold == CHOOSE f : Is(f)
           G == [p \in (1 .. n) \X Nat |-> p[2] + s[p[1]].token_count]
<1>1. D = 1 .. n /\ n \in Nat /\ \A i \in 1 .. n : s[i] \in B
    BY LenProperties, ElementOfSeq
<1>2. TokensOf(s) = fold[D]
    BY Zenon DEF TokensOf, FoldLeft, MapThenFoldSet
<1> HIDE DEF n, D
<1>3. \A i \in 1 .. n, x \in Nat : G[<<i, x>>] = x + s[i].token_count
    OBVIOUS
<1> HIDE DEF G
<1>4. IsLeftFold(n, Nat, 0, G)
  <2>1. \A i \in 1 .. n, x \in Nat : x + s[i].token_count \in Nat
      BY <1>1
  <2>2. QED
      BY <1>1, <1>3, <2>1 DEF IsLeftFold
<1>5. Is(fold)
  <2>1. PICK g \in [SUBSET (1 .. n) -> Nat] : SolvesLeft(g, n, 0, G)
      BY <1>4, FoldLeftRecursion
  <2>2. ASSUME NEW i \in SUBSET (1 .. n)
        PROVE  g[i] = IF i = {} THEN 0 ELSE g[i \ {Max(i)}] + s[Max(i)].token_count
    <3>1. g[i \ {Max(i)}] \in Nat
        OBVIOUS
    <3>2. i # {} => Max(i) \in 1 .. n
        BY <1>1, MaxOfIndices
    <3>3. QED
        BY <1>3, <2>1, <3>1, <3>2 DEF SolvesLeft
  <2>3. Is(g)
      BY <1>1, <2>2
  <2>4. QED
      BY <2>3
<1>6. \A i \in SUBSET D : fold[i] = IF i = {} THEN 0 ELSE fold[i \ {Max(i)}] + s[Max(i)].token_count
    BY <1>5
<1> HIDE DEF fold
<1>7. fold[{}] = 0
    BY <1>6
<1>8. ASSUME NEW k \in 1 .. n, fold[1 .. (k - 1)] \in Nat
      PROVE  fold[1 .. k] = G[<<k, fold[1 .. (k - 1)]>>]
  <2>1. 1 .. k \in SUBSET D /\ 1 .. k # {} /\ Max(1 .. k) = k /\ (1 .. k) \ {k} = 1 .. (k - 1)
      BY <1>1, FoldLeftStep
  <2>2. fold[1 .. k] = fold[1 .. (k - 1)] + s[k].token_count
      BY <2>1, <1>6
  <2>3. QED
      BY <2>2, <1>3, <1>8
<1>9. PICK sum \in [0 .. n -> Nat] : IsRun(sum, n, 0, G) /\ sum[n] = fold[1 .. n]
    BY <1>4, <1>7, <1>8, FoldLeftRun
<1>10. \A k \in 1 .. n : sum[k] = sum[k - 1] + s[k].token_count
  <2>1. \A k \in 1 .. n : sum[k - 1] \in Nat
      BY <1>1
  <2>2. QED
      BY <2>1, <1>3, <1>9 DEF IsRun
<1>11. QED
    BY <1>1, <1>2, <1>9, <1>10 DEF n, IsRun

\* No blocks, no tokens.
LEMMA TokensOfNothing == TokensOf(<<>>) = 0
<1>1. <<>> \in Seq({}) /\ Len(<<>>) = 0
    BY EmptySeq
<1>2. QED
    BY <1>1, TokenSums

\* Blocks count a natural number of tokens together.
LEMMA TokensAreNatural ==
    ASSUME NEW B, \A b \in B : b.token_count \in Nat, NEW s \in Seq(B)
    PROVE  TokensOf(s) \in Nat
BY TokenSums, LenProperties

\* One more block adds its own tokens.
LEMMA TokensOfAppend ==
    ASSUME NEW B, \A b \in B : b.token_count \in Nat, NEW s \in Seq(B), NEW b \in B
    PROVE  TokensOf(Append(s, b)) = TokensOf(s) + b.token_count
<1> DEFINE t == Append(s, b)
           n == Len(s)
<1>1. /\ t \in Seq(B) /\ Len(t) = n + 1 /\ n \in Nat
      /\ t[n + 1] = b /\ \A i \in 1 .. n : t[i] = s[i]
    BY AppendProperties, LenProperties
<1>2. PICK u \in [0 .. n -> Nat] :
          u[0] = 0 /\ (\A k \in 1 .. n : u[k] = u[k - 1] + s[k].token_count) /\ TokensOf(s) = u[n]
    BY TokenSums
<1> HIDE DEF t
<1>3. PICK v \in [0 .. n + 1 -> Nat] :
          /\ v[0] = 0
          /\ \A k \in 1 .. n + 1 : v[k] = v[k - 1] + t[k].token_count
          /\ TokensOf(t) = v[n + 1]
    BY <1>1, TokenSums
<1>4. \A k \in 0 .. n : u[k] = v[k]
  <2> DEFINE P == {k \in 0 .. n : u[k] = v[k]}
  <2>1. 0 \in P
      BY <1>1, <1>2, <1>3
  <2>2. \A k \in 1 .. n : k - 1 \in P => k \in P
      BY <1>1, <1>2, <1>3
  <2> HIDE DEF P
  <2>3. \A k \in 0 .. n : k \in P
      BY <2>1, <2>2, <1>1, InductionUpTo
  <2>4. QED
      BY <2>3 DEF P
<1>5. QED
  <2>1. v[n + 1] = v[n] + t[n + 1].token_count
      BY <1>1, <1>3
  <2>2. QED
      BY <2>1, <1>1, <1>2, <1>3, <1>4 DEF t

\* A single block counts its own tokens.
LEMMA TokensOfOne ==
    ASSUME NEW B, \A b \in B : b.token_count \in Nat, NEW b \in B
    PROVE  <<b>> \in Seq(B) /\ TokensOf(<<b>>) = b.token_count
<1>1. <<>> \in Seq(B) /\ Append(<<>>, b) = <<b>>
    BY EmptySeq
<1>2. TokensOf(Append(<<>>, b)) = TokensOf(<<>>) + b.token_count
    BY <1>1, TokensOfAppend
<1>3. QED
    BY <1>1, <1>2, TokensOfNothing

\* A prefix is the shorter prefix with one more element.
LEMMA PrefixOneMore ==
    ASSUME NEW S, NEW s \in Seq(S), NEW k \in 1 .. Len(s)
    PROVE  /\ SubSeq(s, 1, k) = Append(SubSeq(s, 1, k - 1), s[k])
           /\ SubSeq(s, 1, k - 1) \in Seq(S)
           /\ Len(SubSeq(s, 1, k - 1)) = k - 1
           /\ s[k] \in S
<1>1. Len(s) \in Nat /\ s[k] \in S
    BY LenProperties, ElementOfSeq
<1>2. SubSeq(s, 1, k) = SubSeq(s, 1, k - 1) \o <<s[k]>>
    BY <1>1, SubSeqRecursiveSecond
<1>3. SubSeq(s, 1, k - 1) \in Seq(S) /\ Len(SubSeq(s, 1, k - 1)) = k - 1
    BY <1>1, SubSeqProperties, ElementOfSeq
<1>4. QED
    BY <1>1, <1>2, <1>3, AppendIsConcat

\* The elements of a prefix.
LEMMA PrefixFacts ==
    ASSUME NEW S, NEW s \in Seq(S), NEW k \in 0 .. Len(s)
    PROVE  /\ SubSeq(s, 1, k) \in Seq(S)
           /\ Len(SubSeq(s, 1, k)) = k
           /\ \A i \in 1 .. k : SubSeq(s, 1, k)[i] = s[i]
<1>1. Len(s) \in Nat
    BY LenProperties
<1>2. \A i \in 1 .. k : s[i] \in S
    BY <1>1, ElementOfSeq
<1>3. QED
    BY <1>1, <1>2, SubSeqProperties

\* The elements of a suffix.
LEMMA SuffixFacts ==
    ASSUME NEW S, NEW s \in Seq(S), NEW k \in 0 .. Len(s)
    PROVE  /\ SubSeq(s, k + 1, Len(s)) \in Seq(S)
           /\ Len(SubSeq(s, k + 1, Len(s))) = Len(s) - k
           /\ \A i \in 1 .. Len(s) - k : SubSeq(s, k + 1, Len(s))[i] = s[k + i]
<1>1. Len(s) \in Nat
    BY LenProperties
<1>2. \A i \in k + 1 .. Len(s) : s[i] \in S
    BY <1>1, ElementOfSeq
<1>3. /\ SubSeq(s, k + 1, Len(s)) \in Seq(S)
      /\ Len(SubSeq(s, k + 1, Len(s))) = IF k + 1 <= Len(s) THEN Len(s) - (k + 1) + 1 ELSE 0
      /\ \A i \in 1 .. Len(s) - (k + 1) + 1 : SubSeq(s, k + 1, Len(s))[i] = s[k + 1 + i - 1]
    BY <1>1, <1>2, SubSeqProperties
<1>4. QED
    BY <1>1, <1>3

\* The tokens of two sequences of blocks add up.
LEMMA TokensOfConcat ==
    ASSUME NEW B, \A b \in B : b.token_count \in Nat, NEW s \in Seq(B), NEW t \in Seq(B)
    PROVE  TokensOf(s \o t) = TokensOf(s) + TokensOf(t)
<1> DEFINE upto(k) == SubSeq(t, 1, k)
           P == {k \in 0 .. Len(t) : TokensOf(s \o upto(k)) = TokensOf(s) + TokensOf(upto(k))}
<1>1. Len(t) \in Nat /\ TokensOf(s) \in Nat
    BY LenProperties, TokensAreNatural
<1>2. 0 \in P
  <2>1. upto(0) = <<>> /\ s \o <<>> = s
      BY SubSeqEmpty, ConcatEmptySeq
  <2>2. TokensOf(s \o upto(0)) = TokensOf(s) + TokensOf(upto(0))
    <3>1. TokensOf(s \o upto(0)) = TokensOf(s)
        BY <2>1, Zenon
    <3>2. TokensOf(upto(0)) = 0
        BY <2>1, TokensOfNothing, Zenon
    <3>3. QED
        BY <3>1, <3>2, <1>1
  <2>3. 0 \in 0 .. Len(t)
      BY <1>1
  <2>4. QED
      BY <2>2, <2>3
<1>3. ASSUME NEW k \in 1 .. Len(t), k - 1 \in P PROVE k \in P
  <2>1. upto(k) = Append(upto(k - 1), t[k]) /\ upto(k - 1) \in Seq(B) /\ t[k] \in B
      BY PrefixOneMore
  <2>2. TokensOf(upto(k)) = TokensOf(upto(k - 1)) + t[k].token_count
      BY <2>1, TokensOfAppend
  <2>3. s \o upto(k) = Append(s \o upto(k - 1), t[k]) /\ s \o upto(k - 1) \in Seq(B)
    <3>1. <<t[k]>> \in Seq(B)
        BY <2>1
    <3>2. s \o (upto(k - 1) \o <<t[k]>>) = (s \o upto(k - 1)) \o <<t[k]>>
        BY <2>1, <3>1, ConcatAssociative
    <3>3. s \o upto(k - 1) \in Seq(B)
        BY <2>1, ConcatProperties
    <3>4. QED
        BY <2>1, <3>2, <3>3, AppendIsConcat
  <2>4. TokensOf(s \o upto(k)) = TokensOf(s \o upto(k - 1)) + t[k].token_count
      BY <2>1, <2>3, TokensOfAppend
  <2>5. TokensOf(upto(k - 1)) \in Nat /\ t[k].token_count \in Nat
      BY <2>1, TokensAreNatural
  <2>6. TokensOf(s \o upto(k - 1)) = TokensOf(s) + TokensOf(upto(k - 1))
      BY <1>3
  <2>7. QED
      BY <2>2, <2>4, <2>5, <2>6, <1>1
<1>4. Len(t) \in P
  <2> HIDE DEF P
  <2>1. \A k \in 1 .. Len(t) : k - 1 \in P => k \in P
      BY <1>3
  <2>2. \A k \in 0 .. Len(t) : k \in P
      BY <1>1, <1>2, <2>1, InductionUpTo
  <2>3. QED
      BY <2>2, <1>1
<1>5. upto(Len(t)) = t
    BY SubSeqFull
<1>6. QED
    BY <1>4, <1>5

\* What is cut off and what stays add up.
LEMMA TokensOfSplit ==
    ASSUME NEW B, \A b \in B : b.token_count \in Nat, NEW s \in Seq(B), NEW k \in 0 .. Len(s)
    PROVE  /\ TokensOf(SubSeq(s, 1, k)) \in Nat
           /\ TokensOf(SubSeq(s, k + 1, Len(s))) \in Nat
           /\ TokensOf(s) = TokensOf(SubSeq(s, 1, k)) + TokensOf(SubSeq(s, k + 1, Len(s)))
<1>1. Len(s) \in Nat
    BY LenProperties
<1>2. SubSeq(s, 1, k) \in Seq(B) /\ SubSeq(s, k + 1, Len(s)) \in Seq(B)
    BY PrefixFacts, SuffixFacts
<1>3. SubSeq(s, 1, k) \o SubSeq(s, k + 1, Len(s)) = s
  <2>1. SubSeq(s, 1, k) \o SubSeq(s, k + 1, Len(s)) = SubSeq(s, 1, Len(s))
    <3>1. 1 \in 1 .. Len(s) + 1 /\ k \in 1 - 1 .. Len(s) /\ Len(s) \in k .. Len(s)
        BY <1>1
    <3>2. QED
        BY <3>1, ConcatAdjacentSubSeq
  <2>2. QED
      BY <2>1, SubSeqFull
<1>4. QED
    BY <1>2, <1>3, TokensOfConcat, TokensAreNatural

\* The elements of a sequence without its i-th.
LEMMA RemoveAtFacts ==
    ASSUME NEW S, NEW s \in Seq(S), NEW i \in 1 .. Len(s)
    PROVE  /\ RemoveAt(s, i) \in Seq(S)
           /\ Len(RemoveAt(s, i)) = Len(s) - 1
           /\ \A j \in 1 .. Len(s) - 1 : RemoveAt(s, i)[j] = IF j < i THEN s[j] ELSE s[j + 1]
<1>1. Len(s) \in Nat /\ i - 1 \in 0 .. Len(s) /\ i \in 0 .. Len(s)
    BY LenProperties
<1> DEFINE u == SubSeq(s, 1, i - 1)
           v == SubSeq(s, i + 1, Len(s))
<1>2. u \in Seq(S) /\ Len(u) = i - 1 /\ \A j \in 1 .. i - 1 : u[j] = s[j]
    BY <1>1, PrefixFacts
<1>3. v \in Seq(S) /\ Len(v) = Len(s) - i /\ \A j \in 1 .. Len(s) - i : v[j] = s[i + j]
    BY <1>1, SuffixFacts
<1>4. /\ u \o v \in Seq(S)
      /\ Len(u \o v) = Len(u) + Len(v)
      /\ \A j \in 1 .. Len(u) + Len(v) : (u \o v)[j] = IF j <= Len(u) THEN u[j] ELSE v[j - Len(u)]
    BY <1>2, <1>3, ConcatProperties
<1>5. RemoveAt(s, i) = u \o v
    BY DEF RemoveAt
<1> HIDE DEF u, v
<1>6. Len(u \o v) = Len(s) - 1
    BY <1>1, <1>2, <1>3, <1>4
<1>7. ASSUME NEW j \in 1 .. Len(s) - 1
      PROVE  (u \o v)[j] = IF j < i THEN s[j] ELSE s[j + 1]
  <2>1. CASE j < i
      BY <2>1, <1>1, <1>2, <1>3, <1>4
  <2>2. CASE ~(j < i)
    <3>1. j - (i - 1) \in 1 .. Len(s) - i /\ i + (j - (i - 1)) = j + 1
        BY <2>2, <1>1
    <3>2. (u \o v)[j] = v[j - (i - 1)]
        BY <2>2, <1>1, <1>2, <1>3, <1>4
    <3>3. QED
        BY <2>2, <3>1, <3>2, <1>3
  <2>3. QED
      BY <2>1, <2>2
<1>8. QED
    BY <1>4, <1>5, <1>6, <1>7

\* Taking one block out takes its tokens out.
LEMMA TokensOfRemoveAt ==
    ASSUME NEW B, \A b \in B : b.token_count \in Nat, NEW s \in Seq(B), NEW i \in 1 .. Len(s)
    PROVE  TokensOf(s) = TokensOf(RemoveAt(s, i)) + s[i].token_count
<1>1. Len(s) \in Nat /\ i - 1 \in 0 .. Len(s) /\ i \in 0 .. Len(s) /\ s[i] \in B
    BY LenProperties, ElementOfSeq
<1>2. TokensOf(s) = TokensOf(SubSeq(s, 1, i)) + TokensOf(SubSeq(s, i + 1, Len(s)))
    BY <1>1, TokensOfSplit
<1>3. TokensOf(SubSeq(s, 1, i)) = TokensOf(SubSeq(s, 1, i - 1)) + s[i].token_count
  <2>1. SubSeq(s, 1, i) = Append(SubSeq(s, 1, i - 1), s[i]) /\ SubSeq(s, 1, i - 1) \in Seq(B)
      BY PrefixOneMore
  <2>2. QED
      BY <2>1, <1>1, TokensOfAppend
<1>4. TokensOf(RemoveAt(s, i)) = TokensOf(SubSeq(s, 1, i - 1)) + TokensOf(SubSeq(s, i + 1, Len(s)))
  <2>1. SubSeq(s, 1, i - 1) \in Seq(B) /\ SubSeq(s, i + 1, Len(s)) \in Seq(B)
      BY <1>1, PrefixFacts, SuffixFacts
  <2>2. QED
      BY <2>1, TokensOfConcat DEF RemoveAt
<1>5. /\ TokensOf(SubSeq(s, 1, i - 1)) \in Nat
      /\ TokensOf(SubSeq(s, i + 1, Len(s))) \in Nat
      /\ s[i].token_count \in Nat
    BY <1>1, TokensOfSplit
<1>6. QED
    BY <1>2, <1>3, <1>4, <1>5

-------------------------------------------------------------------------------
(* The operations of PrefixTable *)

\* A set of blocks whose key determines the token count.
BlockSet(B) ==
    /\ \A b \in B : b.token_count \in Nat
    /\ \A b, c \in B : b.key = c.key => b.token_count = c.token_count

\* The logical blocks of some blocks.
Logical(B) == {[key |-> b.logical_key, token_count |-> b.token_count] : b \in B}

\* PrefixTable: its blocks in order of use, and its counters.
Tables(B) ==
    [blocks : Seq(B), logical_blocks : SUBSET Logical(B),
     lookup_count : Nat, hit_count : Nat, eviction_count : Nat, evicted_token_count : Nat]

\* A dictionary holds a key once.
KeysDiffer(t) ==
    \A i, j \in 1 .. Len(t.blocks) : t.blocks[i].key = t.blocks[j].key => i = j

\* The tables that the operations of PrefixTable can produce from blocks B.
Good(B) == {t \in Tables(B) : KeysDiffer(t)}

\* A new PrefixTable is one of them.
LEMMA EmptyTableGood ==
    ASSUME NEW B
    PROVE  EmptyTable \in Good(B) /\ cached_tokens(EmptyTable) = 0 /\ Keys(EmptyTable) = {}
<1>1. <<>> \in Seq(B) /\ Len(<<>>) = 0
    BY EmptySeq
<1>2. EmptyTable \in Tables(B)
    BY <1>1 DEF EmptyTable, Tables
<1>3. KeysDiffer(EmptyTable) /\ Keys(EmptyTable) = {}
    BY <1>1 DEF EmptyTable, KeysDiffer, Keys
<1>4. cached_tokens(EmptyTable) = 0
    BY TokensOfNothing DEF EmptyTable, cached_tokens
<1>5. QED
    BY <1>2, <1>3, <1>4 DEF Good

\* What holds of each of them.
LEMMA GoodFacts ==
    ASSUME NEW B, BlockSet(B), NEW t \in Good(B)
    PROVE  /\ t \in Tables(B) /\ KeysDiffer(t)
           /\ t.blocks \in Seq(B) /\ Len(t.blocks) \in Nat
           /\ \A i \in 1 .. Len(t.blocks) : t.blocks[i] \in B
           /\ cached_tokens(t) \in Nat
           /\ t.lookup_count \in Nat /\ t.hit_count \in Nat
           /\ t.eviction_count \in Nat /\ t.evicted_token_count \in Nat
<1>1. t \in Tables(B) /\ KeysDiffer(t)
    BY DEF Good
<1>2. t.blocks \in Seq(B) /\ t.lookup_count \in Nat /\ t.hit_count \in Nat
      /\ t.eviction_count \in Nat /\ t.evicted_token_count \in Nat
    BY <1>1 DEF Tables
<1>3. Len(t.blocks) \in Nat /\ \A i \in 1 .. Len(t.blocks) : t.blocks[i] \in B
    BY <1>2, LenProperties, ElementOfSeq
<1>4. cached_tokens(t) \in Nat
    BY <1>2, TokensAreNatural DEF cached_tokens, BlockSet
<1>5. QED
    BY <1>1, <1>2, <1>3, <1>4

\* Replacing the blocks of a table leaves the rest.
LEMMA WithBlocks ==
    ASSUME NEW B, NEW t \in Tables(B), NEW s \in Seq(B)
    PROVE  LET u == [t EXCEPT !.blocks = s]
           IN  /\ u \in Tables(B)
               /\ u.blocks = s
               /\ u.logical_blocks = t.logical_blocks
               /\ u.lookup_count = t.lookup_count
               /\ u.hit_count = t.hit_count
               /\ u.eviction_count = t.eviction_count
               /\ u.evicted_token_count = t.evicted_token_count
BY DEF Tables

\* move_to_end takes the block with the key of b out and appends b.
LEMMA MoveToEnd ==
    ASSUME NEW B, BlockSet(B), NEW t \in Good(B), NEW b, b.key \in Keys(t)
    PROVE  \E i \in 1 .. Len(t.blocks) :
              /\ t.blocks[i].key = b.key
              /\ move_to_end(t, b) = [t EXCEPT !.blocks = Append(RemoveAt(t.blocks, i), b)]
<1> DEFINE s == t.blocks
           I == {i \in 1 .. Len(s) : s[i].key = b.key}
<1>1. I # {} /\ I \subseteq Nat
    BY GoodFacts DEF Keys
<1>2. Min(I) \in I
    BY <1>1, MinFacts
<1>3. RemoveFirstMatch(s, LAMBDA c : c.key = b.key) = RemoveAt(s, Min(I))
    BY <1>1, Zenon DEF RemoveFirstMatch, SelectInSeq
<1>4. move_to_end(t, b) = [t EXCEPT !.blocks = Append(RemoveFirstMatch(@, LAMBDA c : c.key = b.key), b)]
    BY Zenon DEF move_to_end
<1>5. move_to_end(t, b) = [t EXCEPT !.blocks = Append(RemoveAt(s, Min(I)), b)]
    BY <1>3, <1>4, Zenon
<1>6. QED
    BY <1>2, <1>5

\* move_to_end changes the order only: keys, tokens and counters stay.
LEMMA MoveKeeps ==
    ASSUME NEW B, BlockSet(B), NEW t \in Good(B), NEW b \in B, b.key \in Keys(t)
    PROVE  LET u == move_to_end(t, b)
           IN  /\ u \in Good(B)
               /\ Keys(u) = Keys(t)
               /\ cached_tokens(u) = cached_tokens(t)
               /\ u.lookup_count = t.lookup_count
               /\ u.hit_count = t.hit_count
               /\ u.eviction_count = t.eviction_count
               /\ u.evicted_token_count = t.evicted_token_count
<1> DEFINE s == t.blocks
           n == Len(s)
           u == move_to_end(t, b)
<1>1. /\ t \in Tables(B) /\ KeysDiffer(t) /\ s \in Seq(B) /\ n \in Nat
      /\ \A i \in 1 .. n : s[i] \in B
    BY GoodFacts
<1>2. PICK i \in 1 .. n : s[i].key = b.key /\ u = [t EXCEPT !.blocks = Append(RemoveAt(s, i), b)]
    BY MoveToEnd
<1> DEFINE r == RemoveAt(s, i)
           v == Append(r, b)
<1>3. /\ r \in Seq(B) /\ Len(r) = n - 1
      /\ \A j \in 1 .. n - 1 : r[j] = IF j < i THEN s[j] ELSE s[j + 1]
    BY <1>1, RemoveAtFacts
<1>4. /\ v \in Seq(B) /\ Len(v) = n
      /\ \A j \in 1 .. n - 1 : v[j] = r[j]
      /\ v[n] = b
  <2>1. /\ v \in Seq(B) /\ Len(v) = Len(r) + 1
        /\ \A j \in 1 .. Len(r) : v[j] = r[j]
        /\ v[Len(r) + 1] = b
      BY <1>3, AppendProperties
  <2>2. QED
      BY <2>1, <1>1, <1>3
<1>5. /\ u \in Tables(B) /\ u.blocks = v
      /\ u.lookup_count = t.lookup_count /\ u.hit_count = t.hit_count
      /\ u.eviction_count = t.eviction_count /\ u.evicted_token_count = t.evicted_token_count
  <2>1. u = [t EXCEPT !.blocks = v]
      BY <1>2, Zenon
  <2> HIDE DEF u, v
  <2>2. QED
      BY <1>1, <1>4, <2>1, WithBlocks
<1> DEFINE from(j) == IF j = n THEN i ELSE IF j < i THEN j ELSE j + 1
<1>6. \A j \in 1 .. n : from(j) \in 1 .. n /\ v[j].key = s[from(j)].key
    BY <1>1, <1>2, <1>3, <1>4
<1>7. \A j, k \in 1 .. n : from(j) = from(k) => j = k
    BY <1>1
<1>8. KeysDiffer(u)
  <2> SUFFICES ASSUME NEW j \in 1 .. n, NEW k \in 1 .. n, v[j].key = v[k].key PROVE j = k
      BY <1>4, <1>5 DEF KeysDiffer
  <2>1. s[from(j)].key = s[from(k)].key
      BY <1>6
  <2>2. from(j) = from(k)
      BY <2>1, <1>1, <1>6 DEF KeysDiffer
  <2>3. QED
      BY <2>2, <1>7
<1>9. Keys(u) = Keys(t)
  <2>1. \A k \in 1 .. n : \E j \in 1 .. n : from(j) = k
    <3> SUFFICES ASSUME NEW k \in 1 .. n PROVE \E j \in 1 .. n : from(j) = k
        OBVIOUS
    <3>1. CASE k = i
        BY <3>1, <1>1
    <3>2. CASE k < i
        BY <3>2, <1>1
    <3>3. CASE k > i
      <4>1. k - 1 \in 1 .. n /\ from(k - 1) = k
          BY <3>3, <1>1
      <4>2. QED
          BY <4>1
    <3>4. QED
        BY <3>1, <3>2, <3>3, <1>1
  <2> HIDE DEF from
  <2>2. Keys(u) = {v[j].key : j \in 1 .. n} /\ Keys(t) = {s[j].key : j \in 1 .. n}
      BY <1>4, <1>5 DEF Keys
  <2>3. \A j \in 1 .. n : v[j].key \in Keys(t)
      BY <2>2, <1>6
  <2>4. \A k \in 1 .. n : s[k].key \in Keys(u)
    <3> SUFFICES ASSUME NEW k \in 1 .. n PROVE s[k].key \in Keys(u)
        OBVIOUS
    <3>1. PICK j \in 1 .. n : from(j) = k
        BY <2>1
    <3>2. v[j].key = s[k].key
        BY <3>1, <1>6
    <3>3. QED
        BY <3>2, <2>2
  <2>5. Keys(u) \subseteq Keys(t)
      BY <2>2, <2>3
  <2>6. Keys(t) \subseteq Keys(u)
      BY <2>2, <2>4
  <2>7. QED
      BY <2>5, <2>6
<1>10. cached_tokens(u) = cached_tokens(t)
  <2>1. s[i] \in B /\ s[i].token_count = b.token_count /\ b.token_count \in Nat
      BY <1>1, <1>2 DEF BlockSet
  <2>2. TokensOf(v) = TokensOf(r) + b.token_count
      BY <1>3, TokensOfAppend DEF BlockSet
  <2>3. TokensOf(s) = TokensOf(r) + s[i].token_count
      BY <1>1, TokensOfRemoveAt DEF BlockSet
  <2>4. QED
      BY <2>1, <2>2, <2>3, <1>5 DEF cached_tokens
<1>11. QED
    BY <1>5, <1>8, <1>9, <1>10 DEF Good

\* contains counts a lookup, and a hit when the key is there, and moves the
\* block that was hit to the end.
LEMMA ContainsKeeps ==
    ASSUME NEW B, BlockSet(B), NEW t \in Good(B), NEW b \in B
    PROVE  LET u == contains(t, b)
           IN  /\ u \in Good(B)
               /\ Keys(u) = Keys(t)
               /\ cached_tokens(u) = cached_tokens(t)
               /\ u.lookup_count = t.lookup_count + 1
               /\ u.hit_count = IF b.key \in Keys(t) THEN t.hit_count + 1 ELSE t.hit_count
               /\ u.evicted_token_count = t.evicted_token_count
               /\ b.key \in Keys(t) => u.blocks = move_to_end(t, b).blocks
<1> DEFINE u == contains(t, b)
           m == move_to_end(t, b)
<1>1. CASE b.key \in Keys(t)
  <2>1. /\ m \in Good(B) /\ Keys(m) = Keys(t) /\ cached_tokens(m) = cached_tokens(t)
        /\ m.lookup_count = t.lookup_count /\ m.hit_count = t.hit_count
        /\ m.evicted_token_count = t.evicted_token_count
      BY <1>1, MoveKeeps
  <2>2. u = [m EXCEPT !.lookup_count = @ + 1, !.hit_count = @ + 1]
      BY <1>1 DEF contains
  <2> HIDE DEF m, u
  <2>3. m \in Tables(B) /\ KeysDiffer(m) /\ m.lookup_count \in Nat /\ m.hit_count \in Nat
      BY <2>1, GoodFacts
  <2>4. /\ u \in Tables(B) /\ u.blocks = m.blocks /\ u.lookup_count = m.lookup_count + 1
        /\ u.hit_count = m.hit_count + 1 /\ u.evicted_token_count = m.evicted_token_count
    <3>1. m.lookup_count + 1 \in Nat /\ m.hit_count + 1 \in Nat
        BY <2>3
    <3>2. u = [m EXCEPT !.lookup_count = m.lookup_count + 1, !.hit_count = m.hit_count + 1]
        BY <2>2, <2>3 DEF Tables
    <3>3. QED
        BY <2>3, <3>1, <3>2 DEF Tables
  <2>5. KeysDiffer(u) /\ Keys(u) = Keys(m) /\ cached_tokens(u) = cached_tokens(m)
      BY <2>3, <2>4 DEF KeysDiffer, Keys, cached_tokens
  <2>6. QED
      BY <1>1, <2>1, <2>4, <2>5 DEF Good, m, u
<1>2. CASE b.key \notin Keys(t)
  <2>1. u = [t EXCEPT !.lookup_count = @ + 1]
      BY <1>2 DEF contains
  <2> HIDE DEF u
  <2>2. t \in Tables(B) /\ KeysDiffer(t) /\ t.lookup_count \in Nat
      BY GoodFacts
  <2>3. /\ u \in Tables(B) /\ u.blocks = t.blocks /\ u.lookup_count = t.lookup_count + 1
        /\ u.hit_count = t.hit_count /\ u.evicted_token_count = t.evicted_token_count
      BY <2>1, <2>2 DEF Tables
  <2>4. KeysDiffer(u) /\ Keys(u) = Keys(t) /\ cached_tokens(u) = cached_tokens(t)
      BY <2>2, <2>3 DEF KeysDiffer, Keys, cached_tokens
  <2>5. QED
      BY <1>2, <2>3, <2>4 DEF Good, u
<1>3. QED
    BY <1>1, <1>2

\* A new key is appended and its tokens are added.
LEMMA InsertKeeps ==
    ASSUME NEW B, BlockSet(B), NEW t \in Good(B), NEW b \in B, b.key \notin Keys(t)
    PROVE  LET u == Insert(t, b)
           IN  /\ u \in Good(B)
               /\ u.blocks = Append(t.blocks, b)
               /\ Keys(u) = Keys(t) \cup {b.key}
               /\ cached_tokens(u) = cached_tokens(t) + b.token_count
               /\ u.lookup_count = t.lookup_count
               /\ u.hit_count = t.hit_count
               /\ u.evicted_token_count = t.evicted_token_count
<1> DEFINE s == t.blocks
           n == Len(s)
           u == Insert(t, b)
           v == Append(s, b)
<1>1. /\ t \in Tables(B) /\ KeysDiffer(t) /\ s \in Seq(B) /\ n \in Nat
      /\ \A i \in 1 .. n : s[i] \in B
    BY GoodFacts
<1>2. /\ v \in Seq(B) /\ Len(v) = n + 1 /\ v[n + 1] = b
      /\ \A i \in 1 .. n : v[i] = s[i]
    BY <1>1, AppendProperties
<1>3. /\ u \in Tables(B) /\ u.blocks = v
      /\ u.lookup_count = t.lookup_count /\ u.hit_count = t.hit_count
      /\ u.evicted_token_count = t.evicted_token_count
  <2> DEFINE l == IF \E l \in t.logical_blocks : l.key = b.logical_key THEN t.logical_blocks
                  ELSE t.logical_blocks \cup
                           {[key |-> b.logical_key, token_count |-> b.token_count]}
  <2>1. u = [t EXCEPT !.blocks = v, !.logical_blocks = l]
      BY <1>1 DEF Insert, Tables
  <2>2. l \in SUBSET Logical(B)
    <3>1. t.logical_blocks \in SUBSET Logical(B)
        BY <1>1 DEF Tables
    <3>2. QED
        BY <3>1 DEF Logical
  <2> HIDE DEF u, v, l
  <2>3. QED
      BY <1>1, <1>2, <2>1, <2>2 DEF Tables
<1> HIDE DEF u, v
<1>4. \A i \in 1 .. n : s[i].key # b.key
    BY <1>1 DEF Keys
<1>5. KeysDiffer(u)
  <2> SUFFICES ASSUME NEW i \in 1 .. n + 1, NEW j \in 1 .. n + 1, v[i].key = v[j].key PROVE i = j
      BY <1>2, <1>3 DEF KeysDiffer
  <2>1. CASE i \in 1 .. n /\ j \in 1 .. n
      BY <2>1, <1>1, <1>2 DEF KeysDiffer
  <2>2. CASE i = n + 1 \/ j = n + 1
      BY <2>2, <1>1, <1>2, <1>4
  <2>3. QED
      BY <2>1, <2>2, <1>1
<1>6. Keys(u) = Keys(t) \cup {b.key}
  <2>1. Keys(u) = {v[i].key : i \in 1 .. n + 1} /\ Keys(t) = {s[i].key : i \in 1 .. n}
      BY <1>2, <1>3 DEF Keys
  <2>2. \A i \in 1 .. n + 1 : v[i].key \in Keys(t) \cup {b.key}
      BY <2>1, <1>1, <1>2
  <2>3. \A i \in 1 .. n : s[i].key \in Keys(u)
      BY <2>1, <1>1, <1>2
  <2>4. b.key \in Keys(u)
    <3>1. n + 1 \in 1 .. n + 1
        BY <1>1
    <3>2. QED
        BY <3>1, <2>1, <1>2
  <2>5. QED
      BY <2>1, <2>2, <2>3, <2>4
<1>7. cached_tokens(u) = cached_tokens(t) + b.token_count
    BY <1>1, <1>3, TokensOfAppend DEF cached_tokens, v, BlockSet
<1>8. QED
    BY <1>3, <1>5, <1>6, <1>7 DEF Good, u, v

\* Every token a table ever stored: those it holds and those it evicted.
footprint(t) == cached_tokens(t) + t.evicted_token_count

\* evict_if_needed drops the oldest blocks, no more than it must, until the
\* rest is within the budget, and counts the tokens of those it drops.
LEMMA EvictKeeps ==
    ASSUME NEW B, BlockSet(B), NEW t \in Good(B), NEW budget \in Nat, budget # NoBudget
    PROVE  \E d \in 0 .. Len(t.blocks) :
               LET u == evict_if_needed(t, budget)
               IN  /\ u \in Good(B)
                   /\ u.blocks = SubSeq(t.blocks, d + 1, Len(t.blocks))
                   /\ cached_tokens(u) <= budget
                   /\ footprint(u) = footprint(t)
                   /\ u.lookup_count = t.lookup_count
                   /\ u.hit_count = t.hit_count
                   /\ Keys(u) \subseteq Keys(t)
                   /\ \A m \in 0 .. Len(t.blocks) :
                         TokensOf(SubSeq(t.blocks, m + 1, Len(t.blocks))) <= budget => d <= m
<1> DEFINE s == t.blocks
           n == Len(s)
           after(m) == SubSeq(s, m + 1, n)
           T == {m \in 0 .. n : TokensOf(after(m)) <= budget}
           d == Min(T)
           u == evict_if_needed(t, budget)
<1>1. /\ t \in Tables(B) /\ KeysDiffer(t) /\ s \in Seq(B) /\ n \in Nat
      /\ t.eviction_count \in Nat /\ t.evicted_token_count \in Nat
    BY GoodFacts
<1>2. n \in T
  <2>1. after(n) = <<>>
      BY <1>1, SubSeqEmpty
  <2>2. TokensOf(after(n)) = 0
      BY <2>1, TokensOfNothing, Zenon
  <2>3. QED
      BY <2>2, <1>1
<1>3. d \in T /\ \A m \in T : d <= m
  <2>1. T \subseteq Nat /\ T # {}
      BY <1>2
  <2> HIDE DEF T
  <2>2. QED
      BY <2>1, MinFacts
<1>4. u = [t EXCEPT !.blocks = after(d), !.eviction_count = @ + d,
                    !.evicted_token_count = @ + TokensOf(SubSeq(s, 1, d))]
    BY Zenon DEF evict_if_needed
<1> HIDE DEF u, d
<1>5. /\ d \in 0 .. n /\ TokensOf(after(d)) <= budget
      /\ \A m \in 0 .. n : TokensOf(after(m)) <= budget => d <= m
    BY <1>3
<1>6. /\ after(d) \in Seq(B) /\ Len(after(d)) = n - d
      /\ \A i \in 1 .. n - d : after(d)[i] = s[d + i]
    BY <1>1, <1>5, SuffixFacts
<1>7. /\ TokensOf(SubSeq(s, 1, d)) \in Nat /\ TokensOf(after(d)) \in Nat
      /\ TokensOf(s) = TokensOf(SubSeq(s, 1, d)) + TokensOf(after(d))
    BY <1>1, <1>5, TokensOfSplit DEF BlockSet
<1>8. /\ u \in Tables(B) /\ u.blocks = after(d)
      /\ u.lookup_count = t.lookup_count /\ u.hit_count = t.hit_count
      /\ u.evicted_token_count = t.evicted_token_count + TokensOf(SubSeq(s, 1, d))
  <2> DEFINE a == after(d)
             e == t.evicted_token_count + TokensOf(SubSeq(s, 1, d))
             c == t.eviction_count + d
  <2>1. u = [t EXCEPT !.blocks = a, !.eviction_count = c, !.evicted_token_count = e]
      BY <1>1, <1>4 DEF Tables
  <2>2. a \in Seq(B) /\ c \in Nat /\ e \in Nat
      BY <1>1, <1>5, <1>6, <1>7
  <2> HIDE DEF a, c, e
  <2>3. /\ u \in Tables(B) /\ u.blocks = a
        /\ u.lookup_count = t.lookup_count /\ u.hit_count = t.hit_count
        /\ u.evicted_token_count = e
      BY <1>1, <2>1, <2>2 DEF Tables
  <2>4. QED
      BY <2>3 DEF a, e
<1>9. KeysDiffer(u)
  <2> SUFFICES ASSUME NEW i \in 1 .. n - d, NEW j \in 1 .. n - d,
                      after(d)[i].key = after(d)[j].key
               PROVE  i = j
      BY <1>6, <1>8 DEF KeysDiffer
  <2>1. d + i \in 1 .. n /\ d + j \in 1 .. n /\ s[d + i].key = s[d + j].key
      BY <1>1, <1>5, <1>6
  <2>2. d + i = d + j
      BY <2>1, <1>1 DEF KeysDiffer
  <2>3. QED
      BY <2>2, <1>1, <1>5
<1>10. cached_tokens(u) <= budget /\ footprint(u) = footprint(t)
    BY <1>1, <1>5, <1>7, <1>8 DEF cached_tokens, footprint
<1>11. Keys(u) \subseteq Keys(t)
  <2>1. \A i \in 1 .. n - d : d + i \in 1 .. n /\ after(d)[i] = s[d + i]
      BY <1>1, <1>5, <1>6
  <2> HIDE DEF after
  <2>2. QED
      BY <2>1, <1>6, <1>8 DEF Keys
<1>12. QED
    BY <1>5, <1>8, <1>9, <1>10, <1>11 DEF Good, u

\* add stores a block within the budget and counts its tokens once.  A budget is
\* None or a natural number.
LEMMA AddKeeps ==
    ASSUME NEW B, BlockSet(B), NEW t \in Good(B), NEW b \in B,
           NEW budget, budget = NoBudget \/ budget \in Nat
    PROVE  LET u == add(t, b, budget)
           IN  /\ u \in Good(B)
               /\ u.lookup_count = t.lookup_count
               /\ u.hit_count = t.hit_count
               /\ budget # NoBudget /\ cached_tokens(t) <= budget => cached_tokens(u) <= budget
               /\ b.key \in Keys(t) => Keys(u) = Keys(t) /\ footprint(u) = footprint(t)
               /\ footprint(u) <= footprint(t) + b.token_count
               /\ Keys(u) \subseteq Keys(t) \cup {b.key}
               /\ budget = NoBudget => Keys(u) = Keys(t) \cup {b.key}
               /\ budget = NoBudget /\ b.key \notin Keys(t) =>
                      footprint(u) = footprint(t) + b.token_count
<1> DEFINE u == add(t, b, budget)
           i == Insert(t, b)
<1>1. /\ cached_tokens(t) \in Nat /\ t.evicted_token_count \in Nat
      /\ b.token_count \in Nat
    BY GoodFacts DEF BlockSet
<1>2. footprint(t) \in Nat
    BY <1>1 DEF footprint
<1>3. CASE budget # NoBudget /\ b.token_count > budget
  <2>1. u = t
      BY <1>3 DEF add
  <2>2. QED
      BY <2>1, <1>1, <1>2, <1>3
<1>4. CASE ~(budget # NoBudget /\ b.token_count > budget) /\ b.key \in Keys(t)
  <2>1. u = move_to_end(t, b)
      BY <1>4 DEF add
  <2>2. /\ u \in Good(B) /\ Keys(u) = Keys(t) /\ cached_tokens(u) = cached_tokens(t)
        /\ u.lookup_count = t.lookup_count /\ u.hit_count = t.hit_count
        /\ u.evicted_token_count = t.evicted_token_count
      BY <1>4, <2>1, MoveKeeps
  <2> HIDE DEF u
  <2>3. footprint(u) = footprint(t)
      BY <2>2 DEF footprint
  <2>4. QED
      BY <2>2, <2>3, <1>1, <1>2, <1>4 DEF u
<1>5. CASE ~(budget # NoBudget /\ b.token_count > budget) /\ b.key \notin Keys(t)
  <2>1. u = evict_if_needed(i, budget)
      BY <1>5 DEF add
  <2>2. /\ i \in Good(B) /\ Keys(i) = Keys(t) \cup {b.key}
        /\ cached_tokens(i) = cached_tokens(t) + b.token_count
        /\ i.lookup_count = t.lookup_count /\ i.hit_count = t.hit_count
        /\ i.evicted_token_count = t.evicted_token_count
      BY <1>5, InsertKeeps
  <2> HIDE DEF i
  <2>3. footprint(i) = footprint(t) + b.token_count
      BY <2>2, <1>1 DEF footprint
  <2>4. CASE budget = NoBudget
    <3>1. u = i
        BY <2>1, <2>4 DEF evict_if_needed
    <3> HIDE DEF u
    <3>2. QED
        BY <3>1, <2>2, <2>3, <2>4, <1>2, <1>1, <1>5 DEF u
  <2>5. CASE budget # NoBudget
    <3>1. budget \in Nat
        BY <2>5
    <3>2. /\ u \in Good(B) /\ cached_tokens(u) <= budget /\ footprint(u) = footprint(i)
          /\ u.lookup_count = i.lookup_count /\ u.hit_count = i.hit_count
          /\ Keys(u) \subseteq Keys(i)
        BY <3>1, <2>1, <2>2, <2>5, EvictKeeps
    <3> HIDE DEF u
    <3>3. QED
        BY <3>2, <2>2, <2>3, <2>5, <1>2, <1>1, <1>5 DEF u
  <2>6. QED
      BY <2>4, <2>5
<1>6. QED
    BY <1>3, <1>4, <1>5

===============================================================================
